# NIAC: a verification project in TLA+

NIAC simulates networks of devices. A daemon runs *sessions*, each a virtual
network attached to a host interface; a session's protocol stack answers the
frames of whoever is plugged into it and owns one state store per device;
timelines, faults and command sessions change the stores; stores announce their
changes as SNMP notifications. Sessions survive a crash of the daemon.

This directory holds TLA+ modules translated from the code, TLC configurations
that check them on small instances, and proofs checked by TLAPS for instances of
any size. `PROJECT.json` maps every definition to the lines it models.

    tlc -workers 2 -config MCSimulationRecovery.cfg MCSimulationRecovery
    tlapm SimulationRecoveryProofs.tla

## The system and its parts

| part | code (`internal/`) | module | proved |
|---|---|---|---|
| session lifecycle and crash recovery | `daemon`: `daemon.go`, `recovery.go`, `runtime_*.go`, `inline_config.go` | `SimulationRecovery` | yes |
| the durability contract of the above | (what the comments of those files promise) | `DurableSessions` | refinement |
| session registry, admission, selection | `daemon`: `session_registry.go`, `admission.go`, `simulation_resources.go`; `api/simulation_state.go` | `SessionRegistry` | yes |
| shared trunk capture | `daemon/trunk_capture.go` | `TrunkCapture` | yes |
| device state store, notification dispatcher | `devicestate`, `protocols/state_notifications.go` | `DeviceState` | |
| device command line and the store's other tables | `devicecli`, `devicestate` | `DeviceCli` | yes |
| SNMP informs | `protocols/snmp_inform.go` | `InformTracker` | |
| scenario checkpoints | `protocols/stack_checkpoint.go` | `ScenarioCheckpoint` | |
| behaviour timelines | `config/behavior.go`, `behavior` | `BehaviorTimeline` | |
| stack lifecycle | `protocols`: `stack*.go`, `udp.go` | `StackLifecycle` | yes |
| link-address resolution | `protocols`: `state_notifications*.go`, `host_*.go` | `NeighborResolution` | |
| discovery protocols and neighbour table | `protocols`: `lldp*.go`, `cdp.go`, `edp.go`, `fdp.go`, `neighbors.go` | `NeighborDiscovery` | |
| spanning tree | `protocols`: `stp_tree.go`, `stp.go` | `SpanningTree`, `BpduOrigination` | |
| DHCP servers | `protocols`: `dhcp*.go`, `dhcpv6.go` | `DhcpLeases`, `Dhcpv6Leases` | DHCPv4 |
| what an address server promises | (both of the above) | `AddressBindings` | yes |
| frame path without a fabric | `protocols`: `ip*.go`, `icmp*.go`, `arp.go`, `stack_device_state.go` | `SegmentPath` | |
| routes of a fabric at run time | `protocols`: `fabric_*.go` | `FabricRouting` | |
| clients of an attachment pool | `protocols`: `client_placement.go`, `observed_clients.go`; `daemon/attachment_pin.go` | `ClientPlacement` | yes |
| name servers | `protocols/dns*.go` | `DnsResolver` | |
| UDP services | `protocols`: `udp.go`, `netbios.go`, `mdns.go`, `sip.go`, `onvif.go`, `enip.go` | `UdpServices` | |
| SSH over the virtual TCP | `protocols/tcp_ssh.go`, `virtualtcp` | `SshTcp` | |
| SSH host key | `protocols/ssh_host_key.go` | `SshHostKey` | |
| TCP services | `protocols`: `tcp_stream.go`, `tcp_stateless.go`, `ftp.go`, `hl7.go`, ... | `ServiceStreams` | |
| iperf3 | `protocols`: `iperf3.go`, `iperf3_sender.go` | `Iperf3`, `Iperf3Sender` | |
| packet replay | `replay`, `capture/playback.go` | `PacketReplay` | yes |
| standalone capture, frame ring, analysis cache | `daemon/capture.go`, `capturering`, `api/capture` | `StandaloneCapture`, `CaptureRing`, `AnalysisCache` | `StandaloneCapture` |
| event streams | `api/sse` | `EventHub` | yes |
| request gate | `api/auth`, `api/tokenstore`, `api/ratelimit` | `ApiGate` | yes |

How the parts interact. A client's request passes the gate (`ApiGate`) and
reaches the daemon, which serialises starts and stops under one mutex
(`SimulationRecovery`, `SessionRegistry`). A start attaches the session to its
own capture or to a slot of a shared one (`SessionRegistry`, `TrunkCapture`),
builds a stack (`StackLifecycle`) of device stores (`DeviceState`, `DeviceCli`),
and starts the timeline worker (`BehaviorTimeline`), which changes the stores. A
frame is decoded to its device (`SegmentPath`, or `FabricRouting` on a fabric),
whose server answers it (`DhcpLeases`, `DnsResolver`, `UdpServices`,
`ServiceStreams`, `SshTcp`, `Iperf3`); the client that sent it is plugged into a
port (`ClientPlacement`), and the device at the other end of its cable is
advertised to it (`NeighborDiscovery`, `SpanningTree`). A dispatcher reads each
store's event log and sends traps and informs, which may have to wait for a link
address (`DeviceState`, `InformTracker`, `NeighborResolution`). A writer per
session exports the stores to disk (`SimulationRecovery`; `DeviceState` models
one store's export and its restore). Checkpoints save and restore all the stores
of a stack (`ScenarioCheckpoint`; `DeviceState` models one store's part).

Modules that share no state are checked in one run with one of them active at a
time: `focus` says which. In `MCStack`, `MCProtocols` and `MCServices` the parts
take turns in the same variables (`SharedSlots`), which keeps the states small.

## The modules

### SimulationRecovery

A start mints a *generation*; its files are a runtime snapshot and, for inline
requests, a configuration. The manifest names the generation of each session.
The variables are the disk (`schema`, `legacy`, `manifest`, `runtime`, `inline`,
with the ghost `minted` and `source`) and the memory (`running` is `d.sessions`,
`live` the version of a stack, `writers`, `written` and `writing` the
per-session writer goroutine, `toRecover`, `failures`, `recovery` and `phase`
the recovery). `pc`, `cur`, `new` and `old` are the operation that holds `d.mu`:
a step changes at most one file, and `Crash` may follow any of them. A file
write is one step because the code writes a temporary file and renames it.
`EnvironmentFails` lets every file operation fail.

`OverlapRequests` chooses whether client requests may arrive during startup
recovery and after `Shutdown` has released the mutex. The code allows both: the
API is served before `recoverActiveSimulation` and closed after the sessions
are stopped. With it `ManifestHasSnapshot` fails (run `recovery_race`);
`recovery_overlap` checks properties that remain.

`DurableSessions` is the contract a client relies on: a generation in force per
session, changed only by a start or a stop, a saved state that only moves
forward, a resume from exactly that state. `SimulationRecovery` implements it
with the manifest as the intent, the snapshot of the generation it names as
the saved state and the published stack as the active one.

### SessionRegistry and TrunkCapture

`SessionRegistry` has one action per operation under `d.mu`: start (new,
replacement, move between interfaces, failing start), stop, select, and the
capture goroutine's failure. `slots` are the demultiplexer slots, `epoch` tells a
runtime from the one it replaced, `registered` and `apiSelected` are the API
server's copy. `TrunkCapture` has the same slots at the grain of the lock inside
`trunkCapture`: `register` and `replace` against `fail`, which stores the flag,
collects the transports and closes them in three steps; `dispatchFrame` with the
bounded queues and drop counters; the readers.

### DeviceState and DeviceCli

`DeviceState` has the store's transactions (interface faults, administrative
state, banks, checkpoints, device actions) with version, bounded event log,
durable export and restore, and the dispatcher with its one-slot wake channel.
An interface is its operational state and its armed faults; telemetry is a
counter. `DeviceCli` has the store's tables without the log: identity, address,
status, VLAN, router and routes in the running and startup banks, and the faults
of services, addresses and prefixes, under the commands of several sessions. An
update through a callback is two steps, because the callback runs without the
store's lock; it commits if the version has not moved.

### InformTracker, ScenarioCheckpoint, BehaviorTimeline

The tracker's map of pending informs, its timers, the callbacks that have fired
and wait for the lock, lost requests and responses, and `Reset`, which takes the
registrations away and then cancels the timers, in two steps. Saving and
restoring a scenario checkpoint visit one store after another under a shared
lock, next to other requests, changes of a device and its own checkpoint
commands; the ghost `alone` holds the requests next to which nothing else has
happened. `Compile` is an operator over authored timelines: expansion of
repetitions, the stable sort with ends before starts, grouping by offset; the
worker replays the transitions, a stop cancels and waits; the reference
definition `Authored` says what holds after a transition directly from the
authored phases, without sorting.

### The stack: StackLifecycle, NeighborResolution, NeighborDiscovery, SpanningTree, BpduOrigination

`StackLifecycle` follows frames through the two queues and what they leave
behind (proxied datagrams, upstream queries, delayed replies) against the
supervised workers, reloads and the four waits of `Stop`. In
`NeighborResolution` a datagram without a link address waits in the resolution
of its next hop; each critical section is a step, and `work` is what a goroutine
has left to do after it. `NeighborDiscovery` has the four advertisers, the check
at egress and the table of neighbours, fed with frames of a stack that runs the
same code. `SpanningTree` is the election with Go's map order arbitrary,
`BpduOrigination` the hello schedule on a jittering ticker.

### What a stack answers: AddressBindings, DhcpLeases, Dhcpv6Leases, SegmentPath, FabricRouting, ClientPlacement, DnsResolver, UdpServices

`AddressBindings` says what an address server promises; both DHCP servers
implement it. In `DhcpLeases` a REQUEST is checked in one step and granted in
another, and everything else may come in between. `SegmentPath` and
`FabricRouting` decode a frame in one step against an address index, link states
and routes that operators change; where the code walks a Go map, a lookup is the
set of its possible results. `ClientPlacement` changes the placement under one
mutex and writes what follows from it (carrier, forwarding tables) step by step.
`DnsResolver` sees faults change between the two reads of a query and asks
outside forwarders in goroutines with bounded slots. `UdpServices` is the
demultiplexer and the services without state.

### Services over TCP: SshTcp, SshHostKey, ServiceStreams, Iperf3, Iperf3Sender

`SshTcp` has the decoder, the serving goroutine, the emitter, the timers and the
idle sweep as actors over a network that loses, repeats and reorders;
`SshHostKey` processes that create one key file and die at any step;
`ServiceStreams` requests cut at any segment boundary and the answers of fifteen
services; `Iperf3` tests, their connections and the sender's goroutine, and
`Iperf3Sender` one stream of it, with sequence numbers that wrap.

### Services of the API: PacketReplay, StandaloneCapture, CaptureRing, AnalysisCache, EventHub, ApiGate

The replay controller waits for the goroutine of the previous playback under its
mutex; a standalone capture's goroutine outlives the call that started it; the
ring and the cache are bounded by two limits each; the hub is a loop between
registrations, producers and connection handlers; the gate loads the token set
twice per request.

## What the runs check

Passing runs (all states of the instance; deadlock is checked where the system
has no natural end):

| run | question |
|---|---|
| `recovery` | with a crash or a failing file operation between any two steps, is the manifest always backed by snapshots and configurations, is what runs what is persisted, and does it all implement `DurableSessions`? |
| `recovery_overlap` | when requests overlap recovery and shutdown, is a session that did not recover reported, does no write in flight bring a removed snapshot back, does every operation release `d.mu` although it waits for the writer, does recovery end? |
| `registry` | do registry, slots, shared captures, budgets and both copies of the runtimes agree after any sequence of starts, moves, replacements, failures and stops? |
| `device` | does recovery accept every state the store can export, is every change of an interface an event, do receivers end up with the link state that snapshots show across restarts, is restored history not sent again, do coalesced wake-ups lose no event? |
| `session` | do compiling, sorting and replaying the timelines leave target and status as authored; is no inform forgotten; does a restore never fail halfway, and does a request that nothing interferes with cover the whole scenario; does a reverse iperf3 stream finish whatever is lost? |
| `api_services` | do two replays never play at once, does an upload live as long as something may play it, do a capture, the ring, the cache, the hub and the gate keep their promises, and do calls and streams end? |
| `stack` | is nothing left, and nothing sent, when `Stop` returns, and does it return; are datagrams that wait for a link address neither lost nor sent to the wrong hop; does discovery say what holds and agree with the elected tree? |
| `protocols` | do the DHCP servers implement `AddressBindings`; is a frame answered in its segment, as an address the device holds, by the name server that should; do pool clients keep their ports? |
| `services` | are the configuration banks settled after any commands; are SSH and stream requests answered in order and once; do iperf3 tests and their sender find each other; does the trunk account for every frame? |

Runs that show a disagreement between the code and its own comments;
`PROJECT.json` quotes the line under `findings`:

| run | what the trace shows |
|---|---|
| `recovery_race` | a start accepted during recovery commits, is replaced by the recovering start, and loses its snapshot while the manifest names it |
| `recovery_v2_migration` | migrated sessions get generations that have no snapshot; none recovers |
| `inform_collision` | informs of two devices at the same version share a key; one is neither resent nor reported |

## Where the properties stop

These behaviours are in the models, and a stronger property than the one checked
fails on them. The properties above are worded so that they do not claim them.

* `SimulationRecovery`: a start accepted after `Shutdown` released `d.mu`
  (`daemon.go:356`) is in the manifest, but its last state is not flushed;
  `runtime_state.go:33` says "orderly shutdown flushes final state".
* `SessionRegistry`: a stop whose manifest write fails has selected the session
  in the daemon and not in the API server (`daemon.go:765`). `replace` does not
  look at the failure flag that `register` checks, so a replacement starts on a
  dead capture (`trunk_capture.go:120`). An access session started before the
  first trunk session keeps a capture of its own beside the shared one
  (`simulation_resources.go:35`). A stop without an ID stops the selected
  session, where `handlers_simulation.go:324` says "every session".
* `TrunkCapture`: `register` reads the failure flag before it takes the lock
  (`trunk_capture.go:107`), so a start that overlaps the failure can leave a
  reader that nobody wakes. `FailureWakesReaders` supposes none does.
* `DeviceState`: a bank change records several events under one version; a gap
  inside them is reported as complete (`event.go:70`). Restoring a checkpoint
  changes carrier faults without an interface event (`store_checkpoint.go:59`),
  and "no shutdown" on a faulted link is announced as a link that came up
  (`store_interface.go:41`). `LinkStateReported` is therefore checked on the
  timeline's line of run `device` only.
* `ScenarioCheckpoint`: two restores, a save next to a change, and a device's
  own checkpoint command leave a scenario checkpoint that is not the state of
  one instant. `RequestsAreWhole` is about requests nothing interferes with.
* `ClientPlacement`: a cable is plugged by an optimistic update of the switch's
  store and may lose the race to another update, which leaves a port with a
  client and no carrier. `CarrierFollowsCable` states the comment and no run
  claims it.
* `BpduOrigination`: a schedule that begins on a late tick finds the punctual
  ones after it not yet due, and one hello waits for the next tick; `stp.go:138`
  says "tick jitter cannot stretch a 2 s hello to 3 s".
* `DnsResolver`: an answer reads the NXDOMAIN fault twice (`dns_forward.go:212`
  and `:215`), and the fault may change in between.
* `NeighborDiscovery`: FDP advertises the authored name (`fdp.go:242`), CDP
  (`cdp.go:268`) and LLDP's system name (`lldp.go:355`) the live hostname.
* `Iperf3Sender`: the bytes reported are a difference of two sequence numbers and
  wrap with them (`ReportsWhatWasSent`).

## Bounds

* `SimulationRecovery`: two sessions and three generations let a session be
  started, replaced and started again next to another one, and a generation
  name the inline file of another. One version step tells old from new.
  Generations run out, which ends starts, not the other actions. The run with
  liveness has two generations: enough for a replacement, or for one start of
  each session.
* `SessionRegistry`: four session IDs for three places, so that the session
  budget is reached with one waiting; two interfaces for moves; two tags and
  the native key; device counts 1 and 2 against a budget that is reached too.
* `TrunkCapture`: queues of one frame, one tracked stray tag, two transports for
  two keys, one of which may take the other's place, and three frames: one
  fills a queue, one finds it full.
* `DeviceState`: a log of two events overflows within the six versions a run
  takes. All transactions at once exceed what TLC can enumerate: the operator's
  line has one kind of fault and no export, the timeline's line no
  configuration.
* `DeviceCli`: two sessions, so that an update meets another's; five versions;
  one fault at a time besides the carrier's.
* `InformTracker`: two versions and two retries; the collision needs one of each.
* `ScenarioCheckpoint`: two devices, two requests, two names, two values: a
  restore can meet a save of the same or of another name half done.
* `BehaviorTimeline`: two timelines of up to two phases, offsets 0..1, durations
  1..2 and two repetitions contain back-to-back, nested and equal intervals of
  one target. Phases of different targets never meet: validation and replay
  look at each target by itself.
* `StackLifecycle`: two frames contend for queues and slots of one; a worker
  survives one fault. `NeighborResolution`: two hops, two timers, one retry, so
  that a timer of a resolution meets its successor. `NeighborDiscovery`: three
  devices, 60 seconds, hold times below the cleanup interval and above a byte.
  `SpanningTree`: every choice of two to five of nine trunks between four
  bridges, parallel, self and one-sided ones included. `BpduOrigination`: eight
  ticks, hello times of the default and of three seconds.
* The DHCP servers: two clients and pools of one or two addresses, one of which
  may be a peer's, with and without a static lease and a relay. `ClientPlacement`: three ports on two switches.
  `DnsResolver`: three servers that forward in a cycle and in a chain.
* `SshTcp`: a connection closed and opened again on the same key.
  `ServiceStreams`: conversations of two requests and a rival for the only
  stream. `Iperf3`: a test of two streams and one that follows it on the same
  ports. `Iperf3Sender`: numbers modulo 8 that wrap within the stream.
  `SshHostKey`: three processes.
* `MCApiServices.cfg` says what its bounds are for.

Symmetry is used for safety runs only, over sets whose members the modules never
compare or order.

## Fairness

* The goroutine that holds `d.mu`, the recovery loop, a write in flight and a
  dispatcher with a pending wake-up are runnable goroutines: weak fairness.
* A stop waits for a writer whose `select` sees both a tick and the
  cancellation. Go chooses at random among ready cases, so the cancellation is
  taken in the end: strong fairness of `stopSimulation`. A playback whose stop
  signal and interval are both ready is the same (`nextPass`).
* Timers fire, callbacks get the tracker's lock: weak fairness. Nothing is
  assumed of the network or the receivers, except in `Iperf3Sender`, where a
  segment sent again and again arrives in the end: strong fairness of `arrive`
  for the oldest one; without it no stream over a lossy wire finishes.
* The steps of a stack's `Stop`, the return of a worker whose context is done,
  and the end of a proxied or upstream exchange, which has a deadline: weak
  fairness.
* The hub's loop, and a connection handler whose channel is closed or has a
  message: weak fairness. Starts, stops, faults, crashes and frames are never
  fair.

## What is proved

Every theorem holds for sets of any size and every bound. What a proof assumes
of the constants is an `ASSUME` of the module that declares them or its operator
`Constants`, which the run's module assumes in turn, so that TLC evaluates it on
the instance.

### The session lifecycle: SimulationRecoveryProofs

* `TypeCorrect`, `ManifestSafe`, `RunningPersisted`, `RunningConfigSafe`,
  `StrandedReported`: the invariants of runs `recovery` and `recovery_overlap`;
* `SnapshotMonotone`, `RemovedStaysRemoved`: a snapshot in force never goes back,
  a removed one never returns;
* `Implements`: `SimulationRecovery` implements `DurableSessions`.

The assumptions are those on the constants (`ConstantsAssumption`) and
`Serialized`: requests do not overlap recovery and shutdown, and no v2 manifest
is migrated. Without the first, run `recovery_race` is a counterexample to
`ManifestSafe`; without the second the manifest may name a migrated generation
that never had a snapshot.

The inductive invariant `IInv` adds to these five invariants what the steps of an
operation have established so far:

* `PhaseInv`: in which phases the lock is free and the registry empty; a session
  waiting for recovery is not running and is what the manifest names.
* `OpInv`: before the commit the generation being started is in nobody's use
  (no manifest entry, no writer, no running session started from its inline
  file), so that a failing start can remove its files; at the commit it has a
  snapshot and a configuration; after it the generation being retired has left
  the manifest.
* `ManifestInv`: the manifest names each generation once, and minted ones only,
  so that a fresh generation is in no entry.
* `WriterInv`: a writer belongs to a running or retiring generation, and snapshot,
  write in flight and stack are ordered by version. `SnapshotMonotone` needs it.
* `StrandedInv`: during recovery a listed session is running, waiting, or counted
  as failed. `StrandedReported` needs it.

There is one lemma per action, with a step per conjunct the action can disturb;
`PersistUpdates` shows that writing the manifest changes a single entry, because
what is overlaid for the running sessions is already there. The refinement has
one lemma per kind of step: the commit is `Launch`, a stop `Withdraw`, the final
write `Suspend`, an exit `Crash`, a recovering start `Resume`, and the rest is
invisible to the contract.

### The registry: SessionRegistryProofs

`RegistryIsSound` and `ApiServesCurrent`: both invariants of run `registry`.
`RegistrySound` says who owns a slot by choosing among the sessions that could;
`SlotsOwned` splits it in two directions, which a start, a replacement on the
same interface, a move and an aborted start each preserve because compatible
sessions never ask for the same slot (`CompatibleApart`). The devices of all
sessions are counted as the cardinality of the set of their devices, so that the
budget is a fact about finite sets and not about a recursive sum; `Counted` adds
that the sets are finite, which nothing assumes of the constants.

### The trunk: TrunkCapture

`TrunkIsSound`: the invariant `TrunkSound` of run `services`. `Attaching` says
what the operation under `d.mu` holds at each of its steps, `Made` that what is
read, closed or woken was made, `Failing` who will wake each reader at each
stage of `fail`. The counters add up because a sum over transports or tags is
the cardinality of a set of units (`Total`), which one more or one less changes
by one.

### The stack and the event hub: ChannelProofs

`StopLeavesNothing` and `StopSilences`: `QuietAfterStop` and `SilentAfterStop` of
run `stack`. `StopOrder` says what each wait of `Stop` leaves behind for the
next: no proxied datagram once the proxy has stopped, no timeline, then no
worker, then no query. It is preserved because a frame is only ever taken on by
a part that is still alive (`FrameMoves`); in particular only a decoder asks
upstream, so the wait for queries must come after the one for the workers.

`EventsStayInOrder`: `EventsFanOut` of `EventHub`, a part of `ServicesSafe` in run
`api_services`, for any clients, producers, buffers and limits. What a browser
got and what its buffer still holds are taken together as its log (`Logs`),
which the connection handler does not change and to which only the broadcast
adds, one event to some of the logs. Logs keep their common order because that
event is in none of them yet (`AddedInOrder`); `OnTheirWay` says so: the events
in producers' hands and in the hub's queue are all different, in no log, and
numbered no higher than the counter.

### Address servers: DhcpLeasesProofs

`BindingsStayExclusive`: no address is bound to two clients, an invariant of the
abstract server `AddressBindings`, proved of an instance with constants of its
own (`Server`). `DhcpImplementsBindings`: every step of `DhcpLeases` is a step of
it or a stutter, which carries the invariant over. The lemmas say what the
allocation finds (an address of the pool that is free), for any pool.
`AckNamesTheBinding`: an acknowledgment carries the address bound, although a
REQUEST is checked and granted in two steps.

### Pool clients: ClientPlacement

`ClientsStayPlugged` and `AdvertisedPortIsTaken`. The invariant needs that no two
clients are pinned to one port, and what the switches have learned while a
placement is under way: its client is still where it was before (`PlacedAt`).
`FreePort` shows that the first free port is nobody's and nobody's pin, which
needs that a set of ports has a least one (`WFMin`).

### The command line: DeviceCli

`BanksStaySettled`: the invariant `BanksSettled` of run `services`. Banks are
settled when status and connected route are those of the interface and no
fault's carrier is kept. An update in flight is described by `Pending`: while the
version it read is still current it was built from the running bank, and its
result takes its status from the carrier it read. An update whose version has
moved is not committed, which is why the first conjunct is conditional.

### Services of the API: ApiServicesProofs

`ReplaysStaySound`: `ReplaysSound` of run `api_services`. The property is nearly
inductive: a call holds the controller's mutex while the engine it replaces
still runs, and starts the next one only when none is alive (`NothingPlays`).
`ReplayInv` adds that a call that starts nothing has no file, so that an upload
that is left belongs to the call, to the replay, or to a request to come.

`CaptureStaysNewest`: `CaptureIsNewest` of `StandaloneCapture`. `CaptureInv` adds
that only started sessions have a goroutine or a closed engine.

`GrantsStayCurrent`: `GrantWasCurrent` of `ApiGate`. Between the two loads of the
token set a rotation may install another. `Justified` says for each phase what
the request may rely on: while it is under way the set in force is one of its
lifetime, and an authorized request has its scope from one such set, or the
administrator's because one such set was empty on a loopback listener
(`Granted`). A rotation only adds to the sets of a lifetime. The table of
limiters keeps its bound because a full table is not empty, so that there is an
oldest address to evict (`OldestIsKnown`).

### Only model-checked

Liveness and strong or weak fairness are outside the prover's reach. The modules
that sort, compile, elect or walk (`BehaviorTimeline`, `SpanningTree`,
`FabricRouting`, `DnsResolver`, `DeviceState`) would need induction over data.
The others (`InformTracker`, `ScenarioCheckpoint`, `NeighborResolution`,
`NeighborDiscovery`, `BpduOrigination`, `Dhcpv6Leases`, `SegmentPath`,
`UdpServices`, `SshTcp`, `SshHostKey`, `ServiceStreams`, `Iperf3`,
`Iperf3Sender`, `CaptureRing`, `AnalysisCache`) have no proofs yet, and neither
has `recovery_overlap` without `Serialized`.

## Not modelled

The SNMP agent and its walks; the compiler of fabrics (its tables are looked up
in `FabricRouting`); parsing and validation of configurations other than that of
timelines; generation of scenarios, converters and the library of files; HTTP
routing and JSON; the command line and the client library; run history, metrics
and logging; certificates and platform code; the bytes of packets. `PROJECT.json`
gives the reason for each part.
