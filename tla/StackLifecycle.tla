---------------------------- MODULE StackLifecycle ----------------------------
(***************************************************************************)
(* The life of one protocol stack: supervised workers that receive, decode *)
(* and send frames through two bounded queues, the work a frame leaves     *)
(* behind (a proxied datagram, an upstream DNS query, a delayed reply),    *)
(* and the order in which Stop takes all of it down.                       *)
(***************************************************************************)
EXTENDS Naturals, FiniteSets

CONSTANTS
  Frames,      \* frames on the wire
  RecvCap,     \* capacity of recvQueue
  SendCap,     \* capacity of sendQueue
  Proxies,     \* udpProxyConcurrencyLimit
  Upstreams,   \* dnsUpstreamMaxInFlight
  Restarts,    \* stackWorkerRestarts
  MaxReloads   \* bound: configuration reloads

ASSUME RestartsAssumption == Restarts \in Nat

Workers == {"receive", "decode", "send", "periodic"}

VARIABLES
  life,       \* "new", "running" or "stopped": started, running, stopped
  stopping,   \* how far Stop has come; "no" before it and "done" after
  worker,     \* worker -> "off", "up" or "gone"
  faults,     \* worker -> restarts it has used
  group,      \* the supervisor: "idle", "running", "cancelled", "failed"
  failure,    \* workerFailure is set
  frame,      \* frame -> where it, or the reply to it, is; "over" when nothing is left of it
  udpStopped, \* the UDP proxy takes no more work
  timelines,  \* behaviour timelines: "idle", "running", "stopped"
  reloads

vars == <<life, stopping, worker, faults, group, failure, frame, udpStopped,
          timelines, reloads>>

In(place) == {f \in Frames : frame[f] = place}
Up(w) == worker[w] = "up"
Move(f, place) == frame' = [frame EXCEPT ![f] = place]

Init ==
  /\ life = "new" /\ stopping = "no"
  /\ worker = [w \in Workers |-> "off"] /\ faults = [w \in Workers |-> 0]
  /\ group = "idle" /\ failure = FALSE
  /\ frame = [f \in Frames |-> "wire"]
  /\ udpStopped = FALSE /\ timelines = "idle" /\ reloads = 0

-----------------------------------------------------------------------------
(* A started stack starts no more; a timeline target the stack does not have *)
(* leaves it as new as before, so only the start that succeeds is a step.    *)
Start ==
  /\ life = "new" /\ life' = "running"
  /\ worker' = [w \in Workers |-> "up"] /\ group' = "running"
  /\ timelines' = "running"
  /\ UNCHANGED <<stopping, faults, failure, frame, udpStopped, reloads>>

timelineEnds ==
  /\ timelines = "running" /\ timelines' = "stopped"
  /\ UNCHANGED <<life, stopping, worker, faults, group, failure, frame, udpStopped, reloads>>

(* A reload swaps the devices under the exclusive lock and starts the new    *)
(* configuration's timelines.                                                *)
ReloadConfig ==
  /\ life = "running" /\ stopping = "no" /\ reloads < MaxReloads
  /\ reloads' = reloads + 1 /\ timelines' = "running"
  /\ UNCHANGED <<life, stopping, worker, faults, group, failure, frame, udpStopped>>

-----------------------------------------------------------------------------
(* receiveAndQueuePacket: a frame that does not parse is counted and gone,   *)
(* and so is one that finds the queue full.                                  *)
receiveAndQueuePacket(f) ==
  /\ Up("receive") /\ frame[f] = "wire"
  /\ \/ Move(f, "over")
     \/ Move(f, IF Cardinality(In("recvQueue")) < RecvCap THEN "recvQueue" ELSE "over")
  /\ UNCHANGED <<life, stopping, worker, faults, group, failure, udpStopped, timelines, reloads>>

(* Mutant: a reply is queued although the stack has stopped.                 *)
SendsWhenStopped(f) ==
  Move(f, IF Cardinality(In("sendQueue")) >= SendCap THEN "over" ELSE "sendQueue")

(* Stack.Send: refused once stopped, and when the queue is full.             *)
Send(f) ==
  Move(f, IF life = "stopped" \/ Cardinality(In("sendQueue")) >= SendCap
          THEN "over" ELSE "sendQueue")

(* launchProxy and runProxy's dial.                                          *)
launchProxy(f) ==
  Move(f, IF udpStopped THEN "over"
          ELSE IF Cardinality(In("dialing") \cup In("proxied")) >= Proxies
          THEN "over" ELSE "dialing")

(* askUpstream: a query over the limit is answered SERVFAIL at once.         *)
askUpstream(f) ==
  IF Cardinality(In("upstream")) < Upstreams THEN Move(f, "upstream") ELSE Send(f)

(* decodePacket: what the handlers make of a frame.  A handler that panics   *)
(* costs its frame and nothing else.                                         *)
decodePacket(f) ==
  /\ Up("decode") /\ frame[f] = "recvQueue"
  /\ \/ Move(f, "over") \/ Send(f) \/ launchProxy(f) \/ askUpstream(f)
     \/ Move(f, "delayed")   \* an echo or a reflection held by a timer
  /\ UNCHANGED <<life, stopping, worker, faults, group, failure, udpStopped, timelines, reloads>>

sendPacket(f) ==
  /\ Up("send") /\ frame[f] = "sendQueue"
  /\ Move(f, "sent") \/ Move(f, "over")   \* or the interface refuses it
  /\ UNCHANGED <<life, stopping, worker, faults, group, failure, udpStopped, timelines, reloads>>

(* The timer of a delayed reply sends it, or tries to.                       *)
delayElapses(f) ==
  /\ frame[f] = "delayed" /\ Send(f)
  /\ UNCHANGED <<life, stopping, worker, faults, group, failure, udpStopped, timelines, reloads>>

(* trackProxyConn: a connection that opens after Stop is closed at once.     *)
trackProxyConn(f) ==
  /\ frame[f] = "dialing"
  /\ Move(f, IF udpStopped THEN "over" ELSE "proxied") \/ Move(f, "over")
  /\ UNCHANGED <<life, stopping, worker, faults, group, failure, udpStopped, timelines, reloads>>

(* The mapped host answers, or the deadline or Stop ends the exchange.       *)
runProxy(f) ==
  /\ frame[f] = "proxied" /\ (Send(f) \/ Move(f, "over"))
  /\ UNCHANGED <<life, stopping, worker, faults, group, failure, udpStopped, timelines, reloads>>

(* An upstream answers, or the deadline passes and the client gets SERVFAIL. *)
queryUpstreams(f) ==
  /\ frame[f] = "upstream" /\ Send(f)
  /\ UNCHANGED <<life, stopping, worker, faults, group, failure, udpStopped, timelines, reloads>>

-----------------------------------------------------------------------------
(* A worker faults: it is restarted Restarts times, and the fault after that *)
(* makes the supervisor cancel the others.                                   *)
workerFaults(w) ==
  /\ Up(w) /\ group = "running"
  /\ \/ /\ faults[w] < Restarts
        /\ faults' = [faults EXCEPT ![w] = @ + 1] /\ UNCHANGED <<worker, group>>
     \/ /\ faults[w] = Restarts
        /\ worker' = [worker EXCEPT ![w] = "gone"] /\ group' = "failed"
        /\ UNCHANGED faults
  /\ UNCHANGED <<life, stopping, failure, frame, udpStopped, timelines, reloads>>

(* Mutant: the loops watch for a failed sibling and not for Stop.            *)
WatchesFailureOnly(w) ==
  /\ Up(w) /\ group = "failed"
  /\ worker' = [worker EXCEPT ![w] = "gone"]
  /\ UNCHANGED <<life, stopping, faults, group, failure, frame, udpStopped, timelines, reloads>>

(* Every worker returns when its context ends.                               *)
workerReturns(w) ==
  /\ Up(w) /\ group \in {"cancelled", "failed"}
  /\ worker' = [worker EXCEPT ![w] = "gone"]
  /\ UNCHANGED <<life, stopping, faults, group, failure, frame, udpStopped, timelines, reloads>>

recordWorkerFailure ==
  /\ group = "failed" /\ \A w \in Workers : ~Up(w)
  /\ ~failure /\ failure' = TRUE
  /\ UNCHANGED <<life, stopping, worker, faults, group, frame, udpStopped, timelines, reloads>>

-----------------------------------------------------------------------------
Stop ==
  /\ life = "running" /\ life' = "stopped" /\ stopping' = "udp"
  /\ UNCHANGED <<worker, faults, group, failure, frame, udpStopped, timelines, reloads>>

(* UDPHandler.Stop refuses new work and closes what is in flight.            *)
stopProxies ==
  /\ stopping = "udp" /\ ~udpStopped /\ udpStopped' = TRUE
  /\ UNCHANGED <<life, stopping, worker, faults, group, failure, frame, timelines, reloads>>

waitProxies ==
  /\ stopping = "udp" /\ udpStopped /\ In("dialing") \cup In("proxied") = {}
  /\ stopping' = "timelines"
  /\ UNCHANGED <<life, worker, faults, group, failure, frame, udpStopped, timelines, reloads>>

stopBehaviorTimelines ==
  /\ stopping = "timelines" /\ stopping' = "workers" /\ timelines' = "stopped"
  /\ UNCHANGED <<life, worker, faults, group, failure, frame, udpStopped, reloads>>

cancelWorkers ==
  /\ stopping = "workers" /\ group = "running" /\ group' = "cancelled"
  /\ UNCHANGED <<life, stopping, worker, faults, failure, frame, udpStopped, timelines, reloads>>

(* Mutant: the upstream queries are awaited before the workers that start    *)
(* them are gone.                                                            *)
WaitsForQueriesFirst ==
  /\ stopping = "workers" /\ In("upstream") = {} /\ group # "running"
  /\ stopping' = "queries"
  /\ UNCHANGED <<life, worker, faults, group, failure, frame, udpStopped, timelines, reloads>>

waitWorkers ==
  /\ stopping = "workers" /\ group # "running" /\ \A w \in Workers : ~Up(w)
  /\ stopping' = "queries"
  /\ UNCHANGED <<life, worker, faults, group, failure, frame, udpStopped, timelines, reloads>>

waitQueries ==
  /\ stopping = "queries" /\ In("upstream") = {}
  /\ stopping' = "done"
  /\ UNCHANGED <<life, worker, faults, group, failure, frame, udpStopped, timelines, reloads>>

StopStep == stopProxies \/ waitProxies \/ stopBehaviorTimelines \/ cancelWorkers
            \/ waitWorkers \/ waitQueries

Deferred(f) == delayElapses(f) \/ trackProxyConn(f) \/ runProxy(f) \/ queryUpstreams(f)

Next ==
  \/ Start \/ timelineEnds \/ ReloadConfig \/ Stop \/ StopStep \/ recordWorkerFailure
  \/ \E f \in Frames :
       receiveAndQueuePacket(f) \/ decodePacket(f) \/ sendPacket(f) \/ Deferred(f)
  \/ \E w \in Workers : workerFaults(w) \/ workerReturns(w)

(* Dials, exchanges and upstream queries have deadlines, a cancelled worker  *)
(* returns, and the goroutine inside Stop runs.                              *)
Fairness ==
  /\ WF_vars(StopStep) /\ WF_vars(recordWorkerFailure)
  /\ \A f \in Frames : WF_vars(Deferred(f))
  /\ \A w \in Workers : WF_vars(workerReturns(w))

Spec == Init /\ [][Next]_vars /\ Fairness
-----------------------------------------------------------------------------
(* When Stop returns nothing of the session still runs: no worker, no proxied *)
(* datagram, no upstream query, no timeline.  A delayed reply may still have  *)
(* its timer, and is refused when it fires.  A failure is recorded only for a *)
(* worker that used up its restarts, never for an ordinary Stop.              *)
QuietAfterStop ==
  /\ stopping = "done" =>
       /\ \A w \in Workers : ~Up(w)
       /\ In("dialing") \cup In("proxied") \cup In("upstream") = {}
       /\ timelines # "running"
  /\ failure => \E w \in Workers : faults[w] = Restarts

(* Nothing enters the send queue once the stack has stopped, and nothing is   *)
(* transmitted once Stop has returned.                                        *)
SilentAfterStop ==
  [][/\ life = "stopped" => \A f \in Frames :
          frame'[f] = "sendQueue" => frame[f] = "sendQueue"
     /\ stopping = "done" => In("sent")' = In("sent")]_vars

(* Stop returns, whatever was in flight when it was called, and a worker that *)
(* used up its restarts is reported.                                          *)
StackSettles ==
  /\ (stopping = "udp") ~> (stopping = "done")
  /\ (group = "failed") ~> failure

(* Where a frame, or the reply to it, can be.                                 *)
Places == {"wire", "recvQueue", "sendQueue", "dialing", "proxied", "upstream",
           "delayed", "sent", "over"}

TypeOK ==
  /\ life \in {"new", "running", "stopped"}
  /\ stopping \in {"no", "udp", "timelines", "workers", "queries", "done"}
  /\ worker \in [Workers -> {"off", "up", "gone"}]
  /\ faults \in [Workers -> 0..Restarts]
  /\ frame \in [Frames -> Places]
=============================================================================
