--------------------------- MODULE SessionRegistry ---------------------------
(***************************************************************************)
(* The daemon's registry of running sessions and what hangs off it         *)
(* (internal/daemon: session_registry.go, admission.go,                    *)
(* simulation_resources.go, daemon.go; internal/api: simulation_state.go): *)
(* which sessions may share an interface, the shared trunk captures and    *)
(* their demultiplexer slots, and the selected session, which the daemon   *)
(* and the API server each record.                                         *)
(*                                                                         *)
(* Every operation runs under d.mu from start to end, so it is one action. *)
(* The only concurrent actor is the goroutine of a trunk capture, which    *)
(* may fail at any time.                                                   *)
(***************************************************************************)
EXTENDS Integers, FiniteSets, TLC

CONSTANTS
  Sessions,         \* session IDs
  Interfaces,       \* host interfaces
  VLANs,            \* 802.1Q tags an operator approved
  Native,           \* nativeVLANKey, the slot of untagged frames
  DeviceCounts,     \* sizes of the configurations clients start
  MaxSessions,      \* maxActiveSessions
  MaxDevices,       \* the daemon's device budget
  Nil,              \* no session, no runtime, a free slot
  EnvironmentFails  \* may a start or a manifest write fail?

ASSUME ConstantsAssumption ==
  /\ Native \notin VLANs
  /\ DeviceCounts \subseteq Nat /\ MaxSessions \in Nat /\ MaxDevices \in Nat
  /\ EnvironmentFails \in BOOLEAN

VARIABLES
  sessions,   \* d.sessions: session -> its runtime, or Nil
  epoch,      \* session -> 0 or 1, telling a runtime from the one it replaced
  simulation, \* d.simulation: the selected runtime <<session, epoch>>, or Nil
  trunks,     \* interfaces with a shared capture (d.trunks)
  dead,       \* trunks whose capture has failed
  slots,      \* interface -> VLAN key -> the transport registered there
  registered, \* API server: session -> epoch of the runtime it serves, or Nil
  apiSelected \* API server: selectedSimulation

vars == <<sessions, epoch, simulation, trunks, dead, slots, registered, apiSelected>>

Keys == VLANs \cup {Native}

\* A direct or access session names no VLAN the demultiplexer could use.
Bindings ==
  [iface : Interfaces, mode : {"direct", "access"}, vlan : {Native}]
    \cup [iface : Interfaces, mode : {"trunk"}, vlan : VLANs]

\* A runtime: its binding, its devices, and whether it is attached to the
\* shared capture or owns an engine of its own.
Runtimes == [binding : Bindings, devices : DeviceCounts, shared : BOOLEAN]

Transports == Sessions \X {0, 1}

ASSUME NilAssumption == Nil \notin Sessions \cup Runtimes \cup Transports \cup {0, 1}

TypeOK ==
  /\ sessions \in [Sessions -> Runtimes \cup {Nil}]
  /\ epoch \in [Sessions -> {0, 1}]
  /\ simulation \in Transports \cup {Nil}
  /\ trunks \subseteq Interfaces
  /\ dead \subseteq trunks
  /\ slots \in [Interfaces -> [Keys -> Transports \cup {Nil}]]
  /\ registered \in [Sessions -> {0, 1, Nil}]
  /\ apiSelected \in Sessions \cup {Nil}

Running == {s \in Sessions : sessions[s] # Nil}

Current(s) == <<s, epoch[s]>>

Init ==
  /\ sessions = [s \in Sessions |-> Nil]
  /\ epoch = [s \in Sessions |-> 0]
  /\ simulation = Nil
  /\ trunks = {}
  /\ dead = {}
  /\ slots = [i \in Interfaces |-> [k \in Keys |-> Nil]]
  /\ registered = [s \in Sessions |-> Nil]
  /\ apiSelected = Nil

-----------------------------------------------------------------------------
\* One interface carries a native session and tagged ones with distinct VLANs;
\* a direct session excludes every other.
Compatible(a, b) ==
  a.iface = b.iface =>
    /\ a.mode # "direct" /\ b.mode # "direct"
    /\ ~(a.mode = "access" /\ b.mode = "access")
    /\ a.mode = b.mode => a.vlan # b.vlan

\* Mutant: sessions of different modes are taken to be compatible.
ValidatesSameMode(s, b) ==
  \A t \in Running \ {s} :
    sessions[t].binding.mode = b.mode => Compatible(sessions[t].binding, b)

validateReplacement(s, b) ==
  \A t \in Running \ {s} : Compatible(sessions[t].binding, b)

\* The devices of the sessions S together, each counted under its own session.
DeviceSet(S) == UNION {{t} \X (1 .. sessions[t].devices) : t \in S}
Devices(S) == Cardinality(DeviceSet(S))

\* Mutant: a replacement is admitted whatever its size.
AdmitsReplacement(s, n) ==
  s \notin Running => /\ Cardinality(Running) + 1 <= MaxSessions
                      /\ Devices(Running) + n <= MaxDevices

\* A replacement swaps a session: its own devices and its place are not counted.
admitSession(s, n) ==
  /\ s \notin Running => Cardinality(Running) + 1 <= MaxSessions
  /\ Devices(Running \ {s}) + n <= MaxDevices

Admissible(s, b, n) == validateReplacement(s, b) /\ admitSession(s, n)

\* An access session joins a shared capture that exists already.
JoinsTrunk(b) == b.mode = "trunk" \/ (b.mode = "access" /\ b.iface \in trunks)

\* register refuses a dead trunk and an occupied slot, replace neither.
Acquirable(s, b) ==
  s \notin Running => b.iface \notin dead /\ slots[b.iface][b.vlan] = Nil

\* Mutant: a transport leaving frees its slot even if another has taken it.
UnregistersAny(f, i, k, transport) == [f EXCEPT ![i][k] = Nil]

unregister(f, i, k, transport) ==
  [f EXCEPT ![i][k] = IF @ = transport THEN Nil ELSE @]

\* Mutant: a trunk stays open when its last session leaves.
KeepsTrunk(f, open, i) == open

\* closeUnusedTrunk after a session left interface i.
closeUnusedTrunk(f, open, i) ==
  IF \A k \in Keys : f[i][k] = Nil THEN open \ {i} ELSE open

\* The slots and trunks once runtime r, registered as transport, is closed.
CloseRuntime(f, open, r, transport) ==
  IF r = Nil \/ ~r.shared THEN <<f, open>>
  ELSE LET left == unregister(f, r.binding.iface, r.binding.vlan, transport)
       IN <<left, closeUnusedTrunk(left, open, r.binding.iface)>>

-----------------------------------------------------------------------------
\* Mutant: the first session keeps the selection even when it is replaced.
AdoptsFirstOnly(s) ==
  LET adopt == simulation = Nil IN
  /\ simulation' = IF adopt THEN <<s, epoch'[s]>> ELSE simulation
  /\ registered' = [registered EXCEPT ![s] = epoch'[s]]
  /\ apiSelected' = IF adopt THEN s ELSE apiSelected

\* Mutant: only the selected session is published to the API server.
PublishesSelected(s) ==
  LET adopt == simulation = Nil \/ simulation[1] = s IN
  /\ simulation' = IF adopt THEN <<s, epoch'[s]>> ELSE simulation
  /\ registered' = IF adopt THEN [registered EXCEPT ![s] = epoch'[s]] ELSE registered
  /\ apiSelected' = IF adopt THEN s ELSE apiSelected

(***************************************************************************)
(* A start that succeeds: the new runtime takes its slot, is published     *)
(* (and selected only if nothing else is), and the runtime it replaces is  *)
(* closed.                                                                 *)
(***************************************************************************)
publishSimulation(s) ==
  LET adopt == simulation = Nil \/ simulation[1] = s IN
  /\ simulation' = IF adopt THEN <<s, epoch'[s]>> ELSE simulation
  /\ registered' = [registered EXCEPT ![s] = epoch'[s]]
  /\ apiSelected' = IF adopt THEN s ELSE apiSelected

StartSimulation(s, b, n) ==
  LET shared == JoinsTrunk(b)
      next   == <<s, 1 - epoch[s]>>
      joined == IF shared THEN [slots EXCEPT ![b.iface][b.vlan] = next] ELSE slots
      opened == IF shared THEN trunks \cup {b.iface} ELSE trunks
      closed == CloseRuntime(joined, opened, sessions[s], Current(s))
  IN
  /\ Admissible(s, b, n)
  /\ shared => Acquirable(s, b)
  /\ epoch' = [epoch EXCEPT ![s] = 1 - @]
  /\ sessions' = [sessions EXCEPT ![s] = [binding |-> b, devices |-> n, shared |-> shared]]
  /\ publishSimulation(s)
  /\ slots' = closed[1]
  /\ trunks' = closed[2]
  /\ dead' = dead \cap closed[2]

\* The stack does not start, or the commit fails: the slot goes back to the
\* transport it was taken from and a trunk opened for it is closed again.
abortStart(s, b, n) ==
  /\ EnvironmentFails
  /\ Admissible(s, b, n)
  /\ JoinsTrunk(b) /\ Acquirable(s, b)
  /\ trunks' = closeUnusedTrunk(slots, trunks \cup {b.iface}, b.iface)
  /\ dead' = dead \cap trunks'
  /\ UNCHANGED <<sessions, epoch, simulation, slots, registered, apiSelected>>

\* The capture of a trunk just opened fails before the session registers:
\* register refuses, and nothing closes the trunk.
registerOnDyingTrunk(s, b, n) ==
  /\ EnvironmentFails
  /\ Admissible(s, b, n)
  /\ b.mode = "trunk" /\ b.iface \notin trunks /\ s \notin Running
  /\ trunks' = trunks \cup {b.iface}
  /\ dead' = dead \cup {b.iface}
  /\ UNCHANGED <<sessions, epoch, simulation, slots, registered, apiSelected>>

(***************************************************************************)
(* Stopping.  d.sessions.first() is whichever session the map yields.      *)
(***************************************************************************)
stopSimulationLocked(s) ==
  LET closed == CloseRuntime(slots, trunks, sessions[s], Current(s))
      left   == Running \ {s}
  IN
  /\ sessions' = [sessions EXCEPT ![s] = Nil]
  /\ \/ /\ left = {}
        /\ simulation' = Nil
        /\ registered' = [t \in Sessions |-> Nil]
        /\ apiSelected' = Nil
     \/ \E first \in left :
          /\ simulation' = Current(first)
          /\ registered' = [registered EXCEPT ![s] = Nil]
          /\ apiSelected' = IF registered[first] # Nil THEN first
                            ELSE IF apiSelected = s THEN Nil ELSE apiSelected
  /\ slots' = closed[1]
  /\ trunks' = closed[2]
  /\ dead' = dead \cap closed[2]
  /\ UNCHANGED epoch

StopSimulation(s) == s \in Running /\ stopSimulationLocked(s)

\* StopSimulation("").
StopUnnamed == simulation # Nil /\ stopSimulationLocked(simulation[1])

\* The manifest cannot be written.  The daemon has selected the session by
\* then, the API server has not.
stopFails(s) ==
  /\ EnvironmentFails
  /\ s \in Running
  /\ simulation' = Current(s)
  /\ UNCHANGED <<sessions, epoch, trunks, dead, slots, registered, apiSelected>>

SelectSimulation(s) ==
  /\ s \in Running
  /\ simulation' = Current(s)
  /\ apiSelected' = IF registered[s] # Nil THEN s ELSE apiSelected
  /\ UNCHANGED <<sessions, epoch, trunks, dead, slots, registered>>

\* Mutant: the failure of a capture that is already closed is recorded.
RecordsLateFailure(i) ==
  /\ i \notin dead
  /\ dead' = dead \cup {i}
  /\ UNCHANGED <<sessions, epoch, simulation, trunks, slots, registered, apiSelected>>

trunkFails(i) ==
  /\ i \in trunks \ dead
  /\ dead' = dead \cup {i}
  /\ UNCHANGED <<sessions, epoch, simulation, trunks, slots, registered, apiSelected>>

Next ==
  \/ \E s \in Sessions, b \in Bindings, n \in DeviceCounts :
       StartSimulation(s, b, n) \/ abortStart(s, b, n) \/ registerOnDyingTrunk(s, b, n)
  \/ \E s \in Sessions : StopSimulation(s) \/ stopFails(s) \/ SelectSimulation(s)
  \/ StopUnnamed
  \/ \E i \in Interfaces : trunkFails(i)

Spec == Init /\ [][Next]_vars

-----------------------------------------------------------------------------
\* The slots of the shared captures are exactly the transports of the running
\* sessions attached to them, through replacements onto the same or another
\* slot, aborted starts and stops (replace, restore, unregister).
SlotsMatchSessions ==
  \A i \in Interfaces, k \in Keys :
    slots[i][k] =
      LET owners == {s \in Running : /\ sessions[s].shared
                                     /\ sessions[s].binding.iface = i
                                     /\ sessions[s].binding.vlan = k}
      IN IF owners = {} THEN Nil ELSE Current(CHOOSE s \in owners : TRUE)

\* No two running sessions compete for an interface or a VLAN, whatever order
\* they were started, moved and replaced in (validateReplacement).
SessionsCompatible ==
  \A s, t \in Running :
    s # t => Compatible(sessions[s].binding, sessions[t].binding)

\* A healthy shared capture has a session: the last one to leave closes it,
\* and a session attached to one never outlives it (closeUnusedTrunk).
TrunksServeSessions ==
  \A i \in Interfaces :
    /\ i \in trunks \ dead => \E k \in Keys : slots[i][k] # Nil
    /\ i \notin trunks => \A k \in Keys : slots[i][k] = Nil

\* Something is selected exactly while something runs, and it is the runtime
\* in service, never one that was replaced (publishSimulation, first).
SelectionIsRunning ==
  IF Running = {} THEN simulation = Nil
  ELSE simulation # Nil /\ simulation[1] \in Running /\ simulation = Current(simulation[1])

\* The API server serves the runtimes in service, no other (UpdateSimulation-
\* Session, RemoveSimulation, ClearSimulation).
ApiServesCurrentRuntimes ==
  \A s \in Sessions : registered[s] = IF s \in Running THEN epoch[s] ELSE Nil

\* All sessions together stay within the daemon's budgets, replacements by
\* larger configurations included (admitSessionLocked).
WithinBudget ==
  Cardinality(Running) <= MaxSessions /\ Devices(Running) <= MaxDevices

\* The registry, the slots of the shared captures and the captures themselves
\* agree, no two sessions share an interface that may not, the budgets hold,
\* and the selected runtime is one in service.
RegistrySound ==
  /\ SlotsMatchSessions /\ SessionsCompatible /\ TrunksServeSessions
  /\ SelectionIsRunning /\ WithinBudget

\* Sessions, interfaces and tags are only compared for equality.
Symmetry == Permutations(Sessions) \cup Permutations(Interfaces) \cup Permutations(VLANs)
=============================================================================
