------------------------- MODULE ScenarioCheckpoint -------------------------
(***************************************************************************)
(* Named checkpoints of a whole scenario                                   *)
(* (internal/protocols/stack_checkpoint.go).  A request visits the stores  *)
(* of the devices one at a time, in map order.  It holds reloadMu shared,  *)
(* so other requests run at the same time, and the stores' own mutators    *)
(* (timelines, faults, configuration sessions) do not take that lock.      *)
(*                                                                         *)
(* What a checkpoint captures of a device, its running configuration and   *)
(* active faults, is one value.                                            *)
(***************************************************************************)
EXTENDS Integers, FiniteSets

CONSTANTS
  Devices,
  Names,     \* checkpoint names
  Values,    \* what a device can be configured to
  Requests,  \* API requests that may run at the same time
  Nil

VARIABLES
  state,      \* device -> its configuration and faults
  checkpoint, \* device -> name -> captured value, or Nil
  request,    \* request -> [kind, name, left]; left: the stores to visit
  alone       \* requests next to which nothing else has happened since they began

vars == <<state, checkpoint, request, alone>>

Idle == [kind |-> "idle", name |-> Nil, left |-> {}]
Request == {Idle} \cup
  [kind : {"save", "check", "restore"}, name : Names, left : SUBSET Devices \ {{}}]

TypeOK ==
  /\ state \in [Devices -> Values]
  /\ checkpoint \in [Devices -> [Names -> Values \cup {Nil}]]
  /\ request \in [Requests -> Request]
  /\ alone \subseteq Requests

Init ==
  /\ state \in [Devices -> Values]
  /\ checkpoint = [d \in Devices |-> [n \in Names |-> Nil]]
  /\ request = [r \in Requests |-> Idle]
  /\ alone = {}

-----------------------------------------------------------------------------
Quiet == \A r \in Requests : request[r] = Idle

\* Mutant: the loop does not end.
VisitsOn(r, kind, name, left) ==
  request' = [request EXCEPT ![r] = [kind |-> kind, name |-> name, left |-> left]]

\* A request that has no store left to visit returns.
Visit(r, kind, name, left) ==
  request' = [request EXCEPT ![r] =
    IF left = {} THEN Idle ELSE [kind |-> kind, name |-> name, left |-> left]]

\* A request begins, and from then on no other one runs by itself.
Begin(r) == alone' = IF Quiet THEN {r} ELSE {}

Save(d, n)    == checkpoint' = [checkpoint EXCEPT ![d][n] = state[d]]
Restore(d, n) == state' = [state EXCEPT ![d] = checkpoint[d][n]]

\* A timeline, the API or a configuration session changes one device.
mutate(d, v) ==
  /\ v # state[d]
  /\ state' = [state EXCEPT ![d] = v]
  /\ alone' = {}
  /\ UNCHANGED <<checkpoint, request>>

SaveCheckpoint(r, n) ==
  /\ request[r] = Idle
  /\ Visit(r, "save", n, Devices)
  /\ Begin(r)
  /\ UNCHANGED <<state, checkpoint>>

saveStore(r, d) ==
  LET n == request[r].name IN
  /\ request[r].kind = "save" /\ d \in request[r].left
  /\ Save(d, n)
  /\ Visit(r, "save", n, request[r].left \ {d})
  /\ UNCHANGED <<state, alone>>

RestoreCheckpoint(r, n) ==
  /\ request[r] = Idle
  /\ Visit(r, "check", n, Devices)
  /\ Begin(r)
  /\ UNCHANGED <<state, checkpoint>>

\* Mutant: the first device that holds the name settles it for all of them.
ChecksOne(r, d) ==
  LET n == request[r].name IN
  /\ request[r].kind = "check" /\ d \in request[r].left
  /\ IF checkpoint[d][n] = Nil THEN Visit(r, "check", n, {}) ELSE Visit(r, "restore", n, Devices)
  /\ UNCHANGED <<state, checkpoint, alone>>

\* HasCheckpoint, store by store: the request is refused when a device lacks
\* the name, and goes on to restore when none does.
checkStore(r, d) ==
  LET n == request[r].name
      left == request[r].left \ {d}
  IN
  /\ request[r].kind = "check" /\ d \in request[r].left
  /\ \/ checkpoint[d][n] = Nil /\ Visit(r, "check", n, {})
     \/ checkpoint[d][n] # Nil /\ left # {} /\ Visit(r, "check", n, left)
     \/ checkpoint[d][n] # Nil /\ left = {} /\ Visit(r, "restore", n, Devices)
  /\ UNCHANGED <<state, checkpoint, alone>>

\* Mutant: the restore ends one store early.
RestoresAllButOne(r, d) ==
  LET n == request[r].name
      left == request[r].left \ {d}
  IN
  /\ request[r].kind = "restore" /\ d \in request[r].left /\ checkpoint[d][n] # Nil
  /\ Restore(d, n)
  /\ Visit(r, "restore", n, IF Cardinality(left) = 1 THEN {} ELSE left)
  /\ UNCHANGED <<checkpoint, alone>>

\* A store without the checkpoint would end the loop with an error.
restoreStore(r, d) ==
  LET n == request[r].name
      held == checkpoint[d][n] # Nil
  IN
  /\ request[r].kind = "restore" /\ d \in request[r].left
  /\ IF held THEN Restore(d, n) ELSE UNCHANGED state
  /\ Visit(r, "restore", n, IF held THEN request[r].left \ {d} ELSE {})
  /\ UNCHANGED <<checkpoint, alone>>

\* The commands "checkpoint" and "rollback checkpoint" of one device's CLI.
cliCheckpoint(d, n) ==
  /\ Save(d, n)
  /\ alone' = {}
  /\ UNCHANGED <<state, request>>

cliRollback(d, n) ==
  /\ checkpoint[d][n] # Nil
  /\ Restore(d, n)
  /\ alone' = {}
  /\ UNCHANGED <<checkpoint, request>>

Step(r) ==
  \E d \in Devices : saveStore(r, d) \/ checkStore(r, d) \/ restoreStore(r, d)

Next ==
  \/ \E d \in Devices, v \in Values : mutate(d, v)
  \/ \E d \in Devices, n \in Names : cliCheckpoint(d, n) \/ cliRollback(d, n)
  \/ \E r \in Requests :
       Step(r) \/ \E n \in Names : SaveCheckpoint(r, n) \/ RestoreCheckpoint(r, n)

Spec == Init /\ [][Next]_vars

-----------------------------------------------------------------------------
Complete(n) == \A d \in Devices : checkpoint[d][n] # Nil

\* "It restores nothing unless every device holds that name": whatever saves
\* and rolls back in between, a restore that has begun to change devices finds
\* the checkpoint on every device it has yet to visit (RestoreCheckpoint).
RestoreNeverFailsHalfway ==
  \A r \in Requests : request[r].kind = "restore" => Complete(request[r].name)

\* A request next to which nothing else happened covers the whole scenario.
\* A save has captured one state of it: "saving one device and mutating another
\* would restore a state the scenario never had".  A restore "cannot leave half
\* a scenario at the checkpoint and half where it was" (SaveCheckpoint,
\* RestoreCheckpoint).
RequestsAreWhole ==
  [][\A r \in alone :
       request[r].kind \in {"save", "restore"} /\ request'[r] = Idle =>
         \A d \in Devices : checkpoint'[d][request[r].name] = state'[d]]_vars
=============================================================================
