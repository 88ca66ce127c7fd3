-------------------------- MODULE DurableSessions --------------------------
(***************************************************************************)
(* What the daemon promises a client about its sessions across crashes:    *)
(* each session has at most one generation in force (intent), which only   *)
(* a start or a stop changes, one session at a time; its saved state only  *)
(* moves forward; and a process that comes back resumes it from exactly    *)
(* that saved state.                                                       *)
(***************************************************************************)
EXTENDS Integers

CONSTANTS Sessions, Generations, Nil

None == -1

VARIABLES
  intent,  \* session -> generation in force, durable
  saved,   \* session -> version of its durable state
  active   \* session -> version of its running state, lost in a crash

vars == <<intent, saved, active>>

Init ==
  /\ intent = [s \in Sessions |-> Nil]
  /\ saved = [s \in Sessions |-> None]
  /\ active = [s \in Sessions |-> None]

\* A start that returns success, replacing whatever the session ran before.
Launch(s, g) ==
  /\ \A t \in Sessions : intent[t] # g
  /\ intent' = [intent EXCEPT ![s] = g]
  /\ saved'[s] >= 0 /\ saved' = [saved EXCEPT ![s] = saved'[s]]
  /\ active'[s] >= saved'[s] /\ active' = [active EXCEPT ![s] = active'[s]]

Withdraw(s) ==
  /\ intent[s] # Nil
  /\ intent' = [intent EXCEPT ![s] = Nil]
  /\ saved' = [saved EXCEPT ![s] = None]
  /\ active' = [active EXCEPT ![s] = None]

Advance(s) ==
  /\ active[s] # None
  /\ active'[s] > active[s] /\ active' = [active EXCEPT ![s] = active'[s]]
  /\ UNCHANGED <<intent, saved>>

Save(s) ==
  /\ active[s] # None
  /\ saved'[s] \in saved[s]..active[s] /\ saved' = [saved EXCEPT ![s] = saved'[s]]
  /\ UNCHANGED <<intent, active>>

\* An orderly stop that keeps the intent; the final save may fail.
Suspend(s) ==
  /\ active[s] # None
  /\ saved' \in {saved, [saved EXCEPT ![s] = active[s]]}
  /\ active' = [active EXCEPT ![s] = None]
  /\ UNCHANGED intent

Crash ==
  /\ active' = [s \in Sessions |-> None]
  /\ UNCHANGED <<intent, saved>>

Resume(s) ==
  /\ intent[s] # Nil
  /\ active[s] = None
  /\ active' = [active EXCEPT ![s] = saved[s]]
  /\ UNCHANGED <<intent, saved>>

Next ==
  \/ Crash
  \/ \E s \in Sessions :
       \/ \E g \in Generations : Launch(s, g)
       \/ Withdraw(s) \/ Advance(s) \/ Save(s) \/ Suspend(s) \/ Resume(s)

Spec == Init /\ [][Next]_vars
=============================================================================
