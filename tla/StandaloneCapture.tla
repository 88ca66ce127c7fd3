-------------------------- MODULE StandaloneCapture -------------------------
(***************************************************************************)
(* The daemon's standalone packet capture (internal/daemon/capture.go):    *)
(* one capture session at a time, driven by a goroutine that outlives the  *)
(* call that started it.  Start, Stop and the goroutine's completion hold  *)
(* the daemon's mutex; the goroutine decides whether it was cancelled      *)
(* before it takes the mutex, so a stop and a new start may come between.  *)
(***************************************************************************)
EXTENDS Naturals

CONSTANTS Captures   \* capture sessions, 1 .. a bound, in the order they start

(* What the proofs assume of the constants. *)
Constants == Captures \subseteq Nat \ {0}

VARIABLES
  capture,     \* Daemon.capture: the current session, or 0
  simulating,  \* Daemon.simulation is set
  started,     \* sessions started so far
  closed,      \* sessions whose engine is closed and context cancelled
  loop,        \* each session's goroutine: "none", "running", "cancelled", "failed", "done"
  lastError    \* the session captureLastError is about, or 0 when it is empty

vars == <<capture, simulating, started, closed, loop, lastError>>

Init ==
  /\ capture = 0
  /\ simulating = FALSE
  /\ started = 0
  /\ closed = {}
  /\ loop = [e \in Captures |-> "none"]
  /\ lastError = 0

(* stop: once per session, cancel the context and close the engine. *)
stop(e) == closed' = closed \cup {e}

(* StartCapture: refused while a simulation or a capture runs; an unknown    *)
(* interface, an engine that does not open and a bad filter change nothing.  *)
StartCapture ==
  /\ ~simulating
  /\ capture = 0
  /\ started + 1 \in Captures
  /\ started' = started + 1
  /\ capture' = started'
  /\ lastError' = 0
  /\ loop' = [loop EXCEPT ![started'] = "running"]
  /\ UNCHANGED <<simulating, closed>>

(* captureRunner returns: with the context cancelled, or with an error or at *)
(* the end of the packet source.                                             *)
captureRunner(e) ==
  /\ loop[e] = "running"
  /\ loop' = [loop EXCEPT ![e] = IF e \in closed THEN "cancelled" ELSE "failed"]
  /\ UNCHANGED <<capture, simulating, started, closed, lastError>>

(* A mutant of completeStandaloneCapture that does not compare sessions. *)
CompletesAnySession(e) ==
  /\ loop[e] \in {"cancelled", "failed"}
  /\ loop' = [loop EXCEPT ![e] = "done"]
  /\ capture' = 0
  /\ lastError' = IF loop[e] = "failed" THEN e ELSE lastError
  /\ stop(e)
  /\ UNCHANGED <<simulating, started>>

(* completeStandaloneCapture: the session ends; only the current one is      *)
(* forgotten and leaves its error.                                           *)
completeStandaloneCapture(e) ==
  /\ loop[e] \in {"cancelled", "failed"}
  /\ loop' = [loop EXCEPT ![e] = "done"]
  /\ stop(e)
  /\ IF capture = e
       THEN /\ capture' = 0
            /\ lastError' = IF loop[e] = "failed" THEN e ELSE lastError
       ELSE UNCHANGED <<capture, lastError>>
  /\ UNCHANGED <<simulating, started>>

StopCapture ==
  /\ capture # 0
  /\ stop(capture)
  /\ capture' = 0
  /\ UNCHANGED <<simulating, started, loop, lastError>>

(* A simulation may start while a capture runs; the converse is refused. *)
StartSimulation == ~simulating /\ simulating' = TRUE /\ UNCHANGED <<capture, started, closed, loop, lastError>>

StopSimulation == simulating /\ simulating' = FALSE /\ UNCHANGED <<capture, started, closed, loop, lastError>>

Next ==
  \/ StartCapture
  \/ StopCapture
  \/ \E e \in Captures : captureRunner(e) \/ completeStandaloneCapture(e)
  \/ StartSimulation
  \/ StopSimulation

(* A capture loop whose engine is closed returns, and a goroutine that has   *)
(* returned from it runs on.                                                 *)
Fairness ==
  \A e \in Captures :
    /\ WF_vars(e \in closed /\ captureRunner(e))
    /\ WF_vars(completeStandaloneCapture(e))

Spec == Init /\ [][Next]_vars /\ Fairness

TypeOK ==
  /\ capture \in Captures \cup {0}
  /\ simulating \in BOOLEAN
  /\ started \in Captures \cup {0}
  /\ closed \subseteq Captures
  /\ loop \in [Captures -> {"none", "running", "cancelled", "failed", "done"}]
  /\ lastError \in Captures \cup {0}

(* The session the daemon shows is the one that captures: its engine is open *)
(* (GetCaptureStatus reads its counters), every older engine is closed, and  *)
(* the error shown is of the newest session, never of one that was stopped   *)
(* before and ended late.                                                    *)
CaptureIsNewest ==
  /\ capture # 0 => capture = started /\ capture \notin closed
  /\ \A e \in 1 .. started : e # capture => e \in closed
  /\ lastError # 0 => lastError = started /\ capture = 0

(* A session that is stopped or fails ends: its goroutine returns.           *)
CapturesEnd == \A e \in Captures : e \in closed ~> loop[e] = "done"
=============================================================================
