---------------------------- MODULE InformTracker ----------------------------
(***************************************************************************)
(* SNMP informs (internal/protocols/snmp_inform.go): notifications that    *)
(* are resent until their receiver answers.  The tracker keys a pending    *)
(* inform by its request ID, which is the version of the device's event,   *)
(* and the receiver; one receiver is modelled, so the key is the version.  *)
(*                                                                         *)
(* The dispatcher, the timer callbacks and the packet handlers interleave. *)
(* A timer that has fired waits for the tracker's lock as a callback, and  *)
(* stopping it then has no effect.  It waits far less than an interval, so *)
(* a request ID has one callback at a time.                                *)
(***************************************************************************)
EXTENDS Integers, FiniteSets

CONSTANTS
  Devices,    \* devices that notify the receiver
  MaxVersion, \* bound on the version of a device's store
  Retries,    \* InformRetries, or defaultInformRetries
  Nil

Versions == 1..MaxVersion
Informs  == Devices \X Versions

VARIABLES
  version,   \* device -> version of its newest event
  pending,   \* request ID -> the tracked inform, or Nil
  armed,     \* request IDs whose timer runs
  fired,     \* request IDs with a callback that waits for the lock
  resending, \* informs a callback has yet to resend after unlocking
  sends,     \* inform -> number of times it was sent
  wire,      \* informs on their way to the receiver
  responses, \* request IDs of responses on their way back
  received,  \* informs the receiver has
  givenUp,   \* request IDs logged as never acknowledged
  stopped,   \* Reset has taken the registrations away
  cancelled  \* stopInforms has run

tracker == <<pending, armed>>
network == <<wire, responses, received>>
vars == <<version, tracker, fired, resending, sends, network, givenUp, stopped, cancelled>>

Pending == [device : Devices, remaining : 0..Retries]

TypeOK ==
  /\ version \in [Devices -> 0..MaxVersion]
  /\ pending \in [Versions -> Pending \cup {Nil}]
  /\ armed \subseteq Versions /\ fired \subseteq Versions
  /\ resending \subseteq Informs
  /\ sends \in [Informs -> 0..(Retries + 1)]
  /\ wire \subseteq Informs /\ responses \subseteq Versions /\ received \subseteq Informs
  /\ givenUp \subseteq Versions
  /\ stopped \in BOOLEAN /\ cancelled \in BOOLEAN

Init ==
  /\ version = [d \in Devices |-> 0]
  /\ pending = [v \in Versions |-> Nil]
  /\ armed = {} /\ fired = {} /\ resending = {}
  /\ sends = [n \in Informs |-> 0]
  /\ wire = {} /\ responses = {} /\ received = {}
  /\ givenUp = {}
  /\ stopped = FALSE /\ cancelled = FALSE

-----------------------------------------------------------------------------
Send(n) ==
  /\ wire' = wire \cup {n}
  /\ sends' = [sends EXCEPT ![n] = @ + 1]
  /\ UNCHANGED <<responses, received>>

\* The timer of an inform that is already in flight is only reset.
trackInform(d, v) ==
  /\ pending' = IF pending[v] # Nil THEN pending
                ELSE [pending EXCEPT ![v] = [device |-> d, remaining |-> Retries]]
  /\ armed' = armed \cup {v}

\* sendTrap with Inform set: the inform is tracked before it is sent.
sendTrap(d) ==
  LET v == version[d] + 1 IN
  /\ ~stopped /\ v \in Versions
  /\ version' = [version EXCEPT ![d] = v]
  /\ trackInform(d, v)
  /\ Send(<<d, v>>)
  /\ UNCHANGED <<fired, resending, givenUp, stopped, cancelled>>

timerFires(v) ==
  /\ v \in armed /\ v \notin fired
  /\ armed' = armed \ {v}
  /\ fired' = fired \cup {v}
  /\ UNCHANGED <<version, pending, resending, sends, network, givenUp, stopped, cancelled>>

\* Mutant: an inform is resent for as long as it is not acknowledged.
RetriesForever(v) ==
  /\ v \in fired
  /\ fired' = fired \ {v}
  /\ IF pending[v] = Nil THEN UNCHANGED <<armed, resending>>
     ELSE /\ armed' = armed \cup {v}
          /\ resending' = resending \cup {<<pending[v].device, v>>}
  /\ UNCHANGED <<version, pending, sends, network, givenUp, stopped, cancelled>>

\* Mutant: the retry that is one too many.
RetriesOnceMore(v) ==
  /\ v \in fired
  /\ fired' = fired \ {v}
  /\ IF pending[v] = Nil \/ pending[v].remaining < 0
     THEN /\ pending' = [pending EXCEPT ![v] = Nil]
          /\ givenUp' = givenUp \cup {v}
          /\ UNCHANGED <<armed, resending>>
     ELSE /\ pending' = [pending EXCEPT ![v].remaining = @ - 1]
          /\ armed' = armed \cup {v}
          /\ resending' = resending \cup {<<pending[v].device, v>>}
          /\ UNCHANGED givenUp
  /\ UNCHANGED <<version, sends, network, stopped, cancelled>>

\* Mutant: an inform without retries left is dropped without a word.
DropsSilently(v) ==
  /\ v \in fired
  /\ fired' = fired \ {v}
  /\ IF pending[v] = Nil \/ pending[v].remaining = 0
     THEN /\ pending' = [pending EXCEPT ![v] = Nil]
          /\ UNCHANGED <<armed, resending>>
     ELSE /\ pending' = [pending EXCEPT ![v].remaining = @ - 1]
          /\ armed' = armed \cup {v}
          /\ resending' = resending \cup {<<pending[v].device, v>>}
  /\ UNCHANGED <<version, sends, network, givenUp, stopped, cancelled>>

retryInform(v) ==
  /\ v \in fired
  /\ fired' = fired \ {v}
  /\ \/ /\ pending[v] = Nil
        /\ UNCHANGED <<pending, armed, resending, givenUp>>
     \/ /\ pending[v] # Nil /\ pending[v].remaining = 0
        /\ pending' = [pending EXCEPT ![v] = Nil]
        /\ givenUp' = givenUp \cup {v}
        /\ UNCHANGED <<armed, resending>>
     \/ /\ pending[v] # Nil /\ pending[v].remaining > 0
        /\ pending' = [pending EXCEPT ![v].remaining = @ - 1]
        /\ armed' = armed \cup {v}
        /\ resending' = resending \cup {<<pending[v].device, v>>}
        /\ UNCHANGED givenUp
  /\ UNCHANGED <<version, sends, network, stopped, cancelled>>

\* The callback has unlocked the tracker and sends.  It reads the registrations
\* without the dispatcher's lock: once they are gone it may or may not see it.
resend(n) ==
  /\ n \in resending
  /\ resending' = resending \ {n}
  /\ \/ Send(n)
     \/ stopped /\ UNCHANGED <<sends, network>>
  /\ UNCHANGED <<version, tracker, fired, givenUp, stopped, cancelled>>

AcknowledgeInform(v) ==
  /\ v \in responses
  /\ responses' = responses \ {v}
  /\ pending' = [pending EXCEPT ![v] = Nil]
  /\ armed' = IF pending[v] = Nil THEN armed ELSE armed \ {v}
  /\ UNCHANGED <<version, fired, resending, sends, wire, received, givenUp, stopped, cancelled>>

\* Reset takes the registrations away under the dispatcher's lock ...
Reset ==
  /\ ~stopped
  /\ stopped' = TRUE
  /\ UNCHANGED <<version, tracker, fired, resending, sends, network, givenUp, cancelled>>

\* Mutant: the retries are cancelled before the registrations go.
CancelsFirst ==
  /\ ~cancelled
  /\ cancelled' = TRUE
  /\ pending' = [v \in Versions |-> Nil]
  /\ armed' = {}
  /\ UNCHANGED <<version, fired, resending, sends, network, givenUp, stopped>>

\* ... and cancels the outstanding retries then.
stopInforms ==
  /\ stopped /\ ~cancelled
  /\ cancelled' = TRUE
  /\ pending' = [v \in Versions |-> Nil]
  /\ armed' = {}
  /\ UNCHANGED <<version, fired, resending, sends, network, givenUp, stopped>>

-----------------------------------------------------------------------------
(***************************************************************************)
(* The network and the receiver, a manager that answers each inform.       *)
(***************************************************************************)
deliver(n) ==
  /\ n \in wire
  /\ wire' = wire \ {n}
  /\ received' = received \cup {n}
  /\ responses' = responses \cup {n[2]}
  /\ UNCHANGED <<version, tracker, fired, resending, sends, givenUp, stopped, cancelled>>

loseInform(n) ==
  /\ n \in wire
  /\ wire' = wire \ {n}
  /\ UNCHANGED <<version, tracker, fired, resending, sends, responses, received, givenUp, stopped, cancelled>>

loseResponse(v) ==
  /\ v \in responses
  /\ responses' = responses \ {v}
  /\ UNCHANGED <<version, tracker, fired, resending, sends, wire, received, givenUp, stopped, cancelled>>

Next ==
  \/ \E d \in Devices : sendTrap(d)
  \/ \E v \in Versions : timerFires(v) \/ retryInform(v) \/ AcknowledgeInform(v) \/ loseResponse(v)
  \/ \E n \in Informs : resend(n) \/ deliver(n) \/ loseInform(n)
  \/ Reset \/ stopInforms

Spec == Init /\ [][Next]_vars

\* Timers fire and their callbacks run.
FairSpec ==
  Spec /\ \A v \in Versions : WF_vars(timerFires(v)) /\ WF_vars(retryInform(v))

-----------------------------------------------------------------------------
\* "An inform is answered with a Response carrying the same request ID, and an
\* unanswered one is resent": until the manager is reset, an inform that was
\* sent has been received, is still tracked, or was reported as unanswered.
NoInformForgotten ==
  ~stopped => \A n \in Informs :
    sends[n] > 0 => \/ n \in received
                    \/ pending[n[2]] # Nil /\ pending[n[2]].device = n[1]
                    \/ n[2] \in givenUp

\* An inform is sent once and then resent at most Retries times, whatever
\* acknowledgements and timers race: the tracked retries and the sends already
\* made never exceed the budget (retryInform).
RetryBudget ==
  \A n \in Informs :
    sends[n] + (IF n \in resending THEN 1 ELSE 0)
      + (IF pending[n[2]] # Nil /\ pending[n[2]].device = n[1]
         THEN pending[n[2]].remaining ELSE 0) <= Retries + 1

\* "a stopped stack does not keep resending": once the retries are cancelled
\* none is tracked or timed again, although the dispatcher and callbacks that
\* were under way go on (Reset, stopInforms).
CancelledStaysQuiet == cancelled => armed = {} /\ \A v \in Versions : pending[v] = Nil

\* Every tracked inform is acknowledged, given up or cancelled in the end: the
\* tracker "bounds a failed receiver to fifteen seconds of retries rather than
\* forever".
TrackingEnds == \A v \in Versions : pending[v] # Nil ~> pending[v] = Nil
=============================================================================
