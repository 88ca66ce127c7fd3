-------------------------- MODULE BpduOrigination ----------------------------
(***************************************************************************)
(* The worker that originates spanning-tree configuration BPDUs            *)
(* (src/internal/protocols/stp.go): each bridge that is at the other end   *)
(* of the client's cable sends at its own hello time, on a ticker of one   *)
(* second that jitters and whose ticks a reload can swallow.  What a BPDU  *)
(* says of its bridge is the position that SpanningTree elects.            *)
(***************************************************************************)
EXTENDS Integers

CONSTANTS
  Bridges,   \* the STP-enabled devices
  HelloTime, \* the hello time each authors, in ticks, 0 for none
  Jitter,    \* the parts of a tick: a tick fires 0..Jitter-1 parts late
  MaxTicks, MaxSkips, MaxMoves

VARIABLES
  eligible,  \* the bridges that advertise at the client
  tick,      \* the ticks that have passed
  due,       \* when each scheduled bridge is next due
  sent,      \* when each bridge last sent, when it was first scheduled and how many BPDUs followed (ghost)
  skips, moves

vars == <<eligible, tick, due, sent, skips, moves>>

Init ==
  /\ eligible \in {Bridges} \cup {{b} : b \in Bridges}
  /\ tick = 0 /\ due = <<>> /\ sent = <<>> /\ skips = 0 /\ moves = 0

DefaultHelloTime == 2

getSTPParams(b) == IF HelloTime[b] > 0 THEN HelloTime[b] ELSE DefaultHelloTime

Hello(b) == getSTPParams(b) * Jitter

(* The next time is the last due time plus the hello, unless the bridge was  *)
(* not scheduled or is a whole hello late.                                   *)
NextDue(b, t) ==
  LET from == IF b \notin DOMAIN due THEN t ELSE IF t - due[b] >= Hello(b) THEN t ELSE due[b]
  IN from + Hello(b)

(* What the worker has sent for b, counted from when it was scheduled, and   *)
(* from its due time when a tick was dropped.                                *)
SendConfigBPDU(b, t) ==
  IF b \in DOMAIN due /\ ~sent[b].held
    THEN [sent[b] EXCEPT !.last = t, !.count = @ + 1]
    ELSE [last |-> t, first |-> NextDue(b, t) - Hello(b), count |-> 0, held |-> FALSE]

sendDueBPDUs(t) ==
  LET sends == {b \in eligible : b \in DOMAIN due => t >= due[b]}
  IN /\ due' = [b \in eligible |-> IF b \in sends THEN NextDue(b, t) ELSE due[b]]
     /\ sent' = [b \in eligible |-> IF b \notin sends THEN sent[b]
                                    ELSE SendConfigBPDU(b, t)]

(* originate: once before the ticker is made, then at each of its ticks,     *)
(* some parts of a tick late.                                                *)
originate ==
  /\ tick < MaxTicks
  /\ \E j \in IF tick = 0 THEN {0} ELSE 0..Jitter - 1 : sendDueBPDUs(tick * Jitter + j)
  /\ tick' = tick + 1
  /\ UNCHANGED <<eligible, skips, moves>>

(* A reload holds the worker up past a tick, which the ticker then drops.    *)
skipTick ==
  /\ tick > 0 /\ tick < MaxTicks /\ skips < MaxSkips
  /\ tick' = tick + 1 /\ skips' = skips + 1
  /\ sent' = [b \in DOMAIN sent |-> [sent[b] EXCEPT !.held = TRUE]]
  /\ UNCHANGED <<eligible, due, moves>>

(* The client's cable moves to a port of other bridges.                      *)
moveClient ==
  /\ moves < MaxMoves
  /\ eligible' \in {{b} : b \in Bridges} \ {eligible}
  /\ moves' = moves + 1
  /\ UNCHANGED <<tick, due, sent, skips>>

Next == originate \/ skipTick \/ moveClient

Spec == Init /\ [][Next]_vars

-----------------------------------------------------------------------------

(* The hellos do not drift: with no tick dropped, the n-th BPDU after a      *)
(* bridge was scheduled leaves no earlier than n hello times later and less  *)
(* than two ticks after that, for a hello of at least two ticks.             *)
HelloKept ==
  \A b \in DOMAIN sent :
    getSTPParams(b) >= 2 /\ sent[b].count > 0 /\ ~sent[b].held
      => sent[b].last - sent[b].first - sent[b].count * Hello(b) \in 0..2 * Jitter - 1
=============================================================================
