---------------------------- MODULE Iperf3Sender ----------------------------
(***************************************************************************)
(* One stream of a reverse iperf3 test (internal/protocols/                *)
(* iperf3_sender.go): the NewReno sender, its sequence numbers modulo      *)
(* Modulus (2^32 in the code, one unit a segment), and the results it      *)
(* reports.  Segments and acknowledgements are lost, late and out of       *)
(* order; the client is an ordinary TCP receiver.                          *)
(***************************************************************************)
EXTENDS Naturals, FiniteSets

CONSTANTS
  Modulus,     \* of the sequence numbers
  Window,      \* conn.window, in segments
  Duplicates,  \* iperf3DuplicateACKs
  Length,      \* segments the test's duration leaves time for
  First        \* first sequence numbers to consider (the ISN is random)

VARIABLES
  conn,      \* first, unacked, serverNext, sent, duplicates, recovering, recover, resend
  data,      \* segments on their way
  late,      \* an acknowledgement held back, or Modulus
  client,    \* next byte it expects, and what it holds beyond
  total      \* segments sent for the first time

vars == <<conn, data, late, client, total>>

Plus(a, n) == (a + n) % Modulus
Minus(a, b) == (a + Modulus - b) % Modulus

ComparesPlainly(a, b) == a < b

seqBefore(a, b) == a # b /\ Minus(b, a) < Modulus \div 2

Init ==
  /\ conn \in {[first |-> f, unacked |-> f, serverNext |-> f, sent |-> f, duplicates |-> 0,
                recovering |-> FALSE, recover |-> 0, resend |-> FALSE] : f \in First}
  /\ data = {}
  /\ late = Modulus
  /\ client = [next |-> conn.first, held |-> {}]
  /\ total = 0

-----------------------------------------------------------------------------
(* The retransmission timeout: again from the first byte not acknowledged.   *)
KeepsItsPlace ==
  /\ conn.sent # conn.unacked
  /\ conn' = [conn EXCEPT !.recovering = FALSE, !.resend = FALSE]
  /\ UNCHANGED <<data, late, client, total>>

timeout ==
  /\ conn.sent # conn.unacked
  /\ conn' = [conn EXCEPT !.serverNext = conn.unacked, !.recovering = FALSE, !.resend = FALSE]
  /\ UNCHANGED <<data, late, client, total>>

resend ==
  /\ conn.resend
  /\ conn' = [conn EXCEPT !.resend = FALSE]
  /\ data' = data \union {conn.unacked}
  /\ UNCHANGED <<late, client, total>>

next ==
  LET following == Plus(conn.serverNext, 1)
      new == seqBefore(conn.sent, following)
  IN /\ ~conn.resend
     /\ Minus(conn.serverNext, conn.unacked) + 1 <= Window
     /\ new => total < Length
     /\ data' = data \union {conn.serverNext}
     /\ conn' = [conn EXCEPT !.serverNext = following, !.sent = IF new THEN following ELSE @]
     /\ total' = IF new THEN total + 1 ELSE total
     /\ UNCHANGED <<late, client>>

-----------------------------------------------------------------------------
(* acknowledged: what an ACK makes of the connection.  segment does not pass *)
(* one on while nothing has been sent.                                       *)
acknowledged(c, ack) ==
  IF c.sent = c.first \/ seqBefore(c.sent, ack) \/ seqBefore(ack, c.unacked) THEN c
  ELSE IF seqBefore(c.unacked, ack)
  THEN LET still == c.recovering /\ seqBefore(ack, c.recover) IN
       [c EXCEPT !.unacked = ack, !.duplicates = 0,
                 !.serverNext = IF seqBefore(@, ack) THEN ack ELSE @,
                 !.recovering = still,
                 !.resend = IF c.recovering THEN still ELSE @]
  ELSE IF c.sent # c.unacked
  THEN LET third == c.duplicates + 1 = Duplicates /\ ~c.recovering IN
       [c EXCEPT !.duplicates = IF @ > Duplicates THEN @ ELSE @ + 1,
                 !.recovering = @ \/ third,
                 !.recover = IF third THEN c.sent ELSE @,
                 !.resend = @ \/ third]
  ELSE c

(* A segment arrives and the client acknowledges; the ACK is lost, held back *)
(* or received.                                                              *)
Received(seq) ==
  LET held == client.held \union (IF seqBefore(seq, client.next) THEN {} ELSE {seq})
      RunTo == CHOOSE n \in 0..Cardinality(held) :
                 /\ \A i \in 0..(n - 1) : Plus(client.next, i) \in held
                 /\ Plus(client.next, n) \notin held
  IN [next |-> Plus(client.next, RunTo),
      held |-> {h \in held : Minus(h, client.next) > RunTo}]

arrive(seq) ==
  /\ seq \in data
  /\ data' = data \ {seq}
  /\ client' = Received(seq)
  /\ conn' = acknowledged(conn, client'.next)
  /\ UNCHANGED <<late, total>>

arriveUnheard(seq) ==
  /\ seq \in data
  /\ data' = data \ {seq}
  /\ client' = Received(seq)
  /\ late' \in {late, client'.next}
  /\ UNCHANGED <<conn, total>>

arriveLate ==
  /\ late # Modulus
  /\ conn' = acknowledged(conn, late)
  /\ late' = Modulus
  /\ UNCHANGED <<data, client, total>>

lose(seq) ==
  /\ seq \in data
  /\ data' = data \ {seq}
  /\ UNCHANGED <<conn, late, client, total>>

Numbers == 0..(Modulus - 1)

Next ==
  \/ timeout \/ resend \/ next \/ arriveLate
  \/ \E seq \in Numbers : arrive(seq) \/ arriveUnheard(seq) \/ lose(seq)

(* The sender runs every millisecond and its timer fires after a second      *)
(* without progress; a segment sent over and over is not lost every time.    *)
Fairness ==
  /\ WF_vars(timeout) /\ WF_vars(resend) /\ SF_vars(next)
  /\ SF_vars(arrive(conn.unacked))

Spec == Init /\ [][Next]_vars /\ Fairness

-----------------------------------------------------------------------------
(* The bytes results() reports for the stream.                               *)
reported == Minus(conn.sent, conn.first)

(* The sender's pointers keep their order around the wrap: acknowledged, then*)
(* next to send, then highest sent, with no more than the client's window    *)
(* between the ends; and it never takes for acknowledged what the client has *)
(* not received.                                                             *)
PointersOrdered ==
  /\ Minus(conn.serverNext, conn.unacked) <= Minus(conn.sent, conn.unacked)
  /\ Minus(conn.sent, conn.unacked) <= Window
  /\ Minus(client.next, conn.unacked) <= Minus(conn.sent, conn.unacked)

(* Everything the test has time to send reaches the client and is            *)
(* acknowledged, whatever is lost: recovery, the timer and the window do not *)
(* leave the stream waiting on one another.                                  *)
StreamFinishes ==
  <>(total = Length /\ conn.unacked = conn.sent)

(* The comment of results: what each stream received or, in a reverse test,  *)
(* what it sent.                                                             *)
ReportsWhatWasSent == reported = total
=============================================================================
