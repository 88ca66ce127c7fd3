------------------------------- MODULE SshTcp -------------------------------
(***************************************************************************)
(* The TCP sessions behind a simulated device's SSH port                   *)
(* (internal/protocols/tcp_ssh.go) over the packet-backed stream of        *)
(* internal/virtualtcp.                                                    *)
(*                                                                         *)
(* The decoder, a session's serving goroutine, the stream's emitter, the   *)
(* retransmission timers and the idle sweep run concurrently; each step    *)
(* below is one critical section.  Sequence numbers count from the SYN     *)
(* (0); one payload segment is one unit.  The network loses, repeats and   *)
(* reorders: the client's segments are any it may have sent so far, with   *)
(* any acknowledgment of what was transmitted up to then.                  *)
(***************************************************************************)
EXTENDS Naturals, Sequences, FiniteSets, SequencesExt

CONSTANTS
  Sessions,       \* the session objects a behaviour may create
  Keys,           \* client and server endpoints of a connection
  Capacity,       \* sshMaxSessions
  MaxRetries,     \* sshMaxRetransmits
  Buffer,         \* streamBufferDepth
  Requests,       \* payload segments a client sends
  Answers,        \* payload segments the server writes
  MaxSegments,    \* bound: segments the decoder receives
  NoSession, Reserved

VARIABLES
  table,          \* h.sessions: a session, a reservation, or nothing, per key
  session,        \* sshTCPSession
  conn,           \* its virtualtcp.PacketConn
  serving,        \* the goroutine that runs ServeConn and finishServer
  emitting,       \* the sequence number runEmitter is sending, 0 when idle
  closing,        \* sessions out of the table that close() has yet to reach
  decoder,        \* the segment acceptSegment is working on
  wire,           \* sequence numbers transmitted for a session
  received        \* segments the decoder took so far

vars == <<table, session, conn, serving, emitting, closing, decoder, wire, received>>

Idle == [pc |-> "idle"]

Unopened == [key |-> NoSession, established |-> FALSE, clientNext |-> 0, serverNext |-> 0,
             unacknowledged |-> <<>>, timer |-> "nil", fired |-> 0, stale |-> FALSE,
             finSeq |-> 0, finPending |-> FALSE, fin |-> FALSE, finAcknowledged |-> FALSE,
             clientFIN |-> FALSE, closed |-> FALSE]

NewPacketConn == [inbound |-> <<>>, read |-> <<>>, eof |-> FALSE, written |-> 0,
                  queued |-> FALSE, finished |-> FALSE, done |-> FALSE]

Opened(s) == session[s].key # NoSession

Init ==
  /\ table = [k \in Keys |-> NoSession]
  /\ session = [s \in Sessions |-> Unopened]
  /\ conn = [s \in Sessions |-> NewPacketConn]
  /\ serving = [s \in Sessions |-> "none"]
  /\ emitting = [s \in Sessions |-> 0]
  /\ closing = {}
  /\ decoder = Idle
  /\ wire = [s \in Sessions |-> {}]
  /\ received = 0

-----------------------------------------------------------------------------
(* Timers.  A fired timer's callback waits for the session lock; stopping it *)
(* no longer has an effect, and neither has dropping the reference to one    *)
(* that is still running: both are callbacks to come.                        *)

scheduleRetransmitLocked(r) ==
  IF r.closed \/ r.timer # "nil" \/ r.unacknowledged = <<>> THEN r
  ELSE [r EXCEPT !.timer = "armed"]

TimerFires(s) ==
  /\ session[s].timer = "armed"
  /\ session' = [session EXCEPT ![s].timer = "spent", ![s].fired = @ + 1]
  /\ UNCHANGED <<table, conn, serving, emitting, closing, decoder, wire, received>>

(* A session leaves the table first; close() follows without the table's     *)
(* lock.                                                                     *)
RemovesWhateverIsThere(s) ==
  /\ table' = [table EXCEPT ![session[s].key] = NoSession]
  /\ closing' = closing \cup {s}

closeSessionIfCurrent(s) ==
  IF table[session[s].key] = s
  THEN /\ table' = [table EXCEPT ![session[s].key] = NoSession]
       /\ closing' = closing \cup {s}
  ELSE UNCHANGED <<table, closing>>

closeSession(k) ==
  /\ table' = [table EXCEPT ![k] = NoSession]
  /\ closing' = closing \cup ({table[k]} \cap Sessions)

closed(r) == [r EXCEPT !.closed = TRUE, !.timer = "nil"]

close(s) ==
  /\ s \in closing
  /\ closing' = closing \ {s}
  /\ session' = [session EXCEPT ![s] = closed(@)]
  /\ conn' = [conn EXCEPT ![s].done = TRUE]
  /\ UNCHANGED <<table, serving, emitting, decoder, wire, received>>

retransmit(s) ==
  LET forgotten == IF session[s].timer = "armed" THEN 1 ELSE 0
      r == [session[s] EXCEPT !.fired = @ - 1 + forgotten, !.timer = "nil"]
      oldest == Head(r.unacknowledged)
      waiting == ~r.closed /\ r.unacknowledged # <<>>
  IN /\ session[s].fired > 0
     /\ \/ /\ ~waiting
           /\ session' = [session EXCEPT ![s] = r]
           /\ UNCHANGED <<table, closing, wire>>
        \/ /\ waiting /\ oldest.retries >= MaxRetries
           /\ session' = [session EXCEPT ![s] = r]
           /\ closeSessionIfCurrent(s)
           /\ UNCHANGED wire
        \/ /\ waiting /\ oldest.retries < MaxRetries
           /\ session' = [session EXCEPT ![s] =
                scheduleRetransmitLocked([r EXCEPT !.unacknowledged[1].retries = @ + 1])]
           /\ wire' = [wire EXCEPT ![s] = @ \cup {oldest.seq}]
           /\ UNCHANGED <<table, closing>>
     /\ UNCHANGED <<conn, serving, emitting, decoder, received>>

(* The second half of sendSegment: the frame joins the unacknowledged ones   *)
(* and is transmitted.                                                       *)
appended(r, seq) ==
  scheduleRetransmitLocked([r EXCEPT !.unacknowledged =
    Append(@, [seq |-> seq, end |-> seq + 1, retries |-> 0])])

-----------------------------------------------------------------------------
(* The decoder.                                                              *)

Take == decoder = Idle /\ received < MaxSegments /\ received' = received + 1

expired == {s \in Sessions : Opened(s) /\ table[session[s].key] = s /\ session[s].stale}

(* h.removeExpiredLocked on a table.                                         *)
without(t, gone) == [k \in Keys |-> IF t[k] \in gone THEN NoSession ELSE t[k]]

retransmitOldest(k) ==
  LET s == table[k] IN
  /\ Take
  /\ s \in Sessions /\ ~session[s].stale
  /\ wire' = [wire EXCEPT ![s] = @ \cup
       (IF session[s].closed \/ session[s].unacknowledged = <<>> THEN {}
        ELSE {Head(session[s].unacknowledged).seq})]
  /\ UNCHANGED <<table, session, conn, serving, emitting, closing, decoder>>

reserveSession(k) ==
  LET kept == without(table, expired) IN
  /\ Take
  /\ table[k] \in Sessions => session[table[k]].stale
  /\ table[k] # Reserved
  /\ session' = [s \in Sessions |-> IF s = table[k] THEN closed(session[s]) ELSE session[s]]
  /\ conn' = [s \in Sessions |-> IF s = table[k] THEN [conn[s] EXCEPT !.done = TRUE] ELSE conn[s]]
  /\ closing' = closing \cup (expired \ {table[k]})
  /\ IF Cardinality({j \in Keys : kept[j] # NoSession}) >= Capacity
     THEN table' = kept /\ UNCHANGED decoder
     ELSE table' = [kept EXCEPT ![k] = Reserved] /\ decoder' = [pc |-> "open", key |-> k]
  /\ UNCHANGED <<serving, emitting, wire>>

releaseReservation ==
  /\ decoder.pc = "open"
  /\ table' = [table EXCEPT ![decoder.key] = IF @ = Reserved THEN NoSession ELSE @]
  /\ decoder' = Idle
  /\ UNCHANGED <<session, conn, serving, emitting, closing, wire, received>>

openSession(s) ==
  /\ decoder.pc = "open"
  /\ ~Opened(s)
  /\ s = CHOOSE new \in Sessions : ~Opened(new)
  /\ session' = [session EXCEPT ![s].key = decoder.key, ![s].clientNext = 1]
  /\ table' = [table EXCEPT ![decoder.key] = s]
  /\ decoder' = [pc |-> "syn", session |-> s]
  /\ UNCHANGED <<conn, serving, emitting, closing, wire, received>>

sendSYN ==
  /\ decoder.pc = "syn"
  /\ LET s == decoder.session IN
       /\ session' = [session EXCEPT ![s] = appended([@ EXCEPT !.serverNext = 1], 0)]
       /\ wire' = [wire EXCEPT ![s] = @ \cup {0}]
  /\ decoder' = Idle
  /\ UNCHANGED <<table, conn, serving, emitting, closing, received>>

(* What the network may hand the decoder from the client of s, once it has a *)
(* SYN-ACK: any of its payloads, a bare acknowledgment, the FIN alone or on  *)
(* the last payload, acknowledging any prefix of what was transmitted.       *)
Acks(s) == {a \in 1..session[s].serverNext : 0..(a - 1) \subseteq wire[s]}

Segments(s) ==
  [data : {TRUE}, fin : {FALSE}, seq : 1..Requests, ack : Acks(s)]
  \cup [data : {FALSE}, fin : BOOLEAN, seq : {Requests + 1}, ack : Acks(s)]
  \cup [data : {TRUE}, fin : {TRUE}, seq : {Requests} \ {0}, ack : Acks(s)]

acknowledge(r, ack) ==
  LET open == {i \in DOMAIN r.unacknowledged : r.unacknowledged[i].end > ack}
      first == Min(open \cup {Len(r.unacknowledged) + 1})
      rest == SubSeq(r.unacknowledged, first, Len(r.unacknowledged))
      removed == first > 1
      q == scheduleRetransmitLocked([r EXCEPT !.unacknowledged = rest,
             !.timer = IF removed THEN "nil" ELSE @, !.stale = FALSE])
  IN [q EXCEPT !.finAcknowledged = @ \/ (q.fin /\ rest = <<>>)]

finished(r) == r.clientFIN /\ r.finAcknowledged

session_(k) ==
  LET s == table[k] IN
  /\ Take
  /\ s \in Sessions /\ session[s].stale
  /\ closeSession(k)
  /\ UNCHANGED <<session, conn, serving, emitting, decoder, wire>>

handleRST(k) ==
  LET s == table[k] IN
  /\ Take
  /\ s \in Sessions /\ ~session[s].stale
  /\ closeSession(k)
  /\ UNCHANGED <<session, conn, serving, emitting, decoder, wire>>

HandlePacket(k) ==
  LET s == table[k] IN
  /\ Take
  /\ s \in Sessions /\ ~session[s].stale
  /\ \E seg \in Segments(s) :
       LET r == acknowledge(session[s], seg.ack) IN
       /\ session' = [session EXCEPT ![s] = r]
       /\ IF finished(r)
          THEN closeSessionIfCurrent(s) /\ UNCHANGED decoder
          ELSE /\ decoder' = [pc |-> "update", session |-> s, segment |-> seg]
               /\ UNCHANGED <<table, closing>>
  /\ UNCHANGED <<conn, serving, emitting, wire>>

AcceptsAhead(r, seg) == seg.seq >= r.clientNext

(* In sequence is accepted and nothing else.                                 *)
inSequence(r, seg) == seg.seq = r.clientNext

acceptSegment ==
  /\ decoder.pc = "update"
  /\ LET s == decoder.session
         seg == decoder.segment
         r == session[s]
         start == ~r.established /\ seg.ack = r.serverNext
         payload == seg.data /\ inSequence(r, seg)
         fin == seg.fin /\ inSequence(r, seg)
     IN /\ session' = [session EXCEPT
             ![s].established = @ \/ start,
             ![s].clientNext = (IF payload THEN seg.seq + 1 ELSE @) + (IF fin THEN 1 ELSE 0),
             ![s].clientFIN = @ \/ fin]
        /\ serving' = [serving EXCEPT ![s] = IF start THEN "serving" ELSE @]
        /\ decoder' = [pc |-> "deliver", session |-> s, seq |-> seg.seq, payload |-> payload, fin |-> fin]
  /\ UNCHANGED <<table, conn, emitting, closing, wire, received>>

accepts(c) == ~c.done /\ ~c.finished /\ Len(c.inbound) < Buffer

Deliver ==
  /\ decoder.pc = "deliver"
  /\ LET s == decoder.session IN
       IF decoder.payload /\ ~accepts(conn[s])
       THEN /\ closeSession(session[s].key)
            /\ decoder' = Idle
            /\ UNCHANGED conn
       ELSE /\ conn' = IF decoder.payload
                       THEN [conn EXCEPT ![s].inbound = Append(@, decoder.seq)] ELSE conn
            /\ decoder' = IF decoder.fin THEN [pc |-> "finish", session |-> s] ELSE Idle
            /\ UNCHANGED <<table, closing>>
  /\ UNCHANGED <<session, serving, emitting, wire, received>>

FinishInbound ==
  /\ decoder.pc = "finish"
  /\ conn' = [conn EXCEPT ![decoder.session].finished = TRUE]
  /\ IF finished(session[decoder.session])
     THEN closeSessionIfCurrent(decoder.session)
     ELSE UNCHANGED <<table, closing>>
  /\ decoder' = Idle
  /\ UNCHANGED <<session, serving, emitting, wire, received>>

-----------------------------------------------------------------------------
(* The serving goroutine and the emitter.                                    *)

Read(s) ==
  /\ serving[s] = "serving" /\ ~conn[s].done /\ conn[s].inbound # <<>>
  /\ conn' = [conn EXCEPT ![s].read = Append(@, Head(conn[s].inbound)), ![s].inbound = Tail(@)]
  /\ UNCHANGED <<table, session, serving, emitting, closing, decoder, wire, received>>

Write(s) ==
  /\ serving[s] = "serving" /\ ~conn[s].done /\ ~conn[s].queued
  /\ conn[s].written < Answers
  /\ conn' = [conn EXCEPT ![s].queued = TRUE, ![s].written = @ + 1]
  /\ UNCHANGED <<table, session, serving, emitting, closing, decoder, wire, received>>

(* ServeConn ends by itself, at the end of the stream or when it is closed,  *)
(* and closes the stream on its way out.                                     *)
ServeConn(s) ==
  /\ serving[s] = "serving"
  /\ serving' = [serving EXCEPT ![s] = "served"]
  /\ conn' = [conn EXCEPT ![s].done = TRUE,
                ![s].eof = ~conn[s].done /\ conn[s].finished /\ conn[s].inbound = <<>>]
  /\ UNCHANGED <<table, session, emitting, closing, decoder, wire, received>>

runEmitter(s) ==
  /\ conn[s].queued /\ emitting[s] = 0
  /\ conn' = [conn EXCEPT ![s].queued = FALSE]
  /\ \/ /\ emitting' = [emitting EXCEPT ![s] = session[s].serverNext]
        /\ session' = [session EXCEPT ![s].serverNext = @ + 1]
     \/ conn[s].done /\ UNCHANGED <<emitting, session>>
  /\ UNCHANGED <<table, serving, closing, decoder, wire, received>>

sendSegment(s) ==
  /\ emitting[s] # 0
  /\ session' = [session EXCEPT ![s] = appended(@, emitting[s])]
  /\ wire' = [wire EXCEPT ![s] = @ \cup {emitting[s]}]
  /\ emitting' = [emitting EXCEPT ![s] = 0]
  /\ UNCHANGED <<table, conn, serving, closing, decoder, received>>

finishServer(s) ==
  \/ /\ serving[s] = "served"
     /\ IF session[s].closed \/ session[s].fin \/ session[s].finPending
        THEN serving' = [serving EXCEPT ![s] = "done"] /\ UNCHANGED session
        ELSE /\ session' = [session EXCEPT ![s].finPending = TRUE,
                  ![s].finSeq = session[s].serverNext, ![s].serverNext = @ + 1]
             /\ serving' = [serving EXCEPT ![s] = "fin"]
     /\ UNCHANGED <<table, conn, emitting, closing, decoder, wire, received>>
  \/ /\ serving[s] = "fin"
     /\ session' = [session EXCEPT ![s] = appended(@, session[s].finSeq)]
     /\ wire' = [wire EXCEPT ![s] = @ \cup {session[s].finSeq}]
     /\ serving' = [serving EXCEPT ![s] = "finSent"]
     /\ UNCHANGED <<table, conn, emitting, closing, decoder, received>>
  \/ /\ serving[s] = "finSent"
     /\ LET r == [session[s] EXCEPT !.finPending = FALSE, !.fin = TRUE,
                    !.finAcknowledged = @ \/ session[s].unacknowledged = <<>>] IN
          /\ session' = [session EXCEPT ![s] = r]
          /\ IF finished(r) THEN closeSessionIfCurrent(s) ELSE UNCHANGED <<table, closing>>
     /\ serving' = [serving EXCEPT ![s] = "done"]
     /\ UNCHANGED <<conn, emitting, decoder, wire, received>>

-----------------------------------------------------------------------------
(* Time, the sweep of stack_sessions.go, and Reset.                          *)

GoesIdle(s) ==
  /\ Opened(s) /\ table[session[s].key] = s /\ ~session[s].stale /\ decoder = Idle
  /\ session' = [session EXCEPT ![s].stale = TRUE]
  /\ UNCHANGED <<table, conn, serving, emitting, closing, decoder, wire, received>>

cleanupExpired ==
  /\ expired # {}
  /\ table' = without(table, expired)
  /\ closing' = closing \cup expired
  /\ UNCHANGED <<session, conn, serving, emitting, decoder, wire, received>>

Reset ==
  /\ table # [k \in Keys |-> NoSession]
  /\ table' = [k \in Keys |-> NoSession]
  /\ closing' = closing \cup {s \in Sessions : \E k \in Keys : table[k] = s}
  /\ UNCHANGED <<session, conn, serving, emitting, decoder, wire, received>>

Next ==
  \/ \E k \in Keys : \/ retransmitOldest(k) \/ reserveSession(k) \/ session_(k)
                     \/ handleRST(k) \/ HandlePacket(k)
  \/ releaseReservation \/ sendSYN \/ acceptSegment \/ Deliver \/ FinishInbound
  \/ \E s \in Sessions : \/ openSession(s) \/ TimerFires(s) \/ retransmit(s) \/ close(s)
                         \/ Read(s) \/ Write(s) \/ ServeConn(s) \/ runEmitter(s)
                         \/ sendSegment(s) \/ finishServer(s) \/ GoesIdle(s)
  \/ cleanupExpired \/ Reset

(* Goroutines run, timers fire, the sweep is periodic, and a session nobody  *)
(* speaks on grows stale.  Nothing is assumed of the client or the network.  *)
Fairness ==
  /\ WF_vars(cleanupExpired)
  /\ WF_vars(releaseReservation \/ sendSYN \/ acceptSegment \/ Deliver \/ FinishInbound)
  /\ \A s \in Sessions :
       /\ WF_vars(TimerFires(s)) /\ WF_vars(retransmit(s)) /\ WF_vars(close(s))
       /\ WF_vars(conn[s].done /\ ServeConn(s)) /\ WF_vars(finishServer(s))
       /\ WF_vars(GoesIdle(s))

Spec == Init /\ [][Next]_vars /\ Fairness

-----------------------------------------------------------------------------
(* The client's bytes reach the command session in order, once each, and the *)
(* end of the stream only after all of them, whatever the network repeats,   *)
(* loses or reorders.                                                        *)
StreamInOrder ==
  \A s \in Sessions :
    /\ conn[s].read \o conn[s].inbound = [i \in 1..Len(conn[s].read \o conn[s].inbound) |-> i]
    /\ conn[s].eof => Len(conn[s].read) = Requests

(* A session is in the table, on its way to close(), or closed: none is out  *)
(* of reach of the sweep, and none in the table is closed.  While data of an *)
(* open one is unacknowledged a retransmission is to come.                   *)
SessionsAttended ==
  \A s \in Sessions : Opened(s) =>
    /\ session[s].closed \/ s \in closing \/ table[session[s].key] = s
    /\ table[session[s].key] = s => ~session[s].closed
    /\ ~session[s].closed /\ s \notin closing /\ session[s].unacknowledged # <<>>
         => session[s].timer # "nil" \/ session[s].fired > 0

(* Every session closes and its serving goroutine returns, even when the     *)
(* client disappears.                                                        *)
SessionsEnd ==
  \A s \in Sessions : [](Opened(s) => <>(session[s].closed /\ serving[s] \in {"none", "done"}))
=============================================================================
