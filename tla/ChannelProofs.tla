---------------------------- MODULE ChannelProofs ----------------------------
(***************************************************************************)
(* Two components made of goroutines that hand work to one another over    *)
(* bounded channels: the protocol stack, for any frames, queue capacities  *)
(* and limits, and the event hub, for any clients, producers, buffer and   *)
(* limiter sizes.                                                          *)
(***************************************************************************)
EXTENDS StackLifecycle, SequenceTheorems, TLAPS

(***************************************************************************)
(* The stack.  The inductive invariant says what each stage of Stop        *)
(* establishes, and which failures the supervisor records.                 *)
(***************************************************************************)
(* What each stage of Stop leaves behind it stays true to the end: the stack  *)
(* is stopped, then no proxied datagram is left, then no timeline, then no    *)
(* worker, and only then, with nobody left to ask, no upstream query.         *)
StopOrder ==
  /\ stopping # "no" => life = "stopped"
  /\ stopping \in {"timelines", "workers", "queries", "done"} =>
       udpStopped /\ \A f \in Frames : frame[f] \notin {"dialing", "proxied"}
  /\ stopping \in {"workers", "queries", "done"} => timelines = "stopped"
  /\ stopping \in {"queries", "done"} => \A w \in Workers : ~Up(w)
  /\ stopping = "done" => \A f \in Frames : frame[f] # "upstream"

(* The supervisor fails, and the failure is recorded, only for a worker that  *)
(* used every restart it had.                                                 *)
FailureEarned == group = "failed" \/ failure => \E w \in Workers : faults[w] = Restarts

IInv == TypeOK /\ StopOrder /\ FailureEarned

(* A step of the frame's own work.                                            *)
FrameStep(f) ==
  receiveAndQueuePacket(f) \/ decodePacket(f) \/ sendPacket(f) \/ Deferred(f)

(* Wherever a frame goes, the part of the stack that takes it there is still  *)
(* alive: the proxy takes work only before its Stop, only the decoder asks    *)
(* upstream, only the sender transmits, and nothing is queued on a stopped    *)
(* stack.                                                                     *)
LEMMA FrameMoves ==
  ASSUME NEW f \in Frames, FrameStep(f)
  PROVE  /\ UNCHANGED <<life, stopping, worker, faults, group, failure, udpStopped, timelines, reloads>>
         /\ frame[f] # "sent"
         /\ \E p \in Places :
              /\ frame' = [frame EXCEPT ![f] = p]
              /\ p \in {"dialing", "proxied"} => ~udpStopped
              /\ p = "upstream" => Up("decode")
              /\ p = "sent" => Up("send")
              /\ p = "sendQueue" => life # "stopped"
<1>1. CASE receiveAndQueuePacket(f)
  BY <1>1 DEF receiveAndQueuePacket, Move, Places
<1>2. CASE decodePacket(f)
  <2>1. CASE Send(f)
    BY <1>2, <2>1 DEF decodePacket, Send, Move, Places
  <2>2. CASE launchProxy(f)
    BY <1>2, <2>2 DEF decodePacket, launchProxy, Move, Places
  <2>3. CASE askUpstream(f)
    BY <1>2, <2>3 DEF decodePacket, askUpstream, Send, Move, Places
  <2>4. CASE Move(f, "over") \/ Move(f, "delayed")
    BY <1>2, <2>4 DEF decodePacket, Move, Places
  <2> QED
    BY <1>2, <2>1, <2>2, <2>3, <2>4 DEF decodePacket
<1>3. CASE sendPacket(f)
  BY <1>3 DEF sendPacket, Move, Places
<1>4. CASE delayElapses(f) \/ queryUpstreams(f)
  BY <1>4 DEF delayElapses, queryUpstreams, Send, Move, Places
<1>5. CASE trackProxyConn(f)
  BY <1>5 DEF trackProxyConn, Move, Places
<1>6. CASE runProxy(f)
  BY <1>6 DEF runProxy, Send, Move, Places
<1> QED
  BY <1>1, <1>2, <1>3, <1>4, <1>5, <1>6 DEF FrameStep, Deferred

LEMMA InitInvariant == Init => IInv
  BY RestartsAssumption DEF Init, IInv, TypeOK, StopOrder, FailureEarned, Places, Up

(* No step of the workers, of a frame, of Stop or of a reload breaks the      *)
(* order.                                                                     *)
LEMMA StepInvariant == IInv /\ [Next]_vars => IInv'
<1> SUFFICES ASSUME IInv, [Next]_vars PROVE IInv'
  OBVIOUS
<1> USE RestartsAssumption DEF IInv, TypeOK, StopOrder, FailureEarned, Up
<1>1. CASE Start \/ timelineEnds \/ ReloadConfig \/ Stop \/ recordWorkerFailure
  BY <1>1 DEF Start, timelineEnds, ReloadConfig, Stop, recordWorkerFailure
<1>2. CASE StopStep
  <2>1. CASE waitProxies
    BY <2>1 DEF waitProxies, In
  <2>2. CASE waitQueries
    BY <2>2 DEF waitQueries, In
  <2> QED
    BY <1>2, <2>1, <2>2
    DEF StopStep, stopProxies, stopBehaviorTimelines, cancelWorkers, waitWorkers
<1>3. ASSUME NEW f \in Frames, FrameStep(f) PROVE IInv'
  <2>1. PICK p \in Places :
          /\ frame' = [frame EXCEPT ![f] = p]
          /\ p \in {"dialing", "proxied"} => ~udpStopped
          /\ p = "upstream" => Up("decode")
    BY <1>3, FrameMoves
  <2>2. UNCHANGED <<life, stopping, worker, faults, group, failure, udpStopped, timelines>>
    BY <1>3, FrameMoves
  <2>3. TypeOK'
    BY <2>1, <2>2
  <2>4. StopOrder'
    BY <2>1, <2>2 DEF Workers
  <2>5. FailureEarned'
    BY <2>2
  <2> QED
    BY <2>3, <2>4, <2>5
<1>4. ASSUME NEW w \in Workers, workerFaults(w) PROVE IInv'
  <2>1. CASE faults[w] < Restarts /\ faults' = [faults EXCEPT ![w] = @ + 1] /\ UNCHANGED <<worker, group>>
    BY <1>4, <2>1 DEF workerFaults
  <2>2. CASE /\ faults[w] = Restarts /\ worker' = [worker EXCEPT ![w] = "gone"]
             /\ group' = "failed" /\ UNCHANGED faults
    BY <1>4, <2>2 DEF workerFaults
  <2> QED
    BY <1>4, <2>1, <2>2 DEF workerFaults
<1>5. ASSUME NEW w \in Workers, workerReturns(w) PROVE IInv'
  BY <1>5 DEF workerReturns
<1>6. CASE UNCHANGED vars
  BY <1>6 DEF vars
<1> QED
  BY <1>1, <1>2, <1>3, <1>4, <1>5, <1>6 DEF Next, FrameStep

THEOREM StopOrderKept == Spec => []IInv
  BY InitInvariant, StepInvariant, PTL DEF Spec

(* When Stack.Stop has returned no worker, proxied datagram, upstream query   *)
(* or timeline of the session is left, for any number of frames, any queue    *)
(* capacity and any limit; and a worker failure is reported only when a       *)
(* worker used up its restarts.                                               *)
THEOREM StopLeavesNothing == Spec => []QuietAfterStop
<1>1. IInv => QuietAfterStop
  BY DEF IInv, StopOrder, FailureEarned, QuietAfterStop, In
<1> QED
  BY <1>1, StopOrderKept, PTL

(* Stack.Send refuses everything once the stack has stopped, and no frame is  *)
(* transmitted after Stop has returned.                                       *)
THEOREM StopSilences == Spec => SilentAfterStop
<1> DEFINE Quiet ==
      /\ life = "stopped" => \A f \in Frames : frame'[f] = "sendQueue" => frame[f] = "sendQueue"
      /\ stopping = "done" => In("sent")' = In("sent")
<1>1. ASSUME IInv, Next PROVE Quiet
  <2>1. CASE UNCHANGED frame
    BY <2>1 DEF In
  <2>2. ASSUME NEW f \in Frames, FrameStep(f) PROVE Quiet
    <3>1. PICK p \in Places :
            /\ frame' = [frame EXCEPT ![f] = p]
            /\ p = "sent" => Up("send")
            /\ p = "sendQueue" => life # "stopped"
      BY <2>2, FrameMoves
    <3>2. frame[f] # "sent"
      BY <2>2, FrameMoves
    <3>3. stopping = "done" => ~Up("send")
      BY <1>1 DEF IInv, StopOrder, Workers
    <3>4. frame \in [Frames -> Places]
      BY <1>1 DEF IInv, TypeOK
    <3> QED
      BY <3>1, <3>2, <3>3, <3>4 DEF In
  <2> QED
    BY <1>1, <2>1, <2>2
    DEF Next, FrameStep, Start, timelineEnds, ReloadConfig, Stop, recordWorkerFailure, StopStep, stopProxies,
        waitProxies, stopBehaviorTimelines, cancelWorkers, waitWorkers, waitQueries, workerFaults, workerReturns
<1>2. IInv /\ [Next]_vars => [Quiet]_vars
  BY <1>1
<1> QED
  BY <1>2, StopOrderKept, PTL DEF Spec, SilentAfterStop
-----------------------------------------------------------------------------
(***************************************************************************)
(* The event hub.  What a browser got and what its buffer holds for it are *)
(* one log, to which only broadcastMessage adds.  The inductive invariant  *)
(* is the property for whole logs, and that the events still on their way, *)
(* in the hub's queue and in the producers' hands, are in no log and are   *)
(* all different.                                                          *)
(***************************************************************************)
CONSTANTS Clients, Producers, Subscriptions, BufferSize, ClientLimits, MaxTokens, MaxEvents
VARIABLES maxClients, hubLoop, hubStopped, phase, client, clients, shut, buffer, got, queue, draft, eventID, buckets

Hub == INSTANCE EventHub WITH loop <- hubLoop, stopped <- hubStopped, closed <- shut, send <- buffer, tokens <- buckets

Numbered == [id : Nat \ {0}, to : Subscriptions]

Logs == [c \in Clients |-> got[c] \o buffer[c]]

(* Two logs have what they share in the same order. *)
SameOrder(logs) ==
  \A c, d \in Clients : \A i, j \in DOMAIN logs[c], k, l \in DOMAIN logs[d] :
    logs[c][i] = logs[d][k] /\ logs[c][j] = logs[d][l] /\ i < j => k < l

Own(logs) == \A c \in Clients : \A i \in DOMAIN logs[c] : logs[c][i].to = client[c]

HubType ==
  /\ client \in [Clients -> Subscriptions]
  /\ buffer \in [Clients -> Seq(Numbered)] /\ got \in [Clients -> Seq(Numbered)]
  /\ queue \in Seq(Numbered)
  /\ draft \in [Producers -> Numbered \cup {Hub!NoEvent}]
  /\ eventID \in Nat

(* Nothing an event number has not been given to; nothing delivered twice.   *)
OnTheirWay(logs) ==
  /\ \A c \in Clients : \A i \in DOMAIN logs[c] :
       /\ logs[c][i].id =< eventID
       /\ \A n \in DOMAIN queue : logs[c][i] # queue[n]
       /\ \A p \in Producers : logs[c][i] # draft[p]
  /\ \A n \in DOMAIN queue :
       /\ queue[n].id =< eventID
       /\ \A m \in DOMAIN queue : queue[m] = queue[n] => m = n
       /\ \A p \in Producers : queue[n] # draft[p]
  /\ \A p \in Producers :
       /\ draft[p].id =< eventID
       /\ \A q \in Producers : draft[p] = draft[q] /\ draft[p] # Hub!NoEvent => p = q

HubInv == HubType /\ Own(Logs) /\ SameOrder(Logs) /\ OnTheirWay(Logs)

LEMMA LogsType ==
  ASSUME HubType
  PROVE  Logs \in [Clients -> Seq(Numbered)]
BY ConcatProperties DEF HubType, Logs

(* Moving the front of the buffer to the browser moves nothing in the log.   *)
LEMMA PumpKeepsLog ==
  ASSUME NEW S, NEW s \in Seq(S), NEW t \in Seq(S), t # <<>>
  PROVE  Append(s, Head(t)) \o Tail(t) = s \o t
<1> DEFINE u == Append(s, Head(t))
<1>1. Head(t) \in S /\ Head(t) = t[1] /\ Tail(t) \in Seq(S) /\ Len(Tail(t)) = Len(t) - 1
      /\ \A i \in 1 .. Len(Tail(t)) : Tail(t)[i] = t[i + 1]
  BY HeadTailProperties
<1>2. u \in Seq(S) /\ Len(u) = Len(s) + 1 /\ (\A i \in 1 .. Len(s) : u[i] = s[i]) /\ u[Len(s) + 1] = Head(t)
  BY <1>1, AppendProperties
<1> HIDE DEF u
<1>3. Len(s) \in Nat /\ Len(t) \in Nat \ {0}
  BY LenProperties, EmptySeq
<1>4. /\ u \o Tail(t) \in Seq(S) /\ Len(u \o Tail(t)) = Len(s) + Len(t)
      /\ \A i \in 1 .. Len(s) + Len(t) : (u \o Tail(t))[i] = IF i <= Len(s) + 1 THEN u[i] ELSE Tail(t)[i - (Len(s) + 1)]
  <2>1. /\ u \o Tail(t) \in Seq(S) /\ Len(u \o Tail(t)) = Len(u) + Len(Tail(t))
        /\ \A i \in 1 .. Len(u) + Len(Tail(t)) : (u \o Tail(t))[i] = IF i <= Len(u) THEN u[i] ELSE Tail(t)[i - Len(u)]
    BY <1>1, <1>2, ConcatProperties
  <2>2. Len(u) + Len(Tail(t)) = Len(s) + Len(t)
    BY <1>1, <1>2, <1>3
  <2> QED
    BY <1>2, <2>1, <2>2
<1>5. /\ s \o t \in Seq(S) /\ Len(s \o t) = Len(s) + Len(t)
      /\ \A i \in 1 .. Len(s) + Len(t) : (s \o t)[i] = IF i <= Len(s) THEN s[i] ELSE t[i - Len(s)]
  BY ConcatProperties
<1>6. ASSUME NEW i \in 1 .. Len(s) + Len(t) PROVE (u \o Tail(t))[i] = (s \o t)[i]
  <2>1. CASE i <= Len(s)
    BY <1>2, <1>3, <1>4, <1>5, <2>1
  <2>2. CASE i = Len(s) + 1
    BY <1>1, <1>2, <1>3, <1>4, <1>5, <2>2
  <2>3. CASE i > Len(s) + 1
    <3>1. i - (Len(s) + 1) \in 1 .. Len(Tail(t)) /\ i - (Len(s) + 1) + 1 = i - Len(s)
      BY <1>1, <1>3, <2>3
    <3>2. Tail(t)[i - (Len(s) + 1)] = t[i - Len(s)]
      BY <1>1, <3>1
    <3> QED
      BY <1>3, <1>4, <1>5, <2>3, <3>2
  <2>4. i <= Len(s) \/ i = Len(s) + 1 \/ i > Len(s) + 1
    BY <1>3
  <2> QED
    BY <2>1, <2>2, <2>3, <2>4, Zenon
<1> QED
  BY <1>4, <1>5, <1>6, SeqEqual

(* One event added at the end of some of the logs. *)
LEMMA LogGrows ==
  ASSUME HubType, NEW c \in Clients, NEW e \in Numbered
  PROVE  got[c] \o Append(buffer[c], e) = Append(Logs[c], e)
<1>1. got[c] \in Seq(Numbered) /\ buffer[c] \in Seq(Numbered) /\ <<e>> \in Seq(Numbered)
  BY DEF HubType
<1>2. Append(buffer[c], e) = buffer[c] \o <<e>> /\ Logs[c] = got[c] \o buffer[c] /\ Logs[c] \in Seq(Numbered)
  BY <1>1, AppendIsConcat, LogsType DEF Logs
<1>3. Append(Logs[c], e) = Logs[c] \o <<e>>
  BY <1>2, AppendIsConcat
<1>4. (got[c] \o buffer[c]) \o <<e>> = got[c] \o (buffer[c] \o <<e>>)
  <2> DEFINE s == got[c] t == buffer[c] u == <<e>>
  <2>1. s \in Seq(Numbered) /\ t \in Seq(Numbered) /\ u \in Seq(Numbered)
    BY <1>1
  <2> HIDE DEF s, t, u
  <2>2. (s \o t) \o u = s \o (t \o u)
    BY <2>1, ConcatAssociative
  <2> QED
    BY <2>2 DEF s, t, u
<1> QED
  BY <1>2, <1>3, <1>4, Zenon

(* Logs that have no e keep their common order when e is added to some.      *)
LEMMA AddedInOrder ==
  ASSUME NEW old \in [Clients -> Seq(Numbered)], NEW new \in [Clients -> Seq(Numbered)], NEW e \in Numbered,
         \A c \in Clients : new[c] = old[c] \/ new[c] = Append(old[c], e),
         \A c \in Clients : \A i \in DOMAIN old[c] : old[c][i] # e,
         SameOrder(old)
  PROVE  SameOrder(new)
<1>1. ASSUME NEW c \in Clients
      PROVE  /\ Len(old[c]) \in Nat /\ DOMAIN old[c] = 1 .. Len(old[c])
             /\ Len(new[c]) \in Nat /\ DOMAIN new[c] = 1 .. Len(new[c])
             /\ Len(new[c]) \in {Len(old[c]), Len(old[c]) + 1}
             /\ \A i \in DOMAIN old[c] : new[c][i] = old[c][i]
             /\ \A i \in DOMAIN new[c] \ DOMAIN old[c] : i = Len(old[c]) + 1 /\ new[c][i] = e
  <2>1. old[c] \in Seq(Numbered) /\ new[c] \in Seq(Numbered)
    OBVIOUS
  <2>2. CASE new[c] = old[c]
    BY <2>1, <2>2, LenProperties
  <2>3. CASE new[c] = Append(old[c], e)
    <3>1. Len(new[c]) = Len(old[c]) + 1 /\ (\A i \in 1 .. Len(old[c]) : new[c][i] = old[c][i])
          /\ new[c][Len(old[c]) + 1] = e
      BY <2>1, <2>3, AppendProperties
    <3>2. Len(old[c]) \in Nat /\ DOMAIN old[c] = 1 .. Len(old[c]) /\ DOMAIN new[c] = 1 .. Len(new[c])
      BY <2>1, LenProperties
    <3> QED
      BY <3>1, <3>2
  <2> QED
    BY <2>2, <2>3
<1>2. SUFFICES ASSUME NEW c \in Clients, NEW d \in Clients, NEW i \in DOMAIN new[c], NEW j \in DOMAIN new[c],
                      NEW k \in DOMAIN new[d], NEW l \in DOMAIN new[d],
                      new[c][i] = new[d][k], new[c][j] = new[d][l], i < j
               PROVE  k < l
  BY DEF SameOrder
<1>3. i \in DOMAIN old[c]
  BY <1>1, <1>2
<1>4. new[d][k] # e /\ k \in DOMAIN old[d]
  BY <1>1, <1>2, <1>3
<1>5. CASE j \in DOMAIN old[c]
  <2>1. l \in DOMAIN old[d]
    BY <1>1, <1>2, <1>5
  <2> QED
    BY <1>1, <1>2, <1>3, <1>4, <1>5, <2>1 DEF SameOrder
<1>6. CASE j \notin DOMAIN old[c]
  <2>1. l \notin DOMAIN old[d]
    BY <1>1, <1>2, <1>6
  <2> QED
    BY <1>1, <1>4, <2>1
<1> QED
  BY <1>5, <1>6

(* Steps that neither produce, nor deliver, nor write an event. *)
LEMMA OthersKeepHub ==
  ASSUME HubInv, UNCHANGED <<client, buffer, got, queue, draft, eventID>>
  PROVE  HubInv'
<1>1. Logs' = Logs
  BY Zenon DEF Logs
<1>2. HubType'
  BY DEF HubInv, HubType
<1>3. Own(Logs)' /\ SameOrder(Logs)'
  BY <1>1 DEF HubInv, Own, SameOrder
<1>4. OnTheirWay(Logs)'
  BY <1>1 DEF HubInv, OnTheirWay
<1> QED
  BY <1>2, <1>3, <1>4 DEF HubInv

LEMMA PumpKeepsHub ==
  ASSUME HubInv, NEW c \in Clients, Hub!runMessageLoop(c)
  PROVE  HubInv'
<1>1. /\ buffer[c] \in Seq(Numbered) /\ buffer[c] # <<>> /\ got[c] \in Seq(Numbered)
      /\ buffer' = [buffer EXCEPT ![c] = Tail(buffer[c])]
      /\ got' = [got EXCEPT ![c] = Append(got[c], Head(buffer[c]))]
      /\ UNCHANGED <<client, queue, draft, eventID>>
  BY DEF HubInv, HubType, Hub!runMessageLoop, Hub!producing
<1>2. Tail(buffer[c]) \in Seq(Numbered) /\ Append(got[c], Head(buffer[c])) \in Seq(Numbered)
  BY <1>1, HeadTailProperties, AppendProperties
<1>3. HubType'
  BY <1>1, <1>2 DEF HubInv, HubType
<1>4. Append(got[c], Head(buffer[c])) \o Tail(buffer[c]) = got[c] \o buffer[c]
  BY <1>1, PumpKeepsLog
<1>5. ASSUME NEW d \in Clients PROVE got'[d] \o buffer'[d] = got[d] \o buffer[d]
  <2>1. CASE d = c
    <3>1. got'[c] = Append(got[c], Head(buffer[c])) /\ buffer'[c] = Tail(buffer[c])
      BY <1>1 DEF HubInv, HubType
    <3> QED
      BY <1>4, <2>1, <3>1
  <2>2. CASE d # c
    <3>1. got'[d] = got[d] /\ buffer'[d] = buffer[d]
      BY <1>1, <2>2 DEF HubInv, HubType
    <3> QED
      BY <3>1
  <2> QED
    BY <2>1, <2>2
<1>6. Logs' = Logs
  BY <1>5, Zenon DEF Logs
<1> QED
  BY <1>1, <1>3, <1>6 DEF HubInv, Own, SameOrder, OnTheirWay

LEMMA NumberKeepsHub ==
  ASSUME HubInv, NEW p \in Producers, NEW to \in Subscriptions, Hub!numberEvent(p, to)
  PROVE  HubInv'
<1> DEFINE e == [id |-> eventID + 1, to |-> to]
<1>1. /\ eventID \in Nat /\ eventID' = eventID + 1 /\ draft' = [draft EXCEPT ![p] = e]
      /\ UNCHANGED <<client, buffer, got, queue>>
  BY DEF HubInv, HubType, Hub!numberEvent, Hub!connections
<1>2. e \in Numbered /\ e.id = eventID + 1 /\ Hub!NoEvent.id = 0
  BY <1>1 DEF Numbered, Hub!NoEvent
<1> HIDE DEF e
<1>3. HubType' /\ Logs' = Logs
  BY <1>1, <1>2 DEF HubInv, HubType, Logs
<1>4. Logs \in [Clients -> Seq(Numbered)]
  BY LogsType DEF HubInv
<1>5. \A q \in Producers : draft'[q] = IF q = p THEN e ELSE draft[q]
  BY <1>1 DEF HubInv, HubType
<1>6. \A q \in Producers : draft[q].id \in Nat /\ draft[q].id < e.id /\ draft[q] # e
  <2>1. \A q \in Producers : draft[q].id \in Nat
    BY <1>2 DEF HubInv, HubType, Numbered
  <2> QED
    BY <1>1, <1>2, <2>1 DEF HubInv, OnTheirWay
<1>7. \A n \in DOMAIN queue : queue[n].id \in Nat /\ queue[n].id < e.id /\ queue[n] # e
  <2>1. \A n \in DOMAIN queue : queue[n] \in Numbered
    BY DEF HubInv, HubType
  <2>2. \A n \in DOMAIN queue : queue[n].id \in Nat
    BY <2>1 DEF Numbered
  <2> QED
    BY <1>1, <1>2, <2>2 DEF HubInv, OnTheirWay
<1>8. \A c \in Clients : \A i \in DOMAIN Logs[c] : Logs[c][i].id \in Nat /\ Logs[c][i].id < e.id /\ Logs[c][i] # e
  <2>1. \A c \in Clients : \A i \in DOMAIN Logs[c] : Logs[c][i] \in Numbered
    BY <1>4
  <2>2. \A c \in Clients : \A i \in DOMAIN Logs[c] : Logs[c][i].id \in Nat
    BY <2>1 DEF Numbered
  <2> QED
    BY <1>1, <1>2, <2>2 DEF HubInv, OnTheirWay
<1>9. OnTheirWay(Logs)'
  <2>1. \A c \in Clients : \A i \in DOMAIN Logs[c] :
          /\ Logs[c][i].id =< eventID'
          /\ \A n \in DOMAIN queue : Logs[c][i] # queue[n]
          /\ \A q \in Producers : Logs[c][i] # draft'[q]
    BY <1>1, <1>2, <1>5, <1>8 DEF HubInv, OnTheirWay
  <2>2. \A n \in DOMAIN queue :
          /\ queue[n].id =< eventID'
          /\ \A m \in DOMAIN queue : queue[m] = queue[n] => m = n
          /\ \A q \in Producers : queue[n] # draft'[q]
    BY <1>1, <1>2, <1>5, <1>7 DEF HubInv, OnTheirWay
  <2>3. \A q \in Producers :
          /\ draft'[q].id =< eventID'
          /\ \A o \in Producers : draft'[q] = draft'[o] /\ draft'[q] # Hub!NoEvent => q = o
    BY <1>1, <1>2, <1>5, <1>6 DEF HubInv, OnTheirWay
  <2> QED
    BY <1>1, <1>3, <2>1, <2>2, <2>3 DEF OnTheirWay
<1> QED
  BY <1>1, <1>3, <1>9 DEF HubInv, Own, SameOrder

(* What the queue and the logs hold has a number, and NoEvent has none. *)
LEMMA HeldIsNumbered ==
  ASSUME HubInv
  PROVE  /\ Logs \in [Clients -> Seq(Numbered)]
         /\ \A c \in Clients : \A i \in DOMAIN Logs[c] : Logs[c][i] \in Numbered
         /\ \A n \in DOMAIN queue : queue[n] \in Numbered
         /\ Hub!NoEvent \notin Numbered /\ Hub!NoEvent.id = 0
<1>1. Logs \in [Clients -> Seq(Numbered)]
  BY LogsType DEF HubInv
<1>2. \A c \in Clients : \A i \in DOMAIN Logs[c] : Logs[c][i] \in Numbered
  BY <1>1
<1>3. \A n \in DOMAIN queue : queue[n] \in Numbered
  BY DEF HubInv, HubType
<1>4. Hub!NoEvent \notin Numbered /\ Hub!NoEvent.id = 0
  BY DEF Numbered, Hub!NoEvent
<1> QED
  BY <1>1, <1>2, <1>3, <1>4

LEMMA EnqueueKeepsHub ==
  ASSUME HubInv, NEW p \in Producers, Hub!broadcastScoped(p)
  PROVE  HubInv'
<1> DEFINE e == draft[p]
<1>1. /\ queue' = Append(queue, e) \/ queue' = queue
      /\ draft' = [draft EXCEPT ![p] = Hub!NoEvent]
      /\ e # Hub!NoEvent
      /\ UNCHANGED <<client, buffer, got, eventID>>
  BY DEF Hub!broadcastScoped, Hub!connections
<1>2. e \in Numbered /\ e.id =< eventID /\ eventID \in Nat
  BY <1>1 DEF HubInv, HubType, OnTheirWay
<1>3. Logs' = Logs
  BY <1>1, Zenon DEF Logs
<1>4. \A q \in Producers : draft'[q] = IF q = p THEN Hub!NoEvent ELSE draft[q]
  BY <1>1 DEF HubInv, HubType
<1>5. queue \in Seq(Numbered) /\ Len(queue) \in Nat /\ DOMAIN queue = 1 .. Len(queue)
  BY LenProperties DEF HubInv, HubType
<1>6. /\ queue' \in Seq(Numbered)
      /\ DOMAIN queue \subseteq DOMAIN queue'
      /\ \A n \in DOMAIN queue : queue'[n] = queue[n]
      /\ \A n \in DOMAIN queue' \ DOMAIN queue : n = Len(queue) + 1 /\ queue'[n] = e
  <2>1. CASE queue' = queue
    BY <1>5, <2>1
  <2>2. CASE queue' = Append(queue, e)
    <3>1. queue' \in Seq(Numbered) /\ Len(queue') = Len(queue) + 1
          /\ (\A n \in 1 .. Len(queue) : queue'[n] = queue[n]) /\ queue'[Len(queue) + 1] = e
      BY <1>2, <1>5, <2>2, AppendProperties
    <3>2. DOMAIN queue' = 1 .. Len(queue) + 1
      BY <3>1, LenProperties
    <3> QED
      BY <1>5, <3>1, <3>2
  <2> QED
    BY <1>1, <2>1, <2>2
<1>7. HubType'
  BY <1>1, <1>6 DEF HubInv, HubType
<1>8. \A q \in Producers : q # p => draft[q] # e
  BY <1>1 DEF HubInv, OnTheirWay
<1> HIDE DEF e
<1>9. OnTheirWay(Logs)'
  <2>1. \A c \in Clients : \A i \in DOMAIN Logs[c] :
          /\ Logs[c][i].id =< eventID
          /\ \A n \in DOMAIN queue' : Logs[c][i] # queue'[n]
          /\ \A q \in Producers : Logs[c][i] # draft'[q]
    <3>1. \A c \in Clients : \A i \in DOMAIN Logs[c] : Logs[c][i] # e /\ Logs[c][i] # Hub!NoEvent
      BY HeldIsNumbered DEF HubInv, OnTheirWay, e
    <3> QED
      BY <1>4, <1>6, <3>1 DEF HubInv, OnTheirWay
  <2>2. \A n \in DOMAIN queue' :
          /\ queue'[n].id =< eventID
          /\ \A m \in DOMAIN queue' : queue'[m] = queue'[n] => m = n
          /\ \A q \in Producers : queue'[n] # draft'[q]
    <3>1. \A n \in DOMAIN queue : queue[n] # e /\ queue[n] # Hub!NoEvent
      BY HeldIsNumbered DEF HubInv, OnTheirWay, e
    <3>2. \A n \in DOMAIN queue' : queue'[n].id =< eventID
      BY <1>2, <1>6 DEF HubInv, OnTheirWay
    <3>3. \A n \in DOMAIN queue' : \A m \in DOMAIN queue' : queue'[m] = queue'[n] => m = n
      BY <1>6, <3>1 DEF HubInv, OnTheirWay
    <3>4. \A n \in DOMAIN queue' : \A q \in Producers : queue'[n] # draft'[q]
      BY <1>1, <1>4, <1>6, <1>8, <3>1 DEF HubInv, OnTheirWay, e
    <3> QED
      BY <3>2, <3>3, <3>4
  <2>3. \A q \in Producers :
          /\ draft'[q].id =< eventID
          /\ \A o \in Producers : draft'[q] = draft'[o] /\ draft'[q] # Hub!NoEvent => q = o
    BY <1>2, <1>4, HeldIsNumbered DEF HubInv, OnTheirWay
  <2> QED
    BY <1>1, <1>3, <2>1, <2>2, <2>3 DEF OnTheirWay
<1> QED
  BY <1>1, <1>3, <1>7, <1>9 DEF HubInv, Own, SameOrder

LEMMA BroadcastKeepsHub ==
  ASSUME HubInv, NEW refill, Hub!broadcastMessage(refill)
  PROVE  HubInv'
<1> DEFINE e == Head(queue)
<1>1. queue # <<>> /\ queue' = Tail(queue) /\ UNCHANGED <<client, got, draft, eventID>>
  BY DEF Hub!broadcastMessage
<1>2. /\ queue \in Seq(Numbered) /\ Len(queue) \in Nat \ {0} /\ DOMAIN queue = 1 .. Len(queue)
      /\ e \in Numbered /\ e = queue[1] /\ queue' \in Seq(Numbered)
      /\ DOMAIN queue' = 1 .. Len(queue) - 1 /\ \A n \in DOMAIN queue' : queue'[n] = queue[n + 1]
  <2>1. queue \in Seq(Numbered)
    BY DEF HubInv, HubType
  <2>2. Len(queue) \in Nat \ {0} /\ DOMAIN queue = 1 .. Len(queue)
    BY <1>1, <2>1, LenProperties, EmptySeq
  <2>3. /\ e \in Numbered /\ queue' \in Seq(Numbered) /\ Len(queue') = Len(queue) - 1
        /\ \A n \in 1 .. Len(queue') : queue'[n] = queue[n + 1]
    BY <1>1, <2>1, HeadTailProperties
  <2>4. DOMAIN queue' = 1 .. Len(queue')
    BY <2>3, LenProperties
  <2>5. e = queue[1]
    BY <2>1
  <2> QED
    BY <2>1, <2>2, <2>3, <2>4, <2>5
<1>3. ASSUME NEW c \in Clients
      PROVE  buffer'[c] = buffer[c] \/ (client[c] = e.to /\ buffer'[c] = Append(buffer[c], e))
  <2>1. CASE UNCHANGED buffer
    BY <2>1
  <2>2. CASE buffer' = [d \in Clients |-> IF d \in Hub!subscribers(e) /\ Len(buffer[d]) < BufferSize
                                         THEN Append(buffer[d], e) ELSE buffer[d]]
    BY <2>2 DEF Hub!subscribers
  <2>3. UNCHANGED buffer \/ buffer' = [d \in Clients |-> IF d \in Hub!subscribers(e) /\ Len(buffer[d]) < BufferSize
                                                       THEN Append(buffer[d], e) ELSE buffer[d]]
    BY Zenon DEF Hub!broadcastMessage
  <2> QED
    BY <2>1, <2>2, <2>3
<1>4. buffer' \in [Clients -> Seq(Numbered)]
  <2>1. \E f : buffer' = [c \in Clients |-> f[c]]
    BY DEF Hub!broadcastMessage, HubInv, HubType
  <2>2. ASSUME NEW c \in Clients PROVE buffer'[c] \in Seq(Numbered)
    <3>1. buffer[c] \in Seq(Numbered)
      BY DEF HubInv, HubType
    <3>2. Append(buffer[c], e) \in Seq(Numbered)
      BY <1>2, <3>1, AppendProperties
    <3> QED
      BY <1>3, <3>1, <3>2
  <2> QED
    BY <2>1, <2>2
<1>5. HubType'
  BY <1>1, <1>2, <1>4 DEF HubInv, HubType
<1>6. Logs \in [Clients -> Seq(Numbered)] /\ Logs' \in [Clients -> Seq(Numbered)]
  <2>1. \A c \in Clients : got'[c] \o buffer'[c] \in Seq(Numbered)
    BY <1>5, ConcatProperties DEF HubType
  <2> QED
    BY <2>1, HeldIsNumbered DEF Logs
<1> HIDE DEF e
<1>7. ASSUME NEW c \in Clients
      PROVE  Logs'[c] = Logs[c] \/ (client[c] = e.to /\ Logs'[c] = Append(Logs[c], e))
  <2>1. Logs'[c] = got[c] \o buffer'[c] /\ Logs[c] = got[c] \o buffer[c]
    BY <1>1, Zenon DEF Logs
  <2>2. CASE buffer'[c] = buffer[c]
    BY <2>1, <2>2, Zenon
  <2>3. CASE client[c] = e.to /\ buffer'[c] = Append(buffer[c], e)
    <3>1. got[c] \o Append(buffer[c], e) = Append(Logs[c], e)
      BY <1>2, LogGrows DEF HubInv
    <3> QED
      BY <2>1, <2>3, <3>1, Zenon
  <2> QED
    BY <1>3, <2>2, <2>3
<1>8. \A c \in Clients : \A i \in DOMAIN Logs[c] : Logs[c][i] # e
  BY <1>2 DEF HubInv, OnTheirWay
<1>9. SameOrder(Logs')
  <2> DEFINE new == Logs'
  <2>1. new \in [Clients -> Seq(Numbered)] /\ \A c \in Clients : new[c] = Logs[c] \/ new[c] = Append(Logs[c], e)
    BY <1>6, <1>7
  <2>2. e \in Numbered /\ Logs \in [Clients -> Seq(Numbered)] /\ SameOrder(Logs)
    BY <1>2, <1>6 DEF HubInv
  <2> HIDE DEF new
  <2>3. SameOrder(new)
    BY <1>8, <2>1, <2>2, AddedInOrder, Zenon
  <2> QED
    BY <2>3 DEF new
<1>10. ASSUME NEW c \in Clients, NEW i \in DOMAIN Logs'[c]
       PROVE  (i \in DOMAIN Logs[c] /\ Logs'[c][i] = Logs[c][i]) \/ (client[c] = e.to /\ Logs'[c][i] = e)
  <2>1. CASE Logs'[c] = Logs[c]
    BY <2>1
  <2>2. CASE client[c] = e.to /\ Logs'[c] = Append(Logs[c], e)
    <3>1. Logs[c] \in Seq(Numbered) /\ Len(Logs[c]) \in Nat /\ DOMAIN Logs[c] = 1 .. Len(Logs[c])
      BY <1>6, LenProperties
    <3>2. /\ Len(Logs'[c]) = Len(Logs[c]) + 1 /\ Logs'[c] \in Seq(Numbered)
          /\ \A k \in 1 .. Len(Logs[c]) : Logs'[c][k] = Logs[c][k]
          /\ Logs'[c][Len(Logs[c]) + 1] = e
      BY <1>2, <2>2, <3>1, AppendProperties
    <3>3. DOMAIN Logs'[c] = 1 .. Len(Logs[c]) + 1
      BY <3>2, LenProperties
    <3> QED
      BY <2>2, <3>1, <3>2, <3>3
  <2> QED
    BY <1>7, <2>1, <2>2
<1>11. Own(Logs)'
  BY <1>1, <1>10 DEF HubInv, Own
<1>12. \A n \in DOMAIN queue' : n + 1 \in DOMAIN queue /\ queue'[n] = queue[n + 1] /\ queue'[n] # e
  <2>1. \A n \in DOMAIN queue' : n + 1 \in DOMAIN queue /\ 1 \in DOMAIN queue /\ n + 1 # 1
    BY <1>2
  <2> QED
    BY <1>2, <2>1 DEF HubInv, OnTheirWay
<1>13. OnTheirWay(Logs)'
  <2>1. e.id =< eventID /\ \A p \in Producers : e # draft[p]
    BY <1>2 DEF HubInv, OnTheirWay
  <2>2. \A c \in Clients : \A i \in DOMAIN Logs'[c] :
          /\ Logs'[c][i].id =< eventID
          /\ \A n \in DOMAIN queue' : Logs'[c][i] # queue'[n]
          /\ \A p \in Producers : Logs'[c][i] # draft[p]
    BY <1>10, <1>12, <2>1 DEF HubInv, OnTheirWay
  <2>3. \A n \in DOMAIN queue' :
          /\ queue'[n].id =< eventID
          /\ \A p \in Producers : queue'[n] # draft[p]
    <3>1. \A n \in DOMAIN queue : queue[n].id =< eventID /\ \A p \in Producers : queue[n] # draft[p]
      BY DEF HubInv, OnTheirWay
    <3> QED
      BY <1>12, <3>1, Zenon
  <2>4. \A n, m \in DOMAIN queue' : queue'[m] = queue'[n] => m = n
    <3>1. \A n, m \in DOMAIN queue' : queue'[m] = queue'[n] => m + 1 = n + 1
      BY <1>12 DEF HubInv, OnTheirWay
    <3> QED
      BY <1>2, <3>1
  <2> QED
    BY <1>1, <2>2, <2>3, <2>4 DEF HubInv, OnTheirWay
<1> QED
  BY <1>5, <1>9, <1>11, <1>13 DEF HubInv, SameOrder

LEMMA HubStep ==
  ASSUME HubInv, [Hub!Next]_(Hub!vars)
  PROVE  HubInv'
<1>1. CASE Hub!Run \/ Hub!Stop \/ Hub!closeAllClients
  BY <1>1, OthersKeepHub DEF Hub!Run, Hub!Stop, Hub!closeAllClients, Hub!connections, Hub!producing
<1>2. CASE \E refill \in 0 .. 1 : Hub!broadcastMessage(refill)
  BY <1>2, BroadcastKeepsHub
<1>3. CASE \E c \in Clients : Hub!registerClient(c) \/ Hub!unregisterClient(c) \/ Hub!setupConnection(c)
                             \/ Hub!abandon(c) \/ Hub!channelClosed(c) \/ Hub!disconnect(c) \/ Hub!leaveStopped(c)
  BY <1>3, OthersKeepHub DEF Hub!registerClient, Hub!unregisterClient, Hub!setupConnection, Hub!abandon,
     Hub!channelClosed, Hub!disconnect, Hub!leaveStopped, Hub!producing
<1>4. CASE \E c \in Clients : Hub!runMessageLoop(c)
  BY <1>4, PumpKeepsHub
<1>5. CASE \E p \in Producers : (\E to \in Subscriptions : Hub!numberEvent(p, to)) \/ Hub!broadcastScoped(p)
  BY <1>5, NumberKeepsHub, EnqueueKeepsHub
<1>6. CASE UNCHANGED Hub!vars
  BY <1>6, OthersKeepHub DEF Hub!vars
<1> QED
  BY <1>1, <1>2, <1>3, <1>4, <1>5, <1>6 DEF Hub!Next

(* Every browser is written the events of its own stream and session only,   *)
(* each at most once, and browsers that receive the same events receive them *)
(* in the same order: for any clients, producers, buffer and limiter sizes,  *)
(* whatever full queues and rate limits drop between them.                   *)
THEOREM EventsStayInOrder == Hub!Spec => []Hub!EventsFanOut
<1>1. Hub!Init => HubInv
  <2> SUFFICES ASSUME Hub!Init PROVE HubInv
    OBVIOUS
  <2>1. HubType
    BY DEF Hub!Init, HubType
  <2>2. \A c \in Clients : got[c] = <<>> /\ buffer[c] = <<>>
    BY DEF Hub!Init
  <2>3. \A c \in Clients : Logs[c] = <<>>
    BY <2>2, ConcatEmptySeq DEF Logs
  <2>4. queue = <<>> /\ eventID = 0 /\ \A p \in Producers : draft[p] = Hub!NoEvent
    BY DEF Hub!Init
  <2>5. DOMAIN queue = {} /\ Hub!NoEvent.id =< eventID /\ \A c \in Clients : DOMAIN Logs[c] = {}
    <3>1. \A x : x = <<>> => DOMAIN x = {}
      OBVIOUS
    <3>2. Hub!NoEvent.id =< eventID
      <4>1. Hub!NoEvent.id = 0
        BY DEF Hub!NoEvent
      <4>2. eventID = 0
        BY <2>4
      <4> QED
        BY <4>1, <4>2
    <3> QED
      BY <2>3, <2>4, <3>1, <3>2, Zenon
  <2>6. OnTheirWay(Logs)
    BY <2>4, <2>5 DEF OnTheirWay
  <2>7. Own(Logs) /\ SameOrder(Logs)
    BY <2>5, Zenon DEF Own, SameOrder
  <2> QED
    BY <2>1, <2>6, <2>7 DEF HubInv
<1>2. HubInv /\ [Hub!Next]_(Hub!vars) => HubInv'
  BY HubStep
<1>3. HubInv => Hub!EventsFanOut
  <2> SUFFICES ASSUME HubInv PROVE Hub!EventsFanOut
    OBVIOUS
  <2>1. ASSUME NEW c \in Clients, NEW i \in DOMAIN got[c]
        PROVE  i \in DOMAIN Logs[c] /\ Logs[c][i] = got[c][i]
    <3>1. got[c] \in Seq(Numbered) /\ buffer[c] \in Seq(Numbered)
      BY DEF HubInv, HubType
    <3>2. Len(got[c]) \in Nat /\ Len(buffer[c]) \in Nat /\ DOMAIN got[c] = 1 .. Len(got[c])
      BY <3>1, LenProperties
    <3>3. /\ Logs[c] \in Seq(Numbered) /\ Len(Logs[c]) = Len(got[c]) + Len(buffer[c])
          /\ \A k \in 1 .. Len(got[c]) + Len(buffer[c]) :
               Logs[c][k] = IF k <= Len(got[c]) THEN got[c][k] ELSE buffer[c][k - Len(got[c])]
      BY <3>1, ConcatProperties DEF Logs
    <3>4. DOMAIN Logs[c] = 1 .. Len(Logs[c])
      BY <3>3, LenProperties
    <3>5. i \in 1 .. Len(got[c]) + Len(buffer[c]) /\ i <= Len(got[c])
      <4> DEFINE m == Len(got[c]) n == Len(buffer[c])
      <4>1. m \in Nat /\ n \in Nat /\ i \in 1 .. m
        BY <3>2, Zenon
      <4> HIDE DEF m, n
      <4>2. i \in 1 .. m + n /\ i <= m
        BY <4>1
      <4> QED
        BY <4>2 DEF m, n
    <3>6. Logs[c][i] = got[c][i]
      BY <3>3, <3>5
    <3>7. i \in DOMAIN Logs[c]
      BY <3>3, <3>4, <3>5
    <3> QED
      BY <3>6, <3>7
  <2>2. \A c \in Clients : \A i \in DOMAIN got[c] : got[c][i].to = client[c]
    BY <2>1 DEF HubInv, Own
  <2>3. ASSUME NEW c \in Clients, NEW d \in Clients, NEW i \in DOMAIN got[c], NEW j \in DOMAIN got[c],
               NEW k \in DOMAIN got[d], NEW l \in DOMAIN got[d],
               got[c][i] = got[d][k], got[c][j] = got[d][l], i < j
        PROVE  k < l
    BY <2>1, <2>3 DEF HubInv, SameOrder
  <2> QED
    BY <2>2, <2>3 DEF Hub!EventsFanOut
<1> QED
  BY <1>1, <1>2, <1>3, PTL DEF Hub!Spec
=============================================================================
