-------------------------- MODULE NeighborResolution --------------------------
(***************************************************************************)
(* Link-address resolution for what simulated hosts originate: management  *)
(* notifications and, while a host's mask is wrong, its replies.           *)
(*                                                                         *)
(* A datagram whose next hop has no known link address waits in the        *)
(* resolution of that next hop.  The goroutine that opened the resolution  *)
(* probes, a timer repeats the probe, an answer from the wire releases     *)
(* everything that waited, and after Retries probes the resolution and     *)
(* its datagrams are dropped.  The lock is released between those steps,   *)
(* so each is an action of its own; `work' is what a goroutine has left to *)
(* do.                                                                     *)
(***************************************************************************)
EXTENDS Integers, Sequences, FiniteSets, SequencesExt

CONSTANTS
  Notices,      \* notifications
  Local,        \* the notifications whose device is on the client's link
  Hosts,        \* replies of hosts that may have a wrong mask
  Targets,      \* next hops
  Timers,       \* goroutines of fired timers that may overlap
  Nil,
  MaxPerHop,    \* maxPendingNeighborDatagrams
  MaxTotal,     \* maxPendingNeighborTotal
  Retries,      \* notificationNeighborRetries
  MaxAnswers,   \* bound: answers from the wire
  MaxChanges,   \* bound: changes of the hosts' routes
  MaxOpened     \* bound: resolutions opened

VARIABLES
  hop,        \* the next hop of local datagrams now, or Nil: no route
  masked,     \* whether hosts route by a wrong mask
  learned,    \* the next hops with an unexpired link address
  pending,    \* next hop -> its resolution, or Nil
  resolution, \* resolution -> what waits in it and its counters
  timers,     \* armed retry timers: <<next hop, resolution, n>>
  sendQueue,  \* host replies handed to the send loop
  work,       \* goroutine -> what it is doing
  emissions,  \* datagram -> times it was sent with a link address
  dropped,    \* datagrams given up
  fresh,      \* datagrams not originated yet
  lifecycle,  \* "running", "stopped" or "reset"
  answers, changes

vars == <<hop, masked, learned, pending, resolution, timers, sendQueue, work,
          emissions, dropped, fresh, lifecycle, answers, changes>>

Datagrams == Notices \cup Hosts
Goroutines == {"notify", "send", "decode"} \cup Timers
Opened == DOMAIN resolution
Idle == [step |-> "idle", key |-> Nil, id |-> Nil, todo |-> <<>>, back |-> <<>>]

Init ==
  /\ hop \in Targets /\ masked \in BOOLEAN
  /\ learned = {} /\ pending = [t \in Targets |-> Nil] /\ resolution = <<>>
  /\ timers = {} /\ sendQueue = <<>>
  /\ work = [g \in Goroutines |-> Idle]
  /\ emissions = [d \in Datagrams |-> 0]
  /\ dropped = {} /\ fresh = Datagrams
  /\ lifecycle = "running" /\ answers = 0 /\ changes = 0

-----------------------------------------------------------------------------
(* What a goroutine does next: the rest of its list, then the probe it was   *)
(* called from, then nothing.                                                *)
Continue(g, todo, back) ==
  IF todo # <<>> THEN [Idle EXCEPT !.step = "dispatch", !.todo = todo, !.back = back]
  ELSE IF back # <<>>
  THEN [Idle EXCEPT !.step = "attempt", !.key = back[1], !.id = back[2]]
  ELSE Idle

Emit(ds) == emissions' = [d \in Datagrams |-> emissions[d] + (IF d \in ds THEN 1 ELSE 0)]

(* A datagram to be sent: its next hop (Nil: to be looked up) and itself.    *)
Item(t, d) == [target |-> t, d |-> d]

Waiting(t) ==
  IF pending[t] = Nil THEN 0
  ELSE Len(resolution[pending[t]].notes) + Len(resolution[pending[t]].hosts)

neighborQueueFull(t) ==
  \/ Waiting(t) >= MaxPerHop
  \/ LET total[S \in SUBSET Targets] ==
           IF S = {} THEN 0
           ELSE LET u == CHOOSE u \in S : TRUE IN Waiting(u) + total[S \ {u}]
     IN total[Targets] >= MaxTotal

Opening(d) ==
  [notes |-> IF d \in Notices THEN <<d>> ELSE <<>>,
   hosts |-> IF d \in Hosts THEN <<d>> ELSE <<>>,
   attempts |-> 0, version |-> 0, arms |-> 0]

(* Mutant: a datagram that comes after Stop opens a resolution.              *)
QueuesAfterStop(g, d, t, todo, back) ==
  LET full == neighborQueueFull(t) IN
  \/ /\ full
     /\ dropped' = dropped \cup {d}
     /\ work' = [work EXCEPT ![g] = Continue(g, todo, back)]
     /\ UNCHANGED <<pending, resolution>>
  \/ /\ ~full /\ pending[t] # Nil
     /\ resolution' = [resolution EXCEPT ![pending[t]] =
          IF d \in Notices THEN [@ EXCEPT !.notes = Append(@, d)]
          ELSE [@ EXCEPT !.hosts = Append(@, d)]]
     /\ work' = [work EXCEPT ![g] = Continue(g, todo, back)]
     /\ UNCHANGED <<pending, dropped>>
  \/ /\ ~full /\ pending[t] = Nil /\ Len(resolution) < MaxOpened
     /\ resolution' = Append(resolution, Opening(d))
     /\ pending' = [pending EXCEPT ![t] = Len(resolution) + 1]
     /\ work' = [work EXCEPT ![g] = [step |-> "probe", key |-> t, id |-> Nil,
                                     todo |-> todo, back |-> back]]
     /\ UNCHANGED dropped

(* queueNotificationNeighbor and resolveHostNeighbor: the datagram joins the *)
(* resolution of its next hop, or opens one and goes on to probe.            *)
queueNeighbor(g, d, t, todo, back) ==
  LET full == lifecycle # "running" \/ neighborQueueFull(t) IN
  \/ /\ full
     /\ dropped' = dropped \cup {d}
     /\ work' = [work EXCEPT ![g] = Continue(g, todo, back)]
     /\ UNCHANGED <<pending, resolution>>
  \/ /\ ~full /\ pending[t] # Nil
     /\ resolution' = [resolution EXCEPT ![pending[t]] =
          IF d \in Notices THEN [@ EXCEPT !.notes = Append(@, d)]
          ELSE [@ EXCEPT !.hosts = Append(@, d)]]
     /\ work' = [work EXCEPT ![g] = Continue(g, todo, back)]
     /\ UNCHANGED <<pending, dropped>>
  \/ /\ ~full /\ pending[t] = Nil /\ Len(resolution) < MaxOpened
     /\ resolution' = Append(resolution, Opening(d))
     /\ pending' = [pending EXCEPT ![t] = Len(resolution) + 1]
     /\ work' = [work EXCEPT ![g] = [step |-> "probe", key |-> t, id |-> Nil,
                                     todo |-> todo, back |-> back]]
     /\ UNCHANGED dropped

-----------------------------------------------------------------------------
(* The dispatcher sends a notification, a handler sends a host's reply.      *)
Send(d) ==
  /\ d \in fresh \cap Notices /\ work["notify"] = Idle
  /\ fresh' = fresh \ {d}
  /\ work' = [work EXCEPT !["notify"] = Continue("notify", <<Item(Nil, d)>>, <<>>)]
  /\ UNCHANGED <<hop, masked, learned, pending, resolution, timers, sendQueue,
                 emissions, dropped, lifecycle, answers, changes>>

answer(d) ==
  /\ d \in fresh \cap Hosts /\ lifecycle = "running"
  /\ fresh' = fresh \ {d}
  /\ sendQueue' = Append(sendQueue, d)
  /\ UNCHANGED <<hop, masked, learned, pending, resolution, timers, work,
                 emissions, dropped, lifecycle, answers, changes>>

(* dispatchNotification and sendNotificationIntent: a datagram with no next  *)
(* hop yet is looked up; one whose next hop has a link address is sent, any  *)
(* other waits.                                                              *)
dispatch(g) ==
  /\ work[g].step = "dispatch"
  /\ LET item == Head(work[g].todo) rest == Tail(work[g].todo)
         target == IF item.target = Nil THEN hop ELSE item.target IN
     \/ /\ target = Nil
        /\ dropped' = dropped \cup {item.d}
        /\ work' = [work EXCEPT ![g] = Continue(g, rest, work[g].back)]
        /\ UNCHANGED <<pending, resolution, emissions>>
     \/ /\ target # Nil /\ target \in learned
        /\ Emit({item.d})
        /\ work' = [work EXCEPT ![g] = Continue(g, rest, work[g].back)]
        /\ UNCHANGED <<pending, resolution, dropped>>
     \/ /\ target # Nil /\ target \notin learned
        /\ work' = [work EXCEPT ![g] = [step |-> "queue", key |-> target, id |-> item.d,
                                        todo |-> rest, back |-> work[g].back]]
        /\ UNCHANGED <<pending, resolution, dropped, emissions>>
  /\ UNCHANGED <<hop, masked, learned, timers, sendQueue, fresh, lifecycle, answers, changes>>

queue(g) ==
  /\ work[g].step = "queue"
  /\ queueNeighbor(g, work[g].id, work[g].key, work[g].todo, work[g].back)
  /\ UNCHANGED <<hop, masked, learned, timers, sendQueue, emissions, fresh, lifecycle,
                 answers, changes>>

(* The send loop: a reply of a host with a correct mask goes as addressed;   *)
(* with a wrong one it goes by the route the mask makes.                     *)
prepareHostEgress ==
  /\ work["send"] = Idle /\ sendQueue # <<>> /\ lifecycle # "reset"
  /\ sendQueue' = Tail(sendQueue)
  /\ LET d == Head(sendQueue) IN
     \/ /\ hop = Nil
        /\ dropped' = dropped \cup {d} /\ UNCHANGED <<work, emissions>>
     \/ /\ hop # Nil /\ (~masked \/ hop \in learned)
        /\ Emit({d}) /\ UNCHANGED <<work, dropped>>
     \/ /\ hop # Nil /\ masked /\ hop \notin learned
        /\ work' = [work EXCEPT !["send"] = [Idle EXCEPT !.step = "queue", !.key = hop, !.id = d]]
        /\ UNCHANGED <<emissions, dropped>>
  /\ UNCHANGED <<hop, masked, learned, pending, resolution, timers, fresh, lifecycle,
                 answers, changes>>
-----------------------------------------------------------------------------
(* sendNeighborProbe.  The opener looks its resolution up again: by now the  *)
(* next hop may have another one.                                            *)
probeNeighbor(g) ==
  /\ work[g].step = "probe"
  /\ work' = [work EXCEPT ![g] =
       IF pending[work[g].key] = Nil THEN Continue(g, work[g].todo, work[g].back)
       ELSE [@ EXCEPT !.step = "attempt", !.id = pending[work[g].key]]]
  /\ UNCHANGED <<hop, masked, learned, pending, resolution, timers, sendQueue,
                 emissions, dropped, fresh, lifecycle, answers, changes>>

Current(g) == pending[work[g].key] = work[g].id
Done(g) == Continue(g, work[g].todo, work[g].back)
Held(r) == ToSet(resolution[r].notes) \cup ToSet(resolution[r].hosts)

countAttempt(g) ==
  /\ work[g].step = "attempt"
  /\ \/ /\ ~Current(g)
        /\ work' = [work EXCEPT ![g] = Done(g)]
        /\ UNCHANGED <<pending, resolution, dropped>>
     \/ /\ Current(g) /\ resolution[work[g].id].attempts >= Retries
        /\ pending' = [pending EXCEPT ![work[g].key] = Nil]
        /\ dropped' = dropped \cup Held(work[g].id)
        /\ work' = [work EXCEPT ![g] = Done(g)]
        /\ UNCHANGED resolution
     \/ /\ Current(g) /\ resolution[work[g].id].attempts < Retries
        /\ resolution' = [resolution EXCEPT ![work[g].id].attempts = @ + 1]
        /\ work' = [work EXCEPT ![g].step = "current"]
        /\ UNCHANGED <<pending, dropped>>
  /\ UNCHANGED <<hop, masked, learned, timers, sendQueue, emissions, fresh, lifecycle,
                 answers, changes>>

(* currentNeighborProbe: a notification is probed for; for host replies the  *)
(* route is looked up without the lock ("route"), and when it changed the    *)
(* replies go back to the send loop.                                         *)
currentNeighborProbe(g) ==
  /\ work[g].step = "current"
  /\ work' = [work EXCEPT ![g] =
       IF ~Current(g) THEN Done(g)
       ELSE IF resolution[work[g].id].notes # <<>> THEN [@ EXCEPT !.step = "arm"]
       ELSE [@ EXCEPT !.step = IF masked /\ hop = work[g].key THEN "onRoute" ELSE "offRoute"]]
  /\ UNCHANGED <<hop, masked, learned, pending, resolution, timers, sendQueue,
                 emissions, dropped, fresh, lifecycle, answers, changes>>

(* stack.send: a stopped stack rejects.                                      *)
Resend(ds) ==
  IF lifecycle = "running"
  THEN sendQueue' = sendQueue \o ds /\ UNCHANGED dropped
  ELSE dropped' = dropped \cup ToSet(ds) /\ UNCHANGED sendQueue

StopTimer(t, r) == timers' = timers \ {<<t, r, resolution[r].arms>>}

probeHostRoute(g) ==
  /\ work[g].step \in {"onRoute", "offRoute"}
  /\ \/ /\ ~Current(g)
        /\ work' = [work EXCEPT ![g] = Done(g)]
        /\ UNCHANGED <<pending, timers, sendQueue, dropped>>
     \/ /\ Current(g)
        /\ work[g].step = "onRoute" \/ resolution[work[g].id].notes # <<>>
        /\ work' = [work EXCEPT ![g].step = "arm"]
        /\ UNCHANGED <<pending, timers, sendQueue, dropped>>
     \/ /\ Current(g) /\ work[g].step = "offRoute" /\ resolution[work[g].id].notes = <<>>
        /\ pending' = [pending EXCEPT ![work[g].key] = Nil]
        /\ StopTimer(work[g].key, work[g].id)
        /\ Resend(resolution[work[g].id].hosts)
        /\ work' = [work EXCEPT ![g] = Done(g)]
  /\ UNCHANGED <<hop, masked, learned, resolution, emissions, fresh, lifecycle,
                 answers, changes>>

(* The probe frame goes out and the next retry is armed; a frame that cannot *)
(* be built ends the resolution.                                             *)
armRetry(g) ==
  /\ work[g].step = "arm"
  /\ \/ /\ Current(g)
        /\ resolution' = [resolution EXCEPT ![work[g].id].arms = @ + 1]
        /\ timers' = timers \cup {<<work[g].key, work[g].id, resolution[work[g].id].arms + 1>>}
        /\ UNCHANGED <<pending, dropped>>
     \/ /\ Current(g)
        /\ pending' = [pending EXCEPT ![work[g].key] = Nil]
        /\ dropped' = dropped \cup Held(work[g].id)
        /\ UNCHANGED <<resolution, timers>>
     \/ /\ ~Current(g)
        /\ UNCHANGED <<pending, resolution, timers, dropped>>
  /\ work' = [work EXCEPT ![g] = Done(g)]
  /\ UNCHANGED <<hop, masked, learned, sendQueue, emissions, fresh, lifecycle,
                 answers, changes>>

-----------------------------------------------------------------------------
(* retryNeighborResolution: a timer's goroutine copies the notifications,    *)
(* looks their routes up without the lock and applies the outcome only when  *)
(* no other refresh came between, then probes.                               *)
retryNeighborResolution(g) ==
  /\ work[g] = Idle
  /\ \E timer \in timers :
       /\ timers' = timers \ {timer}
       /\ work' = [work EXCEPT ![g] =
            [Idle EXCEPT !.step = "refresh", !.key = timer[1], !.id = timer[2]]]
  /\ UNCHANGED <<hop, masked, learned, pending, resolution, sendQueue, emissions,
                 dropped, fresh, lifecycle, answers, changes>>

copyNotifications(g) ==
  /\ work[g].step = "refresh"
  /\ work' = [work EXCEPT ![g] =
       IF ~Current(g) \/ resolution[work[g].id].notes = <<>>
       THEN [@ EXCEPT !.step = "attempt"]
       ELSE [@ EXCEPT !.step = "apply",
                      !.todo = [i \in 1..Len(resolution[work[g].id].notes) |->
                                  Item(resolution[work[g].id].version,
                                       resolution[work[g].id].notes[i])]]]
  /\ UNCHANGED <<hop, masked, learned, pending, resolution, timers, sendQueue,
                 emissions, dropped, fresh, lifecycle, answers, changes>>

refreshNeighborNotifications(g) ==
  /\ work[g].step = "apply"
  /\ LET queued == [i \in 1..Len(work[g].todo) |-> work[g].todo[i].d]
         stays(d) == d \notin Local \/ (hop = work[g].key /\ hop \notin learned)
         gone == {d \in ToSet(queued) : ~stays(d) /\ hop = Nil}
         moved == SelectSeq(queued, LAMBDA d : ~stays(d) /\ hop # Nil)
         r == resolution[work[g].id]
         kept == SelectSeq(queued, stays)
                 \o SubSeq(r.notes, Len(queued) + 1, Len(r.notes))
         stale == ~Current(g) \/ r.version # work[g].todo[1].target IN
     \/ /\ stale
        /\ work' = [work EXCEPT ![g] =
             [Idle EXCEPT !.step = "attempt", !.key = work[g].key, !.id = work[g].id]]
        /\ UNCHANGED <<pending, resolution, dropped>>
     \/ /\ ~stale
        /\ dropped' = dropped \cup gone
        /\ resolution' = [resolution EXCEPT ![work[g].id].notes = kept,
                                            ![work[g].id].version = @ + 1]
        /\ pending' = [pending EXCEPT ![work[g].key] =
             IF kept = <<>> /\ r.hosts = <<>> THEN Nil ELSE @]
        /\ work' = [work EXCEPT ![g] =
             Continue(g, [i \in 1..Len(moved) |-> Item(hop, moved[i])],
                      <<work[g].key, work[g].id>>)]
  /\ UNCHANGED <<hop, masked, learned, timers, sendQueue, emissions, fresh, lifecycle,
                 answers, changes>>

(* The decoder sees an answer: the address is learned, host replies return   *)
(* to the send loop, a local notification is routed again and any other is   *)
(* sent to the address that answered.                                        *)
observeNeighbor(t) ==
  /\ work["decode"] = Idle /\ answers < MaxAnswers /\ lifecycle # "reset"
  /\ answers' = answers + 1
  /\ learned' = learned \cup {t}
  /\ pending' = [pending EXCEPT ![t] = Nil]
  /\ IF pending[t] = Nil
     THEN UNCHANGED <<timers, sendQueue, work, emissions, dropped>>
     ELSE LET notes == resolution[pending[t]].notes
              again == SelectSeq(notes, LAMBDA d : d \in Local) IN
          /\ StopTimer(t, pending[t])
          /\ Resend(resolution[pending[t]].hosts)
          /\ Emit(ToSet(notes) \ Local)
          /\ work' = [work EXCEPT !["decode"] =
               Continue("decode", [i \in 1..Len(again) |-> Item(Nil, again[i])], <<>>)]
  /\ UNCHANGED <<hop, masked, resolution, fresh, lifecycle, changes>>

expire(t) ==
  /\ t \in learned /\ learned' = learned \ {t}
  /\ UNCHANGED <<hop, masked, pending, resolution, timers, sendQueue, work, emissions,
                 dropped, fresh, lifecycle, answers, changes>>

(* Interfaces, routes and mask faults change under what waits.               *)
changeRoute ==
  /\ changes < MaxChanges /\ changes' = changes + 1
  /\ \/ hop' \in (Targets \cup {Nil}) \ {hop} /\ UNCHANGED masked
     \/ masked' = ~masked /\ UNCHANGED hop
  /\ UNCHANGED <<learned, pending, resolution, timers, sendQueue, work, emissions,
                 dropped, fresh, lifecycle, answers>>

(* Stop marks the stack and then resets the sender.                          *)
stop ==
  /\ lifecycle = "running" /\ lifecycle' = "stopped"
  /\ UNCHANGED <<hop, masked, learned, pending, resolution, timers, sendQueue, work,
                 emissions, dropped, fresh, answers, changes>>

reset ==
  /\ lifecycle = "stopped" /\ lifecycle' = "reset"
  /\ learned' = {} /\ pending' = [t \in Targets |-> Nil]
  /\ timers' = timers \ {<<t, r, resolution[r].arms>> : <<t, r>> \in
                           {<<t, r>> \in Targets \X Opened : pending[t] = r}}
  /\ dropped' = dropped \cup UNION {Held(r) : r \in {pending[t] : t \in Targets} \ {Nil}}
                \cup ToSet(sendQueue)
  /\ sendQueue' = <<>>
  /\ UNCHANGED <<hop, masked, resolution, work, emissions, fresh, answers, changes>>

step(g) ==
  \/ dispatch(g) \/ queue(g) \/ probeNeighbor(g) \/ countAttempt(g)
  \/ currentNeighborProbe(g) \/ probeHostRoute(g) \/ armRetry(g)
  \/ copyNotifications(g) \/ refreshNeighborNotifications(g)

Next ==
  \/ \E d \in Datagrams : Send(d) \/ answer(d)
  \/ prepareHostEgress
  \/ \E g \in Goroutines : step(g)
  \/ \E g \in Timers : retryNeighborResolution(g)
  \/ \E t \in Targets : observeNeighbor(t) \/ expire(t)
  \/ changeRoute \/ stop \/ reset

Spec == Init /\ [][Next]_vars
-----------------------------------------------------------------------------
(* What waits for an address is held by one resolution that is pending.      *)
Queued == {<<t, d>> \in Targets \X Datagrams :
             pending[t] # Nil /\ d \in Held(pending[t])}

InHand(g) == {item.d : item \in ToSet(work[g].todo)} \cup {work[g].id}

(* A datagram is sent at most once, and is not sent or dropped while it still *)
(* waits: the timers, the answers and the refreshes that overlap never hand   *)
(* the same datagram on twice.                                                *)
SentOnce ==
  /\ \A d \in Datagrams : emissions[d] <= 1
  /\ \A q \in Queued : emissions[q[2]] = 0 /\ q[2] \notin dropped
  /\ \A p, q \in Queued : p[2] = q[2] => p = q

(* A pending resolution holds something, and a timer or a goroutine will come *)
(* back to it: nothing waits forever, and no probe finds it empty.            *)
PendingAttended ==
  \A t \in Targets : pending[t] # Nil =>
    /\ Held(pending[t]) # {}
    /\ \/ \E timer \in timers : timer[2] = pending[t]
       \/ \E g \in Goroutines :
            \/ work[g].key = t /\ work[g].step # "queue"
            \/ work[g].back # <<>> /\ work[g].back[2] = pending[t]

(* After Stop has reset the sender no resolution opens: no timer outlives the *)
(* session with a device of it.                                               *)
NothingAfterReset == lifecycle = "reset" => \A t \in Targets : pending[t] = Nil
=============================================================================
