-------------------------- MODULE ApiServicesProofs --------------------------
(***************************************************************************)
(* What the services behind the HTTP API keep, for any files, engines,     *)
(* captures, requests and token sets.                                      *)
(***************************************************************************)
EXTENDS PacketReplay, FiniteSetTheorems, WellFoundedInduction, TLAPS

(***************************************************************************)
(* Replay.  The inductive invariant adds the types of engines and calls,   *)
(* and that a call that does not start a replay has no file.               *)
(***************************************************************************)
EngineType ==
  [pc : {"new", "pass", "read", "wait", "pass done", "between", "done"}, stop : BOOLEAN, file : Files \cup {NoFile},
   loops : LoopCounts \cup {0}, interval : BOOLEAN, sent : Nat, passes : Nat]

CallType ==
  [op : {"none", "start", "stop"}, file : Files \cup {NoFile}, loops : LoopCounts \cup {0}, interval : BOOLEAN]

ReplayInv ==
  /\ engine \in [Engines -> EngineType]
  /\ call \in CallType /\ (call.op # "start" => call.file = NoFile)
  /\ ReplaysSound

LEMMA ReplayInit == Init => ReplayInv
  BY UploadsAssumption DEF Init, ReplayInv, EngineType, CallType, Fresh, Idle, ReplaysSound, OneReplayPlays, UploadsFollowReplay, Live

(* Signalling the engine that plays changes neither what it plays nor where. *)
LEMMA SignalKeeps ==
  ASSUME ReplayInv, engine' = signal
  PROVE  /\ engine' \in [Engines -> EngineType]
         /\ \A e \in Engines : engine'[e].pc = engine[e].pc /\ engine'[e].file = engine[e].file
<1>1. CASE current \in Engines
  <2> DEFINE next == [engine[current] EXCEPT !.stop = TRUE]
  <2>1. next \in EngineType /\ next.pc = engine[current].pc /\ next.file = engine[current].file
    <3>1. engine[current] \in EngineType
      BY <1>1 DEF ReplayInv
    <3> QED
      BY <3>1 DEF EngineType
  <2>2. engine' = [engine EXCEPT ![current] = next]
    BY <1>1, EnginesAssumption DEF signal
  <2> HIDE DEF next
  <2> QED
    BY <2>1, <2>2 DEF ReplayInv
<1>2. CASE current \notin Engines
  BY <1>2 DEF signal, ReplayInv
<1> QED
  BY <1>1, <1>2

LEMMA LocksKeep ==
  ASSUME ReplayInv,
         stopLock \/ \E f \in Files, n \in LoopCounts, interval \in BOOLEAN : startLock(f, n, interval)
  PROVE  ReplayInv'
<1>1. /\ engine' \in [Engines -> EngineType]
      /\ \A e \in Engines : engine'[e].pc = engine[e].pc /\ engine'[e].file = engine[e].file
  BY SignalKeeps DEF stopLock, startLock
<1>2. UNCHANGED <<disk, current, cleanup>>
  BY DEF stopLock, startLock
<1>3. OneReplayPlays'
  BY <1>1, <1>2 DEF ReplayInv, ReplaysSound, OneReplayPlays, Live
<1>4. \A e \in Engines : Live(e)' /\ engine'[e].file \in Uploads => engine'[e].file \in disk'
  BY <1>1, <1>2 DEF ReplayInv, ReplaysSound, UploadsFollowReplay, Live
<1>5. call' \in CallType /\ (call'.op # "start" => call'.file = NoFile)
  <2>1. CASE stopLock
    BY <2>1 DEF stopLock, Idle, CallType
  <2>2. ASSUME NEW f \in Files, NEW n \in LoopCounts, NEW interval \in BOOLEAN, startLock(f, n, interval)
        PROVE  call' \in CallType /\ (call'.op # "start" => call'.file = NoFile)
    BY <2>2 DEF startLock, CallType
  <2> QED
    BY <2>1, <2>2
<1>6. disk' \cap Uploads \subseteq pending' \cup {cleanup', call'.file}
  BY <1>2, UploadsAssumption DEF stopLock, startLock, Idle, ReplayInv, ReplaysSound, UploadsFollowReplay
<1> QED
  BY <1>1, <1>3, <1>4, <1>5, <1>6 DEF ReplayInv, ReplaysSound, UploadsFollowReplay

(* Once the previous engine has ended nothing plays.                         *)
LEMMA NothingPlays ==
  ASSUME ReplayInv, previousEnded
  PROVE  \A e \in Engines : ~Live(e)
  BY EnginesAssumption DEF ReplayInv, ReplaysSound, OneReplayPlays, previousEnded

LEMMA CallsKeep ==
  ASSUME ReplayInv, stopReplay \/ \E preflight \in BOOLEAN : startReplay(preflight)
  PROVE  ReplayInv'
<1>1. call' = Idle /\ UNCHANGED pending /\ \A e \in Engines : ~Live(e)
  BY NothingPlays DEF stopReplay, startReplay
<1>2. disk' \cap Uploads \subseteq pending' \cup {cleanup'}
  BY <1>1, UploadsAssumption
  DEF stopReplay, startReplay, Idle, ReplayInv, ReplaysSound, UploadsFollowReplay, cleaned
<1>3. CASE engine' = engine
  BY <1>1, <1>2, <1>3
  DEF ReplayInv, ReplaysSound, OneReplayPlays, UploadsFollowReplay, Live, Idle, CallType
<1>4. CASE engine' # engine
  <2> DEFINE next == [pc |-> "pass", stop |-> FALSE, file |-> call.file, loops |-> call.loops,
                      interval |-> call.interval, sent |-> 0, passes |-> 0]
  <2>1. engine' = [engine EXCEPT ![used'] = next] /\ current' = used' /\ next.file \in disk'
    BY <1>4 DEF stopReplay, startReplay, Fresh
  <2>2. next \in EngineType
    BY DEF EngineType, ReplayInv, CallType
  <2> HIDE DEF next
  <2>3. engine' \in [Engines -> EngineType]
    BY <2>1, <2>2 DEF ReplayInv
  <2>4. \A e \in Engines : engine'[e].pc \notin {"new", "done"} => e = current' /\ engine'[e] = next
    BY <1>1, <2>1 DEF Live, ReplayInv
  <2> QED
    BY <1>1, <1>2, <2>1, <2>3, <2>4
    DEF ReplayInv, ReplaysSound, OneReplayPlays, UploadsFollowReplay, Live, Idle, CallType
<1> QED
  BY <1>3, <1>4

LEMMA PlaybackKeeps ==
  ASSUME ReplayInv, NEW e \in Engines, playback(e)
  PROVE  ReplayInv'
<1>1. Live(e) /\ UNCHANGED <<disk, pending, current, cleanup, call>>
  BY DEF playback, playOnce, readPacket, stopWaiting, sendPacket, recordPassDone, nextPass, moves, Live
<1>2. /\ engine' \in [Engines -> EngineType]
      /\ \A d \in Engines : d # e => engine'[d] = engine[d]
      /\ engine'[e].pc = "done" \/ engine'[e].file = engine[e].file
  <2> SUFFICES \E next \in EngineType :
                 moves(e, next) /\ (next.pc = "done" \/ next.file = engine[e].file)
    BY DEF ReplayInv, moves
  <2> DEFINE places == {"new", "pass", "read", "wait", "pass done", "between", "done"}
  <2>1. engine[e] \in EngineType
    BY DEF ReplayInv
  <2>2. Finished \in EngineType /\ Finished.pc = "done"
    BY DEF Finished, Fresh, EngineType
  <2>3. ASSUME NEW p \in places PROVE LET next == [engine[e] EXCEPT !.pc = p] IN next \in EngineType /\ next.file = engine[e].file
    BY <2>1 DEF EngineType
  <2>4. ASSUME NEW p \in places, NEW n \in Nat
        PROVE  /\ LET next == [engine[e] EXCEPT !.sent = n, !.pc = p] IN next \in EngineType /\ next.file = engine[e].file
               /\ LET next == [engine[e] EXCEPT !.pc = p, !.sent = n] IN next \in EngineType /\ next.file = engine[e].file
               /\ LET next == [engine[e] EXCEPT !.pc = p, !.passes = n] IN next \in EngineType /\ next.file = engine[e].file
    BY <2>1 DEF EngineType
  <2>5. CASE playOnce(e)
    BY <2>4, <2>5 DEF playOnce
  <2>6. CASE readPacket(e)
    BY <2>3, <2>6 DEF readPacket
  <2>7. CASE stopWaiting(e)
    BY <2>3, <2>7 DEF stopWaiting
  <2>8. CASE sendPacket(e)
    <3>1. engine[e].sent + 1 \in Nat
      <4>1. engine[e].sent \in Nat
        BY <2>1, Zenon DEF EngineType
      <4> QED
        BY <4>1
    <3>2. moves(e, [engine[e] EXCEPT !.pc = "read", !.sent = engine[e].sent + 1])
      BY <2>8 DEF sendPacket
    <3> HIDE DEF moves
    <3> QED
      BY <2>4, <3>1, <3>2
  <2>9. CASE recordPassDone(e)
    <3>1. engine[e].passes + 1 \in Nat
      <4>1. engine[e].passes \in Nat
        BY <2>1, Zenon DEF EngineType
      <4> QED
        BY <4>1
    <3>2. moves(e, Finished) \/ \E n \in Nat : moves(e, [engine[e] EXCEPT !.pc = "between", !.passes = n])
      <4> DEFINE done == engine[e].passes + 1
                 n == IF engine[e].loops > 0 THEN done ELSE 0
      <4>1. n \in Nat
        BY <3>1
      <4>2. moves(e, Finished) \/ moves(e, [engine[e] EXCEPT !.pc = "between", !.passes = n])
        BY <2>9 DEF recordPassDone
      <4> HIDE DEF n
      <4> QED
        BY <4>1, <4>2
    <3> QED
      BY <2>2, <2>4, <3>2
  <2>10. CASE nextPass(e)
    BY <2>2, <2>3, <2>10 DEF nextPass
  <2> QED
    BY <2>5, <2>6, <2>7, <2>8, <2>9, <2>10 DEF playback
<1>3. OneReplayPlays'
  BY <1>1, <1>2 DEF ReplayInv, ReplaysSound, OneReplayPlays, Live
<1>4. UploadsFollowReplay'
  BY <1>1, <1>2 DEF ReplayInv, ReplaysSound, UploadsFollowReplay, Live
<1> QED
  BY <1>1, <1>2, <1>3, <1>4 DEF ReplayInv, ReplaysSound

(* Two replays of a session never play at once, and an upload is on disk     *)
(* exactly as long as something may play it, whatever the operator deletes,  *)
(* however starts and stops overlap the playback (replay.Controller).        *)
THEOREM ReplaysStaySound == Spec => []ReplaysSound
<1>1. ReplayInv /\ [Next]_vars => ReplayInv'
  <2> SUFFICES ASSUME ReplayInv, [Next]_vars PROVE ReplayInv'
    OBVIOUS
  <2>1. ASSUME NEW f \in Files, writeUploadedFile(f) \/ removeFile(f) PROVE ReplayInv'
    BY <2>1
    DEF writeUploadedFile, removeFile, ReplayInv, ReplaysSound, OneReplayPlays, UploadsFollowReplay, Live
  <2>2. CASE UNCHANGED vars
    BY <2>2 DEF vars, ReplayInv, ReplaysSound, OneReplayPlays, UploadsFollowReplay, Live
  <2> QED
    BY <2>1, <2>2, LocksKeep, CallsKeep, PlaybackKeeps DEF Next
<1>2. ReplayInv => ReplaysSound
  BY DEF ReplayInv
<1> QED
  BY <1>1, <1>2, ReplayInit, PTL DEF Spec
-----------------------------------------------------------------------------
(***************************************************************************)
(* Standalone capture.  The inductive invariant adds that only sessions    *)
(* that have started run or are closed, so that the next one finds its     *)
(* engine open.                                                            *)
(***************************************************************************)
CONSTANT Captures
VARIABLES capture, simulating, started, closed, loop, lastError

Capture == INSTANCE StandaloneCapture

CaptureInv ==
  /\ started \in Nat
  /\ closed \subseteq 1 .. started
  /\ loop \in [Captures -> {"none", "running", "cancelled", "failed", "done"}]
  /\ \A e \in Captures : loop[e] # "none" => e \in 1 .. started
  /\ Capture!CaptureIsNewest

LEMMA CaptureStep ==
  ASSUME Capture!Constants, CaptureInv, [Capture!Next]_(Capture!vars)
  PROVE  CaptureInv'
<1> USE DEF CaptureInv, Capture!CaptureIsNewest, Capture!Constants
<1>1. CASE Capture!StartCapture
  BY <1>1 DEF Capture!StartCapture
<1>2. CASE Capture!StopCapture
  <2>1. capture \in 1 .. started /\ lastError = 0
    BY <1>2 DEF Capture!StopCapture
  <2>2. capture' = 0 /\ closed' = closed \cup {capture} /\ UNCHANGED <<started, loop, lastError>>
    BY <1>2 DEF Capture!StopCapture, Capture!stop
  <2> QED
    BY <2>1, <2>2
<1>3. ASSUME NEW e \in Captures, Capture!captureRunner(e) PROVE CaptureInv'
  BY <1>3 DEF Capture!captureRunner
<1>4. ASSUME NEW e \in Captures, Capture!completeStandaloneCapture(e) PROVE CaptureInv'
  BY <1>4 DEF Capture!completeStandaloneCapture, Capture!stop
<1>5. CASE Capture!StartSimulation \/ Capture!StopSimulation \/ UNCHANGED Capture!vars
  BY <1>5 DEF Capture!StartSimulation, Capture!StopSimulation, Capture!vars
<1> QED
  BY <1>1, <1>2, <1>3, <1>4, <1>5 DEF Capture!Next

(* The capture the daemon shows is the newest one and open, every older one  *)
(* is closed, and no error of a session that ended late is shown for a newer *)
(* one, however stops and starts overlap the goroutines of older sessions    *)
(* (StartCapture, StopCapture, completeStandaloneCapture).                   *)
THEOREM CaptureStaysNewest ==
  ASSUME Capture!Constants
  PROVE  Capture!Spec => []Capture!CaptureIsNewest
<1>1. Capture!Init => CaptureInv
  BY DEF Capture!Init, CaptureInv, Capture!CaptureIsNewest
<1>2. CaptureInv /\ [Capture!Next]_(Capture!vars) => CaptureInv'
  BY CaptureStep
<1>3. CaptureInv => Capture!CaptureIsNewest
  BY DEF CaptureInv
<1> QED
  BY <1>1, <1>2, <1>3, PTL DEF Capture!Spec
-----------------------------------------------------------------------------
(***************************************************************************)
(* The request gate.  The inductive invariant adds that the token set in   *)
(* force is one of every request under way, and what gave an authorized    *)
(* request its scope: the token in one set of its lifetime, or a set       *)
(* without tokens on a loopback listener.                                  *)
(***************************************************************************)
CONSTANTS Requests, Addresses, Tokens, TokenSets, Loopback, MaxLimiters, Burst, MaxRotations
VARIABLES tokens, rotations, request, limiters, now

Gate == INSTANCE ApiGate

RequestType ==
  [phase : {"new", "limited", "configured", "authorized", "served", "refused"}, token : Tokens, safe : BOOLEAN,
   admin : BOOLEAN, scope : 0 .. Gate!Admin, during : SUBSET TokenSets]

Granted(q) ==
  \/ \E snap \in q.during : q.scope = snap[q.token] /\ q.scope >= Gate!RequiredScopeForMethod(q.safe)
  \/ q.scope = Gate!Admin /\ Loopback /\ \E snap \in q.during : ~Gate!Configured(snap)

Served(q) ==
  \E snap \in q.during : snap[q.token] >= Gate!Needed(q) \/ (Loopback /\ ~Gate!Configured(snap))

Justified(q) ==
  /\ q.phase \in {"limited", "configured", "authorized"} => tokens \in q.during
  /\ q.phase = "authorized" => Granted(q)
  /\ q.phase = "served" => Served(q)

RequestsInv ==
  /\ tokens \in TokenSets
  /\ request \in [Requests -> RequestType]
  /\ \A r \in Requests : Justified(request[r])

LimitersInv ==
  /\ limiters \in [Addresses -> [left : Nat, seen : Nat]]
  /\ now \in Nat
  /\ IsFiniteSet(Gate!Known) /\ Cardinality(Gate!Known) =< MaxLimiters

GateInv == RequestsInv /\ LimitersInv

(* The instance counts as this module does. *)
LEMMA GateCounts == \A S : Gate!Cardinality(S) = Cardinality(S)
BY Zenon DEF Gate!Cardinality, Cardinality

(* The fields of a request whose phase and scope the middleware sets. *)
LEMMA RequestFields ==
  ASSUME NEW q \in RequestType, NEW p, NEW scope
  PROVE  [q EXCEPT !.phase = p, !.scope = scope] =
           [phase |-> p, token |-> q.token, safe |-> q.safe, admin |-> q.admin, scope |-> scope, during |-> q.during]
<1>1. q = [phase |-> q.phase, token |-> q.token, safe |-> q.safe, admin |-> q.admin, scope |-> q.scope, during |-> q.during]
  BY DEF RequestType
<1> DEFINE moved == [q EXCEPT !.phase = p]
<1>2. moved = [phase |-> p, token |-> q.token, safe |-> q.safe, admin |-> q.admin, scope |-> q.scope, during |-> q.during]
  BY <1>1
<1>3. [q EXCEPT !.phase = p, !.scope = scope] = [moved EXCEPT !.scope = scope]
  OBVIOUS
<1> HIDE DEF moved
<1>4. [moved EXCEPT !.scope = scope] =
        [phase |-> p, token |-> q.token, safe |-> q.safe, admin |-> q.admin, scope |-> scope, during |-> q.during]
  BY <1>2
<1> QED
  BY <1>3, <1>4

(* A request that moves on with its token, method and token sets as they are.*)
LEMMA RequestMoves ==
  ASSUME RequestsInv, NEW r \in Requests, NEW next \in RequestType,
         request' = [request EXCEPT ![r] = next], tokens' = tokens, Justified(next)
  PROVE  RequestsInv'
<1>1. request' \in [Requests -> RequestType] /\ \A q \in Requests : request'[q] \in {next, request[q]}
  BY DEF RequestsInv
<1>2. \A q \in Requests : Justified(request'[q])
  BY <1>1 DEF RequestsInv
<1> QED
  BY <1>1, <1>2 DEF RequestsInv, Justified, Granted, Served

LEMMA AllowKeepsRequests ==
  ASSUME Gate!Constants, RequestsInv, NEW r \in Requests, NEW a \in Addresses, NEW refill \in 0 .. 1,
         NEW t \in Tokens, NEW safe \in BOOLEAN, NEW admin \in BOOLEAN,
         Gate!allow(r, a, refill, t, safe, admin)
  PROVE  RequestsInv'
<1>1. PICK p \in {"limited", "refused"} :
        request' = [request EXCEPT ![r] = [phase |-> p, token |-> t, safe |-> safe, admin |-> admin,
                                           scope |-> 0, during |-> {tokens}]]
  BY DEF Gate!allow
<1> DEFINE next == [phase |-> p, token |-> t, safe |-> safe, admin |-> admin, scope |-> 0, during |-> {tokens}]
<1>2. next \in RequestType /\ Justified(next)
  BY DEF RequestsInv, RequestType, Justified, Gate!Admin
<1>3. tokens' = tokens
  BY DEF Gate!allow
<1> HIDE DEF next
<1> QED
  BY <1>1, <1>2, <1>3, RequestMoves DEF next

LEMMA LenTokensKeepsRequests ==
  ASSUME Gate!Constants, RequestsInv, NEW r \in Requests, Gate!lenTokens(r)
  PROVE  RequestsInv'
<1> DEFINE q == request[r]
           open == ~Gate!Configured(tokens) /\ Loopback
           p == IF Gate!Configured(tokens) THEN "configured" ELSE IF Loopback THEN "authorized" ELSE "refused"
           next == [q EXCEPT !.phase = p, !.scope = IF open THEN Gate!Admin ELSE 0]
<1>1. q \in RequestType /\ tokens \in q.during /\ tokens' = tokens
  BY DEF RequestsInv, Gate!lenTokens, Justified
<1>2. next = [phase |-> p, token |-> q.token, safe |-> q.safe, admin |-> q.admin,
              scope |-> IF open THEN Gate!Admin ELSE 0, during |-> q.during]
  BY <1>1, RequestFields
<1>3. next \in RequestType
  BY <1>1, <1>2 DEF RequestType, Gate!Admin
<1>4. Justified(next)
  BY <1>1, <1>2 DEF Justified, Granted
<1>5. request' = [request EXCEPT ![r] = next]
  BY DEF Gate!lenTokens, RequestsInv
<1> HIDE DEF next
<1> QED
  BY <1>1, <1>3, <1>4, <1>5, RequestMoves

LEMMA LookupKeepsRequests ==
  ASSUME Gate!Constants, RequestsInv, NEW r \in Requests, Gate!Lookup(r)
  PROVE  RequestsInv'
<1> DEFINE q == request[r]
           scope == tokens[q.token]
           p == IF scope > 0 /\ scope >= Gate!RequiredScopeForMethod(q.safe) THEN "authorized" ELSE "refused"
           next == [q EXCEPT !.phase = p, !.scope = scope]
<1>1. q \in RequestType /\ tokens \in q.during /\ tokens' = tokens
  BY DEF RequestsInv, Gate!Lookup, Justified
<1>2. next = [phase |-> p, token |-> q.token, safe |-> q.safe, admin |-> q.admin,
              scope |-> scope, during |-> q.during]
  BY <1>1, RequestFields
<1>3. scope \in 0 .. Gate!Admin
  <2>1. tokens \in [Tokens -> 0 .. Gate!Admin] /\ q.token \in Tokens
    BY <1>1 DEF RequestsInv, Gate!Constants, RequestType
  <2> QED
    BY <2>1
<1>4. next \in RequestType
  BY <1>1, <1>2, <1>3 DEF RequestType
<1>5. Justified(next)
  BY <1>1, <1>2 DEF Justified, Granted
<1>6. request' = [request EXCEPT ![r] = next]
  BY DEF Gate!Lookup, RequestsInv
<1> HIDE DEF next
<1> QED
  BY <1>1, <1>4, <1>5, <1>6, RequestMoves

LEMMA AdminProtectKeepsRequests ==
  ASSUME Gate!Constants, RequestsInv, NEW r \in Requests, Gate!AdminProtect(r)
  PROVE  RequestsInv'
<1> DEFINE q == request[r]
           p == IF q.admin /\ ~q.safe /\ q.scope < Gate!Admin THEN "refused" ELSE "served"
           next == [q EXCEPT !.phase = p]
<1>1. q \in RequestType /\ Granted(q) /\ tokens' = tokens
  BY DEF RequestsInv, Gate!AdminProtect, Justified
<1>2. next \in RequestType /\ next.phase = p /\ next.token = q.token /\ next.safe = q.safe
      /\ next.admin = q.admin /\ next.scope = q.scope /\ next.during = q.during
  BY <1>1 DEF RequestType
<1>3. ASSUME p = "served" PROVE Served(next)
  <2>1. q.scope \in 0 .. 3 /\ q.admin \in BOOLEAN /\ q.safe \in BOOLEAN /\ ~(q.admin /\ ~q.safe /\ q.scope < 3)
    BY <1>1, <1>3 DEF RequestType, Gate!Admin
  <2>2. ASSUME NEW snap \in q.during, q.scope = snap[q.token], q.scope >= Gate!RequiredScopeForMethod(q.safe)
        PROVE  snap[q.token] >= Gate!Needed(q)
    BY <2>1, <2>2 DEF Gate!Needed, Gate!RequiredScopeForMethod, Gate!Admin, Gate!ReadOnly, Gate!ReadWrite
  <2>3. Gate!Needed(next) = Gate!Needed(q)
    BY <1>2 DEF Gate!Needed
  <2> HIDE DEF next
  <2> QED
    BY <1>1, <1>2, <2>2, <2>3 DEF Granted, Served
<1>4. request' = [request EXCEPT ![r] = next]
  BY DEF Gate!AdminProtect, RequestsInv
<1> HIDE DEF next
<1>5. Justified(next)
  BY <1>2, <1>3 DEF Justified
<1> QED
  BY <1>1, <1>2, <1>4, <1>5, RequestMoves

(* A rotation adds the new set to what the requests under way have seen; one *)
(* that was justified stays so, since it keeps the sets it had.              *)
LEMMA ReplaceKeepsRequests ==
  ASSUME Gate!Constants, RequestsInv, Gate!Replace
  PROVE  RequestsInv'
<1>1. tokens' \in TokenSets
  BY DEF Gate!Replace
<1>2. ASSUME NEW r \in Requests PROVE request'[r] \in RequestType /\ Justified(request[r])'
  <2> DEFINE q == request[r]
  <2>1. q \in RequestType /\ Justified(q)
    BY DEF RequestsInv
  <2>2. CASE q.phase \in {"new", "served", "refused"}
    <3>1. request'[r] = q
      BY <2>2 DEF Gate!Replace
    <3> QED
      BY <2>1, <2>2, <3>1 DEF Justified, Served
  <2>3. CASE q.phase \notin {"new", "served", "refused"}
    <3> DEFINE next == [q EXCEPT !.during = q.during \cup {tokens'}]
    <3>1. request'[r] = next
      BY <2>3 DEF Gate!Replace
    <3>2. next \in RequestType /\ next.phase = q.phase /\ next.token = q.token /\ next.safe = q.safe
          /\ next.scope = q.scope /\ next.during = q.during \cup {tokens'}
      BY <1>1, <2>1 DEF RequestType
    <3> HIDE DEF next
    <3>3. Granted(q) => Granted(next)
      BY <3>2 DEF Granted
    <3>4. next.phase = "authorized" => Granted(next)
      BY <2>1, <3>2, <3>3 DEF Justified
    <3>5. next.phase # "served" /\ tokens' \in next.during
      BY <2>3, <3>2
    <3>6. Granted(next) => Granted(request[r])'
      BY <3>1 DEF Granted
    <3> QED
      BY <3>1, <3>2, <3>4, <3>5, <3>6 DEF Justified
  <2> QED
    BY <2>2, <2>3
<1>3. request' \in [Requests -> RequestType]
  BY <1>2 DEF Gate!Replace
<1> QED
  BY <1>1, <1>2, <1>3 DEF RequestsInv

(* The table is not empty when it is full, so there is an oldest address.    *)
LEMMA OldestIsKnown ==
  ASSUME LimitersInv, Gate!Known # {}
  PROVE  \E a \in Gate!Known : \A b \in Gate!Known : limiters[a].seen =< limiters[b].seen
<1> DEFINE seen == {limiters[a].seen : a \in Gate!Known}
           less == OpToRel(<, Nat)
<1>1. \A a \in Gate!Known : limiters[a].seen \in Nat
  BY DEF LimitersInv, Gate!Known
<1>2. seen \subseteq Nat /\ seen # {}
  BY <1>1
<1>3. IsWellFoundedOn(less, Nat)
  BY NatLessThanWellFounded
<1>4. PICK n \in seen : \A m \in seen : ~(<<m, n>> \in less)
  BY <1>2, <1>3, WFMin
<1>5. PICK a \in Gate!Known : n = limiters[a].seen
  OBVIOUS
<1>6. ASSUME NEW b \in Gate!Known PROVE limiters[a].seen =< limiters[b].seen
  <2> DEFINE m == limiters[b].seen
  <2>1. m \in Nat /\ n \in Nat /\ m \in seen
    BY <1>1, <1>2
  <2>2. m < n => <<m, n>> \in less
    BY <2>1 DEF OpToRel
  <2> HIDE DEF m, less, seen
  <2>3. n =< m
    BY <1>4, <2>1, <2>2
  <2> QED
    BY <1>5, <2>3 DEF m
<1> QED
  BY <1>6

(* What a request leaves in the table: its address, and one other less when  *)
(* the table was full.                                                       *)
LEMMA AllowKeepsLimiters ==
  ASSUME Gate!Constants, LimitersInv, NEW r \in Requests, NEW a \in Addresses, NEW refill \in 0 .. 1,
         NEW t \in Tokens, NEW safe \in BOOLEAN, NEW admin \in BOOLEAN,
         Gate!allow(r, a, refill, t, safe, admin)
  PROVE  LimitersInv'
<1> DEFINE Bucket == [left : Nat, seen : Nat]
           full == a \notin Gate!Known /\ Cardinality(Gate!Known) >= MaxLimiters
           kept == IF full THEN Gate!evictOldestLimiter ELSE limiters
           first == IF a \in Gate!Known THEN Gate!Least(Burst, limiters[a].left + refill) ELSE Burst
           bucket == [left |-> first, seen |-> now + 1]
           found == [kept EXCEPT ![a] = bucket]
           remains == IF first > 0 THEN first - 1 ELSE 0
<1>1. limiters \in [Addresses -> Bucket] /\ now \in Nat /\ Gate!Known \subseteq Addresses
      /\ IsFiniteSet(Gate!Known) /\ Cardinality(Gate!Known) \in Nat /\ Cardinality(Gate!Known) =< MaxLimiters
      /\ MaxLimiters \in Nat \ {0} /\ Burst \in Nat
  BY FS_CardinalityType DEF LimitersInv, Gate!Constants, Gate!Known
<1>2. now' = now + 1 /\ now' \in Nat /\ now' > 0
  BY <1>1 DEF Gate!allow
<1>3. first \in Nat
  <2>1. limiters[a].left \in Nat
    BY <1>1
  <2>2. Gate!Least(Burst, limiters[a].left + refill) \in Nat
    BY <1>1, <2>1 DEF Gate!Least
  <2> QED
    BY <1>1, <2>2
<1>4. bucket \in Bucket /\ bucket.left = first
  BY <1>1, <1>3
<1>5. PICK gone \in SUBSET Gate!Known :
        /\ kept = [b \in Addresses |-> IF b \in gone THEN Gate!NoLimiter ELSE limiters[b]]
        /\ full => \E o \in Gate!Known : gone = {o}
        /\ ~full => gone = {}
  <2>1. CASE full
    <3> DEFINE oldest == CHOOSE o \in Gate!Known : \A b \in Gate!Known : limiters[o].seen =< limiters[b].seen
    <3>1. Gate!Known # {}
      BY <1>1, <2>1, FS_EmptySet
    <3>2. oldest \in Gate!Known
      BY <3>1, OldestIsKnown
    <3>3. kept = [limiters EXCEPT ![oldest] = Gate!NoLimiter]
      BY <2>1 DEF Gate!evictOldestLimiter
    <3> HIDE DEF oldest, kept, full
    <3>4. kept = [b \in Addresses |-> IF b \in {oldest} THEN Gate!NoLimiter ELSE limiters[b]]
      BY <1>1, <3>2, <3>3
    <3>5. {oldest} \in SUBSET Gate!Known /\ \E o \in Gate!Known : {oldest} = {o}
      BY <3>2
    <3> QED
      BY <2>1, <3>4, <3>5
  <2>2. CASE ~full
    <3>1. kept = limiters
      BY <2>2
    <3> HIDE DEF kept, full
    <3>2. kept = [b \in Addresses |-> IF b \in {} THEN Gate!NoLimiter ELSE limiters[b]]
      BY <1>1, <3>1
    <3> QED
      BY <2>2, <3>2
  <2> QED
    BY <2>1, <2>2
<1>6. limiters' = [found EXCEPT ![a].left = IF found[a].left > 0 THEN found[a].left - 1 ELSE 0]
  <2> DEFINE G == Gate!GetLimiter(a, refill)
  <2>1. G = found
    <3>1. Gate!Cardinality(Gate!Known) = Cardinality(Gate!Known)
      BY GateCounts
    <3> QED
      BY <3>1, Zenon DEF Gate!GetLimiter
  <2>2. limiters' = [G EXCEPT ![a].left = IF G[a].left > 0 THEN G[a].left - 1 ELSE 0]
    BY DEF Gate!allow
  <2> HIDE DEF G, found
  <2> QED
    BY <2>1, <2>2
<1> HIDE DEF bucket, kept
<1>7. found[a] = bucket /\ found \in [Addresses -> Bucket]
  <2>1. Gate!NoLimiter \in Bucket
    BY DEF Gate!NoLimiter
  <2>2. kept \in [Addresses -> Bucket]
    BY <1>1, <1>5, <2>1
  <2> QED
    BY <1>4, <2>2
<1> DEFINE spent == [bucket EXCEPT !.left = remains]
<1>8. spent \in Bucket /\ spent.seen = now + 1
  BY <1>1, <1>3 DEF bucket
<1>9. limiters' = [found EXCEPT ![a] = spent]
  BY <1>4, <1>6, <1>7
<1> HIDE DEF spent, first
<1>10. limiters' = [kept EXCEPT ![a] = spent]
  BY <1>9
<1>11. limiters' \in [Addresses -> Bucket]
  BY <1>7, <1>8, <1>9
<1>12. \A b \in Addresses : limiters'[b].seen > 0 <=> b = a \/ (b \in Gate!Known /\ b \notin gone)
  BY <1>1, <1>2, <1>5, <1>8, <1>10 DEF Gate!Known, Gate!NoLimiter
<1>13. Gate!Known' = (Gate!Known \ gone) \cup {a}
  BY <1>1, <1>12 DEF Gate!Known
<1>14. IsFiniteSet(Gate!Known \ gone)
  BY <1>1, FS_Subset
<1>15. IsFiniteSet(Gate!Known') /\ Cardinality(Gate!Known') =< MaxLimiters
  <2>1. CASE full
    <3>1. PICK o \in Gate!Known : gone = {o}
      BY <1>5, <2>1
    <3>2. Cardinality(Gate!Known \ gone) = Cardinality(Gate!Known) - 1
      BY <1>1, <3>1, FS_RemoveElement
    <3>3. a \notin Gate!Known \ gone
      BY <2>1
    <3>4. IsFiniteSet(Gate!Known') /\ Cardinality(Gate!Known') = Cardinality(Gate!Known \ gone) + 1
      BY <1>13, <1>14, <3>3, FS_AddElement
    <3> QED
      BY <1>1, <3>2, <3>4
  <2>2. CASE ~full
    <3>1. gone = {} /\ Gate!Known \ gone = Gate!Known
      BY <1>5, <2>2
    <3>2. Gate!Known' = Gate!Known \cup {a}
      BY <1>13, <3>1
    <3>3. IsFiniteSet(Gate!Known')
          /\ Cardinality(Gate!Known') = IF a \in Gate!Known THEN Cardinality(Gate!Known) ELSE Cardinality(Gate!Known) + 1
      BY <1>1, <3>2, FS_AddElement
    <3> QED
      BY <1>1, <2>2, <3>3
  <2> QED
    BY <2>1, <2>2
<1> QED
  BY <1>2, <1>11, <1>15 DEF LimitersInv

LEMMA CleanupKeepsLimiters ==
  ASSUME Gate!Constants, LimitersInv, Gate!CleanupStale
  PROVE  LimitersInv'
<1>1. PICK idle \in SUBSET Gate!Known :
        limiters' = [a \in Addresses |-> IF a \in idle THEN Gate!NoLimiter ELSE limiters[a]]
  BY DEF Gate!CleanupStale
<1>2. limiters' \in [Addresses -> [left : Nat, seen : Nat]]
  BY <1>1 DEF LimitersInv, Gate!NoLimiter
<1>3. Gate!Known' \in SUBSET Gate!Known
  BY <1>1 DEF Gate!Known, Gate!NoLimiter
<1>4. IsFiniteSet(Gate!Known') /\ Cardinality(Gate!Known') =< Cardinality(Gate!Known)
  BY <1>3, FS_Subset DEF LimitersInv
<1>5. Cardinality(Gate!Known) \in Nat /\ Cardinality(Gate!Known') \in Nat /\ Cardinality(Gate!Known) =< MaxLimiters
  BY <1>4, FS_CardinalityType DEF LimitersInv
<1>6. Cardinality(Gate!Known') =< MaxLimiters
  BY <1>4, <1>5 DEF Gate!Constants
<1> QED
  BY <1>2, <1>4, <1>6 DEF LimitersInv, Gate!CleanupStale

LEMMA GateStep ==
  ASSUME Gate!Constants, GateInv, [Gate!Next]_(Gate!vars)
  PROVE  GateInv'
<1>1. CASE Gate!Replace
  <2>1. LimitersInv'
    BY <1>1 DEF GateInv, LimitersInv, Gate!Replace, Gate!Known
  <2> QED
    BY <1>1, <2>1, ReplaceKeepsRequests DEF GateInv
<1>2. CASE Gate!CleanupStale
  <2>1. RequestsInv'
    BY <1>2 DEF GateInv, RequestsInv, Gate!CleanupStale, Justified, Granted, Served
  <2> QED
    BY <1>2, <2>1, CleanupKeepsLimiters DEF GateInv
<1>3. CASE \E r \in Requests, a \in Addresses, refill \in 0 .. 1, t \in Tokens, safe, admin \in BOOLEAN :
             Gate!allow(r, a, refill, t, safe, admin)
  BY <1>3, AllowKeepsRequests, AllowKeepsLimiters DEF GateInv
<1>4. CASE \E r \in Requests : Gate!lenTokens(r) \/ Gate!Lookup(r) \/ Gate!AdminProtect(r)
  <2>1. PICK r \in Requests : Gate!lenTokens(r) \/ Gate!Lookup(r) \/ Gate!AdminProtect(r)
    BY <1>4
  <2>2. UNCHANGED <<limiters, now>>
    BY <2>1 DEF Gate!lenTokens, Gate!Lookup, Gate!AdminProtect
  <2>3. LimitersInv'
    BY <2>2 DEF GateInv, LimitersInv, Gate!Known
  <2> QED
    BY <2>1, <2>3, LenTokensKeepsRequests, LookupKeepsRequests, AdminProtectKeepsRequests DEF GateInv
<1>5. CASE UNCHANGED Gate!vars
  BY <1>5 DEF GateInv, RequestsInv, LimitersInv, Gate!vars, Gate!Known, Justified, Granted, Served
<1> QED
  BY <1>1, <1>2, <1>3, <1>4, <1>5 DEF Gate!Next

(* A request reaches its handler only with a permission that one token set   *)
(* installed during the request gives it, whole, and the limiter table never *)
(* outgrows MaxRateLimiterCount: for any requests, addresses, tokens and     *)
(* rotations, however they interleave with Middleware and AdminProtect.      *)
THEOREM GrantsStayCurrent ==
  ASSUME Gate!Constants
  PROVE  Gate!Spec => []Gate!GrantWasCurrent
<1>1. Gate!Init => GateInv
  <2> SUFFICES ASSUME Gate!Init PROVE GateInv
    OBVIOUS
  <2>1. Gate!Fresh \in RequestType /\ Gate!Fresh.phase = "new"
    BY DEF Gate!Constants, Gate!Fresh, RequestType, Gate!Admin
  <2>2. RequestsInv
    BY <2>1 DEF Gate!Init, RequestsInv, Justified
  <2>3. limiters \in [Addresses -> [left : Nat, seen : Nat]] /\ now \in Nat /\ Gate!Known = {}
    BY DEF Gate!Init, Gate!NoLimiter, Gate!Known
  <2>4. LimitersInv
    BY <2>3, FS_EmptySet DEF LimitersInv, Gate!Constants
  <2> QED
    BY <2>2, <2>4 DEF GateInv
<1>2. GateInv /\ [Gate!Next]_(Gate!vars) => GateInv'
  BY GateStep
<1>3. GateInv => Gate!GrantWasCurrent
  <2>1. GateInv => \A r \in Requests : request[r].phase = "served" => Served(request[r])
    BY DEF GateInv, RequestsInv, Justified
  <2>2. GateInv => Cardinality(Gate!Known) =< MaxLimiters
    BY DEF GateInv, LimitersInv
  <2>3. (\A r \in Requests : request[r].phase = "served" => Served(request[r]))
          /\ Cardinality(Gate!Known) =< MaxLimiters => Gate!GrantWasCurrent
    BY GateCounts, Zenon DEF Served, Gate!GrantWasCurrent
  <2> QED
    BY <2>1, <2>2, <2>3
<1> QED
  BY <1>1, <1>2, <1>3, PTL DEF Gate!Spec
=============================================================================
