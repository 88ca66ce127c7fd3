---------------------------- MODULE TrunkCapture ----------------------------
(***************************************************************************)
(* One shared 802.1Q capture (internal/daemon/trunk_capture.go): the       *)
(* demultiplexer slots, the bounded ingress queue and the reader of each   *)
(* session transport, the drop counters, and the failure of the capture.   *)
(*                                                                         *)
(* Three actors interleave: the operation under d.mu that attaches,        *)
(* replaces or detaches a session (at most one at a time), the capture     *)
(* goroutine, which dispatches frames until it fails, and the readers.     *)
(***************************************************************************)
EXTENDS Integers, FiniteSetTheorems, TLAPS

CONSTANTS
  Keys,            \* VLAN keys with a slot: the approved tags and the native key
  Native,          \* nativeVLANKey: untagged frames and invalid tags
  Strays,          \* tags on the wire that no session can take
  Transports,      \* transports, each made for one start
  Nil,
  Capacity,        \* trunkIngressQueue
  MaxTracked,      \* maxTrackedUnapprovedVLANs
  MaxFrames        \* bound on the frames dispatched

(* What the proofs assume of the constants: the native key is a key, and Nil *)
(* is neither a key nor a transport.                                         *)
Constants ==
  /\ Native \in Keys /\ Nil \notin Keys \cup Transports
  /\ Capacity \in Nat /\ MaxTracked \in Nat /\ MaxFrames \in Nat

VARIABLES
  slots,      \* key -> transport registered there
  vlan,       \* transport -> its key, Nil until it is made
  rx,         \* transport -> frames queued
  closed,     \* transports whose closed channel is closed
  reading,    \* transports whose reader has not returned for good
  failed,     \* c.failed
  failPc,     \* fail(): "alive", "collect", "close", "done"
  woken,      \* transports fail() has collected and not yet closed
  late,       \* transports of starts that overlap the trunk being marked dead
  pc,         \* attaching: "idle", "checked", "attached"
  key,        \* the key of that operation
  transport,  \* the transport of that operation
  previous,   \* the transport it replaces
  frames,     \* frames dispatched, delivered, read
  drops,      \* trunkDrops: frames dropped, by reason
  byTag       \* unapprovedByTag

attach  == <<pc, key, transport, previous>>
failure == <<failed, failPc, woken, late>>
traffic == <<frames, drops, byTag>>
vars == <<slots, vlan, rx, closed, reading, failure, attach, traffic>>

Tags == Keys \cup Strays

TypeOK ==
  /\ slots \in [Keys -> Transports \cup {Nil}]
  /\ vlan \in [Transports -> Keys \cup {Nil}]
  /\ rx \in [Transports -> 0..Capacity]
  /\ closed \subseteq Transports /\ reading \subseteq Transports
  /\ failed \in BOOLEAN
  /\ failPc \in {"alive", "collect", "close", "done"}
  /\ woken \subseteq Transports /\ late \subseteq Transports
  /\ pc \in {"idle", "checked", "attached"}
  /\ key \in Keys \cup {Nil}
  /\ transport \in Transports \cup {Nil}
  /\ previous \in Transports \cup {Nil}
  /\ frames \in [seen : Nat, delivered : Nat, read : Nat]
  /\ drops \in [untagged : Nat, unapproved : Nat, overrun : Nat]
  /\ byTag \in [Tags -> Nat]

Init ==
  /\ slots = [k \in Keys |-> Nil]
  /\ vlan = [t \in Transports |-> Nil]
  /\ rx = [t \in Transports |-> 0]
  /\ closed = {} /\ reading = {}
  /\ failed = FALSE /\ failPc = "alive" /\ woken = {} /\ late = {}
  /\ pc = "idle" /\ key = Nil /\ transport = Nil /\ previous = Nil
  /\ frames = [seen |-> 0, delivered |-> 0, read |-> 0]
  /\ drops = [untagged |-> 0, unapproved |-> 0, overrun |-> 0]
  /\ byTag = [v \in Tags |-> 0]

-----------------------------------------------------------------------------
(***************************************************************************)
(* Attaching a session.  register reads failed before it takes the lock;   *)
(* replace, for a session that runs already and may be moving here from    *)
(* another slot, does not read it.                                         *)
(***************************************************************************)
registerChecks(k) ==
  /\ pc = "idle"
  /\ ~failed
  /\ slots[k] = Nil
  /\ pc' = "checked" /\ key' = k
  /\ UNCHANGED <<slots, vlan, rx, closed, reading, failure, transport, previous, traffic>>

Insert(k, t) ==
  /\ vlan[t] = Nil
  /\ vlan' = [vlan EXCEPT ![t] = k]
  /\ slots' = [slots EXCEPT ![k] = t]
  /\ reading' = reading \cup {t}
  /\ transport' = t
  /\ previous' = slots[k]
  /\ pc' = "attached"
  /\ late' = IF failed THEN late \cup ({t, slots[k]} \ {Nil}) ELSE late
  /\ UNCHANGED <<rx, closed, failed, failPc, woken, traffic>>

registerInserts(t) == pc = "checked" /\ Insert(key, t) /\ UNCHANGED key

replace(k, t) ==
  /\ pc = "idle"
  /\ Insert(k, t)
  /\ key' = k

Idle == pc' = "idle" /\ key' = Nil /\ transport' = Nil /\ previous' = Nil

\* Mutant: the slot is freed even if another transport has taken it.
UnregistersAny(k, t) ==
  /\ slots' = [slots EXCEPT ![k] = Nil]
  /\ closed' = closed \cup {t}

\* unregister frees the slot only if the transport still holds it.
unregister(k, t) ==
  /\ slots' = [slots EXCEPT ![k] = IF @ = t THEN Nil ELSE @]
  /\ closed' = closed \cup {t}

\* The start is committed; the session it replaced is stopped.
commitStart ==
  /\ pc = "attached"
  /\ IF previous = Nil THEN UNCHANGED <<slots, closed>> ELSE unregister(key, previous)
  /\ Idle
  /\ UNCHANGED <<vlan, rx, reading, failure, traffic>>

\* The start fails: restore (unregister, if the slot was free) gives the slot
\* back and closes the replacement.
restore ==
  /\ pc = "attached"
  /\ slots' = [slots EXCEPT ![key] = IF @ = transport THEN previous ELSE @]
  /\ closed' = closed \cup {transport}
  /\ Idle
  /\ UNCHANGED <<vlan, rx, reading, failure, traffic>>

stopSession(k) ==
  /\ pc = "idle"
  /\ slots[k] # Nil
  /\ unregister(k, slots[k])
  /\ UNCHANGED <<vlan, rx, reading, failure, attach, traffic>>

-----------------------------------------------------------------------------
(***************************************************************************)
(* The capture goroutine.                                                  *)
(***************************************************************************)
Count(f, field) == [f EXCEPT ![field] = @ + 1]

\* The stray tags that have a counter of their own.
Named == {v \in Tags : byTag[v] # 0}

\* Mutant: every stray tag is named.
TracksAll(v) == [byTag EXCEPT ![v] = @ + 1]

\* A stray tag is named only while fewer than MaxTracked tags are.
Track(v) ==
  IF byTag[v] = 0 /\ Cardinality(Named) >= MaxTracked
  THEN byTag
  ELSE [byTag EXCEPT ![v] = @ + 1]

dispatchFrame(v) ==
  LET t == IF v \in Keys THEN slots[v] ELSE Nil IN
  /\ failPc = "alive"
  /\ frames.seen < MaxFrames
  /\ \/ /\ t # Nil /\ rx[t] < Capacity
        /\ rx' = [rx EXCEPT ![t] = @ + 1]
        /\ frames' = Count(Count(frames, "seen"), "delivered")
        /\ UNCHANGED <<drops, byTag>>
     \/ /\ t # Nil /\ rx[t] = Capacity
        /\ drops' = Count(drops, "overrun")
        /\ frames' = Count(frames, "seen")
        /\ UNCHANGED <<rx, byTag>>
     \/ /\ t = Nil
        /\ drops' = Count(drops, IF v = Native THEN "untagged" ELSE "unapproved")
        /\ byTag' = IF v = Native THEN byTag ELSE Track(v)
        /\ frames' = Count(frames, "seen")
        /\ UNCHANGED rx
  /\ UNCHANGED <<slots, vlan, closed, reading, failure, attach>>

\* The physical capture stops: fail() marks the trunk dead, then collects the
\* registered transports, then closes them one by one.
captureFails ==
  /\ failPc = "alive"
  /\ failed' = TRUE /\ failPc' = "collect"
  /\ late' = {transport, previous} \ {Nil}
  /\ UNCHANGED <<slots, vlan, rx, closed, reading, woken, attach, traffic>>

\* Mutant: the native session is not woken.
CollectsTagged ==
  /\ failPc = "collect"
  /\ woken' = {slots[k] : k \in Keys \ {Native}} \ {Nil}
  /\ failPc' = "close"
  /\ UNCHANGED <<slots, vlan, rx, closed, reading, failed, late, attach, traffic>>

failCollects ==
  /\ failPc = "collect"
  /\ woken' = {slots[k] : k \in Keys} \ {Nil}
  /\ failPc' = "close"
  /\ UNCHANGED <<slots, vlan, rx, closed, reading, failed, late, attach, traffic>>

failCloses(t) ==
  /\ failPc = "close" /\ t \in woken
  /\ closed' = closed \cup {t}
  /\ woken' = woken \ {t}
  /\ UNCHANGED <<slots, vlan, rx, reading, failed, failPc, late, attach, traffic>>

failReturns ==
  /\ failPc = "close" /\ woken = {}
  /\ failPc' = "done"
  /\ UNCHANGED <<slots, vlan, rx, closed, reading, failed, woken, late, attach, traffic>>

(***************************************************************************)
(* A session's receive loop.  With a frame queued and the transport closed *)
(* the select takes either.                                                *)
(***************************************************************************)
ReadPacket(t) ==
  /\ t \in reading
  /\ rx[t] > 0
  /\ rx' = [rx EXCEPT ![t] = @ - 1]
  /\ frames' = Count(frames, "read")
  /\ UNCHANGED <<slots, vlan, closed, reading, failure, attach, drops, byTag>>

readerWakes(t) ==
  /\ t \in reading
  /\ t \in closed
  /\ reading' = reading \ {t}
  /\ UNCHANGED <<slots, vlan, rx, closed, failure, attach, traffic>>

fail == failCollects \/ failReturns \/ \E t \in Transports : failCloses(t)

Capture ==
  \/ captureFails \/ fail
  \/ \E v \in Tags : dispatchFrame(v)

Next ==
  \/ \E k \in Keys : registerChecks(k) \/ stopSession(k)
  \/ \E t \in Transports : registerInserts(t) \/ ReadPacket(t) \/ readerWakes(t)
  \/ \E k \in Keys, t \in Transports : replace(k, t)
  \/ commitStart \/ restore
  \/ Capture

Spec == Init /\ [][Next]_vars

-----------------------------------------------------------------------------
\* The sum of the counts f: each count as so many numbered units.
Units(f) == UNION {{x} \X (1 .. f[x]) : x \in DOMAIN f}
Total(f) == Cardinality(Units(f))

\* Every frame the capture saw is counted exactly once, as delivered or under
\* one reason for its drop, and the named stray tags are bounded and account
\* for no more than the total (recordUntagged, recordUnapproved, recordOverrun).
FramesAccounted ==
  /\ frames.seen = frames.delivered + drops.untagged + drops.unapproved + drops.overrun
  /\ frames.delivered = frames.read + Total(rx)
  /\ Total(byTag) <= drops.unapproved
  /\ Cardinality(Named) <= MaxTracked

\* A transport is open exactly while a session holds it: no stop, replacement
\* or rollback leaves a session attached to a closed transport of a live trunk
\* or to another key's, and one that nobody holds any more is closed, so that
\* no reader is left behind (unregister, replace, restore).
OpenWhileAttached ==
  /\ \A k \in Keys :
       slots[k] # Nil => vlan[slots[k]] = k /\ (~failed => slots[k] \notin closed)
  /\ \A t \in Transports :
       vlan[t] # Nil /\ t \notin {transport, previous} /\ slots[vlan[t]] # t => t \in closed

\* "fail marks the trunk dead and wakes every session reading from it, so a
\* blocked ReadPacket returns instead of hanging on a capture that will never
\* deliver another frame."  Once it has, every transport still read is closed,
\* whatever was attached, replaced or rolled back meanwhile, but for those whose
\* start overlapped the failure.
FailureWakesReaders == failPc = "done" => reading \subseteq closed \cup late

\* The capture loses no frame from its counters, keeps a transport open exactly
\* while a session holds it, and its failure wakes the readers.
TrunkSound == FramesAccounted /\ OpenWhileAttached /\ FailureWakesReaders
-----------------------------------------------------------------------------
(***************************************************************************)
(* What holds for every set of VLANs and transports, every queue capacity  *)
(* and every bound on the tags the capture names.                          *)
(***************************************************************************)
(* Sums of counts: one more unit, one less.                                 *)
LEMMA UnitsOf ==
  ASSUME NEW D, NEW f \in [D -> Nat], NEW u
  PROVE  u \in Units(f) <=> \E x \in D, n \in Nat : u = <<x, n>> /\ 1 <= n /\ n <= f[x]
<1>1. u \in Units(f) <=> \E x \in D : u \in {x} \X (1 .. f[x])
  BY DEF Units
<1>2. \A x \in D : u \in {x} \X (1 .. f[x]) <=> \E n \in Nat : u = <<x, n>> /\ 1 <= n /\ n <= f[x]
  <2> SUFFICES ASSUME NEW x \in D
               PROVE  u \in {x} \X (1 .. f[x]) <=> \E n \in Nat : u = <<x, n>> /\ 1 <= n /\ n <= f[x]
    OBVIOUS
  <2>1. f[x] \in Nat
    OBVIOUS
  <2> QED
    BY <2>1
<1> QED
  BY <1>1, <1>2

LEMMA TotalZero ==
  ASSUME NEW D
  PROVE  IsFiniteSet(Units([x \in D |-> 0])) /\ Total([x \in D |-> 0]) = 0
<1>1. Units([x \in D |-> 0]) = {}
  BY DEF Units
<1> QED
  BY <1>1, FS_EmptySet DEF Total

LEMMA TotalUp ==
  ASSUME NEW D, NEW f \in [D -> Nat], NEW g \in [D -> Nat], NEW x \in D,
         g[x] = f[x] + 1, \A y \in D \ {x} : g[y] = f[y], IsFiniteSet(Units(f))
  PROVE  IsFiniteSet(Units(g)) /\ Total(g) = Total(f) + 1
<1>1. f[x] \in Nat
  OBVIOUS
<1> DEFINE new == <<x, f[x] + 1>>
<1>2. new \notin Units(f)
  BY <1>1, UnitsOf
<1>3. ASSUME NEW u PROVE u \in Units(g) <=> u \in Units(f) \cup {new}
  <2>1. u \in Units(g) <=> \E y \in D, n \in Nat : u = <<y, n>> /\ 1 <= n /\ n <= g[y]
    BY UnitsOf
  <2>2. u \in Units(f) <=> \E y \in D, n \in Nat : u = <<y, n>> /\ 1 <= n /\ n <= f[y]
    BY UnitsOf
  <2>3. ASSUME u \in Units(g) PROVE u \in Units(f) \cup {new}
    <3>1. PICK y \in D, n \in Nat : u = <<y, n>> /\ 1 <= n /\ n <= g[y]
      BY <2>1, <2>3
    <3> QED
      BY <3>1, <2>2, <1>1
  <2>4. ASSUME u \in Units(f) \cup {new} PROVE u \in Units(g)
    <3>1. CASE u = new
      BY <3>1, <2>1, <1>1
    <3>2. CASE u \in Units(f)
      <4>1. PICK y \in D, n \in Nat : u = <<y, n>> /\ 1 <= n /\ n <= f[y]
        BY <2>2, <3>2
      <4>2. f[y] \in Nat /\ n <= g[y]
        BY <4>1, <1>1
      <4> QED
        BY <4>1, <4>2, <2>1
    <3> QED
      BY <3>1, <3>2, <2>4
  <2> QED
    BY <2>3, <2>4
<1>4. Units(g) = Units(f) \cup {new}
  BY <1>3
<1> HIDE DEF new
<1>5. IsFiniteSet(Units(f) \cup {new}) /\ Cardinality(Units(f) \cup {new}) = Cardinality(Units(f)) + 1
  BY <1>2, FS_AddElement
<1> QED
  BY <1>4, <1>5, Zenon DEF Total

LEMMA TotalDown ==
  ASSUME NEW D, NEW f \in [D -> Nat], NEW g \in [D -> Nat], NEW x \in D,
         g[x] = f[x] + 1, \A y \in D \ {x} : g[y] = f[y], IsFiniteSet(Units(g))
  PROVE  IsFiniteSet(Units(f)) /\ Total(g) = Total(f) + 1 /\ Total(f) \in Nat
<1>1. Units(f) \in SUBSET Units(g)
  <2> SUFFICES ASSUME NEW u \in Units(f) PROVE u \in Units(g)
    OBVIOUS
  <2>1. PICK y \in D, n \in Nat : u = <<y, n>> /\ 1 <= n /\ n <= f[y]
    BY UnitsOf
  <2>2. f[y] \in Nat /\ g[y] \in Nat /\ f[y] <= g[y]
    OBVIOUS
  <2>3. n <= g[y]
    BY <2>1, <2>2
  <2> QED
    BY <2>1, <2>3, UnitsOf
<1>2. IsFiniteSet(Units(f))
  BY <1>1, FS_Subset
<1>3. Total(g) = Total(f) + 1
  BY <1>2, TotalUp
<1> QED
  BY <1>2, <1>3, FS_CardinalityType DEF Total

-----------------------------------------------------------------------------
(***************************************************************************)
(* The inductive invariant: what the operation under d.mu holds at each of *)
(* its steps, and who will wake each reader at each stage of fail().       *)
(***************************************************************************)
Attaching ==
  /\ pc = "idle" => transport = Nil /\ previous = Nil
  /\ pc = "checked" => key \in Keys /\ slots[key] = Nil /\ transport = Nil /\ previous = Nil
  /\ pc = "attached" =>
       /\ key \in Keys /\ transport # Nil /\ slots[key] = transport
       /\ previous # Nil =>
            previous # transport /\ vlan[previous] = key /\ (~failed => previous \notin closed)

Made == \A t \in closed \cup reading \cup woken : vlan[t] # Nil

Failing ==
  /\ failed <=> failPc # "alive"
  /\ failPc = "collect" => \A t \in reading : t \in closed \cup late \/ \E k \in Keys : slots[k] = t
  /\ failPc = "close" => reading \subseteq closed \cup late \cup woken
  /\ FailureWakesReaders

Control == TypeOK /\ Attaching /\ Made /\ OpenWhileAttached /\ Failing

Counted ==
  /\ IsFiniteSet(Units(rx)) /\ IsFiniteSet(Units(byTag)) /\ IsFiniteSet(Named)
  /\ FramesAccounted

IInv == Control /\ Counted

LEMMA InitInvariant ==
  ASSUME Constants, Init
  PROVE  IInv
<1>1. Control
  <2>1. TypeOK
    <3>1. /\ frames \in [seen : Nat, delivered : Nat, read : Nat]
          /\ drops \in [untagged : Nat, unapproved : Nat, overrun : Nat]
      BY DEF Init
    <3>2. rx \in [Transports -> 0..Capacity] /\ byTag \in [Tags -> Nat]
      BY DEF Constants, Init
    <3>3. slots \in [Keys -> Transports \cup {Nil}] /\ vlan \in [Transports -> Keys \cup {Nil}]
      BY DEF Init
    <3> QED
      BY <3>1, <3>2, <3>3 DEF Init, TypeOK
  <2>2. Attaching /\ Made /\ OpenWhileAttached
    BY DEF Init, Attaching, Made, OpenWhileAttached
  <2>3. Failing
    BY DEF Init, Failing, FailureWakesReaders
  <2> QED
    BY <2>1, <2>2, <2>3 DEF Control
<1>2. IsFiniteSet(Units(rx)) /\ Total(rx) = 0 /\ IsFiniteSet(Units(byTag)) /\ Total(byTag) = 0
  BY TotalZero DEF Init
<1>3. Named = {}
  BY DEF Init, Named
<1>4. Counted
  BY <1>2, <1>3, FS_EmptySet DEF Constants, Init, Counted, FramesAccounted
<1> QED
  BY <1>1, <1>4 DEF IInv

(* The transports whose start overlaps the failure are never forgotten.     *)
LEMMA InsertControl ==
  ASSUME Constants, Control, NEW k \in Keys, NEW t \in Transports, Insert(k, t),
         pc \in {"idle", "checked"}, key' = k
  PROVE  Control'
<1> USE DEF Control
<1>1. vlan[t] = Nil /\ t \notin closed /\ t \notin reading /\ t \notin woken /\ t # Nil
  BY DEF Insert, Made, Constants
<1>2. \A j \in Keys : slots[j] # t
  BY <1>1 DEF OpenWhileAttached, Constants
<1>3. TypeOK'
  BY DEF Insert, TypeOK, traffic
<1>4. Attaching'
  BY <1>1, <1>2 DEF Insert, Attaching, TypeOK, OpenWhileAttached, Constants
<1>5. Made'
  BY <1>1 DEF Insert, Made, TypeOK, Constants
<1>6. OpenWhileAttached'
  BY <1>1, <1>2 DEF Insert, OpenWhileAttached, Attaching, TypeOK, Constants
<1>7. Failing'
  BY <1>1, <1>2 DEF Insert, Failing, FailureWakesReaders, TypeOK, Constants
<1> QED
  BY <1>3, <1>4, <1>5, <1>6, <1>7

LEMMA ControlStep ==
  ASSUME Constants, Control, [Next]_vars
  PROVE  Control'
<1> USE DEF Control
<1>1. ASSUME NEW k \in Keys, registerChecks(k) PROVE Control'
  BY <1>1 DEF registerChecks, TypeOK, Attaching, Made, OpenWhileAttached, Failing, FailureWakesReaders, failure, traffic
<1>2. ASSUME NEW t \in Transports, registerInserts(t) PROVE Control'
  BY <1>2, InsertControl DEF registerInserts, Attaching
<1>3. ASSUME NEW k \in Keys, NEW t \in Transports, replace(k, t) PROVE Control'
  BY <1>3, InsertControl DEF replace
<1>4. CASE commitStart
  BY <1>4 DEF commitStart, Idle, unregister, TypeOK, Attaching, Made, OpenWhileAttached, Failing, FailureWakesReaders,
              failure, traffic, Constants
<1>5. CASE restore
  BY <1>5 DEF restore, Idle, TypeOK, Attaching, Made, OpenWhileAttached, Failing, FailureWakesReaders,
              failure, traffic, Constants
<1>6. ASSUME NEW k \in Keys, stopSession(k) PROVE Control'
  BY <1>6 DEF stopSession, unregister, TypeOK, Attaching, Made, OpenWhileAttached, Failing, FailureWakesReaders,
              failure, attach, traffic, Constants
<1>7. CASE captureFails
  BY <1>7 DEF captureFails, TypeOK, Attaching, Made, OpenWhileAttached, Failing, FailureWakesReaders,
              attach, traffic, Constants
<1>8. CASE fail
  BY <1>8 DEF fail, failCollects, failCloses, failReturns, TypeOK, Attaching, Made, OpenWhileAttached, Failing,
              FailureWakesReaders, attach, traffic, Constants
<1>9. ASSUME NEW t \in Transports, readerWakes(t) PROVE Control'
  BY <1>9 DEF readerWakes, TypeOK, Attaching, Made, OpenWhileAttached, Failing, FailureWakesReaders,
              failure, attach, traffic
<1>10. CASE UNCHANGED <<slots, vlan, closed, reading, failure, attach>> /\ TypeOK'
  BY <1>10 DEF Attaching, Made, OpenWhileAttached, Failing, FailureWakesReaders, failure, attach
<1>11. ASSUME NEW v \in Tags, dispatchFrame(v) PROVE Control'
  <2>1. frames' \in [seen : Nat, delivered : Nat, read : Nat]
    BY <1>11 DEF dispatchFrame, Count, TypeOK
  <2>2. drops' \in [untagged : Nat, unapproved : Nat, overrun : Nat]
    BY <1>11 DEF dispatchFrame, Count, TypeOK
  <2>3. rx' \in [Transports -> 0..Capacity] /\ byTag' \in [Tags -> Nat]
    BY <1>11 DEF dispatchFrame, Track, TypeOK, Constants
  <2>4. UNCHANGED <<slots, vlan, closed, reading, failure, attach>>
    BY <1>11 DEF dispatchFrame
  <2>5. TypeOK'
    BY <2>1, <2>2, <2>3, <2>4 DEF TypeOK, failure, attach
  <2> QED
    BY <2>4, <2>5, <1>10
<1>12. ASSUME NEW t \in Transports, ReadPacket(t) PROVE Control'
  <2>1. UNCHANGED <<slots, vlan, closed, reading, failure, attach>>
    BY <1>12 DEF ReadPacket
  <2>2. frames' \in [seen : Nat, delivered : Nat, read : Nat] /\ rx' \in [Transports -> 0..Capacity]
    BY <1>12 DEF ReadPacket, Count, TypeOK, Constants
  <2>3. TypeOK'
    BY <1>12, <2>1, <2>2 DEF ReadPacket, TypeOK, failure, attach
  <2> QED
    BY <2>1, <2>3, <1>10
<1>13. CASE UNCHANGED vars
  BY <1>13, <1>10 DEF vars, TypeOK, failure, attach, traffic
<1> QED
  BY <1>1, <1>2, <1>3, <1>4, <1>5, <1>6, <1>7, <1>8, <1>9, <1>11, <1>12, <1>13 DEF Next, Capture

(***************************************************************************)
(* The counters: a frame is delivered to a queue, dropped for one reason,  *)
(* or read from a queue.                                                   *)
(***************************************************************************)
LEMMA NamedStep ==
  ASSUME Constants, TypeOK, NEW v \in Tags, byTag' = Track(v),
         IsFiniteSet(Units(byTag)), IsFiniteSet(Named), Cardinality(Named) <= MaxTracked
  PROVE  /\ IsFiniteSet(Units(byTag))' /\ IsFiniteSet(Named)' /\ Cardinality(Named)' <= MaxTracked
         /\ Total(byTag)' \in {Total(byTag), Total(byTag) + 1}
<1>1. CASE byTag' = byTag
  <2>1. Named' = Named
    BY <1>1 DEF Named
  <2> QED
    BY <1>1, <2>1
<1>2. CASE byTag' = [byTag EXCEPT ![v] = @ + 1] /\ ~(byTag[v] = 0 /\ Cardinality(Named) >= MaxTracked)
  <2>1. byTag \in [Tags -> Nat] /\ byTag' \in [Tags -> Nat] /\ byTag'[v] = byTag[v] + 1
        /\ \A w \in Tags \ {v} : byTag'[w] = byTag[w]
    BY <1>2 DEF TypeOK
  <2>2. IsFiniteSet(Units(byTag')) /\ Total(byTag') = Total(byTag) + 1
    BY <2>1, TotalUp
  <2>3. Named' = Named \cup {v} /\ (v \in Named <=> byTag[v] # 0)
    BY <2>1 DEF Named
  <2>4. Cardinality(Named) \in Nat
    BY FS_CardinalityType
  <2>5. /\ IsFiniteSet(Named \cup {v})
        /\ Cardinality(Named \cup {v}) = IF v \in Named THEN Cardinality(Named) ELSE Cardinality(Named) + 1
    BY FS_AddElement
  <2>6. Cardinality(Named \cup {v}) <= MaxTracked
    BY <1>2, <2>3, <2>4, <2>5 DEF Constants
  <2> QED
    BY <2>2, <2>3, <2>5, <2>6
<1> QED
  BY <1>1, <1>2 DEF Track

LEMMA CountedStep ==
  ASSUME Constants, IInv, Control', [Next]_vars
  PROVE  Counted'
<1>1. /\ TypeOK /\ TypeOK' /\ IsFiniteSet(Units(rx)) /\ IsFiniteSet(Units(byTag)) /\ IsFiniteSet(Named)
      /\ frames.seen = frames.delivered + drops.untagged + drops.unapproved + drops.overrun
      /\ frames.delivered = frames.read + Total(rx)
      /\ Total(byTag) <= drops.unapproved
      /\ Cardinality(Named) <= MaxTracked
  BY DEF IInv, Control, Counted, FramesAccounted
<1>2. Total(rx) \in Nat /\ Total(byTag) \in Nat
  BY <1>1, FS_CardinalityType DEF Total
<1>3. /\ rx \in [Transports -> Nat] /\ rx' \in [Transports -> Nat]
      /\ frames.seen \in Nat /\ frames.delivered \in Nat /\ frames.read \in Nat
      /\ drops.untagged \in Nat /\ drops.unapproved \in Nat /\ drops.overrun \in Nat
  BY <1>1 DEF TypeOK, Constants
<1>4. CASE UNCHANGED <<rx, frames, drops, byTag>>
  <2>1. Named' = Named
    BY <1>4 DEF Named
  <2> QED
    BY <1>1, <1>4, <2>1 DEF Counted, FramesAccounted
<1>5. ASSUME NEW t \in Transports, ReadPacket(t) PROVE Counted'
  <2>1. rx[t] = rx'[t] + 1 /\ \A u \in Transports \ {t} : rx[u] = rx'[u]
    BY <1>3, <1>5 DEF ReadPacket
  <2>2. IsFiniteSet(Units(rx')) /\ Total(rx) = Total(rx') + 1 /\ Total(rx') \in Nat
    BY <1>1, <1>3, <2>1, TotalDown
  <2>3. /\ frames'.seen = frames.seen /\ frames'.delivered = frames.delivered /\ frames'.read = frames.read + 1
        /\ UNCHANGED <<drops, byTag>>
    BY <1>1, <1>5 DEF ReadPacket, Count, TypeOK
  <2>4. Named' = Named
    BY <2>3 DEF Named
  <2> QED
    BY <1>1, <1>2, <1>3, <2>2, <2>3, <2>4 DEF Counted, FramesAccounted
<1>6. ASSUME NEW v \in Tags, dispatchFrame(v) PROVE Counted'
  <2> DEFINE t == IF v \in Keys THEN slots[v] ELSE Nil
  <2>1. t \in Transports \cup {Nil}
    BY <1>1 DEF TypeOK
  <2>2. CASE /\ t # Nil /\ rx' = [rx EXCEPT ![t] = @ + 1]
             /\ frames' = Count(Count(frames, "seen"), "delivered") /\ UNCHANGED <<drops, byTag>>
    <3> HIDE DEF t
    <3>1. /\ t \in Transports
          /\ rx \in [Transports -> Nat] /\ rx' \in [Transports -> Nat] /\ IsFiniteSet(Units(rx))
          /\ rx'[t] = rx[t] + 1 /\ \A u \in Transports \ {t} : rx'[u] = rx[u]
      BY <1>1, <1>3, <2>1, <2>2
    <3>2. IsFiniteSet(Units(rx')) /\ Total(rx') = Total(rx) + 1
      BY <3>1, TotalUp
    <3>3. /\ frames'.seen = frames.seen + 1 /\ frames'.delivered = frames.delivered + 1
          /\ frames'.read = frames.read
      BY <1>1, <2>2 DEF Count, TypeOK
    <3>4. Named' = Named
      BY <2>2 DEF Named
    <3> QED
      BY <1>1, <1>2, <1>3, <2>2, <3>2, <3>3, <3>4 DEF Counted, FramesAccounted
  <2>3. CASE /\ drops' = Count(drops, "overrun") /\ frames' = Count(frames, "seen") /\ UNCHANGED <<rx, byTag>>
    <3>1. /\ frames'.seen = frames.seen + 1 /\ frames'.delivered = frames.delivered /\ frames'.read = frames.read
          /\ drops'.overrun = drops.overrun + 1 /\ drops'.untagged = drops.untagged
          /\ drops'.unapproved = drops.unapproved
      BY <1>1, <2>3 DEF Count, TypeOK
    <3>2. Named' = Named
      BY <2>3 DEF Named
    <3> QED
      BY <1>1, <1>2, <1>3, <2>3, <3>1, <3>2 DEF Counted, FramesAccounted
  <2>4. CASE /\ v = Native /\ drops' = Count(drops, "untagged") /\ frames' = Count(frames, "seen")
             /\ UNCHANGED <<rx, byTag>>
    <3>1. /\ frames'.seen = frames.seen + 1 /\ frames'.delivered = frames.delivered /\ frames'.read = frames.read
          /\ drops'.overrun = drops.overrun /\ drops'.untagged = drops.untagged + 1
          /\ drops'.unapproved = drops.unapproved
      BY <1>1, <2>4 DEF Count, TypeOK
    <3>2. Named' = Named
      BY <2>4 DEF Named
    <3> QED
      BY <1>1, <1>2, <1>3, <2>4, <3>1, <3>2 DEF Counted, FramesAccounted
  <2>5. CASE /\ v # Native /\ drops' = Count(drops, "unapproved") /\ frames' = Count(frames, "seen")
             /\ byTag' = Track(v) /\ UNCHANGED rx
    <3>1. /\ frames'.seen = frames.seen + 1 /\ frames'.delivered = frames.delivered /\ frames'.read = frames.read
          /\ drops'.overrun = drops.overrun /\ drops'.untagged = drops.untagged
          /\ drops'.unapproved = drops.unapproved + 1
      BY <1>1, <2>5 DEF Count, TypeOK
    <3>2. /\ IsFiniteSet(Units(byTag)') /\ IsFiniteSet(Named)' /\ Cardinality(Named)' <= MaxTracked
          /\ Total(byTag)' \in {Total(byTag), Total(byTag) + 1}
      BY <1>1, <2>5, NamedStep
    <3> QED
      BY <1>1, <1>2, <1>3, <2>5, <3>1, <3>2 DEF Counted, FramesAccounted
  <2> QED
    BY <1>6, <2>2, <2>3, <2>4, <2>5 DEF dispatchFrame
<1> QED
  <2>1. CASE UNCHANGED vars
    BY <2>1, <1>4 DEF vars, traffic
  <2>2. CASE captureFails \/ fail
    BY <2>2, <1>4 DEF captureFails, fail, failCollects, failCloses, failReturns, traffic
  <2>3. CASE \E k \in Keys : registerChecks(k) \/ stopSession(k)
    BY <2>3, <1>4 DEF registerChecks, stopSession, traffic
  <2>4. CASE \E u \in Transports : registerInserts(u) \/ readerWakes(u) \/ \E k \in Keys : replace(k, u)
    BY <2>4, <1>4 DEF registerInserts, replace, Insert, readerWakes, traffic
  <2>5. CASE commitStart \/ restore
    BY <2>5, <1>4 DEF commitStart, restore, traffic
  <2> QED
    BY <2>1, <2>2, <2>3, <2>4, <2>5, <1>5, <1>6 DEF Next, Capture

LEMMA StepInvariant ==
  ASSUME Constants
  PROVE  IInv /\ [Next]_vars => IInv'
  BY ControlStep, CountedStep DEF IInv

(* For any VLANs, transports and bounds: every frame the capture saw is       *)
(* counted once, a transport is open exactly while a session holds it, and    *)
(* fail() leaves no reader asleep but those whose start overlapped it,        *)
(* however attaching, replacing, rolling back, dispatching and failing        *)
(* interleave.                                                                *)
THEOREM TrunkIsSound ==
  ASSUME Constants
  PROVE  Spec => []TrunkSound
<1>1. Init => IInv
  BY InitInvariant
<1>2. IInv /\ [Next]_vars => IInv'
  BY StepInvariant
<1>3. IInv => TrunkSound
  BY DEF IInv, Control, Counted, Failing, TrunkSound
<1> QED
  BY <1>1, <1>2, <1>3, PTL DEF Spec
=============================================================================
