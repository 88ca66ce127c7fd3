----------------------------- MODULE CaptureRing ----------------------------
(***************************************************************************)
(* The ring of recent frames a session keeps for export                    *)
(* (internal/capturering): a circular buffer bounded by a number of frames *)
(* and a number of bytes.  A frame is its size; contents and annotations   *)
(* are stored and exported as they are.                                    *)
(***************************************************************************)
EXTENDS Naturals, Sequences, SequencesExt

CONSTANTS
  Frames,     \* Limits.Frames
  Bytes,      \* Limits.Bytes
  Sizes,      \* frame sizes
  MaxPackets  \* bound on the packets observed

VARIABLES
  frames,  \* Ring.frames: slot -> frame size, 0 when empty
  head, count, bytes,
  seen     \* the sizes of all frames observed, in order

vars == <<frames, head, count, bytes, seen>>

Ring == [frames |-> frames, head |-> head, count |-> count, bytes |-> bytes]

Init ==
  /\ frames = [i \in 0 .. Frames - 1 |-> 0]
  /\ head = 0
  /\ count = 0
  /\ bytes = 0
  /\ seen = <<>>

dropOldestLocked(r) ==
  [frames |-> [r.frames EXCEPT ![r.head] = 0],
   head   |-> (r.head + 1) % Frames,
   count  |-> r.count - 1,
   bytes  |-> r.bytes - r.frames[r.head]]

store(r, size) ==
  [r EXCEPT !.frames[(r.head + r.count) % Frames] = size,
            !.count = @ + 1, !.bytes = @ + size]

RECURSIVE trim(_)
(* The byte budget: the oldest go until the rest fits or one is left. *)
trim(r) == IF r.bytes > Bytes /\ r.count > 1 THEN trim(dropOldestLocked(r)) ELSE r

(* A mutant of OnPacket that makes room only by the byte budget. *)
ForgetsFrameLimit(size) ==
  /\ Len(seen) < MaxPackets
  /\ LET r == trim(store(Ring, size))
     IN  /\ frames' = r.frames /\ head' = r.head
         /\ count' = r.count /\ bytes' = r.bytes
  /\ seen' = Append(seen, size)

(* OnPacket: an empty frame is ignored. *)
OnPacket(size) ==
  /\ size > 0
  /\ Len(seen) < MaxPackets
  /\ LET r == trim(store(IF count = Frames THEN dropOldestLocked(Ring) ELSE Ring, size))
     IN  /\ frames' = r.frames /\ head' = r.head
         /\ count' = r.count /\ bytes' = r.bytes
  /\ seen' = Append(seen, size)

(* Snapshot: the newest last frames, or all of them for 0, oldest first.     *)
Snapshot(last) ==
  LET take == IF last > 0 /\ last < count THEN last ELSE count
  IN  [i \in 1 .. take |-> frames[(head + count - take + (i - 1)) % Frames]]

Next == \E size \in Sizes : OnPacket(size)

Spec == Init /\ [][Next]_vars

TypeOK ==
  /\ frames \in [0 .. Frames - 1 -> Sizes \cup {0}]
  /\ head \in 0 .. Frames - 1
  /\ count \in 0 .. Frames

Newest(k) == SubSeq(seen, Len(seen) - k + 1, Len(seen))

Total(s) == FoldSeq(+, 0, s)

(* The export is a capture without holes: Snapshot gives the newest frames   *)
(* in order, and the ring keeps as many as its two limits allow, at least    *)
(* one, however large and small frames followed each other.                  *)
RingIsLongestSuffix ==
  /\ \A last \in 0 .. Frames :
       Snapshot(last) = Newest(IF last > 0 /\ last < count THEN last ELSE count)
  /\ bytes = Total(Snapshot(0))
  /\ seen # <<>> => /\ count >= 1
                    /\ count > 1 => bytes <= Bytes
                    /\ \/ count = Len(seen)
                       \/ count = Frames
                       \/ Total(Newest(count + 1)) > Bytes
=============================================================================
