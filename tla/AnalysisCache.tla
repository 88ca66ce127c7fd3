---------------------------- MODULE AnalysisCache ---------------------------
(***************************************************************************)
(* The cache of capture analyses (internal/api/capture/cache.go), bounded  *)
(* by a number of entries and their estimated memory.  Every call holds    *)
(* the cache's lock, so each is one step.                                  *)
(***************************************************************************)
EXTENDS Naturals, FiniteSets, FiniteSetsExt

CONSTANTS
  Ids,
  Sizes,       \* estimated sizes of results
  MaxEntries,  \* maxCacheEntries
  MaxMemory,   \* maxCacheMemory
  MaxSets      \* bound on calls of Set

VARIABLES
  entries,     \* id -> [size, at]; at = 0 when there is none
  currentMem,
  clock        \* calls of Set so far: the order of addedAt

vars == <<entries, currentMem, clock>>

None == [size |-> 0, at |-> 0]

Present(es) == {i \in Ids : es[i] # None}

Init ==
  /\ entries = [i \in Ids |-> None]
  /\ currentMem = 0
  /\ clock = 0

oldest(es) == CHOOSE i \in Present(es) : \A j \in Present(es) : es[i].at =< es[j].at

RECURSIVE evict(_, _, _)
(* Evict the oldest until the new size fits, or nothing is left.             *)
evict(es, mem, size) ==
  IF (Cardinality(Present(es)) >= MaxEntries \/ mem + size > MaxMemory) /\ Present(es) # {}
    THEN LET i == oldest(es) IN evict([es EXCEPT ![i] = None], mem - es[i].size, size)
    ELSE [entries |-> es, mem |-> mem]

(* A mutant of Set that does not take out the entry it replaces. *)
SetKeepsReplaced(i, size) ==
  /\ clock < MaxSets
  /\ size =< MaxMemory
  /\ LET kept == evict(entries, currentMem, size)
     IN  /\ entries' = [kept.entries EXCEPT ![i] = [size |-> size, at |-> clock + 1]]
         /\ currentMem' = kept.mem + size
  /\ clock' = clock + 1

(* Set: a result larger than the cache is not stored, and leaves what is     *)
(* there under its id.                                                       *)
Set(i, size) ==
  /\ clock < MaxSets
  /\ IF size > MaxMemory
       THEN UNCHANGED <<entries, currentMem>>
       ELSE LET kept == evict([entries EXCEPT ![i] = None], currentMem - entries[i].size, size)
            IN  /\ entries' = [kept.entries EXCEPT ![i] = [size |-> size, at |-> clock + 1]]
                /\ currentMem' = kept.mem + size
  /\ clock' = clock + 1

Next == \E i \in Ids, size \in Sizes : Set(i, size)

Spec == Init /\ [][Next]_vars

TypeOK ==
  /\ entries \in [Ids -> [size : Sizes \cup {0}, at : 0 .. MaxSets]]
  /\ currentMem \in Nat

(* The cache's books are right: the memory it accounts for is the sum of its *)
(* entries and within the limit, and so is their number.                     *)
CacheWithinLimits ==
  /\ currentMem = MapThenSumSet(LAMBDA i : entries[i].size, Ids)
  /\ currentMem =< MaxMemory
  /\ Cardinality(Present(entries)) =< MaxEntries
=============================================================================
