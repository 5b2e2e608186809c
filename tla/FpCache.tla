------------------------------ MODULE FpCache ------------------------------
(***************************************************************************)
(* The master's cache of output file pointers (fp_cache.c): an array of    *)
(* CACHE_SIZE entries, the most recently used first, entries in use before *)
(* empty ones.  An entry with fp==NULL is NoFile; one in use is its file   *)
(* name.  opened[f] counts the FILE streams open on f, cached or leaked.   *)
(***************************************************************************)
EXTENDS Integers, FiniteSets

CONSTANTS Files, NoFile, CACHE_SIZE

ASSUME CacheAssumption == CACHE_SIZE \in Nat \ {0}
ASSUME NoFileAssumption == NoFile \notin Files

VARIABLES
    cache,      \* "null", "live", or "freed" once remove_fp_cache has run
    slot,       \* the array: slot[i] is entry i
    opened      \* number of open streams on each file

vars == <<cache, slot, opened>>

Slots == 0 .. CACHE_SIZE - 1
-----------------------------------------------------------------------------
Init == /\ cache = "null"
        /\ slot = [i \in Slots |-> NoFile]
        /\ opened = [f \in Files |-> 0]

(* find_fp: the first entry with this name, looking no further than the     *)
(* first empty one.  At most one index qualifies; none is the result -1.    *)
Found(f, k) == /\ slot[k] = f
               /\ \A j \in 0 .. k - 1 : slot[j] \notin {NoFile, f}
NotFound(f) == \A k \in Slots : ~Found(f, k)

(* find_and_use_fp, the name is not cached: the last entry is closed if it   *)
(* is in use, all move down by one, the new stream goes to entry 0           *)
UseMiss(f) == /\ NotFound(f)
              /\ slot' = [i \in Slots |-> IF i = 0 THEN f ELSE slot[i - 1]]
              /\ opened' = [g \in Files |->
                    opened[g] + (IF g = f THEN 1 ELSE 0)
                              - (IF g = slot[CACHE_SIZE - 1] THEN 1 ELSE 0)]

(* find_and_use_fp, found at index k: entries before it move down by one    *)
UseHit_NoShift(f) == \E k \in Slots :
    /\ Found(f, k)
    /\ slot' = [slot EXCEPT ![0] = f, ![k] = slot[0]]
    /\ UNCHANGED opened

UseHit_ShiftAll(f) == \E k \in Slots :
    /\ Found(f, k)
    /\ slot' = [i \in Slots |-> IF i = 0 THEN f ELSE slot[i - 1]]
    /\ UNCHANGED opened

UseHit(f) == \E k \in Slots :
    /\ Found(f, k)
    /\ slot' = [i \in Slots |-> IF i = 0 THEN f ELSE IF i <= k THEN slot[i - 1] ELSE slot[i]]
    /\ UNCHANGED opened

find_and_use_fp(f) == /\ cache # "freed"
                      /\ cache' = "live"
                      /\ UseMiss(f) \/ UseHit(f)

(* fsync_and_close: nothing for a name already purged; otherwise the entry   *)
(* is closed and those after it, up to the first empty one, move up          *)
FirstEmptyAfter(k, m) == /\ m \in k + 1 .. CACHE_SIZE
                         /\ m < CACHE_SIZE => slot[m] = NoFile
                         /\ \A j \in k + 1 .. m - 1 : slot[j] # NoFile

CloseFound_Hole(f) == \E k \in Slots :
    /\ Found(f, k)
    /\ slot' = [slot EXCEPT ![k] = NoFile]
    /\ opened' = [opened EXCEPT ![f] = @ - 1]

CloseFound(f) == \E k \in Slots, m \in 1 .. CACHE_SIZE :
    /\ Found(f, k)
    /\ FirstEmptyAfter(k, m)
    /\ slot' = [i \in Slots |-> IF i = m - 1 THEN NoFile
                                ELSE IF i \in k .. m - 2 THEN slot[i + 1] ELSE slot[i]]
    /\ opened' = [opened EXCEPT ![f] = @ - 1]

fsync_and_close(f) == /\ cache = "live"
                      /\ \/ CloseFound(f)
                         \/ NotFound(f) /\ UNCHANGED <<slot, opened>>
                      /\ UNCHANGED cache

(* remove_fp_cache: closes the entries before the first empty one and frees *)
(* the array; nothing is done when no file was ever written                 *)
BeforeEmpty == {i \in Slots : \A j \in 0 .. i : slot[j] # NoFile}

remove_fp_cache == /\ cache # "freed"
                   /\ IF cache = "null"
                      THEN UNCHANGED <<slot, opened>>
                      ELSE /\ opened' = [f \in Files |->
                                opened[f] - Cardinality({i \in BeforeEmpty : slot[i] = f})]
                           /\ slot' = [i \in Slots |-> NoFile]
                   /\ cache' = "freed"
-----------------------------------------------------------------------------
Next == \/ \E f \in Files : find_and_use_fp(f) \/ fsync_and_close(f)
        \/ remove_fp_cache

Spec == Init /\ [][Next]_vars
-----------------------------------------------------------------------------
TypeOK == /\ cache \in {"null", "live", "freed"}
          /\ slot \in [Slots -> Files \cup {NoFile}]
          /\ opened \in [Files -> 0 .. 1]

(* "All the ones after this won't be active, either" (fp_cache.c:101): the  *)
(* searches stop at the first empty entry, so an entry in use behind one    *)
(* would be lost, and its file opened a second time.                        *)
Compact == \A i, j \in Slots : i < j /\ slot[i] = NoFile => slot[j] = NoFile

(* No file has two entries. *)
NoDuplicates == \A i, j \in Slots : slot[i] = slot[j] /\ slot[i] # NoFile => i = j

(* Exactly the cached files have an open stream, and each has one: a second *)
(* stream would write at a stale position, a leaked one lose its buffer.    *)
OneStreamEach == \A f \in Files :
    opened[f] = IF \E i \in Slots : slot[i] = f THEN 1 ELSE 0

(* The array implements the least-recently-used list.  A freed array holds  *)
(* nothing.                                                                 *)
Used == Cardinality({i \in Slots : slot[i] # NoFile})
Lru == INSTANCE LruFiles WITH
           CacheSize <- CACHE_SIZE,
           recent <- [n \in 1 .. Used |-> slot[n - 1]]
LruSpec == Lru!lruSpec
=============================================================================
