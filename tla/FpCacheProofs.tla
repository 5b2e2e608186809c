---------------------------- MODULE FpCacheProofs ----------------------------
(***************************************************************************)
(* Proofs about FpCache for every set of files and every CACHE_SIZE: the   *)
(* array stays compact and without duplicates, and exactly the cached      *)
(* files have a stream, one each.  The three hold together: that a search  *)
(* stopping at the first empty entry misses nothing needs compactness, that*)
(* a miss opens no second stream needs the search.  From them follows that *)
(* the array implements LruFiles.                                          *)
(***************************************************************************)
EXTENDS FpCache, FiniteSetTheorems, SequenceTheorems, WellFoundedInduction, TLAPS

IInv == TypeOK /\ Compact /\ NoDuplicates /\ OneStreamEach

(* find_fp is exact: it finds a file if and only if some entry holds it. *)
LEMMA FindExact ==
    ASSUME IInv, NEW f \in Files
    PROVE  /\ \A k \in Slots : Found(f, k) <=> slot[k] = f
           /\ NotFound(f) <=> \A k \in Slots : slot[k] # f
<1>1. ASSUME NEW k \in Slots, slot[k] = f, NEW j \in 0 .. k - 1
      PROVE  slot[j] \notin {NoFile, f}
  BY <1>1, CacheAssumption, NoFileAssumption DEF IInv, Compact, NoDuplicates, Slots
<1>2. \A k \in Slots : Found(f, k) <=> slot[k] = f
  BY <1>1 DEF Found
<1>3. QED
  BY <1>2 DEF NotFound

LEMMA InitIInv == Init => IInv
  BY NoFileAssumption, CacheAssumption
  DEF Init, IInv, TypeOK, Compact, NoDuplicates, OneStreamEach, Slots

LEMMA MissStep ==
    ASSUME IInv, NEW f \in Files, find_and_use_fp(f), UseMiss(f)
    PROVE  IInv'
<1> USE CacheAssumption, NoFileAssumption
<1>1. \A k \in Slots : slot[k] # f
  BY FindExact DEF UseMiss
<1>2. /\ slot' \in [Slots -> Files \cup {NoFile}]
      /\ slot'[0] = f
      /\ \A i \in Slots \ {0} : i - 1 \in Slots /\ slot'[i] = slot[i - 1]
      /\ CACHE_SIZE - 1 \in Slots /\ 0 \in Slots
  BY DEF UseMiss, IInv, TypeOK, Slots
<1>3. Compact'
  <2> SUFFICES ASSUME NEW i \in Slots, NEW j \in Slots, slot'[i] = NoFile, i < j
               PROVE  slot'[j] = NoFile
    BY DEF Compact
  <2>1. i # 0 /\ j # 0
    BY <1>2 DEF Slots
  <2>2. slot[i - 1] = NoFile /\ i - 1 \in Slots /\ j - 1 \in Slots /\ i - 1 < j - 1
    BY <1>2, <2>1 DEF Slots
  <2> QED BY <1>2, <2>1, <2>2 DEF IInv, Compact
<1>4. NoDuplicates'
  BY <1>1, <1>2 DEF IInv, NoDuplicates, Slots
<1>5. ASSUME NEW g \in Files
      PROVE  opened'[g] = IF \E i \in Slots : slot'[i] = g THEN 1 ELSE 0
  <2>1. opened'[g] = opened[g] + (IF g = f THEN 1 ELSE 0)
                               - (IF g = slot[CACHE_SIZE - 1] THEN 1 ELSE 0)
    BY DEF UseMiss
  <2>2. opened[g] = IF \E i \in Slots : slot[i] = g THEN 1 ELSE 0
    BY DEF IInv, OneStreamEach
  <2>3. CASE g = f
    BY <1>1, <1>2, <2>1, <2>2, <2>3
  <2>4. CASE g # f /\ g = slot[CACHE_SIZE - 1]
    <3>1. \A i \in Slots : slot'[i] # g
      BY <1>2, <2>4 DEF IInv, NoDuplicates, Slots
    <3>2. QED
      BY <1>2, <2>1, <2>2, <2>4, <3>1
  <2>5. CASE g # f /\ g # slot[CACHE_SIZE - 1]
    <3>1. ASSUME NEW i \in Slots, slot[i] = g PROVE \E j \in Slots : slot'[j] = g
      <4>1. i + 1 \in Slots \ {0} /\ (i + 1) - 1 = i
        BY <2>5, <3>1 DEF Slots
      <4>2. QED
        BY <1>2, <3>1, <4>1
    <3>2. ASSUME NEW j \in Slots, slot'[j] = g PROVE \E i \in Slots : slot[i] = g
      BY <1>2, <2>5, <3>2
    <3>3. QED
      BY <2>1, <2>2, <2>5, <3>1, <3>2
  <2>6. QED
    BY <2>3, <2>4, <2>5
<1>6. OneStreamEach'
  BY <1>5 DEF OneStreamEach
<1>7. TypeOK'
  <2>1. opened' \in [Files -> 0 .. 1]
    BY <1>5 DEF UseMiss
  <2>2. QED
    BY <1>2, <2>1 DEF TypeOK, find_and_use_fp
<1>8. QED
  BY <1>3, <1>4, <1>6, <1>7 DEF IInv

LEMMA HitStep ==
    ASSUME IInv, NEW f \in Files, find_and_use_fp(f), UseHit(f)
    PROVE  IInv'
<1> USE CacheAssumption, NoFileAssumption
<1>1. PICK k \in Slots : /\ slot[k] = f
                         /\ slot' = [i \in Slots |-> IF i = 0 THEN f
                                        ELSE IF i <= k THEN slot[i - 1] ELSE slot[i]]
                         /\ UNCHANGED opened
  BY DEF UseHit, Found
<1>2. /\ slot' \in [Slots -> Files \cup {NoFile}]
      /\ slot'[0] = f
      /\ \A i \in Slots : i # 0 /\ i <= k => i - 1 \in Slots /\ slot'[i] = slot[i - 1]
      /\ \A i \in Slots : i > k => slot'[i] = slot[i]
      /\ 0 \in Slots
  BY <1>1 DEF IInv, TypeOK, Slots
<1>3. Compact'
  BY <1>1, <1>2 DEF IInv, Compact, Slots
<1>4. NoDuplicates'
  BY <1>1, <1>2 DEF IInv, NoDuplicates, Slots
<1>5. ASSUME NEW g \in Files
      PROVE  (\E i \in Slots : slot'[i] = g) <=> (\E i \in Slots : slot[i] = g)
  <2>1. ASSUME NEW i \in Slots, slot[i] = g PROVE \E j \in Slots : slot'[j] = g
    <3>1. CASE i = k
      BY <1>1, <1>2, <2>1, <3>1
    <3>2. CASE i > k
      BY <1>2, <2>1, <3>2
    <3>3. CASE i < k
      <4>1. i + 1 \in Slots /\ i + 1 # 0 /\ i + 1 <= k /\ (i + 1) - 1 = i
        BY <3>3 DEF Slots
      <4>2. QED
        BY <1>2, <2>1, <4>1
    <3>4. QED
      BY <3>1, <3>2, <3>3 DEF Slots
  <2>2. ASSUME NEW j \in Slots, slot'[j] = g PROVE \E i \in Slots : slot[i] = g
    <3>1. j = 0 \/ (j # 0 /\ j <= k) \/ j > k
      BY DEF Slots
    <3>2. QED
      BY <1>1, <1>2, <2>2, <3>1
  <2>3. QED
    BY <2>1, <2>2
<1>6. OneStreamEach'
  BY <1>1, <1>5 DEF IInv, OneStreamEach
<1>7. TypeOK'
  BY <1>1, <1>2 DEF IInv, TypeOK, find_and_use_fp
<1>8. QED
  BY <1>3, <1>4, <1>6, <1>7 DEF IInv

LEMMA CloseStep ==
    ASSUME IInv, NEW f \in Files, fsync_and_close(f), CloseFound(f)
    PROVE  IInv'
<1> USE CacheAssumption, NoFileAssumption
<1>1. PICK k \in Slots, m \in 1 .. CACHE_SIZE :
          /\ slot[k] = f
          /\ FirstEmptyAfter(k, m)
          /\ slot' = [i \in Slots |-> IF i = m - 1 THEN NoFile
                                      ELSE IF i \in k .. m - 2 THEN slot[i + 1] ELSE slot[i]]
          /\ opened' = [opened EXCEPT ![f] = @ - 1]
  BY DEF CloseFound, Found
<1>2. /\ k < m
      /\ \A i \in Slots : k <= i /\ i < m - 1 => i + 1 \in Slots /\ slot'[i] = slot[i + 1]
      /\ \A i \in Slots : i < k => slot'[i] = slot[i]
      /\ \A i \in Slots : i >= m => slot[i] = NoFile /\ slot'[i] = NoFile
      /\ slot'[m - 1] = NoFile /\ m - 1 \in Slots
      /\ \A i \in Slots : i < m => slot[i] # NoFile
  <2>1. k < m /\ m - 1 \in Slots
    BY <1>1 DEF FirstEmptyAfter, Slots
  <2>2. \A i \in Slots : i >= m => slot[i] = NoFile
    BY <1>1 DEF FirstEmptyAfter, IInv, Compact, Slots
  <2>3. \A i \in Slots : i < m => slot[i] # NoFile
    BY <1>1, <2>1 DEF FirstEmptyAfter, IInv, Compact, Slots
  <2>4. QED
    BY <1>1, <2>1, <2>2, <2>3 DEF Slots
<1>3. slot' \in [Slots -> Files \cup {NoFile}]
  BY <1>1 DEF IInv, TypeOK, Slots
<1>4. \A i \in Slots : slot'[i] = NoFile <=> i >= m - 1
  BY <1>1, <1>2 DEF Slots
<1>5. Compact'
  BY <1>4 DEF Compact, Slots
<1>6. NoDuplicates'
  BY <1>1, <1>2 DEF IInv, NoDuplicates, Slots
<1>7. \A i \in Slots : slot'[i] # f
  BY <1>1, <1>2 DEF IInv, NoDuplicates, Slots
<1>8. ASSUME NEW g \in Files, g # f
      PROVE  (\E i \in Slots : slot'[i] = g) <=> (\E i \in Slots : slot[i] = g)
  <2>1. ASSUME NEW i \in Slots, slot[i] = g PROVE \E j \in Slots : slot'[j] = g
    <3>1. CASE i < k
      BY <1>2, <2>1, <3>1
    <3>2. CASE i > k
      <4>1. i < m /\ i - 1 \in Slots /\ k <= i - 1 /\ i - 1 < m - 1 /\ (i - 1) + 1 = i
        BY <1>1, <1>2, <2>1, <3>2 DEF Slots
      <4>2. QED
        BY <1>2, <2>1, <4>1
    <3>3. i # k
      BY <1>1, <1>8, <2>1
    <3>4. QED
      BY <3>1, <3>2, <3>3 DEF Slots
  <2>2. ASSUME NEW j \in Slots, slot'[j] = g PROVE \E i \in Slots : slot[i] = g
    <3>1. j < k \/ (k <= j /\ j < m - 1)
      BY <1>4, <2>2 DEF Slots
    <3>2. QED
      BY <1>2, <2>2, <3>1
  <2>3. QED
    BY <2>1, <2>2
<1>9. OneStreamEach'
  BY <1>1, <1>7, <1>8 DEF IInv, OneStreamEach, TypeOK
<1>10. TypeOK'
  <2>1. opened[f] = 1
    BY <1>1 DEF IInv, OneStreamEach
  <2>2. opened' \in [Files -> 0 .. 1]
    BY <1>1, <2>1 DEF IInv, TypeOK
  <2>3. QED
    BY <1>3, <2>2 DEF IInv, TypeOK, fsync_and_close
<1>11. QED
  BY <1>5, <1>6, <1>9, <1>10 DEF IInv

LEMMA RemoveStep ==
    ASSUME IInv, remove_fp_cache
    PROVE  IInv'
<1> USE CacheAssumption, NoFileAssumption
<1>1. CASE cache = "null"
  BY <1>1 DEF remove_fp_cache, IInv, TypeOK, Compact, NoDuplicates, OneStreamEach
<1>2. CASE cache # "null"
  <2>1. /\ slot' = [i \in Slots |-> NoFile]
        /\ opened' = [f \in Files |->
                        opened[f] - Cardinality({i \in BeforeEmpty : slot[i] = f})]
    BY <1>2 DEF remove_fp_cache
  <2>2. \A i \in Slots : slot[i] # NoFile => i \in BeforeEmpty
    BY DEF IInv, Compact, BeforeEmpty, Slots
  <2>3. ASSUME NEW f \in Files PROVE opened'[f] = 0
    <3> DEFINE S == {i \in BeforeEmpty : slot[i] = f}
    <3>1. CASE \E i \in Slots : slot[i] = f
      <4>1. PICK i \in Slots : slot[i] = f
        BY <3>1
      <4>2. S = {i}
        BY <2>2, <4>1 DEF IInv, NoDuplicates, BeforeEmpty
      <4>3. Cardinality(S) = 1
        BY <4>2, FS_Singleton
      <4>4. QED
        BY <2>1, <3>1, <4>3 DEF IInv, OneStreamEach
    <3>2. CASE ~\E i \in Slots : slot[i] = f
      <4>1. S = {}
        BY <3>2 DEF BeforeEmpty
      <4>2. Cardinality(S) = 0
        BY <4>1, FS_EmptySet
      <4>3. QED
        BY <2>1, <3>2, <4>2 DEF IInv, OneStreamEach
    <3>3. QED
      BY <3>1, <3>2
  <2>4. opened' \in [Files -> 0 .. 1]
    BY <2>1, <2>3
  <2>5. \A f \in Files, i \in Slots : slot'[i] # f
    BY <2>1
  <2>6. TypeOK' /\ Compact' /\ NoDuplicates'
    BY <2>1, <2>4 DEF TypeOK, Compact, NoDuplicates, remove_fp_cache
  <2>7. OneStreamEach'
    BY <2>3, <2>5 DEF OneStreamEach
  <2>8. QED
    BY <2>6, <2>7 DEF IInv
<1>3. QED
  BY <1>1, <1>2

LEMMA StepIInv == IInv /\ [Next]_vars => IInv'
<1> SUFFICES ASSUME IInv, [Next]_vars PROVE IInv'
  OBVIOUS
<1>1. ASSUME NEW f \in Files, find_and_use_fp(f) PROVE IInv'
  BY <1>1, MissStep, HitStep DEF find_and_use_fp
<1>2. ASSUME NEW f \in Files, fsync_and_close(f) PROVE IInv'
  <2>1. CASE CloseFound(f)
    BY <1>2, <2>1, CloseStep
  <2>2. CASE UNCHANGED vars
    BY <2>2 DEF vars, IInv, TypeOK, Compact, NoDuplicates, OneStreamEach
  <2>3. QED
    BY <1>2, <2>1, <2>2 DEF fsync_and_close, vars
<1>3. CASE UNCHANGED vars
  BY <1>3 DEF vars, IInv, TypeOK, Compact, NoDuplicates, OneStreamEach
<1>4. QED
  BY <1>1, <1>2, <1>3, RemoveStep DEF Next

(* The three parts of the invariant hold after any calls of fp_cache.c, in  *)
(* any order.                                                               *)
THEOREM CacheInvariant == Spec => []IInv
  BY InitIInv, StepIInv, PTL DEF Spec

(* No entry in use ever lies behind an empty one, for any CACHE_SIZE. *)
THEOREM CacheCompact == Spec => []Compact
<1>1. IInv => Compact
  BY DEF IInv
<1>2. QED
  BY <1>1, CacheInvariant, PTL

(* Whatever files are used and closed in whatever order, exactly the cached *)
(* ones have an open stream, and each has one.                              *)
THEOREM OneStreamPerFile == Spec => []OneStreamEach
<1>1. IInv => OneStreamEach
  BY DEF IInv
<1>2. QED
  BY <1>1, CacheInvariant, PTL
-----------------------------------------------------------------------------
(* Refinement: the entries in use, from the first on, are the list of the    *)
(* files used most recently.                                                 *)
Size(s) == Cardinality({i \in Slots : s[i] # NoFile})
ListOf(s) == [n \in 1 .. Size(s) |-> s[n - 1]]

Arrays == {s \in [Slots -> Files \cup {NoFile}] :
               \A i, j \in Slots : i < j /\ s[i] = NoFile => s[j] = NoFile}

(* Entries in use that come first are as many as the place of the first      *)
(* empty one.                                                                *)
LEMMA PrefixSize ==
    ASSUME NEW s, NEW n \in 0 .. CACHE_SIZE, \A i \in Slots : s[i] # NoFile <=> i < n
    PROVE  Size(s) = n
<1>1. {i \in Slots : s[i] # NoFile} = 0 .. n - 1
  BY CacheAssumption DEF Slots
<1>2. Cardinality(0 .. n - 1) = n
  BY CacheAssumption, FS_Interval
<1>3. QED
  BY <1>1, <1>2 DEF Size

LEMMA UsedFirst ==
    ASSUME NEW s \in Arrays
    PROVE  Size(s) \in 0 .. CACHE_SIZE /\ \A i \in Slots : s[i] # NoFile <=> i < Size(s)
<1> USE CacheAssumption
<1> DEFINE empty == {i \in Slots : s[i] = NoFile}
<1>1. PICK n \in 0 .. CACHE_SIZE : \A i \in Slots : s[i] # NoFile <=> i < n
  <2>1. CASE empty = {}
    BY <2>1 DEF Slots
  <2>2. CASE empty # {}
    <3>1. empty \subseteq Nat
      BY DEF Slots
    <3>2. PICK n \in empty : \A i \in empty : ~(<<i, n>> \in OpToRel(<, Nat))
      BY <2>2, <3>1, NatLessThanWellFounded, WFMin
    <3>3. ASSUME NEW i \in Slots, i < n PROVE s[i] # NoFile
      <4>1. i \in empty => <<i, n>> \in OpToRel(<, Nat)
        BY <3>1, <3>3 DEF OpToRel
      <4>2. QED
        BY <3>2, <4>1
    <3>4. ASSUME NEW i \in Slots, n <= i PROVE s[i] = NoFile
      BY <3>4 DEF Arrays, Slots
    <3>5. n \in 0 .. CACHE_SIZE
      BY DEF Slots
    <3>6. QED
      BY <3>3, <3>4, <3>5 DEF Slots
  <2>3. QED
    BY <2>1, <2>2
<1>2. Size(s) = n
  BY <1>1, PrefixSize
<1>3. QED
  BY <1>1, <1>2

LEMMA ListFacts ==
    ASSUME NEW s \in Arrays
    PROVE  /\ ListOf(s) \in Seq(Files) /\ Len(ListOf(s)) = Size(s)
           /\ \A n \in 1 .. Size(s) : n - 1 \in Slots /\ ListOf(s)[n] = s[n - 1]
<1>1. Size(s) \in 0 .. CACHE_SIZE /\ \A i \in Slots : s[i] # NoFile <=> i < Size(s)
  BY UsedFirst
<1>2. \A n \in 1 .. Size(s) : n - 1 \in Slots /\ s[n - 1] \in Files
  BY <1>1, CacheAssumption DEF Arrays, Slots
<1>3. ListOf(s) \in Seq(Files) /\ Len(ListOf(s)) = Size(s)
  BY <1>1, <1>2, CacheAssumption DEF ListOf
<1>4. QED
  BY <1>1, <1>2, <1>3 DEF ListOf

LEMMA RemoveAtFacts ==
    ASSUME NEW s \in Seq(Files), NEW p \in 1 .. Len(s)
    PROVE  /\ Lru!RemoveAt(s, p) \in Seq(Files)
           /\ Len(Lru!RemoveAt(s, p)) = Len(s) - 1
           /\ \A i \in 1 .. Len(s) - 1 :
                  Lru!RemoveAt(s, p)[i] = IF i < p THEN s[i] ELSE s[i + 1]
<1> DEFINE a == SubSeq(s, 1, p - 1)
           b == SubSeq(s, p + 1, Len(s))
<1>1. a \in Seq(Files) /\ Len(a) = p - 1 /\ \A i \in 1 .. p - 1 : a[i] = s[i]
  BY SubSeqProperties
<1>2. /\ b \in Seq(Files) /\ Len(b) = Len(s) - p
      /\ \A i \in 1 .. Len(s) - p : b[i] = s[p + i]
  BY SubSeqProperties
<1>3. Lru!RemoveAt(s, p) = a \o b
  BY DEF Lru!RemoveAt
<1> HIDE DEF a, b
<1>4. /\ a \o b \in Seq(Files) /\ Len(a \o b) = Len(s) - 1
      /\ \A i \in 1 .. Len(s) - 1 : (a \o b)[i] = IF i <= p - 1 THEN a[i] ELSE b[i - (p - 1)]
  BY <1>1, <1>2, ConcatProperties
<1>5. ASSUME NEW i \in 1 .. Len(s) - 1 PROVE (a \o b)[i] = IF i < p THEN s[i] ELSE s[i + 1]
  <2>1. CASE i < p
    BY <1>1, <1>4, <2>1
  <2>2. CASE ~(i < p)
    <3>1. i - (p - 1) \in 1 .. Len(s) - p /\ p + (i - (p - 1)) = i + 1
      BY <2>2
    <3>2. (a \o b)[i] = b[i - (p - 1)]
      BY <1>4, <2>2
    <3>3. b[i - (p - 1)] = s[p + (i - (p - 1))]
      BY <1>2, <3>1
    <3>4. s[p + (i - (p - 1))] = s[i + 1]
      BY <3>1
    <3>5. QED
      BY <2>2, <3>2, <3>3, <3>4
  <2>3. QED
    BY <2>1, <2>2
<1>6. QED
  BY <1>3, <1>4, <1>5

LEMMA PushFacts ==
    ASSUME NEW s \in Seq(Files), NEW f \in Files
    PROVE  /\ <<f>> \o s \in Seq(Files) /\ Len(<<f>> \o s) = Len(s) + 1
           /\ \A i \in 1 .. Len(s) + 1 : (<<f>> \o s)[i] = IF i = 1 THEN f ELSE s[i - 1]
<1>1. <<f>> \in Seq(Files) /\ Len(<<f>>) = 1 /\ <<f>>[1] = f
  OBVIOUS
<1>2. QED
  BY <1>1, ConcatProperties

LEMMA EmptyList == ASSUME NEW s \in Arrays, \A i \in Slots : s[i] = NoFile PROVE ListOf(s) = <<>>
<1>1. Size(s) = 0
  BY CacheAssumption, PrefixSize DEF Slots
<1>2. ListOf(s) \in Seq(Files) /\ Len(ListOf(s)) = 0
  BY <1>1, ListFacts
<1>3. QED
  BY <1>2, EmptySeq

(* The names of LruFiles for what the array holds *)
LEMMA WithoutFacts ==
    ASSUME IInv, NEW f \in Files
    PROVE  /\ slot \in Arrays
           /\ Lru!IsCached(f) <=> \E k \in Slots : slot[k] = f
           /\ \A k \in Slots : slot[k] = f =>
                  /\ k + 1 \in 1 .. Size(slot)
                  /\ Lru!Without(f) = Lru!RemoveAt(ListOf(slot), k + 1)
           /\ (\A k \in Slots : slot[k] # f) => Lru!Without(f) = ListOf(slot)
<1> USE CacheAssumption, NoFileAssumption
<1>1. slot \in Arrays
  BY DEF IInv, TypeOK, Compact, Arrays
<1> DEFINE r == ListOf(slot)
<1>2. /\ r = [n \in 1 .. Used |-> slot[n - 1]] /\ Used = Size(slot)
      /\ DOMAIN r = 1 .. Size(slot)
  BY DEF ListOf, Size, Used
<1>3. /\ Size(slot) \in Nat
      /\ \A i \in Slots : slot[i] # NoFile <=> i < Size(slot)
      /\ \A n \in 1 .. Size(slot) : n - 1 \in Slots /\ r[n] = slot[n - 1]
  BY <1>1, UsedFirst, ListFacts
<1>4. \A k \in Slots : slot[k] = f => k + 1 \in 1 .. Size(slot) /\ r[k + 1] = f
  BY <1>3 DEF Slots
<1>5. Lru!IsCached(f) <=> \E n \in DOMAIN r : r[n] = f
  BY <1>2 DEF Lru!IsCached
<1>6. Lru!Without(f) = IF Lru!IsCached(f)
                       THEN Lru!RemoveAt(r, CHOOSE n \in DOMAIN r : r[n] = f) ELSE r
  BY <1>2 DEF Lru!Without
<1> HIDE DEF r
<1>7. Lru!IsCached(f) <=> \E k \in Slots : slot[k] = f
  BY <1>2, <1>3, <1>4, <1>5
<1>8. ASSUME NEW k \in Slots, slot[k] = f
      PROVE  (CHOOSE n \in DOMAIN r : r[n] = f) = k + 1
  <2>1. k + 1 \in DOMAIN r /\ r[k + 1] = f
    BY <1>2, <1>4, <1>8
  <2>2. ASSUME NEW n \in DOMAIN r, r[n] = f PROVE n = k + 1
    <3>1. n - 1 \in Slots /\ slot[n - 1] = f /\ n \in Nat
      BY <1>2, <1>3, <2>2
    <3>2. n - 1 = k
      BY <1>8, <3>1 DEF IInv, NoDuplicates
    <3>3. QED
      BY <3>1, <3>2 DEF Slots
  <2>3. QED
    BY <2>1, <2>2
<1>9. QED
  BY <1>1, <1>4, <1>6, <1>7, <1>8 DEF r

(* A file that is used comes first, before the others in the order they had; *)
(* if there is no room the last one leaves.                                  *)
LEMMA UseLru ==
    ASSUME IInv, IInv', NEW f \in Files, find_and_use_fp(f) PROVE Lru!Use(f)
<1> USE CacheAssumption, NoFileAssumption
<1> DEFINE r == ListOf(slot)
           t == ListOf(slot')
           o == Lru!Without(f)
           s == <<f>> \o o
<1>1. slot \in Arrays /\ slot' \in Arrays
  BY DEF IInv, TypeOK, Compact, Arrays
<1>2. Lru!Use(f) <=> t = IF Len(s) > CACHE_SIZE THEN Lru!Front(s) ELSE s
  BY DEF Lru!Use, ListOf, Size, Used
<1>3. /\ Size(slot) \in 0 .. CACHE_SIZE
      /\ \A i \in Slots : slot[i] # NoFile <=> i < Size(slot)
      /\ r \in Seq(Files) /\ Len(r) = Size(slot)
      /\ \A n \in 1 .. Size(slot) : n - 1 \in Slots /\ r[n] = slot[n - 1]
  BY <1>1, UsedFirst, ListFacts
<1>4. /\ t \in Seq(Files) /\ Len(t) = Size(slot')
      /\ \A n \in 1 .. Size(slot') : t[n] = slot'[n - 1]
  BY <1>1, ListFacts
<1> HIDE DEF r, t
<1>5. CASE UseMiss(f)
  <2>1. \A k \in Slots : slot[k] # f
    BY <1>5, FindExact DEF UseMiss
  <2>2. o = r
    BY <2>1, WithoutFacts DEF r
  <2>3. /\ s \in Seq(Files) /\ Len(s) = Size(slot) + 1
        /\ \A n \in 1 .. Size(slot) + 1 : s[n] = IF n = 1 THEN f ELSE r[n - 1]
    BY <1>3, <2>2, PushFacts
  <2> HIDE DEF s
  <2>4. /\ slot'[0] = f /\ \A i \in Slots \ {0} : slot'[i] = slot[i - 1]
    BY <1>5 DEF UseMiss, Slots
  <2> DEFINE u == IF Size(slot) = CACHE_SIZE THEN CACHE_SIZE ELSE Size(slot) + 1
  <2>5. Size(slot') = u
    <3>1. u \in 0 .. CACHE_SIZE
      BY <1>3
    <3>2. ASSUME NEW i \in Slots PROVE slot'[i] # NoFile <=> i < u
      BY <1>3, <2>4 DEF Slots
    <3>3. QED
      BY <3>1, <3>2, PrefixSize
  <2>6. \A n \in 1 .. u : t[n] = s[n]
    <3> SUFFICES ASSUME NEW n \in 1 .. u PROVE t[n] = s[n]
      OBVIOUS
    <3>1. n \in 1 .. Size(slot') /\ n \in 1 .. Size(slot) + 1 /\ n - 1 \in Slots
      BY <1>3, <2>5 DEF Slots
    <3>2. CASE n = 1
      BY <1>4, <2>3, <2>4, <3>1, <3>2
    <3>3. CASE n # 1
      <4>1. n - 1 \in 1 .. Size(slot) /\ n - 1 \in Slots \ {0}
        BY <1>3, <3>1, <3>3 DEF Slots
      <4>2. t[n] = slot[(n - 1) - 1]
        BY <1>4, <2>4, <3>1, <4>1
      <4>3. s[n] = r[n - 1] /\ r[n - 1] = slot[(n - 1) - 1]
        BY <1>3, <2>3, <3>1, <3>3, <4>1
      <4>4. QED
        BY <4>2, <4>3
    <3>4. QED
      BY <3>2, <3>3
  <2>7. CASE Size(slot) = CACHE_SIZE
    <3>1. Lru!Front(s) = SubSeq(s, 1, CACHE_SIZE)
      BY <2>3, <2>7 DEF Lru!Front
    <3>2. \A i \in 1 .. CACHE_SIZE : s[i] \in Files
      BY <2>3, <2>7
    <3>3. /\ SubSeq(s, 1, CACHE_SIZE) \in Seq(Files)
          /\ Len(SubSeq(s, 1, CACHE_SIZE)) = CACHE_SIZE
          /\ \A i \in 1 .. CACHE_SIZE : SubSeq(s, 1, CACHE_SIZE)[i] = s[i]
      BY <3>2, SubSeqProperties
    <3>4. t = SubSeq(s, 1, CACHE_SIZE)
      BY <1>4, <2>5, <2>6, <2>7, <3>3, SeqEqual
    <3>5. QED
      BY <1>2, <2>3, <2>7, <3>1, <3>4 DEF s
  <2>8. CASE Size(slot) # CACHE_SIZE
    <3>1. t = s
      BY <1>3, <1>4, <2>3, <2>5, <2>6, <2>8, SeqEqual
    <3>2. QED
      BY <1>2, <1>3, <2>3, <2>8, <3>1 DEF s
  <2>9. QED
    BY <2>7, <2>8
<1>6. CASE UseHit(f)
  <2>1. PICK k \in Slots : /\ slot[k] = f
                           /\ slot' = [i \in Slots |-> IF i = 0 THEN f
                                          ELSE IF i <= k THEN slot[i - 1] ELSE slot[i]]
    BY <1>6 DEF UseHit, Found
  <2>2. k + 1 \in 1 .. Size(slot) /\ o = Lru!RemoveAt(r, k + 1)
    BY <2>1, WithoutFacts DEF r
  <2>3. /\ o \in Seq(Files) /\ Len(o) = Size(slot) - 1
        /\ \A i \in 1 .. Size(slot) - 1 : o[i] = IF i < k + 1 THEN r[i] ELSE r[i + 1]
    <3>1. r \in Seq(Files) /\ k + 1 \in 1 .. Len(r)
      BY <1>3, <2>2
    <3>2. /\ Lru!RemoveAt(r, k + 1) \in Seq(Files)
          /\ Len(Lru!RemoveAt(r, k + 1)) = Len(r) - 1
          /\ \A i \in 1 .. Len(r) - 1 :
                 Lru!RemoveAt(r, k + 1)[i] = IF i < k + 1 THEN r[i] ELSE r[i + 1]
      BY <3>1, RemoveAtFacts
    <3> HIDE DEF o
    <3>3. QED
      BY <1>3, <2>2, <3>2
  <2> HIDE DEF o
  <2>4. /\ s \in Seq(Files) /\ Len(s) = Size(slot)
        /\ \A n \in 1 .. Size(slot) : s[n] = IF n = 1 THEN f ELSE o[n - 1]
    BY <1>3, <2>3, PushFacts
  <2> HIDE DEF s
  <2>5. Size(slot') = Size(slot)
    <3>1. ASSUME NEW i \in Slots PROVE slot'[i] # NoFile <=> i < Size(slot)
      <4>1. CASE i = 0
        BY <1>3, <2>1, <2>2, <4>1 DEF Slots
      <4>2. CASE i # 0 /\ i <= k
        <5>1. i - 1 \in Slots /\ slot'[i] = slot[i - 1] /\ i < Size(slot) /\ i - 1 < Size(slot)
          BY <2>1, <2>2, <4>2, <1>3 DEF Slots
        <5>2. QED
          BY <1>3, <5>1
      <4>3. CASE i > k
        BY <1>3, <2>1, <4>3 DEF Slots
      <4>4. QED
        BY <4>1, <4>2, <4>3 DEF Slots
    <3>2. QED
      BY <1>3, <3>1, PrefixSize
  <2>6. ASSUME NEW n \in 1 .. Size(slot) PROVE t[n] = s[n]
    <3>1. n - 1 \in Slots /\ t[n] = slot'[n - 1]
      BY <1>3, <1>4, <2>5
    <3>2. CASE n = 1
      BY <2>1, <2>4, <3>1, <3>2
    <3>3. CASE n # 1
      <4>1. n - 1 \in 1 .. Size(slot) - 1 /\ s[n] = o[n - 1]
        BY <1>3, <2>4, <3>3
      <4>2. CASE n - 1 <= k
        <5>1. s[n] = r[n - 1] /\ n - 1 \in 1 .. Size(slot)
          BY <1>3, <2>1, <2>3, <4>1, <4>2 DEF Slots
        <5>2. r[n - 1] = slot[(n - 1) - 1]
          BY <1>3, <5>1
        <5>3. QED
          BY <2>1, <3>1, <3>3, <4>2, <5>1, <5>2
      <4>3. CASE n - 1 > k
        <5>1. s[n] = r[(n - 1) + 1] /\ (n - 1) + 1 = n
          BY <1>3, <2>1, <2>3, <4>1, <4>3 DEF Slots
        <5>2. r[n] = slot[n - 1]
          BY <1>3
        <5>3. QED
          BY <2>1, <3>1, <3>3, <4>3, <5>1, <5>2 DEF Slots
      <4>4. QED
        BY <2>1, <3>1, <4>2, <4>3 DEF Slots
    <3>4. QED
      BY <3>2, <3>3
  <2>7. t = s
    BY <1>4, <2>4, <2>5, <2>6, SeqEqual
  <2>8. QED
    BY <1>2, <1>3, <2>4, <2>7 DEF s, o
<1>7. QED
  BY <1>5, <1>6 DEF find_and_use_fp

(* A file that is closed leaves, the others stay in their order. *)
LEMMA CloseLru ==
    ASSUME IInv, IInv', NEW f \in Files, fsync_and_close(f) PROVE Lru!Close(f)
<1> USE CacheAssumption, NoFileAssumption
<1> DEFINE r == ListOf(slot)
           t == ListOf(slot')
           o == Lru!Without(f)
<1>1. slot \in Arrays /\ slot' \in Arrays
  BY DEF IInv, TypeOK, Compact, Arrays
<1>2. Lru!Close(f) <=> t = o
  BY DEF Lru!Close, ListOf, Size, Used
<1>3. /\ Size(slot) \in 0 .. CACHE_SIZE
      /\ \A i \in Slots : slot[i] # NoFile <=> i < Size(slot)
      /\ r \in Seq(Files) /\ Len(r) = Size(slot)
      /\ \A n \in 1 .. Size(slot) : n - 1 \in Slots /\ r[n] = slot[n - 1]
  BY <1>1, UsedFirst, ListFacts
<1>4. /\ t \in Seq(Files) /\ Len(t) = Size(slot')
      /\ \A n \in 1 .. Size(slot') : t[n] = slot'[n - 1]
  BY <1>1, ListFacts
<1>5. CASE NotFound(f) /\ UNCHANGED slot
  <2>1. o = r /\ t = r
    BY <1>5, FindExact, WithoutFacts
  <2>2. QED
    BY <1>2, <2>1
<1> HIDE DEF r, t
<1>6. CASE CloseFound(f)
  <2>1. PICK k \in Slots, m \in 1 .. CACHE_SIZE :
            /\ slot[k] = f
            /\ FirstEmptyAfter(k, m)
            /\ slot' = [i \in Slots |-> IF i = m - 1 THEN NoFile
                                        ELSE IF i \in k .. m - 2 THEN slot[i + 1] ELSE slot[i]]
    BY <1>6 DEF CloseFound, Found
  <2>2. k + 1 \in 1 .. Size(slot) /\ o = Lru!RemoveAt(r, k + 1)
    BY <2>1, WithoutFacts DEF r
  <2> HIDE DEF o
  <2>3. /\ o \in Seq(Files) /\ Len(o) = Size(slot) - 1
        /\ \A i \in 1 .. Size(slot) - 1 : o[i] = IF i < k + 1 THEN r[i] ELSE r[i + 1]
    <3>1. r \in Seq(Files) /\ k + 1 \in 1 .. Len(r)
      BY <1>3, <2>2
    <3>2. /\ Lru!RemoveAt(r, k + 1) \in Seq(Files)
          /\ Len(Lru!RemoveAt(r, k + 1)) = Len(r) - 1
          /\ \A i \in 1 .. Len(r) - 1 :
                 Lru!RemoveAt(r, k + 1)[i] = IF i < k + 1 THEN r[i] ELSE r[i + 1]
      BY <3>1, RemoveAtFacts
    <3>3. QED
      BY <1>3, <2>2, <3>2
  <2>4. m = Size(slot)
    <3>1. k < m /\ m - 1 \in Slots
      BY <2>1 DEF FirstEmptyAfter, Slots
    <3>2. slot[m - 1] # NoFile
      BY <2>1, <3>1 DEF FirstEmptyAfter, Slots
    <3>3. m < CACHE_SIZE => m \in Slots /\ slot[m] = NoFile
      BY <2>1 DEF FirstEmptyAfter, Slots
    <3>4. m - 1 < Size(slot) /\ (m < CACHE_SIZE => ~(m < Size(slot)))
      BY <1>3, <3>1, <3>2, <3>3
    <3>5. QED
      BY <1>3, <3>4
  <2>5. Size(slot') = Size(slot) - 1
    <3>1. ASSUME NEW i \in Slots PROVE slot'[i] # NoFile <=> i < Size(slot) - 1
      <4>1. CASE i = m - 1
        BY <1>3, <2>1, <2>4, <4>1 DEF Slots
      <4>2. CASE i \in k .. m - 2
        BY <1>3, <2>1, <2>4, <4>2 DEF Slots
      <4>3. CASE i < k
        BY <1>3, <2>1, <2>2, <2>4, <4>3 DEF Slots
      <4>4. CASE i >= m
        BY <1>3, <2>1, <2>4, <4>4 DEF Slots
      <4>5. QED
        BY <4>1, <4>2, <4>3, <4>4 DEF Slots
    <3>2. Size(slot) - 1 \in 0 .. CACHE_SIZE
      BY <1>3, <2>4
    <3>3. QED
      BY <3>1, <3>2, PrefixSize
  <2>6. ASSUME NEW n \in 1 .. Size(slot) - 1 PROVE t[n] = o[n]
    <3>1. n - 1 \in Slots /\ t[n] = slot'[n - 1] /\ n - 1 < m - 1
      BY <1>3, <1>4, <2>4, <2>5
    <3>2. CASE n < k + 1
      <4>1. n \in 1 .. Size(slot)
        BY <1>3
      <4>4. o[n] = r[n] /\ r[n] = slot[n - 1]
        BY <1>3, <2>3, <3>2, <4>1
      <4>2. slot'[n - 1] = slot[n - 1]
        BY <2>1, <3>1, <3>2 DEF Slots
      <4>3. QED
        BY <3>1, <4>2, <4>4
    <3>3. CASE ~(n < k + 1)
      <4>1. o[n] = r[n + 1] /\ r[n + 1] = slot[(n + 1) - 1]
        BY <1>3, <2>3, <3>3
      <4>2. slot'[n - 1] = slot[(n - 1) + 1]
        BY <2>1, <3>1, <3>3 DEF Slots
      <4>3. QED
        BY <3>1, <4>1, <4>2
    <3>4. QED
      BY <3>2, <3>3
  <2>7. t = o
    BY <1>4, <2>3, <2>5, <2>6, SeqEqual
  <2>8. QED
    BY <1>2, <2>7 DEF o
<1>7. QED
  BY <1>5, <1>6 DEF fsync_and_close

LEMMA LruSteps ==
    ASSUME IInv, IInv', [Next]_vars
    PROVE  [Lru!lruNext]_[n \in 1 .. Used |-> slot[n - 1]]
<1>1. UNCHANGED slot => UNCHANGED [n \in 1 .. Used |-> slot[n - 1]]
  BY DEF Used
<1>2. ASSUME NEW f \in Files, find_and_use_fp(f) PROVE Lru!lruNext
  BY <1>2, UseLru DEF Lru!lruNext
<1>3. ASSUME NEW f \in Files, fsync_and_close(f) PROVE Lru!lruNext
  BY <1>3, CloseLru DEF Lru!lruNext
<1>4. CASE remove_fp_cache
  <2>1. CASE slot' = [i \in Slots |-> NoFile]
    <3>1. slot' \in Arrays
      BY DEF IInv, TypeOK, Compact, Arrays
    <3>2. ListOf(slot') = <<>>
      BY <2>1, <3>1, EmptyList
    <3>4. Lru!CloseAll
      BY <3>2 DEF Lru!CloseAll, ListOf, Size, Used
    <3>3. QED
      BY <3>4 DEF Lru!lruNext
  <2>2. QED
    BY <1>1, <1>4, <2>1 DEF remove_fp_cache
<1>5. CASE UNCHANGED vars
  BY <1>1, <1>5 DEF vars
<1>6. QED
  BY <1>2, <1>3, <1>4, <1>5 DEF Next

(* The array of fp_cache.c implements the list of the files used most        *)
(* recently, for every number of files and entries.                          *)
THEOREM ImplementsLru == Spec => LruSpec
<1>1. Init => Lru!lruInit
  <2> SUFFICES ASSUME Init PROVE Lru!lruInit
    OBVIOUS
  <2>1. slot \in Arrays
    BY InitIInv DEF IInv, TypeOK, Compact, Arrays
  <2>2. ListOf(slot) = <<>>
    BY <2>1, EmptyList DEF Init
  <2>3. QED
    BY <2>2 DEF Lru!lruInit, ListOf, Size, Used
<1>2. QED
  BY <1>1, LruSteps, CacheInvariant, PTL DEF Spec, LruSpec, Lru!lruSpec
=============================================================================
