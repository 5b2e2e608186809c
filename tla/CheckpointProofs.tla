-------------------------- MODULE CheckpointProofs --------------------------
(***************************************************************************)
(* Proofs about Checkpoint, for every number of ruptures, output kinds and *)
(* parts, every size of the file pointer cache and any number of stops,    *)
(* node failures and restarts.  PSA is on: without it no rupture is ever   *)
(* done (run ckpt_no_psa).                                                 *)
(*                                                                         *)
(* The count of the master says how many lines of output a rupture still   *)
(* lacks.  The lines are pairs of a kind and a variation; the count is the *)
(* cardinality of the set of those that have not arrived, so that it is    *)
(* zero exactly when every part has sent every kind.                       *)
(***************************************************************************)
EXTENDS Checkpoint, FiniteSetTheorems, SequenceTheorems, TLAPS

PsaOn == "PeakVals" \in ToSet(Kinds)

NumKinds == Len(Kinds)
Lines == (1 .. NumKinds) \X (0 .. NumVars - 1)
Arrivals == [Parts -> 0 .. NumKinds]

(* The lines of a rupture of which a kinds have arrived of each part *)
Lacking(a) == {l \in Lines : \E p \in Parts : l[2] \in Variations(p) /\ l[1] > a[p]}
-----------------------------------------------------------------------------
LEMMA Constants ==
    /\ NumKinds \in Nat \ {0} /\ DOMAIN Kinds = 1 .. NumKinds
    /\ \A p \in Parts : /\ Rvs[p][1] \in Nat /\ Rvs[p][2] \in Nat /\ Rvs[p][1] < Rvs[p][2]
                        /\ Variations(p) \subseteq 0 .. NumVars - 1
                        /\ IsFiniteSet(Variations(p))
                        /\ Cardinality(Variations(p)) = Rvs[p][2] - Rvs[p][1]
                        /\ Variations(p) # {}
    /\ NumVars \in Nat
    /\ IsFiniteSet(Lines) /\ Cardinality(Lines) = NumKinds * NumVars
<1>1. NumKinds \in Nat \ {0} /\ DOMAIN Kinds = 1 .. NumKinds
  BY CheckpointAssumption, EmptySeq DEF NumKinds
<1>2. NumVars \in Nat
  BY CheckpointAssumption
<1>3. ASSUME NEW p \in Parts
      PROVE  /\ Rvs[p][1] \in Nat /\ Rvs[p][2] \in Nat /\ Rvs[p][1] < Rvs[p][2]
             /\ Variations(p) \subseteq 0 .. NumVars - 1
             /\ IsFiniteSet(Variations(p))
             /\ Cardinality(Variations(p)) = Rvs[p][2] - Rvs[p][1]
             /\ Variations(p) # {}
  <2>1. Rvs[p][1] \in Nat /\ Rvs[p][2] \in Nat /\ Rvs[p][1] < Rvs[p][2]
    BY <1>3, CheckpointAssumption
  <2>2. Variations(p) \subseteq 0 .. NumVars - 1
    BY <1>3, CheckpointAssumption
  <2>3. IsFiniteSet(Variations(p)) /\ Cardinality(Variations(p)) = Rvs[p][2] - Rvs[p][1]
    <3>1. Rvs[p][1] \in Int /\ Rvs[p][2] - 1 \in Int /\ ~(Rvs[p][1] > Rvs[p][2] - 1)
      BY <2>1
    <3>2. /\ IsFiniteSet(Rvs[p][1] .. Rvs[p][2] - 1)
          /\ Cardinality(Rvs[p][1] .. Rvs[p][2] - 1) = (Rvs[p][2] - 1) - Rvs[p][1] + 1
      BY <3>1, FS_Interval
    <3>3. QED
      BY <2>1, <3>2 DEF Variations
  <2>4. Variations(p) # {}
    BY <2>1 DEF Variations
  <2>5. QED
    BY <2>1, <2>2, <2>3, <2>4
<1>4. /\ IsFiniteSet(1 .. NumKinds) /\ Cardinality(1 .. NumKinds) = NumKinds
      /\ IsFiniteSet(0 .. NumVars - 1) /\ Cardinality(0 .. NumVars - 1) = NumVars
  <2>1. IsFiniteSet(1 .. NumKinds) /\ Cardinality(1 .. NumKinds) = NumKinds
    BY <1>1, FS_Interval
  <2>2. IsFiniteSet(0 .. NumVars - 1) /\ Cardinality(0 .. NumVars - 1) = NumVars
    BY <1>2, FS_Interval
  <2>3. QED
    BY <2>1, <2>2
<1>5. IsFiniteSet(Lines) /\ Cardinality(Lines) = NumKinds * NumVars
  <2> DEFINE ks == 1 .. NumKinds
             vs == 0 .. NumVars - 1
  <2> HIDE DEF ks, vs
  <2>1. IsFiniteSet(ks \X vs) /\ Cardinality(ks \X vs) = Cardinality(ks) * Cardinality(vs)
    BY <1>4, FS_Product, Zenon DEF ks, vs
  <2>2. QED
    BY <1>4, <2>1 DEF Lines, ks, vs
<1>6. QED
  BY <1>1, <1>2, <1>3, <1>5

LEMMA LackingFinite ==
    ASSUME NEW a \in Arrivals
    PROVE  /\ IsFiniteSet(Lacking(a))
           /\ Cardinality(Lacking(a)) \in 0 .. ShortValues - 1
           /\ Cardinality(Lacking(a)) % ShortValues = Cardinality(Lacking(a))
<1>1. Lacking(a) \in SUBSET Lines
  BY DEF Lacking
<1>2. IsFiniteSet(Lacking(a)) /\ Cardinality(Lacking(a)) <= NumKinds * NumVars
  BY <1>1, Constants, FS_Subset
<1>3. Cardinality(Lacking(a)) \in Nat
  BY <1>2, FS_CardinalityType
<1>4. NumKinds * NumVars < ShortValues /\ ShortValues \in Nat
  BY CountFits DEF NumKinds
<1>5. NumKinds * NumVars \in Nat
  BY Constants
<1>6. Cardinality(Lacking(a)) \in 0 .. ShortValues - 1
  BY <1>2, <1>3, <1>4, <1>5
<1>7. QED
  BY <1>2, <1>4, <1>6

(* A job starts with all lines lacking: the parts have every variation.      *)
LEMMA CountStart ==
    ASSUME NEW a \in Arrivals, \A p \in Parts : a[p] = 0
    PROVE  Cardinality(Lacking(a)) = NumFiles
<1>1. ASSUME NEW v \in 0 .. NumVars - 1 PROVE \E p \in Parts : v \in Variations(p)
  BY CheckpointAssumption
<1>2. Lines \subseteq Lacking(a)
  <2>1. ASSUME NEW l \in Lines PROVE l \in Lacking(a)
    <3>1. l[1] \in 1 .. NumKinds /\ l[2] \in 0 .. NumVars - 1
      BY DEF Lines
    <3>2. PICK p \in Parts : l[2] \in Variations(p)
      BY <1>1, <3>1
    <3>3. l[1] > a[p]
      BY <3>1, Constants
    <3>4. QED
      BY <3>2, <3>3 DEF Lacking
  <2>2. QED
    BY <2>1
<1>3. Lacking(a) = Lines
  BY <1>2 DEF Lacking
<1>4. QED
  BY <1>3, Constants, LackingFinite DEF NumFiles, NumKinds

(* A cluster takes its number of variations from the count.                  *)
LEMMA CountDown ==
    ASSUME NEW a \in Arrivals, NEW p \in Parts, a[p] < NumKinds
    PROVE  /\ [a EXCEPT ![p] = @ + 1] \in Arrivals
           /\ Cardinality(Lacking([a EXCEPT ![p] = @ + 1]))
                = Cardinality(Lacking(a)) - (Rvs[p][2] - Rvs[p][1])
<1> DEFINE b == [a EXCEPT ![p] = @ + 1]
           D == {a[p] + 1} \X Variations(p)
<1>1. b \in Arrivals /\ b[p] = a[p] + 1 /\ \A q \in Parts \ {p} : b[q] = a[q]
  BY Constants DEF Arrivals
<1>2. D \subseteq Lacking(a)
  BY Constants DEF Lacking, Lines, Arrivals
<1>3. ASSUME NEW l \in Lacking(a), l \notin Lacking(b) PROVE l \in D
  <2>1. PICK q \in Parts : l[2] \in Variations(q) /\ l[1] > a[q]
    BY DEF Lacking
  <2>2. l \in Lines /\ l[1] \in Nat /\ a[q] \in Nat
    BY DEF Lacking, Lines, Arrivals
  <2>3. ~(l[1] > b[q])
    BY <1>3, <2>1, <2>2 DEF Lacking
  <2>4. q = p /\ l[1] = a[p] + 1
    BY <1>1, <2>1, <2>2, <2>3
  <2>5. QED
    BY <2>1, <2>2, <2>4 DEF Lines
<1>4. ASSUME NEW l \in Lacking(b) PROVE l \in Lacking(a) /\ l \notin D
  <2>1. PICK q \in Parts : l[2] \in Variations(q) /\ l[1] > b[q]
    BY DEF Lacking
  <2>2. l \in Lines /\ l[1] \in Nat /\ a[q] \in Nat
    BY DEF Lacking, Lines, Arrivals
  <2>3. l \in Lacking(a)
    BY <1>1, <2>1, <2>2 DEF Lacking
  <2>4. CASE q = p
    BY <1>1, <2>1, <2>2, <2>3, <2>4
  <2>5. CASE q # p
    <3>1. l[2] \notin Variations(p)
      BY <2>1, <2>5, CheckpointAssumption
    <3>2. QED
      BY <2>3, <3>1
  <2>6. QED
    BY <2>4, <2>5
<1>5. Lacking(b) = Lacking(a) \ D /\ Lacking(a) \cap D = D
  BY <1>2, <1>3, <1>4
<1>6. Cardinality(D) = Rvs[p][2] - Rvs[p][1]
  <2>1. Cardinality(D) = 1 * Cardinality(Variations(p))
    <3> DEFINE k == {a[p] + 1}
               vs == Variations(p)
    <3>1. IsFiniteSet(k) /\ Cardinality(k) = 1 /\ IsFiniteSet(vs)
      BY Constants, FS_Singleton
    <3> HIDE DEF k, vs
    <3>2. Cardinality(k \X vs) = Cardinality(k) * Cardinality(vs)
      BY <3>1, FS_Product, Zenon
    <3>3. QED
      BY <3>1, <3>2 DEF k, vs
  <2>2. QED
    BY <2>1, Constants
<1>7. Cardinality(Lacking(a) \ D) = Cardinality(Lacking(a)) - Cardinality(Lacking(a) \cap D)
  BY LackingFinite, FS_Difference, Zenon
<1>8. QED
  BY <1>1, <1>5, <1>6, <1>7

(* It is zero when all of all parts is there. *)
LEMMA CountZero ==
    ASSUME NEW a \in Arrivals
    PROVE  Cardinality(Lacking(a)) = 0 <=> \A p \in Parts : a[p] = NumKinds
<1>1. Cardinality(Lacking(a)) = 0 <=> Lacking(a) = {}
  BY LackingFinite, FS_EmptySet
<1>2. ASSUME NEW p \in Parts, a[p] # NumKinds PROVE Lacking(a) # {}
  <2>1. PICK v : v \in Variations(p)
    BY Constants
  <2>2. <<NumKinds, v>> \in Lacking(a)
    BY <1>2, <2>1, Constants DEF Lacking, Lines, Arrivals
  <2>3. QED
    BY <2>2
<1>3. ASSUME \A p \in Parts : a[p] = NumKinds PROVE Lacking(a) = {}
  BY <1>3, Constants DEF Lacking, Lines
<1>4. QED
  BY <1>1, <1>2, <1>3
-----------------------------------------------------------------------------
(* A sequence with each of the elements of S once *)
Once(s, S) == IsInjective(s) /\ ToSet(s) = S

LEMMA AppendOnce ==
    ASSUME NEW S, NEW s \in Seq(Parts), NEW p \in Parts, Once(s, S), p \notin S
    PROVE  Once(Append(s, p), S \cup {p})
<1>1. /\ Append(s, p) \in Seq(Parts) /\ Len(Append(s, p)) = Len(s) + 1
      /\ \A i \in 1 .. Len(s) : Append(s, p)[i] = s[i]
      /\ Append(s, p)[Len(s) + 1] = p
      /\ DOMAIN s = 1 .. Len(s) /\ DOMAIN Append(s, p) = 1 .. Len(s) + 1 /\ Len(s) \in Nat
  BY AppendProperties, LenProperties
<1>2. \A i \in DOMAIN s : s[i] # p
  BY DEF Once, ToSet
<1>3. IsInjective(Append(s, p))
  BY <1>1, <1>2 DEF Once, IsInjective
<1>4. ToSet(Append(s, p)) = S \cup {p}
  BY <1>1 DEF Once, ToSet
<1>5. QED
  BY <1>3, <1>4 DEF Once

LEMMA OnceLength ==
    ASSUME NEW S, NEW s \in Seq(S), Once(s, S)
    PROVE  Len(s) = Cardinality(S)
<1>1. s \in [1 .. Len(s) -> S] /\ Len(s) \in Nat
  BY LenProperties
<1>2. s \in Bijection(1 .. Len(s), S)
  BY <1>1 DEF Once, IsInjective, ToSet, Bijection, Injection, Surjection
<1>3. QED
  BY <1>1, <1>2, FS_CountingElements DEF ExistsBijection

(* What frite leaves in the buffer and what it passes on make up the data.   *)
LEMMA Divided ==
    ASSUME NEW c \in Seq(Parts), NEW b \in Seq(Parts), NEW p \in Parts,
           NEW n \in 0 .. Len(Append(b, p))
    PROVE  /\ SubSeq(Append(b, p), 1, n) \in Seq(Parts)
           /\ SubSeq(Append(b, p), n + 1, Len(Append(b, p))) \in Seq(Parts)
           /\ c \o SubSeq(Append(b, p), 1, n) \in Seq(Parts)
           /\ (c \o SubSeq(Append(b, p), 1, n)) \o SubSeq(Append(b, p), n + 1, Len(Append(b, p)))
                = Append(c \o b, p)
<1> DEFINE u == Append(b, p)
           s == SubSeq(u, 1, n)
           t == SubSeq(u, n + 1, Len(u))
<1>1. u \in Seq(Parts) /\ Len(u) \in Nat /\ n \in Nat /\ n <= Len(u)
  BY AppendProperties, LenProperties
<1>2. \A i \in 1 .. Len(u) : u[i] \in Parts
  BY <1>1, ElementOfSeq
<1> HIDE DEF u
<1>3. s \in Seq(Parts) /\ t \in Seq(Parts)
  <2>1. \A i \in 1 .. n : u[i] \in Parts
    BY <1>1, <1>2
  <2>2. \A i \in n + 1 .. Len(u) : u[i] \in Parts
    BY <1>1, <1>2
  <2>3. QED
    BY <1>1, <2>1, <2>2, SubSeqProperties
<1>4. s \o t = u
  <2>1. s \o t = SubSeq(u, 1, Len(u))
    <3>1. 1 \in 1 .. Len(u) + 1 /\ n \in 1 - 1 .. Len(u) /\ Len(u) \in n .. Len(u)
      BY <1>1
    <3>2. QED
      BY <1>1, <3>1, ConcatAdjacentSubSeq
  <2>2. QED
    BY <1>1, <2>1, SubSeqFull
<1> HIDE DEF s, t
<1>5. (c \o s) \o t = c \o u /\ c \o s \in Seq(Parts)
  <2>1. (c \o s) \o t = c \o (s \o t)
    BY <1>3, ConcatAssociative
  <2>2. QED
    BY <1>3, <1>4, <2>1, ConcatProperties
<1>6. c \o u = Append(c \o b, p)
  <2>1. u = b \o <<p>> /\ c \o b \in Seq(Parts) /\ <<p>> \in Seq(Parts)
    BY AppendIsConcat, ConcatProperties DEF u
  <2>2. Append(c \o b, p) = (c \o b) \o <<p>>
    BY <2>1, AppendIsConcat
  <2>3. QED
    BY <2>1, <2>2, ConcatAssociative
<1>7. QED
  BY <1>3, <1>5, <1>6 DEF s, t, u
-----------------------------------------------------------------------------
(* The cache: a stream stays open until its file is evicted or closed        *)
CacheType == recent \in Seq(Files) /\ Len(recent) <= CacheSize

LEMMA WithoutOne ==
    ASSUME CacheType, NEW f \in Files
    PROVE  /\ Lru!Without(f) \in Seq(Files)
           /\ Len(Lru!Without(f)) = IF Lru!IsCached(f) THEN Len(recent) - 1 ELSE Len(recent)
           /\ ~Lru!IsCached(f) => Lru!Without(f) = recent
           /\ \A g : Lru!IsCached(g) /\ g # f =>
                  \E n \in 1 .. Len(Lru!Without(f)) : Lru!Without(f)[n] = g
<1>1. /\ \A i \in 1 .. Len(recent) : recent[i] \in Files
      /\ Len(recent) \in Nat /\ DOMAIN recent = 1 .. Len(recent) /\ recent \in Seq(Files)
  BY ElementOfSeq, LenProperties DEF CacheType
<1>2. CASE ~Lru!IsCached(f)
  BY <1>1, <1>2 DEF Lru!Without, Lru!IsCached
<1>3. CASE Lru!IsCached(f)
  <2> DEFINE k == CHOOSE n \in DOMAIN recent : recent[n] = f
             a == SubSeq(recent, 1, k - 1)
             b == SubSeq(recent, k + 1, Len(recent))
  <2>1. k \in 1 .. Len(recent) /\ recent[k] = f
    BY <1>1, <1>3 DEF Lru!IsCached
  <2>2. Lru!Without(f) = a \o b
    BY <1>3 DEF Lru!Without, Lru!RemoveAt
  <2> HIDE DEF k
  <2>3. /\ a \in Seq(Files) /\ Len(a) = k - 1
        /\ \A i \in 1 .. k - 1 : a[i] = recent[i]
    <3>1. \A i \in 1 .. k - 1 : recent[i] \in Files
      BY <1>1, <2>1
    <3>2. QED
      BY <1>1, <2>1, <3>1, SubSeqProperties
  <2>4. /\ b \in Seq(Files) /\ Len(b) = Len(recent) - k
        /\ \A i \in 1 .. Len(recent) - k : b[i] = recent[k + i]
    <3>1. \A i \in k + 1 .. Len(recent) : recent[i] \in Files
      BY <1>1, <2>1
    <3>2. /\ b \in Seq(Files) /\ Len(b) = IF k + 1 <= Len(recent) THEN Len(recent) - (k + 1) + 1 ELSE 0
          /\ \A i \in 1 .. Len(recent) - (k + 1) + 1 : b[i] = recent[k + 1 + i - 1]
      BY <1>1, <2>1, <3>1, SubSeqProperties
    <3>3. k \in Nat /\ k <= Len(recent) /\ Len(recent) - (k + 1) + 1 = Len(recent) - k
      BY <1>1, <2>1
    <3>4. \A i \in 1 .. Len(recent) - k : k + 1 + i - 1 = k + i
      BY <1>1, <3>3
    <3> HIDE DEF b
    <3>5. Len(b) = Len(recent) - k
      <4>1. CASE k + 1 <= Len(recent)
        BY <3>2, <3>3, <4>1
      <4>2. CASE k = Len(recent)
        <5>1. ~(k + 1 <= Len(recent)) /\ Len(recent) - k = 0
          BY <1>1, <3>3, <4>2
        <5>2. QED
          BY <3>2, <5>1
      <4>3. QED
        <5>1. k + 1 <= Len(recent) \/ k = Len(recent)
          <6>1. Len(recent) \in Nat /\ k \in Nat /\ k <= Len(recent)
            BY <1>1, <3>3
          <6>2. \A x, y \in Nat : x <= y => x + 1 <= y \/ x = y
            OBVIOUS
          <6>3. QED
            BY <6>1, <6>2
        <5>2. QED
          BY <4>1, <4>2, <5>1
    <3>6. QED
      BY <3>2, <3>3, <3>4, <3>5
  <2> HIDE DEF a, b
  <2>5. /\ a \o b \in Seq(Files) /\ Len(a \o b) = Len(recent) - 1
        /\ \A i \in 1 .. Len(recent) - 1 :
               (a \o b)[i] = IF i <= k - 1 THEN a[i] ELSE b[i - (k - 1)]
    <3>1. /\ a \o b \in Seq(Files) /\ Len(a \o b) = Len(a) + Len(b)
          /\ \A i \in 1 .. Len(a) + Len(b) :
                 (a \o b)[i] = IF i <= Len(a) THEN a[i] ELSE b[i - Len(a)]
      BY <2>3, <2>4, ConcatProperties
    <3>2. Len(a) + Len(b) = Len(recent) - 1
      BY <1>1, <2>1, <2>3, <2>4
    <3>3. QED
      BY <2>3, <3>1, <3>2
  <2>6. ASSUME NEW g, Lru!IsCached(g), g # f
        PROVE  \E n \in 1 .. Len(a \o b) : (a \o b)[n] = g
    <3>1. PICK i \in 1 .. Len(recent) : recent[i] = g
      BY <1>1, <2>6 DEF Lru!IsCached
    <3>2. i # k
      BY <2>1, <2>6, <3>1
    <3>3. CASE i < k
      <4>1. i \in 1 .. k - 1 /\ i \in 1 .. Len(recent) - 1
        BY <1>1, <2>1, <3>1, <3>3
      <4>2. (a \o b)[i] = g
        BY <2>3, <2>5, <3>1, <4>1
      <4>3. QED
        BY <2>5, <4>1, <4>2
    <3>4. CASE i > k
      <4>1. i - 1 \in 1 .. Len(recent) - 1 /\ i - 1 - (k - 1) \in 1 .. Len(recent) - k
        BY <1>1, <2>1, <3>1, <3>4
      <4>2. (a \o b)[i - 1] = b[i - k] /\ b[i - k] = recent[i]
        BY <1>1, <2>1, <2>4, <2>5, <3>1, <3>4, <4>1
      <4>3. QED
        BY <2>5, <3>1, <4>1, <4>2
    <3>5. QED
      BY <1>1, <2>1, <3>1, <3>2, <3>3, <3>4
  <2>7. QED
    BY <1>3, <2>2, <2>5, <2>6
<1>4. QED
  BY <1>2, <1>3

LEMMA UseCache ==
    ASSUME CacheType, NEW f \in Files, Lru!Use(f)
    PROVE  /\ CacheType' /\ Lru!IsCached(f)'
           /\ \A g : Lru!IsCached(g) /\ g \notin Lru!Evicted(f) => Lru!IsCached(g)'
<1> DEFINE w == Lru!Without(f)
           s == <<f>> \o w
<1>1. w \in Seq(Files) /\ Len(w) \in Nat /\ Len(recent) \in Nat /\ CacheSize \in Nat \ {0}
  BY WithoutOne, LenProperties, CheckpointAssumption DEF CacheType
<1>2. /\ Len(w) = IF Lru!IsCached(f) THEN Len(recent) - 1 ELSE Len(recent)
      /\ ~Lru!IsCached(f) => w = recent
      /\ \A g : Lru!IsCached(g) /\ g # f => \E n \in 1 .. Len(w) : w[n] = g
  BY WithoutOne
<1> HIDE DEF w
<1>3. /\ s \in Seq(Files) /\ Len(s) = Len(w) + 1
      /\ s[1] = f /\ \A i \in 1 .. Len(w) : s[i + 1] = w[i]
  <2>1. <<f>> \in Seq(Files) /\ Len(<<f>>) = 1 /\ <<f>>[1] = f
    OBVIOUS
  <2>2. QED
    BY <1>1, <2>1, ConcatProperties
<1>4. recent' = IF Len(s) > CacheSize THEN SubSeq(s, 1, Len(s) - 1) ELSE s
  BY DEF Lru!Use, w, Lru!Front, Front
<1> HIDE DEF s
<1>5. CASE Len(s) <= CacheSize
  <2>1. recent' = s
    BY <1>1, <1>3, <1>4, <1>5
  <2>2. CacheType' /\ DOMAIN recent' = 1 .. Len(w) + 1
    BY <1>3, <1>5, <2>1, LenProperties DEF CacheType
  <2>3. Lru!IsCached(f)'
    BY <1>1, <1>3, <2>1, <2>2 DEF Lru!IsCached
  <2>4. ASSUME NEW g, Lru!IsCached(g), g # f PROVE Lru!IsCached(g)'
    <3>1. PICK n \in 1 .. Len(w) : w[n] = g
      BY <1>2, <2>4
    <3>2. n + 1 \in DOMAIN recent' /\ recent'[n + 1] = g
      BY <1>1, <1>3, <2>1, <2>2, <3>1
    <3>3. QED
      BY <3>2 DEF Lru!IsCached
  <2>5. QED
    BY <2>2, <2>3, <2>4
<1>6. CASE Len(s) > CacheSize
  <2>1. ~Lru!IsCached(f) /\ w = recent /\ Len(recent) = CacheSize /\ Len(w) = CacheSize
    BY <1>1, <1>2, <1>3, <1>6 DEF CacheType
  <2>2. recent' = SubSeq(s, 1, Len(w))
    BY <1>1, <1>3, <1>4, <1>6
  <2>3. \A i \in 1 .. Len(w) : s[i] \in Files
    BY <1>1, <1>3, ElementOfSeq
  <2>4. /\ recent' \in Seq(Files) /\ Len(recent') = CacheSize
        /\ \A i \in 1 .. CacheSize : recent'[i] = s[i]
    BY <1>1, <2>1, <2>2, <2>3, SubSeqProperties
  <2>5. CacheType' /\ DOMAIN recent' = 1 .. CacheSize
    BY <1>1, <2>4, LenProperties DEF CacheType
  <2>6. Lru!IsCached(f)'
    BY <1>1, <1>3, <2>4, <2>5 DEF Lru!IsCached
  <2>7. Lru!Evicted(f) = {recent[CacheSize]}
    BY <2>1 DEF Lru!Evicted, Lru!Last, Last
  <2>8. ASSUME NEW g, Lru!IsCached(g), g # f, g \notin Lru!Evicted(f) PROVE Lru!IsCached(g)'
    <3>1. PICK n \in 1 .. Len(w) : w[n] = g
      BY <1>2, <2>8
    <3>2. n + 1 \in 1 .. CacheSize
      BY <1>1, <2>1, <2>7, <2>8, <3>1
    <3>3. n + 1 \in DOMAIN recent' /\ recent'[n + 1] = g
      BY <1>1, <1>3, <2>4, <2>5, <3>1, <3>2
    <3>4. QED
      BY <3>3 DEF Lru!IsCached
  <2>9. QED
    BY <2>5, <2>6, <2>8
<1>7. QED
  BY <1>1, <1>3, <1>5, <1>6

LEMMA CloseCache ==
    ASSUME CacheType, NEW f \in Files, Lru!Close(f)
    PROVE  CacheType' /\ \A g : Lru!IsCached(g) /\ g # f => Lru!IsCached(g)'
<1>1. recent' = Lru!Without(f)
  BY DEF Lru!Close
<1>2. /\ recent' \in Seq(Files) /\ DOMAIN recent' = 1 .. Len(recent')
      /\ Len(recent') = IF Lru!IsCached(f) THEN Len(recent) - 1 ELSE Len(recent)
      /\ \A g : Lru!IsCached(g) /\ g # f => \E n \in 1 .. Len(recent') : recent'[n] = g
  BY <1>1, WithoutOne, LenProperties
<1>3. CacheType'
  BY <1>2, LenProperties, CheckpointAssumption DEF CacheType
<1>4. QED
  BY <1>2, <1>3 DEF Lru!IsCached
-----------------------------------------------------------------------------
(* The inductive invariant.  What was written of a file is in it or in the   *)
(* buffer of its stream.                                                     *)
Data(f) == file[f] \o pending[f]
AllIn(r) == \A p \in Parts : arrived[r][p] = NumKinds
PartsIn(r, i) == {p \in Parts : arrived[r][p] >= i}

Types == /\ pc \in {"listen", "sync", "mark", "down"}
         /\ queue \subseteq Ruptures
         /\ src_rup_table \in [Ruptures -> 0 .. ShortValues - 1]
         /\ arrived \in [Ruptures -> Arrivals]
         /\ cur \in Ruptures /\ step \in 1 .. NumKinds
         /\ CacheType
         /\ pending \in [Files -> Seq(Parts)] /\ file \in [Files -> Seq(Parts)]
         /\ durable \in [Files -> Nat]
         /\ log \in Seq(Ruptures) /\ logDurable \in 0 .. Len(log)
         /\ nodeCrashes \in Nat

(* The streams: data is only in the buffer of a stream that is open          *)
Streams == /\ \A f \in Files : pending[f] # <<>> => Lru!IsCached(f)
           /\ \A f \in Files : durable[f] <= Len(file[f])
           /\ pc = "down" => \A f \in Files : pending[f] = <<>>

(* The ruptures of this job: those not logged when it was started.  The      *)
(* count of each is right, each of its files has every part that arrived     *)
(* once, and it is logged as soon as all is in.                              *)
Job == pc # "down" =>
    /\ \A r \in Ruptures \ queue : r \in Logged
    /\ \A r \in queue : src_rup_table[r] = Cardinality(Lacking(arrived[r]))
    /\ \A r \in queue, i \in 1 .. NumKinds : Once(Data(<<r, Kinds[i]>>), PartsIn(r, i))
    /\ \A r \in queue : AllIn(r) <=> r \in Logged \/ (pc \in {"sync", "mark"} /\ cur = r)

(* The rupture that is being closed *)
Closing == /\ pc \in {"sync", "mark"} => cur \in queue /\ cur \notin Logged
           /\ pc = "sync" => \A i \in 1 .. step - 1 : pending[<<cur, Kinds[i]>>] = <<>>
           /\ pc = "mark" => \A i \in 1 .. NumKinds : pending[<<cur, Kinds[i]>>] = <<>>

(* The ruptures in the log *)
Marked == /\ \A r \in Logged, i \in 1 .. NumKinds :
                 /\ pending[<<r, Kinds[i]>>] = <<>>
                 /\ nodeCrashes = 0 => Complete(<<r, Kinds[i]>>)
          /\ IsInjective(log)

IInv == Types /\ Streams /\ Job /\ Closing /\ Marked
-----------------------------------------------------------------------------
LEMMA FileNames ==
    /\ \A r \in Ruptures, i \in 1 .. NumKinds : <<r, Kinds[i]>> \in Files
    /\ \A f \in Files : \E r \in Ruptures, i \in 1 .. NumKinds : f = <<r, Kinds[i]>>
    /\ \A r, q \in Ruptures, i, j \in 1 .. NumKinds :
           <<r, Kinds[i]>> = <<q, Kinds[j]>> => r = q /\ i = j
<1>1. DOMAIN Kinds = 1 .. NumKinds /\ IsInjective(Kinds)
  BY Constants, CheckpointAssumption
<1>2. QED
  BY <1>1 DEF Files, ToSet, IsInjective

LEMMA InitInvariant == Init => IInv
<1> SUFFICES ASSUME Init PROVE IInv
  OBVIOUS
<1>1. <<>> \in Seq(Files) /\ <<>> \in Seq(Parts) /\ <<>> \in Seq(Ruptures) /\ Len(<<>>) = 0
  OBVIOUS
<1>2. ASSUME NEW r \in Ruptures
      PROVE  arrived[r] \in Arrivals /\ \A p \in Parts : arrived[r][p] = 0
  BY Constants DEF Init, Arrivals
<1>3. NumFiles \in 0 .. ShortValues - 1
  <2>1. Len(Kinds) * NumVars \in Nat /\ ShortValues \in Nat \ {0}
    BY Constants, CountFits DEF NumKinds
  <2>2. QED
    BY <2>1 DEF NumFiles
<1>4. Types
  BY <1>1, <1>2, <1>3, Constants, CheckpointAssumption DEF Init, Types, CacheType, Arrivals
<1>5. Streams
  BY <1>1 DEF Init, Streams
<1>6. Logged = {}
  BY DEF Init, Logged, ToSet
<1>7. ASSUME NEW r \in queue, NEW i \in 1 .. NumKinds
      PROVE  Once(Data(<<r, Kinds[i]>>), PartsIn(r, i))
  <2>1. Data(<<r, Kinds[i]>>) = <<>>
    BY <1>1, <1>7, FileNames, ConcatEmptySeq DEF Init, Data
  <2>2. PartsIn(r, i) = {}
    BY <1>2, <1>7 DEF PartsIn, Init
  <2>3. QED
    BY <2>1, <2>2 DEF Once, IsInjective, ToSet
<1>8. \A r \in queue : ~AllIn(r)
  BY <1>2, Constants, CheckpointAssumption DEF AllIn, Init
<1>9. Job
  BY <1>2, <1>6, <1>7, <1>8, CountStart DEF Job, Init
<1>10. Closing /\ Marked
  BY <1>6 DEF Init, Closing, Marked, IsInjective
<1>11. QED
  BY <1>4, <1>5, <1>9, <1>10 DEF IInv

LEMMA Longer ==
    ASSUME NEW S, NEW c \in Seq(S), NEW b \in Seq(S)
    PROVE  Len(c) <= Len(c \o b)
<1>1. Len(c \o b) = Len(c) + Len(b) /\ Len(c) \in Nat /\ Len(b) \in Nat
  BY ConcatProperties, LenProperties
<1>2. \A x, y \in Nat : x <= x + y
  OBVIOUS
<1>3. QED
  BY <1>1, <1>2

(* write_to_file appends to one file and leaves the others their data.       *)
LEMMA WriteData ==
    ASSUME Types, NEW f \in Files, NEW p \in Parts, Write(f, p)
    PROVE  /\ CacheType'
           /\ pending' \in [Files -> Seq(Parts)] /\ file' \in [Files -> Seq(Parts)]
           /\ Data(f)' = Append(Data(f), p)
           /\ \A g \in Files \ {f} : Data(g)' = Data(g)
           /\ \A g \in Files \ {f} : pending[g] = <<>> =>
                  pending'[g] = <<>> /\ file'[g] = file[g]
           /\ \A g \in Files : Len(file[g]) <= Len(file'[g])
           /\ \A g \in Files : pending'[g] # <<>> => g = f \/ (pending[g] # <<>> /\ g \notin Lru!Evicted(f))
<1> DEFINE u == Append(pending[f], p)
<1>1. PICK n \in 0 .. Len(u) :
          /\ Lru!Use(f)
          /\ file' = [g \in Files |->
                IF g = f THEN file[f] \o SubSeq(u, 1, n)
                ELSE IF g \in Lru!Evicted(f) THEN file[g] \o pending[g] ELSE file[g]]
          /\ pending' = [g \in Files |->
                IF g = f THEN SubSeq(u, n + 1, Len(u))
                ELSE IF g \in Lru!Evicted(f) THEN <<>> ELSE pending[g]]
  BY DEF Write
<1>2. \A g \in Files : file[g] \in Seq(Parts) /\ pending[g] \in Seq(Parts)
  BY DEF Types
<1>3. /\ SubSeq(u, 1, n) \in Seq(Parts) /\ SubSeq(u, n + 1, Len(u)) \in Seq(Parts)
      /\ file[f] \o SubSeq(u, 1, n) \in Seq(Parts)
      /\ (file[f] \o SubSeq(u, 1, n)) \o SubSeq(u, n + 1, Len(u)) = Append(file[f] \o pending[f], p)
  BY <1>2, Divided
<1> HIDE DEF u
<1>4. ASSUME NEW g \in Files
      PROVE  /\ file[g] \o pending[g] \in Seq(Parts)
             /\ (file[g] \o pending[g]) \o <<>> = file[g] \o pending[g]
             /\ pending[g] = <<>> => file[g] \o pending[g] = file[g]
             /\ Len(file[g]) <= Len(file[g] \o pending[g])
  <2>1. file[g] \o pending[g] \in Seq(Parts)
    BY <1>2, <1>4, ConcatProperties
  <2>2. Len(file[g]) <= Len(file[g] \o pending[g])
    BY <1>2, <1>4, Longer
  <2>3. (file[g] \o pending[g]) \o <<>> = file[g] \o pending[g] /\ file[g] \o <<>> = file[g]
    BY <1>2, <1>4, <2>1, ConcatEmptySeq
  <2>4. QED
    BY <2>1, <2>2, <2>3
<1>5. CacheType'
  BY <1>1, UseCache DEF Types
<1>6. Len(file[f]) <= Len(file[f] \o SubSeq(u, 1, n))
  BY <1>2, <1>3, Longer
<1>7. pending' \in [Files -> Seq(Parts)] /\ file' \in [Files -> Seq(Parts)]
  BY <1>1, <1>2, <1>3, <1>4
<1>8. Data(f)' = Append(Data(f), p)
  BY <1>1, <1>3 DEF Data
<1>9. ASSUME NEW g \in Files \ {f}
      PROVE  /\ Data(g)' = Data(g)
             /\ pending[g] = <<>> => pending'[g] = <<>> /\ file'[g] = file[g]
             /\ Len(file[g]) <= Len(file'[g])
  <2>1. Len(file[g]) \in Nat /\ Len(file[g]) <= Len(file[g])
    BY <1>2, LenProperties
  <2>2. CASE g \in Lru!Evicted(f)
    BY <1>1, <1>4, <2>2 DEF Data
  <2>3. CASE g \notin Lru!Evicted(f)
    <3>1. file'[g] = file[g] /\ pending'[g] = pending[g]
      BY <1>1, <2>3
    <3>2. QED
      BY <2>1, <3>1 DEF Data
  <2>4. QED
    BY <2>2, <2>3
<1>10. \A g \in Files : Len(file[g]) <= Len(file'[g])
  BY <1>1, <1>6, <1>9
<1>11. \A g \in Files : pending'[g] # <<>> => g = f \/ (pending[g] # <<>> /\ g \notin Lru!Evicted(f))
  BY <1>1
<1>12. QED
  BY <1>5, <1>7, <1>8, <1>9, <1>10, <1>11

LEMMA ClusterInvariant ==
    ASSUME PsaOn, IInv, NEW r \in Ruptures, NEW p \in Parts, ReceiveCluster(r, p)
    PROVE  IInv'
<1>0. PICK k : k = arrived[r][p] + 1
  OBVIOUS
<1> DEFINE f == <<r, Kinds[k]>>
           a == arrived[r]
           b == [a EXCEPT ![p] = @ + 1]
<1>1. SentKinds = Kinds
  BY DEF SentKinds, PsaOn
<1>2. /\ pc = "listen" /\ r \in queue /\ arrived[r][p] < NumKinds
      /\ arrived' = [arrived EXCEPT ![r] = b]
      /\ Write(f, p)
      /\ src_rup_table' = [src_rup_table EXCEPT ![r] = (@ - (Rvs[p][2] - Rvs[p][1])) % ShortValues]
      /\ IF src_rup_table'[r] = 0 THEN pc' = "sync" /\ cur' = r /\ step' = 1
                                  ELSE UNCHANGED <<pc, cur, step>>
      /\ UNCHANGED <<queue, durable, log, logDurable, nodeCrashes>>
  BY <1>0, <1>1 DEF ReceiveCluster, RuptureDone, NumKinds, IInv, Types
<1>3. Types /\ a \in Arrivals /\ k \in 1 .. NumKinds /\ f \in Files
  <2>1. Types /\ a \in Arrivals
    BY DEF IInv, Types
  <2>2. k \in 1 .. NumKinds
    BY <1>0, <1>2, <2>1, Constants DEF Arrivals
  <2>3. QED
    BY <2>1, <2>2, FileNames
<1>4. /\ b \in Arrivals /\ b[p] = a[p] + 1 /\ \A q \in Parts \ {p} : b[q] = a[q]
      /\ Cardinality(Lacking(b)) = Cardinality(Lacking(a)) - (Rvs[p][2] - Rvs[p][1])
  BY <1>2, <1>3, CountDown DEF Arrivals
<1>5. arrived'[r] = b /\ \A q \in Ruptures \ {r} : arrived'[q] = arrived[q]
  BY <1>2 DEF IInv, Types
<1>6. ~AllIn(r) /\ r \notin Logged
  BY <1>2, Constants DEF AllIn, IInv, Job
<1>7. /\ src_rup_table'[r] = Cardinality(Lacking(b))
      /\ \A q \in Ruptures \ {r} : src_rup_table'[q] = src_rup_table[q]
  <2>1. src_rup_table[r] = Cardinality(Lacking(a))
    BY <1>2 DEF IInv, Job
  <2>2. src_rup_table'[r] = Cardinality(Lacking(b)) % ShortValues
    BY <1>2, <1>4, <2>1 DEF IInv, Types
  <2>3. QED
    BY <1>2, <1>4, <2>2, LackingFinite DEF IInv, Types
<1>8. src_rup_table'[r] = 0 <=> AllIn(r)'
  BY <1>4, <1>5, <1>7, CountZero DEF AllIn
<1>9. /\ CacheType'
      /\ pending' \in [Files -> Seq(Parts)] /\ file' \in [Files -> Seq(Parts)]
      /\ Data(f)' = Append(Data(f), p)
      /\ \A g \in Files \ {f} : Data(g)' = Data(g)
      /\ \A g \in Files \ {f} : pending[g] = <<>> => pending'[g] = <<>> /\ file'[g] = file[g]
      /\ \A g \in Files : Len(file[g]) <= Len(file'[g])
      /\ \A g \in Files : pending'[g] # <<>> => g = f \/ (pending[g] # <<>> /\ g \notin Lru!Evicted(f))
      /\ Lru!Use(f)
  <2>1. Lru!Use(f)
    BY <1>2 DEF Write
  <2>2. QED
    BY <1>2, <1>3, <2>1, WriteData
<1> HIDE DEF f, a, b
<1>10. Types'
  <2>1. arrived' \in [Ruptures -> Arrivals]
    BY <1>2, <1>4 DEF IInv, Types
  <2>2. src_rup_table' \in [Ruptures -> 0 .. ShortValues - 1]
    BY <1>2, <1>4, <1>7, LackingFinite DEF IInv, Types
  <2>3. pc' \in {"listen", "sync"} /\ cur' \in Ruptures /\ step' \in 1 .. NumKinds
    BY <1>2, Constants DEF IInv, Types
  <2>4. QED
    BY <1>2, <1>9, <2>1, <2>2, <2>3 DEF IInv, Types
<1>11. Streams'
  <2>1. \A g \in Files : pending'[g] # <<>> => Lru!IsCached(g)'
    <3>1. /\ Lru!IsCached(f)'
          /\ \A g : Lru!IsCached(g) /\ g \notin Lru!Evicted(f) => Lru!IsCached(g)'
      BY <1>3, <1>9, UseCache DEF Types
    <3>2. QED
      BY <1>9, <3>1 DEF IInv, Streams
  <2>2. \A g \in Files : durable'[g] <= Len(file'[g])
    <3>1. ASSUME NEW g \in Files PROVE durable[g] <= Len(file'[g])
      <4>1. durable[g] \in Nat /\ Len(file[g]) \in Nat /\ Len(file'[g]) \in Nat
        BY <1>9, LenProperties DEF IInv, Types
      <4>2. durable[g] <= Len(file[g]) /\ Len(file[g]) <= Len(file'[g])
        BY <1>9 DEF IInv, Streams
      <4>3. \A x, y, z \in Nat : x <= y /\ y <= z => x <= z
        OBVIOUS
      <4>4. QED
        BY <4>1, <4>2, <4>3
    <3>2. QED
      BY <1>2, <3>1
  <2>3. pc' # "down"
    BY <1>2
  <2>4. QED
    BY <2>1, <2>2, <2>3 DEF Streams
<1>12. Job'
  <2>1. \A q \in Ruptures \ queue : q \in Logged
    BY <1>2 DEF IInv, Job
  <2>2. \A q \in queue : src_rup_table'[q] = Cardinality(Lacking(arrived'[q]))
    BY <1>2, <1>5, <1>7 DEF IInv, Job, Types
  <2>3. ASSUME NEW q \in queue, NEW i \in 1 .. NumKinds
        PROVE  Once(Data(<<q, Kinds[i]>>)', PartsIn(q, i)')
    <3>1. Once(Data(<<q, Kinds[i]>>), PartsIn(q, i))
      BY <1>2, <2>3 DEF IInv, Job
    <3>2. q \in Ruptures /\ <<q, Kinds[i]>> \in Files
      BY <2>3, FileNames DEF IInv, Types
    <3>3. CASE q = r /\ i = k
      <4>1. <<q, Kinds[i]>> = f
        BY <3>3 DEF f
      <4>2. p \notin PartsIn(q, i)
        BY <1>0, <3>3, <1>3 DEF PartsIn, a, Arrivals
      <4>3. PartsIn(q, i)' = PartsIn(q, i) \cup {p}
        BY <1>0, <3>3, <1>3, <1>4, <1>5 DEF PartsIn, a, Arrivals
      <4>4. Data(f) \in Seq(Parts)
        BY <1>3, ConcatProperties DEF Data, Types
      <4>5. QED
        <5>1. Once(Append(Data(f), p), PartsIn(q, i) \cup {p})
          BY <3>1, <4>1, <4>2, <4>4, AppendOnce
        <5>2. Data(<<q, Kinds[i]>>)' = Data(f)'
          BY <4>1
        <5>3. QED
          BY <1>9, <4>3, <5>1, <5>2
    <3>4. CASE ~(q = r /\ i = k)
      <4>1. <<q, Kinds[i]>> # f
        BY <1>3, <3>2, <3>4, FileNames DEF f
      <4>2. PartsIn(q, i)' = PartsIn(q, i)
        <5>1. CASE q # r
          BY <1>5, <3>2, <5>1 DEF PartsIn
        <5>2. CASE q = r
          <6>1. ASSUME NEW x \in Parts PROVE b[x] >= i <=> a[x] >= i
            BY <1>0, <1>3, <1>4, <3>4, <5>2 DEF a, Arrivals
          <6>2. QED
            BY <1>5, <5>2, <6>1 DEF PartsIn, a
        <5>3. QED
          BY <5>1, <5>2
      <4>3. QED
        BY <1>9, <3>1, <3>2, <4>1, <4>2
    <3>5. QED
      BY <3>3, <3>4
  <2>4. ASSUME NEW q \in queue
        PROVE  AllIn(q)' <=> q \in Logged' \/ (pc' \in {"sync", "mark"} /\ cur' = q)
    <3>1. Logged' = Logged
      BY <1>2 DEF Logged
    <3>2. CASE q = r
      BY <1>2, <1>6, <1>8, <3>1, <3>2
    <3>3. CASE q # r
      <4>1. AllIn(q)' <=> AllIn(q)
        BY <1>5, <3>3 DEF AllIn, IInv, Types
      <4>2. AllIn(q) <=> q \in Logged
        BY <1>2 DEF IInv, Job
      <4>3. ~(pc' \in {"sync", "mark"} /\ cur' = q)
        BY <1>2, <3>3
      <4>4. QED
        BY <3>1, <4>1, <4>2, <4>3
    <3>4. QED
      BY <3>2, <3>3
  <2>5. Logged' = Logged /\ queue' = queue
    BY <1>2 DEF Logged
  <2>6. QED
    BY <2>1, <2>2, <2>3, <2>4, <2>5, <1>2 DEF Job
<1>13. Closing'
  BY <1>2, <1>6, Constants DEF Closing, Logged
<1>14. Marked'
  <2>1. Logged' = Logged /\ log' = log /\ nodeCrashes' = nodeCrashes
    BY <1>2 DEF Logged
  <2>2. ASSUME NEW q \in Logged, NEW i \in 1 .. NumKinds
        PROVE  /\ pending'[<<q, Kinds[i]>>] = <<>>
               /\ file'[<<q, Kinds[i]>>] = file[<<q, Kinds[i]>>]
    <3>1. q \in Ruptures /\ q # r
      BY <1>6 DEF Logged, ToSet, IInv, Types
    <3>2. <<q, Kinds[i]>> \in Files \ {f}
      BY <1>3, <3>1, FileNames DEF f
    <3>3. pending[<<q, Kinds[i]>>] = <<>>
      BY DEF IInv, Marked
    <3>4. QED
      BY <1>9, <3>2, <3>3
  <2>3. QED
    BY <2>1, <2>2 DEF IInv, Marked, Complete
<1>15. QED
  BY <1>10, <1>11, <1>12, <1>13, <1>14 DEF IInv

(* Closing one file: what its buffer held goes into it; all others keep what *)
(* they have.                                                                *)
LEMMA CloseInvariant == ASSUME IInv, FsyncAndClose PROVE IInv'
<1>0. PICK k : k = step
  OBVIOUS
<1>1. PICK c : c = cur
  OBVIOUS
<1> DEFINE f == <<c, Kinds[k]>>
<1>2. /\ pc = "sync"
      /\ IF Lru!IsCached(f)
         THEN /\ Lru!Close(f)
              /\ durable' = [durable EXCEPT ![f] = Len(file[f])]
              /\ file' = [file EXCEPT ![f] = @ \o pending[f]]
              /\ pending' = [pending EXCEPT ![f] = <<>>]
         ELSE UNCHANGED <<recent, durable, file, pending>>
      /\ IF k < NumKinds THEN step' = k + 1 /\ pc' = "sync" ELSE step' = k /\ pc' = "mark"
      /\ UNCHANGED <<queue, src_rup_table, arrived, cur, log, logDurable, nodeCrashes>>
  BY <1>0, <1>1 DEF FsyncAndClose, NumKinds
<1>3. /\ c \in queue /\ c \in Ruptures /\ c \notin Logged /\ k \in 1 .. NumKinds /\ f \in Files
      /\ Types
  BY <1>0, <1>1, <1>2, FileNames DEF IInv, Types, Closing
<1>4. \A g \in Files : file[g] \in Seq(Parts) /\ pending[g] \in Seq(Parts)
  BY <1>3 DEF Types
<1> HIDE DEF f
<1>5. file[f] \o pending[f] \in Seq(Parts) /\ (file[f] \o pending[f]) \o <<>> = file[f] \o pending[f]
  BY <1>3, <1>4, ConcatProperties, ConcatEmptySeq
<1>6. pending'[f] = <<>> /\ Data(f)' = Data(f)
  <2>1. CASE Lru!IsCached(f)
    BY <1>2, <1>3, <1>5, <2>1 DEF Data, Types
  <2>2. CASE ~Lru!IsCached(f)
    BY <1>2, <1>3, <2>2 DEF Data, IInv, Streams
  <2>3. QED
    BY <2>1, <2>2
<1>7. ASSUME NEW g \in Files \ {f}
      PROVE  pending'[g] = pending[g] /\ file'[g] = file[g] /\ durable'[g] = durable[g]
  BY <1>2, <1>3 DEF Types
<1>8. Types'
  <2>1. pending' \in [Files -> Seq(Parts)] /\ file' \in [Files -> Seq(Parts)]
    <3>1. CASE Lru!IsCached(f)
      <4>1. <<>> \in Seq(Parts)
        OBVIOUS
      <4>2. /\ file' = [file EXCEPT ![f] = file[f] \o pending[f]]
            /\ pending' = [pending EXCEPT ![f] = <<>>]
        BY <1>2, <3>1
      <4>3. pending \in [Files -> Seq(Parts)] /\ file \in [Files -> Seq(Parts)]
        BY <1>3 DEF Types
      <4>4. QED
        BY <1>3, <1>5, <4>1, <4>2, <4>3
    <3>2. CASE ~Lru!IsCached(f)
      BY <1>2, <1>3, <3>2 DEF Types
    <3>3. QED
      BY <3>1, <3>2
  <2>2. durable' \in [Files -> Nat]
    <3>1. Len(file[f]) \in Nat
      BY <1>3, <1>4, LenProperties
    <3>2. QED
      BY <1>2, <1>3, <3>1 DEF Types
  <2>3. CacheType'
    <3>1. CASE Lru!IsCached(f)
      BY <1>2, <1>3, <3>1, CloseCache DEF Types
    <3>2. CASE ~Lru!IsCached(f)
      BY <1>2, <1>3, <3>2 DEF Types, CacheType
    <3>3. QED
      BY <3>1, <3>2
  <2>4. step' \in 1 .. NumKinds /\ pc' \in {"sync", "mark"}
    BY <1>2, <1>3, Constants
  <2>5. QED
    BY <1>2, <2>1, <2>2, <2>3, <2>4 DEF IInv, Types
<1>9. Streams'
  <2>1. ASSUME NEW g \in Files, pending'[g] # <<>> PROVE Lru!IsCached(g)'
    <3>1. g # f /\ pending[g] # <<>>
      BY <1>6, <1>7, <2>1
    <3>2. Lru!IsCached(g)
      BY <3>1 DEF IInv, Streams
    <3>3. CASE Lru!IsCached(f)
      BY <1>2, <1>3, <3>1, <3>2, <3>3, CloseCache DEF Types
    <3>4. CASE ~Lru!IsCached(f)
      BY <1>2, <3>2, <3>4 DEF Lru!IsCached
    <3>5. QED
      BY <3>3, <3>4
  <2>2. ASSUME NEW g \in Files PROVE durable'[g] <= Len(file'[g])
    <3>1. durable[g] <= Len(file[g])
      BY DEF IInv, Streams
    <3>2. CASE g = f /\ Lru!IsCached(f)
      <4>1. durable'[g] = Len(file[f]) /\ file'[g] = file[f] \o pending[f]
        BY <1>2, <1>3, <3>2 DEF Types
      <4>2. QED
        BY <1>3, <1>4, <4>1, Longer
    <3>3. CASE ~(g = f /\ Lru!IsCached(f))
      BY <1>2, <1>7, <3>1, <3>3
    <3>4. QED
      BY <3>2, <3>3
  <2>3. pc' # "down"
    BY <1>2
  <2>4. QED
    BY <2>1, <2>2, <2>3 DEF Streams
<1>10. Logged' = Logged /\ \A g \in Files : Data(g)' = Data(g)
  BY <1>2, <1>6, <1>7 DEF Logged, Data
<1>11. Job'
  <2>1. \A q \in queue, i \in 1 .. NumKinds : <<q, Kinds[i]>> \in Files
    BY <1>3, FileNames DEF Types
  <2>2. \A q \in queue, i \in 1 .. NumKinds : Once(Data(<<q, Kinds[i]>>)', PartsIn(q, i))
    BY <1>2, <1>10, <2>1 DEF IInv, Job
  <2>3. \A q, i : PartsIn(q, i)' = PartsIn(q, i) /\ AllIn(q)' = AllIn(q)
    BY <1>2 DEF PartsIn, AllIn
  <2>4. QED
    BY <1>2, <1>10, <2>2, <2>3 DEF IInv, Job
<1>12. Closing'
  <2>1. \A i \in 1 .. k - 1 : pending[<<c, Kinds[i]>>] = <<>>
    BY <1>0, <1>1, <1>2 DEF IInv, Closing
  <2>2. \A i \in 1 .. k : pending'[<<c, Kinds[i]>>] = <<>>
    <3>1. ASSUME NEW i \in 1 .. k PROVE pending'[<<c, Kinds[i]>>] = <<>>
      <4>1. CASE i = k
        BY <1>6, <4>1 DEF f
      <4>2. CASE i # k
        <5>1. i \in 1 .. k - 1 /\ i \in 1 .. NumKinds
          BY <1>3, <4>2, Constants
        <5>2. <<c, Kinds[i]>> \in Files \ {f}
          BY <1>3, <4>2, <5>1, FileNames DEF f
        <5>3. QED
          BY <1>7, <2>1, <5>1, <5>2
      <4>3. QED
        BY <4>1, <4>2
    <3>2. QED
      BY <3>1
  <2>3. cur' = c /\ queue' = queue
    BY <1>1, <1>2
  <2>4. CASE k < NumKinds
    BY <1>2, <1>3, <1>10, <2>2, <2>3, <2>4 DEF Closing
  <2>5. CASE ~(k < NumKinds)
    <3>1. k = NumKinds
      BY <1>3, <2>5, Constants
    <3>2. QED
      BY <1>2, <1>3, <1>10, <2>2, <2>3, <3>1 DEF Closing
  <2>6. QED
    BY <2>4, <2>5
<1>13. Marked'
  <2>1. ASSUME NEW q \in Logged, NEW i \in 1 .. NumKinds
        PROVE  <<q, Kinds[i]>> \in Files \ {f}
    <3>1. q \in Ruptures /\ q # c
      BY <1>3 DEF Logged, ToSet, Types
    <3>2. QED
      BY <1>3, <3>1, FileNames DEF f
  <2>2. QED
    BY <1>2, <1>7, <1>10, <2>1 DEF IInv, Marked, Complete
<1>14. QED
  BY <1>8, <1>9, <1>11, <1>12, <1>13 DEF IInv

(* The line is written: all the files of the rupture are complete.           *)
LEMMA MarkInvariant == ASSUME IInv, Mark PROVE IInv'
<1>1. PICK c : c = cur
  OBVIOUS
<1>2. /\ pc = "mark" /\ pc' = "listen" /\ log' = Append(log, c)
      /\ UNCHANGED <<queue, src_rup_table, arrived, cur, step, recent, pending, file, durable,
                     logDurable, nodeCrashes>>
  BY <1>1 DEF Mark
<1>3. c \in Ruptures /\ c \in queue /\ c \notin Logged /\ log \in Seq(Ruptures)
  BY <1>1, <1>2 DEF IInv, Types, Closing
<1>4. /\ log' \in Seq(Ruptures) /\ Len(log') = Len(log) + 1
      /\ \A i \in 1 .. Len(log) : log'[i] = log[i]
      /\ log'[Len(log) + 1] = c
      /\ DOMAIN log = 1 .. Len(log) /\ DOMAIN log' = 1 .. Len(log) + 1 /\ Len(log) \in Nat
  BY <1>2, <1>3, AppendProperties, LenProperties
<1>5. Logged' = Logged \cup {c}
  BY <1>4 DEF Logged, ToSet
<1>6. IsInjective(log')
  <2>1. \A i \in 1 .. Len(log) : log[i] # c
    BY <1>3, <1>4 DEF Logged, ToSet
  <2>2. QED
    BY <1>4, <2>1 DEF IInv, Marked, IsInjective
<1>7. AllIn(c)
  BY <1>1, <1>2, <1>3 DEF IInv, Job
<1>8. ASSUME NEW i \in 1 .. NumKinds
      PROVE  pending[<<c, Kinds[i]>>] = <<>> /\ Complete(<<c, Kinds[i]>>)
  <2> DEFINE f == <<c, Kinds[i]>>
  <2>1. pending[f] = <<>>
    BY <1>1, <1>2 DEF IInv, Closing
  <2>2. f \in Files /\ file[f] \in Seq(Parts)
    BY <1>3, FileNames DEF IInv, Types
  <2>3. Data(f) = file[f]
    BY <2>1, <2>2, ConcatEmptySeq DEF Data
  <2>4. PartsIn(c, i) = Parts
    BY <1>7, Constants DEF PartsIn, AllIn
  <2>5. Once(file[f], Parts)
    BY <1>2, <1>3, <2>3, <2>4 DEF IInv, Job
  <2>6. QED
    BY <2>1, <2>2, <2>5, OnceLength DEF Complete, Once
<1>9. Types'
  <2>1. logDurable' \in 0 .. Len(log')
    BY <1>2, <1>4 DEF IInv, Types
  <2>2. QED
    BY <1>2, <1>4, <2>1 DEF IInv, Types, CacheType
<1>10. Streams'
  BY <1>2 DEF IInv, Streams, Lru!IsCached
<1>11. Job'
  <2>1. \A q, i : /\ PartsIn(q, i)' = PartsIn(q, i) /\ AllIn(q)' = AllIn(q)
                  /\ Data(<<q, Kinds[i]>>)' = Data(<<q, Kinds[i]>>)
    BY <1>2 DEF PartsIn, AllIn, Data
  <2>2. QED
    BY <1>1, <1>2, <1>5, <2>1 DEF IInv, Job
<1>12. Closing'
  BY <1>2 DEF Closing
<1>13. Marked'
  BY <1>2, <1>5, <1>6, <1>8 DEF IInv, Marked, Complete
<1>14. QED
  BY <1>9, <1>10, <1>11, <1>12, <1>13 DEF IInv

(* WORKERS_COMPLETE: all buffers go to their files. *)
LEMMA DoneInvariant == ASSUME IInv, WorkersComplete PROVE IInv'
<1>1. /\ pc = "listen" /\ pc' = "down" /\ recent' = <<>>
      /\ file' = [f \in Files |-> file[f] \o pending[f]]
      /\ pending' = [f \in Files |-> <<>>]
      /\ UNCHANGED <<queue, src_rup_table, arrived, cur, step, durable, log, logDurable, nodeCrashes>>
  BY DEF WorkersComplete, Lru!CloseAll
<1>2. ASSUME NEW f \in Files
      PROVE  /\ file[f] \in Seq(Parts) /\ pending[f] \in Seq(Parts)
             /\ file'[f] \in Seq(Parts) /\ file'[f] = file[f] \o pending[f]
             /\ Len(file[f]) <= Len(file'[f])
             /\ pending[f] = <<>> => file'[f] = file[f]
             /\ pending'[f] = <<>>
  <2>1. file[f] \in Seq(Parts) /\ pending[f] \in Seq(Parts)
    BY <1>2 DEF IInv, Types
  <2>2. /\ file[f] \o pending[f] \in Seq(Parts)
        /\ Len(file[f]) <= Len(file[f] \o pending[f])
        /\ file[f] \o <<>> = file[f]
    BY <2>1, ConcatProperties, ConcatEmptySeq, Longer
  <2>3. QED
    BY <1>1, <1>2, <2>1, <2>2
<1>3. Types'
  <2>1. file' \in [Files -> Seq(Parts)] /\ pending' \in [Files -> Seq(Parts)]
    <3>1. <<>> \in Seq(Parts)
      OBVIOUS
    <3>2. QED
      BY <1>1, <1>2, <3>1
  <2>2. CacheType'
    BY <1>1, CheckpointAssumption DEF CacheType
  <2>3. QED
    BY <1>1, <2>1, <2>2 DEF IInv, Types
<1>4. Streams'
  <2>1. ASSUME NEW f \in Files PROVE durable'[f] <= Len(file'[f])
    <3>1. durable[f] \in Nat /\ Len(file[f]) \in Nat /\ Len(file'[f]) \in Nat
      BY <1>2, LenProperties DEF IInv, Types
    <3>2. durable[f] <= Len(file[f]) /\ Len(file[f]) <= Len(file'[f])
      BY <1>2 DEF IInv, Streams
    <3>3. \A x, y, z \in Nat : x <= y /\ y <= z => x <= z
      OBVIOUS
    <3>4. QED
      BY <1>1, <3>1, <3>2, <3>3
  <2>2. QED
    BY <1>2, <2>1 DEF Streams
<1>5. Job' /\ Closing'
  BY <1>1 DEF Job, Closing
<1>6. Marked'
  <2>1. \A r \in Logged, i \in 1 .. NumKinds : <<r, Kinds[i]>> \in Files
    BY FileNames DEF Logged, ToSet, IInv, Types
  <2>2. Logged' = Logged /\ log' = log /\ nodeCrashes' = nodeCrashes
    BY <1>1 DEF Logged
  <2>3. ASSUME NEW r \in Logged, NEW i \in 1 .. NumKinds
        PROVE  /\ pending'[<<r, Kinds[i]>>] = <<>>
               /\ file'[<<r, Kinds[i]>>] = file[<<r, Kinds[i]>>]
    <3>1. pending[<<r, Kinds[i]>>] = <<>>
      BY DEF IInv, Marked
    <3>2. QED
      BY <1>2, <2>1, <3>1
  <2>4. QED
    BY <2>2, <2>3 DEF IInv, Marked, Complete
<1>7. QED
  BY <1>3, <1>4, <1>5, <1>6 DEF IInv

(* The process dies: what was in the buffers is gone. *)
LEMMA CrashInvariant == ASSUME IInv, ProcessCrash PROVE IInv'
<1>1. /\ pc' = "down" /\ recent' = <<>> /\ pending' = [f \in Files |-> <<>>]
      /\ UNCHANGED <<queue, src_rup_table, arrived, cur, step, file, durable, log, logDurable, nodeCrashes>>
  BY DEF ProcessCrash, LoseMemory
<1>2. <<>> \in Seq(Parts) /\ \A f \in Files : pending'[f] = <<>>
  BY <1>1
<1>3. Types'
  <2>1. CacheType'
    BY <1>1, CheckpointAssumption DEF CacheType
  <2>2. pending' \in [Files -> Seq(Parts)]
    BY <1>1, <1>2
  <2>3. QED
    BY <1>1, <2>1, <2>2 DEF IInv, Types
<1>4. Streams'
  BY <1>1, <1>2 DEF IInv, Streams
<1>5. Job' /\ Closing'
  BY <1>1 DEF Job, Closing
<1>6. Marked'
  <2>1. \A r \in Logged, i \in 1 .. NumKinds : <<r, Kinds[i]>> \in Files
    BY FileNames DEF Logged, ToSet, IInv, Types
  <2>2. Logged' = Logged /\ log' = log
    BY <1>1 DEF Logged
  <2>3. QED
    BY <1>1, <1>2, <2>1, <2>2 DEF IInv, Marked, Complete
<1>7. QED
  BY <1>3, <1>4, <1>5, <1>6 DEF IInv

(* The node dies: of the files and of the log a first part remains. *)
LEMMA NodeInvariant == ASSUME IInv, NodeCrash PROVE IInv'
<1>1. PICK kept \in WrittenBack, lines \in logDurable .. Len(log) :
          /\ file' = [f \in Files |-> SubSeq(file[f], 1, kept[f])]
          /\ durable' = kept
          /\ log' = SubSeq(log, 1, lines)
          /\ logDurable' = lines
  BY DEF NodeCrash
<1>2. /\ pc' = "down" /\ recent' = <<>> /\ pending' = [f \in Files |-> <<>>]
      /\ UNCHANGED <<queue, src_rup_table, arrived, cur, step>>
      /\ nodeCrashes' = nodeCrashes + 1
  BY DEF NodeCrash, LoseMemory
<1>3. /\ log \in Seq(Ruptures) /\ Len(log) \in Nat /\ logDurable \in Nat /\ nodeCrashes \in Nat
      /\ \A i \in 1 .. Len(log) : log[i] \in Ruptures
  BY LenProperties, ElementOfSeq DEF IInv, Types
<1>4. lines \in Nat /\ lines <= Len(log)
  BY <1>3
<1>5. /\ log' \in Seq(Ruptures) /\ Len(log') = lines
      /\ \A i \in 1 .. lines : log'[i] = log[i]
  BY <1>1, <1>3, <1>4, SubSeqProperties
<1>6. DOMAIN log = 1 .. Len(log) /\ DOMAIN log' = 1 .. lines
  BY <1>3, <1>5, LenProperties
<1>7. ASSUME NEW f \in Files
      PROVE  /\ file'[f] \in Seq(Parts) /\ kept[f] \in Nat /\ Len(file'[f]) = kept[f]
  <2>1. /\ file[f] \in Seq(Parts) /\ Len(file[f]) \in Nat /\ durable[f] \in Nat
        /\ \A i \in 1 .. Len(file[f]) : file[f][i] \in Parts
    BY LenProperties, ElementOfSeq DEF IInv, Types
  <2>2. kept[f] \in durable[f] .. Len(file[f])
    BY <1>7 DEF WrittenBack
  <2>3. kept[f] \in Nat /\ kept[f] <= Len(file[f])
    BY <2>1, <2>2
  <2>4. SubSeq(file[f], 1, kept[f]) \in Seq(Parts) /\ Len(SubSeq(file[f], 1, kept[f])) = kept[f]
    BY <2>1, <2>3, SubSeqProperties
  <2>5. QED
    BY <1>1, <2>3, <2>4
<1>8. Types'
  <2>1. CacheType'
    BY <1>2, CheckpointAssumption DEF CacheType
  <2>2. pending' \in [Files -> Seq(Parts)] /\ file' \in [Files -> Seq(Parts)]
    <3>1. <<>> \in Seq(Parts)
      OBVIOUS
    <3>2. QED
      BY <1>1, <1>2, <1>7, <3>1
  <2>3. durable' \in [Files -> Nat]
    <3>1. kept \in [Files -> 0 .. Max({Len(file[f]) : f \in Files})]
      BY DEF WrittenBack
    <3>2. QED
      BY <1>1, <1>7, <3>1
  <2>4. logDurable' \in 0 .. Len(log') /\ nodeCrashes' \in Nat
    BY <1>1, <1>2, <1>3, <1>4, <1>5
  <2>5. QED
    BY <1>2, <1>5, <2>1, <2>2, <2>3, <2>4 DEF IInv, Types
<1>9. Streams'
  <2>1. ASSUME NEW f \in Files PROVE durable'[f] <= Len(file'[f]) /\ pending'[f] = <<>>
    BY <1>1, <1>2, <1>7
  <2>2. QED
    BY <2>1 DEF Streams
<1>10. Job' /\ Closing'
  BY <1>2 DEF Job, Closing
<1>11. Marked'
  <2>1. ASSUME NEW r \in Logged', NEW i \in 1 .. NumKinds PROVE pending'[<<r, Kinds[i]>>] = <<>>
    <3>1. r \in Ruptures
      BY <1>5, ElementOfSeq, LenProperties DEF Logged, ToSet
    <3>2. QED
      BY <1>2, <3>1, FileNames
  <2>2. nodeCrashes' # 0
    BY <1>2, <1>3
  <2>3. IsInjective(log')
    BY <1>4, <1>5, <1>6, <1>3 DEF IInv, Marked, IsInjective
  <2>4. QED
    BY <2>1, <2>2, <2>3 DEF Marked
<1>12. QED
  BY <1>8, <1>9, <1>10, <1>11 DEF IInv

(* The next job: what is not logged starts afresh, with empty files. *)
LEMMA RestartInvariant == ASSUME IInv, Restart PROVE IInv'
<1> DEFINE rs == Ruptures \ Logged
<1>1. /\ pc = "down" /\ pc' = "listen" /\ queue' = rs
      /\ src_rup_table' = [r \in Ruptures |-> IF r \in rs THEN NumFiles ELSE src_rup_table[r]]
      /\ arrived' = [r \in Ruptures |-> [p \in Parts |-> 0]]
      /\ file' = [f \in Files |-> IF f[1] \in rs THEN <<>> ELSE file[f]]
      /\ durable' = [f \in Files |-> IF f[1] \in rs THEN 0 ELSE durable[f]]
      /\ UNCHANGED <<cur, step, recent, pending, log, logDurable, nodeCrashes>>
  BY DEF Restart, Restart_With, Unlink
<1>2. Logged' = Logged
  BY <1>1 DEF Logged
<1>3. ASSUME NEW r \in Ruptures
      PROVE  /\ arrived'[r] \in Arrivals /\ \A p \in Parts : arrived'[r][p] = 0
  BY <1>1, Constants DEF Arrivals
<1>4. ASSUME NEW r \in Ruptures
      PROVE  Cardinality(Lacking(arrived'[r])) = NumFiles /\ NumFiles \in 0 .. ShortValues - 1
  <2>1. PICK a : a = arrived'[r]
    OBVIOUS
  <2>2. a \in Arrivals /\ \A p \in Parts : a[p] = 0
    BY <1>3, <2>1
  <2>3. Cardinality(Lacking(a)) = NumFiles /\ Cardinality(Lacking(a)) \in 0 .. ShortValues - 1
    BY <2>2, CountStart, LackingFinite
  <2>4. QED
    BY <2>1, <2>3
<1>5. ASSUME NEW r \in Ruptures, NEW i \in 1 .. NumKinds
      PROVE  /\ <<r, Kinds[i]>> \in Files /\ pending'[<<r, Kinds[i]>>] = <<>>
             /\ file'[<<r, Kinds[i]>>] = IF r \in rs THEN <<>> ELSE file[<<r, Kinds[i]>>]
  <2>1. <<r, Kinds[i]>> \in Files
    BY FileNames
  <2>2. QED
    BY <1>1, <2>1 DEF IInv, Streams
<1> HIDE DEF rs
<1>6. Types'
  <2>1. queue' \subseteq Ruptures
    BY <1>1 DEF rs
  <2>2. src_rup_table' \in [Ruptures -> 0 .. ShortValues - 1]
    BY <1>1, <1>4 DEF IInv, Types
  <2>3. arrived' \in [Ruptures -> Arrivals]
    BY <1>1, <1>3
  <2>4. file' \in [Files -> Seq(Parts)] /\ durable' \in [Files -> Nat]
    <3>1. <<>> \in Seq(Parts)
      OBVIOUS
    <3>2. QED
      BY <1>1, <3>1 DEF IInv, Types
  <2>5. CacheType'
    BY <1>1 DEF IInv, Types, CacheType
  <2>6. QED
    BY <1>1, <2>1, <2>2, <2>3, <2>4, <2>5 DEF IInv, Types
<1>7. Streams'
  <2>1. ASSUME NEW f \in Files PROVE durable'[f] <= Len(file'[f])
    <3>1. durable[f] <= Len(file[f]) /\ Len(<<>>) = 0
      BY DEF IInv, Streams
    <3>2. QED
      BY <1>1, <3>1
  <2>2. QED
    BY <1>1, <2>1 DEF IInv, Streams, Lru!IsCached
<1>8. Job'
  <2>1. \A r \in Ruptures \ queue' : r \in Logged'
    BY <1>1, <1>2 DEF rs
  <2>2. \A r \in queue' : src_rup_table'[r] = Cardinality(Lacking(arrived'[r]))
    BY <1>1, <1>4 DEF rs
  <2>3. ASSUME NEW r \in queue', NEW i \in 1 .. NumKinds
        PROVE  Once(Data(<<r, Kinds[i]>>)', PartsIn(r, i)')
    <3>1. r \in Ruptures /\ r \in rs
      BY <1>1, <2>3 DEF rs
    <3>2. Data(<<r, Kinds[i]>>)' = <<>>
      BY <1>5, <3>1 DEF Data
    <3>3. PartsIn(r, i)' = {}
      BY <1>3, <3>1 DEF PartsIn
    <3>4. QED
      BY <3>2, <3>3 DEF Once, IsInjective, ToSet
  <2>4. ASSUME NEW r \in queue'
        PROVE  ~AllIn(r)' /\ r \notin Logged' /\ pc' \notin {"sync", "mark"}
    <3>1. r \in Ruptures /\ r \notin Logged
      BY <1>1, <2>4 DEF rs
    <3>2. ~AllIn(r)'
      BY <1>3, <3>1, Constants, CheckpointAssumption DEF AllIn
    <3>3. QED
      BY <1>1, <1>2, <3>1, <3>2
  <2>5. QED
    BY <2>1, <2>2, <2>3, <2>4 DEF Job
<1>9. Closing'
  BY <1>1 DEF Closing
<1>10. Marked'
  <2>1. ASSUME NEW r \in Logged, NEW i \in 1 .. NumKinds
        PROVE  /\ pending'[<<r, Kinds[i]>>] = <<>>
               /\ file'[<<r, Kinds[i]>>] = file[<<r, Kinds[i]>>]
    <3>1. r \in Ruptures /\ r \notin rs
      BY DEF rs, Logged, ToSet, IInv, Types
    <3>2. QED
      BY <1>5, <3>1
  <2>2. log' = log /\ nodeCrashes' = nodeCrashes
    BY <1>1
  <2>3. QED
    BY <1>2, <2>1, <2>2 DEF IInv, Marked, Complete
<1>11. QED
  BY <1>6, <1>7, <1>8, <1>9, <1>10 DEF IInv

LEMMA StepInvariant == ASSUME PsaOn, IInv, [Next]_vars PROVE IInv'
<1>1. ASSUME NEW r \in Ruptures, NEW p \in Parts, ReceiveCluster(r, p) PROVE IInv'
  BY <1>1, ClusterInvariant
<1>2. CASE FsyncAndClose
  BY <1>2, CloseInvariant
<1>3. CASE Mark
  BY <1>3, MarkInvariant
<1>4. CASE WorkersComplete
  BY <1>4, DoneInvariant
<1>5. CASE ProcessCrash
  BY <1>5, CrashInvariant
<1>6. CASE NodeCrash
  BY <1>6, NodeInvariant
<1>7. CASE Restart
  BY <1>7, RestartInvariant
<1>8. CASE UNCHANGED vars
  <2>1. /\ UNCHANGED <<pc, queue, src_rup_table, arrived, cur, step, recent>>
        /\ UNCHANGED <<pending, file, durable, log, logDurable, nodeCrashes>>
    BY <1>8 DEF vars, memory, storage
  <2>2. Types' /\ Streams'
    BY <2>1 DEF IInv, Types, CacheType, Streams, Lru!IsCached
  <2>3. Logged' = Logged /\ \A q, i : /\ PartsIn(q, i)' = PartsIn(q, i) /\ AllIn(q)' = AllIn(q)
                                      /\ Data(<<q, Kinds[i]>>)' = Data(<<q, Kinds[i]>>)
    BY <2>1 DEF PartsIn, AllIn, Data, Logged
  <2>4. Job'
    BY <2>1, <2>3 DEF IInv, Job
  <2>5. Closing' /\ Marked'
    BY <2>1, <2>3 DEF IInv, Closing, Marked, Complete
  <2>6. QED
    BY <2>2, <2>4, <2>5 DEF IInv
<1>9. QED
  BY <1>1, <1>2, <1>3, <1>4, <1>5, <1>6, <1>7, <1>8 DEF Next, Master
-----------------------------------------------------------------------------
(* The inductive invariant holds in every state of the program: through any  *)
(* number of stops of the process, failures of the node and restarts.        *)
THEOREM Invariance == ASSUME PsaOn PROVE SafeSpec => []IInv
<1>1. IInv /\ [Next]_vars => IInv'
  BY StepInvariant
<1>2. QED
  BY <1>1, InitInvariant, PTL DEF SafeSpec

LEMMA LoggedFiles == ASSUME IInv PROVE Logged \subseteq Ruptures /\ DOMAIN Kinds = 1 .. NumKinds
BY Constants DEF IInv, Types, Logged, ToSet

(* As long as the node is up, a rupture with a line in checkpoint.out has    *)
(* every output file complete (master.c 140-160, fp_cache.c fsync_and_close).*)
THEOREM CheckpointedFilesComplete == ASSUME PsaOn PROVE SafeSpec => []CheckpointedComplete
<1>1. IInv => CheckpointedComplete
  BY LoggedFiles DEF IInv, Marked, CheckpointedComplete
<1>2. QED
  BY <1>1, Invariance, PTL

(* No rupture gets a second line in checkpoint.out.                          *)
THEOREM LoggedAtMostOnce == ASSUME PsaOn PROVE SafeSpec => []LoggedOnce
<1>1. IInv => LoggedOnce
  BY DEF IInv, Marked, LoggedOnce
<1>2. QED
  BY <1>1, Invariance, PTL

(* A job that has all its data has logged every rupture of the list: the     *)
(* count the master keeps in a short is zero when, and only when, all is in. *)
THEOREM AllInAllLogged == ASSUME PsaOn PROVE SafeSpec => []AllDataAllLogged
<1>1. SentKinds = Kinds
  BY DEF SentKinds, PsaOn
<1>2. IInv => AllDataAllLogged
  <2>1. SUFFICES ASSUME IInv, pc = "listen", AllArrived PROVE Logged = Ruptures
    BY DEF AllDataAllLogged
  <2>2. \A r \in queue : AllIn(r)
    BY <1>1, <2>1 DEF AllArrived, AllIn, NumKinds
  <2>3. \A r \in Ruptures : r \in Logged
    BY <2>1, <2>2 DEF IInv, Job
  <2>4. QED
    BY <2>1, <2>3, LoggedFiles
<1>3. QED
  BY <1>2, Invariance, PTL

(* Once a rupture is logged its files stay as they are: no cluster is        *)
(* written to them, no stream flushed into them and no restart unlinks them. *)
THEOREM LoggedFilesUntouched == ASSUME PsaOn PROVE SafeSpec => CheckpointedUntouched
<1> DEFINE Kept == nodeCrashes' = nodeCrashes =>
               \A r \in Logged, i \in DOMAIN Kinds :
                   file'[<<r, Kinds[i]>>] = file[<<r, Kinds[i]>>]
<1>1. ASSUME PsaOn, IInv, [Next]_vars, nodeCrashes' = nodeCrashes,
             NEW r \in Logged, NEW i \in DOMAIN Kinds
      PROVE  file'[<<r, Kinds[i]>>] = file[<<r, Kinds[i]>>]
  <2> DEFINE f == <<r, Kinds[i]>>
  <2>1. r \in Ruptures /\ i \in 1 .. NumKinds /\ f \in Files /\ Types
    BY <1>1, LoggedFiles, FileNames DEF IInv
  <2>2. pending[f] = <<>>
    BY <1>1, <2>1 DEF IInv, Marked
  <2>3. file[f] \in Seq(Parts) /\ file[f] \o <<>> = file[f]
    BY <2>1, ConcatEmptySeq DEF Types
  <2>4. ASSUME NEW q \in Ruptures, NEW p \in Parts, ReceiveCluster(q, p) PROVE file'[f] = file[f]
    <3>1. PICK k : k = arrived[q][p] + 1
      OBVIOUS
    <3>2. /\ pc = "listen" /\ q \in queue /\ k \in 1 .. NumKinds /\ Write(<<q, Kinds[k]>>, p)
          /\ ~AllIn(q)
      <4>1. SentKinds = Kinds
        BY <1>1 DEF SentKinds, PsaOn
      <4>2. arrived[q][p] \in 0 .. NumKinds
        BY <2>1, <2>4 DEF Types, Arrivals
      <4>3. /\ pc = "listen" /\ q \in queue /\ arrived[q][p] < NumKinds
            /\ Write(<<q, Kinds[k]>>, p)
        BY <2>4, <3>1, <4>1 DEF ReceiveCluster, NumKinds
      <4>4. k \in 1 .. NumKinds /\ arrived[q][p] # NumKinds
        <5>1. \A n \in 0 .. NumKinds : n < NumKinds => n + 1 \in 1 .. NumKinds /\ n # NumKinds
          BY Constants
        <5>2. QED
          BY <3>1, <4>2, <4>3, <5>1
      <4>5. QED
        BY <4>3, <4>4 DEF AllIn
    <3>3. q \notin Logged
      BY <1>1, <3>2 DEF IInv, Job
    <3>4. <<q, Kinds[k]>> \in Files /\ f \in Files \ {<<q, Kinds[k]>>}
      BY <2>1, <3>2, <3>3, <1>1, FileNames
    <3>5. QED
      BY <2>1, <2>2, <3>2, <3>4, WriteData
  <2>5. CASE FsyncAndClose
    <3>1. PICK k, c : k = step /\ c = cur
      OBVIOUS
    <3>2. /\ pc = "sync"
          /\ file' = [file EXCEPT ![<<c, Kinds[k]>>] = @ \o pending[<<c, Kinds[k]>>]]
                \/ file' = file
      BY <2>5, <3>1 DEF FsyncAndClose
    <3>3. c \in Ruptures /\ k \in 1 .. NumKinds /\ c \notin Logged
      BY <1>1, <2>1, <3>1, <3>2 DEF Types, IInv, Closing
    <3>4. <<c, Kinds[k]>> # f
      BY <1>1, <2>1, <3>3, FileNames
    <3>5. QED
      BY <2>1, <3>2, <3>4 DEF Types
  <2>6. CASE Mark \/ ProcessCrash \/ UNCHANGED vars
    BY <2>6 DEF Mark, ProcessCrash, vars, storage
  <2>7. CASE WorkersComplete
    BY <2>1, <2>2, <2>3, <2>7 DEF WorkersComplete
  <2>8. CASE NodeCrash
    <3>1. nodeCrashes' = nodeCrashes + 1 /\ nodeCrashes \in Nat
      BY <2>1, <2>8 DEF NodeCrash, Types
    <3>2. QED
      BY <1>1, <3>1
  <2>9. CASE Restart
    BY <1>1, <2>1, <2>9 DEF Restart, Restart_With, Unlink
  <2>10. QED
    BY <1>1, <2>4, <2>5, <2>6, <2>7, <2>8, <2>9 DEF Next, Master
<1>2. IInv /\ [Next]_vars => [Kept]_vars
  BY <1>1
<1>3. QED
  BY <1>2, Invariance, PTL DEF SafeSpec, CheckpointedUntouched
=============================================================================
