-------------------------- MODULE SchemaCacheProofs --------------------------
(***************************************************************************)
(* The cache's invariants, for all keys, entries, sizes and limits.        *)
(***************************************************************************)
EXTENDS SchemaCacheHistory, TLAPS, FiniteSetTheorems, SequenceTheorems

Injective(r) == \A i, j \in DOMAIN r : r[i] = r[j] => i = j

-----------------------------------------------------------------------------
(* Lists of distinct keys. *)

\* What is left of a list behind its first n keys.
LEMMA TailFacts ==
  ASSUME NEW r \in Seq(Key), NEW n \in 0 .. Len(r)
  PROVE  LET t == SubSeq(r, n + 1, Len(r))
         IN  /\ t \in Seq(Key)
             /\ Len(t) = Len(r) - n
             /\ \A i \in 1 .. Len(r) - n : t[i] = r[n + i]
<1> DEFINE t == SubSeq(r, n + 1, Len(r))
           a == n + 1
<1>1. Len(r) \in Nat
  BY LenProperties
<1>2. a \in Int /\ Len(r) \in Int
  BY <1>1
<1>3. \A i \in a .. Len(r) : r[i] \in Key
  BY <1>1, ElementOfSeq
<1> HIDE DEF a
<1>4. /\ SubSeq(r, a, Len(r)) \in Seq(Key)
      /\ Len(SubSeq(r, a, Len(r))) = IF a <= Len(r) THEN Len(r) - a + 1 ELSE 0
      /\ \A i \in 1 .. Len(r) - a + 1 : SubSeq(r, a, Len(r))[i] = r[a + i - 1]
  BY <1>2, <1>3, SubSeqProperties
<1>5. t = SubSeq(r, a, Len(r))
  BY DEF a
<1> HIDE DEF t
<1>6. t \in Seq(Key)
  BY <1>4, <1>5
<1>7. Len(t) = Len(r) - n
  BY <1>1, <1>4, <1>5 DEF a
<1>8. ASSUME NEW i \in 1 .. Len(r) - n PROVE t[i] = r[n + i]
  <2>1. i \in 1 .. Len(r) - a + 1 /\ a + i - 1 = n + i
    BY <1>1 DEF a
  <2> QED  BY <2>1, <1>4, <1>5
<1> QED  BY <1>6, <1>7, <1>8 DEF t

\* Taking a key out of a list closes the gap it leaves.
LEMMA WithoutKeyItems ==
  ASSUME NEW r \in Seq(Key), NEW k \in ToSet(r)
  PROVE  LET w == WithoutKey(r, k)
         IN  \E p \in 1 .. Len(r) :
               /\ r[p] = k
               /\ w \in Seq(Key)
               /\ Len(w) = Len(r) - 1
               /\ \A i \in 1 .. Len(r) - 1 : w[i] = IF i < p THEN r[i] ELSE r[i + 1]
<1> DEFINE p == CHOOSE i \in DOMAIN r : r[i] = k
           s == SubSeq(r, 1, p - 1)
           t == SubSeq(r, p + 1, Len(r))
           w == s \o t
<1>1. DOMAIN r = 1 .. Len(r) /\ Len(r) \in Nat
  BY LenProperties
<1>2. p \in 1 .. Len(r) /\ r[p] = k
  BY <1>1 DEF ToSet
<1>3. WithoutKey(r, k) = w
  BY DEF WithoutKey, RemoveAt
<1>4. \A i \in 1 .. Len(r) : r[i] \in Key
  BY ElementOfSeq
<1>5. /\ s \in Seq(Key) /\ Len(s) = p - 1
      /\ \A i \in 1 .. p - 1 : s[i] = r[i]
  BY <1>1, <1>2, <1>4, SubSeqProperties
<1>6. /\ t \in Seq(Key) /\ Len(t) = Len(r) - p
      /\ \A i \in 1 .. Len(r) - p : t[i] = r[p + i]
  <2>1. p \in 0 .. Len(r)
    BY <1>2
  <2> QED  BY <2>1, TailFacts
<1> HIDE DEF p, s, t
<1>7. /\ w \in Seq(Key) /\ Len(w) = Len(r) - 1
      /\ \A i \in 1 .. Len(r) - 1 : w[i] = IF i <= p - 1 THEN s[i] ELSE t[i - (p - 1)]
  <2> HIDE DEF w
  <2>1. /\ w \in Seq(Key) /\ Len(w) = Len(s) + Len(t)
        /\ \A i \in 1 .. Len(s) + Len(t) :
             w[i] = IF i <= Len(s) THEN s[i] ELSE t[i - Len(s)]
    BY <1>5, <1>6, ConcatProperties DEF w
  <2>2. Len(s) + Len(t) = Len(r) - 1
    BY <1>1, <1>2, <1>5, <1>6
  <2> QED  BY <2>1, <2>2, <1>5
<1>8. \A i \in 1 .. Len(r) - 1 : w[i] = IF i < p THEN r[i] ELSE r[i + 1]
  BY <1>1, <1>2, <1>5, <1>6, <1>7
<1> HIDE DEF w
<1> QED  BY <1>2, <1>3, <1>7, <1>8

\* A list without one of its keys keeps the others, each once.
LEMMA WithoutKeyFacts ==
  ASSUME NEW r \in Seq(Key), Injective(r), NEW k
  PROVE  /\ WithoutKey(r, k) \in Seq(Key)
         /\ Injective(WithoutKey(r, k))
         /\ ToSet(WithoutKey(r, k)) = ToSet(r) \ {k}
<1>1. CASE k \notin ToSet(r)
  BY <1>1 DEF WithoutKey
<1>2. CASE k \in ToSet(r)
  <2> DEFINE w == WithoutKey(r, k)
  <2>1. DOMAIN r = 1 .. Len(r) /\ Len(r) \in Nat
    BY LenProperties
  <2>2. PICK p \in 1 .. Len(r) :
          /\ r[p] = k /\ w \in Seq(Key) /\ Len(w) = Len(r) - 1
          /\ \A i \in 1 .. Len(r) - 1 : w[i] = IF i < p THEN r[i] ELSE r[i + 1]
    BY <1>2, WithoutKeyItems
  <2>3. DOMAIN w = 1 .. Len(r) - 1
    BY <2>2, LenProperties
  <2> HIDE DEF w
  <2>4. Injective(w)
    <3> SUFFICES ASSUME NEW i \in 1 .. Len(r) - 1, NEW j \in 1 .. Len(r) - 1, w[i] = w[j]
                 PROVE  i = j
      BY <2>3 DEF Injective
    <3> QED  BY <2>1, <2>2, SMTT(30) DEF Injective
  <2>5. ToSet(w) = ToSet(r) \ {k}
    <3>1. ASSUME NEW x \in ToSet(w) PROVE x \in ToSet(r) \ {k}
      <4>1. PICK i \in 1 .. Len(r) - 1 : x = w[i]
        BY <3>1, <2>3 DEF ToSet
      <4>2. PICK j \in 1 .. Len(r) : j # p /\ x = r[j]
        BY <4>1, <2>1, <2>2
      <4> QED  BY <4>2, <2>1, <2>2 DEF ToSet, Injective
    <3>2. ASSUME NEW x \in ToSet(r) \ {k} PROVE x \in ToSet(w)
      <4>1. PICK j \in 1 .. Len(r) : x = r[j]
        BY <2>1 DEF ToSet
      <4>2. j # p
        BY <4>1, <2>2
      <4>3. PICK i \in 1 .. Len(r) - 1 : x = w[i]
        <5>1. CASE j < p
          BY <5>1, <4>1, <2>1, <2>2
        <5>2. CASE j > p
          <6>1. j - 1 \in 1 .. Len(r) - 1 /\ ~(j - 1 < p) /\ (j - 1) + 1 = j
            BY <5>2, <2>1, <2>2
          <6> QED  BY <6>1, <4>1, <2>2
        <5> QED  BY <5>1, <5>2, <4>2, <2>1, <2>2
      <4> QED  BY <4>3, <2>3 DEF ToSet
    <3> QED  BY <3>1, <3>2
  <2> QED  BY <2>2, <2>4, <2>5 DEF w
<1> QED  BY <1>1, <1>2

\* A key that is not in a list of distinct keys can be put before it.
LEMMA PushFrontFacts ==
  ASSUME NEW r \in Seq(Key), Injective(r), NEW k \in Key, k \notin ToSet(r)
  PROVE  /\ <<k>> \o r \in Seq(Key)
         /\ Injective(<<k>> \o r)
         /\ ToSet(<<k>> \o r) = {k} \cup ToSet(r)
<1> DEFINE w == <<k>> \o r
<1>1. <<k>> \in Seq(Key) /\ Len(<<k>>) = 1 /\ <<k>>[1] = k
  OBVIOUS
<1>2. Len(r) \in Nat /\ DOMAIN r = 1 .. Len(r)
  BY LenProperties
<1>3. /\ w \in Seq(Key) /\ Len(w) = Len(r) + 1
      /\ \A i \in 1 .. Len(r) + 1 : w[i] = IF i = 1 THEN k ELSE r[i - 1]
  <2>1. /\ w \in Seq(Key) /\ Len(w) = 1 + Len(r)
        /\ \A i \in 1 .. 1 + Len(r) : w[i] = IF i <= 1 THEN <<k>>[i] ELSE r[i - 1]
    BY <1>1, ConcatProperties
  <2> QED  BY <2>1, <1>1, <1>2
<1>4. DOMAIN w = 1 .. Len(r) + 1
  BY <1>3, LenProperties
<1> HIDE DEF w
<1>5. \A i \in 1 .. Len(r) : r[i] # k
  BY <1>2 DEF ToSet
<1>6. Injective(w)
  <2> SUFFICES ASSUME NEW i \in 1 .. Len(r) + 1, NEW j \in 1 .. Len(r) + 1, w[i] = w[j]
               PROVE  i = j
    BY <1>4 DEF Injective
  <2> QED  BY <1>2, <1>3, <1>5, SMTT(30) DEF Injective
<1>7. ToSet(w) = {k} \cup ToSet(r)
  <2>1. ToSet(w) \subseteq {k} \cup ToSet(r)
    BY <1>2, <1>3, <1>4 DEF ToSet
  <2>2. k \in ToSet(w)
    BY <1>2, <1>3, <1>4 DEF ToSet
  <2>3. ASSUME NEW x \in ToSet(r) PROVE x \in ToSet(w)
    <3>1. PICK i \in 1 .. Len(r) : x = r[i]
      BY <1>2 DEF ToSet
    <3>2. i + 1 \in 1 .. Len(r) + 1 /\ w[i + 1] = x
      BY <3>1, <1>2, <1>3
    <3> QED  BY <3>2, <1>4 DEF ToSet
  <2> QED  BY <2>1, <2>2, <2>3
<1> QED  BY <1>3, <1>6, <1>7 DEF w

\* Cutting a list of distinct keys in two splits its keys in two.
LEMMA CutFacts ==
  ASSUME NEW r \in Seq(Key), Injective(r), NEW n \in 0 .. Len(r)
  PROVE  LET s == SubSeq(r, 1, n)
             t == SubSeq(r, n + 1, Len(r))
         IN  /\ s \in Seq(Key)
             /\ Injective(s)
             /\ Len(s) = n
             /\ ToSet(s) \cup ToSet(t) = ToSet(r)
             /\ ToSet(s) \cap ToSet(t) = {}
<1> DEFINE s == SubSeq(r, 1, n)
           t == SubSeq(r, n + 1, Len(r))
<1>1. Len(r) \in Nat /\ DOMAIN r = 1 .. Len(r)
  BY LenProperties
<1>2. \A i \in 1 .. Len(r) : r[i] \in Key
  BY ElementOfSeq
<1>3. s \in Seq(Key) /\ Len(s) = n /\ \A i \in 1 .. n : s[i] = r[i]
  BY <1>1, <1>2, SubSeqProperties
<1>4. t \in Seq(Key) /\ Len(t) = Len(r) - n /\ \A i \in 1 .. Len(r) - n : t[i] = r[n + i]
  BY <1>2, TailFacts
<1>5. DOMAIN s = 1 .. n /\ DOMAIN t = 1 .. Len(r) - n
  BY <1>3, <1>4, LenProperties
<1> HIDE DEF s, t
<1>6. Injective(s)
  BY <1>1, <1>3, <1>5 DEF Injective
<1>7. ToSet(s) \cup ToSet(t) = ToSet(r)
  <2>1. ToSet(s) \subseteq ToSet(r)
    BY <1>1, <1>3, <1>5 DEF ToSet
  <2>2. ASSUME NEW x \in ToSet(t) PROVE x \in ToSet(r)
    <3>1. PICK i \in 1 .. Len(r) - n : x = t[i]
      BY <1>5 DEF ToSet
    <3>2. n + i \in 1 .. Len(r) /\ x = r[n + i]
      BY <3>1, <1>1, <1>4
    <3> QED  BY <3>2, <1>1 DEF ToSet
  <2>3. ASSUME NEW x \in ToSet(r) PROVE x \in ToSet(s) \cup ToSet(t)
    <3>1. PICK i \in 1 .. Len(r) : x = r[i]
      BY <1>1 DEF ToSet
    <3>2. CASE i <= n
      BY <3>1, <3>2, <1>1, <1>3, <1>5 DEF ToSet
    <3>3. CASE i > n
      <4>1. i - n \in 1 .. Len(r) - n /\ n + (i - n) = i
        BY <3>3, <1>1
      <4> QED  BY <4>1, <3>1, <1>4, <1>5 DEF ToSet
    <3> QED  BY <3>2, <3>3, <1>1
  <2> QED  BY <2>1, <2>2, <2>3
<1>8. ToSet(s) \cap ToSet(t) = {}
  <2> SUFFICES ASSUME NEW i \in 1 .. n, NEW j \in 1 .. Len(r) - n, s[i] = t[j]
               PROVE  FALSE
    BY <1>5 DEF ToSet
  <2>1. r[i] = r[n + j]
    BY <1>3, <1>4
  <2> QED  BY <2>1, <1>1 DEF Injective
<1> QED  BY <1>3, <1>6, <1>7, <1>8 DEF s, t

\* A list has no more keys than its length.
LEMMA KeysOfList ==
  ASSUME NEW r \in Seq(Key)
  PROVE  IsFiniteSet(ToSet(r)) /\ Cardinality(ToSet(r)) <= Len(r)
<1>1. Len(r) \in Nat /\ DOMAIN r = 1 .. Len(r) /\ r \in [1 .. Len(r) -> Key]
  BY LenProperties
<1>2. r \in Surjection(1 .. Len(r), ToSet(r))
  BY <1>1 DEF Surjection, ToSet
<1>3. IsFiniteSet(1 .. Len(r)) /\ Cardinality(1 .. Len(r)) = Len(r)
  <2>1. 1 \in Int /\ Len(r) \in Int
    BY <1>1
  <2>2. /\ IsFiniteSet(1 .. Len(r))
        /\ Cardinality(1 .. Len(r)) = IF 1 > Len(r) THEN 0 ELSE Len(r) - 1 + 1
    BY <2>1, FS_Interval
  <2> QED  BY <2>2, <1>1
<1> QED  BY <1>2, <1>3, FS_Surjection

-----------------------------------------------------------------------------
(* Sums of bytes. *)

IndexOn(idx, S) == \A k \in S : idx[k] \in Entry

\* A key stands for as many units as its entry has bytes.
LEMMA UnitsOfOne ==
  ASSUME NEW k, NEW b \in Nat
  PROVE  IsFiniteSet({k} \X (1 .. b)) /\ Cardinality({k} \X (1 .. b)) = b
<1>1. IsFiniteSet({k}) /\ Cardinality({k}) = 1
  BY FS_Singleton
<1>2. IsFiniteSet(1 .. b) /\ Cardinality(1 .. b) = b
  <2>1. /\ IsFiniteSet(1 .. b)
        /\ Cardinality(1 .. b) = IF 1 > b THEN 0 ELSE b - 1 + 1
    BY FS_Interval
  <2> QED  BY <2>1
<1>3. /\ IsFiniteSet({k} \X (1 .. b))
      /\ Cardinality({k} \X (1 .. b)) = Cardinality({k}) * Cardinality(1 .. b)
  BY <1>1, <1>2, FS_Product
<1> QED  BY <1>1, <1>2, <1>3

\* The bytes of finitely many keys are a natural number.
LEMMA UnitsFinite ==
  ASSUME NEW idx, NEW S, IsFiniteSet(S), IndexOn(idx, S)
  PROVE  IsFiniteSet(Units(idx, S)) /\ BytesOf(idx, S) \in Nat
<1> DEFINE U == {{k} \X (1 .. CheckpointBytes[idx[k]]) : k \in S}
           f == [k \in S |-> {k} \X (1 .. CheckpointBytes[idx[k]])]
<1>1. \A k \in S : CheckpointBytes[idx[k]] \in Nat
  BY CacheAssumption DEF IndexOn
<1>2. ASSUME NEW T \in U PROVE IsFiniteSet(T)
  <2>1. PICK k \in S : T = {k} \X (1 .. CheckpointBytes[idx[k]])
    OBVIOUS
  <2> DEFINE b == CheckpointBytes[idx[k]]
  <2>2. b \in Nat
    BY <1>1
  <2> HIDE DEF b
  <2>3. IsFiniteSet({k} \X (1 .. b))
    BY <2>2, UnitsOfOne
  <2> QED  BY <2>1, <2>3 DEF b
<1>3. f \in Surjection(S, U)
  BY DEF Surjection
<1>4. IsFiniteSet(U)
  BY <1>3, FS_Surjection
<1>5. IsFiniteSet(UNION U)
  BY <1>2, <1>4, FS_UNION
<1> QED  BY <1>5, FS_CardinalityType DEF Units, BytesOf

\* Disjoint sets of keys: their bytes add up.
LEMMA BytesAdd ==
  ASSUME NEW idx, NEW S, NEW T, IsFiniteSet(S), IsFiniteSet(T),
         IndexOn(idx, S), IndexOn(idx, T), S \cap T = {}
  PROVE  BytesOf(idx, S \cup T) = BytesOf(idx, S) + BytesOf(idx, T)
<1>1. IsFiniteSet(Units(idx, S)) /\ IsFiniteSet(Units(idx, T))
  BY UnitsFinite
<1>2. Units(idx, S \cup T) = Units(idx, S) \cup Units(idx, T)
  BY DEF Units
<1>3. Units(idx, S) \cap Units(idx, T) = {}
  BY DEF Units
<1>4. Cardinality(Units(idx, S)) \in Nat /\ Cardinality(Units(idx, T)) \in Nat
  BY <1>1, FS_CardinalityType
<1>5. Cardinality(Units(idx, S) \cup Units(idx, T))
        = Cardinality(Units(idx, S)) + Cardinality(Units(idx, T))
  <2>1. Cardinality(Units(idx, S) \cup Units(idx, T))
          = Cardinality(Units(idx, S)) + Cardinality(Units(idx, T))
            - Cardinality(Units(idx, S) \cap Units(idx, T))
    BY <1>1, FS_Union
  <2>2. Cardinality(Units(idx, S) \cap Units(idx, T)) = 0
    BY <1>3, FS_EmptySet, Zenon
  <2> QED  BY <2>1, <2>2, <1>4
<1> QED  BY <1>2, <1>5, Zenon DEF BytesOf

\* The bytes of one key are those of its entry.
LEMMA BytesOfOne ==
  ASSUME NEW idx, NEW k, idx[k] \in Entry
  PROVE  BytesOf(idx, {k}) = CheckpointBytes[idx[k]]
<1>1. CheckpointBytes[idx[k]] \in Nat
  BY CacheAssumption
<1>2. Units(idx, {k}) = {k} \X (1 .. CheckpointBytes[idx[k]])
  BY DEF Units
<1> QED  BY <1>1, <1>2, UnitsOfOne DEF BytesOf

\* No keys, no bytes.
LEMMA BytesOfNone ==
  ASSUME NEW idx
  PROVE  BytesOf(idx, {}) = 0
<1>1. Units(idx, {}) = {}
  BY DEF Units
<1> QED  BY <1>1, FS_EmptySet DEF BytesOf

\* Bytes depend only on the entries of the keys counted.
LEMMA BytesSame ==
  ASSUME NEW f, NEW g, NEW S, \A k \in S : f[k] = g[k]
  PROVE  BytesOf(f, S) = BytesOf(g, S)
<1>1. Units(f, S) = Units(g, S)
  BY DEF Units
<1> QED  BY <1>1 DEF BytesOf

-----------------------------------------------------------------------------
(* The inductive invariant: the type invariant with the four safety        *)
(* invariants.  The limits need the exact byte count, the exact count      *)
(* needs every key listed once, and that needs the types.                  *)

IInv ==
  /\ TypeOK
  /\ RecencyListsIndex
  /\ BytesAccounted
  /\ WithinLimits
  /\ DisabledNotCached

\* What the sums are taken over: the cached keys are finitely many, and each
\* has an entry.
LEMMA CachedFacts ==
  ASSUME TypeOK
  PROVE  /\ IsFiniteSet(Cached)
         /\ \A S \in SUBSET Cached : IsFiniteSet(S) /\ IndexOn(index, S)
<1>1. IsFiniteSet(Key) /\ Cached \subseteq Key
  BY CacheAssumption DEF TypeOK
<1>2. IsFiniteSet(Cached)
  BY <1>1, FS_Subset
<1>3. ASSUME NEW S \in SUBSET Cached PROVE IsFiniteSet(S) /\ IndexOn(index, S)
  <2>1. IsFiniteSet(S)
    BY <1>2, FS_Subset
  <2>2. \A k \in Cached : index[k] \in Entry
    BY DEF TypeOK
  <2> QED  BY <2>1, <2>2 DEF IndexOn
<1> QED  BY <1>2, <1>3

\* The empty cache satisfies the invariant.
LEMMA InitHolds == Init => IInv
<1> SUFFICES ASSUME Init PROVE IInv
  OBVIOUS
<1>1. Cached = {} /\ ToSet(recency) = {} /\ recency \in Seq(Key) /\ DOMAIN recency = {}
  BY DEF Init, Cached, ToSet
<1>2. TypeOK
  BY <1>1, CacheAssumption DEF Init, TypeOK, Cached
<1>3. RecencyListsIndex
  BY <1>1 DEF RecencyListsIndex
<1>4. BytesAccounted
  BY <1>1, BytesOfNone DEF Init, BytesAccounted
<1>5. WithinLimits
  BY <1>1, FS_EmptySet, CacheAssumption DEF Init, WithinLimits
<1>6. DisabledNotCached
  BY <1>1 DEF DisabledNotCached
<1> QED  BY <1>2, <1>3, <1>4, <1>5, <1>6 DEF IInv

\* A get moves a key of the list to its front and changes nothing else.
LEMMA GetKeeps ==
  ASSUME IInv, NEW k \in Key, Get(k)
  PROVE  IInv'
<1>1. UNCHANGED <<index, restoreFailures, totalBytes>> /\ Cached' = Cached
  BY DEF Get, Cached
<1>2. returned' \in Entry \cup {NoEntry}
  BY DEF Get, IInv, TypeOK
<1>3. recency' \in Seq(Key) /\ Injective(recency') /\ ToSet(recency') = Cached
  <2>1. recency \in Seq(Key) /\ Injective(recency) /\ ToSet(recency) = Cached
    BY DEF IInv, TypeOK, RecencyListsIndex, Injective
  <2>2. CASE k \notin Cached
    BY <2>1, <2>2 DEF Get
  <2>3. CASE k \in Cached
    <3> DEFINE w == WithoutKey(recency, k)
    <3>1. w \in Seq(Key) /\ Injective(w) /\ ToSet(w) = Cached \ {k}
      BY <2>1, WithoutKeyFacts
    <3>2. recency' = <<k>> \o w
      BY <2>3 DEF Get, Spliced
    <3> HIDE DEF w
    <3>3. /\ <<k>> \o w \in Seq(Key) /\ Injective(<<k>> \o w)
          /\ ToSet(<<k>> \o w) = {k} \cup ToSet(w)
      BY <3>1, PushFrontFacts
    <3> QED  BY <2>3, <3>1, <3>2, <3>3
  <2> QED  BY <2>2, <2>3
<1>4. TypeOK'
  BY <1>1, <1>2, <1>3 DEF IInv, TypeOK
<1>5. RecencyListsIndex'
  BY <1>1, <1>3 DEF RecencyListsIndex, Injective
<1>6. BytesAccounted'
  BY <1>1 DEF IInv, BytesAccounted
<1>7. WithinLimits'
  BY <1>1 DEF IInv, WithinLimits
<1>8. DisabledNotCached'
  BY <1>1 DEF IInv, DisabledNotCached, Disabled
<1> QED  BY <1>4, <1>5, <1>6, <1>7, <1>8 DEF IInv

\* Taking the node of one key out keeps list, map, sum and limits right.
LEMMA RemoveNodeKeeps ==
  ASSUME IInv, NEW k \in Key, RemoveNode(k)
  PROVE  /\ recency' \in Seq(Key)
         /\ Cached' = Cached \ {k}
         /\ index' \in [Cached' -> Entry]
         /\ totalBytes' \in Nat
         /\ RecencyListsIndex'
         /\ BytesAccounted'
         /\ WithinLimits'
<1> DEFINE S == Cached \ {k}
           T == {k} \cap Cached
<1>1. recency \in Seq(Key) /\ Injective(recency) /\ ToSet(recency) = Cached
  BY DEF IInv, TypeOK, RecencyListsIndex, Injective
<1>2. recency' \in Seq(Key) /\ Injective(recency') /\ ToSet(recency') = S
  BY <1>1, WithoutKeyFacts DEF RemoveNode
<1>3. Cached' = S /\ index' = [x \in S |-> index[x]]
  BY DEF RemoveNode, Restrict, Cached
<1>4. index' \in [Cached' -> Entry]
  BY <1>3 DEF IInv, TypeOK
<1>5. IsFiniteSet(Cached) /\ IsFiniteSet(S) /\ IsFiniteSet(T)
      /\ IndexOn(index, S) /\ IndexOn(index, T)
  BY CachedFacts DEF IInv
<1>6. BytesOf(index, S) \in Nat /\ BytesOf(index, T) \in Nat
  BY <1>5, UnitsFinite
<1>7. BytesOf(index, S \cup T) = BytesOf(index, S) + BytesOf(index, T)
  <2>1. S \cap T = {}
    OBVIOUS
  <2> QED  BY <2>1, <1>5, BytesAdd
<1>8. totalBytes = BytesOf(index, S \cup T)
  <2>1. S \cup T = Cached
    OBVIOUS
  <2> QED  BY <2>1 DEF IInv, BytesAccounted
<1>9. totalBytes' = totalBytes - BytesOf(index, T)
  BY DEF RemoveNode
<1> HIDE DEF S, T
<1>10. totalBytes' = BytesOf(index, S)
  BY <1>6, <1>7, <1>8, <1>9
<1>11. BytesOf(index', S) = BytesOf(index, S)
  <2>1. \A x \in S : index'[x] = index[x]
    BY <1>3
  <2> QED  BY <2>1, BytesSame
<1>12. RecencyListsIndex'
  BY <1>2, <1>3 DEF RecencyListsIndex, Injective
<1>13. BytesAccounted'
  BY <1>3, <1>10, <1>11 DEF BytesAccounted
<1>14. WithinLimits'
  <2>1. Cardinality(S) <= Cardinality(Cached)
    BY <1>5, FS_Subset DEF S
  <2>2. Cardinality(S) \in Nat /\ Cardinality(Cached) \in Nat /\ MaxEntries \in Nat /\ MaxBytes \in Nat
    BY <1>5, FS_CardinalityType, CacheAssumption
  <2>3. Cardinality(Cached) <= MaxEntries /\ totalBytes <= MaxBytes
    BY DEF IInv, WithinLimits
  <2>4. totalBytes' <= MaxBytes
    BY <2>2, <2>3, <1>6, <1>7, <1>8, <1>10
  <2>5. Cardinality(S) <= MaxEntries
    BY <2>1, <2>2, <2>3
  <2> QED  BY <2>4, <2>5, <1>3 DEF WithinLimits
<1> QED  BY <1>2, <1>3, <1>4, <1>6, <1>10, <1>12, <1>13, <1>14 DEF S

\* A put that is accepted and evicts all but the n most recent other keys.
\* `kept` is what the entries it keeps weigh; the loop of evict_to_fit stops
\* when there is room, or with the empty list, and then the entry fits alone.
LEMMA StoreKeeps ==
  ASSUME IInv, NEW k \in Key, NEW e \in Entry, ~Refused(k, e), Store(k, e)
  PROVE  IInv' /\ k \in Cached' /\ Cached' \subseteq Cached \cup {k}
         /\ \A x \in Cached' : index'[x] = IF x = k THEN e ELSE index[x]
<1> DEFINE r       == WithoutKey(recency, k)
           before  == totalBytes - BytesOf(index, {k} \cap Cached)
           keep(n) == ToSet(SubSeq(r, 1, n))
           drop(n) == ToSet(SubSeq(r, n + 1, Len(r)))
           kept(n) == before - BytesOf(index, drop(n))
           b       == CheckpointBytes[e]
<1>1. PICK n \in 0 .. Len(r) :
        /\ n = 0 \/ Room(n, kept(n), b)
        /\ recency' = <<k>> \o SubSeq(r, 1, n)
        /\ index' = [x \in {k} \cup keep(n) |-> IF x = k THEN e ELSE index[x]]
        /\ totalBytes' = kept(n) + b
        /\ UNCHANGED <<restoreFailures, returned>>
  BY DEF Store
<1>2. /\ recency \in Seq(Key) /\ Injective(recency) /\ ToSet(recency) = Cached
      /\ Cached \subseteq Key /\ \A x \in Cached : index[x] \in Entry
  BY DEF IInv, TypeOK, RecencyListsIndex, Injective
<1>3. r \in Seq(Key) /\ Injective(r) /\ ToSet(r) = Cached \ {k}
  BY <1>2, WithoutKeyFacts
<1> HIDE DEF r
<1>4. /\ SubSeq(r, 1, n) \in Seq(Key) /\ Injective(SubSeq(r, 1, n))
      /\ Len(SubSeq(r, 1, n)) = n
      /\ keep(n) \cup drop(n) = ToSet(r) /\ keep(n) \cap drop(n) = {}
  BY <1>3, CutFacts
<1> DEFINE S == keep(n)
           T == drop(n)
           K == {k} \cap Cached
<1>5. b \in Nat /\ MaxEntries \in Nat /\ MaxBytes \in Nat
  BY CacheAssumption
<1>6. ~Disabled(k) /\ b <= MaxBytes /\ MaxEntries # 0
  BY <1>5 DEF Refused
<1>7. recency' \in Seq(Key) /\ Injective(recency') /\ ToSet(recency') = {k} \cup S
  <2>1. k \notin S
    BY <1>3, <1>4
  <2> QED  BY <2>1, <1>1, <1>4, PushFrontFacts
<1>8. Cached' = {k} \cup S /\ S \subseteq Cached \ {k} /\ k \notin S
  BY <1>1, <1>3, <1>4 DEF Cached
<1>9. \A x \in Cached' : index'[x] = IF x = k THEN e ELSE index[x]
  BY <1>1, <1>8
<1>10. totalBytes' = BytesOf(index, S) + b /\ BytesOf(index, S) \in Nat
  <2>1. S \in SUBSET Cached /\ T \in SUBSET Cached /\ K \in SUBSET Cached
        /\ S \cup T \in SUBSET Cached
    BY <1>3, <1>4
  <2>2. /\ IsFiniteSet(S) /\ IsFiniteSet(T) /\ IsFiniteSet(K) /\ IsFiniteSet(S \cup T)
        /\ IndexOn(index, S) /\ IndexOn(index, T) /\ IndexOn(index, K)
        /\ IndexOn(index, S \cup T)
    BY <2>1, CachedFacts DEF IInv
  <2>3. S \cap T = {} /\ (S \cup T) \cap K = {} /\ (S \cup T) \cup K = Cached
    BY <1>3, <1>4
  <2> HIDE DEF S, T, K
  <2>4. BytesOf(index, S \cup T) = BytesOf(index, S) + BytesOf(index, T)
    BY <2>2, <2>3, BytesAdd
  <2>5. BytesOf(index, (S \cup T) \cup K) = BytesOf(index, S \cup T) + BytesOf(index, K)
    BY <2>2, <2>3, BytesAdd
  <2>6. BytesOf(index, S) \in Nat /\ BytesOf(index, T) \in Nat /\ BytesOf(index, K) \in Nat
    BY <2>2, UnitsFinite
  <2>7. totalBytes = BytesOf(index, (S \cup T) \cup K)
    <3>1. totalBytes = BytesOf(index, Cached)
      BY DEF IInv, BytesAccounted
    <3> QED  BY <3>1, <2>3
  <2>8. totalBytes' = ((totalBytes - BytesOf(index, K)) - BytesOf(index, T)) + b
    BY <1>1 DEF T, K
  <2> QED  BY <2>4, <2>5, <2>6, <2>7, <2>8, <1>5
<1>11. TypeOK'
  <2>1. index' \in [Cached' -> Entry]
    BY <1>1, <1>2, <1>8
  <2>2. Cached' \subseteq Key
    BY <1>2, <1>8
  <2>3. restoreFailures' \in [Key -> 0 .. FailureBound] /\ returned' \in Entry \cup {NoEntry}
    BY <1>1 DEF IInv, TypeOK
  <2>4. totalBytes' \in Nat
    BY <1>5, <1>10
  <2> QED  BY <1>7, <2>1, <2>2, <2>3, <2>4 DEF TypeOK
<1>12. RecencyListsIndex'
  BY <1>7, <1>8 DEF RecencyListsIndex, Injective
<1>13. BytesAccounted'
  <2>1. IsFiniteSet({k}) /\ IsFiniteSet(S)
    BY <1>7, <1>8, CachedFacts, FS_Singleton DEF IInv
  <2>2. IndexOn(index', {k}) /\ IndexOn(index', S) /\ index'[k] = e
    BY <1>2, <1>8, <1>9 DEF IndexOn
  <2>3. BytesOf(index', {k} \cup S) = BytesOf(index', {k}) + BytesOf(index', S)
    BY <2>1, <2>2, <1>8, BytesAdd
  <2>4. BytesOf(index', {k}) = b
    BY <2>2, BytesOfOne
  <2>5. BytesOf(index', S) = BytesOf(index, S)
    <3>1. \A x \in S : index'[x] = index[x]
      BY <1>8, <1>9
    <3> QED  BY <3>1, BytesSame
  <2> HIDE DEF S
  <2>6. totalBytes' = BytesOf(index', {k} \cup S)
    BY <2>3, <2>4, <2>5, <1>5, <1>10
  <2> QED  BY <2>6, <1>8 DEF BytesAccounted
<1>14. WithinLimits'
  <2>1. Len(recency') = n + 1
    <3> DEFINE s == SubSeq(r, 1, n)
    <3>1. s \in Seq(Key) /\ <<k>> \in Seq(Key) /\ Len(<<k>>) = 1 /\ Len(s) = n
      BY <1>4
    <3> HIDE DEF s
    <3>2. Len(<<k>> \o s) = Len(<<k>>) + Len(s)
      BY <3>1, ConcatProperties
    <3>3. recency' = <<k>> \o s
      BY <1>1 DEF s
    <3> QED  BY <3>1, <3>2, <3>3
  <2>2. Cardinality(Cached') <= n + 1 /\ Cardinality(Cached') \in Nat
    BY <1>7, <1>8, <2>1, KeysOfList, FS_CardinalityType
  <2>3. n \in Nat
    BY <1>3, LenProperties
  <2>4. CASE n = 0
    <3>1. S = {}
      <4>1. SubSeq(r, 1, 0) = <<>>
        BY <1>4, <2>4, EmptySeq
      <4> QED  BY <4>1, <2>4 DEF ToSet
    <3>2. totalBytes' = b
      <4> HIDE DEF S
      <4>1. BytesOf(index, S) = 0
        BY <3>1, BytesOfNone
      <4> QED  BY <4>1, <1>5, <1>10
    <3> QED  BY <3>2, <2>2, <2>4, <1>5, <1>6 DEF WithinLimits
  <2>5. CASE Room(n, kept(n), b)
    <3>1. n + 1 <= MaxEntries /\ totalBytes' <= MaxBytes
      BY <2>5, <1>1 DEF Room
    <3> QED  BY <3>1, <2>2, <2>3, <1>5 DEF WithinLimits
  <2> QED  BY <2>4, <2>5, <1>1
<1>15. DisabledNotCached'
  BY <1>1, <1>6, <1>8 DEF IInv, DisabledNotCached, Disabled
<1> QED  BY <1>8, <1>9, <1>11, <1>12, <1>13, <1>14, <1>15 DEF IInv

-----------------------------------------------------------------------------
(* The invariant in every reachable state. *)

\* Every call of the cache keeps the invariant.
LEMMA NextKeeps == IInv /\ [Next]_cacheVars => IInv'
<1> SUFFICES ASSUME IInv, [Next]_cacheVars PROVE IInv'
  OBVIOUS
<1>1. CASE UNCHANGED cacheVars
  BY <1>1 DEF cacheVars, IInv, TypeOK, RecencyListsIndex, BytesAccounted, WithinLimits,
              DisabledNotCached, Disabled, Cached
<1>2. ASSUME NEW k \in Key, Get(k) PROVE IInv'
  BY <1>2, GetKeeps
<1>3. ASSUME NEW k \in Key, NEW e \in Entry, Put(k, e) PROVE IInv'
  <2>1. CASE Refused(k, e)
    BY <1>1, <1>3, <2>1 DEF Put
  <2>2. CASE ~Refused(k, e)
    BY <1>3, <2>2, StoreKeeps DEF Put
  <2> QED  BY <2>1, <2>2
<1>4. ASSUME NEW k \in Key, Erase(k) PROVE IInv'
  <2>1. RemoveNode(k) /\ UNCHANGED <<restoreFailures, returned>>
    BY <1>4 DEF Erase
  <2>2. DisabledNotCached'
    BY <2>1, RemoveNodeKeeps DEF IInv, DisabledNotCached, Disabled
  <2>3. TypeOK'
    BY <2>1, RemoveNodeKeeps DEF IInv, TypeOK
  <2> QED  BY <2>1, <2>2, <2>3, RemoveNodeKeeps DEF IInv
<1>5. ASSUME NEW k \in Key, RecordRestoreFailure(k) PROVE IInv'
  <2>1. /\ RemoveNode(k) /\ restoreFailures[k] < FailureBound
        /\ restoreFailures' = [restoreFailures EXCEPT ![k] = @ + 1]
        /\ returned' = returned
    BY <1>5 DEF RecordRestoreFailure
  <2>2. restoreFailures' \in [Key -> 0 .. FailureBound]
    BY <2>1, CacheAssumption DEF IInv, TypeOK
  <2>3. DisabledNotCached'
    <3> SUFFICES ASSUME NEW x \in Key, Disabled(x)' PROVE x \notin Cached'
      BY DEF DisabledNotCached
    <3>1. CASE x = k
      BY <3>1, <2>1, RemoveNodeKeeps
    <3>2. CASE x # k
      <4>1. Disabled(x)
        BY <3>2, <2>1 DEF Disabled, IInv, TypeOK
      <4> QED  BY <4>1, <2>1, RemoveNodeKeeps DEF IInv, DisabledNotCached
    <3> QED  BY <3>1, <3>2
  <2>4. TypeOK'
    BY <2>1, <2>2, RemoveNodeKeeps DEF IInv, TypeOK
  <2> QED  BY <2>1, <2>3, <2>4, RemoveNodeKeeps DEF IInv
<1>6. CASE Clear
  <2>1. Cached' = {} /\ ToSet(recency') = {} /\ recency' \in Seq(Key) /\ DOMAIN recency' = {}
    BY <1>6 DEF Clear, Cached, ToSet
  <2>2. TypeOK'
    BY <1>6, <2>1, CacheAssumption DEF Clear, TypeOK, Cached, IInv
  <2>3. RecencyListsIndex'
    BY <2>1 DEF RecencyListsIndex
  <2>4. BytesAccounted'
    <3>1. BytesOf(index', {}) = 0
      BY BytesOfNone
    <3> QED  BY <1>6, <2>1, <3>1 DEF Clear, BytesAccounted
  <2>5. WithinLimits'
    BY <1>6, <2>1, FS_EmptySet, CacheAssumption DEF Clear, WithinLimits
  <2>6. DisabledNotCached'
    BY <2>1 DEF DisabledNotCached
  <2> QED  BY <2>2, <2>3, <2>4, <2>5, <2>6 DEF IInv
<1> QED  BY <1>1, <1>2, <1>3, <1>4, <1>5, <1>6 DEF Next

\* The inductive invariant holds in every state of the cache.
THEOREM Invariance == Spec => []IInv
  BY InitHolds, NextKeeps, PTL DEF Spec

\* totalBytes never leaves the naturals: the size_t never wraps, whatever the
\* order of replacements, evictions, erasures, failures and clears.
THEOREM TypeCorrect == Spec => []TypeOK
<1>1. IInv => TypeOK
  BY DEF IInv
<1> QED  BY <1>1, Invariance, PTL

\* The list and the map never disagree on a key.
THEOREM ListAndMapAgree == Spec => []RecencyListsIndex
<1>1. IInv => RecencyListsIndex
  BY DEF IInv
<1> QED  BY <1>1, Invariance, PTL

\* The running byte count is exact for every key set, entry size and limit.
THEOREM ExactBytes == Spec => []BytesAccounted
<1>1. IInv => BytesAccounted
  BY DEF IInv
<1> QED  BY <1>1, Invariance, PTL

\* Neither limit is exceeded, for every pair of limits, zero included.
THEOREM LimitsRespected == Spec => []WithinLimits
<1>1. IInv => WithinLimits
  BY DEF IInv
<1> QED  BY <1>1, Invariance, PTL

\* A disabled key is never cached.
THEOREM DisabledStaysOut == Spec => []DisabledNotCached
<1>1. IInv => DisabledNotCached
  BY DEF IInv
<1> QED  BY <1>1, Invariance, PTL

-----------------------------------------------------------------------------
(* What a decode may rely on: the cache is a map that may forget.          *)

\* The history variables watch the cache and restrict none of its steps.
LEMMA HistoryOnly == HSpec => Spec
<1>1. HInit => Init
  BY DEF HInit
<1>2. [HNext]_vars => [Next]_cacheVars
  BY Zenon DEF vars, HNext, HGet, HPut, HForget, Next
<1> QED  BY <1>1, <1>2, PTL DEF HSpec, Spec

\* Every cached entry is the last one accepted for its key.
HoldsLatest ==
  /\ latest \in [Key -> Entry \cup {NoEntry}]
  /\ \A k \in Cached : index[k] = latest[k]

\* The lossy map starts empty, as the cache does.
LEMMA MapInit == HInit => HoldsLatest /\ Map!Init
  BY DEF HInit, Init, HoldsLatest, Cached, Map!Init

\* Every call of the cache is a step of the lossy map, or changes nothing the
\* map has, and leaves each cached entry the last one accepted for its key.
LEMMA MapStep == IInv /\ HoldsLatest /\ [HNext]_vars => HoldsLatest' /\ [Map!Next]_(Map!mapVars)
<1> SUFFICES ASSUME IInv, HoldsLatest, [HNext]_vars
             PROVE  HoldsLatest' /\ [Map!Next]_(Map!mapVars)
  OBVIOUS
<1>1. CASE UNCHANGED <<index, latest, returned>>
  BY <1>1 DEF HoldsLatest, Cached, Map!mapVars
<1>2. ASSUME NEW k \in Key, HGet(k) PROVE HoldsLatest' /\ Map!Lookup(k)
  <2>1. index' = index /\ latest' = latest
        /\ returned' = IF k \in Cached THEN index[k] ELSE NoEntry
    BY <1>2 DEF HGet, Get
  <2> QED  BY <2>1 DEF HoldsLatest, Cached, Map!Lookup
<1>3. ASSUME NEW k \in Key, NEW e \in Entry, HPut(k, e)
      PROVE  HoldsLatest' /\ [Map!Next]_(Map!mapVars)
  <2>1. CASE Refused(k, e)
    BY <1>1, <1>3, <2>1 DEF HPut, Put, cacheVars
  <2>2. CASE ~Refused(k, e)
    <3>1. Store(k, e) /\ latest' = [latest EXCEPT ![k] = e]
      BY <1>3, <2>2 DEF HPut, Put
    <3>2. /\ k \in Cached' /\ Cached' \subseteq Cached \cup {k}
          /\ \A x \in Cached' : index'[x] = IF x = k THEN e ELSE index[x]
      BY <3>1, <2>2, StoreKeeps
    <3>3. Cached \subseteq Key
      BY DEF IInv, TypeOK
    <3>4. HoldsLatest'
      BY <3>1, <3>2, <3>3 DEF HoldsLatest
    <3>5. Map!Accept(k, e)
      BY <3>1, <3>2 DEF Map!Accept, Store
    <3> QED  BY <3>4, <3>5 DEF Map!Next
  <2> QED  BY <2>1, <2>2
<1>4. CASE HForget
  <2>1. latest' = latest
    BY <1>4 DEF HForget
  <2>2. /\ returned' = returned /\ Cached' \subseteq Cached
        /\ \A x \in Cached' : index'[x] = index[x]
    <3>1. ASSUME NEW k \in Key, RemoveNode(k)
          PROVE  Cached' \subseteq Cached /\ \A x \in Cached' : index'[x] = index[x]
      BY <3>1 DEF RemoveNode, Restrict, Cached
    <3>2. ASSUME Clear PROVE Cached' = {} /\ returned' = returned
      BY <3>2 DEF Clear, Cached
    <3> QED  BY <1>4, <3>1, <3>2 DEF HForget, Erase, RecordRestoreFailure
  <2> QED  BY <2>1, <2>2 DEF HoldsLatest, Map!Next, Map!Forget
<1>5. CASE UNCHANGED vars
  BY <1>1, <1>5 DEF vars, cacheVars
<1> QED  BY <1>2, <1>3, <1>4, <1>5 DEF HNext, Map!Next

\* Whatever is evicted, erased or refused, a get answers with the last entry
\* accepted for its key or with nothing.
THEOREM CacheIsLossyMap == HSpec => ImplementsLossyMap
  BY HistoryOnly, Invariance, MapInit, MapStep, PTL DEF HSpec, ImplementsLossyMap, Map!Spec

-----------------------------------------------------------------------------
(* What a put evicts.  The list is in the order of last use in every state *)
(* (Ordered), so the keys behind the place where a put cuts it are the     *)
(* least recently used ones.                                               *)

\* Every two keys of the list are in the relation: the one further back was
\* used before the one further forward.
InOrder(r, p) == \A i, j \in DOMAIN r : i < j => <<r[j], r[i]>> \in p

\* The keys that stay keep their order.
LEMMA WithoutKeyOrder ==
  ASSUME NEW r \in Seq(Key), NEW k, NEW p, InOrder(r, p)
  PROVE  InOrder(WithoutKey(r, k), p)
<1>1. CASE k \notin ToSet(r)
  BY <1>1 DEF WithoutKey
<1>2. CASE k \in ToSet(r)
  <2> DEFINE w == WithoutKey(r, k)
  <2>1. PICK g \in 1 .. Len(r) :
          /\ w \in Seq(Key) /\ Len(w) = Len(r) - 1
          /\ \A i \in 1 .. Len(r) - 1 : w[i] = IF i < g THEN r[i] ELSE r[i + 1]
    BY <1>2, WithoutKeyItems
  <2> HIDE DEF w
  <2>2. DOMAIN r = 1 .. Len(r) /\ DOMAIN w = 1 .. Len(r) - 1 /\ Len(r) \in Nat
    BY <2>1, LenProperties
  <2> SUFFICES ASSUME NEW i \in 1 .. Len(r) - 1, NEW j \in 1 .. Len(r) - 1, i < j
               PROVE  <<w[j], w[i]>> \in p
    BY <2>2 DEF InOrder, w
  <2> DEFINE a == IF i < g THEN i ELSE i + 1
             b == IF j < g THEN j ELSE j + 1
  <2>3. a \in DOMAIN r /\ b \in DOMAIN r /\ a < b
    BY <2>2
  <2>4. w[i] = r[a] /\ w[j] = r[b]
    BY <2>1
  <2> HIDE DEF a, b
  <2> QED  BY <2>3, <2>4 DEF InOrder
<1> QED  BY <1>1, <1>2

\* A list cut in two keeps its order in front of the cut, and what is behind
\* the cut was used before what is in front of it; so was what is behind the
\* first key behind the cut.
LEMMA CutOrder ==
  ASSUME NEW r \in Seq(Key), NEW n \in 0 .. Len(r), NEW p, InOrder(r, p)
  PROVE  LET s == SubSeq(r, 1, n)
             t == SubSeq(r, n + 1, Len(r))
         IN  /\ InOrder(s, p)
             /\ ToSet(t) \X ToSet(s) \subseteq p
             /\ n < Len(r) => /\ r[n + 1] \in ToSet(t)
                              /\ (ToSet(t) \ {r[n + 1]}) \X {r[n + 1]} \subseteq p
                              /\ ToSet(SubSeq(r, 1, n + 1)) = ToSet(s) \cup {r[n + 1]}
<1> DEFINE s == SubSeq(r, 1, n)
           t == SubSeq(r, n + 1, Len(r))
<1>1. Len(r) \in Nat /\ DOMAIN r = 1 .. Len(r) /\ n \in Nat
  BY LenProperties
<1>2. \A i \in 1 .. Len(r) : r[i] \in Key
  BY ElementOfSeq
<1>3. s \in Seq(Key) /\ Len(s) = n /\ \A i \in 1 .. n : s[i] = r[i]
  BY <1>1, <1>2, SubSeqProperties
<1>4. t \in Seq(Key) /\ Len(t) = Len(r) - n /\ \A i \in 1 .. Len(r) - n : t[i] = r[n + i]
  BY <1>2, TailFacts
<1>5. DOMAIN s = 1 .. n /\ DOMAIN t = 1 .. Len(r) - n
  BY <1>3, <1>4, LenProperties
<1> HIDE DEF s, t
<1>6. InOrder(s, p)
  BY <1>1, <1>3, <1>5 DEF InOrder
<1>7. ASSUME NEW x \in ToSet(t), NEW y \in ToSet(s) PROVE <<x, y>> \in p
  <2>1. PICK j \in 1 .. Len(r) - n : x = r[n + j]
    BY <1>4, <1>5 DEF ToSet
  <2>2. PICK i \in 1 .. n : y = r[i]
    BY <1>3, <1>5 DEF ToSet
  <2>3. i \in DOMAIN r /\ n + j \in DOMAIN r /\ i < n + j
    BY <1>1
  <2> QED  BY <2>1, <2>2, <2>3 DEF InOrder
<1>8. ASSUME n < Len(r)
      PROVE  /\ r[n + 1] \in ToSet(t)
             /\ (ToSet(t) \ {r[n + 1]}) \X {r[n + 1]} \subseteq p
             /\ ToSet(SubSeq(r, 1, n + 1)) = ToSet(s) \cup {r[n + 1]}
  <2>1. 1 \in DOMAIN t /\ t[1] = r[n + 1]
    BY <1>1, <1>4, <1>5, <1>8
  <2>2. r[n + 1] \in ToSet(t)
    BY <2>1 DEF ToSet
  <2>3. ASSUME NEW x \in ToSet(t) \ {r[n + 1]} PROVE <<x, r[n + 1]>> \in p
    <3>1. PICK j \in 1 .. Len(r) - n : x = r[n + j]
      BY <1>4, <1>5 DEF ToSet
    <3>2. j # 1
      BY <3>1
    <3>3. n + 1 \in DOMAIN r /\ n + j \in DOMAIN r /\ n + 1 < n + j
      BY <3>2, <1>1, <1>8
    <3> QED  BY <3>1, <3>3 DEF InOrder
  <2>4. ToSet(SubSeq(r, 1, n + 1)) = ToSet(s) \cup {r[n + 1]}
    <3> DEFINE u == SubSeq(r, 1, n + 1)
               m == n + 1
    <3>1. m \in 1 .. Len(r) /\ m = n + 1
      BY <1>1, <1>8
    <3> HIDE DEF m
    <3>2. /\ SubSeq(r, 1, m) \in Seq(Key) /\ Len(SubSeq(r, 1, m)) = m
          /\ \A i \in 1 .. m : SubSeq(r, 1, m)[i] = r[i]
      BY <3>1, <1>1, <1>2, SubSeqProperties
    <3>3. u \in Seq(Key) /\ Len(u) = m /\ \A i \in 1 .. m : u[i] = r[i]
      BY <3>2 DEF m
    <3>4. DOMAIN u = 1 .. m
      BY <3>3, LenProperties
    <3> HIDE DEF u
    <3>5. \A x : x \in ToSet(u) <=> \E i \in 1 .. m : x = r[i]
      BY <3>3, <3>4 DEF ToSet
    <3>6. \A x : x \in ToSet(s) <=> \E i \in 1 .. n : x = r[i]
      BY <1>3, <1>5 DEF ToSet
    <3>7. 1 .. m = (1 .. n) \cup {n + 1}
      BY <3>1, <1>1
    <3>8. ToSet(u) = ToSet(s) \cup {r[n + 1]}
      BY <3>5, <3>6, <3>7
    <3> QED  BY <3>8 DEF u
  <2> QED  BY <2>2, <2>3, <2>4
<1> QED  BY <1>6, <1>7, <1>8 DEF s, t

\* A key put before an ordered list of other keys is the last used.
LEMMA PushFrontOrder ==
  ASSUME NEW r \in Seq(Key), NEW k \in Key, NEW p, NEW q, InOrder(r, p),
         \A x, y \in ToSet(r) : <<x, y>> \in p => <<x, y>> \in q,
         ToSet(r) \X {k} \subseteq q
  PROVE  InOrder(<<k>> \o r, q)
<1> DEFINE w == <<k>> \o r
<1>1. <<k>> \in Seq(Key) /\ Len(<<k>>) = 1 /\ <<k>>[1] = k
  OBVIOUS
<1>2. Len(r) \in Nat /\ DOMAIN r = 1 .. Len(r)
  BY LenProperties
<1>3. /\ w \in Seq(Key) /\ Len(w) = Len(r) + 1
      /\ \A i \in 1 .. Len(r) + 1 : w[i] = IF i = 1 THEN k ELSE r[i - 1]
  <2>1. /\ w \in Seq(Key) /\ Len(w) = 1 + Len(r)
        /\ \A i \in 1 .. 1 + Len(r) : w[i] = IF i <= 1 THEN <<k>>[i] ELSE r[i - 1]
    BY <1>1, ConcatProperties
  <2> QED  BY <2>1, <1>1, <1>2
<1>4. DOMAIN w = 1 .. Len(r) + 1
  BY <1>3, LenProperties
<1> HIDE DEF w
<1> SUFFICES ASSUME NEW i \in 1 .. Len(r) + 1, NEW j \in 1 .. Len(r) + 1, i < j
             PROVE  <<w[j], w[i]>> \in q
  BY <1>4 DEF InOrder, w
<1>5. j - 1 \in DOMAIN r /\ w[j] = r[j - 1] /\ r[j - 1] \in ToSet(r)
  <2>1. j - 1 \in DOMAIN r /\ j # 1
    BY <1>2
  <2> QED  BY <2>1, <1>3 DEF ToSet
<1>6. CASE i = 1
  BY <1>3, <1>5, <1>6
<1>7. CASE i # 1
  <2>1. i - 1 \in DOMAIN r /\ i - 1 < j - 1
    BY <1>2, <1>7
  <2>2. w[i] = r[i - 1] /\ r[i - 1] \in ToSet(r)
    BY <2>1, <1>3, <1>7 DEF ToSet
  <2>3. <<r[j - 1], r[i - 1]>> \in p
    BY <2>1, <1>5 DEF InOrder
  <2> QED  BY <2>2, <2>3, <1>5
<1> QED  BY <1>6, <1>7

\* The list is in the order in which its keys were last used.
Ordered == InOrder(recency, older)

\* After any use of k the pairs kept are those of the other cached keys, and
\* every other cached key was used before k.
LEMMA UsedOrder ==
  ASSUME IInv, Ordered, NEW k \in Key, NEW s \in Seq(Key),
         InOrder(s, older), k \notin ToSet(s), ToSet(s) \subseteq Cached',
         recency' = <<k>> \o s, older' = Used(k)
  PROVE  Ordered'
<1>1. \A x, y \in ToSet(s) : <<x, y>> \in older => <<x, y>> \in older'
  BY DEF Used, StillCached
<1>2. ToSet(s) \X {k} \subseteq older'
  BY DEF Used
<1>3. InOrder(<<k>> \o s, older')
  BY <1>1, <1>2, PushFrontOrder
<1> QED  BY <1>3 DEF Ordered

\* A list whose keys all stay keeps its order when others are forgotten.
LEMMA StillOrder ==
  ASSUME NEW s \in Seq(Key), InOrder(s, older), ToSet(s) \subseteq Cached',
         recency' = s, older' = StillCached
  PROVE  Ordered'
<1>1. ASSUME NEW i \in DOMAIN s, NEW j \in DOMAIN s, i < j
      PROVE  <<s[j], s[i]>> \in older'
  <2>1. <<s[j], s[i]>> \in older
    BY <1>1 DEF InOrder
  <2>2. s[i] \in Cached' /\ s[j] \in Cached'
    BY DEF ToSet
  <2> QED  BY <2>1, <2>2 DEF StillCached
<1> QED  BY <1>1 DEF Ordered, InOrder

\* What an accepted put keeps and what it evicts: the front of the other keys
\* of the list and the rest of it, of which the one nearest the front would
\* have made the put exceed a limit.
LEMMA StoreCuts ==
  ASSUME IInv, NEW k \in Key, NEW e \in Entry, Store(k, e)
  PROVE  LET r == WithoutKey(recency, k)
         IN  \E n \in 0 .. Len(r) :
               /\ recency' = <<k>> \o SubSeq(r, 1, n)
               /\ Cached' = {k} \cup ToSet(SubSeq(r, 1, n))
               /\ n < Len(r) =>
                    \/ n + 2 > MaxEntries
                    \/ BytesOf(index, ToSet(SubSeq(r, 1, n + 1))) + CheckpointBytes[e]
                         > MaxBytes
<1> DEFINE r       == WithoutKey(recency, k)
           before  == totalBytes - BytesOf(index, {k} \cap Cached)
           keep(n) == ToSet(SubSeq(r, 1, n))
           drop(n) == ToSet(SubSeq(r, n + 1, Len(r)))
           kept(n) == before - BytesOf(index, drop(n))
           b       == CheckpointBytes[e]
<1>1. PICK n \in 0 .. Len(r) :
        /\ \A m \in n + 1 .. Len(r) : ~Room(m, kept(m), b)
        /\ recency' = <<k>> \o SubSeq(r, 1, n)
        /\ index' = [x \in {k} \cup keep(n) |-> IF x = k THEN e ELSE index[x]]
  BY DEF Store
<1>2. /\ recency \in Seq(Key) /\ Injective(recency) /\ ToSet(recency) = Cached
      /\ Cached \subseteq Key
  BY DEF IInv, TypeOK, RecencyListsIndex, Injective
<1>3. r \in Seq(Key) /\ Injective(r) /\ ToSet(r) = Cached \ {k}
  BY <1>2, WithoutKeyFacts
<1> HIDE DEF r
<1>4. Len(r) \in Nat
  BY <1>3, LenProperties
<1>5. ASSUME NEW m \in 0 .. Len(r) PROVE kept(m) = BytesOf(index, keep(m))
  <2> DEFINE S == keep(m)
             T == drop(m)
             K == {k} \cap Cached
  <2>1. S \cup T = ToSet(r) /\ S \cap T = {}
    BY <1>3, CutFacts
  <2>2. S \in SUBSET Cached /\ T \in SUBSET Cached /\ K \in SUBSET Cached
        /\ S \cup T \in SUBSET Cached
    BY <2>1, <1>3
  <2>3. /\ IsFiniteSet(S) /\ IsFiniteSet(T) /\ IsFiniteSet(K) /\ IsFiniteSet(S \cup T)
        /\ IndexOn(index, S) /\ IndexOn(index, T) /\ IndexOn(index, K)
        /\ IndexOn(index, S \cup T)
    BY <2>2, CachedFacts DEF IInv
  <2>4. (S \cup T) \cap K = {} /\ (S \cup T) \cup K = Cached
    BY <2>1, <1>3
  <2>5. before = totalBytes - BytesOf(index, K) /\ kept(m) = before - BytesOf(index, T)
    OBVIOUS
  <2> DEFINE q == kept(m)
             o == before
  <2>6. q = o - BytesOf(index, T) /\ o = totalBytes - BytesOf(index, K)
    BY <2>5
  <2> HIDE DEF S, T, K, q, o
  <2>7. BytesOf(index, S \cup T) = BytesOf(index, S) + BytesOf(index, T)
    BY <2>1, <2>3, BytesAdd
  <2>8. BytesOf(index, (S \cup T) \cup K) = BytesOf(index, S \cup T) + BytesOf(index, K)
    BY <2>3, <2>4, BytesAdd
  <2>9. BytesOf(index, S) \in Nat /\ BytesOf(index, T) \in Nat /\ BytesOf(index, K) \in Nat
    BY <2>3, UnitsFinite
  <2>10. totalBytes = BytesOf(index, (S \cup T) \cup K)
    <3>1. totalBytes = BytesOf(index, Cached)
      BY DEF IInv, BytesAccounted
    <3> QED  BY <3>1, <2>4
  <2>11. q = BytesOf(index, S)
    BY <2>6, <2>7, <2>8, <2>9, <2>10
  <2> QED  BY <2>11 DEF q, S
<1>6. Cached' = {k} \cup keep(n)
  BY <1>1 DEF Cached
<1>7. ASSUME n < Len(r)
      PROVE  n + 2 > MaxEntries \/ BytesOf(index, keep(n + 1)) + b > MaxBytes
  <2> DEFINE m == n + 1
             q == kept(m)
  <2>1. m \in n + 1 .. Len(r) /\ m \in 0 .. Len(r) /\ n \in Nat /\ m = n + 1
    BY <1>4, <1>7
  <2>2. ~Room(m, q, b)
    BY <2>1, <1>1
  <2> HIDE DEF m
  <2>3. q = BytesOf(index, keep(m))
    BY <2>1, <1>5
  <2>4. q \in Nat
    <3>1. keep(m) \in SUBSET Cached
      BY <2>1, <1>3, CutFacts
    <3> QED  BY <2>3, <3>1, CachedFacts, UnitsFinite DEF IInv
  <2> HIDE DEF q
  <2>5. b \in Nat /\ MaxEntries \in Nat /\ MaxBytes \in Nat
    BY CacheAssumption
  <2> HIDE DEF b
  <2>6. n + 2 > MaxEntries \/ q + b > MaxBytes
    BY <2>1, <2>2, <2>4, <2>5 DEF Room
  <2> QED  BY <2>3, <2>6 DEF m
<1> QED  BY <1>1, <1>6, <1>7 DEF r

\* Every call keeps the list in the order of last use.
LEMMA OrderKept ==
  ASSUME IInv, Ordered, [HNext]_vars
  PROVE  Ordered'
<1>1. recency \in Seq(Key) /\ Injective(recency) /\ ToSet(recency) = Cached /\ Cached \subseteq Key
  BY DEF IInv, TypeOK, RecencyListsIndex, Injective
<1>2. ASSUME NEW k
      PROVE  /\ WithoutKey(recency, k) \in Seq(Key)
             /\ ToSet(WithoutKey(recency, k)) = Cached \ {k}
             /\ InOrder(WithoutKey(recency, k), older)
  BY <1>1, WithoutKeyFacts, WithoutKeyOrder DEF Ordered
<1>3. CASE UNCHANGED <<recency, older>>
  BY <1>3 DEF Ordered, InOrder
<1>4. ASSUME NEW k \in Key, HGet(k) PROVE Ordered'
  <2>1. CASE k \notin Cached
    BY <1>3, <1>4, <2>1 DEF HGet, Get
  <2>2. CASE k \in Cached
    <3> DEFINE s == WithoutKey(recency, k)
    <3>1. recency' = <<k>> \o s /\ older' = Used(k) /\ Cached' = Cached
      BY <1>4, <2>2 DEF HGet, Get, Spliced, Cached
    <3>2. s \in Seq(Key) /\ InOrder(s, older) /\ ToSet(s) = Cached \ {k}
      BY <1>2
    <3> HIDE DEF s
    <3> QED  BY <3>1, <3>2, UsedOrder
  <2> QED  BY <2>1, <2>2
<1>5. ASSUME NEW k \in Key, NEW e \in Entry, HPut(k, e) PROVE Ordered'
  <2>1. CASE Refused(k, e)
    BY <1>3, <1>5, <2>1 DEF HPut, Put, cacheVars
  <2>2. CASE ~Refused(k, e)
    <3> DEFINE r == WithoutKey(recency, k)
    <3>1. Store(k, e) /\ older' = Used(k)
      BY <1>5, <2>2 DEF HPut, Put
    <3>2. PICK n \in 0 .. Len(r) : /\ recency' = <<k>> \o SubSeq(r, 1, n)
                                   /\ Cached' = {k} \cup ToSet(SubSeq(r, 1, n))
      BY <3>1, StoreCuts
    <3>3. r \in Seq(Key) /\ InOrder(r, older) /\ ToSet(r) = Cached \ {k} /\ Injective(r)
      BY <1>1, <1>2, WithoutKeyFacts
    <3> HIDE DEF r
    <3> DEFINE s == SubSeq(r, 1, n)
    <3>4. s \in Seq(Key) /\ InOrder(s, older) /\ k \notin ToSet(s)
      BY <3>3, CutFacts, CutOrder
    <3>5. recency' = <<k>> \o s /\ ToSet(s) \subseteq Cached'
      BY <3>2
    <3> HIDE DEF s
    <3> QED  BY <3>1, <3>4, <3>5, UsedOrder
  <2> QED  BY <2>1, <2>2
<1>6. ASSUME HForget PROVE Ordered'
  <2>1. ASSUME NEW k \in Key, RemoveNode(k) PROVE Ordered'
    <3>1. recency' = WithoutKey(recency, k) /\ Cached' = Cached \ {k}
      BY <2>1 DEF RemoveNode, Restrict, Cached
    <3>2. older' = StillCached
      BY <1>6 DEF HForget
    <3> QED  BY <3>1, <3>2, <1>2, StillOrder
  <2>2. ASSUME Clear PROVE Ordered'
    <3>1. recency' = <<>>
      BY <2>2 DEF Clear
    <3> QED  BY <3>1 DEF Ordered, InOrder
  <2> QED  BY <1>6, <2>1, <2>2 DEF HForget, Erase, RecordRestoreFailure
<1>7. CASE UNCHANGED vars
  BY <1>3, <1>7 DEF vars, cacheVars
<1> QED  BY <1>4, <1>5, <1>6, <1>7 DEF HNext

\* What a put evicts was used before what it keeps, and the last of it to have
\* been used left no room for the entry.
LEMMA PutEvictsOldest ==
  ASSUME IInv, Ordered, NEW k \in Key, NEW e \in Entry, HPut(k, e)
  PROVE  LET evicted == (Cached \ Cached') \ {k}
             kept    == (Cached \cap Cached') \ {k}
         IN  /\ evicted \X kept \subseteq older
             /\ evicted # {} => \E v \in evicted :
                  /\ (evicted \ {v}) \X {v} \subseteq older
                  /\ \/ Cardinality(kept \cup {k, v}) > MaxEntries
                     \/ BytesOf(index, kept \cup {v}) + CheckpointBytes[e] > MaxBytes
<1>1. CASE Refused(k, e)
  <2>1. Cached' = Cached
    BY <1>1 DEF HPut, Put, cacheVars, Cached
  <2> QED  BY <2>1
<1>2. CASE ~Refused(k, e)
  <2> DEFINE r == WithoutKey(recency, k)
             evicted == (Cached \ Cached') \ {k}
             kept    == (Cached \cap Cached') \ {k}
  <2>1. Store(k, e)
    BY <1>2 DEF HPut, Put
  <2>2. PICK n \in 0 .. Len(r) :
          /\ Cached' = {k} \cup ToSet(SubSeq(r, 1, n))
          /\ n < Len(r) =>
               \/ n + 2 > MaxEntries
               \/ BytesOf(index, ToSet(SubSeq(r, 1, n + 1))) + CheckpointBytes[e] > MaxBytes
    BY <2>1, StoreCuts
  <2>3. recency \in Seq(Key) /\ Injective(recency) /\ ToSet(recency) = Cached
    BY DEF IInv, TypeOK, RecencyListsIndex, Injective
  <2>4. r \in Seq(Key) /\ Injective(r) /\ ToSet(r) = Cached \ {k} /\ InOrder(r, older)
    BY <2>3, WithoutKeyFacts, WithoutKeyOrder DEF Ordered
  <2> HIDE DEF r
  <2> DEFINE s == SubSeq(r, 1, n)
             t == SubSeq(r, n + 1, Len(r))
  <2>5. /\ s \in Seq(Key) /\ Injective(s) /\ Len(s) = n
        /\ ToSet(s) \cup ToSet(t) = ToSet(r) /\ ToSet(s) \cap ToSet(t) = {}
    BY <2>4, CutFacts
  <2>6. /\ ToSet(t) \X ToSet(s) \subseteq older
        /\ n < Len(r) => /\ r[n + 1] \in ToSet(t)
                         /\ (ToSet(t) \ {r[n + 1]}) \X {r[n + 1]} \subseteq older
                         /\ ToSet(SubSeq(r, 1, n + 1)) = ToSet(s) \cup {r[n + 1]}
    BY <2>4, CutOrder
  <2>7. evicted = ToSet(t) /\ kept = ToSet(s)
    BY <2>2, <2>4, <2>5
  <2>8. ASSUME evicted # {}
        PROVE  \E v \in evicted :
                 /\ (evicted \ {v}) \X {v} \subseteq older
                 /\ \/ Cardinality(kept \cup {k, v}) > MaxEntries
                    \/ BytesOf(index, kept \cup {v}) + CheckpointBytes[e] > MaxBytes
    <3>1. n < Len(r)
      <4>1. Len(r) \in Nat
        BY <2>4, LenProperties
      <4>2. ASSUME n = Len(r) PROVE FALSE
        <5>1. t \in Seq(Key) /\ Len(t) = 0
          BY <4>1, <4>2, <2>4, TailFacts
        <5>2. DOMAIN t = {}
          BY <5>1, LenProperties
        <5>3. ToSet(t) = {}
          BY <5>2 DEF ToSet
        <5> QED  BY <5>3, <2>7, <2>8
      <4> QED  BY <4>1, <4>2
    <3> DEFINE v == r[n + 1]
    <3>2. v \in evicted /\ (evicted \ {v}) \X {v} \subseteq older
          /\ ToSet(SubSeq(r, 1, n + 1)) = kept \cup {v}
      BY <3>1, <2>6, <2>7
    <3>3. v \notin kept /\ v # k /\ k \notin kept
      BY <3>2
    <3>4. IsFiniteSet(kept) /\ Cardinality(kept) = n
      <4>1. Len(s) \in Nat /\ DOMAIN s = 1 .. Len(s)
        BY <2>5, LenProperties
      <4>2. s \in Bijection(1 .. n, ToSet(s))
        <5>1. s \in [1 .. n -> ToSet(s)]
          BY <4>1, <2>5, LenProperties DEF ToSet
        <5> QED  BY <5>1, <4>1, <2>5 DEF Bijection, Injection, IsInjective, Surjection, ToSet, Injective
      <4>3. IsFiniteSet(1 .. n) /\ Cardinality(1 .. n) = n
        <5>1. n \in Nat
          BY <4>1, <2>5
        <5>2. /\ IsFiniteSet(1 .. n)
              /\ Cardinality(1 .. n) = IF 1 > n THEN 0 ELSE n - 1 + 1
          BY <5>1, FS_Interval
        <5> QED  BY <5>1, <5>2
      <4>4. IsFiniteSet(ToSet(s)) /\ Cardinality(ToSet(s)) = Cardinality(1 .. n)
        <5> DEFINE A == 1 .. n
                   B == ToSet(s)
        <5>1. s \in Bijection(A, B) /\ IsFiniteSet(A)
          BY <4>2, <4>3
        <5>2. ExistsBijection(A, B)
          BY <5>1 DEF ExistsBijection
        <5> HIDE DEF A, B
        <5>3. IsFiniteSet(B) /\ Cardinality(B) = Cardinality(A)
          BY <5>1, <5>2, FS_Bijection
        <5> QED  BY <5>3 DEF A, B
      <4> QED  BY <4>3, <4>4, <2>7
    <3> HIDE DEF v, kept, evicted
    <3>5. Cardinality(kept \cup {k, v}) = n + 2
      <4>1. IsFiniteSet(kept \cup {k}) /\ Cardinality(kept \cup {k}) = Cardinality(kept) + 1
        BY <3>3, <3>4, FS_AddElement
      <4>2. v \notin kept \cup {k}
        BY <3>3
      <4>3. Cardinality((kept \cup {k}) \cup {v}) = Cardinality(kept \cup {k}) + 1
        BY <4>1, <4>2, FS_AddElement
      <4>4. (kept \cup {k}) \cup {v} = kept \cup {k, v}
        OBVIOUS
      <4>5. n \in Nat
        BY <2>5, LenProperties
      <4> DEFINE a == Cardinality(kept)
                 b == Cardinality(kept \cup {k})
                 c == Cardinality((kept \cup {k}) \cup {v})
      <4>6. a = n /\ b = a + 1 /\ c = b + 1
        BY <4>1, <4>3, <3>4
      <4> HIDE DEF a, b, c
      <4>7. c = n + 2
        BY <4>5, <4>6
      <4> QED  BY <4>4, <4>7 DEF c
    <3> QED  BY <2>2, <3>1, <3>2, <3>5
  <2> HIDE DEF s, t
  <2> QED  BY <2>6, <2>7, <2>8
<1> QED  BY <1>1, <1>2

\* A put evicts the least recently used entries and no more of them than the
\* two limits require, for every key set, entry size and pair of limits.
THEOREM EvictsOldestOnlyToFit == HSpec => PutEvictsOldestOnlyToFit
<1>1. HInit => Ordered
  BY DEF HInit, Init, Ordered, InOrder
<1>2. IInv /\ Ordered /\ [HNext]_vars => Ordered'
  BY OrderKept
<1>3. ASSUME IInv, Ordered
      PROVE  [\A k \in Key, e \in Entry : HPut(k, e) =>
                LET evicted == (Cached \ Cached') \ {k}
                    kept    == (Cached \cap Cached') \ {k}
                IN  /\ evicted \X kept \subseteq older
                    /\ evicted # {} => \E v \in evicted :
                         /\ (evicted \ {v}) \X {v} \subseteq older
                         /\ \/ Cardinality(kept \cup {k, v}) > MaxEntries
                            \/ BytesOf(index, kept \cup {v}) + CheckpointBytes[e] > MaxBytes
             ]_vars
  BY <1>3, PutEvictsOldest
<1> QED  BY <1>1, <1>2, <1>3, HistoryOnly, Invariance, PTL DEF HSpec, PutEvictsOldestOnlyToFit
=============================================================================
