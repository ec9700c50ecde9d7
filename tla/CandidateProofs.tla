--------------------------- MODULE CandidateProofs --------------------------
(***************************************************************************)
(* For all lists of candidates and all weights: the candidates of a field  *)
(* follow the path that is decoded, no probability mass is lost or made,   *)
(* and the probability of a candidate that is out is final.                *)
(***************************************************************************)
EXTENDS CandidateState, TLAPS, FiniteSetTheorems, SequenceTheorems, WellFoundedInduction

Trees ==
  [candidates : Seq(Seq(Nat)), live : SUBSET Nat, consumed : Seq(Nat), levels : Nat, winner : Nat]

\* The first n tokens of c are those of p.
Begins(c, n, p) == Len(c) >= n /\ SubSeq(c, 1, n) = p

\* A token sequence that goes along the path of s.
Along(s, c) == Begins(c, s.levels, s.consumed)

\* While s is open, the live candidates are those along its path.
LiveAlong(s) == s.live = {i \in DOMAIN s.candidates : Along(s, s.candidates[i])}

Follows(s) ==
  IF Resolved(s)
  THEN /\ s.winner \in DOMAIN s.candidates
       /\ s.live = {} /\ Along(s, s.candidates[s.winner])
  ELSE LiveAlong(s) /\ Cardinality(s.live) >= 2

\* The inductive invariant of a tree.
Grown(s) == s \in Trees /\ Len(s.consumed) = s.levels /\ Follows(s)

-----------------------------------------------------------------------------
(* Smallest numbers and largest weights.                                   *)

\* Some element of a finite set has a weight that no other exceeds.
LEMMA BestExists ==
  ASSUME NEW T, IsFiniteSet(T), T # {}, NEW w \in [T -> Int]
  PROVE  \E t \in T : \A u \in T : w[u] <= w[t]
<1> DEFINE Above(t) == {u \in T : w[u] > w[t]}
           all == {Above(t) : t \in T}
           R == StrictSubsetOrdering(T)
<1>1. IsWellFoundedOn(R, FiniteSubsetsOf(T))
  BY FS_StrictSubsetOrderingWellFounded
<1>2. FiniteSubsetsOf(T) = SUBSET T
  BY FS_FiniteSubsetsOfFinite
<1>3. all \subseteq SUBSET T
  BY Zenon
<1>4. all # {}
  <2>1. PICK t \in T : TRUE
    OBVIOUS
  <2>2. Above(t) \in all
    BY <2>1, Zenon
  <2> QED  BY <2>2
<1>5. PICK x \in all : \A y \in all : <<y, x>> \notin R
  <2> HIDE DEF all, R
  <2> QED  BY <1>1, <1>2, <1>3, <1>4, WFMin
<1>6. PICK t \in T : x = Above(t)
  BY <1>5, Zenon
<1>7. ASSUME NEW u \in T, w[u] > w[t] PROVE FALSE
  <2>1. Above(u) \subseteq Above(t) /\ u \in Above(t) /\ u \notin Above(u)
    BY <1>7
  <2>2. <<Above(u), Above(t)>> \in R
    BY <2>1, Zenon DEF StrictSubsetOrdering
  <2>3. Above(u) \in all
    BY Zenon
  <2> QED  BY <2>2, <2>3, <1>5, <1>6, Zenon
<1> QED  BY <1>7

\* Min is what it says for every finite set of naturals.
LEMMA MinFacts ==
  ASSUME NEW S, IsFiniteSet(S), S \subseteq Nat, S # {}
  PROVE  Min(S) \in S /\ \A x \in S : Min(S) <= x
<1> DEFINE w == [x \in S |-> -x]
<1>1. w \in [S -> Int]
  OBVIOUS
<1>2. PICK t \in S : \A u \in S : w[u] <= w[t]
  BY <1>1, BestExists
<1>3. \A y \in S : t <= y
  BY <1>2
<1> QED  BY <1>3 DEF Min

-----------------------------------------------------------------------------
(* Sums.  SumFunction is a recursive function over subsets; what it        *)
(* computes is shown by the smallest set for which it would not hold.      *)

\* Among sets of elements of a finite set there is one that is minimal: what the
\* inductions below rest on.
LEMMA MinimalSet ==
  ASSUME NEW D, IsFiniteSet(D), NEW bad, bad \subseteq SUBSET D, bad # {}
  PROVE  \E T \in bad : \A x \in T : T \ {x} \notin bad
<1> DEFINE R == StrictSubsetOrdering(D)
<1>1. IsWellFoundedOn(R, FiniteSubsetsOf(D)) /\ FiniteSubsetsOf(D) = SUBSET D
  BY FS_StrictSubsetOrderingWellFounded, FS_FiniteSubsetsOfFinite
<1>2. PICK T \in bad : \A U \in bad : <<U, T>> \notin R
  <2> HIDE DEF R
  <2> QED  BY <1>1, WFMin
<1>3. ASSUME NEW x \in T, T \ {x} \in bad PROVE FALSE
  <2> DEFINE U == T \ {x}
  <2>1. U \subseteq T /\ x \in T /\ x \notin U /\ T \in SUBSET D /\ U \in SUBSET D
    OBVIOUS
  <2>2. U \in bad
    BY <1>3
  <2> HIDE DEF U
  <2>3. <<U, T>> \in R
    BY <2>1, Zenon DEF StrictSubsetOrdering
  <2> QED  BY <1>2, <2>2, <2>3
<1> QED  BY <1>3

\* sum adds up the values of f, taking some element out first.
Member(T) == CHOOSE x \in T : TRUE
Adds(sum, f) ==
  sum = [T \in SUBSET DOMAIN f |-> IF T = {} THEN 0 ELSE f[Member(T)] + sum[T \ {Member(T)}]]

\* tot does so whichever element is taken out first.
Totals(tot, f) ==
  /\ \A T \in SUBSET DOMAIN f : tot[T] \in Int
  /\ tot[{}] = 0
  /\ \A T \in SUBSET DOMAIN f : \A x \in T : tot[T] = f[x] + tot[T \ {x}]

\* g grows with the subsets of B as the sum of f does; f is c on B, k times h on B;
\* v is the sum over those whose next is t.
Grows(g, f, B) == g[{}] = 0 /\ \A T \in SUBSET B : \A x \in T : g[T] = f[x] + g[T \ {x}]
Constant(f, B, c) == \A x \in B : f[x] = c
Times(f, h, B, k) == \A x \in B : f[x] = h[x] * k
Grouped(v, tot, next, B, T) == \A t \in T : v[t] = tot[{i \in B : next[i] = t}]

\* What a recursion over the subsets of at most n elements needs.
Small(S, n) == {T \in SUBSET S : Cardinality(T) <= n}
Sums(sum, f, S, n) ==
  sum = [T \in Small(S, n) |-> IF T = {} THEN 0 ELSE f[Member(T)] + sum[T \ {Member(T)}]]

\* A set of naturals has a smallest element: what the inductions below rest on.
LEMMA Least ==
  ASSUME NEW T, T \subseteq Nat, T # {}
  PROVE  \E m \in T : \A n \in T : m <= n
<1>1. IsWellFoundedOn(OpToRel(<, Nat), Nat)
  BY NatLessThanWellFounded
<1>2. PICK m \in T : \A n \in T : <<n, m>> \notin OpToRel(<, Nat)
  BY <1>1, WFMin
<1>3. \A n \in T : ~(n < m)
  BY <1>2 DEF OpToRel
<1> QED  BY <1>3

\* The recursive function of SumFunction exists.
LEMMA SumDef ==
  ASSUME NEW w, IsFiniteSet(DOMAIN w)
  PROVE  \E sum : Adds(sum, w) /\ SumFunction(w) = sum[DOMAIN w]
<1> DEFINE S == DOMAIN w
           bad == {n \in Nat : ~ \E sum : Sums(sum, w, S, n)}
<1>1. \A T \in SUBSET S : IsFiniteSet(T) /\ Cardinality(T) \in Nat
  BY FS_Subset, FS_CardinalityType
<1>2. ASSUME NEW n \in Nat, NEW T \in Small(S, n), T # {}
      PROVE  n # 0 /\ T \ {Member(T)} \in Small(S, n - 1) /\ T \ {Member(T)} \in Small(S, n)
  <2>1. IsFiniteSet(T) /\ Cardinality(T) \in Nat /\ Cardinality(T) # 0 /\ Cardinality(T) <= n
    BY <1>1, <1>2, FS_EmptySet DEF Small
  <2>2. Member(T) \in T
    BY <1>2 DEF Member
  <2>3. Cardinality(T \ {Member(T)}) = Cardinality(T) - 1
    BY <2>1, <2>2, FS_RemoveElement
  <2>4. T \ {Member(T)} \in SUBSET S
    BY DEF Small
  <2> QED  BY <2>1, <2>3, <2>4 DEF Small
<1>3. bad = {}
  <2> SUFFICES ASSUME bad # {} PROVE FALSE
    OBVIOUS
  <2>1. PICK n \in bad : \A m \in bad : n <= m
    BY Least
  <2>2. n \in Nat /\ ~ \E sum : Sums(sum, w, S, n)
    BY <2>1
  <2>3. PICK shorter : n = 0 \/ Sums(shorter, w, S, n - 1)
    <3>1. CASE n = 0
      BY <3>1
    <3>2. CASE n # 0
      <4>1. n - 1 \in Nat /\ ~(n <= n - 1)
        BY <2>2, <3>2
      <4>2. n - 1 \notin bad
        <5> HIDE DEF bad
        <5> QED  BY <2>1, <4>1
      <4> QED  BY <4>1, <4>2
    <3> QED  BY <3>1, <3>2
  <2> DEFINE value(T) == IF T = {} THEN 0 ELSE w[Member(T)] + shorter[T \ {Member(T)}]
             sum == [T \in Small(S, n) |-> value(T)]
  <2>4. ASSUME NEW T \in Small(S, n), T # {}
        PROVE  sum[T \ {Member(T)}] = shorter[T \ {Member(T)}]
    <3> DEFINE U == T \ {Member(T)}
    <3>1. U \in Small(S, n - 1) /\ U \in Small(S, n) /\ n # 0
      BY <1>2, <2>2, <2>4
    <3>2. shorter[U] = IF U = {} THEN 0 ELSE w[Member(U)] + shorter[U \ {Member(U)}]
      <4> HIDE DEF U
      <4> QED  BY <2>3, <3>1 DEF Sums
    <3>3. sum[U] = value(U)
      <4> HIDE DEF U, value
      <4> QED  BY <3>1
    <3> HIDE DEF U, sum
    <3> QED  BY <3>2, <3>3 DEF U
  <2>5. Sums(sum, w, S, n)
    <3> DEFINE again == [T \in Small(S, n) |-> IF T = {} THEN 0 ELSE w[Member(T)] + sum[T \ {Member(T)}]]
    <3>1. \A T \in Small(S, n) : value(T) = IF T = {} THEN 0 ELSE w[Member(T)] + sum[T \ {Member(T)}]
      <4> HIDE DEF sum
      <4> QED  BY <2>4, Zenon
    <3>2. sum = again
      <4> HIDE DEF value
      <4> QED  BY <3>1, Zenon
    <3> QED  BY <3>2, Zenon DEF Sums
  <2> QED  BY <2>2, <2>5
<1>4. Small(S, Cardinality(S)) = SUBSET S /\ Cardinality(S) \in Nat
  BY FS_Subset, FS_CardinalityType DEF Small
<1>5. PICK some : Sums(some, w, S, Cardinality(S))
  BY <1>3, <1>4
<1> DEFINE Solves(sum) ==
             sum = [T \in SUBSET S |-> IF T = {} THEN 0 ELSE w[Member(T)] + sum[T \ {Member(T)}]]
<1>6. Solves(some)
  BY <1>4, <1>5 DEF Sums
<1>7. SumFunction(w) = (CHOOSE sum : Solves(sum))[S]
  BY Zenon DEF SumFunction, SumFunctionOnSet, FoldFunctionOnSet, MapThenFoldSet, Member
<1>8. Solves(CHOOSE sum : Solves(sum))
  BY <1>6, Zenon
<1> QED  BY <1>7, <1>8, Zenon DEF Adds

\* Whichever element is taken out first, the sum is the same.
LEMMA TotalsExist ==
  ASSUME NEW D, IsFiniteSet(D), NEW f \in [D -> Int]
  PROVE  \E tot : Totals(tot, f) /\ SumFunction(f) = tot[D]
<1>1. DOMAIN f = D
  OBVIOUS
<1>2. PICK sum : Adds(sum, f) /\ SumFunction(f) = sum[D]
  BY <1>1, SumDef
<1>3. \A T \in SUBSET D : sum[T] = IF T = {} THEN 0 ELSE f[Member(T)] + sum[T \ {Member(T)}]
  BY <1>1, <1>2 DEF Adds
<1> DEFINE Good(T) ==
             /\ sum[T] \in Int
             /\ \A x \in T : sum[T] = f[x] + sum[T \ {x}] /\ sum[T \ {x}] \in Int
           bad == {T \in SUBSET D : ~Good(T)}
<1>4. ASSUME bad # {} PROVE FALSE
  <2>1. bad \subseteq SUBSET D
    OBVIOUS
  <2>2. PICK T \in bad : \A x \in T : T \ {x} \notin bad
    <3> HIDE DEF bad
    <3> QED  BY <1>4, <2>1, MinimalSet
  <2>3. T \in SUBSET D /\ ~Good(T)
    OBVIOUS
  <2>4. ASSUME NEW x \in T PROVE Good(T \ {x})
    <3>1. T \ {x} \in SUBSET D /\ T \ {x} \notin bad
      BY <2>2, <2>3
    <3> HIDE DEF Good
    <3> QED  BY <3>1
  <2>5. T # {}
    <3>1. sum[{}] = 0
      BY <1>3
    <3>2. Good({})
      BY <3>1
    <3> HIDE DEF Good
    <3> QED  BY <2>3, <3>2
  <2> DEFINE a == Member(T)
             A == T \ {a}
  <2>6. a \in T /\ sum[T] = f[a] + sum[A]
    BY <1>3, <2>3, <2>5 DEF Member
  <2> HIDE DEF a
  <2>7. \A x \in T : f[x] \in Int /\ sum[T \ {x}] \in Int
    BY <2>3, <2>4
  <2>8. ASSUME NEW x \in T PROVE sum[T] = f[x] + sum[T \ {x}]
    <3>1. CASE x = a
      BY <2>6, <3>1
    <3>2. CASE x # a
      <4> DEFINE X == T \ {x}
                 B == T \ {x, a}
      <4>1. x \in A /\ a \in X /\ A \ {x} = B /\ X \ {a} = B
        BY <2>6, <3>2
      <4>2. sum[A] = f[x] + sum[B] /\ sum[B] \in Int
        BY <2>4, <2>6, <4>1
      <4>3. sum[X] = f[a] + sum[B]
        BY <2>4, <4>1
      <4>4. f[x] \in Int /\ f[a] \in Int
        BY <2>6, <2>7
      <4> HIDE DEF A, B, X
      <4>5. sum[T] = f[x] + sum[X]
        BY <2>6, <4>2, <4>3, <4>4
      <4> QED  BY <4>5 DEF X
    <3> QED  BY <3>1, <3>2
  <2>9. sum[T] \in Int
    <3>1. f[a] \in Int /\ sum[A] \in Int
      BY <2>6, <2>7
    <3> HIDE DEF A
    <3> QED  BY <2>6, <3>1
  <2> QED  BY <2>3, <2>7, <2>8, <2>9
<1>5. \A T \in SUBSET D : Good(T)
  BY <1>4
<1>6. sum[{}] = 0
  BY <1>3
<1>7. Totals(sum, f)
  BY <1>1, <1>5, <1>6 DEF Totals
<1> QED  BY <1>2, <1>7

\* What grows with the set as a sum does is the sum.
LEMMA TotalsUnique ==
  ASSUME NEW D, IsFiniteSet(D), NEW f \in [D -> Int], NEW tot, Totals(tot, f),
         NEW B \in SUBSET D, NEW g, Grows(g, f, B)
  PROVE  g[B] = tot[B]
<1> DEFINE bad == {T \in SUBSET B : g[T] # tot[T]}
<1>1. ASSUME bad # {} PROVE FALSE
  <2>1. bad \subseteq SUBSET D
    OBVIOUS
  <2>2. PICK T \in bad : \A x \in T : T \ {x} \notin bad
    <3> HIDE DEF bad
    <3> QED  BY <1>1, <2>1, MinimalSet
  <2>3. T \in SUBSET B /\ g[T] # tot[T]
    OBVIOUS
  <2>4. PICK x \in T : TRUE
    BY <2>3 DEF Totals, Grows
  <2>5. T \ {x} \in SUBSET B /\ g[T \ {x}] = tot[T \ {x}]
    BY <2>2, <2>3
  <2>6. tot[T] = f[x] + tot[T \ {x}]
    BY <2>3 DEF Totals
  <2>7. g[T] = f[x] + g[T \ {x}]
    BY <2>3 DEF Grows
  <2> QED  BY <2>3, <2>5, <2>6, <2>7
<1> QED  BY <1>1

\* Sums over two sets without a common element add up.
LEMMA TotalsAdd ==
  ASSUME NEW D, IsFiniteSet(D), NEW f \in [D -> Int], NEW tot, Totals(tot, f),
         NEW A \in SUBSET D, NEW B \in SUBSET D, A \cap B = {}
  PROVE  tot[A \cup B] = tot[A] + tot[B]
<1> DEFINE g == [T \in SUBSET B |-> tot[A \cup T] - tot[A]]
<1>1. \A T \in SUBSET D : tot[T] \in Int
  BY DEF Totals
<1>2. g[{}] = 0
  <2>1. A \cup {} = A
    OBVIOUS
  <2>2. g[{}] = tot[A \cup {}] - tot[A]
    OBVIOUS
  <2> HIDE DEF g
  <2> QED  BY <1>1, <2>1, <2>2
<1>3. ASSUME NEW T \in SUBSET B, NEW x \in T
      PROVE  g[T] = f[x] + g[T \ {x}]
  <2> DEFINE S == A \cup T
             R == A \cup (T \ {x})
  <2>1. S \in SUBSET D /\ x \in S /\ S \ {x} = R /\ R \in SUBSET D /\ T \ {x} \in SUBSET B
    OBVIOUS
  <2>2. g[T] = tot[S] - tot[A] /\ g[T \ {x}] = tot[R] - tot[A]
    BY <2>1
  <2>3. tot[S] = f[x] + tot[S \ {x}]
    BY <2>1 DEF Totals
  <2>4. tot[S] \in Int /\ tot[R] \in Int /\ tot[A] \in Int /\ f[x] \in Int
    BY <1>1, <2>1
  <2>5. tot[S] = f[x] + tot[R]
    BY <2>1, <2>3, Zenon
  <2> HIDE DEF S, R, g
  <2> QED  BY <2>2, <2>4, <2>5
<1>4. g[B] = tot[A \cup B] - tot[A]
  OBVIOUS
<1> HIDE DEF g
<1>5. g[B] = tot[B]
  <2>1. Grows(g, f, B)
    BY <1>2, <1>3 DEF Grows
  <2> QED  BY <2>1, TotalsUnique
<1>6. tot[A] \in Int /\ tot[B] \in Int /\ tot[A \cup B] \in Int
  BY <1>1
<1> QED  BY <1>4, <1>5, <1>6

\* What the lemmas below need of a product.
LEMMA Products ==
  /\ \A a, b, c \in Int : a * (b + c) = a * b + a * c /\ a * (b - c) = a * b - a * c
  /\ \A a, b, c \in Int : (a * b) * c = a * (b * c) /\ a * b = b * a /\ a * b \in Int
  /\ \A a \in Int : a * 0 = 0 /\ 0 * a = 0 /\ a * 1 = a /\ 1 * a = a
  /\ \A a, b \in Nat : a * b \in Nat /\ (a # 0 /\ b # 0 => a * b # 0)
<1>1. \A a, b, c \in Int : a * (b + c) = a * b + a * c /\ a * (b - c) = a * b - a * c
  BY SMT
<1>2. \A a, b, c \in Int : (a * b) * c = a * (b * c) /\ a * b = b * a /\ a * b \in Int
  BY SMT
<1>3. \A a \in Int : a * 0 = 0 /\ 0 * a = 0 /\ a * 1 = a /\ 1 * a = a
  BY SMT
<1>4. \A a, b \in Nat : a * b \in Nat /\ (a # 0 /\ b # 0 => a * b # 0)
  BY SMT
<1> QED  BY <1>1, <1>2, <1>3, <1>4

\* The sum of a function that has one value on the set.
LEMMA TotalsConstant ==
  ASSUME NEW D, IsFiniteSet(D), NEW f \in [D -> Int], NEW tot, Totals(tot, f),
         NEW B \in SUBSET D, NEW c \in Int, Constant(f, B, c)
  PROVE  tot[B] = c * Cardinality(B)
<1> DEFINE g == [T \in SUBSET B |-> c * Cardinality(T)]
<1>1. \A T \in SUBSET B : IsFiniteSet(T) /\ Cardinality(T) \in Nat
  BY FS_Subset, FS_CardinalityType
<1>2. g[{}] = 0
  BY FS_EmptySet
<1>3. ASSUME NEW T \in SUBSET B, NEW x \in T
      PROVE  g[T] = f[x] + g[T \ {x}]
  <2> DEFINE n == Cardinality(T)
             R == T \ {x}
  <2>1. R \in SUBSET B /\ Cardinality(R) = n - 1 /\ n \in Nat /\ f[x] = c
    BY <1>1, FS_RemoveElement DEF Constant
  <2>2. g[T] = c * n /\ g[R] = c * Cardinality(R)
    BY <2>1
  <2> HIDE DEF n, R, g
  <2>3. c * (n - 1) = c * n - c * 1 /\ c * 1 = c /\ c * n \in Int
    BY <2>1, Products
  <2>4. g[T] = c + g[R]
    BY <2>1, <2>2, <2>3
  <2> QED  BY <2>1, <2>4 DEF R
<1>4. g[B] = c * Cardinality(B)
  OBVIOUS
<1> HIDE DEF g
<1>5. Grows(g, f, B)
  BY <1>2, <1>3 DEF Grows
<1>6. g[B] = tot[B]
  BY <1>5, TotalsUnique
<1> QED  BY <1>4, <1>6

\* A function that is k times another on the set has k times its sum.
LEMMA TotalsTimes ==
  ASSUME NEW D, IsFiniteSet(D), NEW f \in [D -> Int], NEW tot, Totals(tot, f),
         NEW E, IsFiniteSet(E), NEW h \in [E -> Int], NEW most, Totals(most, h),
         NEW B \in SUBSET D, B \subseteq E, NEW k \in Int, Times(f, h, B, k)
  PROVE  tot[B] = most[B] * k
<1> DEFINE g == [T \in SUBSET B |-> most[T] * k]
<1>1. \A T \in SUBSET B : most[T] \in Int
  BY DEF Totals
<1>2. g[{}] = 0
  BY Products DEF Totals
<1>3. ASSUME NEW T \in SUBSET B, NEW x \in T
      PROVE  g[T] = f[x] + g[T \ {x}]
  <2> DEFINE R == T \ {x}
  <2>1. R \in SUBSET B /\ f[x] = h[x] * k /\ h[x] \in Int /\ most[T] = h[x] + most[R]
    BY DEF Totals, Times
  <2>2. g[T] = most[T] * k /\ g[R] = most[R] * k /\ most[R] \in Int
    BY <1>1, <2>1
  <2> HIDE DEF R, g
  <2>3. k * (h[x] + most[R]) = k * h[x] + k * most[R]
    BY <2>1, <2>2, Products
  <2>4. /\ k * h[x] = h[x] * k /\ k * most[R] = most[R] * k
        /\ k * (h[x] + most[R]) = (h[x] + most[R]) * k
    BY <2>1, <2>2, Products
  <2>5. g[T] = f[x] + g[R]
    BY <2>1, <2>2, <2>3, <2>4
  <2> QED  BY <2>5 DEF R
<1>4. g[B] = most[B] * k
  OBVIOUS
<1> HIDE DEF g
<1>5. Grows(g, f, B)
  BY <1>2, <1>3 DEF Grows
<1>6. g[B] = tot[B]
  BY <1>5, TotalsUnique
<1> QED  BY <1>4, <1>6

\* A sum of numbers that are not negative is at least each of them.
LEMMA TotalsNat ==
  ASSUME NEW D, IsFiniteSet(D), NEW f \in [D -> Nat], NEW tot, Totals(tot, f)
  PROVE  \A B \in SUBSET D : tot[B] \in Nat /\ \A x \in B : f[x] <= tot[B]
<1> DEFINE bad == {T \in SUBSET D : tot[T] \notin Nat}
<1>1. ASSUME bad # {} PROVE FALSE
  <2>1. bad \subseteq SUBSET D
    OBVIOUS
  <2>2. PICK T \in bad : \A x \in T : T \ {x} \notin bad
    <3> HIDE DEF bad
    <3> QED  BY <1>1, <2>1, MinimalSet
  <2>3. T \in SUBSET D /\ tot[T] \notin Nat
    OBVIOUS
  <2>4. PICK x \in T : TRUE
    <3>1. tot[{}] = 0
      BY DEF Totals
    <3>2. T # {}
      <4> HIDE DEF bad
      <4> QED  BY <2>3, <3>1
    <3> QED  BY <3>2
  <2>5. tot[T \ {x}] \in Nat
    <3>1. T \ {x} \in SUBSET D /\ T \ {x} \notin bad
      BY <2>2, <2>3
    <3> QED  BY <3>1
  <2>6. tot[T] = f[x] + tot[T \ {x}] /\ f[x] \in Nat
    BY <2>3 DEF Totals
  <2> QED  BY <2>3, <2>5, <2>6
<1>2. \A B \in SUBSET D : tot[B] \in Nat
  BY <1>1
<1>3. ASSUME NEW B \in SUBSET D, NEW x \in B PROVE f[x] <= tot[B]
  <2>1. tot[B] = f[x] + tot[B \ {x}] /\ f[x] \in Nat
    BY DEF Totals
  <2>2. tot[B \ {x}] \in Nat
    BY <1>2
  <2> QED  BY <2>1, <2>2
<1> QED  BY <1>2, <1>3

\* One value of a function replaced.
LEMMA SumExcept ==
  ASSUME NEW D, IsFiniteSet(D), NEW f \in [D -> Int], NEW x \in D, NEW v \in Int
  PROVE  SumFunction([f EXCEPT ![x] = v]) = SumFunction(f) - f[x] + v
<1> DEFINE h == [f EXCEPT ![x] = v]
           R == D \ {x}
<1>1. h \in [D -> Int] /\ h[x] = v /\ \A y \in R : h[y] = f[y] * 1
  BY Products
<1> HIDE DEF h
<1>2. PICK tot : Totals(tot, f) /\ SumFunction(f) = tot[D]
  BY TotalsExist
<1>3. PICK new : Totals(new, h) /\ SumFunction(h) = new[D]
  BY <1>1, TotalsExist
<1>4. R \in SUBSET D
  OBVIOUS
<1>5. tot[D] = f[x] + tot[R] /\ tot[R] \in Int /\ tot[D] \in Int /\ f[x] \in Int
  BY <1>2 DEF Totals
<1>6. new[D] = h[x] + new[R] /\ new[R] \in Int
  <2>1. DOMAIN h = D
    BY <1>1
  <2> QED  BY <1>3, <2>1 DEF Totals
<1> HIDE DEF R
<1>7. new[R] = tot[R] * 1
  <2>1. Times(h, f, R, 1)
    BY <1>1 DEF Times
  <2> QED  BY <1>1, <1>2, <1>3, <1>4, <2>1, TotalsTimes
<1>8. new[D] = tot[D] - f[x] + v
  BY <1>1, <1>5, <1>6, <1>7
<1> QED  BY <1>2, <1>3, <1>8 DEF h

\* The sum over a set, its elements taken together in groups.
LEMMA TotalsGrouped ==
  ASSUME NEW D, IsFiniteSet(D), NEW f \in [D -> Int], NEW tot, Totals(tot, f),
         NEW B \in SUBSET D, NEW T, IsFiniteSet(T), NEW next \in [B -> T],
         NEW v \in [T -> Int], NEW most, Totals(most, v),
         Grouped(v, tot, next, B, T)
  PROVE  tot[B] = most[T]
<1> DEFINE Of(U) == {i \in B : next[i] \in U}
           g == [U \in SUBSET T |-> tot[Of(U)]]
<1>1. g[{}] = 0
  <2>1. Of({}) = {}
    OBVIOUS
  <2>2. g[{}] = tot[Of({})]
    BY Zenon
  <2> QED  BY <2>1, <2>2 DEF Totals
<1>2. ASSUME NEW U \in SUBSET T, NEW t \in U
      PROVE  g[U] = v[t] + g[U \ {t}]
  <2> DEFINE V == U \ {t}
             G == {i \in B : next[i] = t}
             H == Of(V)
  <2>1. Of(U) = G \cup H /\ G \cap H = {} /\ G \in SUBSET D /\ H \in SUBSET D
    OBVIOUS
  <2>2. g[U] = tot[Of(U)] /\ g[V] = tot[H]
    BY Zenon
  <2>3. v[t] = tot[G]
    BY Zenon DEF Grouped
  <2> HIDE DEF G, H, V, Of, g
  <2>4. tot[G \cup H] = tot[G] + tot[H]
    BY <2>1, TotalsAdd
  <2>5. g[U] = v[t] + g[V]
    BY <2>1, <2>2, <2>3, <2>4, Zenon
  <2> QED  BY <2>5, Zenon DEF V
<1>3. g[T] = tot[Of(T)] /\ Of(T) = B
  <2>1. Of(T) = B
    OBVIOUS
  <2>2. g[T] = tot[Of(T)]
    BY Zenon
  <2> QED  BY <2>1, <2>2
<1> HIDE DEF g, Of
<1>4. Grows(g, v, T)
  BY <1>1, <1>2 DEF Grows
<1>5. g[T] = most[T]
  <2>1. T \in SUBSET T
    OBVIOUS
  <2> QED  BY <1>4, <2>1, TotalsUnique
<1> QED  BY <1>3, <1>5

\* A sum of which one part is scaled, the other not there before.
LEMMA SumOfParts ==
  ASSUME NEW D, IsFiniteSet(D), NEW p \in [D -> Int], NEW live \in SUBSET D,
         Constant(p, live, 0),
         NEW sh \in [D -> Int], NEW k \in Int, Times(sh, p, D \ live, k),
         NEW tot, Totals(tot, sh)
  PROVE  tot[D] = SumFunction(p) * k + tot[live] /\ SumFunction(p) \in Int
<1> DEFINE out == D \ live
<1>1. out \in SUBSET D /\ live \in SUBSET D /\ out \cup live = D /\ out \cap live = {}
  OBVIOUS
<1> HIDE DEF out
<1>2. PICK ps : Totals(ps, p) /\ SumFunction(p) = ps[D]
  BY TotalsExist
<1>3. ps[D] \in Int /\ ps[out] \in Int /\ DOMAIN p = D
  <2>1. DOMAIN p = D
    OBVIOUS
  <2> QED  BY <1>1, <1>2, <2>1 DEF Totals
<1>4. ps[live] = 0
  <2>1. ps[live] = 0 * Cardinality(live)
    BY <1>1, <1>2, TotalsConstant
  <2>2. Cardinality(live) \in Nat
    BY <1>1, FS_Subset, FS_CardinalityType
  <2> QED  BY <2>1, <2>2, Products
<1>5. tot[out \cup live] = tot[out] + tot[live] /\ ps[out \cup live] = ps[out] + ps[live]
  BY <1>1, <1>2, TotalsAdd
<1>6. tot[out] = ps[out] * k
  <2>1. Times(sh, p, out, k)
    BY DEF out
  <2> QED  BY <1>1, <1>2, <2>1, TotalsTimes
<1>7. tot[D] = tot[out] + tot[live] /\ ps[D] = ps[out] + ps[live]
  BY <1>1, <1>5
<1> QED  BY <1>2, <1>3, <1>4, <1>6, <1>7

\* The arithmetic of one level: out were shares p of a whole, R is the losers'
\* weight, b the winner's, and M is at stake.
LEMMA LevelArithmetic ==
  ASSUME NEW p \in Int, NEW M \in Int, NEW R \in Int, NEW b \in Int, NEW S \in Int
  PROVE  p * ((b + R) * S) + R * (M * S) + (M * b) * S = (p + M) * ((b + R) * S)
<1> DEFINE k == (b + R) * S
<1>1. k \in Int /\ M * S \in Int /\ b + R \in Int
  BY Products
<1>2. k * (p + M) = k * p + k * M /\ k * (p + M) = (p + M) * k /\ k * p = p * k
  BY <1>1, Products
<1>3. k * M = b * (M * S) + R * (M * S)
  <2>1. (M * S) * (b + R) = (M * S) * b + (M * S) * R
    BY <1>1, Products
  <2>2. (M * S) * b = b * (M * S) /\ (M * S) * R = R * (M * S)
    BY <1>1, Products
  <2>3. k * M = (b + R) * (S * M) /\ S * M = M * S
    BY <1>1, Products
  <2>4. (b + R) * (M * S) = (M * S) * (b + R)
    BY <1>1, Products
  <2> QED  BY <2>1, <2>2, <2>3, <2>4
<1>4. b * (M * S) = (M * b) * S
  BY Products
<1>5. R * (M * S) \in Int /\ (M * b) * S \in Int /\ p * k \in Int
  BY <1>1, Products
<1> HIDE DEF k
<1>6. p * k + R * (M * S) + (M * b) * S = (p + M) * k
  BY <1>2, <1>3, <1>4, <1>5
<1> QED  BY <1>6 DEF k

\* Each group's S in equal parts; what a losing member gets of M, and a winning one.
Even(next, part, live, T, S) ==
  \A t \in T : Cardinality({i \in live : next[i] = t}) * part[t] = S
Shared(sh, next, part, w, live, b, M) ==
  \A i \in live : sh[i] = IF next[i] = b THEN 0 ELSE (M * w[next[i]]) * part[next[i]]

\* A level that scores: losing groups get their token's share of the mass M that
\* was live, each member an equal part of it; with what is kept for the best
\* token, the sum is what it was.
LEMMA LevelSum ==
  ASSUME NEW D, IsFiniteSet(D), NEW p \in [D -> Int], NEW live \in SUBSET D,
         Constant(p, live, 0),
         NEW T, IsFiniteSet(T), NEW next \in [live -> T], NEW w \in [T -> Int], NEW b \in T,
         NEW M \in Int, NEW S \in Int, NEW part \in [T -> Int],
         Even(next, part, live, T, S),
         NEW sh \in [D -> Int],
         Times(sh, p, D \ live, SumFunction(w) * S),
         Shared(sh, next, part, w, live, b, M)
  PROVE  SumFunction(sh) + (M * w[b]) * S
           = (SumFunction(p) + M) * (SumFunction(w) * S)
<1> DEFINE of(t) == {i \in live : next[i] = t}
           losers == T \ {b}
<1>1. PICK tot : Totals(tot, sh) /\ SumFunction(sh) = tot[D]
  BY TotalsExist
<1>2. PICK ws : Totals(ws, w) /\ SumFunction(w) = ws[T]
  BY TotalsExist
<1> DEFINE v == [t \in T |-> tot[of(t)]]
<1>3. \A U \in SUBSET D : tot[U] \in Int
  <2>1. DOMAIN sh = D
    OBVIOUS
  <2> QED  BY <1>1, <2>1 DEF Totals
<1>4. v \in [T -> Int] /\ \A t \in T : v[t] = tot[of(t)]
  <2>1. \A t \in T : of(t) \in SUBSET D
    OBVIOUS
  <2> HIDE DEF of
  <2> QED  BY <1>3, <2>1
<1> HIDE DEF v
<1>5. PICK vs : Totals(vs, v)
  BY <1>4, TotalsExist
<1>6. tot[live] = vs[T]
  <2>1. Grouped(v, tot, next, live, T)
    BY <1>4 DEF Grouped
  <2> QED  BY <1>1, <1>4, <1>5, <2>1, TotalsGrouped
<1>7. ASSUME NEW t \in T PROVE v[t] = IF t = b THEN 0 ELSE w[t] * (M * S)
  <2> DEFINE G == of(t)
             n == Cardinality(G)
             c == IF t = b THEN 0 ELSE (M * w[t]) * part[t]
  <2>1. G \in SUBSET D /\ Constant(sh, G, c)
    BY DEF Constant, Shared
  <2>2. n \in Nat /\ n * part[t] = S
    BY <2>1, FS_Subset, FS_CardinalityType DEF Even
  <2>3. w[t] \in Int /\ part[t] \in Int /\ M * w[t] \in Int
    BY Products
  <2>4. c \in Int
    BY <2>3, Products
  <2> HIDE DEF G
  <2>5. tot[G] = c * n
    <3> HIDE DEF c, n
    <3> QED  BY <1>1, <2>1, <2>4, TotalsConstant DEF n
  <2> HIDE DEF n
  <2>6. CASE t = b
    <3>1. c = 0 /\ v[t] = tot[G]
      BY <1>4, <2>6 DEF G
    <3>2. 0 * n = 0
      BY <2>2, Products
    <3> HIDE DEF c
    <3> QED  BY <2>5, <2>6, <3>1, <3>2
  <2>7. CASE t # b
    <3> DEFINE a == M * w[t]
               q == part[t]
    <3>1. tot[G] = (a * q) * n
      BY <2>5, <2>7
    <3>2. a \in Int /\ q \in Int /\ n \in Int /\ n * q = S
      BY <2>2, <2>3
    <3> HIDE DEF a, q
    <3>3. (a * q) * n = a * (q * n) /\ q * n = n * q
      BY <3>2, Products
    <3>4. tot[G] = a * S
      BY <3>1, <3>2, <3>3
    <3>5. (M * w[t]) * S = w[t] * (M * S)
      <4> DEFINE e == w[t]
      <4>1. e \in Int
        BY <2>3
      <4> HIDE DEF e
      <4>2. (M * e) * S = (e * M) * S /\ (e * M) * S = e * (M * S)
        BY <4>1, Products
      <4> QED  BY <4>2 DEF e
    <3> QED  BY <1>4, <2>7, <3>4, <3>5 DEF a, G
  <2> QED  BY <2>6, <2>7
<1>8. losers \in SUBSET T /\ T = losers \cup {b}
  OBVIOUS
<1>9. vs[T] = v[b] + vs[losers] /\ ws[T] = w[b] + ws[losers] /\ ws[losers] \in Int
  <2>1. DOMAIN v = T /\ DOMAIN w = T
    BY <1>4
  <2> QED  BY <1>2, <1>5, <2>1 DEF Totals
<1>10. vs[losers] = ws[losers] * (M * S)
  <2>1. Times(v, w, losers, M * S)
    BY <1>7 DEF Times
  <2>2. M * S \in Int
    BY Products
  <2> HIDE DEF losers
  <2> QED  BY <1>2, <1>4, <1>5, <1>8, <2>1, <2>2, TotalsTimes
<1>11. v[b] = 0 /\ w[b] \in Int
  BY <1>7
<1> HIDE DEF losers, of
<1> DEFINE k == SumFunction(w) * S
<1>12. k \in Int
  BY <1>2, <1>9, <1>11, Products
<1>13. tot[D] = SumFunction(p) * k + tot[live] /\ SumFunction(p) \in Int
  <2>1. Times(sh, p, D \ live, k)
    OBVIOUS
  <2> HIDE DEF k
  <2> QED  BY <1>1, <1>12, <2>1, SumOfParts
<1>14. tot[live] = ws[losers] * (M * S)
  <2>1. ws[losers] * (M * S) \in Int
    BY <1>9, Products
  <2> QED  BY <1>6, <1>9, <1>10, <1>11, <2>1
<1>15. k = (w[b] + ws[losers]) * S
  BY <1>2, <1>9
<1> HIDE DEF k
<1>16. SumFunction(p) * k + ws[losers] * (M * S) + (M * w[b]) * S = (SumFunction(p) + M) * k
  BY <1>9, <1>11, <1>13, <1>15, LevelArithmetic
<1> QED  BY <1>1, <1>13, <1>14, <1>16 DEF k

\* share is what each of live gets of M, in units of which S make one of M's.
EvenPart(share, M, live, S) ==
  \E part \in Int : share = M * part /\ Cardinality(live) * part = S

\* M is shared out evenly over all that is live.
LEMMA EvenSum ==
  ASSUME NEW D, IsFiniteSet(D), NEW p \in [D -> Int], NEW live \in SUBSET D,
         Constant(p, live, 0), NEW M \in Int, NEW S \in Int, NEW sh \in [D -> Int],
         Times(sh, p, D \ live, S),
         NEW share, Constant(sh, live, share), EvenPart(share, M, live, S)
  PROVE  SumFunction(sh) = (SumFunction(p) + M) * S
<1>1. PICK tot : Totals(tot, sh) /\ SumFunction(sh) = tot[D]
  BY TotalsExist
<1>2. tot[D] = SumFunction(p) * S + tot[live] /\ SumFunction(p) \in Int
  BY <1>1, SumOfParts
<1>3. PICK part \in Int : share = M * part /\ Cardinality(live) * part = S
  BY DEF EvenPart
<1> DEFINE n == Cardinality(live)
<1>4. n \in Int /\ share \in Int /\ n * part = S
  BY <1>3, FS_Subset, FS_CardinalityType, Products
<1>5. tot[live] = share * n
  BY <1>1, <1>4, TotalsConstant
<1> HIDE DEF n
<1>6. (M * part) * n = M * (part * n) /\ part * n = n * part
  BY <1>4, Products
<1>7. S * (SumFunction(p) + M) = S * SumFunction(p) + S * M
  BY <1>2, Products
<1>8. /\ S * (SumFunction(p) + M) = (SumFunction(p) + M) * S
      /\ S * SumFunction(p) = SumFunction(p) * S /\ S * M = M * S
  BY <1>2, Products
<1> QED  BY <1>1, <1>2, <1>3, <1>4, <1>5, <1>6, <1>7, <1>8

-----------------------------------------------------------------------------
(* Trees.                                                                  *)

\* One level deeper, the path is longer by the token.
LEMMA AlongDeeper ==
  ASSUME NEW c \in Seq(Nat), NEW n \in Nat, NEW p \in Seq(Nat), Len(p) = n, NEW t \in Nat
  PROVE  Begins(c, n + 1, Append(p, t)) <=> Begins(c, n, p) /\ Len(c) > n /\ c[n + 1] = t
<1>1. CASE ~(Len(c) >= n + 1)
  BY <1>1, LenProperties DEF Begins
<1>2. CASE Len(c) >= n + 1
  <2>1. SubSeq(c, 1, n + 1) = Append(SubSeq(c, 1, n), c[n + 1])
    OBVIOUS
  <2>2. SubSeq(c, 1, n) \in Seq(Nat) /\ c[n + 1] \in Nat
    BY <1>2
  <2>3. Append(SubSeq(c, 1, n), c[n + 1]) = Append(p, t) <=> SubSeq(c, 1, n) = p /\ c[n + 1] = t
    <3> DEFINE q == SubSeq(c, 1, n)
               e == c[n + 1]
    <3>1. q \in Seq(Nat) /\ e \in Nat
      BY <2>2
    <3> HIDE DEF q, e
    <3>2. Append(q, e) = Append(p, t) <=> q = p /\ e = t
      BY <3>1, AppendInjective, SMTT(30)
    <3> QED  BY <3>2 DEF q, e
  <2>4. Len(c) > n /\ Len(c) >= n
    BY <1>2, LenProperties
  <2>5. Begins(c, n + 1, Append(p, t)) <=> SubSeq(c, 1, n + 1) = Append(p, t)
    BY <1>2, Zenon DEF Begins
  <2>6. Begins(c, n, p) <=> SubSeq(c, 1, n) = p
    BY <2>4, Zenon DEF Begins
  <2> QED  BY <2>1, <2>3, <2>4, <2>5, <2>6, Zenon
<1> QED  BY <1>1, <1>2

\* The fields of a tree.
LEMMA TreeFields ==
  ASSUME NEW s \in Trees
  PROVE  /\ s.candidates \in Seq(Seq(Nat)) /\ s.live \subseteq Nat /\ s.consumed \in Seq(Nat)
         /\ s.levels \in Nat /\ s.winner \in Nat
         /\ Len(s.candidates) \in Nat /\ DOMAIN s.candidates = 1 .. Len(s.candidates)
         /\ \A i \in DOMAIN s.candidates :
              s.candidates[i] \in Seq(Nat) /\ Len(s.candidates[i]) \in Nat
<1>1. /\ s.candidates \in Seq(Seq(Nat)) /\ s.live \subseteq Nat /\ s.consumed \in Seq(Nat)
      /\ s.levels \in Nat /\ s.winner \in Nat
  BY DEF Trees
<1>2. Len(s.candidates) \in Nat /\ DOMAIN s.candidates = 1 .. Len(s.candidates)
  BY <1>1, LenProperties
<1>3. ASSUME NEW i \in DOMAIN s.candidates
      PROVE  s.candidates[i] \in Seq(Nat) /\ Len(s.candidates[i]) \in Nat
  <2>1. s.candidates[i] \in Seq(Nat)
    BY <1>1, <1>2, ElementOfSeq
  <2> QED  BY <2>1, LenProperties
<1> QED  BY <1>1, <1>2, <1>3

\* What keeps s.live along the path when the group of a token goes on.
LEMMA GroupFollows ==
  ASSUME NEW s, Grown(s), ~Resolved(s), Exhausted(s) = {}, NEW t \in Tokens(s)
  PROVE  LET d == [s EXCEPT !.live = Group(s, t), !.consumed = Append(@, t), !.levels = @ + 1]
         IN  d \in Trees /\ Len(d.consumed) = d.levels /\ LiveAlong(d) /\ d.live # {}
<1> DEFINE d == [s EXCEPT !.live = Group(s, t), !.consumed = Append(@, t), !.levels = @ + 1]
<1>1. s \in Trees /\ LiveAlong(s) /\ Len(s.consumed) = s.levels
  BY DEF Grown, Follows
<1>2. ASSUME NEW i \in s.live
      PROVE  /\ i \in DOMAIN s.candidates
             /\ s.candidates[i] \in Seq(Nat) /\ Len(s.candidates[i]) > s.levels
             /\ NextToken(s, i) \in Nat
  <2>1. i \in DOMAIN s.candidates
    BY <1>1 DEF LiveAlong
  <2>2. s.candidates[i] \in Seq(Nat) /\ Len(s.candidates[i]) \in Nat /\ s.levels \in Nat
    BY <1>1, <2>1, TreeFields
  <2>3. ~(s.levels >= Len(s.candidates[i]))
    BY DEF Exhausted
  <2>4. s.levels + 1 \in 1 .. Len(s.candidates[i])
    BY <2>2, <2>3
  <2> QED  BY <2>1, <2>2, <2>3, <2>4, ElementOfSeq DEF NextToken
<1>3. t \in Nat /\ Group(s, t) # {} /\ Group(s, t) \subseteq s.live
  BY <1>2 DEF Tokens, Group
<1>4. /\ d.candidates = s.candidates /\ d.levels = s.levels + 1
      /\ d.consumed = Append(s.consumed, t) /\ d.live = Group(s, t)
  BY <1>1 DEF Trees
<1>5. d \in Trees /\ Len(d.consumed) = d.levels
  <2>1. Append(s.consumed, t) \in Seq(Nat) /\ Len(Append(s.consumed, t)) = s.levels + 1
    BY <1>1, <1>3, TreeFields, AppendProperties
  <2>2. Group(s, t) \subseteq Nat /\ s.levels + 1 \in Nat
    BY <1>1, <1>3, TreeFields
  <2> QED  BY <1>1, <1>4, <2>1, <2>2 DEF Trees
<1> HIDE DEF d
<1>6. ASSUME NEW i \in DOMAIN s.candidates
      PROVE  i \in Group(s, t) <=> Along(d, s.candidates[i])
  <2> DEFINE c == s.candidates[i]
             n == s.levels
             p == s.consumed
  <2>1. c \in Seq(Nat) /\ n \in Nat /\ p \in Seq(Nat) /\ Len(p) = n
    BY <1>1, TreeFields
  <2>2. i \in Group(s, t) <=> Along(s, c) /\ Len(c) > n /\ c[n + 1] = t
    BY <1>1, <1>2 DEF Group, LiveAlong, NextToken
  <2>3. i \in Group(s, t) <=> Begins(c, n, p) /\ Len(c) > n /\ c[n + 1] = t
    BY <2>2 DEF Along
  <2>4. Along(d, c) <=> Begins(c, n + 1, Append(p, t))
    BY <1>4 DEF Along
  <2> HIDE DEF c, n, p
  <2>5. Begins(c, n + 1, Append(p, t)) <=> Begins(c, n, p) /\ Len(c) > n /\ c[n + 1] = t
    BY <2>1, <1>3, AlongDeeper
  <2> QED  BY <2>3, <2>4, <2>5 DEF c
<1>7. Group(s, t) = {i \in DOMAIN s.candidates : Along(d, s.candidates[i])}
  BY <1>2, <1>3, <1>6
<1>8. LiveAlong(d)
  BY <1>4, <1>7 DEF LiveAlong
<1> QED  BY <1>3, <1>4, <1>5, <1>8 DEF d

\* Candidates are finitely many.
LEMMA LiveFinite ==
  ASSUME NEW s \in Trees, LiveAlong(s)
  PROVE  IsFiniteSet(s.live)
<1>1. IsFiniteSet(DOMAIN s.candidates)
  BY TreeFields, FS_Interval
<1>2. s.live \in SUBSET (DOMAIN s.candidates)
  BY DEF LiveAlong
<1> QED  BY <1>1, <1>2, FS_Subset

\* A single live candidate wins, several stay open.
LEMMA WonFollows ==
  ASSUME NEW d \in Trees, Len(d.consumed) = d.levels, LiveAlong(d), d.live # {}, ~Resolved(d)
  PROVE  Grown(Won(d)) /\ (Resolved(Won(d)) => Won(d).winner \in d.live)
<1>1. IsFiniteSet(d.live) /\ Cardinality(d.live) \in Nat /\ Cardinality(d.live) # 0
  BY LiveFinite, FS_CardinalityType, FS_EmptySet
<1>2. CASE Cardinality(d.live) # 1
  BY <1>1, <1>2 DEF Won, Grown, Follows
<1>3. CASE Cardinality(d.live) = 1
  <2>1. PICK i \in d.live : Won(d) = Finish(d, i)
    BY <1>3 DEF Won
  <2>2. i \in DOMAIN d.candidates /\ Along(d, d.candidates[i]) /\ i \in Nat /\ i # 0
    BY <2>1 DEF LiveAlong, Trees
  <2>3. Finish(d, i) \in Trees
    BY <2>2 DEF Finish, Trees
  <2> QED  BY <2>1, <2>2, <2>3 DEF Finish, Grown, Follows, Resolved, Along, Trees
<1> QED  BY <1>2, <1>3

\* The constructor.
LEMMA StartGrown ==
  ASSUME NEW c \in Seq(Seq(Nat)), c # <<>>
  PROVE  Grown(Start(c))
<1> DEFINE s == [candidates |-> c, live |-> DOMAIN c, consumed |-> <<>>, levels |-> 0, winner |-> 0]
<1>1. DOMAIN c = 1 .. Len(c) /\ Len(c) \in Nat /\ Len(c) # 0
  BY LenProperties, EmptySeq
<1>2. s \in Trees /\ Len(s.consumed) = s.levels /\ ~Resolved(s)
  BY <1>1, EmptySeq DEF Trees, Resolved
<1>3. \A i \in DOMAIN c : Along(s, c[i])
  <2> SUFFICES ASSUME NEW i \in DOMAIN c PROVE Along(s, c[i])
    OBVIOUS
  <2>1. c[i] \in Seq(Nat) /\ Len(c[i]) \in Nat
    BY <1>1, ElementOfSeq, LenProperties
  <2>2. SubSeq(c[i], 1, 0) = <<>>
    BY SubSeqEmpty
  <2> QED  BY <2>1, <2>2 DEF Along, Begins
<1>4. s.candidates = c /\ s.live = DOMAIN c
  OBVIOUS
<1>5. CASE Len(c) = 1
  <2>1. Start(c) = Finish(s, 1)
    BY <1>5 DEF Start
  <2>2. Finish(s, 1) \in Trees
    BY <1>2 DEF Finish, Trees
  <2>3. Along(Finish(s, 1), c[1])
    BY <1>1, <1>3, <1>5 DEF Along, Finish
  <2> QED  BY <2>1, <2>2, <2>3, <1>1, <1>2, <1>5 DEF Grown, Follows, Resolved, Finish
<1>6. CASE Len(c) # 1
  <2>1. Start(c) = s
    BY <1>6 DEF Start
  <2> HIDE DEF s
  <2>2. LiveAlong(s)
    BY <1>3, <1>4 DEF LiveAlong
  <2>3. Cardinality(s.live) = Len(c)
    BY <1>1, <1>4, FS_Interval
  <2> QED  BY <2>1, <2>2, <2>3, <1>1, <1>2, <1>6 DEF Grown, Follows
<1> QED  BY <1>5, <1>6

\* advance, going one level deeper: what wins was live.
LEMMA DescendGrown ==
  ASSUME NEW s, Grown(s), ~Resolved(s), Exhausted(s) = {}, NEW t \in Tokens(s)
  PROVE  /\ Grown(Descend(s, t))
         /\ Resolved(Descend(s, t)) => Descend(s, t).winner \in Group(s, t)
<1> DEFINE d == [s EXCEPT !.live = Group(s, t), !.consumed = Append(@, t), !.levels = @ + 1]
<1>1. d \in Trees /\ Len(d.consumed) = d.levels /\ LiveAlong(d) /\ d.live # {}
  BY GroupFollows
<1>2. d.live = Group(s, t) /\ ~Resolved(d)
  BY DEF Grown, Trees, Resolved
<1>3. Descend(s, t) = Won(d)
  BY DEF Descend
<1> HIDE DEF d
<1> QED  BY <1>1, <1>2, <1>3, WonFollows

\* Finishing with a live candidate, whatever the reason.
LEMMA FinishGrown ==
  ASSUME NEW s, Grown(s), ~Resolved(s), NEW i \in s.live
  PROVE  Grown(Finish(s, i)) /\ Resolved(Finish(s, i)) /\ Finish(s, i).winner = i
<1>1. i \in DOMAIN s.candidates /\ Along(s, s.candidates[i]) /\ i \in Nat /\ i # 0 /\ s \in Trees
  BY DEF Grown, Follows, LiveAlong, Trees
<1>2. Finish(s, i) \in Trees
  BY <1>1 DEF Finish, Trees
<1> QED  BY <1>1, <1>2 DEF Finish, Grown, Follows, Resolved, Along, Trees
-----------------------------------------------------------------------------
(* The state machine.                                                      *)

\* Live candidates are finitely many naturals; so are exhausted ones and the
\* tokens that come next.
LEMMA OpenFacts ==
  ASSUME NEW s, Grown(s), ~Resolved(s)
  PROVE  /\ IsFiniteSet(s.live) /\ s.live # {} /\ s.live \subseteq DOMAIN s.candidates
         /\ s.live \subseteq Nat
<1>1. s \in Trees /\ LiveAlong(s) /\ Cardinality(s.live) >= 2
  BY DEF Grown, Follows
<1>2. IsFiniteSet(s.live) /\ s.live \subseteq DOMAIN s.candidates /\ s.live \subseteq Nat
  BY <1>1, LiveFinite, TreeFields DEF LiveAlong
<1>3. s.live # {}
  BY <1>1, FS_EmptySet
<1> QED  BY <1>2, <1>3

\* advance with exhausted candidates: one of them wins.
LEMMA ExhaustedGrown ==
  ASSUME NEW s, Grown(s), ~Resolved(s), Exhausted(s) # {}
  PROVE  /\ Grown(TakeExhausted(s)) /\ Resolved(TakeExhausted(s))
         /\ TakeExhausted(s).winner \in s.live
<1>1. Exhausted(s) \in SUBSET s.live
  BY DEF Exhausted
<1>2. IsFiniteSet(Exhausted(s)) /\ Exhausted(s) \subseteq Nat
  BY <1>1, OpenFacts, FS_Subset
<1>3. Min(Exhausted(s)) \in s.live
  BY <1>1, <1>2, MinFacts
<1> QED  BY <1>3, FinishGrown DEF TakeExhausted

\* force_resolve: a live candidate wins.
LEMMA ForcedGrown ==
  ASSUME NEW s, Grown(s), ~Resolved(s)
  PROVE  Grown(ForceResolve(s)) /\ Resolved(ForceResolve(s)) /\ ForceResolve(s).winner \in s.live
<1>1. Min(s.live) \in s.live
  BY OpenFacts, MinFacts
<1> QED  BY <1>1, FinishGrown DEF ForceResolve

\* The tokens that come next are finitely many naturals, and there is one.
LEMMA TokensFacts ==
  ASSUME NEW s, Grown(s), ~Resolved(s), Exhausted(s) = {}
  PROVE  IsFiniteSet(Tokens(s)) /\ Tokens(s) # {} /\ Tokens(s) \subseteq Nat
<1>1. IsFiniteSet(Tokens(s))
  <2> DEFINE f == [i \in s.live |-> NextToken(s, i)]
  <2>1. f \in Surjection(s.live, Tokens(s))
    BY DEF Surjection, Tokens
  <2> QED  BY <2>1, OpenFacts, FS_Surjection
<1>2. Tokens(s) # {}
  BY OpenFacts DEF Tokens
<1>3. ASSUME NEW i \in s.live PROVE NextToken(s, i) \in Nat
  <2>1. /\ s.candidates[i] \in Seq(Nat) /\ Len(s.candidates[i]) \in Nat /\ s.levels \in Nat
    BY OpenFacts, TreeFields DEF Grown
  <2>2. s.levels + 1 \in 1 .. Len(s.candidates[i])
    BY <2>1 DEF Exhausted
  <2> QED  BY <2>1, <2>2, ElementOfSeq DEF NextToken
<1> QED  BY <1>1, <1>2, <1>3 DEF Tokens

\* The best token is one of those that come next.
LEMMA BestFacts ==
  ASSUME NEW T, IsFiniteSet(T), T # {}, T \subseteq Nat, NEW w \in [T -> Nat]
  PROVE  Best(w) \in T
<1> DEFINE S == {t \in DOMAIN w : \A u \in DOMAIN w : w[u] <= w[t]}
<1>1. w \in [T -> Int] /\ DOMAIN w = T
  OBVIOUS
<1>2. S # {} /\ S \in SUBSET T
  BY <1>1, BestExists
<1>3. IsFiniteSet(S) /\ S \subseteq Nat
  BY <1>2, FS_Subset
<1>4. Min(S) \in S
  BY <1>2, <1>3, MinFacts
<1> QED  BY <1>2, <1>4 DEF Best

\* The invariant: the tree grows as it should, from a list that a field may have,
\* and there is a probability for each of its candidates.
Masses ==
  /\ unit \in Nat \ {0} /\ liveMass \in Int
  /\ probabilities \in [Indices -> Int \cup {NaN}]

IInv == Grown(tree) /\ tree.candidates \in CandidateLists /\ Masses

\* The three outcomes of a step for the tree.
TreeStep ==
  \/ Exhausted(tree) # {} /\ tree' = TakeExhausted(tree)
  \/ Exhausted(tree) = {} /\ \E t \in Tokens(tree) : tree' = Descend(tree, t)
  \/ tree' = ForceResolve(tree)

\* Weights and masses decide only which of the outcomes it is.
LEMMA NextIsTreeStep ==
  ASSUME IInv, Next
  PROVE  ~Resolved(tree) /\ TreeStep
<1>1. CASE AdvanceExhausted
  BY <1>1 DEF AdvanceExhausted, TreeStep
<1>2. CASE AdvanceScored
  <2>1. PICK w \in [Tokens(tree) -> Weights] : tree' = Descend(tree, Best(w))
    BY <1>2 DEF AdvanceScored, Settle
  <2>2. w \in [Tokens(tree) -> Nat]
    BY StateAssumption
  <2>3. ~Resolved(tree) /\ Exhausted(tree) = {}
    BY <1>2 DEF AdvanceScored
  <2>4. Best(w) \in Tokens(tree)
    BY <2>2, <2>3, TokensFacts, BestFacts DEF IInv
  <2> QED  BY <2>1, <2>3, <2>4 DEF TreeStep
<1>3. CASE AdvanceUndefined
  <2>1. ~Resolved(tree) /\ Exhausted(tree) = {} /\ tree' = Descend(tree, Min(Tokens(tree)))
    BY <1>3 DEF AdvanceUndefined, Settle
  <2>2. Min(Tokens(tree)) \in Tokens(tree)
    BY <2>1, TokensFacts, MinFacts DEF IInv
  <2> QED  BY <2>1, <2>2 DEF TreeStep
<1>4. CASE Forced
  BY <1>4 DEF Forced, TreeStep
<1> QED  BY <1>1, <1>2, <1>3, <1>4 DEF Next, Advance

\* Every step keeps the tree as it should be, and the candidates; what it resolves
\* to was live.
LEMMA StepGrows ==
  ASSUME IInv, Next
  PROVE  /\ Grown(tree') /\ tree'.candidates = tree.candidates
         /\ Resolved(tree') => tree'.winner \in tree.live
<1>1. Grown(tree) /\ ~Resolved(tree) /\ tree \in Trees
  BY NextIsTreeStep DEF IInv, Grown
<1>2. CASE Exhausted(tree) # {} /\ tree' = TakeExhausted(tree)
  BY <1>1, <1>2, ExhaustedGrown DEF TakeExhausted, Finish, Trees
<1>3. CASE Exhausted(tree) = {} /\ \E t \in Tokens(tree) : tree' = Descend(tree, t)
  <2>1. PICK t \in Tokens(tree) : tree' = Descend(tree, t)
    BY <1>3
  <2>2. Grown(tree') /\ (Resolved(tree') => tree'.winner \in Group(tree, t))
    BY <1>1, <1>3, <2>1, DescendGrown
  <2>3. tree'.candidates = tree.candidates
    BY <1>1, <2>1 DEF Descend, Won, Finish, Trees
  <2> QED  BY <2>2, <2>3 DEF Group
<1>4. CASE tree' = ForceResolve(tree)
  BY <1>1, <1>4, ForcedGrown DEF ForceResolve, Finish, Trees
<1> QED  BY <1>2, <1>3, <1>4, NextIsTreeStep DEF TreeStep

\* Split is divided evenly by the size of every group, and of all that is live.
LEMMA SplitEvenly ==
  ASSUME IInv, ~Resolved(tree), NEW G \in SUBSET tree.live, G # {}
  PROVE  /\ Split \div Cardinality(G) \in Nat
         /\ Cardinality(G) * (Split \div Cardinality(G)) = Split
<1> DEFINE c == tree.candidates
           n == Cardinality(G)
<1>1. c \in Seq(Seq(Nat)) /\ Indices = 1 .. Len(c) /\ Len(c) \in Nat
  BY TreeFields DEF IInv, Grown, Indices
<1>2. IsFiniteSet(1 .. Len(c)) /\ Cardinality(1 .. Len(c)) = Len(c)
  BY <1>1, FS_Interval
<1>3. G \in SUBSET (1 .. Len(c))
  BY <1>1, OpenFacts DEF IInv, Indices
<1>4. n \in Nat /\ n # 0 /\ n <= Len(c)
  <2>1. IsFiniteSet(G) /\ n <= Len(c)
    BY <1>2, <1>3, FS_Subset
  <2> QED  BY <2>1, FS_CardinalityType, FS_EmptySet
<1>5. n \in 1 .. Len(c)
  BY <1>1, <1>4
<1>6. Split % n = 0 /\ Split \in Nat
  BY <1>5, StateAssumption DEF IInv
<1> HIDE DEF n
<1>7. Split \div n \in Nat /\ n * (Split \div n) = Split
  BY <1>4, <1>6
<1> QED  BY <1>7 DEF n

\* A probability keeps its value when the denominator is k times as large.
LEMMA Scaling ==
  ASSUME NEW p \in Int \cup {NaN}, NEW k \in Nat \ {0}
  PROVE  /\ Scaled(p, k) \in Int \cup {NaN} /\ Scaled(p, 1) = p
         /\ \A u \in Nat : Same(p, u, Scaled(p, k), u * k)
         /\ p \in Int => Scaled(p, k) = p * k
<1>1. NaN \notin Int
  BY StateAssumption
<1>2. CASE p = NaN
  BY <1>1, <1>2 DEF Scaled, Same
<1>3. CASE p \in Int
  <2>1. p # NaN /\ p * k \in Int /\ p * k # NaN /\ p * 1 = p
    BY <1>1, <1>3, Products
  <2>2. ASSUME NEW u \in Nat PROVE p * (u * k) = (p * k) * u
    <3>1. u * k = k * u /\ (p * k) * u = p * (k * u)
      BY <1>3, Products
    <3> QED  BY <3>1
  <2> QED  BY <1>3, <2>1, <2>2 DEF Scaled, Same
<1> QED  BY <1>2, <1>3

\* Weights that are numbers, one of them not zero: what the levels divide by, and
\* what every candidate gets, are as they should be.
LEMMA ScoredFacts ==
  ASSUME IInv, ~Resolved(tree), Exhausted(tree) = {},
         NEW w \in [Tokens(tree) -> Weights], NEW t \in Tokens(tree), w[t] > 0
  PROVE  /\ w \in [Tokens(tree) -> Nat] /\ Best(w) \in Tokens(tree)
         /\ SumFunction(w) * Split \in Nat \ {0} /\ KeptMass(w) \in Int
         /\ \A i \in tree.live :
              /\ NextToken(tree, i) \in Tokens(tree)
              /\ liveMass * w[NextToken(tree, i)]
                   * (Split \div Cardinality(Group(tree, NextToken(tree, i)))) \in Int
<1>1. IsFiniteSet(Tokens(tree)) /\ Tokens(tree) # {} /\ Tokens(tree) \subseteq Nat
  BY TokensFacts DEF IInv
<1>2. w \in [Tokens(tree) -> Nat]
  BY StateAssumption
<1>3. Best(w) \in Tokens(tree)
  BY <1>1, <1>2, BestFacts
<1>4. Split \in Nat \ {0} /\ liveMass \in Int
  BY StateAssumption DEF IInv, Masses
<1>5. SumFunction(w) \in Nat /\ SumFunction(w) # 0
  <2> DEFINE T == Tokens(tree)
  <2>1. w \in [T -> Nat] /\ w \in [T -> Int] /\ IsFiniteSet(T)
    BY <1>1, <1>2
  <2>2. t \in T /\ T \in SUBSET T
    OBVIOUS
  <2> HIDE DEF T
  <2>3. PICK tot : Totals(tot, w) /\ SumFunction(w) = tot[T]
    BY <2>1, TotalsExist
  <2>4. tot[T] \in Nat /\ w[t] <= tot[T]
    BY <2>1, <2>2, <2>3, TotalsNat
  <2>5. w[t] \in Nat
    BY <2>1, <2>2
  <2> QED  BY <2>3, <2>4, <2>5
<1>6. KeptMass(w) \in Int
  <2>1. w[Best(w)] \in Int /\ Split \in Int
    BY <1>2, <1>3, <1>4
  <2>2. liveMass * w[Best(w)] \in Int
    BY <1>4, <2>1, Products
  <2> QED  BY <2>1, <2>2, Products DEF KeptMass
<1>7. ASSUME NEW i \in tree.live
      PROVE  /\ NextToken(tree, i) \in Tokens(tree)
             /\ liveMass * w[NextToken(tree, i)]
                  * (Split \div Cardinality(Group(tree, NextToken(tree, i)))) \in Int
  <2> DEFINE u == NextToken(tree, i)
             q == Split \div Cardinality(Group(tree, u))
  <2>1. u \in Tokens(tree) /\ Group(tree, u) \in SUBSET tree.live /\ Group(tree, u) # {}
    BY DEF Tokens, Group
  <2>2. q \in Nat
    <3> HIDE DEF u
    <3> QED  BY <2>1, SplitEvenly
  <2>3. w[u] \in Int
    BY <1>2, <2>1
  <2> HIDE DEF u, q
  <2>4. liveMass * w[u] \in Int
    BY <1>4, <2>3, Products
  <2>5. liveMass * w[u] * q \in Int
    BY <2>2, <2>4, Products
  <2> QED  BY <2>1, <2>5 DEF u, q
<1>8. SumFunction(w) * Split \in Nat \ {0}
  BY <1>4, <1>5, Products
<1> QED  BY <1>2, <1>3, <1>6, <1>7, <1>8

\* Those of the candidates that are out keep their value, with a denominator k times
\* as large.
OutKept(shares, k) ==
  \A i \in Indices : i \notin tree.live => shares[i] = Scaled(probabilities[i], k)

\* How a step leaves the probabilities.
Keeps(k) ==
  /\ unit' = unit * k /\ liveMass' \in Int
  /\ probabilities' \in [Indices -> Int \cup {NaN}] /\ OutKept(probabilities', k)

\* What Settle and finish make of the shares and of what is kept.
Settled(kept, shares) ==
  \/ Resolved(tree') /\ FinishMass(tree'.winner, kept, shares)
  \/ ~Resolved(tree') /\ probabilities' = shares /\ liveMass' = kept

\* The winner was live, so it takes no probability that was final.
LEMMA SharesKept ==
  ASSUME IInv, NEW k \in Nat \ {0}, NEW kept \in Int,
         NEW shares \in [Indices -> Int \cup {NaN}], OutKept(shares, k), Settled(kept, shares),
         unit' = unit * k, Resolved(tree') => tree'.winner \in tree.live
  PROVE  Keeps(k)
<1>1. CASE Resolved(tree') /\ FinishMass(tree'.winner, kept, shares)
  <2>1. tree'.winner \in tree.live
    BY <1>1
  <2>2. probabilities' = [shares EXCEPT ![tree'.winner] = kept] /\ liveMass' = 0
    BY <1>1 DEF FinishMass
  <2>3. probabilities' \in [Indices -> Int \cup {NaN}]
    BY <2>2
  <2>4. ASSUME NEW i \in Indices, i \notin tree.live
        PROVE  probabilities'[i] = Scaled(probabilities[i], k)
    <3>1. probabilities'[i] = shares[i]
      BY <2>1, <2>2, <2>4, Zenon
    <3> QED  BY <2>4, <3>1 DEF OutKept
  <2> QED  BY <2>2, <2>3, <2>4 DEF Keeps, OutKept
<1>2. CASE probabilities' = shares /\ liveMass' = kept
  BY <1>2 DEF Keeps
<1> QED  BY <1>1, <1>2 DEF Settled

\* Every step leaves a probability for each candidate, and those that are final.
LEMMA StepKeeps ==
  ASSUME IInv, Next
  PROVE  \E k \in Nat \ {0} : Keeps(k)
<1>1. ~Resolved(tree) /\ (Resolved(tree') => tree'.winner \in tree.live)
  BY NextIsTreeStep, StepGrows
<1>2. /\ unit \in Nat \ {0} /\ liveMass \in Int /\ NaN \notin Int
      /\ probabilities \in [Indices -> Int \cup {NaN}]
  BY StateAssumption DEF IInv, Masses
<1>3. unit = unit * 1 /\ 1 \in Nat \ {0}
  BY <1>2, Products
<1>4. \A i \in Indices : probabilities[i] = Scaled(probabilities[i], 1)
  BY <1>2, <1>3, Scaling
<1>5. CASE AdvanceExhausted
  <2>1. /\ FinishMass(tree'.winner, liveMass, probabilities) /\ unit' = unit
        /\ tree' = TakeExhausted(tree) /\ Exhausted(tree) # {}
    BY <1>5 DEF AdvanceExhausted
  <2>2. Resolved(tree')
    BY <1>1, <2>1, ExhaustedGrown DEF IInv
  <2>3. OutKept(probabilities, 1) /\ Settled(liveMass, probabilities)
    BY <1>4, <2>1, <2>2 DEF OutKept, Settled
  <2>4. Keeps(1)
    BY <1>1, <1>2, <1>3, <2>1, <2>3, SharesKept
  <2> QED  BY <1>3, <2>4
<1>6. CASE AdvanceScored
  <2>1. PICK w \in [Tokens(tree) -> Weights] :
          /\ \E t \in DOMAIN w : w[t] > 0
          /\ unit' = unit * (SumFunction(w) * Split)
          /\ Settle(Best(w), KeptMass(w), Shares(w, SumFunction(w) * Split))
    BY <1>6 DEF AdvanceScored
  <2> DEFINE k == SumFunction(w) * Split
             shares == Shares(w, k)
  <2>2. Exhausted(tree) = {} /\ \E t \in Tokens(tree) : w[t] > 0
    BY <1>6, <2>1 DEF AdvanceScored
  <2>3. /\ k \in Nat \ {0} /\ KeptMass(w) \in Int
        /\ \A i \in tree.live :
             liveMass * w[NextToken(tree, i)]
               * (Split \div Cardinality(Group(tree, NextToken(tree, i)))) \in Int
    BY <1>1, <2>2, ScoredFacts
  <2>4. unit' = unit * k /\ Settle(Best(w), KeptMass(w), shares)
    BY <2>1
  <2> HIDE DEF k
  <2>5. \A i \in Indices : Scaled(probabilities[i], k) \in Int \cup {NaN}
    BY <1>2, <2>3, Scaling
  <2>6. shares \in [Indices -> Int \cup {NaN}]
    BY <2>3, <2>5 DEF Shares
  <2>7. OutKept(shares, k)
    BY DEF Shares, OutKept
  <2> HIDE DEF shares
  <2>8. Settled(KeptMass(w), shares)
    BY <2>4, Zenon DEF Settle, Settled
  <2>9. Keeps(k)
    BY <1>1, <2>3, <2>4, <2>6, <2>7, <2>8, SharesKept
  <2> QED  BY <2>3, <2>9
<1>7. CASE AdvanceUndefined
  <2> DEFINE first == Min(Tokens(tree))
             shares == [i \in Indices |->
                          IF i \in tree.live \ Group(tree, first) THEN NaN ELSE probabilities[i]]
  <2>1. Settle(first, -liveMass, shares) /\ unit' = unit
    BY <1>7 DEF AdvanceUndefined
  <2>2. /\ shares \in [Indices -> Int \cup {NaN}] /\ -liveMass \in Int
        /\ OutKept(shares, 1)
    BY <1>2, <1>4 DEF OutKept
  <2> HIDE DEF shares, first
  <2>3. Settled(-liveMass, shares)
    BY <2>1, Zenon DEF Settle, Settled
  <2>4. Keeps(1)
    BY <1>1, <1>3, <2>1, <2>2, <2>3, SharesKept
  <2> QED  BY <1>3, <2>4
<1>8. CASE Forced
  <2> DEFINE share == liveMass * (Split \div Cardinality(tree.live))
             shares == ForcedShares(share)
  <2>1. /\ FinishMass(tree'.winner, share, shares) /\ unit' = unit * Split
        /\ tree' = ForceResolve(tree)
    BY <1>8 DEF Forced
  <2>2. Resolved(tree')
    BY <1>1, <2>1, ForcedGrown DEF IInv
  <2>3. Split \in Nat \ {0} /\ share \in Int
    <3>1. Split \div Cardinality(tree.live) \in Int
      BY <1>1, OpenFacts, SplitEvenly DEF IInv
    <3> QED  BY <1>2, <3>1, Products, StateAssumption
  <2> HIDE DEF share
  <2>4. \A i \in Indices : Scaled(probabilities[i], Split) \in Int \cup {NaN}
    BY <1>2, <2>3, Scaling
  <2>5. /\ shares \in [Indices -> Int \cup {NaN}]
        /\ OutKept(shares, Split)
    BY <2>3, <2>4 DEF ForcedShares, OutKept
  <2> HIDE DEF shares
  <2>6. Settled(share, shares)
    BY <2>1, <2>2 DEF Settled
  <2>7. Keeps(Split)
    BY <1>1, <2>1, <2>3, <2>5, <2>6, SharesKept
  <2> QED  BY <2>3, <2>7
<1> QED  BY <1>5, <1>6, <1>7, <1>8 DEF Next, Advance

\* The invariant is inductive.
THEOREM Invariance == Spec => []IInv
<1>1. Init => IInv
  <2> SUFFICES ASSUME Init PROVE IInv
    OBVIOUS
  <2>1. PICK c \in CandidateLists :
          /\ tree = Start(c) /\ unit = 1 /\ liveMass = IF Len(c) = 1 THEN 0 ELSE 1
          /\ probabilities = [i \in DOMAIN c |-> IF Len(c) = 1 THEN 1 ELSE 0]
    BY DEF Init
  <2>2. c \in Seq(Seq(Nat)) /\ c # <<>>
    BY StateAssumption
  <2>3. tree.candidates = c
    BY <2>1 DEF Start, Finish
  <2>4. Masses
    BY <2>1, <2>3 DEF Masses, Indices
  <2> QED  BY <2>1, <2>2, <2>3, <2>4, StartGrown DEF IInv
<1>2. IInv /\ [Next]_stateVars => IInv'
  <2>1. ASSUME IInv, Next PROVE IInv'
    <3>1. Grown(tree') /\ tree'.candidates = tree.candidates
      BY <2>1, StepGrows
    <3>2. Indices' = Indices
      BY <3>1 DEF Indices
    <3>3. PICK k \in Nat \ {0} : Keeps(k)
      BY <2>1, StepKeeps
    <3>4. unit \in Nat \ {0} /\ unit * k \in Nat \ {0}
      BY <2>1, Products DEF IInv, Masses
    <3>5. Masses'
      BY <3>2, <3>3, <3>4 DEF Keeps, Masses
    <3> QED  BY <2>1, <3>1, <3>5 DEF IInv
  <2>2. CASE UNCHANGED stateVars
    BY <2>2 DEF stateVars, IInv, Indices, Masses
  <2> QED  BY <2>1, <2>2
<1> QED  BY <1>1, <1>2, PTL DEF Spec

\* For every list of candidates and all logits, numbers or not: an open field's
\* live candidates are those along the path decoded so far, at least two, and
\* the winner of a resolved one lies on it.
THEOREM PathIsFollowed == Spec => []CandidatesFollowPath
<1>1. IInv => CandidatesFollowPath
  BY DEF IInv, Grown, Follows, LiveAlong, Along, Begins, CandidatesFollowPath, IsPath, Indices
<1> QED  BY <1>1, Invariance, PTL

\* No later level, nor finish, nor force_resolve touches the probability of a
\* candidate that is out.
THEOREM OutIsFinal == Spec => EliminatedIsFinal
<1> DEFINE Final(i) == ~Resolved(tree) /\ i \notin tree.live
                         => Same(probabilities[i], unit, probabilities'[i], unit')
<1>1. ASSUME IInv, Next PROVE \A i \in Indices : Final(i)
  <2>1. PICK k \in Nat \ {0} : Keeps(k)
    BY <1>1, StepKeeps
  <2>2. ASSUME NEW i \in Indices, i \notin tree.live
        PROVE  Same(probabilities[i], unit, probabilities'[i], unit')
    <3> DEFINE p == probabilities[i]
    <3>1. p \in Int \cup {NaN} /\ unit \in Nat
      BY <1>1 DEF IInv, Masses
    <3> HIDE DEF p
    <3>2. Same(p, unit, Scaled(p, k), unit * k)
      BY <3>1, Scaling
    <3> QED  BY <2>1, <2>2, <3>2 DEF Keeps, OutKept, p
  <2> QED  BY <2>2
<1>2. IInv /\ [Next]_stateVars => [\A i \in Indices : Final(i)]_stateVars
  BY <1>1
<1> QED  BY <1>2, Invariance, PTL DEF Spec, EliminatedIsFinal

\* Every call of advance or force_resolve finishes an open field or takes it just
\* one level deeper, and no deeper than the tokens of any candidate still live: a
\* field takes as many calls as its longest candidate has tokens, and one more to
\* finish, at most.  A finished field never changes.
THEOREM EveryCallDecides ==
  Spec => [][/\ ~Resolved(tree) /\ tree'.candidates = tree.candidates
             /\ \/ Resolved(tree')
                \/ /\ tree'.levels = tree.levels + 1
                   /\ tree'.live # {} /\ tree'.live \subseteq tree.live
                   /\ \A i \in tree'.live : tree'.levels <= Len(tree.candidates[i])]_stateVars
<1> DEFINE Deeper == /\ tree'.levels = tree.levels + 1
                     /\ tree'.live # {} /\ tree'.live \subseteq tree.live
                     /\ \A i \in tree'.live : tree'.levels <= Len(tree.candidates[i])
           Decides == ~Resolved(tree) /\ tree'.candidates = tree.candidates
                        /\ (Resolved(tree') \/ Deeper)
<1>1. ASSUME IInv, Next PROVE Decides
  <2>1. /\ Grown(tree) /\ ~Resolved(tree) /\ TreeStep
        /\ Grown(tree') /\ tree'.candidates = tree.candidates
    BY <1>1, NextIsTreeStep, StepGrows DEF IInv
  <2>2. ASSUME ~Resolved(tree') PROVE Deeper
    <3>1. PICK t \in Tokens(tree) : tree' = Descend(tree, t)
      BY <2>1, <2>2, ExhaustedGrown, ForcedGrown DEF TreeStep
    <3> DEFINE d == [tree EXCEPT !.live = Group(tree, t), !.consumed = Append(@, t), !.levels = @ + 1]
    <3>2. tree' = d
      <4>1. tree' = Won(d)
        BY <3>1 DEF Descend
      <4>2. d.live \subseteq tree.live
        BY <2>1 DEF Group, Grown, Trees
      <4>3. 0 \notin tree.live
        <5>1. tree.live \subseteq DOMAIN tree.candidates
          BY <2>1, OpenFacts
        <5>2. DOMAIN tree.candidates = 1 .. Len(tree.candidates) /\ Len(tree.candidates) \in Nat
          BY <2>1, TreeFields DEF Grown
        <5> QED  BY <5>1, <5>2
      <4>4. ASSUME Cardinality(d.live) = 1 PROVE FALSE
        <5> DEFINE c == CHOOSE i \in d.live : TRUE
        <5>1. c \in d.live
          BY <4>4, FS_EmptySet
        <5>2. tree' = Finish(d, c)
          BY <4>1, <4>4 DEF Won
        <5> HIDE DEF c
        <5>3. tree'.winner = c
          BY <2>1, <5>2 DEF Finish, Grown, Trees
        <5> QED  BY <2>2, <4>2, <4>3, <5>1, <5>3 DEF Resolved
      <4> HIDE DEF d
      <4> QED  BY <4>1, <4>4 DEF Won
    <3>3. tree'.levels = tree.levels + 1 /\ tree'.live \subseteq tree.live
      BY <2>1, <3>2 DEF Grown, Trees, Group
    <3> HIDE DEF d
    <3>4. tree'.live # {}
      BY <2>1, <2>2, OpenFacts
    <3>5. \A i \in tree'.live : tree'.levels <= Len(tree.candidates[i])
      <4>1. LiveAlong(tree') /\ tree'.levels \in Nat
        BY <2>1, <2>2 DEF Grown, Follows, Trees
      <4>2. ASSUME NEW i \in tree'.live PROVE tree'.levels <= Len(tree'.candidates[i])
        <5>1. i \in DOMAIN tree'.candidates /\ Along(tree', tree'.candidates[i])
          BY <4>1 DEF LiveAlong
        <5>2. Len(tree'.candidates[i]) \in Nat
          BY <2>1, <5>1, TreeFields DEF Grown
        <5> QED  BY <4>1, <5>1, <5>2 DEF Along, Begins
      <4> QED  BY <2>1, <4>2
    <3> QED  BY <3>3, <3>4, <3>5
  <2> QED  BY <2>1, <2>2
<1>2. IInv /\ [Next]_stateVars => [Decides]_stateVars
  BY <1>1
<1> QED  BY <1>2, Invariance, PTL DEF Spec

-----------------------------------------------------------------------------
(* No mass is lost or made.                                                *)

\* As long as the logits are numbers: nothing is negative, who is live has nothing
\* yet, and all of it is the whole.  Inductive together with IInv.
Whole ==
  finite =>
    /\ probabilities \in [Indices -> Nat] /\ liveMass \in Nat
    /\ Constant(probabilities, tree.live, 0)
    /\ SumFunction(probabilities) + liveMass = unit

\* Candidates are finitely many.
LEMMA IndicesFinite ==
  ASSUME IInv
  PROVE  IsFiniteSet(Indices)
<1>1. Indices = 1 .. Len(tree.candidates) /\ Len(tree.candidates) \in Nat
  BY TreeFields DEF IInv, Grown, Indices
<1> QED  BY <1>1, FS_Interval

\* What finish leaves is whole, when with the winner's mass it adds up.
LEMMA FinishWhole ==
  ASSUME IInv, IInv', tree'.candidates = tree.candidates,
         NEW kept \in Nat, NEW shares \in [Indices -> Nat],
         Resolved(tree'), FinishMass(tree'.winner, kept, shares), tree'.winner \in Indices,
         SumFunction(shares) - shares[tree'.winner] + kept = unit'
  PROVE  Whole'
<1> DEFINE x == tree'.winner
<1>1. IsFiniteSet(Indices) /\ Indices' = Indices
  BY IndicesFinite DEF Indices
<1>2. probabilities' = [shares EXCEPT ![x] = kept] /\ liveMass' = 0
  BY DEF FinishMass
<1>3. tree'.live = {}
  BY DEF IInv, Grown, Follows
<1>4. shares \in [Indices -> Int] /\ x \in Indices /\ kept \in Int
  OBVIOUS
<1>5. SumFunction([shares EXCEPT ![x] = kept]) = SumFunction(shares) - shares[x] + kept
  BY <1>1, <1>4, SumExcept
<1>6. SumFunction(probabilities') = unit' /\ unit' \in Nat
  BY <1>2, <1>5 DEF IInv, Masses
<1>7. probabilities' \in [Indices -> Nat]
  BY <1>2
<1>8. Constant(probabilities', tree'.live, 0)
  BY <1>3 DEF Constant
<1>9. liveMass' = 0 /\ SumFunction(probabilities') + liveMass' = unit'
  <2> DEFINE q == SumFunction(probabilities')
  <2>1. q = unit' /\ unit' \in Nat /\ liveMass' = 0
    BY <1>2, <1>6
  <2> HIDE DEF q
  <2>2. \A a \in Nat : a + 0 = a
    OBVIOUS
  <2>3. q + liveMass' = unit'
    BY <2>1, <2>2, Zenon
  <2> QED  BY <2>1, <2>3 DEF q
<1>10. probabilities' \in [Indices' -> Nat]
  BY <1>1, <1>7
<1> QED  BY <1>8, <1>9, <1>10 DEF Whole

\* What an open and whole field holds.
LEMMA OpenWhole ==
  ASSUME IInv, Whole, finite, ~Resolved(tree)
  PROVE  /\ IsFiniteSet(Indices) /\ tree.live \in SUBSET Indices
         /\ probabilities \in [Indices -> Nat] /\ probabilities \in [Indices -> Int]
         /\ liveMass \in Nat /\ unit \in Nat
         /\ Constant(probabilities, tree.live, 0)
         /\ SumFunction(probabilities) + liveMass = unit /\ SumFunction(probabilities) \in Int
         /\ \A i \in Indices, k \in Nat \ {0} :
              Scaled(probabilities[i], k) = probabilities[i] * k /\ probabilities[i] * k \in Nat
<1>1. IsFiniteSet(Indices) /\ tree.live \in SUBSET Indices
  BY IndicesFinite, OpenFacts DEF IInv, Indices
<1>2. /\ probabilities \in [Indices -> Nat] /\ liveMass \in Nat /\ unit \in Nat
      /\ Constant(probabilities, tree.live, 0)
      /\ SumFunction(probabilities) + liveMass = unit
  BY DEF Whole, IInv, Masses
<1>3. probabilities \in [Indices -> Int]
  BY <1>2
<1>4. SumFunction(probabilities) \in Int
  <2>1. PICK tot : Totals(tot, probabilities) /\ SumFunction(probabilities) = tot[Indices]
    BY <1>1, <1>3, TotalsExist
  <2>2. DOMAIN probabilities = Indices
    BY <1>3
  <2> QED  BY <2>1, <2>2 DEF Totals
<1>5. ASSUME NEW i \in Indices, NEW k \in Nat \ {0}
      PROVE  Scaled(probabilities[i], k) = probabilities[i] * k /\ probabilities[i] * k \in Nat
  <2> DEFINE p == probabilities[i]
  <2>1. p \in Nat
    BY <1>2
  <2> HIDE DEF p
  <2>2. Scaled(p, k) = p * k /\ p * k \in Nat
    BY <2>1, Scaling, Products
  <2> QED  BY <2>2 DEF p
<1> QED  BY <1>1, <1>2, <1>3, <1>4, <1>5

\* A level that scores: shares and kept mass are the whole again.
LEMMA ScoredWhole ==
  ASSUME IInv, Whole, finite, ~Resolved(tree), Exhausted(tree) = {},
         NEW w \in [Tokens(tree) -> Weights], NEW t \in Tokens(tree), w[t] > 0
  PROVE  LET sh == Shares(w, SumFunction(w) * Split)
         IN  /\ sh \in [Indices -> Nat] /\ KeptMass(w) \in Nat
             /\ Constant(sh, Group(tree, Best(w)), 0)
             /\ SumFunction(sh) + KeptMass(w) = unit * (SumFunction(w) * Split)
<1> DEFINE k == SumFunction(w) * Split
           sh == Shares(w, k)
           T == Tokens(tree)
           b == Best(w)
           next == [i \in tree.live |-> NextToken(tree, i)]
           part == [u \in T |-> Split \div Cardinality(Group(tree, u))]
<1>1. /\ w \in [T -> Nat] /\ b \in T /\ k \in Nat \ {0}
      /\ \A i \in tree.live : NextToken(tree, i) \in T
  BY ScoredFacts
<1>2. IsFiniteSet(T) /\ Split \in Nat /\ w \in [T -> Int]
  BY <1>1, TokensFacts, StateAssumption DEF IInv
<1>3. ASSUME NEW u \in T
      PROVE  /\ part[u] \in Nat /\ {i \in tree.live : next[i] = u} = Group(tree, u)
             /\ Cardinality({i \in tree.live : next[i] = u}) * part[u] = Split
  <2> DEFINE G == Group(tree, u)
  <2>1. G \in SUBSET tree.live /\ G # {} /\ G = {i \in tree.live : next[i] = u}
    BY DEF Tokens, Group
  <2>2. part[u] = Split \div Cardinality(G)
    OBVIOUS
  <2> HIDE DEF G, part, next
  <2>3. Split \div Cardinality(G) \in Nat /\ Cardinality(G) * (Split \div Cardinality(G)) = Split
    BY <2>1, SplitEvenly
  <2> QED  BY <2>1, <2>2, <2>3 DEF G
<1>4. next \in [tree.live -> T] /\ part \in [T -> Nat] /\ part \in [T -> Int]
  <2>1. next \in [tree.live -> T]
    BY <1>1
  <2>2. \A u \in T : Split \div Cardinality(Group(tree, u)) \in Nat
    BY <1>3
  <2> QED  BY <2>1, <2>2
<1>5. ASSUME NEW i \in tree.live
      PROVE  /\ sh[i] = IF next[i] = b THEN 0 ELSE (liveMass * w[next[i]]) * part[next[i]]
             /\ sh[i] \in Nat
  <2> DEFINE u == next[i]
  <2>1. u = NextToken(tree, i) /\ u \in T /\ i \in Indices
    BY <1>1, OpenWhole
  <2>2. part[u] = Split \div Cardinality(Group(tree, u)) /\ part[u] \in Nat /\ w[u] \in Nat
    BY <1>1, <1>3, <2>1
  <2> HIDE DEF u, part
  <2>3. liveMass \in Nat /\ (liveMass * w[u]) * part[u] \in Nat
    <3>1. liveMass \in Nat /\ liveMass * w[u] \in Nat
      BY <2>2, OpenWhole, Products
    <3> QED  BY <2>2, <3>1, Products
  <2>4. CASE u = b
    <3>1. Scaled(probabilities[i], k) = probabilities[i] * k /\ probabilities[i] = 0
      BY <1>1, <2>1, OpenWhole DEF Constant
    <3>2. Scaled(probabilities[i], k) = 0
      BY <1>1, <3>1, Products
    <3>3. sh[i] = Scaled(probabilities[i], k)
      BY <2>1, <2>4 DEF Shares
    <3> QED  BY <2>4, <3>2, <3>3 DEF u
  <2>5. CASE u # b
    <3>1. sh[i] = (liveMass * w[u]) * part[u]
      BY <2>1, <2>2, <2>5 DEF Shares
    <3> QED  BY <2>3, <2>5, <3>1 DEF u
  <2> QED  BY <2>4, <2>5
<1>6. ASSUME NEW i \in Indices \ tree.live
      PROVE  sh[i] = probabilities[i] * k /\ sh[i] \in Nat
  <2>1. sh[i] = Scaled(probabilities[i], k)
    BY DEF Shares
  <2> HIDE DEF sh, k
  <2> QED  BY <1>1, <2>1, OpenWhole
<1>7. sh \in [Indices -> Nat] /\ sh \in [Indices -> Int]
  <2>1. sh = [i \in Indices |-> sh[i]]
    BY DEF Shares
  <2> HIDE DEF sh
  <2>2. \A i \in Indices : sh[i] \in Nat
    BY <1>5, <1>6
  <2> QED  BY <2>1, <2>2
<1>8. Constant(sh, Group(tree, b), 0)
  <2>1. ASSUME NEW i \in Group(tree, b) PROVE sh[i] = 0
    <3>1. i \in tree.live /\ next[i] = b
      BY DEF Group
    <3> HIDE DEF sh, next
    <3> QED  BY <1>5, <3>1
  <2> HIDE DEF sh
  <2> QED  BY <2>1 DEF Constant
<1>9. KeptMass(w) = (liveMass * w[b]) * Split /\ KeptMass(w) \in Nat
  <2>1. w[b] \in Nat /\ liveMass \in Nat
    BY <1>1, OpenWhole
  <2>2. liveMass * w[b] \in Nat
    BY <2>1, Products
  <2>3. (liveMass * w[b]) * Split \in Nat
    BY <1>2, <2>2, Products
  <2> QED  BY <2>3 DEF KeptMass
<1>10. SumFunction(sh) + KeptMass(w) = (SumFunction(probabilities) + liveMass) * k
  <2>1. Times(sh, probabilities, Indices \ tree.live, SumFunction(w) * Split)
    <3> HIDE DEF sh
    <3> QED  BY <1>6 DEF Times
  <2> DEFINE D == Indices
             live == tree.live
             M == liveMass
             p == probabilities
  <2>2. IsFiniteSet(D) /\ p \in [D -> Int] /\ live \in SUBSET D /\ Constant(p, live, 0) /\ M \in Int
    BY OpenWhole
  <2>3. Even(next, part, live, T, Split)
    BY <1>3 DEF Even
  <2>4. Shared(sh, next, part, w, live, b, M)
    BY <1>5 DEF Shared
  <2>5. next \in [live -> T] /\ Times(sh, p, D \ live, SumFunction(w) * Split)
        /\ sh \in [D -> Int] /\ Split \in Int
    BY <1>2, <1>4, <1>7, <2>1
  <2> HIDE DEF sh, T, b, next, part, D, live, M, p
  <2>6. SumFunction(sh) + (M * w[b]) * Split = (SumFunction(p) + M) * (SumFunction(w) * Split)
    BY <1>1, <1>2, <1>4, <2>2, <2>3, <2>4, <2>5, LevelSum
  <2> QED  BY <1>9, <2>6 DEF M, p
<1>11. SumFunction(sh) + KeptMass(w) = unit * k
  BY <1>10, OpenWhole
<1> QED  BY <1>7, <1>8, <1>9, <1>11

\* Every step keeps the whole, whatever weights it is given.
LEMMA StepWhole ==
  ASSUME IInv, Whole, Next, IInv'
  PROVE  Whole'
<1> SUFFICES ASSUME finite' PROVE Whole'
  BY DEF Whole
<1>1. ~Resolved(tree) /\ tree'.candidates = tree.candidates
  BY NextIsTreeStep, StepGrows
<1>2. Resolved(tree') => tree'.winner \in tree.live
  BY StepGrows
<1>3. Indices' = Indices
  BY <1>1 DEF Indices
<1>4. CASE AdvanceExhausted
  <2>1. /\ FinishMass(tree'.winner, liveMass, probabilities) /\ unit' = unit /\ finite' = finite
        /\ tree' = TakeExhausted(tree) /\ Exhausted(tree) # {}
    BY <1>4 DEF AdvanceExhausted
  <2>2. Resolved(tree')
    BY <1>1, <2>1, ExhaustedGrown DEF IInv
  <2> DEFINE x == tree'.winner
             q == SumFunction(probabilities)
  <2>3. x \in Indices /\ probabilities[x] = 0 /\ q + liveMass = unit /\ q \in Int
    BY <1>1, <1>2, <2>1, <2>2, OpenWhole DEF Constant
  <2>4. liveMass \in Nat /\ probabilities \in [Indices -> Nat]
    BY <1>1, <2>1, OpenWhole
  <2>5. q - probabilities[x] + liveMass = unit'
    <3> HIDE DEF q, x
    <3> QED  BY <2>1, <2>3, <2>4
  <2> QED  BY <1>1, <2>1, <2>2, <2>3, <2>4, <2>5, FinishWhole
<1>5. CASE AdvanceScored
  <2>1. PICK w \in [Tokens(tree) -> Weights] :
          /\ \E t \in DOMAIN w : w[t] > 0
          /\ unit' = unit * (SumFunction(w) * Split)
          /\ Settle(Best(w), KeptMass(w), Shares(w, SumFunction(w) * Split))
    BY <1>5 DEF AdvanceScored
  <2> DEFINE k == SumFunction(w) * Split
             sh == Shares(w, k)
             kept == KeptMass(w)
             G == Group(tree, Best(w))
             q == SumFunction(sh)
  <2>2. Exhausted(tree) = {} /\ finite' = finite /\ \E t \in Tokens(tree) : w[t] > 0
    BY <1>5, <2>1 DEF AdvanceScored
  <2>3. /\ sh \in [Indices -> Nat] /\ kept \in Nat /\ Constant(sh, G, 0)
        /\ q + kept = unit * k
    BY <1>1, <2>2, ScoredWhole
  <2>4. unit' = unit * k /\ Settle(Best(w), kept, sh)
    BY <2>1
  <2>5. Best(w) \in Tokens(tree)
    BY <1>1, <2>2, ScoredFacts
  <2>6. tree' = Descend(tree, Best(w))
    BY <2>4 DEF Settle
  <2>7. (Resolved(tree') => tree'.winner \in G) /\ tree'.live \subseteq G
    <3>1. Resolved(tree') => tree'.winner \in G
      BY <1>1, <2>2, <2>5, <2>6, DescendGrown DEF IInv
    <3>2. tree'.live \subseteq G
      BY <2>6 DEF Descend, Won, Finish, IInv, Grown, Trees
    <3> QED  BY <3>1, <3>2
  <2>8. q \in Int
    <3>1. sh \in [Indices -> Int] /\ IsFiniteSet(Indices)
      BY <2>3, IndicesFinite
    <3> HIDE DEF sh
    <3>2. PICK tot : Totals(tot, sh) /\ q = tot[Indices]
      BY <3>1, TotalsExist
    <3>3. DOMAIN sh = Indices
      BY <3>1
    <3> QED  BY <3>2, <3>3 DEF Totals
  <2> HIDE DEF k, sh, kept, q
  <2>9. CASE Resolved(tree')
    <3> DEFINE x == tree'.winner
    <3>1. FinishMass(x, kept, sh)
      BY <2>4, <2>9 DEF Settle
    <3>2. x \in Indices /\ sh[x] = 0
      BY <1>1, <2>2, <2>3, <2>7, <2>9, OpenWhole DEF Constant, Group
    <3>3. q - sh[x] + kept = unit'
      <4> HIDE DEF x
      <4> QED  BY <2>3, <2>4, <2>8, <3>2
    <3> QED  BY <1>1, <2>3, <2>9, <3>1, <3>2, <3>3, FinishWhole DEF q
  <2>10. CASE ~Resolved(tree')
    <3>1. probabilities' = sh /\ liveMass' = kept
      BY <2>4, <2>10 DEF Settle
    <3>2. Constant(probabilities', tree'.live, 0)
      BY <2>3, <2>7, <3>1 DEF Constant
    <3>3. SumFunction(probabilities') + liveMass' = unit'
      BY <2>3, <2>4, <3>1 DEF q
    <3> QED  BY <1>3, <2>3, <3>1, <3>2, <3>3 DEF Whole
  <2> QED  BY <2>9, <2>10
<1>6. CASE AdvanceUndefined
  BY <1>6 DEF AdvanceUndefined
<1>7. CASE Forced
  <2> DEFINE part == Split \div Cardinality(tree.live)
             share == liveMass * part
             sh == ForcedShares(share)
             x == tree'.winner
             q == SumFunction(sh)
  <2>1. /\ FinishMass(x, share, sh) /\ unit' = unit * Split /\ finite' = finite
        /\ tree' = ForceResolve(tree)
    BY <1>7 DEF Forced
  <2>2. Resolved(tree')
    BY <1>1, <2>1, ForcedGrown DEF IInv
  <2>3. part \in Nat /\ Cardinality(tree.live) * part = Split /\ Split \in Nat \ {0}
    BY <1>1, OpenFacts, SplitEvenly, StateAssumption DEF IInv
  <2>4. /\ IsFiniteSet(Indices) /\ tree.live \in SUBSET Indices /\ liveMass \in Nat
        /\ probabilities \in [Indices -> Int] /\ Constant(probabilities, tree.live, 0)
        /\ SumFunction(probabilities) + liveMass = unit
    BY <1>1, <2>1, OpenWhole
  <2>5. share \in Nat
    <3> HIDE DEF part
    <3> QED  BY <2>3, <2>4, Products
  <2> HIDE DEF part, share
  <2>6. Constant(sh, tree.live, share)
    BY <2>4 DEF ForcedShares, Constant
  <2>7. Times(sh, probabilities, Indices \ tree.live, Split)
    <3>1. ASSUME NEW i \in Indices \ tree.live PROVE sh[i] = probabilities[i] * Split
      <4>1. sh[i] = Scaled(probabilities[i], Split)
        BY DEF ForcedShares
      <4> HIDE DEF sh
      <4> QED  BY <1>1, <2>1, <2>3, <4>1, OpenWhole
    <3> HIDE DEF sh
    <3> QED  BY <3>1 DEF Times
  <2>8. sh \in [Indices -> Nat] /\ sh \in [Indices -> Int]
    <3>1. \A i \in Indices : Scaled(probabilities[i], Split) \in Nat
      BY <1>1, <2>1, <2>3, OpenWhole
    <3> QED  BY <2>5, <3>1 DEF ForcedShares
  <2> HIDE DEF sh
  <2>9. q = (SumFunction(probabilities) + liveMass) * Split
    <3> DEFINE D == Indices
               live == tree.live
               M == liveMass
               p == probabilities
    <3>1. EvenPart(share, M, live, Split)
      BY <2>3 DEF EvenPart, share
    <3>2. /\ IsFiniteSet(D) /\ p \in [D -> Int] /\ live \in SUBSET D /\ Constant(p, live, 0)
          /\ M \in Int /\ Split \in Int /\ sh \in [D -> Int]
          /\ Times(sh, p, D \ live, Split) /\ Constant(sh, live, share)
      BY <2>3, <2>4, <2>6, <2>7, <2>8
    <3> HIDE DEF D, live, M, p
    <3>3. SumFunction(sh) = (SumFunction(p) + M) * Split
      BY <3>1, <3>2, EvenSum
    <3> QED  BY <3>3 DEF M, p
  <2>10. q = unit' /\ unit' \in Int
    BY <2>1, <2>4, <2>9 DEF IInv, Masses
  <2>11. x \in Indices /\ sh[x] = share
    BY <1>2, <2>2, <2>4, <2>6 DEF Constant
  <2>12. q - sh[x] + share = unit'
    <3> HIDE DEF q, x
    <3>1. \A a \in Int, b \in Nat : a - b + b = a
      OBVIOUS
    <3> QED  BY <2>5, <2>10, <2>11, <3>1, Zenon
  <2> QED  BY <1>1, <2>1, <2>2, <2>5, <2>8, <2>11, <2>12, FinishWhole
<1> QED  BY <1>4, <1>5, <1>6, <1>7 DEF Next, Advance

\* As long as the logits are numbers, probabilities are never negative, and what
\* the losers got and what is still live is all of the mass: for every list of
\* candidates and all weights, after any number of levels.
THEOREM MassIsConserved == Spec => []MassConserved
<1>1. IInv /\ Init => Whole
  <2> SUFFICES ASSUME IInv, Init PROVE Whole
    OBVIOUS
  <2>1. PICK c \in CandidateLists :
          /\ tree = Start(c) /\ unit = 1 /\ liveMass = IF Len(c) = 1 THEN 0 ELSE 1
          /\ probabilities = [i \in DOMAIN c |-> IF Len(c) = 1 THEN 1 ELSE 0]
    BY DEF Init
  <2>2. c \in Seq(Seq(Nat)) /\ Len(c) \in Nat /\ DOMAIN c = 1 .. Len(c) /\ c # <<>>
    BY StateAssumption, LenProperties
  <2>3. Indices = DOMAIN c /\ IsFiniteSet(Indices)
    BY <2>1, IndicesFinite DEF Start, Finish, Indices
  <2> DEFINE e == IF Len(c) = 1 THEN 1 ELSE 0
             p == probabilities
             n == Cardinality(Indices)
  <2>4. p \in [Indices -> Nat] /\ p \in [Indices -> Int] /\ e \in Int /\ Constant(p, Indices, e)
    BY <2>1, <2>3 DEF Constant
  <2>5. Constant(p, tree.live, 0)
    <3>1. CASE Len(c) = 1
      <4>1. tree.live = {}
        BY <2>1, <3>1 DEF Start, Finish
      <4> QED  BY <4>1 DEF Constant
    <3>2. CASE Len(c) # 1
      <4>1. tree.live = DOMAIN c
        BY <2>1, <3>2 DEF Start
      <4> QED  BY <2>3, <2>4, <3>2, <4>1
    <3> QED  BY <3>1, <3>2
  <2>6. SumFunction(p) = e * n
    <3> HIDE DEF p, e, n
    <3>1. PICK tot : Totals(tot, p) /\ SumFunction(p) = tot[Indices]
      BY <2>3, <2>4, TotalsExist
    <3>2. Indices \in SUBSET Indices
      OBVIOUS
    <3>3. tot[Indices] = e * Cardinality(Indices)
      BY <2>3, <2>4, <3>1, <3>2, TotalsConstant
    <3> QED  BY <3>1, <3>3 DEF n
  <2>7. n = Len(c)
    BY <2>2, <2>3, FS_Interval
  <2>8. SumFunction(p) + liveMass = unit /\ liveMass \in Nat
    <3>1. CASE Len(c) = 1
      BY <2>1, <2>6, <2>7, <3>1
    <3>2. CASE Len(c) # 1
      BY <2>1, <2>2, <2>6, <2>7, <3>2
    <3> QED  BY <3>1, <3>2
  <2> QED  BY <2>4, <2>5, <2>8 DEF Whole
<1>2. Whole /\ UNCHANGED stateVars => Whole'
  BY DEF Whole, stateVars, Indices
<1>3. IInv /\ IInv' /\ Whole /\ [Next]_stateVars => Whole'
  BY <1>2, StepWhole
<1>4. Whole => MassConserved
  BY DEF Whole, MassConserved
<1> QED  BY <1>1, <1>3, <1>4, Invariance, PTL DEF Spec
=============================================================================
