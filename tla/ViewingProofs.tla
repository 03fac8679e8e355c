---------------------------- MODULE ViewingProofs ---------------------------
(***************************************************************************)
(* Proofs about the screens: what the read endpoints say to each other, to *)
(* the check of a selection and of what friends share, for any rows, any   *)
(* number of friends and any writes between two statements.                *)
(*                                                                         *)
(* A ranking is a list because the keys of the rules tell entries apart,   *)
(* and entries are told apart by the ids of the rows they are made of.     *)
(* The rest follows from what a statement has read: all rows of a period,  *)
(* so that slots are counted right, and of clients granted at the time, so *)
(* that nothing else is shown.                                             *)
(***************************************************************************)
EXTENDS Viewing, FiniteSetTheorems, WellFoundedInduction, TLAPS

(********************************** sums ***********************************)

\* A set of numbers has a least one: the natural numbers are well founded.
LEMMA Least ==
  ASSUME NEW T \in SUBSET Nat, T # {}
  PROVE  \E n \in T : \A m \in T : n <= m
<1> DEFINE R == OpToRel(<, Nat)
<1>1. IsWellFoundedOn(R, Nat)
  BY NatLessThanWellFounded
<1>2. \A m, n \in Nat : m < n => <<m, n>> \in R
  BY DEF OpToRel
<1> HIDE DEF R
<1>3. PICK n \in T : \A m \in T : ~ (<<m, n>> \in R)
  BY <1>1, WFMin
<1>4. \A m \in T : ~ (m < n)
  BY <1>2, <1>3
<1> QED BY <1>3, <1>4

\* A set that has 0 and with every number the next is all of them.
LEMMA Steps ==
  ASSUME NEW N \in SUBSET Nat, 0 \in N, \A n \in N : n + 1 \in N
  PROVE  N = Nat
<1> SUFFICES ASSUME Nat \ N # {} PROVE FALSE
  OBVIOUS
<1>1. PICK x \in Nat \ N : \A y \in Nat \ N : x <= y
  BY Least
<1>2. x \in Nat /\ x # 0
  BY <1>1
<1>3. x - 1 \in Nat /\ (x - 1) + 1 = x /\ ~ (x <= x - 1)
  BY <1>2
<1> QED BY <1>1, <1>3

AnyOf(s) == CHOOSE x \in s : TRUE

Sums(f, S) == f = [s \in SUBSET S |-> IF s = {} THEN 0 ELSE AnyOf(s).percent + f[s \ {AnyOf(s)}]]

\* taking an element out leaves a smaller part
LEMMA Smaller ==
  ASSUME NEW S, IsFiniteSet(S), NEW s \in SUBSET S, s # {}
  PROVE  /\ AnyOf(s) \in S /\ s \ {AnyOf(s)} \in SUBSET S
         /\ Cardinality(s) \in Nat /\ Cardinality(s) > 0
         /\ Cardinality(s \ {AnyOf(s)}) = Cardinality(s) - 1
<1>1. AnyOf(s) \in s
  BY DEF AnyOf
<1>2. IsFiniteSet(s)
  BY FS_Subset
<1>3. Cardinality(s) \in Nat /\ Cardinality(s) # 0
  BY <1>2, FS_CardinalityType, FS_EmptySet
<1>4. Cardinality(s \ {AnyOf(s)}) = Cardinality(s) - 1
  BY <1>1, <1>2, FS_RemoveElement
<1> QED BY <1>1, <1>3, <1>4

\* The function that the sum over a finite set is defined by exists: of the parts of S
\* for which it does not there would be a least.
LEMMA SumsExist ==
  ASSUME NEW S, IsFiniteSet(S), \A x \in S : x.percent \in Int
  PROVE  \E f : Sums(f, S)
<1> DEFINE Eq(f, s) == f[s] = IF s = {} THEN 0 ELSE AnyOf(s).percent + f[s \ {AnyOf(s)}]
           Upto(f, n) == \A s \in SUBSET S : Cardinality(s) <= n => Eq(f, s)
           N == {n \in Nat : \E f \in [SUBSET S -> Int] : Upto(f, n)}
<1>1. \A s \in SUBSET S : Cardinality(s) \in Nat /\ (Cardinality(s) = 0 => s = {})
  BY FS_Subset, FS_CardinalityType, FS_EmptySet
<1>2. 0 \in N
  <2> DEFINE f == [s \in SUBSET S |-> 0]
  <2>1. f \in [SUBSET S -> Int]
    OBVIOUS
  <2>2. Upto(f, 0)
    BY <1>1
  <2> HIDE DEF f, Upto
  <2> QED BY <2>1, <2>2
<1>3. ASSUME NEW n \in N PROVE n + 1 \in N
  <2>1. PICK f \in [SUBSET S -> Int] : Upto(f, n)
    OBVIOUS
  <2> DEFINE g == [s \in SUBSET S |-> IF Cardinality(s) <= n THEN f[s]
                                      ELSE AnyOf(s).percent + f[s \ {AnyOf(s)}]]
  <2>2. \A s \in SUBSET S : s # {} => /\ AnyOf(s).percent \in Int
                                       /\ s \ {AnyOf(s)} \in SUBSET S
                                       /\ Cardinality(s \ {AnyOf(s)}) = Cardinality(s) - 1
    BY Smaller
  <2>0. n \in Nat /\ n + 1 \in Nat /\ Cardinality({}) = 0
    BY FS_EmptySet
  <2>3. \A s \in SUBSET S : ~ (Cardinality(s) <= n) => s # {}
    <3>1. 0 <= n
      BY <2>0
    <3> QED BY <2>0, <3>1
  <2>4. g \in [SUBSET S -> Int]
    BY <2>2, <2>3
  <2>5. ASSUME NEW s \in SUBSET S, Cardinality(s) <= n + 1
        PROVE  Eq(g, s)
    <3>1. CASE s = {}
      <4>1. Cardinality(s) <= n
        BY <3>1, FS_EmptySet
      <4>2. g[s] = f[s]
        BY <4>1
      <4> QED BY <2>1, <3>1, <4>1, <4>2
    <3>2. CASE s # {}
      <4> DEFINE t == s \ {AnyOf(s)}
      <4>1. t \in SUBSET S /\ Cardinality(t) = Cardinality(s) - 1 /\ Cardinality(t) <= n
        BY <1>1, <2>2, <2>5, <3>2
      <4>2. g[t] = f[t]
        BY <4>1
      <4>3. g[s] = AnyOf(s).percent + f[t]
        <5>1. CASE Cardinality(s) <= n
          BY <2>1, <3>2, <5>1
        <5>2. CASE ~ (Cardinality(s) <= n)
          BY <5>2
        <5> QED BY <5>1, <5>2
      <4> QED BY <3>2, <4>2, <4>3
    <3> QED BY <3>1, <3>2
  <2>6. Upto(g, n + 1)
    BY <2>5
  <2> HIDE DEF g, Upto
  <2> QED BY <2>0, <2>4, <2>6
<1>4. Cardinality(S) \in N
  <2>1. N = Nat
    <3> HIDE DEF N
    <3>1. N \in SUBSET Nat
      BY DEF N
    <3> QED BY <1>2, <1>3, <3>1, Steps
  <2> HIDE DEF N
  <2> QED BY <1>1, <2>1
<1>5. PICK f \in [SUBSET S -> Int] : Upto(f, Cardinality(S))
  BY <1>4
<1>6. \A s \in SUBSET S : Eq(f, s)
  BY <1>5, FS_Subset
<1>7. Sums(f, S)
  BY <1>6 DEF Sums
<1> QED BY <1>7

\* What supers pay together is a number.
LEMMA SumIsInt ==
  ASSUME NEW S, IsFiniteSet(S), \A x \in S : x.percent \in Int
  PROVE  MapThenSumSet(LAMBDA x : x.percent, S) \in Int
<1> DEFINE f == CHOOSE f : Sums(f, S)
           N == {n \in Nat : \A s \in SUBSET S : Cardinality(s) <= n => f[s] \in Int}
<1>1. MapThenSumSet(LAMBDA x : x.percent, S) = f[S]
  BY DEF MapThenSumSet, MapThenFoldSet, Sums, AnyOf
<1>2. Sums(f, S)
  BY SumsExist
<1> HIDE DEF f
<1>3. \A s \in SUBSET S : f[s] = IF s = {} THEN 0 ELSE AnyOf(s).percent + f[s \ {AnyOf(s)}]
  BY <1>2 DEF Sums
<1>4. \A s \in SUBSET S : Cardinality(s) \in Nat /\ (Cardinality(s) = 0 => s = {})
  BY FS_Subset, FS_CardinalityType, FS_EmptySet
<1>9. f[{}] = 0
  BY <1>3
<1>5. 0 \in N
  <2>1. \A s \in SUBSET S : Cardinality(s) <= 0 => s = {}
    BY <1>4
  <2> QED BY <1>9, <2>1
<1>6. ASSUME NEW n \in N PROVE n + 1 \in N
  <2>1. ASSUME NEW s \in SUBSET S, Cardinality(s) <= n + 1 PROVE f[s] \in Int
    <3>1. CASE s = {}
      BY <1>9, <3>1
    <3>2. CASE s # {}
      <4>1. /\ AnyOf(s).percent \in Int /\ s \ {AnyOf(s)} \in SUBSET S
            /\ Cardinality(s \ {AnyOf(s)}) <= n
        BY <1>4, <2>1, <3>2, Smaller
      <4> QED BY <1>3, <3>2, <4>1
    <3> QED BY <3>1, <3>2
  <2> QED BY <2>1
<1>7. N = Nat
  <2>1. N \in SUBSET Nat
    OBVIOUS
  <2> HIDE DEF N
  <2> QED BY <1>5, <1>6, <2>1, Steps
<1>8. f[S] \in Int
  <2>1. Cardinality(S) \in N
    BY <1>4, <1>7
  <2> QED BY <2>1, <1>4
<1> QED BY <1>1, <1>8

(********************************** order **********************************)

\* Keys of one length are in a strict order, and different ones are ordered.
LEMMA BeforeIsOrder ==
  ASSUME NEW n \in Nat
  PROVE  /\ \A a \in [1..n -> Int] : ~ Before(a, a)
         /\ \A a, b, c \in [1..n -> Int] : Before(a, b) /\ Before(b, c) => Before(a, c)
         /\ \A a, b \in [1..n -> Int] : a # b => Before(a, b) \/ Before(b, a)
<1> DEFINE K == [1..n -> Int]
<1>1. \A a \in K : DOMAIN a = 1..n /\ \A i \in 1..n : a[i] \in Int
  OBVIOUS
<1>2. ASSUME NEW a \in K PROVE ~ Before(a, a)
  BY <1>1 DEF Before
<1>3. ASSUME NEW a \in K, NEW b \in K, NEW c \in K, Before(a, b), Before(b, c)
      PROVE  Before(a, c)
  <2>1. PICK i \in 1..n : a[i] < b[i] /\ \A j \in 1..(i - 1) : a[j] = b[j]
    BY <1>1, <1>3 DEF Before
  <2>2. PICK k \in 1..n : b[k] < c[k] /\ \A j \in 1..(k - 1) : b[j] = c[j]
    BY <1>1, <1>3 DEF Before
  <2>3. CASE i <= k
    <3>1. a[i] < c[i]
      <4>1. b[i] <= c[i]
        BY <1>1, <2>2, <2>3
      <4> QED BY <1>1, <2>1, <4>1
    <3>2. \A j \in 1..(i - 1) : a[j] = c[j]
      BY <2>1, <2>2, <2>3
    <3> QED BY <1>1, <3>1, <3>2 DEF Before
  <2>4. CASE k < i
    <3>1. a[k] < c[k]
      BY <2>1, <2>2, <2>4
    <3>2. \A j \in 1..(k - 1) : a[j] = c[j]
      BY <2>1, <2>2, <2>4
    <3> QED BY <1>1, <3>1, <3>2 DEF Before
  <2> QED BY <2>3, <2>4
<1>4. ASSUME NEW a \in K, NEW b \in K, a # b
      PROVE  Before(a, b) \/ Before(b, a)
  <2> DEFINE D == {i \in 1..n : a[i] # b[i]}
  <2>1. D # {}
    BY <1>4
  <2>2. PICK i \in D : \A j \in D : i <= j
    <3>1. D \in SUBSET Nat
      OBVIOUS
    <3> HIDE DEF D
    <3> QED BY <2>1, <3>1, Least
  <2>3. \A j \in 1..(i - 1) : a[j] = b[j]
    BY <2>2
  <2>4. a[i] < b[i] \/ b[i] < a[i]
    BY <1>1
  <2> QED BY <1>1, <2>3, <2>4 DEF Before
<1> QED BY <1>2, <1>3, <1>4

Below(key, S, e) == {f \in S : Before(key[f], key[e])}

\* The elements of S by the number of those before them: each number once.
LEMMA Places ==
  ASSUME NEW S, IsFiniteSet(S), NEW n \in Nat, NEW key \in [S -> [1..n -> Int]],
         \A e, f \in S : key[e] = key[f] => e = f
  PROVE  /\ \A e \in S : Cardinality(Below(key, S, e)) \in 0..(Cardinality(S) - 1)
         /\ \A e, f \in S : Before(key[e], key[f])
              => Cardinality(Below(key, S, e)) < Cardinality(Below(key, S, f))
         /\ \A i \in 1..Cardinality(S) : \E e \in S : Cardinality(Below(key, S, e)) = i - 1
<1> DEFINE at == [e \in S |-> Cardinality(Below(key, S, e))]
           m == Cardinality(S)
<1>1. /\ \A e \in S : ~ Before(key[e], key[e])
      /\ \A e, f, g \in S : Before(key[e], key[f]) /\ Before(key[f], key[g]) => Before(key[e], key[g])
      /\ \A e, f \in S : e # f => Before(key[e], key[f]) \/ Before(key[f], key[e])
  BY BeforeIsOrder
<1>0. m \in Nat
  BY FS_CardinalityType
<1>2. ASSUME NEW e \in S PROVE IsFiniteSet(Below(key, S, e)) /\ Cardinality(Below(key, S, e)) \in 0..(m - 1)
  <2>1. Below(key, S, e) \in SUBSET S /\ e \notin Below(key, S, e)
    BY <1>1 DEF Below
  <2>2. IsFiniteSet(Below(key, S, e)) /\ Cardinality(Below(key, S, e)) <= m /\ Cardinality(Below(key, S, e)) # m
    BY <2>1, FS_Subset
  <2>3. Cardinality(Below(key, S, e)) \in Nat
    BY <2>2, FS_CardinalityType
  <2> QED BY <1>0, <2>2, <2>3
<1>3. ASSUME NEW e \in S, NEW f \in S, Before(key[e], key[f])
      PROVE  Cardinality(Below(key, S, e)) < Cardinality(Below(key, S, f))
  <2>1. Below(key, S, e) \in SUBSET Below(key, S, f) /\ e \in Below(key, S, f) /\ e \notin Below(key, S, e)
    BY <1>1, <1>3 DEF Below
  <2>2. Cardinality(Below(key, S, e)) <= Cardinality(Below(key, S, f)) /\ Cardinality(Below(key, S, e)) # Cardinality(Below(key, S, f))
    BY <1>2, <2>1, FS_Subset
  <2> QED BY <1>0, <1>2, <2>2
<1>4. at \in Injection(S, 0..(m - 1))
  <2>1. at \in [S -> 0..(m - 1)]
    BY <1>2
  <2>2. \A e, f \in S : at[e] = at[f] => e = f
    <3>1. ASSUME NEW e \in S, NEW f \in S, at[e] = at[f], e # f PROVE FALSE
      <4>1. Before(key[e], key[f]) \/ Before(key[f], key[e])
        BY <1>1, <3>1
      <4>2. Cardinality(Below(key, S, e)) < Cardinality(Below(key, S, f)) \/ Cardinality(Below(key, S, f)) < Cardinality(Below(key, S, e))
        BY <1>3, <4>1
      <4>3. Cardinality(Below(key, S, e)) \in Int /\ Cardinality(Below(key, S, f)) \in Int
        BY <1>0, <1>2
      <4> QED BY <3>1, <4>2, <4>3
    <3> QED BY <3>1
  <2> QED BY <2>1, <2>2 DEF Injection, IsInjective
<1>5. at \in Surjection(S, 0..(m - 1))
  <2>1. IsFiniteSet(0..(m - 1)) /\ Cardinality(0..(m - 1)) = m
    BY <1>0, FS_Interval
  <2> HIDE DEF at, m
  <2> QED BY <1>4, <2>1, FS_Injection DEF m
<1>6. \A i \in 1..m : \E e \in S : Cardinality(Below(key, S, e)) = i - 1
  <2>1. \A i \in 1..m : i - 1 \in 0..(m - 1)
    BY <1>0
  <2>2. \A k \in 0..(m - 1) : \E e \in S : at[e] = k
    BY <1>5 DEF Surjection
  <2> HIDE DEF m
  <2> QED BY <2>1, <2>2
<1> QED BY <1>2, <1>3, <1>6

\* o lists S, each element once
Lists(o, S) ==
  /\ Cardinality(S) \in Nat /\ DOMAIN o = 1..Cardinality(S)
  /\ \A i \in DOMAIN o : o[i] \in S
  /\ \A e \in S : \E i \in DOMAIN o : o[i] = e
  /\ \A i, j \in DOMAIN o : o[i] = o[j] => i = j

LEMMA PlacedByKey ==
  ASSUME NEW S, IsFiniteSet(S), NEW n \in Nat, NEW key \in [S -> [1..n -> Int]],
         \A e, f \in S : key[e] = key[f] => e = f,
         NEW o, DOMAIN o = 1..Cardinality(S),
         \A i \in 1..Cardinality(S) :
           o[i] \in S /\ Cardinality(Below(key, S, o[i])) = i - 1
  PROVE  /\ Lists(o, S)
         /\ \A i, j \in DOMAIN o : i < j => Before(key[o[i]], key[o[j]])
<1> DEFINE m == Cardinality(S)
<1>1. /\ \A e \in S : Cardinality(Below(key, S, e)) \in 0..(m - 1)
      /\ \A e, f \in S : Before(key[e], key[f]) => Cardinality(Below(key, S, e)) < Cardinality(Below(key, S, f))
  BY Places
<1>2. /\ \A e \in S : ~ Before(key[e], key[e])
      /\ \A e, f \in S : e # f => Before(key[e], key[f]) \/ Before(key[f], key[e])
  BY BeforeIsOrder
<1>3. m \in Nat
  BY FS_CardinalityType
<1>4. \A i \in 1..m : o[i] \in S /\ Cardinality(Below(key, S, o[i])) = i - 1
  OBVIOUS
<1> HIDE DEF m
<1>5. ASSUME NEW i \in 1..m, NEW e \in S, Cardinality(Below(key, S, e)) = i - 1 PROVE o[i] = e
  <2>1. Cardinality(Below(key, S, o[i])) = Cardinality(Below(key, S, e)) /\ o[i] \in S
    BY <1>4, <1>5
  <2>2. Cardinality(Below(key, S, e)) \in Int
    BY <1>1, <1>3
  <2>3. ~ Before(key[e], key[o[i]]) /\ ~ Before(key[o[i]], key[e])
    BY <1>1, <2>1, <2>2
  <2> QED BY <1>2, <2>1, <2>3
<1>6. \A e \in S : \E i \in 1..m : o[i] = e
  <2> SUFFICES ASSUME NEW e \in S PROVE \E i \in 1..m : o[i] = e
    OBVIOUS
  <2>1. Cardinality(Below(key, S, e)) + 1 \in 1..m /\ (Cardinality(Below(key, S, e)) + 1) - 1 = Cardinality(Below(key, S, e))
    BY <1>1, <1>3
  <2> QED BY <1>5, <2>1
<1>7. \A i, j \in 1..m : o[i] = o[j] => i = j
  BY <1>3, <1>4
<1>8. ASSUME NEW i \in 1..m, NEW j \in 1..m, i < j PROVE Before(key[o[i]], key[o[j]])
  <2>1. o[i] \in S /\ o[j] \in S /\ Cardinality(Below(key, S, o[i])) = i - 1 /\ Cardinality(Below(key, S, o[j])) = j - 1
    BY <1>4
  <2>2. ~ (j - 1 < i - 1) /\ i # j
    BY <1>3, <1>8
  <2> QED BY <1>1, <1>2, <1>7, <2>1, <2>2
<1> QED BY <1>3, <1>4, <1>6, <1>7, <1>8 DEF Lists, m

(********************************* entries *********************************)

Told(S) ==
  /\ IsFiniteSet(S) /\ S \subseteq Entry
  /\ \A e, f \in S : e.id = f.id => e = f

\* What entries are ordered by are numbers.
LEMMA KeysAreNumbers ==
  ASSUME NEW e \in Entry
  PROVE  /\ CurrencyOrder(e.currency) \in Int /\ DescPercent(e.percent) \in Int
         /\ VerdictOrder(e.verdict) \in Int
         /\ e.bank \in Int /\ e.label \in Int /\ e.id \in Int
BY RankingAssumption DEF Entry, CurrencyOrder, DescPercent, VerdictOrder

\* A ranking of told entries lists each of them once, in the order of the keys.
LEMMA Ranked ==
  ASSUME NEW S, Told(S)
  PROVE  LET o == Ordered(S, RankKey) IN
         /\ Lists(o, S)
         /\ \A i, j \in DOMAIN o : i < j => Before(RankKey(o[i]), RankKey(o[j]))
<1> DEFINE key == [e \in S |-> RankKey(e)]
           o == Ordered(S, RankKey)
<1>1. \A e \in S : RankKey(e) \in [1..6 -> Int] /\ RankKey(e)[6] = e.id
  BY KeysAreNumbers DEF Told, RankKey
<1>2. /\ key \in [S -> [1..6 -> Int]] /\ \A e, f \in S : key[e] = key[f] => e = f
      /\ \A e \in S : key[e] = RankKey(e)
  <2>1. \A e \in S : key[e] = RankKey(e)
    OBVIOUS
  <2> HIDE DEF key
  <2>2. \A e, f \in S : RankKey(e) = RankKey(f) => e = f
    BY <1>1 DEF Told
  <2>3. key \in [S -> [1..6 -> Int]]
    BY <1>1 DEF key
  <2> QED BY <2>1, <2>2, <2>3
<1> HIDE DEF key
<1>3. IsFiniteSet(S) /\ 6 \in Nat
  BY DEF Told
<1>4. \A e \in S : Below(key, S, e) = {f \in S : Before(RankKey(f), RankKey(e))}
  BY <1>2 DEF Below
<1>5. \A i \in 1..Cardinality(S) :
        \E e \in S : Cardinality({f \in S : Before(RankKey(f), RankKey(e))}) = i - 1
  <2>1. \A i \in 1..Cardinality(S) : \E e \in S : Cardinality(Below(key, S, e)) = i - 1
    BY <1>2, <1>3, Places
  <2> QED BY <1>4, <2>1
<1>6. DOMAIN o = 1..Cardinality(S)
  BY DEF Ordered
<1>7. \A i \in 1..Cardinality(S) :
        o[i] \in S /\ Cardinality({f \in S : Before(RankKey(f), RankKey(o[i]))}) = i - 1
  BY <1>5 DEF Ordered
<1> HIDE DEF o
<1>8. \A i \in 1..Cardinality(S) :
        o[i] \in S /\ Cardinality(Below(key, S, o[i])) = i - 1
  BY <1>4, <1>7
<1>9. /\ Lists(o, S)
      /\ \A i, j \in DOMAIN o : i < j => Before(key[o[i]], key[o[j]])
  BY <1>2, <1>3, <1>6, <1>8, PlacedByKey
<1>10. Lists(o, S) /\ \A i, j \in DOMAIN o : i < j => Before(RankKey(o[i]), RankKey(o[j]))
  BY <1>2, <1>9 DEF Lists
<1> QED BY <1>10 DEF o

(********************************** tables *********************************)

TablesOK ==
  /\ picked \subseteq menu
  /\ friends \subseteq Others
  /\ shares \subseteq Shareable /\ given = shares
  /\ today \in Days

LEMMA TablesInit == ASSUME Init PROVE TablesOK
<1>1. \E d \in Days : \A e \in Days : d <= e
  BY DaysAssumption, Least
<1>2. Min(Days) \in Days
  BY <1>1 DEF Min
<1> QED BY <1>2 DEF Init, TablesOK

LEMMA TablesStep == ASSUME TablesOK, [Next]_vars PROVE TablesOK'
<1>1. CASE UNCHANGED vars
  BY <1>1 DEF vars, tables, TablesOK
<1>2. CASE Request
  <2>1. UNCHANGED tables
    BY <1>2 DEF Request, Ask, AskOverview, AskLookup, AskBoard, AskFriends, AskHelper, ReadOwn,
       ReadPeriod, ReadPartners, ReadFriends, ReadShares, ReadRows, Close
  <2> QED BY <2>1 DEF tables, TablesOK
<1>3. CASE \E o \in Offers : EnterRow(o) \/ DeleteRow(o) \/ Pick(o) \/ Unpick(o)
  BY <1>3 DEF EnterRow, DeleteRow, Pick, Unpick, TablesOK
<1>4. CASE \E p \in PartnerOffers : EndOrReopen(p)
  BY <1>4 DEF EndOrReopen, TablesOK
<1>5. CASE \E s \in Shareable : Grant(s) \/ Revoke(s)
  BY <1>5 DEF Grant, Revoke, TablesOK
<1>6. CASE \E u \in Others : Befriend(u) \/ Unfriend(u)
  BY <1>6 DEF Befriend, Unfriend, Cascade, TablesOK
<1>7. CASE Midnight
  BY <1>7 DEF Midnight, TablesOK
<1> QED BY <1>1, <1>2, <1>3, <1>4, <1>5, <1>6, <1>7 DEF Next, Write

(****************************** rows and slots *****************************)

\* a row as it is read is the offer, with its selection
LEMMA RowIs ==
  ASSUME NEW o \in Offers
  PROVE  /\ Row(o) \in MenuRow /\ Row(o).id = o.id /\ Row(o).user = o.user
         /\ Row(o).client = o.client /\ Row(o).period = o.period /\ Row(o).kind = o.kind
         /\ Row(o).from = o.from /\ Row(o).to = o.to /\ Row(o).policy = o.policy
         /\ Row(o).override = o.override /\ Row(o).limit = o.limit
         /\ Row(o).bank = o.bank /\ Row(o).label = o.label /\ Row(o).title = o.title
         /\ Row(o).cat = o.cat /\ Row(o).percent = o.percent /\ Row(o).currency = o.currency
         /\ Row(o).cap = o.cap /\ Row(o).catalog = o.catalog
         /\ Row(o).selected = (o.id \in picked)
<1> DEFINE b == o.id \in picked
           r == [o EXCEPT !.selected = b]
<1>1. o \in MenuRow /\ b \in BOOLEAN
  BY OffersAssumption
<1> HIDE DEF b
<1>2. r \in MenuRow /\ r.selected = b
  BY <1>1 DEF MenuRow
<1>3. /\ r.id = o.id /\ r.user = o.user /\ r.client = o.client /\ r.period = o.period
      /\ r.kind = o.kind /\ r.from = o.from /\ r.to = o.to /\ r.policy = o.policy
      /\ r.override = o.override /\ r.limit = o.limit
      /\ r.bank = o.bank /\ r.label = o.label /\ r.title = o.title /\ r.cat = o.cat
      /\ r.percent = o.percent /\ r.currency = o.currency /\ r.cap = o.cap /\ r.catalog = o.catalog
  BY <1>1 DEF MenuRow
<1> QED BY <1>2, <1>3 DEF Row, b

Taken(period) ==
  {x \in Offers : x.period = period /\ x.id \in picked /\ x.kind = "regular"}

\* Rows read of a period hold all its picks: then they count what the query counts.
LEMMA CountsTheSame ==
  ASSUME NEW A \in SUBSET Offers, NEW period, Taken(period) \subseteq A
  PROVE  RegularCount({Row(o) : o \in A}, period) = Cardinality(Taken(period))
<1> DEFINE T == Taken(period)
           R == {r \in {Row(o) : o \in A} : r.period = period /\ r.selected /\ r.kind = "regular"}
           f == [o \in T |-> Row(o)]
<1>1. IsFiniteSet(T)
  BY OffersAssumption, FS_Subset DEF Taken
<1>2. R = {Row(o) : o \in T}
  <2>1. \A o \in A : Row(o) \in R <=> o \in T
    BY RowIs DEF Taken
  <2> QED BY <2>1
<1>3. f \in Bijection(T, R)
  <2>1. \A o, p \in T : Row(o) = Row(p) => o = p
    <3>1. \A o, p \in Offers : Row(o) = Row(p) => o.id = p.id
      BY RowIs
    <3> QED BY <3>1, OffersAssumption DEF Taken
  <2> HIDE DEF T, R
  <2>2. f \in [T -> R] /\ (\A x \in R : \E o \in T : f[o] = x) /\ \A o, p \in T : f[o] = f[p] => o = p
    BY <1>2, <2>1
  <2> QED BY <2>2 DEF Bijection, Injection, Surjection, IsInjective
<1>4. Cardinality(R) = Cardinality(T)
  <2> HIDE DEF f, T, R
  <2>1. ExistsBijection(T, R)
    BY <1>3 DEF ExistsBijection
  <2> QED BY <1>1, <2>1, FS_Bijection
<1> QED BY <1>4 DEF RegularCount

OwnRows == {x \in Offers : x.id \in menu /\ x.user = Viewer}

RowsOf(clients) == {x \in Offers : x.id \in menu /\ x.client \in clients}

\* The viewer's slots, counted from the rows of all periods.
LEMMA OwnCounts ==
  ASSUME TablesOK, NEW o \in OwnRows
  PROVE  RegularCount(ListUserOffers, o.period) = Cardinality(Taken(o.period))
<1>1. Taken(o.period) \subseteq OwnRows
  BY OffersAssumption DEF Taken, OwnRows, TablesOK
<1>2. OwnRows \in SUBSET Offers /\ ListUserOffers = {Row(x) : x \in OwnRows}
  BY DEF OwnRows, ListUserOffers
<1> QED BY <1>1, <1>2, CountsTheSame

\* A friend's slots, counted from the rows of some clients.
LEMMA FriendCounts ==
  ASSUME TablesOK, NEW clients, NEW o \in RowsOf(clients)
  PROVE  RegularCount(ListOffersForClients(clients), o.period) = Cardinality(Taken(o.period))
<1>1. Taken(o.period) \subseteq RowsOf(clients)
  BY OffersAssumption DEF Taken, RowsOf, TablesOK
<1>2. RowsOf(clients) \in SUBSET Offers /\ ListOffersForClients(clients) = {Row(x) : x \in RowsOf(clients)}
  BY DEF RowsOf, ListOffersForClients
<1> QED BY <1>1, <1>2, CountsTheSame

\* What the rules of the screen say of a row, and what the check of a pick says.
LEMMA VerdictIsCheck ==
  ASSUME NEW o \in Offers, NEW rows, RegularCount(rows, o.period) = Cardinality(Taken(o.period)),
         o.id \notin picked, o.kind # "special", NEW day, Covers(o, day)
  PROVE  /\ Pickable(VerdictOf(Row(o), rows)) => CanSelect(o, day)
         /\ VerdictOf(Row(o), rows) = "slots_full" => ~ CanSelect(o, day)
<1> DEFINE limit == IF o.override # None THEN o.override ELSE o.limit
           full  == limit # None /\ Cardinality(Taken(o.period)) >= limit
<1>1. o.kind \in {"regular", "super"}
  BY OffersAssumption DEF MenuRow
<1>2. CanSelect(o, day) <=> ~ (o.kind = "regular" /\ full)
  BY DEF CanSelect, Taken
<1>3. VerdictOf(Row(o), rows) = AssessAvailability(o.kind, o.policy, Cardinality(Taken(o.period)), limit)
  BY RowIs DEF VerdictOf
<1>4. VerdictOf(Row(o), rows) = "slots_full" <=> o.kind # "super" /\ full
  BY <1>3 DEF AssessAvailability
<1> QED BY <1>1, <1>2, <1>4 DEF Pickable

\* What a screen offers can be selected, and what it calls full cannot: the slots
\* VerdictOf counts from the rows of the statement are those that
\* CountRegularSelectionsInPeriod counts, because a period's rows are read together.
THEOREM OfferedCanBePicked == Spec => []VerdictHolds
<1> DEFINE n == Glance(today)
           offer(e) == CHOOSE o \in Offers : o.id = e.id
<1>0. \A e, o : o \in Offers /\ o.id = e.id => offer(e) = o
  BY OffersAssumption
<1>1. n.own = ListUserOffers /\ n.day = today /\ n.seen = <<Picture>>
  BY DEF Glance, Idle
<1> HIDE DEF n, offer
<1>2. ASSUME TablesOK, NEW r \in Offered(n.own, today)
      PROVE  \E o \in OwnRows : /\ r = Row(o) /\ o.id = r.id /\ o.id \notin picked /\ o.kind # "special" /\ Covers(o, today)
                                /\ RegularCount(n.own, o.period) = Cardinality(Taken(o.period))
  <2>1. PICK o \in OwnRows : r = Row(o)
    BY <1>1, <1>2 DEF Offered, ListUserOffers, OwnRows
  <2>2. o \in Offers
    BY DEF OwnRows
  <2>3. o.id = r.id /\ o.id \notin picked /\ o.kind # "special" /\ Covers(o, today)
    BY <1>2, <2>1, <2>2, RowIs DEF Offered, Covers
  <2>4. RegularCount(n.own, o.period) = Cardinality(Taken(o.period))
    BY <1>1, <1>2, OwnCounts
  <2> QED BY <2>1, <2>3, <2>4
<1>3. ASSUME TablesOK, NEW e \in CanPick(n)
      PROVE  CanSelect(offer(e), today)
  <2>1. PICK r \in Offered(n.own, today) : e = AvailableOf(r, n.own) /\ Pickable(VerdictOf(r, n.own))
    BY <1>1 DEF CanPick
  <2>2. e.id = r.id
    BY <2>1 DEF AvailableOf, EntryOf
  <2>3. PICK o \in OwnRows : /\ r = Row(o) /\ o.id = r.id /\ o.id \notin picked /\ o.kind # "special" /\ Covers(o, today)
                             /\ RegularCount(n.own, o.period) = Cardinality(Taken(o.period))
    BY <1>2, <1>3
  <2>4. o \in Offers
    BY DEF OwnRows
  <2>5. CanSelect(o, today)
    BY <2>1, <2>3, <2>4, VerdictIsCheck
  <2> QED BY <1>0, <2>2, <2>3, <2>4, <2>5
<1>4. ASSUME TablesOK, NEW e \in FriendPickable(Picture, n)
      PROVE  CanSelect(offer(e), today)
  <2> DEFINE C == {s.client : s \in Picture.grants}
  <2>1. Picture.rows = ListOffersForClients(C)
    BY DEF Picture
  <2>2. PICK r \in Offered(Picture.rows, today) :
               /\ e = [FriendEntryOf(r, Picture) EXCEPT !.verdict = VerdictOf(r, Picture.rows)]
               /\ Pickable(VerdictOf(r, Picture.rows))
    BY <1>1 DEF FriendPickable
  <2> HIDE DEF C
  <2>3. e.id = r.id
    BY <2>2 DEF FriendEntryOf, EntryOf
  <2>4. PICK o \in RowsOf(C) : r = Row(o)
    BY <2>1 DEF Offered, ListOffersForClients, RowsOf
  <2>5. o \in Offers
    BY DEF RowsOf
  <2>6. o.id = r.id /\ o.id \notin picked /\ o.kind # "special" /\ Covers(o, today)
    BY <2>4, <2>5, RowIs DEF Offered, Covers
  <2>7. RegularCount(Picture.rows, o.period) = Cardinality(Taken(o.period))
    BY <1>4, <2>1, FriendCounts
  <2>8. CanSelect(o, today)
    BY <2>2, <2>4, <2>5, <2>6, <2>7, VerdictIsCheck
  <2> QED BY <1>0, <2>3, <2>5, <2>6, <2>8
<1>5. ASSUME TablesOK, NEW r \in Offered(n.own, today), VerdictOf(r, n.own) = "slots_full"
      PROVE  ~ CanSelect(offer(r), today)
  <2>1. PICK o \in OwnRows : /\ r = Row(o) /\ o.id = r.id /\ o.id \notin picked /\ o.kind # "special" /\ Covers(o, today)
                             /\ RegularCount(n.own, o.period) = Cardinality(Taken(o.period))
    BY <1>2, <1>5
  <2>2. o \in Offers
    BY DEF OwnRows
  <2>3. ~ CanSelect(o, today)
    BY <1>5, <2>1, <2>2, VerdictIsCheck
  <2> QED BY <1>0, <2>1, <2>2, <2>3
<1>6. TablesOK => VerdictHolds
  BY <1>3, <1>4, <1>5 DEF VerdictHolds, n, offer
<1> QED BY <1>6, TablesInit, TablesStep, PTL DEF Spec

\* The entry screen, the cut by client and CreateSelection count the slots of a period
\* to one number, though each reads other rows.
THEOREM SlotsAlwaysAgree == Spec => []SlotsAgree
<1>1. ASSUME TablesOK, NEW c \in Clients, NEW p \in Periods, p.client = c.id, Covers(p, today)
      PROVE  LET n == [Glance(today) EXCEPT !.menu = ListOffersForPeriod(p.id)]
             IN  /\ HelperContext(n).slotsUsed = Cardinality(ClientCut(n, c).selected)
                 /\ HelperContext(n).slotsUsed = RegularCount(n.own, p.id)
  <2> DEFINE n == [Glance(today) EXCEPT !.menu = ListOffersForPeriod(p.id)]
             T == Taken(p.id)
             M == {x \in Offers : x.id \in menu /\ x.period = p.id}
             ids == ClientCut(n, c).selected
  <2>1. n.own = ListUserOffers /\ n.day = today /\ n.menu = ListOffersForPeriod(p.id)
    BY DEF Glance, Idle
  <2>2. T \subseteq M /\ T \subseteq OwnRows
    BY <1>1, PeriodsAssumption DEF Taken, TablesOK, OwnRows
  <2>3. RegularCount(n.own, p.id) = Cardinality(T)
    <3>1. OwnRows \in SUBSET Offers /\ n.own = {Row(x) : x \in OwnRows}
      BY <2>1 DEF OwnRows, ListUserOffers
    <3> HIDE DEF n
    <3> QED BY <2>2, <3>1, CountsTheSame
  <2>4. HelperContext(n).slotsUsed = Cardinality(T)
    <3>1. n.menu = {Row(x) : x \in M}
      BY <2>1 DEF ListOffersForPeriod
    <3>2. M \in SUBSET Offers /\ T \subseteq M
      BY <2>2
    <3> HIDE DEF n
    <3>3. RegularCount(n.menu, p.id) = Cardinality(T)
      <4> HIDE DEF M
      <4> QED BY <3>1, <3>2, CountsTheSame
    <3>4. \A r \in n.menu : r.period = p.id
      BY <3>1, RowIs
    <3>5. {r \in n.menu : r.kind = "regular" /\ r.selected}
            = {r \in n.menu : r.period = p.id /\ r.selected /\ r.kind = "regular"}
      BY <3>4
    <3>6. HelperContext(n).slotsUsed = Cardinality({r \in n.menu : r.kind = "regular" /\ r.selected})
      BY DEF HelperContext
    <3> QED BY <3>3, <3>5, <3>6 DEF RegularCount
  <2>5. ids = {o.id : o \in T}
    <3> DEFINE active == {r \in n.own : r.client = c.id /\ Covers(r, n.day) /\ r.selected}
    <3>1. ids = {r.id : r \in {s \in active : s.kind = "regular"}}
      BY DEF ClientCut
    <3>2. n.own = {Row(x) : x \in OwnRows} /\ OwnRows \subseteq Offers
      BY <2>1 DEF OwnRows, ListUserOffers
    <3>3. \A o \in OwnRows : Row(o) \in {s \in active : s.kind = "regular"} <=> o \in T
      <4> SUFFICES ASSUME NEW o \in OwnRows
                   PROVE  Row(o) \in {s \in active : s.kind = "regular"} <=> o \in T
        OBVIOUS
      <4>1. o \in Offers /\ o.user = Viewer /\ Row(o) \in n.own
        BY <3>2 DEF OwnRows
      <4>2. Row(o) \in {s \in active : s.kind = "regular"}
              <=> /\ o.client = c.id /\ o.from <= today /\ today <= o.to
                  /\ o.id \in picked /\ o.kind = "regular"
        <5> HIDE DEF n
        <5> QED BY <2>1, <4>1, RowIs DEF Covers
      <4>3. PICK q \in Periods : q.id = o.period
        BY <4>1, PeriodsAssumption
      <4>4. q.client = o.client /\ q.from = o.from /\ q.to = o.to
        BY <4>1, <4>3, PeriodsAssumption
      <4>5. o.client = c.id /\ o.from <= today /\ today <= o.to => o.period = p.id
        <5>1. q \in [id : Nat, client : Nat, from : Nat, to : Nat] /\ p \in [id : Nat, client : Nat, from : Nat, to : Nat]
          BY PeriodsAssumption
        <5>2. today \in Nat
          BY <1>1, DaysAssumption DEF TablesOK
        <5>3. o.client = c.id /\ o.from <= today /\ today <= o.to => Overlaps(p, q)
          BY <1>1, <4>4, <5>1, <5>2 DEF Overlaps, Covers
        <5> QED BY <1>1, <4>3, <4>4, <5>3, PeriodsAssumption
      <4>6. o.period = p.id => o.client = c.id /\ o.from <= today /\ today <= o.to
        BY <1>1, <4>1, PeriodsAssumption DEF Covers
      <4> HIDE DEF active, n
      <4> QED BY <4>1, <4>2, <4>5, <4>6 DEF Taken
    <3>4. \A o \in OwnRows : Row(o).id = o.id
      BY <3>2, RowIs
    <3> DEFINE on == {s \in active : s.kind = "regular"}
    <3>5. \A r \in on : \E o \in OwnRows : r = Row(o)
      BY <3>2
    <3> HIDE DEF active, on, n, ids
    <3>6. \A r \in on : \E o \in T : r.id = o.id
      BY <3>3, <3>4, <3>5 DEF on
    <3>7. \A o \in T : Row(o) \in on /\ Row(o).id = o.id
      BY <2>2, <3>3, <3>4 DEF on
    <3>8. ids = {r.id : r \in on}
      BY <3>1 DEF on
    <3> HIDE DEF T
    <3> QED BY <3>6, <3>7, <3>8
  <2>6. Cardinality(ids) = Cardinality(T)
    <3> DEFINE f == [o \in T |-> o.id]
    <3>1. \A o, q \in T : o.id = q.id => o = q
      BY OffersAssumption DEF Taken
    <3>2. IsFiniteSet(T)
      BY OffersAssumption, FS_Subset DEF Taken
    <3> HIDE DEF T, ids, n
    <3>3. f \in [T -> ids] /\ (\A x \in ids : \E o \in T : f[o] = x) /\ \A o, q \in T : f[o] = f[q] => o = q
      BY <2>5, <3>1
    <3>4. f \in Bijection(T, ids)
      BY <3>3 DEF Bijection, Injection, Surjection, IsInjective
    <3>5. ExistsBijection(T, ids)
      BY <3>4 DEF ExistsBijection
    <3> QED BY <3>2, <3>5, FS_Bijection
  <2> HIDE DEF T, n, ids
  <2>7. HelperContext(n).slotsUsed = Cardinality(ids) /\ HelperContext(n).slotsUsed = RegularCount(n.own, p.id)
    BY <2>3, <2>4, <2>6
  <2> QED BY <2>7 DEF n, ids
<1>2. TablesOK => SlotsAgree
  BY <1>1 DEF SlotsAgree
<1> QED BY <1>2, TablesInit, TablesStep, PTL DEF Spec

\* the best pick of a client carries its supers
OnTop(S, e) ==
  IF IsPick(S, e) /\ Paying(S, "super", e.client) # {}
  THEN Stacked(e, Paying(S, "super", e.client))
  ELSE e

Kept(S) ==
  {f \in S : ~ (/\ f \in Paying(S, "super", f.client)
                /\ Paying(S, "regular", f.client) # {})}

\* but for its percent, the row it was
SameRow(d, e) ==
  /\ d.id = e.id /\ d.client = e.client /\ d.bank = e.bank /\ d.label = e.label
  /\ d.title = e.title /\ d.cat = e.cat /\ d.currency = e.currency /\ d.kind = e.kind
  /\ d.from = e.from /\ d.to = e.to /\ d.cap = e.cap /\ d.friend = e.friend
  /\ d.verdict = e.verdict

\* Supers on top of a pick change what it pays, not whose row it is.
LEMMA OnTopIsEntry ==
  ASSUME NEW S, Told(S), NEW e \in S
  PROVE  OnTop(S, e) \in Entry /\ SameRow(OnTop(S, e), e)
<1>0. e \in Entry
  BY DEF Told
<1>1. CASE ~ (IsPick(S, e) /\ Paying(S, "super", e.client) # {})
  BY <1>0, <1>1 DEF OnTop, SameRow
<1>2. CASE IsPick(S, e) /\ Paying(S, "super", e.client) # {}
  <2> DEFINE P == Paying(S, "super", e.client)
             bonus == MapThenSumSet(LAMBDA f : f.percent, P)
             d == [e EXCEPT !.percent = e.percent + bonus, !.regular = e.percent, !.super = bonus]
  <2>1. P \subseteq S /\ \A x \in P : x.percent # None
    BY DEF Paying
  <2>2. \A x \in S : x.percent # None => x.percent \in Int
    BY DEF Told, Entry
  <2>3. IsFiniteSet(P) /\ \A x \in P : x.percent \in Int
    BY <2>1, <2>2, FS_Subset DEF Told
  <2>4. bonus \in Int
    <3> HIDE DEF P
    <3> QED BY <2>3, SumIsInt
  <2>5. e.percent \in Int
    BY <1>2, <2>2 DEF IsPick, Paying
  <2>6. OnTop(S, e) = d
    BY <1>2 DEF OnTop, Stacked
  <2> HIDE DEF bonus
  <2>7. d \in Entry
    <3>1. e.percent + bonus \in Int
      BY <2>4, <2>5
    <3> QED BY <1>0, <2>4, <2>5, <3>1 DEF Entry
  <2>8. SameRow(d, e)
    BY <1>0 DEF Entry, SameRow
  <2> QED BY <2>6, <2>7, <2>8
<1> QED BY <1>1, <1>2

LEMMA ImageIsFinite ==
  ASSUME NEW S, IsFiniteSet(S), NEW f, DOMAIN f = S
  PROVE  IsFiniteSet({f[x] : x \in S})
<1> DEFINE T == {f[x] : x \in S}
           g == [x \in S |-> f[x]]
<1>1. g \in Surjection(S, T)
  BY DEF Surjection
<1> HIDE DEF T, g
<1>2. IsFiniteSet(T)
  BY <1>1, FS_Surjection
<1> QED BY <1>2 DEF T

\* Stacking keeps entries apart.
LEMMA StackedIsTold ==
  ASSUME NEW S, Told(S)
  PROVE  /\ Told(StackSupers(S))
         /\ \A d \in StackSupers(S) : \E e \in Kept(S) : d = OnTop(S, e)
         /\ \A e \in Kept(S) : OnTop(S, e) \in StackSupers(S)
<1>1. StackSupers(S) = {OnTop(S, e) : e \in Kept(S)}
  BY DEF StackSupers, OnTop, Kept
<1>2. Kept(S) \subseteq S
  BY DEF Kept
<1>3. IsFiniteSet(StackSupers(S))
  <2> DEFINE f == [e \in Kept(S) |-> OnTop(S, e)]
  <2>1. StackSupers(S) = {f[e] : e \in Kept(S)}
    BY <1>1
  <2>2. IsFiniteSet(Kept(S)) /\ DOMAIN f = Kept(S)
    BY <1>2, FS_Subset DEF Told
  <2> HIDE DEF f
  <2> QED BY <2>1, <2>2, ImageIsFinite
<1>4. StackSupers(S) \subseteq Entry
  BY <1>1, <1>2, OnTopIsEntry
<1>5. \A d, e \in StackSupers(S) : d.id = e.id => d = e
  <2> SUFFICES ASSUME NEW d \in StackSupers(S), NEW e \in StackSupers(S), d.id = e.id
               PROVE  d = e
    OBVIOUS
  <2>1. PICK x \in Kept(S) : d = OnTop(S, x)
    BY <1>1
  <2>2. PICK y \in Kept(S) : e = OnTop(S, y)
    BY <1>1
  <2>3. x.id = d.id /\ y.id = e.id
    BY <1>2, <2>1, <2>2, OnTopIsEntry DEF SameRow
  <2>4. x = y
    BY <1>2, <2>3 DEF Told
  <2> QED BY <2>1, <2>2, <2>4
<1> QED BY <1>1, <1>3, <1>4, <1>5 DEF Told

\* The ranking of what is selected lists each card of the day once, in order.
LEMMA RankedSelections ==
  ASSUME NEW S, Told(S), NEW day
  PROVE  LET A == {e \in S : Covers(e, day)}
             o == RankActiveSelections(day, S)
         IN  /\ Told(A) /\ Told(StackSupers(A)) /\ Lists(o, StackSupers(A))
             /\ \A i, j \in DOMAIN o : i < j => Before(RankKey(o[i]), RankKey(o[j]))
<1> DEFINE A == {e \in S : Covers(e, day)}
           T == StackSupers(A)
<1>1. Told(A)
  BY FS_Subset DEF Told
<1> HIDE DEF A
<1>2. Told(T)
  BY <1>1, StackedIsTold
<1>3. RankActiveSelections(day, S) = Ordered(T, RankKey)
  BY DEF RankActiveSelections, A
<1> HIDE DEF T
<1>4. /\ Lists(Ordered(T, RankKey), T)
      /\ \A i, j \in DOMAIN Ordered(T, RankKey) :
           i < j => Before(RankKey(Ordered(T, RankKey)[i]), RankKey(Ordered(T, RankKey)[j]))
  BY <1>2, Ranked
<1> QED BY <1>1, <1>2, <1>3, <1>4 DEF A, T

(******************************* what was read *****************************)

\* a row of o, whenever it was read
RowOf(r, o) ==
  /\ r.id = o.id /\ r.user = o.user /\ r.client = o.client /\ r.period = o.period
  /\ r.bank = o.bank /\ r.from = o.from /\ r.to = o.to

\* rows that one statement answers
Table(R) ==
  /\ IsFiniteSet(R) /\ R \subseteq MenuRow
  /\ \A r \in R : \E o \in Offers : RowOf(r, o)
  /\ \A r, s \in R : r.id = s.id => r = s

SharedOK(shared) ==
  /\ shared.grants \subseteq Shareable
  /\ Table(shared.rows)
  /\ \A r \in shared.rows : \E s \in shared.grants : s.client = r.client

NoteOK(n) ==
  /\ Table(n.own)
  /\ \A r \in n.own : r.user = Viewer
  /\ n.seen # <<>> /\ SharedOK(n.seen[1]) /\ SharedOK(n.seen[Len(n.seen)])

\* of the row r, with or without its cap
EntryFrom(e, r) ==
  /\ e \in Entry
  /\ e.id = r.id /\ e.client = r.client /\ e.bank = r.bank /\ e.cat = r.cat
  /\ e.from = r.from /\ e.to = r.to

LEMMA OwnEntry ==
  ASSUME NEW r \in MenuRow
  PROVE  EntryFrom(EntryOf(r), r) /\ EntryOf(r).friend = None
<1>1. EntryOf(r) \in Entry
  BY DEF EntryOf, Entry, MenuRow
<1> QED BY <1>1 DEF EntryFrom, EntryOf

\* A friend's entry names the friend who granted the client, and hides the cap.
LEMMA FriendEntry ==
  ASSUME NEW shared, SharedOK(shared), NEW r \in shared.rows
  PROVE  LET e == FriendEntryOf(r, shared) IN
         /\ EntryFrom(e, r) /\ e.friend \in Others /\ e.friend = r.user /\ e.cap = None
         /\ [client |-> e.client, friend |-> e.friend] \in shared.grants
         /\ e.friend # None
<1> DEFINE g == CHOOSE g \in shared.grants : g.client = r.client
           b == EntryOf(r)
           e == [b EXCEPT !.cap = None, !.friend = g.friend]
<1>1. g \in shared.grants /\ g.client = r.client
  BY DEF SharedOK
<1>2. FriendEntryOf(r, shared) = e
  BY DEF FriendEntryOf
<1> HIDE DEF g
<1>3. g \in [client : Nat, friend : Others]
  BY <1>1, GrantsAssumption DEF SharedOK
<1>4. r \in MenuRow
  BY DEF SharedOK, Table
<1>5. EntryFrom(b, r)
  BY <1>4, OwnEntry
<1> HIDE DEF b
<1>6. e \in Entry
  BY <1>3, <1>5 DEF EntryFrom, Entry
<1>7. e.id = r.id /\ e.client = r.client /\ e.bank = r.bank /\ e.cat = r.cat
      /\ e.from = r.from /\ e.to = r.to /\ e.friend = g.friend /\ e.cap = None
  BY <1>5 DEF EntryFrom, Entry
<1>8. g = [client |-> e.client, friend |-> e.friend]
  BY <1>1, <1>3, <1>7
<1>9. g.friend = r.user
  <2>1. PICK o \in Offers : RowOf(r, o)
    BY DEF SharedOK, Table
  <2>2. g \in Shareable
    BY <1>1 DEF SharedOK
  <2> QED BY <1>1, <2>1, <2>2, GrantsAssumption DEF RowOf
<1>10. g.friend # None /\ g.friend \in Others
  BY <1>3, GrantsAssumption
<1> HIDE DEF e
<1> QED BY <1>1, <1>2, <1>6, <1>7, <1>8, <1>9, <1>10 DEF EntryFrom

\* one row, one entry
EntriesOf(own, shared) ==
  {EntryOf(r) : r \in own} \cup {FriendEntryOf(r, shared) : r \in shared.rows}

\* The viewer's rows and the friends' make entries that their ids tell apart.
LEMMA EntriesAreTold ==
  ASSUME NEW own, Table(own), \A r \in own : r.user = Viewer,
         NEW shared, SharedOK(shared)
  PROVE  Told(EntriesOf(own, shared))
<1> DEFINE A == {EntryOf(r) : r \in own}
           B == {FriendEntryOf(r, shared) : r \in shared.rows}
<1>1. IsFiniteSet(A)
  <2> DEFINE f == [r \in own |-> EntryOf(r)]
  <2>1. A = {f[r] : r \in own} /\ DOMAIN f = own /\ IsFiniteSet(own)
    BY DEF Table
  <2> HIDE DEF f
  <2> QED BY <2>1, ImageIsFinite
<1>2. IsFiniteSet(B)
  <2> DEFINE R == shared.rows
             f == [r \in R |-> FriendEntryOf(r, shared)]
  <2>1. B = {f[r] : r \in R} /\ DOMAIN f = R /\ IsFiniteSet(R)
    BY DEF Table, SharedOK
  <2> HIDE DEF f, R
  <2> QED BY <2>1, ImageIsFinite
<1>3. \A r \in own : EntryFrom(EntryOf(r), r)
  BY OwnEntry DEF Table
<1>4. \A r \in shared.rows : /\ EntryFrom(FriendEntryOf(r, shared), r)
                             /\ r.user \in Others
  <2> TAKE r \in shared.rows
  <2>1. LET e == FriendEntryOf(r, shared) IN
         /\ EntryFrom(e, r) /\ e.friend \in Others /\ e.friend = r.user /\ e.cap = None
         /\ [client |-> e.client, friend |-> e.friend] \in shared.grants
         /\ e.friend # None
    BY FriendEntry
  <2> QED BY <2>1
<1>5. \A r \in own, s \in shared.rows : r.id # s.id
  <2> SUFFICES ASSUME NEW r \in own, NEW s \in shared.rows, r.id = s.id PROVE FALSE
    OBVIOUS
  <2>1. PICK o \in Offers : RowOf(r, o)
    BY DEF Table
  <2>2. PICK p \in Offers : RowOf(s, p)
    BY DEF Table, SharedOK
  <2>3. o.id = p.id
    BY <2>1, <2>2 DEF RowOf
  <2>4. o = p
    BY <2>3, OffersAssumption
  <2>5. r.user = s.user
    BY <2>1, <2>2, <2>4 DEF RowOf
  <2> QED BY <1>4, <2>5, GrantsAssumption
<1>6. IsFiniteSet(A \cup B) /\ A \cup B \subseteq Entry
  <2>1. A \cup B \subseteq Entry
    BY <1>3, <1>4 DEF EntryFrom
  <2> HIDE DEF A, B
  <2> QED BY <1>1, <1>2, <2>1, FS_Union
<1>7. \A e, f \in A \cup B : e.id = f.id => e = f
  <2>1. \A r, s \in own : EntryOf(r).id = EntryOf(s).id => EntryOf(r) = EntryOf(s)
    BY <1>3 DEF EntryFrom, Table
  <2>2. \A r, s \in shared.rows : FriendEntryOf(r, shared).id = FriendEntryOf(s, shared).id
          => FriendEntryOf(r, shared) = FriendEntryOf(s, shared)
    BY <1>4 DEF EntryFrom, Table, SharedOK
  <2>3. \A r \in own, s \in shared.rows : EntryOf(r).id # FriendEntryOf(s, shared).id
    BY <1>3, <1>4, <1>5 DEF EntryFrom
  <2> QED BY <2>1, <2>2, <2>3
<1> QED BY <1>6, <1>7 DEF EntriesOf, Told

LEMMA PartIsTold == ASSUME NEW S, Told(S), NEW T \in SUBSET S PROVE Told(T)
BY FS_Subset DEF Told

LEMMA ChosenIsTold ==
  ASSUME NEW n, NoteOK(n)
  PROVE  /\ Chosen(n) \subseteq EntriesOf(n.own, n.seen[1])
         /\ Told(Chosen(n)) /\ \A c : Told(OfCategory(Chosen(n), c))
<1>1. Told(EntriesOf(n.own, n.seen[1]))
  BY EntriesAreTold DEF NoteOK
<1>2. Chosen(n) \subseteq EntriesOf(n.own, n.seen[1])
  BY DEF Chosen, Selected, FriendEntriesByCategory, EntriesOf
<1>3. \A c : OfCategory(Chosen(n), c) \subseteq Chosen(n)
  BY DEF OfCategory
<1> QED BY <1>1, <1>2, <1>3, PartIsTold

\* What a statement reads of the menu is a table.
LEMMA ReadIsTable ==
  ASSUME NEW A \in SUBSET Offers
  PROVE  Table({Row(o) : o \in A})
<1> DEFINE R == {Row(o) : o \in A}
<1>1. \A o \in Offers : Row(o) \in MenuRow /\ RowOf(Row(o), o)
  BY RowIs DEF RowOf
<1>2. IsFiniteSet(R)
  <2> DEFINE f == [o \in A |-> Row(o)]
  <2>1. R = {f[o] : o \in A} /\ DOMAIN f = A /\ IsFiniteSet(A)
    BY FS_Subset, OffersAssumption
  <2> HIDE DEF f
  <2> QED BY <2>1, ImageIsFinite
<1>3. \A r \in R : \E o \in Offers : RowOf(r, o) /\ r = Row(o) /\ r \in MenuRow
  BY <1>1
<1>4. \A r, s \in R : r.id = s.id => r = s
  <2>1. \A o, p \in A : Row(o).id = Row(p).id => o = p
    BY <1>1, OffersAssumption DEF RowOf
  <2> QED BY <2>1
<1> HIDE DEF R
<1>5. Table(R)
  BY <1>2, <1>3, <1>4 DEF Table
<1> QED BY <1>5 DEF R

\* What is read at one glance is what a request reads.
LEMMA GlanceIsRead ==
  ASSUME TablesOK, NEW day
  PROVE  NoteOK(Glance(day)) /\ SharedOK(Picture) /\ Table(ListUserOffers)
<1>1. Glance(day).own = ListUserOffers /\ Glance(day).seen = <<Picture>>
  BY DEF Glance, Idle
<1>2. Table(ListUserOffers) /\ \A r \in ListUserOffers : r.user = Viewer
  <2>1. OwnRows \in SUBSET Offers /\ ListUserOffers = {Row(x) : x \in OwnRows}
    BY DEF OwnRows, ListUserOffers
  <2>2. \A o \in OwnRows : Row(o).user = Viewer
    BY RowIs DEF OwnRows
  <2> QED BY <2>1, <2>2, ReadIsTable
<1>3. SharedOK(Picture)
  <2> DEFINE G == {s \in shares : s.friend \in friends}
             C == {s.client : s \in G}
  <2>1. Picture.grants = G /\ Picture.rows = ListOffersForClients(C)
    BY DEF Picture
  <2>2. G \subseteq Shareable
    BY DEF TablesOK
  <2>3. RowsOf(C) \in SUBSET Offers /\ ListOffersForClients(C) = {Row(x) : x \in RowsOf(C)}
    BY DEF RowsOf, ListOffersForClients
  <2>4. \A o \in RowsOf(C) : Row(o).client \in C
    BY RowIs DEF RowsOf
  <2>5. Table(ListOffersForClients(C))
    BY <2>3, ReadIsTable
  <2>6. \A r \in ListOffersForClients(C) : \E s \in G : s.client = r.client
    BY <2>3, <2>4
  <2> HIDE DEF G, C
  <2> QED BY <2>1, <2>2, <2>5, <2>6 DEF SharedOK
<1> HIDE DEF NoteOK
<1>4. Len(<<Picture>>) = 1 /\ <<Picture>>[1] = Picture /\ <<Picture>> # <<>>
  OBVIOUS
<1> QED BY <1>1, <1>2, <1>3, <1>4 DEF NoteOK

(*********************************** best **********************************)

LEMMA LeastOf ==
  ASSUME NEW T \in SUBSET Nat, T # {}
  PROVE  Min(T) \in T /\ \A m \in T : Min(T) <= m
<1>1. \E n \in T : \A m \in T : n <= m
  BY Least
<1> QED BY <1>1 DEF Min

\* Nobody is sent to a friend for nothing: a friend beside an own card pays in a better
\* currency or more, because the friend's card is the first of all that are ranked.
THEOREM FriendsAreWorthAsking == Spec => []FriendOnlyIfBetter
<1>1. ASSUME TablesOK, NEW day \in Days, NEW g \in FeedGroups(Glance(day)),
             g.friendBest # None, g.best # None
      PROVE  Before(<<CurrencyOrder(g.friendBest.currency), DescPercent(g.friendBest.percent)>>,
                    <<CurrencyOrder(g.best.currency), DescPercent(g.best.percent)>>)
  <2> DEFINE n == Glance(day)
  <2>0. NoteOK(n)
    BY <1>1, GlanceIsRead
  <2> HIDE DEF n
  <2>1. PICK c : g = Group(n, c)
    BY <1>1 DEF FeedGroups, n
  <2> DEFINE S == OfCategory(Chosen(n), c)
             ranked == RankActiveSelections(n.day, S)
             T == StackSupers({e \in S : Covers(e, n.day)})
  <2>2. g.best = FirstOwn(ranked) /\ g.friendBest = FirstFriend(ranked)
    BY <2>1 DEF Group
  <2>3. /\ Told(T) /\ Lists(ranked, T)
        /\ \A i, j \in DOMAIN ranked : i < j => Before(RankKey(ranked[i]), RankKey(ranked[j]))
    <3>1. Told(S)
      BY <2>0, ChosenIsTold
    <3> HIDE DEF S
    <3> QED BY <3>1, RankedSelections
  <2> HIDE DEF S, ranked, T
  <2>4. g.friendBest = ranked[1] /\ ranked[1].friend # None /\ ranked # <<>>
    BY <1>1, <2>2 DEF FirstFriend
  <2> DEFINE I == {i \in DOMAIN ranked : ranked[i].friend = None}
             k == Min(I)
  <2>5. g.best = ranked[k] /\ k \in I
    <3>1. I # {} /\ g.best = ranked[k]
      BY <1>1, <2>2 DEF FirstOwn
    <3>2. I \in SUBSET Nat
      BY <2>3 DEF Lists
    <3> HIDE DEF I
    <3> QED BY <3>1, <3>2, LeastOf
  <2> HIDE DEF k
  <2>6. k \in DOMAIN ranked /\ ranked[k].friend = None /\ 1 \in DOMAIN ranked /\ 1 < k
    BY <2>3, <2>4, <2>5 DEF Lists
  <2>7. Before(RankKey(ranked[1]), RankKey(ranked[k]))
    BY <2>3, <2>6
  <2>8. ranked[1] \in Entry /\ ranked[k] \in Entry
    BY <2>3, <2>6 DEF Lists, Told
  <2>9. /\ RankKey(ranked[1]) = <<CurrencyOrder(g.friendBest.currency), DescPercent(g.friendBest.percent), 1,
                                  ranked[1].bank, ranked[1].label, ranked[1].id>>
        /\ RankKey(ranked[k]) = <<CurrencyOrder(g.best.currency), DescPercent(g.best.percent), 0,
                                  ranked[k].bank, ranked[k].label, ranked[k].id>>
    BY <2>4, <2>5, <2>6 DEF RankKey
  <2> DEFINE x == <<CurrencyOrder(g.friendBest.currency), DescPercent(g.friendBest.percent), 1,
                    ranked[1].bank, ranked[1].label, ranked[1].id>>
             y == <<CurrencyOrder(g.best.currency), DescPercent(g.best.percent), 0,
                    ranked[k].bank, ranked[k].label, ranked[k].id>>
  <2>10. PICK i \in 1..6 : x[i] < y[i] /\ \A j \in 1..(i - 1) : x[j] = y[j]
    BY <2>7, <2>9 DEF Before
  <2>11. x[3] = 1 /\ y[3] = 0
    OBVIOUS
  <2>12. i \in 1..2
    <3> HIDE DEF x, y
    <3>1. i # 3
      BY <2>10, <2>11
    <3>2. ~ (i > 3)
      BY <2>10, <2>11
    <3> QED BY <2>10, <3>1, <3>2
  <2> DEFINE u == <<CurrencyOrder(g.friendBest.currency), DescPercent(g.friendBest.percent)>>
             v == <<CurrencyOrder(g.best.currency), DescPercent(g.best.percent)>>
  <2>13. u[1] = x[1] /\ u[2] = x[2] /\ v[1] = y[1] /\ v[2] = y[2] /\ DOMAIN u = 1..2
    OBVIOUS
  <2> HIDE DEF x, y, u, v
  <2>14. Before(u, v)
    <3>1. CASE i = 1
      BY <2>10, <2>13, <3>1 DEF Before
    <3>2. CASE i = 2
      BY <2>10, <2>13, <3>2 DEF Before
    <3> QED BY <2>12, <3>1, <3>2
  <2> QED BY <2>14 DEF u, v
<1>2. TablesOK => FriendOnlyIfBetter
  BY <1>1 DEF FriendOnlyIfBetter
<1> QED BY <1>2, TablesInit, TablesStep, PTL DEF Spec

(**************************** one's own and friends' ***********************)

OwnOf(S) == {e \in S : e.friend = None}

\* cards of one's own and of a friend are of different clients
Apart(S) ==
  \A e, f \in S : e.kind # "partner" /\ f.kind # "partner" /\ e.client = f.client
                    => (e.friend = None <=> f.friend = None)

\* Supers stay on their side: stacking the viewer's entries apart gives the viewer's
\* part of the stack.
LEMMA StackedApart ==
  ASSUME NEW S, Told(S), Apart(S)
  PROVE  OwnOf(StackSupers(S)) = StackSupers(OwnOf(S))
<1> DEFINE O == OwnOf(S)
<1>1. O \subseteq S /\ Told(O)
  BY PartIsTold DEF OwnOf
<1>2. ASSUME NEW e \in O, e.kind # "partner"
      PROVE  /\ Paying(S, "super", e.client) = Paying(O, "super", e.client)
             /\ Paying(S, "regular", e.client) = Paying(O, "regular", e.client)
  BY <1>1, <1>2 DEF Paying, Apart, OwnOf
<1>3. ASSUME NEW e \in O
      PROVE  /\ e \in Kept(S) <=> e \in Kept(O)
             /\ OnTop(S, e) = OnTop(O, e)
  <2>1. e \in S
    BY <1>1
  <2>2. CASE e.kind # "partner"
    <3>1. /\ Paying(S, "super", e.client) = Paying(O, "super", e.client)
          /\ Paying(S, "regular", e.client) = Paying(O, "regular", e.client)
      BY <1>2, <2>2
    <3>2. IsPick(S, e) <=> IsPick(O, e)
      BY <3>1 DEF IsPick
    <3> HIDE DEF O
    <3> QED BY <2>1, <3>1, <3>2 DEF Kept, OnTop
  <2>3. CASE e.kind = "partner"
    <3>1. \A R : ~ IsPick(R, e) /\ e \notin Paying(R, "super", e.client)
      BY <2>3 DEF IsPick, Paying
    <3> HIDE DEF O
    <3> QED BY <2>1, <3>1 DEF Kept, OnTop
  <2> QED BY <2>2, <2>3
<1>4. \A e \in S : OnTop(S, e).friend = e.friend
  BY OnTopIsEntry DEF SameRow
<1>5. \A d : d \in StackSupers(S) <=> \E e \in Kept(S) : d = OnTop(S, e)
  BY StackedIsTold
<1>6. \A d : d \in StackSupers(O) <=> \E e \in Kept(O) : d = OnTop(O, e)
  BY <1>1, StackedIsTold
<1>7. Kept(S) \subseteq S /\ Kept(O) \subseteq O
  BY DEF Kept
<1>8. \A e \in S : e \in O <=> e.friend = None
  BY DEF OwnOf
<1> HIDE DEF O
<1>9. \A d \in OwnOf(StackSupers(S)) : d \in StackSupers(O)
  BY <1>3, <1>4, <1>5, <1>6, <1>7, <1>8 DEF OwnOf
<1>10. \A d \in StackSupers(O) : d \in OwnOf(StackSupers(S))
  BY <1>1, <1>3, <1>4, <1>5, <1>6, <1>7, <1>8 DEF OwnOf
<1> QED BY <1>9, <1>10 DEF O

\* first of T
Leads(e, T) == e \in T /\ \A f \in T : f = e \/ Before(RankKey(e), RankKey(f))

LEMMA KeysOrder ==
  ASSUME NEW e \in Entry
  PROVE  /\ RankKey(e) \in [1..6 -> Int]
         /\ ~ Before(RankKey(e), RankKey(e))
         /\ \A f \in Entry : ~ (Before(RankKey(e), RankKey(f)) /\ Before(RankKey(f), RankKey(e)))
<1>1. \A f \in Entry : RankKey(f) \in [1..6 -> Int]
  BY KeysAreNumbers DEF RankKey
<1> QED BY <1>1, BeforeIsOrder

LEMMA OneLeads ==
  ASSUME NEW T \in SUBSET Entry, NEW d, NEW e, Leads(d, T), Leads(e, T)
  PROVE  d = e
BY KeysOrder DEF Leads

\* The best card of the viewer's is the first of theirs, whoever is before it.
LEMMA BestLeads ==
  ASSUME NEW T, Told(T), NEW o, Lists(o, T),
         \A i, j \in DOMAIN o : i < j => Before(RankKey(o[i]), RankKey(o[j]))
  PROVE  /\ OwnOf(T) = {} => FirstOwn(o) = None
         /\ OwnOf(T) # {} => Leads(FirstOwn(o), OwnOf(T))
         /\ Cardinality({i \in DOMAIN o : o[i].friend = None}) = Cardinality(OwnOf(T))
         /\ \A e : e \in {o[i] : i \in DOMAIN o} <=> e \in T
<1> DEFINE I == {i \in DOMAIN o : o[i].friend = None}
<1>1. \A e \in OwnOf(T) : \E i \in I : o[i] = e
  BY DEF Lists, OwnOf
<1>2. \A i \in I : o[i] \in OwnOf(T) /\ i \in Nat /\ i \in DOMAIN o
  BY DEF Lists, OwnOf
<1>3. OwnOf(T) = {} => FirstOwn(o) = None
  BY <1>2 DEF FirstOwn
<1>4. ASSUME OwnOf(T) # {} PROVE Leads(FirstOwn(o), OwnOf(T))
  <2>1. I # {} /\ I \in SUBSET Nat
    BY <1>1, <1>2, <1>4
  <2>2. FirstOwn(o) = o[Min(I)]
    BY <2>1 DEF FirstOwn
  <2> HIDE DEF I
  <2>3. Min(I) \in I /\ \A m \in I : Min(I) <= m
    BY <2>1, LeastOf
  <2>4. ASSUME NEW f \in OwnOf(T) PROVE f = o[Min(I)] \/ Before(RankKey(o[Min(I)]), RankKey(f))
    <3>1. PICK i \in I : o[i] = f
      BY <1>1
    <3>2. i = Min(I) \/ Min(I) < i
      BY <1>2, <2>3
    <3> QED BY <1>2, <2>3, <3>1, <3>2
  <2> QED BY <1>2, <2>2, <2>3, <2>4 DEF Leads
<1>5. Cardinality(I) = Cardinality(OwnOf(T))
  <2> DEFINE W == OwnOf(T)
             f == [i \in I |-> o[i]]
  <2>1. f \in [I -> W] /\ (\A w \in W : \E i \in I : f[i] = w) /\ \A i, j \in I : f[i] = f[j] => i = j
    <3>1. \A i, j \in I : o[i] = o[j] => i = j
      BY DEF Lists
    <3> HIDE DEF I
    <3> QED BY <1>1, <1>2, <3>1
  <2>2. IsFiniteSet(I)
    <3>1. IsFiniteSet(1..Cardinality(T)) /\ DOMAIN o = 1..Cardinality(T)
      BY FS_Interval, FS_CardinalityType DEF Lists, Told
    <3> QED BY <3>1, FS_Subset
  <2> HIDE DEF W, f, I
  <2>3. f \in Bijection(I, W)
    BY <2>1 DEF Bijection, Injection, Surjection, IsInjective
  <2>4. ExistsBijection(I, W)
    BY <2>3 DEF ExistsBijection
  <2>5. Cardinality(I) = Cardinality(W)
    BY <2>2, <2>4, FS_Bijection
  <2> QED BY <2>5 DEF W
<1>6. \A e : e \in {o[i] : i \in DOMAIN o} <=> e \in T
  BY DEF Lists
<1> QED BY <1>3, <1>4, <1>5, <1>6

\* The viewer's entries name no friend and a friend's does, of another client.
LEMMA EntriesAreApart ==
  ASSUME NEW n, NoteOK(n)
  PROVE  /\ Apart(EntriesOf(n.own, n.seen[1]))
         /\ \A r \in n.own : EntryOf(r).friend = None
         /\ \A r \in n.seen[1].rows : FriendEntryOf(r, n.seen[1]).friend # None
<1> DEFINE E == EntriesOf(n.own, n.seen[1])
<1>1. \A r \in n.own : /\ EntryOf(r).friend = None /\ EntryOf(r).client = r.client
                       /\ \E o \in Offers : o.client = r.client /\ o.user = Viewer
  <2> TAKE r \in n.own
  <2>1. r \in MenuRow /\ r.user = Viewer /\ \E o \in Offers : RowOf(r, o)
    BY DEF NoteOK, Table
  <2> QED BY <2>1, OwnEntry DEF EntryFrom, RowOf
<1>2. \A r \in n.seen[1].rows :
         /\ FriendEntryOf(r, n.seen[1]).friend # None /\ FriendEntryOf(r, n.seen[1]).client = r.client
         /\ \E o \in Offers : o.client = r.client /\ o.user \in Others
  <2> TAKE r \in n.seen[1].rows
  <2>0. SharedOK(n.seen[1])
    BY DEF NoteOK
  <2>1. LET e == FriendEntryOf(r, n.seen[1]) IN
         /\ EntryFrom(e, r) /\ e.friend \in Others /\ e.friend = r.user /\ e.cap = None
         /\ [client |-> e.client, friend |-> e.friend] \in n.seen[1].grants
         /\ e.friend # None
    BY <2>0, FriendEntry
  <2>2. \E o \in Offers : RowOf(r, o)
    BY <2>0 DEF SharedOK, Table
  <2> QED BY <2>1, <2>2 DEF EntryFrom, RowOf
<1>3. \A e \in E :
         \/ e.friend = None /\ \E o \in Offers : o.client = e.client /\ o.user = Viewer
         \/ e.friend # None /\ \E o \in Offers : o.client = e.client /\ o.user \in Others
  BY <1>1, <1>2 DEF EntriesOf
<1>4. Apart(E)
  <2> HIDE DEF E
  <2> QED BY <1>3, OffersAssumption, GrantsAssumption DEF Apart
<1> QED BY <1>1, <1>2, <1>4

OwnChosen(n) == Selected(n.own, {r.cat : r \in n.own} \ {None, AllPurchases})

\* The viewer's part of what is chosen is what the viewer has selected.
LEMMA ChosenApart ==
  ASSUME NEW n, NoteOK(n)
  PROVE  /\ Apart(Chosen(n)) /\ OwnOf(Chosen(n)) = OwnChosen(n)
<1>1. Apart(Chosen(n))
  BY ChosenIsTold, EntriesAreApart DEF Apart
<1>2. \A e \in OwnChosen(n) : e.friend = None
  BY EntriesAreApart DEF OwnChosen, Selected
<1>3. \A e \in FriendEntriesByCategory(n) : e.friend # None
  BY EntriesAreApart DEF FriendEntriesByCategory
<1>4. OwnOf(Chosen(n)) = OwnChosen(n)
  BY <1>2, <1>3 DEF OwnOf, Chosen, OwnChosen
<1> QED BY <1>1, <1>4

LEMMA AloneChosen ==
  ASSUME NEW n, NEW m, m.own = n.own, m.day = n.day,
         NEW now, m.seen = <<[grants |-> {}, rows |-> {}, now |-> now]>>
  PROVE  /\ Chosen(m) = OwnChosen(n) /\ CanPick(m) = CanPick(n) /\ CanAskFor(m) = {}
         /\ NoteOK(n) => NoteOK(m)
<1>1. m.seen[1].rows = {} /\ m.seen[1].grants = {} /\ Len(m.seen) = 1 /\ m.seen # <<>>
  OBVIOUS
<1>2. FriendEntriesByCategory(m) = {}
  BY <1>1 DEF FriendEntriesByCategory
<1>3. FriendPickable(m.seen[1], m) = {}
  BY <1>1 DEF FriendPickable, Offered
<1>4. CanAskFor(m) = {}
  BY <1>1, <1>3 DEF CanAskFor, FriendAvailableByCategory
<1>5. Chosen(m) = OwnChosen(n)
  BY <1>2 DEF Chosen, OwnChosen
<1>6. CanPick(m) = CanPick(n)
  BY DEF CanPick
<1>7. NoteOK(n) => NoteOK(m)
  <2>1. SharedOK(m.seen[1])
    BY <1>1, FS_EmptySet DEF SharedOK, Table
  <2> QED BY <1>1, <2>1 DEF NoteOK
<1> QED BY <1>4, <1>5, <1>6, <1>7

\* The viewer's side of a group, from the viewer's rows alone: o are the rows
\* selected there, and b what can be picked.
OwnSide(c, best, ranked, avail, banks) ==
  <<c, best, IF best = None THEN First(RankAvailable(avail)) ELSE None,
    ranked - (IF best = None THEN 0 ELSE 1), banks>>

\* The viewer's part of a group follows from the viewer's rows.
LEMMA SideOfGroup ==
  ASSUME NEW n, NoteOK(n), NEW c
  PROVE  LET own   == {e \in OfCategory(OwnChosen(n), c) : Covers(e, n.day)}
             T     == StackSupers(own)
             avail == OfCategory(CanPick(n), c)
             g     == Group(n, c)
         IN  /\ T \subseteq Entry
             /\ T = {} => g.best = None
             /\ T # {} => Leads(g.best, T)
             /\ OwnPart(g) = OwnSide(c, g.best, Cardinality(T), avail,
                                     {e.bank : e \in T \cup avail})
<1> DEFINE S     == OfCategory(Chosen(n), c)
           A     == {e \in S : Covers(e, n.day)}
           own   == {e \in OfCategory(OwnChosen(n), c) : Covers(e, n.day)}
           T     == StackSupers(own)
           ranked == RankActiveSelections(n.day, S)
           avail == OfCategory(CanPick(n), c)
           askable == OfCategory(CanAskFor(n), c)
           g     == Group(n, c)
           all   == StackSupers(A)
<1>1. Told(S)
  BY ChosenIsTold
<1>2. /\ Told(A) /\ Told(all) /\ Lists(ranked, all)
      /\ \A i, j \in DOMAIN ranked : i < j => Before(RankKey(ranked[i]), RankKey(ranked[j]))
  <2> HIDE DEF S
  <2> QED BY <1>1, RankedSelections
<1>3. Apart(A) /\ OwnOf(A) = own
  BY ChosenApart DEF Apart, OwnOf, OfCategory
<1>4. OwnOf(all) = T
  <2> HIDE DEF A, own
  <2> QED BY <1>2, <1>3, StackedApart
<1>5. g.cat = c /\ g.best = FirstOwn(ranked)
      /\ g.available = (IF g.best = None THEN First(RankAvailable(avail)) ELSE None)
      /\ g.others = Cardinality({i \in DOMAIN ranked : ranked[i].friend = None})
                      - (IF g.best = None THEN 0 ELSE 1)
      /\ g.stack = IF S \cup avail = {} THEN {}
                   ELSE BankStack(Range(ranked) \cup avail \cup askable)
  BY DEF Group
<1> HIDE DEF g, ranked, all, own, T
<1>6. /\ T = {} => g.best = None
      /\ T # {} => Leads(g.best, T)
      /\ Cardinality({i \in DOMAIN ranked : ranked[i].friend = None}) = Cardinality(T)
      /\ \A e : e \in {ranked[i] : i \in DOMAIN ranked} <=> e \in all
  BY <1>2, <1>4, <1>5, BestLeads
<1>7. T \subseteq Entry
  BY <1>2, <1>4 DEF OwnOf, Told
<1> DEFINE X == Range(ranked) \cup avail \cup askable
           logos == {b.bank : b \in {l \in g.stack : ~ l.friend}}
           banks == {e.bank : e \in T \cup avail}
<1>8. \A e \in X : e.friend = None <=> e \in T \cup avail
  <2>1. Range(ranked) = all
    BY <1>6 DEF Range
  <2>2. \A e \in all : e.friend = None <=> e \in T
    BY <1>4 DEF OwnOf
  <2>3. \A e \in avail : e.friend = None
    BY DEF OfCategory, CanPick, AvailableOf, EntryOf
  <2>4. \A e \in askable : e.friend # None
    <3> DEFINE sh == n.seen[Len(n.seen)]
    <3>1. SharedOK(sh)
      BY DEF NoteOK
    <3>2. \A e \in askable : e \in FriendPickable(sh, n)
      BY DEF OfCategory, CanAskFor, FriendAvailableByCategory
    <3> HIDE DEF sh, askable
    <3>3. ASSUME NEW e \in FriendPickable(sh, n) PROVE e.friend # None
      <4>1. PICK r \in sh.rows : e = [FriendEntryOf(r, sh) EXCEPT !.verdict = VerdictOf(r, sh.rows)]
        BY DEF FriendPickable, Offered
      <4>2. FriendEntryOf(r, sh) \in Entry /\ FriendEntryOf(r, sh).friend # None
        <5>1. LET f == FriendEntryOf(r, sh) IN
              /\ EntryFrom(f, r) /\ f.friend \in Others /\ f.friend = r.user /\ f.cap = None
              /\ [client |-> f.client, friend |-> f.friend] \in sh.grants
              /\ f.friend # None
          BY <3>1, FriendEntry
        <5> QED BY <5>1 DEF EntryFrom
      <4> QED BY <4>1, <4>2 DEF Entry
    <3> QED BY <3>2, <3>3
  <2>5. T \subseteq all
    BY <1>4 DEF OwnOf
  <2> HIDE DEF avail, askable
  <2>6. ASSUME NEW e \in avail PROVE e.friend = None
    BY <2>3
  <2> QED BY <2>1, <2>2, <2>3, <2>4, <2>5
<1>9. logos = banks
  <2>1. CASE S \cup avail = {}
    <3>1. T = {}
      <4>1. all = {}
        <5>1. Kept(A) = {}
          BY <2>1 DEF Kept
        <5> HIDE DEF A
        <5> QED BY <1>2, <5>1, StackedIsTold DEF all
      <4> QED BY <1>4, <4>1 DEF OwnOf
    <3> QED BY <1>5, <2>1, <3>1
  <2>2. CASE S \cup avail # {}
    <3>1. g.stack = BankStack(X)
      BY <1>5, <2>2
    <3>2. T \cup avail \subseteq X
      BY <1>4, <1>6 DEF OwnOf, Range
    <3> DEFINE V == T \cup avail
    <3>3. banks = {e.bank : e \in V}
      OBVIOUS
    <3> HIDE DEF X, V, banks
    <3>4. \A l \in g.stack : ~ l.friend => \E e \in X : e.bank = l.bank /\ e.friend = None
      BY <3>1 DEF BankStack
    <3>5. \A e \in X : e.friend = None => \E l \in g.stack : ~ l.friend /\ l.bank = e.bank
      <4> TAKE e \in X
      <4> DEFINE l == [bank |-> e.bank, friend |-> \A f \in X : f.bank = e.bank => f.friend # None]
      <4>1. l \in g.stack
        BY <3>1 DEF BankStack
      <4>2. e.friend = None => ~ l.friend
        OBVIOUS
      <4> QED BY <4>1, <4>2
    <3>6. \A e \in X : e.friend = None <=> e \in V
      BY <1>8 DEF V
    <3>7. V \subseteq X
      BY <3>2 DEF V
    <3>8. \A b : b \in logos <=> \E e \in V : b = e.bank
      BY <3>4, <3>5, <3>6, <3>7
    <3> HIDE DEF logos
    <3> QED BY <3>3, <3>8
  <2> QED BY <2>1, <2>2
<1> HIDE DEF avail, banks, logos
<1>10. OwnPart(g) = OwnSide(c, g.best, Cardinality(T), avail, banks)
  BY <1>5, <1>6, <1>9 DEF OwnPart, OwnSide, logos
<1> QED BY <1>6, <1>7, <1>10 DEF T, own, avail, banks, g

\* Whatever friends share, the viewer's own part of every row of the feed is what it
\* would be without them (SplitFeedWinner): ranking all cards and taking the first own
\* one is ranking the own cards.
THEOREM OwnStaysWhenFriendsHide == Spec => []HidingFriendsFallsBack
<1>1. ASSUME TablesOK, NEW day \in Days
      PROVE  LET n == Glance(day)
             IN  {OwnPart(g) : g \in {h \in FeedGroups(n) : HasOwnPart(h)}}
                   = {OwnPart(g) : g \in FeedGroups(WithoutFriends(n))}
  <2> DEFINE n == Glance(day)
             m == WithoutFriends(n)
  <2>1. m.own = n.own /\ m.day = n.day /\ m.seen = <<[grants |-> {}, rows |-> {}, now |-> n.now]>>
    BY DEF Glance, WithoutFriends, Idle
  <2>2. NoteOK(n)
    BY <1>1, GlanceIsRead
  <2> HIDE DEF n, m
  <2>3. Chosen(m) = OwnChosen(n) /\ CanPick(m) = CanPick(n) /\ CanAskFor(m) = {} /\ NoteOK(m)
    BY <2>1, <2>2, AloneChosen
  <2>4. OwnChosen(m) = OwnChosen(n) /\ OwnChosen(n) \subseteq Chosen(n)
    BY <2>1 DEF OwnChosen, Chosen
  <2> DEFINE own(c) == {e \in OfCategory(OwnChosen(n), c) : Covers(e, n.day)}
             T(c) == StackSupers(own(c))
             avail(c) == OfCategory(CanPick(n), c)
  <2>5. ASSUME NEW c
        PROVE  /\ OwnPart(Group(n, c)) = OwnPart(Group(m, c))
               /\ Group(n, c).best = Group(m, c).best
               /\ Group(n, c).available = Group(m, c).available
               /\ Group(n, c).best # None => own(c) # {}
               /\ Group(n, c).available # None => avail(c) # {}
               /\ Group(m, c).friendBest = None /\ Group(m, c).friendAvailable = None
    <3> DEFINE g == Group(n, c)
               h == Group(m, c)
               banks == {e.bank : e \in T(c) \cup avail(c)}
    <3>1. /\ T(c) \subseteq Entry
          /\ T(c) = {} => g.best = None
          /\ T(c) # {} => Leads(g.best, T(c))
          /\ OwnPart(g) = OwnSide(c, g.best, Cardinality(T(c)), avail(c), banks)
      BY <2>2, SideOfGroup
    <3>2. /\ T(c) = {} => h.best = None
          /\ T(c) # {} => Leads(h.best, T(c))
          /\ OwnPart(h) = OwnSide(c, h.best, Cardinality(T(c)), avail(c), banks)
      <4>1. LET o   == {e \in OfCategory(OwnChosen(m), c) : Covers(e, m.day)}
                a   == OfCategory(CanPick(m), c)
                t   == StackSupers(o)
            IN  /\ t = {} => h.best = None
                /\ t # {} => Leads(h.best, t)
                /\ OwnPart(h) = OwnSide(c, h.best, Cardinality(t), a, {e.bank : e \in t \cup a})
        BY <2>3, SideOfGroup
      <4> QED BY <2>1, <2>3, <2>4, <4>1
    <3>3. g.best = h.best
      <4> HIDE DEF g, h, T
      <4> QED BY <3>1, <3>2, OneLeads
    <3>4. OwnPart(g) = OwnPart(h)
      BY <3>1, <3>2, <3>3
    <3>5. g.available = h.available
      BY <2>3, <3>3 DEF Group
    <3>6. g.best # None => own(c) # {}
      <4>1. T(c) # {} => own(c) # {}
        BY DEF StackSupers
      <4> QED BY <3>1, <4>1
    <3>7. RankAvailable({}) = <<>> /\ First(<<>>) = None
      <4>1. Cardinality({}) = 0
        BY FS_EmptySet
      <4> QED BY <4>1 DEF RankAvailable, Ordered, First
    <3>8. g.available # None => avail(c) # {}
      BY <3>7 DEF Group
    <3>9. h.friendAvailable = None
      <4>1. OfCategory(CanAskFor(m), c) = {}
        BY <2>3 DEF OfCategory
      <4> QED BY <3>7, <4>1 DEF Group
    <3>10. h.friendBest = None
      <4> DEFINE S == OfCategory(Chosen(m), c)
                 A == {e \in S : Covers(e, m.day)}
                 ranked == RankActiveSelections(m.day, S)
      <4>1. Told(S) /\ OwnOf(S) = S
        BY <2>3, <2>4, ChosenIsTold, ChosenApart DEF OfCategory, OwnOf
      <4> HIDE DEF S
      <4>2. Told(A) /\ Lists(ranked, StackSupers(A))
        BY <4>1, RankedSelections
      <4>3. \A e \in A : e.friend = None
        BY <4>1 DEF OwnOf
      <4>4. \A d \in StackSupers(A) : d.friend = None
        <5> HIDE DEF A
        <5>1. \A d \in StackSupers(A) : \E e \in Kept(A) : d = OnTop(A, e)
          BY <4>2, StackedIsTold
        <5> QED BY <4>2, <4>3, <5>1, OnTopIsEntry DEF SameRow, Kept
      <4>5. \A i \in DOMAIN ranked : ranked[i].friend = None
        BY <4>2, <4>4 DEF Lists
      <4>6. ranked # <<>> => 1 \in DOMAIN ranked
        BY <4>2 DEF Lists
      <4>7. FirstFriend(ranked) = None
        BY <4>5, <4>6 DEF FirstFriend
      <4> QED BY <4>7 DEF Group, S
    <3> QED BY <3>3, <3>4, <3>5, <3>6, <3>8, <3>9, <3>10
  <2> DEFINE cats == {e.cat : e \in Chosen(n) \cup CanPick(n) \cup CanAskFor(n)}
             mine == {e.cat : e \in Chosen(m) \cup CanPick(m) \cup CanAskFor(m)}
  <2>6. mine \subseteq cats
    BY <2>3, <2>4
  <2>7. ASSUME NEW c, own(c) # {} \/ avail(c) # {} PROVE c \in mine
    BY <2>3, <2>4, <2>7 DEF OfCategory
  <2>8. \A c : HasOwnPart(Group(n, c)) <=> HasOwnPart(Group(m, c))
    BY <2>5 DEF HasOwnPart
  <2>9. \A h : h \in FeedGroups(m) <=> \E c \in mine : h = Group(m, c) /\ HasOwnPart(h)
    <3>1. \A h : h \in FeedGroups(m) <=> \E c \in mine :
             h = Group(m, c) /\ {h.best, h.friendBest, h.available, h.friendAvailable} # {None}
      BY DEF FeedGroups
    <3>2. \A c : {Group(m, c).best, Group(m, c).friendBest, Group(m, c).available, Group(m, c).friendAvailable} # {None}
             <=> HasOwnPart(Group(m, c))
      <4> TAKE c
      <4>1. Group(m, c).friendBest = None /\ Group(m, c).friendAvailable = None
        BY <2>5
      <4> QED BY <4>1 DEF HasOwnPart
    <3> HIDE DEF mine
    <3> QED BY <3>1, <3>2
  <2>10. \A g : g \in FeedGroups(n) /\ HasOwnPart(g) <=> \E c \in cats : g = Group(n, c) /\ HasOwnPart(g)
    BY DEF FeedGroups, HasOwnPart
  <2>11. \A c \in cats : HasOwnPart(Group(n, c)) => c \in mine
    <3> TAKE c \in cats
    <3>1. HasOwnPart(Group(n, c)) => own(c) # {} \/ avail(c) # {}
      BY <2>5 DEF HasOwnPart
    <3> HIDE DEF own, avail, mine
    <3> QED BY <2>7, <3>1
  <2>12. \A c : OwnPart(Group(n, c)) = OwnPart(Group(m, c))
    BY <2>5
  <2> HIDE DEF cats, mine, own, avail, T
  <2>13. {OwnPart(g) : g \in {h \in FeedGroups(n) : HasOwnPart(h)}}
           = {OwnPart(g) : g \in FeedGroups(m)}
    <3>1. \A g \in FeedGroups(n) : HasOwnPart(g) => \E h \in FeedGroups(m) : OwnPart(g) = OwnPart(h)
      BY <2>8, <2>9, <2>10, <2>11, <2>12
    <3>2. \A h \in FeedGroups(m) : \E g \in FeedGroups(n) : HasOwnPart(g) /\ OwnPart(g) = OwnPart(h)
      BY <2>6, <2>8, <2>9, <2>10, <2>12
    <3> QED BY <3>1, <3>2
  <2> QED BY <2>13 DEF n, m
<1>2. TablesOK => HidingFriendsFallsBack
  BY <1>1 DEF HidingFriendsFallsBack
<1> QED BY <1>2, TablesInit, TablesStep, PTL DEF Spec

AvailKey(a) ==
  <<VerdictOrder(a.verdict), CurrencyOrder(a.currency),
    DescPercent(a.percent), a.bank, a.label, a.id>>

\* What can be picked is listed once each, by verdict, currency and percent.
LEMMA AvailableIsOrdered ==
  ASSUME NEW S, Told(S)
  PROVE  LET o == RankAvailable(S) IN
         /\ Lists(o, S)
         /\ \A i, j \in DOMAIN o : i < j => Before(AvailKey(o[i]), AvailKey(o[j]))
<1> DEFINE key == [e \in S |-> AvailKey(e)]
           o == RankAvailable(S)
<1>1. \A e \in S : AvailKey(e) \in [1..6 -> Int] /\ AvailKey(e)[6] = e.id
  BY KeysAreNumbers DEF Told, AvailKey
<1>2. /\ key \in [S -> [1..6 -> Int]] /\ \A e, f \in S : key[e] = key[f] => e = f
      /\ \A e \in S : key[e] = AvailKey(e)
  <2>1. \A e \in S : key[e] = AvailKey(e)
    OBVIOUS
  <2> HIDE DEF key
  <2>2. \A e, f \in S : AvailKey(e) = AvailKey(f) => e = f
    BY <1>1 DEF Told
  <2>3. key \in [S -> [1..6 -> Int]]
    BY <1>1 DEF key
  <2> QED BY <2>1, <2>2, <2>3
<1> HIDE DEF key
<1>3. IsFiniteSet(S) /\ 6 \in Nat
  BY DEF Told
<1>4. \A e \in S : Below(key, S, e) = {f \in S : Before(AvailKey(f), AvailKey(e))}
  BY <1>2 DEF Below
<1>5. \A i \in 1..Cardinality(S) :
        \E e \in S : Cardinality({f \in S : Before(AvailKey(f), AvailKey(e))}) = i - 1
  <2>1. \A i \in 1..Cardinality(S) : \E e \in S : Cardinality(Below(key, S, e)) = i - 1
    BY <1>2, <1>3, Places
  <2> QED BY <1>4, <2>1
<1>6. o = [i \in 1..Cardinality(S) |->
             CHOOSE e \in S : Cardinality({f \in S : Before(AvailKey(f), AvailKey(e))}) = i - 1]
  BY DEF RankAvailable, Ordered, AvailKey
<1>7. \A i \in 1..Cardinality(S) :
        o[i] \in S /\ Cardinality({f \in S : Before(AvailKey(f), AvailKey(o[i]))}) = i - 1
  BY <1>5, <1>6
<1>11. DOMAIN o = 1..Cardinality(S)
  BY <1>6
<1> HIDE DEF o
<1>8. \A i \in 1..Cardinality(S) :
        o[i] \in S /\ Cardinality(Below(key, S, o[i])) = i - 1
  BY <1>4, <1>7
<1>9. /\ Lists(o, S)
      /\ \A i, j \in DOMAIN o : i < j => Before(key[o[i]], key[o[j]])
  BY <1>2, <1>3, <1>8, <1>11, PlacedByKey
<1>10. Lists(o, S) /\ \A i, j \in DOMAIN o : i < j => Before(AvailKey(o[i]), AvailKey(o[j]))
  BY <1>2, <1>9 DEF Lists
<1> QED BY <1>10 DEF o

LEMMA AvailableIsRanked ==
  ASSUME NEW S, Told(S)
  PROVE  Lists(RankAvailable(S), S)
BY AvailableIsOrdered

LEMMA WithVerdict ==
  ASSUME NEW e \in Entry, NEW r, NEW rows
  PROVE  LET d == [e EXCEPT !.verdict = VerdictOf(r, rows)] IN
         d \in Entry /\ d.id = e.id /\ d.client = e.client /\ d.friend = e.friend
           /\ d.from = e.from /\ d.to = e.to /\ d.cap = e.cap /\ d.cat = e.cat /\ d.bank = e.bank
<1> DEFINE v == VerdictOf(r, rows)
           d == [e EXCEPT !.verdict = v]
<1>1. v \in {"free", "paid", "locked", "slots_full", "unknown"}
  BY DEF VerdictOf, AssessAvailability
<1> HIDE DEF v
<1>2. d \in Entry
  BY <1>1 DEF Entry
<1>3. d.id = e.id /\ d.client = e.client /\ d.friend = e.friend
        /\ d.from = e.from /\ d.to = e.to /\ d.cap = e.cap /\ d.cat = e.cat /\ d.bank = e.bank
  BY DEF Entry
<1> QED BY <1>2, <1>3 DEF v

LEMMA AvailableIsTold ==
  ASSUME NEW rows, Table(rows), NEW R \in SUBSET rows
  PROVE  /\ Told({AvailableOf(r, rows) : r \in R})
         /\ \A r \in R : AvailableOf(r, rows).client = r.client
<1> DEFINE A == {AvailableOf(r, rows) : r \in R}
<1>1. ASSUME NEW r \in R
      PROVE  /\ AvailableOf(r, rows) \in Entry /\ AvailableOf(r, rows).id = r.id
             /\ AvailableOf(r, rows).client = r.client
  <2> DEFINE e == EntryOf(r)
  <2>1. e \in Entry /\ e.id = r.id /\ e.client = r.client
    BY OwnEntry DEF EntryFrom, Table
  <2>2. AvailableOf(r, rows) = [e EXCEPT !.verdict = VerdictOf(r, rows)]
    BY DEF AvailableOf
  <2> HIDE DEF e
  <2>3. LET d == [e EXCEPT !.verdict = VerdictOf(r, rows)] IN
        d \in Entry /\ d.id = e.id /\ d.client = e.client /\ d.friend = e.friend
           /\ d.from = e.from /\ d.to = e.to /\ d.cap = e.cap /\ d.cat = e.cat /\ d.bank = e.bank
    BY <2>1, WithVerdict
  <2> QED BY <2>1, <2>2, <2>3
<1>2. IsFiniteSet(A)
  <2> DEFINE f == [r \in R |-> AvailableOf(r, rows)]
  <2>1. A = {f[r] : r \in R} /\ DOMAIN f = R /\ IsFiniteSet(R)
    BY FS_Subset DEF Table
  <2> HIDE DEF f
  <2> QED BY <2>1, ImageIsFinite
<1>3. \A d, e \in A : d.id = e.id => d = e
  BY <1>1 DEF Table
<1>4. A \subseteq Entry
  BY <1>1
<1> QED BY <1>1, <1>2, <1>3, <1>4 DEF Told

\* A friend's rows to pick are named, without caps, and of the window.
LEMMA PickableIsTold ==
  ASSUME NEW shared, SharedOK(shared), NEW n
  PROVE  /\ Told(FriendPickable(shared, n))
         /\ \A e \in FriendPickable(shared, n) :
              /\ e.friend # None /\ e.cap = None
              /\ [client |-> e.client, friend |-> e.friend] \in shared.grants
              /\ Overlaps(e, FriendShareWindow(shared.now))
<1> DEFINE R == {s \in Offered(shared.rows, n.day) :
                   /\ Overlaps(s, FriendShareWindow(shared.now))
                   /\ Pickable(VerdictOf(s, shared.rows))}
           of(r) == [FriendEntryOf(r, shared) EXCEPT !.verdict = VerdictOf(r, shared.rows)]
           A == {of(r) : r \in R}
<1>1. FriendPickable(shared, n) = A
  BY DEF FriendPickable
<1>2. R \subseteq shared.rows /\ \A r \in R : Overlaps(r, FriendShareWindow(shared.now))
  BY DEF Offered
<1>3. ASSUME NEW r \in R
      PROVE  /\ of(r) \in Entry /\ of(r).id = r.id /\ of(r).friend # None /\ of(r).cap = None
             /\ [client |-> of(r).client, friend |-> of(r).friend] \in shared.grants
             /\ of(r).from = r.from /\ of(r).to = r.to
  <2> DEFINE e == FriendEntryOf(r, shared)
  <2>0. r \in shared.rows
    BY <1>2
  <2>1. /\ EntryFrom(e, r) /\ e.friend \in Others /\ e.friend = r.user /\ e.cap = None
        /\ [client |-> e.client, friend |-> e.friend] \in shared.grants
        /\ e.friend # None
    BY <2>0, FriendEntry
  <2> HIDE DEF e
  <2>2. LET d == [e EXCEPT !.verdict = VerdictOf(r, shared.rows)] IN
        d \in Entry /\ d.id = e.id /\ d.client = e.client /\ d.friend = e.friend
           /\ d.from = e.from /\ d.to = e.to /\ d.cap = e.cap /\ d.cat = e.cat /\ d.bank = e.bank
    BY <2>1, WithVerdict DEF EntryFrom
  <2>3. of(r) = [e EXCEPT !.verdict = VerdictOf(r, shared.rows)]
    BY DEF e
  <2> HIDE DEF of
  <2> QED BY <2>1, <2>2, <2>3 DEF EntryFrom
<1> HIDE DEF R
<1>4. IsFiniteSet(A)
  <2> DEFINE f == [r \in R |-> of(r)]
  <2>1. A = {f[r] : r \in R} /\ DOMAIN f = R /\ IsFiniteSet(R)
    BY <1>2, FS_Subset DEF Table, SharedOK
  <2> HIDE DEF f
  <2> QED BY <2>1, ImageIsFinite
<1> HIDE DEF of
<1>5. \A d, e \in A : d.id = e.id => d = e
  <2>1. \A q, r \in R : q.id = r.id => q = r
    BY <1>2 DEF Table, SharedOK
  <2>2. \A r \in R : of(r).id = r.id
    BY <1>3
  <2>3. \A q, r \in R : of(q).id = of(r).id => of(q) = of(r)
    BY <2>1, <2>2
  <2> QED BY <2>3
<1>6. A \subseteq Entry
  BY <1>3
<1>7. \A r \in R : Overlaps(of(r), FriendShareWindow(shared.now))
  BY <1>2, <1>3 DEF Overlaps
<1> QED BY <1>1, <1>3, <1>4, <1>5, <1>6, <1>7 DEF Told

(*********************************** board *********************************)

\* Stacking drops no client.
LEMMA ClientsStay ==
  ASSUME NEW S, Told(S)
  PROVE  {d.client : d \in StackSupers(S)} = {e.client : e \in S}
<1>1. \A e \in S : OnTop(S, e).client = e.client
  BY OnTopIsEntry DEF SameRow
<1>2. \A d : d \in StackSupers(S) <=> \E e \in Kept(S) : d = OnTop(S, e)
  BY StackedIsTold
<1>3. ASSUME NEW e \in S PROVE \E f \in Kept(S) : f.client = e.client
  <2>1. CASE e \in Kept(S)
    BY <2>1
  <2>2. CASE e \notin Kept(S)
    <3>1. PICK f \in Paying(S, "regular", e.client) : TRUE
      BY <2>2 DEF Kept
    <3>2. f \in S /\ f.client = e.client /\ f.kind = "regular"
      BY <3>1 DEF Paying
    <3>3. f \in Kept(S)
      BY <3>2 DEF Kept, Paying
    <3> QED BY <3>2, <3>3
  <2> QED BY <2>1, <2>2
<1>4. Kept(S) \subseteq S
  BY DEF Kept
<1>5. \A d \in StackSupers(S) : \E e \in S : d.client = e.client
  BY <1>1, <1>2, <1>4
<1>6. \A e \in S : \E d \in StackSupers(S) : d.client = e.client
  BY <1>1, <1>2, <1>3, <1>4
<1> QED BY <1>5, <1>6

\* A ranking has the clients whose entries cover the day.
LEMMA RankedClients ==
  ASSUME NEW S, Told(S), NEW day
  PROVE  ClientsOf(RankActiveSelections(day, S)) = {e.client : e \in {f \in S : Covers(f, day)}}
<1> DEFINE A == {e \in S : Covers(e, day)}
           o == RankActiveSelections(day, S)
<1>1. Told(A) /\ Lists(o, StackSupers(A))
  BY RankedSelections
<1>2. Range(o) = StackSupers(A)
  <2> HIDE DEF o, A
  <2> QED BY <1>1 DEF Lists, Range
<1> HIDE DEF A, o
<1>3. ClientsOf(o) = {e.client : e \in A}
  BY <1>1, <1>2, ClientsStay DEF ClientsOf
<1> QED BY <1>3 DEF A, o

\* The board of a code answers for each client once: the base rates shown are those of
\* exactly the clients with no card and nothing to pick above them.
THEOREM BoardAnswersForAll == Spec => []BoardAccountsForClients
<1>1. ASSUME TablesOK, NEW day \in Days
      PROVE  LET n == Glance(day)
                 board == LookupByMCC(n)
                 above == {e.client : e \in {f \in Range(board.ranked) : f.friend = None}}
                            \cup ClientsOf(board.available)
                 base  == ClientsOf(RankActiveSelections(day, FallbackEntries(n)))
             IN  ClientsOf(board.base) = base \ above
  <2> DEFINE n == Glance(day)
             sh == n.seen[1]
             E == EntriesOf(n.own, sh)
             F == FallbackEntries(n)
             B == BoardSelected(n)
             mine == {EntryOf(r) : r \in {s \in OnBoard(n.own, n) : s.selected}}
  <2>1. NoteOK(n) /\ n.day = day
    BY <1>1, GlanceIsRead DEF Glance, Idle
  <2> HIDE DEF n
  <2>2. Told(E)
    BY <2>1, EntriesAreTold DEF NoteOK
  <2>3. F \subseteq E /\ B \subseteq E /\ mine \subseteq B /\ mine \subseteq E
    BY DEF FallbackEntries, Selected, EntriesOf, BoardSelected, OnBoard
  <2>4. \A r \in n.own : EntryOf(r).client = r.client /\ (Covers(r, day) => Covers(EntryOf(r), day))
    <3> TAKE r \in n.own
    <3>1. r \in MenuRow
      BY <2>1 DEF NoteOK, Table
    <3> QED BY <3>1, OwnEntry DEF EntryFrom, Covers
  <2>7. /\ Apart(E) /\ \A r \in n.own : EntryOf(r).friend = None
        /\ \A r \in sh.rows : FriendEntryOf(r, sh).friend # None
    BY <2>1, EntriesAreApart
  <2>8. \A e \in B : e.friend = None <=> e \in mine
    BY <2>7 DEF BoardSelected, OnBoard
  <2> DEFINE A == {e \in B : Covers(e, day)}
             ranked == RankActiveSelections(day, B)
  <2>9. Told(A) /\ Apart(A) /\ OwnOf(A) = mine /\ Told(mine)
    <3>1. \A e \in mine : Covers(e, day)
      BY <2>1, <2>4 DEF OnBoard
    <3>2. A \subseteq E
      BY <2>3
    <3> HIDE DEF E, mine, B
    <3> QED BY <2>2, <2>3, <2>7, <2>8, <3>1, <3>2, PartIsTold DEF Apart, OwnOf
  <2>10. {f \in Range(ranked) : f.friend = None} = StackSupers(mine)
    <3>1. Told(B)
      BY <2>2, <2>3, PartIsTold
    <3> HIDE DEF B, mine
    <3>2. Lists(ranked, StackSupers(A))
      BY <3>1, RankedSelections
    <3> HIDE DEF ranked, A
    <3>3. Range(ranked) = StackSupers(A)
      BY <3>2 DEF Lists, Range
    <3> QED BY <2>9, <3>3, StackedApart DEF OwnOf
  <2>11. {e.client : e \in {f \in Range(ranked) : f.friend = None}}
           = {r.client : r \in {s \in OnBoard(n.own, n) : s.selected}}
    <3>1. {d.client : d \in StackSupers(mine)} = {e.client : e \in mine}
      <4> HIDE DEF mine
      <4> QED BY <2>9, ClientsStay
    <3>2. {e.client : e \in mine} = {r.client : r \in {s \in OnBoard(n.own, n) : s.selected}}
      BY <2>4 DEF OnBoard
    <3> HIDE DEF mine, ranked
    <3> QED BY <2>10, <3>1, <3>2
  <2> DEFINE R == {s \in OnBoard(n.own, n) : s \in Offered(n.own, n.day) /\ Pickable(VerdictOf(s, n.own))}
             offered == BoardOffered(n, TRUE)
             avail == RankAvailable(offered)
  <2>12. ClientsOf(avail) = {r.client : r \in R}
    <3>1. offered = {AvailableOf(r, n.own) : r \in R}
      BY DEF BoardOffered, Pickable
    <3>2. R \in SUBSET n.own /\ Table(n.own)
      BY <2>1 DEF OnBoard, NoteOK
    <3> HIDE DEF R, offered
    <3>3. Told(offered) /\ \A r \in R : AvailableOf(r, n.own).client = r.client
      BY <3>1, <3>2, AvailableIsTold
    <3>4. Lists(avail, offered)
      BY <3>3, AvailableIsRanked
    <3> HIDE DEF avail
    <3>5. Range(avail) = offered
      BY <3>4 DEF Lists, Range
    <3> QED BY <3>1, <3>3, <3>5 DEF ClientsOf
  <2>13. {r.client : r \in {s \in OnBoard(n.own, n) : s.selected}} \cup {r.client : r \in R} = Covered(n)
    <3>1. \A r \in OnBoard(n.own, n) : Covers(r, n.day) /\ r \in n.own
      BY DEF OnBoard
    <3>2. \A r \in OnBoard(n.own, n) : r.selected \/ r \in R
             <=> r.selected \/ (r.kind # "special" /\ Pickable(VerdictOf(r, n.own)))
      BY <3>1 DEF Offered
    <3> HIDE DEF R
    <3>3. \A r \in R : r \in OnBoard(n.own, n)
      BY DEF R
    <3> QED BY <3>2, <3>3 DEF Covered
  <2> DEFINE G == {e \in F : e.client \notin Covered(n)}
  <2>14. ClientsOf(RankActiveSelections(day, F)) = {e.client : e \in {f \in F : Covers(f, day)}}
    <3>1. Told(F)
      BY <2>2, <2>3, PartIsTold
    <3> HIDE DEF F
    <3> QED BY <3>1, RankedClients
  <2>15. ClientsOf(RankActiveSelections(day, G)) = {e.client : e \in {f \in G : Covers(f, day)}}
    <3>1. Told(G)
      BY <2>2, <2>3, PartIsTold
    <3> HIDE DEF G
    <3> QED BY <3>1, RankedClients
  <2>16. LookupByMCC(n).ranked = ranked /\ LookupByMCC(n).available = avail
         /\ LookupByMCC(n).base = RankActiveSelections(day, G)
    BY <2>1 DEF LookupByMCC
  <2>17. {e.client : e \in {f \in G : Covers(f, day)}}
           = {e.client : e \in {f \in F : Covers(f, day)}} \ Covered(n)
    OBVIOUS
  <2> HIDE DEF F, ranked, avail, R
  <2>18. ClientsOf(LookupByMCC(n).base)
           = ClientsOf(RankActiveSelections(day, F))
               \ ({e.client : e \in {f \in Range(LookupByMCC(n).ranked) : f.friend = None}}
                    \cup ClientsOf(LookupByMCC(n).available))
    <3> HIDE DEF G
    <3> QED BY <2>11, <2>12, <2>13, <2>14, <2>15, <2>16, <2>17
  <2> QED BY <2>18 DEF n, F
<1>2. TablesOK => BoardAccountsForClients
  BY <1>1 DEF BoardAccountsForClients
<1> QED BY <1>2, TablesInit, TablesStep, PTL DEF Spec

(********************************** partners *******************************)

\* what one statement answers of the partner offers
Deals(P) ==
  /\ IsFiniteSet(P) /\ P \subseteq PartnerRow
  /\ \A q \in P : \E p \in PartnerOffers : q.id = p.id
  /\ \A q, r \in P : q.id = r.id => q = r

LEMMA PartnerEntry ==
  ASSUME NEW p \in PartnerRow
  PROVE  /\ PartnerEntryOf(p) \in Entry /\ PartnerEntryOf(p).id = p.id
         /\ PartnerEntryOf(p).friend = None
<1> DEFINE e == EntryOf(p)
           a == IF p.from = None THEN 0 ELSE p.from
           b == IF p.to = None THEN LastDay ELSE p.to
           d == [e EXCEPT !.from = a, !.to = b]
           Raw == [id : Nat, client : Nat, bank : Nat, label : Nat, title : Nat,
                   cat : {None} \cup Nat, percent : {None} \cup Int,
                   currency : {"rub", "points", "unknown"},
                   kind : {"regular", "special", "super", "partner"},
                   from : {None} \cup Nat, to : {None} \cup Nat,
                   cap : {None} \cup Nat, friend : {None} \cup Others,
                   regular : {None} \cup Int, super : {None} \cup Int,
                   verdict : {None, "free", "paid", "locked", "slots_full", "unknown"}]
<1>1. a \in Nat /\ b \in Nat
  BY RankingAssumption DEF PartnerRow
<1>2. PartnerEntryOf(p) = d
  BY DEF PartnerEntryOf, PartnerPeriod
<1>3. e \in Raw /\ e.id = p.id /\ e.friend = None
  <2>1. /\ p.id \in Nat /\ p.client \in Nat /\ p.bank \in Nat /\ p.label \in Nat /\ p.title \in Nat
        /\ p.cat \in {None} \cup Nat /\ p.percent \in {None} \cup Int /\ p.cap \in {None} \cup Nat
        /\ p.kind = "partner" /\ p.currency \in {"rub", "points", "unknown"}
        /\ p.from \in {None} \cup Nat /\ p.to \in {None} \cup Nat
    BY DEF PartnerRow
  <2> QED BY <2>1 DEF EntryOf
<1> HIDE DEF a, b, e
<1>4. d \in Entry /\ d.id = p.id /\ d.friend = None
  BY <1>1, <1>3 DEF Entry
<1> QED BY <1>2, <1>4

DealEntries(P) == {PartnerEntryOf(p) : p \in P}

LEMMA DealsAreTold ==
  ASSUME NEW P, Deals(P)
  PROVE  Told(DealEntries(P))
<1>1. \A p \in P : /\ PartnerEntryOf(p) \in Entry /\ PartnerEntryOf(p).id = p.id
  BY PartnerEntry DEF Deals
<1>2. IsFiniteSet(DealEntries(P))
  <2> DEFINE f == [p \in P |-> PartnerEntryOf(p)]
  <2>1. DealEntries(P) = {f[p] : p \in P} /\ DOMAIN f = P /\ IsFiniteSet(P)
    BY DEF Deals, DealEntries
  <2> HIDE DEF f
  <2> QED BY <2>1, ImageIsFinite
<1> QED BY <1>1, <1>2 DEF Told, Deals, DealEntries

LEMMA PartnersAreDeals == Deals(ListPartnerOffersForUser)
<1> DEFINE row(p) == [p EXCEPT !.ended = p.id \in ended]
           P == {row(p) : p \in PartnerOffers}
<1>1. \A p \in PartnerOffers : row(p) \in PartnerRow /\ row(p).id = p.id
  <2> TAKE p \in PartnerOffers
  <2> DEFINE b == p.id \in ended
  <2>1. b \in BOOLEAN /\ p \in PartnerRow
    BY PartnersAssumption
  <2> HIDE DEF b
  <2>2. [p EXCEPT !.ended = b] \in PartnerRow /\ [p EXCEPT !.ended = b].id = p.id
    BY <2>1 DEF PartnerRow
  <2> QED BY <2>2 DEF b
<1>2. IsFiniteSet(P)
  <2> DEFINE f == [p \in PartnerOffers |-> row(p)]
  <2>1. P = {f[p] : p \in PartnerOffers} /\ DOMAIN f = PartnerOffers /\ IsFiniteSet(PartnerOffers)
    BY PartnersAssumption
  <2> HIDE DEF f
  <2> QED BY <2>1, ImageIsFinite
<1> HIDE DEF row
<1>3. P \subseteq PartnerRow /\ \A q \in P : \E p \in PartnerOffers : q.id = p.id
  BY <1>1
<1>4. \A q, r \in P : q.id = r.id => q = r
  BY <1>1, PartnersAssumption
<1> QED BY <1>2, <1>3, <1>4 DEF Deals, ListPartnerOffersForUser, row

LEMMA JoinedIsTold ==
  ASSUME NEW S, Told(S), NEW T, Told(T), \A e \in S, f \in T : e.id # f.id
  PROVE  Told(S \cup T)
<1>1. IsFiniteSet(S \cup T)
  BY FS_Union DEF Told
<1> QED BY <1>1 DEF Told

CardsOf(S) == {e \in S : e.kind # "partner"}

\* what a lookup ranks
LookedUp(n, c) ==
  Selected(n.own, {c}) \cup OfCategory(FriendEntriesByCategory(n), c)
    \cup OfCategory({PartnerEntryOf(p) : p \in Alive(n)}, c)

\* A lookup ranks the viewer's cards, friends' and partner offers, told apart by ids.
LEMMA LookedUpIsTold ==
  ASSUME NEW n, NoteOK(n), Deals(n.partners), NEW c
  PROVE  LET U == LookedUp(n, c)
             P == OfCategory({PartnerEntryOf(p) : p \in Alive(n)}, c)
         IN  /\ Told(U) /\ Apart(U) /\ \A e \in P : e.friend = None
             /\ OwnOf(U) = Selected(n.own, {c}) \cup P
             /\ CardsOf(U) = Selected(n.own, {c}) \cup OfCategory(FriendEntriesByCategory(n), c)
<1> DEFINE E == EntriesOf(n.own, n.seen[1])
           D == DealEntries(n.partners)
           U == LookedUp(n, c)
           P == OfCategory({PartnerEntryOf(p) : p \in Alive(n)}, c)
           mine == Selected(n.own, {c})
           theirs == OfCategory(FriendEntriesByCategory(n), c)
<1>1. Told(E) /\ Told(D) /\ Apart(E)
  BY EntriesAreTold, EntriesAreApart, DealsAreTold DEF NoteOK
<1>2. \A e \in D : e.kind = "partner" /\ e.friend = None /\ \E p \in n.partners : e.id = p.id
  <2> SUFFICES ASSUME NEW p \in n.partners
               PROVE  /\ PartnerEntryOf(p).id = p.id /\ PartnerEntryOf(p).kind = "partner"
                      /\ PartnerEntryOf(p).friend = None
    BY DEF DealEntries
  <2>1. p \in PartnerRow
    BY DEF Deals
  <2> QED BY <2>1, PartnerEntry DEF PartnerEntryOf, EntryOf, PartnerRow
<1>3. \A e \in E : e.kind # "partner" /\ \E o \in Offers : e.id = o.id
  <2>1. ASSUME NEW r \in n.own PROVE EntryOf(r).kind # "partner" /\ \E o \in Offers : EntryOf(r).id = o.id
    <3>1. r \in MenuRow /\ \E o \in Offers : RowOf(r, o)
      BY DEF NoteOK, Table
    <3> QED BY <3>1 DEF RowOf, EntryOf, MenuRow
  <2>2. ASSUME NEW r \in n.seen[1].rows
        PROVE  /\ FriendEntryOf(r, n.seen[1]).kind # "partner"
               /\ \E o \in Offers : FriendEntryOf(r, n.seen[1]).id = o.id
    <3>1. r \in MenuRow /\ \E o \in Offers : RowOf(r, o)
      BY DEF NoteOK, Table, SharedOK
    <3> QED BY <3>1 DEF RowOf, FriendEntryOf, EntryOf, MenuRow
  <2> QED BY <2>1, <2>2 DEF EntriesOf
<1>4. \A e \in E, d \in D : e.id # d.id
  BY <1>2, <1>3, PartnersAssumption DEF Deals
<1>5. U = mine \cup theirs \cup P /\ mine \subseteq E /\ theirs \subseteq E /\ P \subseteq D
  BY DEF LookedUp, Selected, OfCategory, FriendEntriesByCategory, EntriesOf, DealEntries, Alive
<1>6. (\A e \in mine : e.friend = None) /\ (\A e \in theirs : e.friend # None)
  BY EntriesAreApart DEF Selected, OfCategory, FriendEntriesByCategory
<1> HIDE DEF E, D, U, P, mine, theirs
<1>7. Told(U)
  <2>1. Told(E \cup D)
    BY <1>1, <1>4, JoinedIsTold
  <2> QED BY <1>5, <2>1, PartIsTold
<1>8. Apart(U)
  BY <1>1, <1>2, <1>5 DEF Apart
<1>9. \A e \in P : e.friend = None
  BY <1>2, <1>5
<1>10. OwnOf(U) = mine \cup P
  BY <1>5, <1>6, <1>9 DEF OwnOf
<1>11. CardsOf(U) = mine \cup theirs
  BY <1>2, <1>3, <1>5 DEF CardsOf
<1> QED BY <1>7, <1>8, <1>9, <1>10, <1>11 DEF U, P, mine, theirs

(********************************* the request *****************************)

Has(s, x) == \E i \in DOMAIN s : s[i] = x

Statements == {"own", "period", "friends", "shares", "rows", "partners"}

Seen == [grants : SUBSET Shareable, rows : SUBSET MenuRow, now : {None} \cup Days]

Note ==
  [op : {None, "overview", "lookup", "board", "browse", "helper"},
   cat : {None} \cup Categories \cup Nat, day : {None} \cup Days, now : {None} \cup Days,
   todo : Seq(Statements), own : SUBSET MenuRow, menu : SUBSET MenuRow, names : SUBSET Others,
   grants : SUBSET Shareable, seen : Seq(Seen), partners : SUBSET PartnerRow,
   began : {None} \cup Days, ever : SUBSET Shareable, steady : SUBSET Shareable,
   moved : SUBSET Nat]

\* a picture taken while the request was made, of what was granted then
TakenSince(p, began, ever, day) ==
  SharedOK(p) /\ p.grants \subseteq ever /\ p.now \in Days /\ began <= p.now /\ p.now <= day

Under ==
  ask.op # None =>
    /\ ask.began \in Days /\ ask.now \in Days /\ ask.began <= ask.now /\ ask.now <= today
    /\ ask.todo # <<>> => given \subseteq ask.ever
    /\ ask.grants \subseteq ask.ever
    /\ Table(ask.own) /\ \A r \in ask.own : r.user = Viewer
    /\ Deals(ask.partners)
    /\ \A i \in DOMAIN ask.seen : TakenSince(ask.seen[i], ask.began, ask.ever, today)
    /\ ask.op \in {"overview", "lookup", "board", "browse"} /\ ask.seen = <<>>
         => Has(ask.todo, "rows")

Asking == TablesOK /\ ask \in Note /\ Under

LEMMA IdleIsNote == Idle \in Note /\ Idle.op = None
BY DEF Idle, Note

LEMMA AskingInit == ASSUME Init PROVE Asking
<1>1. ask = Idle
  BY DEF Init
<1> QED BY <1>1, TablesInit, IdleIsNote DEF Asking, Under

LEMMA JoinHas ==
  ASSUME NEW s \in Seq(Statements), NEW t \in Seq(Statements)
  PROVE  s \o t \in Seq(Statements) /\ \A x : Has(s, x) \/ Has(t, x) => Has(s \o t, x)
<1>1. /\ s \o t \in Seq(Statements) /\ Len(s \o t) = Len(s) + Len(t)
      /\ \A i \in 1..Len(s) : (s \o t)[i] = s[i]
      /\ \A i \in 1..Len(t) : (s \o t)[Len(s) + i] = t[i]
  OBVIOUS
<1>2. DOMAIN s = 1..Len(s) /\ DOMAIN t = 1..Len(t) /\ DOMAIN (s \o t) = 1..(Len(s) + Len(t))
      /\ Len(s) \in Nat /\ Len(t) \in Nat
  BY <1>1
<1>3. \A i \in 1..Len(s) : i \in DOMAIN (s \o t)
  BY <1>2
<1>4. \A i \in 1..Len(t) : Len(s) + i \in DOMAIN (s \o t)
  BY <1>2
<1> QED BY <1>1, <1>2, <1>3, <1>4 DEF Has

\* Screens with friends' rows read them at least once.
LEMMA ReadsAre ==
  ASSUME NEW op \in {"overview", "lookup", "board", "browse", "helper"}
  PROVE  /\ Reads(op) \in Seq(Statements)
         /\ op \in {"overview", "lookup", "board", "browse"} => Has(Reads(op), "rows")
<1>0. {"own", "period", "friends", "shares", "rows", "partners"} \subseteq Statements
  BY DEF Statements
<1>1. Shared \in Seq(Statements) /\ Has(Shared, "rows")
  <2>1. ASSUME NEW S, NEW x \in S, NEW y \in S, NEW z \in S
        PROVE  <<x, y, z>> \in Seq(S) /\ <<x, y, z>>[3] = z /\ 3 \in DOMAIN <<x, y, z>>
    OBVIOUS
  <2>2. <<"friends", "shares", "rows">> \in Seq(Statements) /\ Has(<<"friends", "shares", "rows">>, "rows")
    BY <1>0, <2>1 DEF Has
  <2> QED BY <2>2 DEF Shared
<1>2. <<"own">> \in Seq(Statements) /\ <<"partners">> \in Seq(Statements) /\ <<"period", "own">> \in Seq(Statements)
  <2>1. ASSUME NEW S, NEW x \in S, NEW y \in S PROVE <<x>> \in Seq(S) /\ <<x, y>> \in Seq(S)
    OBVIOUS
  <2> QED BY <1>0, <2>1
<1>3. <<"own">> \o Shared \in Seq(Statements) /\ Has(<<"own">> \o Shared, "rows")
  BY <1>1, <1>2, JoinHas
<1>4. CASE op = "overview"
  <2> DEFINE s == (<<"own">> \o Shared) \o Shared
  <2>1. s \in Seq(Statements) /\ Has(s, "rows")
    BY <1>1, <1>3, JoinHas
  <2>2. Reads(op) = s \o <<"partners">>
    BY <1>4 DEF Reads
  <2> HIDE DEF s
  <2> QED BY <1>2, <2>1, <2>2, JoinHas
<1>5. CASE op = "lookup"
  <2> DEFINE s == (<<"own">> \o Shared) \o <<"partners">>
  <2>1. s \in Seq(Statements) /\ Has(s, "rows")
    BY <1>2, <1>3, JoinHas
  <2>2. Reads(op) = s \o Shared
    BY <1>5 DEF Reads
  <2> HIDE DEF s
  <2> QED BY <1>1, <2>1, <2>2, JoinHas
<1>6. CASE op = "board"
  BY <1>3, <1>6 DEF Reads
<1>7. CASE op = "browse"
  BY <1>1, <1>7 DEF Reads
<1>8. CASE op = "helper"
  BY <1>2, <1>8 DEF Reads
<1> QED BY <1>4, <1>5, <1>6, <1>7, <1>8

LEMMA NoneRead ==
  Table({}) /\ Deals({})
BY FS_EmptySet DEF Table, Deals

LEMMA AskStep ==
  ASSUME Asking, NEW op \in {"overview", "lookup", "board", "browse", "helper"},
         NEW cat \in {None} \cup Categories \cup Nat, NEW day \in {None} \cup Days, Ask(op, cat, day)
  PROVE  Asking'
<1> DEFINE n == [Idle EXCEPT !.op = op, !.cat = cat, !.day = day, !.now = today,
                             !.todo = Reads(op), !.began = today, !.ever = given,
                             !.steady = given]
<1>1. ask' = n /\ UNCHANGED tables
  BY DEF Ask
<1>2. today \in Days /\ given \subseteq Shareable
  BY DEF Asking, TablesOK
<1>3. Reads(op) \in Seq(Statements)
         /\ (op \in {"overview", "lookup", "board", "browse"} => Has(Reads(op), "rows"))
  BY ReadsAre
<1>8. Idle \in Note /\ Idle.own = {} /\ Idle.grants = {} /\ Idle.partners = {} /\ Idle.seen = <<>>
  BY IdleIsNote DEF Idle
<1>4. n \in Note /\ n.op = op /\ n.began = today /\ n.now = today /\ n.todo = Reads(op) /\ n.grants = {}
      /\ n.own = {} /\ n.partners = {} /\ n.seen = <<>> /\ n.ever = given
  BY <1>2, <1>3, <1>8 DEF Note
<1> HIDE DEF n
<1>5. TablesOK'
  BY <1>1 DEF tables, Asking, TablesOK
<1>6. today <= today /\ today \in Nat
  BY <1>2, DaysAssumption
<1>7. ask' \in Note /\ Under'
  BY <1>1, <1>2, <1>3, <1>4, <1>6, NoneRead DEF tables, Under
<1> QED BY <1>5, <1>7 DEF Asking

LEMMA OwnIsTable ==
  Table(ListUserOffers) /\ \A r \in ListUserOffers : r.user = Viewer
<1>1. OwnRows \in SUBSET Offers /\ ListUserOffers = {Row(x) : x \in OwnRows}
  BY DEF OwnRows, ListUserOffers
<1>2. \A o \in OwnRows : Row(o).user = Viewer
  BY RowIs DEF OwnRows
<1> QED BY <1>1, <1>2, ReadIsTable

\* a read takes the next name off the list
LEMMA NextRead ==
  ASSUME NEW todo \in Seq(Statements), todo # <<>>
  PROVE  /\ Tail(todo) \in Seq(Statements)
         /\ \A x : x # todo[1] /\ Has(todo, x) => Has(Tail(todo), x)
<1>1. Tail(todo) \in Seq(Statements) /\ Len(Tail(todo)) = Len(todo) - 1
      /\ \A i \in 1..Len(Tail(todo)) : Tail(todo)[i] = todo[i + 1]
  OBVIOUS
<1>2. ASSUME NEW x, x # todo[1], NEW i \in DOMAIN todo, todo[i] = x
      PROVE  Has(Tail(todo), x)
  <2>1. i \in 1..Len(todo) /\ i # 1 /\ Len(todo) \in Nat
    BY <1>2
  <2>2. i - 1 \in 1..Len(Tail(todo)) /\ (i - 1) + 1 = i
    BY <1>1, <2>1
  <2>3. i - 1 \in DOMAIN Tail(todo)
    BY <1>1, <2>2
  <2> QED BY <1>1, <1>2, <2>2, <2>3 DEF Has
<1> QED BY <1>1, <1>2 DEF Has

LEMMA ReadStep ==
  ASSUME Asking, ReadOwn \/ ReadPeriod \/ ReadPartners \/ ReadFriends \/ ReadShares
  PROVE  Asking'
<1> DEFINE t == Tail(ask.todo)
<1>1. UNCHANGED tables
  BY DEF ReadOwn, ReadPeriod, ReadPartners, ReadFriends, ReadShares
<1>2. TablesOK' /\ today \in Days /\ ask \in Note /\ Under
  BY <1>1 DEF tables, Asking, TablesOK
<1>3. /\ t \in Seq(Statements)
      /\ Has(ask.todo, "rows") => Has(t, "rows")
      /\ ask.todo # <<>>
  <2>1. ask.todo \in Seq(Statements) /\ ask.todo # <<>> /\ ask.todo[1] # "rows"
    BY <1>2 DEF Note, ReadOwn, ReadPeriod, ReadPartners, ReadFriends, ReadShares, Reading
  <2> QED BY <2>1, NextRead
<1> HIDE DEF t
<1>4. CASE ReadOwn
  <2>1. PICK own : own = ListUserOffers
    OBVIOUS
  <2>2. Table(own) /\ \A r \in own : r.user = Viewer
    BY <2>1, OwnIsTable
  <2> DEFINE n == [ask EXCEPT !.own = own, !.todo = t]
  <2>3. ask' = n
    BY <1>4, <2>1 DEF ReadOwn, t
  <2>4. n \in Note
    BY <1>2, <1>3, <2>2 DEF Note, Table
  <2>5. n.op = ask.op /\ n.began = ask.began /\ n.now = ask.now /\ n.todo = t /\ n.grants = ask.grants
        /\ n.own = own /\ n.partners = ask.partners /\ n.seen = ask.seen /\ n.ever = ask.ever
    BY <1>2 DEF Note
  <2> HIDE DEF n
  <2>6. Under'
    BY <1>1, <1>2, <1>3, <2>2, <2>3, <2>5 DEF tables, Under, TakenSince
  <2> QED BY <1>2, <2>3, <2>4, <2>6 DEF Asking
<1>5. CASE ReadPeriod
  <2>1. PICK m : m = ListOffersForPeriod(ask.cat)
    OBVIOUS
  <2>2. m \subseteq MenuRow
    BY <2>1, RowIs DEF ListOffersForPeriod
  <2> DEFINE n == [ask EXCEPT !.menu = m, !.todo = t]
  <2>3. ask' = n
    BY <1>5, <2>1 DEF ReadPeriod, t
  <2>4. n \in Note
    BY <1>2, <1>3, <2>2 DEF Note
  <2>5. n.op = ask.op /\ n.began = ask.began /\ n.now = ask.now /\ n.todo = t /\ n.grants = ask.grants
        /\ n.own = ask.own /\ n.partners = ask.partners /\ n.seen = ask.seen /\ n.ever = ask.ever
    BY <1>2 DEF Note
  <2> HIDE DEF n
  <2>6. Under'
    BY <1>1, <1>2, <1>3, <2>3, <2>5 DEF tables, Under, TakenSince
  <2> QED BY <1>2, <2>3, <2>4, <2>6 DEF Asking
<1>6. CASE ReadPartners
  <2>1. PICK m : m = ListPartnerOffersForUser
    OBVIOUS
  <2>2. Deals(m)
    BY <2>1, PartnersAreDeals
  <2> DEFINE n == [ask EXCEPT !.partners = m, !.now = today, !.todo = t]
  <2>3. ask' = n
    BY <1>6, <2>1 DEF ReadPartners, t
  <2>4. n \in Note
    BY <1>2, <1>3, <2>2 DEF Note, Deals
  <2>5. n.op = ask.op /\ n.began = ask.began /\ n.now = today /\ n.todo = t /\ n.grants = ask.grants
        /\ n.own = ask.own /\ n.partners = m /\ n.seen = ask.seen /\ n.ever = ask.ever
    BY <1>2 DEF Note
  <2> HIDE DEF n
  <2>6. ask.op # None => ask.began <= today /\ today <= today
    BY <1>2, DaysAssumption DEF Under
  <2>7. Under'
    BY <1>1, <1>2, <1>3, <2>2, <2>3, <2>5, <2>6 DEF tables, Under, TakenSince
  <2> QED BY <1>2, <2>3, <2>4, <2>7 DEF Asking
<1>7. CASE ReadFriends
  <2>1. friends \subseteq Others
    BY DEF Asking, TablesOK
  <2> DEFINE n == [ask EXCEPT !.names = friends, !.todo = t]
  <2>3. ask' = n
    BY <1>7 DEF ReadFriends, ListFriendsForUser, t
  <2>4. n \in Note
    BY <1>2, <1>3, <2>1 DEF Note
  <2>5. n.op = ask.op /\ n.began = ask.began /\ n.now = ask.now /\ n.todo = t /\ n.grants = ask.grants
        /\ n.own = ask.own /\ n.partners = ask.partners /\ n.seen = ask.seen /\ n.ever = ask.ever
    BY <1>2 DEF Note
  <2> HIDE DEF n
  <2>6. Under'
    BY <1>1, <1>2, <1>3, <2>3, <2>5 DEF tables, Under, TakenSince
  <2> QED BY <1>2, <2>3, <2>4, <2>6 DEF Asking
<1>8. CASE ReadShares
  <2>1. PICK g : g = {s \in ListSharedWithViewer : s.friend \in ask.names}
    OBVIOUS
  <2>2. g \subseteq Shareable /\ g \subseteq given
    BY <2>1 DEF ListSharedWithViewer, Asking, TablesOK
  <2> DEFINE n == [ask EXCEPT !.grants = g, !.todo = t]
  <2>3. ask' = n
    BY <1>8, <2>1 DEF ReadShares, t
  <2>4. n \in Note
    BY <1>2, <1>3, <2>2 DEF Note
  <2>5. n.op = ask.op /\ n.began = ask.began /\ n.now = ask.now /\ n.todo = t /\ n.grants = g
        /\ n.own = ask.own /\ n.partners = ask.partners /\ n.seen = ask.seen /\ n.ever = ask.ever
    BY <1>2 DEF Note
  <2> HIDE DEF n
  <2>6. Under'
    BY <1>1, <1>2, <1>3, <2>2, <2>3, <2>5 DEF tables, Under, TakenSince
  <2> QED BY <1>2, <2>3, <2>4, <2>6 DEF Asking
<1> QED BY <1>4, <1>5, <1>6, <1>7, <1>8

\* a picture is taken of what is granted at the time
LEMMA RowsStep ==
  ASSUME Asking, ReadRows
  PROVE  Asking'
<1> DEFINE t == Tail(ask.todo)
           C == {s.client : s \in ask.grants}
           rows == ListOffersForClients(C)
           now == IF ask.op = "browse" THEN ask.now ELSE today
<1>1. UNCHANGED tables /\ ask.todo # <<>>
  BY DEF ReadRows, Reading
<1>2. TablesOK' /\ today \in Days /\ ask \in Note /\ Under
  BY <1>1 DEF tables, Asking, TablesOK
<1>3. t \in Seq(Statements)
  BY <1>1, <1>2, NextRead DEF Note
<1>4. Table(rows) /\ \A r \in rows : r.client \in C
  <2>1. RowsOf(C) \in SUBSET Offers /\ rows = {Row(x) : x \in RowsOf(C)}
    BY DEF RowsOf, ListOffersForClients
  <2>2. \A o \in RowsOf(C) : Row(o).client \in C
    BY RowIs DEF RowsOf
  <2> QED BY <2>1, <2>2, ReadIsTable
<1>5. PICK p : p = [grants |-> ask.grants, rows |-> rows, now |-> now]
  OBVIOUS
<1>6. SharedOK(p)
  <2>1. ask.grants \subseteq Shareable
    BY <1>2 DEF Note
  <2> HIDE DEF rows
  <2> QED BY <1>4, <1>5, <2>1 DEF SharedOK
<1> DEFINE n == [ask EXCEPT !.seen = Append(ask.seen, p), !.todo = t]
<1>7. ask' = n
  BY <1>5 DEF ReadRows
<1>10. p \in Seen /\ Append(ask.seen, p) \in Seq(Seen)
  <2>1. now \in {None} \cup Days
    BY <1>2 DEF Note
  <2>2. ask.seen \in Seq(Seen) /\ ask.grants \in SUBSET Shareable
    BY <1>2 DEF Note
  <2>3. rows \subseteq MenuRow
    BY <1>4 DEF Table
  <2> HIDE DEF now, rows
  <2>4. p \in Seen
    BY <1>5, <2>1, <2>2, <2>3 DEF Seen
  <2> QED BY <2>2, <2>4
<1> HIDE DEF t, rows, now, C
<1>8. CASE ask.op = None
  <2>3. n \in Note /\ n.op = None
    BY <1>2, <1>3, <1>8, <1>10 DEF Note
  <2> QED BY <1>2, <1>7, <2>3 DEF Asking, Under
<1>9. CASE ask.op # None
  <2>1. now \in Days /\ ask.began <= now /\ now <= today
    <3>1. ask.began \in Days /\ ask.now \in Days /\ ask.began <= ask.now /\ ask.now <= today
      BY <1>2, <1>9 DEF Under
    <3>2. \A x \in Days : x \in Int
      BY DaysAssumption
    <3>3. ask.began <= today /\ today <= today
      BY <1>2, <3>1, <3>2
    <3> QED BY <1>2, <3>1, <3>3 DEF now
  <2>2. p \in Seen
    BY <1>10
  <2>3. n \in Note
    BY <1>2, <1>3, <1>10 DEF Note
  <2>4. n.op = ask.op /\ n.began = ask.began /\ n.now = ask.now /\ n.todo = t /\ n.grants = ask.grants
        /\ n.own = ask.own /\ n.partners = ask.partners /\ n.seen = Append(ask.seen, p) /\ n.ever = ask.ever
    BY <1>2 DEF Note
  <2>5. TakenSince(p, ask.began, ask.ever, today)
    BY <1>2, <1>5, <1>6, <1>9, <2>1 DEF TakenSince, Under
  <2>6. ask.seen \in Seq(Seen)
    BY <1>2 DEF Note
  <2>7. /\ Append(ask.seen, p) # <<>>
        /\ \A i \in DOMAIN Append(ask.seen, p) : TakenSince(Append(ask.seen, p)[i], ask.began, ask.ever, today)
    <3>1. \A i \in DOMAIN ask.seen : TakenSince(ask.seen[i], ask.began, ask.ever, today)
      BY <1>2, <1>9 DEF Under
    <3> HIDE DEF n
    <3> QED BY <2>2, <2>5, <2>6, <3>1
  <2> HIDE DEF n
  <2>8. Under'
    BY <1>1, <1>2, <1>7, <2>4, <2>7 DEF tables, Under, TakenSince
  <2> QED BY <1>2, <1>7, <2>3, <2>8 DEF Asking
<1> QED BY <1>8, <1>9

\* A step of the others leaves the request what it has read.
LEMMA NoticeStep ==
  ASSUME Asking, TablesOK', today <= today', NEW rows \in SUBSET Nat, Noticing(rows)
  PROVE  Asking'
<1>1. ask \in Note /\ Under /\ today \in Days /\ today' \in Days /\ given' \subseteq Shareable
  BY DEF Asking, TablesOK
<1>2. \A x \in Days : x \in Int
  BY DaysAssumption
<1>3. ASSUME NEW p, NEW began, NEW ever, TakenSince(p, began, ever, today), NEW more
      PROVE  TakenSince(p, began, ever, today') /\ TakenSince(p, began, ever \cup more, today')
  <2>1. p.now <= today'
    BY <1>1, <1>2, <1>3 DEF TakenSince
  <2> QED BY <1>3, <2>1 DEF TakenSince
<1>4. ask.op # None =>
        /\ ask.began \in Days /\ ask.now \in Days /\ ask.began <= ask.now /\ ask.now <= today'
        /\ ask.grants \subseteq ask.ever
        /\ Table(ask.own) /\ \A r \in ask.own : r.user = Viewer
        /\ Deals(ask.partners)
        /\ \A i \in DOMAIN ask.seen : TakenSince(ask.seen[i], ask.began, ask.ever, today)
        /\ ask.op \in {"overview", "lookup", "board", "browse"} /\ ask.seen = <<>> => Has(ask.todo, "rows")
  <2>1. ask.op # None => ask.now \in Days /\ ask.now <= today
    BY <1>1 DEF Under
  <2>2. ask.op # None => ask.now <= today'
    BY <1>1, <1>2, <2>1
  <2> QED BY <1>1, <2>2 DEF Under
<1>5. CASE ask = Idle \/ Answered
  <2>1. ask' = ask /\ (ask.op = None \/ ask.todo = <<>>)
    BY <1>5, IdleIsNote DEF Noticing, Answered
  <2>2. ask.op # None => \A i \in DOMAIN ask.seen : TakenSince(ask.seen[i], ask.began, ask.ever, today')
    BY <1>3, <1>4
  <2>3. Under'
    BY <1>4, <2>1, <2>2 DEF Under
  <2> QED BY <1>1, <2>1, <2>3 DEF Asking
<1>6. CASE ~ (ask = Idle \/ Answered)
  <2>1. PICK g : g = given'
    OBVIOUS
  <2> DEFINE n == [ask EXCEPT !.ever = ask.ever \cup g, !.steady = ask.steady \cap g,
                              !.moved = ask.moved \cup rows]
  <2>2. ask' = n
    BY <1>6, <2>1 DEF Noticing
  <2>3. n \in Note
    BY <1>1, <2>1 DEF Note
  <2>4. n.op = ask.op /\ n.began = ask.began /\ n.now = ask.now /\ n.todo = ask.todo /\ n.grants = ask.grants
        /\ n.own = ask.own /\ n.partners = ask.partners /\ n.seen = ask.seen /\ n.ever = ask.ever \cup g
    BY <1>1 DEF Note
  <2> HIDE DEF n
  <2>5. ask.op # None => \A i \in DOMAIN ask.seen : TakenSince(ask.seen[i], ask.began, ask.ever \cup g, today')
    BY <1>3, <1>4
  <2>6. Under'
    BY <1>4, <2>1, <2>2, <2>4, <2>5 DEF Under
  <2> QED BY <2>2, <2>3, <2>6 DEF Asking
<1> QED BY <1>5, <1>6

LEMMA WriteStep ==
  ASSUME Asking, Write
  PROVE  Asking'
<1>1. TablesOK'
  BY TablesStep DEF Asking, Next
<1>2. today <= today' /\ \E rows \in SUBSET Nat : Noticing(rows)
  <2>0. today \in Int /\ \A o \in Offers : {o.id} \subseteq Nat
    BY DaysAssumption, OffersAssumption DEF Asking, TablesOK, MenuRow
  <2>1. CASE \E o \in Offers : EnterRow(o) \/ DeleteRow(o) \/ Pick(o) \/ Unpick(o)
    <3>1. PICK o \in Offers : EnterRow(o) \/ DeleteRow(o) \/ Pick(o) \/ Unpick(o)
      BY <2>1
    <3>2. today' = today /\ Noticing({o.id})
      BY <3>1 DEF EnterRow, DeleteRow, Pick, Unpick
    <3> QED BY <2>0, <3>2
  <2>2. CASE Midnight
    <3>1. today' = today + 1 /\ Noticing({})
      BY <2>2 DEF Midnight
    <3> QED BY <2>0, <3>1
  <2>3. CASE \/ \E p \in PartnerOffers : EndOrReopen(p)
             \/ \E s \in Shareable : Grant(s) \/ Revoke(s)
             \/ \E u \in Others : Befriend(u) \/ Unfriend(u)
    <3>1. today' = today /\ Noticing({})
      BY <2>3 DEF EndOrReopen, Grant, Revoke, Befriend, Unfriend
    <3> QED BY <2>0, <3>1
  <2> QED BY <2>1, <2>2, <2>3 DEF Write
<1> QED BY <1>1, <1>2, NoticeStep

LEMMA AskingStep ==
  ASSUME Asking, [Next]_vars
  PROVE  Asking'
<1>1. CASE UNCHANGED vars
  BY <1>1 DEF vars, tables, Asking, Under, TablesOK
<1>2. CASE Request
  <2>1. CASE \E day \in Days : \/ "overview" \in Ops /\ AskOverview(day)
                               \/ "board" \in Ops /\ AskBoard(day)
                               \/ "lookup" \in Ops /\ \E c \in Categories : AskLookup(c, day)
    <3>1. PICK day \in Days : \/ Ask("overview", None, day) \/ Ask("board", None, day)
                              \/ \E c \in Categories : Ask("lookup", c, day)
      BY <2>1 DEF AskOverview, AskBoard, AskLookup
    <3> QED BY <3>1, AskStep
  <2>2. CASE "browse" \in Ops /\ AskFriends
    BY <2>2, AskStep DEF AskFriends
  <2>3. CASE "helper" \in Ops /\ \E p \in Periods : AskHelper(p.id)
    BY <2>3, AskStep, PeriodsAssumption DEF AskHelper
  <2>4. CASE ReadOwn \/ ReadPeriod \/ ReadPartners \/ ReadFriends \/ ReadShares
    BY <2>4, ReadStep
  <2>5. CASE ReadRows
    BY <2>5, RowsStep
  <2>6. CASE Close
    BY <2>6, IdleIsNote DEF Close, tables, Asking, Under, TablesOK
  <2> QED BY <1>2, <2>1, <2>2, <2>3, <2>4, <2>5, <2>6 DEF Request
<1>3. CASE Write
  BY <1>3, WriteStep
<1> QED BY <1>1, <1>2, <1>3 DEF Next

(****************************** what is shown ******************************)

\* a friend's entry as one picture allows it
Fits(e, p) ==
  /\ e \in Entry /\ e.friend # None /\ e.cap = None
  /\ [client |-> e.client, friend |-> e.friend] \in p.grants
  /\ Overlaps(e, FriendShareWindow(p.now))

\* The shared window ends no earlier on a later day.
LEMMA LaterWindow ==
  ASSUME NEW a \in Nat, NEW b \in Nat, a <= b
  PROVE  /\ FriendShareWindow(a).to <= FriendShareWindow(b).to
         /\ FriendShareWindow(a).from = a /\ FriendShareWindow(a).to \in Int
<1> DEFINE M == MonthDays
<1>0. M \in Nat \ {0}
  BY RankingAssumption
<1> HIDE DEF M
<1>1. /\ a \div M \in Nat /\ a = M * (a \div M) + (a % M) /\ a % M \in 0..(M - 1)
      /\ b \div M \in Nat /\ b = M * (b \div M) + (b % M) /\ b % M \in 0..(M - 1)
  BY <1>0
<1>2. ASSUME NEW x \in Nat, NEW y \in Nat, x > y PROVE M * x >= M * y + M
  BY <1>0, <1>2
<1>3. a \div M <= b \div M
  <2>1. SUFFICES ASSUME a \div M > b \div M PROVE FALSE
    BY <1>1
  <2>2. M * (a \div M) >= M * (b \div M) + M
    BY <1>1, <1>2, <2>1
  <2>3. M * (a \div M) \in Nat /\ M * (b \div M) \in Nat
    BY <1>0, <1>1
  <2> QED BY <1>0, <1>1, <2>2, <2>3
<1>4. ASSUME NEW x \in Nat, NEW y \in Nat, x <= y PROVE (x + 2) * M - 1 <= (y + 2) * M - 1 /\ (x + 2) * M - 1 \in Int
  BY <1>0, <1>4
<1>5. (a \div M + 2) * M - 1 <= (b \div M + 2) * M - 1 /\ (a \div M + 2) * M - 1 \in Int
  BY <1>1, <1>3, <1>4
<1> QED BY <1>5 DEF FriendShareWindow, MonthOf, M

\* What overlaps the window of a picture taken since the request began overlaps the
\* time since.
LEMMA SinceBegan ==
  ASSUME NEW p, NEW began \in Days, NEW ever, TakenSince(p, began, ever, today), today \in Days,
         NEW r, r.from \in Nat, r.to \in Nat, Overlaps(r, FriendShareWindow(p.now))
  PROVE  r.to >= began /\ r.from <= FriendShareWindow(today).to
<1>1. p.now \in Nat /\ today \in Nat /\ began \in Nat /\ began <= p.now /\ p.now <= today
  BY DaysAssumption DEF TakenSince
<1>2. FriendShareWindow(p.now).to <= FriendShareWindow(today).to
      /\ FriendShareWindow(p.now).from = p.now /\ FriendShareWindow(p.now).to \in Int
      /\ FriendShareWindow(today).to \in Int
  <2>1. /\ FriendShareWindow(p.now).to <= FriendShareWindow(today).to
        /\ FriendShareWindow(p.now).from = p.now /\ FriendShareWindow(p.now).to \in Int
    BY <1>1, LaterWindow
  <2>2. FriendShareWindow(today).to \in Int
    BY <1>1, LaterWindow
  <2> QED BY <2>1, <2>2
<1>3. r.from <= FriendShareWindow(p.now).to /\ p.now <= r.to
  BY <1>2 DEF Overlaps
<1> QED BY <1>1, <1>2, <1>3

\* What fits a picture taken since the request began was granted, and is in the window.
LEMMA FitsIsShown ==
  ASSUME NEW p, NEW began \in Days, NEW ever, TakenSince(p, began, ever, today), today \in Days,
         NEW e, Fits(e, p)
  PROVE  /\ [client |-> e.client, friend |-> e.friend] \in ever
         /\ e.to >= began /\ e.from <= FriendShareWindow(today).to
         /\ e.cap = None
<1>1. e.from \in Nat /\ e.to \in Nat /\ Overlaps(e, FriendShareWindow(p.now))
  BY DEF Fits, Entry
<1>2. e.to >= began /\ e.from <= FriendShareWindow(today).to
  BY <1>1, SinceBegan
<1> QED BY <1>2 DEF Fits, TakenSince

\* Ranking adds no friend's row and takes none of its limits off.
LEMMA RankedFits ==
  ASSUME NEW S, Told(S), NEW day, NEW p, \A e \in S : e.friend # None => Fits(e, p)
  PROVE  \A d \in Range(RankActiveSelections(day, S)) : d.friend # None => Fits(d, p)
<1> DEFINE A == {e \in S : Covers(e, day)}
           o == RankActiveSelections(day, S)
<1>1. Told(A) /\ Lists(o, StackSupers(A))
  BY RankedSelections
<1>2. \A e \in A : e.friend # None => Fits(e, p)
  OBVIOUS
<1> HIDE DEF A, o
<1>3. ASSUME NEW d \in Range(o), d.friend # None PROVE Fits(d, p)
  <2>1. d \in StackSupers(A)
    BY <1>1 DEF Range, Lists
  <2>2. PICK e \in Kept(A) : d = OnTop(A, e)
    BY <1>1, <2>1, StackedIsTold
  <2>3. e \in A
    BY DEF Kept
  <2>4. d \in Entry /\ SameRow(d, e)
    BY <1>1, <2>2, <2>3, OnTopIsEntry
  <2>5. Fits(e, p)
    BY <1>2, <1>3, <2>3, <2>4 DEF SameRow
  <2> QED BY <1>3, <2>4, <2>5 DEF Fits, SameRow, Overlaps
<1> QED BY <1>3 DEF o

LEMMA SelectedFits ==
  ASSUME NEW p, SharedOK(p), NEW r \in p.rows, Overlaps(r, FriendShareWindow(p.now))
  PROVE  Fits(FriendEntryOf(r, p), p)
<1>1. LET e == FriendEntryOf(r, p) IN
         /\ EntryFrom(e, r) /\ e.friend \in Others /\ e.friend = r.user /\ e.cap = None
         /\ [client |-> e.client, friend |-> e.friend] \in p.grants
         /\ e.friend # None
  BY FriendEntry
<1> QED BY <1>1 DEF Fits, EntryFrom, Overlaps

LEMMA PickableFits ==
  ASSUME NEW p, SharedOK(p), NEW n, NEW S \in SUBSET FriendPickable(p, n)
  PROVE  \A e \in Range(RankAvailable(S)) : Fits(e, p)
<1>1. Told(S) /\ \A e \in S : Fits(e, p)
  BY PickableIsTold, PartIsTold DEF Fits, Told
<1>2. Lists(RankAvailable(S), S)
  BY <1>1, AvailableIsRanked
<1> QED BY <1>1, <1>2 DEF Lists, Range

LEMMA FirstIsListed ==
  ASSUME NEW S, NEW o, Lists(o, S), First(o) # None
  PROVE  First(o) \in Range(o)
<1>1. o # <<>> /\ First(o) = o[1] /\ 1 \in DOMAIN o
  BY DEF Lists, First
<1> QED BY <1>1 DEF Range

\* A finished request has read what its screen needs.
LEMMA AnsweredIsRead ==
  ASSUME Asking, Answered, ask.op \in {"overview", "lookup", "board", "browse"}
  PROVE  /\ NoteOK(ask) /\ Deals(ask.partners) /\ ask.began \in Days /\ today \in Days
         /\ TakenSince(ask.seen[1], ask.began, ask.ever, today)
         /\ TakenSince(ask.seen[Len(ask.seen)], ask.began, ask.ever, today)
<1>1. Under /\ ask.op # None /\ ask.todo = <<>> /\ ask.seen \in Seq(Seen) /\ today \in Days
  BY DEF Asking, Answered, Note, TablesOK
<1>2. ~ Has(ask.todo, "rows")
  BY <1>1 DEF Has
<1>3. ask.seen # <<>>
  BY <1>1, <1>2 DEF Under
<1>4. 1 \in DOMAIN ask.seen /\ Len(ask.seen) \in DOMAIN ask.seen
  BY <1>1, <1>3
<1>5. /\ TakenSince(ask.seen[1], ask.began, ask.ever, today)
      /\ TakenSince(ask.seen[Len(ask.seen)], ask.began, ask.ever, today)
      /\ Deals(ask.partners) /\ ask.began \in Days /\ Table(ask.own) /\ \A r \in ask.own : r.user = Viewer
  BY <1>1, <1>4 DEF Under
<1>6. NoteOK(ask)
  BY <1>3, <1>5 DEF NoteOK, TakenSince
<1> QED BY <1>1, <1>5, <1>6

\* every friend's row of what was selected fits the first picture
LEMMA SelectionsFit ==
  ASSUME NEW n, NoteOK(n)
  PROVE  /\ \A e \in FriendEntriesByCategory(n) : Fits(e, n.seen[1])
         /\ \A c : \A e \in Selected(n.own, c) : e.friend = None
         /\ \A e \in BoardSelected(n) : e.friend # None => Fits(e, n.seen[1])
<1>1. SharedOK(n.seen[1])
  BY DEF NoteOK
<1>2. \A e \in FriendEntriesByCategory(n) : Fits(e, n.seen[1])
  BY <1>1, SelectedFits DEF FriendEntriesByCategory
<1>3. \A r \in n.own : EntryOf(r).friend = None
  BY DEF EntryOf
<1>4. \A c : \A e \in Selected(n.own, c) : e.friend = None
  BY <1>3 DEF Selected
<1>5. \A e \in BoardSelected(n) : e.friend # None => Fits(e, n.seen[1])
  BY <1>1, <1>3, SelectedFits DEF BoardSelected, OnBoard
<1> QED BY <1>2, <1>4, <1>5

LEMMA FeedFits ==
  ASSUME NEW n, NoteOK(n), NEW c
  PROVE  /\ Group(n, c).friendBest # None => Fits(Group(n, c).friendBest, n.seen[1])
         /\ Group(n, c).friendAvailable # None
              => Fits(Group(n, c).friendAvailable, n.seen[Len(n.seen)])
<1> DEFINE S == OfCategory(Chosen(n), c)
           ranked == RankActiveSelections(n.day, S)
           last == n.seen[Len(n.seen)]
           W == OfCategory(CanAskFor(n), c)
<1>1. Told(S)
  BY ChosenIsTold
<1>2. \A e \in S : e.friend # None => Fits(e, n.seen[1])
  BY SelectionsFit DEF OfCategory, Chosen
<1>3. Group(n, c).friendBest = FirstFriend(ranked) /\ Group(n, c).friendAvailable = First(RankAvailable(W))
  BY DEF Group
<1>4. W \in SUBSET FriendPickable(last, n) /\ SharedOK(last)
  BY DEF OfCategory, CanAskFor, FriendAvailableByCategory, NoteOK
<1> HIDE DEF S, last, W
<1>5. Lists(ranked, StackSupers({e \in S : Covers(e, n.day)}))
  BY <1>1, RankedSelections
<1>6. \A d \in Range(ranked) : d.friend # None => Fits(d, n.seen[1])
  BY <1>1, <1>2, RankedFits
<1> HIDE DEF ranked
<1>7. FirstFriend(ranked) # None => FirstFriend(ranked) \in Range(ranked) /\ FirstFriend(ranked).friend # None
  <2>1. ranked # <<>> => 1 \in DOMAIN ranked
    BY <1>5 DEF Lists
  <2> QED BY <2>1 DEF FirstFriend, Range
<1>8. Told(W) /\ Lists(RankAvailable(W), W)
  BY <1>4, PickableIsTold, PartIsTold, AvailableIsRanked
<1>9. First(RankAvailable(W)) # None => First(RankAvailable(W)) \in Range(RankAvailable(W))
  BY <1>8, FirstIsListed
<1>10. \A e \in Range(RankAvailable(W)) : Fits(e, last)
  BY <1>4, PickableFits
<1> QED BY <1>3, <1>6, <1>7, <1>9, <1>10 DEF last

LEMMA LookupFits ==
  ASSUME NEW n, NoteOK(n), Deals(n.partners), NEW c
  PROVE  /\ \A e \in Range(Lookup(n, c).ranked) : e.friend # None => Fits(e, n.seen[1])
         /\ \A e \in Range(Lookup(n, c).friends) : Fits(e, n.seen[Len(n.seen)])
<1> DEFINE U == LookedUp(n, c)
           last == n.seen[Len(n.seen)]
           W == OfCategory(FriendAvailableByCategory(n), c)
<1>1. Told(U)
  BY LookedUpIsTold
<1>2. \A e \in U : e.friend # None => Fits(e, n.seen[1])
  <2>1. \A e \in OfCategory({PartnerEntryOf(p) : p \in Alive(n)}, c) : e.friend = None
    BY LookedUpIsTold
  <2> QED BY <2>1, SelectionsFit DEF OfCategory, LookedUp
<1>3. Lookup(n, c).ranked = RankActiveSelections(n.day, U)
      /\ Lookup(n, c).friends = RankAvailable(W)
  BY DEF Lookup, LookupRanked, LookedUp
<1>4. W \in SUBSET FriendPickable(last, n) /\ SharedOK(last)
  BY DEF OfCategory, FriendAvailableByCategory, NoteOK
<1> HIDE DEF U, W, last
<1>5. \A e \in Range(RankActiveSelections(n.day, U)) : e.friend # None => Fits(e, n.seen[1])
  BY <1>1, <1>2, RankedFits
<1>6. \A e \in Range(RankAvailable(W)) : Fits(e, last)
  BY <1>4, PickableFits
<1> QED BY <1>3, <1>5, <1>6 DEF last

LEMMA BoardFits ==
  ASSUME NEW n, NoteOK(n)
  PROVE  /\ \A e \in Range(LookupByMCC(n).ranked) : e.friend # None => Fits(e, n.seen[1])
         /\ \A e \in Range(LookupByMCC(n).friends) : Fits(e, n.seen[1])
<1> DEFINE B == BoardSelected(n)
           W == FriendBest(n)
<1>1. Told(B)
  <2>1. B \subseteq EntriesOf(n.own, n.seen[1])
    BY DEF BoardSelected, OnBoard, EntriesOf
  <2> QED BY <2>1, EntriesAreTold, PartIsTold DEF NoteOK
<1>2. \A e \in B : e.friend # None => Fits(e, n.seen[1])
  BY SelectionsFit
<1>3. W \in SUBSET FriendPickable(n.seen[1], n) /\ SharedOK(n.seen[1])
  BY DEF FriendBest, NoteOK
<1>4. LookupByMCC(n).ranked = RankActiveSelections(n.day, B)
      /\ LookupByMCC(n).friends = RankAvailable(W)
  BY DEF LookupByMCC
<1> HIDE DEF B, W
<1>5. \A e \in Range(RankActiveSelections(n.day, B)) : e.friend # None => Fits(e, n.seen[1])
  BY <1>1, <1>2, RankedFits
<1>6. \A e \in Range(RankAvailable(W)) : Fits(e, n.seen[1])
  BY <1>3, PickableFits
<1> QED BY <1>4, <1>5, <1>6

LEMMA ChipIsView ==
  ASSUME NEW S, NEW c \in Range(Chips(S))
  PROVE  NoCapIn(c)
<1>1. PICK i \in DOMAIN Chips(S) : c = Chips(S)[i]
  BY DEF Range
<1>2. c = FriendOfferView(ByPercent(S)[i])
  BY <1>1 DEF Chips
<1>3. "cap" \notin DOMAIN c
  BY <1>2 DEF FriendOfferView
<1> QED BY <1>3 DEF NoCapIn

\* The chips of a grant are of rows of its client in the window, and say nothing of caps.
LEMMA ChipsFit ==
  ASSUME NEW p, SharedOK(p), NEW client, NEW v \in FriendClientView(client, p.rows, p.now)
  PROVE  /\ v.from \in Nat /\ v.to \in Nat /\ Overlaps(v, FriendShareWindow(p.now))
         /\ \A c \in ChipsOf(v) : NoCapIn(c)
<1> DEFINE shown == {r \in p.rows : r.client = client /\ Overlaps(r, FriendShareWindow(p.now))}
           chosen(q) == {r \in shown : r.period = q /\ r.selected /\ r.kind = "regular"}
           granted(q) == {r \in shown : r.period = q /\ r.selected /\ r.kind # "regular"}
           rest(q) == {r \in shown : r.period = q /\ ~ r.selected}
<1>1. PICK s \in shown : v = [from |-> s.from, to |-> s.to, selected |-> Chips(chosen(s.period)),
                              granted |-> Chips(granted(s.period)), menu |-> Chips(rest(s.period))]
  BY DEF FriendClientView
<1>2. s \in MenuRow /\ Overlaps(s, FriendShareWindow(p.now))
  BY DEF SharedOK, Table
<1> HIDE DEF shown, chosen, granted, rest
<1>3. v.from = s.from /\ v.to = s.to
  BY <1>1
<1>4. v.from \in Nat /\ v.to \in Nat /\ Overlaps(v, FriendShareWindow(p.now))
  BY <1>2, <1>3 DEF Overlaps, MenuRow
<1>5. /\ v.selected = Chips(chosen(s.period)) /\ v.granted = Chips(granted(s.period))
      /\ v.menu = Chips(rest(s.period))
  BY <1>1
<1>6. \A c \in ChipsOf(v) : NoCapIn(c)
  BY <1>5, ChipIsView DEF ChipsOf
<1> QED BY <1>4, <1>6

\* what is shown of a friend's row is allowed to be
Allowed(e) ==
  /\ [client |-> e.client, friend |-> e.friend] \in ask.ever
  /\ e.to >= ask.began /\ e.from <= FriendShareWindow(today).to
  /\ NoCapIn(e.said)

\* The chips of the browse screen.
LEMMA ChipsAreAllowed ==
  ASSUME Asking, Answered, ask.op = "browse", NEW g \in ask.seen[1].grants, NEW e \in ChipsUnder(g)
  PROVE  Allowed(e)
<1> DEFINE p == ask.seen[1]
<1>1. SharedOK(p) /\ TakenSince(p, ask.began, ask.ever, today) /\ ask.began \in Days /\ today \in Days
  BY AnsweredIsRead DEF NoteOK
<1>2. PICK v \in FriendsOffers(ask)[g] :
        e \in {[client |-> g.client, friend |-> g.friend, from |-> v.from, to |-> v.to, said |-> c] :
                 c \in ChipsOf(v)}
  BY DEF ChipsUnder
<1>3. PICK c \in ChipsOf(v) :
        e = [client |-> g.client, friend |-> g.friend, from |-> v.from, to |-> v.to, said |-> c]
  BY <1>2
<1>4. v \in FriendClientView(g.client, p.rows, p.now)
  BY <1>2 DEF FriendsOffers
<1>5. g \in ask.ever /\ g \in [client : Nat, friend : Others]
  BY <1>1, GrantsAssumption DEF TakenSince, SharedOK
<1> HIDE DEF p
<1>6. /\ v.from \in Nat /\ v.to \in Nat /\ Overlaps(v, FriendShareWindow(p.now))
      /\ NoCapIn(c)
  BY <1>1, <1>3, <1>4, ChipsFit
<1>7. v.to >= ask.began /\ v.from <= FriendShareWindow(today).to
  BY <1>1, <1>6, SinceBegan
<1>8. e.client = g.client /\ e.friend = g.friend /\ e.from = v.from /\ e.to = v.to /\ e.said = c
  BY <1>3
<1>9. g = [client |-> e.client, friend |-> e.friend]
  BY <1>5, <1>8
<1> QED BY <1>5, <1>6, <1>7, <1>8, <1>9 DEF Allowed

\* The rows of the other screens.
LEMMA EntriesAreAllowed ==
  ASSUME Asking, Answered, NEW e \in EntriesShown
  PROVE  /\ [client |-> e.client, friend |-> e.friend] \in ask.ever
         /\ e.to >= ask.began /\ e.from <= FriendShareWindow(today).to
         /\ e.cap = None
<1>1. ask.op \in {"overview", "lookup", "board"}
  BY DEF EntriesShown
<1>2. NoteOK(ask) /\ Deals(ask.partners) /\ TakenSince(ask.seen[1], ask.began, ask.ever, today)
         /\ TakenSince(ask.seen[Len(ask.seen)], ask.began, ask.ever, today)
         /\ ask.began \in Days /\ today \in Days
  BY <1>1, AnsweredIsRead
<1>3. Fits(e, ask.seen[1]) \/ Fits(e, ask.seen[Len(ask.seen)])
  <2>1. CASE ask.op = "overview"
    <3>1. PICK g \in FeedGroups(ask) : e \in {g.friendBest, g.friendAvailable} \ {None}
      BY <2>1 DEF EntriesShown
    <3>2. PICK c : g = Group(ask, c)
      BY <3>1 DEF FeedGroups
    <3> QED BY <1>2, <3>1, <3>2, FeedFits
  <2>2. CASE ask.op = "lookup"
    <3>1. (e \in Range(Lookup(ask, ask.cat).ranked) /\ e.friend # None) \/ e \in Range(Lookup(ask, ask.cat).friends)
      BY <2>2 DEF EntriesShown, FriendsAmong
    <3> QED BY <1>2, <3>1, LookupFits
  <2>3. CASE ask.op = "board"
    <3>1. (e \in Range(LookupByMCC(ask).ranked) /\ e.friend # None) \/ e \in Range(LookupByMCC(ask).friends)
      BY <2>3 DEF EntriesShown, FriendsAmong
    <3> QED BY <1>2, <3>1, BoardFits
  <2> QED BY <1>1, <2>1, <2>2, <2>3
<1> QED BY <1>2, <1>3, FitsIsShown

\* A screen, the one of chips included, shows a friend's row only if the friend had
\* granted its client while the screen was being made, in the shared window and without
\* its cap, whatever happens between the three statements that read it.
THEOREM OnlyTheSharedIsShown == Spec => []ShownWasShared
<1>1. ASSUME Asking, Answered, NEW e \in FriendsShown PROVE Allowed(e)
  <2>1. CASE \E d \in EntriesShown :
               e = [client |-> d.client, friend |-> d.friend, from |-> d.from, to |-> d.to, said |-> d]
    <3>1. PICK d \in EntriesShown :
            e = [client |-> d.client, friend |-> d.friend, from |-> d.from, to |-> d.to, said |-> d]
      BY <2>1
    <3>2. /\ [client |-> d.client, friend |-> d.friend] \in ask.ever
          /\ d.to >= ask.began /\ d.from <= FriendShareWindow(today).to
          /\ d.cap = None
      BY <1>1, EntriesAreAllowed
    <3>3. e.client = d.client /\ e.friend = d.friend /\ e.from = d.from /\ e.to = d.to /\ e.said = d
      BY <3>1
    <3> QED BY <3>2, <3>3 DEF Allowed, NoCapIn
  <2>2. CASE ask.op = "browse" /\ \E g \in ask.seen[1].grants : e \in ChipsUnder(g)
    BY <1>1, <2>2, ChipsAreAllowed
  <2> QED BY <1>1, <2>1, <2>2 DEF FriendsShown
<1>2. Asking => ShownWasShared
  BY <1>1 DEF ShownWasShared, Allowed
<1> QED BY <1>2, AskingInit, AskingStep, PTL DEF Spec

(********************************** pending ********************************)

\* The period about a day is not over on it, and the next one follows.
LEMMA RangeIsOpen ==
  ASSUME NEW day \in Nat, NEW type, PeriodRangeAt(day, type) # None
  PROVE  LET r == PeriodRangeAt(day, type) IN
         /\ r.from \in Nat /\ r.to \in Nat /\ r.from <= day /\ day <= r.to
<1> DEFINE length == IF type = "calendar_month" THEN 1 * MonthDays ELSE 3 * MonthDays
           first == (day \div length) * length
<1>1. PeriodRangeAt(day, type) = [from |-> first, to |-> first + length - 1]
  BY DEF PeriodRangeAt
<1>2. length \in Nat \ {0}
  BY RankingAssumption
<1> HIDE DEF length
<1>3. /\ day \div length \in Nat /\ day = length * (day \div length) + (day % length)
      /\ day % length \in 0..(length - 1)
  BY <1>2
<1>4. \A q \in Nat : q * length \in Nat /\ q * length = length * q
  BY <1>2
<1>5. first \in Nat /\ first = length * (day \div length)
  BY <1>3, <1>4
<1> HIDE DEF first
<1>6. first <= day /\ day <= first + length - 1 /\ first + length - 1 \in Nat
  BY <1>2, <1>3, <1>5
<1> QED BY <1>1, <1>5, <1>6

LEMMA PendingIs ==
  ASSUME NEW now \in Nat, NEW type, NEW opens, NEW fills,
         PendingMenu(now, type, opens, fills) # None
  PROVE  LET p == PendingMenu(now, type, opens, fills)
         IN  p.to >= now /\ ~ IsFilled(p, fills)
<1> DEFINE current == PeriodRangeAt(now, type)
           next == PeriodRangeAt(current.to + 1, type)
           p == PendingMenu(now, type, opens, fills)
<1>1. /\ current # None
      /\ p = IF ~ IsFilled(current, fills) THEN current
             ELSE IF SelectionOpen(now, current, opens) /\ ~ IsFilled(next, fills) THEN next
             ELSE None
  BY DEF PendingMenu
<1>2. current.to \in Nat /\ now <= current.to
  BY <1>1, RangeIsOpen
<1> HIDE DEF current
<1>3. CASE p = current /\ ~ IsFilled(current, fills)
  BY <1>2, <1>3
<1>4. CASE p = next /\ ~ IsFilled(next, fills)
  <2>1. next.to \in Nat /\ current.to + 1 <= next.to
    <3>1. current.to + 1 \in Nat /\ next # None
      BY <1>2, <1>4
    <3> QED BY <3>1, RangeIsOpen
  <2> HIDE DEF next
  <2> QED BY <1>2, <1>4, <2>1
<1> QED BY <1>1, <1>3, <1>4

\* PendingMenu asks for a period that is not over and of which nothing is recorded.
THEOREM PendingAsksForNothingDone == Spec => []PendingIsOpenAndEmpty
<1>1. ASSUME TablesOK, NEW c \in Clients, Pending(Glance(today), c) # None
      PROVE  LET p == Pending(Glance(today), c)
             IN  /\ p.to >= today
                 /\ \A o \in Offers : o.id \in menu /\ o.client = c.id => ~ Overlaps(o, p)
  <2> DEFINE n == Glance(today)
             fills == PeriodFills(n, c.id)
             type == Programs[c.bank].type
             opens == Programs[c.bank].opensDay
             p == Pending(n, c)
  <2>1. n.own = ListUserOffers /\ n.now = today
    BY DEF Glance, Idle
  <2>2. p = PendingMenu(today, type, opens, fills)
    BY <2>1 DEF Pending
  <2>3. today \in Nat
    BY <1>1, DaysAssumption DEF TablesOK
  <2>4. p.to >= today /\ ~ IsFilled(p, fills)
    <3> HIDE DEF fills, type, opens, n
    <3> HIDE DEF p
    <3>1. p # None
      BY <1>1 DEF p, n
    <3> QED BY <2>2, <2>3, <3>1, PendingIs
  <2> HIDE DEF p
  <2>5. ASSUME NEW o \in Offers, o.id \in menu, o.client = c.id, Overlaps(o, p) PROVE FALSE
    <3>1. o.user = Viewer
      BY <2>5, ClientsAssumption
    <3>2. PICK q \in Periods : q.id = o.period
      BY <3>1, PeriodsAssumption
    <3>3. q.client = c.id /\ q.from = o.from /\ q.to = o.to
      BY <2>5, <3>2, PeriodsAssumption
    <3> DEFINE R == {r \in n.own : r.period = q.id}
               f == [from |-> q.from, to |-> q.to, rows |-> Cardinality(R)]
    <3>4. f \in fills
      BY <3>3 DEF PeriodFills
    <3>5. Row(o) \in R
      BY <2>1, <2>5, <3>1, <3>2, RowIs DEF ListUserOffers
    <3>6. IsFiniteSet(R)
      BY <2>1, OwnIsTable, FS_Subset DEF Table
    <3> HIDE DEF R
    <3>7. Cardinality(R) > 0
      <4>1. Cardinality(R) \in Nat /\ Cardinality(R) # 0
        BY <3>5, <3>6, FS_CardinalityType, FS_EmptySet
      <4> QED BY <4>1
    <3>8. Overlaps(f, p)
      BY <2>5, <3>3 DEF Overlaps
    <3> HIDE DEF fills
    <3> QED BY <2>4, <3>4, <3>7, <3>8 DEF IsFilled
  <2> QED BY <2>4, <2>5 DEF p
<1>2. TablesOK => PendingIsOpenAndEmpty
  BY <1>1 DEF PendingIsOpenAndEmpty
<1> QED BY <1>2, TablesInit, TablesStep, PTL DEF Spec

\* Partner offers are ranked among the cards and change nothing about them.
LEMMA StackedCards ==
  ASSUME NEW S, Told(S)
  PROVE  CardsOf(StackSupers(S)) = StackSupers(CardsOf(S))
<1> DEFINE O == CardsOf(S)
<1>1. O \subseteq S /\ Told(O)
  BY PartIsTold DEF CardsOf
<1>2. ASSUME NEW client PROVE /\ Paying(S, "regular", client) = Paying(O, "regular", client)
                              /\ Paying(S, "super", client) = Paying(O, "super", client)
  BY <1>1 DEF Paying, CardsOf
<1>3. ASSUME NEW e \in O
      PROVE  (e \in Kept(S) <=> e \in Kept(O)) /\ OnTop(S, e) = OnTop(O, e)
  <2>1. IsPick(S, e) <=> IsPick(O, e)
    BY <1>2 DEF IsPick
  <2>2. e \in S
    BY <1>1
  <2> HIDE DEF O
  <2> QED BY <1>2, <2>1, <2>2 DEF Kept, OnTop
<1>4. \A e \in S : OnTop(S, e).kind = e.kind
  BY OnTopIsEntry DEF SameRow
<1>5. \A d : d \in StackSupers(S) <=> \E e \in Kept(S) : d = OnTop(S, e)
  BY StackedIsTold
<1>6. \A d : d \in StackSupers(O) <=> \E e \in Kept(O) : d = OnTop(O, e)
  BY <1>1, StackedIsTold
<1>7. Kept(S) \subseteq S /\ Kept(O) \subseteq O
  BY DEF Kept
<1>8. \A e \in S : e \in O <=> e.kind # "partner"
  BY DEF CardsOf
<1> HIDE DEF O
<1>9. \A d \in CardsOf(StackSupers(S)) : d \in StackSupers(O)
  BY <1>3, <1>4, <1>5, <1>6, <1>7, <1>8 DEF CardsOf
<1>10. \A d \in StackSupers(O) : d \in CardsOf(StackSupers(S))
  BY <1>1, <1>3, <1>4, <1>5, <1>6, <1>7, <1>8 DEF CardsOf
<1> QED BY <1>9, <1>10 DEF O

\* the first that is listed of a part of T
LEMMA FirstLeads ==
  ASSUME NEW T, Told(T), NEW o, Lists(o, T),
         \A i, j \in DOMAIN o : i < j => Before(RankKey(o[i]), RankKey(o[j])),
         NEW P \in SUBSET T
  PROVE  LET I == {i \in DOMAIN o : o[i] \in P} IN
         /\ P = {} <=> I = {}
         /\ P # {} => Leads(o[Min(I)], P)
<1> DEFINE I == {i \in DOMAIN o : o[i] \in P}
<1>1. \A e \in P : \E i \in I : o[i] = e
  BY DEF Lists
<1>2. \A i \in I : o[i] \in P /\ i \in Nat /\ i \in DOMAIN o
  BY DEF Lists
<1>3. ASSUME P # {} PROVE Leads(o[Min(I)], P)
  <2>1. I # {} /\ I \in SUBSET Nat
    BY <1>1, <1>2, <1>3
  <2> HIDE DEF I
  <2>3. Min(I) \in I /\ \A m \in I : Min(I) <= m
    BY <2>1, LeastOf
  <2>4. ASSUME NEW f \in P PROVE f = o[Min(I)] \/ Before(RankKey(o[Min(I)]), RankKey(f))
    <3>1. PICK i \in I : o[i] = f
      BY <1>1
    <3>2. i = Min(I) \/ Min(I) < i
      BY <1>2, <2>3
    <3> QED BY <1>2, <2>3, <3>1, <3>2
  <2> QED BY <1>2, <2>3, <2>4 DEF Leads
<1>4. P = {} <=> I = {}
  BY <1>1, <1>2
<1> HIDE DEF I
<1> QED BY <1>3, <1>4 DEF I

LEMMA LeadingLeads ==
  ASSUME NEW T, Told(T), NEW o, Lists(o, T),
         \A i, j \in DOMAIN o : i < j => Before(RankKey(o[i]), RankKey(o[j]))
  PROVE  /\ CardsOf(T) = {} => LeadingCard(o) = None
         /\ CardsOf(T) # {} => Leads(LeadingCard(o), CardsOf(T))
         /\ OwnOf(CardsOf(T)) = {} => LeadingOwnCard(o) = None
         /\ OwnOf(CardsOf(T)) # {} => Leads(LeadingOwnCard(o), OwnOf(CardsOf(T)))
<1> DEFINE C == CardsOf(T)
           W == OwnOf(C)
           I == {i \in DOMAIN o : o[i] \in C}
           J == {i \in DOMAIN o : o[i] \in W}
<1>1. C \in SUBSET T /\ W \in SUBSET T
  BY DEF CardsOf, OwnOf
<1>2. I = {i \in DOMAIN o : o[i].kind # "partner"}
      /\ J = {i \in DOMAIN o : o[i].kind # "partner" /\ o[i].friend = None}
  BY DEF CardsOf, OwnOf, Lists
<1>3. LeadingCard(o) = (IF I = {} THEN None ELSE o[Min(I)])
      /\ LeadingOwnCard(o) = (IF J = {} THEN None ELSE o[Min(J)])
  BY <1>2 DEF LeadingCard, LeadingOwnCard, Leading
<1> HIDE DEF C, W
<1>4. (C = {} <=> I = {}) /\ (C # {} => Leads(o[Min(I)], C))
  BY <1>1, FirstLeads
<1>5. (W = {} <=> J = {}) /\ (W # {} => Leads(o[Min(J)], W))
  BY <1>1, FirstLeads
<1> HIDE DEF I, J
<1> QED BY <1>3, <1>4, <1>5 DEF C, W

\* A friend is named first exactly when one leads all cards.
LEMMA FriendFirst ==
  ASSUME NEW T, Told(T), NEW o, Lists(o, T),
         \A i, j \in DOMAIN o : i < j => Before(RankKey(o[i]), RankKey(o[j])),
         NEW d, Leads(d, T)
  PROVE  FirstFriend(o) = IF d.friend # None THEN d ELSE None
<1>1. PICK k \in DOMAIN o : o[k] = d
  BY DEF Lists, Leads
<1>2. 1 \in DOMAIN o /\ o # <<>> /\ o[1] \in T
  BY <1>1 DEF Lists
<1>3. Leads(o[1], T)
  <2> SUFFICES ASSUME NEW f \in T PROVE f = o[1] \/ Before(RankKey(o[1]), RankKey(f))
    BY <1>2 DEF Leads
  <2>1. PICK i \in DOMAIN o : o[i] = f
    BY DEF Lists
  <2>2. i = 1 \/ 1 < i
    BY DEF Lists
  <2> QED BY <1>2, <2>1, <2>2
<1>4. o[1] = d
  BY <1>3, OneLeads DEF Told
<1> QED BY <1>2, <1>4 DEF FirstFriend

LEMMA LookupIsTold ==
  ASSUME NEW n, NoteOK(n), Deals(n.partners), NEW c, c # AllPurchases, c # None
  PROVE  Told(LookedUp(n, c)) /\ CardsOf(LookedUp(n, c)) = OfCategory(Chosen(n), c)
<1>1. OfCategory(Selected(n.own, {r.cat : r \in n.own} \ {None, AllPurchases}), c) = Selected(n.own, {c})
  BY DEF OfCategory, Selected, EntryOf
<1>2. OfCategory({e \in FriendEntriesByCategory(n) : e.cat # AllPurchases}, c)
        = OfCategory(FriendEntriesByCategory(n), c)
  BY DEF OfCategory
<1>3. OfCategory(Chosen(n), c) = Selected(n.own, {c}) \cup OfCategory(FriendEntriesByCategory(n), c)
  BY <1>1, <1>2 DEF Chosen, OfCategory
<1> QED BY <1>3, LookedUpIsTold

\* The feed and the lookup of a category name the same first card of the viewer's, the
\* same friend, and offer the same row: the partner offers the lookup ranks among the
\* cards change nothing about them.
THEOREM FeedAndLookupAgree == Spec => []FeedAgreesWithLookup
<1>1. ASSUME TablesOK, NEW day \in Days, NEW c \in Categories \ {AllPurchases}
      PROVE  LET n == Glance(day)  g == Group(n, c)  l == Lookup(n, c)
                 first == LeadingCard(l.ranked)
             IN  /\ g.best = LeadingOwnCard(l.ranked)
                 /\ g.friendBest = IF first # None /\ first.friend # None THEN first ELSE None
                 /\ g.available = IF g.best = None THEN First(l.available) ELSE None
                 /\ g.friendAvailable = First(l.friends)
  <2> DEFINE n == Glance(day)
             g == Group(n, c)
             l == Lookup(n, c)
             first == LeadingCard(l.ranked)
             S == OfCategory(Chosen(n), c)
             U == LookedUp(n, c)
             A == {e \in S : Covers(e, n.day)}
             B == {e \in U : Covers(e, n.day)}
             mine == RankActiveSelections(n.day, S)
             all == RankActiveSelections(n.day, U)
  <2>0. c # None /\ c # AllPurchases
    BY CategoriesAssumption, RankingAssumption
  <2>1. NoteOK(n) /\ Deals(n.partners)
    <3>1. n.partners = ListPartnerOffersForUser
      BY DEF Glance, Idle
    <3> QED BY <1>1, <3>1, GlanceIsRead, PartnersAreDeals
  <2> HIDE DEF n
  <2>2. l.ranked = all /\ l.available = LookupOffered(n, c, TRUE)
        /\ l.friends = RankAvailable(OfCategory(FriendAvailableByCategory(n), c))
    BY DEF Lookup, LookupRanked, LookedUp
  <2>3. g.best = FirstOwn(mine) /\ g.friendBest = FirstFriend(mine)
        /\ g.available = (IF g.best = None THEN First(RankAvailable(OfCategory(CanPick(n), c))) ELSE None)
        /\ g.friendAvailable = First(RankAvailable(OfCategory(CanAskFor(n), c)))
    BY DEF Group
  <2>4. Told(S) /\ Told(U) /\ CardsOf(U) = S
    BY <2>0, <2>1, ChosenIsTold, LookupIsTold
  <2>5. OfCategory(CanAskFor(n), c) = OfCategory(FriendAvailableByCategory(n), c)
    BY <2>0 DEF OfCategory, CanAskFor
  <2>6. RankAvailable(OfCategory(CanPick(n), c)) = LookupOffered(n, c, TRUE)
    <3> DEFINE R == {s \in Offered(n.own, n.day) : s.cat = c /\ Pickable(VerdictOf(s, n.own))}
               Q == {s \in Offered(n.own, n.day) : /\ s.cat \notin {None, AllPurchases}
                                                   /\ Pickable(VerdictOf(s, n.own))}
    <3>1. LookupOffered(n, c, TRUE) = RankAvailable({AvailableOf(r, n.own) : r \in R})
      BY DEF LookupOffered, Pickable
    <3>2. CanPick(n) = {AvailableOf(r, n.own) : r \in Q}
      BY DEF CanPick
    <3>3. \A r \in n.own : AvailableOf(r, n.own).cat = r.cat
      BY DEF AvailableOf, EntryOf
    <3>4. R \subseteq n.own /\ Q \subseteq n.own /\ \A r \in n.own : r \in R <=> r \in Q /\ r.cat = c
      BY <2>0 DEF Offered
    <3> HIDE DEF R, Q
    <3>5. OfCategory(CanPick(n), c) = {AvailableOf(r, n.own) : r \in R}
      BY <3>2, <3>3, <3>4 DEF OfCategory
    <3> QED BY <3>1, <3>5
  <2> HIDE DEF S, U
  <2>7. /\ Told(A) /\ Told(StackSupers(A)) /\ Lists(mine, StackSupers(A))
        /\ \A i, j \in DOMAIN mine : i < j => Before(RankKey(mine[i]), RankKey(mine[j]))
    BY <2>4, RankedSelections
  <2>8. /\ Told(B) /\ Told(StackSupers(B)) /\ Lists(all, StackSupers(B))
        /\ \A i, j \in DOMAIN all : i < j => Before(RankKey(all[i]), RankKey(all[j]))
    BY <2>4, RankedSelections
  <2>9. CardsOf(B) = A
    BY <2>4 DEF CardsOf
  <2> DEFINE T == StackSupers(A)
  <2>10. CardsOf(StackSupers(B)) = T
    <3> HIDE DEF A, B
    <3> QED BY <2>8, <2>9, StackedCards
  <2> HIDE DEF A, B, T, mine, all, g, l
  <2>11. /\ Told(T) /\ Lists(mine, T) /\ T \subseteq Entry
         /\ \A i, j \in DOMAIN mine : i < j => Before(RankKey(mine[i]), RankKey(mine[j]))
    BY <2>7 DEF T, Told
  <2>12. /\ OwnOf(T) = {} => g.best = None
         /\ OwnOf(T) # {} => Leads(g.best, OwnOf(T))
    <3>1. /\ OwnOf(T) = {} => FirstOwn(mine) = None
          /\ OwnOf(T) # {} => Leads(FirstOwn(mine), OwnOf(T))
      BY <2>11, BestLeads
    <3> QED BY <2>3, <3>1
  <2>13. /\ T = {} => LeadingCard(all) = None
         /\ T # {} => Leads(LeadingCard(all), T)
         /\ OwnOf(T) = {} => LeadingOwnCard(all) = None
         /\ OwnOf(T) # {} => Leads(LeadingOwnCard(all), OwnOf(T))
    BY <2>8, <2>10, LeadingLeads
  <2>14. OwnOf(T) \in SUBSET Entry
    BY <2>11 DEF OwnOf
  <2>15. g.best = LeadingOwnCard(l.ranked)
    BY <2>2, <2>12, <2>13, <2>14, OneLeads
  <2>16. g.friendBest = IF first # None /\ first.friend # None THEN first ELSE None
    <3>1. CASE T = {}
      <4>1. mine = <<>>
        BY <2>11, <3>1, FS_EmptySet DEF Lists
      <4> QED BY <2>2, <2>3, <2>13, <3>1, <4>1 DEF FirstFriend
    <3>2. CASE T # {}
      <4>1. Leads(first, T)
        BY <2>2, <2>13, <3>2
      <4>2. g.friendBest = IF first.friend # None THEN first ELSE None
        BY <2>3, <2>11, <4>1, FriendFirst
      <4> QED BY <4>2
    <3> QED BY <3>1, <3>2
  <2>17. g.available = (IF g.best = None THEN First(l.available) ELSE None)
         /\ g.friendAvailable = First(l.friends)
    BY <2>2, <2>3, <2>5, <2>6
  <2> QED BY <2>15, <2>16, <2>17 DEF g, l, n
<1>2. TablesOK => FeedAgreesWithLookup
  BY <1>1 DEF FeedAgreesWithLookup
<1> QED BY <1>2, TablesInit, TablesStep, PTL DEF Spec

(*********************************** answers *******************************)

\* The viewer's part of a ranking is the ranking of the viewer's part.
LEMMA RankedApart ==
  ASSUME NEW S, Told(S), Apart(S), NEW day
  PROVE  {e \in Range(RankActiveSelections(day, S)) : e.friend = None}
           = Range(RankActiveSelections(day, OwnOf(S)))
<1> DEFINE A == {e \in S : Covers(e, day)}
           B == {e \in OwnOf(S) : Covers(e, day)}
           o == RankActiveSelections(day, S)
           w == RankActiveSelections(day, OwnOf(S))
<1>1. Told(A) /\ Lists(o, StackSupers(A))
  BY RankedSelections
<1>2. Told(OwnOf(S))
  BY PartIsTold DEF OwnOf
<1>3. Lists(w, StackSupers(B))
  <2> DEFINE W == OwnOf(S)
  <2> HIDE DEF W
  <2>1. LET C == {e \in W : Covers(e, day)}
            l == RankActiveSelections(day, W)
        IN  /\ Told(C) /\ Told(StackSupers(C)) /\ Lists(l, StackSupers(C))
            /\ \A i, j \in DOMAIN l : i < j => Before(RankKey(l[i]), RankKey(l[j]))
    BY <1>2, RankedSelections DEF W
  <2> QED BY <2>1 DEF W
<1>4. Apart(A) /\ OwnOf(A) = B
  BY DEF Apart, OwnOf
<1> HIDE DEF A, B, o, w
<1>5. Range(o) = StackSupers(A) /\ Range(w) = StackSupers(B)
  BY <1>1, <1>3 DEF Lists, Range
<1>6. OwnOf(StackSupers(A)) = StackSupers(B)
  BY <1>1, <1>4, StackedApart
<1> QED BY <1>5, <1>6 DEF OwnOf, o, w

\* Two rankings of the same cards of the viewer's have the same viewer's part.
LEMMA RankedAlike ==
  ASSUME NEW S, Told(S), Apart(S), NEW T, Told(T), Apart(T), OwnOf(S) = OwnOf(T), NEW day
  PROVE  {e \in Range(RankActiveSelections(day, S)) : e.friend = None}
           = {e \in Range(RankActiveSelections(day, T)) : e.friend = None}
<1>1. {e \in Range(RankActiveSelections(day, S)) : e.friend = None}
        = Range(RankActiveSelections(day, OwnOf(S)))
  BY RankedApart
<1>2. {e \in Range(RankActiveSelections(day, T)) : e.friend = None}
        = Range(RankActiveSelections(day, OwnOf(T)))
  BY RankedApart
<1> QED BY <1>1, <1>2

\* the viewer's part of the board
LEMMA BoardIsTold ==
  ASSUME NEW n, NoteOK(n)
  PROVE  /\ Told(BoardSelected(n)) /\ Apart(BoardSelected(n))
         /\ OwnOf(BoardSelected(n)) = {EntryOf(r) : r \in {s \in OnBoard(n.own, n) : s.selected}}
<1> DEFINE B == BoardSelected(n)
           E == EntriesOf(n.own, n.seen[1])
<1>1. B \subseteq E
  BY DEF BoardSelected, OnBoard, EntriesOf
<1>2. Told(E) /\ Apart(E)
  BY EntriesAreTold, EntriesAreApart DEF NoteOK
<1>3. OwnOf(B) = {EntryOf(r) : r \in {s \in OnBoard(n.own, n) : s.selected}}
  BY EntriesAreApart DEF OwnOf, BoardSelected, OnBoard
<1> HIDE DEF B, E
<1>4. Told(B) /\ Apart(B)
  BY <1>1, <1>2, PartIsTold DEF Apart
<1> QED BY <1>3, <1>4 DEF B

\* Hiding friends changes nothing of the viewer's own in a lookup or on a board: what
\* is ranked, offered, full, a base rate or a footnote.
THEOREM AnswersStayWhenFriendsHide == Spec => []HidingFriendsKeepsAnswers
<1>1. ASSUME TablesOK, NEW day \in Days
      PROVE  LET n == Glance(day)
                 w == WithoutFriends(n)
             IN  /\ \A c \in Categories : OwnAnswer(Lookup(n, c)) = OwnAnswer(Lookup(w, c))
                 /\ OwnAnswer(LookupByMCC(n)) = OwnAnswer(LookupByMCC(w))
  <2> DEFINE n == Glance(day)
             w == WithoutFriends(n)
             own(o) == {e \in Range(o) : e.friend = None}
  <2>1. /\ w.own = n.own /\ w.day = n.day /\ w.partners = n.partners
        /\ w.seen = <<[grants |-> {}, rows |-> {}, now |-> n.now]>>
    BY DEF Glance, WithoutFriends, Idle
  <2>2. NoteOK(n) /\ Deals(n.partners)
    <3>1. n.partners = ListPartnerOffersForUser
      BY DEF Glance, Idle
    <3> QED BY <1>1, <3>1, GlanceIsRead, PartnersAreDeals
  <2> HIDE DEF n, w
  <2>3. NoteOK(w) /\ Deals(w.partners)
    BY <2>1, <2>2, AloneChosen
  <2>4. Alive(w) = Alive(n) /\ FallbackEntries(w) = FallbackEntries(n)
    BY <2>1 DEF Alive, FallbackEntries
  <2>5. ASSUME NEW c PROVE OwnAnswer(Lookup(n, c)) = OwnAnswer(Lookup(w, c))
    <3> DEFINE l == Lookup(n, c)
               k == Lookup(w, c)
               U == LookedUp(n, c)
               V == LookedUp(w, c)
    <3>1. OwnOf(U) = OwnOf(V)
      <4> DEFINE P == OfCategory({PartnerEntryOf(p) : p \in Alive(n)}, c)
      <4>1. OwnOf(U) = Selected(n.own, {c}) \cup P
        BY <2>2, LookedUpIsTold
      <4>2. OwnOf(V) = Selected(w.own, {c}) \cup OfCategory({PartnerEntryOf(p) : p \in Alive(w)}, c)
        BY <2>3, LookedUpIsTold
      <4> QED BY <2>1, <2>4, <4>1, <4>2
    <3>2. Told(U) /\ Apart(U) /\ Told(V) /\ Apart(V)
      BY <2>2, <2>3, LookedUpIsTold
    <3>3. l.ranked = RankActiveSelections(n.day, U) /\ k.ranked = RankActiveSelections(n.day, V)
      BY <2>1 DEF Lookup, LookupRanked, LookedUp
    <3>4. own(l.ranked) = own(k.ranked)
      <4> HIDE DEF U, V, l, k
      <4> QED BY <3>1, <3>2, <3>3, RankedAlike
    <3>5. \A can : LookupOffered(n, c, can) = LookupOffered(w, c, can)
      BY <2>1 DEF LookupOffered
    <3>6. /\ l.available = k.available /\ l.blocked = k.blocked
          /\ l.fallback = k.fallback /\ l.footnote = k.footnote
      BY <2>1, <2>4, <3>5 DEF Lookup
    <3>7. /\ l = [ranked |-> l.ranked, available |-> l.available, blocked |-> l.blocked,
                   friends |-> l.friends, fallback |-> l.fallback, footnote |-> l.footnote]
          /\ k = [ranked |-> k.ranked, available |-> k.available, blocked |-> k.blocked,
                   friends |-> k.friends, fallback |-> k.fallback, footnote |-> k.footnote]
      BY DEF Lookup
    <3> HIDE DEF l, k
    <3>8. \A a : OwnAnswer(a) = [a EXCEPT !.ranked = own(a.ranked), !.friends = <<>>]
      BY DEF OwnAnswer
    <3> HIDE DEF own
    <3>9. [l EXCEPT !.ranked = own(l.ranked), !.friends = <<>>]
             = [k EXCEPT !.ranked = own(k.ranked), !.friends = <<>>]
      BY <3>4, <3>6, <3>7
    <3> QED BY <3>8, <3>9 DEF l, k
  <2>6. OwnAnswer(LookupByMCC(n)) = OwnAnswer(LookupByMCC(w))
    <3> DEFINE l == LookupByMCC(n)
               k == LookupByMCC(w)
               U == BoardSelected(n)
               V == BoardSelected(w)
    <3>1. OnBoard(n.own, n) = OnBoard(w.own, w) /\ Covered(n) = Covered(w)
      BY <2>1 DEF OnBoard, Covered
    <3>2. Told(U) /\ Apart(U) /\ Told(V) /\ Apart(V) /\ OwnOf(U) = OwnOf(V)
      <4>1. OwnOf(U) = {EntryOf(r) : r \in {s \in OnBoard(n.own, n) : s.selected}}
        BY <2>2, BoardIsTold
      <4>2. OwnOf(V) = {EntryOf(r) : r \in {s \in OnBoard(w.own, w) : s.selected}}
        BY <2>3, BoardIsTold
      <4> QED BY <2>2, <2>3, <3>1, <4>1, <4>2, BoardIsTold
    <3>3. l.ranked = RankActiveSelections(n.day, U) /\ k.ranked = RankActiveSelections(n.day, V)
      BY <2>1 DEF LookupByMCC
    <3>4. own(l.ranked) = own(k.ranked)
      <4> HIDE DEF U, V, l, k
      <4> QED BY <3>2, <3>3, RankedAlike
    <3>5. \A can : BoardOffered(n, can) = BoardOffered(w, can)
      BY <2>1, <3>1 DEF BoardOffered
    <3>6. l.available = k.available /\ l.blocked = k.blocked /\ l.base = k.base
      BY <2>1, <2>4, <3>1, <3>5 DEF LookupByMCC
    <3>7. /\ l = [ranked |-> l.ranked, available |-> l.available, blocked |-> l.blocked,
                   friends |-> l.friends, base |-> l.base]
          /\ k = [ranked |-> k.ranked, available |-> k.available, blocked |-> k.blocked,
                   friends |-> k.friends, base |-> k.base]
      BY DEF LookupByMCC
    <3> HIDE DEF l, k
    <3>8. \A a : OwnAnswer(a) = [a EXCEPT !.ranked = own(a.ranked), !.friends = <<>>]
      BY DEF OwnAnswer
    <3> HIDE DEF own
    <3>9. [l EXCEPT !.ranked = own(l.ranked), !.friends = <<>>]
             = [k EXCEPT !.ranked = own(k.ranked), !.friends = <<>>]
      BY <3>4, <3>6, <3>7
    <3> QED BY <3>8, <3>9 DEF l, k
  <2> QED BY <2>5, <2>6 DEF n, w
<1>2. TablesOK => HidingFriendsKeepsAnswers
  BY <1>1 DEF HidingFriendsKeepsAnswers
<1> QED BY <1>2, TablesInit, TablesStep, PTL DEF Spec

(******************************** what stood still *************************)

\* the owners of grants are friends
GrantsAreFriends == \A s \in shares : s.friend \in friends

\* an offer that nothing touched, of a client granted all along
Still(o) ==
  [client |-> o.client, friend |-> o.user] \in ask.steady /\ o.id \notin ask.moved

\* the statements of the overview, by how many are left
Overview == <<"own", "friends", "shares", "rows", "friends", "shares", "rows", "partners">>

Left == Len(ask.todo)

\* How far the overview is tells what it has read: the owners of the grants that
\* stand, then the grants, then the rows that nothing touched since.
Held ==
  ask.op # None /\ ask.op = "overview" =>
    /\ Left \in 0..8 /\ \A i \in 1..Left : ask.todo[i] = Overview[8 - Left + i]
    /\ Left > 0 => ask.steady \subseteq given
    /\ Left <= 6 => \A s \in ask.steady : s.friend \in ask.names
    /\ Left <= 5 => ask.steady \subseteq ask.grants
    /\ Len(ask.seen) = IF Left >= 5 THEN 0 ELSE IF Left >= 2 THEN 1 ELSE 2
    /\ Left \in 1..4 =>
         \A o \in Offers : Still(o) /\ o.id \in menu => Row(o) \in ask.seen[1].rows
    /\ Left <= 1 =>
         \A r \in ask.seen[2].rows : Still(r) => r \in ask.seen[1].rows

Steadily == Asking /\ GrantsAreFriends /\ Held

LEMMA FriendsInit == ASSUME Init PROVE Steadily
<1>1. ask.op = None
  BY IdleIsNote DEF Init
<1> QED BY <1>1, AskingInit DEF Init, Steadily, GrantsAreFriends, Held

LEMMA GrantsStep ==
  ASSUME GrantsAreFriends, [Next]_vars
  PROVE  GrantsAreFriends'
<1>1. CASE UNCHANGED vars
  BY <1>1 DEF vars, tables, GrantsAreFriends
<1>2. CASE Request
  BY <1>2 DEF Request, Ask, AskOverview, AskLookup, AskBoard, AskFriends, AskHelper, ReadOwn,
       ReadPeriod, ReadPartners, ReadFriends, ReadShares, ReadRows, Close, tables, GrantsAreFriends
<1>3. CASE \E o \in Offers : EnterRow(o) \/ DeleteRow(o) \/ Pick(o) \/ Unpick(o)
  BY <1>3 DEF EnterRow, DeleteRow, Pick, Unpick, GrantsAreFriends
<1>4. CASE \E p \in PartnerOffers : EndOrReopen(p)
  BY <1>4 DEF EndOrReopen, GrantsAreFriends
<1>5. CASE \E s \in Shareable : Grant(s) \/ Revoke(s)
  BY <1>5 DEF Grant, Revoke, GrantsAreFriends
<1>6. CASE \E u \in Others : Befriend(u) \/ Unfriend(u)
  BY <1>6 DEF Befriend, Unfriend, Cascade, GrantsAreFriends
<1>7. CASE Midnight
  BY <1>7 DEF Midnight, GrantsAreFriends
<1> QED BY <1>1, <1>2, <1>3, <1>4, <1>5, <1>6, <1>7 DEF Next, Write

\* What a step of the others changes of the rows, the request is told.
LEMMA WritersNotice ==
  ASSUME Write
  PROVE  \E rows :
           /\ Noticing(rows)
           /\ \A o \in Offers : o.id \notin rows =>
                (o.id \in picked' <=> o.id \in picked) /\ (o.id \in menu' <=> o.id \in menu)
<1>1. CASE \E o \in Offers : EnterRow(o) \/ DeleteRow(o) \/ Pick(o) \/ Unpick(o)
  <2>1. PICK o \in Offers : EnterRow(o) \/ DeleteRow(o) \/ Pick(o) \/ Unpick(o)
    BY <1>1
  <2>2. /\ Noticing({o.id})
        /\ \A p \in Offers : p.id \notin {o.id} =>
             (p.id \in picked' <=> p.id \in picked) /\ (p.id \in menu' <=> p.id \in menu)
    BY <2>1 DEF EnterRow, DeleteRow, Pick, Unpick
  <2> QED BY <2>2
<1>2. CASE \/ \E p \in PartnerOffers : EndOrReopen(p)
           \/ \E s \in Shareable : Grant(s) \/ Revoke(s)
           \/ \E u \in Others : Befriend(u) \/ Unfriend(u)
           \/ Midnight
  <2>1. Noticing({}) /\ UNCHANGED <<menu, picked>>
    BY <1>2 DEF EndOrReopen, Grant, Revoke, Befriend, Unfriend, Midnight
  <2> QED BY <2>1
<1> QED BY <1>1, <1>2 DEF Write

\* While a request is made, rows it was not told of stay as they are.
LEMMA RowsKeep ==
  ASSUME Asking, Write, ask.op # None, ask.todo # <<>>
  PROVE  /\ ask'.steady = ask.steady \cap given'
         /\ ask'.op = ask.op /\ ask'.todo = ask.todo /\ ask'.names = ask.names
         /\ ask'.grants = ask.grants /\ ask'.seen = ask.seen
         /\ ask.moved \subseteq ask'.moved
         /\ \A o \in Offers :
              o.id \notin ask'.moved => Row(o)' = Row(o) /\ (o.id \in menu' <=> o.id \in menu)
<1>1. PICK rows :
        /\ Noticing(rows)
        /\ \A o \in Offers : o.id \notin rows =>
             (o.id \in picked' <=> o.id \in picked) /\ (o.id \in menu' <=> o.id \in menu)
  BY WritersNotice
<1>2. ask \in Note /\ ask # Idle /\ ~ Answered
  BY IdleIsNote DEF Asking, Answered
<1>3. PICK g : g = given'
  OBVIOUS
<1> DEFINE n == [ask EXCEPT !.ever = ask.ever \cup g, !.steady = ask.steady \cap g,
                            !.moved = ask.moved \cup rows]
<1>4. ask' = n
  BY <1>1, <1>2, <1>3 DEF Noticing
<1>5. n.op = ask.op /\ n.todo = ask.todo /\ n.grants = ask.grants /\ n.names = ask.names
      /\ n.seen = ask.seen /\ n.steady = ask.steady \cap g /\ n.moved = ask.moved \cup rows
  BY <1>2 DEF Note
<1> HIDE DEF n
<1>6. \A o \in Offers : o.id \notin ask'.moved => Row(o)' = Row(o)
  BY <1>1, <1>4, <1>5 DEF Row
<1> QED BY <1>1, <1>3, <1>4, <1>5, <1>6

LEMMA HeldWrite ==
  ASSUME Steadily, Write
  PROVE  Held'
<1>1. CASE ask.op = None
  <2>1. PICK rows : Noticing(rows)
    BY WritersNotice
  <2>2. ask \in Note
    BY DEF Steadily, Asking
  <2>3. ask'.op = None
    BY <1>1, <2>1, <2>2 DEF Noticing, Note
  <2> QED BY <2>3 DEF Held
<1>2. CASE ask.op # None /\ ask.todo = <<>>
  <2>1. PICK rows : Noticing(rows)
    BY WritersNotice
  <2>2. ask' = ask /\ Left = 0
    BY <1>2, <2>1 DEF Noticing, Answered, Left
  <2>3. \A r : Still(r)' <=> Still(r)
    BY <2>2 DEF Still
  <2> QED BY <2>2, <2>3 DEF Held, Left, Steadily
<1>3. CASE ask.op # None /\ ask.todo # <<>>
  <2>1. /\ ask'.steady = ask.steady \cap given'
         /\ ask'.op = ask.op /\ ask'.todo = ask.todo /\ ask'.names = ask.names
         /\ ask'.grants = ask.grants /\ ask'.seen = ask.seen
         /\ ask.moved \subseteq ask'.moved
         /\ \A o \in Offers :
              o.id \notin ask'.moved => Row(o)' = Row(o) /\ (o.id \in menu' <=> o.id \in menu)
    BY <1>3, RowsKeep DEF Steadily
  <2>2. \A o : Still(o)' => Still(o) /\ o.id \notin ask'.moved
    BY <2>1 DEF Still
  <2>3. Left' = Left
    BY <2>1 DEF Left
  <2> SUFFICES ASSUME ask.op = "overview" PROVE Held'
    BY <2>1 DEF Held
  <2>4. Left \in 0..8 /\ \A i \in 1..Left : ask.todo[i] = Overview[8 - Left + i]
    BY <1>3 DEF Held, Steadily
  <2>5. ask'.steady \subseteq given' /\ ask'.steady \subseteq ask.steady
    BY <2>1
  <2>6. Left <= 6 => \A s \in ask'.steady : s.friend \in ask'.names
    BY <1>3, <2>1, <2>5 DEF Held, Steadily
  <2>7. Left <= 5 => ask'.steady \subseteq ask'.grants
    BY <1>3, <2>1, <2>5 DEF Held, Steadily
  <2>8. Len(ask'.seen) = IF Left >= 5 THEN 0 ELSE IF Left >= 2 THEN 1 ELSE 2
    BY <1>3, <2>1 DEF Held, Steadily
  <2>9. Left \in 1..4 =>
          \A o \in Offers : Still(o)' /\ o.id \in menu' => Row(o)' \in ask'.seen[1].rows
    BY <1>3, <2>1, <2>2 DEF Held, Steadily
  <2>10. Left <= 1 =>
           \A r \in ask'.seen[2].rows : Still(r)' => r \in ask'.seen[1].rows
    BY <1>3, <2>1, <2>2 DEF Held, Steadily
  <2> QED BY <2>1, <2>3, <2>4, <2>5, <2>6, <2>7, <2>8, <2>9, <2>10 DEF Held
<1> QED BY <1>1, <1>2, <1>3

\* the overview reads these statements, in this order
LEMMA OverviewIsRead ==
  Len(Reads("overview")) = 8 /\ \A i \in 1..8 : Reads("overview")[i] = Overview[i]
<1>1. ASSUME NEW a, NEW b, NEW c, NEW d, NEW e
      PROVE  LET s == <<a>> \o <<b, c, d>> \o <<b, c, d>> \o <<e>> IN
             Len(s) = 8 /\ s[1] = a /\ s[2] = b /\ s[3] = c /\ s[4] = d
               /\ s[5] = b /\ s[6] = c /\ s[7] = d /\ s[8] = e
  <2> DEFINE U == {a, b, c, d, e}
             s1 == <<a>> \o <<b, c, d>>
             s2 == s1 \o <<b, c, d>>
             s3 == s2 \o <<e>>
           t == <<b, c, d>>
           last == <<e>>
  <2>0. ASSUME NEW u \in Seq(U), NEW v \in Seq(U)
        PROVE  /\ u \o v \in Seq(U) /\ Len(u \o v) = Len(u) + Len(v)
               /\ \A i \in 1..Len(u) : (u \o v)[i] = u[i]
               /\ \A i \in 1..Len(v) : (u \o v)[Len(u) + i] = v[i]
    OBVIOUS
  <2>1. /\ t \in Seq(U) /\ Len(t) = 3 /\ t[1] = b /\ t[2] = c /\ t[3] = d
        /\ last \in Seq(U) /\ Len(last) = 1 /\ last[1] = e
    OBVIOUS
  <2>2. s1 \in Seq(U) /\ Len(s1) = 4 /\ s1[1] = a /\ s1[2] = b /\ s1[3] = c /\ s1[4] = d
    OBVIOUS
  <2>3. s2 \in Seq(U) /\ Len(s2) = 7 /\ s2[1] = a /\ s2[2] = b /\ s2[3] = c /\ s2[4] = d
          /\ s2[5] = b /\ s2[6] = c /\ s2[7] = d
    <3> DEFINE w == s1 \o t
    <3> HIDE DEF s1, U, t
    <3>1. w \in Seq(U) /\ Len(w) = Len(s1) + Len(t)
               /\ (\A i \in 1..Len(s1) : w[i] = s1[i])
               /\ \A i \in 1..Len(t) : w[Len(s1) + i] = t[i]
      BY <2>0, <2>1, <2>2
    <3> HIDE DEF w
    <3>2. w \in Seq(U) /\ Len(w) = 7 /\ w[1] = a /\ w[2] = b /\ w[3] = c /\ w[4] = d
      BY <2>1, <2>2, <3>1
    <3>3. w[4 + 1] = b /\ w[4 + 2] = c /\ w[4 + 3] = d
      BY <2>1, <2>2, <3>1
    <3> QED BY <3>2, <3>3 DEF w, t
  <2> HIDE DEF s2, U, t, last
  <2>4. Len(s3) = 8 /\ s3[1] = a /\ s3[2] = b /\ s3[3] = c /\ s3[4] = d
          /\ s3[5] = b /\ s3[6] = c /\ s3[7] = d /\ s3[8] = e
    <3> DEFINE w == s2 \o last
    <3>1. w \in Seq(U) /\ Len(w) = Len(s2) + Len(last)
               /\ (\A i \in 1..Len(s2) : w[i] = s2[i])
               /\ \A i \in 1..Len(last) : w[Len(s2) + i] = last[i]
      BY <2>0, <2>1, <2>3
    <3> HIDE DEF w
    <3>2. Len(w) = 8 /\ w[1] = a /\ w[2] = b /\ w[3] = c /\ w[4] = d
          /\ w[5] = b /\ w[6] = c /\ w[7] = d
      BY <2>1, <2>3, <3>1
    <3>3. w[7 + 1] = e
      BY <2>1, <2>3, <3>1
    <3> QED BY <3>2, <3>3 DEF w, last
  <2> QED BY <2>4 DEF s1, s2
<1>2. Reads("overview") = <<"own">> \o Shared \o Shared \o <<"partners">>
  BY DEF Reads
<1>3. /\ Len(Reads("overview")) = 8
      /\ Reads("overview")[1] = "own" /\ Reads("overview")[2] = "friends"
      /\ Reads("overview")[3] = "shares" /\ Reads("overview")[4] = "rows"
      /\ Reads("overview")[5] = "friends" /\ Reads("overview")[6] = "shares"
      /\ Reads("overview")[7] = "rows" /\ Reads("overview")[8] = "partners"
  BY <1>1, <1>2 DEF Shared
<1> HIDE DEF Reads
<1>4. \A i \in 1..8 : i = 1 \/ i = 2 \/ i = 3 \/ i = 4 \/ i = 5 \/ i = 6 \/ i = 7 \/ i = 8
  OBVIOUS
<1> QED BY <1>3, <1>4 DEF Overview

\* which statement comes next says how many are left
LEMMA NextLeft ==
  ASSUME Asking, Held, ask.op # None, ask.op = "overview", ask.todo # <<>>,
         ask'.todo = Tail(ask.todo)
  PROVE  /\ Left \in 1..8 /\ Left' = Left - 1 /\ Left' \in 0..8
         /\ \A i \in 1..Left' : ask'.todo[i] = Overview[8 - Left' + i]
         /\ Reading("own") => Left = 8
         /\ Reading("friends") => Left \in {7, 4}
         /\ Reading("shares") => Left \in {6, 3}
         /\ Reading("rows") => Left \in {5, 2}
         /\ Reading("partners") => Left = 1
         /\ ~ Reading("period")
<1>1. /\ ask.todo \in Seq(Statements) /\ Len(ask.todo) \in 0..8
      /\ \A i \in 1..Len(ask.todo) : ask.todo[i] = Overview[8 - Len(ask.todo) + i]
  BY DEF Asking, Note, Held, Left
<1>2. Len(ask.todo) \in 1..8 /\ Len(Tail(ask.todo)) = Len(ask.todo) - 1
      /\ \A i \in 1..Len(Tail(ask.todo)) : Tail(ask.todo)[i] = ask.todo[i + 1]
  BY <1>1
<1>3. \A i \in 1..Len(Tail(ask.todo)) : Tail(ask.todo)[i] = Overview[8 - Len(Tail(ask.todo)) + i]
  <2> TAKE i \in 1..Len(Tail(ask.todo))
  <2>1. PICK k \in 1..8 : Len(ask.todo) = k /\ Len(Tail(ask.todo)) = k - 1
    BY <1>2
  <2>2. i \in 1..(k - 1) /\ i + 1 \in 1..k /\ 8 - k + (i + 1) = 8 - (k - 1) + i
    BY <2>1
  <2> QED BY <1>1, <1>2, <2>1, <2>2
<1>4. ask.todo[1] = Overview[9 - Len(ask.todo)]
  <2>1. 1 \in 1..Len(ask.todo) /\ 8 - Len(ask.todo) + 1 = 9 - Len(ask.todo)
    BY <1>2
  <2> QED BY <1>1, <2>1
<1>5. \/ Len(ask.todo) = 1 \/ Len(ask.todo) = 2 \/ Len(ask.todo) = 3 \/ Len(ask.todo) = 4
      \/ Len(ask.todo) = 5 \/ Len(ask.todo) = 6 \/ Len(ask.todo) = 7 \/ Len(ask.todo) = 8
  BY <1>2
<1>6. Overview[1] = "own" /\ Overview[2] = "friends" /\ Overview[3] = "shares" /\ Overview[4] = "rows"
      /\ Overview[5] = "friends" /\ Overview[6] = "shares" /\ Overview[7] = "rows"
      /\ Overview[8] = "partners"
  BY DEF Overview
<1>7. /\ Reading("own") => Len(ask.todo) = 8
      /\ Reading("friends") => Len(ask.todo) \in {7, 4}
      /\ Reading("shares") => Len(ask.todo) \in {6, 3}
      /\ Reading("rows") => Len(ask.todo) \in {5, 2}
      /\ Reading("partners") => Len(ask.todo) = 1
      /\ ~ Reading("period")
  <2>1. ASSUME NEW what, ask.todo[1] = what PROVE Overview[9 - Len(ask.todo)] = what
    BY <1>4, <2>1
  <2> DEFINE k == Len(ask.todo)
  <2>2. 9 - k = 9 - Len(ask.todo) /\ k = Len(ask.todo)
    OBVIOUS
  <2> HIDE DEF k
  <2>3. /\ k = 1 => Overview[9 - k] = "partners"
        /\ k = 2 \/ k = 5 => Overview[9 - k] = "rows"
        /\ k = 3 \/ k = 6 => Overview[9 - k] = "shares"
        /\ k = 4 \/ k = 7 => Overview[9 - k] = "friends"
        /\ k = 8 => Overview[9 - k] = "own"
    BY <1>6
  <2> QED BY <1>4, <1>5, <2>2, <2>3 DEF Reading
<1>8. Left' = Len(Tail(ask.todo)) /\ Left = Len(ask.todo)
  BY DEF Left
<1>9. Left' \in 0..8
  BY <1>2, <1>8
<1> QED BY <1>2, <1>3, <1>7, <1>8, <1>9

LEMMA HeldAsk ==
  ASSUME Steadily, NEW op \in {"overview", "lookup", "board", "browse", "helper"},
         NEW cat \in {None} \cup Categories \cup Nat, NEW day \in {None} \cup Days, Ask(op, cat, day)
  PROVE  Held'
<1> DEFINE n == [Idle EXCEPT !.op = op, !.cat = cat, !.day = day, !.now = today,
                             !.todo = Reads(op), !.began = today, !.ever = given,
                             !.steady = given]
<1>1. ask' = n /\ given' = given
  BY DEF Ask, tables
<1>2. Idle \in Note /\ Idle.seen = <<>>
  BY IdleIsNote DEF Idle
<1>3. n.op = op /\ n.todo = Reads(op) /\ n.seen = <<>> /\ n.steady = given
  BY <1>2 DEF Note
<1> HIDE DEF n
<1>4. CASE op = "overview"
  <2>1. Left' = 8 /\ \A i \in 1..Left' : ask'.todo[i] = Overview[8 - Left' + i]
    <3>1. ask'.todo = Reads("overview") /\ Left' = Len(ask'.todo)
      BY <1>1, <1>3, <1>4 DEF Left
    <3>2. Left' = 8
      BY <3>1, OverviewIsRead
    <3>3. \A i \in 1..8 : 8 - 8 + i = i
      OBVIOUS
    <3>4. \A i \in 1..8 : ask'.todo[i] = Overview[8 - 8 + i]
      BY <3>1, <3>3, OverviewIsRead
    <3> QED BY <3>2, <3>4
  <2>2. Len(ask'.seen) = 0 /\ ask'.steady \subseteq given'
    BY <1>1, <1>3
  <2> QED BY <2>1, <2>2 DEF Held
<1>5. CASE op # "overview"
  BY <1>1, <1>3, <1>5 DEF Held
<1> QED BY <1>4, <1>5

\* the statements but that of the rows
LEMMA HeldRead ==
  ASSUME Steadily, ReadOwn \/ ReadPartners \/ ReadFriends \/ ReadShares \/ ReadPeriod
  PROVE  Held'
<1>1. UNCHANGED tables /\ ask \in Note /\ ask.todo # <<>>
  BY DEF ReadOwn, ReadPartners, ReadFriends, ReadShares, ReadPeriod, Reading, Steadily, Asking
<1> DEFINE Same ==
             /\ ask'.op = ask.op /\ ask'.todo = Tail(ask.todo) /\ ask'.seen = ask.seen
             /\ ask'.steady = ask.steady /\ ask'.moved = ask.moved
<1>2. /\ Same
      /\ \/ Reading("own") /\ ask'.names = ask.names /\ ask'.grants = ask.grants
         \/ Reading("partners") /\ ask'.names = ask.names /\ ask'.grants = ask.grants
         \/ Reading("period") /\ ask'.names = ask.names /\ ask'.grants = ask.grants
         \/ Reading("friends") /\ ask'.names = friends /\ ask'.grants = ask.grants
         \/ /\ Reading("shares") /\ ask'.names = ask.names
            /\ ask'.grants = {s \in shares : s.friend \in ask.names}
  <2>1. CASE ReadOwn
    <3>1. Same /\ Reading("own") /\ ask'.names = ask.names /\ ask'.grants = ask.grants
      BY <1>1, <2>1 DEF ReadOwn, Note
    <3> QED BY <3>1
  <2>2. CASE ReadPartners
    <3>1. Same /\ Reading("partners") /\ ask'.names = ask.names /\ ask'.grants = ask.grants
      BY <1>1, <2>2 DEF ReadPartners, Note
    <3> QED BY <3>1
  <2>3. CASE ReadFriends
    <3>1. Same /\ Reading("friends") /\ ask'.names = friends /\ ask'.grants = ask.grants
      BY <1>1, <2>3 DEF ReadFriends, ListFriendsForUser, Note
    <3> QED BY <3>1
  <2>4. CASE ReadShares
    <3>1. Same /\ Reading("shares") /\ ask'.names = ask.names
            /\ ask'.grants = {s \in shares : s.friend \in ask.names}
      BY <1>1, <2>4 DEF ReadShares, ListSharedWithViewer, Note
    <3> QED BY <3>1
  <2>5. CASE ReadPeriod
    <3>1. Same /\ Reading("period") /\ ask'.names = ask.names /\ ask'.grants = ask.grants
      BY <1>1, <2>5 DEF ReadPeriod, Note
    <3> QED BY <3>1
  <2> QED BY <2>1, <2>2, <2>3, <2>4, <2>5
<1> SUFFICES ASSUME ask.op # None, ask.op = "overview" PROVE Held'
  BY <1>2 DEF Held
<1>3. /\ Left \in 1..8 /\ Left' = Left - 1 /\ Left' \in 0..8
      /\ \A i \in 1..Left' : ask'.todo[i] = Overview[8 - Left' + i]
      /\ Reading("own") => Left = 8
      /\ Reading("friends") => Left \in {7, 4}
      /\ Reading("shares") => Left \in {6, 3}
      /\ Reading("rows") => Left \in {5, 2}
      /\ Reading("partners") => Left = 1
      /\ ~ Reading("period")
  BY <1>1, <1>2, NextLeft DEF Steadily
<1>4. given = shares /\ given' = given /\ \A s \in shares : s.friend \in friends
  BY <1>1 DEF Steadily, Asking, TablesOK, GrantsAreFriends, tables
<1>5. /\ Left > 0 => ask.steady \subseteq given
      /\ Left <= 6 => \A s \in ask.steady : s.friend \in ask.names
      /\ Left <= 5 => ask.steady \subseteq ask.grants
      /\ Len(ask.seen) = IF Left >= 5 THEN 0 ELSE IF Left >= 2 THEN 1 ELSE 2
      /\ Left \in 1..4 =>
           \A o \in Offers : Still(o) /\ o.id \in menu => Row(o) \in ask.seen[1].rows
      /\ Left <= 1 =>
           \A r \in ask.seen[2].rows : Still(r) => r \in ask.seen[1].rows
  BY DEF Steadily, Held
<1>6. \/ Left \in {8, 1} /\ ask'.names = ask.names /\ ask'.grants = ask.grants
      \/ Left \in {7, 4} /\ ask'.names = friends /\ ask'.grants = ask.grants
      \/ /\ Left \in {6, 3} /\ ask'.names = ask.names
         /\ ask'.grants = {s \in shares : s.friend \in ask.names}
  BY <1>2, <1>3
<1>7. ask'.steady \subseteq given'
  BY <1>2, <1>3, <1>4, <1>5
<1>8. Left' <= 6 => \A s \in ask'.steady : s.friend \in ask'.names
  BY <1>2, <1>3, <1>4, <1>5, <1>6
<1>9. Left' <= 5 => ask'.steady \subseteq ask'.grants
  BY <1>2, <1>3, <1>4, <1>5, <1>6
<1>10. Len(ask'.seen) = IF Left' >= 5 THEN 0 ELSE IF Left' >= 2 THEN 1 ELSE 2
  BY <1>2, <1>3, <1>5, <1>6
<1>11. \A r : Still(r)' <=> Still(r)
  BY <1>2 DEF Still
<1>12. Left' \in 1..4 =>
           \A o \in Offers : Still(o)' /\ o.id \in menu' => Row(o)' \in ask'.seen[1].rows
  BY <1>1, <1>2, <1>3, <1>5, <1>6, <1>11 DEF tables, Row
<1>13. Left' <= 1 =>
           \A r \in ask'.seen[2].rows : Still(r)' => r \in ask'.seen[1].rows
  BY <1>2, <1>3, <1>5, <1>6, <1>11
<1> QED BY <1>3, <1>7, <1>8, <1>9, <1>10, <1>12, <1>13 DEF Held

\* The second picture has nothing that stood still and that the first lacks.
LEMMA HeldRows ==
  ASSUME Steadily, ReadRows
  PROVE  Held'
<1>1. PICK p : /\ ask' = [ask EXCEPT !.seen = Append(ask.seen, p), !.todo = Tail(ask.todo)]
               /\ p.rows = ListOffersForClients({s.client : s \in ask.grants})
  <2>1. PICK p : p = [grants |-> ask.grants,
                      rows   |-> ListOffersForClients({s.client : s \in ask.grants}),
                      now    |-> IF ask.op = "browse" THEN ask.now ELSE today]
    OBVIOUS
  <2>2. p.rows = ListOffersForClients({s.client : s \in ask.grants})
    BY <2>1
  <2> QED BY <2>1, <2>2 DEF ReadRows
<1>2. UNCHANGED tables /\ ask \in Note /\ ask.todo # <<>> /\ Reading("rows")
  BY DEF ReadRows, Reading, Steadily, Asking
<1>3. /\ ask'.op = ask.op /\ ask'.todo = Tail(ask.todo) /\ ask'.seen = Append(ask.seen, p)
      /\ ask'.steady = ask.steady /\ ask'.moved = ask.moved /\ ask'.names = ask.names
      /\ ask'.grants = ask.grants
  BY <1>1, <1>2 DEF Note
<1> SUFFICES ASSUME ask.op # None, ask.op = "overview" PROVE Held'
  BY <1>3 DEF Held
<1>4. /\ Left \in {5, 2} /\ Left' = Left - 1 /\ Left' \in 0..8
      /\ \A i \in 1..Left' : ask'.todo[i] = Overview[8 - Left' + i]
  BY <1>2, <1>3, NextLeft DEF Steadily
<1>5. /\ ask.steady \subseteq given /\ ask.steady \subseteq ask.grants
      /\ \A s \in ask.steady : s.friend \in ask.names
      /\ Len(ask.seen) = IF Left = 5 THEN 0 ELSE 1
      /\ Left = 2 =>
           \A o \in Offers : Still(o) /\ o.id \in menu => Row(o) \in ask.seen[1].rows
  BY <1>4 DEF Steadily, Held
<1>6. /\ Len(ask'.seen) = Len(ask.seen) + 1 /\ ask'.seen[Len(ask.seen) + 1] = p
      /\ Left = 2 => ask'.seen[1] = ask.seen[1]
  <2>1. ask.seen \in Seq(Seen)
    BY <1>2 DEF Note
  <2> QED BY <1>3, <1>4, <1>5, <2>1
<1>7. \A r : Still(r)' <=> Still(r)
  BY <1>3 DEF Still
<1>8. \A o \in Offers : Row(o)' = Row(o) /\ (o.id \in menu' <=> o.id \in menu)
  BY <1>2 DEF Row, tables
<1>9. \A o \in Offers : Still(o) /\ o.id \in menu => Row(o) \in p.rows
  <2> TAKE o \in Offers
  <2> HAVE Still(o) /\ o.id \in menu
  <2>1. [client |-> o.client, friend |-> o.user] \in ask.grants
    BY <1>5 DEF Still
  <2>2. o.client \in {s.client : s \in ask.grants}
    BY <2>1
  <2> QED BY <1>1, <2>2 DEF ListOffersForClients
<1>10. CASE Left = 5
  <2>1. Left' = 4 /\ Len(ask'.seen) = 1 /\ ask'.seen[1] = p
    BY <1>4, <1>5, <1>6, <1>10
  <2>2. \A o \in Offers : Still(o)' /\ o.id \in menu' => Row(o)' \in ask'.seen[1].rows
    BY <1>7, <1>8, <1>9, <2>1
  <2>3. ask'.steady \subseteq given' /\ \A s \in ask'.steady : s.friend \in ask'.names
    BY <1>2, <1>3, <1>5 DEF tables
  <2>4. ask'.steady \subseteq ask'.grants
    BY <1>3, <1>5
  <2>5. \A i \in 1..Left' : ask'.todo[i] = Overview[8 - Left' + i]
    BY <1>4
  <2> QED BY <2>1, <2>2, <2>3, <2>4, <2>5 DEF Held
<1>11. CASE Left = 2
  <2>1. Left' = 1 /\ Len(ask'.seen) = 2 /\ ask'.seen[2] = p /\ ask'.seen[1] = ask.seen[1]
    BY <1>4, <1>5, <1>6, <1>11
  <2>2. \A o \in Offers : Still(o)' /\ o.id \in menu' => Row(o)' \in ask'.seen[1].rows
    BY <1>5, <1>7, <1>8, <1>11, <2>1
  <2>3. \A r \in p.rows : Still(r) => r \in ask.seen[1].rows
    <3> TAKE r \in p.rows
    <3> HAVE Still(r)
    <3>1. PICK o \in Offers : o.id \in menu /\ r = Row(o)
      BY <1>1 DEF ListOffersForClients
    <3>2. Still(o)
      BY <3>1, RowIs DEF Still
    <3> QED BY <1>5, <1>11, <3>1, <3>2
  <2>4. ask'.steady \subseteq given' /\ \A s \in ask'.steady : s.friend \in ask'.names
    BY <1>2, <1>3, <1>5 DEF tables
  <2>5. ask'.steady \subseteq ask'.grants
    BY <1>3, <1>5
  <2>6. \A i \in 1..Left' : ask'.todo[i] = Overview[8 - Left' + i]
    BY <1>4
  <2>7. \A r \in ask'.seen[2].rows : Still(r)' => r \in ask'.seen[1].rows
    BY <1>7, <2>1, <2>3
  <2> QED BY <2>1, <2>2, <2>4, <2>5, <2>6, <2>7 DEF Held
<1> QED BY <1>4, <1>10, <1>11

LEMMA SteadilyStep ==
  ASSUME Steadily, [Next]_vars
  PROVE  Steadily'
<1>1. Asking' /\ GrantsAreFriends'
  BY AskingStep, GrantsStep DEF Steadily
<1>2. CASE UNCHANGED vars
  <2>1. Held'
    BY <1>2 DEF vars, tables, Held, Steadily, Still, Left, Row
  <2> QED BY <1>1, <2>1 DEF Steadily
<1>3. CASE Request
  <2>1. CASE \E day \in Days : \/ "overview" \in Ops /\ AskOverview(day)
                               \/ "board" \in Ops /\ AskBoard(day)
                               \/ "lookup" \in Ops /\ \E c \in Categories : AskLookup(c, day)
    <3>1. PICK day \in Days : \/ Ask("overview", None, day) \/ Ask("board", None, day)
                              \/ \E c \in Categories : Ask("lookup", c, day)
      BY <2>1 DEF AskOverview, AskBoard, AskLookup
    <3> QED BY <1>1, <3>1, HeldAsk DEF Steadily
  <2>2. CASE "browse" \in Ops /\ AskFriends
    BY <1>1, <2>2, HeldAsk DEF AskFriends, Steadily
  <2>3. CASE "helper" \in Ops /\ \E p \in Periods : AskHelper(p.id)
    BY <1>1, <2>3, HeldAsk, PeriodsAssumption DEF AskHelper, Steadily
  <2>4. CASE ReadOwn \/ ReadPeriod \/ ReadPartners \/ ReadFriends \/ ReadShares
    BY <1>1, <2>4, HeldRead DEF Steadily
  <2>5. CASE ReadRows
    BY <1>1, <2>5, HeldRows DEF Steadily
  <2>6. CASE Close
    <3>1. ask'.op = None
      BY <2>6, IdleIsNote DEF Close
    <3> QED BY <1>1, <3>1 DEF Steadily, Held
  <2> QED BY <1>3, <2>1, <2>2, <2>3, <2>4, <2>5, <2>6 DEF Request
<1>4. CASE Write
  BY <1>1, <1>4, HeldWrite DEF Steadily
<1> QED BY <1>2, <1>3, <1>4 DEF Next

\* entries of one client are of one bank
LEMMA BankOfClient ==
  ASSUME NEW n, NoteOK(n)
  PROVE  \A e \in EntriesOf(n.own, n.seen[1]), r \in n.seen[1].rows :
           e.client = r.client => e.bank = r.bank
<1>1. \A r \in n.own : \E o \in Offers : EntryOf(r).client = o.client /\ EntryOf(r).bank = o.bank
  BY DEF NoteOK, Table, RowOf, EntryOf
<1>2. ASSUME NEW r \in n.seen[1].rows
      PROVE  \E o \in Offers : /\ FriendEntryOf(r, n.seen[1]).client = o.client
                               /\ FriendEntryOf(r, n.seen[1]).bank = o.bank
                               /\ r.client = o.client /\ r.bank = o.bank
  <2>1. SharedOK(n.seen[1])
    BY DEF NoteOK
  <2>2. LET e == FriendEntryOf(r, n.seen[1]) IN
           /\ EntryFrom(e, r) /\ e.friend \in Others /\ e.friend = r.user /\ e.cap = None
           /\ [client |-> e.client, friend |-> e.friend] \in n.seen[1].grants
           /\ e.friend # None
    BY <2>1, FriendEntry
  <2> QED BY <2>1, <2>2 DEF SharedOK, Table, RowOf, EntryFrom
<1>3. \A e \in EntriesOf(n.own, n.seen[1]) : \E o \in Offers : e.client = o.client /\ e.bank = o.bank
  BY <1>1, <1>2 DEF EntriesOf
<1> QED BY <1>2, <1>3, OffersAssumption

\* a bank of the entries has a logo
LEMMA LogoOf ==
  ASSUME NEW X, NEW d \in X
  PROVE  \E b \in BankStack(X) : b.bank = d.bank
<1> DEFINE of(x) == \A e \in X : e.bank = x => e.friend # None
           logo(x) == [bank |-> x, friend |-> of(x)]
<1>1. BankStack(X) = {logo(x) : x \in {e.bank : e \in X}}
  BY DEF BankStack
<1> HIDE DEF of
<1>2. \A x : logo(x).bank = x
  OBVIOUS
<1> HIDE DEF logo
<1>3. d.bank \in {e.bank : e \in X}
  OBVIOUS
<1> QED BY <1>1, <1>2, <1>3

\* A row a friend picked puts its bank into the row of its category.
LEMMA PickedIsNamed ==
  ASSUME NEW n, NoteOK(n), NEW r \in n.seen[1].rows, r.selected,
         r.cat \notin {None, AllPurchases}, Covers(r, n.day),
         Overlaps(r, FriendShareWindow(n.seen[1].now))
  PROVE  /\ Group(n, r.cat) \in FeedGroups(n)
         /\ r.bank \in {b.bank : b \in Group(n, r.cat).stack}
<1> DEFINE sh == n.seen[1]
           c == r.cat
           e == FriendEntryOf(r, sh)
           S == OfCategory(Chosen(n), c)
           A == {x \in S : Covers(x, n.day)}
           T == StackSupers(A)
           ranked == RankActiveSelections(n.day, S)
           g == Group(n, c)
<1>1. SharedOK(sh)
  BY DEF NoteOK
<1>2. EntryFrom(e, r)
  <2>1. /\ EntryFrom(e, r) /\ e.friend \in Others /\ e.friend = r.user /\ e.cap = None
        /\ [client |-> e.client, friend |-> e.friend] \in sh.grants
        /\ e.friend # None
    BY <1>1, FriendEntry
  <2> QED BY <2>1
<1>3. e \in Chosen(n) /\ e.cat = c /\ Covers(e, n.day)
  BY <1>2 DEF Chosen, FriendEntriesByCategory, EntryFrom, Covers
<1>4. e \in A /\ e \in S
  BY <1>3 DEF OfCategory
<1>5. Told(A) /\ Told(T) /\ Lists(ranked, T)
      /\ \A i, j \in DOMAIN ranked : i < j => Before(RankKey(ranked[i]), RankKey(ranked[j]))
  <2>1. Told(S)
    BY ChosenIsTold
  <2> HIDE DEF S
  <2> QED BY <2>1, RankedSelections
<1>6. A \subseteq EntriesOf(n.own, sh)
  BY ChosenIsTold DEF OfCategory
<1>7. PICK d \in T : d.client = e.client
  <2> HIDE DEF A, e
  <2> QED BY <1>4, <1>5, ClientsStay
<1>8. d.bank = r.bank
  <2> HIDE DEF A, e
  <2>1. PICK x \in Kept(A) : d = OnTop(A, x)
    BY <1>5, <1>7, StackedIsTold
  <2>2. x \in A
    BY DEF Kept
  <2>3. SameRow(d, x)
    BY <1>5, <2>1, <2>2, OnTopIsEntry
  <2>4. x.client = r.client
    BY <1>2, <1>7, <2>3 DEF SameRow, EntryFrom
  <2>5. x.bank = r.bank
    BY <1>6, <2>2, <2>4, BankOfClient
  <2> QED BY <2>3, <2>5 DEF SameRow
<1>9. Range(ranked) = T
  <2> HIDE DEF ranked, T
  <2> QED BY <1>5 DEF Lists, Range
<1>10. /\ g.best = FirstOwn(ranked) /\ g.friendBest = FirstFriend(ranked)
       /\ \E X : d \in X /\ g.stack = BankStack(X)
  <2>1. g.best = FirstOwn(ranked) /\ g.friendBest = FirstFriend(ranked)
    BY DEF Group
  <2>2. S # {}
    BY <1>4
  <2>3. g.stack = BankStack(Range(ranked) \cup OfCategory(CanPick(n), c) \cup OfCategory(CanAskFor(n), c))
    BY <2>2 DEF Group
  <2> HIDE DEF g, ranked, T
  <2> QED BY <1>7, <1>9, <2>1, <2>3
<1>11. r.bank \in {b.bank : b \in g.stack}
  <2>1. PICK X : d \in X /\ g.stack = BankStack(X)
    BY <1>10
  <2> HIDE DEF g
  <2>2. \E b \in BankStack(X) : b.bank = d.bank
    BY <2>1, LogoOf
  <2> QED BY <1>8, <2>1, <2>2
<1>12. g.best # None \/ g.friendBest # None
  <2> HIDE DEF ranked, T, g, A, S
  <2>1. CASE OwnOf(T) # {}
    <3>1. FirstOwn(ranked) \in T
      BY <1>5, <2>1, BestLeads DEF Leads, OwnOf
    <3> QED BY <1>5, <1>10, <3>1, NullAssumption DEF Told
  <2>2. CASE OwnOf(T) = {}
    <3>1. ranked # <<>> /\ ranked[1] \in T
      BY <1>5, <1>7 DEF Lists
    <3>2. ranked[1].friend # None /\ ranked[1] # None
      BY <1>5, <2>2, <3>1, NullAssumption DEF Told, OwnOf
    <3> QED BY <1>10, <3>1, <3>2 DEF FirstFriend
  <2> QED BY <2>1, <2>2
<1>13. g \in FeedGroups(n)
  <2>1. c \in {x.cat : x \in Chosen(n) \cup CanPick(n) \cup CanAskFor(n)}
    BY <1>3
  <2> HIDE DEF g
  <2> QED BY <1>12, <2>1 DEF FeedGroups, g
<1> QED BY <1>11, <1>13

\* of two entries, the one listed first is no worse: the key that orders them
\* begins with what they are worth
LEMMA FirstIsNoWorse ==
  ASSUME NEW x \in Entry, NEW y \in Entry, x = y \/ Before(AvailKey(x), AvailKey(y))
  PROVE  ~ Before(<<VerdictOrder(y.verdict), CurrencyOrder(y.currency), DescPercent(y.percent)>>,
                  <<VerdictOrder(x.verdict), CurrencyOrder(x.currency), DescPercent(x.percent)>>)
<1> DEFINE a1 == VerdictOrder(x.verdict)
           a2 == CurrencyOrder(x.currency)
           a3 == DescPercent(x.percent)
           b1 == VerdictOrder(y.verdict)
           b2 == CurrencyOrder(y.currency)
           b3 == DescPercent(y.percent)
<1>1. a1 \in Int /\ a2 \in Int /\ a3 \in Int /\ b1 \in Int /\ b2 \in Int /\ b3 \in Int
  BY KeysAreNumbers
<1>2. AvailKey(x) = <<a1, a2, a3, x.bank, x.label, x.id>>
      /\ AvailKey(y) = <<b1, b2, b3, y.bank, y.label, y.id>>
  BY DEF AvailKey
<1> HIDE DEF a1, a2, a3, b1, b2, b3
<1> SUFFICES ASSUME Before(<<b1, b2, b3>>, <<a1, a2, a3>>) PROVE FALSE
  BY DEF a1, a2, a3, b1, b2, b3
<1>3. b1 < a1 \/ (b1 = a1 /\ b2 < a2) \/ (b1 = a1 /\ b2 = a2 /\ b3 < a3)
  BY DEF Before
<1>4. a1 <= b1 /\ (a1 = b1 => a2 <= b2) /\ (a1 = b1 /\ a2 = b2 => a3 <= b3)
  <2>1. CASE x = y
    BY <1>1, <2>1 DEF a1, a2, a3, b1, b2, b3
  <2>2. CASE Before(AvailKey(x), AvailKey(y))
    <3>1. PICK i \in 1..6 : /\ AvailKey(x)[i] < AvailKey(y)[i]
                            /\ \A j \in 1..(i - 1) : AvailKey(x)[j] = AvailKey(y)[j]
      BY <1>2, <2>2 DEF Before
    <3>2. /\ AvailKey(x)[1] = a1 /\ AvailKey(x)[2] = a2 /\ AvailKey(x)[3] = a3
          /\ AvailKey(y)[1] = b1 /\ AvailKey(y)[2] = b2 /\ AvailKey(y)[3] = b3
      BY <1>2
    <3>3. CASE i = 1
      BY <1>1, <3>1, <3>2, <3>3
    <3>4. CASE i = 2
      <4>1. 1 \in 1..(i - 1)
        BY <3>4
      <4> QED BY <1>1, <3>1, <3>2, <3>4, <4>1
    <3>5. CASE i = 3
      <4>1. 1 \in 1..(i - 1) /\ 2 \in 1..(i - 1)
        BY <3>5
      <4> QED BY <1>1, <3>1, <3>2, <3>5, <4>1
    <3>6. CASE i > 3
      <4>1. 1 \in 1..(i - 1) /\ 2 \in 1..(i - 1) /\ 3 \in 1..(i - 1)
        BY <3>1, <3>6
      <4> QED BY <1>1, <3>1, <3>2, <4>1
    <3> QED BY <3>1, <3>3, <3>4, <3>5, <3>6
  <2> QED BY <2>1, <2>2
<1> QED BY <1>1, <1>3, <1>4

\* the entry of a friend's row to pick
AskedOf(r, p) == [FriendEntryOf(r, p) EXCEPT !.verdict = VerdictOf(r, p.rows)]

LEMMA AskedIsRow ==
  ASSUME NEW p, SharedOK(p), NEW r \in p.rows
  PROVE  LET a == AskedOf(r, p) IN
         a \in Entry /\ a.id = r.id /\ a.cat = r.cat /\ a.bank = r.bank /\ a.currency = r.currency
           /\ a.percent = r.percent /\ a.verdict = VerdictOf(r, p.rows)
<1> DEFINE b == EntryOf(r)
           e == FriendEntryOf(r, p)
           who == (CHOOSE g \in p.grants : g.client = r.client).friend
           v == VerdictOf(r, p.rows)
<1>1. EntryFrom(e, r)
  <2>1. /\ EntryFrom(e, r) /\ e.friend \in Others /\ e.friend = r.user /\ e.cap = None
        /\ [client |-> e.client, friend |-> e.friend] \in p.grants
        /\ e.friend # None
    BY FriendEntry
  <2> QED BY <2>1
<1>2. b \in Entry /\ b.currency = r.currency /\ b.percent = r.percent
  <2>1. r \in MenuRow
    BY DEF SharedOK, Table
  <2>2. b \in Entry
    BY <2>1, OwnEntry DEF EntryFrom
  <2> QED BY <2>2 DEF EntryOf
<1>3. e = [b EXCEPT !.cap = None, !.friend = who]
  BY DEF FriendEntryOf
<1>4. v \in {"free", "paid", "locked", "slots_full", "unknown"}
  BY DEF VerdictOf, AssessAvailability
<1> HIDE DEF b, who, v
<1>5. e.currency = r.currency /\ e.percent = r.percent
  <2> HIDE DEF e
  <2> QED BY <1>2, <1>3 DEF Entry
<1>6. e \in Entry /\ e.id = r.id /\ e.cat = r.cat /\ e.bank = r.bank
  BY <1>1 DEF EntryFrom
<1> HIDE DEF e
<1>7. LET a == [e EXCEPT !.verdict = v] IN
      a \in Entry /\ a.id = e.id /\ a.cat = e.cat /\ a.bank = e.bank /\ a.currency = e.currency
        /\ a.percent = e.percent /\ a.verdict = v
  BY <1>4, <1>6 DEF Entry
<1> QED BY <1>5, <1>6, <1>7 DEF AskedOf, e, v

\* A row a friend could pick is in the row of its category, by the logo of its
\* bank or behind one that is no worse.
LEMMA AskableIsNamed ==
  ASSUME NEW n, NoteOK(n), NEW p, p = n.seen[Len(n.seen)], NEW r \in p.rows, ~ r.selected,
         r.kind # "special", r.cat \notin {None, AllPurchases}, Covers(r, n.day),
         Overlaps(r, FriendShareWindow(p.now)), Pickable(VerdictOf(r, p.rows)),
         NEW g, g = Group(n, r.cat), NEW e, e = g.friendAvailable
  PROVE  /\ g \in FeedGroups(n)
         /\ \/ r.bank \in {b.bank : b \in g.stack}
            \/ /\ g.stack = {} /\ e # None
               /\ ~ Before(<<VerdictOrder(VerdictOf(r, p.rows)), CurrencyOrder(r.currency),
                             DescPercent(r.percent)>>,
                           <<VerdictOrder(e.verdict), CurrencyOrder(e.currency),
                             DescPercent(e.percent)>>)
<1> DEFINE c == r.cat
           a == AskedOf(r, p)
           W == OfCategory(CanAskFor(n), c)
           o == RankAvailable(W)
<1>1. SharedOK(p)
  BY DEF NoteOK
<1>2. a \in Entry /\ a.id = r.id /\ a.cat = r.cat /\ a.bank = r.bank /\ a.currency = r.currency
        /\ a.percent = r.percent /\ a.verdict = VerdictOf(r, p.rows)
  BY <1>1, AskedIsRow
<1>3. a \in FriendPickable(p, n)
  BY DEF FriendPickable, Offered, AskedOf
<1>4. a \in CanAskFor(n) /\ a \in W
  <2> HIDE DEF a
  <2> QED BY <1>2, <1>3 DEF CanAskFor, FriendAvailableByCategory, OfCategory
<1>5. Told(W)
  <2>1. W \in SUBSET FriendPickable(p, n)
    BY DEF OfCategory, CanAskFor, FriendAvailableByCategory
  <2> HIDE DEF W
  <2> QED BY <1>1, <2>1, PickableIsTold, PartIsTold
<1>6. Lists(o, W) /\ \A i, j \in DOMAIN o : i < j => Before(AvailKey(o[i]), AvailKey(o[j]))
  <2> HIDE DEF W
  <2> QED BY <1>5, AvailableIsOrdered
<1>7. e = First(o)
  BY DEF Group
<1> HIDE DEF W, o, a
<1>8. PICK k \in DOMAIN o : o[k] = a
  BY <1>4, <1>6 DEF Lists
<1>9. k \in Nat /\ 1 <= k /\ 1 \in DOMAIN o /\ o # <<>>
  BY <1>6 DEF Lists
<1>10. e = o[1] /\ e \in Entry /\ e # None
  BY <1>5, <1>6, <1>7, <1>9, NullAssumption DEF First, Lists, Told
<1>11. e = a \/ Before(AvailKey(e), AvailKey(a))
  <2>1. k = 1 \/ 1 < k
    BY <1>9
  <2> QED BY <1>6, <1>8, <1>9, <1>10, <2>1
<1>12. ~ Before(<<VerdictOrder(a.verdict), CurrencyOrder(a.currency), DescPercent(a.percent)>>,
                <<VerdictOrder(e.verdict), CurrencyOrder(e.currency), DescPercent(e.percent)>>)
  BY <1>2, <1>10, <1>11, FirstIsNoWorse
<1>13. g \in FeedGroups(n)
  <2>1. c \in {x.cat : x \in Chosen(n) \cup CanPick(n) \cup CanAskFor(n)}
    BY <1>2, <1>4
  <2> QED BY <1>10, <2>1 DEF FeedGroups
<1>14. g.stack = {} \/ r.bank \in {b.bank : b \in g.stack}
  <2>1. g.stack = {} \/ \E X : a \in X /\ g.stack = BankStack(X)
    <3> DEFINE X == Range(RankActiveSelections(n.day, OfCategory(Chosen(n), c)))
                      \cup OfCategory(CanPick(n), c) \cup OfCategory(CanAskFor(n), c)
    <3>1. a \in X
      BY <1>4 DEF W
    <3>2. g.stack = {} \/ g.stack = BankStack(X)
      BY DEF Group
    <3> QED BY <3>1, <3>2
  <2>2. ASSUME NEW X, a \in X PROVE \E b \in BankStack(X) : b.bank = a.bank
    BY <2>2, LogoOf
  <2> QED BY <1>2, <2>1, <2>2
<1> QED BY <1>2, <1>10, <1>12, <1>13, <1>14

\* No row of a friend is both picked and to be picked, where both pictures have it.
LEMMA PickedOrToPick ==
  ASSUME NEW n, NoteOK(n), NEW p, p = n.seen[Len(n.seen)],
         NEW r \in p.rows, r \in n.seen[1].rows, NEW c,
         NEW x, x = Group(n, c).friendBest, NEW y, y = Group(n, c).friendAvailable,
         x # None, y # None
  PROVE  ~ (x.id = r.id /\ y.id = r.id)
<1> DEFINE sh == n.seen[1]
           S == OfCategory(Chosen(n), c)
           A == {e \in S : Covers(e, n.day)}
           T == StackSupers(A)
           ranked == RankActiveSelections(n.day, S)
           W == OfCategory(CanAskFor(n), c)
<1>0. SharedOK(p) /\ SharedOK(sh)
  BY DEF NoteOK
<1>1. ASSUME x.id = r.id PROVE r.selected
  <2>1. Told(A) /\ Told(T) /\ Lists(ranked, T)
    <3>1. Told(S)
      BY ChosenIsTold
    <3> HIDE DEF S
    <3> QED BY <3>1, RankedSelections
  <2>2. x = FirstFriend(ranked)
    BY DEF Group
  <2>3. ranked # <<>> /\ x = ranked[1] /\ x.friend # None
    BY <2>2 DEF FirstFriend
  <2> HIDE DEF ranked, T
  <2>4. x \in T
    BY <2>1, <2>3 DEF Lists
  <2>5. PICK e \in A : x = OnTop(A, e)
    <3> HIDE DEF A
    <3> QED BY <2>1, <2>4, StackedIsTold DEF T, Kept
  <2>6. e.id = r.id /\ e.friend # None
    <3> HIDE DEF A
    <3>1. SameRow(OnTop(A, e), e)
      BY <2>1, <2>5, OnTopIsEntry
    <3> QED BY <1>1, <2>3, <2>5, <3>1 DEF SameRow
  <2>7. e \in FriendEntriesByCategory(n)
    <3>1. e \in Chosen(n)
      BY <2>5 DEF OfCategory
    <3>2. \A q : \A f \in Selected(n.own, q) : f.friend = None
      BY SelectionsFit
    <3> QED BY <2>6, <3>1, <3>2 DEF Chosen
  <2>8. PICK q \in sh.rows : e = FriendEntryOf(q, sh) /\ q.selected
    BY <2>7 DEF FriendEntriesByCategory
  <2>9. q.id = r.id
    <3>1. LET f == FriendEntryOf(q, sh) IN
           /\ EntryFrom(f, q) /\ f.friend \in Others /\ f.friend = q.user /\ f.cap = None
           /\ [client |-> f.client, friend |-> f.friend] \in sh.grants
           /\ f.friend # None
      BY <1>0, FriendEntry
    <3> QED BY <2>6, <2>8, <3>1 DEF EntryFrom
  <2> QED BY <1>0, <2>8, <2>9 DEF SharedOK, Table
<1>2. ASSUME y.id = r.id PROVE ~ r.selected
  <2>1. W \in SUBSET FriendPickable(p, n)
    BY DEF OfCategory, CanAskFor, FriendAvailableByCategory
  <2>2. y = First(RankAvailable(W))
    BY DEF Group
  <2> HIDE DEF W
  <2>3. Told(W) /\ Lists(RankAvailable(W), W)
    BY <1>0, <2>1, PickableIsTold, PartIsTold, AvailableIsRanked
  <2>4. y \in W
    <3>1. y \in Range(RankAvailable(W))
      BY <2>2, <2>3, FirstIsListed
    <3> QED BY <2>3, <3>1 DEF Lists, Range
  <2>5. PICK q \in Offered(p.rows, n.day) : y = AskedOf(q, p)
    BY <2>1, <2>4 DEF FriendPickable, AskedOf
  <2>6. q \in p.rows /\ ~ q.selected
    BY DEF Offered
  <2>7. q.id = r.id
    BY <1>0, <1>2, <2>5, <2>6, AskedIsRow
  <2> QED BY <1>0, <2>6, <2>7 DEF SharedOK, Table
<1> QED BY <1>1, <1>2

\* what is in the window from first to last is in that of any moment between
LEMMA BetweenWindows ==
  ASSUME NEW r \in MenuRow, NEW a \in Nat, NEW b \in Nat, NEW now \in Nat,
         a <= now, now <= b,
         Overlaps(r, FriendShareWindow(a)), Overlaps(r, FriendShareWindow(b))
  PROVE  Overlaps(r, FriendShareWindow(now))
<1>1. r.from \in Int /\ r.to \in Int
  BY DEF MenuRow
<1>2. /\ FriendShareWindow(a).to <= FriendShareWindow(now).to
      /\ FriendShareWindow(a).to \in Int
  BY LaterWindow
<1>3. FriendShareWindow(now).from = now /\ FriendShareWindow(now).to \in Int
  BY LaterWindow
<1>4. FriendShareWindow(b).from = b
  BY LaterWindow
<1>5. r.from <= FriendShareWindow(a).to /\ b <= r.to
  BY <1>4 DEF Overlaps
<1> QED BY <1>1, <1>2, <1>3, <1>5 DEF Overlaps

\* What stood still is in both pictures, taken within the request.
LEMMA SteadyIsInBoth ==
  ASSUME Steadily, Answered, ask.op = "overview", NEW r \in Steady
  PROVE  /\ NoteOK(ask) /\ Len(ask.seen) = 2
         /\ r \in ask.seen[2].rows /\ r \in ask.seen[1].rows /\ r \in MenuRow
         /\ ask.began \in Nat /\ today \in Nat
         /\ \A i \in {1, 2} : /\ ask.seen[i].now \in Nat
                              /\ ask.began <= ask.seen[i].now /\ ask.seen[i].now <= today
<1>1. /\ NoteOK(ask) /\ ask.began \in Days /\ today \in Days
      /\ TakenSince(ask.seen[1], ask.began, ask.ever, today)
      /\ TakenSince(ask.seen[Len(ask.seen)], ask.began, ask.ever, today)
  BY AnsweredIsRead DEF Steadily
<1>2. Left = 0
  BY DEF Answered, Left
<1>3. /\ Len(ask.seen) = 2
      /\ \A q \in ask.seen[2].rows : Still(q) => q \in ask.seen[1].rows
  BY <1>2 DEF Steadily, Held, Answered
<1>4. r \in ask.seen[2].rows
  BY <1>3 DEF Steady
<1>5. SharedOK(ask.seen[2])
  BY <1>1, <1>3 DEF NoteOK
<1>6. PICK o \in Offers : RowOf(r, o)
  BY <1>4, <1>5 DEF SharedOK, Table
<1>7. Still(r)
  BY <1>6 DEF Steady, Still, RowOf
<1>8. r \in MenuRow
  BY <1>4, <1>5 DEF SharedOK, Table
<1>9. \A i \in {1, 2} : ask.seen[i].now \in Days
                          /\ ask.began <= ask.seen[i].now /\ ask.seen[i].now <= today
  BY <1>1, <1>3 DEF TakenSince
<1> QED BY <1>1, <1>3, <1>4, <1>7, <1>8, <1>9, DaysAssumption

\* The overview reads the friends twice and can mix two moments: what stood still from
\* the first statement to the last is shown, once, because both pictures have it.
THEOREM WhatStoodStillIsShown == Spec => []SteadyIsShown
<1>1. ASSUME Steadily, Answered, ask.op = "overview", NEW r \in Steady,
             r.cat \notin {None, AllPurchases}, Covers(r, ask.day),
             Overlaps(r, FriendShareWindow(today)), Overlaps(r, FriendShareWindow(ask.began)),
             NEW p, p = ask.seen[Len(ask.seen)],
             r.selected \/ (r.kind # "special" /\ Pickable(VerdictOf(r, p.rows))),
             NEW g, g = Group(ask, r.cat), NEW e, e = g.friendAvailable
      PROVE  /\ g \in FeedGroups(ask)
             /\ \/ r.bank \in {b.bank : b \in g.stack}
                \/ /\ g.stack = {} /\ ~ r.selected /\ e # None
                   /\ ~ Before(<<VerdictOrder(VerdictOf(r, p.rows)), CurrencyOrder(r.currency),
                                 DescPercent(r.percent)>>,
                               <<VerdictOrder(e.verdict), CurrencyOrder(e.currency),
                                 DescPercent(e.percent)>>)
  <2>1. /\ NoteOK(ask) /\ Len(ask.seen) = 2
         /\ r \in ask.seen[2].rows /\ r \in ask.seen[1].rows /\ r \in MenuRow
         /\ ask.began \in Nat /\ today \in Nat
         /\ \A i \in {1, 2} : /\ ask.seen[i].now \in Nat
                              /\ ask.began <= ask.seen[i].now /\ ask.seen[i].now <= today
    BY <1>1, SteadyIsInBoth
  <2>2. \A i \in {1, 2} : Overlaps(r, FriendShareWindow(ask.seen[i].now))
    BY <1>1, <2>1, BetweenWindows
  <2>3. r \in p.rows /\ Overlaps(r, FriendShareWindow(p.now)) /\ Overlaps(r, FriendShareWindow(ask.seen[1].now))
    BY <1>1, <2>1, <2>2
  <2>4. CASE r.selected
    BY <1>1, <2>1, <2>3, <2>4, PickedIsNamed
  <2>5. CASE ~ r.selected
    BY <1>1, <2>1, <2>3, <2>5, AskableIsNamed
  <2> QED BY <2>4, <2>5
<1>2. ASSUME Steadily, Answered, ask.op = "overview", NEW r \in Steady, NEW g \in FeedGroups(ask),
             g.friendBest # None, g.friendAvailable # None
      PROVE  {g.friendBest.id, g.friendAvailable.id} # {r.id}
  <2>1. PICK c : g = Group(ask, c)
    BY <1>2 DEF FeedGroups
  <2>2. NoteOK(ask) /\ Len(ask.seen) = 2 /\ r \in ask.seen[2].rows /\ r \in ask.seen[1].rows
    BY <1>2, SteadyIsInBoth
  <2>3. ~ (g.friendBest.id = r.id /\ g.friendAvailable.id = r.id)
    BY <1>2, <2>1, <2>2, PickedOrToPick
  <2> QED BY <2>3
<1>3. Steadily => SteadyIsShown
  <2> SUFFICES ASSUME Steadily, Answered, ask.op = "overview", NEW r \in Steady
               PROVE  LET verdict == VerdictOf(r, ask.seen[Len(ask.seen)].rows)
                          groups  == {g \in FeedGroups(ask) : g.cat = r.cat}
                          worth(e, v) == <<VerdictOrder(v), CurrencyOrder(e.currency), DescPercent(e.percent)>>
                          named(g) ==
                            LET e == g.friendAvailable
                            IN  \/ r.bank \in {b.bank : b \in g.stack}
                                \/ /\ g.stack = {} /\ ~ r.selected /\ e # None
                                   /\ ~ Before(worth(r, verdict), worth(e, e.verdict))
                      IN  /\ (/\ r.cat \notin {None, AllPurchases}
                              /\ Covers(r, ask.day)
                              /\ Overlaps(r, FriendShareWindow(today)) /\ Overlaps(r, FriendShareWindow(ask.began))
                              /\ r.selected \/ (r.kind # "special" /\ Pickable(verdict)))
                             => \E g \in groups : named(g)
                          /\ \A g \in groups :
                               g.friendBest # None /\ g.friendAvailable # None
                                 => {g.friendBest.id, g.friendAvailable.id} # {r.id}
    BY DEF SteadyIsShown
  <2> DEFINE p == ask.seen[Len(ask.seen)]
             g == Group(ask, r.cat)
  <2>1. g.cat = r.cat
    BY DEF Group
  <2> HIDE DEF g
  <2>2. \A h \in FeedGroups(ask) : h.friendBest # None /\ h.friendAvailable # None
                                 => {h.friendBest.id, h.friendAvailable.id} # {r.id}
    BY <1>2
  <2>3. ASSUME r.cat \notin {None, AllPurchases}, Covers(r, ask.day),
               Overlaps(r, FriendShareWindow(today)), Overlaps(r, FriendShareWindow(ask.began)),
               r.selected \/ (r.kind # "special" /\ Pickable(VerdictOf(r, p.rows)))
        PROVE  /\ g \in FeedGroups(ask)
               /\ \/ r.bank \in {b.bank : b \in g.stack}
                  \/ /\ g.stack = {} /\ ~ r.selected /\ g.friendAvailable # None
                     /\ ~ Before(<<VerdictOrder(VerdictOf(r, p.rows)), CurrencyOrder(r.currency),
                                   DescPercent(r.percent)>>,
                                 <<VerdictOrder(g.friendAvailable.verdict),
                                   CurrencyOrder(g.friendAvailable.currency),
                                   DescPercent(g.friendAvailable.percent)>>)
    BY <1>1, <2>3 DEF g
  <2> QED BY <2>1, <2>2, <2>3
<1>4. Init => Steadily
  BY FriendsInit
<1>5. Steadily /\ [Next]_vars => Steadily'
  BY SteadilyStep
<1> QED BY <1>3, <1>4, <1>5, PTL DEF Spec

(****************************** what screens say ***************************)

\* What friends share comes on top of the viewer's own cards and never instead, in the
\* feed (SplitFeedWinner), a lookup and a board, and the feed sends nobody to a friend
\* for nothing.
THEOREM FriendsOnlyEverAdd == Spec => []FriendsOnlyAdd
BY OwnStaysWhenFriendsHide, AnswersStayWhenFriendsHide, FriendsAreWorthAsking, PTL
DEF FriendsOnlyAdd

\* What a screen offers can be selected today, and what it calls full cannot
\* (AssessAvailability and ValidateSelection).
THEOREM OfferedIsAlwaysPickable == Spec => []OfferedIsPickable
BY OfferedCanBePicked DEF OfferedIsPickable

\* Screens that are coded apart tell the same: the feed and the lookup, the board and
\* the base rates, three counts of slots, the reminder and the menu.
THEOREM ScreensAlwaysTellTheSame == Spec => []ScreensTellTheSame
BY FeedAndLookupAgree, BoardAnswersForAll, SlotsAlwaysAgree, PendingAsksForNothingDone, PTL
DEF ScreensTellTheSame

\* A screen made of several reads shows nothing that was not shared while it was made,
\* and leaves out nothing that stood still.
THEOREM TornAnswersAreHarmless == Spec => []TornIsHarmless
BY OnlyTheSharedIsShown, WhatStoodStillIsShown, PTL DEF TornIsHarmless
=============================================================================
