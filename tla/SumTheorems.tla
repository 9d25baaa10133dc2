------------------------------ MODULE SumTheorems ------------------------------
(***************************************************************************)
(* What SumOf computes for every function with a finite domain: it adds    *)
(* the values one by one, in any order.  Induction over finite sets is     *)
(* stated with sets of sets in the place of predicates.  And Min and Max   *)
(* of sets of numbers.                                                     *)
(***************************************************************************)
EXTENDS Sums, Functions, FiniteSetTheorems, WellFoundedInduction, TLAPS

\* Induction over the subsets of a finite set: what holds of a set if it holds of
\* its strict subsets holds of all.
LEMMA SubsetInduction ==
  ASSUME NEW S, IsFiniteSet(S), NEW Holds,
         \A t \in SUBSET S : (\A u \in SUBSET t : u # t => u \in Holds) => t \in Holds
  PROVE  \A t \in SUBSET S : t \in Holds
<1> SUFFICES ASSUME NEW t0 \in SUBSET S, t0 \notin Holds PROVE FALSE
  OBVIOUS
<1> DEFINE R == StrictSubsetOrdering(S)
           Fails == {t \in SUBSET S : t \notin Holds}
<1>1. FiniteSubsetsOf(S) = SUBSET S
  BY FS_FiniteSubsetsOfFinite
<1>2. IsWellFoundedOn(R, SUBSET S)
  <2>1. IsWellFoundedOn(R, FiniteSubsetsOf(S))
    BY FS_StrictSubsetOrderingWellFounded
  <2> HIDE DEF R
  <2> QED BY <2>1, <1>1
<1>3. Fails \subseteq SUBSET S /\ Fails # {}
  OBVIOUS
<1> HIDE DEF R, Fails
<1>4. PICK t \in Fails : \A u \in Fails : ~(<<u, t>> \in R)
  BY <1>2, <1>3, WFMin
<1>5. \A u \in SUBSET t : u # t => u \in Holds
  <2> SUFFICES ASSUME NEW u \in SUBSET t, u # t, u \notin Holds PROVE FALSE
    OBVIOUS
  <2>1. u \in Fails /\ u \subseteq S /\ t \subseteq S
    BY DEF Fails
  <2>2. <<u, t>> \in R
    BY <2>1, <1>1 DEF R, StrictSubsetOrdering
  <2> QED BY <1>4, <2>1, <2>2
<1> QED BY <1>5 DEF Fails

-----------------------------------------------------------------------------
(* Least and greatest numbers.                                              *)

\* A set of natural numbers that is not empty has a least element, Min.
LEMMA MinOfNaturals ==
  ASSUME NEW S, S \subseteq Nat, S # {}
  PROVE  Min(S) \in S /\ \A y \in S : Min(S) <= y
<1>1. PICK x \in S : \A y \in S : ~ (<<y, x>> \in OpToRel(<, Nat))
  <2>. DEFINE R == OpToRel(<, Nat)
  <2>1. IsWellFoundedOn(R, Nat)
    BY NatLessThanWellFounded
  <2>. HIDE DEF R
  <2>2. \E x \in S : \A y \in S : ~ (<<y, x>> \in R)
    BY <2>1, WFMin
  <2>. QED BY <2>2 DEF R
<1>2. \A y \in S : x <= y
  <2>. TAKE y \in S
  <2>1. ~ (y < x)
    BY <1>1 DEF OpToRel
  <2>. QED BY <2>1
<1>. QED BY <1>1, <1>2 DEF Min

\* A finite set of naturals that is not empty has a greatest element, Max.
LEMMA MaxOfNaturals ==
  ASSUME NEW S, S \subseteq Nat, S # {}, IsFiniteSet(S)
  PROVE  Max(S) \in S /\ \A y \in S : y <= Max(S)
<1> DEFINE Good == {t \in SUBSET S : t = {} \/ \E x \in t : \A y \in t : y <= x}
<1>1. ASSUME NEW t \in SUBSET S, \A u \in SUBSET t : u # t => u \in Good
      PROVE  t \in Good
  <2>1. CASE t = {}
    BY <2>1
  <2>2. CASE t # {}
    <3>1. PICK x \in t : TRUE
      BY <2>2
    <3> DEFINE u == t \ {x}
    <3>2. u \in SUBSET t /\ u # t /\ t = u \cup {x}
      BY <3>1
    <3> HIDE DEF u
    <3>3. u \in Good
      BY <1>1, <3>2
    <3>4. CASE u = {}
      BY <3>2, <3>4
    <3>5. CASE u # {}
      <4>1. PICK m \in u : \A y \in u : y <= m
        BY <3>3, <3>5
      <4>2. CASE x <= m
        BY <3>2, <4>1, <4>2
      <4>3. CASE ~(x <= m)
        <5>1. \A y \in t : y <= x
          BY <3>2, <4>1, <4>3
        <5> QED BY <5>1
      <4> QED BY <4>2, <4>3
    <3> QED BY <3>4, <3>5
  <2> QED BY <2>1, <2>2
<1> HIDE DEF Good
<1>2. S \in Good
  BY <1>1, SubsetInduction
<1>3. \E x \in S : \A y \in S : x >= y
  BY <1>2 DEF Good
<1>4. Max(S) \in S /\ \A y \in S : Max(S) >= y
  BY <1>3 DEF Max
<1> QED BY <1>4

\* An interval from 1 has as many numbers as its end says.
LEMMA UpTo == ASSUME NEW n \in Nat PROVE IsFiniteSet(1 .. n) /\ Cardinality(1 .. n) = n
<1>1. IsFiniteSet(1 .. n) /\ Cardinality(1 .. n) = IF 1 > n THEN 0 ELSE n - 1 + 1
  BY FS_Interval
<1> QED BY <1>1

-----------------------------------------------------------------------------
(* The recursion behind SumOf.                                              *)

Pick(s) == CHOOSE x \in s : TRUE

\* g adds up f over every subset of S, an element at a time.
Adds(g, f, S) ==
  g = [s \in SUBSET S |-> IF s = {} THEN 0 ELSE f[Pick(s)] + g[s \ {Pick(s)}]]

LEMMA AddsStep ==
  ASSUME NEW f, NEW S, NEW g, Adds(g, f, S), NEW s \in SUBSET S
  PROVE  g[s] = IF s = {} THEN 0 ELSE f[Pick(s)] + g[s \ {Pick(s)}]
BY DEF Adds

LEMMA PickIn == ASSUME NEW s, s # {} PROVE Pick(s) \in s
BY DEF Pick

\* Two such functions agree where both are defined and their f's agree.
LEMMA AddsAgree ==
  ASSUME NEW S, IsFiniteSet(S), NEW f, NEW g, Adds(g, f, S),
         NEW T, NEW e, NEW h, Adds(h, e, T), S \subseteq T, \A x \in S : e[x] = f[x]
  PROVE  g[S] = h[S]
<1> DEFINE Same == {s \in SUBSET S : g[s] = h[s]}
<1>1. ASSUME NEW s \in SUBSET S, \A u \in SUBSET s : u # s => u \in Same
      PROVE  s \in Same
  <2>0. g[s] = IF s = {} THEN 0 ELSE f[Pick(s)] + g[s \ {Pick(s)}]
    BY DEF Adds
  <2>1. CASE s = {}
    BY <2>0, <2>1, AddsStep
  <2>2. CASE s # {}
    <3>1. Pick(s) \in s
      BY <2>2, PickIn
    <3>2. g[s \ {Pick(s)}] = h[s \ {Pick(s)}]
      BY <1>1, <3>1
    <3>3. g[s] = f[Pick(s)] + g[s \ {Pick(s)}]
      BY <2>0, <2>2
    <3>4. s \in SUBSET T
      OBVIOUS
    <3>5. h[s] = e[Pick(s)] + h[s \ {Pick(s)}]
      BY <2>2, <3>4, AddsStep
    <3> QED BY <3>1, <3>2, <3>3, <3>5
  <2> QED BY <2>1, <2>2
<1> HIDE DEF Same
<1>2. S \in Same
  BY <1>1, SubsetInduction
<1> QED BY <1>2 DEF Same

\* There is one for every finite set.
LEMMA AddsExists ==
  ASSUME NEW f, NEW S, IsFiniteSet(S)
  PROVE  \E g : Adds(g, f, S)
<1> DEFINE Has == {s \in SUBSET S : \E g : Adds(g, f, s)}
<1>1. ASSUME NEW s \in SUBSET S, \A u \in SUBSET s : u # s => u \in Has
      PROVE  s \in Has
  <2> DEFINE sum(u) == (CHOOSE g : Adds(g, f, u))[u]
             h == [u \in SUBSET s |-> IF u = {} THEN 0 ELSE f[Pick(u)] + sum(u \ {Pick(u)})]
  <2>1. ASSUME NEW u \in SUBSET s, u # s PROVE sum(u) = h[u]
    <3> DEFINE k == CHOOSE g : Adds(g, f, u)
    <3>1. Adds(k, f, u)
      <4>1. \E g : Adds(g, f, u)
        BY <1>1, <2>1
      <4> QED BY <4>1
    <3>2. k[u] = IF u = {} THEN 0 ELSE f[Pick(u)] + k[u \ {Pick(u)}]
      BY <3>1, AddsStep
    <3>3. u # {} => k[u \ {Pick(u)}] = sum(u \ {Pick(u)})
      <4> SUFFICES ASSUME u # {} PROVE k[u \ {Pick(u)}] = sum(u \ {Pick(u)})
        OBVIOUS
      <4> DEFINE v == u \ {Pick(u)}
                 m == CHOOSE g : Adds(g, f, v)
      <4>1. v \in SUBSET s /\ v # s /\ v \subseteq u /\ v \subseteq S
        BY PickIn
      <4>2. \E g : Adds(g, f, v)
        BY <1>1, <4>1
      <4>3. Adds(m, f, v)
        BY <4>2
      <4>4. IsFiniteSet(v)
        BY <4>1, FS_Subset
      <4> HIDE DEF k, m, v
      <4>5. m[v] = k[v]
        BY <3>1, <4>1, <4>3, <4>4, AddsAgree
      <4> QED BY <4>5 DEF m, v
    <3> HIDE DEF sum
    <3>4. h[u] = IF u = {} THEN 0 ELSE f[Pick(u)] + sum(u \ {Pick(u)})
      OBVIOUS
    <3>5. k[u] = h[u]
      BY <3>2, <3>3, <3>4
    <3> QED BY <3>5 DEF sum, k
  <2> HIDE DEF sum
  <2>2. ASSUME NEW u \in SUBSET s, u # {} PROVE sum(u \ {Pick(u)}) = h[u \ {Pick(u)}]
    <3>1. u \ {Pick(u)} \in SUBSET s /\ u \ {Pick(u)} # s
      BY <2>2, PickIn
    <3> HIDE DEF h
    <3> QED BY <2>1, <3>1
  <2>3. h = [u \in SUBSET s |-> IF u = {} THEN 0 ELSE f[Pick(u)] + h[u \ {Pick(u)}]]
    <3> DEFINE h2 == [u \in SUBSET s |-> IF u = {} THEN 0 ELSE f[Pick(u)] + h[u \ {Pick(u)}]]
    <3>1. \A u \in SUBSET s : h[u] = h2[u]
      BY <2>2
    <3> QED BY <3>1
  <2> HIDE DEF h
  <2>4. Adds(h, f, s)
    BY <2>3 DEF Adds
  <2> QED BY <2>4
<1> HIDE DEF Has
<1>2. S \in Has
  BY <1>1, SubsetInduction
<1> QED BY <1>2 DEF Has

\* SumOf is what it computes.
LEMMA SumOfAdds ==
  ASSUME NEW f, IsFiniteSet(DOMAIN f)
  PROVE  \E g : Adds(g, f, DOMAIN f) /\ SumOf(f) = g[DOMAIN f]
<1> DEFINE S == DOMAIN f
           g == CHOOSE g : g = [s \in SUBSET S |-> IF s = {} THEN 0
                                  ELSE f[CHOOSE x \in s : TRUE] + g[s \ {CHOOSE x \in s : TRUE}]]
<1>1. SumOf(f) = g[S]
  BY DEF SumOf, MapThenSumSet, MapThenFoldSet
<1>2. Adds(g, f, S)
  <2>1. \E k : k = [s \in SUBSET S |-> IF s = {} THEN 0
                       ELSE f[CHOOSE x \in s : TRUE] + k[s \ {CHOOSE x \in s : TRUE}]]
    <3>1. PICK k : Adds(k, f, S)
      BY AddsExists
    <3>2. k = [s \in SUBSET S |-> IF s = {} THEN 0
                 ELSE f[CHOOSE x \in s : TRUE] + k[s \ {CHOOSE x \in s : TRUE}]]
      BY <3>1 DEF Adds, Pick
    <3> QED BY <3>2
  <2>2. g = [s \in SUBSET S |-> IF s = {} THEN 0
               ELSE f[CHOOSE x \in s : TRUE] + g[s \ {CHOOSE x \in s : TRUE}]]
    BY <2>1, Zenon
  <2> QED BY <2>2 DEF Adds, Pick
<1> QED BY <1>1, <1>2

-----------------------------------------------------------------------------
(* Sums.                                                                    *)

\* The functions that are summed: finitely many whole numbers.
Summable(f) == IsFiniteSet(DOMAIN f) /\ \A x \in DOMAIN f : f[x] \in Int

\* An element can be added last, whichever it is.
LEMMA AddsAny ==
  ASSUME NEW f, NEW S, IsFiniteSet(S), \A x \in S : f[x] \in Int, NEW g, Adds(g, f, S)
  PROVE  \A s \in SUBSET S : g[s] \in Int /\ \A x \in s : g[s] = f[x] + g[s \ {x}]
<1> DEFINE Any == {s \in SUBSET S : g[s] \in Int /\ \A x \in s : g[s] = f[x] + g[s \ {x}]}
<1>1. ASSUME NEW s \in SUBSET S, \A u \in SUBSET s : u # s => u \in Any
      PROVE  s \in Any
  <2>0. \A u \in SUBSET S : g[u] = IF u = {} THEN 0 ELSE f[Pick(u)] + g[u \ {Pick(u)}]
    BY DEF Adds
  <2>1. CASE s = {}
    <3>1. g[s] = 0
      BY <2>0, <2>1
    <3> QED BY <3>1, <2>1
  <2>2. CASE s # {}
    <3> DEFINE p == Pick(s)
    <3>1. p \in s
      BY <2>2, PickIn
    <3>2. g[s] = f[p] + g[s \ {p}]
      BY <2>0, <2>2
    <3> HIDE DEF p
    <3>3. s \ {p} \in Any
      BY <1>1, <3>1
    <3>4. g[s \ {p}] \in Int /\ f[p] \in Int
      BY <3>1, <3>3
    <3>5. ASSUME NEW x \in s, x # p PROVE g[s] = f[x] + g[s \ {x}]
      <4>1. g[s \ {p}] = f[x] + g[(s \ {p}) \ {x}]
        BY <3>3, <3>5
      <4>2. s \ {x} \in Any
        BY <1>1
      <4>3. g[s \ {x}] = f[p] + g[(s \ {x}) \ {p}]
        BY <4>2, <3>1, <3>5
      <4>4. (s \ {p}) \ {x} = (s \ {x}) \ {p} /\ (s \ {p}) \ {x} \in SUBSET s /\ (s \ {p}) \ {x} # s
        BY <3>1
      <4>5. (s \ {p}) \ {x} \in Any
        BY <1>1, <4>4
      <4>6. g[(s \ {p}) \ {x}] \in Int /\ f[x] \in Int
        BY <4>5
      <4> DEFINE n == g[(s \ {p}) \ {x}]
      <4>7. g[s] = f[p] + (f[x] + n) /\ g[s \ {x}] = f[p] + n
        BY <3>2, <4>1, <4>3, <4>4
      <4>8. n \in Int /\ f[x] \in Int /\ f[p] \in Int
        BY <3>4, <4>6
      <4> HIDE DEF n
      <4> QED BY <4>7, <4>8
    <3>6. g[s] \in Int
      BY <3>2, <3>4
    <3> QED BY <3>2, <3>5, <3>6
  <2> QED BY <2>1, <2>2
<1> HIDE DEF Any
<1>2. \A s \in SUBSET S : s \in Any
  BY <1>1, SubsetInduction
<1> QED BY <1>2 DEF Any

\* The sums of all the parts of a function, in one table.
SumsOf(f, g) ==
  /\ g[DOMAIN f] = SumOf(f) /\ g[{}] = 0
  /\ \A s \in SUBSET DOMAIN f :
       /\ g[s] \in Int /\ g[s] = SumOf(Restrict(f, s))
       /\ \A x \in s : g[s] = f[x] + g[s \ {x}]

LEMMA SumTable ==
  ASSUME NEW f, Summable(f)
  PROVE  \E g : SumsOf(f, g)
<1>1. PICK g : Adds(g, f, DOMAIN f) /\ SumOf(f) = g[DOMAIN f]
  BY SumOfAdds DEF Summable
<1>2. \A s \in SUBSET DOMAIN f : g[s] \in Int /\ \A x \in s : g[s] = f[x] + g[s \ {x}]
  BY <1>1, AddsAny DEF Summable
<1>3. ASSUME NEW s \in SUBSET DOMAIN f PROVE g[s] = SumOf(Restrict(f, s))
  <2> DEFINE e == Restrict(f, s)
  <2>1. DOMAIN e = s /\ \A x \in s : f[x] = e[x]
    BY DEF Restrict
  <2>2. IsFiniteSet(s)
    BY FS_Subset DEF Summable
  <2> HIDE DEF e
  <2>3. PICK h : Adds(h, e, s) /\ SumOf(e) = h[s]
    BY <2>1, <2>2, SumOfAdds
  <2>4. h[s] = g[s]
    BY <1>1, <2>1, <2>2, <2>3, AddsAgree
  <2> QED BY <2>3, <2>4 DEF e
<1>4. g[{}] = 0
  BY <1>1 DEF Adds
<1> QED BY <1>1, <1>2, <1>3, <1>4 DEF SumsOf

\* A sum is a number, of nothing it is 0, and any element can be taken out of it.
THEOREM SumRemove ==
  ASSUME NEW f, Summable(f)
  PROVE  /\ SumOf(f) \in Int
         /\ DOMAIN f = {} => SumOf(f) = 0
         /\ \A x \in DOMAIN f : SumOf(f) = f[x] + SumOf(Restrict(f, DOMAIN f \ {x}))
<1>1. PICK g : SumsOf(f, g)
  BY SumTable
<1> QED BY <1>1 DEF SumsOf

\* A part of a summable function is summable.
LEMMA RestrictSummable ==
  ASSUME NEW f, Summable(f), NEW s \in SUBSET DOMAIN f
  PROVE  Summable(Restrict(f, s)) /\ DOMAIN Restrict(f, s) = s /\ \A x \in s : Restrict(f, s)[x] = f[x]
BY FS_Subset DEF Summable, Restrict

\* The sum of a function is that of a part of it and of the rest.
THEOREM SumSplit ==
  ASSUME NEW f, Summable(f), NEW A \in SUBSET DOMAIN f
  PROVE  SumOf(f) = SumOf(Restrict(f, A)) + SumOf(Restrict(f, DOMAIN f \ A))
<1> DEFINE D == DOMAIN f
<1>1. PICK g : SumsOf(f, g)
  BY SumTable
<1> DEFINE Splits == {t \in SUBSET D : g[D] = g[t] + g[D \ t]}
<1>2. ASSUME NEW t \in SUBSET D, \A u \in SUBSET t : u # t => u \in Splits
      PROVE  t \in Splits
  <2>1. CASE t = {}
    <3>1. D \ t = D /\ g[D] \in Int
      BY <1>1, <2>1 DEF SumsOf
    <3> QED BY <3>1, <2>1, <1>1 DEF SumsOf
  <2>2. CASE t # {}
    <3>1. PICK x \in t : TRUE
      BY <2>2
    <3>2. t \ {x} \in Splits
      BY <1>2 DEF SumsOf
    <3>3. g[t] = f[x] + g[t \ {x}] /\ g[t] \in Int /\ g[t \ {x}] \in Int /\ f[x] \in Int
      BY <1>1 DEF Summable, SumsOf
    <3>4. x \in D \ (t \ {x}) /\ (D \ (t \ {x})) \ {x} = D \ t /\ D \ (t \ {x}) \in SUBSET D
      OBVIOUS
    <3>5. g[D \ (t \ {x})] = f[x] + g[D \ t] /\ g[D \ t] \in Int
      BY <1>1, <3>4 DEF SumsOf
    <3> QED BY <3>2, <3>3, <3>5
  <2> QED BY <2>1, <2>2
<1>3. IsFiniteSet(D)
  BY DEF Summable
<1> HIDE DEF Splits
<1>4. A \in Splits
  BY <1>2, <1>3, SubsetInduction
<1> QED BY <1>1, <1>4 DEF Splits, SumsOf

\* A sum of natural numbers is one, and at least each of them.
LEMMA SumLeast ==
  ASSUME NEW f, Summable(f), \A x \in DOMAIN f : f[x] >= 0
  PROVE  SumOf(f) \in Nat /\ \A x \in DOMAIN f : f[x] <= SumOf(f)
<1> DEFINE D == DOMAIN f
<1>1. PICK g : SumsOf(f, g)
  BY SumTable
<1> DEFINE Pos == {t \in SUBSET D : g[t] \in Nat}
<1>2. ASSUME NEW t \in SUBSET D, \A u \in SUBSET t : u # t => u \in Pos
      PROVE  t \in Pos
  <2>1. CASE t = {}
    BY <2>1, <1>1 DEF SumsOf
  <2>2. CASE t # {}
    <3>1. PICK x \in t : TRUE
      BY <2>2
    <3>2. g[t \ {x}] \in Nat
      BY <1>2 DEF SumsOf
    <3>3. g[t] = f[x] + g[t \ {x}] /\ f[x] \in Nat
      BY <1>1 DEF Summable, SumsOf
    <3> QED BY <3>2, <3>3
  <2> QED BY <2>1, <2>2
<1>3. IsFiniteSet(D)
  BY DEF Summable
<1> HIDE DEF Pos
<1>4. \A t \in SUBSET D : t \in Pos
  BY <1>2, <1>3, SubsetInduction
<1>5. ASSUME NEW x \in D PROVE f[x] <= SumOf(f)
  <2>1. g[D] = f[x] + g[D \ {x}] /\ f[x] \in Int
    BY <1>1 DEF Summable, SumsOf
  <2>2. g[D \ {x}] \in Nat
    BY <1>4 DEF Pos
  <2> QED BY <1>1, <2>1, <2>2 DEF SumsOf
<1> QED BY <1>1, <1>4, <1>5 DEF Pos, SumsOf

\* The sum of two functions' sums is the sum of what they add up to.
LEMMA SumPlus ==
  ASSUME NEW f, Summable(f), NEW e, Summable(e), NEW d, Summable(d),
         DOMAIN e = DOMAIN f, DOMAIN d = DOMAIN f, \A x \in DOMAIN f : d[x] = f[x] + e[x]
  PROVE  SumOf(d) = SumOf(f) + SumOf(e)
<1> DEFINE D == DOMAIN f
<1>1. PICK g : SumsOf(f, g)
  BY SumTable
<1>2. PICK h : SumsOf(e, h)
  BY SumTable
<1>3. PICK k : SumsOf(d, k)
  BY SumTable
<1> DEFINE Same == {t \in SUBSET D : k[t] = g[t] + h[t]}
<1>4. ASSUME NEW t \in SUBSET D, \A u \in SUBSET t : u # t => u \in Same
      PROVE  t \in Same
  <2>1. CASE t = {}
    BY <2>1, <1>1, <1>2, <1>3 DEF SumsOf
  <2>2. CASE t # {}
    <3>1. PICK x \in t : TRUE
      BY <2>2
    <3>2. k[t \ {x}] = g[t \ {x}] + h[t \ {x}]
      BY <1>4
    <3>3. /\ k[t] = d[x] + k[t \ {x}] /\ g[t] = f[x] + g[t \ {x}] /\ h[t] = e[x] + h[t \ {x}]
          /\ d[x] = f[x] + e[x]
      BY <1>1, <1>2, <1>3 DEF SumsOf
    <3>4. f[x] \in Int /\ e[x] \in Int
      BY DEF Summable
    <3>5. g[t \ {x}] \in Int /\ h[t \ {x}] \in Int
      BY <1>1, <1>2 DEF SumsOf
    <3>6. k[t] = g[t] + h[t]
      BY <3>2, <3>3, <3>4, <3>5
    <3> QED BY <3>6
  <2> QED BY <2>1, <2>2
<1>5. IsFiniteSet(D)
  BY DEF Summable
<1> HIDE DEF Same
<1>6. \A t \in SUBSET D : t \in Same
  BY <1>4, <1>5, SubsetInduction
<1> QED BY <1>1, <1>2, <1>3, <1>6 DEF Same, SumsOf

\* A function that is nowhere greater has no greater sum.
LEMMA SumMonotone ==
  ASSUME NEW f, Summable(f), NEW e, Summable(e), DOMAIN e = DOMAIN f,
         \A x \in DOMAIN f : f[x] <= e[x]
  PROVE  SumOf(f) <= SumOf(e)
<1> DEFINE d == [x \in DOMAIN f |-> e[x] - f[x]]
<1>1. Summable(d) /\ DOMAIN d = DOMAIN f /\ \A x \in DOMAIN d : d[x] >= 0 /\ e[x] = f[x] + d[x]
  BY DEF Summable
<1> HIDE DEF d
<1>2. SumOf(d) \in Nat
  BY <1>1, SumLeast DEF SumsOf
<1>3. SumOf(e) = SumOf(f) + SumOf(d)
  BY <1>1, SumPlus DEF SumsOf
<1>4. SumOf(f) \in Int
  BY SumRemove
<1> QED BY <1>2, <1>3, <1>4 DEF SumsOf

\* A sum of zeros is zero.
LEMMA SumZero ==
  ASSUME NEW f, IsFiniteSet(DOMAIN f), \A x \in DOMAIN f : f[x] = 0
  PROVE  SumOf(f) = 0
<1>1. Summable(f)
  BY DEF Summable
<1> DEFINE s == SumOf(f)
<1>2. s = s + s /\ s \in Int
  BY <1>1, SumPlus, SumRemove
<1> HIDE DEF s
<1>3. s = 0
  BY <1>2
<1> QED BY <1>3 DEF s

\* One value changes, and the sum by as much.
LEMMA SumChange ==
  ASSUME NEW f, Summable(f), NEW e, Summable(e), DOMAIN e = DOMAIN f, NEW x \in DOMAIN f,
         \A y \in DOMAIN f : y # x => e[y] = f[y]
  PROVE  SumOf(e) = (SumOf(f) - f[x]) + e[x]
<1> DEFINE r == Restrict(f, DOMAIN f \ {x})
<1>1. Restrict(e, DOMAIN e \ {x}) = r
  BY DEF Restrict
<1>2. SumOf(f) = f[x] + SumOf(r)
  BY SumRemove
<1>3. SumOf(e) = e[x] + SumOf(r)
  BY <1>1, SumRemove
<1>4. SumOf(r) \in Int
  BY RestrictSummable, SumRemove
<1>5. f[x] \in Int /\ e[x] \in Int
  BY DEF Summable
<1> HIDE DEF r
<1> QED BY <1>2, <1>3, <1>4, <1>5

\* The sum does not depend on what the values are numbered by.
LEMMA SumReindex ==
  ASSUME NEW f, Summable(f), NEW e, Summable(e), NEW m \in [DOMAIN f -> DOMAIN e],
         \A x, y \in DOMAIN f : m[x] = m[y] => x = y,
         \A z \in DOMAIN e : \E x \in DOMAIN f : m[x] = z,
         \A x \in DOMAIN f : f[x] = e[m[x]]
  PROVE  SumOf(f) = SumOf(e)
<1> DEFINE D == DOMAIN f
           Image(t) == {m[x] : x \in t}
<1>1. PICK g : SumsOf(f, g)
  BY SumTable
<1>2. PICK h : SumsOf(e, h)
  BY SumTable
<1> DEFINE Same == {t \in SUBSET D : g[t] = h[Image(t)]}
<1>3. ASSUME NEW t \in SUBSET D, \A u \in SUBSET t : u # t => u \in Same
      PROVE  t \in Same
  <2>1. CASE t = {}
    <3>1. Image(t) = {}
      BY <2>1
    <3> HIDE DEF Image
    <3> QED BY <3>1, <2>1, <1>1, <1>2 DEF SumsOf
  <2>2. CASE t # {}
    <3>1. PICK x \in t : TRUE
      BY <2>2
    <3>2. g[t \ {x}] = h[Image(t \ {x})]
      <4> DEFINE u == t \ {x}
      <4>1. u \in SUBSET t /\ u # t
        OBVIOUS
      <4> HIDE DEF u
      <4>2. u \in Same
        BY <1>3, <4>1
      <4>3. g[u] = h[Image(u)]
        BY <4>2
      <4> QED BY <4>3 DEF u
    <3>3. Image(t \ {x}) = Image(t) \ {m[x]} /\ m[x] \in Image(t) /\ Image(t) \in SUBSET DOMAIN e
      OBVIOUS
    <3> HIDE DEF Image
    <3>4. g[t] = f[x] + g[t \ {x}]
      BY <1>1 DEF SumsOf
    <3>5. h[Image(t)] = e[m[x]] + h[Image(t) \ {m[x]}]
      BY <1>2, <3>3 DEF SumsOf
    <3>6. g[t] = h[Image(t)]
      BY <3>2, <3>3, <3>4, <3>5
    <3> QED BY <3>6
  <2> QED BY <2>1, <2>2
<1>4. IsFiniteSet(D)
  BY DEF Summable
<1>5. Image(D) = DOMAIN e
  OBVIOUS
<1> HIDE DEF Same
<1>6. \A t \in SUBSET D : t \in Same
  BY <1>3, <1>4, SubsetInduction
<1>7. g[D] = h[Image(D)]
  BY <1>6 DEF Same
<1> QED BY <1>1, <1>2, <1>5, <1>7 DEF SumsOf

\* A value that all of W have, and nobody else.
LEMMA SumConstant ==
  ASSUME NEW f, IsFiniteSet(DOMAIN f), NEW W \in SUBSET DOMAIN f, NEW c \in Nat,
         \A x \in DOMAIN f : f[x] = IF x \in W THEN c ELSE 0
  PROVE  SumOf(f) = Cardinality(W) * c
<1>1. Summable(f)
  BY DEF Summable
<1>2. PICK g : SumsOf(f, g)
  BY <1>1, SumTable
<1>3. IsFiniteSet(W)
  BY FS_Subset
<1> DEFINE Good == {t \in SUBSET W : g[t] = Cardinality(t) * c}
<1>4. ASSUME NEW t \in SUBSET W, \A u \in SUBSET t : u # t => u \in Good
      PROVE  t \in Good
  <2>1. CASE t = {}
    <3>1. Cardinality(t) = 0 /\ g[t] = 0
      BY <2>1, <1>2, FS_EmptySet DEF SumsOf
    <3> QED BY <3>1
  <2>2. CASE t # {}
    <3>1. PICK x \in t : TRUE
      BY <2>2
    <3>2. g[t \ {x}] = Cardinality(t \ {x}) * c
      BY <1>4
    <3>3. g[t] = c + g[t \ {x}]
      BY <1>2 DEF SumsOf
    <3>4. IsFiniteSet(t)
      BY <1>3, FS_Subset
    <3>5. Cardinality(t \ {x}) = Cardinality(t) - 1 /\ Cardinality(t) \in Nat
      BY <3>4, FS_RemoveElement, FS_CardinalityType
    <3> DEFINE n == Cardinality(t)
    <3>6. (n - 1) * c = n * c - c
      BY <3>5
    <3>7. g[t] = n * c
      BY <3>2, <3>3, <3>5, <3>6
    <3> QED BY <3>7
  <2> QED BY <2>1, <2>2
<1> HIDE DEF Good
<1>5. \A t \in SUBSET W : t \in Good
  BY <1>3, <1>4, SubsetInduction
<1>6. g[W] = Cardinality(W) * c
  BY <1>5 DEF Good
<1>7. g[W] = SumOf(Restrict(f, W)) /\ SumOf(Restrict(f, W)) \in Int
  BY <1>2 DEF SumsOf
<1>8. SumOf(Restrict(f, DOMAIN f \ W)) = 0
  <2> DEFINE r == Restrict(f, DOMAIN f \ W)
  <2>1. IsFiniteSet(DOMAIN r) /\ \A x \in DOMAIN r : r[x] = 0
    <3>1. DOMAIN r = DOMAIN f \ W /\ \A x \in DOMAIN r : r[x] = f[x]
      BY DEF Restrict
    <3>2. IsFiniteSet(DOMAIN f \ W)
      BY FS_Subset
    <3> HIDE DEF r
    <3> QED BY <3>1, <3>2
  <2> HIDE DEF r
  <2>2. SumOf(r) = 0
    BY <2>1, SumZero
  <2> QED BY <2>2 DEF r
<1>9. SumOf(f) = SumOf(Restrict(f, W)) + SumOf(Restrict(f, DOMAIN f \ W))
  BY <1>1, SumSplit
<1> QED BY <1>6, <1>7, <1>8, <1>9

\* Each of the values is the sum of a row of F.
SumsRows(values, F, X, Y) ==
  /\ DOMAIN values = X
  /\ \A x \in X : /\ DOMAIN F[x] = Y /\ values[x] = SumOf(F[x])
                  /\ \A y \in Y : F[x][y] \in Int

\* rows and columns sum up one finite table: G is F, turned.
SumsTable(rows, columns, F, G, X, Y) ==
  /\ IsFiniteSet(X) /\ IsFiniteSet(Y)
  /\ SumsRows(rows, F, X, Y) /\ SumsRows(columns, G, Y, X)
  /\ \A x \in X : \A y \in Y : G[y][x] = F[x][y]

\* The rows of a table add up to what its columns do.
THEOREM SumSwap ==
  ASSUME NEW X, NEW Y, NEW F, NEW G, NEW rows, NEW columns,
         SumsTable(rows, columns, F, G, X, Y)
  PROVE  SumOf(rows) = SumOf(columns)
<1> IsFiniteSet(X) /\ IsFiniteSet(Y) /\ \A x \in X : \A y \in Y : G[y][x] = F[x][y]
  BY DEF SumsTable
<1>0. /\ DOMAIN rows = X
      /\ \A x \in X : DOMAIN F[x] = Y /\ rows[x] = SumOf(F[x])
      /\ DOMAIN columns = Y
      /\ \A y \in Y : DOMAIN G[y] = X /\ columns[y] = SumOf(G[y])
      /\ \A x \in X : \A y \in Y : F[x][y] \in Int
  BY DEF SumsTable, SumsRows
<1>1. \A x \in X : Summable(F[x])
  BY <1>0 DEF Summable
<1>2. Summable(rows)
  BY <1>0, <1>1, SumRemove DEF Summable
<1>3. \A y \in Y : Summable(G[y])
  BY <1>0 DEF Summable
<1>4. PICK g : SumsOf(rows, g)
  BY <1>2, SumTable
<1> DEFINE h == [y \in Y |-> CHOOSE h : SumsOf(G[y], h)]
<1>5. \A y \in Y : SumsOf(G[y], h[y])
  BY <1>3, SumTable
<1> DEFINE sums(t) == [y \in Y |-> h[y][t]]
           Same == {t \in SUBSET X : g[t] = SumOf(sums(t))}
<1>6. \A t \in SUBSET X : Summable(sums(t)) /\ DOMAIN sums(t) = Y
  <2> SUFFICES ASSUME NEW t \in SUBSET X PROVE Summable(sums(t))
    OBVIOUS
  <2>1. ASSUME NEW y \in Y PROVE h[y][t] \in Int
    BY <1>0, <1>3, <1>5 DEF SumsOf
  <2> HIDE DEF h
  <2> QED BY <2>1 DEF Summable
<1> HIDE DEF h
<1>7. ASSUME NEW t \in SUBSET X, \A u \in SUBSET t : u # t => u \in Same
      PROVE  t \in Same
  <2>1. CASE t = {}
    <3>1. \A y \in Y : h[y][t] = 0
      BY <1>0, <1>5, <2>1 DEF SumsOf
    <3>2. g[t] = 0
      BY <1>0, <1>4, <2>1 DEF SumsOf
    <3>3. SumOf(sums(t)) = 0
      BY <3>1, SumZero
    <3> QED BY <3>2, <3>3
  <2>2. CASE t # {}
    <3>1. PICK x \in t : TRUE
      BY <2>2
    <3>2. g[t \ {x}] = SumOf(sums(t \ {x}))
      BY <1>7
    <3>3. g[t] = SumOf(F[x]) + g[t \ {x}]
      BY <1>0, <1>2, <1>4 DEF SumsOf
    <3>4. ASSUME NEW y \in Y PROVE sums(t)[y] = F[x][y] + sums(t \ {x})[y]
      <4>1. SumsOf(G[y], h[y]) /\ DOMAIN G[y] = X /\ G[y][x] = F[x][y]
        BY <1>0, <1>5
      <4>2. h[y][t] = G[y][x] + h[y][t \ {x}]
        BY <4>1 DEF SumsOf
      <4> QED BY <4>1, <4>2
    <3> DEFINE d == sums(t)  e == sums(t \ {x})  f == F[x]
    <3>5. Summable(d) /\ Summable(e) /\ Summable(f) /\ DOMAIN d = Y /\ DOMAIN e = Y /\ DOMAIN f = Y
      BY <1>0, <1>1, <1>6
    <3>6. \A y \in Y : d[y] = f[y] + e[y]
      BY <3>4
    <3> HIDE DEF d, e, f
    <3>7. SumOf(d) = SumOf(f) + SumOf(e)
      BY <3>5, <3>6, SumPlus
    <3>8. g[t] = SumOf(sums(t))
      BY <3>2, <3>3, <3>7 DEF d, e, f
    <3> QED BY <3>8
  <2> QED BY <2>1, <2>2
<1> HIDE DEF Same
<1>8. \A t \in SUBSET X : t \in Same
  BY <1>7, SubsetInduction
<1>9. g[X] = SumOf(sums(X))
  BY <1>8 DEF Same
<1>10. g[X] = SumOf(rows)
  BY <1>0, <1>2, <1>4 DEF SumsOf
<1>11. SumOf(sums(X)) = SumOf(columns)
  <2> DEFINE f == sums(X)
  <2>1. DOMAIN f = Y /\ \A y \in Y : f[y] = columns[y]
    BY <1>0, <1>3, <1>5 DEF SumsOf
  <2>2. Summable(f)
    BY <1>6
  <2>3. DOMAIN columns = Y
    BY <1>0
  <2>4. \A y \in Y : columns[y] \in Int
    BY <2>1, <2>2 DEF Summable
  <2> HIDE DEF f
  <2>5. Summable(columns)
    BY <2>3, <2>4 DEF Summable
  <2>6. SumOf(f) <= SumOf(columns) /\ SumOf(columns) <= SumOf(f)
    BY <2>1, <2>2, <2>3, <2>4, <2>5, SumMonotone
  <2>7. SumOf(f) \in Int /\ SumOf(columns) \in Int
    BY <2>2, <2>5, SumRemove
  <2>8. SumOf(f) = SumOf(columns)
    BY <2>6, <2>7
  <2> QED BY <2>8 DEF f
<1> QED BY <1>9, <1>10, <1>11
=============================================================================
