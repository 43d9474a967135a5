-------------------------------- MODULE Sums --------------------------------
(***************************************************************************)
(* Facts about extremes and sums of finite sets that the proofs of several *)
(* components need. MapThenSumSet is a recursive function on the subsets   *)
(* of a set that takes their elements in an arbitrary order; the laws say  *)
(* that the order does not matter. Induction is by the least counter-      *)
(* example of a set of numbers (LeastExists).                              *)
(***************************************************************************)
EXTENDS Integers, FiniteSets, FiniteSetTheorems, WellFoundedInduction, TLAPS

\* A nonempty set of naturals has a least element.
LEMMA LeastExists ==
  ASSUME NEW S, S \subseteq Nat, S # {}
  PROVE  \E x \in S : \A y \in S : x <= y
<1>1. \E x \in S : \A y \in S : ~ (<<y, x>> \in OpToRel(<, Nat))
  BY WFMin, NatLessThanWellFounded
<1>2. PICK x \in S : \A y \in S : ~ (<<y, x>> \in OpToRel(<, Nat))
  BY <1>1
<1>3. \A y \in S : ~(y < x)
  BY <1>2 DEF OpToRel
<1> QED BY <1>3

\* A bounded set of integers has a greatest element.
LEMMA GreatestExists ==
  ASSUME NEW S, S \subseteq Int, S # {}, NEW b \in Int, \A x \in S : x <= b
  PROVE  \E x \in S : \A y \in S : y <= x
<1>1. PICK D : D = {b - x : x \in S}
  OBVIOUS
<1>2. D \subseteq Nat /\ D # {}
  <2>1. ASSUME NEW d \in D PROVE d \in Nat
    <3>1. PICK x \in S : d = b - x
      BY <1>1
    <3>2. x \in Int /\ x <= b
      OBVIOUS
    <3> QED BY <3>1, <3>2
  <2> QED BY <1>1, <2>1
<1>3. PICK d \in D : \A e \in D : d <= e
  BY <1>2, LeastExists
<1>4. PICK x \in S : d = b - x
  BY <1>1
<1>5. ASSUME NEW y \in S PROVE y <= x
  <2>1. d <= b - y
    BY <1>1, <1>3
  <2> QED BY <2>1, <1>4
<1> QED BY <1>5

-----------------------------------------------------------------------------
(* Sums of weights over the subsets of a finite set.                       *)

Pick(s) == CHOOSE x \in s : TRUE

\* g adds up the weights w of every subset of S, in the order Pick takes them.
IsSum(g, w, S) ==
  g = [s \in SUBSET S |-> IF s = {} THEN 0 ELSE w[Pick(s)] + g[s \ {Pick(s)}]]

Total(w, S) == CHOOSE n : \E g : IsSum(g, w, S) /\ n = g[S]

LEMMA PickIn ==
  ASSUME NEW s, s # {}
  PROVE  Pick(s) \in s
BY DEF Pick

LEMMA SumStep ==
  ASSUME NEW g, NEW w, NEW S, IsSum(g, w, S)
  PROVE  /\ g[{}] = 0
         /\ \A s \in SUBSET S : s # {} => g[s] = w[Pick(s)] + g[s \ {Pick(s)}]
BY DEF IsSum

\* A nonempty subset loses one element with its pick.
LEMMA Smaller ==
  ASSUME NEW S, IsFiniteSet(S), NEW s \in SUBSET S, NEW x \in s
  PROVE  /\ s \ {x} \in SUBSET S /\ IsFiniteSet(s)
         /\ Cardinality(s) \in Nat /\ Cardinality(s) # 0
         /\ Cardinality(s \ {x}) \in Nat
         /\ Cardinality(s \ {x}) = Cardinality(s) - 1
<1>1. IsFiniteSet(s)
  BY FS_Subset
<1>2. Cardinality(s) \in Nat /\ Cardinality(s) # 0
  BY <1>1, FS_CardinalityType, FS_EmptySet
<1>3. IsFiniteSet(s \ {x}) /\ Cardinality(s \ {x}) = Cardinality(s) - 1
  BY <1>1, FS_RemoveElement
<1> QED BY <1>1, <1>2, <1>3, FS_CardinalityType

\* Such a function exists: unfolded n times it is right for n elements.
LEMMA SumExists ==
  ASSUME NEW S, IsFiniteSet(S), NEW w
  PROVE  \E g : IsSum(g, w, S)
<1> DEFINE Right(g, s) == g[s] = IF s = {} THEN 0 ELSE w[Pick(s)] + g[s \ {Pick(s)}]
           To(n) == \E g : /\ g = [s \in SUBSET S |-> g[s]]
                           /\ \A s \in SUBSET S : Cardinality(s) <= n => Right(g, s)
<1>c. \A s \in SUBSET S : IsFiniteSet(s) /\ Cardinality(s) \in Nat
  BY FS_Subset, FS_CardinalityType
<1>1. To(0)
  <2>1. PICK g : g = [s \in SUBSET S |-> 0]
    OBVIOUS
  <2>2. g = [s \in SUBSET S |-> g[s]]
    BY <2>1
  <2>3. ASSUME NEW s \in SUBSET S, Cardinality(s) <= 0 PROVE Right(g, s)
    <3>1. s = {}
      BY <1>c, <2>3, FS_EmptySet
    <3> QED BY <2>1, <3>1
  <2> QED BY <2>2, <2>3
<1>2. ASSUME NEW n \in Nat, To(n) PROVE To(n + 1)
  <2>1. PICK g : /\ g = [s \in SUBSET S |-> g[s]]
                 /\ \A s \in SUBSET S : Cardinality(s) <= n => Right(g, s)
    BY <1>2
  <2>2. PICK h : h = [s \in SUBSET S |->
                        IF s = {} THEN 0 ELSE w[Pick(s)] + g[s \ {Pick(s)}]]
    OBVIOUS
  <2>3. h = [s \in SUBSET S |-> h[s]]
    BY <2>2
  <2>4. \A s \in SUBSET S : Cardinality(s) <= n => h[s] = g[s]
    BY <2>1, <2>2
  <2>5. ASSUME NEW s \in SUBSET S, Cardinality(s) <= n + 1 PROVE Right(h, s)
    <3>1. CASE s = {}
      BY <2>2, <3>1
    <3>2. CASE s # {}
      <4>1. Pick(s) \in s
        BY <3>2, PickIn
      <4>2. s \ {Pick(s)} \in SUBSET S /\ Cardinality(s \ {Pick(s)}) <= n
        BY <2>5, <4>1, Smaller, <1>c
      <4>3. h[s \ {Pick(s)}] = g[s \ {Pick(s)}]
        BY <2>4, <4>2
      <4>4. h[s] = w[Pick(s)] + g[s \ {Pick(s)}]
        BY <2>2, <3>2
      <4> QED BY <3>2, <4>3, <4>4
    <3> QED BY <3>1, <3>2
  <2> QED BY <2>3, <2>5
<1> HIDE DEF To
<1>3. PICK Bad : Bad = {n \in Nat : ~To(n)}
  OBVIOUS
<1>4. Bad = {}
  <2>1. SUFFICES ASSUME Bad # {} PROVE FALSE
    OBVIOUS
  <2>2. PICK n \in Bad : \A m \in Bad : n <= m
    BY <1>3, <2>1, LeastExists
  <2>3. n \in Nat /\ ~To(n)
    BY <1>3
  <2>4. n # 0
    BY <1>1, <2>3
  <2>5. n - 1 \in Nat
    BY <2>3, <2>4
  <2>6. To(n - 1)
    BY <1>3, <2>2, <2>3, <2>5
  <2>7. To(n - 1 + 1) /\ n - 1 + 1 = n
    BY <1>2, <2>3, <2>5, <2>6
  <2> QED BY <2>3, <2>7
<1>5. Cardinality(S) \in Nat
  BY FS_CardinalityType
<1>6. To(Cardinality(S))
  BY <1>3, <1>4, <1>5
<1>7. PICK g : /\ g = [s \in SUBSET S |-> g[s]]
               /\ \A s \in SUBSET S : Cardinality(s) <= Cardinality(S) => Right(g, s)
  BY <1>6 DEF To
<1>8. \A s \in SUBSET S : Right(g, s)
  BY <1>7, FS_Subset
<1> QED BY <1>7, <1>8 DEF IsSum

\* On the subsets they share two such functions agree.
LEMMA SumsAgree ==
  ASSUME NEW S, NEW T, IsFiniteSet(S), NEW w, NEW g, NEW h,
         IsSum(g, w, S), IsSum(h, w, T), NEW u \in SUBSET S, u \in SUBSET T
  PROVE  g[u] = h[u]
<1> PICK Bad : Bad = {n \in Nat : \E s \in SUBSET S :
                        s \in SUBSET T /\ Cardinality(s) = n /\ g[s] # h[s]}
  OBVIOUS
<1>1. Bad = {}
  <2>1. SUFFICES ASSUME Bad # {} PROVE FALSE
    OBVIOUS
  <2>2. PICK n \in Bad : \A m \in Bad : n <= m
    BY <2>1, LeastExists
  <2>3. PICK s \in SUBSET S : s \in SUBSET T /\ Cardinality(s) = n /\ g[s] # h[s]
    OBVIOUS
  <2>4. s # {}
    BY <2>3, SumStep
  <2>5. Pick(s) \in s
    BY <2>4, PickIn
  <2>6. /\ s \ {Pick(s)} \in SUBSET S /\ s \ {Pick(s)} \in SUBSET T
        /\ Cardinality(s \ {Pick(s)}) \in Nat /\ ~(n <= Cardinality(s \ {Pick(s)}))
    BY <2>3, <2>5, Smaller
  <2>7. g[s \ {Pick(s)}] = h[s \ {Pick(s)}]
    BY <2>2, <2>6
  <2> QED BY <2>3, <2>4, <2>7, SumStep
<1>2. Cardinality(u) \in Nat
  BY FS_Subset, FS_CardinalityType
<1> QED BY <1>1, <1>2

\* Whichever element is taken first, the sum is the same number.
LEMMA SumExchange ==
  ASSUME NEW S, IsFiniteSet(S), NEW w \in [S -> Nat], NEW g, IsSum(g, w, S),
         NEW u \in SUBSET S
  PROVE  g[u] \in Nat /\ \A x \in u : g[u] = w[x] + g[u \ {x}]
<1> DEFINE Ok(s) == g[s] \in Nat /\ \A x \in s : g[s] = w[x] + g[s \ {x}]
<1>a. /\ g[{}] = 0
      /\ \A s \in SUBSET S : s # {} => g[s] = w[Pick(s)] + g[s \ {Pick(s)}]
  BY SumStep
<1>b. PICK Bad : Bad = {n \in Nat : \E s \in SUBSET S : Cardinality(s) = n /\ ~Ok(s)}
  OBVIOUS
<1>1. Bad = {}
  <2>1. SUFFICES ASSUME Bad # {} PROVE FALSE
    OBVIOUS
  <2>2. PICK n \in Bad : \A m \in Bad : n <= m
    BY <1>b, <2>1, LeastExists
  <2>3. PICK s \in SUBSET S : Cardinality(s) = n /\ ~Ok(s)
    BY <1>b
  <2>4. s # {}
    <3>1. Ok({})
      BY <1>a
    <3> QED BY <2>3, <3>1
  <2>5. ASSUME NEW t \in SUBSET S, NEW x \in s, t = s \ {x} PROVE Ok(t)
    <3>1. Cardinality(t) \in Nat /\ ~(n <= Cardinality(t))
      BY <2>3, <2>5, Smaller
    <3> QED BY <1>b, <2>2, <3>1
  <2>6. PICK c \in s : c = Pick(s)
    BY <2>4, PickIn
  <2>7. PICK r : r = s \ {c}
    OBVIOUS
  <2>8. r \in SUBSET S /\ Ok(r) /\ g[s] = w[c] + g[r]
    <3>1. r \in SUBSET S
      BY <2>7
    <3>2. Ok(r)
      BY <2>5, <2>7, <3>1
    <3>3. g[s] = w[c] + g[r]
      BY <1>a, <2>4, <2>6, <2>7
    <3> QED BY <3>1, <3>2, <3>3
  <2>9. g[s] \in Nat
    BY <2>3, <2>8
  <2>10. ASSUME NEW x \in s PROVE g[s] = w[x] + g[s \ {x}]
    <3>1. CASE x = c
      BY <2>7, <2>8, <3>1
    <3>2. CASE x # c
      <4>1. PICK v : v = s \ {x}
        OBVIOUS
      <4>2. v \in SUBSET S /\ Ok(v) /\ c \in v
        BY <2>5, <3>2, <4>1
      <4>3. x \in r /\ r \ {x} = v \ {c}
        BY <2>7, <3>2, <4>1
      <4>4. g[r] = w[x] + g[r \ {x}] /\ g[v] = w[c] + g[v \ {c}]
        BY <2>8, <4>2, <4>3
      <4>5. r \ {x} \in SUBSET S /\ Ok(r \ {x})
        <5>1. r \ {x} \in SUBSET S
          BY <2>8
        <5>2. /\ Cardinality(r) \in Nat /\ Cardinality(r) = n - 1
              /\ Cardinality(r \ {x}) \in Nat
              /\ Cardinality(r \ {x}) = Cardinality(r) - 1
          <6>1. Cardinality(r) \in Nat /\ Cardinality(r) = n - 1
            BY <2>3, <2>7, Smaller
          <6>2. /\ Cardinality(r \ {x}) \in Nat
                /\ Cardinality(r \ {x}) = Cardinality(r) - 1
            BY <2>8, <4>3, Smaller
          <6> QED BY <6>1, <6>2
        <5>3. n \in Nat /\ ~(n <= Cardinality(r \ {x}))
          BY <1>b, <5>2
        <5> QED BY <1>b, <2>2, <5>1, <5>2, <5>3
      <4>6. w[x] \in Nat /\ w[c] \in Nat /\ g[r \ {x}] \in Nat
        <5>1. g[r \ {x}] \in Nat
          BY <4>5
        <5> QED BY <5>1
      <4>7. /\ g[s] = w[c] + (w[x] + g[r \ {x}])
            /\ g[s \ {x}] = w[c] + g[r \ {x}]
        BY <2>8, <4>1, <4>3, <4>4
      <4> HIDE DEF Ok
      <4> QED BY <4>6, <4>7
    <3> QED BY <3>1, <3>2
  <2> QED BY <2>3, <2>9, <2>10
<1>2. Cardinality(u) \in Nat
  BY FS_Subset, FS_CardinalityType
<1> QED BY <1>b, <1>1, <1>2

LEMMA TotalOf ==
  ASSUME NEW S, IsFiniteSet(S), NEW w, NEW g, IsSum(g, w, S), NEW u \in SUBSET S
  PROVE  Total(w, u) = g[u]
<1>1. PICK h : IsSum(h, w, u)
  BY FS_Subset, SumExists
<1>2. \E n : \E f : IsSum(f, w, u) /\ n = f[u]
  BY <1>1
<1>3. PICK f : IsSum(f, w, u) /\ Total(w, u) = f[u]
  BY <1>2 DEF Total
<1> QED BY <1>3, SumsAgree

LEMMA TotalEmpty ==
  ASSUME NEW w
  PROVE  Total(w, {}) = 0
<1>1. PICK g : IsSum(g, w, {})
  BY FS_EmptySet, SumExists
<1>2. Total(w, {}) = g[{}]
  BY <1>1, FS_EmptySet, TotalOf
<1> QED BY <1>1, <1>2, SumStep

LEMMA TotalNat ==
  ASSUME NEW S, IsFiniteSet(S), NEW w \in [S -> Nat], NEW u \in SUBSET S
  PROVE  Total(w, u) \in Nat
<1>1. PICK g : IsSum(g, w, S)
  BY SumExists
<1> QED BY <1>1, TotalOf, SumExchange

\* A new element adds its weight.
LEMMA TotalAdd ==
  ASSUME NEW S, IsFiniteSet(S), NEW w \in [S -> Nat], NEW u \in SUBSET S,
         NEW x \in S, x \notin u
  PROVE  Total(w, u \cup {x}) = Total(w, u) + w[x]
<1>1. PICK g : IsSum(g, w, S)
  BY SumExists
<1>2. PICK v : v = u \cup {x}
  OBVIOUS
<1>3. v \in SUBSET S /\ x \in v /\ v \ {x} = u
  BY <1>2
<1>4. Total(w, v) = g[v] /\ Total(w, u) = g[u]
  BY <1>1, <1>3, TotalOf
<1>5. g[v] = w[x] + g[v \ {x}] /\ g[u] \in Nat
  BY <1>1, <1>3, SumExchange
<1>6. w[x] \in Nat
  OBVIOUS
<1> QED BY <1>2, <1>3, <1>4, <1>5, <1>6

\* A union weighs no more than its parts together.
LEMMA TotalUnion ==
  ASSUME NEW S, IsFiniteSet(S), NEW w \in [S -> Nat], NEW u \in SUBSET S,
         NEW v \in SUBSET S
  PROVE  Total(w, u \cup v) <= Total(w, u) + Total(w, v)
<1> DEFINE Ok(t) == Total(w, u \cup t) <= Total(w, u) + Total(w, t)
<1>b. PICK Bad : Bad = {n \in Nat : \E t \in SUBSET S : Cardinality(t) = n /\ ~Ok(t)}
  OBVIOUS
<1>n. \A t \in SUBSET S : Total(w, t) \in Nat
  BY TotalNat
<1>1. Bad = {}
  <2>1. SUFFICES ASSUME Bad # {} PROVE FALSE
    OBVIOUS
  <2>2. PICK n \in Bad : \A m \in Bad : n <= m
    BY <1>b, <2>1, LeastExists
  <2>3. PICK t \in SUBSET S : Cardinality(t) = n /\ ~Ok(t)
    BY <1>b
  <2>4. t # {}
    <3>1. u \cup {} = u /\ Total(w, u) \in Nat
      BY <1>n
    <3>2. Ok({})
      BY <3>1, TotalEmpty
    <3> QED BY <2>3, <3>2
  <2>5. PICK x \in t : TRUE
    BY <2>4
  <2>6. PICK r : r = t \ {x}
    OBVIOUS
  <2>7. r \in SUBSET S /\ x \notin r /\ x \in S /\ t = r \cup {x} /\ u \cup r \in SUBSET S
    BY <2>6
  <2>8. Ok(r)
    <3>1. Cardinality(r) \in Nat /\ ~(n <= Cardinality(r))
      BY <2>3, <2>5, <2>6, Smaller
    <3> QED BY <1>b, <2>2, <2>7, <3>1
  <2>9. Total(w, t) = Total(w, r) + w[x]
    BY <2>7, TotalAdd
  <2>10. Total(w, u \cup t) \in {Total(w, u \cup r), Total(w, u \cup r) + w[x]}
    <3>1. CASE x \in u \cup r
      <4>1. u \cup t = u \cup r
        BY <2>7, <3>1
      <4> QED BY <4>1
    <3>2. CASE x \notin u \cup r
      <4>1. PICK a \in SUBSET S : a = u \cup r
        BY <2>7
      <4>2. u \cup t = a \cup {x}
        BY <2>7, <4>1
      <4>3. Total(w, a \cup {x}) = Total(w, a) + w[x]
        BY <2>7, <3>2, <4>1, TotalAdd
      <4> QED BY <4>1, <4>2, <4>3
    <3> QED BY <3>1, <3>2
  <2>11. w[x] \in Nat /\ Total(w, u) \in Nat /\ Total(w, r) \in Nat /\ Total(w, u \cup r) \in Nat
    BY <1>n, <2>7
  <2>12. Ok(t)
    <3>1. PICK a, b, c, d \in Nat : /\ a = Total(w, u \cup r) /\ b = Total(w, u)
                                    /\ c = Total(w, r) /\ d = w[x]
      BY <2>11
    <3>2. a <= b + c
      BY <2>8, <3>1
    <3>3. Total(w, u \cup t) <= b + (c + d)
      BY <2>10, <3>1, <3>2
    <3> QED BY <2>9, <3>1, <3>3
  <2> QED BY <2>3, <2>12
<1>2. Cardinality(v) \in Nat
  BY FS_Subset, FS_CardinalityType
<1> QED BY <1>b, <1>1, <1>2

-----------------------------------------------------------------------------
(* Orders.                                                                 *)

\* A finite set with a strict order has an element that nothing follows.
LEMMA LastExists ==
  ASSUME NEW S, IsFiniteSet(S), S # {}, NEW R, \A x \in S : <<x, x>> \notin R,
         \A x, y, z \in S : <<x, y>> \in R /\ <<y, z>> \in R => <<x, z>> \in R
  PROVE  \E x \in S : \A y \in S : <<x, y>> \notin R
<1> DEFINE Before(x) == {y \in S : <<y, x>> \in R}
<1>0. \A x \in S, y \in S : y \in Before(x) <=> <<y, x>> \in R
  OBVIOUS
<1>9. \A x \in S : Before(x) \in SUBSET S
  OBVIOUS
<1> HIDE DEF Before
<1>1. \A x \in S : /\ IsFiniteSet(Before(x)) /\ Cardinality(Before(x)) \in Nat
                   /\ Cardinality(Before(x)) <= Cardinality(S)
  BY <1>9, FS_Subset, FS_CardinalityType
<1>2. PICK C : C = {Cardinality(Before(x)) : x \in S}
  OBVIOUS
<1>3. C \subseteq Int /\ C # {} /\ Cardinality(S) \in Int
      /\ \A c \in C : c <= Cardinality(S)
  BY <1>1, <1>2, FS_CardinalityType
<1>4. PICK c \in C : \A d \in C : d <= c
  BY <1>3, GreatestExists
<1>5. PICK x \in S : c = Cardinality(Before(x))
  BY <1>2
<1>6. ASSUME NEW y \in S, <<x, y>> \in R PROVE FALSE
  <2>1. x \in Before(y) /\ x \notin Before(x)
    BY <1>0, <1>6
  <2>2. Before(x) \in SUBSET Before(y) /\ Before(x) # Before(y)
    BY <1>0, <1>6, <1>9, <2>1
  <2>3. IsFiniteSet(Before(y))
    BY <1>1
  <2>4. /\ Cardinality(Before(x)) <= Cardinality(Before(y))
        /\ Cardinality(Before(x)) # Cardinality(Before(y))
    BY <2>2, <2>3, FS_Subset
  <2>5. Cardinality(Before(y)) <= Cardinality(Before(x))
    BY <1>2, <1>4, <1>5
  <2> QED BY <1>1, <2>4, <2>5
<1> QED BY <1>6
=============================================================================
