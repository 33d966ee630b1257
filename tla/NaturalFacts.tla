----------------------------- MODULE NaturalFacts -----------------------------
(***************************************************************************)
(* Least elements of sets of numbers; induction over the numbers, and over *)
(* anything that has a size, with a set for the statement (the library's   *)
(* theorem has an operator there, for which the provers cannot put a       *)
(* formula); that functions defined by recursion exist; and sums.          *)
(***************************************************************************)
EXTENDS Integers, FiniteSetsExt, FiniteSetTheorems, WellFoundedInduction, TLAPS

\* A set of natural numbers that has an element has a least one.
LEMMA LeastNumber ==
  ASSUME NEW S \in SUBSET Nat, S # {}
  PROVE  \E x \in S : \A y \in S : x <= y
  <1>. DEFINE Below == OpToRel(<, Nat)
  <1>1. \E x \in S : \A y \in S : <<y, x>> \notin Below
    <2>. HIDE DEF Below
    <2>1. IsWellFoundedOn(Below, Nat)
      BY NatLessThanWellFounded DEF Below
    <2>. QED BY <2>1, WFMin
  <1>2. \A x, y \in S : <<y, x>> \notin Below => x <= y
    BY DEF OpToRel
  <1>. QED BY <1>1, <1>2

\* A set that has 0 and the successor of each of its elements is Nat.
LEMMA SetInduction ==
  ASSUME NEW S \in SUBSET Nat, 0 \in S, \A n \in S : n + 1 \in S
  PROVE  S = Nat
  <1>. SUFFICES ASSUME Nat \ S # {}
                PROVE  FALSE
    OBVIOUS
  <1>1. PICK x \in Nat \ S : \A y \in Nat \ S : x <= y
    BY LeastNumber
  <1>2. x - 1 \in Nat /\ x - 1 \in S
    BY <1>1
  <1>. QED BY <1>1, <1>2

\* Min of such a set is its least element.
LEMMA MinProperties ==
  ASSUME NEW S \in SUBSET Nat, S # {}
  PROVE  Min(S) \in S /\ \A y \in S : Min(S) <= y
  BY LeastNumber DEF Min

\* ... and nothing else is.
LEMMA MinUnique ==
  ASSUME NEW S \in SUBSET Nat, NEW x \in S, \A y \in S : x <= y
  PROVE  Min(S) = x
  <1>1. Min(S) \in S /\ Min(S) <= x
    BY MinProperties
  <1>2. x \in Nat /\ Min(S) \in Nat /\ x <= Min(S)
    BY <1>1
  <1>. QED BY <1>1, <1>2

-----------------------------------------------------------------------------
(* Recursive functions                                                     *)

\* Induction over a set whose elements have a size, with a set for the statement.
LEMMA SizeInduction ==
  ASSUME NEW D, NEW size \in [D -> Nat], NEW P \in SUBSET D,
         \A d \in D : (\A e \in D : size[e] < size[d] => e \in P) => d \in P
  PROVE  P = D
  <1>. SUFFICES ASSUME D \ P # {}
                PROVE  FALSE
    OBVIOUS
  <1>. DEFINE S == {size[d] : d \in D \ P}
  <1>1. S \in SUBSET Nat /\ S # {}
    OBVIOUS
  <1>2. PICK k \in S : \A y \in S : k <= y
    <2>. HIDE DEF S
    <2>. QED BY <1>1, LeastNumber
  <1>3. PICK d \in D \ P : size[d] = k
    BY <1>2
  <1>4. \A e \in D : size[e] < size[d] => e \in P
    BY <1>2, <1>3
  <1>. QED BY <1>3, <1>4

\* A function on D into R that is base where it stops, and elsewhere a step from
\* its value at a smaller argument.
Recursion(D, R, size, stop, base, next, step) ==
    /\ size \in [D -> Nat] /\ stop \in SUBSET D
    /\ base \in [D -> R] /\ next \in [D -> D] /\ step \in [D -> [R -> R]]
    /\ \A d \in D \ stop : size[next[d]] < size[d]

Solves(g, D, stop, base, next, step) ==
    \A d \in D : g[d] = IF d \in stop THEN base[d] ELSE step[d][g[next[d]]]

\* There is such a function.
LEMMA RecursiveFunction ==
  ASSUME NEW D, NEW R, NEW size, NEW stop, NEW base, NEW next, NEW step,
         Recursion(D, R, size, stop, base, next, step)
  PROVE  \E g \in [D -> R] : Solves(g, D, stop, base, next, step)
  <1>. SUFFICES ASSUME size \in [D -> Nat], stop \in SUBSET D, base \in [D -> R],
                       next \in [D -> D], step \in [D -> [R -> R]],
                       \A d \in D \ stop : size[next[d]] < size[d]
                PROVE  \E g \in [D -> R] :
                          \A d \in D : g[d] = IF d \in stop THEN base[d] ELSE step[d][g[next[d]]]
    BY DEF Recursion, Solves
  <1>. DEFINE Step(g) == [d \in D |-> IF d \in stop THEN base[d] ELSE step[d][g[next[d]]]]
              Upto(k, g) == \A d \in D : size[d] < k => g[d] = Step(g)[d]
              S == {k \in Nat : \E g \in [D -> R] : Upto(k, g)}
  <1>1. \A g \in [D -> R] : Step(g) \in [D -> R]
    OBVIOUS
  <1>2. S = Nat
    <2>1. 0 \in S
      BY DEF Upto
    <2>2. ASSUME NEW k \in S
          PROVE  k + 1 \in S
      <3>1. PICK g \in [D -> R] : Upto(k, g)
        OBVIOUS
      <3>2. ASSUME NEW d \in D, size[d] < k + 1
            PROVE  Step(g)[d] = Step(Step(g))[d]
        <4>1. CASE d \in stop
          BY <4>1
        <4>2. CASE d \notin stop
          <5>1. next[d] \in D /\ size[next[d]] < k
            BY <3>2, <4>2
          <5>2. g[next[d]] = Step(g)[next[d]]
            BY <3>1, <5>1
          <5>. QED BY <4>2, <5>2
        <4>. QED BY <4>1, <4>2
      <3>3. Upto(k + 1, Step(g))
        BY <3>2
      <3>4. k + 1 \in Nat /\ Step(g) \in [D -> R]
        BY <1>1
      <3>. HIDE DEF Step, Upto
      <3>. QED BY <3>3, <3>4
    <2>. HIDE DEF S
    <2>3. S \in SUBSET Nat
      BY DEF S
    <2>. QED BY <2>1, <2>2, <2>3, SetInduction
  <1>3. \A k \in Nat : \E g \in [D -> R] : Upto(k, g)
    BY <1>2
  <1>. DEFINE G(k) == CHOOSE g \in [D -> R] : Upto(k, g)
              H == [d \in D |-> G(size[d] + 1)[d]]
  <1>4. \A k \in Nat : G(k) \in [D -> R] /\ Upto(k, G(k))
    BY <1>3
  <1>5. ASSUME NEW d \in D, NEW k \in Nat, NEW l \in Nat, size[d] < k, size[d] < l
        PROVE  G(k)[d] = G(l)[d]
    <2>. DEFINE P == {e \in D : size[e] < k /\ size[e] < l => G(k)[e] = G(l)[e]}
    <2>1. ASSUME NEW e \in D, \A x \in D : size[x] < size[e] => x \in P
          PROVE  e \in P
      <3>. SUFFICES ASSUME size[e] < k, size[e] < l
                    PROVE  G(k)[e] = G(l)[e]
        OBVIOUS
      <3>1. G(k)[e] = Step(G(k))[e] /\ G(l)[e] = Step(G(l))[e]
        <4>1. Upto(k, G(k)) /\ Upto(l, G(l))
          BY <1>4
        <4>. HIDE DEF G, Step
        <4>. QED BY <4>1
      <3>. HIDE DEF G
      <3>2. CASE e \in stop
        BY <3>1, <3>2
      <3>3. CASE e \notin stop
        <4>1. size[next[e]] < size[e] /\ next[e] \in D
          BY <3>3
        <4>2. G(k)[next[e]] = G(l)[next[e]]
          BY <2>1, <4>1
        <4>. QED BY <3>1, <3>3, <4>2
      <3>. QED BY <3>2, <3>3
    <2>2. P = D
      <3>. HIDE DEF P
      <3>1. P \in SUBSET D
        BY DEF P
      <3>2. \A e \in D : (\A x \in D : size[x] < size[e] => x \in P) => e \in P
        BY <2>1
      <3>3. size \in [D -> Nat]
        OBVIOUS
      <3>. QED BY ONLY <3>1, <3>2, <3>3, SizeInduction
    <2>. QED BY <1>5, <2>2
  <1>. HIDE DEF G
  <1>6. H \in [D -> R]
    BY <1>4
  <1>7. ASSUME NEW d \in D
        PROVE  H[d] = IF d \in stop THEN base[d] ELSE step[d][H[next[d]]]
    <2>1. H[d] = Step(G(size[d] + 1))[d]
      BY <1>4 DEF Upto
    <2>2. CASE d \notin stop
      <3>1. next[d] \in D /\ size[next[d]] < size[d]
        BY <2>2
      <3>2. H[next[d]] = G(size[d] + 1)[next[d]]
        BY <1>5, <3>1
      <3>. QED BY <2>1, <2>2, <3>2
    <2>. QED BY <2>1, <2>2
  <1>. QED BY <1>6, <1>7

-----------------------------------------------------------------------------
(* Sums                                                                    *)

\* The sum over a finite set, with a summand taken out that CHOOSE picks.
LEMMA SumStep ==
  ASSUME NEW D, NEW f \in [D -> Nat], NEW S \in SUBSET D, IsFiniteSet(S)
  PROVE  /\ SumFunctionOnSet(f, {}) = 0
         /\ SumFunctionOnSet(f, S) \in Nat
         /\ S # {} => LET x == CHOOSE y \in S : TRUE
                      IN  SumFunctionOnSet(f, S) = f[x] + SumFunctionOnSet(f, S \ {x})
  <1>. DEFINE pick(s) == CHOOSE y \in s : TRUE
              Body(T, g) == [s \in SUBSET T |-> IF s = {} THEN 0 ELSE f[pick(s)] + g[s \ {pick(s)}]]
              Iter(T) == CHOOSE g : g = Body(T, g)
  <1>1. \A T : SumFunctionOnSet(f, T) = Iter(T)[T]
    BY DEF SumFunctionOnSet, FoldFunctionOnSet, MapThenFoldSet
  <1>2. ASSUME NEW T \in SUBSET D, IsFiniteSet(T)
        PROVE  /\ Iter(T) = Body(T, Iter(T))
               /\ \A s \in SUBSET T : Iter(T)[s] \in Nat
    <2>. DEFINE size == [s \in SUBSET T |-> Cardinality(s)]
                stop == {{}}
                base == [s \in SUBSET T |-> 0]
                next == [s \in SUBSET T |-> s \ {pick(s)}]
                step == [s \in SUBSET T |->
                            [n \in Nat |-> IF s = {} THEN 0 ELSE f[pick(s)] + n]]
    <2>1. \A s \in SUBSET T : IsFiniteSet(s) /\ Cardinality(s) \in Nat
      BY <1>2, FS_Subset, FS_CardinalityType
    <2>2. \A s \in SUBSET T : s # {} => pick(s) \in s /\ f[pick(s)] \in Nat
      OBVIOUS
    <2>3. size \in [SUBSET T -> Nat]
      BY <2>1
    <2>4. base \in [SUBSET T -> Nat] /\ next \in [SUBSET T -> SUBSET T] /\ stop \in SUBSET SUBSET T
      OBVIOUS
    <2>5. step \in [SUBSET T -> [Nat -> Nat]]
      BY <2>2
    <2>6. \A s \in (SUBSET T) \ stop : size[next[s]] < size[s]
      <3>. SUFFICES ASSUME NEW s \in SUBSET T, s # {}
                    PROVE  Cardinality(s \ {pick(s)}) < Cardinality(s)
        OBVIOUS
      <3>. HIDE DEF pick
      <3>1. Cardinality(s \ {pick(s)}) = Cardinality(s) - 1
        BY <2>1, <2>2, FS_RemoveElement
      <3>. QED BY <2>1, <3>1
    <2>7. PICK g \in [SUBSET T -> Nat] :
             \A s \in SUBSET T : g[s] = IF s \in stop THEN base[s] ELSE step[s][g[next[s]]]
      <3>1. Recursion(SUBSET T, Nat, size, stop, base, next, step)
        BY <2>3, <2>4, <2>5, <2>6 DEF Recursion
      <3>. HIDE DEF size, stop, base, next, step
      <3>2. \E g \in [SUBSET T -> Nat] : Solves(g, SUBSET T, stop, base, next, step)
        BY <3>1, RecursiveFunction
      <3>. QED BY <3>2 DEF Solves
    <2>8. g = Body(T, g)
      <3>1. ASSUME NEW s \in SUBSET T
            PROVE  g[s] = IF s = {} THEN 0 ELSE f[pick(s)] + g[s \ {pick(s)}]
        <4>. HIDE DEF pick
        <4>1. s \ {pick(s)} \in SUBSET T /\ g[s \ {pick(s)}] \in Nat
          OBVIOUS
        <4>. QED BY <2>7, <4>1
      <3>. HIDE DEF pick
      <3>. QED BY <3>1
    <2>9. Iter(T) = Body(T, Iter(T))
      <3>. HIDE DEF Body
      <3>. QED BY <2>8
    <2>10. \A s \in SUBSET T : Iter(T)[s] = g[s]
      <3>. DEFINE P == {s \in SUBSET T : Iter(T)[s] = g[s]}
      <3>1. ASSUME NEW s \in SUBSET T, \A t \in SUBSET T : size[t] < size[s] => t \in P
            PROVE  s \in P
        <4>. HIDE DEF Iter
        <4>1. Iter(T)[s] = IF s = {} THEN 0 ELSE f[pick(s)] + Iter(T)[s \ {pick(s)}]
          <5>. HIDE DEF pick
          <5>. QED BY <2>9
        <4>2. g[s] = IF s = {} THEN 0 ELSE f[pick(s)] + g[s \ {pick(s)}]
          <5>. HIDE DEF pick
          <5>. QED BY <2>8
        <4>3. s # {} => s \ {pick(s)} \in P
          BY <2>6, <3>1
        <4>. HIDE DEF pick
        <4>. QED BY <4>1, <4>2, <4>3
      <3>2. P = SUBSET T
        <4>. HIDE DEF P
        <4>1. P \in SUBSET SUBSET T
          BY DEF P
        <4>. HIDE DEF size
        <4>. QED BY <2>3, <3>1, <4>1, SizeInduction
      <3>. QED BY <3>2
    <2>. QED BY <2>9, <2>10
  <1>3. IsFiniteSet({}) /\ {} \in SUBSET D
    BY FS_EmptySet
  <1>4. SumFunctionOnSet(f, {}) = 0
    <2>1. Iter({})[{}] = 0
      <3>. HIDE DEF Iter, pick
      <3>. QED BY <1>2, <1>3
    <2>. QED BY <1>1, <2>1
  <1>5. SumFunctionOnSet(f, S) \in Nat
    <2>1. S \in SUBSET S
      OBVIOUS
    <2>. HIDE DEF Iter
    <2>2. Iter(S)[S] \in Nat
      BY <1>2, <2>1
    <2>. QED BY <1>1, <2>2
  <1>6. ASSUME S # {}
        PROVE  SumFunctionOnSet(f, S) = f[pick(S)] + SumFunctionOnSet(f, S \ {pick(S)})
    <2>. DEFINE T == S \ {pick(S)}
    <2>1. T \in SUBSET D /\ IsFiniteSet(T) /\ T \subseteq S
      BY FS_Subset
    <2>2. Iter(S)[S] = f[pick(S)] + Iter(S)[T]
      <3>. HIDE DEF Iter, pick
      <3>. QED BY <1>2, <1>6
    <2>3. \A s \in SUBSET T : Iter(S)[s] = Iter(T)[s]
      <3>. DEFINE P == {s \in SUBSET T : Iter(S)[s] = Iter(T)[s]}
                  size == [s \in SUBSET T |-> Cardinality(s)]
      <3>0. \A s \in SUBSET T : IsFiniteSet(s) /\ Cardinality(s) \in Nat
        BY <2>1, FS_Subset, FS_CardinalityType
      <3>1. ASSUME NEW s \in SUBSET T, \A t \in SUBSET T : size[t] < size[s] => t \in P
            PROVE  s \in P
        <4>. HIDE DEF Iter
        <4>1. Iter(S)[s] = IF s = {} THEN 0 ELSE f[pick(s)] + Iter(S)[s \ {pick(s)}]
          <5>. HIDE DEF pick
          <5>. QED BY <1>2, <2>1
        <4>2. Iter(T)[s] = IF s = {} THEN 0 ELSE f[pick(s)] + Iter(T)[s \ {pick(s)}]
          <5>. HIDE DEF pick, T
          <5>. QED BY <1>2, <2>1
        <4>3. s # {} => s \ {pick(s)} \in P
          <5>. SUFFICES ASSUME s # {}
                        PROVE  s \ {pick(s)} \in P
            OBVIOUS
          <5>1. pick(s) \in s
            OBVIOUS
          <5>. HIDE DEF pick, P
          <5>2. Cardinality(s \ {pick(s)}) = Cardinality(s) - 1
            BY <3>0, <5>1, FS_RemoveElement
          <5>3. s \ {pick(s)} \in SUBSET T /\ size[s \ {pick(s)}] < size[s]
            BY <3>0, <5>2
          <5>. QED BY <3>1, <5>3
        <4>. HIDE DEF pick
        <4>. QED BY <4>1, <4>2, <4>3
      <3>2. size \in [SUBSET T -> Nat]
        BY <3>0
      <3>3. P = SUBSET T
        <4>. HIDE DEF P
        <4>1. P \in SUBSET SUBSET T
          BY DEF P
        <4>. HIDE DEF size, T
        <4>. QED BY <3>1, <3>2, <4>1, SizeInduction
      <3>. QED BY <3>3
    <2>. HIDE DEF Iter
    <2>. QED BY <1>1, <2>2, <2>3
  <1>. QED BY <1>4, <1>5, <1>6

Summable(f, D, S) == f \in [D -> Nat] /\ S \in SUBSET D /\ IsFiniteSet(S)

\* It is a number.
LEMMA SumIsNumber ==
  ASSUME NEW D, NEW f, NEW S, Summable(f, D, S)
  PROVE  SumFunctionOnSet(f, S) \in Nat
  BY SumStep DEF Summable

\* ... with any summand taken out.
LEMMA SumTakeOut ==
  ASSUME NEW D, NEW f \in [D -> Nat], NEW S \in SUBSET D, IsFiniteSet(S), NEW x \in S
  PROVE  SumFunctionOnSet(f, S) = f[x] + SumFunctionOnSet(f, S \ {x})
  <1>. DEFINE size == [s \in SUBSET S |-> Cardinality(s)]
              Sum(s) == SumFunctionOnSet(f, s)
              P == {s \in SUBSET S : \A y \in s : Sum(s) = f[y] + Sum(s \ {y})}
  <1>1. \A s \in SUBSET S : IsFiniteSet(s) /\ Cardinality(s) \in Nat /\ s \in SUBSET D
    BY FS_Subset, FS_CardinalityType
  <1>2. ASSUME NEW s \in SUBSET S, \A t \in SUBSET S : size[t] < size[s] => t \in P,
               NEW y \in s
        PROVE  Sum(s) = f[y] + Sum(s \ {y})
    <2>. DEFINE c == CHOOSE z \in s : TRUE
    <2>1. c \in s
      OBVIOUS
    <2>2. Sum(s) = f[c] + Sum(s \ {c})
      BY <1>1, SumStep
    <2>. HIDE DEF c
    <2>3. CASE y = c
      BY <2>2, <2>3
    <2>4. CASE y # c
      <3>1. /\ s \ {c} \in SUBSET S /\ size[s \ {c}] < size[s]
            /\ s \ {y} \in SUBSET S /\ size[s \ {y}] < size[s]
        <4>1. \A z \in s : Cardinality(s \ {z}) = Cardinality(s) - 1
          BY <1>1, FS_RemoveElement
        <4>2. \A z \in s : s \ {z} \in SUBSET S /\ size[s \ {z}] < size[s]
          BY <1>1, <4>1
        <4>. QED BY <2>1, <4>2
      <3>2. s \ {c} \in P /\ s \ {y} \in P
        BY <1>2, <3>1
      <3>3. Sum(s \ {c}) = f[y] + Sum((s \ {c}) \ {y})
        BY <2>4, <3>2
      <3>4. Sum(s \ {y}) = f[c] + Sum((s \ {y}) \ {c})
        BY <2>1, <2>4, <3>2
      <3>5. (s \ {c}) \ {y} = (s \ {y}) \ {c}
        OBVIOUS
      <3>6. Sum((s \ {y}) \ {c}) \in Nat /\ f[c] \in Nat /\ f[y] \in Nat
        <4>1. (s \ {y}) \ {c} \in SUBSET D /\ IsFiniteSet((s \ {y}) \ {c})
          BY <1>1
        <4>. QED BY <2>1, <4>1, SumStep
      <3>7. Sum(s) = f[c] + (f[y] + Sum((s \ {y}) \ {c}))
        BY <2>2, <3>3, <3>5
      <3>. HIDE DEF Sum
      <3>. QED BY <3>4, <3>6, <3>7
    <2>. QED BY <2>3, <2>4
  <1>3. P = SUBSET S
    <2>1. size \in [SUBSET S -> Nat]
      BY <1>1
    <2>2. P \in SUBSET SUBSET S
      OBVIOUS
    <2>3. \A s \in SUBSET S : (\A t \in SUBSET S : size[t] < size[s] => t \in P) => s \in P
      BY <1>2
    <2>. HIDE DEF P, size
    <2>. QED BY <2>1, <2>2, <2>3, SizeInduction
  <1>4. S \in P
    BY <1>3
  <1>. QED BY <1>4

\* The sum over the first numbers, with the last one taken out.
LEMMA PrefixStep ==
  ASSUME NEW D, NEW f \in [D -> Nat], NEW i \in Nat \ {0}, 1..i \in SUBSET D
  PROVE  SumFunctionOnSet(f, 1..i) = SumFunctionOnSet(f, 1..(i - 1)) + f[i]
  <1>1. ASSUME NEW S \in SUBSET D, IsFiniteSet(S), NEW x \in S
        PROVE  SumFunctionOnSet(f, S) = SumFunctionOnSet(f, S \ {x}) + f[x]
    <2>1. SumFunctionOnSet(f, S) = f[x] + SumFunctionOnSet(f, S \ {x})
      BY <1>1, SumTakeOut
    <2>2. S \ {x} \in SUBSET D /\ IsFiniteSet(S \ {x})
      BY <1>1, FS_Subset
    <2>3. SumFunctionOnSet(f, S \ {x}) \in Nat /\ f[x] \in Nat
      BY <2>2, SumStep
    <2>. QED BY <2>1, <2>3
  <1>2. i \in 1..i /\ IsFiniteSet(1..i) /\ (1..i) \ {i} = 1..(i - 1)
    <2>1. IsFiniteSet(1..i)
      BY FS_Interval
    <2>2. i \in 1..i /\ (1..i) \ {i} = 1..(i - 1)
      OBVIOUS
    <2>. QED BY <2>1, <2>2
  <1>3. SumFunctionOnSet(f, 1..i) = SumFunctionOnSet(f, (1..i) \ {i}) + f[i]
    BY <1>1, <1>2
  <1>. QED BY <1>2, <1>3

\* Sums over the first numbers grow by one summand at a time.
LEMMA PrefixSum ==
  ASSUME NEW n \in Nat, NEW f \in [1..n -> Nat]
  PROVE  /\ SumFunctionOnSet(f, 1..0) = 0
         /\ \A i \in 0..n : SumFunctionOnSet(f, 1..i) \in Nat
         /\ \A i \in 1..n : SumFunctionOnSet(f, 1..i) = SumFunctionOnSet(f, 1..(i - 1)) + f[i]
         /\ \A i \in 0..n : \A j \in i..n :
               SumFunctionOnSet(f, 1..i) <= SumFunctionOnSet(f, 1..j)
  <1>1. \A i \in 0..n : 1..i \in SUBSET (1..n) /\ IsFiniteSet(1..i)
    BY FS_Interval
  <1>2. 1..0 = {}
    OBVIOUS
  <1>3. SumFunctionOnSet(f, 1..0) = 0
    <2>1. {} \in SUBSET (1..n) /\ IsFiniteSet({})
      BY FS_EmptySet
    <2>2. SumFunctionOnSet(f, {}) = 0
      BY <2>1, SumStep
    <2>. QED BY <1>2, <2>2
  <1>4. \A i \in 0..n : SumFunctionOnSet(f, 1..i) \in Nat
    BY <1>1, SumStep
  <1>5. ASSUME NEW i \in 1..n
        PROVE  SumFunctionOnSet(f, 1..i) = SumFunctionOnSet(f, 1..(i - 1)) + f[i]
    BY <1>1, PrefixStep
  <1>6. ASSUME NEW i \in 0..n
        PROVE  \A j \in i..n : SumFunctionOnSet(f, 1..i) <= SumFunctionOnSet(f, 1..j)
    <2>. DEFINE Sum(j) == SumFunctionOnSet(f, 1..j)
                S == {k \in Nat : i + k <= n => Sum(i) <= Sum(i + k)}
    <2>. HIDE DEF Sum
    <2>1. 0 \in S
      BY <1>4 DEF Sum
    <2>2. ASSUME NEW k \in S
          PROVE  k + 1 \in S
      <3>. SUFFICES ASSUME i + (k + 1) <= n
                    PROVE  Sum(i) <= Sum(i + (k + 1))
        OBVIOUS
      <3>1. i + (k + 1) \in 1..n /\ i + (k + 1) - 1 = i + k /\ i + k \in 0..n
        OBVIOUS
      <3>2. Sum(i + (k + 1)) = Sum(i + k) + f[i + (k + 1)]
        BY <1>5, <3>1 DEF Sum
      <3>3. Sum(i) \in Nat /\ Sum(i + k) \in Nat /\ f[i + (k + 1)] \in Nat /\ Sum(i) <= Sum(i + k)
        BY <1>4, <3>1 DEF Sum
      <3>. QED BY <3>2, <3>3
    <2>3. S = Nat
      <3>. HIDE DEF S
      <3>1. S \in SUBSET Nat
        BY DEF S
      <3>. QED BY <2>1, <2>2, <3>1, SetInduction
    <2>4. ASSUME NEW j \in i..n
          PROVE  Sum(i) <= Sum(j)
      <3>1. j - i \in Nat /\ i + (j - i) = j /\ j <= n
        OBVIOUS
      <3>2. j - i \in S
        BY <2>3, <3>1
      <3>. QED BY <3>1, <3>2
    <2>. QED BY <2>4 DEF Sum
  <1>. QED BY <1>3, <1>4, <1>5, <1>6

Agree(f, n, g, m, i) ==
    /\ f \in [1..n -> Nat] /\ g \in [1..m -> Nat]
    /\ i <= n /\ i <= m
    /\ \A j \in 1..i : f[j] = g[j]

\* ... and are the same for functions that agree on them.
LEMMA PrefixAgrees ==
  ASSUME NEW n \in Nat, NEW m \in Nat, NEW i \in Nat, NEW f, NEW g,
         Agree(f, n, g, m, i)
  PROVE  SumFunctionOnSet(f, 1..i) = SumFunctionOnSet(g, 1..i)
  <1>. DEFINE F(j) == SumFunctionOnSet(f, 1..j)
              G(j) == SumFunctionOnSet(g, 1..j)
              S == {k \in Nat : k <= i => F(k) = G(k)}
  <1>. USE DEF Agree
  <1>. HIDE DEF F, G
  <1>1. 0 \in S
    <2>1. F(0) = 0 /\ G(0) = 0
      BY PrefixSum DEF F, G
    <2>. QED BY <2>1
  <1>2. ASSUME NEW k \in S
        PROVE  k + 1 \in S
    <2>. SUFFICES ASSUME k + 1 <= i
                  PROVE  F(k + 1) = G(k + 1)
      OBVIOUS
    <2>1. k + 1 \in 1..n /\ k + 1 \in 1..m /\ k + 1 \in 1..i /\ (k + 1) - 1 = k
      OBVIOUS
    <2>2. F(k + 1) = F(k) + f[k + 1] /\ G(k + 1) = G(k) + g[k + 1]
      <3>1. F(k + 1) = F((k + 1) - 1) + f[k + 1]
        BY <2>1, PrefixSum DEF F
      <3>2. G(k + 1) = G((k + 1) - 1) + g[k + 1]
        BY <2>1, PrefixSum DEF G
      <3>. QED BY <2>1, <3>1, <3>2
    <2>. QED BY <2>1, <2>2
  <1>3. S = Nat
    <2>. HIDE DEF S
    <2>1. S \in SUBSET Nat
      BY DEF S
    <2>. QED BY <1>1, <1>2, <2>1, SetInduction
  <1>4. F(i) = G(i)
    BY <1>3
  <1>. QED BY <1>4 DEF F, G

=============================================================================
