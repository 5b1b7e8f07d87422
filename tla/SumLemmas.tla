-------------------------------- MODULE SumLemmas --------------------------------
(*****************************************************************************)
(* Lemmas about SumFunctionOnSet and SumFunction of the Functions module, by   *)
(* which the specifications add up the bytes of queues and ingresses: what a   *)
(* sum is of the empty set, of a set with one element more or less, and of a   *)
(* sequence that is appended to or loses its head.                             *)
(*****************************************************************************)
EXTENDS Integers, Sequences, FiniteSets, Functions,
        FiniteSetTheorems, WellFoundedInduction, TLAPS

(* A set of natural numbers that is not empty has a least one. It stands for
   induction: the least counterexample has a predecessor that is none.        *)
LEMMA LeastNumber ==
  ASSUME NEW S \in SUBSET Nat, S # {}
  PROVE  \E x \in S : \A y \in S : x <= y
<1> DEFINE R == OpToRel(<, Nat)
<1>1. IsWellFoundedOn(R, Nat)
  BY NatLessThanWellFounded
<1>2. \A x, y \in Nat : x < y => <<x, y>> \in R
  BY DEF OpToRel
<1> HIDE DEF R
<1>3. PICK x \in S : \A y \in S : ~ (<<y, x>> \in R)
  BY <1>1, WFMin
<1>4. ASSUME NEW y \in S PROVE x <= y
  <2>1. x \in Nat /\ y \in Nat /\ ~(y < x)
    BY <1>2, <1>3
  <2> QED BY <2>1
<1> QED BY <1>4
------------------------------------------------------------------------------
(* The function behind a sum: it takes the elements in the order of CHOOSE.    *)
Pick(s) == CHOOSE x \in s : TRUE

IsSum(h, f, D) ==
  h = [s \in SUBSET D |-> IF s = {} THEN 0 ELSE f[Pick(s)] + h[s \ {Pick(s)}]]

LEMMA SumIs ==
  ASSUME NEW f, NEW D
  PROVE  SumFunctionOnSet(f, D) = (CHOOSE h : IsSum(h, f, D))[D]
  BY DEF SumFunctionOnSet, FoldFunctionOnSet, MapThenFoldSet, IsSum, Pick

LEMMA SumExists ==
  ASSUME NEW f, NEW D, IsFiniteSet(D)
  PROVE  \E h : IsSum(h, f, D)
<1> DEFINE L(n) == {s \in SUBSET D : Cardinality(s) <= n}
           Ok(h, n) == h = [s \in L(n) |-> IF s = {} THEN 0
                                           ELSE f[Pick(s)] + h[s \ {Pick(s)}]]
           Bad == {n \in Nat : ~ \E h : Ok(h, n)}
<1>1. \A s \in SUBSET D : IsFiniteSet(s) /\ Cardinality(s) \in Nat
                          /\ Cardinality(s) <= Cardinality(D)
  BY FS_Subset, FS_CardinalityType
<1>2. \A s \in SUBSET D : s # {} =>
        /\ Pick(s) \in s /\ s \ {Pick(s)} \in SUBSET D
        /\ Cardinality(s \ {Pick(s)}) = Cardinality(s) - 1
  <2> TAKE s \in SUBSET D
  <2> HAVE s # {}
  <2>1. Pick(s) \in s
    BY DEF Pick
  <2> QED BY <1>1, <2>1, FS_RemoveElement
<1>3. Bad = {}
  <2> SUFFICES ASSUME Bad # {} PROVE FALSE
    OBVIOUS
  <2>1. Bad \in SUBSET Nat
    OBVIOUS
  <2>2. PICK n \in Bad : \A m \in Bad : n <= m
    BY <2>1, LeastNumber
  <2>3. n \in Nat /\ ~ \E h : Ok(h, n)
    BY <2>2
  <2>4. n # 0
    <3> SUFFICES ASSUME n = 0 PROVE FALSE
      OBVIOUS
    <3>1. \A s \in L(0) : s = {}
      BY <1>1, FS_EmptySet
    <3> DEFINE h == [s \in L(0) |-> 0]
    <3>2. Ok(h, 0)
      BY <3>1
    <3> QED BY <3>2, <2>3
  <2>5. n - 1 \in Nat /\ n - 1 \notin Bad
    <3> HIDE DEF Bad
    <3>1. n - 1 \in Nat /\ ~(n <= n - 1)
      BY <2>3, <2>4
    <3> QED BY <2>2, <3>1
  <2>6. PICK h : Ok(h, n - 1)
    BY <2>5
  <2> DEFINE k == [s \in L(n) |-> IF s = {} THEN 0 ELSE f[Pick(s)] + h[s \ {Pick(s)}]]
  <2>7. \A s \in L(n - 1) : s \in L(n) /\ k[s] = h[s]
    <3> TAKE s \in L(n - 1)
    <3>1. s \in SUBSET D /\ Cardinality(s) \in Nat /\ Cardinality(s) <= n - 1
      BY <1>1
    <3>2. s \in L(n)
      BY <3>1, <2>3
    <3>3. k[s] = IF s = {} THEN 0 ELSE f[Pick(s)] + h[s \ {Pick(s)}]
      BY <3>2
    <3>4. h[s] = IF s = {} THEN 0 ELSE f[Pick(s)] + h[s \ {Pick(s)}]
      BY <2>6
    <3> QED BY <3>2, <3>3, <3>4
  <2>8. \A s \in L(n) : s # {} => s \ {Pick(s)} \in L(n - 1)
    <3> TAKE s \in L(n)
    <3> HAVE s # {}
    <3>1. s \in SUBSET D /\ Cardinality(s) \in Nat /\ Cardinality(s) <= n
      BY <1>1
    <3>2. s \ {Pick(s)} \in SUBSET D /\ Cardinality(s \ {Pick(s)}) = Cardinality(s) - 1
      BY <1>2, <3>1
    <3>3. Cardinality(s) - 1 <= n - 1
      BY <3>1, <2>3
    <3> QED BY <3>2, <3>3
  <2>9. Ok(k, n)
    <3> HIDE DEF L
    <3>1. \A s \in L(n) : k[s] = IF s = {} THEN 0 ELSE f[Pick(s)] + k[s \ {Pick(s)}]
      BY <2>7, <2>8
    <3> QED BY <3>1
  <2> HIDE DEF k
  <2> QED BY <2>3, <2>9
<1>4. Cardinality(D) \in Nat /\ Cardinality(D) \notin Bad
  BY <1>1, <1>3
<1>5. PICK h : Ok(h, Cardinality(D))
  BY <1>4
<1>6. L(Cardinality(D)) = SUBSET D
  BY <1>1
<1>7. IsSum(h, f, D)
  BY <1>5, <1>6 DEF IsSum
<1> QED BY <1>7

(* Sums over a set and a part of it take the same elements of the part.        *)
LEMMA SumAgree ==
  ASSUME NEW f, NEW g, NEW D, NEW E \in SUBSET D, IsFiniteSet(D),
         NEW h, NEW k, IsSum(h, f, D), IsSum(k, g, E),
         \A x \in E : f[x] = g[x]
  PROVE  \A s \in SUBSET E : h[s] = k[s]
<1> DEFINE Differ == {s \in SUBSET E : h[s] # k[s]}
           Bad == {Cardinality(s) : s \in Differ}
<1>1. \A s \in SUBSET E : IsFiniteSet(s) /\ Cardinality(s) \in Nat
  BY FS_Subset, FS_CardinalityType
<1> SUFFICES ASSUME Differ # {} PROVE FALSE
  OBVIOUS
<1>2. Bad \in SUBSET Nat /\ Bad # {}
  BY <1>1
<1>3. PICK n \in Bad : \A m \in Bad : n <= m
  BY <1>2, LeastNumber
<1>4. PICK s \in Differ : Cardinality(s) = n
  BY <1>3
<1>5. s \in SUBSET E /\ s \in SUBSET D /\ h[s] # k[s]
  BY <1>4
<1>6. h[s] = IF s = {} THEN 0 ELSE f[Pick(s)] + h[s \ {Pick(s)}]
  BY <1>5 DEF IsSum
<1>7. k[s] = IF s = {} THEN 0 ELSE g[Pick(s)] + k[s \ {Pick(s)}]
  BY <1>5 DEF IsSum
<1>8. s # {} /\ Pick(s) \in s
  BY <1>5, <1>6, <1>7 DEF Pick
<1>9. h[s \ {Pick(s)}] # k[s \ {Pick(s)}]
  BY <1>5, <1>6, <1>7, <1>8
<1>10. s \ {Pick(s)} \in Differ
  BY <1>5, <1>9
<1>11. Cardinality(s \ {Pick(s)}) = Cardinality(s) - 1 /\ Cardinality(s) \in Nat
  BY <1>1, <1>5, <1>8, FS_RemoveElement
<1>12. Cardinality(s \ {Pick(s)}) \in Bad
  BY <1>10
<1>13. n \in Nat /\ n <= n - 1
  BY <1>3, <1>4, <1>11, <1>12
<1> QED BY <1>13

(* Any element may be taken first.                                             *)
LEMMA SumAnyOrder ==
  ASSUME NEW f, NEW D, IsFiniteSet(D), NEW h, IsSum(h, f, D),
         \A x \in D : f[x] \in Int
  PROVE  \A s \in SUBSET D : h[s] \in Int /\ \A x \in s : h[s] = f[x] + h[s \ {x}]
<1> DEFINE Good(s) == h[s] \in Int /\ \A x \in s : h[s] = f[x] + h[s \ {x}]
           Wrong == {s \in SUBSET D : ~Good(s)}
           Bad == {Cardinality(s) : s \in Wrong}
<1>1. \A s \in SUBSET D : IsFiniteSet(s) /\ Cardinality(s) \in Nat
  BY FS_Subset, FS_CardinalityType
<1> SUFFICES ASSUME Wrong # {} PROVE FALSE
  OBVIOUS
<1>2. Bad \in SUBSET Nat /\ Bad # {}
  BY <1>1
<1>3. PICK n \in Bad : \A m \in Bad : n <= m
  BY <1>2, LeastNumber
<1>4. PICK s \in Wrong : Cardinality(s) = n
  BY <1>3
<1>5. s \in SUBSET D /\ ~Good(s) /\ n \in Nat
  BY <1>2, <1>3, <1>4
<1>6. ASSUME NEW x \in s PROVE s \ {x} \in SUBSET D /\ Good(s \ {x})
  <2>1. s \ {x} \in SUBSET D
    BY <1>5
  <2>2. Cardinality(s \ {x}) = n - 1
    BY <1>1, <1>4, <1>5, FS_RemoveElement
  <2>3. ~(n <= n - 1)
    BY <1>5
  <2>4. Cardinality(s \ {x}) \notin Bad
    BY <1>3, <2>2, <2>3
  <2>5. s \ {x} \notin Wrong
    BY <2>4
  <2> QED BY <2>1, <2>5
<1>7. h[s] = IF s = {} THEN 0 ELSE f[Pick(s)] + h[s \ {Pick(s)}]
  BY <1>5 DEF IsSum
<1>8. CASE s = {}
  BY <1>5, <1>7, <1>8
<1>9. CASE s # {}
  <2> DEFINE c == Pick(s)
  <2>1. c \in s /\ f[c] \in Int /\ h[s] = f[c] + h[s \ {c}] /\ h[s \ {c}] \in Int
    BY <1>5, <1>6, <1>7, <1>9 DEF Pick
  <2> HIDE DEF c
  <2>2. ASSUME NEW x \in s PROVE h[s] = f[x] + h[s \ {x}]
    <3>1. CASE x = c
      BY <2>1, <3>1
    <3>2. CASE x # c
      <4>1. h[s \ {c}] = f[x] + h[(s \ {c}) \ {x}]
        BY <1>6, <2>1, <3>2
      <4>2. h[s \ {x}] = f[c] + h[(s \ {x}) \ {c}]
        BY <1>6, <2>1, <3>2
      <4>3. (s \ {c}) \ {x} = (s \ {x}) \ {c}
        OBVIOUS
      <4>4. f[x] \in Int /\ h[s \ {x}] \in Int
        BY <1>5, <1>6
      <4>5. h[(s \ {x}) \ {c}] \in Int
        <5>1. (s \ {x}) \ {c} \in SUBSET D
          BY <1>5
        <5>2. Cardinality((s \ {x}) \ {c}) = n - 2
          <6>1. Cardinality(s \ {x}) = n - 1 /\ IsFiniteSet(s \ {x})
            BY <1>1, <1>4, <1>5, FS_RemoveElement
          <6>2. c \in s \ {x}
            BY <2>1, <3>2
          <6>3. Cardinality((s \ {x}) \ {c}) = Cardinality(s \ {x}) - 1
            BY <6>1, <6>2, FS_RemoveElement
          <6> QED BY <6>1, <6>3, <1>5
        <5>3. ~(n <= n - 2)
          BY <1>5
        <5>4. Cardinality((s \ {x}) \ {c}) \notin Bad
          BY <1>3, <5>2, <5>3
        <5> QED BY <5>1, <5>4
      <4> DEFINE z == h[(s \ {x}) \ {c}]
      <4>6. /\ z \in Int /\ h[s \ {c}] = f[x] + z /\ h[s \ {x}] = f[c] + z
            /\ h[s] = f[c] + h[s \ {c}]
        BY <4>1, <4>2, <4>3, <4>5, <2>1
      <4> HIDE DEF z
      <4> QED BY <4>4, <4>6, <2>1
    <3> QED BY <3>1, <3>2
  <2>3. h[s] \in Int
    BY <2>1
  <2> QED BY <1>5, <2>2, <2>3
<1> QED BY <1>8, <1>9
------------------------------------------------------------------------------
(* What the specifications' proofs use.                                        *)
SumHas(f, D) == IsFiniteSet(D) /\ \A x \in D : f[x] \in Int

LEMMA SumFound ==
  ASSUME NEW f, NEW D, IsFiniteSet(D)
  PROVE  \E h : IsSum(h, f, D) /\ SumFunctionOnSet(f, D) = h[D]
<1> DEFINE h == CHOOSE h : IsSum(h, f, D)
<1>1. IsSum(h, f, D)
  BY SumExists
<1>2. SumFunctionOnSet(f, D) = h[D]
  BY SumIs
<1> QED BY <1>1, <1>2

LEMMA SumEmpty == \A f : SumFunctionOnSet(f, {}) = 0
<1> TAKE f
<1>1. IsFiniteSet({})
  BY FS_EmptySet
<1>2. PICK h : IsSum(h, f, {}) /\ SumFunctionOnSet(f, {}) = h[{}]
  BY <1>1, SumFound
<1>3. h[{}] = 0
  BY <1>2 DEF IsSum
<1> QED BY <1>2, <1>3

LEMMA SumInt ==
  ASSUME NEW f, NEW D, SumHas(f, D)
  PROVE  SumFunctionOnSet(f, D) \in Int
<1>1. PICK h : IsSum(h, f, D) /\ SumFunctionOnSet(f, D) = h[D]
  BY SumFound DEF SumHas
<1>2. h[D] \in Int
  BY <1>1, SumAnyOrder DEF SumHas
<1> QED BY <1>1, <1>2

LEMMA SumSame ==
  ASSUME NEW f, NEW g, NEW D, IsFiniteSet(D), \A x \in D : f[x] = g[x]
  PROVE  SumFunctionOnSet(f, D) = SumFunctionOnSet(g, D)
<1>1. PICK h : IsSum(h, f, D) /\ SumFunctionOnSet(f, D) = h[D]
  BY SumFound
<1>2. PICK k : IsSum(k, g, D) /\ SumFunctionOnSet(g, D) = k[D]
  BY SumFound
<1>3. D \in SUBSET D
  OBVIOUS
<1>4. \A s \in SUBSET D : h[s] = k[s]
  BY <1>1, <1>2, <1>3, SumAgree
<1> QED BY <1>1, <1>2, <1>3, <1>4

LEMMA SumWithout ==
  ASSUME NEW f, NEW D, SumHas(f, D), NEW x \in D
  PROVE  SumFunctionOnSet(f, D) = f[x] + SumFunctionOnSet(f, D \ {x})
<1>1. PICK h : IsSum(h, f, D) /\ SumFunctionOnSet(f, D) = h[D]
  BY SumFound DEF SumHas
<1>2. h[D] = f[x] + h[D \ {x}]
  BY <1>1, SumAnyOrder DEF SumHas
<1>3. IsFiniteSet(D \ {x})
  BY FS_RemoveElement DEF SumHas
<1>4. PICK k : IsSum(k, f, D \ {x}) /\ SumFunctionOnSet(f, D \ {x}) = k[D \ {x}]
  BY <1>3, SumFound
<1>5. D \ {x} \in SUBSET D /\ IsFiniteSet(D) /\ \A y \in D \ {x} : f[y] = f[y]
  BY DEF SumHas
<1>6. h[D \ {x}] = k[D \ {x}]
  <2>1. \A s \in SUBSET (D \ {x}) : h[s] = k[s]
    BY <1>1, <1>4, <1>5, SumAgree
  <2> QED BY <2>1
<1> QED BY <1>1, <1>2, <1>4, <1>6

LEMMA SumWith ==
  ASSUME NEW f, NEW D, NEW x, x \notin D, IsFiniteSet(D),
         f[x] \in Int, \A y \in D : f[y] \in Int
  PROVE  SumFunctionOnSet(f, D \cup {x}) = SumFunctionOnSet(f, D) + f[x]
<1>1. SumHas(f, D \cup {x}) /\ SumHas(f, D)
  BY FS_AddElement DEF SumHas
<1>2. SumFunctionOnSet(f, D \cup {x}) = f[x] + SumFunctionOnSet(f, (D \cup {x}) \ {x})
  BY <1>1, SumWithout
<1>3. (D \cup {x}) \ {x} = D
  OBVIOUS
<1>4. SumFunctionOnSet(f, D) \in Int
  BY <1>1, SumInt
<1>5. SumFunctionOnSet(f, D \cup {x}) = f[x] + SumFunctionOnSet(f, D)
  BY <1>2, <1>3
<1> QED BY <1>4, <1>5

(* One summand changes.                                                        *)
LEMMA SumChange ==
  ASSUME NEW f, NEW g, NEW D, SumHas(f, D), NEW x \in D, g[x] \in Int,
         \A y \in D \ {x} : g[y] = f[y]
  PROVE  SumFunctionOnSet(g, D) = SumFunctionOnSet(f, D) - f[x] + g[x]
<1>1. SumHas(g, D) /\ f[x] \in Int
  BY DEF SumHas
<1>2. SumHas(f, D \ {x})
  BY FS_RemoveElement DEF SumHas
<1>3. SumFunctionOnSet(g, D \ {x}) = SumFunctionOnSet(f, D \ {x})
  BY <1>2, SumSame DEF SumHas
<1>4. SumFunctionOnSet(f, D \ {x}) \in Int
  BY <1>2, SumInt
<1>5. /\ SumFunctionOnSet(f, D) = f[x] + SumFunctionOnSet(f, D \ {x})
      /\ SumFunctionOnSet(g, D) = g[x] + SumFunctionOnSet(g, D \ {x})
  BY <1>1, SumWithout
<1> QED BY <1>1, <1>3, <1>4, <1>5

(* Summands that are not negative: neither is the sum, which is no less than
   any of them, and 0 only if they all are.                                   *)
LEMMA SumNat ==
  ASSUME NEW f, NEW D, IsFiniteSet(D), \A x \in D : f[x] \in Nat
  PROVE  /\ SumFunctionOnSet(f, D) \in Nat
         /\ \A x \in D : f[x] <= SumFunctionOnSet(f, D)
<1> DEFINE S(E) == SumFunctionOnSet(f, E)
           Wrong == {E \in SUBSET D : S(E) \notin Nat}
           Bad == {Cardinality(E) : E \in Wrong}
<1>1. \A E \in SUBSET D : SumHas(f, E) /\ Cardinality(E) \in Nat /\ IsFiniteSet(E)
  BY FS_Subset, FS_CardinalityType DEF SumHas
<1>2. Wrong = {}
  <2> SUFFICES ASSUME Wrong # {} PROVE FALSE
    OBVIOUS
  <2>1. Bad \in SUBSET Nat /\ Bad # {}
    BY <1>1
  <2>2. PICK n \in Bad : \A m \in Bad : n <= m
    BY <2>1, LeastNumber
  <2>3. PICK E \in Wrong : Cardinality(E) = n
    BY <2>2
  <2>4. E # {}
    BY <2>3, SumEmpty
  <2>5. PICK x \in E : TRUE
    BY <2>4
  <2>6. E \in SUBSET D /\ E \ {x} \in SUBSET D
    BY <2>3
  <2>7. Cardinality(E \ {x}) = Cardinality(E) - 1
    BY <1>1, <2>5, <2>6, FS_RemoveElement
  <2>8. ~(n <= Cardinality(E \ {x}))
    BY <1>1, <2>3, <2>6, <2>7
  <2>9. S(E \ {x}) \in Nat
    BY <2>2, <2>6, <2>8
  <2>10. S(E) = f[x] + S(E \ {x})
    BY <1>1, <2>5, <2>6, SumWithout
  <2>11. f[x] \in Nat
    BY <2>5, <2>6
  <2> HIDE DEF S
  <2>12. S(E) \in Nat
    BY <2>9, <2>10, <2>11
  <2> QED BY <2>3, <2>12
<1>3. ASSUME NEW x \in D PROVE f[x] <= S(D)
  <2>1. S(D) = f[x] + S(D \ {x})
    BY <1>1, SumWithout
  <2>2. S(D \ {x}) \in Nat /\ f[x] \in Nat
    BY <1>2
  <2> QED BY <2>1, <2>2
<1> QED BY <1>2, <1>3

LEMMA SumZero ==
  ASSUME NEW f, NEW D, IsFiniteSet(D), \A x \in D : f[x] = 0
  PROVE  SumFunctionOnSet(f, D) = 0
<1> DEFINE Wrong == {E \in SUBSET D : SumFunctionOnSet(f, E) # 0}
           Bad == {Cardinality(E) : E \in Wrong}
<1>1. \A E \in SUBSET D : SumHas(f, E) /\ Cardinality(E) \in Nat /\ IsFiniteSet(E)
  BY FS_Subset, FS_CardinalityType DEF SumHas
<1> SUFFICES ASSUME Wrong # {} PROVE FALSE
  OBVIOUS
<1>2. Bad \in SUBSET Nat /\ Bad # {}
  BY <1>1
<1>3. PICK n \in Bad : \A m \in Bad : n <= m
  BY <1>2, LeastNumber
<1>4. PICK E \in Wrong : Cardinality(E) = n
  BY <1>3
<1>5. PICK x \in E : TRUE
  BY <1>4, SumEmpty
<1>6. E \in SUBSET D /\ E \ {x} \in SUBSET D /\ f[x] = 0
  BY <1>4
<1>7. Cardinality(E \ {x}) = Cardinality(E) - 1
  BY <1>1, <1>5, <1>6, FS_RemoveElement
<1>8. ~(n <= Cardinality(E \ {x}))
  BY <1>1, <1>4, <1>6, <1>7
<1>9. SumFunctionOnSet(f, E \ {x}) = 0
  BY <1>3, <1>6, <1>8
<1>10. SumFunctionOnSet(f, E) = f[x] + SumFunctionOnSet(f, E \ {x})
  BY <1>1, <1>5, <1>6, SumWithout
<1> QED BY <1>4, <1>6, <1>9, <1>10
------------------------------------------------------------------------------
(* The sum of a sequence of numbers.                                           *)
LEMMA RangeOne ==
  ASSUME NEW n \in Nat
  PROVE  /\ IsFiniteSet(1..n)
         /\ 1..(n + 1) = (1..n) \cup {n + 1} /\ n + 1 \notin 1..n
<1>1. IsFiniteSet(1..n)
  BY FS_Interval
<1>2. 1..(n + 1) = (1..n) \cup {n + 1} /\ n + 1 \notin 1..n
  OBVIOUS
<1> QED BY <1>1, <1>2

LEMMA SumUpTo ==
  ASSUME NEW f, NEW n \in Nat, \A i \in 1..(n + 1) : f[i] \in Int
  PROVE  SumFunctionOnSet(f, 1..(n + 1)) = SumFunctionOnSet(f, 1..n) + f[n + 1]
<1>1. 1..(n + 1) = (1..n) \cup {n + 1} /\ n + 1 \notin 1..n /\ IsFiniteSet(1..n)
  BY RangeOne
<1> DEFINE m == n + 1
           D == 1..n
<1>2. f[m] \in Int /\ (\A y \in D : f[y] \in Int) /\ m \notin D /\ IsFiniteSet(D)
  BY <1>1
<1> HIDE DEF m, D
<1>3. SumFunctionOnSet(f, D \cup {m}) = SumFunctionOnSet(f, D) + f[m]
  BY <1>2, SumWith
<1> QED BY <1>1, <1>3 DEF m, D

LEMMA SumOfSequence ==
  ASSUME NEW w \in Seq(Int)
  PROVE  /\ SumFunction(w) = SumFunctionOnSet(w, 1..Len(w))
         /\ SumHas(w, 1..Len(w)) /\ SumFunction(w) \in Int
<1>1. DOMAIN w = 1..Len(w) /\ Len(w) \in Nat /\ \A i \in 1..Len(w) : w[i] \in Int
  OBVIOUS
<1>2. SumHas(w, 1..Len(w))
  BY <1>1, RangeOne DEF SumHas
<1>3. SumFunction(w) = SumFunctionOnSet(w, 1..Len(w))
  BY <1>1 DEF SumFunction
<1> QED BY <1>2, <1>3, SumInt

LEMMA SumOfNone == SumFunction(<<>>) = 0
<1>1. <<>> \in Seq(Int) /\ Len(<<>>) = 0 /\ 1..0 = {}
  OBVIOUS
<1>2. SumFunction(<<>>) = SumFunctionOnSet(<<>>, 1..Len(<<>>))
  BY <1>1, SumOfSequence
<1> QED BY <1>1, <1>2, SumEmpty

LEMMA SumOfAppend ==
  ASSUME NEW w \in Seq(Int), NEW n \in Int
  PROVE  SumFunction(Append(w, n)) = SumFunction(w) + n
<1> DEFINE u == Append(w, n)
           k == Len(w)
<1>1. /\ u \in Seq(Int) /\ k \in Nat /\ Len(u) = k + 1
      /\ \A i \in 1..k : u[i] = w[i] /\ w[i] \in Int
      /\ u[k + 1] = n
  OBVIOUS
<1> HIDE DEF u
<1>2. SumFunction(u) = SumFunctionOnSet(u, 1..(k + 1))
  BY <1>1, SumOfSequence
<1>3. SumFunction(w) = SumFunctionOnSet(w, 1..k)
  BY SumOfSequence
<1> HIDE DEF k
<1>4. SumFunctionOnSet(u, 1..(k + 1)) = SumFunctionOnSet(u, 1..k) + u[k + 1]
  BY <1>1, SumUpTo, SMTT(20)
<1>5. SumFunctionOnSet(u, 1..k) = SumFunctionOnSet(w, 1..k)
  BY <1>1, RangeOne, SumSame
<1>7. SumFunction(u) = SumFunction(w) + n
  BY <1>1, <1>2, <1>3, <1>4, <1>5
<1> QED BY <1>7 DEF u

LEMMA SumOfTail ==
  ASSUME NEW w \in Seq(Int), w # <<>>
  PROVE  SumFunction(w) = Head(w) + SumFunction(Tail(w))
<1> DEFINE u == Tail(w)
           k == Len(u)
           S(n) == SumFunctionOnSet(w, 1..n)
           T(n) == SumFunctionOnSet(u, 1..n)
           Bad == {n \in Nat : n <= k /\ S(n + 1) # w[1] + T(n)}
<1>1. /\ u \in Seq(Int) /\ k \in Nat /\ Len(w) = k + 1 /\ Head(w) = w[1]
      /\ \A i \in 1..k : u[i] = w[i + 1]
      /\ \A i \in 1..k : u[i] \in Int
      /\ \A i \in 1..(k + 1) : w[i] \in Int
  OBVIOUS
<1> HIDE DEF u, k
<1>2. \A n \in 0..k : SumHas(u, 1..n) /\ T(n) \in Int
  <2> TAKE n \in 0..k
  <2>1. SumHas(u, 1..n)
    BY <1>1, RangeOne DEF SumHas
  <2> QED BY <2>1, SumInt
<1>3. \A n \in 0..(k + 1) : SumHas(w, 1..n) /\ S(n) \in Int
  <2> TAKE n \in 0..(k + 1)
  <2>1. n \in Nat /\ \A i \in 1..n : i \in 1..(k + 1)
    BY <1>1
  <2>2. SumHas(w, 1..n)
    BY <1>1, <2>1, RangeOne DEF SumHas
  <2> QED BY <2>2, SumInt
<1>4. \A n \in 0..k : S(n + 1) = S(n) + w[n + 1]
  <2> TAKE n \in 0..k
  <2>1. n \in Nat /\ \A i \in 1..(n + 1) : w[i] \in Int
    BY <1>1
  <2> QED BY <2>1, SumUpTo
<1>5. \A n \in 0..(k - 1) : T(n + 1) = T(n) + u[n + 1]
  <2> TAKE n \in 0..(k - 1)
  <2>1. n \in Nat /\ \A i \in 1..(n + 1) : u[i] \in Int
    BY <1>1
  <2> QED BY <2>1, SumUpTo
<1>6. S(0) = 0 /\ T(0) = 0
  <2>1. 1..0 = {}
    OBVIOUS
  <2> QED BY <2>1, SumEmpty
<1> HIDE DEF S, T
<1>7. Bad = {}
  <2> SUFFICES ASSUME Bad # {} PROVE FALSE
    OBVIOUS
  <2>1. Bad \in SUBSET Nat
    OBVIOUS
  <2>2. PICK n \in Bad : \A m \in Bad : n <= m
    BY <2>1, LeastNumber
  <2>3. n \in 0..k /\ n \in Nat /\ S(n + 1) # w[1] + T(n)
    BY <1>1, <2>2
  <2>4. CASE n = 0
    <3>1. S(0 + 1) = S(0) + w[0 + 1]
      BY <1>1, <1>4
    <3>2. w[1] \in Int
      BY <1>1
    <3> QED BY <2>3, <2>4, <3>1, <3>2, <1>6
  <2>5. CASE n # 0
    <3> DEFINE m == n - 1
    <3>1. m \in Nat /\ m <= k /\ ~(n <= m) /\ n = m + 1 /\ m \in 0..(k - 1) /\ m \in 0..k
      BY <1>1, <2>3, <2>5
    <3> HIDE DEF m
    <3>2. S(m + 1) = w[1] + T(m)
      BY <2>2, <3>1
    <3>3. S(n + 1) = S(n) + w[n + 1]
      BY <1>4, <2>3
    <3>4. T(n) = T(m) + u[n]
      BY <1>5, <3>1
    <3>5. n \in 1..k
      BY <2>3, <2>5
    <3>6. u[n] = w[n + 1] /\ u[n] \in Int /\ w[1] \in Int
      BY <1>1, <3>5
    <3>7. T(m) \in Int
      BY <1>2, <3>1
    <3> QED BY <2>3, <3>1, <3>2, <3>3, <3>4, <3>6, <3>7
  <2> QED BY <2>4, <2>5
<1>8. S(k + 1) = w[1] + T(k)
  BY <1>1, <1>7
<1>9. SumFunction(w) = S(k + 1) /\ SumFunction(u) = T(k)
  BY <1>1, SumOfSequence DEF S, T, k
<1> QED BY <1>1, <1>8, <1>9 DEF u

(* Sums of two families, added and compared element by element.               *)
LEMMA SumPlus ==
  ASSUME NEW f, NEW g, NEW h, NEW D, SumHas(f, D), SumHas(g, D),
         \A x \in D : h[x] = f[x] + g[x]
  PROVE  SumFunctionOnSet(h, D) = SumFunctionOnSet(f, D) + SumFunctionOnSet(g, D)
<1> DEFINE F(E) == SumFunctionOnSet(f, E)
           G(E) == SumFunctionOnSet(g, E)
           H(E) == SumFunctionOnSet(h, E)
           Wrong == {E \in SUBSET D : H(E) # F(E) + G(E)}
           Bad == {Cardinality(E) : E \in Wrong}
<1>1. \A E \in SUBSET D : /\ SumHas(f, E) /\ SumHas(g, E) /\ SumHas(h, E)
                          /\ Cardinality(E) \in Nat /\ IsFiniteSet(E)
  BY FS_Subset, FS_CardinalityType DEF SumHas
<1>2. Wrong = {}
  <2> SUFFICES ASSUME Wrong # {} PROVE FALSE
    OBVIOUS
  <2>1. Bad \in SUBSET Nat /\ Bad # {}
    BY <1>1
  <2>2. PICK n \in Bad : \A m \in Bad : n <= m
    BY <2>1, LeastNumber
  <2>3. PICK E \in Wrong : Cardinality(E) = n
    BY <2>2
  <2>4. E # {}
    BY <2>3, SumEmpty
  <2>5. PICK x \in E : TRUE
    BY <2>4
  <2>6. E \in SUBSET D /\ E \ {x} \in SUBSET D
    BY <2>3
  <2>7. Cardinality(E \ {x}) = Cardinality(E) - 1
    BY <1>1, <2>5, <2>6, FS_RemoveElement
  <2>8. ~(n <= Cardinality(E \ {x}))
    BY <1>1, <2>3, <2>6, <2>7
  <2>9. H(E \ {x}) = F(E \ {x}) + G(E \ {x})
    BY <2>2, <2>6, <2>8
  <2>10. F(E) = f[x] + F(E \ {x})
    BY <1>1, <2>5, <2>6, SumWithout
  <2>11. G(E) = g[x] + G(E \ {x})
    BY <1>1, <2>5, <2>6, SumWithout
  <2>12. H(E) = h[x] + H(E \ {x})
    BY <1>1, <2>5, <2>6, SumWithout
  <2>13. f[x] \in Int /\ g[x] \in Int /\ h[x] = f[x] + g[x]
    BY <2>5, <2>6 DEF SumHas
  <2>14. F(E \ {x}) \in Int /\ G(E \ {x}) \in Int
    BY <1>1, <2>6, SumInt
  <2> HIDE DEF F, G, H
  <2>15. H(E) = F(E) + G(E)
    BY <2>9, <2>10, <2>11, <2>12, <2>13, <2>14
  <2> QED BY <2>3, <2>15
<1>3. D \in SUBSET D
  OBVIOUS
<1> QED BY <1>2, <1>3

LEMMA SumMonotone ==
  ASSUME NEW f, NEW g, NEW D, SumHas(f, D), SumHas(g, D), \A x \in D : f[x] <= g[x]
  PROVE  SumFunctionOnSet(f, D) <= SumFunctionOnSet(g, D)
<1> DEFINE e == [x \in D |-> g[x] - f[x]]
<1>1. \A x \in D : f[x] \in Int /\ g[x] \in Int /\ e[x] = g[x] - f[x]
  BY DEF SumHas
<1> HIDE DEF e
<1>2. \A x \in D : e[x] \in Nat /\ g[x] = f[x] + e[x]
  BY <1>1
<1>3. SumHas(e, D)
  BY <1>2 DEF SumHas
<1>4. SumFunctionOnSet(g, D) = SumFunctionOnSet(f, D) + SumFunctionOnSet(e, D)
  BY <1>2, <1>3, SumPlus
<1>5. SumFunctionOnSet(e, D) \in Nat
  BY <1>2, SumNat DEF SumHas
<1>6. SumFunctionOnSet(f, D) \in Int
  BY SumInt
<1> QED BY <1>4, <1>5, <1>6
==============================================================================
