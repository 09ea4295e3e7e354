----------------------------- MODULE FoldFacts -----------------------------
(***************************************************************************)
(* What FoldLeft of SequencesExt computes, for proofs: the states it goes  *)
(* through, one for every element of the sequence.  FoldLeft chooses a     *)
(* function on the subsets of the sequence's domain, which takes the       *)
(* largest element off a set; that such a function exists, and that any    *)
(* two agree, is shown here by induction over sets of numbers.             *)
(***************************************************************************)
EXTENDS Integers, SequencesExt, FiniteSetTheorems, WellFoundedInduction, TLAPS

\* Induction up to n: T has 0 and with each number below n the next one.
LEMMA UpTo ==
  ASSUME NEW n \in Nat, NEW T, 0 \in T,
         \A k \in 0 .. (n - 1) : k \in T => k + 1 \in T
  PROVE  \A k \in 0 .. n : k \in T
<1> DEFINE Bad == {k \in 0 .. n : k \notin T}
<1> SUFFICES ASSUME Bad # {} PROVE FALSE
  OBVIOUS
<1>1. Bad \subseteq Nat
  OBVIOUS
<1>2. PICK k \in Bad : \A j \in Bad : ~ (<<j, k>> \in OpToRel(<, Nat))
  <2> HIDE DEF Bad
  <2> QED BY <1>1, WFMin, NatLessThanWellFounded
<1>3. \A j \in Bad : ~ (j < k)
  <2> SUFFICES ASSUME NEW j \in Bad, j < k PROVE FALSE
    OBVIOUS
  <2>1. j \in Nat /\ k \in Nat
    BY <1>1
  <2>2. <<j, k>> \in Nat \X Nat /\ <<j, k>>[1] < <<j, k>>[2]
    BY <2>1
  <2>3. <<j, k>> \in OpToRel(<, Nat)
    BY <2>2 DEF OpToRel
  <2> QED BY <1>2, <2>3
<1>4. k # 0 /\ k - 1 \in 0 .. (n - 1) /\ k - 1 \in 0 .. n /\ (k - 1) + 1 = k
  OBVIOUS
<1>5. k - 1 \in T
  BY <1>3, <1>4
<1> QED BY <1>4, <1>5

\* A set of the numbers up to n that is not empty has a largest one; without
\* it the others are below.
LEMMA LargestOf ==
  ASSUME NEW n \in Nat, NEW s \in SUBSET (1 .. n), s # {}
  PROVE  /\ Max(s) \in s /\ Max(s) \in 1 .. n
         /\ \A x \in s : x <= Max(s)
         /\ s \ {Max(s)} \in SUBSET (1 .. (Max(s) - 1))
<1> DEFINE T == {k \in 0 .. n : s \cap (1 .. k) # {} =>
                   \E x \in s : x \in 1 .. k /\ \A y \in s : y \in 1 .. k => y <= x}
<1>1. 0 \in T
  OBVIOUS
<1>2. ASSUME NEW k \in 0 .. (n - 1), k \in T PROVE k + 1 \in T
  <2>1. CASE k + 1 \in s
    BY <2>1
  <2>2. CASE k + 1 \notin s
    <3>1. \A y \in s : y \in 1 .. (k + 1) => y \in 1 .. k
      BY <2>2
    <3>2. \A y \in s : y \in 1 .. k => y \in 1 .. (k + 1)
      OBVIOUS
    <3> QED BY <1>2, <3>1, <3>2
  <2> QED BY <2>1, <2>2
<1>3. n \in T
  <2> HIDE DEF T
  <2>1. \A k \in 0 .. n : k \in T
    BY <1>1, <1>2, UpTo
  <2> QED BY <2>1
<1>4. PICK x \in s : \A y \in s : y <= x
  BY <1>3
<1>5. Max(s) \in s /\ \A y \in s : Max(s) >= y
  BY <1>4 DEF Max
<1> DEFINE m == Max(s)
<1>6. m \in 1 .. n /\ m \in s /\ \A y \in s : y \in 1 .. n /\ y <= m
  BY <1>5
<1> HIDE DEF m
<1>7. \A y \in s \ {m} : y \in 1 .. (m - 1)
  BY <1>6
<1> QED BY <1>6, <1>7 DEF m

\* Induction over sets of numbers: T has the empty set, and a set when it has
\* the set without its largest element.
LEMMA SubsetInduction ==
  ASSUME NEW n \in Nat, NEW T, {} \in T,
         \A s \in SUBSET (1 .. n) : s # {} /\ s \ {Max(s)} \in T => s \in T
  PROVE  \A s \in SUBSET (1 .. n) : s \in T
<1> DEFINE U == {k \in 0 .. n : \A s \in SUBSET (1 .. k) : s \in T}
<1>1. 0 \in U
  <2>1. \A s \in SUBSET (1 .. 0) : s = {}
    OBVIOUS
  <2>2. \A s \in SUBSET (1 .. 0) : s \in T
    BY <2>1
  <2>3. 0 \in 0 .. n
    OBVIOUS
  <2> QED BY <2>2, <2>3
<1>2. ASSUME NEW k \in 0 .. (n - 1), k \in U PROVE k + 1 \in U
  <2> SUFFICES ASSUME NEW s \in SUBSET (1 .. (k + 1)) PROVE s \in T
    OBVIOUS
  <2>1. CASE s = {}
    BY <2>1
  <2>2. CASE s # {}
    <3>1. s \in SUBSET (1 .. n)
      OBVIOUS
    <3>2. Max(s) \in 1 .. (k + 1) /\ s \ {Max(s)} \in SUBSET (1 .. (Max(s) - 1))
      BY <2>2, <3>1, LargestOf
    <3>3. s \ {Max(s)} \in SUBSET (1 .. k)
      BY <3>2
    <3> QED BY <1>2, <2>2, <3>1, <3>3
  <2> QED BY <2>1, <2>2
<1>3. \A k \in 0 .. n : k \in U
  <2> HIDE DEF U
  <2> QED BY <1>1, <1>2, UpTo
<1> QED BY <1>3

\* The largest element of a set with n + 1 in it, and of the first k numbers.
LEMMA LargestIs ==
  ASSUME NEW n \in Nat, NEW s \in SUBSET (1 .. (n + 1)), n + 1 \in s
  PROVE  Max(s) = n + 1
<1>1. s \in SUBSET (1 .. (n + 1)) /\ s # {} /\ n + 1 \in Nat
  OBVIOUS
<1>2. Max(s) \in 1 .. (n + 1) /\ \A x \in s : x <= Max(s)
  BY <1>1, LargestOf
<1> QED BY <1>2

\* A function that takes the largest element off a set, applies step to the
\* rest and to it, and gives base for the empty set.
Recurs(f, n, base, step) ==
  f = [s \in SUBSET (1 .. n) |->
         IF s = {} THEN base ELSE step[<<f[s \ {Max(s)}], Max(s)>>]]

LEMMA FoldExists ==
  ASSUME NEW V, NEW n \in Nat, NEW base \in V, NEW step \in [V \X (1 .. n) -> V]
  PROVE  \E f \in [SUBSET (1 .. n) -> V] : Recurs(f, n, base, step)
<1> DEFINE T == {k \in 0 .. n : \E f \in [SUBSET (1 .. k) -> V] : Recurs(f, k, base, step)}
<1>1. 0 \in T
  <2> DEFINE f == [s \in SUBSET (1 .. 0) |-> base]
  <2>1. \A s \in SUBSET (1 .. 0) : s = {}
    OBVIOUS
  <2>2. f \in [SUBSET (1 .. 0) -> V] /\ Recurs(f, 0, base, step)
    BY <2>1 DEF Recurs
  <2> QED BY <2>2
<1>2. ASSUME NEW k \in 0 .. (n - 1), k \in T PROVE k + 1 \in T
  <2>1. PICK f \in [SUBSET (1 .. k) -> V] : Recurs(f, k, base, step)
    BY <1>2
  <2>2. \A s \in SUBSET (1 .. (k + 1)) : s \ {k + 1} \in SUBSET (1 .. k)
    OBVIOUS
  <2>3. k + 1 \in 1 .. n
    OBVIOUS
  <2> DEFINE h == [s \in SUBSET (1 .. (k + 1)) |->
                     IF k + 1 \in s THEN step[<<f[s \ {k + 1}], k + 1>>] ELSE f[s]]
  <2>4. \A s \in SUBSET (1 .. (k + 1)) : k + 1 \notin s => s \in SUBSET (1 .. k)
    OBVIOUS
  <2>5. h \in [SUBSET (1 .. (k + 1)) -> V]
    <3> SUFFICES ASSUME NEW s \in SUBSET (1 .. (k + 1)) PROVE h[s] \in V
      OBVIOUS
    <3>1. CASE k + 1 \in s
      <4>1. f[s \ {k + 1}] \in V
        BY <2>2
      <4>2. <<f[s \ {k + 1}], k + 1>> \in V \X (1 .. n)
        BY <2>3, <4>1
      <4> QED BY <3>1, <4>2
    <3>2. CASE k + 1 \notin s
      BY <2>4, <3>2
    <3> QED BY <3>1, <3>2
  <2>6. ASSUME NEW s \in SUBSET (1 .. k) PROVE h[s] = f[s]
    <3>1. s \in SUBSET (1 .. (k + 1)) /\ k + 1 \notin s
      OBVIOUS
    <3> QED BY <3>1
  <2>7. ASSUME NEW s \in SUBSET (1 .. (k + 1))
        PROVE  h[s] = IF s = {} THEN base ELSE step[<<h[s \ {Max(s)}], Max(s)>>]
    <3>1. CASE k + 1 \in s
      <4>1. Max(s) = k + 1
        BY <3>1, LargestIs
      <4>2. s \ {k + 1} \in SUBSET (1 .. k)
        BY <2>2
      <4>3. h[s \ {k + 1}] = f[s \ {k + 1}]
        BY <2>6, <4>2
      <4> QED BY <3>1, <4>1, <4>3
    <3>2. CASE k + 1 \notin s
      <4>1. s \in SUBSET (1 .. k)
        BY <2>4, <3>2
      <4>2. h[s] = f[s] /\ f[s] = IF s = {} THEN base ELSE step[<<f[s \ {Max(s)}], Max(s)>>]
        BY <2>1, <2>6, <4>1 DEF Recurs
      <4>3. s \ {Max(s)} \in SUBSET (1 .. k)
        BY <4>1
      <4>4. h[s \ {Max(s)}] = f[s \ {Max(s)}]
        BY <2>6, <4>3
      <4> QED BY <4>2, <4>4
    <3> QED BY <3>1, <3>2
  <2>8. h = [s \in SUBSET (1 .. (k + 1)) |-> h[s]]
    OBVIOUS
  <2> HIDE DEF h
  <2>9. Recurs(h, k + 1, base, step)
    BY <2>7, <2>8 DEF Recurs
  <2> QED BY <2>5, <2>9
<1>3. n \in T
  <2> HIDE DEF T
  <2>1. \A k \in 0 .. n : k \in T
    BY <1>1, <1>2, UpTo
  <2> QED BY <2>1
<1> QED BY <1>3

\* The states a fold goes through: g has them in order.  Whatever function F
\* recurs like the fold, as long as its values are in V, gives the last one.
Follows(F, n, V, base, step) ==
  /\ F[{}] = base
  /\ \A s \in SUBSET (1 .. n) :
       s # {} /\ F[s \ {Max(s)}] \in V => F[s] = step[<<F[s \ {Max(s)}], Max(s)>>]

Stepwise(n, V, base, step) ==
  \E f \in [SUBSET (1 .. n) -> V], g \in [0 .. n -> V] :
    /\ Recurs(f, n, base, step)
    /\ g[0] = base
    /\ \A k \in 1 .. n : g[k] = step[<<g[k - 1], k>>]
    /\ \A F : Follows(F, n, V, base, step) => F[1 .. n] = g[n]

LEMMA FoldRun ==
  ASSUME NEW V, NEW n \in Nat, NEW base \in V, NEW step \in [V \X (1 .. n) -> V]
  PROVE  Stepwise(n, V, base, step)
<1>1. PICK f \in [SUBSET (1 .. n) -> V] : Recurs(f, n, base, step)
  BY FoldExists
<1> DEFINE g == [k \in 0 .. n |-> f[1 .. k]]
<1>2. \A k \in 0 .. n : 1 .. k \in SUBSET (1 .. n)
  OBVIOUS
<1>3. g \in [0 .. n -> V]
  BY <1>2
<1>4. \A s \in SUBSET (1 .. n) :
        f[s] = IF s = {} THEN base ELSE step[<<f[s \ {Max(s)}], Max(s)>>]
  BY <1>1 DEF Recurs
<1>5. g[0] = base
  <2>1. 1 .. 0 = {} /\ {} \in SUBSET (1 .. n)
    OBVIOUS
  <2>2. f[{}] = base
    BY <1>4, <2>1
  <2>3. g[0] = f[1 .. 0]
    OBVIOUS
  <2> QED BY <2>1, <2>2, <2>3
<1>6. ASSUME NEW k \in 1 .. n PROVE g[k] = step[<<g[k - 1], k>>]
  <2>1. Max(1 .. k) = k
    <3>1. k - 1 \in Nat /\ 1 .. k \in SUBSET (1 .. ((k - 1) + 1)) /\ (k - 1) + 1 = k
          /\ (k - 1) + 1 \in 1 .. k
      OBVIOUS
    <3> QED BY <3>1, LargestIs
  <2>2. (1 .. k) \ {k} = 1 .. (k - 1) /\ 1 .. k # {} /\ k - 1 \in 0 .. n
    OBVIOUS
  <2>3. f[1 .. k] = step[<<f[1 .. (k - 1)], k>>]
    BY <1>2, <1>4, <2>1, <2>2
  <2> QED BY <2>2, <2>3
<1>7. ASSUME NEW F, Follows(F, n, V, base, step) PROVE F[1 .. n] = g[n]
  <2> DEFINE T == {s \in SUBSET (1 .. n) : F[s] = f[s]}
  <2>1. {} \in T
    BY <1>4, <1>7 DEF Follows
  <2>2. ASSUME NEW s \in SUBSET (1 .. n), s # {}, s \ {Max(s)} \in T PROVE s \in T
    <3>1. F[s \ {Max(s)}] = f[s \ {Max(s)}] /\ f[s \ {Max(s)}] \in V
      BY <2>2
    <3> QED BY <1>4, <1>7, <2>2, <3>1 DEF Follows
  <2>3. \A s \in SUBSET (1 .. n) : s \in T
    <3> HIDE DEF T
    <3> QED BY <2>1, <2>2, SubsetInduction
  <2> QED BY <2>3
<1> HIDE DEF g
<1> QED BY <1>1, <1>3, <1>5, <1>6, <1>7 DEF Stepwise
=============================================================================
