---------------------------- MODULE FoldLemmas ----------------------------
(***************************************************************************)
(* What FoldLeft computes is a walk over a sequence: a run of states, each *)
(* reached from the one before by the step at the next element.  For the   *)
(* proofs about what the code does in a loop over a list.                  *)
(***************************************************************************)
EXTENDS Integers, Sequences, FiniteSets, SequencesExt, WellFoundedInduction, TLAPS

(* A set of numbers with 0 and, with each, the next one up to n has all of them. *)
LEMMA UpTo ==
  ASSUME NEW n \in Nat, NEW S, 0 \in S, \A i \in 1..n : i - 1 \in S => i \in S
  PROVE  \A i \in 0..n : i \in S
<1> DEFINE missing == (0..n) \ S
<1> SUFFICES ASSUME missing # {} PROVE FALSE
  OBVIOUS
<1>1. missing \subseteq Nat /\ missing # {}
  OBVIOUS
<1>2. PICK m \in missing : \A k \in missing : ~(<<k, m>> \in OpToRel(<, Nat))
  <2> HIDE DEF missing
  <2> QED BY <1>1, WFMin, NatLessThanWellFounded
<1>3. m # 0 /\ m \in 1..n /\ m - 1 \in Nat
  OBVIOUS
<1>4. m - 1 \notin missing
  <2>1. <<m - 1, m>> \in OpToRel(<, Nat)
    BY <1>1, <1>3 DEF OpToRel
  <2> QED BY <1>2, <2>1
<1>5. m - 1 \in 0..n
  BY <1>3
<1> QED BY <1>3, <1>4, <1>5

(* A set of numbers up to n has a largest one. *)
LEMMA MaxIsIn ==
  ASSUME NEW n \in Nat, NEW S \in SUBSET (1..n), S # {}
  PROVE  Max(S) \in S /\ \A x \in S : x <= Max(S)
<1> DEFINE gaps == {n - x : x \in S}
<1>1. gaps \subseteq Nat /\ gaps # {}
  <2>1. \A x \in S : x \in Int /\ n - x \in Nat
    OBVIOUS
  <2> QED BY <2>1
<1>2. PICK m \in gaps : \A k \in gaps : ~(<<k, m>> \in OpToRel(<, Nat))
  <2> HIDE DEF gaps
  <2> QED BY <1>1, WFMin, NatLessThanWellFounded
<1>3. \A k \in gaps : m <= k
  <2> HIDE DEF gaps
  <2> SUFFICES ASSUME NEW k \in gaps, k < m PROVE FALSE
    BY <1>1
  <2>1. <<k, m>> \in OpToRel(<, Nat)
    BY <1>1 DEF OpToRel
  <2> QED BY <2>1, <1>2
<1>4. \E x \in S : \A y \in S : x >= y
  <2>1. PICK x \in S : m = n - x
    BY DEF gaps
  <2>2. ASSUME NEW y \in S PROVE x >= y
    <3>1. n - x <= n - y
      BY <2>1, <1>3
    <3> QED BY <3>1
  <2> QED BY <2>2
<1>5. \A x \in S : x \in Int
  OBVIOUS
<1>6. Max(S) \in S /\ \A y \in S : Max(S) >= y
  BY <1>4 DEF Max
<1> QED BY <1>5, <1>6

(* ... and a least one. *)
LEMMA LeastIsIn ==
  ASSUME NEW n \in Nat, NEW S \in SUBSET (1..n), S # {}
  PROVE  \E x \in S : \A y \in S : x <= y
<1>1. S \subseteq Nat
  OBVIOUS
<1>2. PICK m \in S : \A k \in S : ~(<<k, m>> \in OpToRel(<, Nat))
  BY <1>1, WFMin, NatLessThanWellFounded
<1>3. ASSUME NEW k \in S, k < m PROVE FALSE
  <2>1. <<k, m>> \in OpToRel(<, Nat)
    BY <1>1, <1>3 DEF OpToRel
  <2> QED BY <1>2, <2>1
<1>4. m \in S /\ \A k \in S : m <= k
  BY <1>1, <1>3
<1> QED BY <1>4

LEMMA MaxOfUpTo ==
  ASSUME NEW i \in Nat \ {0}
  PROVE  Max(1..i) = i /\ (1..i) \ {Max(1..i)} = 1..(i - 1)
<1>1. i \in Nat /\ 1..i \in SUBSET (1..i) /\ i \in 1..i
  OBVIOUS
<1>2. Max(1..i) \in 1..i /\ \A x \in 1..i : x <= Max(1..i)
  <2> HIDE DEF Max
  <2>1. 1..i # {}
    BY <1>1
  <2> QED BY <1>1, <2>1, MaxIsIn
<1>3. Max(1..i) = i
  BY <1>1, <1>2
<1> QED BY <1>2

(* A walk over a sequence that takes a step of D at each of its elements: the
   function that folds are defined by. *)
Walks(f, n, D, base, step) ==
  /\ f \in [SUBSET (1..n) -> D]
  /\ \A s \in SUBSET (1..n) : f[s] = IF s = {} THEN base ELSE step[f[s \ {Max(s)}], Max(s)]

(* There is one such function. *)
LEMMA WalkExists ==
  ASSUME NEW n \in Nat, NEW D, NEW base \in D, NEW step \in [D \X (1..n) -> D]
  PROVE  \E f : Walks(f, n, D, base, step)
<1> DEFINE S == {k \in 0..n : \E f : Walks(f, k, D, base, step)}
<1>1. 0 \in S
  <2> DEFINE f == [s \in SUBSET (1..0) |-> base]
  <2>1. \A s \in SUBSET (1..0) : s = {}
    OBVIOUS
  <2>2. f \in [SUBSET (1..0) -> D] /\ \A s \in SUBSET (1..0) : f[s] = base
    OBVIOUS
  <2>3. Walks(f, 0, D, base, step)
    <3> HIDE DEF f
    <3> QED BY <2>1, <2>2 DEF Walks
  <2>4. \E h : Walks(h, 0, D, base, step)
    BY <2>3
  <2> QED BY <2>4
<1>2. ASSUME NEW k \in 1..n, k - 1 \in S PROVE k \in S
  <2>1. PICK f : Walks(f, k - 1, D, base, step)
    BY <1>2
  <2> DEFINE g == [s \in SUBSET (1..k) |-> IF k \in s THEN step[f[s \ {k}], k] ELSE f[s]]
  <2>2. \A s \in SUBSET (1..k) : k \notin s => s \in SUBSET (1..(k - 1))
    OBVIOUS
  <2>3. \A s \in SUBSET (1..k) : s \ {k} \in SUBSET (1..(k - 1))
    OBVIOUS
  <2>4. g \in [SUBSET (1..k) -> D]
    BY <2>1, <2>2, <2>3 DEF Walks
  <2>5. ASSUME NEW s \in SUBSET (1..k)
        PROVE  g[s] = IF s = {} THEN base ELSE step[g[s \ {Max(s)}], Max(s)]
    <3>1. CASE k \in s
      <4>1. Max(s) = k
        <5>1. k \in Nat /\ s \in SUBSET (1..k) /\ s # {}
          BY <3>1
        <5>2. Max(s) \in s /\ k <= Max(s)
          <6> HIDE DEF g
          <6> QED BY <3>1, <5>1, MaxIsIn
        <5>3. Max(s) \in 1..k
          BY <5>2
        <5> HIDE DEF Max, g
        <5> QED BY <5>1, <5>2, <5>3
      <4>2. g[s \ {k}] = f[s \ {k}]
        BY <2>3
      <4> QED BY <3>1, <4>1, <4>2
    <3>2. CASE k \notin s /\ s # {}
      <4>1. Max(s) \in s
        <5>1. k \in Nat /\ s \in SUBSET (1..k)
          OBVIOUS
        <5> QED BY <3>2, <5>1, MaxIsIn
      <4>2. s \ {Max(s)} \in SUBSET (1..k) /\ k \notin s \ {Max(s)}
        BY <3>2
      <4>3. g[s \ {Max(s)}] = f[s \ {Max(s)}] /\ g[s] = f[s]
        BY <3>2, <4>2
      <4> QED BY <2>1, <2>2, <3>2, <4>3 DEF Walks
    <3>3. CASE s = {}
      BY <2>1, <2>2, <3>3 DEF Walks
    <3> QED BY <3>1, <3>2, <3>3
  <2>6. Walks(g, k, D, base, step)
    <3> HIDE DEF g
    <3> QED BY <2>4, <2>5 DEF Walks
  <2>7. \E h : Walks(h, k, D, base, step)
    BY <2>6
  <2> QED BY <2>7
<1>3. n \in S
  <2> HIDE DEF S
  <2> QED BY <1>1, <1>2, UpTo
<1> QED BY <1>3

(* The states a walk goes through. *)
Strides(h, n, D, base, step) ==
  /\ base \in D /\ h[{}] = base
  /\ \A p \in D, i \in 1..n : step[p, i] \in D
  /\ \A w \in SUBSET (1..n) :
       w # {} /\ h[w \ {Max(w)}] \in D => h[w] = step[h[w \ {Max(w)}], Max(w)]

Runs(run, n, D, base, step, end) ==
  /\ run[0] = base
  /\ run[n] = end
  /\ \A i \in 0..n : run[i] \in D
  /\ \A i \in 1..n : run[i] = step[run[i - 1], i]

LEMMA WalkRuns ==
  ASSUME NEW n \in Nat, NEW D, NEW base, NEW step, NEW h,
         Strides(h, n, D, base, step)
  PROVE  \E run : Runs(run, n, D, base, step, h[1..n])
<1> DEFINE run == [i \in 0..n |-> h[1..i]]
<1> HIDE DEF Max
<1>1. \A i \in 1..n : /\ Max(1..i) = i /\ (1..i) \ {Max(1..i)} = 1..(i - 1)
                      /\ 1..i \in SUBSET (1..n) /\ 1..i # {}
  <2> SUFFICES ASSUME NEW i \in 1..n
               PROVE  /\ Max(1..i) = i /\ (1..i) \ {Max(1..i)} = 1..(i - 1)
                      /\ 1..i \in SUBSET (1..n) /\ 1..i # {}
    OBVIOUS
  <2>1. i \in Nat \ {0} /\ 1..i \in SUBSET (1..n) /\ i \in 1..i
    OBVIOUS
  <2> QED BY <2>1, MaxOfUpTo
<1> DEFINE Onward(i) == h[1..(i - 1)] \in D => h[1..i] = step[h[1..(i - 1)], i] /\ h[1..i] \in D
<1>2. \A i \in 1..n : Onward(i)
  <2> SUFFICES ASSUME NEW i \in 1..n, h[1..(i - 1)] \in D
               PROVE  h[1..i] = step[h[1..(i - 1)], i] /\ h[1..i] \in D
    OBVIOUS
  <2>1. h[1..i] = step[h[1..(i - 1)], i]
    BY <1>1 DEF Strides
  <2>2. step[h[1..(i - 1)], i] \in D
    BY DEF Strides
  <2> QED BY <2>1, <2>2, Zenon
<1>3. h[1..0] = base /\ base \in D
  <2>1. 1..0 = {}
    OBVIOUS
  <2>2. h[{}] = base /\ base \in D
    BY DEF Strides
  <2> QED BY <2>1, <2>2
<1>4. \A i \in 0..n : run[i] = h[1..i]
  OBVIOUS
<1>5. \A i \in 0..n : h[1..i] \in D
  <2> DEFINE S == {i \in 0..n : h[1..i] \in D}
  <2>1. 0 \in S
    BY <1>3
  <2>2. ASSUME NEW i \in 1..n, i - 1 \in S PROVE i \in S
    <3>1. h[1..i] \in D
      BY <1>2, <2>2, Zenon
    <3> QED BY <3>1
  <2>3. \A i \in 0..n : i \in S
    <3> HIDE DEF S
    <3> QED BY <2>1, <2>2, UpTo
  <2> QED BY <2>3
<1>6. ASSUME NEW i \in 1..n PROVE run[i] = step[run[i - 1], i]
  <2>1. i \in 0..n /\ i - 1 \in 0..n
    OBVIOUS
  <2>2. run[i] = h[1..i] /\ run[i - 1] = h[1..(i - 1)] /\ h[1..(i - 1)] \in D
    <3> HIDE DEF run
    <3> QED BY <1>4, <1>5, <2>1
  <2>3. h[1..i] = step[h[1..(i - 1)], i]
    BY <1>2, <2>2, Zenon
  <2> HIDE DEF run
  <2> QED BY <2>2, <2>3, Zenon
<1>7. run[0] = base /\ run[n] = h[1..n] /\ \A i \in 0..n : run[i] \in D
  <2>1. 0 \in 0..n /\ n \in 0..n
    OBVIOUS
  <2> HIDE DEF run
  <2> QED BY <1>3, <1>4, <1>5, <2>1
<1> HIDE DEF run
<1>8. Runs(run, n, D, base, step, h[1..n])
  BY <1>6, <1>7, Zenon DEF Runs
<1> QED BY <1>8
=============================================================================
