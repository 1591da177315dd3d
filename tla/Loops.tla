------------------------------- MODULE Loops -------------------------------
(***************************************************************************)
(* What a fold over a sequence is, for proofs: a loop, whose values on the *)
(* beginnings of the sequence follow from one another.  FoldLeft is        *)
(* defined by way of a recursive function on sets of indices that takes    *)
(* the largest first; LoopRuns says that there is such a function for any  *)
(* step, and the rest is induction over numbers, stated with sets.         *)
(***************************************************************************)
EXTENDS Integers, SequencesExt, WellFoundedInduction, TLAPS

\* The recursive function FoldLeft folds s with, for a step that is a function.
Iterates(iter, base, step, s) ==
    iter = [S \in SUBSET DOMAIN s |->
              IF S = {} THEN base ELSE step[<<iter[S \ {Max(S)}], s[Max(S)]>>]]

\* It applies the step to values of the loop and elements of the sequence only.
Stays(iter, A, B, s) ==
    \A S \in SUBSET DOMAIN s : S # {} => iter[S \ {Max(S)}] \in A /\ s[Max(S)] \in B

\* On a beginning of the sequence it applies the step to the one before.
Follows(iter, A, step, s) ==
    \A k \in 1 .. Len(s) :
        iter[1 .. (k - 1)] \in A => iter[1 .. k] = step[<<iter[1 .. (k - 1)], s[k]>>]

\* Its values on the beginnings of the sequence, in order.
Along(iter, s) == [k \in 0 .. Len(s) |-> iter[1 .. k]]

\* The loop over s: run[k] is its value after k elements.
Runs(run, A, base, step, s) ==
    /\ run \in [0 .. Len(s) -> A]
    /\ run[0] = base
    /\ \A k \in 1 .. Len(s) : run[k] = step[<<run[k - 1], s[k]>>]

\* A set of natural numbers has a least one.
LEMMA LeastNat ==
    ASSUME NEW T, T \subseteq Nat, T # {}
    PROVE  \E m \in T : \A n \in T : m <= n
  <1>1. PICK R : IsWellFoundedOn(R, Nat) /\ \A i, j \in Nat : i < j => <<i, j>> \in R
    <2>1. \A i, j \in Nat : i < j => <<i, j>> \in OpToRel(<, Nat)
      BY DEF OpToRel
    <2>2. QED
      BY <2>1, NatLessThanWellFounded, Zenon
  <1>2. PICK m \in T : \A n \in T : ~(<<n, m>> \in R)
    <2>1. IsWellFoundedOn(R, Nat)
      BY <1>1, Zenon
    <2>2. QED
      BY <2>1, WFMin, Zenon
  <1>3. \A n \in T : m \in Nat /\ n \in Nat /\ ~(n < m)
    BY <1>1, <1>2, Zenon
  <1>4. \A n \in T : m <= n
    BY <1>3
  <1>5. QED
    BY <1>4

\* Induction up to a bound.
LEMMA UpTo ==
    ASSUME NEW n \in Nat, NEW P, 0 \in P, \A k \in 0 .. (n - 1) : k \in P => k + 1 \in P
    PROVE  0 .. n \subseteq P
  <1> DEFINE T == {k \in 0 .. n : k \notin P}
  <1> SUFFICES ASSUME T # {} PROVE FALSE
    OBVIOUS
  <1>1. PICK m \in T : \A k \in T : m <= k
    <2>1. T \subseteq Nat
      OBVIOUS
    <2> HIDE DEF T
    <2>2. QED
      BY <2>1, LeastNat
  <1>2. m \in 0 .. n /\ m # 0
    BY <1>1
  <1>3. m - 1 \in 0 .. (n - 1) /\ ~(m <= m - 1)
    BY <1>2
  <1>4. m - 1 \in P
    BY <1>1, <1>3
  <1>5. (m - 1) + 1 \in P
    BY <1>3, <1>4
  <1>6. QED
    BY <1>1, <1>2, <1>5

\* The beginning of a loop: its last index, and the beginning before.
LEMMA Beginning ==
    ASSUME NEW k \in Nat, k # 0
    PROVE  Max(1 .. k) = k /\ (1 .. k) \ {k} = 1 .. (k - 1)
  <1>1. k \in 1 .. k /\ \A y \in 1 .. k : k >= y
    OBVIOUS
  <1>2. ASSUME NEW x \in 1 .. k, \A y \in 1 .. k : x >= y PROVE x = k
    BY <1>1, <1>2
  <1>3. Max(1 .. k) = k
    BY <1>1, <1>2 DEF Max
  <1>4. QED
    BY <1>3

\* A set of natural numbers below a bound has a greatest one.
LEMMA MaxIsGreatest ==
    ASSUME NEW n \in Nat, NEW S \in SUBSET (0 .. n), S # {}
    PROVE  Max(S) \in S /\ \A y \in S : Max(S) >= y
  <1>. DEFINE T == {n - x : x \in S}
  <1>1. T \subseteq Nat /\ T # {}
    <2>1. \A x \in S : n - x \in Nat
      OBVIOUS
    <2>. QED
      BY <2>1
  <1>2. PICK m \in T : \A y \in T : m <= y
    <2>. HIDE DEF T
    <2>. QED
      BY <1>1, LeastNat
  <1>3. PICK x \in S : m = n - x
    BY <1>2
  <1>4. \A y \in S : x >= y
    <2>1. \A y \in S : m <= n - y
      BY <1>2
    <2>. QED
      BY <1>3, <2>1
  <1>. QED
    BY <1>4 DEF Max

\* The recursion FoldLeft is written with has a solution.
LEMMA LoopRuns ==
    ASSUME NEW A, NEW B, NEW base \in A, NEW step \in [A \X B -> A], NEW s \in Seq(B)
    PROVE  \E iter : Iterates(iter, base, step, s) /\ Stays(iter, A, B, s)
  <1> DEFINE Solves(iter, n) ==
               /\ iter \in [SUBSET (1 .. n) -> A]
               /\ \A S \in SUBSET (1 .. n) :
                    iter[S] = IF S = {} THEN base
                              ELSE step[<<iter[S \ {Max(S)}], s[Max(S)]>>]
             N == Len(s)
             P == {n \in 0 .. N : \E iter : Solves(iter, n)}
  <1>0. N \in Nat /\ DOMAIN s = 1 .. N /\ \A i \in 1 .. N : s[i] \in B
    OBVIOUS
  <1>1. 0 \in P
    <2> DEFINE none == [S \in SUBSET (1 .. 0) |-> base]
    <2>1. Solves(none, 0)
      <3>1. 1 .. 0 = {}
        OBVIOUS
      <3>2. none \in [SUBSET (1 .. 0) -> A]
        OBVIOUS
      <3>3. ASSUME NEW S \in SUBSET (1 .. 0) PROVE S = {} /\ none[S] = base
        BY <3>1
      <3> HIDE DEF none
      <3>4. QED
        BY <3>2, <3>3
    <2> HIDE DEF none, Solves
    <2>2. QED
      BY <1>0, <2>1
  <1>2. ASSUME NEW n \in 0 .. (N - 1), n \in P PROVE n + 1 \in P
    <2>1. PICK old : Solves(old, n)
      BY <1>2
    <2> DEFINE new == [S \in SUBSET (1 .. (n + 1)) |->
                         IF n + 1 \in S THEN step[<<old[S \ {n + 1}], s[n + 1]>>] ELSE old[S]]
    <2>2. n \in Nat /\ n + 1 \in 1 .. N /\ s[n + 1] \in B
      BY <1>0
    <2>3. ASSUME NEW S \in SUBSET (1 .. (n + 1))
          PROVE  /\ n + 1 \in S => /\ S \ {n + 1} \in SUBSET (1 .. n)
                                   /\ Max(S) = n + 1
                 /\ n + 1 \notin S => S \in SUBSET (1 .. n)
      <3>1. n + 1 \in S => Max(S) = n + 1
        <4> SUFFICES ASSUME n + 1 \in S PROVE Max(S) = n + 1
          OBVIOUS
        <4>1. \A y \in S : n + 1 >= y
          BY <2>2
        <4>2. ASSUME NEW x \in S, \A y \in S : x >= y PROVE x = n + 1
          <5>1. x \in 1 .. (n + 1) /\ x >= n + 1
            BY <4>2
          <5>2. QED
            BY <2>2, <5>1
        <4>3. QED
          BY <4>1, <4>2 DEF Max
      <3>2. QED
        BY <2>2, <3>1
    <2>4. new \in [SUBSET (1 .. (n + 1)) -> A]
      BY <2>1, <2>2, <2>3
    <2>5. ASSUME NEW S \in SUBSET (1 .. n) PROVE new[S] = old[S]
      BY <2>2
    <2>6. ASSUME NEW S \in SUBSET (1 .. (n + 1))
          PROVE  new[S] = IF S = {} THEN base
                          ELSE step[<<new[S \ {Max(S)}], s[Max(S)]>>]
      <3>1. CASE n + 1 \in S
        <4>1. new[S] = step[<<old[S \ {n + 1}], s[n + 1]>>]
          BY <3>1
        <4>2. new[S \ {n + 1}] = old[S \ {n + 1}] /\ Max(S) = n + 1
          BY <2>3, <2>5, <3>1
        <4> HIDE DEF new
        <4>3. QED
          BY <3>1, <4>1, <4>2
      <3>2. CASE n + 1 \notin S
        <4>1. S \in SUBSET (1 .. n) /\ S \ {Max(S)} \in SUBSET (1 .. n)
          BY <2>3, <3>2
        <4>2. new[S] = old[S] /\ new[S \ {Max(S)}] = old[S \ {Max(S)}]
          BY <2>5, <4>1
        <4> HIDE DEF new
        <4>3. QED
          BY <2>1, <4>1, <4>2
      <3>3. QED
        BY <3>1, <3>2
    <2>7. Solves(new, n + 1)
      BY <2>4, <2>6
    <2> HIDE DEF new, Solves
    <2>8. \E iter : Solves(iter, n + 1)
      BY <2>7
    <2>9. n + 1 \in 0 .. N
      BY <1>0, <2>2
    <2> HIDE DEF N
    <2>10. QED
      BY <2>8, <2>9
  <1>3. N \in P
    <2>1. \A k \in 0 .. (N - 1) : k \in P => k + 1 \in P
      BY <1>2
    <2>2. N \in Nat
      BY <1>0
    <2> HIDE DEF P, N
    <2>3. 0 .. N \subseteq P
      BY <1>1, <2>1, <2>2, UpTo
    <2>4. QED
      BY <2>2, <2>3
  <1>4. PICK iter : Solves(iter, N)
    BY <1>3
  <1>5. Iterates(iter, base, step, s)
    BY <1>0, <1>4 DEF Iterates
  <1>6. ASSUME NEW S \in SUBSET DOMAIN s, S # {}
        PROVE  iter[S \ {Max(S)}] \in A /\ s[Max(S)] \in B
    <2>1. Max(S) \in DOMAIN s
      <3>1. S \in SUBSET (0 .. Len(s))
        BY <1>0
      <3>2. Max(S) \in S
        BY <1>0, <1>6, <3>1, MaxIsGreatest
      <3>. QED
        BY <3>2
    <2>2. QED
      BY <1>0, <1>4, <2>1
  <1>7. QED
    BY <1>5, <1>6 DEF Stays

\* The values of that function on the beginnings of the sequence are the values
\* of the loop.
LEMMA LoopValues ==
    ASSUME NEW A, NEW B, NEW base \in A, NEW step \in [A \X B -> A], NEW s \in Seq(B),
           NEW iter, iter[{}] = base, Follows(iter, A, step, s)
    PROVE  Runs(Along(iter, s), A, base, step, s)
  <1> DEFINE run == [k \in 0 .. Len(s) |-> iter[1 .. k]]
             P   == {k \in 0 .. Len(s) : run[k] \in A}
             N   == Len(s)
  <1>0. N \in Nat /\ DOMAIN s = 1 .. N /\ \A k \in 1 .. N : s[k] \in B
    OBVIOUS
  <1>1. \A k \in 0 .. N : run[k] = iter[1 .. k]
    OBVIOUS
  <1>2. run[0] = base
    <2>1. 1 .. 0 = {}
      OBVIOUS
    <2>2. QED
      BY <1>0, <1>1, <2>1
  <1>3. \A k \in 1 .. N : run[k - 1] \in A => run[k] = step[<<run[k - 1], s[k]>>]
    <2> SUFFICES ASSUME NEW k \in 1 .. N, run[k - 1] \in A
                 PROVE  run[k] = step[<<run[k - 1], s[k]>>]
      OBVIOUS
    <2>1. run[k - 1] = iter[1 .. (k - 1)] /\ run[k] = iter[1 .. k]
      BY <1>0, <1>1
    <2> HIDE DEF run
    <2>2. QED
      BY <2>1 DEF Follows
  <1> HIDE DEF run
  <1>4. 0 \in P
    BY <1>0, <1>2
  <1>5. ASSUME NEW k \in 0 .. (N - 1), k \in P PROVE k + 1 \in P
    <2>1. k + 1 \in 1 .. N /\ (k + 1) - 1 = k /\ run[k] \in A
      BY <1>0, <1>5
    <2>2. run[k + 1] = step[<<run[k], s[k + 1]>>] /\ s[k + 1] \in B
      BY <1>0, <1>3, <2>1
    <2>3. QED
      BY <2>1, <2>2
  <1>6. 0 .. N \subseteq P
    <2> HIDE DEF P, N
    <2>1. QED
      BY <1>0, <1>4, <1>5, UpTo
  <1>7. run \in [0 .. N -> A]
    BY <1>6 DEF run
  <1>8. \A k \in 1 .. N : run[k] = step[<<run[k - 1], s[k]>>]
    <2>1. \A k \in 1 .. N : k - 1 \in 0 .. N
      BY <1>0
    <2>2. QED
      BY <1>3, <1>7, <2>1
  <1>9. QED
    BY <1>2, <1>7, <1>8 DEF Runs, Along, run
=============================================================================
