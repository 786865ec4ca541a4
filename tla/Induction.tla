------------------------------ MODULE Induction ------------------------------
(***************************************************************************)
(* Induction and recursion over data, stated with sets and functions so    *)
(* that a proof can cite them: the numbers, or the sequences, of which a   *)
(* claim holds are a set, and the step of a recursive definition is a      *)
(* function.                                                               *)
(***************************************************************************)
EXTENDS Integers, Sequences, SequenceTheorems, WellFoundedInduction, TLAPS

(* A nonempty set of natural numbers has a least element.                  *)
LEMMA LeastNat ==
    ASSUME NEW T \in SUBSET Nat, T # {}
    PROVE  \E m \in T : \A k \in T : m <= k
<1>1. PICK m \in T : \A k \in T : <<k, m>> \notin OpToRel(<, Nat)
    <2>1. T \subseteq Nat
        OBVIOUS
    <2> QED
        BY <2>1, NatLessThanWellFounded, WFMin
<1>2. ASSUME NEW k \in T PROVE m <= k
    <2>1. <<k, m>> \notin {ss \in Nat \X Nat : ss[1] < ss[2]}
        BY <1>1 DEF OpToRel
    <2> QED
        BY <2>1
<1> QED
    BY <1>2

(* A set with 0 and the successor of each of its numbers has them all.     *)
LEMMA Induct ==
    ASSUME NEW T, 0 \in T, \A n \in Nat : n \in T => n + 1 \in T
    PROVE  \A n \in Nat : n \in T
<1> DEFINE U == {n \in Nat : n \notin T}
<1> SUFFICES ASSUME U # {} PROVE FALSE
    OBVIOUS
<1>1. PICK m \in U : \A k \in U : m <= k
    <2>1. U \in SUBSET Nat
        OBVIOUS
    <2> HIDE DEF U
    <2> QED
        BY <2>1, LeastNat
<1>2. m \in Nat /\ m \notin T /\ m # 0
    BY <1>1
<1>3. m - 1 \in Nat /\ m - 1 \notin U
    BY <1>1, <1>2
<1>4. m \in T
    BY <1>2, <1>3
<1> QED
    BY <1>2, <1>4

(* A set with the empty sequence that is closed under Append has them all. *)
LEMMA SeqInduct ==
    ASSUME NEW Q, NEW T, <<>> \in T,
           \A s \in Seq(Q), e \in Q : s \in T => Append(s, e) \in T
    PROVE  \A s \in Seq(Q) : s \in T
<1> DEFINE N == {n \in Nat : \A s \in Seq(Q) : Len(s) = n => s \in T}
<1>1. 0 \in N
    BY EmptySeq
<1>2. ASSUME NEW n \in Nat, n \in N PROVE n + 1 \in N
    <2> SUFFICES ASSUME NEW s \in Seq(Q), Len(s) = n + 1 PROVE s \in T
        OBVIOUS
    <2>1. s # <<>>
        BY EmptySeq
    <2>2. PICK t \in Seq(Q), e \in Q : s = Append(t, e)
        BY <2>1, SequenceEmptyOrAppend
    <2>3. Len(t) = n
        BY <2>2, AppendProperties, LenProperties
    <2> QED
        BY <1>2, <2>2, <2>3
<1> HIDE DEF N
<1>3. \A n \in Nat : n \in N
    BY <1>1, <1>2, Induct
<1> QED
    BY <1>3, LenProperties DEF N

(* g starts at a and follows the step function F for n steps.              *)
Follows(g, a, F, n) == g[0] = a /\ \A i \in 0..(n - 1) : g[i + 1] = F[i][g[i]]

(* For every number of steps there is such a g.                            *)
LEMMA FollowsExists ==
    ASSUME NEW X, NEW a \in X, NEW F \in [Nat -> [X -> X]]
    PROVE  \A n \in Nat : \E g \in [0..n -> X] : Follows(g, a, F, n)
<1> DEFINE T == {n \in Nat : \E g \in [0..n -> X] : Follows(g, a, F, n)}
<1>1. 0 \in T
    <2>1. [i \in 0..0 |-> a] \in [0..0 -> X]
        OBVIOUS
    <2>2. Follows([i \in 0..0 |-> a], a, F, 0)
        BY DEF Follows
    <2> QED
        BY <2>1, <2>2
<1>2. ASSUME NEW n \in Nat, n \in T PROVE n + 1 \in T
    <2>1. PICK g \in [0..n -> X] : Follows(g, a, F, n)
        BY <1>2
    <2> DEFINE h == [i \in 0..(n + 1) |-> IF i <= n THEN g[i] ELSE F[n][g[n]]]
    <2>2. h \in [0..(n + 1) -> X]
        BY <2>1
    <2>3. h[0] = a
        BY <2>1 DEF Follows
    <2>4. ASSUME NEW i \in 0..n PROVE h[i + 1] = F[i][h[i]]
        <3>1. CASE i = n
            BY <3>1
        <3>2. CASE i # n
            <4>1. i \in 0..(n - 1) /\ i + 1 <= n /\ i + 1 \in 0..(n + 1) /\ i \in 0..(n + 1)
                BY <3>2
            <4>2. g[i + 1] = F[i][g[i]]
                BY <2>1, <4>1 DEF Follows
            <4> QED
                BY <4>1, <4>2
        <3> QED
            BY <3>1, <3>2
    <2> HIDE DEF h
    <2>5. n = (n + 1) - 1
        OBVIOUS
    <2>6. Follows(h, a, F, n + 1)
        BY <2>3, <2>4, <2>5 DEF Follows
    <2> QED
        BY <2>2, <2>6
<1> HIDE DEF T
<1>3. \A n \in Nat : n \in T
    BY <1>1, <1>2, Induct
<1> QED
    BY <1>3 DEF T

(* What follows F from a stays where F stays.                              *)
LEMMA FollowsType ==
    ASSUME NEW X, NEW a \in X, NEW F \in [Nat -> [X -> X]], NEW n \in Nat, NEW h,
           h[0] = a, \A i \in 0..(n - 1) : h[i] \in X => h[i + 1] = F[i][h[i]]
    PROVE  Follows(h, a, F, n) /\ \A i \in 0..n : h[i] \in X
<1> DEFINE T == {i \in Nat : i <= n => h[i] \in X}
<1>1. 0 \in T
    OBVIOUS
<1>2. ASSUME NEW i \in Nat, i \in T PROVE i + 1 \in T
    <2> SUFFICES ASSUME i + 1 <= n PROVE h[i + 1] \in X
        OBVIOUS
    <2>1. i \in 0..(n - 1) /\ h[i] \in X
        BY <1>2
    <2> QED
        BY <2>1
<1> HIDE DEF T
<1>3. \A i \in Nat : i \in T
    BY <1>1, <1>2, Induct
<1>4. \A i \in 0..n : h[i] \in X
    BY <1>3 DEF T
<1> QED
    BY <1>4 DEF Follows

(* What two of them compute is the same.                                   *)
LEMMA FollowsUnique ==
    ASSUME NEW a, NEW F, NEW n \in Nat, NEW g, NEW h,
           Follows(g, a, F, n), Follows(h, a, F, n)
    PROVE  g[n] = h[n]
<1> DEFINE V == {i \in Nat : i <= n => g[i] = h[i]}
<1>1. 0 \in V
    BY DEF Follows
<1>2. ASSUME NEW i \in Nat, i \in V PROVE i + 1 \in V
    <2> SUFFICES ASSUME i + 1 <= n PROVE g[i + 1] = h[i + 1]
        OBVIOUS
    <2>1. i \in 0..(n - 1)
        OBVIOUS
    <2>2. g[i] = h[i]
        BY <1>2
    <2>3. g[i + 1] = F[i][g[i]] /\ h[i + 1] = F[i][h[i]]
        BY <2>1 DEF Follows
    <2> QED
        BY <2>2, <2>3
<1> HIDE DEF V
<1>3. \A i \in Nat : i \in V
    BY <1>1, <1>2, Induct
<1> QED
    BY <1>3 DEF V

(* The step function may be followed for ever.                             *)
LEMMA Recursion ==
    ASSUME NEW X, NEW a \in X, NEW F \in [Nat -> [X -> X]]
    PROVE  \E f \in [Nat -> X] : \A n \in Nat : Follows(f, a, F, n)
<1> DEFINE g == [n \in Nat |-> CHOOSE h \in [0..n -> X] : Follows(h, a, F, n)]
           f == [n \in Nat |-> g[n][n]]
<1>1. \A n \in Nat : g[n] \in [0..n -> X] /\ Follows(g[n], a, F, n)
    BY FollowsExists
<1> HIDE DEF g
<1>2. f \in [Nat -> X]
    BY <1>1
<1>3. f[0] = a
    BY <1>1 DEF Follows
<1>4. ASSUME NEW n \in Nat PROVE f[n + 1] = F[n][f[n]]
    <2>1. n + 1 \in Nat /\ n \in 0..((n + 1) - 1) /\ \A i \in 0..(n - 1) : i \in 0..((n + 1) - 1)
        OBVIOUS
    <2>2. g[n + 1][n] = g[n][n]
        <3>1. Follows(g[n + 1], a, F, n)
            BY <1>1, <2>1 DEF Follows
        <3>2. Follows(g[n], a, F, n)
            BY <1>1
        <3> QED
            BY <3>1, <3>2, FollowsUnique
    <2>3. g[n + 1][n + 1] = F[n][g[n + 1][n]]
        BY <1>1, <2>1 DEF Follows
    <2> QED
        BY <2>2, <2>3
<1> HIDE DEF f
<1>5. \A n \in Nat : Follows(f, a, F, n)
    BY <1>3, <1>4 DEF Follows
<1> QED
    BY <1>2, <1>5
==============================================================================
