---------------------------- MODULE SessionProofs ----------------------------
(***************************************************************************)
(* Theorems about module SessionStore, for any number of sessions, users   *)
(* and requests and any window and budget.                                 *)
(***************************************************************************)
EXTENDS SessionStore, Induction, FiniteSetTheorems

------------------------------------------------------------------------------
(* Selecting from a sequence.                                              *)

(* The recursive definition behind Among computes what it says.            *)
LEMMA AmongFollows ==
    ASSUME NEW Q, NEW seq \in Seq(Q), NEW S
    PROVE  LET Step(x, n) == IF seq[n] \in S THEN Append(x, seq[n]) ELSE x
               F == [n \in Nat |-> [x \in Seq(Q) |->
                        IF n + 1 \in 1..Len(seq) THEN Step(x, n + 1) ELSE x]]
           IN  \E g \in [0..Len(seq) -> Seq(Q)] :
                   /\ Follows(g, <<>>, F, Len(seq))
                   /\ Among(seq, S) = g[Len(seq)]
<1> DEFINE N == Len(seq)
           Step(x, n) == IF seq[n] \in S THEN Append(x, seq[n]) ELSE x
           Body(f) == [n \in 0..N |-> IF n = 0 THEN <<>> ELSE Step(f[n - 1], n)]
           F == [n \in Nat |-> [x \in Seq(Q) |-> IF n + 1 \in 1..N THEN Step(x, n + 1) ELSE x]]
           among == CHOOSE f : f = Body(f)
<1>1. N \in Nat /\ <<>> \in Seq(Q) /\ \A n \in 1..N : seq[n] \in Q
    OBVIOUS
<1>2. Among(seq, S) = among[N]
    BY DEF Among
<1>3. F \in [Nat -> [Seq(Q) -> Seq(Q)]]
    BY <1>1
<1>4. \A i \in 0..(N - 1) : \A x \in Seq(Q) : F[i][x] = Step(x, i + 1)
    BY <1>1
<1> HIDE DEF N, F, Step
<1>5. PICK g \in [0..N -> Seq(Q)] : Follows(g, <<>>, F, N)
    BY <1>1, <1>3, FollowsExists
<1>6. g = Body(g)
    <2>1. ASSUME NEW n \in 0..N, n # 0 PROVE g[n] = Step(g[n - 1], n)
        <3>1. n - 1 \in 0..(N - 1) /\ (n - 1) + 1 = n /\ n - 1 \in 0..N
            BY <1>1, <2>1
        <3> QED
            BY <1>4, <1>5, <3>1 DEF Follows
    <2> QED
        BY <1>5, <2>1 DEF Follows
<1>7. among = Body(among)
    <2> HIDE DEF Body
    <2> QED
        BY <1>6
<1> HIDE DEF among
<1>8. among[0] = <<>>
    BY <1>1, <1>7
<1>9. ASSUME NEW i \in 0..(N - 1), among[i] \in Seq(Q) PROVE among[i + 1] = F[i][among[i]]
    <2>1. i + 1 \in 0..N /\ i + 1 # 0 /\ (i + 1) - 1 = i
        BY <1>1
    <2>2. among[i + 1] = Step(among[i], i + 1)
        BY <1>7, <2>1
    <2> QED
        BY <1>4, <1>9, <2>2
<1>10. Follows(among, <<>>, F, N) /\ \A i \in 0..N : among[i] \in Seq(Q)
    BY <1>1, <1>3, <1>8, <1>9, FollowsType
<1>11. among \in [0..N -> Seq(Q)]
    BY <1>7, <1>10
<1> QED
    BY <1>2, <1>10, <1>11 DEF F, Step, N

LEMMA AmongEmpty == \A S : Among(<<>>, S) = <<>>
<1> SUFFICES ASSUME NEW S PROVE Among(<<>>, S) = <<>>
    OBVIOUS
<1>1. <<>> \in Seq({}) /\ Len(<<>>) = 0
    OBVIOUS
<1> DEFINE F == [n \in Nat |-> [x \in Seq({}) |->
                    IF n + 1 \in 1..Len(<<>>)
                    THEN IF <<>>[n + 1] \in S THEN Append(x, <<>>[n + 1]) ELSE x
                    ELSE x]]
<1>2. PICK g \in [0..Len(<<>>) -> Seq({})] :
          Follows(g, <<>>, F, Len(<<>>)) /\ Among(<<>>, S) = g[Len(<<>>)]
    BY <1>1, AmongFollows
<1> HIDE DEF F
<1> QED
    BY <1>1, <1>2 DEF Follows

(* A further element is selected, or not.                                  *)
LEMMA AmongAppend ==
    ASSUME NEW Q, NEW seq \in Seq(Q), NEW e \in Q, NEW S
    PROVE  /\ Among(seq, S) \in Seq(Q)
           /\ Among(Append(seq, e), S) =
                  IF e \in S THEN Append(Among(seq, S), e) ELSE Among(seq, S)
<1> DEFINE N == Len(seq)
           longer == Append(seq, e)
           Fcn(s) == [n \in Nat |-> [x \in Seq(Q) |->
                        IF n + 1 \in 1..Len(s)
                        THEN IF s[n + 1] \in S THEN Append(x, s[n + 1]) ELSE x
                        ELSE x]]
<1>1. /\ N \in Nat /\ longer \in Seq(Q) /\ Len(longer) = N + 1 /\ longer[N + 1] = e
      /\ \A i \in 1..N : longer[i] = seq[i]
    BY AppendProperties
<1>2. PICK g \in [0..N -> Seq(Q)] :
          Follows(g, <<>>, Fcn(seq), N) /\ Among(seq, S) = g[N]
    BY AmongFollows
<1>3. PICK h \in [0..Len(longer) -> Seq(Q)] :
          Follows(h, <<>>, Fcn(longer), Len(longer)) /\ Among(longer, S) = h[Len(longer)]
    BY <1>1, AmongFollows
<1> HIDE DEF longer
<1>4. Follows(h, <<>>, Fcn(seq), N)
    <2>1. \A i \in 0..(N - 1) : /\ i + 1 \in 1..Len(longer) /\ i + 1 \in 1..N
                                /\ i \in 0..(Len(longer) - 1) /\ i \in 0..Len(longer)
        BY <1>1
    <2>2. ASSUME NEW i \in 0..(N - 1), NEW x \in Seq(Q)
          PROVE  Fcn(longer)[i][x] = Fcn(seq)[i][x]
        BY <1>1, <2>1
    <2> HIDE DEF Fcn
    <2> QED
        BY <1>3, <2>1, <2>2 DEF Follows
<1>5. h[N] = g[N]
    <2> HIDE DEF Fcn
    <2>1. N \in Nat
        BY <1>1
    <2>2. Follows(h, <<>>, Fcn(seq), N) /\ Follows(g, <<>>, Fcn(seq), N)
        BY <1>2, <1>4
    <2> QED
        BY <2>1, <2>2, FollowsUnique
<1>6. h[N + 1] = Fcn(longer)[N][h[N]]
    <2> HIDE DEF Fcn
    <2>1. N \in 0..(Len(longer) - 1)
        BY <1>1
    <2> QED
        BY <1>3, <2>1 DEF Follows
<1>7. h[N] \in Seq(Q) /\ N + 1 \in 1..Len(longer)
    BY <1>1, <1>3
<1>8. Fcn(longer)[N][h[N]] = IF e \in S THEN Append(h[N], e) ELSE h[N]
    BY <1>1, <1>7
<1> HIDE DEF Fcn
<1> QED
    BY <1>1, <1>2, <1>3, <1>5, <1>6, <1>8 DEF longer

LEMMA EmptyRange == Range(<<>>) = {}
BY DEF Range

LEMMA RangeAppend ==
    ASSUME NEW Q, NEW seq \in Seq(Q), NEW e \in Q
    PROVE  Range(Append(seq, e)) = Range(seq) \cup {e}
<1>0. Append(seq, e) \in Seq(Q) /\ Len(Append(seq, e)) = Len(seq) + 1
    BY AppendProperties
<1>1. Range(Append(seq, e)) = {Append(seq, e)[i] : i \in 1..(Len(seq) + 1)}
    BY <1>0, RangeEquality
<1>2. Range(seq) = {seq[i] : i \in 1..Len(seq)}
    BY RangeEquality
<1>3. 1..(Len(seq) + 1) = 1..Len(seq) \cup {Len(seq) + 1}
    OBVIOUS
<1> QED
    BY <1>1, <1>2, <1>3, AppendProperties

(* What is selected are the elements in the set, and in what order.        *)
LEMMA AmongRange ==
    ASSUME NEW Q, NEW seq \in Seq(Q), NEW S
    PROVE  Among(seq, S) \in Seq(Q) /\ Range(Among(seq, S)) = Range(seq) \cap S
<1> DEFINE T == {s \in Seq(Q) : Range(Among(s, S)) = Range(s) \cap S}
<1>1. <<>> \in T
    BY AmongEmpty, EmptyRange
<1>2. ASSUME NEW s \in Seq(Q), NEW e \in Q, s \in T PROVE Append(s, e) \in T
    <2>0. /\ Among(s, S) \in Seq(Q)
          /\ Among(Append(s, e), S) = IF e \in S THEN Append(Among(s, S), e) ELSE Among(s, S)
        BY AmongAppend
    <2>1. Range(Append(s, e)) = Range(s) \cup {e} /\ Append(s, e) \in Seq(Q)
        BY RangeAppend, AppendProperties
    <2>2. CASE e \in S
        <3>1. Range(Append(Among(s, S), e)) = Range(Among(s, S)) \cup {e}
            BY <2>0, RangeAppend
        <3> QED
            BY <1>2, <2>0, <2>1, <2>2, <3>1
    <2>3. CASE e \notin S
        BY <1>2, <2>0, <2>1, <2>3
    <2> QED
        BY <2>2, <2>3
<1> HIDE DEF T
<1>3. seq \in T
    BY <1>1, <1>2, SeqInduct
<1>4. Among(seq, S) \in Seq(Q)
    <2>1. CASE seq = <<>>
        BY <2>1, AmongEmpty
    <2>2. CASE seq # <<>>
        <3>1. PICK s \in Seq(Q), e \in Q : seq = Append(s, e)
            BY <2>2, SequenceEmptyOrAppend
        <3> QED
            BY <3>1, AmongAppend
    <2> QED
        BY <2>1, <2>2
<1> QED
    BY <1>3, <1>4 DEF T

LEMMA InjectiveAppend ==
    ASSUME NEW Q, NEW seq \in Seq(Q), NEW e \in Q
    PROVE  IsInjective(Append(seq, e)) <=> IsInjective(seq) /\ e \notin Range(seq)
<1> DEFINE longer == Append(seq, e)
           N == Len(seq)
<1>1. /\ N \in Nat /\ DOMAIN seq = 1..N /\ DOMAIN longer = 1..(N + 1)
      /\ longer[N + 1] = e /\ \A i \in 1..N : longer[i] = seq[i]
    BY AppendProperties, LenProperties
<1>2. Range(seq) = {seq[i] : i \in 1..N}
    BY RangeEquality
<1> HIDE DEF longer, N
<1>3. ASSUME IsInjective(longer) PROVE IsInjective(seq) /\ e \notin Range(seq)
    BY <1>1, <1>2, <1>3 DEF IsInjective
<1>4. ASSUME IsInjective(seq), e \notin Range(seq) PROVE IsInjective(longer)
    <2> SUFFICES ASSUME NEW i \in 1..(N + 1), NEW j \in 1..(N + 1), longer[i] = longer[j]
                 PROVE  i = j
        BY <1>1 DEF IsInjective
    <2>1. \A k \in 1..N : seq[k] # e
        BY <1>2, <1>4
    <2>2. CASE i \in 1..N /\ j \in 1..N
        BY <1>1, <1>4, <2>2 DEF IsInjective
    <2>3. CASE ~(i \in 1..N /\ j \in 1..N)
        BY <1>1, <2>1, <2>3
    <2> QED
        BY <2>2, <2>3
<1> QED
    BY <1>3, <1>4 DEF longer

LEMMA AmongInjective ==
    ASSUME NEW Q, NEW seq \in Seq(Q), NEW S, IsInjective(seq)
    PROVE  IsInjective(Among(seq, S))
<1> DEFINE T == {s \in Seq(Q) : IsInjective(s) => IsInjective(Among(s, S))}
<1>1. <<>> \in T
    BY AmongEmpty DEF IsInjective
<1>2. ASSUME NEW s \in Seq(Q), NEW e \in Q, s \in T PROVE Append(s, e) \in T
    <2> SUFFICES ASSUME IsInjective(Append(s, e))
                 PROVE  IsInjective(Among(Append(s, e), S))
        OBVIOUS
    <2>1. IsInjective(s) /\ e \notin Range(s)
        BY InjectiveAppend
    <2>2. IsInjective(Among(s, S)) /\ e \notin Range(Among(s, S)) /\ Among(s, S) \in Seq(Q)
        BY <1>2, <2>1, AmongRange
    <2>3. IsInjective(Append(Among(s, S), e))
        BY <2>2, InjectiveAppend
    <2>4. Among(Append(s, e), S) = IF e \in S THEN Append(Among(s, S), e) ELSE Among(s, S)
        BY AmongAppend
    <2> QED
        BY <2>2, <2>3, <2>4
<1> HIDE DEF T
<1>3. seq \in T
    BY <1>1, <1>2, SeqInduct
<1> QED
    BY <1>3 DEF T

(* Only the elements of the sequence matter.                               *)
LEMMA AmongSame ==
    ASSUME NEW Q, NEW seq \in Seq(Q), NEW S, NEW U,
           \A e \in Range(seq) : e \in S <=> e \in U
    PROVE  Among(seq, S) = Among(seq, U)
<1> DEFINE T == {s \in Seq(Q) : (\A e \in Range(s) : e \in S <=> e \in U)
                                    => Among(s, S) = Among(s, U)}
<1>1. <<>> \in T
    BY AmongEmpty
<1>2. ASSUME NEW s \in Seq(Q), NEW e \in Q, s \in T PROVE Append(s, e) \in T
    <2>1. Range(Append(s, e)) = Range(s) \cup {e}
        BY RangeAppend
    <2>2. \A V : Among(Append(s, e), V) =
                     IF e \in V THEN Append(Among(s, V), e) ELSE Among(s, V)
        BY AmongAppend
    <2>3. Append(s, e) \in Seq(Q)
        BY AppendProperties
    <2> QED
        BY <1>2, <2>1, <2>2, <2>3
<1> HIDE DEF T
<1>3. seq \in T
    BY <1>1, <1>2, SeqInduct
<1> QED
    BY <1>3 DEF T

(* Nothing of S comes after e.                                             *)
Late(seq, e, S) ==
    \A m, i \in 1..Len(seq) : seq[m] = e /\ i > m => seq[i] \notin S

LEMMA LateShorter ==
    ASSUME NEW Q, NEW seq \in Seq(Q), NEW x \in Q, NEW e, NEW S, Late(Append(seq, x), e, S)
    PROVE  Late(seq, e, S) /\ (e \in Range(seq) => x \notin S)
<1>1. /\ Len(seq) \in Nat /\ Len(Append(seq, x)) = Len(seq) + 1
      /\ Append(seq, x)[Len(seq) + 1] = x /\ \A i \in 1..Len(seq) : Append(seq, x)[i] = seq[i]
    BY AppendProperties
<1>2. Late(seq, e, S)
    BY <1>1 DEF Late
<1>3. ASSUME e \in Range(seq) PROVE x \notin S
    <2>1. PICK m \in 1..Len(seq) : seq[m] = e
        BY <1>3, RangeEquality
    <2>2. /\ m \in 1..(Len(seq) + 1) /\ Len(seq) + 1 \in 1..(Len(seq) + 1) /\ Len(seq) + 1 > m
          /\ Append(seq, x)[m] = e
        BY <1>1, <2>1
    <2> QED
        BY <1>1, <2>2 DEF Late
<1> QED
    BY <1>2, <1>3

(* When the element that joins the set comes after all others of the set,  *)
(* it is selected last.                                                    *)
LEMMA AmongAdd ==
    ASSUME NEW Q
    PROVE  \A S, e, seq : e \in Q /\ e \notin S /\ seq \in Seq(Q) /\ IsInjective(seq)
               /\ e \in Range(seq) /\ Late(seq, e, S)
               => Among(seq, S \cup {e}) = Append(Among(seq, S), e)
<1> SUFFICES ASSUME NEW S, NEW e \in Q, e \notin S
             PROVE  \A seq \in Seq(Q) : IsInjective(seq) /\ e \in Range(seq) /\ Late(seq, e, S)
                        => Among(seq, S \cup {e}) = Append(Among(seq, S), e)
    OBVIOUS
<1> DEFINE T == {s \in Seq(Q) : IsInjective(s) /\ e \in Range(s) /\ Late(s, e, S)
                                => Among(s, S \cup {e}) = Append(Among(s, S), e)}
<1>1. <<>> \in T
    BY EmptyRange
<1>2. ASSUME NEW s \in Seq(Q), NEW x \in Q, s \in T PROVE Append(s, x) \in T
    <2> DEFINE longer == Append(s, x)
    <2>1. longer \in Seq(Q)
        BY AppendProperties
    <2>2. \A V : Among(longer, V) = IF x \in V THEN Append(Among(s, V), x) ELSE Among(s, V)
        BY AmongAppend
    <2>3. Range(longer) = Range(s) \cup {x}
        BY RangeAppend
    <2> HIDE DEF longer
    <2> SUFFICES ASSUME IsInjective(longer), e \in Range(longer), Late(longer, e, S)
                 PROVE  Among(longer, S \cup {e}) = Append(Among(longer, S), e)
        BY <2>1 DEF longer
    <2>4. IsInjective(s) /\ x \notin Range(s)
        BY InjectiveAppend DEF longer
    <2>5. Late(s, e, S) /\ (e \in Range(s) => x \notin S)
        BY LateShorter DEF longer
    <2>6. CASE x = e
        <3>1. \A y \in Range(s) : y \in S \cup {e} <=> y \in S
            BY <2>4, <2>6
        <3>2. Among(s, S \cup {e}) = Among(s, S)
            BY <3>1, AmongSame
        <3> QED
            BY <2>2, <2>6, <3>2
    <2>7. CASE x # e
        <3>1. e \in Range(s)
            BY <2>3, <2>7
        <3>2. Among(s, S \cup {e}) = Append(Among(s, S), e)
            BY <1>2, <2>4, <2>5, <3>1
        <3>3. x \notin S /\ x \notin S \cup {e}
            BY <2>5, <2>7, <3>1
        <3> QED
            BY <2>2, <3>2, <3>3
    <2> QED
        BY <2>6, <2>7
<1> HIDE DEF T
<1>3. \A seq \in Seq(Q) : seq \in T
    BY <1>1, <1>2, SeqInduct
<1> QED
    BY <1>3 DEF T

------------------------------------------------------------------------------
(* Flattening a sequence of sequences.                                     *)

Joining(ss, M) ==
    [n \in Nat |-> [x \in Seq(M) |-> IF n + 1 \in 1..Len(ss) THEN x \o ss[n + 1] ELSE x]]

LEMMA JoiningStep ==
    ASSUME NEW M, NEW ss \in Seq(Seq(M))
    PROVE  /\ Joining(ss, M) \in [Nat -> [Seq(M) -> Seq(M)]]
           /\ \A i \in 0..(Len(ss) - 1) : \A x \in Seq(M) :
                  Joining(ss, M)[i][x] = x \o ss[i + 1]
<1>1. Len(ss) \in Nat /\ \A i \in 1..Len(ss) : ss[i] \in Seq(M)
    BY LenProperties, ElementOfSeq
<1>2. \A n \in Nat, x \in Seq(M) : n + 1 \in 1..Len(ss) => x \o ss[n + 1] \in Seq(M)
    BY <1>1, ConcatProperties
<1> QED
    BY <1>1, <1>2 DEF Joining

(* The recursive definition behind FlattenSeq joins the sequences.         *)
LEMMA FlattenFollows ==
    ASSUME NEW M, NEW ss \in Seq(Seq(M))
    PROVE  \E g \in [0..Len(ss) -> Seq(M)] :
               Follows(g, <<>>, Joining(ss, M), Len(ss)) /\ FlattenSeq(ss) = g[Len(ss)]
<1> DEFINE N == Len(ss)
           F == Joining(ss, M)
           Body(f) == [i \in 1..N |-> IF i = 1 THEN ss[i] ELSE f[i - 1] \o ss[i]]
           flatten == CHOOSE f : f = Body(f)
<1>0. N \in Nat /\ DOMAIN ss = 1..N /\ (\A i \in 1..N : ss[i] \in Seq(M)) /\ <<>> \in Seq(M)
    BY LenProperties, ElementOfSeq
<1>1. FlattenSeq(ss) = IF N = 0 THEN ss ELSE flatten[N]
    BY DEF FlattenSeq
<1>2. F \in [Nat -> [Seq(M) -> Seq(M)]]
    BY JoiningStep
<1>3. \A i \in 0..(N - 1) : \A x \in Seq(M) : F[i][x] = x \o ss[i + 1]
    BY JoiningStep
<1>4. \A i \in 1..N : <<>> \o ss[i] = ss[i]
    BY <1>0, ConcatEmptySeq
<1>5. N = 0 => ss = <<>>
    BY EmptySeq
<1> HIDE DEF N, F
<1>6. PICK g \in [0..N -> Seq(M)] : Follows(g, <<>>, F, N)
    BY <1>0, <1>2, FollowsExists
<1>7. CASE N = 0
    <2>1. FlattenSeq(ss) = g[N]
        BY <1>1, <1>5, <1>6, <1>7 DEF Follows
    <2> QED
        BY <1>6, <2>1 DEF N, F
<1>8. CASE N # 0
    <2> DEFINE h == [i \in 1..N |-> g[i]]
    <2>1. h = Body(h)
        <3>1. ASSUME NEW i \in 1..N PROVE g[i] = g[i - 1] \o ss[i]
            <4>1. i - 1 \in 0..(N - 1) /\ (i - 1) + 1 = i /\ i - 1 \in 0..N
                BY <1>0
            <4> QED
                BY <1>3, <1>6, <4>1 DEF Follows
        <3>2. g[0] = <<>>
            BY <1>6 DEF Follows
        <3>3. 1 \in 1..N /\ \A i \in 1..N : i # 1 => i - 1 \in 1..N
            BY <1>0, <1>8
        <3>4. \A i \in 1..N : h[i] = g[i]
            OBVIOUS
        <3> HIDE DEF h
        <3>6. ASSUME NEW i \in 1..N
              PROVE  h[i] = IF i = 1 THEN ss[i] ELSE h[i - 1] \o ss[i]
            <4>1. CASE i = 1
                <5>1. g[1 - 1] = <<>>
                    BY <3>2
                <5> QED
                    BY <1>4, <3>1, <3>4, <4>1, <5>1
            <4>2. CASE i # 1
                BY <3>1, <3>3, <3>4, <4>2
            <4> QED
                BY <4>1, <4>2
        <3>5. h = [i \in 1..N |-> h[i]]
            BY DEF h
        <3> QED
            BY <3>5, <3>6
    <2>2. flatten = Body(flatten)
        <3> HIDE DEF Body
        <3> QED
            BY <2>1
    <2> HIDE DEF flatten
    <2> DEFINE k == [i \in 0..N |-> IF i = 0 THEN <<>> ELSE flatten[i]]
    <2>3. k[0] = <<>>
        BY <1>0
    <2>4. ASSUME NEW i \in 0..(N - 1), k[i] \in Seq(M) PROVE k[i + 1] = F[i][k[i]]
        <3>1. i + 1 \in 1..N /\ i + 1 \in 0..N /\ i \in 0..N /\ (i + 1) - 1 = i /\ i + 1 # 0
            BY <1>0
        <3>2. k[i + 1] = k[i] \o ss[i + 1]
            <4>0. flatten[i + 1] = IF i + 1 = 1 THEN ss[i + 1]
                                                ELSE flatten[(i + 1) - 1] \o ss[i + 1]
                BY <2>2, <3>1
            <4>3. k[i + 1] = flatten[i + 1]
                BY <3>1
            <4>1. CASE i = 0
                <5>1. k[i] = <<>> /\ i + 1 = 1
                    BY <3>1, <4>1
                <5> QED
                    BY <1>4, <3>1, <4>0, <4>3, <5>1
            <4>2. CASE i # 0
                <5>1. k[i] = flatten[i] /\ i + 1 # 1
                    BY <3>1, <4>2
                <5> QED
                    BY <3>1, <4>0, <4>3, <5>1
            <4> QED
                BY <4>1, <4>2
        <3> HIDE DEF k
        <3> QED
            BY <1>3, <2>4, <3>2
    <2>5. k[N] = flatten[N] /\ DOMAIN k = 0..N
        BY <1>0, <1>8
    <2>6. k = [i \in 0..N |-> k[i]]
        OBVIOUS
    <2> HIDE DEF k
    <2>7. Follows(k, <<>>, F, N) /\ \A i \in 0..N : k[i] \in Seq(M)
        BY <1>0, <1>2, <2>3, <2>4, FollowsType
    <2>8. k \in [0..N -> Seq(M)]
        BY <2>6, <2>7
    <2> QED
        BY <1>1, <1>8, <2>5, <2>7, <2>8 DEF N, F
<1> QED
    BY <1>7, <1>8

LEMMA FlattenEmpty == FlattenSeq(<<>>) = <<>>
BY DEF FlattenSeq

LEMMA FlattenAppend ==
    ASSUME NEW M, NEW ss \in Seq(Seq(M)), NEW x \in Seq(M)
    PROVE  /\ FlattenSeq(ss) \in Seq(M)
           /\ FlattenSeq(Append(ss, x)) = FlattenSeq(ss) \o x
<1> DEFINE N == Len(ss)
           longer == Append(ss, x)
           F == Joining(ss, M)
           G == Joining(longer, M)
<1>1. /\ N \in Nat /\ longer \in Seq(Seq(M)) /\ Len(longer) = N + 1 /\ longer[N + 1] = x
      /\ \A i \in 1..N : longer[i] = ss[i]
    BY AppendProperties
<1>2. PICK g \in [0..N -> Seq(M)] : Follows(g, <<>>, F, N) /\ FlattenSeq(ss) = g[N]
    BY FlattenFollows
<1>0. N \in Nat
    OBVIOUS
<1> HIDE DEF longer
<1>3. PICK h \in [0..Len(longer) -> Seq(M)] :
          Follows(h, <<>>, G, Len(longer)) /\ FlattenSeq(longer) = h[Len(longer)]
    BY <1>1, FlattenFollows
<1>4. \A i \in 0..(N - 1) : \A y \in Seq(M) : F[i][y] = y \o ss[i + 1]
    BY JoiningStep
<1>5. \A i \in 0..(Len(longer) - 1) : \A y \in Seq(M) : G[i][y] = y \o longer[i + 1]
    BY <1>1, JoiningStep
<1> HIDE DEF N, F, G
<1>6. ASSUME NEW i \in 0..N PROVE h[i + 1] = h[i] \o longer[i + 1] /\ h[i] \in Seq(M)
    <2>1. i \in 0..(Len(longer) - 1) /\ i \in 0..Len(longer)
        BY <1>1
    <2> QED
        BY <1>3, <1>5, <2>1 DEF Follows
<1>7. Follows(h, <<>>, F, N)
    <2>1. ASSUME NEW i \in 0..(N - 1) PROVE h[i + 1] = F[i][h[i]]
        <3>1. i \in 0..N /\ i + 1 \in 1..N
            BY <1>0
        <3>2. h[i + 1] = h[i] \o longer[i + 1] /\ h[i] \in Seq(M)
            BY <1>6, <3>1
        <3>3. F[i][h[i]] = h[i] \o ss[i + 1]
            BY <1>4, <3>2
        <3>4. longer[i + 1] = ss[i + 1]
            BY <1>1, <3>1
        <3> QED
            BY <3>2, <3>3, <3>4
    <2> QED
        BY <1>3, <2>1 DEF Follows
<1>8. h[N] = g[N]
    <2>1. Follows(h, <<>>, F, N) /\ Follows(g, <<>>, F, N)
        BY <1>2, <1>7
    <2> QED
        BY <1>0, <2>1, FollowsUnique
<1>9. h[N + 1] = h[N] \o x /\ g[N] \in Seq(M)
    <2>1. N \in 0..N
        BY <1>1
    <2> QED
        BY <1>1, <1>2, <1>6, <2>1
<1> QED
    BY <1>1, <1>2, <1>3, <1>8, <1>9 DEF longer, N

------------------------------------------------------------------------------
(* Message lists.                                                          *)

Answers(l) == \A i \in 2..Len(l) : l[i][1] = "assistant" => l[i - 1] = <<"user", l[i][2]>>

(* A list as every conversation should be: no message twice, and an answer *)
(* directly after its question.                                            *)
Tidy(l) == l \in Seq(Messages) /\ IsInjective(l) /\ Answers(l)

LEMMA TidyAppend ==
    ASSUME NEW l, Tidy(l), NEW m \in Messages, m \notin Range(l),
           m[1] = "assistant" /\ l # <<>> => l[Len(l)] = <<"user", m[2]>>
    PROVE  Tidy(Append(l, m))
<1>1. l \in Seq(Messages) /\ IsInjective(l)
    BY DEF Tidy
<1>2. /\ Len(l) \in Nat /\ Append(l, m) \in Seq(Messages) /\ Len(Append(l, m)) = Len(l) + 1
      /\ Append(l, m)[Len(l) + 1] = m /\ \A i \in 1..Len(l) : Append(l, m)[i] = l[i]
    BY <1>1, AppendProperties
<1>3. IsInjective(Append(l, m))
    BY <1>1, InjectiveAppend
<1>4. Answers(Append(l, m))
    <2> DEFINE ll == Append(l, m)
    <2> HIDE DEF ll
    <2> SUFFICES ASSUME NEW i \in 2..(Len(l) + 1), ll[i][1] = "assistant"
                 PROVE  ll[i - 1] = <<"user", ll[i][2]>>
        BY <1>2 DEF Answers, ll
    <2>1. i - 1 \in 1..Len(l) /\ ll[i - 1] = l[i - 1]
        BY <1>2 DEF ll
    <2>2. CASE i = Len(l) + 1
        <3>1. ll[i] = m /\ i - 1 = Len(l)
            BY <1>2, <2>2 DEF ll
        <3>2. l # <<>>
            BY <2>1
        <3> QED
            BY <2>1, <3>1, <3>2
    <2>3. CASE i # Len(l) + 1
        <3>1. i \in 2..Len(l) /\ ll[i] = l[i]
            BY <1>2, <2>3 DEF ll
        <3> QED
            BY <2>1, <3>1 DEF Tidy, Answers
    <2> QED
        BY <2>2, <2>3
<1> QED
    BY <1>2, <1>3, <1>4 DEF Tidy

(* The end of a tidy list is tidy.                                         *)
LEMMA TidySuffix ==
    ASSUME NEW l, Tidy(l), NEW k \in Nat \ {0}
    PROVE  LET end == SubSeq(l, k, Len(l))
           IN  /\ Tidy(end)
               /\ Range(end) \subseteq Range(l)
               /\ k <= Len(l) => end # <<>> /\ end[Len(end)] = l[Len(l)]
<1> DEFINE end == SubSeq(l, k, Len(l))
           N == Len(l)
<1>1. /\ N \in Nat /\ l \in Seq(Messages) /\ DOMAIN l = 1..N /\ \A i \in 1..N : l[i] \in Messages
    BY LenProperties, ElementOfSeq DEF Tidy
<1>2. \A i \in k..N : l[i] \in Messages
    BY <1>1
<1>3. /\ end \in Seq(Messages)
      /\ Len(end) = IF k <= N THEN N - k + 1 ELSE 0
      /\ \A i \in 1..(N - k + 1) : end[i] = l[k + i - 1]
    BY <1>1, <1>2, SubSeqProperties
<1> HIDE DEF end, N
<1>4. DOMAIN end = 1..Len(end) /\ Len(end) \in Nat
    BY <1>3, LenProperties
<1>5. \A i \in 1..Len(end) : k + i - 1 \in 1..N /\ end[i] = l[k + i - 1]
    BY <1>1, <1>3
<1>6. IsInjective(end)
    <2> SUFFICES ASSUME NEW i \in 1..Len(end), NEW j \in 1..Len(end), end[i] = end[j]
                 PROVE  i = j
        BY <1>4 DEF IsInjective
    <2>1. k + i - 1 = k + j - 1
        BY <1>1, <1>5 DEF Tidy, IsInjective
    <2> QED
        BY <1>4, <2>1
<1>7. Answers(end)
    <2> SUFFICES ASSUME NEW i \in 2..Len(end), end[i][1] = "assistant"
                 PROVE  end[i - 1] = <<"user", end[i][2]>>
        BY DEF Answers
    <2>1. /\ i \in 1..Len(end) /\ i - 1 \in 1..Len(end) /\ k + i - 1 \in 2..N
          /\ k + (i - 1) - 1 = (k + i - 1) - 1
        BY <1>1, <1>4, <1>5
    <2>2. end[i] = l[k + i - 1] /\ end[i - 1] = l[(k + i - 1) - 1]
        BY <1>5, <2>1
    <2> QED
        BY <2>1, <2>2 DEF Tidy, Answers, N
<1>8. Range(end) \subseteq Range(l)
    <2>1. Range(end) = {end[i] : i \in 1..Len(end)} /\ Range(l) = {l[i] : i \in 1..N}
        BY <1>1, <1>3, RangeEquality DEF N
    <2> QED
        BY <1>5, <2>1
<1>9. ASSUME k <= N PROVE end # <<>> /\ end[Len(end)] = l[N]
    <2>1. Len(end) = N - k + 1 /\ N - k + 1 \in 1..(N - k + 1) /\ k + (N - k + 1) - 1 = N
        BY <1>1, <1>3, <1>9
    <2> QED
        BY <1>3, <2>1
<1> QED
    BY <1>3, <1>6, <1>7, <1>8, <1>9 DEF Tidy, end, N

(* SessionState.add_message keeps a list tidy and ends it with the message. *)
LEMMA TidyPush ==
    ASSUME NEW l, Tidy(l), NEW m \in Messages, m \notin Range(l),
           m[1] = "assistant" /\ l # <<>> => l[Len(l)] = <<"user", m[2]>>
    PROVE  /\ Tidy(Push(l, m))
           /\ Range(Push(l, m)) \subseteq Range(l) \cup {m}
           /\ Push(l, m) # <<>> /\ Push(l, m)[Len(Push(l, m))] = m
<1> DEFINE all == Append(l, m)
           k == IF Len(all) > Window THEN Len(all) - Window + 1 ELSE 1
<1>1. Tidy(all)
    BY TidyAppend
<1>2. /\ Len(all) \in Nat \ {0} /\ all[Len(all)] = m
      /\ Range(all) = Range(l) \cup {m}
    BY AppendProperties, RangeAppend DEF Tidy
<1> HIDE DEF all
<1>3. k \in Nat \ {0} /\ k <= Len(all)
    BY <1>2, WindowAssumption
<1>4. Push(l, m) = SubSeq(all, k, Len(all))
    BY DEF Push, all
<1> HIDE DEF k
<1>5. /\ Tidy(SubSeq(all, k, Len(all)))
      /\ Range(SubSeq(all, k, Len(all))) \subseteq Range(all)
      /\ SubSeq(all, k, Len(all)) # <<>>
      /\ SubSeq(all, k, Len(all))[Len(SubSeq(all, k, Len(all)))] = all[Len(all)]
    BY <1>1, <1>3, TidySuffix
<1> QED
    BY <1>2, <1>4, <1>5

------------------------------------------------------------------------------
(* Transcripts.                                                            *)

Question(q) == <<"user", q>>
Reply(q)    == <<"assistant", q>>

(* The messages of the given rows, when ex[q] are those of row q.          *)
Turns(ex, qs) == FlattenSeq([i \in 1..Len(qs) |-> ex[qs[i]]])

(* What Exchange may be, now or after a step.                              *)
IsExchange(ex) ==
    /\ ex \in [Queries -> Seq(Messages)]
    /\ \A q \in Queries : ex[q] \in {<<Question(q)>>, <<Question(q), Reply(q)>>}

LEMMA TranscriptTurns ==
    ASSUME NEW qs \in Seq(Queries)
    PROVE  LET ex == [q \in Queries |-> Exchange(q)]
           IN  Transcript(qs) = Turns(ex, qs) /\ IsExchange(ex)
<1> DEFINE ex == [q \in Queries |-> Exchange(q)]
<1>1. \A i \in 1..Len(qs) : ex[qs[i]] = Exchange(qs[i])
    BY ElementOfSeq
<1>2. [i \in 1..Len(qs) |-> ex[qs[i]]] = [i \in 1..Len(qs) |-> Exchange(qs[i])]
    BY <1>1
<1>3. ASSUME NEW q \in Queries
      PROVE  /\ Exchange(q) \in {<<Question(q)>>, <<Question(q), Reply(q)>>}
             /\ Exchange(q) \in Seq(Messages)
    <2>1. Question(q) \in Messages /\ Reply(q) \in Messages
        BY DEF Question, Reply, Messages, Roles
    <2> QED
        BY <2>1 DEF Exchange, Question, Reply
<1> QED
    BY <1>2, <1>3 DEF Transcript, Turns, IsExchange

LEMMA TurnsEmpty == \A ex : Turns(ex, <<>>) = <<>>
<1> SUFFICES ASSUME NEW ex PROVE Turns(ex, <<>>) = <<>>
    OBVIOUS
<1>1. [i \in 1..Len(<<>>) |-> ex[<<>>[i]]] = <<>>
    OBVIOUS
<1> QED
    BY <1>1, FlattenEmpty DEF Turns

LEMMA TurnsAppend ==
    ASSUME NEW ex, IsExchange(ex), NEW qs \in Seq(Queries), NEW q \in Queries
    PROVE  /\ Turns(ex, qs) \in Seq(Messages)
           /\ Turns(ex, Append(qs, q)) = Turns(ex, qs) \o ex[q]
<1> DEFINE ss == [i \in 1..Len(qs) |-> ex[qs[i]]]
           longer == [i \in 1..Len(Append(qs, q)) |-> ex[Append(qs, q)[i]]]
<1>1. /\ Len(qs) \in Nat /\ Len(Append(qs, q)) = Len(qs) + 1
      /\ Append(qs, q)[Len(qs) + 1] = q /\ \A i \in 1..Len(qs) : Append(qs, q)[i] = qs[i]
    BY AppendProperties
<1>2. \A i \in 1..Len(qs) : ex[qs[i]] \in Seq(Messages)
    BY ElementOfSeq DEF IsExchange
<1>3. ss \in Seq(Seq(Messages)) /\ Len(ss) = Len(qs)
    BY <1>1, <1>2
<1>4. ex[q] \in Seq(Messages)
    BY DEF IsExchange
<1>5. longer = Append(ss, ex[q])
    <2>1. /\ Append(ss, ex[q]) \in Seq(Seq(Messages))
          /\ Len(Append(ss, ex[q])) = Len(qs) + 1
          /\ Append(ss, ex[q])[Len(qs) + 1] = ex[q]
          /\ \A i \in 1..Len(qs) : Append(ss, ex[q])[i] = ss[i]
        <3> HIDE DEF ss
        <3> QED
            BY <1>3, <1>4, AppendProperties
    <2>2. Append(ss, ex[q]) \in [1..(Len(qs) + 1) -> Seq(Messages)]
        <3> HIDE DEF ss
        <3> QED
            BY <2>1, LenProperties
    <2>3. \A i \in 1..(Len(qs) + 1) : longer[i] = Append(ss, ex[q])[i]
        BY <1>1, <2>1
    <2>4. DOMAIN longer = 1..(Len(qs) + 1)
        BY <1>1
    <2> QED
        BY <2>2, <2>3, <2>4
<1> HIDE DEF ss, longer
<1>6. FlattenSeq(ss) \in Seq(Messages) /\ FlattenSeq(Append(ss, ex[q])) = FlattenSeq(ss) \o ex[q]
    BY <1>3, <1>4, FlattenAppend
<1> QED
    BY <1>5, <1>6 DEF Turns, ss, longer

LEMMA ConcatPair ==
    ASSUME NEW M, NEW s \in Seq(M), NEW a \in M, NEW b \in M
    PROVE  /\ s \o <<a>> = Append(s, a)
           /\ s \o <<a, b>> = Append(Append(s, a), b)
<1>1. s \o <<a>> = Append(s, a)
    BY AppendIsConcat
<1>2. Append(Append(s, a), b) = (s \o <<a>>) \o <<b>>
    <2>1. Append(s, a) \in Seq(M)
        BY AppendProperties
    <2>2. Append(Append(s, a), b) = Append(s, a) \o <<b>>
        BY <2>1, AppendIsConcat
    <2> QED
        BY <1>1, <2>2
<1>3. (s \o <<a>>) \o <<b>> = s \o (<<a>> \o <<b>>)
    BY ConcatAssociative
<1>4. <<a>> \o <<b>> = <<a, b>>
    <2>1. <<a>> \in Seq(M) /\ Append(<<a>>, b) = <<a>> \o <<b>>
        BY AppendIsConcat
    <2>2. Append(<<a>>, b) = <<a, b>>
        <3>1. <<a, b>> \in Seq(M) /\ Len(<<a, b>>) = 2 /\ <<a, b>>[1] = a /\ <<a, b>>[2] = b
            OBVIOUS
        <3>2. /\ Append(<<a>>, b) \in Seq(M) /\ Len(Append(<<a>>, b)) = 2
              /\ Append(<<a>>, b)[1] = a /\ Append(<<a>>, b)[2] = b
            <4>1. Len(<<a>>) = 1 /\ <<a>>[1] = a
                OBVIOUS
            <4> QED
                BY <2>1, <4>1, AppendProperties
        <3>3. \A i \in 1..2 : Append(<<a>>, b)[i] = <<a, b>>[i]
            <4>1. \A i \in 1..2 : i = 1 \/ i = 2
                OBVIOUS
            <4> QED
                BY <3>1, <3>2, <4>1
        <3> QED
            BY <3>1, <3>2, <3>3, SeqEqual
    <2> QED
        BY <2>1, <2>2
<1> QED
    BY <1>1, <1>2, <1>3, <1>4

(* The transcript of different rows is tidy, and of these rows only.       *)
LEMMA TurnsTidy ==
    ASSUME NEW ex, IsExchange(ex)
    PROVE  \A qs \in Seq(Queries) : IsInjective(qs) =>
               Tidy(Turns(ex, qs)) /\ \A m \in Range(Turns(ex, qs)) : m[2] \in Range(qs)
<1> DEFINE T == {qs \in Seq(Queries) : IsInjective(qs) =>
               Tidy(Turns(ex, qs)) /\ \A m \in Range(Turns(ex, qs)) : m[2] \in Range(qs)}
<1>1. <<>> \in T
    <2>1. Tidy(<<>>)
        BY DEF Tidy, IsInjective, Answers
    <2> QED
        BY <2>1, TurnsEmpty, EmptyRange
<1>2. ASSUME NEW qs \in Seq(Queries), NEW q \in Queries, qs \in T PROVE Append(qs, q) \in T
    <2> DEFINE l == Turns(ex, qs)
               new == Append(l, Question(q))
    <2>1. Append(qs, q) \in Seq(Queries) /\ Range(Append(qs, q)) = Range(qs) \cup {q}
        BY AppendProperties, RangeAppend
    <2> SUFFICES ASSUME IsInjective(Append(qs, q))
                 PROVE  /\ Tidy(Turns(ex, Append(qs, q)))
                        /\ \A m \in Range(Turns(ex, Append(qs, q))) : m[2] \in Range(Append(qs, q))
        BY <2>1
    <2>2. IsInjective(qs) /\ q \notin Range(qs)
        BY InjectiveAppend
    <2>3. Tidy(l) /\ \A m \in Range(l) : m[2] \in Range(qs)
        BY <1>2, <2>2
    <2>4. /\ Question(q) \in Messages /\ Reply(q) \in Messages /\ Question(q)[2] = q
          /\ Reply(q)[2] = q /\ Question(q)[1] = "user" /\ Reply(q)[1] = "assistant"
          /\ Question(q) # Reply(q)
        BY DEF Question, Reply, Messages, Roles
    <2>5. Turns(ex, Append(qs, q)) = l \o ex[q] /\ l \in Seq(Messages)
        BY TurnsAppend
    <2> HIDE DEF l, new
    <2>6. Tidy(new)
        BY <2>2, <2>3, <2>4, TidyAppend DEF new
    <2>7. Range(new) = Range(l) \cup {Question(q)} /\ new # <<>> /\ new[Len(new)] = Question(q)
          /\ new \in Seq(Messages)
        BY <2>4, <2>5, RangeAppend, AppendProperties DEF new
    <2>8. CASE ex[q] = <<Question(q)>>
        <3>1. Turns(ex, Append(qs, q)) = new
            BY <2>4, <2>5, <2>8, ConcatPair DEF new
        <3> QED
            BY <2>1, <2>3, <2>4, <2>6, <2>7, <3>1
    <2>9. CASE ex[q] = <<Question(q), Reply(q)>>
        <3>1. Turns(ex, Append(qs, q)) = Append(new, Reply(q))
            BY <2>4, <2>5, <2>9, ConcatPair DEF new
        <3>2. Reply(q) \notin Range(new)
            BY <2>2, <2>3, <2>4, <2>7
        <3>3. Tidy(Append(new, Reply(q)))
            BY <2>4, <2>6, <2>7, <3>2, TidyAppend DEF Question
        <3>4. Range(Append(new, Reply(q))) = Range(new) \cup {Reply(q)}
            BY <2>4, <2>7, RangeAppend
        <3> QED
            BY <2>1, <2>3, <2>4, <2>7, <3>1, <3>3, <3>4
    <2> QED
        BY <2>8, <2>9 DEF IsExchange
<1> HIDE DEF T
<1>3. \A qs \in Seq(Queries) : qs \in T
    BY <1>1, <1>2, SeqInduct
<1> QED
    BY <1>3 DEF T

------------------------------------------------------------------------------
(* The inductive invariant.                                                *)

Asked    == {"generate", "saveAnswer", "commit", "metrics", "done", "aborted"}
Answered == {"commit", "metrics", "done", "aborted"}
Admitted == {"saveUser", "generate", "saveAnswer", "commit", "metrics"}

(* The query of the message targets session s, as its owner, and has come  *)
(* far enough to have said it; tgt and steps stand for target and pc.      *)
SaidIn(m, s, tgt, steps) ==
    LET q == m[2] IN
    /\ tgt[q] = s
    /\ s \in Sessions
    /\ Caller[q] = Owner[s]
    /\ steps[q] \in IF m[1] = "user" THEN Asked ELSE Answered

ListOf(l, s, tgt, steps) == Tidy(l) /\ \A m \in Range(l) : SaidIn(m, s, tgt, steps)

(* Every list in Redis or in memory is a tidy one of its session.          *)
ListsInv ==
    /\ \A s \in Sessions : hot[s] # NotCached => ListOf(hot[s], s, target, pc)
    /\ \A r \in Requests : ListOf(mem[r], target[r], target, pc)

(* Between its question and its answer a query's list ends with the        *)
(* question, and it has none before it read one.                           *)
QuestionLast ==
    /\ \A q \in Queries : pc[q] \in {"generate", "saveAnswer"} =>
           mem[q] # <<>> /\ mem[q][Len(mem[q])] = Question(q)
    /\ \A r \in Requests : pc[r] \in {"new", "cold"} => mem[r] = <<>>

BeganInv ==
    /\ IsInjective(began)
    /\ \A q \in Range(began) : pc[q] \notin {"new", "cold"}

(* Only an answered query of the owner has a row, and one that reports its *)
(* success does.                                                           *)
RowsInv ==
    /\ \A q \in Queries : pc[q] \in Admitted => Caller[q] = Owner[target[q]]
    /\ \A q \in rows : /\ pc[q] \in {"metrics", "done", "aborted"}
                       /\ target[q] \in Sessions
                       /\ Caller[q] = Owner[target[q]]
    /\ \A q \in Queries : pc[q] \in {"metrics", "done"} => q \in rows

SessionInv == TypeOK /\ ListsInv /\ QuestionLast /\ BeganInv /\ RowsInv

LEMMA SessionInit == Init => SessionInv
<1> SUFFICES ASSUME Init PROVE SessionInv
    OBVIOUS
<1>1. Range(<<>>) = {} /\ Tidy(<<>>) /\ IsInjective(<<>>)
    BY EmptyRange DEF Tidy, IsInjective, Answers
<1>2. TypeOK
    BY DEF Init, TypeOK, Requests, Resting, Steps
<1>3. ListsInv
    BY <1>1 DEF Init, ListsInv, ListOf
<1>4. QuestionLast
    BY DEF Init, QuestionLast, Requests
<1>5. BeganInv /\ RowsInv
    BY <1>1 DEF Init, BeganInv, RowsInv, Requests, Admitted
<1> QED
    BY <1>2, <1>3, <1>4, <1>5 DEF SessionInv

(* One request at most goes on, and keeps its session once it has one.     *)
PcStep(r, from, to) ==
    /\ pc[r] = from
    /\ pc' = [pc EXCEPT ![r] = to]
    /\ from # "new" => target' = target
    /\ from = "new" => \E s \in Sessions : target' = [target EXCEPT ![r] = s]

Moves ==
    { <<"new", "cold">>, <<"new", "check">>, <<"cold", "error">>, <<"cold", "warm">>,
      <<"warm", "check">>, <<"check", "saveUser">>, <<"check", "error">>,
      <<"saveUser", "generate">>, <<"generate", "saveAnswer">>, <<"saveAnswer", "commit">>,
      <<"commit", "metrics">>, <<"metrics", "done">>, <<"check", "delete">>,
      <<"delete", "update">>, <<"update", "done">> }

LEMMA OneMoves ==
    ASSUME TypeOK, [Next]_vars
    PROVE  \/ UNCHANGED <<pc, target>>
           \/ \E r \in Requests :
                 \/ \E move \in Moves : PcStep(r, move[1], move[2])
                 \/ pc[r] \notin Resting /\ PcStep(r, pc[r], "aborted")
<1> DEFINE Goal == \/ UNCHANGED <<pc, target>>
                   \/ \E r \in Requests :
                         \/ \E move \in Moves : PcStep(r, move[1], move[2])
                         \/ pc[r] \notin Resting /\ PcStep(r, pc[r], "aborted")
<1>1. ASSUME NEW r \in Requests, NEW move \in Moves, PcStep(r, move[1], move[2]) PROVE Goal
    BY <1>1
<1>2. ASSUME UNCHANGED <<pc, target>> PROVE Goal
    BY <1>2
<1>3. ASSUME NEW r \in Requests, Abort(r) PROVE Goal
    BY <1>3 DEF Abort, Goto, PcStep, Resting
<1> HIDE DEF Goal
<1>4. ASSUME NEW r \in Requests, NEW a, NEW b, <<a, b>> \in Moves, pc[r] = a, a # "new",
             Goto(r, b), target' = target
      PROVE  Goal
    <2>1. PcStep(r, a, b)
        BY <1>4 DEF PcStep, Goto
    <2> QED
        BY <1>1, <1>4, <2>1
<1>5. ASSUME NEW r \in Requests, LoadFromDb(r) \/ WarmCache(r) PROVE Goal
    BY <1>4, <1>5 DEF LoadFromDb, WarmCache, Moves
<1>6. ASSUME NEW r \in Requests, NEW s \in Sessions, GetHot(r, s) PROVE Goal
    <2>1. ASSUME NEW b \in {"cold", "check"}, Goto(r, b) PROVE Goal
        <3>1. PcStep(r, "new", b)
            BY <1>6, <2>1 DEF GetHot, PcStep, Goto
        <3>2. <<"new", b>> \in Moves
            BY DEF Moves
        <3> QED
            BY <1>1, <3>1, <3>2
    <2> QED
        BY <1>6, <2>1 DEF GetHot
<1>7. ASSUME NEW q \in Queries, QueryStep(q) PROVE Goal
    <2>1. q \in Requests
        BY DEF Requests
    <2>2. CheckQuery(q) => Goal
        BY <1>4, <2>1 DEF CheckQuery, Moves
    <2>3. SaveUserMessage(q) \/ Generate(q) \/ SaveAnswer(q) \/ CommitRow(q) \/ FinishQuery(q)
          => Goal
        BY <1>4, <2>1 DEF SaveUserMessage, Generate, SaveAnswer, CommitRow, FinishQuery, Moves
    <2> QED
        BY <1>5, <1>7, <2>1, <2>2, <2>3 DEF QueryStep
<1>8. ASSUME NEW c \in Closers, CloseStep(c) PROVE Goal
    <2>1. c \in Requests
        BY DEF Requests
    <2>2. CheckClose(c) \/ DeleteHot(c) \/ MarkClosed(c) => Goal
        BY <1>4, <2>1 DEF CheckClose, DeleteHot, MarkClosed, Moves
    <2> QED
        BY <1>5, <1>8, <2>1, <2>2 DEF CloseStep
<1>9. ASSUME NEW s \in Sessions, CreateSession(s) \/ Expire(s) PROVE Goal
    BY <1>2, <1>9 DEF CreateSession, Expire
<1>10. Goal
    BY <1>2, <1>3, <1>6, <1>7, <1>8, <1>9 DEF Next, vars
<1> QED
    BY <1>10 DEF Goal

(* What was said stays said.                                               *)
LEMMA ListStays ==
    ASSUME TypeOK, [Next]_vars, NEW l, NEW s, ListOf(l, s, target, pc)
    PROVE  ListOf(l, s, target', pc')
<1> SUFFICES ASSUME NEW m \in Range(l) PROVE SaidIn(m, s, target', pc')
    BY DEF ListOf
<1>1. SaidIn(m, s, target, pc)
    BY DEF ListOf
<1>2. l \in Seq(Messages)
    BY DEF ListOf, Tidy
<1>3. m \in Messages
    BY <1>2, RangeOfSeq
<1>4. m[2] \in Requests
    BY <1>3 DEF Messages, Requests
<1>5. CASE UNCHANGED <<pc, target>>
    BY <1>1, <1>5
<1>6. ASSUME NEW r \in Requests, NEW move \in Moves, PcStep(r, move[1], move[2])
      PROVE  SaidIn(m, s, target', pc')
    <2>1. CASE r = m[2]
        <3>1. /\ move[1] \in Asked => move[2] \in Asked /\ move[1] # "new"
              /\ move[1] \in Answered => move[2] \in Answered /\ move[1] # "new"
            BY DEF Moves, Asked, Answered
        <3>2. pc[r] = move[1] /\ pc'[r] = move[2] /\ (move[1] # "new" => target' = target)
            BY <1>6 DEF PcStep, TypeOK
        <3> QED
            BY <1>1, <2>1, <3>1, <3>2 DEF SaidIn
    <2>2. CASE r # m[2]
        <3>1. pc'[m[2]] = pc[m[2]] /\ target'[m[2]] = target[m[2]]
            BY <1>4, <1>6, <2>2 DEF PcStep, TypeOK
        <3> QED
            BY <1>1, <3>1 DEF SaidIn
    <2> QED
        BY <2>1, <2>2
<1>7. ASSUME NEW r \in Requests, pc[r] \notin Resting, PcStep(r, pc[r], "aborted")
      PROVE  SaidIn(m, s, target', pc')
    <2>1. CASE r = m[2]
        BY <1>1, <1>4, <1>7, <2>1 DEF PcStep, Resting, SaidIn, Asked, Answered, TypeOK
    <2>2. CASE r # m[2]
        <3>1. pc'[m[2]] = pc[m[2]] /\ target'[m[2]] = target[m[2]]
            BY <1>4, <1>7, <2>2 DEF PcStep, TypeOK
        <3> QED
            BY <1>1, <3>1 DEF SaidIn
    <2> QED
        BY <2>1, <2>2
<1> QED
    BY <1>5, <1>6, <1>7, OneMoves

(* A prefix of a sequence without repetition.                              *)
LEMMA Prefix ==
    ASSUME NEW Q, NEW seq \in Seq(Q), IsInjective(seq), NEW n \in Nat, n <= Len(seq)
    PROVE  /\ SubSeq(seq, 1, n) \in Seq(Q) /\ IsInjective(SubSeq(seq, 1, n))
           /\ Range(SubSeq(seq, 1, n)) \subseteq Range(seq)
<1> DEFINE part == SubSeq(seq, 1, n)
<1>1. /\ Len(seq) \in Nat /\ DOMAIN seq = 1..Len(seq) /\ \A i \in 1..Len(seq) : seq[i] \in Q
    BY LenProperties, ElementOfSeq
<1>2. \A i \in 1..n : i \in 1..Len(seq) /\ seq[i] \in Q
    BY <1>1
<1>3. /\ part \in Seq(Q) /\ Len(part) = n
      /\ \A i \in 1..n : part[i] = seq[i]
    <2>1. /\ part \in Seq(Q)
          /\ Len(part) = IF 1 <= n THEN n - 1 + 1 ELSE 0
          /\ \A i \in 1..(n - 1 + 1) : part[i] = seq[1 + i - 1]
        BY <1>2, SubSeqProperties
    <2> HIDE DEF part
    <2>2. ASSUME NEW i \in 1..n PROVE part[i] = seq[i]
        <3>1. i \in 1..(n - 1 + 1) /\ 1 + i - 1 = i
            OBVIOUS
        <3> QED
            BY <2>1, <3>1
    <2> QED
        BY <2>1, <2>2
<1> HIDE DEF part
<1>4. DOMAIN part = 1..n
    BY <1>3, LenProperties
<1>5. IsInjective(part)
    BY <1>1, <1>2, <1>3, <1>4 DEF IsInjective
<1>6. Range(part) \subseteq Range(seq)
    <2>1. Range(part) = {part[i] : i \in 1..n} /\ Range(seq) = {seq[i] : i \in 1..Len(seq)}
        BY <1>3, RangeEquality
    <2> QED
        BY <1>2, <1>3, <2>1
<1> QED
    BY <1>3, <1>5, <1>6 DEF part

(* The rows of a session, in order and once each.                          *)
LEMMA RowsOfSession ==
    ASSUME TypeOK, BeganInv, NEW s
    PROVE  /\ RowsOf(s) \in Seq(Queries) /\ IsInjective(RowsOf(s))
           /\ Range(RowsOf(s)) = {q \in Range(began) : q \in rows /\ target[q] = s}
<1> DEFINE own == {q \in rows : target[q] = s}
<1>1. began \in Seq(Queries) /\ IsInjective(began)
    BY DEF TypeOK, BeganInv
<1>2. RowsOf(s) = Among(began, own)
    BY DEF RowsOf
<1>3. Among(began, own) \in Seq(Queries) /\ Range(Among(began, own)) = Range(began) \cap own
    BY <1>1, AmongRange
<1>4. IsInjective(Among(began, own))
    BY <1>1, AmongInjective
<1> QED
    BY <1>2, <1>3, <1>4

(* The rows that _load_from_db reads.                                      *)
LEMMA ColdHistoryIs ==
    ASSUME TypeOK, BeganInv, NEW s
    PROVE  \E n \in Nat : /\ n <= Len(RowsOf(s))
                          /\ n = IF Len(RowsOf(s)) > Window THEN Window ELSE Len(RowsOf(s))
                          /\ ColdHistory(s) = Transcript(SubSeq(RowsOf(s), 1, n))
<1>1. Len(RowsOf(s)) \in Nat
    BY RowsOfSession, LenProperties
<1> QED
    BY <1>1, WindowAssumption DEF ColdHistory

LEMMA ColdHistoryList ==
    ASSUME TypeOK, BeganInv, RowsInv, NEW s \in Sessions
    PROVE  ListOf(ColdHistory(s), s, target, pc)
<1>1. PICK n \in Nat : n <= Len(RowsOf(s))
                       /\ ColdHistory(s) = Transcript(SubSeq(RowsOf(s), 1, n))
    BY ColdHistoryIs
<1> DEFINE loaded == SubSeq(RowsOf(s), 1, n)
<1>2. /\ loaded \in Seq(Queries) /\ IsInjective(loaded)
      /\ Range(loaded) \subseteq {q \in rows : target[q] = s}
    BY <1>1, RowsOfSession, Prefix
<1> HIDE DEF loaded
<1>3. PICK ex : Transcript(loaded) = Turns(ex, loaded) /\ IsExchange(ex)
    BY <1>2, TranscriptTurns
<1>4. /\ Tidy(Transcript(loaded))
      /\ \A m \in Range(Transcript(loaded)) : m[2] \in Range(loaded)
    BY <1>2, <1>3, TurnsTidy
<1>5. \A q \in Range(loaded) : /\ target[q] = s /\ Caller[q] = Owner[s]
                               /\ pc[q] \in Asked /\ pc[q] \in Answered
    BY <1>2 DEF RowsInv, Asked, Answered
<1> QED
    BY <1>1, <1>4, <1>5 DEF ListOf, SaidIn, loaded

(* Saving a message keeps the list one of its session.                     *)
LEMMA SaveList ==
    ASSUME SessionInv, [Next]_vars, NEW q \in Queries, NEW m,
           \/ m = Question(q) /\ pc[q] = "saveUser" /\ pc'[q] = "generate"
           \/ m = Reply(q) /\ pc[q] = "saveAnswer" /\ pc'[q] = "commit",
           target' = target
    PROVE  /\ ListOf(Push(mem[q], m), target[q], target', pc')
           /\ Push(mem[q], m) # <<>> /\ Push(mem[q], m)[Len(Push(mem[q], m))] = m
<1> DEFINE l == mem[q]
<1>0. q \in Requests /\ TypeOK
    BY DEF Requests, SessionInv
<1>1. ListOf(l, target[q], target, pc)
    BY <1>0 DEF SessionInv, ListsInv
<1>2. m \in Messages /\ m[2] = q
    BY DEF Question, Reply, Messages, Roles
<1>3. target[q] \in Sessions /\ Caller[q] = Owner[target[q]]
    BY <1>0 DEF SessionInv, TypeOK, RowsInv, Admitted, Resting
<1>4. m \notin Range(l)
    BY <1>1 DEF ListOf, SaidIn, Question, Reply, Asked, Answered
<1>5. m[1] = "assistant" /\ l # <<>> => l[Len(l)] = <<"user", m[2]>>
    BY <1>2 DEF SessionInv, QuestionLast, Question, Reply
<1>6. /\ Tidy(Push(l, m)) /\ Range(Push(l, m)) \subseteq Range(l) \cup {m}
      /\ Push(l, m) # <<>> /\ Push(l, m)[Len(Push(l, m))] = m
    BY <1>1, <1>2, <1>4, <1>5, TidyPush DEF ListOf
<1>7. ListOf(l, target[q], target', pc')
    BY <1>0, <1>1, ListStays
<1>8. SaidIn(m, target[q], target', pc')
    BY <1>2, <1>3 DEF SaidIn, Question, Reply, Asked, Answered
<1> QED
    BY <1>6, <1>7, <1>8 DEF ListOf

(* The lists after a step: those from before, and new ones that are fine.  *)
LEMMA ListsFrom ==
    ASSUME SessionInv, [Next]_vars,
           \A s \in Sessions : hot'[s] \in {hot[s], NotCached} \/ ListOf(hot'[s], s, target', pc'),
           \A r \in Requests : \/ mem'[r] = mem[r] /\ target'[r] = target[r]
                               \/ ListOf(mem'[r], target'[r], target', pc')
    PROVE  ListsInv'
<1>1. \A l, s : ListOf(l, s, target, pc) => ListOf(l, s, target', pc')
    BY ListStays DEF SessionInv
<1>2. ASSUME NEW s \in Sessions, hot'[s] # NotCached PROVE ListOf(hot'[s], s, target', pc')
    BY <1>1, <1>2 DEF SessionInv, ListsInv
<1>3. ASSUME NEW r \in Requests PROVE ListOf(mem'[r], target'[r], target', pc')
    BY <1>1, <1>3 DEF SessionInv, ListsInv
<1> QED
    BY <1>2, <1>3 DEF ListsInv

LEMMA ListsStep ==
    ASSUME SessionInv, [Next]_vars
    PROVE  ListsInv'
<1>0. TypeOK /\ BeganInv /\ RowsInv /\ ListsInv /\ QuestionLast
    BY DEF SessionInv
<1>1. \A l, s : ListOf(l, s, target, pc) => ListOf(l, s, target', pc')
    BY <1>0, ListStays
<1>2. \A s : ListOf(<<>>, s, target', pc')
    BY EmptyRange DEF ListOf, Tidy, IsInjective, Answers
<1>3. ASSUME UNCHANGED <<mem, target>>,
             \A s \in Sessions : hot'[s] \in {hot[s], NotCached, <<>>}
      PROVE  ListsInv'
    BY <1>2, <1>3, ListsFrom
<1>4. ASSUME NEW s \in Sessions, CreateSession(s) \/ Expire(s) PROVE ListsInv'
    <2>1. \A t \in Sessions : hot'[t] \in {hot[t], NotCached, <<>>}
        BY <1>0, <1>4 DEF CreateSession, Expire, TypeOK
    <2> QED
        BY <1>3, <1>4, <2>1 DEF CreateSession, Expire
<1>5. ASSUME NEW r \in Requests, NEW s \in Sessions, GetHot(r, s) PROVE ListsInv'
    <2>1. pc[r] = "new" /\ hot' = hot /\ target'[r] = s
        BY <1>0, <1>5 DEF GetHot, TypeOK
    <2>2. \A p \in Requests : p # r => target'[p] = target[p]
        BY <1>0, <1>5 DEF GetHot, TypeOK
    <2>3. CASE hot[s] = NotCached
        <3>1. mem' = mem /\ mem[r] = <<>>
            BY <1>0, <1>5, <2>1, <2>3 DEF GetHot, QuestionLast
        <3> QED
            BY <1>2, <2>1, <2>2, <3>1, ListsFrom
    <2>4. CASE hot[s] # NotCached
        <3>1. mem'[r] = hot[s] /\ \A p \in Requests : p # r => mem'[p] = mem[p]
            BY <1>0, <1>5, <2>4 DEF GetHot, TypeOK
        <3>2. ListOf(hot[s], s, target', pc')
            BY <1>0, <1>1, <2>4 DEF ListsInv
        <3> QED
            BY <2>1, <2>2, <3>1, <3>2, ListsFrom
    <2> QED
        BY <2>3, <2>4
<1>6. ASSUME NEW r \in Requests, LoadFromDb(r) PROVE ListsInv'
    <2>1. target' = target /\ hot' = hot /\ target[r] \in Sessions
        BY <1>0, <1>6 DEF LoadFromDb, TypeOK, Resting
    <2>2. ListOf(ColdHistory(target[r]), target[r], target', pc')
        BY <1>0, <1>1, <2>1, ColdHistoryList
    <2>3. /\ mem'[r] \in {mem[r], ColdHistory(target[r])}
          /\ \A p \in Requests : p # r => mem'[p] = mem[p]
        BY <1>0, <1>6 DEF LoadFromDb, TypeOK
    <2> QED
        BY <2>1, <2>2, <2>3, ListsFrom
<1>7. ASSUME NEW r \in Requests, WarmCache(r) PROVE ListsInv'
    <2>1. target' = target /\ mem' = mem /\ target[r] \in Sessions
        BY <1>0, <1>7 DEF WarmCache, TypeOK, Resting
    <2>2. ListOf(mem[r], target[r], target', pc')
        BY <1>0, <1>1 DEF ListsInv
    <2>3. \A s \in Sessions : hot'[s] = IF s = target[r] THEN mem[r] ELSE hot[s]
        BY <1>0, <1>7, <2>1 DEF WarmCache, TypeOK
    <2> QED
        BY <2>1, <2>2, <2>3, ListsFrom
<1>8. ASSUME NEW q \in Queries, SaveUserMessage(q) \/ SaveAnswer(q) PROVE ListsInv'
    <2>1. q \in Requests
        BY DEF Requests
    <2>2. PICK m : /\ Save(q, m)
                   /\ \/ m = Question(q) /\ pc[q] = "saveUser" /\ pc'[q] = "generate"
                      \/ m = Reply(q) /\ pc[q] = "saveAnswer" /\ pc'[q] = "commit"
                   /\ target' = target
        BY <1>0, <1>8, <2>1 DEF SaveUserMessage, SaveAnswer, Goto, Question, Reply, TypeOK
    <2>3. ListOf(Push(mem[q], m), target[q], target', pc')
        BY <2>2, SaveList
    <2>4. target[q] \in Sessions
        BY <1>0, <2>1, <2>2 DEF TypeOK, Resting
    <2>5. \A s \in Sessions : hot'[s] = IF s = target[q] THEN Push(mem[q], m) ELSE hot[s]
        BY <1>0, <2>2, <2>4 DEF Save, TypeOK
    <2>6. \A r \in Requests : mem'[r] = IF r = q THEN Push(mem[q], m) ELSE mem[r]
        BY <1>0, <2>1, <2>2 DEF Save, TypeOK
    <2> QED
        BY <2>2, <2>3, <2>5, <2>6, ListsFrom
<1>9. ASSUME NEW c \in Closers, CloseStep(c) PROVE ListsInv'
    <2>1. c \in Requests
        BY DEF Requests
    <2>2. ASSUME DeleteHot(c) PROVE ListsInv'
        <3>1. \A s \in Sessions : hot'[s] \in {hot[s], NotCached, <<>>}
            BY <1>0, <2>2 DEF DeleteHot, TypeOK
        <3> QED
            BY <1>3, <2>2, <3>1 DEF DeleteHot
    <2>3. ASSUME CheckClose(c) \/ MarkClosed(c) PROVE ListsInv'
        BY <1>3, <2>3 DEF CheckClose, MarkClosed
    <2> QED
        BY <1>6, <1>7, <1>9, <2>1, <2>2, <2>3 DEF CloseStep
<1>10. ASSUME NEW q \in Queries, QueryStep(q) PROVE ListsInv'
    <2>1. q \in Requests
        BY DEF Requests
    <2>2. ASSUME CheckQuery(q) \/ Generate(q) \/ CommitRow(q) \/ FinishQuery(q) PROVE ListsInv'
        BY <1>3, <2>2 DEF CheckQuery, Generate, CommitRow, FinishQuery
    <2> QED
        BY <1>6, <1>7, <1>8, <1>10, <2>1, <2>2 DEF QueryStep
<1>11. ASSUME NEW r \in Requests, Abort(r) PROVE ListsInv'
    BY <1>3, <1>11 DEF Abort
<1>12. ASSUME UNCHANGED vars PROVE ListsInv'
    BY <1>3, <1>12 DEF vars
<1> QED
    BY <1>4, <1>5, <1>9, <1>10, <1>11, <1>12 DEF Next

(* The types of the variables but hot and mem, whose lists ListsInv types. *)
LEMMA TypeStep ==
    ASSUME SessionInv, [Next]_vars
    PROVE  TypeOK'
<1> DEFINE Cells == /\ hot' = [s \in Sessions |-> hot'[s]]
                    /\ mem' = [r \in Requests |-> mem'[r]]
           Others == /\ sess' \in [Sessions -> {"absent", "active", "closed"}]
                     /\ rows' \subseteq Queries
                     /\ began' \in Seq(Queries)
                     /\ answer' \in [Queries -> AllOutcomes \cup {"none"}]
                     /\ aborts' \in Nat /\ expiries' \in Nat
           Goal == Cells /\ Others
<1>0. TypeOK
    BY DEF SessionInv
<1>1. ASSUME UNCHANGED hot PROVE hot' = [s \in Sessions |-> hot'[s]]
    BY <1>0, <1>1 DEF TypeOK
<1>2. ASSUME UNCHANGED mem PROVE mem' = [r \in Requests |-> mem'[r]]
    BY <1>0, <1>2 DEF TypeOK
<1>3. ASSUME NEW t, NEW v, hot' = [hot EXCEPT ![t] = v] PROVE hot' = [s \in Sessions |-> hot'[s]]
    BY <1>0, <1>3 DEF TypeOK
<1>4. ASSUME NEW p, NEW v, mem' = [mem EXCEPT ![p] = v] PROVE mem' = [r \in Requests |-> mem'[r]]
    BY <1>0, <1>4 DEF TypeOK
<1>5. ASSUME UNCHANGED <<sess, rows, began, answer, limits>> PROVE Others
    BY <1>0, <1>5 DEF TypeOK, limits
<1>6. ASSUME NEW r \in Requests, LoadFromDb(r) \/ WarmCache(r) PROVE Goal
    <2>1. Cells
        BY <1>1, <1>2, <1>3, <1>4, <1>6 DEF LoadFromDb, WarmCache
    <2>2. began' \in Seq(Queries)
        <3>1. began' = began \/ (r \in Queries /\ began' = Append(began, r))
            BY <1>6 DEF LoadFromDb, WarmCache, dbVars
        <3>2. began \in Seq(Queries)
            BY <1>0 DEF TypeOK
        <3> QED
            BY <3>1, <3>2, AppendProperties
    <2>3. Others
        BY <1>0, <1>6, <2>2 DEF LoadFromDb, WarmCache, TypeOK, dbVars, limits
    <2> QED
        BY <2>1, <2>3
<1>7. ASSUME NEW q \in Queries, QueryStep(q) PROVE Goal
    <2>0. q \in Requests
        BY DEF Requests
    <2>1. ASSUME CheckQuery(q) PROVE Goal
        <3>1. began' \in Seq(Queries)
            BY <1>0, <2>1, AppendProperties DEF CheckQuery, TypeOK
        <3> QED
            BY <1>0, <1>1, <1>2, <2>1, <3>1 DEF CheckQuery, TypeOK, limits
    <2>2. ASSUME SaveUserMessage(q) \/ SaveAnswer(q) PROVE Goal
        BY <1>3, <1>4, <1>5, <2>2 DEF SaveUserMessage, SaveAnswer, Save, dbVars
    <2>3. ASSUME Generate(q) PROVE Goal
        <3>1. answer' \in [Queries -> AllOutcomes \cup {"none"}]
            BY <1>0, <2>3, OutcomesAssumption DEF Generate, TypeOK
        <3> QED
            BY <1>0, <1>1, <1>2, <2>3, <3>1 DEF Generate, TypeOK, limits, dbVars
    <2>4. ASSUME CommitRow(q) PROVE Goal
        BY <1>0, <1>1, <1>2, <2>4 DEF CommitRow, TypeOK, limits
    <2>5. ASSUME FinishQuery(q) PROVE Goal
        BY <1>1, <1>2, <1>5, <2>5 DEF FinishQuery, dbVars
    <2> HIDE DEF Goal
    <2> QED
        BY <1>6, <1>7, <2>0, <2>1, <2>2, <2>3, <2>4, <2>5 DEF QueryStep
<1>8. ASSUME NEW c \in Closers, CloseStep(c) PROVE Goal
    <2>0. c \in Requests
        BY DEF Requests
    <2>1. ASSUME CheckClose(c) PROVE Goal
        BY <1>1, <1>2, <1>5, <2>1 DEF CheckClose, dbVars
    <2>2. ASSUME DeleteHot(c) PROVE Goal
        BY <1>2, <1>3, <1>5, <2>2 DEF DeleteHot, dbVars
    <2>3. ASSUME MarkClosed(c) PROVE Goal
        BY <1>0, <1>1, <1>2, <2>3 DEF MarkClosed, TypeOK, limits
    <2> HIDE DEF Goal
    <2> QED
        BY <1>6, <1>8, <2>0, <2>1, <2>2, <2>3 DEF CloseStep
<1>9. ASSUME NEW s \in Sessions, CreateSession(s) \/ Expire(s) PROVE Goal
    <2>1. Cells
        BY <1>1, <1>2, <1>3, <1>9 DEF CreateSession, Expire
    <2>2. Others
        <3>1. CASE CreateSession(s)
            BY <1>0, <3>1 DEF CreateSession, TypeOK, limits
        <3>2. CASE Expire(s)
            BY <1>0, <3>2 DEF Expire, TypeOK, dbVars
        <3> QED
            BY <1>9, <3>1, <3>2
    <2> QED
        BY <2>1, <2>2
<1>10. ASSUME NEW r \in Requests, NEW s \in Sessions, GetHot(r, s) PROVE Goal
    <2>1. hot' = hot /\ UNCHANGED <<sess, rows, began, answer, limits>>
        BY <1>10 DEF GetHot, dbVars
    <2>2. mem' = [p \in Requests |-> mem'[p]]
        BY <1>2, <1>4, <1>10 DEF GetHot
    <2> QED
        BY <1>1, <1>5, <2>1, <2>2
<1>11. ASSUME NEW r \in Requests, Abort(r) PROVE Goal
    BY <1>0, <1>1, <1>2, <1>11 DEF Abort, TypeOK, dbVars
<1>12. ASSUME UNCHANGED vars PROVE Goal
    BY <1>1, <1>2, <1>5, <1>12 DEF vars, limits
<1> HIDE DEF Goal
<1>13. Goal
    BY <1>7, <1>8, <1>9, <1>10, <1>11, <1>12 DEF Next
<1>14. ListsInv'
    BY ListsStep
<1>15. hot' \in [Sessions -> {NotCached} \cup Seq(Messages)] /\ mem' \in [Requests -> Seq(Messages)]
    <2>1. \A s \in Sessions : hot'[s] # NotCached => hot'[s] \in Seq(Messages)
        BY <1>14 DEF ListsInv, ListOf, Tidy
    <2>2. \A r \in Requests : mem'[r] \in Seq(Messages)
        BY <1>14 DEF ListsInv, ListOf, Tidy
    <2> QED
        BY <1>13, <2>1, <2>2 DEF Goal
<1>16. /\ pc' \in [Requests -> Steps] /\ target' \in [Requests -> Sessions \cup {NoSession}]
       /\ \A r \in Requests : pc'[r] \notin Resting => target'[r] \in Sessions
    <2> DEFINE Steering ==
            /\ pc' \in [Requests -> Steps] /\ target' \in [Requests -> Sessions \cup {NoSession}]
            /\ \A r \in Requests : pc'[r] \notin Resting => target'[r] \in Sessions
    <2>1. ASSUME UNCHANGED <<pc, target>> PROVE Steering
        BY <1>0, <2>1 DEF TypeOK
    <2>2. ASSUME NEW r \in Requests, NEW a, NEW b, PcStep(r, a, b), b \in Steps,
                 a # "new" => a \notin Resting
          PROVE  Steering
        BY <1>0, <2>2 DEF TypeOK, PcStep, Resting
    <2>3. \A move \in Moves : move[2] \in Steps /\ (move[1] # "new" => move[1] \notin Resting)
        BY DEF Moves, Steps, Resting
    <2>4. "aborted" \in Steps
        BY DEF Steps, Resting
    <2>5. \A r \in Requests : pc[r] \notin Resting => (pc[r] # "new" => pc[r] \notin Resting)
        OBVIOUS
    <2> HIDE DEF Steering
    <2>6. Steering
        BY <1>0, <2>1, <2>2, <2>3, <2>4, <2>5, OneMoves
    <2> QED
        BY <2>6 DEF Steering
<1> QED
    BY <1>13, <1>15, <1>16 DEF TypeOK, Goal

(* The last message, and the order of transactions.                        *)
LEMMA QuestionLastStep ==
    ASSUME SessionInv, [Next]_vars
    PROVE  QuestionLast'
<1>0. TypeOK /\ QuestionLast
    BY DEF SessionInv
<1> DEFINE Ends(q) == pc'[q] \in {"generate", "saveAnswer"} =>
                          mem'[q] # <<>> /\ mem'[q][Len(mem'[q])] = Question(q)
           Empty(r) == pc'[r] \in {"new", "cold"} => mem'[r] = <<>>
           Goal == (\A q \in Queries : Ends(q)) /\ \A r \in Requests : Empty(r)
<1>1. ASSUME NEW p \in Requests, \A r \in Requests : r # p => mem'[r] = mem[r] /\ pc'[r] = pc[r],
             pc'[p] \in {"generate", "saveAnswer"} => Ends(p), Empty(p)
      PROVE  Goal
    <2>1. \A r \in Requests : Empty(r)
        BY <1>0, <1>1 DEF QuestionLast
    <2>2. \A q \in Queries : Ends(q)
        BY <1>0, <1>1 DEF QuestionLast, Requests
    <2> QED
        BY <2>1, <2>2
<1>2. ASSUME UNCHANGED <<mem, pc>> PROVE Goal
    BY <1>0, <1>2 DEF QuestionLast
<1>3. ASSUME NEW r \in Requests, LoadFromDb(r) \/ WarmCache(r) \/ Abort(r) PROVE Goal
    <2>1. \A p \in Requests : p # r => mem'[p] = mem[p] /\ pc'[p] = pc[p]
        BY <1>0, <1>3 DEF LoadFromDb, WarmCache, Abort, Goto, TypeOK
    <2>2. pc'[r] \in {"error", "warm", "check", "aborted"}
        BY <1>0, <1>3 DEF LoadFromDb, WarmCache, Abort, Goto, TypeOK
    <2> QED
        BY <1>1, <2>1, <2>2
<1>4. ASSUME NEW q \in Queries, QueryStep(q) PROVE Goal
    <2>0. q \in Requests
        BY DEF Requests
    <2>1. ASSUME SaveUserMessage(q) PROVE Goal
        <3>1. \A p \in Requests : p # q => mem'[p] = mem[p] /\ pc'[p] = pc[p]
            BY <1>0, <2>1 DEF SaveUserMessage, Save, Goto, TypeOK
        <3>2. pc'[q] = "generate" /\ mem'[q] = Push(mem[q], Question(q))
            BY <1>0, <2>0, <2>1 DEF SaveUserMessage, Save, Goto, Question, TypeOK
        <3>3. /\ Push(mem[q], Question(q)) # <<>>
              /\ Push(mem[q], Question(q))[Len(Push(mem[q], Question(q)))] = Question(q)
            BY <2>1, <3>2, SaveList DEF SaveUserMessage
        <3> QED
            BY <1>1, <2>0, <3>1, <3>2, <3>3
    <2>2. ASSUME Generate(q) PROVE Goal
        <3>1. /\ \A p \in Requests : p # q => mem'[p] = mem[p] /\ pc'[p] = pc[p]
              /\ mem'[q] = mem[q] /\ pc[q] = "generate" /\ pc'[q] = "saveAnswer"
            BY <1>0, <2>0, <2>2 DEF Generate, Goto, TypeOK
        <3> QED
            BY <1>0, <1>1, <2>0, <3>1 DEF QuestionLast
    <2>3. ASSUME CheckQuery(q) \/ SaveAnswer(q) \/ CommitRow(q) \/ FinishQuery(q) PROVE Goal
        <3>1. /\ \A p \in Requests : p # q => mem'[p] = mem[p] /\ pc'[p] = pc[p]
              /\ pc'[q] \in {"saveUser", "error", "commit", "metrics", "done"}
            BY <1>0, <2>0, <2>3 DEF CheckQuery, SaveAnswer, CommitRow, FinishQuery, Save, Goto,
                                    TypeOK
        <3> QED
            BY <1>1, <2>0, <3>1
    <2> HIDE DEF Goal
    <2> QED
        BY <1>3, <1>4, <2>0, <2>1, <2>2, <2>3 DEF QueryStep
<1>5. ASSUME NEW c \in Closers, CloseStep(c) PROVE Goal
    <2>0. c \in Requests
        BY DEF Requests
    <2>1. ASSUME CheckClose(c) \/ DeleteHot(c) \/ MarkClosed(c) PROVE Goal
        <3>1. /\ \A p \in Requests : p # c => mem'[p] = mem[p] /\ pc'[p] = pc[p]
              /\ pc'[c] \in {"delete", "error", "update", "done"}
            BY <1>0, <2>0, <2>1 DEF CheckClose, DeleteHot, MarkClosed, Goto, TypeOK
        <3> QED
            BY <1>1, <2>0, <3>1
    <2> HIDE DEF Goal
    <2> QED
        BY <1>3, <1>5, <2>0, <2>1 DEF CloseStep
<1>6. ASSUME NEW r \in Requests, NEW s \in Sessions, GetHot(r, s) PROVE Goal
    <2>1. \A p \in Requests : p # r => mem'[p] = mem[p] /\ pc'[p] = pc[p]
        BY <1>0, <1>6 DEF GetHot, Goto, TypeOK
    <2>2. pc'[r] = "check" \/ (pc'[r] = "cold" /\ mem'[r] = <<>>)
        BY <1>0, <1>6 DEF GetHot, Goto, TypeOK, QuestionLast
    <2> QED
        BY <1>1, <2>1, <2>2
<1>7. ASSUME NEW s \in Sessions, CreateSession(s) \/ Expire(s) PROVE Goal
    BY <1>2, <1>7 DEF CreateSession, Expire
<1> HIDE DEF Goal
<1>8. Goal
    BY <1>2, <1>3, <1>4, <1>5, <1>6, <1>7 DEF Next, vars
<1> QED
    BY <1>8 DEF Goal, QuestionLast

LEMMA BeganStep ==
    ASSUME SessionInv, [Next]_vars
    PROVE  BeganInv'
<1>0. TypeOK /\ BeganInv /\ began \in Seq(Queries)
    BY DEF SessionInv, TypeOK
<1>1. ASSUME NEW q \in Queries, pc[q] \notin {"new", "cold"} PROVE pc'[q] \notin {"new", "cold"}
    <2>1. q \in Requests
        BY DEF Requests
    <2>2. \A move \in Moves : move[2] # "new" /\ (move[2] = "cold" => move[1] = "new")
        BY DEF Moves
    <2> QED
        BY <1>0, <1>1, <2>1, <2>2, OneMoves DEF PcStep, TypeOK
<1>2. \A q \in Range(began) : q \in Queries
    BY <1>0, RangeOfSeq
<1>3. ASSUME began' = began PROVE BeganInv'
    BY <1>0, <1>1, <1>2, <1>3 DEF BeganInv
<1>4. ASSUME NEW q \in Queries, q \notin Range(began), began' = Append(began, q),
             pc'[q] \notin {"new", "cold"}
      PROVE  BeganInv'
    <2>1. IsInjective(Append(began, q)) /\ Range(Append(began, q)) = Range(began) \cup {q}
        BY <1>0, <1>4, InjectiveAppend, RangeAppend DEF BeganInv
    <2> QED
        BY <1>0, <1>1, <1>2, <1>4, <2>1 DEF BeganInv
<1>5. ASSUME NEW r \in Requests, LoadFromDb(r) PROVE BeganInv'
    <2>1. CASE began' = began
        BY <1>3, <2>1
    <2>2. CASE began' # began
        <3>1. r \in Queries /\ began' = Append(began, r) /\ pc'[r] = "warm" /\ pc[r] = "cold"
            BY <1>0, <1>5, <2>2 DEF LoadFromDb, Goto, TypeOK
        <3> QED
            BY <1>0, <1>4, <3>1 DEF BeganInv
    <2> QED
        BY <2>1, <2>2
<1>6. ASSUME NEW q \in Queries, CheckQuery(q) PROVE BeganInv'
    <2>1. q \in Requests
        BY DEF Requests
    <2>2. CASE Contains(began, q)
        BY <1>3, <1>6, <2>2 DEF CheckQuery
    <2>3. CASE ~Contains(began, q)
        <3>1. q \notin Range(began)
            BY <1>0, <2>3, RangeEquality DEF Contains
        <3>2. began' = Append(began, q) /\ pc'[q] \in {"saveUser", "error"}
            BY <1>0, <1>6, <2>1, <2>3 DEF CheckQuery, Goto, TypeOK
        <3> QED
            BY <1>4, <3>1, <3>2
    <2> QED
        BY <2>2, <2>3
<1>7. \/ began' = began
      \/ \E r \in Requests : LoadFromDb(r)
      \/ \E q \in Queries : CheckQuery(q)
    BY DEF Next, vars, dbVars, CreateSession, Expire, GetHot, QueryStep, CloseStep, WarmCache,
           SaveUserMessage, Generate, SaveAnswer, CommitRow, FinishQuery, CheckClose, DeleteHot,
           MarkClosed, Abort, Requests
<1> QED
    BY <1>3, <1>5, <1>6, <1>7

LEMMA RowsStep ==
    ASSUME SessionInv, [Next]_vars
    PROVE  RowsInv'
<1>0. TypeOK /\ RowsInv
    BY DEF SessionInv
<1> DEFINE Row(q) == /\ pc'[q] \in {"metrics", "done", "aborted"}
                     /\ target'[q] \in Sessions
                     /\ Caller[q] = Owner[target'[q]]
           Query(q) == /\ pc'[q] \in Admitted => Caller[q] = Owner[target'[q]]
                       /\ pc'[q] \in {"metrics", "done"} => q \in rows'
                       /\ q \in rows' => Row(q)
           Before(q) == /\ pc[q] \in Admitted => Caller[q] = Owner[target[q]]
                        /\ pc[q] \in {"metrics", "done"} => q \in rows
                        /\ q \in rows => /\ pc[q] \in {"metrics", "done", "aborted"}
                                         /\ target[q] \in Sessions
                                         /\ Caller[q] = Owner[target[q]]
           Goal == \A q \in Queries : Query(q)
<1>1. \A q \in Queries : Before(q)
    BY <1>0 DEF RowsInv
<1>2. RowsInv' <=> rows' \subseteq Queries /\ Goal
    <2>1. rows' \subseteq Queries
        BY TypeStep DEF TypeOK
    <2> QED
        BY <2>1 DEF RowsInv
<1>3. ASSUME UNCHANGED <<pc, target, rows>> PROVE Goal
    BY <1>1, <1>3
<1>4. ASSUME NEW p \in Requests, \A q \in Queries : q # p =>
                 pc'[q] = pc[q] /\ target'[q] = target[q] /\ (q \in rows' <=> q \in rows),
             p \in Queries => Query(p)
      PROVE  Goal
    <2>1. ASSUME NEW q \in Queries, q # p PROVE Query(q)
        BY <1>1, <1>4, <2>1
    <2> QED
        BY <1>4, <2>1
<1> HIDE DEF Goal
<1>5. ASSUME NEW r \in Requests, NEW move \in Moves, PcStep(r, move[1], move[2]), rows' = rows,
             move[2] \notin Admitted \cup {"metrics", "done"} \/ r \in Closers
      PROVE  Goal
    <2>1. \A q \in Queries : q # r => pc'[q] = pc[q] /\ target'[q] = target[q]
        BY <1>0, <1>5 DEF PcStep, TypeOK, Requests
    <2>2. ASSUME r \in Queries PROVE Query(r)
        <3>1. move[1] \notin {"metrics", "done", "aborted"} /\ move[2] \notin {"metrics", "done"}
            BY <1>5, <2>2, RequestsAssumption DEF Moves, Admitted
        <3>2. pc[r] = move[1] /\ pc'[r] = move[2] /\ move[2] \notin Admitted
            BY <1>0, <1>5, <2>2, RequestsAssumption DEF PcStep, TypeOK
        <3> QED
            BY <1>1, <1>5, <2>2, <3>1, <3>2
    <2> QED
        BY <1>4, <1>5, <2>1, <2>2
<1>6. ASSUME NEW r \in Requests, LoadFromDb(r) \/ WarmCache(r) PROVE Goal
    <2>1. PICK move \in Moves : /\ PcStep(r, move[1], move[2])
                                /\ move[2] \in {"error", "warm", "check"}
        <3>1. \/ PcStep(r, "cold", "error") \/ PcStep(r, "cold", "warm")
              \/ PcStep(r, "warm", "check")
            BY <1>6 DEF LoadFromDb, WarmCache, PcStep, Goto
        <3>2. {<<"cold", "error">>, <<"cold", "warm">>, <<"warm", "check">>} \subseteq Moves
            BY DEF Moves
        <3> QED
            BY <3>1, <3>2
    <2>2. rows' = rows
        BY <1>6 DEF LoadFromDb, WarmCache, dbVars
    <2> QED
        BY <1>5, <2>1, <2>2 DEF Admitted
<1>7. ASSUME NEW r \in Requests, NEW s \in Sessions, GetHot(r, s) PROVE Goal
    <2>1. PICK move \in Moves : PcStep(r, move[1], move[2]) /\ move[2] \in {"cold", "check"}
        <3>1. PcStep(r, "new", "cold") \/ PcStep(r, "new", "check")
            BY <1>7 DEF GetHot, PcStep, Goto
        <3>2. {<<"new", "cold">>, <<"new", "check">>} \subseteq Moves
            BY DEF Moves
        <3> QED
            BY <3>1, <3>2
    <2>2. rows' = rows
        BY <1>7 DEF GetHot, dbVars
    <2> QED
        BY <1>5, <2>1, <2>2 DEF Admitted
<1>8. ASSUME NEW q \in Queries, QueryStep(q) PROVE Goal
    <2>0. q \in Requests
        BY DEF Requests
    <2>1. ASSUME CheckQuery(q) \/ SaveUserMessage(q) \/ Generate(q) \/ SaveAnswer(q)
                 \/ CommitRow(q) \/ FinishQuery(q)
          PROVE  Goal
        <3>1. target' = target /\ \A p \in Queries : p # q => pc'[p] = pc[p]
            BY <1>0, <2>0, <2>1 DEF CheckQuery, SaveUserMessage, Generate, SaveAnswer, CommitRow,
                                    FinishQuery, Goto, TypeOK, Requests
        <3>2. \A p \in Queries : p # q => (p \in rows' <=> p \in rows)
            BY <2>1 DEF CheckQuery, SaveUserMessage, Generate, SaveAnswer, CommitRow,
                        FinishQuery, dbVars
        <3>3. Query(q)
            <4>1. CASE CheckQuery(q)
                <5>1. /\ pc[q] = "check" /\ target' = target /\ rows' = rows
                      /\ \/ pc'[q] = "error"
                         \/ pc'[q] = "saveUser" /\ Owner[target[q]] = Caller[q]
                    BY <1>0, <2>0, <4>1 DEF CheckQuery, Goto, TypeOK
                <5> QED
                    BY <1>1, <5>1 DEF Admitted
            <4>2. CASE SaveUserMessage(q) \/ Generate(q) \/ SaveAnswer(q)
                <5>1. pc[q] \in {"saveUser", "generate", "saveAnswer"} /\ target' = target
                      /\ rows' = rows /\ pc'[q] \in {"generate", "saveAnswer", "commit"}
                    BY <1>0, <2>0, <4>2 DEF SaveUserMessage, Generate, SaveAnswer, Goto, dbVars,
                                            TypeOK
                <5> QED
                    BY <1>1, <5>1 DEF Admitted
            <4>3. CASE CommitRow(q)
                BY <1>0, <1>1, <2>0, <4>3 DEF CommitRow, Goto, TypeOK, Admitted, Resting
            <4>4. CASE FinishQuery(q)
                BY <1>0, <1>1, <2>0, <4>4 DEF FinishQuery, Goto, dbVars, TypeOK, Admitted
            <4> QED
                BY <2>1, <4>1, <4>2, <4>3, <4>4
        <3> QED
            BY <1>4, <2>0, <3>1, <3>2, <3>3
    <2> QED
        BY <1>6, <1>8, <2>0, <2>1 DEF QueryStep
<1>9. ASSUME NEW c \in Closers, CloseStep(c) PROVE Goal
    <2>0. c \in Requests /\ c \notin Queries
        BY RequestsAssumption DEF Requests
    <2>1. ASSUME CheckClose(c) \/ DeleteHot(c) \/ MarkClosed(c) PROVE Goal
        <3>1. /\ target' = target /\ rows' = rows
              /\ \A q \in Queries : pc'[q] = pc[q]
            BY <1>0, <2>0, <2>1 DEF CheckClose, DeleteHot, MarkClosed, Goto, dbVars, TypeOK, Requests
        <3> QED
            BY <1>4, <2>0, <3>1
    <2> QED
        BY <1>6, <1>9, <2>0, <2>1 DEF CloseStep
<1>10. ASSUME NEW r \in Requests, Abort(r) PROVE Goal
    <2>1. /\ target' = target /\ rows' = rows
          /\ \A q \in Queries : q # r => pc'[q] = pc[q]
          /\ pc'[r] = "aborted" /\ pc[r] \notin Resting
        BY <1>0, <1>10 DEF Abort, Goto, dbVars, TypeOK, Requests
    <2>2. ASSUME r \in Queries PROVE Query(r)
        BY <1>1, <2>1, <2>2 DEF Admitted
    <2> QED
        BY <1>4, <2>1, <2>2
<1>11. ASSUME NEW s \in Sessions, CreateSession(s) \/ Expire(s) PROVE Goal
    BY <1>3, <1>11 DEF CreateSession, Expire, dbVars
<1>12. Goal
    BY <1>3, <1>7, <1>8, <1>9, <1>10, <1>11 DEF Next, vars
<1> QED
    BY <1>2, <1>12, TypeStep DEF TypeOK

(* The invariant holds in every state.                                     *)
LEMMA SessionAlways == Spec => []SessionInv
<1>1. SessionInv /\ [Next]_vars => SessionInv'
    BY TypeStep, ListsStep, QuestionLastStep, BeganStep, RowsStep DEF SessionInv
<1> QED
    BY SessionInit, <1>1, PTL DEF Spec

(* The variables keep their types.                                         *)
THEOREM TypeCorrect == Spec => []TypeOK
<1>1. SessionInv => TypeOK
    BY DEF SessionInv
<1> QED
    BY SessionAlways, <1>1, PTL

(* What the invariant says of every list there is.                         *)
LEMMA ListsTidy ==
    ASSUME SessionInv, NEW l \in Lists
    PROVE  Tidy(l) /\ \A m \in Range(l) : m[2] \in Queries /\ pc[m[2]] \in
                          IF m[1] = "user" THEN Asked ELSE Answered
<1>1. PICK s : ListOf(l, s, target, pc)
    BY DEF SessionInv, ListsInv, Lists
<1>2. \A m \in Range(l) : m \in Messages
    BY <1>1, RangeOfSeq DEF ListOf, Tidy
<1> QED
    BY <1>1, <1>2 DEF ListOf, SaidIn, Messages

(* However streams overlap, expire, are rebuilt or die, an answer directly *)
(* follows its own question in Redis and in the memory of every request.   *)
THEOREM AnswersFollow == Spec => []AnswersFollowQuestions
<1>1. SessionInv => AnswersFollowQuestions
    BY ListsTidy DEF AnswersFollowQuestions, Tidy, Answers
<1> QED
    BY SessionAlways, <1>1, PTL

(* No list ever repeats a message.                                         *)
THEOREM NothingRepeated == Spec => []NoRepeatedMessage
<1>1. SessionInv => NoRepeatedMessage
    BY ListsTidy DEF NoRepeatedMessage, Tidy
<1> QED
    BY SessionAlways, <1>1, PTL

(* What Redis shows of a session was said in it, by its owner, and so were *)
(* its rows.                                                               *)
THEOREM Isolation == Spec => []HistoriesIsolated
<1>1. ASSUME SessionInv PROVE HistoriesIsolated
    <2>1. ASSUME NEW s \in Sessions, hot[s] # NotCached, NEW i \in 1..Len(hot[s])
          PROVE  target[hot[s][i][2]] = s /\ Caller[hot[s][i][2]] = Owner[s]
        <3>1. ListOf(hot[s], s, target, pc)
            BY <1>1, <2>1 DEF SessionInv, ListsInv
        <3>2. hot[s][i] \in Range(hot[s])
            BY <3>1, RangeEquality DEF ListOf, Tidy
        <3> QED
            BY <3>1, <3>2 DEF ListOf, SaidIn
    <2> QED
        BY <1>1, <2>1 DEF HistoriesIsolated, SessionInv, RowsInv
<1> QED
    BY SessionAlways, <1>1, PTL

(* A query that reported done is stored, and an answer that Redis or a     *)
(* request holds is stored, about to be, or of a request that died.        *)
THEOREM AnswersStored == Spec => []AnswersReachStore
<1>1. ASSUME SessionInv PROVE AnswersReachStore
    <2>1. ASSUME NEW q \in Queries, NEW l \in Lists, Contains(l, <<"assistant", q>>)
          PROVE  q \in rows \/ pc[q] \in {"commit", "aborted"}
        <3>1. Tidy(l)
            BY <1>1, ListsTidy
        <3>2. <<"assistant", q>> \in Range(l)
            BY <2>1, <3>1, RangeEquality DEF Contains, Tidy
        <3>3. pc[q] \in Answered
            BY <1>1, <3>2, ListsTidy
        <3> QED
            BY <1>1, <3>3 DEF Answered, SessionInv, RowsInv
    <2> QED
        BY <1>1, <2>1 DEF AnswersReachStore, SessionInv, RowsInv
<1> QED
    BY SessionAlways, <1>1, PTL

------------------------------------------------------------------------------
(* Requests that take turns.                                               *)

(* One request of a session at a time, of finitely many requests.          *)
Serial == Concurrency = 1 /\ IsFiniteSet(Requests)

(* A row was begun, in a session that exists, and has an answer.           *)
StoredInv ==
    /\ \A q \in rows : /\ q \in Range(began)
                       /\ sess[target[q]] # "absent"
                       /\ answer[q] \in Outcomes
    /\ \A q \in Queries : /\ pc[q] \in Admitted => /\ q \in Range(began)
                                                   /\ sess[target[q]] # "absent"
                          /\ pc[q] \in {"saveAnswer", "commit"} => answer[q] \in Outcomes

Alone ==
    \A p, r \in Requests :
        pc[p] \notin Resting /\ pc[r] \notin Resting /\ target[p] = target[r] => p = r

(* Nothing of the session began after the query that is at work on it.     *)
Ordered ==
    \A q \in Queries : pc[q] \notin Resting =>
        Late(began, q, {p \in Queries : target[p] = target[q]})

Talking == {"generate", "saveAnswer", "commit"}
Holding == {"warm", "check", "saveUser"} \cup Talking

(* The messages of the rows of session s, and those that request r has     *)
(* added to them; the arguments stand for the variables.                   *)
Exchanges(ans) ==
    [q \in Queries |-> IF ans[q] = "empty" THEN <<Question(q)>> ELSE <<Question(q), Reply(q)>>]
Past(bg, rw, tgt, ans, s) == Turns(Exchanges(ans), Among(bg, {q \in rw : tgt[q] = s}))
Added(r, steps) ==
    IF steps[r] \in {"generate", "saveAnswer"} THEN <<Question(r)>>
    ELSE IF steps[r] = "commit" THEN <<Question(r), Reply(r)>> ELSE <<>>

PastOf(s) == Past(began, rows, target, answer, s)

(* The stored turns of s are all that was said in it.                      *)
Whole(bg, rw, tgt, ans, steps, held, s) ==
    /\ \A q \in Queries :
          tgt[q] = s /\ steps[q] = "aborted" /\ Contains(held[q], Question(q)) => q \in rw
    /\ \A q \in rw : tgt[q] = s => ans[q] # "empty"
    /\ 2 * (Len(Among(bg, {q \in rw : tgt[q] = s})) + 1) <= Window

IsWhole(s) == Whole(began, rows, target, answer, pc, mem, s)

(* Query q is between its question and its row, in session s.              *)
OnTurn(q, s, tgt, steps) == steps[q] \in Talking /\ tgt[q] = s

(* h, if it is a list, is the past and what the query on its turn added.   *)
HotIs(h, s, past, tgt, steps) ==
    h # NotCached =>
        /\ \A q \in Queries : OnTurn(q, s, tgt, steps) => h = past \o Added(q, steps)
        /\ (\A q \in Queries : ~OnTurn(q, s, tgt, steps)) => h = past

(* A request holds the session's past and what it added itself.            *)
HeldInv ==
    \A r \in Requests : pc[r] \in Holding /\ IsWhole(target[r]) =>
        mem[r] = PastOf(target[r]) \o Added(r, pc)

(* So does Redis, where it has the session.                                *)
CachedInv == \A s \in Sessions : IsWhole(s) => HotIs(hot[s], s, PastOf(s), target, pc)

TurnInv == Alone /\ Ordered /\ HeldInv /\ CachedInv

LEMMA UnbrokenIsWhole == \A s : Unbroken(s) <=> IsWhole(s)
BY DEF Unbroken, IsWhole, Whole, RowsOf, Question

(* A list below the window grows by the message.                           *)
LEMMA PushRoom ==
    ASSUME NEW l \in Seq(Messages), NEW m \in Messages, Len(l) < Window
    PROVE  Push(l, m) = Append(l, m)
<1>1. Append(l, m) \in Seq(Messages) /\ Len(Append(l, m)) = Len(l) + 1 /\ Len(l) \in Nat
    BY AppendProperties, LenProperties
<1>2. ~(Len(Append(l, m)) > Window)
    BY <1>1, WindowAssumption
<1>3. SubSeq(Append(l, m), 1, Len(Append(l, m))) = Append(l, m)
    BY <1>1, SubSeqFull
<1> QED
    BY <1>2, <1>3 DEF Push

LEMMA ExchangesAre == \A ans : IsExchange(Exchanges(ans))
<1> SUFFICES ASSUME NEW ans PROVE IsExchange(Exchanges(ans))
    OBVIOUS
<1>1. ASSUME NEW q \in Queries PROVE Question(q) \in Messages /\ Reply(q) \in Messages
    BY DEF Question, Reply, Messages, Roles
<1> QED
    BY <1>1 DEF IsExchange, Exchanges

(* Only the messages of the given rows matter.                             *)
LEMMA TurnsSame ==
    ASSUME NEW Q, NEW qs \in Seq(Q), NEW ex, NEW fx, \A q \in Range(qs) : ex[q] = fx[q]
    PROVE  Turns(ex, qs) = Turns(fx, qs)
<1>1. \A i \in 1..Len(qs) : ex[qs[i]] = fx[qs[i]]
    BY RangeEquality
<1>2. [i \in 1..Len(qs) |-> ex[qs[i]]] = [i \in 1..Len(qs) |-> fx[qs[i]]]
    BY <1>1
<1> QED
    BY <1>2 DEF Turns

(* Where every row has its answer, question and answer alternate.          *)
LEMMA TurnsPairs ==
    ASSUME NEW ex, IsExchange(ex)
    PROVE  \A qs \in Seq(Queries) : (\A q \in Range(qs) : ex[q] = <<Question(q), Reply(q)>>) =>
               /\ Turns(ex, qs) \in Seq(Messages)
               /\ Len(Turns(ex, qs)) = 2 * Len(qs)
               /\ \A i \in 1..Len(qs) : /\ Turns(ex, qs)[2 * i - 1] = Question(qs[i])
                                        /\ Turns(ex, qs)[2 * i] = Reply(qs[i])
<1> DEFINE Full(qs) == \A q \in Range(qs) : ex[q] = <<Question(q), Reply(q)>>
           Pairs(l, qs) == /\ l \in Seq(Messages)
                           /\ Len(l) = 2 * Len(qs)
                           /\ \A i \in 1..Len(qs) : /\ l[2 * i - 1] = Question(qs[i])
                                                    /\ l[2 * i] = Reply(qs[i])
           T == {qs \in Seq(Queries) : Full(qs) => Pairs(Turns(ex, qs), qs)}
<1>1. <<>> \in T
    <2>1. Pairs(<<>>, <<>>)
        OBVIOUS
    <2> HIDE DEF Pairs
    <2> QED
        BY <2>1, TurnsEmpty
<1>2. ASSUME NEW qs \in Seq(Queries), NEW q \in Queries, qs \in T PROVE Append(qs, q) \in T
    <2> DEFINE l == Turns(ex, qs)
               both == Append(Append(l, Question(q)), Reply(q))
               more == Append(qs, q)
    <2>1. /\ more \in Seq(Queries) /\ Range(more) = Range(qs) \cup {q}
          /\ Len(more) = Len(qs) + 1 /\ Len(qs) \in Nat /\ more[Len(qs) + 1] = q
          /\ \A i \in 1..Len(qs) : more[i] = qs[i]
        BY AppendProperties, RangeAppend
    <2>2. Turns(ex, more) = l \o ex[q] /\ l \in Seq(Messages)
        BY TurnsAppend
    <2> HIDE DEF l, more
    <2> SUFFICES ASSUME Full(more) PROVE Pairs(Turns(ex, more), more)
        BY <2>1 DEF more
    <2>3. Full(qs) /\ ex[q] = <<Question(q), Reply(q)>>
        BY <2>1
    <2>4. Pairs(l, qs)
        BY <1>2, <2>3 DEF l
    <2>5. Question(q) \in Messages /\ Reply(q) \in Messages
        BY DEF Question, Reply, Messages, Roles
    <2>6. Turns(ex, more) = both
        BY <2>2, <2>3, <2>5, ConcatPair
    <2>7. /\ both \in Seq(Messages) /\ Len(both) = Len(l) + 2 /\ Len(l) \in Nat
          /\ both[Len(l) + 2] = Reply(q) /\ both[Len(l) + 1] = Question(q)
          /\ \A i \in 1..Len(l) : both[i] = l[i]
        <3> DEFINE one == Append(l, Question(q))
        <3>1. /\ one \in Seq(Messages) /\ Len(one) = Len(l) + 1 /\ Len(l) \in Nat
              /\ one[Len(l) + 1] = Question(q) /\ \A i \in 1..Len(l) : one[i] = l[i]
            BY <2>2, <2>5, AppendProperties
        <3> HIDE DEF one
        <3>2. /\ Append(one, Reply(q)) \in Seq(Messages)
              /\ Len(Append(one, Reply(q))) = Len(one) + 1
              /\ Append(one, Reply(q))[Len(one) + 1] = Reply(q)
              /\ \A i \in 1..Len(one) : Append(one, Reply(q))[i] = one[i]
            BY <2>5, <3>1, AppendProperties
        <3>3. both = Append(one, Reply(q))
            BY DEF one
        <3> HIDE DEF both
        <3> QED
            BY <3>1, <3>2, <3>3
    <2> HIDE DEF both
    <2>8. ASSUME NEW i \in 1..Len(more)
          PROVE  both[2 * i - 1] = Question(more[i]) /\ both[2 * i] = Reply(more[i])
        <3>1. CASE i = Len(qs) + 1
            BY <2>1, <2>4, <2>7, <3>1
        <3>2. CASE i # Len(qs) + 1
            <4>1. i \in 1..Len(qs) /\ 2 * i - 1 \in 1..Len(l) /\ 2 * i \in 1..Len(l)
                BY <2>1, <2>4, <3>2
            <4> QED
                BY <2>1, <2>4, <2>7, <4>1
        <3> QED
            BY <3>1, <3>2
    <2> QED
        BY <2>1, <2>4, <2>6, <2>7, <2>8
<1> HIDE DEF T
<1>3. \A qs \in Seq(Queries) : qs \in T
    BY <1>1, <1>2, SeqInduct
<1> QED
    BY <1>3 DEF T

------------------------------------------------------------------------------
(* The steps of requests, whoever else is at work.                         *)

Idle(r) == pc'[r] = pc[r] /\ target'[r] = target[r] /\ mem'[r] = mem[r]

SameRow(q) == answer'[q] = answer[q] /\ (q \in rows' <=> q \in rows)

RequestStep(r) ==
    \/ \E s \in Sessions : GetHot(r, s)
    \/ r \in Queries /\ QueryStep(r)
    \/ r \in Closers /\ CloseStep(r)
    \/ Abort(r)

(* A step is one request's, which changes nothing of another's, or none's. *)
LEMMA StepOf ==
    ASSUME TypeOK, [Next]_vars
    PROVE  \/ \E p \in Requests : /\ RequestStep(p)
                                  /\ \A r \in Requests : r # p => Idle(r)
                                  /\ \A q \in Queries : q # p => SameRow(q)
           \/ /\ UNCHANGED <<rows, began, answer, pc, target, mem>>
              /\ UNCHANGED vars \/ \E s \in Sessions : CreateSession(s) \/ Expire(s)
<1> DEFINE Others(p) == /\ \A r \in Requests : r # p => Idle(r)
                        /\ \A q \in Queries : q # p => SameRow(q)
<1>1. ASSUME NEW p \in Requests, NEW s \in Sessions, GetHot(p, s) PROVE Others(p)
    BY <1>1 DEF GetHot, Goto, TypeOK, Idle, SameRow, dbVars
<1>2. ASSUME NEW p \in Requests, LoadFromDb(p) \/ WarmCache(p) \/ Abort(p) PROVE Others(p)
    BY <1>2 DEF LoadFromDb, WarmCache, Abort, Goto, TypeOK, Idle, SameRow, dbVars
<1>3. ASSUME NEW p \in Requests, p \in Closers, CloseStep(p) PROVE Others(p)
    <2>1. ASSUME CheckClose(p) \/ DeleteHot(p) \/ MarkClosed(p) PROVE Others(p)
        BY <2>1 DEF CheckClose, DeleteHot, MarkClosed, Goto, TypeOK, Idle, SameRow, dbVars
    <2> QED
        BY <1>2, <1>3, <2>1 DEF CloseStep
<1>4. ASSUME NEW p \in Requests, p \in Queries, QueryStep(p) PROVE Others(p)
    <2>1. ASSUME CheckQuery(p) \/ FinishQuery(p) \/ CommitRow(p) PROVE Others(p)
        BY <2>1 DEF CheckQuery, FinishQuery, CommitRow, Goto, TypeOK, Idle, SameRow, dbVars
    <2>2. ASSUME SaveUserMessage(p) \/ SaveAnswer(p) PROVE Others(p)
        BY <2>2 DEF SaveUserMessage, SaveAnswer, Save, Goto, TypeOK, Idle, SameRow, dbVars
    <2>3. ASSUME Generate(p) PROVE Others(p)
        BY <2>3 DEF Generate, Goto, TypeOK, Idle, SameRow, dbVars
    <2> HIDE DEF Others
    <2> QED
        BY <1>2, <1>4, <2>1, <2>2, <2>3 DEF QueryStep
<1>5. ASSUME NEW s \in Sessions, CreateSession(s) \/ Expire(s)
      PROVE  UNCHANGED <<rows, began, answer, pc, target, mem>>
    BY <1>5 DEF CreateSession, Expire, dbVars
<1>6. UNCHANGED vars => UNCHANGED <<rows, began, answer, pc, target, mem>>
    BY DEF vars
<1>7. \A p \in Requests : RequestStep(p) => Others(p)
    <2> HIDE DEF Others
    <2> QED
        BY <1>1, <1>2, <1>3, <1>4 DEF RequestStep
<1>8. \/ UNCHANGED vars \/ \E s \in Sessions : CreateSession(s) \/ Expire(s)
      \/ \E p \in Requests : RequestStep(p)
    BY DEF Next, RequestStep, Requests
<1> QED
    BY <1>5, <1>6, <1>7, <1>8

(* Sessions and transactions that began are there to stay.                 *)
LEMMA Grows ==
    ASSUME TypeOK, [Next]_vars
    PROVE  /\ \A s \in Sessions : sess[s] # "absent" => sess'[s] # "absent"
           /\ Range(began) \subseteq Range(began')
<1>1. \/ sess' = sess
      \/ \E s \in Sessions : sess' = [sess EXCEPT ![s] = "active"]
      \/ \E c \in Closers : sess' = [sess EXCEPT ![target[c]] = "closed"]
    BY DEF Next, vars, dbVars, CreateSession, Expire, GetHot, QueryStep, CloseStep, LoadFromDb,
           WarmCache, CheckQuery, SaveUserMessage, Generate, SaveAnswer, CommitRow, FinishQuery,
           CheckClose, DeleteHot, MarkClosed, Abort
<1>2. began' = began \/ \E q \in Queries : began' = Append(began, q)
    BY DEF Next, vars, dbVars, CreateSession, Expire, GetHot, QueryStep, CloseStep, LoadFromDb,
           WarmCache, CheckQuery, SaveUserMessage, Generate, SaveAnswer, CommitRow, FinishQuery,
           CheckClose, DeleteHot, MarkClosed, Abort
<1>3. began \in Seq(Queries)
    BY DEF TypeOK
<1>4. Range(began) \subseteq Range(began')
    <2>1. \A q \in Queries : Range(Append(began, q)) = Range(began) \cup {q}
        BY <1>3, RangeAppend
    <2> QED
        BY <1>2, <2>1
<1> QED
    BY <1>1, <1>4 DEF TypeOK

LEMMA StoredStep ==
    ASSUME SessionInv, StoredInv, [Next]_vars
    PROVE  StoredInv'
<1>0. TypeOK /\ RowsInv /\ BeganInv /\ began \in Seq(Queries)
    BY DEF SessionInv, TypeOK
<1>1. TypeOK' /\ RowsInv'
    BY TypeStep, RowsStep
<1> DEFINE Row(q) == /\ q \in Range(began')
                     /\ sess'[target'[q]] # "absent"
                     /\ answer'[q] \in Outcomes
           Query(q) == /\ q \in rows' => Row(q)
                       /\ pc'[q] \in Admitted => /\ q \in Range(began')
                                                 /\ sess'[target'[q]] # "absent"
                       /\ pc'[q] \in {"saveAnswer", "commit"} => answer'[q] \in Outcomes
<1>2. /\ \A s \in Sessions : sess[s] # "absent" => sess'[s] # "absent"
      /\ Range(began) \subseteq Range(began')
    BY <1>0, Grows
<1>3. ASSUME NEW q \in Queries, q \in Requests, pc[q] \in Admitted \/ q \in rows
      PROVE  target[q] \in Sessions
    BY <1>0, <1>3 DEF TypeOK, RowsInv, Admitted, Resting
<1>4. ASSUME NEW q \in Queries, q \in Requests, Idle(q), SameRow(q) PROVE Query(q)
    BY <1>2, <1>3, <1>4 DEF Idle, SameRow, StoredInv
<1>5. ASSUME NEW q \in Queries, q \in Requests, RequestStep(q) PROVE Query(q)
    <2>1. ASSUME NEW s \in Sessions, GetHot(q, s) PROVE Query(q)
        <3>1. pc[q] = "new" /\ pc'[q] \in {"cold", "check"} /\ rows' = rows
            BY <1>0, <1>5, <2>1 DEF GetHot, Goto, TypeOK, dbVars
        <3>2. q \notin rows
            BY <1>0, <3>1 DEF RowsInv
        <3> QED
            BY <3>1, <3>2 DEF Admitted
    <2>2. ASSUME LoadFromDb(q) \/ WarmCache(q) PROVE Query(q)
        <3>1. pc[q] \in {"cold", "warm"} /\ pc'[q] \in {"warm", "error", "check"} /\ rows' = rows
            BY <1>0, <1>5, <2>2 DEF LoadFromDb, WarmCache, Goto, TypeOK, dbVars
        <3>2. q \notin rows
            BY <1>0, <3>1 DEF RowsInv
        <3> QED
            BY <3>1, <3>2 DEF Admitted
    <2>3. ASSUME CheckQuery(q) PROVE Query(q)
        <3>1. pc[q] = "check" /\ pc'[q] \in {"saveUser", "error"} /\ rows' = rows /\ target' = target
              /\ (pc'[q] = "saveUser" => sess[target[q]] # "absent") /\ sess' = sess
            BY <1>0, <1>5, <2>3 DEF CheckQuery, Goto, TypeOK
        <3>2. q \notin rows
            BY <1>0, <3>1 DEF RowsInv
        <3>3. q \in Range(began')
            <4>1. Contains(began, q) => q \in Range(began)
                BY <1>0, RangeEquality DEF Contains
            <4>2. ~Contains(began, q) => began' = Append(began, q)
                BY <2>3 DEF CheckQuery
            <4>3. Range(Append(began, q)) = Range(began) \cup {q}
                BY <1>0, RangeAppend
            <4> QED
                BY <1>2, <4>1, <4>2, <4>3
        <3> QED
            BY <3>1, <3>2, <3>3 DEF Admitted
    <2>4. ASSUME Generate(q) PROVE Query(q)
        <3>1. pc[q] = "generate" /\ pc'[q] = "saveAnswer" /\ rows' = rows /\ target' = target
              /\ answer'[q] \in Outcomes
            BY <1>0, <1>5, <2>4 DEF Generate, Goto, TypeOK, dbVars
        <3>2. q \notin rows
            BY <1>0, <3>1 DEF RowsInv
        <3>3. pc[q] \in Admitted
            BY <3>1 DEF Admitted
        <3> QED
            BY <1>2, <1>3, <1>5, <3>1, <3>2, <3>3 DEF StoredInv
    <2>5. ASSUME SaveUserMessage(q) \/ SaveAnswer(q) \/ FinishQuery(q) PROVE Query(q)
        <3>1. /\ pc[q] \in Admitted /\ rows' = rows /\ target' = target /\ answer' = answer
              /\ pc'[q] \in {"saveAnswer", "commit"} => pc[q] = "saveAnswer"
            BY <1>0, <1>5, <2>5 DEF SaveUserMessage, SaveAnswer, FinishQuery, Goto, TypeOK, dbVars,
                                    Admitted
        <3> QED
            BY <1>2, <1>3, <1>5, <3>1 DEF StoredInv
    <2>6. ASSUME CommitRow(q) PROVE Query(q)
        <3>1. /\ pc[q] = "commit" /\ target' = target /\ answer' = answer /\ pc'[q] = "metrics"
              /\ pc[q] \in Admitted
            BY <1>0, <1>5, <2>6 DEF CommitRow, Goto, TypeOK, Admitted
        <3> QED
            BY <1>2, <1>3, <1>5, <3>1 DEF StoredInv
    <2>7. ASSUME Abort(q) PROVE Query(q)
        <3>1. rows' = rows /\ target' = target /\ answer' = answer /\ pc'[q] = "aborted"
            BY <1>0, <1>5, <2>7 DEF Abort, Goto, TypeOK, dbVars
        <3> QED
            BY <1>2, <1>3, <1>5, <3>1 DEF StoredInv, Admitted
    <2> HIDE DEF Query
    <2> QED
        BY <1>5, <2>1, <2>2, <2>3, <2>4, <2>5, <2>6, <2>7, RequestsAssumption
        DEF RequestStep, QueryStep
<1>6. ASSUME NEW q \in Queries PROVE Query(q)
    <2>1. q \in Requests
        BY DEF Requests
    <2>2. (Idle(q) /\ SameRow(q)) \/ RequestStep(q)
        BY <1>0, <2>1, StepOf DEF Idle, SameRow
    <2> QED
        BY <1>4, <1>5, <2>1, <2>2
<1> QED
    BY <1>1, <1>6 DEF StoredInv, TypeOK

------------------------------------------------------------------------------
(* The past of a session, and how steps change it.                         *)

LEMMA PastType ==
    ASSUME TypeOK, BeganInv, NEW s
    PROVE  /\ PastOf(s) \in Seq(Messages)
           /\ PastOf(s) = Turns(Exchanges(answer), RowsOf(s))
           /\ PastOf(s) = Transcript(RowsOf(s))
<1>1. RowsOf(s) \in Seq(Queries)
    BY RowsOfSession
<1>2. PastOf(s) = Turns(Exchanges(answer), RowsOf(s))
    BY DEF PastOf, Past, RowsOf
<1>3. IsExchange(Exchanges(answer))
    BY ExchangesAre
<1>4. Turns(Exchanges(answer), RowsOf(s)) \in Seq(Messages)
    <2> DEFINE ss == [i \in 1..Len(RowsOf(s)) |-> Exchanges(answer)[RowsOf(s)[i]]]
    <2>1. \A i \in 1..Len(RowsOf(s)) : Exchanges(answer)[RowsOf(s)[i]] \in Seq(Messages)
        BY <1>1, <1>3, ElementOfSeq DEF IsExchange
    <2>2. ss \in Seq(Seq(Messages)) /\ <<>> \in Seq(Messages)
        BY <1>1, <2>1, LenProperties
    <2> HIDE DEF ss
    <2>3. FlattenSeq(ss) \in Seq(Messages)
        BY <2>2, FlattenAppend
    <2> QED
        BY <2>3 DEF Turns, ss
<1>5. Exchanges(answer) = [q \in Queries |-> Exchange(q)]
    BY DEF Exchanges, Exchange, Question, Reply
<1>6. Turns([q \in Queries |-> Exchange(q)], RowsOf(s)) = Transcript(RowsOf(s))
    BY <1>1, TranscriptTurns
<1> QED
    BY <1>2, <1>4, <1>5, <1>6

(* What happens to queries without a row does not change it.               *)
LEMMA PastSame ==
    ASSUME TypeOK, NEW bg, NEW tgt, NEW ans, NEW s,
           bg = began \/ \E p \in Queries \ rows : bg = Append(began, p),
           \A q \in rows : tgt[q] = target[q] /\ ans[q] = answer[q]
    PROVE  /\ Past(bg, rows, tgt, ans, s) = PastOf(s)
           /\ Among(bg, {q \in rows : tgt[q] = s}) = RowsOf(s)
<1> DEFINE own == {q \in rows : target[q] = s}
<1>1. began \in Seq(Queries) /\ own \subseteq Queries
    BY DEF TypeOK
<1>2. {q \in rows : tgt[q] = s} = own
    OBVIOUS
<1>3. Among(bg, own) = Among(began, own)
    <2>1. ASSUME NEW p \in Queries, p \notin rows PROVE Among(Append(began, p), own) = Among(began, own)
        BY <1>1, <2>1, AmongAppend
    <2> HIDE DEF own
    <2>2. CASE bg = began
        BY <2>2
    <2>3. ASSUME NEW p \in Queries \ rows, bg = Append(began, p)
          PROVE  Among(bg, own) = Among(began, own)
        BY <2>1, <2>3
    <2> QED
        BY <2>2, <2>3
<1>4. Among(began, own) \in Seq(Queries) /\ Range(Among(began, own)) \subseteq own
    BY <1>1, AmongRange
<1>5. Turns(Exchanges(ans), Among(began, own)) = Turns(Exchanges(answer), Among(began, own))
    <2>1. \A q \in Range(Among(began, own)) : Exchanges(ans)[q] = Exchanges(answer)[q]
        BY <1>1, <1>4 DEF Exchanges
    <2> QED
        BY <1>4, <2>1, TurnsSame
<1> QED
    BY <1>2, <1>3, <1>5 DEF Past, PastOf, RowsOf

(* A stored turn is the last of its session.                               *)
LEMMA PastCommit ==
    ASSUME SessionInv, StoredInv, Ordered, NEW q \in Queries, pc[q] = "commit", NEW s
    PROVE  /\ Past(began, rows \cup {q}, target, answer, s) =
                  IF s = target[q] THEN PastOf(s) \o Exchanges(answer)[q] ELSE PastOf(s)
           /\ Among(began, {p \in rows \cup {q} : target[p] = s}) =
                  IF s = target[q] THEN Append(RowsOf(s), q) ELSE RowsOf(s)
<1> DEFINE own == {p \in rows : target[p] = s}
<1>0. TypeOK /\ BeganInv /\ began \in Seq(Queries) /\ IsInjective(began)
    BY DEF SessionInv, TypeOK, BeganInv
<1>1. q \in Range(began) /\ q \notin rows /\ own \subseteq Queries
    BY <1>0 DEF SessionInv, RowsInv, StoredInv, Admitted, TypeOK
<1>2. /\ PastOf(s) = Turns(Exchanges(answer), Among(began, own))
      /\ Among(began, own) = RowsOf(s) /\ Among(began, own) \in Seq(Queries)
    BY <1>0, RowsOfSession DEF PastOf, Past, RowsOf
<1>3. CASE s = target[q]
    <2>1. {p \in rows \cup {q} : target[p] = s} = own \cup {q}
        BY <1>3
    <2>2. Late(began, q, own)
        <3>1. Late(began, q, {p \in Queries : target[p] = target[q]})
            BY DEF Ordered, Resting
        <3> QED
            BY <1>1, <1>3, <3>1 DEF Late
    <2>3. Among(began, own \cup {q}) = Append(Among(began, own), q)
        <3>1. q \notin own
            BY <1>1
        <3> HIDE DEF own
        <3>2. \A S, e, seq : e \in Queries /\ e \notin S /\ seq \in Seq(Queries) /\ IsInjective(seq)
                  /\ e \in Range(seq) /\ Late(seq, e, S)
                  => Among(seq, S \cup {e}) = Append(Among(seq, S), e)
            BY AmongAdd
        <3> QED
            BY <1>0, <1>1, <2>2, <3>1, <3>2
    <2>4. Turns(Exchanges(answer), Append(Among(began, own), q)) =
              Turns(Exchanges(answer), Among(began, own)) \o Exchanges(answer)[q]
        BY <1>2, ExchangesAre, TurnsAppend
    <2> HIDE DEF own
    <2> QED
        BY <1>2, <1>3, <2>1, <2>3, <2>4 DEF Past
<1>4. CASE s # target[q]
    <2>1. {p \in rows \cup {q} : target[p] = s} = own
        BY <1>4
    <2> QED
        BY <1>2, <1>4, <2>1 DEF Past
<1> QED
    BY <1>3, <1>4

(* In a whole session question and answer alternate, and another turn fits. *)
LEMMA PastFits ==
    ASSUME SessionInv, StoredInv, NEW s, IsWhole(s)
    PROVE  /\ Len(PastOf(s)) = 2 * Len(RowsOf(s))
           /\ \A i \in 1..Len(RowsOf(s)) : /\ PastOf(s)[2 * i - 1] = Question(RowsOf(s)[i])
                                           /\ PastOf(s)[2 * i] = Reply(RowsOf(s)[i])
           /\ Len(PastOf(s)) + 2 <= Window
           /\ Len(RowsOf(s)) <= Window
<1> DEFINE qs == RowsOf(s)
<1>0. TypeOK /\ BeganInv
    BY DEF SessionInv
<1>1. /\ qs \in Seq(Queries) /\ Len(qs) \in Nat
      /\ Range(qs) \subseteq {q \in rows : target[q] = s}
    BY <1>0, RowsOfSession, LenProperties
<1>2. PastOf(s) = Turns(Exchanges(answer), qs)
    BY <1>0, PastType
<1>3. /\ \A q \in rows : target[q] = s => answer[q] # "empty"
      /\ 2 * (Len(qs) + 1) <= Window
    BY DEF IsWhole, Whole, RowsOf
<1> HIDE DEF qs
<1>4. \A q \in Range(qs) : Exchanges(answer)[q] = <<Question(q), Reply(q)>>
    BY <1>0, <1>1, <1>3 DEF Exchanges, TypeOK
<1>5. /\ Len(PastOf(s)) = 2 * Len(qs)
      /\ \A i \in 1..Len(qs) : /\ PastOf(s)[2 * i - 1] = Question(qs[i])
                               /\ PastOf(s)[2 * i] = Reply(qs[i])
    BY <1>1, <1>2, <1>4, ExchangesAre, TurnsPairs
<1>6. Len(PastOf(s)) + 2 <= Window /\ Len(qs) <= Window
    BY <1>1, <1>3, <1>5, WindowAssumption
<1> QED
    BY <1>5, <1>6 DEF qs

(* So a list rebuilt from rows is the session's past.                      *)
LEMMA ColdIsPast ==
    ASSUME SessionInv, StoredInv, NEW s, IsWhole(s)
    PROVE  ColdHistory(s) = PastOf(s)
<1>0. TypeOK /\ BeganInv
    BY DEF SessionInv
<1>1. RowsOf(s) \in Seq(Queries) /\ Len(RowsOf(s)) \in Nat
    BY <1>0, RowsOfSession, LenProperties
<1>2. ~(Len(RowsOf(s)) > Window)
    BY <1>1, PastFits, WindowAssumption
<1>3. SubSeq(RowsOf(s), 1, Len(RowsOf(s))) = RowsOf(s)
    BY <1>1, SubSeqFull
<1>4. PICK n \in Nat : /\ n = IF Len(RowsOf(s)) > Window THEN Window ELSE Len(RowsOf(s))
                       /\ ColdHistory(s) = Transcript(SubSeq(RowsOf(s), 1, n))
    BY <1>0, ColdHistoryIs
<1>5. PastOf(s) = Transcript(RowsOf(s))
    BY <1>0, PastType
<1> QED
    BY <1>2, <1>3, <1>4, <1>5

(* The lists that a query saves: its question, then its answer.            *)
LEMMA PushPast ==
    ASSUME SessionInv, StoredInv, NEW q \in Queries, NEW s, IsWhole(s)
    PROVE  /\ Push(PastOf(s), Question(q)) = PastOf(s) \o <<Question(q)>>
           /\ Push(PastOf(s) \o <<Question(q)>>, Reply(q)) = PastOf(s) \o <<Question(q), Reply(q)>>
<1> DEFINE l == PastOf(s)
           one == Append(l, Question(q))
<1>1. l \in Seq(Messages) /\ Len(l) \in Nat /\ Len(l) + 2 <= Window
    BY PastType, PastFits, LenProperties DEF SessionInv
<1>2. Question(q) \in Messages /\ Reply(q) \in Messages
    BY DEF Question, Reply, Messages, Roles
<1> HIDE DEF l
<1>3. one = l \o <<Question(q)>> /\ Append(one, Reply(q)) = l \o <<Question(q), Reply(q)>>
    BY <1>1, <1>2, ConcatPair
<1>4. one \in Seq(Messages) /\ Len(one) = Len(l) + 1
    BY <1>1, <1>2, AppendProperties
<1>5. Len(l) < Window
    BY <1>1, WindowAssumption
<1>6. Push(l, Question(q)) = one
    BY <1>1, <1>2, <1>5, PushRoom
<1> HIDE DEF one
<1>7. Len(one) < Window
    BY <1>1, <1>4, WindowAssumption
<1>8. Push(one, Reply(q)) = Append(one, Reply(q))
    BY <1>2, <1>4, <1>7, PushRoom
<1> QED
    BY <1>3, <1>6, <1>8 DEF l

(* Who goes on was at work already, or starts on a session of its own.     *)
LEMMA Starts ==
    ASSUME TypeOK, Serial, [Next]_vars, NEW r \in Requests, pc'[r] \notin Resting
    PROVE  \/ pc[r] \notin Resting /\ target'[r] = target[r]
           \/ \E s \in Sessions :
                 /\ GetHot(r, s) /\ target'[r] = s
                 /\ \A p \in Requests : target[p] = s => pc[p] \in Resting
<1>1. ASSUME NEW s \in Sessions, GetHot(r, s)
      PROVE  target'[r] = s /\ \A p \in Requests : target[p] = s => pc[p] \in Resting
    <2>1. IsFiniteSet(Active(s))
        <3>1. Active(s) \in SUBSET Requests
            BY DEF Active
        <3> QED
            BY <3>1, FS_Subset DEF Serial
    <2>2. Cardinality(Active(s)) \in Nat /\ Cardinality(Active(s)) < 1
        BY <1>1, <2>1, FS_CardinalityType DEF GetHot, Serial
    <2>3. Cardinality(Active(s)) = 0
        BY <2>2
    <2>4. Active(s) = {}
        BY <2>1, <2>3, FS_EmptySet
    <2> QED
        BY <1>1, <2>4 DEF GetHot, TypeOK, Active
<1>2. ASSUME RequestStep(r) PROVE (\E s \in Sessions : GetHot(r, s))
                                  \/ (pc[r] \notin Resting /\ target'[r] = target[r])
    <2>1. ASSUME r \in Queries, QueryStep(r) PROVE pc[r] \notin Resting /\ target' = target
        BY <2>1 DEF QueryStep, LoadFromDb, WarmCache, CheckQuery, SaveUserMessage, Generate,
                    SaveAnswer, CommitRow, FinishQuery, Resting
    <2>2. ASSUME r \in Closers, CloseStep(r) PROVE pc[r] \notin Resting /\ target' = target
        BY <2>2 DEF CloseStep, LoadFromDb, WarmCache, CheckClose, DeleteHot, MarkClosed, Resting
    <2>3. Abort(r) => pc[r] \notin Resting /\ target' = target
        BY DEF Abort
    <2> QED
        BY <1>2, <2>1, <2>2, <2>3 DEF RequestStep
<1>3. RequestStep(r) \/ (pc'[r] = pc[r] /\ target'[r] = target[r])
    BY StepOf DEF Idle
<1> QED
    BY <1>1, <1>2, <1>3

LEMMA AloneStep ==
    ASSUME TypeOK, Serial, Alone, [Next]_vars
    PROVE  Alone'
<1> SUFFICES ASSUME NEW p \in Requests, NEW r \in Requests, pc'[p] \notin Resting,
                    pc'[r] \notin Resting, target'[p] = target'[r], p # r
             PROVE  FALSE
    BY DEF Alone
<1> DEFINE Old(x) == pc[x] \notin Resting /\ target'[x] = target[x]
           Fresh(x) == \E s \in Sessions :
                          /\ GetHot(x, s) /\ target'[x] = s
                          /\ \A y \in Requests : target[y] = s => pc[y] \in Resting
<1>1. Old(p) \/ Fresh(p)
    BY Starts
<1>2. Old(r) \/ Fresh(r)
    BY Starts
<1>3. ASSUME Fresh(p) PROVE ~Fresh(r)
    <2>1. PICK s \in Sessions : GetHot(p, s)
        BY <1>3
    <2>2. pc'[p] # "new" /\ pc' = [pc EXCEPT ![p] = pc'[p]]
        BY <2>1 DEF GetHot, Goto, TypeOK
    <2>3. ASSUME NEW t \in Sessions, GetHot(r, t) PROVE FALSE
        <3>1. pc[r] = "new" /\ pc'[r] # "new"
            BY <2>3 DEF GetHot, Goto, TypeOK
        <3>2. pc'[r] = pc[r]
            BY <2>2 DEF TypeOK
        <3> QED
            BY <3>1, <3>2
    <2> QED
        BY <2>3
<1>4. ~(Old(p) /\ Old(r))
    BY DEF Alone
<1>5. ~(Old(p) /\ Fresh(r)) /\ ~(Fresh(p) /\ Old(r))
    OBVIOUS
<1> HIDE DEF Old, Fresh
<1> QED
    BY <1>1, <1>2, <1>3, <1>4, <1>5

LEMMA OrderedStep ==
    ASSUME SessionInv, Serial, Alone, Ordered, [Next]_vars
    PROVE  Ordered'
<1>0. TypeOK /\ BeganInv /\ began \in Seq(Queries) /\ Alone'
    BY AloneStep DEF SessionInv, TypeOK
<1>1. Len(began) \in Nat /\ \A i \in 1..Len(began) : began[i] \in Range(began)
    BY <1>0, RangeEquality, LenProperties
<1> SUFFICES ASSUME NEW q \in Queries, pc'[q] \notin Resting
             PROVE  Late(began', q, {p \in Queries : target'[p] = target'[q]})
    BY DEF Ordered
<1> DEFINE Own == {p \in Queries : target'[p] = target'[q]}
<1>2. q \in Requests
    BY DEF Requests
(* The transactions that had begun.                                        *)
<1>3. Late(began, q, Own)
    <2> SUFFICES ASSUME NEW m \in 1..Len(began), NEW i \in 1..Len(began), began[m] = q, i > m
                 PROVE  began[i] \notin Own
        BY DEF Late
    <2>1. q \in Range(began) /\ began[i] \in Range(began) /\ pc[q] # "new"
        BY <1>0, <1>1 DEF BeganInv
    <2>2. pc[q] \notin Resting /\ target'[q] = target[q]
        BY <1>0, <1>2, <2>1, Starts DEF GetHot
    <2>3. began[i] \notin {p \in Queries : target[p] = target[q]}
        BY <2>2 DEF Ordered, Late
    <2>4. began[i] \in Queries /\ pc[began[i]] # "new"
        BY <1>0, <2>1, RangeOfSeq DEF BeganInv
    <2>5. target'[began[i]] = target[began[i]]
        <3>1. began[i] \in Requests
            BY <2>4 DEF Requests
        <3> HIDE DEF Own
        <3>2. ASSUME NEW r \in Requests, NEW move, pc[r] = move, move # "new",
                     PcStep(r, move, pc'[r])
              PROVE  target' = target
            BY <3>2 DEF PcStep
        <3>3. ASSUME NEW r \in Requests, NEW move \in Moves, PcStep(r, move[1], move[2])
              PROVE  target'[began[i]] = target[began[i]]
            <4>1. CASE move[1] # "new"
                BY <3>3, <4>1 DEF PcStep
            <4>2. CASE move[1] = "new"
                BY <1>0, <2>4, <3>1, <3>3, <4>2 DEF PcStep, TypeOK
            <4> QED
                BY <4>1, <4>2
        <3>4. ASSUME NEW r \in Requests, pc[r] \notin Resting, PcStep(r, pc[r], "aborted")
              PROVE  target' = target
            BY <3>4 DEF PcStep, Resting
        <3> QED
            BY <1>0, <3>3, <3>4, OneMoves
    <2> QED
        BY <2>2, <2>3, <2>4, <2>5
<1>4. ASSUME NEW r \in Queries, r \notin Range(began), began' = Append(began, r),
             pc[r] \notin Resting, target' = target
      PROVE  Late(began', q, Own)
    <2>1. /\ Len(began') = Len(began) + 1 /\ began'[Len(began) + 1] = r
          /\ \A i \in 1..Len(began) : began'[i] = began[i]
        BY <1>0, <1>4, AppendProperties
    <2> SUFFICES ASSUME NEW m \in 1..Len(began'), NEW i \in 1..Len(began'), began'[m] = q, i > m
                 PROVE  began'[i] \notin Own
        BY DEF Late
    <2>2. m \in 1..Len(began) /\ q \in Range(began) /\ q # r
        BY <1>1, <1>4, <2>1
    <2>3. CASE i \in 1..Len(began)
        BY <1>3, <2>1, <2>2, <2>3 DEF Late
    <2>4. CASE i \notin 1..Len(began)
        <3>1. began'[i] = r /\ r \in Requests
            BY <1>1, <2>1, <2>4 DEF Requests
        <3>2. pc[q] \notin Resting
            <4>1. pc[q] # "new"
                BY <1>0, <2>2 DEF BeganInv
            <4> QED
                BY <1>0, <1>2, <4>1, Starts DEF GetHot
        <3>3. target[r] # target[q]
            BY <1>2, <1>4, <2>2, <3>1, <3>2 DEF Alone
        <3> QED
            BY <1>4, <3>1, <3>3
    <2> QED
        BY <2>3, <2>4
<1> HIDE DEF Own
<1>5. ASSUME began' = began PROVE Late(began', q, Own)
    BY <1>3, <1>5
<1>6. ASSUME NEW r \in Requests, LoadFromDb(r) PROVE Late(began', q, Own)
    <2>1. ASSUME r \in Queries, began' = Append(began, r) PROVE Late(began', q, Own)
        <3>1. r \notin Range(began) /\ pc[r] \notin Resting /\ target' = target
            BY <1>0, <1>6 DEF LoadFromDb, BeganInv, Resting
        <3> QED
            BY <1>4, <2>1, <3>1
    <2>2. began' = began \/ (r \in Queries /\ began' = Append(began, r))
        BY <1>6 DEF LoadFromDb
    <2> QED
        BY <1>5, <2>1, <2>2
<1>7. ASSUME NEW r \in Queries, CheckQuery(r) PROVE Late(began', q, Own)
    <2>1. CASE Contains(began, r)
        BY <1>5, <1>7, <2>1 DEF CheckQuery
    <2>2. CASE ~Contains(began, r)
        <3>1. r \notin Range(began)
            BY <1>0, <2>2, RangeEquality DEF Contains
        <3>2. began' = Append(began, r) /\ pc[r] \notin Resting /\ target' = target
            BY <1>7, <2>2 DEF CheckQuery, Resting
        <3> QED
            BY <1>4, <3>1, <3>2
    <2> QED
        BY <2>1, <2>2
<1>8. \/ began' = began
      \/ \E r \in Requests : LoadFromDb(r)
      \/ \E r \in Queries : CheckQuery(r)
    BY DEF Next, vars, dbVars, CreateSession, Expire, GetHot, QueryStep, CloseStep, WarmCache,
           SaveUserMessage, Generate, SaveAnswer, CommitRow, FinishQuery, CheckClose, DeleteHot,
           MarkClosed, Abort, Requests
<1> QED
    BY <1>5, <1>6, <1>7, <1>8 DEF Own

(* A row stays, with its session and its answer.                           *)
LEMMA RowStays ==
    ASSUME TypeOK, RowsInv, [Next]_vars, NEW q \in rows
    PROVE  q \in rows' /\ target'[q] = target[q] /\ answer'[q] = answer[q]
<1>1. q \in Queries /\ q \in Requests /\ pc[q] \in {"metrics", "done", "aborted"}
    BY DEF TypeOK, RowsInv, Requests
<1>2. (Idle(q) /\ SameRow(q)) \/ RequestStep(q)
    BY <1>1, StepOf DEF Idle, SameRow
<1>3. ASSUME RequestStep(q) PROVE FinishQuery(q) \/ Abort(q)
    <2>1. QueryStep(q) \/ Abort(q)
        BY <1>1, <1>3, RequestsAssumption DEF RequestStep, GetHot
    <2> QED
        BY <1>1, <2>1 DEF QueryStep, LoadFromDb, WarmCache, CheckQuery, SaveUserMessage, Generate,
                          SaveAnswer, CommitRow
<1>4. FinishQuery(q) \/ Abort(q) => UNCHANGED <<rows, target, answer>>
    BY DEF FinishQuery, Abort, dbVars
<1> QED
    BY <1>2, <1>3, <1>4 DEF Idle, SameRow

(* A step leaves every session's past alone, unless it stores a turn.      *)
LEMMA PastStep ==
    ASSUME SessionInv, StoredInv, Ordered, [Next]_vars
    PROVE  \/ /\ \A q \in Queries : ~CommitRow(q)
              /\ \A s : PastOf(s)' = PastOf(s) /\ RowsOf(s)' = RowsOf(s)
           \/ \E q \in Queries :
                 /\ CommitRow(q)
                 /\ \A s : /\ PastOf(s)' = IF s = target[q] THEN PastOf(s) \o Exchanges(answer)[q]
                                                            ELSE PastOf(s)
                           /\ RowsOf(s)' = IF s = target[q] THEN Append(RowsOf(s), q)
                                                            ELSE RowsOf(s)
<1>0. TypeOK /\ RowsInv
    BY DEF SessionInv
<1>1. CASE \E q \in Queries : CommitRow(q)
    <2>1. PICK q \in Queries : CommitRow(q)
        BY <1>1
    <2>2. pc[q] = "commit" /\ UNCHANGED <<began, target, answer>> /\ rows' = rows \cup {q}
        BY <2>1 DEF CommitRow
    <2>3. ASSUME NEW s
          PROVE  /\ PastOf(s)' = IF s = target[q] THEN PastOf(s) \o Exchanges(answer)[q]
                                                  ELSE PastOf(s)
                 /\ RowsOf(s)' = IF s = target[q] THEN Append(RowsOf(s), q) ELSE RowsOf(s)
        <3>1. /\ PastOf(s)' = Past(began, rows \cup {q}, target, answer, s)
              /\ RowsOf(s)' = Among(began, {p \in rows \cup {q} : target[p] = s})
            BY <2>2 DEF PastOf, RowsOf
        <3> QED
            BY <2>2, <3>1, PastCommit
    <2> QED
        BY <2>1, <2>3
<1>2. CASE ~(\E q \in Queries : CommitRow(q))
    <2>1. rows' = rows
        BY <1>2 DEF Next, vars, dbVars, CreateSession, Expire, GetHot, QueryStep, CloseStep,
               LoadFromDb, WarmCache, CheckQuery, SaveUserMessage, Generate, SaveAnswer,
               FinishQuery, CheckClose, DeleteHot, MarkClosed, Abort
    <2>2. \/ began' = began
          \/ \E p \in Queries : (LoadFromDb(p) \/ CheckQuery(p)) /\ began' = Append(began, p)
        BY DEF Next, vars, dbVars, CreateSession, Expire, GetHot, QueryStep, CloseStep, LoadFromDb,
               WarmCache, CheckQuery, SaveUserMessage, Generate, SaveAnswer, CommitRow,
               FinishQuery, CheckClose, DeleteHot, MarkClosed, Abort
    <2>3. \A p \in Queries \cap rows : pc[p] \in {"metrics", "done", "aborted"}
        BY <1>0 DEF RowsInv
    <2>4. began' = began \/ \E p \in Queries \ rows : began' = Append(began, p)
        BY <2>2, <2>3 DEF LoadFromDb, CheckQuery
    <2>5. \A q \in rows : target'[q] = target[q] /\ answer'[q] = answer[q]
        BY <1>0, RowStays
    <2>6. ASSUME NEW s PROVE PastOf(s)' = PastOf(s) /\ RowsOf(s)' = RowsOf(s)
        <3>1. /\ PastOf(s)' = Past(began', rows, target', answer', s)
              /\ RowsOf(s)' = Among(began', {q \in rows : target'[q] = s})
            BY <2>1 DEF PastOf, RowsOf
        <3> QED
            BY <1>0, <2>4, <2>5, <3>1, PastSame
    <2> QED
        BY <1>2, <2>6
<1> QED
    BY <1>1, <1>2

(* A session once broken stays broken.                                     *)
LEMMA WholeBefore ==
    ASSUME SessionInv, StoredInv, Ordered, [Next]_vars, NEW s,
           Whole(began', rows', target', answer', pc', mem', s)
    PROVE  IsWhole(s)
<1>0. TypeOK /\ BeganInv /\ RowsInv
    BY DEF SessionInv
<1>1. ASSUME NEW q \in Queries, target[q] = s, pc[q] = "aborted", Contains(mem[q], Question(q))
      PROVE  q \in rows
    <2>1. ~RequestStep(q)
        BY <1>1, RequestsAssumption
        DEF RequestStep, GetHot, QueryStep, LoadFromDb, WarmCache, CheckQuery, SaveUserMessage,
            Generate, SaveAnswer, CommitRow, FinishQuery, Abort, Resting
    <2>2. Idle(q) /\ SameRow(q)
        BY <1>0, <2>1, StepOf DEF Idle, SameRow, Requests
    <2>3. q \in rows'
        BY <1>1, <2>2 DEF Whole, Idle
    <2> QED
        BY <2>2, <2>3 DEF SameRow
<1>2. \A q \in rows : target[q] = s => answer[q] # "empty"
    BY <1>0, RowStays DEF Whole
<1>3. 2 * (Len(RowsOf(s)) + 1) <= Window
    <2>1. 2 * (Len(RowsOf(s)') + 1) <= Window
        BY DEF Whole, RowsOf
    <2>2. RowsOf(s) \in Seq(Queries) /\ Len(RowsOf(s)) \in Nat
        BY <1>0, RowsOfSession, LenProperties
    <2>3. RowsOf(s)' = RowsOf(s) \/ \E q \in Queries : RowsOf(s)' = Append(RowsOf(s), q)
        BY PastStep
    <2>4. \A q \in Queries : Len(Append(RowsOf(s), q)) = Len(RowsOf(s)) + 1
        BY <2>2, AppendProperties
    <2> QED
        BY <2>1, <2>2, <2>3, <2>4, WindowAssumption
<1> QED
    BY <1>1, <1>2, <1>3 DEF IsWhole, Whole, RowsOf

(* The invariants after a step that stores no turn.                        *)
LEMMA HeldFrom ==
    ASSUME HeldInv, \A s : PastOf(s)' = PastOf(s), \A s : IsWhole(s)' => IsWhole(s),
           NEW p \in Requests, \A r \in Requests : r # p => Idle(r),
           pc'[p] \in Holding /\ IsWhole(target'[p]) =>
               mem'[p] = PastOf(target'[p]) \o Added(p, pc')
    PROVE  HeldInv'
<1> DEFINE PastNext(s) == Past(began', rows', target', answer', s)
           WholeNext(s) == Whole(began', rows', target', answer', pc', mem', s)
<1>1. \A s : PastNext(s) = PastOf(s) /\ (WholeNext(s) => IsWhole(s))
    BY DEF PastOf, IsWhole
<1>2. \A r \in Requests : r # p =>
          pc'[r] = pc[r] /\ target'[r] = target[r] /\ mem'[r] = mem[r] /\ Added(r, pc') = Added(r, pc)
    BY DEF Idle, Added
<1>3. \A r \in Requests : pc[r] \in Holding /\ IsWhole(target[r]) =>
                              mem[r] = PastOf(target[r]) \o Added(r, pc)
    BY DEF HeldInv, PastOf, IsWhole
<1> HIDE DEF PastNext, WholeNext
<1>4. ASSUME NEW r \in Requests, pc'[r] \in Holding, WholeNext(target'[r])
      PROVE  mem'[r] = PastNext(target'[r]) \o Added(r, pc')
    BY <1>1, <1>2, <1>3, <1>4
<1> QED
    BY <1>4 DEF HeldInv, PastNext, PastOf, WholeNext, IsWhole

LEMMA CachedFrom ==
    ASSUME CachedInv, \A s : PastOf(s)' = PastOf(s), \A s : IsWhole(s)' => IsWhole(s),
           \A s \in Sessions : IsWhole(s)' =>
              \/ HotIs(hot'[s], s, PastOf(s), target', pc')
              \/ /\ hot'[s] = hot[s]
                 /\ \A q \in Queries :
                       /\ OnTurn(q, s, target', pc') <=> OnTurn(q, s, target, pc)
                       /\ OnTurn(q, s, target, pc) => Added(q, pc') = Added(q, pc)
    PROVE  CachedInv'
<1> SUFFICES ASSUME NEW s \in Sessions, Whole(began', rows', target', answer', pc', mem', s)
             PROVE  HotIs(hot'[s], s, Past(began', rows', target', answer', s), target', pc')
    BY DEF CachedInv, PastOf, IsWhole
<1>0. IsWhole(s)'
    BY DEF IsWhole
<1>1. Past(began', rows', target', answer', s) = PastOf(s)
    BY DEF PastOf
<1>2. HotIs(hot[s], s, PastOf(s), target, pc)
    BY <1>0 DEF CachedInv
<1>3. CASE HotIs(hot'[s], s, PastOf(s), target', pc')
    BY <1>1, <1>3
<1>4. CASE /\ hot'[s] = hot[s]
           /\ \A q \in Queries :
                 /\ OnTurn(q, s, target', pc') <=> OnTurn(q, s, target, pc)
                 /\ OnTurn(q, s, target, pc) => Added(q, pc') = Added(q, pc)
    <2>1. HotIs(hot'[s], s, PastOf(s), target', pc')
        BY <1>2, <1>4 DEF HotIs
    <2> QED
        BY <1>1, <2>1
<1> QED
    BY <1>0, <1>3, <1>4

(* Nobody else has a turn in the session of a request that is at work.     *)
LEMMA NobodyElse ==
    ASSUME Alone, NEW p \in Requests, pc[p] \notin Resting
    PROVE  \A q \in Queries : q # p => ~OnTurn(q, target[p], target, pc)
BY DEF Alone, OnTurn, Talking, Resting, Requests

(* A request goes on without a turn, and leaves the cache as it is.        *)
LEMMA QuietStep ==
    ASSUME HeldInv, CachedInv, \A s : PastOf(s)' = PastOf(s), \A s : IsWhole(s)' => IsWhole(s),
           NEW p \in Requests, \A r \in Requests : r # p => Idle(r),
           p \in Queries => pc[p] \notin Talking /\ pc'[p] \notin Talking,
           pc'[p] \in Holding /\ IsWhole(target'[p]) =>
               mem'[p] = PastOf(target'[p]) \o Added(p, pc'),
           \A s \in Sessions : hot'[s] \in {hot[s], NotCached}
    PROVE  HeldInv' /\ CachedInv'
<1>1. HeldInv'
    BY HeldFrom
<1>2. \A q \in Queries : q # p => pc'[q] = pc[q] /\ target'[q] = target[q]
    BY DEF Idle, Requests
<1>3. ASSUME NEW s \in Sessions, NEW q \in Queries
      PROVE  /\ OnTurn(q, s, target', pc') <=> OnTurn(q, s, target, pc)
             /\ OnTurn(q, s, target, pc) => Added(q, pc') = Added(q, pc)
    BY <1>2 DEF OnTurn, Added
<1>4. ASSUME NEW s \in Sessions, hot'[s] = NotCached
      PROVE  HotIs(hot'[s], s, PastOf(s), target', pc')
    BY <1>4 DEF HotIs
<1>5. CachedInv'
    BY <1>3, <1>4, CachedFrom
<1> QED
    BY <1>1, <1>5

(* A query on its turn holds, and leaves in Redis, the past and its own.   *)
LEMMA TurnStep ==
    ASSUME HeldInv, CachedInv, Alone,
           \A s : PastOf(s)' = PastOf(s), \A s : IsWhole(s)' => IsWhole(s),
           NEW q \in Queries, \A r \in Requests : r # q => Idle(r),
           pc[q] \notin Resting, pc'[q] \in Talking, target'[q] = target[q],
           IsWhole(target[q]) => mem'[q] = PastOf(target[q]) \o Added(q, pc'),
           \A s \in Sessions : hot'[s] = IF s = target[q] THEN mem'[q] ELSE hot[s]
    PROVE  HeldInv' /\ CachedInv'
<1>0. q \in Requests
    BY DEF Requests
<1>1. HeldInv'
    BY <1>0, HeldFrom
<1>2. \A p \in Queries : p # q =>
          pc'[p] = pc[p] /\ target'[p] = target[p] /\ Added(p, pc') = Added(p, pc)
    BY DEF Idle, Requests, Added
<1>3. \A p \in Queries : p # q => ~OnTurn(p, target[q], target, pc)
    BY <1>0, NobodyElse
<1>4. IsWhole(target[q]) => HotIs(mem'[q], target[q], PastOf(target[q]), target', pc')
    BY <1>2, <1>3 DEF HotIs, OnTurn
<1>5. ASSUME NEW s \in Sessions, s # target[q], NEW p \in Queries
      PROVE  /\ OnTurn(p, s, target', pc') <=> OnTurn(p, s, target, pc)
             /\ OnTurn(p, s, target, pc) => Added(p, pc') = Added(p, pc)
    BY <1>2, <1>5 DEF OnTurn
<1>6. CachedInv'
    BY <1>4, <1>5, CachedFrom
<1> QED
    BY <1>1, <1>6

(* Before its turn, and when it rests again, a request holds the past.     *)
LEMMA AddsNothing ==
    ASSUME TypeOK, BeganInv, NEW r, NEW steps, steps[r] \notin Talking, NEW s
    PROVE  PastOf(s) \o Added(r, steps) = PastOf(s)
<1>1. Added(r, steps) = <<>>
    BY DEF Added, Talking
<1>2. PastOf(s) \in Seq(Messages)
    BY PastType
<1> QED
    BY <1>1, <1>2, ConcatEmptySeq

LEMMA TurnQuery ==
    ASSUME SessionInv, StoredInv, TurnInv,
           \A s : PastOf(s)' = PastOf(s), \A s : IsWhole(s)' => IsWhole(s),
           NEW q \in Queries, \A r \in Requests : r # q => Idle(r),
           CheckQuery(q) \/ SaveUserMessage(q) \/ Generate(q) \/ SaveAnswer(q) \/ FinishQuery(q)
    PROVE  HeldInv' /\ CachedInv'
<1>0. /\ TypeOK /\ BeganInv /\ RowsInv /\ HeldInv /\ CachedInv /\ Alone /\ q \in Requests
      /\ target' = target
    BY DEF SessionInv, TurnInv, Requests, CheckQuery, SaveUserMessage, Generate, SaveAnswer,
           FinishQuery
<1>1. pc[q] \notin Resting /\ target[q] \in Sessions
    BY <1>0 DEF TypeOK, Resting, CheckQuery, SaveUserMessage, Generate, SaveAnswer, FinishQuery
<1> DEFINE past == PastOf(target[q])
           whole == IsWhole(target[q])
<1>2. pc[q] \in Holding /\ whole => mem[q] = past \o Added(q, pc)
    BY <1>0 DEF HeldInv
<1>3. \A steps : steps[q] \notin Talking => past \o Added(q, steps) = past
    BY <1>0, AddsNothing
<1> HIDE DEF past, whole
<1>4. CASE CheckQuery(q) \/ FinishQuery(q)
    <2>1. /\ pc'[q] \in {"saveUser", "error", "done"} /\ pc[q] \in {"check", "metrics"}
          /\ (pc'[q] = "saveUser" => pc[q] = "check")
          /\ mem' = mem /\ hot' = hot
        BY <1>0, <1>4 DEF CheckQuery, FinishQuery, Goto, TypeOK
    <2>2. pc[q] \notin Talking /\ pc'[q] \notin Talking /\ (pc'[q] \in Holding => pc[q] \in Holding)
        BY <2>1 DEF Talking, Holding
    <2>3. pc'[q] \in Holding /\ IsWhole(target'[q]) =>
              mem'[q] = PastOf(target'[q]) \o Added(q, pc')
        BY <1>0, <1>2, <1>3, <2>1, <2>2 DEF past, whole
    <2> QED
        BY <1>0, <2>1, <2>2, <2>3, QuietStep
<1>5. CASE SaveUserMessage(q)
    <2>1. pc[q] = "saveUser" /\ pc'[q] = "generate"
        BY <1>0, <1>5 DEF SaveUserMessage, Goto, TypeOK
    <2>2. whole => mem[q] = past
        BY <1>2, <1>3, <2>1 DEF Holding, Talking
    <2>3. whole => Push(mem[q], Question(q)) = past \o <<Question(q)>>
        BY <2>2, PushPast DEF past, whole
    <2>4. (whole => mem'[q] = past \o <<Question(q)>>) /\ \A s \in Sessions :
              hot'[s] = IF s = target[q] THEN mem'[q] ELSE hot[s]
        BY <1>0, <1>5, <2>3 DEF SaveUserMessage, Save, Question, TypeOK
    <2>5. Added(q, pc') = <<Question(q)>> /\ pc'[q] \in Talking
        BY <2>1 DEF Added, Talking
    <2> QED
        BY <1>0, <1>1, <2>4, <2>5, TurnStep DEF past, whole
<1>6. CASE SaveAnswer(q)
    <2>1. pc[q] = "saveAnswer" /\ pc'[q] = "commit"
        BY <1>0, <1>6 DEF SaveAnswer, Goto, TypeOK
    <2>2. whole => mem[q] = past \o <<Question(q)>>
        BY <1>2, <2>1 DEF Holding, Talking, Added
    <2>3. whole => Push(mem[q], Reply(q)) = past \o <<Question(q), Reply(q)>>
        BY <2>2, PushPast DEF past, whole
    <2>4. (whole => mem'[q] = past \o <<Question(q), Reply(q)>>) /\ \A s \in Sessions :
              hot'[s] = IF s = target[q] THEN mem'[q] ELSE hot[s]
        BY <1>0, <1>6, <2>3 DEF SaveAnswer, Save, Reply, TypeOK
    <2>5. Added(q, pc') = <<Question(q), Reply(q)>> /\ pc'[q] \in Talking
        BY <2>1 DEF Added, Talking
    <2> QED
        BY <1>0, <1>1, <2>4, <2>5, TurnStep DEF past, whole
<1>7. CASE Generate(q)
    <2>1. pc[q] = "generate" /\ pc'[q] = "saveAnswer" /\ mem' = mem /\ hot' = hot
        BY <1>0, <1>7 DEF Generate, Goto, TypeOK
    <2>2. /\ Added(q, pc) = <<Question(q)>> /\ Added(q, pc') = <<Question(q)>>
          /\ pc[q] \in Talking /\ pc'[q] \in Talking /\ pc[q] \in Holding
        BY <2>1 DEF Added, Talking, Holding
    <2>3. IsWhole(target[q]) => mem'[q] = PastOf(target[q]) \o Added(q, pc')
        BY <1>2, <2>1, <2>2 DEF past, whole
    <2>4. \A p \in Queries : Added(p, pc') = Added(p, pc)
                             /\ (pc'[p] \in Talking <=> pc[p] \in Talking)
        BY <2>2 DEF Idle, Added, Requests
    <2>5. ASSUME NEW s \in Sessions, NEW p \in Queries
          PROVE  /\ OnTurn(p, s, target', pc') <=> OnTurn(p, s, target, pc)
                 /\ OnTurn(p, s, target, pc) => Added(p, pc') = Added(p, pc)
        BY <1>0, <2>4 DEF OnTurn
    <2>6. CachedInv'
        BY <1>0, <2>1, <2>5, CachedFrom
    <2>7. HeldInv'
        BY <1>0, <2>3, HeldFrom
    <2> QED
        BY <2>6, <2>7
<1> QED
    BY <1>4, <1>5, <1>6, <1>7

LEMMA TurnCommit ==
    ASSUME SessionInv, TurnInv, NEW q \in Queries, CommitRow(q),
           \A r \in Requests : r # q => Idle(r),
           \A s : PastOf(s)' = IF s = target[q] THEN PastOf(s) \o Exchanges(answer)[q]
                                                ELSE PastOf(s),
           \A s : IsWhole(s)' => IsWhole(s)
    PROVE  HeldInv' /\ CachedInv'
<1>0. /\ TypeOK /\ BeganInv /\ HeldInv /\ CachedInv /\ Alone /\ q \in Requests
      /\ target' = target /\ mem' = mem /\ hot' = hot /\ pc[q] = "commit" /\ pc'[q] = "metrics"
      /\ answer' = answer /\ rows' = rows \cup {q}
    BY DEF SessionInv, TurnInv, Requests, CommitRow, Goto, TypeOK
<1>1. pc[q] \notin Resting /\ Added(q, pc) = <<Question(q), Reply(q)>>
    BY <1>0 DEF Resting, Added
<1> DEFINE PastNext(s) == Past(began', rows', target', answer', s)
           WholeNext(s) == Whole(began', rows', target', answer', pc', mem', s)
<1>2. ASSUME NEW s, WholeNext(s)
      PROVE  /\ IsWhole(s)
             /\ PastNext(s) = IF s = target[q] THEN PastOf(s) \o Added(q, pc) ELSE PastOf(s)
    <2>1. IsWhole(s)
        BY <1>2 DEF IsWhole
    <2>2. PastNext(s) = IF s = target[q] THEN PastOf(s) \o Exchanges(answer)[q] ELSE PastOf(s)
        BY DEF PastOf
    <2>3. s = target[q] => answer[q] # "empty"
        BY <1>0, <1>2 DEF Whole
    <2>4. s = target[q] => Exchanges(answer)[q] = Added(q, pc)
        BY <1>1, <2>3 DEF Exchanges
    <2> QED
        BY <2>1, <2>2, <2>4
<1>3. \A r \in Requests : r # q => pc'[r] = pc[r] /\ Added(r, pc') = Added(r, pc)
    BY DEF Idle, Added
<1> HIDE DEF PastNext, WholeNext
<1>4. ASSUME NEW r \in Requests, pc'[r] \in Holding, WholeNext(target'[r])
      PROVE  mem'[r] = PastNext(target'[r]) \o Added(r, pc')
    <2>1. r # q /\ pc[r] \in Holding /\ pc[r] \notin Resting
        BY <1>0, <1>3, <1>4 DEF Holding, Talking, Resting
    <2>2. target[r] # target[q]
        BY <1>0, <1>1, <2>1 DEF Alone
    <2> QED
        BY <1>0, <1>2, <1>3, <1>4, <2>1, <2>2 DEF HeldInv
<1>5. ASSUME NEW s \in Sessions, WholeNext(s)
      PROVE  HotIs(hot'[s], s, PastNext(s), target', pc')
    <2>0. HotIs(hot[s], s, PastOf(s), target, pc) /\ Queries \subseteq Requests
        BY <1>0, <1>2, <1>5 DEF CachedInv, Requests
    <2>1. CASE s # target[q]
        <3>1. \A p \in Queries : /\ OnTurn(p, s, target', pc') <=> OnTurn(p, s, target, pc)
                                 /\ OnTurn(p, s, target, pc) => Added(p, pc') = Added(p, pc)
            BY <1>0, <1>3, <2>0, <2>1 DEF OnTurn
        <3> QED
            BY <1>0, <1>2, <1>5, <2>0, <2>1, <3>1 DEF HotIs
    <2>2. CASE s = target[q]
        <3>1. \A p \in Queries : p # q => ~OnTurn(p, s, target, pc)
            BY <1>0, <1>1, <2>2, NobodyElse
        <3>2. \A p \in Queries : ~OnTurn(p, s, target', pc')
            BY <1>0, <1>3, <2>0, <3>1 DEF OnTurn, Talking
        <3>3. OnTurn(q, s, target, pc)
            BY <1>0, <2>2 DEF OnTurn, Talking
        <3> QED
            BY <1>0, <1>2, <1>5, <2>0, <2>2, <3>2, <3>3 DEF HotIs
    <2> QED
        BY <2>1, <2>2
<1> QED
    BY <1>4, <1>5 DEF HeldInv, CachedInv, PastNext, PastOf, WholeNext, IsWhole

(* Reading a session, by a request that is alone in it.                    *)
LEMMA TurnLoad ==
    ASSUME SessionInv, StoredInv, TurnInv, Serial, [Next]_vars,
           \A s : PastOf(s)' = PastOf(s), \A s : IsWhole(s)' => IsWhole(s),
           NEW p \in Requests, \A r \in Requests : r # p => Idle(r),
           LoadFromDb(p) \/ WarmCache(p) \/ \E s \in Sessions : GetHot(p, s)
    PROVE  HeldInv' /\ CachedInv'
<1>0. /\ TypeOK /\ BeganInv /\ HeldInv /\ CachedInv /\ Alone
    BY DEF SessionInv, TurnInv
<1>1. \A steps, s : steps[p] \notin Talking => PastOf(s) \o Added(p, steps) = PastOf(s)
    BY <1>0, AddsNothing
<1>2. ASSUME NEW s \in Sessions, GetHot(p, s) PROVE HeldInv' /\ CachedInv'
    <2>1. /\ pc[p] = "new" /\ pc'[p] \in {"cold", "check"} /\ hot' = hot /\ target'[p] = s
          /\ pc'[p] = "check" => hot[s] # NotCached /\ mem'[p] = hot[s]
        BY <1>0, <1>2 DEF GetHot, Goto, TypeOK
    <2>2. pc[p] \notin Talking /\ pc'[p] \notin Talking /\ pc'[p] \notin Resting
          /\ (pc'[p] \in Holding => pc'[p] = "check")
        BY <2>1 DEF Talking, Holding, Resting
    <2>3. \A r \in Requests : target[r] = s => pc[r] \in Resting
        BY <1>0, <2>1, <2>2, Starts DEF Resting
    <2>4. \A q \in Queries : ~OnTurn(q, s, target, pc)
        BY <2>3 DEF OnTurn, Talking, Resting, Requests
    <2>5. hot[s] # NotCached /\ IsWhole(s) => hot[s] = PastOf(s)
        BY <1>0, <2>4 DEF CachedInv, HotIs
    <2>6. pc'[p] \in Holding /\ IsWhole(target'[p]) =>
              mem'[p] = PastOf(target'[p]) \o Added(p, pc')
        BY <1>1, <2>1, <2>2, <2>5
    <2> QED
        BY <1>0, <2>1, <2>2, <2>6, QuietStep
<1>3. CASE LoadFromDb(p)
    <2>1. /\ pc[p] = "cold" /\ pc'[p] \in {"error", "warm"} /\ hot' = hot /\ target' = target
          /\ pc'[p] = "warm" => mem'[p] = ColdHistory(target[p])
        BY <1>0, <1>3 DEF LoadFromDb, Goto, TypeOK
    <2>2. pc[p] \notin Talking /\ pc'[p] \notin Talking /\ (pc'[p] \in Holding => pc'[p] = "warm")
        BY <2>1 DEF Talking, Holding
    <2>3. \A s : IsWhole(s) => ColdHistory(s) = PastOf(s)
        BY ColdIsPast
    <2>4. pc'[p] \in Holding /\ IsWhole(target'[p]) =>
              mem'[p] = PastOf(target'[p]) \o Added(p, pc')
        BY <1>1, <2>1, <2>2, <2>3
    <2> QED
        BY <1>0, <2>1, <2>2, <2>4, QuietStep
<1>4. CASE WarmCache(p)
    <2>1. /\ pc[p] = "warm" /\ pc'[p] = "check" /\ target' = target /\ mem' = mem
          /\ \A s \in Sessions : hot'[s] = IF s = target[p] THEN mem[p] ELSE hot[s]
        BY <1>0, <1>4 DEF WarmCache, Goto, TypeOK
    <2>2. pc[p] \notin Talking /\ pc'[p] \notin Talking /\ pc[p] \in Holding /\ pc[p] \notin Resting
        BY <2>1 DEF Talking, Holding, Resting
    <2>3. IsWhole(target[p]) => mem[p] = PastOf(target[p])
        BY <1>0, <1>1, <2>2 DEF HeldInv
    <2>4. HeldInv'
        BY <1>0, <1>1, <2>1, <2>2, <2>3, HeldFrom
    <2>5. \A q \in Queries : q # p => pc'[q] = pc[q] /\ Added(q, pc') = Added(q, pc)
        BY DEF Idle, Requests, Added
    <2>6. \A q \in Queries : q # p => ~OnTurn(q, target[p], target, pc)
        BY <1>0, <2>2, NobodyElse
    <2>7. IsWhole(target[p]) => HotIs(mem[p], target[p], PastOf(target[p]), target', pc')
        BY <2>1, <2>2, <2>3, <2>5, <2>6 DEF HotIs, OnTurn
    <2>8. ASSUME NEW s \in Sessions, s # target[p], NEW q \in Queries
          PROVE  /\ OnTurn(q, s, target', pc') <=> OnTurn(q, s, target, pc)
                 /\ OnTurn(q, s, target, pc) => Added(q, pc') = Added(q, pc)
        BY <2>1, <2>2, <2>5, <2>8 DEF OnTurn
    <2>9. CachedInv'
        BY <1>0, <2>1, <2>7, <2>8, CachedFrom
    <2> QED
        BY <2>4, <2>9
<1> QED
    BY <1>2, <1>3, <1>4

(* Closing a session takes its list away, creating one adds an empty list. *)
LEMMA TurnOther ==
    ASSUME SessionInv, StoredInv, TurnInv, [Next]_vars,
           \A s : PastOf(s)' = PastOf(s), \A s : IsWhole(s)' => IsWhole(s),
           UNCHANGED <<pc, target, mem>>,
           UNCHANGED vars \/ \E s \in Sessions : CreateSession(s) \/ Expire(s)
    PROVE  HeldInv' /\ CachedInv'
<1>0. /\ TypeOK /\ BeganInv /\ HeldInv /\ CachedInv
    BY DEF SessionInv, TurnInv
<1>1. HeldInv'
    <2> DEFINE PastNext(s) == Past(began', rows', target', answer', s)
               WholeNext(s) == Whole(began', rows', target', answer', pc', mem', s)
    <2>1. \A s : PastNext(s) = PastOf(s) /\ (WholeNext(s) => IsWhole(s))
        BY DEF PastOf, IsWhole
    <2> HIDE DEF PastNext, WholeNext
    <2>2. \A r \in Requests : pc'[r] \in Holding /\ WholeNext(target'[r]) =>
              mem'[r] = PastNext(target'[r]) \o Added(r, pc')
        BY <1>0, <2>1 DEF HeldInv
    <2> QED
        BY <2>2 DEF HeldInv, PastNext, PastOf, WholeNext, IsWhole
<1>2. ASSUME NEW s \in Sessions, sess[s] = "absent"
      PROVE  HotIs(<<>>, s, PastOf(s), target, pc)
    <2>1. \A q \in Queries : ~OnTurn(q, s, target, pc)
        BY <1>2 DEF StoredInv, OnTurn, Talking, Admitted
    <2>2. RowsOf(s) \in Seq(Queries) /\ Range(RowsOf(s)) = {}
        BY <1>0, <1>2, RowsOfSession DEF StoredInv
    <2>3. RowsOf(s) = <<>>
        <3> SUFFICES ASSUME RowsOf(s) # <<>> PROVE FALSE
            OBVIOUS
        <3>1. PICK qs \in Seq(Queries), q \in Queries : RowsOf(s) = Append(qs, q)
            BY <2>2, SequenceEmptyOrAppend
        <3>2. Range(Append(qs, q)) = Range(qs) \cup {q}
            BY RangeAppend
        <3> QED
            BY <2>2, <3>1, <3>2
    <2>4. PastOf(s) = Turns(Exchanges(answer), <<>>)
        BY <1>0, <2>3, PastType
    <2>5. PastOf(s) = <<>>
        BY <2>4, TurnsEmpty
    <2> QED
        BY <2>1, <2>5 DEF HotIs
<1>3. ASSUME NEW s \in Sessions
      PROVE  hot'[s] = hot[s] \/ HotIs(hot'[s], s, PastOf(s), target', pc')
    <2>1. \/ hot'[s] \in {hot[s], NotCached}
          \/ sess[s] = "absent" /\ hot'[s] = <<>>
        BY <1>0 DEF vars, CreateSession, Expire, TypeOK
    <2> QED
        BY <1>2, <2>1 DEF HotIs
<1>4. CachedInv'
    <2>1. \A q \in Queries, s \in Sessions :
              /\ OnTurn(q, s, target', pc') <=> OnTurn(q, s, target, pc)
              /\ Added(q, pc') = Added(q, pc)
        BY DEF OnTurn, Added
    <2> QED
        BY <1>0, <1>3, <2>1, CachedFrom
<1> QED
    BY <1>1, <1>4

LEMMA TurnClose ==
    ASSUME SessionInv, TurnInv,
           \A s : PastOf(s)' = PastOf(s), \A s : IsWhole(s)' => IsWhole(s),
           NEW c \in Closers, c \in Requests, \A r \in Requests : r # c => Idle(r),
           CheckClose(c) \/ DeleteHot(c) \/ MarkClosed(c)
    PROVE  HeldInv' /\ CachedInv'
<1>0. TypeOK /\ HeldInv /\ CachedInv /\ c \notin Queries
    BY RequestsAssumption DEF SessionInv, TurnInv
<1>1. pc'[c] \notin Holding
    BY <1>0 DEF CheckClose, DeleteHot, MarkClosed, Goto, TypeOK, Holding, Talking
<1>2. \A s \in Sessions : hot'[s] \in {hot[s], NotCached}
    BY <1>0 DEF CheckClose, DeleteHot, MarkClosed, TypeOK
<1> QED
    BY <1>0, <1>1, <1>2, QuietStep

(* A query that dies with its question in Redis breaks its session; any    *)
(* other request that dies leaves the lists as they are.                   *)
LEMMA TurnAbort ==
    ASSUME SessionInv, TurnInv,
           \A s : PastOf(s)' = PastOf(s), \A s : IsWhole(s)' => IsWhole(s),
           NEW p \in Requests, \A r \in Requests : r # p => Idle(r), Abort(p)
    PROVE  HeldInv' /\ CachedInv'
<1>0. /\ TypeOK /\ BeganInv /\ RowsInv /\ HeldInv /\ CachedInv
      /\ UNCHANGED <<hot, mem, target, rows>> /\ pc'[p] = "aborted" /\ pc[p] \notin Resting
    BY DEF SessionInv, TurnInv, Abort, Goto, TypeOK, dbVars
<1>1. pc'[p] \notin Holding /\ pc'[p] \notin Talking
    BY <1>0 DEF Holding, Talking
<1>2. ASSUME p \notin Queries \/ pc[p] \notin Talking PROVE HeldInv' /\ CachedInv'
    BY <1>0, <1>1, <1>2, QuietStep
<1>3. ASSUME p \in Queries, pc[p] \in Talking PROVE HeldInv' /\ CachedInv'
    <2> DEFINE past == PastOf(target[p])
    <2>1. HeldInv'
        BY <1>0, <1>1, HeldFrom
    <2>2. ASSUME IsWhole(target[p]) PROVE Contains(mem[p], Question(p))
        <3>1. mem[p] = past \o Added(p, pc)
            BY <1>0, <1>3, <2>2 DEF HeldInv, Holding
        <3>2. past \in Seq(Messages) /\ Question(p) \in Messages /\ Reply(p) \in Messages
            BY <1>0, <1>3, PastType DEF Question, Reply, Messages, Roles
        <3> HIDE DEF past
        <3> DEFINE one == Append(past, Question(p))
        <3>3. /\ one \in Seq(Messages) /\ Len(one) = Len(past) + 1 /\ Len(past) \in Nat
              /\ one[Len(past) + 1] = Question(p)
            BY <3>2, AppendProperties
        <3>4. past \o <<Question(p)>> = one /\ past \o <<Question(p), Reply(p)>> = Append(one, Reply(p))
            BY <3>2, ConcatPair
        <3>5. mem[p] = one \/ mem[p] = Append(one, Reply(p))
            BY <1>3, <3>1, <3>4 DEF Added, Talking
        <3> HIDE DEF one
        <3>6. /\ Len(Append(one, Reply(p))) = Len(past) + 2
              /\ Append(one, Reply(p))[Len(past) + 1] = Question(p)
            BY <3>2, <3>3, AppendProperties
        <3>7. Len(past) + 1 \in 1..Len(mem[p]) /\ mem[p][Len(past) + 1] = Question(p)
            BY <3>3, <3>5, <3>6
        <3> QED
            BY <3>7 DEF Contains
    <2>3. ASSUME NEW s, s = target[p] PROVE ~IsWhole(s)'
        <3>1. p \notin rows
            BY <1>0, <1>3 DEF RowsInv, Talking
        <3>2. ASSUME Whole(began', rows', target', answer', pc', mem', target[p]) PROVE FALSE
            <4>1. IsWhole(target[p])
                BY <3>2 DEF IsWhole
            <4>2. target'[p] = target[p] /\ pc'[p] = "aborted" /\ Contains(mem'[p], Question(p))
                BY <1>0, <2>2, <4>1
            <4> QED
                BY <1>0, <1>3, <3>1, <3>2, <4>2 DEF Whole
        <3> QED
            BY <2>3, <3>2 DEF IsWhole
    <2>4. \A q \in Queries : q # p => pc'[q] = pc[q] /\ Added(q, pc') = Added(q, pc)
        BY DEF Idle, Requests, Added
    <2>5. ASSUME NEW s \in Sessions, s # target[p], NEW q \in Queries
          PROVE  /\ OnTurn(q, s, target', pc') <=> OnTurn(q, s, target, pc)
                 /\ OnTurn(q, s, target, pc) => Added(q, pc') = Added(q, pc)
        BY <1>0, <2>4, <2>5 DEF OnTurn
    <2>6. CachedInv'
        BY <1>0, <2>3, <2>5, CachedFrom
    <2> QED
        BY <2>1, <2>6
<1> QED
    BY <1>2, <1>3

LEMMA ListsTurn ==
    ASSUME SessionInv, StoredInv, TurnInv, Serial, [Next]_vars
    PROVE  HeldInv' /\ CachedInv'
<1>0. TypeOK /\ Ordered
    BY DEF SessionInv, TurnInv
<1>5. \A s : IsWhole(s)' => IsWhole(s)
    BY <1>0, WholeBefore DEF IsWhole
<1> DEFINE Same == /\ \A q \in Queries : ~CommitRow(q)
                   /\ \A s : PastOf(s)' = PastOf(s)
           Others(p) == \A r \in Requests : r # p => Idle(r)
<1>1. ASSUME NEW q \in Queries, CommitRow(q),
             \A s : PastOf(s)' = IF s = target[q] THEN PastOf(s) \o Exchanges(answer)[q]
                                                  ELSE PastOf(s)
      PROVE  HeldInv' /\ CachedInv'
    <2>1. Others(q)
        BY <1>0, <1>1 DEF CommitRow, Goto, TypeOK, Idle
    <2> QED
        BY <1>1, <1>5, <2>1, TurnCommit
<1>2. ASSUME Same, NEW p \in Requests, RequestStep(p), Others(p) PROVE HeldInv' /\ CachedInv'
    <2>1. CASE Abort(p)
        BY <1>2, <1>5, <2>1, TurnAbort
    <2>2. CASE LoadFromDb(p) \/ WarmCache(p) \/ \E s \in Sessions : GetHot(p, s)
        BY <1>2, <1>5, <2>2, TurnLoad
    <2>3. ASSUME p \in Queries,
                 CheckQuery(p) \/ SaveUserMessage(p) \/ Generate(p) \/ SaveAnswer(p) \/ FinishQuery(p)
          PROVE  HeldInv' /\ CachedInv'
        BY <1>2, <1>5, <2>3, TurnQuery
    <2>4. ASSUME p \in Closers, CheckClose(p) \/ DeleteHot(p) \/ MarkClosed(p)
          PROVE  HeldInv' /\ CachedInv'
        BY <1>2, <1>5, <2>4, TurnClose
    <2> QED
        BY <1>2, <2>1, <2>2, <2>3, <2>4 DEF RequestStep, QueryStep, CloseStep
<1>3. ASSUME Same, UNCHANGED <<pc, target, mem>>,
             UNCHANGED vars \/ \E s \in Sessions : CreateSession(s) \/ Expire(s)
      PROVE  HeldInv' /\ CachedInv'
    BY <1>3, <1>5, TurnOther
<1>4. Same => HeldInv' /\ CachedInv'
    <2> HIDE DEF Same, Others
    <2>1. \/ \E p \in Requests : RequestStep(p) /\ Others(p)
          \/ /\ UNCHANGED <<pc, target, mem>>
             /\ UNCHANGED vars \/ \E s \in Sessions : CreateSession(s) \/ Expire(s)
        BY <1>0, StepOf DEF Others
    <2> QED
        BY <1>2, <1>3, <2>1
<1> QED
    BY <1>0, <1>1, <1>4, PastStep

(* Together with what holds however requests overlap, that is inductive.   *)
LEMMA SerialAlways ==
    ASSUME Serial
    PROVE  Spec => [](SessionInv /\ StoredInv /\ TurnInv)
<1>1. Init => StoredInv /\ TurnInv
    <2> SUFFICES ASSUME Init PROVE StoredInv /\ TurnInv
        OBVIOUS
    <2>1. \A r \in Requests : pc[r] = "new"
        BY DEF Init
    <2>2. \A q \in Queries : q \in Requests
        BY DEF Requests
    <2>3. \A s \in Sessions : hot[s] = NotCached
        BY DEF Init
    <2>4. StoredInv
        BY <2>1, <2>2 DEF Init, StoredInv, Admitted
    <2>5. Alone /\ Ordered
        BY <2>1, <2>2 DEF Alone, Ordered, Resting
    <2>6. HeldInv /\ CachedInv
        BY <2>1, <2>3 DEF HeldInv, CachedInv, HotIs, Holding, Talking
    <2> QED
        BY <2>4, <2>5, <2>6 DEF TurnInv
<1>2. SessionInv /\ StoredInv /\ TurnInv /\ [Next]_vars => (SessionInv /\ StoredInv /\ TurnInv)'
    <2> SUFFICES ASSUME SessionInv, StoredInv, TurnInv, [Next]_vars
                 PROVE  (SessionInv /\ StoredInv /\ TurnInv)'
        OBVIOUS
    <2>1. SessionInv'
        BY TypeStep, ListsStep, QuestionLastStep, BeganStep, RowsStep DEF SessionInv
    <2>2. StoredInv'
        BY StoredStep
    <2>3. Alone' /\ Ordered'
        BY AloneStep, OrderedStep DEF SessionInv, TurnInv
    <2>4. HeldInv' /\ CachedInv'
        BY ListsTurn
    <2> QED
        BY <2>1, <2>2, <2>3, <2>4 DEF TurnInv
<1> QED
    BY SessionInit, <1>1, <1>2, PTL DEF Spec

(* Where requests take turns, an answer of an unbroken session is          *)
(* generated from every earlier question and answer of it, in order, and   *)
(* its own question, whether the list came from Redis or from rows.        *)
THEOREM WholeContext ==
    ASSUME Serial
    PROVE  Spec => []ContextIsHistory
<1>1. ASSUME SessionInv, StoredInv, TurnInv PROVE ContextIsHistory
    <2> SUFFICES ASSUME NEW q \in Queries, pc[q] = "generate", IsWhole(target[q])
                 PROVE  LET earlier == RowsOf(target[q])
                            context == mem[q]
                        IN  /\ Len(context) = 2 * Len(earlier) + 1
                            /\ Last(context) = <<"user", q>>
                            /\ \A i \in 1..Len(earlier) :
                                  /\ context[2 * i - 1] = <<"user", earlier[i]>>
                                  /\ context[2 * i] = <<"assistant", earlier[i]>>
        BY UnbrokenIsWhole DEF ContextIsHistory
    <2> DEFINE past == PastOf(target[q])
               earlier == RowsOf(target[q])
    <2>1. mem[q] = past \o <<Question(q)>> /\ q \in Requests
        BY <1>1 DEF TurnInv, HeldInv, Holding, Talking, Added, Requests
    <2>2. past \in Seq(Messages) /\ Question(q) \in Messages
        BY <1>1, PastType DEF SessionInv, Question, Messages, Roles
    <2>3. /\ Len(past) = 2 * Len(earlier) /\ Len(earlier) \in Nat
          /\ \A i \in 1..Len(earlier) : /\ past[2 * i - 1] = Question(earlier[i])
                                        /\ past[2 * i] = Reply(earlier[i])
        BY <1>1, PastFits, RowsOfSession, LenProperties DEF SessionInv
    <2> HIDE DEF past, earlier
    <2>4. mem[q] = Append(past, Question(q))
        BY <2>1, <2>2, ConcatPair
    <2>5. /\ Len(mem[q]) = Len(past) + 1 /\ mem[q][Len(past) + 1] = Question(q)
          /\ \A i \in 1..Len(past) : mem[q][i] = past[i]
        BY <2>2, <2>4, AppendProperties
    <2>6. ASSUME NEW i \in 1..Len(earlier)
          PROVE  /\ mem[q][2 * i - 1] = <<"user", earlier[i]>>
                 /\ mem[q][2 * i] = <<"assistant", earlier[i]>>
        <3>1. 2 * i - 1 \in 1..Len(past) /\ 2 * i \in 1..Len(past)
            BY <2>3
        <3> QED
            BY <2>3, <2>5, <3>1 DEF Question, Reply
    <2> QED
        BY <2>3, <2>5, <2>6 DEF Last, Question, earlier
<1> QED
    BY SerialAlways, <1>1, PTL

------------------------------------------------------------------------------
(* Turns are kept, whatever their answers and whoever dies.                *)

(* Unless it is full, list l has the question of every row of session s.   *)
Keeps(l, rw, tgt, s) ==
    Len(l) < Window => \A q \in rw : tgt[q] = s => Question(q) \in Range(l)

(* The lists in use do; a query on its turn also has its own question, and *)
(* Redis, if it has the session, has what that query saved last.           *)
KeptInv ==
    /\ \A s \in Sessions : hot[s] # NotCached => Keeps(hot[s], rows, target, s)
    /\ \A r \in Requests : pc[r] \in Holding => Keeps(mem[r], rows, target, target[r])
    /\ \A q \in Queries : pc[q] \in Talking =>
          /\ Len(mem[q]) < Window => Question(q) \in Range(mem[q])
          /\ hot[target[q]] \in {NotCached, mem[q]}

(* A list that is not full after a push only got longer.                   *)
LEMMA PushShort ==
    ASSUME NEW l \in Seq(Messages), NEW m \in Messages, Len(Push(l, m)) < Window
    PROVE  Len(l) < Window /\ Range(Push(l, m)) = Range(l) \cup {m}
<1> DEFINE all == Append(l, m)
           N == Len(all)
<1>1. all \in Seq(Messages) /\ N = Len(l) + 1 /\ Len(l) \in Nat /\ N \in Nat
    BY AppendProperties, LenProperties
<1> HIDE DEF all
<1>2. Len(l) < Window
    <2> SUFFICES ASSUME ~(Len(l) < Window) PROVE FALSE
        OBVIOUS
    <2> DEFINE k == N - Window + 1
    <2>1. N > Window /\ k \in Nat \ {0} /\ k <= N /\ N - k + 1 = Window
        BY <1>1, WindowAssumption
    <2>2. Push(l, m) = SubSeq(all, k, N)
        BY <2>1 DEF Push, all
    <2> HIDE DEF k
    <2>3. \A i \in k..N : all[i] \in Messages
        BY <1>1, <2>1, ElementOfSeq
    <2>4. Len(SubSeq(all, k, N)) = Window
        <3>1. Len(SubSeq(all, k, N)) = IF k <= N THEN N - k + 1 ELSE 0
            BY <1>1, <2>1, <2>3, SubSeqProperties
        <3> QED
            BY <2>1, <3>1
    <2> QED
        BY <2>2, <2>4, WindowAssumption
<1>3. Push(l, m) = all
    BY <1>2, PushRoom DEF all
<1>4. Range(all) = Range(l) \cup {m}
    BY RangeAppend DEF all
<1> QED
    BY <1>2, <1>3, <1>4

(* A transcript has the question of each of its rows.                      *)
LEMMA TurnsAsk ==
    ASSUME NEW ex, IsExchange(ex)
    PROVE  \A qs \in Seq(Queries) :
               /\ Turns(ex, qs) \in Seq(Messages) /\ Len(Turns(ex, qs)) >= Len(qs)
               /\ \A q \in Range(qs) : Question(q) \in Range(Turns(ex, qs))
<1> DEFINE Asks(l, qs) == /\ l \in Seq(Messages) /\ Len(l) >= Len(qs)
                          /\ \A q \in Range(qs) : Question(q) \in Range(l)
           T == {qs \in Seq(Queries) : Asks(Turns(ex, qs), qs)}
<1>1. <<>> \in T
    <2>1. Asks(<<>>, <<>>)
        BY EmptyRange
    <2> HIDE DEF Asks
    <2> QED
        BY <2>1, TurnsEmpty
<1>2. ASSUME NEW qs \in Seq(Queries), NEW q \in Queries, qs \in T PROVE Append(qs, q) \in T
    <2> DEFINE l == Turns(ex, qs)
               one == Append(l, Question(q))
               both == Append(one, Reply(q))
               more == Append(qs, q)
    <2>1. /\ more \in Seq(Queries) /\ Range(more) = Range(qs) \cup {q}
          /\ Len(more) = Len(qs) + 1 /\ Len(qs) \in Nat
        BY AppendProperties, RangeAppend, LenProperties
    <2>2. Turns(ex, more) = l \o ex[q] /\ l \in Seq(Messages) /\ Asks(l, qs)
        BY <1>2, TurnsAppend
    <2>3. Question(q) \in Messages /\ Reply(q) \in Messages
        BY DEF Question, Reply, Messages, Roles
    <2> HIDE DEF l, more
    <2>4. l \o <<Question(q)>> = one /\ l \o <<Question(q), Reply(q)>> = both
        BY <2>2, <2>3, ConcatPair
    <2>5. /\ one \in Seq(Messages) /\ Len(one) = Len(l) + 1 /\ Len(l) \in Nat
          /\ Range(one) = Range(l) \cup {Question(q)}
        BY <2>2, <2>3, AppendProperties, RangeAppend, LenProperties
    <2> HIDE DEF one
    <2>6. /\ both \in Seq(Messages) /\ Len(both) = Len(one) + 1
          /\ Range(both) = Range(one) \cup {Reply(q)}
        BY <2>3, <2>5, AppendProperties, RangeAppend
    <2> HIDE DEF both
    <2>7. Asks(one, more) /\ Asks(both, more)
        BY <2>1, <2>2, <2>5, <2>6
    <2>8. Turns(ex, more) = one \/ Turns(ex, more) = both
        BY <2>2, <2>4 DEF IsExchange
    <2> HIDE DEF Asks
    <2> QED
        BY <2>1, <2>7, <2>8 DEF more
<1> HIDE DEF T
<1>3. \A qs \in Seq(Queries) : qs \in T
    BY <1>1, <1>2, SeqInduct
<1> QED
    BY <1>3 DEF T

(* So has a list that is rebuilt from all rows; from some, it is full.     *)
LEMMA ColdKeeps ==
    ASSUME SessionInv, StoredInv, NEW s
    PROVE  Keeps(ColdHistory(s), rows, target, s)
<1> DEFINE qs == RowsOf(s)
<1>0. TypeOK /\ BeganInv
    BY DEF SessionInv
<1>1. /\ qs \in Seq(Queries) /\ Len(qs) \in Nat
      /\ Range(qs) = {q \in Range(began) : q \in rows /\ target[q] = s}
    BY <1>0, RowsOfSession, LenProperties
<1>2. PICK n \in Nat : /\ n <= Len(qs)
                       /\ n = IF Len(qs) > Window THEN Window ELSE Len(qs)
                       /\ ColdHistory(s) = Transcript(SubSeq(qs, 1, n))
    BY <1>0, ColdHistoryIs
<1> HIDE DEF qs
<1>3. SubSeq(qs, 1, n) \in Seq(Queries) /\ Len(SubSeq(qs, 1, n)) = n
    <2>1. \A i \in 1..n : qs[i] \in Queries
        BY <1>1, <1>2, ElementOfSeq
    <2>2. /\ SubSeq(qs, 1, n) \in Seq(Queries)
          /\ Len(SubSeq(qs, 1, n)) = IF 1 <= n THEN n - 1 + 1 ELSE 0
        BY <1>1, <1>2, <2>1, SubSeqProperties
    <2> QED
        BY <1>2, <2>2
<1> DEFINE part == SubSeq(qs, 1, n)
           ex == [q \in Queries |-> Exchange(q)]
<1>4. Transcript(part) = Turns(ex, part) /\ IsExchange(ex)
    BY <1>3, TranscriptTurns
<1> HIDE DEF ex, part
<1>5. /\ Turns(ex, part) \in Seq(Messages) /\ Len(Turns(ex, part)) >= Len(part)
      /\ \A q \in Range(part) : Question(q) \in Range(Turns(ex, part))
    BY <1>3, <1>4, TurnsAsk DEF part
<1>6. ASSUME Len(ColdHistory(s)) < Window, NEW q \in rows, target[q] = s
      PROVE  Question(q) \in Range(ColdHistory(s))
    <2>1. ColdHistory(s) = Turns(ex, part) /\ Len(part) = n
        BY <1>2, <1>3, <1>4 DEF part
    <2>2. n < Window
        <3>1. Len(Turns(ex, part)) \in Nat
            BY <1>5, LenProperties
        <3> QED
            BY <1>2, <1>5, <1>6, <2>1, <3>1, WindowAssumption
    <2>3. n = Len(qs)
        BY <1>2, <2>2, WindowAssumption
    <2>4. part = qs
        BY <1>1, <2>3, SubSeqFull DEF part
    <2>5. q \in Range(qs)
        BY <1>1, <1>6 DEF StoredInv
    <2> QED
        BY <1>5, <2>1, <2>4, <2>5
<1> QED
    BY <1>6 DEF Keeps

(* The invariant after a step of request p that stores no row: what p      *)
(* holds now, and what Redis has now, is kept too.                         *)
LEMMA KeptFrom ==
    ASSUME TypeOK, Alone, KeptInv, rows' = rows, \A q \in rows : target'[q] = target[q],
           NEW p \in Requests, \A r \in Requests : r # p => Idle(r),
           pc'[p] \in Holding => Keeps(mem'[p], rows, target, target'[p]),
           \A s \in Sessions :
              \/ hot'[s] \in {hot[s], NotCached}
              \/ /\ s = target[p] /\ target'[p] = target[p] /\ hot'[s] = mem'[p]
                 /\ pc[p] \notin Resting /\ pc'[p] \in Holding,
           p \in Queries /\ pc'[p] \in Talking =>
              /\ Len(mem'[p]) < Window => Question(p) \in Range(mem'[p])
              /\ hot'[target'[p]] \in {NotCached, mem'[p]}
    PROVE  KeptInv'
<1>1. \A l, s : Keeps(l, rows', target', s) <=> Keeps(l, rows, target, s)
    BY DEF Keeps
<1>2. \A r \in Requests : r # p =>
          pc'[r] = pc[r] /\ target'[r] = target[r] /\ mem'[r] = mem[r]
    BY DEF Idle
<1>3. ASSUME NEW s \in Sessions, hot'[s] # NotCached PROVE Keeps(hot'[s], rows', target', s)
    BY <1>1, <1>3 DEF KeptInv
<1>4. ASSUME NEW r \in Requests, pc'[r] \in Holding
      PROVE  Keeps(mem'[r], rows', target', target'[r])
    <2>1. CASE r = p
        BY <1>1, <1>4, <2>1
    <2>2. CASE r # p
        BY <1>1, <1>2, <1>4, <2>2 DEF KeptInv
    <2> QED
        BY <2>1, <2>2
<1>5. ASSUME NEW q \in Queries, pc'[q] \in Talking
      PROVE  /\ Len(mem'[q]) < Window => Question(q) \in Range(mem'[q])
             /\ hot'[target'[q]] \in {NotCached, mem'[q]}
    <2>1. CASE q = p
        BY <1>5, <2>1
    <2>2. CASE q # p
        <3>1. /\ q \in Requests /\ pc[q] \in Talking /\ pc[q] \notin Resting
              /\ target'[q] = target[q] /\ mem'[q] = mem[q] /\ target[q] \in Sessions
            BY <1>2, <1>5, <2>2 DEF Requests, Talking, Resting, TypeOK
        <3>2. /\ Len(mem[q]) < Window => Question(q) \in Range(mem[q])
              /\ hot[target[q]] \in {NotCached, mem[q]}
            BY <3>1 DEF KeptInv
        <3>3. ~(pc[p] \notin Resting /\ target[p] = target[q])
            BY <2>2, <3>1 DEF Alone
        <3>4. hot'[target[q]] \in {hot[target[q]], NotCached}
            BY <3>1, <3>3
        <3> QED
            BY <3>1, <3>2, <3>4
    <2> QED
        BY <2>1, <2>2
<1> QED
    BY <1>3, <1>4, <1>5 DEF KeptInv

(* The message that a query saves is added to what it holds.               *)
LEMMA KeptSave ==
    ASSUME TypeOK, Alone, KeptInv, rows' = rows, target' = target,
           NEW q \in Queries, \A r \in Requests : r # q => Idle(r),
           NEW m \in Messages, Save(q, m), pc[q] \in Holding, pc'[q] \in Talking,
           m = Question(q) \/ pc[q] \in Talking
    PROVE  KeptInv'
<1>1. /\ q \in Requests /\ pc[q] \notin Resting /\ mem[q] \in Seq(Messages)
      /\ target[q] \in Sessions /\ pc'[q] \in Holding
    BY DEF Requests, Holding, Talking, Resting, TypeOK
<1>2. /\ mem'[q] = Push(mem[q], m)
      /\ \A s \in Sessions : hot'[s] = IF s = target[q] THEN mem'[q] ELSE hot[s]
    BY <1>1 DEF Save, TypeOK
<1>3. Len(mem'[q]) < Window => Len(mem[q]) < Window /\ Range(mem'[q]) = Range(mem[q]) \cup {m}
    BY <1>1, <1>2, PushShort
<1>4. Keeps(mem'[q], rows, target, target[q])
    <2>1. Keeps(mem[q], rows, target, target[q])
        BY <1>1 DEF KeptInv
    <2> QED
        BY <1>3, <2>1 DEF Keeps
<1>5. Len(mem'[q]) < Window => Question(q) \in Range(mem'[q])
    <2>1. pc[q] \in Talking => (Len(mem[q]) < Window => Question(q) \in Range(mem[q]))
        BY DEF KeptInv
    <2> QED
        BY <1>3, <2>1
<1> QED
    BY <1>1, <1>2, <1>4, <1>5, KeptFrom

LEMMA KeptQuery ==
    ASSUME SessionInv, Alone, KeptInv,
           NEW q \in Queries, \A r \in Requests : r # q => Idle(r),
           CheckQuery(q) \/ SaveUserMessage(q) \/ Generate(q) \/ SaveAnswer(q) \/ FinishQuery(q)
    PROVE  KeptInv'
<1>0. TypeOK /\ q \in Requests /\ Question(q) \in Messages /\ Reply(q) \in Messages
    BY DEF SessionInv, Requests, Question, Reply, Messages, Roles
<1>1. CASE SaveUserMessage(q)
    <2>1. /\ pc[q] = "saveUser" /\ pc'[q] = "generate" /\ Save(q, Question(q))
          /\ rows' = rows /\ target' = target
        BY <1>0, <1>1 DEF SaveUserMessage, Goto, TypeOK, Question, dbVars
    <2>2. pc[q] \in Holding /\ pc'[q] \in Talking
        BY <2>1 DEF Holding, Talking
    <2> QED
        BY <1>0, <2>1, <2>2, KeptSave
<1>2. CASE SaveAnswer(q)
    <2>1. /\ pc[q] = "saveAnswer" /\ pc'[q] = "commit" /\ Save(q, Reply(q))
          /\ rows' = rows /\ target' = target
        BY <1>0, <1>2 DEF SaveAnswer, Goto, TypeOK, Reply, dbVars
    <2>2. pc[q] \in Talking /\ pc[q] \in Holding /\ pc'[q] \in Talking
        BY <2>1 DEF Holding, Talking
    <2> QED
        BY <1>0, <2>1, <2>2, KeptSave
<1>3. CASE CheckQuery(q) \/ Generate(q) \/ FinishQuery(q)
    <2>1. /\ rows' = rows /\ target' = target /\ mem' = mem /\ hot' = hot
          /\ \/ pc[q] = "check" /\ pc'[q] \in {"saveUser", "error"}
             \/ pc[q] = "generate" /\ pc'[q] = "saveAnswer"
             \/ pc[q] = "metrics" /\ pc'[q] = "done"
        BY <1>0, <1>3 DEF CheckQuery, Generate, FinishQuery, Goto, TypeOK, dbVars
    <2>2. (pc'[q] \in Holding => pc[q] \in Holding) /\ (pc'[q] \in Talking => pc[q] \in Talking)
        BY <2>1 DEF Holding, Talking
    <2>3. pc'[q] \in Holding => Keeps(mem'[q], rows, target, target'[q])
        BY <1>0, <2>1, <2>2 DEF KeptInv
    <2>4. pc'[q] \in Talking => /\ Len(mem'[q]) < Window => Question(q) \in Range(mem'[q])
                                /\ hot'[target'[q]] \in {NotCached, mem'[q]}
        BY <2>1, <2>2 DEF KeptInv
    <2>5. /\ \A p \in rows : target'[p] = target[p]
          /\ \A s \in Sessions : hot'[s] \in {hot[s], NotCached}
        BY <2>1
    <2> QED
        BY <1>0, <2>1, <2>3, <2>4, <2>5, KeptFrom
<1> QED
    BY <1>1, <1>2, <1>3

LEMMA KeptLoad ==
    ASSUME SessionInv, StoredInv, Alone, KeptInv,
           NEW p \in Requests, \A r \in Requests : r # p => Idle(r),
           LoadFromDb(p) \/ WarmCache(p) \/ \E s \in Sessions : GetHot(p, s)
    PROVE  KeptInv'
<1>0. TypeOK /\ RowsInv /\ rows' = rows
    BY DEF SessionInv, LoadFromDb, WarmCache, GetHot, dbVars
<1>1. ASSUME NEW s \in Sessions, GetHot(p, s) PROVE KeptInv'
    <2>1. /\ pc[p] = "new" /\ pc'[p] \in {"cold", "check"} /\ hot' = hot /\ target'[p] = s
          /\ pc'[p] = "check" => hot[s] # NotCached /\ mem'[p] = hot[s]
        BY <1>0, <1>1 DEF GetHot, Goto, TypeOK
    <2>2. pc'[p] \notin Talking /\ (pc'[p] \in Holding => pc'[p] = "check")
        BY <2>1 DEF Talking, Holding
    <2>3. pc'[p] \in Holding => Keeps(mem'[p], rows, target, target'[p])
        BY <2>1, <2>2 DEF KeptInv
    <2>4. \A q \in rows : target'[q] = target[q]
        <3>1. p \notin rows
            BY <1>0, <2>1 DEF RowsInv, TypeOK
        <3> QED
            BY <1>0, <1>1, <3>1 DEF GetHot, TypeOK, Requests
    <2>5. \A t \in Sessions : hot'[t] \in {hot[t], NotCached}
        BY <2>1
    <2> QED
        BY <1>0, <2>2, <2>3, <2>4, <2>5, KeptFrom
<1>2. CASE LoadFromDb(p)
    <2>1. /\ pc[p] = "cold" /\ pc'[p] \in {"error", "warm"} /\ hot' = hot /\ target' = target
          /\ pc'[p] = "warm" => mem'[p] = ColdHistory(target[p])
        BY <1>0, <1>2 DEF LoadFromDb, Goto, TypeOK
    <2>2. pc'[p] \notin Talking /\ (pc'[p] \in Holding => pc'[p] = "warm")
        BY <2>1 DEF Talking, Holding
    <2>3. pc'[p] \in Holding => Keeps(mem'[p], rows, target, target'[p])
        BY <2>1, <2>2, ColdKeeps
    <2>4. /\ \A q \in rows : target'[q] = target[q]
          /\ \A s \in Sessions : hot'[s] \in {hot[s], NotCached}
        BY <2>1
    <2> QED
        BY <1>0, <2>2, <2>3, <2>4, KeptFrom
<1>3. CASE WarmCache(p)
    <2>1. /\ pc[p] = "warm" /\ pc'[p] = "check" /\ target' = target /\ mem' = mem
          /\ \A s \in Sessions : hot'[s] = IF s = target[p] THEN mem[p] ELSE hot[s]
        BY <1>0, <1>3 DEF WarmCache, Goto, TypeOK
    <2>2. pc'[p] \notin Talking /\ pc[p] \in Holding /\ pc'[p] \in Holding /\ pc[p] \notin Resting
        BY <2>1 DEF Talking, Holding, Resting
    <2>3. Keeps(mem'[p], rows, target, target'[p])
        BY <2>1, <2>2 DEF KeptInv
    <2>4. \A q \in rows : target'[q] = target[q]
        BY <2>1
    <2>5. \A s \in Sessions :
              \/ hot'[s] \in {hot[s], NotCached}
              \/ /\ s = target[p] /\ target'[p] = target[p] /\ hot'[s] = mem'[p]
                 /\ pc[p] \notin Resting /\ pc'[p] \in Holding
        BY <2>1, <2>2
    <2> QED
        BY <1>0, <2>2, <2>3, <2>4, <2>5, KeptFrom
<1> QED
    BY <1>1, <1>2, <1>3

(* A stored turn is in the list that its query saved last.                 *)
LEMMA KeptCommit ==
    ASSUME SessionInv, Alone, KeptInv,
           NEW q \in Queries, \A r \in Requests : r # q => Idle(r), CommitRow(q)
    PROVE  KeptInv'
<1>0. /\ TypeOK /\ q \in Requests /\ target' = target /\ mem' = mem /\ hot' = hot
      /\ pc[q] = "commit" /\ pc'[q] = "metrics" /\ rows' = rows \cup {q}
    BY DEF SessionInv, Requests, CommitRow, Goto, TypeOK
<1>1. /\ pc[q] \in Talking /\ pc[q] \notin Resting
      /\ pc'[q] \notin Talking /\ pc'[q] \notin Holding
    BY <1>0 DEF Talking, Holding, Resting
<1>2. /\ Len(mem[q]) < Window => Question(q) \in Range(mem[q])
      /\ hot[target[q]] \in {NotCached, mem[q]}
    BY <1>1 DEF KeptInv
<1>3. \A r \in Requests : r # q => pc'[r] = pc[r]
    BY DEF Idle
<1>4. \A l, s : s # target[q] => (Keeps(l, rows', target', s) <=> Keeps(l, rows, target, s))
    BY <1>0 DEF Keeps
<1>5. ASSUME NEW s \in Sessions, hot'[s] # NotCached PROVE Keeps(hot'[s], rows', target', s)
    <2>1. Keeps(hot[s], rows, target, s)
        BY <1>0, <1>5 DEF KeptInv
    <2>2. CASE s = target[q]
        <3>1. hot'[s] = mem[q]
            BY <1>0, <1>2, <1>5, <2>2
        <3> QED
            BY <1>0, <1>2, <2>1, <3>1 DEF Keeps
    <2> QED
        BY <1>0, <1>4, <2>1, <2>2
<1>6. ASSUME NEW r \in Requests, pc'[r] \in Holding
      PROVE  Keeps(mem'[r], rows', target', target'[r])
    <2>1. r # q /\ pc[r] \in Holding /\ pc[r] \notin Resting
        BY <1>1, <1>3, <1>6 DEF Holding, Talking, Resting
    <2>2. target[r] # target[q]
        BY <1>0, <1>1, <2>1 DEF Alone
    <2>3. Keeps(mem[r], rows, target, target[r])
        BY <2>1 DEF KeptInv
    <2> QED
        BY <1>0, <1>4, <2>2, <2>3
<1>7. ASSUME NEW p \in Queries, pc'[p] \in Talking
      PROVE  /\ Len(mem'[p]) < Window => Question(p) \in Range(mem'[p])
             /\ hot'[target'[p]] \in {NotCached, mem'[p]}
    <2>1. pc[p] \in Talking
        BY <1>1, <1>3, <1>7 DEF Requests
    <2> QED
        BY <1>0, <2>1 DEF KeptInv
<1> QED
    BY <1>5, <1>6, <1>7 DEF KeptInv

(* A new session has an empty list, and no rows.                           *)
LEMMA KeptOther ==
    ASSUME TypeOK, StoredInv, KeptInv, UNCHANGED <<rows, pc, target, mem>>,
           UNCHANGED vars \/ \E s \in Sessions : CreateSession(s) \/ Expire(s)
    PROVE  KeptInv'
<1>1. \A s \in Sessions : \/ hot'[s] \in {hot[s], NotCached}
                          \/ sess[s] = "absent" /\ hot'[s] = <<>>
    BY DEF vars, CreateSession, Expire, TypeOK
<1>2. ASSUME NEW s \in Sessions, hot'[s] # NotCached PROVE Keeps(hot'[s], rows', target', s)
    <2>1. CASE hot'[s] \in {hot[s], NotCached}
        BY <1>2, <2>1 DEF KeptInv
    <2>2. CASE sess[s] = "absent"
        BY <2>2 DEF StoredInv, Keeps
    <2> QED
        BY <1>1, <2>1, <2>2
<1>3. ASSUME NEW r \in Requests, pc'[r] \in Holding
      PROVE  Keeps(mem'[r], rows', target', target'[r])
    BY <1>3 DEF KeptInv
<1>4. ASSUME NEW q \in Queries, pc'[q] \in Talking
      PROVE  /\ Len(mem'[q]) < Window => Question(q) \in Range(mem'[q])
             /\ hot'[target'[q]] \in {NotCached, mem'[q]}
    <2>1. pc[q] \in Talking /\ pc[q] \in Admitted /\ q \in Requests
        BY <1>4 DEF Talking, Admitted, Requests
    <2>2. sess[target[q]] # "absent" /\ target[q] \in Sessions
        BY <2>1 DEF StoredInv, TypeOK, Talking, Resting
    <2>3. hot'[target[q]] \in {hot[target[q]], NotCached}
        BY <1>1, <2>2
    <2> QED
        BY <2>1, <2>3 DEF KeptInv
<1> QED
    BY <1>2, <1>3, <1>4 DEF KeptInv

LEMMA KeptStep ==
    ASSUME SessionInv, StoredInv, Alone, KeptInv, [Next]_vars
    PROVE  KeptInv'
<1>0. TypeOK
    BY DEF SessionInv
<1> DEFINE Others(p) == \A r \in Requests : r # p => Idle(r)
<1>1. ASSUME NEW p \in Requests, RequestStep(p), Others(p) PROVE KeptInv'
    <2>1. CASE Abort(p) \/ (p \in Closers /\ (CheckClose(p) \/ DeleteHot(p) \/ MarkClosed(p)))
        <3>1. /\ rows' = rows /\ target' = target
              /\ \A s \in Sessions : hot'[s] \in {hot[s], NotCached}
              /\ pc'[p] \in {"aborted", "delete", "update", "done", "error"}
            BY <1>0, <2>1 DEF Abort, CheckClose, DeleteHot, MarkClosed, Goto, TypeOK, dbVars
        <3>2. pc'[p] \notin Holding /\ pc'[p] \notin Talking
            BY <3>1 DEF Holding, Talking
        <3>3. \A q \in rows : target'[q] = target[q]
            BY <3>1
        <3> QED
            BY <1>0, <1>1, <3>1, <3>2, <3>3, KeptFrom
    <2>2. CASE LoadFromDb(p) \/ WarmCache(p) \/ \E s \in Sessions : GetHot(p, s)
        BY <1>1, <2>2, KeptLoad
    <2>3. ASSUME p \in Queries,
                 CheckQuery(p) \/ SaveUserMessage(p) \/ Generate(p) \/ SaveAnswer(p) \/ FinishQuery(p)
          PROVE  KeptInv'
        BY <1>1, <2>3, KeptQuery
    <2>4. ASSUME p \in Queries, CommitRow(p) PROVE KeptInv'
        BY <1>1, <2>4, KeptCommit
    <2> QED
        BY <1>1, <2>1, <2>2, <2>3, <2>4 DEF RequestStep, QueryStep, CloseStep
<1>2. ASSUME UNCHANGED <<rows, pc, target, mem>>,
             UNCHANGED vars \/ \E s \in Sessions : CreateSession(s) \/ Expire(s)
      PROVE  KeptInv'
    BY <1>0, <1>2, KeptOther
<1> HIDE DEF Others
<1>3. \/ \E p \in Requests : RequestStep(p) /\ Others(p)
      \/ /\ UNCHANGED <<rows, pc, target, mem>>
         /\ UNCHANGED vars \/ \E s \in Sessions : CreateSession(s) \/ Expire(s)
    BY <1>0, StepOf DEF Others
<1> QED
    BY <1>1, <1>2, <1>3

(* Where requests take turns, a cached list that is not full has every     *)
(* stored turn of its session, whatever the answers and whoever dies: no   *)
(* save of a whole state removed another query's messages.                 *)
THEOREM TurnsKept ==
    ASSUME Serial
    PROVE  Spec => []NoLostTurn
<1>1. Init => KeptInv
    <2> SUFFICES ASSUME Init PROVE KeptInv
        OBVIOUS
    <2>1. \A r \in Requests : pc[r] \notin Holding /\ pc[r] \notin Talking
        BY DEF Init, Holding, Talking
    <2>2. \A s \in Sessions : hot[s] = NotCached
        BY DEF Init
    <2> QED
        BY <2>1, <2>2 DEF KeptInv, Requests
<1>2. SessionInv /\ StoredInv /\ TurnInv /\ KeptInv /\ [Next]_vars => KeptInv'
    BY KeptStep DEF TurnInv
<1>3. ASSUME SessionInv, KeptInv PROVE NoLostTurn
    <2> SUFFICES ASSUME NEW s \in Sessions, hot[s] # NotCached, Len(hot[s]) < Window,
                        NEW q \in rows, target[q] = s
                 PROVE  Contains(hot[s], <<"user", q>>)
        BY DEF NoLostTurn
    <2>1. hot[s] \in Seq(Messages) /\ Question(q) \in Range(hot[s])
        BY <1>3 DEF SessionInv, TypeOK, KeptInv, Keeps
    <2>2. PICK i \in 1..Len(hot[s]) : hot[s][i] = Question(q)
        BY <2>1, RangeEquality
    <2> QED
        BY <2>2 DEF Contains, Question
<1> QED
    BY SerialAlways, <1>1, <1>2, <1>3, PTL DEF Spec

------------------------------------------------------------------------------
(* The prompt.                                                             *)

LEMMA MaxIs ==
    ASSUME NEW n \in Nat, NEW S \in SUBSET (1..n), S # {}
    PROVE  Max(S) \in S /\ \A k \in S : k <= Max(S)
<1> DEFINE Above == {m \in Nat : \A k \in S : k <= m}
<1>1. n \in Above /\ Above \in SUBSET Nat
    OBVIOUS
<1>2. PICK m \in Above : \A k \in Above : m <= k
    <2> HIDE DEF Above
    <2> QED
        BY <1>1, LeastNat
<1>3. m \in S
    <2> SUFFICES ASSUME m \notin S PROVE FALSE
        OBVIOUS
    <2>1. PICK j \in S : TRUE
        OBVIOUS
    <2>2. m \in Nat /\ j <= m /\ j \in 1..n
        BY <1>2, <2>1
    <2>3. m - 1 \in Nat /\ \A k \in S : k <= m - 1
        BY <1>2, <2>2
    <2>4. m - 1 \in Above
        BY <2>3
    <2> HIDE DEF Above
    <2> QED
        BY <1>2, <2>2, <2>4
<1>4. m \in S /\ \A k \in S : m >= k
    BY <1>2, <1>3
<1>5. Max(S) \in S /\ \A k \in S : Max(S) >= k
    <2>1. \E x \in S : \A k \in S : x >= k
        BY <1>4
    <2> QED
        BY <2>1 DEF Max
<1> QED
    BY <1>5

(* The end of a list is a suffix of it.                                    *)
LEMMA EndIsSuffix ==
    ASSUME NEW M, NEW l \in Seq(M), NEW k \in 1..(Len(l) + 1)
    PROVE  LET end == SubSeq(l, k, Len(l))
           IN  end \in Seq(M) /\ Len(end) = Len(l) - k + 1 /\ IsSuffix(end, l)
<1> DEFINE N == Len(l)
           end == SubSeq(l, k, N)
           L == N - k + 1
<1>1. /\ N \in Nat /\ (\A i \in 1..N : l[i] \in M) /\ k \in Nat \ {0} /\ L \in Nat /\ L <= N
    BY LenProperties, ElementOfSeq
<1>2. \A i \in k..N : l[i] \in M
    BY <1>1
<1>3. /\ end \in Seq(M) /\ Len(end) = L
      /\ \A i \in 1..L : end[i] = l[k + i - 1]
    <2>1. /\ end \in Seq(M)
          /\ Len(end) = IF k <= N THEN N - k + 1 ELSE 0
          /\ \A i \in 1..(N - k + 1) : end[i] = l[k + i - 1]
        BY <1>1, <1>2, SubSeqProperties
    <2> QED
        BY <1>1, <2>1
<1> HIDE DEF end, L, N
<1>4. /\ Reverse(l) \in Seq(M) /\ Len(Reverse(l)) = N
      /\ \A i \in 1..N : Reverse(l)[i] = l[N - i + 1]
    BY <1>1 DEF Reverse, N
<1>5. /\ Reverse(end) \in Seq(M) /\ Len(Reverse(end)) = L
      /\ \A i \in 1..L : Reverse(end)[i] = end[L - i + 1]
    <2>1. \A i \in 1..L : L - i + 1 \in 1..L /\ end[L - i + 1] \in M
        BY <1>1, <1>3, ElementOfSeq
    <2> QED
        <3>1. Reverse(end) = [i \in 1..L |-> end[L - i + 1]]
            BY <1>3 DEF Reverse
        <3> QED
            BY <1>1, <2>1, <3>1
<1>6. ASSUME NEW i \in 1..L PROVE Reverse(end)[i] = Reverse(l)[i]
    <2>1. L - i + 1 \in 1..L /\ i \in 1..N /\ k + (L - i + 1) - 1 = N - i + 1
        BY <1>1 DEF L
    <2> QED
        BY <1>3, <1>4, <1>5, <2>1
<1>7. SubSeq(Reverse(end), 1, L) = Reverse(end)
    BY <1>5, SubSeqFull
<1>8. SubSeq(Reverse(l), 1, L) = Reverse(end)
    <2> DEFINE part == SubSeq(Reverse(l), 1, L)
    <2>1. \A i \in 1..L : Reverse(l)[i] \in M
        BY <1>1, <1>4, ElementOfSeq
    <2>2. /\ part \in Seq(M)
          /\ Len(part) = IF 1 <= L THEN L - 1 + 1 ELSE 0
          /\ \A i \in 1..(L - 1 + 1) : part[i] = Reverse(l)[1 + i - 1]
        BY <1>1, <2>1, <1>4, SubSeqProperties
    <2> HIDE DEF part
    <2>3. Len(part) = L
        BY <1>1, <2>2
    <2>4. ASSUME NEW i \in 1..L PROVE part[i] = Reverse(end)[i]
        <3>1. i \in 1..(L - 1 + 1) /\ 1 + i - 1 = i
            BY <1>1
        <3> QED
            BY <1>6, <2>2, <3>1
    <2>5. part = Reverse(end)
        BY <1>5, <2>2, <2>3, <2>4, SeqEqual
    <2> QED
        BY <2>5 DEF part
<1>9. IsSuffix(end, l)
    BY <1>1, <1>4, <1>5, <1>7, <1>8 DEF IsSuffix, IsPrefix
<1> QED
    BY <1>3, <1>9 DEF end, L, N

(* Sizes are numbers, and no messages have none.                           *)
LEMMA SizeType ==
    ASSUME NEW l \in Seq(Messages), \A n \in 1..Len(l) : Size(l[n]) \in Nat,
           NEW i \in Nat \ {0}
    PROVE  SizeFrom(l, i) \in Nat /\ (i > Len(l) => SizeFrom(l, i) = 0)
<1> DEFINE N == Len(l)
           Step(x, n) == IF n < i THEN 0 ELSE x + Size(l[n])
           Body(f) == [n \in 0..N |-> IF n < i THEN 0 ELSE f[n - 1] + Size(l[n])]
           F == [n \in Nat |-> [x \in Nat |-> IF n + 1 \in 1..N THEN Step(x, n + 1) ELSE x]]
           sum == CHOOSE f : f = Body(f)
<1>1. N \in Nat /\ \A n \in 1..N : Size(l[n]) \in Nat
    BY LenProperties
<1>2. SizeFrom(l, i) = sum[N]
    BY DEF SizeFrom
<1>3. \A n \in Nat, x \in Nat : n + 1 \in 1..N => Step(x, n + 1) \in Nat
    BY <1>1
<1>4. F \in [Nat -> [Nat -> Nat]]
    BY <1>1, <1>3
<1>5. \A n \in 0..(N - 1) : \A x \in Nat : F[n][x] = Step(x, n + 1)
    BY <1>1
<1> HIDE DEF N, F
<1>6. PICK g \in [0..N -> Nat] : Follows(g, 0, F, N)
    BY <1>1, <1>4, FollowsExists
<1>7. g = Body(g)
    <2>1. ASSUME NEW n \in 0..N PROVE g[n] = IF n < i THEN 0 ELSE g[n - 1] + Size(l[n])
        <3>1. CASE n = 0
            BY <1>6, <3>1 DEF Follows
        <3>2. CASE n # 0
            <4>1. n - 1 \in 0..(N - 1) /\ (n - 1) + 1 = n /\ n - 1 \in 0..N
                BY <1>1, <3>2
            <4> QED
                BY <1>5, <1>6, <4>1 DEF Follows
        <3> QED
            BY <3>1, <3>2
    <2>2. g = [n \in 0..N |-> g[n]]
        BY <1>6
    <2> QED
        BY <2>1, <2>2
<1>8. sum = Body(sum)
    <2> HIDE DEF Body
    <2> QED
        BY <1>7
<1> HIDE DEF sum
<1>9. sum[0] = 0
    BY <1>1, <1>8
<1>10. ASSUME NEW n \in 0..(N - 1), sum[n] \in Nat PROVE sum[n + 1] \in Nat
    <2>1. n + 1 \in 0..N /\ n + 1 \in 1..N /\ (n + 1) - 1 = n
        BY <1>1
    <2>2. sum[n + 1] = IF n + 1 < i THEN 0 ELSE sum[n] + Size(l[n + 1])
        BY <1>8, <2>1
    <2> QED
        BY <1>1, <1>10, <2>1, <2>2
<1>11. sum[N] \in Nat
    <2> DEFINE T == {n \in Nat : n <= N => sum[n] \in Nat}
    <2>1. 0 \in T
        BY <1>9
    <2>2. ASSUME NEW n \in Nat, n \in T PROVE n + 1 \in T
        BY <1>1, <1>10, <2>2
    <2> HIDE DEF T
    <2>3. \A n \in Nat : n \in T
        BY <2>1, <2>2, Induct
    <2> QED
        BY <1>1, <2>3 DEF T
<1>12. i > N => sum[N] = 0
    BY <1>1, <1>8
<1> QED
    BY <1>1, <1>2, <1>11, <1>12 DEF N

(* Where requests take turns, the prompt of an unbroken session is what    *)
(* was said last in it: all that fits the budget, and no more.             *)
THEOREM RecentPrompt ==
    ASSUME Serial
    PROVE  Spec => []PromptIsRecentHistory
<1>1. ASSUME SessionInv, StoredInv, TurnInv PROVE PromptIsRecentHistory
    <2> SUFFICES ASSUME NEW q \in Queries, pc[q] = "generate", IsWhole(target[q])
                 PROVE  LET history == Transcript(RowsOf(target[q]))
                            first   == Len(history) - Len(Prompt(mem[q])) + 1
                        IN  /\ IsSuffix(Prompt(mem[q]), history)
                            /\ SizeFrom(history, first) <= MaxTokens
                            /\ first > 1 => SizeFrom(history, first - 1) > MaxTokens
        BY UnbrokenIsWhole DEF PromptIsRecentHistory
    <2> DEFINE history == Transcript(RowsOf(target[q]))
               N == Len(history)
               over == {i \in 1..N : SizeFrom(history, i) > MaxTokens}
               k == IF over = {} THEN 1 ELSE Max(over) + 1
    <2>1. mem[q] = history \o <<Question(q)>>
        <3>1. mem[q] = PastOf(target[q]) \o <<Question(q)>>
            BY <1>1 DEF TurnInv, HeldInv, Holding, Talking, Added, Requests
        <3>2. PastOf(target[q]) = history
            BY <1>1, PastType DEF SessionInv
        <3> QED
            BY <3>1, <3>2
    <2>2. history \in Seq(Messages) /\ Question(q) \in Messages /\ N \in Nat
        BY <1>1, PastType, LenProperties DEF SessionInv, Question, Messages, Roles
    <2>3. \A n \in 1..N : Size(history[n]) \in Nat
        <3> SUFFICES ASSUME NEW n \in 1..N PROVE Size(history[n]) \in Nat
            OBVIOUS
        <3> DEFINE qs == RowsOf(target[q])
        <3>1. /\ qs \in Seq(Queries) /\ IsInjective(qs)
              /\ Range(qs) \subseteq rows
              /\ history = Turns(Exchanges(answer), qs)
            BY <1>1, RowsOfSession, PastType DEF SessionInv
        <3>2. history[n] \in Range(history) /\ history[n] \in Messages
            BY <2>2, RangeEquality, ElementOfSeq
        <3> HIDE DEF history, qs
        <3>3. \A m \in Range(Turns(Exchanges(answer), qs)) : m[2] \in Range(qs)
            BY <3>1, ExchangesAre, TurnsTidy
        <3>4. history[n][2] \in rows
            BY <3>1, <3>2, <3>3
        <3>5. answer[history[n][2]] \in AllOutcomes
            BY <1>1, <3>4, OutcomesAssumption DEF StoredInv
        <3> QED
            BY <3>5, TokensAssumption DEF Size
    <2> HIDE DEF history
    <2>4. Front(mem[q]) = history
        <3>1. mem[q] = Append(history, Question(q))
            BY <2>1, <2>2, ConcatPair
        <3>2. /\ Append(history, Question(q)) \in Seq(Messages)
              /\ Len(Append(history, Question(q))) = N + 1
              /\ \A i \in 1..N : Append(history, Question(q))[i] = history[i]
            BY <2>2, AppendProperties
        <3>3. Front(mem[q]) = SubSeq(mem[q], 1, N)
            BY <2>2, <3>1, <3>2 DEF Front
        <3>4. SubSeq(history \o <<Question(q)>>, 1, N) = SubSeq(history, 1, N)
            BY <2>2, SubSeqOfConcat1
        <3>5. SubSeq(history, 1, N) = history
            BY <2>2, SubSeqFull
        <3> QED
            BY <2>1, <3>3, <3>4, <3>5
    <2>5. Prompt(mem[q]) = SubSeq(history, k, N)
        BY <2>4 DEF Prompt
    <2>6. \A i \in 1..(N + 1) : SizeFrom(history, i) \in Nat
        BY <2>2, <2>3, SizeType
    <2>7. SizeFrom(history, N + 1) = 0
        BY <2>2, <2>3, SizeType
    <2> HIDE DEF N
    <2>8. over # {} => Max(over) \in over /\ \A i \in over : i <= Max(over)
        <3>1. over \in SUBSET (1..N) /\ N \in Nat
            BY <2>2 DEF N
        <3> HIDE DEF over
        <3> QED
            BY <3>1, MaxIs
    <2>9. k \in 1..(N + 1) /\ k \notin over /\ (k > 1 => k - 1 \in over)
        <3>1. CASE over = {}
            BY <2>2, <3>1 DEF N
        <3>2. CASE over # {}
            <4>1. Max(over) \in 1..N /\ k = Max(over) + 1
                BY <2>8, <3>2
            <4> QED
                BY <2>2, <2>8, <3>2, <4>1 DEF N
        <3> QED
            BY <3>1, <3>2
    <2>10. SizeFrom(history, k) <= MaxTokens /\ (k > 1 => SizeFrom(history, k - 1) > MaxTokens)
        <3>1. CASE k = N + 1
            BY <2>2, <2>7, <2>9, <3>1, TokensAssumption
        <3>2. CASE k # N + 1
            <4>1. k \in 1..N /\ SizeFrom(history, k) \in Nat
                BY <2>2, <2>6, <2>9, <3>2 DEF N
            <4> HIDE DEF k
            <4> QED
                BY <2>9, <4>1, TokensAssumption
        <3> QED
            BY <3>1, <3>2
    <2> HIDE DEF k
    <2>11. Len(Prompt(mem[q])) = N - k + 1 /\ IsSuffix(Prompt(mem[q]), history)
        BY <2>2, <2>5, <2>9, EndIsSuffix DEF N
    <2>12. N - (N - k + 1) + 1 = k
        BY <2>2, <2>9 DEF N
    <2> QED
        BY <2>10, <2>11, <2>12 DEF N, history
<1> QED
    BY SerialAlways, <1>1, PTL
==============================================================================
