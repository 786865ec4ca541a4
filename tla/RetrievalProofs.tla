--------------------------- MODULE RetrievalProofs ---------------------------
(***************************************************************************)
(* Theorems about module Retrieval, for every set of documents, callers,   *)
(* readers and selections, every limit, and any history of uploads,        *)
(* ingestions, faults and deletions underneath.                            *)
(***************************************************************************)
EXTENDS Retrieval, ExecutionProofs, Induction

------------------------------------------------------------------------------
(* The size of a context.                                                  *)

(* There is a function on the sequences that Sum's definition describes.   *)
LEMMA SumEquation ==
    \A s \in Seq(Nat) : Sum[s] = IF s = <<>> THEN 0 ELSE Head(s) + Sum[Tail(s)]
<1> DEFINE X == [Seq(Nat) -> Nat]
           Body(f) == [s \in Seq(Nat) |-> IF s = <<>> THEN 0 ELSE Head(s) + f[Tail(s)]]
           a == [s \in Seq(Nat) |-> 0]
           F == [n \in Nat |-> [f \in X |-> Body(f)]]
<1>1. \A s \in Seq(Nat) : s # <<>> => /\ Head(s) \in Nat /\ Tail(s) \in Seq(Nat)
                                      /\ Len(s) \in Nat \ {0} /\ Len(Tail(s)) = Len(s) - 1
    BY HeadTailProperties, EmptySeq, LenProperties
<1>2. ASSUME NEW f \in X PROVE Body(f) \in X
    <2>1. ASSUME NEW s \in Seq(Nat)
          PROVE  (IF s = <<>> THEN 0 ELSE Head(s) + f[Tail(s)]) \in Nat
        <3>1. CASE s = <<>>
            BY <3>1
        <3>2. CASE s # <<>>
            <4>1. Head(s) \in Nat /\ f[Tail(s)] \in Nat
                BY <1>1, <3>2
            <4> QED
                BY <3>2, <4>1
        <3> QED
            BY <3>1, <3>2
    <2> QED
        BY <2>1
<1> HIDE DEF Body
<1>3. a \in X /\ F \in [Nat -> [X -> X]]
    <2>1. a \in X
        OBVIOUS
    <2> HIDE DEF X
    <2>2. [f \in X |-> Body(f)] \in [X -> X]
        BY <1>2
    <2> QED
        BY <2>1, <2>2
<1>4. \A n \in Nat, f \in X : F[n][f] = Body(f)
    BY <1>3
<1> HIDE DEF X, a, F
<1>5. PICK f \in [Nat -> X] : \A n \in Nat : Follows(f, a, F, n)
    BY <1>3, Recursion
<1>6. f[0] = a /\ \A n \in Nat : f[n + 1] = F[n][f[n]]
    <2>1. \A n \in Nat : n + 1 \in Nat /\ n \in 0..((n + 1) - 1)
        OBVIOUS
    <2> QED
        BY <1>5, <2>1 DEF Follows
<1> DEFINE h == [s \in Seq(Nat) |-> f[Len(s)][s]]
<1>7. h = Body(h)
    <2>1. ASSUME NEW s \in Seq(Nat)
          PROVE  f[Len(s)][s] = IF s = <<>> THEN 0 ELSE Head(s) + h[Tail(s)]
        <3>1. CASE s = <<>>
            <4>1. f[Len(s)][s] = a[s]
                BY <1>6, <3>1, EmptySeq
            <4> QED
                BY <3>1, <4>1 DEF a
        <3>2. CASE s # <<>>
            <4> DEFINE n == Len(s) - 1
            <4>1. n \in Nat /\ n + 1 = Len(s) /\ Tail(s) \in Seq(Nat) /\ Len(Tail(s)) = n
                BY <1>1, <3>2
            <4>2. f[Len(s)] = Body(f[n])
                BY <1>4, <1>6, <4>1
            <4>3. f[Len(s)][s] = Head(s) + f[n][Tail(s)]
                BY <3>2, <4>2 DEF Body
            <4> QED
                BY <3>2, <4>1, <4>3
        <3> QED
            BY <3>1, <3>2
    <2> QED
        BY <2>1 DEF Body
<1>8. Sum = CHOOSE g : g = Body(g)
    BY DEF Sum, Body
<1>9. Sum = Body(Sum)
    BY <1>7, <1>8
<1> QED
    BY <1>9 DEF Body

LEMMA SumType == \A s \in Seq(Nat) : Sum[s] \in Nat
<1> DEFINE T == {n \in Nat : \A s \in Seq(Nat) : Len(s) = n => Sum[s] \in Nat}
<1>1. 0 \in T
    BY SumEquation, EmptySeq
<1>2. ASSUME NEW n \in Nat, n \in T PROVE n + 1 \in T
    <2> SUFFICES ASSUME NEW s \in Seq(Nat), Len(s) = n + 1 PROVE Sum[s] \in Nat
        OBVIOUS
    <2>1. s # <<>> /\ Head(s) \in Nat /\ Tail(s) \in Seq(Nat) /\ Len(Tail(s)) = n
        BY HeadTailProperties, EmptySeq
    <2>2. Sum[Tail(s)] \in Nat
        BY <1>2, <2>1
    <2>3. Sum[s] = Head(s) + Sum[Tail(s)]
        BY <2>1, SumEquation
    <2> QED
        BY <2>1, <2>2, <2>3
<1> HIDE DEF T
<1>3. \A n \in Nat : n \in T
    BY <1>1, <1>2, Induct
<1> QED
    BY <1>3, LenProperties DEF T

USE RetrievalAssumption

------------------------------------------------------------------------------
(* What the stream holds.                                                  *)

Queries == [pc : {"idle", "search", "rerank"}, caller : Callers, docs : Selections]

(* Everything a stream holds matched the filter of its question, and hits  *)
(* do not outlive the call that uses them.                                 *)
StreamInv(r) ==
    /\ hits[r] # {} => query[r].pc = "rerank"
    /\ \A x \in Retrieved(r) : x \in Matching(query[r].caller, query[r].docs)

ReaderTypeOK ==
    /\ query \in [Readers -> Queries]
    /\ DOMAIN hits = Readers /\ DOMAIN ranked = Readers
    /\ DOMAIN context = Readers /\ DOMAIN sources = Readers

ReaderInv == ReaderTypeOK /\ \A r \in Readers : StreamInv(r)

(* Moving one stream on keeps the question it is about.                    *)
LEMMA MoveOn ==
    ASSUME ReaderTypeOK, NEW r \in Readers, NEW pc \in {"idle", "search", "rerank"},
           query' = [query EXCEPT ![r].pc = pc]
    PROVE  /\ query' \in [Readers -> Queries]
           /\ query'[r].pc = pc
           /\ \A q \in Readers : /\ query'[q].caller = query[q].caller
                                 /\ query'[q].docs = query[q].docs
                                 /\ q # r => query'[q] = query[q]
BY DEF ReaderTypeOK, Queries

(* Every step of the composition is one of Ingestion, or leaves its state. *)
LEMMA IngestionUnder == RetrievalNext => [Next]_vars
BY DEF RetrievalNext, ReaderStep, Ask, Search, Answer, AbortQuery

(* So whatever holds of Ingestion holds of it under the questions.          *)
THEOREM Underneath == RetrievalSpec => Spec
<1>1. RetrievalInit => Init
    BY DEF RetrievalInit
<1>2. [RetrievalNext]_allVars => [Next]_vars
    BY IngestionUnder DEF allVars
<1> QED
    BY <1>1, <1>2, PTL DEF RetrievalSpec, Spec

(* So what matched a question goes on matching it.                         *)
LEMMA MatchingGrows ==
    ASSUME [Next]_vars, NEW c, NEW docs
    PROVE  Matching(c, docs) \subseteq Matching(c, docs)'
BY PointsOrigin DEF Matching, Collection, Tenant, User

(* Every branch and the fusion only choose among what matches.             *)
LEMMA FoundMatches ==
    ASSUME NEW c, NEW docs, NEW H \in Fused(c, docs)
    PROVE  H \subseteq Matching(c, docs)
<1>1. PICK X \in {Best(D \cup S) : D \in Dense(c, docs), S \in Sparse(c, docs)} : H \in X
    BY DEF Fused
<1>2. PICK D \in Dense(c, docs), S \in Sparse(c, docs) : X = Best(D \cup S)
    BY <1>1
<1> QED
    BY <1>1, <1>2 DEF Dense, Sparse, Best

LEMMA ReaderInit == RetrievalInit => ReaderInv
BY DEF RetrievalInit, ReaderInv, ReaderTypeOK, StreamInv, Retrieved, Queries

(* The invariant of the streams is inductive.                              *)
LEMMA ReaderStepInv == ReaderInv /\ [RetrievalNext]_allVars => ReaderInv'
<1> SUFFICES ASSUME ReaderInv, [RetrievalNext]_allVars PROVE ReaderInv'
    OBVIOUS
<1> USE DEF ReaderInv
<1>1. \A c, docs : Matching(c, docs) \subseteq Matching(c, docs)'
    BY MatchingGrows, IngestionUnder DEF allVars
<1>2. ASSUME UNCHANGED readerVars PROVE ReaderInv'
    <2>1. ReaderTypeOK'
        BY <1>2 DEF readerVars, ReaderTypeOK
    <2>2. ASSUME NEW r \in Readers PROVE StreamInv(r)'
        <3>1. query' = query /\ hits' = hits /\ ranked' = ranked
            BY <1>2 DEF readerVars
        <3> QED
            BY <1>1, <3>1 DEF StreamInv, Retrieved
    <2> QED
        BY <2>1, <2>2
<1>3. ASSUME NEW r \in Readers, Ask(r) PROVE ReaderInv'
    <2>1. PICK c \in Callers, docs \in Selections :
              query' = [query EXCEPT ![r] = [pc |-> "search", caller |-> c, docs |-> docs]]
        BY <1>3 DEF Ask
    <2>2. ReaderTypeOK'
        BY <1>3, <2>1 DEF Ask, ReaderTypeOK, Queries
    <2>3. ASSUME NEW q \in Readers PROVE StreamInv(q)'
        <3>1. CASE q = r
            BY <1>3, <2>1, <3>1 DEF Ask, ReaderTypeOK, StreamInv, Retrieved, Queries
        <3>2. CASE q # r
            <4>1. query'[q] = query[q] /\ hits'[q] = hits[q] /\ ranked'[q] = ranked[q]
                BY <1>3, <2>1, <3>2 DEF Ask, ReaderTypeOK
            <4> QED
                BY <1>1, <4>1 DEF StreamInv, Retrieved
        <3> QED
            BY <3>1, <3>2
    <2> QED
        BY <2>2, <2>3
<1>4. ASSUME NEW r \in Readers, Search(r) PROVE ReaderInv'
    <2> DEFINE c == query[r].caller
               docs == query[r].docs
    <2>1. PICK H \in Fused(c, docs) : hits' = [hits EXCEPT ![r] = H]
        BY <1>4 DEF Search
    <2>2. H \subseteq Matching(c, docs)
        BY FoundMatches
    <2>3. query' = [query EXCEPT ![r].pc = "rerank"] /\ UNCHANGED <<ranked, context, sources>>
        BY <1>4 DEF Search
    <2>4. ReaderTypeOK'
        BY <2>1, <2>3, MoveOn DEF ReaderTypeOK
    <2>5. ASSUME NEW q \in Readers PROVE StreamInv(q)'
        <3>1. ASSUME q # r PROVE query'[q] = query[q] /\ hits'[q] = hits[q]
            BY <2>1, <2>3, <3>1, MoveOn DEF ReaderTypeOK
        <3>2. ASSUME q = r PROVE query'[q].pc = "rerank" /\ hits'[q] = H
            BY <2>1, <2>3, <3>2, MoveOn DEF ReaderTypeOK
        <3>3. /\ query'[q].caller = query[q].caller /\ query'[q].docs = query[q].docs
              /\ ranked'[q] = ranked[q]
            BY <2>3, MoveOn
        <3> QED
            BY <1>1, <2>2, <3>1, <3>2, <3>3 DEF StreamInv, Retrieved
    <2> QED
        BY <2>4, <2>5
<1>5. ASSUME NEW r \in Readers, Answer(r) PROVE ReaderInv'
    <2>1. PICK order \in [1..Smaller(RerankTopK, Cardinality(hits[r])) -> hits[r]] :
              ranked' = [ranked EXCEPT ![r] = order]
        BY <1>5 DEF Answer, Rankings
    <2>2. \A i \in DOMAIN order : order[i] \in hits[r]
        OBVIOUS
    <2>3. query' = [query EXCEPT ![r].pc = "idle"] /\ hits' = [hits EXCEPT ![r] = {}]
        BY <1>5 DEF Answer, Rankings
    <2>4. ReaderTypeOK'
        <3>1. DOMAIN context' = Readers /\ DOMAIN sources' = Readers
            BY <1>5 DEF Answer, ReaderTypeOK
        <3> QED
            BY <2>1, <2>3, <3>1, MoveOn DEF ReaderTypeOK
    <2>5. ASSUME NEW q \in Readers PROVE StreamInv(q)'
        <3>1. ASSUME q # r
              PROVE  query'[q] = query[q] /\ hits'[q] = hits[q] /\ ranked'[q] = ranked[q]
            BY <2>1, <2>3, <3>1, MoveOn DEF ReaderTypeOK
        <3>2. ASSUME q = r PROVE hits'[q] = {} /\ ranked'[q] = order
            BY <2>1, <2>3, <3>2 DEF ReaderTypeOK
        <3>3. query'[q].caller = query[q].caller /\ query'[q].docs = query[q].docs
            BY <2>3, MoveOn
        <3> QED
            BY <1>1, <2>2, <3>1, <3>2, <3>3 DEF StreamInv, Retrieved
    <2> QED
        BY <2>4, <2>5
<1>6. ASSUME NEW r \in Readers, AbortQuery(r) PROVE ReaderInv'
    <2>1. /\ query' = [query EXCEPT ![r].pc = "idle"] /\ hits' = [hits EXCEPT ![r] = {}]
          /\ UNCHANGED <<ranked, context, sources>>
        BY <1>6 DEF AbortQuery
    <2>2. ReaderTypeOK'
        BY <2>1, MoveOn DEF ReaderTypeOK
    <2>3. ASSUME NEW q \in Readers PROVE StreamInv(q)'
        <3>1. ASSUME q # r PROVE query'[q] = query[q] /\ hits'[q] = hits[q]
            BY <2>1, <3>1, MoveOn DEF ReaderTypeOK
        <3>2. ASSUME q = r PROVE hits'[q] = {}
            BY <2>1, <3>2 DEF ReaderTypeOK
        <3>3. /\ query'[q].caller = query[q].caller /\ query'[q].docs = query[q].docs
              /\ ranked'[q] = ranked[q]
            BY <2>1, MoveOn
        <3> QED
            BY <1>1, <3>1, <3>2, <3>3 DEF StreamInv, Retrieved
    <2> QED
        BY <2>2, <2>3
<1> QED
    BY <1>2, <1>3, <1>4, <1>5, <1>6 DEF RetrievalNext, ReaderStep, allVars

------------------------------------------------------------------------------
(* The reach of a search.                                                  *)

(* Searches stay within the tenant, the own uploads and the selection.     *)
THEOREM Reach == RetrievalSpec => []SourcesWithinReach
<1>1. ReaderInv => SourcesWithinReach
    <2> SUFFICES ASSUME ReaderInv, NEW r \in Readers, NEW x \in Retrieved(r)
                 PROVE  LET asker == query[r].caller  uploader == Owner[x[1]] IN
                        /\ uploader.tenant = asker.tenant
                        /\ asker.user # NoUser /\ x[1] \in Docs => uploader = asker
                        /\ query[r].docs # {} => x[1] \in query[r].docs
        BY DEF SourcesWithinReach
    <2> DEFINE asker == query[r].caller
               uploader == Owner[x[1]]
    <2>1. /\ uploader.tenant = asker.tenant
          /\ query[r].docs # {} => x[1] \in query[r].docs
          /\ asker.user # NoUser => uploader.user \in {NoUser, asker.user}
        BY DEF ReaderInv, StreamInv, Matching, Tenant, User
    <2>2. ASSUME asker.user # NoUser, x[1] \in Docs PROVE uploader = asker
        <3>1. uploader.user = asker.user
            BY <2>1, <2>2, CallersAssumption
        <3>2. asker \in Callers /\ uploader \in Callers
            BY <2>2 DEF ReaderInv, ReaderTypeOK, Queries
        <3>3. /\ asker = [tenant |-> asker.tenant, user |-> asker.user]
              /\ uploader = [tenant |-> uploader.tenant, user |-> uploader.user]
            BY <3>2, CallersAssumption
        <3> QED
            BY <2>1, <3>1, <3>3
    <2> QED
        BY <2>1, <2>2
<1> QED
    BY <1>1, ReaderInit, ReaderStepInv, PTL DEF RetrievalSpec

------------------------------------------------------------------------------
(* The documents behind the points.                                        *)

(* A point's document has a row and a file.                                *)
PointsBacked == \A x \in points : x[1] \in Registered \cap objects

BackedInv == InputInv /\ PointsBacked

LEMMA BackedStep == BackedInv /\ [Next]_vars => BackedInv'
<1> SUFFICES ASSUME BackedInv, [Next]_vars PROVE PointsBacked'
    BY InputStep DEF BackedInv
<1>1. Registered \subseteq Registered' /\ objects \subseteq objects'
    BY InputsStay DEF BackedInv, InputInv
<1>2. ASSUME NEW x \in points' \ points PROVE x[1] \in Registered \cap objects
    <2>1. PICK w \in Workers : worker[w].pc = "upsert" /\ x[1] = worker[w].doc
        BY PointsOrigin
    <2>2. worker[w].doc \in Docs
        BY <2>1, BusyHasDoc DEF BackedInv, InputInv
    <2> QED
        BY <2>1, <2>2 DEF BackedInv, InputInv, TaskInputsExist, Working
<1> QED
    BY <1>1, <1>2 DEF BackedInv, PointsBacked

LEMMA BackedInit == Init => BackedInv
BY InputInit DEF Init, BackedInv, PointsBacked

(* Every source can be looked up, during and after deletions and failures. *)
THEOREM SourcesFound == RetrievalSpec => []SourcesResolve
<1>1. BackedInv /\ ReaderInv => SourcesResolve
    BY DEF BackedInv, PointsBacked, ReaderInv, StreamInv, SourcesResolve, Matching,
           Collection, Others
<1>2. RetrievalInit => BackedInv
    BY BackedInit DEF RetrievalInit
<1>3. BackedInv /\ [RetrievalNext]_allVars => BackedInv'
    <2>1. [RetrievalNext]_allVars => [Next]_vars
        BY IngestionUnder DEF allVars
    <2> QED
        BY <2>1, BackedStep
<1> QED
    BY <1>1, <1>2, <1>3, ReaderInit, ReaderStepInv, PTL DEF RetrievalSpec

------------------------------------------------------------------------------
(* Sources are cited once.                                                 *)

(* A stream cites points of the collection, each once.                     *)
CitedInv(r) ==
    /\ \A i \in DOMAIN sources[r] : sources[r][i] \in Collection
    /\ \A i, j \in DOMAIN sources[r] : sources[r][i] = sources[r][j] => i = j

(* What is packed are some of the chunks, at their places.                 *)
LEMMA Packed ==
    ASSUME NEW order
    PROVE  /\ DOMAIN BuildContext(order) \subseteq DOMAIN order
           /\ \A i \in DOMAIN BuildContext(order) : BuildContext(order)[i] = order[i]
BY DEF BuildContext

LEMMA CitedStep ==
    ReaderInv /\ (\A r \in Readers : CitedInv(r)) /\ [RetrievalNext]_allVars
        => (\A r \in Readers : CitedInv(r))'
<1> SUFFICES ASSUME ReaderInv, \A r \in Readers : CitedInv(r), [RetrievalNext]_allVars
             PROVE  \A q \in Readers : CitedInv(q)'
    OBVIOUS
<1>1. Collection \subseteq Collection'
    BY PointsOrigin, IngestionUnder DEF allVars, Collection
<1>2. ASSUME NEW q \in Readers, sources'[q] = sources[q] \/ sources'[q] = <<>> PROVE CitedInv(q)'
    BY <1>1, <1>2 DEF CitedInv
<1>3. CASE UNCHANGED sources
    BY <1>2, <1>3
<1>4. ASSUME NEW r \in Readers, Ask(r) PROVE \A q \in Readers : CitedInv(q)'
    BY <1>2, <1>4 DEF Ask, ReaderInv, ReaderTypeOK
<1>5. ASSUME NEW r \in Readers, Answer(r), NEW q \in Readers PROVE CitedInv(q)'
    <2>1. PICK order \in [1..Smaller(RerankTopK, Cardinality(hits[r])) -> hits[r]] :
              /\ \A i, j \in DOMAIN order : i # j => order[i] # order[j]
              /\ \E cited \in {BuildContext(order), <<>>} :
                     sources' = [sources EXCEPT ![r] = cited]
        BY <1>5 DEF Answer, Rankings
    <2>2. CASE sources'[q] = sources[q] \/ sources'[q] = <<>>
        BY <1>2, <2>2
    <2>3. CASE q = r /\ sources'[q] # <<>>
        <3>1. sources'[q] = BuildContext(order)
            BY <2>1, <2>3 DEF ReaderInv, ReaderTypeOK
        <3>2. hits[r] \subseteq Collection
            BY DEF ReaderInv, StreamInv, Retrieved, Matching
        <3>3. /\ DOMAIN sources'[q] \subseteq DOMAIN order
              /\ \A i \in DOMAIN sources'[q] : sources'[q][i] = order[i] /\ order[i] \in hits[r]
            BY <3>1, Packed
        <3> QED
            BY <1>1, <2>1, <3>2, <3>3 DEF CitedInv
    <2>4. q # r => sources'[q] = sources[q]
        BY <2>1 DEF ReaderInv, ReaderTypeOK
    <2> QED
        BY <2>2, <2>3, <2>4
<1> QED
    BY <1>3, <1>4, <1>5
       DEF RetrievalNext, ReaderStep, Search, AbortQuery, allVars, readerVars

(* Unless a fault repeated an ingestion, no answer cites a text twice.     *)
THEOREM CitesOnce == RetrievalSpec => []NoRepeatedSource
<1> DEFINE AllCited == \A r \in Readers : CitedInv(r)
           Under == IndexInv /\ PointsOfRuns /\ ExecInv /\ ParsedInv
<1>1. Under /\ AllCited => NoRepeatedSource
    <2> SUFFICES ASSUME Under, AllCited, ~Happened(Repeatable), NEW r \in Readers,
                        NEW i \in DOMAIN sources[r], NEW j \in DOMAIN sources[r],
                        sources[r][i][1] = sources[r][j][1], sources[r][i][3] = sources[r][j][3]
                 PROVE  i = j
        BY DEF NoRepeatedSource, Repeatable
    <2>1. TypeOK
        BY DEF IndexInv
    <2>2. ASSUME NEW x \in Collection PROVE x = <<x[1], 1, x[3]>>
        <3>1. CASE x \in points
            <4>1. x = <<x[1], x[2], x[3]>> /\ x[1] \in Docs
                BY <2>1, <3>1 DEF TypeOK
            <4>2. runs[x[1]] \in {0, 1}
                BY <4>1 DEF ParsedInv
            <4>3. x[2] \in 1..runs[x[1]]
                BY <3>1 DEF PointsOfRuns
            <4>4. x[2] = 1
                BY <4>2, <4>3
            <4> QED
                BY <4>1, <4>4
        <3>2. CASE x \in Others
            BY <3>2 DEF Others
        <3> QED
            BY <3>1, <3>2 DEF Collection
    <2>3. sources[r][i] \in Collection /\ sources[r][j] \in Collection
        BY DEF CitedInv
    <2>4. sources[r][i] = sources[r][j]
        BY <2>2, <2>3
    <2> QED
        BY <2>4 DEF CitedInv
<1>2. RetrievalInit => Under /\ AllCited
    <2> SUFFICES ASSUME RetrievalInit PROVE PointsOfRuns /\ AllCited
        BY IndexInit, ExecInit, ParsedInit DEF RetrievalInit
    <2> QED
        BY DEF RetrievalInit, Init, PointsOfRuns, CitedInv
<1>3. Under /\ [RetrievalNext]_allVars => Under'
    <2>1. [RetrievalNext]_allVars => [Next]_vars
        BY IngestionUnder DEF allVars
    <2> QED
        BY <2>1, IndexStep, PointsOfRunsStep, ExecStep, ParsedStep
<1>4. ReaderInv /\ AllCited /\ [RetrievalNext]_allVars => AllCited'
    BY CitedStep
<1> HIDE DEF AllCited, Under
<1> QED
    BY <1>1, <1>2, <1>3, <1>4, ReaderInit, ReaderStepInv, PTL DEF RetrievalSpec

------------------------------------------------------------------------------
(* What is packed.                                                         *)

(* The chunks of a sequence, as the budget counts them.                    *)
Sizes(chunkSeq, n) == [i \in 1..n |-> Tokens[chunkSeq[i][1]]]

Chunk == {x \in Collection : x[1] \in Docs \cup OtherDocs}

(* A set of the numbers below a bound is an interval.                      *)
LEMMA UpTo ==
    ASSUME NEW N \in Nat, NEW m \in 1..N, NEW P, P \subseteq 1..N,
           \A n \in 1..N : n \in P <=> n <= m - 1
    PROVE  P = 1..(m - 1)
<1>1. \A n \in P : n \in 1..(m - 1)
    OBVIOUS
<1>2. \A n \in 1..(m - 1) : n \in P
    OBVIOUS
<1> QED
    BY <1>1, <1>2

(* What build_context packs is the longest run of best chunks that leaves  *)
(* the reserve.                                                            *)
LEMMA LongestPrefix ==
    ASSUME NEW s \in Seq(Chunk)
    PROVE  LET n == Len(BuildContext(s))
           IN  /\ BuildContext(s) = SubSeq(s, 1, n)
               /\ n \in 0..Len(s)
               /\ n > 0 => Sum[Sizes(s, n)] + Reserve <= MaxTokens
               /\ n < Len(s) => Sum[Sizes(s, n + 1)] + Reserve > MaxTokens
<1> DEFINE N == Len(s)
           Fits(k) == Left(s, k) >= Reserve
           packed == {n \in 1..N : \A k \in 1..n : Fits(k)}
           over == {k \in 1..N : ~Fits(k)}
<1>1. N \in Nat /\ DOMAIN s = 1..N /\ \A i \in 1..N : s[i] \in Chunk
    OBVIOUS
<1>2. ASSUME NEW k \in 1..N
      PROVE  Sum[Sizes(s, k)] \in Nat /\ (Fits(k) <=> Sum[Sizes(s, k)] + Reserve <= MaxTokens)
    <2>1. \A i \in 1..k : i \in 1..N /\ Tokens[s[i][1]] \in Nat
        BY <1>1 DEF Chunk
    <2>2. Sizes(s, k) \in Seq(Nat)
        BY <1>1, <2>1 DEF Sizes
    <2>3. Sum[Sizes(s, k)] \in Nat
        BY <2>2, SumType
    <2>4. Left(s, k) = MaxTokens - Sum[Sizes(s, k)]
        BY DEF Left, Sizes
    <2>5. MaxTokens \in Nat /\ Reserve \in Nat
        OBVIOUS
    <2> QED
        BY <2>3, <2>4, <2>5
<1>3. BuildContext(s) = [n \in packed |-> s[n]]
    BY <1>1 DEF BuildContext
<1> HIDE DEF Fits
<1>4. PICK p \in 0..N : packed = 1..p /\ (p < N => ~Fits(p + 1))
    <2>1. CASE over = {}
        <3>1. packed = 1..N
            BY <1>1, <2>1
        <3> QED
            BY <1>1, <3>1
    <2>2. CASE over # {}
        <3>1. PICK m \in over : \A k \in over : m <= k
            <4>1. over \in SUBSET Nat
                BY <1>1
            <4> HIDE DEF over
            <4> QED
                BY <2>2, <4>1, LeastNat
        <3>2. m \in 1..N /\ ~Fits(m)
            BY <3>1
        <3>3. ASSUME NEW n \in 1..N PROVE n \in packed <=> n <= m - 1
            BY <1>1, <3>1, <3>2
        <3>4. packed = 1..(m - 1)
            <4>1. packed \subseteq 1..N
                OBVIOUS
            <4> HIDE DEF packed, over
            <4> QED
                BY <1>1, <3>2, <3>3, <4>1, UpTo
        <3> QED
            BY <1>1, <3>2, <3>4
    <2> QED
        BY <2>1, <2>2
<1> HIDE DEF packed, over
<1>5. BuildContext(s) = [n \in 1..p |-> s[n]]
    BY <1>3, <1>4
<1>6. BuildContext(s) \in Seq(Chunk) /\ Len(BuildContext(s)) = p
    BY <1>1, <1>5
<1>7. BuildContext(s) = SubSeq(s, 1, p)
    <2>1. p \in Nat /\ p <= Len(s)
        BY <1>1
    <2> QED
        BY <1>5, <2>1
<1>8. p > 0 => Fits(p)
    BY <1>1, <1>4 DEF packed
<1>9. p > 0 => Sum[Sizes(s, p)] + Reserve <= MaxTokens
    BY <1>1, <1>2, <1>8
<1>10. p < N => Sum[Sizes(s, p + 1)] + Reserve > MaxTokens
    <2> SUFFICES ASSUME p < N PROVE Sum[Sizes(s, p + 1)] + Reserve > MaxTokens
        OBVIOUS
    <2>1. p + 1 \in 1..N /\ ~Fits(p + 1)
        BY <1>1, <1>4
    <2>2. MaxTokens \in Nat /\ Reserve \in Nat
        OBVIOUS
    <2> QED
        BY <1>2, <2>1, <2>2
<1> QED
    BY <1>6, <1>7, <1>9, <1>10

(* The collection stays finite, and its points are of known documents.     *)
CollectionInv == TypeOK /\ IsFiniteSet(points)

LEMMA CollectionStep == CollectionInv /\ [Next]_vars => CollectionInv'
<1> SUFFICES ASSUME CollectionInv, [Next]_vars PROVE IsFiniteSet(points')
    BY TypeStep DEF CollectionInv
<1>1. ASSUME NEW x, points' = points \cup {x} PROVE IsFiniteSet(points')
    BY <1>1, FS_AddElement DEF CollectionInv
<1> QED
    BY <1>1, PointsGrow DEF CollectionInv

LEMMA CollectionIs ==
    ASSUME CollectionInv
    PROVE  Chunk = Collection /\ IsFiniteSet(Collection)
<1>1. \A x \in Collection : x[1] \in Docs \cup OtherDocs
    BY DEF Collection, Others, CollectionInv, TypeOK
<1>2. IsFiniteSet(Others)
    <2> DEFINE f == [d \in OtherDocs |-> <<d, 1, 1>>]
    <2>1. f \in [OtherDocs -> Others]
        BY DEF Others
    <2>2. ASSUME NEW x \in Others PROVE \E d \in OtherDocs : f[d] = x
        BY DEF Others
    <2>3. f \in Surjection(OtherDocs, Others)
        BY <2>1, <2>2 DEF Surjection
    <2> QED
        BY <2>3, FS_Surjection
<1>3. IsFiniteSet(Collection)
    BY <1>2, FS_Union DEF CollectionInv, Collection
<1> QED
    BY <1>1, <1>3 DEF Chunk

(* The context of an answer is what is packed of its ranking.              *)
PackedInv ==
    \A r \in Readers :
        /\ ranked[r] \in Seq(Collection)
        /\ context[r] = BuildContext(ranked[r])
        /\ sources[r] \in {context[r], <<>>}

LEMMA NothingPacked == BuildContext(<<>>) = <<>>
BY DEF BuildContext

LEMMA PackedStep ==
    CollectionInv /\ ReaderInv /\ PackedInv /\ [RetrievalNext]_allVars => PackedInv'
<1> SUFFICES ASSUME CollectionInv, ReaderInv, PackedInv, [RetrievalNext]_allVars
             PROVE  \A q \in Readers : /\ ranked'[q] \in Seq(Collection')
                                       /\ context'[q] = BuildContext(ranked'[q])
                                       /\ sources'[q] \in {context'[q], <<>>}
    BY DEF PackedInv, BuildContext, Left
<1> DEFINE Packs(q) == /\ ranked'[q] \in Seq(Collection')
                       /\ context'[q] = BuildContext(ranked'[q])
                       /\ sources'[q] \in {context'[q], <<>>}
<1>1. Seq(Collection) \subseteq Seq(Collection')
    <2>1. Collection \subseteq Collection'
        BY PointsOrigin, IngestionUnder DEF allVars, Collection
    <2> QED
        BY <2>1
<1>2. ASSUME NEW q \in Readers, ranked'[q] = ranked[q], context'[q] = context[q],
             sources'[q] = sources[q]
      PROVE  Packs(q)
    BY <1>1, <1>2 DEF PackedInv
<1>3. CASE UNCHANGED <<ranked, context, sources>>
    BY <1>2, <1>3
<1>4. ASSUME NEW r \in Readers, Ask(r), NEW q \in Readers PROVE Packs(q)
    <2>1. /\ ranked' = [ranked EXCEPT ![r] = <<>>] /\ context' = [context EXCEPT ![r] = <<>>]
          /\ sources' = [sources EXCEPT ![r] = <<>>]
          /\ DOMAIN ranked = Readers /\ DOMAIN context = Readers /\ DOMAIN sources = Readers
        BY <1>4 DEF Ask, ReaderInv, ReaderTypeOK
    <2>2. CASE q # r
        BY <1>2, <2>1, <2>2
    <2>3. CASE q = r
        <3>1. /\ ranked'[q] = <<>> /\ context'[q] = <<>> /\ sources'[q] = <<>>
              /\ <<>> \in Seq(Collection')
            BY <2>1, <2>3
        <3> QED
            BY <3>1, NothingPacked
    <2> QED
        BY <2>2, <2>3
<1>5. ASSUME NEW r \in Readers, Answer(r), NEW q \in Readers PROVE Packs(q)
    <2> DEFINE k == Smaller(RerankTopK, Cardinality(hits[r]))
    <2>1. PICK order \in [1..k -> hits[r]] :
              /\ ranked' = [ranked EXCEPT ![r] = order]
              /\ context' = [context EXCEPT ![r] = BuildContext(order)]
              /\ \E cited \in {BuildContext(order), <<>>} :
                     sources' = [sources EXCEPT ![r] = cited]
        BY <1>5 DEF Answer, Rankings
    <2>2. DOMAIN ranked = Readers /\ DOMAIN context = Readers /\ DOMAIN sources = Readers
        BY DEF ReaderInv, ReaderTypeOK
    <2>3. CASE q # r
        BY <1>2, <2>1, <2>2, <2>3
    <2>4. CASE q = r
        <3>1. /\ ranked'[q] = order /\ context'[q] = BuildContext(order)
              /\ sources'[q] \in {context'[q], <<>>}
            BY <2>1, <2>2, <2>4
        <3>2. hits[r] \subseteq Collection
            BY DEF ReaderInv, StreamInv, Retrieved, Matching
        <3>3. k \in Nat
            <4>1. IsFiniteSet(hits[r])
                BY <3>2, CollectionIs, FS_Subset
            <4>2. Cardinality(hits[r]) \in Nat
                BY <4>1, FS_CardinalityType
            <4> QED
                BY <4>2 DEF Smaller
        <3> HIDE DEF k
        <3>4. order \in Seq(Collection)
            <4>1. \A i \in 1..k : order[i] \in Collection
                BY <3>2
            <4> QED
                BY <3>3, <4>1
        <3> QED
            BY <1>1, <3>1, <3>4
    <2> QED
        BY <2>3, <2>4
<1> QED
    BY <1>3, <1>4, <1>5
       DEF RetrievalNext, ReaderStep, Search, AbortQuery, allVars, readerVars

(* The LLM gets the longest run of best chunks that leaves the reserve.    *)
THEOREM PacksLongest == RetrievalSpec => []ContextIsLongestPrefix
<1>1. CollectionInv /\ PackedInv => ContextIsLongestPrefix
    <2> SUFFICES ASSUME CollectionInv, PackedInv, NEW r \in Readers
                 PROVE  LET n == Len(context[r])
                        IN  /\ context[r] = SubSeq(ranked[r], 1, n)
                            /\ n > 0 => Sum[Sizes(ranked[r], n)] + Reserve <= MaxTokens
                            /\ n < Len(ranked[r]) =>
                                   Sum[Sizes(ranked[r], n + 1)] + Reserve > MaxTokens
                            /\ sources[r] # <<>> => sources[r] = context[r]
        BY DEF ContextIsLongestPrefix, Sizes
    <2>1. ranked[r] \in Seq(Chunk) /\ context[r] = BuildContext(ranked[r])
        BY CollectionIs DEF PackedInv
    <2>2. sources[r] # <<>> => sources[r] = context[r]
        BY DEF PackedInv
    <2> QED
        BY <2>1, <2>2, LongestPrefix
<1>2. RetrievalInit => CollectionInv /\ PackedInv
    <2> SUFFICES ASSUME RetrievalInit PROVE CollectionInv /\ PackedInv
        OBVIOUS
    <2>1. CollectionInv
        BY TypeInit, FS_EmptySet DEF RetrievalInit, Init, CollectionInv
    <2>2. PackedInv
        BY NothingPacked DEF RetrievalInit, PackedInv
    <2> QED
        BY <2>1, <2>2
<1>3. CollectionInv /\ [RetrievalNext]_allVars => CollectionInv'
    <2>1. [RetrievalNext]_allVars => [Next]_vars
        BY IngestionUnder DEF allVars
    <2> QED
        BY <2>1, CollectionStep
<1>4. CollectionInv /\ ReaderInv /\ PackedInv /\ [RetrievalNext]_allVars => PackedInv'
    BY PackedStep
<1> QED
    BY <1>1, <1>2, <1>3, <1>4, ReaderInit, ReaderStepInv, PTL DEF RetrievalSpec
==============================================================================
