------------------------------ MODULE Retrieval ------------------------------
(***************************************************************************)
(* Questions asked while documents are uploaded, ingested and deleted: the *)
(* retriever (app/services/retriever.py) searches the points that module   *)
(* Ingestion writes, and build_context (app/services/generator.py) packs   *)
(* what it found for the LLM.                                              *)
(*                                                                         *)
(* The search is one call to Qdrant; reranking and packing come later, and *)
(* the sources of an answer are kept with it.  A ranking is any order: the *)
(* embeddings, the rewriting of the question and the cross-encoder only    *)
(* decide which.  A part of a document stands for one chunk here.          *)
(***************************************************************************)
EXTENDS Ingestion, Sequences

CONSTANTS
    Readers,       \* query streams being served at the same time
    Callers,       \* [tenant, user] of the tokens: documents are uploaded and
                   \* questions asked by them
    NoUser,        \* the user of an API key, and of a point without user_id
    Owner,         \* [Docs \cup OtherDocs -> Callers]: who uploaded a document
    OtherDocs,     \* documents in the collection before: of other tenants, or
                   \* legacy ones of this tenant without user_id
    Selections,    \* values of filter_doc_ids; {} for None and for []
    TopK,          \* top_k: results per branch and after fusion (20)
    RerankTopK,    \* rerank_top_k: results after reranking (5)
    Tokens,        \* [Docs \cup OtherDocs -> Nat]: estimated size of a chunk
    MaxTokens,     \* budget of build_context (6000)
    Reserve        \* what must be left of it (100)

ASSUME CallersAssumption ==
    /\ \A c \in Callers : c = [tenant |-> c.tenant, user |-> c.user]
    /\ \A d \in Docs : Owner[d].user # NoUser  \* API keys may not upload

ASSUME RetrievalAssumption ==
    /\ Owner \in [Docs \cup OtherDocs -> Callers]
    /\ Docs \cap OtherDocs = {} /\ IsFiniteSet(OtherDocs)
    /\ Tokens \in [Docs \cup OtherDocs -> Nat]
    /\ {TopK, RerankTopK, MaxTokens, Reserve} \subseteq Nat

VARIABLES
    query,    \* per reader: where it is in the stream, who asks, about what
    hits,     \* per reader: the points Qdrant returned
    ranked,   \* per reader: the reranked chunks of its last answer
    context,  \* per reader: those packed into the prompt of that answer
    sources   \* per reader: those cited by it

readerVars == <<query, hits, ranked, context, sources>>
allVars    == <<vars, readerVars>>

Others     == OtherDocs \X {1} \X {1}
Collection == points \cup Others

Smaller(m, n) == IF m < n THEN m ELSE n

RetrievalInit ==
    /\ Init
    /\ query \in [Readers -> [pc : {"idle"}, caller : Callers, docs : Selections]]
    /\ hits = [r \in Readers |-> {}]
    /\ ranked = [r \in Readers |-> <<>>]
    /\ context = [r \in Readers |-> <<>>]
    /\ sources = [r \in Readers |-> <<>>]

------------------------------------------------------------------------------
(* The payload filter.                                                     *)

Tenant(x) == Owner[x[1]].tenant
User(x)   == Owner[x[1]].user

(* _tenant_filter: an empty selection and a caller without user are falsy  *)
(* and add no condition; points without user_id match every user.          *)
Matching(c, docs) ==
    {x \in Collection : /\ Tenant(x) = c.tenant
                        /\ docs # {} => x[1] \in docs
                        /\ c.user # NoUser => User(x) \in {NoUser, c.user}}

(* The best of a set under some ranking.                                   *)
Best(S) == {T \in SUBSET S : Cardinality(T) = Smaller(TopK, Cardinality(S))}

(* Dense search ranks every point, sparse search only those that share a   *)
(* term with the question.                                                 *)
Dense(c, docs)  == Best(Matching(c, docs))

(* Mutant: the sparse branch has no filter.                                *)
SparseUnfiltered(c, docs) == UNION {Best(S) : S \in SUBSET Collection}

Sparse(c, docs) == UNION {Best(S) : S \in SUBSET Matching(c, docs)}

(* The fusion chooses among what both branches found.                      *)
Fused(c, docs) == UNION {Best(D \cup S) : D \in Dense(c, docs), S \in Sparse(c, docs)}

------------------------------------------------------------------------------
(* build_context: chunks are packed in order until one does not leave the  *)
(* reserve.                                                                *)

Sum[s \in Seq(Nat)] == IF s = <<>> THEN 0 ELSE Head(s) + Sum[Tail(s)]

(* The budget left when the first n chunks are packed.                     *)
Left(chunkSeq, n) ==
    MaxTokens - Sum[[i \in 1..n |-> Tokens[chunkSeq[i][1]]]]

(* Mutant: the budget is not reduced by what was packed.                   *)
BuildContextUncounted(chunkSeq) ==
    SelectSeq(chunkSeq, LAMBDA x : MaxTokens - Tokens[x[1]] >= Reserve)

BuildContext(chunkSeq) ==
    LET packed == {n \in DOMAIN chunkSeq : \A k \in 1..n : Left(chunkSeq, k) >= Reserve}
    IN  [n \in packed |-> chunkSeq[n]]

------------------------------------------------------------------------------
(* The stream.                                                             *)

Ask(r) ==
    /\ query[r].pc = "idle"
    /\ \E c \in Callers, docs \in Selections :
          query' = [query EXCEPT ![r] = [pc |-> "search", caller |-> c, docs |-> docs]]
    /\ ranked' = [ranked EXCEPT ![r] = <<>>]
    /\ context' = [context EXCEPT ![r] = <<>>]
    /\ sources' = [sources EXCEPT ![r] = <<>>]
    /\ UNCHANGED <<vars, hits>>

(* hybrid_search: both branches and their fusion in one call.              *)
Search(r) ==
    LET c == query[r].caller  docs == query[r].docs IN
    /\ query[r].pc = "search"
    /\ \E H \in Fused(c, docs) : hits' = [hits EXCEPT ![r] = H]
    /\ query' = [query EXCEPT ![r].pc = "rerank"]
    /\ UNCHANGED <<vars, ranked, context, sources>>

(* rerank: the best rerank_top_k of the hits in some order.                *)
Rankings(S) ==
    {order \in [1..Smaller(RerankTopK, Cardinality(S)) -> S] :
        \A i, j \in DOMAIN order : i # j => order[i] # order[j]}

(* generate_stream: a ranking of the hits, the chunks packed into the      *)
(* context, and an answer that cites them, or nothing if the LLM failed.   *)
Answer(r) ==
    /\ query[r].pc = "rerank"
    /\ \E order \in Rankings(hits[r]) :
          /\ ranked' = [ranked EXCEPT ![r] = order]
          /\ context' = [context EXCEPT ![r] = BuildContext(order)]
          /\ sources' \in {[sources EXCEPT ![r] = cited] :
                                cited \in {BuildContext(order), <<>>}}
    /\ hits' = [hits EXCEPT ![r] = {}]
    /\ query' = [query EXCEPT ![r].pc = "idle"]
    /\ UNCHANGED vars

(* The search, the rewriting or the reranking raises, or the client leaves. *)
AbortQuery(r) ==
    /\ query[r].pc # "idle"
    /\ query' = [query EXCEPT ![r].pc = "idle"]
    /\ hits' = [hits EXCEPT ![r] = {}]
    /\ UNCHANGED <<vars, ranked, context, sources>>

ReaderStep(r) == Ask(r) \/ Search(r) \/ Answer(r) \/ AbortQuery(r)

RetrievalNext ==
    \/ Next /\ UNCHANGED readerVars
    \/ \E r \in Readers : ReaderStep(r)

RetrievalSpec == RetrievalInit /\ [][RetrievalNext]_allVars
------------------------------------------------------------------------------
(* Properties.                                                             *)

Retrieved(r) == hits[r] \cup {ranked[r][i] : i \in DOMAIN ranked[r]}

(* "Tenants never see each other's vectors", a user is answered from own   *)
(* uploads and from what carries no user_id, and a selection is obeyed: no *)
(* branch of the search, no ranking and no later ingestion brings in more. *)
SourcesWithinReach ==
    \A r \in Readers : \A x \in Retrieved(r) :
        LET asker == query[r].caller  uploader == Owner[x[1]] IN
        /\ uploader.tenant = asker.tenant
        /\ asker.user # NoUser /\ x[1] \in Docs => uploader = asker
        /\ query[r].docs # {} => x[1] \in query[r].docs

(* A source can be looked up: its document has a row and a file, whatever  *)
(* failed, was repeated or was deleted before, during or after the search. *)
SourcesResolve ==
    \A r \in Readers : \A x \in Retrieved(r) :
        x[1] \in OtherDocs \/ x[1] \in Registered \cap objects

(* No answer cites the same text twice, unless a fault made the ingestion  *)
(* of the document run again.                                              *)
NoRepeatedSource ==
    ~Happened({"service", "postgres", "crash", "redelivery"}) =>
        \A r \in Readers : \A i, j \in DOMAIN sources[r] :
            <<sources[r][i][1], sources[r][i][3]>> = <<sources[r][j][1], sources[r][j][3]>>
                => i = j

(* The context is the longest run of best chunks that leaves the reserve:  *)
(* nothing is skipped, nothing is cut that would fit, and an answer cites  *)
(* exactly the chunks whose text the LLM got, or nothing.                  *)
ContextIsLongestPrefix ==
    \A r \in Readers :
        LET size(n) == Sum[[i \in 1..n |-> Tokens[ranked[r][i][1]]]]
            n       == Len(context[r])
        IN /\ context[r] = SubSeq(ranked[r], 1, n)
           /\ n > 0 => size(n) + Reserve <= MaxTokens
           /\ n < Len(ranked[r]) => size(n + 1) + Reserve > MaxTokens
           /\ sources[r] # <<>> => sources[r] = context[r]

==============================================================================
