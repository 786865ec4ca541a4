--------------------------- MODULE ExecutionProofs ---------------------------
(***************************************************************************)
(* Theorems about the executions of Ingestion's task: how many run at a    *)
(* time, what they leave behind, that none is lost, and that the system    *)
(* implements DocumentLifecycle, for every set of documents, handlers and  *)
(* workers and every bound on faults and retries.                          *)
(***************************************************************************)
EXTENDS IngestionProofs

------------------------------------------------------------------------------
(* One upload per document.                                                *)

(* A document that is being uploaded has one handler, and nobody else has  *)
(* heard of it.                                                            *)
UploadAlone ==
    \A g, h \in Handlers : upload[g].pc # "idle" /\ upload[g].doc = upload[h].doc => g = h

UploadFresh ==
    \A h \in Handlers :
        LET d == upload[h].doc IN
        /\ upload[h].pc # "idle" => d \notin dispatched /\ ~Queued(d) /\ ~Working(d)
        /\ upload[h].pc \in {"put", "insert"} => status[d] = "absent"

UploadInv == InputInv /\ dispatched \subseteq Registered /\ UploadAlone /\ UploadFresh

(* Only the handler that inserts a row and the workers that have the       *)
(* document write its status.                                              *)
LEMMA StatusOrigin ==
    ASSUME TypeOK, [Next]_vars, NEW d \in Docs, status'[d] # status[d]
    PROVE  \/ Working(d)
           \/ \E h \in Handlers : InsertRow(h) /\ upload[h].doc = d
<1> DEFINE Goal == Working(d) \/ \E h \in Handlers : InsertRow(h) /\ upload[h].doc = d
<1>1. ASSUME NEW h \in Handlers, HandlerStep(h) PROVE Goal
    BY <1>1 DEF HandlerStep, CheckQuota, PutObject, InsertRow, Dispatch, AbortUpload, dbVars,
                TypeOK
<1>2. ASSUME NEW w \in Workers, status' = status
                 \/ \E v \in Statuses : status' = [status EXCEPT ![worker[w].doc] = v]
      PROVE  Goal
    BY <1>2 DEF Working, TypeOK
<1>3. {"processing", "ready", "failed"} \subseteq Statuses
    BY DEF Statuses
<1> HIDE DEF Goal
<1>4. ASSUME NEW w \in Workers, TaskStep(w) PROVE Goal
    BY <1>2, <1>3, <1>4
       DEF TaskStep, Receive, LoadDocument, ParseAndEmbed, UpsertBatch, PersistChunks,
           MarkReady, MarkFailed, PublishRetry, GiveUp, Ack, dbVars
<1>5. ASSUME NEW w \in Workers, FaultStep(w) PROVE Goal
    BY <1>2, <1>3, <1>5
       DEF FaultStep, LoadFails, ParseFails, UpsertFails, PersistFails, MarkReadyFails,
           MarkFailedFails, Crash, Redeliver, dbVars
<1>6. Goal
    BY <1>1, <1>4, <1>5 DEF Next, Delete, BrokerLoss, vars, dbVars
<1> QED
    BY <1>6 DEF Goal

(* The upload invariant is inductive.                                      *)
LEMMA UploadStep == UploadInv /\ [Next]_vars => UploadInv'
<1> SUFFICES ASSUME UploadInv, [Next]_vars
             PROVE  dispatched' \subseteq Registered' /\ UploadAlone' /\ UploadFresh'
    BY InputStep DEF UploadInv
<1> DEFINE Goal == dispatched' \subseteq Registered' /\ UploadAlone' /\ UploadFresh'
<1>0. TypeOK /\ TypeOK' /\ UploadOrder /\ TaskInputsExist
    BY InputStep DEF UploadInv, InputInv
<1>1. Registered \subseteq Registered'
    BY InputsStay, <1>0
<1>2. ASSUME NEW d \in Docs, NEW g \in Handlers, upload[g].pc # "idle", upload[g].doc = d,
             upload'[g].pc # "idle"
      PROVE  ~Queued(d)' /\ ~Working(d)'
    <2>1. ~Queued(d) /\ ~Working(d)
        BY <1>2 DEF UploadInv, UploadFresh
    <2>2. \A h \in Handlers : upload[h].doc = d => h = g
        BY <1>2 DEF UploadInv, UploadAlone
    <2> QED
        BY <1>0, <1>2, <2>1, <2>2, MessageOrigin DEF IdleHandler
<1>3. ASSUME NEW d \in Docs, NEW g \in Handlers, upload[g].pc # "idle", upload[g].doc = d,
             upload'[g].pc \in {"put", "insert"}, status[d] = "absent"
      PROVE  status'[d] = "absent"
    <2>1. ~Working(d)
        BY <1>3 DEF UploadInv, UploadFresh
    <2>2. \A h \in Handlers : upload[h].doc = d => h = g
        BY <1>3 DEF UploadInv, UploadAlone
    <2>3. \A h \in Handlers : upload[h].doc = d => ~InsertRow(h)
        BY <1>0, <1>3, <2>2 DEF InsertRow, TypeOK
    <2>4. status'[d] # status[d] =>
              Working(d) \/ \E h \in Handlers : InsertRow(h) /\ upload[h].doc = d
        BY <1>0, StatusOrigin
    <2> QED
        BY <1>3, <2>1, <2>3, <2>4
<1>4. ASSUME UNCHANGED <<upload, dispatched>> PROVE Goal
    <2>1. UploadAlone' /\ dispatched' \subseteq Registered'
        BY <1>1, <1>4 DEF UploadInv, UploadAlone
    <2>2. ASSUME NEW h \in Handlers, upload[h].pc # "idle"
          PROVE  /\ upload[h].doc \notin dispatched /\ ~Queued(upload[h].doc)'
                 /\ ~Working(upload[h].doc)'
                 /\ upload[h].pc \in {"put", "insert"} => status'[upload[h].doc] = "absent"
        <3>1. upload[h].doc \in Docs
            BY <1>0, <2>2, ActiveHasDoc
        <3> QED
            BY <1>2, <1>3, <1>4, <2>2, <3>1 DEF UploadInv, UploadFresh
    <2>3. UploadFresh'
        BY <1>4, <2>2 DEF UploadFresh, Queued, Working
    <2> QED
        BY <2>1, <2>3
<1>5. ASSUME NEW h \in Handlers, HandlerStep(h) PROVE Goal
    <2>1. ASSUME NEW d \in Docs, CheckQuota(h, d) PROVE Goal
        <3>1. /\ upload'[h] = [pc |-> "put", doc |-> d]
              /\ \A g \in Handlers \ {h} : upload'[g] = upload[g]
              /\ \A g \in Handlers : upload[g].doc # d
              /\ UNCHANGED <<dispatched, queue, worker, status>> /\ status[d] = "absent"
            BY <1>0, <2>1 DEF CheckQuota, Fresh, TypeOK, dbVars
        <3>2. d \notin Registered /\ ~Queued(d) /\ ~Working(d)
            BY <1>0, <3>1 DEF Registered, TaskInputsExist
        <3>3. UploadAlone'
            BY <3>1 DEF UploadInv, UploadAlone
        <3>4. UploadFresh'
            BY <3>1, <3>2 DEF UploadInv, UploadFresh, Queued, Working
        <3> QED
            BY <1>1, <3>1, <3>3, <3>4 DEF UploadInv
    <2>2. ASSUME PutObject(h) \/ InsertRow(h) PROVE Goal
        <3>1. /\ upload'[h].doc = upload[h].doc /\ upload[h].pc # "idle"
              /\ upload'[h].pc \in {"put", "insert"} => upload[h].pc \in {"put", "insert"}
              /\ \A g \in Handlers \ {h} : upload'[g] = upload[g]
              /\ UNCHANGED dispatched
            BY <1>0, <2>2 DEF PutObject, InsertRow, TypeOK
        <3>2. UploadAlone'
            BY <3>1 DEF UploadInv, UploadAlone
        <3>3. ASSUME NEW g \in Handlers, upload'[g].pc # "idle", NEW d, d = upload'[g].doc
              PROVE  /\ d \notin dispatched' /\ ~Queued(d)' /\ ~Working(d)'
                     /\ upload'[g].pc \in {"put", "insert"} => status'[d] = "absent"
            <4>1. d = upload[g].doc /\ upload[g].pc # "idle"
                BY <3>1, <3>3
            <4>2. d \in Docs
                BY <1>0, <4>1, ActiveHasDoc
            <4>3. d \notin dispatched
                BY <4>1 DEF UploadInv, UploadFresh
            <4>4. upload'[g].pc \in {"put", "insert"} =>
                      upload[g].pc \in {"put", "insert"} /\ status[d] = "absent"
                BY <3>1, <4>1 DEF UploadInv, UploadFresh
            <4> QED
                BY <1>2, <1>3, <3>1, <3>3, <4>1, <4>2, <4>3, <4>4
        <3>4. UploadFresh'
            BY <3>3 DEF UploadFresh, Queued, Working
        <3> QED
            BY <1>1, <3>1, <3>2, <3>4 DEF UploadInv
    <2>3. ASSUME Dispatch(h) \/ AbortUpload(h) PROVE Goal
        <3>1. /\ upload'[h].pc = "idle" /\ upload'[h].doc = NoDoc
              /\ \A g \in Handlers \ {h} : upload'[g] = upload[g]
              /\ upload[h].doc \in Docs
              /\ dispatched' \subseteq dispatched \cup {upload[h].doc}
              /\ dispatched' # dispatched => upload[h].pc = "dispatch"
            BY <1>0, <2>3, ActiveHasDoc DEF Dispatch, AbortUpload, TypeOK, IdleHandler
        <3>a. \A g \in Handlers : upload[g].pc # "idle" => upload[g].doc # NoDoc
            BY <1>0 DEF TypeOK
        <3>2. UploadAlone'
            BY <3>1, <3>a DEF UploadInv, UploadAlone
        <3>3. ASSUME NEW g \in Handlers, upload'[g].pc # "idle", NEW d, d = upload'[g].doc
              PROVE  /\ d \notin dispatched' /\ ~Queued(d)' /\ ~Working(d)'
                     /\ upload'[g].pc \in {"put", "insert"} => status'[d] = "absent"
            <4>1. g # h /\ upload'[g] = upload[g] /\ upload[g].pc # "idle" /\ d = upload[g].doc
                BY <3>1, <3>3
            <4>2. d \in Docs /\ d # upload[h].doc
                BY <1>0, <4>1, ActiveHasDoc DEF UploadInv, UploadAlone
            <4>3. d \notin dispatched
                BY <4>1 DEF UploadInv, UploadFresh
            <4>4. upload'[g].pc \in {"put", "insert"} => status[d] = "absent"
                BY <4>1 DEF UploadInv, UploadFresh
            <4> QED
                BY <1>2, <1>3, <3>1, <3>3, <4>1, <4>2, <4>3, <4>4
        <3>4. UploadFresh'
            BY <3>3 DEF UploadFresh, Queued, Working
        <3>5. dispatched' \subseteq Registered'
            BY <1>0, <1>1, <3>1 DEF UploadInv, UploadOrder
        <3> QED
            BY <3>2, <3>4, <3>5
    <2> QED
        BY <1>5, <2>1, <2>2, <2>3 DEF HandlerStep
<1> HIDE DEF Goal
<1>6. ASSUME NEW w \in Workers, TaskStep(w) \/ FaultStep(w) PROVE Goal
    BY <1>4, <1>6
       DEF TaskStep, Receive, LoadDocument, ParseAndEmbed, UpsertBatch, PersistChunks,
           MarkReady, MarkFailed, PublishRetry, GiveUp, Ack, FaultStep, LoadFails, ParseFails,
           UpsertFails, PersistFails, MarkReadyFails, MarkFailedFails, Crash, Redeliver,
           uploadVars
<1>7. Goal
    BY <1>4, <1>5, <1>6 DEF Next, Delete, BrokerLoss, vars, uploadVars
<1> QED
    BY <1>7 DEF Goal

LEMMA UploadInit == Init => UploadInv
BY InputInit DEF Init, UploadInv, UploadAlone, UploadFresh, IdleHandler

------------------------------------------------------------------------------
(* No document is forgotten.                                               *)

(* A worker that will still settle its document.                           *)
Pursuing(w) == worker[w].pc \in {"load", "parse", "upsert", "mark", "except"}

Pursued(d) == \E w \in Workers : Pursuing(w) /\ worker[w].doc = d

(* Without a redelivery or a new broker the queue takes back what a worker *)
(* drops, so that a published document is settled, queued or pursued.      *)
HeldInv == Happened({"redelivery", "brokerLoss"}) \/
               \A w \in Workers : worker[w].pc # "idle" => worker[w].held

TrackInv == TrackLost \/ \A d \in dispatched : Settled(d) \/ Queued(d) \/ Pursued(d)

(* Counts of faults only grow.                                             *)
LEMMA FaultsGrow ==
    ASSUME TypeOK, [Next]_vars
    PROVE  \A k \in FaultKinds : faults'[k] \in Nat /\ faults[k] <= faults'[k]
<1> DEFINE Goal == \A k \in FaultKinds : faults'[k] \in Nat /\ faults[k] <= faults'[k]
<1>1. ASSUME UNCHANGED faults PROVE Goal
    BY <1>1 DEF TypeOK
<1>2. ASSUME NEW k \in FaultKinds, Fault(k) PROVE Goal
    BY <1>2 DEF Fault, TypeOK
<1>3. {"service", "postgres", "crash", "redelivery", "brokerLoss"} \subseteq FaultKinds
    BY DEF FaultKinds
<1> HIDE DEF Goal
<1>4. ASSUME NEW h \in Handlers, HandlerStep(h) PROVE Goal
    BY <1>1, <1>4 DEF HandlerStep, CheckQuota, PutObject, InsertRow, Dispatch, AbortUpload
<1>5. ASSUME NEW d \in Docs, Delete(d) PROVE Goal
    BY <1>1, <1>5 DEF Delete
<1>6. ASSUME NEW w \in Workers, TaskStep(w) PROVE Goal
    BY <1>1, <1>2, <1>3, <1>6
       DEF TaskStep, Receive, LoadDocument, ParseAndEmbed, UpsertBatch, PersistChunks,
           MarkReady, MarkFailed, PublishRetry, GiveUp, Ack
<1>7. ASSUME NEW w \in Workers, FaultStep(w) PROVE Goal
    BY <1>1, <1>2, <1>3, <1>7
       DEF FaultStep, LoadFails, ParseFails, UpsertFails, PersistFails, MarkReadyFails,
           MarkFailedFails, Crash, Redeliver
<1>8. ASSUME BrokerLoss PROVE Goal
    BY <1>2, <1>3, <1>8 DEF BrokerLoss
<1>9. ASSUME UNCHANGED vars PROVE Goal
    BY <1>1, <1>9 DEF vars
<1>10. Goal
    BY <1>4, <1>5, <1>6, <1>7, <1>8, <1>9 DEF Next
<1> QED
    BY <1>10 DEF Goal

(* What happened stays happened, and a fault that strikes has happened.    *)
LEMMA HappenedStays ==
    ASSUME TypeOK, [Next]_vars, NEW kinds \in SUBSET FaultKinds, Happened(kinds)
    PROVE  Happened(kinds)'
BY FaultsGrow DEF Happened, TypeOK

LEMMA FaultHappens ==
    ASSUME TypeOK, NEW k \in FaultKinds, Fault(k), NEW kinds, k \in kinds
    PROVE  Happened(kinds)'
BY DEF Fault, Happened, TypeOK

(* The queue after one more message of a document.                         *)
LEMMA MessageQueued ==
    ASSUME TypeOK, NEW d \in Docs, NEW r \in 0..MaxRetries,
           queue' = [queue EXCEPT ![<<d, r>>] = @ + 1]
    PROVE  /\ Queued(d)'
           /\ \A e \in Docs : Queued(e) => Queued(e)'
<1> DEFINE new == <<d, r>>
<1>0. new \in Messages /\ queue' = [queue EXCEPT ![new] = queue[new] + 1]
    BY DEF Messages
<1>a. queue \in [Messages -> Nat]
    BY DEF TypeOK
<1> HIDE DEF new
<1>1. \A m \in Messages : queue'[m] \in Nat /\ queue[m] <= queue'[m]
    BY <1>0, <1>a
<1>2. queue'[new] > 0
    BY <1>0, <1>a
<1>3. \A e \in Docs, s \in 0..MaxRetries : <<e, s>> \in Messages
    BY DEF Messages
<1>4. ASSUME NEW e \in Docs, Queued(e) PROVE Queued(e)'
    <2>1. PICK s \in 0..MaxRetries : queue[<<e, s>>] > 0
        BY <1>4 DEF Queued
    <2>2. queue[<<e, s>>] \in Nat
        BY <1>3 DEF TypeOK
    <2>3. queue'[<<e, s>>] > 0
        BY <1>1, <1>3, <2>1, <2>2
    <2> QED
        BY <2>3 DEF Queued
<1>5. Queued(d)'
    BY <1>2 DEF Queued, new
<1> QED
    BY <1>4, <1>5

(* A worker that starts nothing new and is not dropped.                    *)
LEMMA HeldStays ==
    ASSUME TypeOK, HeldInv, [Next]_vars,
           \A w \in Workers : worker'[w].pc # "idle" =>
               worker'[w].held \/ (worker[w].pc # "idle" /\ worker'[w].held = worker[w].held)
    PROVE  HeldInv'
<1>1. {"redelivery", "brokerLoss"} \in SUBSET FaultKinds
    BY DEF FaultKinds
<1> QED
    BY <1>1, HappenedStays DEF HeldInv

(* Without a redelivery or a new broker a busy worker holds its message.   *)
LEMMA HeldStep == TypeOK /\ HeldInv /\ [Next]_vars => HeldInv'
<1> SUFFICES ASSUME TypeOK, HeldInv, [Next]_vars PROVE HeldInv'
    OBVIOUS
<1>1. ASSUME UNCHANGED worker PROVE HeldInv'
    BY <1>1, HeldStays
<1>2. ASSUME NEW w \in Workers, NEW pc \in WorkerPcs, worker[w].pc # "idle",
             worker' = [worker EXCEPT ![w].pc = pc]
      PROVE  HeldInv'
    <2>1. \A v \in Workers : worker'[v].held = worker[v].held
                             /\ (worker'[v].pc # "idle" => worker[v].pc # "idle")
        BY <1>2 DEF TypeOK, WorkerStates
    <2> QED
        BY <2>1, HeldStays
<1>3. ASSUME NEW w \in Workers, worker' = [worker EXCEPT ![w] = IdleWorker] PROVE HeldInv'
    BY <1>3, HeldStays DEF TypeOK, IdleWorker
<1>4. WorkerPcs = {"idle", "load", "parse", "upsert", "mark", "except", "retry", "ack"}
    BY DEF WorkerPcs
<1>5. ASSUME NEW w \in Workers, TaskStep(w) PROVE HeldInv'
    <2>1. ASSUME NEW m \in Messages, Receive(w, m) PROVE HeldInv'
        <3>1. worker' = [worker EXCEPT ![w] = [IdleWorker EXCEPT !.pc = "load", !.doc = m[1],
                                                   !.retries = m[2], !.held = TRUE]]
            BY <2>1 DEF Receive
        <3>2. worker'[w].held /\ \A v \in Workers : v # w => worker'[v] = worker[v]
            BY <3>1 DEF TypeOK, IdleWorker
        <3> QED
            BY <3>2, HeldStays
    <2>2. ASSUME ParseAndEmbed(w) \/ UpsertBatch(w) PROVE HeldInv'
        <3>1. \A v \in Workers : worker'[v].held = worker[v].held
                                 /\ (worker'[v].pc # "idle" => worker[v].pc # "idle")
            BY <2>2 DEF ParseAndEmbed, UpsertBatch, TypeOK, WorkerStates
        <3> QED
            BY <3>1, HeldStays
    <2>3. ASSUME Ack(w) PROVE HeldInv'
        BY <1>3, <2>3 DEF Ack
    <2>4. ASSUME \/ LoadDocument(w) \/ PersistChunks(w) \/ MarkReady(w) \/ MarkFailed(w)
                 \/ PublishRetry(w) \/ GiveUp(w)
          PROVE  HeldInv'
        BY <1>2, <1>4, <2>4 DEF LoadDocument, PersistChunks, UpsertDone, MarkReady, MarkFailed,
                                PublishRetry, GiveUp, Goto
    <2> QED
        BY <1>5, <2>1, <2>2, <2>3, <2>4 DEF TaskStep
<1>6. ASSUME NEW w \in Workers, FaultStep(w) PROVE HeldInv'
    <2>1. ASSUME Crash(w) PROVE HeldInv'
        BY <1>3, <2>1 DEF Crash
    <2>2. ASSUME Redeliver(w) PROVE HeldInv'
        BY <2>2, FaultHappens DEF Redeliver, FaultKinds, HeldInv
    <2>3. ASSUME \/ LoadFails(w) \/ ParseFails(w) \/ UpsertFails(w) \/ PersistFails(w)
                 \/ MarkReadyFails(w) \/ MarkFailedFails(w)
          PROVE  HeldInv'
        BY <1>2, <1>4, <2>3 DEF LoadFails, ParseFails, UpsertFails, PersistFails, UpsertDone,
                                MarkReadyFails, MarkFailedFails, Goto
    <2> QED
        BY <1>6, <2>1, <2>2, <2>3 DEF FaultStep
<1>7. ASSUME BrokerLoss PROVE HeldInv'
    BY <1>7, FaultHappens DEF BrokerLoss, FaultKinds, HeldInv
<1>8. ASSUME NEW h \in Handlers, HandlerStep(h) PROVE HeldInv'
    BY <1>1, <1>8 DEF HandlerStep, CheckQuota, PutObject, InsertRow, Dispatch, AbortUpload
<1>9. ASSUME NEW d \in Docs, Delete(d) PROVE HeldInv'
    BY <1>1, <1>9 DEF Delete
<1>10. ASSUME UNCHANGED vars PROVE HeldInv'
    BY <1>1, <1>10 DEF vars
<1> QED
    BY <1>5, <1>6, <1>7, <1>8, <1>9, <1>10 DEF Next

(* Whoever leaves a document alone leaves it tracked.                      *)
LEMMA TrackStays ==
    ASSUME TypeOK, TrackInv, [Next]_vars, dispatched' = dispatched,
           \A d \in Docs : Settled(d) /\ ~Settled(d)' => Pursued(d)',
           \A d \in Docs : Queued(d) => Queued(d)' \/ Pursued(d)',
           \A d \in Docs : Pursued(d) => Settled(d)' \/ Queued(d)' \/ Pursued(d)'
    PROVE  TrackInv'
<1>1. CASE TrackLost
    <2>1. \A kinds \in SUBSET FaultKinds : Happened(kinds) => Happened(kinds)'
        BY HappenedStays
    <2>2. /\ {"postgres", "brokerLoss"} \in SUBSET FaultKinds
          /\ {"crash"} \in SUBSET FaultKinds /\ {"redelivery"} \in SUBSET FaultKinds
        BY DEF FaultKinds
    <2> QED
        BY <1>1, <2>1, <2>2 DEF TrackLost, TrackInv
<1>2. CASE ~TrackLost
    BY <1>2 DEF TrackInv, TypeOK
<1> QED
    BY <1>1, <1>2

(* A worker's move within its task.                                        *)
LEMMA PursuitMoves ==
    ASSUME TypeOK, NEW w \in Workers, worker[w].pc # "idle",
           NEW pc \in WorkerPcs \ {"idle"}, Goto(w, pc)
    PROVE  /\ pc \in {"load", "parse", "upsert", "mark", "except"} =>
                  \A d \in Docs : d = worker[w].doc => Pursued(d)'
           /\ \A d \in Docs : Pursued(d) => Pursued(d)' \/ d = worker[w].doc
           /\ ~Pursuing(w) => \A d \in Docs : Pursued(d) => Pursued(d)'
<1>1. /\ worker'[w].pc = pc /\ worker'[w].doc = worker[w].doc
      /\ \A v \in Workers : v # w => worker'[v] = worker[v]
    BY DEF Goto, TypeOK, WorkerStates
<1> QED
    BY <1>1 DEF Pursued, Pursuing

(* Every published document stays tracked, step by step.                   *)
LEMMA TrackStep == UploadInv /\ HeldInv /\ TrackInv /\ [Next]_vars => TrackInv'
<1> SUFFICES ASSUME UploadInv, HeldInv, TrackInv, [Next]_vars PROVE TrackInv'
    OBVIOUS
<1>0. TypeOK /\ TaskInputsExist
    BY DEF UploadInv, InputInv
<1>1. ASSUME NEW k \in {"postgres", "brokerLoss"}, Fault(k) PROVE TrackInv'
    <2>1. Happened({"postgres", "brokerLoss"})'
        BY <1>0, <1>1, FaultHappens DEF FaultKinds
    <2> QED
        BY <2>1 DEF TrackInv, TrackLost
<1>2. ASSUME NEW w \in Workers, worker[w].pc # "idle", NEW pc \in WorkerPcs \ {"idle"},
             Goto(w, pc), UNCHANGED dispatched,
             \A d \in Docs : Queued(d) => Queued(d)',
             \A d \in Docs \ {worker[w].doc} : status'[d] = status[d],
             \/ pc \in {"load", "parse", "upsert", "mark", "except"}
             \/ \A d \in Docs : d = worker[w].doc => Settled(d)'
             \/ ~Pursuing(w) /\ status' = status
      PROVE  TrackInv'
    <2>1. worker[w].doc \in Docs
        BY <1>0, <1>2, BusyHasDoc
    <2>m. /\ pc \in {"load", "parse", "upsert", "mark", "except"} =>
                 \A d \in Docs : d = worker[w].doc => Pursued(d)'
          /\ \A d \in Docs : Pursued(d) => Pursued(d)' \/ d = worker[w].doc
          /\ ~Pursuing(w) => \A d \in Docs : Pursued(d) => Pursued(d)'
        BY <1>0, <1>2, PursuitMoves
    <2>2. ASSUME NEW d \in Docs, Pursued(d) PROVE Settled(d)' \/ Queued(d)' \/ Pursued(d)'
        BY <1>2, <2>2, <2>m
    <2>3. ASSUME NEW d \in Docs, Settled(d), ~Settled(d)' PROVE Pursued(d)'
        <3>1. d = worker[w].doc
            BY <1>2, <2>3 DEF Settled
        <3>2. pc \in {"load", "parse", "upsert", "mark", "except"}
            BY <1>2, <2>3, <3>1 DEF Settled
        <3> QED
            BY <2>3, <2>m, <3>1, <3>2
    <2> QED
        BY <1>0, <1>2, <2>2, <2>3, TrackStays
<1>3. ASSUME UNCHANGED <<status, queue, worker, dispatched>> PROVE TrackInv'
    BY <1>0, <1>3, TrackStays DEF Settled, Queued, Pursued, Pursuing
<1>4. ASSUME NEW h \in Handlers, HandlerStep(h) PROVE TrackInv'
    <2>1. ASSUME InsertRow(h) PROVE TrackInv'
        <3>1. /\ upload[h].doc \notin dispatched
              /\ \A d \in Docs : d = upload[h].doc \/ status'[d] = status[d]
              /\ UNCHANGED <<queue, worker, dispatched>>
            BY <1>0, <2>1 DEF InsertRow, TypeOK, UploadInv, UploadFresh
        <3>2. CASE TrackLost
            BY <2>1, <3>2 DEF TrackInv, TrackLost, Happened, InsertRow
        <3>3. CASE ~TrackLost
            BY <1>0, <3>1, <3>3 DEF TrackInv, Settled, Queued, Pursued, Pursuing, TypeOK
        <3> QED
            BY <3>2, <3>3
    <2>2. ASSUME Dispatch(h) PROVE TrackInv'
        <3>0. PICK e \in Docs : e = upload[h].doc
            BY <1>0, <2>2, ActiveHasDoc DEF Dispatch
        <3>1. 0 \in 0..MaxRetries /\ queue' = [queue EXCEPT ![<<e, 0>>] = @ + 1]
            BY <2>2, <3>0, BoundsAssumption DEF Dispatch
        <3>2. Queued(e)' /\ \A d \in Docs : Queued(d) => Queued(d)'
            BY <1>0, <3>1, MessageQueued
        <3>3. /\ dispatched' = dispatched \cup {e}
              /\ UNCHANGED <<status, worker, faults>>
            BY <2>2, <3>0 DEF Dispatch, dbVars
        <3>4. CASE TrackLost
            BY <3>3, <3>4 DEF TrackInv, TrackLost, Happened
        <3>5. CASE ~TrackLost
            <4>1. ASSUME NEW d \in dispatched' PROVE Settled(d)' \/ Queued(d)' \/ Pursued(d)'
                <5>1. CASE d \in dispatched
                    BY <1>0, <3>2, <3>3, <3>5, <5>1
                       DEF TrackInv, Settled, Pursued, Pursuing, TypeOK
                <5>2. CASE d = e
                    BY <3>2, <5>2
                <5> QED
                    BY <3>3, <4>1, <5>1, <5>2
            <4> QED
                BY <4>1 DEF TrackInv
        <3> QED
            BY <3>4, <3>5
    <2>3. ASSUME (\E d \in Docs : CheckQuota(h, d)) \/ PutObject(h) \/ AbortUpload(h)
          PROVE  TrackInv'
        BY <1>3, <2>3 DEF CheckQuota, PutObject, AbortUpload, dbVars
    <2> QED
        BY <1>4, <2>1, <2>2, <2>3 DEF HandlerStep
<1>5. WorkerPcs = {"idle", "load", "parse", "upsert", "mark", "except", "retry", "ack"}
    BY DEF WorkerPcs
<1>6. ASSUME UNCHANGED queue PROVE \A d \in Docs : Queued(d) => Queued(d)'
    BY <1>6 DEF Queued
<1>7. ASSUME NEW w \in Workers, worker[w].pc # "idle",
             NEW v \in Statuses, status' = [status EXCEPT ![worker[w].doc] = v]
      PROVE  /\ \A d \in Docs \ {worker[w].doc} : status'[d] = status[d]
             /\ v \in {"ready", "failed"} => \A d \in Docs : d = worker[w].doc => Settled(d)'
    BY <1>0, <1>7 DEF Settled, TypeOK
<1>8. ASSUME NEW w \in Workers, worker' = [worker EXCEPT ![w] = IdleWorker],
             ~Pursuing(w), UNCHANGED <<status, dispatched>>,
             \A d \in Docs : Queued(d) => Queued(d)'
      PROVE  TrackInv'
    <2>1. \A d \in Docs : Pursued(d) => Pursued(d)'
        BY <1>0, <1>8 DEF Pursued, Pursuing, TypeOK
    <2> QED
        BY <1>0, <1>8, <2>1, TrackStays DEF Settled
<1>9. ASSUME NEW w \in Workers, TaskStep(w) PROVE TrackInv'
    <2>1. ASSUME NEW m \in Messages, Receive(w, m) PROVE TrackInv'
        <3>1. PICK e \in Docs, n \in 0..MaxRetries : m = <<e, n>>
            BY DEF Messages
        <3>2. /\ worker'[w].pc = "load" /\ worker'[w].doc = e
              /\ \A v \in Workers \ {w} : worker'[v] = worker[v]
              /\ worker[w].pc = "idle"
            BY <1>0, <2>1, <3>1 DEF Receive, TypeOK, IdleWorker
        <3>3. \A d \in Docs : Queued(d) => Queued(d)' \/ d = e
            <4>1. \A k \in Messages \ {m} : queue'[k] = queue[k]
                BY <1>0, <2>1 DEF Receive, TypeOK
            <4> QED
                BY <3>1, <4>1 DEF Queued, Messages
        <3>4. \A d \in Docs : Pursued(d) \/ d = e => Pursued(d)'
            BY <3>2 DEF Pursued, Pursuing
        <3> QED
            BY <1>0, <2>1, <3>3, <3>4, TrackStays DEF Receive, Settled, dbVars, uploadVars
    <2>2. ASSUME LoadDocument(w) PROVE TrackInv'
        BY <1>2, <1>5, <1>6, <1>7, <2>2 DEF LoadDocument, Statuses, uploadVars
    <2>3. ASSUME ParseAndEmbed(w) \/ UpsertBatch(w) PROVE TrackInv'
        <3>1. \A v \in Workers : /\ worker'[v].doc = worker[v].doc
                                 /\ v = w => worker'[v].pc = "upsert"
                                 /\ v # w => worker'[v].pc = worker[v].pc
            BY <1>0, <2>3 DEF ParseAndEmbed, UpsertBatch, TypeOK, WorkerStates
        <3>2. \A d \in Docs : Pursued(d) => Pursued(d)'
            BY <3>1 DEF Pursued, Pursuing
        <3> QED
            BY <1>0, <1>6, <2>3, <3>2, TrackStays
               DEF ParseAndEmbed, UpsertBatch, Settled, dbVars, uploadVars
    <2>4. ASSUME PersistChunks(w) PROVE TrackInv'
        BY <1>2, <1>5, <1>6, <2>4 DEF PersistChunks, UpsertDone, dbVars, uploadVars
    <2>5. ASSUME MarkReady(w) PROVE TrackInv'
        BY <1>2, <1>5, <1>6, <1>7, <2>5 DEF MarkReady, Statuses, uploadVars
    <2>6. ASSUME MarkFailed(w) PROVE TrackInv'
        BY <1>2, <1>5, <1>6, <1>7, <2>6 DEF MarkFailed, Statuses, uploadVars
    <2>7. ASSUME PublishRetry(w) PROVE TrackInv'
        <3>1. /\ worker[w].doc \in Docs /\ worker[w].retries + 1 \in 0..MaxRetries
            BY <1>0, <2>7, BusyHasDoc, BoundsAssumption DEF PublishRetry, TypeOK, WorkerStates
        <3>2. \A d \in Docs : Queued(d) => Queued(d)'
            BY <1>0, <2>7, <3>1, MessageQueued DEF PublishRetry
        <3> QED
            BY <1>2, <1>5, <2>7, <3>2 DEF PublishRetry, Pursuing, dbVars, uploadVars
    <2>8. ASSUME GiveUp(w) PROVE TrackInv'
        BY <1>2, <1>5, <1>6, <2>8 DEF GiveUp, Pursuing, dbVars, uploadVars
    <2>9. ASSUME Ack(w) PROVE TrackInv'
        BY <1>6, <1>8, <2>9 DEF Ack, Pursuing, dbVars, uploadVars
    <2> QED
        BY <1>9, <2>1, <2>2, <2>3, <2>4, <2>5, <2>6, <2>7, <2>8, <2>9 DEF TaskStep
<1>10. ASSUME NEW w \in Workers, FaultStep(w) PROVE TrackInv'
    <2>1. ASSUME Crash(w) PROVE TrackInv'
        <3>1. CASE Happened({"redelivery", "brokerLoss"})
            <4>1. Happened({"redelivery", "brokerLoss"})'
                BY <1>0, <3>1, HappenedStays DEF FaultKinds
            <4>2. Happened({"crash"})'
                BY <1>0, <2>1, FaultHappens DEF Crash, FaultKinds
            <4> QED
                BY <4>1, <4>2 DEF TrackInv, TrackLost, Happened
        <3>2. CASE ~Happened({"redelivery", "brokerLoss"})
            <4>0. PICK e \in Docs : e = worker[w].doc
                BY <1>0, <2>1, BusyHasDoc DEF Crash
            <4>1. worker[w].held /\ worker[w].retries \in 0..MaxRetries
                BY <1>0, <2>1, <3>2, BusyHasDoc DEF Crash, HeldInv, TypeOK, WorkerStates
            <4>2. queue' = [queue EXCEPT ![<<e, worker[w].retries>>] = @ + 1]
                BY <2>1, <4>0, <4>1 DEF Crash, Requeue, HeldMessage
            <4>3. Queued(e)' /\ \A d \in Docs : Queued(d) => Queued(d)'
                BY <1>0, <4>1, <4>2, MessageQueued
            <4>4. \A v \in Workers \ {w} : worker'[v] = worker[v]
                BY <2>1 DEF Crash
            <4>5. ASSUME NEW d \in Docs, Pursued(d) PROVE Queued(d)' \/ Pursued(d)'
                <5>1. PICK v \in Workers : Pursuing(v) /\ worker[v].doc = d
                    BY <4>5 DEF Pursued
                <5>2. CASE v = w
                    BY <4>0, <4>3, <5>1, <5>2
                <5>3. CASE v # w
                    BY <4>4, <5>1, <5>3 DEF Pursued, Pursuing
                <5> QED
                    BY <5>2, <5>3
            <4> QED
                BY <1>0, <2>1, <4>3, <4>5, TrackStays DEF Crash, Settled, dbVars, uploadVars
        <3> QED
            BY <3>1, <3>2
    <2>2. ASSUME Redeliver(w) PROVE TrackInv'
        <3>1. worker[w].held /\ worker[w].doc \in Docs /\ worker[w].retries \in 0..MaxRetries
            BY <1>0, <2>2, BusyHasDoc DEF Redeliver, TypeOK, WorkerStates
        <3>2. queue' = [queue EXCEPT ![<<worker[w].doc, worker[w].retries>>] = @ + 1]
            BY <2>2, <3>1 DEF Redeliver, Requeue, HeldMessage
        <3>3. \A d \in Docs : Queued(d) => Queued(d)'
            BY <1>0, <3>1, <3>2, MessageQueued
        <3>4. \A v \in Workers : worker'[v].pc = worker[v].pc /\ worker'[v].doc = worker[v].doc
            BY <1>0, <2>2 DEF Redeliver, TypeOK, WorkerStates
        <3> QED
            BY <1>0, <2>2, <3>3, <3>4, TrackStays
               DEF Redeliver, Settled, Pursued, Pursuing, dbVars, uploadVars
    <2>3. ASSUME LoadFails(w) PROVE TrackInv'
        <3>1. worker[w].doc \in Registered
            BY <1>0, <2>3, BusyHasDoc DEF LoadFails, TaskInputsExist, Working
        <3> QED
            BY <1>1, <2>3, <3>1 DEF LoadFails
    <2>4. ASSUME PersistFails(w) \/ MarkReadyFails(w) \/ MarkFailedFails(w) PROVE TrackInv'
        BY <1>1, <2>4 DEF PersistFails, MarkReadyFails, MarkFailedFails
    <2>5. ASSUME ParseFails(w) \/ UpsertFails(w) PROVE TrackInv'
        BY <1>2, <1>5, <1>6, <2>5 DEF ParseFails, UpsertFails, dbVars, uploadVars
    <2> QED
        BY <1>10, <2>1, <2>2, <2>3, <2>4, <2>5 DEF FaultStep
<1>11. ASSUME BrokerLoss PROVE TrackInv'
    BY <1>1, <1>11 DEF BrokerLoss
<1>12. ASSUME NEW d \in Docs, Delete(d) PROVE TrackInv'
    BY <1>3, <1>12 DEF Delete, uploadVars
<1>13. ASSUME UNCHANGED vars PROVE TrackInv'
    BY <1>3, <1>13 DEF vars, dbVars, uploadVars
<1> QED
    BY <1>4, <1>9, <1>10, <1>11, <1>12, <1>13 DEF Next

(* A published document is settled, or somebody will still work on it,     *)
(* unless a fault of the three named kinds lost track of it.               *)
THEOREM NoneForgotten == Spec => []NotForgotten
<1>1. TrackInv => NotForgotten
    BY DEF TrackInv, NotForgotten, Pursued, Working
<1>2. Init => HeldInv /\ TrackInv
    BY DEF Init, HeldInv, TrackInv, IdleWorker
<1>3. UploadInv => TypeOK
    BY DEF UploadInv, InputInv
<1> QED
    BY <1>1, <1>2, <1>3, UploadInit, UploadStep, HeldStep, TrackStep, PTL DEF Spec

------------------------------------------------------------------------------
(* One execution at a time.                                                *)

Executing(w) == worker[w].pc \notin {"idle", "ack"}

(* A document has one message, or one worker that executes it.             *)
Exclusive ==
    /\ \A m, n \in Messages : queue[m] > 0 /\ queue[n] > 0 /\ m[1] = n[1] =>
           m = n /\ queue[m] = 1
    /\ \A w \in Workers, m \in Messages : Executing(w) /\ m[1] = worker[w].doc => queue[m] = 0
    /\ \A v, w \in Workers : Executing(v) /\ Executing(w) /\ worker[v].doc = worker[w].doc =>
           v = w

ExclusiveInv == Happened({"crash", "redelivery"}) \/ Exclusive

(* A message exists only for a document that was published.                *)
KnownInv == \A d \in Docs : Queued(d) \/ Working(d) => d \in dispatched

(* Publications are for ever.                                              *)
LEMMA DispatchedGrows == [Next]_vars => dispatched \subseteq dispatched'
BY DEF Next, HandlerStep, CheckQuota, PutObject, InsertRow, Dispatch, AbortUpload, Delete,
       TaskStep, Receive, LoadDocument, ParseAndEmbed, UpsertBatch, PersistChunks, MarkReady,
       MarkFailed, PublishRetry, GiveUp, Ack, FaultStep, LoadFails, ParseFails, UpsertFails,
       PersistFails, MarkReadyFails, MarkFailedFails, Crash, Redeliver, BrokerLoss,
       vars, uploadVars

LEMMA KnownStep == TypeOK /\ KnownInv /\ [Next]_vars => KnownInv'
<1> SUFFICES ASSUME TypeOK, KnownInv, [Next]_vars, NEW d \in Docs, Queued(d)' \/ Working(d)'
             PROVE  d \in dispatched'
    BY DEF KnownInv
<1>1. Queued(d) \/ Working(d) \/ d \in dispatched'
    BY MessageOrigin
<1> QED
    BY <1>1, DispatchedGrows DEF KnownInv

(* Steps that add no message and start no execution.                       *)
LEMMA ExclusiveStays ==
    ASSUME Exclusive,
           \A m \in Messages : queue'[m] \in {queue[m], 0},
           \A w \in Workers : worker'[w].pc \notin {"idle", "ack"} =>
               Executing(w) /\ worker'[w].doc = worker[w].doc
    PROVE  Exclusive'
BY DEF Exclusive, Executing

(* The uniqueness of a document's message or execution is inductive.       *)
LEMMA ExclusiveStep == UploadInv /\ ExclusiveInv /\ [Next]_vars => ExclusiveInv'
<1> SUFFICES ASSUME UploadInv, ExclusiveInv, [Next]_vars, ~Happened({"crash", "redelivery"})'
             PROVE  Exclusive'
    BY DEF ExclusiveInv
<1>0. TypeOK /\ Exclusive
    BY HappenedStays DEF UploadInv, InputInv, ExclusiveInv, FaultKinds
<1>a. queue \in [Messages -> Nat]
    BY <1>0 DEF TypeOK
<1>1. ASSUME UNCHANGED <<queue, worker>> PROVE Exclusive'
    BY <1>0, <1>1, ExclusiveStays DEF Executing
<1>2. ASSUME NEW w \in Workers, worker[w].pc \notin {"idle", "ack"}, UNCHANGED queue,
             NEW pc, worker' = [worker EXCEPT ![w].pc = pc]
      PROVE  Exclusive'
    <2>1. \A v \in Workers : worker'[v].doc = worker[v].doc
                             /\ (v # w => worker'[v].pc = worker[v].pc)
        BY <1>0, <1>2 DEF TypeOK, WorkerStates
    <2> QED
        BY <1>0, <1>2, <2>1, ExclusiveStays DEF Executing
<1>3. ASSUME NEW h \in Handlers, HandlerStep(h) PROVE Exclusive'
    <2>1. ASSUME Dispatch(h) PROVE Exclusive'
        <3>0. PICK e \in Docs : e = upload[h].doc
            BY <1>0, <2>1, ActiveHasDoc DEF Dispatch
        <3>1. /\ <<e, 0>> \in Messages /\ queue' = [queue EXCEPT ![<<e, 0>>] = @ + 1]
              /\ UNCHANGED worker
            BY <2>1, <3>0, BoundsAssumption DEF Dispatch, Messages
        <3>2. ~Queued(e) /\ ~Working(e)
            BY <2>1, <3>0 DEF Dispatch, UploadInv, UploadFresh
        <3>3. \A m \in Messages : m[1] = e => queue[m] = 0
            BY <1>a, <3>2 DEF Queued, Messages
        <3>4. \A w \in Workers : worker[w].doc # e
            BY <3>2 DEF Working
        <3> DEFINE new == <<e, 0>>
        <3>5. new[1] = e /\ new \in Messages /\ queue' = [queue EXCEPT ![new] = queue[new] + 1]
            BY <3>1
        <3> HIDE DEF new
        <3>6. \A m \in Messages : queue'[m] = IF m = new THEN 1 ELSE queue[m]
            BY <1>a, <3>3, <3>5
        <3> QED
            BY <1>0, <3>1, <3>3, <3>4, <3>5, <3>6 DEF Exclusive, Executing
    <2>2. ASSUME \/ \E d \in Docs : CheckQuota(h, d)
                 \/ PutObject(h) \/ InsertRow(h) \/ AbortUpload(h)
          PROVE  Exclusive'
        BY <1>1, <2>2 DEF CheckQuota, PutObject, InsertRow, AbortUpload
    <2> QED
        BY <1>3, <2>1, <2>2 DEF HandlerStep
<1>4. ASSUME NEW w \in Workers, TaskStep(w) PROVE Exclusive'
    <2>1. ASSUME NEW m \in Messages, Receive(w, m) PROVE Exclusive'
        <3>1. /\ worker'[w].doc = m[1] /\ \A v \in Workers \ {w} : worker'[v] = worker[v]
              /\ worker[w].pc = "idle"
            BY <1>0, <2>1 DEF Receive, TypeOK, IdleWorker
        <3>2. queue[m] = 1 /\ \A n \in Messages \ {m} : n[1] = m[1] => queue[n] = 0
            BY <1>0, <1>a, <2>1 DEF Receive, Exclusive
        <3>3. \A n \in Messages : queue'[n] = IF n = m THEN 0 ELSE queue[n]
            BY <1>a, <2>1, <3>2 DEF Receive
        <3>4. \A v \in Workers : Executing(v) => worker[v].doc # m[1]
            BY <1>0, <3>2 DEF Exclusive
        <3> QED
            BY <1>0, <3>1, <3>2, <3>3, <3>4 DEF Exclusive, Executing
    <2>2. ASSUME PublishRetry(w) PROVE Exclusive'
        <3>0. PICK e \in Docs : e = worker[w].doc
            BY <1>0, <2>2, BusyHasDoc DEF PublishRetry
        <3>1. worker[w].retries + 1 \in 0..MaxRetries
            BY <1>0, <2>2, BoundsAssumption DEF PublishRetry, TypeOK, WorkerStates
        <3> DEFINE new == <<e, worker[w].retries + 1>>
        <3>2. new[1] = e /\ new \in Messages /\ queue' = [queue EXCEPT ![new] = queue[new] + 1]
            BY <2>2, <3>0, <3>1 DEF PublishRetry, Messages
        <3> HIDE DEF new
        <3>3. \A m \in Messages : m[1] = e => queue[m] = 0
            BY <1>0, <2>2, <3>0 DEF PublishRetry, Exclusive, Executing
        <3>4. \A m \in Messages : queue'[m] = IF m = new THEN 1 ELSE queue[m]
            BY <1>a, <3>2, <3>3
        <3>5. \A v \in Workers : Executing(v) => v = w \/ worker[v].doc # e
            BY <1>0, <2>2, <3>0 DEF PublishRetry, Exclusive, Executing
        <3>6. \A v \in Workers : /\ worker'[v].doc = worker[v].doc
                                 /\ v # w => worker'[v].pc = worker[v].pc
                                 /\ v = w => worker'[v].pc = "ack"
            BY <1>0, <2>2 DEF PublishRetry, Goto, TypeOK, WorkerStates
        <3> QED
            BY <1>0, <3>2, <3>3, <3>4, <3>5, <3>6 DEF Exclusive, Executing
    <2>3. ASSUME ParseAndEmbed(w) \/ UpsertBatch(w) PROVE Exclusive'
        <3>1. /\ Executing(w) /\ UNCHANGED queue
              /\ \A v \in Workers : /\ worker'[v].doc = worker[v].doc
                                    /\ v # w => worker'[v].pc = worker[v].pc
            BY <1>0, <2>3 DEF ParseAndEmbed, UpsertBatch, Executing, TypeOK, WorkerStates
        <3> QED
            BY <1>0, <3>1, ExclusiveStays DEF Executing
    <2>4. ASSUME Ack(w) PROVE Exclusive'
        <3>1. /\ UNCHANGED queue /\ worker'[w].pc = "idle"
              /\ \A v \in Workers \ {w} : worker'[v] = worker[v]
            BY <1>0, <2>4 DEF Ack, IdleWorker, TypeOK
        <3> QED
            BY <1>0, <3>1, ExclusiveStays DEF Executing
    <2>5. ASSUME \/ LoadDocument(w) \/ PersistChunks(w) \/ MarkReady(w) \/ MarkFailed(w)
                 \/ GiveUp(w)
          PROVE  Exclusive'
        BY <1>2, <2>5 DEF LoadDocument, PersistChunks, UpsertDone, MarkReady, MarkFailed,
                          GiveUp, Goto
    <2> QED
        BY <1>4, <2>1, <2>2, <2>3, <2>4, <2>5 DEF TaskStep
<1>5. ASSUME NEW w \in Workers, FaultStep(w) PROVE Exclusive'
    <2>1. ~Crash(w) /\ ~Redeliver(w)
        BY <1>0, FaultHappens DEF Crash, Redeliver, FaultKinds
    <2>2. ASSUME \/ LoadFails(w) \/ ParseFails(w) \/ UpsertFails(w) \/ PersistFails(w)
                 \/ MarkReadyFails(w) \/ MarkFailedFails(w)
          PROVE  Exclusive'
        BY <1>2, <2>2 DEF LoadFails, ParseFails, UpsertFails, PersistFails, UpsertDone,
                          MarkReadyFails, MarkFailedFails, Goto
    <2> QED
        BY <1>5, <2>1, <2>2 DEF FaultStep
<1>6. ASSUME BrokerLoss PROVE Exclusive'
    <2>1. /\ \A m \in Messages : queue'[m] = 0
          /\ \A v \in Workers : worker'[v].doc = worker[v].doc /\ worker'[v].pc = worker[v].pc
        BY <1>0, <1>6 DEF BrokerLoss, TypeOK, WorkerStates
    <2> QED
        BY <1>0, <2>1, ExclusiveStays DEF Executing
<1>7. ASSUME NEW d \in Docs, Delete(d) PROVE Exclusive'
    BY <1>1, <1>7 DEF Delete
<1>8. ASSUME UNCHANGED vars PROVE Exclusive'
    BY <1>1, <1>8 DEF vars
<1> QED
    BY <1>3, <1>4, <1>5, <1>6, <1>7, <1>8 DEF Next

LEMMA ExclusiveInit == Init => ExclusiveInv /\ KnownInv
<1> SUFFICES ASSUME Init PROVE ExclusiveInv /\ KnownInv
    OBVIOUS
<1>1. \A m \in Messages : queue[m] = 0
    BY DEF Init
<1>2. \A w \in Workers : worker[w].pc = "idle" /\ worker[w].doc = NoDoc
    BY DEF Init, IdleWorker
<1>3. ExclusiveInv
    BY <1>1, <1>2 DEF ExclusiveInv, Exclusive, Executing
<1>4. \A d \in Docs : ~Queued(d) /\ ~Working(d)
    <2>1. \A d \in Docs, r \in 0..MaxRetries : ~(queue[<<d, r>>] > 0)
        BY <1>1 DEF Messages
    <2>2. \A d \in Docs : ~Queued(d)
        BY <2>1 DEF Queued
    <2> QED
        BY <1>2, <2>2, DocsAssumption DEF Working
<1> QED
    BY <1>3, <1>4 DEF KnownInv

(* Without deaths and redeliveries a document is executed by one worker at *)
(* a time, whatever else fails and however often it is retried.            *)
THEOREM ExecutesOnce == Spec => []OneExecution
<1>1. ExclusiveInv => OneExecution
    BY DEF ExclusiveInv, Exclusive, Executing, OneExecution
<1> QED
    BY <1>1, UploadInit, UploadStep, ExclusiveInit, ExclusiveStep, PTL DEF Spec

------------------------------------------------------------------------------
(* What a successful execution leaves behind.                              *)

(* The document is past its last try: whoever still executes it has only   *)
(* the steps Last before him.                                              *)
Finishing(d, Last) ==
    /\ ~Queued(d) /\ d \in dispatched
    /\ \A w \in Workers : Executing(w) /\ worker[w].doc = d => worker[w].pc \in Last

ExecInv == UploadInv /\ KnownInv /\ ExclusiveInv

Repeating == {"postgres", "crash", "redelivery"}

(* Nothing but a database error, a death or a redelivery makes a document  *)
(* leave its last steps, nor anything but these and a service error the    *)
(* upload to Qdrant before them.                                           *)
LEMMA FinishingStays ==
    ASSUME ExecInv, [Next]_vars, NEW d \in Docs, NEW Last,
           Finishing(d, Last), "mark" \in Last, Last \subseteq {"upsert", "mark"},
           ~Happened(Repeating)', "upsert" \notin Last \/ ~Happened({"service"})'
    PROVE  Finishing(d, Last)'
<1>0. TypeOK /\ TaskInputsExist
    BY DEF ExecInv, UploadInv, InputInv
<1>a. queue \in [Messages -> Nat]
    BY <1>0 DEF TypeOK
<1>b. d \in dispatched'
    BY DispatchedGrows DEF Finishing
<1>1. ASSUME \A m \in Messages : m[1] = d => queue'[m] \in {queue[m], 0},
             \A w \in Workers : worker'[w].pc \notin {"idle", "ack"} /\ worker'[w].doc = d =>
                 \/ worker'[w].pc \in Last
                 \/ worker'[w].pc = worker[w].pc /\ worker'[w].doc = worker[w].doc
      PROVE  Finishing(d, Last)'
    <2>1. \A r \in 0..MaxRetries : <<d, r>> \in Messages /\ <<d, r>>[1] = d
        BY DEF Messages
    <2>2. ~Queued(d)'
        BY <1>1, <2>1 DEF Finishing, Queued
    <2> QED
        BY <1>b, <1>1, <2>2 DEF Finishing, Executing
<1>2. ASSUME NEW w \in Workers, UNCHANGED queue, NEW pc,
             worker' = [worker EXCEPT ![w].pc = pc],
             worker[w].doc # d \/ pc \in Last \cup {"ack"}
      PROVE  Finishing(d, Last)'
    <2>1. \A v \in Workers : /\ worker'[v].doc = worker[v].doc
                             /\ v # w => worker'[v].pc = worker[v].pc
                             /\ v = w => worker'[v].pc = pc
        BY <1>0, <1>2 DEF TypeOK, WorkerStates
    <2> QED
        BY <1>1, <1>2, <2>1
<1>3. \A w \in Workers : worker[w].pc \notin Last \cup {"idle", "ack"} => worker[w].doc # d
    BY DEF Finishing, Executing
<1>4. ASSUME UNCHANGED <<queue, worker>> PROVE Finishing(d, Last)'
    BY <1>1, <1>4
<1>5. ASSUME NEW h \in Handlers, HandlerStep(h) PROVE Finishing(d, Last)'
    <2>1. ASSUME Dispatch(h) PROVE Finishing(d, Last)'
        <3>1. upload[h].doc # d
            BY <2>1 DEF Dispatch, ExecInv, UploadInv, UploadFresh, Finishing
        <3>2. UNCHANGED worker /\ \A m \in Messages : m[1] = d => queue'[m] = queue[m]
            BY <1>a, <2>1, <3>1 DEF Dispatch
        <3> QED
            BY <1>1, <3>2
    <2>2. ASSUME \/ \E e \in Docs : CheckQuota(h, e)
                 \/ PutObject(h) \/ InsertRow(h) \/ AbortUpload(h)
          PROVE  Finishing(d, Last)'
        BY <1>4, <2>2 DEF CheckQuota, PutObject, InsertRow, AbortUpload
    <2> QED
        BY <1>5, <2>1, <2>2 DEF HandlerStep
<1>6. ASSUME NEW w \in Workers, TaskStep(w) PROVE Finishing(d, Last)'
    <2>1. ASSUME NEW m \in Messages, Receive(w, m) PROVE Finishing(d, Last)'
        <3>1. m[1] # d
            BY <2>1 DEF Receive, Finishing, Queued, Messages
        <3>2. /\ worker'[w].doc = m[1] /\ \A v \in Workers \ {w} : worker'[v] = worker[v]
              /\ \A n \in Messages : n[1] = d => queue'[n] = queue[n]
            BY <1>0, <1>a, <2>1, <3>1 DEF Receive, TypeOK, IdleWorker
        <3> QED
            BY <1>1, <3>1, <3>2
    <2>2. ASSUME PublishRetry(w) PROVE Finishing(d, Last)'
        <3>1. worker[w].doc # d
            BY <1>3, <2>2 DEF PublishRetry
        <3>2. \A m \in Messages : m[1] = d => queue'[m] = queue[m]
            BY <1>a, <2>2, <3>1 DEF PublishRetry
        <3>3. \A v \in Workers : worker'[v].doc = worker[v].doc
                                 /\ (v # w => worker'[v].pc = worker[v].pc)
            BY <1>0, <2>2 DEF PublishRetry, Goto, TypeOK, WorkerStates
        <3> QED
            BY <1>1, <3>1, <3>2, <3>3
    <2>3. ASSUME ParseAndEmbed(w) PROVE Finishing(d, Last)'
        <3>1. worker[w].doc # d
            BY <1>3, <2>3 DEF ParseAndEmbed
        <3>2. UNCHANGED queue /\ \A v \in Workers : worker'[v].doc = worker[v].doc
                                                 /\ (v # w => worker'[v].pc = worker[v].pc)
            BY <1>0, <2>3 DEF ParseAndEmbed, TypeOK, WorkerStates
        <3> QED
            BY <1>1, <3>1, <3>2
    <2>4. ASSUME UpsertBatch(w) PROVE Finishing(d, Last)'
        <3>1. UNCHANGED queue /\ \A v \in Workers : worker'[v].doc = worker[v].doc
                                                 /\ worker'[v].pc = worker[v].pc
            BY <1>0, <2>4 DEF UpsertBatch, TypeOK, WorkerStates
        <3> QED
            BY <1>1, <3>1
    <2>5. ASSUME Ack(w) PROVE Finishing(d, Last)'
        <3>1. /\ UNCHANGED queue /\ worker'[w].pc = "idle"
              /\ \A v \in Workers \ {w} : worker'[v] = worker[v]
            BY <1>0, <2>5 DEF Ack, IdleWorker, TypeOK
        <3> QED
            BY <1>1, <3>1
    <2>6. ASSUME LoadDocument(w) \/ MarkFailed(w) \/ GiveUp(w) PROVE Finishing(d, Last)'
        BY <1>2, <1>3, <2>6 DEF LoadDocument, MarkFailed, GiveUp, Goto
    <2>7. ASSUME PersistChunks(w) \/ MarkReady(w) PROVE Finishing(d, Last)'
        BY <1>2, <2>7 DEF PersistChunks, MarkReady, Goto
    <2> QED
        BY <1>6, <2>1, <2>2, <2>3, <2>4, <2>5, <2>6, <2>7 DEF TaskStep
<1>7. ASSUME NEW w \in Workers, FaultStep(w) PROVE Finishing(d, Last)'
    <2>1. \A k \in {"postgres", "crash", "redelivery"} : ~Fault(k)
        BY <1>0, FaultHappens DEF Repeating, FaultKinds
    <2>2. /\ ~Crash(w) /\ ~Redeliver(w)
          /\ ~PersistFails(w) /\ ~MarkReadyFails(w) /\ ~MarkFailedFails(w)
        BY <2>1 DEF Crash, Redeliver, PersistFails, MarkReadyFails, MarkFailedFails
    <2>3. ASSUME LoadFails(w) \/ ParseFails(w) PROVE Finishing(d, Last)'
        BY <1>2, <1>3, <2>3 DEF LoadFails, ParseFails, Goto
    <2>4. ASSUME UpsertFails(w) PROVE Finishing(d, Last)'
        <3>1. "upsert" \notin Last
            BY <1>0, <2>4, FaultHappens DEF UpsertFails, FaultKinds
        <3> QED
            BY <1>2, <1>3, <2>4, <3>1 DEF UpsertFails, Goto
    <2> QED
        BY <1>7, <2>2, <2>3, <2>4 DEF FaultStep
<1>8. ASSUME BrokerLoss PROVE Finishing(d, Last)'
    <2>1. /\ \A m \in Messages : queue'[m] = 0
          /\ \A v \in Workers : worker'[v].doc = worker[v].doc /\ worker'[v].pc = worker[v].pc
        BY <1>0, <1>8 DEF BrokerLoss, TypeOK, WorkerStates
    <2> QED
        BY <1>1, <2>1
<1>9. ASSUME NEW e \in Docs, Delete(e) PROVE Finishing(d, Last)'
    BY <1>4, <1>9 DEF Delete
<1>10. ASSUME UNCHANGED vars PROVE Finishing(d, Last)'
    BY <1>4, <1>10 DEF vars
<1> QED
    BY <1>5, <1>6, <1>7, <1>8, <1>9, <1>10 DEF Next

(* A worker that executes a document alone brings it into its last steps.  *)
LEMMA LastSteps ==
    ASSUME ExecInv, [Next]_vars, ~Happened(Repeating)', NEW w \in Workers, Executing(w),
           NEW d \in Docs, d = worker[w].doc, NEW Last, UNCHANGED queue,
           worker'[w].pc \in Last, \A v \in Workers \ {w} : worker'[v] = worker[v]
    PROVE  Finishing(d, Last)'
<1>1. TypeOK
    BY DEF ExecInv, UploadInv, InputInv
<1>2. ~Happened({"crash", "redelivery"})
    <2>1. Happened({"crash", "redelivery"}) => Happened({"crash", "redelivery"})'
        BY <1>1, HappenedStays DEF FaultKinds
    <2> QED
        BY <2>1 DEF Happened, Repeating
<1>3. Exclusive
    BY <1>2 DEF ExecInv, ExclusiveInv
<1>4. \A v \in Workers \ {w} : Executing(v) => worker[v].doc # d
    BY <1>3 DEF Exclusive
<1>5. ~Queued(d)'
    <2>1. \A r \in 0..MaxRetries : queue[<<d, r>>] = 0
        <3> TAKE r \in 0..MaxRetries
        <3>1. <<d, r>> \in Messages /\ <<d, r>>[1] = d
            BY DEF Messages
        <3> QED
            BY <1>3, <3>1 DEF Exclusive
    <2>2. \A r \in 0..MaxRetries : ~(queue'[<<d, r>>] > 0)
        BY <2>1
    <2> QED
        BY <2>2 DEF Queued
<1>6. d \in dispatched'
    BY DispatchedGrows, BusyHasDoc DEF ExecInv, KnownInv, Working
<1> QED
    BY <1>4, <1>5, <1>6 DEF Finishing, Executing

(* Rows of a document are the last thing that can fail.                    *)
StoredInv ==
    Happened(Repeating) \/
        /\ ChunksDeduplicated
        /\ \A x \in chunks : x[1] \in Docs /\ Finishing(x[1], {"mark"})

(* Nothing but persist_chunks writes rows, and only its own run's.         *)
LEMMA ChunksOrigin ==
    ASSUME [Next]_vars, ~Fault("postgres"), chunks' # chunks
    PROVE  \E w \in Workers : PersistChunks(w)
BY DEF Next, HandlerStep, CheckQuota, PutObject, InsertRow, Dispatch, AbortUpload, Delete,
       TaskStep, Receive, LoadDocument, ParseAndEmbed, UpsertBatch, MarkReady,
       MarkFailed, PublishRetry, GiveUp, Ack, FaultStep, LoadFails, ParseFails, UpsertFails,
       PersistFails, MarkReadyFails, MarkFailedFails, Crash, Redeliver, BrokerLoss,
       vars, indexVars

LEMMA StoredStep == ExecInv /\ StoredInv /\ [Next]_vars => StoredInv'
<1> SUFFICES ASSUME ExecInv, StoredInv, [Next]_vars, ~Happened(Repeating)'
             PROVE  /\ ChunksDeduplicated'
                    /\ \A x \in chunks' : x[1] \in Docs /\ Finishing(x[1], {"mark"})'
    BY DEF StoredInv
<1>0. TypeOK /\ TypeOK'
    BY TypeStep DEF ExecInv, UploadInv, InputInv
<1>1. ~Happened(Repeating)
    BY <1>0, HappenedStays DEF Repeating, FaultKinds
<1>2. ChunksDeduplicated /\ \A x \in chunks : x[1] \in Docs /\ Finishing(x[1], {"mark"})
    BY <1>1 DEF StoredInv
<1>3. \A x \in chunks : x[1] \in Docs /\ Finishing(x[1], {"mark"})'
    BY <1>2, FinishingStays
<1>4. CASE chunks' = chunks
    BY <1>2, <1>3, <1>4 DEF ChunksDeduplicated
<1>5. CASE chunks' # chunks
    <2>1. PICK w \in Workers : PersistChunks(w)
        BY <1>0, <1>5, ChunksOrigin, FaultHappens DEF Repeating, FaultKinds
    <2>2. PICK d \in Docs : d = worker[w].doc
        BY <1>0, <2>1, BusyHasDoc DEF PersistChunks, UpsertDone
    <2> DEFINE r == worker[w].run
    <2>3. chunks' = chunks \cup PartsOf(d, r) /\ UNCHANGED queue
        BY <2>1, <2>2 DEF PersistChunks
    <2>4. /\ worker[w].pc = "upsert" /\ worker'[w].pc = "mark"
          /\ \A v \in Workers \ {w} : worker'[v] = worker[v]
        BY <1>0, <2>1 DEF PersistChunks, UpsertDone, Goto, TypeOK
    <2>5. Finishing(d, {"mark"})'
        BY <2>2, <2>3, <2>4, LastSteps DEF Executing
    <2>6. \A x \in chunks : x[1] # d
        BY <1>2, <2>2, <2>4 DEF Finishing, Executing
    <2>7. \A x \in PartsOf(d, r) : x = <<d, r, x[3]>> /\ x[1] = d
        BY DEF PartsOf
    <2> HIDE DEF r
    <2>8. ChunksDeduplicated'
        BY <1>2, <2>3, <2>6, <2>7 DEF ChunksDeduplicated
    <2> QED
        BY <1>3, <2>3, <2>5, <2>7, <2>8
<1> QED
    BY <1>4, <1>5

LEMMA ExecStep == ExecInv /\ [Next]_vars => ExecInv'
BY UploadStep, KnownStep, ExclusiveStep DEF ExecInv, UploadInv, InputInv

LEMMA ExecInit == Init => ExecInv
BY UploadInit, ExclusiveInit DEF ExecInv

(* Without database errors, deaths and redeliveries no chunk is stored     *)
(* twice: nothing that can fail follows the insert.                        *)
THEOREM StoresOnce == Spec => []NoDuplicateChunks
<1>1. StoredInv => NoDuplicateChunks
    BY DEF StoredInv, NoDuplicateChunks, Repeating
<1>2. Init => StoredInv
    BY DEF Init, StoredInv, ChunksDeduplicated
<1> QED
    BY <1>1, <1>2, ExecInit, ExecStep, StoredStep, PTL DEF Spec

------------------------------------------------------------------------------
(* A READY document is past its last try.                                  *)
ReadyInv ==
    Happened(Repeating) \/
        \A d \in Docs : status[d] = "ready" => Finishing(d, {"mark"})

(* Without database errors the status of a document becomes READY only in  *)
(* MarkReady, and other than READY only in an upload or at the beginning   *)
(* or the end of a try.                                                    *)
LEMMA StatusCause ==
    ASSUME TypeOK, [Next]_vars, ~Fault("postgres"), NEW d \in Docs, status'[d] # status[d]
    PROVE  \/ \E h \in Handlers : InsertRow(h) /\ upload[h].doc = d /\ status'[d] = "pending"
           \/ \E w \in Workers : worker[w].doc = d /\ MarkReady(w)
           \/ \E w \in Workers : /\ worker[w].doc = d /\ worker[w].pc \in {"load", "except"}
                                 /\ status'[d] # "ready"
<1> DEFINE Goal ==
       \/ \E h \in Handlers : InsertRow(h) /\ upload[h].doc = d /\ status'[d] = "pending"
       \/ \E w \in Workers : worker[w].doc = d /\ MarkReady(w)
       \/ \E w \in Workers : /\ worker[w].doc = d /\ worker[w].pc \in {"load", "except"}
                             /\ status'[d] # "ready"
<1>1. ASSUME NEW h \in Handlers, HandlerStep(h) PROVE Goal
    BY <1>1 DEF HandlerStep, CheckQuota, PutObject, InsertRow, Dispatch, AbortUpload, dbVars,
                TypeOK
<1>2. ASSUME NEW w \in Workers, MarkReady(w) PROVE Goal
    BY <1>2 DEF MarkReady, TypeOK
<1>3. ASSUME NEW w \in Workers, LoadDocument(w) \/ MarkFailed(w) PROVE Goal
    BY <1>3 DEF LoadDocument, MarkFailed, TypeOK
<1> HIDE DEF Goal
<1>4. ASSUME NEW w \in Workers, TaskStep(w) PROVE Goal
    BY <1>2, <1>3, <1>4
       DEF TaskStep, Receive, ParseAndEmbed, UpsertBatch, PersistChunks, PublishRetry, GiveUp,
           Ack, dbVars
<1>5. ASSUME NEW w \in Workers, FaultStep(w) PROVE FALSE
    BY <1>5 DEF FaultStep, LoadFails, ParseFails, UpsertFails, PersistFails, MarkReadyFails,
                MarkFailedFails, Crash, Redeliver, dbVars
<1>6. Goal
    BY <1>1, <1>4, <1>5 DEF Next, Delete, BrokerLoss, vars, dbVars
<1> QED
    BY <1>6 DEF Goal

(* A READY document is neither queued nor uploaded again, and whoever      *)
(* still executes it can only mark it READY once more.                     *)
LEMMA ReadyKeeps ==
    ASSUME ExecInv, ReadyInv, [Next]_vars, ~Happened(Repeating)'
    PROVE  /\ ~Happened(Repeating)
           /\ \A d \in Docs : status[d] = "ready" =>
                 status'[d] = "ready" /\ Finishing(d, {"mark"})'
<1>0. TypeOK
    BY DEF ExecInv, UploadInv, InputInv
<1>1. ~Happened(Repeating) /\ ~Fault("postgres")
    BY <1>0, HappenedStays, FaultHappens DEF Repeating, FaultKinds
<1> SUFFICES ASSUME NEW d \in Docs, status[d] = "ready"
             PROVE  status'[d] = "ready" /\ Finishing(d, {"mark"})'
    BY <1>1
<1>2. Finishing(d, {"mark"})
    BY <1>1 DEF ReadyInv
<1>3. Finishing(d, {"mark"})'
    BY <1>2, FinishingStays
<1>4. ~\E h \in Handlers : InsertRow(h) /\ upload[h].doc = d
    BY <1>2 DEF InsertRow, Finishing, ExecInv, UploadInv, UploadFresh
<1>5. \A w \in Workers : worker[w].doc = d => worker[w].pc \notin {"load", "except"}
    BY <1>2 DEF Finishing, Executing
<1>6. ASSUME NEW w \in Workers, worker[w].doc = d, MarkReady(w) PROVE status'[d] = "ready"
    BY <1>0, <1>6 DEF MarkReady, TypeOK
<1> QED
    BY <1>0, <1>1, <1>3, <1>4, <1>5, <1>6, StatusCause

LEMMA ReadyStep == ExecInv /\ ReadyInv /\ [Next]_vars => ReadyInv'
<1> SUFFICES ASSUME ExecInv, ReadyInv, [Next]_vars, ~Happened(Repeating)',
                    NEW d \in Docs, status'[d] = "ready"
             PROVE  Finishing(d, {"mark"})'
    BY DEF ReadyInv
<1>0. TypeOK /\ ~Fault("postgres")
    BY FaultHappens DEF ExecInv, UploadInv, InputInv, Repeating, FaultKinds
<1>1. CASE status[d] = "ready"
    BY <1>1, ReadyKeeps
<1>2. CASE status[d] # "ready"
    <2>1. PICK w \in Workers : worker[w].doc = d /\ MarkReady(w)
        BY <1>0, <1>2, StatusCause
    <2>2. /\ Executing(w) /\ UNCHANGED queue /\ worker'[w].pc = "ack"
          /\ \A v \in Workers \ {w} : worker'[v] = worker[v]
        BY <1>0, <2>1 DEF MarkReady, Goto, Executing, TypeOK, WorkerStates
    <2>3. Finishing(d, {"mark", "ack"})'
        BY <2>1, <2>2, LastSteps
    <2> QED
        BY <2>3 DEF Finishing, Executing
<1> QED
    BY <1>1, <1>2

(* Without database errors, deaths and redeliveries a READY document stays *)
(* READY, whatever is retried, deleted or lost by the broker.              *)
THEOREM ReadyForGood == Spec => ReadyIsFinal
<1>1. Init => ReadyInv
    BY DEF Init, ReadyInv
<1>2. ExecInv /\ ReadyInv /\ [Next]_vars =>
          [~Happened({"postgres", "crash", "redelivery"})' =>
             \A d \in Docs : status[d] = "ready" => status'[d] = "ready"]_vars
    BY ReadyKeeps DEF Repeating
<1> QED
    BY <1>1, <1>2, ExecInit, ExecStep, ReadyStep, PTL DEF Spec, ReadyIsFinal

(* Without faults of any kind that repeats work, a document is parsed once *)
(* and its points all come from that run.                                  *)
Repeatable == {"service", "postgres", "crash", "redelivery"}

ParsedInv ==
    Happened(Repeatable) \/
        \A d \in Docs : runs[d] = 0 \/ (runs[d] = 1 /\ Finishing(d, {"upsert", "mark"}))

LEMMA RunsOrigin ==
    ASSUME [Next]_vars, runs' # runs
    PROVE  \E w \in Workers : ParseAndEmbed(w)
BY DEF Next, HandlerStep, CheckQuota, PutObject, InsertRow, Dispatch, AbortUpload, Delete,
       TaskStep, Receive, LoadDocument, UpsertBatch, PersistChunks, MarkReady,
       MarkFailed, PublishRetry, GiveUp, Ack, FaultStep, LoadFails, ParseFails, UpsertFails,
       PersistFails, MarkReadyFails, MarkFailedFails, Crash, Redeliver, BrokerLoss,
       vars, indexVars

LEMMA ParsedStep == ExecInv /\ ParsedInv /\ [Next]_vars => ParsedInv'
<1> SUFFICES ASSUME ExecInv, ParsedInv, [Next]_vars, ~Happened(Repeatable)', NEW d \in Docs
             PROVE  (runs[d] = 0 \/ (runs[d] = 1 /\ Finishing(d, {"upsert", "mark"})))'
    BY DEF ParsedInv
<1>0. TypeOK /\ TypeOK'
    BY TypeStep DEF ExecInv, UploadInv, InputInv
<1>1. ~Happened(Repeatable) /\ ~Happened(Repeating)' /\ ~Happened({"service"})'
    <2>1. Happened(Repeatable) => Happened(Repeatable)'
        BY <1>0, HappenedStays DEF Repeatable, FaultKinds
    <2> QED
        BY <2>1 DEF Repeatable, Repeating, Happened
<1>2. runs[d] = 0 \/ (runs[d] = 1 /\ Finishing(d, {"upsert", "mark"}))
    BY <1>1 DEF ParsedInv
<1>3. CASE runs'[d] = runs[d]
    BY <1>1, <1>2, <1>3, FinishingStays
<1>4. CASE runs'[d] # runs[d]
    <2>1. PICK w \in Workers : ParseAndEmbed(w)
        BY <1>4, RunsOrigin
    <2>2. d = worker[w].doc /\ runs'[d] = runs[d] + 1 /\ UNCHANGED queue
        BY <1>0, <1>4, <2>1 DEF ParseAndEmbed, TypeOK
    <2>3. /\ worker[w].pc = "parse" /\ worker'[w].pc = "upsert"
          /\ \A v \in Workers \ {w} : worker'[v] = worker[v]
        BY <1>0, <2>1 DEF ParseAndEmbed, TypeOK, WorkerStates
    <2>4. runs[d] = 0
        BY <1>2, <2>2, <2>3 DEF Finishing, Executing
    <2>5. Finishing(d, {"upsert", "mark"})'
        BY <1>1, <2>2, <2>3, LastSteps DEF Executing
    <2> QED
        BY <2>2, <2>4, <2>5
<1> QED
    BY <1>3, <1>4

LEMMA ParsedInit == Init => ParsedInv
BY DEF Init, ParsedInv

------------------------------------------------------------------------------
(* Copies.                                                                 *)

(* Points only come one by one from a worker, and stay.                    *)
LEMMA PointsGrow ==
    ASSUME [Next]_vars
    PROVE  \/ UNCHANGED points
           \/ \E w \in Workers : worker[w].pc = "upsert" /\ points' = points \cup {NextPart(w)}
<1> DEFINE Goal == \/ UNCHANGED points
                   \/ \E w \in Workers : /\ worker[w].pc = "upsert"
                                          /\ points' = points \cup {NextPart(w)}
<1>1. ASSUME UNCHANGED points PROVE Goal
    BY <1>1
<1>2. ASSUME NEW w \in Workers, UpsertBatch(w) \/ UpsertFails(w) PROVE Goal
    BY <1>2 DEF UpsertBatch, UpsertFails
<1> HIDE DEF Goal
<1>3. ASSUME NEW h \in Handlers, HandlerStep(h) PROVE Goal
    BY <1>1, <1>3 DEF HandlerStep, CheckQuota, PutObject, InsertRow, Dispatch, AbortUpload,
                      indexVars
<1>4. ASSUME NEW d \in Docs, Delete(d) PROVE Goal
    BY <1>1, <1>4 DEF Delete, indexVars
<1>5. ASSUME NEW w \in Workers, TaskStep(w) PROVE Goal
    BY <1>1, <1>2, <1>5 DEF TaskStep, Receive, LoadDocument, ParseAndEmbed, PersistChunks,
                            MarkReady, MarkFailed, PublishRetry, GiveUp, Ack, indexVars
<1>6. ASSUME NEW w \in Workers, FaultStep(w) PROVE Goal
    BY <1>1, <1>2, <1>6 DEF FaultStep, LoadFails, ParseFails, PersistFails, MarkReadyFails,
                            MarkFailedFails, Crash, Redeliver, indexVars
<1>7. ASSUME BrokerLoss PROVE Goal
    BY <1>1, <1>7 DEF BrokerLoss, indexVars
<1>8. ASSUME UNCHANGED vars PROVE Goal
    BY <1>1, <1>8 DEF vars, indexVars
<1>9. Goal
    BY <1>3, <1>4, <1>5, <1>6, <1>7, <1>8 DEF Next
<1> QED
    BY <1>9 DEF Goal

LEMMA PointsOrigin ==
    ASSUME [Next]_vars
    PROVE  /\ points \subseteq points'
           /\ \A x \in points' \ points : \E w \in Workers :
                  worker[w].pc = "upsert" /\ x[1] = worker[w].doc /\ x[2] = worker[w].run
BY PointsGrow DEF NextPart

(* The run that wrote a point is one of its document's.                    *)
PointsOfRuns == \A x \in points : x[2] \in 1..runs[x[1]]

LEMMA PointsOfRunsStep == IndexInv /\ PointsOfRuns /\ [Next]_vars => PointsOfRuns'
<1> SUFFICES ASSUME IndexInv, PointsOfRuns, [Next]_vars, NEW x \in points'
             PROVE  x[2] \in 1..runs'[x[1]]
    BY DEF PointsOfRuns
<1>0. TypeOK /\ TypeOK' /\ Progress
    BY TypeStep DEF IndexInv
<1>1. x[1] \in Docs /\ runs[x[1]] \in Nat
    BY <1>0 DEF TypeOK
<1>2. runs'[x[1]] \in {runs[x[1]], runs[x[1]] + 1}
    <2>1. ASSUME NEW w \in Workers, ParseAndEmbed(w)
          PROVE  runs'[x[1]] \in {runs[x[1]], runs[x[1]] + 1}
        BY <1>0, <1>1, <2>1 DEF ParseAndEmbed, TypeOK
    <2> QED
        BY <2>1, RunsOrigin
<1>3. CASE x \in points
    BY <1>1, <1>2, <1>3 DEF PointsOfRuns
<1>4. CASE x \notin points
    <2>1. PICK w \in Workers : /\ worker[w].pc = "upsert" /\ x[1] = worker[w].doc
                               /\ x[2] = worker[w].run
        BY <1>4, PointsOrigin
    <2>2. x[2] \in 1..runs[x[1]]
        BY <1>0, <2>1 DEF Progress, WorkerProgress
    <2> QED
        BY <1>1, <1>2, <2>2
<1> QED
    BY <1>3, <1>4

(* The executions of a document still to come: a message of it, or a       *)
(* worker that will parse it or publish a retry.                           *)
Waiting(d)  == {x \in (0..MaxRetries) \X (Nat \ {0}) : x[2] <= queue[<<d, x[1]>>]}
Starting(d) == {w \in Workers : /\ worker[w].doc = d
                                /\ worker[w].pc \in {"load", "parse", "except", "retry"}}

(* What was parsed and what is still to come is one execution for the      *)
(* publication and one for each fault.                                     *)
WorkInv(d) ==
    /\ IsFiniteSet(Waiting(d)) /\ IsFiniteSet(Starting(d))
    /\ runs[d] + Cardinality(Waiting(d)) + Cardinality(Starting(d))
          <= (IF d \in dispatched THEN 1 ELSE 0) + Repeats

(* The count of faults grows, and by one with each that repeats a task.    *)
LEMMA RepeatsGrow ==
    ASSUME TypeOK, [Next]_vars
    PROVE  Repeats \in Nat /\ Repeats' \in Nat /\ Repeats <= Repeats'
<1>1. \A k \in Repeatable : faults[k] \in Nat /\ faults'[k] \in Nat /\ faults[k] <= faults'[k]
    BY FaultsGrow DEF TypeOK, Repeatable, FaultKinds
<1> QED
    BY <1>1 DEF Repeats, Repeatable

LEMMA FaultCounts ==
    ASSUME TypeOK, NEW k \in Repeatable, Fault(k)
    PROVE  Repeats \in Nat /\ Repeats' = Repeats + 1
<1>1. /\ faults \in [FaultKinds -> Nat]
      /\ faults' = [faults EXCEPT ![k] = faults[k] + 1]
      /\ Repeatable \subseteq FaultKinds
    BY DEF TypeOK, Fault, Repeatable, FaultKinds
<1>2. \A j \in Repeatable : faults[j] \in Nat /\ faults'[j] = IF j = k THEN faults[j] + 1 ELSE faults[j]
    BY <1>1
<1> QED
    BY <1>2 DEF Repeats, Repeatable

(* One more message, and one less.                                         *)
LEMMA OneMore ==
    ASSUME TypeOK, NEW m \in Messages, queue' = [queue EXCEPT ![m] = @ + 1], NEW d \in Docs
    PROVE  \E x : Waiting(d)' = IF d = m[1] THEN Waiting(d) \cup {x} ELSE Waiting(d)
<1>1. PICK e \in Docs, r \in 0..MaxRetries : m = <<e, r>>
    BY DEF Messages
<1>2. queue \in [Messages -> Nat]
    BY DEF TypeOK
<1> DEFINE x == <<r, queue[m] + 1>>
<1>3. \A n \in 0..MaxRetries : queue'[<<d, n>>] = IF d = e /\ n = r THEN queue[m] + 1
                                                                 ELSE queue[<<d, n>>]
    BY <1>1, <1>2, MessagesOf
<1>4. \A n \in 0..MaxRetries : queue[<<d, n>>] \in Nat
    BY <1>2, MessagesOf
<1>5. CASE d # m[1]
    BY <1>1, <1>3, <1>5 DEF Waiting
<1>6. CASE d = m[1]
    <2>1. d = e
        BY <1>1, <1>6
    <2>2. ASSUME NEW n \in 0..MaxRetries, NEW i \in Nat \ {0}
          PROVE  i <= queue'[<<d, n>>] <=> i <= queue[<<d, n>>] \/ <<n, i>> = x
        <3>1. CASE n = r
            BY <1>1, <1>3, <1>4, <2>1, <3>1
        <3>2. CASE n # r
            BY <1>3, <3>2
        <3> QED
            BY <3>1, <3>2
    <2>3. x \in (0..MaxRetries) \X (Nat \ {0})
        BY <1>1, <1>2
    <2>4. ASSUME NEW y \in (0..MaxRetries) \X (Nat \ {0})
          PROVE  y[2] <= queue'[<<d, y[1]>>] <=> y[2] <= queue[<<d, y[1]>>] \/ y = x
        BY <2>2
    <2> HIDE DEF x
    <2>5. Waiting(d)' = Waiting(d) \cup {x}
        <3>1. x[2] <= queue'[<<d, x[1]>>]
            BY <2>3, <2>4
        <3> QED
            BY <2>3, <2>4, <3>1 DEF Waiting
    <2> QED
        BY <1>6, <2>5
<1> QED
    BY <1>5, <1>6

LEMMA OneLess ==
    ASSUME TypeOK, NEW m \in Messages, queue[m] > 0, queue' = [queue EXCEPT ![m] = @ - 1],
           NEW d \in Docs
    PROVE  \E x \in Waiting(m[1]) :
               Waiting(d)' = IF d = m[1] THEN Waiting(d) \ {x} ELSE Waiting(d)
<1>1. PICK e \in Docs, r \in 0..MaxRetries : m = <<e, r>>
    BY DEF Messages
<1>2. queue \in [Messages -> Nat]
    BY DEF TypeOK
<1> DEFINE x == <<r, queue[m]>>
<1>3. \A n \in 0..MaxRetries : queue'[<<d, n>>] = IF d = e /\ n = r THEN queue[m] - 1
                                                                 ELSE queue[<<d, n>>]
    BY <1>1, <1>2, MessagesOf
<1>4. \A n \in 0..MaxRetries : queue[<<d, n>>] \in Nat
    BY <1>2, MessagesOf
<1>5. x \in Waiting(m[1])
    BY <1>1, <1>2 DEF Waiting
<1>6. CASE d # m[1]
    <2>1. Waiting(d)' = Waiting(d)
        BY <1>1, <1>3, <1>6 DEF Waiting
    <2> QED
        BY <1>5, <1>6, <2>1
<1>7. CASE d = m[1]
    <2>1. d = e
        BY <1>1, <1>7
    <2>2. ASSUME NEW n \in 0..MaxRetries, NEW i \in Nat \ {0}
          PROVE  i <= queue'[<<d, n>>] <=> i <= queue[<<d, n>>] /\ <<n, i>> # x
        <3>1. CASE n = r
            BY <1>1, <1>3, <1>4, <2>1, <3>1
        <3>2. CASE n # r
            BY <1>3, <3>2
        <3> QED
            BY <3>1, <3>2
    <2>4. ASSUME NEW y \in (0..MaxRetries) \X (Nat \ {0})
          PROVE  y[2] <= queue'[<<d, y[1]>>] <=> y[2] <= queue[<<d, y[1]>>] /\ y # x
        BY <2>2
    <2> HIDE DEF x
    <2>5. Waiting(d)' = Waiting(d) \ {x}
        BY <2>4 DEF Waiting
    <2> QED
        BY <1>5, <1>7, <2>5
<1> QED
    BY <1>6, <1>7

(* Finite sets that differ by an element.                                  *)
LEMMA AtMost ==
    ASSUME NEW T, IsFiniteSet(T), NEW U, U \subseteq T
    PROVE  /\ IsFiniteSet(U) /\ Cardinality(U) \in Nat /\ Cardinality(T) \in Nat
           /\ Cardinality(U) <= Cardinality(T)
BY FS_Subset, FS_CardinalityType

LEMMA AtMostOneMore ==
    ASSUME NEW T, IsFiniteSet(T), NEW y, NEW U, U \subseteq T \cup {y}
    PROVE  /\ IsFiniteSet(U) /\ Cardinality(U) \in Nat /\ Cardinality(T) \in Nat
           /\ Cardinality(U) <= Cardinality(T) + 1
<1>1. IsFiniteSet(T \cup {y}) /\ Cardinality(T) \in Nat
    BY FS_AddElement, FS_CardinalityType
<1>2. Cardinality(T \cup {y}) \in Nat /\ Cardinality(T \cup {y}) <= Cardinality(T) + 1
    BY <1>1, FS_AddElement
<1>3. IsFiniteSet(U) /\ Cardinality(U) \in Nat /\ Cardinality(U) <= Cardinality(T \cup {y})
    BY <1>1, FS_Subset, FS_CardinalityType
<1> QED
    BY <1>1, <1>2, <1>3

LEMMA OneRemoved ==
    ASSUME NEW T, IsFiniteSet(T), NEW y \in T
    PROVE  /\ IsFiniteSet(T \ {y}) /\ Cardinality(T \ {y}) \in Nat /\ Cardinality(T) \in Nat
           /\ Cardinality(T \ {y}) = Cardinality(T) - 1
BY FS_RemoveElement, FS_CardinalityType

(* Steps by which nothing more is to come.                                 *)
LEMMA WorkStays ==
    ASSUME NEW d \in Docs, WorkInv(d),
           runs'[d] = runs[d], runs[d] \in Nat, dispatched \subseteq dispatched',
           Repeats \in Nat, Repeats' \in Nat, Repeats <= Repeats',
           Waiting(d)' \subseteq Waiting(d), Starting(d)' \subseteq Starting(d)
    PROVE  WorkInv(d)'
<1>1. /\ IsFiniteSet(Waiting(d)') /\ IsFiniteSet(Starting(d)')
      /\ Cardinality(Waiting(d)') <= Cardinality(Waiting(d))
      /\ Cardinality(Starting(d)') <= Cardinality(Starting(d))
    BY FS_Subset DEF WorkInv
<1>2. /\ Cardinality(Waiting(d)') \in Nat /\ Cardinality(Starting(d)') \in Nat
      /\ Cardinality(Waiting(d)) \in Nat /\ Cardinality(Starting(d)) \in Nat
    BY <1>1, FS_CardinalityType DEF WorkInv
<1> HIDE DEF Waiting, Starting, Repeats
<1> QED
    BY <1>1, <1>2 DEF WorkInv

(* A fault brings on one execution more, by a message or by a worker.      *)
LEMMA WorkFaults ==
    ASSUME NEW d \in Docs, WorkInv(d),
           runs'[d] = runs[d], runs[d] \in Nat, dispatched \subseteq dispatched',
           Repeats \in Nat, Repeats' = Repeats + 1,
           \/ \E w : Waiting(d)' \subseteq Waiting(d) /\ Starting(d)' \subseteq Starting(d) \cup {w}
           \/ \E x : Waiting(d)' \subseteq Waiting(d) \cup {x} /\ Starting(d)' \subseteq Starting(d)
    PROVE  WorkInv(d)'
<1> DEFINE W == Waiting(d)
           S == Starting(d)
<1>1. IsFiniteSet(W) /\ IsFiniteSet(S) /\ Cardinality(W) \in Nat /\ Cardinality(S) \in Nat
    BY FS_CardinalityType DEF WorkInv
<1> DEFINE Balanced ==
      /\ IsFiniteSet(Waiting(d)') /\ IsFiniteSet(Starting(d)')
      /\ Cardinality(Waiting(d)') \in Nat /\ Cardinality(Starting(d)') \in Nat
      /\ Cardinality(Waiting(d)') + Cardinality(Starting(d)')
            <= Cardinality(W) + Cardinality(S) + 1
<1>4. Balanced
    <2>1. ASSUME NEW w, Waiting(d)' \subseteq W, Starting(d)' \subseteq S \cup {w}
          PROVE  Balanced
        <3>1. /\ IsFiniteSet(Waiting(d)') /\ Cardinality(Waiting(d)') \in Nat
              /\ Cardinality(Waiting(d)') <= Cardinality(W)
            BY <1>1, <2>1, AtMost
        <3>2. /\ IsFiniteSet(Starting(d)') /\ Cardinality(Starting(d)') \in Nat
              /\ Cardinality(Starting(d)') <= Cardinality(S) + 1
            BY <1>1, <2>1, AtMostOneMore
        <3> HIDE DEF W, S
        <3> QED
            BY <1>1, <3>1, <3>2
    <2>2. ASSUME NEW x, Waiting(d)' \subseteq W \cup {x}, Starting(d)' \subseteq S
          PROVE  Balanced
        <3>1. /\ IsFiniteSet(Waiting(d)') /\ Cardinality(Waiting(d)') \in Nat
              /\ Cardinality(Waiting(d)') <= Cardinality(W) + 1
            BY <1>1, <2>2, AtMostOneMore
        <3>2. /\ IsFiniteSet(Starting(d)') /\ Cardinality(Starting(d)') \in Nat
              /\ Cardinality(Starting(d)') <= Cardinality(S)
            BY <1>1, <2>2, AtMost
        <3> HIDE DEF W, S
        <3> QED
            BY <1>1, <3>1, <3>2
    <2> HIDE DEF Balanced
    <2> QED
        BY <2>1, <2>2
<1>5. runs[d] + Cardinality(W) + Cardinality(S) <= (IF d \in dispatched THEN 1 ELSE 0) + Repeats
    BY DEF WorkInv
<1> HIDE DEF W, S
<1>6. runs'[d] + Cardinality(Waiting(d)') + Cardinality(Starting(d)')
          <= (IF d \in dispatched' THEN 1 ELSE 0) + Repeats'
    BY <1>1, <1>4, <1>5
<1> QED
    BY <1>4, <1>6 DEF WorkInv

(* A step that spends a message or a worker for what it brings on.         *)
LEMMA WorkMoves ==
    ASSUME NEW d \in Docs, WorkInv(d), runs[d] \in Nat, dispatched \subseteq dispatched',
           Repeats \in Nat, Repeats' = Repeats,
           \/ \E w : \E x \in Waiting(d) : /\ Waiting(d)' = Waiting(d) \ {x}
                                            /\ Starting(d)' \subseteq Starting(d) \cup {w}
                                            /\ runs'[d] = runs[d]
           \/ \E x : \E w \in Starting(d) : /\ Waiting(d)' \subseteq Waiting(d) \cup {x}
                                             /\ Starting(d)' = Starting(d) \ {w}
                                             /\ runs'[d] = runs[d]
           \/ \E w \in Starting(d) : /\ Waiting(d)' = Waiting(d)
                                     /\ Starting(d)' = Starting(d) \ {w}
                                     /\ runs'[d] = runs[d] + 1
    PROVE  WorkInv(d)'
<1> DEFINE W == Waiting(d)
           S == Starting(d)
<1>1. IsFiniteSet(W) /\ IsFiniteSet(S) /\ Cardinality(W) \in Nat /\ Cardinality(S) \in Nat
    BY FS_CardinalityType DEF WorkInv
<1> DEFINE Balanced ==
      /\ IsFiniteSet(Waiting(d)') /\ IsFiniteSet(Starting(d)')
      /\ Cardinality(Waiting(d)') \in Nat /\ Cardinality(Starting(d)') \in Nat
      /\ runs'[d] + Cardinality(Waiting(d)') + Cardinality(Starting(d)')
            <= runs[d] + Cardinality(W) + Cardinality(S)
<1>4. Balanced
    <2>1. ASSUME NEW x \in W, NEW w, Waiting(d)' = W \ {x}, Starting(d)' \subseteq S \cup {w},
                 runs'[d] = runs[d]
          PROVE  Balanced
        <3>1. /\ IsFiniteSet(Waiting(d)') /\ Cardinality(Waiting(d)') \in Nat
              /\ Cardinality(Waiting(d)') = Cardinality(W) - 1
            BY <1>1, <2>1, OneRemoved
        <3>2. /\ IsFiniteSet(Starting(d)') /\ Cardinality(Starting(d)') \in Nat
              /\ Cardinality(Starting(d)') <= Cardinality(S) + 1
            BY <1>1, <2>1, AtMostOneMore
        <3> HIDE DEF W, S
        <3> QED
            BY <1>1, <2>1, <3>1, <3>2
    <2>2. ASSUME NEW x, NEW w \in S, Waiting(d)' \subseteq W \cup {x}, Starting(d)' = S \ {w},
                 runs'[d] = runs[d]
          PROVE  Balanced
        <3>1. /\ IsFiniteSet(Waiting(d)') /\ Cardinality(Waiting(d)') \in Nat
              /\ Cardinality(Waiting(d)') <= Cardinality(W) + 1
            BY <1>1, <2>2, AtMostOneMore
        <3>2. /\ IsFiniteSet(Starting(d)') /\ Cardinality(Starting(d)') \in Nat
              /\ Cardinality(Starting(d)') = Cardinality(S) - 1
            BY <1>1, <2>2, OneRemoved
        <3> HIDE DEF W, S
        <3> QED
            BY <1>1, <2>2, <3>1, <3>2
    <2>3. ASSUME NEW w \in S, Waiting(d)' = W, Starting(d)' = S \ {w}, runs'[d] = runs[d] + 1
          PROVE  Balanced
        <3>1. /\ IsFiniteSet(Starting(d)') /\ Cardinality(Starting(d)') \in Nat
              /\ Cardinality(Starting(d)') = Cardinality(S) - 1
            BY <1>1, <2>3, OneRemoved
        <3>2. IsFiniteSet(Waiting(d)') /\ Cardinality(Waiting(d)') = Cardinality(W)
            BY <1>1, <2>3
        <3> HIDE DEF W, S
        <3> QED
            BY <1>1, <2>3, <3>1, <3>2
    <2> HIDE DEF Balanced
    <2> QED
        BY <2>1, <2>2, <2>3
<1>5. runs[d] + Cardinality(W) + Cardinality(S) <= (IF d \in dispatched THEN 1 ELSE 0) + Repeats
    BY DEF WorkInv
<1> HIDE DEF W, S
<1>6. runs'[d] + Cardinality(Waiting(d)') + Cardinality(Starting(d)')
          <= (IF d \in dispatched' THEN 1 ELSE 0) + Repeats'
    <2>1. runs'[d] + Cardinality(Waiting(d)') + Cardinality(Starting(d)')
             <= runs[d] + Cardinality(W) + Cardinality(S)
        BY <1>4
    <2>2. (IF d \in dispatched THEN 1 ELSE 0) <= (IF d \in dispatched' THEN 1 ELSE 0)
        OBVIOUS
    <2>3. CASE runs'[d] = runs[d]
        BY <1>1, <1>4, <1>5, <2>1, <2>2, <2>3
    <2>4. CASE runs'[d] = runs[d] + 1
        BY <1>1, <1>4, <1>5, <2>1, <2>2, <2>4
    <2> QED
        BY <2>3, <2>4
<1> QED
    BY <1>4, <1>6 DEF WorkInv

(* What becomes of the executions to come when one worker moves on.        *)
StartPcs == {"load", "parse", "except", "retry"}

LEMMA StartingMoves ==
    ASSUME TypeOK, NEW w \in Workers, NEW s, worker' = [worker EXCEPT ![w] = s], NEW d \in Docs
    PROVE  /\ Starting(d)' \subseteq Starting(d) \cup {w}
           /\ s.doc # d \/ s.pc \notin StartPcs => Starting(d)' = Starting(d) \ {w}
           /\ w \in Starting(d) => Starting(d)' \subseteq Starting(d)
BY DEF TypeOK, Starting, StartPcs

LEMMA StartingGoto ==
    ASSUME TypeOK, NEW w \in Workers, NEW pc, Goto(w, pc), NEW d \in Docs
    PROVE  /\ Starting(d)' \subseteq Starting(d) \cup {w}
           /\ pc \notin StartPcs => Starting(d)' = Starting(d) \ {w}
           /\ worker[w].pc \in StartPcs => Starting(d)' \subseteq Starting(d)
<1> DEFINE s == [worker[w] EXCEPT !.pc = pc]
<1>1. worker[w] \in WorkerStates
    BY DEF TypeOK
<1>2. worker' = [worker EXCEPT ![w] = s]
    BY DEF TypeOK, Goto
<1>3. s.pc = pc /\ s.doc = worker[w].doc
    BY <1>1 DEF WorkerStates
<1> HIDE DEF s
<1>4. /\ Starting(d)' \subseteq Starting(d) \cup {w}
      /\ s.doc # d \/ s.pc \notin StartPcs => Starting(d)' = Starting(d) \ {w}
      /\ w \in Starting(d) => Starting(d)' \subseteq Starting(d)
    BY <1>2, StartingMoves
<1>5. CASE worker[w].doc = d /\ worker[w].pc \in StartPcs
    <2>1. w \in Starting(d)
        BY <1>5 DEF Starting, StartPcs
    <2> QED
        BY <1>3, <1>4, <2>1
<1>6. CASE worker[w].doc # d
    BY <1>3, <1>4, <1>6
<1>7. CASE worker[w].pc \notin StartPcs
    BY <1>3, <1>4, <1>7
<1> QED
    BY <1>5, <1>6, <1>7

LEMMA WorkStep ==
    UploadInv /\ (\A d \in Docs : WorkInv(d)) /\ [Next]_vars => (\A d \in Docs : WorkInv(d))'
<1> SUFFICES ASSUME UploadInv, \A e \in Docs : WorkInv(e), [Next]_vars, NEW d \in Docs
             PROVE  WorkInv(d)'
    OBVIOUS
<1>1. TypeOK /\ WorkInv(d) /\ runs[d] \in Nat
    BY DEF UploadInv, InputInv, TypeOK
<1>2. dispatched \subseteq dispatched' /\ Repeats \in Nat /\ Repeats' \in Nat /\ Repeats <= Repeats'
    BY <1>1, DispatchedGrows, RepeatsGrow
<1>3. ASSUME UNCHANGED <<runs, queue>>, Starting(d)' \subseteq Starting(d) PROVE WorkInv(d)'
    <2>1. Waiting(d)' = Waiting(d)
        BY <1>3 DEF Waiting
    <2> QED
        BY <1>1, <1>2, <1>3, <2>1, WorkStays
<1>4. ASSUME UNCHANGED <<runs, queue, worker>> PROVE WorkInv(d)'
    BY <1>3, <1>4 DEF Starting
<1>5. ASSUME NEW h \in Handlers, HandlerStep(h) PROVE WorkInv(d)'
    <2>1. CASE Dispatch(h) /\ upload[h].doc = d
        <3>1. d \notin dispatched /\ d \in dispatched'
            BY <2>1 DEF Dispatch, UploadInv, UploadFresh
        <3>2. PICK x : Waiting(d)' = Waiting(d) \cup {x}
            <4>1. <<d, 0>> \in Messages /\ queue' = [queue EXCEPT ![<<d, 0>>] = @ + 1]
                <5>1. 0 \in 0..MaxRetries
                    BY BoundsAssumption
                <5> QED
                    BY <1>1, <2>1, <5>1, MessagesOf DEF Dispatch
            <4> QED
                BY <1>1, <4>1, OneMore
        <3>3. Starting(d)' = Starting(d) /\ runs'[d] = runs[d] /\ Repeats' = Repeats
            BY <2>1 DEF Dispatch, Starting, indexVars, Repeats
        <3>4. /\ IsFiniteSet(Waiting(d)') /\ Cardinality(Waiting(d)') \in Nat
              /\ Cardinality(Waiting(d)') <= Cardinality(Waiting(d)) + 1
              /\ Cardinality(Waiting(d)) \in Nat
            BY <1>1, <3>2, AtMostOneMore DEF WorkInv
        <3>5. IsFiniteSet(Starting(d)) /\ Cardinality(Starting(d)) \in Nat
            BY <1>1, FS_CardinalityType DEF WorkInv
        <3>6. runs[d] + Cardinality(Waiting(d)) + Cardinality(Starting(d)) <= Repeats
            <4>1. runs[d] + Cardinality(Waiting(d)) + Cardinality(Starting(d)) <= 0 + Repeats
                BY <1>1, <3>1 DEF WorkInv
            <4> HIDE DEF Waiting, Starting, Repeats
            <4> QED
                BY <1>2, <4>1
        <3>7. runs'[d] + Cardinality(Waiting(d)') + Cardinality(Starting(d)') <= 1 + Repeats'
            <4> HIDE DEF Waiting, Starting, Repeats
            <4> QED
                BY <1>1, <1>2, <3>3, <3>4, <3>5, <3>6
        <3> QED
            BY <3>1, <3>3, <3>4, <3>5, <3>7 DEF WorkInv
    <2>2. CASE Dispatch(h) /\ upload[h].doc # d
        <3>1. upload[h].doc \in Docs
            BY <1>1, <2>2, ActiveHasDoc DEF Dispatch
        <3>2. Waiting(d)' = Waiting(d)
            <4> DEFINE m == <<upload[h].doc, 0>>
            <4>1. m \in Messages /\ m[1] # d /\ queue' = [queue EXCEPT ![m] = @ + 1]
                <5>1. 0 \in 0..MaxRetries
                    BY BoundsAssumption
                <5> QED
                    BY <2>2, <3>1, <5>1, MessagesOf DEF Dispatch
            <4> HIDE DEF m
            <4> QED
                BY <1>1, <4>1, OneMore
        <3>3. Starting(d)' = Starting(d) /\ runs'[d] = runs[d]
            BY <2>2 DEF Dispatch, Starting, indexVars
        <3> QED
            BY <1>1, <1>2, <3>2, <3>3, WorkStays
    <2>3. CASE ~Dispatch(h)
        BY <1>4, <1>5, <2>3
           DEF HandlerStep, CheckQuota, PutObject, InsertRow, AbortUpload, indexVars
    <2> QED
        BY <2>1, <2>2, <2>3
<1>6. ASSUME NEW e \in Docs, Delete(e) PROVE WorkInv(d)'
    BY <1>4, <1>6 DEF Delete, indexVars
<1>7. ASSUME NEW w \in Workers, TaskStep(w) PROVE WorkInv(d)'
    <2>1. ASSUME NEW m \in Messages, Receive(w, m) PROVE WorkInv(d)'
        <3>1. PICK x \in Waiting(m[1]) :
                  Waiting(d)' = IF d = m[1] THEN Waiting(d) \ {x} ELSE Waiting(d)
            BY <1>1, <2>1, OneLess DEF Receive
        <3>2. runs'[d] = runs[d] /\ Repeats' = Repeats
            BY <2>1 DEF Receive, indexVars, Repeats
        <3>3. CASE d = m[1]
            <4>1. Starting(d)' \subseteq Starting(d) \cup {w}
                BY <1>1, <2>1 DEF Receive, Starting, TypeOK
            <4> QED
                BY <1>1, <1>2, <3>1, <3>2, <3>3, <4>1, WorkMoves
        <3>4. CASE d # m[1]
            <4> DEFINE s == [IdleWorker EXCEPT !.pc = "load", !.doc = m[1],
                                               !.retries = m[2], !.held = TRUE]
            <4>1. worker' = [worker EXCEPT ![w] = s] /\ s.doc # d
                BY <2>1, <3>4 DEF Receive, IdleWorker
            <4> HIDE DEF s
            <4>2. Starting(d)' \subseteq Starting(d)
                BY <1>1, <4>1, StartingMoves
            <4> QED
                BY <1>1, <1>2, <3>1, <3>2, <3>4, <4>2, WorkStays
        <3> QED
            BY <3>3, <3>4
    <2>2. CASE ParseAndEmbed(w)
        <3> DEFINE s == [worker[w] EXCEPT !.pc = "upsert", !.run = runs[worker[w].doc] + 1,
                                          !.sent = 0]
        <3>1. worker' = [worker EXCEPT ![w] = s] /\ s.pc = "upsert"
            BY <1>1, <2>2 DEF ParseAndEmbed, TypeOK, WorkerStates
        <3> HIDE DEF s
        <3>2. Starting(d)' = Starting(d) \ {w} /\ Waiting(d)' = Waiting(d) /\ Repeats' = Repeats
            <4>1. s.pc \notin StartPcs
                BY <3>1 DEF StartPcs
            <4>2. Starting(d)' = Starting(d) \ {w}
                BY <1>1, <3>1, <4>1, StartingMoves
            <4> QED
                BY <2>2, <4>2 DEF ParseAndEmbed, Waiting, Repeats
        <3>3. CASE worker[w].doc = d
            <4>1. w \in Starting(d) /\ runs'[d] = runs[d] + 1
                BY <1>1, <2>2, <3>3 DEF ParseAndEmbed, Starting, TypeOK
            <4> QED
                BY <1>1, <1>2, <3>2, <4>1, WorkMoves
        <3>4. CASE worker[w].doc # d
            <4>1. runs'[d] = runs[d]
                BY <1>1, <2>2, <3>4 DEF ParseAndEmbed, TypeOK
            <4> QED
                BY <1>1, <1>2, <3>2, <4>1, WorkStays
        <3> QED
            BY <3>3, <3>4
    <2>3. CASE PublishRetry(w)
        <3>1. Starting(d)' = Starting(d) \ {w} /\ runs'[d] = runs[d] /\ Repeats' = Repeats
            <4>1. Goto(w, "ack") /\ UNCHANGED <<runs, faults>>
                BY <2>3 DEF PublishRetry, indexVars
            <4>2. Starting(d)' = Starting(d) \ {w}
                <5>1. "ack" \notin StartPcs
                    BY DEF StartPcs
                <5> QED
                    BY <1>1, <4>1, <5>1, StartingGoto
            <4> QED
                BY <4>1, <4>2 DEF Repeats
        <3>2. /\ worker[w].pc = "retry" /\ worker[w].doc \in Docs
              /\ worker[w].retries + 1 \in 0..MaxRetries
            <4>1. worker[w].pc = "retry" /\ worker[w].retries < MaxRetries
                BY <2>3 DEF PublishRetry
            <4>2. worker[w] \in WorkerStates
                BY <1>1 DEF TypeOK
            <4>3. worker[w].retries \in 0..MaxRetries
                BY <4>2 DEF WorkerStates
            <4>4. worker[w].doc \in Docs
                BY <1>1, <4>1, BusyHasDoc
            <4> QED
                BY <4>1, <4>3, <4>4, BoundsAssumption
        <3> DEFINE m == <<worker[w].doc, worker[w].retries + 1>>
        <3>3. m \in Messages /\ m[1] = worker[w].doc /\ queue' = [queue EXCEPT ![m] = @ + 1]
            BY <2>3, <3>2, MessagesOf DEF PublishRetry
        <3>4. PICK x : Waiting(d)' = IF d = m[1] THEN Waiting(d) \cup {x} ELSE Waiting(d)
            BY <1>1, <3>3, OneMore
        <3>5. CASE worker[w].doc = d
            <4>1. w \in Starting(d)
                BY <3>2, <3>5 DEF Starting
            <4>2. Waiting(d)' \subseteq Waiting(d) \cup {x}
                BY <3>4
            <4> QED
                BY <1>1, <1>2, <3>1, <4>1, <4>2, WorkMoves
        <3>6. CASE worker[w].doc # d
            <4>1. Waiting(d)' = Waiting(d)
                BY <3>3, <3>4, <3>6
            <4> QED
                BY <1>1, <1>2, <3>1, <4>1, WorkStays
        <3> QED
            BY <3>5, <3>6
    <2>4. CASE UpsertBatch(w)
        <3> DEFINE s == [worker[w] EXCEPT !.sent = @ + 1]
        <3>1. worker' = [worker EXCEPT ![w] = s] /\ s.pc = "upsert"
            BY <1>1, <2>4 DEF UpsertBatch, TypeOK, WorkerStates
        <3> HIDE DEF s
        <3>2. Starting(d)' \subseteq Starting(d)
            <4>1. s.pc \notin StartPcs
                BY <3>1 DEF StartPcs
            <4>2. Starting(d)' = Starting(d) \ {w}
                BY <1>1, <3>1, <4>1, StartingMoves
            <4> QED
                BY <4>2
        <3> QED
            BY <1>3, <2>4, <3>2 DEF UpsertBatch
    <2>5. CASE Ack(w)
        <3>1. Starting(d)' \subseteq Starting(d)
            BY <1>1, <2>5 DEF Ack, IdleWorker, Starting, TypeOK
        <3> QED
            BY <1>3, <2>5, <3>1 DEF Ack, indexVars
    <2>6. CASE LoadDocument(w) \/ MarkFailed(w)
        <3>1. worker[w].pc \in StartPcs /\ \E pc \in StartPcs : Goto(w, pc)
            BY <2>6 DEF LoadDocument, MarkFailed, StartPcs
        <3>2. Starting(d)' \subseteq Starting(d)
            BY <1>1, <3>1, StartingGoto
        <3> QED
            BY <1>3, <2>6, <3>2 DEF LoadDocument, MarkFailed, indexVars
    <2>7. CASE PersistChunks(w) \/ MarkReady(w) \/ GiveUp(w)
        <3>1. \E pc \in {"mark", "ack"} : Goto(w, pc)
            BY <2>7 DEF PersistChunks, MarkReady, GiveUp
        <3>2. Starting(d)' \subseteq Starting(d)
            <4>1. "mark" \notin StartPcs /\ "ack" \notin StartPcs
                BY DEF StartPcs
            <4> QED
                BY <1>1, <3>1, <4>1, StartingGoto
        <3> QED
            BY <1>3, <2>7, <3>2 DEF PersistChunks, MarkReady, GiveUp, indexVars
    <2> QED
        BY <1>7, <2>1, <2>2, <2>3, <2>4, <2>5, <2>6, <2>7 DEF TaskStep
<1>8. ASSUME NEW w \in Workers, FaultStep(w) PROVE WorkInv(d)'
    <2>1. CASE LoadFails(w) \/ ParseFails(w) \/ MarkFailedFails(w)
        <3>1. worker[w].pc \in StartPcs /\ \E pc \in StartPcs : Goto(w, pc)
            BY <2>1 DEF LoadFails, ParseFails, MarkFailedFails, StartPcs
        <3>2. Starting(d)' \subseteq Starting(d)
            BY <1>1, <3>1, StartingGoto
        <3> QED
            BY <1>3, <2>1, <3>2 DEF LoadFails, ParseFails, MarkFailedFails, indexVars
    <2>2. CASE UpsertFails(w) \/ PersistFails(w) \/ MarkReadyFails(w)
        <3>1. /\ Goto(w, "except") /\ UNCHANGED <<runs, queue>>
              /\ \E k \in Repeatable : Fault(k)
            BY <2>2 DEF UpsertFails, PersistFails, MarkReadyFails, indexVars, Repeatable
        <3>2. Repeats' = Repeats + 1
            BY <1>1, <3>1, FaultCounts
        <3>3. Starting(d)' \subseteq Starting(d) \cup {w}
            BY <1>1, <3>1, StartingGoto
        <3>4. Waiting(d)' = Waiting(d) /\ runs'[d] = runs[d]
            BY <3>1 DEF Waiting
        <3> QED
            BY <1>1, <1>2, <3>2, <3>3, <3>4, WorkFaults
    <2>3. CASE Crash(w) \/ Redeliver(w)
        <3>1. Requeue(w) /\ UNCHANGED runs /\ worker[w].pc # "idle" /\ Repeats' = Repeats + 1
            BY <1>1, <2>3, FaultCounts DEF Crash, Redeliver, indexVars, Repeatable, TypeOK
        <3>2. Starting(d)' \subseteq Starting(d)
            <4>1. CASE Crash(w)
                BY <1>1, <4>1 DEF Crash, IdleWorker, Starting, TypeOK
            <4>2. CASE Redeliver(w)
                BY <1>1, <4>2 DEF Redeliver, Starting, TypeOK, WorkerStates
            <4> QED
                BY <2>3, <4>1, <4>2
        <3>3. \E x : Waiting(d)' \subseteq Waiting(d) \cup {x}
            <4>1. CASE worker[w].held
                <5>1. HeldMessage(w) \in Messages
                    BY <1>1, <3>1, BusyHasDoc, MessagesOf DEF HeldMessage, TypeOK, WorkerStates
                <5> QED
                    BY <1>1, <3>1, <4>1, <5>1, OneMore DEF Requeue
            <4>2. CASE ~worker[w].held
                BY <3>1, <4>2 DEF Requeue, Waiting
            <4> QED
                BY <4>1, <4>2
        <3> QED
            BY <1>1, <1>2, <3>1, <3>2, <3>3, WorkFaults
    <2> QED
        BY <1>8, <2>1, <2>2, <2>3 DEF FaultStep
<1>9. ASSUME BrokerLoss PROVE WorkInv(d)'
    <2>1. Waiting(d)' \subseteq Waiting(d)
        BY <1>9, MessagesOf DEF BrokerLoss, Waiting
    <2>2. Starting(d)' \subseteq Starting(d) /\ runs'[d] = runs[d]
        BY <1>1, <1>9 DEF BrokerLoss, Starting, TypeOK, WorkerStates, indexVars
    <2> QED
        BY <1>1, <1>2, <2>1, <2>2, WorkStays
<1>10. ASSUME UNCHANGED vars PROVE WorkInv(d)'
    BY <1>4, <1>10 DEF vars
<1> QED
    BY <1>5, <1>6, <1>7, <1>8, <1>9, <1>10 DEF Next

(* The copies of a text come from different runs.                          *)
LEMMA CopiesOfRuns ==
    ASSUME TypeOK, PointsOfRuns, RowsHavePoints, NEW d \in Docs, NEW part, NEW S \in {points, chunks}
    PROVE  Cardinality(Copies(S, d, part)) \in Nat /\ Cardinality(Copies(S, d, part)) <= runs[d]
<1>1. runs[d] \in Nat
    BY DEF TypeOK
<1> DEFINE R == 1..runs[d]
           f == [r \in R |-> <<d, r, part>>]
           T == {<<d, r, part>> : r \in R}
<1>2. IsFiniteSet(R) /\ Cardinality(R) = runs[d]
    BY <1>1, FS_Interval
<1>3. f \in Surjection(R, T)
    BY DEF Surjection
<1>4. IsFiniteSet(T) /\ Cardinality(T) <= runs[d]
    BY <1>2, <1>3, FS_Surjection
<1>5. Copies(S, d, part) \subseteq T
    <2> SUFFICES ASSUME NEW x \in S, x[1] = d, x[3] = part PROVE x \in T
        BY DEF Copies
    <2>1. x \in points /\ x = <<x[1], x[2], x[3]>>
        BY DEF TypeOK, RowsHavePoints
    <2>2. x[2] \in R
        BY <2>1 DEF PointsOfRuns
    <2> QED
        BY <2>1, <2>2
<1> HIDE DEF R, f, T
<1>6. /\ Cardinality(Copies(S, d, part)) \in Nat /\ Cardinality(T) \in Nat
      /\ Cardinality(Copies(S, d, part)) <= Cardinality(T)
    BY <1>4, <1>5, AtMost
<1> QED
    BY <1>1, <1>4, <1>6

(* No text is stored more often than its document was published or a fault *)
(* made its task run again.                                                *)
THEOREM FewCopies == Spec => []CopiesBounded
<1> DEFINE Work == \A d \in Docs : WorkInv(d)
           Inv == UploadInv /\ IndexInv /\ PointsOfRuns
<1>1. Inv /\ Work => CopiesBounded
    <2> SUFFICES ASSUME Inv, Work, NEW d \in Docs, NEW part \in 1..Batches[d],
                        NEW S \in {points, chunks}
                 PROVE  Cardinality(Copies(S, d, part)) <= 1 + Repeats
        BY DEF CopiesBounded
    <2>1. TypeOK /\ RowsHavePoints /\ WorkInv(d) /\ runs[d] \in Nat
        BY DEF IndexInv, TypeOK
    <2>2. Cardinality(Waiting(d)) \in Nat /\ Cardinality(Starting(d)) \in Nat
        BY <2>1, FS_CardinalityType DEF WorkInv
    <2>3. Repeats \in Nat
        <3>1. \A k \in Repeatable : faults[k] \in Nat
            BY <2>1 DEF TypeOK, Repeatable, FaultKinds
        <3> QED
            BY <3>1 DEF Repeats, Repeatable
    <2>4. runs[d] <= 1 + Repeats
        BY <2>1, <2>2, <2>3 DEF WorkInv
    <2>5. /\ Cardinality(Copies(S, d, part)) \in Nat
          /\ Cardinality(Copies(S, d, part)) <= runs[d]
        BY <2>1, CopiesOfRuns
    <2> QED
        BY <2>1, <2>3, <2>4, <2>5
<1>2. Init => Inv /\ Work
    <2> SUFFICES ASSUME Init PROVE PointsOfRuns /\ Work
        BY UploadInit, IndexInit
    <2>1. PointsOfRuns
        BY DEF Init, PointsOfRuns
    <2>2. ASSUME NEW d \in Docs PROVE WorkInv(d)
        <3>1. Waiting(d) = {}
            BY MessagesOf DEF Init, Waiting
        <3>2. Starting(d) = {} /\ runs[d] = 0 /\ dispatched = {} /\ Repeats = 0
            BY DEF Init, Starting, IdleWorker, Repeats, FaultKinds
        <3>3. IsFiniteSet({}) /\ Cardinality({}) = 0
            BY FS_EmptySet
        <3> QED
            BY <3>1, <3>2, <3>3 DEF WorkInv
    <2> QED
        BY <2>1, <2>2
<1>3. Inv /\ [Next]_vars => Inv'
    BY UploadStep, IndexStep, PointsOfRunsStep
<1>4. Inv /\ Work /\ [Next]_vars => Work'
    BY WorkStep
<1> HIDE DEF Work, Inv
<1> QED
    BY <1>1, <1>2, <1>3, <1>4, PTL DEF Spec

------------------------------------------------------------------------------
(* Module Ingestion implements module DocumentLifecycle: every step of an  *)
(* upload handler, a worker, the broker or a fault is one step of a        *)
(* document's lifecycle, or changes nothing of it.                         *)

(* The documents that are indexed, the image of the variable searchable.   *)
IndexedDocs == {d \in Docs : Indexed(d)}

Stutters == status' = status /\ deleted' = deleted /\ IndexedDocs' = IndexedDocs

LEMMA Refined ==
    /\ Lifecycle!Registered = Registered
    /\ \A d : Lifecycle!Register(d) <=>
           /\ status[d] = "absent" /\ status' = [status EXCEPT ![d] = "pending"]
           /\ deleted' = deleted /\ IndexedDocs' = IndexedDocs
    /\ \A d : Lifecycle!Start(d) <=>
           /\ d \in Registered /\ status' = [status EXCEPT ![d] = "processing"]
           /\ deleted' = deleted /\ IndexedDocs' = IndexedDocs
    /\ \A d : Lifecycle!Index(d) <=>
           /\ d \in Registered /\ IndexedDocs' = IndexedDocs \cup {d}
           /\ status' = status /\ deleted' = deleted
    /\ \A d : Lifecycle!BecomeReady(d) <=>
           /\ d \in Registered \cap IndexedDocs /\ status' = [status EXCEPT ![d] = "ready"]
           /\ deleted' = deleted /\ IndexedDocs' = IndexedDocs
    /\ \A d : Lifecycle!BecomeFailed(d) <=>
           /\ d \in Registered /\ status' = [status EXCEPT ![d] = "failed"]
           /\ deleted' = deleted /\ IndexedDocs' = IndexedDocs
    /\ \A d : Lifecycle!Remove(d) <=>
           /\ d \in Registered \ deleted /\ deleted' = deleted \cup {d}
           /\ status' = status /\ IndexedDocs' = IndexedDocs
BY DEF Lifecycle!Registered, Lifecycle!Register, Lifecycle!Start, Lifecycle!Index,
       Lifecycle!BecomeReady, Lifecycle!BecomeFailed, Lifecycle!Remove, Registered, IndexedDocs

(* A step that leaves run counters and rows alone leaves what is indexed.  *)
LEMMA SameIndex ==
    ASSUME RowsHavePoints, RowsHavePoints', UNCHANGED <<runs, chunks>>
    PROVE  IndexedDocs' = IndexedDocs
BY DEF RowsHavePoints, IndexedDocs, Indexed, PartsOf

(* A step that parses, or writes the rows of, one document can only index  *)
(* that document.                                                          *)
LEMMA OneIndexed ==
    ASSUME TypeOK, RowsHavePoints, RowsHavePoints', NEW e \in Docs,
           chunks \subseteq chunks', \A x \in chunks' \ chunks : x[1] = e,
           \A d \in Docs : runs'[d] \in Nat /\ runs[d] <= runs'[d],
           \A d \in Docs \ {e} : runs'[d] = runs[d]
    PROVE  IndexedDocs' \in {IndexedDocs, IndexedDocs \cup {e}}
<1>1. \A d \in Docs : Indexed(d) <=> \E r \in 1..runs[d] : PartsOf(d, r) \subseteq chunks
    BY DEF Indexed, RowsHavePoints
<1>2. \A d \in Docs : Indexed(d)' <=> \E r \in 1..runs'[d] : PartsOf(d, r) \subseteq chunks'
    BY DEF Indexed, RowsHavePoints, PartsOf
<1>3. ASSUME NEW d \in Docs \ {e} PROVE Indexed(d)' <=> Indexed(d)
    <2>1. \A r : PartsOf(d, r) \subseteq chunks' <=> PartsOf(d, r) \subseteq chunks
        BY DEF PartsOf
    <2> QED
        BY <1>1, <1>2, <2>1
<1>4. Indexed(e) => Indexed(e)'
    <2> SUFFICES ASSUME Indexed(e) PROVE Indexed(e)'
        OBVIOUS
    <2>1. PICK r \in 1..runs[e] : PartsOf(e, r) \subseteq chunks
        BY <1>1
    <2>2. r \in 1..runs'[e]
        BY DEF TypeOK
    <2> QED
        BY <1>2, <2>1, <2>2
<1> QED
    BY <1>3, <1>4 DEF IndexedDocs

(* One step of a document's lifecycle, or none.                            *)
Lives == Stutters \/ Lifecycle!Next

(* Steps that leave what is indexed alone, by what they do to the rest.    *)
LEMMA QuietLives ==
    ASSUME TypeOK, RowsHavePoints, RowsHavePoints', UNCHANGED <<runs, chunks, deleted>>
    PROVE  /\ status' = status => Lives
           /\ \A w \in Workers, v \in {"processing", "failed"} :
                  /\ worker[w].doc \in Registered
                  /\ status' = [status EXCEPT ![worker[w].doc] = v]
                  => Lives
           /\ \A w \in Workers :
                  /\ worker[w].doc \in Registered \cap IndexedDocs
                  /\ status' = [status EXCEPT ![worker[w].doc] = "ready"]
                  => Lives
<1>1. IndexedDocs' = IndexedDocs
    BY SameIndex
<1>2. status' = status => Lives
    BY <1>1 DEF Lives, Stutters
<1>3. ASSUME NEW d \in Registered, status' = [status EXCEPT ![d] = "processing"] PROVE Lives
    BY <1>1, <1>3, Refined DEF Lives, Lifecycle!Next, Registered
<1>4. ASSUME NEW d \in Registered, status' = [status EXCEPT ![d] = "failed"] PROVE Lives
    BY <1>1, <1>4, Refined DEF Lives, Lifecycle!Next, Registered
<1>5. ASSUME NEW d \in Registered \cap IndexedDocs, status' = [status EXCEPT ![d] = "ready"]
      PROVE  Lives
    BY <1>1, <1>5, Refined DEF Lives, Lifecycle!Next, Registered
<1> HIDE DEF Lives
<1> QED
    BY <1>2, <1>3, <1>4, <1>5

LEMMA LivesStep ==
    ASSUME UploadInv, IndexInv, [Next]_vars
    PROVE  Lives
<1>0. /\ TypeOK /\ RowsHavePoints /\ RowsHavePoints' /\ TypeOK'
      /\ UploadInv /\ TaskInputsExist /\ Progress
    BY IndexStep DEF IndexInv, UploadInv, InputInv
<1>1. ASSUME UNCHANGED <<runs, chunks, deleted, status>> PROVE Lives
    BY <1>0, <1>1, QuietLives
<1>2. ASSUME NEW w \in Workers, worker[w].pc # "idle" PROVE worker[w].doc \in Registered
    BY <1>0, <1>2, BusyHasDoc DEF TaskInputsExist, Working
<1>3. ASSUME NEW w \in Workers, worker[w].pc # "idle", NEW v \in {"processing", "failed"},
             status' \in {status, [status EXCEPT ![worker[w].doc] = v]},
             UNCHANGED <<runs, chunks, deleted>>
      PROVE  Lives
    BY <1>0, <1>2, <1>3, QuietLives
<1>4. ASSUME NEW w \in Workers, worker[w].pc = "mark",
             status' \in {status, [status EXCEPT ![worker[w].doc] = "ready"]},
             UNCHANGED <<runs, chunks, deleted>>
      PROVE  Lives
    <2>1. worker[w].doc \in Docs
        BY <1>0, <1>4, BusyHasDoc
    <2>2. worker[w].doc \in IndexedDocs
        BY <1>0, <1>4, <2>1 DEF Progress, WorkerProgress, IndexedDocs, Indexed
    <2> QED
        BY <1>0, <1>2, <1>4, <2>2, QuietLives
<1>5. ASSUME NEW w \in Workers, worker[w].pc # "idle", UNCHANGED <<status, deleted>>,
             IndexedDocs' \in {IndexedDocs, IndexedDocs \cup {worker[w].doc}}
      PROVE  Lives
    <2>1. worker[w].doc \in Registered
        BY <1>2, <1>5
    <2> QED
        BY <1>5, <2>1, Refined DEF Lives, Stutters, Lifecycle!Next, Registered
<1>6. ASSUME NEW w \in Workers, worker[w].pc # "idle", UNCHANGED <<status, deleted, runs>>,
             chunks' \in {chunks, chunks \cup PartsOf(worker[w].doc, worker[w].run)}
      PROVE  Lives
    <2>1. worker[w].doc \in Docs
        BY <1>0, <1>6, BusyHasDoc
    <2>2. \A x \in PartsOf(worker[w].doc, worker[w].run) : x[1] = worker[w].doc
        BY DEF PartsOf
    <2>3. \A d \in Docs : runs'[d] \in Nat /\ runs[d] <= runs'[d] /\ runs'[d] = runs[d]
        BY <1>0, <1>6 DEF TypeOK
    <2>4. chunks \subseteq chunks' /\ \A x \in chunks' \ chunks : x[1] = worker[w].doc
        BY <1>6, <2>2
    <2>5. IndexedDocs' \in {IndexedDocs, IndexedDocs \cup {worker[w].doc}}
        BY <1>0, <2>1, <2>3, <2>4, OneIndexed
    <2> QED
        BY <1>5, <1>6, <2>5
<1> HIDE DEF Lives
<1>7. ASSUME NEW h \in Handlers, HandlerStep(h) PROVE Lives
    <2>1. ASSUME InsertRow(h) PROVE Lives
        <3>1. upload[h].doc \in Docs /\ status[upload[h].doc] = "absent"
            BY <1>0, <2>1, ActiveHasDoc DEF InsertRow, UploadInv, UploadFresh
        <3>2. IndexedDocs' = IndexedDocs
            BY <1>0, <2>1, SameIndex DEF InsertRow, indexVars
        <3> QED
            BY <2>1, <3>1, <3>2, Refined DEF InsertRow, Lives, Lifecycle!Next
    <2>2. ASSUME \/ \E d \in Docs : CheckQuota(h, d)
                 \/ PutObject(h) \/ Dispatch(h) \/ AbortUpload(h)
          PROVE  Lives
        BY <1>1, <2>2 DEF CheckQuota, PutObject, Dispatch, AbortUpload, dbVars, indexVars
    <2> QED
        BY <1>7, <2>1, <2>2 DEF HandlerStep
<1>8. ASSUME NEW d \in Docs, Delete(d) PROVE Lives
    <2>1. IndexedDocs' = IndexedDocs
        BY <1>0, <1>8, SameIndex DEF Delete, indexVars
    <2> QED
        BY <1>8, <2>1, Refined DEF Delete, Live, Lives, Lifecycle!Next
<1>9. ASSUME NEW w \in Workers, TaskStep(w) PROVE Lives
    <2>1. ASSUME ParseAndEmbed(w) PROVE Lives
        <3>1. worker[w].doc \in Docs
            BY <1>0, <2>1, BusyHasDoc DEF ParseAndEmbed
        <3>2. /\ \A d \in Docs : runs'[d] \in Nat /\ runs[d] <= runs'[d]
              /\ \A d \in Docs \ {worker[w].doc} : runs'[d] = runs[d]
              /\ chunks' = chunks
            BY <1>0, <2>1, <3>1 DEF ParseAndEmbed, TypeOK
        <3>3. IndexedDocs' \in {IndexedDocs, IndexedDocs \cup {worker[w].doc}}
            BY <1>0, <3>1, <3>2, OneIndexed
        <3> QED
            BY <1>5, <2>1, <3>3 DEF ParseAndEmbed, dbVars
    <2>2. ASSUME PersistChunks(w) PROVE Lives
        BY <1>6, <2>2 DEF PersistChunks, UpsertDone, dbVars
    <2>3. ASSUME LoadDocument(w) PROVE Lives
        BY <1>3, <2>3 DEF LoadDocument, indexVars
    <2>4. ASSUME MarkReady(w) PROVE Lives
        BY <1>4, <2>4 DEF MarkReady, indexVars
    <2>5. ASSUME MarkFailed(w) PROVE Lives
        BY <1>3, <2>5 DEF MarkFailed, indexVars
    <2>6. ASSUME \/ \E m \in Messages : Receive(w, m)
                 \/ UpsertBatch(w) \/ PublishRetry(w) \/ GiveUp(w) \/ Ack(w)
          PROVE  Lives
        BY <1>1, <2>6 DEF Receive, UpsertBatch, PublishRetry, GiveUp, Ack, dbVars, indexVars
    <2> QED
        BY <1>9, <2>1, <2>2, <2>3, <2>4, <2>5, <2>6 DEF TaskStep
<1>10. ASSUME NEW w \in Workers, FaultStep(w) PROVE Lives
    <2>1. ASSUME LoadFails(w) PROVE Lives
        BY <1>3, <2>1 DEF LoadFails, indexVars
    <2>2. ASSUME PersistFails(w) PROVE Lives
        BY <1>6, <2>2 DEF PersistFails, UpsertDone, dbVars
    <2>3. ASSUME MarkReadyFails(w) PROVE Lives
        BY <1>4, <2>3 DEF MarkReadyFails, indexVars
    <2>4. ASSUME MarkFailedFails(w) PROVE Lives
        BY <1>3, <2>4 DEF MarkFailedFails, indexVars
    <2>5. ASSUME ParseFails(w) \/ UpsertFails(w) \/ Crash(w) \/ Redeliver(w) PROVE Lives
        BY <1>1, <2>5 DEF ParseFails, UpsertFails, Crash, Redeliver, dbVars, indexVars
    <2> QED
        BY <1>10, <2>1, <2>2, <2>3, <2>4, <2>5 DEF FaultStep
<1>11. ASSUME BrokerLoss \/ UNCHANGED vars PROVE Lives
    BY <1>1, <1>11 DEF BrokerLoss, vars, dbVars, indexVars
<1> QED
    BY <1>7, <1>8, <1>9, <1>10, <1>11 DEF Next

(* Whatever interleaves, fails or is repeated, a document lives through    *)
(* the lifecycle of module DocumentLifecycle.                              *)
THEOREM Implements == Spec => ImplementsLifecycle
<1>1. Init => Lifecycle!Init
    BY DEF Init, Lifecycle!Init, Indexed
<1>2. UploadInv /\ IndexInv /\ [Next]_vars => [Lifecycle!Next]_(Lifecycle!lifecycleVars)
    BY LivesStep DEF Lives, Stutters, Lifecycle!lifecycleVars, IndexedDocs
<1> QED
    BY <1>1, <1>2, UploadInit, UploadStep, IndexInit, IndexStep, PTL
       DEF Spec, ImplementsLifecycle, Lifecycle!Spec
==============================================================================
