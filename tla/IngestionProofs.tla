--------------------------- MODULE IngestionProofs ---------------------------
(***************************************************************************)
(* Theorems about module Ingestion, for every set of documents, handlers   *)
(* and workers, every size of document and every bound on faults and       *)
(* retries.                                                                *)
(***************************************************************************)
EXTENDS Ingestion, FiniteSetTheorems, TLAPS

USE DocsAssumption, BatchesAssumption, BoundsAssumption

------------------------------------------------------------------------------
(* Types.                                                                  *)

(* No fault action can spend more of its kind than a natural number.       *)
LEMMA FaultType ==
    ASSUME TypeOK, NEW k \in FaultKinds, Fault(k)
    PROVE  faults' \in [FaultKinds -> Nat]
BY DEF TypeOK, Fault

(* Moving a busy worker to another place of the task keeps its type.       *)
LEMMA GotoType ==
    ASSUME TypeOK, NEW w \in Workers, NEW pc \in WorkerPcs \ {"idle"},
           worker[w].pc # "idle", Goto(w, pc)
    PROVE  /\ worker' \in [Workers -> WorkerStates]
           /\ \A v \in Workers : /\ worker'[v].pc = "idle" <=> worker'[v].doc = NoDoc
                                 /\ worker'[v].held => worker'[v].pc # "idle"
BY DEF TypeOK, Goto, WorkerStates

(* The other updates of one worker's record keep its type too.             *)
LEMMA ReceivedState ==
    ASSUME NEW d \in Docs, NEW r \in 0..MaxRetries
    PROVE  LET new == [IdleWorker EXCEPT !.pc = "load", !.doc = d,
                                         !.retries = r, !.held = TRUE]
           IN  new \in WorkerStates /\ new.pc = "load" /\ new.doc = d
BY DEF IdleWorker, WorkerStates, WorkerPcs

(* Parsing starts a new run.                                               *)
LEMMA ParsedState ==
    ASSUME NEW s \in WorkerStates, NEW r \in Nat
    PROVE  [s EXCEPT !.pc = "upsert", !.run = r, !.sent = 0] \in WorkerStates
BY DEF WorkerStates, WorkerPcs

(* The broker takes the message back.                                      *)
LEMMA ReleasedState ==
    ASSUME NEW s \in WorkerStates
    PROVE  [s EXCEPT !.held = FALSE] \in WorkerStates
BY DEF WorkerStates

(* A busy worker has a document.                                           *)
LEMMA BusyHasDoc ==
    ASSUME TypeOK, NEW w \in Workers, worker[w].pc # "idle"
    PROVE  worker[w].doc \in Docs
BY DEF TypeOK, WorkerStates

(* An active handler has a document.                                       *)
LEMMA ActiveHasDoc ==
    ASSUME TypeOK, NEW h \in Handlers, upload[h].pc # "idle"
    PROVE  upload[h].doc \in Docs
BY DEF TypeOK

(* The type invariant is inductive.                                        *)
LEMMA TypeStep == TypeOK /\ [Next]_vars => TypeOK'
<1> SUFFICES ASSUME TypeOK, [Next]_vars PROVE TypeOK'
    OBVIOUS
<1>1. CASE UNCHANGED vars
    BY <1>1 DEF TypeOK, vars, dbVars, uploadVars, indexVars
<1>2. ASSUME NEW h \in Handlers, HandlerStep(h) PROVE TypeOK'
    <2>1. ASSUME NEW d \in Docs, CheckQuota(h, d) PROVE TypeOK'
        BY <2>1 DEF TypeOK, CheckQuota, UploadPcs, dbVars, indexVars
    <2>2. CASE PutObject(h)
        BY <2>2, ActiveHasDoc DEF TypeOK, PutObject, UploadPcs, dbVars, indexVars
    <2>3. CASE InsertRow(h)
        BY <2>3, ActiveHasDoc DEF TypeOK, InsertRow, UploadPcs, Statuses, indexVars
    <2>4. CASE Dispatch(h)
        BY <2>4, ActiveHasDoc
           DEF TypeOK, Dispatch, UploadPcs, IdleHandler, Messages, dbVars, indexVars
    <2>5. CASE AbortUpload(h)
        BY <2>5 DEF TypeOK, AbortUpload, UploadPcs, IdleHandler, dbVars, indexVars
    <2> QED
        BY <1>2, <2>1, <2>2, <2>3, <2>4, <2>5 DEF HandlerStep
<1>3. ASSUME NEW d \in Docs, Delete(d) PROVE TypeOK'
    BY <1>3 DEF TypeOK, Delete, uploadVars, indexVars
<1>4. ASSUME NEW w \in Workers, TaskStep(w) PROVE TypeOK'
    <2>1. ASSUME NEW m \in Messages, Receive(w, m) PROVE TypeOK'
        <3> DEFINE new == [IdleWorker EXCEPT !.pc = "load", !.doc = m[1],
                                             !.retries = m[2], !.held = TRUE]
        <3>0. m[1] \in Docs /\ m[2] \in 0..MaxRetries
            BY DEF Messages
        <3>1. new \in WorkerStates /\ new.pc = "load" /\ new.doc = m[1]
            BY <3>0, ReceivedState
        <3>2. worker' = [worker EXCEPT ![w] = new]
            BY <2>1 DEF Receive
        <3>3. queue' \in [Messages -> Nat]
            BY <2>1 DEF Receive, TypeOK
        <3> HIDE DEF new
        <3>4. new.doc # NoDoc
            BY <3>0, <3>1
        <3>5. worker' \in [Workers -> WorkerStates]
            BY <3>1, <3>2 DEF TypeOK
        <3>6. \A v \in Workers : worker'[v] = IF v = w THEN new ELSE worker[v]
            BY <3>2 DEF TypeOK
        <3> QED
            BY <2>1, <3>1, <3>3, <3>4, <3>5, <3>6
               DEF TypeOK, Receive, dbVars, uploadVars, indexVars
    <2>2. CASE LoadDocument(w)
        BY <2>2, GotoType, BusyHasDoc
           DEF TypeOK, LoadDocument, WorkerPcs, Statuses, uploadVars, indexVars
    <2>3. CASE ParseAndEmbed(w)
        <3>1. worker[w].doc \in Docs /\ runs[worker[w].doc] + 1 \in Nat
            BY <2>3, BusyHasDoc DEF ParseAndEmbed, TypeOK
        <3>2. runs' \in [Docs -> Nat]
            BY <2>3, <3>1 DEF ParseAndEmbed, TypeOK
        <3>3. worker' \in [Workers -> WorkerStates]
            <4> DEFINE r == runs[worker[w].doc] + 1
            <4>1. worker' = [worker EXCEPT ![w].pc = "upsert", ![w].run = r, ![w].sent = 0]
                BY <2>3 DEF ParseAndEmbed
            <4>2. [worker[w] EXCEPT !.pc = "upsert", !.run = r, !.sent = 0] \in WorkerStates
                BY <3>1, ParsedState DEF TypeOK
            <4> QED
                BY <4>1, <4>2 DEF TypeOK
        <3>4. \A v \in Workers : /\ worker'[v].doc = worker[v].doc
                                 /\ worker'[v].held = worker[v].held
                                 /\ worker'[v].pc = "idle" <=> worker[v].pc = "idle"
            BY <2>3 DEF ParseAndEmbed, TypeOK, WorkerStates
        <3> QED
            BY <2>3, <3>2, <3>3, <3>4 DEF TypeOK, ParseAndEmbed, dbVars, uploadVars
    <2>4. CASE UpsertBatch(w)
        <3>1. worker[w].doc \in Docs /\ worker[w].run \in Nat /\ worker[w].sent + 1 \in Nat
            BY <2>4, BusyHasDoc DEF UpsertBatch, TypeOK, WorkerStates
        <3> QED
            BY <2>4, <3>1
               DEF TypeOK, UpsertBatch, NextPart, WorkerStates, dbVars, uploadVars
    <2>5. CASE PersistChunks(w)
        <3>1. PartsOf(worker[w].doc, worker[w].run) \subseteq Docs \X Nat \X Nat
            BY <2>5, BusyHasDoc DEF PersistChunks, UpsertDone, TypeOK, WorkerStates, PartsOf
        <3> QED
            BY <2>5, <3>1, GotoType
               DEF TypeOK, PersistChunks, UpsertDone, WorkerPcs, dbVars, uploadVars
    <2>6. CASE MarkReady(w)
        BY <2>6, GotoType, BusyHasDoc
           DEF TypeOK, MarkReady, WorkerPcs, Statuses, uploadVars, indexVars
    <2>7. CASE MarkFailed(w)
        BY <2>7, GotoType, BusyHasDoc
           DEF TypeOK, MarkFailed, WorkerPcs, Statuses, uploadVars, indexVars
    <2>8. CASE PublishRetry(w)
        <3>1. <<worker[w].doc, worker[w].retries + 1>> \in Messages
            BY <2>8, BusyHasDoc DEF PublishRetry, TypeOK, WorkerStates, Messages
        <3> QED
            BY <2>8, <3>1, GotoType
               DEF TypeOK, PublishRetry, WorkerPcs, dbVars, uploadVars, indexVars
    <2>9. CASE GiveUp(w)
        BY <2>9, GotoType, FaultType
           DEF TypeOK, GiveUp, FaultKinds, WorkerPcs, dbVars, uploadVars, indexVars
    <2>10. CASE Ack(w)
        BY <2>10 DEF TypeOK, Ack, IdleWorker, WorkerStates, WorkerPcs,
                     dbVars, uploadVars, indexVars
    <2> QED
        BY <1>4, <2>1, <2>2, <2>3, <2>4, <2>5, <2>6, <2>7, <2>8, <2>9, <2>10 DEF TaskStep
<1>5. ASSUME NEW w \in Workers, FaultStep(w) PROVE TypeOK'
    <2>1. CASE LoadFails(w)
        BY <2>1, GotoType, FaultType, BusyHasDoc
           DEF TypeOK, LoadFails, FaultKinds, WorkerPcs, Statuses, uploadVars, indexVars
    <2>2. CASE ParseFails(w)
        BY <2>2, GotoType, FaultType
           DEF TypeOK, ParseFails, FaultKinds, WorkerPcs, dbVars, uploadVars, indexVars
    <2>3. CASE UpsertFails(w)
        <3>1. NextPart(w) \in Docs \X Nat \X Nat
            BY <2>3, BusyHasDoc DEF UpsertFails, TypeOK, WorkerStates, NextPart
        <3> QED
            BY <2>3, <3>1, GotoType, FaultType
               DEF TypeOK, UpsertFails, FaultKinds, WorkerPcs, dbVars, uploadVars
    <2>4. CASE PersistFails(w)
        <3>1. PartsOf(worker[w].doc, worker[w].run) \subseteq Docs \X Nat \X Nat
            BY <2>4, BusyHasDoc DEF PersistFails, UpsertDone, TypeOK, WorkerStates, PartsOf
        <3> QED
            BY <2>4, <3>1, GotoType, FaultType
               DEF TypeOK, PersistFails, UpsertDone, FaultKinds, WorkerPcs, dbVars, uploadVars
    <2>5. CASE MarkReadyFails(w)
        BY <2>5, GotoType, FaultType, BusyHasDoc
           DEF TypeOK, MarkReadyFails, FaultKinds, WorkerPcs, Statuses, uploadVars, indexVars
    <2>6. CASE MarkFailedFails(w)
        BY <2>6, GotoType, FaultType, BusyHasDoc
           DEF TypeOK, MarkFailedFails, FaultKinds, WorkerPcs, Statuses, uploadVars, indexVars
    <2>7. CASE Crash(w)
        <3>1. HeldMessage(w) \in Messages
            BY <2>7, BusyHasDoc DEF Crash, HeldMessage, Messages, TypeOK, WorkerStates
        <3> QED
            BY <2>7, <3>1, FaultType
               DEF TypeOK, Crash, Requeue, FaultKinds, IdleWorker, WorkerStates, WorkerPcs,
                   dbVars, uploadVars, indexVars
    <2>8. CASE Redeliver(w)
        <3>1. HeldMessage(w) \in Messages
            BY <2>8, BusyHasDoc DEF Redeliver, HeldMessage, Messages, TypeOK, WorkerStates
        <3>2. queue' \in [Messages -> Nat]
            BY <2>8, <3>1 DEF Redeliver, Requeue, TypeOK
        <3>3. worker' \in [Workers -> WorkerStates]
            <4>1. worker' = [worker EXCEPT ![w] = [worker[w] EXCEPT !.held = FALSE]]
                BY <2>8 DEF Redeliver
            <4>2. [worker[w] EXCEPT !.held = FALSE] \in WorkerStates
                BY ReleasedState DEF TypeOK
            <4> QED
                BY <4>1, <4>2 DEF TypeOK
        <3>4. \A v \in Workers : /\ worker'[v].doc = worker[v].doc
                                 /\ worker'[v].pc = worker[v].pc
                                 /\ worker'[v].held => worker[v].held
            BY <2>8 DEF Redeliver, TypeOK, WorkerStates
        <3> QED
            BY <2>8, <3>2, <3>3, <3>4, FaultType
               DEF TypeOK, Redeliver, FaultKinds, dbVars, uploadVars, indexVars
    <2> QED
        BY <1>5, <2>1, <2>2, <2>3, <2>4, <2>5, <2>6, <2>7, <2>8 DEF FaultStep
<1>6. CASE BrokerLoss
    <2>1. worker' \in [Workers -> WorkerStates]
        <3>1. \A w \in Workers : [worker[w] EXCEPT !.held = FALSE] \in WorkerStates
            BY ReleasedState DEF TypeOK
        <3> QED
            BY <1>6, <3>1 DEF BrokerLoss
    <2>2. \A v \in Workers : /\ worker'[v].doc = worker[v].doc
                             /\ worker'[v].pc = worker[v].pc
                             /\ worker'[v].held = FALSE
        BY <1>6 DEF BrokerLoss, TypeOK, WorkerStates
    <2>3. queue' \in [Messages -> Nat]
        BY <1>6 DEF BrokerLoss
    <2> QED
        BY <1>6, <2>1, <2>2, <2>3, FaultType
           DEF TypeOK, BrokerLoss, FaultKinds, dbVars, uploadVars, indexVars
<1> QED
    BY <1>1, <1>2, <1>3, <1>4, <1>5, <1>6 DEF Next

(* The initial state is well typed.                                        *)
LEMMA TypeInit == Init => TypeOK
BY DEF Init, TypeOK, IdleHandler, IdleWorker, WorkerStates, UploadPcs, WorkerPcs, Statuses

(* Every state of the ingestion service is well typed.                     *)
THEOREM TypeCorrect == Spec => []TypeOK
BY TypeInit, TypeStep, PTL DEF Spec

------------------------------------------------------------------------------
(* The order put, commit, dispatch of the upload handler.                  *)

(* What the handler wrote before the step it is about to take.             *)
UploadOrder ==
    \A h \in Handlers :
        /\ upload[h].pc \in {"insert", "dispatch"} => upload[h].doc \in objects
        /\ upload[h].pc = "dispatch" => upload[h].doc \in Registered

InputInv == TypeOK /\ UploadOrder /\ TaskInputsExist

(* Rows and files of documents are never removed.                          *)
LEMMA InputsStay ==
    ASSUME TypeOK, [Next]_vars
    PROVE  Registered \subseteq Registered' /\ objects \subseteq objects'
<1>1. CASE UNCHANGED vars
    BY <1>1 DEF vars, Registered
<1>2. ASSUME NEW h \in Handlers, HandlerStep(h)
      PROVE  Registered \subseteq Registered' /\ objects \subseteq objects'
    BY <1>2 DEF HandlerStep, CheckQuota, PutObject, InsertRow, Dispatch, AbortUpload,
                Registered, TypeOK, dbVars
<1>3. ASSUME NEW d \in Docs, Delete(d)
      PROVE  Registered \subseteq Registered' /\ objects \subseteq objects'
    BY <1>3 DEF Delete, Registered, uploadVars
<1>4. ASSUME NEW w \in Workers, TaskStep(w)
      PROVE  Registered \subseteq Registered' /\ objects \subseteq objects'
    BY <1>4 DEF TaskStep, Receive, LoadDocument, ParseAndEmbed, UpsertBatch,
                PersistChunks, MarkReady, MarkFailed, PublishRetry, GiveUp, Ack,
                Registered, TypeOK, dbVars, uploadVars
<1>5. ASSUME NEW w \in Workers, FaultStep(w)
      PROVE  Registered \subseteq Registered' /\ objects \subseteq objects'
    BY <1>5 DEF FaultStep, LoadFails, ParseFails, UpsertFails, PersistFails,
                MarkReadyFails, MarkFailedFails, Crash, Redeliver,
                Registered, TypeOK, dbVars, uploadVars
<1>6. CASE BrokerLoss
    BY <1>6 DEF BrokerLoss, Registered, dbVars, uploadVars
<1> QED
    BY <1>1, <1>2, <1>3, <1>4, <1>5, <1>6 DEF Next

(* A handler only moves on after the write of its step.                    *)
LEMMA UploadOrderStep ==
    ASSUME TypeOK, UploadOrder, [Next]_vars
    PROVE  UploadOrder'
<1>1. Registered \subseteq Registered' /\ objects \subseteq objects'
    BY InputsStay
<1>2. CASE UNCHANGED upload
    BY <1>1, <1>2 DEF UploadOrder
<1>3. ASSUME NEW h \in Handlers, HandlerStep(h) PROVE UploadOrder'
    <2>1. ASSUME NEW d \in Docs, CheckQuota(h, d) PROVE UploadOrder'
        BY <1>1, <2>1 DEF CheckQuota, UploadOrder, TypeOK
    <2>2. CASE PutObject(h)
        BY <1>1, <2>2 DEF PutObject, UploadOrder, TypeOK
    <2>3. CASE InsertRow(h)
        <3>1. upload[h].doc \in Registered'
            BY <2>3, ActiveHasDoc DEF InsertRow, Registered, TypeOK
        <3> QED
            BY <1>1, <2>3, <3>1 DEF InsertRow, UploadOrder, TypeOK
    <2>4. CASE Dispatch(h)
        BY <1>1, <2>4 DEF Dispatch, UploadOrder, TypeOK, IdleHandler
    <2>5. CASE AbortUpload(h)
        BY <1>1, <2>5 DEF AbortUpload, UploadOrder, TypeOK, IdleHandler
    <2> QED
        BY <1>3, <2>1, <2>2, <2>3, <2>4, <2>5 DEF HandlerStep
<1>4. ASSUME NEW d \in Docs, Delete(d) PROVE UNCHANGED upload
    BY <1>4 DEF Delete, uploadVars
<1>5. ASSUME NEW w \in Workers, TaskStep(w) PROVE UNCHANGED upload
    BY <1>5 DEF TaskStep, Receive, LoadDocument, ParseAndEmbed, UpsertBatch,
                PersistChunks, MarkReady, MarkFailed, PublishRetry, GiveUp, Ack, uploadVars
<1>6. ASSUME NEW w \in Workers, FaultStep(w) PROVE UNCHANGED upload
    BY <1>6 DEF FaultStep, LoadFails, ParseFails, UpsertFails, PersistFails,
                MarkReadyFails, MarkFailedFails, Crash, Redeliver, uploadVars
<1>7. CASE BrokerLoss
    BY <1>2, <1>7 DEF BrokerLoss, uploadVars
<1>8. CASE UNCHANGED vars
    BY <1>2, <1>8 DEF vars, uploadVars
<1> QED
    BY <1>2, <1>3, <1>4, <1>5, <1>6, <1>7, <1>8 DEF Next

(* The messages of a document.                                             *)
LEMMA MessagesOf ==
    \A d \in Docs, r \in 0..MaxRetries : <<d, r>> \in Messages /\ <<d, r>>[1] = d
BY DEF Messages

(* Where messages come from: a dispatching handler, or a worker that has   *)
(* the document already.                                                   *)
LEMMA MessageOrigin ==
    ASSUME TypeOK, [Next]_vars, NEW d \in Docs, Queued(d)' \/ Working(d)'
    PROVE  \/ Queued(d) \/ Working(d)
           \/ \E h \in Handlers : /\ upload[h].pc = "dispatch" /\ upload[h].doc = d
                                  /\ upload'[h] = IdleHandler /\ d \in dispatched'
<1> DEFINE Goal == \/ Queued(d) \/ Working(d)
                   \/ \E h \in Handlers : /\ upload[h].pc = "dispatch" /\ upload[h].doc = d
                                          /\ upload'[h] = IdleHandler /\ d \in dispatched'
<1>0. d # NoDoc
    BY DocsAssumption
<1>1. CASE UNCHANGED <<queue, worker>>
    BY <1>1 DEF Queued, Working
<1>2. ASSUME NEW h \in Handlers, HandlerStep(h) PROVE Goal
    <2>1. CASE Dispatch(h)
        BY <2>1 DEF Dispatch, Queued, Working, TypeOK, Messages
    <2>2. CASE ~Dispatch(h)
        BY <1>1, <1>2, <2>2 DEF HandlerStep, CheckQuota, PutObject, InsertRow, AbortUpload
    <2> QED
        BY <2>1, <2>2
<1>3. ASSUME NEW e \in Docs, Delete(e) PROVE Goal
    BY <1>1, <1>3 DEF Delete
<1>4. ASSUME NEW w \in Workers, TaskStep(w) PROVE Goal
    <2>1. ASSUME NEW m \in Messages, Receive(w, m) PROVE Goal
        <3>1. PICK e \in Docs, r \in 0..MaxRetries : m = <<e, r>>
            BY DEF Messages
        <3>2. Queued(e)
            BY <2>1, <3>1 DEF Receive, Queued
        <3>3. \A v \in Workers : worker'[v].doc # worker[v].doc => worker'[v].doc = e
            BY <2>1, <3>1 DEF Receive, IdleWorker, TypeOK
        <3>4. \A n \in Messages : queue'[n] > 0 => queue[n] > 0
            BY <2>1 DEF Receive, TypeOK
        <3>5. Queued(d) \/ Working(d)
            BY <3>2, <3>3, <3>4 DEF Queued, Working, Messages
        <3> QED
            BY <3>5
    <2>2. CASE PublishRetry(w)
        <3>1. \A v \in Workers : worker'[v].doc = worker[v].doc
            BY <2>2 DEF PublishRetry, Goto, TypeOK, WorkerStates
        <3>2. \A n \in Messages : queue'[n] > 0 => queue[n] > 0 \/ n[1] = worker[w].doc
            BY <2>2 DEF PublishRetry, TypeOK
        <3>3. Queued(d) \/ Working(d)
            BY <3>1, <3>2, MessagesOf DEF Queued, Working
        <3> QED
            BY <3>3
    <2>3. CASE ~PublishRetry(w) /\ ~\E m \in Messages : Receive(w, m)
        <3>1. UNCHANGED queue
            BY <1>4, <2>3 DEF TaskStep, LoadDocument, ParseAndEmbed, UpsertBatch,
                PersistChunks, MarkReady, MarkFailed, GiveUp, Ack
        <3>2. \A v \in Workers : worker'[v].doc \in {worker[v].doc, NoDoc}
            BY <1>4, <2>3 DEF TaskStep, LoadDocument, ParseAndEmbed, UpsertBatch,
                PersistChunks, MarkReady, MarkFailed, GiveUp, Ack, Goto, IdleWorker,
                TypeOK, WorkerStates
        <3> QED
            BY <1>0, <3>1, <3>2 DEF Queued, Working
    <2> QED
        BY <2>1, <2>2, <2>3
<1>5. ASSUME NEW w \in Workers, FaultStep(w) PROVE Goal
    <2>1. \A v \in Workers : worker'[v].doc \in {worker[v].doc, NoDoc}
        BY <1>5 DEF FaultStep, LoadFails, ParseFails, UpsertFails, PersistFails,
                MarkReadyFails, MarkFailedFails, Crash, Redeliver, Goto, IdleWorker,
                TypeOK, WorkerStates
    <2>2. \A n \in Messages : queue'[n] > 0 => queue[n] > 0 \/ n[1] = worker[w].doc
        BY <1>5 DEF FaultStep, LoadFails, ParseFails, UpsertFails, PersistFails,
                MarkReadyFails, MarkFailedFails, Crash, Redeliver, Requeue, HeldMessage,
                TypeOK
    <2>3. Queued(d) \/ Working(d)
        BY <2>1, <2>2, <1>0, MessagesOf DEF Queued, Working
    <2> QED
        BY <2>3
<1>6. CASE BrokerLoss
    <2>1. \A m \in Messages : queue'[m] = 0
        BY <1>6 DEF BrokerLoss
    <2>2. \A v \in Workers : worker'[v].doc = worker[v].doc
        BY <1>6 DEF BrokerLoss, TypeOK, WorkerStates
    <2>3. ~Queued(d)'
        <3>1. \A r \in 0..MaxRetries : queue'[<<d, r>>] = 0
            BY <2>1, MessagesOf
        <3>2. \A r \in 0..MaxRetries : ~(queue'[<<d, r>>] > 0)
            BY <3>1
        <3> QED
            BY <3>2 DEF Queued
    <2>4. Working(d)
        BY <2>2, <2>3 DEF Working
    <2> QED
        BY <2>4
<1>7. CASE UNCHANGED vars
    BY <1>1, <1>7 DEF vars
<1> QED
    BY <1>2, <1>3, <1>4, <1>5, <1>6, <1>7 DEF Next

(* The input invariant is inductive.                                       *)
LEMMA InputStep == InputInv /\ [Next]_vars => InputInv'
<1> SUFFICES ASSUME InputInv, [Next]_vars PROVE InputInv'
    OBVIOUS
<1>1. TypeOK' /\ UploadOrder'
    BY TypeStep, UploadOrderStep DEF InputInv
<1>2. TaskInputsExist'
    <2> SUFFICES ASSUME NEW d \in Docs, Queued(d)' \/ Working(d)'
                 PROVE  d \in Registered' /\ d \in objects'
        BY DEF TaskInputsExist
    <2>1. d \in Registered /\ d \in objects
        BY MessageOrigin DEF InputInv, UploadOrder, TaskInputsExist
    <2> QED
        BY <2>1, InputsStay DEF InputInv
<1> QED
    BY <1>1, <1>2 DEF InputInv

(* No message exists initially.                                            *)
LEMMA InputInit == Init => InputInv
<1> SUFFICES ASSUME Init PROVE InputInv
    OBVIOUS
<1>1. \A m \in Messages : queue[m] = 0
    BY DEF Init
<1>2. \A d \in Docs : ~Queued(d) /\ ~Working(d)
    <2> TAKE d \in Docs
    <2>1. \A r \in 0..MaxRetries : ~(queue[<<d, r>>] > 0)
        BY <1>1 DEF Messages
    <2>2. \A w \in Workers : worker[w].doc # d
        BY DEF Init, IdleWorker
    <2>3. ~Queued(d)
        BY <2>1 DEF Queued
    <2>4. ~Working(d)
        BY <2>2 DEF Working
    <2> QED
        BY <2>3, <2>4
<1>3. UploadOrder
    BY DEF Init, UploadOrder, IdleHandler
<1> QED
    BY <1>2, <1>3, TypeInit DEF InputInv, TaskInputsExist

(* A task always finds the row and the file of its document.               *)
THEOREM InputsCorrect == Spec => []TaskInputsExist
<1>1. InputInv => TaskInputsExist
    BY DEF InputInv
<1> QED
    BY <1>1, InputInit, InputStep, PTL DEF Spec

------------------------------------------------------------------------------
(* READY documents are indexed.                                            *)

(* What an execution has already written when it is about to write rows,   *)
(* or the status.                                                          *)
WorkerProgress(w) ==
    LET d == worker[w].doc
        r == worker[w].run
    IN  /\ worker[w].pc \in {"upsert", "mark"} => r \in 1..runs[d]
        /\ worker[w].pc = "upsert" =>
               \A b \in 1..worker[w].sent : <<d, r, b>> \in points
        /\ worker[w].pc = "mark" => PartsOf(d, r) \subseteq points \cap chunks

Progress == \A w \in Workers : WorkerProgress(w)

IndexInv == TypeOK /\ RowsHavePoints /\ Progress /\ ReadyMeansIndexed

(* Points, rows and the run counters only grow.                            *)
IndexGrows ==
    /\ points \subseteq points'
    /\ chunks \subseteq chunks'
    /\ \A d \in Docs : runs'[d] \in Nat /\ runs[d] <= runs'[d]

(* ... trivially where a step leaves them alone.                           *)
LEMMA IndexStays ==
    ASSUME TypeOK, UNCHANGED indexVars
    PROVE  IndexGrows
BY DEF TypeOK, indexVars, IndexGrows

(* A document that is indexed stays indexed.                               *)
LEMMA IndexedStays ==
    ASSUME TypeOK, IndexGrows, NEW d \in Docs, Indexed(d)
    PROVE  Indexed(d)'
<1>1. PICK r \in 1..runs[d] : PartsOf(d, r) \subseteq points \cap chunks
    BY DEF Indexed
<1>2. r \in 1..runs'[d]
    BY DEF IndexGrows, TypeOK
<1>3. PartsOf(d, r) \subseteq points' \cap chunks'
    BY <1>1 DEF IndexGrows
<1> QED
    BY <1>2, <1>3 DEF Indexed, PartsOf

(* A worker that did not move keeps its progress.                          *)
LEMMA ProgressStays ==
    ASSUME TypeOK, IndexGrows, NEW w \in Workers, WorkerProgress(w),
           worker'[w].pc \in {"upsert", "mark"} =>
               /\ worker'[w].pc = worker[w].pc
               /\ worker'[w].doc = worker[w].doc
               /\ worker'[w].run = worker[w].run
               /\ worker'[w].sent = worker[w].sent
    PROVE  WorkerProgress(w)'
<1>1. CASE worker'[w].pc \in {"upsert", "mark"}
    <2>1. worker[w].doc \in Docs
        BY <1>1, BusyHasDoc
    <2> QED
        BY <1>1, <2>1 DEF WorkerProgress, IndexGrows, PartsOf, TypeOK
<1>2. CASE worker'[w].pc \notin {"upsert", "mark"}
    BY <1>2 DEF WorkerProgress
<1> QED
    BY <1>1, <1>2

(* The part of a step that writes no status READY.                         *)
LEMMA ReadyStays ==
    ASSUME TypeOK, ReadyMeansIndexed, IndexGrows,
           \A d \in Docs : status'[d] = "ready" => status[d] = "ready"
    PROVE  ReadyMeansIndexed'
BY IndexedStays DEF ReadyMeansIndexed

(* When all batches are sent, all parts of the run are points.             *)
LEMMA AllSent ==
    ASSUME TypeOK, NEW w \in Workers, WorkerProgress(w), UpsertDone(w)
    PROVE  PartsOf(worker[w].doc, worker[w].run) \subseteq points
BY BusyHasDoc DEF UpsertDone, WorkerProgress, PartsOf, TypeOK

(* Steps that touch neither the index nor a worker inside the pipeline,    *)
(* and mark nothing READY.                                                 *)
LEMMA QuietStep ==
    ASSUME IndexInv, UNCHANGED indexVars,
           \A d \in Docs : status'[d] = "ready" => status[d] = "ready",
           \A v \in Workers : worker'[v].pc \in {"upsert", "mark"} =>
               /\ worker'[v].pc = worker[v].pc
               /\ worker'[v].doc = worker[v].doc
               /\ worker'[v].run = worker[v].run
               /\ worker'[v].sent = worker[v].sent
    PROVE  RowsHavePoints' /\ Progress' /\ ReadyMeansIndexed'
<1>1. IndexGrows
    BY IndexStays DEF IndexInv
<1>2. RowsHavePoints'
    BY DEF IndexInv, RowsHavePoints, indexVars
<1>3. Progress'
    BY <1>1, ProgressStays DEF IndexInv, Progress
<1> QED
    BY <1>1, <1>2, <1>3, ReadyStays DEF IndexInv

(* The index invariant is inductive.                                       *)
LEMMA IndexStep == IndexInv /\ [Next]_vars => IndexInv'
<1> SUFFICES ASSUME IndexInv, [Next]_vars
             PROVE  RowsHavePoints' /\ Progress' /\ ReadyMeansIndexed'
    BY TypeStep DEF IndexInv
<1> DEFINE Goal == RowsHavePoints' /\ Progress' /\ ReadyMeansIndexed'
<1>0. TypeOK /\ TypeOK'
    BY TypeStep DEF IndexInv
<1>1. CASE UNCHANGED vars
    <2>1. UNCHANGED indexVars /\ status' = status /\ worker' = worker
        BY <1>1 DEF vars, dbVars, indexVars
    <2>2. \A d \in Docs : status'[d] = "ready" => status[d] = "ready"
        BY <2>1
    <2>3. \A v \in Workers : worker'[v] = worker[v]
        BY <2>1
    <2> QED
        BY <2>1, <2>2, <2>3, QuietStep
<1>2. ASSUME NEW h \in Handlers, HandlerStep(h) PROVE Goal
    BY <1>0, <1>2, QuietStep
       DEF HandlerStep, CheckQuota, PutObject, InsertRow, Dispatch, AbortUpload, TypeOK, dbVars
<1>3. ASSUME NEW d \in Docs, Delete(d) PROVE Goal
    BY <1>3, QuietStep DEF Delete
<1>4. ASSUME NEW w \in Workers, ParseAndEmbed(w) PROVE Goal
    <2> DEFINE d == worker[w].doc
    <2>1. d \in Docs
        BY <1>0, <1>4, BusyHasDoc DEF ParseAndEmbed
    <2>2. IndexGrows
        BY <1>0, <1>4 DEF ParseAndEmbed, IndexGrows, TypeOK
    <2>3. RowsHavePoints'
        BY <1>4 DEF ParseAndEmbed, IndexInv, RowsHavePoints
    <2>4. ASSUME NEW v \in Workers PROVE WorkerProgress(v)'
        <3>1. CASE v # w
            <4>1. worker'[v] = worker[v]
                BY <1>0, <1>4, <3>1 DEF ParseAndEmbed, TypeOK
            <4> QED
                BY <1>0, <2>2, <4>1, ProgressStays DEF IndexInv, Progress
        <3>2. CASE v = w
            <4>1. /\ worker'[w].pc = "upsert" /\ worker'[w].doc = d
                  /\ worker'[w].run = runs[d] + 1 /\ worker'[w].sent = 0
                BY <1>0, <1>4 DEF ParseAndEmbed, TypeOK, WorkerStates
            <4>2. runs'[d] = runs[d] + 1 /\ runs[d] \in Nat
                BY <1>0, <1>4, <2>1 DEF ParseAndEmbed, TypeOK
            <4> QED
                BY <3>2, <4>1, <4>2 DEF WorkerProgress
        <3> QED
            BY <3>1, <3>2
    <2>5. ReadyMeansIndexed'
        BY <1>0, <1>4, <2>2, ReadyStays DEF ParseAndEmbed, IndexInv, dbVars
    <2> QED
        BY <2>3, <2>4, <2>5 DEF Progress
<1>5. ASSUME NEW w \in Workers, UpsertBatch(w) \/ UpsertFails(w) PROVE Goal
    <2>1. IndexGrows
        BY <1>0, <1>5 DEF UpsertBatch, UpsertFails, IndexGrows, TypeOK
    <2>2. RowsHavePoints'
        BY <1>5 DEF UpsertBatch, UpsertFails, IndexInv, RowsHavePoints
    <2>3. ASSUME NEW v \in Workers PROVE WorkerProgress(v)'
        <3>1. CASE v # w
            <4>1. worker'[v] = worker[v]
                BY <1>0, <1>5, <3>1 DEF UpsertBatch, UpsertFails, Goto, TypeOK
            <4> QED
                BY <1>0, <2>1, <4>1, ProgressStays DEF IndexInv, Progress
        <3>2. CASE v = w /\ UpsertFails(w)
            BY <1>0, <3>2 DEF UpsertFails, Goto, WorkerProgress, TypeOK, WorkerStates
        <3>3. CASE v = w /\ UpsertBatch(w)
            <4>1. /\ worker'[w].pc = "upsert" /\ worker'[w].doc = worker[w].doc
                  /\ worker'[w].run = worker[w].run /\ worker'[w].sent = worker[w].sent + 1
                BY <1>0, <3>3 DEF UpsertBatch, TypeOK, WorkerStates
            <4>2. points' = points \cup {NextPart(w)} /\ runs' = runs
                BY <3>3 DEF UpsertBatch
            <4>3. worker[w].sent \in Nat
                BY <1>0 DEF TypeOK, WorkerStates
            <4>4. WorkerProgress(w) /\ worker[w].pc = "upsert"
                BY <3>3 DEF IndexInv, Progress, UpsertBatch
            <4>5. \A b \in 1..(worker[w].sent + 1) : b \in 1..worker[w].sent \/ b = worker[w].sent + 1
                BY <4>3
            <4> QED
                BY <3>3, <4>1, <4>2, <4>4, <4>5 DEF WorkerProgress, NextPart
        <3> QED
            BY <1>5, <3>1, <3>2, <3>3
    <2>4. ReadyMeansIndexed'
        BY <1>0, <1>5, <2>1, ReadyStays DEF UpsertBatch, UpsertFails, IndexInv, dbVars
    <2> QED
        BY <2>2, <2>3, <2>4 DEF Progress
<1>6. ASSUME NEW w \in Workers, PersistChunks(w) \/ PersistFails(w) PROVE Goal
    <2> DEFINE parts == PartsOf(worker[w].doc, worker[w].run)
    <2>1. UpsertDone(w) /\ WorkerProgress(w)
        BY <1>6 DEF PersistChunks, PersistFails, IndexInv, Progress
    <2>2. parts \subseteq points
        BY <1>0, <2>1, AllSent
    <2>3. points' = points /\ runs' = runs /\ chunks' \in {chunks, chunks \cup parts}
        BY <1>6 DEF PersistChunks, PersistFails
    <2>4. IndexGrows
        BY <1>0, <2>3 DEF IndexGrows, TypeOK
    <2>5. RowsHavePoints'
        BY <2>2, <2>3 DEF IndexInv, RowsHavePoints
    <2>6. ASSUME NEW v \in Workers PROVE WorkerProgress(v)'
        <3>1. CASE v # w
            <4>1. worker'[v] = worker[v]
                BY <1>0, <1>6, <3>1 DEF PersistChunks, PersistFails, Goto, TypeOK
            <4> QED
                BY <1>0, <2>4, <4>1, ProgressStays DEF IndexInv, Progress
        <3>2. CASE v = w /\ PersistFails(w)
            BY <1>0, <3>2 DEF PersistFails, Goto, WorkerProgress, TypeOK, WorkerStates
        <3>3. CASE v = w /\ PersistChunks(w)
            <4>1. /\ worker'[w].pc = "mark" /\ worker'[w].doc = worker[w].doc
                  /\ worker'[w].run = worker[w].run
                BY <1>0, <3>3 DEF PersistChunks, Goto, TypeOK, WorkerStates
            <4>2. chunks' = chunks \cup parts
                BY <3>3 DEF PersistChunks
            <4>3. PartsOf(worker'[w].doc, worker'[w].run) = parts
                BY <4>1
            <4> QED
                BY <2>1, <2>2, <2>3, <3>3, <4>1, <4>2, <4>3
                   DEF WorkerProgress, UpsertDone, PartsOf
        <3> QED
            BY <1>6, <3>1, <3>2, <3>3
    <2>7. ReadyMeansIndexed'
        BY <1>0, <1>6, <2>4, ReadyStays DEF PersistChunks, PersistFails, IndexInv, dbVars
    <2> QED
        BY <2>5, <2>6, <2>7 DEF Progress
<1>7. ASSUME NEW w \in Workers, MarkReady(w) \/ MarkReadyFails(w) PROVE Goal
    <2>1. IndexGrows
        BY <1>0, <1>7, IndexStays DEF MarkReady, MarkReadyFails
    <2>2. RowsHavePoints'
        BY <1>7 DEF MarkReady, MarkReadyFails, IndexInv, RowsHavePoints, indexVars
    <2>3. \A v \in Workers : worker'[v].pc \in {"upsert", "mark"} => worker'[v] = worker[v]
        BY <1>0, <1>7 DEF MarkReady, MarkReadyFails, Goto, TypeOK, WorkerStates
    <2>4. Progress'
        BY <1>0, <2>1, <2>3, ProgressStays DEF IndexInv, Progress
    <2>5. worker[w].doc \in Docs /\ worker[w].pc = "mark" /\ WorkerProgress(w)
        BY <1>0, <1>7, BusyHasDoc DEF MarkReady, MarkReadyFails, IndexInv, Progress
    <2>6. Indexed(worker[w].doc)
        BY <2>5 DEF WorkerProgress, Indexed
    <2>7. \A d \in Docs : status'[d] = "ready" => status[d] = "ready" \/ d = worker[w].doc
        BY <1>0, <1>7 DEF MarkReady, MarkReadyFails, TypeOK
    <2>8. \A d \in Docs : status'[d] = "ready" => Indexed(d)
        BY <2>6, <2>7 DEF IndexInv, ReadyMeansIndexed
    <2>9. ReadyMeansIndexed'
        BY <1>0, <2>1, <2>8, IndexedStays DEF ReadyMeansIndexed
    <2> QED
        BY <2>2, <2>4, <2>9
<1>8. ASSUME NEW w \in Workers, NEW m \in Messages, Receive(w, m) PROVE Goal
    <2>1. UNCHANGED indexVars /\ UNCHANGED status
        BY <1>8 DEF Receive, dbVars
    <2>2. \A v \in Workers : worker'[v].pc \in {"upsert", "mark"} => worker'[v] = worker[v]
        BY <1>0, <1>8 DEF Receive, IdleWorker, TypeOK
    <2> QED
        BY <2>1, <2>2, QuietStep
<1>9. ASSUME NEW w \in Workers,
             \/ LoadDocument(w) \/ MarkFailed(w) \/ PublishRetry(w) \/ GiveUp(w)
             \/ Ack(w) \/ LoadFails(w) \/ ParseFails(w) \/ MarkFailedFails(w)
             \/ Crash(w)
      PROVE  Goal
    <2>1. UNCHANGED indexVars
        BY <1>9 DEF LoadDocument, MarkFailed, PublishRetry, GiveUp, Ack, LoadFails,
                    ParseFails, MarkFailedFails, Crash
    <2>2. \A d \in Docs : status'[d] = "ready" => status[d] = "ready"
        BY <1>0, <1>9 DEF LoadDocument, MarkFailed, PublishRetry, GiveUp, Ack, LoadFails,
                          ParseFails, MarkFailedFails, Crash, dbVars, TypeOK
    <2>3. \A v \in Workers : worker'[v].pc \in {"upsert", "mark"} => worker'[v] = worker[v]
        BY <1>0, <1>9 DEF LoadDocument, MarkFailed, PublishRetry, GiveUp, Ack, LoadFails,
                          ParseFails, MarkFailedFails, Crash, Goto, IdleWorker,
                          TypeOK, WorkerStates
    <2> QED
        BY <2>1, <2>2, <2>3, QuietStep
<1>10. ASSUME \/ BrokerLoss
              \/ \E w \in Workers : Redeliver(w)
       PROVE  Goal
    <2>1. UNCHANGED indexVars /\ UNCHANGED status
        BY <1>10 DEF BrokerLoss, Redeliver, dbVars
    <2>2. \A v \in Workers : /\ worker'[v].pc = worker[v].pc
                             /\ worker'[v].doc = worker[v].doc
                             /\ worker'[v].run = worker[v].run
                             /\ worker'[v].sent = worker[v].sent
        BY <1>0, <1>10 DEF BrokerLoss, Redeliver, TypeOK, WorkerStates
    <2> QED
        BY <2>1, <2>2, QuietStep
<1> QED
    BY <1>1, <1>2, <1>3, <1>4, <1>5, <1>6, <1>7, <1>8, <1>9, <1>10
       DEF Next, TaskStep, FaultStep

(* Nothing is indexed and nothing READY initially.                         *)
LEMMA IndexInit == Init => IndexInv
<1> SUFFICES ASSUME Init PROVE RowsHavePoints /\ Progress /\ ReadyMeansIndexed
    BY TypeInit DEF IndexInv
<1> QED
    BY DEF Init, RowsHavePoints, Progress, WorkerProgress, ReadyMeansIndexed, IdleWorker

(* READY means indexed, whatever overlaps, fails or dies.                  *)
THEOREM ReadyIndexed == Spec => []ReadyMeansIndexed
<1>1. IndexInv => ReadyMeansIndexed
    BY DEF IndexInv
<1> QED
    BY <1>1, IndexInit, IndexStep, PTL DEF Spec

(* No row of the chunks table points at a vector that does not exist.      *)
THEOREM RowsBacked == Spec => []RowsHavePoints
<1>1. IndexInv => RowsHavePoints
    BY DEF IndexInv
<1> QED
    BY <1>1, IndexInit, IndexStep, PTL DEF Spec

------------------------------------------------------------------------------
(* The document quota.  The argument needs finitely many documents and     *)
(* handlers, so that counting them means something.                        *)

FinitelyMany == IsFiniteSet(Docs) /\ IsFiniteSet(Handlers)

(* Live documents and passed uploads can be counted.                       *)
LEMMA Countable ==
    ASSUME FinitelyMany
    PROVE  /\ IsFiniteSet(Live) /\ Cardinality(Live) \in Nat
           /\ IsFiniteSet(Passed) /\ Cardinality(Passed) \in Nat
           /\ Cardinality(Handlers) \in Nat
           /\ Cardinality(Passed) <= Cardinality(Handlers)
<1>1. Live \subseteq Docs /\ Passed \subseteq Handlers
    BY DEF Live, Registered, Passed
<1> QED
    BY <1>1, FS_Subset, FS_CardinalityType DEF FinitelyMany

(* A step that lets no upload pass and inserts no row can only lower the   *)
(* count.                                                                  *)
LEMMA QuotaQuiet ==
    ASSUME FinitelyMany, QuotaOvershootBounded, Live' \subseteq Live, Passed' \subseteq Passed
    PROVE  QuotaOvershootBounded'
<1>1. /\ Cardinality(Live') <= Cardinality(Live) /\ Cardinality(Live') \in Nat
      /\ Cardinality(Passed') <= Cardinality(Passed) /\ Cardinality(Passed') \in Nat
    BY Countable, FS_Subset, FS_CardinalityType
<1>2. Cardinality(Live)' = Cardinality(Live') /\ Cardinality(Passed)' = Cardinality(Passed')
    OBVIOUS
<1> QED
    BY <1>1, <1>2, Countable DEF QuotaOvershootBounded

(* Every step keeps the bound: a passing upload found room for one more,   *)
(* and an insert turns a passed upload into a document.                    *)
LEMMA QuotaStep ==
    ASSUME FinitelyMany, InputInv, QuotaOvershootBounded, [Next]_vars
    PROVE  QuotaOvershootBounded'
<1> USE DEF InputInv
<1>1. ASSUME NEW h \in Handlers, NEW d \in Docs, CheckQuota(h, d)
      PROVE  QuotaOvershootBounded'
    <2> SUFFICES ASSUME MaxDocs > 0
                 PROVE  Cardinality(Live') + Cardinality(Passed')
                          <= MaxDocs - 1 + Cardinality(Handlers)
        BY DEF QuotaOvershootBounded
    <2>1. Live' = Live /\ Cardinality(Live) < MaxDocs
        BY <1>1 DEF CheckQuota, QuotaAllows, Live, Registered, dbVars
    <2>2. Passed' \subseteq Handlers
        BY DEF Passed
    <2>3. Cardinality(Passed') \in Nat /\ Cardinality(Passed') <= Cardinality(Handlers)
        BY <2>2, FS_Subset, FS_CardinalityType DEF FinitelyMany
    <2> QED
        BY <2>1, <2>3, Countable
<1>2. ASSUME NEW h \in Handlers, InsertRow(h) PROVE QuotaOvershootBounded'
    <2> DEFINE d == upload[h].doc
    <2>1. d \in Docs /\ h \in Passed
        BY <1>2, ActiveHasDoc DEF InsertRow, Passed
    <2>2. Passed' = Passed \ {h}
        BY <1>2, <2>1 DEF InsertRow, Passed, TypeOK
    <2>3. Live' \subseteq Live \cup {d}
        BY <1>2, <2>1 DEF InsertRow, Live, Registered, TypeOK
    <2>4. Cardinality(Passed') = Cardinality(Passed) - 1
        BY <2>1, <2>2, Countable, FS_RemoveElement
    <2>5. /\ IsFiniteSet(Live \cup {d})
          /\ Cardinality(Live \cup {d}) <= Cardinality(Live) + 1
          /\ Cardinality(Live \cup {d}) \in Nat
        <3>1. /\ IsFiniteSet(Live \cup {d})
              /\ Cardinality(Live \cup {d})
                   = IF d \in Live THEN Cardinality(Live) ELSE Cardinality(Live) + 1
            BY Countable, FS_AddElement, Zenon
        <3> QED
            BY <3>1, Countable
    <2>6. Cardinality(Live') <= Cardinality(Live) + 1 /\ Cardinality(Live') \in Nat
        BY <2>3, <2>5, Countable, FS_Subset, FS_CardinalityType
    <2> QED
        BY <2>4, <2>6, Countable DEF QuotaOvershootBounded
<1>3. ASSUME NEW h \in Handlers, PutObject(h) \/ Dispatch(h) \/ AbortUpload(h)
      PROVE  QuotaOvershootBounded'
    <2>1. Live' \subseteq Live
        BY <1>3 DEF PutObject, Dispatch, AbortUpload, Live, Registered, dbVars
    <2>2. Passed' \subseteq Passed
        BY <1>3 DEF PutObject, Dispatch, AbortUpload, Passed, IdleHandler, TypeOK
    <2> QED
        BY <2>1, <2>2, QuotaQuiet
<1>4. ASSUME NEW d \in Docs, Delete(d) PROVE QuotaOvershootBounded'
    <2>1. Live' \subseteq Live /\ Passed' = Passed
        BY <1>4 DEF Delete, Live, Registered, Passed, uploadVars
    <2> QED
        BY <2>1, QuotaQuiet
<1>5. ASSUME NEW w \in Workers, TaskStep(w) \/ FaultStep(w)
      PROVE  QuotaOvershootBounded'
    <2>1. ASSUME NEW d \in Docs, d \in Registered' PROVE d \in Registered
        <3>1. CASE worker[w].pc = "idle"
            BY <1>5, <2>1, <3>1
               DEF TaskStep, FaultStep, Receive, LoadDocument, ParseAndEmbed, UpsertBatch,
                   PersistChunks, MarkReady, MarkFailed, PublishRetry, GiveUp, Ack,
                   LoadFails, ParseFails, UpsertFails, PersistFails, UpsertDone,
                   MarkReadyFails, MarkFailedFails, Crash, Redeliver, Registered, dbVars
        <3>2. CASE worker[w].pc # "idle"
            <4>1. worker[w].doc \in Registered
                BY <3>2, BusyHasDoc DEF TaskInputsExist, Working
            <4> QED
                BY <1>5, <2>1, <4>1
                   DEF TaskStep, FaultStep, Receive, LoadDocument, ParseAndEmbed,
                       UpsertBatch, PersistChunks, MarkReady, MarkFailed, PublishRetry,
                       GiveUp, Ack, LoadFails, ParseFails, UpsertFails, PersistFails,
                       UpsertDone, MarkReadyFails, MarkFailedFails, Crash, Redeliver,
                       Registered, TypeOK, dbVars
        <3> QED
            BY <3>1, <3>2
    <2>2. UNCHANGED <<deleted, upload>>
        BY <1>5 DEF TaskStep, FaultStep, Receive, LoadDocument, ParseAndEmbed, UpsertBatch,
                    PersistChunks, MarkReady, MarkFailed, PublishRetry, GiveUp, Ack,
                    LoadFails, ParseFails, UpsertFails, PersistFails, MarkReadyFails,
                    MarkFailedFails, Crash, Redeliver, dbVars, uploadVars
    <2>3. Live' \subseteq Live
        BY <2>1, <2>2 DEF Live, Registered
    <2>4. Passed' = Passed
        BY <2>2 DEF Passed
    <2> QED
        BY <2>3, <2>4, QuotaQuiet
<1>6. CASE BrokerLoss
    <2>1. Live' = Live /\ Passed' = Passed
        BY <1>6 DEF BrokerLoss, Live, Registered, Passed, dbVars, uploadVars
    <2> QED
        BY <2>1, QuotaQuiet
<1>7. CASE UNCHANGED vars
    <2>1. Live' = Live /\ Passed' = Passed
        BY <1>7 DEF vars, Live, Registered, Passed, dbVars, uploadVars
    <2> QED
        BY <2>1, QuotaQuiet
<1> QED
    BY <1>1, <1>2, <1>3, <1>4, <1>5, <1>6, <1>7 DEF Next, HandlerStep

(* However uploads interleave, the quota is exceeded by less than their    *)
(* number.                                                                 *)
THEOREM QuotaBound ==
    ASSUME FinitelyMany
    PROVE  Spec => []QuotaOvershootBounded
<1>1. ASSUME Init PROVE QuotaOvershootBounded
    <2>1. Live = {} /\ Passed = {}
        BY <1>1 DEF Init, Live, Registered, Passed, IdleHandler
    <2>2. Cardinality(Live) = 0 /\ Cardinality(Passed) = 0
        BY <2>1, FS_EmptySet
    <2> QED
        BY <2>2, Countable DEF QuotaOvershootBounded
<1>2. InputInv /\ QuotaOvershootBounded /\ [Next]_vars => QuotaOvershootBounded'
    BY QuotaStep
<1> QED
    BY <1>1, <1>2, InputInit, InputStep, PTL DEF Spec
==============================================================================
