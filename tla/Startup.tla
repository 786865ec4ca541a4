------------------------------- MODULE Startup -------------------------------
(***************************************************************************)
(* The start of the API: every gunicorn worker process of every container  *)
(* runs the lifespan of app/main.py before it serves.  It creates the      *)
(* tables and stamps their version (app/core/database.py), then creates    *)
(* the Qdrant collection and its payload indexes (app/services/            *)
(* retriever.py).  Nothing coordinates the processes: each looks whether a *)
(* resource exists and creates it in a later step, and the one that comes  *)
(* second gets an error.                                                   *)
(*                                                                         *)
(* An error in the lifespan is fatal: the process exits with gunicorn's    *)
(* boot error, gunicorn stops its other workers and exits, and the         *)
(* container is started again.                                             *)
(***************************************************************************)
EXTENDS Integers, FiniteSets

CONSTANTS
    Containers,  \* API containers (3 replicas in the Kubernetes deployment)
    Slots,       \* gunicorn worker processes per container (-w 4)
    MaxFaults    \* bound: calls that fail and processes that die

ASSUME MaxFaultsAssumption == MaxFaults \in Nat

VARIABLES
    prepared,  \* what exists in PostgreSQL and in Qdrant
    pc,        \* per process: the step of its lifespan
    halted,    \* containers whose gunicorn is shutting down
    restarts,  \* history: how often a container was started again
    faults     \* faults so far

vars == <<prepared, pc, halted, restarts, faults>>

Processes == Containers \X Slots

Resources == {"tables", "version", "collection", "tenant_id", "document_id"}
Indexes   == {"tenant_id", "document_id"}

(* What each writing step of the lifespan creates.                         *)
Creates == [createTables     |-> "tables",
            stamp            |-> "version",
            createCollection |-> "collection",
            indexTenant      |-> "tenant_id",
            indexDocument    |-> "document_id"]

Starting == {"findTables", "findVersion", "readHeads", "findCollection"}
                \cup DOMAIN Creates

Init ==
    /\ prepared = {}
    /\ pc = [p \in Processes |-> "findTables"]
    /\ halted = {}
    /\ restarts = [c \in Containers |-> 0]
    /\ faults = 0

------------------------------------------------------------------------------
Goto(p, step) == pc' = [pc EXCEPT ![p] = step]

(* Mutant: the lifespan logs what it catches.                              *)
BootErrorSwallowed(p) ==
    /\ Goto(p, "serving")
    /\ UNCHANGED halted

(* The lifespan raised: WORKER_BOOT_ERROR, gunicorn halts.                 *)
BootFails(p) ==
    /\ Goto(p, "stopped")
    /\ halted' = halted \cup {p[1]}

(* A look at whether a resource exists; nothing is locked by it.           *)
Look(p, step, resource, present, missing) ==
    /\ pc[p] = step
    /\ Goto(p, IF resource \in prepared THEN present ELSE missing)
    /\ UNCHANGED <<prepared, halted, restarts, faults>>

(* The creation of a resource, or an error if another process was faster.  *)
Create(p, step, next) ==
    /\ pc[p] = step
    /\ IF Creates[step] \in prepared
       THEN BootFails(p) /\ UNCHANGED prepared
       ELSE /\ prepared' = prepared \cup {Creates[step]}
            /\ Goto(p, next)
            /\ UNCHANGED halted
    /\ UNCHANGED <<restarts, faults>>

(* Mutant: create_all(checkfirst=False).                                   *)
FindNoTables(p) == Look(p, "findTables", "none", "findVersion", "createTables")

(* create_all inspects the database, then creates in one transaction.      *)
FindTables(p)   == Look(p, "findTables", "tables", "findVersion", "createTables")
CreateTables(p) == Create(p, "createTables", "findVersion")

(* SELECT version_num: a stamped database is left alone.                   *)
FindVersion(p) == Look(p, "findVersion", "version", "findCollection", "readHeads")

(* alembic reads the heads in the transaction in which it writes them.     *)
ReadHeads(p) == Look(p, "readHeads", "version", "findCollection", "stamp")
Stamp(p)     == Create(p, "stamp", "findCollection")

(* Mutant: a process that finds the collection waits for its indexes.      *)
FindCollectionWaits(p) ==
    /\ "collection" \in prepared => Indexes \subseteq prepared
    /\ Look(p, "findCollection", "collection", "serving", "createCollection")

(* ensure_collection returns when the collection exists.                   *)
FindCollection(p) ==
    Look(p, "findCollection", "collection", "serving", "createCollection")

CreateCollection(p) == Create(p, "createCollection", "indexTenant")

(* Only the process that created the collection gets here; an index that   *)
(* exists already would be left as it is.                                  *)
IndexField(p, step, next) ==
    /\ pc[p] = step
    /\ prepared' = prepared \cup {Creates[step]}
    /\ Goto(p, next)
    /\ UNCHANGED <<halted, restarts, faults>>

IndexTenant(p)   == IndexField(p, "indexTenant", "indexDocument")
IndexDocument(p) == IndexField(p, "indexDocument", "serving")

------------------------------------------------------------------------------
(* Faults, and what gunicorn and the container runtime do about them.      *)

Fault ==
    /\ faults < MaxFaults
    /\ faults' = faults + 1

(* A call of the lifespan raises; what it was to create may be there.      *)
CallFails(p) ==
    /\ pc[p] \in Starting
    /\ Fault
    /\ \/ UNCHANGED prepared
       \/ /\ pc[p] \in DOMAIN Creates
          /\ prepared' = prepared \cup {Creates[pc[p]]}
    /\ BootFails(p)
    /\ UNCHANGED restarts

(* "alembic_version table not yet created": any error of the SELECT passes. *)
FindVersionFails(p) ==
    /\ pc[p] = "findVersion"
    /\ Fault
    /\ Goto(p, "readHeads")
    /\ UNCHANGED <<prepared, halted, restarts>>

(* A worker process is killed; gunicorn spawns another one.                *)
Die(p) ==
    /\ pc[p] # "stopped"
    /\ Fault
    /\ Goto(p, IF p[1] \in halted THEN "stopped" ELSE "findTables")
    /\ UNCHANGED <<prepared, halted, restarts>>

(* The container is killed with all its processes.                         *)
ContainerDies(c) ==
    /\ Fault
    /\ pc' = [p \in Processes |-> IF p[1] = c THEN "stopped" ELSE pc[p]]
    /\ halted' = halted \cup {c}
    /\ UNCHANGED <<prepared, restarts>>

(* Mutant: a worker that serves exits by itself.                           *)
StopUnasked(p) ==
    /\ pc[p] = "serving"
    /\ Goto(p, "stopped")
    /\ UNCHANGED <<prepared, halted, restarts, faults>>

(* Mutant: a shutdown also ends the processes that are starting.           *)
StopAtOnce(p) ==
    /\ p[1] \in halted
    /\ pc[p] # "stopped"
    /\ Goto(p, "stopped")
    /\ UNCHANGED <<prepared, halted, restarts, faults>>

(* uvicorn looks at the SIGTERM of gunicorn when the lifespan is through.  *)
Stop(p) ==
    /\ p[1] \in halted
    /\ pc[p] = "serving"
    /\ Goto(p, "stopped")
    /\ UNCHANGED <<prepared, halted, restarts, faults>>

(* restart: unless-stopped, or the kubelet.                                *)
Restart(c) ==
    /\ c \in halted
    /\ \A s \in Slots : pc[<<c, s>>] = "stopped"
    /\ halted' = halted \ {c}
    /\ pc' = [p \in Processes |-> IF p[1] = c THEN "findTables" ELSE pc[p]]
    /\ restarts' = [restarts EXCEPT ![c] = @ + 1]
    /\ UNCHANGED <<prepared, faults>>

------------------------------------------------------------------------------
Lifespan(p) ==
    \/ FindTables(p) \/ CreateTables(p)
    \/ FindVersion(p) \/ ReadHeads(p) \/ Stamp(p)
    \/ FindCollection(p) \/ CreateCollection(p)
    \/ IndexTenant(p) \/ IndexDocument(p)

Next ==
    \/ \E p \in Processes :
          \/ Lifespan(p) \/ Stop(p)
          \/ CallFails(p) \/ FindVersionFails(p) \/ Die(p)
    \/ \E c \in Containers : ContainerDies(c) \/ Restart(c)

Spec == Init /\ [][Next]_vars

(* Every call of the lifespan returns or raises, a worker told to stop     *)
(* does so, and a container that exited is started again.                  *)
Fairness ==
    /\ \A p \in Processes : WF_vars(Lifespan(p)) /\ WF_vars(Stop(p))
    /\ \A c \in Containers : WF_vars(Restart(c))

FairSpec == Spec /\ Fairness
------------------------------------------------------------------------------
(* Properties.                                                             *)

(* The variables keep their types, and a process is stopped only in a      *)
(* container that is halting.                                              *)
TypeOK ==
    /\ prepared \subseteq Resources
    /\ pc \in [Processes -> Starting \cup {"serving", "stopped"}]
    /\ halted \subseteq Containers
    /\ \A p \in Processes : pc[p] = "stopped" => p[1] \in halted
    /\ restarts \in [Containers -> Nat]
    /\ faults \in 0..MaxFaults

Serving == {p \in Processes : pc[p] = "serving"}

(* No process serves before the tables, their version and the collection   *)
(* exist, whichever process created them, lost a race or died.             *)
ServingIsPrepared ==
    Serving # {} => {"tables", "version", "collection"} \subseteq prepared

(* Without a fault the indexes of a collection that lacks them are still   *)
(* on their way: the races alone, and the shutdowns they cause, never lose *)
(* them.                                                                   *)
IndexesLostOnlyByFault ==
    /\ faults = 0
    /\ "collection" \in prepared
    /\ ~(Indexes \subseteq prepared)
    => \E p \in Processes : pc[p] \in {"indexTenant", "indexDocument"}

(* Losing a race stops a whole container, the workers that serve included. *)
(* That cannot become a crash loop: a container is started again at most   *)
(* once for each of the three races, besides the faults.                   *)
RestartsBounded == \A c \in Containers : restarts[c] <= 3 + faults

(* "Idempotently create the Qdrant collection with named dense + sparse    *)
(* vectors and a keyword payload index on tenant_id": once every process   *)
(* is through its lifespan, the collection has its indexes.                *)
CollectionComplete == Serving = Processes => Indexes \subseteq prepared

(* Whatever races and faults there are, in the end every process of every  *)
(* container serves for good.                                              *)
Recovers == <>[](Serving = Processes)

==============================================================================
