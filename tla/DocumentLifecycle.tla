-------------------------- MODULE DocumentLifecycle --------------------------
(***************************************************************************)
(* What the ingestion service promises of a document, whatever handlers,   *)
(* workers and queues do underneath: a document is registered once, is     *)
(* worked on and settles (possibly several times, the queue delivers at    *)
(* least once), becomes READY only once one complete set of its chunks is  *)
(* searchable, never becomes unsearchable again, and is removed for good.  *)
(* Module Ingestion is shown to implement it.                              *)
(***************************************************************************)
CONSTANT Docs            \* document ids

VARIABLES
    status,              \* the documents.status column, "absent" without a row
    deleted,             \* documents whose deleted_at is set
    searchable           \* documents with a complete set of points and rows

lifecycleVars == <<status, deleted, searchable>>

Registered == {d \in Docs : status[d] # "absent"}

Init ==
    /\ status = [d \in Docs |-> "absent"]
    /\ deleted = {}
    /\ searchable = {}

Register(d) ==
    /\ status[d] = "absent"
    /\ status' = [status EXCEPT ![d] = "pending"]
    /\ UNCHANGED <<deleted, searchable>>

Start(d) ==
    /\ d \in Registered
    /\ status' = [status EXCEPT ![d] = "processing"]
    /\ UNCHANGED <<deleted, searchable>>

Index(d) ==
    /\ d \in Registered
    /\ searchable' = searchable \cup {d}
    /\ UNCHANGED <<status, deleted>>

BecomeReady(d) ==
    /\ d \in Registered \cap searchable
    /\ status' = [status EXCEPT ![d] = "ready"]
    /\ UNCHANGED <<deleted, searchable>>

BecomeFailed(d) ==
    /\ d \in Registered
    /\ status' = [status EXCEPT ![d] = "failed"]
    /\ UNCHANGED <<deleted, searchable>>

Remove(d) ==
    /\ d \in Registered \ deleted
    /\ deleted' = deleted \cup {d}
    /\ UNCHANGED <<status, searchable>>

Next ==
    \E d \in Docs :
        \/ Register(d) \/ Start(d) \/ Index(d)
        \/ BecomeReady(d) \/ BecomeFailed(d) \/ Remove(d)

Spec == Init /\ [][Next]_lifecycleVars
==============================================================================
