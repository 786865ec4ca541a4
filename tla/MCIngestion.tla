----------------------------- MODULE MCIngestion -----------------------------
(***************************************************************************)
(* Values of Ingestion's constants for TLC: documents of several sizes and *)
(* the faults each run allows.                                             *)
(***************************************************************************)
EXTENDS Ingestion, TLC

CONSTANTS d1, d2

(* d1 fills two Qdrant batches, d2 one.                                    *)
MCBatches == [d \in Docs |-> IF d = d1 THEN 2 ELSE 1]

Faults(kinds, n) == [k \in FaultKinds |-> IF k \in kinds THEN n ELSE 0]

EveryFault    == {Faults(FaultKinds, 1)}
PostgresFault == {Faults({"postgres"}, 1)}

(* Without what can lose track of a document.                              *)
TrackedFaults == {[Faults({"crash"}, 2) EXCEPT !["service"] = 1],
                  [Faults({"redelivery"}, 2) EXCEPT !["service"] = 1]}

Symmetric     == Permutations(Workers)
==============================================================================
