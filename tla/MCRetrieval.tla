----------------------------- MODULE MCRetrieval -----------------------------
(***************************************************************************)
(* Values of Retrieval's constants for TLC: three documents of one tenant, *)
(* uploaded by two users, a legacy one of the same tenant, and one of a    *)
(* second tenant.                                                          *)
(***************************************************************************)
EXTENDS Retrieval, TLC

CONSTANTS d1, d2, d3, f1, g1, t1, t2, u1, u2, u3

MCBatches == (d1 :> 2) @@ (d2 :> 1) @@ (d3 :> 0)

Caller(t, u) == [tenant |-> t, user |-> u]
Asking  == {Caller(t1, u1), Caller(t1, u2), Caller(t1, NoUser)}
MCCallers == Asking \cup {Caller(t2, u3)}

MCOwner == (d1 :> Caller(t1, u1)) @@ (d2 :> Caller(t1, u2)) @@ (d3 :> Caller(t1, u1))
           @@ (f1 :> Caller(t2, u3)) @@ (g1 :> Caller(t1, NoUser))

MCSelections == {{}, {d2}}

(* With a budget of 5 and a reserve of 1: two chunks of d1 are too many,   *)
(* one of d1 and one of d2 just fit, and the chunks of f1 and g1 are too   *)
(* large.                                                                  *)
MCTokens == (d1 :> 3) @@ (d2 :> 1) @@ (d3 :> 0) @@ (f1 :> 5) @@ (g1 :> 5)

ServiceFault == {[k \in FaultKinds |-> IF k = "service" THEN 1 ELSE 0]}
Symmetric == Permutations(Handlers)
==============================================================================
