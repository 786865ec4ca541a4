--------------------------- MODULE MCSessionStore ---------------------------
(***************************************************************************)
(* Values of SessionStore's constants for TLC: alice owns session s1, bob  *)
(* s2; q4 and c2 are bob's requests, c1 is one of an API key.              *)
(***************************************************************************)
EXTENDS SessionStore, TLC

CONSTANTS s1, s2, q1, q2, q3, q4, c1, c2, alice, bob

MCOwner  == [s \in Sessions |-> IF s = s1 THEN alice ELSE bob]
MCCaller == [r \in Requests |-> IF r \in {q4, c2} THEN bob
                                ELSE IF r = c1 THEN NoUser ELSE alice]
OnlyAlice == [r \in Requests |-> alice]

(* A whole turn fits a budget of 3, two cut-off turns do not.              *)
MCTokens == [question |-> 1, text |-> 2, partial |-> 1, empty |-> 0]

TextOrNone   == {"text", "empty"}
LlmWorks     == {"text"}

(* Only q4 is not of alice.                                                *)
Symmetric    == Permutations(Queries \ {q4})
==============================================================================
