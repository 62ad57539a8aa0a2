------------------------- MODULE MCClarificationLoop -------------------------
(* ClarificationLoop and Handoff for TLC: requests that leave up to two more facts open. *)
EXTENDS Handoff

OpenedSets == {S \in SUBSET Asked : Cardinality(S) <= 2}
==============================================================================
