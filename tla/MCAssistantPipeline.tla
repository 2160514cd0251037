------------------------- MODULE MCAssistantPipeline -------------------------
(* Small instances of AssistantPipeline. *)
EXTENDS AssistantPipeline, TLC

CONSTANTS r1, r2

TwoRequests == {r1, r2}

Symmetry == Permutations(Requests)

=============================================================================
