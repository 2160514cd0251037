------------------------------ MODULE MCGateway ------------------------------
(* Gateway with a few requests and handshakes. *)
EXTENDS Gateway, TLC

CONSTANTS r1, r2, h1, h2, alice, bob

TwoRequests == {r1, r2}
TwoHandshakes == {h1, h2}

Symmetry == Permutations(Requests) \cup Permutations(Handshakes) \cup Permutations(Subjects)

=============================================================================
