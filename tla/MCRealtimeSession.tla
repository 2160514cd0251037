-------------------------- MODULE MCRealtimeSession --------------------------
(* RealtimeSession with two connections. *)
EXTENDS RealtimeSession, TLC

CONSTANTS s1, s2

TwoSockets == {s1, s2}

\* Connections are interchangeable; used by the safety run only.
Symmetry == Permutations(Sockets)

=============================================================================
