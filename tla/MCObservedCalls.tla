--------------------------- MODULE MCObservedCalls --------------------------
(* Instances of ObservedCalls for TLC. *)
EXTENDS ObservedCalls, TLC

CONSTANTS priced, odd, web, socket

\* Every call reads one token and writes one.
MCUsage == {[input_tokens |-> 1, output_tokens |-> 1]}

\* One model is priced, at half a microdollar for an input token, so that
\* rounding happens; the other has no price, and its name is prose.
MCPrice == [m \in {priced} |-> [input |-> 50, output |-> 275]]

\* The page's request may call twice, each of the socket's questions once.
MCCalls == (web :> 2) @@ (socket :> 1)

=============================================================================
