------------------------- MODULE MCConversationPage -------------------------
(* Instances of ConversationPage for TLC. *)
EXTENDS ConversationPage

CONSTANTS c1, c2, c3

\* The list is full: one more conversation makes it drop the oldest.
MCIndex == << [id |-> c1, title |-> "named"], [id |-> c2, title |-> "untitled"] >>

=============================================================================
