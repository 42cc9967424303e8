---------------------------- MODULE MCChatMessages ----------------------------
(* ChatMessages for two people, the first of whom types all texts.          *)
EXTENDS ChatMessages

MCAuthor == [t \in Texts |-> 1]

=============================================================================
