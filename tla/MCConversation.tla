--------------------------- MODULE MCConversation ---------------------------
(* Instances of Conversation for TLC.                                        *)
EXTENDS Conversation, TLC

CONSTANTS s1, s2, p1

TwoStorers == {s1, s2}
OnePrompter == {p1}
=============================================================================
