---------------------------- MODULE MCConversation ----------------------------
(* Instances of Conversation for TLC: two answers, of up to three and of up   *)
(* to two blocks.                                                             *)
EXTENDS Conversation

TwoAnswers == <<3, 2>>
===============================================================================
