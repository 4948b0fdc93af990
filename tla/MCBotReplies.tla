---------------------------- MODULE MCBotReplies ----------------------------
(* Instances of BotReplies for TLC.  Messages and processes are alike.     *)
EXTENDS BotReplies, TLC

Symmetry == Permutations(Jobs) \cup Permutations(Workers)
===============================================================================
