------------------------------- MODULE MCForum -------------------------------
(* The forum with the members and handlers of a configuration.             *)
EXTENDS Forum, TLC

HandlerSymmetry == Permutations(Handlers)
=============================================================================
