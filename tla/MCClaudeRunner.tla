--------------------------- MODULE MCClaudeRunner ---------------------------
(* ClaudeRunner for TLC: the calls are interchangeable. *)
EXTENDS ClaudeRunner, TLC

CallSymmetry == Permutations(Calls)
=============================================================================
