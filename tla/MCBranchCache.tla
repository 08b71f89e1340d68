---------------------------- MODULE MCBranchCache ----------------------------
(* Nothing tells one thread from another, one stage or one number of rows. *)
EXTENDS BranchCache, TLC

Alike == Permutations(Thread) \cup Permutations(StageId) \cup Permutations(Rows)
=============================================================================
