--------------------------- MODULE MCProjectFiles ---------------------------
(* Nothing tells one file, or one thread, from another. *)
EXTENDS ProjectFiles, TLC

Alike == Permutations(FileId) \cup Permutations(RequestThread)
=============================================================================
