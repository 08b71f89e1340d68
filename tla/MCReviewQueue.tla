--------------------------- MODULE MCReviewQueue ---------------------------
(***************************************************************************)
(* Reviewers who differ in nothing but who they are.                       *)
(***************************************************************************)
EXTENDS ReviewQueue, TLC

AlikeReviewers == Permutations(Reviewer)
=============================================================================
