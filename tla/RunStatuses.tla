---------------------------- MODULE RunStatuses ----------------------------
(***************************************************************************)
(* The two status vocabularies of a run (app/core/run_status.py) and the   *)
(* rule that derives a run's final status from its stages' statuses.       *)
(***************************************************************************)

\* StageStatus: what one stage's record in the manifest may say.
StageStatuses ==
  {"pending", "running", "ok", "validation_warnings", "error",
   "awaiting_review", "cancelled"}

\* RunStatus: what the manifest says of the run as a whole.
RunStatuses ==
  {"running", "ok", "warnings", "errors", "awaiting_review", "cancelled"}

\* FINISHED_STAGE_STATUSES: the stage's output frame holds what it promised.
Finished == {"ok", "validation_warnings"}

\* _final_run_status over the set of statuses the stage records carry.
FinalRunStatus(statuses) ==
  CASE "error" \in statuses                -> "errors"
    [] /\ "error" \notin statuses
       /\ "awaiting_review" \in statuses   -> "awaiting_review"
    [] /\ statuses \cap {"error", "awaiting_review"} = {}
       /\ "validation_warnings" \in statuses -> "warnings"
    [] OTHER                               -> "ok"
=============================================================================
