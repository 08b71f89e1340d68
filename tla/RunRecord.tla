----------------------------- MODULE RunRecord -----------------------------
(***************************************************************************)
(* What the stored run manifest promises to everyone who reads it while    *)
(* one executor at a time writes it: the run page, its status poll, the    *)
(* review queue, the evals.  Readers see one document per run, replaced    *)
(* whole by each write, and never the executor's memory; what they may     *)
(* count on is which document can follow which.                            *)
(***************************************************************************)
EXTENDS RunStatuses

CONSTANTS
  Stage,     \* the stages of the pinned workflow version
  Upstream   \* [Stage -> SUBSET Stage]: the stages each one reads

VARIABLES
  runStatus,     \* manifest.status
  stageRecords,  \* manifest.stage_records, reduced to each record's status
  haltedAt,      \* manifest.halted_at; {} is the absent field
  lost           \* stages whose output cannot be read: the disk's doing, not
                 \* the manifest's, so nothing here says how it changes

recordVars == <<runStatus, stageRecords, haltedAt>>

HaltedStages(records) == {s \in Stage : records[s] = "awaiting_review"}

\* A settled run accounts for every stage: it was reached, and it is left
\* pending exactly when a stage it reads did not finish.
Explained(records) ==
  \A s \in Stage :
    /\ records[s] \notin {"running", "cancelled"}
    /\ records[s] = "pending" <=> \E u \in Upstream[s] : records[u] \notin Finished

\* prepare_run stores the manifest before anything executes.
Init ==
  /\ runStatus = "running"
  /\ stageRecords = [s \in Stage |-> "pending"]
  /\ haltedAt = {}

\* A resume takes the run up again: its records stay, its halts do not.
Reopen ==
  /\ runStatus' = "running"
  /\ haltedAt' = {}
  /\ UNCHANGED stageRecords

\* Only a running manifest changes its records, and one stage at a time.
Turn(s, status) ==
  /\ runStatus = "running"
  /\ stageRecords' = [stageRecords EXCEPT ![s] = status]
  /\ UNCHANGED <<runStatus, haltedAt>>

\* A stage starts when all it reads has finished, and a finished one starts
\* again only when its output is lost: what was paid for is kept.
Start(s) ==
  /\ \A u \in Upstream[s] : stageRecords[u] \in Finished
  /\ stageRecords[s] \in Finished => s \in lost
  /\ Turn(s, "running")

\* A verdict is given on a stage readers have been told is running.
Conclude(s) ==
  /\ stageRecords[s] = "running"
  /\ \E status \in Finished \cup {"error", "awaiting_review", "cancelled"} :
       Turn(s, status)

\* A stage goes back to pending below one that will not finish this time.
PutBack(s) ==
  /\ \E u \in Upstream[s] : stageRecords[u] \in {"pending", "error", "awaiting_review"}
  /\ Turn(s, "pending")

\* An execution that walked every stage: the record explains itself.
Settle ==
  /\ runStatus = "running"
  /\ Explained(stageRecords)
  /\ runStatus' = FinalRunStatus({stageRecords[s] : s \in Stage})
  /\ haltedAt' = HaltedStages(stageRecords)
  /\ UNCHANGED stageRecords

\* An execution a cancel stopped: its halts, if any, are not announced.
Stop ==
  /\ runStatus = "running"
  /\ runStatus' = "cancelled"
  /\ UNCHANGED <<stageRecords, haltedAt>>

Next ==
  \/ Reopen \/ Settle \/ Stop
  \/ \E s \in Stage : Start(s) \/ Conclude(s) \/ PutBack(s)

Spec == Init /\ [][Next]_recordVars
=============================================================================
