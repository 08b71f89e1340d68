----------------------------- MODULE RunEngine -----------------------------
(***************************************************************************)
(* One production run from prepare_run to its last resume: the executor's  *)
(* stage loop, the manifest it rewrites, the outputs it leaves on disk,    *)
(* the cancel mailbox, and the two routes that post to it from request     *)
(* threads.                                                                *)
(*                                                                         *)
(* Each execution of the run is a daemon thread of its own: execution 1 is *)
(* the one start_run launches and execution k > 1 the (k-1)th resume.  The *)
(* resume route never asks whether an earlier execution is still alive, so *)
(* several may be; MaxLive bounds how many.  Stages are named by their     *)
(* position in the topological order the executor walks.                   *)
(***************************************************************************)
EXTENDS Naturals, FiniteSets, RunStatuses

CONSTANTS
  StageCount,     \* how many stages the pinned version has
  Upstream,       \* [Stage -> SUBSET Stage]: the stages each one reads
  RowMapped,      \* stages whose handler polls for a cancel between rows
  Queues,         \* human_review_queue stages: the ones that can halt
  MaxExecutions,  \* bound: the first execution and the resumes after it
  MaxLive,        \* bound: executor threads alive at the same time
  Cancellers,     \* POST .../cancel requests, one each
  MaxDeaths,      \* bound: executor threads or whole processes that die
  MaxLosses       \* bound: output files that become unreadable

Stage == 1..StageCount
Execution == 1..MaxExecutions

\* The order is topological: a stage reads only stages before it.
ASSUME StagesAreOrdered ==
  /\ StageCount \in Nat \ {0}
  /\ Upstream \in [Stage -> SUBSET Stage]
  /\ \A s \in Stage : \A u \in Upstream[s] : u < s

ASSUME OnlyQueuesHalt == RowMapped \subseteq Stage /\ Queues \subseteq RowMapped

ASSUME BoundsAreNatural ==
  /\ MaxExecutions \in Nat \ {0}
  /\ MaxLive \in Nat
  /\ MaxDeaths \in Nat
  /\ MaxLosses \in Nat

VARIABLES
  (* The store: one manifest document, replaced whole by each write. *)
  runStatus, stageRecords, haltedAt,
  (* The run directory.  A version counts the writes of a stage's file; 0 is *)
  (* no file.  basis is what the file on disk was computed from.             *)
  disk,       \* [Stage -> Nat]
  basis,      \* [Stage -> [Stage -> Nat]]: the version of each upstream used
  lost,       \* stages whose file can no longer be read
  (* The process: cancellation._pending, for this run. *)
  mailbox,    \* a flag when non-empty; each post says which execution its
              \* sender saw running and which was the latest when it posted
  canceller,  \* [Cancellers -> ...]: a cancel request between read and post
  (* The executor threads. *)
  launched,   \* how many executions have been asked for
  pc,         \* [Execution -> where its thread is]
  at,         \* [Execution -> its position in the topological order]
  records,    \* [Execution -> its records_by_id, reduced to statuses]
  held,       \* [Execution -> its outputs_so_far, as versions; 0 is absent]
  blocked,    \* [Execution -> its blocked set]
  halted,     \* [Execution -> its halted_stage_ids]
  (* The bounds' counters. *)
  deaths, losses

storeVars == <<runStatus, stageRecords, haltedAt>>
diskVars == <<disk, basis, lost>>
cancelVars == <<mailbox, canceller>>
loopVars == <<at, records, held, blocked, halted>>
faultVars == <<deaths, losses>>
vars == <<storeVars, diskVars, cancelVars, launched, pc, loopVars, faultVars>>

Places ==
  {"unborn",     \* no such execution yet
   "requested",  \* resume accepted; its thread has not read the manifest
   "begun",      \* about to write the first `running` manifest
   "loop",       \* at the checkpoint before stage at[k], or past the last
   "running",    \* inside stage at[k]'s handler
   "written",    \* stage at[k]'s output is on disk, its record not settled
   "stopping",   \* a cancel was consumed; the last write is still to come
   "ended",      \* wrote its last manifest
   "dead"}       \* the thread or its process died

Live == {"requested", "begun", "loop", "running", "written", "stopping"}

Flags == [saw : 0..MaxExecutions, posted : Execution]

TypeOK ==
  /\ runStatus \in RunStatuses
  /\ stageRecords \in [Stage -> StageStatuses]
  /\ haltedAt \in SUBSET Stage
  /\ disk \in [Stage -> Nat]
  /\ basis \in [Stage -> [Stage -> Nat]]
  /\ lost \in SUBSET Stage
  /\ mailbox \in SUBSET Flags
  /\ canceller \in [Cancellers ->
                      [phase : {"idle", "read", "answered"}, saw : 0..MaxExecutions]]
  /\ launched \in Execution
  /\ pc \in [Execution -> Places]
  /\ at \in [Execution -> 1..(StageCount + 1)]
  /\ records \in [Execution -> [Stage -> StageStatuses]]
  /\ held \in [Execution -> [Stage -> Nat]]
  /\ blocked \in [Execution -> SUBSET Stage]
  /\ halted \in [Execution -> SUBSET Stage]
  /\ deaths \in 0..MaxDeaths
  /\ losses \in 0..MaxLosses

NothingRan == [s \in Stage |-> "pending"]
NothingHeld == [s \in Stage |-> 0]

(***************************************************************************)
(* prepare_run has stored the manifest and start_run is starting the first *)
(* execution's thread.                                                     *)
(***************************************************************************)
Init ==
  /\ runStatus = "running"
  /\ stageRecords = NothingRan
  /\ haltedAt = {}
  /\ disk = NothingHeld
  /\ basis = [s \in Stage |-> NothingHeld]
  /\ lost = {}
  /\ mailbox = {}
  /\ canceller = [c \in Cancellers |-> [phase |-> "idle", saw |-> 0]]
  /\ launched = 1
  /\ pc = [k \in Execution |-> IF k = 1 THEN "begun" ELSE "unborn"]
  /\ at = [k \in Execution |-> 1]
  /\ records = [k \in Execution |-> NothingRan]
  /\ held = [k \in Execution |-> NothingHeld]
  /\ blocked = [k \in Execution |-> {}]
  /\ halted = [k \in Execution |-> {}]
  /\ deaths = 0
  /\ losses = 0

-----------------------------------------------------------------------------
(***************************************************************************)
(* Plausible bugs.  No behaviour of the specification uses the operators   *)
(* of this section: each stands in for the definition its name begins      *)
(* with, to show that a property notices the difference.                   *)
(***************************************************************************)

\* Only `ok` counts as produced, forgetting validation_warnings.
AlreadyProducedOnlyOk(k, s) == held[k][s] > 0 /\ records[k][s] = "ok"

-----------------------------------------------------------------------------
(***************************************************************************)
(* The pieces the loop is written in.                                      *)
(***************************************************************************)

\* _flush_manifest: the execution's records, status running, no halt marker
\* (resume_run cleared the one it loaded; a first execution never had one).
Flush(recs) ==
  /\ runStatus' = "running"
  /\ stageRecords' = recs
  /\ haltedAt' = {}

\* Execution k sets stage s's record to `status` and flushes the manifest.
RecordAndFlush(k, s, status) ==
  LET recs == [records[k] EXCEPT ![s] = status] IN
  /\ records' = [records EXCEPT ![k] = recs]
  /\ Flush(recs)

BlockStage(k, s) == blocked' = [blocked EXCEPT ![k] = @ \cup {s}]

\* On to the next stage of the order.
Advance(k) ==
  /\ pc' = [pc EXCEPT ![k] = "loop"]
  /\ at' = [at EXCEPT ![k] = @ + 1]

\* _find_blocking_upstream
BlockingUpstream(k, s) == Upstream[s] \cap blocked[k]

\* _stage_output_already_produced
AlreadyProduced(k, s) == held[k][s] > 0 /\ records[k][s] \in Finished

InHand(k, s) == \A u \in Upstream[s] : held[k][u] > 0

\* The locals of the threads in `gone` vanish with them.
Forget(gone) ==
  /\ at' = [k \in Execution |-> IF k \in gone THEN 1 ELSE at[k]]
  /\ records' = [k \in Execution |-> IF k \in gone THEN NothingRan ELSE records[k]]
  /\ held' = [k \in Execution |-> IF k \in gone THEN NothingHeld ELSE held[k]]
  /\ blocked' = [k \in Execution |-> IF k \in gone THEN {} ELSE blocked[k]]
  /\ halted' = [k \in Execution |-> IF k \in gone THEN {} ELSE halted[k]]

LiveExecutions == {k \in Execution : pc[k] \in Live}

AtCheckpoint(k) == pc[k] = "loop" /\ at[k] \in Stage

\* The loop reached stage at[k] and consume_cancel found no flag.
PassedCheckpoint(k) == AtCheckpoint(k) /\ mailbox = {}

-----------------------------------------------------------------------------
(***************************************************************************)
(* Plausible bugs in the actions below, one per line of the code dropped.  *)
(***************************************************************************)

\* The checkpoint returns without _finalize_run_manifest.
StopBetweenStagesUnsettled(k) ==
  /\ AtCheckpoint(k)
  /\ mailbox # {}
  /\ mailbox' = {}
  /\ pc' = [pc EXCEPT ![k] = "ended"]
  /\ Forget({k})
  /\ UNCHANGED <<storeVars, diskVars, canceller, launched, faultVars>>

\* The stage runs before readers are told: its record is not flushed.
StartStageUnannounced(k) ==
  /\ PassedCheckpoint(k)
  /\ BlockingUpstream(k, at[k]) = {}
  /\ ~AlreadyProduced(k, at[k])
  /\ records' = [records EXCEPT ![k][at[k]] = "running"]
  /\ pc' = [pc EXCEPT ![k] = "running"]
  /\ UNCHANGED <<storeVars, diskVars, cancelVars, launched, at, held, blocked,
                 halted, faultVars>>

\* A failed stage does not join the blocked set.
FailStageUnblocked(k) ==
  /\ pc[k] = "running"
  /\ RecordAndFlush(k, at[k], "error")
  /\ Advance(k)
  /\ UNCHANGED <<diskVars, cancelVars, launched, held, blocked, halted, faultVars>>

\* The output is kept in memory and its file never written.
WriteOutputInMemoryOnly(k) ==
  /\ pc[k] = "running"
  /\ InHand(k, at[k])
  /\ held' = [held EXCEPT ![k][at[k]] = 1]
  /\ pc' = [pc EXCEPT ![k] = "written"]
  /\ UNCHANGED <<storeVars, diskVars, cancelVars, launched, at, records, blocked,
                 halted, faultVars>>

\* A cancelled run keeps the halts it met before the cancel.
SettleCancelledKeepsHalt(k) ==
  /\ pc[k] = "stopping"
  /\ runStatus' = "cancelled"
  /\ stageRecords' = records[k]
  /\ haltedAt' = halted[k]
  /\ pc' = [pc EXCEPT ![k] = "ended"]
  /\ Forget({k})
  /\ UNCHANGED <<diskVars, cancelVars, launched, faultVars>>

\* The resume route does not discard a pending cancel.
RequestResumeKeepsCancel(k) ==
  /\ k = launched + 1
  /\ Cardinality(LiveExecutions) < MaxLive
  /\ launched' = k
  /\ pc' = [pc EXCEPT ![k] = "requested"]
  /\ UNCHANGED <<storeVars, diskVars, cancelVars, loopVars, faultVars>>

-----------------------------------------------------------------------------
(***************************************************************************)
(* The stage loop: _run_ordered_stages and _run_stage.                     *)
(***************************************************************************)

Begin(k) ==
  /\ pc[k] = "begun"
  /\ pc' = [pc EXCEPT ![k] = "loop"]
  /\ at' = [at EXCEPT ![k] = 1]
  /\ Flush(records[k])
  /\ UNCHANGED <<diskVars, cancelVars, launched, records, held, blocked,
                 halted, faultVars>>

\* The between-stage checkpoint consumes the flag; no record is written.
StopBetweenStages(k) ==
  /\ AtCheckpoint(k)
  /\ mailbox # {}
  /\ mailbox' = {}
  /\ pc' = [pc EXCEPT ![k] = "stopping"]
  /\ UNCHANGED <<storeVars, diskVars, canceller, launched, loopVars, faultVars>>

\* An input's producer errored, halted or is itself blocked.  The stage goes
\* back to pending and drops the output it may have had, so that no stage
\* below it, and no resume, can read it.
SkipBlocked(k) ==
  LET s == at[k] IN
  /\ PassedCheckpoint(k)
  /\ BlockingUpstream(k, s) # {}
  /\ RecordAndFlush(k, s, "pending")
  /\ BlockStage(k, s)
  /\ held' = [held EXCEPT ![k][s] = 0]
  /\ Advance(k)
  /\ UNCHANGED <<diskVars, cancelVars, launched, halted, faultVars>>

\* A resume passes over a stage an earlier execution finished.
SkipProduced(k) ==
  /\ PassedCheckpoint(k)
  /\ BlockingUpstream(k, at[k]) = {}
  /\ AlreadyProduced(k, at[k])
  /\ Advance(k)
  /\ UNCHANGED <<storeVars, diskVars, cancelVars, launched, records, held,
                 blocked, halted, faultVars>>

StartStage(k) ==
  LET s == at[k] IN
  /\ PassedCheckpoint(k)
  /\ BlockingUpstream(k, s) = {}
  /\ ~AlreadyProduced(k, s)
  /\ RecordAndFlush(k, s, "running")
  /\ pc' = [pc EXCEPT ![k] = "running"]
  /\ UNCHANGED <<diskVars, cancelVars, launched, at, held, blocked, halted,
                 faultVars>>

\* The handler's progress reporter rewrites the manifest while it runs.
ReportProgress(k) ==
  /\ pc[k] = "running"
  /\ Flush(records[k])
  /\ UNCHANGED <<diskVars, cancelVars, launched, pc, loopVars, faultVars>>

\* The row driver's own checkpoint: RunCancelled unwinds out of the handler.
StopMidStage(k) ==
  /\ pc[k] = "running"
  /\ at[k] \in RowMapped
  /\ mailbox # {}
  /\ mailbox' = {}
  /\ RecordAndFlush(k, at[k], "cancelled")
  /\ pc' = [pc EXCEPT ![k] = "stopping"]
  /\ UNCHANGED <<diskVars, canceller, launched, at, held, blocked, halted,
                 faultVars>>

\* Anything raised before the output is written: a missing input, the handler,
\* the lineage sidecar, the file write.
FailStage(k) ==
  /\ pc[k] = "running"
  /\ RecordAndFlush(k, at[k], "error")
  /\ BlockStage(k, at[k])
  /\ Advance(k)
  /\ UNCHANGED <<diskVars, cancelVars, launched, held, halted, faultVars>>

\* A queue stage with undecided rows.
HaltStage(k) ==
  /\ pc[k] = "running"
  /\ at[k] \in Queues
  /\ InHand(k, at[k])
  /\ RecordAndFlush(k, at[k], "awaiting_review")
  /\ BlockStage(k, at[k])
  /\ halted' = [halted EXCEPT ![k] = @ \cup {at[k]}]
  /\ Advance(k)
  /\ UNCHANGED <<diskVars, cancelVars, launched, held, faultVars>>

\* _persist_stage_output, then outputs_so_far[sid] = table.
WriteOutput(k) ==
  LET s == at[k]
      version == disk[s] + 1 IN
  /\ pc[k] = "running"
  /\ InHand(k, s)
  /\ disk' = [disk EXCEPT ![s] = version]
  /\ basis' = [basis EXCEPT ![s] =
                 [u \in Stage |-> IF u \in Upstream[s] THEN held[k][u] ELSE 0]]
  /\ lost' = lost \ {s}
  /\ held' = [held EXCEPT ![k][s] = version]
  /\ pc' = [pc EXCEPT ![k] = "written"]
  /\ UNCHANGED <<storeVars, cancelVars, launched, at, records, blocked, halted,
                 faultVars>>

\* The output satisfies its schema.  A warning is an INPUT that did not
\* satisfy its own, so a stage with no inputs never warns.
FinishStage(k, status) ==
  /\ pc[k] = "written"
  /\ status = "validation_warnings" => Upstream[at[k]] # {}
  /\ RecordAndFlush(k, at[k], status)
  /\ Advance(k)
  /\ UNCHANGED <<diskVars, cancelVars, launched, held, blocked, halted, faultVars>>

\* The output is on disk but refused: failed rows, its schema, or saving it
\* as a workflow output raised.
RefuseOutput(k) ==
  /\ pc[k] = "written"
  /\ RecordAndFlush(k, at[k], "error")
  /\ BlockStage(k, at[k])
  /\ Advance(k)
  /\ UNCHANGED <<diskVars, cancelVars, launched, held, halted, faultVars>>

\* _finalize_run_manifest for an execution that walked every stage.
Settle(k) ==
  /\ pc[k] = "loop"
  /\ at[k] = StageCount + 1
  /\ runStatus' = FinalRunStatus({records[k][s] : s \in Stage})
  /\ stageRecords' = records[k]
  /\ haltedAt' = halted[k]
  /\ pc' = [pc EXCEPT ![k] = "ended"]
  /\ Forget({k})
  /\ UNCHANGED <<diskVars, cancelVars, launched, faultVars>>

\* _finalize_run_manifest for an execution a cancel stopped.
SettleCancelled(k) ==
  /\ pc[k] = "stopping"
  /\ runStatus' = "cancelled"
  /\ stageRecords' = records[k]
  /\ haltedAt' = {}
  /\ pc' = [pc EXCEPT ![k] = "ended"]
  /\ Forget({k})
  /\ UNCHANGED <<diskVars, cancelVars, launched, faultVars>>

-----------------------------------------------------------------------------
(***************************************************************************)
(* The resume route, services.run.resume and runner.resume_run.            *)
(***************************************************************************)

\* The route discards a pending cancel and starts a thread.  It reads the
\* manifest for the pinned version only, never for its status.
RequestResume(k) ==
  /\ k = launched + 1
  /\ Cardinality(LiveExecutions) < MaxLive
  /\ launched' = k
  /\ mailbox' = {}
  /\ pc' = [pc EXCEPT ![k] = "requested"]
  /\ UNCHANGED <<storeVars, diskVars, canceller, loopVars, faultVars>>

\* The pinned version does not load: a 400, after the discard.
RefuseResume ==
  /\ mailbox' = {}
  /\ UNCHANGED <<storeVars, diskVars, canceller, launched, pc, loopVars, faultVars>>

\* resume_run's thread reads the manifest and reloads what it can of the
\* finished stages' outputs; one that cannot be read counts as not produced.
LoadManifest(k) ==
  /\ pc[k] = "requested"
  /\ pc' = [pc EXCEPT ![k] = "begun"]
  /\ records' = [records EXCEPT ![k] = stageRecords]
  /\ held' = [held EXCEPT ![k] =
                [s \in Stage |-> IF stageRecords[s] \in Finished /\ s \notin lost
                                 THEN disk[s] ELSE 0]]
  /\ UNCHANGED <<storeVars, diskVars, cancelVars, launched, at, blocked,
                 halted, faultVars>>

-----------------------------------------------------------------------------
(***************************************************************************)
(* The cancel route: it reads the manifest's status and posts only if that *)
(* said running.  Routes run on a thread pool, so the run may move on      *)
(* between the two.                                                        *)
(***************************************************************************)

ReadForCancel(c) ==
  /\ canceller[c].phase = "idle"
  /\ canceller' = [canceller EXCEPT ![c] =
                     [phase |-> IF runStatus = "running" THEN "read" ELSE "answered",
                      saw |-> launched]]
  /\ UNCHANGED <<storeVars, diskVars, mailbox, launched, pc, loopVars, faultVars>>

PostCancel(c) ==
  /\ canceller[c].phase = "read"
  /\ canceller' = [canceller EXCEPT ![c].phase = "answered"]
  /\ mailbox' = mailbox \cup {[saw |-> canceller[c].saw, posted |-> launched]}
  /\ UNCHANGED <<storeVars, diskVars, launched, pc, loopVars, faultVars>>

-----------------------------------------------------------------------------
(***************************************************************************)
(* What may go wrong around the executor.                                  *)
(***************************************************************************)

\* A manifest write raises: run_in_background prints the traceback and the
\* thread is gone, leaving the manifest as the last write left it.
Die(k) ==
  /\ pc[k] \in Live
  /\ deaths < MaxDeaths
  /\ deaths' = deaths + 1
  /\ pc' = [pc EXCEPT ![k] = "dead"]
  /\ Forget({k})
  /\ UNCHANGED <<storeVars, diskVars, cancelVars, launched, losses>>

\* The server restarts: every thread, every request in flight and the mailbox
\* go; the store and the run directory stay.
Crash ==
  /\ LiveExecutions # {}
  /\ deaths < MaxDeaths
  /\ deaths' = deaths + 1
  /\ pc' = [k \in Execution |-> IF pc[k] \in Live THEN "dead" ELSE pc[k]]
  /\ Forget(LiveExecutions)
  /\ mailbox' = {}
  /\ canceller' = [c \in Cancellers |->
                     IF canceller[c].phase = "read"
                     THEN [canceller[c] EXCEPT !.phase = "answered"]
                     ELSE canceller[c]]
  /\ UNCHANGED <<storeVars, diskVars, launched, losses>>

\* An output file goes missing or stops being readable.
LoseOutput(s) ==
  /\ disk[s] > 0
  /\ s \notin lost
  /\ losses < MaxLosses
  /\ losses' = losses + 1
  /\ lost' = lost \cup {s}
  /\ UNCHANGED <<storeVars, disk, basis, cancelVars, launched, pc, loopVars, deaths>>

-----------------------------------------------------------------------------
\* What execution k's thread does next, its progress writes aside.
Step(k) ==
  \/ LoadManifest(k)
  \/ Begin(k)
  \/ StopBetweenStages(k)
  \/ SkipBlocked(k)
  \/ SkipProduced(k)
  \/ StartStage(k)
  \/ StopMidStage(k)
  \/ FailStage(k)
  \/ HaltStage(k)
  \/ WriteOutput(k)
  \/ \E status \in Finished : FinishStage(k, status)
  \/ RefuseOutput(k)
  \/ Settle(k)
  \/ SettleCancelled(k)

Next ==
  \/ \E k \in Execution : Step(k) \/ ReportProgress(k) \/ RequestResume(k) \/ Die(k)
  \/ RefuseResume
  \/ \E c \in Cancellers : ReadForCancel(c) \/ PostCancel(c)
  \/ Crash
  \/ \E s \in Stage : LoseOutput(s)

\* A thread keeps running and every handler returns: a model call has its own
\* timeout, and the other handlers are local computation.
Fairness == \A k \in Execution : WF_vars(Step(k))

Spec == Init /\ [][Next]_vars
FairSpec == Spec /\ Fairness

-----------------------------------------------------------------------------
(***************************************************************************)
(* Safety.                                                                 *)
(***************************************************************************)

Promise == INSTANCE RunRecord

\* While one executor at a time is alive, each manifest follows from the one
\* before as RunRecord promises its readers: records change one stage at a time
\* and only while the run says running, a stage starts after all it reads has
\* finished, a verdict follows the stage's own start, a finished stage runs
\* again only if its output is lost, and a settled run is left by a resume
\* alone, which keeps every record.
RecordKeepsItsPromise == Promise!Spec

\* A settled run says which stage held up each stage it left pending: the
\* claim of _final_run_status, "a `pending` stage only exists downstream of
\* an errored/halted one, so it needs no branch".
SettledRunIsExplained ==
  runStatus \notin {"running", "cancelled"} =>
    /\ Promise!Explained(stageRecords)
    /\ runStatus = FinalRunStatus({stageRecords[s] : s \in Stage})

\* halted_at names exactly the stages a settled run waits on, and never
\* survives into a manifest that says running or cancelled: the run page
\* draws its review banner from it (runner.py, "Drop the halt marker").
HaltMarkIsExact ==
  haltedAt = IF runStatus \in {"running", "cancelled"}
             THEN {} ELSE Promise!HaltedStages(stageRecords)

\* A record that says finished has an output file behind it, whatever died
\* between the write of the one and the write of the other.
FinishedHasOutput ==
  \A s \in Stage : stageRecords[s] \in Finished => disk[s] > 0

\* A stage starts only with every input in memory, so the RuntimeError
\* _gather_stage_inputs raises for a missing one is never reached.
StartsWithItsInputs ==
  \A k \in Execution : pc[k] = "running" => InHand(k, at[k])

\* While no output file was lost, every finished stage's output was computed
\* from the outputs its upstream stages have on disk now.
OutputsAgree ==
  losses = 0 =>
    \A s \in Stage : stageRecords[s] \in Finished =>
      \A u \in Upstream[s] : basis[s][u] = disk[u]

-----------------------------------------------------------------------------
(***************************************************************************)
(* The inductive invariant behind the safety properties: what an           *)
(* execution's locals say of the stages it has passed.                     *)
(***************************************************************************)

Passed(k) == {s \in Stage : s < at[k]}

\* Every passed stage has a verdict, and blocked, halted_stage_ids and
\* outputs_so_far are exactly the ones those verdicts call for.
BooksAgree(k) ==
  /\ \A s \in Passed(k) : records[k][s] \notin {"running", "cancelled"}
  /\ \A s \in Passed(k) :
       records[k][s] = "pending" <=> \E u \in Upstream[s] : records[k][u] \notin Finished
  /\ blocked[k] = {s \in Passed(k) : records[k][s] \notin Finished}
  /\ halted[k] = {s \in Passed(k) : records[k][s] = "awaiting_review"}
  /\ \A s \in Passed(k) : records[k][s] \in Finished => held[k][s] > 0

ExecutionInv(k) ==
  /\ k > launched => pc[k] = "unborn"
  /\ pc[k] \in {"unborn", "requested", "begun"} => blocked[k] = {} /\ halted[k] = {}
  /\ pc[k] \in {"loop", "running", "written"} => BooksAgree(k)
  /\ pc[k] \in {"running", "written"} => at[k] \in Stage /\ BlockingUpstream(k, at[k]) = {}
  /\ pc[k] = "written" => disk[at[k]] > 0 /\ held[k][at[k]] > 0
  /\ \A s \in Stage : records[k][s] \in Finished => disk[s] > 0

\* Every execution's locals tell the same story of the stages it passed as
\* the records it will store, and a pending cancel was posted to the latest.
EngineInv ==
  /\ \A k \in Execution : ExecutionInv(k)
  /\ \A f \in mailbox : f.posted = launched
  /\ FinishedHasOutput
  /\ HaltMarkIsExact
  /\ SettledRunIsExplained

(***************************************************************************)
(* What OutputsAgree needs: one executor at a time, which then owns the    *)
(* manifest and the files, and agrees with both.                           *)
(***************************************************************************)

Alone == \A j, k \in LiveExecutions : j = k

\* What some records say is finished has finished inputs, of which it was
\* computed as they are on disk.
AgreesWithDisk(recs) ==
  \A s \in Stage : recs[s] \in Finished =>
    \A u \in Upstream[s] : recs[u] \in Finished /\ basis[s][u] = disk[u]

\* An execution knows of every finished stage of the manifest, and holds its
\* output as it is on disk; the output it has just written is of the inputs on
\* disk.
LocalsAgree(k) ==
  /\ AgreesWithDisk(records[k])
  /\ \A s \in Stage : stageRecords[s] \in Finished => records[k][s] \in Finished
  /\ \A s \in Stage : records[k][s] \in Finished => held[k][s] = disk[s]
  /\ pc[k] \in {"running", "written"} => records[k][at[k]] = "running"
  /\ pc[k] = "written" =>
       /\ held[k][at[k]] = disk[at[k]]
       /\ \A u \in Upstream[at[k]] : basis[at[k]][u] = disk[u]

FilesAgree ==
  /\ lost = {}
  /\ AgreesWithDisk(stageRecords)
  /\ \A k \in LiveExecutions : pc[k] # "requested" => LocalsAgree(k)

LoneExecutorInv == Alone /\ (losses = 0 => FilesAgree)

(***************************************************************************)
(* What RecordKeepsItsPromise needs: one executor at a time, which then    *)
(* writes from records that are the manifest's own.                        *)
(***************************************************************************)

\* A finished stage whose output the execution does not hold has lost it.
HoldsWhatIsLeft(k) ==
  \A s \in Stage : records[k][s] \in Finished /\ held[k][s] = 0 => s \in lost

WritesAlone(k) ==
  /\ records[k] = stageRecords
  /\ pc[k] # "begun" => runStatus = "running" /\ haltedAt = {}
  /\ pc[k] \in {"running", "written"} => stageRecords[at[k]] = "running"
  /\ HoldsWhatIsLeft(k)

LoneWriterInv ==
  Alone /\ \A k \in LiveExecutions : pc[k] # "requested" => WritesAlone(k)

(***************************************************************************)
(* What a step may never do.                                               *)
(***************************************************************************)

StopsFor(k) == pc[k] # "stopping" /\ pc'[k] = "stopping"

\* No execution is stopped by a cancel posted before its own resume was asked
\* for (test_restarting_drops_a_cancel_the_dead_executor_never_read).
StoppedByALaterPost ==
  [][\A k \in Execution : StopsFor(k) => \A f \in mailbox : f.posted >= k]_vars

\* A cancel stops the execution its sender saw running, as discard_cancel's
\* docstring says: "A resume must not be stopped at its first checkpoint by a
\* cancel aimed at the last."
StoppedByItsOwnCancel ==
  [][\A k \in Execution : StopsFor(k) => \A f \in mailbox : f.saw >= k]_vars

(***************************************************************************)
(* Liveness.                                                               *)
(***************************************************************************)

\* An execution that does not die stops being live, and the manifest it
\* leaves settled: it does not go on saying running.
EveryExecutionSettles ==
  \A k \in Execution :
    pc[k] \in Live ~> \/ pc[k] = "dead"
                      \/ pc[k] = "ended" /\ runStatus # "running"
=============================================================================
