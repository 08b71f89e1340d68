----------------------------- MODULE RowDriver -----------------------------
(***************************************************************************)
(* The row driver of a row-mapped stage (app/runtime/stages/execution.py): *)
(* the cache lookup, the grouping, the fan-out over a thread pool or the   *)
(* serial loop, the recording of each answer, the cancel checkpoints, and  *)
(* the unwinding that joins what is already in flight.                     *)
(*                                                                         *)
(* An attempt is one execution of the stage: by a run, by a resume of it,  *)
(* or by a later run of the project, which share one cache.  Attempts over *)
(* the same input rows follow one another.                                 *)
(***************************************************************************)
EXTENDS Naturals, FiniteSets, FiniteSetsExt

CONSTANTS
  RowCount,      \* rows of the input frame
  Fingerprint,   \* [Row -> Key]: compute_row_fingerprint of the narrowed row
  Key,
  Shapes,        \* the handlers to consider; see ShapesAreShapes
  MaxAttempts,   \* bound: executions of the stage
  MaxCancels,    \* bound: cancels posted
  MaxFaults      \* bound: crashes of the process and failed cache writes

Row == 1..RowCount

\* parallelism and groupSize are the handler's; caching is what
\* _open_row_caching opens: "off", "read_only" (a test run's cache),
\* "refresh" (bust_cache: nothing is replayed) or "read_write".  kinds is what
\* the mapper can make of a row: an answer, a failed row, a dropped row.
ASSUME ShapesAreShapes ==
  /\ RowCount \in Nat \ {0}
  /\ Fingerprint \in [Row -> Key]
  /\ Shapes \subseteq [parallelism : Nat \ {0}, groupSize : Nat \ {0},
                       caching : {"off", "read_only", "refresh", "read_write"},
                       kinds : SUBSET {"answer", "error", "drop"}]

ASSUME DriverBounds == MaxAttempts \in Nat /\ MaxCancels \in Nat /\ MaxFaults \in Nat

VARIABLES
  shape,      \* the stage's handler, fixed from the start
  cache,      \* [Key -> what is recorded]; NoAnswer is no entry
  attempt,    \* how many executions began
  main,       \* where the executor's thread is
  exit,       \* how the last execution left
  pending,    \* the rows the cache left to compute
  group,      \* [Row -> the state of the group of that number]
  answered,   \* [Row -> what a worker's call made of the row, not yet placed]
  toRecord,   \* [Row -> rows of that group its worker still has to record]
  results,    \* [Row -> the row's result slot]
  completed,  \* what the progress reporter was told last
  flag,       \* a cancel is pending for the run
  paid,       \* [Key -> answers the mapper computed for it]
  cancels, faults

poolVars == <<group, answered, toRecord>>
boundVars == <<cancels, faults>>
vars == <<shape, cache, attempt, main, exit, pending, poolVars, results, completed,
          flag, paid, boundVars>>

Answer == [by : 1..MaxAttempts, of : Row, kind : {"answer", "error", "drop"}]
NoAnswer == [by |-> 0, of |-> 0, kind |-> "none"]

TypeOK ==
  /\ shape \in Shapes
  /\ cache \in [Key -> Answer \cup {NoAnswer}]
  /\ attempt \in 0..MaxAttempts
  /\ main \in {"outside", "driving", "unwinding", "joining"}
  /\ exit \in {"none", "whole", "cancelled", "raised", "crashed"}
  /\ pending \in SUBSET Row
  /\ group \in [Row -> {"none", "queued", "mapping", "recording", "done", "raised",
                        "placed", "dropped"}]
  /\ answered \in [Row -> Answer \cup {NoAnswer}]
  /\ toRecord \in [Row -> SUBSET Row]
  /\ results \in [Row -> Answer \cup {NoAnswer}]
  /\ completed \in 0..RowCount
  /\ flag \in BOOLEAN
  /\ paid \in [Key -> Nat]
  /\ cancels \in 0..MaxCancels
  /\ faults \in 0..MaxFaults

NothingAnswered == [r \in Row |-> NoAnswer]

Init ==
  /\ shape \in Shapes
  /\ cache = [f \in Key |-> NoAnswer]
  /\ attempt = 0
  /\ main = "outside"
  /\ exit = "none"
  /\ pending = {}
  /\ group = [r \in Row |-> "none"]
  /\ answered = NothingAnswered
  /\ toRecord = [r \in Row |-> {}]
  /\ results = NothingAnswered
  /\ completed = 0
  /\ flag = FALSE
  /\ paid = [f \in Key |-> 0]
  /\ cancels = 0
  /\ faults = 0

-----------------------------------------------------------------------------
(***************************************************************************)
(* Groups and the pool.                                                    *)
(***************************************************************************)

\* The rank of a pending row among the pending rows, from 1.
Rank(r, rows) == Cardinality({q \in rows : q <= r})

\* _split_into_groups: consecutive pending rows, groupSize at a time.
GroupRows(g, rows) ==
  {r \in rows : /\ (g - 1) * shape.groupSize < Rank(r, rows)
                /\ Rank(r, rows) <= g * shape.groupSize}

GroupsIn(states) == {g \in Row : group[g] \in states}

InFlight == GroupsIn({"mapping", "recording"})

GroupCount == Cardinality({g \in Row : group[g] # "none"})

\* The pool is used only when it has two groups to run side by side.
Pooled == shape.parallelism > 1 /\ GroupCount > 1

Workers == IF Pooled THEN shape.parallelism ELSE 1

\* Submission order is the order the pool's queue is served in.
NextQueued == Min(GroupsIn({"queued"}))

Replays == shape.caching \in {"read_only", "read_write"}
Records == shape.caching \in {"refresh", "read_write"}

-----------------------------------------------------------------------------
(***************************************************************************)
(* Plausible bugs.  No behaviour of the specification uses the operators   *)
(* of this section: each stands in for the definition its name begins      *)
(* with, to show that a property notices the difference.                   *)
(***************************************************************************)

\* Results are placed in the order groups complete, not by row.
PlaceGroupByCompletion(g) ==
  LET rows == GroupRows(g, pending)
      free == {r \in pending : results[r] = NoAnswer}
      slots == {r \in free : Rank(r, free) <= Cardinality(rows)} IN
  /\ main = "driving"
  /\ group[g] = "done"
  /\ Pooled => ~flag
  /\ group' = [group EXCEPT ![g] = "placed"]
  /\ results' = [r \in Row |->
                   IF r \in slots
                   THEN answered[CHOOSE q \in rows : Rank(q, rows) = Rank(r, slots)]
                   ELSE results[r]]
  /\ completed' = completed + Cardinality(rows)
  /\ UNCHANGED <<shape, cache, attempt, main, exit, pending, answered, toRecord, flag,
                 paid, boundVars>>

\* The stage leaves while its workers are still at work.
LeaveWithoutJoining ==
  /\ main = "joining"
  /\ main' = "outside"
  /\ UNCHANGED <<shape, cache, attempt, exit, pending, poolVars, results, completed,
                 flag, paid, boundVars>>

\* The stage waits for every group, the ones it dropped too.
LeaveAfterEveryGroup ==
  /\ main = "joining"
  /\ GroupsIn({"mapping", "recording", "dropped"}) = {}
  /\ main' = "outside"
  /\ UNCHANGED <<shape, cache, attempt, exit, pending, poolVars, results, completed,
                 flag, paid, boundVars>>

-----------------------------------------------------------------------------
(***************************************************************************)
(* The executor's thread.                                                  *)
(***************************************************************************)

\* _run_row_mapper up to the fan-out: recorded rows are answered before the
\* grouping and are never dispatched.  The checkpoint before the stage found
\* no cancel.
Open ==
  LET hits == {r \in Row : Replays /\ cache[Fingerprint[r]] # NoAnswer} IN
  /\ main = "outside"
  /\ attempt < MaxAttempts
  /\ ~flag
  /\ attempt' = attempt + 1
  /\ main' = "driving"
  /\ exit' = "none"
  /\ pending' = Row \ hits
  /\ group' = [g \in Row |-> IF GroupRows(g, Row \ hits) = {} THEN "none" ELSE "queued"]
  /\ answered' = NothingAnswered
  /\ toRecord' = [g \in Row |-> {}]
  /\ results' = [r \in Row |-> IF r \in hits THEN cache[Fingerprint[r]] ELSE NoAnswer]
  /\ completed' = Cardinality(hits)
  /\ UNCHANGED <<shape, cache, flag, paid, boundVars>>

\* The thread has something to look at: a completed future, or, in the serial
\* loop, the next group.
AtCheckpoint ==
  IF Pooled THEN GroupsIn({"done", "raised"}) # {}
            ELSE GroupsIn({"mapping", "recording", "done", "raised"}) = {}
                 /\ GroupsIn({"queued"}) # {}

\* consume_cancel said yes: RunCancelled.
TakeCancel ==
  /\ main = "driving"
  /\ AtCheckpoint
  /\ flag
  /\ flag' = FALSE
  /\ main' = "unwinding"
  /\ exit' = "cancelled"
  /\ UNCHANGED <<shape, cache, attempt, pending, poolVars, results, completed, paid,
                 boundVars>>

\* _place_group and the progress report.  Only the pool checks for a cancel
\* here; the serial loop checked before the group.
PlaceGroup(g) ==
  LET rows == GroupRows(g, pending) IN
  /\ main = "driving"
  /\ group[g] = "done"
  /\ Pooled => ~flag
  /\ group' = [group EXCEPT ![g] = "placed"]
  /\ results' = [r \in Row |-> IF r \in rows THEN answered[r] ELSE results[r]]
  /\ completed' = completed + Cardinality(rows)
  /\ UNCHANGED <<shape, cache, attempt, main, exit, pending, answered, toRecord, flag,
                 paid, boundVars>>

\* future.result(), or run_group itself, raised.
TakeRaise(g) ==
  /\ main = "driving"
  /\ group[g] = "raised"
  /\ Pooled => ~flag
  /\ main' = "unwinding"
  /\ exit' = "raised"
  /\ UNCHANGED <<shape, cache, attempt, pending, poolVars, results, completed, flag,
                 paid, boundVars>>

\* Every group is placed.
FinishRows ==
  /\ main = "driving"
  /\ GroupsIn({"queued", "mapping", "recording", "done", "raised"}) = {}
  /\ main' = "unwinding"
  /\ exit' = "whole"
  /\ UNCHANGED <<shape, cache, attempt, pending, poolVars, results, completed, flag,
                 paid, boundVars>>

\* pool.shutdown(wait=False, cancel_futures=True): what has not started never
\* will.  The serial loop just stops looping.
ShutDown ==
  /\ main = "unwinding"
  /\ main' = "joining"
  /\ group' = [g \in Row |-> IF group[g] = "queued" THEN "dropped" ELSE group[g]]
  /\ UNCHANGED <<shape, cache, attempt, exit, pending, answered, toRecord, results,
                 completed, flag, paid, boundVars>>

\* The `with` block joins the workers, and the stage is over.
Leave ==
  /\ main = "joining"
  /\ InFlight = {}
  /\ main' = "outside"
  /\ UNCHANGED <<shape, cache, attempt, exit, pending, poolVars, results, completed,
                 flag, paid, boundVars>>

\* Between stages the executor's own checkpoint takes a pending cancel.
TakeCancelBetweenStages ==
  /\ main = "outside"
  /\ flag
  /\ flag' = FALSE
  /\ UNCHANGED <<shape, cache, attempt, main, exit, pending, poolVars, results,
                 completed, paid, boundVars>>

-----------------------------------------------------------------------------
(***************************************************************************)
(* The workers: run_group.                                                 *)
(***************************************************************************)

\* A pool worker takes the next queued group as soon as it is free, until the
\* shutdown; the serial loop takes it after its cancel checkpoint.
StartGroup(g) ==
  /\ GroupsIn({"queued"}) # {} /\ g = NextQueued
  /\ IF Pooled THEN main \in {"driving", "unwinding"} /\ Cardinality(InFlight) < Workers
               ELSE main = "driving" /\ AtCheckpoint /\ ~flag
  /\ group' = [group EXCEPT ![g] = "mapping"]
  /\ UNCHANGED <<shape, cache, attempt, main, exit, pending, answered, toRecord, results,
                 completed, flag, paid, boundVars>>

\* _blocks_caching and the drop rule: only what the stage produced is pinned.
Recordable(answer) == answer.kind = "answer"

\* The mapper returned one result per row and each was validated.
MapGroup(g) ==
  /\ group[g] = "mapping"
  /\ \E kind \in [GroupRows(g, pending) -> shape.kinds] :
       LET rows == GroupRows(g, pending)
           made == [r \in rows |-> [by |-> attempt, of |-> r, kind |-> kind[r]]]
           recorded == {r \in rows : Records /\ Recordable(made[r])}
           good == {r \in rows : kind[r] = "answer"} IN
       /\ answered' = [r \in Row |-> IF r \in rows THEN made[r] ELSE answered[r]]
       /\ toRecord' = [toRecord EXCEPT ![g] = recorded]
       /\ group' = [group EXCEPT ![g] = IF recorded = {} THEN "done" ELSE "recording"]
       /\ paid' = [f \in Key |->
                     paid[f] + Cardinality({r \in good : Fingerprint[r] = f})]
  /\ UNCHANGED <<shape, cache, attempt, main, exit, pending, results, completed, flag,
                 boundVars>>

\* The mapper raised, or what it returned was not one row per row.
RaiseInGroup(g) ==
  /\ group[g] = "mapping"
  /\ group' = [group EXCEPT ![g] = "raised"]
  /\ UNCHANGED <<shape, cache, attempt, main, exit, pending, answered, toRecord, results,
                 completed, flag, paid, boundVars>>

\* _cache_row_output, row by row, each a write of its own.
RecordRow(g) ==
  LET r == Min(toRecord[g]) IN
  /\ group[g] = "recording"
  /\ cache' = [cache EXCEPT ![Fingerprint[r]] = answered[r]]
  /\ toRecord' = [toRecord EXCEPT ![g] = @ \ {r}]
  /\ group' = [group EXCEPT ![g] = IF toRecord[g] = {r} THEN "done" ELSE "recording"]
  /\ UNCHANGED <<shape, attempt, main, exit, pending, answered, results, completed, flag,
                 paid, boundVars>>

\* The write of a cache entry raises: the rest of the group goes unrecorded.
FailToRecord(g) ==
  /\ group[g] = "recording"
  /\ faults < MaxFaults
  /\ faults' = faults + 1
  /\ toRecord' = [toRecord EXCEPT ![g] = {}]
  /\ group' = [group EXCEPT ![g] = "raised"]
  /\ UNCHANGED <<shape, cache, attempt, main, exit, pending, answered, results, completed,
                 flag, paid, cancels>>

-----------------------------------------------------------------------------
(***************************************************************************)
(* The environment.                                                        *)
(***************************************************************************)

RequestCancel ==
  /\ cancels < MaxCancels
  /\ cancels' = cancels + 1
  /\ flag' = TRUE
  /\ UNCHANGED <<shape, cache, attempt, main, exit, pending, poolVars, results, completed,
                 paid, faults>>

\* The process dies with its threads and its mailbox; the cache is in the store.
Crash ==
  /\ main # "outside"
  /\ faults < MaxFaults
  /\ faults' = faults + 1
  /\ main' = "outside"
  /\ exit' = "crashed"
  /\ pending' = {}
  /\ group' = [g \in Row |-> "none"]
  /\ answered' = NothingAnswered
  /\ toRecord' = [g \in Row |-> {}]
  /\ results' = NothingAnswered
  /\ completed' = 0
  /\ flag' = FALSE
  /\ UNCHANGED <<shape, cache, attempt, paid, cancels>>

Main ==
  \/ TakeCancel
  \/ \E g \in Row : PlaceGroup(g) \/ TakeRaise(g)
  \/ FinishRows
  \/ ShutDown
  \/ Leave

Worker(g) == MapGroup(g) \/ RaiseInGroup(g) \/ RecordRow(g)

Next ==
  \/ Open
  \/ Main
  \/ TakeCancelBetweenStages
  \/ \E g \in Row : StartGroup(g) \/ Worker(g) \/ FailToRecord(g)
  \/ RequestCancel
  \/ Crash

\* The executor's thread and the pool's workers keep running, and a mapper's
\* call returns or raises: a model call is bounded by its own timeout.
Fairness ==
  /\ WF_vars(Main)
  /\ \A g \in Row : WF_vars(StartGroup(g)) /\ WF_vars(Worker(g))

Spec == Init /\ [][Next]_vars
FairSpec == Spec /\ Fairness

-----------------------------------------------------------------------------
(***************************************************************************)
(* Properties.                                                             *)
(***************************************************************************)

\* A result slot is filled with the answer computed for that very row in this
\* attempt, or, for a replayed row, with an earlier attempt's answer to the
\* same input ("One result slot per input row, filled by index").
EachRowItsOwnAnswer ==
  \A r \in Row : results[r] # NoAnswer =>
    IF r \in pending
    THEN results[r].of = r /\ results[r].by = attempt
    ELSE /\ Fingerprint[results[r].of] = Fingerprint[r]
         /\ results[r].by < attempt
         /\ results[r].kind = "answer"

\* An input alone with its fingerprint is paid for once over all attempts,
\* cancelled and failed ones included, unless the process died or a cache
\* write failed: what was in flight at the cancel is joined and recorded.
PaidOnce ==
  shape.caching = "read_write" /\ faults = 0 =>
    \A f \in Key : Cardinality({r \in Row : Fingerprint[r] = f}) = 1 => paid[f] <= 1

\* Every execution of the stage comes to an end.
EveryAttemptLeaves == main # "outside" ~> main = "outside"
=============================================================================
