---------------------------- MODULE ReviewQueue ----------------------------
(***************************************************************************)
(* One human_review_queue stage of one run, from the first halt to the     *)
(* rows it emits: the executions that run the stage, the reviewers who     *)
(* decide rows from request threads, and the four places a decision or a   *)
(* queued row is kept, each written by a step of its own: the append-only  *)
(* ledger, the row cache, the decisions file a run is handed, and the      *)
(* snapshot with its fingerprints sidecar.  /admin/cache may import into   *)
(* the row cache verdicts of another workspace, which no ledger here has.  *)
(*                                                                         *)
(* A row stands for its content, as the fingerprint that addresses it      *)
(* does.  Executions of the run follow one another here (RunEngine has the *)
(* overlapping ones), and every row of the frame is queueable: a row the   *)
(* filter skips never meets a reviewer.                                    *)
(***************************************************************************)
EXTENDS Naturals, Sequences, FiniteSets

CONSTANTS
  RowCount,       \* rows of the stage's input frame
  Reviewer,       \* decide requests, one each
  Cachings,       \* how the run may consult the row cache; see CachingsAreModes
  Importable,     \* rows some cache archive holds a verdict on; each is
                  \* imported once at most, which bounds the imports
  MaxExecutions,  \* bound: the start of the run and its resumes
  MaxFaults       \* bound: crashes, failed cache writes, lost cache entries

Row == 1..RowCount
Stamp == Nat \ {0}

\* "read_write" is the stage's default; a bust_cache run records and never
\* replays ("refresh"); a stage authored with cache: false does neither.
ASSUME CachingsAreModes ==
  /\ RowCount \in Nat \ {0}
  /\ IsFiniteSet(Reviewer)
  /\ Cachings \subseteq {"read_write", "refresh", "off"}
  /\ Importable \subseteq Row

ASSUME QueueBounds == MaxExecutions \in Nat \ {0} /\ MaxFaults \in Nat

VARIABLES
  caching,     \* how this run consults the row cache
  (* The store. *)
  ledger,      \* the ReviewDecision rows of this stage definition
  cache,       \* [Row -> the decided row the row cache holds; NoDecision is none]
  status,      \* the stage's record in the stored manifest
  sidecar,     \* QueueFingerprints: the queued rows, by position
  (* The run directory. *)
  snapshot,    \* the queue snapshot: the queued rows, by position
  handed,      \* [Row -> the decision in review_decisions/<stage>.parquet]
  emitted,     \* [Row -> the decision the stage's output carries]
  (* The executor. *)
  executions,  \* how many have been asked for
  phase,       \* where the one under way is
  recorded,    \* [Row -> the cache entry this execution opened with]
  next,        \* the row it maps next
  results,     \* [Row -> the decision it answered the row with]
  (* The web process. *)
  clock,       \* the last creation stamp given out
  request,     \* [Reviewer -> the decide request]
  importing,   \* the row an import found no entry for and will write; 0 is none
  faults,      \* the bound's counter
  (* Observation. *)
  ledgerBefore, \* the ledger when the execution under way was asked for
  imported      \* the rows whose entry was written by an import

storeVars == <<ledger, cache, status, sidecar>>
dirVars == <<snapshot, handed, emitted>>
localVars == <<recorded, next, results>>
executorVars == <<executions, phase, localVars, ledgerBefore>>
importVars == <<importing, imported>>
webVars == <<clock, request, importVars>>
vars == <<caching, storeVars, dirVars, executorVars, webVars, faults>>

\* `row` is the input_fingerprint a decision is filed under and `judged` the
\* frozen row it was made on; `stamp` is the record's created_at.
Decision == [row : Row, judged : Row, by : Reviewer, stamp : Stamp]
NoDecision == [row |-> 0, judged |-> 0, by |-> "nobody", stamp |-> 0]
Undecided == [r \in Row |-> NoDecision]

\* A verdict of another workspace on the same row: its entry is addressed by
\* what the row holds, and says who decided it but has no record behind it here.
ImportedVerdict(r) == [row |-> r, judged |-> r, by |-> "elsewhere", stamp |-> 0]
ImportedVerdicts(rows) == {ImportedVerdict(r) : r \in rows}

RowDecisions == [Row -> Decision \cup ImportedVerdicts(Row) \cup {NoDecision}]

Queues == UNION {[1..n -> Row] : n \in 0..RowCount}

Requests ==
  [at : {"idle", "open", "filed", "aligned", "judged", "saved", "answered", "refused"},
   row : 0..RowCount, judged : 0..RowCount, filed : Queues,
   stamp : Nat]

NoRequest == [at |-> "idle", row |-> 0, judged |-> 0, filed |-> <<>>, stamp |-> 0]

TypeOK ==
  /\ caching \in Cachings
  /\ ledger \in SUBSET Decision
  /\ cache \in RowDecisions
  /\ status \in {"pending", "running", "awaiting_review", "ok", "error", "cancelled"}
  /\ sidecar \in Queues /\ snapshot \in Queues
  /\ handed \in RowDecisions /\ emitted \in RowDecisions
  /\ executions \in 0..MaxExecutions
  /\ phase \in {"idle", "launched", "opening", "mapping", "snapshotted", "filed"}
  /\ recorded \in RowDecisions /\ results \in RowDecisions
  /\ next \in 1..(RowCount + 1)
  /\ clock \in Nat
  /\ request \in [Reviewer -> Requests]
  /\ faults \in 0..MaxFaults
  /\ ledgerBefore \in SUBSET Decision
  /\ importing \in 0..RowCount
  /\ imported \in SUBSET Row

Init ==
  /\ caching \in Cachings
  /\ ledger = {} /\ cache = Undecided
  /\ status = "pending"
  /\ sidecar = <<>> /\ snapshot = <<>>
  /\ handed = Undecided /\ emitted = Undecided
  /\ executions = 0 /\ phase = "idle"
  /\ recorded = Undecided /\ next = 1 /\ results = Undecided
  /\ clock = 0
  /\ request = [v \in Reviewer |-> NoRequest]
  /\ faults = 0
  /\ ledgerBefore = {}
  /\ importing = 0 /\ imported = {}

-----------------------------------------------------------------------------
\* The execution under way is over and its locals go with it.
Leave ==
  /\ phase' = "idle"
  /\ recorded' = Undecided /\ next' = 1 /\ results' = Undecided

\* A decide request is over and its reads go with it.
Reply(v, how) == request' = [request EXCEPT ![v] = [NoRequest EXCEPT !.at = how]]
-----------------------------------------------------------------------------
(***************************************************************************)
(* Plausible bugs.  No behaviour of the specification uses the operators   *)
(* of this section: each stands in for the definition its name begins      *)
(* with, to show that a property notices the difference.                   *)
(***************************************************************************)

\* A resume runs on the decisions the execution before it was handed.
LaunchWithoutResolving ==
  /\ phase = "idle"
  /\ status # "ok"
  /\ executions < MaxExecutions
  /\ executions' = executions + 1
  /\ phase' = "launched"
  /\ ledgerBefore' = ledger
  /\ UNCHANGED <<caching, storeVars, dirVars, localVars, webVars, faults>>

\* The row at the position is taken without hashing it again.
JudgeRowUnmatched(v) ==
  LET queue == request[v].filed
      positions == {i \in DOMAIN queue \cap DOMAIN snapshot : queue[i] = request[v].row} IN
  /\ request[v].at = "aligned"
  /\ positions # {}
  /\ clock' = clock + 1
  /\ request' = [request EXCEPT ![v].at = "judged", ![v].stamp = clock + 1,
                                ![v].judged = snapshot[CHOOSE i \in positions : TRUE]]
  /\ UNCHANGED <<caching, storeVars, dirVars, executorVars, importVars, faults>>

\* The decision goes to the cache and never to the ledger.
SaveDecisionToCacheAlone(v) ==
  /\ request[v].at = "judged"
  /\ cache' = [cache EXCEPT ![request[v].row] =
                 [row |-> request[v].row, judged |-> request[v].judged, by |-> v,
                  stamp |-> request[v].stamp]]
  /\ request' = [request EXCEPT ![v].at = "saved"]
  /\ UNCHANGED <<caching, ledger, status, sidecar, dirVars, executorVars, clock, importVars,
                 faults>>

-----------------------------------------------------------------------------
(***************************************************************************)
(* An execution of the run, as far as this stage goes.                     *)
(***************************************************************************)

\* _find_latest_decisions: the newest of a row's decisions by created_at.
LatestDecision(r) ==
  LET decisions == {d \in ledger : d.row = r} IN
  IF decisions = {} THEN NoDecision
  ELSE CHOOSE d \in decisions : \A e \in decisions : e.stamp <= d.stamp

\* start_run or resume: the ledger is resolved into the run's directory, then
\* the thread is started.  A run whose queue stage is finished passes it over.
Launch ==
  /\ phase = "idle"
  /\ status # "ok"
  /\ executions < MaxExecutions
  /\ executions' = executions + 1
  /\ handed' = [r \in Row |-> LatestDecision(r)]
  /\ phase' = "launched"
  /\ ledgerBefore' = ledger
  /\ UNCHANGED <<caching, storeVars, snapshot, emitted, localVars, webVars, faults>>

\* A cancel stopped the run before the stage, or a stage above it failed and
\* this one is pending again.
NeverReach ==
  /\ phase = "launched"
  /\ Leave
  /\ status' \in {status, "pending"}
  /\ UNCHANGED <<caching, ledger, cache, sidecar, dirVars, executions, ledgerBefore,
                 webVars, faults>>

\* The record says running before the handler looks at a row.
StartStage ==
  /\ phase = "launched"
  /\ status' = "running"
  /\ phase' = "opening"
  /\ UNCHANGED <<caching, ledger, cache, sidecar, dirVars, executions, localVars,
                 ledgerBefore, webVars, faults>>

\* _open_row_caching reads the recorded entries once, for the whole execution.
OpenCache ==
  /\ phase = "opening"
  /\ recorded' = IF caching = "read_write" THEN cache ELSE Undecided
  /\ phase' = "mapping"
  /\ UNCHANGED <<caching, storeVars, dirVars, executions, next, results, ledgerBefore,
                 webVars, faults>>

\* A recorded row is replayed; any other is answered from the handed decisions
\* and the answer recorded in its turn; a row with neither is deferred.
MapRow ==
  LET answer == IF recorded[next] # NoDecision THEN recorded[next] ELSE handed[next]
      written == /\ recorded[next] = NoDecision
                 /\ answer # NoDecision
                 /\ caching # "off" IN
  /\ phase = "mapping"
  /\ next \in Row
  /\ results' = [results EXCEPT ![next] = answer]
  /\ cache' = IF written THEN [cache EXCEPT ![next] = answer] ELSE cache
  /\ next' = next + 1
  /\ UNCHANGED <<caching, ledger, status, sidecar, dirVars, executions, phase, recorded,
                 ledgerBefore, webVars, faults>>

\* The rows the mapper left without a decision.
Deferred == {r \in Row : results[r] = NoDecision}

\* The deferred rows, in the one order the snapshot and the sidecar share.
Pending ==
  CHOOSE queue \in [1..Cardinality(Deferred) -> Deferred] :
    \A i, j \in DOMAIN queue : i < j => queue[i] < queue[j]

MappedEveryRow == phase = "mapping" /\ next = RowCount + 1

WriteSnapshot ==
  /\ MappedEveryRow
  /\ Deferred # {}
  /\ snapshot' = Pending
  /\ phase' = "snapshotted"
  /\ UNCHANGED <<caching, storeVars, handed, emitted, executions, localVars,
                 ledgerBefore, webVars, faults>>

WriteSidecar ==
  /\ phase = "snapshotted"
  /\ sidecar' = Pending
  /\ phase' = "filed"
  /\ UNCHANGED <<caching, ledger, cache, status, dirVars, executions, localVars,
                 ledgerBefore, webVars, faults>>

\* AwaitingReview: the executor records the halt.
Halt ==
  /\ phase = "filed"
  /\ status' = "awaiting_review"
  /\ Leave
  /\ UNCHANGED <<caching, ledger, cache, sidecar, dirVars, executions, ledgerBefore,
                 webVars, faults>>

\* No row is pending: the stage's output is written and its record settled.
FinishStage ==
  /\ MappedEveryRow
  /\ Deferred = {}
  /\ emitted' = results
  /\ status' = "ok"
  /\ Leave
  /\ UNCHANGED <<caching, ledger, cache, sidecar, snapshot, handed, executions,
                 ledgerBefore, webVars, faults>>

\* The handler raises, or the row driver's checkpoint takes a cancel.
StopStage(how) ==
  /\ phase \in {"opening", "mapping", "snapshotted", "filed"}
  /\ how = "cancelled" => phase = "mapping"
  /\ status' = how
  /\ Leave
  /\ UNCHANGED <<caching, ledger, cache, sidecar, dirVars, executions, ledgerBefore,
                 webVars, faults>>

-----------------------------------------------------------------------------
(***************************************************************************)
(* A reviewer's decide request: queue_decide, one read or write a step.    *)
(* Routes run on a thread pool, so anything may happen between two.        *)
(***************************************************************************)

\* The request names a row by fingerprint, off whatever page it came from;
\* _refuse_a_closed_queue is answered by the stored record.
CheckQueue(v, r) ==
  /\ request[v].at = "idle"
  /\ IF status = "awaiting_review"
     THEN request' = [request EXCEPT ![v].at = "open", ![v].row = r]
     ELSE Reply(v, "refused")
  /\ UNCHANGED <<caching, storeVars, dirVars, executorVars, clock, importVars, faults>>

ReadSidecar(v) ==
  /\ request[v].at = "open"
  /\ request' = [request EXCEPT ![v].at = "filed", ![v].filed = sidecar]
  /\ UNCHANGED <<caching, storeVars, dirVars, executorVars, clock, importVars, faults>>

\* _validate_fingerprint_alignment reads the snapshot for its length.
CheckAlignment(v) ==
  /\ request[v].at = "filed"
  /\ IF Len(snapshot) = Len(request[v].filed)
     THEN request' = [request EXCEPT ![v].at = "aligned"]
     ELSE Reply(v, "refused")
  /\ UNCHANGED <<caching, storeVars, dirVars, executorVars, clock, importVars, faults>>

\* _resolve_queue_row reads the snapshot again and takes the row at the
\* sidecar's position, if it is the row the fingerprint names; building the
\* decision stamps it.
JudgeRow(v) ==
  LET queue == request[v].filed
      positions == {i \in DOMAIN queue \cap DOMAIN snapshot : queue[i] = request[v].row}
      judged == snapshot[CHOOSE i \in positions : TRUE] IN
  /\ request[v].at = "aligned"
  /\ IF positions # {} /\ judged = request[v].row
     THEN /\ clock' = clock + 1
          /\ request' = [request EXCEPT ![v].at = "judged", ![v].judged = judged,
                                        ![v].stamp = clock + 1]
     ELSE Reply(v, "refused") /\ UNCHANGED clock
  /\ UNCHANGED <<caching, storeVars, dirVars, executorVars, importVars, faults>>

DecisionOf(v) ==
  [row |-> request[v].row, judged |-> request[v].judged, by |-> v,
   stamp |-> request[v].stamp]

\* The ledger first.
SaveDecision(v) ==
  /\ request[v].at = "judged"
  /\ ledger' = ledger \cup {DecisionOf(v)}
  /\ request' = [request EXCEPT ![v].at = "saved"]
  /\ UNCHANGED <<caching, cache, status, sidecar, dirVars, executorVars, clock, importVars,
                 faults>>

\* Then the row cache, whatever it holds and whatever the run has become.
RecordInCache(v) ==
  /\ request[v].at = "saved"
  /\ cache' = [cache EXCEPT ![request[v].row] = DecisionOf(v)]
  /\ Reply(v, "answered")
  /\ UNCHANGED <<caching, ledger, status, sidecar, dirVars, executorVars, clock, importVars,
                 faults>>

-----------------------------------------------------------------------------
(***************************************************************************)
(* An import of a cache archive, entry by entry: copy_entry_into leaves an *)
(* entry that is there as it is, and looks for one before it writes.       *)
(***************************************************************************)

FindNoEntry(r) ==
  /\ importing = 0
  /\ r \in Importable \ imported
  /\ cache[r] = NoDecision
  /\ importing' = r
  /\ UNCHANGED <<caching, storeVars, dirVars, executorVars, clock, request, imported,
                 faults>>

\* Over whatever a decision or a mapped row recorded in between.
ImportEntry ==
  /\ importing \in Row
  /\ cache' = [cache EXCEPT ![importing] = ImportedVerdict(importing)]
  /\ imported' = imported \cup {importing}
  /\ importing' = 0
  /\ UNCHANGED <<caching, ledger, status, sidecar, dirVars, executorVars, clock, request,
                 faults>>

-----------------------------------------------------------------------------
(***************************************************************************)
(* What may go wrong around them.                                          *)
(***************************************************************************)

\* The write of the cache entry raises after the ledger took the decision.
FailToRecord(v) ==
  /\ request[v].at = "saved"
  /\ faults < MaxFaults
  /\ faults' = faults + 1
  /\ Reply(v, "refused")
  /\ UNCHANGED <<caching, storeVars, dirVars, executorVars, clock, importVars>>

\* Somebody empties the row cache of an entry; no code of the app does.
EvictEntry(r) ==
  /\ cache[r] # NoDecision
  /\ faults < MaxFaults
  /\ faults' = faults + 1
  /\ cache' = [cache EXCEPT ![r] = NoDecision]
  /\ UNCHANGED <<caching, ledger, status, sidecar, dirVars, executorVars, webVars>>

\* The server restarts: the executor and every request in flight are gone.
Crash ==
  /\ faults < MaxFaults
  /\ faults' = faults + 1
  /\ Leave
  /\ request' = [v \in Reviewer |->
                   IF request[v].at \in {"idle", "answered", "refused"} THEN request[v]
                   ELSE [NoRequest EXCEPT !.at = "refused"]]
  /\ importing' = 0
  /\ UNCHANGED <<caching, storeVars, dirVars, executions, ledgerBefore, clock, imported>>

Execute ==
  \/ Launch
  \/ NeverReach
  \/ StartStage
  \/ OpenCache
  \/ MapRow
  \/ WriteSnapshot
  \/ WriteSidecar
  \/ Halt
  \/ FinishStage
  \/ \E how \in {"error", "cancelled"} : StopStage(how)

Decide(v) ==
  \/ \E r \in Row : CheckQueue(v, r)
  \/ ReadSidecar(v)
  \/ CheckAlignment(v)
  \/ JudgeRow(v)
  \/ SaveDecision(v)
  \/ RecordInCache(v)

Next ==
  \/ Execute
  \/ \E v \in Reviewer : Decide(v) \/ FailToRecord(v)
  \/ \E r \in Row : FindNoEntry(r) \/ EvictEntry(r)
  \/ ImportEntry
  \/ Crash

Spec == Init /\ [][Next]_vars

-----------------------------------------------------------------------------
(***************************************************************************)
(* Properties.                                                             *)
(***************************************************************************)

\* A decision is filed under the row it was made on, though the sidecar and the
\* snapshot are two files a resume may rewrite between the request's reads of
\* them ("only this makes their alignment a fact").
DecisionMatchesItsRow == \A d \in ledger : d.judged = d.row

\* The verdicts a run may pass a row on: the ledger's, and those an import
\* brought, if the run consults the row cache at all ("a cache entry with no
\* ledger row behind it still replays", docs/run-manifest.md).
Verdicts ==
  ledger \cup (IF caching = "read_write" THEN ImportedVerdicts(imported) ELSE {})

\* A finished queue emitted every row on a verdict of that row which the ledger
\* keeps or an import brought, whatever was cached, evicted, overwritten by an
\* import or lost to a crash; a run that busts the cache or has none, on the
\* ledger's alone.
NoRowPassesUndecided ==
  status = "ok" => \A r \in Row : emitted[r] \in Verdicts /\ emitted[r].row = r

\* A run that halts asks for no row that was decided before it was resumed,
\* busted or emptied cache or not: "a deleted cache must never re-ask a
\* decided row" (tests/test_review_routes.py).
NeverAskedTwice ==
  [][status = "running" /\ status' = "awaiting_review" =>
       \A d \in ledgerBefore : \A i \in DOMAIN snapshot' : snapshot'[i] # d.row]_vars
=============================================================================
