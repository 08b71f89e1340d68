------------------------------- MODULE RunLog -------------------------------
(***************************************************************************)
(* The event log of one run (app/runtime/run_log.py): each execution of    *)
(* the run opens a log of its own, any of its threads puts events in the   *)
(* log's queue, and the log's one writer thread numbers them and rewrites  *)
(* the stored chunks.  Of the executor only the two steps the log's        *)
(* readers depend on are kept: when the manifest says running and when it  *)
(* says settled.                                                           *)
(***************************************************************************)
EXTENDS Naturals, Sequences, FiniteSets, SequencesExt

CONSTANTS
  ChunkSize,     \* CHUNK_SIZE
  MaxEmits,      \* bound: events an execution emits, run_start included
  MaxExecutions, \* bound: the first execution and the resumes after it
  MaxLive,       \* bound: executions whose threads are alive at the same time
  MaxFaults      \* bound: server crashes, escaping exceptions, failed writes

ASSUME ChunksHoldEvents == ChunkSize \in Nat \ {0}

ASSUME LogBounds ==
  /\ MaxEmits \in Nat \ {0}
  /\ MaxExecutions \in Nat
  /\ MaxLive \in Nat
  /\ MaxFaults \in Nat

Execution == 1..MaxExecutions
ChunkIndex == 0..((MaxExecutions * (MaxEmits + 1)) \div ChunkSize)

VARIABLES
  chunks,     \* [ChunkIndex -> the events of that RunEventChunk]; <<>> is none
  runStatus,  \* the manifest's: "running" or "settled"
  exec,       \* [Execution -> where its thread is]
  emitted,    \* [Execution -> the kinds it put in the queue, in order]
  inbox,      \* [Execution -> its RunLog._q]
  writer,     \* [Execution -> where its writer thread is]
  seq,        \* [Execution -> the number its writer gives next]
  pending,    \* [Execution -> numbered events its writer has not flushed]
  loaded,     \* [Execution -> the chunk its writer loaded to extend]
  faults

executorVars == <<runStatus, exec, emitted>>
writerVars == <<writer, seq, pending, loaded>>
logVars == <<chunks, executorVars, inbox, writerVars, faults>>

\* "own" is an event of the stage a scoped reader follows, "other" any other,
\* "done" the run_done marker close() puts last.
Kinds == {"own", "other", "done"}

Event == [by : Execution, n : 1..(MaxEmits + 1), kind : Kinds]
Stored == [by : Execution, n : 1..(MaxEmits + 1), kind : Kinds, seq : Nat]
Stop == [by |-> 0, n |-> 0, kind |-> "stop"]

WriterAlive == {"counting", "waiting", "loading", "saving"}

\* prepare_run stores a manifest that says running before anything executes.
LogInit ==
  /\ chunks = [i \in ChunkIndex |-> <<>>]
  /\ runStatus = "running"
  /\ exec = [k \in Execution |-> "unborn"]
  /\ emitted = [k \in Execution |-> <<>>]
  /\ inbox = [k \in Execution |-> <<>>]
  /\ writer = [k \in Execution |-> "unborn"]
  /\ seq = [k \in Execution |-> 0]
  /\ pending = [k \in Execution |-> <<>>]
  /\ loaded = [k \in Execution |-> <<>>]
  /\ faults = 0

-----------------------------------------------------------------------------
(***************************************************************************)
(* The chunks.                                                             *)
(***************************************************************************)

ChunkOf(number) == number \div ChunkSize

\* What the store answers for a chunk's id.
Chunk(i) == IF i \in ChunkIndex THEN chunks[i] ELSE <<>>

\* count_events: the walk stops at the first chunk that is not full.
EventCount ==
  LET last == CHOOSE i \in ChunkIndex :
                /\ Len(chunks[i]) < ChunkSize
                /\ \A j \in ChunkIndex : j < i => Len(chunks[j]) >= ChunkSize IN
  last * ChunkSize + Len(chunks[last])

\* _group_by_chunk: how many events of a flush go to its first chunk.  They are
\* numbered one after another, so they come first.
FirstGroupSize(events) ==
  Cardinality({m \in DOMAIN events : ChunkOf(events[m].seq) = ChunkOf(events[1].seq)})

FirstGroup(events) == SubSeq(events, 1, FirstGroupSize(events))

RestOf(events) == SubSeq(events, FirstGroupSize(events) + 1, Len(events))

-----------------------------------------------------------------------------
(***************************************************************************)
(* Plausible bugs.  No behaviour of the specification uses the operators   *)
(* of this section: each stands in for the definition its name begins      *)
(* with, to show that a property notices the difference.                   *)
(***************************************************************************)

\* A resumed log numbers its events from 0 again.
CountEventsFromZero(k) ==
  /\ writer[k] = "counting"
  /\ seq' = [seq EXCEPT ![k] = 0]
  /\ writer' = [writer EXCEPT ![k] = "waiting"]
  /\ UNCHANGED <<chunks, executorVars, inbox, pending, loaded, faults>>

\* The sentinel ends the writer whatever it still holds.
EndWriterUnflushed(k) ==
  /\ writer[k] = "waiting"
  /\ inbox[k] # <<>> /\ Head(inbox[k]) = Stop
  /\ inbox' = [inbox EXCEPT ![k] = <<>>]
  /\ pending' = [pending EXCEPT ![k] = <<>>]
  /\ writer' = [writer EXCEPT ![k] = "ended"]
  /\ UNCHANGED <<chunks, executorVars, seq, loaded, faults>>

-----------------------------------------------------------------------------
(***************************************************************************)
(* The execution's thread.                                                 *)
(***************************************************************************)

Alive(k) == exec[k] \in {"opened", "running", "leaving"} \/ writer[k] \in WriterAlive

Put(k, kind) ==
  /\ emitted' = [emitted EXCEPT ![k] = Append(@, kind)]
  /\ inbox' = [inbox EXCEPT ![k] =
                 Append(@, [by |-> k, n |-> Len(emitted[k]) + 1, kind |-> kind])]

\* _execute_stages: RunLog starts its writer, and run_start is put before the
\* loop's first flush makes the manifest say running.
OpenLog(k) ==
  /\ exec[k] = "unborn"
  /\ k > 1 => exec[k - 1] # "unborn"
  /\ Cardinality({j \in Execution : Alive(j)}) < MaxLive
  /\ exec' = [exec EXCEPT ![k] = "opened"]
  /\ writer' = [writer EXCEPT ![k] = "counting"]
  /\ Put(k, "other")
  /\ UNCHANGED <<chunks, runStatus, seq, pending, loaded, faults>>

Begin(k) ==
  /\ exec[k] = "opened"
  /\ exec' = [exec EXCEPT ![k] = "running"]
  /\ runStatus' = "running"
  /\ UNCHANGED <<chunks, emitted, inbox, writerVars, faults>>

\* Any thread of the execution; all of them are joined before close().
Emit(k) ==
  /\ exec[k] = "running"
  /\ Len(emitted[k]) < MaxEmits
  /\ \E kind \in {"own", "other"} : Put(k, kind)
  /\ UNCHANGED <<chunks, runStatus, exec, writerVars, faults>>

\* _finalize_run_manifest, and the loop returns.
Settle(k) ==
  /\ exec[k] = "running"
  /\ exec' = [exec EXCEPT ![k] = "leaving"]
  /\ runStatus' = "settled"
  /\ UNCHANGED <<chunks, emitted, inbox, writerVars, faults>>

\* An exception escapes the loop: the `finally` closes the log all the same.
Escape(k) ==
  /\ exec[k] \in {"opened", "running"}
  /\ faults < MaxFaults
  /\ faults' = faults + 1
  /\ exec' = [exec EXCEPT ![k] = "leaving"]
  /\ UNCHANGED <<chunks, runStatus, emitted, inbox, writerVars>>

\* close(): the marker, then the sentinel.  The join is bounded, and nothing
\* the thread does after it reaches the log.
Close(k) ==
  /\ exec[k] = "leaving"
  /\ exec' = [exec EXCEPT ![k] = "ended"]
  /\ emitted' = [emitted EXCEPT ![k] = Append(@, "done")]
  /\ inbox' = [inbox EXCEPT ![k] =
                 @ \o <<[by |-> k, n |-> Len(emitted[k]) + 1, kind |-> "done"], Stop>>]
  /\ UNCHANGED <<chunks, runStatus, writerVars, faults>>

-----------------------------------------------------------------------------
(***************************************************************************)
(* The writer's thread: _drain and _flush.                                 *)
(***************************************************************************)

CountEvents(k) ==
  /\ writer[k] = "counting"
  /\ seq' = [seq EXCEPT ![k] = EventCount]
  /\ writer' = [writer EXCEPT ![k] = "waiting"]
  /\ UNCHANGED <<chunks, executorVars, inbox, pending, loaded, faults>>

\* An event is stamped, and a full batch is flushed.
Take(k) ==
  /\ writer[k] = "waiting"
  /\ inbox[k] # <<>> /\ Head(inbox[k]) # Stop
  /\ LET e == Head(inbox[k])
         stamped == [by |-> e.by, n |-> e.n, kind |-> e.kind, seq |-> seq[k]] IN
     pending' = [pending EXCEPT ![k] = Append(@, stamped)]
  /\ inbox' = [inbox EXCEPT ![k] = Tail(@)]
  /\ seq' = [seq EXCEPT ![k] = @ + 1]
  /\ writer' = [writer EXCEPT ![k] =
                  IF Len(pending'[k]) >= ChunkSize THEN "loading" ELSE "waiting"]
  /\ UNCHANGED <<chunks, executorVars, loaded, faults>>

\* The flush interval went by with an empty queue, or the sentinel came.
FlushWhatThereIs(k) ==
  /\ writer[k] = "waiting"
  /\ pending[k] # <<>>
  /\ inbox[k] # <<>> => Head(inbox[k]) = Stop
  /\ writer' = [writer EXCEPT ![k] = "loading"]
  /\ UNCHANGED <<chunks, executorVars, inbox, seq, pending, loaded, faults>>

\* The sentinel came and everything is flushed.
EndWriter(k) ==
  /\ writer[k] = "waiting"
  /\ pending[k] = <<>>
  /\ inbox[k] # <<>> /\ Head(inbox[k]) = Stop
  /\ inbox' = [inbox EXCEPT ![k] = <<>>]
  /\ writer' = [writer EXCEPT ![k] = "ended"]
  /\ UNCHANGED <<chunks, executorVars, seq, pending, loaded, faults>>

LoadChunk(k) ==
  /\ writer[k] = "loading"
  /\ loaded' = [loaded EXCEPT ![k] = Chunk(ChunkOf(pending[k][1].seq))]
  /\ writer' = [writer EXCEPT ![k] = "saving"]
  /\ UNCHANGED <<chunks, executorVars, inbox, seq, pending, faults>>

\* The chunk is rewritten whole.
SaveChunk(k) ==
  /\ writer[k] = "saving"
  /\ chunks' = [chunks EXCEPT ![ChunkOf(pending[k][1].seq)] =
                  loaded[k] \o FirstGroup(pending[k])]
  /\ pending' = [pending EXCEPT ![k] = RestOf(@)]
  /\ loaded' = [loaded EXCEPT ![k] = <<>>]
  /\ writer' = [writer EXCEPT ![k] = IF pending'[k] = <<>> THEN "waiting" ELSE "loading"]
  /\ UNCHANGED <<executorVars, inbox, seq, faults>>

\* The store refuses the write, and the exception ends the writer's thread.
FailToSave(k) ==
  /\ writer[k] = "saving"
  /\ faults < MaxFaults
  /\ faults' = faults + 1
  /\ writer' = [writer EXCEPT ![k] = "dead"]
  /\ pending' = [pending EXCEPT ![k] = <<>>]
  /\ loaded' = [loaded EXCEPT ![k] = <<>>]
  /\ UNCHANGED <<chunks, executorVars, inbox, seq>>

\* The server restarts.
Crash ==
  /\ faults < MaxFaults
  /\ \E k \in Execution : Alive(k)
  /\ faults' = faults + 1
  /\ exec' = [k \in Execution |->
                IF exec[k] \in {"opened", "running", "leaving"} THEN "dead" ELSE exec[k]]
  /\ writer' = [k \in Execution |->
                  IF writer[k] \in WriterAlive THEN "dead" ELSE writer[k]]
  /\ inbox' = [k \in Execution |-> <<>>]
  /\ pending' = [k \in Execution |-> <<>>]
  /\ loaded' = [k \in Execution |-> <<>>]
  /\ UNCHANGED <<chunks, runStatus, emitted, seq>>

-----------------------------------------------------------------------------
ExecutorStep(k) == Begin(k) \/ Settle(k) \/ Close(k)

WriterStep(k) ==
  \/ CountEvents(k)
  \/ Take(k)
  \/ FlushWhatThereIs(k)
  \/ EndWriter(k)
  \/ LoadChunk(k)
  \/ SaveChunk(k)

LogNext ==
  \/ \E k \in Execution :
       \/ OpenLog(k)
       \/ ExecutorStep(k)
       \/ Emit(k)
       \/ Escape(k)
       \/ WriterStep(k)
       \/ FailToSave(k)
  \/ Crash

LogSpec == LogInit /\ [][LogNext]_logVars

-----------------------------------------------------------------------------
(***************************************************************************)
(* Properties, for executions that follow one another (MaxLive = 1).       *)
(***************************************************************************)

\* The event with that number, read through the chunk arithmetic of
\* read_events_since.
StoredLog ==
  LET numbers == UNION {{i * ChunkSize + j - 1 : j \in 1..ChunkSize \cap DOMAIN chunks[i]} :
                         i \in ChunkIndex} IN
  [i \in numbers |-> chunks[ChunkOf(i)][(i % ChunkSize) + 1]]

StoredEvents == UNION {Range(chunks[i]) : i \in ChunkIndex}

Promise == INSTANCE EventLog WITH log <- StoredLog

\* The chunks, rewritten whole by each flush and continued by each resume, are
\* an append-only log numbered without gaps
\* (test_a_resumed_log_keeps_seq_equal_to_the_line_index).
LogKeepsItsPromise == Promise!Spec

\* Once an execution's writer has ended, the log holds every event the
\* execution emitted, in the order it emitted them, and its run_done last:
\* close() lost none of what was still queued or batched.
ClosedLogIsWhole ==
  LET stored == {[by |-> e.by, n |-> e.n, kind |-> e.kind] : e \in StoredEvents} IN
  \A k \in Execution : writer[k] = "ended" =>
    \A n \in DOMAIN emitted[k] : [by |-> k, n |-> n, kind |-> emitted[k][n]] \in stored
=============================================================================
