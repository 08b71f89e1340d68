------------------------------ MODULE LogPanel ------------------------------
(***************************************************************************)
(* One log panel of a run page and the server-sent-event stream that feeds *)
(* it (app/web/run_events.py, app/static/run_log.js), over the stored      *)
(* chunks of RunLog.  The panel follows one stage; an unscoped panel is    *)
(* the case of a run whose events are all of that stage.  While executions *)
(* follow one another the stored events ascend in number, so that a batch  *)
(* of them is a set here, in the order of their numbers.                   *)
(***************************************************************************)
EXTENDS RunLog, FiniteSetsExt

CONSTANTS
  TailSize,   \* the `tail` the route is asked for, EVENT_TAIL by default
  MaxDrops    \* bound: connections that break

ASSUME PanelBounds == TailSize \in Nat /\ MaxDrops \in Nat

VARIABLES
  (* The browser: openRunLogStream. *)
  panel,      \* where the panel's feed is
  nextSeq,    \* lastSeq + 1; 0 before the first event
  shown,      \* the events the panel was given
  (* The server: stream_events. *)
  stream,     \* where the generator is
  cursor,
  chunk,      \* the chunk read_events_since loads next
  batch,      \* what this poll read
  idle,       \* idle_polls
  (* Observation. *)
  openedAt,   \* the cursor the panel's first event was looked for from
  drops

panelVars == <<panel, nextSeq, shown, openedAt>>
streamVars == <<stream, cursor, chunk, batch, idle>>
vars == <<logVars, panelVars, streamVars, drops>>

\* _IDLE_POLLS_BEFORE_TERMINAL_STOP
IdlePolls == 2

Init ==
  /\ LogInit
  /\ panel = "unopened" /\ nextSeq = 0 /\ shown = {} /\ openedAt = 0
  /\ stream = "off" /\ cursor = 0 /\ chunk = 0 /\ batch = {} /\ idle = 0
  /\ drops = 0

-----------------------------------------------------------------------------
\* One past the last of some events, or `otherwise` when there are none.
Past(events, otherwise) ==
  IF events = {} THEN otherwise ELSE Max({e.seq : e \in events}) + 1

\* select_stage_events: run_done rides through the filter.
Scoped(events) == {e \in events : e.kind \in {"own", "done"}}

\* tail_start_seq.  The walk from the newest chunk back finds what the whole
\* log would give (tests/test_run_log_tail_walk.py).
TailStart ==
  LET seen == {e.seq : e \in Scoped(StoredEvents)}
      tail == {i \in seen : Cardinality({j \in seen : i <= j}) <= TailSize} IN
  IF seen = {} \/ TailSize > Cardinality(seen) THEN 0
  ELSE Min(tail \cup {Max(seen) + 1})

HoldsDone(events) == \E e \in events : e.kind = "done"

\* What a stream yields of a batch: it returns at the first run_done.
UpToDone(events) ==
  {e \in events : \A d \in events : d.kind = "done" => e.seq <= d.seq}

\* receive(): an event at or below the highest number seen was rendered before.
Fresh(events) == {e \in events : e.seq >= nextSeq}

\* The part of a batch that reached the panel.
Receive(events) ==
  /\ nextSeq' = Past(Fresh(events), nextSeq)
  /\ shown' = shown \cup Fresh(events)

\* The generator is over.
StreamOff ==
  /\ stream' = "off"
  /\ cursor' = 0 /\ chunk' = 0 /\ batch' = {} /\ idle' = 0

-----------------------------------------------------------------------------
(***************************************************************************)
(* Plausible bugs.  No behaviour of the specification uses the operators   *)
(* of this section: each stands in for the definition its name begins      *)
(* with, to show that a property notices the difference.                   *)
(***************************************************************************)

\* The cursor clears one more than what was read.
SendPastTheEnd ==
  /\ stream = "sending" /\ ~HoldsDone(batch)
  /\ Receive(Scoped(batch))
  /\ stream' = "checking"
  /\ cursor' = Past(batch, cursor - 1) + 1
  /\ UNCHANGED <<logVars, panel, openedAt, chunk, batch, idle, drops>>

\* A settled run's stream waits for its run_done alone.
CheckRunForDoneAlone ==
  /\ stream = "checking"
  /\ stream' = "reading" /\ chunk' = ChunkOf(cursor) /\ batch' = {}
  /\ UNCHANGED <<logVars, panelVars, cursor, idle, drops>>

-----------------------------------------------------------------------------
(***************************************************************************)
(* The panel and its stream.                                               *)
(***************************************************************************)

Open ==
  /\ panel = "unopened"
  /\ panel' = "connecting"
  /\ UNCHANGED <<logVars, nextSeq, shown, openedAt, streamVars, drops>>

\* connect(): no cursor the first time, one past the highest seq seen after.
Connect ==
  /\ panel = "connecting"
  /\ panel' = "open"
  /\ cursor' = IF nextSeq = 0 THEN TailStart ELSE nextSeq
  /\ stream' = "reading" /\ chunk' = ChunkOf(cursor') /\ batch' = {} /\ idle' = 0
  /\ openedAt' = IF nextSeq = 0 THEN cursor' ELSE openedAt
  /\ UNCHANGED <<logVars, nextSeq, shown, drops>>

\* read_events_since, one chunk loaded at a time.
ReadChunk ==
  /\ stream = "reading"
  /\ IF Chunk(chunk) # <<>>
     THEN /\ batch' = batch \cup {e \in Range(Chunk(chunk)) : e.seq >= cursor}
          /\ chunk' = chunk + 1
          /\ UNCHANGED stream
     ELSE stream' = "sending" /\ chunk' = 0 /\ UNCHANGED batch
  /\ UNCHANGED <<logVars, panelVars, cursor, idle, drops>>

\* The batch has no run_done: it is sent and the cursor clears all of it.
Send ==
  /\ stream = "sending" /\ ~HoldsDone(batch)
  /\ Receive(Scoped(batch))
  /\ stream' = "checking"
  /\ cursor' = Past(batch, cursor)
  /\ UNCHANGED <<logVars, panel, openedAt, chunk, batch, idle, drops>>

\* It has one: the stream returns there, and whether the panel is complete or
\* connects again is a matter of whether it takes the marker for a new one.
SendToDone ==
  LET events == UpToDone(Scoped(batch)) IN
  /\ stream = "sending" /\ HoldsDone(batch)
  /\ Receive(events)
  /\ panel' = IF HoldsDone(Fresh(events)) THEN "complete" ELSE "connecting"
  /\ StreamOff
  /\ UNCHANGED <<logVars, openedAt, drops>>

\* The manifest's status decides whether the poll counts as an idle one.
CheckRun ==
  LET polls == IF runStatus = "running" THEN idle
               ELSE IF batch # {} THEN 0 ELSE idle + 1 IN
  /\ stream = "checking"
  /\ IF runStatus = "settled" /\ polls >= IdlePolls
     THEN panel' = "complete" /\ StreamOff
     ELSE /\ idle' = polls
          /\ stream' = "reading" /\ chunk' = ChunkOf(cursor) /\ batch' = {}
          /\ UNCHANGED <<panel, cursor>>
  /\ UNCHANGED <<logVars, nextSeq, shown, openedAt, drops>>

\* The connection breaks after part of a batch has reached the panel.
Drop ==
  /\ stream = "sending"
  /\ drops < MaxDrops
  /\ drops' = drops + 1
  /\ \E m \in {0} \cup {e.seq + 1 : e \in batch} :
       LET sent == {e \in Scoped(batch) : e.seq < m} IN
       ~HoldsDone(sent) /\ Receive(sent)
  /\ panel' = "connecting"
  /\ StreamOff
  /\ UNCHANGED <<logVars, openedAt>>

-----------------------------------------------------------------------------
PanelStep == Connect \/ ReadChunk \/ Send \/ SendToDone \/ CheckRun

\* A restart of the server breaks every connection.
CrashServer ==
  /\ Crash
  /\ panel' = IF panel = "open" THEN "connecting" ELSE panel
  /\ StreamOff
  /\ UNCHANGED <<nextSeq, shown, openedAt, drops>>

LogStep(step) == step /\ UNCHANGED <<panelVars, streamVars, drops>>

Next ==
  \/ \E k \in Execution :
       LogStep(\/ OpenLog(k) \/ ExecutorStep(k) \/ Emit(k) \/ Escape(k)
               \/ WriterStep(k) \/ FailToSave(k))
  \/ CrashServer
  \/ Open
  \/ PanelStep
  \/ Drop

\* Some thread of the run that can move does, and so do the stream and the
\* browser; nobody has to resume, and connections break only so often.
Fairness ==
  /\ WF_vars(LogStep(\E k \in Execution : ExecutorStep(k) \/ WriterStep(k)))
  /\ WF_vars(PanelStep)

Spec == Init /\ [][Next]_vars
FairSpec == Spec /\ Fairness

-----------------------------------------------------------------------------
(***************************************************************************)
(* Properties.                                                             *)
(***************************************************************************)

\* Stored events of the panel's scope, from where it opened to the last one it
\* was given, that it was not given.
Skipped ==
  {e \in StoredEvents \ shown :
     e.kind \in {"own", "done"} /\ openedAt <= e.seq /\ e.seq < nextSeq}

\* What a panel skips lies in an earlier chunk than the next event it is given:
\* whatever drops, reconnects, filters and resumes there were, only a flush
\* across a chunk boundary between two loads of one poll leaves a gap.
SkipsOnlyAcrossAChunk ==
  \A e \in Skipped : \A b \in shown : b.seq > e.seq => ChunkOf(b.seq) > ChunkOf(e.seq)

\* The manifest says running and no thread is left to change that.
Interrupted == runStatus = "running" /\ \A k \in Execution : ~Alive(k)

\* A feed comes to its end, by run_done or by the settled status when there is
\* no run_done, unless the run died with a manifest that says running.
EveryFeedEnds == panel = "open" ~> panel = "complete" \/ Interrupted
=============================================================================
