---------------------------- MODULE BranchCache -----------------------------
(***************************************************************************)
(* The branch cache of one run (app/runtime/branch_analysis/               *)
(* branch_cache.py): a directory of files that any thread rewrites which   *)
(* finds no stamp of the frames it reads, and which any thread trusts that *)
(* finds one.  The executor's thread builds it when the run settles, the   *)
(* pages of the run read it, or build it too, at the same time; nothing    *)
(* locks it, and only the stamp is renamed into place.                     *)
(*                                                                         *)
(* A manifest names the stages that have a frame and the rows of each, and *)
(* so does a stamp.  A resume adds frames, and makes some again: a stage   *)
(* that failed on the output it had written, or whose output was lost, has *)
(* a fresh record until it has another frame, with as many rows or not.    *)
(* The analyses of a run are numbered by its settlements, which says more  *)
(* than the stamp does.                                                    *)
(***************************************************************************)
EXTENDS Naturals, Sequences

CONSTANTS
  Thread,        \* the executor's threads and the pages'
  StageId,       \* the stages of the workflow
  Rows,          \* how many rows a frame may have
  NoFrame,       \* in the place of a number of rows: no frame
  Summaries,     \* the names of the files one build writes once
  StageFiles,    \* the names of the files it writes for each frame
  MaxAsks,       \* bound on pages and on settlements together
  MaxCrashes     \* bound on restarts of the server

ASSUME CacheConstants ==
  /\ NoFrame \notin Rows
  /\ Summaries # {} /\ Summaries \cap StageFiles = {}
  /\ (Summaries \cup StageFiles) \cap {"stamp", "part", "none", "unlinked"} = {}
  /\ MaxAsks \in Nat /\ MaxCrashes \in Nat

VARIABLES
  rows,        \* per stage the rows of the frame the run's manifest records
  dirty,       \* whether a frame was recorded or lost since the last settlement, if any
  analysed,    \* per analysis the rows of the frames it is of
  going,       \* whether the run may still record more
  files,       \* per file the analyses its bytes were written for; none: no such file
  handle,      \* per thread the file it has open for writing
  pc,          \* per thread where it stands
  frames,      \* per thread the analysis that is of the manifest it read
  todo,        \* per thread the files it has still to read or to write
  got,         \* per thread the analyses it was given
  crossed,     \* observation: another thread has written since it read the manifest
  outrun,      \* observation: a frame was made again before it was done working from
               \* the frames of that manifest
  overlapped,  \* observation: two builds ever met, or one began from a manifest read
               \* before another
  resumed,     \* observation: the run was resumed after it had settled
  asks, crashes

runVars    == <<rows, dirty, analysed, going, resumed>>
threadVars == <<handle, pc, frames, todo, got>>
vars == <<rows, dirty, analysed, going, resumed, files, handle, pc, frames, todo, got, crossed,
          outrun, overlapped, asks, crashes>>

-----------------------------------------------------------------------------
(* The files.                                                              *)

Settled  == Len(analysed)
Analysis == 1..Settled
Cut      == 0    \* in the place of an analysis: what no one analysis would give
Stamp == <<"stamp", 0>>
Part  == <<"part", 0>>
None  == <<"none", 0>>
Unlinked == <<"unlinked", 0>>   \* a file another rename has replaced

\* The files a build writes before its stamp, given the rows of the frames; OfTheRun,
\* those a page reads at once.
OfTheRun   == Summaries \X {0}
FilesOf(m) == OfTheRun \cup (StageFiles \X {s \in StageId : m[s] # NoFrame})

File == OfTheRun \cup (StageFiles \X StageId) \cup {Stamp, Part}

Writers(f) == {t \in Thread : handle[t] = f}
Whole(f)   == Writers(f) = {} /\ \E n \in Analysis : files[f] = {n}

Init ==
  /\ rows = [s \in StageId |-> NoFrame] /\ dirty = TRUE /\ analysed = <<>>
  /\ going = TRUE /\ resumed = FALSE
  /\ files = [f \in File |-> {}]
  /\ handle = [t \in Thread |-> None]
  /\ pc = [t \in Thread |-> "idle"]
  /\ frames = [t \in Thread |-> 0]
  /\ todo = [t \in Thread |-> {}]
  /\ got = [t \in Thread |-> {}]
  /\ crossed = [t \in Thread |-> FALSE] /\ outrun = [t \in Thread |-> FALSE]
  /\ overlapped = FALSE
  /\ asks = 0 /\ crashes = 0

\* The frames there are become those of one more analysis, if they are others.
Analyse ==
  /\ analysed' = IF dirty THEN Append(analysed, rows) ELSE analysed
  /\ dirty' = FALSE

\* A thread that holds a settled manifest turns to the cache with it.
TurnToCache(t, n) ==
  /\ pc[t] = "idle" /\ asks < MaxAsks
  /\ asks' = asks + 1
  /\ pc' = [pc EXCEPT ![t] = "asked"]
  /\ frames' = [frames EXCEPT ![t] = n]
  /\ UNCHANGED <<files, handle, todo, got, crossed, outrun, overlapped, crashes>>

\* What some threads knew of the run and its cache goes with their calls.
Forget(leaving) ==
  /\ pc'      = [t \in Thread |-> IF t \in leaving THEN "idle" ELSE pc[t]]
  /\ frames'  = [t \in Thread |-> IF t \in leaving THEN 0 ELSE frames[t]]
  /\ todo'    = [t \in Thread |-> IF t \in leaving THEN {} ELSE todo[t]]
  /\ got'     = [t \in Thread |-> IF t \in leaving THEN {} ELSE got[t]]
  /\ crossed' = [t \in Thread |-> t \notin leaving /\ crossed[t]]
  /\ outrun'  = [t \in Thread |-> t \notin leaving /\ outrun[t]]

-----------------------------------------------------------------------------
(* Plausible bugs, substituted one at a time: a page that keeps the branches *)
(* of a run still going, a stamp trusted whatever frames it names.           *)

AskAtAnyTime(t) == Analyse /\ TurnToCache(t, Len(analysed')) /\ UNCHANGED <<rows, going, resumed>>
ClaimAnyStamp(t) == Whole(Stamp)

-----------------------------------------------------------------------------
(* The run, and who turns to its cache.                                    *)

\* The executor records the output of a stage, one it then refuses too.
RecordFrame ==
  /\ going
  /\ \E s \in StageId, r \in Rows : rows[s] = NoFrame /\ rows' = [rows EXCEPT ![s] = r]
  /\ dirty' = TRUE
  /\ UNCHANGED <<analysed, going, resumed, files, threadVars, crossed, outrun, overlapped,
                 asks, crashes>>

\* The manifest is settled; the thread that settled it goes on to the cache.
Settle(t) ==
  /\ going
  /\ Analyse /\ TurnToCache(t, Len(analysed'))
  /\ going' = FALSE /\ UNCHANGED <<rows, resumed>>

\* A page of a settled run; one of a run still going works the branches out
\* for itself and leaves the cache alone.
Ask(t) ==
  /\ ~going
  /\ TurnToCache(t, Settled)
  /\ UNCHANGED runVars

\* A failed run is resumed: it is going again, with the frames it has, and (a bound)
\* may still settle.
Resume ==
  /\ ~going /\ asks < MaxAsks
  /\ going' = TRUE /\ resumed' = TRUE
  /\ UNCHANGED <<rows, dirty, analysed, files, threadVars, crossed, outrun, overlapped, asks,
                 crashes>>

\* The resume gives a stage that is not done a fresh record, which names no frame
\* yet; a build that works from the frames of before meets what is written over them.
Rerun ==
  /\ going /\ resumed
  /\ \E s \in StageId : rows[s] # NoFrame /\ rows' = [rows EXCEPT ![s] = NoFrame]
  /\ dirty' = TRUE
  /\ outrun' = [t \in Thread |-> outrun[t] \/ pc[t] \in {"asked", "writing"}]
  /\ UNCHANGED <<analysed, going, resumed, files, threadVars, crossed, overlapped, asks, crashes>>

\* A stamp that is not there, that cannot be read or that names other stages or
\* other numbers of rows claims nothing.
Claims(t) ==
  /\ Writers(Stamp) = {}
  /\ \E n \in Analysis : files[Stamp] = {n} /\ analysed[n] = analysed[frames[t]]

\* Of the files left to write, or to read, the next: those of the run before those
\* of a stage, the stamp last.
NextOf(left) ==
  IF left \cap OfTheRun # {} THEN left \cap OfTheRun
  ELSE IF left \subseteq {Part} THEN left
  ELSE left \ {Part}

Builders == {t \in Thread : pc[t] \in {"writing", "renaming"}}

ReadStamp(t) ==
  /\ pc[t] = "asked"
  /\ \/ /\ Claims(t)
        /\ pc' = [pc EXCEPT ![t] = "reading"]
        /\ todo' = [todo EXCEPT ![t] = FilesOf(analysed[frames[t]])]
        /\ UNCHANGED overlapped
     \/ /\ ~Claims(t)
        /\ pc' = [pc EXCEPT ![t] = "writing"]
        /\ todo' = [todo EXCEPT ![t] = FilesOf(analysed[frames[t]]) \cup {Part}]
        /\ overlapped' = (overlapped \/ crossed[t] \/ Builders # {})
  /\ UNCHANGED <<runVars, files, handle, frames, got, crossed, outrun, asks, crashes>>

-----------------------------------------------------------------------------
(* Reading a claimed cache.                                                *)

\* The options and the counts at once, the files of a stage when the page
\* first names it.
ReadFile(t) ==
  /\ pc[t] = "reading"
  /\ \E f \in NextOf(todo[t]) :
       /\ Whole(f)
       /\ got' = [got EXCEPT ![t] = @ \cup files[f]]
       /\ todo' = [todo EXCEPT ![t] = @ \ {f}]
  /\ UNCHANGED <<runVars, files, handle, pc, frames, crossed, outrun, overlapped, asks, crashes>>

\* A file that is missing or cannot be parsed raises.
FailToRead(t) ==
  /\ pc[t] = "reading"
  /\ \E f \in NextOf(todo[t]) : ~Whole(f)
  /\ pc' = [pc EXCEPT ![t] = "failed"]
  /\ UNCHANGED <<runVars, files, handle, frames, todo, got, crossed, outrun, overlapped, asks, crashes>>

\* A page names the stages it shows, and no other's files are read.
Serve(t) ==
  /\ pc[t] = "reading"
  /\ todo[t] \cap OfTheRun = {}
  /\ pc' = [pc EXCEPT ![t] = "served"]
  /\ UNCHANGED <<runVars, files, handle, frames, todo, got, crossed, outrun, overlapped, asks, crashes>>

Leave(t) ==
  /\ pc[t] \in {"served", "failed"}
  /\ Forget({t})
  /\ UNCHANGED <<runVars, files, handle, overlapped, asks, crashes>>

-----------------------------------------------------------------------------
(* Writing it.                                                             *)

\* Whoever else holds a manifest may find the cache other than it was.
Cross(t) == crossed' = [u \in Thread |-> crossed[u] \/ (u # t /\ pc[u] # "idle")]

\* Opening a file empties it, whoever else writes it; of two builds that have
\* a file open at once it keeps the bytes of both.
OpenFile(t) ==
  /\ pc[t] = "writing" /\ handle[t] = None
  /\ \E f \in NextOf(todo[t]) :
       /\ handle' = [handle EXCEPT ![t] = f]
       /\ todo' = [todo EXCEPT ![t] = @ \ {f}]
       /\ files' = [files EXCEPT ![f] =
                      IF Writers(f) = {} THEN {frames[t]} ELSE @ \cup {frames[t]}]
  /\ Cross(t)
  /\ UNCHANGED <<runVars, pc, frames, got, outrun, overlapped, asks, crashes>>

\* A handle follows its file: the part it was opened as may be the stamp by now.
CloseFile(t) ==
  /\ pc[t] = "writing" /\ handle[t] # None
  /\ handle' = [handle EXCEPT ![t] = None]
  /\ pc' = [pc EXCEPT ![t] = IF handle[t] \in {Part, Stamp, Unlinked} THEN "renaming" ELSE @]
  /\ UNCHANGED <<runVars, files, frames, todo, got, crossed, outrun, overlapped, asks, crashes>>

\* The part becomes the stamp, with the handle of whoever is writing it; the
\* builder then serves what it worked out itself.
Publish(t) ==
  /\ pc[t] = "renaming" /\ files[Part] # {}
  /\ files' = [files EXCEPT ![Stamp] = files[Part], ![Part] = {}]
  /\ handle' = [u \in Thread |-> CASE handle[u] = Part -> Stamp
                                   [] handle[u] = Stamp -> Unlinked
                                   [] OTHER -> handle[u]]
  /\ pc' = [pc EXCEPT ![t] = IF todo[t] = {} THEN "served" ELSE "writing"]
  /\ got' = [got EXCEPT ![t] = {frames[t]} \cup {c \in {Cut} : outrun[t]}]
  /\ Cross(t)
  /\ UNCHANGED <<runVars, frames, todo, outrun, overlapped, asks, crashes>>

\* Another build has renamed the part away: the page fails, the executor
\* leaves the cache as it is.
FailToPublish(t) ==
  /\ pc[t] = "renaming" /\ files[Part] = {}
  /\ pc' = [pc EXCEPT ![t] = "failed"]
  /\ UNCHANGED <<runVars, files, handle, frames, todo, got, crossed, outrun, overlapped, asks, crashes>>

\* The server is restarted: a file being written is cut short.
Crash ==
  /\ crashes < MaxCrashes
  /\ crashes' = crashes + 1
  /\ files' = [f \in File |-> IF Writers(f) = {} THEN files[f] ELSE files[f] \cup {Cut}]
  /\ handle' = [t \in Thread |-> None]
  /\ Forget(Thread)
  /\ UNCHANGED <<runVars, overlapped, asks>>

Next ==
  \/ RecordFrame \/ Resume \/ Rerun \/ Crash
  \/ \E t \in Thread :
       \/ Settle(t) \/ Ask(t) \/ ReadStamp(t)
       \/ ReadFile(t) \/ FailToRead(t) \/ Serve(t) \/ Leave(t)
       \/ OpenFile(t) \/ CloseFile(t) \/ Publish(t) \/ FailToPublish(t)

Spec == Init /\ [][Next]_vars

-----------------------------------------------------------------------------
(* What is checked.                                                        *)

Manifest == [StageId -> Rows \cup {NoFrame}]

\* Every variable keeps its type.
TypeOK ==
  /\ rows \in Manifest /\ dirty \in BOOLEAN /\ analysed \in Seq(Manifest)
  /\ going \in BOOLEAN /\ resumed \in BOOLEAN
  /\ files \in [File -> SUBSET (Analysis \cup {Cut})]
  /\ handle \in [Thread -> File \cup {None, Unlinked}]
  /\ pc \in [Thread -> {"idle", "asked", "reading", "writing", "renaming", "served", "failed"}]
  /\ frames \in [Thread -> 0..Settled]
  /\ todo \in [Thread -> SUBSET File]
  /\ got \in [Thread -> SUBSET (Analysis \cup {Cut})]
  /\ crossed \in [Thread -> BOOLEAN] /\ outrun \in [Thread -> BOOLEAN] /\ overlapped \in BOOLEAN
  /\ asks \in 0..MaxAsks /\ crashes \in 0..MaxCrashes

\* An earlier settlement of the run had frames of the same numbers of rows, all that
\* the stamp tells settlements apart by.
Again(t) == \E n \in Analysis : n < frames[t] /\ analysed[n] = analysed[frames[t]]

\* A page is given the branches of exactly the frames its manifest names, from
\* every file it reads, and never an error, whatever was resumed, made again with
\* other rows, lost, rewritten or cut short by a kill: unless a build wrote, or a
\* frame was made again that this thread works from, while it was at it, two builds
\* met, or the manifest was settled on the rows of an earlier one. But for these "a
\* write that stops short leaves a cache no reader will claim" (branch_cache.py) is so.
PagesGetTheRunsBranches ==
  \A t \in Thread : ~crossed[t] /\ ~outrun[t] /\ ~overlapped /\ ~Again(t) =>
    /\ pc[t] # "failed"
    /\ pc[t] = "served" => got[t] = {frames[t]}

\* Builds of one settlement that meet, the executor's and its pages', spoil
\* nothing for good: once they are done, a stamp vouches for whole files.
QuietCacheIsWhole ==
  (\A t \in Thread : handle[t] = None) /\ crashes = 0 /\ ~resumed =>
    \A n \in Analysis : files[Stamp] = {n} =>
      \A f \in FilesOf(analysed[n]) : files[f] = {n}

\* "A write that stops short leaves a cache no reader will claim"
\* (branch_cache.py), whoever else was writing.
NoReaderClaimsACutFile ==
  \A t \in Thread : pc[t] = "reading" =>
    \A f \in FilesOf(analysed[frames[t]]) : Cut \notin files[f]
=============================================================================
