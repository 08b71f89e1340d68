----------------------------- MODULE Authoring -----------------------------
(***************************************************************************)
(* The drafts and the versions of one project's workflow, and the turns    *)
(* that generate into them: services/drafts.py, services/stage_edit.py,    *)
(* services/versioning.py, services/generation.py, web/routers/node.py and *)
(* the completion hook of core/agent/turns.py.                             *)
(*                                                                         *)
(* An agent's tool call runs on the event loop, start to end; a hand edit  *)
(* runs on a thread beside it, and the two meet between store calls.  A    *)
(* workflow is abstracted to the set of its stages: what a stage says is   *)
(* left out, and its only flaw is an input that is not there.              *)
(***************************************************************************)
EXTENDS Naturals, Sequences, FiniteSets, SequencesExt

CONSTANTS
  Stage,        \* the stages a workflow may hold
  Sorted,       \* those, each after its inputs
  Inputs,       \* the stages each reads
  Chat,         \* the agents, each with a draft of its own
  Hand,         \* the threads that serve hand edits
  Loop,         \* the event loop
  MaxVersions,  \* bound: versions minted
  MaxDrafts     \* bound: drafts created

ASSUME AuthoringConstants ==
  /\ Inputs \in [Stage -> SUBSET Stage]
  /\ IsInjective(Sorted) /\ ToSet(Sorted) = Stage
  /\ \A i \in DOMAIN Sorted : Inputs[Sorted[i]] \subseteq {Sorted[j] : j \in 1..(i - 1)}
  /\ Loop \notin Hand /\ MaxVersions \in Nat /\ MaxDrafts \in Nat

VARIABLES
  versions,  \* the WorkflowVersion records, by id
  minted,    \* the newest id of mint_timestamp_id, in memory
  drafts,    \* the Draft records
  held,      \* the draft each agent holds, 0 for none
  saves,     \* the save_version each thread is in
  job,       \* the last turn that generated a stage's tests or a guide
  killed  \* observed: the process was killed

authoringVars == <<versions, minted, drafts, held, saves, job, killed>>

Proc == Hand \cup {Loop}

\* `hook`: the save is that of the job; `seen` is the newest version when it checked.
Idle == [at |-> "idle", draft |-> 0, override |-> FALSE, seen |-> 0, id |-> 0, hook |-> FALSE]

\* `active` is the session's active_turn, `on` the stage tests are generated for.
NoJob == [at |-> "none", of |-> "none", on |-> 0,
          active |-> FALSE, failed |-> FALSE, stored |-> FALSE]

AuthoringInit ==
  /\ versions = <<>> /\ minted = 0 /\ drafts = <<>>
  /\ held = [c \in Chat |-> 0] /\ saves = [p \in Proc |-> Idle]
  /\ job = NoJob
  /\ killed = FALSE

-----------------------------------------------------------------------------
\* The graph issues of validate_workflow.
Valid(stages) == \A s \in stages : Inputs[s] \subseteq stages

\* find_latest_version_id
Latest == IF DOMAIN versions = {} THEN 0
          ELSE CHOOSE v \in DOMAIN versions : \A u \in DOMAIN versions : u <= v

\* create_draft
Draft(parent) ==
  [parent |-> parent, stages |-> IF parent = 0 THEN {} ELSE versions[parent].stages]

\* The loop is between two handlers.
LoopFree == saves[Loop] = Idle /\ job.at \notin {"hooked", "saving"}

\* Versions still to be minted; the guards of the bounds.
Room ==
  Cardinality({p \in Proc : saves[p].at \in {"saving", "minting"}}) + minted < MaxVersions

-----------------------------------------------------------------------------
(***************************************************************************)
(* Plausible bugs.  No behaviour of the specification uses the operators   *)
(* of this section: each stands in for the definition its name begins      *)
(* with, to show that a property notices the difference.                   *)
(***************************************************************************)

\* A stage is deleted whoever reads it.
DeletableAnyway(stages, s) == s \in stages

\* A draft is compared with its own base.
LostNothing(d) == 0

\* The draft keeps the base it began with.
RebaseNothing(draft, id) == draft

\* A conflict is nobody's failure.
UnsavedInSilence == [job EXCEPT !.at = "over"]

-----------------------------------------------------------------------------
(* An agent's tools.                                                       *)

\* start_editing
StartEditing(c) ==
  /\ LoopFree /\ Len(drafts) < MaxDrafts
  /\ drafts' = Append(drafts, Draft(Latest))
  /\ held' = [held EXCEPT ![c] = Len(drafts) + 1]
  /\ UNCHANGED <<versions, minted, saves, job, killed>>

\* add_stage_specs.  In dependency order, so that the fate of its inputs is known,
\* a stage of the batch is skipped behind an input that failed or was skipped,
\* refused when it is there already, is flawed itself or reads what is not there,
\* and added.
Outcomes(stages, batch, flawed) ==
  {o \in [added : SUBSET batch, failed : SUBSET batch, skipped : SUBSET batch] :
     \A s \in batch :
       LET blocked == Inputs[s] \cap (o.failed \cup o.skipped) # {}
           refused == s \in stages \cup flawed \/ ~Inputs[s] \subseteq stages \cup o.added IN
       /\ s \in o.skipped <=> blocked
       /\ s \in o.failed <=> ~blocked /\ refused
       /\ s \in o.added <=> ~blocked /\ ~refused}

AddStages(c, batch, flawed) ==
  /\ LoopFree /\ held[c] # 0
  /\ \E o \in Outcomes(drafts[held[c]].stages, batch, flawed) :
       drafts' = [drafts EXCEPT ![held[c]].stages = @ \cup o.added]
  /\ UNCHANGED <<versions, minted, held, saves, job, killed>>

\* delete_stage_spec
Deletable(stages, s) == s \in stages /\ Valid(stages \ {s})

DeleteStage(c, s) ==
  /\ LoopFree /\ held[c] # 0 /\ Deletable(drafts[held[c]].stages, s)
  /\ drafts' = [drafts EXCEPT ![held[c]].stages = @ \ {s}]
  /\ UNCHANGED <<versions, minted, held, saves, job, killed>>

\* save_version, called.
Saving(p, draft, override, hook) ==
  saves' = [saves EXCEPT ![p] = [Idle EXCEPT !.at = "saving", !.draft = draft,
                                             !.override = override, !.hook = hook]]

SaveVersion(c, override) ==
  /\ LoopFree /\ held[c] # 0 /\ Room
  /\ Saving(Loop, held[c], override, FALSE)
  /\ UNCHANGED <<versions, minted, drafts, held, job, killed>>

-----------------------------------------------------------------------------
(* node_edit: a draft of the newest version, edited and saved.             *)

HandEdit(h, s) ==
  /\ saves[h] = Idle /\ Room /\ Len(drafts) < MaxDrafts
  /\ drafts' = Append(drafts, Draft(Latest))
  /\ IF s \in Draft(Latest).stages THEN Saving(h, Len(drafts) + 1, FALSE, FALSE)
     ELSE UNCHANGED saves
  /\ UNCHANGED <<versions, minted, held, job, killed>>

-----------------------------------------------------------------------------
(* save_version, on the loop or on a thread.                               *)

\* _find_lost_version
Lost(d) ==
  IF drafts[d].parent \in {0, Latest} THEN 0 ELSE Latest

\* What was generated is not saved, and the hook records the failure.
Unsaved == [job EXCEPT !.at = "over", !.failed = TRUE]

Check(p) ==
  LET save == saves[p]
      lost == Lost(save.draft) IN
  /\ save.at = "saving"
  /\ IF lost # 0 /\ ~save.override
     THEN /\ saves' = [saves EXCEPT ![p] = Idle]
          /\ job' = IF save.hook THEN Unsaved ELSE job
     ELSE /\ saves' = [saves EXCEPT ![p].at = "minting", ![p].seen = Latest,
                                     ![p].override = lost # 0]
          /\ UNCHANGED job
  /\ UNCHANGED <<versions, minted, drafts, held, killed>>

\* mint_timestamp_id
Mint(p) ==
  /\ saves[p].at = "minting"
  /\ minted' = minted + 1
  /\ saves' = [saves EXCEPT ![p].at = "writing", ![p].id = minted + 1]
  /\ UNCHANGED <<versions, drafts, held, job, killed>>

\* create_version_from_stages.  A version is blind when it overrode a conflict, or
\* another was stored since its draft was compared with the newest.
Write(p) ==
  LET save == saves[p]
      draft == drafts[save.draft]
      version == [stages |-> draft.stages, parent |-> draft.parent, draft |-> save.draft,
                  blind |-> save.override \/ save.seen # Latest] IN
  /\ save.at = "writing"
  /\ versions' = [v \in DOMAIN versions \cup {save.id} |->
                    IF v = save.id THEN version ELSE versions[v]]
  /\ saves' = [saves EXCEPT ![p].at = "rebasing"]
  /\ UNCHANGED <<minted, drafts, held, job, killed>>

Rebased(draft, id) == [draft EXCEPT !.parent = id]

Stored == [job EXCEPT !.at = "over", !.stored = TRUE]

\* The draft now stands on the version it became, and the save is over.
Rebase(p) ==
  LET save == saves[p] IN
  /\ save.at = "rebasing"
  /\ drafts' = [drafts EXCEPT ![save.draft] = Rebased(@, save.id)]
  /\ saves' = [saves EXCEPT ![p] = Idle]
  /\ job' = IF save.hook THEN Stored ELSE job
  /\ UNCHANGED <<versions, minted, held, killed>>

-----------------------------------------------------------------------------
(* Generation.                                                             *)

\* start_stage_test_generation, of a stage of the newest version, and
\* start_review_guide_generation; which version the guide is of is left out.
StartJob(kind, on) ==
  /\ LoopFree /\ job.at # "running"
  /\ job' = [NoJob EXCEPT !.at = "running", !.of = kind, !.on = on, !.active = TRUE]
  /\ UNCHANGED <<versions, minted, drafts, held, saves, killed>>

\* TurnManager._run: the turn is over, the session is no longer active and the
\* completion hook is next.
EndTurn ==
  /\ LoopFree /\ job.at = "running"
  /\ job' = [job EXCEPT !.at = "hooked", !.active = FALSE]
  /\ UNCHANGED <<versions, minted, drafts, held, saves, killed>>

\* No answer was submitted, or it does not fit: persist_generation_failure.
Refuse ==
  /\ job.at = "hooked"
  /\ job' = Unsaved
  /\ UNCHANGED <<versions, minted, drafts, held, saves, killed>>

\* _finish_stage_tests: the newest version, patched, unless the stage is gone.
FinishTests ==
  LET draft == Draft(Latest) IN
  /\ job.at = "hooked" /\ job.of = "tests" /\ Room /\ Len(drafts) < MaxDrafts
  /\ drafts' = Append(drafts, draft)
  /\ IF job.on \in draft.stages
     THEN /\ Saving(Loop, Len(drafts) + 1, FALSE, TRUE)
          /\ job' = [job EXCEPT !.at = "saving"]
     ELSE job' = Unsaved /\ UNCHANGED saves
  /\ UNCHANGED <<versions, minted, held, killed>>

\* _finish_review_guide: the guide is stored as the version's newest.
FinishGuide ==
  /\ job.at = "hooked" /\ job.of = "guide"
  /\ job' = Stored
  /\ UNCHANGED <<versions, minted, drafts, held, saves, killed>>

-----------------------------------------------------------------------------
\* The process is killed at work, which is when it matters; the next one
\* mints past every id stored.
Kill ==
  /\ job.at \in {"running", "hooked", "saving"} \/ \E p \in Proc : saves[p] # Idle
  /\ saves' = [p \in Proc |-> Idle]
  /\ minted' = Latest
  /\ job' = IF job.at \in {"running", "hooked", "saving"} THEN [job EXCEPT !.at = "dead"]
            ELSE job
  /\ killed' = TRUE
  /\ UNCHANGED <<versions, drafts, held>>

Agents ==
  \E c \in Chat :
    \/ StartEditing(c)
    \/ \E batch \in SUBSET Stage : \E flawed \in SUBSET batch : AddStages(c, batch, flawed)
    \/ \E s \in Stage : DeleteStage(c, s)
    \/ \E override \in BOOLEAN : SaveVersion(c, override)

Saves == \E p \in Proc : Check(p) \/ Mint(p) \/ Write(p) \/ Rebase(p)

Generation ==
  \/ \E s \in Draft(Latest).stages : StartJob("tests", s)
  \/ Latest # 0 /\ StartJob("guide", 0)
  \/ EndTurn \/ Refuse \/ FinishTests \/ FinishGuide

AuthoringNext == Agents \/ (\E h \in Hand, s \in Stage : HandEdit(h, s)) \/ Saves \/ Generation \/ Kill

AuthoringSpec == AuthoringInit /\ [][AuthoringNext]_authoringVars

-----------------------------------------------------------------------------
(* Properties.                                                             *)

(* Whatever the agents add and delete and whoever saves it, every draft and  *)
(* every version is a workflow that loads (stage_edit._apply, save_version).*)
EveryWorkflowIsWhole ==
  /\ \A d \in DOMAIN drafts : Valid(drafts[d].stages)
  /\ \A v \in DOMAIN versions : Valid(versions[v].stages)

(* Changes are left behind only knowingly or in a race: a version that       *)
(* neither overrode a conflict nor was overtaken while it was saved stands on *)
(* every older one, down to its base, that was not itself blind              *)
(* (_find_lost_version).                                                     *)
NothingIsLeftBehind ==
  \A v \in DOMAIN versions :
    ~versions[v].blind /\ versions[v].parent # 0 =>
      \A u \in DOMAIN versions : versions[v].parent < u /\ u < v => versions[u].blind

(* A draft that is not being saved never lost the version it was itself      *)
(* saved as, unless the process died between the save of the version and     *)
(* that of the draft (save_version).                                        *)
NoConflictWithItself ==
  \A d \in DOMAIN drafts :
    ~killed /\ Lost(d) # 0 /\ (\A p \in Proc : saves[p].draft # d) =>
      versions[Lost(d)].draft # d

(* A generation that is over stored what it generated or says why not, never *)
(* neither and never both (the completion hooks of stage_tests.py and       *)
(* review_guide.py).                                                        *)
GenerationIsAccountedFor ==
  job.at = "over" => job.stored # job.failed

=============================================================================
