------------------------------ MODULE AgentsProof ------------------------------
(***************************************************************************)
(* The proofs about the agents of a project: the drafts they edit and the  *)
(* versions that come of them (Authoring), what the stages of a version are*)
(* accepted for (SavedStages), and the turns of a chat session and the     *)
(* panels that show it (ChatTurns), a system of its own.                   *)
(* For any stages, agents and threads, a process killed at any point       *)
(* included, every version loads, leaves nothing behind but knowingly or   *)
(* in a race, and no draft is in conflict with itself.  Over any columns,  *)
(* a stage that is accepted runs as promised, but for the cases named.  For*)
(* any replies, panels and messages, the CLI remembers what the page shows *)
(* and a panel at rest misses no answer.                                   *)
(***************************************************************************)
EXTENDS SavedStages, ChatTurns, SequenceTheorems, FiniteSetTheorems, WellFoundedInduction,
        TLAPS

-----------------------------------------------------------------------------
(***************************************************************************)
(* Drafts and versions.                                                    *)
(***************************************************************************)

Busy == {"saving", "minting", "writing", "rebasing"}

DraftRecord == [parent : Nat, stages : SUBSET Stage]
VersionRecord == [stages : SUBSET Stage, parent : Nat, draft : Nat, blind : BOOLEAN]
SaveRecord ==
  [at : Busy \cup {"idle"}, draft : 0..Len(drafts), override : BOOLEAN,
   seen : Nat, id : Nat, hook : BOOLEAN]
JobRecord ==
  [at : {"none", "running", "hooked", "saving", "over", "dead"},
   of : {"none", "tests", "guide"}, on : Stage \cup {0},
   active : BOOLEAN, failed : BOOLEAN, stored : BOOLEAN]

AuthoringTypeOK ==
  /\ minted \in Nat /\ DOMAIN versions \subseteq 1..minted
  /\ \A v \in DOMAIN versions : versions[v] \in VersionRecord
  /\ drafts \in Seq(DraftRecord)
  /\ held \in [Chat -> 0..Len(drafts)]
  /\ saves \in [Proc -> SaveRecord]
  /\ job \in JobRecord

\* A draft was made of a version, or of none.
StandsOnAVersion == \A d \in DOMAIN drafts : drafts[d].parent \in DOMAIN versions \cup {0}

\* No two threads save a draft, and none but the loop saves an agent's.
OneSavesADraft ==
  /\ \A p \in Proc : saves[p].at = "idle" => saves[p] = Idle
  /\ \A p \in Proc : saves[p].at # "idle" => saves[p].draft # 0
  /\ \A p, q \in Proc : saves[p].draft = saves[q].draft /\ saves[p].draft # 0 => p = q
  /\ \A h \in Hand, c \in Chat : saves[h].draft = held[c] => held[c] = 0

\* A save that overrides nothing is of a draft that stands on the newest version it
\* saw, and its id comes after that one and after the draft's base.
SavesAreInOrder ==
  \A p \in Proc :
    LET save == saves[p] IN
    /\ save.at \in {"minting", "writing"} /\ ~save.override =>
         drafts[save.draft].parent \in {0, save.seen}
    /\ save.at = "minting" => save.seen <= minted
    /\ save.at = "writing" => save.seen < save.id
    /\ save.at \in {"writing", "rebasing"} =>
         save.id \in 1..minted /\ drafts[save.draft].parent < save.id
    /\ save.at = "rebasing" => save.id \in DOMAIN versions

\* A draft stands on the version it was saved as or on a later one, or is about to.
DraftsKeepUp ==
  \A v \in DOMAIN versions :
    LET d == versions[v].draft IN
    /\ d \in DOMAIN drafts
    /\ \/ killed
       \/ v <= drafts[d].parent
       \/ \E p \in Proc : saves[p].at = "rebasing" /\ saves[p].draft = d /\ saves[p].id = v

\* A generation has no outcome before it is over, and its save is the loop's.
JobIsOpen ==
  /\ IF job.at = "over" THEN job.stored # job.failed ELSE ~job.stored /\ ~job.failed
  /\ job.at = "hooked" => saves[Loop] = Idle
  /\ \A p \in Proc : saves[p].hook => p = Loop /\ job.at = "saving"

AuthoringInv ==
  /\ AuthoringTypeOK
  /\ EveryWorkflowIsWhole
  /\ StandsOnAVersion
  /\ OneSavesADraft
  /\ SavesAreInOrder
  /\ DraftsKeepUp
  /\ JobIsOpen
  /\ NothingIsLeftBehind

-----------------------------------------------------------------------------
\* find_latest_version_id finds the newest version, or none when there is none.
LEMMA LatestIsNewest ==
  ASSUME AuthoringTypeOK
  PROVE  /\ Latest \in DOMAIN versions \cup {0}
         /\ Latest \in 0..minted
         /\ \A u \in DOMAIN versions : u <= Latest /\ Latest # 0
<1>1. minted \in Nat /\ DOMAIN versions \subseteq 1..minted
  BY DEF AuthoringTypeOK
<1>2. CASE DOMAIN versions = {}
  BY <1>1, <1>2 DEF Latest
<1>3. CASE DOMAIN versions # {}
  <2> DEFINE T == {minted - u : u \in DOMAIN versions}
  <2>1. T \subseteq Nat /\ T # {}
    BY <1>1, <1>3
  <2>2. IsWellFoundedOn(OpToRel(<, Nat), Nat)
    BY NatLessThanWellFounded
  <2>3. PICK x \in T : \A y \in T : ~ (<<y, x>> \in OpToRel(<, Nat))
    BY <2>1, <2>2, WFMin, Zenon
  <2>4. \A y \in T : ~ (y < x)
    BY <2>1, <2>3, Zenon DEF OpToRel
  <2>5. PICK v \in DOMAIN versions : x = minted - v
    BY <2>3
  <2>6. ASSUME NEW u \in DOMAIN versions  PROVE u <= v
    <3>1. ~ (minted - u < minted - v)
      BY <2>4, <2>5
    <3>. QED  BY <1>1, <3>1
  <2>7. Latest \in DOMAIN versions /\ \A u \in DOMAIN versions : u <= Latest
    <3>1. \E w \in DOMAIN versions : \A u \in DOMAIN versions : u <= w
      BY <2>6
    <3>. QED  BY <1>3, <3>1, Zenon DEF Latest
  <2>. QED  BY <1>1, <2>7
<1>. QED  BY <1>2, <1>3

LEMMA LatestIsAVersion ==
  ASSUME AuthoringTypeOK, EveryWorkflowIsWhole
  PROVE  /\ Draft(Latest) \in DraftRecord
         /\ Draft(Latest).parent = Latest
         /\ Valid(Draft(Latest).stages)
<1>1. CASE Latest = 0
  BY <1>1 DEF Draft, DraftRecord, Valid
<1>2. CASE Latest # 0
  <2>1. Latest \in DOMAIN versions /\ Latest \in Nat
    BY <1>2, LatestIsNewest DEF AuthoringTypeOK
  <2>2. versions[Latest].stages \in SUBSET Stage /\ Valid(versions[Latest].stages)
    BY <2>1 DEF AuthoringTypeOK, VersionRecord, EveryWorkflowIsWhole
  <2>. QED  BY <1>2, <2>1, <2>2 DEF Draft, DraftRecord
<1>. QED  BY <1>1, <1>2

\* create_draft: one draft more, whole, that stands on the newest version.
LEMMA DraftIsAdded ==
  ASSUME AuthoringTypeOK, EveryWorkflowIsWhole, StandsOnAVersion,
         drafts' = Append(drafts, Draft(Latest)), UNCHANGED versions
  PROVE  /\ drafts' \in Seq(DraftRecord) /\ Len(drafts) \in Nat /\ Len(drafts') = Len(drafts) + 1
         /\ DOMAIN drafts = 1..Len(drafts) /\ DOMAIN drafts' = 1..(Len(drafts) + 1)
         /\ \A d \in DOMAIN drafts : drafts'[d] = drafts[d]
         /\ StandsOnAVersion' /\ EveryWorkflowIsWhole'
<1>1. Draft(Latest) \in DraftRecord /\ drafts \in Seq(DraftRecord)
  BY LatestIsAVersion DEF AuthoringTypeOK
<1>2. /\ drafts' \in Seq(DraftRecord) /\ Len(drafts) \in Nat /\ Len(drafts') = Len(drafts) + 1
      /\ DOMAIN drafts = 1..Len(drafts) /\ DOMAIN drafts' = 1..(Len(drafts) + 1)
      /\ \A d \in DOMAIN drafts : drafts'[d] = drafts[d]
      /\ drafts'[Len(drafts) + 1] = Draft(Latest)
  <2>. HIDE DEF DraftRecord
  <2>. QED  BY <1>1
<1>3. Draft(Latest).parent \in DOMAIN versions \cup {0} /\ Valid(Draft(Latest).stages)
  BY LatestIsNewest, LatestIsAVersion
<1>4. StandsOnAVersion'
  BY <1>2, <1>3 DEF StandsOnAVersion
<1>5. EveryWorkflowIsWhole'
  BY <1>2, <1>3 DEF EveryWorkflowIsWhole, Valid
<1>. QED  BY <1>2, <1>4, <1>5

\* An edit leaves a draft where it stands.
LEMMA DraftIsEdited ==
  ASSUME AuthoringTypeOK, EveryWorkflowIsWhole, StandsOnAVersion, UNCHANGED versions,
         NEW d \in DOMAIN drafts, NEW S \in SUBSET Stage, Valid(S),
         drafts' = [drafts EXCEPT ![d].stages = S]
  PROVE  /\ drafts' \in Seq(DraftRecord) /\ Len(drafts') = Len(drafts)
         /\ DOMAIN drafts' = DOMAIN drafts
         /\ \A e \in DOMAIN drafts : drafts'[e].parent = drafts[e].parent
         /\ StandsOnAVersion' /\ EveryWorkflowIsWhole'
<1>1. drafts \in Seq(DraftRecord) /\ drafts[d] \in DraftRecord
  BY DEF AuthoringTypeOK
<1>2. [drafts[d] EXCEPT !.stages = S] \in DraftRecord
  BY <1>1 DEF DraftRecord
<1>3. drafts' = [drafts EXCEPT ![d] = [drafts[d] EXCEPT !.stages = S]]
  OBVIOUS
<1>4. drafts' \in Seq(DraftRecord) /\ Len(drafts') = Len(drafts) /\ DOMAIN drafts' = DOMAIN drafts
  BY <1>1, <1>2, <1>3, ExceptSeq
<1>5. \A e \in DOMAIN drafts : /\ drafts'[e].parent = drafts[e].parent
                               /\ drafts'[e].stages = IF e = d THEN S ELSE drafts[e].stages
  BY <1>1, <1>3 DEF DraftRecord
<1>. QED  BY <1>4, <1>5 DEF StandsOnAVersion, EveryWorkflowIsWhole, Valid

-----------------------------------------------------------------------------
\* What an action leaves as it is stays true of it.
LEMMA NothingMovesHolds ==
  ASSUME AuthoringInv, UNCHANGED authoringVars
  PROVE  AuthoringInv'
<1>1. AuthoringTypeOK'
  BY DEF AuthoringInv, AuthoringTypeOK, authoringVars, SaveRecord, Proc
<1>2. EveryWorkflowIsWhole' /\ StandsOnAVersion' /\ DraftsKeepUp' /\ NothingIsLeftBehind'
  BY DEF AuthoringInv, EveryWorkflowIsWhole, StandsOnAVersion, DraftsKeepUp,
         NothingIsLeftBehind, Valid, authoringVars, Proc
<1>3. OneSavesADraft' /\ SavesAreInOrder' /\ JobIsOpen'
  BY DEF AuthoringInv, OneSavesADraft, SavesAreInOrder, JobIsOpen, authoringVars, Proc
<1>. QED  BY <1>1, <1>2, <1>3 DEF AuthoringInv

LEMMA AuthoringInitHolds == AuthoringInit => AuthoringInv
<1> SUFFICES ASSUME AuthoringInit  PROVE AuthoringInv
  OBVIOUS
<1>1. DOMAIN versions = {} /\ DOMAIN drafts = {} /\ Len(drafts) = 0
  BY DEF AuthoringInit
<1>2. AuthoringTypeOK
  BY <1>1 DEF AuthoringInit, AuthoringTypeOK, SaveRecord, JobRecord, Idle, NoJob
<1>. QED  BY <1>1, <1>2 DEF AuthoringInit, AuthoringInv, EveryWorkflowIsWhole, StandsOnAVersion,
       OneSavesADraft, SavesAreInOrder, DraftsKeepUp, JobIsOpen, NothingIsLeftBehind, Idle, NoJob,
       Proc

-----------------------------------------------------------------------------
(* The drafts.                                                             *)

\* What a new draft leaves as it is.
LEMMA OldDraftsKeepUp ==
  ASSUME AuthoringInv, UNCHANGED <<versions, minted, killed>>,
         DOMAIN drafts \subseteq DOMAIN drafts',
         \A d \in DOMAIN drafts : drafts'[d].parent = drafts[d].parent,
         \A p \in Proc : saves[p].at = "rebasing" => saves'[p] = saves[p]
  PROVE  DraftsKeepUp' /\ NothingIsLeftBehind'
<1>1. DraftsKeepUp'
  BY DEF AuthoringInv, DraftsKeepUp, Proc
<1>2. NothingIsLeftBehind'
  BY DEF AuthoringInv, NothingIsLeftBehind
<1>. QED  BY <1>1, <1>2

LEMMA StartEditingHolds ==
  ASSUME AuthoringInv, NEW c \in Chat, StartEditing(c)
  PROVE  AuthoringInv'
<1>. USE DEF AuthoringInv
<1>1. /\ drafts' = Append(drafts, Draft(Latest)) /\ held' = [held EXCEPT ![c] = Len(drafts) + 1]
      /\ UNCHANGED <<versions, minted, saves, job, killed>>
  BY DEF StartEditing
<1>2. /\ drafts' \in Seq(DraftRecord) /\ Len(drafts) \in Nat /\ Len(drafts') = Len(drafts) + 1
      /\ DOMAIN drafts = 1..Len(drafts) /\ DOMAIN drafts' = 1..(Len(drafts) + 1)
      /\ \A d \in DOMAIN drafts : drafts'[d] = drafts[d]
      /\ StandsOnAVersion' /\ EveryWorkflowIsWhole'
  BY <1>1, DraftIsAdded
<1>3. AuthoringTypeOK'
  BY <1>1, <1>2 DEF AuthoringTypeOK, SaveRecord, Proc
<1>4. DraftsKeepUp' /\ NothingIsLeftBehind'
  BY <1>1, <1>2, OldDraftsKeepUp
<1>5. \A p \in Proc : saves[p].draft \in 0..Len(drafts)
  BY DEF AuthoringTypeOK, SaveRecord
<1>6. OneSavesADraft'
  BY <1>1, <1>2, <1>5 DEF OneSavesADraft, Proc, AuthoringTypeOK
<1>7. SavesAreInOrder'
  BY <1>1, <1>2, <1>5 DEF SavesAreInOrder, OneSavesADraft, Proc
<1>8. JobIsOpen'
  BY <1>1 DEF JobIsOpen, Proc
<1>. QED  BY <1>2, <1>3, <1>4, <1>6, <1>7, <1>8

\* The drafts' stages change, and nothing else.
LEMMA EditHolds ==
  ASSUME AuthoringInv, NEW d \in DOMAIN drafts, NEW S \in SUBSET Stage, Valid(S),
         drafts' = [drafts EXCEPT ![d].stages = S],
         UNCHANGED <<versions, minted, held, saves, job, killed>>
  PROVE  AuthoringInv'
<1>. USE DEF AuthoringInv
<1>1. /\ drafts' \in Seq(DraftRecord) /\ Len(drafts') = Len(drafts)
      /\ DOMAIN drafts' = DOMAIN drafts
      /\ \A e \in DOMAIN drafts : drafts'[e].parent = drafts[e].parent
      /\ StandsOnAVersion' /\ EveryWorkflowIsWhole'
  BY DraftIsEdited
<1>2. AuthoringTypeOK'
  BY <1>1 DEF AuthoringTypeOK, SaveRecord, Proc
<1>3. DraftsKeepUp' /\ NothingIsLeftBehind'
  BY <1>1, OldDraftsKeepUp
<1>4. \A p \in Proc : saves[p].at # "idle" => saves[p].draft \in DOMAIN drafts
  BY DEF AuthoringTypeOK, SaveRecord, OneSavesADraft
<1>5. OneSavesADraft' /\ JobIsOpen'
  BY DEF OneSavesADraft, JobIsOpen, Proc
<1>6. SavesAreInOrder'
  BY <1>1, <1>4 DEF SavesAreInOrder, Proc
<1>. QED  BY <1>1, <1>2, <1>3, <1>5, <1>6

\* add_stage_specs: what is added reads what is there or is added with it.
LEMMA AddStagesHolds ==
  ASSUME AuthoringInv, NEW c \in Chat, NEW batch \in SUBSET Stage, NEW flawed \in SUBSET batch,
         AddStages(c, batch, flawed)
  PROVE  AuthoringInv'
<1> DEFINE d == held[c]
           stages == drafts[d].stages
<1>1. d \in DOMAIN drafts /\ drafts \in Seq(DraftRecord) /\ drafts[d] \in DraftRecord
  BY DEF AuthoringInv, AuthoringTypeOK, AddStages
<1>2. stages \in SUBSET Stage /\ Valid(stages)
  BY <1>1 DEF AuthoringInv, EveryWorkflowIsWhole, DraftRecord
<1>3. PICK o \in Outcomes(stages, batch, flawed) : drafts' = [drafts EXCEPT ![d].stages = @ \cup o.added]
  BY DEF AddStages
<1>4. o.added \in SUBSET batch /\ \A s \in o.added : Inputs[s] \subseteq stages \cup o.added
  BY DEF Outcomes
<1>5. stages \cup o.added \in SUBSET Stage /\ Valid(stages \cup o.added)
  BY <1>2, <1>4 DEF Valid
<1>6. drafts' = [drafts EXCEPT ![d].stages = stages \cup o.added]
  BY <1>1, <1>3
<1>7. UNCHANGED <<versions, minted, held, saves, job, killed>>
  BY DEF AddStages
<1>. HIDE DEF d, stages
<1>. QED  BY <1>1, <1>5, <1>6, <1>7, EditHolds

\* delete_stage_spec: what is left does not read what is gone.
LEMMA DeleteStageHolds ==
  ASSUME AuthoringInv, NEW c \in Chat, NEW s \in Stage, DeleteStage(c, s)
  PROVE  AuthoringInv'
<1> DEFINE d == held[c]
           stages == drafts[d].stages
<1>1. d \in DOMAIN drafts /\ drafts \in Seq(DraftRecord) /\ drafts[d] \in DraftRecord
  BY DEF AuthoringInv, AuthoringTypeOK, DeleteStage
<1>2. stages \ {s} \in SUBSET Stage /\ Valid(stages \ {s})
  BY <1>1 DEF DeleteStage, Deletable, DraftRecord
<1>3. drafts' = [drafts EXCEPT ![d].stages = stages \ {s}]
  BY <1>1 DEF DeleteStage
<1>4. UNCHANGED <<versions, minted, held, saves, job, killed>>
  BY DEF DeleteStage
<1>. HIDE DEF d, stages
<1>. QED  BY <1>1, <1>2, <1>3, <1>4, EditHolds

-----------------------------------------------------------------------------
(* The saves.                                                              *)

\* save_version is called on a draft that nobody saves and no other agent holds.
LEMMA SavingHolds ==
  ASSUME AuthoringInv, NEW p \in Proc, NEW d \in 1..Len(drafts), NEW override \in BOOLEAN,
         NEW hook \in BOOLEAN, saves[p] = Idle, Saving(p, d, override, hook)
  PROVE  /\ saves' \in [Proc -> SaveRecord]
         /\ saves'[p].draft = d /\ saves'[p].at = "saving" /\ saves'[p].hook = hook
         /\ \A q \in Proc : q # p => saves'[q] = saves[q]
         /\ \A q \in Proc : saves[q].at = "rebasing" => saves'[q] = saves[q]
<1>1. saves \in [Proc -> SaveRecord] /\ Len(drafts) \in Nat
  BY DEF AuthoringInv, AuthoringTypeOK
<1> DEFINE save == [Idle EXCEPT !.at = "saving", !.draft = d, !.override = override, !.hook = hook]
<1>2. /\ save \in SaveRecord /\ save.draft = d /\ save.at = "saving" /\ save.hook = hook
      /\ Idle.at = "idle"
  <2>1. d \in 0..Len(drafts)
    BY <1>1
  <2>2. Idle.at = "idle" /\ save.draft = d /\ save.at = "saving" /\ save.hook = hook
    BY DEF Idle
  <2> DEFINE D == 0..Len(drafts)
  <2>3. d \in D
    BY <2>1
  <2>. HIDE DEF D
  <2>4. save \in [at : Busy \cup {"idle"}, draft : D, override : BOOLEAN,
                  seen : Nat, id : Nat, hook : BOOLEAN]
    BY <2>3 DEF Idle, Busy
  <2>. QED  BY <2>2, <2>4 DEF SaveRecord, D
<1>3. saves' = [saves EXCEPT ![p] = save]
  BY DEF Saving
<1>. HIDE DEF save
<1>. QED  BY <1>1, <1>2, <1>3

LEMMA SaveVersionHolds ==
  ASSUME AuthoringInv, NEW c \in Chat, NEW override \in BOOLEAN, SaveVersion(c, override)
  PROVE  AuthoringInv'
<1>0. held[c] \in 1..Len(drafts)
  BY DEF AuthoringInv, AuthoringTypeOK, SaveVersion
<1>1. /\ Loop \in Proc /\ saves[Loop] = Idle /\ job.at # "hooked"
      /\ Saving(Loop, held[c], override, FALSE)
      /\ UNCHANGED <<versions, minted, drafts, held, job, killed>>
  BY DEF SaveVersion, LoopFree, Proc
<1>2. /\ saves' \in [Proc -> SaveRecord]
      /\ saves'[Loop].draft = held[c] /\ saves'[Loop].at = "saving" /\ saves'[Loop].hook = FALSE
      /\ \A q \in Proc : q # Loop => saves'[q] = saves[q]
      /\ \A q \in Proc : saves[q].at = "rebasing" => saves'[q] = saves[q]
  BY <1>0, <1>1, SavingHolds
<1>. USE DEF AuthoringInv
<1>3. AuthoringTypeOK'
  BY <1>1, <1>2 DEF AuthoringTypeOK, SaveRecord, Proc
<1>4. EveryWorkflowIsWhole' /\ StandsOnAVersion'
  BY <1>1 DEF EveryWorkflowIsWhole, StandsOnAVersion
<1>5. DraftsKeepUp' /\ NothingIsLeftBehind'
  BY <1>1, <1>2, OldDraftsKeepUp
<1>6. OneSavesADraft'
  <2>1. \A q \in Proc : q # Loop => saves[q].draft # held[c]
    BY <1>0, <1>1 DEF OneSavesADraft, Proc
  <2>2. \A p, q \in Proc : saves'[p].draft = saves'[q].draft /\ saves'[p].draft # 0 => p = q
    BY <1>1, <1>2, <2>1 DEF OneSavesADraft
  <2>3. \A p \in Proc : /\ saves'[p].at = "idle" => saves'[p] = Idle
                        /\ saves'[p].at # "idle" => saves'[p].draft # 0
    BY <1>0, <1>1, <1>2 DEF OneSavesADraft
  <2>4. \A h \in Hand : h # Loop /\ h \in Proc
    BY AuthoringConstants DEF Proc
  <2>5. \A h \in Hand, e \in Chat : saves'[h].draft = held'[e] => held'[e] = 0
    BY <1>1, <1>2, <2>4 DEF OneSavesADraft
  <2>6. \A p \in Proc : saves'[p].at = "idle" => saves'[p] = Idle
    BY <2>3
  <2>7. (\A p \in Proc : saves[p].at # "idle" => saves[p].draft # 0)'
    BY <2>3 DEF Proc
  <2>8. (\A p, q \in Proc : saves[p].draft = saves[q].draft /\ saves[p].draft # 0 => p = q)'
    BY <2>2 DEF Proc
  <2>. QED  BY <2>5, <2>6, <2>7, <2>8 DEF OneSavesADraft
<1>7. SavesAreInOrder'
  BY <1>1, <1>2 DEF SavesAreInOrder, Proc
<1>8. JobIsOpen'
  BY <1>1, <1>2 DEF JobIsOpen, Proc
<1>. QED  BY <1>3, <1>4, <1>5, <1>6, <1>7, <1>8

\* node_edit
LEMMA HandEditHolds ==
  ASSUME AuthoringInv, NEW h \in Hand, NEW s \in Stage, HandEdit(h, s)
  PROVE  AuthoringInv'
<1>. USE DEF AuthoringInv
<1>1. /\ saves[h] = Idle /\ h \in Proc /\ drafts' = Append(drafts, Draft(Latest))
      /\ UNCHANGED <<versions, minted, held, job, killed>>
  BY DEF HandEdit, Proc
<1>2. /\ drafts' \in Seq(DraftRecord) /\ Len(drafts) \in Nat /\ Len(drafts') = Len(drafts) + 1
      /\ DOMAIN drafts = 1..Len(drafts) /\ DOMAIN drafts' = 1..(Len(drafts) + 1)
      /\ \A d \in DOMAIN drafts : drafts'[d] = drafts[d]
      /\ StandsOnAVersion' /\ EveryWorkflowIsWhole'
  BY <1>1, DraftIsAdded
<1> DEFINE d == Len(drafts) + 1
           Records == [at : Busy \cup {"idle"}, draft : 0..d, override : BOOLEAN,
                       seen : Nat, id : Nat, hook : BOOLEAN]
<1>3. /\ saves' \in [Proc -> Records]
      /\ saves'[h] = Idle \/ (saves'[h].draft = d /\ saves'[h].at = "saving" /\ saves'[h].hook = FALSE)
      /\ \A q \in Proc : q # h => saves'[q] = saves[q]
      /\ \A q \in Proc : saves[q].at = "rebasing" => saves'[q] = saves[q]
  <2>1. saves \in [Proc -> Records]
    BY <1>2 DEF AuthoringTypeOK, SaveRecord
  <2>2. CASE UNCHANGED saves
    BY <1>1, <2>1, <2>2
  <2>3. CASE Saving(h, d, FALSE, FALSE)
    <3> DEFINE save == [Idle EXCEPT !.at = "saving", !.draft = d, !.override = FALSE, !.hook = FALSE]
    <3>0. d \in 0..d
      BY <1>2
    <3>1. /\ save \in Records /\ save.draft = d /\ save.at = "saving" /\ save.hook = FALSE
          /\ Idle.at = "idle"
      <4>. HIDE DEF d
      <4>. QED  BY <3>0 DEF Idle, Busy
    <3>2. saves' = [saves EXCEPT ![h] = save]
      BY <2>3 DEF Saving
    <3>. HIDE DEF save, Records
    <3>. QED  BY <1>1, <2>1, <3>1, <3>2
  <2>. QED  BY <2>2, <2>3 DEF HandEdit
<1>4. AuthoringTypeOK'
  BY <1>1, <1>2, <1>3 DEF AuthoringTypeOK, SaveRecord, Proc
<1>5. DraftsKeepUp' /\ NothingIsLeftBehind'
  BY <1>1, <1>2, <1>3, OldDraftsKeepUp
<1>6. \A q \in Proc : saves[q].draft \in 0..Len(drafts)
  BY DEF AuthoringTypeOK, SaveRecord
<1>7. held \in [Chat -> 0..Len(drafts)]
  BY DEF AuthoringTypeOK
<1>8. OneSavesADraft'
  <2>0. Idle.draft = 0 /\ Idle.at = "idle" /\ d \in Nat \ (0..Len(drafts)) /\ d # 0
    BY <1>2 DEF Idle
  <2>1. \A q \in Proc : saves[q].draft # d
    BY <1>6, <2>0
  <2>2. \A p, q \in Proc : saves'[p].draft = saves'[q].draft /\ saves'[p].draft # 0 => p = q
    BY <1>1, <1>3, <2>0, <2>1 DEF OneSavesADraft
  <2>3. \A p \in Proc : /\ saves'[p].at = "idle" => saves'[p] = Idle
                        /\ saves'[p].at # "idle" => saves'[p].draft # 0
    BY <1>1, <1>3, <2>0 DEF OneSavesADraft
  <2>4. \A g \in Hand, e \in Chat : saves'[g].draft = held'[e] => held'[e] = 0
    <3>1. \A e \in Chat : held[e] # d
      BY <1>7, <2>0
    <3>. QED  BY <1>1, <1>3, <2>0, <3>1 DEF OneSavesADraft, Proc
  <2>6. \A p \in Proc : saves'[p].at = "idle" => saves'[p] = Idle
    BY <2>3
  <2>7. (\A p \in Proc : saves[p].at # "idle" => saves[p].draft # 0)'
    BY <2>3 DEF Proc
  <2>8. (\A p, q \in Proc : saves[p].draft = saves[q].draft /\ saves[p].draft # 0 => p = q)'
    BY <2>2 DEF Proc
  <2>9. (\A g \in Hand, e \in Chat : saves[g].draft = held[e] => held[e] = 0)'
    BY <2>4
  <2>. QED  BY <2>6, <2>7, <2>8, <2>9 DEF OneSavesADraft
<1>9. SavesAreInOrder'
  BY <1>1, <1>2, <1>3, <1>6 DEF SavesAreInOrder, OneSavesADraft, Proc, Idle
<1>10. JobIsOpen'
  BY <1>1, <1>3, AuthoringConstants DEF JobIsOpen, Proc, Idle
<1>. QED  BY <1>2, <1>4, <1>5, <1>8, <1>9, <1>10

\* A draft that lost nothing stands on the newest version, or on none.
LEMMA CheckHolds ==
  ASSUME AuthoringInv, NEW p \in Proc, Check(p)
  PROVE  AuthoringInv'
<1>. USE DEF AuthoringInv
<1> DEFINE save == saves[p]
           lost == Lost(save.draft)
<1>1. /\ saves \in [Proc -> SaveRecord] /\ save.at = "saving" /\ save.draft \in DOMAIN drafts
      /\ UNCHANGED <<versions, minted, drafts, held, killed>>
  BY DEF Check, AuthoringTypeOK, SaveRecord, OneSavesADraft
<1>2. Latest \in 0..minted /\ minted \in Nat /\ Latest \in Nat
  BY LatestIsNewest DEF AuthoringTypeOK
<1>3. /\ saves' \in [Proc -> SaveRecord]
      /\ \A q \in Proc : q # p => saves'[q] = saves[q]
      /\ \/ saves'[p] = Idle
         \/ /\ saves'[p].at = "minting" /\ saves'[p].draft = save.draft
            /\ saves'[p].hook = save.hook /\ saves'[p].seen = Latest
            /\ saves'[p].override = (lost # 0)
            /\ UNCHANGED job
      /\ job' \in {job, Unsaved}
      /\ job' # job => saves'[p] = Idle /\ save.hook
  <2>1. CASE lost # 0 /\ ~save.override
    <3>1. saves' = [saves EXCEPT ![p] = Idle] /\ job' = IF save.hook THEN Unsaved ELSE job
      BY <2>1 DEF Check
    <3>2. Idle \in SaveRecord
      BY <1>1 DEF Idle, SaveRecord, AuthoringTypeOK
    <3>. HIDE DEF SaveRecord
    <3>. QED  BY <1>1, <3>1, <3>2
  <2>2. CASE ~(lost # 0 /\ ~save.override)
    <3> DEFINE new == [save EXCEPT !.at = "minting", !.seen = Latest, !.override = lost # 0]
    <3>1. saves' = [saves EXCEPT ![p] = new] /\ UNCHANGED job
      BY <1>1, <2>2 DEF Check
    <3>2. /\ new \in SaveRecord /\ new.at = "minting" /\ new.draft = save.draft
          /\ new.hook = save.hook /\ new.seen = Latest /\ new.override = (lost # 0)
      BY <1>1, <1>2 DEF SaveRecord, Busy
    <3>. HIDE DEF new, SaveRecord
    <3>. QED  BY <1>1, <3>1, <3>2
  <2>. QED  BY <2>1, <2>2
<1>4. AuthoringTypeOK'
  BY <1>1, <1>3 DEF AuthoringTypeOK, SaveRecord, Proc, JobRecord, Unsaved
<1>5. EveryWorkflowIsWhole' /\ StandsOnAVersion'
  BY <1>1 DEF EveryWorkflowIsWhole, StandsOnAVersion
<1>6. DraftsKeepUp' /\ NothingIsLeftBehind'
  BY <1>1, <1>3, OldDraftsKeepUp
<1>7. OneSavesADraft'
  BY <1>1, <1>3 DEF OneSavesADraft, Proc, Idle
<1>8. lost = 0 => drafts[save.draft].parent \in {0, Latest}
  BY <1>1, LatestIsNewest DEF Lost, StandsOnAVersion
<1>9. SavesAreInOrder'
  <2>1. UNCHANGED <<drafts, minted, versions>> /\ Proc' = Proc
    BY <1>1 DEF Proc
  <2>2. \/ saves'[p].at = "idle"
        \/ /\ saves'[p].at = "minting" /\ saves'[p].draft = save.draft
           /\ saves'[p].seen = Latest /\ saves'[p].override = (lost # 0)
    BY <1>3 DEF Idle
  <2>3. \A q \in Proc : q # p => saves'[q] = saves[q]
    BY <1>3
  <2>4. Latest <= minted
    BY <1>2
  <2>. HIDE DEF lost
  <2>. QED  BY <1>8, <2>1, <2>2, <2>3, <2>4 DEF SavesAreInOrder
<1>10. JobIsOpen'
  <2>1. job' = job \/ (job' = Unsaved /\ save.hook /\ saves'[p] = Idle)
    BY <1>3
  <2>2. CASE job' = job
    <3>1. /\ saves'[p] = Idle \/ saves'[p].hook = save.hook
          /\ Idle.hook = FALSE
      BY <1>3 DEF Idle
    <3>2. p = Loop => job.at # "hooked"
      BY <1>1 DEF JobIsOpen, Idle
    <3>. QED  BY <1>3, <2>2, <3>1, <3>2 DEF JobIsOpen, Proc
  <2>3. CASE job' = Unsaved /\ save.hook /\ saves'[p] = Idle
    <3>1. Unsaved.at = "over" /\ Unsaved.failed = TRUE /\ Unsaved.stored = FALSE
      BY <2>3 DEF JobIsOpen, Unsaved, AuthoringTypeOK, JobRecord
    <3>. QED  BY <1>3, <2>3, <3>1 DEF JobIsOpen, Proc, Idle
  <2>. QED  BY <2>1, <2>2, <2>3
<1>. QED  BY <1>4, <1>5, <1>6, <1>7, <1>9, <1>10

\* mint_timestamp_id: the id is past every version, the newest seen and the draft's base.
LEMMA MintHolds ==
  ASSUME AuthoringInv, NEW p \in Proc, Mint(p)
  PROVE  AuthoringInv'
<1>. USE DEF AuthoringInv
<1> DEFINE save == saves[p]
           next == minted + 1
           new == [save EXCEPT !.at = "writing", !.id = next]
<1>1. /\ saves \in [Proc -> SaveRecord] /\ save.at = "minting" /\ save.draft \in DOMAIN drafts
      /\ minted \in Nat /\ minted' = minted + 1 /\ DOMAIN versions \subseteq 1..minted
      /\ UNCHANGED <<versions, drafts, held, job, killed>>
  BY DEF Mint, AuthoringTypeOK, SaveRecord, OneSavesADraft
<1>2. /\ new \in SaveRecord /\ new.at = "writing" /\ new.id = minted + 1 /\ new.draft = save.draft
      /\ new.hook = save.hook /\ new.seen = save.seen /\ new.override = save.override
  <2>1. next \in Nat /\ next = minted + 1
    BY <1>1
  <2>2. save \in SaveRecord
    BY <1>1
  <2>. HIDE DEF next, save
  <2>. QED  BY <2>1, <2>2 DEF SaveRecord, Busy
<1>3. saves' = [saves EXCEPT ![p] = new]
  BY <1>1 DEF Mint
<1>. HIDE DEF new
<1>4. /\ saves' \in [Proc -> SaveRecord] /\ saves'[p] = new
      /\ \A q \in Proc : q # p => saves'[q] = saves[q]
  <2>. HIDE DEF SaveRecord
  <2>. QED  BY <1>1, <1>2, <1>3
<1>5. AuthoringTypeOK'
  BY <1>1, <1>4 DEF AuthoringTypeOK, SaveRecord, Proc
<1>6. EveryWorkflowIsWhole' /\ StandsOnAVersion'
  BY <1>1 DEF EveryWorkflowIsWhole, StandsOnAVersion
<1>7. DraftsKeepUp' /\ NothingIsLeftBehind'
  <2>1. DraftsKeepUp'
    BY <1>1, <1>4 DEF DraftsKeepUp, Proc
  <2>2. NothingIsLeftBehind'
    BY <1>1 DEF NothingIsLeftBehind
  <2>. QED  BY <2>1, <2>2
<1>8. OneSavesADraft'
  BY <1>1, <1>2, <1>4 DEF OneSavesADraft, Proc, Idle
<1>9. SavesAreInOrder'
  <2>1. /\ save.seen <= minted /\ save.seen \in Nat
        /\ ~save.override => drafts[save.draft].parent \in {0, save.seen}
    BY <1>1 DEF SavesAreInOrder, SaveRecord
  <2>2. drafts[save.draft].parent \in 0..minted
    BY <1>1 DEF StandsOnAVersion
  <2>3. \A q \in Proc : q # p =>
          LET s == saves'[q] IN
          /\ s.at \in {"minting", "writing"} /\ ~s.override => drafts'[s.draft].parent \in {0, s.seen}
          /\ s.at = "minting" => s.seen <= minted'
          /\ s.at = "writing" => s.seen < s.id
          /\ s.at \in {"writing", "rebasing"} => s.id \in 1..minted' /\ drafts'[s.draft].parent < s.id
          /\ s.at = "rebasing" => s.id \in DOMAIN versions'
    <3>1. \A q \in Proc : saves[q].seen \in Nat /\ saves[q].id \in Nat
      BY <1>1 DEF SaveRecord
    <3>. QED  BY <1>1, <1>4, <3>1 DEF SavesAreInOrder
  <2>4. LET s == saves'[p] IN
          /\ s.at \in {"minting", "writing"} /\ ~s.override => drafts'[s.draft].parent \in {0, s.seen}
          /\ s.at = "minting" => s.seen <= minted'
          /\ s.at = "writing" => s.seen < s.id
          /\ s.at \in {"writing", "rebasing"} => s.id \in 1..minted' /\ drafts'[s.draft].parent < s.id
          /\ s.at = "rebasing" => s.id \in DOMAIN versions'
    BY <1>1, <1>2, <1>4, <2>1, <2>2
  <2>. QED  BY <2>3, <2>4 DEF SavesAreInOrder, Proc
<1>10. JobIsOpen'
  BY <1>1, <1>2, <1>4 DEF JobIsOpen, Proc, Idle
<1>. QED  BY <1>5, <1>6, <1>7, <1>8, <1>9, <1>10

\* create_version_from_stages.
LEMMA WriteHolds ==
  ASSUME AuthoringInv, NEW p \in Proc, Write(p)
  PROVE  AuthoringInv'
<1>. USE DEF AuthoringInv
<1> DEFINE save == saves[p]
           draft == drafts[save.draft]
           version == [stages |-> draft.stages, parent |-> draft.parent, draft |-> save.draft,
                       blind |-> save.override \/ save.seen # Latest]
           new == [save EXCEPT !.at = "rebasing"]
<1>1. /\ saves \in [Proc -> SaveRecord] /\ save.at = "writing" /\ save.draft \in DOMAIN drafts
      /\ save.draft \in Nat /\ save.override \in BOOLEAN /\ save.id \in Nat /\ save.seen \in Nat
      /\ minted \in Nat /\ DOMAIN versions \subseteq 1..minted /\ draft \in DraftRecord
      /\ UNCHANGED <<minted, drafts, held, job, killed>>
  BY DEF Write, AuthoringTypeOK, SaveRecord, OneSavesADraft
<1>2. /\ new \in SaveRecord /\ new.at = "rebasing" /\ new.id = save.id /\ new.draft = save.draft
      /\ new.hook = save.hook
  BY <1>1 DEF SaveRecord, Busy
<1>3. /\ version \in VersionRecord /\ version.draft = save.draft /\ version.parent = draft.parent
      /\ version.stages = draft.stages /\ version.blind = (save.override \/ save.seen # Latest)
  BY <1>1 DEF DraftRecord, VersionRecord
<1>4. /\ saves' = [saves EXCEPT ![p] = new]
      /\ versions' = [v \in DOMAIN versions \cup {save.id} |-> IF v = save.id THEN version
                                                              ELSE versions[v]]
  BY <1>1 DEF Write
<1>. HIDE DEF new, version
<1>5. /\ saves' \in [Proc -> SaveRecord] /\ saves'[p] = new
      /\ \A q \in Proc : q # p => saves'[q] = saves[q]
  <2>. HIDE DEF SaveRecord
  <2>. QED  BY <1>1, <1>2, <1>4
<1>6. /\ DOMAIN versions' = DOMAIN versions \cup {save.id} /\ versions'[save.id] = version
      /\ \A v \in DOMAIN versions : v # save.id => versions'[v] = versions[v]
  BY <1>4
<1>7. /\ save.id \in 1..minted /\ draft.parent < save.id /\ save.seen < save.id
      /\ ~save.override => draft.parent \in {0, save.seen}
  BY <1>1 DEF SavesAreInOrder
<1>8. AuthoringTypeOK'
  <2>1. DOMAIN versions' \subseteq 1..minted'
    BY <1>1, <1>6, <1>7
  <2>2. \A v \in DOMAIN versions' : versions'[v] \in VersionRecord
    BY <1>3, <1>6 DEF AuthoringTypeOK
  <2>. QED  BY <1>1, <1>5, <2>1, <2>2 DEF AuthoringTypeOK, SaveRecord, Proc
<1>9. EveryWorkflowIsWhole' /\ StandsOnAVersion'
  BY <1>1, <1>3, <1>6 DEF EveryWorkflowIsWhole, StandsOnAVersion, Valid
<1>10. OneSavesADraft'
  BY <1>1, <1>2, <1>5 DEF OneSavesADraft, Proc, Idle
<1>11. SavesAreInOrder'
  BY <1>1, <1>2, <1>5, <1>6, <1>7 DEF SavesAreInOrder, Proc
<1>12. DraftsKeepUp'
  <2>1. ASSUME NEW v \in DOMAIN versions, v # save.id
        PROVE  LET d == versions'[v].draft IN
               /\ d \in DOMAIN drafts'
               /\ \/ killed'
                  \/ v <= drafts'[d].parent
                  \/ \E q \in Proc : saves'[q].at = "rebasing" /\ saves'[q].draft = d /\ saves'[q].id = v
    BY <1>1, <1>5, <1>6, <2>1 DEF DraftsKeepUp
  <2>2. save.draft \in DOMAIN drafts' /\ saves'[p].at = "rebasing" /\ saves'[p].draft = save.draft
        /\ saves'[p].id = save.id
    BY <1>1, <1>2, <1>5
  <2>. QED  BY <1>3, <1>6, <2>1, <2>2 DEF DraftsKeepUp, Proc
<1>13. NothingIsLeftBehind'
  <2>1. /\ Latest \in Nat /\ \A u \in DOMAIN versions : u <= Latest /\ u \in Nat
    BY <1>1, LatestIsNewest
  <2> SUFFICES ASSUME NEW v \in DOMAIN versions', ~versions'[v].blind, versions'[v].parent # 0,
                      NEW u \in DOMAIN versions', versions'[v].parent < u, u < v
               PROVE  versions'[u].blind
    BY DEF NothingIsLeftBehind
  <2>2. CASE v = save.id
    <3>1. ~save.override /\ save.seen = Latest /\ draft.parent = Latest
      BY <1>3, <1>6, <1>7, <2>2
    <3>2. u \in DOMAIN versions /\ Latest < u
      BY <1>3, <1>6, <2>2, <3>1, <2>1, <1>1
    <3>. QED  BY <2>1, <3>2
  <2>3. CASE v # save.id /\ u = save.id
    <3>1. v <= Latest /\ v \in Nat
      BY <1>6, <2>1, <2>3
    <3>2. save.seen # Latest
      BY <1>1, <1>7, <2>1, <2>3, <3>1
    <3>. QED  BY <1>3, <1>6, <2>3, <3>2
  <2>4. CASE v # save.id /\ u # save.id
    BY <1>6, <2>4 DEF NothingIsLeftBehind
  <2>. QED  BY <2>2, <2>3, <2>4
<1>14. JobIsOpen'
  BY <1>1, <1>2, <1>5 DEF JobIsOpen, Proc, Idle
<1>. QED  BY <1>8, <1>9, <1>10, <1>11, <1>12, <1>13, <1>14

\* The end of save_version: the draft stands on the version it became.
LEMMA RebaseHolds ==
  ASSUME AuthoringInv, NEW p \in Proc, Rebase(p)
  PROVE  AuthoringInv'
<1>. USE DEF AuthoringInv
<1> DEFINE save == saves[p]
           d == save.draft
<1>1. /\ saves \in [Proc -> SaveRecord] /\ save.at = "rebasing" /\ d \in DOMAIN drafts
      /\ drafts \in Seq(DraftRecord) /\ drafts[d] \in DraftRecord /\ minted \in Nat
      /\ DOMAIN versions \subseteq 1..minted
      /\ UNCHANGED <<versions, minted, held, killed>>
  BY DEF Rebase, AuthoringTypeOK, SaveRecord, OneSavesADraft
<1>2. save.id \in DOMAIN versions /\ save.id \in Nat /\ drafts[d].parent < save.id
  BY <1>1 DEF SavesAreInOrder, SaveRecord
<1>3. /\ Rebased(drafts[d], save.id) \in DraftRecord /\ Rebased(drafts[d], save.id).parent = save.id
      /\ Rebased(drafts[d], save.id).stages = drafts[d].stages
  BY <1>1, <1>2 DEF Rebased, DraftRecord
<1>4. /\ drafts' = [drafts EXCEPT ![d] = Rebased(drafts[d], save.id)]
      /\ saves' = [saves EXCEPT ![p] = Idle]
      /\ job' = IF save.hook THEN Stored ELSE job
  BY <1>1 DEF Rebase
<1>5. Idle \in SaveRecord /\ Idle.at = "idle" /\ Idle.draft = 0 /\ Idle.hook = FALSE
  BY <1>1 DEF Idle, SaveRecord, AuthoringTypeOK
<1>6. /\ saves' \in [Proc -> SaveRecord] /\ saves'[p] = Idle
      /\ \A q \in Proc : q # p => saves'[q] = saves[q]
  <2>. HIDE DEF SaveRecord
  <2>. QED  BY <1>1, <1>4, <1>5
<1>7. drafts' \in Seq(DraftRecord) /\ Len(drafts') = Len(drafts) /\ DOMAIN drafts' = DOMAIN drafts
  <2>. HIDE DEF DraftRecord, d
  <2>. QED  BY <1>1, <1>3, <1>4, ExceptSeq
<1>8. /\ drafts'[d].parent = save.id /\ drafts'[d].stages = drafts[d].stages
      /\ \A e \in DOMAIN drafts : e # d => drafts'[e] = drafts[e]
  BY <1>1, <1>3, <1>4
<1>9. AuthoringTypeOK'
  <2>1. job' \in JobRecord
    BY <1>4 DEF AuthoringTypeOK, JobRecord, Stored
  <2>. QED  BY <1>1, <1>6, <1>7, <2>1 DEF AuthoringTypeOK, SaveRecord, Proc
<1>10. EveryWorkflowIsWhole' /\ StandsOnAVersion'
  BY <1>1, <1>2, <1>7, <1>8 DEF EveryWorkflowIsWhole, StandsOnAVersion, Valid
<1>11. OneSavesADraft'
  BY <1>1, <1>5, <1>6 DEF OneSavesADraft, Proc
<1>12. SavesAreInOrder'
  <2>1. \A q \in Proc : q # p /\ saves[q].at # "idle" => saves[q].draft \in DOMAIN drafts \ {d}
    BY <1>1 DEF OneSavesADraft, AuthoringTypeOK, SaveRecord
  <2>. QED  BY <1>1, <1>5, <1>6, <1>8, <2>1 DEF SavesAreInOrder, Proc
<1>13. DraftsKeepUp'
  <2> SUFFICES ASSUME NEW v \in DOMAIN versions, ~killed
               PROVE  /\ versions[v].draft \in DOMAIN drafts
                      /\ \/ v <= drafts'[versions[v].draft].parent
                         \/ \E q \in Proc : /\ saves'[q].at = "rebasing"
                                            /\ saves'[q].draft = versions[v].draft
                                            /\ saves'[q].id = v
    BY <1>1, <1>7 DEF DraftsKeepUp, Proc
  <2>1. /\ versions[v].draft \in DOMAIN drafts
        /\ \/ v <= drafts[versions[v].draft].parent
           \/ \E q \in Proc : /\ saves[q].at = "rebasing" /\ saves[q].draft = versions[v].draft
                              /\ saves[q].id = v
    BY DEF DraftsKeepUp
  <2>2. v \in Nat /\ drafts[d].parent \in Nat
    BY <1>1 DEF DraftRecord
  <2>3. CASE versions[v].draft = d
    <3>1. v <= save.id
      BY <1>1, <1>2, <2>1, <2>2, <2>3 DEF OneSavesADraft
    <3>. QED  BY <1>8, <2>1, <2>3, <3>1
  <2>4. CASE versions[v].draft # d
    BY <1>1, <1>6, <1>8, <2>1, <2>4
  <2>. QED  BY <2>3, <2>4
<1>14. NothingIsLeftBehind'
  BY <1>1 DEF NothingIsLeftBehind
<1>15. JobIsOpen'
  <2>1. CASE save.hook
    <3>1. job' = Stored /\ p = Loop /\ job.at = "saving"
      BY <1>1, <1>4, <2>1 DEF JobIsOpen
    <3>2. Stored.at = "over" /\ Stored.stored = TRUE /\ Stored.failed = FALSE
      BY <3>1 DEF JobIsOpen, Stored, AuthoringTypeOK, JobRecord
    <3>. QED  BY <1>5, <1>6, <3>1, <3>2 DEF JobIsOpen, Proc
  <2>2. CASE ~save.hook
    <3>1. p = Loop => job.at # "hooked"
      BY <1>1, <1>5 DEF JobIsOpen
    <3>. QED  BY <1>4, <1>5, <1>6, <2>2, <3>1 DEF JobIsOpen, Proc
  <2>. QED  BY <2>1, <2>2
<1>. QED  BY <1>9, <1>10, <1>11, <1>12, <1>13, <1>14, <1>15

-----------------------------------------------------------------------------
(* Generation, the process killed, and the theorems.                       *)

\* What the turn of a generation does to its record alone.
LEMMA JobHolds ==
  ASSUME AuthoringInv, UNCHANGED <<versions, minted, drafts, held, saves, killed>>,
         job' \in JobRecord, JobIsOpen'
  PROVE  AuthoringInv'
<1>1. AuthoringTypeOK'
  BY DEF AuthoringInv, AuthoringTypeOK, SaveRecord, JobRecord, Proc
<1>2. EveryWorkflowIsWhole' /\ StandsOnAVersion' /\ DraftsKeepUp' /\ NothingIsLeftBehind'
  BY DEF AuthoringInv, EveryWorkflowIsWhole, StandsOnAVersion, DraftsKeepUp,
         NothingIsLeftBehind, Valid, Proc
<1>3. OneSavesADraft' /\ SavesAreInOrder'
  BY DEF AuthoringInv, OneSavesADraft, SavesAreInOrder, Proc
<1>. QED  BY <1>1, <1>2, <1>3 DEF AuthoringInv

LEMMA StartJobHolds ==
  ASSUME AuthoringInv, NEW kind \in {"tests", "guide"}, NEW on \in Stage \cup {0},
         StartJob(kind, on)
  PROVE  AuthoringInv'
<1>1. /\ UNCHANGED <<versions, minted, drafts, held, saves, killed>>
      /\ job' = [at |-> "running", of |-> kind, on |-> on, active |-> TRUE, failed |-> FALSE,
                 stored |-> FALSE]
  BY DEF StartJob, NoJob
<1>2. job' \in JobRecord
  BY <1>1 DEF JobRecord
<1>3. \A p \in Proc : ~saves[p].hook
  <2>1. \A p \in Proc : saves[p].hook => job.at = "saving"
    BY DEF AuthoringInv, JobIsOpen
  <2>. QED  BY <2>1 DEF StartJob, LoopFree
<1>4. JobIsOpen'
  BY <1>1, <1>3 DEF JobIsOpen, Proc
<1>. QED  BY <1>1, <1>2, <1>4, JobHolds

LEMMA EndTurnHolds ==
  ASSUME AuthoringInv, EndTurn
  PROVE  AuthoringInv'
<1>1. /\ UNCHANGED <<versions, minted, drafts, held, saves, killed>>
      /\ job \in JobRecord /\ job.at = "running" /\ saves[Loop] = Idle /\ JobIsOpen
      /\ job' = [job EXCEPT !.at = "hooked", !.active = FALSE]
  BY DEF EndTurn, LoopFree, AuthoringInv, AuthoringTypeOK
<1>2. /\ job' \in JobRecord /\ job'.at = "hooked" /\ job'.stored = job.stored
      /\ job'.failed = job.failed
  BY <1>1 DEF JobRecord
<1>3. saves'[Loop] = Idle
  BY <1>1
<1>4. JobIsOpen'
  BY <1>1, <1>2, <1>3 DEF JobIsOpen, Proc
<1>. QED  BY <1>1, <1>2, <1>4, JobHolds

\* A hook that ends without a save records its failure or its success.
LEMMA HookEndsHolds ==
  ASSUME AuthoringInv, job.at = "hooked", job' \in {Unsaved, Stored},
         UNCHANGED <<versions, minted, drafts, held, saves, killed>>
  PROVE  AuthoringInv'
<1>1. job \in JobRecord /\ JobIsOpen
  BY DEF AuthoringInv, AuthoringTypeOK
<1>2. ~job.stored /\ ~job.failed
  BY <1>1 DEF JobIsOpen
<1>3. Unsaved \in JobRecord /\ Unsaved.at = "over" /\ Unsaved.failed = TRUE /\ Unsaved.stored = FALSE
  BY <1>1, <1>2 DEF Unsaved, JobRecord
<1>4. Stored \in JobRecord /\ Stored.at = "over" /\ Stored.stored = TRUE /\ Stored.failed = FALSE
  BY <1>1, <1>2 DEF Stored, JobRecord
<1>5. /\ job' \in JobRecord /\ job'.at = "over"
      /\ \/ job'.stored = TRUE /\ job'.failed = FALSE
         \/ job'.stored = FALSE /\ job'.failed = TRUE
  BY <1>3, <1>4
<1>6. JobIsOpen'
  BY <1>1, <1>5 DEF JobIsOpen, Proc
<1>. QED  BY <1>5, <1>6, JobHolds

\* _finish_stage_tests
LEMMA FinishTestsHolds ==
  ASSUME AuthoringInv, FinishTests
  PROVE  AuthoringInv'
<1>. USE DEF AuthoringInv
<1>1. /\ job.at = "hooked" /\ job \in JobRecord /\ Loop \in Proc /\ saves[Loop] = Idle
      /\ drafts' = Append(drafts, Draft(Latest))
      /\ UNCHANGED <<versions, minted, held, killed>>
  BY DEF FinishTests, AuthoringTypeOK, JobIsOpen, Proc
<1>2. /\ drafts' \in Seq(DraftRecord) /\ Len(drafts) \in Nat /\ Len(drafts') = Len(drafts) + 1
      /\ DOMAIN drafts = 1..Len(drafts) /\ DOMAIN drafts' = 1..(Len(drafts) + 1)
      /\ \A d \in DOMAIN drafts : drafts'[d] = drafts[d]
      /\ StandsOnAVersion' /\ EveryWorkflowIsWhole'
  BY <1>1, DraftIsAdded
<1> DEFINE d == Len(drafts) + 1
           Records == [at : Busy \cup {"idle"}, draft : 0..d, override : BOOLEAN,
                       seen : Nat, id : Nat, hook : BOOLEAN]
           save == [Idle EXCEPT !.at = "saving", !.draft = d, !.override = FALSE, !.hook = TRUE]
           patched == [job EXCEPT !.at = "saving"]
<1>3. /\ Unsaved \in JobRecord /\ Unsaved.at = "over" /\ Unsaved.failed = TRUE
      /\ Unsaved.stored = FALSE
      /\ patched \in JobRecord /\ patched.at = "saving" /\ ~patched.stored /\ ~patched.failed
  BY <1>1 DEF JobIsOpen, Unsaved, JobRecord
<1>4. saves \in [Proc -> Records]
  BY <1>2 DEF AuthoringTypeOK, SaveRecord
<1>5. /\ Idle.at = "idle" /\ Idle.draft = 0 /\ Idle.hook = FALSE
      /\ save \in Records /\ save.draft = d /\ save.at = "saving" /\ save.hook = TRUE
  <2>1. d \in 0..d
    BY <1>2
  <2>. HIDE DEF d
  <2>. QED  BY <2>1 DEF Idle, Busy
<1>6. \/ UNCHANGED saves /\ job' = Unsaved
      \/ saves' = [saves EXCEPT ![Loop] = save] /\ job' = patched
  BY DEF FinishTests, Saving
<1>. HIDE DEF save, patched, Records
<1>7. /\ saves' \in [Proc -> Records]
      /\ \/ saves'[Loop] = Idle /\ job' = Unsaved
         \/ saves'[Loop] = save /\ job' = patched
      /\ \A q \in Proc : q # Loop => saves'[q] = saves[q]
  BY <1>1, <1>4, <1>5, <1>6
<1>8. AuthoringTypeOK'
  BY <1>1, <1>2, <1>3, <1>7 DEF AuthoringTypeOK, SaveRecord, Proc, Records
<1>9. DraftsKeepUp' /\ NothingIsLeftBehind'
  <2>1. \A q \in Proc : saves[q].at = "rebasing" => saves'[q] = saves[q]
    BY <1>1, <1>5, <1>7
  <2>. QED  BY <1>1, <1>2, <2>1, OldDraftsKeepUp
<1>10. \A q \in Proc : saves[q].draft \in 0..Len(drafts)
  BY DEF AuthoringTypeOK, SaveRecord
<1>11. held \in [Chat -> 0..Len(drafts)]
  BY DEF AuthoringTypeOK
<1>12. OneSavesADraft'
  <2>0. d \in Nat \ (0..Len(drafts)) /\ d # 0
    BY <1>2
  <2>1. \A q \in Proc : saves[q].draft # d
    BY <1>10, <2>0
  <2>2. (\A p, q \in Proc : saves[p].draft = saves[q].draft /\ saves[p].draft # 0 => p = q)'
    <3>1. \A p, q \in Proc : saves'[p].draft = saves'[q].draft /\ saves'[p].draft # 0 => p = q
      BY <1>5, <1>7, <2>0, <2>1 DEF OneSavesADraft
    <3>. QED  BY <3>1 DEF Proc
  <2>3. \A p \in Proc : saves'[p].at = "idle" => saves'[p] = Idle
    BY <1>5, <1>7 DEF OneSavesADraft
  <2>4. (\A p \in Proc : saves[p].at # "idle" => saves[p].draft # 0)'
    <3>1. \A p \in Proc : saves'[p].at # "idle" => saves'[p].draft # 0
      BY <1>5, <1>7, <2>0 DEF OneSavesADraft
    <3>. QED  BY <3>1 DEF Proc
  <2>5. (\A g \in Hand, e \in Chat : saves[g].draft = held[e] => held[e] = 0)'
    <3>1. \A h \in Hand : h # Loop /\ h \in Proc
      BY AuthoringConstants DEF Proc
    <3>. QED  BY <1>1, <1>7, <3>1 DEF OneSavesADraft
  <2>. QED  BY <2>2, <2>3, <2>4, <2>5 DEF OneSavesADraft
<1>13. SavesAreInOrder'
  <2>1. \A q \in Proc : saves[q].at # "idle" => saves[q].draft \in DOMAIN drafts
    BY <1>2, <1>10 DEF OneSavesADraft
  <2>2. saves'[Loop].at \in {"idle", "saving"}
    BY <1>5, <1>7
  <2>. QED  BY <1>1, <1>2, <1>7, <2>1, <2>2 DEF SavesAreInOrder, Proc
<1>14. JobIsOpen'
  <2>1. \A q \in Proc : saves[q].hook => q = Loop
    BY DEF JobIsOpen
  <2>. QED  BY <1>3, <1>5, <1>7, <2>1 DEF JobIsOpen, Proc
<1>. QED  BY <1>2, <1>8, <1>9, <1>12, <1>13, <1>14

\* The process is killed: the saves are gone, and the next one mints past every id.
LEMMA KillHolds ==
  ASSUME AuthoringInv, Kill
  PROVE  AuthoringInv'
<1>. USE DEF AuthoringInv
<1>1. /\ saves' = [p \in Proc |-> Idle] /\ minted' = Latest /\ killed' = TRUE
      /\ job' = IF job.at \in {"running", "hooked", "saving"} THEN [job EXCEPT !.at = "dead"]
                ELSE job
      /\ UNCHANGED <<versions, drafts, held>>
  BY DEF Kill
<1>2. /\ Idle.at = "idle" /\ Idle.draft = 0 /\ Idle.hook = FALSE /\ Idle \in SaveRecord
  BY DEF Idle, SaveRecord, AuthoringTypeOK
<1>3. /\ Latest \in Nat /\ DOMAIN versions \subseteq 1..Latest
  BY LatestIsNewest DEF AuthoringTypeOK
<1>4. /\ job \in JobRecord /\ JobIsOpen
  BY DEF AuthoringTypeOK
<1>5. /\ job' \in JobRecord /\ job'.stored = job.stored /\ job'.failed = job.failed
      /\ job'.at = IF job.at \in {"running", "hooked", "saving"} THEN "dead" ELSE job.at
  BY <1>1, <1>4 DEF JobRecord
<1>6. AuthoringTypeOK'
  <2>1. saves' \in [Proc -> SaveRecord]
    <3>. HIDE DEF SaveRecord
    <3>. QED  BY <1>1, <1>2
  <2>. QED  BY <1>1, <1>3, <1>5, <2>1 DEF AuthoringTypeOK, SaveRecord, Proc
<1>7. EveryWorkflowIsWhole' /\ StandsOnAVersion' /\ NothingIsLeftBehind'
  BY <1>1 DEF EveryWorkflowIsWhole, StandsOnAVersion, NothingIsLeftBehind
<1>8. DraftsKeepUp'
  BY <1>1 DEF DraftsKeepUp
<1>9. \A p \in Proc : saves'[p] = Idle
  BY <1>1
<1>10. OneSavesADraft'
  <2>1. \A h \in Hand : h \in Proc
    BY DEF Proc
  <2>2. (\A h \in Hand, c \in Chat : saves[h].draft = held[c] => held[c] = 0)'
    BY <1>2, <1>9, <2>1
  <2>. QED  BY <1>2, <1>9, <2>2 DEF OneSavesADraft, Proc
<1>11. SavesAreInOrder'
  BY <1>2, <1>9 DEF SavesAreInOrder, Proc
<1>12. JobIsOpen'
  BY <1>2, <1>4, <1>5, <1>9 DEF JobIsOpen, Proc
<1>. QED  BY <1>6, <1>7, <1>8, <1>10, <1>11, <1>12

LEMMA AuthoringNextHolds ==
  AuthoringInv /\ [AuthoringNext]_authoringVars => AuthoringInv'
<1> SUFFICES ASSUME AuthoringInv, [AuthoringNext]_authoringVars  PROVE AuthoringInv'
  OBVIOUS
<1>1. CASE Agents
  BY <1>1, StartEditingHolds, AddStagesHolds, DeleteStageHolds, SaveVersionHolds DEF Agents
<1>2. CASE \E h \in Hand, s \in Stage : HandEdit(h, s)
  BY <1>2, HandEditHolds
<1>3. CASE Saves
  BY <1>3, CheckHolds, MintHolds, WriteHolds, RebaseHolds DEF Saves
<1>4. CASE Generation
  <2>1. \A s \in Draft(Latest).stages : s \in Stage
    BY LatestIsAVersion DEF AuthoringInv, DraftRecord
  <2>2. CASE \E s \in Draft(Latest).stages : StartJob("tests", s)
    BY <2>1, <2>2, StartJobHolds
  <2>3. CASE StartJob("guide", 0)
    BY <2>3, StartJobHolds
  <2>4. CASE EndTurn
    BY <2>4, EndTurnHolds
  <2>5. CASE Refuse
    BY <2>5, HookEndsHolds DEF Refuse
  <2>6. CASE FinishTests
    BY <2>6, FinishTestsHolds
  <2>7. CASE FinishGuide
    BY <2>7, HookEndsHolds DEF FinishGuide
  <2>. QED  BY <1>4, <2>2, <2>3, <2>4, <2>5, <2>6, <2>7 DEF Generation
<1>5. CASE Kill
  BY <1>5, KillHolds
<1>6. CASE UNCHANGED authoringVars
  BY <1>6, NothingMovesHolds
<1>. QED  BY <1>1, <1>2, <1>3, <1>4, <1>5, <1>6 DEF AuthoringNext

LEMMA AuthoringInvHolds == AuthoringSpec => []AuthoringInv
BY AuthoringInitHolds, AuthoringNextHolds, PTL DEF AuthoringSpec

(* The drafts, the versions, the saves and the generation are the records   *)
(* of services/drafts.py, services/versioning.py and services/generation.py,*)
(* and a version's id was minted.                                           *)
THEOREM AuthoringTypeCorrect == AuthoringSpec => []AuthoringTypeOK
<1>1. AuthoringInv => AuthoringTypeOK
  BY DEF AuthoringInv
<1>. QED  BY <1>1, AuthoringInvHolds, PTL

(* Whatever the agents add and delete and whoever saves it, every draft and  *)
(* every version is a workflow that loads (stage_edit._apply, save_version): *)
(* a batch adds nothing that reads what is refused, a deletion leaves no     *)
(* reader behind, and a save copies the draft.                               *)
THEOREM WorkflowsAreWhole == AuthoringSpec => []EveryWorkflowIsWhole
<1>1. AuthoringInv => EveryWorkflowIsWhole
  BY DEF AuthoringInv
<1>. QED  BY <1>1, AuthoringInvHolds, PTL

(* A version that overrode no conflict and was not overtaken while it was   *)
(* saved stands on every older one that was not itself blind               *)
(* (_find_lost_version), for any number of agents and threads.               *)
THEOREM VersionsLeaveNothingBehind == AuthoringSpec => []NothingIsLeftBehind
<1>1. AuthoringInv => NothingIsLeftBehind
  BY DEF AuthoringInv
<1>. QED  BY <1>1, AuthoringInvHolds, PTL

(* Unless the process died in the save, a draft is never told it would lose *)
(* the version it was itself saved as (save_version, _find_lost_version).    *)
THEOREM DraftsDoNotConflictWithThemselves == AuthoringSpec => []NoConflictWithItself
<1>1. AuthoringInv => NoConflictWithItself
  <2> SUFFICES ASSUME AuthoringInv, NEW d \in DOMAIN drafts, ~killed, Lost(d) # 0,
                      \A p \in Proc : saves[p].draft # d
               PROVE  versions[Lost(d)].draft # d
    BY DEF NoConflictWithItself
  <2>1. Lost(d) = Latest /\ drafts[d].parent \notin {0, Latest}
    BY DEF Lost
  <2>2. Latest \in DOMAIN versions /\ drafts[d].parent \in DOMAIN versions
    BY <2>1, LatestIsNewest DEF AuthoringInv, StandsOnAVersion
  <2>3. ~(Latest <= drafts[d].parent)
    BY <2>1, <2>2, LatestIsNewest DEF AuthoringInv, AuthoringTypeOK
  <2>. QED  BY <2>1, <2>2, <2>3 DEF AuthoringInv, DraftsKeepUp
<1>. QED  BY <1>1, AuthoringInvHolds, PTL

(* A generation that is over stored what it generated or says why not, never *)
(* neither and never both, whatever the save of its hook met (stage_tests.py,*)
(* review_guide.py, the hooks of core/agent/turns.py).                       *)
THEOREM GenerationsAreAccountedFor == AuthoringSpec => []GenerationIsAccountedFor
<1>1. AuthoringInv => GenerationIsAccountedFor
  BY DEF AuthoringInv, JobIsOpen, GenerationIsAccountedFor
<1>. QED  BY <1>1, AuthoringInvHolds, PTL

-----------------------------------------------------------------------------
(***************************************************************************)
(* The turns of a chat session.                                            *)
(***************************************************************************)

BlockRecord == [kind : BlockKinds, id : Nat]
EventRecord == [kind : BlockKinds \cup {"error", "done"}, id : Nat]
TellingRecord == [events : Seq(EventRecord), parts : Seq(EventRecord), hidden : SUBSET Nat]

TurnState == {"unposted", "posted", "over", "gone"} \cup Live
TurnRecord ==
  [state : TurnState, left : Seq(BlockRecord), token : 0..MaxTurns, told : TellingRecord]
SessionRecord ==
  [messages : Seq(Turn), active : 0..MaxTurns, pending : 0..MaxTurns, token : 0..MaxTurns,
   spent : SUBSET Turn]
PanelRecord ==
  [mode : {"closed", "reading", "idle", "attached", "sending", "posted", "stuck"},
   read : 0..MaxTurns, owed : 0..MaxTurns, drawn : SUBSET Turn, streamed : SUBSET Turn,
   on : 0..MaxTurns, seen : Nat, asleep : BOOLEAN]
LoopRecord == [at : {"free", "posting", "storing", "stopping"}, turn : 0..MaxTurns]

ChatTypeOK ==
  /\ session \in SessionRecord
  /\ turns \in [Turn -> TurnRecord]
  /\ loop \in LoopRecord
  /\ panels \in [Panel -> PanelRecord]
  /\ memory \in [0..MaxTurns -> Seq(Turn)]
  /\ overlapped \in BOOLEAN /\ restarted \in BOOLEAN

\* The turn the loop is at is where the loop says, and the next comes after it.
TurnsTakeTheirTurn ==
  /\ loop.at = "posting" => loop.turn \in Turn /\ turns[loop.turn].state = "posted"
  /\ loop.at = "storing" => loop.turn \in Turn /\ turns[loop.turn].state = "stored"
  /\ loop.at = "stopping" => loop.turn \in Turn /\ turns[loop.turn].state = "ended"
  /\ \A t \in Turn : turns[t].state = "posted" => loop = [at |-> "posting", turn |-> t]
  /\ \A t, u \in Turn : u < t /\ turns[t].state # "unposted" => u \in Started

\* The CLI session the next turn resumes, once the turn being stored is.
NextToken ==
  IF loop.at = "storing" /\ turns[loop.turn].token # 0 THEN turns[loop.turn].token
  ELSE session.token

Waiting == {t \in Turn : turns[t].state \in {"posted", "started", "running"}}

\* Whoever answered had started.  While one turn runs at a time the running one resumes
\* the session's token, whoever has yet to answer comes after the transcript, and the
\* next token is an answered turn's, whose CLI session remembers what it should.
TurnsRemember ==
  /\ Answered \subseteq Started
  /\ ~overlapped /\ ~restarted =>
       /\ \A t \in Turn : turns[t].state = "running" => turns[t].token = session.token
       /\ \A t \in Waiting : \A u \in Answered : u < t
       /\ InOrder(session.messages)
       /\ NextToken \in Answered \cup {0}
       /\ Members(memory[NextToken]) = Carried
       /\ InOrder(memory[NextToken])

\* It is over with the turn, which gave no answer.
Silent(t) == turns[t].state \in {"ended", "over"} /\ t \notin Answered

\* What a panel owes its reader: between the two reads of a page, what is stored, the
\* turn the first read found, and what is over; then what it shows.
PanelsOwe ==
  \A p \in Panel : \A t \in 1..panels[p].owed :
    /\ t \in Started
    /\ ~overlapped /\ ~restarted =>
         IF panels[p].mode = "reading"
         THEN t \in Answered \/ t = panels[p].read \/ turns[t].state \in {"ended", "over"}
         ELSE t \in panels[p].drawn \cup panels[p].streamed \/ Silent(t)

\* Only a restart loses a turn.
NoneIsGone == ~restarted => \A t \in Turn : turns[t].state # "gone"

ChatInv ==
  /\ ChatTypeOK
  /\ TurnsTakeTheirTurn
  /\ NoneIsGone
  /\ MarkIsHonest
  /\ TurnsRemember
  /\ PanelsOwe

-----------------------------------------------------------------------------
LEMMA TurnsAreNumbers == Turn \subseteq Nat /\ Turn = 1..MaxTurns /\ MaxTurns \in Nat
BY ChatBounds DEF Turn

LEMMA AppendsInOrder ==
  ASSUME NEW s \in Seq(Turn), NEW t \in Turn
  PROVE  /\ Members(Append(s, t)) = Members(s) \cup {t}
         /\ InOrder(s) /\ (\A u \in Members(s) : u < t) => InOrder(Append(s, t))
<1> DEFINE new == Append(s, t)
<1>1. /\ DOMAIN s = 1..Len(s) /\ DOMAIN new = 1..(Len(s) + 1) /\ Len(s) \in Nat
      /\ new[Len(s) + 1] = t /\ \A i \in DOMAIN s : new[i] = s[i]
  OBVIOUS
<1>. HIDE DEF new
<1>2. DOMAIN new = DOMAIN s \cup {Len(s) + 1}
  BY <1>1
<1>3. Members(new) = Members(s) \cup {t}
  <2>1. \A x \in Members(new) : x \in Members(s) \cup {t}
    BY <1>1, <1>2 DEF Members
  <2>2. \A i \in DOMAIN s : new[i] = s[i] /\ i \in DOMAIN new
    BY <1>1, <1>2
  <2>3. t \in Members(new)
    BY <1>1, <1>2 DEF Members
  <2>4. Members(s) \subseteq Members(new)
    BY <2>2 DEF Members
  <2>. QED  BY <2>1, <2>3, <2>4
<1>4. ASSUME InOrder(s), \A u \in Members(s) : u < t  PROVE InOrder(new)
  <2> SUFFICES ASSUME NEW i \in DOMAIN new, NEW j \in DOMAIN new, i < j  PROVE new[i] < new[j]
    BY DEF InOrder
  <2>1. i \in DOMAIN s /\ new[i] = s[i]
    BY <1>1
  <2>2. CASE j \in DOMAIN s
    BY <1>1, <1>4, <2>1, <2>2 DEF InOrder
  <2>3. CASE j = Len(s) + 1
    BY <1>1, <1>4, <2>1, <2>3 DEF Members
  <2>. QED  BY <1>2, <2>2, <2>3
<1>. QED  BY <1>3, <1>4 DEF new

\* stream_turn keeps the two tellings of a reply what they are.
LEMMA TellIsATelling ==
  ASSUME NEW told \in TellingRecord, NEW b \in BlockRecord
  PROVE  Tell(told, b) \in TellingRecord
<1>1. /\ told.events \in Seq(EventRecord) /\ told.parts \in Seq(EventRecord)
      /\ told.hidden \in SUBSET Nat
  BY DEF TellingRecord
<1>2. b \in EventRecord /\ b.id \in Nat
  BY DEF EventRecord, BlockRecord
<1>3. /\ [b EXCEPT !.kind = "call"] \in EventRecord /\ [b EXCEPT !.kind = "result"] \in EventRecord
      /\ [b EXCEPT !.kind = "error"] \in EventRecord
  BY DEF EventRecord, BlockRecord, BlockKinds
<1>4. ASSUME NEW e \in EventRecord, NEW h \in SUBSET Nat
      PROVE  Told([told EXCEPT !.hidden = h], e) \in TellingRecord
  <2> DEFINE new == [told EXCEPT !.hidden = h]
  <2>1. new \in TellingRecord /\ new.events = told.events /\ new.parts = told.parts
    BY <1>1 DEF TellingRecord
  <2>2. Append(new.events, e) \in Seq(EventRecord) /\ Append(new.parts, e) \in Seq(EventRecord)
    <3>. HIDE DEF new, EventRecord
    <3>. QED  BY <1>1, <2>1
  <2>. HIDE DEF new
  <2>. QED  BY <2>1, <2>2 DEF Told, TellingRecord
<1>5. ASSUME NEW e \in EventRecord
      PROVE  Told(told, e) \in TellingRecord /\ [told EXCEPT !.events = Append(@, e)] \in TellingRecord
  <2>1. Append(told.events, e) \in Seq(EventRecord) /\ Append(told.parts, e) \in Seq(EventRecord)
    <3>. HIDE DEF EventRecord
    <3>. QED  BY <1>1
  <2>. QED  BY <2>1 DEF Told, TellingRecord
<1>6. \A h \in SUBSET Nat : [told EXCEPT !.hidden = h] \in TellingRecord
  BY DEF TellingRecord
<1>7. ToldAnswer(told, b) \in TellingRecord
  <2>1. told.hidden \ {b.id} \in SUBSET Nat
    BY <1>1
  <2>. QED  BY <1>3, <1>4, <1>6, <2>1 DEF ToldAnswer
<1>8. told.hidden \cup {b.id} \in SUBSET Nat
  BY <1>1, <1>2
<1>9. b.kind \in BlockKinds
  BY DEF BlockRecord
<1>10. CASE b.kind \in {"text", "thinking", "call"}
  <2>1. Tell(told, b) = Told(told, b)
    BY <1>10 DEF Tell, AnswerKinds
  <2>. QED  BY <1>2, <1>5, <2>1
<1>11. CASE b.kind = "submit"
  BY <1>3, <1>4, <1>8, <1>11 DEF Tell, AnswerKinds
<1>12. CASE b.kind = "offer"
  BY <1>2, <1>4, <1>8, <1>12 DEF Tell, AnswerKinds
<1>13. CASE b.kind \in AnswerKinds
  BY <1>7, <1>13 DEF Tell, AnswerKinds
<1>14. CASE b.kind = "system"
  BY <1>2, <1>5, <1>14 DEF Tell, AnswerKinds
<1>15. CASE b.kind = "failed"
  <2>1. Tell(told, b) = [told EXCEPT !.events = Append(@, [b EXCEPT !.kind = "error"])]
    BY <1>15 DEF Tell, AnswerKinds
  <2>. QED  BY <1>3, <1>5, <2>1
<1>16. \/ b.kind \in {"text", "thinking", "call"} \/ b.kind = "submit" \/ b.kind = "offer"
       \/ b.kind \in AnswerKinds \/ b.kind = "system" \/ b.kind = "failed"
  BY <1>9 DEF BlockKinds, AnswerKinds
<1>. QED  BY <1>10, <1>11, <1>12, <1>13, <1>14, <1>15, <1>16

\* Turns start in the order they were posted, so that as many as started are the first.
LEMMA FirstTurnsStarted ==
  ASSUME TurnsTakeTheirTurn
  PROVE  /\ Cardinality(Started) \in 0..MaxTurns
         /\ \A t \in 1..Cardinality(Started) : t \in Started
<1>1. MaxTurns \in Nat /\ Turn = 1..MaxTurns /\ Started \subseteq Turn
  BY TurnsAreNumbers DEF Started
<1>2. IsFiniteSet(Turn) /\ Cardinality(Turn) = MaxTurns
  BY <1>1, FS_Interval
<1>3. IsFiniteSet(Started) /\ Cardinality(Started) <= MaxTurns /\ Cardinality(Started) \in Nat
  BY <1>1, <1>2, FS_Subset, FS_CardinalityType
<1>4. ASSUME NEW t \in 1..Cardinality(Started), t \notin Started  PROVE FALSE
  <2>1. t \in Turn /\ t \in Nat /\ t - 1 \in Nat
    BY <1>1, <1>3
  <2>2. Started \subseteq 1..(t - 1)
    <3> SUFFICES ASSUME NEW u \in Started  PROVE u < t /\ u \in Nat /\ u >= 1
      BY <2>1
    <3>1. u \in Turn /\ u \in Nat /\ u >= 1 /\ turns[u].state # "unposted" /\ u # t
      BY <1>1, <1>4 DEF Started
    <3>2. ~(t < u)
      BY <1>4, <2>1, <3>1 DEF TurnsTakeTheirTurn
    <3>. QED  BY <2>1, <3>1, <3>2
  <2>3. Cardinality(1..(t - 1)) = t - 1 /\ IsFiniteSet(1..(t - 1))
    BY <2>1, FS_Interval
  <2>4. Cardinality(Started) <= t - 1
    BY <2>2, <2>3, FS_Subset
  <2>. QED  BY <1>3, <1>4, <2>1, <2>4
<1>. QED  BY <1>1, <1>3, <1>4

\* One turn becomes r.
LEMMA TurnMoves ==
  ASSUME ChatTypeOK, NEW t \in Turn, NEW r \in TurnRecord, turns' = [turns EXCEPT ![t] = r]
  PROVE  /\ turns' \in [Turn -> TurnRecord] /\ turns'[t] = r
         /\ \A u \in Turn : u # t => turns'[u] = turns[u]
         /\ Running' = IF r.state \in Live THEN Running \cup {t} ELSE Running \ {t}
         /\ Started' = IF r.state \in {"unposted", "posted"} THEN Started \ {t}
                       ELSE Started \cup {t}
<1>1. /\ turns' \in [Turn -> TurnRecord] /\ turns'[t] = r
      /\ \A u \in Turn : u # t => turns'[u] = turns[u]
  <2>. HIDE DEF TurnRecord
  <2>. QED  BY DEF ChatTypeOK
<1>2. Running' = {u \in Turn : turns'[u].state \in Live}
  BY DEF Running, Turn, Live
<1>3. Started' = {u \in Turn : turns'[u].state \notin {"unposted", "posted"}}
  BY DEF Started, Turn
<1>4. Running' = IF r.state \in Live THEN Running \cup {t} ELSE Running \ {t}
  BY <1>1, <1>2 DEF Running
<1>5. Started' = IF r.state \in {"unposted", "posted"} THEN Started \ {t} ELSE Started \cup {t}
  BY <1>1, <1>3 DEF Started
<1>. QED  BY <1>1, <1>4, <1>5

\* What a panel shows grows, and what it does not show stays over.
LEMMA PanelsStillOwe ==
  ASSUME PanelsOwe,
         \A p \in Panel :
           /\ panels'[p].owed \in {panels[p].owed, 0}
           /\ panels'[p].drawn = panels[p].drawn /\ panels'[p].read = panels[p].read
           /\ panels[p].streamed \subseteq panels'[p].streamed
           /\ panels'[p].mode = "reading" <=> panels[p].mode = "reading",
         Started \subseteq Started', Answered \subseteq Answered',
         overlapped => overlapped', restarted => restarted',
         \A t \in Turn : turns[t].state \in {"ended", "over"} =>
           turns'[t].state \in {"ended", "over"} /\ (t \in Answered' => t \in Answered)
  PROVE  PanelsOwe'
<1> SUFFICES ASSUME NEW p \in Panel, NEW t \in 1..panels'[p].owed
             PROVE  /\ t \in Started'
                    /\ ~overlapped' /\ ~restarted' =>
                         IF panels'[p].mode = "reading"
                         THEN \/ t \in Answered' \/ t = panels'[p].read
                              \/ turns'[t].state \in {"ended", "over"}
                         ELSE t \in panels'[p].drawn \cup panels'[p].streamed \/ Silent(t)'
  BY DEF PanelsOwe
<1>1. t \in 1..panels[p].owed
  OBVIOUS
<1>2. t \in Started /\ t \in Turn
  BY <1>1 DEF PanelsOwe, Started
<1>3. Silent(t) => Silent(t)'
  BY <1>2 DEF Silent
<1>4. ASSUME ~overlapped', ~restarted'
      PROVE  IF panels'[p].mode = "reading"
             THEN \/ t \in Answered' \/ t = panels'[p].read
                  \/ turns'[t].state \in {"ended", "over"}
             ELSE t \in panels'[p].drawn \cup panels'[p].streamed \/ Silent(t)'
  <2>1. IF panels[p].mode = "reading"
        THEN t \in Answered \/ t = panels[p].read \/ turns[t].state \in {"ended", "over"}
        ELSE t \in panels[p].drawn \cup panels[p].streamed \/ Silent(t)
    BY <1>1, <1>4 DEF PanelsOwe
  <2>. QED  BY <1>2, <1>3, <2>1
<1>. QED  BY <1>2, <1>4

\* What a panel owes and shows stays as it is.
PanelsKeepTheirPages ==
  \A p \in Panel :
    /\ panels'[p].owed \in {panels[p].owed, 0}
    /\ panels'[p].drawn = panels[p].drawn /\ panels'[p].read = panels[p].read
    /\ panels[p].streamed \subseteq panels'[p].streamed
    /\ panels'[p].mode = "reading" <=> panels[p].mode = "reading"

LEMMA WakeKeepsPages ==
  ASSUME ChatTypeOK, NEW t \in Turn, Wake(t) \/ UNCHANGED panels
  PROVE  panels' \in [Panel -> PanelRecord] /\ PanelsKeepTheirPages
<1>1. panels \in [Panel -> PanelRecord]
  BY DEF ChatTypeOK
<1>2. CASE UNCHANGED panels
  BY <1>1, <1>2 DEF PanelsKeepTheirPages
<1>3. CASE Wake(t)
  <2>1. panels' = [p \in Panel |-> IF panels[p].on = t THEN [panels[p] EXCEPT !.asleep = FALSE]
                                   ELSE panels[p]]
    BY <1>3 DEF Wake
  <2>2. \A p \in Panel :
          LET woken == [panels[p] EXCEPT !.asleep = FALSE] IN
          /\ woken \in PanelRecord /\ woken.owed = panels[p].owed /\ woken.drawn = panels[p].drawn
          /\ woken.read = panels[p].read /\ woken.streamed = panels[p].streamed
          /\ woken.mode = panels[p].mode
    BY <1>1 DEF PanelRecord
  <2>. HIDE DEF PanelRecord
  <2>3. panels' \in [Panel -> PanelRecord]
    BY <1>1, <2>1, <2>2
  <2>4. \A p \in Panel :
          /\ panels'[p].owed = panels[p].owed /\ panels'[p].drawn = panels[p].drawn
          /\ panels'[p].read = panels[p].read /\ panels'[p].streamed = panels[p].streamed
          /\ panels'[p].mode = panels[p].mode
    BY <2>1, <2>2
  <2>. QED  BY <2>3, <2>4 DEF PanelsKeepTheirPages
<1>. QED  BY <1>2, <1>3

LEMMA PanelMoves ==
  ASSUME ChatTypeOK, NEW p \in Panel, NEW r \in PanelRecord, panels' = [panels EXCEPT ![p] = r]
  PROVE  /\ panels' \in [Panel -> PanelRecord] /\ panels'[p] = r
         /\ \A q \in Panel : q # p => panels'[q] = panels[q]
<1>. HIDE DEF PanelRecord
<1>. QED  BY DEF ChatTypeOK

\* What only the browser does.
LEMMA BrowserMoves ==
  ASSUME ChatInv, UNCHANGED <<session, turns, loop, memory, overlapped, restarted>>,
         panels' \in [Panel -> PanelRecord], PanelsOwe'
  PROVE  ChatInv'
<1>1. ChatTypeOK'
  BY DEF ChatInv, ChatTypeOK, SessionRecord, TurnRecord, LoopRecord, Turn, PanelRecord
<1>2. TurnsTakeTheirTurn' /\ NoneIsGone'
  BY DEF ChatInv, TurnsTakeTheirTurn, NoneIsGone, Started, Turn
<1>3. MarkIsHonest'
  BY DEF ChatInv, MarkIsHonest, Running, Turn, Live
<1>4. TurnsRemember'
  BY DEF ChatInv, TurnsRemember, Turn, Answered, Members, Started, Waiting, InOrder, NextToken,
     Carried
<1>. QED  BY <1>1, <1>2, <1>3, <1>4 DEF ChatInv

\* The same, of a panel that keeps its page.
LEMMA BrowserKeepsItsPage ==
  ASSUME ChatInv, UNCHANGED <<session, turns, loop, memory, overlapped, restarted>>,
         panels' \in [Panel -> PanelRecord], PanelsKeepTheirPages
  PROVE  ChatInv'
<1>1. Started' = Started /\ Answered' = Answered
  BY DEF Started, Answered, Members, Turn
<1>2. PanelsOwe'
  BY <1>1, PanelsStillOwe DEF PanelsKeepTheirPages, ChatInv
<1>. QED  BY <1>2, BrowserMoves

LEMMA ChatInitHolds == Init => ChatInv
<1> SUFFICES ASSUME Init  PROVE ChatInv
  OBVIOUS
<1>0. MaxTurns \in Nat /\ 0 \in 0..MaxTurns
  BY ChatBounds
<1>1. /\ turns = [t \in Turn |-> Unposted] /\ Unposted.state = "unposted"
      /\ Unposted \in TurnRecord
  BY <1>0 DEF Init, Unposted, TurnRecord, TurnState, TellingRecord, Unwritten
<1>2. /\ panels = [p \in Panel |-> Closed] /\ Closed.owed = 0 /\ Closed.mode = "closed"
      /\ Closed \in PanelRecord
  BY <1>0 DEF Init, Closed, PanelRecord
<1>3. /\ session \in SessionRecord /\ session.active = 0 /\ session.token = 0
      /\ session.messages = <<>>
  BY <1>0 DEF Init, SessionRecord
<1>4. loop \in LoopRecord /\ loop.at = "free"
  BY <1>0 DEF Init, Free, LoopRecord
<1>5. /\ memory = [t \in 0..MaxTurns |-> <<>>] /\ memory \in [0..MaxTurns -> Seq(Turn)]
      /\ overlapped = FALSE /\ restarted = FALSE
  BY DEF Init
<1>6. \A t \in Turn : turns[t].state = "unposted"
  BY <1>1
<1>7. ChatTypeOK
  <2>. HIDE DEF TurnRecord, PanelRecord
  <2>. QED  BY <1>1, <1>2, <1>3, <1>4, <1>5 DEF ChatTypeOK
<1>8. TurnsTakeTheirTurn /\ NoneIsGone
  BY <1>4, <1>6 DEF TurnsTakeTheirTurn, NoneIsGone
<1>9. MarkIsHonest
  BY <1>3, <1>6 DEF MarkIsHonest, Running, Live
<1>10. TurnsRemember
  <2>1. session.messages = <<>> /\ memory[0] = <<>> /\ NextToken = 0
    BY <1>0, <1>3, <1>4, <1>5 DEF NextToken
  <2>2. Members(<<>>) = {} /\ InOrder(<<>>)
    BY DEF Members, InOrder
  <2>3. Answered = {} /\ Carried = {}
    BY <2>1, <2>2 DEF Answered, Carried
  <2>. QED  BY <1>6, <2>1, <2>2, <2>3 DEF TurnsRemember
<1>11. PanelsOwe
  BY <1>2 DEF PanelsOwe
<1>. QED  BY <1>7, <1>8, <1>9, <1>10, <1>11 DEF ChatInv

-----------------------------------------------------------------------------
(* The browser and the page.                                               *)

\* The first read: of the turns that started, one that runs is the one marked.
LEMMA LoadHolds ==
  ASSUME ChatInv, NEW p \in Panel, Load(p)
  PROVE  ChatInv'
<1>. USE DEF ChatInv
<1> DEFINE r == [Closed EXCEPT !.mode = "reading", !.read = session.active,
                               !.owed = Cardinality(Started)]
<1>1. /\ panels' = [panels EXCEPT ![p] = r]
      /\ UNCHANGED <<session, turns, loop, memory, overlapped, restarted>>
  BY DEF Load
<1>2. /\ Cardinality(Started) \in 0..MaxTurns
      /\ \A t \in 1..Cardinality(Started) : t \in Started
  BY FirstTurnsStarted
<1>3. session.active \in 0..MaxTurns
  BY DEF ChatTypeOK, SessionRecord
<1>4. /\ r \in PanelRecord /\ r.mode = "reading" /\ r.read = session.active
      /\ r.owed = Cardinality(Started)
  <2>1. 0 \in 0..MaxTurns
    BY TurnsAreNumbers
  <2>2. PICK n : n = Cardinality(Started)
    OBVIOUS
  <2>3. n \in 0..MaxTurns
    BY <1>2, <2>2
  <2>. QED  BY <1>3, <2>1, <2>2, <2>3 DEF PanelRecord, Closed
<1>. HIDE DEF r
<1>5. /\ panels' \in [Panel -> PanelRecord] /\ panels'[p] = r
      /\ \A q \in Panel : q # p => panels'[q] = panels[q]
  BY <1>1, <1>4, PanelMoves
<1>6. ASSUME NEW t \in Started, ~overlapped, ~restarted
      PROVE  t = session.active \/ turns[t].state \in {"ended", "over"}
  <2>1. t \in Turn /\ turns[t].state \in TurnState \ {"unposted", "posted"}
    BY <1>6 DEF Started, ChatTypeOK, TurnRecord
  <2>2. CASE turns[t].state \in Live
    BY <1>6, <2>1, <2>2 DEF MarkIsHonest, Running
  <2>3. CASE turns[t].state = "over"
    BY <2>3
  <2>4. turns[t].state # "gone"
    BY <1>6, <2>1 DEF NoneIsGone
  <2>. QED  BY <2>1, <2>2, <2>3, <2>4 DEF TurnState
<1>7. PanelsOwe'
  <2>1. Started' = Started /\ Answered' = Answered
    BY <1>1 DEF Started, Answered, Members, Turn
  <2>2. \A q \in Panel : q # p => \A t \in Turn : Silent(t)' = Silent(t)
    BY <1>1, <2>1 DEF Silent
  <2> SUFFICES ASSUME NEW q \in Panel, NEW t \in 1..panels'[q].owed
               PROVE  /\ t \in Started'
                      /\ ~overlapped' /\ ~restarted' =>
                           IF panels'[q].mode = "reading"
                           THEN \/ t \in Answered' \/ t = panels'[q].read
                                \/ turns'[t].state \in {"ended", "over"}
                           ELSE t \in panels'[q].drawn \cup panels'[q].streamed \/ Silent(t)'
    BY DEF PanelsOwe
  <2>3. CASE q = p
    BY <1>1, <1>2, <1>4, <1>5, <1>6, <2>1, <2>3
  <2>4. CASE q # p
    <3>1. t \in Started
      BY <1>5, <2>4 DEF PanelsOwe
    <3>2. t \in Turn
      BY <3>1 DEF Started
    <3>. QED  BY <1>1, <1>5, <2>1, <2>2, <2>4, <3>1, <3>2 DEF PanelsOwe
  <2>. QED  BY <2>3, <2>4
<1>. QED  BY <1>1, <1>5, <1>7, BrowserMoves

\* The second read: what was stored is drawn, what ran is reattached to, and what ended
\* between the reads is in one of the two or gave no answer.
LEMMA DrawHolds ==
  ASSUME ChatInv, NEW p \in Panel, Draw(p)
  PROVE  ChatInv'
<1>. USE DEF ChatInv
<1> DEFINE drawn == [panels[p] EXCEPT !.drawn = Answered, !.read = 0]
           read == panels[p].read
           r == IF read # 0 THEN Attached(drawn, read) ELSE [drawn EXCEPT !.mode = "idle"]
<1>1. /\ panels[p] \in PanelRecord /\ panels[p].mode = "reading"
      /\ panels' = [panels EXCEPT ![p] = r]
      /\ UNCHANGED <<session, turns, loop, memory, overlapped, restarted>>
  BY DEF Draw, ChatTypeOK
<1>2. Answered \in SUBSET Turn /\ read \in 0..MaxTurns
  <2>1. session.messages \in Seq(Turn)
    BY DEF ChatTypeOK, SessionRecord
  <2>. QED  BY <1>1, <2>1 DEF Answered, Members, PanelRecord
<1>3. /\ drawn \in PanelRecord /\ drawn.drawn = Answered /\ drawn.owed = panels[p].owed
      /\ drawn.streamed = panels[p].streamed
  <2>1. 0 \in 0..MaxTurns
    BY TurnsAreNumbers
  <2>. QED  BY <1>1, <1>2, <2>1 DEF PanelRecord
<1>. HIDE DEF drawn
<1>4. /\ r \in PanelRecord /\ r.mode \in {"attached", "idle"} /\ r.owed = panels[p].owed
      /\ r.drawn = Answered
      /\ read # 0 => read \in r.streamed
  <2>1. CASE read # 0
    <3>1. drawn.streamed \cup {read} \in SUBSET Turn
      BY <1>2, <1>3, <2>1, TurnsAreNumbers DEF PanelRecord
    <3>. HIDE DEF read
    <3>. QED  BY <1>2, <1>3, <2>1, <3>1 DEF Attached, PanelRecord
  <2>2. CASE read = 0
    BY <1>3, <2>2 DEF PanelRecord
  <2>. QED  BY <2>1, <2>2
<1>. HIDE DEF r
<1>5. /\ panels' \in [Panel -> PanelRecord] /\ panels'[p] = r
      /\ \A q \in Panel : q # p => panels'[q] = panels[q]
  BY <1>1, <1>4, PanelMoves
<1>6. PanelsOwe'
  <2>1. Started' = Started /\ Answered' = Answered
    BY <1>1 DEF Started, Answered, Members, Turn
  <2>2. \A t \in Turn : Silent(t)' = Silent(t)
    BY <1>1, <2>1 DEF Silent
  <2> SUFFICES ASSUME NEW q \in Panel, NEW t \in 1..panels'[q].owed
               PROVE  /\ t \in Started'
                      /\ ~overlapped' /\ ~restarted' =>
                           IF panels'[q].mode = "reading"
                           THEN \/ t \in Answered' \/ t = panels'[q].read
                                \/ turns'[t].state \in {"ended", "over"}
                           ELSE t \in panels'[q].drawn \cup panels'[q].streamed \/ Silent(t)'
    BY DEF PanelsOwe
  <2>3. t \in 1..panels[q].owed /\ t \in Started /\ t \in Turn
    <3>1. t \in 1..panels[q].owed
      BY <1>4, <1>5
    <3>. QED  BY <3>1 DEF PanelsOwe, Started
  <2>4. CASE q = p
    <3>1. ~overlapped /\ ~restarted =>
            t \in Answered \/ t = read \/ turns[t].state \in {"ended", "over"}
      <4>1. t \in 1..panels[p].owed /\ PanelsOwe
        BY <2>3, <2>4
      <4>2. ~overlapped /\ ~restarted =>
              IF panels[p].mode = "reading"
              THEN t \in Answered \/ t = panels[p].read \/ turns[t].state \in {"ended", "over"}
              ELSE t \in panels[p].drawn \cup panels[p].streamed \/ Silent(t)
        BY <4>1, Zenon DEF PanelsOwe
      <4>. QED  BY <1>1, <4>2
    <3>2. t # 0
      BY <2>3, TurnsAreNumbers
    <3>3. ~overlapped /\ ~restarted => t \in r.drawn \cup r.streamed \/ Silent(t)
      BY <1>4, <3>1, <3>2 DEF Silent
    <3>. QED  BY <1>1, <1>4, <1>5, <2>1, <2>2, <2>3, <2>4, <3>3
  <2>5. CASE q # p
    BY <1>1, <1>5, <2>1, <2>2, <2>3, <2>5 DEF PanelsOwe
  <2>. QED  BY <2>4, <2>5
<1>. QED  BY <1>1, <1>5, <1>6, BrowserMoves

\* A panel that keeps its page.
LEMMA PageIsKept ==
  ASSUME ChatInv, NEW p \in Panel, NEW r \in PanelRecord, panels' = [panels EXCEPT ![p] = r],
         panels[p].mode # "reading", r.mode # "reading", r.owed \in {panels[p].owed, 0},
         r.drawn = panels[p].drawn, r.read = panels[p].read,
         panels[p].streamed \subseteq r.streamed
  PROVE  panels' \in [Panel -> PanelRecord] /\ PanelsKeepTheirPages
<1>1. /\ panels' \in [Panel -> PanelRecord] /\ panels'[p] = r
      /\ \A q \in Panel : q # p => panels'[q] = panels[q]
  BY PanelMoves DEF ChatInv
<1>. QED  BY <1>1 DEF PanelsKeepTheirPages

LEMMA SendHolds ==
  ASSUME ChatInv, NEW p \in Panel, Send(p)
  PROVE  ChatInv'
<1> DEFINE r == [panels[p] EXCEPT !.mode = "sending"]
<1>1. /\ panels[p] \in PanelRecord /\ panels[p].mode = "idle"
      /\ panels' = [panels EXCEPT ![p] = r]
      /\ UNCHANGED <<session, turns, loop, memory, overlapped, restarted>>
  BY DEF Send, ChatInv, ChatTypeOK
<1>2. /\ r \in PanelRecord /\ r.mode = "sending" /\ r.owed = panels[p].owed
      /\ r.drawn = panels[p].drawn /\ r.read = panels[p].read /\ r.streamed = panels[p].streamed
  BY <1>1 DEF PanelRecord
<1>. HIDE DEF r
<1>. QED  BY <1>1, <1>2, PageIsKept, BrowserKeepsItsPage

LEMMA DetachedPanel ==
  ASSUME ChatTypeOK, NEW p \in Panel
  PROVE  LET r == Detached(panels[p]) IN
         /\ r \in PanelRecord /\ r.mode = "idle" /\ r.owed = panels[p].owed
         /\ r.drawn = panels[p].drawn /\ r.read = panels[p].read
         /\ r.streamed = panels[p].streamed
<1>1. panels[p] \in PanelRecord /\ 0 \in 0..MaxTurns
  BY TurnsAreNumbers DEF ChatTypeOK
<1>. QED  BY <1>1 DEF PanelRecord, Detached

LEMMA ReceiveHolds ==
  ASSUME ChatInv, NEW p \in Panel, Receive(p)
  PROVE  ChatInv'
<1> DEFINE seen == [panels[p] EXCEPT !.seen = panels[p].seen + 1]
<1>1. /\ panels[p] \in PanelRecord /\ panels[p].mode = "attached" /\ ChatTypeOK
      /\ UNCHANGED <<session, turns, loop, memory, overlapped, restarted>>
  BY DEF Receive, ChatInv, ChatTypeOK
<1>2. \/ panels' = [panels EXCEPT ![p] = Detached(panels[p])]
      \/ panels' = [panels EXCEPT ![p] = seen]
  BY <1>1 DEF Receive, ChatTypeOK
<1>3. /\ seen \in PanelRecord /\ seen.mode = "attached" /\ seen.owed = panels[p].owed
      /\ seen.drawn = panels[p].drawn /\ seen.read = panels[p].read
      /\ seen.streamed = panels[p].streamed
  <2> DEFINE next == panels[p].seen + 1
  <2>1. next \in Nat
    BY <1>1 DEF PanelRecord
  <2>. HIDE DEF next
  <2>. QED  BY <1>1, <2>1 DEF PanelRecord, next
<1>. HIDE DEF seen
<1>4. panels' \in [Panel -> PanelRecord] /\ PanelsKeepTheirPages
  <2>1. CASE panels' = [panels EXCEPT ![p] = Detached(panels[p])]
    BY <1>1, <2>1, DetachedPanel, PageIsKept
  <2>2. CASE panels' = [panels EXCEPT ![p] = seen]
    BY <1>1, <1>3, <2>2, PageIsKept
  <2>. QED  BY <1>2, <2>1, <2>2
<1>. QED  BY <1>1, <1>4, BrowserKeepsItsPage

LEMMA WaitHolds ==
  ASSUME ChatInv, NEW p \in Panel, Wait(p)
  PROVE  ChatInv'
<1> DEFINE r == [panels[p] EXCEPT !.asleep = TRUE]
<1>1. /\ panels[p] \in PanelRecord /\ panels[p].mode = "attached"
      /\ panels' = [panels EXCEPT ![p] = r]
      /\ UNCHANGED <<session, turns, loop, memory, overlapped, restarted>>
  BY DEF Wait, ChatInv, ChatTypeOK
<1>2. /\ r \in PanelRecord /\ r.mode = "attached" /\ r.owed = panels[p].owed
      /\ r.drawn = panels[p].drawn /\ r.read = panels[p].read /\ r.streamed = panels[p].streamed
  BY <1>1 DEF PanelRecord
<1>. HIDE DEF r
<1>. QED  BY <1>1, <1>2, PageIsKept, BrowserKeepsItsPage

\* A panel whose stream broke owes nothing.
LEMMA DropHolds ==
  ASSUME ChatInv, NEW p \in Panel, Drop(p)
  PROVE  ChatInv'
<1> DEFINE r == [Detached(panels[p]) EXCEPT !.owed = 0]
<1>1. /\ panels[p] \in PanelRecord /\ panels[p].mode = "attached" /\ ChatTypeOK
      /\ panels' = [panels EXCEPT ![p] = r]
      /\ UNCHANGED <<session, turns, loop, memory, overlapped, restarted>>
  BY DEF Drop, ChatInv, ChatTypeOK
<1>2. /\ r \in PanelRecord /\ r.mode = "idle" /\ r.owed = 0
      /\ r.drawn = panels[p].drawn /\ r.read = panels[p].read /\ r.streamed = panels[p].streamed
  <2>1. 0 \in 0..MaxTurns
    BY TurnsAreNumbers
  <2>. QED  BY <1>1, <2>1, DetachedPanel DEF PanelRecord
<1>. HIDE DEF r
<1>. QED  BY <1>1, <1>2, PageIsKept, BrowserKeepsItsPage

-----------------------------------------------------------------------------
(* The turn.                                                               *)

\* What the panels owe when one turn moves on and they keep their pages.
LEMMA StepKeepsDebts ==
  ASSUME ChatInv, NEW t \in Turn, NEW r \in TurnRecord, turns' = [turns EXCEPT ![t] = r],
         PanelsKeepTheirPages, UNCHANGED restarted, overlapped => overlapped',
         r.state \notin {"unposted", "gone"}, t \in Started => r.state # "posted",
         turns[t].state \in {"ended", "over"} => r.state \in {"ended", "over"},
         \/ Answered' = Answered
         \/ Answered' = Answered \cup {t} /\ turns[t].state = "running"
  PROVE  PanelsOwe' /\ NoneIsGone'
<1>1. /\ turns'[t] = r /\ \A u \in Turn : u # t => turns'[u] = turns[u]
      /\ Started' = IF r.state \in {"unposted", "posted"} THEN Started \ {t}
                    ELSE Started \cup {t}
  BY TurnMoves DEF ChatInv
<1>2. Started \subseteq Started' /\ Answered \subseteq Answered'
  BY <1>1
<1>3. \A u \in Turn : turns[u].state \in {"ended", "over"} =>
        turns'[u].state \in {"ended", "over"} /\ (u \in Answered' => u \in Answered)
  BY <1>1
<1>4. PanelsOwe'
  BY <1>2, <1>3, PanelsStillOwe DEF ChatInv, PanelsKeepTheirPages
<1>5. NoneIsGone'
  BY <1>1 DEF ChatInv, NoneIsGone, Turn
<1>. QED  BY <1>4, <1>5

\* What the CLI remembers when one turn moves on that is not being stored.
LEMMA StepKeepsMemory ==
  ASSUME ChatInv, NEW t \in Turn, NEW r \in TurnRecord, turns' = [turns EXCEPT ![t] = r],
         UNCHANGED <<memory, restarted>>, overlapped => overlapped',
         session'.messages = session.messages, session'.token = session.token,
         loop.at # "storing", loop'.at # "storing",
         r.state \notin {"unposted", "posted"} \/ t \notin Started,
         ~overlapped /\ ~restarted /\ r.state = "running" => r.token = session.token,
         r.state \in {"posted", "started", "running"} =>
           t \in Waiting \/ \A u \in Answered : u < t,
         t \in Waiting \/ r.token = turns[t].token
  PROVE  TurnsRemember'
<1>1. /\ turns'[t] = r /\ \A u \in Turn : u # t => turns'[u] = turns[u]
      /\ Started' = IF r.state \in {"unposted", "posted"} THEN Started \ {t}
                    ELSE Started \cup {t}
  BY TurnMoves DEF ChatInv
<1>2. Answered' = Answered
  BY DEF Answered
<1>3. Answered \subseteq Started'
  BY <1>1 DEF ChatInv, TurnsRemember
<1>4. NextToken' = session.token /\ NextToken = session.token
  BY DEF NextToken
<1>5. SUFFICES ASSUME ~overlapped', ~restarted'
      PROVE  /\ \A u \in Turn : turns'[u].state = "running" => turns'[u].token = session'.token
             /\ \A v \in Waiting' : \A u \in Answered : u < v
             /\ InOrder(session'.messages)
             /\ NextToken' \in Answered \cup {0}
             /\ Members(memory'[NextToken']) = Carried'
             /\ InOrder(memory'[NextToken'])
  BY <1>2, <1>3 DEF TurnsRemember
<1>6. ~overlapped /\ ~restarted
  BY <1>5
<1>7. \A v \in Waiting' : v = t \/ v \in Waiting
  BY <1>1 DEF Waiting, Turn
<1>8. t \in Waiting => t \notin Answered
  BY <1>6, TurnsAreNumbers DEF ChatInv, TurnsRemember
<1>9. Carried' = Carried
  <2>1. \A u \in Answered : u \in Turn /\ turns'[u].token = turns[u].token
    BY <1>1, <1>8 DEF ChatInv, TurnsRemember, Started
  <2>. QED  BY <1>2, <2>1 DEF Carried
<1>10. \A u \in Turn : turns'[u].state = "running" => turns'[u].token = session'.token
  BY <1>1, <1>6 DEF ChatInv, TurnsRemember
<1>11. \A v \in Waiting' : \A u \in Answered : u < v
  <2>1. t \in Waiting' => r.state \in {"posted", "started", "running"}
    BY <1>1 DEF Waiting
  <2>. QED  BY <1>6, <1>7, <2>1 DEF ChatInv, TurnsRemember
<1>. QED  BY <1>4, <1>6, <1>9, <1>10, <1>11 DEF ChatInv, TurnsRemember

\* post_message: the turns before it have started.
LEMMA PostMessageHolds ==
  ASSUME ChatInv, NEW p \in Panel, NEW t \in Turn, PostMessage(p, t)
  PROVE  ChatInv'
<1>. USE DEF ChatInv
<1> DEFINE r == [turns[t] EXCEPT !.state = "posted"]
           panel == [panels[p] EXCEPT !.mode = "posted"]
<1>1. /\ loop = Free /\ loop.at = "free" /\ turns[t].state = "unposted" /\ turns[t] \in TurnRecord
      /\ \A u \in 1..(t - 1) : turns[u].state # "unposted"
      /\ turns' = [turns EXCEPT ![t] = r] /\ panels' = [panels EXCEPT ![p] = panel]
      /\ panels[p] \in PanelRecord /\ panels[p].mode = "sending"
      /\ session' = [session EXCEPT !.pending = t] /\ session \in SessionRecord
      /\ loop' = [at |-> "posting", turn |-> t]
      /\ UNCHANGED <<memory, overlapped, restarted>>
  BY DEF PostMessage, Free, ChatTypeOK
<1>2. r \in TurnRecord /\ r.state = "posted"
  BY <1>1 DEF TurnRecord, TurnState
<1>3. /\ panel \in PanelRecord /\ panel.mode = "posted" /\ panel.owed = panels[p].owed
      /\ panel.drawn = panels[p].drawn /\ panel.read = panels[p].read
      /\ panel.streamed = panels[p].streamed
  BY <1>1 DEF PanelRecord
<1>. HIDE DEF r, panel
<1>4. panels' \in [Panel -> PanelRecord] /\ PanelsKeepTheirPages
  BY <1>1, <1>3, PageIsKept
<1>5. /\ session' \in SessionRecord /\ session'.active = session.active
      /\ session'.token = session.token /\ session'.messages = session.messages
  <2>1. t \in 0..MaxTurns
    BY TurnsAreNumbers
  <2>. QED  BY <1>1, <2>1 DEF SessionRecord
<1>6. loop' \in LoopRecord /\ loop'.at = "posting" /\ loop'.turn = t
  BY <1>1, TurnsAreNumbers DEF LoopRecord
<1>7. t \notin Running /\ t \notin Started
  BY <1>1 DEF Running, Started, Live
<1>8. /\ turns' \in [Turn -> TurnRecord] /\ turns'[t] = r
      /\ \A u \in Turn : u # t => turns'[u] = turns[u]
      /\ Running' = Running /\ Started' = Started
  <2>1. /\ turns' \in [Turn -> TurnRecord] /\ turns'[t] = r
        /\ \A u \in Turn : u # t => turns'[u] = turns[u]
        /\ Running' = IF r.state \in Live THEN Running \cup {t} ELSE Running \ {t}
        /\ Started' = IF r.state \in {"unposted", "posted"} THEN Started \ {t}
                      ELSE Started \cup {t}
    BY <1>1, <1>2, TurnMoves
  <2>2. r.state \notin Live /\ r.state \in {"unposted", "posted"}
    BY <1>2 DEF Live
  <2>. QED  BY <1>7, <2>1, <2>2
<1>9. Answered' = Answered
  BY <1>5 DEF Answered, Members
<1>10. PanelsOwe' /\ NoneIsGone'
  BY <1>1, <1>2, <1>4, <1>7, <1>9, StepKeepsDebts
<1>11. ChatTypeOK'
  <2>. HIDE DEF TurnRecord, PanelRecord, SessionRecord, LoopRecord
  <2>1. ChatTypeOK
    OBVIOUS
  <2>. QED  BY <1>1, <1>4, <1>5, <1>6, <1>8, <2>1 DEF ChatTypeOK, Turn, TurnRecord, PanelRecord,
         SessionRecord, LoopRecord
<1>12. TurnsTakeTheirTurn'
  <2>1. \A u \in Turn : turns[u].state # "posted"
    BY <1>1 DEF TurnsTakeTheirTurn
  <2>2. \A u \in Turn : u < t => u \in Started
    <3> SUFFICES ASSUME NEW u \in Turn, u < t  PROVE u \in Started
      OBVIOUS
    <3>1. u \in 1..(t - 1)
      BY TurnsAreNumbers
    <3>. QED  BY <1>1, <2>1, <3>1 DEF Started
  <2>. QED  BY <1>1, <1>2, <1>6, <1>8, <2>1, <2>2 DEF TurnsTakeTheirTurn, Turn
<1>13. MarkIsHonest'
  BY <1>1, <1>5, <1>8 DEF MarkIsHonest
<1>14. TurnsRemember'
  <2>1. ASSUME NEW u \in Answered  PROVE u < t
    <3>1. u \in Started /\ u # t
      BY <1>7, <2>1 DEF TurnsRemember
    <3>2. u \in Turn /\ turns[u].state # "unposted"
      BY <3>1 DEF Started
    <3>. QED  BY <1>7, <3>1, <3>2, TurnsAreNumbers DEF TurnsTakeTheirTurn
  <2>2. r.token = turns[t].token
    BY <1>1 DEF r, TurnRecord
  <2>. QED  BY <1>1, <1>2, <1>5, <1>6, <1>7, <2>1, <2>2, StepKeepsMemory
<1>. QED  BY <1>10, <1>11, <1>12, <1>13, <1>14

\* TurnManager.start, and the panel that attaches to the turn.
LEMMA StartTurnHolds ==
  ASSUME ChatInv, NEW t \in Turn, StartTurn(t)
  PROVE  ChatInv'
<1>. USE DEF ChatInv
<1> DEFINE r == [turns[t] EXCEPT !.state = "started"]
<1>1. /\ loop.at = "posting" /\ loop.turn = t /\ turns[t] \in TurnRecord
      /\ turns' = [turns EXCEPT ![t] = r]
      /\ session' = [session EXCEPT !.active = t] /\ session \in SessionRecord
      /\ panels' = [q \in Panel |-> IF panels[q].mode = "posted" THEN Attached(panels[q], t)
                                    ELSE panels[q]]
      /\ overlapped' = (overlapped \/ Running # {})
      /\ loop' = Free /\ UNCHANGED <<memory, restarted>>
  BY DEF StartTurn, ChatTypeOK
<1>2. turns[t].state = "posted"
  BY <1>1 DEF TurnsTakeTheirTurn
<1>3. r \in TurnRecord /\ r.state = "started" /\ r.token = turns[t].token
  BY <1>1 DEF TurnRecord, TurnState, Live
<1>. HIDE DEF r
<1>4. panels' \in [Panel -> PanelRecord] /\ PanelsKeepTheirPages
  <2>1. \A q \in Panel :
          LET new == Attached(panels[q], t) IN
          /\ new \in PanelRecord /\ new.owed = panels[q].owed /\ new.drawn = panels[q].drawn
          /\ new.read = panels[q].read /\ new.mode = "attached"
          /\ panels[q].streamed \subseteq new.streamed
    <3> SUFFICES ASSUME NEW q \in Panel
                 PROVE LET new == Attached(panels[q], t) IN
                       /\ new \in PanelRecord /\ new.owed = panels[q].owed
                       /\ new.drawn = panels[q].drawn /\ new.read = panels[q].read
                       /\ new.mode = "attached" /\ panels[q].streamed \subseteq new.streamed
      OBVIOUS
    <3>1. panels[q] \in PanelRecord /\ t \in 0..MaxTurns
      BY TurnsAreNumbers DEF ChatTypeOK
    <3>2. panels[q].streamed \cup {t} \in SUBSET Turn
      BY <3>1 DEF PanelRecord
    <3>. QED  BY <3>1, <3>2 DEF PanelRecord, Attached
  <2>2. \A q \in Panel : panels[q] \in PanelRecord
    BY DEF ChatTypeOK
  <2>. HIDE DEF PanelRecord
  <2>. QED  BY <1>1, <2>1, <2>2 DEF PanelsKeepTheirPages
<1>5. /\ session' \in SessionRecord /\ session'.active = t
      /\ session'.token = session.token /\ session'.messages = session.messages
  BY <1>1, TurnsAreNumbers DEF SessionRecord
<1>6. loop' \in LoopRecord /\ loop'.at = "free"
  BY <1>1, TurnsAreNumbers DEF LoopRecord, Free
<1>7. /\ turns' \in [Turn -> TurnRecord] /\ turns'[t] = r
      /\ \A u \in Turn : u # t => turns'[u] = turns[u]
      /\ Running' = Running \cup {t} /\ Started' = Started \cup {t}
  BY <1>1, <1>3, TurnMoves DEF Live
<1>8. Answered' = Answered
  BY <1>5 DEF Answered, Members
<1>9. PanelsOwe' /\ NoneIsGone'
  BY <1>1, <1>2, <1>3, <1>4, <1>8, StepKeepsDebts
<1>10. ChatTypeOK'
  <2>1. overlapped' \in BOOLEAN /\ restarted' \in BOOLEAN
    BY <1>1 DEF ChatTypeOK
  <2>. QED  BY <1>1, <1>4, <1>5, <1>6, <1>7, <2>1 DEF ChatTypeOK, Turn, TurnRecord, PanelRecord,
         SessionRecord, LoopRecord
<1>11. TurnsTakeTheirTurn'
  <2>1. \A u \in Turn : u # t => turns[u].state # "posted"
    BY <1>1 DEF TurnsTakeTheirTurn
  <2>2. \A u, v \in Turn : v < u /\ turns'[u].state # "unposted" => v \in Started'
    BY <1>2, <1>7 DEF TurnsTakeTheirTurn
  <2>. QED  BY <1>3, <1>6, <1>7, <2>1, <2>2 DEF TurnsTakeTheirTurn, Turn
<1>12. MarkIsHonest'
  <2>1. ~overlapped' => Running = {}
    BY <1>1
  <2>2. ~overlapped' => \A u \in Running' : u = t
    BY <1>7, <2>1
  <2>. QED  BY <1>5, <1>7, <2>2 DEF MarkIsHonest
<1>13. TurnsRemember'
  <2>1. t \in Waiting
    BY <1>2 DEF Waiting
  <2>. QED  BY <1>1, <1>3, <1>5, <1>6, <2>1, StepKeepsMemory
<1>. QED  BY <1>9, <1>10, <1>11, <1>12, <1>13

\* A turn that runs goes on running, and the session knows nothing of it yet.
LEMMA RunningHolds ==
  ASSUME ChatInv, NEW t \in Turn, NEW r \in TurnRecord, turns' = [turns EXCEPT ![t] = r],
         loop = Free, turns[t].state \in {"started", "running"}, r.state = "running",
         r.token = IF turns[t].state = "started" THEN session.token ELSE turns[t].token,
         Wake(t) \/ UNCHANGED panels,
         UNCHANGED <<session, loop, memory, overlapped, restarted>>
  PROVE  ChatInv'
<1>. USE DEF ChatInv
<1>1. panels' \in [Panel -> PanelRecord] /\ PanelsKeepTheirPages
  BY WakeKeepsPages
<1>2. t \in Running /\ t \in Started
  BY DEF Running, Started, Live
<1>3. /\ turns' \in [Turn -> TurnRecord] /\ turns'[t] = r
      /\ \A u \in Turn : u # t => turns'[u] = turns[u]
      /\ Running' = Running /\ Started' = Started
  <2>1. /\ turns' \in [Turn -> TurnRecord] /\ turns'[t] = r
        /\ \A u \in Turn : u # t => turns'[u] = turns[u]
        /\ Running' = IF r.state \in Live THEN Running \cup {t} ELSE Running \ {t}
        /\ Started' = IF r.state \in {"unposted", "posted"} THEN Started \ {t}
                      ELSE Started \cup {t}
    BY TurnMoves
  <2>2. r.state \in Live /\ r.state \notin {"unposted", "posted"}
    BY DEF Live
  <2>. QED  BY <1>2, <2>1, <2>2
<1>4. Answered' = Answered
  BY DEF Answered, Members
<1>5. PanelsOwe' /\ NoneIsGone'
  BY <1>1, <1>4, StepKeepsDebts
<1>6. ChatTypeOK'
  BY <1>1, <1>3 DEF ChatTypeOK, Turn, TurnRecord, PanelRecord, SessionRecord, LoopRecord
<1>7. loop.at = "free"
  BY DEF Free
<1>8. TurnsTakeTheirTurn'
  BY <1>3, <1>7 DEF TurnsTakeTheirTurn, Turn
<1>9. MarkIsHonest'
  BY <1>3 DEF MarkIsHonest
<1>10. TurnsRemember'
  <2>1. t \in Waiting
    BY DEF Waiting
  <2>2. ~overlapped /\ ~restarted => r.token = session.token
    BY DEF TurnsRemember
  <2>. QED  BY <1>7, <2>1, <2>2, StepKeepsMemory
<1>. QED  BY <1>5, <1>6, <1>8, <1>9, <1>10

LEMMA BeginHolds ==
  ASSUME ChatInv, NEW t \in Turn, Begin(t)
  PROVE  ChatInv'
<1>1. PICK reply \in Replies : turns' = [turns EXCEPT ![t].state = "running", ![t].left = reply,
                                                      ![t].token = session.token]
  BY DEF Begin
<1> DEFINE r == [turns[t] EXCEPT !.state = "running", !.left = reply, !.token = session.token]
<1>2. turns[t] \in TurnRecord /\ session.token \in 0..MaxTurns /\ reply \in Seq(BlockRecord)
  BY ChatBounds DEF ChatInv, ChatTypeOK, SessionRecord, BlockRecord
<1>3. turns' = [turns EXCEPT ![t] = r]
  BY <1>1, <1>2 DEF ChatInv, ChatTypeOK
<1>4. r \in TurnRecord /\ r.state = "running" /\ r.token = session.token
  BY <1>2 DEF TurnRecord, TurnState, Live
<1>5. /\ loop = Free /\ turns[t].state = "started"
      /\ UNCHANGED <<session, loop, panels, memory, overlapped, restarted>>
  BY DEF Begin
<1>. HIDE DEF r
<1>. QED  BY <1>3, <1>4, <1>5, RunningHolds

LEMMA SpeakHolds ==
  ASSUME ChatInv, NEW t \in Turn, Speak(t)
  PROVE  ChatInv'
<1> DEFINE told == Tell(turns[t].told, Head(turns[t].left))
           left == Tail(turns[t].left)
           r == [turns[t] EXCEPT !.told = told, !.left = left]
<1>1. /\ loop = Free /\ turns[t].state = "running" /\ turns[t].left # <<>>
      /\ turns[t] \in TurnRecord
      /\ Wake(t) \/ UNCHANGED panels
      /\ UNCHANGED <<session, loop, memory, overlapped, restarted>>
  BY DEF Speak, ChatInv, ChatTypeOK
<1>2. turns' = [turns EXCEPT ![t] = r]
  BY <1>1 DEF Speak, ChatInv, ChatTypeOK
<1>3. /\ turns[t].told \in TellingRecord /\ turns[t].left \in Seq(BlockRecord)
  BY <1>1 DEF TurnRecord
<1>4. Head(turns[t].left) \in BlockRecord /\ left \in Seq(BlockRecord)
  <2>. HIDE DEF BlockRecord
  <2>. QED  BY <1>1, <1>3
<1>5. told \in TellingRecord
  BY <1>3, <1>4, TellIsATelling
<1>. HIDE DEF told, left
<1>6. r \in TurnRecord /\ r.state = "running" /\ r.token = turns[t].token
  BY <1>1, <1>4, <1>5 DEF TurnRecord
<1>. HIDE DEF r
<1>. QED  BY <1>1, <1>2, <1>6, RunningHolds

\* append_messages: the CLI session the turn resumed remembered the transcript so far.
LEMMA StoreReplyHolds ==
  ASSUME ChatInv, NEW t \in Turn, StoreReply(t)
  PROVE  ChatInv'
<1>. USE DEF ChatInv
<1>0. t \in 0..MaxTurns /\ 0 \in 0..MaxTurns /\ t # 0
  BY TurnsAreNumbers
<1>1. PICK token \in {0, t} : turns' = [turns EXCEPT ![t].state = "stored", ![t].token = token]
  BY DEF StoreReply
<1> DEFINE r == [turns[t] EXCEPT !.state = "stored", !.token = token]
           messages == Append(session.messages, t)
           told == Append(memory[turns[t].token], t)
<1>2. /\ loop = Free /\ loop.at = "free" /\ turns[t].state = "running" /\ turns[t] \in TurnRecord
      /\ turns \in [Turn -> TurnRecord] /\ turns' = [turns EXCEPT ![t] = r]
      /\ session' = [session EXCEPT !.messages = messages, !.pending = 0]
      /\ session \in SessionRecord /\ session.messages \in Seq(Turn)
      /\ memory' = [memory EXCEPT ![t] = told] /\ memory \in [0..MaxTurns -> Seq(Turn)]
      /\ loop' = [at |-> "storing", turn |-> t]
      /\ UNCHANGED <<panels, overlapped, restarted>>
  BY <1>1 DEF StoreReply, Free, ChatTypeOK, SessionRecord
<1>3. r \in TurnRecord /\ r.state = "stored" /\ r.token = token
  BY <1>0, <1>2 DEF TurnRecord, TurnState, Live
<1>4. messages \in Seq(Turn) /\ told \in Seq(Turn) /\ memory[turns[t].token] \in Seq(Turn)
  <2>1. turns[t].token \in 0..MaxTurns
    BY <1>2 DEF TurnRecord
  <2>2. memory[turns[t].token] \in Seq(Turn)
    BY <1>2, <2>1
  <2>. QED  BY <1>2, <2>2
<1>5. /\ Members(messages) = Answered \cup {t}
      /\ InOrder(session.messages) /\ (\A u \in Answered : u < t) => InOrder(messages)
      /\ Members(told) = Members(memory[turns[t].token]) \cup {t}
      /\ InOrder(memory[turns[t].token]) /\ (\A u \in Members(memory[turns[t].token]) : u < t)
           => InOrder(told)
  BY <1>2, <1>4, AppendsInOrder DEF Answered
<1>. HIDE DEF r, messages, told
<1>6. /\ session' \in SessionRecord /\ session'.active = session.active
      /\ session'.token = session.token /\ session'.messages = messages
  BY <1>0, <1>2, <1>4 DEF SessionRecord
<1>7. loop' \in LoopRecord /\ loop'.at = "storing" /\ loop'.turn = t
  BY <1>0, <1>2 DEF LoopRecord
<1>8. /\ memory' \in [0..MaxTurns -> Seq(Turn)] /\ memory'[t] = told
      /\ \A k \in 0..MaxTurns : k # t => memory'[k] = memory[k]
  BY <1>0, <1>2, <1>4
<1>9. /\ turns' \in [Turn -> TurnRecord] /\ turns'[t] = r
      /\ \A u \in Turn : u # t => turns'[u] = turns[u]
      /\ Running' = Running /\ Started' = Started /\ t \in Started
  <2>1. /\ turns' \in [Turn -> TurnRecord] /\ turns'[t] = r
        /\ \A u \in Turn : u # t => turns'[u] = turns[u]
        /\ Running' = IF r.state \in Live THEN Running \cup {t} ELSE Running \ {t}
        /\ Started' = IF r.state \in {"unposted", "posted"} THEN Started \ {t}
                      ELSE Started \cup {t}
    BY <1>2, <1>3, TurnMoves
  <2>2. r.state \in Live /\ r.state \notin {"unposted", "posted"} /\ t \in Running /\ t \in Started
    BY <1>2, <1>3 DEF Live, Running, Started
  <2>. QED  BY <2>1, <2>2
<1>10. Answered' = Answered \cup {t}
  BY <1>5, <1>6 DEF Answered, Members
<1>11. PanelsOwe' /\ NoneIsGone'
  <2>1. PanelsKeepTheirPages
    BY <1>2 DEF PanelsKeepTheirPages
  <2>. QED  BY <1>2, <1>3, <1>10, <2>1, StepKeepsDebts
<1>12. ChatTypeOK'
  BY <1>2, <1>6, <1>7, <1>8, <1>9 DEF ChatTypeOK, Turn, TurnRecord, PanelRecord, SessionRecord,
     LoopRecord
<1>13. TurnsTakeTheirTurn'
  BY <1>2, <1>3, <1>7, <1>9 DEF TurnsTakeTheirTurn, Turn
<1>14. MarkIsHonest'
  BY <1>2, <1>6, <1>9 DEF MarkIsHonest
<1>15. TurnsRemember'
  <2>1. Answered' \subseteq Started'
    BY <1>9, <1>10 DEF TurnsRemember
  <2>2. SUFFICES ASSUME ~overlapped, ~restarted
        PROVE  /\ \A u \in Waiting : u = t
               /\ InOrder(messages)
               /\ NextToken' \in Answered' \cup {0}
               /\ Members(memory'[NextToken']) = Carried'
               /\ InOrder(memory'[NextToken'])
    <3>1. t \notin Waiting' /\ \A u \in Waiting' : u \in Waiting
      BY <1>3, <1>9 DEF Waiting, Turn
    <3>2. \A u \in Turn : turns'[u].state = "running" => u \in Waiting'
      BY DEF Waiting, Turn
    <3>. QED  BY <1>2, <1>6, <2>1, <2>2, <3>1, <3>2 DEF TurnsRemember
  <2>3. ASSUME NEW u \in Waiting  PROVE u = t
    <3>1. u \in Running
      BY <1>2, <2>3 DEF Waiting, Running, Live, TurnsTakeTheirTurn
    <3>2. t \in Running
      BY <1>2 DEF Running, Live
    <3>. QED  BY <2>2, <3>1, <3>2 DEF MarkIsHonest
  <2>4. (\A u \in Answered : u < t) /\ t \notin Answered
    BY <1>2, <2>2, TurnsAreNumbers DEF TurnsRemember, Waiting
  <2>5. NextToken = session.token /\ turns[t].token = session.token
    BY <1>2, <2>2 DEF NextToken, TurnsRemember
  <2>6. /\ session.token \in Answered \cup {0} /\ Members(memory[session.token]) = Carried
        /\ InOrder(memory[session.token]) /\ InOrder(session.messages)
    BY <2>2, <2>5 DEF TurnsRemember
  <2>7. NextToken' = IF token # 0 THEN t ELSE session.token
    BY <1>1, <1>3, <1>6, <1>7, <1>9 DEF NextToken
  <2>8. Carried' = IF token # 0 THEN Carried \cup {t} ELSE Carried
    <3>1. \A u \in Answered : u \in Turn /\ u # t /\ turns'[u].token = turns[u].token
      BY <1>9, <2>4 DEF TurnsRemember, Started
    <3>2. turns'[t].token = token
      BY <1>3, <1>9
    <3>3. ASSUME NEW u  PROVE u \in Carried' <=> u \in Carried \/ (token # 0 /\ u = t)
      BY <1>10, <2>4, <3>1, <3>2 DEF Carried
    <3>. QED  BY <3>3
  <2>9. Carried \subseteq Answered
    BY DEF Carried
  <2>10. InOrder(messages)
    BY <1>5, <2>4, <2>6
  <2>11. CASE token # 0
    <3>1. memory'[NextToken'] = told
      BY <1>8, <2>7, <2>11
    <3>2. Members(told) = Carried' /\ InOrder(told)
      BY <1>5, <2>4, <2>5, <2>6, <2>8, <2>9, <2>11
    <3>. QED  BY <1>10, <2>3, <2>7, <2>10, <2>11, <3>1, <3>2
  <2>12. CASE token = 0
    <3>1. session.token # t /\ session.token \in 0..MaxTurns
      BY <1>0, <1>2, <2>4, <2>6 DEF SessionRecord
    <3>2. memory'[NextToken'] = memory[session.token]
      BY <1>8, <2>7, <2>12, <3>1
    <3>. QED  BY <1>10, <2>3, <2>6, <2>7, <2>8, <2>10, <2>12, <3>2
  <2>. QED  BY <2>11, <2>12
<1>. QED  BY <1>11, <1>12, <1>13, <1>14, <1>15

\* set_resume_token: no other turn has read the token before.
LEMMA KeepTokenHolds ==
  ASSUME ChatInv, NEW t \in Turn, KeepToken(t)
  PROVE  ChatInv'
<1>. USE DEF ChatInv
<1> DEFINE r == [turns[t] EXCEPT !.state = "ended"]
<1>1. /\ loop.at = "storing" /\ loop.turn = t /\ turns[t] \in TurnRecord
      /\ turns' = [turns EXCEPT ![t] = r]
      /\ session' = [session EXCEPT !.token = NextToken] /\ session \in SessionRecord
      /\ loop' = [at |-> "stopping", turn |-> t]
      /\ UNCHANGED <<panels, memory, overlapped, restarted>>
  BY DEF KeepToken, ChatTypeOK, NextToken
<1>0. t \in 0..MaxTurns /\ NextToken \in 0..MaxTurns
  BY <1>1, TurnsAreNumbers DEF NextToken, TurnRecord, SessionRecord
<1>2. turns[t].state = "stored"
  BY <1>1 DEF TurnsTakeTheirTurn
<1>3. r \in TurnRecord /\ r.state = "ended" /\ r.token = turns[t].token
  BY <1>1 DEF TurnRecord, TurnState, Live
<1>. HIDE DEF r
<1>4. /\ session' \in SessionRecord /\ session'.active = session.active
      /\ session'.token = NextToken /\ session'.messages = session.messages
  BY <1>0, <1>1 DEF SessionRecord
<1>5. loop' \in LoopRecord /\ loop'.at = "stopping" /\ loop'.turn = t
  BY <1>0, <1>1 DEF LoopRecord
<1>6. /\ turns' \in [Turn -> TurnRecord] /\ turns'[t] = r /\ t \in Running
      /\ \A u \in Turn : u # t => turns'[u] = turns[u]
      /\ Running' = Running /\ Started' = Started
  <2>1. /\ turns' \in [Turn -> TurnRecord] /\ turns'[t] = r
        /\ \A u \in Turn : u # t => turns'[u] = turns[u]
        /\ Running' = IF r.state \in Live THEN Running \cup {t} ELSE Running \ {t}
        /\ Started' = IF r.state \in {"unposted", "posted"} THEN Started \ {t}
                      ELSE Started \cup {t}
    BY <1>1, <1>3, TurnMoves
  <2>2. r.state \in Live /\ r.state \notin {"unposted", "posted"} /\ t \in Running /\ t \in Started
    BY <1>2, <1>3 DEF Live, Running, Started
  <2>. QED  BY <2>1, <2>2
<1>7. Answered' = Answered
  BY <1>4 DEF Answered, Members
<1>8. PanelsOwe' /\ NoneIsGone'
  <2>1. PanelsKeepTheirPages
    BY <1>1 DEF PanelsKeepTheirPages
  <2>. QED  BY <1>1, <1>2, <1>3, <1>7, <2>1, StepKeepsDebts
<1>9. ChatTypeOK'
  BY <1>1, <1>4, <1>5, <1>6 DEF ChatTypeOK, Turn, TurnRecord, PanelRecord, SessionRecord,
     LoopRecord
<1>10. TurnsTakeTheirTurn'
  BY <1>1, <1>2, <1>3, <1>5, <1>6 DEF TurnsTakeTheirTurn, Turn
<1>11. MarkIsHonest'
  BY <1>1, <1>4, <1>6 DEF MarkIsHonest
<1>12. TurnsRemember'
  <2>1. ASSUME ~overlapped, NEW u \in Turn, turns[u].state = "running"  PROVE FALSE
    <3>1. u \in Running
      BY <2>1 DEF Running, Live
    <3>. QED  BY <1>2, <1>6, <2>1, <3>1 DEF MarkIsHonest
  <2>2. ~overlapped => \A u \in Turn : turns'[u].state # "running"
    BY <1>3, <1>6, <2>1
  <2>3. NextToken' = NextToken
    BY <1>4, <1>5 DEF NextToken
  <2>4. Carried' = Carried
    <3>1. \A u \in Turn : turns'[u].token = turns[u].token
      BY <1>3, <1>6
    <3>2. Answered \subseteq Turn
      BY DEF TurnsRemember, Started
    <3>. QED  BY <1>7, <3>1, <3>2 DEF Carried
  <2>5. \A u \in Waiting' : u \in Waiting
    BY <1>3, <1>6 DEF Waiting, Turn
  <2>. QED  BY <1>1, <1>4, <1>6, <1>7, <2>2, <2>3, <2>4, <2>5 DEF TurnsRemember, Turn
<1>. QED  BY <1>8, <1>9, <1>10, <1>11, <1>12

\* The events of a turn grow.
LEMMA EventIsTold ==
  ASSUME NEW told \in TellingRecord, NEW kind \in {"error", "done"}
  PROVE  [told EXCEPT !.events = Append(@, [kind |-> kind, id |-> 0])] \in TellingRecord
<1>1. told.events \in Seq(EventRecord) /\ [kind |-> kind, id |-> 0] \in EventRecord
  BY DEF TellingRecord, EventRecord
<1>2. Append(told.events, [kind |-> kind, id |-> 0]) \in Seq(EventRecord)
  <2>. HIDE DEF EventRecord
  <2>. QED  BY <1>1
<1>. QED  BY <1>2 DEF TellingRecord

\* The turn raises: what it said is gone, and the transcript is what it was.
LEMMA FailHolds ==
  ASSUME ChatInv, NEW t \in Turn, NEW told \in BOOLEAN, Fail(t, told)
  PROVE  ChatInv'
<1>. USE DEF ChatInv
<1> DEFINE error == [turns[t].told EXCEPT !.events = Append(@, [kind |-> "error", id |-> 0])]
           telling == IF told THEN error ELSE turns[t].told
           r == [turns[t] EXCEPT !.state = "ended", !.left = <<>>, !.token = 0, !.told = telling]
<1>0. t \in 0..MaxTurns /\ 0 \in 0..MaxTurns
  BY TurnsAreNumbers
<1>1. /\ loop = Free /\ loop.at = "free" /\ turns[t].state = "running" /\ turns[t] \in TurnRecord
      /\ turns \in [Turn -> TurnRecord]
      /\ Wake(t) \/ UNCHANGED panels
      /\ loop' = [at |-> "stopping", turn |-> t]
      /\ UNCHANGED <<session, memory, overlapped, restarted>>
  BY DEF Fail, Free, ChatTypeOK
<1>2. turns[t].told \in TellingRecord /\ error \in TellingRecord
  <2>1. turns[t].told \in TellingRecord
    BY <1>1 DEF TurnRecord
  <2>. QED  BY <2>1, EventIsTold
<1>3. turns' = [turns EXCEPT ![t] = r]
  BY <1>1, <1>2 DEF Fail, TurnRecord, TellingRecord
<1>4. telling \in TellingRecord /\ <<>> \in Seq(BlockRecord)
  BY <1>2
<1>. HIDE DEF telling, error
<1>5. r \in TurnRecord /\ r.state = "ended"
  BY <1>0, <1>1, <1>4 DEF TurnRecord, TurnState, Live
<1>. HIDE DEF r
<1>6. panels' \in [Panel -> PanelRecord] /\ PanelsKeepTheirPages
  BY <1>1, WakeKeepsPages
<1>7. loop' \in LoopRecord /\ loop'.at = "stopping" /\ loop'.turn = t
  BY <1>0, <1>1 DEF LoopRecord
<1>8. /\ turns' \in [Turn -> TurnRecord] /\ turns'[t] = r
      /\ \A u \in Turn : u # t => turns'[u] = turns[u]
      /\ Running' = Running /\ Started' = Started
  <2>1. /\ turns' \in [Turn -> TurnRecord] /\ turns'[t] = r
        /\ \A u \in Turn : u # t => turns'[u] = turns[u]
        /\ Running' = IF r.state \in Live THEN Running \cup {t} ELSE Running \ {t}
        /\ Started' = IF r.state \in {"unposted", "posted"} THEN Started \ {t}
                      ELSE Started \cup {t}
    BY <1>3, <1>5, TurnMoves
  <2>2. r.state \in Live /\ r.state \notin {"unposted", "posted"} /\ t \in Running /\ t \in Started
    BY <1>1, <1>5 DEF Live, Running, Started
  <2>. QED  BY <2>1, <2>2
<1>9. Answered' = Answered
  BY <1>1 DEF Answered, Members
<1>10. PanelsOwe' /\ NoneIsGone'
  BY <1>1, <1>3, <1>5, <1>6, <1>9, StepKeepsDebts
<1>11. ChatTypeOK'
  BY <1>1, <1>6, <1>7, <1>8 DEF ChatTypeOK, Turn, TurnRecord, PanelRecord, SessionRecord,
     LoopRecord
<1>12. TurnsTakeTheirTurn'
  BY <1>1, <1>5, <1>7, <1>8 DEF TurnsTakeTheirTurn, Turn
<1>13. MarkIsHonest'
  BY <1>1, <1>8 DEF MarkIsHonest
<1>14. TurnsRemember'
  <2>1. t \in Waiting
    BY <1>1 DEF Waiting
  <2>. QED  BY <1>1, <1>3, <1>5, <1>7, <2>1, StepKeepsMemory
<1>. QED  BY <1>10, <1>11, <1>12, <1>13, <1>14

\* The finally clause: the one turn that ran is the one that was marked.
LEMMA TearDownHolds ==
  ASSUME ChatInv, NEW t \in Turn, TearDown(t)
  PROVE  ChatInv'
<1>. USE DEF ChatInv
<1> DEFINE telling == [turns[t].told EXCEPT !.events = Append(@, [kind |-> "done", id |-> 0])]
           r == [turns[t] EXCEPT !.state = "over", !.told = telling]
<1>0. t \in 0..MaxTurns /\ 0 \in 0..MaxTurns
  BY TurnsAreNumbers
<1>1. /\ loop.at = "stopping" /\ loop.turn = t /\ turns[t] \in TurnRecord
      /\ turns \in [Turn -> TurnRecord] /\ Wake(t)
      /\ session' = [session EXCEPT !.spent = session.spent \cup {t}, !.active = 0]
      /\ session \in SessionRecord
      /\ loop' = Free /\ UNCHANGED <<memory, overlapped, restarted>>
  BY DEF TearDown, ChatTypeOK
<1>2. turns[t].state = "ended"
  BY <1>1 DEF TurnsTakeTheirTurn
<1>3. turns[t].told \in TellingRecord /\ telling \in TellingRecord
  <2>1. turns[t].told \in TellingRecord
    BY <1>1 DEF TurnRecord
  <2>. QED  BY <2>1, EventIsTold
<1>4. turns' = [turns EXCEPT ![t] = r]
  BY <1>1, <1>3 DEF TearDown, TurnRecord, TellingRecord
<1>. HIDE DEF telling
<1>5. r \in TurnRecord /\ r.state = "over" /\ r.token = turns[t].token
  BY <1>1, <1>3 DEF TurnRecord, TurnState
<1>. HIDE DEF r
<1>6. panels' \in [Panel -> PanelRecord] /\ PanelsKeepTheirPages
  BY <1>1, WakeKeepsPages
<1>7. /\ session' \in SessionRecord /\ session'.active = 0
      /\ session'.token = session.token /\ session'.messages = session.messages
  <2>1. session.spent \cup {t} \in SUBSET Turn
    BY <1>1 DEF SessionRecord
  <2>. QED  BY <1>0, <1>1, <2>1 DEF SessionRecord
<1>8. loop' \in LoopRecord /\ loop'.at = "free"
  BY <1>0, <1>1 DEF LoopRecord, Free
<1>9. /\ turns' \in [Turn -> TurnRecord] /\ turns'[t] = r /\ t \in Running
      /\ \A u \in Turn : u # t => turns'[u] = turns[u]
      /\ Running' = Running \ {t} /\ Started' = Started
  <2>1. /\ turns' \in [Turn -> TurnRecord] /\ turns'[t] = r
        /\ \A u \in Turn : u # t => turns'[u] = turns[u]
        /\ Running' = IF r.state \in Live THEN Running \cup {t} ELSE Running \ {t}
        /\ Started' = IF r.state \in {"unposted", "posted"} THEN Started \ {t}
                      ELSE Started \cup {t}
    BY <1>4, <1>5, TurnMoves
  <2>2. /\ r.state \notin Live /\ r.state \notin {"unposted", "posted"}
        /\ t \in Running /\ t \in Started
    BY <1>2, <1>5 DEF Live, Running, Started
  <2>. QED  BY <2>1, <2>2
<1>10. Answered' = Answered
  BY <1>7 DEF Answered, Members
<1>11. PanelsOwe' /\ NoneIsGone'
  BY <1>1, <1>2, <1>4, <1>5, <1>6, <1>10, StepKeepsDebts
<1>12. ChatTypeOK'
  BY <1>1, <1>6, <1>7, <1>8, <1>9 DEF ChatTypeOK, Turn, TurnRecord, PanelRecord, SessionRecord,
     LoopRecord
<1>13. TurnsTakeTheirTurn'
  BY <1>1, <1>2, <1>5, <1>8, <1>9 DEF TurnsTakeTheirTurn, Turn
<1>14. MarkIsHonest'
  BY <1>1, <1>7, <1>9 DEF MarkIsHonest
<1>15. TurnsRemember'
  BY <1>1, <1>4, <1>5, <1>7, <1>8, StepKeepsMemory
<1>. QED  BY <1>11, <1>12, <1>13, <1>14, <1>15

-----------------------------------------------------------------------------
(* The server restarts, and the theorems.                                  *)

\* A panel loses its stream, its page or its answer, and never owes more.
LEMMA CrashHolds ==
  ASSUME ChatInv, Crash
  PROVE  ChatInv'
<1>. USE DEF ChatInv
<1>0. 0 \in 0..MaxTurns
  BY TurnsAreNumbers
<1>1. /\ turns' = [t \in Turn |-> IF turns[t].state = "unposted" THEN turns[t] ELSE Gone]
      /\ turns \in [Turn -> TurnRecord]
      /\ loop' = Free /\ restarted' = TRUE
      /\ UNCHANGED <<session, memory, overlapped>>
  BY DEF Crash, ChatTypeOK
<1>2. Gone \in TurnRecord /\ Gone.state = "gone"
  <2>1. Unposted \in TurnRecord
    BY <1>0 DEF Unposted, TurnRecord, TurnState, TellingRecord, Unwritten
  <2>. QED  BY <2>1 DEF Gone, TurnRecord, TurnState
<1>3. /\ turns' \in [Turn -> TurnRecord]
      /\ \A t \in Turn : turns'[t].state = IF turns[t].state = "unposted" THEN "unposted" ELSE "gone"
  <2>. HIDE DEF TurnRecord
  <2>. QED  BY <1>1, <1>2
<1>4. loop' \in LoopRecord /\ loop'.at = "free"
  BY <1>0, <1>1 DEF LoopRecord, Free
<1>5. ASSUME NEW p \in Panel
      PROVE  panels'[p] \in PanelRecord /\ panels'[p].owed \in {panels[p].owed, 0}
  <2>1. panels[p] \in PanelRecord
    BY DEF ChatTypeOK
  <2>2. Closed \in PanelRecord /\ Closed.owed = 0
    BY <1>0 DEF Closed, PanelRecord
  <2>3. /\ [panels[p] EXCEPT !.mode = "stuck"] \in PanelRecord
        /\ [panels[p] EXCEPT !.mode = "stuck"].owed = panels[p].owed
    BY <2>1 DEF PanelRecord
  <2>4. Detached(panels[p]) \in PanelRecord /\ Detached(panels[p]).owed = panels[p].owed
    BY DetachedPanel
  <2>5. panels'[p] \in {Closed, [panels[p] EXCEPT !.mode = "stuck"], Detached(panels[p]), panels[p]}
    BY DEF Crash
  <2>. QED  BY <2>1, <2>2, <2>3, <2>4, <2>5
<1>6. panels' \in [Panel -> PanelRecord]
  <2>. HIDE DEF PanelRecord
  <2>1. panels' = [p \in Panel |-> panels'[p]]
    BY DEF Crash
  <2>. QED  BY <1>5, <2>1
<1>7. Running' = {}
  BY <1>3 DEF Running, Turn, Live
<1>8. Started' = {t \in Turn : turns[t].state # "unposted"}
  BY <1>3 DEF Started, Turn
<1>9. ChatTypeOK'
  BY <1>1, <1>3, <1>4, <1>6 DEF ChatTypeOK, Turn, TurnRecord, PanelRecord, SessionRecord,
     LoopRecord
<1>10. TurnsTakeTheirTurn'
  <2>1. \A t, u \in Turn : u < t /\ turns'[t].state # "unposted" => u \in Started'
    BY <1>3, <1>8 DEF TurnsTakeTheirTurn, Started
  <2>. QED  BY <1>3, <1>4, <2>1 DEF TurnsTakeTheirTurn, Turn
<1>11. MarkIsHonest' /\ NoneIsGone' /\ TurnsRemember'
  <2>1. Answered' = Answered
    BY <1>1 DEF Answered
  <2>2. Answered' \subseteq Started'
    BY <1>8, <2>1 DEF TurnsRemember, Started
  <2>. QED  BY <1>1, <1>7, <2>2 DEF MarkIsHonest, NoneIsGone, TurnsRemember
<1>12. PanelsOwe'
  <2> SUFFICES ASSUME NEW p \in Panel, NEW t \in 1..panels'[p].owed  PROVE t \in Started'
    BY <1>1 DEF PanelsOwe
  <2>1. t \in 1..panels[p].owed
    BY <1>5
  <2>2. t \in Started
    BY <2>1 DEF PanelsOwe
  <2>. QED  BY <1>8, <2>2 DEF Started
<1>. QED  BY <1>9, <1>10, <1>11, <1>12

LEMMA ChatNextHolds == ChatInv /\ [Next]_vars => ChatInv'
<1> SUFFICES ASSUME ChatInv, [Next]_vars  PROVE ChatInv'
  OBVIOUS
<1>1. CASE Server
  BY <1>1, PostMessageHolds, StartTurnHolds, BeginHolds, SpeakHolds, StoreReplyHolds,
     KeepTokenHolds, FailHolds, TearDownHolds DEF Server
<1>2. CASE Feed
  BY <1>2, DrawHolds, ReceiveHolds, WaitHolds DEF Feed
<1>3. CASE Reader
  BY <1>3, LoadHolds, SendHolds, DropHolds DEF Reader
<1>4. CASE Crash
  BY <1>4, CrashHolds
<1>5. CASE UNCHANGED vars
  <2>1. /\ UNCHANGED <<session, turns, loop, memory, overlapped, restarted>>
        /\ panels' \in [Panel -> PanelRecord] /\ PanelsKeepTheirPages
    BY <1>5 DEF vars, ChatInv, ChatTypeOK, PanelsKeepTheirPages
  <2>. QED  BY <2>1, BrowserKeepsItsPage
<1>. QED  BY <1>1, <1>2, <1>3, <1>4, <1>5 DEF Next

LEMMA ChatInvHolds == Spec => []ChatInv
BY ChatInitHolds, ChatNextHolds, PTL DEF Spec

(* The session, its turns, the handler between two store calls, the panels  *)
(* and what the CLI remembers are the records of core/agent/store.py,       *)
(* core/agent/turns.py and chat-panel.js, whatever blocks a reply is of.    *)
THEOREM ChatTypeCorrect == Spec => []ChatTypeOK
<1>1. ChatInv => ChatTypeOK
  BY DEF ChatInv
<1>. QED  BY <1>1, ChatInvHolds, PTL

(* The session is marked with a turn that runs, and while one turn runs at a *)
(* time from its start to its end (TurnManager.start, the finally of _run),  *)
(* for any number of messages and panels and any replies.                   *)
THEOREM SessionMarkIsHonest == Spec => []MarkIsHonest
<1>1. ChatInv => MarkIsHonest
  BY DEF ChatInv
<1>. QED  BY <1>1, ChatInvHolds, PTL

(* While one turn runs at a time and the server stays up, the CLI session    *)
(* the next turn resumes remembers the transcript the page shows, in its     *)
(* order, but for the turns that named no session, and whichever turns       *)
(* failed (append_messages, `if resume_token`, set_resume_token).            *)
THEOREM CliRemembersTheTranscript == Spec => []MemoryIsTheTranscript
<1>1. ChatInv => MemoryIsTheTranscript
  BY DEF ChatInv, TurnsRemember, MemoryIsTheTranscript, NextToken
<1>. QED  BY <1>1, ChatInvHolds, PTL

(* A panel at rest shows every answer to a message that was sent before its *)
(* page was read, stored or streamed, wherever between the two reads of the *)
(* page the turn ended (chat_router._read_panel_context, history_view).      *)
THEOREM NoAnswerIsMissed == Spec => []NothingIsMissed
<1>1. ChatInv => NothingIsMissed
  <2> SUFFICES ASSUME ChatInv, NEW p \in Panel, panels[p].mode = "idle", ~overlapped, ~restarted,
                      NEW t \in Answered, t <= panels[p].owed
               PROVE  t \in panels[p].drawn \cup panels[p].streamed
    BY DEF NothingIsMissed
  <2>1. session.messages \in Seq(Turn) /\ panels[p] \in PanelRecord
    BY DEF ChatInv, ChatTypeOK, SessionRecord
  <2>2. t \in Turn
    BY <2>1 DEF Answered, Members
  <2>3. panels[p].owed \in 0..MaxTurns
    BY <2>1 DEF PanelRecord
  <2>4. t \in 1..panels[p].owed
    BY <2>2, <2>3, TurnsAreNumbers
  <2>. QED  BY <2>4 DEF ChatInv, PanelsOwe, Silent
<1>. QED  BY <1>1, ChatInvHolds, PTL

-----------------------------------------------------------------------------
(***************************************************************************)
(* The stages of a saved version.                                          *)
(***************************************************************************)

\* Columns laid over others are theirs where they are, and the others' elsewhere.
LEMMA OverIs ==
  \A upper, lower :
    /\ \A c : c \in DOMAIN Over(upper, lower) <=> c \in DOMAIN upper \/ c \in DOMAIN lower
    /\ \A c \in DOMAIN upper : Over(upper, lower)[c] = upper[c]
    /\ \A c \in DOMAIN lower : c \notin DOMAIN upper => Over(upper, lower)[c] = lower[c]
BY DEF Over

LEMMA CellIs ==
  \A type, of : Cell(type, of).type = type /\ Cell(type, of).of = of
BY DEF Cell

\* A table arrives with its schema's columns and the others, each of itself.
LEMMA ArrivingIs ==
  \A n, schema, extras :
    /\ \A c : c \in DOMAIN Arriving(n, schema, extras) <=> c \in DOMAIN schema \/ c \in DOMAIN extras
    /\ \A c \in DOMAIN schema : Arriving(n, schema, extras)[c].type = schema[c]
    /\ \A c \in DOMAIN extras :
         c \notin DOMAIN schema => Arriving(n, schema, extras)[c].type = extras[c]
    /\ \A c \in DOMAIN Arriving(n, schema, extras) :
         Arriving(n, schema, extras)[c].of = {<<n, c>>}
BY DEF Arriving, Over, Cell

LEMMA NothingIsNothing == \A c : c \notin DOMAIN Nothing
BY DEF Nothing

\* A promised schema is the anchor's, rewritten, and what is added.
LEMMA ExtendIs ==
  \A schema, rewrites, adds :
    /\ \A c : c \in DOMAIN Extend(schema, rewrites, adds) <=> c \in DOMAIN schema \/ c \in DOMAIN adds
    /\ \A c \in DOMAIN adds : Extend(schema, rewrites, adds)[c] = adds[c]
    /\ \A c \in DOMAIN schema : c \notin DOMAIN adds /\ c \in DOMAIN rewrites =>
         Extend(schema, rewrites, adds)[c] = rewrites[c]
    /\ \A c \in DOMAIN schema : c \notin DOMAIN adds /\ c \notin DOMAIN rewrites =>
         Extend(schema, rewrites, adds)[c] = schema[c]
<1> TAKE schema, rewrites, adds
<1> DEFINE kept == Restrict(rewrites, DOMAIN rewrites \cap DOMAIN schema)
           flow == Over(kept, schema)
<1>1. /\ \A c : c \in DOMAIN kept <=> c \in DOMAIN rewrites /\ c \in DOMAIN schema
      /\ \A c \in DOMAIN kept : kept[c] = rewrites[c]
  BY DEF Restrict
<1>2. Extend(schema, rewrites, adds) = Over(adds, flow)
  BY DEF Extend
<1> HIDE DEF kept
<1>3. /\ \A c : c \in DOMAIN flow <=> c \in DOMAIN kept \/ c \in DOMAIN schema
      /\ \A c \in DOMAIN kept : flow[c] = kept[c]
      /\ \A c \in DOMAIN schema : c \notin DOMAIN kept => flow[c] = schema[c]
  BY OverIs
<1> HIDE DEF flow
<1>4. /\ \A c : c \in DOMAIN Over(adds, flow) <=> c \in DOMAIN adds \/ c \in DOMAIN flow
      /\ \A c \in DOMAIN adds : Over(adds, flow)[c] = adds[c]
      /\ \A c \in DOMAIN flow : c \notin DOMAIN adds => Over(adds, flow)[c] = flow[c]
  BY OverIs
<1>. QED  BY <1>1, <1>2, <1>3, <1>4

LEMMA OneTable ==
  \A table, schema, origins :
    RunsAsPromised({table}, schema, origins) <=>
      \A c \in DOMAIN schema :
        c \in DOMAIN table /\ table[c].type = schema[c] /\ table[c].of = origins[c]
BY DEF RunsAsPromised, PassesOutput

LEMMA NoTable == \A schema, origins : ~RunsAsPromised({}, schema, origins)
BY DEF RunsAsPromised

\* An accepted row function runs as promised, but for an answer that overreaches.
LEMMA RowStagesDoFit == RowStagesFit
<1> SUFFICES ASSUME NEW st \in RowStages, AcceptsRowStage(st), NEW answer \in Answers(st)
             PROVE  LET promised == Extend(st.schema, st.rewrites, st.adds) IN
                    RunsAsPromised(
                      RunRowStage(Arriving(1, st.schema, Nothing), answer), promised,
                      [c \in DOMAIN promised |->
                         IF c \in DOMAIN Written(st) THEN {} ELSE {<<1, c>>}])
                    <=> ~Overreaches(st, answer)
  BY DEF RowStagesFit
<1> DEFINE schema   == st.schema
           rewrites == st.rewrites
           adds     == st.adds
           written  == Written(st)
           promised == Extend(schema, rewrites, adds)
           given    == [c \in DOMAIN answer |-> Cell(answer[c], {})]
           input    == Arriving(1, schema, Nothing)
           origins  == [c \in DOMAIN promised |-> IF c \in DOMAIN written THEN {} ELSE {<<1, c>>}]
           table    == Over(given, input)
<1>1. /\ \A c \in DOMAIN rewrites : c \in DOMAIN schema
      /\ \A c \in DOMAIN schema : c \notin DOMAIN adds
  BY DEF AcceptsRowStage, Satisfies
<1>2. \A c \in DOMAIN written : c \in DOMAIN answer /\ answer[c] = written[c]
  BY DEF Answers, Satisfies
<1>3. Overreaches(st, answer) <=>
        \E c \in DOMAIN answer : c \notin DOMAIN written /\ c \in DOMAIN schema
  BY DEF Overreaches
<1>4. RunRowStage(input, answer) = {table}
  BY DEF RunRowStage
<1>5. written = Over(adds, rewrites)
  BY DEF Written
<1> HIDE DEF schema, rewrites, adds, written
<1>6. \A c \in DOMAIN promised : origins[c] = IF c \in DOMAIN written THEN {} ELSE {<<1, c>>}
  OBVIOUS
<1>7. /\ \A c : c \in DOMAIN promised <=> c \in DOMAIN schema \/ c \in DOMAIN adds
      /\ \A c \in DOMAIN adds : promised[c] = adds[c]
      /\ \A c \in DOMAIN schema : c \in DOMAIN rewrites => promised[c] = rewrites[c]
      /\ \A c \in DOMAIN schema : c \notin DOMAIN rewrites => promised[c] = schema[c]
  BY <1>1, ExtendIs
<1>8. /\ \A c : c \in DOMAIN written <=> c \in DOMAIN adds \/ c \in DOMAIN rewrites
      /\ \A c \in DOMAIN adds : written[c] = adds[c]
      /\ \A c \in DOMAIN rewrites : c \notin DOMAIN adds => written[c] = rewrites[c]
  BY <1>5, OverIs
<1>9. /\ \A c : c \in DOMAIN input <=> c \in DOMAIN schema
      /\ \A c \in DOMAIN schema : input[c].type = schema[c] /\ input[c].of = {<<1, c>>}
  BY ArrivingIs, NothingIsNothing
<1>10. /\ \A c : c \in DOMAIN given <=> c \in DOMAIN answer
       /\ \A c \in DOMAIN answer : given[c].type = answer[c] /\ given[c].of = {}
  BY DEF Cell
<1> HIDE DEF promised, origins, input, given
<1>11. /\ \A c : c \in DOMAIN table <=> c \in DOMAIN given \/ c \in DOMAIN input
       /\ \A c \in DOMAIN given : table[c] = given[c]
       /\ \A c \in DOMAIN input : c \notin DOMAIN given => table[c] = input[c]
  BY OverIs
<1> HIDE DEF table
<1>12. RunsAsPromised({table}, promised, origins) <=>
        \A c \in DOMAIN promised :
          c \in DOMAIN table /\ table[c].type = promised[c] /\ table[c].of = origins[c]
  BY OneTable
<1>13. ASSUME ~Overreaches(st, answer), NEW c \in DOMAIN promised
       PROVE  c \in DOMAIN table /\ table[c].type = promised[c] /\ table[c].of = origins[c]
  <2>1. CASE c \in DOMAIN written
    <3>1. c \in DOMAIN answer /\ answer[c] = written[c] /\ origins[c] = {}
      BY <1>2, <1>6, <2>1
    <3>2. promised[c] = written[c]
      BY <1>1, <1>7, <1>8, <2>1
    <3>. QED  BY <1>10, <1>11, <3>1, <3>2
  <2>2. CASE c \notin DOMAIN written
    <3>1. c \in DOMAIN schema /\ promised[c] = schema[c] /\ origins[c] = {<<1, c>>}
      BY <1>1, <1>6, <1>7, <1>8, <2>2
    <3>2. c \notin DOMAIN answer
      BY <1>3, <1>13, <2>2, <3>1
    <3>. QED  BY <1>9, <1>10, <1>11, <3>1, <3>2
  <2>. QED  BY <2>1, <2>2
<1>14. ASSUME Overreaches(st, answer)
       PROVE  \E c \in DOMAIN promised : table[c].of # origins[c]
  <2>1. PICK c \in DOMAIN answer : c \notin DOMAIN written /\ c \in DOMAIN schema
    BY <1>3, <1>14
  <2>2. table[c].of = {} /\ c \in DOMAIN promised /\ origins[c] = {<<1, c>>}
    BY <1>6, <1>7, <1>10, <1>11, <2>1
  <2>. QED  BY <2>2
<1>15. RunsAsPromised({table}, promised, origins) <=> ~Overreaches(st, answer)
  BY <1>12, <1>13, <1>14
<1>. QED  BY <1>4, <1>15 DEF promised, origins, input, schema, rewrites, adds, written


\* What crosses into a merge is what lands, each of its source, and the key.
LEMMA CrossingIs ==
  ASSUME NEW st, IsInjective(st.lands), NEW reference,
         \A source \in DOMAIN st.lands : st.lands[source] = st.right => source = st.right
  PROVE  /\ \A c : c \in DOMAIN Crossing(st, reference) <=> c \in Range(st.lands) \/ c = st.right
         /\ \A source \in DOMAIN st.lands :
              Crossing(st, reference)[st.lands[source]] = reference[source]
         /\ Crossing(st, reference)[st.right] = reference[st.right]
<1> DEFINE lands == st.lands
           right == st.right
           over  == [c \in Range(lands) |->
                       reference[CHOOSE source \in DOMAIN lands : lands[source] = c]]
           key   == Single(right, reference[right])
<1>1. Crossing(st, reference) = Over(over, key)
  BY DEF Crossing
<1>2. /\ \A a, b \in DOMAIN lands : lands[a] = lands[b] => a = b
      /\ \A source \in DOMAIN lands : lands[source] = right => source = right
  BY DEF IsInjective
<1> SUFFICES /\ \A c : c \in DOMAIN Over(over, key) <=> c \in Range(lands) \/ c = right
             /\ \A source \in DOMAIN lands : Over(over, key)[lands[source]] = reference[source]
             /\ Over(over, key)[right] = reference[right]
  BY <1>1
<1> HIDE DEF lands, right
<1>3. \A c : c \in Range(lands) <=> \E source \in DOMAIN lands : lands[source] = c
  BY DEF Range
<1>4. /\ \A c : c \in DOMAIN over <=> c \in Range(lands)
      /\ \A source \in DOMAIN lands : over[lands[source]] = reference[source]
  <2>1. \A source \in DOMAIN lands :
          (CHOOSE s \in DOMAIN lands : lands[s] = lands[source]) = source
    BY <1>2
  <2>. QED  BY <1>3, <2>1
<1>5. /\ \A c : c \in DOMAIN key <=> c = right
      /\ key[right] = reference[right]
  BY DEF Single
<1> HIDE DEF over, key
<1>6. /\ \A c : c \in DOMAIN Over(over, key) <=> c \in DOMAIN over \/ c \in DOMAIN key
      /\ \A c \in DOMAIN over : Over(over, key)[c] = over[c]
      /\ \A c \in DOMAIN key : c \notin DOMAIN over => Over(over, key)[c] = key[c]
  BY OverIs
<1>. QED  BY <1>2, <1>3, <1>4, <1>5, <1>6

\* An accepted join runs as promised, but for the cases the validators let through.
LEMMA JoinsDoFit == JoinsFit
<1> SUFFICES ASSUME NEW st \in JoinStages, KeysResolve(st), LandsAside(st),
                    NEW adds \in SchemasOver(Range(st.lands), Scalar), AddsWhatLands(st, adds),
                    NEW extras \in Extras(st.subject)
             PROVE  RunsAsPromised(
                      RunJoin(st, Arriving(1, st.subject, extras),
                              Arriving(2, st.reference, Nothing)),
                      Extend(st.subject, Nothing, adds), JoinOrigins(st, adds))
                    <=> ~JoinLetThrough(st, extras)
  BY DEF JoinsFit
<1> DEFINE subject   == st.subject
           reference == st.reference
           left      == st.left
           right     == st.right
           lands     == st.lands
           first     == Arriving(1, subject, extras)
           second    == Arriving(2, reference, Nothing)
           crossing  == Crossing(st, second)
           matched   == first[left].of \cup crossing[right].of
           clashes   == (DOMAIN crossing \cap DOMAIN first) \
                          (IF left = right THEN {left} ELSE {})
           renamed   == {Suffixed[c] : c \in clashes}
           goes      == /\ first[left].type = crossing[right].type
                        /\ renamed \cap (DOMAIN first \cup DOMAIN crossing) = {}
                        /\ Range(lands) \cap DOMAIN first = {}
           landed    == [c \in Range(lands) |-> Cell(crossing[c].type, crossing[c].of \cup matched)]
           table     == Over(landed, first)
           promised  == Extend(subject, Nothing, adds)
           origins   == JoinOrigins(st, adds)
<1>1. left \in DOMAIN subject /\ right \in DOMAIN reference
  BY DEF KeysResolve
<1>2. /\ IsInjective(lands)
      /\ \A a, b \in DOMAIN lands : lands[a] = lands[b] => a = b
      /\ \A source \in DOMAIN lands :
           /\ source \in DOMAIN reference /\ lands[source] \notin DOMAIN subject
           /\ lands[source] = right => source = right
  BY DEF LandsAside, IsInjective, Range
<1>3. /\ \A c : c \in DOMAIN adds <=> c \in Range(lands)
      /\ \A source \in DOMAIN lands : adds[lands[source]] = reference[source]
  BY DEF AddsWhatLands
<1>4. \A c \in DOMAIN extras : c \notin DOMAIN subject
  BY DEF Extras
<1>5. JoinLetThrough(st, extras) <=>
        \/ subject[left] # reference[right]
        \/ \E c \in Range(lands) : c \in DOMAIN extras
        \/ /\ right # left /\ (right \in DOMAIN subject \/ right \in DOMAIN extras)
           /\ \/ Suffixed[right] \in DOMAIN subject \/ Suffixed[right] \in DOMAIN extras
              \/ Suffixed[right] \in Range(lands)
  BY DEF JoinLetThrough
<1>6. /\ \A c : c \in DOMAIN crossing <=> c \in Range(lands) \/ c = right
      /\ \A source \in DOMAIN lands : crossing[lands[source]] = second[source]
      /\ crossing[right] = second[right]
  <2> HIDE DEF second
  <2>. QED  BY <1>2, CrossingIs
<1>7. RunJoin(st, first, second) = IF goes THEN {table} ELSE {}
  BY DEF RunJoin
<1>8. /\ \A c : c \in DOMAIN origins <=> c \in DOMAIN subject \/ c \in DOMAIN adds
      /\ \A c \in DOMAIN subject : origins[c] = {<<1, c>>}
      /\ \A c \in DOMAIN adds : c \notin DOMAIN subject =>
           origins[c] = {<<1, left>>, <<2, right>>} \cup
                          {<<2, source>> : source \in {s \in DOMAIN lands : lands[s] = c}}
  BY DEF JoinOrigins
<1>9. \A c : c \in Range(lands) <=> \E source \in DOMAIN lands : lands[source] = c
  BY DEF Range
<1> HIDE DEF subject, reference, left, right, lands, crossing, origins
<1>10. /\ \A c : c \in DOMAIN promised <=> c \in DOMAIN subject \/ c \in DOMAIN adds
       /\ \A c \in DOMAIN adds : promised[c] = adds[c]
       /\ \A c \in DOMAIN subject : c \notin DOMAIN adds => promised[c] = subject[c]
  BY ExtendIs, NothingIsNothing
<1>11. /\ \A c : c \in DOMAIN first <=> c \in DOMAIN subject \/ c \in DOMAIN extras
       /\ \A c \in DOMAIN subject : first[c].type = subject[c]
       /\ \A c \in DOMAIN first : first[c].of = {<<1, c>>}
  BY ArrivingIs
<1>12. \A c \in DOMAIN reference : second[c].type = reference[c] /\ second[c].of = {<<2, c>>}
  BY ArrivingIs, NothingIsNothing
<1> HIDE DEF promised, first, second
<1>13. goes <=> ~JoinLetThrough(st, extras)
  <2>1. first[left].type = crossing[right].type <=> subject[left] = reference[right]
    BY <1>1, <1>6, <1>11, <1>12
  <2>2. Range(lands) \cap DOMAIN first = {} <=> ~ \E c \in Range(lands) : c \in DOMAIN extras
    BY <1>2, <1>9, <1>11
  <2>3. ASSUME \A c \in Range(lands) : c \notin DOMAIN first
        PROVE  renamed \cap (DOMAIN first \cup DOMAIN crossing) = {} <=>
                 ~ (/\ right # left /\ right \in DOMAIN first
                    /\ Suffixed[right] \in DOMAIN first \/ Suffixed[right] \in Range(lands))
    <3>1. CASE right # left /\ right \in DOMAIN first
      <4>1. clashes = {right}
        BY <1>6, <2>3, <3>1
      <4> HIDE DEF clashes
      <4>2. renamed = {Suffixed[right]}
        BY <4>1
      <4> HIDE DEF renamed
      <4>3. renamed \cap (DOMAIN first \cup DOMAIN crossing) = {} <=>
              ~ (\/ Suffixed[right] \in DOMAIN first
                 \/ Suffixed[right] \in Range(lands) \/ Suffixed[right] = right)
        BY <1>6, <4>2
      <4>. QED  BY <3>1, <4>3
    <3>2. CASE ~ (right # left /\ right \in DOMAIN first)
      <4>1. clashes = {}
        BY <1>1, <1>6, <1>11, <2>3, <3>2
      <4> HIDE DEF clashes
      <4>. QED  BY <3>2, <4>1
    <3>. QED  BY <3>1, <3>2
  <2> HIDE DEF renamed
  <2>4. Range(lands) \cap DOMAIN first = {} <=> \A c \in Range(lands) : c \notin DOMAIN first
    OBVIOUS
  <2>. QED  BY <1>5, <1>11, <2>1, <2>2, <2>3, <2>4
<1>14. ASSUME goes
       PROVE  RunsAsPromised({table}, promised, origins)
  <2>1. \A c \in Range(lands) : c \notin DOMAIN first
    BY <1>14
  <2>2. matched = {<<1, left>>, <<2, right>>}
    BY <1>1, <1>6, <1>11, <1>12
  <2> HIDE DEF matched
  <2>3. /\ \A c : c \in DOMAIN landed <=> c \in Range(lands)
        /\ \A c \in Range(lands) :
             /\ landed[c].type = crossing[c].type
             /\ landed[c].of = crossing[c].of \cup {<<1, left>>, <<2, right>>}
    BY <2>2 DEF Cell
  <2> HIDE DEF landed, goes
  <2>4. /\ \A c : c \in DOMAIN table <=> c \in DOMAIN landed \/ c \in DOMAIN first
        /\ \A c \in DOMAIN landed : table[c] = landed[c]
        /\ \A c \in DOMAIN first : c \notin DOMAIN landed => table[c] = first[c]
    BY OverIs
  <2> HIDE DEF table
  <2>5. ASSUME NEW c \in DOMAIN promised
        PROVE  c \in DOMAIN table /\ table[c].type = promised[c] /\ table[c].of = origins[c]
    <3>1. CASE c \in DOMAIN subject
      <4>1. c \in DOMAIN first /\ c \notin DOMAIN landed /\ c \notin DOMAIN adds
        BY <1>3, <1>11, <2>1, <2>3, <3>1
      <4>. QED  BY <1>8, <1>10, <1>11, <2>4, <3>1, <4>1
    <3>2. CASE c \notin DOMAIN subject
      <4>1. c \in DOMAIN adds /\ c \in Range(lands)
        BY <1>3, <1>10, <3>2
      <4>2. PICK source \in DOMAIN lands : lands[source] = c
        BY <1>9, <4>1
      <4>3. crossing[c] = second[source] /\ source \in DOMAIN reference /\ adds[c] = reference[source]
        BY <1>2, <1>3, <1>6, <4>2
      <4>4. table[c].type = promised[c]
        BY <1>10, <1>12, <2>3, <2>4, <4>1, <4>3
      <4>5. table[c].of = {<<2, source>>} \cup {<<1, left>>, <<2, right>>}
        BY <1>12, <2>3, <2>4, <4>1, <4>3
      <4>6. {s \in DOMAIN lands : lands[s] = c} = {source}
        BY <1>2, <4>2
      <4>7. origins[c] = {<<1, left>>, <<2, right>>} \cup {<<2, s>> : s \in {source}}
        BY <1>8, <3>2, <4>1, <4>6
      <4>8. table[c].of = origins[c]
        BY <4>5, <4>7
      <4>. QED  BY <2>3, <2>4, <4>1, <4>4, <4>8
    <3>. QED  BY <3>1, <3>2
  <2>. QED  BY <2>5, OneTable
<1> HIDE DEF goes, table
<1>15. RunsAsPromised(RunJoin(st, first, second), promised, origins) <=> goes
  BY <1>7, <1>14, NoTable
<1>. QED  BY <1>13, <1>15 DEF first, second, promised, origins, subject, reference

\* Columns added to nothing rewritten are laid over the anchor's.
LEMMA ExtendByNothing ==
  \A schema, adds :
    /\ \A c : c \in DOMAIN Extend(schema, Nothing, adds) <=> c \in DOMAIN schema \/ c \in DOMAIN adds
    /\ \A c \in DOMAIN adds : Extend(schema, Nothing, adds)[c] = adds[c]
    /\ \A c \in DOMAIN schema :
         c \notin DOMAIN adds => Extend(schema, Nothing, adds)[c] = schema[c]
BY ExtendIs, NothingIsNothing

\* An accepted union runs as promised just when its inputs carry the same columns.
LEMMA UnionsDoFit == UnionsFit
<1> SUFFICES ASSUME NEW st \in UnionStages, AcceptsUnion(st),
                    NEW firsts \in Extras(st.first), NEW seconds \in Extras(st.first)
             PROVE  RunsAsPromised(
                      RunUnion(Arriving(1, st.first, firsts), Arriving(2, st.second, seconds)),
                      Extend(st.first, Nothing, st.writes),
                      [c \in DOMAIN st.first |-> {<<1, c>>, <<2, c>>}])
                    <=> firsts = seconds
  BY DEF UnionsFit
<1> DEFINE schema   == st.first
           first    == Arriving(1, schema, firsts)
           second   == Arriving(2, schema, seconds)
           promised == Extend(schema, Nothing, Nothing)
           origins  == [c \in DOMAIN schema |-> {<<1, c>>, <<2, c>>}]
           goes     == DOMAIN first = DOMAIN second
                         /\ \A c \in DOMAIN first : first[c].type = second[c].type
           table    == [c \in DOMAIN first |-> Cell(first[c].type, first[c].of \cup second[c].of)]
<1>1. st.second = schema /\ st.writes = Nothing
  BY DEF AcceptsUnion
<1>2. /\ \A c \in DOMAIN firsts : c \notin DOMAIN schema
      /\ \A c \in DOMAIN seconds : c \notin DOMAIN schema
  BY DEF Extras
<1>3. /\ firsts = [c \in DOMAIN firsts |-> firsts[c]]
      /\ seconds = [c \in DOMAIN seconds |-> seconds[c]]
  BY DEF Extras, Schemas, SchemasOver
<1>4. RunUnion(first, second) = IF goes THEN {table} ELSE {}
  BY DEF RunUnion
<1> HIDE DEF schema
<1>5. /\ \A c : c \in DOMAIN first <=> c \in DOMAIN schema \/ c \in DOMAIN firsts
      /\ \A c \in DOMAIN schema : first[c].type = schema[c]
      /\ \A c \in DOMAIN firsts : first[c].type = firsts[c]
      /\ \A c \in DOMAIN first : first[c].of = {<<1, c>>}
  BY <1>2, ArrivingIs
<1>6. /\ \A c : c \in DOMAIN second <=> c \in DOMAIN schema \/ c \in DOMAIN seconds
      /\ \A c \in DOMAIN schema : second[c].type = schema[c]
      /\ \A c \in DOMAIN seconds : second[c].type = seconds[c]
      /\ \A c \in DOMAIN second : second[c].of = {<<2, c>>}
  BY <1>2, ArrivingIs
<1>7. /\ \A c : c \in DOMAIN promised <=> c \in DOMAIN schema
      /\ \A c \in DOMAIN schema : promised[c] = schema[c]
  BY ExtendByNothing, NothingIsNothing
<1>8. \A c \in DOMAIN schema : origins[c] = {<<1, c>>, <<2, c>>}
  OBVIOUS
<1> HIDE DEF first, second, promised, origins
<1>9. goes <=> firsts = seconds
  <2>1. ASSUME goes
        PROVE  firsts = seconds
    <3>1. \A c : c \in DOMAIN first <=> c \in DOMAIN second
      BY <2>1
    <3>2. \A c : c \in DOMAIN firsts <=> c \in DOMAIN seconds
      BY <1>2, <1>5, <1>6, <3>1
    <3>3. \A c \in DOMAIN firsts : firsts[c] = seconds[c]
      BY <1>5, <1>6, <2>1, <3>2
    <3>4. DOMAIN firsts = DOMAIN seconds
      BY <3>2
    <3>. QED  BY <1>3, <3>3, <3>4
  <2>2. ASSUME firsts = seconds
        PROVE  goes
    <3>1. DOMAIN first = DOMAIN second
      BY <1>5, <1>6, <2>2
    <3>2. \A c \in DOMAIN first : first[c].type = second[c].type
      BY <1>5, <1>6, <2>2
    <3>. QED  BY <3>1, <3>2
  <2>. QED  BY <2>1, <2>2
<1>10. ASSUME goes
       PROVE  RunsAsPromised({table}, promised, origins)
  <2>1. /\ \A c : c \in DOMAIN table <=> c \in DOMAIN first
        /\ \A c \in DOMAIN first :
             table[c].type = first[c].type /\ table[c].of = first[c].of \cup second[c].of
    BY DEF Cell
  <2> HIDE DEF table, goes
  <2>2. ASSUME NEW c \in DOMAIN promised
        PROVE  c \in DOMAIN table /\ table[c].type = promised[c] /\ table[c].of = origins[c]
    <3>1. first[c].of \cup second[c].of = {<<1, c>>, <<2, c>>}
      BY <1>5, <1>6, <1>7
    <3>. QED  BY <1>5, <1>7, <1>8, <2>1, <3>1
  <2>. QED  BY <2>2, OneTable
<1> HIDE DEF goes, table
<1>11. RunsAsPromised(RunUnion(first, second), promised, origins) <=> goes
  BY <1>4, <1>10, NoTable
<1>. QED  BY <1>1, <1>9, <1>11 DEF first, second, promised, origins, schema

\* An accepted explode always runs as promised.
LEMMA ExplodesDoFit == ExplodesFit
<1> SUFFICES ASSUME NEW st \in ExplodeStages, AcceptsExplode(st), NEW extras \in Extras(st.schema)
             PROVE  RunsAsPromised(
                      RunExplode(st.column, Arriving(1, st.schema, extras)),
                      Extend(st.schema, st.rewrites, st.adds),
                      [c \in DOMAIN st.schema |-> {<<1, c>>}])
  BY DEF ExplodesFit
<1> DEFINE schema   == st.schema
           column   == st.column
           rewrites == Single(column, ElementOf[schema[column]])
           input    == Arriving(1, schema, extras)
           promised == Extend(schema, rewrites, Nothing)
           origins  == [c \in DOMAIN schema |-> {<<1, c>>}]
           table    == [input EXCEPT ![column] = Cell(ElementOf[@.type], @.of)]
<1>1. /\ st.adds = Nothing /\ st.rewrites = rewrites
      /\ column \in DOMAIN schema
  BY DEF AcceptsExplode
<1>2. RunExplode(column, input) = {table}
  BY DEF RunExplode
<1> HIDE DEF schema, column
<1>3. /\ \A c : c \in DOMAIN rewrites <=> c = column
      /\ rewrites[column] = ElementOf[schema[column]]
  BY DEF Single
<1> HIDE DEF rewrites
<1>4. /\ \A c : c \in DOMAIN promised <=> c \in DOMAIN schema
      /\ promised[column] = ElementOf[schema[column]]
      /\ \A c \in DOMAIN schema : c # column => promised[c] = schema[c]
  BY <1>1, <1>3, ExtendIs, NothingIsNothing
<1>5. /\ \A c : c \in DOMAIN input <=> c \in DOMAIN schema \/ c \in DOMAIN extras
      /\ \A c \in DOMAIN schema : input[c].type = schema[c] /\ input[c].of = {<<1, c>>}
  BY ArrivingIs
<1>6. \A c \in DOMAIN schema : origins[c] = {<<1, c>>}
  OBVIOUS
<1> HIDE DEF promised, input, origins
<1>7. /\ \A c : c \in DOMAIN table <=> c \in DOMAIN input
      /\ \A c \in DOMAIN input : c # column => table[c] = input[c]
      /\ column \in DOMAIN input =>
           table[column].type = ElementOf[input[column].type] /\ table[column].of = input[column].of
  BY DEF Cell
<1> HIDE DEF table
<1>8. \A c \in DOMAIN promised :
        c \in DOMAIN table /\ table[c].type = promised[c] /\ table[c].of = origins[c]
  BY <1>1, <1>4, <1>5, <1>6, <1>7
<1>9. RunsAsPromised({table}, promised, origins)
  BY <1>8, OneTable
<1>. QED  BY <1>1, <1>2, <1>9 DEF promised, input, origins, schema, column, rewrites

\* An accepted sort runs as promised, unless a key is a list or its rank's name taken.
LEMMA SortsDoFit == SortsFit
<1> SUFFICES ASSUME NEW st \in SortStages, AcceptsSort(st), NEW extras \in Extras(st.schema)
             PROVE  LET promised == Extend(st.schema, Nothing, st.adds) IN
                    RunsAsPromised(
                      RunSort(st, Arriving(1, st.schema, extras)), promised,
                      [c \in DOMAIN promised |-> IF c = st.rank THEN {} ELSE {<<1, c>>}])
                    <=> ~SortLetThrough(st, extras)
  BY DEF SortsFit
<1> DEFINE schema   == st.schema
           keys     == st.keys
           rank     == st.rank
           adds     == st.adds
           input    == Arriving(1, schema, extras)
           promised == Extend(schema, Nothing, adds)
           origins  == [c \in DOMAIN promised |-> IF c = rank THEN {} ELSE {<<1, c>>}]
           goes     == (\A key \in keys : input[key].type \notin Listed) /\ rank \notin DOMAIN input
           ranked   == Over(Single(rank, Cell("int", {})), input)
           table    == IF rank = NoColumn THEN input ELSE ranked
<1>1. /\ \A key \in keys : key \in DOMAIN schema
      /\ rank \notin DOMAIN schema
      /\ adds = IF rank = NoColumn THEN Nothing ELSE Single(rank, "int")
  BY DEF AcceptsSort
<1>2. RunSort(st, input) = IF goes THEN {table} ELSE {}
  BY DEF RunSort
<1>3. SortLetThrough(st, extras) <=>
        rank \in DOMAIN extras \/ \E key \in keys : schema[key] \in Listed
  BY DEF SortLetThrough
<1> HIDE DEF schema, keys, rank, adds
<1>4. /\ \A c : c \in DOMAIN adds <=> c = rank /\ rank # NoColumn
      /\ \A c \in DOMAIN adds : adds[c] = "int"
  BY <1>1, NothingIsNothing DEF Single
<1>5. /\ \A c : c \in DOMAIN promised <=> c \in DOMAIN schema \/ c \in DOMAIN adds
      /\ \A c \in DOMAIN adds : promised[c] = adds[c]
      /\ \A c \in DOMAIN schema : c \notin DOMAIN adds => promised[c] = schema[c]
  BY ExtendByNothing
<1>6. /\ \A c : c \in DOMAIN input <=> c \in DOMAIN schema \/ c \in DOMAIN extras
      /\ \A c \in DOMAIN schema : input[c].type = schema[c] /\ input[c].of = {<<1, c>>}
  BY ArrivingIs
<1>7. /\ \A c \in DOMAIN promised : c = rank => origins[c] = {}
      /\ \A c \in DOMAIN promised : c # rank => origins[c] = {<<1, c>>}
  OBVIOUS
<1> HIDE DEF promised, input, origins
<1>8. goes <=> ~SortLetThrough(st, extras)
  BY <1>1, <1>3, <1>6
<1>9. ASSUME goes
      PROVE  RunsAsPromised({table}, promised, origins)
  <2>1. /\ \A c \in DOMAIN schema : c \in DOMAIN table /\ table[c] = input[c]
        /\ rank # NoColumn =>
             rank \in DOMAIN table /\ table[rank].type = "int" /\ table[rank].of = {}
    <3> DEFINE number == Single(rank, Cell("int", {}))
    <3>1. /\ \A c : c \in DOMAIN number <=> c = rank
          /\ number[rank].type = "int" /\ number[rank].of = {}
      BY DEF Single, Cell
    <3> HIDE DEF number
    <3>2. /\ \A c : c \in DOMAIN Over(number, input) <=> c \in DOMAIN number \/ c \in DOMAIN input
          /\ \A c \in DOMAIN number : Over(number, input)[c] = number[c]
          /\ \A c \in DOMAIN input : c \notin DOMAIN number => Over(number, input)[c] = input[c]
      BY OverIs
    <3>3. ranked = Over(number, input)
      BY DEF number
    <3> HIDE DEF ranked
    <3>4. CASE rank = NoColumn
      BY <1>6, <3>4
    <3>5. CASE rank # NoColumn
      BY <1>1, <1>6, <3>1, <3>2, <3>3, <3>5
    <3>. QED  BY <3>4, <3>5
  <2> HIDE DEF table, goes
  <2>2. ASSUME NEW c \in DOMAIN promised
        PROVE  c \in DOMAIN table /\ table[c].type = promised[c] /\ table[c].of = origins[c]
    <3>1. CASE c \in DOMAIN adds
      <4>1. c = rank /\ rank # NoColumn /\ promised[c] = "int"
        BY <1>4, <1>5, <3>1
      <4>. QED  BY <1>7, <2>1, <4>1
    <3>2. CASE c \notin DOMAIN adds
      <4>1. c \in DOMAIN schema /\ c # rank /\ promised[c] = schema[c]
        BY <1>1, <1>5, <3>2
      <4>. QED  BY <1>6, <1>7, <2>1, <4>1
    <3>. QED  BY <3>1, <3>2
  <2>. QED  BY <2>2, OneTable
<1> HIDE DEF goes, table
<1>10. RunsAsPromised(RunSort(st, input), promised, origins) <=> goes
  BY <1>2, <1>9, NoTable
<1>. QED  BY <1>8, <1>10 DEF promised, input, origins, schema, rank, adds

\* An accepted dedupe runs as promised, unless a column it compares is a list.
LEMMA DedupesDoFit == DedupesFit
<1> SUFFICES ASSUME NEW st \in DedupeStages, AcceptsDedupe(st), NEW extras \in Extras(st.schema)
             PROVE  RunsAsPromised(
                      RunDedupe(st, Arriving(1, st.schema, extras)), st.schema,
                      [c \in DOMAIN st.schema |-> {<<1, c>>}])
                    <=> \A c \in st.keys \cup ({st.by} \ {NoColumn}) : st.schema[c] \notin Listed
  BY DEF DedupesFit
<1> DEFINE schema   == st.schema
           keys     == st.keys
           by       == st.by
           input    == Arriving(1, schema, extras)
           origins  == [c \in DOMAIN schema |-> {<<1, c>>}]
           compared == keys \cup ({by} \ {NoColumn})
           goes     == \A c \in compared : schema[c] \notin Listed
<1>1. /\ Ranks(st) <=> by # NoColumn
      /\ compared \subseteq DOMAIN schema
  BY DEF AcceptsDedupe
<1>2. RunDedupe(st, input) =
        {table \in {input} : /\ \A key \in keys : table[key].type \notin Listed
                             /\ Ranks(st) => table[by].type \notin Listed}
  BY DEF RunDedupe
<1> HIDE DEF schema, keys, by
<1>3. /\ \A c : c \in DOMAIN input <=> c \in DOMAIN schema \/ c \in DOMAIN extras
      /\ \A c \in DOMAIN schema : input[c].type = schema[c] /\ input[c].of = {<<1, c>>}
  BY ArrivingIs
<1>4. \A c \in DOMAIN schema : origins[c] = {<<1, c>>}
  OBVIOUS
<1> HIDE DEF input, origins
<1>5. RunDedupe(st, input) = IF goes THEN {input} ELSE {}
  <2>1. \A key \in keys : key \in DOMAIN schema
    BY <1>1
  <2>2. by # NoColumn => by \in DOMAIN schema
    BY <1>1
  <2>3. goes <=> /\ \A key \in keys : schema[key] \notin Listed
                 /\ by # NoColumn => schema[by] \notin Listed
    OBVIOUS
  <2> HIDE DEF goes
  <2>4. goes <=> /\ \A key \in keys : input[key].type \notin Listed
                 /\ Ranks(st) => input[by].type \notin Listed
    BY <1>1, <1>3, <2>1, <2>2, <2>3
  <2>. QED  BY <1>2, <2>4
<1> HIDE DEF goes
<1>6. RunsAsPromised({input}, schema, origins)
  <2>1. \A c \in DOMAIN schema :
          c \in DOMAIN input /\ input[c].type = schema[c] /\ input[c].of = origins[c]
    BY <1>3, <1>4
  <2>. QED  BY <2>1, OneTable
<1>7. RunsAsPromised(RunDedupe(st, input), schema, origins) <=> goes
  BY <1>5, <1>6, NoTable
<1>. QED  BY <1>7 DEF input, origins, goes, schema, keys, by

\* There are at most two operations, and the last of a name is the later of them.
LEMMA OperationsAre ==
  ASSUME NEW ops \in UNION {[1..n -> Aggregations] : n \in 0..2}
  PROVE  /\ DOMAIN ops \subseteq {1, 2}
         /\ \A m \in DOMAIN ops : ops[m] \in Aggregations
         /\ 2 \in DOMAIN ops => 1 \in DOMAIN ops
         /\ \A out \in Outs(ops) : \E m \in DOMAIN ops :
              LastOf(out, ops) = ops[m] /\ ops[m].out = out
<1>1. PICK n \in 0..2 : ops \in [1..n -> Aggregations]
  OBVIOUS
<1>2. n = 0 \/ n = 1 \/ n = 2
  OBVIOUS
<1>3. /\ DOMAIN ops \subseteq {1, 2}
      /\ 2 \in DOMAIN ops => 1 \in DOMAIN ops
  BY <1>1, <1>2
<1>4. ASSUME NEW out \in Outs(ops)
      PROVE  \E m \in DOMAIN ops : LastOf(out, ops) = ops[m] /\ ops[m].out = out
  <2> DEFINE IsLast(m) == ops[m].out = out /\ \A k \in DOMAIN ops : ops[k].out = out => k <= m
  <2>1. PICK m \in DOMAIN ops : ops[m].out = out
    BY DEF Outs, Range
  <2>2. \E l \in DOMAIN ops : IsLast(l)
    <3>1. CASE 2 \in DOMAIN ops /\ ops[2].out = out
      BY <1>3, <3>1
    <3>2. CASE ~ (2 \in DOMAIN ops /\ ops[2].out = out)
      <4>1. \A k \in DOMAIN ops : ops[k].out = out => k = 1
        BY <1>3, <3>2
      <4>. QED  BY <2>1, <4>1
    <3>. QED  BY <3>1, <3>2
  <2>3. LastOf(out, ops) = ops[CHOOSE l \in DOMAIN ops : IsLast(l)]
    BY DEF LastOf
  <2>4. PICK l \in DOMAIN ops : l = (CHOOSE k \in DOMAIN ops : IsLast(k)) /\ IsLast(l)
    BY <2>2
  <2>. QED  BY <2>3, <2>4
<1>. QED  BY <1>1, <1>3, <1>4

\* Two operations of a name are all there are; they are one when they are alike.
LEMMA TwiceIs ==
  ASSUME NEW ops \in UNION {[1..n -> Aggregations] : n \in 0..2}, NEW out \in Twice(ops)
  PROVE  /\ 1 \in DOMAIN ops /\ 2 \in DOMAIN ops
         /\ ops[1].out = out /\ ops[2].out = out
         /\ Cardinality(Range(ops)) > 1 <=> ops[1] # ops[2]
<1>1. /\ DOMAIN ops \subseteq {1, 2}
      /\ 1 \in DOMAIN ops /\ 2 \in DOMAIN ops
      /\ ops[1].out = out /\ ops[2].out = out
  BY OperationsAre DEF Twice
<1>2. Range(ops) = {ops[1]} \cup {ops[2]}
  BY <1>1 DEF Range
<1>3. IsFiniteSet({ops[1]}) /\ Cardinality({ops[1]}) = 1
  BY FS_Singleton
<1>4. CASE ops[1] = ops[2]
  <2>1. Range(ops) = {ops[1]}
    BY <1>2, <1>4
  <2>. QED  BY <1>1, <1>3, <1>4, <2>1
<1>5. CASE ops[1] # ops[2]
  <2>1. ops[2] \notin {ops[1]}
    BY <1>5
  <2>2. Cardinality({ops[1]} \cup {ops[2]}) = Cardinality({ops[1]}) + 1
    BY <1>3, <2>1, FS_AddElement
  <2>3. Cardinality({ops[1]} \cup {ops[2]}) = 2
    BY <1>3, <2>2
  <2>4. Cardinality(Range(ops)) = 2
    BY <1>2, <2>3
  <2>. QED  BY <1>1, <1>5, <2>4
<1>. QED  BY <1>4, <1>5

\* An operation puts out the type that is computed of it.
LEMMA ResultIs ==
  ASSUME NEW op \in Aggregations, NEW schema,
         op.formula = "count" \/ op.value \in DOMAIN schema
  PROVE  Result(op, Arriving(1, schema, Nothing)) = TypeOf(op, schema)
<1> DEFINE formula == op.formula
           input   == Arriving(1, schema, Nothing)
<1>1. formula \in {"count", "mean", "sum", "only", "list"}
  BY DEF Aggregations
<1>2. formula # "count" => input[op.value].type = schema[op.value]
  BY ArrivingIs
<1>3. CASE formula = "count"
  BY <1>3 DEF Result, TypeOf
<1>4. CASE formula = "mean"
  BY <1>4 DEF Result, TypeOf
<1>5. CASE formula \in {"sum", "only"}
  BY <1>2, <1>5 DEF Result, TypeOf
<1>6. CASE formula = "list"
  BY <1>2, <1>6 DEF Result, TypeOf
<1>. QED  BY <1>1, <1>3, <1>4, <1>5, <1>6

\* An accepted aggregate runs as promised, but for a mean of text and names that clash.
LEMMA AggregatesDoFit == AggregatesFit
<1> SUFFICES ASSUME NEW st \in AggregateStages, AcceptsAggregate(st)
             PROVE  RunsAsPromised(
                      RunAggregate(st, Arriving(1, st.schema, Nothing)), Computed(st),
                      [c \in DOMAIN Computed(st) |-> Meant(c, st)])
                    <=> ~AggregateLetThrough(st)
  BY DEF AggregatesFit
<1> DEFINE schema   == st.schema
           group    == st.group_by
           ops      == st.ops
           outs     == Outs(ops)
           twice    == Twice(ops)
           input    == Arriving(1, schema, Nothing)
           computed == Computed(st)
           origins  == [c \in DOMAIN computed |-> Meant(c, st)]
           last(c)  == LastOf(c, ops)
           cell(op) == Cell(Result(op, input), {<<op.formula, op.value>>})
           named    == IF group = {} THEN outs ELSE outs \ twice
           valued   == [out \in named |-> cell(last(out))]
           keyed    == [c \in group |-> Cell(input[c].type, {<<"keyed", c>>})]
           table    == Over(valued, keyed)
           types    == [out \in outs |-> TypeOf(last(out), schema)]
           keys     == Restrict(schema, group)
<1>1. /\ \A c \in group : c \in DOMAIN schema
      /\ \A m \in DOMAIN ops : ops[m].formula = "count" \/ ops[m].value \in DOMAIN schema
  BY DEF AcceptsAggregate, Range
<1>2. ops \in UNION {[1..n -> Aggregations] : n \in 0..2}
  BY DEF AggregateStages
<1>3. RunAggregate(st, input) =
        IF MeanOfText(st) \/ outs \cap group # {} THEN {} ELSE {table}
  BY DEF RunAggregate
<1>4. computed = Over(types, keys)
  BY DEF Computed
<1>5. AggregateLetThrough(st) <=>
        \/ MeanOfText(st)
        \/ outs \cap group # {}
        \/ twice # {} /\ (group # {} \/ Cardinality(Range(ops)) > 1)
  BY DEF AggregateLetThrough
<1>6. \A c : Meant(c, st) =
        {<<op.formula, op.value>> : op \in {o \in Range(ops) : o.out = c}}
          \cup {<<"keyed", k>> : k \in group \cap {c}}
  BY DEF Meant
<1>7. \A c \in DOMAIN computed : origins[c] = Meant(c, st)
  OBVIOUS
<1> HIDE DEF schema, group, ops, computed, origins, input, twice
<1>8. /\ \A m \in DOMAIN ops : ops[m] \in Aggregations
      /\ \A c \in outs : \E m \in DOMAIN ops : last(c) = ops[m] /\ ops[m].out = c
  BY <1>2, OperationsAre
<1>9. \A c \in outs : last(c) \in Range(ops) /\ last(c).out = c
  BY <1>8 DEF Range
<1>10. \A c \in outs : Result(last(c), input) = TypeOf(last(c), schema)
  BY <1>1, <1>8, ResultIs DEF input
<1>11. \A c \in twice : c \in outs
  BY DEF twice, Twice
<1>12. \A c : c \in outs <=> \E o \in Range(ops) : o.out = c
  BY DEF Outs
<1> HIDE DEF outs, last
<1>13. /\ \A c : c \in DOMAIN types <=> c \in outs
       /\ \A c \in outs : types[c] = TypeOf(last(c), schema)
  OBVIOUS
<1>14. /\ \A c : c \in DOMAIN keys <=> c \in group
       /\ \A c \in group : keys[c] = schema[c]
  BY DEF Restrict
<1>15. /\ \A c : c \in DOMAIN valued <=> c \in named
       /\ \A c \in named : valued[c].type = Result(last(c), input)
                             /\ valued[c].of = {<<last(c).formula, last(c).value>>}
  BY DEF Cell
<1>16. /\ \A c : c \in DOMAIN keyed <=> c \in group
       /\ \A c \in group : keyed[c].type = input[c].type /\ keyed[c].of = {<<"keyed", c>>}
  BY DEF Cell
<1>17. \A c \in group : input[c].type = schema[c]
  BY <1>1, ArrivingIs DEF input
<1> HIDE DEF types, keys, valued, keyed
<1>18. /\ \A c : c \in DOMAIN computed <=> c \in outs \/ c \in group
       /\ \A c \in outs : computed[c] = TypeOf(last(c), schema)
       /\ \A c \in group : c \notin outs => computed[c] = schema[c]
  <2>1. /\ \A c : c \in DOMAIN Over(types, keys) <=> c \in DOMAIN types \/ c \in DOMAIN keys
        /\ \A c \in DOMAIN types : Over(types, keys)[c] = types[c]
        /\ \A c \in DOMAIN keys : c \notin DOMAIN types => Over(types, keys)[c] = keys[c]
    BY OverIs
  <2>. QED  BY <1>4, <1>13, <1>14, <2>1
<1>19. /\ \A c : c \in DOMAIN table <=> c \in DOMAIN valued \/ c \in DOMAIN keyed
       /\ \A c \in DOMAIN valued : table[c] = valued[c]
       /\ \A c \in DOMAIN keyed : c \notin DOMAIN valued => table[c] = keyed[c]
  BY OverIs
<1> HIDE DEF table
<1>20. ASSUME NEW c \in outs, c \notin group, c \notin twice
       PROVE  Meant(c, st) = {<<last(c).formula, last(c).value>>}
  <2>1. \A o \in Range(ops) : o.out = c => o = last(c)
    <3>1. ASSUME NEW m \in DOMAIN ops, NEW k \in DOMAIN ops, ops[m].out = c, ops[k].out = c
          PROVE  m = k
      BY <1>20, <3>1 DEF twice, Twice, outs
    <3>. QED  BY <1>8, <3>1 DEF Range
  <2>2. {o \in Range(ops) : o.out = c} = {last(c)}
    BY <1>9, <2>1
  <2>3. group \cap {c} = {}
    BY <1>20
  <2>. QED  BY <1>6, <2>2, <2>3
<1>21. ASSUME NEW c \in twice, c \notin group
       PROVE  /\ Meant(c, st) = {<<ops[1].formula, ops[1].value>>, <<ops[2].formula, ops[2].value>>}
              /\ Cardinality(Range(ops)) > 1 <=> ops[1] # ops[2]
              /\ ops[1] # ops[2] =>
                   <<ops[1].formula, ops[1].value>> # <<ops[2].formula, ops[2].value>>
              /\ last(c) = ops[1] \/ last(c) = ops[2]
  <2>1. /\ 1 \in DOMAIN ops /\ 2 \in DOMAIN ops
        /\ ops[1].out = c /\ ops[2].out = c
        /\ Cardinality(Range(ops)) > 1 <=> ops[1] # ops[2]
    BY <1>2, TwiceIs DEF twice
  <2>2. Range(ops) = {ops[1], ops[2]}
    BY <1>2, <2>1, OperationsAre DEF Range
  <2>3. {o \in Range(ops) : o.out = c} = {ops[1], ops[2]}
    BY <2>1, <2>2
  <2>4. group \cap {c} = {}
    BY <1>21
  <2>5. Meant(c, st) = {<<ops[1].formula, ops[1].value>>, <<ops[2].formula, ops[2].value>>}
    BY <1>6, <2>3, <2>4
  <2>6. ops[1].formula = ops[2].formula /\ ops[1].value = ops[2].value => ops[1] = ops[2]
    BY <1>8, <2>1 DEF Aggregations
  <2>7. last(c) = ops[1] \/ last(c) = ops[2]
    BY <1>9, <1>11, <2>2
  <2>. QED  BY <2>1, <2>5, <2>6, <2>7
<1>22. ASSUME NEW c \in group, c \notin outs
       PROVE  Meant(c, st) = {<<"keyed", c>>}
  <2>1. {o \in Range(ops) : o.out = c} = {}
    BY <1>12, <1>22
  <2>2. group \cap {c} = {c}
    BY <1>22
  <2>. QED  BY <1>6, <2>1, <2>2
<1>23. ASSUME ~AggregateLetThrough(st)
       PROVE  RunsAsPromised({table}, computed, origins)
  <2>1. \A c \in outs : c \notin group
    BY <1>5, <1>23
  <2>2. \A c \in outs : c \in named
    BY <1>5, <1>23
  <2>3. ASSUME NEW c \in DOMAIN computed
        PROVE  c \in DOMAIN table /\ table[c].type = computed[c] /\ table[c].of = origins[c]
    <3>1. CASE c \in outs
      <4>1. c \in named /\ c \notin group
        BY <2>1, <2>2, <3>1
      <4> HIDE DEF named
      <4>2. /\ c \in DOMAIN table /\ table[c].type = Result(last(c), input)
            /\ table[c].of = {<<last(c).formula, last(c).value>>}
        BY <1>15, <1>19, <4>1
      <4>3. Meant(c, st) = {<<last(c).formula, last(c).value>>}
        <5>1. CASE c \notin twice
          BY <1>20, <3>1, <4>1, <5>1
        <5>2. CASE c \in twice
          <6>1. ops[1] = ops[2]
            BY <1>5, <1>21, <1>23, <4>1, <5>2
          <6>. QED  BY <1>21, <4>1, <5>2, <6>1
        <5>. QED  BY <5>1, <5>2
      <4>. QED  BY <1>7, <1>10, <1>18, <3>1, <4>2, <4>3
    <3>2. CASE c \notin outs
      <4>1. c \in group /\ c \notin named
        BY <1>18, <3>2
      <4> HIDE DEF named
      <4>2. c \in DOMAIN table /\ table[c].type = schema[c] /\ table[c].of = {<<"keyed", c>>}
        BY <1>15, <1>16, <1>17, <1>19, <4>1
      <4>. QED  BY <1>7, <1>18, <1>22, <3>2, <4>1, <4>2
    <3>. QED  BY <3>1, <3>2
  <2>. QED  BY <2>3, OneTable
<1>24. ASSUME twice # {}, outs \cap group = {}, group # {} \/ Cardinality(Range(ops)) > 1
       PROVE  ~RunsAsPromised({table}, computed, origins)
  <2>1. PICK c \in twice : TRUE
    BY <1>24
  <2>2. c \in outs /\ c \notin group /\ c \in DOMAIN computed
    BY <1>11, <1>18, <1>24, <2>1
  <2>3. CASE group # {}
    <3>1. c \notin named
      BY <2>1, <2>3
    <3> HIDE DEF named
    <3>2. c \notin DOMAIN table
      BY <1>15, <1>16, <1>19, <2>2, <3>1
    <3>3. ~(c \in DOMAIN table /\ table[c].type = computed[c] /\ table[c].of = origins[c])
      BY <3>2
    <3>. QED  BY <2>2, <3>3, OneTable
  <2>4. CASE group = {}
    <3>1. c \in named
      BY <2>2, <2>4
    <3> HIDE DEF named
    <3>2. table[c].of = {<<last(c).formula, last(c).value>>}
      BY <1>15, <1>19, <3>1
    <3>3. ops[1] # ops[2]
      BY <1>21, <1>24, <2>1, <2>2, <2>4
    <3>4. table[c].of # origins[c]
      BY <1>7, <1>21, <2>1, <2>2, <3>2, <3>3
    <3>5. ~(c \in DOMAIN table /\ table[c].type = computed[c] /\ table[c].of = origins[c])
      BY <3>4
    <3>. QED  BY <2>2, <3>5, OneTable
  <2>. QED  BY <2>3, <2>4
<1>25. RunsAsPromised(RunAggregate(st, input), computed, origins) <=> ~AggregateLetThrough(st)
  <2>1. CASE MeanOfText(st) \/ outs \cap group # {}
    BY <1>3, <1>5, <2>1, NoTable
  <2>2. CASE ~ (MeanOfText(st) \/ outs \cap group # {})
    <3>1. RunAggregate(st, input) = {table}
      BY <1>3, <2>2
    <3>. QED  BY <1>5, <1>23, <1>24, <2>2, <3>1
  <2>. QED  BY <2>1, <2>2
<1>. QED  BY <1>25 DEF input, computed, origins, schema

(* Over any columns, a stage its validators accept puts out the columns its *)
(* signature promises, of the types promised and taken from where it says,  *)
(* whatever else its inputs carry; and it does not, just in the cases named *)
(* as let through (the find_*_issues of models/stages beside the handlers of*)
(* runtime/stages).                                                         *)
THEOREM AcceptedStagesDoFit == AcceptedStagesFit
BY RowStagesDoFit, JoinsDoFit, UnionsDoFit, ExplodesDoFit, SortsDoFit, DedupesDoFit,
   AggregatesDoFit
   DEF AcceptedStagesFit

(* So does whatever stage a stored version may hold, as long as the project *)
(* lives (save_version stores what its validators accept).                  *)
THEOREM SavedStagesKeepTheirPromises == AuthoringSpec => []SavedStagesRunAsPromised
<1>1. SavedStagesRunAsPromised
  BY AcceptedStagesDoFit DEF SavedStagesRunAsPromised
<1>. QED  BY <1>1, PTL
=============================================================================
