------------------------------ MODULE FilesProof ------------------------------
(***************************************************************************)
(* The proofs about what the server keeps on disk beside its store: the    *)
(* branch cache of a run (BranchCache) and the files of a workspace        *)
(* (ProjectFiles), two systems that do not touch.  For any number of       *)
(* threads, stages, rows and kinds of file, and any restarts and resumes   *)
(* that make frames again, a page whose reading no build crossed gets the  *)
(* branches of its manifest, as long as no two builds met and its stamp is *)
(* told from those of the settlements before; and what builds of one       *)
(* settlement leave when they do meet is whole.  For any number of files,  *)
(* requests and restarts a record has its bytes, and the quota is passed   *)
(* by no more than what the other threads have under way.                  *)
(***************************************************************************)
EXTENDS BranchCache, ProjectFiles, FunctionTheorems, FiniteSetTheorems, TLAPS

-----------------------------------------------------------------------------
(***************************************************************************)
(* The branch cache.                                                       *)
(***************************************************************************)

\* A thread at it with a manifest no build has overtaken.
Undisturbed == {t \in Thread : pc[t] # "idle" /\ ~crossed[t]}

\* A thread whose call nothing has spoilt: its frames are as its manifest names them,
\* and the stamp tells them from those of every settlement before.
Entitled == {t \in Undisturbed : ~outrun[t] /\ ~Again(t)}

\* A thread at it names an analysis there is, and only a run that never settled has none.
NamesFramesThereAre ==
  /\ Settled > 0 \/ (going /\ dirty)
  /\ \A t \in Thread : pc[t] # "idle" => frames[t] \in 1..Settled

\* Builds come one at a time, and none is disturbed by another.
OneBuilds ==
  /\ \A t, u \in Builders : t = u
  /\ \A t \in Builders : ~crossed[t]

\* Only a build that writes has a file open, and one it no longer has to write.
OpensItsOwn ==
  \A t \in Thread : handle[t] # None =>
    /\ pc[t] = "writing"
    /\ handle[t] \in (FilesOf(analysed[frames[t]]) \cup {Part}) \ todo[t]

\* What a build has written is of its frames, and the part comes last.
WritesItsFrames ==
  \A t \in Builders :
    /\ todo[t] \subseteq FilesOf(analysed[frames[t]]) \cup {Part}
    /\ \A f \in FilesOf(analysed[frames[t]]) : f \notin todo[t] => files[f] = {frames[t]}
    /\ Part \notin todo[t] => todo[t] = {} /\ files[Part] = {frames[t]}
    /\ pc[t] = "renaming" => handle[t] = None /\ Part \notin todo[t]
    /\ files[Stamp] # {frames[t]}

\* The stamp is of no later analysis than the run's last, or an undisturbed thread's.
StampIsNoNewer ==
  \A k \in files[Stamp] :
    /\ k <= Settled
    /\ \A t \in Undisturbed : k <= frames[t]

\* A stamp vouches for whole files, or nobody is left to trust it.
StampVouches ==
  \A k \in Analysis : files[Stamp] = {k} =>
    \/ \A f \in FilesOf(analysed[k]) : files[f] = {k}
    \/ k < Settled /\ \A t \in Undisturbed : frames[t] # k

\* Whoever came to the cache after a build opened a file names no earlier analysis.
LaterNameMore ==
  \A u \in Thread : handle[u] # None =>
    \A t \in Undisturbed : t # u => frames[u] <= frames[t]

\* An entitled reader has a stamp of its frames, and was given nothing else.
ReadsItsFrames ==
  /\ \A t \in Thread : pc[t] \in {"idle", "asked"} => got[t] = {}
  /\ \A t \in Entitled :
       /\ pc[t] = "reading" =>
            /\ files[Stamp] = {frames[t]}
            /\ todo[t] \subseteq FilesOf(analysed[frames[t]])
            /\ got[t] \subseteq {frames[t]}
            /\ OfTheRun \ todo[t] # {} => got[t] = {frames[t]}
       /\ pc[t] = "served" => got[t] = {frames[t]}
       /\ pc[t] # "failed"

CacheParts ==
  /\ OneBuilds /\ OpensItsOwn /\ WritesItsFrames
  /\ StampIsNoNewer /\ StampVouches /\ LaterNameMore /\ ReadsItsFrames

CacheInv ==
  /\ TypeOK
  /\ NamesFramesThereAre
  /\ ~overlapped => CacheParts

-----------------------------------------------------------------------------
(* The names of the files.                                                 *)

\* The stamp and its part are neither each other, nor a file of a build, nor
\* the absence of one.
LEMMA NamesDiffer ==
  /\ Stamp # Part /\ Stamp # None /\ Stamp # Unlinked
  /\ Part # None /\ Part # Unlinked /\ None # Unlinked
  /\ \A m : {Stamp, Part, None, Unlinked} \cap FilesOf(m) = {}
<1>1. /\ Stamp # Part /\ Stamp # None /\ Stamp # Unlinked
      /\ Part # None /\ Part # Unlinked /\ None # Unlinked
  BY DEF Stamp, Part, None, Unlinked
<1>2. ASSUME NEW m PROVE {Stamp, Part, None, Unlinked} \cap FilesOf(m) = {}
  BY CacheConstants DEF Stamp, Part, None, Unlinked, FilesOf, OfTheRun
<1>3. QED BY <1>1, <1>2

\* Every file a build of some frames writes is a file of the cache, and it
\* writes those a page reads at once.
LEMMA FilesAreFiles ==
  /\ {Stamp, Part} \subseteq File
  /\ \A m : FilesOf(m) \subseteq File /\ OfTheRun \subseteq FilesOf(m)
  /\ OfTheRun # {}
<1>1. {Stamp, Part} \subseteq File BY DEF File
<1>2. ASSUME NEW m PROVE FilesOf(m) \subseteq File BY DEF FilesOf, File
<1>3. \A m : OfTheRun \subseteq FilesOf(m) BY DEF FilesOf
<1>4. OfTheRun # {}
  <2>1. PICK s : s \in Summaries BY CacheConstants
  <2>2. <<s, 0>> \in OfTheRun BY <2>1 DEF OfTheRun
  <2>3. QED BY <2>2
<1>5. QED BY <1>1, <1>2, <1>3, <1>4

\* The part is the last of the files left.
LEMMA PartIsLast ==
  ASSUME NEW left, NEW f \in NextOf(left) PROVE f \in left /\ (f = Part => left = {Part})
<1>1. Part \notin OfTheRun BY NamesDiffer, FilesAreFiles
<1>2. QED BY <1>1 DEF NextOf

-----------------------------------------------------------------------------
(* The analyses.                                                           *)

\* They are numbered from one.
LEMMA Numbers ==
  ASSUME TypeOK
  PROVE  /\ Settled \in Nat
         /\ \A n : n \in Analysis <=> n \in Nat /\ 0 < n /\ n <= Settled
<1>1. Settled \in Nat BY DEF TypeOK, Settled
<1>2. QED BY <1>1 DEF Analysis

\* A step that settles nothing leaves them alone.
LEMMA SameAnalyses ==
  ASSUME analysed' = analysed PROVE Settled' = Settled /\ Analysis' = Analysis
BY DEF Settled, Analysis

\* A settlement adds one at most, and leaves those there were.
LEMMA MoreAnalyses ==
  ASSUME TypeOK, Analyse
  PROVE  /\ analysed' \in Seq(Manifest) /\ dirty' = FALSE
         /\ Settled' \in Nat /\ Settled <= Settled'
         /\ dirty => Settled' > 0
         /\ \A n \in Analysis : n \in Analysis' /\ analysed'[n] = analysed[n]
<1>1. analysed \in Seq(Manifest) /\ rows \in Manifest BY DEF TypeOK
<1>2. CASE dirty
  <2>1. analysed' = Append(analysed, rows) BY <1>2 DEF Analyse
  <2>2. /\ analysed' \in Seq(Manifest) /\ Len(analysed') = Len(analysed) + 1
        /\ \A n \in 1..Len(analysed) : analysed'[n] = analysed[n]
    BY <1>1, <2>1
  <2>3. QED BY <1>1, <2>2 DEF Settled, Analysis, Analyse
<1>3. CASE ~dirty
  <2>1. analysed' = analysed BY <1>3 DEF Analyse
  <2>2. QED BY <1>1, <1>3, <2>1 DEF Settled, Analysis, Analyse
<1>4. QED BY <1>2, <1>3

\* What an earlier settlement was of, none after it changes.
LEMMA AgainStays ==
  ASSUME TypeOK, NEW t \in Thread, frames[t] \in Analysis, frames'[t] = frames[t],
         \A n \in Analysis : n \in Analysis' /\ analysed'[n] = analysed[n],
         Settled' \in Nat
  PROVE  Again(t)' <=> Again(t)
<1>1. \A n : n \in Analysis' <=> n \in Nat /\ 0 < n /\ n <= Settled'
  BY DEF Analysis
<1>2. \A n \in Analysis' : n < frames[t] => n \in Analysis
  BY <1>1, Numbers
<1>3. QED BY <1>2 DEF Again

-----------------------------------------------------------------------------
(* The types.                                                              *)

\* The initial state has its types.
LEMMA InitTyped == Init => TypeOK
<1> SUFFICES ASSUME Init PROVE TypeOK
  OBVIOUS
<1> USE CacheConstants
<1>1. files \in [File -> SUBSET (Analysis \cup {Cut})] BY DEF Init
<1>2. /\ handle \in [Thread -> File \cup {None, Unlinked}]
      /\ todo \in [Thread -> SUBSET File] /\ got \in [Thread -> SUBSET Analysis]
  BY DEF Init
<1>3. /\ analysed \in Seq(Manifest) /\ rows \in Manifest
      /\ asks \in 0..MaxAsks /\ crashes \in 0..MaxCrashes
  BY DEF Init, Manifest
<1>4. Settled = 0 BY DEF Init, Settled
<1>5. frames \in [Thread -> 0..Settled] BY <1>4 DEF Init
<1>6. QED BY <1>1, <1>2, <1>3, <1>5 DEF Init, TypeOK

\* Turning to the cache keeps the types of what it assigns.
LEMMA TurnTyped ==
  ASSUME TypeOK, NEW t \in Thread, TurnToCache(t, Settled'),
         Settled' \in Nat, Settled <= Settled', \A n \in Analysis : n \in Analysis'
  PROVE  /\ asks' \in 0..MaxAsks /\ crashes' \in 0..MaxCrashes
         /\ pc' \in [Thread -> {"idle", "asked", "reading", "writing", "renaming", "served", "failed"}]
         /\ frames' \in [Thread -> 0..Settled']
         /\ got' \in [Thread -> SUBSET (Analysis' \cup {Cut})]
         /\ crossed' \in [Thread -> BOOLEAN] /\ outrun' \in [Thread -> BOOLEAN]
         /\ overlapped' \in BOOLEAN
         /\ files' \in [File -> SUBSET (Analysis' \cup {Cut})]
         /\ handle' \in [Thread -> File \cup {None, Unlinked}]
         /\ todo' \in [Thread -> SUBSET File]
<1>1. 0..Settled \subseteq 0..Settled' /\ Settled' \in 0..Settled'
  BY Numbers
<1>2. frames' \in [Thread -> 0..Settled'] BY <1>1 DEF TypeOK, TurnToCache
<1>3. QED BY <1>2, CacheConstants DEF TypeOK, TurnToCache

\* So does a return from the cache, or its loss in a restart.
LEMMA ForgetTyped ==
  ASSUME TypeOK, NEW leaving, Forget(leaving)
  PROVE  /\ pc' \in [Thread -> {"idle", "asked", "reading", "writing", "renaming", "served", "failed"}]
         /\ frames' \in [Thread -> 0..Settled]
         /\ got' \in [Thread -> SUBSET (Analysis \cup {Cut})]
         /\ crossed' \in [Thread -> BOOLEAN] /\ outrun' \in [Thread -> BOOLEAN]
         /\ todo' \in [Thread -> SUBSET File]
<1>1. 0 \in 0..Settled BY Numbers
<1>2. QED BY <1>1 DEF TypeOK, Forget

\* Every step keeps the types, given that a thread at it names frames there are.
LEMMA NextTyped == TypeOK /\ NamesFramesThereAre /\ [Next]_vars => TypeOK'
<1> SUFFICES ASSUME TypeOK, NamesFramesThereAre, [Next]_vars PROVE TypeOK'
  OBVIOUS
<1> USE CacheConstants
<1> DEFINE Typed(n, a) ==
             /\ files' \in [File -> SUBSET (a \cup {Cut})] /\ frames' \in [Thread -> 0..n]
             /\ got' \in [Thread -> SUBSET (a \cup {Cut})]
<1>0. ASSUME analysed' = analysed, Typed(Settled, Analysis)
      PROVE  Typed(Settled', Analysis') /\ analysed' \in Seq(Manifest)
  BY <1>0, SameAnalyses DEF TypeOK
<1>1. CASE RecordFrame
  <2>1. Typed(Settled, Analysis) /\ analysed' = analysed
    BY <1>1 DEF TypeOK, RecordFrame, threadVars
  <2>2. rows' \in Manifest BY <1>1 DEF TypeOK, RecordFrame, Manifest
  <2>3. QED BY <1>0, <1>1, <2>1, <2>2 DEF TypeOK, RecordFrame, threadVars
<1>2. CASE Resume
  <2>1. Typed(Settled, Analysis) /\ analysed' = analysed
    BY <1>2 DEF TypeOK, Resume, threadVars
  <2>2. QED BY <1>0, <1>2, <2>1 DEF TypeOK, Resume, threadVars
<1>15. CASE Rerun
  <2>1. Typed(Settled, Analysis) /\ analysed' = analysed
    BY <1>15 DEF TypeOK, Rerun, threadVars
  <2>2. rows' \in Manifest BY <1>15 DEF TypeOK, Rerun, Manifest
  <2>3. outrun' \in [Thread -> BOOLEAN] BY <1>15 DEF TypeOK, Rerun
  <2>4. QED BY <1>0, <1>15, <2>1, <2>2, <2>3 DEF TypeOK, Rerun, threadVars
<1>3. CASE Crash
  <2>1. files' \in [File -> SUBSET (Analysis \cup {Cut})]
    BY <1>3 DEF TypeOK, Crash
  <2>2. Forget(Thread) /\ analysed' = analysed BY <1>3 DEF Crash, runVars
  <2>3. Typed(Settled, Analysis) BY <2>1, <2>2, ForgetTyped
  <2>4. crashes' \in 0..MaxCrashes /\ handle' \in [Thread -> File \cup {None, Unlinked}]
    BY <1>3 DEF TypeOK, Crash
  <2>5. /\ Typed(Settled', Analysis') /\ analysed' \in Seq(Manifest)
        /\ UNCHANGED <<rows, dirty, going, resumed, overlapped, asks>>
    BY <1>0, <1>3, <2>2, <2>3 DEF Crash, runVars
  <2>6. QED BY <2>2, <2>4, <2>5, ForgetTyped DEF TypeOK
<1>4. ASSUME NEW t \in Thread, Settle(t) PROVE TypeOK'
  <2>1. TurnToCache(t, Settled') /\ Analyse BY <1>4 DEF Settle, Settled
  <2>2. QED BY <1>4, <2>1, TurnTyped, MoreAnalyses DEF TypeOK, Settle
<1>5. ASSUME NEW t \in Thread, Ask(t) PROVE TypeOK'
  <2>1. analysed' = analysed /\ Settled' = Settled /\ Analysis' = Analysis
    BY <1>5, SameAnalyses DEF Ask, runVars
  <2>2. TurnToCache(t, Settled') BY <1>5, <2>1 DEF Ask
  <2>3. Settled <= Settled' /\ Settled' \in Nat BY <2>1, Numbers
  <2>4. QED BY <1>5, <2>1, <2>2, <2>3, TurnTyped DEF TypeOK, Ask, runVars
<1>6. ASSUME NEW t \in Thread, ReadStamp(t) PROVE TypeOK'
  <2>1. FilesOf(analysed[frames[t]]) \cup {Part} \subseteq File
    BY FilesAreFiles
  <2>2. overlapped' \in BOOLEAN BY <1>6 DEF ReadStamp, TypeOK
  <2>3. todo' \in [Thread -> SUBSET File] BY <1>6, <2>1 DEF ReadStamp, TypeOK
  <2>4. pc' \in [Thread -> {"idle", "asked", "reading", "writing", "renaming", "served", "failed"}]
    BY <1>6 DEF ReadStamp, TypeOK
  <2>5. Typed(Settled, Analysis) /\ analysed' = analysed
    BY <1>6 DEF TypeOK, ReadStamp, runVars
  <2>6. QED BY <1>0, <1>6, <2>2, <2>3, <2>4, <2>5 DEF TypeOK, ReadStamp, runVars
<1>7. ASSUME NEW t \in Thread, ReadFile(t) PROVE TypeOK'
  <2>1. PICK f \in NextOf(todo[t]) : /\ Whole(f)
                                     /\ got' = [got EXCEPT ![t] = @ \cup files[f]]
                                     /\ todo' = [todo EXCEPT ![t] = @ \ {f}]
    BY <1>7 DEF ReadFile
  <2>2. files[f] \subseteq Analysis BY <2>1 DEF Whole
  <2>3. Typed(Settled, Analysis) /\ analysed' = analysed
    BY <1>7, <2>1, <2>2 DEF TypeOK, ReadFile, runVars
  <2>4. todo' \in [Thread -> SUBSET File] BY <2>1 DEF TypeOK
  <2>5. QED BY <1>0, <1>7, <2>3, <2>4 DEF TypeOK, ReadFile, runVars
<1>8. ASSUME NEW t \in Thread, FailToRead(t) \/ Serve(t) \/ FailToPublish(t) \/ CloseFile(t)
      PROVE TypeOK'
  <2>1. Typed(Settled, Analysis) /\ analysed' = analysed
    BY <1>8 DEF TypeOK, FailToRead, Serve, FailToPublish, CloseFile, runVars
  <2>2. QED BY <1>0, <1>8, <2>1 DEF TypeOK, FailToRead, Serve, FailToPublish, CloseFile, runVars
<1>10. ASSUME NEW t \in Thread, Leave(t) PROVE TypeOK'
  <2>1. Forget({t}) /\ analysed' = analysed BY <1>10 DEF Leave, runVars
  <2>2. Typed(Settled, Analysis) BY <1>10, <2>1, ForgetTyped DEF Leave, TypeOK
  <2>3. QED BY <1>0, <1>10, <2>1, <2>2, ForgetTyped DEF TypeOK, Leave, runVars
<1>9. ASSUME NEW t \in Thread, OpenFile(t) PROVE TypeOK'
  <2>1. PICK f \in NextOf(todo[t]) :
          /\ handle' = [handle EXCEPT ![t] = f]
          /\ todo' = [todo EXCEPT ![t] = @ \ {f}]
          /\ files' = [files EXCEPT ![f] =
                         IF Writers(f) = {} THEN {frames[t]} ELSE @ \cup {frames[t]}]
    BY <1>9 DEF OpenFile
  <2>2. f \in File BY <2>1 DEF NextOf, TypeOK
  <2>3. frames[t] \in Analysis \cup {Cut} BY DEF TypeOK, Analysis, Cut
  <2>4. crossed' \in [Thread -> BOOLEAN] BY <1>9 DEF OpenFile, Cross, TypeOK
  <2>5. files' \in [File -> SUBSET (Analysis \cup {Cut})]
    <3>1. files[f] \in SUBSET (Analysis \cup {Cut}) BY <2>2 DEF TypeOK
    <3>2. QED BY <2>1, <2>3, <3>1 DEF TypeOK
  <2>6. /\ handle' \in [Thread -> File \cup {None, Unlinked}]
        /\ todo' \in [Thread -> SUBSET File]
    BY <2>1, <2>2 DEF TypeOK
  <2>7. Typed(Settled, Analysis) /\ analysed' = analysed
    BY <1>9, <2>5 DEF TypeOK, OpenFile, runVars
  <2>8. QED BY <1>0, <1>9, <2>4, <2>6, <2>7 DEF TypeOK, OpenFile, runVars
<1>11. ASSUME NEW t \in Thread, Publish(t) PROVE TypeOK'
  <2>1. frames[t] \in Analysis
    BY <1>11 DEF Publish, NamesFramesThereAre, Analysis
  <2>2. crossed' \in [Thread -> BOOLEAN] BY <1>11 DEF Publish, Cross, TypeOK
  <2>3. handle' \in [Thread -> File \cup {None, Unlinked}]
    BY <1>11, FilesAreFiles DEF Publish, TypeOK
  <2>4. files' \in [File -> SUBSET (Analysis \cup {Cut})]
    BY <1>11, FilesAreFiles DEF Publish, TypeOK
  <2>5. got' \in [Thread -> SUBSET (Analysis \cup {Cut})]
    BY <1>11, <2>1 DEF Publish, TypeOK
  <2>6. Typed(Settled, Analysis) /\ analysed' = analysed
    BY <1>11, <2>4, <2>5 DEF TypeOK, Publish, runVars
  <2>7. QED BY <1>0, <1>11, <2>2, <2>3, <2>6 DEF TypeOK, Publish, runVars
<1>12. CASE UNCHANGED vars
  <2>1. Typed(Settled, Analysis) /\ analysed' = analysed BY <1>12 DEF TypeOK, vars
  <2>2. QED BY <1>0, <1>12, <2>1 DEF TypeOK, vars
<1>13. QED BY <1>1, <1>2, <1>3, <1>4, <1>5, <1>6, <1>7, <1>8, <1>9, <1>10, <1>11, <1>12, <1>15
           DEF Next

\* Every step keeps to frames there are.
LEMMA NextNames == TypeOK /\ NamesFramesThereAre /\ [Next]_vars => NamesFramesThereAre'
<1> SUFFICES ASSUME TypeOK, NamesFramesThereAre, [Next]_vars PROVE NamesFramesThereAre'
  OBVIOUS
<1>0. ASSUME analysed' = analysed, frames' = frames, going' \/ going' = going,
             dirty' \/ dirty' = dirty, \A t \in Thread : pc'[t] # "idle" => pc[t] # "idle"
      PROVE  NamesFramesThereAre'
  BY <1>0, SameAnalyses DEF NamesFramesThereAre
<1>1. CASE RecordFrame \/ Resume \/ Rerun
  <2>1. /\ analysed' = analysed /\ frames' = frames /\ pc' = pc
        /\ (going' = going /\ dirty') \/ (going' /\ dirty' = dirty)
    BY <1>1 DEF RecordFrame, Resume, Rerun, threadVars
  <2>2. QED BY <1>0, <2>1 DEF TypeOK
<1>2. ASSUME NEW leaving \in SUBSET Thread, Forget(leaving), UNCHANGED runVars
      PROVE  NamesFramesThereAre'
  <2>1. analysed' = analysed /\ going' = going /\ dirty' = dirty BY <1>2 DEF runVars
  <2>2. \A t \in Thread : pc'[t] # "idle" => pc[t] # "idle" /\ frames'[t] = frames[t]
    BY <1>2 DEF Forget
  <2>3. QED BY <2>1, <2>2, SameAnalyses DEF NamesFramesThereAre
<1>3. CASE Crash BY <1>2, <1>3 DEF Crash
<1>4. ASSUME NEW t \in Thread, Leave(t) PROVE NamesFramesThereAre' BY <1>2, <1>4 DEF Leave
<1>5. ASSUME NEW t \in Thread, TurnToCache(t, Settled'), Settled' \in Nat,
             Settled <= Settled', Settled' > 0
      PROVE  NamesFramesThereAre'
  <2>1. \A u \in Thread : pc'[u] # "idle" => u = t \/ (pc[u] # "idle" /\ frames'[u] = frames[u])
    BY <1>5 DEF TurnToCache, TypeOK
  <2>2. frames'[t] = Settled' BY <1>5 DEF TurnToCache, TypeOK
  <2>3. \A u \in Thread : pc'[u] # "idle" => frames'[u] \in 1..Settled'
    BY <1>5, <2>1, <2>2, Numbers DEF NamesFramesThereAre
  <2>4. QED BY <1>5, <2>3 DEF NamesFramesThereAre
<1>6. ASSUME NEW t \in Thread, Settle(t) PROVE NamesFramesThereAre'
  <2>1. TurnToCache(t, Settled') /\ Analyse BY <1>6 DEF Settle, Settled
  <2>2. Settled' > 0 /\ Settled' \in Nat /\ Settled <= Settled'
    BY <2>1, MoreAnalyses, Numbers DEF NamesFramesThereAre
  <2>3. QED BY <1>5, <2>1, <2>2
<1>7. ASSUME NEW t \in Thread, Ask(t) PROVE NamesFramesThereAre'
  <2>1. Settled' = Settled /\ ~going BY <1>7, SameAnalyses DEF Ask, runVars
  <2>2. TurnToCache(t, Settled') BY <1>7, <2>1 DEF Ask
  <2>3. Settled' > 0 /\ Settled' \in Nat /\ Settled <= Settled'
    BY <2>1, Numbers DEF NamesFramesThereAre
  <2>4. QED BY <1>5, <2>2, <2>3
<1>8. ASSUME NEW t \in Thread,
             ReadStamp(t) \/ ReadFile(t) \/ FailToRead(t) \/ Serve(t)
               \/ OpenFile(t) \/ CloseFile(t) \/ Publish(t) \/ FailToPublish(t)
      PROVE NamesFramesThereAre'
  <2>1. /\ analysed' = analysed /\ frames' = frames /\ going' = going /\ dirty' = dirty
        /\ \A u \in Thread : pc'[u] # "idle" => pc[u] # "idle"
    BY <1>8 DEF TypeOK, ReadStamp, ReadFile, FailToRead, Serve, OpenFile, CloseFile, Publish,
                FailToPublish, runVars
  <2>2. QED BY <1>0, <2>1
<1>9. CASE UNCHANGED vars BY <1>0, <1>9 DEF vars
<1>10. QED BY <1>1, <1>3, <1>4, <1>6, <1>7, <1>8, <1>9 DEF Next

-----------------------------------------------------------------------------
(* The cache and who is at it, one lemma for each kind of step.            *)

\* Initially nobody is at an empty cache.
LEMMA InitHolds == Init => CacheInv
<1> SUFFICES ASSUME Init PROVE CacheInv
  OBVIOUS
<1>1. TypeOK BY InitTyped
<1>2. NamesFramesThereAre BY DEF Init, NamesFramesThereAre
<1>3. files[Stamp] = {} BY FilesAreFiles DEF Init
<1>4. /\ Undisturbed = {} /\ Entitled = {} /\ Builders = {}
      /\ \A t \in Thread : handle[t] = None /\ got[t] = {}
  BY DEF Init, Undisturbed, Entitled, Builders
<1>5. CacheParts
  BY <1>3, <1>4 DEF CacheParts, OneBuilds, OpensItsOwn, WritesItsFrames, StampIsNoNewer,
                    StampVouches, LaterNameMore, ReadsItsFrames
<1>6. QED BY <1>1, <1>2, <1>5 DEF CacheInv

\* The run's own steps touch neither the cache nor who is at it; a frame made again
\* may spoil a build.
LEMMA RunKeeps ==
  ASSUME TypeOK, CacheParts, RecordFrame \/ Resume \/ Rerun
  PROVE  CacheParts'
<1>1. /\ analysed' = analysed /\ Settled' = Settled /\ Analysis' = Analysis
      /\ files' = files /\ handle' = handle /\ pc' = pc /\ frames' = frames
      /\ todo' = todo /\ got' = got /\ crossed' = crossed
  BY SameAnalyses DEF RecordFrame, Resume, Rerun, threadVars
<1>2. \A t \in Thread : outrun[t] => outrun'[t]
  BY DEF RecordFrame, Resume, Rerun, TypeOK
<1>3. Undisturbed' = Undisturbed /\ Builders' = Builders
  BY <1>1 DEF Undisturbed, Builders
<1>4. \A t \in Thread : Again(t)' <=> Again(t) BY <1>1 DEF Again
<1>5. Entitled' \subseteq Entitled
  BY <1>2, <1>3, <1>4 DEF Entitled, Undisturbed
<1>6. OneBuilds' /\ OpensItsOwn' /\ WritesItsFrames' /\ LaterNameMore'
  BY <1>1, <1>3 DEF CacheParts, OneBuilds, OpensItsOwn, WritesItsFrames, LaterNameMore
<1>7. StampIsNoNewer' /\ StampVouches'
  BY <1>1, <1>3 DEF CacheParts, StampIsNoNewer, StampVouches
<1>8. ReadsItsFrames' BY <1>1, <1>5 DEF CacheParts, ReadsItsFrames
<1>9. QED BY <1>6, <1>7, <1>8 DEF CacheParts

\* A kill leaves nobody at the cache, and the files of a build cut short that
\* no stamp vouches for.
LEMMA CrashKeeps ==
  ASSUME TypeOK, NamesFramesThereAre, CacheParts, Crash
  PROVE  CacheParts'
<1>1. /\ Undisturbed' = {} /\ Entitled' = {} /\ Builders' = {}
      /\ \A t \in Thread : handle'[t] = None /\ got'[t] = {}
  BY DEF Crash, Forget, TypeOK, Undisturbed, Entitled, Builders
<1>2. \A f \in File : Writers(f) = {} => files'[f] = files[f]
  BY DEF Crash, TypeOK
<1>3. Writers(Stamp) = {}
  BY NamesDiffer, CacheConstants DEF CacheParts, OpensItsOwn, Writers, TypeOK
<1>4. files'[Stamp] = files[Stamp] BY <1>2, <1>3, FilesAreFiles
<1>5. analysed' = analysed /\ Settled' = Settled /\ Analysis' = Analysis
  BY SameAnalyses DEF Crash, runVars
<1>6. StampVouches'
  <2> SUFFICES ASSUME NEW k \in Analysis, files'[Stamp] = {k}, ~(k < Settled)
               PROVE  \A f \in FilesOf(analysed[k]) : files'[f] = {k}
    BY <1>1, <1>5 DEF StampVouches, Undisturbed
  <2> TAKE f \in FilesOf(analysed[k])
  <2>1. files[Stamp] = {k} /\ files[f] = {k}
    BY <1>4 DEF CacheParts, StampVouches
  <2>2. f \in File BY FilesAreFiles
  <2>3. ASSUME NEW t \in Writers(f) PROVE FALSE
    <3>0. k \in Nat /\ f # None /\ t \in Thread /\ handle[t] = f
      BY <2>3, NamesDiffer, Numbers DEF Writers
    <3>1. t \in Builders /\ t \in Undisturbed
      BY <3>0 DEF CacheParts, OpensItsOwn, OneBuilds, Builders, Undisturbed
    <3>2. k <= frames[t] /\ k # frames[t]
      BY <2>1, <3>1 DEF CacheParts, StampIsNoNewer, WritesItsFrames
    <3>3. frames[t] <= Settled
      BY <3>1 DEF NamesFramesThereAre, Undisturbed
    <3>4. Settled \in Nat /\ frames[t] \in Nat
      BY <3>0, Numbers DEF TypeOK
    <3>5. QED BY <3>0, <3>2, <3>3, <3>4
  <2>4. QED BY <1>2, <2>1, <2>2, <2>3
<1>7. StampIsNoNewer'
  BY <1>1, <1>4, <1>5 DEF CacheParts, StampIsNoNewer
<1>8. OneBuilds' /\ OpensItsOwn' /\ WritesItsFrames' /\ LaterNameMore' /\ ReadsItsFrames'
  BY <1>1 DEF OneBuilds, OpensItsOwn, WritesItsFrames, LaterNameMore, ReadsItsFrames
<1>9. QED BY <1>6, <1>7, <1>8 DEF CacheParts

\* Who turns to the cache names the last analysis there is.
LEMMA TurnKeeps ==
  ASSUME TypeOK, NamesFramesThereAre, CacheParts, NEW t \in Thread,
         TurnToCache(t, Settled'), Settled' \in Nat, Settled <= Settled',
         \A n \in Analysis : n \in Analysis' /\ analysed'[n] = analysed[n]
  PROVE  CacheParts'
<1>1. /\ files' = files /\ handle' = handle /\ todo' = todo /\ got' = got
      /\ crossed' = crossed /\ outrun' = outrun
      /\ pc[t] = "idle" /\ pc'[t] = "asked" /\ frames'[t] = Settled'
      /\ \A u \in Thread : u # t => /\ pc'[u] = pc[u] /\ frames'[u] = frames[u]
  BY DEF TurnToCache, TypeOK
<1>2. /\ Builders' = Builders /\ t \notin Builders
      /\ Undisturbed' \subseteq Undisturbed \cup {t}
  BY <1>1 DEF Builders, Undisturbed
<1>3. handle[t] = None BY <1>1 DEF CacheParts, OpensItsOwn
<1>4. \A u \in Thread : pc[u] # "idle" =>
        /\ u # t /\ frames'[u] = frames[u] /\ analysed'[frames'[u]] = analysed[frames[u]]
        /\ frames[u] \in Analysis
  <2>1. \A u \in Thread : pc[u] # "idle" => frames[u] \in Analysis
    BY DEF NamesFramesThereAre, Analysis
  <2>2. QED BY <1>1, <2>1
<1>5. Settled \in Nat /\ \A n : n \in Analysis' <=> n \in Nat /\ 0 < n /\ n <= Settled'
  BY Numbers DEF Analysis
<1>6. OneBuilds' /\ WritesItsFrames'
  <2>1. \A u \in Builders : u \in Thread /\ pc[u] # "idle" /\ u # t
    BY <1>2 DEF Builders
  <2>2. QED BY <1>1, <1>2, <1>4, <2>1 DEF CacheParts, OneBuilds, WritesItsFrames
<1>7. OpensItsOwn'
  <2>1. \A u \in Thread : handle[u] # None => pc[u] # "idle"
    BY DEF CacheParts, OpensItsOwn
  <2>2. QED BY <1>1, <1>4, <2>1 DEF CacheParts, OpensItsOwn
<1>8. \A k \in files[Stamp] : k \in Nat /\ k <= Settled
  <2>1. files[Stamp] \subseteq Analysis \cup {Cut} BY FilesAreFiles DEF TypeOK
  <2>2. QED BY <2>1, <1>5, Numbers DEF Cut
<1>9. StampIsNoNewer'
  <2> SUFFICES ASSUME NEW k \in files[Stamp]
               PROVE  k <= Settled' /\ \A u \in Undisturbed' : k <= frames'[u]
    BY <1>1 DEF StampIsNoNewer
  <2>1. k \in Nat /\ k <= Settled BY <1>8, <1>5
  <2>2. k <= Settled' BY <1>5, <2>1
  <2>3. ASSUME NEW u \in Undisturbed' PROVE k <= frames'[u]
    <3>1. CASE u = t BY <1>1, <2>2, <3>1
    <3>2. CASE u # t
      BY <1>1, <1>2, <3>2 DEF CacheParts, StampIsNoNewer, Undisturbed
    <3>3. QED BY <3>1, <3>2
  <2>4. QED BY <2>2, <2>3
<1>10. StampVouches'
  <2> SUFFICES ASSUME NEW k \in Analysis', files[Stamp] = {k}
               PROVE  \/ \A f \in FilesOf(analysed'[k]) : files[f] = {k}
                      \/ k < Settled' /\ \A u \in Undisturbed' : frames'[u] # k
    BY <1>1 DEF StampVouches
  <2>1. k \in Nat /\ 0 < k /\ k <= Settled
    <3>1. k \in files[Stamp] OBVIOUS
    <3>2. QED BY <1>5, <1>8, <3>1
  <2>2. k \in Analysis /\ analysed'[k] = analysed[k] BY <2>1, Numbers
  <2>3. ASSUME k < Settled, \A u \in Undisturbed : frames[u] # k
        PROVE  k < Settled' /\ \A u \in Undisturbed' : frames'[u] # k
    <3>1. k < Settled' BY <1>5, <2>1, <2>3
    <3>2. QED BY <1>1, <1>2, <2>1, <2>3, <3>1 DEF Undisturbed
  <2>4. QED BY <2>2, <2>3 DEF CacheParts, StampVouches
<1>11. LaterNameMore'
  <2>1. \A u \in Thread : handle[u] # None => frames[u] <= Settled' /\ u # t
    BY <1>3, <1>5 DEF CacheParts, OpensItsOwn, NamesFramesThereAre
  <2>2. QED BY <1>1, <1>2, <2>1 DEF CacheParts, LaterNameMore, Undisturbed
<1>12. ReadsItsFrames'
  <2>1. ASSUME NEW u \in Entitled', u # t PROVE u \in Entitled
    <3>1. u \in Undisturbed /\ u \in Thread /\ pc[u] # "idle"
      BY <1>1, <1>2, <2>1 DEF Entitled, Undisturbed
    <3>2. Again(u)' <=> Again(u) BY <1>4, <3>1, AgainStays
    <3>3. QED BY <1>1, <2>1, <3>1, <3>2 DEF Entitled
  <2>2. \A u \in Entitled' : u # t => u \in Thread /\ pc[u] # "idle"
    BY <1>1 DEF Entitled, Undisturbed
  <2>3. \A u \in Thread : pc'[u] \in {"idle", "asked"} => got'[u] = {}
    BY <1>1 DEF CacheParts, ReadsItsFrames
  <2>4. ASSUME NEW u \in Entitled'
        PROVE  /\ pc'[u] = "reading" =>
                    /\ files'[Stamp] = {frames'[u]}
                    /\ todo'[u] \subseteq FilesOf(analysed'[frames'[u]])
                    /\ got'[u] \subseteq {frames'[u]}
                    /\ OfTheRun \ todo'[u] # {} => got'[u] = {frames'[u]}
               /\ pc'[u] = "served" => got'[u] = {frames'[u]}
               /\ pc'[u] # "failed"
    <3>1. CASE u = t BY <1>1, <3>1
    <3>2. CASE u # t
      <4>1. /\ u \in Entitled /\ pc'[u] = pc[u] /\ frames'[u] = frames[u]
            /\ analysed'[frames'[u]] = analysed[frames[u]]
        BY <1>1, <1>4, <2>1, <2>2, <3>2
      <4>2. QED BY <1>1, <4>1 DEF CacheParts, ReadsItsFrames
    <3>3. QED BY <3>1, <3>2
  <2>5. QED BY <2>3, <2>4 DEF ReadsItsFrames
<1>13. QED BY <1>6, <1>7, <1>9, <1>10, <1>11, <1>12 DEF CacheParts

\* What a thread reads off the stamp: it trusts it, or begins a build alone.
LEMMA ReadStampKeeps ==
  ASSUME TypeOK, NamesFramesThereAre, CacheParts, NEW t \in Thread, ReadStamp(t), ~overlapped'
  PROVE  CacheParts'
<1>1. /\ files' = files /\ handle' = handle /\ frames' = frames /\ got' = got
      /\ crossed' = crossed /\ outrun' = outrun /\ analysed' = analysed
      /\ pc[t] = "asked" /\ handle[t] = None
      /\ \A u \in Thread : u # t => pc'[u] = pc[u] /\ todo'[u] = todo[u]
  BY DEF ReadStamp, TypeOK, runVars, CacheParts, OpensItsOwn
<1>2. Settled' = Settled /\ Analysis' = Analysis /\ frames[t] \in Analysis
  BY <1>1, SameAnalyses DEF NamesFramesThereAre, Analysis
<1>3. Undisturbed' = Undisturbed /\ Entitled' = Entitled /\ pc'[t] \notin {"idle", "asked"}
  <2>1. pc'[t] \in {"reading", "writing"} BY DEF ReadStamp, TypeOK
  <2>2. Undisturbed' = Undisturbed BY <1>1, <2>1 DEF Undisturbed
  <2>3. \A u \in Thread : Again(u)' <=> Again(u) BY <1>1, <1>2 DEF Again
  <2>4. Entitled' = Entitled BY <1>1, <2>2, <2>3 DEF Entitled, Undisturbed
  <2>5. QED BY <2>1, <2>2, <2>4
<1>4. OpensItsOwn' BY <1>1 DEF CacheParts, OpensItsOwn
<1>5. StampIsNoNewer' /\ StampVouches' /\ LaterNameMore'
  BY <1>1, <1>2, <1>3 DEF CacheParts, StampIsNoNewer, StampVouches, LaterNameMore
<1>9. ASSUME t \in Entitled =>
               /\ pc'[t] = "reading" =>
                    /\ files[Stamp] = {frames[t]}
                    /\ todo'[t] \subseteq FilesOf(analysed[frames[t]])
                    /\ got[t] \subseteq {frames[t]}
                    /\ OfTheRun \ todo'[t] # {} => got[t] = {frames[t]}
               /\ pc'[t] # "served" /\ pc'[t] # "failed"
      PROVE  ReadsItsFrames'
  <2>1. \A u \in Thread : pc'[u] \in {"idle", "asked"} => got'[u] = {}
    BY <1>1, <1>3 DEF CacheParts, ReadsItsFrames
  <2>2. \A u \in Entitled : u \in Thread BY DEF Entitled, Undisturbed
  <2>3. QED BY <1>1, <1>3, <1>9, <2>1, <2>2 DEF CacheParts, ReadsItsFrames
<1>6. CASE Claims(t)
  <2>1. pc'[t] = "reading" /\ todo'[t] = FilesOf(analysed[frames[t]])
    BY <1>6 DEF ReadStamp, TypeOK
  <2>2. Builders' = Builders /\ t \notin Builders BY <1>1, <2>1 DEF Builders
  <2>3. OneBuilds' /\ WritesItsFrames'
    BY <1>1, <2>2 DEF CacheParts, OneBuilds, WritesItsFrames, Builders
  <2>4. OfTheRun \ todo'[t] = {} BY <2>1, FilesAreFiles
  <2>5. got[t] = {} BY <1>1 DEF CacheParts, ReadsItsFrames
  <2>6. ASSUME t \in Entitled PROVE files[Stamp] = {frames[t]}
    <3>1. PICK n \in Analysis : files[Stamp] = {n} /\ analysed[n] = analysed[frames[t]]
      BY <1>6 DEF Claims
    <3>2. n <= frames[t]
      BY <2>6, <3>1 DEF CacheParts, StampIsNoNewer, Entitled
    <3>3. ~(n < frames[t]) BY <2>6, <3>1 DEF Entitled, Again
    <3>4. n \in Nat /\ frames[t] \in Nat BY <1>2, Numbers
    <3>5. n = frames[t] BY <3>2, <3>3, <3>4
    <3>6. QED BY <3>1, <3>5
  <2>7. ReadsItsFrames' BY <1>9, <2>1, <2>4, <2>5, <2>6
  <2>8. QED BY <1>4, <1>5, <2>3, <2>7 DEF CacheParts
<1>7. CASE ~Claims(t)
  <2>1. /\ pc'[t] = "writing" /\ todo'[t] = FilesOf(analysed[frames[t]]) \cup {Part}
        /\ ~crossed[t] /\ Builders = {}
    BY <1>7 DEF ReadStamp, TypeOK
  <2>2. Builders' = {t} BY <1>1, <2>1 DEF Builders
  <2>3. Writers(Stamp) = {}
    BY <2>1, NamesDiffer DEF CacheParts, OpensItsOwn, Writers, Builders
  <2>4. files[Stamp] # {frames[t]} BY <1>2, <1>7, <2>3 DEF Claims
  <2>5. OneBuilds' BY <1>1, <2>1, <2>2 DEF OneBuilds
  <2>6. WritesItsFrames' BY <1>1, <2>1, <2>2, <2>4 DEF WritesItsFrames
  <2>7. ReadsItsFrames' BY <1>9, <2>1
  <2>8. QED BY <1>4, <1>5, <2>5, <2>6, <2>7 DEF CacheParts
<1>8. QED BY <1>6, <1>7

\* For an entitled reader every file is whole, and of its frames.
LEMMA FilesAreWhole ==
  ASSUME TypeOK, NamesFramesThereAre, CacheParts,
         NEW t \in Entitled, pc[t] = "reading", NEW f \in todo[t]
  PROVE  Whole(f) /\ files[f] = {frames[t]}
<1>1. t \in Thread /\ t \in Undisturbed /\ frames[t] \in Analysis
  BY DEF Entitled, Undisturbed, NamesFramesThereAre, Analysis
<1>3. files[Stamp] = {frames[t]} /\ f \in FilesOf(analysed[frames[t]])
  BY DEF CacheParts, ReadsItsFrames
<1>4. files[f] = {frames[t]} BY <1>1, <1>3 DEF CacheParts, StampVouches
<1>5. ASSUME NEW u \in Writers(f) PROVE FALSE
  <2>1. u \in Thread /\ handle[u] # None
    BY <1>3, <1>5, NamesDiffer DEF Writers
  <2>2. u \in Builders /\ u # t /\ u \in Undisturbed
    BY <2>1 DEF CacheParts, OpensItsOwn, OneBuilds, Builders, Undisturbed
  <2>3. frames[u] <= frames[t] BY <1>1, <2>1, <2>2 DEF CacheParts, LaterNameMore
  <2>4. frames[t] <= frames[u] BY <1>3, <2>2 DEF CacheParts, StampIsNoNewer
  <2>5. frames[t] # frames[u] BY <1>3, <2>2 DEF CacheParts, WritesItsFrames
  <2>6. frames[t] \in Nat /\ frames[u] \in Nat BY <1>1, <2>1, Numbers DEF TypeOK
  <2>7. QED BY <2>3, <2>4, <2>5, <2>6
<1>6. QED BY <1>1, <1>4, <1>5 DEF Whole

\* The reader's own steps, and those that leave the cache.
LEMMA ReaderKeeps ==
  ASSUME TypeOK, NamesFramesThereAre, CacheParts, NEW t \in Thread,
         ReadFile(t) \/ FailToRead(t) \/ Serve(t) \/ Leave(t)
  PROVE  CacheParts'
<1>1. /\ files' = files /\ handle' = handle /\ analysed' = analysed
      /\ pc[t] \in {"reading", "served", "failed"}
      /\ pc'[t] \in {"reading", "served", "failed", "idle"}
      /\ \A u \in Thread : u # t =>
           /\ pc'[u] = pc[u] /\ todo'[u] = todo[u] /\ got'[u] = got[u]
           /\ frames'[u] = frames[u] /\ crossed'[u] = crossed[u] /\ outrun'[u] = outrun[u]
  <2>1. CASE Leave(t)
    <3>1. /\ files' = files /\ handle' = handle /\ analysed' = analysed
          /\ pc[t] \in {"served", "failed"} /\ pc'[t] = "idle"
      BY <2>1 DEF Leave, Forget, runVars
    <3>2. ASSUME NEW u \in Thread, u # t
          PROVE  /\ pc'[u] = pc[u] /\ todo'[u] = todo[u] /\ got'[u] = got[u]
                 /\ frames'[u] = frames[u]
      BY <2>1, <3>2 DEF Leave, Forget
    <3>3. ASSUME NEW u \in Thread, u # t
          PROVE  crossed'[u] = crossed[u] /\ outrun'[u] = outrun[u]
      <4>1. crossed[u] \in BOOLEAN /\ outrun[u] \in BOOLEAN BY DEF TypeOK
      <4>2. /\ crossed'[u] = (u \notin {t} /\ crossed[u])
            /\ outrun'[u] = (u \notin {t} /\ outrun[u])
        BY <2>1 DEF Leave, Forget
      <4>3. u \notin {t} BY <3>3
      <4>4. QED BY <4>1, <4>2, <4>3
    <3>4. QED BY <3>1, <3>2, <3>3
  <2>2. CASE ReadFile(t) \/ FailToRead(t) \/ Serve(t)
    BY <2>2 DEF ReadFile, FailToRead, Serve, TypeOK, runVars
  <2>3. QED BY <2>1, <2>2
<1>2. Settled' = Settled /\ Analysis' = Analysis BY <1>1, SameAnalyses
<1>3. \/ ~Leave(t) /\ frames' = frames /\ crossed' = crossed /\ outrun' = outrun
      \/ Leave(t) /\ pc'[t] = "idle" /\ got'[t] = {}
  BY DEF ReadFile, FailToRead, Serve, Leave, Forget, TypeOK
<1>4. Builders' = Builders /\ t \notin Builders /\ handle[t] = None
  BY <1>1 DEF Builders, CacheParts, OpensItsOwn
<1>5. Undisturbed' \subseteq Undisturbed
      /\ \A u \in Undisturbed' : u \in Thread /\ frames'[u] = frames[u]
  BY <1>1, <1>3 DEF Undisturbed
<1>6. \A u \in Builders : u \in Thread /\ u # t BY <1>4 DEF Builders
<1>7. OneBuilds' /\ WritesItsFrames'
  BY <1>1, <1>4, <1>6 DEF CacheParts, OneBuilds, WritesItsFrames
<1>8. OpensItsOwn' BY <1>1, <1>4 DEF CacheParts, OpensItsOwn
<1>9. StampIsNoNewer' /\ StampVouches'
  BY <1>1, <1>2, <1>5 DEF CacheParts, StampIsNoNewer, StampVouches
<1>10. LaterNameMore' BY <1>1, <1>4, <1>5 DEF CacheParts, LaterNameMore
<1>11. Entitled' \subseteq Entitled
  <2> SUFFICES ASSUME NEW u \in Entitled' PROVE u \in Entitled
    OBVIOUS
  <2>1. u \in Undisturbed' /\ u \in Thread /\ ~outrun'[u] /\ ~Again(u)'
    BY DEF Entitled, Undisturbed
  <2>2. u \in Undisturbed /\ frames'[u] = frames[u] BY <1>5, <2>1
  <2>3. outrun'[u] = outrun[u] BY <1>1, <1>3, <2>1 DEF Undisturbed
  <2>4. Again(u)' <=> Again(u) BY <1>1, <1>2, <2>2 DEF Again
  <2>5. QED BY <2>1, <2>2, <2>3, <2>4 DEF Entitled
<1>12. ASSUME t \in Entitled'
       PROVE  /\ pc'[t] = "reading" =>
                   /\ files[Stamp] = {frames[t]}
                   /\ todo'[t] \subseteq FilesOf(analysed[frames[t]])
                   /\ got'[t] \subseteq {frames[t]}
                   /\ OfTheRun \ todo'[t] # {} => got'[t] = {frames[t]}
              /\ pc'[t] = "served" => got'[t] = {frames[t]}
              /\ pc'[t] # "failed"
  <2>1. t \in Entitled BY <1>11, <1>12
  <2>2. CASE ReadFile(t)
    <3>1. PICK f \in NextOf(todo[t]) : /\ got' = [got EXCEPT ![t] = @ \cup files[f]]
                                       /\ todo' = [todo EXCEPT ![t] = @ \ {f}]
      BY <2>2 DEF ReadFile
    <3>2. pc[t] = "reading" /\ pc' = pc /\ f \in todo[t] BY <2>2, <3>1 DEF ReadFile, NextOf
    <3>3. files[f] = {frames[t]} BY <2>1, <3>2, FilesAreWhole
    <3>4. got'[t] = got[t] \cup {frames[t]} /\ todo'[t] = todo[t] \ {f}
      BY <3>1, <3>3 DEF TypeOK
    <3>5. QED BY <2>1, <3>2, <3>4 DEF CacheParts, ReadsItsFrames
  <2>3. CASE FailToRead(t)
    <3>1. PICK f \in todo[t] : ~Whole(f) BY <2>3 DEF FailToRead, NextOf
    <3>2. pc[t] = "reading" BY <2>3 DEF FailToRead
    <3>3. QED BY <2>1, <3>1, <3>2, FilesAreWhole
  <2>4. CASE Serve(t)
    <3>1. /\ pc[t] = "reading" /\ pc'[t] = "served" /\ got'[t] = got[t]
          /\ todo[t] \cap OfTheRun = {}
      BY <2>4 DEF Serve, TypeOK
    <3>2. OfTheRun \ todo[t] # {} BY <3>1, FilesAreFiles
    <3>3. QED BY <2>1, <3>1, <3>2 DEF CacheParts, ReadsItsFrames
  <2>5. CASE Leave(t)
    BY <2>5, <1>12 DEF Leave, Forget, TypeOK, Entitled, Undisturbed
  <2>6. QED BY <2>2, <2>3, <2>4, <2>5
<1>13. \A u \in Thread : pc'[u] \in {"idle", "asked"} => got'[u] = {}
  <2>1. ~Leave(t) => pc'[t] \notin {"idle", "asked"}
    BY DEF ReadFile, FailToRead, Serve, TypeOK
  <2>2. QED BY <1>1, <1>3, <2>1 DEF CacheParts, ReadsItsFrames
<1>14. \A u \in Entitled' : u \in Entitled /\ u \in Thread /\ frames'[u] = frames[u]
  BY <1>5, <1>11 DEF Entitled
<1>15. ReadsItsFrames'
  BY <1>1, <1>12, <1>13, <1>14 DEF CacheParts, ReadsItsFrames
<1>16. QED BY <1>7, <1>8, <1>9, <1>10, <1>15 DEF CacheParts

\* A write disturbs everyone else who is at the cache.
LEMMA WriteDisturbs ==
  ASSUME TypeOK, NEW t \in Thread, Cross(t), pc[t] # "idle",
         \A u \in Thread : u # t => pc'[u] = pc[u]
  PROVE  /\ crossed'[t] = crossed[t]
         /\ \A u \in Undisturbed' : u = t
BY DEF Cross, TypeOK, Undisturbed

\* A build opens a file: the stamp is of older frames than the build's, and
\* whoever it could mislead is disturbed.
LEMMA OpenKeeps ==
  ASSUME TypeOK, NamesFramesThereAre, CacheParts, NEW t \in Thread, OpenFile(t)
  PROVE  CacheParts'
<1>1. /\ pc[t] = "writing" /\ handle[t] = None /\ pc' = pc /\ frames' = frames
      /\ got' = got /\ analysed' = analysed /\ Settled' = Settled /\ Analysis' = Analysis
  BY SameAnalyses DEF OpenFile, runVars
<1>2. t \in Builders /\ Builders' = Builders /\ \A u \in Builders : u = t
  BY <1>1 DEF Builders, CacheParts, OneBuilds
<1>3. ~crossed[t] /\ t \in Undisturbed
  BY <1>1, <1>2 DEF CacheParts, OneBuilds, Undisturbed
<1>4. ~crossed'[t] /\ \A u \in Undisturbed' : u = t
  BY <1>1, <1>3, WriteDisturbs DEF OpenFile
<1>5. \A u \in Thread : handle[u] = None
  BY <1>1, <1>2 DEF CacheParts, OpensItsOwn, Builders
<1>6. frames[t] \in Nat /\ frames[t] <= Settled /\ Settled \in Nat
  BY <1>1, Numbers DEF NamesFramesThereAre
<1>7. PICK f \in NextOf(todo[t]) :
        /\ handle' = [handle EXCEPT ![t] = f]
        /\ todo' = [todo EXCEPT ![t] = @ \ {f}]
        /\ files' = [files EXCEPT ![f] =
                       IF Writers(f) = {} THEN {frames[t]} ELSE @ \cup {frames[t]}]
  BY DEF OpenFile
<1>8. /\ f \in todo[t] /\ f \in FilesOf(analysed[frames[t]]) \cup {Part} /\ f \in File
      /\ f = Part => todo[t] = {Part}
  BY <1>2, <1>7, PartIsLast DEF CacheParts, WritesItsFrames, TypeOK
<1>9. f \notin {Stamp, None, Unlinked} /\ Part \notin FilesOf(analysed[frames[t]])
  BY <1>6, <1>8, NamesDiffer
<1>10. Writers(f) = {} BY <1>5, <1>9 DEF Writers
<1>11. /\ handle'[t] = f /\ todo'[t] = todo[t] \ {f} /\ files'[f] = {frames[t]}
       /\ \A g \in File : g # f => files'[g] = files[g]
       /\ \A u \in Thread : u # t => handle'[u] = None
  BY <1>5, <1>7, <1>8, <1>10 DEF TypeOK
<1>12. files'[Stamp] = files[Stamp] BY <1>9, <1>11, FilesAreFiles
<1>13. OneBuilds' BY <1>2, <1>4 DEF OneBuilds
<1>14. OpensItsOwn' BY <1>1, <1>8, <1>11 DEF OpensItsOwn
<1>15. WritesItsFrames'
  <2>1. /\ todo[t] \subseteq FilesOf(analysed[frames[t]]) \cup {Part}
        /\ \A g \in FilesOf(analysed[frames[t]]) : g \notin todo[t] => files[g] = {frames[t]}
        /\ files[Stamp] # {frames[t]}
        /\ Part \notin todo[t] => todo[t] = {}
    BY <1>2 DEF CacheParts, WritesItsFrames
  <2>2. \A g \in FilesOf(analysed[frames[t]]) : g \in File
    BY FilesAreFiles
  <2>3. \A g \in FilesOf(analysed[frames[t]]) : g \notin todo'[t] => files'[g] = {frames[t]}
    BY <1>11, <2>1, <2>2
  <2>4. Part \notin todo'[t] => todo'[t] = {} /\ files'[Part] = {frames[t]}
    BY <1>8, <1>11, <2>1
  <2>5. QED BY <1>1, <1>2, <1>11, <1>12, <2>1, <2>3, <2>4 DEF WritesItsFrames
<1>16. StampIsNoNewer'
  BY <1>1, <1>3, <1>4, <1>12 DEF CacheParts, StampIsNoNewer
<1>17. StampVouches'
  <2> SUFFICES ASSUME NEW k \in Analysis, files[Stamp] = {k}
               PROVE  k < Settled /\ frames[t] # k
    BY <1>1, <1>4, <1>12 DEF StampVouches
  <2>1. k <= frames[t] /\ k # frames[t]
    BY <1>2, <1>3 DEF CacheParts, StampIsNoNewer, WritesItsFrames
  <2>2. k \in Nat BY Numbers
  <2>3. QED BY <1>6, <2>1, <2>2
<1>18. LaterNameMore' BY <1>4, <1>11 DEF LaterNameMore
<1>19. ReadsItsFrames'
  <2>1. \A u \in Entitled' : u = t BY <1>4 DEF Entitled
  <2>2. QED BY <1>1, <2>1 DEF CacheParts, ReadsItsFrames
<1>20. QED BY <1>13, <1>14, <1>15, <1>16, <1>17, <1>18, <1>19 DEF CacheParts

\* A build closes the file it has open; the part is the last.
LEMMA CloseKeeps ==
  ASSUME TypeOK, NamesFramesThereAre, CacheParts, NEW t \in Thread, CloseFile(t)
  PROVE  CacheParts'
<1>1. /\ files' = files /\ frames' = frames /\ todo' = todo /\ got' = got
      /\ crossed' = crossed /\ outrun' = outrun
      /\ analysed' = analysed /\ Settled' = Settled /\ Analysis' = Analysis
      /\ pc[t] = "writing" /\ handle[t] # None /\ handle'[t] = None
      /\ pc'[t] = IF handle[t] \in {Part, Stamp, Unlinked} THEN "renaming" ELSE "writing"
      /\ \A u \in Thread : u # t => pc'[u] = pc[u] /\ handle'[u] = handle[u]
  BY SameAnalyses DEF CloseFile, TypeOK, runVars
<1>2. Builders' = Builders /\ t \in Builders BY <1>1 DEF Builders
<1>3. Undisturbed' = Undisturbed BY <1>1 DEF Undisturbed
<1>4. \A u \in Thread : Again(u)' <=> Again(u) BY <1>1 DEF Again
<1>5. handle[t] \in (FilesOf(analysed[frames[t]]) \cup {Part}) \ todo[t]
  BY <1>1 DEF CacheParts, OpensItsOwn
<1>6. pc'[t] = "renaming" => Part \notin todo[t]
  BY <1>1, <1>4, <1>5, NamesDiffer
<1>7. OneBuilds' BY <1>1, <1>2 DEF CacheParts, OneBuilds
<1>8. OpensItsOwn' BY <1>1 DEF CacheParts, OpensItsOwn
<1>9. WritesItsFrames'
  BY <1>1, <1>2, <1>6 DEF CacheParts, WritesItsFrames, Builders
<1>10. StampIsNoNewer' /\ StampVouches'
  BY <1>1, <1>3 DEF CacheParts, StampIsNoNewer, StampVouches
<1>11. LaterNameMore' BY <1>1, <1>3 DEF CacheParts, LaterNameMore
<1>12. ReadsItsFrames'
  <2>1. Entitled' = Entitled BY <1>1, <1>3, <1>4 DEF Entitled, Undisturbed
  <2>2. \A u \in Entitled : u \in Thread BY DEF Entitled, Undisturbed
  <2>3. /\ pc'[t] \in {"writing", "renaming"}
        /\ \A u \in Thread : u # t => pc'[u] = pc[u]
    BY <1>1
  <2>4. QED BY <1>1, <2>1, <2>2, <2>3 DEF CacheParts, ReadsItsFrames
<1>13. QED BY <1>7, <1>8, <1>9, <1>10, <1>11, <1>12 DEF CacheParts

\* The part becomes the stamp: it vouches for what this build has written.
LEMMA PublishKeeps ==
  ASSUME TypeOK, NamesFramesThereAre, CacheParts, NEW t \in Thread, Publish(t)
  PROVE  CacheParts'
<1>1. /\ pc[t] = "renaming" /\ frames' = frames /\ todo' = todo /\ outrun' = outrun
      /\ analysed' = analysed /\ Settled' = Settled /\ Analysis' = Analysis
  BY SameAnalyses DEF Publish, runVars
<1>2. t \in Builders /\ \A u \in Builders : u = t
  BY <1>1 DEF Builders, CacheParts, OneBuilds
<1>3. ~crossed[t] /\ t \in Undisturbed
  BY <1>1, <1>2 DEF CacheParts, OneBuilds, Undisturbed
<1>4. /\ Part \notin todo[t] /\ todo[t] = {} /\ files[Part] = {frames[t]}
      /\ \A f \in FilesOf(analysed[frames[t]]) : files[f] = {frames[t]}
  BY <1>1, <1>2 DEF CacheParts, WritesItsFrames
<1>5. \A u \in Thread : handle[u] = None
  BY <1>1, <1>2 DEF CacheParts, OpensItsOwn, WritesItsFrames, Builders
<1>6. /\ pc'[t] = "served" /\ (~outrun[t] => got'[t] = {frames[t]})
      /\ \A u \in Thread : u # t => pc'[u] = pc[u] /\ got'[u] = got[u]
  BY <1>4 DEF Publish, TypeOK
<1>7. \A u \in Thread : handle'[u] = None
  BY <1>5, NamesDiffer DEF Publish
<1>8. ~crossed'[t] /\ \A u \in Undisturbed' : u = t
  BY <1>1, <1>3, <1>6, WriteDisturbs DEF Publish
<1>9. Builders' = {} BY <1>2, <1>6 DEF Builders
<1>10. frames[t] \in 1..Settled BY <1>1 DEF NamesFramesThereAre
<1>11. frames[t] \in Nat /\ Settled \in Nat /\ frames[t] <= Settled
  BY <1>10, Numbers
<1>12. /\ files'[Stamp] = {frames[t]}
       /\ \A f \in File : f \notin {Stamp, Part} => files'[f] = files[f]
  BY <1>4, FilesAreFiles, NamesDiffer DEF Publish, TypeOK
<1>13. \A f \in FilesOf(analysed[frames[t]]) : files'[f] = {frames[t]}
  <2>1. \A f \in FilesOf(analysed[frames[t]]) : f \in File /\ f \notin {Stamp, Part}
    BY FilesAreFiles, NamesDiffer
  <2>2. QED BY <1>4, <1>12, <2>1
<1>14. OneBuilds' /\ OpensItsOwn' /\ WritesItsFrames' /\ LaterNameMore'
  BY <1>7, <1>9 DEF OneBuilds, OpensItsOwn, WritesItsFrames, LaterNameMore
<1>15. StampIsNoNewer' BY <1>1, <1>8, <1>11, <1>12 DEF StampIsNoNewer
<1>16. StampVouches' BY <1>1, <1>12, <1>13 DEF StampVouches
<1>17. ReadsItsFrames'
  <2>1. \A u \in Entitled' : u = t /\ ~outrun[u] BY <1>1, <1>8 DEF Entitled
  <2>2. \A u \in Thread : pc'[u] \in {"idle", "asked"} => got'[u] = {}
    BY <1>6 DEF CacheParts, ReadsItsFrames
  <2>3. QED BY <1>1, <1>6, <2>1, <2>2 DEF ReadsItsFrames
<1>18. QED BY <1>14, <1>15, <1>16, <1>17 DEF CacheParts

\* A lone build's part is never renamed away.
LEMMA PartIsThere ==
  ASSUME CacheParts, NEW t \in Thread PROVE ~FailToPublish(t)
BY DEF CacheParts, WritesItsFrames, FailToPublish, Builders

-----------------------------------------------------------------------------
(* The theorems.                                                           *)

\* Every step keeps the invariant.
LEMMA NextHolds == CacheInv /\ [Next]_vars => CacheInv'
<1> SUFFICES ASSUME CacheInv, [Next]_vars PROVE CacheInv'
  OBVIOUS
<1>1. TypeOK' /\ NamesFramesThereAre' BY NextTyped, NextNames DEF CacheInv
<1>2. ASSUME ~overlapped' PROVE CacheParts'
  <2>1. ~overlapped
    BY <1>2 DEF Next, vars, RecordFrame, Resume, Rerun, Crash, Settle, Ask, TurnToCache,
                ReadStamp, ReadFile, FailToRead, Serve, Leave, OpenFile, CloseFile, Publish, FailToPublish
  <2>2. TypeOK /\ NamesFramesThereAre /\ CacheParts BY <2>1 DEF CacheInv
  <2>3. CASE RecordFrame \/ Resume \/ Rerun BY <2>2, <2>3, RunKeeps
  <2>4. CASE Crash BY <2>2, <2>4, CrashKeeps
  <2>5. ASSUME NEW t \in Thread, Settle(t) PROVE CacheParts'
    <3>1. TurnToCache(t, Settled') /\ Analyse BY <2>5 DEF Settle, Settled
    <3>2. QED BY <2>2, <3>1, TurnKeeps, MoreAnalyses
  <2>13. ASSUME NEW t \in Thread, Ask(t) PROVE CacheParts'
    <3>1. analysed' = analysed /\ Settled' = Settled /\ Analysis' = Analysis
      BY <2>13, SameAnalyses DEF Ask, runVars
    <3>2. TurnToCache(t, Settled') BY <2>13, <3>1 DEF Ask
    <3>3. Settled' \in Nat /\ Settled <= Settled' BY <2>2, <3>1, Numbers
    <3>4. QED BY <2>2, <3>1, <3>2, <3>3, TurnKeeps
  <2>6. ASSUME NEW t \in Thread, ReadStamp(t) PROVE CacheParts'
    BY <1>2, <2>2, <2>6, ReadStampKeeps
  <2>7. ASSUME NEW t \in Thread, ReadFile(t) \/ FailToRead(t) \/ Serve(t) \/ Leave(t)
        PROVE CacheParts'
    BY <2>2, <2>7, ReaderKeeps
  <2>8. ASSUME NEW t \in Thread, OpenFile(t) PROVE CacheParts'
    BY <2>2, <2>8, OpenKeeps
  <2>9. ASSUME NEW t \in Thread, CloseFile(t) PROVE CacheParts'
    BY <2>2, <2>9, CloseKeeps
  <2>10. ASSUME NEW t \in Thread, Publish(t) \/ FailToPublish(t) PROVE CacheParts'
    BY <2>2, <2>10, PublishKeeps, PartIsThere
  <2>11. CASE UNCHANGED vars
    <3>1. /\ Settled' = Settled /\ Analysis' = Analysis /\ analysed' = analysed
          /\ Undisturbed' = Undisturbed /\ Builders' = Builders
          /\ \A t \in Thread : Again(t)' <=> Again(t)
      BY <2>11, SameAnalyses DEF vars, Undisturbed, Builders, Again
    <3>2. Entitled' = Entitled BY <2>11, <3>1 DEF vars, Entitled, Undisturbed
    <3>3. QED
      BY <2>2, <2>11, <3>1, <3>2
      DEF vars, CacheParts, OneBuilds, OpensItsOwn, WritesItsFrames, StampIsNoNewer,
          StampVouches, LaterNameMore, ReadsItsFrames
  <2>12. QED BY <2>3, <2>4, <2>5, <2>6, <2>7, <2>8, <2>9, <2>10, <2>11, <2>13 DEF Next
<1>3. QED BY <1>1, <1>2 DEF CacheInv

\* The invariant holds of every behaviour.
LEMMA CacheInvHolds == Spec => []CacheInv
<1>1. Init => CacheInv BY InitHolds
<1>2. CacheInv /\ [Next]_vars => CacheInv' BY NextHolds
<1>3. QED BY <1>1, <1>2, PTL DEF Spec

\* Every variable of the cache keeps its type.
THEOREM TypeCorrect == Spec => []TypeOK
<1>1. CacheInv => TypeOK BY DEF CacheInv
<1>2. QED BY <1>1, CacheInvHolds, PTL

\* For any number of threads, stages, rows and files: a page no build wrote across
\* is given the branches of exactly the frames its manifest names and never an error,
\* whatever was cut short by kills, lost, made again or left by a resume: unless two
\* builds met, the frames were made again under its own build, or its manifest was
\* settled on the numbers of rows of an earlier one, which a stamp cannot tell apart.
THEOREM PagesGetTheirRuns == Spec => []PagesGetTheRunsBranches
<1>1. CacheInv => PagesGetTheRunsBranches
  <2> SUFFICES ASSUME CacheInv, NEW t \in Thread, ~crossed[t], ~outrun[t], ~overlapped,
                      ~Again(t)
               PROVE  pc[t] # "failed" /\ (pc[t] = "served" => got[t] = {frames[t]})
    BY DEF PagesGetTheRunsBranches
  <2>1. CASE pc[t] = "idle" BY <2>1
  <2>2. CASE pc[t] # "idle"
    <3>1. t \in Entitled BY <2>2 DEF Entitled, Undisturbed
    <3>2. QED BY <3>1 DEF CacheInv, CacheParts, ReadsItsFrames
  <2>3. QED BY <2>1, <2>2
<1>2. QED BY <1>1, CacheInvHolds, PTL

-----------------------------------------------------------------------------
(***************************************************************************)
(* Builds of one settlement that meet.                                     *)
(***************************************************************************)

\* Before its first settlement a run has no cache, and nobody turns to it.
NothingBefore ==
  going => /\ \A t \in Thread : pc[t] = "idle"
           /\ \A f \in File : files[f] = {}

\* After it there is one analysis, of all its frames, for every thread and file.
OneAnalysis ==
  /\ \A t \in Thread : pc[t] # "idle" => frames[t] = Settled
  /\ \A f \in File : files[f] \subseteq {Settled}

\* A build has written what it has not still to write, whoever rewrites it; and
\* where there is a part or a stamp, some build had written everything.
WrittenForGood ==
  /\ \A t \in Builders : todo[t] \subseteq FilesOf(analysed[Settled]) \cup {Part}
  /\ \A t \in Builders : \A f \in FilesOf(analysed[Settled]) : f \notin todo[t] => files[f] # {}
  /\ files[Part] # {} \/ files[Stamp] # {} => \A f \in FilesOf(analysed[Settled]) : files[f] # {}

QuietParts == NothingBefore /\ OneAnalysis /\ WrittenForGood

QuietInv == crashes = 0 /\ ~resumed => QuietParts

\* Opening a file leaves the bytes of the one analysis there is.
LEMMA OpenKeepsQuiet ==
  ASSUME TypeOK, QuietParts, NEW t \in Thread, OpenFile(t)
  PROVE  QuietParts'
<1>1. /\ pc[t] = "writing" /\ frames[t] = Settled /\ ~going
      /\ UNCHANGED <<analysed, Settled, going, pc, frames>>
  BY SameAnalyses DEF OpenFile, QuietParts, OneAnalysis, NothingBefore, runVars
<1>2. PICK f \in NextOf(todo[t]) :
        /\ todo' = [todo EXCEPT ![t] = @ \ {f}]
        /\ files' = [files EXCEPT ![f] =
                       IF Writers(f) = {} THEN {frames[t]} ELSE @ \cup {frames[t]}]
  BY DEF OpenFile
<1>3. f \in todo[t] /\ f \in File /\ (f = Part => todo[t] = {Part})
  BY <1>2, PartIsLast DEF TypeOK
<1>4. files'[f] = {Settled} /\ \A g \in File \ {f} : files'[g] = files[g]
  BY <1>1, <1>2, <1>3 DEF TypeOK, QuietParts, OneAnalysis
<1>5. todo'[t] = todo[t] \ {f} /\ \A u \in Thread \ {t} : todo'[u] = todo[u]
  BY <1>2 DEF TypeOK
<1>6. Part \in File /\ Stamp \in File
      /\ FilesOf(analysed[Settled]) \subseteq File /\ Part \notin FilesOf(analysed[Settled]) /\ Stamp # Part
  BY FilesAreFiles, NamesDiffer
<1>7. OneAnalysis'
  BY <1>1, <1>4 DEF QuietParts, OneAnalysis
<1>8. f \in FilesOf(analysed[Settled]) \cup {Part}
  BY <1>1, <1>3 DEF QuietParts, WrittenForGood, Builders
<1>9. ASSUME NEW u \in Builders' PROVE todo'[u] \subseteq FilesOf(analysed'[Settled']) \cup {Part}
  BY <1>1, <1>5, <1>9 DEF QuietParts, WrittenForGood, Builders
<1>10. ASSUME NEW u \in Builders', NEW g \in FilesOf(analysed[Settled]), g \notin todo'[u]
       PROVE  files'[g] # {}
  BY <1>1, <1>4, <1>5, <1>6, <1>10 DEF QuietParts, WrittenForGood, Builders
<1>11. ASSUME files'[Part] # {} \/ files'[Stamp] # {}, NEW g \in FilesOf(analysed[Settled])
       PROVE  files'[g] # {}
  <2>1. CASE f = Part
    <3>1. t \in Builders /\ g \notin todo[t] BY <1>1, <1>3, <1>6, <2>1 DEF Builders
    <3>2. QED BY <1>4, <1>6, <2>1, <3>1 DEF QuietParts, WrittenForGood
  <2>2. CASE f # Part
    <3>1. f # Stamp BY <1>6, <1>8, <2>2, NamesDiffer
    <3>2. files[g] # {} BY <1>4, <1>6, <1>11, <2>2, <3>1 DEF QuietParts, WrittenForGood
    <3>3. QED BY <1>4, <1>6, <3>2
  <2>3. QED BY <2>1, <2>2
<1>12. WrittenForGood' BY <1>1, <1>9, <1>10, <1>11 DEF WrittenForGood
<1>13. QED BY <1>1, <1>7, <1>12 DEF QuietParts, NothingBefore

\* The part that becomes the stamp was written by a build that had written all.
LEMMA PublishKeepsQuiet ==
  ASSUME TypeOK, QuietParts, NEW t \in Thread, Publish(t)
  PROVE  QuietParts'
<1>1. /\ pc[t] = "renaming" /\ frames[t] = Settled /\ ~going
      /\ UNCHANGED <<analysed, Settled, going, frames, todo>>
      /\ pc'[t] \in {"served", "writing"} /\ \A u \in Thread \ {t} : pc'[u] = pc[u]
  BY SameAnalyses DEF Publish, QuietParts, OneAnalysis, NothingBefore, runVars, TypeOK
<1>2. /\ Part \in File /\ Stamp \in File /\ Stamp # Part
      /\ FilesOf(analysed[Settled]) \subseteq File \ {Part, Stamp}
  BY FilesAreFiles, NamesDiffer
<1>3. /\ files[Part] # {} /\ files'[Stamp] = files[Part] /\ files'[Part] = {}
      /\ \A f \in File \ {Part, Stamp} : files'[f] = files[f]
  BY <1>2 DEF Publish, TypeOK
<1>4. \A u \in Builders' : u \in Builders
  BY <1>1 DEF Builders
<1>5. OneAnalysis'
  BY <1>1, <1>2, <1>3 DEF QuietParts, OneAnalysis
<1>6. WrittenForGood'
  BY <1>1, <1>2, <1>3, <1>4 DEF QuietParts, WrittenForGood
<1>7. QED BY <1>1, <1>5, <1>6 DEF QuietParts, NothingBefore

\* Every step keeps the invariant: a thread turns to the cache with all the
\* frames there are, and no more come.
LEMMA NextKeepsQuiet ==
  ASSUME TypeOK, QuietInv, [Next]_vars
  PROVE  QuietInv'
<1> SUFFICES ASSUME crashes' = 0, ~resumed' PROVE QuietParts'
  BY DEF QuietInv
<1>11. crashes = 0 /\ ~Crash
  <2>1. crashes \in Nat BY CacheConstants DEF TypeOK
  <2>2. ~Crash BY <2>1 DEF Crash
  <2>3. crashes' = crashes
    BY <2>2
    DEF Next, vars, RecordFrame, Resume, Rerun, Settle, Ask, TurnToCache, ReadStamp, ReadFile,
        FailToRead, Serve, Leave, OpenFile, CloseFile, Publish, FailToPublish
  <2>4. QED BY <2>2, <2>3
<1>12. resumed' = resumed /\ ~Resume
  BY DEF Next, vars, runVars, RecordFrame, Resume, Rerun, Crash, Settle, Ask, ReadStamp,
         ReadFile, FailToRead, Serve, Leave, OpenFile, CloseFile, Publish, FailToPublish
<1>1. crashes = 0 /\ ~resumed /\ ~Crash /\ ~Resume /\ ~Rerun BY <1>11, <1>12 DEF Rerun
<1>2. QuietParts BY <1>1 DEF QuietInv
<1>3. CASE RecordFrame
  <2>1. /\ going /\ \A t \in Thread : pc[t] = "idle"
        /\ \A f \in File : files[f] = {}
        /\ UNCHANGED <<going, pc, files>>
    BY <1>2, <1>3 DEF RecordFrame, QuietParts, NothingBefore, threadVars
  <2>2. Part \in File /\ Stamp \in File BY FilesAreFiles
  <2>3. QED BY <2>1, <2>2 DEF QuietParts, NothingBefore, OneAnalysis, WrittenForGood, Builders
<1>10. ASSUME NEW t \in Thread, Settle(t) PROVE QuietParts'
  <2>1. /\ \A u \in Thread : pc[u] = "idle"
        /\ \A f \in File : files[f] = {}
    BY <1>2, <1>10 DEF Settle, QuietParts, NothingBefore
  <2>2. /\ files' = files /\ ~going' /\ frames'[t] = Settled' /\ pc'[t] = "asked"
        /\ \A u \in Thread \ {t} : pc'[u] = pc[u]
    BY <1>10 DEF Settle, TurnToCache, TypeOK, Settled
  <2>3. Builders' = {} BY <2>1, <2>2 DEF Builders
  <2>4. Part \in File /\ Stamp \in File BY FilesAreFiles
  <2>5. QED
    BY <2>1, <2>2, <2>3, <2>4 DEF QuietParts, NothingBefore, OneAnalysis, WrittenForGood
<1>4. ASSUME NEW t \in Thread, Ask(t) PROVE QuietParts'
  <2>1. /\ UNCHANGED <<analysed, Settled, files, todo>> /\ ~going'
        /\ pc'[t] = "asked" /\ frames'[t] = Settled
        /\ \A u \in Thread \ {t} : pc'[u] = pc[u] /\ frames'[u] = frames[u]
    BY <1>4, SameAnalyses DEF Ask, TurnToCache, runVars, TypeOK
  <2>2. \A u \in Builders' : u \in Builders BY <2>1 DEF Builders
  <2>3. QED BY <1>2, <2>1, <2>2 DEF QuietParts, NothingBefore, OneAnalysis, WrittenForGood
<1>5. ASSUME NEW t \in Thread, ReadStamp(t) PROVE QuietParts'
  <2>1. /\ UNCHANGED <<analysed, Settled, going, files, frames>> /\ ~going /\ frames[t] = Settled
        /\ \A u \in Thread \ {t} : pc'[u] = pc[u] /\ todo'[u] = todo[u]
        /\ pc'[t] = "reading" \/ todo'[t] = FilesOf(analysed[Settled]) \cup {Part}
    BY <1>2, <1>5, SameAnalyses
    DEF ReadStamp, runVars, TypeOK, QuietParts, NothingBefore, OneAnalysis
  <2>2. \A u \in Thread : pc'[u] # "idle" => pc[u] # "idle"
    BY <1>5, <2>1 DEF ReadStamp
  <2>3. WrittenForGood'
    <3>1. ASSUME NEW u \in Builders', u # t PROVE u \in Builders /\ todo'[u] = todo[u]
      BY <2>1, <3>1 DEF Builders
    <3>2. t \in Builders' => todo'[t] = FilesOf(analysed[Settled]) \cup {Part}
      BY <2>1 DEF Builders
    <3>3. \A u \in Builders' : todo'[u] \subseteq FilesOf(analysed'[Settled']) \cup {Part}
      BY <1>2, <2>1, <3>1, <3>2 DEF QuietParts, WrittenForGood
    <3>4. \A u \in Builders' : \A f \in FilesOf(analysed'[Settled']) : f \notin todo'[u] => files'[f] # {}
      BY <1>2, <2>1, <3>1, <3>2 DEF QuietParts, WrittenForGood
    <3>5. QED BY <1>2, <2>1, <3>3, <3>4 DEF QuietParts, WrittenForGood
  <2>4. QED BY <1>2, <2>1, <2>2, <2>3 DEF QuietParts, NothingBefore, OneAnalysis
<1>6. ASSUME NEW t \in Thread,
             ReadFile(t) \/ FailToRead(t) \/ Serve(t) \/ Leave(t) \/ CloseFile(t) \/ FailToPublish(t)
      PROVE  QuietParts'
  <2>1. /\ UNCHANGED <<analysed, Settled, going, files>> /\ ~going
        /\ \A u \in Builders' : u \in Builders /\ todo'[u] = todo[u]
        /\ \A u \in Thread : pc'[u] # "idle" => pc[u] # "idle" /\ frames'[u] = frames[u]
    BY <1>2, <1>6, SameAnalyses
    DEF ReadFile, FailToRead, Serve, Leave, Forget, CloseFile, FailToPublish, runVars, TypeOK,
        QuietParts, NothingBefore, Builders
  <2>2. QED BY <1>2, <2>1 DEF QuietParts, NothingBefore, OneAnalysis, WrittenForGood
<1>7. ASSUME NEW t \in Thread, OpenFile(t) \/ Publish(t) PROVE QuietParts'
  BY <1>2, <1>7, OpenKeepsQuiet, PublishKeepsQuiet
<1>8. CASE UNCHANGED vars
  BY <1>2, <1>8, SameAnalyses
  DEF vars, QuietParts, NothingBefore, OneAnalysis, WrittenForGood, Builders
<1>9. QED BY <1>1, <1>3, <1>4, <1>5, <1>6, <1>7, <1>8, <1>10 DEF Next

\* For any number of threads, frames and files: whichever builds of one
\* settlement meet, a stamp vouches for whole files, as long as the run is not
\* resumed and nothing is killed.
THEOREM QuietCachesAreWhole == Spec => []QuietCacheIsWhole
<1>1. Init => QuietInv
  <2>1. Part \in File /\ Stamp \in File BY FilesAreFiles
  <2>2. QED BY <2>1 DEF Init, QuietInv, QuietParts, NothingBefore, OneAnalysis, WrittenForGood,
                        Builders
<1>2. TypeOK /\ QuietInv /\ [Next]_vars => QuietInv' BY NextKeepsQuiet
<1>3. TypeOK /\ QuietInv => QuietCacheIsWhole
  <2> SUFFICES ASSUME TypeOK, QuietParts, NEW n \in Analysis, files[Stamp] = {n},
                      NEW f \in FilesOf(analysed[n])
               PROVE  files[f] = {n}
    BY DEF QuietInv, QuietCacheIsWhole
  <2>1. n = Settled BY FilesAreFiles DEF QuietParts, OneAnalysis
  <2>2. f \in File BY FilesAreFiles
  <2>3. QED BY <2>1, <2>2 DEF QuietParts, OneAnalysis, WrittenForGood
<1>4. QED BY <1>1, <1>2, <1>3, TypeCorrect, PTL DEF Spec

-----------------------------------------------------------------------------
(***************************************************************************)
(* The files of a workspace.                                               *)
(***************************************************************************)

\* Who is at a file.
At(f) == {t \in RequestThread : request[t] # Idle /\ request[t].file = f}

\* A file that was never minted is of no record and of no request.
MintedBeforeUse ==
  \A f \in FileId : weight[f] = 0 => records[f] = Unrecorded /\ f \notin revived /\ At(f) = {}

\* An upload has its file to itself, and records it once its bytes are in place.
UploadsAlone ==
  \A t \in RequestThread, f \in FileId :
    request[t].at \in {"staged", "weighed", "placed"} /\ request[t].file = f =>
      /\ records[f] = Unrecorded /\ f \notin revived
      /\ At(f) = {t}
      /\ request[t].at = "placed" => f \in stored

\* Bytes are unlinked of what has no record, or one that came back.
UnlinksTheUnrecorded ==
  \A t \in RequestThread : request[t].at = "unlinking" =>
    records[request[t].file] = Unrecorded \/ request[t].file \in revived

FilesInv ==
  /\ FilesTypeOK
  /\ MintedBeforeUse /\ UploadsAlone /\ UnlinksTheUnrecorded
  /\ RecordsHaveBytes

\* What it is to be idle, or at a step.
LEMMA RequestsAreTyped ==
  ASSUME FilesTypeOK, NEW t \in RequestThread
  PROVE  \/ request[t] = Idle /\ request[t].at = "idle"
         \/ /\ request[t] # Idle /\ request[t].at \in Steps
            /\ request[t].file \in FileId /\ request[t].project \in Project \cup {Nowhere}
<1>1. CASE request[t] = Idle BY <1>1 DEF Idle
<1>2. CASE request[t] \in [at : Steps, file : FileId, project : Project \cup {Nowhere}]
  <2>1. request[t].at \in Steps BY <1>2
  <2>2. request[t] # Idle BY <2>1 DEF Steps, Idle
  <2>3. QED BY <1>2, <2>1, <2>2
<1>3. QED BY <1>1, <1>2 DEF FilesTypeOK

\* A request that takes a step keeps its file and its project.
LEMMA StepsOn ==
  ASSUME FilesTypeOK, NEW t \in RequestThread, NEW from \in Steps, NEW to \in Steps, Step(t, from, to)
  PROVE  /\ request[t].at = from /\ request'[t].at = to
         /\ request'[t].file = request[t].file /\ request[t].file \in FileId
         /\ request'[t].project = request[t].project
         /\ request[t] # Idle /\ request'[t] # Idle
         /\ request' \in [RequestThread -> {Idle} \cup
                            [at : Steps, file : FileId, project : Project \cup {Nowhere}]]
         /\ \A u \in RequestThread : u # t => request'[u] = request[u]
         /\ \A f \in FileId : At(f)' = At(f)
<1>1. request[t] \in [at : Steps, file : FileId, project : Project \cup {Nowhere}]
  BY RequestsAreTyped DEF Step, Steps, FilesTypeOK
<1>2. /\ request'[t] = [request[t] EXCEPT !.at = to]
      /\ \A u \in RequestThread : u # t => request'[u] = request[u]
      /\ request[t].at = from
  BY DEF Step, FilesTypeOK
<1>3. request'[t] \in [at : Steps, file : FileId, project : Project \cup {Nowhere}]
  BY <1>1, <1>2
<1>4. /\ request'[t].at = to /\ request'[t].file = request[t].file
      /\ request'[t].project = request[t].project /\ request[t].file \in FileId
  BY <1>1, <1>2
<1>5. request[t] # Idle /\ request'[t] # Idle
  <2>1. Idle.at = "idle" BY DEF Idle
  <2>2. QED BY <1>2, <1>4, <2>1 DEF Steps
<1>6. request' \in [RequestThread -> {Idle} \cup
                      [at : Steps, file : FileId, project : Project \cup {Nowhere}]]
  BY <1>3 DEF Step, FilesTypeOK
<1>7. \A f \in FileId : At(f)' = At(f) BY <1>2, <1>4, <1>5 DEF At
<1>8. QED BY <1>2, <1>4, <1>5, <1>6, <1>7

\* A request that ends is at no file.
LEMMA EndsIdle ==
  ASSUME FilesTypeOK, NEW t \in RequestThread, NEW from \in Steps, End(t, from)
  PROVE  /\ request[t].at = from /\ request[t].file \in FileId
         /\ request[t].project \in Project \cup {Nowhere}
         /\ request[t] # Idle /\ request'[t] = Idle /\ request'[t].at = "idle"
         /\ request' \in [RequestThread -> {Idle} \cup
                            [at : Steps, file : FileId, project : Project \cup {Nowhere}]]
         /\ \A u \in RequestThread : u # t => request'[u] = request[u]
         /\ \A f \in FileId : At(f)' = At(f) \ {t}
<1>1. /\ request[t].at = from /\ request'[t] = Idle
      /\ \A u \in RequestThread : u # t => request'[u] = request[u]
  BY DEF End, FilesTypeOK
<1>2. /\ request[t] # Idle /\ request[t].file \in FileId
      /\ request[t].project \in Project \cup {Nowhere}
  BY <1>1, RequestsAreTyped DEF Steps
<1>3. Idle.at = "idle" BY DEF Idle
<1>4. request' \in [RequestThread -> {Idle} \cup
                      [at : Steps, file : FileId, project : Project \cup {Nowhere}]]
  BY DEF End, FilesTypeOK
<1>5. \A f \in FileId : At(f)' = At(f) \ {t} BY <1>1 DEF At
<1>6. QED BY <1>1, <1>2, <1>3, <1>4, <1>5

\* A request that begins is at its file, and the others where they were.
LEMMA BeginsAt ==
  ASSUME FilesTypeOK, NEW t \in RequestThread, NEW to \in Steps, NEW f \in FileId,
         NEW p \in Project \cup {Nowhere}, request[t] = Idle,
         request' = [request EXCEPT ![t] = [at |-> to, file |-> f, project |-> p]]
  PROVE  /\ request[t].at = "idle"
         /\ request'[t].at = to /\ request'[t].file = f
         /\ request' \in [RequestThread -> {Idle} \cup
                            [at : Steps, file : FileId, project : Project \cup {Nowhere}]]
         /\ \A u \in RequestThread : u # t => request'[u] = request[u]
         /\ \A g \in FileId : At(g)' = IF g = f THEN At(g) \cup {t} ELSE At(g)
<1>1. /\ request'[t] = [at |-> to, file |-> f, project |-> p]
      /\ \A u \in RequestThread : u # t => request'[u] = request[u]
  BY DEF FilesTypeOK
<1>2. Idle.at = "idle" /\ request'[t].at = to /\ request'[t].file = f
  BY <1>1 DEF Idle
<1>3. request'[t] # Idle BY <1>2 DEF Steps
<1>4. request' \in [RequestThread -> {Idle} \cup
                      [at : Steps, file : FileId, project : Project \cup {Nowhere}]]
  BY DEF FilesTypeOK
<1>5. \A g \in FileId : At(g)' = IF g = f THEN At(g) \cup {t} ELSE At(g)
  BY <1>1, <1>2, <1>3 DEF At
<1>6. QED BY <1>1, <1>2, <1>4, <1>5

-----------------------------------------------------------------------------
(* The invariant.                                                          *)

\* Nothing is stored at first, and nobody is at it.
LEMMA FilesInitHolds == FilesInit => FilesInv
<1> SUFFICES ASSUME FilesInit PROVE FilesInv
  OBVIOUS
<1>1. FilesTypeOK
  <2>1. 0 \in 0..Ceiling /\ 0 \in 0..MaxRestarts BY FileConstants
  <2>2. QED BY <2>1 DEF FilesInit, FilesTypeOK
<1>2. \A t \in RequestThread : request[t] = Idle /\ request[t].at = "idle" BY DEF FilesInit, Idle
<1>3. \A f \in FileId : records[f] = Unrecorded /\ At(f) = {} BY <1>2 DEF FilesInit, At
<1>4. revived = {} BY DEF FilesInit
<1>5. QED BY <1>1, <1>2, <1>3, <1>4
          DEF FilesInv, MintedBeforeUse, UploadsAlone, UnlinksTheUnrecorded, RecordsHaveBytes

\* A new upload is of a file nobody is at and no record names.
LEMMA StageHolds ==
  ASSUME FilesInv, NEW t \in RequestThread, Stage(t) PROVE FilesInv'
<1>1. PICK f \in FileId, w \in 1..Ceiling, p \in Project \cup {Nowhere} :
        /\ weight[f] = 0
        /\ weight' = [weight EXCEPT ![f] = w]
        /\ request' = [request EXCEPT ![t] = [at |-> "staged", file |-> f, project |-> p]]
  BY DEF Stage
<1>2. FilesTypeOK /\ request[t] = Idle /\ "staged" \in Steps
      /\ records' = records /\ stored' = stored /\ revived' = revived /\ restarts' = restarts
  BY DEF Stage, FilesInv, Steps
<1>3. /\ request'[t].at = "staged" /\ request'[t].file = f
      /\ request' \in [RequestThread -> {Idle} \cup
                         [at : Steps, file : FileId, project : Project \cup {Nowhere}]]
      /\ \A u \in RequestThread : u # t => request'[u] = request[u]
      /\ \A g \in FileId : At(g)' = IF g = f THEN At(g) \cup {t} ELSE At(g)
  BY <1>1, <1>2, BeginsAt
<1>4. records[f] = Unrecorded /\ f \notin revived /\ At(f) = {}
  BY <1>1 DEF FilesInv, MintedBeforeUse
<1>5. /\ weight' \in [FileId -> 0..Ceiling]
      /\ \A g \in FileId : weight'[g] = 0 => weight[g] = 0 /\ g # f
  <2>1. w \in 0..Ceiling /\ w # 0 BY FileConstants
  <2>2. QED BY <1>1, <1>2, <2>1 DEF FilesTypeOK
<1>6. FilesTypeOK' BY <1>2, <1>3, <1>5 DEF FilesTypeOK
<1>7. MintedBeforeUse'
  BY <1>2, <1>3, <1>5 DEF FilesInv, MintedBeforeUse
<1>8. UploadsAlone'
  <2> SUFFICES ASSUME NEW u \in RequestThread, NEW g \in FileId, request'[u].file = g,
                      request'[u].at \in {"staged", "weighed", "placed"}
               PROVE  /\ records[g] = Unrecorded /\ g \notin revived
                      /\ At(g)' = {u}
                      /\ request'[u].at = "placed" => g \in stored
    BY <1>2 DEF UploadsAlone
  <2>1. CASE u = t BY <2>1, <1>3, <1>4
  <2>2. CASE u # t
    <3>1. request'[u] = request[u] BY <2>2, <1>3
    <3>2. request[u] # Idle BY <1>2, <3>1, RequestsAreTyped
    <3>3. g # f BY <1>4, <3>1, <3>2 DEF At
    <3>4. At(g)' = At(g) BY <1>3, <3>3
    <3>5. QED BY <3>1, <3>4 DEF FilesInv, UploadsAlone
  <2>3. QED BY <2>1, <2>2
<1>9. UnlinksTheUnrecorded' /\ RecordsHaveBytes'
  BY <1>2, <1>3 DEF FilesInv, UnlinksTheUnrecorded, RecordsHaveBytes
<1>10. QED BY <1>6, <1>7, <1>8, <1>9 DEF FilesInv

\* Of two requests at one file neither is an upload.
LEMMA Apart ==
  ASSUME FilesInv, NEW t \in RequestThread, NEW u \in RequestThread, t # u,
         request[t] # Idle, request[u].at \in {"staged", "weighed", "placed"}
  PROVE  request[t].file # request[u].file
<1>1. request[u].file \in FileId BY RequestsAreTyped DEF FilesInv, Steps
<1>2. At(request[u].file) = {u} BY <1>1 DEF FilesInv, UploadsAlone
<1>3. QED BY <1>2 DEF At

\* An upload is weighed, and put in place.
LEMMA UploadHolds ==
  ASSUME FilesInv, NEW t \in RequestThread, Weigh(t) \/ Place(t) PROVE FilesInv'
<1> DEFINE to == IF Weigh(t) THEN "weighed" ELSE "placed"
<1>1. PICK from \in {"staged", "weighed"} : Step(t, from, to)
  BY DEF Weigh, Place
<1>2. FilesTypeOK /\ from \in Steps /\ to \in Steps BY DEF FilesInv, Steps
<1>3. /\ request[t].at = from /\ request'[t].at = to
      /\ request'[t].file = request[t].file /\ request[t].file \in FileId
      /\ request' \in [RequestThread -> {Idle} \cup
                         [at : Steps, file : FileId, project : Project \cup {Nowhere}]]
      /\ \A u \in RequestThread : u # t => request'[u] = request[u]
      /\ \A f \in FileId : At(f)' = At(f)
  BY <1>1, <1>2, StepsOn
<1>4. /\ records' = records /\ weight' = weight /\ revived' = revived /\ restarts' = restarts
      /\ stored \subseteq stored' /\ stored' \subseteq FileId
      /\ to = "placed" => request[t].file \in stored'
  BY <1>2, <1>3 DEF Weigh, Place, FilesTypeOK, FilesInv
<1>5. FilesTypeOK' BY <1>2, <1>3, <1>4 DEF FilesTypeOK
<1>6. MintedBeforeUse' /\ RecordsHaveBytes'
  BY <1>3, <1>4 DEF FilesInv, MintedBeforeUse, RecordsHaveBytes
<1>7. UploadsAlone'
  <2> SUFFICES ASSUME NEW u \in RequestThread, NEW g \in FileId, request'[u].file = g,
                      request'[u].at \in {"staged", "weighed", "placed"}
               PROVE  /\ records[g] = Unrecorded /\ g \notin revived
                      /\ At(g)' = {u}
                      /\ request'[u].at = "placed" => g \in stored'
    BY <1>4 DEF UploadsAlone
  <2>1. request[u].at \in {"staged", "weighed", "placed"} /\ request[u].file = g
    BY <1>3
  <2>2. /\ records[g] = Unrecorded /\ g \notin revived /\ At(g) = {u}
        /\ request[u].at = "placed" => g \in stored
    BY <2>1 DEF FilesInv, UploadsAlone
  <2>3. request'[u].at = "placed" => \/ (u = t /\ to = "placed") \/ request[u].at = "placed"
    BY <1>3
  <2>4. QED BY <1>3, <1>4, <2>1, <2>2, <2>3
<1>8. UnlinksTheUnrecorded'
  BY <1>3, <1>4 DEF FilesInv, UnlinksTheUnrecorded
<1>9. QED BY <1>5, <1>6, <1>7, <1>8 DEF FilesInv

\* A request that ends without touching an upload's file leaves the uploads be.
LEMMA OthersUpload ==
  ASSUME FilesInv, NEW t \in RequestThread, request[t] # Idle, request[t].file \in FileId,
         \A u \in RequestThread : u # t => request'[u] = request[u],
         \A f \in FileId : f # request[t].file => At(f)' = At(f),
         \A f \in FileId : f # request[t].file => records'[f] = records[f],
         revived' \subseteq revived \cup {request[t].file},
         stored \ {request[t].file} \subseteq stored',
         request'[t].at \notin {"staged", "weighed", "placed"}
  PROVE  UploadsAlone'
<1> SUFFICES ASSUME NEW u \in RequestThread, NEW g \in FileId, request'[u].file = g,
                    request'[u].at \in {"staged", "weighed", "placed"}
             PROVE  /\ records'[g] = Unrecorded /\ g \notin revived'
                    /\ At(g)' = {u}
                    /\ request'[u].at = "placed" => g \in stored'
  BY DEF UploadsAlone
<1>1. u # t /\ request'[u] = request[u] OBVIOUS
<1>2. request[t].file # g BY <1>1, Apart
<1>3. QED BY <1>1, <1>2 DEF FilesInv, UploadsAlone

\* An upload is refused, or its record saved.
LEMMA UploadEndHolds ==
  ASSUME FilesInv, NEW t \in RequestThread, RefuseUpload(t) \/ SaveUpload(t) PROVE FilesInv'
<1>1. PICK from \in {"staged", "placed"} : End(t, from) /\ (SaveUpload(t) => from = "placed")
  BY DEF RefuseUpload, SaveUpload
<1>2. FilesTypeOK /\ from \in Steps BY DEF FilesInv, Steps
<1> DEFINE f == request[t].file
<1>3. /\ request[t].at = from /\ f \in FileId /\ request[t].project \in Project \cup {Nowhere}
      /\ request[t] # Idle /\ request'[t].at = "idle"
      /\ request' \in [RequestThread -> {Idle} \cup
                         [at : Steps, file : FileId, project : Project \cup {Nowhere}]]
      /\ \A u \in RequestThread : u # t => request'[u] = request[u]
      /\ \A g \in FileId : At(g)' = At(g) \ {t}
  BY <1>1, <1>2, EndsIdle
<1>4. /\ weight' = weight /\ stored' = stored /\ revived' = revived /\ restarts' = restarts
      /\ \A g \in FileId : g # f => records'[g] = records[g]
      /\ records' \in [FileId -> Project \cup {Nowhere, Unrecorded}]
  BY <1>2, <1>3 DEF RefuseUpload, SaveUpload, FilesTypeOK
<1>5. FilesTypeOK' BY <1>2, <1>3, <1>4 DEF FilesTypeOK
<1>6. t \in At(f) /\ weight[f] # 0
  <2>1. t \in At(f) BY <1>3 DEF At
  <2>2. QED BY <1>3, <2>1 DEF FilesInv, MintedBeforeUse
<1>7. MintedBeforeUse' BY <1>3, <1>4, <1>6 DEF FilesInv, MintedBeforeUse
<1>8. UploadsAlone'
  <2>1. \A g \in FileId : g # f => At(g)' = At(g) BY <1>3 DEF At
  <2>2. QED BY <1>3, <1>4, <2>1, OthersUpload
<1>9. UnlinksTheUnrecorded'
  <2> SUFFICES ASSUME NEW u \in RequestThread, request'[u].at = "unlinking"
               PROVE  records'[request'[u].file] = Unrecorded \/ request'[u].file \in revived
    BY <1>4 DEF UnlinksTheUnrecorded
  <2>1. u # t /\ request'[u] = request[u] BY <1>3
  <2>2. request[u] # Idle /\ request[u].file \in FileId
    BY <1>2, <2>1, RequestsAreTyped
  <2>3. request[u].file # f
    BY <1>3, <2>1, <2>2, Apart
  <2>4. QED BY <1>4, <2>1, <2>2, <2>3 DEF FilesInv, UnlinksTheUnrecorded
<1>10. RecordsHaveBytes'
  <2>1. records'[f] # Unrecorded => f \in stored
    <3>1. CASE SaveUpload(t) BY <1>1, <1>3, <3>1 DEF FilesInv, UploadsAlone
    <3>2. CASE RefuseUpload(t)
      BY <1>3, <3>2 DEF RefuseUpload, FilesInv, UploadsAlone
    <3>3. QED BY <3>1, <3>2
  <2>2. QED BY <1>4, <2>1 DEF FilesInv, RecordsHaveBytes
<1>11. QED BY <1>5, <1>7, <1>8, <1>9, <1>10 DEF FilesInv

\* A file is given a project.
LEMMA MoveHolds ==
  ASSUME FilesInv, NEW f \in FileId, MoveToProject(f) PROVE FilesInv'
<1>1. PICK p \in Project : records' = [records EXCEPT ![f] = p]
  BY DEF MoveToProject
<1>2. /\ records[f] = Nowhere /\ FilesTypeOK
      /\ weight' = weight /\ stored' = stored /\ request' = request /\ revived' = revived
      /\ restarts' = restarts
  BY DEF MoveToProject, FilesInv
<1>3. records[f] # Unrecorded BY <1>2 DEF Nowhere, Unrecorded
<1>4. /\ records' \in [FileId -> Project \cup {Nowhere, Unrecorded}]
      /\ \A g \in FileId : g # f => records'[g] = records[g]
  BY <1>1, <1>2 DEF FilesTypeOK
<1>5. FilesTypeOK' BY <1>2, <1>4 DEF FilesTypeOK
<1>6. \A g \in FileId : At(g)' = At(g) BY <1>2 DEF At
<1>7. MintedBeforeUse' BY <1>2, <1>3, <1>4, <1>6 DEF FilesInv, MintedBeforeUse
<1>8. \A u \in RequestThread : request[u].at \in Steps => request[u].file \in FileId
  BY <1>2, RequestsAreTyped DEF Steps
<1>9. UploadsAlone'
  BY <1>2, <1>3, <1>4, <1>6, <1>8 DEF FilesInv, UploadsAlone, Steps
<1>10. UnlinksTheUnrecorded'
  BY <1>2, <1>3, <1>4, <1>8 DEF FilesInv, UnlinksTheUnrecorded, Steps
<1>11. RecordsHaveBytes' BY <1>2, <1>3, <1>4 DEF FilesInv, RecordsHaveBytes
<1>12. QED BY <1>5, <1>7, <1>9, <1>10, <1>11 DEF FilesInv

\* A request for a file with a record begins.
LEMMA LoadHolds ==
  ASSUME FilesInv, NEW t \in RequestThread, BeginUpdate(t) \/ BeginDelete(t) PROVE FilesInv'
<1>1. PICK to \in {"updating", "deleting"} : LoadRecord(t, to)
  BY DEF BeginUpdate, BeginDelete
<1>2. PICK f \in FileId : /\ records[f] \in Project
                        /\ request' = [request EXCEPT ![t] =
                                         [at |-> to, file |-> f, project |-> records[f]]]
  BY <1>1 DEF LoadRecord
<1>3. /\ FilesTypeOK /\ request[t] = Idle /\ to \in Steps
      /\ records' = records /\ weight' = weight /\ stored' = stored /\ revived' = revived
      /\ restarts' = restarts
  BY <1>1 DEF LoadRecord, FilesInv, Steps
<1>4. /\ request'[t].at = to /\ request'[t].file = f
      /\ request' \in [RequestThread -> {Idle} \cup
                         [at : Steps, file : FileId, project : Project \cup {Nowhere}]]
      /\ \A u \in RequestThread : u # t => request'[u] = request[u]
      /\ \A g \in FileId : At(g)' = IF g = f THEN At(g) \cup {t} ELSE At(g)
  BY <1>2, <1>3, BeginsAt
<1>5. records[f] # Unrecorded BY <1>2, FileConstants DEF Unrecorded
<1>6. FilesTypeOK' BY <1>3, <1>4 DEF FilesTypeOK
<1>7. MintedBeforeUse' BY <1>3, <1>4, <1>5 DEF FilesInv, MintedBeforeUse
<1>8. UploadsAlone'
  <2> SUFFICES ASSUME NEW u \in RequestThread, NEW g \in FileId, request'[u].file = g,
                      request'[u].at \in {"staged", "weighed", "placed"}
               PROVE  /\ records[g] = Unrecorded /\ g \notin revived
                      /\ At(g)' = {u}
                      /\ request'[u].at = "placed" => g \in stored
    BY <1>3 DEF UploadsAlone
  <2>1. u # t /\ request'[u] = request[u] BY <1>4
  <2>2. /\ records[g] = Unrecorded /\ g \notin revived /\ At(g) = {u}
        /\ request'[u].at = "placed" => g \in stored
    BY <2>1 DEF FilesInv, UploadsAlone
  <2>3. At(g)' = At(g) BY <1>4, <1>5, <2>2
  <2>4. QED BY <2>2, <2>3
<1>9. UnlinksTheUnrecorded' /\ RecordsHaveBytes'
  BY <1>3, <1>4 DEF FilesInv, UnlinksTheUnrecorded, RecordsHaveBytes
<1>10. QED BY <1>6, <1>7, <1>8, <1>9 DEF FilesInv

\* A record is saved as it was loaded: one that had none comes back.
LEMMA ProvenanceHolds ==
  ASSUME FilesInv, NEW t \in RequestThread, SaveProvenance(t) PROVE FilesInv'
<1> DEFINE f == request[t].file
<1>1. FilesTypeOK /\ "updating" \in Steps /\ End(t, "updating")
  BY DEF FilesInv, Steps, SaveProvenance
<1>2. /\ request[t].at = "updating" /\ f \in FileId
      /\ request[t].project \in Project \cup {Nowhere}
      /\ request[t] # Idle /\ request'[t].at = "idle"
      /\ request' \in [RequestThread -> {Idle} \cup
                         [at : Steps, file : FileId, project : Project \cup {Nowhere}]]
      /\ \A u \in RequestThread : u # t => request'[u] = request[u]
      /\ \A g \in FileId : At(g)' = At(g) \ {t}
  BY <1>1, EndsIdle
<1>3. /\ records' = [records EXCEPT ![f] = request[t].project]
      /\ revived' = revived \cup ({f} \ Recorded)
      /\ weight' = weight /\ stored' = stored /\ restarts' = restarts
  BY DEF SaveProvenance
<1>4. /\ records' \in [FileId -> Project \cup {Nowhere, Unrecorded}]
      /\ \A g \in FileId : g # f => records'[g] = records[g]
      /\ revived' \subseteq FileId
  BY <1>1, <1>2, <1>3 DEF FilesTypeOK
<1>5. FilesTypeOK' BY <1>1, <1>2, <1>3, <1>4 DEF FilesTypeOK
<1>6. weight[f] # 0
  <2>1. t \in At(f) BY <1>2 DEF At
  <2>2. QED BY <1>2, <2>1 DEF FilesInv, MintedBeforeUse
<1>7. MintedBeforeUse' BY <1>2, <1>3, <1>4, <1>6 DEF FilesInv, MintedBeforeUse
<1>8. UploadsAlone'
  <2>1. \A g \in FileId : g # f => At(g)' = At(g) BY <1>2 DEF At
  <2>2. QED BY <1>2, <1>3, <1>4, <2>1, OthersUpload
<1>9. records[f] = Unrecorded => f \in revived'
  BY <1>3 DEF Recorded
<1>10. UnlinksTheUnrecorded'
  <2> SUFFICES ASSUME NEW u \in RequestThread, request'[u].at = "unlinking"
               PROVE  records'[request'[u].file] = Unrecorded \/ request'[u].file \in revived'
    BY DEF UnlinksTheUnrecorded
  <2>1. u # t /\ request'[u] = request[u] BY <1>2
  <2>2. request[u].file \in FileId BY <1>1, <2>1, RequestsAreTyped DEF Steps
  <2>3. records[request[u].file] = Unrecorded \/ request[u].file \in revived
    BY <2>1 DEF FilesInv, UnlinksTheUnrecorded
  <2>4. QED BY <1>3, <1>4, <1>9, <2>1, <2>2, <2>3
<1>11. RecordsHaveBytes'
  BY <1>3, <1>4, <1>9 DEF FilesInv, RecordsHaveBytes
<1>12. QED BY <1>5, <1>7, <1>8, <1>10, <1>11 DEF FilesInv

\* The record goes first, and the bytes of a file without one after it.
LEMMA DeleteHolds ==
  ASSUME FilesInv, NEW t \in RequestThread, DeleteRecord(t) PROVE FilesInv'
<1> DEFINE f == request[t].file
<1>1. /\ FilesTypeOK /\ "deleting" \in Steps /\ "unlinking" \in Steps
      /\ Step(t, "deleting", "unlinking")
  BY DEF FilesInv, Steps, DeleteRecord
<1>2. /\ request[t].at = "deleting" /\ request'[t].at = "unlinking"
      /\ request'[t].file = f /\ f \in FileId /\ request[t] # Idle
      /\ request' \in [RequestThread -> {Idle} \cup
                         [at : Steps, file : FileId, project : Project \cup {Nowhere}]]
      /\ \A u \in RequestThread : u # t => request'[u] = request[u]
      /\ \A g \in FileId : At(g)' = At(g)
  BY <1>1, StepsOn
<1>3. /\ records' = [records EXCEPT ![f] = Unrecorded]
      /\ revived' = revived /\ weight' = weight /\ stored' = stored /\ restarts' = restarts
  BY DEF DeleteRecord
<1>4. /\ records' \in [FileId -> Project \cup {Nowhere, Unrecorded}]
      /\ records'[f] = Unrecorded
      /\ \A g \in FileId : g # f => records'[g] = records[g]
  BY <1>1, <1>2, <1>3 DEF FilesTypeOK
<1>5. FilesTypeOK' BY <1>1, <1>2, <1>3, <1>4 DEF FilesTypeOK
<1>6. MintedBeforeUse' BY <1>2, <1>3, <1>4 DEF FilesInv, MintedBeforeUse
<1>7. UploadsAlone' BY <1>2, <1>3, <1>4, OthersUpload
<1>8. UnlinksTheUnrecorded'
  <2> SUFFICES ASSUME NEW u \in RequestThread, request'[u].at = "unlinking"
               PROVE  records'[request'[u].file] = Unrecorded \/ request'[u].file \in revived
    BY <1>3 DEF UnlinksTheUnrecorded
  <2>1. CASE u = t BY <1>2, <1>4, <2>1
  <2>2. CASE u # t
    <3>1. request'[u] = request[u] BY <1>2, <2>2
    <3>2. request[u].file \in FileId BY <1>1, <3>1, RequestsAreTyped DEF Steps
    <3>3. QED BY <1>4, <3>1, <3>2 DEF FilesInv, UnlinksTheUnrecorded
  <2>3. QED BY <2>1, <2>2
<1>9. RecordsHaveBytes' BY <1>3, <1>4 DEF FilesInv, RecordsHaveBytes
<1>10. QED BY <1>5, <1>6, <1>7, <1>8, <1>9 DEF FilesInv

\* The bytes go, of a file without a record or with one that came back.
LEMMA UnlinkHolds ==
  ASSUME FilesInv, NEW t \in RequestThread, Unlink(t) PROVE FilesInv'
<1> DEFINE f == request[t].file
<1>1. FilesTypeOK /\ "unlinking" \in Steps /\ End(t, "unlinking")
  BY DEF FilesInv, Steps, Unlink
<1>2. /\ request[t].at = "unlinking" /\ f \in FileId
      /\ request[t] # Idle /\ request'[t].at = "idle"
      /\ request' \in [RequestThread -> {Idle} \cup
                         [at : Steps, file : FileId, project : Project \cup {Nowhere}]]
      /\ \A u \in RequestThread : u # t => request'[u] = request[u]
      /\ \A g \in FileId : At(g)' = At(g) \ {t}
  BY <1>1, EndsIdle
<1>3. /\ stored' = stored \ {f} /\ records' = records /\ weight' = weight
      /\ revived' = revived /\ restarts' = restarts
  BY DEF Unlink
<1>4. FilesTypeOK' BY <1>1, <1>2, <1>3 DEF FilesTypeOK
<1>5. MintedBeforeUse' BY <1>2, <1>3 DEF FilesInv, MintedBeforeUse
<1>6. UploadsAlone'
  <2>1. \A g \in FileId : g # f => At(g)' = At(g) BY <1>2 DEF At
  <2>2. QED BY <1>2, <1>3, <2>1, OthersUpload
<1>7. UnlinksTheUnrecorded' BY <1>2, <1>3 DEF FilesInv, UnlinksTheUnrecorded
<1>8. records[f] = Unrecorded \/ f \in revived
  BY <1>2 DEF FilesInv, UnlinksTheUnrecorded
<1>9. RecordsHaveBytes' BY <1>3, <1>8 DEF FilesInv, RecordsHaveBytes
<1>10. QED BY <1>4, <1>5, <1>6, <1>7, <1>9 DEF FilesInv

\* A restart leaves nobody at a file.
LEMMA RestartHolds ==
  ASSUME FilesInv, Restart PROVE FilesInv'
<1>1. /\ \A t \in RequestThread : request'[t] = Idle /\ request'[t].at = "idle"
      /\ records' = records /\ weight' = weight /\ stored' = stored /\ revived' = revived
  BY DEF Restart, Idle
<1>2. \A f \in FileId : At(f)' = {} BY <1>1 DEF At
<1>3. FilesTypeOK'
  <2>1. restarts' \in 0..MaxRestarts BY FileConstants DEF FilesInv, FilesTypeOK, Restart
  <2>2. QED BY <1>1, <2>1 DEF FilesInv, FilesTypeOK, Restart
<1>4. QED BY <1>1, <1>2, <1>3
          DEF FilesInv, MintedBeforeUse, UploadsAlone, UnlinksTheUnrecorded, RecordsHaveBytes

\* The invariant holds of every behaviour.
LEMMA FilesInvHolds == FilesSpec => []FilesInv
<1>1. FilesInit => FilesInv BY FilesInitHolds
<1>2. FilesInv /\ [FilesNext]_filesVars => FilesInv'
  <2> SUFFICES ASSUME FilesInv, [FilesNext]_filesVars PROVE FilesInv'
    OBVIOUS
  <2>1. CASE Restart BY <2>1, RestartHolds
  <2>2. ASSUME NEW f \in FileId, MoveToProject(f) PROVE FilesInv' BY <2>2, MoveHolds
  <2>3. ASSUME NEW t \in RequestThread,
               \/ Stage(t) \/ Weigh(t) \/ RefuseUpload(t) \/ Place(t) \/ SaveUpload(t)
               \/ BeginUpdate(t) \/ SaveProvenance(t)
               \/ BeginDelete(t) \/ DeleteRecord(t) \/ Unlink(t)
        PROVE  FilesInv'
    BY <2>3, StageHolds, UploadHolds, UploadEndHolds, LoadHolds, ProvenanceHolds,
       DeleteHolds, UnlinkHolds
  <2>4. CASE UNCHANGED filesVars
    BY <2>4 DEF filesVars, FilesInv, FilesTypeOK, MintedBeforeUse, UploadsAlone, UnlinksTheUnrecorded,
                RecordsHaveBytes, At
  <2>5. QED BY <2>1, <2>2, <2>3, <2>4 DEF FilesNext
<1>3. QED BY <1>1, <1>2, PTL DEF FilesSpec

\* Every variable of the store of files keeps its type.
THEOREM FilesTypeCorrect == FilesSpec => []FilesTypeOK
<1>1. FilesInv => FilesTypeOK BY DEF FilesInv
<1>2. QED BY <1>1, FilesInvHolds, PTL

\* For any number of files and requests, and wherever they are killed: a file
\* with a record has its bytes in place, unless its record was deleted and then
\* saved again by an update that had loaded it before.
THEOREM RecordsHaveTheirBytes == FilesSpec => []RecordsHaveBytes
<1>1. FilesInv => RecordsHaveBytes BY DEF FilesInv
<1>2. QED BY <1>1, FilesInvHolds, PTL

-----------------------------------------------------------------------------
(* The quota.  Whoever was weighed, or saves what it loaded, may yet add   *)
(* its file to the records: the files there are or may be are within the   *)
(* quota but for those of the other threads, from when one was weighed on. *)

UnderWay == {request[t].file : t \in {u \in RequestThread : request[u].at \in {"weighed", "placed", "updating"}}}

Committed == Recorded \cup UnderWay

CommittedFits ==
  Cardinality(Bytes(Committed)) <= Quota + (Cardinality(RequestThread) - 1) * Ceiling

\* The bytes of files are as many as can be counted, and of more files there are more.
LEMMA BytesAreFinite ==
  ASSUME FilesTypeOK, NEW A \in SUBSET FileId, NEW B \in SUBSET FileId, A \subseteq B
  PROVE  /\ IsFiniteSet(Bytes(A)) /\ Cardinality(Bytes(A)) \in Nat /\ Cardinality(Bytes(B)) \in Nat
         /\ Cardinality(Bytes(A)) <= Cardinality(Bytes(B))
<1>1. IsFiniteSet(B) /\ IsFiniteSet(1..Ceiling)
  BY FileConstants, FS_Subset, FS_Interval
<1>2. IsFiniteSet(B \X (1..Ceiling))
  BY <1>1, FS_Product
<1>3. Bytes(B) \in SUBSET (B \X (1..Ceiling)) /\ Bytes(A) \in SUBSET Bytes(B)
  BY DEF Bytes
<1>4. IsFiniteSet(Bytes(B))
  BY <1>2, <1>3, FS_Subset
<1>5. IsFiniteSet(Bytes(A)) /\ Cardinality(Bytes(A)) <= Cardinality(Bytes(B))
  BY <1>3, <1>4, FS_Subset
<1>. QED  BY <1>4, <1>5, FS_CardinalityType

\* Two lots of bytes are no more than their sum.
LEMMA BytesAdd ==
  ASSUME FilesTypeOK, NEW A \in SUBSET FileId, NEW B \in SUBSET FileId
  PROVE  Cardinality(Bytes(A \cup B)) <= Cardinality(Bytes(A)) + Cardinality(Bytes(B))
<1>1. Bytes(A \cup B) = Bytes(A) \cup Bytes(B)
  BY DEF Bytes
<1>2. IsFiniteSet(Bytes(A)) /\ IsFiniteSet(Bytes(B)) /\ IsFiniteSet(Bytes(A) \cap Bytes(B))
  <2>1. IsFiniteSet(Bytes(A)) /\ IsFiniteSet(Bytes(B))
    BY BytesAreFinite
  <2>. QED  BY <2>1, FS_Intersection
<1>3. /\ Cardinality(Bytes(A)) \in Nat /\ Cardinality(Bytes(B)) \in Nat
      /\ Cardinality(Bytes(A) \cap Bytes(B)) \in Nat
  BY <1>2, FS_CardinalityType
<1>4. Cardinality(Bytes(A) \cup Bytes(B)) =
        Cardinality(Bytes(A)) + Cardinality(Bytes(B)) - Cardinality(Bytes(A) \cap Bytes(B))
  BY <1>2, FS_Union
<1> DEFINE a == Cardinality(Bytes(A))
           b == Cardinality(Bytes(B))
           c == Cardinality(Bytes(A) \cap Bytes(B))
<1>5. Cardinality(Bytes(A \cup B)) = a + b - c /\ a \in Nat /\ b \in Nat /\ c \in Nat
  BY <1>1, <1>3, <1>4
<1>. HIDE DEF a, b, c
<1>6. Cardinality(Bytes(A \cup B)) <= a + b
  BY <1>5
<1>. QED  BY <1>6 DEF a, b

\* A file has the bytes it weighs.
LEMMA BytesOfOne ==
  ASSUME FilesTypeOK, NEW f \in FileId
  PROVE  Cardinality(Bytes({f})) = weight[f]
<1>1. weight[f] \in Nat /\ weight[f] <= Ceiling /\ Ceiling \in Nat
  BY FileConstants DEF FilesTypeOK
<1>2. PICK w \in Nat : w = weight[f]
  BY <1>1
<1>3. Bytes({f}) = {f} \X (1..w)
  BY <1>1, <1>2 DEF Bytes
<1>4. IsFiniteSet({f}) /\ Cardinality({f}) = 1
  BY FS_Singleton
<1>5. IsFiniteSet(1..w) /\ Cardinality(1..w) = w
  BY FS_Interval
<1>6. Cardinality({f} \X (1..w)) = Cardinality({f}) * Cardinality(1..w)
  BY <1>4, <1>5, FS_Product
<1>7. Cardinality({f}) * Cardinality(1..w) = w
  <2>1. 1 * w = w
    OBVIOUS
  <2>. QED  BY <1>4, <1>5, <2>1, Zenon
<1>. QED  BY <1>2, <1>3, <1>6, <1>7, Zenon

\* Files that each have a thread of their own weigh no more than the ceiling for each.
LEMMA BytesOfEach ==
  ASSUME FilesTypeOK, NEW A \in SUBSET FileId, NEW T \in SUBSET RequestThread,
         \A f \in A : \E u \in T : request[u].file = f
  PROVE  Cardinality(Bytes(A)) <= Cardinality(T) * Ceiling
<1> DEFINE owner(f) == CHOOSE u \in T : request[u].file = f
           place == [b \in Bytes(A) |-> <<owner(b[1]), b[2]>>]
<1>1. \A f \in A : owner(f) \in T /\ request[owner(f)].file = f
  OBVIOUS
<1>. HIDE DEF owner
<1>2. \A b \in Bytes(A) : b \in A \X (1..Ceiling)
  BY DEF Bytes
<1>3. place \in [Bytes(A) -> T \X (1..Ceiling)]
  BY <1>1, <1>2
<1>4. ASSUME NEW b \in Bytes(A), NEW c \in Bytes(A), place[b] = place[c]  PROVE b = c
  <2>1. owner(b[1]) = owner(c[1]) /\ b[2] = c[2]
    BY <1>4
  <2>2. b[1] = c[1]
    BY <1>1, <1>2, <2>1
  <2>. QED  BY <1>2, <2>1, <2>2
<1>5. place \in Injection(Bytes(A), T \X (1..Ceiling))
  BY <1>3, <1>4 DEF Injection, IsInjective
<1>6. /\ IsFiniteSet(T) /\ IsFiniteSet(1..Ceiling) /\ Cardinality(1..Ceiling) = Ceiling
  BY FileConstants, FS_Subset, FS_Interval
<1>7. IsFiniteSet(T \X (1..Ceiling)) /\ Cardinality(T \X (1..Ceiling)) = Cardinality(T) * Ceiling
  BY <1>6, FS_Product
<1>. QED  BY <1>5, <1>7, FS_Injection

\* Nothing is committed that was not: what is committed weighs no more.
LEMMA NothingMore ==
  ASSUME FilesTypeOK, CommittedFits, Committed \in SUBSET FileId, Committed' \subseteq Committed,
         \A f \in Committed : weight'[f] = weight[f]
  PROVE  CommittedFits'
<1>1. Bytes(Committed)' \in SUBSET Bytes(Committed)
  BY DEF Bytes
<1>2. /\ IsFiniteSet(Bytes(Committed)) /\ Cardinality(Bytes(Committed)) \in Nat
  BY BytesAreFinite
<1>3. IsFiniteSet(Bytes(Committed)') /\ Cardinality(Bytes(Committed)') <= Cardinality(Bytes(Committed))
  BY <1>1, <1>2, FS_Subset
<1>4. Cardinality(Bytes(Committed)') \in Nat
  BY <1>3, FS_CardinalityType
<1>5. Quota + (Cardinality(RequestThread) - 1) * Ceiling \in Int
  BY FileConstants, FS_CardinalityType
<1> DEFINE bound == Quota + (Cardinality(RequestThread) - 1) * Ceiling
           old == Cardinality(Bytes(Committed))
           new == Cardinality(Bytes(Committed)')
<1>6. old <= bound /\ bound \in Int /\ old \in Nat /\ new \in Nat /\ new <= old
  BY <1>2, <1>3, <1>4, <1>5 DEF CommittedFits
<1>. HIDE DEF bound, old, new
<1>7. new <= bound
  BY <1>6
<1>. QED  BY <1>7 DEF CommittedFits, bound, new

\* What is committed is of files.
LEMMA CommittedFiles ==
  ASSUME FilesTypeOK
  PROVE  /\ Committed \in SUBSET FileId
         /\ \A f \in FileId : f \in Committed <=>
              \/ records[f] # Unrecorded
              \/ \E t \in RequestThread : request[t].at \in {"weighed", "placed", "updating"} /\ request[t].file = f
<1>1. \A t \in RequestThread : request[t].at \in {"weighed", "placed", "updating"} => request[t].file \in FileId
  BY RequestsAreTyped
<1>. QED  BY <1>1 DEF Committed, UnderWay, Recorded

\* An upload is weighed against the records; what the other threads have under way may
\* come to that.
LEMMA WeighFits == ASSUME FilesInv, NEW t \in RequestThread, Weigh(t)  PROVE CommittedFits'
<1>1. /\ FilesTypeOK /\ Step(t, "staged", "weighed")
      /\ Cardinality(Bytes(Recorded)) + weight[request[t].file] <= Quota
      /\ records' = records /\ weight' = weight
      /\ "staged" \in Steps /\ "weighed" \in Steps
  BY DEF FilesInv, Weigh, UsedBytes, Steps
<1>2. PICK f \in FileId :
        /\ f = request[t].file /\ request'[t].file = f
        /\ \A u \in RequestThread : u # t => request'[u] = request[u]
  BY <1>1, StepsOn
<1>3. PICK others \in SUBSET RequestThread : others = RequestThread \ {t}
  OBVIOUS
<1>4. PICK rest \in SUBSET FileId : rest = {g \in FileId : \E u \in others : request[u].file = g}
  OBVIOUS
<1>5. PICK known \in SUBSET FileId : known = Recorded
  BY DEF Recorded
<1>6. PICK all \in SUBSET FileId : all = (known \cup {f}) \cup rest
  OBVIOUS
<1>7. Committed' \subseteq all
  <2>1. ASSUME NEW u \in RequestThread, request'[u].at \in {"weighed", "placed", "updating"}
        PROVE  request'[u].file \in all
    <3>1. CASE u = t
      BY <1>2, <1>6, <3>1
    <3>2. CASE u # t
      <4>1. request'[u] = request[u] /\ u \in others
        BY <1>2, <1>3, <3>2
      <4>2. request[u].file \in FileId
        BY <1>1, <2>1, <4>1, RequestsAreTyped
      <4>. QED  BY <1>4, <1>6, <4>1, <4>2
    <3>. QED  BY <3>1, <3>2
  <2>2. Recorded' \subseteq all
    BY <1>1, <1>5, <1>6 DEF Recorded
  <2>. QED  BY <2>1, <2>2 DEF Committed, UnderWay
<1>8. Bytes(Committed)' \in SUBSET Bytes(all)
  BY <1>1, <1>7 DEF Bytes
<1>9. /\ Cardinality(Bytes(all)) <= Cardinality(Bytes(known \cup {f})) + Cardinality(Bytes(rest))
      /\ Cardinality(Bytes(known \cup {f})) <= Cardinality(Bytes(known)) + weight[f]
      /\ Cardinality(Bytes(rest)) <= Cardinality(others) * Ceiling
  <2>1. Cardinality(Bytes({f})) = weight[f]
    BY <1>1, BytesOfOne
  <2>2. known \cup {f} \in SUBSET FileId /\ {f} \in SUBSET FileId
    OBVIOUS
  <2>3. Cardinality(Bytes(known \cup {f})) <= Cardinality(Bytes(known)) + Cardinality(Bytes({f}))
    BY <1>1, <2>2, BytesAdd
  <2>4. Cardinality(Bytes(all)) <= Cardinality(Bytes(known \cup {f})) + Cardinality(Bytes(rest))
    BY <1>1, <1>6, <2>2, BytesAdd
  <2>5. Cardinality(Bytes(rest)) <= Cardinality(others) * Ceiling
    BY <1>1, <1>4, BytesOfEach
  <2>. QED  BY <2>1, <2>3, <2>4, <2>5
<1>10. /\ IsFiniteSet(Bytes(all))
       /\ Cardinality(Bytes(all)) \in Nat /\ Cardinality(Bytes(known \cup {f})) \in Nat
       /\ Cardinality(Bytes(rest)) \in Nat /\ Cardinality(Bytes(known)) \in Nat
  <2>1. known \cup {f} \in SUBSET FileId
    OBVIOUS
  <2>. QED  BY <1>1, <2>1, BytesAreFinite
<1>11. /\ Cardinality(others) = Cardinality(RequestThread) - 1 /\ Cardinality(RequestThread) - 1 \in Nat
       /\ Ceiling \in Nat /\ Quota \in Nat /\ weight[f] \in Nat
  <2>1. /\ IsFiniteSet(others) /\ Cardinality(others) = Cardinality(RequestThread) - 1
    BY <1>3, FileConstants, FS_RemoveElement
  <2>2. Cardinality(others) \in Nat
    BY <2>1, FS_CardinalityType
  <2>. QED  BY <1>1, <2>1, <2>2, FileConstants DEF FilesTypeOK
<1>12. Cardinality(Bytes(Committed)') \in Nat /\ Cardinality(Bytes(Committed)') <= Cardinality(Bytes(all))
  <2>1. IsFiniteSet(Bytes(Committed)') /\ Cardinality(Bytes(Committed)') <= Cardinality(Bytes(all))
    BY <1>8, <1>10, FS_Subset
  <2>. QED  BY <2>1, FS_CardinalityType
<1>13. ASSUME NEW new \in Nat, NEW a \in Nat, NEW b \in Nat, NEW c \in Nat, NEW d \in Nat,
              NEW w \in Nat, NEW share \in Nat,
              new <= a, a <= b + c, b <= d + w, c <= share, d + w <= Quota
       PROVE  new <= Quota + share
  BY <1>11, <1>13
<1>14. (Cardinality(RequestThread) - 1) * Ceiling \in Nat
  BY <1>11
<1>15. /\ Cardinality(Bytes(known)) + weight[f] <= Quota
       /\ Cardinality(Bytes(rest)) <= (Cardinality(RequestThread) - 1) * Ceiling
  BY <1>1, <1>2, <1>5, <1>9, <1>11
<1>16. Cardinality(Bytes(Committed)') <= Quota + (Cardinality(RequestThread) - 1) * Ceiling
  BY <1>9, <1>10, <1>11, <1>12, <1>13, <1>14, <1>15
<1>. QED  BY <1>16 DEF CommittedFits

\* Every other step commits nothing, and changes the weight of nothing committed.
LEMMA OthersFit ==
  ASSUME FilesInv, CommittedFits, [FilesNext]_filesVars, \A t \in RequestThread : ~ Weigh(t)
  PROVE  CommittedFits'
<1>1. FilesTypeOK /\ Committed \in SUBSET FileId
  BY CommittedFiles DEF FilesInv
<1>2. CASE Restart
  <2>1. /\ \A t \in RequestThread : request'[t].at = "idle"
        /\ records' = records /\ weight' = weight
    BY <1>2 DEF Restart, Idle
  <2>2. Committed' \subseteq Committed
    BY <2>1 DEF Committed, UnderWay, Recorded
  <2>. QED  BY <1>1, <2>1, <2>2, NothingMore
<1>3. ASSUME NEW f \in FileId, MoveToProject(f)  PROVE CommittedFits'
  <2>1. /\ records[f] # Unrecorded /\ weight' = weight /\ request' = request
        /\ \A g \in FileId : g # f => records'[g] = records[g]
    BY <1>1, <1>3 DEF MoveToProject, Nowhere, Unrecorded, FilesTypeOK
  <2>2. Committed' \subseteq Committed
    BY <2>1 DEF Committed, UnderWay, Recorded
  <2>. QED  BY <1>1, <2>1, <2>2, NothingMore
<1>4. ASSUME NEW t \in RequestThread, Stage(t)  PROVE CommittedFits'
  <2>1. PICK f \in FileId, w \in 1..Ceiling, p \in Project \cup {Nowhere} :
          /\ weight[f] = 0
          /\ weight' = [weight EXCEPT ![f] = w]
          /\ request' = [request EXCEPT ![t] = [at |-> "staged", file |-> f, project |-> p]]
    BY <1>4 DEF Stage
  <2>2. request[t] = Idle /\ records' = records /\ "staged" \in Steps
    BY <1>4 DEF Stage, Steps
  <2>3. request'[t].at = "staged" /\ \A u \in RequestThread : u # t => request'[u] = request[u]
    BY <1>1, <2>1, <2>2, BeginsAt
  <2>4. Committed' \subseteq Committed
    BY <2>2, <2>3 DEF Committed, UnderWay, Recorded
  <2>5. f \notin Committed
    <3>1. records[f] = Unrecorded /\ At(f) = {}
      BY <2>1 DEF FilesInv, MintedBeforeUse
    <3>2. \A u \in RequestThread : request[u].at \in {"weighed", "placed", "updating"} => request[u] # Idle
      BY <1>1, RequestsAreTyped
    <3>. QED  BY <3>1, <3>2 DEF Committed, UnderWay, Recorded, At
  <2>6. \A g \in Committed : weight'[g] = weight[g]
    BY <1>1, <2>1, <2>5 DEF FilesTypeOK
  <2>. QED  BY <1>1, <2>4, <2>6, NothingMore
<1>5. ASSUME NEW t \in RequestThread, RefuseUpload(t) \/ Unlink(t) \/ DeleteRecord(t) \/ Place(t)
      PROVE  CommittedFits'
  <2>1. /\ weight' = weight /\ Recorded' \subseteq Recorded
    BY <1>1, <1>5 DEF RefuseUpload, Unlink, DeleteRecord, Place, Recorded, FilesTypeOK
  <2>2. /\ \A u \in RequestThread : u # t => request'[u] = request[u]
        /\ request'[t].at \notin {"idle", "unlinking"} =>
             request[t].at = "weighed" /\ request'[t].file = request[t].file
    <3>1. CASE RefuseUpload(t)
      BY <1>1, <3>1, EndsIdle DEF RefuseUpload, Steps
    <3>2. CASE Unlink(t)
      BY <1>1, <3>2, EndsIdle DEF Unlink, Steps
    <3>3. CASE DeleteRecord(t)
      BY <1>1, <3>3, StepsOn DEF DeleteRecord, Steps
    <3>4. CASE Place(t)
      BY <1>1, <3>4, StepsOn DEF Place, Steps
    <3>. QED  BY <1>5, <3>1, <3>2, <3>3, <3>4
  <2>3. Committed' \subseteq Committed
    BY <2>1, <2>2 DEF Committed, UnderWay
  <2>. QED  BY <1>1, <2>1, <2>3, NothingMore
<1>6. ASSUME NEW t \in RequestThread, SaveUpload(t) \/ SaveProvenance(t)  PROVE CommittedFits'
  <2>1. PICK from \in {"placed", "updating"} : End(t, from)
    BY <1>6 DEF SaveUpload, SaveProvenance
  <2>2. from \in Steps
    BY DEF Steps
  <2>3. /\ request[t].at = from /\ request[t].file \in FileId /\ request'[t].at = "idle"
        /\ \A u \in RequestThread : u # t => request'[u] = request[u]
    BY <1>1, <2>1, <2>2, EndsIdle
  <2>4. /\ weight' = weight
        /\ \A g \in FileId : g # request[t].file => records'[g] = records[g]
    BY <1>1, <1>6 DEF SaveUpload, SaveProvenance, FilesTypeOK
  <2>5. Committed' \subseteq Committed
    <3>1. request[t].file \in Committed
      BY <2>3 DEF Committed, UnderWay
    <3>2. Recorded' \subseteq Recorded \cup {request[t].file}
      BY <2>4 DEF Recorded
    <3>. QED  BY <2>3, <3>1, <3>2 DEF Committed, UnderWay
  <2>. QED  BY <1>1, <2>4, <2>5, NothingMore
<1>7. ASSUME NEW t \in RequestThread, BeginUpdate(t) \/ BeginDelete(t)  PROVE CommittedFits'
  <2>1. PICK to \in {"updating", "deleting"} : LoadRecord(t, to)
    BY <1>7 DEF BeginUpdate, BeginDelete
  <2>2. PICK f \in FileId : /\ records[f] \in Project
                          /\ request' = [request EXCEPT ![t] =
                                           [at |-> to, file |-> f, project |-> records[f]]]
    BY <2>1 DEF LoadRecord
  <2>3. to \in Steps /\ request[t] = Idle /\ records' = records /\ weight' = weight
    BY <2>1 DEF Steps, LoadRecord
  <2>4. /\ request'[t].file = f /\ records[f] # Unrecorded
        /\ \A u \in RequestThread : u # t => request'[u] = request[u]
    BY <1>1, <2>2, <2>3, BeginsAt, FileConstants DEF Unrecorded
  <2>5. Committed' \subseteq Committed
    BY <2>3, <2>4 DEF Committed, UnderWay, Recorded
  <2>. QED  BY <1>1, <2>3, <2>5, NothingMore
<1>8. CASE UNCHANGED filesVars
  <2>1. Committed' = Committed /\ weight' = weight
    BY <1>8 DEF filesVars, Committed, UnderWay, Recorded
  <2>. QED  BY <1>1, <2>1, NothingMore
<1>. QED  BY <1>2, <1>3, <1>4, <1>5, <1>6, <1>7, <1>8 DEF FilesNext

\* For any number of files, requests and restarts: uploads weighed at once, and deleted
\* records that are saved again, take the store past its quota by no more than one file
\* of the largest size for each other thread.
THEOREM QuotaHoldsAsFarAsItDoes == FilesSpec => []QuotaHoldsButForThoseUnderWay
<1>1. FilesInit => CommittedFits
  <2> SUFFICES ASSUME FilesInit  PROVE CommittedFits
    OBVIOUS
  <2>1. Committed = {}
    BY DEF FilesInit, Committed, UnderWay, Recorded, Idle
  <2>2. Cardinality(Bytes(Committed)) = 0
    <3>1. Bytes(Committed) = {}
      BY <2>1 DEF Bytes
    <3>. QED  BY <3>1, FS_EmptySet
  <2>3. (Cardinality(RequestThread) - 1) * Ceiling \in Nat /\ Quota \in Nat
    <3>1. Cardinality(RequestThread) \in Nat /\ Cardinality(RequestThread) # 0
      BY FileConstants, FS_CardinalityType, FS_EmptySet
    <3>2. Cardinality(RequestThread) - 1 \in Nat
      BY <3>1
    <3>. QED  BY <3>2, FileConstants
  <2>. QED  BY <2>2, <2>3 DEF CommittedFits
<1>2. FilesInv /\ CommittedFits /\ [FilesNext]_filesVars => CommittedFits'
  BY WeighFits, OthersFit
<1>3. FilesInv /\ CommittedFits => QuotaHoldsButForThoseUnderWay
  <2> SUFFICES ASSUME FilesInv, CommittedFits  PROVE QuotaHoldsButForThoseUnderWay
    OBVIOUS
  <2>1. FilesTypeOK /\ Recorded \subseteq Committed /\ Committed \in SUBSET FileId /\ Recorded \in SUBSET FileId
    BY CommittedFiles DEF FilesInv, Committed, Recorded
  <2>2. /\ Cardinality(Bytes(Recorded)) \in Nat /\ Cardinality(Bytes(Committed)) \in Nat
        /\ Cardinality(Bytes(Recorded)) <= Cardinality(Bytes(Committed))
    BY <2>1, BytesAreFinite
  <2>3. (Cardinality(RequestThread) - 1) * Ceiling \in Int /\ Quota \in Int
    BY FileConstants, FS_CardinalityType
  <2> DEFINE bound == Quota + (Cardinality(RequestThread) - 1) * Ceiling
  <2>4. bound \in Int /\ Cardinality(Bytes(Committed)) <= bound
    BY <2>3 DEF CommittedFits
  <2>. HIDE DEF bound
  <2>5. Cardinality(Bytes(Recorded)) <= bound
    BY <2>2, <2>4
  <2>. QED  BY <2>5 DEF QuotaHoldsButForThoseUnderWay, UsedBytes, bound
<1>. QED  BY <1>1, <1>2, <1>3, FilesInvHolds, PTL DEF FilesSpec
=============================================================================
