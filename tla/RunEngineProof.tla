--------------------------- MODULE RunEngineProof ---------------------------
(***************************************************************************)
(* Machine-checked theorems about RunEngine, for every workflow, every     *)
(* number of executions and every number of executors alive at once.       *)
(***************************************************************************)
EXTENDS RunEngine, FiniteSetTheorems, TLAPS

\* The rule for a run's final status never answers running or cancelled.
LEMMA FinalStatusIsFinal ==
  ASSUME NEW statuses
  PROVE  FinalRunStatus(statuses) \in {"ok", "warnings", "errors", "awaiting_review"}
  BY DEF FinalRunStatus

\* A finished status is one of the stage statuses.
LEMMA FinishedIsAStatus == Finished \subseteq StageStatuses
  BY DEF Finished, StageStatuses

\* An upstream stage comes earlier in the order.
LEMMA UpstreamIsEarlier ==
  ASSUME NEW s \in Stage, NEW u \in Upstream[s]
  PROVE  u \in Stage /\ u < s
  BY StagesAreOrdered

\* Stages are numbered, so the order of a run can be compared.
LEMMA StagesAreNumbers == Stage \subseteq Nat
  BY StagesAreOrdered DEF Stage

\* The stages before the next position are those before this one, and this one.
LEMMA NextPosition ==
  ASSUME NEW s \in Stage
  PROVE  /\ s \in Nat
         /\ ~(s < s)
         /\ \A t \in Stage : t < s + 1 <=> t < s \/ t = s
  <1>1. Stage \subseteq Nat /\ s \in Nat
    BY StagesAreNumbers
  <1> QED BY <1>1

-----------------------------------------------------------------------------
(***************************************************************************)
(* Types.  A thread inside a stage is inside one of the workflow's stages, *)
(* so the position after it is a position.                                 *)
(***************************************************************************)

InsideAStage ==
  \A k \in Execution : pc[k] \in {"running", "written"} => at[k] \in Stage

TypeInv == TypeOK /\ InsideAStage

\* Advancing past a stage keeps the position within bounds.
LEMMA AdvanceKeepsTypes ==
  ASSUME TypeOK, NEW k \in Execution, at[k] \in Stage, Advance(k)
  PROVE  /\ pc' \in [Execution -> Places]
         /\ at' \in [Execution -> 1..(StageCount + 1)]
  <1>1. at[k] + 1 \in 1..(StageCount + 1)
    BY StagesAreOrdered DEF Stage
  <1> QED BY <1>1 DEF TypeOK, Advance, Places

\* A flush of any records stores a well-typed manifest.
LEMMA RecordAndFlushKeepsTypes ==
  ASSUME TypeOK, NEW k \in Execution, NEW s \in Stage, NEW status \in StageStatuses,
         RecordAndFlush(k, s, status)
  PROVE  /\ records' \in [Execution -> [Stage -> StageStatuses]]
         /\ runStatus' \in RunStatuses
         /\ stageRecords' \in [Stage -> StageStatuses]
         /\ haltedAt' \in SUBSET Stage
  BY DEF TypeOK, RecordAndFlush, Flush, RunStatuses

\* The fresh locals of an execution are of their types.
LEMMA ForgetKeepsTypes ==
  ASSUME TypeOK, NEW gone, Forget(gone)
  PROVE  /\ at' \in [Execution -> 1..(StageCount + 1)]
         /\ records' \in [Execution -> [Stage -> StageStatuses]]
         /\ held' \in [Execution -> [Stage -> Nat]]
         /\ blocked' \in [Execution -> SUBSET Stage]
         /\ halted' \in [Execution -> SUBSET Stage]
  <1>1. 1 \in 1..(StageCount + 1)
    BY StagesAreOrdered
  <1>2. NothingRan \in [Stage -> StageStatuses] /\ NothingHeld \in [Stage -> Nat]
    BY DEF NothingRan, NothingHeld, StageStatuses
  <1> QED BY <1>1, <1>2 DEF TypeOK, Forget

\* prepare_run writes a manifest of the right shape.
LEMMA InitTypes == Init => TypeInv
  <1> SUFFICES ASSUME Init PROVE TypeInv
    OBVIOUS
  <1>1. NothingRan \in [Stage -> StageStatuses] /\ NothingHeld \in [Stage -> Nat]
    BY DEF NothingRan, NothingHeld, StageStatuses
  <1>2. 1 \in 1..(StageCount + 1) /\ 1 \in Execution /\ 0 \in 0..MaxExecutions
        /\ 0 \in 0..MaxDeaths /\ 0 \in 0..MaxLosses
    BY StagesAreOrdered, BoundsAreNatural DEF Execution
  <1>3. TypeOK
    BY <1>1, <1>2 DEF Init, TypeOK, RunStatuses, Places, Flags
  <1>4. InsideAStage
    BY DEF Init, InsideAStage
  <1> QED BY <1>3, <1>4 DEF TypeInv

\* Every action keeps every variable in its type.
LEMMA StepKeepsTypes ==
  ASSUME TypeInv, [Next]_vars
  PROVE  TypeInv'
  <1> USE DEF TypeInv
  <1>1. ASSUME NEW k \in Execution, Begin(k) PROVE TypeInv'
    <2>1. 1 \in 1..(StageCount + 1)
      BY StagesAreOrdered
    <2> QED BY <1>1, <2>1 DEF Begin, Flush, TypeOK, InsideAStage, Places, RunStatuses,
               diskVars, cancelVars, faultVars
  <1>2. ASSUME NEW k \in Execution, StopBetweenStages(k) PROVE TypeInv'
    BY <1>2 DEF StopBetweenStages, TypeOK, InsideAStage, Places, storeVars, diskVars,
       loopVars, faultVars
  <1>3. ASSUME NEW k \in Execution, SkipBlocked(k) PROVE TypeInv'
    <2>1. at[k] \in Stage /\ "pending" \in StageStatuses
      BY <1>3 DEF SkipBlocked, PassedCheckpoint, AtCheckpoint, StageStatuses
    <2>2. Advance(k) /\ RecordAndFlush(k, at[k], "pending")
      BY <1>3 DEF SkipBlocked
    <2>3. blocked' \in [Execution -> SUBSET Stage] /\ held' \in [Execution -> [Stage -> Nat]]
      BY <1>3, <2>1 DEF SkipBlocked, BlockStage, TypeOK
    <2> QED BY <1>3, <2>1, <2>2, <2>3, AdvanceKeepsTypes, RecordAndFlushKeepsTypes
            DEF SkipBlocked, Advance, TypeOK, InsideAStage, diskVars, cancelVars, faultVars
  <1>4. ASSUME NEW k \in Execution, SkipProduced(k) PROVE TypeInv'
    <2>1. at[k] \in Stage /\ Advance(k)
      BY <1>4 DEF SkipProduced, PassedCheckpoint, AtCheckpoint
    <2> QED BY <1>4, <2>1, AdvanceKeepsTypes
            DEF SkipProduced, Advance, TypeOK, InsideAStage, storeVars, diskVars,
                cancelVars, faultVars
  <1>5. ASSUME NEW k \in Execution, StartStage(k) PROVE TypeInv'
    <2>1. at[k] \in Stage /\ "running" \in StageStatuses
      BY <1>5 DEF StartStage, PassedCheckpoint, AtCheckpoint, StageStatuses
    <2>2. RecordAndFlush(k, at[k], "running")
      BY <1>5 DEF StartStage
    <2> QED BY <1>5, <2>1, <2>2, RecordAndFlushKeepsTypes
            DEF StartStage, TypeOK, InsideAStage, Places, diskVars, cancelVars, faultVars
  <1>6. ASSUME NEW k \in Execution, ReportProgress(k) PROVE TypeInv'
    BY <1>6 DEF ReportProgress, Flush, TypeOK, InsideAStage, RunStatuses, diskVars,
       cancelVars, loopVars, faultVars
  <1>7. ASSUME NEW k \in Execution, StopMidStage(k) PROVE TypeInv'
    <2>1. at[k] \in Stage /\ "cancelled" \in StageStatuses
      BY <1>7 DEF StopMidStage, InsideAStage, StageStatuses
    <2>2. RecordAndFlush(k, at[k], "cancelled")
      BY <1>7 DEF StopMidStage
    <2> QED BY <1>7, <2>1, <2>2, RecordAndFlushKeepsTypes
            DEF StopMidStage, TypeOK, InsideAStage, Places, diskVars, faultVars
  <1>8. ASSUME NEW k \in Execution, FailStage(k) PROVE TypeInv'
    <2>1. at[k] \in Stage /\ "error" \in StageStatuses
      BY <1>8 DEF FailStage, InsideAStage, StageStatuses
    <2>2. Advance(k) /\ RecordAndFlush(k, at[k], "error")
      BY <1>8 DEF FailStage
    <2>3. blocked' \in [Execution -> SUBSET Stage]
      BY <1>8, <2>1 DEF FailStage, BlockStage, TypeOK
    <2> QED BY <1>8, <2>1, <2>2, <2>3, AdvanceKeepsTypes, RecordAndFlushKeepsTypes
            DEF FailStage, Advance, TypeOK, InsideAStage, diskVars, cancelVars, faultVars
  <1>9. ASSUME NEW k \in Execution, HaltStage(k) PROVE TypeInv'
    <2>1. at[k] \in Stage /\ "awaiting_review" \in StageStatuses
      BY <1>9 DEF HaltStage, InsideAStage, StageStatuses
    <2>2. Advance(k) /\ RecordAndFlush(k, at[k], "awaiting_review")
      BY <1>9 DEF HaltStage
    <2>3. blocked' \in [Execution -> SUBSET Stage] /\ halted' \in [Execution -> SUBSET Stage]
      BY <1>9, <2>1 DEF HaltStage, BlockStage, TypeOK
    <2> QED BY <1>9, <2>1, <2>2, <2>3, AdvanceKeepsTypes, RecordAndFlushKeepsTypes
            DEF HaltStage, Advance, TypeOK, InsideAStage, diskVars, cancelVars, faultVars
  <1>10. ASSUME NEW k \in Execution, WriteOutput(k) PROVE TypeInv'
    <2>1. at[k] \in Stage
      BY <1>10 DEF WriteOutput, InsideAStage
    <2>2. disk[at[k]] + 1 \in Nat
      BY <2>1 DEF TypeOK
    <2>3. disk' \in [Stage -> Nat] /\ held' \in [Execution -> [Stage -> Nat]]
      BY <1>10, <2>1, <2>2 DEF WriteOutput, TypeOK
    <2>4. [u \in Stage |-> IF u \in Upstream[at[k]] THEN held[k][u] ELSE 0] \in [Stage -> Nat]
      BY DEF TypeOK
    <2>5. basis' \in [Stage -> [Stage -> Nat]] /\ lost' \in SUBSET Stage
      BY <1>10, <2>1, <2>4 DEF WriteOutput, TypeOK
    <2>6. pc' \in [Execution -> Places] /\ InsideAStage'
      BY <1>10, <2>1 DEF WriteOutput, TypeOK, Places, InsideAStage
    <2> QED BY <1>10, <2>3, <2>5, <2>6
            DEF WriteOutput, TypeOK, storeVars, cancelVars, faultVars
  <1>11. ASSUME NEW k \in Execution, NEW status \in Finished, FinishStage(k, status)
         PROVE  TypeInv'
    <2>1. at[k] \in Stage /\ status \in StageStatuses
      BY <1>11, FinishedIsAStatus DEF FinishStage, InsideAStage
    <2>2. Advance(k) /\ RecordAndFlush(k, at[k], status)
      BY <1>11 DEF FinishStage
    <2> QED BY <1>11, <2>1, <2>2, AdvanceKeepsTypes, RecordAndFlushKeepsTypes
            DEF FinishStage, Advance, TypeOK, InsideAStage, diskVars, cancelVars, faultVars
  <1>12. ASSUME NEW k \in Execution, RefuseOutput(k) PROVE TypeInv'
    <2>1. at[k] \in Stage /\ "error" \in StageStatuses
      BY <1>12 DEF RefuseOutput, InsideAStage, StageStatuses
    <2>2. Advance(k) /\ RecordAndFlush(k, at[k], "error")
      BY <1>12 DEF RefuseOutput
    <2>3. blocked' \in [Execution -> SUBSET Stage]
      BY <1>12, <2>1 DEF RefuseOutput, BlockStage, TypeOK
    <2> QED BY <1>12, <2>1, <2>2, <2>3, AdvanceKeepsTypes, RecordAndFlushKeepsTypes
            DEF RefuseOutput, Advance, TypeOK, InsideAStage, diskVars, cancelVars, faultVars
  <1>13. ASSUME NEW k \in Execution, Settle(k) PROVE TypeInv'
    <2>1. Forget({k})
      BY <1>13 DEF Settle
    <2>2. runStatus' \in RunStatuses
      BY <1>13, FinalStatusIsFinal DEF Settle, RunStatuses
    <2>3. InsideAStage'
      BY <1>13, <2>1 DEF Settle, Forget, InsideAStage, TypeOK
    <2> QED BY <1>13, <2>1, <2>2, <2>3, ForgetKeepsTypes
            DEF Settle, TypeOK, Places, diskVars, cancelVars, faultVars
  <1>14. ASSUME NEW k \in Execution, SettleCancelled(k) PROVE TypeInv'
    <2>1. Forget({k})
      BY <1>14 DEF SettleCancelled
    <2>2. runStatus' \in RunStatuses
      BY <1>14 DEF SettleCancelled, RunStatuses
    <2>3. InsideAStage'
      BY <1>14, <2>1 DEF SettleCancelled, Forget, InsideAStage, TypeOK
    <2> QED BY <1>14, <2>1, <2>2, <2>3, ForgetKeepsTypes
            DEF SettleCancelled, TypeOK, Places, diskVars, cancelVars, faultVars
  <1>15. ASSUME NEW k \in Execution, LoadManifest(k) PROVE TypeInv'
    <2>1. [s \in Stage |-> IF stageRecords[s] \in Finished /\ s \notin lost
                           THEN disk[s] ELSE 0] \in [Stage -> Nat]
      BY DEF TypeOK
    <2> QED BY <1>15, <2>1 DEF LoadManifest, TypeOK, InsideAStage, Places, storeVars,
               diskVars, cancelVars, faultVars
  <1>16. ASSUME NEW k \in Execution, RequestResume(k) PROVE TypeInv'
    BY <1>16 DEF RequestResume, TypeOK, InsideAStage, Places, storeVars, diskVars,
       loopVars, faultVars
  <1>17. ASSUME NEW k \in Execution, Die(k) PROVE TypeInv'
    <2>1. Forget({k}) /\ deaths' \in 0..MaxDeaths
      BY <1>17, BoundsAreNatural DEF Die, TypeOK
    <2>2. InsideAStage'
      BY <1>17, <2>1 DEF Die, Forget, InsideAStage, TypeOK
    <2> QED BY <1>17, <2>1, <2>2, ForgetKeepsTypes
            DEF Die, TypeOK, Places, storeVars, diskVars, cancelVars
  <1>18. ASSUME RefuseResume PROVE TypeInv'
    BY <1>18 DEF RefuseResume, TypeOK, InsideAStage, storeVars, diskVars, loopVars, faultVars
  <1>19. ASSUME NEW c \in Cancellers, ReadForCancel(c) PROVE TypeInv'
    <2>1. launched \in 0..MaxExecutions
      BY BoundsAreNatural DEF TypeOK, Execution
    <2> QED BY <1>19, <2>1 DEF ReadForCancel, TypeOK, InsideAStage, storeVars, diskVars,
               loopVars, faultVars
  <1>20. ASSUME NEW c \in Cancellers, PostCancel(c) PROVE TypeInv'
    BY <1>20 DEF PostCancel, TypeOK, InsideAStage, Flags, storeVars, diskVars, loopVars,
       faultVars
  <1>21. ASSUME Crash PROVE TypeInv'
    <2>1. Forget(LiveExecutions) /\ deaths' \in 0..MaxDeaths
      BY <1>21, BoundsAreNatural DEF Crash, TypeOK
    <2>2. pc' \in [Execution -> Places] /\ InsideAStage'
      BY <1>21, <2>1 DEF Crash, Forget, InsideAStage, TypeOK, Places, Live, LiveExecutions
    <2>3. canceller' \in [Cancellers -> [phase : {"idle", "read", "answered"},
                                         saw : 0..MaxExecutions]]
      BY <1>21 DEF Crash, TypeOK
    <2> QED BY <1>21, <2>1, <2>2, <2>3, ForgetKeepsTypes
            DEF Crash, TypeOK, storeVars, diskVars
  <1>22. ASSUME NEW s \in Stage, LoseOutput(s) PROVE TypeInv'
    <2>1. losses' \in 0..MaxLosses
      BY <1>22, BoundsAreNatural DEF LoseOutput, TypeOK
    <2> QED BY <1>22, <2>1 DEF LoseOutput, TypeOK, InsideAStage, storeVars, cancelVars,
               loopVars
  <1>23. ASSUME UNCHANGED vars PROVE TypeInv'
    BY <1>23 DEF vars, TypeOK, InsideAStage, storeVars, diskVars, cancelVars, loopVars,
       faultVars
  <1> QED BY <1>1, <1>2, <1>3, <1>4, <1>5, <1>6, <1>7, <1>8, <1>9, <1>10, <1>11, <1>12,
             <1>13, <1>14, <1>15, <1>16, <1>17, <1>18, <1>19, <1>20, <1>21, <1>22, <1>23
          DEF Next, Step

\* The types hold of every behaviour.
LEMMA TypesAlways == Spec => []TypeInv
  BY InitTypes, StepKeepsTypes, PTL DEF Spec

\* Every variable keeps its type in every reachable state, whatever the
\* workflow and the bounds.
THEOREM TypeCorrect == Spec => []TypeOK
  BY TypesAlways, PTL DEF TypeInv

-----------------------------------------------------------------------------
(***************************************************************************)
(* How an execution's books survive a step of its own or of another.       *)
(***************************************************************************)

\* What every step but one that forgets or loads does to the run directory.
OutputsStay == \A s \in Stage : disk[s] > 0 => disk'[s] > 0

\* A step that leaves execution j's thread alone keeps its part.
LEMMA UntouchedExecution ==
  ASSUME NEW j \in Execution, TypeOK, ExecutionInv(j), OutputsStay,
         launched' \in Nat, launched <= launched',
         pc'[j] = pc[j], at'[j] = at[j], records'[j] = records[j], held'[j] = held[j],
         blocked'[j] = blocked[j], halted'[j] = halted[j]
  PROVE  ExecutionInv(j)'
  <1>1. Passed(j)' = Passed(j)
    BY DEF Passed
  <1>2. BooksAgree(j) => BooksAgree(j)'
    BY <1>1 DEF BooksAgree
  <1>3. j > launched' => j > launched
    BY DEF TypeOK, Execution
  <1>4. at[j] \in Stage /\ disk[at[j]] > 0 => disk'[at[j]] > 0
    BY DEF OutputsStay
  <1>5. \A s \in Stage : records'[j][s] \in Finished => disk'[s] > 0
    BY DEF ExecutionInv, OutputsStay
  <1> QED BY <1>2, <1>3, <1>4, <1>5 DEF ExecutionInv, BlockingUpstream

\* A thread that is gone owes nothing.
LEMMA GoneExecution ==
  ASSUME NEW j \in Execution, TypeOK, j <= launched, launched' = launched,
         pc'[j] \in {"ended", "dead"}, records'[j] = NothingRan
  PROVE  ExecutionInv(j)'
  <1>1. ~(j > launched')
    BY DEF TypeOK, Execution
  <1>2. \A s \in Stage : records'[j][s] \notin Finished
    BY DEF NothingRan, Finished
  <1> QED BY <1>1, <1>2 DEF ExecutionInv

\* The blocked set answers for the verdicts of the stages that were passed.
LEMMA BlockingMeansUnfinished ==
  ASSUME NEW k \in Execution, TypeOK, BooksAgree(k), at[k] \in Stage
  PROVE  /\ BlockingUpstream(k, at[k]) = {}
            => \A u \in Upstream[at[k]] : records[k][u] \in Finished /\ held[k][u] > 0
         /\ BlockingUpstream(k, at[k]) # {}
            => \E u \in Upstream[at[k]] : records[k][u] \notin Finished
  <1>1. \A u \in Upstream[at[k]] : u \in Passed(k)
    BY UpstreamIsEarlier DEF Passed
  <1>2. \A u \in Upstream[at[k]] : u \in blocked[k] <=> records[k][u] \notin Finished
    BY <1>1 DEF BooksAgree
  <1>3. \A u \in Upstream[at[k]] : records[k][u] \in Finished => held[k][u] > 0
    BY <1>1 DEF BooksAgree
  <1> QED BY <1>2, <1>3 DEF BlockingUpstream

\* Passing stage at[k] with a verdict keeps the books, when the blocked set,
\* the halts and the outputs are updated as the verdict requires.
LEMMA PassingAStage ==
  ASSUME NEW k \in Execution, NEW s \in Stage, at[k] = s, TypeOK, BooksAgree(k),
         NEW status \in StageStatuses \ {"running", "cancelled"},
         at'[k] = s + 1,
         records'[k] = [records[k] EXCEPT ![s] = status],
         blocked'[k] = blocked[k] \cup (IF status \in Finished THEN {} ELSE {s}),
         halted'[k] = halted[k] \cup (IF status = "awaiting_review" THEN {s} ELSE {}),
         status = "pending" <=> \E u \in Upstream[s] : records[k][u] \notin Finished,
         \A u \in Stage \ {s} : held'[k][u] = held[k][u],
         status \in Finished => held'[k][s] > 0
  PROVE  BooksAgree(k)'
  <1>1. Passed(k)' = Passed(k) \cup {s} /\ s \notin Passed(k) /\ Passed(k) \subseteq Stage
    <2>1. Passed(k)' = {t \in Stage : t < s + 1}
      BY DEF Passed
    <2> QED BY <2>1, NextPosition DEF Passed
  <1>2. records'[k][s] = status /\ \A t \in Stage \ {s} : records'[k][t] = records[k][t]
    BY DEF TypeOK
  <1>3. \A t \in Passed(k) : records'[k][t] = records[k][t] /\ held'[k][t] = held[k][t]
    BY <1>1, <1>2
  <1>4. \A t \in Passed(k) \cup {s} : \A u \in Upstream[t] : records'[k][u] = records[k][u]
    <2>1. SUFFICES ASSUME NEW t \in Passed(k) \cup {s}, NEW u \in Upstream[t]
                   PROVE  u \in Stage \ {s}
      BY <1>2
    <2>2. t \in Stage /\ s \in Nat /\ t <= s
      <3>1. t \in Stage /\ (t < s \/ t = s)
        BY <1>1 DEF Passed
      <3> QED BY <3>1, NextPosition
    <2>3. u \in Stage /\ u < t
      BY <2>2, UpstreamIsEarlier
    <2> QED BY <2>2, <2>3, StagesAreNumbers
  <1>5. \A t \in Passed(k)' : records'[k][t] \notin {"running", "cancelled"}
    BY <1>1, <1>2, <1>3 DEF BooksAgree
  <1>6. \A t \in Passed(k)' :
          records'[k][t] = "pending" <=> \E u \in Upstream[t] : records'[k][u] \notin Finished
    BY <1>1, <1>2, <1>3, <1>4 DEF BooksAgree
  <1>7. blocked'[k] = {t \in Passed(k)' : records'[k][t] \notin Finished}
    BY <1>1, <1>2, <1>3 DEF BooksAgree
  <1>8. halted'[k] = {t \in Passed(k)' : records'[k][t] = "awaiting_review"}
    BY <1>1, <1>2, <1>3 DEF BooksAgree
  <1>9. \A t \in Passed(k)' : records'[k][t] \in Finished => held'[k][t] > 0
    BY <1>1, <1>2, <1>3 DEF BooksAgree
  <1> QED BY <1>5, <1>6, <1>7, <1>8, <1>9 DEF BooksAgree

\* Working on stage at[k], which is not yet passed, keeps the books.
LEMMA StayingAtAStage ==
  ASSUME NEW k \in Execution, TypeOK, BooksAgree(k), at[k] \in Stage, at'[k] = at[k],
         \A u \in Stage \ {at[k]} : /\ records'[k][u] = records[k][u]
                                    /\ held'[k][u] = held[k][u],
         blocked'[k] = blocked[k], halted'[k] = halted[k]
  PROVE  BooksAgree(k)'
  <1>1. Passed(k)' = Passed(k)
    BY DEF Passed
  <1>2. \A t \in Passed(k) : records'[k][t] = records[k][t] /\ held'[k][t] = held[k][t]
    BY StagesAreNumbers DEF Passed
  <1>3. \A t \in Passed(k) : \A u \in Upstream[t] : records'[k][u] = records[k][u]
    <2>1. SUFFICES ASSUME NEW t \in Passed(k), NEW u \in Upstream[t]
                   PROVE  u \in Stage \ {at[k]}
      OBVIOUS
    <2>2. t \in Stage /\ t < at[k]
      BY DEF Passed
    <2>3. u \in Stage /\ u < t
      BY <2>2, UpstreamIsEarlier
    <2> QED BY <2>2, <2>3, StagesAreNumbers
  <1> QED BY <1>1, <1>2, <1>3 DEF BooksAgree

-----------------------------------------------------------------------------
(***************************************************************************)
(* What each write of the manifest owes to its readers.                    *)
(***************************************************************************)

StoreInv == FinishedHasOutput /\ HaltMarkIsExact /\ SettledRunIsExplained

\* A step that leaves the manifest alone keeps what is true of it.
LEMMA UnwrittenStore ==
  ASSUME StoreInv, UNCHANGED storeVars, OutputsStay
  PROVE  StoreInv'
  BY DEF StoreInv, storeVars, OutputsStay, FinishedHasOutput, HaltMarkIsExact,
         SettledRunIsExplained, Promise!HaltedStages, Promise!Explained

\* A flush in the middle of a run writes a manifest that is not settled.
LEMMA FlushedStore ==
  ASSUME NEW recs, Flush(recs), \A s \in Stage : recs[s] \in Finished => disk'[s] > 0
  PROVE  StoreInv'
  BY DEF StoreInv, Flush, FinishedHasOutput, HaltMarkIsExact, SettledRunIsExplained

\* A settle writes a manifest whose status its records explain.
LEMMA SettledStore ==
  ASSUME NEW k \in Execution, TypeOK, ExecutionInv(k), Settle(k)
  PROVE  /\ StoreInv'
         /\ Promise!Explained(records[k])
         /\ halted[k] = Promise!HaltedStages(records[k])
  <1>1. BooksAgree(k) /\ at[k] = StageCount + 1
    BY DEF Settle, ExecutionInv
  <1>2. Passed(k) = Stage
    BY <1>1, StagesAreOrdered DEF Passed, Stage
  <1>3. Promise!Explained(records[k])
    BY <1>1, <1>2 DEF BooksAgree, Promise!Explained, Promise!Finished, Finished
  <1>4. halted[k] = Promise!HaltedStages(records[k])
    BY <1>1, <1>2 DEF BooksAgree, Promise!HaltedStages
  <1>5. runStatus' \notin {"running", "cancelled"}
    BY FinalStatusIsFinal DEF Settle
  <1>6. stageRecords' = records[k] /\ haltedAt' = halted[k] /\ disk' = disk
        /\ runStatus' = FinalRunStatus({records[k][s] : s \in Stage})
    BY DEF Settle, diskVars
  <1>7. FinishedHasOutput'
    BY <1>6 DEF FinishedHasOutput, ExecutionInv
  <1>8. HaltMarkIsExact'
    BY <1>4, <1>5, <1>6 DEF HaltMarkIsExact, Promise!HaltedStages
  <1>9. SettledRunIsExplained'
    BY <1>3, <1>6 DEF SettledRunIsExplained, Promise!Explained
  <1> QED BY <1>3, <1>4, <1>7, <1>8, <1>9 DEF StoreInv

-----------------------------------------------------------------------------
(***************************************************************************)
(* The inductive invariant, step by step.                                  *)
(***************************************************************************)

OthersStay(k) ==
  \A j \in Execution \ {k} :
    /\ pc'[j] = pc[j] /\ at'[j] = at[j]
    /\ records'[j] = records[j] /\ held'[j] = held[j]
    /\ blocked'[j] = blocked[j] /\ halted'[j] = halted[j]

\* What is left to show of a step of execution k's thread.
LEMMA OneThreadSteps ==
  ASSUME NEW k \in Execution, TypeOK, EngineInv, OutputsStay, OthersStay(k),
         launched' = launched, mailbox' \in {mailbox, {}},
         ExecutionInv(k)', StoreInv'
  PROVE  EngineInv'
  <1>1. ASSUME NEW j \in Execution \ {k} PROVE ExecutionInv(j)'
    <2>1. ExecutionInv(j) /\ launched' \in Nat /\ launched <= launched'
      BY DEF EngineInv, TypeOK, Execution
    <2> QED BY <2>1, UntouchedExecution DEF OthersStay
  <1>2. \A f \in mailbox' : f.posted = launched'
    BY DEF EngineInv
  <1> QED BY <1>1, <1>2 DEF EngineInv, StoreInv

\* A step that leaves every thread, record and cancel alone.
LEMMA NoThreadSteps ==
  ASSUME TypeOK, EngineInv, OutputsStay, UNCHANGED <<pc, loopVars, launched, storeVars>>,
         \A f \in mailbox' : f.posted = launched
  PROVE  EngineInv'
  <1>1. ASSUME NEW j \in Execution PROVE ExecutionInv(j)'
    <2>1. ExecutionInv(j) /\ launched' \in Nat /\ launched <= launched'
      BY DEF EngineInv, TypeOK, Execution
    <2> QED BY <2>1, UntouchedExecution DEF loopVars
  <1>2. StoreInv'
    BY UnwrittenStore DEF EngineInv, StoreInv
  <1> QED BY <1>1, <1>2 DEF EngineInv, StoreInv

\* Before the first execution the books are empty and agree.
LEMMA InitEngine == Init => EngineInv
  <1> SUFFICES ASSUME Init PROVE EngineInv
    OBVIOUS
  <1>1. ASSUME NEW k \in Execution PROVE ExecutionInv(k)
    <2>1. k > 1 => k # 1
      BY DEF Execution
    <2> QED BY <2>1 DEF Init, ExecutionInv, NothingRan, Finished
  <1>2. FinishedHasOutput /\ HaltMarkIsExact /\ SettledRunIsExplained
    BY DEF Init, FinishedHasOutput, HaltMarkIsExact, SettledRunIsExplained, NothingRan,
       Finished
  <1> QED BY <1>1, <1>2 DEF Init, EngineInv

\* A step that gives at[k] its verdict, flushes it and moves past the stage.
LEMMA VerdictKeepsInv ==
  ASSUME NEW k \in Execution, TypeOK, EngineInv, BooksAgree(k), at[k] \in Stage,
         NEW status \in StageStatuses \ {"running", "cancelled"},
         pc[k] \in Live, Advance(k), RecordAndFlush(k, at[k], status),
         blocked' = [blocked EXCEPT
                       ![k] = @ \cup (IF status \in Finished THEN {} ELSE {at[k]})],
         halted' = [halted EXCEPT
                      ![k] = @ \cup (IF status = "awaiting_review" THEN {at[k]} ELSE {})],
         status = "pending" <=> \E u \in Upstream[at[k]] : records[k][u] \notin Finished,
         \A j \in Execution \ {k} : held'[j] = held[j],
         \A u \in Stage \ {at[k]} : held'[k][u] = held[k][u],
         status \in Finished => held'[k][at[k]] > 0 /\ disk[at[k]] > 0,
         UNCHANGED <<disk, mailbox, launched>>
  PROVE  EngineInv'
  <1>1. /\ OthersStay(k)
        /\ pc'[k] = "loop"
        /\ at'[k] = at[k] + 1
        /\ records'[k] = [records[k] EXCEPT ![at[k]] = status]
        /\ blocked'[k] = blocked[k] \cup (IF status \in Finished THEN {} ELSE {at[k]})
        /\ halted'[k] = halted[k] \cup (IF status = "awaiting_review" THEN {at[k]} ELSE {})
    BY DEF Advance, RecordAndFlush, OthersStay, TypeOK
  <1>2. BooksAgree(k)'
    BY <1>1, PassingAStage
  <1>3. ExecutionInv(k) /\ pc[k] # "unborn"
    BY DEF EngineInv, Live
  <1>4. \A s \in Stage : records'[k][s] \in Finished => disk'[s] > 0
    BY <1>1, <1>3 DEF ExecutionInv, TypeOK
  <1>5. ExecutionInv(k)'
    BY <1>1, <1>2, <1>3, <1>4 DEF ExecutionInv
  <1>6. StoreInv'
    <2>1. Flush(records'[k])
      BY DEF RecordAndFlush, TypeOK
    <2> QED BY <2>1, <1>4, FlushedStore
  <1>7. OutputsStay
    BY DEF OutputsStay
  <1> QED BY <1>1, <1>5, <1>6, <1>7, OneThreadSteps

\* A thread that stops or is gone writes nothing and owes nothing.
LEMMA LeavingKeepsInv ==
  ASSUME NEW k \in Execution, TypeOK, EngineInv, pc[k] \in Live,
         NEW place \in {"ended", "dead"},
         pc' = [pc EXCEPT ![k] = place], Forget({k}), StoreInv',
         UNCHANGED <<disk, mailbox, launched>>
  PROVE  EngineInv'
  <1>1. OthersStay(k) /\ pc'[k] = place /\ records'[k] = NothingRan
    BY DEF OthersStay, Forget, TypeOK
  <1>2. ~(k > launched) /\ k <= launched
    <2>1. pc[k] # "unborn" /\ ExecutionInv(k)
      BY DEF EngineInv, Live
    <2> QED BY <2>1 DEF ExecutionInv, TypeOK, Execution
  <1>3. ExecutionInv(k)'
    BY <1>1, <1>2, GoneExecution
  <1>4. OutputsStay
    BY DEF OutputsStay
  <1> QED BY <1>1, <1>3, <1>4, OneThreadSteps

\* The thread's own steps that pass a stage.
LEMMA SkipBlockedKeepsInv ==
  ASSUME NEW k \in Execution, TypeInv, EngineInv, SkipBlocked(k)
  PROVE  EngineInv'
  <1>1. /\ at[k] \in Stage /\ pc[k] \in Live /\ BooksAgree(k)
        /\ "pending" \in StageStatuses \ {"running", "cancelled"} /\ "pending" \notin Finished
    BY DEF SkipBlocked, PassedCheckpoint, AtCheckpoint, Live, EngineInv, ExecutionInv,
       StageStatuses, Finished
  <1>2. \E u \in Upstream[at[k]] : records[k][u] \notin Finished
    BY <1>1, BlockingMeansUnfinished DEF SkipBlocked, TypeInv
  <1>3. /\ \A j \in Execution \ {k} : held'[j] = held[j]
        /\ \A u \in Stage \ {at[k]} : held'[k][u] = held[k][u]
    BY DEF SkipBlocked, TypeInv, TypeOK
  <1>4. halted' = [halted EXCEPT ![k] = @ \cup {}]
    BY DEF SkipBlocked, TypeInv, TypeOK
  <1> QED BY <1>1, <1>2, <1>3, <1>4, VerdictKeepsInv
          DEF SkipBlocked, BlockStage, TypeInv, diskVars, cancelVars

\* Passing over a stage the resume already holds keeps the books.
LEMMA SkipProducedKeepsInv ==
  ASSUME NEW k \in Execution, TypeInv, EngineInv, SkipProduced(k)
  PROVE  EngineInv'
  <1>1. /\ at[k] \in Stage /\ pc[k] = "loop" /\ BooksAgree(k) /\ ExecutionInv(k)
        /\ records[k][at[k]] \in Finished /\ held[k][at[k]] > 0
    BY DEF SkipProduced, PassedCheckpoint, AtCheckpoint, AlreadyProduced, EngineInv,
       ExecutionInv
  <1>2. /\ OthersStay(k) /\ OutputsStay /\ pc'[k] = "loop" /\ at'[k] = at[k] + 1
        /\ UNCHANGED <<records, held, blocked, halted, disk, mailbox, launched, storeVars>>
    BY DEF SkipProduced, Advance, OthersStay, OutputsStay, TypeInv, TypeOK, diskVars,
       cancelVars
  <1>3. ~ \E u \in Upstream[at[k]] : records[k][u] \notin Finished
    BY <1>1, BlockingMeansUnfinished DEF SkipProduced, TypeInv
  <1>4. BooksAgree(k)'
    <2>1. records[k][at[k]] \in StageStatuses \ {"running", "cancelled"}
          /\ records[k][at[k]] \notin {"pending", "awaiting_review"}
      BY <1>1 DEF Finished, StageStatuses
    <2>2. records'[k] = [records[k] EXCEPT ![at[k]] = records[k][at[k]]]
      BY <1>1, <1>2 DEF TypeInv, TypeOK
    <2> QED BY <1>1, <1>2, <1>3, <2>1, <2>2, PassingAStage DEF TypeInv
  <1>5. ExecutionInv(k)'
    BY <1>1, <1>2, <1>4 DEF ExecutionInv
  <1>6. StoreInv'
    BY <1>2, UnwrittenStore DEF EngineInv, StoreInv
  <1> QED BY <1>2, <1>5, <1>6, OneThreadSteps DEF TypeInv

\* A stage that is being worked on has every input, finished and in memory.
LEMMA InsideMeansReady ==
  ASSUME NEW k \in Execution, TypeInv, EngineInv, pc[k] \in {"running", "written"}
  PROVE  /\ at[k] \in Stage
         /\ BooksAgree(k)
         /\ \A u \in Upstream[at[k]] : records[k][u] \in Finished /\ held[k][u] > 0
  <1>1. at[k] \in Stage /\ BooksAgree(k) /\ BlockingUpstream(k, at[k]) = {}
    BY DEF EngineInv, ExecutionInv
  <1> QED BY <1>1, BlockingMeansUnfinished DEF TypeInv

\* A stage that errors, at its handler or at its output's schema.
LEMMA ErrorKeepsInv ==
  ASSUME NEW k \in Execution, TypeInv, EngineInv, pc[k] \in {"running", "written"},
         RecordAndFlush(k, at[k], "error"), BlockStage(k, at[k]), Advance(k),
         UNCHANGED <<diskVars, cancelVars, launched, held, halted>>
  PROVE  EngineInv'
  <1>1. "error" \in StageStatuses \ {"running", "cancelled"} /\ "error" \notin Finished
    BY DEF StageStatuses, Finished
  <1>2. halted' = [halted EXCEPT ![k] = @ \cup {}]
    BY DEF TypeInv, TypeOK
  <1>3. pc[k] \in Live
    BY DEF Live
  <1> QED BY <1>1, <1>2, <1>3, InsideMeansReady, VerdictKeepsInv
          DEF BlockStage, TypeInv, diskVars, cancelVars

\* A halt is booked as blocked and as waited on.
LEMMA HaltKeepsInv ==
  ASSUME NEW k \in Execution, TypeInv, EngineInv, HaltStage(k)
  PROVE  EngineInv'
  <1>1. /\ "awaiting_review" \in StageStatuses \ {"running", "cancelled"}
        /\ "awaiting_review" \notin Finished
        /\ pc[k] \in Live /\ pc[k] = "running"
    BY DEF StageStatuses, Finished, HaltStage, Live
  <1> QED BY <1>1, InsideMeansReady, VerdictKeepsInv
          DEF HaltStage, BlockStage, TypeInv, diskVars, cancelVars

\* A finished stage is booked as held, and its file was written before.
LEMMA FinishKeepsInv ==
  ASSUME NEW k \in Execution, TypeInv, EngineInv, NEW status \in Finished,
         FinishStage(k, status)
  PROVE  EngineInv'
  <1>1. /\ status \in StageStatuses \ {"running", "cancelled"}
        /\ status \notin {"pending", "awaiting_review"}
        /\ pc[k] \in Live /\ pc[k] = "written"
    BY DEF StageStatuses, Finished, FinishStage, Live
  <1>2. held[k][at[k]] > 0 /\ disk[at[k]] > 0
    BY <1>1 DEF EngineInv, ExecutionInv
  <1>3. blocked' = [blocked EXCEPT ![k] = @ \cup {}]
        /\ halted' = [halted EXCEPT ![k] = @ \cup {}]
    BY DEF FinishStage, TypeInv, TypeOK
  <1> QED BY <1>1, <1>2, <1>3, InsideMeansReady, VerdictKeepsInv
          DEF FinishStage, TypeInv, diskVars, cancelVars

\* A stage starts when none of its upstreams is blocked.
LEMMA StartKeepsInv ==
  ASSUME NEW k \in Execution, TypeInv, EngineInv, StartStage(k)
  PROVE  EngineInv'
  <1>1. /\ at[k] \in Stage /\ pc[k] = "loop" /\ BooksAgree(k) /\ ExecutionInv(k)
        /\ BlockingUpstream(k, at[k]) = {}
    BY DEF StartStage, PassedCheckpoint, AtCheckpoint, EngineInv, ExecutionInv
  <1>2. /\ OthersStay(k) /\ OutputsStay /\ pc'[k] = "running"
        /\ records'[k] = [records[k] EXCEPT ![at[k]] = "running"]
        /\ UNCHANGED <<at, held, blocked, halted, disk, mailbox, launched>>
    BY DEF StartStage, RecordAndFlush, OthersStay, OutputsStay, TypeInv, TypeOK, diskVars,
       cancelVars
  <1>3. BooksAgree(k)'
    <2>1. \A u \in Stage \ {at[k]} : records'[k][u] = records[k][u]
      BY <1>2 DEF TypeInv, TypeOK
    <2> QED BY <1>1, <1>2, <2>1, StayingAtAStage DEF TypeInv
  <1>4. \A s \in Stage : records'[k][s] \in Finished => disk'[s] > 0
    BY <1>1, <1>2 DEF ExecutionInv, Finished, TypeInv, TypeOK
  <1>5. ExecutionInv(k)'
    BY <1>1, <1>2, <1>3, <1>4 DEF ExecutionInv, BlockingUpstream
  <1>6. StoreInv'
    <2>1. Flush(records'[k])
      BY DEF StartStage, RecordAndFlush, TypeInv, TypeOK
    <2> QED BY <2>1, <1>4, FlushedStore
  <1> QED BY <1>2, <1>5, <1>6, OneThreadSteps DEF TypeInv

\* Writing an output file changes no verdict.
LEMMA WriteKeepsInv ==
  ASSUME NEW k \in Execution, TypeInv, EngineInv, WriteOutput(k)
  PROVE  EngineInv'
  <1>1. /\ at[k] \in Stage /\ pc[k] = "running" /\ BooksAgree(k) /\ ExecutionInv(k)
        /\ BlockingUpstream(k, at[k]) = {}
    BY DEF WriteOutput, EngineInv, ExecutionInv
  <1>2. /\ disk[at[k]] + 1 > 0
        /\ disk'[at[k]] = disk[at[k]] + 1 /\ held'[k][at[k]] = disk[at[k]] + 1
        /\ \A u \in Stage \ {at[k]} : held'[k][u] = held[k][u] /\ disk'[u] = disk[u]
    BY <1>1 DEF WriteOutput, TypeInv, TypeOK
  <1>3. /\ OthersStay(k) /\ OutputsStay /\ pc'[k] = "written"
        /\ UNCHANGED <<storeVars, at, records, blocked, halted, mailbox, launched>>
    BY <1>2 DEF WriteOutput, OthersStay, OutputsStay, TypeInv, TypeOK, cancelVars
  <1>4. BooksAgree(k)'
    BY <1>1, <1>2, <1>3, StayingAtAStage DEF TypeInv
  <1>5. ExecutionInv(k)'
    BY <1>1, <1>2, <1>3, <1>4 DEF ExecutionInv, BlockingUpstream, OutputsStay
  <1>6. StoreInv'
    BY <1>3, UnwrittenStore DEF EngineInv, StoreInv
  <1> QED BY <1>3, <1>5, <1>6, OneThreadSteps DEF TypeInv

\* A cancel stops the thread at a checkpoint, between stages or inside one.
LEMMA StopKeepsInv ==
  ASSUME NEW k \in Execution, TypeInv, EngineInv, StopBetweenStages(k) \/ StopMidStage(k)
  PROVE  EngineInv'
  <1>1. ExecutionInv(k) /\ pc[k] # "unborn"
    BY DEF StopBetweenStages, AtCheckpoint, StopMidStage, EngineInv
  <1>2. /\ OthersStay(k) /\ OutputsStay /\ pc'[k] = "stopping" /\ mailbox' = {}
        /\ UNCHANGED <<launched, disk>>
    BY DEF StopBetweenStages, StopMidStage, RecordAndFlush, OthersStay, OutputsStay, TypeInv,
       TypeOK, diskVars, loopVars
  <1>3. \A s \in Stage : records'[k][s] \in Finished => records[k][s] \in Finished
    BY DEF StopBetweenStages, StopMidStage, RecordAndFlush, Finished, TypeInv, TypeOK,
       loopVars
  <1>4. \A s \in Stage : records'[k][s] \in Finished => disk'[s] > 0
    BY <1>1, <1>2, <1>3 DEF ExecutionInv
  <1>5. ExecutionInv(k)'
    BY <1>1, <1>2, <1>4 DEF ExecutionInv
  <1>6. StoreInv'
    <2>1. CASE StopBetweenStages(k)
      BY <2>1, <1>2, UnwrittenStore DEF StopBetweenStages, EngineInv, StoreInv
    <2>2. CASE StopMidStage(k)
      <3>1. Flush(records'[k])
        BY <2>2 DEF StopMidStage, RecordAndFlush, TypeInv, TypeOK
      <3> QED BY <3>1, <1>4, FlushedStore
    <2> QED BY <2>1, <2>2
  <1> QED BY <1>2, <1>5, <1>6, OneThreadSteps DEF TypeInv

\* The first write of an execution and the ones its progress asks for.
LEMMA FlushKeepsInv ==
  ASSUME NEW k \in Execution, TypeInv, EngineInv, Begin(k) \/ ReportProgress(k)
  PROVE  EngineInv'
  <1>1. ExecutionInv(k) /\ Flush(records[k])
    BY DEF Begin, ReportProgress, EngineInv
  <1>2. /\ OthersStay(k) /\ OutputsStay
        /\ UNCHANGED <<launched, disk, mailbox, records, held, blocked, halted>>
    BY DEF Begin, ReportProgress, OthersStay, OutputsStay, TypeInv, TypeOK, diskVars,
       cancelVars, loopVars
  <1>3. ExecutionInv(k)'
    <2>1. CASE Begin(k)
      <3>1. pc[k] = "begun" /\ pc'[k] = "loop" /\ at'[k] = 1
            /\ blocked[k] = {} /\ halted[k] = {}
        BY <2>1, <1>1 DEF Begin, ExecutionInv, TypeInv, TypeOK
      <3>2. Passed(k)' = {}
        <4>1. \A s \in Stage : ~(s < 1)
          BY StagesAreOrdered DEF Stage
        <4> QED BY <3>1, <4>1 DEF Passed
      <3> QED BY <1>1, <1>2, <3>1, <3>2 DEF ExecutionInv, BooksAgree
    <2>2. CASE ReportProgress(k)
      <3>1. pc[k] = "running" /\ pc'[k] = "running" /\ at'[k] = at[k]
            /\ launched' \in Nat /\ launched <= launched'
        BY <2>2 DEF ReportProgress, loopVars, TypeInv, TypeOK, Execution
      <3> QED BY <1>1, <1>2, <3>1, UntouchedExecution DEF TypeInv
    <2> QED BY <2>1, <2>2
  <1>4. StoreInv'
    BY <1>1, <1>2, FlushedStore DEF ExecutionInv
  <1> QED BY <1>2, <1>3, <1>4, OneThreadSteps DEF TypeInv

\* Settling turns the books of a whole run into its manifest.
LEMMA SettleKeepsInv ==
  ASSUME NEW k \in Execution, TypeInv, EngineInv, Settle(k) \/ SettleCancelled(k)
  PROVE  EngineInv'
  <1>1. ExecutionInv(k) /\ pc[k] \in Live
    BY DEF Settle, SettleCancelled, EngineInv, Live
  <1>2. StoreInv'
    <2>1. CASE Settle(k)
      BY <2>1, <1>1, SettledStore DEF TypeInv
    <2>2. CASE SettleCancelled(k)
      BY <2>2, <1>1 DEF SettleCancelled, ExecutionInv, StoreInv, FinishedHasOutput,
         HaltMarkIsExact, SettledRunIsExplained, diskVars
    <2> QED BY <2>1, <2>2
  <1> QED BY <1>1, <1>2, LeavingKeepsInv
          DEF Settle, SettleCancelled, TypeInv, diskVars, cancelVars

\* A resume drops whatever cancel was pending before its thread is there to
\* be stopped by one.
LEMMA RequestKeepsInv ==
  ASSUME NEW k \in Execution, TypeInv, EngineInv, RequestResume(k)
  PROVE  EngineInv'
  <1>1. /\ ExecutionInv(k) /\ k \in Nat /\ launched \in Nat
        /\ k = launched + 1 /\ launched' = k /\ mailbox' = {}
        /\ pc' = [pc EXCEPT ![k] = "requested"]
        /\ UNCHANGED <<storeVars, disk, at, records, held, blocked, halted>>
    BY DEF RequestResume, EngineInv, TypeInv, TypeOK, Execution, diskVars, loopVars
  <1>2. pc[k] = "unborn" /\ pc'[k] = "requested" /\ ~(k > launched') /\ launched <= launched'
    BY <1>1 DEF ExecutionInv, TypeInv, TypeOK
  <1>3. ExecutionInv(k)'
    BY <1>1, <1>2 DEF ExecutionInv
  <1>4. OutputsStay
    BY <1>1 DEF OutputsStay
  <1>5. ASSUME NEW j \in Execution \ {k} PROVE ExecutionInv(j)'
    <2>1. ExecutionInv(j) /\ pc'[j] = pc[j] /\ launched' \in Nat
      BY <1>1 DEF EngineInv, TypeInv, TypeOK
    <2> QED BY <1>1, <1>2, <1>4, <2>1, UntouchedExecution DEF TypeInv
  <1>6. StoreInv'
    BY <1>1, <1>4, UnwrittenStore DEF EngineInv, StoreInv
  <1> QED BY <1>1, <1>3, <1>5, <1>6 DEF EngineInv, StoreInv

\* A resume books the finished stages whose files it could load.
LEMMA LoadKeepsInv ==
  ASSUME NEW k \in Execution, TypeInv, EngineInv, LoadManifest(k)
  PROVE  EngineInv'
  <1>1. /\ ExecutionInv(k) /\ pc[k] = "requested" /\ pc'[k] = "begun"
        /\ records'[k] = stageRecords
        /\ UNCHANGED <<storeVars, disk, blocked, halted, mailbox, launched>>
    BY DEF LoadManifest, EngineInv, TypeInv, TypeOK, diskVars, cancelVars
  <1>2. OthersStay(k) /\ OutputsStay
    BY DEF LoadManifest, OthersStay, OutputsStay, TypeInv, TypeOK, diskVars
  <1>3. \A s \in Stage : records'[k][s] \in Finished => disk'[s] > 0
    BY <1>1 DEF EngineInv, FinishedHasOutput
  <1>4. ExecutionInv(k)'
    BY <1>1, <1>3 DEF ExecutionInv
  <1>5. StoreInv'
    BY <1>1, <1>2, UnwrittenStore DEF EngineInv, StoreInv
  <1> QED BY <1>1, <1>2, <1>4, <1>5, OneThreadSteps DEF TypeInv

\* A restart empties the mailbox and the locals and writes nothing.
LEMMA CrashKeepsInv ==
  ASSUME TypeInv, EngineInv, Crash
  PROVE  EngineInv'
  <1>1. /\ Forget(LiveExecutions) /\ mailbox' = {}
        /\ pc' = [k \in Execution |-> IF pc[k] \in Live THEN "dead" ELSE pc[k]]
        /\ UNCHANGED <<storeVars, disk, launched>>
    BY DEF Crash, diskVars
  <1>2. OutputsStay
    BY <1>1 DEF OutputsStay
  <1>3. ASSUME NEW j \in Execution PROVE ExecutionInv(j)'
    <2>1. ExecutionInv(j) /\ launched' \in Nat /\ launched <= launched'
      BY <1>1 DEF EngineInv, TypeInv, TypeOK, Execution
    <2>2. CASE pc[j] \in Live
      <3>1. pc'[j] = "dead" /\ records'[j] = NothingRan
        BY <1>1, <2>2 DEF Forget, LiveExecutions
      <3>2. j <= launched
        <4>1. ~(j > launched)
          BY <2>1, <2>2 DEF ExecutionInv, Live
        <4> QED BY <4>1 DEF TypeInv, TypeOK, Execution
      <3> QED BY <1>1, <3>1, <3>2, GoneExecution DEF TypeInv
    <2>3. CASE pc[j] \notin Live
      <3>1. /\ pc'[j] = pc[j] /\ at'[j] = at[j] /\ records'[j] = records[j]
            /\ held'[j] = held[j] /\ blocked'[j] = blocked[j] /\ halted'[j] = halted[j]
        BY <1>1, <2>3 DEF Forget, LiveExecutions
      <3> QED BY <1>2, <2>1, <3>1, UntouchedExecution DEF TypeInv
    <2> QED BY <2>2, <2>3
  <1>4. StoreInv'
    BY <1>1, <1>2, UnwrittenStore DEF EngineInv, StoreInv
  <1> QED BY <1>1, <1>3, <1>4 DEF EngineInv, StoreInv

\* Every action keeps the invariant of the engine.
LEMMA StepKeepsEngine ==
  ASSUME TypeInv, EngineInv, [Next]_vars
  PROVE  EngineInv'
  <1>1. ASSUME NEW k \in Execution, Step(k) PROVE EngineInv'
    <2>1. CASE FailStage(k) \/ RefuseOutput(k)
      BY <2>1, ErrorKeepsInv DEF FailStage, RefuseOutput
    <2>2. CASE ~(FailStage(k) \/ RefuseOutput(k))
      BY <1>1, <2>2, LoadKeepsInv, FlushKeepsInv, StopKeepsInv, SkipBlockedKeepsInv,
         SkipProducedKeepsInv, StartKeepsInv, HaltKeepsInv, WriteKeepsInv, FinishKeepsInv,
         SettleKeepsInv
      DEF Step
    <2> QED BY <2>1, <2>2
  <1>2. ASSUME NEW k \in Execution, ReportProgress(k) \/ RequestResume(k) PROVE EngineInv'
    BY <1>2, FlushKeepsInv, RequestKeepsInv
  <1>3. ASSUME NEW k \in Execution, Die(k) PROVE EngineInv'
    <2>1. OutputsStay
      BY <1>3 DEF Die, OutputsStay, diskVars
    <2>2. StoreInv'
      BY <1>3, <2>1, UnwrittenStore DEF Die, EngineInv, StoreInv
    <2> QED BY <1>3, <2>2, LeavingKeepsInv DEF Die, TypeInv, diskVars, cancelVars
  <1>4. ASSUME RefuseResume PROVE EngineInv'
    BY <1>4, NoThreadSteps DEF RefuseResume, TypeInv, OutputsStay, diskVars
  <1>5. ASSUME NEW c \in Cancellers, ReadForCancel(c) \/ PostCancel(c) PROVE EngineInv'
    <2>1. \A f \in mailbox' : f.posted = launched
      BY <1>5 DEF ReadForCancel, PostCancel, EngineInv
    <2> QED BY <1>5, <2>1, NoThreadSteps
            DEF ReadForCancel, PostCancel, TypeInv, OutputsStay, diskVars
  <1>6. ASSUME NEW s \in Stage, LoseOutput(s) PROVE EngineInv'
    BY <1>6, NoThreadSteps DEF LoseOutput, TypeInv, OutputsStay, EngineInv, cancelVars
  <1>7. ASSUME UNCHANGED vars PROVE EngineInv'
    BY <1>7, NoThreadSteps
    DEF vars, TypeInv, OutputsStay, EngineInv, cancelVars, diskVars
  <1> QED BY <1>1, <1>2, <1>3, <1>4, <1>5, <1>6, <1>7, CrashKeepsInv DEF Next

\* The invariant of the engine holds of every behaviour.
LEMMA InvAlways == Spec => [](TypeInv /\ EngineInv)
  BY InitTypes, StepKeepsTypes, InitEngine, StepKeepsEngine, PTL DEF Spec

-----------------------------------------------------------------------------
(***************************************************************************)
(* The theorems.                                                           *)
(***************************************************************************)

\* A settled run's manifest accounts for every stage: none is left running or
\* cancelled, and one is pending exactly when an upstream stage did not finish.
THEOREM SettledRunsAreExplained == Spec => []SettledRunIsExplained
  BY InvAlways, PTL DEF EngineInv

\* halted_at names exactly the queues a settled run waits on.
THEOREM HaltMarksAreExact == Spec => []HaltMarkIsExact
  BY InvAlways, PTL DEF EngineInv

\* Whatever dies between the write of an output and the write of its record, a
\* record that says finished has an output file behind it.
THEOREM FinishedStagesHaveOutput == Spec => []FinishedHasOutput
  BY InvAlways, PTL DEF EngineInv

\* The executor never starts a stage one of whose inputs is not in memory.
THEOREM StagesStartWithTheirInputs == Spec => []StartsWithItsInputs
  <1>1. TypeInv /\ EngineInv => StartsWithItsInputs
    BY InsideMeansReady DEF StartsWithItsInputs, InHand
  <1> QED BY <1>1, InvAlways, PTL

\* Only a resume request changes which execution is the latest.
LEMMA OnlyResumesLaunch ==
  ASSUME [Next]_vars
  PROVE  launched' = launched \/ \E j \in Execution : RequestResume(j)
  BY DEF Next, Step, LoadManifest, Begin, StopBetweenStages, SkipBlocked, SkipProduced,
         StartStage, StopMidStage, FailStage, HaltStage, WriteOutput, FinishStage,
         RefuseOutput, Settle, SettleCancelled, ReportProgress, Die, RefuseResume,
         ReadForCancel, PostCancel, Crash, LoseOutput, vars

\* A cancel that stops an execution was posted after that execution was asked
\* for, however many executors run: the resume route's discard is in time.
THEOREM CancelsArePostedLater == Spec => StoppedByALaterPost
  <1>1. ASSUME TypeInv, EngineInv, EngineInv', [Next]_vars,
               NEW k \in Execution, StopsFor(k), NEW f \in mailbox
        PROVE  f.posted >= k
    <2>1. f.posted = launched /\ launched \in Nat /\ k \in Nat
      BY <1>1 DEF EngineInv, TypeInv, TypeOK, Execution
    <2>2. ~(k > launched')
      BY <1>1 DEF StopsFor, EngineInv, ExecutionInv
    <2>3. CASE launched' = launched
      BY <2>1, <2>2, <2>3
    <2>4. CASE \E j \in Execution : RequestResume(j)
      <3>1. PICK j \in Execution : RequestResume(j)
        BY <2>4
      <3>2. j = launched + 1 /\ launched' = j
        BY <3>1 DEF RequestResume
      <3>3. pc'[j] = "requested"
        BY <1>1, <3>1 DEF RequestResume, TypeInv, TypeOK
      <3>4. k # j
        BY <1>1, <3>3 DEF StopsFor
      <3> QED BY <2>1, <2>2, <3>2, <3>4
    <2> QED BY <1>1, <2>3, <2>4, OnlyResumesLaunch
  <1>2. TypeInv /\ EngineInv /\ EngineInv' /\ [Next]_vars
        => [\A k \in Execution : StopsFor(k) => \A f \in mailbox : f.posted >= k]_vars
    BY <1>1
  <1> QED BY <1>2, InvAlways, PTL DEF Spec, StoppedByALaterPost

-----------------------------------------------------------------------------
(***************************************************************************)
(* One executor at a time: what is on disk agrees with what is recorded.   *)
(***************************************************************************)

\* A step of the one live execution, or of one that becomes it, leaves no other.
LEMMA OneLives ==
  ASSUME NEW k \in Execution, OthersStay(k), \A j \in LiveExecutions : j = k
  PROVE  Alone' /\ \A j \in LiveExecutions' : j = k
  BY DEF Alone, LiveExecutions, OthersStay

\* What is left to show of such a step.
LEMMA LoneStep ==
  ASSUME NEW k \in Execution, OthersStay(k), \A j \in LiveExecutions : j = k,
         lost' = {}, AgreesWithDisk(stageRecords)',
         pc'[k] \in Live \ {"requested"} => LocalsAgree(k)'
  PROVE  Alone' /\ FilesAgree'
  <1>1. Alone' /\ \A j \in LiveExecutions' : j = k
    BY OneLives
  <1> QED BY <1>1 DEF FilesAgree, LiveExecutions

\* A stage that was not finished may get a verdict that does not finish it.
LEMMA UnfinishedVerdict ==
  ASSUME NEW recs, NEW s \in Stage, recs \in [Stage -> StageStatuses],
         NEW status, status \notin Finished, AgreesWithDisk(recs), recs[s] \notin Finished,
         UNCHANGED <<basis, disk>>
  PROVE  \A t \in Stage : [recs EXCEPT ![s] = status][t] \in Finished =>
           \A u \in Upstream[t] :
             [recs EXCEPT ![s] = status][u] \in Finished /\ basis'[t][u] = disk'[u]
  BY UpstreamIsEarlier DEF AgreesWithDisk

\* A verdict that does not finish its stage, recorded and flushed.
LEMMA UnfinishedAgrees ==
  ASSUME TypeInv, Alone, FilesAgree, NEW k \in LiveExecutions, pc[k] # "requested",
         OthersStay(k), NEW s \in Stage, records[k][s] \notin Finished,
         NEW status, status \notin Finished, RecordAndFlush(k, s, status),
         UNCHANGED <<diskVars>>, pc'[k] \in Places \ {"written"},
         pc'[k] = "running" => records'[k][at'[k]] = "running",
         \A t \in Stage \ {s} : held'[k][t] = held[k][t]
  PROVE  Alone' /\ FilesAgree'
  <1>1. k \in Execution /\ (\A j \in LiveExecutions : j = k) /\ LocalsAgree(k)
    BY DEF Alone, LiveExecutions, FilesAgree
  <1>2. /\ stageRecords' = records'[k]
        /\ records'[k] = [records[k] EXCEPT ![s] = status]
        /\ records[k] \in [Stage -> StageStatuses]
    BY <1>1 DEF RecordAndFlush, Flush, TypeInv, TypeOK
  <1>3. AgreesWithDisk(records[k])' /\ AgreesWithDisk(stageRecords)'
    BY <1>1, <1>2, UnfinishedVerdict DEF LocalsAgree, AgreesWithDisk, diskVars
  <1>4. \A t \in Stage : records'[k][t] \in Finished => held'[k][t] = disk'[t]
    BY <1>1, <1>2 DEF LocalsAgree, diskVars
  <1>5. LocalsAgree(k)'
    BY <1>1, <1>2, <1>3, <1>4 DEF LocalsAgree
  <1> QED BY <1>1, <1>3, <1>5, LoneStep DEF FilesAgree, diskVars

\* A step that leaves the records, the outputs and the manifest as they are.
LEMMA NothingNewAgrees ==
  ASSUME Alone, FilesAgree, NEW k \in LiveExecutions, pc[k] # "requested",
         OthersStay(k), UNCHANGED <<diskVars>>, records'[k] = records[k],
         stageRecords' \in {stageRecords, records[k]},
         pc'[k] \in {"running", "written"} => pc'[k] = pc[k] /\ at'[k] = at[k],
         held'[k] = held[k]
  PROVE  Alone' /\ FilesAgree'
  <1>1. k \in Execution /\ (\A j \in LiveExecutions : j = k) /\ LocalsAgree(k)
    BY DEF Alone, LiveExecutions, FilesAgree
  <1>2. LocalsAgree(k)'
    BY <1>1 DEF LocalsAgree, AgreesWithDisk, diskVars
  <1>3. AgreesWithDisk(stageRecords)'
    BY <1>1 DEF FilesAgree, LocalsAgree, AgreesWithDisk, diskVars
  <1> QED BY <1>1, <1>2, <1>3, LoneStep DEF FilesAgree, diskVars

\* A resume's thread takes the manifest for its records and the disk for its
\* outputs.
LEMMA LoadAgrees ==
  ASSUME TypeInv, Alone, FilesAgree, NEW k \in LiveExecutions, LoadManifest(k)
  PROVE  Alone' /\ FilesAgree'
  <1>1. k \in Execution /\ (\A j \in LiveExecutions : j = k) /\ OthersStay(k)
    BY DEF Alone, LiveExecutions, LoadManifest, OthersStay, TypeInv, TypeOK
  <1>2. /\ UNCHANGED <<diskVars, storeVars>> /\ lost = {}
        /\ pc'[k] = "begun"
        /\ records'[k] = stageRecords
        /\ \A s \in Stage : stageRecords[s] \in Finished => held'[k][s] = disk[s]
    BY <1>1 DEF LoadManifest, FilesAgree, TypeInv, TypeOK
  <1>3. AgreesWithDisk(stageRecords)' /\ AgreesWithDisk(records[k])'
    BY <1>2 DEF FilesAgree, AgreesWithDisk, diskVars, storeVars
  <1>4. LocalsAgree(k)'
    BY <1>2, <1>3 DEF LocalsAgree, diskVars, storeVars
  <1> QED BY <1>1, <1>2, <1>3, <1>4, LoneStep DEF diskVars

\* A stage is started, or goes back to pending, only if it was not finished.
LEMMA UnfinishedAtHand ==
  ASSUME TypeInv, EngineInv, NEW k \in Execution, LocalsAgree(k),
         SkipBlocked(k) \/ StartStage(k)
  PROVE  at[k] \in Stage /\ records[k][at[k]] \notin Finished
  <1>1. at[k] \in Stage /\ pc[k] = "loop" /\ BooksAgree(k)
        /\ \A s \in Stage : records[k][s] \in Finished => disk[s] > 0
    BY DEF SkipBlocked, StartStage, PassedCheckpoint, AtCheckpoint, EngineInv, ExecutionInv
  <1>2. CASE SkipBlocked(k)
    <2>1. \E u \in Upstream[at[k]] : records[k][u] \notin Finished
      BY <1>1, <1>2, BlockingMeansUnfinished DEF SkipBlocked, TypeInv
    <2> QED BY <1>1, <2>1 DEF LocalsAgree, AgreesWithDisk
  <1>3. CASE StartStage(k)
    BY <1>1, <1>3 DEF StartStage, AlreadyProduced, LocalsAgree
  <1> QED BY <1>2, <1>3

\* The file is rewritten only of a stage nothing finished has read.
LEMMA WriteAgrees ==
  ASSUME TypeInv, EngineInv, Alone, FilesAgree, NEW k \in LiveExecutions, WriteOutput(k)
  PROVE  Alone' /\ FilesAgree'
  <1>1. k \in Execution /\ (\A j \in LiveExecutions : j = k) /\ OthersStay(k)
    BY DEF Alone, LiveExecutions, WriteOutput, OthersStay, TypeInv, TypeOK
  <1>2. LocalsAgree(k) /\ pc[k] = "running" /\ records[k][at[k]] = "running"
        /\ AgreesWithDisk(stageRecords) /\ lost = {}
    BY DEF FilesAgree, WriteOutput, LocalsAgree
  <1>3. at[k] \in Stage /\ \A u \in Upstream[at[k]] : records[k][u] \in Finished
    BY <1>1, <1>2, InsideMeansReady
  <1>4. /\ UNCHANGED <<storeVars, records, at>> /\ pc'[k] = "written" /\ lost' = {}
        /\ held'[k][at[k]] = disk'[at[k]]
        /\ \A s \in Stage \ {at[k]} :
             disk'[s] = disk[s] /\ basis'[s] = basis[s] /\ held'[k][s] = held[k][s]
        /\ \A u \in Upstream[at[k]] : basis'[at[k]][u] = held[k][u]
    BY <1>1, <1>2, <1>3, UpstreamIsEarlier DEF WriteOutput, TypeInv, TypeOK
  <1>5. "running" \notin Finished
    BY DEF Finished
  <1>6. ASSUME NEW recs, AgreesWithDisk(recs), recs[at[k]] \notin Finished
        PROVE  \A s \in Stage : recs[s] \in Finished =>
                 \A u \in Upstream[s] : recs[u] \in Finished /\ basis'[s][u] = disk'[u]
    BY <1>4, <1>6, UpstreamIsEarlier DEF AgreesWithDisk
  <1>7. stageRecords[at[k]] \notin Finished
    BY <1>2, <1>3, <1>5 DEF LocalsAgree
  <1>8. AgreesWithDisk(records[k])' /\ AgreesWithDisk(stageRecords)'
    BY <1>2, <1>4, <1>5, <1>6, <1>7 DEF LocalsAgree, AgreesWithDisk, storeVars
  <1>9. \A u \in Upstream[at[k]] : basis'[at[k]][u] = disk'[u]
    <2>1. \A u \in Upstream[at[k]] : u \in Stage /\ u # at[k]
      BY <1>3, UpstreamIsEarlier, NextPosition
    <2> QED BY <1>2, <1>3, <1>4, <2>1 DEF LocalsAgree
  <1>10. LocalsAgree(k)'
    BY <1>2, <1>4, <1>5, <1>8, <1>9 DEF LocalsAgree, storeVars
  <1> QED BY <1>1, <1>4, <1>8, <1>10, LoneStep

\* The output is recorded as finished with its inputs as it read them.
LEMMA FinishAgrees ==
  ASSUME TypeInv, EngineInv, Alone, FilesAgree, NEW k \in LiveExecutions,
         NEW status \in Finished, FinishStage(k, status)
  PROVE  Alone' /\ FilesAgree'
  <1>1. k \in Execution /\ (\A j \in LiveExecutions : j = k) /\ OthersStay(k)
    BY DEF Alone, LiveExecutions, FinishStage, Advance, RecordAndFlush, OthersStay, TypeInv,
       TypeOK
  <1>2. LocalsAgree(k) /\ pc[k] = "written" /\ lost = {}
    BY DEF FilesAgree, FinishStage
  <1>3. at[k] \in Stage /\ \A u \in Upstream[at[k]] : records[k][u] \in Finished
    BY <1>1, <1>2, InsideMeansReady
  <1>4. /\ UNCHANGED <<diskVars, held>> /\ pc'[k] = "loop"
        /\ stageRecords' = records'[k] /\ records'[k][at[k]] = status
        /\ \A s \in Stage \ {at[k]} : records'[k][s] = records[k][s]
    BY <1>1, <1>3 DEF FinishStage, Advance, RecordAndFlush, Flush, TypeInv, TypeOK
  <1>5. AgreesWithDisk(records[k])'
    <2>1. ASSUME NEW s \in Stage, records'[k][s] \in Finished, NEW u \in Upstream[s]
          PROVE  records'[k][u] \in Finished /\ basis[s][u] = disk[u]
      BY <1>2, <1>3, <1>4, <2>1, UpstreamIsEarlier DEF LocalsAgree, AgreesWithDisk
    <2> QED BY <1>4, <2>1 DEF AgreesWithDisk, diskVars
  <1>6. LocalsAgree(k)' /\ AgreesWithDisk(stageRecords)'
    BY <1>2, <1>4, <1>5 DEF LocalsAgree, diskVars
  <1> QED BY <1>1, <1>2, <1>4, <1>6, LoneStep DEF diskVars

\* With room for one executor alone, a resume is accepted when none is live.
LEMMA RequestAlone ==
  ASSUME MaxLive <= 1, NEW k \in Execution, RequestResume(k)
  PROVE  LiveExecutions = {}
  <1>1. IsFiniteSet(LiveExecutions)
    <2>1. IsFiniteSet(Execution)
      BY FS_Interval, BoundsAreNatural DEF Execution
    <2> QED BY <2>1, FS_Subset DEF LiveExecutions
  <1>2. Cardinality(LiveExecutions) \in Nat /\ Cardinality(LiveExecutions) < 1
    BY <1>1, FS_CardinalityType, BoundsAreNatural DEF RequestResume
  <1> QED BY <1>1, <1>2, FS_EmptySet

\* A thread that steps, reports or dies is live, and touches no other's locals.
LEMMA LiveStep ==
  ASSUME TypeInv, NEW k \in Execution, Step(k) \/ ReportProgress(k) \/ Die(k)
  PROVE  k \in LiveExecutions /\ OthersStay(k) /\ losses' = losses
  <1>1. k \in LiveExecutions
    BY DEF Step, LoadManifest, Begin, StopBetweenStages, SkipBlocked, SkipProduced,
       StartStage, PassedCheckpoint, AtCheckpoint, StopMidStage, FailStage, HaltStage,
       WriteOutput, FinishStage, RefuseOutput, Settle, SettleCancelled, ReportProgress,
       Die, LiveExecutions, Live
  <1>2. OthersStay(k)
    BY DEF Step, LoadManifest, Begin, StopBetweenStages, SkipBlocked, SkipProduced,
       StartStage, StopMidStage, FailStage, HaltStage, WriteOutput, FinishStage,
       RefuseOutput, Settle, SettleCancelled, ReportProgress, Die, Advance,
       RecordAndFlush, BlockStage, Forget, loopVars, OthersStay, TypeInv, TypeOK
  <1>3. losses' = losses
    BY DEF Step, LoadManifest, Begin, StopBetweenStages, SkipBlocked, SkipProduced,
       StartStage, StopMidStage, FailStage, HaltStage, WriteOutput, FinishStage,
       RefuseOutput, Settle, SettleCancelled, ReportProgress, Die, faultVars
  <1> QED BY <1>1, <1>2, <1>3

\* Every step keeps one executor at a time, agreeing with the disk.
LEMMA StepKeepsAgreement ==
  ASSUME MaxLive <= 1, TypeInv, EngineInv, LoneExecutorInv, [Next]_vars
  PROVE  LoneExecutorInv'
  <1> USE DEF LoneExecutorInv
  <1>1. ASSUME NEW k \in Execution, Step(k) \/ ReportProgress(k) \/ Die(k)
        PROVE  k \in LiveExecutions /\ Alone' /\ losses' = losses
    <2>1. k \in LiveExecutions /\ OthersStay(k) /\ losses' = losses
      BY <1>1, LiveStep
    <2> QED BY <2>1 DEF Alone, LiveExecutions, OthersStay
  <1>2. ASSUME NEW k \in Execution, Step(k) \/ ReportProgress(k) \/ Die(k), losses = 0
        PROVE  FilesAgree'
    <2>1. /\ k \in LiveExecutions /\ Alone /\ FilesAgree /\ OthersStay(k)
      <3>1. OthersStay(k)
        BY <1>2, LiveStep
      <3> QED BY <1>1, <1>2, <3>1
    <2>2. CASE LoadManifest(k)
      BY <2>1, <2>2, LoadAgrees
    <2> USE <2>1
    <2>3. pc[k] # "requested" => LocalsAgree(k)
      BY DEF FilesAgree
    <2>4. CASE Begin(k) \/ StopBetweenStages(k) \/ SkipProduced(k) \/ ReportProgress(k)
      BY <2>4, NothingNewAgrees
         DEF Begin, StopBetweenStages, SkipProduced, ReportProgress, PassedCheckpoint,
             AtCheckpoint, Flush, Advance, loopVars, storeVars, TypeInv, TypeOK, LiveExecutions
    <2>5. CASE SkipBlocked(k)
      <3>1. pc[k] = "loop" /\ pc'[k] = "loop" /\ k \in Execution
            /\ \A t \in Stage \ {at[k]} : held'[k][t] = held[k][t]
        BY <2>5 DEF SkipBlocked, PassedCheckpoint, AtCheckpoint, Advance, LiveExecutions,
           TypeInv, TypeOK
      <3>2. at[k] \in Stage /\ records[k][at[k]] \notin Finished
        BY <2>3, <2>5, <3>1, UnfinishedAtHand
      <3> QED BY <2>5, <3>1, <3>2, UnfinishedAgrees
              DEF SkipBlocked, Finished, Places
    <2>6. CASE StartStage(k)
      <3>1. pc[k] = "loop" /\ pc'[k] = "running" /\ k \in Execution /\ at' = at /\ held' = held
        BY <2>6 DEF StartStage, PassedCheckpoint, AtCheckpoint, LiveExecutions, TypeInv, TypeOK
      <3>2. at[k] \in Stage /\ records[k][at[k]] \notin Finished
        BY <2>3, <2>6, <3>1, UnfinishedAtHand
      <3>3. records'[k][at[k]] = "running" /\ RecordAndFlush(k, at[k], "running")
        BY <2>6, <3>1, <3>2 DEF StartStage, RecordAndFlush, TypeInv, TypeOK
      <3> QED BY <2>6, <3>1, <3>2, <3>3, UnfinishedAgrees DEF StartStage, Finished, Places
    <2>7. CASE StopMidStage(k) \/ FailStage(k) \/ HaltStage(k) \/ RefuseOutput(k)
      <3>1. /\ pc[k] \in {"running", "written"} /\ held' = held
            /\ pc'[k] \in {"stopping", "loop"} /\ UNCHANGED <<diskVars>>
            /\ \E status \in {"cancelled", "error", "awaiting_review"} :
                 RecordAndFlush(k, at[k], status)
        BY <2>7 DEF StopMidStage, FailStage, HaltStage, RefuseOutput, Advance,
           LiveExecutions, TypeInv, TypeOK
      <3>2. records[k][at[k]] \notin Finished /\ at[k] \in Stage
        BY <2>3, <3>1, InsideMeansReady DEF LocalsAgree, Finished, LiveExecutions
      <3>3. PICK status \in {"cancelled", "error", "awaiting_review"} :
              RecordAndFlush(k, at[k], status)
        BY <3>1
      <3> QED BY <3>1, <3>2, <3>3, UnfinishedAgrees DEF Finished, Places
    <2>8. CASE WriteOutput(k)
      BY <2>8, WriteAgrees
    <2>9. CASE \E status \in Finished : FinishStage(k, status)
      BY <2>9, FinishAgrees
    <2>10. CASE Settle(k) \/ SettleCancelled(k) \/ Die(k)
      <3>1. /\ pc'[k] \in {"ended", "dead"} /\ UNCHANGED <<diskVars>>
            /\ stageRecords' \in {stageRecords, records[k]}
            /\ pc[k] = "requested" => stageRecords' = stageRecords
        <4>1. k \in Execution
          BY DEF LiveExecutions
        <4>2. CASE Settle(k)
          BY <4>1, <4>2 DEF Settle, TypeInv, TypeOK
        <4>3. CASE SettleCancelled(k)
          BY <4>1, <4>3 DEF SettleCancelled, TypeInv, TypeOK
        <4>4. CASE Die(k)
          BY <4>1, <4>4 DEF Die, storeVars, TypeInv, TypeOK
        <4> QED BY <2>10, <4>2, <4>3, <4>4
      <3>2. AgreesWithDisk(stageRecords)' /\ lost' = {}
        BY <2>3, <3>1 DEF LocalsAgree, FilesAgree, AgreesWithDisk, diskVars
      <3> QED BY <3>1, <3>2, LoneStep DEF Alone, LiveExecutions, Live
    <2> QED BY <1>2, <2>2, <2>4, <2>5, <2>6, <2>7, <2>8, <2>9, <2>10 DEF Step
  <1>3. ASSUME NEW k \in Execution, RequestResume(k) PROVE LoneExecutorInv'
    <2>1. LiveExecutions = {}
      BY <1>3, RequestAlone
    <2>2. \A j \in LiveExecutions' : j = k /\ pc'[j] = "requested"
      BY <1>3, <2>1 DEF RequestResume, LiveExecutions, TypeInv, TypeOK
    <2>3. UNCHANGED <<storeVars, diskVars, losses>>
      BY <1>3 DEF RequestResume, faultVars
    <2> QED BY <2>2, <2>3 DEF Alone, FilesAgree, AgreesWithDisk, storeVars, diskVars
  <1>4. CASE Crash
    <2>1. LiveExecutions' = {} /\ UNCHANGED <<storeVars, diskVars, losses>>
      BY <1>4 DEF Crash, LiveExecutions, Live
    <2> QED BY <2>1 DEF Alone, FilesAgree, AgreesWithDisk, storeVars, diskVars
  <1>5. ASSUME NEW s \in Stage, LoseOutput(s) PROVE LoneExecutorInv'
    <2>1. losses' # 0 /\ pc' = pc
      BY <1>5 DEF LoseOutput, TypeInv, TypeOK
    <2> QED BY <2>1 DEF Alone, LiveExecutions
  <1>6. CASE RefuseResume \/ (\E c \in Cancellers : ReadForCancel(c) \/ PostCancel(c))
             \/ UNCHANGED vars
    <2>1. UNCHANGED <<storeVars, diskVars, pc, loopVars, losses>>
      BY <1>6 DEF RefuseResume, ReadForCancel, PostCancel, faultVars, vars
    <2> QED BY <2>1 DEF Alone, LiveExecutions, FilesAgree, LocalsAgree, AgreesWithDisk,
               storeVars, diskVars, loopVars
  <1> QED BY <1>1, <1>2, <1>3, <1>4, <1>5, <1>6 DEF Next

\* With one executor alive at a time, and while no output file was lost, every
\* finished stage's output was computed from the outputs its upstream stages
\* have on disk now, whatever deaths, cancels, halts and resumes there were.
THEOREM OutputsAgreeAlone ==
  ASSUME MaxLive <= 1
  PROVE  Spec => []OutputsAgree
  <1>1. Init => LoneExecutorInv
    <2> SUFFICES ASSUME Init PROVE LoneExecutorInv
      OBVIOUS
    <2>1. \A k \in LiveExecutions : k = 1
      BY DEF Init, LiveExecutions, Live
    <2>2. "pending" \notin Finished
      BY DEF Finished
    <2> QED BY <2>1, <2>2 DEF Init, LoneExecutorInv, Alone, FilesAgree, LocalsAgree,
               AgreesWithDisk, NothingRan, LiveExecutions
  <1>2. TypeInv /\ EngineInv /\ LoneExecutorInv /\ [Next]_vars => LoneExecutorInv'
    BY StepKeepsAgreement
  <1>3. LoneExecutorInv => OutputsAgree
    BY DEF LoneExecutorInv, FilesAgree, AgreesWithDisk, OutputsAgree
  <1> QED BY <1>1, <1>2, <1>3, InvAlways, PTL DEF Spec

-----------------------------------------------------------------------------
(***************************************************************************)
(* One executor at a time: its records are the manifest's, so each write   *)
(* of the manifest is a step RunRecord promises.                           *)
(***************************************************************************)

PromisedStep == [Promise!Next]_(Promise!recordVars)

\* What is left to show of a step of the one live execution.
LEMMA WriterStep ==
  ASSUME NEW k \in Execution, OthersStay(k), \A j \in LiveExecutions : j = k,
         pc'[k] \in Live \ {"requested"} => WritesAlone(k)'
  PROVE  LoneWriterInv'
  BY OneLives DEF LoneWriterInv, LiveExecutions

\* A record flushed is one turn of the manifest.
LEMMA FlushedTurn ==
  ASSUME TypeInv, NEW k \in Execution, WritesAlone(k), pc[k] # "begun",
         NEW s \in Stage, NEW status, RecordAndFlush(k, s, status)
  PROVE  /\ Promise!Turn(s, status)
         /\ records'[k] = stageRecords'
         /\ runStatus' = "running" /\ haltedAt' = {}
         /\ stageRecords'[s] = status
         /\ \A t \in Stage \ {s} : records'[k][t] = records[k][t]
  BY DEF RecordAndFlush, Flush, WritesAlone, Promise!Turn, TypeInv, TypeOK

\* A turn of the stage at hand leaves the thread writing alone.
LEMMA TurnKeepsWriter ==
  ASSUME TypeInv, NEW k \in Execution, WritesAlone(k), pc[k] # "begun",
         OthersStay(k), \A j \in LiveExecutions : j = k,
         NEW s \in Stage, NEW status, RecordAndFlush(k, s, status), lost' = lost,
         \A t \in Stage \ {s} : held'[k][t] = held[k][t],
         status \in Finished => held'[k][s] # 0,
         pc'[k] \notin {"begun", "written"},
         pc'[k] = "running" => status = "running" /\ at'[k] = s
  PROVE  LoneWriterInv' /\ Promise!Turn(s, status)
  <1>1. /\ Promise!Turn(s, status)
        /\ records'[k] = stageRecords'
        /\ runStatus' = "running" /\ haltedAt' = {}
        /\ stageRecords'[s] = status
        /\ \A t \in Stage \ {s} : records'[k][t] = records[k][t]
    BY FlushedTurn
  <1>2. HoldsWhatIsLeft(k)'
    <2>1. ASSUME NEW t \in Stage, records'[k][t] \in Finished, held'[k][t] = 0
          PROVE  t \in lost
      BY <1>1, <2>1 DEF WritesAlone, HoldsWhatIsLeft
    <2> QED BY <2>1 DEF HoldsWhatIsLeft
  <1> QED BY <1>1, <1>2, WriterStep DEF WritesAlone

\* A resume's thread takes its records from the manifest, and every finished
\* stage it finds no output for has lost it.
LEMMA LoadKeepsWriter ==
  ASSUME TypeInv, EngineInv, NEW k \in LiveExecutions, LoadManifest(k),
         OthersStay(k), \A j \in LiveExecutions : j = k
  PROVE  LoneWriterInv'
  <1>1. k \in Execution
    BY DEF LiveExecutions
  <1>2. /\ UNCHANGED <<storeVars, diskVars>> /\ pc'[k] = "begun"
        /\ records'[k] = stageRecords
        /\ \A s \in Stage : held'[k][s] =
             IF stageRecords[s] \in Finished /\ s \notin lost THEN disk[s] ELSE 0
    BY <1>1 DEF LoadManifest, TypeInv, TypeOK
  <1>3. \A s \in Stage : stageRecords[s] \in Finished => disk[s] # 0
    BY DEF EngineInv, FinishedHasOutput, TypeInv, TypeOK
  <1>4. WritesAlone(k)'
    BY <1>2, <1>3 DEF WritesAlone, HoldsWhatIsLeft, storeVars, diskVars
  <1> QED BY <1>1, <1>4, WriterStep

\* An execution's first write takes the run up again.
LEMMA BeginKeepsWriter ==
  ASSUME TypeInv, NEW k \in Execution, WritesAlone(k), Begin(k),
         OthersStay(k), \A j \in LiveExecutions : j = k
  PROVE  LoneWriterInv' /\ PromisedStep
  <1>1. /\ UNCHANGED <<diskVars, records, held, stageRecords>> /\ pc'[k] = "loop"
        /\ runStatus' = "running" /\ haltedAt' = {}
    BY DEF Begin, Flush, WritesAlone, TypeInv, TypeOK
  <1>2. WritesAlone(k)'
    BY <1>1 DEF WritesAlone, HoldsWhatIsLeft, diskVars
  <1>3. Promise!Reopen
    BY <1>1 DEF Promise!Reopen
  <1> QED BY <1>2, <1>3, WriterStep DEF Promise!Next, PromisedStep

\* A stage below one that will not finish is put back.
LEMMA SkipBlockedIsPutBack ==
  ASSUME TypeInv, EngineInv, NEW k \in Execution, WritesAlone(k), SkipBlocked(k),
         OthersStay(k), \A j \in LiveExecutions : j = k
  PROVE  LoneWriterInv' /\ PromisedStep
  <1>1. at[k] \in Stage /\ pc[k] = "loop" /\ pc'[k] = "loop"
        /\ RecordAndFlush(k, at[k], "pending") /\ lost' = lost
        /\ \A t \in Stage \ {at[k]} : held'[k][t] = held[k][t]
    BY DEF SkipBlocked, PassedCheckpoint, AtCheckpoint, Advance, diskVars, TypeInv, TypeOK
  <1>2. LoneWriterInv' /\ Promise!Turn(at[k], "pending")
    BY <1>1, TurnKeepsWriter DEF Finished
  <1>3. BooksAgree(k)
    BY <1>1 DEF EngineInv, ExecutionInv
  <1>4. PICK u \in Upstream[at[k]] : u \in blocked[k]
    BY DEF SkipBlocked, BlockingUpstream
  <1>5. u \in Passed(k) /\ records[k][u] \notin Finished \cup {"running", "cancelled"}
        /\ records[k][u] \in StageStatuses
    BY <1>1, <1>3, <1>4, UpstreamIsEarlier DEF BooksAgree, Passed, TypeInv, TypeOK
  <1>6. stageRecords[u] \in {"pending", "error", "awaiting_review"}
    BY <1>5 DEF WritesAlone, StageStatuses, Finished
  <1> QED BY <1>1, <1>2, <1>4, <1>6 DEF Promise!PutBack, Promise!Next, PromisedStep

\* A stage starts with all it reads finished, and again only if it is lost.
LEMMA StartIsPromised ==
  ASSUME TypeInv, EngineInv, NEW k \in Execution, WritesAlone(k), StartStage(k),
         OthersStay(k), \A j \in LiveExecutions : j = k
  PROVE  LoneWriterInv' /\ PromisedStep
  <1>1. at[k] \in Stage /\ pc[k] = "loop" /\ pc'[k] = "running"
        /\ RecordAndFlush(k, at[k], "running") /\ UNCHANGED <<lost, held, at>>
    BY DEF StartStage, PassedCheckpoint, AtCheckpoint, diskVars, TypeInv, TypeOK
  <1>2. LoneWriterInv' /\ Promise!Turn(at[k], "running")
    BY <1>1, TurnKeepsWriter DEF Finished
  <1>3. BooksAgree(k)
    BY <1>1 DEF EngineInv, ExecutionInv
  <1>4. \A u \in Upstream[at[k]] : stageRecords[u] \in Promise!Finished
    <2>1. ASSUME NEW u \in Upstream[at[k]] PROVE records[k][u] \in Finished
      <3>1. u \in Passed(k) /\ u \notin blocked[k]
        BY <1>1, UpstreamIsEarlier DEF StartStage, BlockingUpstream, Passed
      <3> QED BY <1>3, <3>1 DEF BooksAgree
    <2> QED BY <2>1 DEF WritesAlone, Finished, Promise!Finished
  <1>5. stageRecords[at[k]] \in Promise!Finished => at[k] \in lost
    <2>1. ASSUME records[k][at[k]] \in Finished PROVE held[k][at[k]] = 0
      BY <1>1, <2>1 DEF StartStage, AlreadyProduced, TypeInv, TypeOK
    <2> QED BY <1>1, <2>1 DEF WritesAlone, HoldsWhatIsLeft, Finished, Promise!Finished
  <1> QED BY <1>1, <1>2, <1>4, <1>5 DEF Promise!Start, Promise!Next, PromisedStep

\* A verdict on the stage at hand, which the manifest says is running.
LEMMA ConcludeIsPromised ==
  ASSUME TypeInv, EngineInv, NEW k \in Execution, WritesAlone(k),
         pc[k] \in {"running", "written"}, OthersStay(k), \A j \in LiveExecutions : j = k,
         NEW status \in Finished \cup {"error", "awaiting_review", "cancelled"},
         status \in Finished => pc[k] = "written",
         RecordAndFlush(k, at[k], status), UNCHANGED <<diskVars, held>>,
         pc'[k] \in {"loop", "stopping"}
  PROVE  LoneWriterInv' /\ PromisedStep
  <1>1. at[k] \in Stage /\ stageRecords[at[k]] = "running"
    BY DEF TypeInv, InsideAStage, WritesAlone
  <1>2. pc[k] = "written" => held[k][at[k]] # 0
    BY <1>1 DEF EngineInv, ExecutionInv, TypeInv, TypeOK
  <1>3. LoneWriterInv' /\ Promise!Turn(at[k], status)
    BY <1>1, <1>2, TurnKeepsWriter DEF diskVars
  <1> QED BY <1>1, <1>3 DEF Promise!Conclude, Promise!Next, PromisedStep, Finished,
             Promise!Finished

\* An output is written, and what was lost of the stage is there again.
LEMMA WriteKeepsWriter ==
  ASSUME TypeInv, NEW k \in Execution, WritesAlone(k), WriteOutput(k),
         OthersStay(k), \A j \in LiveExecutions : j = k
  PROVE  LoneWriterInv'
  <1>1. at[k] \in Stage
    BY DEF WriteOutput, TypeInv, InsideAStage
  <1>2. /\ UNCHANGED <<storeVars, records, at>> /\ pc[k] = "running" /\ pc'[k] = "written"
        /\ lost' = lost \ {at[k]} /\ held'[k][at[k]] # 0
        /\ \A t \in Stage \ {at[k]} : held'[k][t] = held[k][t]
    BY <1>1 DEF WriteOutput, TypeInv, TypeOK
  <1>3. HoldsWhatIsLeft(k)'
    BY <1>1, <1>2 DEF WritesAlone, HoldsWhatIsLeft
  <1> QED BY <1>2, <1>3, WriterStep DEF WritesAlone, storeVars

\* A thread that moves on in its loop, or writes the manifest it has written.
LEMMA QuietKeepsWriter ==
  ASSUME TypeInv, NEW k \in Execution, WritesAlone(k), pc[k] # "begun",
         StopBetweenStages(k) \/ SkipProduced(k) \/ ReportProgress(k),
         OthersStay(k), \A j \in LiveExecutions : j = k
  PROVE  LoneWriterInv' /\ UNCHANGED storeVars
  <1>1. /\ UNCHANGED <<storeVars, diskVars, records, held>>
        /\ pc'[k] \in {"running", "written"} => pc'[k] = pc[k] /\ at'[k] = at[k]
        /\ pc'[k] # "begun"
    BY DEF StopBetweenStages, SkipProduced, ReportProgress, PassedCheckpoint, AtCheckpoint,
       Advance, Flush, WritesAlone, storeVars, loopVars, TypeInv, TypeOK
  <1>2. WritesAlone(k)'
    BY <1>1 DEF WritesAlone, HoldsWhatIsLeft, storeVars, diskVars
  <1> QED BY <1>1, <1>2, WriterStep

\* An execution's last write settles the manifest it has written.
LEMMA SettleIsPromised ==
  ASSUME TypeInv, EngineInv, NEW k \in Execution, WritesAlone(k), pc[k] # "begun",
         Settle(k) \/ SettleCancelled(k)
  PROVE  PromisedStep
  <1>1. CASE Settle(k)
    <2>1. Promise!Explained(records[k]) /\ halted[k] = Promise!HaltedStages(records[k])
      BY <1>1, SettledStore DEF EngineInv, TypeInv
    <2>2. \A S : FinalRunStatus(S) = Promise!FinalRunStatus(S)
      BY DEF FinalRunStatus, Promise!FinalRunStatus
    <2>3. /\ runStatus = "running" /\ records[k] = stageRecords
          /\ stageRecords' = stageRecords
          /\ runStatus' = Promise!FinalRunStatus({stageRecords[s] : s \in Stage})
          /\ haltedAt' = halted[k]
      BY <1>1, <2>2 DEF Settle, WritesAlone
    <2> QED BY <2>1, <2>3 DEF Promise!Settle, Promise!Next, PromisedStep
  <1>2. CASE SettleCancelled(k)
    <2>1. Promise!Stop
      BY <1>2 DEF SettleCancelled, WritesAlone, Promise!Stop
    <2> QED BY <2>1 DEF Promise!Next, PromisedStep
  <1> QED BY <1>1, <1>2

\* What the one executor's steps do to its records and to the manifest.
LEMMA LoneWriterSteps ==
  ASSUME TypeInv, EngineInv, LoneWriterInv, NEW k \in Execution,
         Step(k) \/ ReportProgress(k) \/ Die(k)
  PROVE  LoneWriterInv' /\ PromisedStep
  <1>1. k \in LiveExecutions /\ OthersStay(k) /\ \A j \in LiveExecutions : j = k
    BY LiveStep DEF LoneWriterInv, Alone
  <1>2. pc[k] # "requested" => WritesAlone(k)
    BY <1>1 DEF LoneWriterInv
  <1> USE <1>1
  <1>3. CASE LoadManifest(k)
    <2>1. UNCHANGED storeVars
      BY <1>3 DEF LoadManifest
    <2> QED BY <1>3, <2>1, LoadKeepsWriter DEF storeVars, Promise!recordVars, PromisedStep
  <1>4. CASE Begin(k)
    BY <1>2, <1>4, BeginKeepsWriter DEF Begin
  <1>5. CASE StopBetweenStages(k) \/ SkipProduced(k) \/ ReportProgress(k)
    <2>1. pc[k] \notin {"begun", "requested"}
      BY <1>5 DEF StopBetweenStages, SkipProduced, ReportProgress, PassedCheckpoint,
         AtCheckpoint
    <2> QED BY <1>2, <1>5, <2>1, QuietKeepsWriter
            DEF storeVars, Promise!recordVars, PromisedStep
  <1>6. CASE SkipBlocked(k)
    BY <1>2, <1>6, SkipBlockedIsPutBack DEF SkipBlocked, PassedCheckpoint, AtCheckpoint
  <1>7. CASE StartStage(k)
    BY <1>2, <1>7, StartIsPromised DEF StartStage, PassedCheckpoint, AtCheckpoint
  <1>8. CASE StopMidStage(k) \/ FailStage(k) \/ HaltStage(k) \/ RefuseOutput(k)
    <2>1. /\ pc[k] \in {"running", "written"} /\ UNCHANGED <<diskVars, held>>
          /\ pc'[k] \in {"loop", "stopping"}
          /\ \E status \in {"error", "awaiting_review", "cancelled"} :
               RecordAndFlush(k, at[k], status)
      BY <1>8 DEF StopMidStage, FailStage, HaltStage, RefuseOutput, Advance, TypeInv, TypeOK
    <2>2. PICK status \in {"error", "awaiting_review", "cancelled"} :
            RecordAndFlush(k, at[k], status)
      BY <2>1
    <2> QED BY <1>2, <2>1, <2>2, ConcludeIsPromised DEF Finished
  <1>9. CASE \E status \in Finished : FinishStage(k, status)
    <2>1. PICK status \in Finished : FinishStage(k, status)
      BY <1>9
    <2>2. /\ pc[k] = "written" /\ UNCHANGED <<diskVars, held>> /\ pc'[k] = "loop"
          /\ RecordAndFlush(k, at[k], status)
      BY <2>1 DEF FinishStage, Advance, TypeInv, TypeOK
    <2> QED BY <1>2, <2>1, <2>2, ConcludeIsPromised
  <1>10. CASE WriteOutput(k)
    <2>1. UNCHANGED storeVars
      BY <1>10 DEF WriteOutput
    <2> QED BY <1>2, <1>10, <2>1, WriteKeepsWriter
            DEF WriteOutput, storeVars, Promise!recordVars, PromisedStep
  <1>11. CASE Settle(k) \/ SettleCancelled(k)
    <2>1. pc[k] \notin {"requested", "begun"} /\ pc'[k] = "ended"
      BY <1>11 DEF Settle, SettleCancelled, TypeInv, TypeOK
    <2> QED BY <1>2, <1>11, <2>1, SettleIsPromised, WriterStep DEF Live
  <1>12. CASE Die(k)
    <2>1. UNCHANGED storeVars /\ pc'[k] = "dead"
      BY <1>12 DEF Die, TypeInv, TypeOK
    <2> QED BY <2>1, WriterStep DEF Live, storeVars, Promise!recordVars, PromisedStep
  <1> QED BY <1>3, <1>4, <1>5, <1>6, <1>7, <1>8, <1>9, <1>10, <1>11, <1>12 DEF Step

\* Every step keeps one writer at a time, and every write is promised.
LEMMA StepKeepsPromise ==
  ASSUME MaxLive <= 1, TypeInv, EngineInv, LoneWriterInv, [Next]_vars
  PROVE  LoneWriterInv' /\ PromisedStep
  <1>1. ASSUME NEW k \in Execution, RequestResume(k)
        PROVE  LoneWriterInv' /\ UNCHANGED storeVars
    <2>1. LiveExecutions = {}
      BY <1>1, RequestAlone
    <2>2. \A j \in LiveExecutions' : j = k /\ pc'[j] = "requested"
      BY <1>1, <2>1 DEF RequestResume, LiveExecutions, TypeInv, TypeOK
    <2> QED BY <1>1, <2>2 DEF RequestResume, LoneWriterInv, Alone
  <1>2. CASE Crash
    <2>1. LiveExecutions' = {} /\ UNCHANGED storeVars
      BY <1>2 DEF Crash, LiveExecutions, Live
    <2> QED BY <2>1 DEF LoneWriterInv, Alone, storeVars, Promise!recordVars, PromisedStep
  <1>3. CASE (\E s \in Stage : LoseOutput(s)) \/ RefuseResume \/ UNCHANGED vars
             \/ (\E c \in Cancellers : ReadForCancel(c) \/ PostCancel(c))
    <2>1. UNCHANGED <<storeVars, pc, loopVars>> /\ lost \subseteq lost'
      BY <1>3 DEF LoseOutput, RefuseResume, ReadForCancel, PostCancel, vars, diskVars
    <2> QED BY <2>1 DEF LoneWriterInv, Alone, LiveExecutions, WritesAlone, HoldsWhatIsLeft,
               storeVars, loopVars, Promise!recordVars, PromisedStep
  <1> QED BY <1>1, <1>2, <1>3, LoneWriterSteps
          DEF Next, storeVars, Promise!recordVars, PromisedStep

\* With one executor alive at a time, the engine with its threads, its files,
\* its cancels and its deaths implements RunRecord: whatever document readers
\* find next follows from the one they have as they were promised.
THEOREM EngineKeepsThePromise ==
  ASSUME MaxLive <= 1
  PROVE  Spec => RecordKeepsItsPromise
  <1>1. Init => LoneWriterInv
    <2> SUFFICES ASSUME Init PROVE LoneWriterInv
      OBVIOUS
    <2>1. \A k \in LiveExecutions : k = 1 /\ pc[k] = "begun"
      BY DEF Init, LiveExecutions, Live
    <2>2. "pending" \notin Finished
      BY DEF Finished
    <2> QED BY <2>1, <2>2 DEF Init, LoneWriterInv, Alone, WritesAlone, HoldsWhatIsLeft,
               NothingRan, LiveExecutions
  <1>2. Init => Promise!Init
    BY DEF Init, Promise!Init, NothingRan
  <1>3. TypeInv /\ EngineInv /\ LoneWriterInv /\ [Next]_vars
        => LoneWriterInv' /\ [Promise!Next]_(Promise!recordVars)
    BY StepKeepsPromise DEF PromisedStep
  <1> QED BY <1>1, <1>2, <1>3, InvAlways, PTL
          DEF Spec, RecordKeepsItsPromise, Promise!Spec
=============================================================================
