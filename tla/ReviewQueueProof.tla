-------------------------- MODULE ReviewQueueProof --------------------------
(***************************************************************************)
(* What ReviewQueue promises of the decisions people take, for any number  *)
(* of rows, reviewers, executions and faults: a finished queue passes no   *)
(* row undecided, and a halted one asks for no row that was decided.       *)
(*                                                                         *)
(* The argument follows a decision from the ledger outwards.  Whatever the *)
(* handed decisions hold of a row is a decision of that row the ledger     *)
(* keeps, and whatever the cache holds is one or was imported; an          *)
(* execution's results are of the first kind unless it replays the cache.  *)
(* And what the ledger held when an execution was asked for is in the      *)
(* decisions it is handed, so in the results of every row it has mapped,   *)
(* so in no queue it files.                                                *)
(***************************************************************************)
EXTENDS ReviewQueue, FiniteSetTheorems, WellFoundedInduction, TLAPS

\* What is held of a row is a verdict on that row, out of those given.
Genuine(held, verdicts) ==
  \A r \in Row : held[r] # NoDecision => held[r] \in verdicts /\ held[r].row = r

\* What the cache may hold: the verdicts of the ledger, and those imported.
Cached == ledger \cup ImportedVerdicts(imported)

VerdictsAreVouchedFor ==
  /\ Genuine(handed, ledger)
  /\ Genuine(cache, Cached)
  /\ Genuine(recorded, Verdicts) /\ Genuine(results, Verdicts)

\* A request names a row of the frame, and from JudgeRow on it holds a decision
\* of that row; once it is saved the ledger has it.
RequestInOrder(v) ==
  /\ request[v].at \in {"open", "filed", "aligned", "judged", "saved"} => request[v].row \in Row
  /\ request[v].at \in {"judged", "saved"} =>
       request[v].judged = request[v].row /\ request[v].stamp \in Stamp
  /\ request[v].at = "saved" => DecisionOf(v) \in ledger

LedgerInvariant ==
  /\ TypeOK
  /\ IsFiniteSet(ledger)
  /\ VerdictsAreVouchedFor
  /\ \A v \in Reviewer : RequestInOrder(v)
  /\ DecisionMatchesItsRow
  /\ NoRowPassesUndecided

\* An execution is handed what the ledger held, answers each row it maps that was
\* handed one, and files none but the rows it left unanswered.
HandedTheLedger ==
  phase # "idle" => \A d \in ledgerBefore : handed[d.row] # NoDecision

AnsweredAsHanded ==
  /\ phase \in {"idle", "launched", "opening"} => next = 1
  /\ \A r \in Row : r < next /\ handed[r] # NoDecision => results[r] # NoDecision

FiledTheDeferred ==
  phase \in {"snapshotted", "filed"} =>
    /\ next = RowCount + 1
    /\ \A i \in DOMAIN snapshot : snapshot[i] \in Deferred

QueueInvariant == LedgerInvariant /\ HandedTheLedger /\ AnsweredAsHanded /\ FiledTheDeferred

-----------------------------------------------------------------------------
(* Rows and decisions.                                                     *)

\* A set of the frame's rows is finite and no larger than the frame.
LEMMA RowsAreFinite ==
  ASSUME NEW S \in SUBSET Row
  PROVE  IsFiniteSet(S) /\ Cardinality(S) \in 0..RowCount
<1>1. IsFiniteSet(Row) /\ Cardinality(Row) = RowCount /\ RowCount \in Nat
  BY FS_Interval, CachingsAreModes DEF Row
<1>2. IsFiniteSet(S) /\ Cardinality(S) <= RowCount
  BY <1>1, FS_Subset
<1>. QED  BY <1>1, <1>2, FS_CardinalityType

\* Any set of rows can be listed in order: each row stands at its rank.
LEMMA RowsCanBeListed ==
  ASSUME NEW S \in SUBSET Row
  PROVE  \E list \in [1..Cardinality(S) -> S] :
           \A i, j \in DOMAIN list : i < j => list[i] < list[j]
<1> DEFINE n == Cardinality(S)
           upTo(r) == {q \in S : q <= r}
           rank == [r \in S |-> Cardinality(upTo(r))]
<1>1. IsFiniteSet(S) /\ n \in Nat /\ S \subseteq Nat
  BY RowsAreFinite, CachingsAreModes DEF Row
<1>2. \A r \in S : IsFiniteSet(upTo(r)) /\ Cardinality(upTo(r)) \in 1..n
  <2>. SUFFICES ASSUME NEW r \in S  PROVE IsFiniteSet(upTo(r)) /\ Cardinality(upTo(r)) \in 1..n
    OBVIOUS
  <2>1. upTo(r) \in SUBSET S /\ r \in upTo(r)
    BY <1>1
  <2>2. IsFiniteSet(upTo(r)) /\ Cardinality(upTo(r)) <= n /\ Cardinality(upTo(r)) \in Nat
    BY <1>1, <2>1, FS_Subset, FS_CardinalityType
  <2>3. Cardinality(upTo(r)) # 0
    BY <2>1, <2>2, FS_EmptySet
  <2>. QED  BY <1>1, <2>2, <2>3
<1>3. ASSUME NEW q \in S, NEW r \in S, q < r
      PROVE  rank[q] < rank[r]
  <2>1. upTo(q) \in SUBSET upTo(r) /\ r \in upTo(r) /\ r \notin upTo(q)
    <3>1. q \in Nat /\ r \in Nat /\ \A p \in S : p \in Nat
      BY <1>1
    <3>2. \A p \in S : p <= q => p <= r
      BY <1>3, <3>1
    <3>3. r <= r /\ ~(r <= q)
      BY <1>3, <3>1
    <3>4. upTo(q) \in SUBSET upTo(r)
      BY <3>2
    <3>. QED  BY <3>3, <3>4
  <2>2. /\ Cardinality(upTo(q)) <= Cardinality(upTo(r))
        /\ Cardinality(upTo(q)) # Cardinality(upTo(r))
    BY <1>2, <2>1, FS_Subset
  <2>3. Cardinality(upTo(q)) \in Nat /\ Cardinality(upTo(r)) \in Nat
    BY <1>2
  <2>. QED  BY <2>2, <2>3
<1>4. rank \in [S -> 1..n]
  BY <1>2
<1>5. \A q, r \in S : q # r => rank[q] # rank[r]
  <2>1. \A q \in S : q \in Nat /\ rank[q] \in Nat
    BY <1>1, <1>4
  <2>2. \A q, r \in S : q < r => rank[q] < rank[r]
    BY <1>3
  <2> HIDE DEF rank
  <2>. QED  BY <2>1, <2>2
<1>6. rank \in Injection(S, 1..n)
  <2> HIDE DEF rank, n
  <2>. QED  BY <1>4, <1>5 DEF Injection, IsInjective
<1>7. IsFiniteSet(1..n) /\ Cardinality(1..n) = n
  BY <1>1, FS_Interval
<1>8. rank \in Surjection(S, 1..n)
  <2> HIDE DEF rank
  <2>. QED  BY <1>6, <1>7, FS_Injection
<1>9. \A i \in 1..n : \E r \in S : rank[r] = i
  <2> HIDE DEF rank
  <2>. QED  BY <1>8 DEF Surjection
<1> DEFINE list == [i \in 1..n |-> CHOOSE r \in S : rank[r] = i]
<1>10. \A i \in 1..n : list[i] \in S /\ rank[list[i]] = i
  <2> HIDE DEF rank
  <2>. QED  BY <1>9
<1>11. \A i, j \in 1..n : i < j => list[i] < list[j]
  <2>. SUFFICES ASSUME NEW i \in 1..n, NEW j \in 1..n, i < j, ~(list[i] < list[j])  PROVE FALSE
    OBVIOUS
  <2>1. list[i] \in S /\ list[j] \in S /\ rank[list[i]] = i /\ rank[list[j]] = j
    BY <1>10
  <2>2. list[i] = list[j] \/ list[j] < list[i]
    <3>1. list[i] \in Nat /\ list[j] \in Nat
      BY <1>1, <2>1
    <3> HIDE DEF list
    <3>. QED  BY <3>1
  <2>3. CASE list[i] = list[j]
    <3> HIDE DEF list, rank
    <3>. QED  BY <1>1, <2>1, <2>3
  <2>4. CASE list[j] < list[i]
    <3>1. rank[list[j]] < rank[list[i]]
      BY <1>3, <2>1, <2>4
    <3> HIDE DEF list, rank
    <3>. QED  BY <1>1, <2>1, <3>1
  <2>. QED  BY <2>2, <2>3, <2>4
<1>12. list \in [1..n -> S] /\ DOMAIN list = 1..n
  BY <1>10
<1>. QED
  <2> HIDE DEF list, rank
  <2>. QED  BY <1>11, <1>12

\* The queue an execution files lists the rows it deferred.
LEMMA PendingListsTheDeferred ==
  /\ Pending \in [1..Cardinality(Deferred) -> Deferred]
  /\ Pending \in Queues
<1>1. Deferred \in SUBSET Row
  BY DEF Deferred
<1>2. Pending \in [1..Cardinality(Deferred) -> Deferred]
  BY <1>1, RowsCanBeListed DEF Pending
<1>3. Cardinality(Deferred) \in 0..RowCount
  BY <1>1, RowsAreFinite
<1>4. Pending \in [1..Cardinality(Deferred) -> Row]
  BY <1>1, <1>2
<1>. QED  BY <1>2, <1>3, <1>4 DEF Queues

\* A row with a decision in the ledger has a latest one.
LEMMA LatestIsFound ==
  ASSUME IsFiniteSet(ledger), ledger \in SUBSET Decision, NEW r \in Row
  PROVE  /\ LatestDecision(r) # NoDecision => LatestDecision(r) \in ledger /\ LatestDecision(r).row = r
         /\ LatestDecision(r) \in Decision \cup {NoDecision}
         /\ (\E d \in ledger : d.row = r) => LatestDecision(r) # NoDecision
<1> DEFINE decisions == {d \in ledger : d.row = r}
           newer(d) == {e \in decisions : d.stamp < e.stamp}
           newers == {newer(d) : d \in decisions}
<1>1. \A d \in ledger : d.stamp \in Nat /\ d.row \in Row /\ d # NoDecision
  BY DEF Decision, Stamp, NoDecision, Row
<1>2. CASE decisions = {}
  BY <1>2 DEF LatestDecision
<1>3. CASE decisions # {}
  <2>1. IsFiniteSet(decisions)
    BY FS_Subset
  <2>2. \A d \in decisions : newer(d) \in FiniteSubsetsOf(decisions)
    BY <2>1, FS_Subset DEF FiniteSubsetsOf
  <2>3. newers \subseteq FiniteSubsetsOf(decisions) /\ newers # {}
    <3>1. \A later \in newers : \E d \in decisions : later = newer(d)
      OBVIOUS
    <3>2. newers # {}
      <4>1. PICK d \in decisions : TRUE
        BY <1>3
      <4>2. newer(d) \in newers
        BY <4>1
      <4>. QED  BY <4>2
    <3> HIDE DEF newers, newer, decisions
    <3>. QED  BY <2>2, <3>1, <3>2
  <2>4. IsWellFoundedOn(StrictSubsetOrdering(decisions), FiniteSubsetsOf(decisions))
    BY FS_StrictSubsetOrderingWellFounded
  <2>5. PICK least \in newers :
          \A other \in newers : ~ (<<other, least>> \in StrictSubsetOrdering(decisions))
    <3> HIDE DEF newers, decisions
    <3>. QED  BY <2>3, <2>4, WFMin
  <2>6. PICK d \in decisions : least = newer(d)
    BY <2>5
  <2>7. \A e \in decisions : ~(d.stamp < e.stamp)
    <3>. SUFFICES ASSUME NEW e \in decisions, d.stamp < e.stamp  PROVE FALSE
      OBVIOUS
    <3>1. newer(e) \subseteq newer(d) /\ e \in newer(d) /\ e \notin newer(e)
      BY <1>1
    <3>2. <<newer(e), newer(d)>> \in StrictSubsetOrdering(decisions)
      BY <3>1 DEF StrictSubsetOrdering
    <3>. QED  BY <2>5, <2>6, <3>2
  <2>8. \E f \in decisions : \A e \in decisions : e.stamp <= f.stamp
    BY <1>1, <2>7
  <2>9. LatestDecision(r) \in decisions
    BY <1>3, <2>8 DEF LatestDecision
  <2>. QED  BY <1>1, <2>9
<1>. QED  BY <1>2, <1>3

\* What a held decision is made of.
LEMMA NothingIsNoDecision ==
  /\ Undecided \in RowDecisions
  /\ \A verdicts : Genuine(Undecided, verdicts)
  /\ \A d \in Decision : d # NoDecision /\ d.row \in Row
BY CachingsAreModes DEF Undecided, RowDecisions, Genuine, Decision, NoDecision, Row

\* An imported verdict is a verdict on its row, filed under that row.
LEMMA ImportIsAVerdict ==
  ASSUME NEW r \in Row
  PROVE  /\ ImportedVerdict(r) \in ImportedVerdicts(Row)
         /\ ImportedVerdict(r).row = r
         /\ \A rows : r \in rows => ImportedVerdict(r) \in ImportedVerdicts(rows)
BY DEF ImportedVerdict, ImportedVerdicts

\* More verdicts vouch for whatever fewer did.
LEMMA GenuineStays ==
  \A held, few, more : Genuine(held, few) /\ few \subseteq more => Genuine(held, more)
BY DEF Genuine

\* Decisions vouch for what a run passes, and that for what the cache holds.
LEMMA VerdictsAreOrdered ==
  /\ ledger \subseteq Verdicts /\ Verdicts \subseteq Cached
  /\ caching = "read_write" => Verdicts = Cached
BY DEF Verdicts, Cached

\* Neither a ledger nor an import takes a verdict back.
LEMMA VerdictsOnlyGrow ==
  ASSUME ledger \subseteq ledger', imported \subseteq imported', caching' = caching
  PROVE  Verdicts \subseteq Verdicts' /\ Cached \subseteq Cached'
BY DEF Verdicts, Cached, ImportedVerdicts

\* The queue before the first halt.
LEMMA EmptyQueue == <<>> \in Queues
<1>1. <<>> \in [1..0 -> Row]
  OBVIOUS
<1>. QED  BY <1>1, CachingsAreModes DEF Queues

-----------------------------------------------------------------------------
(* Type correctness.                                                       *)

\* No run is recorded before it starts.
LEMMA InitHolds == Init => QueueInvariant
<1>. SUFFICES ASSUME Init  PROVE QueueInvariant
  OBVIOUS
<1>1. <<>> \in Queues
  BY EmptyQueue
<1>2. NoRequest \in Requests /\ NoRequest.at = "idle"
  BY <1>1, CachingsAreModes DEF NoRequest, Requests
<1>3. TypeOK
  BY <1>1, <1>2, NothingIsNoDecision, CachingsAreModes, QueueBounds DEF Init, TypeOK
<1>4. IsFiniteSet(ledger)
  BY FS_EmptySet DEF Init
<1>5. VerdictsAreVouchedFor
  BY NothingIsNoDecision DEF Init, VerdictsAreVouchedFor
<1>6. (\A v \in Reviewer : RequestInOrder(v)) /\ DecisionMatchesItsRow /\ NoRowPassesUndecided
  BY <1>2 DEF Init, RequestInOrder, DecisionMatchesItsRow, NoRowPassesUndecided
<1>7. HandedTheLedger /\ AnsweredAsHanded /\ FiledTheDeferred
  BY CachingsAreModes DEF Init, HandedTheLedger, AnsweredAsHanded, FiledTheDeferred, Row
<1>. QED  BY <1>3, <1>4, <1>5, <1>6, <1>7 DEF QueueInvariant, LedgerInvariant

\* A request that is answered is a request, and names nothing any more.
LEMMA ReplyIsARequest ==
  ASSUME TypeOK, NEW v \in Reviewer, NEW how \in {"answered", "refused"}, Reply(v, how)
  PROVE  /\ request' \in [Reviewer -> Requests]
         /\ request'[v].at = how
         /\ \A u \in Reviewer : u # v => request'[u] = request[u]
<1>1. <<>> \in Queues
  BY EmptyQueue
<1>2. [NoRequest EXCEPT !.at = how] \in Requests /\ [NoRequest EXCEPT !.at = how].at = how
  BY <1>1, CachingsAreModes DEF NoRequest, Requests
<1>. QED  BY <1>2 DEF Reply, TypeOK

\* A step of an execution keeps the types.
LEMMA ExecutionKeepsTypes ==
  ASSUME TypeOK, IsFiniteSet(ledger), Execute
  PROVE  TypeOK'
<1>. USE NothingIsNoDecision, CachingsAreModes, QueueBounds
<1>. USE DEF TypeOK, storeVars, dirVars, localVars, webVars, importVars
<1>1. CASE Launch
  <2>1. handed' \in RowDecisions
    BY <1>1, LatestIsFound DEF Launch, RowDecisions
  <2>. QED  BY <1>1, <2>1 DEF Launch
<1>2. CASE NeverReach
  BY <1>2 DEF NeverReach, Leave
<1>3. CASE StartStage
  BY <1>3 DEF StartStage
<1>4. CASE OpenCache
  BY <1>4 DEF OpenCache
<1>5. CASE MapRow
  <2>1. next' \in 1..(RowCount + 1)
    BY <1>5 DEF MapRow, Row
  <2>2. results' \in RowDecisions /\ cache' \in RowDecisions
    BY <1>5 DEF MapRow, RowDecisions
  <2>. QED  BY <1>5, <2>1, <2>2 DEF MapRow
<1>6. CASE WriteSnapshot
  BY <1>6, PendingListsTheDeferred DEF WriteSnapshot, MappedEveryRow
<1>7. CASE WriteSidecar
  BY <1>7, PendingListsTheDeferred DEF WriteSidecar
<1>8. CASE Halt
  BY <1>8 DEF Halt, Leave
<1>9. CASE FinishStage
  BY <1>9 DEF FinishStage, Leave
<1>10. CASE \E how \in {"error", "cancelled"} : StopStage(how)
  BY <1>10 DEF StopStage, Leave
<1>. QED  BY <1>1, <1>2, <1>3, <1>4, <1>5, <1>6, <1>7, <1>8, <1>9, <1>10 DEF Execute

\* A step of a decide request keeps the types.
LEMMA DecidingKeepsTypes ==
  ASSUME TypeOK, NEW v \in Reviewer, RequestInOrder(v), Decide(v) \/ FailToRecord(v)
  PROVE  TypeOK'
<1>. USE CachingsAreModes, QueueBounds
<1>. USE DEF TypeOK, storeVars, dirVars, localVars, executorVars, importVars
<1>0. request[v] \in Requests
  OBVIOUS
<1>1. CASE \E r \in Row : CheckQueue(v, r)
  <2>. PICK r \in Row : CheckQueue(v, r)
    BY <1>1
  <2>1. request' \in [Reviewer -> Requests]
    BY <1>0, ReplyIsARequest DEF CheckQueue, Requests, Row
  <2>. QED  BY <2>1 DEF CheckQueue
<1>2. CASE ReadSidecar(v)
  <2>1. request' \in [Reviewer -> Requests]
    BY <1>0, <1>2 DEF ReadSidecar, Requests
  <2>. QED  BY <1>2, <2>1 DEF ReadSidecar
<1>3. CASE CheckAlignment(v)
  <2>1. request' = [request EXCEPT ![v].at = "aligned"] => request' \in [Reviewer -> Requests]
    BY <1>0 DEF Requests
  <2>2. Reply(v, "refused") => request' \in [Reviewer -> Requests]
    BY ReplyIsARequest
  <2>3. request' \in [Reviewer -> Requests]
    BY <1>3, <2>1, <2>2 DEF CheckAlignment
  <2>. QED  BY <1>3, <2>3 DEF CheckAlignment
<1>4. CASE JudgeRow(v)
  <2>1. ASSUME NEW judged \in 0..RowCount
        PROVE  [request EXCEPT ![v].at = "judged", ![v].judged = judged, ![v].stamp = clock + 1]
                 \in [Reviewer -> Requests]
    <3> DEFINE at == [request[v] EXCEPT !.at = "judged", !.judged = judged, !.stamp = clock + 1]
    <3>1. clock + 1 \in Nat
      OBVIOUS
    <3>2. at \in Requests
      BY <1>0, <3>1 DEF Requests
    <3>3. [request EXCEPT ![v].at = "judged", ![v].judged = judged, ![v].stamp = clock + 1]
            = [request EXCEPT ![v] = at]
      BY <1>0
    <3> HIDE DEF at
    <3>. QED  BY <3>2, <3>3
  <2>2. Reply(v, "refused") => request' \in [Reviewer -> Requests]
    BY ReplyIsARequest
  <2>3. request[v].row \in 0..RowCount /\ clock + 1 \in Nat
    BY <1>0 DEF Requests
  <2>4. \/ Reply(v, "refused") /\ clock' = clock
        \/ /\ clock' = clock + 1
           /\ \E judged : /\ judged = request[v].row
                          /\ request' = [request EXCEPT ![v].at = "judged", ![v].judged = judged,
                                                        ![v].stamp = clock + 1]
    BY <1>4 DEF JudgeRow
  <2>5. request' \in [Reviewer -> Requests] /\ clock' \in Nat
    <3>1. CASE Reply(v, "refused") /\ clock' = clock
      BY <2>2, <3>1
    <3>2. ASSUME clock' = clock + 1, NEW judged, judged = request[v].row,
                 request' = [request EXCEPT ![v].at = "judged", ![v].judged = judged,
                                            ![v].stamp = clock + 1]
          PROVE  request' \in [Reviewer -> Requests] /\ clock' \in Nat
      <4>1. judged \in 0..RowCount
        BY <2>3, <3>2
      <4>. QED  BY <2>1, <2>3, <3>2, <4>1
    <3>. QED  BY <2>4, <3>1, <3>2
  <2>. QED  BY <1>4, <2>5 DEF JudgeRow
<1>5. CASE SaveDecision(v)
  <2>1. request' \in [Reviewer -> Requests]
    BY <1>0, <1>5 DEF SaveDecision, Requests
  <2>2. DecisionOf(v) \in Decision
    BY <1>5 DEF SaveDecision, RequestInOrder, DecisionOf, Decision
  <2>. QED  BY <1>5, <2>1, <2>2 DEF SaveDecision
<1>6. CASE RecordInCache(v)
  <2>1. request' \in [Reviewer -> Requests]
    BY <1>6, ReplyIsARequest DEF RecordInCache
  <2>2. DecisionOf(v) \in Decision
    BY <1>6 DEF RecordInCache, RequestInOrder, DecisionOf, Decision
  <2>3. cache' \in RowDecisions
    BY <1>6, <2>2 DEF RecordInCache, RowDecisions
  <2>. QED  BY <1>6, <2>1, <2>3 DEF RecordInCache
<1>7. CASE FailToRecord(v)
  <2>1. request' \in [Reviewer -> Requests]
    BY <1>7, ReplyIsARequest DEF FailToRecord
  <2>. QED  BY <1>7, <2>1 DEF FailToRecord
<1>. QED  BY <1>1, <1>2, <1>3, <1>4, <1>5, <1>6, <1>7 DEF Decide

\* A fault keeps the types.
LEMMA FaultsKeepTypes ==
  ASSUME TypeOK, Crash \/ \E r \in Row : EvictEntry(r)
  PROVE  TypeOK'
<1>. USE NothingIsNoDecision, CachingsAreModes, QueueBounds
<1>. USE DEF TypeOK, storeVars, dirVars
<1>1. CASE Crash
  <2>1. request' \in [Reviewer -> Requests]
    <3>2. [NoRequest EXCEPT !.at = "refused"] \in Requests
      BY EmptyQueue DEF NoRequest, Requests
    <3>. QED  BY <1>1, <3>2 DEF Crash
  <2>. QED  BY <1>1, <2>1 DEF Crash, Leave
<1>2. CASE \E r \in Row : EvictEntry(r)
  BY <1>2 DEF EvictEntry, RowDecisions, executorVars, localVars, webVars, importVars
<1>. QED  BY <1>1, <1>2

-----------------------------------------------------------------------------
(* Decisions come from the ledger.                                         *)

\* A step of an execution passes on decisions it was handed or found recorded.
LEMMA ExecutionKeepsTheLedger ==
  ASSUME LedgerInvariant, Execute
  PROVE  LedgerInvariant'
<1>. USE DEF LedgerInvariant
<1>1. TypeOK'
  BY ExecutionKeepsTypes
<1>2. ledger' = ledger /\ request' = request /\ caching' = caching /\ imported' = imported
  BY DEF Execute, Launch, NeverReach, StartStage, OpenCache, MapRow, WriteSnapshot, WriteSidecar,
     Halt, FinishStage, StopStage, storeVars, webVars, importVars
<1>3. IsFiniteSet(ledger)' /\ DecisionMatchesItsRow' /\ \A v \in Reviewer : RequestInOrder(v)'
  BY <1>2 DEF DecisionMatchesItsRow, RequestInOrder, DecisionOf
<1>4. VerdictsAreVouchedFor' /\ NoRowPassesUndecided'
  <2>0. Verdicts' = Verdicts /\ Cached' = Cached
    BY <1>2 DEF Verdicts, Cached
  <2>. USE NothingIsNoDecision, <1>2, <2>0
  <2>. USE DEF VerdictsAreVouchedFor, Genuine, NoRowPassesUndecided
  <2>1. CASE Launch
    <3>1. Genuine(handed', ledger)
      BY <2>1, LatestIsFound DEF Launch, TypeOK
    <3>. QED  BY <2>1, <3>1 DEF Launch, storeVars, localVars
  <2>2. CASE NeverReach
    BY <2>2 DEF NeverReach, Leave, dirVars
  <2>3. CASE StartStage
    BY <2>3 DEF StartStage, dirVars, localVars
  <2>4. CASE OpenCache
    BY <2>4, VerdictsAreOrdered DEF OpenCache, dirVars, storeVars
  <2>5. CASE MapRow
    <3>1. next \in Row
      BY <2>5 DEF MapRow
    <3>2. Genuine(results', Verdicts) /\ Genuine(cache', Cached)
      BY <2>5, <3>1, VerdictsAreOrdered DEF MapRow, TypeOK, RowDecisions
    <3>. QED  BY <2>5, <3>2 DEF MapRow, dirVars
  <2>6. CASE WriteSnapshot
    BY <2>6 DEF WriteSnapshot, storeVars, localVars
  <2>7. CASE WriteSidecar
    BY <2>7 DEF WriteSidecar, dirVars, localVars
  <2>8. CASE Halt
    BY <2>8 DEF Halt, Leave, dirVars
  <2>9. CASE FinishStage
    <3>1. \A r \in Row : results[r] # NoDecision
      BY <2>9 DEF FinishStage, Deferred
    <3>. QED  BY <2>9, <3>1 DEF FinishStage, Leave
  <2>10. CASE \E how \in {"error", "cancelled"} : StopStage(how)
    BY <2>10 DEF StopStage, Leave, dirVars
  <2>. QED  BY <2>1, <2>2, <2>3, <2>4, <2>5, <2>6, <2>7, <2>8, <2>9, <2>10 DEF Execute
<1>. QED  BY <1>1, <1>3, <1>4

\* A decide request leaves every other as it was.
LEMMA OthersStayInOrder ==
  ASSUME NEW v \in Reviewer, \A u \in Reviewer : RequestInOrder(u), RequestInOrder(v)',
         ledger \subseteq ledger', \A u \in Reviewer : u # v => request'[u] = request[u]
  PROVE  \A u \in Reviewer : RequestInOrder(u)'
BY DEF RequestInOrder, DecisionOf

\* A decide request files the decision of the row it judged, and records no other.
LEMMA DecidingKeepsTheLedger ==
  ASSUME LedgerInvariant, NEW v \in Reviewer, Decide(v) \/ FailToRecord(v)
  PROVE  LedgerInvariant'
<1>. USE DEF LedgerInvariant
<1>1. TypeOK'
  BY DecidingKeepsTypes
<1>2. /\ status' = status /\ emitted' = emitted /\ handed' = handed
      /\ recorded' = recorded /\ results' = results
      /\ caching' = caching /\ imported' = imported
  BY DEF Decide, FailToRecord, CheckQueue, ReadSidecar, CheckAlignment, JudgeRow, SaveDecision,
     RecordInCache, storeVars, dirVars, executorVars, localVars, importVars
<1>3. request \in [Reviewer -> Requests] /\ clock \in Nat
  BY DEF TypeOK
<1>4. ASSUME ledger' = ledger, Genuine(cache', Cached), RequestInOrder(v)',
             \A u \in Reviewer : u # v => request'[u] = request[u]
      PROVE  LedgerInvariant'
  <2>1. VerdictsAreVouchedFor' /\ DecisionMatchesItsRow' /\ NoRowPassesUndecided'
    BY <1>2, <1>4 DEF VerdictsAreVouchedFor, Genuine, DecisionMatchesItsRow,
       NoRowPassesUndecided, Verdicts, Cached
  <2>2. \A u \in Reviewer : RequestInOrder(u)'
    BY <1>4, OthersStayInOrder
  <2>. QED  BY <1>1, <1>4, <2>1, <2>2
<1>5. cache' = cache => Genuine(cache', Cached)
  BY DEF VerdictsAreVouchedFor, Genuine
<1>6. ASSUME NEW how \in {"answered", "refused"}, Reply(v, how)
      PROVE  RequestInOrder(v)' /\ \A u \in Reviewer : u # v => request'[u] = request[u]
  BY <1>6, ReplyIsARequest DEF RequestInOrder
<1>7. CASE \E r \in Row : CheckQueue(v, r)
  <2>. PICK r \in Row : CheckQueue(v, r)
    BY <1>7
  <2>1. RequestInOrder(v)' /\ \A u \in Reviewer : u # v => request'[u] = request[u]
    BY <1>3, <1>6 DEF CheckQueue, RequestInOrder, Requests
  <2>. QED  BY <1>4, <1>5, <2>1 DEF CheckQueue, storeVars
<1>8. CASE ReadSidecar(v)
  <2>1. RequestInOrder(v)' /\ \A u \in Reviewer : u # v => request'[u] = request[u]
    BY <1>3, <1>8 DEF ReadSidecar, RequestInOrder, Requests
  <2>. QED  BY <1>4, <1>5, <1>8, <2>1 DEF ReadSidecar, storeVars
<1>9. CASE CheckAlignment(v)
  <2>1. RequestInOrder(v)' /\ \A u \in Reviewer : u # v => request'[u] = request[u]
    BY <1>3, <1>6, <1>9 DEF CheckAlignment, RequestInOrder, Requests
  <2>. QED  BY <1>4, <1>5, <1>9, <2>1 DEF CheckAlignment, storeVars
<1>10. CASE JudgeRow(v)
  <2>1. RequestInOrder(v)' /\ \A u \in Reviewer : u # v => request'[u] = request[u]
    <3>1. ASSUME NEW judged, judged = request[v].row,
                 request' = [request EXCEPT ![v].at = "judged", ![v].judged = judged,
                                            ![v].stamp = clock + 1]
          PROVE  RequestInOrder(v)' /\ \A u \in Reviewer : u # v => request'[u] = request[u]
      BY <1>3, <1>10, <3>1 DEF JudgeRow, RequestInOrder, Requests, Stamp
    <3>. QED  BY <1>6, <1>10, <3>1 DEF JudgeRow
  <2>. QED  BY <1>4, <1>5, <1>10, <2>1 DEF JudgeRow, storeVars
<1>11. CASE SaveDecision(v)
  <2>1. RequestInOrder(v)' /\ \A u \in Reviewer : u # v => request'[u] = request[u]
    BY <1>3, <1>11 DEF SaveDecision, RequestInOrder, Requests, DecisionOf
  <2>2. ledger \subseteq ledger' /\ IsFiniteSet(ledger)'
    BY <1>11, FS_AddElement DEF SaveDecision
  <2>3. VerdictsAreVouchedFor' /\ NoRowPassesUndecided'
    BY <1>2, <1>11, <2>2, VerdictsOnlyGrow
       DEF SaveDecision, VerdictsAreVouchedFor, Genuine, NoRowPassesUndecided
  <2>4. DecisionMatchesItsRow'
    BY <1>11 DEF SaveDecision, RequestInOrder, DecisionMatchesItsRow, DecisionOf
  <2>. QED  BY <1>1, <2>1, <2>2, <2>3, <2>4, OthersStayInOrder
<1>12. CASE RecordInCache(v)
  <2>1. RequestInOrder(v)' /\ \A u \in Reviewer : u # v => request'[u] = request[u]
    BY <1>6, <1>12 DEF RecordInCache
  <2>2. Genuine(cache', Cached)
    <3>1. DecisionOf(v) \in Cached /\ DecisionOf(v).row = request[v].row /\ request[v].row \in Row
      BY <1>12 DEF RecordInCache, RequestInOrder, DecisionOf, Cached
    <3>. QED
      BY <1>12, <3>1 DEF RecordInCache, VerdictsAreVouchedFor, Genuine, TypeOK, RowDecisions
  <2>. QED  BY <1>4, <1>12, <2>1, <2>2 DEF RecordInCache
<1>13. CASE FailToRecord(v)
  <2>1. RequestInOrder(v)' /\ \A u \in Reviewer : u # v => request'[u] = request[u]
    BY <1>6, <1>13 DEF FailToRecord
  <2>. QED  BY <1>4, <1>5, <1>13, <2>1 DEF FailToRecord, storeVars
<1>. QED  BY <1>7, <1>8, <1>9, <1>10, <1>11, <1>12, <1>13 DEF Decide

\* A fault forgets, and files nothing.
LEMMA FaultsKeepTheLedger ==
  ASSUME LedgerInvariant, Crash \/ \E r \in Row : EvictEntry(r)
  PROVE  LedgerInvariant'
<1>. USE DEF LedgerInvariant
<1>1. TypeOK'
  BY FaultsKeepTypes
<1>2. /\ ledger' = ledger /\ status' = status /\ emitted' = emitted
      /\ Verdicts' = Verdicts /\ Cached' = Cached
  BY DEF Crash, EvictEntry, storeVars, dirVars, webVars, importVars, Verdicts, Cached
<1>3. VerdictsAreVouchedFor'
  BY <1>2, NothingIsNoDecision DEF Crash, EvictEntry, Leave, storeVars, dirVars, executorVars,
     localVars, VerdictsAreVouchedFor, Genuine, TypeOK, RowDecisions
<1>4. \A v \in Reviewer : RequestInOrder(v)'
  <2>. SUFFICES ASSUME NEW v \in Reviewer  PROVE RequestInOrder(v)'
    OBVIOUS
  <2>1. \/ request'[v] = request[v]
        \/ request'[v].at = "refused"
    BY DEF Crash, EvictEntry, webVars, NoRequest, TypeOK
  <2>. QED  BY <1>2, <2>1 DEF RequestInOrder, DecisionOf
<1>. QED  BY <1>1, <1>2, <1>3, <1>4 DEF DecisionMatchesItsRow, NoRowPassesUndecided

\* An import brings verdicts of its own, and touches nobody's decision but in
\* the cache.
LEMMA ImportsKeepTheLedger ==
  ASSUME LedgerInvariant, ImportEntry \/ \E r \in Row : FindNoEntry(r)
  PROVE  LedgerInvariant'
<1>. USE DEF LedgerInvariant
<1>1. CASE ImportEntry
  <2>1. /\ importing \in Row /\ UNCHANGED <<caching, ledger, status, sidecar, dirVars, executorVars,
                                            clock, request, faults>>
        /\ cache' = [cache EXCEPT ![importing] = ImportedVerdict(importing)]
        /\ imported' = imported \cup {importing} /\ importing' = 0
    BY <1>1 DEF ImportEntry
  <2>2. cache' \in RowDecisions
    BY <2>1, ImportIsAVerdict DEF TypeOK, RowDecisions
  <2>3. TypeOK'
    BY <2>1, <2>2, CachingsAreModes DEF TypeOK, dirVars, executorVars, localVars
  <2>4. Verdicts \subseteq Verdicts' /\ Cached \subseteq Cached'
    BY <2>1, VerdictsOnlyGrow
  <2>5. ImportedVerdict(importing) \in Cached' /\ ImportedVerdict(importing).row = importing
    BY <2>1, ImportIsAVerdict DEF Cached
  <2>6. Genuine(cache', Cached')
    BY <2>1, <2>4, <2>5 DEF VerdictsAreVouchedFor, Genuine, TypeOK, RowDecisions
  <2>7. VerdictsAreVouchedFor' /\ NoRowPassesUndecided'
    BY <2>1, <2>4, <2>6 DEF VerdictsAreVouchedFor, Genuine, NoRowPassesUndecided, dirVars,
       executorVars, localVars
  <2>. QED  BY <2>1, <2>3, <2>7 DEF RequestInOrder, DecisionOf, DecisionMatchesItsRow
<1>2. CASE \E r \in Row : FindNoEntry(r)
  <2>1. /\ importing' \in Row
        /\ UNCHANGED <<caching, storeVars, dirVars, executorVars, clock, request, imported, faults>>
    BY <1>2 DEF FindNoEntry
  <2>2. TypeOK'
    BY <2>1, CachingsAreModes DEF TypeOK, storeVars, dirVars, executorVars, localVars, Row
  <2>. QED
    BY <2>1, <2>2 DEF VerdictsAreVouchedFor, Genuine, Verdicts, Cached, RequestInOrder, DecisionOf,
       DecisionMatchesItsRow, NoRowPassesUndecided, storeVars, dirVars, executorVars, localVars
<1>. QED  BY <1>1, <1>2

-----------------------------------------------------------------------------
(* What an execution was handed it answers with.                           *)

\* A step of an execution answers what it was handed and files what it left.
LEMMA ExecutionKeepsTheQueue ==
  ASSUME QueueInvariant, Execute
  PROVE  HandedTheLedger' /\ AnsweredAsHanded' /\ FiledTheDeferred'
<1>. USE DEF QueueInvariant, LedgerInvariant
<1>1. next \in 1..(RowCount + 1) /\ RowCount \in Nat /\ ledger \in SUBSET Decision
  BY CachingsAreModes DEF TypeOK
<1>2. CASE Launch
  <2>1. \A d \in ledger : handed'[d.row] # NoDecision
    BY <1>1, <1>2, LatestIsFound, NothingIsNoDecision DEF Launch
  <2>. QED
    BY <1>1, <1>2, <2>1 DEF Launch, localVars, HandedTheLedger, AnsweredAsHanded, FiledTheDeferred, Row
<1>3. CASE NeverReach
  BY <1>1, <1>3 DEF NeverReach, Leave, HandedTheLedger, AnsweredAsHanded, FiledTheDeferred, Row
<1>4. CASE StartStage
  BY <1>4 DEF StartStage, dirVars, localVars, HandedTheLedger, AnsweredAsHanded, FiledTheDeferred
<1>5. CASE OpenCache
  BY <1>5 DEF OpenCache, dirVars, HandedTheLedger, AnsweredAsHanded, FiledTheDeferred
<1>6. CASE MapRow
  <2>1. next \in Row /\ next \in Nat /\ next' = next + 1 /\ handed' = handed
    BY <1>1, <1>6 DEF MapRow, dirVars
  <2>2. /\ handed[next] # NoDecision => results'[next] # NoDecision
        /\ \A r \in Row : r # next => results'[r] = results[r]
    BY <1>6, <2>1 DEF MapRow, TypeOK, RowDecisions
  <2>3. \A r \in Row : r < next + 1 => r = next \/ r < next
    BY <1>1, <2>1 DEF Row
  <2>4. AnsweredAsHanded'
    BY <1>6, <2>1, <2>2, <2>3 DEF MapRow, AnsweredAsHanded
  <2>. QED  BY <1>6, <2>4 DEF MapRow, dirVars, HandedTheLedger, FiledTheDeferred
<1>7. CASE WriteSnapshot
  <2>1. next = RowCount + 1 /\ \A i \in DOMAIN snapshot' : snapshot'[i] \in Deferred
    BY <1>7, PendingListsTheDeferred DEF WriteSnapshot, MappedEveryRow
  <2>. QED
    BY <1>7, <2>1 DEF WriteSnapshot, MappedEveryRow, localVars, HandedTheLedger, AnsweredAsHanded,
       FiledTheDeferred, Deferred
<1>8. CASE WriteSidecar
  BY <1>8 DEF WriteSidecar, dirVars, localVars, HandedTheLedger, AnsweredAsHanded,
     FiledTheDeferred, Deferred
<1>9. CASE Halt
  BY <1>1, <1>9 DEF Halt, Leave, HandedTheLedger, AnsweredAsHanded, FiledTheDeferred, Row
<1>10. CASE FinishStage
  BY <1>1, <1>10 DEF FinishStage, Leave, HandedTheLedger, AnsweredAsHanded, FiledTheDeferred, Row
<1>11. CASE \E how \in {"error", "cancelled"} : StopStage(how)
  BY <1>1, <1>11 DEF StopStage, Leave, HandedTheLedger, AnsweredAsHanded, FiledTheDeferred, Row
<1>. QED  BY <1>2, <1>3, <1>4, <1>5, <1>6, <1>7, <1>8, <1>9, <1>10, <1>11 DEF Execute

\* Every step keeps the invariant.
LEMMA StepHolds == QueueInvariant /\ [Next]_vars => QueueInvariant'
<1>. SUFFICES ASSUME QueueInvariant, [Next]_vars  PROVE QueueInvariant'
  OBVIOUS
<1>. USE DEF QueueInvariant
<1>1. CASE Execute
  BY <1>1, ExecutionKeepsTheLedger, ExecutionKeepsTheQueue
<1>2. CASE \E v \in Reviewer : Decide(v) \/ FailToRecord(v)
  <2>1. LedgerInvariant'
    BY <1>2, DecidingKeepsTheLedger
  <2>2. /\ phase' = phase /\ ledgerBefore' = ledgerBefore /\ handed' = handed /\ next' = next
        /\ results' = results /\ snapshot' = snapshot
    BY <1>2 DEF Decide, FailToRecord, CheckQueue, ReadSidecar, CheckAlignment, JudgeRow,
       SaveDecision, RecordInCache, dirVars, executorVars, localVars
  <2>. QED  BY <2>1, <2>2 DEF HandedTheLedger, AnsweredAsHanded, FiledTheDeferred, Deferred
<1>3. CASE Crash \/ \E r \in Row : EvictEntry(r)
  <2>1. LedgerInvariant'
    BY <1>3, FaultsKeepTheLedger
  <2>2. HandedTheLedger' /\ AnsweredAsHanded' /\ FiledTheDeferred'
    BY <1>3, CachingsAreModes DEF Crash, EvictEntry, Leave, dirVars, executorVars, localVars,
       HandedTheLedger, AnsweredAsHanded, FiledTheDeferred, Deferred, Row
  <2>. QED  BY <2>1, <2>2
<1>4. CASE ImportEntry \/ \E r \in Row : FindNoEntry(r)
  <2>1. LedgerInvariant'
    BY <1>4, ImportsKeepTheLedger
  <2>2. HandedTheLedger' /\ AnsweredAsHanded' /\ FiledTheDeferred'
    BY <1>4 DEF ImportEntry, FindNoEntry, dirVars, executorVars, localVars, HandedTheLedger,
       AnsweredAsHanded, FiledTheDeferred, Deferred
  <2>. QED  BY <2>1, <2>2
<1>5. CASE UNCHANGED vars
  <2>1. TypeOK'
    BY <1>5 DEF LedgerInvariant, TypeOK, vars, storeVars, dirVars, executorVars, localVars, webVars,
       importVars
  <2>2. LedgerInvariant'
    BY <1>5, <2>1 DEF LedgerInvariant, VerdictsAreVouchedFor, Genuine, RequestInOrder, DecisionOf,
       DecisionMatchesItsRow, NoRowPassesUndecided, Verdicts, Cached, vars, storeVars, dirVars,
       executorVars, localVars, webVars, importVars
  <2>3. HandedTheLedger' /\ AnsweredAsHanded' /\ FiledTheDeferred'
    BY <1>5 DEF HandedTheLedger, AnsweredAsHanded, FiledTheDeferred, Deferred, vars, dirVars,
       executorVars, localVars
  <2>. QED  BY <2>2, <2>3
<1>. QED  BY <1>1, <1>2, <1>3, <1>4, <1>5 DEF Next

\* Hence the whole invariant holds in every state an execution or a request reaches.
LEMMA QueueInvariantHolds == Spec => []QueueInvariant
BY InitHolds, StepHolds, PTL DEF Spec

-----------------------------------------------------------------------------
(* The theorems.                                                           *)

\* Every variable keeps to its type: requests, queue files and held decisions.
THEOREM TypeCorrect == Spec => []TypeOK
<1>1. QueueInvariant => TypeOK
  BY DEF QueueInvariant, LedgerInvariant
<1>. QED  BY <1>1, QueueInvariantHolds, PTL

\* A decision is filed under the row it was made on, however often the two queue
\* files were rewritten while the request read them.
THEOREM DecisionsMatchTheirRows == Spec => []DecisionMatchesItsRow
<1>1. QueueInvariant => DecisionMatchesItsRow
  BY DEF QueueInvariant, LedgerInvariant
<1>. QED  BY <1>1, QueueInvariantHolds, PTL

\* A finished queue emitted every row on a verdict of that row: a decision the
\* ledger keeps, or one an import brought to a run that replays the cache.
THEOREM RowsAreDecidedBeforeTheyPass == Spec => []NoRowPassesUndecided
<1>1. QueueInvariant => NoRowPassesUndecided
  BY DEF QueueInvariant, LedgerInvariant
<1>. QED  BY <1>1, QueueInvariantHolds, PTL

\* A run that halts asks for no row that was decided before it was asked to go on.
THEOREM DecidedRowsAreNotAskedAgain == Spec => NeverAskedTwice
<1>1. ASSUME QueueInvariant, [Next]_vars, status = "running", status' = "awaiting_review"
      PROVE  \A d \in ledgerBefore : \A i \in DOMAIN snapshot' : snapshot'[i] # d.row
  <2>1. Next
    BY <1>1 DEF vars, storeVars
  <2>2. Halt
    <3>1. ASSUME NEW v \in Reviewer, Decide(v) \/ FailToRecord(v)  PROVE status' = status
      BY <3>1 DEF Decide, FailToRecord, CheckQueue, ReadSidecar, CheckAlignment, JudgeRow,
         SaveDecision, RecordInCache, storeVars
    <3>2. Crash \/ ImportEntry \/ (\E r \in Row : FindNoEntry(r) \/ EvictEntry(r))
          => status' = status
      BY DEF Crash, ImportEntry, FindNoEntry, EvictEntry, storeVars
    <3>3. Execute
      BY <1>1, <2>1, <3>1, <3>2 DEF Next
    <3>. QED
      BY <1>1, <3>3 DEF Execute, Launch, NeverReach, StartStage, OpenCache, MapRow, WriteSnapshot,
         WriteSidecar, FinishStage, StopStage, storeVars
  <2>3. phase = "filed" /\ snapshot' = snapshot
    BY <2>2 DEF Halt, dirVars
  <2>4. next = RowCount + 1 /\ \A i \in DOMAIN snapshot : snapshot[i] \in Deferred
    BY <1>1, <2>3 DEF QueueInvariant, FiledTheDeferred
  <2>5. \A d \in ledgerBefore : d.row \in Row /\ handed[d.row] # NoDecision
    BY <1>1, <2>3, NothingIsNoDecision DEF QueueInvariant, LedgerInvariant, TypeOK, HandedTheLedger
  <2>6. \A r \in Row : r < RowCount + 1
    BY CachingsAreModes DEF Row
  <2>7. \A d \in ledgerBefore : results[d.row] # NoDecision
    BY <1>1, <2>4, <2>5, <2>6 DEF QueueInvariant, AnsweredAsHanded
  <2>. QED  BY <2>3, <2>4, <2>7 DEF Deferred
<1>2. QueueInvariant /\ [Next]_vars =>
        [status = "running" /\ status' = "awaiting_review" =>
           \A d \in ledgerBefore : \A i \in DOMAIN snapshot' : snapshot'[i] # d.row]_vars
  BY <1>1
<1>. QED  BY <1>2, QueueInvariantHolds, PTL DEF Spec, NeverAskedTwice
=============================================================================
