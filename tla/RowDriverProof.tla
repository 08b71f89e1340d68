--------------------------- MODULE RowDriverProof ---------------------------
(***************************************************************************)
(* What RowDriver promises of a row-mapped stage, for any frame, handler,  *)
(* pool and number of attempts, cancels and faults: each row gets its own  *)
(* answer, and an answer is paid for once.                                 *)
(*                                                                         *)
(* Both follow an answer on its way: out of the mapper, through the rows   *)
(* its worker has still to record, into the cache, and from there to the   *)
(* attempts after.                                                         *)
(***************************************************************************)
EXTENDS RowDriver, FiniteSetTheorems, WellFoundedInduction, TLAPS

\* What a worker holds of a row it answered in this attempt.
AnswersAreTheRows ==
  \A r \in Row : answered[r] # NoAnswer => answered[r].of = r /\ answered[r].by = attempt

\* The cache holds answers, each under the fingerprint of its row.
CacheHoldsAnswers ==
  \A f \in Key : cache[f] # NoAnswer =>
    /\ cache[f].kind = "answer"
    /\ Fingerprint[cache[f].of] = f
    /\ cache[f].by <= attempt

\* A worker that records has rows of its group to record, answered ones.
RecordsItsAnswers ==
  \A g \in Row :
    /\ group[g] = "recording" => toRecord[g] # {}
    /\ toRecord[g] \subseteq GroupRows(g, pending)
    /\ \A r \in toRecord[g] : answered[r] # NoAnswer /\ answered[r].kind = "answer"

\* There are no groups before the first attempt.
NoGroupsYet == attempt = 0 => \A g \in Row : group[g] = "none"

\* The reporter was told of no more rows than have their slot filled.
PlacedRows == {r \in pending : \E g \in Row : group[g] = "placed" /\ r \in GroupRows(g, pending)}
ReportsThePlaced ==
  completed <= Cardinality(Row \ pending) + Cardinality(PlacedRows)

RowInvariant ==
  /\ TypeOK
  /\ AnswersAreTheRows
  /\ CacheHoldsAnswers
  /\ RecordsItsAnswers
  /\ NoGroupsYet
  /\ ReportsThePlaced
  /\ EachRowItsOwnAnswer

-----------------------------------------------------------------------------
(* Rows and groups.                                                        *)

\* A set of the frame's rows is finite and no larger than the frame.
LEMMA RowsAreFinite ==
  ASSUME NEW S \in SUBSET Row
  PROVE  /\ IsFiniteSet(S) /\ Cardinality(S) \in Nat /\ Cardinality(S) <= RowCount
         /\ S \subseteq Nat
<1>1. IsFiniteSet(Row) /\ Cardinality(Row) = RowCount /\ RowCount \in Nat
  BY FS_Interval, ShapesAreShapes DEF Row
<1>2. IsFiniteSet(S) /\ Cardinality(S) <= RowCount
  BY <1>1, FS_Subset
<1>3. S \subseteq Nat
  BY ShapesAreShapes DEF Row
<1>. QED  BY <1>1, <1>2, <1>3, FS_CardinalityType

\* Of a set of rows that is not empty there is a least.
LEMMA LeastRow ==
  ASSUME NEW S \in SUBSET Row, S # {}
  PROVE  Min(S) \in S
<1> DEFINE below(r) == {q \in S : q < r}
           belows == {below(r) : r \in S}
<1>1. IsFiniteSet(S) /\ S \subseteq Nat
  BY RowsAreFinite
<1>2. \A r \in S : below(r) \in FiniteSubsetsOf(S)
  BY <1>1, FS_Subset DEF FiniteSubsetsOf
<1>3. belows \subseteq FiniteSubsetsOf(S) /\ belows # {}
  <2>1. PICK r \in S : TRUE
    OBVIOUS
  <2>2. below(r) \in belows
    BY <2>1
  <2>3. \A b \in belows : \E q \in S : b = below(q)
    OBVIOUS
  <2> HIDE DEF belows, below
  <2>. QED  BY <1>2, <2>2, <2>3
<1>4. IsWellFoundedOn(StrictSubsetOrdering(S), FiniteSubsetsOf(S))
  BY FS_StrictSubsetOrderingWellFounded
<1>5. PICK least \in belows :
        \A other \in belows : ~ (<<other, least>> \in StrictSubsetOrdering(S))
  <2> HIDE DEF belows
  <2>. QED  BY <1>3, <1>4, WFMin
<1>6. PICK r \in S : least = below(r)
  BY <1>5
<1>7. \A q \in S : ~(q < r)
  <2>. SUFFICES ASSUME NEW q \in S, q < r  PROVE FALSE
    OBVIOUS
  <2>1. q \in Nat /\ r \in Nat /\ \A p \in S : p \in Nat
    BY <1>1
  <2>2. \A p \in S : p < q => p < r
    BY <2>1
  <2>3. below(q) \subseteq below(r) /\ q \in below(r) /\ q \notin below(q)
    <3>1. below(q) \subseteq below(r)
      BY <2>2
    <3>2. q \in below(r)
      OBVIOUS
    <3>3. q \notin below(q)
      BY <2>1
    <3>. QED  BY <3>1, <3>2, <3>3
  <2>4. <<below(q), below(r)>> \in StrictSubsetOrdering(S)
    BY <2>3 DEF StrictSubsetOrdering
  <2>. QED  BY <1>5, <1>6, <2>4
<1>8. \A q \in S : r <= q
  <2>1. r \in Nat /\ \A p \in S : p \in Nat
    BY <1>1
  <2>. QED  BY <1>7, <2>1
<1>. QED  BY <1>8 DEF Min

\* More groups of a size hold no fewer rows.
LEMMA MoreGroupsMoreRows ==
  ASSUME NEW a \in Nat, NEW b \in Nat, NEW s \in Nat, a <= b
  PROVE  a * s <= b * s
<1>1. PICK d \in Nat : b = a + d
  <2>1. b - a \in Nat /\ b = a + (b - a)
    OBVIOUS
  <2>. QED  BY <2>1
<1>2. b * s = a * s + d * s /\ d * s \in Nat /\ a * s \in Nat
  BY <1>1
<1>. QED  BY <1>2

\* A row belongs to one group.
LEMMA OneGroupARow ==
  ASSUME shape \in Shapes, NEW rows \in SUBSET Row, NEW g \in Row, NEW h \in Row,
         NEW r \in GroupRows(g, rows), r \in GroupRows(h, rows)
  PROVE  g = h
<1> DEFINE s == shape.groupSize
           k == Rank(r, rows)
<1>1. s \in Nat /\ g \in Nat \ {0} /\ h \in Nat \ {0}
  BY ShapesAreShapes DEF Row
<1>2. {q \in rows : q <= r} \in SUBSET Row
  OBVIOUS
<1>3. k \in Nat
  BY <1>2, RowsAreFinite DEF Rank
<1>4. (g - 1) * s < k /\ k <= g * s /\ (h - 1) * s < k /\ k <= h * s
  BY DEF GroupRows
<1>. HIDE DEF s, k
<1>5. ASSUME NEW a \in Nat \ {0}, NEW b \in Nat \ {0}, a < b, k <= a * s, (b - 1) * s < k
      PROVE  FALSE
  <2>1. b - 1 \in Nat /\ a <= b - 1
    BY <1>5
  <2>2. a * s <= (b - 1) * s
    BY <1>1, <2>1, MoreGroupsMoreRows
  <2>3. a * s \in Nat /\ (b - 1) * s \in Nat
    BY <1>1, <2>1
  <2>. QED  BY <1>3, <1>5, <2>2, <2>3
<1>6. ~(g < h) /\ ~(h < g)
  BY <1>1, <1>4, <1>5
<1>. QED  BY <1>1, <1>6

\* Sets with nothing in common are counted apart.
LEMMA CountedApart ==
  ASSUME NEW S, NEW T, IsFiniteSet(S), IsFiniteSet(T), S \cap T = {}
  PROVE  IsFiniteSet(S \cup T) /\ Cardinality(S \cup T) = Cardinality(S) + Cardinality(T)
<1>1. Cardinality(S \cap T) = 0
  BY FS_EmptySet
<1>2. Cardinality(S) \in Nat /\ Cardinality(T) \in Nat
  BY FS_CardinalityType
<1>3. IsFiniteSet(S \cup T)
      /\ Cardinality(S \cup T) = Cardinality(S) + Cardinality(T) - Cardinality(S \cap T)
  BY FS_Union
<1>. QED  BY <1>1, <1>2, <1>3

\* What stands for no answer is none.
LEMMA NoAnswerIsNone ==
  /\ NothingAnswered \in [Row -> Answer \cup {NoAnswer}]
  /\ \A r \in Row : NothingAnswered[r] = NoAnswer
  /\ \A a \in Answer : /\ a # NoAnswer /\ a.by \in 1..MaxAttempts /\ a.of \in Row
                        /\ a.kind \in {"answer", "error", "drop"}
BY ShapesAreShapes, DriverBounds DEF NothingAnswered, Answer, NoAnswer, Row

\* Before the first attempt nothing is cached, answered or placed.
LEMMA InitHolds == Init => RowInvariant
<1>. SUFFICES ASSUME Init  PROVE RowInvariant
  OBVIOUS
<1>1. RowCount \in Nat /\ {} \in SUBSET Row /\ Row \in SUBSET Row
  BY ShapesAreShapes
<1>2. TypeOK
  <2>1. /\ cache \in [Key -> Answer \cup {NoAnswer}] /\ group \in [Row -> {"none"}]
        /\ toRecord \in [Row -> SUBSET Row] /\ paid \in [Key -> Nat]
        /\ attempt \in 0..MaxAttempts /\ cancels \in 0..MaxCancels /\ faults \in 0..MaxFaults
        /\ completed \in 0..RowCount
    BY <1>1, DriverBounds DEF Init
  <2>2. group \in [Row -> {"none", "queued", "mapping", "recording", "done", "raised",
                          "placed", "dropped"}]
    BY <2>1
  <2>. QED  BY <1>1, <2>1, <2>2, NoAnswerIsNone DEF Init, TypeOK
<1>3. ReportsThePlaced
  <2>1. Row \ pending \in SUBSET Row /\ PlacedRows \in SUBSET Row /\ completed = 0
    BY DEF Init, PlacedRows
  <2>. QED  BY <2>1, RowsAreFinite DEF ReportsThePlaced
<1>. QED
  BY <1>2, <1>3, NoAnswerIsNone DEF Init, RowInvariant, AnswersAreTheRows, CacheHoldsAnswers,
     RecordsItsAnswers, NoGroupsYet, EachRowItsOwnAnswer

-----------------------------------------------------------------------------
(* The rows' own answers.                                                  *)

\* The reporter is not told of more while the placed groups stay placed.
LEMMA NoMoreIsReported ==
  ASSUME ReportsThePlaced, pending' = pending, shape' = shape, completed' = completed,
         \A g \in Row : group'[g] = "placed" <=> group[g] = "placed"
  PROVE  ReportsThePlaced'
<1>1. \A g \in Row : GroupRows(g, pending)' = GroupRows(g, pending)
  BY DEF GroupRows, Rank
<1>2. PlacedRows' = PlacedRows
  BY <1>1 DEF PlacedRows
<1>. QED  BY <1>2 DEF ReportsThePlaced

\* Opening an attempt fills the slots of the rows the cache answers, and no other.
LEMMA OpenHolds ==
  ASSUME RowInvariant, Open
  PROVE  RowInvariant'
<1>. DEFINE hits == {r \in Row : Replays /\ cache[Fingerprint[r]] # NoAnswer}
<1>. USE DEF RowInvariant
<1>1. /\ attempt < MaxAttempts /\ attempt' = attempt + 1 /\ main' = "driving" /\ exit' = "none"
      /\ pending' = Row \ hits
      /\ group' = [g \in Row |-> IF GroupRows(g, Row \ hits) = {} THEN "none" ELSE "queued"]
      /\ answered' = NothingAnswered /\ toRecord' = [g \in Row |-> {}]
      /\ results' = [r \in Row |-> IF r \in hits THEN cache[Fingerprint[r]] ELSE NoAnswer]
      /\ completed' = Cardinality(hits)
      /\ UNCHANGED <<shape, cache, flag, paid, boundVars>>
  BY DEF Open
<1>2. hits \in SUBSET Row /\ \A r \in hits : cache[Fingerprint[r]] # NoAnswer
  OBVIOUS
<1>3. \A r \in Row : Fingerprint[r] \in Key
  BY ShapesAreShapes
<1>. HIDE DEF hits
<1>4. attempt \in Nat /\ MaxAttempts \in Nat /\ attempt' \in 1..MaxAttempts
  BY <1>1, DriverBounds DEF TypeOK
<1>5. Cardinality(hits) \in Nat /\ Cardinality(hits) <= RowCount
  BY <1>2, RowsAreFinite
<1>6. TypeOK'
  <2>1. results' \in [Row -> Answer \cup {NoAnswer}]
    BY <1>1, <1>3 DEF TypeOK
  <2>2. completed' \in 0..RowCount
    BY <1>1, <1>5, ShapesAreShapes
  <2>3. group' \in [Row -> {"none", "queued", "mapping", "recording", "done", "raised",
                           "placed", "dropped"}]
    BY <1>1
  <2>4. shape' \in Shapes /\ cache' \in [Key -> Answer \cup {NoAnswer}] /\ flag' \in BOOLEAN
        /\ paid' \in [Key -> Nat] /\ cancels' \in 0..MaxCancels /\ faults' \in 0..MaxFaults
    BY <1>1 DEF TypeOK, boundVars
  <2>5. attempt' \in 0..MaxAttempts
    BY <1>4, DriverBounds
  <2>. QED  BY <1>1, <1>2, <2>1, <2>2, <2>3, <2>4, <2>5, NoAnswerIsNone DEF TypeOK
<1>7. CacheHoldsAnswers'
  <2>1. \A f \in Key : cache[f] # NoAnswer => cache[f].by \in Nat
    BY NoAnswerIsNone, DriverBounds DEF TypeOK
  <2>. QED  BY <1>1, <1>4, <2>1 DEF CacheHoldsAnswers
<1>8. EachRowItsOwnAnswer'
  <2>1. \A f \in Key : cache[f] # NoAnswer => cache[f].by \in Nat
    BY NoAnswerIsNone, DriverBounds DEF TypeOK
  <2>. QED  BY <1>1, <1>2, <1>3, <1>4, <2>1 DEF EachRowItsOwnAnswer, CacheHoldsAnswers
<1>9. ReportsThePlaced'
  <2>1. PlacedRows' \in SUBSET Row /\ Row \ pending' = hits
    BY <1>1, <1>2 DEF PlacedRows
  <2>2. Cardinality(PlacedRows') \in Nat
    BY <2>1, RowsAreFinite
  <2>3. completed' = Cardinality(Row \ pending')
    BY <1>1, <2>1
  <2>4. Cardinality(Row \ pending') <= Cardinality(Row \ pending') + Cardinality(PlacedRows')
    BY <1>5, <2>1, <2>2
  <2>. QED  BY <2>3, <2>4 DEF ReportsThePlaced
<1>10. AnswersAreTheRows' /\ RecordsItsAnswers' /\ NoGroupsYet'
  BY <1>1, <1>4, NoAnswerIsNone DEF AnswersAreTheRows, RecordsItsAnswers, NoGroupsYet
<1>. QED  BY <1>6, <1>7, <1>8, <1>9, <1>10

\* Placing a group fills the slots of its rows with their own answers, and reports them.
LEMMA PlaceGroupHolds ==
  ASSUME RowInvariant, NEW g \in Row, PlaceGroup(g)
  PROVE  RowInvariant'
<1>. DEFINE rows == GroupRows(g, pending)
<1>. USE DEF RowInvariant
<1>1. /\ group[g] = "done" /\ group' = [group EXCEPT ![g] = "placed"]
      /\ results' = [r \in Row |-> IF r \in rows THEN answered[r] ELSE results[r]]
      /\ completed' = completed + Cardinality(rows)
      /\ UNCHANGED <<shape, cache, attempt, main, exit, pending, answered, toRecord, flag, paid,
                     boundVars>>
  BY DEF PlaceGroup
<1>2. rows \in SUBSET pending /\ pending \in SUBSET Row
  BY DEF GroupRows, TypeOK
<1>3. group'[g] = "placed" /\ \A h \in Row : h # g => group'[h] = group[h]
  BY <1>1 DEF TypeOK
<1>4. \A h \in Row : GroupRows(h, pending)' = GroupRows(h, pending)
  BY <1>1 DEF GroupRows, Rank
<1>5. rows \cap PlacedRows = {}
  <2>. SUFFICES ASSUME NEW r \in rows, r \in PlacedRows  PROVE FALSE
    OBVIOUS
  <2>1. PICK h \in Row : group[h] = "placed" /\ r \in GroupRows(h, pending)
    BY DEF PlacedRows
  <2>2. h = g
    BY <1>2, <2>1, OneGroupARow DEF TypeOK
  <2>. QED  BY <1>1, <2>1, <2>2
<1>6. PlacedRows' = PlacedRows \cup rows
  BY <1>1, <1>2, <1>3, <1>4 DEF PlacedRows
<1>. HIDE DEF rows
<1>7. PlacedRows \in SUBSET pending
  BY DEF PlacedRows
<1>8. /\ IsFiniteSet(rows) /\ IsFiniteSet(PlacedRows) /\ IsFiniteSet(Row \ pending)
      /\ Cardinality(rows) \in Nat /\ Cardinality(PlacedRows) \in Nat
      /\ Cardinality(Row \ pending) \in Nat
  BY <1>2, <1>7, RowsAreFinite
<1>9. Cardinality(PlacedRows \cup rows) = Cardinality(PlacedRows) + Cardinality(rows)
  BY <1>5, <1>8, CountedApart
<1>10. ReportsThePlaced'
  BY <1>1, <1>6, <1>8, <1>9 DEF ReportsThePlaced, TypeOK
<1>11. Cardinality(Row \ pending) + Cardinality(PlacedRows \cup rows) <= RowCount
  <2>1. (Row \ pending) \cap (PlacedRows \cup rows) = {}
    BY <1>2, <1>7
  <2>2. IsFiniteSet(PlacedRows \cup rows)
    BY <1>5, <1>8, CountedApart
  <2>3. Cardinality((Row \ pending) \cup (PlacedRows \cup rows))
          = Cardinality(Row \ pending) + Cardinality(PlacedRows \cup rows)
    BY <1>8, <2>1, <2>2, CountedApart
  <2>4. (Row \ pending) \cup (PlacedRows \cup rows) \in SUBSET Row
    BY <1>2, <1>7
  <2>. QED  BY <2>3, <2>4, RowsAreFinite
<1>12. completed' \in 0..RowCount
  BY <1>1, <1>6, <1>8, <1>9, <1>10, <1>11, ShapesAreShapes DEF ReportsThePlaced, TypeOK
<1>13. TypeOK'
  BY <1>1, <1>12 DEF TypeOK, boundVars
<1>14. EachRowItsOwnAnswer'
  BY <1>1, <1>2 DEF EachRowItsOwnAnswer, AnswersAreTheRows, TypeOK
<1>15. AnswersAreTheRows' /\ CacheHoldsAnswers' /\ RecordsItsAnswers' /\ NoGroupsYet'
  BY <1>1, <1>3, <1>4 DEF AnswersAreTheRows, CacheHoldsAnswers, RecordsItsAnswers, NoGroupsYet
<1>. QED  BY <1>10, <1>13, <1>14, <1>15

\* The mapper answers the rows of its group, each for itself, in this attempt.
LEMMA MapGroupHolds ==
  ASSUME RowInvariant, NEW g \in Row, MapGroup(g)
  PROVE  RowInvariant'
<1>. DEFINE rows == GroupRows(g, pending)
<1>. USE DEF RowInvariant
<1>1. PICK kind \in [rows -> shape.kinds] :
        LET made == [r \in rows |-> [by |-> attempt, of |-> r, kind |-> kind[r]]]
            recorded == {r \in rows : Records /\ Recordable(made[r])}
            good == {r \in rows : kind[r] = "answer"} IN
        /\ answered' = [r \in Row |-> IF r \in rows THEN made[r] ELSE answered[r]]
        /\ toRecord' = [toRecord EXCEPT ![g] = recorded]
        /\ group' = [group EXCEPT ![g] = IF recorded = {} THEN "done" ELSE "recording"]
        /\ paid' = [f \in Key |->
                      paid[f] + Cardinality({r \in good : Fingerprint[r] = f})]
  BY DEF MapGroup
<1>. DEFINE made == [r \in rows |-> [by |-> attempt, of |-> r, kind |-> kind[r]]]
            recorded == {r \in rows : Records /\ Recordable(made[r])}
            good == {r \in rows : kind[r] = "answer"}
<1>2. /\ group[g] = "mapping"
      /\ UNCHANGED <<shape, cache, attempt, main, exit, pending, results, completed, flag,
                     boundVars>>
  BY DEF MapGroup
<1>3. rows \in SUBSET pending /\ pending \in SUBSET Row
  BY DEF GroupRows, TypeOK
<1>4. attempt \in 1..MaxAttempts
  BY <1>2, DriverBounds DEF TypeOK, NoGroupsYet
<1>5. shape.kinds \subseteq {"answer", "error", "drop"}
  BY ShapesAreShapes DEF TypeOK
<1>6. \A r \in rows : /\ made[r] \in Answer /\ made[r].of = r /\ made[r].by = attempt
                      /\ made[r].kind = kind[r]
  BY <1>3, <1>4, <1>5 DEF Answer
<1>7. recorded \in SUBSET rows /\ \A r \in recorded : made[r].kind = "answer"
  BY DEF Recordable
<1>8. \A f \in Key : Cardinality({r \in good : Fingerprint[r] = f}) \in Nat
  <2>. SUFFICES ASSUME NEW f \in Key  PROVE Cardinality({r \in good : Fingerprint[r] = f}) \in Nat
    OBVIOUS
  <2>1. {r \in good : Fingerprint[r] = f} \in SUBSET Row
    BY <1>3
  <2>. QED  BY <2>1, RowsAreFinite
<1>9. /\ answered' = [r \in Row |-> IF r \in rows THEN made[r] ELSE answered[r]]
      /\ toRecord' = [toRecord EXCEPT ![g] = recorded]
      /\ group' = [group EXCEPT ![g] = IF recorded = {} THEN "done" ELSE "recording"]
      /\ paid' = [f \in Key |-> paid[f] + Cardinality({r \in good : Fingerprint[r] = f})]
  BY <1>1
<1>. HIDE DEF rows, made, recorded, good
<1>10. TypeOK'
  <2>1. answered' \in [Row -> Answer \cup {NoAnswer}] /\ toRecord' \in [Row -> SUBSET Row]
    BY <1>3, <1>6, <1>7, <1>9 DEF TypeOK
  <2>2. paid' \in [Key -> Nat]
    BY <1>8, <1>9 DEF TypeOK
  <2>3. group' \in [Row -> {"none", "queued", "mapping", "recording", "done", "raised",
                           "placed", "dropped"}]
    BY <1>9 DEF TypeOK
  <2>. QED  BY <1>2, <2>1, <2>2, <2>3 DEF TypeOK, boundVars
<1>11. AnswersAreTheRows'
  BY <1>2, <1>6, <1>9 DEF AnswersAreTheRows
<1>12. RecordsItsAnswers'
  <2>. SUFFICES ASSUME NEW h \in Row
                PROVE  /\ group'[h] = "recording" => toRecord'[h] # {}
                       /\ toRecord'[h] \subseteq GroupRows(h, pending)
                       /\ \A r \in toRecord'[h] : answered'[r] # NoAnswer /\ answered'[r].kind = "answer"
    BY <1>2 DEF RecordsItsAnswers, GroupRows, Rank
  <2>1. CASE h = g
    BY <1>3, <1>6, <1>7, <1>9, <2>1, NoAnswerIsNone DEF TypeOK, rows
  <2>2. CASE h # g
    <3>1. group'[h] = group[h] /\ toRecord'[h] = toRecord[h]
      BY <1>9, <2>2 DEF TypeOK
    <3>2. \A r \in toRecord[h] : r \in Row /\ r \notin rows
      BY <2>2, OneGroupARow DEF RecordsItsAnswers, TypeOK, rows
    <3>. QED  BY <1>9, <3>1, <3>2 DEF RecordsItsAnswers, TypeOK
  <2>. QED  BY <2>1, <2>2
<1>13. ReportsThePlaced'
  BY <1>2, <1>9, NoMoreIsReported DEF TypeOK
<1>14. CacheHoldsAnswers' /\ EachRowItsOwnAnswer' /\ NoGroupsYet'
  BY <1>2, <1>4 DEF CacheHoldsAnswers, EachRowItsOwnAnswer, NoGroupsYet
<1>. QED  BY <1>10, <1>11, <1>12, <1>13, <1>14

\* A worker records an answer under the fingerprint of its row.
LEMMA RecordRowHolds ==
  ASSUME RowInvariant, NEW g \in Row, RecordRow(g)
  PROVE  RowInvariant'
<1>. DEFINE r == Min(toRecord[g])
<1>. USE DEF RowInvariant
<1>1. /\ group[g] = "recording"
      /\ cache' = [cache EXCEPT ![Fingerprint[r]] = answered[r]]
      /\ toRecord' = [toRecord EXCEPT ![g] = toRecord[g] \ {r}]
      /\ group' = [group EXCEPT ![g] = IF toRecord[g] = {r} THEN "done" ELSE "recording"]
      /\ UNCHANGED <<shape, attempt, main, exit, pending, answered, results, completed, flag, paid,
                     boundVars>>
  BY DEF RecordRow, TypeOK
<1>2. toRecord[g] \in SUBSET Row /\ r \in toRecord[g]
  BY <1>1, LeastRow DEF RecordsItsAnswers, TypeOK
<1>. HIDE DEF r
<1>3. /\ answered[r] \in Answer /\ answered[r].kind = "answer" /\ answered[r].of = r
      /\ answered[r].by = attempt /\ r \in Row /\ Fingerprint[r] \in Key
  BY <1>2, ShapesAreShapes DEF RecordsItsAnswers, AnswersAreTheRows, TypeOK
<1>4. attempt \in Nat
  BY DriverBounds DEF TypeOK
<1>5. TypeOK'
  <2>1. cache' \in [Key -> Answer \cup {NoAnswer}] /\ toRecord' \in [Row -> SUBSET Row]
    BY <1>1, <1>2, <1>3 DEF TypeOK
  <2>2. group' \in [Row -> {"none", "queued", "mapping", "recording", "done", "raised",
                           "placed", "dropped"}]
    BY <1>1 DEF TypeOK
  <2>. QED  BY <1>1, <2>1, <2>2 DEF TypeOK, boundVars
<1>6. CacheHoldsAnswers'
  BY <1>1, <1>3, <1>4 DEF CacheHoldsAnswers, TypeOK
<1>7. RecordsItsAnswers'
  <2>1. \A h \in Row : GroupRows(h, pending)' = GroupRows(h, pending)
    BY <1>1 DEF GroupRows, Rank
  <2>2. /\ toRecord'[g] = toRecord[g] \ {r}
        /\ group'[g] = "recording" => toRecord'[g] # {}
        /\ \A h \in Row : h # g => group'[h] = group[h] /\ toRecord'[h] = toRecord[h]
    BY <1>1, <1>2 DEF TypeOK
  <2>. QED  BY <1>1, <2>1, <2>2 DEF RecordsItsAnswers
<1>8. ReportsThePlaced'
  BY <1>1, NoMoreIsReported DEF TypeOK
<1>9. AnswersAreTheRows' /\ EachRowItsOwnAnswer' /\ NoGroupsYet'
  BY <1>1 DEF AnswersAreTheRows, EachRowItsOwnAnswer, NoGroupsYet
<1>. QED  BY <1>5, <1>6, <1>7, <1>8, <1>9

\* The other steps place no row, answer none and cache none.
LEMMA OtherStepsHold ==
  ASSUME RowInvariant,
         \/ TakeCancel \/ FinishRows \/ ShutDown \/ Leave \/ TakeCancelBetweenStages
         \/ RequestCancel \/ UNCHANGED vars
         \/ \E g \in Row : TakeRaise(g) \/ StartGroup(g) \/ RaiseInGroup(g) \/ FailToRecord(g)
  PROVE  RowInvariant'
<1>. USE DEF RowInvariant
<1>1. UNCHANGED <<shape, cache, attempt, pending, answered, results, completed, paid>>
  BY DEF TakeCancel, FinishRows, ShutDown, Leave, TakeCancelBetweenStages, RequestCancel, TakeRaise,
     StartGroup, RaiseInGroup, FailToRecord, vars, poolVars, boundVars
<1>2. \/ group' = group /\ toRecord' = toRecord
      \/ /\ group' = [g \in Row |-> IF group[g] = "queued" THEN "dropped" ELSE group[g]]
         /\ toRecord' = toRecord
      \/ \E g \in Row : /\ group[g] = "queued" /\ group' = [group EXCEPT ![g] = "mapping"]
                        /\ toRecord' = toRecord
      \/ \E g \in Row : /\ group[g] = "mapping" /\ group' = [group EXCEPT ![g] = "raised"]
                        /\ toRecord' = toRecord
      \/ \E g \in Row : /\ group[g] = "recording" /\ group' = [group EXCEPT ![g] = "raised"]
                        /\ toRecord' = [toRecord EXCEPT ![g] = {}]
  <2>1. CASE \/ TakeCancel \/ FinishRows \/ Leave \/ TakeCancelBetweenStages
             \/ RequestCancel \/ UNCHANGED vars \/ \E g \in Row : TakeRaise(g)
    BY <2>1 DEF TakeCancel, FinishRows, Leave, TakeCancelBetweenStages, RequestCancel, TakeRaise,
       vars, poolVars
  <2>2. CASE ShutDown
    BY <2>2 DEF ShutDown
  <2>3. ASSUME NEW g \in Row, StartGroup(g)
        PROVE  group[g] = "queued"
    <3>1. GroupsIn({"queued"}) \in SUBSET Row /\ GroupsIn({"queued"}) # {}
      BY <2>3 DEF StartGroup, GroupsIn
    <3>2. g \in GroupsIn({"queued"})
      BY <2>3, <3>1, LeastRow DEF StartGroup, NextQueued
    <3>. QED  BY <3>2 DEF GroupsIn
  <2>4. CASE \E g \in Row : StartGroup(g)
    BY <2>3, <2>4 DEF StartGroup
  <2>5. CASE \E g \in Row : RaiseInGroup(g)
    BY <2>5 DEF RaiseInGroup
  <2>6. CASE \E g \in Row : FailToRecord(g)
    BY <2>6 DEF FailToRecord
  <2>. QED  BY <2>1, <2>2, <2>4, <2>5, <2>6
<1>3. /\ group' \in [Row -> {"none", "queued", "mapping", "recording", "done", "raised",
                             "placed", "dropped"}]
      /\ toRecord' \in [Row -> SUBSET Row]
  BY <1>2 DEF TypeOK
<1>4. \A h \in Row : /\ group'[h] = "placed" <=> group[h] = "placed"
                     /\ group'[h] = "none" <=> group[h] = "none"
                     /\ toRecord'[h] \subseteq toRecord[h]
                     /\ group'[h] = "recording" =>
                          group[h] = "recording" /\ toRecord'[h] = toRecord[h]
  BY <1>2 DEF TypeOK
<1>5. TypeOK'
  <2>1. flag' \in BOOLEAN
    BY DEF TypeOK, TakeCancel, FinishRows, ShutDown, Leave, TakeCancelBetweenStages,
       RequestCancel, TakeRaise, StartGroup, RaiseInGroup, FailToRecord, vars
  <2>2. cancels' \in 0..MaxCancels /\ faults' \in 0..MaxFaults
    BY DriverBounds DEF TypeOK, TakeCancel, FinishRows, ShutDown, Leave, TakeCancelBetweenStages,
       RequestCancel, TakeRaise, StartGroup, RaiseInGroup, FailToRecord, vars, boundVars
  <2>3. /\ main' \in {"outside", "driving", "unwinding", "joining"}
        /\ exit' \in {"none", "whole", "cancelled", "raised", "crashed"}
    BY DEF TypeOK, TakeCancel, FinishRows, ShutDown, Leave, TakeCancelBetweenStages,
       RequestCancel, TakeRaise, StartGroup, RaiseInGroup, FailToRecord, vars
  <2>. QED  BY <1>1, <1>3, <2>1, <2>2, <2>3 DEF TypeOK
<1>6. RecordsItsAnswers'
  <2>1. \A g \in Row : GroupRows(g, pending)' = GroupRows(g, pending)
    BY <1>1 DEF GroupRows, Rank
  <2>. QED  BY <1>1, <1>4, <2>1 DEF RecordsItsAnswers
<1>7. ReportsThePlaced'
  BY <1>1, <1>4, NoMoreIsReported
<1>8. AnswersAreTheRows' /\ CacheHoldsAnswers' /\ EachRowItsOwnAnswer' /\ NoGroupsYet'
  BY <1>1, <1>4 DEF AnswersAreTheRows, CacheHoldsAnswers, EachRowItsOwnAnswer, NoGroupsYet
<1>. QED  BY <1>5, <1>6, <1>7, <1>8

\* A crash forgets all but the cache.
LEMMA CrashHolds ==
  ASSUME RowInvariant, Crash
  PROVE  RowInvariant'
<1>. USE DEF RowInvariant
<1>1. /\ main' = "outside" /\ exit' = "crashed" /\ pending' = {} /\ completed' = 0 /\ flag' = FALSE
      /\ group' = [g \in Row |-> "none"] /\ toRecord' = [g \in Row |-> {}]
      /\ answered' = NothingAnswered /\ results' = NothingAnswered
      /\ faults' \in 0..MaxFaults
      /\ UNCHANGED <<shape, cache, attempt, paid, cancels>>
  BY DriverBounds DEF Crash, TypeOK
<1>2. TypeOK'
  <2>1. group' \in [Row -> {"none", "queued", "mapping", "recording", "done", "raised",
                           "placed", "dropped"}]
    BY <1>1
  <2>2. 0 \in 0..RowCount
    BY ShapesAreShapes
  <2>. QED  BY <1>1, <2>1, <2>2, NoAnswerIsNone DEF TypeOK
<1>3. ReportsThePlaced'
  <2>1. PlacedRows' \in SUBSET Row /\ Row \ pending' \in SUBSET Row
    BY <1>1 DEF PlacedRows
  <2>2. Cardinality(PlacedRows') \in Nat /\ Cardinality(Row \ pending') \in Nat
    BY <2>1, RowsAreFinite
  <2>3. 0 <= Cardinality(Row \ pending') + Cardinality(PlacedRows')
    BY <2>2
  <2>. QED  BY <1>1, <2>3 DEF ReportsThePlaced
<1>4. AnswersAreTheRows' /\ CacheHoldsAnswers' /\ RecordsItsAnswers' /\ EachRowItsOwnAnswer'
      /\ NoGroupsYet'
  BY <1>1, NoAnswerIsNone DEF AnswersAreTheRows, CacheHoldsAnswers, RecordsItsAnswers,
     EachRowItsOwnAnswer, NoGroupsYet
<1>. QED  BY <1>2, <1>3, <1>4

\* Every step keeps the rows' own answers.
LEMMA StepHolds == RowInvariant /\ [Next]_vars => RowInvariant'
BY OpenHolds, PlaceGroupHolds, MapGroupHolds, RecordRowHolds, OtherStepsHold, CrashHolds
   DEF Next, Main, Worker

\* So they are kept for good.
LEMMA RowInvariantHolds == Spec => []RowInvariant
BY InitHolds, StepHolds, PTL DEF Spec

-----------------------------------------------------------------------------
(* What is paid for.                                                       *)

\* A row no other has the fingerprint of.
Alone(r) == Cardinality({q \in Row : Fingerprint[q] = Fingerprint[r]}) = 1

\* An answer that was paid for is cached, or its worker has it still to record.
Kept(r) ==
  \/ cache[Fingerprint[r]] # NoAnswer
  \/ \E g \in Row : group[g] = "recording" /\ r \in toRecord[g]

\* A row that waits for the mapper was not paid for.
Waits(r) == \E g \in Row : group[g] \in {"queued", "mapping"} /\ r \in GroupRows(g, pending)

PaidIsKept ==
  shape.caching = "read_write" /\ faults = 0 =>
    \A r \in Row : Alone(r) =>
      /\ paid[Fingerprint[r]] <= 1
      /\ paid[Fingerprint[r]] # 0 => Kept(r)
      /\ Waits(r) => paid[Fingerprint[r]] = 0

\* No worker is left at work when the stage is over.
OutsideIsQuiet == main = "outside" => \A g \in Row : group[g] \notin {"mapping", "recording"}

PaidInvariant == RowInvariant /\ PaidIsKept /\ OutsideIsQuiet

\* No two rows of the frame share the fingerprint of a row that is alone.
LEMMA AloneIsAlone ==
  ASSUME NEW r \in Row, Alone(r), NEW q \in Row, Fingerprint[q] = Fingerprint[r]
  PROVE  q = r
<1>. DEFINE alike == {p \in Row : Fingerprint[p] = Fingerprint[r]}
<1>1. alike \in SUBSET Row
  OBVIOUS
<1>2. IsFiniteSet(alike) /\ Cardinality(alike) = 1
  BY <1>1, RowsAreFinite DEF Alone
<1>3. q \in alike /\ r \in alike
  OBVIOUS
<1>. HIDE DEF alike
<1>4. PICK only : alike = {only}
  BY <1>2, FS_Singleton
<1>. QED  BY <1>3, <1>4

\* Nothing is paid for, recorded or begun: what was kept is kept.
LEMMA KeptStays ==
  ASSUME PaidInvariant, UNCHANGED <<shape, paid, cache>>, faults' = 0 => faults = 0,
         \/ pending' = pending
         \/ \A g \in Row : group'[g] \notin {"queued", "mapping"},
         \A g \in Row :
           /\ group[g] = "recording" => group'[g] = "recording" /\ toRecord'[g] = toRecord[g]
           /\ group'[g] \in {"queued", "mapping"} => group[g] \in {"queued", "mapping"}
  PROVE  PaidIsKept'
<1>. SUFFICES ASSUME (shape.caching = "read_write" /\ faults = 0)', NEW r \in Row, Alone(r)
              PROVE  (/\ paid[Fingerprint[r]] <= 1
                      /\ paid[Fingerprint[r]] # 0 => Kept(r)
                      /\ Waits(r) => paid[Fingerprint[r]] = 0)'
  BY DEF PaidIsKept, Alone
<1>1. /\ paid[Fingerprint[r]] <= 1
      /\ paid[Fingerprint[r]] # 0 => Kept(r)
      /\ Waits(r) => paid[Fingerprint[r]] = 0
  BY DEF PaidInvariant, PaidIsKept
<1>2. Kept(r) => Kept(r)'
  BY DEF Kept
<1>3. Waits(r)' => Waits(r)
  <2>1. pending' = pending => \A g \in Row : GroupRows(g, pending)' = GroupRows(g, pending)
    BY DEF GroupRows, Rank
  <2>. QED  BY <2>1 DEF Waits
<1>. QED  BY <1>1, <1>2, <1>3

\* An attempt opens on the rows that are not cached, so not paid for.
LEMMA OpenKeepsPaid ==
  ASSUME PaidInvariant, Open
  PROVE  PaidIsKept' /\ OutsideIsQuiet'
<1>1. /\ main = "outside" /\ main' = "driving" /\ UNCHANGED <<shape, cache, paid, faults>>
      /\ pending' = Row \ {r \in Row : Replays /\ cache[Fingerprint[r]] # NoAnswer}
  BY DEF Open, boundVars
<1>2. OutsideIsQuiet'
  BY <1>1 DEF OutsideIsQuiet
<1>3. ASSUME (shape.caching = "read_write" /\ faults = 0)', NEW r \in Row, Alone(r)
      PROVE  (/\ paid[Fingerprint[r]] <= 1
              /\ paid[Fingerprint[r]] # 0 => Kept(r)
              /\ Waits(r) => paid[Fingerprint[r]] = 0)'
  <2>1. paid[Fingerprint[r]] <= 1 /\ (paid[Fingerprint[r]] # 0 => Kept(r))
    BY <1>1, <1>3 DEF PaidInvariant, PaidIsKept
  <2>2. paid[Fingerprint[r]] # 0 => cache[Fingerprint[r]] # NoAnswer
    BY <1>1, <2>1 DEF PaidInvariant, OutsideIsQuiet, Kept
  <2>3. Replays
    BY <1>1, <1>3 DEF Replays
  <2>4. Waits(r)' => r \in pending'
    BY DEF Waits, GroupRows
  <2>. QED  BY <1>1, <2>1, <2>2, <2>3, <2>4 DEF Kept
<1>. QED  BY <1>2, <1>3 DEF PaidIsKept, Alone

\* What the mapper is paid for its worker records.
LEMMA MapGroupKeepsPaid ==
  ASSUME PaidInvariant, NEW g \in Row, MapGroup(g)
  PROVE  PaidIsKept' /\ OutsideIsQuiet'
<1>. DEFINE rows == GroupRows(g, pending)
<1>1. PICK kind \in [rows -> shape.kinds] :
        LET made == [r \in rows |-> [by |-> attempt, of |-> r, kind |-> kind[r]]]
            recorded == {r \in rows : Records /\ Recordable(made[r])}
            good == {r \in rows : kind[r] = "answer"} IN
        /\ toRecord' = [toRecord EXCEPT ![g] = recorded]
        /\ group' = [group EXCEPT ![g] = IF recorded = {} THEN "done" ELSE "recording"]
        /\ paid' = [f \in Key |->
                      paid[f] + Cardinality({r \in good : Fingerprint[r] = f})]
  BY DEF MapGroup
<1>. DEFINE made == [r \in rows |-> [by |-> attempt, of |-> r, kind |-> kind[r]]]
            recorded == {r \in rows : Records /\ Recordable(made[r])}
            good == {r \in rows : kind[r] = "answer"}
<1>2. /\ group[g] = "mapping" /\ main' = main /\ shape' = shape /\ cache' = cache
      /\ pending' = pending /\ faults' = faults
  BY DEF MapGroup, boundVars
<1>3. /\ toRecord' = [toRecord EXCEPT ![g] = recorded]
      /\ group' = [group EXCEPT ![g] = IF recorded = {} THEN "done" ELSE "recording"]
      /\ paid' = [f \in Key |-> paid[f] + Cardinality({r \in good : Fingerprint[r] = f})]
  BY <1>1
<1>4. OutsideIsQuiet'
  BY <1>2 DEF PaidInvariant, OutsideIsQuiet
<1>5. rows \in SUBSET Row /\ good \in SUBSET rows
  BY DEF GroupRows, PaidInvariant, RowInvariant, TypeOK
<1>6. shape.caching = "read_write" => recorded = good
  BY DEF Records, Recordable
<1>. HIDE DEF rows, made, recorded, good
<1>7. /\ group'[g] = IF recorded = {} THEN "done" ELSE "recording"
      /\ toRecord'[g] = recorded
      /\ \A h \in Row : h # g => group'[h] = group[h] /\ toRecord'[h] = toRecord[h]
  BY <1>3 DEF PaidInvariant, RowInvariant, TypeOK
<1>8. ASSUME (shape.caching = "read_write" /\ faults = 0)', NEW r \in Row, Alone(r)
      PROVE  (/\ paid[Fingerprint[r]] <= 1
              /\ paid[Fingerprint[r]] # 0 => Kept(r)
              /\ Waits(r) => paid[Fingerprint[r]] = 0)'
  <2>1. /\ paid[Fingerprint[r]] <= 1
        /\ paid[Fingerprint[r]] # 0 => Kept(r)
        /\ Waits(r) => paid[Fingerprint[r]] = 0
    BY <1>2, <1>8 DEF PaidInvariant, PaidIsKept
  <2>2. Fingerprint[r] \in Key /\ paid[Fingerprint[r]] \in Nat
    BY ShapesAreShapes DEF PaidInvariant, RowInvariant, TypeOK
  <2>3. paid'[Fingerprint[r]]
          = paid[Fingerprint[r]] + Cardinality({q \in good : Fingerprint[q] = Fingerprint[r]})
    BY <1>3, <2>2
  <2>4. \A h \in Row : GroupRows(h, pending)' = GroupRows(h, pending)
    BY <1>2 DEF GroupRows, Rank
  <2>5. CASE r \in good
    <3>1. {q \in good : Fingerprint[q] = Fingerprint[r]} = {r}
      BY <1>5, <1>8, <2>5, AloneIsAlone
    <3>2. Waits(r)
      BY <1>2, <1>5, <2>5 DEF Waits, rows
    <3>3. paid'[Fingerprint[r]] = 1
      <4>1. Cardinality({r}) = 1
        BY FS_Singleton
      <4>2. paid[Fingerprint[r]] = 0
        BY <2>1, <3>2
      <4>3. Cardinality({q \in good : Fingerprint[q] = Fingerprint[r]}) = 1
        BY <3>1, <4>1
      <4>. QED  BY <2>3, <4>2, <4>3
    <3>4. Kept(r)'
      BY <1>2, <1>6, <1>7, <1>8, <2>5 DEF Kept
    <3>5. ~Waits(r)'
      <4>. SUFFICES ASSUME NEW h \in Row, group'[h] \in {"queued", "mapping"},
                           r \in GroupRows(h, pending)
                    PROVE  FALSE
        BY <2>4 DEF Waits
      <4>1. h = g
        BY <1>5, <2>5, OneGroupARow DEF rows, PaidInvariant, RowInvariant, TypeOK
      <4>. QED  BY <1>7, <4>1
    <3>. QED  BY <3>3, <3>4, <3>5
  <2>6. CASE r \notin good
    <3>1. {q \in good : Fingerprint[q] = Fingerprint[r]} = {}
      BY <1>5, <1>8, <2>6, AloneIsAlone
    <3>2. paid'[Fingerprint[r]] = paid[Fingerprint[r]]
      BY <2>2, <2>3, <3>1, FS_EmptySet
    <3>3. Kept(r) => Kept(r)'
      BY <1>2, <1>7 DEF Kept
    <3>4. Waits(r)' => Waits(r)
      BY <1>2, <1>7, <2>4 DEF Waits
    <3>. QED  BY <2>1, <3>2, <3>3, <3>4
  <2>. QED  BY <2>5, <2>6
<1>. QED  BY <1>4, <1>8 DEF PaidIsKept, Alone

\* A row that is recorded is cached.
LEMMA RecordRowKeepsPaid ==
  ASSUME PaidInvariant, NEW g \in Row, RecordRow(g)
  PROVE  PaidIsKept' /\ OutsideIsQuiet'
<1>. DEFINE r == Min(toRecord[g])
<1>1. /\ group[g] = "recording"
      /\ cache' = [cache EXCEPT ![Fingerprint[r]] = answered[r]]
      /\ toRecord' = [toRecord EXCEPT ![g] = toRecord[g] \ {r}]
      /\ group' = [group EXCEPT ![g] = IF toRecord[g] = {r} THEN "done" ELSE "recording"]
      /\ UNCHANGED <<shape, main, pending, paid, faults>>
  BY DEF RecordRow, PaidInvariant, RowInvariant, TypeOK, boundVars
<1>2. toRecord[g] \in SUBSET Row /\ r \in toRecord[g]
  BY <1>1, LeastRow DEF RecordsItsAnswers, PaidInvariant, RowInvariant, TypeOK
<1>. HIDE DEF r
<1>3. answered[r] # NoAnswer /\ r \in Row /\ Fingerprint[r] \in Key
  BY <1>2, ShapesAreShapes DEF RecordsItsAnswers, PaidInvariant, RowInvariant
<1>4. OutsideIsQuiet'
  BY <1>1 DEF PaidInvariant, OutsideIsQuiet
<1>5. /\ toRecord'[g] = toRecord[g] \ {r}
      /\ group'[g] \in {"done", "recording"} /\ (group'[g] = "done" => toRecord[g] = {r})
      /\ \A h \in Row : h # g => group'[h] = group[h] /\ toRecord'[h] = toRecord[h]
      /\ \A f \in Key : cache[f] # NoAnswer => cache'[f] # NoAnswer
      /\ cache'[Fingerprint[r]] # NoAnswer
  BY <1>1, <1>3 DEF PaidInvariant, RowInvariant, TypeOK
<1>6. ASSUME NEW q \in Row, Kept(q)
      PROVE  Kept(q)'
  <2>1. Fingerprint[q] \in Key
    BY ShapesAreShapes
  <2>2. CASE cache[Fingerprint[q]] # NoAnswer
    BY <1>5, <2>1, <2>2 DEF Kept
  <2>3. CASE \E h \in Row : group[h] = "recording" /\ q \in toRecord[h]
    <3>. PICK h \in Row : group[h] = "recording" /\ q \in toRecord[h]
      BY <2>3
    <3>1. CASE q = r
      BY <1>5, <3>1 DEF Kept
    <3>2. CASE q # r
      <4>1. group'[h] = "recording" /\ q \in toRecord'[h]
        BY <1>5, <3>2
      <4>. QED  BY <4>1 DEF Kept
    <3>. QED  BY <3>1, <3>2
  <2>. QED  BY <1>6, <2>2, <2>3 DEF Kept
<1>7. ASSUME NEW q \in Row, Waits(q)'
      PROVE  Waits(q)
  <2>1. \A h \in Row : GroupRows(h, pending)' = GroupRows(h, pending)
    BY <1>1 DEF GroupRows, Rank
  <2>. QED  BY <1>5, <1>7, <2>1 DEF Waits
<1>. QED  BY <1>1, <1>4, <1>6, <1>7 DEF PaidInvariant, PaidIsKept, Alone

\* The other steps pay for nothing.
LEMMA OtherStepsKeepPaid ==
  ASSUME PaidInvariant,
         \/ TakeCancel \/ FinishRows \/ ShutDown \/ Leave \/ TakeCancelBetweenStages
         \/ RequestCancel \/ UNCHANGED vars \/ Crash
         \/ \E g \in Row : PlaceGroup(g) \/ TakeRaise(g) \/ StartGroup(g) \/ RaiseInGroup(g)
                           \/ FailToRecord(g)
  PROVE  PaidIsKept' /\ OutsideIsQuiet'
<1>. USE DEF PaidInvariant, RowInvariant
<1>1. CASE \/ TakeCancel \/ FinishRows \/ TakeCancelBetweenStages \/ RequestCancel \/ UNCHANGED vars
           \/ Leave \/ \E g \in Row : TakeRaise(g)
  <2>1. UNCHANGED <<shape, paid, cache, pending, group, toRecord, faults>>
    BY <1>1 DEF TakeCancel, FinishRows, Leave, TakeCancelBetweenStages, RequestCancel, TakeRaise,
       vars, poolVars, boundVars
  <2>2. PaidIsKept'
    BY <2>1, KeptStays
  <2>3. OutsideIsQuiet'
    BY <1>1, <2>1 DEF TakeCancel, FinishRows, Leave, TakeCancelBetweenStages, RequestCancel,
       TakeRaise, vars, OutsideIsQuiet, InFlight, GroupsIn
  <2>. QED  BY <2>2, <2>3
<1>2. CASE ShutDown
  <2>1. /\ UNCHANGED <<shape, paid, cache, pending, toRecord, faults>> /\ main' = "joining"
        /\ \A g \in Row : group'[g] = IF group[g] = "queued" THEN "dropped" ELSE group[g]
    BY <1>2 DEF ShutDown, boundVars
  <2>2. PaidIsKept'
    BY <2>1, KeptStays
  <2>. QED  BY <2>1, <2>2 DEF OutsideIsQuiet
<1>3. CASE \E g \in Row : StartGroup(g)
  <2>. PICK g \in Row : StartGroup(g)
    BY <1>3
  <2>1. group[g] = "queued"
    <3>1. GroupsIn({"queued"}) \in SUBSET Row /\ GroupsIn({"queued"}) # {}
      BY DEF StartGroup, GroupsIn
    <3>2. g \in GroupsIn({"queued"})
      BY <3>1, LeastRow DEF StartGroup, NextQueued
    <3>. QED  BY <3>2 DEF GroupsIn
  <2>2. /\ UNCHANGED <<shape, paid, cache, pending, toRecord, faults, main>> /\ main # "outside"
        /\ group' = [group EXCEPT ![g] = "mapping"]
    BY DEF StartGroup, boundVars
  <2>3. group'[g] = "mapping" /\ \A h \in Row : h # g => group'[h] = group[h]
    BY <2>2 DEF TypeOK
  <2>4. PaidIsKept'
    BY <2>1, <2>2, <2>3, KeptStays
  <2>. QED  BY <2>2, <2>4 DEF OutsideIsQuiet
<1>4. CASE \E g \in Row : PlaceGroup(g) \/ RaiseInGroup(g)
  <2>. PICK g \in Row : PlaceGroup(g) \/ RaiseInGroup(g)
    BY <1>4
  <2>1. /\ UNCHANGED <<shape, paid, cache, pending, toRecord, faults, main>>
        /\ group[g] \in {"done", "mapping"}
        /\ \E to \in {"placed", "raised"} : group' = [group EXCEPT ![g] = to]
    BY DEF PlaceGroup, RaiseInGroup, boundVars
  <2>2. /\ group'[g] \in {"placed", "raised"} /\ \A h \in Row : h # g => group'[h] = group[h]
    BY <2>1 DEF TypeOK
  <2>3. PaidIsKept'
    BY <2>1, <2>2, KeptStays
  <2>. QED  BY <2>1, <2>2, <2>3 DEF OutsideIsQuiet
<1>5. CASE Crash \/ \E g \in Row : FailToRecord(g)
  <2>1. faults' # 0
    BY <1>5, DriverBounds DEF Crash, FailToRecord, TypeOK
  <2>2. OutsideIsQuiet'
    BY <1>5 DEF Crash, FailToRecord, OutsideIsQuiet, TypeOK
  <2>. QED  BY <2>1, <2>2 DEF PaidIsKept
<1>. QED  BY <1>1, <1>2, <1>3, <1>4, <1>5

\* Nothing is paid twice, whatever the step.
LEMMA PaidInvariantHolds == Spec => []PaidInvariant
<1>1. Init => PaidInvariant
  <2>. SUFFICES ASSUME Init  PROVE PaidInvariant
    OBVIOUS
  <2>1. \A r \in Row : paid[Fingerprint[r]] = 0
    BY ShapesAreShapes DEF Init
  <2>. QED  BY <2>1, InitHolds DEF Init, PaidInvariant, PaidIsKept, OutsideIsQuiet
<1>2. PaidInvariant /\ [Next]_vars => PaidInvariant'
  <2>1. PaidInvariant /\ [Next]_vars => RowInvariant'
    BY StepHolds DEF PaidInvariant
  <2>. QED
    BY <2>1, OpenKeepsPaid, MapGroupKeepsPaid, RecordRowKeepsPaid, OtherStepsKeepPaid
       DEF Next, Main, Worker, PaidInvariant
<1>. QED  BY <1>1, <1>2, PTL DEF Spec

-----------------------------------------------------------------------------
(* The theorems.                                                           *)

\* Every variable keeps to its type, the reporter's count among them.
THEOREM TypeCorrect == Spec => []TypeOK
<1>1. RowInvariant => TypeOK
  BY DEF RowInvariant
<1>. QED  BY <1>1, RowInvariantHolds, PTL

\* A result slot holds the answer to its own row, computed now or recorded before.
THEOREM EachRowGetsItsOwnAnswer == Spec => []EachRowItsOwnAnswer
<1>1. RowInvariant => EachRowItsOwnAnswer
  BY DEF RowInvariant
<1>. QED  BY <1>1, RowInvariantHolds, PTL

\* An input alone with its fingerprint is paid for once over all attempts, as long
\* as the process lives and the cache is written.
THEOREM AnAnswerIsPaidForOnce == Spec => []PaidOnce
<1>1. PaidInvariant => PaidOnce
  <2>. SUFFICES ASSUME PaidInvariant, shape.caching = "read_write", faults = 0, NEW f \in Key,
                       Cardinality({r \in Row : Fingerprint[r] = f}) = 1
                PROVE  paid[f] <= 1
    BY DEF PaidOnce
  <2>1. {r \in Row : Fingerprint[r] = f} # {}
    BY FS_EmptySet
  <2>2. PICK r \in Row : Fingerprint[r] = f
    BY <2>1
  <2>. QED  BY <2>2 DEF PaidInvariant, PaidIsKept, Alone
<1>. QED  BY <1>1, PaidInvariantHolds, PTL
=============================================================================
