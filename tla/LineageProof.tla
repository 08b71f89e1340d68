---------------------------- MODULE LineageProof ----------------------------
(***************************************************************************)
(* What Lineage promises for every set of sources, every set of windows,   *)
(* and any number of stages and rows: the lineage a run records names, for *)
(* each row, exactly the rows whose cells it carries; and what is read off *)
(* it, the trace of a row and the branches it took, tells the truth.       *)
(*                                                                         *)
(* A handler works on the window of its inputs that it was handed, so that *)
(* its record is first right of those windows, and once Placed of the run. *)
(***************************************************************************)
EXTENDS Lineage, SequenceTheorems, WellFoundedInduction, TLAPS

CellSet == SUBSET (Nat \X Nat \X Nat)

\* A function on 1..n is a sequence of length n.
LEMMA FunctionIsASeq ==
  ASSUME NEW S, NEW n \in Nat, NEW f \in [1..n -> S]
  PROVE  f \in Seq(S) /\ DOMAIN f = 1..n /\ Len(f) = n
OBVIOUS

\* One element, then another.
LEMMA PairOfElements ==
  ASSUME NEW S, NEW a \in S, NEW b \in S
  PROVE  <<a>> \o <<b>> = <<a, b>> /\ <<a, b>> \in Seq(S)
<1>1. /\ <<a>> \in Seq(S) /\ Len(<<a>>) = 1 /\ <<a>>[1] = a
      /\ <<b>> \in Seq(S) /\ Len(<<b>>) = 1 /\ <<b>>[1] = b
  OBVIOUS
<1>2. /\ <<a, b>> \in Seq(S) /\ Len(<<a, b>>) = 2
      /\ <<a, b>>[1] = a /\ <<a, b>>[2] = b
  OBVIOUS
<1> DEFINE both == <<a>> \o <<b>>
<1>3. both \in Seq(S) /\ Len(both) = 2 /\ both[1] = a /\ both[2] = b
  BY <1>1, ConcatProperties
<1> HIDE DEF both
<1>4. \A i \in 1..2 : both[i] = <<a, b>>[i]
  BY <1>2, <1>3
<1>5. both = <<a, b>>
  BY <1>2, <1>3, <1>4, SeqEqual
<1>. QED  BY <1>2, <1>5 DEF both

-----------------------------------------------------------------------------
(* Windows.                                                                *)

\* A window starts at an ordinal, and has a cap or none.
LEMMA WindowType ==
  ASSUME NEW window \in Windows
  PROVE  window.start \in Nat /\ window.cap \in Nat \cup {-1}
BY LineageConstants DEF NoCap

\* Row i of a window is row i + start of the table it was cut from.
LEMMA CutIsAWindow ==
  ASSUME NEW S, NEW table \in Seq(S), NEW window \in Windows
  PROVE  /\ Cut(table, window) \in Seq(S)
         /\ \A i \in DOMAIN Cut(table, window) :
              /\ i + window.start \in DOMAIN table
              /\ Cut(table, window)[i] = table[i + window.start]
<1> DEFINE rest == SubSeq(table, window.start + 1, Len(table))
           most == SubSeq(rest, 1, window.cap)
<1>1. window.start \in Nat /\ window.cap \in Nat \cup {-1}
  BY WindowType
<1>2. /\ rest \in Seq(S)
      /\ \A i \in DOMAIN rest : /\ i + window.start \in DOMAIN table
                                /\ rest[i] = table[i + window.start]
  BY <1>1, SubSeqProperties
<1>3. CASE window.cap # NoCap /\ Len(rest) > window.cap
  <2>1. Cut(table, window) = most
    BY <1>3 DEF Cut
  <2>2. window.cap \in Nat /\ window.cap <= Len(rest)
    BY <1>1, <1>2, <1>3 DEF NoCap
  <2>3. \A i \in 1..window.cap : i \in DOMAIN rest /\ rest[i] \in S
    <3> HIDE DEF rest
    <3>. QED  BY <1>2, <2>2
  <2>4. /\ most \in Seq(S)
        /\ DOMAIN most = 1..window.cap
        /\ \A i \in 1..window.cap : most[i] = rest[i]
    <3> HIDE DEF rest
    <3>. QED  BY <1>2, <2>2, <2>3, SubSeqProperties, LenProperties
  <2>. QED  BY <1>2, <2>1, <2>3, <2>4
<1>4. CASE ~(window.cap # NoCap /\ Len(rest) > window.cap)
  BY <1>2, <1>4 DEF Cut
<1>. QED  BY <1>3, <1>4

\* How many rows a window takes depends on how many there are alone.
LEMMA CutLength ==
  ASSUME NEW S, NEW T, NEW one \in Seq(S), NEW other \in Seq(T),
         Len(one) = Len(other), NEW window \in Windows
  PROVE  Len(Cut(one, window)) = Len(Cut(other, window))
<1> DEFINE Rest(table) == SubSeq(table, window.start + 1, Len(table))
<1>1. window.start \in Nat /\ window.cap \in Nat \cup {-1}
  BY WindowType
<1>2. Len(Rest(one)) = Len(Rest(other)) /\ Rest(one) \in Seq(S) /\ Rest(other) \in Seq(T)
  BY <1>1, SubSeqProperties
<1>3. CASE window.cap # NoCap /\ Len(Rest(one)) > window.cap
  <2>1. window.cap \in Nat
    BY <1>1, <1>3 DEF NoCap
  <2>2. /\ Cut(one, window) = SubSeq(Rest(one), 1, window.cap)
        /\ Cut(other, window) = SubSeq(Rest(other), 1, window.cap)
    BY <1>2, <1>3 DEF Cut
  <2> HIDE DEF Rest
  <2>. QED  BY <1>2, <1>3, <2>1, <2>2, SubSeqProperties
<1>4. CASE ~(window.cap # NoCap /\ Len(Rest(one)) > window.cap)
  BY <1>2, <1>4 DEF Cut
<1>. QED  BY <1>3, <1>4

\* The records of a run.
LEMMA RecordType ==
  ASSUME TypeOK, NEW s \in Stage
  PROVE  run[s] \in StageRecord
BY ElementOfSeq, LenProperties DEF TypeOK, Stage

\* What a stage reads of another through a window.
LEMMA ReadIsAWindow ==
  ASSUME TypeOK, NEW s \in Stage, NEW window \in Windows
  PROVE  /\ Read(s, window) \in Seq(CellSet)
         /\ \A i \in DOMAIN Read(s, window) :
              /\ i + window.start \in DOMAIN run[s].cells
              /\ Read(s, window)[i] = run[s].cells[i + window.start]
<1>1. run[s].cells \in Seq(CellSet)
  BY RecordType DEF StageRecord, CellSet
<1>. QED  BY <1>1, CutIsAWindow DEF Read

-----------------------------------------------------------------------------
(* What a handler owes its record.                                         *)

\* A row of `cells` carries the cells of the rows `entry` names, counted from the
\* offset of the window, and of no others.
Carries(entry, offset, cells) ==
  /\ \A k \in DOMAIN entry :
       /\ entry[k].stage \in Stage
       /\ entry[k].row + offset \in DOMAIN run[entry[k].stage].cells
  /\ cells = UNION {run[entry[k].stage].cells[entry[k].row + offset] : k \in DOMAIN entry}

\* A record of a handler that worked on windows starting at `offset`.
Sound(record, offset) ==
  /\ record \in StageRecord
  /\ record.kind \notin {"load", "opaque"}
  /\ record.recorded
  /\ Len(record.lineage) = Len(record.cells)
  /\ \A k \in DOMAIN record.inputs : record.inputs[k] \in Stage
  /\ \A row \in DOMAIN record.cells : Carries(record.lineage[row], offset, record.cells[row])

\* A record the run may be given next.
Told(record) ==
  /\ record \in StageRecord
  /\ record.recorded => Len(record.lineage) = Len(record.cells)
  /\ \A k \in DOMAIN record.inputs : record.inputs[k] \in Stage
  /\ record.kind = "load" => record.recorded /\ \A row \in DOMAIN record.cells :
       /\ 1 \in DOMAIN record.lineage[row]
       /\ record.cells[row] =
            {<<Len(run) + 1, record.lineage[row][1].file, record.lineage[row][1].row>>}
  /\ record.kind \notin {"load", "opaque"} => \A row \in DOMAIN record.cells :
       IF record.recorded THEN Carries(record.lineage[row], 0, record.cells[row])
       ELSE /\ record.kind \in {"map", "enrich"}
            /\ record.inputs[1] \in Stage
            /\ row \in DOMAIN run[record.inputs[1]].cells
            /\ record.cells[row] = run[record.inputs[1]].cells[row]

\* The parents of a handler's record are put back by the start of its window.
LEMMA PlacedIsTold ==
  ASSUME TypeOK, NEW window \in Windows, NEW record, Sound(record, window.start)
  PROVE  Told(Placed(record, window))
<1> DEFINE placed == Placed(record, window)
           offset == window.start
<1>1. offset \in Nat
  BY WindowType
<1>2. /\ record \in StageRecord
      /\ record.lineage \in Seq(Seq(Row))
      /\ record.cells \in Seq(CellSet)
  BY DEF Sound, StageRecord, CellSet
<1>3. placed = [record EXCEPT !.lineage = Shifted(record.lineage, offset)]
  BY DEF Placed
<1>4. /\ placed.cells = record.cells /\ placed.inputs = record.inputs
      /\ placed.kind = record.kind /\ placed.recorded = record.recorded
      /\ placed.lineage = Shifted(record.lineage, offset)
  BY <1>2, <1>3 DEF StageRecord
<1>5. \A i \in DOMAIN record.lineage :
        /\ record.lineage[i] \in Seq(Row)
        /\ Shifted(record.lineage, offset)[i] \in Seq(Row)
        /\ DOMAIN Shifted(record.lineage, offset)[i] = DOMAIN record.lineage[i]
        /\ \A k \in DOMAIN record.lineage[i] :
             /\ Shifted(record.lineage, offset)[i][k].stage = record.lineage[i][k].stage
             /\ Shifted(record.lineage, offset)[i][k].row = record.lineage[i][k].row + offset
  <2>. SUFFICES ASSUME NEW i \in DOMAIN record.lineage
       PROVE  /\ record.lineage[i] \in Seq(Row)
              /\ Shifted(record.lineage, offset)[i] \in Seq(Row)
              /\ DOMAIN Shifted(record.lineage, offset)[i] = DOMAIN record.lineage[i]
              /\ \A k \in DOMAIN record.lineage[i] :
                   /\ Shifted(record.lineage, offset)[i][k].stage = record.lineage[i][k].stage
                   /\ Shifted(record.lineage, offset)[i][k].row = record.lineage[i][k].row + offset
    OBVIOUS
  <2> DEFINE entry == record.lineage[i]
             moved == [k \in DOMAIN entry |-> [entry[k] EXCEPT !.row = @ + offset]]
  <2>1. entry \in Seq(Row)
    BY <1>2, ElementOfSeq, LenProperties
  <2>2. Shifted(record.lineage, offset)[i] = moved
    BY DEF Shifted
  <2>3. \A k \in DOMAIN entry :
          /\ moved[k] \in Row
          /\ moved[k].stage = entry[k].stage
          /\ moved[k].row = entry[k].row + offset
    <3>1. \A k \in DOMAIN entry : entry[k] \in Row
      BY <2>1, ElementOfSeq, LenProperties
    <3>. QED  BY <1>1, <3>1 DEF Row
  <2>4. moved \in Seq(Row) /\ DOMAIN moved = DOMAIN entry
    <3>1. DOMAIN entry = 1..Len(entry) /\ Len(entry) \in Nat
      BY <2>1, LenProperties
    <3>2. DOMAIN moved = DOMAIN entry /\ moved = [k \in DOMAIN entry |-> moved[k]]
      OBVIOUS
    <3> HIDE DEF moved, entry
    <3>3. moved \in [1..Len(entry) -> Row]
      BY <2>3, <3>1, <3>2
    <3>. QED  BY <3>1, <3>2, <3>3, FunctionIsASeq
  <2>. QED  BY <2>1, <2>2, <2>3, <2>4
<1>6. /\ placed.lineage \in Seq(Seq(Row))
      /\ Len(placed.lineage) = Len(record.lineage)
      /\ DOMAIN placed.lineage = DOMAIN record.lineage
  <2>1. DOMAIN record.lineage = 1..Len(record.lineage) /\ Len(record.lineage) \in Nat
    BY <1>2, LenProperties
  <2>2. /\ DOMAIN placed.lineage = DOMAIN record.lineage
        /\ placed.lineage = [i \in DOMAIN record.lineage |-> placed.lineage[i]]
    <3>1. /\ DOMAIN Shifted(record.lineage, offset) = DOMAIN record.lineage
          /\ Shifted(record.lineage, offset) =
               [i \in DOMAIN record.lineage |-> Shifted(record.lineage, offset)[i]]
      BY DEF Shifted
    <3> HIDE DEF placed
    <3>. QED  BY <1>4, <3>1
  <2> HIDE DEF placed, offset
  <2>3. placed.lineage \in [1..Len(record.lineage) -> Seq(Row)]
    BY <1>4, <1>5, <2>1, <2>2
  <2>. QED  BY <2>1, <2>2, <2>3, FunctionIsASeq
<1>7. placed \in StageRecord
  BY <1>2, <1>3, <1>4, <1>6 DEF StageRecord
<1>8. ASSUME NEW row \in DOMAIN record.cells
      PROVE  Carries(placed.lineage[row], 0, placed.cells[row])
  <2>1. row \in DOMAIN record.lineage
    BY <1>2, LenProperties DEF Sound
  <2>2. Carries(record.lineage[row], offset, record.cells[row])
    BY DEF Sound
  <2>3. \A k \in DOMAIN record.lineage[row] :
          /\ placed.lineage[row][k].stage = record.lineage[row][k].stage
          /\ placed.lineage[row][k].row + 0 = record.lineage[row][k].row + offset
    <3>1. \A k \in DOMAIN record.lineage[row] : record.lineage[row][k].row \in Nat
      <4>1. record.lineage[row] \in Seq(Row)
        BY <1>5, <2>1
      <4>2. \A k \in DOMAIN record.lineage[row] : record.lineage[row][k] \in Row
        BY <4>1, ElementOfSeq, LenProperties
      <4>. QED  BY <4>2 DEF Row
    <3>. QED  BY <1>1, <1>4, <1>5, <2>1, <3>1
  <2>4. DOMAIN placed.lineage[row] = DOMAIN record.lineage[row]
    BY <1>4, <1>5, <2>1
  <2> HIDE DEF placed, offset
  <2>. QED  BY <1>4, <2>2, <2>3, <2>4 DEF Carries
<1> HIDE DEF placed
<1>. QED  BY <1>4, <1>6, <1>7, <1>8 DEF Sound, Told, placed

\* A run keeps its types and its lineage when it is given a record that is told.
LEMMA PutKeepsTheRun ==
  ASSUME TypeOK, ParentsCarryTheCells, Room, NEW record, Told(record), Put(record)
  PROVE  TypeOK' /\ ParentsCarryTheCells'
<1> DEFINE n == Len(run)
<1>1. /\ n \in Nat /\ n < MaxStages /\ MaxStages \in Nat
      /\ Stage = 1..n
  BY LenProperties, LineageConstants DEF TypeOK, Room, Stage
<1>2. /\ run' \in Seq(StageRecord)
      /\ Len(run') = n + 1
      /\ Stage' = 1..(n + 1)
      /\ \A s \in 1..n : run'[s] = run[s]
      /\ run'[n + 1] = record
  BY AppendProperties, LenProperties DEF TypeOK, Told, Put, Stage
<1>3. TypeOK'
  <2>1. ASSUME NEW s \in 1..n
        PROVE  /\ \A k \in DOMAIN run'[s].inputs : run'[s].inputs[k] \in 1..(s - 1)
               /\ run'[s].recorded => Len(run'[s].lineage) = Len(run'[s].cells)
    BY <1>1, <1>2 DEF TypeOK
  <2>2. /\ \A k \in DOMAIN record.inputs : record.inputs[k] \in 1..n
        /\ record.recorded => Len(record.lineage) = Len(record.cells)
    BY <1>1 DEF Told
  <2>3. \A s \in 1..(n + 1) :
          /\ \A k \in DOMAIN run'[s].inputs : run'[s].inputs[k] \in 1..(s - 1)
          /\ run'[s].recorded => Len(run'[s].lineage) = Len(run'[s].cells)
    BY <1>1, <1>2, <2>1, <2>2
  <2>. QED  BY <1>1, <1>2, <2>3 DEF TypeOK
<1>4. ParentsCarryTheCells'
  <2> DEFINE Right(s, row) ==
        IF run[s].kind = "load"
        THEN \E p \in ToSet(run[s].lineage[row]) : run[s].cells[row] = {<<s, p.file, p.row>>}
        ELSE LET parents == ToSet(ParentsOf(s, row)) IN
             /\ \A p \in parents : p.stage \in 1..(s - 1) /\ p.row \in DOMAIN run[p.stage].cells
             /\ run[s].cells[row] = UNION {run[p.stage].cells[p.row] : p \in parents}
  <2>. SUFFICES ASSUME NEW s \in 1..(n + 1), run'[s].kind # "opaque",
                       NEW row \in DOMAIN run'[s].cells
       PROVE  Right(s, row)'
    BY <1>2 DEF ParentsCarryTheCells
  <2>1. CASE s \in 1..n
    <3>1. run'[s] = run[s] /\ ParentsOf(s, row)' = ParentsOf(s, row)
      BY <1>2, <2>1 DEF ParentsOf, KeepsPlaces, Parent
    <3>2. Right(s, row)
      BY <1>1, <2>1, <3>1 DEF ParentsCarryTheCells
    <3>3. CASE run[s].kind = "load"
      BY <3>1, <3>2, <3>3
    <3>4. CASE run[s].kind # "load"
      <4> DEFINE parents == ToSet(ParentsOf(s, row))
      <4>1. parents' = parents
        BY <3>1 DEF ToSet
      <4>2. /\ \A p \in parents : p.stage \in 1..(s - 1) /\ p.row \in DOMAIN run[p.stage].cells
            /\ run[s].cells[row] = UNION {run[p.stage].cells[p.row] : p \in parents}
        BY <3>2, <3>4
      <4>3. \A p \in parents : run'[p.stage] = run[p.stage]
        BY <1>1, <1>2, <2>1, <4>2
      <4> HIDE DEF parents
      <4>4. {run'[p.stage].cells[p.row] : p \in parents} = {run[p.stage].cells[p.row] : p \in parents}
        BY <4>3
      <4>5. /\ \A p \in parents' : p.stage \in 1..(s - 1) /\ p.row \in DOMAIN run'[p.stage].cells
            /\ run'[s].cells[row] = UNION {run'[p.stage].cells[p.row] : p \in parents'}
        BY <3>1, <4>1, <4>2, <4>3, <4>4
      <4>. QED  BY <3>1, <3>4, <4>5 DEF parents
    <3>. QED  BY <3>3, <3>4
  <2>2. CASE s = n + 1
    <3>1. run'[s] = record
      BY <1>2, <2>2
    <3>2. CASE record.kind = "load"
      <4>1. record.lineage[row][1] \in ToSet(record.lineage[row])
        BY <3>1, <3>2 DEF Told, ToSet
      <4>. QED  BY <2>2, <3>1, <3>2, <4>1 DEF Told
    <3>3. CASE record.kind # "load" /\ record.recorded
      <4> DEFINE entry == record.lineage[row]
      <4>1. ToSet(ParentsOf(s, row))' = {entry[k] : k \in DOMAIN entry}
        BY <3>1, <3>3 DEF ParentsOf, ToSet
      <4>2. Carries(entry, 0, record.cells[row])
        BY <3>1, <3>3 DEF Told
      <4>3. \A k \in DOMAIN entry : entry[k].row + 0 = entry[k].row
        <5>1. /\ record.lineage \in Seq(Seq(Row)) /\ row \in DOMAIN record.lineage
          <6>1. record.lineage \in Seq(Seq(Row)) /\ record.cells \in Seq(CellSet)
            BY DEF Told, StageRecord, CellSet
          <6>. QED  BY <3>1, <3>3, <6>1, LenProperties DEF Told
        <5>2. entry \in Seq(Row)
          BY <5>1, ElementOfSeq, LenProperties
        <5>3. \A k \in DOMAIN entry : entry[k] \in Row
          BY <5>2, ElementOfSeq, LenProperties
        <5>. QED  BY <5>3 DEF Row
      <4> HIDE DEF entry
      <4>4. \A k \in DOMAIN entry : /\ entry[k].stage \in 1..n
                                    /\ run'[entry[k].stage] = run[entry[k].stage]
                                    /\ entry[k].row \in DOMAIN run[entry[k].stage].cells
        BY <1>1, <1>2, <4>2, <4>3 DEF Carries
      <4>5. record.cells[row] = UNION {run[entry[k].stage].cells[entry[k].row] : k \in DOMAIN entry}
        <5>1. {run[entry[k].stage].cells[entry[k].row + 0] : k \in DOMAIN entry}
               = {run[entry[k].stage].cells[entry[k].row] : k \in DOMAIN entry}
          BY <4>3
        <5>. QED  BY <4>2, <5>1 DEF Carries
      <4> DEFINE parents == {entry[k] : k \in DOMAIN entry}
      <4>6. \A p \in parents : p.stage \in 1..(s - 1) /\ p.row \in DOMAIN run'[p.stage].cells
        BY <1>1, <2>2, <4>4
      <4>7. record.cells[row] = UNION {run'[p.stage].cells[p.row] : p \in parents}
        <5>1. {run'[p.stage].cells[p.row] : p \in parents}
               = {run[entry[k].stage].cells[entry[k].row] : k \in DOMAIN entry}
          BY <4>4
        <5>. QED  BY <4>5, <5>1
      <4> HIDE DEF parents
      <4>. QED  BY <3>1, <3>3, <4>1, <4>6, <4>7 DEF parents
    <3>4. CASE record.kind # "load" /\ ~record.recorded
      <4> DEFINE t == record.inputs[1]
      <4>1. /\ record.kind \in {"map", "enrich"}
            /\ t \in 1..n /\ run'[t] = run[t]
            /\ row \in DOMAIN run[t].cells /\ record.cells[row] = run[t].cells[row]
        BY <1>1, <1>2, <3>1, <3>4 DEF Told
      <4>2. ToSet(ParentsOf(s, row))' = {Parent(t, row, "direct")}
        <5>1. ParentsOf(s, row)' = <<Parent(t, row, "direct")>>
          BY <3>1, <3>4, <4>1 DEF ParentsOf, KeepsPlaces, Parent
        <5>2. ToSet(ParentsOf(s, row))' = ToSet(<<Parent(t, row, "direct")>>)
          BY <5>1 DEF ToSet
        <5>. QED  BY <5>2 DEF ToSet
      <4>3. Parent(t, row, "direct").stage = t /\ Parent(t, row, "direct").row = row
        BY DEF Parent
      <4> HIDE DEF t
      <4>4. /\ \A p \in {Parent(t, row, "direct")} :
                  p.stage \in 1..(s - 1) /\ p.row \in DOMAIN run'[p.stage].cells
            /\ run'[s].cells[row]
                 = UNION {run'[p.stage].cells[p.row] : p \in {Parent(t, row, "direct")}}
        BY <1>1, <2>2, <3>1, <4>1, <4>3
      <4>. QED  BY <3>1, <3>4, <4>2, <4>4
    <3>. QED  BY <3>2, <3>3, <3>4
  <2>. QED  BY <1>1, <2>1, <2>2
<1>. QED  BY <1>3, <1>4

-----------------------------------------------------------------------------
(* The handlers, one by one.                                               *)

\* Stages are numbered.
LEMMA StagesAreNumbered ==
  ASSUME TypeOK
  PROVE  Stage = 1..Len(run) /\ Stage \subseteq 1..MaxStages /\ Len(run) \in Nat /\ MaxStages \in Nat
BY LenProperties, LineageConstants DEF TypeOK, Stage

\* A parent is a row of its stage.
LEMMA ParentIsARow ==
  ASSUME NEW s \in 1..MaxStages, NEW row \in Nat, NEW kind \in {"direct", "contribution"}
  PROVE  /\ Parent(s, row, kind) \in Row
         /\ Parent(s, row, kind).stage = s
         /\ Parent(s, row, kind).row = row
         /\ <<Parent(s, row, kind)>> \in Seq(Row)
BY DEF Parent, Row

\* An entry of one parent carries that row's cells.
LEMMA OneParentCarries ==
  ASSUME TypeOK, NEW s \in Stage, NEW row \in Nat, NEW offset \in Nat,
         row + offset \in DOMAIN run[s].cells
  PROVE  Carries(<<Parent(s, row, "direct")>>, offset, run[s].cells[row + offset])
<1> DEFINE entry == <<Parent(s, row, "direct")>>
<1>1. DOMAIN entry = {1} /\ entry[1].stage = s /\ entry[1].row = row
  BY ParentIsARow, StagesAreNumbered
<1> HIDE DEF entry
<1>2. {run[entry[k].stage].cells[entry[k].row + offset] : k \in DOMAIN entry}
        = {run[s].cells[row + offset]}
  BY <1>1
<1>3. Carries(entry, offset, run[s].cells[row + offset])
  BY <1>1, <1>2 DEF Carries
<1>. QED  BY <1>3 DEF entry

\* A choice of rows of a table is a sequence of its ordinals.
LEMMA PicksAreRows ==
  ASSUME NEW S, NEW table \in Seq(S), NEW rows \in Picks(table)
  PROVE  /\ Len(rows) \in Nat
         /\ rows \in [1..Len(rows) -> Nat]
         /\ DOMAIN rows = 1..Len(rows)
         /\ \A i \in DOMAIN rows : rows[i] \in DOMAIN table /\ rows[i] \in Nat
<1>1. PICK m \in 0..MaxRows : rows \in [1..m -> DOMAIN table]
  BY DEF Picks, BoundedSeq, SeqOf
<1>2. m \in Nat /\ rows \in Seq(DOMAIN table) /\ DOMAIN rows = 1..m /\ Len(rows) = m
  BY <1>1, FunctionIsASeq, LineageConstants
<1>3. DOMAIN table \subseteq Nat
  BY LenProperties
<1>. QED  BY <1>1, <1>2, <1>3

\* Lineage of one parent a row, as the handlers that keep, drop or repeat rows record.
LEMMA SingleParentType ==
  ASSUME TypeOK, NEW s \in Stage, NEW n \in Nat, NEW rows \in [1..n -> Nat]
  PROVE  /\ SingleParent(s, rows) \in Seq(Seq(Row))
         /\ DOMAIN SingleParent(s, rows) = 1..n /\ Len(SingleParent(s, rows)) = n
         /\ \A i \in 1..n : SingleParent(s, rows)[i] = <<Parent(s, rows[i], "direct")>>
<1> DEFINE f == SingleParent(s, rows)
<1>1. f = [i \in 1..n |-> <<Parent(s, rows[i], "direct")>>]
  BY DEF SingleParent
<1>2. \A i \in 1..n : <<Parent(s, rows[i], "direct")>> \in Seq(Row)
  BY ParentIsARow, StagesAreNumbered
<1> HIDE DEF f
<1>3. f \in [1..n -> Seq(Row)]
  BY <1>1, <1>2
<1>4. f \in Seq(Seq(Row)) /\ DOMAIN f = 1..n /\ Len(f) = n
  BY <1>3, FunctionIsASeq
<1>. QED  BY <1>1, <1>4 DEF f

\* A stage that keeps, drops, sorts or repeats the rows of its input.
LEMMA PickedIsSound ==
  ASSUME TypeOK, NEW s \in Stage, NEW window \in Windows, NEW kind \in {"select", "build"},
         NEW rows \in Picks(Read(s, window))
  PROVE  Sound(Picked(kind, s, Read(s, window), rows), window.start)
<1> DEFINE record == Picked(kind, s, Read(s, window), rows)
           table == Read(s, window)
           n == Len(rows)
<1>1. table \in Seq(CellSet) /\ \A i \in DOMAIN table :
        i + window.start \in DOMAIN run[s].cells /\ table[i] = run[s].cells[i + window.start]
  BY ReadIsAWindow
<1>2. /\ n \in Nat /\ DOMAIN rows = 1..n
      /\ \A i \in 1..n : rows[i] \in DOMAIN table /\ rows[i] \in Nat
  BY <1>1, PicksAreRows
<1>3. /\ record.kind = kind /\ record.inputs = <<s>> /\ record.recorded = TRUE
      /\ record.cells = [i \in DOMAIN rows |-> table[rows[i]]]
      /\ record.lineage = SingleParent(s, rows)
      /\ record = [kind |-> kind, inputs |-> <<s>>, cells |-> record.cells,
                   recorded |-> TRUE, lineage |-> record.lineage]
  BY DEF Picked, Record
<1>4. \A i \in 1..n : table[rows[i]] \in CellSet
  BY <1>1, <1>2, ElementOfSeq, LenProperties
<1>5. rows \in [1..n -> Nat]
  BY <1>1, PicksAreRows
<1>6. window.start \in Nat /\ s \in Nat
  BY WindowType, StagesAreNumbered
<1>7. /\ record.lineage \in Seq(Seq(Row)) /\ Len(record.lineage) = n
      /\ \A i \in 1..n : record.lineage[i] = <<Parent(s, rows[i], "direct")>>
  BY <1>2, <1>3, <1>5, SingleParentType
<1> HIDE DEF record, table, n
<1>8. record.cells \in [1..n -> CellSet]
  BY <1>2, <1>3, <1>4
<1>9. record.cells \in Seq(CellSet) /\ DOMAIN record.cells = 1..n /\ Len(record.cells) = n
  BY <1>2, <1>8, FunctionIsASeq
<1>10. \A i \in 1..n : Carries(record.lineage[i], window.start, record.cells[i])
  <2>. SUFFICES ASSUME NEW i \in 1..n
       PROVE  Carries(record.lineage[i], window.start, record.cells[i])
    OBVIOUS
  <2>1. /\ rows[i] \in Nat /\ rows[i] + window.start \in DOMAIN run[s].cells
        /\ record.cells[i] = run[s].cells[rows[i] + window.start]
    BY <1>1, <1>2, <1>3
  <2>2. Carries(<<Parent(s, rows[i], "direct")>>, window.start,
                run[s].cells[rows[i] + window.start])
    BY <1>6, <2>1, OneParentCarries
  <2>. QED  BY <1>7, <2>1, <2>2
<1>11. record \in StageRecord
  <2>1. <<s>> \in Seq(Nat)
    BY <1>6
  <2>. QED  BY <1>3, <1>7, <1>9, <2>1 DEF StageRecord, CellSet, Kinds
<1>. QED  BY <1>3, <1>7, <1>9, <1>10, <1>11 DEF Sound, record, table

\* A load: its window cuts the rows of the files and their lineage alike.
LEMMA LoadedIsTold ==
  ASSUME TypeOK, Room, NEW source \in Sources, NEW window \in Windows
  PROVE  Told(Loaded(Len(run) + 1, source, window))
<1> DEFINE s == Len(run) + 1
           record == Loaded(s, source, window)
           rows == [i \in DOMAIN source |-> {<<s, source[i][1], source[i][2]>>}]
           parents == [i \in DOMAIN source |-> <<FilePart(s, source[i])>>]
           n == Len(source)
<1>1. s \in 1..MaxStages /\ s \in Nat /\ window.start \in Nat
  BY WindowType, StagesAreNumbered DEF Room
<1>2. /\ n \in Nat /\ DOMAIN source = 1..n
      /\ \A i \in 1..n : source[i] \in Nat \X Nat
  BY LineageConstants, ElementOfSeq, LenProperties
<1>3. \A i \in 1..n : /\ FilePart(s, source[i]) \in Row
                      /\ FilePart(s, source[i]).file = source[i][1]
                      /\ FilePart(s, source[i]).row = source[i][2]
  BY <1>1, <1>2 DEF FilePart, Parent, Row
<1>4. \A i \in 1..n : {<<s, source[i][1], source[i][2]>>} \in CellSet
  BY <1>1, <1>2 DEF CellSet
<1>5. rows \in [1..n -> CellSet] /\ parents \in [1..n -> Seq(Row)]
  <2> HIDE DEF s
  <2>. QED  BY <1>2, <1>3, <1>4
<1>6. /\ rows \in Seq(CellSet) /\ Len(rows) = n
      /\ parents \in Seq(Seq(Row)) /\ Len(parents) = n
  <2> HIDE DEF rows, parents
  <2>. QED  BY <1>2, <1>5, FunctionIsASeq
<1>7. /\ Cut(rows, window) \in Seq(CellSet)
      /\ Cut(parents, window) \in Seq(Seq(Row))
      /\ Len(Cut(parents, window)) = Len(Cut(rows, window))
      /\ \A i \in DOMAIN Cut(rows, window) :
           /\ i + window.start \in 1..n
           /\ Cut(rows, window)[i] = rows[i + window.start]
           /\ Cut(parents, window)[i] = parents[i + window.start]
  <2> HIDE DEF rows, parents, n
  <2>1. /\ Cut(rows, window) \in Seq(CellSet)
        /\ \A i \in DOMAIN Cut(rows, window) :
             i + window.start \in DOMAIN rows /\ Cut(rows, window)[i] = rows[i + window.start]
    BY <1>6, CutIsAWindow
  <2>2. /\ Cut(parents, window) \in Seq(Seq(Row))
        /\ \A i \in DOMAIN Cut(parents, window) : Cut(parents, window)[i] = parents[i + window.start]
    BY <1>6, CutIsAWindow
  <2>3. Len(Cut(parents, window)) = Len(Cut(rows, window))
    BY <1>6, CutLength
  <2>. QED  BY <1>6, <2>1, <2>2, <2>3, LenProperties
<1>8. /\ record = [kind |-> "load", inputs |-> <<>>, cells |-> Cut(rows, window),
                   recorded |-> TRUE, lineage |-> Cut(parents, window)]
      /\ record.kind = "load" /\ record.inputs = <<>> /\ record.recorded = TRUE
      /\ record.cells = Cut(rows, window) /\ record.lineage = Cut(parents, window)
  BY DEF Loaded, Record
<1>9. \A i \in DOMAIN record.cells :
        /\ 1 \in DOMAIN record.lineage[i]
        /\ record.cells[i] = {<<s, record.lineage[i][1].file, record.lineage[i][1].row>>}
  <2>. SUFFICES ASSUME NEW i \in DOMAIN record.cells
       PROVE  /\ 1 \in DOMAIN record.lineage[i]
              /\ record.cells[i] = {<<s, record.lineage[i][1].file, record.lineage[i][1].row>>}
    OBVIOUS
  <2> DEFINE j == i + window.start
  <2>1. j \in 1..n /\ record.cells[i] = rows[j] /\ record.lineage[i] = parents[j]
    <3> HIDE DEF record, rows, parents, n
    <3>. QED  BY <1>7, <1>8
  <2> HIDE DEF j, record
  <2>2. /\ rows[j] = {<<s, source[j][1], source[j][2]>>}
        /\ parents[j] = <<FilePart(s, source[j])>>
    BY <1>2, <2>1
  <2> HIDE DEF rows, parents, n, s
  <2>. QED  BY <1>3, <2>1, <2>2
<1> HIDE DEF record, rows, parents
<1>10. record \in StageRecord
  BY <1>7, <1>8 DEF StageRecord, CellSet, Kinds
<1>. QED  BY <1>7, <1>8, <1>9, <1>10 DEF Told, record, s

\* Lineage of rows that kept their places, put back by the start of the window.
LEMMA InputOfType ==
  ASSUME TypeOK, NEW s \in Stage, NEW window \in Windows
  PROVE  LET table == Read(s, window)
             lineage == InputOf(s, table, window.start) IN
         /\ lineage \in Seq(Seq(Row)) /\ Len(lineage) = Len(table)
         /\ \A i \in DOMAIN table : Carries(lineage[i], 0, table[i])
<1> DEFINE table == Read(s, window)
           n == Len(table)
           rows == [i \in DOMAIN table |-> i + window.start]
           lineage == SingleParent(s, rows)
<1>1. /\ table \in Seq(CellSet) /\ n \in Nat /\ DOMAIN table = 1..n
      /\ window.start \in Nat
      /\ \A i \in 1..n :
           i + window.start \in DOMAIN run[s].cells /\ table[i] = run[s].cells[i + window.start]
  BY ReadIsAWindow, WindowType, LenProperties
<1> HIDE DEF table, n
<1>2. rows \in [1..n -> Nat] /\ \A i \in 1..n : rows[i] = i + window.start
  BY <1>1
<1> HIDE DEF rows
<1>3. /\ lineage \in Seq(Seq(Row)) /\ Len(lineage) = n
      /\ \A i \in 1..n : lineage[i] = <<Parent(s, i + window.start, "direct")>>
  BY <1>1, <1>2, SingleParentType
<1> HIDE DEF lineage
<1>4. \A i \in 1..n : Carries(lineage[i], 0, table[i])
  <2>. SUFFICES ASSUME NEW i \in 1..n  PROVE Carries(lineage[i], 0, table[i])
    OBVIOUS
  <2> DEFINE row == i + window.start
  <2>1. row \in Nat /\ row + 0 = row /\ row \in DOMAIN run[s].cells /\ table[i] = run[s].cells[row]
    BY <1>1
  <2>2. Carries(<<Parent(s, row, "direct")>>, 0, run[s].cells[row])
    <3> HIDE DEF row
    <3>1. row + 0 \in DOMAIN run[s].cells
      BY <2>1
    <3>2. Carries(<<Parent(s, row, "direct")>>, 0, run[s].cells[row + 0])
      BY <2>1, <3>1, OneParentCarries
    <3>. QED  BY <2>1, <3>2
  <2>. QED  BY <1>3, <2>1, <2>2
<1>5. InputOf(s, table, window.start) = lineage
  BY DEF InputOf, lineage, rows
<1>. QED  BY <1>1, <1>3, <1>4, <1>5 DEF table, n

\* A stage that maps each row: with no window its rows are their own lineage.
LEMMA MappedIsTold ==
  ASSUME TypeOK, NEW s \in Stage, NEW window \in Windows
  PROVE  Told(Mapped(s, window))
<1> DEFINE record == Mapped(s, window)
           table == Read(s, window)
           lineage == InputOf(s, table, window.start)
<1>1. /\ table \in Seq(CellSet)
      /\ \A i \in DOMAIN table :
           i + window.start \in DOMAIN run[s].cells /\ table[i] = run[s].cells[i + window.start]
  BY ReadIsAWindow
<1>2. /\ lineage \in Seq(Seq(Row)) /\ Len(lineage) = Len(table)
      /\ \A i \in DOMAIN table : Carries(lineage[i], 0, table[i])
  BY InputOfType
<1>3. /\ record = [kind |-> "map", inputs |-> <<s>>, cells |-> table,
                   recorded |-> window # Whole,
                   lineage |-> IF window = Whole THEN <<>> ELSE lineage]
      /\ record.kind = "map" /\ record.inputs = <<s>> /\ record.cells = table
      /\ record.recorded = (window # Whole)
      /\ record.lineage = IF window = Whole THEN <<>> ELSE lineage
  BY DEF Mapped, Record
<1> HIDE DEF record, lineage
<1>4. record \in StageRecord
  <2>1. <<s>> \in Seq(Nat)
    BY StagesAreNumbered
  <2> HIDE DEF table
  <2>2. (IF window = Whole THEN <<>> ELSE lineage) \in Seq(Seq(Row))
    BY <1>2
  <2>. QED  BY <1>1, <1>3, <2>1, <2>2 DEF StageRecord, CellSet, Kinds
<1>5. ASSUME window = Whole  PROVE Told(record)
  <2>1. window.start = 0
    BY <1>5 DEF Whole
  <2>2. \A i \in DOMAIN table : i \in DOMAIN run[s].cells /\ table[i] = run[s].cells[i]
    <3>1. \A i \in DOMAIN table : i \in Nat
      BY <1>1, LenProperties
    <3> HIDE DEF table
    <3>. QED  BY <1>1, <2>1, <3>1
  <2>3. record.inputs[1] = s /\ DOMAIN record.inputs = {1}
    BY <1>3
  <2> HIDE DEF table
  <2>. QED  BY <1>3, <1>4, <1>5, <2>2, <2>3 DEF Told
<1>6. ASSUME window # Whole  PROVE Told(record)
  <2>1. DOMAIN record.inputs = {1} /\ record.inputs[1] = s
    BY <1>3
  <2> HIDE DEF table
  <2>. QED  BY <1>2, <1>3, <1>4, <1>6, <2>1 DEF Told
<1>. QED  BY <1>5, <1>6 DEF record

\* A union: one input's rows and lineage, then the other's.
LEMMA UnitedIsTold ==
  ASSUME TypeOK, NEW s \in Stage, NEW t \in Stage, NEW window \in Windows
  PROVE  Told(United(s, t, window))
<1> DEFINE record == United(s, t, window)
           one == Read(s, window)
           other == Read(t, window)
           first == InputOf(s, one, window.start)
           second == InputOf(t, other, window.start)
<1>1. /\ one \in Seq(CellSet) /\ other \in Seq(CellSet)
      /\ Len(one) \in Nat /\ DOMAIN one = 1..Len(one)
      /\ Len(other) \in Nat /\ DOMAIN other = 1..Len(other)
  BY ReadIsAWindow, LenProperties
<1>2. /\ first \in Seq(Seq(Row)) /\ Len(first) = Len(one)
      /\ \A i \in DOMAIN one : Carries(first[i], 0, one[i])
      /\ second \in Seq(Seq(Row)) /\ Len(second) = Len(other)
      /\ \A i \in DOMAIN other : Carries(second[i], 0, other[i])
  BY InputOfType
<1>3. /\ record = [kind |-> "union", inputs |-> <<s, t>>, cells |-> one \o other,
                   recorded |-> TRUE, lineage |-> first \o second]
      /\ record.kind = "union" /\ record.inputs = <<s, t>> /\ record.recorded = TRUE
      /\ record.cells = one \o other /\ record.lineage = first \o second
  BY DEF United, Record
<1> HIDE DEF record, one, other, first, second
<1>4. /\ one \o other \in Seq(CellSet)
      /\ first \o second \in Seq(Seq(Row))
      /\ Len(first \o second) = Len(one \o other)
      /\ DOMAIN (one \o other) = 1..(Len(one) + Len(other))
  <2>1. one \o other \in Seq(CellSet) /\ Len(one \o other) = Len(one) + Len(other)
    BY <1>1, ConcatProperties
  <2>2. /\ first \o second \in Seq(Seq(Row))
        /\ Len(first \o second) = Len(first) + Len(second)
    BY <1>2, ConcatProperties
  <2>. QED  BY <1>2, <2>1, <2>2, LenProperties
<1>5. \A i \in DOMAIN (one \o other) : Carries((first \o second)[i], 0, (one \o other)[i])
  <2>. SUFFICES ASSUME NEW i \in 1..(Len(one) + Len(other))
       PROVE  Carries((first \o second)[i], 0, (one \o other)[i])
    BY <1>4
  <2>1. /\ (one \o other)[i] = IF i <= Len(one) THEN one[i] ELSE other[i - Len(one)]
        /\ (first \o second)[i] = IF i <= Len(one) THEN first[i] ELSE second[i - Len(one)]
    BY <1>1, <1>2, ConcatProperties
  <2>2. CASE i <= Len(one)
    BY <1>1, <1>2, <2>1, <2>2
  <2>3. CASE ~(i <= Len(one))
    <3>1. i - Len(one) \in DOMAIN other
      BY <1>1, <2>3
    <3>. QED  BY <1>2, <2>1, <2>3, <3>1
  <2>. QED  BY <2>2, <2>3
<1>6. record \in StageRecord
  <2>1. <<s, t>> \in Seq(Nat)
    BY StagesAreNumbered
  <2>. QED  BY <1>3, <1>4, <2>1 DEF StageRecord, CellSet, Kinds
<1>. QED  BY <1>3, <1>4, <1>5, <1>6 DEF Told, record

\* An entry of two parents carries the cells of both rows.
LEMMA TwoParentsCarry ==
  ASSUME TypeOK, NEW s \in Stage, NEW row \in Nat, NEW t \in Stage, NEW match \in Nat,
         NEW offset \in Nat,
         row + offset \in DOMAIN run[s].cells, match + offset \in DOMAIN run[t].cells
  PROVE  Carries(<<Parent(s, row, "direct"), Parent(t, match, "direct")>>, offset,
                 run[s].cells[row + offset] \cup run[t].cells[match + offset])
<1> DEFINE entry == <<Parent(s, row, "direct"), Parent(t, match, "direct")>>
<1>1. /\ DOMAIN entry = {1, 2}
      /\ entry[1].stage = s /\ entry[1].row = row
      /\ entry[2].stage = t /\ entry[2].row = match
  BY ParentIsARow, StagesAreNumbered
<1> HIDE DEF entry
<1>2. {run[entry[k].stage].cells[entry[k].row + offset] : k \in DOMAIN entry}
        = {run[s].cells[row + offset], run[t].cells[match + offset]}
  BY <1>1
<1>3. Carries(entry, offset, run[s].cells[row + offset] \cup run[t].cells[match + offset])
  BY <1>1, <1>2 DEF Carries
<1>. QED  BY <1>3 DEF entry

\* A join: the subject's row, and the reference's where one matched.
LEMMA JoinedIsSound ==
  ASSUME TypeOK, NEW s \in Stage, NEW t \in Stage, NEW window \in Windows,
         NEW kind \in {"enrich", "expand"},
         NEW pairs \in Pairings(Read(s, window), Read(t, window))
  PROVE  Sound(Joined(kind, s, t, Read(s, window), Read(t, window), pairs), window.start)
<1> DEFINE subject == Read(s, window)
           reference == Read(t, window)
           record == Joined(kind, s, t, subject, reference, pairs)
           offset == window.start
           n == Len(pairs)
           Rows(k) == subject[pairs[k][1]] \cup
                        IF pairs[k][2] = 0 THEN {} ELSE reference[pairs[k][2]]
           Parents(k) == <<Parent(s, pairs[k][1], "direct")>> \o
                        (IF pairs[k][2] = 0 THEN <<>> ELSE <<Parent(t, pairs[k][2], "direct")>>)
<1>1. /\ offset \in Nat /\ s \in 1..MaxStages /\ t \in 1..MaxStages
      /\ <<s, t>> \in Seq(Nat) /\ DOMAIN <<s, t>> = {1, 2}
      /\ <<s, t>>[1] = s /\ <<s, t>>[2] = t
  BY WindowType, StagesAreNumbered
<1>2. /\ subject \in Seq(CellSet) /\ reference \in Seq(CellSet)
      /\ DOMAIN subject \subseteq Nat /\ DOMAIN reference = 1..Len(reference)
      /\ Len(reference) \in Nat
      /\ \A i \in DOMAIN subject : /\ i + offset \in DOMAIN run[s].cells
                                  /\ subject[i] = run[s].cells[i + offset]
                                  /\ subject[i] \in CellSet
      /\ \A i \in DOMAIN reference : /\ i + offset \in DOMAIN run[t].cells
                                    /\ reference[i] = run[t].cells[i + offset]
                                    /\ reference[i] \in CellSet
  <2>1. /\ subject \in Seq(CellSet)
        /\ \A i \in DOMAIN subject : /\ i + offset \in DOMAIN run[s].cells
                                    /\ subject[i] = run[s].cells[i + offset]
    BY ReadIsAWindow
  <2>2. /\ reference \in Seq(CellSet)
        /\ \A i \in DOMAIN reference : /\ i + offset \in DOMAIN run[t].cells
                                      /\ reference[i] = run[t].cells[i + offset]
    BY ReadIsAWindow
  <2> HIDE DEF subject, reference, offset
  <2>. QED  BY <2>1, <2>2, ElementOfSeq, LenProperties
<1>3. /\ record = [kind |-> kind, inputs |-> <<s, t>>, cells |-> [k \in DOMAIN pairs |-> Rows(k)],
                   recorded |-> TRUE, lineage |-> [k \in DOMAIN pairs |-> Parents(k)]]
      /\ record.kind = kind /\ record.inputs = <<s, t>> /\ record.recorded = TRUE
      /\ record.cells = [k \in DOMAIN pairs |-> Rows(k)]
      /\ record.lineage = [k \in DOMAIN pairs |-> Parents(k)]
  BY DEF Joined, Merged, Record
<1> HIDE DEF subject, reference, record, offset
<1>4. /\ n \in Nat /\ DOMAIN pairs = 1..n
      /\ \A k \in 1..n : /\ pairs[k][1] \in DOMAIN subject
                         /\ pairs[k][2] \in 0..Len(reference)
  <2>1. PICK m \in 0..MaxRows : pairs \in [1..m -> (DOMAIN subject) \X (0..Len(reference))]
    BY DEF Pairings, BoundedSeq, SeqOf, subject, reference
  <2>2. m \in Nat /\ DOMAIN pairs = 1..m /\ n = m
    BY <2>1, FunctionIsASeq, LineageConstants
  <2>. QED  BY <2>1, <2>2
<1>5. ASSUME NEW k \in 1..n
      PROVE  /\ Rows(k) \in CellSet
             /\ Parents(k) \in Seq(Row)
             /\ Carries(Parents(k), offset, Rows(k))
  <2> DEFINE row == pairs[k][1]
             match == pairs[k][2]
             one == Parent(s, row, "direct")
             other == Parent(t, match, "direct")
  <2>1. /\ row \in Nat /\ row \in DOMAIN subject
        /\ row + offset \in DOMAIN run[s].cells
        /\ subject[row] = run[s].cells[row + offset] /\ subject[row] \in CellSet
    BY <1>2, <1>4
  <2>2. one \in Row
    BY <1>1, <2>1, ParentIsARow
  <2>3. CASE match = 0
    <3>1. Rows(k) = subject[row] /\ Parents(k) = <<one>> \o <<>>
      BY <2>3
    <3>2. <<one>> \o <<>> = <<one>>
      <4> HIDE DEF one
      <4>. QED  BY <2>2, ConcatEmptySeq
    <3>3. Carries(<<one>>, offset, run[s].cells[row + offset])
      <4> HIDE DEF row
      <4>. QED  BY <1>1, <2>1, OneParentCarries
    <3>4. <<one>> \in Seq(Row)
      <4> HIDE DEF one
      <4>. QED  BY <2>2
    <3> HIDE DEF Rows, Parents, one, row, match
    <3>. QED  BY <2>1, <3>1, <3>2, <3>3, <3>4
  <2>4. CASE match # 0
    <3>1. /\ match \in Nat /\ match \in DOMAIN reference
          /\ match + offset \in DOMAIN run[t].cells
          /\ reference[match] = run[t].cells[match + offset] /\ reference[match] \in CellSet
      <4>1. match \in 0..Len(reference)
        BY <1>4
      <4> HIDE DEF match
      <4>. QED  BY <1>2, <2>4, <4>1
    <3>2. other \in Row
      BY <1>1, <3>1, ParentIsARow
    <3>3. Rows(k) = subject[row] \cup reference[match] /\ Parents(k) = <<one>> \o <<other>>
      BY <2>4
    <3>4. <<one>> \o <<other>> = <<one, other>> /\ <<one, other>> \in Seq(Row)
      <4> HIDE DEF one, other
      <4>. QED  BY <2>2, <3>2, PairOfElements
    <3>5. Carries(<<one, other>>, offset, run[s].cells[row + offset] \cup run[t].cells[match + offset])
      <4> HIDE DEF row, match
      <4>. QED  BY <1>1, <2>1, <3>1, TwoParentsCarry
    <3>6. Rows(k) \in CellSet
      <4> HIDE DEF Rows, row, match
      <4>. QED  BY <2>1, <3>1, <3>3 DEF CellSet
    <3> HIDE DEF Rows, Parents, one, other, row, match
    <3>. QED  BY <2>1, <3>1, <3>3, <3>4, <3>5, <3>6
  <2>. QED  BY <2>3, <2>4
<1> HIDE DEF Rows, Parents, n
<1>6. /\ record.cells \in [1..n -> CellSet] /\ record.lineage \in [1..n -> Seq(Row)]
      /\ \A k \in 1..n : record.cells[k] = Rows(k) /\ record.lineage[k] = Parents(k)
  BY <1>3, <1>4, <1>5
<1>7. /\ record.cells \in Seq(CellSet) /\ DOMAIN record.cells = 1..n /\ Len(record.cells) = n
      /\ record.lineage \in Seq(Seq(Row)) /\ Len(record.lineage) = n
  BY <1>4, <1>6, FunctionIsASeq
<1>8. record \in StageRecord
  BY <1>1, <1>3, <1>7 DEF StageRecord, CellSet, Kinds
<1>9. Sound(record, offset)
  BY <1>1, <1>3, <1>5, <1>6, <1>7, <1>8 DEF Sound
<1>. QED  BY <1>9 DEF record, subject, reference, offset

\* An aggregate: a row of each group, with the group's rows as its contributors.
LEMMA AggregatedIsSound ==
  ASSUME TypeOK, NEW s \in Stage, NEW window \in Windows,
         NEW groups \in BoundedSeq({rows \in Picks(Read(s, window)) : Increasing(rows)}, MaxRows)
  PROVE  Sound(Aggregated(s, Read(s, window), groups), window.start)
<1> DEFINE table == Read(s, window)
           record == Aggregated(s, table, groups)
           offset == window.start
           n == Len(groups)
           Rows(i) == UNION {table[row] : row \in ToSet(groups[i])}
           Parents(i) == [k \in DOMAIN groups[i] |-> Parent(s, groups[i][k], "contribution")]
<1>1. /\ offset \in Nat /\ s \in 1..MaxStages
      /\ <<s>> \in Seq(Nat) /\ DOMAIN <<s>> = {1} /\ <<s>>[1] = s
  BY WindowType, StagesAreNumbered
<1>2. /\ table \in Seq(CellSet)
      /\ \A i \in DOMAIN table : /\ i + offset \in DOMAIN run[s].cells
                                /\ table[i] = run[s].cells[i + offset]
                                /\ table[i] \in CellSet
  <2>1. /\ table \in Seq(CellSet)
        /\ \A i \in DOMAIN table : /\ i + offset \in DOMAIN run[s].cells
                                  /\ table[i] = run[s].cells[i + offset]
    BY ReadIsAWindow
  <2> HIDE DEF table, offset
  <2>. QED  BY <2>1, ElementOfSeq, LenProperties
<1>3. /\ record = [kind |-> "aggregate", inputs |-> <<s>>, cells |-> [i \in DOMAIN groups |-> Rows(i)],
                   recorded |-> TRUE, lineage |-> [i \in DOMAIN groups |-> Parents(i)]]
      /\ record.kind = "aggregate" /\ record.inputs = <<s>> /\ record.recorded = TRUE
      /\ record.cells = [i \in DOMAIN groups |-> Rows(i)]
      /\ record.lineage = [i \in DOMAIN groups |-> Parents(i)]
  BY DEF Aggregated, Grouped, Record
<1>4. n \in Nat /\ DOMAIN groups = 1..n /\ \A i \in 1..n : groups[i] \in Picks(table)
  <2>1. PICK m \in 0..MaxRows : groups \in [1..m -> {rows \in Picks(table) : Increasing(rows)}]
    BY DEF BoundedSeq, SeqOf
  <2>2. m \in Nat /\ DOMAIN groups = 1..m /\ n = m
    BY <2>1, FunctionIsASeq, LineageConstants
  <2> HIDE DEF table
  <2>. QED  BY <2>1, <2>2
<1> HIDE DEF table, record, offset
<1>5. ASSUME NEW i \in 1..n
      PROVE  /\ Rows(i) \in CellSet
             /\ Parents(i) \in Seq(Row)
             /\ Carries(Parents(i), offset, Rows(i))
  <2> DEFINE group == groups[i]
             entry == Parents(i)
             m == Len(group)
  <2>1. /\ m \in Nat /\ DOMAIN group = 1..m
        /\ \A k \in 1..m : group[k] \in DOMAIN table /\ group[k] \in Nat
    BY <1>2, <1>4, PicksAreRows
  <2>2. Rows(i) = UNION {table[group[k]] : k \in 1..m}
    BY <2>1 DEF ToSet
  <2>3. entry = [k \in 1..m |-> Parent(s, group[k], "contribution")]
    BY <2>1
  <2> HIDE DEF group, m, entry, Rows, Parents
  <2>4. \A k \in 1..m : /\ Parent(s, group[k], "contribution") \in Row
                        /\ Parent(s, group[k], "contribution").stage = s
                        /\ Parent(s, group[k], "contribution").row = group[k]
    BY <1>1, <2>1, ParentIsARow
  <2>5. /\ entry \in [1..m -> Row]
        /\ \A k \in 1..m : entry[k].stage = s /\ entry[k].row = group[k]
    BY <2>3, <2>4
  <2>6. entry \in Seq(Row) /\ DOMAIN entry = 1..m
    BY <2>1, <2>5, FunctionIsASeq
  <2>7. \A k \in 1..m : /\ entry[k].row + offset \in DOMAIN run[entry[k].stage].cells
                        /\ run[entry[k].stage].cells[entry[k].row + offset] = table[group[k]]
                        /\ table[group[k]] \in CellSet
    BY <1>2, <2>1, <2>5
  <2>8. {run[entry[k].stage].cells[entry[k].row + offset] : k \in DOMAIN entry}
          = {table[group[k]] : k \in 1..m}
    BY <2>6, <2>7
  <2>9. Carries(entry, offset, Rows(i))
    BY <2>2, <2>5, <2>6, <2>7, <2>8 DEF Carries
  <2>10. Rows(i) \in CellSet
    BY <2>2, <2>7 DEF CellSet
  <2>. QED  BY <2>6, <2>9, <2>10 DEF entry
<1> HIDE DEF Rows, Parents, n
<1>6. /\ record.cells \in [1..n -> CellSet] /\ record.lineage \in [1..n -> Seq(Row)]
      /\ \A i \in 1..n : record.cells[i] = Rows(i) /\ record.lineage[i] = Parents(i)
  BY <1>3, <1>4, <1>5
<1>7. /\ record.cells \in Seq(CellSet) /\ DOMAIN record.cells = 1..n /\ Len(record.cells) = n
      /\ record.lineage \in Seq(Seq(Row)) /\ Len(record.lineage) = n
  BY <1>4, <1>6, FunctionIsASeq
<1>8. record \in StageRecord
  BY <1>1, <1>3, <1>7 DEF StageRecord, CellSet, Kinds
<1>9. Sound(record, offset)
  BY <1>1, <1>3, <1>5, <1>6, <1>7, <1>8 DEF Sound
<1>. QED  BY <1>9 DEF record, table, offset

\* A frame function records nothing, and no promise is made of its rows.
LEMMA ReshapedIsTold ==
  ASSUME TypeOK, NEW s \in Stage, NEW window \in Windows, NEW rows \in Picks(Read(s, window))
  PROVE  Told(Reshaped(s, Read(s, window), rows))
<1> DEFINE table == Read(s, window)
           record == Reshaped(s, table, rows)
           cells == [i \in DOMAIN rows |-> table[rows[i]]]
           n == Len(rows)
<1>1. table \in Seq(CellSet) /\ \A i \in DOMAIN table : table[i] \in CellSet
  <2>1. table \in Seq(CellSet)
    BY ReadIsAWindow
  <2> HIDE DEF table
  <2>. QED  BY <2>1, ElementOfSeq, LenProperties
<1>2. n \in Nat /\ DOMAIN rows = 1..n /\ \A i \in 1..n : rows[i] \in DOMAIN table
  BY <1>1, PicksAreRows
<1>3. /\ record = [kind |-> "opaque", inputs |-> <<s>>, cells |-> cells,
                   recorded |-> FALSE, lineage |-> <<>>]
      /\ record.kind = "opaque" /\ record.inputs = <<s>> /\ record.recorded = FALSE
  BY DEF Reshaped, Record
<1> HIDE DEF table, record, n
<1>4. cells \in [1..n -> CellSet]
  BY <1>1, <1>2
<1> HIDE DEF cells
<1>5. cells \in Seq(CellSet)
  BY <1>2, <1>4, FunctionIsASeq
<1>6. <<s>> \in Seq(Nat) /\ DOMAIN <<s>> = {1} /\ <<s>>[1] = s
  BY StagesAreNumbered
<1>7. record \in StageRecord
  BY <1>3, <1>5, <1>6 DEF StageRecord, CellSet, Kinds
<1>8. Told(record)
  BY <1>3, <1>6, <1>7 DEF Told
<1>. QED  BY <1>8 DEF record, table

-----------------------------------------------------------------------------
(* The invariant: the types and the promise hold each other up.            *)

\* A run with no stages carries its cells trivially.
LEMMA InitIsTold == Init => TypeOK /\ ParentsCarryTheCells
BY LineageConstants, EmptySeq DEF Init, TypeOK, Stage, ParentsCarryTheCells

\* Every stage that runs puts out a record that is told of the run so far.
LEMMA StepIsTold ==
  TypeOK /\ ParentsCarryTheCells /\ [Next]_run => (TypeOK /\ ParentsCarryTheCells)'
<1>. SUFFICES ASSUME TypeOK, ParentsCarryTheCells, [Next]_run
     PROVE  (TypeOK /\ ParentsCarryTheCells)'
  OBVIOUS
<1>1. CASE Load
  <2>1. PICK source \in Sources, window \in Windows : Put(Loaded(Len(run) + 1, source, window))
    BY <1>1 DEF Load
  <2>2. Room
    BY <1>1 DEF Load
  <2>. QED  BY <2>1, <2>2, LoadedIsTold, PutKeepsTheRun
<1>2. CASE Map
  <2>1. PICK s \in Stage, window \in Windows : Put(Mapped(s, window))
    BY <1>2 DEF Map
  <2>2. Room
    BY <1>2 DEF Map
  <2>. QED  BY <2>1, <2>2, MappedIsTold, PutKeepsTheRun
<1>3. ASSUME NEW kind \in {"select", "build"}, Room, NEW s \in Stage, NEW window \in Windows,
             NEW rows \in Picks(Read(s, window)),
             Put(Placed(Picked(kind, s, Read(s, window), rows), window))
      PROVE  (TypeOK /\ ParentsCarryTheCells)'
  BY <1>3, PickedIsSound, PlacedIsTold, PutKeepsTheRun
<1>4. CASE Filter
  BY <1>3, <1>4 DEF Filter
<1>5. CASE Dedupe
  BY <1>3, <1>5 DEF Dedupe
<1>6. CASE Sort
  BY <1>3, <1>6 DEF Sort
<1>7. CASE Explode
  BY <1>3, <1>7 DEF Explode
<1>8. CASE Union
  <2>1. PICK s \in Stage, t \in Stage, window \in Windows : Put(United(s, t, window))
    BY <1>8 DEF Union
  <2>2. Room
    BY <1>8 DEF Union
  <2>. QED  BY <2>1, <2>2, UnitedIsTold, PutKeepsTheRun
<1>9. ASSUME NEW kind \in {"enrich", "expand"}, Join(kind)
      PROVE  (TypeOK /\ ParentsCarryTheCells)'
  <2>1. PICK s \in Stage, t \in Stage, window \in Windows :
          \E pairs \in Pairings(Read(s, window), Read(t, window)) :
            Put(Placed(Joined(kind, s, t, Read(s, window), Read(t, window), pairs), window))
    BY <1>9 DEF Join
  <2>2. PICK pairs \in Pairings(Read(s, window), Read(t, window)) :
          Put(Placed(Joined(kind, s, t, Read(s, window), Read(t, window), pairs), window))
    BY <2>1
  <2>3. Room
    BY <1>9 DEF Join
  <2>. QED  BY <2>2, <2>3, JoinedIsSound, PlacedIsTold, PutKeepsTheRun
<1>10. CASE Aggregate
  <2>1. PICK s \in Stage, window \in Windows :
          \E groups \in BoundedSeq({rows \in Picks(Read(s, window)) : Increasing(rows)}, MaxRows) :
            Put(Placed(Aggregated(s, Read(s, window), groups), window))
    BY <1>10 DEF Aggregate
  <2>2. PICK groups \in BoundedSeq({rows \in Picks(Read(s, window)) : Increasing(rows)}, MaxRows) :
          Put(Placed(Aggregated(s, Read(s, window), groups), window))
    BY <2>1
  <2>3. Room
    BY <1>10 DEF Aggregate
  <2>. QED  BY <2>2, <2>3, AggregatedIsSound, PlacedIsTold, PutKeepsTheRun
<1>11. CASE Reshape
  <2>1. PICK s \in Stage, window \in Windows :
          \E rows \in Picks(Read(s, window)) : Put(Reshaped(s, Read(s, window), rows))
    BY <1>11 DEF Reshape
  <2>2. PICK rows \in Picks(Read(s, window)) : Put(Reshaped(s, Read(s, window), rows))
    BY <2>1
  <2>3. Room
    BY <1>11 DEF Reshape
  <2>. QED  BY <2>2, <2>3, ReshapedIsTold, PutKeepsTheRun
<1>12. CASE UNCHANGED run
  BY <1>12 DEF TypeOK, ParentsCarryTheCells, Stage, ParentsOf, KeepsPlaces, Parent
<1>. QED
  BY <1>1, <1>2, <1>4, <1>5, <1>6, <1>7, <1>8, <1>9, <1>10, <1>11, <1>12 DEF Next

\* Every record of a run is well formed, whatever the sources, the windows and the
\* bounds.
THEOREM RunsAreWellFormed == Spec => []TypeOK
BY InitIsTold, StepIsTold, PTL DEF Spec

\* The lineage of a run, and where a stage records none the places of its rows, name
\* the rows each row's cells came from, through every window, merge, sort and group.
THEOREM LineageCarriesTheCells == Spec => []ParentsCarryTheCells
BY InitIsTold, StepIsTold, PTL DEF Spec
-----------------------------------------------------------------------------
(***************************************************************************)
(* What is read back off a run: the walk of a row and the paths.  Both are *)
(* folds over the stages, written as recursive functions of how far they   *)
(* have come, and what holds of them is proved of each length in turn, by  *)
(* there being no least one of which it does not hold.                     *)
(***************************************************************************)

\* Numbers of which there are some have a least.
LEMMA LeastNumber ==
  ASSUME NEW T \in SUBSET Nat, T # {}
  PROVE  \E x \in T : \A y \in T : x <= y
<1>1. IsWellFoundedOn(OpToRel(<, Nat), Nat)
  BY NatLessThanWellFounded
<1>2. PICK x \in T : \A y \in T : ~ (<<y, x>> \in OpToRel(<, Nat))
  BY <1>1, WFMin, Zenon
<1>3. \A y \in T : ~ (y < x)
  BY <1>2, Zenon DEF OpToRel
<1>. QED  BY <1>3

\* A set of numbers that holds the first and, with each, the next, holds them all.
LEMMA HoldsAll ==
  ASSUME NEW n \in Nat, NEW G, 0 \in G, \A m \in 0..n : m \in G /\ m < n => m + 1 \in G
  PROVE  \A m \in 0..n : m \in G
<1> DEFINE missing == {m \in 0..n : m \notin G}
<1>. SUFFICES ASSUME missing # {}  PROVE FALSE
  OBVIOUS
<1>1. missing \in SUBSET Nat
  OBVIOUS
<1>2. PICK m \in missing : \A l \in missing : m <= l
  BY <1>1, LeastNumber
<1>3. m \in 1..n /\ m - 1 \in 0..n /\ m - 1 < n /\ m - 1 \notin missing
  BY <1>2
<1>. QED  BY <1>2, <1>3

\* Stages that recorded nothing: the opaque ones, and those that read their one input
\* whole and put out a row for each row.
UnrecordedStay ==
  \A s \in Stage :
    /\ run[s].kind = "opaque" => ~run[s].recorded
    /\ ~run[s].recorded /\ run[s].kind # "opaque" =>
         /\ run[s].kind = "map"
         /\ Len(run[s].inputs) = 1 /\ run[s].inputs[1] \in 1..(s - 1)
         /\ Len(run[s].cells) = Len(run[run[s].inputs[1]].cells)

LineageInv == TypeOK /\ ParentsCarryTheCells /\ UnrecordedStay

\* A record that says where its rows came from, put after the others.
LEMMA RecordedPut ==
  ASSUME TypeOK, UnrecordedStay, NEW record, Put(record),
         \/ record.recorded /\ record.kind # "opaque"
         \/ ~record.recorded /\ record.kind = "opaque"
         \/ \E s \in Stage : /\ ~record.recorded /\ record.kind = "map"
                             /\ record.inputs = <<s>> /\ Len(record.cells) = Len(run[s].cells)
  PROVE  UnrecordedStay'
<1> DEFINE n == Len(run)
<1>1. n \in Nat /\ Stage = 1..n /\ DOMAIN run = 1..n
  BY LenProperties DEF TypeOK, Stage
<1>2. /\ Stage' = 1..(n + 1)
      /\ \A s \in 1..n : run'[s] = run[s]
      /\ run'[n + 1] = record
  BY <1>1 DEF TypeOK, Put, Stage
<1>. SUFFICES ASSUME NEW s \in 1..(n + 1)
     PROVE  /\ run'[s].kind = "opaque" => ~run'[s].recorded
            /\ ~run'[s].recorded /\ run'[s].kind # "opaque" =>
                 /\ run'[s].kind = "map"
                 /\ Len(run'[s].inputs) = 1 /\ run'[s].inputs[1] \in 1..(s - 1)
                 /\ Len(run'[s].cells) = Len(run'[run'[s].inputs[1]].cells)
  BY <1>2 DEF UnrecordedStay
<1> HIDE DEF n
<1>3. CASE s \in 1..n
  <2>1. /\ run[s].kind = "opaque" => ~run[s].recorded
        /\ ~run[s].recorded /\ run[s].kind # "opaque" =>
             /\ run[s].kind = "map"
             /\ Len(run[s].inputs) = 1 /\ run[s].inputs[1] \in 1..(s - 1)
             /\ Len(run[s].cells) = Len(run[run[s].inputs[1]].cells)
    BY <1>1, <1>3 DEF UnrecordedStay
  <2>2. run'[s] = run[s]
    BY <1>2, <1>3
  <2>3. \A t \in 1..(s - 1) : run'[t] = run[t]
    BY <1>1, <1>2, <1>3
  <2>. QED  BY <2>1, <2>2, <2>3
<1>4. CASE s = n + 1
  <2>1. run'[s] = record
    BY <1>2, <1>4
  <2>2. ASSUME NEW t \in 1..n, record.inputs = <<t>>
        PROVE  Len(record.inputs) = 1 /\ record.inputs[1] = t /\ run'[t] = run[t] /\ t \in 1..(s - 1)
    BY <1>1, <1>2, <1>4, <2>2
  <2>. QED  BY <1>1, <2>1, <2>2
<1>. QED  BY <1>1, <1>3, <1>4

\* A whole window cuts nothing.
LEMMA WholeIsWhole ==
  ASSUME TypeOK, NEW s \in Stage, NEW window, window = Whole
  PROVE  Len(Read(s, window)) = Len(run[s].cells)
<1>1. run[s].cells \in Seq(CellSet)
  BY RecordType DEF StageRecord, CellSet
<1> DEFINE table == run[s].cells
           n == Len(table)
           rest == SubSeq(table, window.start + 1, n)
<1>2. n \in Nat /\ \A i \in 1..n : table[i] \in CellSet
  BY <1>1, LenProperties
<1>3. window.start + 1 = 1 /\ window.cap = NoCap
  BY DEF Whole
<1>4. Read(s, window) = rest
  BY <1>3 DEF Read, Cut
<1> HIDE DEF table, n
<1>5. Len(SubSeq(table, 1, n)) = IF 1 <= n THEN n - 1 + 1 ELSE 0
  BY <1>1, <1>2, SubSeqProperties DEF table, n
<1>6. rest = SubSeq(table, 1, n)
  BY <1>3
<1> HIDE DEF rest
<1>7. Len(rest) = IF 1 <= n THEN n - 1 + 1 ELSE 0
  BY <1>5, <1>6, Zenon
<1>8. Len(rest) = n
  BY <1>2, <1>7
<1>. QED  BY <1>4, <1>8 DEF n, table

LEMMA StepKeepsUnrecorded ==
  ASSUME TypeOK, UnrecordedStay, [Next]_run
  PROVE  UnrecordedStay'
<1>1. ASSUME NEW record, Put(record), record.recorded, record.kind # "opaque"
      PROVE  UnrecordedStay'
  BY <1>1, RecordedPut
<1>2. ASSUME NEW record, NEW window, Put(Placed(record, window)), record.recorded, record.kind # "opaque",
             record = [kind |-> record.kind, inputs |-> record.inputs, cells |-> record.cells,
                       recorded |-> record.recorded, lineage |-> record.lineage]
      PROVE  UnrecordedStay'
  <2>1. Placed(record, window).recorded = record.recorded /\ Placed(record, window).kind = record.kind
    BY <1>2 DEF Placed
  <2>. QED  BY <1>1, <1>2, <2>1
<1>3. CASE Load
  <2>1. PICK source \in Sources, window \in Windows : Put(Loaded(Len(run) + 1, source, window))
    BY <1>3 DEF Load
  <2>. QED  BY <1>1, <2>1 DEF Loaded, Record
<1>4. CASE Map
  <2>1. PICK s \in Stage, window \in Windows : Put(Mapped(s, window))
    BY <1>4 DEF Map
  <2> DEFINE record == Mapped(s, window)
  <2>2. /\ record.kind = "map" /\ record.inputs = <<s>> /\ record.cells = Read(s, window)
        /\ record.recorded = (window # Whole)
    BY DEF Mapped, Record
  <2> HIDE DEF record
  <2>3. CASE window = Whole
    <3>1. Len(record.cells) = Len(run[s].cells)
      BY <2>2, <2>3, WholeIsWhole
    <3>. QED  BY <2>1, <2>2, <2>3, <3>1, RecordedPut DEF record
  <2>4. CASE window # Whole
    BY <1>1, <2>1, <2>2, <2>4 DEF record
  <2>. QED  BY <2>3, <2>4
<1>5. ASSUME NEW kind \in {"select", "build"}, NEW s, NEW table, NEW rows, NEW window,
             Put(Placed(Picked(kind, s, table, rows), window))
      PROVE  UnrecordedStay'
  BY <1>2, <1>5 DEF Picked, Record
<1>6. CASE Filter
  BY <1>5, <1>6 DEF Filter
<1>7. CASE Dedupe
  BY <1>5, <1>7 DEF Dedupe
<1>8. CASE Sort
  BY <1>5, <1>8 DEF Sort
<1>9. CASE Explode
  BY <1>5, <1>9 DEF Explode
<1>10. CASE Union
  <2>1. PICK s \in Stage, t \in Stage, window \in Windows : Put(United(s, t, window))
    BY <1>10 DEF Union
  <2>. QED  BY <1>1, <2>1 DEF United, Record
<1>11. ASSUME NEW kind \in {"enrich", "expand"}, Join(kind)
       PROVE  UnrecordedStay'
  <2>1. PICK s \in Stage, t \in Stage, window \in Windows :
          \E pairs \in Pairings(Read(s, window), Read(t, window)) :
            Put(Placed(Joined(kind, s, t, Read(s, window), Read(t, window), pairs), window))
    BY <1>11 DEF Join
  <2>2. PICK pairs : Put(Placed(Joined(kind, s, t, Read(s, window), Read(t, window), pairs), window))
    BY <2>1
  <2>. QED  BY <1>2, <2>2 DEF Joined, Record
<1>12. CASE Aggregate
  <2>1. PICK s \in Stage, window \in Windows :
          \E groups \in BoundedSeq({rows \in Picks(Read(s, window)) : Increasing(rows)}, MaxRows) :
            Put(Placed(Aggregated(s, Read(s, window), groups), window))
    BY <1>12 DEF Aggregate
  <2>2. PICK groups : Put(Placed(Aggregated(s, Read(s, window), groups), window))
    BY <2>1
  <2>. QED  BY <1>2, <2>2 DEF Aggregated, Record
<1>13. CASE Reshape
  <2>1. PICK s \in Stage, window \in Windows :
          \E rows \in Picks(Read(s, window)) : Put(Reshaped(s, Read(s, window), rows))
    BY <1>13 DEF Reshape
  <2>2. PICK rows : Put(Reshaped(s, Read(s, window), rows))
    BY <2>1
  <2>. QED  BY <2>2, RecordedPut DEF Reshaped, Record
<1>14. CASE UNCHANGED run
  BY <1>14 DEF UnrecordedStay, Stage
<1>. QED
  BY <1>3, <1>4, <1>6, <1>7, <1>8, <1>9, <1>10, <1>11, <1>12, <1>13, <1>14 DEF Next

LEMMA LineageInvHolds == Spec => []LineageInv
<1>1. Init => LineageInv
  BY InitIsTold DEF LineageInv, UnrecordedStay, Init, Stage
<1>2. LineageInv /\ [Next]_run => LineageInv'
  BY StepIsTold, StepKeepsUnrecorded DEF LineageInv
<1>. QED  BY <1>1, <1>2, PTL DEF Spec

-----------------------------------------------------------------------------
(* The walk of trace.py.                                                   *)

LEMMA FirstIsOne ==
  ASSUME NEW places \in SUBSET Nat, places # {}
  PROVE  First(places) \in places
<1>1. \E k \in places : \A l \in places : k <= l
  BY LeastNumber
<1>. QED  BY <1>1, Zenon DEF First

LEMMA LowestIsOne ==
  ASSUME NEW rows, rows # {}, \A p \in rows : p.stage \in Nat /\ p.row \in Nat
  PROVE  Lowest(rows) \in rows
<1> DEFINE stages == {p.stage : p \in rows}
<1>1. stages \in SUBSET Nat /\ stages # {}
  OBVIOUS
<1>2. PICK first \in stages : \A t \in stages : first <= t
  BY <1>1, LeastNumber
<1> DEFINE places == {p.row : p \in {q \in rows : q.stage = first}}
<1>3. places \in SUBSET Nat /\ places # {}
  BY <1>2
<1>4. PICK place \in places : \A i \in places : place <= i
  BY <1>3, LeastNumber
<1>5. PICK p \in rows : p.stage = first /\ p.row = place
  BY <1>4
<1>6. ASSUME NEW q \in rows
      PROVE  p.stage < q.stage \/ (p.stage = q.stage /\ p.row <= q.row)
  <2>1. q.stage \in stages /\ first <= q.stage /\ first \in Nat /\ q.stage \in Nat
    BY <1>1, <1>2
  <2>2. q.stage = first => place <= q.row
    BY <1>4
  <2>. QED  BY <1>5, <2>1, <2>2
<1>7. \E o \in rows : \A q \in rows :
        o.stage < q.stage \/ (o.stage = q.stage /\ o.row <= q.row)
  BY <1>6
<1>. QED  BY <1>7, Zenon DEF Lowest

\* What the lineage says of one row of a stage that has a sidecar and is no load.
LEMMA EntryIsTrue ==
  ASSUME LineageInv, NEW s \in Stage, NEW row \in DOMAIN run[s].cells,
         run[s].recorded, run[s].kind # "load"
  PROVE  LET entry == run[s].lineage[row] IN
         /\ entry \in Seq(Row)
         /\ \A p \in ToSet(entry) :
              /\ p \in Row
              /\ p.stage \in 1..(s - 1) /\ p.row \in DOMAIN run[p.stage].cells
              /\ run[p.stage].cells[p.row] \subseteq run[s].cells[row]
         /\ run[s].cells[row] = UNION {run[p.stage].cells[p.row] : p \in ToSet(entry)}
<1> DEFINE entry == run[s].lineage[row]
<1>1. run[s].kind # "opaque"
  BY DEF LineageInv, UnrecordedStay
<1>2. run[s] \in StageRecord /\ Len(run[s].lineage) = Len(run[s].cells)
  BY RecordType DEF LineageInv, TypeOK
<1>3. run[s].lineage \in Seq(Seq(Row)) /\ run[s].cells \in Seq(CellSet)
  BY <1>2 DEF StageRecord, CellSet
<1>4. entry \in Seq(Row)
  <2>1. DOMAIN run[s].cells = DOMAIN run[s].lineage
    BY <1>2, <1>3, LenProperties
  <2>. QED  BY <1>3, <2>1, ElementOfSeq, LenProperties
<1>5. ParentsOf(s, row) = entry
  BY DEF ParentsOf
<1>6. /\ \A p \in ToSet(entry) : p.stage \in 1..(s - 1) /\ p.row \in DOMAIN run[p.stage].cells
      /\ run[s].cells[row] = UNION {run[p.stage].cells[p.row] : p \in ToSet(entry)}
  BY <1>1, <1>5 DEF LineageInv, ParentsCarryTheCells
<1>7. \A p \in ToSet(entry) : p \in Row
  BY <1>4 DEF ToSet
<1> HIDE DEF entry
<1>8. \A p \in ToSet(entry) : run[p.stage].cells[p.row] \subseteq run[s].cells[row]
  BY <1>6
<1>. QED  BY <1>4, <1>6, <1>7, <1>8 DEF entry

\* A row of a stage that recorded nothing, and is not opaque, is the row in its place of
\* the one stage it reads.
LEMMA PlaceIsTrue ==
  ASSUME LineageInv, NEW s \in Stage, NEW row \in DOMAIN run[s].cells,
         ~run[s].recorded, run[s].kind # "opaque"
  PROVE  LET t == run[s].inputs[1] IN
         /\ run[s].kind = "map" /\ Len(run[s].inputs) = 1 /\ t \in 1..(s - 1)
         /\ Len(run[s].cells) = Len(run[t].cells)
         /\ row \in DOMAIN run[t].cells
         /\ run[s].cells[row] = run[t].cells[row]
<1> DEFINE t == run[s].inputs[1]
<1>1. /\ run[s].kind = "map" /\ Len(run[s].inputs) = 1 /\ t \in 1..(s - 1)
      /\ Len(run[s].cells) = Len(run[t].cells)
  BY DEF LineageInv, UnrecordedStay
<1>2. ParentsOf(s, row) = <<Parent(t, row, "direct")>>
  BY <1>1 DEF ParentsOf, KeepsPlaces
<1>3. ToSet(ParentsOf(s, row)) = {Parent(t, row, "direct")}
  BY <1>2 DEF ToSet
<1>4. Parent(t, row, "direct").stage = t /\ Parent(t, row, "direct").row = row
  BY DEF Parent
<1> HIDE DEF t
<1>5. /\ \A p \in {Parent(t, row, "direct")} : p.row \in DOMAIN run[p.stage].cells
      /\ run[s].cells[row] = UNION {run[p.stage].cells[p.row] : p \in {Parent(t, row, "direct")}}
  BY <1>1, <1>3 DEF LineageInv, ParentsCarryTheCells
<1>6. row \in DOMAIN run[t].cells /\ run[s].cells[row] = run[t].cells[row]
  BY <1>4, <1>5
<1>. QED  BY <1>1, <1>6 DEF t

Ends == {"none", "origin", "summarizes nothing", "not recorded", "refused"}

\* Where a walk that was to follow `follow` may be.
Places(follow) ==
  [stage : Nat, row : Nat, follow : {<<>>, follow}, end : Ends]

\* A place on a walk down from `row` of stage s.
OnTheWay(at, s, row, follow) ==
  /\ at \in Places(follow)
  /\ at.stage \in Stage /\ at.row \in DOMAIN run[at.stage].cells
  /\ run[at.stage].cells[at.row] \subseteq run[s].cells[row]
  /\ at.end = "summarizes nothing" => run[at.stage].cells[at.row] = {}
  /\ at.end = "not recorded" => run[at.stage].kind = "opaque"

\* `next` is one hop on from `at`, unless the walk ended there, and the reader's choice
\* is let go only where it was followed.
OneHop(at, next) ==
  /\ next.end = "none" => next.stage < at.stage
  /\ next.follow # at.follow => <<next.stage, next.row>> = at.follow[1]

\* Ending a walk where it is.
LEMMA StopIsAHop ==
  ASSUME NEW s, NEW row, NEW follow, NEW at, OnTheWay(at, s, row, follow),
         NEW end \in Ends \ {"none"},
         end = "summarizes nothing" => run[at.stage].cells[at.row] = {},
         end = "not recorded" => run[at.stage].kind = "opaque"
  PROVE  OnTheWay(Stop(at, end), s, row, follow) /\ OneHop(at, Stop(at, end))
<1> DEFINE next == Stop(at, end)
<1>1. at \in Places(follow)
  BY DEF OnTheWay
<1>2. /\ next \in Places(follow)
      /\ next.stage = at.stage /\ next.row = at.row /\ next.follow = at.follow /\ next.end = end
  BY <1>1 DEF Stop, Places
<1> HIDE DEF next
<1>3. OnTheWay(next, s, row, follow)
  BY <1>2 DEF OnTheWay
<1>4. OneHop(at, next)
  BY <1>2 DEF OneHop
<1>. QED  BY <1>3, <1>4 DEF next

\* Going up to a row of an earlier stage, of cells the row carries.
LEMMA ClimbIsAHop ==
  ASSUME LineageInv, NEW s, NEW row, NEW follow, NEW at, OnTheWay(at, s, row, follow),
         at.end = "none", NEW p, p.stage \in 1..(at.stage - 1),
         p.row \in DOMAIN run[p.stage].cells,
         run[p.stage].cells[p.row] \subseteq run[at.stage].cells[at.row]
  PROVE  /\ OnTheWay(Climb(at, p), s, row, follow)
         /\ Climb(at, p).stage < at.stage /\ Climb(at, p).follow = at.follow
         /\ Climb(at, p).stage = p.stage /\ Climb(at, p).row = p.row
<1> DEFINE next == Climb(at, p)
<1>1. at \in Places(follow) /\ at.stage \in Stage
  BY DEF OnTheWay
<1>2. Stage = 1..Len(run) /\ Len(run) \in Nat
  BY StagesAreNumbered DEF LineageInv
<1>3. p.stage \in Stage /\ p.stage \in Nat
  BY <1>1, <1>2
<1>4. p.row \in Nat
  <2>1. run[p.stage].cells \in Seq(CellSet)
    BY <1>3, RecordType DEF StageRecord, CellSet, LineageInv
  <2>. QED  BY <2>1, LenProperties
<1>5. next = [at EXCEPT !.stage = p.stage, !.row = p.row]
  BY DEF Climb
<1>6. /\ next \in Places(follow)
      /\ next.stage = p.stage /\ next.row = p.row /\ next.follow = at.follow /\ next.end = "none"
  BY <1>1, <1>3, <1>4, <1>5 DEF Places
<1> HIDE DEF next
<1>7. OnTheWay(next, s, row, follow)
  BY <1>3, <1>6 DEF OnTheWay
<1>8. next.stage < at.stage
  BY <1>1, <1>2, <1>6
<1>. QED  BY <1>6, <1>7, <1>8 DEF next

\* Going up to one of the rows summarized into this one.
LEMMA SampleIsAHop ==
  ASSUME LineageInv, NEW s, NEW row, NEW follow, NEW at, OnTheWay(at, s, row, follow),
         at.end = "none", NEW fanIn, fanIn # {},
         \A p \in fanIn :
           /\ p \in Row /\ p.stage \in 1..(at.stage - 1) /\ p.row \in DOMAIN run[p.stage].cells
           /\ run[p.stage].cells[p.row] \subseteq run[at.stage].cells[at.row]
  PROVE  OnTheWay(Sample(at, fanIn), s, row, follow) /\ OneHop(at, Sample(at, fanIn))
<1>1. \A p \in fanIn : p.stage \in Nat /\ p.row \in Nat
  BY LineageConstants DEF Row
<1>2. CASE at.follow = <<>> \/ (\A p \in fanIn : p.stage # at.follow[1][1])
  <2>1. Sample(at, fanIn) = Climb(at, Lowest(fanIn))
    BY <1>2 DEF Sample
  <2>2. Lowest(fanIn) \in fanIn
    BY <1>1, LowestIsOne
  <2>3. /\ OnTheWay(Climb(at, Lowest(fanIn)), s, row, follow)
        /\ Climb(at, Lowest(fanIn)).stage < at.stage
        /\ Climb(at, Lowest(fanIn)).follow = at.follow
    BY <2>2, ClimbIsAHop
  <2>. QED  BY <2>1, <2>3 DEF OneHop
<1>3. CASE /\ ~(at.follow = <<>> \/ (\A p \in fanIn : p.stage # at.follow[1][1]))
           /\ Named(fanIn, at.follow[1]) = {}
  <2>1. Sample(at, fanIn) = Stop(at, "refused")
    BY <1>3 DEF Sample
  <2>. QED  BY <2>1, StopIsAHop DEF Ends
<1>4. CASE /\ ~(at.follow = <<>> \/ (\A p \in fanIn : p.stage # at.follow[1][1]))
           /\ Named(fanIn, at.follow[1]) # {}
  <2> DEFINE rows == Named(fanIn, at.follow[1])
             low == Lowest(rows)
             led == [at EXCEPT !.follow = <<>>]
             next == Climb(led, low)
  <2>1. Sample(at, fanIn) = next
    BY <1>4 DEF Sample
  <2>2. low \in rows
    BY <1>1, <1>4, LowestIsOne DEF Named
  <2>3. low \in fanIn /\ <<low.stage, low.row>> = at.follow[1]
    BY <2>2 DEF Named
  <2>4. /\ led \in Places(follow)
        /\ led.stage = at.stage /\ led.row = at.row /\ led.end = at.end /\ led.follow = <<>>
    BY DEF OnTheWay, Places
  <2> HIDE DEF led
  <2>5. OnTheWay(led, s, row, follow)
    BY <2>4 DEF OnTheWay
  <2> HIDE DEF low
  <2>6. /\ OnTheWay(next, s, row, follow) /\ next.stage < at.stage
        /\ next.stage = low.stage /\ next.row = low.row
    BY <2>3, <2>4, <2>5, ClimbIsAHop
  <2> HIDE DEF next
  <2>7. OneHop(at, next)
    BY <2>3, <2>6 DEF OneHop
  <2>. QED  BY <2>1, <2>6, <2>7
<1>. QED  BY <1>2, <1>3, <1>4

\* Every hop is sound: it goes to a row whose cells the row it left carries, or ends.
LEMMA AdvanceIsAHop ==
  ASSUME LineageInv, NEW s, NEW row, NEW follow, NEW at, OnTheWay(at, s, row, follow),
         at.end = "none"
  PROVE  OnTheWay(Advance(at), s, row, follow) /\ OneHop(at, Advance(at))
<1> DEFINE entry == Hops(at)
           record == run[at.stage]
<1>1. at.stage \in Stage /\ at.row \in DOMAIN run[at.stage].cells
  BY DEF OnTheWay
<1>2. CASE record.kind = "load"
  <2>1. Advance(at) = Stop(at, "origin")
    BY <1>2 DEF Advance
  <2>. QED  BY <2>1, StopIsAHop DEF Ends
<1>3. CASE record.kind # "load" /\ record.recorded
  <2>1. entry = run[at.stage].lineage[at.row]
    BY <1>3 DEF Hops
  <2>2. /\ entry \in Seq(Row)
        /\ \A p \in ToSet(entry) :
             /\ p \in Row
             /\ p.stage \in 1..(at.stage - 1) /\ p.row \in DOMAIN run[p.stage].cells
             /\ run[p.stage].cells[p.row] \subseteq run[at.stage].cells[at.row]
        /\ run[at.stage].cells[at.row] = UNION {run[p.stage].cells[p.row] : p \in ToSet(entry)}
    BY <1>1, <1>3, <2>1, EntryIsTrue
  <2> HIDE DEF entry
  <2>3. CASE Spines(entry) # {}
    <3> DEFINE p == entry[First(Spines(entry))]
    <3>1. Spines(entry) \in SUBSET Nat
      BY <2>2, LenProperties DEF Spines
    <3>2. First(Spines(entry)) \in DOMAIN entry
      BY <2>3, <3>1, FirstIsOne DEF Spines
    <3>3. p \in ToSet(entry)
      BY <3>2 DEF ToSet
    <3>4. Advance(at) = Climb(at, p)
      BY <1>3, <2>3 DEF Advance, entry
    <3> HIDE DEF p
    <3>5. /\ OnTheWay(Climb(at, p), s, row, follow)
          /\ Climb(at, p).stage < at.stage /\ Climb(at, p).follow = at.follow
      BY <2>2, <3>3, ClimbIsAHop
    <3>. QED  BY <3>4, <3>5 DEF OneHop
  <2>4. CASE Spines(entry) = {} /\ FanIn(entry) # {}
    <3>1. Advance(at) = Sample(at, FanIn(entry))
      BY <1>3, <2>4 DEF Advance, entry
    <3>2. FanIn(entry) \subseteq ToSet(entry)
      BY DEF FanIn
    <3>. QED  BY <2>2, <2>4, <3>1, <3>2, SampleIsAHop
  <2>5. CASE Spines(entry) = {} /\ FanIn(entry) = {}
    <3>1. Advance(at) = Stop(at, "summarizes nothing")
      BY <1>3, <2>5 DEF Advance, entry
    <3>2. ToSet(entry) = {}
      <4>. SUFFICES ASSUME NEW k \in DOMAIN entry  PROVE FALSE
        BY DEF ToSet
      <4>1. entry[k] \in ToSet(entry)
        BY DEF ToSet
      <4>2. entry[k].kind \in {"direct", "contribution"}
        BY <2>2, <4>1 DEF Row
      <4>. QED  BY <2>5, <4>1, <4>2 DEF Spines, FanIn
    <3>3. run[at.stage].cells[at.row] = {}
      BY <2>2, <3>2
    <3>. QED  BY <3>1, <3>3, StopIsAHop DEF Ends
  <2>. QED  BY <2>3, <2>4, <2>5
<1>4. CASE record.kind # "load" /\ ~record.recorded
  <2>1. entry = <<>>
    BY <1>4 DEF Hops
  <2>2. Spines(entry) = {} /\ FanIn(entry) = {}
    BY <2>1 DEF Spines, FanIn, ToSet
  <2>3. CASE record.kind = "opaque"
    <3>1. Advance(at) = Stop(at, "not recorded")
      BY <1>4, <2>2, <2>3 DEF Advance, KeepsPlaces
    <3>. QED  BY <2>3, <3>1, StopIsAHop DEF Ends
  <2>4. CASE record.kind # "opaque"
    <3> DEFINE t == record.inputs[1]
               next == [at EXCEPT !.stage = t]
    <3>1. /\ record.kind = "map" /\ Len(record.inputs) = 1 /\ t \in 1..(at.stage - 1)
          /\ Len(record.cells) = Len(run[t].cells)
          /\ at.row \in DOMAIN run[t].cells
          /\ record.cells[at.row] = run[t].cells[at.row]
      BY <1>1, <1>4, <2>4, PlaceIsTrue
    <3>2. Advance(at) = SamePlace(at, t)
      BY <1>4, <2>2, <3>1 DEF Advance, KeepsPlaces
    <3>3. SamePlace(at, t) = next
      BY <3>1 DEF SamePlace
    <3> HIDE DEF t
    <3>4. Stage = 1..Len(run) /\ Len(run) \in Nat
      BY StagesAreNumbered DEF LineageInv
    <3>5. t \in Stage /\ t \in Nat /\ t < at.stage
      BY <1>1, <3>1, <3>4
    <3>6. /\ next \in Places(follow)
          /\ next.stage = t /\ next.row = at.row /\ next.follow = at.follow /\ next.end = "none"
      BY <3>5 DEF OnTheWay, Places
    <3> HIDE DEF next
    <3>7. OnTheWay(next, s, row, follow)
      BY <3>1, <3>5, <3>6 DEF OnTheWay
    <3>8. OneHop(at, next)
      BY <3>5, <3>6 DEF OneHop
    <3>. QED  BY <3>2, <3>3, <3>7, <3>8
  <2>. QED  BY <2>3, <2>4
<1>. QED  BY <1>2, <1>3, <1>4

\* The recursion of Walk has a solution, as far as one likes.
LEMMA HopsExist ==
  ASSUME NEW base, NEW n \in Nat
  PROVE  \E f : f = [k \in 0..n |-> IF k = 0 THEN base ELSE NextHop(f[k - 1])]
<1> DEFINE IsWalk(f, m) == f = [k \in 0..m |-> IF k = 0 THEN base ELSE NextHop(f[k - 1])]
           G == {m \in Nat : \E f : IsWalk(f, m)}
<1>1. 0 \in G
  <2> DEFINE f == [k \in 0..0 |-> base]
  <2>1. IsWalk(f, 0)
    OBVIOUS
  <2>. QED  BY <2>1
<1>2. ASSUME NEW m \in 0..n, m \in G  PROVE m + 1 \in G
  <2>1. PICK f : IsWalk(f, m)
    BY <1>2
  <2>2. m \in Nat /\ DOMAIN f = 0..m /\ f[0] = base /\ \A k \in 1..m : f[k] = NextHop(f[k - 1])
    BY <2>1
  <2> DEFINE g == [k \in 0..(m + 1) |-> IF k = m + 1 THEN NextHop(f[m]) ELSE f[k]]
  <2>3. /\ g[0] = base /\ g[m] = f[m] /\ g[m + 1] = NextHop(g[m])
        /\ \A k \in 1..m : g[k] = NextHop(f[k - 1]) /\ g[k - 1] = f[k - 1]
    BY <2>2
  <2>4. g = [k \in 0..(m + 1) |-> g[k]]
    OBVIOUS
  <2> HIDE DEF g
  <2>5. \A k \in 0..(m + 1) : g[k] = IF k = 0 THEN base ELSE NextHop(g[k - 1])
    <3>. SUFFICES ASSUME NEW k \in 0..(m + 1)
         PROVE  g[k] = IF k = 0 THEN base ELSE NextHop(g[k - 1])
      OBVIOUS
    <3>1. k = 0 \/ k \in 1..m \/ k = m + 1
      BY <2>2
    <3>2. m + 1 # 0 /\ m + 1 - 1 = m /\ \A j \in 1..m : j # 0
      BY <2>2
    <3>. QED  BY <2>3, <3>1, <3>2
  <2>6. IsWalk(g, m + 1)
    BY <2>4, <2>5
  <2>. QED  BY <2>2, <2>6
<1> HIDE DEF G
<1>3. n \in G
  BY <1>1, <1>2, HoldsAll
<1>. QED  BY <1>3 DEF G

\* hops[k] is where a walk is after k hops.
HopByHop(hops, s, row, follow) ==
  /\ hops[0] = << [stage |-> s, row |-> row, follow |-> follow, end |-> "none"] >>
  /\ \A k \in 1..Len(run) : hops[k] = NextHop(hops[k - 1])
  /\ Walk(s, row, follow) = hops[Len(run)]

LEMMA WalkUnfolds ==
  ASSUME NEW s, NEW row, NEW follow, Len(run) \in Nat
  PROVE  \E hops : HopByHop(hops, s, row, follow)
<1> DEFINE base == << [stage |-> s, row |-> row, follow |-> follow, end |-> "none"] >>
           upTo[n \in 0..Len(run)] == IF n = 0 THEN base ELSE NextHop(upTo[n - 1])
<1>1. Walk(s, row, follow) = upTo[Len(run)]
  BY DEF Walk
<1> HIDE DEF base
<1>2. \E f : f = [k \in 0..Len(run) |-> IF k = 0 THEN base ELSE NextHop(f[k - 1])]
  BY HopsExist
<1>3. upTo = [k \in 0..Len(run) |-> IF k = 0 THEN base ELSE NextHop(upTo[k - 1])]
  BY <1>2
<1> HIDE DEF upTo
<1>4. upTo[0] = base /\ \A k \in 1..Len(run) : upTo[k] = NextHop(upTo[k - 1])
  BY <1>3
<1>5. HopByHop(upTo, s, row, follow)
  BY <1>1, <1>4 DEF HopByHop, base
<1>. QED  BY <1>5

\* A walk after n hops: it met rows on the way only, has ended or gone up n stages, and
\* let go of the reader's choice only at the row that was chosen.
Walked(walk, n, s, row, follow) ==
  /\ walk \in Seq(Places(follow)) /\ Len(walk) = n + 1
  /\ \A k \in 1..(n + 1) : OnTheWay(walk[k], s, row, follow)
  /\ walk[n + 1].end = "none" => walk[n + 1].stage <= s - n
  /\ walk[n + 1].follow = follow \/
       \E k \in 1..(n + 1) : follow[1] = <<walk[k].stage, walk[k].row>>

LEMMA FirstStep ==
  ASSUME LineageInv, NEW s \in Stage, NEW row \in DOMAIN run[s].cells, NEW follow
  PROVE  Walked(<< [stage |-> s, row |-> row, follow |-> follow, end |-> "none"] >>,
                0, s, row, follow)
<1> DEFINE at == [stage |-> s, row |-> row, follow |-> follow, end |-> "none"]
<1>1. Stage = 1..Len(run) /\ Len(run) \in Nat
  BY StagesAreNumbered DEF LineageInv
<1>2. run[s].cells \in Seq(CellSet)
  BY RecordType DEF StageRecord, CellSet, LineageInv
<1>3. row \in Nat /\ s \in Nat
  BY <1>1, <1>2, LenProperties
<1>4. /\ at \in Places(follow)
      /\ at.stage = s /\ at.row = row /\ at.follow = follow /\ at.end = "none"
  BY <1>3 DEF Places, Ends
<1> HIDE DEF at
<1>5. OnTheWay(at, s, row, follow)
  BY <1>4 DEF OnTheWay
<1>6. <<at>> \in Seq(Places(follow)) /\ Len(<<at>>) = 1 /\ <<at>>[1] = at
  BY <1>4
<1>7. s <= s - 0 /\ 0 + 1 = 1 /\ \A k \in 1..1 : k = 1
  BY <1>3
<1> DEFINE walk == <<at>>
<1> HIDE DEF walk
<1>8. Walked(walk, 0, s, row, follow)
  BY <1>4, <1>5, <1>6, <1>7 DEF Walked, walk
<1>. QED  BY <1>8 DEF walk, at

LEMMA EveryStep ==
  ASSUME LineageInv, NEW s \in Stage, NEW row, NEW follow,
         NEW walk, NEW n \in Nat, Walked(walk, n, s, row, follow)
  PROVE  Walked(NextHop(walk), n + 1, s, row, follow)
<1> DEFINE at == walk[n + 1]
           next == IF at.end = "none" THEN Advance(at) ELSE at
           longer == Append(walk, next)
<1>1. /\ walk \in Seq(Places(follow)) /\ Len(walk) = n + 1
      /\ \A k \in 1..(n + 1) : OnTheWay(walk[k], s, row, follow)
      /\ at.end = "none" => at.stage <= s - n
      /\ at.follow = follow \/
           \E k \in 1..(n + 1) : follow[1] = <<walk[k].stage, walk[k].row>>
  BY DEF Walked
<1>2. NextHop(walk) = longer
  BY <1>1 DEF NextHop, Last
<1>3. OnTheWay(at, s, row, follow)
  BY <1>1
<1> HIDE DEF at
<1>4. at.stage \in Nat /\ s \in Nat
  <2>1. Stage = 1..Len(run) /\ Len(run) \in Nat
    BY StagesAreNumbered DEF LineageInv
  <2>2. at.stage \in Stage
    BY <1>3 DEF OnTheWay
  <2>. QED  BY <2>1, <2>2
<1>5. /\ OnTheWay(next, s, row, follow)
      /\ next.end = "none" => next.stage < at.stage /\ at.end = "none"
      /\ next.follow # at.follow => <<next.stage, next.row>> = at.follow[1]
  <2>1. CASE at.end = "none"
    <3>1. OnTheWay(Advance(at), s, row, follow) /\ OneHop(at, Advance(at))
      BY <1>3, <2>1, AdvanceIsAHop
    <3>. QED  BY <2>1, <3>1 DEF OneHop
  <2>2. CASE at.end # "none"
    BY <1>3, <2>2
  <2>. QED  BY <2>1, <2>2
<1> HIDE DEF next
<1>6. next \in Places(follow) /\ next.stage \in Nat
  BY <1>5 DEF OnTheWay, Places
<1>7. /\ longer \in Seq(Places(follow)) /\ Len(longer) = n + 2
      /\ \A k \in 1..(n + 1) : longer[k] = walk[k]
      /\ longer[n + 2] = next
  <2>1. n + 1 + 1 = n + 2
    OBVIOUS
  <2>. QED  BY <1>1, <1>6, <2>1, AppendProperties
<1> HIDE DEF longer
<1>8. ASSUME NEW k \in 1..(n + 2)  PROVE OnTheWay(longer[k], s, row, follow)
  <2>1. k \in 1..(n + 1) \/ k = n + 2
    OBVIOUS
  <2>. QED  BY <1>1, <1>5, <1>7, <2>1
<1>9. next.end = "none" => next.stage <= s - (n + 1)
  BY <1>1, <1>4, <1>5, <1>6 DEF at
<1>10. next.follow = follow \/
         \E k \in 1..(n + 2) : follow[1] = <<longer[k].stage, longer[k].row>>
  <2>1. 1..(n + 1) \subseteq 1..(n + 2) /\ n + 2 \in 1..(n + 2)
    OBVIOUS
  <2>2. ASSUME NEW k \in 1..(n + 1), follow[1] = <<walk[k].stage, walk[k].row>>
        PROVE  \E l \in 1..(n + 2) : follow[1] = <<longer[l].stage, longer[l].row>>
    BY <1>7, <2>1, <2>2
  <2>3. ASSUME next.follow # at.follow, at.follow = follow
        PROVE  \E l \in 1..(n + 2) : follow[1] = <<longer[l].stage, longer[l].row>>
    BY <1>5, <1>7, <2>1, <2>3
  <2>. QED  BY <1>1, <2>2, <2>3
<1>11. n + 1 + 1 = n + 2
  OBVIOUS
<1>. QED  BY <1>2, <1>7, <1>8, <1>9, <1>10, <1>11 DEF Walked

\* A whole walk has ended.
LEMMA WalkIsSound ==
  ASSUME LineageInv, NEW s \in Stage, NEW row \in DOMAIN run[s].cells, NEW follow
  PROVE  Walked(Walk(s, row, follow), Len(run), s, row, follow)
<1>1. Len(run) \in Nat
  BY StagesAreNumbered DEF LineageInv
<1>2. PICK hops : HopByHop(hops, s, row, follow)
  BY <1>1, WalkUnfolds
<1> DEFINE G == {n \in Nat : Walked(hops[n], n, s, row, follow)}
<1>3. 0 \in G
  BY <1>2, FirstStep DEF HopByHop
<1>4. \A n \in 0..Len(run) : n \in G /\ n < Len(run) => n + 1 \in G
  <2>. SUFFICES ASSUME NEW n \in 0..Len(run), n \in G, n < Len(run)  PROVE n + 1 \in G
    OBVIOUS
  <2>1. n \in Nat /\ n + 1 \in 1..Len(run) /\ n + 1 - 1 = n
    BY <1>1
  <2>2. hops[n + 1] = NextHop(hops[n])
    BY <1>2, <2>1 DEF HopByHop
  <2>3. Walked(NextHop(hops[n]), n + 1, s, row, follow)
    BY <2>1, EveryStep
  <2>. QED  BY <2>1, <2>2, <2>3
<1> HIDE DEF G
<1>5. \A n \in 0..Len(run) : n \in G
  BY <1>1, <1>3, <1>4, HoldsAll
<1>6. Len(run) \in G
  BY <1>1, <1>5
<1>. QED  BY <1>2, <1>6 DEF G, HopByHop

\* What the trace of a row says is true, whatever the run: the walk ends, at a load or
\* where a stage recorded nothing or a row summarizes none, meets only rows whose cells
\* the row it started from carries, and goes through the row the reader chose.
THEOREM TracesTellTheTruth == Spec => []TraceTellsTheTruth
<1>1. LineageInv => TraceTellsTheTruth
  <2>. SUFFICES ASSUME LineageInv, NEW s \in Newest, NEW row \in DOMAIN run[s].cells,
                NEW follow \in {<<>>} \cup
                  UNION {{<< <<t, i>> >> : i \in DOMAIN run[t].cells} : t \in Stage}
       PROVE  LET walk == Walk(s, row, follow)
                  last == Last(walk) IN
              /\ last.end \in {"origin", "summarizes nothing", "not recorded", "refused"}
              /\ last.end = "summarizes nothing" => run[last.stage].cells[last.row] = {}
              /\ last.end = "not recorded" => run[last.stage].kind = "opaque"
              /\ \A k \in DOMAIN walk :
                   run[walk[k].stage].cells[walk[k].row] \subseteq run[s].cells[row]
              /\ follow # <<>> /\ ~Refused(walk) =>
                   \E k \in DOMAIN walk : follow[1] = <<walk[k].stage, walk[k].row>>
    BY DEF TraceTellsTheTruth
  <2> DEFINE walk == Walk(s, row, follow)
             n == Len(run)
             last == walk[n + 1]
  <2>1. s \in Stage /\ s = n /\ n \in Nat /\ Stage = 1..n
    BY StagesAreNumbered DEF Newest, LineageInv
  <2>2. Walked(walk, n, s, row, follow)
    BY <2>1, WalkIsSound
  <2> HIDE DEF walk
  <2>3. Last(walk) = last /\ DOMAIN walk = 1..(n + 1) /\ n + 1 \in 1..(n + 1)
    BY <2>1, <2>2, LenProperties DEF Walked, Last
  <2>4. OnTheWay(last, s, row, follow)
    BY <2>2, <2>3 DEF Walked
  <2>5. last.end # "none"
    <3>1. last.end = "none" => last.stage <= s - n
      BY <2>2 DEF Walked
    <3>2. last.stage \in 1..n
      BY <2>1, <2>4 DEF OnTheWay
    <3> HIDE DEF n, last
    <3>. QED  BY <2>1, <3>1, <3>2
  <2>6. last.end \in Ends
    BY <2>4 DEF OnTheWay, Places
  <2>7. \A k \in 1..(n + 1) :
          run[walk[k].stage].cells[walk[k].row] \subseteq run[s].cells[row]
    BY <2>2 DEF Walked, OnTheWay
  <2>8. follow # <<>> /\ last.follow = <<>> =>
          \E k \in 1..(n + 1) : follow[1] = <<walk[k].stage, walk[k].row>>
    BY <2>2 DEF Walked
  <2>9. /\ last.end = "summarizes nothing" => run[last.stage].cells[last.row] = {}
        /\ last.end = "not recorded" => run[last.stage].kind = "opaque"
    BY <2>4 DEF OnTheWay
  <2> HIDE DEF n, last
  <2>10. ~Refused(walk) => last.follow = <<>>
    BY <2>3 DEF Refused
  <2>. QED  BY <2>3, <2>5, <2>6, <2>7, <2>8, <2>9, <2>10 DEF Ends, walk
<1>. QED  BY <1>1, LineageInvHolds, PTL

-----------------------------------------------------------------------------
(* The paths of run_branches.py.                                           *)

\* The recursion of Paths has a solution, as far as one likes.
LEMMA PathsExist ==
  ASSUME NEW n \in Nat
  PROVE  \E f : f = [k \in 0..n |-> IF k = 0 THEN <<>> ELSE NextPaths(f[k - 1])]
<1> DEFINE IsPaths(f, m) == f = [k \in 0..m |-> IF k = 0 THEN <<>> ELSE NextPaths(f[k - 1])]
           G == {m \in Nat : \E f : IsPaths(f, m)}
<1>1. 0 \in G
  <2> DEFINE f == [k \in 0..0 |-> <<>>]
  <2>1. IsPaths(f, 0)
    OBVIOUS
  <2>. QED  BY <2>1
<1>2. ASSUME NEW m \in 0..n, m \in G  PROVE m + 1 \in G
  <2>1. PICK f : IsPaths(f, m)
    BY <1>2
  <2>2. m \in Nat /\ DOMAIN f = 0..m /\ f[0] = <<>> /\ \A k \in 1..m : f[k] = NextPaths(f[k - 1])
    BY <2>1
  <2> DEFINE g == [k \in 0..(m + 1) |-> IF k = m + 1 THEN NextPaths(f[m]) ELSE f[k]]
  <2>3. /\ g[0] = <<>> /\ g[m] = f[m] /\ g[m + 1] = NextPaths(g[m])
        /\ \A k \in 1..m : g[k] = NextPaths(f[k - 1]) /\ g[k - 1] = f[k - 1]
    BY <2>2
  <2>4. g = [k \in 0..(m + 1) |-> g[k]]
    OBVIOUS
  <2> HIDE DEF g
  <2>5. \A k \in 0..(m + 1) : g[k] = IF k = 0 THEN <<>> ELSE NextPaths(g[k - 1])
    <3>. SUFFICES ASSUME NEW k \in 0..(m + 1)
         PROVE  g[k] = IF k = 0 THEN <<>> ELSE NextPaths(g[k - 1])
      OBVIOUS
    <3>1. k = 0 \/ k \in 1..m \/ k = m + 1
      BY <2>2
    <3>2. m + 1 # 0 /\ m + 1 - 1 = m /\ \A j \in 1..m : j # 0
      BY <2>2
    <3>. QED  BY <2>3, <3>1, <3>2
  <2>6. IsPaths(g, m + 1)
    BY <2>4, <2>5
  <2>. QED  BY <2>2, <2>6
<1> HIDE DEF G
<1>3. n \in G
  BY <1>1, <1>2, HoldsAll
<1>. QED  BY <1>3 DEF G

\* above[k] is the paths of the first k stages.
StageByStage(above) ==
  /\ above[0] = <<>>
  /\ \A k \in 1..Len(run) : above[k] = NextPaths(above[k - 1])
  /\ Paths = above[Len(run)]

LEMMA PathsUnfold ==
  ASSUME Len(run) \in Nat
  PROVE  \E above : StageByStage(above)
<1> DEFINE upTo[n \in 0..Len(run)] == IF n = 0 THEN <<>> ELSE NextPaths(upTo[n - 1])
<1>1. Paths = upTo[Len(run)]
  BY DEF Paths
<1>2. \E f : f = [k \in 0..Len(run) |-> IF k = 0 THEN <<>> ELSE NextPaths(f[k - 1])]
  BY PathsExist
<1>3. upTo = [k \in 0..Len(run) |-> IF k = 0 THEN <<>> ELSE NextPaths(upTo[k - 1])]
  BY <1>2
<1> HIDE DEF upTo
<1>4. upTo[0] = <<>> /\ \A k \in 1..Len(run) : upTo[k] = NextPaths(upTo[k - 1])
  BY <1>3
<1>5. StageByStage(upTo)
  BY <1>1, <1>4 DEF StageByStage
<1>. QED  BY <1>5

\* The paths of a stage are worked out from those of the stages before it.
LEMMA PathsOfEachStage ==
  ASSUME Len(run) \in Nat, NEW s \in 1..Len(run)
  PROVE  \E above : /\ Paths[s] = PathsOf(s, above)
                    /\ \A t \in 1..(s - 1) : above[t] = Paths[t]
<1>1. PICK above : StageByStage(above)
  BY PathsUnfold
<1> DEFINE n == Len(run)
           S == {PathsOf(k, above[k - 1]) : k \in 1..n}
           Goes(m) == /\ above[m] \in Seq(S) /\ Len(above[m]) = m
                      /\ \A k \in 1..m : above[m][k] = PathsOf(k, above[k - 1])
           G == {m \in Nat : Goes(m)}
<1> HIDE DEF n
<1>2. n \in Nat
  BY DEF n
<1>3. 0 \in G
  <2>1. above[0] = <<>>
    BY <1>1 DEF StageByStage
  <2> HIDE DEF S
  <2>2. <<>> \in Seq(S) /\ Len(<<>>) = 0 /\ 1..0 = {}
    OBVIOUS
  <2>3. Goes(0)
    BY <2>1, <2>2
  <2>. QED  BY <2>3
<1>4. \A m \in 0..n : m \in G /\ m < n => m + 1 \in G
  <2>. SUFFICES ASSUME NEW m \in 0..n, Goes(m), m < n  PROVE m + 1 \in G
    OBVIOUS
  <2>1. m \in Nat /\ m + 1 \in 1..n /\ m + 1 - 1 = m
    BY <1>2
  <2> DEFINE before == above[m]
             newest == PathsOf(m + 1, before)
  <2>2. above[m + 1] = Append(before, newest)
    BY <1>1, <2>1 DEF StageByStage, NextPaths, n
  <2>3. newest \in S
    BY <2>1
  <2>4. before \in Seq(S) /\ Len(before) = m /\ \A k \in 1..m : before[k] = PathsOf(k, above[k - 1])
    OBVIOUS
  <2> HIDE DEF S, before, newest
  <2>5. /\ Append(before, newest) \in Seq(S)
        /\ Len(Append(before, newest)) = m + 1
        /\ \A k \in 1..m : Append(before, newest)[k] = before[k]
        /\ Append(before, newest)[m + 1] = newest
    BY <2>3, <2>4, AppendProperties
  <2>6. \A k \in 1..(m + 1) : k \in 1..m \/ k = m + 1
    BY <2>1
  <2>7. newest = PathsOf(m + 1, above[m + 1 - 1])
    BY <2>1 DEF newest, before
  <2>8. \A k \in 1..(m + 1) : Append(before, newest)[k] = PathsOf(k, above[k - 1])
    BY <2>4, <2>5, <2>6, <2>7
  <2>9. Goes(m + 1)
    BY <2>2, <2>5, <2>8
  <2>. QED  BY <2>1, <2>9
<1> HIDE DEF G
<1>5. \A m \in 0..n : m \in G
  BY <1>2, <1>3, <1>4, HoldsAll
<1>6. \A m \in 0..n : \A k \in 1..m : above[m][k] = PathsOf(k, above[k - 1])
  BY <1>5 DEF G
<1>7. Paths = above[n] /\ s \in 1..n
  BY <1>1 DEF StageByStage, n
<1>8. n \in 0..n /\ s - 1 \in 0..n /\ 1..(s - 1) \subseteq 1..n
  BY <1>2, <1>7
<1>9. Paths[s] = PathsOf(s, above[s - 1])
  BY <1>6, <1>7, <1>8
<1>10. \A t \in 1..(s - 1) : above[s - 1][t] = Paths[t]
  BY <1>6, <1>7, <1>8
<1>. QED  BY <1>9, <1>10

\* The loads of a path, and the loads of the files that cells come from.
Loads(path) == {b[1] : b \in {c \in path : c[2] = "loaded"}}
LoadsOf(cells) == {cell[1] : cell \in cells}

\* Only a load puts a load into a row's path, and it puts itself.
LEMMA OwnLoads ==
  ASSUME NEW s \in Stage, NEW row
  PROVE  Loads(ReadBranches(s, row) \cup Merges(s, row)) =
           IF run[s].kind = "load" THEN {s} ELSE {}
<1>1. ASSUME NEW b \in Merges(s, row)  PROVE b[2] # "loaded"
  <2>1. PICK t \in Stage : \E o : b = Branch(t, "merged", o)
    BY DEF Merges
  <2>. QED  BY <2>1 DEF Branch
<1>2. ASSUME NEW b \in ReadRemovals(s, row)  PROVE b[2] # "loaded"
  <2>1. b = Branch(s, "kept", 0)
    BY Zenon DEF ReadRemovals
  <2>. QED  BY <2>1 DEF Branch
<1>3. ASSUME NEW b \in ReadInputs(s, row)  PROVE b[2] # "loaded"
  <2> DEFINE inputs == ToSet(run[s].inputs)
             reach(t) == {i \in DOMAIN run[s].cells : Reaches(s, i, t)}
             split == {t \in inputs : reach(t) \notin {{}, DOMAIN run[s].cells}}
             froms == {Branch(s, "from", t) : t \in {u \in inputs : Reaches(s, row, u)}}
             joins == {Branch(s, IF row \in reach(t) THEN "matched" ELSE "missed", t) : t \in split}
  <2>1. b \in froms \/ b \in joins
    BY Zenon DEF ReadInputs
  <2>2. ASSUME b \in froms  PROVE b[2] # "loaded"
    BY <2>2 DEF Branch
  <2>3. ASSUME b \in joins  PROVE b[2] # "loaded"
    <3> HIDE DEF reach, split
    <3>1. PICK t \in split : b = Branch(s, IF row \in reach(t) THEN "matched" ELSE "missed", t)
      BY <2>3
    <3>. QED  BY <3>1 DEF Branch
  <2>. QED  BY <2>1, <2>2, <2>3
<1>4. CASE run[s].kind = "load"
  <2>1. ReadBranches(s, row) = {<<s, "loaded", 0>>}
    BY <1>4 DEF ReadBranches, Branch
  <2> DEFINE own == ReadBranches(s, row) \cup Merges(s, row)
  <2>2. {c \in own : c[2] = "loaded"} = {<<s, "loaded", 0>>}
    BY <1>1, <2>1
  <2>3. \A b \in {<<s, "loaded", 0>>} : b[1] = s
    OBVIOUS
  <2> HIDE DEF own
  <2>4. Loads(own) = {s}
    <3> DEFINE loads == {c \in own : c[2] = "loaded"}
    <3>1. Loads(own) = {b[1] : b \in loads}
      BY DEF Loads
    <3>2. loads = {<<s, "loaded", 0>>}
      BY <2>2
    <3> HIDE DEF loads
    <3>3. \A x : x \in Loads(own) <=> \E b \in loads : b[1] = x
      BY <3>1
    <3>. QED  BY <2>3, <3>2, <3>3
  <2>. QED  BY <1>4, <2>4 DEF own
<1>5. CASE run[s].kind # "load"
  <2>1. \A b \in ReadBranches(s, row) : b[2] # "loaded"
    BY <1>2, <1>3, <1>5 DEF ReadBranches
  <2> DEFINE own == ReadBranches(s, row) \cup Merges(s, row)
  <2>2. {c \in own : c[2] = "loaded"} = {}
    BY <1>1, <2>1
  <2> HIDE DEF own
  <2>3. Loads(own) = {}
    BY <2>2 DEF Loads
  <2>. QED  BY <1>5, <2>3 DEF own
<1>. QED  BY <1>4, <1>5

\* When the run can be read, a row's path holds the load of every file its cells come
\* from and of no other, whatever the run: a lookup's too, and none that it only stands
\* in the place of.
THEOREM PathsHoldTheirLoads == Spec => []PathHoldsItsLoads
<1>1. LineageInv => PathHoldsItsLoads
  <2>. SUFFICES ASSUME LineageInv, Readable
       PROVE  \A s \in Stage : \A row \in DOMAIN run[s].cells :
                Loads(Paths[s][row]) = LoadsOf(run[s].cells[row])
    BY DEF PathHoldsItsLoads, Loads, LoadsOf
  <2> DEFINE n == Len(run)
             Agrees(s) == \A row \in DOMAIN run[s].cells :
                          Loads(Paths[s][row]) = LoadsOf(run[s].cells[row])
             G == {m \in Nat : \A s \in 1..m : Agrees(s)}
  <2>1. n \in Nat /\ Stage = 1..n
    BY StagesAreNumbered DEF LineageInv
  <2>2. 0 \in G
    OBVIOUS
  <2>3. ASSUME NEW s \in Stage, \A t \in 1..(s - 1) : Agrees(t), NEW row \in DOMAIN run[s].cells
        PROVE  Loads(Paths[s][row]) = LoadsOf(run[s].cells[row])
    <3>1. PICK above : /\ Paths[s] = PathsOf(s, above)
                       /\ \A t \in 1..(s - 1) : above[t] = Paths[t]
      BY <2>1, PathsOfEachStage
    <3> DEFINE parents == ToSet(ParentsOf(s, row))
               own == ReadBranches(s, row) \cup Merges(s, row)
               inherited == UNION {above[p.stage][p.row] : p \in parents}
    <3>2. Paths[s][row] = inherited \cup own
      <4> DEFINE path(i) == (UNION {above[p.stage][p.row] : p \in ToSet(ParentsOf(s, i))})
                              \cup ReadBranches(s, i) \cup Merges(s, i)
      <4>1. PathsOf(s, above) = [i \in DOMAIN run[s].cells |-> path(i)]
        BY DEF PathsOf
      <4> HIDE DEF path
      <4>2. Paths[s][row] = path(row)
        BY <3>1, <4>1
      <4>3. \A X, Y, Z : (X \cup Y) \cup Z = X \cup (Y \cup Z)
        OBVIOUS
      <4>. QED  BY <4>2, <4>3, Zenon DEF path
    <3>3. Loads(own) = IF run[s].kind = "load" THEN {s} ELSE {}
      BY OwnLoads
    <3>4. run[s].kind # "opaque"
      BY DEF LineageInv, UnrecordedStay, Readable, KeepsPlaces
    <3>5. CASE run[s].kind = "load"
      <4>1. parents = {}
        BY <3>5 DEF ParentsOf, ToSet
      <4>2. \E p : run[s].cells[row] = {<<s, p.file, p.row>>}
        BY <3>5 DEF LineageInv, ParentsCarryTheCells
      <4>3. LoadsOf(run[s].cells[row]) = {s}
        BY <4>2 DEF LoadsOf
      <4> HIDE DEF parents, own
      <4>4. Paths[s][row] = own
        BY <3>2, <4>1
      <4>. QED  BY <3>3, <3>5, <4>3, <4>4
    <3>6. CASE run[s].kind # "load"
      <4>1. /\ \A p \in parents : p.stage \in 1..(s - 1) /\ p.row \in DOMAIN run[p.stage].cells
            /\ run[s].cells[row] = UNION {run[p.stage].cells[p.row] : p \in parents}
        BY <3>4, <3>6 DEF LineageInv, ParentsCarryTheCells
      <4> HIDE DEF parents, own
      <4>2. \A p \in parents :
              Loads(above[p.stage][p.row]) = LoadsOf(run[p.stage].cells[p.row])
        BY <2>3, <3>1, <4>1
      <4>3. Loads(Paths[s][row]) = UNION {Loads(above[p.stage][p.row]) : p \in parents}
        BY <3>2, <3>3, <3>6 DEF Loads
      <4>4. LoadsOf(run[s].cells[row]) =
              UNION {LoadsOf(run[p.stage].cells[p.row]) : p \in parents}
        BY <4>1 DEF LoadsOf
      <4>. QED  BY <4>2, <4>3, <4>4
    <3>. QED  BY <3>5, <3>6
  <2>4. \A m \in 0..n : m \in G /\ m < n => m + 1 \in G
    <3>. SUFFICES ASSUME NEW m \in 0..n, m \in G, m < n  PROVE m + 1 \in G
      OBVIOUS
    <3>1. m \in Nat /\ m + 1 \in Stage /\ 1..(m + 1 - 1) = 1..m
      BY <2>1
    <3>2. \A t \in 1..m : Agrees(t)
      OBVIOUS
    <3>3. Agrees(m + 1)
      BY <2>3, <3>1, <3>2
    <3>4. \A t \in 1..(m + 1) : t \in 1..m \/ t = m + 1
      BY <3>1
    <3> HIDE DEF Agrees
    <3>. QED  BY <3>1, <3>2, <3>3, <3>4
  <2> HIDE DEF G, n
  <2>5. \A m \in 0..n : m \in G
    BY <2>1, <2>2, <2>4, HoldsAll
  <2>6. n \in G
    BY <2>1, <2>5
  <2>. QED  BY <2>1, <2>6 DEF G
<1>. QED  BY <1>1, LineageInvHolds, PTL
=============================================================================
