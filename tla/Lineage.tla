------------------------------ MODULE Lineage ------------------------------
(***************************************************************************)
(* What a run records of where each row came from, and what is read back   *)
(* off it: runtime/lineage.py, the handlers of runtime/stages/ that report *)
(* lineage, the row windows of runtime/executor.py, the walk of            *)
(* runtime/trace.py and the paths of branch_analysis/run_branches.py.      *)
(*                                                                         *)
(* A run executes its stages in order.  A table is a sequence of rows, and *)
(* a row is abstracted to the rows of the source files whose cells it      *)
(* carries: those travel with the data, through windows, merges and sorts, *)
(* while lineage is worked out from row ordinals, so that the one says     *)
(* whether the other is right.  What a predicate, a key or a list holds is *)
(* left open: every choice of rows is possible.  Ordinals count from 1.    *)
(***************************************************************************)
EXTENDS Integers, Sequences, FiniteSets, SequencesExt

CONSTANTS
  Sources,    \* what the files of a load hold, in order: the file and the row in it
  Windows,    \* the row windows a stage may be given
  MaxStages,  \* bound: stages of a run
  MaxRows     \* bound: rows of an output

NoCap == -1
Whole == [start |-> 0, cap |-> NoCap]

ASSUME LineageConstants ==
  /\ Sources \subseteq Seq(Nat \X Nat)
  /\ Windows \subseteq [start : Nat, cap : Nat \cup {NoCap}]
  /\ MaxStages \in Nat /\ MaxRows \in Nat

VARIABLE
  run  \* the stages executed: what each is, reads and put out, and its sidecar

Stage == DOMAIN run

\* A stage's record.  `recorded` says there is a sidecar; `lineage` is then its
\* parents, row by row.
Record(kind, inputs, cells, recorded, lineage) ==
  [kind |-> kind, inputs |-> inputs, cells |-> cells, recorded |-> recorded,
   lineage |-> lineage]

Parent(s, row, kind) == [stage |-> s, row |-> row, kind |-> kind, file |-> 0]

\* A load's parent is itself: the file, and the row in it.
FilePart(s, part) == [Parent(s, part[2], "direct") EXCEPT !.file = part[1]]

Init == run = <<>>

\* _take_row_window
Cut(table, window) ==
  LET rest == SubSeq(table, window.start + 1, Len(table)) IN
  IF window.cap # NoCap /\ Len(rest) > window.cap THEN SubSeq(rest, 1, window.cap) ELSE rest

-----------------------------------------------------------------------------
(***************************************************************************)
(* Plausible bugs.  No behaviour of the specification uses the operators   *)
(* of this section: each stands in for the definition its name begins      *)
(* with, to show that a property notices the difference.                   *)
(***************************************************************************)

\* The parents of a stage that read a window stay where the handler put them.
ShiftedNowhere(lineage, offset) == lineage

\* A summary's rows are not looked for among its contributors.
FanInByPosition(entry) == {p \in ToSet(entry) : p.kind = "direct"}

\* A gap in the lineage is read as rows that took no branch.
ReadableAnyway == TRUE

-----------------------------------------------------------------------------
(* lineage.py.                                                             *)

\* The window `window` of what stage s put out.
Read(s, window) == Cut(run[s].cells, window)

\* single_parent_lineage, kept_rows_lineage
SingleParent(s, rows) == [i \in DOMAIN rows |-> <<Parent(s, rows[i], "direct")>>]

\* RowLineage.shifted
Shifted(lineage, offset) ==
  [i \in DOMAIN lineage |->
     [k \in DOMAIN lineage[i] |-> [lineage[i][k] EXCEPT !.row = @ + offset]]]

\* concatenated_inputs_lineage, for one input.
InputOf(s, table, offset) ==
  SingleParent(s, [i \in DOMAIN table |-> i + offset])

\* merged_inputs_lineage: the reference is absent where nothing matched.
Merged(s, t, pairs) ==
  [i \in DOMAIN pairs |->
     <<Parent(s, pairs[i][1], "direct")>> \o
       (IF pairs[i][2] = 0 THEN <<>> ELSE <<Parent(t, pairs[i][2], "direct")>>)]

\* grouped_contributions_lineage
Grouped(s, groups) ==
  [i \in DOMAIN groups |->
     [k \in DOMAIN groups[i] |-> Parent(s, groups[i][k], "contribution")]]

-----------------------------------------------------------------------------
(* The stages.  Each reads what ran before it through a window of its own. *)

Room == Len(run) < MaxStages

Put(record) ==
  Len(record.cells) <= MaxRows /\ run' = Append(run, record)

\* read_input_data, _which_file_each_row_came_from and RowLineage.sliced: the
\* window cuts the rows a load originates, and its lineage with them.
Loaded(s, source, window) ==
  Record("load", <<>>,
         Cut([i \in DOMAIN source |-> {<<s, source[i][1], source[i][2]>>}], window), TRUE,
         Cut([i \in DOMAIN source |-> <<FilePart(s, source[i])>>], window))

Load ==
  Room /\ \E source \in Sources, window \in Windows : Put(Loaded(Len(run) + 1, source, window))

\* _sliced_input_lineage: rows that kept their places, of what a window cut.
Mapped(s, window) ==
  LET table == Read(s, window) IN
  Record("map", <<s>>, table, window # Whole,
         IF window = Whole THEN <<>> ELSE InputOf(s, table, window.start))

\* A stage that maps each row.
Map == Room /\ \E s \in Stage, window \in Windows : Put(Mapped(s, window))

\* The rows of a table that a stage may pick, one after another.
Picks(table) == BoundedSeq(DOMAIN table, MaxRows)

Increasing(rows) == \A i, j \in DOMAIN rows : i < j => rows[i] < rows[j]

\* The rows of `table` that `rows` names, each its own parent.
Picked(kind, s, table, rows) ==
  Record(kind, <<s>>, [i \in DOMAIN rows |-> table[rows[i]]], TRUE, SingleParent(s, rows))

\* The window's offset, put back into the parents of a handler's output.
Placed(record, window) ==
  [record EXCEPT !.lineage = Shifted(@, window.start)]

\* The row driver, for a stage that drops rows.
Filter ==
  Room /\ \E s \in Stage, window \in Windows :
    \E kept \in Picks(Read(s, window)) :
      /\ Increasing(kept)
      /\ Put(Placed(Picked("select", s, Read(s, window), kept), window))

\* handle_dedupe: a row of each key, in the order of the input.
Dedupe ==
  Room /\ \E s \in Stage, window \in Windows :
    \E kept \in Picks(Read(s, window)) :
      /\ Increasing(kept) /\ (kept = <<>> => Read(s, window) = <<>>)
      /\ Put(Placed(Picked("select", s, Read(s, window), kept), window))

\* handle_sort_rank
Sort ==
  Room /\ \E s \in Stage, window \in Windows :
    \E order \in Picks(Read(s, window)) :
      /\ IsInjective(order) /\ Len(order) = Len(Read(s, window))
      /\ Put(Placed(Picked("select", s, Read(s, window), order), window))

\* handle_explode: a row for each element of a row's list.
Explode ==
  Room /\ \E s \in Stage, window \in Windows :
    \E parents \in Picks(Read(s, window)) :
      /\ \A i, j \in DOMAIN parents : i < j => parents[i] <= parents[j]
      /\ Put(Placed(Picked("build", s, Read(s, window), parents), window))

\* handle_union and concatenated_inputs_lineage.
United(s, t, window) ==
  LET first == Read(s, window)
      second == Read(t, window) IN
  Record("union", <<s, t>>, first \o second, TRUE,
         InputOf(s, first, window.start) \o InputOf(t, second, window.start))

Union ==
  Room /\ \E s, t \in Stage, window \in Windows : s # t /\ Put(United(s, t, window))

\* What a left merge pairs: each row of the subject with every row of the reference
\* that it matches, in order, and once with none, 0, when there are none.
Pairings(subject, reference) ==
  {pairs \in BoundedSeq((DOMAIN subject) \X (0..Len(reference)), MaxRows) :
     /\ \A i \in DOMAIN subject : \E k \in DOMAIN pairs : pairs[k][1] = i
     /\ \A k, l \in DOMAIN pairs : k < l =>
          \/ pairs[k][1] < pairs[l][1]
          \/ pairs[k][1] = pairs[l][1] /\ 0 < pairs[k][2] /\ pairs[k][2] < pairs[l][2]}

\* _join_reference_into_subject
Joined(kind, s, t, subject, reference, pairs) ==
  Record(kind, <<s, t>>,
         [k \in DOMAIN pairs |-> subject[pairs[k][1]] \cup
            IF pairs[k][2] = 0 THEN {} ELSE reference[pairs[k][2]]],
         TRUE, Merged(s, t, pairs))

\* handle_enrich, which a repeated key refuses, and handle_expand.
Join(kind) ==
  Room /\ \E s, t \in Stage, window \in Windows :
    \E pairs \in Pairings(Read(s, window), Read(t, window)) :
      /\ s # t
      /\ kind = "enrich" => Len(pairs) = Len(Read(s, window))
      /\ Put(Placed(Joined(kind, s, t, Read(s, window), Read(t, window), pairs), window))

\* handle_aggregate: each group is of its own rows, and a reduction of the whole
\* frame may be of none.
Aggregated(s, table, groups) ==
  Record("aggregate", <<s>>,
         [i \in DOMAIN groups |-> UNION {table[row] : row \in ToSet(groups[i])}], TRUE,
         Grouped(s, groups))

Aggregate ==
  Room /\ \E s \in Stage, window \in Windows :
    \E groups \in BoundedSeq({rows \in Picks(Read(s, window)) : Increasing(rows)}, MaxRows) :
      /\ \A i, j \in DOMAIN groups : i # j => ToSet(groups[i]) \cap ToSet(groups[j]) = {}
      /\ Len(groups) # 1 => \A i \in DOMAIN groups : groups[i] # <<>>
      /\ Put(Placed(Aggregated(s, Read(s, window), groups), window))

\* A python_frame_function may do anything with the rows, and records nothing.
Reshaped(s, table, rows) ==
  Record("opaque", <<s>>, [i \in DOMAIN rows |-> table[rows[i]]], FALSE, <<>>)

Reshape ==
  Room /\ \E s \in Stage, window \in Windows :
    \E rows \in Picks(Read(s, window)) :
      IsInjective(rows) /\ Put(Reshaped(s, Read(s, window), rows))

Next ==
  \/ Load \/ Map \/ Filter \/ Dedupe \/ Sort \/ Explode \/ Union
  \/ Join("enrich") \/ Join("expand") \/ Aggregate \/ Reshape

Spec == Init /\ [][Next]_run

-----------------------------------------------------------------------------
(* trace.py: the walk from one row back to its source.                     *)

\* is_grain_and_order_preserving
KeepsPlaces(s) == run[s].kind \in {"load", "map", "enrich"}

\* RunFrames.lineage_hops
Hops(at) == IF run[at.stage].recorded THEN run[at.stage].lineage[at.row] ELSE <<>>

\* _split_spine: where the direct parents of a row stand; the walk follows the first.
Spines(entry) == {k \in DOMAIN entry : entry[k].kind = "direct"}

First(places) == CHOOSE k \in places : \A l \in places : k <= l

\* _find_fan_in: the rows summarized into this one.
FanIn(entry) == {p \in ToSet(entry) : p.kind = "contribution"}

\* The first in its order, by stage and row.
Lowest(rows) ==
  CHOOSE p \in rows : \A q \in rows :
    p.stage < q.stage \/ (p.stage = q.stage /\ p.row <= q.row)

Stop(at, end) == [at EXCEPT !.end = end]

\* _advance_via_lineage
Climb(at, parent) ==
  IF parent.row \in DOMAIN run[parent.stage].cells
  THEN [at EXCEPT !.stage = parent.stage, !.row = parent.row]
  ELSE Stop(at, "out of range")

\* _match_named_contributor
Named(fanIn, choice) == {p \in fanIn : <<p.stage, p.row>> = choice}

\* _sample_from_fan_in: the lowest of the fan-in, unless the reader named one.
Sample(at, fanIn) ==
  IF at.follow = <<>> \/ (\A p \in fanIn : p.stage # at.follow[1][1])
  THEN Climb(at, Lowest(fanIn))
  ELSE IF Named(fanIn, at.follow[1]) = {} THEN Stop(at, "refused")
  ELSE Climb([at EXCEPT !.follow = <<>>], Lowest(Named(fanIn, at.follow[1])))

\* _advance_positionally
SamePlace(at, s) ==
  IF Len(run[s].cells) = Len(run[at.stage].cells) THEN [at EXCEPT !.stage = s]
  ELSE Stop(at, "moved")

\* _advance
Advance(at) ==
  LET entry == Hops(at)
      record == run[at.stage] IN
  IF record.kind = "load" THEN Stop(at, "origin")
  ELSE IF Spines(entry) # {} THEN Climb(at, entry[First(Spines(entry))])
  ELSE IF FanIn(entry) # {} THEN Sample(at, FanIn(entry))
  ELSE IF record.recorded THEN Stop(at, "summarizes nothing")
  ELSE IF ~KeepsPlaces(at.stage) \/ Len(record.inputs) # 1 THEN Stop(at, "not recorded")
  ELSE SamePlace(at, record.inputs[1])

\* A turn of the loop of trace_row_from; a walk that has ended stays where it is.
NextHop(walk) ==
  LET at == Last(walk) IN Append(walk, IF at.end = "none" THEN Advance(at) ELSE at)

\* trace_row_from: where the walk is, hop by hop.
Walk(s, row, follow) ==
  LET upTo[n \in 0..Len(run)] ==
        IF n = 0 THEN << [stage |-> s, row |-> row, follow |-> follow, end |-> "none"] >>
        ELSE NextHop(upTo[n - 1]) IN
  upTo[Len(run)]

\* _match_named_contributor and _refuse_a_choice_the_walk_never_met: the row asked for
\* is none of its fan-in, or the walk met no fan-in over its stage.
Refused(walk) == Last(walk).end = "refused" \/ Last(walk).follow # <<>>

-----------------------------------------------------------------------------
(* run_branches.py: the branches each row took, read off the lineage.      *)

\* The parents a row inherits its branches from; a load's are rows of a file.
ParentsOf(s, row) ==
  IF run[s].kind = "load" THEN <<>>
  ELSE IF run[s].recorded THEN run[s].lineage[row]
  ELSE IF KeepsPlaces(s) THEN <<Parent(run[s].inputs[1], row, "direct")>>
  ELSE <<>>

\* _find_rows_reaching_each_input
Reaches(s, row, t) == \E k \in DOMAIN run[s].lineage[row] : run[s].lineage[row][k].stage = t

\* _every_row_reaches_one_input
ReachesOne(s) ==
  \A row \in DOMAIN run[s].cells :
    Cardinality({t \in ToSet(run[s].inputs) : Reaches(s, row, t)}) = 1

Branch(s, what, of) == <<s, what, of>>

\* _read_which_input and _read_join_misses
ReadInputs(s, row) ==
  LET reach(t) == {i \in DOMAIN run[s].cells : Reaches(s, i, t)}
      split == {t \in ToSet(run[s].inputs) : reach(t) \notin {{}, DOMAIN run[s].cells}} IN
  IF Len(run[s].inputs) > 1 /\ ReachesOne(s)
  THEN {Branch(s, "from", t) : t \in {u \in ToSet(run[s].inputs) : Reaches(s, row, u)}}
  ELSE {Branch(s, IF row \in reach(t) THEN "matched" ELSE "missed", t) : t \in split}

\* _read_removals
ReadRemovals(s, row) ==
  LET reached(t) == {i \in DOMAIN run[t].cells :
        \E o \in DOMAIN run[s].lineage : \E k \in DOMAIN run[s].lineage[o] :
          run[s].lineage[o][k].stage = t /\ run[s].lineage[o][k].row = i} IN
  IF \E t \in ToSet(run[s].inputs) :
       /\ \A o \in DOMAIN run[s].cells : Reaches(s, o, t)
       /\ Cardinality(reached(t)) < Len(run[t].cells)
  THEN {Branch(s, "kept", 0)} ELSE {}

\* _read_branching_from_lineage
ReadBranches(s, row) ==
  IF run[s].kind = "load" THEN {Branch(s, "loaded", 0)}
  ELSE IF run[s].recorded THEN ReadInputs(s, row) \cup ReadRemovals(s, row)
  ELSE {}

\* enumerate_merges
Merges(s, row) ==
  UNION {{Branch(t, "merged", o) : o \in
    {i \in DOMAIN run[t].lineage :
       Parent(s, row, "contribution") \in ToSet(run[t].lineage[i])}} : t \in Stage}

\* build_branch_path_per_row
PathsOf(s, above) ==
  [row \in DOMAIN run[s].cells |->
     (UNION {above[p.stage][p.row] : p \in ToSet(ParentsOf(s, row))})
       \cup ReadBranches(s, row) \cup Merges(s, row)]

NextPaths(above) == Append(above, PathsOf(Len(above) + 1, above))

\* Stage by stage, in the order they ran.
Paths ==
  LET upTo[n \in 0..Len(run)] == IF n = 0 THEN <<>> ELSE NextPaths(upTo[n - 1]) IN
  upTo[Len(run)]

\* _refuse_a_gap_in_the_lineage
Readable == \A s \in Stage : run[s].recorded \/ KeepsPlaces(s)

-----------------------------------------------------------------------------
(* Properties.                                                             *)

Row == [stage : 1..MaxStages, row : Nat, kind : {"direct", "contribution"}, file : Nat]

Kinds ==
  {"load", "map", "select", "build", "union", "enrich", "expand", "aggregate", "opaque"}

StageRecord ==
  [kind : Kinds, inputs : Seq(Nat), cells : Seq(SUBSET (Nat \X Nat \X Nat)),
   recorded : BOOLEAN, lineage : Seq(Seq(Row))]

\* A stage reads stages before it, and a sidecar has an entry for each row put out.
TypeOK ==
  /\ run \in Seq(StageRecord)
  /\ Len(run) <= MaxStages
  /\ \A s \in Stage :
       /\ \A k \in DOMAIN run[s].inputs : run[s].inputs[k] \in 1..(s - 1)
       /\ run[s].recorded => Len(run[s].lineage) = Len(run[s].cells)

(* Each row carries the cells of the rows its stage's lineage names, each of *)
(* them a row an earlier stage put out, and of no others; without a sidecar  *)
(* those of the row in its place; and a load's row those of the row of the   *)
(* file it is said to be.  Windows, merges and sorts move the rows and the   *)
(* lineage by different code (_stage_row_lineage and the handlers).         *)
ParentsCarryTheCells ==
  \A s \in Stage : run[s].kind # "opaque" => \A row \in DOMAIN run[s].cells :
    IF run[s].kind = "load"
    THEN \E p \in ToSet(run[s].lineage[row]) : run[s].cells[row] = {<<s, p.file, p.row>>}
    ELSE LET parents == ToSet(ParentsOf(s, row)) IN
         /\ \A p \in parents : p.stage \in 1..(s - 1) /\ p.row \in DOMAIN run[p.stage].cells
         /\ run[s].cells[row] = UNION {run[p.stage].cells[p.row] : p \in parents}

\* A stage's records and those of the stages before it never change, so that what
\* is read off them alone is settled when the stage is the newest.
Newest == Stage \cap {Len(run)}

(* Every walk ends, at a load unless a stage recorded nothing or the row      *)
(* summarizes none; on its way it meets only rows whose cells the row it      *)
(* started from carries; and where the reader chose a row of a fan-in, it    *)
(* goes through that row or refuses (trace_row_from).                        *)
TraceTellsTheTruth ==
  \A s \in Newest : \A row \in DOMAIN run[s].cells :
  \A follow \in {<<>>} \cup UNION {{<< <<t, i>> >> : i \in DOMAIN run[t].cells} : t \in Stage} :
    LET walk == Walk(s, row, follow)
        last == Last(walk) IN
    /\ last.end \in {"origin", "summarizes nothing", "not recorded", "refused"}
    /\ last.end = "summarizes nothing" => run[last.stage].cells[last.row] = {}
    /\ last.end = "not recorded" => run[last.stage].kind = "opaque"
    /\ \A k \in DOMAIN walk :
         run[walk[k].stage].cells[walk[k].row] \subseteq run[s].cells[row]
    /\ follow # <<>> /\ ~Refused(walk) =>
         \E k \in DOMAIN walk : follow[1] = <<walk[k].stage, walk[k].row>>

(* When the run can be read, a row's path holds the load of every file its   *)
(* cells come from and of no other: branches are inherited over every parent, *)
(* a lookup's too, and none is inherited by a row that merely stands in the  *)
(* same place (build_branch_path_per_row; "A row carries an input's `load`   *)
(* branch exactly when its ancestry reaches that input",                     *)
(* docs/branch-analysis.md).                                                 *)
PathHoldsItsLoads ==
  Readable =>
    LET paths == Paths IN
    \A s \in Stage : \A row \in DOMAIN run[s].cells :
      {b[1] : b \in {c \in paths[s][row] : c[2] = "loaded"}} =
        {cell[1] : cell \in run[s].cells[row]}
=============================================================================
