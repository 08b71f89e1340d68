--------------------------- MODULE StageContracts ---------------------------
(***************************************************************************)
(* What a stage of a workflow is accepted for, and what it then does: the  *)
(* validators of models/stages/ beside the handlers of runtime/stages/,    *)
(* the two halves of one contract, written apart.  A schema gives columns  *)
(* their types; a table gives columns cells, of which only the type and    *)
(* the columns they were taken from are told apart.  A handler yields the  *)
(* set of tables it may put out, none when it raises.  A table holds the   *)
(* columns its schema declares and may hold others: nothing trims them but *)
(* the stages that call a model.                                           *)
(***************************************************************************)
EXTENDS Naturals, Sequences, FiniteSets, Functions

CONSTANTS
  Column,       \* the names a column may have
  FewColumns,   \* some of them, where every signature is tried
  Suffixed      \* the name pandas gives a right-hand column it has to rename

ASSUME ContractConstants ==
  /\ FewColumns \subseteq Column
  /\ Column \subseteq DOMAIN Suffixed /\ "no column" \notin Column

Scalar    == {"int", "str"}
ListOf    == [int |-> "ints", str |-> "strs"]
ElementOf == [ints |-> "int", strs |-> "str"]
Listed    == DOMAIN ElementOf
NoColumn  == "no column"
Nothing   == [c \in {} |-> ""]

\* One column, and columns laid over others.
Single(column, what) == [c \in {column} |-> what]
Over(upper, lower) ==
  [c \in DOMAIN upper \cup DOMAIN lower |-> IF c \in DOMAIN upper THEN upper[c] ELSE lower[c]]

SchemasOver(columns, types) == UNION {[S -> types] : S \in SUBSET columns}
Schemas(types) == SchemasOver(Column, types)

\* TableSchema.find_unsatisfied_columns: what is read is there, as it is said to be.
Satisfies(required, producer) ==
  \A c \in DOMAIN required : c \in DOMAIN producer /\ producer[c] = required[c]

\* TableSchema.extend, which promised_output_schema takes to the anchor's schema.
Extend(schema, rewrites, adds) ==
  Over(adds, Over(Restrict(rewrites, DOMAIN rewrites \cap DOMAIN schema), schema))

Cell(type, of) == [type |-> type, of |-> of]

\* The table the n-th input hands on: its schema's columns and others.
Arriving(n, schema, extras) ==
  [c \in DOMAIN schema \cup DOMAIN extras |-> Cell(Over(schema, extras)[c], {<<n, c>>})]
Extras(schema) == {extras \in Schemas(Scalar) : DOMAIN extras \cap DOMAIN schema = {}}

\* validate_table: each declared column is there and of its type.
PassesOutput(table, schema) ==
  \A c \in DOMAIN schema : c \in DOMAIN table /\ table[c].type = schema[c]

\* The handler puts out a table, and what it puts out is what the schema
\* promises, each column taken from where the signature says.
RunsAsPromised(outputs, schema, origins) ==
  /\ outputs # {}
  /\ \A table \in outputs :
       /\ PassesOutput(table, schema)
       /\ \A c \in DOMAIN schema : table[c].of = origins[c]

-----------------------------------------------------------------------------
(* Plausible bug: a join accepted whatever its signature says a landed       *)
(* column is.                                                              *)

TrustTheAdds(st, adds) == DOMAIN adds = Range(st.lands)

-----------------------------------------------------------------------------
(* Row functions: authored code answers a row with a row.                  *)

RowStages ==
  [schema : SchemasOver(FewColumns, Scalar), reads : SchemasOver(FewColumns, Scalar),
   rewrites : SchemasOver(FewColumns, Scalar), adds : SchemasOver(FewColumns, Scalar)]

Written(st) == Over(st.adds, st.rewrites)

AcceptsRowStage(st) ==
  /\ Satisfies(st.reads, st.schema)
  /\ DOMAIN st.adds \cap DOMAIN st.rewrites = {}
  /\ DOMAIN st.rewrites \subseteq DOMAIN st.reads
  /\ DOMAIN st.adds \cap DOMAIN st.schema = {}

\* An answer that lacks a written column, or has it of another type, is a row
\* that failed (find_row_issues); nothing is said of its other keys.
Answers(st) == {answer \in SchemasOver(FewColumns, Scalar) : Satisfies(Written(st), answer)}

\* The input row with the answer's keys laid over it.
RunRowStage(input, answer) ==
  {Over([c \in DOMAIN answer |-> Cell(answer[c], {})], input)}

\* A key the signature does not write replaces a column that flows through.
Overreaches(st, answer) ==
  (DOMAIN answer \ DOMAIN Written(st)) \cap DOMAIN st.schema # {}

RowStagesFit ==
  \A st \in RowStages : AcceptsRowStage(st) =>
    \A answer \in Answers(st) :
      LET promised == Extend(st.schema, st.rewrites, st.adds) IN
        RunsAsPromised(
          RunRowStage(Arriving(1, st.schema, Nothing), answer), promised,
          [c \in DOMAIN promised |-> IF c \in DOMAIN Written(st) THEN {} ELSE {<<1, c>>}])
        <=> ~Overreaches(st, answer)

-----------------------------------------------------------------------------
(* Joins: enrich and expand, which differ in how often a key may repeat.   *)

Landings == {lands \in SchemasOver(Column, Column) : Cardinality(DOMAIN lands) \in 1..2}

JoinStages ==
  [subject : Schemas(Scalar), reference : Schemas(Scalar), left : Column, right : Column,
   lands : Landings]

\* A key and a source are of their input; what lands is new to the subject and
\* takes no key's place.
KeysResolve(st) == st.left \in DOMAIN st.subject /\ st.right \in DOMAIN st.reference
LandsAside(st) ==
  /\ IsInjective(st.lands)
  /\ DOMAIN st.lands \subseteq DOMAIN st.reference
  /\ Range(st.lands) \cap DOMAIN st.subject = {}
  /\ \A source \in DOMAIN st.lands : st.lands[source] = st.right => source = st.right

\* The signature adds what the config lands, as the reference has it.
AddsWhatLands(st, adds) ==
  /\ DOMAIN adds = Range(st.lands)
  /\ \A source \in DOMAIN st.lands : adds[st.lands[source]] = st.reference[source]

\* The reference's columns that cross into the merge: its key, and what lands,
\* over the key should it land there.
Crossing(st, reference) ==
  Over([c \in Range(st.lands) |->
          reference[CHOOSE source \in DOMAIN st.lands : st.lands[source] = c]],
       Single(st.right, reference[st.right]))

\* A pandas merge: keys of two types do not compare; a right-hand column of a
\* name the subject has is suffixed, unless it is the key on both sides; names
\* that then occur twice are refused, by the merge or on the way to arrow.
\* What lands is taken from its column by the keys that match.
RunJoin(st, subject, reference) ==
  LET crossing == Crossing(st, reference)
      matched  == subject[st.left].of \cup crossing[st.right].of
      clashes  == (DOMAIN crossing \cap DOMAIN subject) \
                    (IF st.left = st.right THEN {st.left} ELSE {})
      renamed  == {Suffixed[c] : c \in clashes}
  IN IF /\ subject[st.left].type = crossing[st.right].type
        /\ renamed \cap (DOMAIN subject \cup DOMAIN crossing) = {}
        /\ Range(st.lands) \cap DOMAIN subject = {}
     THEN {Over([c \in Range(st.lands) |->
                   Cell(crossing[c].type, crossing[c].of \cup matched)], subject)}
     ELSE {}

\* What the validators do not ask of a join.
JoinLetThrough(st, extras) ==
  LET there == DOMAIN st.subject \cup DOMAIN extras IN
    \/ st.subject[st.left] # st.reference[st.right]
    \/ Range(st.lands) \cap DOMAIN extras # {}
    \/ /\ st.right # st.left /\ st.right \in there
       /\ Suffixed[st.right] \in there \cup Range(st.lands)

\* A column of the subject is the subject's; one that lands is of its source, by
\* the keys that match.
JoinOrigins(st, adds) ==
  [c \in DOMAIN st.subject \cup DOMAIN adds |->
     IF c \in DOMAIN st.subject THEN {<<1, c>>}
     ELSE {<<1, st.left>>, <<2, st.right>>} \cup
          {<<2, source>> : source \in {s \in DOMAIN st.lands : st.lands[s] = c}}]

JoinsFit ==
  \A st \in JoinStages : KeysResolve(st) /\ LandsAside(st) =>
    \A adds \in SchemasOver(Range(st.lands), Scalar) : AddsWhatLands(st, adds) =>
      \A extras \in Extras(st.subject) :
        RunsAsPromised(
          RunJoin(st, Arriving(1, st.subject, extras), Arriving(2, st.reference, Nothing)),
          Extend(st.subject, Nothing, adds), JoinOrigins(st, adds))
        <=> ~JoinLetThrough(st, extras)

-----------------------------------------------------------------------------
(* Unions.                                                                 *)

UnionStages == [first : Schemas(Scalar), second : Schemas(Scalar), writes : Schemas({"int"})]

AcceptsUnion(st) == st.first = st.second /\ st.writes = Nothing

\* concat_tables: the same names, of types that can be one.
RunUnion(first, second) ==
  IF DOMAIN first = DOMAIN second /\ \A c \in DOMAIN first : first[c].type = second[c].type
  THEN {[c \in DOMAIN first |-> Cell(first[c].type, first[c].of \cup second[c].of)]}
  ELSE {}

UnionsFit ==
  \A st \in UnionStages : AcceptsUnion(st) =>
    \A firsts, seconds \in Extras(st.first) :
      RunsAsPromised(
        RunUnion(Arriving(1, st.first, firsts), Arriving(2, st.second, seconds)),
        Extend(st.first, Nothing, st.writes),
        [c \in DOMAIN st.first |-> {<<1, c>>, <<2, c>>}])
      <=> firsts = seconds

-----------------------------------------------------------------------------
(* Explode: a list column into a row per element, the rest copied.         *)

Types == {"int", "str", "ints"}

ExplodeStages ==
  [schema : SchemasOver(FewColumns, Types), column : FewColumns,
   rewrites : SchemasOver(FewColumns, Types), adds : SchemasOver(FewColumns, Scalar)]

AcceptsExplode(st) ==
  /\ st.adds = Nothing
  /\ st.column \in DOMAIN st.schema /\ st.schema[st.column] \in Listed
  /\ st.rewrites = Single(st.column, ElementOf[st.schema[st.column]])

RunExplode(column, input) ==
  {[input EXCEPT ![column] = Cell(ElementOf[@.type], @.of)]}

ExplodesFit ==
  \A st \in ExplodeStages : AcceptsExplode(st) =>
    \A extras \in Extras(st.schema) :
      RunsAsPromised(
        RunExplode(st.column, Arriving(1, st.schema, extras)),
        Extend(st.schema, st.rewrites, st.adds), [c \in DOMAIN st.schema |-> {<<1, c>>}])

-----------------------------------------------------------------------------
(* Sort and rank.                                                          *)

SortStages ==
  [schema : Schemas(Types), keys : SUBSET FewColumns \ {{}}, rank : Column \cup {NoColumn},
   adds : SchemasOver(FewColumns, Scalar), rewrites : SchemasOver(FewColumns, {"int"})]

AcceptsSort(st) ==
  /\ st.keys \subseteq DOMAIN st.schema
  /\ st.rank \notin DOMAIN st.schema
  /\ st.rewrites = Nothing
  /\ st.adds = IF st.rank = NoColumn THEN Nothing ELSE Single(st.rank, "int")

\* Arrow orders no lists, and puts out no table of two columns of a name.
RunSort(st, input) ==
  IF (\A key \in st.keys : input[key].type \notin Listed) /\ st.rank \notin DOMAIN input
  THEN {IF st.rank = NoColumn THEN input ELSE Over(Single(st.rank, Cell("int", {})), input)}
  ELSE {}

SortLetThrough(st, extras) ==
  st.rank \in DOMAIN extras \/ \E key \in st.keys : st.schema[key] \in Listed

SortsFit ==
  \A st \in SortStages : AcceptsSort(st) =>
    \A extras \in Extras(st.schema) :
      LET promised == Extend(st.schema, Nothing, st.adds) IN
        RunsAsPromised(
          RunSort(st, Arriving(1, st.schema, extras)), promised,
          [c \in DOMAIN promised |-> IF c = st.rank THEN {} ELSE {<<1, c>>}])
        <=> ~SortLetThrough(st, extras)

-----------------------------------------------------------------------------
(* Dedupe: some of the rows, unchanged.                                    *)

DedupeStages ==
  [schema : SchemasOver(FewColumns, Types), keys : SUBSET FewColumns \ {{}},
   keep : {"agree", "first", "highest", "lowest"}, by : FewColumns \cup {NoColumn},
   writes : SchemasOver(FewColumns, {"int"})]

Ranks(st) == st.keep \in {"highest", "lowest"}

AcceptsDedupe(st) ==
  /\ Ranks(st) <=> st.by # NoColumn
  /\ st.keys \cup ({st.by} \ {NoColumn}) \subseteq DOMAIN st.schema
  /\ st.writes = Nothing

\* Rows are grouped by a dict of their keys, which no list can be one of, and
\* ranked by arrow, which orders none.
RunDedupe(st, input) ==
  {table \in {input} : /\ \A key \in st.keys : table[key].type \notin Listed
                       /\ Ranks(st) => table[st.by].type \notin Listed}

DedupesFit ==
  \A st \in DedupeStages : AcceptsDedupe(st) =>
    \A extras \in Extras(st.schema) :
      RunsAsPromised(
        RunDedupe(st, Arriving(1, st.schema, extras)), st.schema,
        [c \in DOMAIN st.schema |-> {<<1, c>>}])
      <=> \A c \in st.keys \cup ({st.by} \ {NoColumn}) : st.schema[c] \notin Listed

-----------------------------------------------------------------------------
(* Aggregate: a row per group, or one of the whole frame, over scalars; of *)
(* keys alone, without an aggregation, no row.  Only columns are modelled. *)

Aggregations ==
  [out : Column, formula : {"count"}, value : {NoColumn}] \cup
  [out : Column, formula : {"mean", "sum", "only", "list"}, value : FewColumns]

AggregateStages ==
  [schema : SchemasOver(FewColumns, Scalar), group_by : SUBSET FewColumns,
   ops : UNION {[1..n -> Aggregations] : n \in 0..2}]

AcceptsAggregate(st) ==
  /\ st.group_by \subseteq DOMAIN st.schema
  /\ \A op \in Range(st.ops) : op.formula = "count" \/ op.value \in DOMAIN st.schema
  /\ st.group_by # {} \/ st.ops # <<>>

TypeOf(op, schema) ==
  CASE op.formula = "count"           -> "int"
    [] op.formula = "mean"            -> "float"
    [] op.formula \in {"sum", "only"} -> schema[op.value]
    [] op.formula = "list"            -> ListOf[schema[op.value]]

Outs(ops) == {op.out : op \in Range(ops)}

\* The last operation of a name, as a dict assigned in order keeps it.
LastOf(out, ops) == ops[CHOOSE n \in DOMAIN ops :
                          ops[n].out = out /\ \A m \in DOMAIN ops : ops[m].out = out => m <= n]

\* compute_aggregate_output_types, which produces has to equal.
Computed(st) ==
  Over([out \in Outs(st.ops) |-> TypeOf(LastOf(out, st.ops), st.schema)],
       Restrict(st.schema, st.group_by))

Twice(ops) == {out \in Outs(ops) : \E m, n \in DOMAIN ops : m # n /\ ops[m].out = out /\ ops[n].out = out}
MeanOfText(st) == \E op \in Range(st.ops) : op.formula = "mean" /\ st.schema[op.value] = "str"

Result(op, input) ==
  CASE op.formula = "count"           -> "int"
    [] op.formula = "mean"            -> "float"
    [] op.formula \in {"sum", "only"} -> input[op.value].type
    [] op.formula = "list"            -> ListOf[input[op.value].type]

\* By group, each operation is a frame of its own: its value cannot take a
\* key's name, and the merge of two of one name renames both.
RunAggregate(st, input) ==
  LET value(op) == Cell(Result(op, input), {<<op.formula, op.value>>})
      group(c)  == Cell(input[c].type, {<<"keyed", c>>})
      named     == IF st.group_by = {} THEN Outs(st.ops) ELSE Outs(st.ops) \ Twice(st.ops)
  IN IF MeanOfText(st) \/ Outs(st.ops) \cap st.group_by # {} THEN {}
     ELSE {Over([out \in named |-> value(LastOf(out, st.ops))], [c \in st.group_by |-> group(c)])}

\* What an output column is meant to hold: the value of each operation of its name.
Meant(out, st) ==
  {<<op.formula, op.value>> : op \in {o \in Range(st.ops) : o.out = out}}
    \cup {<<"keyed", c>> : c \in st.group_by \cap {out}}

AggregateLetThrough(st) ==
  \/ MeanOfText(st)
  \/ Outs(st.ops) \cap st.group_by # {}
  \/ Twice(st.ops) # {} /\ (st.group_by # {} \/ Cardinality(Range(st.ops)) > 1)

AggregatesFit ==
  \A st \in AggregateStages : AcceptsAggregate(st) =>
    RunsAsPromised(
      RunAggregate(st, Arriving(1, st.schema, Nothing)), Computed(st),
      [c \in DOMAIN Computed(st) |-> Meant(c, st)])
    <=> ~AggregateLetThrough(st)

-----------------------------------------------------------------------------
AcceptedStagesFit ==
  /\ RowStagesFit
  /\ JoinsFit
  /\ UnionsFit
  /\ ExplodesFit
  /\ SortsFit
  /\ DedupesFit
  /\ AggregatesFit
=============================================================================
