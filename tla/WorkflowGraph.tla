---------------------------- MODULE WorkflowGraph ----------------------------
(***************************************************************************)
(* The graph a workflow is: the checks of models/workflow.py, the orders   *)
(* and closures computed from it, and the kind of row each stage is read   *)
(* to put out.  Every list of stages over a few ids is tried, those that   *)
(* name an id twice, read an id nobody has or run in circles among them.   *)
(***************************************************************************)
EXTENDS Naturals, Sequences, FiniteSets, FiniteSetsExt, Functions

CONSTANT Ids   \* the ids a stage may have or read

ASSUME GraphConstants == IsFiniteSet(Ids)

GraphStages == [id : Ids, inputs : SUBSET Ids]
StageLists == UNION {[1..n -> GraphStages] : n \in 0..Cardinality(Ids)}

IdsOf(stages) == {stage.id : stage \in Range(stages)}

\* Of two stages of one id a dict keeps the second.
InputsOf(stages) ==
  [id \in IdsOf(stages) |-> stages[Max({n \in DOMAIN stages : stages[n].id = id})].inputs]

-----------------------------------------------------------------------------
(* The checks of graph_issues that look at the graph alone.                *)

UniqueIds(stages) == Cardinality(IdsOf(stages)) = Len(stages)

InputsResolve(stages) == \A stage \in Range(stages) : stage.inputs \subseteq IdsOf(stages)

\* The stages that are reports write files and put out no table.
ReportIsTerminal(stages, reports) ==
  \A stage \in Range(stages) : stage.inputs \cap reports = {}

\* Plausible bug: a stage two others read taken for a cycle.
StartsACycleWhenSeen(color) == color # "white"

\* The depth-first walk takes a stage it has entered and not yet left for the
\* start of a cycle.
StartsACycle(color) == color = "grey"

RECURSIVE Visit(_, _, _)
Visit(node, edges, walk) ==
  LET step(next, w) ==
        CASE w.found                       -> w
          [] StartsACycle(w.color[next])   -> [w EXCEPT !.found = TRUE]
          [] w.color[next] = "white"       -> Visit(next, edges, w)
          [] OTHER                         -> w
      after == FoldSet(step, [walk EXCEPT !.color[node] = "grey"],
                       edges[node] \cap DOMAIN edges)
  IN IF after.found THEN after ELSE [after EXCEPT !.color[node] = "black"]

FindsCycle(stages) ==
  LET edges == InputsOf(stages)
      enter(node, w) == IF w.found \/ w.color[node] # "white" THEN w ELSE Visit(node, edges, w)
  IN FoldSet(enter, [color |-> [id \in DOMAIN edges |-> "white"], found |-> FALSE],
             DOMAIN edges).found

Accepts(stages, reports) ==
  /\ UniqueIds(stages)
  /\ ~FindsCycle(stages)
  /\ InputsResolve(stages)
  /\ ReportIsTerminal(stages, reports)

-----------------------------------------------------------------------------
(* What is computed from a graph.                                          *)

\* Round by round, the stages that wait for none of the rest; what was ordered
\* when no stage is ready, where the code raises.
RECURSIVE SortByDependency(_)
SortByDependency(pending) ==
  LET ready == SelectSeq(pending, LAMBDA stage : stage.inputs \cap IdsOf(pending) = {})
      rest  == SelectSeq(pending, LAMBDA stage : stage.id \notin IdsOf(ready))
  IN IF ready = <<>> THEN <<>> ELSE ready \o SortByDependency(rest)

\* The walk upstream from a set of stages, an id popped at a time.
RECURSIVE Reach(_, _, _)
Reach(edges, reached, pending) ==
  IF pending = {} THEN reached
  ELSE LET current == CHOOSE id \in pending : TRUE IN
       IF current \in reached THEN Reach(edges, reached, pending \ {current})
       ELSE Reach(edges, reached \cup {current}, (pending \ {current}) \cup edges[current])

UpstreamOf(stages, id) == Reach(InputsOf(stages), {}, InputsOf(stages)[id])

ReachingReport(stages, reports) ==
  Reach(InputsOf(stages), {}, UNION {InputsOf(stages)[report] : report \in reports})

-----------------------------------------------------------------------------
(* The kind of thing a stage's rows are.  A stage that makes its rows has a *)
(* kind of its own or does not say; another's rows are those of its first  *)
(* input, a union's those of all of them.                                  *)

Inherits == "inherits"
Unsaid   == "unsaid"
Kinds    == {"company", "filing"}

RowGraphs ==
  LET n == Cardinality(Ids) + 1 IN
    [rows : {rows \in [1..n -> SUBSET (1..n)] : \A k \in 1..n : rows[k] \subseteq 1..(k - 1)},
     own  : [1..n -> Kinds \cup {Unsaid, Inherits}]]

Said(kinds) == kinds \ {Unsaid}
TheOne(kinds) == IF Cardinality(kinds) = 1 THEN CHOOSE kind \in kinds : TRUE ELSE Unsaid

RowKinds(graph) ==
  LET kind[k \in DOMAIN graph.own] ==
        IF graph.own[k] # Inherits THEN graph.own[k]
        ELSE TheOne(Said({kind[input] : input \in graph.rows[k]}))
  IN kind

\* The stages whose inputs are of two kinds.
Disagreements(graph) ==
  LET kind == RowKinds(graph) IN
    {k \in DOMAIN kind : Cardinality(Said({kind[input] : input \in graph.rows[k]})) > 1}

-----------------------------------------------------------------------------
(* The same, said without an algorithm.                                    *)

\* Stages that each read one of the others run in a circle.
RunsInCircles(stages) ==
  \E circle \in SUBSET IdsOf(stages) \ {{}} :
    \A id \in circle : InputsOf(stages)[id] \cap circle # {}

\* The ids in every set that holds what was asked for and what its members read.
Ancestors(edges, of) ==
  {id \in DOMAIN edges :
     \A S \in SUBSET DOMAIN edges : of \subseteq S /\ (\A s \in S : edges[s] \subseteq S) => id \in S}

\* The stages whose rows a stage's rows are, and what those say they are.
Makers(graph) ==
  LET makers[k \in DOMAIN graph.own] ==
        IF graph.own[k] # Inherits THEN {k} ELSE UNION {makers[input] : input \in graph.rows[k]}
  IN makers

KindsMade(graph, stages) ==
  Said({graph.own[maker] : maker \in UNION {Makers(graph)[k] : k \in stages}})

\* Resolution takes the stages in their order and raises where an input has no
\* output yet, or never has one.
ResolvesInOrder(order, reports) ==
  \A n \in DOMAIN order : order[n].inputs \subseteq {order[m].id : m \in 1..(n - 1)} \ reports

GraphsResolve ==
  \A stages \in StageLists :
    /\ FindsCycle(stages) <=> RunsInCircles(stages)
    /\ UniqueIds(stages) => (Len(SortByDependency(stages)) < Len(stages) <=> RunsInCircles(stages))
    /\ \A reports \in SUBSET IdsOf(stages) : Accepts(stages, reports) =>
         LET edges == InputsOf(stages)
             order == SortByDependency(stages)
         IN /\ Range(order) = Range(stages)
            /\ ResolvesInOrder(order, reports)
            /\ \A id \in DOMAIN edges :
                 UpstreamOf(stages, id) = Ancestors(edges, edges[id]) \ {id}
            /\ ReachingReport(stages, reports) =
                 Ancestors(edges, UNION {edges[report] : report \in reports}) \ reports

RowKindsResolve ==
  \A graph \in RowGraphs :
    /\ Disagreements(graph) = {} <=>
         \A k \in DOMAIN graph.own : Cardinality(KindsMade(graph, graph.rows[k])) <= 1
    /\ Disagreements(graph) = {} =>
         \A k \in DOMAIN graph.own : RowKinds(graph)[k] = TheOne(KindsMade(graph, {k}))

AcceptedWorkflowsResolve == GraphsResolve /\ RowKindsResolve
=============================================================================
