--------------------------- MODULE SavedWorkflows ---------------------------
(* What a saved workflow promises whoever runs it: of each of its stages,  *)
(* and of its graph, which went through the checks of WorkflowGraph.        *)
EXTENDS SavedStages, WorkflowGraph

(* Any graph a saved version may have is one graph_issues accepts: just     *)
(* those where no stages run in a circle, which then have an order in which *)
(* each stage's inputs are resolved before it; what is found upstream of a  *)
(* stage, or of a report, is what that reads, at any remove; and a stage's *)
(* rows are of the one kind that the stages they came from say.            *)
SavedGraphsResolve == versions # <<>> => AcceptedWorkflowsResolve
=============================================================================
