---------------------------- MODULE SavedStages ----------------------------
(* What a saved workflow promises of each of its stages: its drafts went    *)
(* through Authoring, its stages through the checks of StageContracts.      *)
EXTENDS Authoring, StageContracts

(* Any stage a saved version may hold is one its validators accept, and     *)
(* such a stage puts out the columns its signature promises, of the types  *)
(* promised and taken from where it says, whatever else its inputs carry;  *)
(* and does not, just where the validators let through what the handler    *)
(* cannot do: an answer's undeclared key over a column that flows through, *)
(* a join on keys of two types or onto names already taken, a union of     *)
(* inputs carrying different undeclared columns, a rank or a key nothing   *)
(* can order, two aggregations of one name, one of a key's name, a mean of *)
(* text (the find_*_issues of models/stages beside their handlers).        *)
SavedStagesRunAsPromised == versions # <<>> => AcceptedStagesFit
=============================================================================
