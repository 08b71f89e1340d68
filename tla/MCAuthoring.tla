---------------------------- MODULE MCAuthoring ----------------------------
(* Instances of Authoring: two stages of which the second reads the first, *)
(* one agent, one thread of hand edits.  And what the stages and the graph *)
(* of a saved workflow are accepted for, over a few columns and a few ids. *)
EXTENDS SavedWorkflows

CONSTANTS s1, s2

StageDef == {s1, s2}
SortedDef == <<s1, s2>>
InputsDef == (s1 :> {}) @@ (s2 :> {s1})

ColumnDef == {"k", "v", "k_r"}
FewColumnsDef == {"k", "v"}
SuffixedDef == ("k" :> "k_r") @@ ("v" :> "v_r") @@ ("k_r" :> "k_r_r")
=============================================================================
