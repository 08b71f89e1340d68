----------------------------- MODULE MCLineage -----------------------------
(* An instance of Lineage: a load of two files of a row each, read whole and in *)
(* a window that starts past the first row.                                     *)
EXTENDS Lineage

MCSources == {<< <<1, 1>>, <<2, 1>> >>}
MCWindows == {Whole, [start |-> 1, cap |-> 1]}
=============================================================================
