--------------------------- MODULE MCClaimReviews ---------------------------
(***************************************************************************)
(* A closed shape of cells, claimed in two contexts and of a run that read  *)
(* a window, and a shape of tables.                                        *)
(***************************************************************************)
EXTENDS ClaimReviews

CONSTANTS total, table, whole, window, may, june

MCShape == {total, table}
MCClosed == {total}
MCTabular == {table}
MCContext == {may, june}
MCRun == {whole, window}
MCWhole == {whole}

Of(shape, context, run) == [shape |-> shape, context |-> context, run |-> run]

MCProposal ==
  {Of(total, may, whole), Of(total, june, whole), Of(total, may, window), Of(table, may, whole)}
=============================================================================
