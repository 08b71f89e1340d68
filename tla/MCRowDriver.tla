---------------------------- MODULE MCRowDriver ----------------------------
(***************************************************************************)
(* Three rows, the last two alike, and the handler shapes the registry     *)
(* (app/runtime/stages/__init__.py) has: a pooled model stage asked row by *)
(* row or in batches, and the serial shapes that may drop rows.            *)
(***************************************************************************)
EXTENDS RowDriver, TLC

CONSTANTS k1, k2

MCFingerprint == (1 :> k1) @@ (2 :> k2) @@ (3 :> k2)

Shape(parallelism, groupSize, caching, kinds) ==
  [parallelism |-> parallelism, groupSize |-> groupSize, caching |-> caching,
   kinds |-> kinds]

MCShapes ==
  {Shape(2, 1, "read_write", {"answer", "error"}),
   Shape(2, 2, "read_write", {"answer", "error"}),
   Shape(1, 1, "read_write", {"answer", "drop"}),
   Shape(2, 1, "refresh", {"answer"}),
   Shape(1, 2, "read_only", {"answer"}),
   Shape(1, 1, "off", {"answer", "error"})}
=============================================================================
