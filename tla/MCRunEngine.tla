---------------------------- MODULE MCRunEngine ----------------------------
(***************************************************************************)
(* The workflows the run-engine runs check.  Stage 1 is a source.          *)
(***************************************************************************)
EXTENDS RunEngine, TLC

\* A review queue (2) over the source, a stage below the queue (3), and a fork
\* (4) that reads the source alone.
MCFork == (1 :> {}) @@ (2 :> {1}) @@ (3 :> {2}) @@ (4 :> {1})

\* A review queue (2) over the source and a stage below it (3).
MCChain == (1 :> {}) @@ (2 :> {1}) @@ (3 :> {2})
=============================================================================
