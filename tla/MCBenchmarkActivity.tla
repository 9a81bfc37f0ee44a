------------------------- MODULE MCBenchmarkActivity -------------------------
(* BenchmarkActivity on a small instance; see the .cfg files for the bounds. *)
EXTENDS BenchmarkActivity
==============================================================================
