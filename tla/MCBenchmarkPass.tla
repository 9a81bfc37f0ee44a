--------------------------- MODULE MCBenchmarkPass ---------------------------
(* BenchmarkPass on a small instance: two passes of two entities, two runs. *)
EXTENDS BenchmarkPass
==============================================================================
