---------------------------- MODULE MCTimeMeasure ----------------------------
(* TimeMeasure with three passes of calls of a few nanoseconds. *)
EXTENDS TimeMeasure
==============================================================================
