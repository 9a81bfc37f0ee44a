----------------------------- MODULE BenchmarkRuns -----------------------------
(***************************************************************************)
(* What the application promises to whoever reads its results, without     *)
(* threads, screens or messages: runs are measured one after the other and *)
(* not before the one before is complete, and orm-benchmark.csv is only    *)
(* ever given the rows of a complete run, never those of an older run than *)
(* the last.  The file is not replaced atomically, and a process that dies *)
(* keeps no results.                                                       *)
(*                                                                         *)
(* BenchmarkActivity implements this (BenchmarkActivity!Promise).          *)
(***************************************************************************)
EXTENDS Naturals

CONSTANTS NBench, MaxRuns

VARIABLES
    measured,  \* measured[r]: how many benchmarks of run r have their results
    newest,    \* the newest run the file was made for
    csv        \* the file

vars == <<measured, newest, csv>>

Runs == 1 .. MaxRuns
Complete(r) == measured[r] = NBench

Init ==
    /\ measured = [r \in Runs |-> 0]
    /\ newest = 0
    /\ csv = [file |-> "absent", run |-> 0, rows |-> {}]

\* The next benchmark of r has its results; every other run is over or has
\* not begun, and no later one has.
Measure(r) ==
    /\ ~Complete(r)
    /\ \A q \in Runs : q < r => measured[q] \in {0, NBench}
    /\ \A q \in Runs : q > r => measured[q] = 0
    /\ measured' = [measured EXCEPT ![r] = @ + 1]
    /\ UNCHANGED <<newest, csv>>

\* A complete run, not older than the last, has its file made: the old one goes.
Remove(r) ==
    /\ Complete(r)
    /\ r >= newest
    /\ newest' = r
    /\ csv' = [file |-> "absent", run |-> 0, rows |-> {}]
    /\ UNCHANGED measured

Create ==
    /\ csv' = [file |-> "empty", run |-> 0, rows |-> {}]
    /\ UNCHANGED <<measured, newest>>

\* The rows, or those that reached the disk.
Written(rows) == csv' = [file |-> "data", run |-> newest, rows |-> rows]

Write ==
    /\ csv.file = "empty"
    /\ newest \in Runs /\ Complete(newest)
    /\ \E rows \in SUBSET (1 .. NBench) : Written(rows)
    /\ UNCHANGED <<measured, newest>>

Die ==
    /\ measured' = [r \in Runs |-> 0]
    /\ \/ UNCHANGED csv
       \/ /\ csv.file = "empty"
          /\ newest \in Runs /\ Complete(newest)
          /\ \E rows \in SUBSET (1 .. NBench) : Written(rows)
    /\ UNCHANGED newest

Next ==
    \/ \E r \in Runs : Measure(r) \/ Remove(r)
    \/ Create \/ Write \/ Die

Spec == Init /\ [][Next]_vars
==============================================================================
