----------------------------- MODULE TimeMeasure -----------------------------
(***************************************************************************)
(* TimeMeasure.java and the way doInBackground uses it: every pass times   *)
(* its save and its load against one clock into one list, and the two      *)
(* figures reported for a benchmark are taken from that list by the        *)
(* averaging constructor, one per kind of action.                          *)
(***************************************************************************)
EXTENDS Integers, Sequences

CONSTANTS
    PASSES,          \* passes of one benchmark (5)
    NANOS_PER_MSEC,  \* 10^6
    MaxNano          \* bound: duration of one call, in nanoseconds

ASSUME PASSESAssumption == PASSES \in Nat \ {0}
ASSUME NanosAssumption == NANOS_PER_MSEC \in Nat \ {0}
ASSUME MaxNanoAssumption == MaxNano \in Nat

SAVE == "save_entities_in_transaction"
LOAD == "load_entities"

VARIABLES
    now,           \* System.nanoTime(), from the first pass on
    pass,          \* the pass under way
    pc,            \* the call under way: "prepare", "save", "clearCache", "load", "average", "put"
    start,         \* the start field of the TimeMeasure under way
    results,       \* the list of the passes' measures
    medianResults  \* the list of the averages

vars == <<now, pass, pc, start, results, medianResults>>

\* Mutant of Msec: to the nearest.
MsecNearest(nano) == (nano + NANOS_PER_MSEC \div 2) \div NANOS_PER_MSEC

\* TimeUnit.MILLISECONDS.convert
Msec(nano) == nano \div NANOS_PER_MSEC
Measure(res, nano) == [actionRes |-> res, nano |-> nano, msec |-> Msec(nano)]

\* Mutant of Counts: the actions are not told apart.
CountsAll(res, m) == TRUE

\* new TimeMeasure(actionRes, timeMeasures): the value and the count after the
\* first n measures, and their quotient.
Counts(res, m) == m.actionRes = res
Loop(res, measures) ==
    LET tally[n \in 0 .. Len(measures)] ==
            IF n = 0 THEN [value |-> 0, count |-> 0]
            ELSE LET m == measures[n]
                     before == tally[n - 1]
                 IN  IF Counts(res, m)
                     THEN [value |-> before.value + m.nano, count |-> before.count + 1]
                     ELSE before
    IN  tally
Average(res, measures) ==
    LET tally == Loop(res, measures)[Len(measures)]
    IN  Measure(res, tally.value \div tally.count)

Init ==
    /\ now = 0 /\ pass = 1 /\ pc = "prepare" /\ start = 0
    /\ results = <<>>
    /\ medianResults = <<>>

\* Mutant of Untimed: the TimeMeasure is made before the call.
UntimedInside(from, to) ==
    /\ pc = from
    /\ start' = now
    /\ \E d \in 0 .. MaxNano : now' = now + d
    /\ pc' = to
    /\ UNCHANGED <<pass, results, medianResults>>

\* A call that takes d and is not timed; the clock is read when it is over.
Untimed(from, to) ==
    /\ pc = from
    /\ \E d \in 0 .. MaxNano : now' = now + d /\ start' = now + d
    /\ pc' = to
    /\ UNCHANGED <<pass, results, medianResults>>

\* A call between new TimeMeasure(res) and end().
Timed(res, from) ==
    /\ pc = from
    /\ \E d \in 0 .. MaxNano : now' = now + d
    /\ results' = Append(results, Measure(res, now' - start))

Save == Timed(SAVE, "save") /\ pc' = "clearCache" /\ UNCHANGED <<pass, start, medianResults>>

Load ==
    /\ Timed(LOAD, "load")
    /\ \/ /\ pass < PASSES
          /\ pass' = pass + 1 /\ pc' = "prepare"
       \/ /\ pass = PASSES
          /\ pc' = "average"
          /\ UNCHANGED pass
    /\ UNCHANGED <<start, medianResults>>

AverageResults ==
    /\ pc = "average"
    /\ medianResults' = <<Average(SAVE, results), Average(LOAD, results)>>
    /\ pc' = "put"
    /\ UNCHANGED <<now, pass, start, results>>

Next ==
    \/ Untimed("prepare", "save") \/ Save
    \/ Untimed("clearCache", "load") \/ Load
    \/ AverageResults

Spec == Init /\ [][Next]_vars

------------------------------------------------------------------------------
TypeOK ==
    /\ now \in Nat /\ start \in 0 .. now
    /\ pass \in 1 .. PASSES
    /\ pc \in {"prepare", "save", "clearCache", "load", "average", "put"}
    /\ results \in Seq([actionRes : {SAVE, LOAD}, nano : 0 .. MaxNano, msec : 0 .. MaxNano])
    /\ medianResults \in Seq([actionRes : {SAVE, LOAD}, nano : 0 .. MaxNano, msec : 0 .. MaxNano])

\* The durations of one action, pass by pass, by their places in the list.
Durations(res) ==
    [p \in 1 .. PASSES |-> results[IF res = SAVE THEN 2 * p - 1 ELSE 2 * p].nano]

\* The sum of the first p durations.
Sum(nanos) ==
    LET sum[p \in 0 .. PASSES] == IF p = 0 THEN 0 ELSE sum[p - 1] + nanos[p]
    IN  sum

\* The mean, floored, of a duration per pass; it lies between the fastest and
\* the slowest.
IsMean(mean, nanos) ==
    /\ mean * PASSES <= Sum(nanos)[PASSES]
    /\ Sum(nanos)[PASSES] < (mean + 1) * PASSES
    /\ \E p \in 1 .. PASSES : mean <= nanos[p]
    /\ \E p \in 1 .. PASSES : mean >= nanos[p]

\* And in whole milliseconds, as the screen and the CSV show it: the mean of the
\* passes' nanoseconds, although the code cuts twice to get it.
IsMsecMean(msec, nanos) ==
    /\ msec * NANOS_PER_MSEC * PASSES <= Sum(nanos)[PASSES]
    /\ Sum(nanos)[PASSES] < (msec + 1) * NANOS_PER_MSEC * PASSES

IsMeanOf(measure, nanos) == IsMean(measure.nano, nanos) /\ IsMsecMean(measure.msec, nanos)

\* Each figure is the mean of its own action's durations, the action the CSV's
\* header names at its place: over every pass, over no measure of the other
\* action, and losing less than a millisecond in all.
AverageIsOfItsAction ==
    pc = "put" =>
        /\ IsMeanOf(medianResults[1], Durations(SAVE))
        /\ IsMeanOf(medianResults[2], Durations(LOAD))
==============================================================================
