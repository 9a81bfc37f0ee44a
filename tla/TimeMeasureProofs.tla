-------------------------- MODULE TimeMeasureProofs --------------------------
(***************************************************************************)
(* Proofs about TimeMeasure, for any number of passes and any bound on a   *)
(* call's duration.  The averaging loop and the sum it is compared with    *)
(* are recursive functions; what they compute is proved by induction on    *)
(* the number of measures.  The library's induction theorems take an       *)
(* operator, which the provers cannot instantiate, so induction is stated  *)
(* here of a set of numbers, and follows from < being well founded.        *)
(***************************************************************************)
EXTENDS TimeMeasure, WellFoundedInduction, TLAPS

------------------------------------------------------------------------------
(* Induction, and recursive functions.                                     *)

LEMMA Induction ==
  ASSUME NEW S, 0 \in S, \A n \in Nat : n \in S => n + 1 \in S
  PROVE  \A n \in Nat : n \in S
<1> DEFINE T == Nat \ S
<1> SUFFICES ASSUME T # {} PROVE FALSE
  OBVIOUS
<1>1. T \subseteq Nat
  OBVIOUS
<1>2. PICK n \in T : \A m \in T : <<m, n>> \notin OpToRel(<, Nat)
  <2> HIDE DEF T
  <2> QED BY <1>1, NatLessThanWellFounded, WFMin
<1>3. \A m \in T : ~(m < n)
  BY <1>2 DEF OpToRel
<1>4. n - 1 \in Nat /\ n - 1 \in S
  BY <1>3
<1>5. n \in S
  BY <1>4
<1> QED BY <1>5

\* A function whose value at n is computed from its value at n - 1 exists.
Recursive(f, N, base, step) ==
    f[0] = base /\ \A n \in 1 .. N : f[n] = step[n][f[n - 1]]

LEMMA RecursionExists ==
  ASSUME NEW N \in Nat, NEW V, NEW base \in V, NEW step \in [1 .. N -> [V -> V]]
  PROVE  \E f \in [0 .. N -> V] : Recursive(f, N, base, step)
<1> DEFINE Upto(k, f) == /\ f[0] = base
                         /\ \A n \in 1 .. k : f[n] = step[n][f[n - 1]]
           S == {k \in Nat : k <= N => \E f \in [0 .. k -> V] : Upto(k, f)}
<1>1. 0 \in S
  <2>1. [n \in 0 .. 0 |-> base] \in [0 .. 0 -> V] /\ Upto(0, [n \in 0 .. 0 |-> base])
    OBVIOUS
  <2> QED BY <2>1
<1>2. ASSUME NEW k \in Nat, k \in S PROVE k + 1 \in S
  <2> SUFFICES ASSUME k + 1 <= N PROVE \E f \in [0 .. k + 1 -> V] : Upto(k + 1, f)
    OBVIOUS
  <2>1. PICK f \in [0 .. k -> V] : Upto(k, f)
    BY <1>2
  <2> DEFINE g == [n \in 0 .. k + 1 |-> IF n = k + 1 THEN step[n][f[k]] ELSE f[n]]
  <2>2. g \in [0 .. k + 1 -> V]
    OBVIOUS
  <2>3. Upto(k + 1, g)
    BY <2>1
  <2> QED BY <2>2, <2>3
<1>3. N \in S
  <2> HIDE DEF S
  <2> QED BY <1>1, <1>2, Induction
<1> QED BY <1>3 DEF Recursive

------------------------------------------------------------------------------
(* The two sums.                                                           *)

Tallies == [value : Nat, count : Nat]

\* The tally after n measures, from the tally after n - 1.
Tally(res, m, before) ==
    IF Counts(res, m)
    THEN [value |-> before.value + m.nano, count |-> before.count + 1]
    ELSE before

\* The averaging loop's equations.
LEMMA LoopIs ==
  ASSUME NEW res, NEW M, NEW measures \in Seq(M), \A m \in M : m.nano \in Nat
  PROVE  /\ Loop(res, measures) \in [0 .. Len(measures) -> Tallies]
         /\ Loop(res, measures)[0] = [value |-> 0, count |-> 0]
         /\ \A n \in 1 .. Len(measures) :
              Loop(res, measures)[n] = Tally(res, measures[n], Loop(res, measures)[n - 1])
<1> DEFINE N == Len(measures)
           base == [value |-> 0, count |-> 0]
           step == [n \in 1 .. N |-> [v \in Tallies |-> Tally(res, measures[n], v)]]
           P(f) == f = [n \in 0 .. N |->
                          IF n = 0 THEN [value |-> 0, count |-> 0]
                          ELSE LET m == measures[n]
                                   before == f[n - 1]
                               IN  IF Counts(res, m)
                                   THEN [value |-> before.value + m.nano, count |-> before.count + 1]
                                   ELSE before]
<1>0. N \in Nat /\ \A n \in 1 .. N : measures[n].nano \in Nat
  OBVIOUS
<1>1. base \in Tallies
  BY DEF Tallies
<1>2. ASSUME NEW n \in 1 .. N, NEW v \in Tallies PROVE Tally(res, measures[n], v) \in Tallies
  BY <1>0 DEF Tally, Tallies
<1>3. step \in [1 .. N -> [Tallies -> Tallies]]
  BY <1>2
<1>4. \A n \in 1 .. N : \A v \in Tallies : step[n][v] = Tally(res, measures[n], v)
  OBVIOUS
<1>5. \A f : P(f) <=> f = [n \in 0 .. N |-> IF n = 0 THEN base ELSE Tally(res, measures[n], f[n - 1])]
  BY DEF Tally
<1> HIDE DEF P, step, base, N
<1>6. PICK f \in [0 .. N -> Tallies] : f[0] = base /\ \A n \in 1 .. N : f[n] = step[n][f[n - 1]]
  <2>1. \E f \in [0 .. N -> Tallies] : Recursive(f, N, base, step)
    BY <1>0, <1>1, <1>3, RecursionExists
  <2> QED BY <2>1 DEF Recursive
<1>7. \A n \in 0 .. N : f[n] = IF n = 0 THEN base ELSE Tally(res, measures[n], f[n - 1])
  <2> TAKE n \in 0 .. N
  <2>1. CASE n = 0
    BY <1>0, <1>6, <2>1
  <2>2. CASE n \in 1 .. N
    <3>1. f[n - 1] \in Tallies /\ n # 0
      BY <1>0, <1>6, <2>2
    <3> QED BY <1>4, <1>6, <2>2, <3>1
  <2> QED BY <1>0, <2>1, <2>2
<1>8. P(f)
  <2>1. f = [n \in 0 .. N |-> f[n]]
    BY <1>6
  <2>2. f = [n \in 0 .. N |-> IF n = 0 THEN base ELSE Tally(res, measures[n], f[n - 1])]
    BY <1>7, <2>1
  <2> QED BY <1>5, <2>2
<1>9. Loop(res, measures) = CHOOSE g : P(g)
  BY DEF Loop, P, N
<1>10. P(Loop(res, measures))
  BY <1>8, <1>9
<1>11. PICK g : g = Loop(res, measures)
  OBVIOUS
<1>12. g = [n \in 0 .. N |-> IF n = 0 THEN base ELSE Tally(res, measures[n], g[n - 1])]
  BY <1>5, <1>10, <1>11
<1>13. g[0] = base /\ \A n \in 1 .. N : g[n] = Tally(res, measures[n], g[n - 1])
  <2>1. \A n \in 0 .. N : g[n] = IF n = 0 THEN base ELSE Tally(res, measures[n], g[n - 1])
    BY <1>12
  <2>2. \A n \in 1 .. N : n \in 0 .. N /\ n # 0
    BY <1>0
  <2> QED BY <1>0, <2>1, <2>2
<1>14. g \in [0 .. N -> Tallies]
  <2> DEFINE S == {k \in Nat : k <= N => g[k] \in Tallies}
  <2>1. 0 \in S
    BY <1>1, <1>13
  <2>2. ASSUME NEW k \in Nat, k \in S PROVE k + 1 \in S
    <3> SUFFICES ASSUME k + 1 <= N PROVE g[k + 1] \in Tallies
      OBVIOUS
    <3>1. g[k] \in Tallies /\ k + 1 \in 1 .. N /\ k + 1 \in 0 .. N /\ k + 1 - 1 = k /\ k + 1 # 0
      BY <1>0, <2>2
    <3>2. g[k + 1] = Tally(res, measures[k + 1], g[k])
      BY <1>13, <3>1
    <3> QED BY <1>2, <3>1, <3>2
  <2>3. \A k \in Nat : k \in S
    <3> HIDE DEF S
    <3> QED BY <2>1, <2>2, Induction
  <2> QED BY <1>0, <1>12, <2>3
<1> QED BY <1>11, <1>13, <1>14 DEF N, base

\* The equations of the sum of the durations.
LEMMA SumIs ==
  ASSUME NEW nanos \in [1 .. PASSES -> Nat]
  PROVE  /\ Sum(nanos) \in [0 .. PASSES -> Nat]
         /\ Sum(nanos)[0] = 0
         /\ \A p \in 1 .. PASSES : Sum(nanos)[p] = Sum(nanos)[p - 1] + nanos[p]
<1> DEFINE step == [p \in 1 .. PASSES |-> [v \in Nat |-> v + nanos[p]]]
           P(f) == f = [p \in 0 .. PASSES |-> IF p = 0 THEN 0 ELSE f[p - 1] + nanos[p]]
<1>0. PASSES \in Nat
  BY PASSESAssumption
<1>1. step \in [1 .. PASSES -> [Nat -> Nat]]
  OBVIOUS
<1>2. \A p \in 1 .. PASSES : \A v \in Nat : step[p][v] = v + nanos[p]
  OBVIOUS
<1> HIDE DEF step, P
<1>3. PICK f \in [0 .. PASSES -> Nat] : f[0] = 0 /\ \A p \in 1 .. PASSES : f[p] = step[p][f[p - 1]]
  <2>1. \E f \in [0 .. PASSES -> Nat] : Recursive(f, PASSES, 0, step)
    BY <1>0, <1>1, RecursionExists
  <2> QED BY <2>1 DEF Recursive
<1>4. \A p \in 0 .. PASSES : f[p] = IF p = 0 THEN 0 ELSE f[p - 1] + nanos[p]
  <2> TAKE p \in 0 .. PASSES
  <2>1. CASE p = 0
    BY <1>3, <2>1
  <2>2. CASE p \in 1 .. PASSES
    <3>1. f[p - 1] \in Nat /\ p # 0
      BY <1>0, <2>2
    <3> QED BY <1>2, <1>3, <2>2, <3>1
  <2> QED BY <1>0, <2>1, <2>2
<1>5. P(f)
  <2>1. f = [p \in 0 .. PASSES |-> f[p]]
    BY <1>3
  <2> QED BY <1>4, <2>1 DEF P
<1>6. Sum(nanos) = CHOOSE g : P(g)
  BY DEF Sum, P
<1>7. P(Sum(nanos))
  BY <1>5, <1>6
<1>8. PICK g : g = Sum(nanos)
  OBVIOUS
<1>9. /\ g[0] = 0 /\ (\A p \in 1 .. PASSES : g[p] = g[p - 1] + nanos[p])
      /\ DOMAIN g = 0 .. PASSES /\ g = [p \in DOMAIN g |-> g[p]]
  <2>1. g = [p \in 0 .. PASSES |-> IF p = 0 THEN 0 ELSE g[p - 1] + nanos[p]]
    BY <1>7, <1>8 DEF P
  <2>2. \A p \in 0 .. PASSES : g[p] = IF p = 0 THEN 0 ELSE g[p - 1] + nanos[p]
    BY <2>1
  <2>3. \A p \in 1 .. PASSES : p \in 0 .. PASSES /\ p # 0
    BY <1>0
  <2>4. 0 \in 0 .. PASSES
    BY <1>0
  <2>5. DOMAIN g = 0 .. PASSES /\ g = [p \in DOMAIN g |-> g[p]]
    BY <2>1
  <2> QED BY <2>2, <2>3, <2>4, <2>5
<1>10. g[0] = 0 /\ \A p \in 1 .. PASSES : g[p] = g[p - 1] + nanos[p]
  BY <1>9
<1>11. \A p \in 0 .. PASSES : g[p] \in Nat
  <2> DEFINE S == {k \in Nat : k <= PASSES => g[k] \in Nat}
  <2>1. 0 \in S
    BY <1>10
  <2>2. ASSUME NEW k \in Nat, k \in S PROVE k + 1 \in S
    <3> SUFFICES ASSUME k + 1 <= PASSES PROVE g[k + 1] \in Nat
      OBVIOUS
    <3>1. g[k] \in Nat /\ k + 1 \in 1 .. PASSES /\ k + 1 - 1 = k
      BY <1>0, <2>2
    <3>2. g[k + 1] = g[k] + nanos[k + 1] /\ nanos[k + 1] \in Nat
      BY <1>10, <3>1
    <3> QED BY <3>1, <3>2
  <2>3. \A k \in Nat : k \in S
    <3> HIDE DEF S
    <3> QED BY <2>1, <2>2, Induction
  <2> QED BY <1>0, <2>3
<1>12. g \in [0 .. PASSES -> Nat]
  BY <1>9, <1>11
<1> QED BY <1>8, <1>10, <1>12

\* A multiple of one more.
LEMMA OneMore == \A a, b \in Int : (a + 1) * b = a * b + b
OBVIOUS

\* Durations that are all at most u add up to at most u for each of them.
LEMMA SumBounds ==
  ASSUME NEW nanos \in [1 .. PASSES -> Nat], NEW u \in Int
  PROVE  /\ (\A p \in 1 .. PASSES : nanos[p] <= u) => Sum(nanos)[PASSES] <= PASSES * u
         /\ (\A p \in 1 .. PASSES : nanos[p] >= u) => Sum(nanos)[PASSES] >= PASSES * u
<1>0. PASSES \in Nat
  BY PASSESAssumption
<1>1. PICK sum \in [0 .. PASSES -> Nat] : /\ sum = Sum(nanos)
                                         /\ sum[0] = 0
                                         /\ \A p \in 1 .. PASSES : sum[p] = sum[p - 1] + nanos[p]
  BY SumIs
<1>2. 0 * u = 0
  OBVIOUS
<1>3. ASSUME \A p \in 1 .. PASSES : nanos[p] <= u PROVE sum[PASSES] <= PASSES * u
  <2> DEFINE S == {k \in Nat : k <= PASSES => sum[k] <= k * u}
  <2>1. 0 \in S
    BY <1>1, <1>2
  <2>2. ASSUME NEW k \in Nat, k \in S PROVE k + 1 \in S
    <3> SUFFICES ASSUME k + 1 <= PASSES PROVE sum[k + 1] <= (k + 1) * u
      OBVIOUS
    <3>1. k \in 0 .. PASSES /\ k + 1 \in 1 .. PASSES /\ k + 1 - 1 = k
      BY <1>0
    <3>2. PICK ku \in Int : ku = k * u /\ (k + 1) * u = ku + u
      BY OneMore
    <3>3. sum[k] \in Nat /\ nanos[k + 1] \in Nat
      BY <3>1
    <3>4. sum[k] <= ku /\ sum[k + 1] = sum[k] + nanos[k + 1] /\ nanos[k + 1] <= u
      BY <1>1, <1>3, <2>2, <3>1, <3>2
    <3> QED BY <3>2, <3>3, <3>4
  <2>3. \A k \in Nat : k \in S
    <3> HIDE DEF S
    <3> QED BY <2>1, <2>2, Induction
  <2> QED BY <1>0, <2>3
<1>4. ASSUME \A p \in 1 .. PASSES : nanos[p] >= u PROVE sum[PASSES] >= PASSES * u
  <2> DEFINE S == {k \in Nat : k <= PASSES => sum[k] >= k * u}
  <2>1. 0 \in S
    BY <1>1, <1>2
  <2>2. ASSUME NEW k \in Nat, k \in S PROVE k + 1 \in S
    <3> SUFFICES ASSUME k + 1 <= PASSES PROVE sum[k + 1] >= (k + 1) * u
      OBVIOUS
    <3>1. k \in 0 .. PASSES /\ k + 1 \in 1 .. PASSES /\ k + 1 - 1 = k
      BY <1>0
    <3>2. PICK ku \in Int : ku = k * u /\ (k + 1) * u = ku + u
      BY OneMore
    <3>3. sum[k] \in Nat /\ nanos[k + 1] \in Nat
      BY <3>1
    <3>4. sum[k] >= ku /\ sum[k + 1] = sum[k] + nanos[k + 1] /\ nanos[k + 1] >= u
      BY <1>1, <1>4, <2>2, <3>1, <3>2
    <3> QED BY <3>2, <3>3, <3>4
  <2>3. \A k \in Nat : k \in S
    <3> HIDE DEF S
    <3> QED BY <2>1, <2>2, Induction
  <2> QED BY <1>0, <2>3
<1> QED BY <1>1, <1>3, <1>4

\* A floored quotient.
LEMMA Quotient ==
  ASSUME NEW a \in Nat, NEW b \in Nat \ {0}
  PROVE  /\ a \div b \in Nat
         /\ (a \div b) * b <= a
         /\ a < (a \div b + 1) * b
         /\ a \div b <= a
<1> QED OBVIOUS

\* The sum of the durations over their number is their mean.
LEMMA MeanIs ==
  ASSUME NEW nanos \in [1 .. PASSES -> Nat]
  PROVE  /\ Sum(nanos)[PASSES] \div PASSES \in Nat
         /\ IsMean(Sum(nanos)[PASSES] \div PASSES, nanos)
<1>0. PASSES \in Nat \ {0}
  BY PASSESAssumption
<1>1. PICK total \in Nat : total = Sum(nanos)[PASSES]
  BY <1>0, SumIs
<1>2. PICK q \in Nat : q = total \div PASSES /\ q * PASSES <= total /\ total < (q + 1) * PASSES
  BY <1>0, Quotient
<1>3. \E p \in 1 .. PASSES : q <= nanos[p]
  <2> SUFFICES ASSUME \A p \in 1 .. PASSES : nanos[p] <= q - 1 PROVE FALSE
    BY <1>0
  <2>1. total <= PASSES * (q - 1)
    <3>1. PICK u \in Int : u = q - 1
      OBVIOUS
    <3>2. \A p \in 1 .. PASSES : nanos[p] <= u
      BY <3>1
    <3>3. total <= PASSES * u
      BY <1>1, <3>2, SumBounds
    <3> QED BY <3>1, <3>3
  <2>2. PASSES * (q - 1) = q * PASSES - PASSES
    BY <1>0
  <2>3. PICK qp \in Int : qp = q * PASSES
    BY <1>0
  <2> QED BY <1>0, <1>2, <2>1, <2>2, <2>3
<1>4. \E p \in 1 .. PASSES : q >= nanos[p]
  <2> SUFFICES ASSUME \A p \in 1 .. PASSES : nanos[p] >= q + 1 PROVE FALSE
    BY <1>0
  <2>1. total >= PASSES * (q + 1)
    <3>1. PICK u \in Int : u = q + 1
      OBVIOUS
    <3>2. \A p \in 1 .. PASSES : nanos[p] >= u
      BY <3>1
    <3>3. total >= PASSES * u
      BY <1>1, <3>2, SumBounds
    <3> QED BY <3>1, <3>3
  <2>2. PASSES * (q + 1) = (q + 1) * PASSES
    BY <1>0
  <2>3. PICK qp \in Int : qp = (q + 1) * PASSES
    BY <1>0
  <2> QED BY <1>0, <1>2, <2>1, <2>2, <2>3
<1> QED BY <1>1, <1>2, <1>3, <1>4 DEF IsMean

\* Multiplying keeps an order.
LEMMA Monotone ==
  ASSUME NEW a \in Int, NEW b \in Int, NEW c \in Nat, a <= b
  PROVE  a * c <= b * c
<1>1. PICK d \in Nat : b = a + d
  <2>1. b - a \in Nat /\ b = a + (b - a)
    OBVIOUS
  <2> QED BY <2>1
<1>2. (a + d) * c = a * c + d * c
  OBVIOUS
<1>3. PICK ac \in Int, dc \in Nat : ac = a * c /\ dc = d * c
  OBVIOUS
<1> QED BY <1>1, <1>2, <1>3

\* A mean cut to whole nanoseconds, and then to milliseconds, is the mean cut to
\* milliseconds.
LEMMA MsecMeanIs ==
  ASSUME NEW nanos \in [1 .. PASSES -> Nat], NEW mean \in Nat, IsMean(mean, nanos)
  PROVE  IsMsecMean(Msec(mean), nanos)
<1>0. PASSES \in Nat \ {0} /\ NANOS_PER_MSEC \in Nat \ {0}
  BY PASSESAssumption, NanosAssumption
<1>1. PICK total \in Nat : total = Sum(nanos)[PASSES]
  BY <1>0, SumIs
<1>2. mean * PASSES <= total /\ total < (mean + 1) * PASSES
  BY <1>1 DEF IsMean
<1>3. PICK msec \in Nat : /\ msec = Msec(mean)
                          /\ msec * NANOS_PER_MSEC <= mean
                          /\ mean < (msec + 1) * NANOS_PER_MSEC
  BY <1>0, Quotient DEF Msec
<1>4. PICK low \in Nat, high \in Nat : low = msec * NANOS_PER_MSEC /\ high = (msec + 1) * NANOS_PER_MSEC
  BY <1>0
<1>5. low <= mean /\ mean + 1 <= high
  BY <1>3, <1>4
<1>6. low * PASSES <= mean * PASSES /\ (mean + 1) * PASSES <= high * PASSES
  BY <1>0, <1>5, Monotone
<1>7. \A a, b \in Nat : a * b \in Nat
  OBVIOUS
<1>8. PICK lp \in Nat, mp \in Nat, np \in Nat, hp \in Nat :
         /\ lp = low * PASSES /\ mp = mean * PASSES
         /\ np = (mean + 1) * PASSES /\ hp = high * PASSES
  BY <1>0, <1>7
<1>9. lp <= total /\ total < hp
  BY <1>2, <1>6, <1>8
<1> QED BY <1>1, <1>3, <1>4, <1>8, <1>9 DEF IsMsecMean

------------------------------------------------------------------------------
(* The list of the measures.                                               *)

Measures == [actionRes : {SAVE, LOAD}, nano : 0 .. MaxNano, msec : 0 .. MaxNano]

\* Every pass adds the measure of its save and then that of its load.
Alternate ==
    \A p \in 1 .. PASSES :
        /\ 2 * p - 1 <= Len(results) => results[2 * p - 1].actionRes = SAVE
        /\ 2 * p <= Len(results) => results[2 * p].actionRes = LOAD

LEMMA MeasureType ==
  ASSUME NEW res \in {SAVE, LOAD}, NEW nano \in 0 .. MaxNano
  PROVE  Measure(res, nano) \in Measures
<1>1. nano \in Nat /\ MaxNano \in Nat
  BY MaxNanoAssumption
<1>2. PICK msec \in Nat : msec = nano \div NANOS_PER_MSEC /\ msec <= nano
  BY <1>1, NanosAssumption, Quotient
<1>3. msec \in 0 .. MaxNano
  BY <1>1, <1>2
<1> QED BY <1>2, <1>3 DEF Measure, Msec, Measures

\* Over the measures of every pass, the loop counts the passes and adds up the
\* durations of its action.
LEMMA LoopIsSum ==
  ASSUME NEW res \in {SAVE, LOAD}, results \in Seq(Measures), Len(results) = 2 * PASSES, Alternate
  PROVE  /\ Durations(res) \in [1 .. PASSES -> 0 .. MaxNano]
         /\ Loop(res, results)[Len(results)] = [value |-> Sum(Durations(res))[PASSES], count |-> PASSES]
<1>0. PASSES \in Nat \ {0} /\ MaxNano \in Nat /\ SAVE # LOAD
  BY PASSESAssumption, MaxNanoAssumption DEF SAVE, LOAD
<1>1. \A i \in 1 .. 2 * PASSES : results[i] \in Measures
  OBVIOUS
<1>2. \A p \in 1 .. PASSES :
        /\ results[2 * p - 1].actionRes = SAVE /\ results[2 * p - 1].nano \in 0 .. MaxNano
        /\ results[2 * p].actionRes = LOAD /\ results[2 * p].nano \in 0 .. MaxNano
  <2> TAKE p \in 1 .. PASSES
  <2>1. 2 * p - 1 \in 1 .. 2 * PASSES /\ 2 * p \in 1 .. 2 * PASSES
    BY <1>0
  <2>2. results[2 * p - 1] \in Measures /\ results[2 * p] \in Measures
    BY <1>1, <2>1
  <2>3. 2 * p - 1 <= Len(results) /\ 2 * p <= Len(results)
    BY <2>1
  <2> QED BY <2>2, <2>3 DEF Alternate, Measures
<1>3. PICK nanos : nanos = Durations(res)
  OBVIOUS
<1>4. /\ nanos \in [1 .. PASSES -> 0 .. MaxNano]
      /\ \A p \in 1 .. PASSES : nanos[p] = results[IF res = SAVE THEN 2 * p - 1 ELSE 2 * p].nano
  BY <1>2, <1>3 DEF Durations
<1>5. nanos \in [1 .. PASSES -> Nat]
  BY <1>0, <1>4
<1>6. PICK sum \in [0 .. PASSES -> Nat] : /\ sum = Sum(nanos)
                                         /\ sum[0] = 0
                                         /\ \A p \in 1 .. PASSES : sum[p] = sum[p - 1] + nanos[p]
  BY <1>5, SumIs
<1>7. PICK loop : /\ loop = Loop(res, results)
                  /\ loop[0] = [value |-> 0, count |-> 0]
                  /\ \A n \in 1 .. 2 * PASSES : loop[n] = Tally(res, results[n], loop[n - 1])
  <2>1. \A m \in Measures : m.nano \in Nat
    BY <1>0 DEF Measures
  <2> QED BY <2>1, LoopIs
<1>8. ASSUME NEW k \in Nat, k + 1 <= PASSES, loop[2 * k] = [value |-> sum[k], count |-> k]
      PROVE  loop[2 * (k + 1)] = [value |-> sum[k + 1], count |-> k + 1]
  <2>1. /\ k + 1 \in 1 .. PASSES /\ k + 1 - 1 = k /\ k \in 0 .. PASSES
        /\ 2 * (k + 1) - 1 \in 1 .. 2 * PASSES /\ 2 * (k + 1) - 1 - 1 = 2 * k
        /\ 2 * (k + 1) \in 1 .. 2 * PASSES
    BY <1>0, <1>8
  <2>2. PICK saved, loaded : saved = results[2 * (k + 1) - 1] /\ loaded = results[2 * (k + 1)]
    OBVIOUS
  <2>3. /\ saved.actionRes = SAVE /\ saved.nano \in 0 .. MaxNano
        /\ loaded.actionRes = LOAD /\ loaded.nano \in 0 .. MaxNano
    BY <1>2, <2>1, <2>2
  <2>4. PICK middle : middle = loop[2 * (k + 1) - 1]
    OBVIOUS
  <2>5. /\ middle = Tally(res, saved, [value |-> sum[k], count |-> k])
        /\ loop[2 * (k + 1)] = Tally(res, loaded, middle)
    BY <1>7, <1>8, <2>1, <2>2, <2>4
  <2>6. nanos[k + 1] = IF res = SAVE THEN saved.nano ELSE loaded.nano
    BY <1>4, <2>1, <2>2
  <2>7. sum[k + 1] = sum[k] + nanos[k + 1]
    BY <1>6, <2>1
  <2>8. CASE res = SAVE
    <3>1. middle = [value |-> sum[k] + saved.nano, count |-> k + 1]
      BY <2>3, <2>5, <2>8 DEF Tally, Counts
    <3>2. loop[2 * (k + 1)] = middle
      BY <1>0, <2>3, <2>5, <2>8 DEF Tally, Counts
    <3> QED BY <2>6, <2>7, <2>8, <3>1, <3>2
  <2>9. CASE res = LOAD
    <3>1. middle = [value |-> sum[k], count |-> k]
      BY <1>0, <2>3, <2>5, <2>9 DEF Tally, Counts
    <3>2. loop[2 * (k + 1)] = [value |-> sum[k] + loaded.nano, count |-> k + 1]
      BY <2>3, <2>5, <2>9, <3>1 DEF Tally, Counts
    <3> QED BY <1>0, <2>6, <2>7, <2>9, <3>2
  <2> QED BY <2>8, <2>9
<1>9. loop[2 * PASSES] = [value |-> sum[PASSES], count |-> PASSES]
  <2> DEFINE S == {k \in Nat : k <= PASSES => loop[2 * k] = [value |-> sum[k], count |-> k]}
  <2>1. 0 \in S
    BY <1>6, <1>7
  <2>2. ASSUME NEW k \in Nat, k \in S PROVE k + 1 \in S
    <3> SUFFICES ASSUME k + 1 <= PASSES
                 PROVE  loop[2 * (k + 1)] = [value |-> sum[k + 1], count |-> k + 1]
      OBVIOUS
    <3>1. loop[2 * k] = [value |-> sum[k], count |-> k]
      BY <1>0, <2>2
    <3> QED BY <1>8, <3>1
  <2>3. \A k \in Nat : k \in S
    <3> HIDE DEF S
    <3> QED BY <2>1, <2>2, Induction
  <2>4. PASSES \in S
    BY <1>0, <2>3
  <2> QED BY <1>0, <2>4
<1> QED BY <1>3, <1>4, <1>6, <1>7, <1>9

\* Over the measures of every pass, the average is the mean of its action.
LEMMA AverageIs ==
  ASSUME NEW res \in {SAVE, LOAD}, results \in Seq(Measures), Len(results) = 2 * PASSES, Alternate
  PROVE  Average(res, results) \in Measures /\ IsMeanOf(Average(res, results), Durations(res))
<1>0. PASSES \in Nat \ {0} /\ MaxNano \in Nat
  BY PASSESAssumption, MaxNanoAssumption
<1>1. PICK nanos \in [1 .. PASSES -> 0 .. MaxNano] : nanos = Durations(res)
  BY LoopIsSum
<1>2. nanos \in [1 .. PASSES -> Nat]
  BY <1>0
<1>3. PICK mean : mean = Sum(nanos)[PASSES] \div PASSES
  OBVIOUS
<1>4. mean \in Nat /\ IsMean(mean, nanos)
  BY <1>2, <1>3, MeanIs
<1>5. mean \in 0 .. MaxNano
  <2>1. PICK p \in 1 .. PASSES : mean <= nanos[p]
    BY <1>4 DEF IsMean
  <2> QED BY <1>0, <1>4, <2>1
<1>6. Average(res, results) = Measure(res, mean)
  BY <1>1, <1>3, LoopIsSum DEF Average
<1>7. IsMsecMean(Msec(mean), nanos)
  BY <1>2, <1>4, MsecMeanIs
<1>8. Measure(res, mean).nano = mean /\ Measure(res, mean).msec = Msec(mean)
  BY DEF Measure
<1> QED BY <1>1, <1>4, <1>5, <1>6, <1>7, <1>8, MeasureType DEF IsMeanOf

------------------------------------------------------------------------------
(* The invariant.                                                          *)

\* How far the pass under way is, by the measures it has added.
PcInv ==
    /\ now \in Nat /\ start \in 0 .. now
    /\ pass \in 1 .. PASSES
    /\ pc \in {"prepare", "save", "clearCache", "load", "average", "put"}
    /\ pc \in {"save", "load"} => start = now
    /\ pc \in {"average", "put"} => pass = PASSES

ResultsInv ==
    /\ results \in Seq(Measures)
    /\ pc \in {"prepare", "save"} => Len(results) = 2 * pass - 2
    /\ pc \in {"clearCache", "load"} => Len(results) = 2 * pass - 1
    /\ pc \in {"average", "put"} => Len(results) = 2 * pass
    /\ Alternate

MedianInv ==
    medianResults = IF pc = "put" THEN <<Average(SAVE, results), Average(LOAD, results)>> ELSE <<>>

IInv == PcInv /\ ResultsInv /\ MedianInv

LEMMA InvInit == Init => IInv
<1> SUFFICES ASSUME Init PROVE IInv
  OBVIOUS
<1>1. PcInv
  BY PASSESAssumption DEF Init, PcInv
<1>2. ResultsInv
  BY PASSESAssumption DEF Init, ResultsInv, Alternate
<1>3. MedianInv
  BY DEF Init, MedianInv
<1> QED BY <1>1, <1>2, <1>3 DEF IInv

\* A call that is timed adds its measure at the end of the list.
LEMMA TimedAdds ==
  ASSUME PcInv, results \in Seq(Measures), NEW res \in {SAVE, LOAD}, NEW from \in {"save", "load"},
         Timed(res, from)
  PROVE  /\ now' \in Nat /\ start \in 0 .. now' /\ pc = from
         /\ results' \in Seq(Measures) /\ Len(results') = Len(results) + 1
         /\ \A i \in 1 .. Len(results) : results'[i] = results[i]
         /\ results'[Len(results) + 1].actionRes = res
<1>0. MaxNano \in Nat
  BY MaxNanoAssumption
<1>1. PICK d \in 0 .. MaxNano : now' = now + d
  BY DEF Timed
<1>2. now \in Nat /\ start = now /\ pc = from
  BY DEF PcInv, Timed
<1>3. d \in Nat /\ now' - start = d
  BY <1>0, <1>1, <1>2
<1>4. results' = Append(results, Measure(res, d))
  BY <1>3 DEF Timed
<1>5. PICK m \in Measures : m = Measure(res, d)
  BY MeasureType
<1>6. m.actionRes = res
  BY <1>5 DEF Measure
<1>7. results' = Append(results, m)
  BY <1>4, <1>5
<1>8. /\ results' \in Seq(Measures) /\ Len(results') = Len(results) + 1
      /\ \A i \in 1 .. Len(results) : results'[i] = results[i]
      /\ results'[Len(results) + 1] = m
  BY <1>7
<1> QED BY <1>1, <1>2, <1>3, <1>6, <1>8

LEMMA InvNext == IInv /\ [Next]_vars => IInv'
<1> SUFFICES ASSUME PcInv, ResultsInv, MedianInv, [Next]_vars PROVE IInv'
  BY DEF IInv
<1>0. PASSES \in Nat \ {0} /\ MaxNano \in Nat /\ pass \in Nat /\ Len(results) \in Nat
  BY PASSESAssumption, MaxNanoAssumption DEF PcInv, ResultsInv
<1>1. ASSUME NEW from, NEW to, <<from, to>> \in {<<"prepare", "save">>, <<"clearCache", "load">>},
             Untimed(from, to)
      PROVE  IInv'
  <2>1. PcInv'
    BY <1>0, <1>1 DEF Untimed, PcInv
  <2>2. ResultsInv'
    BY <1>1 DEF Untimed, ResultsInv, Alternate
  <2>3. MedianInv'
    BY <1>1 DEF Untimed, MedianInv
  <2> QED BY <2>1, <2>2, <2>3 DEF IInv
<1>2. CASE Save
  <2>1. /\ now' \in Nat /\ start \in 0 .. now' /\ pc = "save" /\ pc' = "clearCache"
        /\ results' \in Seq(Measures) /\ Len(results') = Len(results) + 1
        /\ \A i \in 1 .. Len(results) : results'[i] = results[i]
        /\ results'[Len(results) + 1].actionRes = SAVE
        /\ UNCHANGED <<pass, start, medianResults>>
    BY <1>2, TimedAdds DEF Save, ResultsInv
  <2>2. PcInv'
    BY <2>1 DEF PcInv
  <2>3. Len(results) = 2 * pass - 2
    BY <2>1 DEF ResultsInv
  <2>4. Alternate'
    <3> SUFFICES ASSUME NEW p \in 1 .. PASSES
                 PROVE  /\ 2 * p - 1 <= Len(results') => results'[2 * p - 1].actionRes = SAVE
                        /\ 2 * p <= Len(results') => results'[2 * p].actionRes = LOAD
      BY DEF Alternate
    <3>1. /\ 2 * p - 1 <= Len(results') =>
                2 * p - 1 \in 1 .. Len(results) \/ 2 * p - 1 = Len(results) + 1
          /\ 2 * p <= Len(results') => 2 * p \in 1 .. Len(results)
      BY <1>0, <2>1, <2>3
    <3>2. /\ 2 * p - 1 <= Len(results) => results[2 * p - 1].actionRes = SAVE
          /\ 2 * p <= Len(results) => results[2 * p].actionRes = LOAD
      BY DEF ResultsInv, Alternate
    <3>3. PICK o, e : o = 2 * p - 1 /\ e = 2 * p
      OBVIOUS
    <3> QED BY <1>0, <2>1, <3>1, <3>2, <3>3
  <2>5. ResultsInv'
    BY <1>0, <2>1, <2>3, <2>4 DEF ResultsInv
  <2>6. MedianInv'
    BY <2>1 DEF MedianInv
  <2> QED BY <2>2, <2>5, <2>6 DEF IInv
<1>3. CASE Load
  <2>1. /\ now' \in Nat /\ start \in 0 .. now' /\ pc = "load"
        /\ results' \in Seq(Measures) /\ Len(results') = Len(results) + 1
        /\ \A i \in 1 .. Len(results) : results'[i] = results[i]
        /\ results'[Len(results) + 1].actionRes = LOAD
        /\ UNCHANGED <<start, medianResults>>
    BY <1>3, TimedAdds DEF Load, ResultsInv
  <2>2. \/ pass < PASSES /\ pass' = pass + 1 /\ pc' = "prepare"
        \/ pass = PASSES /\ pc' = "average" /\ pass' = pass
    BY <1>3 DEF Load
  <2>3. PcInv'
    BY <1>0, <2>1, <2>2 DEF PcInv
  <2>4. Len(results) = 2 * pass - 1
    BY <2>1 DEF ResultsInv
  <2>5. Alternate'
    <3> SUFFICES ASSUME NEW p \in 1 .. PASSES
                 PROVE  /\ 2 * p - 1 <= Len(results') => results'[2 * p - 1].actionRes = SAVE
                        /\ 2 * p <= Len(results') => results'[2 * p].actionRes = LOAD
      BY DEF Alternate
    <3>1. 2 * p - 1 <= Len(results') => 2 * p - 1 \in 1 .. Len(results)
      BY <1>0, <2>1, <2>4
    <3>2. 2 * p <= Len(results') => 2 * p \in 1 .. Len(results) \/ 2 * p = Len(results) + 1
      BY <1>0, <2>1, <2>4
    <3>3. /\ 2 * p - 1 <= Len(results) => results[2 * p - 1].actionRes = SAVE
          /\ 2 * p <= Len(results) => results[2 * p].actionRes = LOAD
      BY DEF ResultsInv, Alternate
    <3> QED BY <1>0, <2>1, <3>1, <3>2, <3>3
  <2>6. ResultsInv'
    BY <1>0, <2>1, <2>2, <2>4, <2>5 DEF ResultsInv
  <2>7. MedianInv'
    BY <2>1, <2>2 DEF MedianInv
  <2> QED BY <2>3, <2>6, <2>7 DEF IInv
<1>4. CASE AverageResults
  <2>1. PcInv'
    BY <1>4 DEF AverageResults, PcInv
  <2>2. ResultsInv'
    BY <1>4 DEF AverageResults, ResultsInv, Alternate
  <2>3. MedianInv'
    <3>1. /\ pc' = "put" /\ results' = results
          /\ medianResults' = <<Average(SAVE, results), Average(LOAD, results)>>
      BY <1>4 DEF AverageResults
    <3> QED BY <3>1 DEF MedianInv
  <2> QED BY <2>1, <2>2, <2>3 DEF IInv
<1>5. CASE UNCHANGED vars
  <2>1. PcInv'
    BY <1>5 DEF vars, PcInv
  <2>2. ResultsInv'
    BY <1>5 DEF vars, ResultsInv, Alternate
  <2>3. MedianInv'
    BY <1>5 DEF vars, MedianInv
  <2> QED BY <2>1, <2>2, <2>3 DEF IInv
<1> QED BY <1>1, <1>2, <1>3, <1>4, <1>5 DEF Next

\* Once the averages are taken, each is the mean of its own action.
LEMMA MediansAreMeans ==
  ASSUME IInv, pc = "put"
  PROVE  /\ medianResults = <<Average(SAVE, results), Average(LOAD, results)>>
         /\ \A res \in {SAVE, LOAD} : /\ Average(res, results) \in Measures
                                      /\ IsMeanOf(Average(res, results), Durations(res))
<1>1. medianResults = <<Average(SAVE, results), Average(LOAD, results)>>
  BY DEF IInv, MedianInv
<1>2. results \in Seq(Measures) /\ Len(results) = 2 * PASSES /\ Alternate
  BY DEF IInv, PcInv, ResultsInv
<1> QED BY <1>1, <1>2, AverageIs

LEMMA Invariant == Spec => []IInv
BY InvInit, InvNext, PTL DEF Spec

\* The clock, the passes and both lists keep their types: every duration lies
\* within the bound of one call, the averages included (TimeMeasure.java 20-39
\* and BenchmarkExecutor.java 58-77).
THEOREM TypeCorrect == Spec => []TypeOK
<1>1. ASSUME IInv PROVE TypeOK
  <2>1. medianResults \in Seq(Measures)
    <3>1. CASE pc = "put"
      <4>1. PICK save \in Measures, load \in Measures : medianResults = <<save, load>>
        BY <1>1, <3>1, MediansAreMeans
      <4> QED BY <4>1
    <3>2. CASE pc # "put"
      BY <1>1, <3>2 DEF IInv, MedianInv
    <3> QED BY <3>1, <3>2
  <2> QED BY <1>1, <2>1 DEF IInv, PcInv, ResultsInv, TypeOK, Measures
<1> QED BY <1>1, Invariant, PTL

\* The two figures of a benchmark are the floored means of its own saves and of
\* its own loads, in nanoseconds and in milliseconds, over every pass and nothing
\* else, whatever the number of passes and the durations: the count is never
\* zero, no measure of the other action is added, and cutting to nanoseconds
\* first loses no millisecond (TimeMeasure.java 22-31).
THEOREM AveragesAreMeans == Spec => []AverageIsOfItsAction
<1>1. ASSUME IInv, pc = "put"
      PROVE  /\ IsMeanOf(medianResults[1], Durations(SAVE))
             /\ IsMeanOf(medianResults[2], Durations(LOAD))
  <2>1. /\ medianResults[1] = Average(SAVE, results)
        /\ medianResults[2] = Average(LOAD, results)
    BY <1>1, MediansAreMeans
  <2> QED BY <1>1, <2>1, MediansAreMeans
<1>2. IInv => AverageIsOfItsAction
  BY <1>1 DEF AverageIsOfItsAction
<1> QED BY <1>2, Invariant, PTL
==============================================================================
