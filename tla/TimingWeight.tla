----------------------------- MODULE TimingWeight -----------------------------
(***************************************************************************)
(* The semiring in which the formatter keeps the times of words            *)
(* (src/itn/maxmin-weight.h, src/itn/timing-weight.h): the product of      *)
(* MaxMinWeight for the start of a word and MinMaxWeight for its end.  A   *)
(* weight is an interval of time; Times is the smallest interval around    *)
(* two, Plus what two have in common.  The infinities of float are -Inf    *)
(* and Inf, further away than any time.                                    *)
(***************************************************************************)
EXTENDS Integers

CONSTANT Inf

ASSUME InfAssumption == Inf \in Nat \ {0}

Values == -Inf .. Inf

\* MaxMinWeight
MaxMinZero == -Inf
MaxMinOne == Inf
MaxMinPlus(w1, w2) == IF w1 > w2 THEN w1 ELSE w2
MaxMinTimes(w1, w2) == IF w1 <= w2 THEN w1 ELSE w2

\* MinMaxWeight, which OpenFst brings along, is its dual.
MinMaxPlus(w1, w2) == IF w1 < w2 THEN w1 ELSE w2
MinMaxTimes(w1, w2) == IF w1 >= w2 THEN w1 ELSE w2

Weights == [start: Values, end: Values]
Weight(s, e) == [start |-> s, end |-> e]
Zero == Weight(MaxMinZero, Inf)
One == Weight(MaxMinOne, -Inf)
Plus(v, w) == Weight(MaxMinPlus(v.start, w.start), MinMaxPlus(v.end, w.end))
Times(v, w) == Weight(MaxMinTimes(v.start, w.start), MinMaxTimes(v.end, w.end))
===============================================================================
