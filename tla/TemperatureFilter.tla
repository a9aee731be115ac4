--------------------------- MODULE TemperatureFilter ---------------------------
(***************************************************************************)
(* src/temperature_filter.c: the average of the readings of a time span,   *)
(* kept as a ring of readings and their running sum.  Temperatures are     *)
(* integers here, so that sums are exact; the result is the pair of the    *)
(* sum and what it is divided by.                                          *)
(***************************************************************************)
EXTENDS Integers, SequencesExt

CONSTANTS
    PollInterval,   \* EcPollInterval
    Timespan        \* NBFC_TEMPERATURE_FILTER_TIMESPAN

\* TemperatureFilter_Init refuses other values.
ASSUME TemperatureFilterAssumption ==
    PollInterval \in Nat \ {0} /\ Timespan \in Nat \ {0}

\* Readings per time span, rounded up.
size == Timespan \div PollInterval + (IF Timespan % PollInterval = 0 THEN 0 ELSE 1)

TemperatureFilterState ==
    [ ring  : [0..(size - 1) -> Int],    \* ring_buffer.data
      index : 0..(size - 1),
      full  : BOOLEAN,                   \* buffer_is_full
      sum   : Int ]

TemperatureFilter_Init ==
    [ring |-> [i \in 0..(size - 1) |-> 0], index |-> 0, full |-> FALSE, sum |-> 0]

\* Mutant: one reading too late.
WrapsLate(filter) == filter.index = size

\* Whether the next reading is put where the first was.
Wraps(filter) == filter.index + 1 = size

\* Mutant: the oldest reading stays in the sum.
SumOnTop(filter, t) == filter.sum + t

\* The sum with the oldest reading replaced, zero as long as there is none.
SumWith(filter, t) == filter.sum - filter.ring[filter.index] + t

\* TemperatureFilter_FilterTemperature: the filter after a reading,
Filtered(filter, t) ==
    [ ring  |-> [filter.ring EXCEPT ![filter.index] = t],
      index |-> IF Wraps(filter) THEN 0 ELSE filter.index + 1,
      full  |-> filter.full \/ Wraps(filter),
      sum   |-> SumWith(filter, t) ]

\* and what the call returns of it.
Average(filter) == [sum |-> filter.sum, by |-> IF filter.full THEN size ELSE filter.index]
================================================================================
