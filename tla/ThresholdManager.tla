--------------------------- MODULE ThresholdManager ---------------------------
(***************************************************************************)
(* src/temperature_threshold_manager.c one loop iteration at a time: the   *)
(* bubble sort of ThresholdManager_Init, then any number of calls of       *)
(* ThresholdManager_AutoSelectThreshold with temperatures the sensors may  *)
(* give.                                                                   *)
(***************************************************************************)
EXTENDS Thresholds, SequencesExt

CONSTANTS
    Configs,      \* the TemperatureThresholds arrays a model config may hold
    Temperatures  \* what a sensor may report

\* TemperatureThresholds_Validate refuses duplicates.
ValidTables == {th \in Tables : \A a, b \in 1..Len(th) : a # b => th[a].up # th[b].up}

ASSUME ConfigsAssumption == Configs \subseteq ValidTables

\* Colder than anything: AutoSelectThreshold has not been called yet.
NoCall == -274

ASSUME TemperaturesAssumption == Temperatures \subseteq Int \ {NoCall}

VARIABLES
    pc,           \* which loop runs: "sort", "down", "up", or "idle"
    thresholds,   \* my.thresholds
    i,            \* outer index of the sort, the walking index of the loops
    j,            \* inner index of the sort
    current,      \* my.current
    temperature,  \* the argument of the last call
    legacy,       \* TemperatureThresholdManager_LegacyBehaviour
    config,       \* history: the table as configured
    before,       \* history: my.current when the last call began
    last          \* history: the argument of the call before the last

history == <<config, before, last>>
vars    == <<pc, thresholds, i, j, current, temperature, legacy, history>>

size == Len(thresholds)

-----------------------------------------------------------------------------
Init == /\ config \in Configs
        /\ thresholds = config
        /\ legacy \in BOOLEAN
        /\ pc = "sort" /\ i = 0 /\ j = 1
        /\ current = 1 /\ before = 1
        /\ temperature = NoCall /\ last = NoCall

\* Mutant: the inner loop ends one comparison early.
LastPairShort == size - i - 2

\* The inner loop runs for j < size - i - 1 in C.
LastPair == size - i - 1

\* One iteration of the inner loop.
SortCompare ==
    /\ pc = "sort"
    /\ i < size - 1
    /\ j <= LastPair
    /\ thresholds' = IF thresholds[j].up > thresholds[j + 1].up
                     THEN [thresholds EXCEPT ![j] = thresholds[j + 1],
                                             ![j + 1] = thresholds[j]]
                     ELSE thresholds
    /\ j' = j + 1
    /\ UNCHANGED <<pc, i, current, temperature, legacy, history>>

SortNextPass ==
    /\ pc = "sort"
    /\ i < size - 1
    /\ j > LastPair
    /\ i' = i + 1 /\ j' = 1
    /\ UNCHANGED <<pc, thresholds, current, temperature, legacy, history>>

SortDone ==
    /\ pc = "sort"
    /\ i >= size - 1
    /\ pc' = "idle"
    /\ UNCHANGED <<thresholds, i, j, current, temperature, legacy, history>>

\* The call: i starts at my.current.
Call ==
    /\ pc = "idle"
    /\ pc' = "down"
    /\ temperature' \in Temperatures
    /\ i' = current
    /\ before' = current /\ last' = temperature
    /\ UNCHANGED <<thresholds, j, current, legacy, config>>

\* Mutant: `if' for `while'.
StepDownOnce ==
    /\ pc = "down"
    /\ i' = IF GoesDown(thresholds, i, temperature) THEN i - 1 ELSE i
    /\ pc' = "up"
    /\ UNCHANGED <<thresholds, j, current, temperature, legacy, history>>

StepDown ==
    /\ pc = "down"
    /\ IF GoesDown(thresholds, i, temperature)
       THEN i' = i - 1 /\ UNCHANGED pc
       ELSE pc' = "up" /\ UNCHANGED i
    /\ UNCHANGED <<thresholds, j, current, temperature, legacy, history>>

\* Mutant: the legacy behaviour is forgotten.
StepUpOwnThreshold ==
    /\ pc = "up"
    /\ IF GoesUp(FALSE, thresholds, i, temperature)
       THEN i' = i + 1 /\ UNCHANGED <<pc, current>>
       ELSE pc' = "idle" /\ current' = i /\ UNCHANGED i
    /\ UNCHANGED <<thresholds, j, temperature, legacy, history>>

StepUp ==
    /\ pc = "up"
    /\ IF GoesUp(legacy, thresholds, i, temperature)
       THEN i' = i + 1 /\ UNCHANGED <<pc, current>>
       ELSE pc' = "idle" /\ current' = i /\ UNCHANGED i
    /\ UNCHANGED <<thresholds, j, temperature, legacy, history>>

Next == SortCompare \/ SortNextPass \/ SortDone \/ Call \/ StepDown \/ StepUp

\* The loops run inside one call; when the next call comes is not promised.
Fairness == WF_vars(SortCompare \/ SortNextPass \/ SortDone \/ StepDown \/ StepUp)

Spec == Init /\ [][Next]_vars /\ Fairness

-----------------------------------------------------------------------------

\* What holds when AutoSelectThreshold returns.
Returns ==
    pc = "up" /\ pc' = "idle" =>
       /\ Ascending(thresholds) /\ ToSet(thresholds) = ToSet(config)
       /\ \A n \in 1..size : Selects(legacy, thresholds, before, temperature, n) <=> n = current'

\* Whatever order the config lists the thresholds in, the sort has put all of them in
\* ascending order, and the loops of AutoSelectThreshold compute Selects on that table
\* and nothing else fits: the operator the other modules use is the function the sort
\* and the loops compute.
LoopsComputeSelects == [][Returns]_vars

\* A steady temperature never makes the fan hunt: called again with the
\* temperature it last saw, AutoSelectThreshold stays where it is, even when
\* the bands of the table overlap or leave gaps.
NeverHunts ==
    [][pc = "up" /\ pc' = "idle" /\ temperature = last => current' = before]_vars

=============================================================================
