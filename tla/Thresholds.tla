------------------------------ MODULE Thresholds ------------------------------
(***************************************************************************)
(* The choice of a temperature threshold, src/temperature_threshold_       *)
(* manager.c.  A fan's table is a sequence of records ordered by           *)
(* UpThreshold; `current' is the index of the selected entry (1-based      *)
(* here, 0-based in C).  Two loops run one after the other: the first      *)
(* walks down while the temperature is at or below DownThreshold, the      *)
(* second walks up while it is at or above UpThreshold.                    *)
(*                                                                         *)
(* ThresholdManager.tla has the loops step by step.  Here is what they     *)
(* compute, as a relation between the index they start from and the index  *)
(* they stop at: no recursion, so it can be used in modules with proofs.   *)
(***************************************************************************)
EXTENDS Integers, Sequences

Threshold == [up : Int, down : Int, speed : Int]

Tables == { th \in Seq(Threshold) : Len(th) # 0 }

\* The temperature at which entry k is left upwards.  With
\* LegacyTemperatureThresholdsBehaviour it is the next entry's UpThreshold.
UpPoint(legacy, th, k) == IF legacy THEN th[k + 1].up ELSE th[k].up

GoesDown(th, i, t) == i > 1 /\ t <= th[i].down

GoesUp(legacy, th, i, t) == i < Len(th) /\ t >= UpPoint(legacy, th, i)

\* From i the first loop stops at j.
WalksDown(th, i, t, j) ==
    /\ j \in 1..i
    /\ \A m \in (j + 1)..i : GoesDown(th, m, t)
    /\ ~ GoesDown(th, j, t)

\* From j the second loop stops at k.
WalksUp(legacy, th, j, t, k) ==
    /\ k \in j..Len(th)
    /\ \A m \in j..(k - 1) : GoesUp(legacy, th, m, t)
    /\ ~ GoesUp(legacy, th, k, t)

\* ThresholdManager_AutoSelectThreshold(t), called with my.current = i,
\* leaves my.current = k.
Selects(legacy, th, i, t, k) ==
    \E j \in 1..Len(th) : /\ WalksDown(th, i, t, j)
                          /\ WalksUp(legacy, th, j, t, k)

\* What ThresholdManager_Init establishes and config validation demands.
Ascending(th) == \A a, b \in 1..Len(th) : a < b => th[a].up < th[b].up

Ordered(th) == \A a \in 1..Len(th) : th[a].down <= th[a].up
=============================================================================
