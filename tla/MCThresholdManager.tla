-------------------------- MODULE MCThresholdManager --------------------------
(***************************************************************************)
(* Every valid table of one to three entries with UpThresholds from 1 to 3 *)
(* in every order the config file may list them, overlapping and gapping   *)
(* DownThresholds included, and every temperature from below the lowest to *)
(* above the highest point.                                                *)
(***************************************************************************)
EXTENDS ThresholdManager

MCEntries == { e \in [up : 1..3, down : 0..3, speed : {0}] : e.down <= e.up }

MCConfigs == { th \in UNION { [1..n -> MCEntries] : n \in 1..3 } :
                 \A a, b \in DOMAIN th : a # b => th[a].up # th[b].up }

MCTemperatures == 0..4
=============================================================================
