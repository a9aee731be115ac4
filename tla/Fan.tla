--------------------------------- MODULE Fan ---------------------------------
(***************************************************************************)
(* One fan, src/fan.c: the state of `struct Fan' that changes at run time  *)
(* and the functions that change it.  Speeds are whole percentages; the    *)
(* conversion to register values is not needed here.                       *)
(*                                                                         *)
(* cfg is the part of the model configuration Fan_Init copies: the         *)
(* critical temperature, its offset and the sorted temperature thresholds. *)
(***************************************************************************)
EXTENDS Thresholds

Speed == 0..100

\* The values of a fan's entry in ServiceState.TargetFanSpeeds: a fixed
\* speed, -1 for auto mode, or no entry at all (the list may be short).
Automatic == -1
None == -2
Entry == Speed \cup {Automatic, None}

FanConfig == [critical : Int, offset : Nat, thresholds : Tables]

ValidFanConfig(cfg) ==
    /\ cfg \in FanConfig
    /\ \A m \in 1..Len(cfg.thresholds) : cfg.thresholds[m].speed \in Speed

FanState == [ mode      : {"auto", "fixed"},
              target    : Speed,     \* targetFanSpeed
              requested : Speed,     \* requestedSpeed
              critical  : BOOLEAN,   \* isCritical
              current   : Nat ]      \* threshMan.current, an index of the table

ValidFan(cfg, fan) == fan \in FanState /\ fan.current \in 1..Len(cfg.thresholds)

\* Fan_Init; the array of fans is calloc'ed, so the speeds start at zero.
Fan_Init == [ mode |-> "auto", target |-> 0, requested |-> 0,
              critical |-> FALSE, current |-> 1 ]

Fan_GetTargetSpeed(fan) == IF fan.critical THEN 100 ELSE fan.target

Clamp(speed) == IF speed < 0 THEN 0 ELSE IF speed > 100 THEN 100 ELSE speed

Fan_SetFixedSpeed(fan, speed) ==
    [fan EXCEPT !.mode = "fixed", !.requested = Clamp(speed), !.target = Clamp(speed)]

Fan_SetAutoSpeed(cfg, fan) ==
    [fan EXCEPT !.mode = "auto", !.target = cfg.thresholds[fan.current].speed]

\* HandleCriticalMode: on above the critical temperature, off only when the
\* temperature has dropped below it by more than the offset.
IsCritical(cfg, fan, t) ==
    \/ t > cfg.critical
    \/ fan.critical /\ t >= cfg.critical - cfg.offset

\* Mutant: the table is only looked at in auto mode.
Fan_SetTemperatureAutoOnly(cfg, fan, t, k) ==
    [fan EXCEPT !.critical = IsCritical(cfg, fan, t),
                !.current  = IF fan.mode = "auto" THEN k ELSE fan.current,
                !.target   = IF fan.mode = "auto" THEN cfg.thresholds[k].speed
                                                  ELSE fan.target]

\* Fan_SetTemperature(t), where k is the threshold AutoSelectThreshold
\* selects (Selects holds of it).  The threshold is selected in every mode,
\* its speed is taken in auto mode only.
Fan_SetTemperature(cfg, fan, t, k) ==
    [fan EXCEPT !.critical = IsCritical(cfg, fan, t),
                !.current  = k,
                !.target   = IF fan.mode = "auto" THEN cfg.thresholds[k].speed
                                                  ELSE fan.target]

\* Mutant: the speed in force is recorded, not the one asked for.
RecordedInForce(fan) == IF fan.mode = "auto" THEN Automatic ELSE Fan_GetTargetSpeed(fan)

\* What Service_WriteTargetFanSpeedsToState records of a fan.
Recorded(fan) == IF fan.mode = "auto" THEN Automatic ELSE fan.requested

\* What Service_Init makes of a fan and its entry in the state file.
Fan_Restore(cfg, entry) ==
    IF entry = None THEN Fan_Init
    ELSE IF entry = Automatic THEN Fan_SetAutoSpeed(cfg, Fan_Init)
    ELSE Fan_SetFixedSpeed(Fan_Init, entry)
=============================================================================
