------------------------------- MODULE MCService -------------------------------
(***************************************************************************)
(* Instances of Service.tla for TLC.                                       *)
(***************************************************************************)
EXTENDS Service

\* The first fan has two levels around 50 degrees with a band from 40 to 60, and
\* is critical above 80 and until below 50; the second has one level.  The
\* speeds are within Deviation of neither each other nor 100.
MCTwoLevels == << [up |-> 60, down |-> 0,  speed |-> 0],
                  [up |-> 75, down |-> 40, speed |-> 50] >>

MCOneLevel == << [up |-> 60, down |-> 0, speed |-> 50] >>

MCConfig == [f \in Fans |-> [critical |-> 80, offset |-> 30,
                             thresholds |-> IF f = 1 THEN MCTwoLevels ELSE MCOneLevel]]

\* Below both bands, inside both, and critical.
MCTemperatures == {30, 55, 85}

MCTwoTemperatures == {30, 85}

MCRequests == {Automatic, 30}

MCOneRequest == {Automatic}

MCFirmwareSpeeds == {0, 40}

MCOneFirmwareSpeed == {40}

\* OnSuspend and OnResume: an entry on the register of the first OnInitialization
\* entry, one on a register of its own, or no entry.
MCFirstEntry == <<1>>

MCOwnRegister == <<0>>

MCNoEntry == <<>>
=============================================================================
