--------------------------------- MODULE Tools ---------------------------------
(***************************************************************************)
(* The programs a user runs to find out about an embedded controller, on   *)
(* the same one and at the same time: ec_probe (EcProbe.tla), and          *)
(* `nbfc test-config' (TestConfig.tla), which must cope with the others'   *)
(* and the firmware's writes; `nbfc rate-config' (RateConfig.tla), whose   *)
(* list is piped into test-config; and `nbfc config --set' with what comes *)
(* of it (ServiceFiles.tla).                                               *)
(***************************************************************************)
EXTENDS EcProbe

CONSTANTS
    Users,      \* bound: ec_probe in one terminal, rate-config and test-config in another,
                \* the service set up in a third
    Aliases,
    MaxRegisters, MaxMethods, Programs,
    Part, Marks, Steady, Threshold, Answers

ASSUME ToolsAssumption ==
    /\ \A u \in Users : u[1] \in Sessions
    /\ Part \in Nat \ {0} /\ Marks \in Nat \ {0} /\ Steady \in Nat \ {0} /\ Threshold \in Nat
    /\ Answers # {} /\ Answers \subseteq 0..Top(TRUE)

VARIABLES jobs, job, phase, status, stage, failed, child, tested, inactive, turn, cache,
          readings, results, printed, held, sampled
VARIABLES orders, order, doing, outcome, with, list, rated, groups
VARIABLES desk, conf, stored, editor, daemon, settings, wishes

\* Users has what each of them begins with.
Rate == INSTANCE RateConfig WITH Orders <- {}
Test == INSTANCE TestConfig WITH Jobs <- {}
Setup == INSTANCE ServiceFiles WITH Desks <- {}

testVars == <<jobs, job, phase, status, stage, failed, child, tested, inactive, turn, cache,
              readings, results, printed, sampled>>
probeVars == <<process, pc, quit, report, history>>
rateVars == <<orders, order, doing, outcome, with, list, rated, groups>>
setupVars == <<desk, conf, stored, editor, daemon, settings, wishes>>
allVars == <<probeVars, testVars, rateVars, setupVars, mem, held>>

ToolsInit ==
    /\ \E user \in Users : todo = user[1] /\ jobs = user[2] /\ orders = user[3] /\ desk \in user[4]
    /\ Fresh /\ Test!Fresh /\ Rate!Fresh /\ Setup!Fresh

Aside == Test!Observe /\ UNCHANGED <<testVars, rateVars, setupVars>>
Beside == UNCHANGED <<probeVars, rateVars, setupVars>>
ProbeRuns == Run /\ Aside
TestRuns == Test!Program /\ Beside
ChildRuns == Test!Child /\ Beside

\* `nbfc rate-config -aqq | nbfc test-config run' tests what is printed.
Piped == jobs' = IF order.piped /\ jobs # <<>>
                 THEN [jobs EXCEPT ![1].files = Rate!PrintedNames'] ELSE jobs

Rating == /\ \/ (Rate!RateNothing \/ Rate!PrintOnly \/ Rate!BeginRating \/ Rate!RateFile) /\ UNCHANGED jobs
             \/ Rate!PrintResults /\ Piped
          /\ UNCHANGED <<probeVars, job, phase, status, stage, failed, child, tested, inactive, turn,
                         cache, readings, results, printed, held, sampled, mem, setupVars>>

SettingUp == Setup!Next /\ UNCHANGED <<probeVars, testVars, rateVars, mem, held>>

\* test-config reads its list to the end, and so begins when there is no more of it.
Testing == (Test!Begin \/ Test!BeginNothing \/ Test!Evaluate) /\ Rate!RateIsOver /\ orders = <<>>

ToolsNext ==
    \/ (Run \/ Signal \/ Firmware \/ Start) /\ Aside
    \/ (Testing \/ Test!Program \/ Test!Child \/ Test!Faults) /\ Beside
    \/ Rating \/ SettingUp

\* Each process runs on; nothing is assumed of the controller, the firmware, the
\* user and the faults.
ToolsSpec == ToolsInit /\ [][ToolsNext]_allVars
             /\ WF_allVars(ProbeRuns) /\ WF_allVars(TestRuns) /\ WF_allVars(ChildRuns)

\* What is in the files has been parsed into nodes, what is on the user's list is what
\* the commands let through, and a fan's index is a byte.
DesksAreParsed(nodes) ==
    /\ Setup!AreNodes(nodes) /\ 0 \in Setup!Limits("uint8")
    /\ \A user \in Users : \A d \in user[4] :
           Setup!IsDesk(d, nodes) /\ {d.conf, d.stored} \subseteq nodes

\* The files of a test have been parsed too, and limits are numbers, as are powers.
TestsAreParsed(nodes) ==
    /\ Test!AreNodes(nodes) /\ Test!Limits("uint16") \subseteq Nat /\ 2^Bits \in Nat \ {0}
    /\ \A user \in Users : Test!IsList(user[2]) /\ \A i \in DOMAIN user[2] : Test!IsJob(user[2][i], nodes)

---------------------------------------------------------------------------
\* Of RateConfig.tla and TestConfig.tla, where they are stated.
RatingsAreSound == Rate!RatingsAreSound
SettingsAreKept == Setup!SettingsAreKept
SamplesAreOfOneMoment == Test!SamplesAreOfOneMoment
ReportsAreEvaluable == Test!ReportsAreEvaluable

\* Programs end: ec_probe when it is told to, and a test once the temperatures
\* hold still, with no stress-ng left; stated in their modules.
ProgramsEnd == QuitEnds /\ Test!TestEnds

AcceptedConfigsWork == Test!AcceptedConfigsWork
ConversionsAgree == Test!ConversionsAgree
================================================================================
