------------------------------ MODULE TestConfig ------------------------------
(***************************************************************************)
(* `nbfc test-config', src/client/cmd_test_config.c, with src/stress.c and *)
(* src/ec_cache.c: the fan speeds that several configurations read are     *)
(* recorded while a child process heats the machine, and evaluated by how  *)
(* they follow the temperatures.  One command line runs after the other;   *)
(* each call of the embedded controller is a step, others write to it.     *)
(***************************************************************************)
EXTENDS FanSpeed, Spearman

CONSTANTS
    MaxRegister,    \* 255
    Jobs,           \* bound: the command lines, and what happens to each
    Steady,         \* the readings that --break asks for, 20
    Threshold,      \* --threshold, 2 degrees
    Answers         \* bound: what the methods of the firmware return

Registers == 0..MaxRegister
Absent == -1

VARIABLES
    jobs,       \* the command lines still to come
    job,        \* TestConfig_Options; the files, the temperatures, what may fail
    phase,      \* where the program is
    status,     \* its exit status
    stage,      \* "first", "cpu" or "gpu": which samples it is taking
    failed,     \* an Error is to be returned once the child has been ended
    child,      \* the process of stress-ng
    tested,     \* configs_with_readings: names, fans and their readings
    inactive,   \* those that are
    turn,         \* the configuration and the fan that is read next
    cache,      \* EC_Cache_Cache, or Absent where it is not set
    readings,   \* cpu_readings and gpu_readings
    results,     \* the result file
    printed,    \* what evaluate prints
    mem,        \* the registers of the embedded controller
    held,       \* history: the values each register has had during this sample
    sampled     \* history: the bytes the fans of this sample were read from

options == <<jobs, job>>
tester == <<tested, inactive, turn, cache, readings, sampled, held>>
files == <<results, printed>>
vars == <<options, phase, status, stage, failed, child, tester, files, mem>>

NoReport == [kind |-> "none"]
BrokenReport == [kind |-> "broken"]
NoReadings == [cpu |-> <<>>, gpu |-> <<>>]

\* What comes before the first command line.
Fresh ==
    /\ job = [action |-> "none", faults |-> {}]
    /\ phase = "ended" /\ status = 0 /\ stage = "first" /\ failed = FALSE /\ child = "none"
    /\ tested = <<>> /\ inactive = {} /\ turn = <<0, 0>>
    /\ cache = [r \in Registers |-> Absent] /\ readings = NoReadings
    /\ results = NoReport /\ printed = <<>>
    /\ held = [r \in Registers |-> {}] /\ sampled = {}

Init == jobs \in Jobs /\ Fresh

Over == phase \in {"ended", "killed"}
May(fault) == fault \in job.faults
Exit(s) == phase' = "ended" /\ status' = s

---------------------------------------------------------------------------
(* Beginning *)

Opens(action) ==
    /\ Over /\ child = "none" /\ jobs # <<>> /\ Head(jobs).action = action
    /\ job' = Head(jobs) /\ jobs' = Tail(jobs)
    /\ stage' = "first" /\ failed' = FALSE
    /\ inactive' = {} /\ turn' = <<0, 0>> /\ readings' = NoReadings
    /\ cache' = [r \in Registers |-> Absent]
    /\ held' = [r \in Registers |-> {}] /\ sampled' = {}
    /\ UNCHANGED <<child, mem>>

\* Neither run nor evaluate.
BeginNothing ==
    /\ Opens("none")
    /\ Exit(2) /\ tested' = <<>> /\ printed' = <<>>
    /\ UNCHANGED results

\* ConfigWithReadings_Init: a file that cannot be loaded is left out.
WithReadings(name, c) ==
    [name |-> name, config |-> c,
     fans |-> [i \in DOMAIN c.FanConfigurations |-> Fan(c.FanConfigurations[i], c)],
     speeds |-> [i \in DOMAIN c.FanConfigurations |-> <<>>]]

\* The indexes one after the other; the k-th is the one up to which there are k.
InOrder(indexes) ==
    LET upTo(i) == Cardinality({j \in indexes : j <= i})
    IN [k \in {upTo(i) : i \in indexes} |-> CHOOSE i \in indexes : upTo(i) = k]

Begin ==
    /\ Opens("run")
    /\ LET of(i) == {WithReadings(job'.files[i], c) : c \in Loaded(job'.disk, job'.files[i])}
           loaded == InOrder({i \in DOMAIN job'.files : of(i) # {}})
       IN tested' = [k \in DOMAIN loaded |-> The(of(loaded[k]))]
    /\ phase' = "setup" /\ printed' = <<>>
    /\ UNCHANGED <<status, results>>

Setup ==
    /\ phase = "setup"
    /\ IF tested = <<>> THEN Exit(1) ELSE phase' = "sample" /\ UNCHANGED status
    /\ UNCHANGED <<options, stage, failed, child, tester, files, mem>>

\* No right to, no stress-ng, no list of files, no controller, no acpi_call, no sensors.
SetupFails ==
    /\ phase = "setup" /\ May("setup")
    /\ Exit(1)
    /\ UNCHANGED <<options, stage, failed, child, tester, files, mem>>

---------------------------------------------------------------------------
(* Sampling *)

\* The position behind fan i of configuration c; <<0, 0>> when it was the last.
After(c, i, out) ==
    LET later == {d \in DOMAIN tested : d > c /\ d \notin out}
    IN CASE c # 0 /\ c \notin out /\ i < Len(tested[c].fans) -> <<c, i + 1>>
         [] OTHER -> IF later = {} THEN <<0, 0>> ELSE <<Min(later), 1>>

Continue(c, i, out) ==
    /\ turn' = After(c, i, out)
    /\ phase' = IF turn' = <<0, 0>> THEN "decide" ELSE "fans"

\* The sensor of a job shows one temperature after the other, and holds the last;
\* without any it cannot be read.
Shows(temps, n) == temps[Lesser(n, Len(temps))]

\* Mutant: the cache is not cleared.
SampleSensorsOnly ==
    /\ phase = "sample" /\ job.cpu # <<>>
    /\ LET n == Len(readings.cpu) + 1
       IN readings' = [cpu |-> Append(readings.cpu, Shows(job.cpu, n)),
                       gpu |-> IF job.gpu = <<>> THEN <<>>
                               ELSE Append(readings.gpu, Shows(job.gpu, n))]
    /\ held' = [r \in Registers |-> {mem[r]}] /\ sampled' = {}
    /\ Continue(0, 0, inactive)
    /\ UNCHANGED <<options, status, stage, failed, child, tested, inactive, cache, files, mem>>

SampleSensors ==
    /\ phase = "sample" /\ job.cpu # <<>>
    /\ LET n == Len(readings.cpu) + 1
       IN readings' = [cpu |-> Append(readings.cpu, Shows(job.cpu, n)),
                       gpu |-> IF job.gpu = <<>> THEN <<>>
                               ELSE Append(readings.gpu, Shows(job.gpu, n))]
    /\ cache' = [r \in Registers |-> Absent]
    /\ held' = [r \in Registers |-> {mem[r]}] /\ sampled' = {}
    /\ Continue(0, 0, inactive)
    /\ UNCHANGED <<options, status, stage, failed, child, tested, inactive, files, mem>>

\* The GPU may fail after the CPU was read; the first sample is taken without a child.
SensorFails ==
    /\ phase = "sample"
    /\ job.cpu = <<>> \/ May("sensor")
    /\ \/ UNCHANGED readings
       \/ /\ job.gpu # <<>>
          /\ readings' = [readings EXCEPT !.cpu = Append(@, Shows(job.cpu, Len(@) + 1))]
    /\ IF stage = "first" THEN Exit(1) /\ UNCHANGED failed
                          ELSE phase' = "stop" /\ failed' = TRUE /\ UNCHANGED status
    /\ UNCHANGED <<options, stage, child, tested, inactive, turn, cache, sampled, held, files, mem>>

reading == tested[turn[1]].fans[turn[2]]

\* The bytes Fan_ECReadValue reads, the lower one first; none if a method does it.
Bytes(fan) == LET r == fan.config.ReadRegister
              IN IF ReadSource(fan.config) # "register" THEN <<>>
                 ELSE IF fan.readWords THEN <<r, r + 1>> ELSE <<r>>

Readable(fan) == \A i \in DOMAIN Bytes(fan) : Bytes(fan)[i] \in Registers
Missing == {i \in DOMAIN Bytes(reading) : cache[Bytes(reading)[i]] = Absent}

\* EC_Cache_ReadByte, where the byte is not in the cache.
CacheByte ==
    /\ phase = "fans" /\ Readable(reading) /\ Missing # {}
    /\ LET r == Bytes(reading)[Min(Missing)] IN cache' = [cache EXCEPT ![r] = mem[r]]
    /\ UNCHANGED <<options, phase, status, stage, failed, child, tested, inactive, turn, readings,
                   sampled, held, files, mem>>

Joined(bytes) == FoldRight(LAMBDA b, v : b + 2^Bits * v, bytes, 0)
CachedValue(fan) == Joined([i \in DOMAIN Bytes(fan) |-> cache[Bytes(fan)[i]]])

\* Of a register the ten tries find the same value in the cache.
Tries == IF Bytes(reading) = <<>> THEN {InReadRange(reading, v) : v \in Answers}
                                  ELSE {InReadRange(reading, CachedValue(reading))}

ReadFan ==
    /\ phase = "fans" /\ Readable(reading) /\ Missing = {}
    /\ \E v \in Tries :
           tested' = [tested EXCEPT ![turn[1]].speeds[turn[2]] =
                          Append(@, Fan_FanSpeedToPercentage(reading, v))]
    /\ sampled' = sampled \cup {<<Bytes(reading)[i], cache[Bytes(reading)[i]]>> :
                                    i \in DOMAIN Bytes(reading)}
    /\ Continue(turn[1], turn[2], inactive)
    /\ UNCHANGED <<options, status, stage, failed, child, inactive, cache, readings, held, files,
                   mem>>

ReadFanFails ==
    /\ phase = "fans"
    /\ Readable(reading) => May("read") /\ (Bytes(reading) = <<>> \/ Missing # {})
    /\ inactive' = inactive \cup {turn[1]}
    /\ Continue(turn[1], turn[2], inactive')
    /\ UNCHANGED <<options, status, stage, failed, child, tested, cache, readings, sampled, held,
                   files, mem>>

\* TestConfig_ReadingsDidChange, of the temperatures of the stage.
Differ(a, b) == a - b >= Threshold \/ b - a >= Threshold

ReadingsDidChange(temps) ==
    \/ Len(temps) < Steady
    \/ \E i \in 2..Steady : Differ(temps[Len(temps)], temps[Len(temps) + 1 - i])

Decide ==
    /\ phase = "decide"
    /\ IF stage = "first" THEN phase' = "fork" /\ stage' = "cpu"
       ELSE /\ phase' = IF ReadingsDidChange(readings[stage]) THEN "sample" ELSE "stop"
            /\ UNCHANGED stage
    /\ UNCHANGED <<options, status, failed, child, tester, files, mem>>

---------------------------------------------------------------------------
(* The child: it is "forked", "armed" once it is to be signalled when its parent *)
(* dies, "running" stress-ng, "told" to end, a "zombie", or there is none.       *)

Stress_Start ==
    /\ phase = "fork"
    /\ child' = "forked" /\ phase' = "sample"
    /\ UNCHANGED <<options, status, stage, failed, tester, files, mem>>

Stress_StartFails ==
    /\ phase = "fork" /\ May("fork")
    /\ failed' = TRUE /\ phase' = "stop"
    /\ UNCHANGED <<options, status, stage, child, tester, files, mem>>

\* SIGTERM ends a child that does not run stress-ng yet at once.
Terminated(c) == CASE c \in {"forked", "armed"} -> "zombie" [] c = "running" -> "told"
                   [] OTHER -> c

Stress_End ==
    /\ phase = "stop"
    /\ child' = Terminated(child) /\ phase' = "wait"
    /\ UNCHANGED <<options, status, stage, failed, tester, files, mem>>

\* waitpid has returned; without a child there was nothing to wait for.
Stress_Ended ==
    /\ phase = "wait" /\ child \in {"zombie", "none"}
    /\ child' = "none"
    /\ CASE failed -> Exit(1) /\ UNCHANGED stage
         [] ~failed /\ stage = "cpu" /\ job.gpu # <<>> ->
                phase' = "fork" /\ stage' = "gpu" /\ UNCHANGED status
         [] OTHER -> phase' = "open" /\ UNCHANGED <<stage, status>>
    /\ UNCHANGED <<options, failed, tester, files, mem>>

\* When the parent is gone nobody is left to wait for it.
Gone == IF Over THEN "none" ELSE "zombie"

ChildArms ==
    /\ child = "forked"
    /\ child' = "armed"
    /\ UNCHANGED <<options, phase, status, stage, failed, tester, files, mem>>

ChildExecs ==
    /\ child = "armed"
    /\ child' = IF Over THEN "none" ELSE "running"
    /\ UNCHANGED <<options, phase, status, stage, failed, tester, files, mem>>

ChildEnds ==
    /\ child = "told"
    /\ child' = Gone
    /\ UNCHANGED <<options, phase, status, stage, failed, tester, files, mem>>

\* prctl or execlp fails, or stress-ng ends by itself.
ChildDies ==
    /\ child \in {"forked", "armed", "running"} /\ May("child")
    /\ child' = Gone
    /\ UNCHANGED <<options, phase, status, stage, failed, tester, files, mem>>

\* A signal kills the program; the kernel sends the child the one it has asked for.
Kill ==
    /\ ~Over /\ May("kill")
    /\ phase' = "killed"
    /\ child' = CASE child \in {"armed", "running"} -> "told" [] child = "zombie" -> "none"
                  [] OTHER -> child
    /\ UNCHANGED <<options, status, stage, failed, tester, files, mem>>

---------------------------------------------------------------------------
(* The report *)

OpenReport ==
    /\ phase = "open"
    /\ results' = BrokenReport /\ phase' = "write"
    /\ UNCHANGED <<options, status, stage, failed, child, tester, printed, mem>>

\* Mutant: the readings of a configuration that was given up are written too.
AllIndexes == DOMAIN tested

ActiveIndexes == DOMAIN tested \ inactive

ConfigTester_ToJson ==
    LET chosen == InOrder(ActiveIndexes)
    IN [kind |-> "report", use_gpu |-> job.gpu # <<>>, cpu |-> readings.cpu, gpu |-> readings.gpu,
        configs |-> [k \in DOMAIN chosen |-> [name |-> tested[chosen[k]].name,
                                              fans |-> tested[chosen[k]].speeds]]]

WriteReport ==
    /\ phase = "write"
    /\ results' = ConfigTester_ToJson /\ Exit(0)
    /\ UNCHANGED <<options, stage, failed, child, tester, printed, mem>>

ReportFails ==
    /\ phase \in {"open", "write"} /\ May("write")
    /\ Exit(1)
    /\ UNCHANGED <<options, stage, failed, child, tester, files, mem>>

---------------------------------------------------------------------------
(* evaluate *)

\* The checks of ConfigWithReadings_CalculateScore.
Complete(c) ==
    /\ results.cpu # <<>>
    /\ results.use_gpu => Len(results.gpu) = Len(results.cpu)
    /\ \A i \in DOMAIN c.fans : Len(c.fans[i]) = Len(results.cpu)

\* The correlations, and the sums of two of them, of which the best is the score.
Candidates(c) ==
    LET cpu(i) == Correlation(c.fans[i], results.cpu)
        gpu(i) == Correlation(c.fans[i], results.gpu)
        fans == DOMAIN c.fans
    IN CASE ~results.use_gpu -> {cpu(i) : i \in fans}
         [] results.use_gpu /\ Len(c.fans) = 1 -> {cpu(1), gpu(1)}
         [] OTHER -> {cpu(p[1]) + gpu(p[2]) : p \in {p \in fans \X fans : p[1] # p[2]}}

Score(c) == Max(Candidates(c) \cup {0})

\* TestConfig_SortResultByScore leaves equal ones in their order.
Sorted(result) ==
    LET upTo(i) == {j \in DOMAIN result :
                       \/ result[j].score < result[i].score
                       \/ result[j].score = result[i].score /\ j <= i}
    IN [k \in DOMAIN result |-> result[CHOOSE i \in DOMAIN result : Cardinality(upTo(i)) = k]]

Evaluate ==
    /\ Opens("evaluate")
    /\ IF results.kind # "report"
       THEN Exit(1) /\ printed' = <<>>
       ELSE IF \E k \in DOMAIN results.configs : ~Complete(results.configs[k])
            THEN Exit(1) /\ printed' = <<>>
            ELSE /\ printed' = Sorted([k \in DOMAIN results.configs |->
                                          [name |-> results.configs[k].name,
                                           score |-> Score(results.configs[k])]])
                 /\ Exit(0)
    /\ tested' = <<>>
    /\ UNCHANGED results

---------------------------------------------------------------------------
Program == \/ Setup \/ SampleSensors \/ SensorFails \/ CacheByte \/ ReadFan \/ ReadFanFails \/ Decide
           \/ Stress_Start \/ Stress_End \/ Stress_Ended
           \/ OpenReport \/ WriteReport
Child == ChildArms \/ ChildExecs \/ ChildEnds
Faults == SetupFails \/ Stress_StartFails \/ ReportFails \/ ChildDies \/ Kill

Next == Begin \/ BeginNothing \/ Evaluate \/ Program \/ Child \/ Faults

\* For the others' steps: what the registers have held.
Observe == held' = [r \in Registers |-> held[r] \cup {mem'[r]}]

---------------------------------------------------------------------------
\* A command line, and the files there are when it comes.
IsJob(j, nodes) ==
    /\ DOMAIN j = {"action", "files", "disk", "cpu", "gpu", "faults"}
    /\ \A place \in DOMAIN j.disk : j.disk[place] \in nodes

---------------------------------------------------------------------------
\* The fans of a sample, of whatever configurations, are read from one set of
\* bytes: two that read the same register read the same value, and it is one the
\* register has had since the temperatures of the sample were read.
SamplesAreOfOneMoment ==
    /\ \A s \in sampled : s[2] \in held[s[1]]
    /\ \A s, t \in sampled : s[1] = t[1] => s = t

\* What a test has written as its report evaluate can use, all of it: none of the
\* lengths that it checks differ, whichever readings failed and when.  And a
\* configuration is given full marks exactly if a fan of it speeds up and slows
\* down with the temperature (two fans, each with its own, if the GPU was used).
ReportsAreEvaluable ==
    job.action = "evaluate" /\ phase = "ended" /\ results.kind = "report" =>
        LET FullMarks(c) ==
                LET n == DOMAIN c.fans
                    C(i) == Follows(c.fans[i], results.cpu)
                    G(i) == Follows(c.fans[i], results.gpu)
                IN CASE ~results.use_gpu -> \E i \in n : C(i)
                     [] results.use_gpu /\ Len(c.fans) = 1 -> C(1) \/ G(1)
                     [] OTHER -> \E i, j \in n : i # j /\ C(i) /\ G(j)
            most(c) == IF results.use_gpu /\ Len(c.fans) > 1 THEN 2 * Marks ELSE Marks
        IN /\ status = 0 /\ Len(printed) = Len(results.configs)
           /\ \A k \in DOMAIN results.configs : \E p \in DOMAIN printed :
                  LET c == results.configs[k]
                  IN printed[p].name = c.name /\ (printed[p].score = most(c) <=> FullMarks(c))

\* A test ends, once the temperatures hold still, and when it has ended or was
\* killed, at whatever moment, no stress-ng is left heating the machine.
TestEnds == ~Over \/ child # "none" ~> Over /\ child = "none"

\* Of every configuration that is accepted each field that the service will use is set,
\* and of those that exclude each other no other one (but for the value of a reset that
\* is not required, which old files have); its limits differ; and the table is one that
\* the threshold manager can walk.  That the values fit the registers is not said, as it
\* is not checked: doc/nbfc_service.json.5.md:247 asks for values up to 255 unless words
\* are written, and nobody does for a word at the last register.
FanExclusive == {"ReadRegister", "ReadAcpiMethod", "ReadLuaCode",
                 "WriteRegister", "WriteAcpiMethod", "WriteLuaCode",
                 "FanSpeedResetValue", "ResetAcpiMethod", "ResetLuaCode"}
RegisterExclusive == {"Value", "AcpiMethod", "LuaCode", "ResetValue", "ResetAcpiMethod", "ResetLuaCode"}
Unambiguous(object, uses, exclusive) ==
    /\ Has(object, uses)
    /\ (DOMAIN object \cap exclusive) \ uses
           \subseteq IF object.ResetRequired THEN {} ELSE {"FanSpeedResetValue", "ResetValue"}
AcceptedConfigsWork ==
    \A n \in DOMAIN tested :
        LET c == tested[n].config
            Works(fan) ==
                LET table == fan.config.TemperatureThresholds
                IN /\ Unambiguous(fan.config, FanUses(fan.config), FanExclusive)
                   /\ fan.minWrite # fan.maxWrite /\ fan.minRead # fan.maxRead
                   /\ table # <<>>
                   /\ \A k \in DOMAIN table : table[k].FanSpeed \in 0..Full
                   /\ \A k, l \in DOMAIN table :
                          /\ table[k].DownThreshold <= table[k].UpThreshold
                          /\ k # l => table[k].UpThreshold # table[l].UpThreshold
        IN /\ tested[n].fans # <<>> /\ \A i \in DOMAIN tested[n].fans : Works(tested[n].fans[i])
           /\ \A i \in DOMAIN c.RegisterWriteConfigurations :
                  LET r == c.RegisterWriteConfigurations[i] IN Unambiguous(r, RegisterWriteUses(r), RegisterExclusive)

\* What Fan_ECFlush writes to a fan whose limits fit what is written of them, for two
\* percentages, lies between the limits and is in the order they have, 0 and 100 percent
\* are the limits, and when it is read, by the same limits, it is what was asked for, to
\* half a step and half a part of a percent.  An override that is the first of its
\* percentage to be written is written instead, as far as it fits; the first of a value
\* to be read, which lies within the limits, is shown.  A fan that is written a byte may
\* have limits beyond one: those values are cut, and none of this is so.
ConversionsAgree ==
    phase = "sample" /\ stage = "first" => \A n \in DOMAIN tested : \A m \in DOMAIN tested[n].fans :
        LET fan == tested[n].fans[m]
            overrides == fan.config.FanSpeedPercentageOverrides
            set == {overrides[i] : i \in DOMAIN overrides}
            V(p) == Fan_PercentageToFanSpeed(fan, p)
            W(p) == Fan_ECWriteValue(fan, V(p))
            R(v) == Fan_FanSpeedToPercentage(fan, InReadRange(fan, v))
            fits(v) == v \in Limits("uint8") \/ fan.writeWords \/ WriteTarget(fan.config) # "register"
            plain(p) == \A o \in set : o.FanSpeedPercentage # p /\ o.FanSpeedValue # V(p)
            way == IF fan.minWrite < fan.maxWrite THEN 1 ELSE -1
            steps == way * (fan.maxWrite - fan.minWrite)
            percents == {k * Part : k \in 0..100}
            first(i, field, other) ==
                /\ overrides[i].TargetOperation # other
                /\ \A j \in DOMAIN overrides :
                       j < i /\ overrides[j].TargetOperation # other => overrides[j][field] # overrides[i][field]
        IN /\ fits(fan.minWrite) /\ fits(fan.maxWrite) =>
                  /\ \A p \in percents : plain(p) =>
                         /\ W(p) \in Lesser(fan.minWrite, fan.maxWrite)..Greater(fan.minWrite, fan.maxWrite)
                         /\ ~fan.config.IndependentReadMinMaxValues =>
                                2 * steps * Magnitude(R(W(p)) - p) <= Full + steps
                  /\ \A p \in percents \ {Full} : plain(p) /\ plain(p + Part) =>
                         way * W(p) <= way * W(p + Part)
                  /\ plain(0) => W(0) = fan.minWrite
                  /\ plain(Full) => W(Full) = fan.maxWrite
           /\ \A i \in DOMAIN overrides :
                  LET o == overrides[i]
                  IN /\ first(i, "FanSpeedPercentage", "Read") /\ fits(o.FanSpeedValue) =>
                            W(o.FanSpeedPercentage) = o.FanSpeedValue
                     /\ first(i, "FanSpeedValue", "Write") /\ InReadRange(fan, o.FanSpeedValue) = o.FanSpeedValue =>
                            R(o.FanSpeedValue) = o.FanSpeedPercentage
================================================================================
