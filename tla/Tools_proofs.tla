----------------------------- MODULE Tools_proofs -----------------------------
(***************************************************************************)
(* What holds of ec_probe and of `nbfc test-config', run side by side on   *)
(* the registers of one embedded controller that the firmware writes to    *)
(* as well (Tools.tla), for every number of registers, every command line  *)
(* and every configuration: a probe puts back what it found or says that   *)
(* it failed, its values fit and each of its ranges ends, and the fan      *)
(* speeds of a sample were read from one set of bytes.  And what holds of  *)
(* the service's files (ServiceFiles.tla), for everything that may be in   *)
(* them: what the user sets up and orders is kept.                         *)
(***************************************************************************)
EXTENDS Tools, FiniteLemmas

\* The variables that only ec_probe changes.
LEMMA OthersKeepProbe ==
    ASSUME ToolsNext, ~ (Run \/ Signal \/ Firmware \/ Start)
    PROVE  UNCHANGED probeVars
BY DEF ToolsNext, Beside, Rating, SettingUp

--------------------------------------------------------------------------------
(* ec_probe probe *)

\* Where a probe is: until its register has been saved nothing has been written, a dry
\* one never writes, and one that has ended either had not begun to write or tried to
\* write the saved value last, which for a success was done.
ProbeInv ==
    opts.cmd = "probe" =>
        /\ pc \in {"main", "open", "save", "probe", "reads", "restore", "done", "killed"}
        /\ pc \in {"main", "open", "save"} \/ opts.dry => wrote = NoWrite
        /\ pc = "done" => wrote \in {NoWrite} \cup Restoring
        /\ pc = "done" /\ code = Success /\ ~ opts.dry => wrote = [value |-> saved, failed |-> FALSE]

\* The first complaint about a command line is no success.
LEMMA ComplaintIsNoSuccess == Complaint # Success
<1>. DEFINE OfRead(r) ==
                IF Resolved(r.register).code # Running THEN Resolved(r.register).code
                ELSE IF WordFits(r.word, Resolved(r.register).addr) THEN Running
                ELSE CmdLine
            bad == {i \in DOMAIN opts.reads : OfRead(opts.reads[i]) # Running}
            Unsuccessful == {Running, CmdLine, Failure}
<1>1. ASSUME NEW ref PROVE Resolved(ref).code \in Unsuccessful
  BY DEF Resolved
<1>2. OfRead(opts.reads[Min(bad)]) \in Unsuccessful
  BY <1>1
<1>3. Resolved(opts.register).code \in Unsuccessful
  BY <1>1
<1>4. Success \notin Unsuccessful
  BY DEF Success, Failure, CmdLine, Running
<1>5. Complaint =
        IF ~opts.complete THEN CmdLine
        ELSE IF Resolved(opts.register).code # Running THEN Resolved(opts.register).code
        ELSE CASE opts.cmd = "probe" -> IF ~WordFits(opts.word, Register) THEN CmdLine
                                        ELSE IF bad = {} THEN Running
                                        ELSE OfRead(opts.reads[Min(bad)])
               [] opts.cmd = "load" -> Failure
               [] OTHER -> Running
  BY Zenon DEF Complaint
<1>. HIDE DEF OfRead, bad
<1>6. Complaint \in Unsuccessful
  BY <1>2, <1>3, <1>5
<1>. QED BY <1>4, <1>6

LEMMA TooLargeIsNoSuccess == TooLarge # Success
BY DEF TooLarge, Success, Failure, CmdLine, Running

LEMMA RunKeepsProbe == ASSUME ProbeInv, Run PROVE ProbeInv'
<1>. USE DEF ProbeInv, Restoring
<1>1. CASE Main
  BY <1>1, ComplaintIsNoSuccess DEF Main, Exit, history
<1>2. CASE Initialize_EC
  BY <1>2, TooLargeIsNoSuccess DEF Initialize_EC, Exit, Command, history, Success, Failure
<1>3. CASE OpenFails
  BY <1>3 DEF OpenFails, Exit, history, Success, Failure
<1>4. CASE Read \/ Write \/ WriteOrDie
  BY <1>4 DEF Read, Write, WriteOrDie
<1>5. CASE ReadOrDie
  BY <1>5 DEF ReadOrDie, Exit, history, Success, Failure
<1>6. CASE Save
  BY <1>6 DEF Save, history
<1>7. CASE ProbeWrites
  BY <1>7 DEF ProbeWrites, WriteSucceeds, process
<1>8. CASE ProbeWriteFails
  BY <1>8 DEF ProbeWriteFails, WriteFails
<1>9. CASE ProbeReads
  BY <1>9 DEF ProbeReads
<1>10. CASE ProbeReadFails
  BY <1>10 DEF ProbeReadFails, history
<1>11. CASE Restore
  <2>1. pc' = "done" /\ opts' = opts /\ saved' = saved
    BY <1>11 DEF Restore, Exit
  <2>2. CASE opts.dry
    BY <1>11, <2>1, <2>2 DEF Restore
  <2>3. CASE ~ opts.dry
    <3>1. wrote' = [value |-> saved, failed |-> FALSE]
      BY <1>11, <2>3 DEF Restore, WriteSucceeds
    <3>. QED BY <2>1, <2>3, <3>1
  <2>. QED BY <2>2, <2>3
<1>12. CASE RestoreFails
  BY <1>12 DEF RestoreFails, WriteFails, Exit, Success, Failure
<1>13. CASE Scan \/ Loop \/ MonitorFails \/ WriteMonitorReport \/ Evaluate
  BY <1>13 DEF Scan, Loop, MonitorFails, WriteMonitorReport, Evaluate
<1>14. CASE ShellEnds \/ ShellOpens \/ ShellCommand
  BY <1>14 DEF ShellEnds, ShellOpens, ShellCommand
<1>. QED
  BY <1>1, <1>2, <1>3, <1>4, <1>5, <1>6, <1>7, <1>8, <1>9, <1>10, <1>11, <1>12, <1>13, <1>14
  DEF Run

\* A signal, the firmware and the next command line.
LEMMA SurroundingsKeepProbe ==
    ASSUME ProbeInv, Signal \/ Firmware \/ Start PROVE ProbeInv'
<1>. USE DEF ProbeInv, Restoring
<1>1. CASE Signal
  BY <1>1 DEF Signal, process, history
<1>2. CASE Firmware
  BY <1>2 DEF Firmware, process, history
<1>3. CASE Start
  BY <1>3 DEF Start
<1>. QED BY <1>1, <1>2, <1>3

\* Whatever fails and whenever a signal comes, and whatever the firmware and the other
\* programs do meanwhile: an ec_probe probe that ends, and has tried to write anything, has
\* tried last to put back what it had found in the register; if it ends with success that
\* write was done, and with --dry-run it has written nothing.
THEOREM ProbeRestores == ToolsSpec => []RestoresOrReports
<1>1. ToolsInit => ProbeInv
  BY DEF ToolsInit, Fresh, ProbeInv
<1>2. ASSUME ProbeInv, [ToolsNext]_allVars PROVE ProbeInv'
  <2>1. CASE Run \/ Signal \/ Firmware \/ Start
    BY <1>2, <2>1, RunKeepsProbe, SurroundingsKeepProbe
  <2>2. CASE ~ (Run \/ Signal \/ Firmware \/ Start) /\ ToolsNext
    BY <1>2, <2>2, OthersKeepProbe DEF probeVars, process, history, ProbeInv, Restoring
  <2>3. CASE UNCHANGED allVars
    BY <1>2, <2>3 DEF allVars, probeVars, process, history, ProbeInv, Restoring
  <2>. QED BY <1>2, <2>1, <2>2, <2>3
<1>3. ProbeInv => RestoresOrReports
  BY DEF ProbeInv, RestoresOrReports
<1>. QED BY <1>1, <1>2, <1>3, PTL DEF ToolsSpec

--------------------------------------------------------------------------------
(* The values of a probe *)

\* The values of a range lie between its ends, and go from one to the other.
Rises(r) == r.type \in {"add", "mul"}
Between(r, v) == v \in IF Rises(r) THEN r.start..r.stop ELSE r.stop..r.start
Nearer(r, v, next) == IF Rises(r) THEN v < next ELSE next < v

\* What every text that is accepted is parsed to: a factor is no 0 and no 1, and does not
\* begin at 0, where it would get nowhere.
IsRange(r) ==
    /\ r.start \in Nat /\ r.stop \in Nat /\ r.step \in Nat
    /\ r.type \in {"add", "sub", "mul", "div"}
    /\ Between(r, r.start)
    /\ r.type \in {"mul", "div"} => r.step > 1 /\ r.start > 0

\* Range_Parse returns such a range or fails.
LEMMA ParsedRanges ==
    ASSUME NEW t \in Text, Range_Parse(t) # NoRange PROVE IsRange(Range_Parse(t))
<1>1. t.num1 \in Nat \cup {-1} /\ t.num2 \in Nat \cup {-1} /\ t.num3 \in Nat \cup {-1}
      /\ t.op \in {"", "+", "-", "*", "/", "?"}
  BY DEF Text, Absent
<1>2. ~ t.rest /\ NumbersFit(t)
  BY DEF Range_Parse
<1>3. Range_Parse(t) =
        CASE IsValue(t) -> [start |-> t.num1, stop |-> t.num1, step |-> 0, type |-> "add"]
          [] IsSteps(t) /\ StepFits(t) ->
                [start |-> t.num1, stop |-> t.num2, step |-> t.num3, type |-> Operator(t)]
          [] IsSpan(t) ->
                [start |-> t.num1, stop |-> t.num2,
                 step |-> IF t.num1 = t.num2 THEN 0 ELSE 1,
                 type |-> IF t.num1 <= t.num2 THEN "add" ELSE "sub"]
          [] OTHER -> NoRange
  BY <1>2 DEF Range_Parse
<1>4. CASE IsValue(t)
  <2>1. Range_Parse(t) = [start |-> t.num1, stop |-> t.num1, step |-> 0, type |-> "add"]
    BY <1>3, <1>4 DEF IsValue, IsSteps, IsSpan
  <2>2. t.num1 \in Nat
    BY <1>1, <1>4 DEF IsValue, Absent
  <2>. QED BY <2>1, <2>2 DEF IsRange, Between, Rises
<1>5. CASE ~ IsValue(t) /\ IsSteps(t) /\ StepFits(t)
  <2>1. Range_Parse(t) = [start |-> t.num1, stop |-> t.num2, step |-> t.num3, type |-> Operator(t)]
    BY <1>3, <1>5 DEF IsSteps, IsSpan
  <2>2. t.num1 \in Nat /\ t.num2 \in Nat /\ t.num3 \in Nat
    BY <1>1, <1>5 DEF IsSteps, Absent
  <2>3. CASE t.op \in {"", "+"}
    <3>1. Operator(t) = "add" /\ t.num1 <= t.num2
      BY <1>5, <2>3 DEF StepFits, Operator
    <3>. QED BY <2>1, <2>2, <3>1 DEF IsRange, Between, Rises
  <2>4. CASE t.op = "-"
    <3>1. Operator(t) = "sub" /\ t.num2 <= t.num1
      BY <1>5, <2>2, <2>4 DEF StepFits, Operator
    <3>. QED BY <2>1, <2>2, <3>1 DEF IsRange, Between, Rises
  <2>5. CASE t.op = "*"
    <3>1. Operator(t) = "mul" /\ t.num1 <= t.num2 /\ t.num1 > 0 /\ t.num3 > 1
      BY <1>5, <2>2, <2>5 DEF StepFits, Operator
    <3>. QED BY <2>1, <2>2, <3>1 DEF IsRange, Between, Rises
  <2>6. CASE t.op = "/"
    <3>1. Operator(t) = "div" /\ t.num2 <= t.num1 /\ t.num1 > 0 /\ t.num3 > 1
      BY <1>5, <2>2, <2>6 DEF StepFits, Operator
    <3>. QED BY <2>1, <2>2, <3>1 DEF IsRange, Between, Rises
  <2>. QED BY <1>1, <1>5, <2>3, <2>4, <2>5, <2>6 DEF StepFits
<1>6. CASE ~ IsValue(t) /\ ~ (IsSteps(t) /\ StepFits(t)) /\ IsSpan(t)
  <2>1. Range_Parse(t) = [start |-> t.num1, stop |-> t.num2,
                          step |-> IF t.num1 = t.num2 THEN 0 ELSE 1,
                          type |-> IF t.num1 <= t.num2 THEN "add" ELSE "sub"]
    BY <1>3, <1>6
  <2>2. t.num1 \in Nat /\ t.num2 \in Nat
    BY <1>1, <1>6 DEF IsSpan, Absent
  <2>3. CASE t.num1 <= t.num2
    BY <2>1, <2>2, <2>3 DEF IsRange, Between, Rises
  <2>4. CASE ~ (t.num1 <= t.num2)
    BY <2>1, <2>2, <2>4 DEF IsRange, Between, Rises
  <2>. QED BY <2>3, <2>4
<1>. QED BY <1>3, <1>4, <1>5, <1>6

\* So are the presets.
LEMMA PresetRanges ==
    ASSUME NEW name \in Presets, NEW top \in Nat, NEW bit \in 1..top
    PROVE  IsRange(Preset(name, top, bit))
BY DEF Presets, Preset, IsRange, Between, Rises

\* A factor of 2 and more makes a number larger, a divisor smaller.
LEMMA ProductGrows ==
    ASSUME NEW v \in Nat \ {0}, NEW s \in Nat, s > 1 PROVE v * s \in Nat /\ v < v * s
BY SMTT(30)

LEMMA QuotientShrinks ==
    ASSUME NEW v \in Nat \ {0}, NEW s \in Nat, s > 1 PROVE v \div s \in Nat /\ v \div s < v
BY SMTT(30)

\* Range_Iterate goes on towards the end of the range and stays within it.
LEMMA RangesAdvance ==
    ASSUME NEW r, NEW v, IsRange(r), Between(r, v), Range_Iterate(r, v) # Absent
    PROVE  /\ Between(r, Range_Iterate(r, v))
           /\ Nearer(r, v, Range_Iterate(r, v))
<1>. USE DEF IsRange, Between, Rises, Nearer
<1>1. v \in Nat
  OBVIOUS
<1>2. r.step # 0 /\ Stepped(r, v) # Absent
  <2>1. Stepped(r, v) # Absent
    BY Zenon DEF Range_Iterate
  <2>. QED BY <2>1 DEF Stepped
<1>3. CASE r.type = "add"
  BY <1>1, <1>2, <1>3 DEF Range_Iterate, Stepped, Added
<1>4. CASE r.type = "sub"
  BY <1>1, <1>2, <1>4 DEF Range_Iterate, Stepped
<1>5. CASE r.type = "mul"
  <2>1. v * r.step \in Nat /\ v < v * r.step
    BY <1>1, <1>5, ProductGrows
  <2>2. Range_Iterate(r, v) = v * r.step /\ v * r.step <= r.stop
    BY <1>2, <1>5, <2>1 DEF Range_Iterate, Stepped
  <2>. QED BY <1>1, <1>5, <2>1, <2>2
<1>6. CASE r.type = "div"
  <2>1. v # 0
    BY <1>2, <1>6 DEF Stepped
  <2>2. v \div r.step \in Nat /\ v \div r.step < v
    BY <1>1, <1>6, <2>1, QuotientShrinks
  <2>3. Range_Iterate(r, v) = v \div r.step /\ v \div r.step >= r.stop
    BY <1>2, <1>6, <2>1, <2>2 DEF Range_Iterate, Stepped
  <2>. QED BY <1>1, <1>6, <2>2, <2>3
<1>. QED BY <1>3, <1>4, <1>5, <1>6

\* All the ranges of a probe are such ranges, and there is at least one.
LEMMA RangesAreRanges ==
    ASSUME CommandsAreParsed, IsParsed(opts), opts.cmd = "probe", RangesFit
    PROVE  /\ Len(ranges) \in Nat \ {0} /\ DOMAIN ranges = 1..Len(ranges)
           /\ \A i \in DOMAIN ranges : /\ IsRange(ranges[i])
                                       /\ Range_IsInRange(ranges[i], Top(opts.word))
<1>. DEFINE Accepted == {t \in Text : t.preset \in Presets \cup {""}}
<1>1. opts.values \in Seq(Accepted) /\ opts.word \in BOOLEAN
  BY DEF IsParsed
<1>2. ASSUME NEW t \in Accepted PROVE t \in Text /\ t.preset \in Presets \cup {""}
  OBVIOUS
<1>. HIDE DEF Accepted
<1>3. DOMAIN ranges = 1..Len(opts.values) /\ Len(opts.values) \in Nat
  BY <1>1 DEF ranges
<1>4. Len(opts.values) # 0
  <2>. SUFFICES ASSUME Len(opts.values) = 0 PROVE FALSE
    OBVIOUS
  <2>1. opts.values = <<>>
    BY <1>1
  <2>2. ranges = <<>>
    BY <2>1 DEF ranges
  <2>. QED BY <2>2 DEF RangesFit
<1>5. Len(ranges) = Len(opts.values)
  <2>1. ranges = [i \in 1..Len(opts.values) |-> RangeOf(opts.values[i])]
    BY <1>1, <1>3 DEF ranges
  <2>. QED BY <1>3, <2>1
<1>6. ASSUME NEW i \in DOMAIN ranges PROVE IsRange(ranges[i])
  <2>1. opts.values[i] \in Accepted
    BY <1>1, <1>3, <1>6
  <2>2. ranges[i] = RangeOf(opts.values[i])
    BY <1>6 DEF ranges
  <2>3. ranges[i] # NoRange
    BY <1>6 DEF RangesFit
  <2>4. CASE opts.values[i].preset # ""
    <3>1. ranges[i] = Preset(opts.values[i].preset, Top(opts.word), HighBit(opts.word))
      BY <2>2, <2>4 DEF RangeOf
    <3>. QED BY <1>1, <1>2, <2>1, <2>4, <3>1, PresetRanges DEF CommandsAreParsed
  <2>5. CASE opts.values[i].preset = ""
    <3>1. ranges[i] = Range_Parse(opts.values[i])
      BY <2>2, <2>5 DEF RangeOf
    <3>. QED BY <1>2, <2>1, <2>3, <3>1, ParsedRanges
  <2>. QED BY <2>4, <2>5
<1>7. \A i \in DOMAIN ranges : Range_IsInRange(ranges[i], Top(opts.word))
  BY DEF RangesFit
<1>. QED BY <1>3, <1>4, <1>5, <1>6, <1>7

\* A probe has checked all its ranges before it saves the register, and while it writes it
\* is in one of them.
ProbedInv ==
    /\ todo \in Seq(Commands)
    /\ pc \notin {"done", "killed"} => IsParsed(opts)
    /\ pc = "open" => opts.cmd \notin {"help", "load", "evaluate", "shell"}
    /\ pc \in {"save", "probe", "reads"} => opts.cmd = "probe" /\ RangesFit
    /\ pc \in {"probe", "reads"} => at \in DOMAIN ranges /\ Between(ranges[at], value)

\* `load' ends with an error.
LEMMA LoadIsComplained == ASSUME opts.cmd = "load" PROVE Complaint # Running
<1>1. CmdLine # Running /\ Failure # Running
  BY DEF CmdLine, Failure, Running
<1>. QED BY <1>1 DEF Complaint

\* The next value is nearer to the end of its range, or the first of the next range.
LEMMA ProbeReadsAdvances ==
    ASSUME CommandsAreParsed, ProbedInv, ProbeReads, pc' = "probe"
    PROVE  /\ at' \in DOMAIN ranges /\ Between(ranges[at'], value')
           /\ \/ at' = at /\ Nearer(ranges[at], value, value')
              \/ at' = After(at) /\ value' = ranges[After(at)].start
<1>1. /\ Len(ranges) \in Nat \ {0} /\ DOMAIN ranges = 1..Len(ranges)
      /\ \A i \in DOMAIN ranges : IsRange(ranges[i])
      /\ at \in DOMAIN ranges /\ Between(ranges[at], value)
  BY RangesAreRanges DEF ProbedInv, ProbeReads
<1>2. CASE Range_Iterate(ranges[at], value) = Absent
  <2>1. at' = After(at) /\ value' = ranges[After(at)].start
    BY <1>2 DEF ProbeReads
  <2>2. After(at) \in DOMAIN ranges
    BY <1>1 DEF After
  <2>3. Between(ranges[After(at)], ranges[After(at)].start)
    BY <1>1, <2>2 DEF IsRange
  <2>. QED BY <2>1, <2>2, <2>3
<1>3. CASE Range_Iterate(ranges[at], value) # Absent
  <2>1. at' = at /\ value' = Range_Iterate(ranges[at], value)
    BY <1>3 DEF ProbeReads
  <2>. QED BY <1>1, <1>3, <2>1, RangesAdvance
<1>. QED BY <1>2, <1>3

LEMMA RunKeepsProbed == ASSUME CommandsAreParsed, ProbedInv, Run PROVE ProbedInv'
<1>. USE DEF ProbedInv
<1>1. CASE Main
  <2>1. UNCHANGED <<opts, todo>> /\ pc' \in {"done", "evaluate", "shell", "open"}
    BY <1>1 DEF Main, Exit, history
  <2>2. pc' = "open" => opts.cmd \notin {"help", "load", "evaluate", "shell"}
    BY <1>1, LoadIsComplained DEF Main, Exit
  <2>3. pc' # "done" => IsParsed(opts)'
    BY <1>1, <2>1 DEF Main, IsParsed
  <2>. QED BY <2>1, <2>2, <2>3
<1>2. CASE Initialize_EC
  <2>1. UNCHANGED <<opts, todo>> /\ pc = "open" /\ IsParsed(opts)
    BY <1>2 DEF Initialize_EC, history
  <2>2. Command \in {"read", "write", "save", "scan", "loop"} /\ (Command = "save" => opts.cmd = "probe")
    BY <2>1 DEF Command, IsParsed
  <2>3. pc' \in {"done", "read", "write", "save", "scan", "loop"}
        /\ (pc' = "save" => opts.cmd = "probe" /\ RangesFit)
    BY <1>2, <2>2 DEF Initialize_EC, Exit
  <2>4. IsParsed(opts)' /\ (RangesFit => RangesFit')
    BY <2>1 DEF IsParsed, RangesFit, ranges, RangeOf
  <2>. QED BY <2>1, <2>3, <2>4
<1>3. CASE Save
  <2>1. opts' = opts /\ todo' = todo /\ pc' = "probe" /\ at' = 1 /\ value' = ranges[1].start
    BY <1>3 DEF Save, history
  <2>2. opts.cmd = "probe" /\ RangesFit /\ IsParsed(opts)
    BY <1>3 DEF Save
  <2>3. 1 \in DOMAIN ranges /\ IsRange(ranges[1])
    BY <2>2, RangesAreRanges
  <2>4. ranges' = ranges /\ RangesFit' /\ IsParsed(opts)'
    BY <2>1, <2>2 DEF IsParsed, RangesFit, ranges, RangeOf
  <2>5. Between(ranges[1], ranges[1].start)
    BY <2>3 DEF IsRange
  <2>. QED BY <2>1, <2>2, <2>3, <2>4, <2>5 DEF Between, Rises
<1>4. CASE ProbeWrites
  <2>1. UNCHANGED <<opts, todo, at, value>> /\ pc = "probe" /\ pc' = "reads"
    BY <1>4 DEF ProbeWrites, process
  <2>2. ranges' = ranges /\ (RangesFit => RangesFit') /\ (IsParsed(opts) => IsParsed(opts)')
    BY <2>1 DEF IsParsed, RangesFit, ranges, RangeOf
  <2>. QED BY <2>1, <2>2 DEF Between, Rises
<1>5. CASE ProbeReads
  <2>1. opts' = opts /\ todo' = todo /\ pc = "reads" /\ pc' \in {"probe", "restore"}
    BY <1>5 DEF ProbeReads
  <2>2. ranges' = ranges /\ (RangesFit => RangesFit') /\ (IsParsed(opts) => IsParsed(opts)')
    BY <2>1 DEF IsParsed, RangesFit, ranges, RangeOf
  <2>3. CASE pc' = "probe"
    <3>1. at' \in DOMAIN ranges /\ Between(ranges[at'], value')
      BY <1>5, <2>3, ProbeReadsAdvances
    <3>. QED BY <2>1, <2>2, <2>3, <3>1 DEF Between, Rises
  <2>. QED BY <2>1, <2>2, <2>3
<1>6. CASE \/ OpenFails \/ Read \/ Write \/ WriteOrDie \/ ReadOrDie \/ ProbeWriteFails \/ ProbeReadFails
           \/ Restore \/ RestoreFails \/ Scan \/ Loop \/ MonitorFails \/ WriteMonitorReport
           \/ Evaluate \/ ShellEnds \/ ShellOpens \/ ShellCommand
  <2>1. UNCHANGED <<opts, todo>> /\ pc \notin {"done", "killed"}
    BY <1>6 DEF OpenFails, Read, Write, WriteOrDie, ReadOrDie, ProbeWriteFails, ProbeReadFails,
       Restore, RestoreFails, Scan, Loop, MonitorFails, WriteMonitorReport, Evaluate,
       ShellEnds, ShellOpens, ShellCommand, history
  <2>2. pc' \in {"done", "write", "restore", "scan", "loop", "report", "shell"}
    BY <1>6 DEF OpenFails, Read, Write, WriteOrDie, ReadOrDie, ProbeWriteFails, ProbeReadFails,
       Restore, RestoreFails, Scan, Loop, MonitorFails, WriteMonitorReport, Evaluate,
       ShellEnds, ShellOpens, ShellCommand, Exit
  <2>3. IsParsed(opts)'
    BY <2>1 DEF IsParsed
  <2>. QED BY <2>1, <2>2, <2>3
<1>. QED BY <1>1, <1>2, <1>3, <1>4, <1>5, <1>6 DEF Run

\* A step that leaves the command and the value alone.
LEMMA AsideKeepsProbed ==
    ASSUME ProbedInv, UNCHANGED <<opts, todo, at, value>>, pc' \in {pc, "killed"}
    PROVE  ProbedInv'
<1>1. ranges' = ranges /\ (RangesFit => RangesFit') /\ (IsParsed(opts) => IsParsed(opts)')
  BY DEF IsParsed, RangesFit, ranges, RangeOf
<1>. QED BY <1>1 DEF ProbedInv, Between, Rises

LEMMA StartKeepsProbed == ASSUME CommandsAreParsed, ProbedInv, Start PROVE ProbedInv'
<1>1. todo \in Seq(Commands) /\ todo # <<>>
  BY DEF ProbedInv, Start
<1>2. Head(todo) \in Commands /\ Tail(todo) \in Seq(Commands)
  BY <1>1
<1>3. opts' = Head(todo) /\ todo' = Tail(todo) /\ pc' = "main"
  BY DEF Start
<1>4. IsParsed(Head(todo))
  BY <1>2 DEF CommandsAreParsed
<1>5. IsParsed(opts)'
  BY <1>3, <1>4 DEF IsParsed
<1>. QED BY <1>2, <1>3, <1>5 DEF ProbedInv

LEMMA StepKeepsProbed ==
    ASSUME CommandsAreParsed, ProbedInv, [ToolsNext]_allVars PROVE ProbedInv'
<1>1. CASE Run
  BY <1>1, RunKeepsProbed
<1>2. CASE Signal
  BY <1>2, AsideKeepsProbed DEF Signal, process, history
<1>3. CASE Firmware
  BY <1>3, AsideKeepsProbed DEF Firmware, process, history
<1>4. CASE Start
  BY <1>4, StartKeepsProbed
<1>5. CASE ~ (Run \/ Signal \/ Firmware \/ Start) /\ ToolsNext
  BY <1>5, OthersKeepProbe, AsideKeepsProbed DEF probeVars, process, history
<1>6. CASE UNCHANGED allVars
  BY <1>6, AsideKeepsProbed DEF allVars, probeVars, process, history
<1>. QED BY <1>1, <1>2, <1>3, <1>4, <1>5, <1>6

LEMMA BeginsProbed == ASSUME CommandsAreParsed, ToolsInit PROVE ProbedInv
<1>1. todo \in Sessions
  BY ToolsAssumption DEF ToolsInit
<1>. QED BY <1>1 DEF CommandsAreParsed, ToolsInit, Fresh, ProbedInv

\* Whatever ranges, steps and presets a probe is told, forwards or backwards, by sums or
\* by factors: no value it writes is too large for the register, or negative.
THEOREM ProbedValuesFit == ASSUME CommandsAreParsed PROVE ToolsSpec => []ValuesFit
<1>1. ToolsInit => ProbedInv
  BY BeginsProbed
<1>2. ProbedInv /\ [ToolsNext]_allVars => ProbedInv'
  BY StepKeepsProbed
<1>3. ProbedInv => ValuesFit
  <2>. SUFFICES ASSUME ProbedInv, pc \in {"probe", "reads"} PROVE value \in 0..Top(opts.word)
    BY DEF ValuesFit
  <2>1. /\ IsRange(ranges[at]) /\ Between(ranges[at], value)
        /\ Range_IsInRange(ranges[at], Top(opts.word)) /\ opts.word \in BOOLEAN
    BY RangesAreRanges DEF ProbedInv, IsParsed
  <2>2. Top(opts.word) \in Nat
    BY <2>1 DEF CommandsAreParsed
  <2>. QED BY <2>1, <2>2 DEF IsRange, Between, Range_IsInRange
<1>. QED BY <1>1, <1>2, <1>3, PTL DEF ToolsSpec

\* After a value comes one of the same range that is nearer to its end, or the first of
\* the next one.
Advances ==
    pc = "reads" /\ pc' = "probe" =>
        \/ at' = at /\ Between(ranges[at], value') /\ Nearer(ranges[at], value, value')
        \/ at' = After(at) /\ value' = ranges[After(at)].start

\* No range keeps a probe for ever: each of its values is strictly nearer to the end of the
\* range than the one before and not beyond it, until the next range begins.
THEOREM ProbesAdvance == ASSUME CommandsAreParsed PROVE ToolsSpec => [][Advances]_allVars
<1>1. ToolsInit => ProbedInv
  BY BeginsProbed
<1>2. ProbedInv /\ [ToolsNext]_allVars => ProbedInv'
  BY StepKeepsProbed
<1>3. ProbedInv /\ [ToolsNext]_allVars => [Advances]_allVars
  <2>. SUFFICES ASSUME ProbedInv, ToolsNext, pc = "reads", pc' = "probe" PROVE Advances
    BY DEF Advances
  <2>1. CASE Run
    <3>1. ProbeReads
      BY <2>1 DEF Run, Main, Initialize_EC, OpenFails, Read, Write, WriteOrDie, ReadOrDie, Save,
         ProbeWrites, ProbeWriteFails, ProbeReadFails, Restore, RestoreFails, Scan, Loop,
         MonitorFails, WriteMonitorReport, Evaluate, ShellEnds, ShellOpens, ShellCommand, Exit
    <3>. QED BY <3>1, ProbeReadsAdvances DEF Advances
  <2>2. CASE Signal \/ Firmware \/ Start
    BY <2>2 DEF Signal, Firmware, Start
  <2>3. CASE ~ (Run \/ Signal \/ Firmware \/ Start)
    BY <2>3, OthersKeepProbe DEF probeVars
  <2>. QED BY <2>1, <2>2, <2>3
<1>. QED BY <1>1, <1>2, <1>3, PTL DEF ToolsSpec

--------------------------------------------------------------------------------
(* The cache of test-config *)

\* What is cached during a sample the register has held since the sample began, the
\* fans were read from what is cached, and while they are being read the history knows
\* what the registers hold now.
SampleInv ==
    /\ DOMAIN cache = Test!Registers
    /\ \A r \in Test!Registers : cache[r] # Test!Absent => cache[r] \in held[r]
    /\ \A s \in sampled : /\ s[1] \in Test!Registers /\ s = <<s[1], cache[s[1]]>>
                          /\ cache[s[1]] # Test!Absent
    /\ phase = "fans" => \A r \in Test!Registers : mem[r] \in held[r]

\* While somebody else makes a step, the history goes on and the cache stays.
LEMMA AsideKeepsSample == ASSUME SampleInv, Aside PROVE SampleInv'
<1>1. /\ cache' = cache /\ sampled' = sampled /\ phase' = phase
      /\ held' = [r \in Test!Registers |-> held[r] \cup {mem'[r]}]
  BY DEF Aside, Test!Observe, testVars
<1>2. ASSUME NEW r \in Test!Registers
      PROVE  held[r] \subseteq held'[r] /\ mem'[r] \in held'[r]
  BY <1>1
<1>. QED BY <1>1, <1>2 DEF SampleInv

\* A sample begins with an empty cache.
LEMMA EmptySample ==
    ASSUME cache' = [r \in Test!Registers |-> Test!Absent], sampled' = {},
           phase' = "fans" => \A r \in Test!Registers : mem'[r] \in held'[r]
    PROVE  SampleInv'
BY DEF SampleInv

LEMMA BeginKeepsSample == ASSUME SampleInv, Testing PROVE SampleInv'
<1>1. PICK action : Test!Opens(action)
  BY DEF Testing, Test!Begin, Test!BeginNothing, Test!Evaluate
<1>2. phase' # "fans"
  BY DEF Testing, Test!Begin, Test!BeginNothing, Test!Evaluate, Test!Exit
<1>. QED BY <1>1, <1>2, EmptySample DEF Test!Opens

\* Steps of the program that leave the sample alone.
LEMMA OtherStepsKeepSample ==
    ASSUME SampleInv, UNCHANGED <<cache, sampled, held, mem>>, phase' = "fans" => phase = "fans"
    PROVE  SampleInv'
BY DEF SampleInv

\* There is a first of the bytes that are missing.
LEMMA MissingHasMin == Test!Missing # {} => Test!Min(Test!Missing) \in Test!Missing
<1>1. Test!Missing \subseteq Nat
  BY DEF Test!Missing, Test!Bytes
<1>. QED BY <1>1, LeastElement DEF Test!Min

LEMMA ProgramKeepsSample == ASSUME SampleInv, Test!Program PROVE SampleInv'
<1>1. CASE Test!SampleSensors
  <2>1. /\ cache' = [r \in Test!Registers |-> Test!Absent] /\ sampled' = {}
        /\ held' = [r \in Test!Registers |-> {mem[r]}] /\ mem' = mem
    BY <1>1 DEF Test!SampleSensors
  <2>. QED BY <2>1, EmptySample
<1>2. CASE Test!SensorFails
  <2>1. UNCHANGED <<cache, sampled, held, mem>> /\ phase' # "fans"
    BY <1>2 DEF Test!SensorFails, Test!Exit
  <2>. QED BY <2>1, OtherStepsKeepSample
<1>3. CASE Test!CacheByte
  <2>. DEFINE r == Test!Bytes(Test!reading)[Test!Min(Test!Missing)]
  <2>1. /\ phase = "fans" /\ phase' = phase /\ UNCHANGED <<sampled, held, mem>>
        /\ cache' = [cache EXCEPT ![r] = mem[r]]
        /\ Test!Readable(Test!reading) /\ Test!Missing # {}
    BY <1>3 DEF Test!CacheByte
  <2>2. r \in Test!Registers /\ cache[r] = Test!Absent
    <3>1. Test!Min(Test!Missing) \in Test!Missing
      BY <2>1, MissingHasMin
    <3>. QED BY <2>1, <3>1 DEF Test!Missing, Test!Readable
  <2>. HIDE DEF r
  <2>3. mem[r] \in held[r]
    BY <2>1, <2>2 DEF SampleInv
  <2>4. ASSUME NEW s \in sampled PROVE cache'[s[1]] = cache[s[1]]
    BY <2>1, <2>2 DEF SampleInv
  <2>. QED BY <2>1, <2>2, <2>3, <2>4 DEF SampleInv
<1>4. CASE Test!ReadFan
  <2>. DEFINE bytes == Test!Bytes(Test!reading)
              read == {<<bytes[i], cache[bytes[i]]>> : i \in DOMAIN bytes}
  <2>1. /\ phase = "fans" /\ UNCHANGED <<cache, held, mem>>
        /\ sampled' = sampled \cup read
        /\ Test!Readable(Test!reading) /\ Test!Missing = {}
    BY <1>4 DEF Test!ReadFan
  <2>2. ASSUME NEW i \in DOMAIN bytes
        PROVE  bytes[i] \in Test!Registers /\ cache[bytes[i]] # Test!Absent
    BY <2>1 DEF Test!Readable, Test!Missing
  <2>. HIDE DEF bytes
  <2>3. ASSUME NEW s \in read
        PROVE  s[1] \in Test!Registers /\ s = <<s[1], cache[s[1]]>> /\ cache[s[1]] # Test!Absent
    BY <2>2
  <2>. HIDE DEF read
  <2>. QED BY <2>1, <2>3 DEF SampleInv
<1>5. CASE Test!ReadFanFails
  <2>1. UNCHANGED <<cache, sampled, held, mem>> /\ phase = "fans"
    BY <1>5 DEF Test!ReadFanFails
  <2>. QED BY <2>1, OtherStepsKeepSample
<1>6. CASE Test!Setup \/ Test!Decide \/ Test!Stress_Start \/ Test!Stress_End \/ Test!Stress_Ended
           \/ Test!OpenReport \/ Test!WriteReport
  <2>1. UNCHANGED <<cache, sampled, held, mem>> /\ phase' # "fans"
    BY <1>6 DEF Test!Setup, Test!Decide, Test!Stress_Start, Test!Stress_End, Test!Stress_Ended,
                Test!OpenReport, Test!WriteReport, Test!Exit, Test!tester, Test!files
  <2>. QED BY <2>1, OtherStepsKeepSample
<1>. QED BY <1>1, <1>2, <1>3, <1>4, <1>5, <1>6 DEF Test!Program

LEMMA ChildKeepsSample == ASSUME SampleInv, Test!Child \/ Test!Faults PROVE SampleInv'
<1>1. UNCHANGED <<cache, sampled, held, mem>> /\ (phase' = "fans" => phase = "fans")
  BY DEF Test!Child, Test!ChildArms, Test!ChildExecs, Test!ChildEnds, Test!Faults,
         Test!SetupFails, Test!Stress_StartFails, Test!ReportFails, Test!ChildDies, Test!Kill,
         Test!Exit, Test!tester
<1>. QED BY <1>1, OtherStepsKeepSample

\* Whatever writes the registers meanwhile, and in whatever order the bytes are asked
\* for by however many configurations: the fans of one sample that are read from one
\* register get one value of it, which it has had since the temperatures were read.
THEOREM SamplesOfOneMoment == ToolsSpec => []SamplesAreOfOneMoment
<1>1. ToolsInit => SampleInv
  BY DEF ToolsInit, Test!Fresh, SampleInv
<1>2. ASSUME SampleInv, [ToolsNext]_allVars PROVE SampleInv'
  <2>1. CASE (Run \/ Signal \/ Firmware \/ Start) /\ Aside
    BY <1>2, <2>1, AsideKeepsSample
  <2>2. CASE Testing \/ Test!Program \/ Test!Child \/ Test!Faults
    BY <1>2, <2>2, BeginKeepsSample, ProgramKeepsSample, ChildKeepsSample
  <2>3. CASE Rating \/ SettingUp \/ UNCHANGED allVars
    <3>1. UNCHANGED <<cache, sampled, held, mem, phase>>
      BY <2>3 DEF Rating, SettingUp, testVars, allVars
    <3>. QED BY <1>2, <3>1, OtherStepsKeepSample
  <2>. QED BY <1>2, <2>1, <2>2, <2>3 DEF ToolsNext
<1>3. SampleInv => SamplesAreOfOneMoment
  <2>. SUFFICES ASSUME SampleInv PROVE SamplesAreOfOneMoment
    OBVIOUS
  <2>1. ASSUME NEW s \in sampled PROVE s[2] \in held[s[1]]
    BY DEF SampleInv
  <2>2. ASSUME NEW s \in sampled, NEW t \in sampled, s[1] = t[1] PROVE s = t
    BY <2>2 DEF SampleInv
  <2>. QED BY <2>1, <2>2 DEF SamplesAreOfOneMoment, Test!SamplesAreOfOneMoment
<1>. QED BY <1>1, <1>2, <1>3, PTL DEF ToolsSpec

--------------------------------------------------------------------------------
(* What is read from a file *)

\* A list is a function on the numbers up to its length.
LEMMA ListIsFunction ==
    ASSUME NEW s, Setup!IsList(s)
    PROVE  Len(s) \in Nat /\ DOMAIN s = 1..Len(s) /\ s = [i \in 1..Len(s) |-> s[i]]
BY DEF Setup!IsList

\* A function on the numbers up to n is a list.
LEMMA FunctionIsList ==
    ASSUME NEW n \in Nat, NEW s, s = [i \in 1..n |-> s[i]]
    PROVE  Setup!IsList(s) /\ Len(s) = n
<1>1. \A i \in 1..n : s[i] \in Setup!ToSet(s)
  BY DEF Setup!ToSet
<1>. QED BY <1>1 DEF Setup!IsList

\* What is in two lists, one after the other, is what is in the one or the other.
LEMMA Concatenated ==
    ASSUME NEW a, NEW b, Setup!IsList(a), Setup!IsList(b)
    PROVE  Setup!IsList(a \o b) /\ Setup!ToSet(a \o b) = Setup!ToSet(a) \cup Setup!ToSet(b)
<1>. DEFINE S == Setup!ToSet(a) \cup Setup!ToSet(b)
<1>1. a \in Seq(S) /\ b \in Seq(S)
  BY DEF Setup!IsList
<1>2. a \o b \in Seq(S) /\ Len(a \o b) = Len(a) + Len(b)
  BY <1>1
<1>3. \A i \in 1..Len(a) : (a \o b)[i] = a[i]
  BY <1>1
<1>4. \A i \in 1..Len(b) : (a \o b)[Len(a) + i] = b[i]
  BY <1>1
<1>5. \A i \in 1..(Len(a) + Len(b)) : (a \o b)[i] \in S
  BY <1>1, <1>3
<1>6. Setup!ToSet(a \o b) \subseteq S
  BY <1>2, <1>5 DEF Setup!ToSet
<1>7. \A v \in Setup!ToSet(a) : v \in Setup!ToSet(a \o b)
  BY <1>1, <1>2, <1>3 DEF Setup!ToSet
<1>8. \A v \in Setup!ToSet(b) : v \in Setup!ToSet(a \o b)
  <2>1. \A i \in 1..Len(b) : Len(a) + i \in DOMAIN (a \o b)
    BY <1>1, <1>2
  <2>2. ASSUME NEW i \in 1..Len(b) PROVE b[i] \in Setup!ToSet(a \o b)
    BY <1>4, <2>1, Zenon DEF Setup!ToSet
  <2>3. DOMAIN b = 1..Len(b)
    BY <1>1
  <2>. QED BY <2>2, <2>3 DEF Setup!ToSet
<1>9. Setup!IsList(a \o b)
  <2>1. ASSUME NEW s \in Seq(S) PROVE s = [i \in 1..Len(s) |-> s[i]] /\ Len(s) \in Nat
    OBVIOUS
  <2>2. a \o b = [i \in 1..Len(a \o b) |-> (a \o b)[i]] /\ Len(a \o b) \in Nat
    BY <1>2, <2>1
  <2>. QED BY <2>2, FunctionIsList, Zenon
<1>. QED BY <1>6, <1>7, <1>8, <1>9

\* The value a reading gives is one it gives.
LEMMA TheIn == ASSUME NEW from, from # {} PROVE Setup!The(from) \in from
BY DEF Setup!The

\* The value a reading gives that can give no other.
LEMMA TheOne == ASSUME NEW v PROVE Setup!The({v}) = v
BY DEF Setup!The

\* Of some items of a list, there is a last one.
LEMMA LastOfSome ==
    ASSUME NEW items, Setup!IsList(items), NEW some, some \subseteq DOMAIN items, some # {}
    PROVE  Setup!Max(some) \in some
<1>1. Len(items) \in Nat /\ some \subseteq 1..Len(items)
  BY ListIsFunction
<1>2. IsFiniteSet(1..Len(items))
  BY <1>1, FS_Interval
<1>3. IsFiniteSet(some) /\ some \subseteq Int
  BY <1>1, <1>2, FS_Subset
<1>. QED BY <1>3, GreatestOfFinite DEF Setup!Max

\* Objects are functions from their fields to what these have.
IsFunction(c) == c = [key \in DOMAIN c |-> c[key]]

\* An object made from some of the items, a field that is given twice from the last.
MadeFrom(c, items, shown, values) ==
    c = [key \in {items[i].key : i \in shown} |->
            Setup!The(values[Setup!Max({i \in shown : items[i].key = key})])]

\* Each of these items could be read.
EachHasOne(items, shown, values) ==
    Setup!IsList(items) /\ shown \subseteq DOMAIN items /\ \A i \in shown : values[i] # {}

\* Every field of the object comes from an item, and none of the items is forgotten.
Collects(c, items, shown, values) ==
    /\ IsFunction(c)
    /\ \A key \in DOMAIN c : \E i \in shown : items[i].key = key /\ c[key] \in values[i]
    /\ \A i \in shown : items[i].key \in DOMAIN c

\* An object made from items that could be read has their values, and no others.
LEMMA Collected ==
    ASSUME NEW items, NEW shown, NEW values, NEW c,
           EachHasOne(items, shown, values), MadeFrom(c, items, shown, values)
    PROVE  Collects(c, items, shown, values)
<1>. DEFINE some(key) == {i \in shown : items[i].key = key}
            made(key) == Setup!The(values[Setup!Max(some(key))])
            keys == {items[i].key : i \in shown}
<1>1. c = [key \in keys |-> made(key)]
  BY Zenon DEF MadeFrom
<1>2. ASSUME NEW key \in keys
      PROVE  Setup!Max(some(key)) \in shown /\ items[Setup!Max(some(key))].key = key
             /\ made(key) \in values[Setup!Max(some(key))]
  <2>1. some(key) \subseteq DOMAIN items /\ some(key) # {}
    BY DEF EachHasOne
  <2>2. Setup!Max(some(key)) \in some(key)
    <3>. HIDE DEF some
    <3>. QED BY <2>1, LastOfSome DEF EachHasOne
  <2>. QED BY <2>2, TheIn DEF EachHasOne
<1>3. DOMAIN c = keys /\ IsFunction(c) /\ \A key \in keys : c[key] = made(key)
  <2>. HIDE DEF keys, made
  <2>. QED BY <1>1 DEF IsFunction
<1>4. \A i \in shown : items[i].key \in keys
  OBVIOUS
<1>. HIDE DEF keys, made, some
<1>5. ASSUME NEW key \in DOMAIN c
      PROVE  \E i \in shown : items[i].key = key /\ c[key] \in values[i]
  <2>1. key \in keys /\ c[key] = made(key)
    BY <1>3
  <2>. QED BY <1>2, <2>1
<1>. QED BY <1>3, <1>4, <1>5 DEF Collects

\* The object whose fields are just what the items give is the one that is made.
LEMMA CollectedFrom ==
    ASSUME NEW items, NEW shown, NEW values, NEW made, NEW c, IsFunction(c),
           EachHasOne(items, shown, values), MadeFrom(made, items, shown, values),
           \A i \in shown : items[i].key \in DOMAIN c /\ values[i] = {c[items[i].key]},
           \A key \in DOMAIN c : \E i \in shown : items[i].key = key
    PROVE  made = c
<1>1. Collects(made, items, shown, values)
  BY Collected, Zenon
<1>2. DOMAIN made = DOMAIN c
  <2>1. ASSUME NEW key \in DOMAIN made PROVE key \in DOMAIN c
    <3>1. PICK i \in shown : items[i].key = key
      BY <1>1, Zenon DEF Collects
    <3>. QED BY <3>1
  <2>2. ASSUME NEW key \in DOMAIN c PROVE key \in DOMAIN made
    <3>1. PICK i \in shown : items[i].key = key
      OBVIOUS
    <3>2. items[i].key \in DOMAIN made
      BY <1>1, Zenon DEF Collects
    <3>. QED BY <3>1, <3>2
  <2>. QED BY <2>1, <2>2
<1>3. \A key \in DOMAIN c : made[key] = c[key]
  BY <1>1, <1>2 DEF Collects
<1>. QED BY <1>1, <1>2, <1>3 DEF IsFunction, Collects

\* The items that are not comments.
Uncommented(node) == {i \in DOMAIN node.items : node.items[i].key \notin {"#", "Comment"}}

\* What is read from an object each item of which gives the value in values, or none.
FromItems(from, node, values) ==
    LET items == node.items
        shown == Uncommented(node)
    IN from = IF node.type # "object" \/ \E i \in shown : values[i] = Setup!Failed THEN Setup!Failed
              ELSE {[key \in {items[i].key : i \in shown} |->
                        Setup!The(values[Setup!Max({i \in shown : items[i].key = key})])]}

\* What is read from an object is one object, and each field of it was in the file.
LEMMA ItemsRead ==
    ASSUME NEW node, node.type = "object" => Setup!IsList(node.items), NEW values, NEW from,
           FromItems(from, node, values), NEW c \in from
    PROVE  /\ from = {c} /\ node.type = "object" /\ IsFunction(c)
           /\ \A key \in DOMAIN c : \E i \in Uncommented(node) :
                  node.items[i].key = key /\ values[i] # Setup!Failed /\ c[key] \in values[i]
<1>. DEFINE items == node.items
            shown == Uncommented(node)
            made == [key \in {items[i].key : i \in shown} |->
                        Setup!The(values[Setup!Max({i \in shown : items[i].key = key})])]
<1>1. from = IF node.type # "object" \/ \E i \in shown : values[i] = Setup!Failed THEN Setup!Failed ELSE {made}
  BY Zenon DEF FromItems
<1>2. /\ node.type = "object" /\ (\A i \in shown : values[i] # Setup!Failed) /\ c = made /\ from = {c}
  <2>. HIDE DEF made, shown
  <2>. QED BY <1>1, Zenon DEF Setup!Failed
<1>3. Collects(c, items, shown, values)
  <2>1. EachHasOne(items, shown, values)
    BY <1>2 DEF Setup!Failed, EachHasOne, Uncommented
  <2>2. MadeFrom(c, items, shown, values)
    <3>. HIDE DEF items, shown
    <3>. QED BY <1>2, Zenon DEF MadeFrom
  <2>. HIDE DEF items, shown
  <2>. QED BY <2>1, <2>2, Collected
<1>. HIDE DEF made, shown
<1>. QED BY <1>2, <1>3 DEF Collects, shown

\* A node whose items give just the fields of an object is read as that object.
LEMMA ItemsMade ==
    ASSUME NEW node, node.type = "object", Setup!IsList(node.items), NEW values, NEW from,
           FromItems(from, node, values), NEW c, IsFunction(c),
           \A i \in DOMAIN node.items : node.items[i].key \notin {"#", "Comment"} /\ node.items[i].key \in DOMAIN c
                                        /\ values[i] = {c[node.items[i].key]},
           \A key \in DOMAIN c : \E i \in DOMAIN node.items : node.items[i].key = key
    PROVE  from = {c}
<1>. DEFINE items == node.items
            shown == Uncommented(node)
            made == [key \in {items[i].key : i \in shown} |->
                        Setup!The(values[Setup!Max({i \in shown : items[i].key = key})])]
<1>1. from = IF node.type # "object" \/ \E i \in shown : values[i] = Setup!Failed THEN Setup!Failed ELSE {made}
  BY Zenon DEF FromItems
<1>2. shown = DOMAIN items
  BY DEF Uncommented
<1>. HIDE DEF shown
<1>3. \A i \in shown : items[i].key \in DOMAIN c /\ values[i] = {c[items[i].key]} /\ values[i] # Setup!Failed
  BY <1>2 DEF Setup!Failed
<1>4. \A key \in DOMAIN c : \E i \in shown : items[i].key = key
  BY <1>2
<1>5. from = {made}
  <2>. HIDE DEF made
  <2>. QED BY <1>1, <1>3, Zenon
<1>6. MadeFrom(made, items, shown, values)
  BY Zenon DEF MadeFrom
<1>7. EachHasOne(items, shown, values)
  BY <1>2, <1>3 DEF EachHasOne
<1>. HIDE DEF items, made
<1>8. made = c
  BY <1>3, <1>4, <1>6, <1>7, CollectedFrom
<1>. QED BY <1>5, <1>8

\* FanTemperatureSourceConfig_FromJson takes each field from an item of that name.
LEMMA ReadsSource ==
    ASSUME NEW node, node.type = "object" => Setup!IsList(node.items), NEW c \in Setup!Source_FromJson(node)
    PROVE  /\ Setup!Source_FromJson(node) = {c} /\ node.type = "object"
           /\ IsFunction(c) /\ DOMAIN c \subseteq DOMAIN Setup!SourceFields
           /\ \A key \in DOMAIN c : \E i \in DOMAIN node.items :
                  node.items[i].key = key /\ c[key] \in Setup!FromNode(Setup!SourceFields[key], node.items[i].node)
<1>. DEFINE Field(item) == IF item.key \in DOMAIN Setup!SourceFields
                           THEN Setup!FromNode(Setup!SourceFields[item.key], item.node) ELSE Setup!Failed
            values == [i \in Uncommented(node) |-> Field(node.items[i])]
<1>1. FromItems(Setup!Source_FromJson(node), node, values)
  BY Zenon DEF FromItems, Uncommented, Setup!Source_FromJson, Setup!ObjectFromJson, Setup!FieldsFromJson
<1>. HIDE DEF values
<1>2. /\ Setup!Source_FromJson(node) = {c} /\ node.type = "object" /\ IsFunction(c)
      /\ \A key \in DOMAIN c : \E i \in Uncommented(node) :
             node.items[i].key = key /\ values[i] # Setup!Failed /\ c[key] \in values[i]
  BY <1>1, ItemsRead
<1>3. ASSUME NEW i \in Uncommented(node), values[i] # Setup!Failed
      PROVE  /\ i \in DOMAIN node.items /\ node.items[i].key \in DOMAIN Setup!SourceFields
             /\ values[i] = Setup!FromNode(Setup!SourceFields[node.items[i].key], node.items[i].node)
  BY <1>3 DEF values, Uncommented
<1>. QED BY <1>2, <1>3

\* These items stand for the entry c of FanTemperatureSources.
SourceItems(items, c) ==
    /\ Setup!IsList(items) /\ IsFunction(c)
    /\ \A i \in DOMAIN items :
           /\ items[i].key \in DOMAIN Setup!SourceFields /\ items[i].key \in DOMAIN c
           /\ Setup!FromNode(Setup!SourceFields[items[i].key], items[i].node) = {c[items[i].key]}
    /\ \A key \in DOMAIN c : \E i \in DOMAIN items : items[i].key = key

\* An entry's items are read as that entry.
LEMMA MakesSource ==
    ASSUME NEW items, NEW c, SourceItems(items, c)
    PROVE  Setup!Source_FromJson([type |-> "object", items |-> items]) = {c}
<1>. DEFINE Field(item) == IF item.key \in DOMAIN Setup!SourceFields
                           THEN Setup!FromNode(Setup!SourceFields[item.key], item.node) ELSE Setup!Failed
            node == [type |-> "object", items |-> items]
            values == [i \in Uncommented(node) |-> Field(node.items[i])]
<1>1. FromItems(Setup!Source_FromJson(node), node, values)
  BY Zenon DEF FromItems, Uncommented, Setup!Source_FromJson, Setup!ObjectFromJson, Setup!FieldsFromJson
<1>2. node.type = "object" /\ node.items = items /\ {"#", "Comment"} \cap DOMAIN Setup!SourceFields = {}
  BY DEF Setup!SourceFields
<1>. HIDE DEF node
<1>3. ASSUME NEW i \in DOMAIN items
      PROVE  items[i].key \notin {"#", "Comment"} /\ items[i].key \in DOMAIN c /\ values[i] = {c[items[i].key]}
  BY <1>2 DEF SourceItems, Uncommented
<1>. HIDE DEF values
<1>4. Setup!Source_FromJson(node) = {c}
  BY <1>1, <1>2, <1>3, ItemsMade DEF SourceItems
<1>. QED BY <1>4 DEF node

\* ServiceConfig_FromJson takes each field from an item of that name.
LEMMA ReadsConfig ==
    ASSUME NEW node, node.type = "object" => Setup!IsList(node.items), NEW c \in Setup!ServiceConfig_FromJson(node)
    PROVE  /\ Setup!ServiceConfig_FromJson(node) = {c} /\ node.type = "object"
           /\ IsFunction(c) /\ DOMAIN c \subseteq DOMAIN Setup!ServiceFields
           /\ \A key \in DOMAIN c : \E i \in DOMAIN node.items :
                  node.items[i].key = key /\ c[key] \in Setup!FieldFromJson(Setup!ServiceFields[key], node.items[i].node)
<1>. DEFINE Field(item) == IF item.key \in DOMAIN Setup!ServiceFields
                           THEN Setup!FieldFromJson(Setup!ServiceFields[item.key], item.node) ELSE Setup!Failed
            values == [i \in Uncommented(node) |-> Field(node.items[i])]
<1>1. FromItems(Setup!ServiceConfig_FromJson(node), node, values)
  BY Zenon DEF FromItems, Uncommented, Setup!ServiceConfig_FromJson, Setup!ObjectFromJson, Setup!FieldsFromJson
<1>. HIDE DEF values
<1>2. /\ Setup!ServiceConfig_FromJson(node) = {c} /\ node.type = "object" /\ IsFunction(c)
      /\ \A key \in DOMAIN c : \E i \in Uncommented(node) :
             node.items[i].key = key /\ values[i] # Setup!Failed /\ c[key] \in values[i]
  BY <1>1, ItemsRead
<1>3. ASSUME NEW i \in Uncommented(node), values[i] # Setup!Failed
      PROVE  /\ i \in DOMAIN node.items /\ node.items[i].key \in DOMAIN Setup!ServiceFields
             /\ values[i] = Setup!FieldFromJson(Setup!ServiceFields[node.items[i].key], node.items[i].node)
  BY <1>3 DEF values, Uncommented
<1>. QED BY <1>2, <1>3

\* These items stand for the ServiceConfig c.
ConfigItems(items, c) ==
    /\ Setup!IsList(items) /\ IsFunction(c)
    /\ \A i \in DOMAIN items :
           /\ items[i].key \in DOMAIN Setup!ServiceFields /\ items[i].key \in DOMAIN c
           /\ Setup!FieldFromJson(Setup!ServiceFields[items[i].key], items[i].node) = {c[items[i].key]}
    /\ \A key \in DOMAIN c : \E i \in DOMAIN items : items[i].key = key

\* A config's items are read as that config.
LEMMA MakesConfig ==
    ASSUME NEW items, NEW c, ConfigItems(items, c)
    PROVE  Setup!ServiceConfig_FromJson([type |-> "object", items |-> items]) = {c}
<1>. DEFINE Field(item) == IF item.key \in DOMAIN Setup!ServiceFields
                           THEN Setup!FieldFromJson(Setup!ServiceFields[item.key], item.node) ELSE Setup!Failed
            node == [type |-> "object", items |-> items]
            values == [i \in Uncommented(node) |-> Field(node.items[i])]
<1>1. FromItems(Setup!ServiceConfig_FromJson(node), node, values)
  BY Zenon DEF FromItems, Uncommented, Setup!ServiceConfig_FromJson, Setup!ObjectFromJson, Setup!FieldsFromJson
<1>2. node.type = "object" /\ node.items = items /\ {"#", "Comment"} \cap DOMAIN Setup!ServiceFields = {}
  BY DEF Setup!ServiceFields
<1>. HIDE DEF node
<1>3. ASSUME NEW i \in DOMAIN items
      PROVE  items[i].key \notin {"#", "Comment"} /\ items[i].key \in DOMAIN c /\ values[i] = {c[items[i].key]}
  BY <1>2 DEF ConfigItems, Uncommented
<1>. HIDE DEF values
<1>4. Setup!ServiceConfig_FromJson(node) = {c}
  BY <1>1, <1>2, <1>3, ItemsMade DEF ConfigItems
<1>. QED BY <1>4 DEF node

\* ServiceState_FromJson takes each field from an item of that name.
LEMMA ReadsState ==
    ASSUME NEW node, node.type = "object" => Setup!IsList(node.items), NEW c \in Setup!ServiceState_FromJson(node)
    PROVE  /\ Setup!ServiceState_FromJson(node) = {c} /\ node.type = "object"
           /\ IsFunction(c) /\ DOMAIN c \subseteq DOMAIN Setup!StateFields
           /\ \A key \in DOMAIN c : \E i \in DOMAIN node.items :
                  node.items[i].key = key /\ c[key] \in Setup!FieldFromJson(Setup!StateFields[key], node.items[i].node)
<1>. DEFINE Field(item) == IF item.key \in DOMAIN Setup!StateFields
                           THEN Setup!FieldFromJson(Setup!StateFields[item.key], item.node) ELSE Setup!Failed
            values == [i \in Uncommented(node) |-> Field(node.items[i])]
<1>1. FromItems(Setup!ServiceState_FromJson(node), node, values)
  BY Zenon DEF FromItems, Uncommented, Setup!ServiceState_FromJson, Setup!ObjectFromJson, Setup!FieldsFromJson
<1>. HIDE DEF values
<1>2. /\ Setup!ServiceState_FromJson(node) = {c} /\ node.type = "object" /\ IsFunction(c)
      /\ \A key \in DOMAIN c : \E i \in Uncommented(node) :
             node.items[i].key = key /\ values[i] # Setup!Failed /\ c[key] \in values[i]
  BY <1>1, ItemsRead
<1>3. ASSUME NEW i \in Uncommented(node), values[i] # Setup!Failed
      PROVE  /\ i \in DOMAIN node.items /\ node.items[i].key \in DOMAIN Setup!StateFields
             /\ values[i] = Setup!FieldFromJson(Setup!StateFields[node.items[i].key], node.items[i].node)
  BY <1>3 DEF values, Uncommented
<1>. QED BY <1>2, <1>3

\* These items stand for the ServiceState c.
StateItems(items, c) ==
    /\ Setup!IsList(items) /\ IsFunction(c)
    /\ \A i \in DOMAIN items :
           /\ items[i].key \in DOMAIN Setup!StateFields /\ items[i].key \in DOMAIN c
           /\ Setup!FieldFromJson(Setup!StateFields[items[i].key], items[i].node) = {c[items[i].key]}
    /\ \A key \in DOMAIN c : \E i \in DOMAIN items : items[i].key = key

\* A state's items are read as that state.
LEMMA MakesState ==
    ASSUME NEW items, NEW c, StateItems(items, c)
    PROVE  Setup!ServiceState_FromJson([type |-> "object", items |-> items]) = {c}
<1>. DEFINE Field(item) == IF item.key \in DOMAIN Setup!StateFields
                           THEN Setup!FieldFromJson(Setup!StateFields[item.key], item.node) ELSE Setup!Failed
            node == [type |-> "object", items |-> items]
            values == [i \in Uncommented(node) |-> Field(node.items[i])]
<1>1. FromItems(Setup!ServiceState_FromJson(node), node, values)
  BY Zenon DEF FromItems, Uncommented, Setup!ServiceState_FromJson, Setup!ObjectFromJson, Setup!FieldsFromJson
<1>2. node.type = "object" /\ node.items = items /\ {"#", "Comment"} \cap DOMAIN Setup!StateFields = {}
  BY DEF Setup!StateFields
<1>. HIDE DEF node
<1>3. ASSUME NEW i \in DOMAIN items
      PROVE  items[i].key \notin {"#", "Comment"} /\ items[i].key \in DOMAIN c /\ values[i] = {c[items[i].key]}
  BY <1>2 DEF StateItems, Uncommented
<1>. HIDE DEF values
<1>4. Setup!ServiceState_FromJson(node) = {c}
  BY <1>1, <1>2, <1>3, ItemsMade DEF StateItems
<1>. QED BY <1>4 DEF node

\* What is read from an array each element of which gives the value in values, or none.
FromElems(from, node, values) ==
    from = IF node.type # "array" \/ \E i \in DOMAIN values : values[i] = Setup!Failed THEN Setup!Failed
           ELSE {[i \in DOMAIN values |-> Setup!The(values[i])]}

\* What is read from an array has a value for each element, that element's.
LEMMA ElemsRead ==
    ASSUME NEW node, node.type = "array" => Setup!IsList(node.elems),
           NEW values, DOMAIN values = DOMAIN node.elems,
           NEW from, FromElems(from, node, values), NEW v \in from
    PROVE  /\ from = {v} /\ node.type = "array" /\ Setup!IsList(v) /\ DOMAIN v = DOMAIN node.elems
           /\ \A i \in DOMAIN v : values[i] # Setup!Failed /\ v[i] \in values[i]
<1>. DEFINE made == [i \in DOMAIN values |-> Setup!The(values[i])]
<1>1. node.type = "array" /\ (\A i \in DOMAIN values : values[i] # Setup!Failed) /\ v = made /\ from = {v}
  <2>1. from = IF node.type # "array" \/ \E i \in DOMAIN values : values[i] = Setup!Failed THEN Setup!Failed ELSE {made}
    BY Zenon DEF FromElems
  <2>. HIDE DEF made
  <2>. QED BY <2>1 DEF Setup!Failed
<1>2. DOMAIN node.elems = 1..Len(node.elems) /\ Len(node.elems) \in Nat
  BY <1>1, ListIsFunction
<1>3. v = [i \in 1..Len(node.elems) |-> v[i]] /\ DOMAIN v = DOMAIN node.elems
  BY <1>1, <1>2
<1>4. Setup!IsList(v)
  BY <1>2, <1>3, FunctionIsList, Zenon
<1>5. \A i \in DOMAIN v : v[i] \in values[i]
  BY <1>1, <1>3, TheIn DEF Setup!Failed
<1>. QED BY <1>1, <1>3, <1>4, <1>5

\* An array each of whose elements is read as the value at its place is read as the list.
LEMMA ElemsMade ==
    ASSUME NEW elems, NEW node, node = [type |-> "array", elems |-> elems],
           NEW values, DOMAIN values = DOMAIN elems, NEW from, FromElems(from, node, values),
           NEW v, IsFunction(v), DOMAIN v = DOMAIN elems, \A i \in DOMAIN v : values[i] = {v[i]}
    PROVE  from = {v}
<1>. DEFINE made == [i \in DOMAIN values |-> Setup!The(values[i])]
<1>1. from = IF node.type # "array" \/ \E i \in DOMAIN values : values[i] = Setup!Failed THEN Setup!Failed ELSE {made}
  BY Zenon DEF FromElems
<1>2. made = v
  BY TheOne DEF IsFunction
<1>3. \A i \in DOMAIN values : values[i] # Setup!Failed
  BY DEF Setup!Failed
<1>. HIDE DEF made
<1>. QED BY <1>1, <1>2, <1>3

\* FanTemperatureSources are read one by one,
LEMMA SourcesRead ==
    ASSUME NEW node, node.type = "array" => Setup!IsList(node.elems), NEW v \in Setup!FieldFromJson("sources", node)
    PROVE  /\ node.type = "array" /\ Setup!IsList(v) /\ DOMAIN v = DOMAIN node.elems
           /\ \A i \in DOMAIN v : v[i] \in Setup!Source_FromJson(node.elems[i])
<1>. DEFINE values == [i \in DOMAIN node.elems |-> Setup!Source_FromJson(node.elems[i])]
<1>1. FromElems(Setup!FieldFromJson("sources", node), node, values)
  BY Zenon DEF FromElems, Setup!FieldFromJson, Setup!ArrayFromJson
<1>2. DOMAIN values = DOMAIN node.elems
  OBVIOUS
<1>3. \A i \in DOMAIN node.elems : values[i] = Setup!Source_FromJson(node.elems[i])
  OBVIOUS
<1>. HIDE DEF values
<1>. QED BY <1>1, <1>2, <1>3, ElemsRead

\* and nodes that stand for the entries are read as these.
LEMMA SourcesMade ==
    ASSUME NEW elems, NEW v, IsFunction(v), DOMAIN v = DOMAIN elems,
           \A i \in DOMAIN v : Setup!Source_FromJson(elems[i]) = {v[i]}
    PROVE  Setup!FieldFromJson("sources", [type |-> "array", elems |-> elems]) = {v}
<1>. DEFINE node == [type |-> "array", elems |-> elems]
            values == [i \in DOMAIN node.elems |-> Setup!Source_FromJson(node.elems[i])]
<1>1. FromElems(Setup!FieldFromJson("sources", node), node, values)
  BY Zenon DEF FromElems, Setup!FieldFromJson, Setup!ArrayFromJson
<1>2. DOMAIN values = DOMAIN elems /\ \A i \in DOMAIN v : values[i] = {v[i]}
  OBVIOUS
<1>. HIDE DEF values
<1>3. Setup!FieldFromJson("sources", node) = {v}
  <2>. HIDE DEF node
  <2>1. node = [type |-> "array", elems |-> elems]
    BY DEF node
  <2>. QED BY <1>1, <1>2, <2>1, ElemsMade
<1>. QED BY <1>3, Zenon DEF node

\* TargetFanSpeeds are read one by one,
LEMMA FloatsRead ==
    ASSUME NEW node, node.type = "array" => Setup!IsList(node.elems), NEW v \in Setup!FieldFromJson("floats", node)
    PROVE  /\ node.type = "array" /\ Setup!IsList(v) /\ DOMAIN v = DOMAIN node.elems
           /\ \A i \in DOMAIN v : v[i] \in Setup!FromNode("float", node.elems[i])
<1>. DEFINE values == [i \in DOMAIN node.elems |-> Setup!FromNode("float", node.elems[i])]
<1>1. FromElems(Setup!FieldFromJson("floats", node), node, values)
  BY Zenon DEF FromElems, Setup!FieldFromJson, Setup!ArrayFromJson
<1>2. DOMAIN values = DOMAIN node.elems
  OBVIOUS
<1>3. \A i \in DOMAIN node.elems : values[i] = Setup!FromNode("float", node.elems[i])
  OBVIOUS
<1>. HIDE DEF values
<1>. QED BY <1>1, <1>2, <1>3, ElemsRead

\* and nodes that stand for the speeds are read as these.
LEMMA FloatsMade ==
    ASSUME NEW elems, NEW v, IsFunction(v), DOMAIN v = DOMAIN elems,
           \A i \in DOMAIN v : Setup!FromNode("float", elems[i]) = {v[i]}
    PROVE  Setup!FieldFromJson("floats", [type |-> "array", elems |-> elems]) = {v}
<1>. DEFINE node == [type |-> "array", elems |-> elems]
            values == [i \in DOMAIN node.elems |-> Setup!FromNode("float", node.elems[i])]
<1>1. FromElems(Setup!FieldFromJson("floats", node), node, values)
  BY Zenon DEF FromElems, Setup!FieldFromJson, Setup!ArrayFromJson
<1>2. DOMAIN values = DOMAIN elems /\ \A i \in DOMAIN v : values[i] = {v[i]}
  OBVIOUS
<1>. HIDE DEF values
<1>3. Setup!FieldFromJson("floats", node) = {v}
  <2>. HIDE DEF node
  <2>1. node = [type |-> "array", elems |-> elems]
    BY DEF node
  <2>. QED BY <1>1, <1>2, <2>1, ElemsMade
<1>. QED BY <1>3, Zenon DEF node

\* EmbeddedControllerType is read by its name,
LEMMA FieldOfController ==
    ASSUME NEW node
    PROVE  Setup!FieldFromJson("EmbeddedControllerType", node)
               = UNION {Setup!EmbeddedControllerType_FromString(s) : s \in Setup!FromNode("str", node)}
<1>. QED BY Zenon DEF Setup!FieldFromJson

\* and a text as it is:
LEMMA FieldOfText ==
    ASSUME NEW node PROVE Setup!FieldFromJson("str", node) = Setup!FromNode("str", node)
<1>. QED BY Zenon DEF Setup!FieldFromJson

\* only a text is one.
LEMMA NodeOfText ==
    ASSUME NEW node PROVE Setup!FromNode("str", node) = IF node.type = "string" THEN {node.text} ELSE Setup!Failed
<1>. QED BY Zenon DEF Setup!FromNode, Setup!IsInteger, Setup!IsName

\* An entry of FanTemperatureSources, as it may come from a file or a command.
IsSource(s) ==
    /\ IsFunction(s) /\ DOMAIN s \subseteq DOMAIN Setup!SourceFields
    /\ Setup!Has(s, {"FanIndex"}) => s.FanIndex \in Setup!Limits("uint8")
    /\ Setup!Has(s, {"TemperatureAlgorithmType"}) =>
           s.TemperatureAlgorithmType \in Setup!Names("TemperatureAlgorithmType")
    /\ Setup!Has(s, {"Sensors"}) => Setup!IsList(s.Sensors)

\* What the names of the controllers, old and new, stand for.
Controllers == {"ec_sys", "acpi_ec", "dev_port", "dummy"}

\* A ServiceConfig, as it may come from a file or a command.
IsConfig(c) ==
    /\ IsFunction(c) /\ DOMAIN c \subseteq DOMAIN Setup!ServiceFields
    /\ Setup!Has(c, {"EmbeddedControllerType"}) => c.EmbeddedControllerType \in Controllers
    /\ Setup!Has(c, {"TargetFanSpeeds"}) => c.TargetFanSpeeds \in Seq(Int)
    /\ Setup!Has(c, {"FanTemperatureSources"}) =>
           /\ Setup!IsList(c.FanTemperatureSources)
           /\ \A i \in DOMAIN c.FanTemperatureSources : IsSource(c.FanTemperatureSources[i])

\* A ServiceState, as it may come from a file.
IsState(s) ==
    /\ DOMAIN s \subseteq {"TargetFanSpeeds"}
    /\ Setup!Has(s, {"TargetFanSpeeds"}) => s.TargetFanSpeeds \in Seq(Int)

\* The index of a fan is a byte, a speed an integer or a number with a point.
LEMMA NodeOfNumber ==
    ASSUME NEW node
    PROVE  /\ Setup!FromNode("uint8", node) = IF node.type = "int" /\ node.int \in Setup!Limits("uint8")
                                        THEN {node.int} ELSE Setup!Failed
           /\ Setup!FromNode("float", node) = CASE node.type = "int" -> {node.int * Part}
                                          [] node.type = "double" -> {node.parts}
                                          [] OTHER -> Setup!Failed
  BY Zenon DEF Setup!FromNode, Setup!IsInteger, Setup!IsName

\* An algorithm is one of the names there are.
LEMMA NodeOfAlgorithm ==
    ASSUME NEW node
    PROVE  Setup!FromNode("TemperatureAlgorithmType", node)
               = IF node.type = "string" /\ node.text \in Setup!Names("TemperatureAlgorithmType")
                 THEN {node.text} ELSE Setup!Failed
  BY Zenon DEF Setup!FromNode, Setup!IsInteger, Setup!IsName

\* The sensors are texts.
LEMMA NodeOfTexts ==
    ASSUME NEW node
    PROVE  Setup!FromNode("strs", node) = IF Setup!IsStrings(node) THEN {Setup!Texts(node)} ELSE Setup!Failed
  BY Zenon DEF Setup!FromNode, Setup!IsInteger, Setup!IsName

\* What is at a place of a list is in it.
LEMMA ElementOf == ASSUME NEW s, NEW i \in DOMAIN s PROVE s[i] \in Setup!ToSet(s)
BY DEF Setup!ToSet

\* What FanTemperatureSourceConfig_FromJson gives is an entry.
LEMMA SourceIsTyped ==
    ASSUME NEW nodes, Setup!AreNodes(nodes), NEW node \in nodes, NEW s \in Setup!Source_FromJson(node)
    PROVE  IsSource(s)
<1>1. /\ IsFunction(s) /\ DOMAIN s \subseteq DOMAIN Setup!SourceFields
      /\ \A key \in DOMAIN s : \E i \in DOMAIN node.items :
             node.items[i].key = key /\ s[key] \in Setup!FromNode(Setup!SourceFields[key], node.items[i].node)
      /\ node.type = "object"
  BY ReadsSource DEF Setup!AreNodes
<1>2. ASSUME NEW i \in DOMAIN node.items PROVE node.items[i].node \in nodes
  BY <1>1, ElementOf DEF Setup!AreNodes
<1>3. ASSUME "FanIndex" \in DOMAIN s PROVE s.FanIndex \in Setup!Limits("uint8")
  BY <1>1, <1>3, NodeOfNumber DEF Setup!SourceFields, Setup!Failed
<1>4. ASSUME "TemperatureAlgorithmType" \in DOMAIN s
      PROVE  s.TemperatureAlgorithmType \in Setup!Names("TemperatureAlgorithmType")
  BY <1>1, <1>4, NodeOfAlgorithm DEF Setup!SourceFields, Setup!Failed
<1>5. ASSUME "Sensors" \in DOMAIN s PROVE Setup!IsList(s.Sensors)
  <2>1. PICK i \in DOMAIN node.items : s.Sensors \in Setup!FromNode("strs", node.items[i].node)
    BY <1>1, <1>5 DEF Setup!SourceFields
  <2>. DEFINE n == node.items[i].node
  <2>2. Setup!IsStrings(n) /\ s.Sensors = Setup!Texts(n)
    BY <2>1, NodeOfTexts DEF Setup!Failed
  <2>3. Setup!IsList(n.elems)
    BY <1>2, <2>2 DEF Setup!AreNodes, Setup!IsStrings
  <2>4. Len(n.elems) \in Nat /\ s.Sensors = [j \in 1..Len(n.elems) |-> n.elems[j].text]
    BY <2>2, <2>3, ListIsFunction DEF Setup!Texts
  <2>5. s.Sensors = [j \in 1..Len(n.elems) |-> s.Sensors[j]]
    BY <2>4
  <2>. QED BY <2>4, <2>5, FunctionIsList, Zenon
<1>. QED BY <1>1, <1>3, <1>4, <1>5 DEF IsSource, Setup!Has

\* What is read as speeds are numbers.
LEMMA NumbersAreTyped ==
    ASSUME NEW nodes, Setup!AreNodes(nodes), Part \in Nat, NEW node \in nodes,
           NEW v \in Setup!FieldFromJson("floats", node)
    PROVE  v \in Seq(Int)
<1>1. /\ node.type = "array" /\ Setup!IsList(v) /\ DOMAIN v = DOMAIN node.elems
      /\ \A i \in DOMAIN v : v[i] \in Setup!FromNode("float", node.elems[i])
  BY FloatsRead DEF Setup!AreNodes
<1>2. ASSUME NEW i \in DOMAIN v PROVE v[i] \in Int
  <2>. DEFINE n == node.elems[i]
  <2>1. n \in nodes
    BY <1>1, ElementOf DEF Setup!AreNodes
  <2>2. v[i] \in (CASE n.type = "int" -> {n.int * Part}
                    [] n.type = "double" -> {n.parts}
                    [] OTHER -> Setup!Failed)
    BY <1>1, NodeOfNumber
  <2>. QED BY <2>1, <2>2 DEF Setup!AreNodes, Setup!Failed
<1>. QED BY <1>1, <1>2, ListIsFunction

\* What ServiceConfig_FromJson gives is a config,
LEMMA ConfigIsTyped ==
    ASSUME NEW nodes, Setup!AreNodes(nodes), Part \in Nat, NEW node \in nodes,
           NEW c \in Setup!ServiceConfig_FromJson(node)
    PROVE  IsConfig(c)
<1>1. /\ IsFunction(c) /\ DOMAIN c \subseteq DOMAIN Setup!ServiceFields
      /\ \A key \in DOMAIN c : \E i \in DOMAIN node.items :
             node.items[i].key = key /\ c[key] \in Setup!FieldFromJson(Setup!ServiceFields[key], node.items[i].node)
      /\ node.type = "object"
  BY ReadsConfig DEF Setup!AreNodes
<1>2. ASSUME NEW i \in DOMAIN node.items PROVE node.items[i].node \in nodes
  BY <1>1, ElementOf DEF Setup!AreNodes
<1>3. ASSUME "EmbeddedControllerType" \in DOMAIN c PROVE c.EmbeddedControllerType \in Controllers
  <2>1. PICK n : c.EmbeddedControllerType \in Setup!FieldFromJson("EmbeddedControllerType", n)
    BY <1>1, <1>3 DEF Setup!ServiceFields
  <2>2. PICK t : c.EmbeddedControllerType \in Setup!EmbeddedControllerType_FromString(t)
    BY <2>1, FieldOfController
  <2>. QED BY <2>2 DEF Setup!EmbeddedControllerType_FromString, Controllers, Setup!Failed
<1>4. ASSUME "TargetFanSpeeds" \in DOMAIN c PROVE c.TargetFanSpeeds \in Seq(Int)
  <2>1. PICK i \in DOMAIN node.items : c.TargetFanSpeeds \in Setup!FieldFromJson("floats", node.items[i].node)
    BY <1>1, <1>4 DEF Setup!ServiceFields
  <2>. QED BY <2>1, <1>2, NumbersAreTyped
<1>5. ASSUME "FanTemperatureSources" \in DOMAIN c
      PROVE  /\ Setup!IsList(c.FanTemperatureSources)
             /\ \A i \in DOMAIN c.FanTemperatureSources : IsSource(c.FanTemperatureSources[i])
  <2>1. PICK i \in DOMAIN node.items : c.FanTemperatureSources \in Setup!FieldFromJson("sources", node.items[i].node)
    BY <1>1, <1>5 DEF Setup!ServiceFields
  <2>. DEFINE n == node.items[i].node
              v == c.FanTemperatureSources
  <2>2. /\ n.type = "array" /\ Setup!IsList(v) /\ DOMAIN v = DOMAIN n.elems
        /\ \A j \in DOMAIN v : v[j] \in Setup!Source_FromJson(n.elems[j])
    BY <1>2, <2>1, SourcesRead DEF Setup!AreNodes
  <2>3. ASSUME NEW j \in DOMAIN v PROVE IsSource(v[j])
    <3>1. n.elems[j] \in nodes
      BY <1>2, <2>2, ElementOf DEF Setup!AreNodes
    <3>. QED BY <2>2, <3>1, SourceIsTyped
  <2>. QED BY <2>2, <2>3
<1>. QED BY <1>1, <1>3, <1>4, <1>5 DEF IsConfig, Setup!Has

\* and what ServiceState_FromJson gives is a state.
LEMMA StateIsTyped ==
    ASSUME NEW nodes, Setup!AreNodes(nodes), Part \in Nat, NEW node \in nodes,
           NEW s \in Setup!ServiceState_FromJson(node)
    PROVE  IsState(s)
<1>1. /\ IsFunction(s) /\ DOMAIN s \subseteq DOMAIN Setup!StateFields
      /\ \A key \in DOMAIN s : \E i \in DOMAIN node.items :
             node.items[i].key = key /\ s[key] \in Setup!FieldFromJson(Setup!StateFields[key], node.items[i].node)
      /\ node.type = "object"
  BY ReadsState DEF Setup!AreNodes
<1>2. ASSUME NEW i \in DOMAIN node.items PROVE node.items[i].node \in nodes
  BY <1>1, ElementOf DEF Setup!AreNodes
<1>3. ASSUME "TargetFanSpeeds" \in DOMAIN s PROVE s.TargetFanSpeeds \in Seq(Int)
  <2>1. PICK i \in DOMAIN node.items : s.TargetFanSpeeds \in Setup!FieldFromJson("floats", node.items[i].node)
    BY <1>1, <1>3 DEF Setup!StateFields
  <2>. QED BY <2>1, <1>2, NumbersAreTyped
<1>. QED BY <1>1, <1>3 DEF IsState, Setup!Has, Setup!StateFields

--------------------------------------------------------------------------------
(* What is written is read again *)

\* An entry that has been written and read: it has a fan, and no empty list of sensors.
RewrittenSource(s) ==
    [k \in {"FanIndex"} \cup (DOMAIN s \cap {"TemperatureAlgorithmType"})
           \cup (IF Setup!Has(s, {"Sensors"}) /\ s.Sensors # <<>> THEN {"Sensors"} ELSE {}) |->
        IF k = "FanIndex" /\ k \notin DOMAIN s THEN 0 ELSE s[k]]

\* An item that is written,
LEMMA OneItem ==
    ASSUME NEW key, NEW node
    PROVE  Setup!IsList(Setup!Item(key, node)) /\ Setup!ToSet(Setup!Item(key, node)) = {[key |-> key, node |-> node]}
<1>. DEFINE item == [key |-> key, node |-> node]
<1>1. Setup!Item(key, node) = <<item>>
  BY DEF Setup!Item
<1>. HIDE DEF item
<1>2. Setup!ToSet(<<item>>) = {item} /\ <<item>> \in Seq({item})
  BY DEF Setup!ToSet
<1>. QED BY <1>1, <1>2 DEF Setup!IsList, item

\* and one that is left out.
LEMMA NoItem == Setup!IsList(<<>>) /\ Setup!ToSet(<<>>) = {}
<1>1. Setup!ToSet(<<>>) = {}
  BY DEF Setup!ToSet
<1>. QED BY <1>1 DEF Setup!IsList

\* What is written: items, texts and arrays.
KeyNode(key, node) == [key |-> key, node |-> node]
TextNode(text) == [type |-> "string", text |-> text]
ArrayNode(elems) == [type |-> "array", elems |-> elems]

\* A text is written if there is one,
LEMMA OfTextItem ==
    ASSUME NEW c, NEW key
    PROVE  Setup!IsList(Setup!TextItem(c, key))
           /\ Setup!ToSet(Setup!TextItem(c, key)) = IF key \in DOMAIN c THEN {KeyNode(key, TextNode(c[key]))} ELSE {}
<1>1. CASE key \in DOMAIN c
  BY <1>1, OneItem DEF Setup!TextItem, Setup!Has, Setup!Given, KeyNode, TextNode
<1>2. CASE key \notin DOMAIN c
  BY <1>2, NoItem DEF Setup!TextItem, Setup!Has, Setup!Given
<1>. QED BY <1>1, <1>2

\* and an array if there is something in it.
LEMMA OfArrayItem ==
    ASSUME NEW elems, NEW key
    PROVE  Setup!IsList(Setup!ArrayItem(key, elems))
           /\ Setup!ToSet(Setup!ArrayItem(key, elems)) = IF elems = <<>> THEN {} ELSE {KeyNode(key, ArrayNode(elems))}
<1>1. CASE elems # <<>>
  BY <1>1, OneItem DEF Setup!ArrayItem, KeyNode, ArrayNode
<1>2. CASE elems = <<>>
  BY <1>2, NoItem DEF Setup!ArrayItem
<1>. QED BY <1>1, <1>2

\* Texts that are written are read as they were.
LEMMA TextsMade ==
    ASSUME NEW texts, Setup!IsList(texts)
    PROVE  Setup!FromNode("strs", ArrayNode([i \in DOMAIN texts |-> TextNode(texts[i])])) = {texts}
<1>. DEFINE elems == [i \in DOMAIN texts |-> TextNode(texts[i])]
            node == ArrayNode(elems)
<1>1. node.type = "array" /\ node.elems = elems /\ DOMAIN elems = DOMAIN texts
  BY DEF ArrayNode
<1>2. \A i \in DOMAIN elems : elems[i].type = "string" /\ elems[i].text = texts[i]
  BY DEF TextNode
<1>. HIDE DEF elems
<1>3. Setup!IsStrings(node) /\ Setup!Texts(node) = [i \in DOMAIN texts |-> texts[i]]
  BY <1>1, <1>2 DEF Setup!IsStrings, Setup!Texts
<1>4. [i \in DOMAIN texts |-> texts[i]] = texts
  BY ListIsFunction
<1>5. Setup!FromNode("strs", node) = {texts}
  <2>. HIDE DEF node
  <2>. QED BY <1>3, <1>4, NodeOfTexts
<1>. QED BY <1>5 DEF elems

\* An entry that is written and read again is the same, but for what RewrittenSource says.
LEMMA SourceRoundTrip ==
    ASSUME NEW s, IsSource(s), 0 \in Setup!Limits("uint8")
    PROVE  Setup!Source_FromJson(Setup!SourceNode(s)) = {RewrittenSource(s)}
<1>. DEFINE fan == Setup!Given(s, "FanIndex", 0)
            sensors == Setup!Given(s, "Sensors", <<>>)
            texts == [i \in DOMAIN sensors |-> TextNode(sensors[i])]
            fanNode == [type |-> "int", int |-> fan]
            items == Setup!Item("FanIndex", fanNode) \o Setup!TextItem(s, "TemperatureAlgorithmType")
                     \o Setup!ArrayItem("Sensors", texts)
            c == RewrittenSource(s)
<1>1. Setup!SourceNode(s) = [type |-> "object", items |-> items]
  BY Zenon DEF Setup!SourceNode, TextNode
<1>2. /\ Setup!IsList(items)
      /\ Setup!ToSet(items) = {KeyNode("FanIndex", fanNode)} \cup Setup!ToSet(Setup!TextItem(s, "TemperatureAlgorithmType"))
                                \cup Setup!ToSet(Setup!ArrayItem("Sensors", texts))
  <2>1. Setup!IsList(Setup!Item("FanIndex", fanNode)) /\ Setup!ToSet(Setup!Item("FanIndex", fanNode)) = {KeyNode("FanIndex", fanNode)}
    BY OneItem DEF KeyNode
  <2>2. Setup!IsList(Setup!TextItem(s, "TemperatureAlgorithmType")) /\ Setup!IsList(Setup!ArrayItem("Sensors", texts))
    <3>. HIDE DEF texts
    <3>. QED BY OfTextItem, OfArrayItem
  <2>. HIDE DEF texts, fanNode
  <2>. QED BY <2>1, <2>2, Concatenated
<1>3. IsFunction(c) /\ c.FanIndex = fan /\ DOMAIN c \subseteq DOMAIN Setup!SourceFields
  BY DEF RewrittenSource, IsFunction, Setup!SourceFields, Setup!Has, Setup!Given
<1>4. Setup!IsList(sensors) /\ (texts = <<>> <=> sensors = <<>>)
  <2>1. Setup!IsList(sensors)
    BY NoItem DEF IsSource, Setup!Given
  <2>2. Len(sensors) \in Nat /\ DOMAIN sensors = 1..Len(sensors) /\ sensors = [i \in 1..Len(sensors) |-> sensors[i]]
    BY <2>1, ListIsFunction
  <2>. HIDE DEF sensors
  <2>3. sensors = <<>> <=> DOMAIN sensors = {}
    BY <2>2
  <2>4. texts = <<>> <=> DOMAIN sensors = {}
    OBVIOUS
  <2>. QED BY <2>1, <2>3, <2>4
<1>5. ASSUME NEW i \in DOMAIN items
      PROVE  /\ items[i].key \in DOMAIN Setup!SourceFields /\ items[i].key \in DOMAIN c
             /\ Setup!FromNode(Setup!SourceFields[items[i].key], items[i].node) = {c[items[i].key]}
  <2>1. items[i] \in Setup!ToSet(items)
    BY ElementOf
  <2>2. CASE items[i] = KeyNode("FanIndex", fanNode)
    <3>1. Setup!FromNode("uint8", fanNode) = {fan}
      BY NodeOfNumber DEF IsSource, Setup!Has, Setup!Given
    <3>. HIDE DEF fanNode, fan, items
    <3>. QED BY <1>3, <2>2, <3>1 DEF KeyNode, Setup!SourceFields, RewrittenSource
  <2>3. CASE items[i] \in Setup!ToSet(Setup!TextItem(s, "TemperatureAlgorithmType"))
    <3>. DEFINE t == s.TemperatureAlgorithmType
    <3>1. Setup!Has(s, {"TemperatureAlgorithmType"}) /\ items[i] = KeyNode("TemperatureAlgorithmType", TextNode(t))
      BY <2>3, OfTextItem DEF Setup!Has, Setup!Given
    <3>2. Setup!FromNode("TemperatureAlgorithmType", TextNode(t)) = {t}
      BY <3>1, NodeOfAlgorithm DEF IsSource, TextNode
    <3>3. c["TemperatureAlgorithmType"] = t /\ "TemperatureAlgorithmType" \in DOMAIN c
      BY <3>1 DEF RewrittenSource, Setup!Has, Setup!Given
    <3>. HIDE DEF items
    <3>. QED BY <3>1, <3>2, <3>3 DEF KeyNode, Setup!SourceFields
  <2>4. CASE items[i] \in Setup!ToSet(Setup!ArrayItem("Sensors", texts))
    <3>1. texts # <<>> /\ items[i] = KeyNode("Sensors", ArrayNode(texts))
      <4>. HIDE DEF texts, items
      <4>. QED BY <2>4, OfArrayItem
    <3>2. Setup!FromNode("strs", ArrayNode(texts)) = {sensors}
      BY <1>4, TextsMade
    <3>3. c["Sensors"] = sensors /\ "Sensors" \in DOMAIN c
      <4>1. sensors # <<>>
        BY <1>4, <3>1
      <4>. QED BY <4>1 DEF RewrittenSource, Setup!Has, Setup!Given
    <3>. HIDE DEF items, texts, sensors
    <3>. QED BY <3>1, <3>2, <3>3 DEF KeyNode, Setup!SourceFields
  <2>. HIDE DEF items, texts, fanNode
  <2>. QED BY <1>2, <2>1, <2>2, <2>3, <2>4
<1>6. ASSUME NEW key \in DOMAIN c PROVE \E i \in DOMAIN items : items[i].key = key
  <2>1. SUFFICES \E item \in Setup!ToSet(items) : item.key = key
    BY DEF Setup!ToSet
  <2>2. CASE key = "FanIndex"
    <3>1. KeyNode("FanIndex", fanNode) \in Setup!ToSet(items)
      <4>. HIDE DEF items, texts, fanNode
      <4>. QED BY <1>2
    <3>. QED BY <2>2, <3>1 DEF KeyNode
  <2>3. CASE key = "TemperatureAlgorithmType"
    <3>1. KeyNode(key, TextNode(s[key])) \in Setup!ToSet(Setup!TextItem(s, key))
      BY <2>3, OfTextItem DEF RewrittenSource
    <3>2. KeyNode(key, TextNode(s[key])) \in Setup!ToSet(items)
      <4>. HIDE DEF items, texts, fanNode
      <4>. QED BY <1>2, <2>3, <3>1
    <3>. QED BY <3>2 DEF KeyNode
  <2>4. CASE key = "Sensors"
    <3>0. texts # <<>>
      BY <1>4, <2>4 DEF RewrittenSource, Setup!Has, Setup!Given
    <3>1. KeyNode(key, ArrayNode(texts)) \in Setup!ToSet(Setup!ArrayItem(key, texts))
      <4>. HIDE DEF texts
      <4>. QED BY <2>4, <3>0, OfArrayItem
    <3>2. KeyNode(key, ArrayNode(texts)) \in Setup!ToSet(items)
      <4>. HIDE DEF items, texts, fanNode
      <4>. QED BY <1>2, <2>4, <3>1
    <3>. QED BY <3>2 DEF KeyNode
  <2>. QED BY <2>2, <2>3, <2>4 DEF RewrittenSource
<1>. HIDE DEF items, c
<1>7. SourceItems(items, c)
  <2>1. Setup!IsList(items) /\ IsFunction(c)
    BY <1>2, <1>3
  <2>2. \A i \in DOMAIN items :
            /\ items[i].key \in DOMAIN Setup!SourceFields /\ items[i].key \in DOMAIN c
            /\ Setup!FromNode(Setup!SourceFields[items[i].key], items[i].node) = {c[items[i].key]}
    BY <1>5
  <2>3. \A key \in DOMAIN c : \E i \in DOMAIN items : items[i].key = key
    BY <1>6
  <2>. QED BY <2>1, <2>2, <2>3 DEF SourceItems
<1>8. Setup!Source_FromJson(Setup!SourceNode(s)) = {c}
  <2>1. Setup!Source_FromJson([type |-> "object", items |-> items]) = {c}
    BY <1>7, MakesSource
  <2>. QED BY <1>1, <2>1, Zenon
<1>. QED BY <1>8 DEF c

\* A config that has been written and read: without orders, and without an empty list.
RewrittenConfig(c) ==
    [k \in (DOMAIN c \cap {"SelectedConfigId", "EmbeddedControllerType"})
           \cup (IF Setup!Sources(c) = <<>> THEN {} ELSE {"FanTemperatureSources"}) |->
        IF k = "FanTemperatureSources" THEN [i \in DOMAIN Setup!Sources(c) |-> RewrittenSource(Setup!Sources(c)[i])]
        ELSE c[k]]

\* The entries of a config are entries.
LEMMA SourcesAreSources ==
    ASSUME NEW c, IsConfig(c)
    PROVE  Setup!IsList(Setup!Sources(c)) /\ \A i \in DOMAIN Setup!Sources(c) : IsSource(Setup!Sources(c)[i])
BY NoItem DEF IsConfig, Setup!Sources, Setup!Given

\* What is made from a list, one from each, is empty when the list is.
LEMMA EmptyList ==
    ASSUME NEW s, Setup!IsList(s), NEW f, DOMAIN f = DOMAIN s, IsFunction(f)
    PROVE  f = <<>> <=> s = <<>>
<1>1. Len(s) \in Nat /\ DOMAIN s = 1..Len(s) /\ s = [i \in 1..Len(s) |-> s[i]]
  BY ListIsFunction
<1>2. s = <<>> <=> DOMAIN s = {}
  BY <1>1
<1>3. f = <<>> <=> DOMAIN f = {}
  BY DEF IsFunction
<1>. QED BY <1>2, <1>3

\* A controller is written under the name it is read by.
LEMMA ControllerRoundTrip ==
    ASSUME NEW t \in Controllers
    PROVE  Setup!FieldFromJson("EmbeddedControllerType", TextNode(t)) = {t}
<1>1. Setup!FromNode("str", TextNode(t)) = {t}
  BY NodeOfText DEF TextNode
<1>2. Setup!EmbeddedControllerType_FromString(t) = {t}
  BY DEF Setup!EmbeddedControllerType_FromString, Controllers
<1>. QED BY <1>1, <1>2, FieldOfController

\* A config that is written and read again is the same, but for what RewrittenConfig says.
LEMMA ConfigRoundTrip ==
    ASSUME NEW c, IsConfig(c), 0 \in Setup!Limits("uint8")
    PROVE  Setup!ServiceConfig_FromJson(Setup!ServiceConfig_Write(c)) = {RewrittenConfig(c)}
<1>. DEFINE sources == Setup!Sources(c)
            nodes == [i \in DOMAIN sources |-> Setup!SourceNode(sources[i])]
            made == [i \in DOMAIN sources |-> RewrittenSource(sources[i])]
            items == Setup!TextItem(c, "SelectedConfigId") \o Setup!TextItem(c, "EmbeddedControllerType")
                     \o Setup!ArrayItem("FanTemperatureSources", nodes)
            r == RewrittenConfig(c)
<1>1. Setup!ServiceConfig_Write(c) = [type |-> "object", items |-> items]
  BY Zenon DEF Setup!ServiceConfig_Write
<1>2. /\ Setup!IsList(items)
      /\ Setup!ToSet(items) = Setup!ToSet(Setup!TextItem(c, "SelectedConfigId"))
                         \cup Setup!ToSet(Setup!TextItem(c, "EmbeddedControllerType"))
                         \cup Setup!ToSet(Setup!ArrayItem("FanTemperatureSources", nodes))
  <2>1. Setup!IsList(Setup!TextItem(c, "SelectedConfigId")) /\ Setup!IsList(Setup!TextItem(c, "EmbeddedControllerType"))
    BY OfTextItem
  <2>2. Setup!IsList(Setup!ArrayItem("FanTemperatureSources", nodes))
    <3>. HIDE DEF nodes
    <3>. QED BY OfArrayItem
  <2>. HIDE DEF nodes
  <2>. QED BY <2>1, <2>2, Concatenated
<1>3. IsFunction(r) /\ DOMAIN r \subseteq DOMAIN Setup!ServiceFields
  BY DEF RewrittenConfig, IsFunction, Setup!ServiceFields
<1>4. nodes = <<>> <=> sources = <<>>
  <2>1. Setup!IsList(sources) /\ DOMAIN nodes = DOMAIN sources /\ IsFunction(nodes)
    BY SourcesAreSources DEF IsFunction
  <2>. HIDE DEF sources, nodes
  <2>. QED BY <2>1, EmptyList
<1>5. Setup!FieldFromJson("sources", ArrayNode(nodes)) = {made}
  <2>1. IsFunction(made) /\ DOMAIN made = DOMAIN nodes
    BY DEF IsFunction
  <2>2. \A i \in DOMAIN made : Setup!Source_FromJson(nodes[i]) = {made[i]}
    BY SourcesAreSources, SourceRoundTrip
  <2>. HIDE DEF nodes, made
  <2>. QED BY <2>1, <2>2, SourcesMade DEF ArrayNode
<1>6. ASSUME NEW i \in DOMAIN items
      PROVE  /\ items[i].key \in DOMAIN Setup!ServiceFields /\ items[i].key \in DOMAIN r
             /\ Setup!FieldFromJson(Setup!ServiceFields[items[i].key], items[i].node) = {r[items[i].key]}
  <2>1. items[i] \in Setup!ToSet(items)
    BY ElementOf
  <2>2. CASE items[i] \in Setup!ToSet(Setup!TextItem(c, "SelectedConfigId"))
    <3>. DEFINE t == c.SelectedConfigId
    <3>1. "SelectedConfigId" \in DOMAIN c /\ items[i] = KeyNode("SelectedConfigId", TextNode(t))
      BY <2>2, OfTextItem
    <3>2. Setup!FieldFromJson("str", TextNode(t)) = {t}
      BY FieldOfText, NodeOfText DEF TextNode
    <3>3. r["SelectedConfigId"] = t /\ "SelectedConfigId" \in DOMAIN r
      BY <3>1 DEF RewrittenConfig
    <3>. HIDE DEF items
    <3>. QED BY <3>1, <3>2, <3>3 DEF KeyNode, Setup!ServiceFields
  <2>3. CASE items[i] \in Setup!ToSet(Setup!TextItem(c, "EmbeddedControllerType"))
    <3>. DEFINE t == c.EmbeddedControllerType
    <3>1. "EmbeddedControllerType" \in DOMAIN c /\ items[i] = KeyNode("EmbeddedControllerType", TextNode(t))
      BY <2>3, OfTextItem
    <3>2. Setup!FieldFromJson("EmbeddedControllerType", TextNode(t)) = {t}
      BY <3>1, ControllerRoundTrip DEF IsConfig, Setup!Has
    <3>3. r["EmbeddedControllerType"] = t /\ "EmbeddedControllerType" \in DOMAIN r
      BY <3>1 DEF RewrittenConfig
    <3>. HIDE DEF items
    <3>. QED BY <3>1, <3>2, <3>3 DEF KeyNode, Setup!ServiceFields
  <2>4. CASE items[i] \in Setup!ToSet(Setup!ArrayItem("FanTemperatureSources", nodes))
    <3>1. nodes # <<>> /\ items[i] = KeyNode("FanTemperatureSources", ArrayNode(nodes))
      <4>. HIDE DEF nodes, items
      <4>. QED BY <2>4, OfArrayItem
    <3>2. r["FanTemperatureSources"] = made /\ "FanTemperatureSources" \in DOMAIN r
      <4>1. sources # <<>>
        BY <1>4, <3>1
      <4>. QED BY <4>1 DEF RewrittenConfig
    <3>. HIDE DEF items, nodes, made
    <3>. QED BY <1>5, <3>1, <3>2 DEF KeyNode, Setup!ServiceFields
  <2>. HIDE DEF items, nodes
  <2>. QED BY <1>2, <2>1, <2>2, <2>3, <2>4
<1>7. ASSUME NEW key \in DOMAIN r PROVE \E i \in DOMAIN items : items[i].key = key
  <2>1. SUFFICES \E item \in Setup!ToSet(items) : item.key = key
    BY DEF Setup!ToSet
  <2>2. CASE key \in {"SelectedConfigId", "EmbeddedControllerType"}
    <3>1. KeyNode(key, TextNode(c[key])) \in Setup!ToSet(Setup!TextItem(c, key))
      BY <2>2, OfTextItem DEF RewrittenConfig
    <3>2. KeyNode(key, TextNode(c[key])) \in Setup!ToSet(items)
      <4>. HIDE DEF items, nodes
      <4>. QED BY <1>2, <2>2, <3>1
    <3>. QED BY <3>2 DEF KeyNode
  <2>3. CASE key = "FanTemperatureSources"
    <3>1. nodes # <<>>
      BY <1>4, <2>3 DEF RewrittenConfig
    <3>2. KeyNode(key, ArrayNode(nodes)) \in Setup!ToSet(items)
      <4>1. KeyNode(key, ArrayNode(nodes)) \in Setup!ToSet(Setup!ArrayItem(key, nodes))
        <5>. HIDE DEF nodes
        <5>. QED BY <3>1, OfArrayItem
      <4>. HIDE DEF items, nodes
      <4>. QED BY <1>2, <2>3, <4>1
    <3>. QED BY <3>2 DEF KeyNode
  <2>. QED BY <2>2, <2>3 DEF RewrittenConfig
<1>8. ConfigItems(items, r)
  <2>1. \A i \in DOMAIN items :
            /\ items[i].key \in DOMAIN Setup!ServiceFields /\ items[i].key \in DOMAIN r
            /\ Setup!FieldFromJson(Setup!ServiceFields[items[i].key], items[i].node) = {r[items[i].key]}
    BY <1>6
  <2>2. \A key \in DOMAIN r : \E i \in DOMAIN items : items[i].key = key
    BY <1>7
  <2>. HIDE DEF items, r
  <2>. QED BY <1>2, <1>3, <2>1, <2>2 DEF ConfigItems
<1>9. Setup!ServiceConfig_FromJson(Setup!ServiceConfig_Write(c)) = {r}
  <2>. HIDE DEF items, r
  <2>1. Setup!ServiceConfig_FromJson([type |-> "object", items |-> items]) = {r}
    BY <1>8, MakesConfig
  <2>. QED BY <1>1, <2>1, Zenon
<1>. QED BY <1>9

\* It is a config, and the orders are gone.
LEMMA RewrittenIsConfig ==
    ASSUME NEW c, IsConfig(c), 0 \in Setup!Limits("uint8")
    PROVE  IsConfig(RewrittenConfig(c)) /\ ~ Setup!Has(RewrittenConfig(c), {"TargetFanSpeeds"})
<1>. DEFINE sources == Setup!Sources(c)
            made == [i \in DOMAIN sources |-> RewrittenSource(sources[i])]
<1>1. Setup!IsList(sources) /\ \A i \in DOMAIN sources : IsSource(sources[i])
  BY SourcesAreSources
<1>2. ASSUME NEW s, IsSource(s) PROVE IsSource(RewrittenSource(s))
  BY <1>2 DEF IsSource, RewrittenSource, IsFunction, Setup!SourceFields, Setup!Has
<1>3. Setup!IsList(made) /\ \A i \in DOMAIN made : IsSource(made[i])
  <2>1. DOMAIN sources = 1..Len(sources) /\ Len(sources) \in Nat
    BY <1>1, ListIsFunction
  <2>2. made = [i \in 1..Len(sources) |-> made[i]]
    BY <2>1
  <2>3. Setup!IsList(made)
    BY <2>1, <2>2, FunctionIsList, Zenon
  <2>. QED BY <1>1, <1>2, <2>3
<1>4. "FanTemperatureSources" \in DOMAIN RewrittenConfig(c) =>
          RewrittenConfig(c).FanTemperatureSources = made
  BY DEF RewrittenConfig
<1>5. IsFunction(RewrittenConfig(c))
      /\ DOMAIN RewrittenConfig(c) \subseteq DOMAIN Setup!ServiceFields \ {"TargetFanSpeeds"}
  BY DEF RewrittenConfig, IsFunction, Setup!ServiceFields
<1>6. "EmbeddedControllerType" \in DOMAIN RewrittenConfig(c) =>
          RewrittenConfig(c).EmbeddedControllerType \in Controllers
  BY DEF RewrittenConfig, IsConfig, Setup!Has
<1>. HIDE DEF made
<1>. QED BY <1>3, <1>4, <1>5, <1>6 DEF IsConfig, Setup!Has

--------------------------------------------------------------------------------
(* A config and a state file as a whole *)

\* What ServiceConfig_FromFile demands: a model, a fan in every entry, and in no other one.
Rules(c) ==
    /\ Setup!Has(c, {"SelectedConfigId"})
    /\ \A i \in DOMAIN Setup!Sources(c) : Setup!Has(Setup!Sources(c)[i], {"FanIndex"})
    /\ \A i, j \in DOMAIN Setup!Sources(c) : Setup!Sources(c)[i].FanIndex = Setup!Sources(c)[j].FanIndex => i = j

\* Orders that an older version has put into the config.
HasOrders(c) == Setup!Has(c, {"TargetFanSpeeds"})

\* Of the entries and the model, that is all they ask.
LEMMA RulesOfSources ==
    ASSUME NEW c, NEW d, Setup!Sources(c) = Setup!Sources(d),
           Setup!Has(c, {"SelectedConfigId"}) <=> Setup!Has(d, {"SelectedConfigId"})
    PROVE  Rules(c) <=> Rules(d)
<1>. DEFINE Fit(sources) ==
                /\ \A i \in DOMAIN sources : Setup!Has(sources[i], {"FanIndex"})
                /\ \A i, j \in DOMAIN sources : sources[i].FanIndex = sources[j].FanIndex => i = j
<1>1. Rules(c) <=> Setup!Has(c, {"SelectedConfigId"}) /\ Fit(Setup!Sources(c))
  BY Zenon DEF Rules
<1>2. Rules(d) <=> Setup!Has(d, {"SelectedConfigId"}) /\ Fit(Setup!Sources(d))
  BY Zenon DEF Rules
<1>. HIDE DEF Fit
<1>. QED BY <1>1, <1>2, Zenon

\* Writing keeps the entries, one by one,
LEMMA RewrittenSources ==
    ASSUME NEW c, IsConfig(c)
    PROVE  Setup!Sources(RewrittenConfig(c)) = [i \in DOMAIN Setup!Sources(c) |-> RewrittenSource(Setup!Sources(c)[i])]
<1>. DEFINE sources == Setup!Sources(c)
            made == [i \in DOMAIN sources |-> RewrittenSource(sources[i])]
<1>1. CASE sources = <<>>
  <2>1. made = <<>>
    BY <1>1
  <2>2. ~ Setup!Has(RewrittenConfig(c), {"FanTemperatureSources"})
    BY <1>1 DEF RewrittenConfig, Setup!Has
  <2>3. Setup!Sources(RewrittenConfig(c)) = <<>>
    BY <2>2 DEF Setup!Sources, Setup!Given
  <2>. QED BY <2>1, <2>3
<1>2. CASE sources # <<>>
  <2>1. RewrittenConfig(c)["FanTemperatureSources"] = made
        /\ Setup!Has(RewrittenConfig(c), {"FanTemperatureSources"})
    BY <1>2 DEF RewrittenConfig, Setup!Has
  <2>2. Setup!Sources(RewrittenConfig(c)) = made
    <3>. HIDE DEF made
    <3>. QED BY <2>1 DEF Setup!Sources, Setup!Given
  <2>. QED BY <2>2
<1>. QED BY <1>1, <1>2

\* what each of them says,
LEMMA RewrittenSetting ==
    ASSUME NEW s, Setup!Has(s, {"FanIndex"})
    PROVE  /\ Setup!SettingOf(RewrittenSource(s)) = Setup!SettingOf(s)
           /\ Setup!Has(RewrittenSource(s), {"FanIndex"})
           /\ RewrittenSource(s).FanIndex = s.FanIndex
<1>. DEFINE r == RewrittenSource(s)
<1>1. r.FanIndex = s.FanIndex /\ Setup!Has(r, {"FanIndex"})
  BY DEF RewrittenSource, Setup!Has
<1>2. Setup!Given(r, "Sensors", <<>>) = Setup!Given(s, "Sensors", <<>>)
  BY DEF RewrittenSource, Setup!Has, Setup!Given
<1>3. Setup!Given(r, "TemperatureAlgorithmType", "") = Setup!Given(s, "TemperatureAlgorithmType", "")
  BY DEF RewrittenSource, Setup!Has, Setup!Given
<1>. HIDE DEF r
<1>4. Setup!SettingOf(r) = Setup!SettingOf(s)
  BY <1>1, <1>2, <1>3 DEF Setup!SettingOf
<1>. QED BY <1>1, <1>4 DEF r

\* and with them what the config means.
LEMMA RewrittenKeeps ==
    ASSUME NEW c, IsConfig(c), Rules(c)
    PROVE  Rules(RewrittenConfig(c)) /\ Setup!Meaning(RewrittenConfig(c)) = Setup!Meaning(c)
<1>. DEFINE sources == Setup!Sources(c)
            r == RewrittenConfig(c)
            made == Setup!Sources(r)
<1>1. DOMAIN made = DOMAIN sources /\ \A i \in DOMAIN sources : made[i] = RewrittenSource(sources[i])
  BY RewrittenSources
<1>2. Setup!Has(r, {"SelectedConfigId"}) /\ r.SelectedConfigId = c.SelectedConfigId
  BY DEF Rules, RewrittenConfig, Setup!Has
<1>3. Setup!Given(r, "EmbeddedControllerType", "") = Setup!Given(c, "EmbeddedControllerType", "")
  BY DEF RewrittenConfig, Setup!Has, Setup!Given
<1>4. ASSUME NEW i \in DOMAIN sources
      PROVE  Setup!Has(made[i], {"FanIndex"}) /\ made[i].FanIndex = sources[i].FanIndex
             /\ Setup!SettingOf(made[i]) = Setup!SettingOf(sources[i])
  BY <1>1, RewrittenSetting DEF Rules
<1>. HIDE DEF r, made, sources
<1>5. Rules(r)
  BY <1>1, <1>2, <1>4 DEF Rules, r, made, sources
<1>6. {Setup!SettingOf(made[i]) : i \in DOMAIN made} = {Setup!SettingOf(sources[i]) : i \in DOMAIN sources}
  BY <1>1, <1>4
<1>7. Setup!Meaning(r) = Setup!Meaning(c)
  <2>1. Setup!Meaning(r) = [id |-> r.SelectedConfigId, ec |-> Setup!Given(r, "EmbeddedControllerType", ""),
                      entries |-> Setup!Says({Setup!SettingOf(made[i]) : i \in DOMAIN made})]
    BY Zenon DEF Setup!Meaning, made
  <2>2. Setup!Meaning(c) = [id |-> c.SelectedConfigId, ec |-> Setup!Given(c, "EmbeddedControllerType", ""),
                      entries |-> Setup!Says({Setup!SettingOf(sources[i]) : i \in DOMAIN sources})]
    BY Zenon DEF Setup!Meaning, sources
  <2>. QED BY <1>2, <1>3, <1>6, <2>1, <2>2, Zenon
<1>. QED BY <1>5, <1>7 DEF r

\* The orders in the config do not change what it means.
LEMMA ClampedMeans ==
    ASSUME NEW c, IsConfig(c)
    PROVE  /\ (Rules(Setup!WithClamped(c)) <=> Rules(c))
           /\ Rules(c) => Setup!Meaning(Setup!WithClamped(c)) = Setup!Meaning(c)
           /\ (HasOrders(Setup!WithClamped(c)) <=> HasOrders(c))
           /\ HasOrders(c) => Setup!WithClamped(c).TargetFanSpeeds = Setup!Clamped(c.TargetFanSpeeds)
           /\ ~ HasOrders(c) => Setup!WithClamped(c) = c
           /\ IsFunction(Setup!WithClamped(c)) /\ DOMAIN Setup!WithClamped(c) = DOMAIN c
           /\ \A k \in DOMAIN c : k # "TargetFanSpeeds" => Setup!WithClamped(c)[k] = c[k]
<1>. DEFINE w == Setup!WithClamped(c)
<1>1. /\ DOMAIN w = DOMAIN c /\ IsFunction(w)
      /\ \A k \in DOMAIN c : k # "TargetFanSpeeds" => w[k] = c[k]
      /\ HasOrders(c) => w.TargetFanSpeeds = Setup!Clamped(c.TargetFanSpeeds)
      /\ ~ HasOrders(c) => w = c
  BY DEF Setup!WithClamped, IsConfig, IsFunction, HasOrders, Setup!Has
<1>. HIDE DEF w
<1>2. /\ Setup!Sources(w) = Setup!Sources(c)
      /\ Setup!Given(w, "EmbeddedControllerType", "") = Setup!Given(c, "EmbeddedControllerType", "")
  <2>1. Setup!Sources(w) = Setup!Sources(c)
    BY <1>1 DEF Setup!Sources, Setup!Given, Setup!Has
  <2>2. Setup!Given(w, "EmbeddedControllerType", "") = Setup!Given(c, "EmbeddedControllerType", "")
    BY <1>1 DEF Setup!Sources, Setup!Given, Setup!Has
  <2>. QED BY <2>1, <2>2
<1>3. Rules(w) <=> Rules(c)
  BY <1>1, <1>2, RulesOfSources DEF Setup!Has
<1>4. ASSUME Rules(c) PROVE Setup!Meaning(w) = Setup!Meaning(c)
  <2>1. w.SelectedConfigId = c.SelectedConfigId
    BY <1>1, <1>4 DEF Rules, Setup!Has
  <2>. QED BY <1>2, <2>1, Zenon DEF Setup!Meaning
<1>. QED BY <1>1, <1>3, <1>4 DEF w, HasOrders, Setup!Has

\* Speeds as they are kept: none is above the full one.
IsSpeeds(s) == s \in Seq(Int) /\ \A i \in DOMAIN s : s[i] <= Setup!Full

\* A file that is read in one way or not at all, be it as a config or as a state.
GoodConfig(file) ==
    \A v \in Setup!ServiceConfig_FromJson(file) : Setup!ServiceConfig_FromJson(file) = {v} /\ IsConfig(v)
GoodState(file) ==
    \A v \in Setup!ServiceState_FromJson(file) : Setup!ServiceState_FromJson(file) = {v} /\ IsState(v)

\* No service would find orders in this file.
NoOrdersIn(file) == \A c \in Setup!ServiceConfig_FromFile(file) : ~ HasOrders(c)

\* The orders that a service takes from this file of the state.
SpeedsIn(file) == Setup!The(Setup!ServiceState_FromFile(file))

\* Whatever is in a file is read in one way or not at all.
LEMMA FilesAreGood ==
    ASSUME NEW nodes, Setup!AreNodes(nodes), Part \in Nat, NEW file \in nodes
    PROVE  GoodConfig(file) /\ GoodState(file)
<1>1. file.type # "object" \/ Setup!IsList(file.items)
  BY DEF Setup!AreNodes
<1>2. GoodConfig(file)
  BY <1>1, ReadsConfig, ConfigIsTyped DEF GoodConfig
<1>3. GoodState(file)
  BY <1>1, ReadsState, StateIsTyped DEF GoodState
<1>. QED BY <1>2, <1>3

\* A file that is no object is not accepted.
LEMMA NothingInThere ==
    ASSUME NEW file, file.type # "object"
    PROVE  /\ GoodConfig(file) /\ GoodState(file)
           /\ Setup!ServiceConfig_FromJson(file) = {} /\ Setup!ServiceConfig_FromFile(file) = {}
<1>1. Setup!ServiceConfig_FromJson(file) = {} /\ Setup!ServiceState_FromJson(file) = {}
  BY ReadsConfig, ReadsState
<1>. QED BY <1>1 DEF GoodConfig, GoodState, Setup!ServiceConfig_FromFile

\* What ServiceConfig_FromFile gives: what is read, if it keeps the rules, clamped.
LEMMA InFile ==
    ASSUME NEW file, NEW c
    PROVE  c \in Setup!ServiceConfig_FromFile(file)
               <=> \E v \in Setup!ServiceConfig_FromJson(file) : Rules(v) /\ c = Setup!WithClamped(v)
BY DEF Setup!ServiceConfig_FromFile, Rules

\* Automatic is below every speed.
LEMMA FullIsNumber == ASSUME Part \in Nat \ {0} PROVE Setup!Full \in Nat /\ Setup!Auto \in Int /\ Setup!Auto < 0
BY DEF Setup!Full, Setup!Auto

\* Clamped speeds are at most the full one.
LEMMA ClampedSpeeds ==
    ASSUME Part \in Nat \ {0}, NEW speeds \in Seq(Int)
    PROVE  /\ IsSpeeds(Setup!Clamped(speeds)) /\ DOMAIN Setup!Clamped(speeds) = DOMAIN speeds
           /\ \A i \in DOMAIN speeds : Setup!Clamped(speeds)[i] = IF speeds[i] > Setup!Full THEN Setup!Full
                                                           ELSE IF speeds[i] < 0 THEN Setup!Auto ELSE speeds[i]
<1>. DEFINE made == Setup!Clamped(speeds)
<1>1. DOMAIN made = DOMAIN speeds /\ IsFunction(made)
      /\ \A i \in DOMAIN speeds : made[i] = IF speeds[i] > Setup!Full THEN Setup!Full
                                            ELSE IF speeds[i] < 0 THEN Setup!Auto ELSE speeds[i]
  <2>1. \A i \in DOMAIN speeds : speeds[i] \in Int /\ ~ (speeds[i] > Setup!Full /\ speeds[i] < 0)
    BY FullIsNumber
  <2>. QED BY <2>1 DEF Setup!Clamped, IsFunction
<1>. HIDE DEF made
<1>2. \A i \in DOMAIN speeds : made[i] \in Int /\ made[i] <= Setup!Full
  BY <1>1, FullIsNumber
<1>3. made \in Seq(Int)
  BY <1>1, <1>2 DEF IsFunction
<1>. QED BY <1>1, <1>2, <1>3 DEF IsSpeeds, made

\* A config the service can read keeps the rules, and its orders are speeds.
LEMMA AcceptedIs ==
    ASSUME Part \in Nat \ {0}, NEW file, GoodConfig(file), NEW c \in Setup!ServiceConfig_FromFile(file)
    PROVE  /\ Setup!ServiceConfig_FromFile(file) = {c} /\ Setup!The(Setup!ServiceConfig_FromFile(file)) = c
           /\ IsConfig(c) /\ Rules(c)
           /\ HasOrders(c) => IsSpeeds(c.TargetFanSpeeds)
<1>1. PICK v : Setup!ServiceConfig_FromJson(file) = {v} /\ IsConfig(v) /\ Rules(v) /\ c = Setup!WithClamped(v)
  BY InFile DEF GoodConfig
<1>2. Setup!ServiceConfig_FromFile(file) = {c}
  BY <1>1, InFile
<1>3. HasOrders(c) => IsSpeeds(c.TargetFanSpeeds)
  BY <1>1, ClampedMeans, ClampedSpeeds DEF IsConfig, HasOrders
<1>4. IsConfig(c)
  BY <1>1, <1>3, ClampedMeans DEF IsConfig, HasOrders, Setup!Has, IsSpeeds
<1>5. Rules(c)
  BY <1>1, ClampedMeans
<1>. QED BY <1>2, <1>3, <1>4, <1>5, TheOne

\* A config that is only loaded is accepted just if it keeps the rules.
LEMMA LoadedIs ==
    ASSUME NEW file, GoodConfig(file), NEW v \in Setup!ServiceConfig_FromJson(file)
    PROVE  /\ IsConfig(v) /\ Setup!The(Setup!ServiceConfig_FromJson(file)) = v
           /\ Setup!ServiceConfig_FromFile(file) # {} <=> Rules(v)
           /\ NoOrdersIn(file) \/ HasOrders(v)
           /\ \A c \in Setup!ServiceConfig_FromFile(file) : Setup!Meaning(c) = Setup!Meaning(v)
<1>1. Setup!ServiceConfig_FromJson(file) = {v} /\ IsConfig(v)
  BY DEF GoodConfig
<1>2. \A c : c \in Setup!ServiceConfig_FromFile(file) <=> Rules(v) /\ c = Setup!WithClamped(v)
  BY <1>1, InFile
<1>. QED BY <1>1, <1>2, ClampedMeans, TheOne DEF NoOrdersIn

\* A file that has been written holds no orders; it means what was written, if that
\* kept the rules.
LEMMA WrittenIs ==
    ASSUME NEW c, IsConfig(c), 0 \in Setup!Limits("uint8")
    PROVE  /\ GoodConfig(Setup!ServiceConfig_Write(c)) /\ NoOrdersIn(Setup!ServiceConfig_Write(c))
           /\ Rules(c) => \E d \in Setup!ServiceConfig_FromFile(Setup!ServiceConfig_Write(c)) : Setup!Meaning(d) = Setup!Meaning(c)
<1>. DEFINE r == RewrittenConfig(c)
            file == Setup!ServiceConfig_Write(c)
<1>1. Setup!ServiceConfig_FromJson(file) = {r} /\ IsConfig(r) /\ ~ HasOrders(r)
  BY ConfigRoundTrip, RewrittenIsConfig DEF HasOrders
<1>2. Rules(c) => Rules(r) /\ Setup!Meaning(r) = Setup!Meaning(c)
  BY RewrittenKeeps
<1>. HIDE DEF r, file
<1>3. Setup!WithClamped(r) = r
  BY <1>1, ClampedMeans
<1>4. GoodConfig(file)
  BY <1>1 DEF GoodConfig
<1>5. \A d : d \in Setup!ServiceConfig_FromFile(file) <=> Rules(r) /\ d = r
  BY <1>1, <1>3, InFile
<1>6. NoOrdersIn(file)
  BY <1>1, <1>5 DEF NoOrdersIn
<1>. QED BY <1>2, <1>4, <1>5, <1>6 DEF file

\* Of a file of the state, there are always speeds: none, if it cannot be read.
LEMMA StateIs ==
    ASSUME Part \in Nat \ {0}, NEW file, GoodState(file)
    PROVE  /\ Setup!ServiceState_FromFile(file) = {SpeedsIn(file)} /\ IsSpeeds(SpeedsIn(file))
           /\ Setup!ServiceState_FromJson(file) = {} => SpeedsIn(file) = Setup!Clamped(<<>>)
           /\ \A s \in Setup!ServiceState_FromJson(file) : SpeedsIn(file) = Setup!Clamped(Setup!Speeds(s))
<1>1. CASE Setup!ServiceState_FromJson(file) = {}
  <2>1. Setup!Speeds(<<>>) = <<>>
    BY DEF Setup!Speeds, Setup!Given, Setup!Has
  <2>2. Setup!ServiceState_FromFile(file) = {Setup!Clamped(<<>>)}
    BY <1>1, <2>1 DEF Setup!ServiceState_FromFile, Setup!Failed
  <2>3. IsSpeeds(Setup!Clamped(<<>>))
    <3>. DEFINE none == <<>>
    <3>1. none \in Seq(Int)
      OBVIOUS
    <3>. HIDE DEF none
    <3>2. IsSpeeds(Setup!Clamped(none))
      BY <3>1, ClampedSpeeds
    <3>. QED BY <3>2 DEF none
  <2>. QED BY <1>1, <2>2, <2>3, TheOne DEF SpeedsIn
<1>2. CASE Setup!ServiceState_FromJson(file) # {}
  <2>1. PICK s : Setup!ServiceState_FromJson(file) = {s} /\ IsState(s)
    BY <1>2 DEF GoodState
  <2>2. Setup!ServiceState_FromFile(file) = {Setup!Clamped(Setup!Speeds(s))}
    BY <2>1 DEF Setup!ServiceState_FromFile, Setup!Failed
  <2>3. Setup!Speeds(s) \in Seq(Int)
    BY <2>1 DEF IsState, Setup!Speeds, Setup!Given
  <2>4. IsSpeeds(Setup!Clamped(Setup!Speeds(s)))
    BY <2>3, ClampedSpeeds
  <2>. QED BY <2>1, <2>2, <2>4, TheOne DEF SpeedsIn
<1>. QED BY <1>1, <1>2

\* Clamping changes no order.
LEMMA ClampedOrders ==
    ASSUME Part \in Nat \ {0}, NEW speeds, IsSpeeds(speeds)
    PROVE  Setup!Ordered(Setup!Clamped(speeds)) = Setup!Ordered(speeds)
<1>. DEFINE made == Setup!Clamped(speeds)
<1>1. DOMAIN made = DOMAIN speeds /\ DOMAIN speeds \subseteq Nat
      /\ \A i \in DOMAIN speeds : speeds[i] \in Int /\ made[i] \in Int
             /\ (made[i] >= 0 <=> speeds[i] >= 0) /\ (speeds[i] >= 0 => made[i] = speeds[i])
  BY ClampedSpeeds, FullIsNumber DEF IsSpeeds
<1>. HIDE DEF made
<1>2. Setup!Ordered(made) = Setup!Ordered(speeds)
  BY <1>1 DEF Setup!Ordered
<1>. QED BY <1>2 DEF made

\* Orders that are written are found again.
LEMMA StateRoundTrip ==
    ASSUME Part \in Nat \ {0}, NEW speeds, IsSpeeds(speeds)
    PROVE  GoodState(Setup!ServiceState_Write(speeds))
           /\ Setup!Ordered(SpeedsIn(Setup!ServiceState_Write(speeds))) = Setup!Ordered(speeds)
<1>. DEFINE elems == [i \in DOMAIN speeds |-> [type |-> "double", parts |-> speeds[i]]]
            items == Setup!ArrayItem("TargetFanSpeeds", elems)
            c == [k \in (IF speeds = <<>> THEN {} ELSE {"TargetFanSpeeds"}) |-> speeds]
            file == Setup!ServiceState_Write(speeds)
<1>1. file = [type |-> "object", items |-> items]
  BY Zenon DEF Setup!ServiceState_Write
<1>2. elems = <<>> <=> speeds = <<>>
  <2>1. Setup!IsList(speeds) /\ IsFunction(elems) /\ DOMAIN elems = DOMAIN speeds
    <3>1. Len(speeds) \in Nat /\ speeds = [i \in 1..Len(speeds) |-> speeds[i]]
      BY DEF IsSpeeds
    <3>2. Setup!IsList(speeds)
      BY <3>1, FunctionIsList, Zenon
    <3>. QED BY <3>2 DEF IsFunction
  <2>. HIDE DEF elems
  <2>. QED BY <2>1, EmptyList
<1>3. Setup!IsList(items) /\ Setup!ToSet(items) = IF speeds = <<>> THEN {} ELSE {KeyNode("TargetFanSpeeds", ArrayNode(elems))}
  <2>. HIDE DEF elems
  <2>. QED BY <1>2, OfArrayItem
<1>4. Setup!FieldFromJson("floats", ArrayNode(elems)) = {speeds}
  <2>1. ASSUME NEW i \in DOMAIN speeds PROVE Setup!FromNode("float", elems[i]) = {speeds[i]}
    <3>1. elems[i].type = "double" /\ elems[i].parts = speeds[i]
      OBVIOUS
    <3>2. "double" # "int"
      OBVIOUS
    <3>. HIDE DEF elems
    <3>. QED BY <3>1, <3>2, NodeOfNumber
  <2>2. IsFunction(speeds) /\ DOMAIN elems = DOMAIN speeds
    BY DEF IsFunction, IsSpeeds
  <2>3. \A i \in DOMAIN speeds : Setup!FromNode("float", elems[i]) = {speeds[i]}
    BY <2>1
  <2>. HIDE DEF elems
  <2>4. Setup!FieldFromJson("floats", [type |-> "array", elems |-> elems]) = {speeds}
    BY <2>2, <2>3, FloatsMade
  <2>. QED BY <2>4 DEF ArrayNode
<1>5. Setup!ServiceState_FromJson(file) = {c}
  <2>1. StateItems(items, c)
    <3>1. IsFunction(c) /\ DOMAIN c = IF speeds = <<>> THEN {} ELSE {"TargetFanSpeeds"}
      BY DEF IsFunction
    <3>2. ASSUME NEW i \in DOMAIN items
          PROVE  /\ items[i].key \in DOMAIN Setup!StateFields /\ items[i].key \in DOMAIN c
                 /\ Setup!FieldFromJson(Setup!StateFields[items[i].key], items[i].node) = {c[items[i].key]}
      <4>1. items[i] \in Setup!ToSet(items)
        BY ElementOf
      <4>2. speeds # <<>> /\ items[i] = KeyNode("TargetFanSpeeds", ArrayNode(elems))
        <5>. HIDE DEF items
        <5>. QED BY <1>3, <4>1
      <4>. HIDE DEF items, elems
      <4>. QED BY <1>4, <4>2 DEF KeyNode, Setup!StateFields
    <3>3. ASSUME NEW key \in DOMAIN c PROVE \E i \in DOMAIN items : items[i].key = key
      <4>1. SUFFICES \E item \in Setup!ToSet(items) : item.key = key
        BY DEF Setup!ToSet
      <4>2. key = "TargetFanSpeeds" /\ speeds # <<>>
        BY <3>1
      <4>. HIDE DEF items, elems
      <4>3. KeyNode("TargetFanSpeeds", ArrayNode(elems)) \in Setup!ToSet(items)
        BY <1>3, <4>2
      <4>4. KeyNode("TargetFanSpeeds", ArrayNode(elems)).key = key
        BY <4>2 DEF KeyNode
      <4>. QED BY <4>3, <4>4
    <3>4. \A i \in DOMAIN items :
              /\ items[i].key \in DOMAIN Setup!StateFields /\ items[i].key \in DOMAIN c
              /\ Setup!FieldFromJson(Setup!StateFields[items[i].key], items[i].node) = {c[items[i].key]}
      BY <3>2
    <3>. HIDE DEF items, c
    <3>. QED BY <1>3, <3>1, <3>3, <3>4 DEF StateItems
  <2>. HIDE DEF items, c
  <2>2. Setup!ServiceState_FromJson([type |-> "object", items |-> items]) = {c}
    BY <2>1, MakesState
  <2>. QED BY <1>1, <2>2, Zenon
<1>6. IsState(c) /\ Setup!Speeds(c) = speeds
  BY DEF IsState, Setup!Speeds, Setup!Given, Setup!Has, IsSpeeds
<1>. HIDE DEF file, c
<1>7. GoodState(file)
  BY <1>5, <1>6 DEF GoodState
<1>8. SpeedsIn(file) = Setup!Clamped(speeds)
  BY <1>5, <1>6, <1>7, StateIs
<1>. QED BY <1>7, <1>8, ClampedOrders DEF file

--------------------------------------------------------------------------------
(* The client and the service on the same files *)

\* What is assumed of what is in the files.
FilesParsed(nodes) ==
    Setup!AreNodes(nodes) /\ Part \in Nat \ {0} /\ 0 \in Setup!Limits("uint8")

\* The client has a config while it is at work,
EditorIs(e) ==
    /\ e.at # "idle" =>
           /\ e = [at |-> e.at, edit |-> e.edit, fresh |-> e.fresh, config |-> e.config]
           /\ e.at \in {"opens", "writes"} /\ e.fresh \in BOOLEAN
           /\ IsConfig(e.config)

\* and the service one that it has accepted, and the speeds ordered.
DaemonIs(d) ==
    /\ d.at # "down" =>
           /\ d = [config |-> d.config, fans |-> d.fans, at |-> d.at, speeds |-> d.speeds]
           /\ IsConfig(d.config) /\ Rules(d.config) /\ ~ HasOrders(d.config)
           /\ IsSpeeds(d.speeds)
           /\ d.at = "runs" => d.fans \in Nat

\* What a service that started now would take up, with such files.
TakesUp(file, state) ==
    LET c == Setup!The(Setup!ServiceConfig_FromFile(file))
    IN Setup!Ordered(IF HasOrders(c) THEN c.TargetFanSpeeds ELSE SpeedsIn(state))

\* That is what OnDisk says of the files there are.
LEMMA OnDiskIs == Setup!OnDisk = TakesUp(conf, stored)
BY DEF Setup!OnDisk, TakesUp, SpeedsIn, HasOrders

\* The service can read this file; and that is what it means to the user.
Accepts(file) == Setup!ServiceConfig_FromFile(file) # {}
Means(file, s) == \E c \in Setup!ServiceConfig_FromFile(file) : Setup!Meaning(c) = s

\* The service is about to write the config; and what the client starts from.
Migrates == daemon.at \in {"opens", "writes"}
Bases == IF editor.fresh THEN {Setup!Empty} ELSE settings

\* The type invariant of the desk, the files and those who work on them.
FilesAreTyped(nodes) ==
    /\ Setup!IsDesk(desk, nodes) /\ GoodConfig(conf) /\ GoodState(stored)
    /\ EditorIs(editor) /\ DaemonIs(daemon)

\* What the user has set up is in the file, or in the hands of the one who writes it:
\* a client's config has the edit done, whatever was set up before, the service's is
\* what was set up; both write only where the history promises nothing.
SettingsInv ==
    /\ editor.at # "writes" /\ daemon.at # "writes" => \A s \in settings : Means(conf, s)
    /\ editor.at # "idle" => \A s \in Bases :
           Rules(editor.config) /\ Setup!Meaning(editor.config) = Setup!Edited(s, editor.edit)
    /\ Migrates => \A s \in settings : Setup!Meaning(daemon.config) = s
    /\ editor.at # "idle" /\ Migrates => settings = {} /\ ~ editor.fresh
    /\ Migrates => conf # Setup!Missing
    /\ editor.at # "idle" /\ editor.fresh =>
           conf = IF editor.at = "opens" THEN Setup!Missing ELSE Setup!Unreadable

\* The client would write a config that had no orders when it was read.
EditorHasNoOrders == editor.at # "idle" /\ ~ HasOrders(editor.config)

\* The orders are with the service while there is one, and in the files after it: in
\* the config or in the state, of which the config is asked first.  Therefore a
\* service that has no more to move must not find orders in the config, nor must a
\* client that has read none; and where no service could start nothing is promised.
WishesInv ==
    /\ daemon.at # "down" => \A all \in wishes : all = Setup!Ordered(daemon.speeds)
    /\ daemon.at \in {"loads", "runs", "ends", "saves"} /\ wishes # {} => NoOrdersIn(conf)
    /\ EditorHasNoOrders => NoOrdersIn(conf)
    /\ daemon.at = "down" =>
        /\ Accepts(conf) => \A all \in wishes : all = TakesUp(conf, stored)
        /\ EditorHasNoOrders => \A all \in wishes : all = Setup!Ordered(SpeedsIn(stored))
    /\ conf # Setup!Unreadable /\ ~ Accepts(conf) => wishes = {}
    /\ editor.at # "idle" /\ ~ Rules(editor.config) => wishes = {}

\* The inductive invariant.
FilesInv(nodes) == FilesAreTyped(nodes) /\ SettingsInv /\ WishesInv

\* What a service takes up from a config it has read,
LEMMA TakesUpIs ==
    ASSUME NEW file, NEW state, NEW c, Setup!The(Setup!ServiceConfig_FromFile(file)) = c
    PROVE  TakesUp(file, state) = Setup!Ordered(IF HasOrders(c) THEN c.TargetFanSpeeds ELSE SpeedsIn(state))
BY DEF TakesUp

\* and from one without orders.
LEMMA TakesUpState ==
    ASSUME NEW file, NEW state, NoOrdersIn(file), Accepts(file)
    PROVE  TakesUp(file, state) = Setup!Ordered(SpeedsIn(state))
<1>1. Setup!The(Setup!ServiceConfig_FromFile(file)) \in Setup!ServiceConfig_FromFile(file)
  BY TheIn DEF Accepts
<1>. QED BY <1>1 DEF TakesUp, NoOrdersIn

\* A file that is not there or half written is never accepted.
LEMMA UnreadableIs ==
    /\ GoodConfig(Setup!Unreadable) /\ GoodState(Setup!Unreadable) /\ ~ Accepts(Setup!Unreadable)
    /\ NoOrdersIn(Setup!Unreadable) /\ Setup!Missing # Setup!Unreadable
    /\ ~ Accepts(Setup!Missing) /\ Setup!ServiceConfig_FromJson(Setup!Missing) = {}
    /\ Setup!ServiceConfig_FromJson(Setup!Unreadable) = {}
    /\ NoOrdersIn(Setup!Missing)
<1>1. Setup!Unreadable.type # "object" /\ Setup!Missing.type # "object" /\ Setup!Missing # Setup!Unreadable
  <2>1. Setup!Unreadable.type = "garbage" /\ Setup!Missing.type = "missing"
    BY DEF Setup!Unreadable, Setup!Missing
  <2>. QED BY <2>1
<1>. QED BY <1>1, NothingInThere DEF Accepts, NoOrdersIn

\* At first the history says what the files do.
LEMMA InitFilesInv ==
    ASSUME NEW nodes, FilesParsed(nodes), Setup!IsDesk(desk, nodes), {desk.conf, desk.stored} \subseteq nodes, Setup!Fresh
    PROVE  FilesInv(nodes)
<1>1. /\ conf = desk.conf /\ stored = desk.stored /\ editor.at = "idle" /\ daemon.at = "down"
      /\ settings = {Setup!Meaning(c) : c \in Setup!ServiceConfig_FromFile(conf)}
      /\ wishes = IF Accepts(conf) THEN {TakesUp(conf, stored)} ELSE {}
  BY OnDiskIs DEF Setup!Fresh, Setup!Startable, Accepts, Setup!Failed
<1>2. FilesAreTyped(nodes)
  BY <1>1, FilesAreGood DEF FilesAreTyped, Setup!IsDesk, EditorIs, DaemonIs, FilesParsed
<1>3. SettingsInv
  BY <1>1 DEF SettingsInv, Migrates, Means
<1>4. WishesInv
  BY <1>1 DEF WishesInv, EditorHasNoOrders
<1>. QED BY <1>2, <1>3, <1>4 DEF FilesInv

\* The client truncates the file: what it held is in the client's hands.
LEMMA ClientOpensKeeps ==
    ASSUME NEW nodes, FilesInv(nodes), Setup!ClientOpens PROVE FilesInv(nodes)'
<1>1. /\ editor.at = "opens" /\ conf' = Setup!Unreadable
      /\ UNCHANGED <<desk, stored, daemon, settings, wishes>>
      /\ editor' = [editor EXCEPT !.at = "writes"]
  BY DEF Setup!ClientOpens
<1>2. EditorIs(editor)
  BY DEF FilesInv, FilesAreTyped
<1>3. /\ EditorIs(editor') /\ editor'.at = "writes" /\ editor'.config = editor.config
      /\ editor'.edit = editor.edit /\ editor'.fresh = editor.fresh
  BY <1>1, <1>2 DEF EditorIs
<1>4. FilesAreTyped(nodes)'
  BY <1>1, <1>3, UnreadableIs DEF FilesInv, FilesAreTyped, Setup!IsDesk
<1>5. SettingsInv'
  BY <1>1, <1>3, UnreadableIs DEF FilesInv, SettingsInv, Migrates, Bases
<1>6. WishesInv'
  BY <1>1, <1>3, UnreadableIs DEF FilesInv, WishesInv, EditorHasNoOrders
<1>. QED BY <1>4, <1>5, <1>6 DEF FilesInv

\* A fault changes nothing but how many there may still be.
LEMMA FaultIs ==
    ASSUME NEW nodes, Setup!IsDesk(desk, nodes), Setup!Fault PROVE Setup!IsDesk(desk', nodes)
<1>1. desk' = [desk EXCEPT !.faults = @ - 1]
  BY DEF Setup!Fault
<1>2. desk'.disk = desk.disk /\ desk'.edits = desk.edits /\ desk'.requests = desk.requests
  BY <1>1
<1>. QED BY <1>2 DEF Setup!IsDesk

\* Where the client fails before it writes, the file still means the same.
LEMMA ClientFailsKeeps ==
    ASSUME NEW nodes, FilesInv(nodes), Setup!ClientFails PROVE FilesInv(nodes)'
<1>1. /\ editor.at # "idle" /\ Setup!Fault /\ editor'.at = "idle"
      /\ settings' = IF editor.at = "writes" THEN {} ELSE settings
      /\ UNCHANGED <<conf, stored, daemon, wishes>>
  BY DEF Setup!ClientFails
<1>2. FilesAreTyped(nodes)'
  BY <1>1, FaultIs DEF FilesInv, FilesAreTyped, EditorIs
<1>3. SettingsInv'
  BY <1>1 DEF FilesInv, SettingsInv, Migrates
<1>4. WishesInv'
  BY <1>1 DEF FilesInv, WishesInv, EditorHasNoOrders
<1>. QED BY <1>2, <1>3, <1>4 DEF FilesInv

\* The service goes on with what it has.
LEMMA DaemonMoves ==
    ASSUME DaemonIs(daemon), daemon.at # "down", NEW place, place # "runs", place # "down",
           daemon' = [daemon EXCEPT !.at = place]
    PROVE  /\ DaemonIs(daemon') /\ daemon'.at = place /\ daemon'.config = daemon.config
           /\ daemon'.speeds = daemon.speeds
<1>1. daemon = [config |-> daemon.config, fans |-> daemon.fans, at |-> daemon.at, speeds |-> daemon.speeds]
  BY DEF DaemonIs
<1>2. /\ daemon'.at = place /\ daemon'.config = daemon.config /\ daemon'.speeds = daemon.speeds
      /\ daemon' = [config |-> daemon.config, fans |-> daemon.fans, at |-> place, speeds |-> daemon.speeds]
  BY <1>1
<1>. QED BY <1>2 DEF DaemonIs

\* The service truncates the file: what it held is in the service's hands.
LEMMA MigrationOpensKeeps ==
    ASSUME NEW nodes, FilesInv(nodes), Setup!MigrationOpens PROVE FilesInv(nodes)'
<1>1. /\ daemon.at = "opens" /\ conf' = Setup!Unreadable
      /\ UNCHANGED <<desk, stored, editor, settings, wishes>>
      /\ daemon' = [daemon EXCEPT !.at = "writes"]
  BY DEF Setup!MigrationOpens
<1>2. /\ DaemonIs(daemon') /\ daemon'.at = "writes" /\ daemon'.config = daemon.config
      /\ daemon'.speeds = daemon.speeds
  BY <1>1, DaemonMoves DEF FilesInv, FilesAreTyped
<1>3. FilesAreTyped(nodes)'
  BY <1>1, <1>2, UnreadableIs DEF FilesInv, FilesAreTyped, Setup!IsDesk
<1>4. SettingsInv'
  BY <1>1, <1>2, UnreadableIs DEF FilesInv, SettingsInv, Migrates, Bases
<1>5. WishesInv'
  BY <1>1, <1>2, UnreadableIs DEF FilesInv, WishesInv, EditorHasNoOrders
<1>. QED BY <1>3, <1>4, <1>5 DEF FilesInv

\* What a written file means.
LEMMA WriteIs ==
    ASSUME NEW c, IsConfig(c), 0 \in Setup!Limits("uint8")
    PROVE  /\ GoodConfig(Setup!ServiceConfig_Write(c)) /\ NoOrdersIn(Setup!ServiceConfig_Write(c))
           /\ Rules(c) => Means(Setup!ServiceConfig_Write(c), Setup!Meaning(c)) /\ Accepts(Setup!ServiceConfig_Write(c))
           /\ Setup!ServiceConfig_Write(c) # Setup!Unreadable /\ Setup!ServiceConfig_Write(c) # Setup!Missing
<1>1. Setup!ServiceConfig_Write(c).type = "object" /\ Setup!Unreadable.type = "garbage" /\ Setup!Missing.type = "missing"
  BY DEF Setup!ServiceConfig_Write, Setup!Unreadable, Setup!Missing
<1>2. Setup!ServiceConfig_Write(c) # Setup!Unreadable /\ Setup!ServiceConfig_Write(c) # Setup!Missing
  BY <1>1
<1>. QED BY <1>2, WrittenIs DEF Means, Accepts

\* The config the service writes means the same, and has no orders any more.
LEMMA MigrationWritesKeeps ==
    ASSUME NEW nodes, FilesParsed(nodes), FilesInv(nodes), Setup!MigrationWrites PROVE FilesInv(nodes)'
<1>1. /\ daemon.at = "writes" /\ conf' = Setup!ServiceConfig_Write(daemon.config)
      /\ UNCHANGED <<desk, stored, editor, settings, wishes>>
      /\ daemon' = [daemon EXCEPT !.at = "loads"]
  BY DEF Setup!MigrationWrites
<1>2. /\ DaemonIs(daemon') /\ daemon'.at = "loads" /\ daemon'.config = daemon.config
      /\ daemon'.speeds = daemon.speeds
  BY <1>1, DaemonMoves DEF FilesInv, FilesAreTyped
<1>3. /\ GoodConfig(conf') /\ NoOrdersIn(conf') /\ Accepts(conf') /\ conf' # Setup!Unreadable
      /\ Means(conf', Setup!Meaning(daemon.config))
  BY <1>1, WriteIs DEF FilesInv, FilesAreTyped, DaemonIs, FilesParsed
<1>4. FilesAreTyped(nodes)'
  BY <1>1, <1>2, <1>3 DEF FilesInv, FilesAreTyped, Setup!IsDesk
<1>5. SettingsInv'
  BY <1>1, <1>2, <1>3 DEF FilesInv, SettingsInv, Migrates, Bases
<1>6. WishesInv'
  BY <1>1, <1>2, <1>3 DEF FilesInv, WishesInv, EditorHasNoOrders
<1>. QED BY <1>4, <1>5, <1>6 DEF FilesInv

\* When that fails, the orders are not promised any more.
LEMMA MigrationFailsKeeps ==
    ASSUME NEW nodes, FilesInv(nodes), Setup!MigrationFails PROVE FilesInv(nodes)'
<1>1. /\ daemon.at \in {"opens", "writes"} /\ Setup!Fault /\ wishes' = {}
      /\ UNCHANGED <<conf, stored, editor>>
      /\ settings' = IF daemon.at = "writes" THEN {} ELSE settings
      /\ daemon' = [daemon EXCEPT !.at = "loads"]
  BY DEF Setup!MigrationFails
<1>2. /\ DaemonIs(daemon') /\ daemon'.at = "loads" /\ daemon'.config = daemon.config
      /\ daemon'.speeds = daemon.speeds
  BY <1>1, DaemonMoves DEF FilesInv, FilesAreTyped
<1>4. FilesAreTyped(nodes)'
  BY <1>1, <1>2, FaultIs DEF FilesInv, FilesAreTyped
<1>5. SettingsInv'
  BY <1>1, <1>2 DEF FilesInv, SettingsInv, Migrates, Bases
<1>6. WishesInv'
  BY <1>1, <1>2 DEF FilesInv, WishesInv, EditorHasNoOrders
<1>. QED BY <1>4, <1>5, <1>6 DEF FilesInv

\* A service that ends has its orders until they are saved,
LEMMA StartFailsOrQuitKeeps ==
    ASSUME NEW nodes, FilesInv(nodes), Setup!ServiceStartFails \/ Setup!Quit PROVE FilesInv(nodes)'
<1>1. /\ daemon.at \in {"loads", "runs"} /\ (Setup!Fault \/ UNCHANGED desk)
      /\ UNCHANGED <<conf, stored, editor, settings, wishes>>
      /\ daemon' = [daemon EXCEPT !.at = "ends"]
  BY DEF Setup!ServiceStartFails, Setup!Quit
<1>2. /\ DaemonIs(daemon') /\ daemon'.at = "ends" /\ daemon'.config = daemon.config
      /\ daemon'.speeds = daemon.speeds
  BY <1>1, DaemonMoves DEF FilesInv, FilesAreTyped
<1>4. FilesAreTyped(nodes)'
  BY <1>1, <1>2, FaultIs DEF FilesInv, FilesAreTyped, Setup!IsDesk
<1>5. SettingsInv'
  BY <1>1, <1>2 DEF FilesInv, SettingsInv, Migrates, Bases
<1>6. WishesInv'
  BY <1>1, <1>2 DEF FilesInv, WishesInv, EditorHasNoOrders
<1>. QED BY <1>4, <1>5, <1>6 DEF FilesInv

\* while it saves them,
LEMMA StateOpensKeeps ==
    ASSUME NEW nodes, FilesInv(nodes), Setup!StateOpens PROVE FilesInv(nodes)'
<1>1. /\ daemon.at = "ends" /\ stored' = Setup!Unreadable
      /\ UNCHANGED <<desk, conf, editor, settings, wishes>>
      /\ daemon' = [daemon EXCEPT !.at = "saves"]
  BY DEF Setup!StateOpens
<1>2. /\ DaemonIs(daemon') /\ daemon'.at = "saves" /\ daemon'.config = daemon.config
      /\ daemon'.speeds = daemon.speeds
  BY <1>1, DaemonMoves DEF FilesInv, FilesAreTyped
<1>4. FilesAreTyped(nodes)'
  BY <1>1, <1>2, UnreadableIs DEF FilesInv, FilesAreTyped, Setup!IsDesk
<1>5. SettingsInv'
  BY <1>1, <1>2 DEF FilesInv, SettingsInv, Migrates, Bases
<1>6. WishesInv'
  BY <1>1, <1>2 DEF FilesInv, WishesInv, EditorHasNoOrders
<1>. QED BY <1>4, <1>5, <1>6 DEF FilesInv

\* and then the state has them, and no config hides it.
LEMMA StateWritesKeeps ==
    ASSUME NEW nodes, FilesParsed(nodes), FilesInv(nodes), Setup!StateWrites PROVE FilesInv(nodes)'
<1>1. /\ daemon.at = "saves" /\ stored' = Setup!ServiceState_Write(daemon.speeds) /\ daemon'.at = "down"
      /\ UNCHANGED <<desk, conf, editor, settings, wishes>>
  BY DEF Setup!StateWrites
<1>2. GoodState(stored') /\ Setup!Ordered(SpeedsIn(stored')) = Setup!Ordered(daemon.speeds)
  BY <1>1, StateRoundTrip DEF FilesInv, FilesAreTyped, DaemonIs, FilesParsed
<1>3. FilesAreTyped(nodes)'
  BY <1>1, <1>2 DEF FilesInv, FilesAreTyped, Setup!IsDesk, DaemonIs
<1>4. SettingsInv'
  BY <1>1 DEF FilesInv, SettingsInv, Migrates, Bases
<1>5. \A all \in wishes : all = Setup!Ordered(SpeedsIn(stored')) /\ NoOrdersIn(conf)
  BY <1>1, <1>2 DEF FilesInv, WishesInv
<1>6. Accepts(conf) /\ NoOrdersIn(conf) => TakesUp(conf, stored') = Setup!Ordered(SpeedsIn(stored'))
  BY TakesUpState
<1>7. WishesInv'
  BY <1>1, <1>5, <1>6 DEF FilesInv, WishesInv, EditorHasNoOrders
<1>. QED BY <1>3, <1>4, <1>7 DEF FilesInv

\* A service that is killed leaves what is on disk.
LEMMA ServiceDiesKeeps ==
    ASSUME NEW nodes, FilesInv(nodes), Setup!ServiceDies PROVE FilesInv(nodes)'
<1>1. /\ daemon.at # "down" /\ Setup!Fault /\ daemon'.at = "down"
      /\ settings' = IF daemon.at = "writes" THEN {} ELSE settings
      /\ wishes' = IF Accepts(conf) THEN wishes \cap {TakesUp(conf, stored)} ELSE {}
      /\ UNCHANGED <<conf, stored, editor>>
  BY OnDiskIs DEF Setup!ServiceDies, Setup!Startable, Accepts, Setup!Failed
<1>2. FilesAreTyped(nodes)'
  BY <1>1, FaultIs DEF FilesInv, FilesAreTyped, DaemonIs
<1>3. SettingsInv'
  BY <1>1 DEF FilesInv, SettingsInv, Migrates, Bases
<1>4. Accepts(conf) /\ NoOrdersIn(conf) => TakesUp(conf, stored) = Setup!Ordered(SpeedsIn(stored))
  BY TakesUpState
<1>5. WishesInv'
  BY <1>1, <1>4 DEF FilesInv, WishesInv, EditorHasNoOrders
<1>. QED BY <1>2, <1>3, <1>5 DEF FilesInv

\* The client writes what the user has set up.
LEMMA ClientWritesKeeps ==
    ASSUME NEW nodes, FilesParsed(nodes), FilesInv(nodes), Setup!ClientWrites PROVE FilesInv(nodes)'
<1>. DEFINE c == editor.config
<1>1. /\ editor.at = "writes" /\ conf' = Setup!ServiceConfig_Write(c) /\ editor'.at = "idle"
      /\ settings' = {Setup!Edited(s, editor.edit) : s \in Bases}
      /\ wishes' = IF HasOrders(c) THEN {} ELSE wishes
      /\ UNCHANGED <<desk, stored, daemon>>
  BY DEF Setup!ClientWrites, Bases, HasOrders
<1>2. /\ GoodConfig(conf') /\ NoOrdersIn(conf') /\ conf' # Setup!Missing /\ (Rules(c) => Means(conf', Setup!Meaning(c)) /\ Accepts(conf'))
  BY <1>1, WriteIs DEF FilesInv, FilesAreTyped, EditorIs, FilesParsed
<1>3. FilesAreTyped(nodes)'
  BY <1>1, <1>2 DEF FilesInv, FilesAreTyped, Setup!IsDesk, EditorIs
<1>4. SettingsInv'
  <2>1. ASSUME NEW s \in settings' PROVE Means(conf', s) /\ ~ Migrates
    <3>1. PICK t \in Bases : s = Setup!Edited(t, editor.edit)
      BY <1>1
    <3>2. Rules(c) /\ Setup!Meaning(c) = s
      BY <1>1, <3>1 DEF FilesInv, SettingsInv
    <3>3. ~ Migrates
      BY <1>1, <3>1 DEF FilesInv, SettingsInv, Bases
    <3>. QED BY <1>2, <3>2, <3>3
  <2>. QED BY <1>1, <1>2, <2>1 DEF SettingsInv, Migrates
<1>5. Accepts(conf') => TakesUp(conf', stored) = Setup!Ordered(SpeedsIn(stored))
  BY <1>2, TakesUpState
<1>6. WishesInv'
  BY <1>1, <1>2, <1>5 DEF FilesInv, WishesInv, EditorHasNoOrders
<1>. QED BY <1>3, <1>4, <1>6 DEF FilesInv

\* A config without its orders means the same.
LEMMA WithoutOrders ==
    ASSUME NEW c, IsConfig(c), Rules(c), NEW d,
           d = [k \in (DOMAIN c) \ {"TargetFanSpeeds"} |-> c[k]]
    PROVE  IsConfig(d) /\ Rules(d) /\ ~ HasOrders(d) /\ Setup!Meaning(d) = Setup!Meaning(c)
<1>1. /\ DOMAIN d = (DOMAIN c) \ {"TargetFanSpeeds"} /\ IsFunction(d)
      /\ \A k \in DOMAIN c : k # "TargetFanSpeeds" => d[k] = c[k]
  BY DEF IsFunction
<1>2. /\ Setup!Sources(d) = Setup!Sources(c)
      /\ Setup!Given(d, "EmbeddedControllerType", "") = Setup!Given(c, "EmbeddedControllerType", "")
  <2>1. Setup!Sources(d) = Setup!Sources(c)
    BY <1>1 DEF Setup!Sources, Setup!Given, Setup!Has
  <2>2. Setup!Given(d, "EmbeddedControllerType", "") = Setup!Given(c, "EmbeddedControllerType", "")
    BY <1>1 DEF Setup!Sources, Setup!Given, Setup!Has
  <2>. QED BY <2>1, <2>2
<1>3. Rules(d) /\ Setup!Meaning(d) = Setup!Meaning(c)
  <2>1. d.SelectedConfigId = c.SelectedConfigId /\ Setup!Has(d, {"SelectedConfigId"})
    BY <1>1 DEF Rules, Setup!Has
  <2>2. Rules(d)
    BY <1>2, <2>1 DEF Rules
  <2>3. Setup!Meaning(d) = Setup!Meaning(c)
    BY <1>2, <2>1 DEF Setup!Meaning
  <2>. QED BY <2>2, <2>3
<1>4. IsConfig(d)
  BY <1>1 DEF IsConfig, Setup!Has
<1>. QED BY <1>1, <1>3, <1>4 DEF HasOrders, Setup!Has

\* The service takes up what is on disk.
LEMMA Service_InitKeeps ==
    ASSUME NEW nodes, FilesParsed(nodes), FilesInv(nodes), Setup!Service_Init PROVE FilesInv(nodes)'
<1>1. PICK c \in Setup!ServiceConfig_FromFile(conf) :
          daemon' = [config |-> [k \in (DOMAIN c) \ {"TargetFanSpeeds"} |-> c[k]], fans |-> 0,
                     at |-> IF HasOrders(c) THEN "opens" ELSE "loads",
                     speeds |-> IF HasOrders(c) THEN c.TargetFanSpeeds ELSE SpeedsIn(stored)]
  BY DEF Setup!Service_Init, HasOrders, SpeedsIn
<1>. DEFINE d == [k \in (DOMAIN c) \ {"TargetFanSpeeds"} |-> c[k]]
            speeds == IF HasOrders(c) THEN c.TargetFanSpeeds ELSE SpeedsIn(stored)
<1>2. /\ daemon.at = "down" /\ desk' = [desk EXCEPT !.starts = @ - 1]
      /\ UNCHANGED <<conf, stored, editor, wishes>>
      /\ settings' = IF Setup!Apart THEN settings ELSE {}
  BY DEF Setup!Service_Init
<1>3. /\ Setup!ServiceConfig_FromFile(conf) = {c} /\ Setup!The(Setup!ServiceConfig_FromFile(conf)) = c
      /\ IsConfig(c) /\ Rules(c) /\ (HasOrders(c) => IsSpeeds(c.TargetFanSpeeds))
  BY AcceptedIs DEF FilesParsed, FilesInv, FilesAreTyped
<1>4. IsConfig(d) /\ Rules(d) /\ ~ HasOrders(d) /\ Setup!Meaning(d) = Setup!Meaning(c)
  BY <1>3, WithoutOrders
<1>5. IsSpeeds(speeds)
  BY <1>3, StateIs DEF FilesParsed, FilesInv, FilesAreTyped
<1>. HIDE DEF d, speeds
<1>6. /\ daemon' = [config |-> d, fans |-> 0, at |-> daemon'.at, speeds |-> speeds]
      /\ daemon'.at = IF HasOrders(c) THEN "opens" ELSE "loads"
      /\ daemon'.config = d /\ daemon'.speeds = speeds
  <2>1. daemon' = [config |-> d, fans |-> 0, at |-> IF HasOrders(c) THEN "opens" ELSE "loads",
                   speeds |-> speeds]
    BY <1>1, Zenon DEF d, speeds
  <2>. QED BY <2>1
<1>7. Setup!IsDesk(desk', nodes)
  <2>1. desk'.disk = desk.disk /\ desk'.edits = desk.edits /\ desk'.requests = desk.requests
    BY <1>2
  <2>. QED BY <2>1 DEF FilesInv, FilesAreTyped, Setup!IsDesk
<1>8. FilesAreTyped(nodes)'
  <2>1. DaemonIs(daemon')
    BY <1>4, <1>5, <1>6 DEF DaemonIs
  <2>. QED BY <1>2, <1>7, <2>1 DEF FilesInv, FilesAreTyped
<1>9. Accepts(conf) /\ TakesUp(conf, stored) = Setup!Ordered(speeds)
  <2>1. TakesUp(conf, stored) = Setup!Ordered(speeds)
    BY <1>3, TakesUpIs DEF speeds
  <2>. QED BY <2>1 DEF Accepts
<1>10. SettingsInv'
  <2>1. editor.at # "idle" => ~ editor.fresh
    BY <1>9, UnreadableIs DEF FilesInv, SettingsInv
  <2>2. settings' = {} \/ settings' = settings
    BY <1>2
  <2>3. Migrates' /\ editor.at # "idle" => settings' = {}
    BY <1>2 DEF Setup!Apart, Migrates
  <2>4. ASSUME NEW s \in settings', Migrates' PROVE Setup!Meaning(d) = s
    <3>1. editor.at # "writes" /\ s \in settings
      BY <2>2, <2>3, <2>4
    <3>2. Means(conf, s)
      BY <1>2, <3>1 DEF FilesInv, SettingsInv
    <3>. QED BY <1>3, <1>4, <3>2 DEF Means
  <2>5. daemon'.at # "writes"
    BY <1>6
  <2>6. editor.at # "writes" => \A s \in settings' : Means(conf, s)
    BY <1>2, <2>2 DEF FilesInv, SettingsInv
  <2>7. editor.at # "idle" => \A s \in Bases' :
            Rules(editor.config) /\ Setup!Meaning(editor.config) = Setup!Edited(s, editor.edit)
    BY <1>2, <2>2 DEF FilesInv, SettingsInv, Bases
  <2>8. editor.at # "idle" /\ editor.fresh => conf = IF editor.at = "opens" THEN Setup!Missing ELSE Setup!Unreadable
    BY <2>1
  <2>9. conf # Setup!Missing
    BY <1>9, UnreadableIs
  <2>. QED BY <1>2, <1>6, <2>1, <2>3, <2>4, <2>6, <2>7, <2>8, <2>9 DEF SettingsInv
<1>11. WishesInv'
  <2>1. \A all \in wishes : all = Setup!Ordered(speeds)
    BY <1>2, <1>9 DEF FilesInv, WishesInv
  <2>2. ~ HasOrders(c) => NoOrdersIn(conf)
    BY <1>3 DEF NoOrdersIn
  <2>. QED BY <1>2, <1>6, <2>1, <2>2 DEF FilesInv, WishesInv, EditorHasNoOrders
<1>. QED BY <1>8, <1>10, <1>11 DEF FilesInv

\* ModelConfig_FromJson takes each field from an item of that name,
LEMMA ReadsModel ==
    ASSUME NEW node, node.type = "object" => Setup!IsList(node.items), NEW c \in Setup!ModelConfig_FromJson(node)
    PROVE  /\ Setup!ModelConfig_FromJson(node) = {c} /\ node.type = "object"
           /\ IsFunction(c) /\ DOMAIN c \subseteq DOMAIN Setup!ModelFields
           /\ \A key \in DOMAIN c : \E i \in DOMAIN node.items :
                  node.items[i].key = key /\ c[key] \in Setup!ModelFieldFromJson(Setup!ModelFields[key], node.items[i].node)
<1>. DEFINE Field(item) == IF item.key \in DOMAIN Setup!ModelFields
                           THEN Setup!ModelFieldFromJson(Setup!ModelFields[item.key], item.node) ELSE Setup!Failed
            values == [i \in Uncommented(node) |-> Field(node.items[i])]
<1>1. FromItems(Setup!ModelConfig_FromJson(node), node, values)
  BY Zenon DEF FromItems, Uncommented, Setup!ModelConfig_FromJson, Setup!ObjectFromJson, Setup!FieldsFromJson
<1>. HIDE DEF values
<1>2. /\ Setup!ModelConfig_FromJson(node) = {c} /\ node.type = "object" /\ IsFunction(c)
      /\ \A key \in DOMAIN c : \E i \in Uncommented(node) :
             node.items[i].key = key /\ values[i] # Setup!Failed /\ c[key] \in values[i]
  BY <1>1, ItemsRead
<1>3. ASSUME NEW i \in Uncommented(node), values[i] # Setup!Failed
      PROVE  /\ i \in DOMAIN node.items /\ node.items[i].key \in DOMAIN Setup!ModelFields
             /\ values[i] = Setup!ModelFieldFromJson(Setup!ModelFields[node.items[i].key], node.items[i].node)
  BY <1>3 DEF values, Uncommented
<1>. QED BY <1>2, <1>3

\* and the fans one by one.
LEMMA FansRead ==
    ASSUME NEW node, node.type = "array" => Setup!IsList(node.elems), NEW v \in Setup!ModelFieldFromJson("fans", node)
    PROVE  /\ node.type = "array" /\ Setup!IsList(v) /\ DOMAIN v = DOMAIN node.elems
           /\ \A i \in DOMAIN v : v[i] \in Setup!Fan_FromJson(node.elems[i])
<1>. DEFINE values == [i \in DOMAIN node.elems |-> Setup!Fan_FromJson(node.elems[i])]
<1>1. FromElems(Setup!ModelFieldFromJson("fans", node), node, values)
  BY Zenon DEF FromElems, Setup!ModelFieldFromJson, Setup!ArrayFromJson
<1>2. DOMAIN values = DOMAIN node.elems
  OBVIOUS
<1>3. \A i \in DOMAIN node.elems : values[i] = Setup!Fan_FromJson(node.elems[i])
  OBVIOUS
<1>. HIDE DEF values
<1>. QED BY <1>1, <1>2, <1>3, ElemsRead

\* What an object is once it is completed by another.
Completes(c, a, b) ==
    /\ DOMAIN c = (DOMAIN a) \cup (DOMAIN b) /\ IsFunction(c)
    /\ \A key \in DOMAIN a : c[key] = a[key]
    /\ \A key \in DOMAIN b : key \notin DOMAIN a => c[key] = b[key]

\* Completed does that.
LEMMA CompletedIs == ASSUME NEW a, NEW b, NEW c, c = Setup!Completed(a, b) PROVE Completes(c, a, b)
BY DEF Setup!Completed, IsFunction, Completes

\* A model has as many fans as its file, once defaults are set.
LEMMA DefaultsKeepFans ==
    ASSUME NEW c, IsFunction(c), "FanConfigurations" \in DOMAIN c, Setup!IsList(c.FanConfigurations)
    PROVE  Len(Setup!WithModelDefaults(c).FanConfigurations) \in Nat
<1>. DEFINE m == Setup!Completed(c, Setup!ModelDefaults)
            made == Setup!WithModelDefaults(c).FanConfigurations
<1>1. /\ IsFunction(m) /\ "FanConfigurations" \in DOMAIN m
      /\ m.FanConfigurations = c.FanConfigurations
  <2>1. Completes(m, c, Setup!ModelDefaults)
    BY CompletedIs
  <2>. HIDE DEF m
  <2>. QED BY <2>1 DEF Completes
<1>2. Setup!WithModelDefaults(c) =
        [m EXCEPT !.RegisterWriteConfigurations = [i \in DOMAIN @ |-> Setup!WithRegisterDefaults(@[i])],
                  !.FanConfigurations =
                      [i \in DOMAIN @ |-> Setup!WithFanDefaults(@[i], m.LegacyTemperatureThresholdsBehaviour)]]
  BY Zenon DEF Setup!WithModelDefaults
<1>. HIDE DEF m
<1>3. made = [i \in DOMAIN c.FanConfigurations |->
                 Setup!WithFanDefaults(c.FanConfigurations[i], m.LegacyTemperatureThresholdsBehaviour)]
  BY <1>1, <1>2
<1>4. Len(c.FanConfigurations) \in Nat /\ DOMAIN c.FanConfigurations = 1..Len(c.FanConfigurations)
  BY <1>1, ListIsFunction
<1>. HIDE DEF made
<1>5. made = [i \in 1..Len(c.FanConfigurations) |-> made[i]]
  BY <1>3, <1>4
<1>6. Len(made) = Len(c.FanConfigurations)
  BY <1>4, <1>5, FunctionIsList, Zenon
<1>. QED BY <1>4, <1>6 DEF made

\* A valid model has a number of fans.
LEMMA ModelsHaveFans ==
    ASSUME NEW nodes, Setup!AreNodes(nodes), NEW disk, \A place \in DOMAIN disk : disk[place] \in nodes,
           NEW name, NEW model \in Setup!Loaded(disk, name)
    PROVE  Len(model.FanConfigurations) \in Nat
<1>. DEFINE found == {i \in 1..5 : Setup!Places(name)[i] \in DOMAIN disk}
            first == CHOOSE i \in found : \A j \in found : i <= j
            node == disk[Setup!Places(name)[first]]
            from == Setup!ModelConfig_FindAndLoad(disk, name)
            c == Setup!The(from)
<1>1. from # {} /\ model \in Setup!ModelConfig_Validate(c)
  <2>. HIDE DEF from
  <2>1. Setup!Loaded(disk, name) = IF from = Setup!Failed THEN Setup!Failed ELSE Setup!ModelConfig_Validate(c)
    BY Zenon DEF Setup!Loaded, from
  <2>. QED BY <2>1 DEF Setup!Failed
<1>2. from = IF found = {} THEN Setup!Failed
             ELSE IF node.type = "garbage" THEN Setup!Failed ELSE Setup!ModelConfig_FromJson(node)
  BY Zenon DEF Setup!ModelConfig_FindAndLoad
<1>3. found # {} /\ c \in Setup!ModelConfig_FromJson(node)
  <2>. HIDE DEF from, found, node
  <2>1. from = Setup!ModelConfig_FromJson(node) /\ found # {}
    BY <1>1, <1>2 DEF Setup!Failed
  <2>. QED BY <1>1, <2>1, TheIn
<1>4. node \in nodes
  <2>1. first \in found
    <3>1. \E i \in found : \A j \in found : i <= j
      <4>1. found \subseteq Nat
        OBVIOUS
      <4>. HIDE DEF found
      <4>. QED BY <1>3, <4>1, LeastElement
    <3>. HIDE DEF found
    <3>. QED BY <3>1
  <2>. QED BY <2>1
<1>. HIDE DEF found, first, node, from, c
<1>5. "FanConfigurations" \in DOMAIN c /\ model = Setup!WithModelDefaults(c)
  BY <1>1 DEF Setup!ModelConfig_Validate, Setup!Has, Setup!Failed
<1>6. /\ node.type = "object" /\ IsFunction(c) /\ Setup!IsList(node.items)
      /\ \A key \in DOMAIN c : \E i \in DOMAIN node.items :
             node.items[i].key = key /\ c[key] \in Setup!ModelFieldFromJson(Setup!ModelFields[key], node.items[i].node)
  BY <1>3, <1>4, ReadsModel DEF Setup!AreNodes
<1>7. Setup!IsList(c.FanConfigurations)
  <2>1. PICK i \in DOMAIN node.items :
            c.FanConfigurations \in Setup!ModelFieldFromJson("fans", node.items[i].node)
    BY <1>5, <1>6 DEF Setup!ModelFields
  <2>2. node.items[i].node \in nodes
    BY <1>4, <1>6, ElementOf DEF Setup!AreNodes
  <2>. QED BY <2>1, <2>2, FansRead DEF Setup!AreNodes
<1>. QED BY <1>5, <1>6, <1>7, DefaultsKeepFans

\* With the model, the service knows how many fans there are.
LEMMA ServiceStartsKeeps ==
    ASSUME NEW nodes, FilesParsed(nodes), FilesInv(nodes), Setup!ServiceStarts PROVE FilesInv(nodes)'
<1>1. PICK model \in Setup!Models(daemon.config) :
          daemon' = [daemon EXCEPT !.at = "runs", !.fans = Len(model.FanConfigurations)]
  BY DEF Setup!ServiceStarts
<1>2. daemon.at = "loads" /\ UNCHANGED <<desk, conf, stored, editor, settings, wishes>>
  BY DEF Setup!ServiceStarts
<1>. DEFINE fans == Len(model.FanConfigurations)
<1>3. fans \in Nat
  <2>1. model \in Setup!Loaded(desk.disk, daemon.config.SelectedConfigId)
    BY <1>1 DEF Setup!Models
  <2>. QED BY <2>1, ModelsHaveFans DEF FilesParsed, FilesInv, FilesAreTyped, Setup!IsDesk
<1>. HIDE DEF fans
<1>4. daemon' = [daemon EXCEPT !.at = "runs", !.fans = fans]
  BY <1>1, Zenon DEF fans
<1>5. /\ daemon'.at = "runs" /\ daemon'.config = daemon.config /\ daemon'.speeds = daemon.speeds
      /\ DaemonIs(daemon')
  <2>1. daemon = [config |-> daemon.config, fans |-> daemon.fans, at |-> daemon.at, speeds |-> daemon.speeds]
    BY <1>2 DEF FilesInv, FilesAreTyped, DaemonIs
  <2>2. /\ daemon'.at = "runs" /\ daemon'.config = daemon.config /\ daemon'.speeds = daemon.speeds
        /\ daemon' = [config |-> daemon.config, fans |-> fans, at |-> "runs", speeds |-> daemon.speeds]
        /\ daemon'.fans = fans
    BY <1>4, <2>1
  <2>. QED BY <1>2, <1>3, <2>2 DEF FilesInv, FilesAreTyped, DaemonIs
<1>6. FilesAreTyped(nodes)'
  BY <1>2, <1>5 DEF FilesInv, FilesAreTyped, Setup!IsDesk
<1>7. SettingsInv'
  BY <1>2, <1>5 DEF FilesInv, SettingsInv, Migrates, Bases
<1>8. WishesInv'
  BY <1>2, <1>5 DEF FilesInv, WishesInv, EditorHasNoOrders
<1>. QED BY <1>6, <1>7, <1>8 DEF FilesInv

\* An order for one fan leaves the orders of the others, as far as there are fans.
LEMMA OrderedAfter ==
    ASSUME Part \in Nat \ {0}, NEW speeds, IsSpeeds(speeds), NEW fans \in Nat, NEW request \in Setup!Requests,
           request.fan < fans, NEW made,
           made = [i \in 1..fans |-> IF i = request.fan + 1 THEN request.speed
                                     ELSE IF i \in DOMAIN speeds THEN speeds[i] ELSE Setup!Auto]
    PROVE  /\ IsSpeeds(made)
           /\ Setup!Ordered(made) = {w \in Setup!Ordered(speeds) : w[1] # request.fan /\ w[1] < fans}
                              \cup (IF request.speed = Setup!Auto THEN {} ELSE {<<request.fan, request.speed>>})
<1>. DEFINE f == request.fan
            v == request.speed
<1>1. f \in Nat /\ v \in {Setup!Auto} \cup (0..Setup!Full) /\ f < fans
  BY DEF Setup!Requests
<1>2. Setup!Full \in Nat /\ Setup!Auto \in Int /\ Setup!Auto < 0
  BY FullIsNumber
<1>3. /\ DOMAIN made = 1..fans /\ made[f + 1] = v
      /\ \A i \in 1..fans : i # f + 1 => made[i] = IF i \in DOMAIN speeds THEN speeds[i] ELSE Setup!Auto
  BY <1>1
<1>4. DOMAIN speeds \subseteq Nat \ {0} /\ \A i \in DOMAIN speeds : speeds[i] \in Int /\ speeds[i] <= Setup!Full
  BY DEF IsSpeeds
<1>. HIDE DEF f, v
<1>5. \A i \in 1..fans : made[i] \in Int /\ made[i] <= Setup!Full
  BY <1>1, <1>2, <1>3, <1>4
<1>6. IsSpeeds(made)
  <2>1. made \in [1..fans -> Int]
    BY <1>3, <1>5
  <2>. QED BY <1>3, <1>5, <2>1 DEF IsSpeeds
<1>. DEFINE others == {w \in Setup!Ordered(speeds) : w[1] # f /\ w[1] < fans}
            its == IF v = Setup!Auto THEN {} ELSE {<<f, v>>}
<1>7. ASSUME NEW w \in Setup!Ordered(made) PROVE w \in others \cup its
  <2>1. PICK i \in 1..fans : made[i] >= 0 /\ w = <<i - 1, made[i]>>
    BY <1>3 DEF Setup!Ordered
  <2>2. CASE i = f + 1
    <3>1. w = <<f, v>> /\ v # Setup!Auto
      BY <1>1, <1>2, <1>3, <2>1, <2>2
    <3>. QED BY <3>1
  <2>3. CASE i # f + 1
    <3>1. i \in DOMAIN speeds /\ w = <<i - 1, speeds[i]>> /\ speeds[i] >= 0
      BY <1>2, <1>3, <2>1, <2>3
    <3>2. w \in Setup!Ordered(speeds)
      BY <3>1 DEF Setup!Ordered
    <3>3. w[1] # f /\ w[1] < fans
      BY <1>1, <2>1, <2>3, <3>1
    <3>. QED BY <3>2, <3>3
  <2>. QED BY <2>2, <2>3
<1>8. ASSUME NEW w \in others \cup its PROVE w \in Setup!Ordered(made)
  <2>1. CASE w \in its
    <3>1. w = <<f, v>> /\ v >= 0
      BY <1>1, <1>2, <2>1
    <3>2. f + 1 \in DOMAIN made /\ made[f + 1] >= 0 /\ w = <<(f + 1) - 1, made[f + 1]>>
      BY <1>1, <1>3, <3>1
    <3>. QED BY <3>2 DEF Setup!Ordered
  <2>2. CASE w \in others
    <3>1. w \in Setup!Ordered(speeds) /\ w[1] # f /\ w[1] < fans
      BY <2>2
    <3>2. PICK i \in DOMAIN speeds : speeds[i] >= 0 /\ w = <<i - 1, speeds[i]>>
      BY <3>1 DEF Setup!Ordered
    <3>3. i \in 1..fans /\ i # f + 1
      BY <1>1, <1>4, <3>1, <3>2
    <3>4. made[i] = speeds[i]
      BY <1>3, <3>2, <3>3
    <3>. QED BY <1>3, <3>2, <3>3, <3>4 DEF Setup!Ordered
  <2>. QED BY <2>1, <2>2
<1>9. Setup!Ordered(made) = others \cup its
  BY <1>7, <1>8
<1>. QED BY <1>6, <1>9 DEF f, v

\* The service has the orders the user has given, one more with each request.
LEMMA SetFanSpeedKeeps ==
    ASSUME NEW nodes, FilesParsed(nodes), FilesInv(nodes), Setup!SetFanSpeed PROVE FilesInv(nodes)'
<1>. DEFINE request == Head(desk.requests)
            made == [i \in 1..daemon.fans |->
                        IF i = request.fan + 1 THEN request.speed
                        ELSE IF i \in DOMAIN daemon.speeds THEN daemon.speeds[i] ELSE Setup!Auto]
            Afterwards(all) == {w \in all : w[1] # request.fan /\ w[1] < daemon.fans}
                          \cup (IF request.speed = Setup!Auto THEN {} ELSE {<<request.fan, request.speed>>})
<1>1. /\ daemon.at = "runs" /\ desk.requests # <<>> /\ request.fan < daemon.fans
      /\ desk' = [desk EXCEPT !.requests = Tail(@)]
      /\ UNCHANGED <<conf, stored, editor, settings>>
      /\ daemon' = [daemon EXCEPT !.speeds = made]
      /\ wishes' = {Afterwards(all) : all \in wishes}
  BY Zenon DEF Setup!SetFanSpeed
<1>2. /\ request \in Setup!Requests /\ Setup!IsDesk(desk', nodes)
  <2>1. desk.requests \in Seq(Setup!Requests)
    BY DEF FilesInv, FilesAreTyped, Setup!IsDesk
  <2>2. request \in Setup!Requests /\ Tail(desk.requests) \in Seq(Setup!Requests)
    BY <1>1, <2>1
  <2>3. /\ desk'.disk = desk.disk /\ desk'.edits = desk.edits
        /\ desk'.requests = Tail(desk.requests) \/ desk'.requests = desk.requests
    BY <1>1
  <2>. QED BY <2>1, <2>2, <2>3 DEF FilesInv, FilesAreTyped, Setup!IsDesk
<1>. HIDE DEF request
<1>3. /\ daemon = [config |-> daemon.config, fans |-> daemon.fans, at |-> daemon.at, speeds |-> daemon.speeds]
      /\ IsSpeeds(daemon.speeds) /\ daemon.fans \in Nat
  BY <1>1 DEF FilesInv, FilesAreTyped, DaemonIs
<1>4. IsSpeeds(made) /\ Setup!Ordered(made) = Afterwards(Setup!Ordered(daemon.speeds))
  <2>1. \E m : m = made
    OBVIOUS
  <2>. QED BY <1>1, <1>2, <1>3, OrderedAfter DEF FilesParsed
<1>. HIDE DEF made
<1>5. /\ daemon'.at = "runs" /\ daemon'.config = daemon.config /\ daemon'.speeds = made
      /\ DaemonIs(daemon')
  <2>1. /\ daemon'.at = "runs" /\ daemon'.config = daemon.config /\ daemon'.speeds = made
        /\ daemon' = [config |-> daemon.config, fans |-> daemon.fans, at |-> "runs", speeds |-> made]
        /\ daemon'.fans = daemon.fans
    BY <1>1, <1>3
  <2>. QED BY <1>1, <1>3, <1>4, <2>1 DEF FilesInv, FilesAreTyped, DaemonIs
<1>6. FilesAreTyped(nodes)'
  BY <1>1, <1>2, <1>5 DEF FilesInv, FilesAreTyped
<1>7. SettingsInv'
  BY <1>1, <1>5 DEF FilesInv, SettingsInv, Migrates, Bases
<1>8. ASSUME NEW all \in wishes' PROVE all = Setup!Ordered(made) /\ wishes # {}
  <2>1. PICK old \in wishes : all = Afterwards(old)
    BY <1>1
  <2>2. old = Setup!Ordered(daemon.speeds)
    BY <1>1 DEF FilesInv, WishesInv
  <2>. HIDE DEF Afterwards
  <2>. QED BY <1>4, <2>1, <2>2
<1>9. WishesInv'
  <2>. HIDE DEF Afterwards
  <2>. QED BY <1>1, <1>5, <1>8 DEF FilesInv, WishesInv, EditorHasNoOrders
<1>. QED BY <1>6, <1>7, <1>9 DEF FilesInv

\* The next edit is one that the commands let through.
LEMMA EditsAre ==
    ASSUME NEW nodes, Setup!IsDesk(desk, nodes), NEW cmd, Setup!Edits(cmd)
    PROVE  Setup!IsDesk(desk', nodes) /\ Setup!IsEdit(Head(desk.edits))
<1>1. /\ desk' = [desk EXCEPT !.edits = Tail(@)] /\ desk.edits # <<>>
  BY DEF Setup!Edits
<1>2. desk'.disk = desk.disk /\ desk'.requests = desk.requests
      /\ (desk'.edits = desk.edits \/ desk'.edits = Tail(desk.edits))
  BY <1>1
<1>. DEFINE es == desk.edits
<1>3. Setup!IsList(es) /\ es # <<>> /\ \A i \in DOMAIN es : Setup!IsEdit(es[i])
  BY <1>1 DEF Setup!IsDesk
<1>. HIDE DEF es
<1>4. Len(es) \in Nat \ {0} /\ DOMAIN es = 1..Len(es) /\ es \in Seq(Setup!ToSet(es))
  BY <1>3 DEF Setup!IsList
<1>5. Setup!IsEdit(Head(es))
  <2>1. Head(es) = es[1]
    BY <1>4
  <2>. QED BY <1>3, <1>4, <2>1
<1>6. /\ Tail(es) \in Seq(Setup!ToSet(es)) /\ Len(Tail(es)) = Len(es) - 1
      /\ \A i \in 1..(Len(es) - 1) : Tail(es)[i] = es[i + 1]
  BY <1>4
<1>7. Setup!IsList(Tail(es)) /\ \A i \in DOMAIN Tail(es) : Setup!IsEdit(Tail(es)[i])
  <2>1. DOMAIN Tail(es) = 1..(Len(es) - 1) /\ Len(es) - 1 \in Nat
    BY <1>4, <1>6
  <2>2. Tail(es) = [i \in 1..(Len(es) - 1) |-> Tail(es)[i]]
    <3>1. \A s \in Seq(Setup!ToSet(es)) : s = [i \in 1..Len(s) |-> s[i]]
      OBVIOUS
    <3>. QED BY <1>6, <3>1, Zenon
  <2>3. Setup!IsList(Tail(es))
    BY <2>1, <2>2, FunctionIsList, Zenon
  <2>. QED BY <1>3, <1>4, <1>6, <2>1, <2>3
<1>. QED BY <1>2, <1>3, <1>5, <1>7 DEF Setup!IsDesk, es

\* Another model in the config changes nothing else of what it means.
LEMMA Selected ==
    ASSUME NEW v, IsConfig(v), NEW name, NEW d, d = Setup!Completed([SelectedConfigId |-> name], v)
    PROVE  /\ IsConfig(d) /\ (HasOrders(d) <=> HasOrders(v))
           /\ Rules(v) => Rules(d) /\ Setup!Meaning(d) = [Setup!Meaning(v) EXCEPT !.id = name]
           /\ (\A i \in DOMAIN Setup!Sources(v) : FALSE) => Rules(d)
<1>. DEFINE a == [SelectedConfigId |-> name]
<1>1. DOMAIN a = {"SelectedConfigId"} /\ a.SelectedConfigId = name
  OBVIOUS
<1>. HIDE DEF a
<1>2. /\ DOMAIN d = {"SelectedConfigId"} \cup DOMAIN v /\ IsFunction(d) /\ d.SelectedConfigId = name
      /\ \A k \in DOMAIN v : k # "SelectedConfigId" => d[k] = v[k]
  <2>1. Completes(d, a, v)
    <3>1. d = Setup!Completed(a, v)
      BY DEF a
    <3>. QED BY <3>1, CompletedIs
  <2>. QED BY <1>1, <2>1 DEF Completes
<1>3. /\ Setup!Sources(d) = Setup!Sources(v)
      /\ Setup!Given(d, "EmbeddedControllerType", "") = Setup!Given(v, "EmbeddedControllerType", "")
  <2>1. Setup!Sources(d) = Setup!Sources(v)
    BY <1>2 DEF Setup!Sources, Setup!Given, Setup!Has
  <2>2. Setup!Given(d, "EmbeddedControllerType", "") = Setup!Given(v, "EmbeddedControllerType", "")
    BY <1>2 DEF Setup!Sources, Setup!Given, Setup!Has
  <2>. QED BY <2>1, <2>2
<1>4. Setup!Has(d, {"SelectedConfigId"})
  BY <1>2 DEF Setup!Has
<1>5. Rules(v) => Rules(d)
  <2>1. ASSUME Rules(v) PROVE Setup!Has(v, {"SelectedConfigId"})
    BY <2>1 DEF Rules
  <2>. QED BY <1>3, <1>4, <2>1, RulesOfSources
<1>6. (\A i \in DOMAIN Setup!Sources(v) : FALSE) => Rules(d)
  BY <1>3, <1>4 DEF Rules
<1>7. Setup!Meaning(d) = [Setup!Meaning(v) EXCEPT !.id = name]
  <2>. DEFINE ec == Setup!Given(v, "EmbeddedControllerType", "")
              said(sources) == Setup!Says({Setup!SettingOf(sources[i]) : i \in DOMAIN sources})
              entries == said(Setup!Sources(v))
  <2>1. Setup!Meaning(d) = [id |-> d.SelectedConfigId, ec |-> Setup!Given(d, "EmbeddedControllerType", ""),
                      entries |-> said(Setup!Sources(d))]
    BY Zenon DEF Setup!Meaning
  <2>2. Setup!Meaning(v) = [id |-> v.SelectedConfigId, ec |-> ec, entries |-> entries]
    BY Zenon DEF Setup!Meaning
  <2>3. Setup!Given(d, "EmbeddedControllerType", "") = ec /\ said(Setup!Sources(d)) = entries
    <3>. HIDE DEF said
    <3>. QED BY <1>3, Zenon
  <2>. HIDE DEF ec, said, entries
  <2>4. Setup!Meaning(d) = [id |-> name, ec |-> ec, entries |-> entries]
    BY <1>2, <2>1, <2>3
  <2>. QED BY <2>2, <2>4
<1>8. IsConfig(d) /\ (HasOrders(d) <=> HasOrders(v))
  <2>1. "SelectedConfigId" \in DOMAIN Setup!ServiceFields
    BY DEF Setup!ServiceFields
  <2>. QED BY <1>2, <2>1 DEF IsConfig, HasOrders, Setup!Has
<1>. QED BY <1>5, <1>6, <1>7, <1>8

\* A first config says nothing but the model
LEMMA EmptyRenamed ==
    ASSUME NEW name PROVE [Setup!Empty EXCEPT !.id = name] = [id |-> name, ec |-> "", entries |-> {}]
<1>. DEFINE no == ""
            none == {}
<1>1. Setup!Empty = [id |-> no, ec |-> no, entries |-> none]
  BY DEF Setup!Empty
<1>. HIDE DEF no, none
<1>2. [Setup!Empty EXCEPT !.id = name] = [id |-> name, ec |-> no, entries |-> none]
  BY <1>1
<1>. QED BY <1>2 DEF no, none

\* when there was no file.
LEMMA SelectedFirst ==
    ASSUME NEW name, NEW d, d = Setup!Completed([SelectedConfigId |-> name], <<>>)
    PROVE  IsConfig(d) /\ ~ HasOrders(d) /\ Rules(d) /\ Setup!Meaning(d) = [Setup!Empty EXCEPT !.id = name]
<1>. DEFINE a == [SelectedConfigId |-> name]
            none == <<>>
<1>1. DOMAIN a = {"SelectedConfigId"} /\ a.SelectedConfigId = name /\ DOMAIN none = {}
  OBVIOUS
<1>. HIDE DEF a, none
<1>2. DOMAIN d = {"SelectedConfigId"} /\ IsFunction(d) /\ d.SelectedConfigId = name
  <2>1. Completes(d, a, none)
    <3>1. d = Setup!Completed(a, none)
      BY DEF a, none
    <3>. QED BY <3>1, CompletedIs
  <2>. QED BY <1>1, <2>1 DEF Completes
<1>3. Setup!Sources(d) = <<>> /\ Setup!Given(d, "EmbeddedControllerType", "") = ""
  BY <1>2 DEF Setup!Sources, Setup!Given, Setup!Has
<1>4. DOMAIN Setup!Sources(d) = {}
  <2>1. DOMAIN none = {} /\ Setup!Sources(d) = none
    BY <1>1, <1>3 DEF none
  <2>. QED BY <2>1
<1>5. Rules(d)
  BY <1>2, <1>4 DEF Rules, Setup!Has
<1>6. Setup!Meaning(d) = [Setup!Empty EXCEPT !.id = name]
  <2>. DEFINE its == {Setup!SettingOf(Setup!Sources(d)[i]) : i \in DOMAIN Setup!Sources(d)}
  <2>1. Setup!Meaning(d) = [id |-> d.SelectedConfigId, ec |-> Setup!Given(d, "EmbeddedControllerType", ""),
                      entries |-> Setup!Says(its)]
    BY Zenon DEF Setup!Meaning
  <2>2. its = {}
    BY <1>4
  <2>. HIDE DEF its
  <2>3. Setup!Says(its) = {}
    BY <2>2 DEF Setup!Says
  <2>4. Setup!Meaning(d) = [id |-> name, ec |-> "", entries |-> {}]
    BY <1>2, <1>3, <2>1, <2>3
  <2>5. [Setup!Empty EXCEPT !.id = name] = [id |-> name, ec |-> "", entries |-> {}]
    BY EmptyRenamed
  <2>. QED BY <2>4, <2>5, Zenon
<1>7. IsConfig(d) /\ ~ HasOrders(d)
  BY <1>2 DEF IsConfig, HasOrders, Setup!Has, Setup!ServiceFields
<1>. QED BY <1>5, <1>6, <1>7

\* What an edit that has been begun may be.
Begins(edit, fresh, d) ==
    /\ IsConfig(d) /\ fresh \in BOOLEAN /\ (fresh => conf = Setup!Missing)
    /\ ~ HasOrders(d) => NoOrdersIn(conf)
    /\ ~ Rules(d) => wishes = {}
    /\ Accepts(conf) \/ wishes = {}
    /\ fresh => Rules(d) /\ Setup!Meaning(d) = Setup!Edited(Setup!Empty, edit)
    /\ ~ fresh => \A s : Means(conf, s) => Rules(d) /\ Setup!Meaning(d) = Setup!Edited(s, edit)

\* What the two commands do alike.
EditStep(nodes) ==
    /\ editor.at = "idle" /\ UNCHANGED <<conf, stored, daemon, wishes>>
    /\ settings' = IF Setup!Apart THEN settings ELSE {}
    /\ Setup!IsDesk(desk', nodes)

\* An edit that is begun may be lost or done: the invariant holds of both.
LEMMA EditBegins ==
    ASSUME NEW nodes, FilesInv(nodes), EditStep(nodes), NEW edit, NEW fresh, NEW d, Begins(edit, fresh, d),
           editor' = [at |-> "opens", edit |-> edit, fresh |-> fresh, config |-> d]
    PROVE  FilesInv(nodes)'
<1>1. /\ editor'.at = "opens" /\ editor'.edit = edit /\ editor'.fresh = fresh /\ editor'.config = d
      /\ editor' = [at |-> editor'.at, edit |-> editor'.edit, fresh |-> editor'.fresh,
                    config |-> editor'.config]
  OBVIOUS
<1>2. FilesAreTyped(nodes)'
  BY <1>1 DEF FilesInv, FilesAreTyped, EditorIs, EditStep, Begins
<1>3. /\ settings' \subseteq settings /\ (Migrates => settings' = {})
      /\ (Migrates' <=> Migrates)
  BY <1>1 DEF EditStep, Setup!Apart, Migrates
<1>4. \A s \in settings' : Means(conf, s) /\ ~ Migrates
  BY <1>3 DEF EditStep, FilesInv, SettingsInv, Migrates
<1>5. SettingsInv'
  <2>1. \A s \in Bases' : Rules(d) /\ Setup!Meaning(d) = Setup!Edited(s, edit)
    BY <1>1, <1>4 DEF Bases, Begins
  <2>2. Migrates => conf # Setup!Missing /\ ~ fresh
    BY DEF FilesInv, SettingsInv, Begins
  <2>. QED BY <1>1, <1>3, <1>4, <2>1, <2>2 DEF SettingsInv, EditStep, Begins
<1>6. WishesInv'
  <2>1. Accepts(conf) /\ NoOrdersIn(conf) => TakesUp(conf, stored) = Setup!Ordered(SpeedsIn(stored))
    BY TakesUpState
  <2>. QED BY <1>1, <2>1 DEF FilesInv, WishesInv, EditorHasNoOrders, EditStep, Begins
<1>. QED BY <1>2, <1>5, <1>6 DEF FilesInv

\* One that is refused leaves everything as it was.
LEMMA EditRefused ==
    ASSUME NEW nodes, FilesInv(nodes), EditStep(nodes), UNCHANGED editor
    PROVE  FilesInv(nodes)'
<1>1. settings' \subseteq settings
  BY DEF EditStep
<1>2. FilesAreTyped(nodes)'
  BY DEF FilesInv, FilesAreTyped, EditStep
<1>3. SettingsInv'
  BY <1>1 DEF FilesInv, SettingsInv, Migrates, Bases, EditStep
<1>4. WishesInv'
  BY DEF FilesInv, WishesInv, EditorHasNoOrders, EditStep
<1>. QED BY <1>2, <1>3, <1>4 DEF FilesInv

\* `nbfc config --set' reads any config, and changes its model.
LEMMA Config_SetKeeps ==
    ASSUME NEW nodes, FilesParsed(nodes), FilesInv(nodes), Setup!Config_Set PROVE FilesInv(nodes)'
<1>1. EditStep(nodes)
  BY EditsAre DEF Setup!Config_Set, Setup!Edits, FilesInv, FilesAreTyped, EditStep
<1>2. ASSUME ~ UNCHANGED editor PROVE FilesInv(nodes)'
  <2>1. PICK n : /\ Setup!ServiceConfig_Load(conf) # Setup!Failed
                 /\ editor' = [at |-> "opens", edit |-> [cmd |-> "config", name |-> n],
                               fresh |-> conf = Setup!Missing,
                               config |-> Setup!Completed([SelectedConfigId |-> n], Setup!The(Setup!ServiceConfig_Load(conf)))]
    BY <1>2 DEF Setup!Config_Set
  <2>. DEFINE v == Setup!The(Setup!ServiceConfig_Load(conf))
              d == Setup!Completed([SelectedConfigId |-> n], v)
              edit == [cmd |-> "config", name |-> n]
              fresh == conf = Setup!Missing
  <2>2. editor' = [at |-> "opens", edit |-> edit, fresh |-> fresh, config |-> d]
    BY <2>1, Zenon
  <2>3. \A s : Setup!Edited(s, edit) = [s EXCEPT !.id = n]
    BY DEF Setup!Edited
  <2>4. ASSUME conf = Setup!Missing PROVE Begins(edit, fresh, d)
    <3>1. v = <<>>
      BY <2>4, TheOne DEF Setup!ServiceConfig_Load
    <3>2. IsConfig(d) /\ ~ HasOrders(d) /\ Rules(d) /\ Setup!Meaning(d) = [Setup!Empty EXCEPT !.id = n]
      BY <3>1, SelectedFirst
    <3>3. wishes = {} /\ NoOrdersIn(conf)
      BY <2>4, UnreadableIs DEF FilesInv, WishesInv
    <3>4. fresh = TRUE
      BY <2>4
    <3>. HIDE DEF v, d, edit
    <3>. QED BY <2>3, <2>4, <3>2, <3>3, <3>4 DEF Begins
  <2>5. ASSUME conf # Setup!Missing PROVE Begins(edit, fresh, d)
    <3>1. v \in Setup!ServiceConfig_FromJson(conf)
      BY <2>1, <2>5, TheIn DEF Setup!ServiceConfig_Load, Setup!Failed
    <3>. HIDE DEF v
    <3>2. /\ IsConfig(v) /\ (Accepts(conf) <=> Rules(v)) /\ (NoOrdersIn(conf) \/ HasOrders(v))
          /\ \A c \in Setup!ServiceConfig_FromFile(conf) : Setup!Meaning(c) = Setup!Meaning(v)
      BY <3>1, LoadedIs DEF FilesInv, FilesAreTyped, Accepts
    <3>3. /\ IsConfig(d) /\ (HasOrders(d) <=> HasOrders(v))
          /\ Rules(v) => Rules(d) /\ Setup!Meaning(d) = [Setup!Meaning(v) EXCEPT !.id = n]
      BY <3>2, Selected
    <3>. HIDE DEF d, edit
    <3>4. Accepts(conf) \/ wishes = {}
      BY <3>1, UnreadableIs DEF FilesInv, WishesInv
    <3>5. ASSUME NEW s, Means(conf, s) PROVE Rules(d) /\ Setup!Meaning(d) = Setup!Edited(s, edit)
      <4>1. Rules(v) /\ s = Setup!Meaning(v)
        BY <3>2, <3>5 DEF Means, Accepts
      <4>. QED BY <2>3, <3>3, <4>1
    <3>6. fresh = FALSE
      BY <2>5
    <3>. QED BY <2>5, <3>2, <3>3, <3>4, <3>5, <3>6 DEF Begins
  <2>6. Begins(edit, fresh, d)
    BY <2>4, <2>5
  <2>. HIDE DEF d, fresh, edit
  <2>. QED BY <1>1, <2>2, <2>6, EditBegins
<1>. QED BY <1>1, <1>2, EditRefused

\* The entry that `nbfc sensors set' makes says what the user wants of the fan.
LEMMA SourceOfEdit ==
    ASSUME NEW edit, Setup!IsEdit(edit), edit.cmd = "sensors", NEW s, s = Setup!SourceOf(edit)
    PROVE  /\ IsSource(s) /\ Setup!Has(s, {"FanIndex"}) /\ s.FanIndex = edit.fan
           /\ Setup!SettingOf(s) = Setup!Setting(edit.fan, edit.sensors, edit.algorithm)
<1>. DEFINE entry == [FanIndex |-> edit.fan, Sensors |-> edit.sensors,
                      TemperatureAlgorithmType |-> edit.algorithm]
            given == {"FanIndex"} \cup (IF edit.sensors = <<>> THEN {} ELSE {"Sensors"})
                     \cup (IF edit.algorithm = "" THEN {} ELSE {"TemperatureAlgorithmType"})
<1>1. s = [key \in given |-> entry[key]]
  BY Zenon DEF Setup!SourceOf
<1>2. /\ entry["FanIndex"] = edit.fan /\ entry["Sensors"] = edit.sensors
      /\ entry["TemperatureAlgorithmType"] = edit.algorithm
  OBVIOUS
<1>3. /\ "FanIndex" \in given
      /\ "Sensors" \in given <=> edit.sensors # <<>>
      /\ "TemperatureAlgorithmType" \in given <=> edit.algorithm # ""
      /\ given \subseteq {"FanIndex", "Sensors", "TemperatureAlgorithmType"}
  OBVIOUS
<1>. HIDE DEF entry, given
<1>4. /\ DOMAIN s = given /\ IsFunction(s) /\ s.FanIndex = edit.fan
      /\ "Sensors" \in given => s.Sensors = edit.sensors
      /\ "TemperatureAlgorithmType" \in given => s.TemperatureAlgorithmType = edit.algorithm
  BY <1>1, <1>2, <1>3 DEF IsFunction
<1>5. /\ edit.fan \in Setup!Limits("uint8") /\ Setup!IsList(edit.sensors)
      /\ edit.algorithm \in {""} \cup Setup!Names("TemperatureAlgorithmType")
  BY DEF Setup!IsEdit
<1>6. IsSource(s)
  BY <1>3, <1>4, <1>5 DEF IsSource, Setup!Has, Setup!SourceFields
<1>7. Setup!Given(s, "Sensors", <<>>) = edit.sensors
  BY <1>3, <1>4 DEF Setup!Given, Setup!Has
<1>8. Setup!Given(s, "TemperatureAlgorithmType", "") = edit.algorithm
  BY <1>3, <1>4 DEF Setup!Given, Setup!Has
<1>. QED BY <1>3, <1>4, <1>6, <1>7, <1>8 DEF Setup!SettingOf, Setup!Has

\* It has the place of the one entry of that fan, or the next one.
LEMMA PlaceIs ==
    ASSUME NEW entries, Setup!IsList(entries), NEW fan, NEW place,
           place = Setup!Sensors_GetFTSCByFanIndex(entries, fan)
    PROVE  /\ \E n \in Nat : (DOMAIN entries) \cup {place} = 1..n
           /\ \/ place \in DOMAIN entries /\ entries[place].FanIndex = fan
              \/ place \notin DOMAIN entries /\ \A i \in DOMAIN entries : entries[i].FanIndex # fan
<1>. DEFINE of == {i \in DOMAIN entries : entries[i].FanIndex = fan}
<1>1. Len(entries) \in Nat /\ DOMAIN entries = 1..Len(entries)
  BY ListIsFunction
<1>2. place = IF of = {} THEN Len(entries) + 1 ELSE Setup!Min(of)
  BY Zenon DEF Setup!Sensors_GetFTSCByFanIndex
<1>3. CASE of = {}
  <2>1. place = Len(entries) + 1 /\ (DOMAIN entries) \cup {place} = 1..(Len(entries) + 1)
    BY <1>1, <1>2, <1>3
  <2>2. place \notin DOMAIN entries /\ \A i \in DOMAIN entries : entries[i].FanIndex # fan
    BY <1>1, <1>3, <2>1
  <2>. QED BY <1>1, <2>1, <2>2
<1>4. CASE of # {}
  <2>1. Setup!Min(of) \in of
    <3>1. of \subseteq Nat
      BY <1>1
    <3>. HIDE DEF of
    <3>. QED BY <1>4, <3>1, LeastElement DEF Setup!Min
  <2>2. place \in DOMAIN entries /\ entries[place].FanIndex = fan
    BY <1>2, <1>4, <2>1
  <2>. QED BY <1>1, <2>2
<1>. QED BY <1>3, <1>4

\* Entries one of which is given anew.
Replaces(made, entries, place, s) ==
    made = [i \in (DOMAIN entries) \cup {place} |-> IF i = place THEN s ELSE entries[i]]

\* What the entries say, and what they shall say.
SaidBy(entries) == {Setup!SettingOf(entries[i]) : i \in DOMAIN entries}
Resays(made, entries, fan, s) ==
    Setup!Says(SaidBy(made)) = Setup!Says({e \in Setup!Says(SaidBy(entries)) : e.fan # fan} \cup {Setup!SettingOf(s)})

\* What the new entries say is the old, but for that fan.
LEMMA Resaid ==
    ASSUME NEW entries, NEW place, NEW s, NEW made, Replaces(made, entries, place, s),
           NEW fan, Setup!SettingOf(s).fan = fan,
           \A i \in DOMAIN entries : (Setup!SettingOf(entries[i]).fan = fan <=> i = place)
    PROVE  Resays(made, entries, fan, s)
<1>. DEFINE news == SaidBy(made)
            olds == SaidBy(entries)
            remaining == {e \in Setup!Says(olds) : e.fan # fan} \cup {Setup!SettingOf(s)}
<1>1. /\ DOMAIN made = (DOMAIN entries) \cup {place} /\ made[place] = s
      /\ \A i \in DOMAIN entries : i # place => made[i] = entries[i]
  BY DEF Replaces
<1>2. ASSUME NEW e PROVE e \in news <=> e = Setup!SettingOf(s) \/ (e \in olds /\ e.fan # fan)
  <2>1. ASSUME e \in news PROVE e = Setup!SettingOf(s) \/ (e \in olds /\ e.fan # fan)
    <3>1. PICK i \in DOMAIN made : e = Setup!SettingOf(made[i])
      BY <2>1 DEF SaidBy
    <3>. QED BY <1>1, <3>1 DEF SaidBy
  <2>2. ASSUME e = Setup!SettingOf(s) PROVE e \in news
    BY <1>1, <2>2 DEF SaidBy
  <2>3. ASSUME e \in olds, e.fan # fan PROVE e \in news
    <3>1. PICK i \in DOMAIN entries : e = Setup!SettingOf(entries[i])
      BY <2>3 DEF SaidBy
    <3>2. i # place
      BY <2>3, <3>1
    <3>3. i \in DOMAIN made /\ e = Setup!SettingOf(made[i])
      BY <1>1, <3>1, <3>2
    <3>. QED BY <3>3 DEF SaidBy
  <2>. QED BY <2>1, <2>2, <2>3
<1>. HIDE DEF news, olds
<1>3. ASSUME NEW e PROVE e \in Setup!Says(news) <=> e \in Setup!Says(remaining)
  BY <1>2 DEF Setup!Says
<1>4. Setup!Says(news) = Setup!Says(remaining)
  BY <1>3
<1>. QED BY <1>4, Zenon DEF Resays, news, olds

\* Such an edit of a config means that edit of its settings.
LEMMA Sensed ==
    ASSUME NEW c, IsConfig(c), Rules(c), NEW edit, Setup!IsEdit(edit), edit.cmd = "sensors",
           NEW place, place = Setup!Sensors_GetFTSCByFanIndex(Setup!Sources(c), edit.fan),
           NEW entries, Replaces(entries, Setup!Sources(c), place, Setup!SourceOf(edit)),
           NEW d, d = Setup!Completed([FanTemperatureSources |-> entries], c)
    PROVE  /\ IsConfig(d) /\ Rules(d) /\ (HasOrders(d) <=> HasOrders(c))
           /\ Setup!Meaning(d) = Setup!Edited(Setup!Meaning(c), edit)
<1>. DEFINE a == [FanTemperatureSources |-> entries]
            s == Setup!SourceOf(edit)
            old == Setup!Sources(c)
<1>1. DOMAIN a = {"FanTemperatureSources"} /\ a.FanTemperatureSources = entries
  OBVIOUS
<1>2. Completes(d, a, c)
  BY CompletedIs
<1>3. /\ IsSource(s) /\ Setup!Has(s, {"FanIndex"}) /\ s.FanIndex = edit.fan
      /\ Setup!SettingOf(s) = Setup!Setting(edit.fan, edit.sensors, edit.algorithm)
  BY SourceOfEdit
<1>4. Setup!IsList(old) /\ (\A i \in DOMAIN old : IsSource(old[i]))
  BY SourcesAreSources
<1>5. PICK n \in Nat : (DOMAIN old) \cup {place} = 1..n
  BY <1>4, PlaceIs
<1>6. \/ place \in DOMAIN old /\ old[place].FanIndex = edit.fan
      \/ place \notin DOMAIN old /\ \A i \in DOMAIN old : old[i].FanIndex # edit.fan
  BY <1>4, PlaceIs
<1>. HIDE DEF a, s, old
<1>7. /\ DOMAIN d = {"FanTemperatureSources"} \cup DOMAIN c /\ IsFunction(d) /\ d.FanTemperatureSources = entries
      /\ \A k \in DOMAIN c : k # "FanTemperatureSources" => d[k] = c[k]
  BY <1>1, <1>2 DEF Completes
<1>8. /\ DOMAIN entries = (DOMAIN old) \cup {place} /\ entries[place] = s
      /\ \A i \in DOMAIN old : i # place => entries[i] = old[i]
      /\ entries = [i \in 1..n |-> entries[i]]
  BY <1>5 DEF Replaces, s, old
<1>9. Setup!IsList(entries) /\ \A i \in DOMAIN entries : IsSource(entries[i])
  <2>1. Setup!IsList(entries)
    BY <1>8, FunctionIsList, Zenon
  <2>. QED BY <1>3, <1>4, <1>8, <2>1
<1>10. /\ Setup!Sources(d) = entries
       /\ Setup!Given(d, "EmbeddedControllerType", "") = Setup!Given(c, "EmbeddedControllerType", "")
  BY <1>7 DEF Setup!Sources, Setup!Given, Setup!Has
<1>11. \A i \in DOMAIN old : Setup!Has(old[i], {"FanIndex"}) /\ (old[i].FanIndex = edit.fan <=> i = place)
  BY <1>6 DEF Rules, old
<1>12. Rules(d)
  <2>1. Setup!Has(d, {"SelectedConfigId"})
    BY <1>7 DEF Rules, Setup!Has
  <2>2. \A i \in DOMAIN entries : Setup!Has(entries[i], {"FanIndex"})
    BY <1>3, <1>8, <1>11
  <2>3. ASSUME NEW i \in DOMAIN entries, NEW j \in DOMAIN entries, entries[i].FanIndex = entries[j].FanIndex
        PROVE  i = j
    <3>1. \A k, l \in DOMAIN old : old[k].FanIndex = old[l].FanIndex => k = l
      BY DEF Rules, old
    <3>2. \A k \in DOMAIN entries : k # place => k \in DOMAIN old /\ entries[k].FanIndex = old[k].FanIndex
      BY <1>8
    <3>3. \A k \in DOMAIN entries : entries[k].FanIndex = edit.fan <=> k = place
      BY <1>3, <1>8, <1>11, <3>2
    <3>. QED BY <2>3, <3>1, <3>2, <3>3
  <2>. QED BY <1>10, <2>1, <2>2, <2>3 DEF Rules
<1>13. IsConfig(d)
  <2>1. "FanTemperatureSources" \in DOMAIN Setup!ServiceFields
    BY DEF Setup!ServiceFields
  <2>. QED BY <1>7, <1>9, <2>1 DEF IsConfig, Setup!Has
<1>14. HasOrders(d) <=> HasOrders(c)
  BY <1>7 DEF HasOrders, Setup!Has
<1>15. d.SelectedConfigId = c.SelectedConfigId
  BY <1>7 DEF Rules, Setup!Has
<1>16. Setup!Meaning(d) = Setup!Edited(Setup!Meaning(c), edit)
  <2>. DEFINE ec == Setup!Given(c, "EmbeddedControllerType", "")
              setting == Setup!Setting(edit.fan, edit.sensors, edit.algorithm)
              remaining == Setup!Says({e \in Setup!Says(SaidBy(old)) : e.fan # edit.fan} \cup {setting})
              id == c.SelectedConfigId
              oldSaid == Setup!Says(SaidBy(old))
  <2>1. Setup!Meaning(d) = [id |-> d.SelectedConfigId, ec |-> Setup!Given(d, "EmbeddedControllerType", ""),
                      entries |-> Setup!Says(SaidBy(Setup!Sources(d)))]
    BY Zenon DEF Setup!Meaning, SaidBy
  <2>2. Setup!Meaning(c) = [id |-> id, ec |-> ec, entries |-> oldSaid]
    BY Zenon DEF Setup!Meaning, SaidBy, old
  <2>3. Setup!Says(SaidBy(entries)) = remaining
    <3>1. \A x : Setup!SettingOf(x).fan = x.FanIndex
      BY DEF Setup!SettingOf, Setup!Setting
    <3>2. Setup!SettingOf(s).fan = edit.fan /\ \A i \in DOMAIN old : (Setup!SettingOf(old[i]).fan = edit.fan <=> i = place)
      BY <1>3, <1>11, <3>1
    <3>3. Replaces(entries, old, place, s)
      BY DEF old, s
    <3>4. Resays(entries, old, edit.fan, s)
      BY <3>2, <3>3, Resaid
    <3>. QED BY <1>3, <3>4, Zenon DEF Resays
  <2>4. Setup!Edited(Setup!Meaning(c), edit) =
            [Setup!Meaning(c) EXCEPT !.entries = Setup!Says({e \in @ : e.fan # edit.fan} \cup {setting})]
    <3>1. "sensors" # "config"
      OBVIOUS
    <3>. QED BY <3>1, Zenon DEF Setup!Edited
  <2>5. Setup!Meaning(d) = [id |-> id, ec |-> ec, entries |-> remaining]
    <3>. HIDE DEF remaining
    <3>. QED BY <1>10, <1>15, <2>1, <2>3, Zenon
  <2>6. Setup!Edited(Setup!Meaning(c), edit) = [id |-> id, ec |-> ec, entries |-> remaining]
    <3>. HIDE DEF id, ec, oldSaid, setting
    <3>1. Setup!Edited(Setup!Meaning(c), edit) =
              [id |-> id, ec |-> ec, entries |-> Setup!Says({e \in oldSaid : e.fan # edit.fan} \cup {setting})]
      BY <2>2, <2>4
    <3>. QED BY <3>1, Zenon DEF oldSaid
  <2>. QED BY <2>5, <2>6, Zenon
<1>. QED BY <1>12, <1>13, <1>14, <1>16

\* `nbfc sensors set' reads a config the service can read, and changes one entry.
LEMMA Sensors_SetKeeps ==
    ASSUME NEW nodes, FilesParsed(nodes), FilesInv(nodes), Setup!Sensors_Set PROVE FilesInv(nodes)'
<1>. DEFINE edit == Head(desk.edits)
            c == Setup!The(Setup!ServiceConfig_FromFile(conf))
            place == Setup!Sensors_GetFTSCByFanIndex(Setup!Sources(c), edit.fan)
            entries == [i \in (DOMAIN Setup!Sources(c)) \cup {place} |->
                          IF i = place THEN Setup!SourceOf(edit) ELSE Setup!Sources(c)[i]]
            d == Setup!Completed([FanTemperatureSources |-> entries], c)
<1>1. EditStep(nodes) /\ Setup!IsEdit(edit) /\ edit.cmd = "sensors"
  BY EditsAre DEF Setup!Sensors_Set, Setup!Edits, FilesInv, FilesAreTyped, EditStep
<1>2. editor' = IF Setup!CanEdit(edit) THEN [at |-> "opens", edit |-> edit, fresh |-> FALSE, config |-> d]
                ELSE editor
  BY Zenon DEF Setup!Sensors_Set
<1>3. CASE ~ Setup!CanEdit(edit)
  BY <1>1, <1>2, <1>3, EditRefused
<1>4. ASSUME Setup!CanEdit(edit) PROVE FilesInv(nodes)'
  <2>1. PICK c0 : c0 \in Setup!ServiceConfig_FromFile(conf)
    BY <1>4 DEF Setup!CanEdit
  <2>2. /\ Setup!ServiceConfig_FromFile(conf) = {c} /\ IsConfig(c) /\ Rules(c)
    BY <2>1, AcceptedIs DEF FilesParsed, FilesInv, FilesAreTyped
  <2>3. Replaces(entries, Setup!Sources(c), place, Setup!SourceOf(edit))
    BY Zenon DEF Replaces
  <2>. HIDE DEF c, entries, place, edit
  <2>4. /\ IsConfig(d) /\ Rules(d) /\ (HasOrders(d) <=> HasOrders(c))
        /\ Setup!Meaning(d) = Setup!Edited(Setup!Meaning(c), edit)
    BY <1>1, <2>2, <2>3, Sensed DEF place
  <2>. HIDE DEF d
  <2>5. Begins(edit, FALSE, d)
    BY <2>2, <2>4 DEF Begins, NoOrdersIn, Accepts, Means
  <2>6. editor' = [at |-> "opens", edit |-> edit, fresh |-> FALSE, config |-> d]
    BY <1>2, <1>4, Zenon
  <2>. QED BY <1>1, <2>5, <2>6, EditBegins
<1>. QED BY <1>3, <1>4

\* Every step of the client and the service keeps the invariant,
LEMMA NextKeeps ==
    ASSUME NEW nodes, FilesParsed(nodes), FilesInv(nodes), Setup!Next PROVE FilesInv(nodes)'
<1>1. CASE Setup!Config_Set \/ Setup!Sensors_Set
  BY <1>1, Config_SetKeeps, Sensors_SetKeeps
<1>2. CASE Setup!ClientOpens \/ Setup!ClientWrites \/ Setup!ClientFails
  BY <1>2, ClientOpensKeeps, ClientWritesKeeps, ClientFailsKeeps
<1>3. CASE Setup!Service_Init \/ Setup!MigrationOpens \/ Setup!MigrationWrites \/ Setup!MigrationFails
  BY <1>3, Service_InitKeeps, MigrationOpensKeeps, MigrationWritesKeeps, MigrationFailsKeeps
<1>4. CASE Setup!ServiceStarts \/ Setup!ServiceStartFails \/ Setup!SetFanSpeed \/ Setup!Quit
  BY <1>4, ServiceStartsKeeps, StartFailsOrQuitKeeps, SetFanSpeedKeeps
<1>5. CASE Setup!StateOpens \/ Setup!StateWrites \/ Setup!ServiceDies
  BY <1>5, StateOpensKeeps, StateWritesKeeps, ServiceDiesKeeps
<1>. QED BY <1>1, <1>2, <1>3, <1>4, <1>5 DEF Setup!Next

\* and the invariant says that the settings and the orders are kept.
LEMMA InvIsEnough == ASSUME NEW nodes, FilesInv(nodes) PROVE Setup!SettingsAreKept
BY OnDiskIs DEF FilesInv, SettingsInv, WishesInv, Means, Accepts, Setup!SettingsAreKept, Setup!Startable, Setup!Failed

\* Every step of Tools that is not one of theirs leaves the files alone.
LEMMA OthersKeepFiles == ASSUME ToolsNext, ~ SettingUp PROVE UNCHANGED setupVars
<1>1. CASE (Run \/ Signal \/ Firmware \/ Start) /\ Aside
  BY <1>1 DEF Aside
<1>2. CASE (Testing \/ Test!Program \/ Test!Child \/ Test!Faults) /\ Beside
  BY <1>2 DEF Beside
<1>3. CASE Rating
  BY <1>3 DEF Rating
<1>. QED BY <1>1, <1>2, <1>3 DEF ToolsNext

\* The invariant is about nothing but the files and those who work on them.
LEMMA AsideKeepsFiles == ASSUME NEW nodes, FilesInv(nodes), UNCHANGED setupVars PROVE FilesInv(nodes)'
<1>1. UNCHANGED <<desk, conf, stored, editor, daemon, settings, wishes>>
  BY DEF setupVars
<1>2. FilesAreTyped(nodes)'
  BY <1>1 DEF FilesInv, FilesAreTyped
<1>3. SettingsInv'
  BY <1>1 DEF FilesInv, SettingsInv, Migrates, Bases
<1>4. WishesInv'
  BY <1>1 DEF FilesInv, WishesInv, EditorHasNoOrders
<1>. QED BY <1>2, <1>3, <1>4 DEF FilesInv

\* Whatever is in the files, whatever the user edits and orders, and whatever order the
\* client, the service and its successors come in: what he has set up and ordered is
\* kept in nbfc.json and state.json, as SettingsAreKept says.
THEOREM SettingsKept ==
    ASSUME NEW nodes, DesksAreParsed(nodes) PROVE ToolsSpec => []SettingsAreKept
<1>1. FilesParsed(nodes)
  BY ToolsAssumption DEF DesksAreParsed, FilesParsed
<1>2. ASSUME ToolsInit PROVE FilesInv(nodes)
  <2>1. PICK user \in Users : desk \in user[4]
    BY <1>2 DEF ToolsInit
  <2>2. Setup!IsDesk(desk, nodes) /\ {desk.conf, desk.stored} \subseteq nodes
    BY <2>1 DEF DesksAreParsed
  <2>3. Setup!Fresh
    BY <1>2 DEF ToolsInit
  <2>. QED BY <1>1, <2>2, <2>3, InitFilesInv
<1>3. ASSUME FilesInv(nodes), [ToolsNext]_allVars PROVE FilesInv(nodes)'
  <2>1. CASE SettingUp
    <3>1. Setup!Next
      BY <2>1 DEF SettingUp
    <3>. QED BY <1>1, <1>3, <3>1, NextKeeps
  <2>2. CASE ToolsNext /\ ~ SettingUp
    BY <1>3, <2>2, OthersKeepFiles, AsideKeepsFiles
  <2>3. CASE UNCHANGED allVars
    <3>1. UNCHANGED setupVars
      BY <2>3 DEF allVars
    <3>. QED BY <1>3, <3>1, AsideKeepsFiles
  <2>. QED BY <1>3, <2>1, <2>2, <2>3
<1>4. ASSUME FilesInv(nodes) PROVE SettingsAreKept
  BY <1>4, InvIsEnough DEF SettingsAreKept
<1>. QED BY <1>2, <1>3, <1>4, PTL DEF ToolsSpec

--------------------------------------------------------------------------------
(* Between percentages and values *)

\* Greater factors make greater products.
LEMMA Product == ASSUME NEW a \in Nat, NEW b \in Nat, NEW c \in Nat, a <= b PROVE c * a \in Nat /\ c * b \in Nat /\ c * a <= c * b
OBVIOUS

\* The nearest whole number to a quotient is at most a half from it,
LEMMA NearestIs ==
    ASSUME NEW n \in Nat, NEW d \in Nat \ {0}
    PROVE  /\ Test!Nearest(n, d) \in Nat
           /\ 2 * (d * Test!Nearest(n, d)) <= 2 * n + d /\ 2 * n + d < 2 * (d * Test!Nearest(n, d)) + 2 * d
<1>. DEFINE q == (2 * n + d) \div (2 * d)
            r == (2 * n + d) % (2 * d)
<1>1. ASSUME NEW v \in Nat, NEW b \in Nat \ {0}
      PROVE  v \div b \in Nat /\ v % b \in 0..(b - 1) /\ v = (v \div b) * b + (v % b)
  OBVIOUS
<1>2. 2 * n + d \in Nat /\ 2 * d \in Nat \ {0}
  OBVIOUS
<1>3. q \in Nat /\ r \in 0..(2 * d - 1) /\ 2 * n + d = q * (2 * d) + r
  <2>. HIDE DEF q, r
  <2>. QED BY <1>1, <1>2 DEF q, r
<1>. HIDE DEF q, r
<1>4. q * (2 * d) = 2 * (d * q)
  BY <1>3
<1>5. 2 * (d * q) <= 2 * n + d /\ 2 * n + d < 2 * (d * q) + 2 * d
  <2>. DEFINE x == d * q
  <2>1. x \in Int
    BY <1>3
  <2>. HIDE DEF x
  <2>. QED BY <1>3, <1>4, <2>1 DEF x
<1>. QED BY <1>3, <1>5 DEF Test!Nearest, q

\* grows with what is divided,
LEMMA NearestMonotone ==
    ASSUME NEW n \in Nat, NEW m \in Nat, NEW d \in Nat \ {0}, n <= m
    PROVE  Test!Nearest(n, d) <= Test!Nearest(m, d)
<1>. DEFINE a == Test!Nearest(n, d)
            b == Test!Nearest(m, d)
<1>1. /\ a \in Nat /\ b \in Nat
      /\ 2 * (d * a) <= 2 * n + d /\ 2 * m + d < 2 * (d * b) + 2 * d
  BY NearestIs
<1>. HIDE DEF a, b
<1>2. SUFFICES ASSUME b + 1 <= a PROVE FALSE
  BY <1>1 DEF a, b
<1>3. d * (b + 1) <= d * a /\ d * (b + 1) = d * b + d /\ d * a \in Nat /\ d * b \in Nat
  BY <1>1, <1>2
<1>. QED BY <1>1, <1>3

\* and is the quotient where that is whole.
LEMMA NearestExact == ASSUME NEW m \in Nat, NEW d \in Nat \ {0} PROVE Test!Nearest(m * d, d) = m
<1>. DEFINE q == Test!Nearest(m * d, d)
<1>1. m * d \in Nat /\ m * d = d * m
  OBVIOUS
<1>2. q \in Nat /\ 2 * (d * q) <= 2 * (m * d) + d /\ 2 * (m * d) + d < 2 * (d * q) + 2 * d
  BY <1>1, NearestIs
<1>. HIDE DEF q
<1>3. CASE q > m
  <2>1. d * (m + 1) <= d * q /\ d * (m + 1) = d * m + d
    BY <1>2, <1>3
  <2>. QED BY <1>1, <1>2, <2>1
<1>4. CASE q < m
  <2>1. d * (q + 1) <= d * m /\ d * (q + 1) = d * q + d
    BY <1>2, <1>4
  <2>. QED BY <1>1, <1>2, <2>1
<1>. QED BY <1>2, <1>3, <1>4 DEF q

\* Of numbers that are not negative Rounded is the nearest,
LEMMA RoundedIsNearest ==
    ASSUME NEW n \in Nat, NEW d \in Nat \ {0} PROVE Test!Rounded(n, d) = Test!Nearest(n, d)
<1>1. Test!Magnitude(n) = n /\ Test!Magnitude(d) = d
  BY DEF Test!Magnitude, Test!Greater
<1>2. n >= 0 <=> d > 0
  OBVIOUS
<1>. QED BY <1>1, <1>2 DEF Test!Rounded

\* and of two of the same sign that of their magnitudes.
LEMMA RoundedOfMagnitudes ==
    ASSUME NEW n \in Int, NEW d \in Int \ {0}, n # 0 => (n > 0 <=> d > 0)
    PROVE  Test!Rounded(n, d) = Test!Nearest(Test!Magnitude(n), Test!Magnitude(d))
<1>1. CASE n >= 0 <=> d > 0
  BY <1>1 DEF Test!Rounded
<1>2. CASE ~ (n >= 0 <=> d > 0)
  <2>1. n = 0 /\ d < 0
    BY <1>2
  <2>2. Test!Magnitude(n) = 0 /\ Test!Magnitude(d) \in Nat \ {0}
    BY <2>1 DEF Test!Magnitude, Test!Greater
  <2>3. Test!Nearest(0, Test!Magnitude(d)) = 0
    <3>1. 0 * Test!Magnitude(d) = 0
      BY <2>2
    <3>. QED BY <2>2, <3>1, NearestExact
  <2>. QED BY <1>2, <2>2, <2>3 DEF Test!Rounded
<1>. QED BY <1>1, <1>2

\* What a fan with the limits m and w is written for p of full parts.
Exact(m, w, p, full) == m * full + (w - m) * p
Written(m, w, p, full) == Test!Rounded(Exact(m, w, p, full), full)

\* It is the nearest to a number between the limits, and grows towards the second one.
LEMMA WrittenNear ==
    ASSUME NEW m \in Nat, NEW w \in Nat, NEW full \in Nat \ {0}, NEW p \in 0..full
    PROVE  /\ Exact(m, w, p, full) \in Nat /\ Written(m, w, p, full) = Test!Nearest(Exact(m, w, p, full), full)
           /\ m <= w => m * full <= Exact(m, w, p, full) /\ Exact(m, w, p, full) <= w * full
           /\ w <= m => w * full <= Exact(m, w, p, full) /\ Exact(m, w, p, full) <= m * full
<1>. DEFINE n == Exact(m, w, p, full)
<1>3. n = m * full + (w - m) * p
  BY DEF Exact
<1>4. n \in Nat => Written(m, w, p, full) = Test!Nearest(n, full)
  <2>. HIDE DEF n
  <2>. QED BY RoundedIsNearest DEF Written, n
<1>. HIDE DEF n
<1>1. CASE m <= w
  <2>1. w - m \in Nat /\ (w - m) * full = w * full - m * full
    BY <1>1
  <2>2. 0 <= (w - m) * p /\ (w - m) * p <= (w - m) * full /\ (w - m) * p \in Nat
    BY <2>1, Product
  <2>3. m * full \in Nat /\ w * full \in Nat
    OBVIOUS
  <2>4. n \in Nat
    BY <1>3, <2>2, <2>3
  <2>6. w <= m => w = m /\ (w - m) * p = 0
    BY <1>1
  <2>. QED BY <1>1, <1>3, <1>4, <2>1, <2>2, <2>3, <2>4, <2>6 DEF n
<1>2. CASE w < m
  <2>1. m - w \in Nat /\ (m - w) * full = m * full - w * full /\ (w - m) * p = -((m - w) * p)
    BY <1>2
  <2>2. 0 <= (m - w) * p /\ (m - w) * p <= (m - w) * full /\ (m - w) * p \in Nat
    BY <2>1, Product
  <2>3. m * full \in Nat /\ w * full \in Nat
    OBVIOUS
  <2>4. n \in Nat
    BY <1>3, <2>1, <2>2, <2>3
  <2>. QED BY <1>2, <1>3, <1>4, <2>1, <2>2, <2>3, <2>4 DEF n
<1>. QED BY <1>1, <1>2

\* What is written lies between the limits,
LEMMA WrittenWithin ==
    ASSUME NEW m \in Nat, NEW w \in Nat, NEW full \in Nat \ {0}, NEW p \in 0..full
    PROVE  /\ Written(m, w, p, full) \in Nat
           /\ m <= w => m <= Written(m, w, p, full) /\ Written(m, w, p, full) <= w
           /\ w <= m => w <= Written(m, w, p, full) /\ Written(m, w, p, full) <= m
<1>. DEFINE n == Exact(m, w, p, full)
<1>1. /\ n \in Nat /\ Written(m, w, p, full) = Test!Nearest(n, full)
      /\ m <= w => m * full <= n /\ n <= w * full
      /\ w <= m => w * full <= n /\ n <= m * full
  BY WrittenNear
<1>. HIDE DEF n
<1>2. m * full \in Nat /\ w * full \in Nat
  OBVIOUS
<1>3. Test!Nearest(m * full, full) = m /\ Test!Nearest(w * full, full) = w /\ Test!Nearest(n, full) \in Nat
  BY <1>1, NearestExact, NearestIs
<1>4. ASSUME NEW a \in Nat, NEW b \in Nat, a <= b PROVE Test!Nearest(a, full) <= Test!Nearest(b, full)
  BY <1>4, NearestMonotone
<1>. QED BY <1>1, <1>2, <1>3, <1>4

\* has the order of the percentages or the reverse one,
LEMMA WrittenInOrder ==
    ASSUME NEW m \in Nat, NEW w \in Nat, NEW full \in Nat \ {0}, NEW p \in 0..full, NEW q \in 0..full, p <= q
    PROVE  /\ m <= w => Written(m, w, p, full) <= Written(m, w, q, full)
           /\ w <= m => Written(m, w, q, full) <= Written(m, w, p, full)
<1>. DEFINE a == Exact(m, w, p, full)
            b == Exact(m, w, q, full)
<1>1. /\ a \in Nat /\ Written(m, w, p, full) = Test!Nearest(a, full)
      /\ b \in Nat /\ Written(m, w, q, full) = Test!Nearest(b, full)
  BY WrittenNear
<1>4. a = m * full + (w - m) * p /\ b = m * full + (w - m) * q
  BY DEF Exact
<1>. HIDE DEF a, b
<1>2. m <= w => a <= b
  <2>1. m <= w => (w - m) * p <= (w - m) * q /\ (w - m) * p \in Nat /\ (w - m) * q \in Nat
    BY Product
  <2>2. m * full \in Nat
    OBVIOUS
  <2>. QED BY <1>4, <2>1, <2>2
<1>3. w <= m => b <= a
  <2>1. w <= m => (m - w) * p <= (m - w) * q /\ (m - w) * p \in Nat /\ (m - w) * q \in Nat
    BY Product
  <2>2. m * full \in Nat /\ (w - m) * p = -((m - w) * p) /\ (w - m) * q = -((m - w) * q)
    OBVIOUS
  <2>. QED BY <1>4, <2>1, <2>2
<1>. QED BY <1>1, <1>2, <1>3, NearestMonotone

\* is the limits for the least and the most of them,
LEMMA WrittenAtLimits ==
    ASSUME NEW m \in Nat, NEW w \in Nat, NEW full \in Nat \ {0}
    PROVE  Written(m, w, 0, full) = m /\ Written(m, w, full, full) = w
<1>1. Exact(m, w, 0, full) = m * full /\ Exact(m, w, full, full) = w * full
  BY DEF Exact
<1>2. 0 \in 0..full /\ full \in 0..full
  OBVIOUS
<1>. QED BY <1>1, <1>2, WrittenNear, NearestExact

\* and is read as what it was written for, to half a step and half a part.
LEMMA WrittenIsReadBack ==
    ASSUME NEW m \in Nat, NEW w \in Nat, m # w, NEW full \in Nat \ {0}, NEW p \in 0..full
    PROVE  LET off == Test!Rounded((Written(m, w, p, full) - m) * full, w - m) - p
           IN off \in Int /\ 2 * (Test!Magnitude(w - m) * Test!Magnitude(off)) <= full + Test!Magnitude(w - m)
<1>. DEFINE v == Written(m, w, p, full)
            s == Test!Magnitude(w - m)
            c == Test!Magnitude(v - m)
            r == Test!Nearest(c * full, s)
            n == Exact(m, w, p, full)
<1>1. v \in Nat /\ (m <= w => m <= v) /\ (w <= m => v <= m)
  BY WrittenWithin
<1>2. 2 * (full * v) <= 2 * n + full /\ 2 * n + full < 2 * (full * v) + 2 * full /\ n \in Int
  <2>1. n \in Nat /\ v = Test!Nearest(n, full)
    BY WrittenNear
  <2>. HIDE DEF n, v
  <2>. QED BY <2>1, NearestIs
<1>9. n = m * full + (w - m) * p
  BY DEF Exact
<1>. HIDE DEF v, n
<1>3. s \in Nat \ {0} /\ c \in Nat /\ s = (IF m <= w THEN w - m ELSE m - w) /\ c = (IF m <= w THEN v - m ELSE m - v)
  BY <1>1 DEF Test!Magnitude, Test!Greater
<1>4. Test!Rounded((v - m) * full, w - m) = r
  <2>1. (v - m) * full \in Int /\ (v - m > 0 => (v - m) * full > 0) /\ (v - m < 0 => (v - m) * full < 0)
        /\ (v = m => (v - m) * full = 0)
    BY <1>1
  <2>2. (v - m) * full # 0 => ((v - m) * full > 0 <=> w - m > 0)
    BY <1>1, <2>1
  <2>3. Test!Magnitude((v - m) * full) = c * full
    <3>1. (v - m) * full = -((m - v) * full)
      BY <1>1
    <3>. QED BY <1>1, <1>3, <2>1, <3>1 DEF Test!Magnitude, Test!Greater
  <2>. QED BY <2>1, <2>2, <2>3, RoundedOfMagnitudes
<1>5. r \in Nat /\ 2 * (s * r) <= 2 * (c * full) + s /\ 2 * (c * full) + s < 2 * (s * r) + 2 * s /\ c * full \in Nat
  <2>1. c * full \in Nat
    BY <1>3
  <2>. HIDE DEF s, c
  <2>. QED BY <1>3, <2>1, NearestIs
<1>6. 2 * (c * full) <= 2 * (s * p) + full /\ 2 * (s * p) <= 2 * (c * full) + full /\ s * p \in Nat
  <2>1. CASE m <= w
    <3>1. c * full = full * v - m * full /\ s * p = (w - m) * p /\ full * v \in Int /\ m * full \in Int
          /\ (w - m) * p \in Int
      <4>1. c = v - m /\ s = w - m
        BY <1>3, <2>1
      <4>2. (v - m) * full = full * v - m * full /\ full * v \in Int /\ m * full \in Int /\ (w - m) * p \in Int
        BY <1>1
      <4>. QED BY <4>1, <4>2
    <3>2. s * p \in Nat
      BY <1>3
    <3>. QED BY <1>2, <1>9, <3>1, <3>2
  <2>2. CASE w < m
    <3>1. c * full = m * full - full * v /\ s * p = -((w - m) * p) /\ full * v \in Int /\ m * full \in Int
          /\ (w - m) * p \in Int
      <4>1. c = m - v /\ s = m - w
        BY <1>3, <2>2
      <4>2. (m - v) * full = m * full - full * v /\ (m - w) * p = -((w - m) * p)
            /\ full * v \in Int /\ m * full \in Int /\ (w - m) * p \in Int
        BY <1>1
      <4>. QED BY <4>1, <4>2
    <3>2. s * p \in Nat
      BY <1>3
    <3>. QED BY <1>2, <1>9, <3>1, <3>2
  <2>. QED BY <2>1, <2>2
<1>. HIDE DEF s, c, r
<1>7. s * Test!Magnitude(r - p) = (IF p <= r THEN s * r - s * p ELSE s * p - s * r) /\ s * r \in Nat
  <2>1. Test!Magnitude(r - p) = (IF p <= r THEN r - p ELSE p - r)
    BY <1>5 DEF Test!Magnitude, Test!Greater
  <2>2. s * (r - p) = s * r - s * p /\ s * (p - r) = s * p - s * r /\ s * r \in Nat
    BY <1>3, <1>5
  <2>. QED BY <2>1, <2>2
<1>8. 2 * (s * Test!Magnitude(r - p)) <= full + s
  BY <1>3, <1>5, <1>6, <1>7
<1>. QED BY <1>4, <1>5, <1>8 DEF v, s

\* The first of those elements of s that some says.
IsFirstOf(first, s, some) == first = {s[i] : i \in {j \in some : \A k \in some : j <= k}}

\* It is the one before which there is none.
LEMMA FirstDecides ==
    ASSUME NEW s, NEW some, some \subseteq Nat, NEW first, IsFirstOf(first, s, some),
           NEW i \in some, \A j \in some : ~ (j < i)
    PROVE  first # {} /\ Test!The(first) = s[i]
<1>1. {j \in some : \A k \in some : j <= k} = {i}
  <2>1. \A k \in some : i <= k
    OBVIOUS
  <2>2. ASSUME NEW j \in some, \A k \in some : j <= k PROVE j = i
    BY <2>1, <2>2
  <2>. QED BY <2>1, <2>2, Zenon
<1>2. first = {s[i]}
  BY <1>1 DEF IsFirstOf
<1>. QED BY <1>2 DEF Test!The

\* What the conversions use of a fan: numbers, and overrides that say what they are for.
Overrides(fan) == fan.config.FanSpeedPercentageOverrides
HasNumbers(fan) ==
    /\ fan.minWrite \in Nat /\ fan.maxWrite \in Nat /\ fan.minWrite # fan.maxWrite
    /\ ~ fan.config.IndependentReadMinMaxValues => fan.minRead = fan.minWrite /\ fan.maxRead = fan.maxWrite
    /\ \A i \in DOMAIN Overrides(fan) :
           /\ i \in Nat /\ Overrides(fan)[i].FanSpeedPercentage \in 0..Test!Full
           /\ Overrides(fan)[i].TargetOperation \in {"Read", "Write", "ReadWrite"}

LEMMA FullIsPositive == Test!Full \in Nat \ {0}
BY ToolsAssumption DEF Test!Full

\* A percentage no override speaks of is converted,
LEMMA PlainIsWritten ==
    ASSUME NEW fan, HasNumbers(fan), NEW p \in 0..Test!Full,
           \A i \in DOMAIN Overrides(fan) : Overrides(fan)[i].FanSpeedPercentage # p
    PROVE  Test!Fan_PercentageToFanSpeed(fan, p) = Written(fan.minWrite, fan.maxWrite, p, Test!Full)
<1>. DEFINE some == {i \in DOMAIN Overrides(fan) :
                       Overrides(fan)[i].TargetOperation \in {"Write", "ReadWrite"} /\ Overrides(fan)[i].FanSpeedPercentage = p}
            first == Test!Fan_OverrideByPercentage(fan, p)
<1>1. first = {Overrides(fan)[i] : i \in {j \in some : \A k \in some : j <= k}}
  BY Zenon DEF Test!Fan_OverrideByPercentage, Test!FirstOf, Overrides
<1>2. some = {}
  OBVIOUS
<1>3. first = {}
  BY <1>1, <1>2
<1>4. Test!Greater(0, Test!Lesser(Test!Full, p)) = p
  BY FullIsPositive DEF Test!Greater, Test!Lesser
<1>. QED BY <1>3, <1>4 DEF Test!Fan_PercentageToFanSpeed, Written, Exact

\* one that an override is the first to speak of has its value,
IsFirst(fan, i, field, other) ==
    /\ Overrides(fan)[i].TargetOperation # other
    /\ \A j \in DOMAIN Overrides(fan) :
           j < i /\ Overrides(fan)[j].TargetOperation # other => Overrides(fan)[j][field] # Overrides(fan)[i][field]

LEMMA OverrideIsWritten ==
    ASSUME NEW fan, HasNumbers(fan), NEW i \in DOMAIN Overrides(fan), IsFirst(fan, i, "FanSpeedPercentage", "Read")
    PROVE  Test!Fan_PercentageToFanSpeed(fan, Overrides(fan)[i].FanSpeedPercentage) = Overrides(fan)[i].FanSpeedValue
<1>. DEFINE p == Overrides(fan)[i].FanSpeedPercentage
            some == {k \in DOMAIN Overrides(fan) :
                       Overrides(fan)[k].TargetOperation \in {"Write", "ReadWrite"} /\ Overrides(fan)[k].FanSpeedPercentage = p}
            first == Test!Fan_OverrideByPercentage(fan, p)
<1>1. IsFirstOf(first, Overrides(fan), some)
  BY Zenon DEF IsFirstOf, Test!Fan_OverrideByPercentage, Test!FirstOf, Overrides
<1>2. some \subseteq Nat /\ i \in some /\ \A j \in some : ~ (j < i)
  BY DEF HasNumbers, IsFirst
<1>3. first # {} /\ Test!The(first) = Overrides(fan)[i]
  <2>. HIDE DEF some, first
  <2>. QED BY <1>1, <1>2, FirstDecides
<1>4. p \in 0..Test!Full
  BY DEF HasNumbers
<1>5. Test!Greater(0, Test!Lesser(Test!Full, p)) = p
  <2>. HIDE DEF p
  <2>. QED BY <1>4, FullIsPositive DEF Test!Greater, Test!Lesser
<1>6. Test!Fan_PercentageToFanSpeed(fan, p) = Test!The(first).FanSpeedValue
  <2>. HIDE DEF p
  <2>. QED BY <1>3, <1>5 DEF Test!Fan_PercentageToFanSpeed
<1>. QED BY <1>3, <1>6

\* as a value that is read has its percentage.
LEMMA OverrideIsRead ==
    ASSUME NEW fan, HasNumbers(fan), NEW i \in DOMAIN Overrides(fan), IsFirst(fan, i, "FanSpeedValue", "Write")
    PROVE  Test!Fan_FanSpeedToPercentage(fan, Overrides(fan)[i].FanSpeedValue) = Overrides(fan)[i].FanSpeedPercentage
<1>. DEFINE v == Overrides(fan)[i].FanSpeedValue
            some == {k \in DOMAIN Overrides(fan) :
                       Overrides(fan)[k].TargetOperation \in {"Read", "ReadWrite"} /\ Overrides(fan)[k].FanSpeedValue = v}
            first == Test!Fan_OverrideByValue(fan, v)
<1>1. IsFirstOf(first, Overrides(fan), some)
  BY Zenon DEF IsFirstOf, Test!Fan_OverrideByValue, Test!FirstOf, Overrides
<1>2. some \subseteq Nat /\ i \in some /\ \A j \in some : ~ (j < i)
  BY DEF HasNumbers, IsFirst
<1>3. first # {} /\ Test!The(first) = Overrides(fan)[i]
  <2>. HIDE DEF some, first
  <2>. QED BY <1>1, <1>2, FirstDecides
<1>. HIDE DEF v
<1>4. Test!Fan_FanSpeedToPercentage(fan, v) = Test!The(first).FanSpeedPercentage
  BY <1>3 DEF Test!Fan_FanSpeedToPercentage
<1>. QED BY <1>3, <1>4 DEF v

\* A value that no override speaks of is converted too.
LEMMA PlainIsRead ==
    ASSUME NEW fan, HasNumbers(fan), NEW v,
           \A i \in DOMAIN Overrides(fan) : Overrides(fan)[i].FanSpeedValue # v
    PROVE  Test!Fan_FanSpeedToPercentage(fan, v)
               = Test!Rounded((v - fan.minRead) * Test!Full, fan.maxRead - fan.minRead)
<1>. DEFINE some == {i \in DOMAIN Overrides(fan) :
                       Overrides(fan)[i].TargetOperation \in {"Read", "ReadWrite"} /\ Overrides(fan)[i].FanSpeedValue = v}
            first == Test!Fan_OverrideByValue(fan, v)
<1>1. first = {Overrides(fan)[i] : i \in {j \in some : \A k \in some : j <= k}}
  BY Zenon DEF Test!Fan_OverrideByValue, Test!FirstOf, Overrides
<1>2. some = {}
  OBVIOUS
<1>3. first = {}
  BY <1>1, <1>2
<1>. QED BY <1>3 DEF Test!Fan_FanSpeedToPercentage

\* The conversions of a fan agree, as ConversionsAgree has it of all of them.
Converts(fan) ==
        LET overrides == fan.config.FanSpeedPercentageOverrides
            set == {overrides[i] : i \in DOMAIN overrides}
            V(p) == Test!Fan_PercentageToFanSpeed(fan, p)
            W(p) == Test!Fan_ECWriteValue(fan, V(p))
            R(v) == Test!Fan_FanSpeedToPercentage(fan, Test!InReadRange(fan, v))
            fits(v) == v \in Test!Limits("uint8") \/ fan.writeWords \/ Test!WriteTarget(fan.config) # "register"
            plain(p) == \A o \in set : o.FanSpeedPercentage # p /\ o.FanSpeedValue # V(p)
            way == IF fan.minWrite < fan.maxWrite THEN 1 ELSE -1
            steps == way * (fan.maxWrite - fan.minWrite)
            percents == {k * Part : k \in 0..100}
            first(i, field, other) ==
                /\ overrides[i].TargetOperation # other
                /\ \A j \in DOMAIN overrides :
                       j < i /\ overrides[j].TargetOperation # other => overrides[j][field] # overrides[i][field]
        IN /\ fits(fan.minWrite) /\ fits(fan.maxWrite) =>
                  /\ \A p \in percents : plain(p) =>
                         /\ W(p) \in Test!Lesser(fan.minWrite, fan.maxWrite)..Test!Greater(fan.minWrite, fan.maxWrite)
                         /\ ~fan.config.IndependentReadMinMaxValues =>
                                2 * steps * Test!Magnitude(R(W(p)) - p) <= Test!Full + steps
                  /\ \A p \in percents \ {Test!Full} : plain(p) /\ plain(p + Part) =>
                         way * W(p) <= way * W(p + Part)
                  /\ plain(0) => W(0) = fan.minWrite
                  /\ plain(Test!Full) => W(Test!Full) = fan.maxWrite
           /\ \A i \in DOMAIN overrides :
                  LET o == overrides[i]
                  IN /\ first(i, "FanSpeedPercentage", "Read") /\ fits(o.FanSpeedValue) =>
                            W(o.FanSpeedPercentage) = o.FanSpeedValue
                     /\ first(i, "FanSpeedValue", "Write") /\ Test!InReadRange(fan, o.FanSpeedValue) = o.FanSpeedValue =>
                            R(o.FanSpeedValue) = o.FanSpeedPercentage

\* What fits a byte is written whole.
Fits(fan, v) == v \in Test!Limits("uint8") \/ fan.writeWords \/ Test!WriteTarget(fan.config) # "register"

LEMMA FittingIsWhole ==
    ASSUME 2^Bits \in Nat \ {0}, NEW fan, NEW v, Fits(fan, v) PROVE Test!Fan_ECWriteValue(fan, v) = v
<1>1. CASE v \in Test!Limits("uint8")
  <2>1. Test!Limits("uint8") = 0..(2^Bits - 1)
    BY DEF Test!Limits
  <2>2. ASSUME NEW top \in Nat \ {0}, NEW u \in 0..(top - 1) PROVE u % top = u
    OBVIOUS
  <2>3. v % 2^Bits = v
    BY <1>1, <2>1, <2>2
  <2>. QED BY <2>3 DEF Test!Fan_ECWriteValue
<1>2. CASE fan.writeWords \/ Test!WriteTarget(fan.config) # "register"
  BY <1>2 DEF Test!Fan_ECWriteValue
<1>. QED BY <1>1, <1>2 DEF Fits

\* As do the values between two that fit.
LEMMA BetweenFits ==
    ASSUME 2^Bits \in Nat \ {0}, NEW fan, NEW m \in Nat, NEW w \in Nat, Fits(fan, m), Fits(fan, w),
           NEW v \in Test!Lesser(m, w)..Test!Greater(m, w)
    PROVE  Fits(fan, v)
<1>1. Test!Limits("uint8") = 0..(2^Bits - 1)
  BY DEF Test!Limits
<1>2. ASSUME NEW top \in Nat \ {0}, m \in 0..(top - 1), w \in 0..(top - 1) PROVE v \in 0..(top - 1)
  BY <1>2 DEF Test!Lesser, Test!Greater
<1>. QED BY <1>1, <1>2 DEF Fits

LEMMA FanConverts == ASSUME 2^Bits \in Nat \ {0}, NEW fan, HasNumbers(fan) PROVE Converts(fan)
<1>. DEFINE m == fan.minWrite
            w == fan.maxWrite
            full == Test!Full
            overrides == fan.config.FanSpeedPercentageOverrides
            set == {overrides[i] : i \in DOMAIN overrides}
            V(p) == Test!Fan_PercentageToFanSpeed(fan, p)
            W(p) == Test!Fan_ECWriteValue(fan, V(p))
            R(v) == Test!Fan_FanSpeedToPercentage(fan, Test!InReadRange(fan, v))
            fit == Fits(fan, m) /\ Fits(fan, w)
            plain(p) == \A o \in set : o.FanSpeedPercentage # p /\ o.FanSpeedValue # V(p)
            way == IF m < w THEN 1 ELSE -1
            steps == way * (w - m)
            percents == {k * Part : k \in 0..100}
            off(p) == R(W(p)) - p
<1>1. m \in Nat /\ w \in Nat /\ m # w /\ full \in Nat \ {0} /\ Part \in Nat \ {0} /\ full = 100 * Part
  BY FullIsPositive, ToolsAssumption DEF HasNumbers, Test!Full
<1>2. overrides = Overrides(fan)
  BY DEF Overrides
<1>3. ASSUME NEW p \in 0..full, plain(p), fit
      PROVE  /\ V(p) = Written(m, w, p, full) /\ W(p) = V(p)
             /\ V(p) \in Test!Lesser(m, w)..Test!Greater(m, w)
  <2>1. \A i \in DOMAIN Overrides(fan) : Overrides(fan)[i].FanSpeedPercentage # p
    BY <1>2, <1>3
  <2>2. V(p) = Written(m, w, p, full)
    BY <2>1, PlainIsWritten
  <2>5. p \in 0..full
    OBVIOUS
  <2>. HIDE DEF V, m, w, full
  <2>3. V(p) \in Test!Lesser(m, w)..Test!Greater(m, w)
    <3>1. /\ Written(m, w, p, full) \in Nat
          /\ m <= w => m <= Written(m, w, p, full) /\ Written(m, w, p, full) <= w
          /\ w <= m => w <= Written(m, w, p, full) /\ Written(m, w, p, full) <= m
      BY <1>1, <2>5, WrittenWithin
    <3>. QED BY <1>1, <2>2, <3>1 DEF Test!Lesser, Test!Greater
  <2>4. Fits(fan, V(p))
    BY <1>1, <1>3, <2>3, BetweenFits
  <2>. QED BY <2>2, <2>3, <2>4, FittingIsWhole
<1>4. ASSUME NEW p \in 0..full, plain(p), fit, ~ fan.config.IndependentReadMinMaxValues
      PROVE  off(p) = Test!Rounded((Written(m, w, p, full) - m) * full, w - m) - p
  <2>1. fan.minRead = m /\ fan.maxRead = w
    BY <1>4 DEF HasNumbers
  <2>2. V(p) = Written(m, w, p, full) /\ W(p) = V(p) /\ V(p) \in Test!Lesser(m, w)..Test!Greater(m, w)
    BY <1>3, <1>4
  <2>3. \A i \in DOMAIN Overrides(fan) : Overrides(fan)[i].FanSpeedValue # V(p)
    BY <1>2, <1>4
  <2>. HIDE DEF V, W, m, w, full
  <2>4. Test!InReadRange(fan, V(p)) = V(p)
    BY <1>1, <2>1, <2>2 DEF Test!InReadRange, Test!Lesser, Test!Greater
  <2>5. Test!Fan_FanSpeedToPercentage(fan, V(p)) = Test!Rounded((V(p) - fan.minRead) * full, fan.maxRead - fan.minRead)
    BY <2>3, PlainIsRead DEF full
  <2>. QED BY <2>1, <2>2, <2>4, <2>5
<1>5. steps = Test!Magnitude(w - m) /\ steps \in Nat
  BY <1>1 DEF Test!Magnitude, Test!Greater
<1>6. percents \subseteq 0..full /\ \A p \in percents \ {full} : p + Part \in 0..full
  BY <1>1
<1>. HIDE DEF m, w, full, V, W, off, fit
<1>8. ASSUME NEW p \in percents, plain(p), fit
      PROVE  /\ W(p) \in Test!Lesser(m, w)..Test!Greater(m, w)
             /\ ~ fan.config.IndependentReadMinMaxValues => 2 * steps * Test!Magnitude(off(p)) <= full + steps
  <2>1. p \in 0..full /\ W(p) \in Test!Lesser(m, w)..Test!Greater(m, w)
    BY <1>3, <1>6, <1>8
  <2>3. ~ fan.config.IndependentReadMinMaxValues =>
            off(p) \in Int /\ 2 * (Test!Magnitude(w - m) * Test!Magnitude(off(p))) <= full + Test!Magnitude(w - m)
    <3>. DEFINE back == Test!Rounded((Written(m, w, p, full) - m) * full, w - m) - p
    <3>1. back \in Int /\ 2 * (Test!Magnitude(w - m) * Test!Magnitude(back)) <= full + Test!Magnitude(w - m)
      BY <1>1, <2>1, WrittenIsReadBack
    <3>2. ~ fan.config.IndependentReadMinMaxValues => off(p) = back
      BY <1>4, <1>8, <2>1
    <3>. HIDE DEF back
    <3>. QED BY <3>1, <3>2
  <2>4. off(p) \in Int => 2 * steps * Test!Magnitude(off(p)) = 2 * (steps * Test!Magnitude(off(p)))
    <3>1. off(p) \in Int => Test!Magnitude(off(p)) \in Int
      BY DEF Test!Magnitude, Test!Greater
    <3>. HIDE DEF steps
    <3>. QED BY <1>5, <3>1
  <2>. HIDE DEF steps
  <2>. QED BY <1>5, <2>1, <2>3, <2>4
<1>9. ASSUME NEW p \in percents \ {full}, plain(p), plain(p + Part), fit PROVE way * W(p) <= way * W(p + Part)
  <2>1. p \in 0..full /\ W(p) = Written(m, w, p, full)
    BY <1>3, <1>6, <1>9
  <2>2. p + Part \in 0..full /\ p <= p + Part
    BY <1>1, <1>6, <2>1
  <2>3. W(p + Part) = Written(m, w, p + Part, full)
    BY <1>3, <1>9, <2>2
  <2>4. /\ m <= w => Written(m, w, p, full) <= Written(m, w, p + Part, full)
        /\ w <= m => Written(m, w, p + Part, full) <= Written(m, w, p, full)
    BY <1>1, <2>1, <2>2, WrittenInOrder
  <2>5. Written(m, w, p, full) \in Nat /\ Written(m, w, p + Part, full) \in Nat
    BY <1>1, <2>1, <2>2, WrittenWithin
  <2>. QED BY <1>1, <2>1, <2>3, <2>4, <2>5
<1>10. Written(m, w, 0, full) = m /\ Written(m, w, full, full) = w
  BY <1>1, WrittenAtLimits
<1>11. ASSUME plain(0), fit PROVE W(0) = m
  <2>1. 0 \in 0..full
    BY <1>1
  <2>. QED BY <1>3, <1>10, <1>11, <2>1
<1>12. ASSUME plain(full), fit PROVE W(full) = w
  <2>1. full \in 0..full
    BY <1>1
  <2>. QED BY <1>3, <1>10, <1>12, <2>1
<1>. HIDE DEF plain, steps, way, percents
<1>13. ASSUME NEW i \in DOMAIN overrides, IsFirst(fan, i, "FanSpeedPercentage", "Read"),
              Fits(fan, overrides[i].FanSpeedValue)
       PROVE  W(overrides[i].FanSpeedPercentage) = overrides[i].FanSpeedValue
  <2>1. V(overrides[i].FanSpeedPercentage) = overrides[i].FanSpeedValue
    BY <1>2, <1>13, OverrideIsWritten DEF V
  <2>. QED BY <1>13, <2>1, FittingIsWhole DEF W
<1>14. ASSUME NEW i \in DOMAIN overrides, IsFirst(fan, i, "FanSpeedValue", "Write"),
              Test!InReadRange(fan, overrides[i].FanSpeedValue) = overrides[i].FanSpeedValue
       PROVE  R(overrides[i].FanSpeedValue) = overrides[i].FanSpeedPercentage
  BY <1>2, <1>14, OverrideIsRead
<1>. HIDE DEF R
<1>. QED
  BY <1>8, <1>9, <1>11, <1>12, <1>13, <1>14, Zenon
  DEF Converts, IsFirst, Fits, Overrides, m, w, full, V, W, R, plain, off, fit, steps, way, percents

--------------------------------------------------------------------------------
(* What a test takes up *)

\* The instances count alike.
LEMMA SameCardinality == ASSUME NEW S PROVE Test!Cardinality(S) = Cardinality(S)
BY Zenon DEF Test!Cardinality, Cardinality

\* Of three fields one is set: it is the one that is used of them.
LEMMA OneOfThree ==
    ASSUME NEW f, NEW a, NEW b, NEW c, Test!Sets(f, {a, b, c}) = 1
    PROVE  {a, b, c} \cap DOMAIN f = {Test!Used(Test!Source(f, b, c), a, b, c)}
<1>. DEFINE S == {a, b, c} \cap DOMAIN f
<1>1. IsFiniteSet(S)
  <2>1. IsFiniteSet({}) /\ IsFiniteSet({c}) /\ IsFiniteSet({b, c}) /\ IsFiniteSet({a, b, c})
    <3>1. {c} = {} \cup {c} /\ {b, c} = {c} \cup {b} /\ {a, b, c} = {b, c} \cup {a}
      OBVIOUS
    <3>. QED BY <3>1, FS_EmptySet, FS_AddElement
  <2>. QED BY <2>1, FS_Subset
<1>2. Cardinality(S) = 1
  BY SameCardinality DEF Test!Sets
<1>3. \E x : S = {x}
  <2>. HIDE DEF S
  <2>. QED BY <1>1, <1>2, FS_Singleton
<1>. QED BY <1>3 DEF Test!Has, Test!Source, Test!Used

\* Of two fields none is set.
LEMMA NoneOfTwo ==
    ASSUME NEW f, NEW a, NEW b, Test!Sets(f, {a, b}) = 0 PROVE {a, b} \cap DOMAIN f = {}
<1>. DEFINE S == {a, b} \cap DOMAIN f
<1>1. IsFiniteSet(S)
  <2>1. {b} = {} \cup {b} /\ {a, b} = {b} \cup {a}
    OBVIOUS
  <2>. QED BY <2>1, FS_EmptySet, FS_AddElement, FS_Subset
<1>2. Cardinality(S) = 0
  BY SameCardinality DEF Test!Sets
<1>. HIDE DEF S
<1>3. S = {}
  BY <1>1, <1>2, FS_EmptySet
<1>. QED BY <1>3 DEF S

\* What fan.c reads of a fan and writes to it is there, and nothing that excludes it.
LEMMA FieldsOfFan ==
    ASSUME NEW f, Test!FanConfiguration_Valid(f)
    PROVE  Test!Unambiguous(f, Test!FanUses(f), Test!FanExclusive)
<1>. DEFINE reads == {"ReadRegister", "ReadAcpiMethod", "ReadLuaCode"}
            writes == {"WriteRegister", "WriteAcpiMethod", "WriteLuaCode"}
            resets == {"FanSpeedResetValue", "ResetAcpiMethod", "ResetLuaCode"}
            read == Test!Used(Test!ReadSource(f), "ReadRegister", "ReadAcpiMethod", "ReadLuaCode")
            write == Test!Used(Test!WriteTarget(f), "WriteRegister", "WriteAcpiMethod", "WriteLuaCode")
            reset == Test!Used(Test!ResetTarget(f), "FanSpeedResetValue", "ResetAcpiMethod", "ResetLuaCode")
            limits == IF f.IndependentReadMinMaxValues THEN {"MinSpeedValueRead", "MaxSpeedValueRead"} ELSE {}
<1>1. reads \cap DOMAIN f = {read}
  <2>1. Test!Sets(f, reads) = 1
    BY DEF Test!FanConfiguration_Valid
  <2>. QED BY <2>1, OneOfThree DEF Test!ReadSource
<1>2. writes \cap DOMAIN f = {write}
  <2>1. Test!Sets(f, writes) = 1
    BY DEF Test!FanConfiguration_Valid
  <2>. QED BY <2>1, OneOfThree DEF Test!WriteTarget
<1>3. ASSUME f.ResetRequired PROVE resets \cap DOMAIN f = {reset}
  <2>1. Test!Sets(f, resets) = 1
    BY <1>3 DEF Test!FanConfiguration_Valid
  <2>. QED BY <2>1, OneOfThree DEF Test!ResetTarget
<1>4. ASSUME ~ f.ResetRequired PROVE {"ResetAcpiMethod", "ResetLuaCode"} \cap DOMAIN f = {}
  <2>1. Test!Sets(f, {"ResetAcpiMethod", "ResetLuaCode"}) = 0
    BY <1>4 DEF Test!FanConfiguration_Valid
  <2>. QED BY <2>1, NoneOfTwo
<1>5. limits \subseteq DOMAIN f
  BY DEF Test!FanConfiguration_Valid, Test!Has
<1>6. Test!FanUses(f) = {read, write} \cup (IF f.ResetRequired THEN {reset} ELSE {}) \cup limits
  BY Zenon DEF Test!FanUses
<1>7. Test!FanExclusive = reads \cup writes \cup resets
  BY DEF Test!FanExclusive
<1>. HIDE DEF read, write, reset, limits
<1>8. Test!Has(f, Test!FanUses(f))
  BY <1>1, <1>2, <1>3, <1>5, <1>6 DEF Test!Has
<1>9. (DOMAIN f \cap Test!FanExclusive) \ Test!FanUses(f)
          \subseteq IF f.ResetRequired THEN {} ELSE {"FanSpeedResetValue", "ResetValue"}
  <2>1. CASE f.ResetRequired
    BY <1>1, <1>2, <1>3, <1>6, <1>7, <2>1
  <2>2. CASE ~ f.ResetRequired
    BY <1>1, <1>2, <1>4, <1>6, <1>7, <2>2
  <2>. QED BY <2>1, <2>2
<1>. QED BY <1>8, <1>9 DEF Test!Unambiguous

\* A way to write is given what it needs, and what excludes that is not set.
LEMMA FieldsOfMode ==
    ASSUME NEW r, NEW mode, NEW method, NEW lua, NEW fixed, Test!ModeFits(r, mode, method, lua, fixed)
    PROVE  /\ Test!Has(r, Test!ModeUses(mode, method, lua, fixed))
           /\ ({method, lua, fixed} \cap DOMAIN r) \ Test!ModeUses(mode, method, lua, fixed) = {}
<1>1. CASE mode = "Call"
  <2>1. Test!Has(r, {method}) /\ {lua, fixed} \cap DOMAIN r = {}
    BY <1>1, NoneOfTwo DEF Test!ModeFits
  <2>. QED BY <1>1, <2>1 DEF Test!ModeUses
<1>2. CASE mode = "Lua"
  <2>1. Test!Has(r, {lua}) /\ {method, fixed} \cap DOMAIN r = {}
    BY <1>2, NoneOfTwo DEF Test!ModeFits
  <2>. QED BY <1>2, <2>1 DEF Test!ModeUses
<1>3. CASE mode # "Call" /\ mode # "Lua"
  <2>1. Test!Has(r, {"Register", fixed}) /\ {method, lua} \cap DOMAIN r = {}
    BY <1>3, NoneOfTwo DEF Test!ModeFits
  <2>. QED BY <1>3, <2>1 DEF Test!ModeUses
<1>. QED BY <1>1, <1>2, <1>3

\* What register_write_configuration_utils.c uses is there, for each way to write and to
\* reset, and nothing that excludes it.
LEMMA FieldsOfRegister ==
    ASSUME NEW r, Test!RegisterWriteConfiguration_Valid(r)
    PROVE  Test!Unambiguous(r, Test!RegisterWriteUses(r), Test!RegisterExclusive)
<1>. DEFINE writes == {"AcpiMethod", "LuaCode", "Value"}
            resets == {"ResetAcpiMethod", "ResetLuaCode", "ResetValue"}
            write == Test!ModeUses(r.WriteMode, "AcpiMethod", "LuaCode", "Value")
            reset == Test!ModeUses(r.ResetWriteMode, "ResetAcpiMethod", "ResetLuaCode", "ResetValue")
<1>1. Test!Has(r, write) /\ (writes \cap DOMAIN r) \ write = {}
  BY FieldsOfMode DEF Test!RegisterWriteConfiguration_Valid
<1>2. ASSUME r.ResetRequired PROVE Test!Has(r, reset) /\ (resets \cap DOMAIN r) \ reset = {}
  BY <1>2, FieldsOfMode DEF Test!RegisterWriteConfiguration_Valid
<1>3. ASSUME ~ r.ResetRequired PROVE {"ResetLuaCode", "ResetAcpiMethod"} \cap DOMAIN r = {}
  BY <1>3, NoneOfTwo DEF Test!RegisterWriteConfiguration_Valid
<1>4. Test!RegisterWriteUses(r) = write \cup (IF r.ResetRequired THEN reset ELSE {})
  BY Zenon DEF Test!RegisterWriteUses
<1>5. Test!RegisterExclusive = writes \cup resets
  BY DEF Test!RegisterExclusive
<1>. HIDE DEF write, reset
<1>6. Test!Has(r, Test!RegisterWriteUses(r))
  BY <1>1, <1>2, <1>4 DEF Test!Has
<1>7. (DOMAIN r \cap Test!RegisterExclusive) \ Test!RegisterWriteUses(r)
          \subseteq IF r.ResetRequired THEN {} ELSE {"FanSpeedResetValue", "ResetValue"}
  <2>1. CASE r.ResetRequired
    BY <1>1, <1>2, <1>4, <1>5, <2>1
  <2>2. CASE ~ r.ResetRequired
    BY <1>1, <1>3, <1>4, <1>5, <2>2
  <2>. QED BY <2>1, <2>2
<1>. QED BY <1>6, <1>7 DEF Test!Unambiguous

\* Limits are numbers, and none is below nothing.
LimitsAreNumbers == Test!Limits("uint16") \subseteq Nat

\* Fan_FromJson takes each field of a fan from an item of that name,
LEMMA ReadsTestFan ==
    ASSUME NEW node, node.type = "object" => Setup!IsList(node.items), NEW f \in Test!Fan_FromJson(node)
    PROVE  /\ node.type = "object" /\ IsFunction(f)
           /\ \A key \in DOMAIN f : \E i \in DOMAIN node.items :
                  node.items[i].key = key /\ f[key] \in Test!FanFieldFromJson(Test!FanFields[key], node.items[i].node)
<1>. DEFINE Field(item) == IF item.key \in DOMAIN Test!FanFields
                           THEN Test!FanFieldFromJson(Test!FanFields[item.key], item.node) ELSE Test!Failed
            values == [i \in Uncommented(node) |-> Field(node.items[i])]
<1>1. FromItems(Test!Fan_FromJson(node), node, values)
  BY Zenon DEF FromItems, Uncommented, Test!Fan_FromJson, Test!ObjectFromJson, Test!FieldsFromJson,
     Test!Failed, Setup!Failed, Test!The, Setup!The, Test!Max, Setup!Max
<1>. HIDE DEF values
<1>2. /\ node.type = "object" /\ IsFunction(f)
      /\ \A key \in DOMAIN f : \E i \in Uncommented(node) :
             node.items[i].key = key /\ values[i] # Setup!Failed /\ f[key] \in values[i]
  BY <1>1, ItemsRead
<1>3. ASSUME NEW i \in Uncommented(node), values[i] # Setup!Failed
      PROVE  /\ i \in DOMAIN node.items /\ node.items[i].key \in DOMAIN Test!FanFields
             /\ values[i] = Test!FanFieldFromJson(Test!FanFields[node.items[i].key], node.items[i].node)
  BY <1>3 DEF values, Uncommented, Test!Failed, Setup!Failed
<1>. QED BY <1>2, <1>3

\* as FanSpeedPercentageOverride_FromJson does for an override,
LEMMA ReadsOverride ==
    ASSUME NEW node, node.type = "object" => Setup!IsList(node.items), NEW o \in Test!Override_FromJson(node)
    PROVE  /\ node.type = "object" /\ IsFunction(o)
           /\ \A key \in DOMAIN o : \E i \in DOMAIN node.items :
                  node.items[i].key = key /\ o[key] \in Test!FromNode(Test!OverrideFields[key], node.items[i].node)
<1>. DEFINE Field(item) == IF item.key \in DOMAIN Test!OverrideFields
                           THEN Test!FromNode(Test!OverrideFields[item.key], item.node) ELSE Test!Failed
            values == [i \in Uncommented(node) |-> Field(node.items[i])]
<1>1. FromItems(Test!Override_FromJson(node), node, values)
  BY Zenon DEF FromItems, Uncommented, Test!Override_FromJson, Test!ObjectFromJson, Test!FieldsFromJson,
     Test!Failed, Setup!Failed, Test!The, Setup!The, Test!Max, Setup!Max
<1>. HIDE DEF values
<1>2. /\ node.type = "object" /\ IsFunction(o)
      /\ \A key \in DOMAIN o : \E i \in Uncommented(node) :
             node.items[i].key = key /\ values[i] # Setup!Failed /\ o[key] \in values[i]
  BY <1>1, ItemsRead
<1>3. ASSUME NEW i \in Uncommented(node), values[i] # Setup!Failed
      PROVE  /\ i \in DOMAIN node.items /\ node.items[i].key \in DOMAIN Test!OverrideFields
             /\ values[i] = Test!FromNode(Test!OverrideFields[node.items[i].key], node.items[i].node)
  BY <1>3 DEF values, Uncommented, Test!Failed, Setup!Failed
<1>. QED BY <1>2, <1>3

\* and the list of them from an array.
LEMMA OverridesRead ==
    ASSUME NEW node, node.type = "array" => Setup!IsList(node.elems),
           NEW v \in Test!FanFieldFromJson("overrides", node)
    PROVE  /\ node.type = "array" /\ Setup!IsList(v) /\ DOMAIN v = DOMAIN node.elems
           /\ \A i \in DOMAIN v : v[i] \in Test!Override_FromJson(node.elems[i])
<1>. DEFINE values == [i \in DOMAIN node.elems |-> Test!Override_FromJson(node.elems[i])]
<1>1. FromElems(Test!FanFieldFromJson("overrides", node), node, values)
  BY Zenon DEF FromElems, Test!FanFieldFromJson, Test!ArrayFromJson, Test!Failed, Setup!Failed, Test!The, Setup!The
<1>2. DOMAIN values = DOMAIN node.elems /\ \A i \in DOMAIN node.elems : values[i] = Test!Override_FromJson(node.elems[i])
  OBVIOUS
<1>. HIDE DEF values
<1>3. /\ node.type = "array" /\ Setup!IsList(v) /\ DOMAIN v = DOMAIN node.elems
      /\ \A i \in DOMAIN v : v[i] \in values[i]
  BY <1>1, <1>2, ElemsRead
<1>. QED BY <1>2, <1>3

\* A word of a register is a number within its limits, what an override is for a name.
LEMMA NodeOfWord ==
    ASSUME NEW node, NEW v
    PROVE  /\ v \in Test!FanFieldFromJson("uint16", node) => v \in Test!Limits("uint16")
           /\ v \in Test!FromNode("OverrideTargetOperation", node) => v \in {"Read", "Write", "ReadWrite"}
<1>1. Test!FanFieldFromJson("uint16", node)
          = IF node.type = "int" /\ node.int \in Test!Limits("uint16") THEN {node.int} ELSE Test!Failed
  BY Zenon DEF Test!FanFieldFromJson, Test!FromNode, Test!IsInteger, Test!IsName
<1>2. Test!FromNode("OverrideTargetOperation", node)
          = IF node.type = "string" /\ node.text \in Test!Names("OverrideTargetOperation")
            THEN {node.text} ELSE Test!Failed
  BY Zenon DEF Test!FromNode, Test!IsInteger, Test!IsName
<1>3. Test!Names("OverrideTargetOperation") = {"Read", "Write", "ReadWrite"}
  BY DEF Test!Names
<1>. QED BY <1>1, <1>2, <1>3 DEF Test!Failed

\* The limits of a fan that has been read and given its defaults are numbers, and its
\* overrides say what they are for.
FanHasNumbers(f) ==
    /\ "MinSpeedValue" \in DOMAIN f => f.MinSpeedValue \in Nat
    /\ "MaxSpeedValue" \in DOMAIN f => f.MaxSpeedValue \in Nat
    /\ \A i \in DOMAIN f.FanSpeedPercentageOverrides :
           i \in Nat /\ f.FanSpeedPercentageOverrides[i].TargetOperation \in {"Read", "Write", "ReadWrite"}

\* What an override is for is what is in the file, or both to read and to write.
LEMMA OperationOf ==
    ASSUME NEW nodes, Setup!AreNodes(nodes), NEW node \in nodes, NEW o \in Test!Override_FromJson(node)
    PROVE  Test!WithOperation(o).TargetOperation \in {"Read", "Write", "ReadWrite"}
<1>1. "TargetOperation" \in DOMAIN o => o["TargetOperation"] \in {"Read", "Write", "ReadWrite"}
  <2>1. \A key \in DOMAIN o : \E i \in DOMAIN node.items :
            node.items[i].key = key /\ o[key] \in Test!FromNode(Test!OverrideFields[key], node.items[i].node)
    BY ReadsOverride DEF Setup!AreNodes
  <2>2. Test!OverrideFields["TargetOperation"] = "OverrideTargetOperation"
    BY DEF Test!OverrideFields
  <2>. QED BY <2>1, <2>2, NodeOfWord
<1>2. Test!WithOperation(o).TargetOperation
          = IF "TargetOperation" \in DOMAIN o THEN o["TargetOperation"] ELSE "ReadWrite"
  BY DEF Test!WithOperation, Test!Completed
<1>. QED BY <1>1, <1>2

LEMMA NumbersOfFan ==
    ASSUME NEW nodes, Setup!AreNodes(nodes), LimitsAreNumbers, NEW node \in nodes,
           NEW f \in Test!Fan_FromJson(node), NEW legacy, NEW g, g = Test!WithFanDefaults(f, legacy)
    PROVE  FanHasNumbers(g)
<1>. DEFINE overrides == Test!Given(f, "FanSpeedPercentageOverrides", <<>>)
            table == Test!Given(f, "TemperatureThresholds", <<>>)
            first == IF table = <<>> THEN Test!DefaultThresholds(legacy) ELSE table
            complete == [i \in DOMAIN overrides |-> Test!WithOperation(overrides[i])]
            set == [FanSpeedPercentageOverrides |-> complete, TemperatureThresholds |-> first]
            none == [FanDisplayName |-> "Fan #", IndependentReadMinMaxValues |-> FALSE, ResetRequired |-> FALSE]
            rest == Test!Completed(f, none)
<1>1. g = Test!Completed(set, rest)
  BY Zenon DEF Test!WithFanDefaults
<1>2. /\ DOMAIN set = {"FanSpeedPercentageOverrides", "TemperatureThresholds"}
      /\ set.FanSpeedPercentageOverrides = complete
      /\ DOMAIN none = {"FanDisplayName", "IndependentReadMinMaxValues", "ResetRequired"}
  <2>. HIDE DEF complete, first
  <2>. QED OBVIOUS
<1>3. /\ IsFunction(f)
      /\ \A key \in DOMAIN f : \E i \in DOMAIN node.items :
             node.items[i].key = key /\ f[key] \in Test!FanFieldFromJson(Test!FanFields[key], node.items[i].node)
  BY ReadsTestFan DEF Setup!AreNodes
<1>4. ASSUME NEW i \in DOMAIN overrides
      PROVE  i \in Nat /\ Test!WithOperation(overrides[i]).TargetOperation \in {"Read", "Write", "ReadWrite"}
  <2>1. "FanSpeedPercentageOverrides" \in DOMAIN f /\ overrides = f["FanSpeedPercentageOverrides"]
    BY DEF Test!Given, Test!Has
  <2>. HIDE DEF overrides
  <2>2. PICK k \in DOMAIN node.items :
            overrides \in Test!FanFieldFromJson(Test!FanFields["FanSpeedPercentageOverrides"], node.items[k].node)
    BY <1>3, <2>1
  <2>3. Test!FanFields["FanSpeedPercentageOverrides"] = "overrides"
    BY DEF Test!FanFields
  <2>4. node.items[k].node \in nodes
    <3>1. node.type = "object"
      BY ReadsTestFan DEF Setup!AreNodes
    <3>. QED BY <3>1, ElementOf DEF Setup!AreNodes
  <2>. DEFINE from == node.items[k].node
  <2>5. /\ from.type = "array" /\ Setup!IsList(overrides) /\ DOMAIN overrides = DOMAIN from.elems
        /\ overrides[i] \in Test!Override_FromJson(from.elems[i])
    BY <2>2, <2>3, <2>4, OverridesRead DEF Setup!AreNodes
  <2>6. from.elems[i] \in nodes
    BY <2>4, <2>5, ElementOf DEF Setup!AreNodes
  <2>7. i \in Nat
    BY <2>5, ListIsFunction
  <2>. QED BY <2>5, <2>6, <2>7, OperationOf
<1>5. ASSUME NEW key \in {"MinSpeedValue", "MaxSpeedValue"}, key \in DOMAIN g PROVE g[key] \in Nat
  <2>. HIDE DEF set, none
  <2>1. key \in DOMAIN f /\ g[key] = f[key]
    BY <1>1, <1>2, <1>5 DEF Test!Completed
  <2>2. Test!FanFields[key] = "uint16"
    BY DEF Test!FanFields
  <2>. QED BY <1>3, <2>1, <2>2, NodeOfWord DEF LimitsAreNumbers
<1>6. g.FanSpeedPercentageOverrides = complete
  <2>. HIDE DEF set, rest, complete
  <2>. QED BY <1>1, <1>2 DEF Test!Completed
<1>7. /\ DOMAIN complete = DOMAIN overrides
      /\ \A i \in DOMAIN overrides : complete[i] = Test!WithOperation(overrides[i])
  <2>. HIDE DEF overrides
  <2>. QED OBVIOUS
<1>. HIDE DEF set, rest, complete, overrides, none
<1>. QED BY <1>4, <1>5, <1>6, <1>7 DEF FanHasNumbers

\* So are those of a fan that fan.c makes of one that is valid.
LEMMA FanIsNumbered ==
    ASSUME NEW f, FanHasNumbers(f), Test!FanConfiguration_Valid(f), NEW c PROVE HasNumbers(Test!Fan(f, c))
<1>. DEFINE fan == Test!Fan(f, c)
<1>1. /\ fan.config = f /\ fan.minWrite = f.MinSpeedValue /\ fan.maxWrite = f.MaxSpeedValue
      /\ fan.minRead = IF ~ f.IndependentReadMinMaxValues THEN f.MinSpeedValue ELSE f.MinSpeedValueRead
      /\ fan.maxRead = IF ~ f.IndependentReadMinMaxValues THEN f.MaxSpeedValue ELSE f.MaxSpeedValueRead
  BY DEF Test!Fan
<1>. HIDE DEF fan
<1>2. /\ "MinSpeedValue" \in DOMAIN f /\ "MaxSpeedValue" \in DOMAIN f /\ f.MinSpeedValue # f.MaxSpeedValue
      /\ \A i \in DOMAIN f.FanSpeedPercentageOverrides :
             f.FanSpeedPercentageOverrides[i].FanSpeedPercentage \in 0..Test!Full
  BY DEF Test!FanConfiguration_Valid, Test!Override_Valid, Test!IsPercentage, Test!Has
<1>3. HasNumbers(fan)
  BY <1>1, <1>2 DEF HasNumbers, FanHasNumbers, Overrides
<1>. QED BY <1>3 DEF fan

\* The model c of a file is one the program accepts: with fans, each of them valid and
\* with a table and numbers, and valid registers.
Accepted(c) ==
    /\ DOMAIN c.FanConfigurations # {}
    /\ \A i \in DOMAIN c.FanConfigurations :
           /\ Test!FanConfiguration_Valid(c.FanConfigurations[i])
           /\ c.FanConfigurations[i].TemperatureThresholds # <<>> /\ FanHasNumbers(c.FanConfigurations[i])
    /\ \A i \in DOMAIN c.RegisterWriteConfigurations :
           Test!RegisterWriteConfiguration_Valid(c.RegisterWriteConfigurations[i])

\* The service can work with a fan of it,
WorksWith(fan) ==
    LET table == fan.config.TemperatureThresholds
    IN /\ Test!Unambiguous(fan.config, Test!FanUses(fan.config), Test!FanExclusive)
       /\ fan.minWrite # fan.maxWrite /\ fan.minRead # fan.maxRead
       /\ table # <<>>
       /\ \A k \in DOMAIN table : table[k].FanSpeed \in 0..Test!Full
       /\ \A k, l \in DOMAIN table :
              /\ table[k].DownThreshold <= table[k].UpThreshold
              /\ k # l => table[k].UpThreshold # table[l].UpThreshold

\* as it can with each, if the program has accepted the model.
LEMMA FansWork ==
    ASSUME NEW c, Accepted(c), NEW i \in DOMAIN c.FanConfigurations
    PROVE  WorksWith(Test!Fan(c.FanConfigurations[i], c))
<1>. DEFINE f == c.FanConfigurations[i]
            fan == Test!Fan(f, c)
            table == f.TemperatureThresholds
<1>1. Test!FanConfiguration_Valid(f) /\ table # <<>>
  BY DEF Accepted
<1>. HIDE DEF f
<1>2. /\ fan.config = f /\ fan.minWrite = f.MinSpeedValue /\ fan.maxWrite = f.MaxSpeedValue
      /\ fan.minRead = IF ~ f.IndependentReadMinMaxValues THEN f.MinSpeedValue ELSE f.MinSpeedValueRead
      /\ fan.maxRead = IF ~ f.IndependentReadMinMaxValues THEN f.MaxSpeedValue ELSE f.MaxSpeedValueRead
  BY DEF Test!Fan
<1>. HIDE DEF fan
<1>3. fan.minWrite # fan.maxWrite /\ fan.minRead # fan.maxRead
  BY <1>1, <1>2 DEF Test!FanConfiguration_Valid
<1>4. Test!TemperatureThresholds_Valid(table)
  BY <1>1 DEF Test!FanConfiguration_Valid
<1>. HIDE DEF table
<1>5. ASSUME NEW k \in DOMAIN table
      PROVE  /\ table[k].FanSpeed \in 0..Test!Full /\ table[k].DownThreshold <= table[k].UpThreshold
             /\ Test!Has(table[k], DOMAIN Test!ThresholdFields)
             /\ \A l \in DOMAIN table : k # l /\ Test!Has(table[l], {"UpThreshold"})
                                        => table[k].UpThreshold # table[l].UpThreshold
  BY <1>4 DEF Test!TemperatureThresholds_Valid, Test!IsPercentage
<1>6. ASSUME NEW k \in DOMAIN table, NEW l \in DOMAIN table, k # l
      PROVE  table[k].UpThreshold # table[l].UpThreshold
  <2>1. Test!Has(table[l], {"UpThreshold"})
    BY <1>5 DEF Test!Has, Test!ThresholdFields
  <2>. QED BY <1>5, <1>6, <2>1
<1>7. Test!Unambiguous(fan.config, Test!FanUses(fan.config), Test!FanExclusive)
  BY <1>1, <1>2, FieldsOfFan
<1>8. fan.config.TemperatureThresholds = table
  BY <1>2 DEF table
<1>. QED BY <1>1, <1>3, <1>5, <1>6, <1>7, <1>8 DEF WorksWith, fan, f

\* ModelConfig_FromJson takes each field of a model from an item of that name,
LEMMA ReadsTestModel ==
    ASSUME NEW node, node.type = "object" => Setup!IsList(node.items), NEW c \in Test!ModelConfig_FromJson(node)
    PROVE  /\ node.type = "object" /\ IsFunction(c)
           /\ \A key \in DOMAIN c : \E i \in DOMAIN node.items :
                  node.items[i].key = key /\ c[key] \in Test!ModelFieldFromJson(Test!ModelFields[key], node.items[i].node)
<1>. DEFINE Field(item) == IF item.key \in DOMAIN Test!ModelFields
                           THEN Test!ModelFieldFromJson(Test!ModelFields[item.key], item.node) ELSE Test!Failed
            values == [i \in Uncommented(node) |-> Field(node.items[i])]
<1>1. FromItems(Test!ModelConfig_FromJson(node), node, values)
  BY Zenon DEF FromItems, Uncommented, Test!ModelConfig_FromJson, Test!ObjectFromJson, Test!FieldsFromJson,
     Test!Failed, Setup!Failed, Test!The, Setup!The, Test!Max, Setup!Max
<1>. HIDE DEF values
<1>2. /\ node.type = "object" /\ IsFunction(c)
      /\ \A key \in DOMAIN c : \E i \in Uncommented(node) :
             node.items[i].key = key /\ values[i] # Setup!Failed /\ c[key] \in values[i]
  BY <1>1, ItemsRead
<1>3. ASSUME NEW i \in Uncommented(node), values[i] # Setup!Failed
      PROVE  /\ i \in DOMAIN node.items /\ node.items[i].key \in DOMAIN Test!ModelFields
             /\ values[i] = Test!ModelFieldFromJson(Test!ModelFields[node.items[i].key], node.items[i].node)
  BY <1>3 DEF values, Uncommented, Test!Failed, Setup!Failed
<1>. QED BY <1>2, <1>3

\* and the list of its fans from an array, each from its element.
LEMMA TestFansRead ==
    ASSUME NEW node, node.type = "array" => Setup!IsList(node.elems), NEW v \in Test!ModelFieldFromJson("fans", node)
    PROVE  /\ node.type = "array" /\ Setup!IsList(v) /\ DOMAIN v = DOMAIN node.elems
           /\ \A i \in DOMAIN v : v[i] \in Test!Fan_FromJson(node.elems[i])
<1>. DEFINE values == [i \in DOMAIN node.elems |-> Test!Fan_FromJson(node.elems[i])]
<1>1. FromElems(Test!ModelFieldFromJson("fans", node), node, values)
  BY Zenon DEF FromElems, Test!ModelFieldFromJson, Test!ArrayFromJson, Test!Failed, Setup!Failed, Test!The, Setup!The
<1>2. DOMAIN values = DOMAIN node.elems /\ \A i \in DOMAIN node.elems : values[i] = Test!Fan_FromJson(node.elems[i])
  OBVIOUS
<1>. HIDE DEF values
<1>3. /\ node.type = "array" /\ Setup!IsList(v) /\ DOMAIN v = DOMAIN node.elems /\ \A i \in DOMAIN v : v[i] \in values[i]
  BY <1>1, <1>2, ElemsRead
<1>. QED BY <1>2, <1>3

\* With its defaults a model has the fans it had,
LEMMA DefaultsOfModel ==
    ASSUME NEW c, IsFunction(c), "FanConfigurations" \in DOMAIN c, NEW m, m = Test!WithModelDefaults(c)
    PROVE  /\ DOMAIN m.FanConfigurations = DOMAIN c.FanConfigurations
           /\ \A i \in DOMAIN c.FanConfigurations :
                  \E legacy : m.FanConfigurations[i] = Test!WithFanDefaults(c.FanConfigurations[i], legacy)
<1>. DEFINE d == Test!Completed(c, Test!ModelDefaults)
<1>1. IsFunction(d) /\ "FanConfigurations" \in DOMAIN d /\ d.FanConfigurations = c.FanConfigurations
  <2>1. Completes(d, c, Test!ModelDefaults)
    BY DEF Test!Completed, IsFunction, Completes
  <2>. HIDE DEF d
  <2>. QED BY <2>1 DEF Completes
<1>2. m = [d EXCEPT !.RegisterWriteConfigurations = [i \in DOMAIN @ |-> Test!WithRegisterDefaults(@[i])],
                    !.FanConfigurations =
                        [i \in DOMAIN @ |-> Test!WithFanDefaults(@[i], d.LegacyTemperatureThresholdsBehaviour)]]
  BY Zenon DEF Test!WithModelDefaults
<1>. HIDE DEF d
<1>3. m.FanConfigurations = [i \in DOMAIN c.FanConfigurations |->
                                Test!WithFanDefaults(c.FanConfigurations[i], d.LegacyTemperatureThresholdsBehaviour)]
  BY <1>1, <1>2
<1>. QED BY <1>3

\* and each of them a table.
LEMMA DefaultsHaveTable ==
    ASSUME NEW f, NEW legacy, NEW g, g = Test!WithFanDefaults(f, legacy) PROVE g.TemperatureThresholds # <<>>
<1>. DEFINE overrides == Test!Given(f, "FanSpeedPercentageOverrides", <<>>)
            table == Test!Given(f, "TemperatureThresholds", <<>>)
            first == IF table = <<>> THEN Test!DefaultThresholds(legacy) ELSE table
            set == [FanSpeedPercentageOverrides |-> [i \in DOMAIN overrides |-> Test!WithOperation(overrides[i])],
                    TemperatureThresholds |-> first]
            rest == Test!Completed(f, [FanDisplayName |-> "Fan #", IndependentReadMinMaxValues |-> FALSE,
                                       ResetRequired |-> FALSE])
<1>1. g = Test!Completed(set, rest)
  BY Zenon DEF Test!WithFanDefaults
<1>2. first # <<>>
  <2>1. Test!DefaultThresholds(legacy) # <<>>
    BY DEF Test!DefaultThresholds
  <2>. QED BY <2>1
<1>3. "TemperatureThresholds" \in DOMAIN set /\ set.TemperatureThresholds = first
  <2>. HIDE DEF first
  <2>. QED OBVIOUS
<1>. HIDE DEF set, rest, first
<1>4. g.TemperatureThresholds = first
  BY <1>1, <1>3 DEF Test!Completed
<1>. QED BY <1>2, <1>4

\* A list that is not empty has an element.
LEMMA SomeElement == ASSUME NEW s, Setup!IsList(s), s # <<>> PROVE DOMAIN s # {}
<1>1. ASSUME NEW S, NEW t \in Seq(S), t # <<>> PROVE Len(t) # 0 /\ Len(t) \in Nat /\ DOMAIN t = 1..Len(t)
  BY <1>1
<1>2. PICK S : s \in Seq(S)
  BY DEF Setup!IsList
<1>3. Len(s) # 0 /\ Len(s) \in Nat /\ DOMAIN s = 1..Len(s)
  BY <1>1, <1>2
<1>. QED BY <1>3

\* Whatever configuration is loaded is one that is accepted.
LEMMA LoadedIsAccepted ==
    ASSUME NEW nodes, Setup!AreNodes(nodes), LimitsAreNumbers, NEW disk, \A place \in DOMAIN disk : disk[place] \in nodes,
           NEW name, NEW model \in Test!Loaded(disk, name)
    PROVE  Accepted(model)
<1>. DEFINE found == {i \in 1..5 : Test!Places(name)[i] \in DOMAIN disk}
            first == CHOOSE i \in found : \A j \in found : i <= j
            node == disk[Test!Places(name)[first]]
            from == Test!ModelConfig_FindAndLoad(disk, name)
            c == Test!The(from)
<1>1. from # {} /\ model \in Test!ModelConfig_Validate(c)
  <2>. HIDE DEF from
  <2>1. Test!Loaded(disk, name) = IF from = Test!Failed THEN Test!Failed ELSE Test!ModelConfig_Validate(c)
    BY Zenon DEF Test!Loaded, from
  <2>. QED BY <2>1 DEF Test!Failed
<1>2. from = IF found = {} THEN Test!Failed
             ELSE IF node.type = "garbage" THEN Test!Failed ELSE Test!ModelConfig_FromJson(node)
  BY Zenon DEF Test!ModelConfig_FindAndLoad
<1>3. found # {} /\ c \in Test!ModelConfig_FromJson(node)
  <2>. HIDE DEF from, found, node
  <2>1. from = Test!ModelConfig_FromJson(node) /\ found # {}
    BY <1>1, <1>2 DEF Test!Failed
  <2>. QED BY <1>1, <2>1 DEF Test!The
<1>4. node \in nodes
  <2>1. first \in found
    <3>1. \E i \in found : \A j \in found : i <= j
      <4>1. found \subseteq Nat
        OBVIOUS
      <4>. HIDE DEF found
      <4>. QED BY <1>3, <4>1, LeastElement
    <3>. HIDE DEF found
    <3>. QED BY <3>1
  <2>. QED BY <2>1
<1>. HIDE DEF found, first, node, from, c
<1>5. /\ "FanConfigurations" \in DOMAIN c /\ c.FanConfigurations # <<>> /\ model = Test!WithModelDefaults(c)
      /\ \A i \in DOMAIN model.RegisterWriteConfigurations :
             Test!RegisterWriteConfiguration_Valid(model.RegisterWriteConfigurations[i])
      /\ \A i \in DOMAIN model.FanConfigurations : Test!FanConfiguration_Valid(model.FanConfigurations[i])
  <2>1. Test!ModelConfig_Validate(c) =
            IF \/ ~Test!Has(c, {"NotebookModel", "FanConfigurations"})
               \/ c.FanConfigurations = <<>>
               \/ Test!Has(c, {"Sponsor"}) /\ ~Test!Has(c.Sponsor, {"Name", "URL", "BannerURL"})
            THEN Test!Failed
            ELSE LET m == Test!WithModelDefaults(c)
                 IN IF /\ \A i \in DOMAIN m.RegisterWriteConfigurations :
                              Test!RegisterWriteConfiguration_Valid(m.RegisterWriteConfigurations[i])
                       /\ \A i \in DOMAIN m.FanConfigurations :
                              Test!FanConfiguration_Valid(m.FanConfigurations[i])
                    THEN {m} ELSE Test!Failed
    BY Zenon DEF Test!ModelConfig_Validate
  <2>. QED BY <1>1, <2>1 DEF Test!Has, Test!Failed
<1>6. /\ node.type = "object" /\ IsFunction(c) /\ Setup!IsList(node.items)
      /\ \A key \in DOMAIN c : \E i \in DOMAIN node.items :
             node.items[i].key = key /\ c[key] \in Test!ModelFieldFromJson(Test!ModelFields[key], node.items[i].node)
  BY <1>3, <1>4, ReadsTestModel DEF Setup!AreNodes
<1>7. DOMAIN c.FanConfigurations # {}
      /\ \A i \in DOMAIN c.FanConfigurations : \E n \in nodes : c.FanConfigurations[i] \in Test!Fan_FromJson(n)
  <2>1. PICK i \in DOMAIN node.items :
            c.FanConfigurations \in Test!ModelFieldFromJson("fans", node.items[i].node)
    BY <1>5, <1>6 DEF Test!ModelFields
  <2>2. node.items[i].node \in nodes
    BY <1>4, <1>6, ElementOf DEF Setup!AreNodes
  <2>. DEFINE array == node.items[i].node
  <2>3. /\ array.type = "array" /\ Setup!IsList(c.FanConfigurations)
        /\ DOMAIN c.FanConfigurations = DOMAIN array.elems
        /\ \A k \in DOMAIN c.FanConfigurations : c.FanConfigurations[k] \in Test!Fan_FromJson(array.elems[k])
    BY <2>1, <2>2, TestFansRead DEF Setup!AreNodes
  <2>4. \A k \in DOMAIN array.elems : array.elems[k] \in nodes
    BY <2>2, <2>3, ElementOf DEF Setup!AreNodes
  <2>. QED BY <1>5, <2>3, <2>4, SomeElement
<1>8. /\ DOMAIN model.FanConfigurations = DOMAIN c.FanConfigurations
      /\ \A i \in DOMAIN c.FanConfigurations :
             \E legacy : model.FanConfigurations[i] = Test!WithFanDefaults(c.FanConfigurations[i], legacy)
  BY <1>5, <1>6, DefaultsOfModel
<1>9. ASSUME NEW i \in DOMAIN c.FanConfigurations
      PROVE  /\ model.FanConfigurations[i].TemperatureThresholds # <<>>
             /\ FanHasNumbers(model.FanConfigurations[i])
  <2>1. PICK legacy : model.FanConfigurations[i] = Test!WithFanDefaults(c.FanConfigurations[i], legacy)
    BY <1>8
  <2>. QED BY <1>7, <2>1, DefaultsHaveTable, NumbersOfFan
<1>. QED BY <1>5, <1>7, <1>8, <1>9 DEF Accepted

\* A configuration under test has been accepted, and its fans are those of fan.c.
IsTested(t) ==
    /\ {"config", "fans", "speeds"} \subseteq DOMAIN t /\ Accepted(t.config)
    /\ t.fans = [i \in DOMAIN t.config.FanConfigurations |-> Test!Fan(t.config.FanConfigurations[i], t.config)]

\* The command lines still to come are good, as is what is under test.
JobsAre(nodes) == Setup!IsList(jobs) /\ \A i \in DOMAIN jobs : Test!IsJob(jobs[i], nodes)
TestedInv(nodes) == JobsAre(nodes) /\ \A n \in DOMAIN tested : IsTested(tested[n])

\* The two modules ask the same of a list.
LEMMA SameLists == ASSUME NEW s PROVE Test!IsList(s) = Setup!IsList(s)
BY DEF Test!IsList, Setup!IsList, Test!ToSet, Setup!ToSet

\* Taking the first one leaves command lines.
LEMMA OpensTakes ==
    ASSUME NEW nodes, JobsAre(nodes), NEW action, Test!Opens(action)
    PROVE  JobsAre(nodes)' /\ Test!IsJob(job', nodes)
<1>1. jobs # <<>> /\ job' = Head(jobs) /\ jobs' = Tail(jobs)
  BY DEF Test!Opens
<1>2. ASSUME NEW S, NEW s \in Seq(S), s # <<>>
      PROVE  /\ Tail(s) \in Seq(S) /\ Head(s) = s[1] /\ 1 \in DOMAIN s /\ Len(Tail(s)) \in Nat
             /\ Tail(s) = [i \in 1..Len(Tail(s)) |-> Tail(s)[i]]
             /\ \A i \in DOMAIN Tail(s) : i + 1 \in DOMAIN s /\ Tail(s)[i] = s[i + 1]
  <2>1. Len(s) # 0 /\ Len(s) \in Nat /\ DOMAIN s = 1..Len(s)
    BY <1>2
  <2>2. Tail(s) \in Seq(S) /\ Len(Tail(s)) = Len(s) - 1 /\ Head(s) = s[1]
    BY <1>2, <2>1
  <2>3. ASSUME NEW i \in 1..(Len(s) - 1) PROVE Tail(s)[i] = s[i + 1]
    BY <1>2, <2>1
  <2>4. DOMAIN Tail(s) = 1..(Len(s) - 1) /\ Tail(s) = [i \in 1..Len(Tail(s)) |-> Tail(s)[i]]
    <3>1. ASSUME NEW t \in Seq(S) PROVE DOMAIN t = 1..Len(t) /\ t = [i \in 1..Len(t) |-> t[i]]
      OBVIOUS
    <3>. QED BY <2>2, <3>1
  <2>. QED BY <2>1, <2>2, <2>3, <2>4
<1>3. PICK S : jobs \in Seq(S)
  BY DEF JobsAre, Setup!IsList
<1>4. Setup!IsList(jobs')
  <2>1. Setup!IsList(Tail(jobs))
    <3>1. Len(Tail(jobs)) \in Nat /\ Tail(jobs) = [i \in 1..Len(Tail(jobs)) |-> Tail(jobs)[i]]
      BY <1>1, <1>2, <1>3
    <3>. QED BY <3>1, FunctionIsList, Zenon
  <2>. QED BY <1>1, <2>1
<1>5. \A i \in DOMAIN jobs' : Test!IsJob(jobs'[i], nodes)
  BY <1>1, <1>2, <1>3 DEF JobsAre
<1>6. Test!IsJob(job', nodes)
  BY <1>1, <1>2, <1>3 DEF JobsAre
<1>. QED BY <1>4, <1>5, <1>6 DEF JobsAre

\* The indexes in their order are some of the indexes.
LEMMA InOrderOf ==
    ASSUME NEW S, NEW k \in DOMAIN Test!InOrder(S) PROVE Test!InOrder(S)[k] \in S
<1>. DEFINE upTo(i) == Test!Cardinality({j \in S : j <= i})
<1>1. Test!InOrder(S) = [n \in {upTo(i) : i \in S} |-> CHOOSE i \in S : upTo(i) = n]
  BY Zenon DEF Test!InOrder
<1>. HIDE DEF upTo
<1>2. PICK i \in S : upTo(i) = k
  BY <1>1
<1>3. Test!InOrder(S)[k] = CHOOSE j \in S : upTo(j) = k
  BY <1>1
<1>. QED BY <1>2, <1>3

\* What is read for a test is good.
LEMMA BeginKeepsTested ==
    ASSUME NEW nodes, Setup!AreNodes(nodes), LimitsAreNumbers, TestedInv(nodes), Test!Begin PROVE TestedInv(nodes)'
<1>. DEFINE of(i) == {Test!WithReadings(job'.files[i], c) : c \in Test!Loaded(job'.disk, job'.files[i])}
            good == {i \in DOMAIN job'.files : of(i) # {}}
            loaded == Test!InOrder(good)
            made(k) == Test!The(of(loaded[k]))
<1>1. Test!Opens("run") /\ tested' = [k \in DOMAIN loaded |-> made(k)]
  BY Zenon DEF Test!Begin
<1>2. JobsAre(nodes)' /\ \A place \in DOMAIN job'.disk : job'.disk[place] \in nodes
  BY <1>1, OpensTakes DEF TestedInv, Test!IsJob
<1>3. ASSUME NEW k \in DOMAIN loaded PROVE IsTested(made(k))
  <2>1. loaded[k] \in good
    <3>. HIDE DEF good
    <3>. QED BY InOrderOf
  <2>2. made(k) \in of(loaded[k])
    <3>1. of(loaded[k]) # {}
      BY <2>1
    <3>. HIDE DEF of
    <3>. QED BY <3>1 DEF Test!The
  <2>. DEFINE file == job'.files[loaded[k]]
              from == Test!Loaded(job'.disk, file)
  <2>3. PICK c \in from : made(k) = Test!WithReadings(file, c)
    <3>. HIDE DEF made, loaded
    <3>. QED BY <2>2
  <2>4. Accepted(c)
    <3>. HIDE DEF file
    <3>. QED BY <1>2, LoadedIsAccepted
  <2>. HIDE DEF made, loaded, from, file
  <2>. QED BY <2>3, <2>4 DEF IsTested, Test!WithReadings
<1>. HIDE DEF loaded, made
<1>. QED BY <1>1, <1>2, <1>3 DEF TestedInv

\* To read a fan adds to its readings only.
LEMMA ReadFanKeepsTested ==
    ASSUME NEW nodes, TestedInv(nodes), Test!ReadFan PROVE TestedInv(nodes)'
<1>1. PICK a, b, v : tested' = [tested EXCEPT ![a].speeds[b] = v]
  <2>1. PICK v : tested' = [tested EXCEPT ![turn[1]].speeds[turn[2]] =
                                Append(@, Test!Fan_FanSpeedToPercentage(Test!reading, v))]
    BY DEF Test!ReadFan
  <2>. QED BY <2>1
<1>2. UNCHANGED jobs
  BY DEF Test!ReadFan, Test!options
<1>3. ASSUME NEW n \in DOMAIN tested PROVE IsTested(tested'[n])
  <2>1. IsTested(tested[n])
    BY DEF TestedInv
  <2>2. tested'[n] = tested[n] \/ tested'[n] = [tested[n] EXCEPT !.speeds[b] = v]
    BY <1>1
  <2>3. /\ DOMAIN tested'[n] = DOMAIN tested[n]
        /\ tested'[n].config = tested[n].config /\ tested'[n].fans = tested[n].fans
    BY <2>1, <2>2 DEF IsTested
  <2>. QED BY <2>1, <2>3 DEF IsTested
<1>4. DOMAIN tested' = DOMAIN tested
  BY <1>1
<1>. QED BY <1>2, <1>3, <1>4 DEF TestedInv, JobsAre

\* The names that are piped into a test change neither its files nor the other tests.
LEMMA RatingKeepsTested ==
    ASSUME NEW nodes, TestedInv(nodes), Rating PROVE TestedInv(nodes)'
<1>1. UNCHANGED tested
  BY DEF Rating
<1>2. CASE UNCHANGED jobs
  BY <1>1, <1>2 DEF TestedInv, JobsAre
<1>3. CASE Piped /\ jobs' # jobs
  <2>1. PICK names : jobs' = [jobs EXCEPT ![1].files = names]
    BY <1>3 DEF Piped
  <2>2. DOMAIN jobs' = DOMAIN jobs /\ DOMAIN jobs = 1..Len(jobs) /\ Len(jobs) \in Nat
    BY <2>1, ListIsFunction DEF TestedInv, JobsAre
  <2>3. Setup!IsList(jobs')
    <3>1. jobs' = [i \in 1..Len(jobs) |-> jobs'[i]]
      BY <2>1, <2>2
    <3>. QED BY <2>2, <3>1, FunctionIsList, Zenon
  <2>4. ASSUME NEW i \in DOMAIN jobs PROVE Test!IsJob(jobs'[i], nodes)
    <3>1. Test!IsJob(jobs[i], nodes)
      BY DEF TestedInv, JobsAre
    <3>2. jobs'[i] = jobs[i] \/ jobs'[i] = [jobs[i] EXCEPT !.files = names]
      BY <2>1
    <3>3. DOMAIN jobs'[i] = DOMAIN jobs[i] /\ jobs'[i].disk = jobs[i].disk
      BY <3>1, <3>2 DEF Test!IsJob
    <3>. QED BY <3>1, <3>3 DEF Test!IsJob
  <2>. QED BY <1>1, <2>2, <2>3, <2>4 DEF TestedInv, JobsAre
<1>. QED BY <1>2, <1>3 DEF Rating

\* The fans of a configuration that has been accepted can be driven, as the invariant
\* has it of all that are under test.
LEMMA AcceptedEnough == ASSUME NEW nodes, TestedInv(nodes) PROVE Test!AcceptedConfigsWork
<1>. SUFFICES ASSUME NEW n \in DOMAIN tested
              PROVE  LET c == tested[n].config
                     IN /\ tested[n].fans # <<>>
                        /\ \A i \in DOMAIN tested[n].fans : WorksWith(tested[n].fans[i])
                        /\ \A i \in DOMAIN c.RegisterWriteConfigurations :
                               LET r == c.RegisterWriteConfigurations[i] IN Test!Unambiguous(r, Test!RegisterWriteUses(r), Test!RegisterExclusive)
  BY Zenon DEF Test!AcceptedConfigsWork, WorksWith
<1>. DEFINE c == tested[n].config
            fans == tested[n].fans
<1>1. Accepted(c) /\ fans = [i \in DOMAIN c.FanConfigurations |-> Test!Fan(c.FanConfigurations[i], c)]
  BY DEF TestedInv, IsTested
<1>. HIDE DEF c, fans
<1>2. \A i \in DOMAIN fans : WorksWith(fans[i])
  BY <1>1, FansWork
<1>3. fans # <<>>
  <2>1. DOMAIN fans # {}
    BY <1>1 DEF Accepted
  <2>. QED BY <2>1
<1>4. \A i \in DOMAIN c.RegisterWriteConfigurations :
          Test!Unambiguous(c.RegisterWriteConfigurations[i], Test!RegisterWriteUses(c.RegisterWriteConfigurations[i]),
                           Test!RegisterExclusive)
  BY <1>1, FieldsOfRegister DEF Accepted
<1>. QED BY <1>2, <1>3, <1>4 DEF c, fans

\* A step of any of the programs.
LEMMA StepKeepsTested ==
    ASSUME NEW nodes, Setup!AreNodes(nodes), LimitsAreNumbers, TestedInv(nodes), [ToolsNext]_allVars
    PROVE  TestedInv(nodes)'
<1>1. CASE UNCHANGED <<jobs, tested>>
  BY <1>1 DEF TestedInv, JobsAre
<1>2. CASE Test!Begin
  BY <1>2, BeginKeepsTested
<1>3. CASE Test!BeginNothing \/ Test!Evaluate
  <2>1. tested' = <<>>
    BY <1>3 DEF Test!BeginNothing, Test!Evaluate
  <2>2. \E action : Test!Opens(action)
    BY <1>3 DEF Test!BeginNothing, Test!Evaluate
  <2>. QED BY <2>1, <2>2, OpensTakes DEF TestedInv
<1>4. CASE Test!Program
  <2>1. CASE Test!ReadFan
    BY <2>1, ReadFanKeepsTested
  <2>2. CASE Test!Program /\ ~ Test!ReadFan
    <3>1. UNCHANGED <<jobs, tested>>
      BY <2>2 DEF Test!Program, Test!Setup, Test!SampleSensors, Test!SensorFails, Test!CacheByte,
         Test!ReadFanFails, Test!Decide, Test!Stress_Start, Test!Stress_End, Test!Stress_Ended, Test!OpenReport,
         Test!WriteReport, Test!options, Test!tester
    <3>. QED BY <1>1, <3>1
  <2>. QED BY <1>4, <2>1, <2>2
<1>5. CASE Test!Child \/ Test!Faults
  <2>1. UNCHANGED <<jobs, tested>>
    BY <1>5 DEF Test!Child, Test!Faults, Test!ChildArms, Test!ChildExecs, Test!ChildEnds, Test!SetupFails,
       Test!Stress_StartFails, Test!ReportFails, Test!ChildDies, Test!Kill, Test!options, Test!tester
  <2>. QED BY <1>1, <2>1
<1>6. CASE Rating
  BY <1>6, RatingKeepsTested
<1>7. CASE SettingUp \/ Aside \/ UNCHANGED allVars
  <2>1. UNCHANGED <<jobs, tested>>
    BY <1>7 DEF SettingUp, Aside, allVars, testVars
  <2>. QED BY <1>1, <2>1
<1>. QED BY <1>2, <1>3, <1>4, <1>5, <1>6, <1>7 DEF ToolsNext, Testing

\* What is in the files, and the limits, as the two instances have it.
LEMMA NodesOfTests ==
    ASSUME NEW nodes, TestsAreParsed(nodes) PROVE Setup!AreNodes(nodes) /\ LimitsAreNumbers
BY SameLists DEF TestsAreParsed, LimitsAreNumbers, Test!AreNodes, Setup!AreNodes, Test!ToSet, Setup!ToSet

\* What the programs begin with.
LEMMA BeginsTested == ASSUME NEW nodes, TestsAreParsed(nodes), ToolsInit PROVE TestedInv(nodes)
<1>1. JobsAre(nodes)
  BY SameLists DEF ToolsInit, TestsAreParsed, JobsAre
<1>2. tested = <<>>
  BY DEF ToolsInit, Test!Fresh
<1>. QED BY <1>1, <1>2 DEF TestedInv

\* The conversions agree for the fans of a configuration that has been accepted.
LEMMA ConvertedEnough == ASSUME 2^Bits \in Nat \ {0}, NEW nodes, TestedInv(nodes) PROVE Test!ConversionsAgree
<1>1. ASSUME NEW n \in DOMAIN tested, NEW m \in DOMAIN tested[n].fans PROVE Converts(tested[n].fans[m])
  <2>. DEFINE c == tested[n].config
  <2>1. /\ Accepted(c) /\ m \in DOMAIN c.FanConfigurations
        /\ tested[n].fans[m] = Test!Fan(c.FanConfigurations[m], c)
    BY DEF TestedInv, IsTested
  <2>. HIDE DEF c
  <2>. QED BY <2>1, FanIsNumbered, FanConverts DEF Accepted
<1>. QED BY <1>1, Zenon DEF Test!ConversionsAgree, Converts

\* Whatever files a test is given, and whichever of them cannot be loaded: of every
\* configuration that model_config.c accepts each field that fan.c and the writes of
\* the registers will use is set and none that excludes it, the value a fan is given for
\* no percentage is not the one for all, and its table is one that the threshold manager
\* can walk.
THEOREM AcceptedWork ==
    ASSUME NEW nodes, TestsAreParsed(nodes) PROVE ToolsSpec => []AcceptedConfigsWork
<1>1. Setup!AreNodes(nodes) /\ LimitsAreNumbers
  BY NodesOfTests
<1>2. ToolsInit => TestedInv(nodes)
  BY BeginsTested
<1>3. TestedInv(nodes) /\ [ToolsNext]_allVars => TestedInv(nodes)'
  BY <1>1, StepKeepsTested
<1>4. TestedInv(nodes) => AcceptedConfigsWork
  BY AcceptedEnough DEF AcceptedConfigsWork
<1>. QED BY <1>2, <1>3, <1>4, PTL DEF ToolsSpec

\* Whatever the limits of a fan are that fit what is written of them, in either order: the
\* values fan.c writes for two percentages are within the limits and in their order, and
\* what was asked for is shown when they are read.  And whatever the limits of a fan are,
\* its overrides are written and shown, the first of those that contradict each other, as
\* far as their values fit and lie within the limits.
THEOREM ConversionsSound ==
    ASSUME NEW nodes, TestsAreParsed(nodes) PROVE ToolsSpec => []ConversionsAgree
<1>1. Setup!AreNodes(nodes) /\ LimitsAreNumbers /\ 2^Bits \in Nat \ {0}
  BY NodesOfTests DEF TestsAreParsed
<1>2. ToolsInit => TestedInv(nodes)
  BY BeginsTested
<1>3. TestedInv(nodes) /\ [ToolsNext]_allVars => TestedInv(nodes)'
  BY <1>1, StepKeepsTested
<1>4. TestedInv(nodes) => ConversionsAgree
  BY <1>1, ConvertedEnough DEF ConversionsAgree
<1>. QED BY <1>2, <1>3, <1>4, PTL DEF ToolsSpec

--------------------------------------------------------------------------------
(* What evaluate reads of what monitor has read *)

\* Dividing by a base.
LEMMA Quotient ==
    ASSUME NEW v \in Nat, NEW b \in Nat \ {0}
    PROVE  v \div b \in Nat /\ v % b \in 0..(b - 1) /\ v = (v \div b) * b + (v % b)
OBVIOUS

\* A number below a product has a quotient below the other factor.
LEMMA QuotientLess ==
    ASSUME NEW v \in Nat, NEW b \in Nat \ {0}, NEW c \in Nat, v < c * b
    PROVE  v \div b < c
<1>1. v \div b \in Nat /\ v % b \in 0..(b - 1) /\ v = (v \div b) * b + (v % b)
  BY Quotient
<1>. SUFFICES ASSUME v \div b >= c PROVE FALSE
  BY <1>1
<1>2. (v \div b) * b >= c * b
  BY <1>1, SMTT(30)
<1>3. (v \div b) * b \in Nat /\ c * b \in Nat
  BY <1>1
<1>. QED BY <1>1, <1>2, <1>3

\* What monitor prints of a byte evaluate reads as the same byte, to the same base.
LEMMA PrintedIsParsed ==
    ASSUME NEW b \in {Base.hex, Base.decimal}, NEW v \in Byte PROVE Parsed(Printed(v, b), b) = v
<1>. DEFINE q == v \div b
            p == q \div b
<1>1. b \in Nat \ {0} /\ v < b * b * b /\ v \in Nat
  BY EcProbeAssumption DEF Byte
<1>2. q \in Nat /\ v % b \in 0..(b - 1) /\ v = q * b + (v % b)
  BY <1>1, Quotient
<1>3. q < b * b
  BY <1>1, QuotientLess
<1>. HIDE DEF q
<1>4. p \in Nat /\ q % b \in 0..(b - 1) /\ q = p * b + (q % b)
  BY <1>1, <1>2, Quotient
<1>5. p < b
  BY <1>1, <1>2, <1>3, QuotientLess
<1>. HIDE DEF p
<1>6. Printed(v, b) = <<p, q % b, v % b>>
  BY DEF Printed, p, q
<1>. DEFINE text == <<p, q % b, v % b>>
<1>7. (text[1] * b + text[2]) * b + text[3] = v
  <2>1. text[1] = p /\ text[2] = q % b /\ text[3] = v % b
    OBVIOUS
  <2>. HIDE DEF text
  <2>2. text[1] * b + text[2] = q
    BY <1>4, <2>1
  <2>. QED BY <1>2, <2>1, <2>2
<1>8. \A i \in 1..3 : text[i] < b
  <2>1. text[1] < b /\ text[2] < b /\ text[3] < b
    BY <1>1, <1>2, <1>4, <1>5
  <2>. HIDE DEF text
  <2>. QED BY <2>1
<1>. HIDE DEF text
<1>9. Parsed(text, b) = v
  BY <1>7, <1>8 DEF Parsed
<1>. QED BY <1>6, <1>9 DEF text

\* A sequence of so many readings.
OfLength(s, n) == DOMAIN s = 1..n /\ s = [i \in 1..n |-> s[i]]

\* What is shown of a column is taken from it; some of it is, and all of it if as much.
LEMMA ShownOf ==
    ASSUME NEW n \in Nat, NEW col, OfLength(col, n), NEW clearly
    PROVE  \E m \in 0..n :
               /\ OfLength(Shown(col, clearly), m)
               /\ n # 0 => m # 0
               /\ m = n => Shown(col, clearly) = col
               /\ \A k \in 1..m : \E i \in 1..n : Shown(col, clearly)[k] = col[i]
<1>. DEFINE S == {i \in DOMAIN col : clearly /\ i > 1 => col[i] # col[i - 1]}
            upTo(i) == {j \in S : j <= i}
            m == Cardinality(S)
            at_(k) == CHOOSE i \in S : Cardinality(upTo(i)) = k
<1>0. DOMAIN col = 1..n /\ col = [i \in 1..n |-> col[i]]
  BY DEF OfLength
<1>1. Shown(col, clearly) = [k \in 1..m |-> col[at_(k)]]
  BY Zenon DEF Shown
<1>2. S \subseteq 1..n /\ (n # 0 => 1 \in S)
  BY <1>0
<1>. HIDE DEF S
<1>3. IsFiniteSet(1..n) /\ Cardinality(1..n) = n
  BY FS_Interval
<1>4. IsFiniteSet(S) /\ m \in 0..n /\ (n # 0 => m # 0) /\ (m = n => S = 1..n)
  <2>1. IsFiniteSet(S) /\ m <= n /\ (m = n => S = 1..n)
    BY <1>2, <1>3, FS_Subset
  <2>2. m \in Nat /\ (m = 0 => S = {})
    BY <2>1, FS_CardinalityType, FS_EmptySet
  <2>. QED BY <1>2, <2>1, <2>2
<1>5. \A k \in 1..m : \E i \in S : Cardinality(upTo(i)) = k
  <2>1. S \subseteq Int /\ \A i \in S : upTo(i) \subseteq S /\ \A j \in S : j \in upTo(i) <=> j <= i
    BY <1>2
  <2>. HIDE DEF upTo
  <2>. DEFINE some == [i \in S |-> upTo(i)]
  <2>2. \A i \in S : some[i] = upTo(i)
    OBVIOUS
  <2>. HIDE DEF some
  <2>3. ASSUME NEW i \in S PROVE some[i] \subseteq S /\ i \in some[i]
    BY <2>1, <2>2
  <2>4. ASSUME NEW i \in S, NEW j \in S PROVE some[i] \subseteq some[j] \/ some[j] \subseteq some[i]
    <3>1. ASSUME NEW a \in S, NEW b \in S, a <= b, NEW x \in upTo(a) PROVE x \in upTo(b)
      <4>1. x \in S /\ x <= a
        BY <2>1
      <4>2. x <= b /\ x \in S
        BY <2>1, <3>1, <4>1
      <4>. QED BY <2>1, <4>2
    <3>2. i <= j \/ j <= i
      BY <2>1
    <3>. QED BY <2>2, <3>1, <3>2
  <2>5. ASSUME NEW i \in S, NEW j \in S, i \in some[j], j \in some[i] PROVE i = j
    BY <2>1, <2>2, <2>5
  <2>6. \A k \in 1..m : \E i \in S : Cardinality(some[i]) = k
    BY <1>4, <2>3, <2>4, <2>5, RanksAreTaken
  <2>. QED BY <2>2, <2>6
<1>6. \A k \in 1..m : at_(k) \in S
  <2>. HIDE DEF upTo
  <2>. QED BY <1>5
<1>7. ASSUME m = n PROVE Shown(col, clearly) = col
  <2>1. S = 1..n
    BY <1>4, <1>7
  <2>2. ASSUME NEW i \in 1..n PROVE Cardinality(upTo(i)) = i
    <3>1. upTo(i) = 1..i
      BY <2>1
    <3>2. Cardinality(1..i) = i
      BY FS_Interval
    <3>. QED BY <3>1, <3>2
  <2>. HIDE DEF upTo
  <2>3. \A k \in 1..n : at_(k) = k
    BY <2>1, <2>2
  <2>. HIDE DEF at_
  <2>. QED BY <1>0, <1>1, <1>7, <2>3
<1>. HIDE DEF m, at_
<1>8. \A k \in 1..m : Shown(col, clearly)[k] = col[at_(k)]
  BY <1>1
<1>9. OfLength(Shown(col, clearly), m)
  BY <1>1 DEF OfLength
<1>. QED BY <1>2, <1>4, <1>6, <1>7, <1>8, <1>9

\* A row of the log: a byte of each register.
Row == [1..(MaxRegister + 1) -> Byte]

\* What monitor writes of a log.
Changed(l) == {r \in Registers : RegisterHasChanged(l, r)}
PrintedRow(l, o, r) ==
    LET col == Shown(Column(l, r), o.clearly)
    IN [k \in DOMAIN col |-> Printed(col[k], BaseOf(o.decimal))]
IsReportOf(rep, l, o) ==
    /\ rep.temps = IF o.cpu \/ o.gpu THEN Len(l) ELSE 0
    /\ rep.rows = [r \in Changed(l) |-> PrintedRow(l, o, r)]

\* The readings of a register are a column of bytes, one of each row.
LEMMA ColumnOf ==
    ASSUME NEW l \in Seq(Row), NEW r \in Registers
    PROVE  /\ Len(l) \in Nat /\ OfLength(Column(l, r), Len(l))
           /\ \A i \in 1..Len(l) : Column(l, r)[i] \in Byte
<1>1. Len(l) \in Nat /\ DOMAIN l = 1..Len(l) /\ \A i \in 1..Len(l) : l[i] \in Row
  OBVIOUS
<1>2. Column(l, r) = [i \in 1..Len(l) |-> l[i][r + 1]]
  BY <1>1 DEF Column
<1>3. r + 1 \in 1..(MaxRegister + 1)
  BY EcProbeAssumption DEF Registers
<1>. QED BY <1>1, <1>2, <1>3 DEF Row, OfLength

\* What is read back of the row of a register is what was shown of its column.
LEMMA RowIsReadBack ==
    ASSUME NEW l \in Seq(Row), NEW o, NEW r \in Registers, opts.decimal = o.decimal
    PROVE  LET row == PrintedRow(l, o, r)
               read == [k \in DOMAIN row |-> ReadBack(row[k])]
           IN /\ read = Shown(Column(l, r), o.clearly)
              /\ \A k \in DOMAIN read : read[k] # Absent
<1>. DEFINE col == Column(l, r)
            s == Shown(col, o.clearly)
            b == BaseOf(o.decimal)
            row == PrintedRow(l, o, r)
            read == [k \in DOMAIN row |-> ReadBack(row[k])]
<1>1. /\ Len(l) \in Nat /\ OfLength(col, Len(l))
      /\ \A i \in 1..Len(l) : col[i] \in Byte
  BY ColumnOf
<1>. HIDE DEF col
<1>2. PICK m \in 0..Len(l) : OfLength(s, m) /\ \A k \in 1..m : \E i \in 1..Len(l) : s[k] = col[i]
  BY <1>1, ShownOf
<1>. HIDE DEF s
<1>3. DOMAIN s = 1..m /\ s = [k \in 1..m |-> s[k]] /\ \A k \in 1..m : s[k] \in Byte
  BY <1>1, <1>2 DEF OfLength
<1>4. row = [k \in DOMAIN s |-> Printed(s[k], b)]
  BY Zenon DEF PrintedRow, s, col, b
<1>5. b \in {Base.hex, Base.decimal}
  BY DEF BaseOf
<1>. HIDE DEF b
<1>6. \A text : ReadBack(text) = Parsed(text, b)
  BY DEF ReadBack, b
<1>. HIDE DEF row
<1>7. DOMAIN row = 1..m /\ \A k \in 1..m : row[k] = Printed(s[k], b)
  BY <1>3, <1>4
<1>8. \A k \in 1..m : ReadBack(row[k]) = s[k]
  BY <1>3, <1>5, <1>6, <1>7, PrintedIsParsed
<1>9. read = [k \in 1..m |-> s[k]]
  BY <1>7, <1>8
<1>10. read = s
  BY <1>3, <1>9
<1>11. \A k \in DOMAIN s : s[k] # Absent
  BY <1>3 DEF Byte, Absent
<1>. HIDE DEF read
<1>12. read = s /\ \A k \in DOMAIN read : read[k] # Absent
  BY <1>10, <1>11
<1>. QED BY <1>12 DEF s, read, row, col

\* What evaluate should make of the report of a log, e, and how it should end, c.
Evaluated(l, o, e, c) ==
    LET columns == [r \in Changed(l) |-> Column(l, r)]
        whole == \A r \in Changed(l) : Shown(columns[r], o.clearly) = columns[r]
        asked == (o.cpu \/ o.gpu) /\ l # <<>>
    IN IF whole /\ asked THEN c = Success /\ e = columns ELSE c = Failure

\* evaluate takes a report of a log, to its base, if it has all of the readings.
LEMMA EvaluatesReport ==
    ASSUME NEW l \in Seq(Row), NEW o, IsReportOf(report, l, o), report.valid,
           opts.decimal = o.decimal, Evaluate
    PROVE  Evaluated(l, o, result', code')
<1>. DEFINE columns == [r \in Changed(l) |-> Column(l, r)]
            shown(r) == Shown(Column(l, r), o.clearly)
            rows == [r \in DOMAIN report.rows |->
                        [k \in DOMAIN report.rows[r] |-> ReadBack(report.rows[r][k])]]
            fits == \A r \in DOMAIN rows : Len(rows[r]) # 0 => Len(rows[r]) = report.temps
            read == \A r \in DOMAIN rows : \A k \in DOMAIN rows[r] : rows[r][k] # Absent
            whole == \A r \in Changed(l) : Shown(columns[r], o.clearly) = columns[r]
            asked == (o.cpu \/ o.gpu) /\ l # <<>>
<1>1. IF report.valid /\ read /\ report.temps # 0 /\ fits
      THEN result' = rows /\ Exit(Success) ELSE UNCHANGED result /\ Exit(Failure)
  BY Zenon DEF Evaluate
<1>2. DOMAIN report.rows = Changed(l) /\ \A r \in Changed(l) : report.rows[r] = PrintedRow(l, o, r)
  BY DEF IsReportOf
<1>3. DOMAIN rows = Changed(l)
  BY <1>2
<1>4. ASSUME NEW r \in Changed(l)
      PROVE  rows[r] = shown(r) /\ \A k \in DOMAIN rows[r] : rows[r][k] # Absent
  <2>. DEFINE row == PrintedRow(l, o, r)
              back == [k \in DOMAIN row |-> ReadBack(row[k])]
  <2>1. back = shown(r) /\ \A k \in DOMAIN back : back[k] # Absent
    BY RowIsReadBack DEF Changed
  <2>2. rows[r] = back
    BY <1>2
  <2>. HIDE DEF back, rows
  <2>. QED BY <2>1, <2>2
<1>. HIDE DEF rows
<1>5. read
  BY <1>3, <1>4
<1>6. /\ Len(l) \in Nat /\ (l # <<>> <=> Len(l) # 0)
      /\ report.temps = IF o.cpu \/ o.gpu THEN Len(l) ELSE 0
  BY DEF IsReportOf
<1>7. report.temps # 0 <=> asked
  BY <1>6
<1>8. ASSUME asked, NEW r \in Changed(l)
      PROVE  (Len(rows[r]) # 0 => Len(rows[r]) = report.temps) <=> shown(r) = Column(l, r)
  <2>. DEFINE col == Column(l, r)
  <2>1. OfLength(col, Len(l)) /\ Len(l) \in Nat
    BY ColumnOf DEF Changed
  <2>. HIDE DEF col
  <2>2. PICK m \in 0..Len(l) : /\ OfLength(Shown(col, o.clearly), m)
                               /\ Len(l) # 0 => m # 0
                               /\ m = Len(l) => Shown(col, o.clearly) = col
    BY <2>1, ShownOf
  <2>3. ASSUME NEW s, NEW n \in Nat, OfLength(s, n) PROVE Len(s) = n
    BY <2>3, FunctionIsList, Zenon DEF OfLength
  <2>4. Len(Shown(col, o.clearly)) = m /\ Len(col) = Len(l)
    BY <2>1, <2>2, <2>3
  <2>5. rows[r] = Shown(col, o.clearly) /\ shown(r) = Shown(col, o.clearly)
    BY <1>4 DEF col
  <2>6. Len(l) # 0 /\ report.temps = Len(l)
    BY <1>6, <1>8
  <2>7. (m # 0 => m = Len(l)) <=> Shown(col, o.clearly) = col
    BY <2>2, <2>4, <2>6
  <2>. HIDE DEF shown
  <2>. QED BY <2>4, <2>5, <2>6, <2>7 DEF col
<1>9. asked => (fits <=> whole)
  <2>1. \A r \in Changed(l) : columns[r] = Column(l, r)
    OBVIOUS
  <2>2. whole <=> \A r \in Changed(l) : shown(r) = Column(l, r)
    <3>. HIDE DEF columns
    <3>. QED BY <2>1
  <2>. HIDE DEF whole, shown, asked
  <2>. QED BY <1>3, <1>8, <2>2
<1>10. whole => rows = columns
  <2>1. whole => \A r \in Changed(l) : rows[r] = columns[r]
    <3>1. \A r \in Changed(l) : columns[r] = Column(l, r)
      OBVIOUS
    <3>. HIDE DEF columns
    <3>. QED BY <1>4, <3>1
  <2>2. rows = [r \in Changed(l) |-> rows[r]]
    BY <1>3 DEF rows
  <2>3. columns = [r \in Changed(l) |-> columns[r]]
    OBVIOUS
  <2>. HIDE DEF columns, whole
  <2>. QED BY <2>1, <2>2, <2>3
<1>. HIDE DEF columns, fits, read, whole, asked
<1>11. IF whole /\ asked THEN result' = columns /\ code' = Success ELSE code' = Failure
  BY <1>1, <1>5, <1>7, <1>9, <1>10 DEF Exit
<1>. QED BY <1>11, Zenon DEF Evaluated, columns, whole, asked

IsMemory(m) == m \in [Registers -> Byte]

\* What ec_probe holds are numbers, its register is one of the controller, and what it
\* writes leaves bytes.
MemoryInv ==
    /\ IsMemory(mem)
    /\ pc \in {"open", "read", "save"} =>
           Register \in Registers /\ (opts.cmd = "probe" => WordFits(opts.word, Register))
    /\ pc = "write" => value \in Int
    /\ pc \in {"probe", "reads", "restore"} => saved \in Int

\* A power of two.
LEMMA PowersOfTwo == ASSUME CommandsAreParsed, NEW n \in 0..Bits PROVE 2^n \in Nat \ {0}
BY DEF CommandsAreParsed

\* The drivers write bytes, whether all of them or some,
LEMMA WritesBytes ==
    ASSUME CommandsAreParsed, IsMemory(mem), NEW a, NEW w, NEW v \in Int,
           WriteSucceeds(a, w, v) \/ WriteFails(a, w, v)
    PROVE  IsMemory(mem')
<1>. DEFINE n == 2^Bits
<1>1. n \in Nat \ {0}
  BY PowersOfTwo, EcProbeAssumption
<1>2. Byte = 0..(n - 1)
  BY DEF Byte
<1>3. PICK some : mem' = [r \in Registers |-> IF r \in some THEN ByteOf(a, v, r) ELSE mem[r]]
  BY DEF WriteSucceeds, WriteFails, Put
<1>4. \A r : ByteOf(a, v, r) = (IF r = a THEN v ELSE v \div n) % n
  BY DEF ByteOf
<1>. HIDE DEF n
<1>5. v % n \in Byte /\ (v \div n) % n \in Byte
  BY <1>1, <1>2
<1>6. \A r \in Registers : ByteOf(a, v, r) \in Byte
  BY <1>4, <1>5
<1>. QED BY <1>3, <1>6 DEF IsMemory

\* and what they read is a number.
LEMMA ContentIsNumber ==
    ASSUME CommandsAreParsed, IsMemory(mem), NEW a \in Registers, NEW w \in BOOLEAN, WordFits(w, a)
    PROVE  Content(a, w) \in Int
<1>. DEFINE n == 2^Bits
<1>1. n \in Nat
  BY PowersOfTwo, EcProbeAssumption
<1>2. \A r \in Registers : mem[r] \in Int
  BY DEF IsMemory, Byte
<1>3. Content(a, w) = mem[a] + (IF w THEN n * mem[a + 1] ELSE 0)
  BY DEF Content
<1>4. w => a + 1 \in Registers
  BY EcProbeAssumption DEF WordFits, Registers
<1>. HIDE DEF n
<1>. QED BY <1>1, <1>2, <1>3, <1>4

\* A reference that is resolved is one to a register.
LEMMA ResolvedIsRegister ==
    ASSUME IsParsed(opts), Resolved(opts.register).code = Running PROVE Register \in Registers
<1>. DEFINE ref == opts.register
            found == Map_Lookup(opts.map, ref.name)
<1>1. CmdLine # Running /\ Failure # Running
  BY DEF CmdLine, Failure, Running
<1>2. found \subseteq Registers
  BY DEF Map_Lookup, IsParsed
<1>3. Resolved(ref) =
        CASE ref.name = "" ->
                IF ref.addr \in Registers THEN [addr |-> ref.addr, code |-> Running]
                                          ELSE [addr |-> 0, code |-> CmdLine]
          [] ref.name # "" /\ opts.map = <<>> -> [addr |-> 0, code |-> CmdLine]
          [] ref.name # "" /\ opts.map # <<>> /\ ~Map_Loads(opts.map) ->
                [addr |-> 0, code |-> Failure]
          [] OTHER -> IF found = {} THEN [addr |-> 0, code |-> CmdLine]
                      ELSE [addr |-> CHOOSE a \in found : TRUE, code |-> Running]
  BY DEF Resolved
<1>4. Register = Resolved(ref).addr
  BY DEF Register
<1>. HIDE DEF found, ref
<1>5. found # {} => (CHOOSE a \in found : TRUE) \in Registers
  BY <1>2
<1>6. Resolved(ref).code = Running
  BY DEF ref
<1>7. ASSUME NEW c PROVE [addr |-> c, code |-> Running].addr = c /\ [addr |-> 0, code |-> CmdLine].code = CmdLine
                          /\ [addr |-> 0, code |-> Failure].code = Failure
  OBVIOUS
<1>8. CASE ref.name = ""
  <2>1. Resolved(ref) = [addr |-> ref.addr, code |-> Running] /\ ref.addr \in Registers
    BY <1>1, <1>3, <1>6, <1>7, <1>8
  <2>. QED BY <1>4, <1>7, <2>1
<1>9. CASE ref.name # ""
  <2>1. Resolved(ref) = [addr |-> CHOOSE a \in found : TRUE, code |-> Running] /\ found # {}
    BY <1>1, <1>3, <1>6, <1>7, <1>9
  <2>. QED BY <1>4, <1>5, <1>7, <2>1
<1>. QED BY <1>8, <1>9

\* What main does not complain about.
LEMMA NoComplaint ==
    ASSUME IsParsed(opts), Complaint = Running
    PROVE  Register \in Registers /\ (opts.cmd = "probe" => WordFits(opts.word, Register))
<1>1. CmdLine # Running /\ Failure # Running
  BY DEF CmdLine, Failure, Running
<1>2. Resolved(opts.register).code = Running
  BY <1>1 DEF Complaint
<1>3. opts.cmd = "probe" => WordFits(opts.word, Register)
  BY <1>1, <1>2 DEF Complaint
<1>. QED BY <1>2, <1>3, ResolvedIsRegister

\* A step of ec_probe, of whatever command, leaves bytes in the registers.
LEMMA RunKeepsMemory == ASSUME CommandsAreParsed, ProbedInv, MemoryInv, Run PROVE MemoryInv'
<1>. USE DEF MemoryInv
<1>1. ASSUME UNCHANGED opts PROVE Register' = Register
  <2>1. Resolved(opts.register)' = Resolved(opts.register)
    BY <1>1 DEF Resolved, Map_Loads
  <2>. QED BY <2>1 DEF Register
<1>2. CASE Main
  <2>1. UNCHANGED <<opts, mem>> /\ pc' \in {"done", "evaluate", "shell", "open"}
    BY <1>2 DEF Main, Exit
  <2>2. pc' = "open" => Complaint = Running /\ IsParsed(opts)
    BY <1>2 DEF Main, Exit, ProbedInv
  <2>. QED BY <1>1, <2>1, <2>2, NoComplaint DEF WordFits
<1>3. CASE Initialize_EC
  <2>1. UNCHANGED <<opts, mem>> /\ pc = "open" /\ IsParsed(opts)
    BY <1>3 DEF Initialize_EC, ProbedInv
  <2>2. /\ Command \in {"read", "write", "save", "scan", "loop"}
        /\ Command = "write" => opts.cmd = "write"
    BY <2>1 DEF Command, IsParsed, ProbedInv
  <2>3. pc' \in {"done", "read", "write", "save", "scan", "loop"} /\ (pc' = "write" => opts.cmd = "write")
    BY <1>3, <2>2 DEF Initialize_EC, Exit
  <2>4. pc' = "write" => value' \in Int
    <3>1. pc' = "write" => value' = opts.value /\ opts.value \in 0..Top(TRUE)
      BY <1>3, <2>1, <2>3 DEF Initialize_EC, IsParsed
    <3>. QED BY <3>1
  <2>. QED BY <1>1, <2>1, <2>3, <2>4 DEF WordFits
<1>4. CASE Read
  <2>1. UNCHANGED <<opts, mem>> /\ pc = "read" /\ IsParsed(opts) /\ pc' \in {"write", "done"}
    BY <1>4 DEF Read, ProbedInv, Exit
  <2>2. ASSUME pc' = "write" PROVE value' \in Int
    <3>. DEFINE p == 2^opts.bit
    <3>1. opts.cmd = "write_bit" /\ value' = WithBit(mem[Register])
      BY <1>4, <2>2 DEF Read, Exit
    <3>2. opts.bit \in 0..Bits /\ opts.bitValue \in Int
      BY <2>1, <3>1, EcProbeAssumption DEF IsParsed
    <3>3. p \in Nat \ {0}
      BY <3>2, PowersOfTwo
    <3>4. mem[Register] \in Int
      BY <2>1 DEF IsMemory, Byte
    <3>5. WithBit(mem[Register]) = mem[Register] + (opts.bitValue - ((mem[Register] \div p) % 2)) * p
      BY DEF WithBit
    <3>. HIDE DEF p
    <3>. QED BY <3>1, <3>2, <3>3, <3>4, <3>5
  <2>. QED BY <2>1, <2>2
<1>5. CASE Write \/ WriteOrDie
  <2>1. /\ WriteSucceeds(Register, opts.word, value) \/ WriteFails(Register, opts.word, value)
        /\ pc = "write" /\ pc' = "done"
    BY <1>5 DEF Write, WriteOrDie, Exit
  <2>. QED BY <2>1, WritesBytes
<1>6. CASE Save
  <2>1. /\ UNCHANGED <<opts, mem>> /\ pc = "save" /\ pc' = "probe" /\ IsParsed(opts) /\ opts.cmd = "probe"
        /\ saved' = Content(Register, opts.word)
    BY <1>6 DEF Save, ProbedInv
  <2>2. saved' \in Int
    BY <2>1, ContentIsNumber DEF IsParsed
  <2>. QED BY <2>1, <2>2
<1>7. CASE ProbeWrites \/ ProbeWriteFails
  <2>1. /\ UNCHANGED saved /\ pc = "probe" /\ pc' \in {"reads", "restore"}
        /\ UNCHANGED mem \/ WriteSucceeds(Register, opts.word, value) \/ WriteFails(Register, opts.word, value)
    BY <1>7 DEF ProbeWrites, ProbeWriteFails, process
  <2>2. value \in Int
    <3>1. IsRange(ranges[at]) /\ Between(ranges[at], value)
      BY <2>1, RangesAreRanges DEF ProbedInv
    <3>. QED BY <3>1 DEF IsRange, Between
  <2>3. IsMemory(mem')
    BY <2>1, <2>2, WritesBytes
  <2>. QED BY <2>1, <2>3
<1>8. CASE ProbeReads \/ ProbeReadFails
  BY <1>8 DEF ProbeReads, ProbeReadFails
<1>9. CASE Restore \/ RestoreFails
  <2>1. /\ pc = "restore" /\ pc' = "done"
        /\ UNCHANGED mem \/ WriteSucceeds(Register, opts.word, saved) \/ WriteFails(Register, opts.word, saved)
    BY <1>9 DEF Restore, RestoreFails, Exit
  <2>2. IsMemory(mem')
    BY <2>1, WritesBytes
  <2>. QED BY <2>1, <2>2
<1>10. CASE OpenFails \/ ReadOrDie \/ Scan \/ Loop \/ MonitorFails \/ WriteMonitorReport \/ Evaluate \/ ShellEnds \/ ShellOpens
  <2>1. UNCHANGED mem /\ pc' \in {"done", "loop", "scan", "report", "shell"}
    BY <1>10 DEF OpenFails, ReadOrDie, Scan, Loop, MonitorFails, WriteMonitorReport, Evaluate, ShellEnds,
       ShellOpens, Exit
  <2>. QED BY <2>1
<1>11. CASE ShellCommand
  <2>1. pc' = "shell"
    BY <1>11 DEF ShellCommand
  <2>2. \/ UNCHANGED mem
        \/ LineFits(Line) /\ \/ WriteSucceeds(Line.register, Line.word, Line.value)
                             \/ WriteFails(Line.register, Line.word, Line.value)
    BY <1>11 DEF ShellCommand
  <2>3. LineFits(Line) => Line.value \in Int
    BY DEF LineFits
  <2>4. IsMemory(mem')
    BY <2>2, <2>3, WritesBytes
  <2>. QED BY <2>1, <2>4
<1>. QED
  BY <1>2, <1>3, <1>4, <1>5, <1>6, <1>7, <1>8, <1>9, <1>10, <1>11 DEF Run

\* The rows of the log are whole but for the one that is being read, and the report was
\* made of such a log.
Scanned ==
    /\ at \in Registers
    /\ IF at = 0 THEN log \in Seq(Row)
       ELSE \E done \in Seq(Row), row \in [1..at -> Byte] : log = Append(done, row)

LogInv ==
    /\ pc \in {"main", "open"} => log = <<>>
    /\ pc \in {"loop", "report"} => log \in Seq(Row)
    /\ pc = "loop" => at = 0
    /\ pc = "scan" => Scanned

ReportInv == report.valid => kept.log \in Seq(Row) /\ IsReportOf(report, kept.log, kept.opts)

\* The row is one byte longer, and with the last one it is whole.
LEMMA ScanAddsByte ==
    ASSUME IsMemory(mem), Scanned, Scan PROVE IF at = MaxRegister THEN log' \in Seq(Row) ELSE Scanned'
<1>. DEFINE row == IF at = 0 THEN <<mem[0]>> ELSE Append(Last(log), mem[at])
            before == IF at = 0 THEN log ELSE Front(log)
<1>1. log' = Append(before, row) /\ at' = IF at = MaxRegister THEN 0 ELSE at + 1
  BY Zenon DEF Scan
<1>2. at \in 0..MaxRegister /\ MaxRegister \in Nat \ {0} /\ mem[at] \in Byte
  BY EcProbeAssumption DEF Scanned, Registers, IsMemory
<1>3. before \in Seq(Row) /\ row \in [1..(at + 1) -> Byte]
  <2>1. CASE at = 0
    <3>1. row = <<mem[0]>> /\ before = log
      BY <2>1
    <3>2. <<mem[0]>> \in [1..1 -> Byte]
      BY <1>2, <2>1
    <3>. QED BY <2>1, <3>1, <3>2 DEF Scanned
  <2>2. CASE at # 0
    <3>1. PICK done \in Seq(Row), old \in [1..at -> Byte] : log = Append(done, old)
      BY <2>2 DEF Scanned
    <3>2. Last(log) = old /\ Front(log) = done
      <4>1. ASSUME NEW S, NEW s \in Seq(S), NEW e
            PROVE  Last(Append(s, e)) = e /\ Front(Append(s, e)) = s
        BY DEF Last, Front
      <4>. QED BY <3>1, <4>1
    <3>3. Append(old, mem[at]) \in [1..(at + 1) -> Byte]
      <4>1. ASSUME NEW S, NEW n \in Nat, NEW s \in [1..n -> S], NEW e \in S
            PROVE  Append(s, e) \in [1..(n + 1) -> S]
        <5>1. s \in Seq(S) /\ Len(s) = n
          OBVIOUS
        <5>2. Append(s, e) \in Seq(S) /\ Len(Append(s, e)) = n + 1
          BY <5>1
        <5>3. ASSUME NEW r \in Seq(S) PROVE r \in [1..Len(r) -> S]
          OBVIOUS
        <5>. QED BY <5>2, <5>3
      <4>. QED BY <1>2, <4>1
    <3>. QED BY <2>2, <3>1, <3>2, <3>3
  <2>. QED BY <2>1, <2>2
<1>. HIDE DEF row, before
<1>4. CASE at = MaxRegister
  <2>1. row \in Row
    BY <1>3, <1>4 DEF Row
  <2>. QED BY <1>1, <1>3, <1>4, <2>1
<1>5. CASE at # MaxRegister
  <2>1. at' = at + 1 /\ at' \in Registers /\ at' # 0
    BY <1>1, <1>2, <1>5 DEF Registers
  <2>2. row \in [1..at' -> Byte]
    BY <1>3, <2>1
  <2>. QED BY <1>1, <1>3, <1>5, <2>1, <2>2 DEF Scanned
<1>. QED BY <1>4, <1>5

\* With the first register of a round the rows there are, all of them, are whole.
LEMMA ScanBegins == ASSUME at' = 0, log' \in Seq(Row) PROVE Scanned'
<1>1. 0 \in Registers
  BY EcProbeAssumption DEF Registers
<1>. QED BY <1>1 DEF Scanned

\* A step of ec_probe: monitor and dump read one byte of a row after the other.
LEMMA RunKeepsLog == ASSUME ProbedInv, MemoryInv, LogInv, Run PROVE LogInv'
<1>. USE DEF LogInv
<1>1. CASE Main
  <2>1. UNCHANGED log /\ pc = "main" /\ pc' \in {"done", "evaluate", "shell", "open"}
    BY <1>1 DEF Main, Exit
  <2>. QED BY <2>1
<1>2. CASE Initialize_EC
  <2>1. UNCHANGED log /\ pc = "open" /\ pc' \in {"done", Command} /\ (pc' = Command => at' = 0 \/ pc' = "done")
    BY <1>2 DEF Initialize_EC, Exit
  <2>2. Command \in {"read", "write", "save", "scan", "loop"}
    BY <1>2 DEF Command, IsParsed, ProbedInv, Initialize_EC
  <2>3. log' \in Seq(Row)
    BY <2>1
  <2>. QED BY <2>1, <2>2, <2>3, ScanBegins
<1>3. CASE Scan
  <2>1. pc = "scan" /\ Scanned /\ IsMemory(mem)
    BY <1>3 DEF Scan, MemoryInv
  <2>2. IF at = MaxRegister THEN log' \in Seq(Row) ELSE Scanned'
    BY <1>3, <2>1, ScanAddsByte
  <2>3. at \in 0..MaxRegister
    BY <2>1 DEF Scanned, Registers
  <2>4. CASE at < MaxRegister
    <3>1. pc' = "scan" /\ at # MaxRegister
      BY <1>3, <2>1, <2>3, <2>4 DEF Scan
    <3>2. Scanned'
      BY <2>2, <3>1
    <3>. QED BY <3>1, <3>2
  <2>5. CASE at = MaxRegister
    <3>1. pc' \in {"done", "loop"} /\ at' = 0
      BY <1>3, <2>3, <2>5 DEF Scan, Exit
    <3>2. log' \in Seq(Row)
      BY <2>2, <2>5
    <3>. QED BY <3>1, <3>2
  <2>6. at < MaxRegister \/ at = MaxRegister
    BY <2>3, EcProbeAssumption
  <2>. QED BY <2>4, <2>5, <2>6
<1>4. CASE Loop
  <2>1. UNCHANGED <<log, at>> /\ pc = "loop" /\ pc' \in {"scan", "report", "done"}
    BY <1>4 DEF Loop, Exit
  <2>2. log' \in Seq(Row) /\ at' = 0
    BY <2>1
  <2>. QED BY <2>1, <2>2, ScanBegins
<1>5. CASE \/ OpenFails \/ Read \/ Write \/ WriteOrDie \/ ReadOrDie \/ Save \/ ProbeWrites \/ ProbeWriteFails
           \/ ProbeReads \/ ProbeReadFails \/ Restore \/ RestoreFails \/ MonitorFails \/ WriteMonitorReport
           \/ Evaluate \/ ShellEnds
  <2>1. pc' \in {"done", "write", "probe", "reads", "restore"}
    BY <1>5 DEF OpenFails, Read, Write, WriteOrDie, ReadOrDie, Save, ProbeWrites, ProbeWriteFails, ProbeReads,
       ProbeReadFails, Restore, RestoreFails, MonitorFails, WriteMonitorReport, Evaluate, ShellEnds, Exit
  <2>. QED BY <2>1
<1>6. CASE ShellOpens \/ ShellCommand
  <2>1. pc' \in {"shell", "done"}
    BY <1>6 DEF ShellOpens, ShellCommand, Exit
  <2>. QED BY <2>1
<1>. QED BY <1>1, <1>2, <1>3, <1>4, <1>5, <1>6 DEF Run

\* Only the report of a whole log is written.
LEMMA RunKeepsReport == ASSUME LogInv, ReportInv, Run PROVE ReportInv'
<1>1. CASE WriteMonitorReport
  <2>1. log \in Seq(Row) /\ kept' = [log |-> log, opts |-> opts]
    BY <1>1 DEF WriteMonitorReport, LogInv
  <2>2. /\ report'.temps = IF opts.cpu \/ opts.gpu THEN Len(log) ELSE 0
        /\ report'.rows = [r \in Changed(log) |-> PrintedRow(log, opts, r)]
    <3>. DEFINE printed_ == [r \in Changed(log) |-> PrintedRow(log, opts, r)]
                temps_ == IF opts.cpu \/ opts.gpu THEN Len(log) ELSE 0
    <3>1. report' = [valid |-> TRUE, temps |-> temps_, rows |-> printed_]
      BY <1>1, Zenon DEF WriteMonitorReport, Changed, PrintedRow
    <3>. HIDE DEF printed_, temps_
    <3>2. report'.temps = temps_ /\ report'.rows = printed_
      BY <3>1
    <3>. QED BY <3>2 DEF printed_, temps_
  <2>3. IsReportOf(report', log, opts)
    BY <2>2 DEF IsReportOf
  <2>4. kept'.log = log /\ kept'.opts = opts
    BY <2>1
  <2>. QED BY <2>1, <2>3, <2>4 DEF ReportInv
<1>2. CASE ~ WriteMonitorReport
  <2>1. UNCHANGED <<report, kept>>
    BY <1>2 DEF Run, Main, Initialize_EC, OpenFails, Read, Write, WriteOrDie, ReadOrDie, Save, ProbeWrites,
       ProbeWriteFails, ProbeReads, ProbeReadFails, Restore, RestoreFails, Scan, Loop, MonitorFails, Evaluate,
       ShellEnds, ShellOpens, ShellCommand, history
  <2>. QED BY <2>1 DEF ReportInv
<1>. QED BY <1>1, <1>2

\* Where evaluate is, and that what it has read is right.
EvaluateInv ==
    /\ opts.cmd = "evaluate" => pc \in {"main", "evaluate", "done", "killed"}
    /\ EvaluatesTheReadings

ReadingsInv == ProbedInv /\ MemoryInv /\ LogInv /\ ReportInv /\ EvaluateInv

\* Of a command line that is complete evaluate complains about nothing: it names no register.
LEMMA EvaluateIsNotComplained ==
    ASSUME IsParsed(opts), opts.cmd = "evaluate", opts.complete PROVE Complaint = Running
<1>1. opts.register.name = "" /\ opts.register.addr \in Registers
  <2>1. opts.register.name = "" /\ opts.register.addr = 0
    BY DEF IsParsed
  <2>2. 0 \in Registers
    BY EcProbeAssumption DEF Registers
  <2>. QED BY <2>1, <2>2
<1>2. Resolved(opts.register).code = Running
  BY <1>1 DEF Resolved
<1>. QED BY <1>2 DEF Complaint

\* A step of ec_probe: evaluate reads what monitor has left, and prints it.
LEMMA RunKeepsEvaluate == ASSUME ProbedInv, LogInv, ReportInv, EvaluateInv, Run PROVE EvaluateInv'
<1>1. UNCHANGED opts /\ pc \notin {"done", "killed"}
  BY DEF Run, Main, Initialize_EC, OpenFails, Read, Write, WriteOrDie, ReadOrDie, Save, ProbeWrites,
     ProbeWriteFails, ProbeReads, ProbeReadFails, Restore, RestoreFails, Scan, Loop, MonitorFails,
     WriteMonitorReport, Evaluate, ShellEnds, ShellOpens, ShellCommand, process
<1>2. CASE opts.cmd # "evaluate"
  BY <1>1, <1>2 DEF EvaluateInv, EvaluatesTheReadings
<1>3. CASE opts.cmd = "evaluate" /\ pc = "main"
  <2>1. Main
    BY <1>3 DEF Run, Main, Initialize_EC, OpenFails, Read, Write, WriteOrDie, ReadOrDie, Save, ProbeWrites,
       ProbeWriteFails, ProbeReads, ProbeReadFails, Restore, RestoreFails, Scan, Loop, MonitorFails,
       WriteMonitorReport, Evaluate, ShellEnds, ShellOpens, ShellCommand
  <2>2. IsParsed(opts)
    BY <1>3 DEF ProbedInv
  <2>3. pc' \in {"evaluate", "done"} /\ (pc' = "done" => Complaint # Running)
    BY <1>3, <2>1 DEF Main, Exit
  <2>4. opts.complete => pc' = "evaluate"
    BY <1>3, <2>2, <2>3, EvaluateIsNotComplained
  <2>. QED BY <1>1, <2>3, <2>4 DEF EvaluateInv, EvaluatesTheReadings
<1>4. CASE opts.cmd = "evaluate" /\ pc = "evaluate"
  <2>1. Evaluate
    BY <1>4 DEF Run, Main, Initialize_EC, OpenFails, Read, Write, WriteOrDie, ReadOrDie, Save, ProbeWrites,
       ProbeWriteFails, ProbeReads, ProbeReadFails, Restore, RestoreFails, Scan, Loop, MonitorFails,
       WriteMonitorReport, Evaluate, ShellEnds, ShellOpens, ShellCommand
  <2>2. UNCHANGED <<report, kept>> /\ pc' = "done"
    BY <2>1 DEF Evaluate, Exit, history
  <2>3. ASSUME report.valid, opts.decimal = kept.opts.decimal
        PROVE  Evaluated(kept.log, kept.opts, result', code')
    <3>1. kept.log \in Seq(Row) /\ IsReportOf(report, kept.log, kept.opts)
      BY <2>3 DEF ReportInv
    <3>. QED BY <2>1, <2>3, <3>1, EvaluatesReport
  <2>4. EvaluatesTheReadings' <=>
          (/\ opts'.cmd = "evaluate" /\ opts'.complete /\ pc' = "done" /\ report'.valid
           /\ opts'.decimal = kept'.opts.decimal
           => Evaluated(kept'.log, kept'.opts, result', code'))
    BY Zenon DEF EvaluatesTheReadings, Evaluated, Changed
  <2>5. Evaluated(kept'.log, kept'.opts, result', code') = Evaluated(kept.log, kept.opts, result', code')
    BY <2>2
  <2>. QED BY <1>1, <1>4, <2>2, <2>3, <2>4, <2>5 DEF EvaluateInv
<1>. QED BY <1>1, <1>2, <1>3, <1>4 DEF EvaluateInv

\* A step that leaves alone what the invariant is about, but for the registers and a kill.
LEMMA AsideKeepsReadings ==
    ASSUME ReadingsInv, UNCHANGED <<process, report, todo, wrote, pos, kept>>, pc' \in {pc, "killed"}, IsMemory(mem')
    PROVE  ReadingsInv'
<1>1. UNCHANGED <<opts, todo, at, value, code, saved, log, result, report, kept>>
  BY DEF process
<1>2. ProbedInv'
  BY <1>1, AsideKeepsProbed DEF ReadingsInv
<1>3. MemoryInv'
  <2>1. Resolved(opts.register)' = Resolved(opts.register)
    BY <1>1 DEF Resolved, Map_Loads
  <2>2. Register' = Register
    BY <2>1 DEF Register
  <2>. QED BY <1>1, <2>2 DEF ReadingsInv, MemoryInv, WordFits
<1>4. LogInv'
  BY <1>1 DEF ReadingsInv, LogInv, Scanned
<1>5. ReportInv'
  BY <1>1 DEF ReadingsInv, ReportInv
<1>6. EvaluateInv'
  <2>1. (opts.cmd = "evaluate" => pc \in {"main", "evaluate", "done", "killed"})'
    BY <1>1 DEF ReadingsInv, EvaluateInv
  <2>2. EvaluatesTheReadings'
    BY <1>1 DEF ReadingsInv, EvaluateInv, EvaluatesTheReadings
  <2>. QED BY <2>1, <2>2 DEF EvaluateInv
<1>. QED BY <1>2, <1>3, <1>4, <1>5, <1>6 DEF ReadingsInv

\* A test reads the registers only.
LEMMA OthersKeepRegisters ==
    ASSUME ToolsNext, ~ (Run \/ Signal \/ Firmware \/ Start) PROVE UNCHANGED mem
<1>1. CASE Testing
  <2>1. Test!Begin \/ Test!BeginNothing \/ Test!Evaluate
    BY <1>1 DEF Testing
  <2>2. \E action \in {"run", "none", "evaluate"} : Test!Opens(action)
    BY <2>1 DEF Test!Begin, Test!BeginNothing, Test!Evaluate
  <2>. QED BY <2>2 DEF Test!Opens
<1>2. CASE Test!Program
  <2>1. Test!Setup \/ Test!SampleSensors \/ Test!SensorFails \/ Test!CacheByte \/ Test!ReadFan
        \/ Test!ReadFanFails \/ Test!Decide => UNCHANGED mem
    BY DEF Test!Setup, Test!SampleSensors, Test!SensorFails, Test!CacheByte, Test!ReadFan,
       Test!ReadFanFails, Test!Decide
  <2>2. Test!Stress_Start \/ Test!Stress_End \/ Test!Stress_Ended \/ Test!OpenReport
        \/ Test!WriteReport => UNCHANGED mem
    BY DEF Test!Stress_Start, Test!Stress_End, Test!Stress_Ended, Test!OpenReport, Test!WriteReport
  <2>. QED BY <1>2, <2>1, <2>2 DEF Test!Program
<1>3. CASE Test!Child \/ Test!Faults
  BY <1>3 DEF Test!Child, Test!Faults, Test!ChildArms, Test!ChildExecs, Test!ChildEnds,
     Test!SetupFails, Test!Stress_StartFails, Test!ReportFails, Test!ChildDies, Test!Kill
<1>4. CASE Rating \/ SettingUp
  BY <1>4 DEF Rating, SettingUp
<1>. QED BY <1>1, <1>2, <1>3, <1>4 DEF ToolsNext

\* A step of any of the programs, of the firmware, or a kill.
LEMMA StepKeepsReadings ==
    ASSUME CommandsAreParsed, ReadingsInv, [ToolsNext]_allVars PROVE ReadingsInv'
<1>1. ProbedInv /\ MemoryInv /\ LogInv /\ ReportInv /\ EvaluateInv /\ IsMemory(mem)
  BY DEF ReadingsInv, MemoryInv
<1>2. CASE Run
  <2>1. ProbedInv' /\ MemoryInv' /\ LogInv' /\ ReportInv' /\ EvaluateInv'
    BY <1>1, <1>2, RunKeepsProbed, RunKeepsMemory, RunKeepsLog, RunKeepsReport, RunKeepsEvaluate
  <2>. QED BY <2>1 DEF ReadingsInv
<1>3. CASE Signal
  <2>1. UNCHANGED <<process, mem, report, history>> /\ pc' \in {pc, "killed"}
    BY <1>3 DEF Signal
  <2>. QED BY <1>1, <2>1, AsideKeepsReadings DEF history
<1>4. CASE Firmware
  <2>1. UNCHANGED <<process, pc, report, history>>
    BY <1>4 DEF Firmware
  <2>2. PICK w \in FirmwareWrites : mem' = [mem EXCEPT ![w[1]] = w[2]]
    BY <1>4 DEF Firmware
  <2>3. IsMemory(mem')
    <3>1. w[2] \in Byte
      BY EcProbeAssumption
    <3>. QED BY <1>1, <2>2, <3>1 DEF IsMemory
  <2>. QED BY <2>1, <2>3, AsideKeepsReadings DEF history
<1>5. CASE Start
  <2>1. pc' = "main" /\ log' = <<>> /\ UNCHANGED <<mem, report, kept>>
    BY <1>5 DEF Start
  <2>2. ProbedInv'
    BY <1>1, <1>5, StartKeepsProbed
  <2>3. MemoryInv' /\ LogInv' /\ ReportInv' /\ EvaluateInv'
    BY <1>1, <2>1 DEF MemoryInv, LogInv, ReportInv, EvaluateInv, EvaluatesTheReadings
  <2>. QED BY <2>2, <2>3 DEF ReadingsInv
<1>6. CASE ~ (Run \/ Signal \/ Firmware \/ Start) /\ ToolsNext
  <2>1. UNCHANGED <<process, pc, report, history>>
    BY <1>6, OthersKeepProbe DEF probeVars
  <2>2. UNCHANGED mem
    BY <1>6, OthersKeepRegisters
  <2>. QED BY <1>1, <2>1, <2>2, AsideKeepsReadings DEF history
<1>7. CASE UNCHANGED allVars
  BY <1>1, <1>7, AsideKeepsReadings DEF allVars, probeVars, history
<1>. QED BY <1>2, <1>3, <1>4, <1>5, <1>6, <1>7

\* Whatever the firmware and the other programs do to the registers while monitor reads
\* them, whichever readings it leaves out, and in whichever base: evaluate takes its
\* report only if every reading of every register it names is there, and has then the
\* values that were read, in their order.
THEOREM EvaluatesReadings == ASSUME CommandsAreParsed PROVE ToolsSpec => []EvaluatesTheReadings
<1>1. ASSUME ToolsInit PROVE ReadingsInv
  <2>1. ProbedInv
    BY <1>1, BeginsProbed
  <2>2. mem \in Contents /\ pc = "done" /\ report = NoReport /\ opts = [cmd |-> "none"]
    BY <1>1 DEF ToolsInit, Fresh
  <2>3. ~ report.valid
    BY <2>2 DEF NoReport
  <2>4. IsMemory(mem)
    BY <2>2, EcProbeAssumption DEF IsMemory
  <2>. QED BY <2>1, <2>2, <2>3, <2>4
       DEF ReadingsInv, MemoryInv, LogInv, ReportInv, EvaluateInv, EvaluatesTheReadings
<1>2. ReadingsInv /\ [ToolsNext]_allVars => ReadingsInv'
  BY StepKeepsReadings
<1>3. ReadingsInv => EvaluatesTheReadings
  BY DEF ReadingsInv, EvaluateInv
<1>. QED BY <1>1, <1>2, <1>3, PTL DEF ToolsSpec
================================================================================
