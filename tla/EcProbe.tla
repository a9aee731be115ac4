-------------------------------- MODULE EcProbe --------------------------------
(***************************************************************************)
(* ec_probe, src/ec_probe.c and src/probe/: one command line after the     *)
(* other, on registers that the firmware changes too.  A call of the       *)
(* driver of the embedded controller is one step and does what             *)
(* RegisterFile.tla promises; any of them may fail.                        *)
(*                                                                         *)
(* Bytes have Bits bits, words twice as many.                              *)
(***************************************************************************)
EXTENDS Range, FiniteSetsExt

CONSTANTS
    MaxRegister,    \* 255
    Bits,           \* of a byte, 8
    LogSize,        \* the rows of Registers_Log, 32768
    Sessions,       \* bound: the command lines of the program, one run after the other
    Contents,       \* what the registers may hold at first
    FirmwareWrites, \* bound: the registers the firmware changes, and to what
    Base            \* 16 and 10, for bytes of at most three digits

Registers == 0..MaxRegister
Byte == 0..(2^Bits - 1)
Top(word) == 2^(IF word THEN 2 * Bits ELSE Bits) - 1
HighBit(word) == 2^(IF word THEN 2 * Bits - 1 ELSE Bits - 1)

Success == 0
Failure == 1
CmdLine == 2
Running == -1

ASSUME EcProbeAssumption ==
    /\ MaxRegister \in Nat \ {0} /\ Bits \in Nat \ {0} /\ LogSize \in Nat \ {0}
    /\ Contents \subseteq [Registers -> Byte] /\ Top(TRUE) <= MaxU64
    /\ FirmwareWrites \subseteq Registers \X Byte
    /\ \A b \in {Base.hex, Base.decimal} : b \in Nat \ {0} /\ \A v \in Byte : v < b * b * b

VARIABLES
    opts,       \* options, or what one is needed of them: see MCTools.tla
    pc,         \* where main, or the command, is
    code,       \* the exit status, or Running
    opened,     \* Initialize_EC has found a driver that works
    quit,       \* set by Handle_Signal
    mem,        \* the registers
    at,         \* the register, the read register, the range or the line it is at
    value,      \* what is to be written
    saved,      \* the original value
    error,      \* ctxt.error
    elapsed,    \* in intervals
    log,        \* Registers_Log, and of the temperatures how many
    report,     \* the file
    result,     \* what evaluate has read from it
    todo,       \* the command lines still to come
    wrote,      \* history: the last write this run has tried, and whether it failed
    pos,        \* history: how many values of the ranges, all round, were probed
    kept        \* history: the log and the options the report was made of

process == <<opts, code, opened, at, value, saved, error, elapsed, log, result>>
history == <<todo, wrote, pos, kept>>
vars == <<process, pc, quit, mem, report, history>>

NoWrite == [value |-> Absent, failed |-> FALSE]
NoReport == [rows |-> <<>>, temps |-> 0, valid |-> FALSE]

\* Before the first command line.
Fresh ==
    /\ opts = [cmd |-> "none"]
    /\ pc = "done" /\ code = Running /\ opened = FALSE /\ quit = FALSE
    /\ mem \in Contents
    /\ at = 0 /\ value = 0 /\ saved = 0 /\ error = FALSE /\ elapsed = 0
    /\ log = <<>> /\ report = NoReport /\ result = <<>>
    /\ wrote = NoWrite /\ pos = 0 /\ kept = [log |-> <<>>, opts |-> opts]

Init == todo \in Sessions /\ Fresh

---------------------------------------------------------------------------
(* The command line *)

\* Map_Load: a line that is not a method is a register with a name of its own.
Map_Loads(map) ==
    /\ \A i \in DOMAIN map : map[i].kind # "bad"
    /\ \A i, j \in DOMAIN map : i # j /\ map[i].kind = "register" /\ map[j].kind = "register"
                                   => map[i].name # map[j].name

Map_Lookup(map, name) ==
    {map[i].addr : i \in {i \in DOMAIN map : map[i].kind = "register" /\ map[i].name = name}}

\* RegisterResolve: the register a reference stands for, or the exit status.
Resolved(ref) ==
    CASE ref.name = "" ->
            IF ref.addr \in Registers THEN [addr |-> ref.addr, code |-> Running]
                                      ELSE [addr |-> 0, code |-> CmdLine]
      [] ref.name # "" /\ opts.map = <<>> -> [addr |-> 0, code |-> CmdLine]
      [] ref.name # "" /\ opts.map # <<>> /\ ~Map_Loads(opts.map) ->
            [addr |-> 0, code |-> Failure]
      [] OTHER -> IF Map_Lookup(opts.map, ref.name) = {}
                  THEN [addr |-> 0, code |-> CmdLine]
                  ELSE [addr |-> CHOOSE a \in Map_Lookup(opts.map, ref.name) : TRUE,
                        code |-> Running]

Register == Resolved(opts.register).addr
WordFits(word, addr) == word => addr < MaxRegister

\* The first thing about the command line that ends the program, or Running;
\* the read registers are only looked at by probe.
Complaint ==
    LET OfRead(r) == IF Resolved(r.register).code # Running THEN Resolved(r.register).code
                     ELSE IF WordFits(r.word, Resolved(r.register).addr) THEN Running
                     ELSE CmdLine
        bad == {i \in DOMAIN opts.reads : OfRead(opts.reads[i]) # Running}
    IN IF ~opts.complete THEN CmdLine
       ELSE IF Resolved(opts.register).code # Running THEN Resolved(opts.register).code
       ELSE CASE opts.cmd = "probe" -> IF ~WordFits(opts.word, Register) THEN CmdLine
                                       ELSE IF bad = {} THEN Running
                                       ELSE OfRead(opts.reads[Min(bad)])
              [] opts.cmd = "load" -> Failure
              [] OTHER -> Running

\* What is wrong with the values, after the controller was opened.
TooLarge ==
    CASE opts.cmd \in {"read", "write"} /\ ~WordFits(opts.word, Register) -> Failure
      [] opts.cmd = "write" /\ ~opts.word /\ opts.value > Top(FALSE) -> CmdLine
      [] OTHER -> Running

\* Probe_ParseRanges: all of them, or none.
RangeOf(text) ==
    IF text.preset # "" THEN Preset(text.preset, Top(opts.word), HighBit(opts.word))
                        ELSE Range_Parse(text)
ranges == [i \in DOMAIN opts.values |-> RangeOf(opts.values[i])]
RangesFit == ranges # <<>> /\ \A i \in DOMAIN ranges :
                ranges[i] # NoRange /\ Range_IsInRange(ranges[i], Top(opts.word))

---------------------------------------------------------------------------
(* The embedded controller *)

Content(addr, word) == mem[addr] + IF word THEN 2^Bits * mem[addr + 1] ELSE 0

BytesOf(addr, word) == {addr} \cup IF word THEN {addr + 1} ELSE {}
ByteOf(addr, v, r) == (IF r = addr THEN v ELSE v \div 2^Bits) % 2^Bits

Put(addr, v, some) ==
    mem' = [r \in Registers |-> IF r \in some THEN ByteOf(addr, v, r) ELSE mem[r]]

WriteSucceeds(addr, word, v) ==
    /\ Put(addr, v, BytesOf(addr, word))
    /\ wrote' = [value |-> v, failed |-> FALSE]

WriteFails(addr, word, v) ==
    /\ \E some \in SUBSET BytesOf(addr, word) : Put(addr, v, some)
    /\ wrote' = [value |-> v, failed |-> TRUE]

---------------------------------------------------------------------------
(* Beginning and end *)

Exit(c) == pc' = "done" /\ code' = c

Start ==
    /\ pc \in {"done", "killed"} /\ todo # <<>>
    /\ opts' = Head(todo) /\ todo' = Tail(todo)
    /\ pc' = "main" /\ code' = Running
    /\ opened' = FALSE /\ quit' = FALSE /\ at' = 0 /\ value' = 0 /\ saved' = 0
    /\ error' = FALSE /\ elapsed' = 0 /\ log' = <<>> /\ result' = <<>>
    /\ wrote' = NoWrite /\ pos' = 0
    /\ UNCHANGED <<mem, report, kept>>

Main ==
    /\ pc = "main"
    /\ IF Complaint # Running THEN Exit(Complaint)
       ELSE IF opts.cmd = "help" THEN Exit(Success)
       ELSE pc' = (CASE opts.cmd = "evaluate" -> "evaluate"
                     [] opts.cmd = "shell"    -> "shell"
                     [] OTHER                 -> "open") /\ UNCHANGED code
    /\ UNCHANGED <<opts, opened, quit, mem, at, value, saved, error, elapsed, log, report,
                   result, history>>

\* Where a command goes once the controller is open.
Command ==
    CASE opts.cmd \in {"read", "read_bit", "write_bit"} -> "read"
      [] opts.cmd = "write" -> "write"
      [] opts.cmd = "probe" -> "save"
      [] opts.cmd \in {"dump", "watch"} -> "scan"
      [] opts.cmd = "monitor" -> "loop"

Initialize_EC ==
    /\ pc = "open"
    /\ opened' = TRUE
    /\ value' = IF opts.cmd = "write" THEN opts.value ELSE 0
    /\ IF TooLarge # Running THEN Exit(TooLarge) /\ UNCHANGED at
       ELSE IF opts.cmd = "probe" /\ ~RangesFit THEN Exit(Failure) /\ UNCHANGED at
       ELSE pc' = Command /\ at' = 0 /\ UNCHANGED code
    /\ UNCHANGED <<opts, quit, mem, saved, error, elapsed, log, report, result, history>>

\* check_root, or no driver works.
OpenFails ==
    /\ pc = "open"
    /\ Exit(Failure)
    /\ UNCHANGED <<opts, opened, quit, mem, at, value, saved, error, elapsed, log, report,
                   result, history>>

---------------------------------------------------------------------------
(* read, read_bit, write, write_bit *)

WithBit(v) == LET bit == (v \div 2^opts.bit) % 2
              IN v + (opts.bitValue - bit) * 2^opts.bit

Read ==
    /\ pc = "read"
    /\ value' = IF opts.cmd = "write_bit" THEN WithBit(mem[Register])
                                          ELSE Content(Register, opts.word)
    /\ IF opts.cmd = "write_bit" /\ ~opts.dry THEN pc' = "write" /\ UNCHANGED code
                                              ELSE Exit(Success)
    /\ UNCHANGED <<opts, opened, quit, mem, at, saved, error, elapsed, log, report, result,
                   history>>

Write ==
    /\ pc = "write"
    /\ WriteSucceeds(Register, opts.word, value)
    /\ Exit(Success)
    /\ UNCHANGED <<opts, opened, quit, at, value, saved, error, elapsed, log, report, result,
                   todo, pos, kept>>

\* A read or a write has failed, and the program dies of it.
WriteOrDie ==
    /\ pc = "write"
    /\ WriteFails(Register, opts.word, value)
    /\ Exit(Failure)
    /\ UNCHANGED <<opts, opened, quit, at, value, saved, error, elapsed, log, report, result,
                   todo, pos, kept>>

ReadOrDie ==
    /\ pc \in {"read", "save", "scan"}
    /\ Exit(Failure)
    /\ UNCHANGED <<opts, opened, quit, mem, at, value, saved, error, elapsed, log, report,
                   result, history>>

---------------------------------------------------------------------------
(* probe *)

Save ==
    /\ pc = "save"
    /\ saved' = Content(Register, opts.word)
    /\ at' = 1 /\ value' = ranges[1].start
    /\ pc' = "probe"
    /\ UNCHANGED <<opts, code, opened, quit, mem, error, elapsed, log, report, result, history>>

ProbeWrites ==
    /\ pc = "probe"
    /\ IF opts.dry THEN UNCHANGED <<mem, wrote>>
                   ELSE WriteSucceeds(Register, opts.word, value)
    /\ pc' = "reads"
    /\ UNCHANGED <<process, quit, report, todo, pos, kept>>

\* Mutant: e_die(), as the other commands do, and nobody restores.
ProbeWriteDies ==
    /\ pc = "probe" /\ ~opts.dry
    /\ WriteFails(Register, opts.word, value)
    /\ Exit(Failure)
    /\ UNCHANGED <<opts, opened, quit, at, value, saved, error, elapsed, log, report, result,
                   todo, pos, kept>>

ProbeWriteFails ==
    /\ pc = "probe" /\ ~opts.dry
    /\ WriteFails(Register, opts.word, value)
    /\ error' = TRUE /\ pc' = "restore"
    /\ UNCHANGED <<opts, code, opened, quit, at, value, saved, elapsed, log, report, result,
                   todo, pos, kept>>

ProbeReadFails ==
    /\ pc = "reads" /\ opts.reads # <<>>
    /\ error' = TRUE /\ pc' = "restore"
    /\ UNCHANGED <<opts, code, opened, quit, mem, at, value, saved, elapsed, log, report,
                   result, history>>

\* The rest of Probe_LoopBody, and the next value of Probe_Loop.
\* Mutant: the flag of the handler is not looked at.
EnoughTime == opts.timespan # Absent /\ elapsed >= opts.timespan

Enough == quit \/ (opts.timespan # Absent /\ elapsed >= opts.timespan)

After(r) == IF r = Len(ranges) THEN 1 ELSE r + 1

ProbeReads ==
    /\ pc = "reads"
    /\ IF Enough THEN pc' = "restore" /\ UNCHANGED <<at, value, elapsed, pos>>
       ELSE LET next == Range_Iterate(ranges[at], value)
                over == next = Absent
            IN /\ pc' = "probe"
               /\ at' = IF over THEN After(at) ELSE at
               /\ value' = IF over THEN ranges[After(at)].start ELSE next
               /\ elapsed' = IF opts.timespan = Absent THEN elapsed ELSE elapsed + 1
               /\ pos' = (pos + 1) % Len(FlattenSeq([i \in DOMAIN ranges |-> Values(ranges[i])]))
    /\ UNCHANGED <<opts, code, opened, quit, mem, saved, error, log, report, result, todo, wrote, kept>>

Restore ==
    /\ pc = "restore"
    /\ IF opts.dry THEN UNCHANGED <<mem, wrote>>
                   ELSE WriteSucceeds(Register, opts.word, saved)
    /\ Exit(IF error THEN Failure ELSE Success)
    /\ UNCHANGED <<opts, opened, quit, at, value, saved, error, elapsed, log, report, result,
                   todo, pos, kept>>

RestoreFails ==
    /\ pc = "restore" /\ ~opts.dry
    /\ WriteFails(Register, opts.word, saved)
    /\ Exit(Failure)
    /\ UNCHANGED <<opts, opened, quit, at, value, saved, error, elapsed, log, report, result,
                   todo, pos, kept>>

---------------------------------------------------------------------------
(* dump, watch and monitor *)

MaxLoops == IF opts.timespan = Absent \/ opts.timespan > LogSize THEN LogSize
                                                                 ELSE opts.timespan

\* Registers_FromEC reads one register after the other; `value' has the row so
\* far.  With the last one the row is in the log.
Scan ==
    /\ pc = "scan"
    /\ LET row == IF at = 0 THEN <<mem[0]>> ELSE Append(Last(log), mem[at])
       IN log' = Append(IF at = 0 THEN log ELSE Front(log), row)
    /\ at' = IF at = MaxRegister THEN 0 ELSE at + 1
    /\ IF at < MaxRegister THEN UNCHANGED <<pc, code>>
       ELSE IF opts.cmd = "dump" THEN Exit(Success) ELSE pc' = "loop" /\ UNCHANGED code
    /\ UNCHANGED <<opts, opened, quit, mem, value, saved, error, elapsed, report, result,
                   history>>

\* The head of the loop of watch and monitor, and what comes after it.
Loop ==
    /\ pc = "loop"
    /\ IF ~quit /\ Len(log) < MaxLoops THEN pc' = "scan" /\ UNCHANGED code
       ELSE IF opts.cmd = "monitor" /\ opts.report THEN pc' = "report" /\ UNCHANGED code
       ELSE Exit(Success)
    /\ UNCHANGED <<opts, opened, quit, mem, at, value, saved, error, elapsed, log, report,
                   result, history>>

\* A temperature, or the file of the report, cannot be had.
MonitorFails ==
    /\ \/ pc = "loop" /\ log # <<>> /\ opts.cmd = "monitor" /\ (opts.cpu \/ opts.gpu)
       \/ pc = "report"
    /\ Exit(Failure)
    /\ UNCHANGED <<opts, opened, quit, mem, at, value, saved, error, elapsed, log, report,
                   result, history>>

RegisterHasChanged(l, r) == \E i \in DOMAIN l : l[i][r + 1] # l[1][r + 1]
Column(l, r) == [i \in DOMAIN l |-> l[i][r + 1]]

\* Three digits to the base; read to another base, or 0 and an error.
Printed(v, b) == <<(v \div b) \div b, (v \div b) % b, v % b>>
Parsed(text, b) == LET v == (text[1] * b + text[2]) * b + text[3]
                   IN IF (\A i \in 1..3 : text[i] < b) /\ v \in Byte THEN v ELSE Absent

\* --clearly leaves out what is like the reading before; the k-th of the others is the
\* one up to which there are k.
Shown(col, clearly) ==
    LET kept_ == {i \in DOMAIN col : clearly /\ i > 1 => col[i] # col[i - 1]}
        upTo(i) == {j \in kept_ : j <= i}
    IN [k \in 1..Cardinality(kept_) |-> col[CHOOSE i \in kept_ : Cardinality(upTo(i)) = k]]

BaseOf(decimal) == IF decimal THEN Base.decimal ELSE Base.hex

WriteMonitorReport ==
    /\ pc = "report"
    /\ LET changed == {r \in Registers : RegisterHasChanged(log, r)}
       IN report' = [valid |-> TRUE,
                     temps |-> IF opts.cpu \/ opts.gpu THEN Len(log) ELSE 0,
                     rows  |-> [r \in changed |->
                                  LET col == Shown(Column(log, r), opts.clearly)
                                  IN [k \in DOMAIN col |-> Printed(col[k], BaseOf(opts.decimal))]]]
    /\ kept' = [log |-> log, opts |-> opts]
    /\ Exit(Success)
    /\ UNCHANGED <<opts, opened, quit, mem, at, value, saved, error, elapsed, log, result,
                   todo, wrote, pos>>

---------------------------------------------------------------------------
(* evaluate *)

\* Mutant: the base of another option.
ReadAt(v) == Parsed(v, Base.hex)

ReadBack(text) == Parsed(text, BaseOf(opts.decimal))

Evaluate ==
    /\ pc = "evaluate"
    /\ LET rows == [r \in DOMAIN report.rows |->
                       [k \in DOMAIN report.rows[r] |-> ReadBack(report.rows[r][k])]]
           whole == \A r \in DOMAIN rows : Len(rows[r]) # 0 => Len(rows[r]) = report.temps
       IN IF /\ report.valid
             /\ \A r \in DOMAIN rows : \A k \in DOMAIN rows[r] : rows[r][k] # Absent
             /\ report.temps # 0
             /\ whole
          THEN result' = rows /\ Exit(Success)
          ELSE UNCHANGED result /\ Exit(Failure)
    /\ UNCHANGED <<opts, opened, quit, mem, at, value, saved, error, elapsed, log, report,
                   history>>

---------------------------------------------------------------------------
(* shell *)

Line == opts.lines[at + 1]
UsesEC(l) == l.cmd \in {"read", "write", "read_all"}
LineFits(l) == l.register \in 0..(IF l.word THEN MaxRegister - 1 ELSE MaxRegister)
               /\ l.value \in 0..Top(l.word)

ShellEnds ==
    /\ pc = "shell"
    /\ IF at = Len(opts.lines) THEN TRUE ELSE Line.cmd \in {"exit", "quit"}
    /\ Exit(Success)
    /\ UNCHANGED <<opts, opened, quit, mem, at, value, saved, error, elapsed, log, report,
                   result, history>>

\* Initialize_EC comes before the arguments are looked at.
ShellOpens ==
    /\ pc = "shell" /\ at < Len(opts.lines) /\ UsesEC(Line) /\ ~opened
    /\ \/ opened' = TRUE /\ UNCHANGED <<pc, code>>
       \/ Exit(Failure) /\ UNCHANGED opened
    /\ UNCHANGED <<opts, quit, mem, at, value, saved, error, elapsed, log, report, result,
                   history>>

\* A command whose answer is OK, a number or a text, or ERR.
ShellCommand ==
    /\ pc = "shell" /\ at < Len(opts.lines) /\ Line.cmd \notin {"exit", "quit"}
    /\ UsesEC(Line) => opened
    /\ at' = at + 1
    /\ IF Line.cmd = "write" /\ LineFits(Line)
       THEN \/ WriteSucceeds(Line.register, Line.word, Line.value)
            \/ WriteFails(Line.register, Line.word, Line.value)
       ELSE UNCHANGED <<mem, wrote>>
    /\ UNCHANGED <<opts, pc, code, opened, quit, value, saved, error, elapsed, log, report,
                   result, todo, pos, kept>>

---------------------------------------------------------------------------
(* The surroundings *)

\* SIGINT or SIGTERM: shell restores what they do by default, which is also what
\* they do before main has come to signal().
Signal ==
    /\ pc \notin {"done", "killed"} /\ ~quit
    /\ IF pc \in {"main", "shell"} THEN pc' = "killed" /\ UNCHANGED quit
                                   ELSE quit' = TRUE /\ UNCHANGED pc
    /\ UNCHANGED <<process, mem, report, history>>

Firmware ==
    /\ \E w \in FirmwareWrites : mem' = [mem EXCEPT ![w[1]] = w[2]]
    /\ UNCHANGED <<process, pc, quit, report, history>>

Run == \/ Main \/ Initialize_EC \/ OpenFails \/ Read \/ Write \/ WriteOrDie \/ ReadOrDie
       \/ Save \/ ProbeWrites \/ ProbeWriteFails \/ ProbeReads \/ ProbeReadFails
       \/ Restore \/ RestoreFails
       \/ Scan \/ Loop \/ MonitorFails \/ WriteMonitorReport \/ Evaluate
       \/ ShellEnds \/ ShellOpens \/ ShellCommand

Next == Run \/ Signal \/ Firmware \/ Start

\* The program runs on; nothing is assumed of the controller or the firmware.
Spec == Init /\ [][Next]_vars /\ WF_vars(Run)

---------------------------------------------------------------------------
\* A probe that ends, at a signal or its timespan, or as any of its writes and reads has
\* failed: if it has tried to write anything, and be it in vain, the last thing it tried
\* was to put the original value back (doc/ec_probe.1.md: `the register's original value
\* will be restored afterward').  It calls that a success only if that write was done; a
\* dry one has written nothing.
Restoring == [value : {saved}, failed : BOOLEAN]
RestoresOrReports ==
    opts.cmd = "probe" /\ pc = "done" =>
        /\ wrote \in {NoWrite} \cup Restoring
        /\ opts.dry => wrote = NoWrite
        /\ code = Success /\ ~opts.dry => wrote = [value |-> saved, failed |-> FALSE]

\* No value that is written is too large for the register: none comes from an overflow.
ValuesFit == pc \in {"probe", "reads"} => value \in 0..Top(opts.word)

\* A probe writes the values its ranges and presets stand for, one after the
\* other in their order and over and over again, and nothing else: no value is
\* left out at an end of a range.
ProbesTheRanges ==
    /\ ValuesFit
    /\ pc \in {"probe", "reads"} =>
           value = FlattenSeq([i \in DOMAIN ranges |-> Values(ranges[i])])[pos + 1]

\* What evaluate correlates with the temperatures are the readings that monitor
\* logged, all of them in their order; a report that lacks some it refuses.
EvaluatesTheReadings ==
    opts.cmd = "evaluate" /\ opts.complete /\ pc = "done" /\ report.valid
    /\ opts.decimal = kept.opts.decimal =>
        LET changed == {r \in Registers : RegisterHasChanged(kept.log, r)}
            columns == [r \in changed |-> Column(kept.log, r)]
            whole == \A r \in changed : Shown(columns[r], kept.opts.clearly) = columns[r]
            asked == (kept.opts.cpu \/ kept.opts.gpu) /\ kept.log # <<>>
        IN IF whole /\ asked THEN code = Success /\ result = columns ELSE code = Failure

\* What the parsers leave of the command lines.  That the largest values are numbers is
\* said as well, as the provers have no facts about powers.
Commands == UNION {{s[i] : i \in DOMAIN s} : s \in Sessions}
IsParsed(o) ==
    /\ o.cmd \in {"help", "load", "read", "read_bit", "write", "write_bit", "probe", "dump", "watch",
                  "monitor", "evaluate", "shell"}
    /\ o.cmd = "probe" =>
           o.word \in BOOLEAN /\ o.values \in Seq({t \in Text : t.preset \in Presets \cup {""}})
    /\ o.cmd = "write" => o.value \in 0..Top(TRUE)
    /\ o.cmd = "write_bit" => o.bit \in 0..(Bits - 1) /\ o.bitValue \in 0..1
    /\ o.cmd = "evaluate" => o.register.name = "" /\ o.register.addr = 0
    /\ \A i \in DOMAIN o.map : o.map[i].kind = "register" => o.map[i].addr \in Registers
CommandsAreParsed ==
    /\ Sessions \subseteq Seq(Commands)
    /\ \A o \in Commands : IsParsed(o)
    /\ \A word \in BOOLEAN : Top(word) \in Nat /\ HighBit(word) \in 1..Top(word)
    /\ \A n \in 0..Bits : 2^n \in Nat \ {0}

\* A signal ends every command, whatever it is doing, and in particular those
\* that would go on for ever.
QuitEnds == quit ~> pc = "done"
================================================================================
