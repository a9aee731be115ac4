-------------------------------- MODULE MCTools --------------------------------
(***************************************************************************)
(* Command lines for Tools.tla, on four registers of two bits each, the    *)
(* last too high for a word.                                               *)
(***************************************************************************)
EXTENDS Tools, TLC

\* ec_probe

Num(r) == [name |-> "", addr |-> r]
Name(n) == [name |-> n, addr |-> 0]

Plain == [cmd |-> "help", complete |-> TRUE, register |-> Num(0), map |-> <<>>, word |-> FALSE,
          dry |-> FALSE, bit |-> 0, bitValue |-> 0, value |-> 0, values |-> <<>>,
          reads |-> <<>>, timespan |-> Absent, report |-> FALSE, clearly |-> FALSE,
          decimal |-> FALSE, cpu |-> FALSE, gpu |-> FALSE, lines |-> <<>>]

T(a, s, b, c, op, n) == [num1 |-> a, sep1 |-> s, num2 |-> b, sep2 |-> c, op |-> op, num3 |-> n,
                         rest |-> FALSE, preset |-> ""]
P(name) == [T(0, "", Absent, "", "", Absent) EXCEPT !.preset = name]
One(a) == T(a, "", Absent, "", "", Absent)
Span(a, b) == T(a, "-", b, "", "", Absent)
By(a, b, op, n) == T(a, "-", b, ":", op, n)

\* Every text with numbers up to one more than a byte holds, in ranges of bytes,
\* the presets, and lists of two; the widest steps in words.
Texts == {<<One(a)>> : a \in {0, 3, 4}}
         \cup {<<Span(a, b)>> : a, b \in {0, 1, 3, 4}}
         \cup {<<By(p[1], p[2], op, n)>> : p \in {<<0, 3>>, <<1, 3>>, <<3, 0>>, <<3, 1>>, <<1, 1>>},
                                        op \in {"", "+", "-", "*", "/"}, n \in {0, 2, 3}}
         \cup {<<By(1, 3, "?", 2)>>}
         \cup {<<P(p)>> : p \in {"all", "all_reversed", "bits", "bits_reversed"}}
         \cup {<<Span(3, 2), P("bits"), One(1)>>, <<T(1, "?", 2, "", "", Absent)>>,
               <<T(1, "-", 2, ":", "", Absent)>>, <<T(Absent, "-", 2, "", "", Absent)>>, <<>>,
               <<[Span(0, 1) EXCEPT !.rest = TRUE]>>, <<One(99)>>}
WordTexts == {<<By(1, 15, "*", 3)>>, <<By(14, 0, "/", 3)>>, <<By(2, 15, "+", 11)>>,
              <<By(15, 1, "-", 6)>>, <<P("bits_reversed"), Span(7, 8)>>}

Probe == [Plain EXCEPT !.cmd = "probe", !.timespan = 5]
Probes == {[Probe EXCEPT !.values = t] : t \in Texts}
          \cup {[Probe EXCEPT !.values = t, !.word = TRUE] : t \in WordTexts}
          \cup {[Probe EXCEPT !.values = <<Span(1, 2)>>, !.word = w, !.dry = d, !.timespan = Absent,
                              !.reads = <<[register |-> Num(2), word |-> FALSE]>>] :
                   w, d \in BOOLEAN}
          \cup {[Probe EXCEPT !.values = <<One(1)>>, !.word = TRUE, !.register = Num(MaxRegister)],
                [Probe EXCEPT !.values = <<One(1)>>,
                              !.reads = <<[register |-> Num(MaxRegister), word |-> TRUE]>>]}

AMap == <<[kind |-> "register", name |-> "FAN0", addr |-> 1],
          [kind |-> "method", name |-> "", addr |-> 0],
          [kind |-> "register", name |-> "TEMP", addr |-> 2]>>
BadMaps == {<<AMap[1], AMap[1]>>, <<[AMap[1] EXCEPT !.kind = "bad"]>>}

Write1 == [Plain EXCEPT !.cmd = "write", !.value = 2]
Writes == {Write1, [Write1 EXCEPT !.complete = FALSE], [Write1 EXCEPT !.value = 4],
           [Write1 EXCEPT !.value = 9, !.word = TRUE], [Write1 EXCEPT !.word = TRUE, !.register = Num(MaxRegister)],
           [Write1 EXCEPT !.register = Num(MaxRegister + 1)], [Write1 EXCEPT !.register = Name("FAN0")],
           [Write1 EXCEPT !.register = Name("FAN0"), !.map = AMap],
           [Write1 EXCEPT !.register = Name("FAN1"), !.map = AMap]}
          \cup {[Write1 EXCEPT !.register = Name("FAN0"), !.map = m] : m \in BadMaps}
          \cup {[Plain EXCEPT !.cmd = "write_bit", !.dry = d, !.bit = 1, !.bitValue = b] :
                    d \in BOOLEAN, b \in 0..1}

Others == {[Plain EXCEPT !.cmd = c, !.timespan = t] :
              c \in {"help", "load", "read", "read_bit", "dump", "watch"}, t \in {Absent, 0, 2}}

Monitor1 == [Plain EXCEPT !.cmd = "monitor", !.report = TRUE, !.cpu = TRUE]
Monitors == {[Monitor1 EXCEPT !.timespan = t[1], !.clearly = t[2], !.decimal = d, !.cpu = ~n, !.gpu = FALSE] :
                t \in {<<2, FALSE>>, <<2, TRUE>>, <<0, FALSE>>, <<Absent, TRUE>>}, d, n \in BOOLEAN}
            \cup {[Monitor1 EXCEPT !.report = FALSE]}
Evaluates == {[Plain EXCEPT !.cmd = "evaluate", !.decimal = d] : d \in BOOLEAN}

L(c, w, r, v) == [cmd |-> c, word |-> w, register |-> r, value |-> v]
Shells == {[Plain EXCEPT !.cmd = "shell", !.lines = l] :
              l \in {<<>>, <<L("help", FALSE, 0, 0), L("read", TRUE, MaxRegister, 0), L("exit", FALSE, 0, 0)>>,
                     <<L("write", TRUE, 0, 6), L("write", FALSE, 0, 6), L("read_all", FALSE, 0, 0)>>}}

Terminal1 == {<<o>> : o \in Probes \cup Writes \cup Others \cup Evaluates \cup Shells}
             \cup {<<m, e>> : m \in Monitors, e \in Evaluates}

---------------------------------------------------------------------------
\* Configuration files

I(n) == [type |-> "int", int |-> n]
D(n) == [type |-> "double", parts |-> n]
B(b) == [type |-> "bool", bool |-> b]
S(t) == [type |-> "string", text |-> t]
\* A text that is a path, its names one by one; of is there for TLC, which does not
\* compare a sequence with a string.
Pathname(path) == [type |-> "string", text |-> path, of |-> "path"]
A(elems) == [type |-> "array", elems |-> elems]
O(f) == LET keys == FoldSet(LAMBDA k, s : Append(s, k), <<>>, DOMAIN f)
        IN [type |-> "object",
            items |-> [i \in DOMAIN keys |-> [key |-> keys[i], node |-> f[keys[i]]]]]
Twice(node) == [node EXCEPT !.items = @ \o @]
Garbage == [type |-> "garbage"]

Only(f, keys) == [k \in DOMAIN f \cap keys |-> f[k]]
But(f, keys) == [k \in DOMAIN f \ keys |-> f[k]]
Picks(f, keys) == {But(f, keys \ some) : some \in SUBSET keys}

Fan1 == [ReadRegister |-> I(1), WriteRegister |-> I(0), MinSpeedValue |-> I(0), MaxSpeedValue |-> I(3)]
Model(fans) == [NotebookModel |-> S("A"), FanConfigurations |-> A([i \in DOMAIN fans |-> O(fans[i])])]
OfFan(f) == O(Model(<<f>>))
OfRegister(r) == O([RegisterWriteConfigurations |-> A(<<O(r)>>)] @@ Model(<<Fan1>>))

\* Everything a fan can be read and written with, and reset to.
ReadWith == [ReadRegister |-> I(2), ReadAcpiMethod |-> Pathname(<<"M">>), ReadLuaCode |-> S("f")]
WriteWith == [WriteRegister |-> I(3), WriteAcpiMethod |-> Pathname(<<"M">>), WriteLuaCode |-> A(<<S("f")>>)]
ResetWith == [FanSpeedResetValue |-> I(15), ResetAcpiMethod |-> Pathname(<<"M">>), ResetLuaCode |-> S("f")]
Maybe(key) == {<<>>, key :> B(TRUE), key :> B(FALSE)}

Sources == {f @@ But(Fan1, {"ReadRegister"}) : f \in Picks(ReadWith, DOMAIN ReadWith)}
           \cup {f @@ But(Fan1, {"WriteRegister"}) : f \in Picks(WriteWith, DOMAIN WriteWith)}
           \cup {f @@ r @@ Fan1 : f \in Picks(ResetWith, DOMAIN ResetWith), r \in Maybe("ResetRequired")}

Spans == {[MinSpeedValue |-> I(a), MaxSpeedValue |-> I(b)] @@ Fan1 :
             <<a, b>> \in {<<3, 0>>, <<1, 3>>, <<2, 2>>, <<0, 15>>, <<12, 2>>, <<0, 16>>, <<-1, 2>>}}
         \cup {[WriteWords |-> B(TRUE), MinSpeedValue |-> I(a), MaxSpeedValue |-> I(15 - a)] @@ Fan1 : a \in {2, 15}}
         \cup {f @@ i @@ Fan1 :
                  f \in Picks([MinSpeedValueRead |-> I(2), MaxSpeedValueRead |-> I(0)],
                                {"MinSpeedValueRead", "MaxSpeedValueRead"})
                        \cup {[MinSpeedValueRead |-> I(1), MaxSpeedValueRead |-> I(1)]},
                  i \in Maybe("IndependentReadMinMaxValues")}
         \cup {But(Fan1, {"MinSpeedValue"}), But(Fan1, {"MaxSpeedValue"})}

Row(up, down, speed) == [UpThreshold |-> I(up), DownThreshold |-> I(down), FanSpeed |-> speed]
Table(rows) == ("TemperatureThresholds" :> A([i \in DOMAIN rows |-> O(rows[i])])) @@ Fan1
Tables == {Table(rows) : rows \in
              {<<>>, <<Row(0, 0, I(0)), Row(5, 3, D(100))>>, <<Row(5, 3, I(0)), Row(5, 4, I(100))>>,
               <<Row(3, 5, I(0))>>, <<Row(5, 3, I(101))>>, <<Row(5, 3, I(-1))>>, <<Row(9, 3, I(1))>>,
               <<But(Row(5, 3, I(0)), {"FanSpeed"})>>, <<But(Row(5, 3, I(0)), {"UpThreshold"})>>,
               <<But(Row(5, 3, I(0)), {"DownThreshold"})>>}}
          \cup {("TemperatureThresholds" :> n) @@ Fan1 : n \in {I(1), A(<<I(1)>>)}}

Rule(percent, v, op) == [FanSpeedPercentage |-> I(percent), FanSpeedValue |-> I(v), TargetOperation |-> S(op)]
Rules(rules) == ("FanSpeedPercentageOverrides" :> A([i \in DOMAIN rules |-> O(rules[i])])) @@ Fan1
Overriding == {Rules(rules) : rules \in
                  {<<>>, <<Rule(0, 3, "ReadWrite"), Rule(100, 0, "Write")>>,
                   <<Rule(50, 2, "Read"), Rule(50, 9, "Write"), Rule(50, 1, "Write")>>,
                   <<But(Rule(20, 1, ""), {"TargetOperation"})>>, <<Rule(20, 1, "?")>>,
                   <<Rule(101, 1, "Read")>>, <<But(Rule(20, 1, "Read"), {"FanSpeedValue"})>>,
                   <<But(Rule(20, 1, "Read"), {"FanSpeedPercentage"})>>}}

Wrong == {(k :> n) @@ Fan1 :
             k \in {"ReadRegister", "ReadLuaCode", "MinSpeedValue", "ReadWords", "FanDisplayName",
                    "CriticalTemperature", "TemperatureAlgorithmType", "Sensors", "NoSuchKey", "Comment", "#"},
             n \in {I(1), I(4), I(99), I(-9), B(TRUE), S("Max"), S("error"), A(<<>>), A(<<I(1)>>), D(1)}}

\* What a register can be written with and reset to, in every mode.
SetOf(mode, reset) == [WriteMode |-> S(mode), ResetWriteMode |-> S(reset), Register |-> I(3), Value |-> I(1),
                       AcpiMethod |-> Pathname(<<"M">>), LuaCode |-> S("f"), ResetValue |-> I(2),
                       ResetAcpiMethod |-> Pathname(<<"M">>), ResetLuaCode |-> S("f")]
Modes == {"Set", "Call", "Lua"}
Writing == UNION {Picks(Only(SetOf(m, ""), {"WriteMode", "Register", "Value", "AcpiMethod", "LuaCode"}),
                          {"WriteMode", "Register", "Value", "AcpiMethod", "LuaCode"}) : m \in Modes \cup {"And", "?"}}
Resetting == {q @@ f : q \in Maybe("ResetRequired"),
                 f \in UNION {Picks(But(SetOf(p[1], p[2]), IF p[1] = "Set" THEN {"AcpiMethod", "LuaCode"}
                                                             ELSE IF p[1] = "Call" THEN {"Value", "LuaCode"}
                                                             ELSE {"Value", "AcpiMethod"}),
                                      {"ResetWriteMode", "Register", "ResetValue", "ResetAcpiMethod", "ResetLuaCode"}) :
                                 p \in Modes \X (Modes \cup {"Or"})}}

Sponsor1 == [Name |-> S("A"), URL |-> S("A"), BannerURL |-> S("A"), Description |-> S("A")]
Whole == {But(Model(<<Fan1>>), {k}) : k \in {"NotebookModel", "FanConfigurations", "Author"}}
         \cup {Model(<<>>), ("LegacyTemperatureThresholdsBehaviour" :> B(TRUE)) @@ Model(<<Fan1>>)}
         \cup {("Sponsor" :> O(But(Sponsor1, {k}))) @@ Model(<<Fan1>>) : k \in DOMAIN Sponsor1}

Contained == {OfFan(f) : f \in Sources \cup Spans \cup Tables \cup Overriding \cup Wrong}
             \cup {OfRegister(r) : r \in Writing \cup Resetting}
             \cup {O(m) : m \in Whole}
             \cup {Twice(OfFan(Fan1)), Garbage, A(<<>>)}

---------------------------------------------------------------------------
\* nbfc test-config

Run1 == [action |-> "run", files |-> <<"a">>, disk |-> <<>>, cpu |-> <<>>, gpu |-> <<>>, faults |-> {}]
NoJob == [Run1 EXCEPT !.action = "none"]
EvaluateJob == [Run1 EXCEPT !.action = "evaluate"]

Static(name) == <<"static", name, ".json">>
Loads == {<<[Run1 EXCEPT !.disk = (Static("a") :> node)]>> : node \in Contained}

\* a is read from one register, b from two, c from one the other way round and by
\* a method, d from two that are not there, e is broken where it is found first.
Words == ("ReadWords" :> B(TRUE)) @@ Fan1
Disk == Static("a") :> OfFan(Fan1)
        @@ Static("b") :> OfFan([MaxSpeedValue |-> I(15)] @@ Words)
        @@ Static("c") :> O(Model(<<[MinSpeedValue |-> I(3), MaxSpeedValue |-> I(0)] @@ Fan1,
                                    ("ReadAcpiMethod" :> Pathname(<<"M">>)) @@ But(Fan1, {"ReadRegister"})>>))
        @@ Static("d") :> OfFan([ReadRegister |-> I(3)] @@ Words)
        @@ Static("e") :> OfFan(Fan1)
        @@ <<"mutable", "e", "">> :> Garbage

Run2(fs, cpu, gpu, faults) == [Run1 EXCEPT !.files = fs, !.disk = Disk, !.cpu = cpu, !.gpu = gpu, !.faults = faults]
Tests == {<<Run2(<<"b", "a", "d">>, <<40, 42>>, <<>>, {"read"}), EvaluateJob>>,
          <<Run2(<<"c">>, <<40, 41>>, <<50, 50, 52>>, {}), EvaluateJob>>,
          <<Run2(<<"a", "e", "z">>, <<40, 42>>, <<50, 51>>, {"setup", "sensor", "fork", "child", "kill", "write"}),
            EvaluateJob>>,
          <<Run2(<<"e">>, <<40>>, <<>>, {}), EvaluateJob>>, <<NoJob, EvaluateJob>>}

---------------------------------------------------------------------------
\* nbfc rate-config

Field(path, region, byte, bit, length) ==
    [name |-> path, region |-> region, byte |-> byte, bit |-> bit, length |-> length]
Region(name, type) == [name |-> <<"root", name>>, type |-> type]

\* The fields are of the controller, of memory that may be, or of none.
Firmware1 == [registers |-> <<Field(<<"root", "EC0_", "WSPD">>, "ERAM", 0, 0, 2), Field(<<"RSPD">>, "ERAM", 1, 0, 4),
                              Field(<<"BTMP">>, "ERAM", 2, 0, 2), Field(<<"FAN">>, "RAM_", 3, 1, 1),
                              Field(<<"WSPD">>, "GNVS", 3, 0, 2)>>,
              methods |-> <<<<"root", "EC0_", "SFAN">>, <<"M">>>>,
              regions |-> <<Region("ERAM", "EmbeddedControl"), Region("RAM", "SystemMemory"),
                            Region("GNVS", "SystemMemory")>>,
              fingerprints |-> {"A"}]
Firmware2 == [registers |-> <<Field(<<"BOTH">>, "EC", 0, 0, 2), Field(<<"XFAN">>, "EC", 1, 0, 2),
                              Field(<<"FTMP">>, "EC", 2, 0, 2), Field(<<"CHRG">>, "EC", 3, 0, 2),
                              Field(<<"LAST">>, "EC", 4, 0, 2)>>,
              methods |-> <<<<"M_">>>>,
              regions |-> <<Region("EC__", "SystemMemory")>>, fingerprints |-> {}]
Firmware3 == [Firmware2 EXCEPT !.registers = SubSeq(@, 1, 4)]

FanRule(name, mode) == [Name |-> S(name), Mode |-> S(mode)]
Rules1 == [FanRegisterFullMatch |-> A(<<O([ReadPriority |-> I(0), WritePriority |-> I(7)] @@ FanRule("WSPD", "rw")),
                                        O(FanRule("RSPD", "r")), O([Notice |-> S("A")] @@ FanRule("BOTH", "wr"))>>),
           FanRegisterPartialMatch |-> A(<<S("FAN"), S("RPM")>>), RegisterWriteFullMatch |-> A(<<S("WSPD")>>),
           RegisterWritePartialMatch |-> A(<<S("SPD")>>), BadRegisterFullMatch |-> A(<<S("CHRG")>>),
           BadRegisterPartialMatch |-> A(<<S("BAT")>>)]
BadRules == {O(("FanRegisterFullMatch" :> A(<<O(But(FanRule("WSPD", "rw"), {k}))>>)) @@ Rules1) : k \in {"Name", "Mode"}}
            \cup {O((k :> A(<<S(t)>>)) @@ Rules1) : k \in {"BadRegisterFullMatch", "Comment"}, t \in {"", "LONGER"}}
            \cup {O(("FanRegisterFullMatch" :> A(<<O((k :> n) @@ FanRule("WSPD", "w"))>>)) @@ Rules1) :
                      k \in {"Mode", "ReadPriority"}, n \in {I(101), S("x")}}
            \cup {A(<<>>)}

MCPrograms ==
    LET C(call, r, v, least) ==
            [name |-> call, register |-> r, value |-> v, from |-> least, method |-> <<"M">>]
    IN [f |-> <<C("ec_read", 1, 0, 0)>>, g |-> <<C("ec_write", 0, 1, 0), C("ec_write", 2, 1, 3)>>,
        h |-> <<C("acpi_call", 0, 0, 0), C("acpi_call_raw", 0, 0, 0), C("acpi_get_int", 0, 0, 0)>>,
        w |-> <<C("ec_write_word", 3, 1, 0)>>, v |-> <<C("ec_write", 0, 4, 0)>>]

\* Every pair of registers, every other way to read, write and reset, fingerprints, and
\* registers that are written besides, in every mode.
Both(r, w) == [ReadRegister |-> I(r), WriteRegister |-> I(w)] @@ Fan1
Call(path) == "WriteAcpiMethod" :> Pathname(path)
Lua(key, program) == key :> S(program)
Reset1 == "ResetRequired" :> B(TRUE)
Other(w) == w @@ But(Both(1, 0), {"WriteRegister"})
RatedFans == {Both(r, w) : r, w \in 0..3}
             \cup {Other(Call(p)) : p \in {<<"M">>, <<"root", "EC0", "SFAN">>, <<"root", "M">>, <<>>}}
             \cup {Other(Lua("WriteLuaCode", p)) : p \in {"f", "g", "h", "w", "v"}}
             \cup {Lua("ReadLuaCode", p) @@ But(Both(1, 0), {"ReadRegister"}) : p \in {"f", "h"}}
             \cup {Reset1 @@ Lua("ResetLuaCode", "g") @@ Both(1, 0),
                   Reset1 @@ ("ResetAcpiMethod" :> Pathname(<<"M">>)) @@ Other(Call(<<"M">>))}
With1(more) == O(more @@ Model(<<Both(1, 0)>>))
Besides(r) == "RegisterWriteConfigurations" :> A(<<O(r)>>)
Set1(r) == [WriteMode |-> S("Set"), Register |-> I(r), Value |-> I(1)]
CallOnly == [WriteMode |-> S("Call"), AcpiMethod |-> Pathname(<<"M">>)]
NullReset == [ResetWriteMode |-> S("Call")] @@ CallOnly
LuaOnly == [WriteMode |-> S("Lua"), LuaCode |-> S("g")]
LuaReset == [ResetWriteMode |-> S("Lua"), ResetLuaCode |-> S("h")] @@ Reset1 @@ LuaOnly
RatedModels == {OfFan(f) : f \in RatedFans}
               \cup {With1(Besides(Set1(r))) : r \in 0..3}
               \cup {With1(Besides(r)) : r \in {CallOnly, NullReset, LuaOnly, LuaReset}}
               \cup {With1("FirmwareFingerprint" :> A(t)) :
                         t \in {<<>>, <<S("A")>>, <<S("error")>>, <<S("C"), S("error")>>}}
               \cup {O(Model(<<Both(1, 0), Both(0, 1), Both(2, 3)>>)), Garbage, O(<<>>)}

Order1 == [actions |-> <<"input">>, files |-> <<"x", "good">>, disk |-> <<>>, firmware |-> Firmware1,
           unverified |-> FALSE, rulesFile |-> <<>>, noDownload |-> FALSE, download |-> <<>>,
           builtin |-> O(Rules1), minScore |-> 9, bad |-> FALSE, fanCount |-> 0, fails |-> FALSE, piped |-> FALSE]
Good == Static("good") :> OfFan(Both(1, 0))
Ratings == {[Order1 EXCEPT !.disk = Good @@ (Static("x") :> node), !.firmware = p[1], !.unverified = p[2]] :
               node \in RatedModels, p \in {<<Firmware1, TRUE>>, <<Firmware2, TRUE>>, <<Firmware3, TRUE>>, <<Firmware3, FALSE>>}}

\* Like ones, in the other order, with another number of fans or the other mode, of
\* which some have a file in both directories.
Twins == Good @@ <<"mutable", "good", ".json">> :> OfFan(Both(1, 0))
         @@ <<"mutable", "same", ".json">> :> OfFan([ReadWords |-> B(TRUE)] @@ Both(1, 0))
         @@ Static("call") :> With1(Besides(CallOnly)) @@ Static("bad") :> OfFan(Both(2, 2))
All1 == [Order1 EXCEPT !.actions = <<"all">>, !.disk = Twins]
Lists == {<<"good", "same", "call", "bad", "good">>, <<"x", "two", "owt", "good">>, <<"n1", "n2">>, <<"l1", "l2", "l1">>, <<>>}
Listed1 == [Order1 EXCEPT !.disk = Twins @@ Static("two") :> O(Model(<<Both(1, 0), Both(1, 3)>>))
                                   @@ Static("owt") :> O(Model(<<Both(1, 3), Both(1, 0)>>))
                                   @@ Static("n1") :> With1(Besides(NullReset)) @@ Static("n2") :> With1(Besides(NullReset))
                                   @@ Static("l1") :> With1(Besides(LuaReset)) @@ Static("l2") :> With1(Besides(LuaReset))]
Options == {[Listed1 EXCEPT !.files = l, !.minScore = m, !.bad = b, !.fanCount = c] :
               l \in Lists, m \in {0, 9}, b \in BOOLEAN, c \in 0..1}
           \cup {All1, [All1 EXCEPT !.fails = TRUE], [All1 EXCEPT !.actions = <<>>], [All1 EXCEPT !.actions = <<"all", "file">>],
                 [Listed1 EXCEPT !.actions = <<"file">>, !.files = <<"bad">>], [Order1 EXCEPT !.actions = <<"full help">>]}
           \cup {[Order1 EXCEPT !.actions = <<"print rules">>, !.rulesFile = <<node>>] : node \in BadRules \cup {O(Rules1)}}
           \cup {[All1 EXCEPT !.download = d, !.noDownload = n] : d \in {<<Garbage>>, <<O(Rules1)>>}, n \in BOOLEAN}

MCOrdersOf == {<<o>> : o \in Ratings \cup Options}


---------------------------------------------------------------------------
\* Setting up the service

MCAliases == [LONG |-> "short", Short |-> "short"]

Model1(fans) == O(Model([i \in 1..fans |-> Fan1]))
Str(key, t) == key :> S(t)
Source1(fan, more) == O(("FanIndex" :> I(fan)) @@ more)
Config1 == [SelectedConfigId |-> S("two"), EmbeddedControllerType |-> S("ec_sys_linux"),
            FanTemperatureSources |-> A(<<Source1(1, Str("TemperatureAlgorithmType", "Max"))>>)]
Old(speeds) == [TargetFanSpeeds |-> A(speeds)] @@ Config1
State1(speeds) == O([TargetFanSpeeds |-> A(speeds)])

Set1To(kind, name) == [cmd |-> "config", kind |-> kind, name |-> name]
Sense1 == [cmd |-> "sensors", fan |-> 0, sensors |-> <<"GPU">>, algorithm |-> "", force |-> FALSE]
Ask(fan, speed) == [fan |-> fan, speed |-> speed]

Desk1 == [disk |-> Static("two") :> Model1(2) @@ <<"mutable", "two", ".json">> :> Model1(2)
                   @@ Static("Short") :> Model1(1) @@ <<"mutable", "short", ".json">> :> Model1(2)
                   @@ <<"", "own", "">> :> Model1(1) @@ Static("broken") :> Garbage,
          support |-> <<>>, machine |-> "LONG", sensors |-> {"CPU", "GPU"},
          conf |-> O(Config1), stored |-> State1(<<D(150)>>), edits |-> <<>>, requests |-> <<>>,
          starts |-> 2, faults |-> 0]

\* Which configuration is taken, from lists in any order and support files in any state.
Supports == {<<>>, <<Garbage, O(Str("two", "two"))>>, <<O(Str("LONG", "two")), O(<<>>)>>,
             <<O(Str("short", "none")), Twice(O(Str("LONG", "two")))>>,
             <<O("LONG" :> I(1)), A(<<>>)>>}
Chosen1 == {[Desk1 EXCEPT !.support = s, !.edits = <<Set1To("auto", "")>>] : s \in Supports}
           \cup {[Desk1 EXCEPT !.edits = <<Set1To(k, n)>>, !.conf = c] :
                    k \in {"name", "path"}, n \in {"two", "LONG", "own", "broken", "none"},
                    c \in {Desk1.conf, [type |-> "missing"], Garbage}}

\* Every way a config may be wrong, and what the client makes of it.
Sources1(entries) == O([FanTemperatureSources |-> A(entries)] @@ Config1)
Confs == {O(But(Config1, {k})) : k \in DOMAIN Config1} \cup {O(Str("x", "y") @@ Config1)}
         \cup {Sources1(<<Source1(0, <<>>), Source1(i, "Sensors" :> A(<<S("CPU")>>))>>) : i \in 0..4}
         \cup {Sources1(<<O(Str("TemperatureAlgorithmType", "Min"))>>)}
         \cup {O(("EmbeddedControllerType" :> S(t)) @@ Config1) : t \in {"dev_port", "?"}}
Refused == {[Desk1 EXCEPT !.conf = c, !.edits = <<e>>] :
               c \in Confs, e \in {Set1To("name", "Short"), Sense1}}

\* Orders of older versions, in any state, with orders and edits that follow.
Speeds1 == {<<>>, <<D(-Part), D(150)>>, <<D(400), D(-1), D(30)>>}
Upgrade1 == [Desk1 EXCEPT !.faults = 1, !.requests = <<Ask(1, 60), Ask(0, -Part)>>]
Upgrades == {[Upgrade1 EXCEPT !.conf = O(Old(speeds)), !.stored = file] :
                speeds \in Speeds1, file \in {[type |-> "missing"], Garbage, State1(<<D(90), D(60)>>)}}
            \cup {[Upgrade1 EXCEPT !.conf = O(Old(<<D(-Part), D(150)>>)), !.edits = <<Sense1>>]}
Edits1 == {[Desk1 EXCEPT !.edits = e, !.requests = <<Ask(0, 60)>>, !.faults = 1] :
              e \in {<<Sense1, [Sense1 EXCEPT !.sensors = <<>>, !.algorithm = "Min"]>>,
                     <<[Sense1 EXCEPT !.fan = 1, !.sensors = <<>>], [Sense1 EXCEPT !.fan = 2]>>,
                     <<[Sense1 EXCEPT !.sensors = <<"none">>], [Sense1 EXCEPT !.sensors = <<"none">>, !.force = TRUE]>>,
                     <<Set1To("name", "LONG"), Set1To("path", "own"), Sense1>>}}

MCDesks == Chosen1 \cup Refused \cup Upgrades \cup Edits1
NoDesk == [disk |-> <<>>, conf |-> [type |-> "missing"], stored |-> [type |-> "missing"], edits |-> <<>>,
           requests |-> <<>>, starts |-> 0, faults |-> 0]

---------------------------------------------------------------------------
Piped1 == But(Twins, {Static("call")})
Pipes == {<<<<>>, <<[Run1 EXCEPT !.files = <<>>, !.disk = Piped1, !.cpu = <<40>>]>>, <<[All1 EXCEPT !.piped = TRUE, !.disk = Piped1]>>, {NoDesk}>>}

MCUsers == {<<t, <<>>, <<>>, {NoDesk}>> : t \in Terminal1} \cup {<<<<>>, j, <<>>, {NoDesk}>> : j \in Loads \cup Tests}
           \cup {<<<<>>, <<>>, o, {NoDesk}>> : o \in MCOrdersOf} \cup Pipes
           \cup {<<<<[Write1 EXCEPT !.register = Num(1)]>>, <<Run2(<<"b">>, <<40>>, <<>>, {}), EvaluateJob>>, <<>>, {NoDesk}>>}
           \cup {<<<<>>, <<>>, <<>>, MCDesks>>}
MCSessions == {u[1] : u \in MCUsers}

\* A file's node, and all that is in it.
RECURSIVE NodesIn(_)
NodesIn(node) == {node} \cup UNION {NodesIn(n) : n \in CASE node.type = "array" -> ToSet(node.elems)
                                                       [] node.type = "object" -> {item.node : item \in ToSet(node.items)}
                                                       [] OTHER -> {}}
NodesOn(disk) == {disk[place] : place \in DOMAIN disk}
MCNodes == UNION {NodesIn(node) : node \in UNION
    (  {{d.conf, d.stored} \cup NodesOn(d.disk) : d \in UNION {u[4] : u \in MCUsers}}
     \cup UNION {{NodesOn(u[2][i].disk) : i \in DOMAIN u[2]} : u \in MCUsers})}

ASSUME MCCommandsAssumption == CommandsAreParsed /\ DesksAreParsed(MCNodes) /\ TestsAreParsed(MCNodes)

---------------------------------------------------------------------------
MCContents == {[r \in Registers |-> (r + 1) % 4]}
MCFirmwareWrites == {<<1, 0>>, <<1, 3>>}
MCBase == [hex |-> 4, decimal |-> 3]
MCAnswers == {0, 2}
================================================================================
