------------------------------ MODULE ConfigRating ------------------------------
(***************************************************************************)
(* src/config_analysis.c, src/config_rating.c and config_rating_rules.c,   *)
(* with what they use of src/acpi_analysis.c: which registers and methods  *)
(* a configuration uses, and how they fit the firmware.                    *)
(*                                                                         *)
(* The firmware is what acpiexec prints of it: fields with their name,     *)
(* region, byte, bit and length; methods; regions with their type.  A path *)
(* is the sequence of its segments, the first of them "root" if it begins  *)
(* with a backslash; the arguments of a call are left out.                 *)
(***************************************************************************)
EXTENDS ModelConfig, FiniteSetsExt

CONSTANTS
    MaxRegisters,   \* 256, of a configuration
    MaxMethods,     \* 64
    Programs        \* bound: what each line of Lua calls

\* Source lines that are no key of Programs call nothing.
Calls(source) == FoldLeft(LAMBDA some, line : some \o (IF line \in DOMAIN Programs THEN Programs[line] ELSE <<>>),
                          <<>>, source)

---------------------------------------------------------------------------
(* Names *)

\* AcpiAnalysis_SegmentToUInt: names of less than four letters are padded.
Padded(segment) == SubSeq(segment \o "____", 1, 4)

SameSegment(a, b) == Padded(a) = Padded(b)

AcpiAnalysis_PathEquals(p, q) ==
    Len(p) = Len(q) /\ \A i \in DOMAIN p : SameSegment(p[i], q[i])

AcpiAnalysis_RegisterBasename(path) == path[Len(path)]

\* strstr
HasPart(name, part) ==
    \E i \in 1..(Len(name) - Len(part) + 1) : SubSeq(name, i, i + Len(part) - 1) = part

---------------------------------------------------------------------------
(* The rules *)

RuleFields == [Name |-> "name", Mode |-> "mode", ReadPriority |-> "priority",
               WritePriority |-> "priority", Notice |-> "str"]

RulesFields == [FanRegisterFullMatch |-> "rules", FanRegisterPartialMatch |-> "names",
                RegisterWriteFullMatch |-> "names", RegisterWritePartialMatch |-> "names",
                BadRegisterFullMatch |-> "names", BadRegisterPartialMatch |-> "names"]

RegisterName_FromJson(node) ==
    IF node.type = "string" /\ Len(node.text) \in 1..4 THEN {node.text} ELSE Failed

RegisterRuleFanMode_FromString(text) ==
    CASE text = "r" -> {"read"} [] text = "w" -> {"write"}
      [] text \in {"rw", "wr"} -> {"read", "write"} [] OTHER -> {}

RegisterRule_FromJson(node) ==
    LET Of(type, n) ==
            CASE type = "name" -> RegisterName_FromJson(n)
              [] type = "mode" -> IF n.type # "string" THEN Failed
                                  ELSE {RegisterRuleFanMode_FromString(n.text)} \ {{}}
              [] type = "priority" -> IF n.type = "int" /\ n.int \in 0..100 THEN {n.int} ELSE Failed
              [] OTHER -> FromNode(type, n)
    IN {rule @@ [ReadPriority |-> 0, WritePriority |-> 0] :
            rule \in {r \in FieldsFromJson(RuleFields, Of, node, {}) : Has(r, {"Name", "Mode"})}}

\* Names that are not given are none.
ConfigRatingRules_FromJson(node) ==
    LET Of(type, n) == IF type = "rules" THEN ArrayFromJson(RegisterRule_FromJson, n)
                       ELSE ArrayFromJson(RegisterName_FromJson, n)
    IN {rules @@ [key \in DOMAIN RulesFields |-> <<>>] :
            rules \in FieldsFromJson(RulesFields, Of, node, {})}

---------------------------------------------------------------------------
(* The firmware *)

TrustedRegions(firmware) ==
    LET trusted == SelectSeq(firmware.regions, LAMBDA region : region.type = "EmbeddedControl")
    IN {AcpiAnalysis_RegisterBasename(trusted[i].name) : i \in DOMAIN trusted}

UnverifiedNames == {"ECMM", "H2RM", "EC", "RAM", "PECM"}

AcpiAnalysis_IsUnverifiedEcRegion(firmware, region) ==
    LET name == AcpiAnalysis_RegisterBasename(region.name)
    IN /\ region.type = "SystemMemory"
       /\ \E known \in UnverifiedNames : SameSegment(known, name)
       /\ \A i \in DOMAIN firmware.registers :
              firmware.registers[i].region = name => firmware.registers[i].byte < 2^Bits

UnverifiedRegions(firmware) ==
    LET regions == SelectSeq(firmware.regions, LAMBDA r : AcpiAnalysis_IsUnverifiedEcRegion(firmware, r))
    IN {AcpiAnalysis_RegisterBasename(regions[i].name) : i \in DOMAIN regions}

\* What is rated with: the firmware, the regions of the controller and the rules.
ConfigRating_Init(firmware, unverified, rules) ==
    [firmware |-> firmware, rules |-> rules,
     regions |-> TrustedRegions(firmware) \cup (IF unverified THEN UnverifiedRegions(firmware) ELSE {})]

\* The first field of the controller that begins in a byte.
ConfigRating_FindEcRegister(with, offset) ==
    LET found == {i \in DOMAIN with.firmware.registers :
                     LET field == with.firmware.registers[i]
                     IN field.byte = offset
                        /\ \E region \in with.regions : SameSegment(region, field.region)}
    IN IF found = {} THEN Failed ELSE {with.firmware.registers[Min(found)]}

ConfigRating_FindMethod(with, call) ==
    \E i \in DOMAIN with.firmware.methods : AcpiAnalysis_PathEquals(call, with.firmware.methods[i])

---------------------------------------------------------------------------
(* The analysis of a configuration *)

NothingUsed == [registers |-> <<>>, methods |-> <<>>]

\* Mutant: of a register that is used in two ways only the first is seen.
PushRegisterOnce(a, use) ==
    IF \E i \in DOMAIN a.registers : a.registers[i].register = use.register THEN {a}
    ELSE IF Len(a.registers) >= MaxRegisters THEN Failed
    ELSE {[a EXCEPT !.registers = Append(@, use)]}

ConfigAnalysis_PushRegister(a, use) ==
    IF \E i \in DOMAIN a.registers : a.registers[i].register = use.register
                                     /\ a.registers[i].type = use.type THEN {a}
    ELSE IF Len(a.registers) >= MaxRegisters THEN Failed
    ELSE {[a EXCEPT !.registers = Append(@, use)]}

ConfigAnalysis_PushMethod(a, use) ==
    IF use.method = <<>> THEN Failed
    ELSE IF use.unique /\ \E i \in DOMAIN a.methods : AcpiAnalysis_PathEquals(use.method, a.methods[i]) THEN {a}
    ELSE IF Len(a.methods) >= MaxMethods THEN Failed
    ELSE {[a EXCEPT !.methods = Append(@, use.method)]}

\* One use after the other, up to the first that fails.
Push(done, use) ==
    UNION {CASE use.kind = "register" -> ConfigAnalysis_PushRegister(a, use)
             [] use.kind = "method" -> ConfigAnalysis_PushMethod(a, use)
             [] OTHER -> Failed : a \in done}

UseRegister(r, type, word) == [kind |-> "register", register |-> r, type |-> type, word |-> word]
UseMethod(method, unique) == [kind |-> "method", method |-> method, unique |-> unique]
Uses(object, field, use) == IF Has(object, {field}) THEN <<use>> ELSE <<>>

\* ConfigAnalysis_EC_Read and the like.  A call is made for the values from some on;
\* a program hands on the error of a register or a value there is not.
LuaUse(call, inWrites) ==
    LET word == call.name \in {"ec_read_word", "ec_write_word"}
        writes == call.name \in {"ec_write", "ec_write_word"}
        type == IF inWrites THEN "write" ELSE IF writes THEN "fanWrite" ELSE "fanRead"
    IN CASE call.name \in {"acpi_call", "acpi_call_raw"} -> <<UseMethod(call.method, TRUE)>>
         [] call.name \in {"acpi_get_int", "sensors_get_temperature"} -> <<>>
         [] OTHER -> IF /\ call.register \in 0..(2^Bits - (IF word THEN 2 ELSE 1))
                        /\ writes => call.value \in Limits(IF word THEN "uint16" ELSE "uint8")
                     THEN <<UseRegister(call.register, type, word)>>
                     ELSE <<[kind |-> "error"]>>

LuaUses(object, field, values, inWrites) ==
    IF ~Has(object, {field}) THEN <<>>
    ELSE FoldLeft(LAMBDA some, v :
                     FoldLeft(LAMBDA uses, call : uses \o LuaUse(call, inWrites), some,
                              SelectSeq(Calls(object[field]), LAMBDA call : call.from <= v)),
                  <<>>, values)

\* Every value WriteLuaCode may be called with.
SpeedValues(f) == LET lowest == Min({f.MinSpeedValue, f.MaxSpeedValue})
                      highest == Max({f.MinSpeedValue, f.MaxSpeedValue})
                  IN [i \in 1..(highest - lowest + 1) |-> lowest + i - 1]

ConfigAnalysis_AnalyzeFanConfiguration(f, c) ==
    LET Words(field) == IF Has(f, {field}) THEN f[field] ELSE c.ReadWriteWords
        Register(field, type, words) ==
            IF Has(f, {field}) THEN <<UseRegister(f[field], type, Words(words))>> ELSE <<>>
        Method(field) == IF Has(f, {field}) THEN <<UseMethod(f[field], FALSE)>> ELSE <<>>
    IN Register("ReadRegister", "fanRead", "ReadWords") \o Method("ReadAcpiMethod")
       \o LuaUses(f, "ReadLuaCode", <<0>>, FALSE)
       \o Register("WriteRegister", "fanWrite", "WriteWords") \o Method("WriteAcpiMethod")
       \o LuaUses(f, "WriteLuaCode", SpeedValues(f), FALSE)
       \o Method("ResetAcpiMethod") \o LuaUses(f, "ResetLuaCode", <<0>>, FALSE)

AnalyzeRegisterWrite(r) ==
    LET Method(field) == IF Has(r, {field}) THEN <<UseMethod(r[field], FALSE)>> ELSE <<>>
    IN (IF Has(r, {"Register"}) THEN <<UseRegister(r.Register, "write", FALSE)>> ELSE <<>>)
       \o Method("AcpiMethod") \o LuaUses(r, "LuaCode", <<0>>, TRUE)
       \o Method("ResetAcpiMethod") \o LuaUses(r, "ResetLuaCode", <<0>>, TRUE)

ConfigAnalysis_AnalyzeModelConfig(c) ==
    LET fans == FoldLeft(LAMBDA uses, f : uses \o ConfigAnalysis_AnalyzeFanConfiguration(f, c),
                         <<>>, c.FanConfigurations)
        writes == FoldLeft(LAMBDA uses, r : uses \o AnalyzeRegisterWrite(r),
                           <<>>, c.RegisterWriteConfigurations)
    IN FoldLeft(Push, {NothingUsed}, fans \o writes)

---------------------------------------------------------------------------
(* The rating *)

FullMatch(names, name) == \E i \in DOMAIN names : names[i] = name
PartialMatch(names, name) == \E i \in DOMAIN names : HasPart(name, names[i])
First(name) == SubSeq(name, 1, 1)

ConfigRating_IsBadRegister(rules, name) ==
    \/ First(name) = "B"
    \/ FullMatch(rules.BadRegisterFullMatch, name) \/ PartialMatch(rules.BadRegisterPartialMatch, name)

IsFan(type) == type \in {"fanRead", "fanWrite"}

\* The match of a name, without the rules that name a fan register in full.
Match(rules, name, partial) ==
    IF ConfigRating_IsBadRegister(rules, name) THEN "bad"
    ELSE IF PartialMatch(partial, name) THEN "partial"
    ELSE IF First(name) = "F" THEN "minimal" ELSE "none"

ConfigRating_RateRegister(with, type, offset) ==
    LET found == ConfigRating_FindEcRegister(with, offset)
        name == AcpiAnalysis_RegisterBasename(The(found).name)
        known == SelectSeq(with.rules.FanRegisterFullMatch, LAMBDA rule : rule.Name = name)
        mode == IF type = "fanRead" THEN "read" ELSE "write"
        Rated(score, priority) == [type |-> type, offset |-> offset, score |-> score,
                                   priority |-> priority, info |-> found]
    IN CASE found = {} -> Rated("missing", 0)
         [] found # {} /\ IsFan(type) /\ known # <<>> ->
                IF mode \notin known[1].Mode THEN Rated("none", 0)
                ELSE Rated("full", IF mode = "read" THEN known[1].ReadPriority ELSE known[1].WritePriority)
         [] found # {} /\ IsFan(type) /\ known = <<>> ->
                Rated(Match(with.rules, name, with.rules.FanRegisterPartialMatch), 0)
         [] OTHER ->
                Rated(IF FullMatch(with.rules.RegisterWriteFullMatch, name) THEN "full"
                      ELSE Match(with.rules, name, with.rules.RegisterWritePartialMatch), 0)

\* Of a register that is not bad; a fan is read and written in whole bytes.
Points(rated) ==
    LET points == CASE rated.score = "full" -> 10 [] rated.score = "partial" -> 9
                    [] rated.score = "minimal" -> 7
                    [] rated.score = "none" -> IF IsFan(rated.type) THEN 0 ELSE 2
                    [] OTHER -> 0
    IN IF /\ IsFan(rated.type) /\ rated.info # {}
          /\ The(rated.info).bit # 0 \/ The(rated.info).length \notin {Bits, 2 * Bits}
       THEN 0 ELSE points

Fingerprints(c) == IF Has(c, {"FirmwareFingerprint"}) THEN c.FirmwareFingerprint ELSE <<>>

\* The score is a number of points over the number of uses.  Priorities are added up
\* to the first bad register.
RatingOf(with, c, a) ==
    LET rated == [i \in DOMAIN a.registers |->
                     ConfigRating_RateRegister(with, a.registers[i].type, a.registers[i].register)]
        bads == {i \in DOMAIN rated : rated[i].score = "bad"}
        counted == SubSeq(rated, 1, IF bads = {} THEN Len(rated) ELSE Min(bads))
        prints == Fingerprints(c)
        found == \A i \in DOMAIN a.methods : ConfigRating_FindMethod(with, a.methods[i])
        same == \A i \in DOMAIN prints : prints[i] \in with.firmware.fingerprints
    IN [points |-> IF bads # {} \/ ~found \/ ~same THEN 0
                   ELSE FoldLeft(LAMBDA sum, r : sum + Points(r), 10 * Len(a.methods), rated),
        uses |-> Len(rated) + Len(a.methods),
        priority |-> FoldLeft(LAMBDA sum, r : sum + r.priority,
                              Len(rated) + 10000 * Len(a.methods), counted),
        bad |-> bads # {}, found |-> found, registers |-> rated, methods |-> a.methods]

\* A fingerprint that is not one is an error, unless an earlier one does not match.
FingerprintFails(with, c) ==
    LET prints == Fingerprints(c)
    IN \E i \in DOMAIN prints : /\ prints[i] = "error"
                                /\ \A j \in 1..(i - 1) : prints[j] \in with.firmware.fingerprints

ConfigRating_RateModelConfig(with, c) ==
    {r \in {RatingOf(with, c, a) : a \in ConfigAnalysis_AnalyzeModelConfig(c)} :
        r.uses # 0 /\ ~(~r.bad /\ r.found /\ FingerprintFails(with, c))}
================================================================================
