------------------------------ MODULE ModelConfig ------------------------------
(***************************************************************************)
(* src/model_config.c and the code tools/config.py has generated for it:   *)
(* what the program makes of a configuration file, and which ones it       *)
(* refuses.                                                                *)
(*                                                                         *)
(* A JSON node is a record with its type.  What the program has made of an *)
(* object is a function from the fields that are set, so that isset.X is   *)
(* "X" \in DOMAIN of it; the result of a conversion is the set of its value *)
(* or, when it failed, empty.                                              *)
(***************************************************************************)
EXTENDS Integers, Sequences, FiniteSets, SequencesExt

CONSTANTS
    Bits,       \* of a byte, 8
    Part        \* the parts of a percent that fan speeds are counted in

Full == 100 * Part

Failed == {}
The(result) == CHOOSE v \in result : TRUE

\* An object with the fields of another that it does not have.
Completed(object, other) ==
    [key \in (DOMAIN object) \cup (DOMAIN other) |->
        IF key \in DOMAIN object THEN object[key] ELSE other[key]]

---------------------------------------------------------------------------
(* Conversions of the nodes *)

\* What the parser makes of files: with each node, all that is in it.
IsList(s) == s \in Seq(ToSet(s))

AreNodes(nodes) ==
    \A n \in nodes :
        /\ n.type = "int" => n.int \in Int
        /\ n.type = "double" => n.parts \in Int
        /\ n.type = "array" => IsList(n.elems) /\ ToSet(n.elems) \subseteq nodes
        /\ n.type = "object" => IsList(n.items) /\ \A item \in ToSet(n.items) : item.node \in nodes

Limits(type) == CASE type = "uint8"  -> 0..(2^Bits - 1)
                  [] type = "uint16" -> 0..(2^(2 * Bits) - 1)
                  [] type = "int16"  -> -2^(2 * Bits - 1)..(2^(2 * Bits - 1) - 1)

Names(type) ==
    CASE type = "RegisterWriteMode" -> {"Set", "And", "Or", "Call", "Lua"}
      [] type = "RegisterWriteOccasion" ->
            {"OnWriteFanSpeed", "OnInitialization", "OnSuspend", "OnResume"}
      [] type = "OverrideTargetOperation" -> {"Read", "Write", "ReadWrite"}
      [] type = "TemperatureAlgorithmType" -> {"Average", "Min", "Max"}

IsInteger(type) == type \in {"uint8", "uint16", "int16"}
IsName(type) == type \in {"RegisterWriteMode", "RegisterWriteOccasion",
                          "OverrideTargetOperation", "TemperatureAlgorithmType"}

\* Lua_LoadCode; a program with an error in it has the text "error".
Compiles(node) == CASE node.type = "string" -> node.text # "error"
                    [] node.type = "array" ->
                        \A i \in DOMAIN node.elems :
                            node.elems[i].type = "string" /\ node.elems[i].text # "error"
                    [] OTHER -> FALSE

IsStrings(node) == node.type = "array"
                   /\ \A i \in DOMAIN node.elems : node.elems[i].type = "string"

Texts(node) == [i \in DOMAIN node.elems |-> node.elems[i].text]

\* The source of a program, as its lines; those of an array end with a newline.
LuaSource(node) == IF node.type = "string" THEN <<node.text>> ELSE Texts(node) \o <<"newline">>

FromNode(type, node) ==
    CASE IsInteger(type) -> IF node.type = "int" /\ node.int \in Limits(type)
                            THEN {node.int} ELSE Failed
      [] IsName(type) -> IF node.type = "string" /\ node.text \in Names(type)
                         THEN {node.text} ELSE Failed
      [] type = "float" -> CASE node.type = "int" -> {node.int * Part}
                             [] node.type = "double" -> {node.parts}
                             [] OTHER -> Failed
      [] type = "bool" -> IF node.type = "bool" THEN {node.bool} ELSE Failed
      [] type = "str" -> IF node.type = "string" THEN {node.text} ELSE Failed
      [] type = "LuaCode" -> IF Compiles(node) THEN {LuaSource(node)} ELSE Failed
      [] type = "strs" -> IF IsStrings(node) THEN {Texts(node)} ELSE Failed

\* array_of_FromJson: all the elements, or none.
ArrayFromJson(Of(_), node) ==
    LET values == [i \in DOMAIN node.elems |-> Of(node.elems[i])]
    IN IF node.type # "array" \/ \E i \in DOMAIN values : values[i] = Failed THEN Failed
       ELSE {[i \in DOMAIN values |-> The(values[i])]}

\* Every key is a field or one that is skipped, and of two with the same key the last
\* one counts.
FieldsFromJson(fields, Of(_, _), node, skipped) ==
    LET Field(item) == IF item.key \in DOMAIN fields THEN Of(fields[item.key], item.node) ELSE Failed
        shown == {i \in DOMAIN node.items : node.items[i].key \notin skipped}
        values == [i \in shown |-> Field(node.items[i])]
        last(key) == Max({i \in shown : node.items[i].key = key})
    IN IF node.type # "object" \/ \E i \in shown : values[i] = Failed THEN Failed
       ELSE {[key \in {node.items[i].key : i \in shown} |-> The(values[last(key)])]}

\* The generated *_FromJson, which skip comments.
ObjectFromJson(fields, Of(_, _), node) == FieldsFromJson(fields, Of, node, {"#", "Comment"})

---------------------------------------------------------------------------
(* The fields of the objects *)

ThresholdFields ==
    [UpThreshold |-> "int16", DownThreshold |-> "int16", FanSpeed |-> "float"]

OverrideFields ==
    [FanSpeedPercentage |-> "float", FanSpeedValue |-> "uint16",
     TargetOperation |-> "OverrideTargetOperation"]

RegisterWriteFields ==
    [WriteMode |-> "RegisterWriteMode", WriteOccasion |-> "RegisterWriteOccasion",
     Register |-> "uint8", Value |-> "uint8", AcpiMethod |-> "str", LuaCode |-> "LuaCode",
     ResetRequired |-> "bool", ResetValue |-> "uint8", ResetAcpiMethod |-> "str",
     ResetLuaCode |-> "LuaCode", ResetWriteMode |-> "RegisterWriteMode", Description |-> "str"]

FanFields ==
    [FanDisplayName |-> "str", CriticalTemperature |-> "int16",
     CriticalTemperatureOffset |-> "uint16", ReadWords |-> "bool", WriteWords |-> "bool",
     ReadRegister |-> "uint8", ReadAcpiMethod |-> "str", ReadLuaCode |-> "LuaCode",
     WriteRegister |-> "uint8", WriteAcpiMethod |-> "str", WriteLuaCode |-> "LuaCode",
     MinSpeedValue |-> "uint16", MaxSpeedValue |-> "uint16", MinSpeedValueRead |-> "uint16",
     MaxSpeedValueRead |-> "uint16", IndependentReadMinMaxValues |-> "bool",
     ResetRequired |-> "bool", FanSpeedResetValue |-> "uint16", ResetAcpiMethod |-> "str",
     ResetLuaCode |-> "LuaCode", TemperatureAlgorithmType |-> "TemperatureAlgorithmType",
     Sensors |-> "strs", TemperatureThresholds |-> "thresholds",
     FanSpeedPercentageOverrides |-> "overrides"]

SponsorFields ==
    [Name |-> "str", Description |-> "str", URL |-> "str", BannerURL |-> "str"]

ModelFields ==
    [NotebookModel |-> "str", Author |-> "str", Notice |-> "str",
     LegacyTemperatureThresholdsBehaviour |-> "bool", LuaLibraries |-> "strs",
     EcPollInterval |-> "uint16", CriticalTemperature |-> "int16",
     CriticalTemperatureOffset |-> "uint16", ReadWriteWords |-> "bool",
     Sponsor |-> "sponsor", FirmwareFingerprint |-> "strs",
     FanConfigurations |-> "fans", RegisterWriteConfigurations |-> "registers"]

Threshold_FromJson(node) == ObjectFromJson(ThresholdFields, FromNode, node)
Override_FromJson(node) == ObjectFromJson(OverrideFields, FromNode, node)
RegisterWrite_FromJson(node) == ObjectFromJson(RegisterWriteFields, FromNode, node)

FanFieldFromJson(type, node) ==
    CASE type = "thresholds" -> ArrayFromJson(Threshold_FromJson, node)
      [] type = "overrides" -> ArrayFromJson(Override_FromJson, node)
      [] OTHER -> FromNode(type, node)

Fan_FromJson(node) == ObjectFromJson(FanFields, FanFieldFromJson, node)
Sponsor_FromJson(node) == ObjectFromJson(SponsorFields, FromNode, node)

ModelFieldFromJson(type, node) ==
    CASE type = "fans" -> ArrayFromJson(Fan_FromJson, node)
      [] type = "registers" -> ArrayFromJson(RegisterWrite_FromJson, node)
      [] type = "sponsor" -> Sponsor_FromJson(node)
      [] OTHER -> FromNode(type, node)

ModelConfig_FromJson(node) == ObjectFromJson(ModelFields, ModelFieldFromJson, node)

---------------------------------------------------------------------------
(* Validation *)

Has(object, fields) == fields \subseteq DOMAIN object
Given(object, field, none) == IF Has(object, {field}) THEN object[field] ELSE none

\* Mutant: the flags are ored and not added.
SetsSome(object, fields) == IF fields \cap DOMAIN object = {} THEN 0 ELSE 1

Sets(object, fields) == Cardinality(fields \cap DOMAIN object)

IsPercentage(v) == v \in 0..Full

Entry(up, down, percent) ==
    [UpThreshold |-> up, DownThreshold |-> down, FanSpeed |-> percent * Part]

DefaultThresholds(legacy) ==
    IF legacy
    THEN <<Entry(0, 0, 0), Entry(60, 48, 10), Entry(63, 55, 20), Entry(66, 59, 50),
           Entry(68, 63, 70), Entry(71, 67, 100)>>
    ELSE <<Entry(60, 0, 0), Entry(63, 48, 10), Entry(66, 55, 20), Entry(68, 59, 50),
           Entry(71, 63, 70), Entry(75, 67, 100)>>

TemperatureThresholds_Valid(table) ==
    \A i \in DOMAIN table :
        /\ Has(table[i], DOMAIN ThresholdFields)
        /\ IsPercentage(table[i].FanSpeed)
        /\ table[i].UpThreshold >= table[i].DownThreshold
        /\ \A j \in DOMAIN table :
               i # j /\ Has(table[j], {"UpThreshold"})
               => table[i].UpThreshold # table[j].UpThreshold

Override_Valid(o) ==
    Has(o, {"FanSpeedPercentage", "FanSpeedValue"}) /\ IsPercentage(o.FanSpeedPercentage)

WithOperation(o) == Completed(o, [TargetOperation |-> "ReadWrite"])

RegisterModes == {"Set", "And", "Or"}

\* What a way to write a register has to have, and must not have.
ModeFits(r, mode, method, lua, value) ==
    CASE mode = "Call" -> Has(r, {method}) /\ Sets(r, {lua, value}) = 0
      [] mode = "Lua"  -> Has(r, {lua}) /\ Sets(r, {method, value}) = 0
      [] OTHER         -> Has(r, {"Register", value}) /\ Sets(r, {method, lua}) = 0

WithRegisterDefaults(r) ==
    Completed(r, [WriteMode |-> "Set", WriteOccasion |-> "OnInitialization",
                  ResetRequired |-> FALSE, ResetWriteMode |-> "Set"])

RegisterWriteConfiguration_Valid(r) ==
    /\ ModeFits(r, r.WriteMode, "AcpiMethod", "LuaCode", "Value")
    /\ IF r.ResetRequired
       THEN ModeFits(r, r.ResetWriteMode, "ResetAcpiMethod", "ResetLuaCode", "ResetValue")
       ELSE Sets(r, {"ResetLuaCode", "ResetAcpiMethod"}) = 0
    /\ {r.WriteMode, r.ResetWriteMode} \cap RegisterModes = {} => ~Has(r, {"Register"})

FanConfiguration_Valid(f) ==
    /\ Has(f, {"MinSpeedValue", "MaxSpeedValue"}) /\ f.MinSpeedValue # f.MaxSpeedValue
    /\ IF f.ResetRequired
       THEN Sets(f, {"FanSpeedResetValue", "ResetAcpiMethod", "ResetLuaCode"}) = 1
       ELSE Sets(f, {"ResetAcpiMethod", "ResetLuaCode"}) = 0
    /\ Sets(f, {"WriteRegister", "WriteAcpiMethod", "WriteLuaCode"}) = 1
    /\ Sets(f, {"ReadRegister", "ReadAcpiMethod", "ReadLuaCode"}) = 1
    /\ f.IndependentReadMinMaxValues =>
           Has(f, {"MinSpeedValueRead", "MaxSpeedValueRead"})
           /\ f.MinSpeedValueRead # f.MaxSpeedValueRead
    /\ \A i \in DOMAIN f.FanSpeedPercentageOverrides :
           Override_Valid(f.FanSpeedPercentageOverrides[i])
    /\ TemperatureThresholds_Valid(f.TemperatureThresholds)

\* The defaults of a fan; no table of thresholds is as good as an empty one.
WithFanDefaults(f, legacy) ==
    LET overrides == Given(f, "FanSpeedPercentageOverrides", <<>>)
        table == Given(f, "TemperatureThresholds", <<>>)
        set == [FanSpeedPercentageOverrides |-> [i \in DOMAIN overrides |-> WithOperation(overrides[i])],
                TemperatureThresholds |-> IF table = <<>> THEN DefaultThresholds(legacy) ELSE table]
    IN Completed(set, Completed(f, [FanDisplayName |-> "Fan #", IndependentReadMinMaxValues |-> FALSE,
                                    ResetRequired |-> FALSE]))

ModelDefaults ==
    [LegacyTemperatureThresholdsBehaviour |-> FALSE, EcPollInterval |-> 3000, CriticalTemperature |-> 75,
     CriticalTemperatureOffset |-> 15, ReadWriteWords |-> FALSE, RegisterWriteConfigurations |-> <<>>]

WithModelDefaults(c) ==
    LET m == Completed(c, ModelDefaults)
    IN [m EXCEPT
           !.RegisterWriteConfigurations = [i \in DOMAIN @ |-> WithRegisterDefaults(@[i])],
           !.FanConfigurations =
               [i \in DOMAIN @ |-> WithFanDefaults(@[i], m.LegacyTemperatureThresholdsBehaviour)]]

ModelConfig_Validate(c) ==
    IF \/ ~Has(c, {"NotebookModel", "FanConfigurations"})
       \/ c.FanConfigurations = <<>>
       \/ Has(c, {"Sponsor"}) /\ ~Has(c.Sponsor, {"Name", "URL", "BannerURL"})
    THEN Failed
    ELSE LET m == WithModelDefaults(c)
         IN IF /\ \A i \in DOMAIN m.RegisterWriteConfigurations :
                      RegisterWriteConfiguration_Valid(m.RegisterWriteConfigurations[i])
               /\ \A i \in DOMAIN m.FanConfigurations :
                      FanConfiguration_Valid(m.FanConfigurations[i])
            THEN {m} ELSE Failed

---------------------------------------------------------------------------
(* Files *)

\* The places a configuration is looked for in, as <<directory, name, ending>>.
Places(name) == <<<<"", name, "">>, <<"mutable", name, "">>, <<"mutable", name, ".json">>,
                  <<"static", name, "">>, <<"static", name, ".json">>>>

\* The first one that exists is the one; a broken file holds "garbage".
ModelConfig_FindAndLoad(disk, name) ==
    LET found == {i \in 1..5 : Places(name)[i] \in DOMAIN disk}
        first == CHOOSE i \in found : \A j \in found : i <= j
    IN IF found = {} THEN Failed
       ELSE LET node == disk[Places(name)[first]]
            IN IF node.type = "garbage" THEN Failed ELSE ModelConfig_FromJson(node)

Loaded(disk, name) == LET c == ModelConfig_FindAndLoad(disk, name)
                      IN IF c = Failed THEN Failed ELSE ModelConfig_Validate(The(c))
================================================================================
