------------------------------ MODULE ServiceFiles ------------------------------
(***************************************************************************)
(* The config of the service and its state, src/service_config.c and       *)
(* src/service_state.c, with all who read and write them: the service,     *)
(* which moves the orders that older versions kept in the config to the    *)
(* state (Service_Init in src/service.c), `nbfc config --set'              *)
(* (src/client/cmd_config.c) and `nbfc sensors set'                        *)
(* (src/client/cmd_sensors.c).  Each of them reads the config, and writes  *)
(* the whole of it later; nothing locks it.                                *)
(*                                                                         *)
(* A file is written by truncating it and then writing it: in between, and *)
(* for good if the writing fails, it is Garbage.                           *)
(***************************************************************************)
EXTENDS ConfigFiles

CONSTANT Desks      \* bound: what is on disk, what the user does, and what may fail

VARIABLES
    desk,       \* the configurations, the support files, the sensors; what is still to be done
    conf,       \* the file nbfc.json
    stored,      \* the file state.json
    editor,     \* the client: where it is, its edit and its ServiceConfig
    daemon,     \* the service: where it is, its ServiceConfig, ServiceState and number of fans
    settings,   \* history: what the user has set up, unless something went wrong with it
    wishes      \* history: the speeds he has ordered, likewise

vars == <<desk, conf, stored, editor, daemon, settings, wishes>>

Missing == [type |-> "missing"]
Unreadable == [type |-> "garbage"]

---------------------------------------------------------------------------
(* Reading *)

SourceFields == [FanIndex |-> "uint8", TemperatureAlgorithmType |-> "TemperatureAlgorithmType",
                 Sensors |-> "strs"]
ServiceFields == [SelectedConfigId |-> "str", EmbeddedControllerType |-> "EmbeddedControllerType",
                  TargetFanSpeeds |-> "floats", FanTemperatureSources |-> "sources"]
StateFields == [TargetFanSpeeds |-> "floats"]

\* The last three are names of older versions.
EmbeddedControllerType_FromString(s) ==
    LET names == [ec_sys |-> "ec_sys", acpi_ec |-> "acpi_ec", dev_port |-> "dev_port", dummy |-> "dummy",
                  ec_sys_linux |-> "ec_sys", ec_acpi |-> "acpi_ec", ec_linux |-> "dev_port"]
    IN IF s \in DOMAIN names THEN {names[s]} ELSE Failed

Source_FromJson(node) == ObjectFromJson(SourceFields, FromNode, node)

FieldFromJson(type, node) ==
    LET Float(n) == FromNode("float", n)
    IN CASE type = "floats" -> ArrayFromJson(Float, node)
         [] type = "sources" -> ArrayFromJson(Source_FromJson, node)
         [] type = "EmbeddedControllerType" ->
                UNION {EmbeddedControllerType_FromString(s) : s \in FromNode("str", node)}
         [] OTHER -> FromNode(type, node)

ServiceConfig_FromJson(node) == ObjectFromJson(ServiceFields, FieldFromJson, node)
ServiceState_FromJson(node) == ObjectFromJson(StateFields, FieldFromJson, node)

Speeds(c) == Given(c, "TargetFanSpeeds", <<>>)
Sources(c) == Given(c, "FanTemperatureSources", <<>>)

Auto == -Part
Clamped(speeds) == [i \in DOMAIN speeds |-> CASE speeds[i] > Full -> Full
                                              [] speeds[i] < 0 -> Auto
                                              [] OTHER -> speeds[i]]
WithClamped(c) == IF Has(c, {"TargetFanSpeeds"}) THEN [c EXCEPT !.TargetFanSpeeds = Clamped(@)] ELSE c

ServiceConfig_FromFile(file) ==
    {WithClamped(c) : c \in
        {c \in ServiceConfig_FromJson(file) :
            /\ Has(c, {"SelectedConfigId"})
            /\ \A i \in DOMAIN Sources(c) : Has(Sources(c)[i], {"FanIndex"})
            /\ \A i, j \in DOMAIN Sources(c) : Sources(c)[i].FanIndex = Sources(c)[j].FanIndex => i = j}}

\* What the client that changes SelectedConfigId reads: no rule is checked.
ServiceConfig_Load(file) == IF file = Missing THEN {<<>>} ELSE ServiceConfig_FromJson(file)

\* The service does not care if this fails.
ServiceState_FromFile(file) ==
    UNION {{Clamped(Speeds(s))} : s \in IF ServiceState_FromJson(file) = Failed THEN {<<>>}
                                        ELSE ServiceState_FromJson(file)}

---------------------------------------------------------------------------
(* Writing *)

Item(key, node) == <<[key |-> key, node |-> node]>>
TextItem(c, key) == IF Has(c, {key}) THEN Item(key, [type |-> "string", text |-> c[key]]) ELSE <<>>
ArrayItem(key, nodes) == IF nodes = <<>> THEN <<>> ELSE Item(key, [type |-> "array", elems |-> nodes])

\* An entry that has no fan is written with the first one.
SourceNode(s) ==
    LET sensors == Given(s, "Sensors", <<>>)
    IN [type |-> "object",
        items |-> Item("FanIndex", [type |-> "int", int |-> Given(s, "FanIndex", 0)])
                  \o TextItem(s, "TemperatureAlgorithmType")
                  \o ArrayItem("Sensors", [i \in DOMAIN sensors |-> [type |-> "string", text |-> sensors[i]]])]

\* TargetFanSpeeds are left out.
ServiceConfig_Write(c) ==
    [type |-> "object",
     items |-> TextItem(c, "SelectedConfigId") \o TextItem(c, "EmbeddedControllerType")
               \o ArrayItem("FanTemperatureSources", [i \in DOMAIN Sources(c) |-> SourceNode(Sources(c)[i])])]

ServiceState_Write(speeds) ==
    [type |-> "object",
     items |-> ArrayItem("TargetFanSpeeds",
                         [i \in DOMAIN speeds |-> [type |-> "double", parts |-> speeds[i]]])]

---------------------------------------------------------------------------
(* What the files are worth to the user *)

Setting(fan, sensors, algorithm) == [fan |-> fan, sensors |-> sensors, algorithm |-> algorithm]
Empty == [id |-> "", ec |-> "", entries |-> {}]

\* An entry without sensors and algorithm says nothing.
Says(entries) == {e \in entries : e.sensors # <<>> \/ e.algorithm # ""}

SettingOf(source) ==
    Setting(source.FanIndex, Given(source, "Sensors", <<>>), Given(source, "TemperatureAlgorithmType", ""))

Meaning(c) ==
    [id |-> c.SelectedConfigId, ec |-> Given(c, "EmbeddedControllerType", ""),
     entries |-> Says({SettingOf(Sources(c)[i]) : i \in DOMAIN Sources(c)})]

Ordered(speeds) == {<<i - 1, speeds[i]>> : i \in {j \in DOMAIN speeds : speeds[j] >= 0}}

\* What a service that starts now would take up.
Startable == ServiceConfig_FromFile(conf) # Failed
OnDisk == LET c == The(ServiceConfig_FromFile(conf))
          IN Ordered(IF Has(c, {"TargetFanSpeeds"}) THEN c.TargetFanSpeeds
                     ELSE The(ServiceState_FromFile(stored)))

\* The one or the other reads the config before the other has written it.
Apart == editor'.at = "idle" \/ daemon'.at \notin {"opens", "writes"}

Fresh ==
    /\ conf = desk.conf /\ stored = desk.stored
    /\ editor = [at |-> "idle"] /\ daemon = [at |-> "down"]
    /\ settings = {Meaning(c) : c \in ServiceConfig_FromFile(conf)}
    /\ wishes = IF Startable THEN {OnDisk} ELSE {}

Init == desk \in Desks /\ Fresh

Fault == desk.faults > 0 /\ desk' = [desk EXCEPT !.faults = @ - 1]

---------------------------------------------------------------------------
(* The client *)

Edits(cmd) == editor.at = "idle" /\ desk.edits # <<>> /\ Head(desk.edits).cmd = cmd
              /\ desk' = [desk EXCEPT !.edits = Tail(@)]

\* The name given may be "auto", a file's or a path.
Chosen(edit) ==
    LET lists == List_All_Configs(desk.disk)
    IN CASE edit.kind = "auto" -> {Get_Supported_Config(desk.support, files, desk.machine) : files \in lists}
         [] edit.kind = "name" -> {ConfigFiles_FindLoose(files, edit.name) : files \in lists}
         [] edit.kind = "path" -> {IF Places(edit.name)[1] \in DOMAIN desk.disk THEN {edit.name} ELSE Failed}

Config_Set ==
    /\ Edits("config")
    /\ \E name \in Chosen(Head(desk.edits)) :
          IF name = Failed \/ Loaded(desk.disk, The(name)) = Failed \/ ServiceConfig_Load(conf) = Failed
          THEN UNCHANGED editor
          ELSE editor' = [at |-> "opens", edit |-> [cmd |-> "config", name |-> The(name)],
                          fresh |-> conf = Missing,
                          config |-> Completed([SelectedConfigId |-> The(name)], The(ServiceConfig_Load(conf)))]
    /\ UNCHANGED <<conf, stored, daemon, wishes>>
    /\ settings' = IF Apart THEN settings ELSE {}

\* Mutant: an entry is always added.
AddFTSC(entries, fan) == Len(entries) + 1

\* The entry of the fan, or the one after the last.
Sensors_GetFTSCByFanIndex(entries, fan) ==
    LET of == {i \in DOMAIN entries : entries[i].FanIndex = fan}
    IN IF of = {} THEN Len(entries) + 1 ELSE Min(of)

Sensors_IsValidSensor(sensor) == sensor \in desk.sensors

\* What is not given is taken out of the entry.
SourceOf(edit) ==
    LET entry == [FanIndex |-> edit.fan, Sensors |-> edit.sensors,
                  TemperatureAlgorithmType |-> edit.algorithm]
        given == {"FanIndex"} \cup (IF edit.sensors = <<>> THEN {} ELSE {"Sensors"})
                 \cup (IF edit.algorithm = "" THEN {} ELSE {"TemperatureAlgorithmType"})
    IN [key \in given |-> entry[key]]

\* Service_LoadAllConfigFiles: the config and the model it selects must be valid.
CanEdit(edit) ==
    \E c \in ServiceConfig_FromFile(conf) : \E model \in Loaded(desk.disk, c.SelectedConfigId) :
        /\ edit.fan < Len(model.FanConfigurations)
        /\ edit.force \/ \A i \in DOMAIN edit.sensors : Sensors_IsValidSensor(edit.sensors[i])

Sensors_Set ==
    /\ Edits("sensors")
    /\ LET edit == Head(desk.edits)
           c == The(ServiceConfig_FromFile(conf))
           place == Sensors_GetFTSCByFanIndex(Sources(c), edit.fan)
           entries == [i \in (DOMAIN Sources(c)) \cup {place} |->
                          IF i = place THEN SourceOf(edit) ELSE Sources(c)[i]]
       IN editor' = IF CanEdit(edit)
                    THEN [at |-> "opens", edit |-> edit, fresh |-> FALSE,
                          config |-> Completed([FanTemperatureSources |-> entries], c)]
                    ELSE editor
    /\ UNCHANGED <<conf, stored, daemon, wishes>>
    /\ settings' = IF Apart THEN settings ELSE {}

ClientOpens ==
    /\ editor.at = "opens"
    /\ editor' = [editor EXCEPT !.at = "writes"] /\ conf' = Unreadable
    /\ UNCHANGED <<desk, stored, daemon, settings, wishes>>

\* Edited settings, as the user means it.
Edited(s, edit) ==
    IF edit.cmd = "config" THEN [s EXCEPT !.id = edit.name]
    ELSE [s EXCEPT !.entries = Says({e \in @ : e.fan # edit.fan}
                                    \cup {Setting(edit.fan, edit.sensors, edit.algorithm)})]

\* Orders of an older version that no service has moved yet are lost here.
ClientWrites ==
    /\ editor.at = "writes"
    /\ conf' = ServiceConfig_Write(editor.config) /\ editor' = [at |-> "idle"]
    /\ settings' = {Edited(s, editor.edit) : s \in IF editor.fresh THEN {Empty} ELSE settings}
    /\ wishes' = IF Has(editor.config, {"TargetFanSpeeds"}) THEN {} ELSE wishes
    /\ UNCHANGED <<desk, stored, daemon>>

\* The file cannot be opened, or not be written, or the client is killed.
ClientFails ==
    /\ editor.at # "idle" /\ Fault
    /\ editor' = [at |-> "idle"]
    /\ settings' = IF editor.at = "writes" THEN {} ELSE settings
    /\ UNCHANGED <<conf, stored, daemon, wishes>>

---------------------------------------------------------------------------
(* The service *)

\* The orders in the config, if there are any, are taken out of it.
Service_Init ==
    /\ daemon.at = "down" /\ desk.starts > 0 /\ desk' = [desk EXCEPT !.starts = @ - 1]
    /\ \E c \in ServiceConfig_FromFile(conf) :
          daemon' = [config |-> [k \in (DOMAIN c) \ {"TargetFanSpeeds"} |-> c[k]], fans |-> 0,
                     at |-> IF Has(c, {"TargetFanSpeeds"}) THEN "opens" ELSE "loads",
                     speeds |-> IF Has(c, {"TargetFanSpeeds"}) THEN c.TargetFanSpeeds
                                ELSE The(ServiceState_FromFile(stored))]
    /\ UNCHANGED <<conf, stored, editor, wishes>>
    /\ settings' = IF Apart THEN settings ELSE {}

MigrationOpens ==
    /\ daemon.at = "opens"
    /\ daemon' = [daemon EXCEPT !.at = "writes"] /\ conf' = Unreadable
    /\ UNCHANGED <<desk, stored, editor, settings, wishes>>

MigrationWrites ==
    /\ daemon.at = "writes"
    /\ daemon' = [daemon EXCEPT !.at = "loads"] /\ conf' = ServiceConfig_Write(daemon.config)
    /\ UNCHANGED <<desk, stored, editor, settings, wishes>>

\* It goes on: with the old orders still in the config, or without a config.
MigrationFails ==
    /\ daemon.at \in {"opens", "writes"} /\ Fault
    /\ daemon' = [daemon EXCEPT !.at = "loads"]
    /\ settings' = IF daemon.at = "writes" THEN {} ELSE settings
    /\ wishes' = {}
    /\ UNCHANGED <<conf, stored, editor>>

\* The model must be valid, and have every fan the config speaks of.
Models(c) ==
    {model \in Loaded(desk.disk, c.SelectedConfigId) :
        \A i \in DOMAIN Sources(c) : Sources(c)[i].FanIndex < Len(model.FanConfigurations)}

ServiceStarts ==
    /\ daemon.at = "loads"
    /\ \E model \in Models(daemon.config) :
          daemon' = [daemon EXCEPT !.at = "runs", !.fans = Len(model.FanConfigurations)]
    /\ UNCHANGED <<desk, conf, stored, editor, settings, wishes>>

\* Anything else fails as well, the controller or the sensors.
ServiceStartFails ==
    /\ daemon.at = "loads"
    /\ \/ Fault
       \/ Models(daemon.config) = {} /\ UNCHANGED desk
    /\ daemon' = [daemon EXCEPT !.at = "ends"]
    /\ UNCHANGED <<conf, stored, editor, settings, wishes>>

\* Service_WriteTargetFanSpeedsToState for an order for one fan: there is an entry
\* for every fan from now on.
SetFanSpeed ==
    /\ daemon.at = "runs" /\ desk.requests # <<>> /\ Head(desk.requests).fan < daemon.fans
    /\ desk' = [desk EXCEPT !.requests = Tail(@)]
    /\ LET request == Head(desk.requests)
           old(i) == IF i \in DOMAIN daemon.speeds THEN daemon.speeds[i] ELSE Auto
       IN /\ daemon' = [daemon EXCEPT !.speeds = [i \in 1..daemon.fans |->
                                                     IF i = request.fan + 1 THEN request.speed ELSE old(i)]]
          /\ wishes' = {{w \in all : w[1] # request.fan /\ w[1] < daemon.fans}
                        \cup (IF request.speed = Auto THEN {} ELSE {<<request.fan, request.speed>>}) :
                           all \in wishes}
    /\ UNCHANGED <<conf, stored, editor, settings>>

Quit ==
    /\ daemon.at = "runs"
    /\ daemon' = [daemon EXCEPT !.at = "ends"]
    /\ UNCHANGED <<desk, conf, stored, editor, settings, wishes>>

\* Service_Cleanup.
StateOpens ==
    /\ daemon.at = "ends"
    /\ daemon' = [daemon EXCEPT !.at = "saves"] /\ stored' = Unreadable
    /\ UNCHANGED <<desk, conf, editor, settings, wishes>>

StateWrites ==
    /\ daemon.at = "saves"
    /\ daemon' = [at |-> "down"] /\ stored' = ServiceState_Write(daemon.speeds)
    /\ UNCHANGED <<desk, conf, editor, settings, wishes>>

\* The state cannot be written, or the service is killed anywhere: what was not
\* on disk is forgotten.
ServiceDies ==
    /\ daemon.at # "down" /\ Fault
    /\ daemon' = [at |-> "down"]
    /\ settings' = IF daemon.at = "writes" THEN {} ELSE settings
    /\ wishes' = IF Startable THEN wishes \cap {OnDisk} ELSE {}
    /\ UNCHANGED <<conf, stored, editor>>

Next ==
    \/ Config_Set \/ Sensors_Set \/ ClientOpens \/ ClientWrites \/ ClientFails
    \/ Service_Init \/ MigrationOpens \/ MigrationWrites \/ MigrationFails
    \/ ServiceStarts \/ ServiceStartFails \/ SetFanSpeed \/ Quit
    \/ StateOpens \/ StateWrites \/ ServiceDies

---------------------------------------------------------------------------
(* What there may be at first *)

\* What the commands' options and the protocol let through.
IsEdit(e) ==
    \/ e.cmd = "config"
    \/ /\ e.cmd = "sensors" /\ e.fan \in Limits("uint8") /\ IsList(e.sensors)
       /\ e.algorithm \in {""} \cup Names("TemperatureAlgorithmType")
Requests == [fan : Nat, speed : {Auto} \cup (0..Full)]

IsDesk(d, nodes) ==
    /\ \A place \in DOMAIN d.disk : d.disk[place] \in nodes
    /\ IsList(d.edits) /\ \A i \in DOMAIN d.edits : IsEdit(d.edits[i])
    /\ d.requests \in Seq(Requests)

---------------------------------------------------------------------------
\* Whatever order the client, the service and its successors come in: the config is
\* one that the service reads without an error and means what the user has set up, and
\* once the service is down the next one takes up the orders he has given, also those
\* that an older version kept in the config.  It may still refuse to start with what it
\* reads, for a fan that there is not (fan_temperature_control.c:74).  Not promised
\* where a file could not be written, the service was killed with orders in memory, two
\* read the config before either had written it, or the config was edited before the
\* service had moved the old orders.
SettingsAreKept ==
    editor.at # "writes" /\ daemon.at # "writes" =>
        /\ \A s \in settings : \E c \in ServiceConfig_FromFile(conf) : Meaning(c) = s
        /\ \A all \in wishes : daemon.at = "down" /\ Startable => all = OnDisk
================================================================================
