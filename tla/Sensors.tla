-------------------------------- MODULE Sensors --------------------------------
(***************************************************************************)
(* The temperature sources of the service: their discovery with its waits  *)
(* (src/fs_sensors.c, src/nvidia.c, src/vfio.c), the sources every fan is  *)
(* given by the three layers of configuration and the temperature made of  *)
(* them (src/fan_temperature_control.c, src/temperature_filter.c).         *)
(*                                                                         *)
(* A source is a record of its name and its file; FS_Sensors_Sources is a  *)
(* sequence of them and a reference is an index of it.  What hwmon shows,  *)
(* what libnvidia-ml answers and what a file holds is the environment's    *)
(* choice at every access.                                                 *)
(***************************************************************************)
EXTENDS TemperatureFilter, FiniteSetsExt, TLC

CONSTANTS
    NumFans,        \* fans of the model config
    Chips,          \* the hwmon files, as sources
    CPUNames,       \* the names IsCPUSensorName knows
    GPUNames,       \* the names IsGPUSensorName knows
    UserFiles,      \* sensors that are a path or a command
    Commands,       \* of those that are a command, `$' and its text: the text
    SleepTime,      \* sleep_time, 30 in the code
    MaxSources,     \* FS_SENSORS_MAX_SOURCES
    Temperatures,   \* what a source may give
    Devices,        \* the PCI devices, as sets of records of vendor and driver
    Configs         \* the configurations: records of the two files' entries

Fans == 1..NumFans
Algorithms == {"Average", "Min", "Max"}

\* What a file says of a fan; "unset" and <<>> if it says nothing.
ConfigEntry ==
    [fan : Nat, sensors : Seq(STRING), algorithm : Algorithms \cup {"unset"}]

ASSUME SensorsAssumption ==
    /\ NumFans \in Nat /\ SleepTime \in Nat /\ MaxSources \in Nat
    /\ Temperatures \subseteq Int
    /\ DOMAIN Commands \subseteq UserFiles /\ UserFiles \cap {"@CPU", "@GPU"} = {}
    /\ IsFiniteSet(Chips) /\ \A c \in Chips : DOMAIN c = {"name", "file"}
    /\ \A c \in Configs : /\ c.model \in [Fans -> ConfigEntry]
                         /\ c.service \in Seq(ConfigEntry)

Symbols == {"Init", "Shutdown", "GetHandleByIndex", "GetTemperature"}
NvidiaSource == [name |-> "nvidia-ml", file |-> "none"]

VARIABLES
    phase,      \* where FS_Sensors_Init, FanTemperatureControls_Init and main are
    slept,      \* seconds waited, by both loops together
    sources,    \* FS_Sensors_Sources
    symbols,    \* the functions of libnvidia-ml that are not NULL
    handle,     \* Nvidia_DlHandle is not NULL
    passthrough,\* what the check of VFIO has found
    ready,      \* external: nvml is initialised
    config,     \* what the two config files say of the fans
    todo,       \* what FanTemperatureControls_Init has still to do
    refs,       \* TemperatureSources of the fans
    algorithm,  \* TemperatureAlgorithmType of the fans
    filter,     \* TemperatureFilter of the fans
    recent      \* history: a fan's temperatures of the last time span

library == <<symbols, handle, ready>>
controls == <<refs, algorithm>>
vars == <<phase, slept, passthrough, sources, library, config, todo, controls, filter, recent>>

(***************************************************************************)
(* What the layers of configuration ask for, in the order of the code.     *)
(* An order is a record of what is to be done to which fan.                *)
(***************************************************************************)
ClearOf(f) == [do |-> "clear", fan |-> f]
AddTo(f, sensor) == [do |-> "add", fan |-> f, sensor |-> sensor]
AlgorithmOf(f, entry) ==
    IF entry.algorithm = "unset" THEN <<>>
    ELSE <<[do |-> "algorithm", fan |-> f, algorithm |-> entry.algorithm]>>

\* Mutant: a layer adds its sensors to those of the layer before.
SensorsOnTop(f, entry) == [i \in 1..Len(entry.sensors) |-> AddTo(f, entry.sensors[i])]

\* An entry without sensors leaves the fan those of the layer before.
SensorsOf(f, entry) ==
    IF entry.sensors = <<>> THEN <<>>
    ELSE <<ClearOf(f)>> \o [i \in 1..Len(entry.sensors) |-> AddTo(f, entry.sensors[i])]

\* FanTemperatureControl_SetDefaults; that there is no CPU sensor is no error.
SetDefaults == [f \in Fans |-> [do |-> "default", fan |-> f]]

SetByModelConfig(entries) ==
    FlattenSeq([f \in Fans |-> AlgorithmOf(f, entries[f]) \o SensorsOf(f, entries[f])])

SetByServiceConfig(entries) ==
    FlattenSeq([i \in 1..Len(entries) |->
        IF entries[i].fan \notin Fans THEN <<[do |-> "invalid", fan |-> entries[i].fan]>>
        ELSE AlgorithmOf(entries[i].fan, entries[i]) \o SensorsOf(entries[i].fan, entries[i])])

FanTemperatureControls_Init(c) ==
    SetDefaults \o SetByModelConfig(c.model) \o SetByServiceConfig(c.service)

(***************************************************************************)
(* Matching of sensors and sources.                                        *)
(***************************************************************************)
\* What a new source of the user's is called.
UserSource(sensor) ==
    IF sensor \in DOMAIN Commands THEN [name |-> "command", file |-> Commands[sensor]]
    ELSE [name |-> "anonymous", file |-> sensor]

\* FS_TemperatureSources_AddTemperatureSources: what a sensor designates.
Matches(sensor, source) ==
    CASE sensor = "@CPU" -> source.name \in CPUNames
      [] sensor = "@GPU" -> source.name \in GPUNames
      [] OTHER           -> \/ source.name = sensor \/ source.file = sensor
                            \/ sensor \in DOMAIN Commands /\ source = UserSource(sensor)

\* The indexes of the sources a sensor designates, in their order: the loop over
\* FS_Sensors_Sources.
Matching(sensor) ==
    LET upTo[n \in 0..Len(sources)] ==
            IF n = 0 THEN <<>>
            ELSE IF Matches(sensor, sources[n]) THEN Append(upTo[n - 1], n)
            ELSE upTo[n - 1]
    IN upTo[Len(sources)]

\* FS_TemperatureSources_AddTemperatureSource for each of them.
Refer(f, indexes) == refs' = [refs EXCEPT ![f] = @ \o indexes]

--------------------------------------------------------------------------------
Init ==
    /\ phase = "hwmon" /\ slept = 0 /\ passthrough = FALSE
    /\ sources = <<>>
    /\ symbols = {} /\ handle = FALSE /\ ready = FALSE
    /\ config \in Configs
    /\ todo = FanTemperatureControls_Init(config)
    /\ refs = [f \in Fans |-> <<>>]
    /\ algorithm = [f \in Fans |-> "Average"]
    /\ filter = [f \in Fans |-> TemperatureFilter_Init]
    /\ recent = [f \in Fans |-> <<>>]

(***************************************************************************)
(* FS_Sensors_Init                                                         *)
(***************************************************************************)
\* FS_Sensors_Init_HwMon: the chips whose name and temperature can be read, in
\* the order the directory gives them, up to the limit.
HwMonFound ==
    /\ phase = "hwmon" /\ slept < SleepTime
    /\ \E found \in SUBSET Chips \ {{}} :
         \E order \in SetToAllKPermutations(found) :
            /\ Len(order) = Min({MaxSources, Cardinality(found)})
            /\ sources' = order
    /\ phase' = "gpu"
    /\ UNCHANGED <<slept, passthrough, library, config, todo, controls, filter, recent>>

HwMonMissing ==
    /\ phase = "hwmon" /\ slept < SleepTime
    /\ slept' = slept + 1
    /\ UNCHANGED <<phase, passthrough, sources, library, config, todo, controls, filter, recent>>

HwMonGivenUp ==
    /\ phase = "hwmon" /\ slept = SleepTime
    /\ phase' = "gpu"
    /\ UNCHANGED <<slept, passthrough, sources, library, config, todo, controls, filter, recent>>

\* VFIO_CheckSysBusPciDevices: a GPU of NVIDIA that is passed through.
VFIO_CheckSysBusPciDevices(devices) ==
    \E d \in devices : d.vendor = "10de" /\ d.driver \in {"vfio-pci", "pci-stub"}

\* Whether libnvidia-ml is looked for at all; cmdline is VFIO_CheckProcCmdline.
CheckVFIO ==
    /\ phase = "gpu"
    /\ \E cmdline \in BOOLEAN, devices \in Devices :
         /\ passthrough' = (cmdline \/ VFIO_CheckSysBusPciDevices(devices))
         /\ phase' = IF passthrough' THEN "found" ELSE "nvidia"
    /\ UNCHANGED <<slept, sources, library, config, todo, controls, filter, recent>>

\* Mutant: the temperature function outlives the library.
Nvidia_CloseKeeps == symbols' = symbols \ {"Shutdown", "GetHandleByIndex"}

\* Nvidia_Close leaves the pointer to nvmlInit alone.
Nvidia_CloseClears == symbols' = symbols \cap {"Init"}

Nvidia_Close ==
    /\ Nvidia_CloseClears
    /\ handle' = FALSE
    /\ ready' = (ready /\ "Shutdown" \notin symbols)

\* FS_Sensors_Cleanup and FanTemperatureControls_Free, at any exit.
CleanupSensors ==
    /\ Nvidia_Close
    /\ sources' = <<>>
    /\ refs' = [f \in Fans |-> <<>>]

\* Nvidia_Init: the library is missing, lacks one of the four functions (those
\* after it keep their value), refuses one of the three calls, or answers.
SymbolsBefore(symbol) ==
    CASE symbol = "Init"             -> {}
      [] symbol = "Shutdown"         -> {"Init"}
      [] symbol = "GetHandleByIndex" -> {"Init", "Shutdown"}
      [] symbol = "GetTemperature"   -> {"Init", "Shutdown", "GetHandleByIndex"}

Nvidia_Error_DlOpen ==
    \/ handle = FALSE /\ UNCHANGED library
    \/ \E missing \in Symbols :
         /\ symbols' = SymbolsBefore(missing) \cup (symbols \ (SymbolsBefore(missing) \cup {missing}))
         /\ handle' = TRUE /\ UNCHANGED ready

\* A call fails; Nvidia_Close of all that has just been loaded.
Nvidia_Error_API == symbols' = {"Init"} /\ handle' = FALSE /\ ready' = FALSE

Nvidia_OK == symbols' = Symbols /\ handle' = TRUE /\ ready' = TRUE

NvidiaFound ==
    /\ phase = "nvidia" /\ slept < SleepTime
    /\ Nvidia_OK
    /\ sources' = Append(sources, NvidiaSource)
    /\ phase' = "found"
    /\ UNCHANGED <<slept, passthrough, config, todo, controls, filter, recent>>

\* Mutant: a GPU that does not answer starts the whole discovery again.
NvidiaStartsOver ==
    /\ phase = "nvidia" /\ slept < SleepTime
    /\ Nvidia_Error_API
    /\ phase' = "hwmon" /\ slept' = 0 /\ sources' = <<>>
    /\ UNCHANGED <<passthrough, config, todo, controls, filter, recent>>

NvidiaNotReady ==
    /\ phase = "nvidia" /\ slept < SleepTime
    /\ Nvidia_Error_API
    /\ slept' = slept + 1
    /\ UNCHANGED <<phase, passthrough, sources, config, todo, controls, filter, recent>>

NvidiaMissing ==
    /\ phase = "nvidia"
    /\ IF slept < SleepTime THEN Nvidia_Error_DlOpen ELSE UNCHANGED library
    /\ phase' = "found"
    /\ UNCHANGED <<slept, passthrough, sources, config, todo, controls, filter, recent>>

\* FS_Sensors_Init fails only if there is no source at all; Service_Init then
\* has nothing of the sensors to clean up.
SensorsInitialized ==
    /\ phase = "found"
    /\ phase' = IF sources = <<>> THEN "failed" ELSE "select"
    /\ UNCHANGED <<slept, passthrough, sources, library, config, todo, controls, filter, recent>>

(***************************************************************************)
(* FanTemperatureControls_Init                                             *)
(***************************************************************************)
Selecting(what) == phase = "select" /\ todo # <<>> /\ Head(todo).do = what

Done == todo' = Tail(todo) /\ UNCHANGED <<phase, slept, passthrough, library, config, filter, recent>>

SetDefault ==
    /\ Selecting("default")
    /\ LET f == Head(todo).fan
       IN /\ algorithm' = [algorithm EXCEPT ![f] = "Average"]
          /\ Refer(f, Matching("@CPU"))
    /\ UNCHANGED sources /\ Done

SetAlgorithm ==
    /\ Selecting("algorithm")
    /\ algorithm' = [algorithm EXCEPT ![Head(todo).fan] = Head(todo).algorithm]
    /\ UNCHANGED <<sources, refs>> /\ Done

ClearSources ==
    /\ Selecting("clear")
    /\ refs' = [refs EXCEPT ![Head(todo).fan] = <<>>]
    /\ UNCHANGED <<sources, algorithm>> /\ Done

\* A sensor that is known: every source it designates.
AddKnown ==
    /\ Selecting("add")
    /\ Matching(Head(todo).sensor) # <<>>
    /\ Refer(Head(todo).fan, Matching(Head(todo).sensor))
    /\ UNCHANGED <<sources, algorithm>> /\ Done

\* Mutant: the new source is put before the known ones.
AddUserFileFirst ==
    /\ Selecting("add")
    /\ Matching(Head(todo).sensor) = <<>>
    /\ Head(todo).sensor \in UserFiles
    /\ sources' = <<UserSource(Head(todo).sensor)>> \o sources
    /\ Refer(Head(todo).fan, <<1>>)
    /\ UNCHANGED algorithm /\ Done

\* A sensor that is not known is a file or a command of the user's, which is
\* read before it is added.
AddUserFile ==
    /\ Selecting("add")
    /\ Matching(Head(todo).sensor) = <<>>
    /\ Head(todo).sensor \in UserFiles
    /\ sources' = Append(sources, UserSource(Head(todo).sensor))
    /\ Refer(Head(todo).fan, <<Len(sources) + 1>>)
    /\ UNCHANGED algorithm /\ Done

\* An invalid fan, a group without sensors, or a file that cannot be read:
\* Service_Init fails.
SelectFails ==
    /\ \/ Selecting("invalid")
       \/ Selecting("add") /\ Matching(Head(todo).sensor) = <<>>
    /\ CleanupSensors
    /\ phase' = "failed"
    /\ UNCHANGED <<slept, passthrough, config, todo, algorithm, filter, recent>>

Selected ==
    /\ phase = "select" /\ todo = <<>>
    /\ phase' = "running"
    /\ UNCHANGED <<slept, passthrough, sources, library, config, todo, controls, filter, recent>>

(***************************************************************************)
(* The running service                                                     *)
(***************************************************************************)
\* No temperature: the file, the command or the library gives an error.
Unreadable == -9999

\* What the sources may give at a time.  nvidia-ml is not asked unless it is open.
Readings == { r \in [1..Len(sources) -> Temperatures \cup {Unreadable}] :
                \A i \in 1..Len(sources) :
                    sources[i] = NvidiaSource /\ "GetTemperature" \notin symbols
                    => r[i] = Unreadable }

\* The references of a fan that can be read.
Readable(f, r) == {n \in 1..Len(refs[f]) : r[refs[f][n]] # Unreadable}

\* Mutant: a source that cannot be read counts in the divisor.
MeanOverAll(f, r) ==
    SumFunction([n \in Readable(f, r) |-> r[refs[f][n]]]) \div Len(refs[f])

Given(f, r) == {r[refs[f][n]] : n \in Readable(f, r)}

\* The mean of the readable references; a source that is referred to twice
\* counts twice.
Mean(f, r) ==
    SumFunction([n \in Readable(f, r) |-> r[refs[f][n]]]) \div Cardinality(Readable(f, r))

\* FS_TemperatureSources_GetTemperature.
GetTemperature(f, r) ==
    CASE algorithm[f] = "Average" -> Mean(f, r)
      [] algorithm[f] = "Min"     -> Min(Given(f, r))
      [] algorithm[f] = "Max"     -> Max(Given(f, r))

FanTemperatureControl_UpdateFanTemperature(f, r) ==
    /\ phase \in {"running", "daemon"}
    /\ Readable(f, r) # {}
    /\ LET t == GetTemperature(f, r)
           all == Append(recent[f], t)
       IN /\ filter' = [filter EXCEPT ![f] = Filtered(@, t)]
          /\ recent' = [recent EXCEPT ![f] =
                            IF Len(@) * PollInterval < Timespan THEN all ELSE Tail(all)]
    /\ UNCHANGED <<phase, slept, passthrough, sources, library, config, todo, controls>>

\* The daemon's half of the fork: the library is closed before and loaded again
\* after it, and what comes of that is not looked at.
Fork ==
    /\ phase = "running"
    /\ phase' = "forking"
    /\ Nvidia_Close
    /\ UNCHANGED <<slept, passthrough, sources, config, todo, controls, filter, recent>>

ReinitializeNvidia ==
    /\ phase = "forking"
    /\ phase' = "daemon"
    /\ Nvidia_OK \/ Nvidia_Error_API \/ Nvidia_Error_DlOpen
    /\ UNCHANGED <<slept, passthrough, sources, config, todo, controls, filter, recent>>

FS_Sensors_Cleanup ==
    /\ phase \in {"running", "daemon"}
    /\ phase' = "ended"
    /\ CleanupSensors
    /\ UNCHANGED <<slept, passthrough, config, todo, algorithm, filter, recent>>

FS_Sensors_Init == HwMonFound \/ HwMonMissing \/ HwMonGivenUp \/ CheckVFIO
                   \/ NvidiaFound \/ NvidiaNotReady \/ NvidiaMissing \/ SensorsInitialized

Select == SetDefault \/ SetAlgorithm \/ ClearSources \/ AddKnown \/ AddUserFile
          \/ SelectFails \/ Selected

Serve == \/ \E f \in Fans, r \in Readings : FanTemperatureControl_UpdateFanTemperature(f, r)
         \/ Fork \/ ReinitializeNvidia \/ FS_Sensors_Cleanup

Next == FS_Sensors_Init \/ Select \/ Serve

Spec == Init /\ [][Next]_vars /\ WF_vars(FS_Sensors_Init \/ Select)

--------------------------------------------------------------------------------

\* The layer that decides for a fan: the last entry of the service config with
\* sensors for it, or the model config, or the default.
Deciding(f) ==
    LET user == {i \in 1..Len(config.service) :
                    config.service[i].fan = f /\ config.service[i].sensors # <<>>}
    IN IF user # {} THEN config.service[Max(user)].sensors
       ELSE IF config.model[f].sensors # <<>> THEN config.model[f].sensors
       ELSE <<"@CPU">>

\* The sensors a configuration names for any fan, by the layers that are overridden
\* too: what is added for one fan is a source for the others.
Named(c) ==
    LET orders == FanTemperatureControls_Init(c)
    IN {"@CPU"} \cup {orders[i].sensor : i \in {j \in 1..Len(orders) : orders[j].do = "add"}}

\* No sensor designates the source of another of the same configuration.  One that
\* does (`anonymous', `command', the text of a command without its `$') is given the
\* sources that have been added by then, and not those that are added later.
SensorsAreUnambiguous ==
    \A c \in Configs : \A sensor \in Named(c), file \in Named(c) \cap UserFiles :
        Matches(sensor, UserSource(file)) => sensor = file

\* A started service takes a fan's temperature from the sources the deciding
\* layer names, all of them and no others, whatever the other layers named.
SourcesFollowTheConfig ==
    phase \in {"running", "forking", "daemon"} =>
        \A f \in Fans :
            {refs[f][n] : n \in 1..Len(refs[f])}
              = {i \in 1..Len(sources) :
                    \E m \in 1..Len(Deciding(f)) : Matches(Deciding(f)[m], sources[i])}

\* A function of libnvidia-ml the service may call is one of a library that is
\* loaded and initialised: across failed initialisations, the fork and the exit
\* no pointer outlives what it points into.
NvidiaIsOpenWhenAsked == "GetTemperature" \in symbols => handle /\ ready

\* The temperature of a fan is the average of those of the last time span, from
\* the first on: the running sum has lost nothing and kept nothing, and what it
\* is divided by is the number of readings in it.
AveragesTheTimespan ==
    \A f \in Fans : recent[f] # <<>> =>
        /\ Average(filter[f]).by = Len(recent[f])
        /\ Average(filter[f]).sum = SumFunction(recent[f])

\* A source that cannot be read neither raises nor lowers a fan's temperature: it
\* stays within what the fan's readable sources give, also when only one is left.
WithinTheReadable ==
    phase \in {"running", "daemon"} =>
        \A f \in Fans, r \in Readings : Readable(f, r) # {} =>
            Min(Given(f, r)) <= GetTemperature(f, r) /\ GetTemperature(f, r) <= Max(Given(f, r))

\* Both together: the temperature a fan is regulated by is the average over the time
\* span of what its readable sources gave.
TemperaturesAreSound == AveragesTheTimespan /\ WithinTheReadable

\* The waits for hwmon and for the GPU end, whether either answers or not: the
\* service runs or has given up.
StartIsDecided == <>(phase \in {"running", "failed"})
================================================================================
