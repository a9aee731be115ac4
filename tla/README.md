# NBFC-Linux in TLA+

NBFC-Linux controls the fans of notebooks.  A daemon, `nbfc_service`, reads
temperatures and writes fan speeds to the embedded controller (EC); a client,
`nbfc`, starts and stops it and talks to it over a socket; `ec_probe` reads and
writes the EC directly.  This directory models the program in TLA+, checks the
models with TLC on small instances and proves theorems about them with TLAPS.

Paths below are relative to the directory `src` of the repository (`service.c`
is `src/service.c`).

## The system

### Components, their state and their operations

| component | state | operations | modelled in |
|---|---|---|---|
| threshold manager (`temperature_threshold_manager.c`) | sorted table, current level | Init (sort), AutoSelectThreshold | `Thresholds`, `ThresholdManager` |
| fan (`fan.c`) | mode, target, requested speed, critical flag, level | SetTemperature, SetFixedSpeed, SetAutoSpeed, UpdateCurrentSpeed, ECFlush, ECReset; PercentageToFanSpeed, FanSpeedToPercentage | `Fan`, `FanSpeed` |
| service (`service.c`, `main.c`, the fan commands of `server.c`) | fans, suspended or not, recorded orders, failures, attempts | Init, Loop, Suspend, Resume, ResetEC, Cleanup, set-fan-speed | `Service` |
| state file (`service_state.c`) | the recorded orders on disk | FromFile, Write | `Service`, `ServiceFiles` |
| register writes (`register_write_configuration_utils.c`) | entries in force in the EC | Apply(occasion), Reset | `Service` |
| process lifecycle (`pidfile.c`, `client/service_control.c`, `main.c`) | PID file, socket file, processes | start, stop, restart, fork, atexit | `Lifecycle` |
| poll timer (`main.c`) and temperature filter (`temperature_filter.c`) | start time; ring buffer | wait; filter | `PollTimer`, `TemperatureFilter` |
| server (`server.c`, `protocol.c`) | client slots, their receive buffers | accept, receive, handle, send | `Server` |
| EC drivers (`ec_linux.c`, `ec_sys_linux.c`, `ec_cache.c`, `ec_debug.c`, `ec_dummy.c`) | port handshake, failure counter; cache | Open, Close, ReadByte, WriteByte, ReadWord, WriteWord | `EcPort` (ec_linux), `TestConfig` (ec_cache), `RegisterFile` (what all promise) |
| sensors (`fs_sensors.c`, `nvidia.c`, `vfio.c`, `fan_temperature_control.c`) | sources, selection per fan, libnvidia-ml | Init with waits, GetTemperature with min, max, average, fork, Cleanup | `Sensors` |
| model config (`model_config.c`, `generated/`) | parsed and validated config | FromJson, Validate, SetDefaults, FindAndLoad | `ModelConfig` |
| service config (`service_config.c`, `client/config_files.c`, `cmd_config.c`, `cmd_sensors.c`) | config and state on disk | `config --set`, `sensors set`, read, write, migration of old orders | `ConfigFiles`, `ServiceFiles` |
| config rating (`config_rating*.c`, `config_analysis.c`, `model_config_utils.c`, `cmd_rate_config.c`) | rules, scores, groups | rate, sort, group, list | `ConfigRating`, `RateConfig` |
| AML and ACPI analysis (`aml_*.c`, `acpi_analysis.c`) | fields, methods and regions of the firmware | queries; lexer and parser | the queries: `ConfigRating` |
| config test (`cmd_test_config.c`, `stress.c`, `spearman.c`) | readings, report, stress-ng | run, evaluate | `TestConfig`, `Spearman` |
| `ec_probe` (`ec_probe.c`, `probe/`, `range.c`) | register ranges, log, report | read, write, probe, dump, watch, monitor, evaluate, shell | `EcProbe`, `Range` |
| ACPI calls (`acpi_call.c`) | the acpi_call pseudo file | open, call, parse the answer | - |
| JSON (`nxjson.c`, `nxjson_memory.c`, `nxjson_write.c`) | memory pool, tree | parse, write | - |
| option parser (`cli99.c`), file and string helpers, logging, Lua bindings, the thin client commands | little | I/O and formatting | - |

### Interactions

`main` calls `Service_Init`, `Server_Init` and `Service_Loop` once, forks, and
then alternates between `Service_Loop` and the server loop; it is one thread,
so a command never interrupts a round.  What does happen at any time: signals
(they only set `quit`), SIGKILL, the firmware of the EC, failures of every
access to the EC and to a sensor, and other processes (clients that start and
stop the service, `ec_probe`).  The service and its successor communicate
through the state file; the service and the client through the socket and the
PID file; the fans and the firmware through the EC's registers.  The config and
the state are files that the service and two client commands read and rewrite
as a whole, without a lock.  `ec_probe` and `nbfc test-config` use the EC beside
whatever else writes to it; `nbfc rate-config` prints a list that is piped into
`nbfc test-config`.

### What is hard

* A round is a sequence of accesses, each of which may fail and end it: what
  has been written stays written, the fans behind the failure are skipped.
* The firmware can take the EC back between any two accesses.
* Commands change what rounds work with; orders must survive a restart, and
  are lost by a kill before the state file is written.
* Critical temperature, thresholds and user orders interact in one fan.
* Cleanup retries on the errors it is told of, which are not all errors.
* Starting and stopping is a protocol of two processes over files.
* Sources, GPU libraries and modules appear late, disappear and lie; three
  layers of configuration say which of them a fan uses.
* A config file comes from anyone: what is accepted must work everywhere it is
  used, in the service, in the test and in the rating.
* The test and the probe change a running machine and must leave it as it was.
* Boundaries: unsigned loop bounds, one-entry tables, overlapping bands,
  counters at their limit, clocks that step back, full buffers and slots.

`PROJECT.json` lists the hazards with their lines and the properties that
watch them.

## Modules

### `Thresholds`, `ThresholdManager`

`ThresholdManager` has the bubble sort and the two `while` loops of
`temperature_threshold_manager.c` one iteration per step; `thresholds`,
`current`, `i` and `j` are the C variables (indices count from 1), `pc` says
which loop runs, `config`, `before` and `last` are history.  `Thresholds` has
what the loops compute as a relation `Selects(legacy, th, i, t, k)`.  A call's
`Returns` leaves the table sorted and complete and a level that `Selects` allows,
and no other level would be allowed (`LoopsComputeSelects`): this entitles the
other modules to use the relation.  `ValidTables` are all those with an entry
and no `UpThreshold` twice.  Those that `ModelConfig_Validate` lets through are
among them: it also refuses an `UpThreshold` below its `DownThreshold`, which
the loops do not need, and a fan without a table has been given the default one.

### `Fan`

The part of `struct Fan` that changes, as a record, and the functions of
`fan.c` as operators on it.  Speeds are whole percentages, and registers hold
percentages here.  The conversion between the two, with its limits and
`FanSpeedPercentageOverrides`, is `FanSpeed`.

### `Service`

One action per access of the service to the outside, in the order of the code:

| code | actions |
|---|---|
| `Service_Init` until the EC is open | `Start`, `BootFailsWithoutEC` |
| the rest of `Service_Init`, `Server_Init` | `BootInitializes`, `BootFails` |
| `Service_Loop` | `ReadFan` per fan, `Reinitialize`, `ApplyOnWrite`, `FlushFan` per fan, and a failing form of each |
| `fork` after the first round | `Fork`, `ForkFails` |
| the sleep of 10 ms after a failed round | `Retry` |
| the server loop | `SetFanSpeed`, `SuspendResume` (`Service_Suspend`, `Service_SuspendFails`, `Service_Resume`), `EndServing` |
| `Service_Cleanup` | `ResetEC` per turn of its loop, `TruncateState`, `WriteState` |
| outside | `Signal`, `Kill`, `Firmware` |

`phase` is the program counter and `k` the fan a loop is at.  `reg` holds the
write registers and `applied` the OnInitialization entries in force; `rotor` is
the speed a fan really runs at, which is the register's in manual mode and the
firmware's choice otherwise.  This part is external: the code only tells that
there is a manual mode that OnInitialization entries establish, and that it may
be lost (`Service_Loop` checks for it).  `order` and `promised` are history:
what clients have been told.

The constants `OnSuspend` and `OnResume` say of each such entry which
OnInitialization entry it writes over or again, or that it has a register of its
own.  They are applied one after the other up to the first that fails, whatever
`--read-only` says; a suspend that fails leaves what it has written and answers
with an error.

Abstractions: temperatures are those after the temperature filter; a register
write succeeds or fails as a whole; OnWriteFanSpeed entries have no effect of
their own on the model's EC; errors carry no text.  Whether a start says `--read-only` is chosen at each start from
the constant `Options`.

### `Lifecycle`

Several processes of `nbfc_service` and the client commands around them.  What
they share is the PID file and the socket file.  `pc` of a service is where its
`main` is:

| code | actions |
|---|---|
| exec | `Spawn` (by hand), `Start` (by `nbfc start`) |
| `PID_Write` with the lock, before and after the open | `TakeLock`, `LockFails`, `WriteNumber`, `WriteNumberFails` |
| `Service_Init`, `Server_Init`, first `Service_Loop` | `Service_Init`, `Server_Init`, `Server_InitFails`, `FirstLoop` |
| the fork, parent and child | `Fork`, `ForkFails`, `ParentExits`, `Relock`, `Rewrite`, `ChildFails` |
| the main loop's end, the exit handlers | `EndMain`, `Server_Close`, `Service_Cleanup`, `PID_Cleanup` |
| `Service_Stop`, `Service_Start`, `Service_Restart` of a client | `Stop`, `StopNothing`, `StopKill`, `StopKillFails`, `StopUnlink`, `Start`, `SaysRunning`, `SaysUnreadable`, `StartReturns` |
| outside | `Kill` |

The file is a record of its identity (`inode`, named by the process that has
created it) and the number in it, because `PID_Write` keeps a descriptor of a
file that a client may have unlinked by the time the number is written.  The
forked child is a process of its own: it has the handlers, the listening
socket and its phase, and rewrites the PID file.

The PID file locks nothing against a `stop` in the middle of a start or a
`start` right after a stop.  The history variable `hasty` remembers that one of
the two has happened.  `OneController` and `Reachable` say what the files
promise as long as it has not, `LeavesNoFiles` and `StartEnds` do not need it.

### `PollTimer`

The wait between two rounds (`main.c:256-264`).  `passed` is `current - start`
by the clock that can be set, `waited` the time that has really passed (history),
`left` what remains of a call of `poll`; `Timeout` is the int the loop computes,
`Seen` what its condition reads of `quit`.  Clients end a call of `poll` at any
tick.  The clock may be set `MaxSettings` times by the `Steps` given, forward and
back, beyond the range of an int as well; the properties that talk about the
length of a wait speak of behaviours in which it has not been set.

### `TemperatureFilter`, `Sensors`

`TemperatureFilter` has the ring, the index, the sum and the switch to the full
ring's average as operators on a record; the sizes are those
`TemperatureFilter_Init` computes.  Temperatures are whole degrees, so sums are
exact where the code's are floats.

`Sensors` has one filter for each fan and what feeds it.  `phase` is where the
start is, `sources` the array `FS_Sensors_Sources`, `refs` the sources of each
fan by index, `todo` what the three layers of configuration still have to do to
a fan, `symbols`, `handle` and `ready` the state of libnvidia-ml.

| code | actions |
|---|---|
| `FS_Sensors_Init`: hwmon, with its waits | `HwMonFound`, `HwMonMissing`, `HwMonGivenUp` |
| `VFIO_CheckSysBusPciDevices` | `CheckVFIO` |
| `Nvidia_Init`, with its waits and reloads | `NvidiaFound`, `NvidiaNotReady`, `NvidiaMissing` |
| `FanTemperatureControls_Init` | `SetDefault`, `SetAlgorithm`, `ClearSources`, `AddKnown`, `AddUserFile`, `SelectFails` |
| `FanTemperatureControl_UpdateFanTemperature` | the action of that name |
| the fork and what follows it | `Fork`, `ReinitializeNvidia` |
| `FS_Sensors_Cleanup` | the action of that name |

What hwmon shows, what the library answers and what a file holds is chosen at
every access.  A sensor that is a command, `$` and a text, makes a source named
`command` whose file is the text; a path makes one named `anonymous`
(`UserSource`).  Sensors are compared with the names and files of the sources
there are by then (`Matches`).

### `Server`

`Server_Loop` in steps: `PollWakes` builds the table and fixes which clients
are to be handled (`polled`), `AcceptClient`, `RefuseClient` or `AcceptFails` deals
with the listening socket, then every client that was reported has its `Turn`:
`Handle`, `HandleTooLarge`, `KeepReading` or `ReadFails`.  Between any two of
these clients connect, write, shut down or disappear.  `queue` is that of the
listening socket.  `RefuseClient` returns to `poll` before any client is handled,
as the code does, and a connection that is gone may be made again, so refusals may
come without end.  A stream is a sequence
of units, text or the end marker, so messages arrive in pieces and may be
shorter, as long as and longer than the buffer.  Not modelled: that `fcntl` on
a descriptor just accepted fails, and that an answer is sent in part.

### `EcPort`

The driver `ec_linux.c`.  A try (`EC_Linux_TryReadByte`, `TryWriteByte`) is a
chain of waits and port accesses; `pc` is the link it is at, `half` the byte of a
word, `tries` the `i` of the retry loops, `failures` the static
`EC_Linux_WaitReadFailures`.

| code | actions |
|---|---|
| the public functions' entry, `Register > 254` | `Begin` |
| `EC_Linux_WaitWrite` | `WaitWrite`, `WaitWriteTimesOut` |
| `EC_Linux_WritePort` of command, register, value | `WriteCommand`, `WriteRegister`, `WriteValue`, `WritePortFails` |
| `EC_Linux_WaitRead`, with the counter | `WaitRead`, `WaitReadTimesOut` |
| `EC_Linux_ReadPort` of the data port | `ReadValue`, `ReadPortFails` |
| the retry loops, the two bytes of a word | `Fails`, `Succeeds` |
| the embedded controller (external) | `TakeCommand`, `TakeRegister`, `TakeValue`, `Answer` |

A wait may time out at any moment: this stands for `EC_Linux_RWTimeout` polls
that all come too early or fail.  The controller takes its input and answers
when it pleases.  `sent`, `written` and `abandoned` are history.  Not modelled:
the kernel's own driver, which uses the same ports, and machines that are big
endian, where `htole16` swaps the bytes of a word.

### `RegisterFile`

The abstract specification of all drivers: registers that change by the calls
that write them only, to the bytes those calls give; a call that succeeds has
left all of them, one that fails any.  `EcPort` implements it
(`ImplementsRegisterFile`): the registers are the controller's together with a
value that it has accepted but not stored, and a call is the one under way.  The
calls in `EcProbe` and `TestConfig` do in one step what `RegisterFile` promises.

### `Range`, `EcProbe`

`Range` parses and runs through the values of `ec_probe probe`, with arithmetic
that wraps at `MaxU64`; a text is the numbers, separators and the operator
`Range_FromString` splits it into.  `EcProbe` runs one command line after the
other.  `pc` is where the program is, `todo` the command lines to come, `opts`
those of the current one, `mem` the registers, `log` the readings of a
monitor, `report` the file it writes.

| code | actions |
|---|---|
| `main`, its checks and the lookup of a register's name | `Start`, `Main`, `Command` |
| `Initialize_EC` | `Initialize_EC`, `OpenFails` |
| read, write, the bits | `Read`, `Write`, `WriteOrDie`, `ReadOrDie` |
| probe | `Save`, `ProbeWrites`, `ProbeReads`, `Restore` and a failing form of each |
| dump, watch, monitor | `Scan`, `Loop`, `MonitorFails`, `WriteMonitorReport` |
| evaluate | `Evaluate` |
| shell | `ShellOpens`, `ShellCommand`, `ShellEnds` |
| outside | `Signal`, `Firmware` |

A monitor prints digits of base `Base.hex` or `Base.decimal` and evaluate reads
them back (`Printed`, `Parsed`): three digits of a base that holds a byte.
`load` beyond its check, `graph` and `lua` hand over to other programs.

### `ModelConfig`, `FanSpeed`, `Spearman`, `TestConfig`

`ModelConfig` is `model_config.c` with the generated converters: from the JSON
tree to the set of fields that are set, the bounds of every type, the defaults
and the rules between fields.  A conversion gives the set of its result, empty
if it fails.  `FanSpeed` has the limits, overrides and conversions of a fan,
and what is cut of a value that is written as a byte (`Fan_ECWriteValue`);
percentages are counted in `Part` parts of one percent, so that `float_eq` is
equality.  `Spearman` computes the doubled ranks and the correlation in whole
`Marks`, cut where the code has a float.

`TestConfig` is `nbfc test-config`: `phase` is where the program is, `stage`
which samples it takes, `tested` the configurations with their readings, `cache`
the bytes of `ec_cache.c` (filled byte by byte while others write), `child` where
stress-ng is.  The child arms `PR_SET_PDEATHSIG`, looks whether its parent is
still there and executes stress-ng; the parent may be killed at every point (`Kill`).  `held` and `sampled`
are history: what a register has held since the sample began, and what has been
read of it.

### `ConfigRating`, `RateConfig`

`ConfigRating` analyses what a configuration names, reads the rules and rates
one configuration by them and by what the analysis of the firmware says of each
register and method.  The firmware is the list of its fields, methods and regions.
`RateConfig` is the command: `BeginRating` finds the rules and the files,
`RateFile` takes one after the other and passes over broken ones,
`PrintResults` sorts, groups and filters; it ends in `crashed` where the code
reads a null pointer.

### `ConfigFiles`, `ServiceFiles`

`ConfigFiles` has the lists of configurations in two directories and the search
for the one of a machine.  `ServiceFiles` is about `nbfc.json` and `state.json`:

| code | actions |
|---|---|
| `nbfc config --set`, up to the file and from there | `Config_Set`, then `ClientOpens`, `ClientWrites`, `ClientFails` |
| `nbfc sensors set` | `Sensors_Set`, then the same |
| `Service_Init`, up to the migration | `Service_Init`, `MigrationOpens`, `MigrationWrites`, `MigrationFails` |
| the rest of it | `ServiceStarts`, `ServiceStartFails` |
| serving, leaving | `SetFanSpeed`, `Quit`, `StateOpens`, `StateWrites`, `ServiceDies` |

To open a file truncates it, so that a failure in between leaves garbage.
`settings` and `wishes` are history: what the user has set up and ordered,
emptied when something happens that no promise covers (see the property).

### `Tools`

Composes `EcProbe`, `RateConfig`, `TestConfig` and `ServiceFiles` as the programs
of one user on one EC; `Users` has what each of them is to do.  `ec_probe` writes
the registers a test samples, and a list that is rated is piped into a test
(`Piped`).  `ec_probe`'s state is the module's own, the others are instances.

## Runs

| run | instance | shows |
|---|---|---|
| `threshold_manager` | all valid tables of 1 to 3 entries over UpThresholds 1..3, temperatures 0..4, legacy and not | the sort sorts, indices stay inside the array, the loops compute `Selects`, the level never hunts and is never too low, calls return |
| `service` | 2 fans (two levels and one), 3 temperatures, 1 entry, 2 attempts, suspend | types, levels and critical states match the temperature, orders, actuation, critical fans, suspend, fans are reset on leaving |
| `service_liveness` | 2 fans, 2 temperatures, OnSuspend and OnResume entries on the register of the OnInitialization entry, with and without `--read-only` | the service regulates or leaves, signals end it, control is taken back; no write with `--read-only` but those of a suspend and a resume |
| `lifecycle` | 3 processes, 1 client | one controller, reachable services, no files left, start returns |
| `poll_timer` | an interval of 8 ticks, ints of 5 bits, the clock set twice | waits end; rounds are spaced, in time, and signals seen in time |
| `sensors` | 2 fans, 3 hwmon files, 4 configurations, 3 seconds of waiting, room for 2 of the files | fans use what their deciding layer names, readings and averages are sound, no call into a closed library, the start ends |
| `ec_port` | 3 registers, bytes and words, 2 tries, a limit of 1 | reads are right, calls return, the registers change as `RegisterFile` says |
| `server` | 3 connections at a time (one that writes) for 2 slots, buffers of 3 units | one answer each, progress, nobody refused without need |
| `tools` | 4 registers of 2 bits; some 230 command lines of `ec_probe`, 1000 config files, tests of two to four samples, 60 configurations on four firmwares, 70 states of the files of the service | probes restore and cover their ranges, monitors are evaluable, samples are of one moment, accepted configs work and convert, ratings are sound, settings and orders survive, programs end |

Service: the temperatures lie below, inside and above the band of the
thresholds and the band of the critical temperature; the comparisons at the
very bounds are those of `threshold_manager`.  Two fans are enough for what
concerns a fan before and a fan behind a failing one; the proofs below cover
any number.  `MaxFailures` is 2 instead of 100 and `MaxTries` 1 or 2 instead of
10: the code only compares the counters with their limit.  `Deviation` is 15 as
in the code; the firmware's speeds are chosen within and beyond it.

Lifecycle: a process identifier is used once, so three of them are a service
with its forked child and one more, or three that never fork: enough for every
pair of services that meets in a file.  They are given out in order.  One
client is enough, as a second service can also be started by hand.
CHECK_DEADLOCK is off because all identifiers may be used up: a `restart` then
finds none for the service it is to start.

PollTimer: eight ticks leave room for a wait that is interrupted more than
once; IntMax is 15, so the clock can be set beyond it (by 20).
CHECK_DEADLOCK is off in this run because the program ends.

Sensors: an interval of 2 and a time span of 3, so that the size of the ring is
rounded up to 2 and it is overwritten; temperatures are 0 and 60.  Hwmon
shows up to three files, one more than there is room for (MaxSources).  Three seconds of waiting are enough for a module that comes at once, later
and never.  The configurations have each layer decide for some fan, clear what
another one has said, name what does not exist and name a fan that does not.
CHECK_DEADLOCK is off because the service ends.

Tools: bytes of two bits have an end that `ec_probe probe 0-3` must reach and
not pass, words of four bits are walked by steps that overshoot, and MaxU64 of 20
lets them wrap.  Three rows of a log are one more than a monitor of two seconds
needs.  The config files have every subset of the fields that belong together,
in every mode, every bound from both sides and every kind of node in a place of
another kind.  Most command lines run alone; `ec_probe` writes during one test,
and one rating is piped into one.  For the files of the service: every state of
the old orders with every state of the state file, with an edit or requests and
one fault; every way a config may be wrong, with both editors.
CHECK_DEADLOCK is off because the programs end.

Server: with two slots, the third connection is refused or gets a slot that is
free again, again and again.  Only one writes (`Writers`): that keeps the instance
small, and the others are the idle clients of `MessagesAreHandled`, which fill the
slots and come and go.  (With two that write the run has been made once: 410,690
states, no error.)  A buffer of three units keeps one for
the end of the string, so one and two units of text are on both sides of its
limit.  `MaxUnits` bounds what a client has written and the server not read.
CHECK_DEADLOCK is off because all connections may be closed.

EcPort: three registers are a word, its neighbour and a last register that is too
high for a word; the calls overlap in registers.  With two tries and a limit of
one failed wait instead of 5 and 20, one call is enough to get beyond the limit,
and the next ones no longer wait.

Every property has a mutant in the modules (operators marked `Mutant`): a
plausible slip of the code that breaks it.

### Divergences

Three runs show where the program does not do what is said of it; `PROJECT.json`
quotes the sentences.

* `two_services`: `nbfc stop` unlinks the PID file when it has sent the signal,
  and so takes the lock away from a service that is still leaving; `nbfc start`
  then starts a second one beside it.
* `registers_not_reset`: the reset of a register that fails is not tried again
  if that of the last one succeeds.
* `suspended_in_word_only`: without an OnSuspend entry `nbfc suspend` is told
  that the service is suspended, and it is not.

### Observations

What the models also show and the code promises nothing about, or the
documentation words loosely:

* The OnInitialization entries are also written by a round that finds a fan far
  off its target, and OnWriteFanSpeed entries once per round and not by
  commands (`service.c:217-233`, `server.c:96-102`).
* The state file holds what was ordered up to the last stop; a kill loses
  orders since (`service.c:366`).
* A `stop` during the fork of a start unlinks the PID file of the child, which
  runs on without one; after a kill the PID file is left and `start` says the
  service is running (`client/service_control.c:200-240`).
* After more than 20 failed waits in a row a read never waits for its answer
  again, because only a wait clears the counter (`ec_linux.c:111`); it returns
  what the output buffer holds.  An answer that comes after its try has given up
  is taken for the answer to the next command (`ec_linux.c:132`).  `abandoned`
  marks both, and `ReadsAreRight` is about the time before.
* A clock that is set back during a wait makes the wait longer by as much
  (`main.c:257`).
* A client that connects and never sends keeps its slot for good (`server.c:286`).
* `Server_Loop` returns after each refusal (`server.c:449-453`), before it handles the
  clients with messages: as long as the slots are full and connections keep coming,
  complete messages are never read.  `MessagesAreHandled` makes an exception of
  refusals without end, and shows that there is no other.
* `--read-only` is not looked at where root's `suspend` and `resume` write their
  register entries (`service.c:322-324`, `340-342`).
* A fan whose sensor is `anonymous`, `command`, or the text of a command without
  its `$` uses the files and commands that other fans have added before it, and
  not those added later (`fs_sensors.c:321-362`).  What it uses depends on the
  order of the fans in the files.

`ec_probe`:

* Setting a bit reads the register, then writes it; what another process or the
  firmware has written in between is undone (`probe/cmd_read_write.c:137`).  The
  same holds for the value `probe` restores.
* SIGKILL and SIGHUP leave the probed value in the register.
* A monitor whose read of the EC or of a temperature fails loses its report.
* A line of the shell that is too long is cut, and its rest is run as the next
  command.

Configurations:

* The first file that exists is taken, even if it is broken and another
  directory has a good one (`ModelConfig_FindAndLoad`).
* Values above 255 are accepted for fans with byte registers and cut by a cast
  (`fan.c:126-129`), though `doc/nbfc_service.json.5.md:247-249` asks for a range
  of 0 to 255; `ConversionsAgree` speaks of the values that fit.  Register 255 is
  accepted with words, and every access to it fails; `AcceptedConfigsWork` does not
  say that registers fit.
* A value that is read is clamped to the limits before the overrides are looked
  up, so overrides of other values never apply.

`nbfc test-config`:

* With the GPU and two fans or more a score is the sum of two correlations, up to
  200 percent (`cmd_test_config.c:137` speaks of percent).
* The GPU's samples begin with the readings of the CPU's, so they may end after
  one.  If the temperatures never settle, a test never ends.
* The cache defeats the ten attempts of `Fan_UpdateCurrentSpeed`: they read the
  same bytes.

`nbfc rate-config`:

* `--bad` lists nothing as long as `--min-score` is at its default of 9
  (`doc/nbfc.1.md:187-189`: "List only bad configs that are otherwise omitted").
* `ResetWriteMode` `Call` or `Lua` without `ResetRequired` passes the validation
  without the field it needs; comparing two such configurations reads a null
  pointer (`RegisterWriteConfiguration_IsSimilar`), and the command crashes.
* Configurations that run the same Lua code are put in one group though their
  speeds differ.
* Of a register that is read or written as a word the rating looks at the field that
  begins in the first byte.  A configuration may be listed that reads or writes a field
  with a bad name in the second one (in the run `same` reads a word at 1, and `BTMP`
  is at 2).
* A rules file that was downloaded and is invalid fails the command; the builtin
  one is not tried.  A minimal match of each fan register
  (`client/cmd_rate_config.c:227-228`) follows from the average only while there are
  fewer than ten registers and methods: nine full matches make up for one that has
  none.  `RatingsAreSound` says it for those.
* Whether a region is verified compares names to the letter, where the lookup
  ignores trailing underscores.

Files of the service:

* `ServiceConfig_Write` leaves out `TargetFanSpeeds`: an edit by the client before
  the first start of a newer service loses the orders of the older one
  (`service.c:67` means to keep them).  Migrated orders are in no file until the
  service leaves, so that a kill loses them; if the config cannot be rewritten,
  they come back at every start.
* A write that fails, or a kill between truncating and writing, leaves a broken
  file.  Nothing keeps two editors apart: the later one undoes the other.
* An entry without `FanIndex` is written back as one of fan 0.
* `config --set` to a model with fewer fans says that it has succeeded and keeps
  the entries of fans that are gone; the service then refuses to start with
  `Invalid FanIndex` (`fan_temperature_control.c:74`), `sensors set` refuses to
  repair it, and `sensors show` passes over it.

### Fairness

* `Service`: `WF_vars(Run)`, the service process keeps taking its own steps.
  This includes `EndServing`, because the server loop is left after
  `EcPollInterval` at the latest (`PollTimer`).  Which of its steps is taken is
  left open: accesses may fail for ever.  Nothing is assumed of clients,
  signals, kills or the firmware.
* `Lifecycle`: each service keeps running until it serves, and from when it
  leaves (`WF_vars(Runs(p))`), and `system()` returns when its child is gone.
  Nothing is assumed of `EndMain`, kills and commands.
* `PollTimer`: the main loop runs, time passes, `poll` returns at the latest
  when its timeout is over.
* `EcPort`: the program runs (`WF_vars(Try)`); nothing is assumed of the
  controller.
* `Sensors`: the start runs (`WF_vars(FS_Sensors_Init \/ Select)`); its waits are
  bounded by `SleepTime`.  Nothing is assumed of the service afterwards.
* `Tools`: `ec_probe`, the test and stress-ng each keep running (`ProbeRuns`,
  `TestRuns`, `ChildRuns`).  Nothing is assumed of the user, the firmware, signals
  and failures, nor of the rating and the files of the service: about those only
  safety is said.
* `Server`: the loop runs (`WF_vars(Server_Loop)`), and a connection that is
  queued again and again is accepted or refused at some time: `accept` does
  not fail for ever (strong fairness, as the loop leaves and re-enters that
  step).  Nothing is assumed of the clients, which may connect as fast as they are
  refused.

## Proofs

Eight modules hold proofs; each proves about the specification it extends, for all
values of its constants.

`FiniteLemmas` has what the others share: least and greatest elements of finite
sets of integers, `Min` and `Max`, and sums over finite sets.  Induction is by
least counterexample, from the library's theorems that `<` on Nat and strict
inclusion of finite sets are well founded: none of the installed provers can
instantiate a theorem about an arbitrary predicate.

The first part of `Service_proofs` is about `AutoSelectThreshold`.  For every table
it stops at exactly one level (`SelectsSomething`, `SelectsOne`), the same
temperature selects the same level again (`SelectionIsAtRest`) and a higher
temperature does not select a lower one (`HotterIsNotLower`).

Its last part shows that the loops compute just that.  `Manager` is
`ThresholdManager` with all valid tables and all temperatures.  The invariant is
`ManagerInv == Sorting /\ Walking`.  `Sorting` says that the passes so far have
moved the largest thresholds to the end, that the pass under way carries the
largest it has met, and that the table is still made of the same entries.
`Walking` says that the loops' conditions held for the levels they have passed, and
that the level they started from was selected by the call before.  From it follow
`LoopsSelect` (`LoopsComputeSelects`) and `SteadyNeverHunts` (`NeverHunts`): a
temperature that holds still moves the level once at most, under the sort that the
code does itself.

`Service_proofs` proves type correctness.  `TypeOK` is not inductive: that
`failures` and `tries` stay in their ranges needs that the step that counts is
not taken at the limit (`Counters`), so the invariant proved is
`TypeInv == TypeOK /\ Counters`, one step of the proof per action.

It proves the safety properties of the runs, too, for any number of fans, tables,
temperatures, requests and limits:

* `OrdersAreKept`: `KeepsOrders` is inductive given types.  It takes a kill as given:
  the orders are then those of the file.
* `RoundsActuate` and `LevelsMatch` rest on `RoundInv`: the fans before `k` in a
  round are attended (level, critical flag and target match their temperature)
  and actuated; they need `SelectionIsAtRest`.
* `CriticalFansHold` needs types only; `SuspendedIsQuiet` and
  `ReadOnlyStaysQuiet` need that the phases that write entries are reached only
  by a service that controls the fans (part of `RoundInv`); the latter leaves
  out the steps of root's suspend and resume, where the code does write.
* `LeavingResetsFans`: `FansAreReset` is inductive.

All rest on `ServiceAssumption`: at least one fan, valid fan configs (a table
that is not empty, speeds in percent, a critical offset that is not negative),
limits of at least one.  The offset's sign matters: with a negative one a
temperature could be above the critical point and below the point of its end.

`Lifecycle_proofs`: the invariant is `LockInv == TypeOK /\ (~hasty => InOrder)`.
`OneService` alone is not inductive.  `InOrder` adds that a service that holds
the lock and was not told to stop has its file (`Locked`), that no stop is under
way during a start and nothing starts while what was stopped is alive
(`NoStartInStop`), that a client unlinks only what it has signalled
(`UnlinksItsOwn`), that the number written gets into the file (`Numbered`) and
whose the socket is (`Listens`).  `LockExcludes` and `ServicesAreReachable`
follow for any number of processes and clients; `LifecycleAssumption` only says
that `None` is no process and no file.  `FilesAreRemoved` (`LeavesNoFiles`) has an
invariant of its own, `FilesInv == TypeOK /\ (~broken => Removed)`, as it holds
without any order among the commands: as long as there is a file, some process that
will run the exit handlers is there to remove it, not always the one that has made it.

`PollTimer_proofs`: `TimerInv == TypeOK /\ (settings = 0 => Unset)`, where
`Unset` relates the start of the round, the start of `poll` and its timeout.
`WaitsInTime`, `SpacesRounds` and `QuitsInTime` hold for every interval that an
int can hold.

`EcPort_proofs`: what is written arrives only because every step of a try finds
the input buffer and the controller in the state the step before has left them
in (`InStep`), also after tries that failed halfway.  The inductive invariant
`EcPortInv` adds to it that a value in the buffer belongs to the register the
controller has (`Sent`), that a call keeps nothing of an earlier value
(`Unwritten`), that the lower byte of a word is not lost while the upper one is
written (`HalfWritten`) and that no other answer is under way
(`NoOtherAnswer`).  From it follow `ReadsRightly`, `DeliversWrites` and
`WritesNothingElse` for any registers, retries and limit; `AddressIs` shows that
the `uint8_t` sum never wraps round.  `IsARegisterFile` is the refinement: under
the mapping above every step of `EcPort` is one of `RegisterFile` or changes
nothing of it, for any registers, retries and limit.

`Server_proofs`: the invariant is `ServerInv`, types with `OneSlotEach` (the open
connections are those in the slots, each in one), `QueuedOnce` (those in the queue are
the queued ones, each once), `PolledAreOpen` (what `poll` has
reported is still open when its turn comes, whatever the turns before have closed)
and `AnsweredOnce`.  `ServerTypes` includes that no receive buffer is written beyond
its end.  `RefusesWhenFull` counts: without a free slot the slots and the open
connections are in bijection, so there are `MaxConnections` of them.

`Sensors_proofs`:

* `ReferencesAreSources`: `ControlsInv` says that the references of a fan are
  indices of `FS_Sensors_Sources`, and that there are none before the selection.
* `NvidiaIsOpen`: in addition to `NvidiaIsOpenWhenAsked`, the functions are not set
  while the library is being loaded and during the fork (`NvidiaInv`).
* `TemperaturesSound`: the filter `Holds` the last readings: the ring has them,
  oldest first from the index on, the sum is theirs, and before the ring is full the
  rest is zeros.  The quotient by the number of readable sources is between the
  least and the greatest of them.
* `SourcesFollow`: what a list of orders leaves a fan with (`Left`) is what its last
  layer with sensors names (`LeftByAll`, with a lemma for each layer).  The invariant
  `SelectionInv` splits the orders into those carried out and those still to do; the
  fans' references are all that is designated by what the former have left them with
  (`Gathers`).  A source added for one fan must not be designated by a sensor that
  another has been given its sources for already.  The theorem therefore assumes
  `SensorsAreUnambiguous`; without that the property is false, see the observation
  about `anonymous` above.  The configurations of the run satisfy it
  (`MCConfigsAssumption`), and TLC has checked `SelectionInv` on them, with `done` as
  what is missing of the orders at their front.

`Tools_proofs` is about the composed programs, so each step of the others has to leave
alone what the invariant is about.  `ProbeRestores` rests on `ProbeInv`: where a probe
is decides what it has written, and one that has ended either never got to write or
has tried last to write the saved value, whatever became of the writes before.
`ProbedValuesFit` and `ProbesAdvance` rest on `ProbedInv`: all ranges were checked before
the register is saved, and the value lies in the range the probe is at.  The arithmetic is in the lemmas
about `Range`: what `Range_Parse` accepts has a factor of two or more that does not
begin at zero, so that each step goes nearer to the end.  Both assume what the parsers
leave of the command lines (`CommandsAreParsed`, which TLC evaluates for those of the
run), among it that the largest values are numbers.
`SamplesOfOneMoment` rests on `SampleInv`: each byte of the cache was in its register
at some moment since the temperatures were read, and the values taken so far are bytes
of the cache.

`SettingsKept` is about the client, the service and its successors on the same two
files.  Its first part is about the converters: what a `*_FromJson` makes of a parsed
tree is typed (`ConfigIs`, `StateIs`), and what is written of a config or a state is
what reading it gives again (`ConfigRoundTrip`, `StateRoundTrip`), clamped by the rules
of `*_FromFile`.  The lemmas for one kind of object (`ItemsRead`, `ElemsRead` and their
inverses) are about any table of fields.  The second part is the invariant `FilesInv`,
types with
* `SettingsInv`: what the user has set up is in the file, or in the hands of the
  program that is about to write it; a client's config has the edit done on what was
  set up before, the service's is what was set up; two that write at a time mean that
  nothing is promised;
* `WishesInv`: the orders are with the service while there is one and in the files
  after it, in the config or in the state, of which the config is asked first.  A
  service that has moved the orders must therefore find none in the config, nor
  must a client that has read none write some.

`SettingsAreKept` alone is not inductive: it is silent while a program writes, and of
what the programs hold in memory.  The theorem assumes `DesksAreParsed`: the files hold
parsed trees (`AreNodes`: the elements of a node are nodes, numbers are integers), and
the edits and orders are what the options and the protocol let through, the index of a
fan being within a byte.  TLC evaluates it for the desks of the run.

`AcceptedWork` is about the configurations a test takes up, as `config --validate` and
the service do.  Its invariant `TestedInv` keeps of each that it was accepted
(`Accepted`) and that its fans are those `Fan_Init` made of it.  That what is accepted
can be worked with is the rest: of three fields of which one is set, it is this one if
it is neither of the others, which are then not set (`OneOfThree`, `NoneOfTwo`,
`FieldsOfFan`, `FieldsOfRegister`); a file
without a table gets the default one, so that none is empty (`DefaultsHaveTable`); and
the conditions of `FanConfiguration_Valid` are those a fan's conversions need
(`FansWork`).  It assumes `TestsAreParsed`, that the files of a test are parsed trees.
The property alone is not inductive: a test that is asked for takes up files that are
only named so far.

`ConversionsSound` rests on the same invariant, which also keeps that the limits of a
fan are numbers and its overrides say what they are for (`NumbersOfFan`, from what the
converters take of a file).  The arithmetic is in the lemmas about `Nearest`: it is at
most a half from the quotient, grows with it and is the quotient where that is whole.
What is cut to a byte is whole if the limits fit one (`FittingIsWhole`, `BetweenFits`),
and the first override of several decides (`FirstDecides`).  `TestsAreParsed` also
supposes that 2 to the number of bits is a positive number, which the provers cannot
compute.  From these a value lies between the limits (`WrittenWithin`), keeps the order of the
percentages, or reverses it where the limits are (`WrittenInOrder`), and is read back
to half a step and half a part of a percent (`WrittenIsReadBack`), for limits of any
size and in either order.  The half part is the model's: it counts percentages in
parts, the code has them as floating point.

`EvaluatesReadings` is about a `monitor` and an `evaluate` after it.  Its invariant
`ReadingsInv` adds to `ProbedInv`: the registers hold bytes, whoever writes them
(`MemoryInv`); the rows of the log are whole but for the one that is being read
(`LogInv`); the report was made of such a log (`ReportInv`); and an `evaluate` is on
its way or ends with what the property asks for (`EvaluateInv`).  The lemmas it rests on
are that a byte that is printed is read as that byte (`PrintedIsParsed`), that what is
shown of a column is in its order, and all of it if there is as much of it as of the
column (`ShownOf`, from `RanksAreTaken`: the ranks of a finite set of numbers are one to
its size), and that a row is therefore read back as it was shown (`RowIsReadBack`).  It
assumes `CommandsAreParsed`.

Model-checked only:

* the liveness properties: `RegulatesOrLeaves`, `QuitLeaves`, `TakesControlBack`,
  `StartEnds`, `MessagesAreHandled`, `NobodyQueuesForEver`, `CallsReturn`,
  `StartIsDecided`, `ProgramsEnd`;
* of `ProbesTheRanges` that the values are those of the ranges, none left out (that they
  fit and that each range ends is proved): the reference it compares with is recursive;
* `ReportsAreEvaluable` and `RatingsAreSound`: they compare rank correlations and
  ratings, which are folds over sorted sequences, with what these should be; the provers
  have no facts about `SortSeq` and folds, and induction over data is beyond them.

## Left to do

In this order:

1. A run for the configuration with fewer fans (above) as a violation of what
   `config --set` says.
2. `FanPolicy`, the abstract promise of one fan (a speed that follows from the
   last order and the last temperature), and that `Service` implements it, with
   a proof.
3. `AcpiCall`: a call and its answer as two accesses to a file that others use.
4. The socket between `Service` and `Server` as one composition.

## Not modelled

* Option parsing, formatting and printing, downloads, dumps and conversions, the
  wrappers of file and string functions: they have no state of their own beyond
  the call, or their work is text.
* The JSON parser and the AML lexer and parser work character by character or
  token by token; the trees and lists they deliver are where the models begin.
* ACPI calls and Lua: the methods of the firmware and the scripts of a
  configuration are unknown, and their values are inputs of the models.
* The threads of stress-ng and floating point: loads are temperatures that are
  given, correlations and percentages are exact fractions.
* `ec_sys_linux.c` is one `pread` or `pwrite` per call, `ec_dummy.c` an array,
  `ec_debug.c` prints: `RegisterFile` is what remains of them.

`PROJECT.json` lists each with its reason, and under `hazards` the ones no
property covers with a note.
