------------------------------- MODULE Service -------------------------------
(***************************************************************************)
(* The fan control service: src/service.c, the main loop of src/main.c and *)
(* the commands of src/server.c, over fans as in Fan.tla.                  *)
(*                                                                         *)
(* The process has one thread.  Service_Loop reads every fan, applies the  *)
(* register writes of the model config and then senses and actuates fan    *)
(* after fan; each of those accesses can fail, and the first failure ends  *)
(* the round.  Between two rounds the server answers commands until        *)
(* EcPollInterval has passed.  Around it, the firmware may take the        *)
(* embedded controller (EC) back at any time, signals ask the service to   *)
(* quit, and the process may be killed.                                    *)
(***************************************************************************)
EXTENDS Fan

CONSTANTS
    NumFans,        \* fans in the model config
    Config,         \* Config[f]: what Fan_Init copies for fan f
    Legacy,         \* LegacyTemperatureThresholdsBehaviour
    NumRwcs,        \* OnInitialization entries of RegisterWriteConfigurations
    OnSuspend,      \* for each OnSuspend entry, the OnInitialization entry whose
                    \* register it writes over, or 0: a register of its own
    OnResume,       \* for each OnResume entry, the one it writes again, or 0
    ResetRequired,  \* the fans configured with ResetRequired
    Options,        \* what starts of the service say of --read-only
    Temperatures,   \* filtered temperatures the sensors may give
    Requests,       \* speeds clients ask for, Automatic among them
    FirmwareSpeeds, \* speeds the firmware may run the fans at
    MaxFailures,    \* consecutive failed rounds before the service gives up
    MaxTries,       \* attempts of ResetEC
    Deviation       \* percent off target that calls for re-initialization

Fans == 1..NumFans
Rwcs == 1..NumRwcs

ASSUME ServiceAssumption ==
    /\ NumFans \in Nat \ {0} /\ NumRwcs \in Nat
    /\ \A f \in Fans : ValidFanConfig(Config[f])
    /\ Legacy \in BOOLEAN /\ Options \subseteq BOOLEAN
    /\ ResetRequired \subseteq Fans
    /\ Temperatures \subseteq Int
    /\ Requests \subseteq Speed \cup {Automatic}
    /\ FirmwareSpeeds \subseteq Speed
    /\ MaxFailures \in Nat \ {0} /\ MaxTries \in Nat \ {0}
    /\ Deviation \in Nat

ASSUME EntriesAssumption == OnSuspend \in Seq(0..NumRwcs) /\ OnResume \in Seq(0..NumRwcs)

\* FanSpeedResetValue, or the effect of the reset method: no speed of ours.
Reset == 101

VARIABLES
    \* the service process
    phase,      \* where main is, see Phases
    k,          \* the fan a loop over Service_Fans is at
    fan,        \* Service_Fans[f].Fan
    temp,       \* Service_Fans[f].Temperature
    reinit,     \* re_init_required
    started,    \* the first Service_Loop has succeeded
    readOnly,   \* options.read_only
    ecOpen,     \* Service_State is Initialized_5_Embedded_Controller or 6
    failures,   \* failures in main
    quit,       \* set by SIGINT and SIGTERM
    inSuspend,  \* Service_InSuspend
    state,      \* Service_ServiceState.TargetFanSpeeds
    tries,      \* tries in ResetEC
    failed,     \* failed in ResetEC
    \* what outlives the process
    file,       \* NBFC_STATE_FILE
    reg,        \* the fans' write registers
    applied,    \* the OnInitialization entries in force in the EC
    rotor,      \* the speeds the fans run at
    \* what the users were promised (history)
    order,      \* the last acknowledged order for each fan
    promised    \* a client was told "Service suspended", and no resume since

process == <<phase, k, fan, temp, reinit, started, ecOpen, failures, quit,
             inSuspend, state, tries, failed, readOnly>>
ec      == <<reg, applied, rotor>>
history == <<order, promised>>
vars    == <<process, file, ec, history>>

Phases == {"down",                 \* not running
           "boot",                 \* Service_Init, Server_Init
           "read", "init", "onwrite", "flush",     \* the parts of Service_Loop
           "fork",                 \* fork and PID_Write after the first round
           "retry",                \* sleep after a failed round
           "serve",                \* Server_Loop, until EcPollInterval is over
           "reset", "save", "write"}               \* Service_Cleanup

-----------------------------------------------------------------------------
Service_ShouldControlFans == ~ readOnly /\ ~ inSuspend

\* In manual mode (every OnInitialization entry in force) the fan runs at the
\* speed in its register; otherwise the firmware decides.
Follow(r, a) == [f \in Fans |-> IF a = Rwcs /\ r[f] \in Speed THEN r[f] ELSE rotor[f]]

WriteEC(r, a) == reg' = r /\ applied' = a /\ rotor' = Follow(r, a)

Abs(x) == IF x < 0 THEN - x ELSE x

OrderIn(entry) == IF entry = None THEN Automatic ELSE entry

\* Service_Cleanup begins: Service_Init calls it when it fails, atexit when
\* main returns.  ResetEC is called when the EC has been opened for writing.
BeginCleanup(opened) ==
    /\ phase' = IF opened /\ ~ readOnly THEN "reset" ELSE "save"
    /\ tries' = MaxTries /\ failed' = FALSE

\* The locals of Service_Loop are gone when it returns.
LeaveRound == k' = 1 /\ reinit' = FALSE

GivesUp == failures' >= MaxFailures

\* Mutant: failed rounds are not counted.
RoundFailsForever ==
    /\ LeaveRound
    /\ IF ~ started
       THEN BeginCleanup(ecOpen) /\ UNCHANGED failures
       ELSE phase' = "retry" /\ UNCHANGED <<failures, tries, failed>>

\* Service_Loop returns an error.  The first call is made before the main
\* loop and ends the service; later ones are counted and tried again.
RoundFails ==
    /\ LeaveRound
    /\ IF ~ started
       THEN BeginCleanup(ecOpen) /\ UNCHANGED failures
       ELSE /\ failures' = failures + 1
            /\ IF GivesUp
               THEN BeginCleanup(ecOpen)
               ELSE phase' = "retry" /\ UNCHANGED <<tries, failed>>

\* Service_Loop returns success.  After the first call main forks, after
\* the others it serves.
RoundSucceeds ==
    /\ LeaveRound
    /\ phase' = IF started THEN "serve" ELSE "fork"
    /\ failures' = 0 /\ started' = TRUE

-----------------------------------------------------------------------------
Init == /\ phase = "down" /\ k = 1
        /\ fan = [f \in Fans |-> Fan_Init]
        /\ temp = [f \in Fans |-> 0]
        /\ reinit = FALSE /\ started = FALSE /\ ecOpen = FALSE /\ failures = 0
        /\ quit = FALSE /\ inSuspend = FALSE /\ readOnly = FALSE
        /\ state = [f \in Fans |-> None]
        /\ tries = MaxTries /\ failed = FALSE
        /\ file \in [Fans -> Requests \cup {None}]
        /\ order = [f \in Fans |-> OrderIn(file[f])]
        /\ promised = FALSE
        /\ reg = [f \in Fans |-> Reset]
        /\ applied = {}
        /\ rotor \in [Fans -> FirmwareSpeeds]

\* The process is gone and with it what it had in memory.
ProcessEnds ==
    /\ phase' = "down" /\ k' = 1
    /\ fan' = [f \in Fans |-> Fan_Init]
    /\ temp' = [f \in Fans |-> 0]
    /\ reinit' = FALSE /\ started' = FALSE /\ ecOpen' = FALSE /\ failures' = 0
    /\ quit' = FALSE /\ inSuspend' = FALSE /\ promised' = FALSE
    /\ readOnly' = FALSE
    /\ state' = [f \in Fans |-> None]
    /\ tries' = MaxTries /\ failed' = FALSE

\* Service_Init up to the opening of the EC: a fresh process reads the state
\* file and gives the fans their orders.
Start ==
    /\ phase = "down"
    /\ phase' = "boot"
    /\ state' = file
    /\ fan' = [f \in Fans |-> Fan_Restore(Config[f], file[f])]
    /\ readOnly' \in Options
    /\ UNCHANGED <<k, temp, reinit, started, ecOpen, failures, quit, inSuspend, tries,
                   failed, file, ec, history>>

\* Mutant: --read-only is forgotten at the start.
BootInitializesAlways ==
    /\ phase = "boot" /\ ecOpen' = TRUE
    /\ WriteEC(reg, Rwcs)
    /\ phase' = "read"
    /\ UNCHANGED <<k, fan, temp, reinit, started, failures, quit, inSuspend,
                   state, tries, failed, file, readOnly, history>>

\* The rest of Service_Init: the OnInitialization entries are written.
BootInitializes ==
    /\ phase = "boot" /\ ecOpen' = TRUE
    /\ IF Service_ShouldControlFans THEN WriteEC(reg, Rwcs) ELSE UNCHANGED ec
    /\ phase' = "read"
    /\ UNCHANGED <<k, fan, temp, reinit, started, failures, quit, inSuspend,
                   state, tries, failed, file, readOnly, history>>

\* The model config, its validation, the sensors, the fans or the opening of
\* the EC fails: Service_Cleanup has no EC to reset.
BootFailsWithoutEC ==
    /\ phase = "boot" /\ ecOpen' = FALSE
    /\ BeginCleanup(FALSE)
    /\ UNCHANGED <<k, fan, temp, reinit, started, failures, quit, inSuspend,
                   state, file, ec, readOnly, history>>

\* Entry e fails, or (e = NumRwcs + 1) something after them: the sensors or
\* the server socket.  The service is cleaned up as far as it had come.
BootFails ==
    /\ phase = "boot" /\ ecOpen' = TRUE
    /\ \E e \in 1..(NumRwcs + 1) :
         IF Service_ShouldControlFans THEN WriteEC(reg, applied \cup 1..(e - 1))
                                      ELSE UNCHANGED ec
    /\ BeginCleanup(TRUE)
    /\ UNCHANGED <<k, fan, temp, reinit, started, failures, quit, inSuspend,
                   state, file, readOnly, history>>

-----------------------------------------------------------------------------
(* Service_Loop *)

\* Mutant: the last fan decides.
ReInitLastDecides == Abs(rotor[k] - Fan_GetTargetSpeed(fan[k])) > Deviation

ReInitRequired == reinit \/ Abs(rotor[k] - Fan_GetTargetSpeed(fan[k])) > Deviation

\* Mutant: a suspended service re-initializes.
AfterReadingInSuspend(required) ==
    IF required THEN "init" ELSE IF Service_ShouldControlFans THEN "onwrite" ELSE "flush"

AfterReading(required) ==
    IF ~ Service_ShouldControlFans THEN "flush"
    ELSE IF required THEN "init" ELSE "onwrite"

\* Fan_UpdateCurrentSpeed of fan k, and the comparison with its target.
ReadFan ==
    /\ phase = "read"
    /\ reinit' = ReInitRequired
    /\ IF k < NumFans
       THEN k' = k + 1 /\ UNCHANGED phase
       ELSE k' = 1 /\ phase' = AfterReading(reinit')
    /\ UNCHANGED <<fan, temp, started, ecOpen, failures, quit, inSuspend, state, tries,
                   failed, file, ec, readOnly, history>>

ReadFanFails ==
    /\ phase = "read"
    /\ RoundFails
    /\ UNCHANGED <<fan, temp, started, ecOpen, quit, inSuspend, state, file,
                   ec, readOnly, history>>

\* RegisterWriteConfigurations_Apply(OnInitialization), re_init_required.
Reinitialize ==
    /\ phase = "init"
    /\ WriteEC(reg, Rwcs)
    /\ phase' = "onwrite"
    /\ UNCHANGED <<k, fan, temp, reinit, started, ecOpen, failures, quit, inSuspend,
                   state, tries, failed, file, readOnly, history>>

\* The first entry that fails ends it, those before it stay written.
ReinitializeFails ==
    /\ phase = "init"
    /\ \E e \in Rwcs : WriteEC(reg, applied \cup 1..(e - 1))
    /\ RoundFails
    /\ UNCHANGED <<fan, temp, started, ecOpen, quit, inSuspend, state, file,
                   readOnly, history>>

\* RegisterWriteConfigurations_Apply(OnWriteFanSpeed).
ApplyOnWrite ==
    /\ phase = "onwrite"
    /\ phase' = "flush"
    /\ UNCHANGED <<k, fan, temp, reinit, started, ecOpen, failures, quit, inSuspend,
                   state, tries, failed, file, ec, readOnly, history>>

ApplyOnWriteFails ==
    /\ phase = "onwrite"
    /\ RoundFails
    /\ UNCHANGED <<fan, temp, started, ecOpen, quit, inSuspend, state, file,
                   ec, readOnly, history>>

\* The temperature of fan k has been read and takes effect.
SenseFan(t) ==
    /\ temp' = [temp EXCEPT ![k] = t]
    /\ \E c \in 1..Len(Config[k].thresholds) :
         /\ Selects(Legacy, Config[k].thresholds, fan[k].current, t, c)
         /\ fan' = [fan EXCEPT ![k] = Fan_SetTemperature(Config[k], @, t, c)]

\* Mutant: a fan is written before it is sensed.
FlushedStale(f) == Fan_GetTargetSpeed(fan[f])

\* The speed Fan_ECFlush writes.
Flushed(f) == Fan_GetTargetSpeed(fan'[f])

\* Fan k is sensed and, unless suspended or read-only, written (Fan_ECFlush).
FlushFan ==
    /\ phase = "flush"
    /\ \E t \in Temperatures : SenseFan(t)
    /\ IF Service_ShouldControlFans
       THEN WriteEC([reg EXCEPT ![k] = Flushed(k)], applied)
       ELSE UNCHANGED ec
    /\ IF k < NumFans
       THEN k' = k + 1 /\ UNCHANGED <<phase, reinit, failures, started>>
       ELSE RoundSucceeds
    /\ UNCHANGED <<ecOpen, quit, inSuspend, state, tries, failed, file, readOnly, history>>

SenseFanFails ==
    /\ phase = "flush"
    /\ RoundFails
    /\ UNCHANGED <<fan, temp, started, ecOpen, quit, inSuspend, state, file,
                   ec, readOnly, history>>

FlushFanFails ==
    /\ phase = "flush"
    /\ Service_ShouldControlFans
    /\ \E t \in Temperatures : SenseFan(t)
    /\ RoundFails
    /\ UNCHANGED <<started, ecOpen, quit, inSuspend, state, file, ec, readOnly, history>>

-----------------------------------------------------------------------------
(* main: the loop around Service_Loop *)

\* Mutant: while (true).
WhileTrue == phase' = "read" /\ UNCHANGED <<tries, failed>>

\* while (!quit)
WhileNotQuit == IF quit THEN BeginCleanup(ecOpen)
                        ELSE phase' = "read" /\ UNCHANGED <<tries, failed>>

\* The daemon goes on where its parent was.
Fork ==
    /\ phase = "fork"
    /\ WhileNotQuit
    /\ UNCHANGED <<k, fan, temp, reinit, started, ecOpen, failures, quit, inSuspend, state, file,
                   ec, readOnly, history>>

\* fork, setsid or PID_Write fails.
ForkFails ==
    /\ phase = "fork"
    /\ BeginCleanup(ecOpen)
    /\ UNCHANGED <<k, fan, temp, reinit, started, ecOpen, failures, quit, inSuspend, state, file,
                   ec, readOnly, history>>

\* After the sleep of a failed round.
Retry ==
    /\ phase = "retry"
    /\ WhileNotQuit
    /\ UNCHANGED <<k, fan, temp, reinit, started, ecOpen, failures, quit, inSuspend, state, file,
                   ec, readOnly, history>>

\* EcPollInterval has passed, or quit is set.
EndServing ==
    /\ phase = "serve"
    /\ WhileNotQuit
    /\ UNCHANGED <<k, fan, temp, reinit, started, ecOpen, failures, quit, inSuspend, state, file,
                   ec, readOnly, history>>

\* Mutant: a critical fan is written like any other.
CommandedUncritical(target) == [f \in Fans |-> IF f \in target THEN fan'[f].target ELSE reg[f]]

\* The registers after a command has flushed the fans of target.
Commanded(target) == [f \in Fans |-> IF f \in target THEN Flushed(f) ELSE reg[f]]

\* Server_Command_Set_Fan for the fans of target.  The flushes of the fans in
\* bad fail; nobody looks at that, the answer is OK.
SetFanSpeed(target, speed, bad) ==
    /\ phase = "serve"
    /\ fan' = [f \in Fans |->
                 IF f \notin target THEN fan[f]
                 ELSE IF speed = Automatic THEN Fan_SetAutoSpeed(Config[f], fan[f])
                 ELSE Fan_SetFixedSpeed(fan[f], speed)]
    /\ IF Service_ShouldControlFans
       THEN WriteEC(Commanded(target \ bad), applied)
       ELSE UNCHANGED ec
    /\ state' = [f \in Fans |-> Recorded(fan'[f])]
    /\ order' = [f \in Fans |-> IF f \in target THEN speed ELSE order[f]]
    /\ UNCHANGED <<phase, k, temp, reinit, started, ecOpen, failures, quit, inSuspend,
                   tries, failed, file, readOnly, promised>>

\* RegisterWriteConfigurations_HasSuspend
HasSuspend == OnSuspend # <<>>

\* What the first n entries of OnSuspend leave in force, what those of OnResume
\* put in force again.
Suspended(n) == applied \ {OnSuspend[i] : i \in 1..n}
Resumed(n)   == applied \cup ({OnResume[i] : i \in 1..n} \ {0})

\* Service_Suspend writes the OnSuspend entries, with --read-only as well.
\* Without any nothing happens, and the client is told OK all the same.
Service_Suspend ==
    /\ phase = "serve"
    /\ WriteEC(reg, Suspended(Len(OnSuspend)))
    /\ inSuspend' = (inSuspend \/ HasSuspend)
    /\ promised' = TRUE
    /\ UNCHANGED <<phase, k, fan, temp, reinit, started, ecOpen, failures, quit, state,
                   tries, failed, file, readOnly, order>>

\* "Cancelled suspend": entry n + 1 fails, those before it stay written.
Service_SuspendFails ==
    /\ phase = "serve" /\ HasSuspend
    /\ \E n \in 0..(Len(OnSuspend) - 1) : WriteEC(reg, Suspended(n))
    /\ UNCHANGED <<process, file, history>>

\* Service_Resume ends the suspension and writes the OnResume entries, with
\* --read-only as well; one of them may fail.
Service_Resume ==
    /\ phase = "serve"
    /\ \E n \in 0..Len(OnResume) : WriteEC(reg, Resumed(n))
    /\ inSuspend' = FALSE
    /\ promised' = FALSE
    /\ UNCHANGED <<phase, k, fan, temp, reinit, started, ecOpen, failures, quit, state,
                   tries, failed, file, readOnly, order>>

-----------------------------------------------------------------------------
(* Service_Cleanup *)

\* Mutant: the errors of the fans are not looked at.
ResetFailsNoFans(bad, badFans) == NumRwcs \in bad

\* RegisterWriteConfigurations_Reset returns the error of its last entry.
ResetFails(bad, badFans) == NumRwcs \in bad \/ ResetRequired \cap badFans # {}

\* One turn of ResetEC: the register writes of bad and the fans of badFans
\* fail.  failed is never cleared again.
ResetEC(bad, badFans) ==
    /\ phase = "reset"
    /\ WriteEC([f \in Fans |-> IF f \in ResetRequired \ badFans THEN Reset ELSE reg[f]],
               applied \cap bad)
    /\ failed' = (failed \/ ResetFails(bad, badFans))
    /\ tries' = IF failed' THEN tries - 1 ELSE tries
    /\ phase' = IF failed' /\ tries' # 0 THEN phase ELSE "save"
    /\ UNCHANGED <<k, fan, temp, reinit, started, ecOpen, failures, quit, inSuspend,
                   state, file, readOnly, history>>

\* ServiceState_Write opens the file with O_TRUNC.
TruncateState ==
    /\ phase = "save"
    /\ phase' = "write"
    /\ file' = [f \in Fans |-> None]
    /\ UNCHANGED <<k, fan, temp, reinit, started, ecOpen, failures, quit, inSuspend,
                   state, tries, failed, ec, readOnly, history>>

WriteState ==
    /\ phase = "write"
    /\ file' = state
    /\ ProcessEnds
    /\ UNCHANGED <<ec, order>>

-----------------------------------------------------------------------------
(* The environment *)

\* SIGINT or SIGTERM.
Signal ==
    /\ phase # "down" /\ ~ quit
    /\ quit' = TRUE
    /\ UNCHANGED <<phase, k, fan, temp, reinit, started, ecOpen, failures, inSuspend,
                   state, tries, failed, file, ec, readOnly, history>>

\* SIGKILL, or the write of the state file fails: orders that are not in the
\* file are gone.
Kill ==
    /\ phase # "down"
    /\ ProcessEnds
    /\ order' = [f \in Fans |-> OrderIn(file[f])]
    /\ UNCHANGED <<file, ec>>

\* The firmware leaves manual mode and runs the fans itself.
Firmware ==
    /\ applied' = {}
    /\ applied' # Rwcs
    /\ rotor' \in [Fans -> FirmwareSpeeds]
    /\ UNCHANGED <<process, file, reg, history>>

-----------------------------------------------------------------------------
Service_Loop == \/ ReadFan \/ Reinitialize \/ ApplyOnWrite \/ FlushFan

Service_Loop_Error == \/ ReadFanFails \/ ReinitializeFails \/ ApplyOnWriteFails
                      \/ SenseFanFails \/ FlushFanFails

Service_Cleanup == \/ \E bad \in SUBSET Rwcs, badFans \in SUBSET Fans : ResetEC(bad, badFans)
                   \/ TruncateState \/ WriteState

\* Server_Command_SuspendResume, for root only.
SuspendResume == Service_Suspend \/ Service_SuspendFails \/ Service_Resume

Server_Command ==
    \/ \E target \in {Fans} \cup {{f} : f \in Fans}, speed \in Requests, bad \in SUBSET Fans :
           SetFanSpeed(target, speed, bad)
    \/ SuspendResume

\* The steps the process takes by itself.
Run == \/ BootInitializes \/ BootFailsWithoutEC \/ BootFails
       \/ Service_Loop \/ Service_Loop_Error
       \/ Fork \/ ForkFails \/ Retry \/ EndServing \/ Service_Cleanup

Environment == Start \/ Signal \/ Kill \/ Firmware

Next == Run \/ Server_Command \/ Environment

\* The process keeps running.  That covers EndServing, because the server
\* loop only lasts for EcPollInterval.  Nothing is assumed of the clients,
\* the firmware, nor of how often the EC and the sensors fail.
Spec == Init /\ [][Next]_vars /\ WF_vars(Run)

-----------------------------------------------------------------------------
TypeOK ==
    /\ phase \in Phases
    /\ k \in 1..NumFans
    /\ fan \in [Fans -> FanState]
    /\ \A f \in Fans : ValidFan(Config[f], fan[f])
    /\ temp \in [Fans -> Int]
    /\ reinit \in BOOLEAN /\ started \in BOOLEAN /\ ecOpen \in BOOLEAN /\ quit \in BOOLEAN
    /\ inSuspend \in BOOLEAN /\ failed \in BOOLEAN /\ promised \in BOOLEAN
    /\ readOnly \in BOOLEAN
    /\ failures \in 0..MaxFailures
    /\ tries \in 0..MaxTries
    /\ state \in [Fans -> Entry] /\ file \in [Fans -> Entry]
    /\ order \in [Fans -> Speed \cup {Automatic}]
    /\ reg \in [Fans -> Speed \cup {Reset}]
    /\ applied \subseteq Rwcs
    /\ rotor \in [Fans -> Speed]

Running == phase \in Phases \ {"down"}

\* The orders acknowledged to the clients are those the fans follow, also
\* across a stop and a restart: through ServiceState.TargetFanSpeeds, the
\* state file and Service_Init.  Only a kill or a failed write of the file
\* takes them back to what the file held.
KeepsOrders ==
    /\ Running => \A f \in Fans : /\ Recorded(fan[f]) = order[f]
                                  /\ OrderIn(state[f]) = order[f]
                                  /\ fan[f].mode = "fixed" => fan[f].target = order[f]
    /\ ~ Running => \A f \in Fans : OrderIn(file[f]) = order[f]

\* After a successful round, and through all commands that follow, every fan
\* is at the threshold its temperature calls for, in fixed mode too (so that
\* `auto' takes up the right one at once), is critical when its temperature
\* says so, and in auto mode aims at the speed of the threshold.
LevelMatchesTemperature ==
    phase = "serve" =>
        \A f \in Fans : LET th == Config[f].thresholds IN
            /\ Selects(Legacy, th, fan[f].current, temp[f], fan[f].current)
            /\ temp[f] > Config[f].critical => fan[f].critical
            /\ temp[f] < Config[f].critical - Config[f].offset => ~ fan[f].critical
            /\ fan[f].mode = "auto" => fan[f].target = th[fan[f].current].speed

\* When Service_Loop succeeds while the service controls the fans, the
\* register of every fan holds its target speed, the first as well as the
\* last, and 100 for a fan that is too hot whatever the user has ordered.
RoundActuatesEveryFan ==
    [][phase = "flush" /\ phase' \in {"fork", "serve"} /\ Service_ShouldControlFans
         => \A f \in Fans : /\ reg'[f] = Fan_GetTargetSpeed(fan'[f])
                            /\ temp'[f] > Config[f].critical => reg'[f] = 100]_vars

\* A critical fan that runs at full speed is not slowed down before it has
\* ceased to be critical or the service resets the EC to leave: not by a
\* command, a failed round, a suspend or a resume.
CriticalHolds ==
    [][\A f \in Fans : fan[f].critical /\ fan'[f].critical /\ reg[f] = 100
           => reg'[f] = 100 \/ phase = "reset"]_vars

\* Between suspend and resume the service writes neither fan speeds nor
\* OnInitialization entries, until it resets the EC to leave: a suspend that is
\* repeated only takes more of them out of force.
SuspendIsQuiet ==
    [][inSuspend /\ inSuspend' /\ phase # "reset"
         => reg' = reg /\ applied' \subseteq applied]_vars

\* A service that has opened the EC and leaves in order hands every fan with
\* ResetRequired back to the firmware, unless all attempts were made.
FansAreReset ==
    phase \in {"save", "write"} /\ ecOpen /\ ~ readOnly
        => \A f \in ResetRequired : reg[f] = Reset \/ tries = 0

\* With --read-only no fan is written, whatever the clients order, and nothing
\* else by the service's own doing from its start to its end: the registers
\* change when the firmware takes them back, and when root asks for a suspend
\* or a resume, where read_only is not looked at (service.c:322, 340).
ReadOnlyIsQuiet ==
    [][readOnly => /\ reg' = reg
                   /\ applied' = applied \/ Firmware \/ SuspendResume]_vars

InControl == phase = "serve" /\ \A f \in Fans : reg[f] = Fan_GetTargetSpeed(fan[f])

\* However often the EC and the sensors fail: as long as it is meant to
\* control the fans, the service again and again has all of them at their
\* targets at the same time, or it gives up and leaves.  A fan behind one
\* that fails is not left unattended for ever.
RegulatesOrLeaves ==
    []<>(InControl \/ phase = "down" \/ ~ Service_ShouldControlFans)

\* SIGINT and SIGTERM end the service, in whatever state it is.
QuitLeaves == quit ~> phase = "down"

OffTarget(f) == applied # Rwcs /\ Abs(rotor[f] - Fan_GetTargetSpeed(fan[f])) > Deviation

\* When the firmware has taken a fan away and runs it far off its target,
\* the OnInitialization entries are eventually written again.
TakesControlBack ==
    \A f \in Fans :
        OffTarget(f) /\ Running /\ Service_ShouldControlFans
            ~> applied = Rwcs \/ ~ OffTarget(f) \/ phase = "down" \/ ~ Service_ShouldControlFans

-----------------------------------------------------------------------------
(* What the documentation says and the code does not do: see README.md *)

\* doc/nbfc_service.json.5.md: a RegisterWriteConfiguration's ResetRequired
\* `defines if the register should be reset before the service is shut
\* down': it is, unless all attempts were made.
RegistersAreReset ==
    phase \in {"save", "write"} /\ ecOpen /\ ~ readOnly => applied = {} \/ tries = 0

\* src/client/cmd_suspend_resume.c: `Service suspended. No fan control will
\* be performed until `nbfc resume` is called.'
SuspendedAsPromised == promised => inSuspend
=============================================================================
