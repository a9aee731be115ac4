---------------------------- MODULE Service_proofs ----------------------------
(***************************************************************************)
(* Theorems about Service.tla, for every number of fans and of register    *)
(* write configurations, every table of thresholds, every set of           *)
(* temperatures and requests, and every bound on failures and attempts;    *)
(* and, at the end, about ThresholdManager.tla for every valid table and   *)
(* every temperature.                                                      *)
(***************************************************************************)
EXTENDS Service, FiniteLemmas

-----------------------------------------------------------------------------
(* AutoSelectThreshold, for tables of every length *)

LEMMA EntryType ==
    ASSUME NEW th \in Tables, NEW m \in 1..Len(th)
    PROVE  th[m].up \in Int /\ th[m].down \in Int /\ th[m].speed \in Int
<1>1. th[m] \in Threshold
  BY DEF Tables
<1>. QED BY <1>1 DEF Threshold

\* AutoSelectThreshold terminates at a threshold, from every threshold: its
\* two loops stop.
LEMMA WalksDownExists ==
    ASSUME NEW th \in Tables, NEW i \in 1..Len(th), NEW t \in Int
    PROVE  \E j \in 1..i : WalksDown(th, i, t, j)
<1>. DEFINE S == {j \in 1..i : ~ GoesDown(th, j, t)}
<1>1. 1 \in S
  BY DEF GoesDown, Tables
<1>2. S \subseteq 0..i /\ i \in Nat
  BY DEF Tables
<1>3. PICK j \in S : \A m \in S : m <= j
  BY <1>1, <1>2, GreatestElement, Zenon
<1>4. \A m \in (j + 1)..i : m \in 1..i /\ ~ (m <= j)
  BY DEF Tables
<1>5. \A m \in (j + 1)..i : GoesDown(th, m, t)
  BY <1>3, <1>4
<1>. QED BY <1>5 DEF WalksDown

LEMMA WalksUpExists ==
    ASSUME NEW legacy \in BOOLEAN, NEW th \in Tables, NEW j \in 1..Len(th), NEW t \in Int
    PROVE  \E n \in j..Len(th) : WalksUp(legacy, th, j, t, n)
<1>. DEFINE S == {n \in j..Len(th) : ~ GoesUp(legacy, th, n, t)}
<1>1. Len(th) \in Nat
  BY DEF Tables
<1>2. Len(th) \in S
  BY <1>1 DEF GoesUp
<1>3. S \subseteq Nat
  BY <1>1
<1>4. PICK n \in S : \A m \in S : n <= m
  BY <1>2, <1>3, LeastElement, Zenon
<1>5. \A m \in j..(n - 1) : m \in j..Len(th) /\ ~ (n <= m)
  BY <1>1
<1>6. \A m \in j..(n - 1) : GoesUp(legacy, th, m, t)
  BY <1>4, <1>5
<1>. QED BY <1>6 DEF WalksUp

THEOREM SelectsSomething ==
    ASSUME NEW legacy \in BOOLEAN, NEW th \in Tables, NEW i \in 1..Len(th), NEW t \in Int
    PROVE  \E n \in 1..Len(th) : Selects(legacy, th, i, t, n)
<1>1. PICK j \in 1..i : WalksDown(th, i, t, j)
  BY WalksDownExists
<1>2. j \in 1..Len(th)
  BY DEF Tables
<1>3. PICK n \in j..Len(th) : WalksUp(legacy, th, j, t, n)
  BY <1>2, WalksUpExists
<1>4. n \in 1..Len(th)
  BY <1>2 DEF Tables
<1>. QED BY <1>1, <1>2, <1>3, <1>4 DEF Selects

\* ... and at one only.
THEOREM SelectsOne ==
    ASSUME NEW legacy \in BOOLEAN, NEW th \in Tables, NEW i \in 1..Len(th), NEW t \in Int,
           NEW n \in 1..Len(th), Selects(legacy, th, i, t, n),
           NEW l \in 1..Len(th), Selects(legacy, th, i, t, l)
    PROVE  n = l
<1>1. PICK j \in 1..Len(th) : WalksDown(th, i, t, j) /\ WalksUp(legacy, th, j, t, n)
  BY DEF Selects
<1>2. PICK m \in 1..Len(th) : WalksDown(th, i, t, m) /\ WalksUp(legacy, th, m, t, l)
  BY DEF Selects
<1>3. j = m
  <2>1. ~ (j < m)
    BY <1>1, <1>2 DEF WalksDown, Tables
  <2>2. ~ (m < j)
    BY <1>1, <1>2 DEF WalksDown, Tables
  <2>. QED BY <2>1, <2>2 DEF Tables
<1>4. ~ (n < l)
  BY <1>1, <1>2, <1>3 DEF WalksUp, Tables
<1>5. ~ (l < n)
  BY <1>1, <1>2, <1>3 DEF WalksUp, Tables
<1>. QED BY <1>4, <1>5 DEF Tables

\* A steady temperature does not make the fan hunt: from the selected
\* threshold the same temperature selects it again.
THEOREM SelectionIsAtRest ==
    ASSUME NEW legacy \in BOOLEAN, NEW th \in Tables, NEW i \in 1..Len(th), NEW t \in Int,
           NEW n \in 1..Len(th), Selects(legacy, th, i, t, n)
    PROVE  Selects(legacy, th, n, t, n)
<1>1. PICK j \in 1..Len(th) : WalksDown(th, i, t, j) /\ WalksUp(legacy, th, j, t, n)
  BY DEF Selects
<1>2. PICK m \in 1..n : WalksDown(th, n, t, m)
  BY WalksDownExists
<1>3. j <= m
  BY <1>1, <1>2 DEF WalksDown, WalksUp, Tables
<1>4. WalksUp(legacy, th, m, t, n)
  BY <1>1, <1>3 DEF WalksUp, Tables
<1>5. m \in 1..Len(th)
  BY DEF Tables
<1>. QED BY <1>2, <1>4, <1>5 DEF Selects

\* From the same threshold a higher temperature never selects a lower one.
THEOREM HotterIsNotLower ==
    ASSUME NEW legacy \in BOOLEAN, NEW th \in Tables, NEW i \in 1..Len(th),
           NEW t \in Int, NEW u \in Int, t <= u,
           NEW n \in 1..Len(th), Selects(legacy, th, i, t, n),
           NEW l \in 1..Len(th), Selects(legacy, th, i, u, l)
    PROVE  n <= l
<1>1. PICK j \in 1..Len(th) : WalksDown(th, i, t, j) /\ WalksUp(legacy, th, j, t, n)
  BY DEF Selects
<1>2. PICK m \in 1..Len(th) : WalksDown(th, i, u, m) /\ WalksUp(legacy, th, m, u, l)
  BY DEF Selects
<1>3. \A x \in 1..Len(th) : th[x].down \in Int /\ th[x].up \in Int
  BY EntryType
<1>4. j <= m
  BY <1>1, <1>2, <1>3 DEF WalksDown, GoesDown, Tables
<1>5. SUFFICES ASSUME l < n PROVE FALSE
  BY DEF Tables
<1>6. l \in j..(n - 1)
  BY <1>2, <1>4, <1>5 DEF WalksUp, Tables
<1>7. GoesUp(legacy, th, l, t)
  BY <1>1, <1>6 DEF WalksUp
<1>8. GoesUp(legacy, th, l, u)
  <2>1. UpPoint(legacy, th, l) \in Int
    <3>1. Len(th) \in Nat
      BY DEF Tables
    <3>2. l + 1 \in 1..Len(th)
      BY <1>5, <3>1
    <3>. QED BY <1>3, <3>2 DEF UpPoint
  <2>. QED BY <1>7, <2>1 DEF GoesUp
<1>. QED BY <1>2, <1>8 DEF WalksUp

-----------------------------------------------------------------------------
(* The functions of fan.c keep a fan well formed *)

LEMMA ThresholdSpeed ==
    ASSUME NEW cfg, ValidFanConfig(cfg), NEW m \in 1..Len(cfg.thresholds)
    PROVE  cfg.thresholds[m].speed \in Speed
BY DEF ValidFanConfig

LEMMA ConfigTables ==
    ASSUME NEW cfg, ValidFanConfig(cfg)
    PROVE  /\ cfg.thresholds \in Tables
           /\ Len(cfg.thresholds) \in Nat \ {0}
           /\ cfg.critical \in Int /\ cfg.offset \in Nat
BY DEF ValidFanConfig, FanConfig, Tables

LEMMA FanInitType ==
    ASSUME NEW cfg, ValidFanConfig(cfg)
    PROVE  ValidFan(cfg, Fan_Init)
BY ConfigTables DEF ValidFan, FanState, Fan_Init, Speed

LEMMA SetFixedType ==
    ASSUME NEW cfg, NEW fn, ValidFan(cfg, fn), NEW s \in Int
    PROVE  ValidFan(cfg, Fan_SetFixedSpeed(fn, s))
<1>1. Clamp(s) \in Speed
  BY DEF Clamp, Speed
<1>. QED BY <1>1 DEF ValidFan, FanState, Fan_SetFixedSpeed

LEMMA SetAutoType ==
    ASSUME NEW cfg, ValidFanConfig(cfg), NEW fn, ValidFan(cfg, fn)
    PROVE  ValidFan(cfg, Fan_SetAutoSpeed(cfg, fn))
<1>1. cfg.thresholds[fn.current].speed \in Speed
  BY ThresholdSpeed DEF ValidFan
<1>. QED BY <1>1 DEF ValidFan, FanState, Fan_SetAutoSpeed

LEMMA SetTemperatureType ==
    ASSUME NEW cfg, ValidFanConfig(cfg), NEW fn, ValidFan(cfg, fn),
           NEW t \in Int, NEW c \in 1..Len(cfg.thresholds)
    PROVE  ValidFan(cfg, Fan_SetTemperature(cfg, fn, t, c))
<1>1. cfg.thresholds[c].speed \in Speed
  BY ThresholdSpeed
<1>2. IsCritical(cfg, fn, t) \in BOOLEAN
  BY DEF IsCritical, ValidFan, FanState
<1>3. c \in Nat
  BY ConfigTables
<1>. QED BY <1>1, <1>2, <1>3 DEF ValidFan, FanState, Fan_SetTemperature

LEMMA RestoreType ==
    ASSUME NEW cfg, ValidFanConfig(cfg), NEW e \in Entry
    PROVE  ValidFan(cfg, Fan_Restore(cfg, e))
<1>1. CASE e = None
  BY <1>1, FanInitType DEF Fan_Restore
<1>2. CASE e = Automatic
  <2>1. e # None
    BY <1>2 DEF Automatic, None
  <2>. QED BY <1>2, <2>1, FanInitType, SetAutoType DEF Fan_Restore
<1>3. CASE e # None /\ e # Automatic
  <2>1. e \in Int
    BY <1>3 DEF Entry, Speed
  <2>. QED BY <1>3, <2>1, FanInitType, SetFixedType DEF Fan_Restore
<1>. QED BY <1>1, <1>2, <1>3

LEMMA TargetType ==
    ASSUME NEW fn \in FanState
    PROVE  Fan_GetTargetSpeed(fn) \in Speed
BY DEF Fan_GetTargetSpeed, FanState, Speed

LEMMA RecordedType ==
    ASSUME NEW fn \in FanState
    PROVE  Recorded(fn) \in Entry
BY DEF Recorded, FanState, Entry

-----------------------------------------------------------------------------
(* Type correctness.  The bounds of the two counters are kept because a    *)
(* counter at its limit means that the step that counts is not taken again *)

Leaving == {"reset", "save", "write"}

Counters == /\ failures = MaxFailures => phase \in Leaving
            /\ phase = "reset" => tries # 0

TypeInv == TypeOK /\ Counters

\* A write to the EC keeps its registers and speeds well formed.
LEMMA WriteECType ==
    ASSUME TypeOK, NEW r \in [Fans -> Speed \cup {Reset}], NEW a \in SUBSET Rwcs,
           WriteEC(r, a)
    PROVE  /\ reg' \in [Fans -> Speed \cup {Reset}]
           /\ applied' \subseteq Rwcs
           /\ rotor' \in [Fans -> Speed]
BY DEF TypeOK, WriteEC, Follow

\* A suspend and a resume write their own entries only, and no fan.
LEMMA SuspendResumeWrites ==
    ASSUME SuspendResume
    PROVE  /\ phase = "serve" /\ reg' = reg
           /\ UNCHANGED <<phase, k, fan, temp, reinit, started, ecOpen, failures, quit,
                          state, tries, failed, file, readOnly, order>>
           /\ inSuspend /\ inSuspend' => applied' \subseteq applied
BY DEF SuspendResume, Service_Suspend, Service_SuspendFails, Service_Resume, Suspended,
       WriteEC, process, history

\* They leave entries of OnInitialization in force, or put some in force.
LEMMA SuspendResumeType ==
    ASSUME TypeOK, SuspendResume
    PROVE  /\ reg' \in [Fans -> Speed \cup {Reset}]
           /\ applied' \subseteq Rwcs
           /\ rotor' \in [Fans -> Speed]
           /\ inSuspend' \in BOOLEAN /\ promised' \in BOOLEAN
<1>1. PICK a \in SUBSET Rwcs : WriteEC(reg, a)
  <2>1. \A n : Suspended(n) \in SUBSET Rwcs
    BY DEF Suspended, TypeOK
  <2>2. \A n \in 0..Len(OnResume) : Resumed(n) \in SUBSET Rwcs
    <3>1. \A i \in 1..Len(OnResume) : OnResume[i] \in Rwcs \cup {0}
      <4>1. NumRwcs \in Nat
        BY ServiceAssumption
      <4>. QED BY <4>1, EntriesAssumption DEF Rwcs
    <3>2. \A n \in 0..Len(OnResume) : 1..n \subseteq 1..Len(OnResume)
      BY EntriesAssumption
    <3>. QED BY <3>1, <3>2 DEF Resumed, TypeOK
  <2>3. Len(OnResume) \in Nat
    BY EntriesAssumption
  <2>. QED BY <2>1, <2>2, <2>3
       DEF SuspendResume, Service_Suspend, Service_SuspendFails, Service_Resume
<1>2. inSuspend' \in BOOLEAN /\ promised' \in BOOLEAN
  BY DEF SuspendResume, Service_Suspend, Service_SuspendFails, Service_Resume,
     HasSuspend, TypeOK, process, history
<1>. QED BY <1>1, <1>2, WriteECType DEF TypeOK

\* Sensing a fan keeps the fans well formed.
LEMMA SenseFanType ==
    ASSUME TypeOK, NEW t \in Temperatures, SenseFan(t)
    PROVE  /\ fan' \in [Fans -> FanState]
           /\ \A f \in Fans : ValidFan(Config[f], fan'[f])
           /\ temp' \in [Fans -> Int]
<1>1. k \in Fans /\ t \in Int
  BY ServiceAssumption DEF TypeOK, Fans
<1>2. ValidFanConfig(Config[k]) /\ ValidFan(Config[k], fan[k])
  BY <1>1, ServiceAssumption DEF TypeOK
<1>3. PICK c \in 1..Len(Config[k].thresholds) :
          fan' = [fan EXCEPT ![k] = Fan_SetTemperature(Config[k], @, t, c)]
  BY DEF SenseFan
<1>4. ValidFan(Config[k], Fan_SetTemperature(Config[k], fan[k], t, c))
  BY <1>1, <1>2, SetTemperatureType
<1>5. fan' \in [Fans -> FanState] /\ \A f \in Fans : ValidFan(Config[f], fan'[f])
  BY <1>1, <1>3, <1>4 DEF TypeOK, ValidFan
<1>6. temp' \in [Fans -> Int]
  BY <1>1 DEF SenseFan, TypeOK
<1>. QED BY <1>5, <1>6

\* What leaving starts with.
LEMMA BeginCleanupType ==
    ASSUME NEW opened, BeginCleanup(opened)
    PROVE  /\ phase' \in {"reset", "save"}
           /\ tries' = MaxTries /\ tries' # 0 /\ tries' \in 0..MaxTries
           /\ failed' \in BOOLEAN
<1>1. failed' \in BOOLEAN
  BY Zenon DEF BeginCleanup
<1>2. phase' \in {"reset", "save"} /\ tries' = MaxTries
  BY DEF BeginCleanup
<1>. QED BY <1>1, <1>2, ServiceAssumption

LEMMA WhileNotQuitType ==
    ASSUME TypeInv, WhileNotQuit
    PROVE  /\ phase' \in {"read", "reset", "save"}
           /\ tries' \in 0..MaxTries /\ failed' \in BOOLEAN
           /\ phase' = "reset" => tries' # 0
<1>1. CASE quit
  <2>1. BeginCleanup(ecOpen)
    BY <1>1 DEF WhileNotQuit
  <2>. QED BY <2>1, BeginCleanupType
<1>2. CASE ~ quit
  BY <1>2 DEF WhileNotQuit, TypeInv, TypeOK
<1>. QED BY <1>1, <1>2

\* What a failed round leaves.
LEMMA RoundFailsType ==
    ASSUME TypeInv, phase \notin Leaving, RoundFails
    PROVE  /\ phase' \in Phases /\ k' \in 1..NumFans /\ reinit' \in BOOLEAN
           /\ failures' \in 0..MaxFailures /\ tries' \in 0..MaxTries /\ failed' \in BOOLEAN
           /\ Counters'
<1>1. k' \in 1..NumFans /\ reinit' \in BOOLEAN
  <2>1. 1 \in 1..NumFans
    BY ServiceAssumption
  <2>2. k' \in 1..NumFans
    BY <2>1, Zenon DEF RoundFails, LeaveRound
  <2>3. reinit' \in BOOLEAN
    BY Zenon DEF RoundFails, LeaveRound
  <2>. QED BY <2>2, <2>3
<1>2. failures \in 0..(MaxFailures - 1) /\ MaxFailures \in Nat \ {0} /\ MaxTries \in Nat \ {0}
  BY ServiceAssumption DEF TypeInv, TypeOK, Counters
<1>3. BeginCleanup(ecOpen) => phase' \in Leaving /\ tries' = MaxTries /\ failed' \in BOOLEAN
  BY DEF BeginCleanup, Leaving
<1>4. Leaving \subseteq Phases /\ "retry" \in Phases /\ "retry" \notin Leaving /\ "reset" \in Leaving
  BY DEF Leaving, Phases
<1>5. CASE ~ started
  BY <1>1, <1>2, <1>3, <1>4, <1>5 DEF RoundFails, Counters
<1>6. CASE started
  <2>1. CASE failures' >= MaxFailures
    BY <1>1, <1>2, <1>3, <1>4, <1>6, <2>1 DEF RoundFails, GivesUp, Counters
  <2>2. CASE ~ (failures' >= MaxFailures)
    BY <1>1, <1>2, <1>4, <1>6, <2>2 DEF RoundFails, GivesUp, Counters, TypeInv, TypeOK
  <2>. QED BY <2>1, <2>2
<1>. QED BY <1>5, <1>6 DEF TypeInv, TypeOK

LEMMA ProcessEndsType ==
    ASSUME ProcessEnds
    PROVE  /\ phase' \in Phases /\ k' \in 1..NumFans
           /\ fan' \in [Fans -> FanState] /\ \A f \in Fans : ValidFan(Config[f], fan'[f])
           /\ temp' \in [Fans -> Int]
           /\ reinit' \in BOOLEAN /\ started' \in BOOLEAN /\ ecOpen' \in BOOLEAN
           /\ quit' \in BOOLEAN
           /\ inSuspend' \in BOOLEAN /\ failed' \in BOOLEAN /\ promised' \in BOOLEAN
           /\ readOnly' \in BOOLEAN
           /\ failures' \in 0..MaxFailures /\ tries' \in 0..MaxTries
           /\ state' \in [Fans -> Entry]
           /\ Counters'
<1>1. \A f \in Fans : ValidFan(Config[f], Fan_Init)
  BY FanInitType, ServiceAssumption
<1>2. fan' \in [Fans -> FanState] /\ \A f \in Fans : ValidFan(Config[f], fan'[f])
  BY <1>1 DEF ProcessEnds, ValidFan
<1>3. None \in Entry /\ "down" \in Phases /\ "down" \notin Leaving /\ "reset" \in Leaving
  BY DEF Entry, Phases, Leaving
<1>4. 1 \in 1..NumFans /\ 0 \in 0..MaxFailures /\ 0 # MaxFailures /\ MaxTries \in 0..MaxTries
  BY ServiceAssumption
<1>5. temp' \in [Fans -> Int] /\ state' \in [Fans -> Entry]
  BY <1>3 DEF ProcessEnds
<1>. QED BY <1>2, <1>3, <1>4, <1>5 DEF ProcessEnds, Counters

\* Every step keeps TypeInv.
LEMMA TypeStep ==
    ASSUME TypeInv, [Next]_vars
    PROVE  TypeInv'
<1>. USE ServiceAssumption
<1>1. CASE Start
  <2>1. fan' \in [Fans -> FanState] /\ \A f \in Fans : ValidFan(Config[f], fan'[f])
    <3>1. \A f \in Fans : ValidFan(Config[f], Fan_Restore(Config[f], file[f]))
      BY RestoreType DEF TypeInv, TypeOK
    <3>. QED BY <1>1, <3>1 DEF Start, ValidFan
  <2>. QED BY <1>1, <2>1 DEF Start, TypeInv, TypeOK, Counters, Leaving, Phases, ec, history
<1>2. CASE BootInitializes
  <2>1. /\ reg' \in [Fans -> Speed \cup {Reset}]
        /\ applied' \subseteq Rwcs
        /\ rotor' \in [Fans -> Speed]
    BY <1>2, WriteECType DEF BootInitializes, ec, TypeInv, TypeOK
  <2>. QED BY <1>2, <2>1 DEF BootInitializes, TypeInv, TypeOK, Counters, Leaving, Phases, history
<1>3. CASE BootFails
  <2>1. /\ reg' \in [Fans -> Speed \cup {Reset}]
        /\ applied' \subseteq Rwcs
        /\ rotor' \in [Fans -> Speed]
    <3>1. CASE Service_ShouldControlFans
      <4>1. PICK e \in 1..(NumRwcs + 1) : WriteEC(reg, applied \cup 1..(e - 1))
        BY <1>3, <3>1 DEF BootFails
      <4>2. applied \cup 1..(e - 1) \in SUBSET Rwcs
        BY DEF TypeInv, TypeOK, Rwcs
      <4>3. reg \in [Fans -> Speed \cup {Reset}] /\ TypeOK
        BY DEF TypeInv, TypeOK
      <4>. QED BY <4>1, <4>2, <4>3, WriteECType
    <3>2. CASE ~ Service_ShouldControlFans
      BY <1>3, <3>2 DEF BootFails, ec, TypeInv, TypeOK
    <3>. QED BY <3>1, <3>2
  <2>2. phase' \in Leaving /\ tries' = MaxTries /\ failed' \in BOOLEAN
    BY <1>3 DEF BootFails, BeginCleanup, Leaving
  <2>. QED BY <1>3, <2>1, <2>2 DEF BootFails, TypeInv, TypeOK, Counters, Leaving, Phases, history
<1>4. CASE ReadFan
  <2>1. reinit' \in BOOLEAN
    BY <1>4 DEF ReadFan, ReInitRequired, AfterReading, TypeInv, TypeOK
  <2>2. phase' \in {"read", "flush", "init", "onwrite"} /\ k' \in 1..NumFans
    BY <1>4 DEF ReadFan, ReInitRequired, AfterReading, TypeInv, TypeOK
  <2>. QED BY <1>4, <2>1, <2>2 DEF ReadFan, TypeInv, TypeOK, Counters, Leaving, Phases, ec, history
<1>5. CASE Reinitialize
  <2>1. /\ reg' \in [Fans -> Speed \cup {Reset}]
        /\ applied' \subseteq Rwcs
        /\ rotor' \in [Fans -> Speed]
    BY <1>5, WriteECType DEF Reinitialize, TypeInv, TypeOK
  <2>. QED BY <1>5, <2>1 DEF Reinitialize, TypeInv, TypeOK, Counters, Leaving, Phases, history
<1>6. CASE ApplyOnWrite
  BY <1>6 DEF ApplyOnWrite, TypeInv, TypeOK, Counters, Leaving, Phases, ec, history
<1>7. CASE FlushFan
  <2>1. /\ fan' \in [Fans -> FanState]
        /\ \A f \in Fans : ValidFan(Config[f], fan'[f])
        /\ temp' \in [Fans -> Int]
    BY <1>7, SenseFanType DEF FlushFan, TypeInv
  <2>2. /\ reg' \in [Fans -> Speed \cup {Reset}]
        /\ applied' \subseteq Rwcs
        /\ rotor' \in [Fans -> Speed]
    <3>1. CASE Service_ShouldControlFans
      <4>1. WriteEC([reg EXCEPT ![k] = Fan_GetTargetSpeed(fan'[k])], applied)
        BY <1>7, <3>1 DEF FlushFan, Flushed
      <4>2. Fan_GetTargetSpeed(fan'[k]) \in Speed
        BY <2>1, TargetType DEF TypeInv, TypeOK, Fans
      <4>3. [reg EXCEPT ![k] = Fan_GetTargetSpeed(fan'[k])] \in [Fans -> Speed \cup {Reset}]
        BY <4>2 DEF TypeInv, TypeOK
      <4>. QED BY <4>1, <4>3, WriteECType DEF TypeInv, TypeOK
    <3>2. CASE ~ Service_ShouldControlFans
      BY <1>7, <3>2 DEF FlushFan, ec, TypeInv, TypeOK
    <3>. QED BY <3>1, <3>2
  <2>3. /\ phase' \in {"flush", "fork", "serve"} /\ k' \in 1..NumFans
        /\ reinit' \in BOOLEAN /\ started' \in BOOLEAN
        /\ failures' \in 0..MaxFailures /\ (failures' = failures \/ failures' = 0)
    <3>1. CASE k < NumFans
      BY <1>7, <3>1 DEF FlushFan, TypeInv, TypeOK
    <3>2. CASE ~ (k < NumFans)
      <4>1. RoundSucceeds
        BY <1>7, <3>2 DEF FlushFan
      <4>2. reinit' \in BOOLEAN /\ started' \in BOOLEAN
        BY <4>1, Zenon DEF RoundSucceeds, LeaveRound
      <4>3. phase' \in {"fork", "serve"} /\ k' = 1 /\ failures' = 0
        BY <4>1, Zenon DEF RoundSucceeds, LeaveRound
      <4>. QED BY <4>2, <4>3
    <3>. QED BY <3>1, <3>2
  <2>. QED BY <1>7, <2>1, <2>2, <2>3
       DEF FlushFan, TypeInv, TypeOK, Counters, Leaving, Phases, history
<1>8. CASE ReadFanFails
  BY <1>8, RoundFailsType DEF ReadFanFails, TypeInv, TypeOK, Leaving, ec, history
<1>9. CASE ReinitializeFails
  <2>1. PICK e \in Rwcs : WriteEC(reg, applied \cup 1..(e - 1))
    BY <1>9 DEF ReinitializeFails
  <2>2. applied \cup 1..(e - 1) \in SUBSET Rwcs
    BY DEF TypeInv, TypeOK, Rwcs
  <2>3. /\ reg' \in [Fans -> Speed \cup {Reset}]
        /\ applied' \subseteq Rwcs
        /\ rotor' \in [Fans -> Speed]
    BY <2>1, <2>2, WriteECType DEF TypeInv, TypeOK
  <2>. QED BY <1>9, <2>3, RoundFailsType DEF ReinitializeFails, TypeInv, TypeOK, Leaving, history
<1>10. CASE ApplyOnWriteFails
  BY <1>10, RoundFailsType DEF ApplyOnWriteFails, TypeInv, TypeOK, Leaving, ec, history
<1>11. CASE SenseFanFails
  BY <1>11, RoundFailsType DEF SenseFanFails, TypeInv, TypeOK, Leaving, ec, history
<1>12. CASE FlushFanFails
  <2>1. /\ fan' \in [Fans -> FanState]
        /\ \A f \in Fans : ValidFan(Config[f], fan'[f])
        /\ temp' \in [Fans -> Int]
    BY <1>12, SenseFanType DEF FlushFanFails, TypeInv
  <2>. QED BY <1>12, <2>1, RoundFailsType DEF FlushFanFails, TypeInv, TypeOK, Leaving, ec, history
<1>13. CASE Retry
  BY <1>13, WhileNotQuitType DEF Retry, TypeInv, TypeOK, Counters, Leaving, Phases, ec, history
<1>14. CASE EndServing
  BY <1>14, WhileNotQuitType
  DEF EndServing, TypeInv, TypeOK, Counters, Leaving, Phases, ec, history
<1>15. CASE \E target \in {Fans} \cup {{f} : f \in Fans}, speed \in Requests,
               bad \in SUBSET Fans : SetFanSpeed(target, speed, bad)
  <2>1. PICK target \in {Fans} \cup {{f} : f \in Fans}, speed \in Requests,
             bad \in SUBSET Fans : SetFanSpeed(target, speed, bad)
    BY <1>15
  <2>2. speed \in Speed \cup {Automatic} /\ speed \in Int
    BY DEF Speed, Automatic
  <2>3. \A f \in Fans : ValidFan(Config[f], fan'[f])
    <3>1. \A f \in Fans : /\ ValidFan(Config[f], fan[f])
                          /\ ValidFan(Config[f], Fan_SetAutoSpeed(Config[f], fan[f]))
                          /\ ValidFan(Config[f], Fan_SetFixedSpeed(fan[f], speed))
      BY <2>2, SetAutoType, SetFixedType DEF TypeInv, TypeOK
    <3>. QED BY <2>1, <3>1 DEF SetFanSpeed
  <2>4. fan' \in [Fans -> FanState]
    BY <2>1, <2>3 DEF SetFanSpeed, ValidFan
  <2>5. /\ reg' \in [Fans -> Speed \cup {Reset}]
        /\ applied' \subseteq Rwcs
        /\ rotor' \in [Fans -> Speed]
    <3>1. CASE Service_ShouldControlFans
      <4>. DEFINE r == [f \in Fans |-> IF f \in target \ bad
                                       THEN Fan_GetTargetSpeed(fan'[f]) ELSE reg[f]]
      <4>1. WriteEC(r, applied)
        BY <2>1, <3>1 DEF SetFanSpeed, Commanded, Flushed
      <4>2. \A f \in Fans : Fan_GetTargetSpeed(fan'[f]) \in Speed
        BY <2>4, TargetType
      <4>3. r \in [Fans -> Speed \cup {Reset}]
        BY <4>2 DEF TypeInv, TypeOK
      <4>. HIDE DEF r
      <4>. QED BY <4>1, <4>3, WriteECType DEF TypeInv, TypeOK
    <3>2. CASE ~ Service_ShouldControlFans
      BY <2>1, <3>2 DEF SetFanSpeed, ec, TypeInv, TypeOK
    <3>. QED BY <3>1, <3>2
  <2>6. state' \in [Fans -> Entry]
    BY <2>1, <2>4, RecordedType DEF SetFanSpeed
  <2>7. order' \in [Fans -> Speed \cup {Automatic}]
    BY <2>1, <2>2 DEF SetFanSpeed, TypeInv, TypeOK
  <2>. QED BY <2>1, <2>3, <2>4, <2>5, <2>6, <2>7
       DEF SetFanSpeed, TypeInv, TypeOK, Counters, Leaving
<1>16. CASE SuspendResume
  BY <1>16, SuspendResumeType, SuspendResumeWrites DEF TypeInv, TypeOK, Counters
<1>18. CASE \E bad \in SUBSET Rwcs, badFans \in SUBSET Fans : ResetEC(bad, badFans)
  <2>1. PICK bad \in SUBSET Rwcs, badFans \in SUBSET Fans : ResetEC(bad, badFans)
    BY <1>18
  <2>2. /\ reg' \in [Fans -> Speed \cup {Reset}]
        /\ applied' \subseteq Rwcs
        /\ rotor' \in [Fans -> Speed]
    <3>. DEFINE r == [f \in Fans |-> IF f \in ResetRequired \ badFans
                                     THEN Reset ELSE reg[f]]
    <3>1. WriteEC(r, applied \cap bad)
      BY <2>1 DEF ResetEC
    <3>2. r \in [Fans -> Speed \cup {Reset}] /\ applied \cap bad \in SUBSET Rwcs
      BY DEF TypeInv, TypeOK
    <3>. HIDE DEF r
    <3>. QED BY <3>1, <3>2, WriteECType DEF TypeInv
  <2>3. /\ failed' \in BOOLEAN
        /\ tries' \in 0..MaxTries
        /\ phase' \in {"reset", "save"}
        /\ phase' = "reset" => tries' # 0
    <3>1. failed' \in BOOLEAN
      BY <2>1 DEF ResetEC, TypeInv, TypeOK
    <3>2. tries \in 1..MaxTries /\ (tries' = tries - 1 \/ tries' = tries)
      BY <2>1 DEF ResetEC, TypeInv, TypeOK, Counters
    <3>3. phase' \in {"reset", "save"} /\ (phase' = "reset" => tries' # 0)
      BY <2>1 DEF ResetEC
    <3>. QED BY <3>1, <3>2, <3>3
  <2>. QED BY <2>1, <2>2, <2>3 DEF ResetEC, TypeInv, TypeOK, Counters, Leaving, Phases, history
<1>19. CASE TruncateState
  BY <1>19 DEF TruncateState, TypeInv, TypeOK, Counters, Leaving, Phases, ec, history, Entry
<1>20. CASE WriteState
  BY <1>20, ProcessEndsType DEF WriteState, TypeInv, TypeOK, ec
<1>21. CASE Signal
  BY <1>21 DEF Signal, TypeInv, TypeOK, Counters, ec, history
<1>22. CASE Kill
  <2>1. order' \in [Fans -> Speed \cup {Automatic}]
    BY <1>22 DEF Kill, TypeInv, TypeOK, OrderIn, Entry
  <2>. QED BY <1>22, <2>1, ProcessEndsType DEF Kill, TypeInv, TypeOK, ec
<1>23. CASE Firmware
  <2>1. rotor' \in [Fans -> Speed]
    BY <1>23 DEF Firmware
  <2>. QED BY <1>23, <2>1 DEF Firmware, TypeInv, TypeOK, Counters, process, history
<1>24. CASE Fork
  BY <1>24, WhileNotQuitType DEF Fork, TypeInv, TypeOK, Counters, Leaving, Phases, ec, history
<1>25. CASE ForkFails
  BY <1>25, BeginCleanupType DEF ForkFails, TypeInv, TypeOK, Counters, Leaving, Phases, ec, history
<1>26. CASE BootFailsWithoutEC
  BY <1>26, BeginCleanupType
  DEF BootFailsWithoutEC, TypeInv, TypeOK, Counters, Leaving, Phases, ec, history
<1>27. CASE UNCHANGED vars
  BY <1>27 DEF vars, process, ec, history, TypeInv, TypeOK, Counters
<1>. QED
  BY <1>1, <1>2, <1>3, <1>4, <1>5, <1>6, <1>7, <1>8, <1>9, <1>10, <1>11, <1>12,
     <1>13, <1>14, <1>15, <1>16, <1>18, <1>19, <1>20, <1>21, <1>22, <1>23,
     <1>24, <1>25, <1>26, <1>27
  DEF Next, Run, Service_Loop, Service_Loop_Error, Service_Cleanup,
      Server_Command, Environment

\* The variables keep their types and the counters their bounds, whatever
\* fails and whoever takes the EC away.
THEOREM TypeInvariant == Spec => []TypeInv
<1>1. Init => TypeInv
  <2>. SUFFICES ASSUME Init PROVE TypeInv
    OBVIOUS
  <2>1. fan \in [Fans -> FanState] /\ \A f \in Fans : ValidFan(Config[f], fan[f])
    <3>1. \A f \in Fans : ValidFan(Config[f], Fan_Init)
      BY FanInitType, ServiceAssumption
    <3>. QED BY <3>1 DEF Init, ValidFan
  <2>2. file \in [Fans -> Entry] /\ order \in [Fans -> Speed \cup {Automatic}]
    BY ServiceAssumption DEF Init, Entry, OrderIn
  <2>3. /\ "down" \in Phases /\ "down" \notin Leaving /\ "reset" \in Leaving
        /\ None \in Entry /\ Reset \in Speed \cup {Reset}
    BY DEF Phases, Leaving, Entry
  <2>4. 1 \in 1..NumFans /\ 0 \in 0..MaxFailures /\ 0 # MaxFailures /\ MaxTries \in 0..MaxTries
    BY ServiceAssumption
  <2>5. rotor \in [Fans -> Speed] /\ temp \in [Fans -> Int]
    BY ServiceAssumption DEF Init
  <2>6. state \in [Fans -> Entry] /\ reg \in [Fans -> Speed \cup {Reset}]
    BY <2>3 DEF Init
  <2>. QED BY <2>1, <2>2, <2>3, <2>4, <2>5, <2>6 DEF Init, TypeInv, TypeOK, Counters
<1>2. TypeInv /\ [Next]_vars => TypeInv'
  BY TypeStep
<1>. QED BY <1>1, <1>2, PTL DEF Spec

\* TypeOK: in particular fan[f].current is always an index of the fan's table
\* of thresholds, and every speed written is a percentage.
THEOREM TypeCorrect == Spec => []TypeOK
<1>1. TypeInv => TypeOK
  BY DEF TypeInv
<1>. QED BY <1>1, TypeInvariant, PTL

-----------------------------------------------------------------------------
(* Orders *)

\* What the functions of fan.c make of the recorded order.
LEMMA RestoredOrder ==
    ASSUME NEW cfg, NEW e \in Entry
    PROVE  /\ Recorded(Fan_Restore(cfg, e)) = OrderIn(e)
           /\ Fan_Restore(cfg, e).mode = "fixed" => Fan_Restore(cfg, e).target = OrderIn(e)
<1>1. CASE e = None
  BY <1>1 DEF Fan_Restore, Fan_Init, Recorded, OrderIn
<1>2. CASE e = Automatic
  BY <1>2 DEF Fan_Restore, Fan_Init, Fan_SetAutoSpeed, Recorded, OrderIn, Automatic, None
<1>3. CASE e # None /\ e # Automatic
  <2>1. e \in Speed /\ Clamp(e) = e
    BY <1>3 DEF Entry, Speed, Clamp
  <2>. QED BY <1>3, <2>1 DEF Fan_Restore, Fan_Init, Fan_SetFixedSpeed, Recorded, OrderIn
<1>. QED BY <1>1, <1>2, <1>3

\* Following(f): fan f follows its order, in memory and in what is to be saved.
Following(f) == /\ Recorded(fan[f]) = order[f]
                /\ OrderIn(state[f]) = order[f]
                /\ fan[f].mode = "fixed" => fan[f].target = order[f]

\* Sensing a fan does not change what it is ordered to do.
LEMMA SensingKeepsOrders ==
    ASSUME TypeOK, NEW t \in Temperatures, SenseFan(t), UNCHANGED <<state, order>>,
           \A f \in Fans : Following(f)
    PROVE  \A f \in Fans : Following(f)'
<1>1. PICK c \in 1..Len(Config[k].thresholds) :
          fan' = [fan EXCEPT ![k] = Fan_SetTemperature(Config[k], @, t, c)]
  BY DEF SenseFan
<1>2. k \in Fans /\ fan[k] \in FanState
  BY DEF TypeOK, Fans
<1>3. \A f \in Fans : /\ fan'[f].mode = fan[f].mode
                      /\ fan'[f].requested = fan[f].requested
                      /\ fan[f].mode = "fixed" => fan'[f].target = fan[f].target
  BY <1>1, <1>2 DEF TypeOK, Fan_SetTemperature, FanState
<1>. QED BY <1>3 DEF Following, Recorded

\* KeepsOrders is inductive: an order survives rounds, failures, suspend,
\* resume, and a stop and restart by way of the state file.
THEOREM OrdersAreKept == Spec => []KeepsOrders
<1>1. Init => KeepsOrders
  BY DEF Init, KeepsOrders, Running
<1>2. TypeInv /\ KeepsOrders /\ [Next]_vars => KeepsOrders'
  <2>. SUFFICES ASSUME TypeInv, KeepsOrders, [Next]_vars PROVE KeepsOrders'
    OBVIOUS
  <2>. TypeOK
    BY DEF TypeInv
  <2>1. Running => \A f \in Fans : Following(f)
    BY DEF KeepsOrders, Following
  <2>2. ~ Running => \A f \in Fans : OrderIn(file[f]) = order[f]
    BY DEF KeepsOrders
  <2>3. SUFFICES /\ Running' => \A f \in Fans : Following(f)'
                 /\ ~ Running' => \A f \in Fans : (OrderIn(file[f]) = order[f])'
    BY DEF KeepsOrders, Following
  <2>4. phase' # "down" => Running'
    <3>1. phase' \in Phases
      <4>1. TypeInv'
        BY TypeStep
      <4>. QED BY <4>1 DEF TypeInv, TypeOK
    <3>. QED BY <3>1 DEF Running
  <2>5. CASE UNCHANGED <<fan, state, order>> /\ Running /\ phase' # "down"
    BY <2>1, <2>4, <2>5 DEF Following
  <2>6. CASE UNCHANGED <<phase, fan, state, order, file>>
    BY <2>1, <2>2, <2>6 DEF Running, Following
  <2>7. CASE Start
    <3>1. \A f \in Fans : Following(f)'
      BY <2>2, <2>7, RestoredOrder DEF Start, Running, Following, TypeOK, history
    <3>. QED BY <3>1, <2>4, <2>7 DEF Start
  <2>8. CASE FlushFan
    <3>1. Running /\ phase' # "down" /\ UNCHANGED <<state, order>>
      BY <2>8 DEF FlushFan, RoundSucceeds, Running, Phases, history
    <3>. QED BY <2>1, <2>4, <2>8, <3>1, SensingKeepsOrders DEF FlushFan
  <2>9. CASE FlushFanFails
    <3>1. Running /\ phase' # "down" /\ UNCHANGED <<state, order>>
      BY <2>9
      DEF FlushFanFails, RoundFails, BeginCleanup, Running, Phases, history
    <3>. QED BY <2>1, <2>4, <2>9, <3>1, SensingKeepsOrders DEF FlushFanFails
  <2>10. CASE \E target \in {Fans} \cup {{f} : f \in Fans}, speed \in Requests,
                 bad \in SUBSET Fans : SetFanSpeed(target, speed, bad)
    <3>1. PICK target \in {Fans} \cup {{f} : f \in Fans}, speed \in Requests,
               bad \in SUBSET Fans : SetFanSpeed(target, speed, bad)
      BY <2>10
    <3>2. Running /\ phase' # "down"
      BY <3>1 DEF SetFanSpeed, Running, Phases
    <3>3. SUFFICES ASSUME NEW f \in Fans PROVE Following(f)'
      BY <2>4, <3>2
    <3>4. state'[f] = Recorded(fan'[f]) /\ fan[f] \in FanState
      BY <3>1 DEF SetFanSpeed, TypeOK
    <3>5. CASE f \notin target
      <4>1. fan'[f] = fan[f] /\ order'[f] = order[f]
        BY <3>1, <3>5 DEF SetFanSpeed
      <4>2. OrderIn(Recorded(fan[f])) = Recorded(fan[f])
        BY <3>4 DEF OrderIn, Recorded, FanState, Speed, None, Automatic
      <4>. QED BY <2>1, <3>2, <3>4, <4>1, <4>2 DEF Following
    <3>6. CASE f \in target /\ speed = Automatic
      <4>1. fan'[f] = Fan_SetAutoSpeed(Config[f], fan[f]) /\ order'[f] = Automatic
        BY <3>1, <3>6 DEF SetFanSpeed
      <4>2. fan'[f].mode = "auto"
        BY <3>4, <4>1 DEF Fan_SetAutoSpeed, FanState
      <4>. QED BY <3>4, <4>1, <4>2 DEF Following, Recorded, OrderIn, Automatic, None
    <3>7. CASE f \in target /\ speed # Automatic
      <4>1. speed \in Speed /\ Clamp(speed) = speed
        BY <3>7, ServiceAssumption DEF Speed, Clamp
      <4>2. fan'[f] = Fan_SetFixedSpeed(fan[f], speed) /\ order'[f] = speed
        BY <3>1, <3>7 DEF SetFanSpeed
      <4>3. fan'[f].mode = "fixed" /\ fan'[f].requested = speed /\ fan'[f].target = speed
        BY <3>4, <4>1, <4>2 DEF Fan_SetFixedSpeed, FanState
      <4>. QED BY <3>4, <4>1, <4>2, <4>3 DEF Following, Recorded, OrderIn, Speed, None
    <3>. QED BY <3>5, <3>6, <3>7
  <2>11. CASE WriteState
    BY <2>1, <2>11 DEF WriteState, ProcessEnds, Running, Phases, Following
  <2>12. CASE Kill
    BY <2>12, Zenon DEF Kill, ProcessEnds, Running
  <2>. QED
    BY <2>5, <2>6, <2>7, <2>8, <2>9, <2>10, <2>11, <2>12, SuspendResumeWrites
    DEF Next, Run, Service_Loop, Service_Loop_Error, Service_Cleanup, Server_Command,
        Environment, BootInitializes, BootFailsWithoutEC, BootFails, Fork, ForkFails,
        ReadFan, ReInitRequired, AfterReading, Reinitialize, ApplyOnWrite, ReadFanFails,
        ReinitializeFails, ApplyOnWriteFails, SenseFanFails, Retry, EndServing,
        ResetEC, TruncateState, Signal, Firmware, vars,
        process, history, RoundFails, GivesUp, WhileNotQuit, BeginCleanup, Running, Phases
<1>. QED BY <1>1, <1>2, TypeInvariant, PTL DEF Spec

-----------------------------------------------------------------------------
(* Rounds *)

\* Attended(f): what LevelMatchesTemperature says of fan f.
Attended(f) ==
    LET th == Config[f].thresholds IN
    /\ Selects(Legacy, th, fan[f].current, temp[f], fan[f].current)
    /\ temp[f] > Config[f].critical => fan[f].critical
    /\ temp[f] < Config[f].critical - Config[f].offset => ~ fan[f].critical
    /\ fan[f].mode = "auto" => fan[f].target = th[fan[f].current].speed

\* The fans a round has passed are attended and, when the service controls
\* the fans, actuated.  The writes of OnInitialization come before them and
\* only when the service controls the fans.
RoundInv ==
    /\ phase \in {"init", "onwrite"} => k = 1 /\ Service_ShouldControlFans
    /\ phase = "flush" =>
         \A f \in Fans : f < k =>
             Attended(f) /\ (Service_ShouldControlFans => reg[f] = Fan_GetTargetSpeed(fan[f]))
    /\ phase \in {"fork", "serve"} => \A f \in Fans : Attended(f)

\* Sensing attends fan k and leaves the others alone.
LEMMA SensingAttends ==
    ASSUME TypeOK, NEW t \in Temperatures, SenseFan(t)
    PROVE  /\ \A f \in Fans : f = k => Attended(f)'
           /\ \A f \in Fans : f # k => fan'[f] = fan[f] /\ temp'[f] = temp[f]
<1>1. k \in Fans /\ t \in Int /\ fan[k] \in FanState /\ ValidFan(Config[k], fan[k])
  BY ServiceAssumption DEF TypeOK, Fans
<1>2. ValidFanConfig(Config[k])
  BY <1>1, ServiceAssumption
<1>. DEFINE th == Config[k].thresholds
<1>3. PICK c \in 1..Len(th) :
          /\ Selects(Legacy, th, fan[k].current, t, c)
          /\ fan' = [fan EXCEPT ![k] = Fan_SetTemperature(Config[k], @, t, c)]
  BY DEF SenseFan
<1>4. temp' = [temp EXCEPT ![k] = t]
  BY DEF SenseFan
<1>5. \A f \in Fans : f # k => fan'[f] = fan[f] /\ temp'[f] = temp[f]
  BY <1>3, <1>4 DEF TypeOK
<1>6. temp'[k] = t /\ fan'[k] = Fan_SetTemperature(Config[k], fan[k], t, c)
  BY <1>1, <1>3, <1>4 DEF TypeOK
<1>7. /\ fan'[k].critical = IsCritical(Config[k], fan[k], t)
      /\ fan'[k].current = c
      /\ fan'[k].mode = fan[k].mode
      /\ fan[k].mode = "auto" => fan'[k].target = th[c].speed
  BY <1>1, <1>6 DEF Fan_SetTemperature, FanState
<1>8. Selects(Legacy, th, c, t, c)
  BY <1>1, <1>2, <1>3, ConfigTables, SelectionIsAtRest, ServiceAssumption DEF ValidFan
<1>9. /\ t > Config[k].critical => IsCritical(Config[k], fan[k], t)
      /\ t < Config[k].critical - Config[k].offset => ~ (t >= Config[k].critical - Config[k].offset)
  BY <1>1, <1>2, ConfigTables DEF IsCritical
<1>10. t < Config[k].critical - Config[k].offset => ~ IsCritical(Config[k], fan[k], t)
  BY <1>1, <1>2, ConfigTables DEF IsCritical
<1>11. \A f \in Fans : f = k => Attended(f)'
  BY <1>6, <1>7, <1>8, <1>9, <1>10 DEF Attended
<1>. QED BY <1>5, <1>11

\* What FlushFan writes, and what it leaves.
LEMMA FlushFanWrites ==
    ASSUME TypeOK, FlushFan
    PROVE  /\ phase = "flush" /\ UNCHANGED <<inSuspend, readOnly>> /\ applied' = applied
           /\ \A f \in Fans : f = k => Attended(f)'
           /\ \A f \in Fans : f # k => fan'[f] = fan[f] /\ temp'[f] = temp[f] /\ reg'[f] = reg[f]
           /\ IF Service_ShouldControlFans
              THEN \A f \in Fans : f = k => reg'[f] = Fan_GetTargetSpeed(fan'[f])
              ELSE reg' = reg
           /\ IF k < NumFans THEN k' = k + 1 /\ phase' = "flush" ELSE phase' \in {"fork", "serve"}
<1>1. /\ \A f \in Fans : f = k => Attended(f)'
      /\ \A f \in Fans : f # k => fan'[f] = fan[f] /\ temp'[f] = temp[f]
  BY SensingAttends DEF FlushFan
<1>2. CASE Service_ShouldControlFans
  BY <1>1, <1>2 DEF FlushFan, Flushed, WriteEC, RoundSucceeds, TypeOK, Fans
<1>3. CASE ~ Service_ShouldControlFans
  BY <1>1, <1>3 DEF FlushFan, ec, RoundSucceeds
<1>. QED BY <1>2, <1>3

\* A command leaves every fan attended.
LEMMA CommandKeepsAttended ==
    ASSUME TypeOK, NEW target, NEW speed \in Int, NEW bad, SetFanSpeed(target, speed, bad),
           NEW f \in Fans, Attended(f)
    PROVE  Attended(f)'
<1>1. temp'[f] = temp[f] /\ fan[f] \in FanState
  BY DEF SetFanSpeed, TypeOK
<1>2. fan'[f] \in {fan[f], Fan_SetAutoSpeed(Config[f], fan[f]), Fan_SetFixedSpeed(fan[f], speed)}
  BY DEF SetFanSpeed
<1>3. CASE fan'[f] = fan[f]
  BY <1>1, <1>3 DEF Attended
<1>4. CASE fan'[f] = Fan_SetAutoSpeed(Config[f], fan[f])
  <2>1. /\ fan'[f].critical = fan[f].critical /\ fan'[f].current = fan[f].current
        /\ fan'[f].target = Config[f].thresholds[fan[f].current].speed
    BY <1>1, <1>4 DEF Fan_SetAutoSpeed, FanState
  <2>. QED BY <1>1, <2>1 DEF Attended
<1>5. CASE fan'[f] = Fan_SetFixedSpeed(fan[f], speed)
  <2>1. /\ fan'[f].critical = fan[f].critical /\ fan'[f].current = fan[f].current
        /\ fan'[f].mode = "fixed"
    BY <1>1, <1>5 DEF Fan_SetFixedSpeed, FanState
  <2>. QED BY <1>1, <2>1 DEF Attended
<1>. QED BY <1>2, <1>3, <1>4, <1>5

LEMMA RoundStep ==
    ASSUME TypeInv, RoundInv, [Next]_vars
    PROVE  RoundInv'
<1>. TypeOK
  BY DEF TypeInv
<1>1. CASE ReadFan
  BY <1>1, ServiceAssumption
  DEF ReadFan, ReInitRequired, AfterReading, RoundInv, Service_ShouldControlFans, TypeOK,
      Fans, ec
<1>2. CASE Reinitialize
  BY <1>2 DEF Reinitialize, RoundInv, Service_ShouldControlFans
<1>3. CASE ApplyOnWrite
  BY <1>3 DEF ApplyOnWrite, RoundInv, Service_ShouldControlFans, Fans
<1>4. CASE FlushFan
  <2>1. UNCHANGED Service_ShouldControlFans
    BY <1>4, FlushFanWrites DEF Service_ShouldControlFans
  <2>2. \A f \in Fans : f < k => Attended(f)'
    <3>1. SUFFICES ASSUME NEW f \in Fans, f < k PROVE Attended(f)'
      OBVIOUS
    <3>2. Attended(f) /\ f # k
      BY <1>4, <3>1, FlushFanWrites DEF RoundInv, TypeOK, Fans
    <3>3. fan'[f] = fan[f] /\ temp'[f] = temp[f]
      BY <1>4, <3>2, FlushFanWrites
    <3>. QED BY <3>2, <3>3 DEF Attended
  <2>3. \A f \in Fans : f <= k => Attended(f)'
    BY <1>4, <2>2, FlushFanWrites DEF TypeOK, Fans
  <2>4. Service_ShouldControlFans =>
          \A f \in Fans : f <= k => reg'[f] = Fan_GetTargetSpeed(fan'[f])
    BY <1>4, FlushFanWrites DEF RoundInv, TypeOK, Fans
  <2>5. CASE k < NumFans
    <3>1. phase' = "flush" /\ k' = k + 1
      BY <1>4, <2>5, FlushFanWrites
    <3>2. \A f \in Fans : f < k' => f <= k
      BY <3>1 DEF TypeOK, Fans
    <3>. QED BY <2>1, <2>3, <2>4, <3>1, <3>2 DEF RoundInv
  <2>6. CASE ~ (k < NumFans)
    <3>1. phase' \in {"fork", "serve"} /\ \A f \in Fans : f <= k
      BY <1>4, <2>6, FlushFanWrites, ServiceAssumption DEF TypeOK, Fans
    <3>. QED BY <2>3, <3>1 DEF RoundInv
  <2>. QED BY <2>5, <2>6
<1>5. CASE \E target \in {Fans} \cup {{f} : f \in Fans}, speed \in Requests,
              bad \in SUBSET Fans : SetFanSpeed(target, speed, bad)
  <2>1. PICK target \in {Fans} \cup {{f} : f \in Fans}, speed \in Requests,
             bad \in SUBSET Fans : SetFanSpeed(target, speed, bad)
    BY <1>5
  <2>2. speed \in Int
    BY ServiceAssumption DEF Speed, Automatic
  <2>3. phase = "serve" /\ phase' = "serve"
    BY <2>1 DEF SetFanSpeed
  <2>4. \A f \in Fans : Attended(f)'
    BY <2>1, <2>2, <2>3, CommandKeepsAttended DEF RoundInv
  <2>. QED BY <2>3, <2>4 DEF RoundInv
<1>6. CASE phase' = "serve" /\ UNCHANGED <<phase, fan, temp>>
  BY <1>6 DEF RoundInv, Attended
<1>7. CASE UNCHANGED <<phase, k, fan, temp, inSuspend, readOnly, reg>>
  BY <1>7 DEF RoundInv, Attended, Service_ShouldControlFans
<1>8. CASE phase' \notin {"init", "onwrite", "flush", "fork", "serve"}
  BY <1>8 DEF RoundInv
<1>. QED
  BY <1>1, <1>2, <1>3, <1>4, <1>5, <1>6, <1>7, <1>8, SuspendResumeWrites
  DEF Next, Run, Service_Loop, Service_Loop_Error, Service_Cleanup, Server_Command,
      Environment, Start, BootInitializes, BootFailsWithoutEC, BootFails, Fork, ForkFails,
      ReadFanFails, ReinitializeFails, ApplyOnWriteFails, SenseFanFails, FlushFanFails,
      Retry, EndServing, ResetEC, TruncateState,
      WriteState, Kill, ProcessEnds, Signal, Firmware, vars, process, history, ec,
      RoundFails, GivesUp, WhileNotQuit, BeginCleanup

LEMMA RoundInvariant == Spec => []RoundInv
<1>1. Init => RoundInv
  BY DEF Init, RoundInv
<1>2. TypeInv /\ RoundInv /\ [Next]_vars => RoundInv'
  BY RoundStep
<1>. QED BY <1>1, <1>2, TypeInvariant, PTL DEF Spec

\* While the server answers commands every fan is at the threshold its
\* temperature calls for.
THEOREM LevelsMatch == Spec => []LevelMatchesTemperature
<1>1. RoundInv => LevelMatchesTemperature
  BY DEF RoundInv, Attended, LevelMatchesTemperature
<1>. QED BY <1>1, RoundInvariant, PTL

\* A successful round of a service in control leaves every fan's register at
\* its target speed, and at 100 where the temperature is critical.
THEOREM RoundsActuate == Spec => RoundActuatesEveryFan
<1>1. TypeInv /\ RoundInv /\ [Next]_vars
        => [phase = "flush" /\ phase' \in {"fork", "serve"} /\ Service_ShouldControlFans
              => \A f \in Fans : /\ reg'[f] = Fan_GetTargetSpeed(fan'[f])
                                 /\ temp'[f] > Config[f].critical => reg'[f] = 100]_vars
  <2>. SUFFICES ASSUME TypeInv, RoundInv, [Next]_vars,
                       phase = "flush", phase' \in {"fork", "serve"}, Service_ShouldControlFans,
                       NEW f \in Fans
                PROVE  /\ reg'[f] = Fan_GetTargetSpeed(fan'[f])
                       /\ temp'[f] > Config[f].critical => reg'[f] = 100
    BY Zenon
  <2>. TypeOK
    BY DEF TypeInv
  <2>1. FlushFan
    BY SuspendResumeWrites
       DEF Next, Run, Service_Loop, Service_Loop_Error, Service_Cleanup, Server_Command,
           Environment, Start, BootInitializes, BootFailsWithoutEC, BootFails, Fork,
           ForkFails, ReadFan, ReInitRequired, AfterReading, Reinitialize, ApplyOnWrite,
           ReadFanFails, ReinitializeFails, ApplyOnWriteFails, SenseFanFails,
           FlushFanFails, Retry, EndServing, SetFanSpeed, ResetEC, TruncateState, WriteState, Kill, ProcessEnds, Signal, Firmware, vars,
           process, RoundFails, GivesUp, WhileNotQuit, BeginCleanup
  <2>2. f <= k
    BY <2>1, FlushFanWrites, ServiceAssumption DEF TypeOK, Fans
  <2>3. reg'[f] = Fan_GetTargetSpeed(fan'[f])
    BY <2>1, <2>2, FlushFanWrites DEF RoundInv, TypeOK, Fans
  <2>4. Attended(f)'
    <3>1. RoundInv'
      BY RoundStep
    <3>. QED BY <3>1 DEF RoundInv
  <2>. QED BY <2>3, <2>4 DEF Attended, Fan_GetTargetSpeed
<1>. QED BY <1>1, TypeInvariant, RoundInvariant, PTL DEF Spec, RoundActuatesEveryFan

\* A critical fan at full speed stays there until it is no longer critical,
\* whatever is ordered, fails, or is suspended in between.
THEOREM CriticalFansHold == Spec => CriticalHolds
<1>1. TypeInv /\ [Next]_vars
        => [\A f \in Fans : fan[f].critical /\ fan'[f].critical /\ reg[f] = 100
                => reg'[f] = 100 \/ phase = "reset"]_vars
  <2>. SUFFICES ASSUME TypeInv, [Next]_vars, NEW f \in Fans,
                       fan[f].critical, fan'[f].critical, reg[f] = 100, phase # "reset"
                PROVE  reg'[f] = 100
    BY Zenon
  <2>. TypeOK
    BY DEF TypeInv
  <2>1. CASE reg' = reg
    BY <2>1
  <2>2. CASE FlushFan
    BY <2>2, FlushFanWrites DEF Fan_GetTargetSpeed
  <2>3. CASE \E target \in {Fans} \cup {{g} : g \in Fans}, speed \in Requests,
                bad \in SUBSET Fans : SetFanSpeed(target, speed, bad)
    BY <2>3 DEF SetFanSpeed, Commanded, Flushed, WriteEC, Fan_GetTargetSpeed, ec
  <2>. QED
    BY <2>1, <2>2, <2>3, SuspendResumeWrites
    DEF Next, Run, Service_Loop, Service_Loop_Error, Service_Cleanup, Server_Command,
        Environment, Start, BootInitializes, BootFailsWithoutEC, BootFails, Fork,
        ForkFails, ReadFan, ReInitRequired, AfterReading, Reinitialize, ApplyOnWrite,
        ReadFanFails, ReinitializeFails, ApplyOnWriteFails, SenseFanFails, FlushFanFails,
        Retry, EndServing, ResetEC, TruncateState,
        WriteState, Kill, Signal, Firmware, WriteEC, vars, ec
<1>. QED BY <1>1, TypeInvariant, PTL DEF Spec, CriticalHolds

\* A suspended service, and one with --read-only, writes nothing of its own.
LEMMA WritesAreControlled ==
    ASSUME TypeInv, RoundInv, [Next]_vars, ~ Service_ShouldControlFans, phase # "reset"
    PROVE  /\ reg' = reg
           /\ applied' = applied \/ Firmware \/ SuspendResume
<1>. TypeOK
  BY DEF TypeInv
<1>1. CASE UNCHANGED <<reg, applied>>
  BY <1>1
<1>2. CASE Firmware \/ SuspendResume
  BY <1>2, SuspendResumeWrites DEF Firmware
<1>3. CASE FlushFan
  BY <1>3, FlushFanWrites
<1>4. CASE \E target \in {Fans} \cup {{g} : g \in Fans}, speed \in Requests,
              bad \in SUBSET Fans : SetFanSpeed(target, speed, bad)
  BY <1>4 DEF SetFanSpeed, ec
<1>. QED
  BY <1>1, <1>2, <1>3, <1>4
  DEF RoundInv, Next, Run, Service_Loop, Service_Loop_Error, Service_Cleanup,
      Server_Command, Environment, Start, BootInitializes, BootFailsWithoutEC, BootFails,
      Fork, ForkFails, ReadFan, ReInitRequired, AfterReading, Reinitialize, ApplyOnWrite,
      ReadFanFails, ReinitializeFails, ApplyOnWriteFails, SenseFanFails, FlushFanFails,
      Retry, EndServing, ResetEC, TruncateState,
      WriteState, Kill, Signal, vars, ec

\* Between suspend and resume the service leaves fans and OnInitialization
\* entries alone: no round, failed round or command on the way writes them.
THEOREM SuspendedIsQuiet == Spec => SuspendIsQuiet
<1>1. TypeInv /\ RoundInv /\ [Next]_vars
        => [inSuspend /\ inSuspend' /\ phase # "reset"
              => reg' = reg /\ applied' \subseteq applied]_vars
  <2>. SUFFICES ASSUME TypeInv, RoundInv, [Next]_vars,
                       inSuspend, inSuspend', phase # "reset"
                PROVE  reg' = reg /\ applied' \subseteq applied
    BY Zenon
  <2>1. reg' = reg /\ (applied' = applied \/ Firmware \/ SuspendResume)
    BY WritesAreControlled DEF Service_ShouldControlFans
  <2>. QED BY <2>1, SuspendResumeWrites DEF Firmware
<1>. QED BY <1>1, TypeInvariant, RoundInvariant, PTL DEF Spec, SuspendIsQuiet

\* FansAreReset is inductive: ResetEC ends when nothing of ResetRequired has
\* failed in this very turn, or when the attempts are used up.
THEOREM LeavingResetsFans == Spec => []FansAreReset
<1>1. Init => FansAreReset
  BY DEF Init, FansAreReset
<1>2. TypeInv /\ FansAreReset /\ [Next]_vars => FansAreReset'
  <2>. SUFFICES ASSUME TypeInv, FansAreReset, [Next]_vars PROVE FansAreReset'
    OBVIOUS
  <2>. TypeOK
    BY DEF TypeInv
  <2>1. CASE \E bad \in SUBSET Rwcs, badFans \in SUBSET Fans : ResetEC(bad, badFans)
    <3>1. PICK bad \in SUBSET Rwcs, badFans \in SUBSET Fans : ResetEC(bad, badFans)
      BY <2>1
    <3>2. SUFFICES ASSUME NEW f \in ResetRequired, phase' = "save", tries' # 0
                   PROVE  reg'[f] = Reset
      BY <3>1 DEF ResetEC, FansAreReset
    <3>3. ~ failed'
      BY <3>1, <3>2 DEF ResetEC
    <3>4. ResetRequired \cap badFans = {}
      BY <3>1, <3>3 DEF ResetEC, ResetFails
    <3>5. f \in Fans /\ f \in ResetRequired \ badFans
      BY <3>2, <3>4, ServiceAssumption
    <3>. QED BY <3>1, <3>5 DEF ResetEC, WriteEC
  <2>2. CASE phase' \notin {"save", "write"} \/ readOnly' \/ ~ ecOpen'
    BY <2>2 DEF FansAreReset
  <2>3. CASE UNCHANGED <<reg, tries, ecOpen, readOnly>> /\ phase \in {"save", "write"}
    BY <2>3 DEF FansAreReset
  <2>4. CASE BootFailsWithoutEC
    BY <2>4, Zenon DEF BootFailsWithoutEC, FansAreReset
  <2>5. CASE BootFails
    BY <2>5 DEF BootFails, BeginCleanup, FansAreReset
  <2>6. CASE BeginCleanup(ecOpen) /\ UNCHANGED <<ecOpen, readOnly>>
    BY <2>6 DEF BeginCleanup, FansAreReset
  <2>7. CASE RoundFails /\ UNCHANGED <<ecOpen, readOnly>>
    BY <2>2, <2>6, <2>7 DEF RoundFails
  <2>8. CASE WhileNotQuit /\ UNCHANGED <<ecOpen, readOnly>>
    BY <2>2, <2>6, <2>8 DEF WhileNotQuit
  <2>9. CASE Service_Loop
    BY <2>2, <2>9
    DEF Service_Loop, ReadFan, AfterReading, Reinitialize, ApplyOnWrite, FlushFan,
        RoundSucceeds
  <2>. QED
    BY <2>1, <2>2, <2>3, <2>4, <2>5, <2>6, <2>7, <2>8, <2>9, SuspendResumeWrites
    DEF Next, Run, Service_Loop_Error, Service_Cleanup, Server_Command, Environment,
        Start, BootInitializes, Fork, ForkFails, ReadFanFails, ReinitializeFails,
        ApplyOnWriteFails, SenseFanFails, FlushFanFails, Retry, EndServing, SetFanSpeed,
        TruncateState, WriteState, Kill, ProcessEnds,
        Signal, Firmware, vars, process, ec
<1>. QED BY <1>1, <1>2, TypeInvariant, PTL DEF Spec

\* A service with --read-only never comes to ResetEC.
ReadOnlyNeverResets == readOnly => phase # "reset"

\* With --read-only no fan's register is ever written, and the OnInitialization
\* entries neither, from the start to the end, in rounds that fail and in those
\* that do not; root's suspend and resume write what they are configured to.
THEOREM ReadOnlyStaysQuiet == Spec => ReadOnlyIsQuiet
<1>1. ReadOnlyNeverResets /\ [Next]_vars => ReadOnlyNeverResets'
  <2>. SUFFICES ASSUME readOnly => phase # "reset", [Next]_vars, readOnly'
                  PROVE  phase' # "reset"
    BY DEF ReadOnlyNeverResets
  <2>. QED
    BY SuspendResumeWrites
       DEF Next, Run, Service_Loop, Service_Loop_Error, Service_Cleanup, Server_Command,
           Environment, Start, BootInitializes, BootFailsWithoutEC, BootFails, Fork,
           ForkFails, ReadFan, ReInitRequired, AfterReading, Reinitialize, ApplyOnWrite,
           FlushFan, RoundSucceeds, ReadFanFails, ReinitializeFails, ApplyOnWriteFails,
           SenseFanFails, FlushFanFails, Retry, EndServing, SetFanSpeed, 
           ResetEC, TruncateState, WriteState, Kill, ProcessEnds, Signal,
           Firmware, vars, process, RoundFails, GivesUp, WhileNotQuit, BeginCleanup
<1>2. Init => ReadOnlyNeverResets
  BY DEF Init, ReadOnlyNeverResets
<1>3. TypeInv /\ RoundInv /\ ReadOnlyNeverResets /\ [Next]_vars
        => [readOnly => /\ reg' = reg
                        /\ applied' = applied \/ Firmware \/ SuspendResume]_vars
  BY WritesAreControlled DEF Service_ShouldControlFans, ReadOnlyNeverResets
<1>. QED BY <1>1, <1>2, <1>3, TypeInvariant, RoundInvariant, PTL DEF Spec, ReadOnlyIsQuiet

-----------------------------------------------------------------------------
(* The threshold manager: its sort and its loops, one iteration at a time      *)

\* The state of ThresholdManager.tla, for every table that is valid and every
\* temperature.
VARIABLES loop, table, outer, inner, selected, given, older, listed, selectedBefore, givenBefore

Manager ==
    INSTANCE ThresholdManager WITH
        Configs <- {th \in Tables : \A a, b \in 1..Len(th) : a # b => th[a].up # th[b].up},
        Temperatures <- Int \ {-274},
        pc <- loop, thresholds <- table, i <- outer, j <- inner, current <- selected,
        temperature <- given, legacy <- older, config <- listed,
        before <- selectedBefore, last <- givenBefore

\* The table is what was listed, in the order the sort has brought it into so far: the
\* passes it has made have moved the largest to the end, and the pass it is in carries
\* the largest it has met.
Sorting ==
    /\ table \in Tables /\ Manager!ToSet(table) = Manager!ToSet(listed)
    /\ \A a, b \in 1..Len(table) : a # b => table[a].up # table[b].up
    /\ IF loop = "sort"
       THEN /\ outer \in 0..(Len(table) - 1) /\ inner \in 1..(Len(table) - outer)
            /\ \A b \in (Len(table) - outer + 1)..Len(table) : \A a \in 1..(b - 1) :
                   table[a].up < table[b].up
            /\ \A a \in 1..(inner - 1) : table[a].up < table[inner].up
       ELSE Ascending(table)

\* The loops have come no further than their conditions held, and what they started
\* from was selected by the call before.
Walking ==
    /\ loop \in {"sort", "down", "up", "idle"} /\ older \in BOOLEAN
    /\ selected \in 1..Len(table) /\ selectedBefore \in 1..Len(table)
    /\ given \in Int /\ givenBefore \in Int
    /\ loop = "sort" => given = -274
    /\ loop = "idle" /\ given # -274 =>
          \E p \in 1..Len(table) : Selects(older, table, p, given, selected)
    /\ loop \in {"down", "up"} =>
          /\ given # -274 /\ outer \in 1..Len(table) /\ selectedBefore = selected
          /\ givenBefore # -274 =>
                \E p \in 1..Len(table) : Selects(older, table, p, givenBefore, selectedBefore)
    /\ loop = "down" =>
          /\ outer <= selectedBefore
          /\ \A m \in (outer + 1)..selectedBefore : GoesDown(table, m, given)
    /\ loop = "up" =>
          \E q \in 1..outer :
             /\ WalksDown(table, selectedBefore, given, q)
             /\ \A m \in q..(outer - 1) : GoesUp(older, table, m, given)

ManagerInv == Sorting /\ Walking

LEMMA ManagerInit == Manager!Init => ManagerInv
<1>. SUFFICES ASSUME Manager!Init PROVE ManagerInv
  OBVIOUS
<1>1. /\ table \in Tables /\ listed = table /\ older \in BOOLEAN
      /\ \A a, b \in 1..Len(table) : a # b => table[a].up # table[b].up
      /\ loop = "sort" /\ outer = 0 /\ inner = 1 /\ selected = 1 /\ selectedBefore = 1
      /\ given = -274 /\ givenBefore = -274
  BY DEF Manager!Init, Manager!NoCall
<1>2. Len(table) \in Nat \ {0}
  BY <1>1 DEF Tables
<1>3. Sorting
  BY <1>1, <1>2 DEF Sorting
<1>4. Walking
  BY <1>1, <1>2 DEF Walking
<1>. QED BY <1>3, <1>4 DEF ManagerInv

\* One comparison: the larger of the two is the later, and nothing else changes.
Exchanged(th, n) == [th EXCEPT ![n] = th[n + 1], ![n + 1] = th[n]]

LEMMA Exchange ==
    ASSUME NEW th \in Tables, NEW n \in 1..Len(th), n + 1 \in 1..Len(th)
    PROVE  /\ Exchanged(th, n) \in Tables /\ Len(Exchanged(th, n)) = Len(th)
           /\ Exchanged(th, n)[n] = th[n + 1] /\ Exchanged(th, n)[n + 1] = th[n]
           /\ \A a \in 1..Len(th) : a # n /\ a # n + 1 => Exchanged(th, n)[a] = th[a]
           /\ Manager!ToSet(Exchanged(th, n)) = Manager!ToSet(th)
<1>. DEFINE after == Exchanged(th, n)
<1>0. after = [th EXCEPT ![n] = th[n + 1], ![n + 1] = th[n]]
  BY DEF Exchanged
<1>. HIDE DEF after
<1>1. Len(th) \in Nat /\ DOMAIN th = 1..Len(th) /\ th \in Seq(Threshold) /\ Len(th) # 0
  BY DEF Tables
<1>2. /\ DOMAIN after = 1..Len(th)
      /\ after[n] = th[n + 1] /\ after[n + 1] = th[n]
      /\ \A a \in 1..Len(th) : a # n /\ a # n + 1 => after[a] = th[a]
  BY <1>0, <1>1
<1>3. after \in Seq(Threshold) /\ Len(after) = Len(th)
  BY <1>0, <1>1
<1>4. ASSUME NEW e PROVE e \in Manager!ToSet(after) <=> e \in Manager!ToSet(th)
  <2>1. e \in Manager!ToSet(after) <=> \E a \in 1..Len(th) : after[a] = e
    BY <1>2 DEF Manager!ToSet
  <2>2. e \in Manager!ToSet(th) <=> \E a \in 1..Len(th) : th[a] = e
    BY <1>1 DEF Manager!ToSet
  <2>3. ASSUME NEW a \in 1..Len(th), after[a] = e PROVE \E b \in 1..Len(th) : th[b] = e
    BY <1>2, <2>3
  <2>4. ASSUME NEW a \in 1..Len(th), th[a] = e PROVE \E b \in 1..Len(th) : after[b] = e
    BY <1>2, <2>4
  <2>. QED BY <2>1, <2>2, <2>3, <2>4
<1>5. after \in Tables /\ Manager!ToSet(after) = Manager!ToSet(th)
  BY <1>1, <1>3, <1>4 DEF Tables
<1>. QED BY <1>2, <1>3, <1>5 DEF after

\* The sort in ThresholdManager_Init.
LEMMA SortCompares ==
    ASSUME Sorting, Manager!SortCompare PROVE Sorting' /\ Len(table') = Len(table)
<1>. DEFINE n == Len(table)
            swapped == Exchanged(table, inner)
<1>1. /\ loop = "sort" /\ loop' = loop /\ outer' = outer /\ inner' = inner + 1 /\ listed' = listed
      /\ outer \in 0..(n - 1) /\ inner \in 1..(n - outer) /\ outer < n - 1 /\ inner <= n - outer - 1
      /\ table' = IF table[inner].up > table[inner + 1].up THEN swapped ELSE table
  BY DEF Sorting, Manager!SortCompare, Manager!LastPair, Manager!size, Manager!history, Exchanged
<1>2. /\ n \in Nat /\ table \in Tables /\ \A a \in 1..n : table[a].up \in Int
      /\ \A a, b \in 1..n : a # b => table[a].up # table[b].up
      /\ inner \in 1..n /\ inner + 1 \in 1..n /\ inner \in Int /\ outer \in Int
  BY <1>1, EntryType DEF Sorting, Tables
<1>3. /\ \A b \in (n - outer + 1)..n : \A a \in 1..(b - 1) : table[a].up < table[b].up
      /\ \A a \in 1..(inner - 1) : table[a].up < table[inner].up
      /\ Manager!ToSet(table) = Manager!ToSet(listed)
  BY <1>1 DEF Sorting
<1>4. /\ outer \in 0..(n - 1) /\ inner + 1 \in 1..(n - outer)
  BY <1>1, <1>2
<1>5. CASE table[inner].up > table[inner + 1].up
  <2>1. table' = swapped
    BY <1>1, <1>5
  <2>. HIDE DEF swapped
  <2>2. /\ swapped \in Tables /\ Len(swapped) = n
        /\ swapped[inner] = table[inner + 1] /\ swapped[inner + 1] = table[inner]
        /\ \A a \in 1..n : a # inner /\ a # inner + 1 => swapped[a] = table[a]
        /\ Manager!ToSet(swapped) = Manager!ToSet(table)
    <3>1. table \in Tables /\ inner \in 1..Len(table) /\ inner + 1 \in 1..Len(table)
      BY <1>2
    <3>. QED BY <3>1, Exchange DEF swapped
  <2>. HIDE DEF n
  <2>3. ASSUME NEW a \in 1..n
        PROVE  \E c \in 1..n : /\ swapped[a] = table[c]
                               /\ c = IF a = inner THEN inner + 1
                                      ELSE IF a = inner + 1 THEN inner ELSE a
    BY <1>2, <2>2
  <2>4. ASSUME NEW a \in 1..n, NEW b \in 1..n, a # b PROVE swapped[a].up # swapped[b].up
    <3>1. PICK c \in 1..n : /\ swapped[a] = table[c]
                            /\ c = IF a = inner THEN inner + 1
                                   ELSE IF a = inner + 1 THEN inner ELSE a
      BY <2>3
    <3>2. PICK d \in 1..n : /\ swapped[b] = table[d]
                            /\ d = IF b = inner THEN inner + 1
                                   ELSE IF b = inner + 1 THEN inner ELSE b
      BY <2>3
    <3>3. c # d
      BY <1>2, <2>4, <3>1, <3>2
    <3>. QED BY <1>2, <3>1, <3>2, <3>3
  <2>5. ASSUME NEW b \in (n - outer + 1)..n, NEW a \in 1..(b - 1)
        PROVE  swapped[a].up < swapped[b].up
    <3>1. a \in 1..n /\ b \in 1..n /\ b # inner /\ b # inner + 1 /\ inner \in 1..(b - 1)
          /\ inner + 1 \in 1..(b - 1)
      BY <1>1, <1>2, <1>4
    <3>2. swapped[b] = table[b]
      BY <2>2, <3>1
    <3>3. \E c \in 1..(b - 1) : swapped[a] = table[c]
      BY <2>2, <3>1
    <3>. QED BY <1>3, <3>2, <3>3
  <2>6. ASSUME NEW a \in 1..(inner + 1 - 1) PROVE swapped[a].up < swapped[inner + 1].up
    <3>1. CASE a = inner
      BY <1>2, <1>5, <2>2, <3>1
    <3>2. CASE a # inner
      <4>1. a \in 1..(inner - 1) /\ a \in 1..n /\ a # inner + 1
        BY <1>2, <3>2
      <4>. QED BY <1>3, <2>2, <4>1
    <3>. QED BY <3>1, <3>2
  <2>7. /\ table' \in Tables /\ Manager!ToSet(table') = Manager!ToSet(listed')
        /\ \A a, b \in 1..Len(table') : a # b => table'[a].up # table'[b].up
    BY <1>1, <1>3, <2>1, <2>2, <2>4
  <2>8. loop' = "sort" /\ Len(table') = n
    BY <1>1, <2>1, <2>2
  <2>9. outer' \in 0..(Len(table') - 1) /\ inner' \in 1..(Len(table') - outer')
    BY <1>1, <1>4, <2>8
  <2>10. \A b \in (Len(table') - outer' + 1)..Len(table') : \A a \in 1..(b - 1) :
            table'[a].up < table'[b].up
    BY <1>1, <2>1, <2>5, <2>8
  <2>11. \A a \in 1..(inner' - 1) : table'[a].up < table'[inner'].up
    BY <1>1, <2>1, <2>6
  <2>. QED BY <2>7, <2>8, <2>9, <2>10, <2>11 DEF Sorting, n
<1>6. CASE ~ table[inner].up > table[inner + 1].up
  <2>1. table' = table
    BY <1>1, <1>6
  <2>2. table[inner].up < table[inner + 1].up
    <3>1. table[inner].up # table[inner + 1].up
      BY <1>2
    <3>2. table[inner].up \in Int /\ table[inner + 1].up \in Int
      BY <1>2
    <3>. QED BY <1>6, <3>1, <3>2
  <2>3. ASSUME NEW a \in 1..(inner + 1 - 1) PROVE table[a].up < table[inner + 1].up
    <3>1. CASE a = inner
      BY <2>2, <3>1
    <3>2. CASE a # inner
      <4>1. a \in 1..(inner - 1) /\ a \in 1..n
        BY <1>2, <3>2
      <4>2. table[a].up \in Int /\ table[inner].up \in Int /\ table[inner + 1].up \in Int
        BY <1>2, <4>1
      <4>3. table[a].up < table[inner].up
        BY <1>3, <4>1
      <4>. QED BY <2>2, <4>2, <4>3
    <3>. QED BY <3>1, <3>2
  <2>. HIDE DEF n
  <2>4. Len(table) = n
    BY DEF n
  <2>5. /\ table' \in Tables /\ Manager!ToSet(table') = Manager!ToSet(listed')
        /\ \A a, b \in 1..Len(table') : a # b => table'[a].up # table'[b].up
    BY <1>1, <1>2, <1>3, <2>1, <2>4
  <2>6. loop' = "sort" /\ Len(table') = n
    BY <1>1, <2>1, <2>4
  <2>7. outer' \in 0..(Len(table') - 1) /\ inner' \in 1..(Len(table') - outer')
    BY <1>1, <1>4, <2>6
  <2>8. \A b \in (Len(table') - outer' + 1)..Len(table') : \A a \in 1..(b - 1) :
            table'[a].up < table'[b].up
    BY <1>1, <1>3, <2>1, <2>6
  <2>9. \A a \in 1..(inner' - 1) : table'[a].up < table'[inner'].up
    BY <1>1, <2>1, <2>3
  <2>. QED BY <2>5, <2>6, <2>7, <2>8, <2>9 DEF Sorting, n
<1>. QED BY <1>5, <1>6

\* At the end of a pass what it carries is the largest of those before the end.
LEMMA SortPasses == ASSUME Sorting, Manager!SortNextPass \/ Manager!SortDone PROVE Sorting'
<1>. DEFINE n == Len(table)
<1>0. loop = "sort" /\ table' = table /\ listed' = listed
  BY DEF Manager!SortNextPass, Manager!SortDone, Manager!history
<1>1. /\ loop = "sort" /\ table' = table /\ listed' = listed
      /\ outer \in 0..(n - 1) /\ inner \in 1..(n - outer) /\ n \in Nat \ {0}
      /\ \A b \in (n - outer + 1)..n : \A a \in 1..(b - 1) : table[a].up < table[b].up
      /\ \A a \in 1..(inner - 1) : table[a].up < table[inner].up
      /\ table \in Tables /\ Manager!ToSet(table) = Manager!ToSet(listed)
      /\ \A a, b \in 1..n : a # b => table[a].up # table[b].up
  <2>1. n \in Nat \ {0}
    BY DEF Sorting, Tables
  <2>. HIDE DEF n
  <2>2. Len(table) = n
    BY DEF n
  <2>. QED BY <1>0, <2>1, <2>2 DEF Sorting
<1>2. outer \in Int /\ inner \in Int /\ Len(table') = n /\ Len(table) = n
  BY <1>1
<1>3. CASE Manager!SortNextPass
  <2>1. loop' = "sort" /\ outer' = outer + 1 /\ inner' = 1 /\ outer < n - 1 /\ inner = n - outer
    BY <1>1, <1>3 DEF Manager!SortNextPass, Manager!LastPair, Manager!size
  <2>. HIDE DEF n
  <2>2. ASSUME NEW b \in (n - (outer + 1) + 1)..n, NEW a \in 1..(b - 1)
        PROVE  table[a].up < table[b].up
    <3>1. CASE b = n - outer
      <4>1. b = inner /\ a \in 1..(inner - 1)
        BY <2>1, <3>1
      <4>. QED BY <1>1, <4>1
    <3>2. CASE b # n - outer
      <4>1. b \in (n - outer + 1)..n
        BY <1>1, <1>2, <3>2
      <4>. QED BY <1>1, <4>1
    <3>. QED BY <3>1, <3>2
  <2>3. outer + 1 \in 0..(n - 1) /\ 1 \in 1..(n - (outer + 1)) /\ 1..(1 - 1) = {}
    BY <1>1, <1>2, <2>1
  <2>4. /\ table' \in Tables /\ Manager!ToSet(table') = Manager!ToSet(listed')
        /\ \A a, b \in 1..Len(table') : a # b => table'[a].up # table'[b].up
    BY <1>1, <1>2
  <2>5. /\ outer' \in 0..(Len(table') - 1) /\ inner' \in 1..(Len(table') - outer')
        /\ \A b \in (Len(table') - outer' + 1)..Len(table') : \A a \in 1..(b - 1) :
               table'[a].up < table'[b].up
        /\ \A a \in 1..(inner' - 1) : table'[a].up < table'[inner'].up
    BY <1>1, <1>2, <2>1, <2>2, <2>3
  <2>. QED BY <2>1, <2>4, <2>5 DEF Sorting
<1>4. CASE Manager!SortDone
  <2>1. loop' = "idle" /\ outer = n - 1
    BY <1>1, <1>4 DEF Manager!SortDone, Manager!size
  <2>. HIDE DEF n
  <2>2. ASSUME NEW a \in 1..n, NEW b \in 1..n, a < b PROVE table[a].up < table[b].up
    <3>1. b \in (n - outer + 1)..n /\ a \in 1..(b - 1)
      BY <1>1, <2>1, <2>2
    <3>. QED BY <1>1, <3>1
  <2>3. Ascending(table)
    BY <1>2, <2>2 DEF Ascending
  <2>4. table' = table /\ Ascending(table') /\ loop' # "sort"
    BY <1>1, <2>1, <2>3
  <2>. QED BY <1>1, <1>2, <2>4 DEF Sorting
<1>. QED BY <1>3, <1>4

\* The loops: each walks on exactly when its condition holds.
LEMMA StepUpWalks ==
    ASSUME ManagerInv, Manager!StepUp
    PROVE  /\ Walking'
           /\ loop' = "idle" =>
                 /\ selected' \in 1..Len(table)
                 /\ Selects(older, table, selectedBefore, given, selected')
<1>1. /\ loop = "up" /\ table' = table /\ given' = given /\ givenBefore' = givenBefore
      /\ older' = older /\ selectedBefore' = selectedBefore
      /\ IF GoesUp(older, table, outer, given)
         THEN outer' = outer + 1 /\ loop' = loop /\ selected' = selected
         ELSE loop' = "idle" /\ selected' = outer /\ outer' = outer
  BY DEF Manager!StepUp, Manager!history, Manager!GoesUp, GoesUp, Manager!UpPoint, UpPoint
<1>2. /\ older \in BOOLEAN /\ given \in Int /\ givenBefore \in Int /\ given # -274
      /\ selected \in 1..Len(table) /\ selectedBefore \in 1..Len(table)
      /\ outer \in 1..Len(table) /\ selectedBefore = selected
      /\ givenBefore # -274 =>
            \E p \in 1..Len(table) : Selects(older, table, p, givenBefore, selectedBefore)
  BY <1>1 DEF ManagerInv, Walking
<1>3. PICK q \in 1..outer :
         /\ WalksDown(table, selectedBefore, given, q)
         /\ \A m \in q..(outer - 1) : GoesUp(older, table, m, given)
  BY <1>1 DEF ManagerInv, Walking
<1>4. Len(table) \in Nat /\ outer \in Int /\ q \in Int
  BY <1>2 DEF ManagerInv, Sorting, Tables
<1>5. CASE GoesUp(older, table, outer, given)
  <2>1. outer + 1 \in 1..Len(table) /\ q \in 1..(outer + 1)
    BY <1>2, <1>3, <1>4, <1>5 DEF GoesUp
  <2>2. ASSUME NEW m \in q..(outer + 1 - 1) PROVE GoesUp(older, table, m, given)
    <3>1. CASE m = outer
      BY <1>5, <3>1
    <3>2. CASE m # outer
      <4>1. m \in q..(outer - 1)
        BY <1>4, <3>2
      <4>. QED BY <1>3, <4>1
    <3>. QED BY <3>1, <3>2
  <2>3. loop' = "up" /\ outer' = outer + 1 /\ selected' = selected
    BY <1>1, <1>5
  <2>. QED BY <1>1, <1>2, <1>3, <2>1, <2>2, <2>3 DEF Walking
<1>6. CASE ~ GoesUp(older, table, outer, given)
  <2>1. loop' = "idle" /\ selected' = outer
    BY <1>1, <1>6
  <2>2. q \in 1..Len(table) /\ outer \in q..Len(table)
    BY <1>2, <1>3, <1>4
  <2>3. Selects(older, table, selectedBefore, given, outer)
    BY <1>3, <1>6, <2>2 DEF Selects, WalksUp
  <2>. QED BY <1>1, <1>2, <2>1, <2>3 DEF Walking
<1>. QED BY <1>5, <1>6

LEMMA StepDownWalks == ASSUME ManagerInv, Manager!StepDown PROVE Walking'
<1>1. /\ loop = "down" /\ table' = table /\ given' = given /\ givenBefore' = givenBefore
      /\ older' = older /\ selected' = selected /\ selectedBefore' = selectedBefore
      /\ IF GoesDown(table, outer, given)
         THEN outer' = outer - 1 /\ loop' = loop
         ELSE loop' = "up" /\ outer' = outer
  BY DEF Manager!StepDown, Manager!history, Manager!GoesDown, GoesDown
<1>2. /\ older \in BOOLEAN /\ given \in Int /\ givenBefore \in Int /\ given # -274
      /\ selected \in 1..Len(table) /\ selectedBefore \in 1..Len(table)
      /\ outer \in 1..Len(table) /\ selectedBefore = selected
      /\ givenBefore # -274 =>
            \E p \in 1..Len(table) : Selects(older, table, p, givenBefore, selectedBefore)
      /\ outer <= selectedBefore
      /\ \A m \in (outer + 1)..selectedBefore : GoesDown(table, m, given)
  BY <1>1 DEF ManagerInv, Walking
<1>3. Len(table) \in Nat /\ outer \in Int /\ selectedBefore \in Int
  BY <1>2 DEF ManagerInv, Sorting, Tables
<1>4. CASE GoesDown(table, outer, given)
  <2>1. outer - 1 \in 1..Len(table) /\ outer - 1 <= selectedBefore
    BY <1>2, <1>3, <1>4 DEF GoesDown
  <2>2. ASSUME NEW m \in (outer - 1 + 1)..selectedBefore PROVE GoesDown(table, m, given)
    <3>1. CASE m = outer
      BY <1>4, <3>1
    <3>2. CASE m # outer
      <4>1. m \in (outer + 1)..selectedBefore
        BY <1>3, <3>2
      <4>. QED BY <1>2, <4>1
    <3>. QED BY <3>1, <3>2
  <2>3. loop' = "down" /\ outer' = outer - 1
    BY <1>1, <1>4
  <2>. QED BY <1>1, <1>2, <2>1, <2>2, <2>3 DEF Walking
<1>5. CASE ~ GoesDown(table, outer, given)
  <2>1. loop' = "up" /\ outer' = outer
    BY <1>1, <1>5
  <2>2. outer \in 1..selectedBefore /\ outer \in 1..outer /\ outer..(outer - 1) = {}
    BY <1>2, <1>3
  <2>3. WalksDown(table, selectedBefore, given, outer)
    BY <1>2, <1>5, <2>2 DEF WalksDown
  <2>. QED BY <1>1, <1>2, <2>1, <2>2, <2>3 DEF Walking
<1>. QED BY <1>4, <1>5

LEMMA ManagerStep == ASSUME ManagerInv, [Manager!Next]_Manager!vars PROVE ManagerInv'
<1>. USE DEF ManagerInv
<1>1. CASE Manager!SortCompare
  <2>1. Sorting' /\ Len(table') = Len(table)
    BY <1>1, SortCompares
  <2>2. /\ loop = "sort" /\ loop' = "sort" /\ given' = given /\ givenBefore' = givenBefore
        /\ older' = older /\ selected' = selected /\ selectedBefore' = selectedBefore
    BY <1>1 DEF Manager!SortCompare, Manager!history
  <2>. QED BY <2>1, <2>2 DEF Walking
<1>2. CASE Manager!SortNextPass \/ Manager!SortDone
  <2>1. Sorting'
    BY <1>2, SortPasses
  <2>2. /\ loop = "sort" /\ loop' \in {"sort", "idle"} /\ given' = given
        /\ table' = table /\ givenBefore' = givenBefore
        /\ older' = older /\ selected' = selected /\ selectedBefore' = selectedBefore
    BY <1>2 DEF Manager!SortNextPass, Manager!SortDone, Manager!history
  <2>. QED BY <2>1, <2>2 DEF Walking
<1>3. CASE Manager!Call
  <2>1. /\ loop = "idle" /\ loop' = "down" /\ given' \in Int /\ given' # -274
        /\ outer' = selected /\ selectedBefore' = selected /\ givenBefore' = given
        /\ table' = table /\ selected' = selected /\ older' = older /\ listed' = listed
    BY <1>3 DEF Manager!Call
  <2>2. /\ older \in BOOLEAN /\ selected \in 1..Len(table) /\ given \in Int
        /\ given # -274 => \E p \in 1..Len(table) : Selects(older, table, p, given, selected)
    BY <2>1 DEF Walking
  <2>3. selected \in Int /\ (selected + 1)..selected = {}
    BY <2>2 DEF Sorting, Tables
  <2>4. Walking'
    BY <2>1, <2>2, <2>3 DEF Walking
  <2>. QED BY <2>1, <2>4 DEF Sorting
<1>4. CASE Manager!StepDown
  <2>1. loop = "down" /\ loop' # "sort" /\ table' = table /\ listed' = listed
    BY <1>4 DEF Manager!StepDown, Manager!history
  <2>. QED BY <1>4, <2>1, StepDownWalks DEF Sorting
<1>5. CASE Manager!StepUp
  <2>1. loop = "up" /\ loop' # "sort" /\ table' = table /\ listed' = listed
    BY <1>5 DEF Manager!StepUp, Manager!history
  <2>. QED BY <1>5, <2>1, StepUpWalks DEF Sorting
<1>6. CASE UNCHANGED Manager!vars
  BY <1>6 DEF Manager!vars, Manager!history, Sorting, Walking
<1>. QED BY <1>1, <1>2, <1>3, <1>4, <1>5, <1>6 DEF Manager!Next

LEMMA ManagerInvariant == Manager!Spec => []ManagerInv
<1>1. Manager!Init => ManagerInv
  BY ManagerInit
<1>2. ManagerInv /\ [Manager!Next]_Manager!vars => ManagerInv'
  BY ManagerStep
<1>. QED BY <1>1, <1>2, PTL DEF Manager!Spec

\* Only the second loop of AutoSelectThreshold returns from it.
LEMMA ReturnSelects ==
    ASSUME ManagerInv, [Manager!Next]_Manager!vars, loop = "up", loop' = "idle"
    PROVE  /\ selected' \in 1..Len(table)
           /\ Selects(older, table, selectedBefore, given, selected')
<1>1. Manager!StepUp
  BY DEF Manager!Next, Manager!vars, Manager!SortCompare, Manager!SortNextPass,
         Manager!SortDone, Manager!Call, Manager!StepDown
<1>. QED BY <1>1, StepUpWalks

\* temperature_threshold_manager.c: from a table listed in any order the sort of
\* ThresholdManager_Init makes the ascending one of the same thresholds, and the loops
\* of AutoSelectThreshold stop at the one index Selects allows, with the legacy
\* behaviour and without it.
THEOREM LoopsSelect == Manager!Spec => Manager!LoopsComputeSelects
<1>1. ASSUME ManagerInv, [Manager!Next]_Manager!vars, loop = "up", loop' = "idle"
      PROVE  /\ Ascending(table) /\ Manager!ToSet(table) = Manager!ToSet(listed)
             /\ \A c \in 1..Len(table) :
                    Selects(older, table, selectedBefore, given, c) <=> c = selected'
  <2>1. /\ selected' \in 1..Len(table)
        /\ Selects(older, table, selectedBefore, given, selected')
    BY <1>1, ReturnSelects
  <2>2. /\ table \in Tables /\ older \in BOOLEAN /\ given \in Int
        /\ selectedBefore \in 1..Len(table)
    BY <1>1 DEF ManagerInv, Sorting, Walking
  <2>3. ASSUME NEW c \in 1..Len(table)
        PROVE  Selects(older, table, selectedBefore, given, c) <=> c = selected'
    BY <2>1, <2>2, SelectsOne
  <2>. QED BY <1>1, <2>3 DEF ManagerInv, Sorting
<1>2. ManagerInv /\ [Manager!Next]_Manager!vars => [Manager!Returns]_Manager!vars
  <2>1. Manager!size = Len(table) /\ (Manager!Ascending(table) <=> Ascending(table))
    BY DEF Manager!size, Manager!Ascending, Ascending
  <2>2. \A c \in 1..Len(table) :
           Manager!Selects(older, table, selectedBefore, given, c)
           <=> Selects(older, table, selectedBefore, given, c)
    BY DEF Manager!Selects, Selects, Manager!WalksDown, WalksDown, Manager!WalksUp, WalksUp,
           Manager!GoesDown, GoesDown, Manager!GoesUp, GoesUp, Manager!UpPoint, UpPoint
  <2>. QED BY <1>1, <2>1, <2>2 DEF Manager!Returns
<1>. QED BY <1>2, ManagerInvariant, PTL DEF Manager!Spec, Manager!LoopsComputeSelects

\* ThresholdManager_AutoSelectThreshold called again with the temperature of the call
\* before leaves my.current where it is.
THEOREM SteadyNeverHunts == Manager!Spec => Manager!NeverHunts
<1>1. ASSUME ManagerInv, [Manager!Next]_Manager!vars, loop = "up", loop' = "idle",
             given = givenBefore
      PROVE  selected' = selectedBefore
  <2>1. /\ selected' \in 1..Len(table)
        /\ Selects(older, table, selectedBefore, given, selected')
    BY <1>1, ReturnSelects
  <2>2. /\ table \in Tables /\ older \in BOOLEAN /\ given \in Int /\ given # -274
        /\ selectedBefore \in 1..Len(table)
        /\ givenBefore # -274 =>
              \E p \in 1..Len(table) : Selects(older, table, p, givenBefore, selectedBefore)
    BY <1>1 DEF ManagerInv, Sorting, Walking
  <2>3. PICK p \in 1..Len(table) : Selects(older, table, p, given, selectedBefore)
    BY <1>1, <2>2
  <2>4. Selects(older, table, selectedBefore, given, selectedBefore)
    BY <2>2, <2>3, SelectionIsAtRest
  <2>. QED BY <2>1, <2>2, <2>4, SelectsOne
<1>2. ManagerInv /\ [Manager!Next]_Manager!vars =>
         [loop = "up" /\ loop' = "idle" /\ given = givenBefore =>
             selected' = selectedBefore]_Manager!vars
  BY <1>1
<1>. QED BY <1>2, ManagerInvariant, PTL DEF Manager!Spec, Manager!NeverHunts
=============================================================================
