---------------------------- MODULE PollTimer_proofs ----------------------------
(***************************************************************************)
(* Proofs about PollTimer.tla, for any interval that is an int: types, and *)
(* what the waits keep as long as nobody sets the clock.                   *)
(***************************************************************************)
EXTENDS PollTimer, TLAPS

\* The clock tells real time, poll() is never asked for more than what is left,
\* and lateness is part of one wait.
Unset ==
    /\ passed = waited
    /\ waited + left <= EcPollInterval
    /\ ~quit => late = 0
    /\ late <= waited

TimerInv == TypeOK /\ (settings = 0 => Unset)

\* No conversion wraps within the interval.
LEMMA ToIntIsIdentity ==
    ASSUME NEW x \in Int, -IntMax - 1 <= x, x <= IntMax
    PROVE  ToInt(x) = x
<1>1. x + IntMax + 1 \in 0..(2 * (IntMax + 1) - 1) /\ IntMax \in Nat
  BY PollTimerAssumption
<1>2. (x + IntMax + 1) % (2 * (IntMax + 1)) = x + IntMax + 1
  BY <1>1
<1>. QED
  BY <1>1, <1>2 DEF ToInt

LEMMA ToIntIsInt == ASSUME NEW x \in Int PROVE ToInt(x) \in Int
<1>1. IntMax \in Nat
  BY PollTimerAssumption
<1>2. (x + IntMax + 1) % (2 * (IntMax + 1)) \in Int
  BY <1>1
<1>. QED
  BY <1>1, <1>2 DEF ToInt

LEMMA TimeoutIsTheRest == ASSUME TimerInv, settings = 0 PROVE Timeout = EcPollInterval - waited
<1>1. waited \in 0..EcPollInterval /\ EcPollInterval \in 0..IntMax /\ IntMax \in Nat
  BY PollTimerAssumption DEF TimerInv, TypeOK, Unset
<1>2. ToInt(passed) = waited
  BY <1>1, ToIntIsIdentity DEF TimerInv, Unset
<1>3. ToInt(EcPollInterval - waited) = EcPollInterval - waited
  BY <1>1, ToIntIsIdentity
<1>. QED
  BY <1>2, <1>3 DEF Timeout

LEMMA TimerStep == ASSUME TimerInv, [Next]_vars PROVE TimerInv'
<1> USE PollTimerAssumption DEF TimerInv, TypeOK, Unset
<1>1. CASE Round
  BY <1>1 DEF Round, Seen
<1>2. CASE Poll
  <2>1. Timeout \in Int
    <3>1. ToInt(passed) \in Int
      BY ToIntIsInt
    <3>. QED
      BY <3>1, ToIntIsInt DEF Timeout
  <2>. QED
    BY <1>2, <2>1, TimeoutIsTheRest DEF Poll, PollTimeout
<1>3. CASE TimeUp
  BY <1>3 DEF TimeUp
<1>4. CASE Leave
  BY <1>4 DEF Leave
<1>5. CASE PollReturns
  BY <1>5 DEF PollReturns
<1>6. CASE Signal
  BY <1>6 DEF Signal
<1>7. CASE Tick
  BY <1>7 DEF Tick
<1>8. CASE SetClock
  BY <1>8 DEF SetClock
<1>9. CASE UNCHANGED vars
  BY <1>9 DEF vars
<1>10. CASE Next
  BY <1>1, <1>2, <1>3, <1>4, <1>5, <1>6, <1>7, <1>8, <1>10 DEF Next
<1>. QED
  BY <1>9, <1>10

THEOREM TimerInvariant == Spec => []TimerInv
<1>1. Init => TimerInv
  <2> SUFFICES ASSUME Init PROVE TimerInv
    OBVIOUS
  <2>1. quit \in BOOLEAN
    BY DEF Init
  <2>2. 0 \in 0..MaxSettings /\ 0 <= EcPollInterval
    BY PollTimerAssumption
  <2>. QED
    BY <2>1, <2>2 DEF Init, TimerInv, TypeOK, Unset
<1>2. TimerInv /\ [Next]_vars => TimerInv'
  BY TimerStep
<1>. QED
  BY <1>1, <1>2, PTL DEF Spec

\* Rounds are never further apart than EcPollInterval: poll() may return early
\* any number of times.
THEOREM WaitsInTime == Spec => []InTime
<1>1. TimerInv => InTime
  BY PollTimerAssumption DEF TimerInv, TypeOK, Unset, InTime
<1>. QED
  BY <1>1, TimerInvariant, PTL

\* Nor closer.
THEOREM SpacesRounds == Spec => RoundsAreSpaced
<1>1. TimerInv /\ [Next]_vars =>
        [settings = 0 /\ pc # "round" /\ pc' = "round" => waited >= EcPollInterval]_vars
  <2> SUFFICES ASSUME TimerInv, Next, settings = 0, pc # "round", pc' = "round"
               PROVE  waited >= EcPollInterval
    BY DEF vars
  <2>1. TimeUp
    BY DEF Next, Round, Poll, TimeUp, Leave, PollReturns, Signal, Tick, SetClock
  <2>. QED
    BY <2>1, TimeoutIsTheRest, PollTimerAssumption DEF TimeUp, TimerInv, TypeOK, Unset
<1>. QED
  BY <1>1, TimerInvariant, PTL DEF Spec, RoundsAreSpaced

\* A signal is seen within the interval, wherever it falls.
THEOREM QuitsInTime == Spec => []QuitInTime
<1>1. TimerInv => QuitInTime
  BY PollTimerAssumption DEF TimerInv, TypeOK, Unset, QuitInTime
<1>. QED
  BY <1>1, TimerInvariant, PTL

================================================================================
