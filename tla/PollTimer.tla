------------------------------- MODULE PollTimer -------------------------------
(***************************************************************************)
(* When rounds happen: the two loops of main() in src/main.c.  After a     *)
(* round the server is served until EcPollInterval milliseconds have       *)
(* passed by gettimeofday(), a clock that can be set; poll() itself waits  *)
(* by one that cannot.                                                     *)
(***************************************************************************)
EXTENDS Integers

CONSTANTS
    EcPollInterval,     \* of the model config
    IntMax,             \* INT_MAX
    Steps,              \* by how much the clock may be set forward or back
    MaxSettings         \* how often it is set at most

ASSUME PollTimerAssumption ==
    /\ EcPollInterval \in Nat \ {0} /\ IntMax \in Nat
    /\ EcPollInterval <= IntMax
    /\ Steps \subseteq Int
    /\ MaxSettings \in Nat

VARIABLES
    pc,         \* where main is: before a round, at the inner while, in poll(), or out
    quit,       \* set by SIGINT and SIGTERM
    passed,     \* current - start, by the clock
    left,       \* what is left of the timeout of poll()
    waited,     \* history: real time since start
    late,       \* history: real time since quit was set
    settings    \* history: how often the clock was set

vars == <<pc, quit, passed, left, waited, late, settings>>

TypeOK ==
    /\ pc \in {"round", "while", "poll", "out"}
    /\ quit \in BOOLEAN
    /\ passed \in Int
    /\ left \in Nat /\ waited \in Nat /\ late \in Nat
    /\ settings \in 0..MaxSettings

Init ==
    /\ pc = "round" /\ quit = FALSE
    /\ passed = 0 /\ left = 0 /\ waited = 0 /\ late = 0 /\ settings = 0

\* The value of an expression as an int; an int that overflows wraps.
ToInt(x) == ((x + IntMax + 1) % (2 * (IntMax + 1))) - (IntMax + 1)

Timeout == ToInt(EcPollInterval - ToInt(passed))

\* Mutant: the whole interval again after every event.
WholeInterval == EcPollInterval

\* The timeout handed to Server_Loop.
PollTimeout == Timeout

\* Mutant: quit kept in a register.
Cached == FALSE

\* What the loops see of quit, which a handler sets.
Seen == quit

\* A successful round; a failed one is tried again.
Round ==
    /\ pc = "round" /\ ~Seen
    /\ pc' = "while"
    /\ passed' = 0 /\ waited' = 0
    /\ UNCHANGED <<quit, left, late, settings>>

\* One turn of the inner loop up to poll().
Poll ==
    /\ pc = "while" /\ ~Seen
    /\ Timeout > 0
    /\ pc' = "poll"
    /\ left' = PollTimeout
    /\ UNCHANGED <<quit, passed, waited, late, settings>>

TimeUp ==
    /\ pc = "while" /\ ~Seen
    /\ Timeout <= 0
    /\ pc' = "round"
    /\ UNCHANGED <<quit, passed, left, waited, late, settings>>

\* Both loops end when they see quit.
Leave ==
    /\ pc \in {"round", "while"} /\ Seen
    /\ pc' = "out"
    /\ UNCHANGED <<quit, passed, left, waited, late, settings>>

\* Mutant: Server_Loop called once per round.
PollReturnsForGood ==
    /\ pc = "poll"
    /\ pc' = "round"
    /\ left' = 0
    /\ UNCHANGED <<quit, passed, waited, late, settings>>

\* poll() returns because of a client, an interruption or an error, or when its
\* time is up, and Server_Loop has served whom there was to serve.
PollReturns ==
    /\ pc = "poll"
    /\ pc' = "while"
    /\ left' = 0
    /\ UNCHANGED <<quit, passed, waited, late, settings>>

\* A signal interrupts poll() only if it finds main there: one that comes after
\* the inner while has looked at quit waits for what wakes poll() next.
Signal ==
    /\ ~quit /\ pc # "out"
    /\ quit' = TRUE
    /\ UNCHANGED <<pc, passed, left, waited, late, settings>>

\* Time passes in poll(), as far as its timeout lets it.
Tick ==
    /\ pc = "poll" /\ left > 0
    /\ passed' = passed + 1 /\ waited' = waited + 1 /\ left' = left - 1
    /\ late' = IF quit THEN late + 1 ELSE 0
    /\ UNCHANGED <<pc, quit, settings>>

SetClock ==
    /\ settings < MaxSettings
    /\ \E step \in Steps : passed' = passed + step
    /\ settings' = settings + 1
    /\ UNCHANGED <<pc, quit, left, waited, late>>

Next ==
    \/ Round \/ Poll \/ TimeUp \/ Leave \/ PollReturns \/ Signal \/ Tick \/ SetClock

\* main goes on, poll() returns when its time is up, and real time passes even
\* if clients wake poll() again and again.
Fairness == /\ WF_vars(Round \/ Poll \/ TimeUp \/ Leave)
            /\ SF_vars(Tick) /\ WF_vars(left = 0 /\ PollReturns)

Spec == Init /\ [][Next]_vars /\ Fairness

---------------------------------------------------------------------------
\* However often poll() returns early, the wait never gets longer than
\* EcPollInterval: each turn asks only for what is left.  gettimeofday() is not
\* a monotonic clock, so this holds as long as nobody sets it.
InTime == settings = 0 => waited <= EcPollInterval

\* Nor shorter: a round follows a round only after EcPollInterval, whatever
\* wakes poll().
RoundsAreSpaced ==
    [][settings = 0 /\ pc # "round" /\ pc' = "round" => waited >= EcPollInterval]_vars

\* A signal that falls between the look at quit and poll() is not lost; it
\* waits for no more than the rest of the interval.
QuitInTime == settings = 0 => late <= EcPollInterval

================================================================================
