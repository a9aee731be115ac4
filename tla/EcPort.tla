--------------------------------- MODULE EcPort ---------------------------------
(***************************************************************************)
(* The access to the embedded controller over its ports, src/ec_linux.c:   *)
(* a byte is read or written by a command, a register and a value that go  *)
(* through one buffer each way, with waits in between that may time out,   *)
(* and everything is tried again a few times.                              *)
(*                                                                         *)
(* The controller is as the code takes it to be (ACPI specification,       *)
(* chapter 12): it takes its input and answers when it pleases, one thing  *)
(* after the other.                                                        *)
(***************************************************************************)
EXTENDS Integers

CONSTANTS
    MaxRegister,        \* the last register, 255
    MaxRetries,         \* EC_Linux_MaxRetries
    FailuresBeforeSkip, \* EC_Linux_FailuresBeforeSkip
    Calls,              \* bound: the calls made
    Contents,           \* what the registers may hold at first
    None                \* no call, nothing written, an empty buffer

Registers == 0..MaxRegister
Byte == 0..255

\* A call of ReadByte, ReadWord, WriteByte or WriteWord, and what is to be written.
Call == [op : {"read", "write"}, word : BOOLEAN, register : Registers,
         lsb : Byte, msb : Byte]

ASSUME EcPortAssumption ==
    /\ MaxRegister \in Byte
    /\ MaxRetries \in Nat \ {0} /\ FailuresBeforeSkip \in Nat
    /\ Calls \subseteq Call /\ Contents \subseteq [Registers -> Byte]
    /\ None \notin Call /\ None \notin Byte
    /\ None \notin [kind : {"read", "write", "data"}, byte : Byte] \cup (Int \X Byte)

VARIABLES
    \* the program
    pc,         \* where a try is; "idle" between two calls
    call,       \* the call under way, or the last one
    half,       \* the byte of a word a try is at, 0 or 1
    tries,      \* i: tries left
    failures,   \* EC_Linux_WaitReadFailures
    \* the ports
    input,      \* the input buffer, and whether EC_IBF is set
    output,     \* the byte in the output buffer
    obf,        \* EC_OBF
    \* the controller
    ec,         \* what it waits for, or "answer"
    register,   \* the register named last
    mem,        \* its registers
    \* history
    sent,       \* the last value written to the data port, and for which register
    written,    \* by the last call that wrote the register, if that succeeded
    abandoned   \* a try has given up on an answer

program == <<pc, call, half, tries, failures>>
history == <<sent, written, abandoned>>
controller == <<ec, register, mem>>
vars == <<program, input, output, obf, controller, history>>

Waits == {"wait1", "wait2", "wait3"}

ProgramTypes ==
    /\ pc \in {"idle", "command", "register", "waitRead", "get", "put"} \cup Waits
    /\ call \in Calls \cup {None}
    /\ half \in {0, 1}
    /\ tries \in 0..MaxRetries
    /\ failures \in 0..(FailuresBeforeSkip + 1)

PortTypes ==
    /\ input \in [kind : {"read", "write", "data"}, byte : Byte] \cup {None}
    /\ output \in Byte
    /\ obf \in BOOLEAN

ControllerTypes ==
    /\ ec \in {"command", "readRegister", "writeRegister", "value", "answer"}
    /\ register \in Registers
    /\ mem \in [Registers -> Byte]

HistoryTypes ==
    /\ sent \in ((0..(MaxRegister + 1)) \X Byte) \cup {None}
    /\ written \in [Registers -> Byte \cup {None}]
    /\ abandoned \in BOOLEAN

TypeOK == ProgramTypes /\ PortTypes /\ ControllerTypes /\ HistoryTypes

Init ==
    /\ pc = "idle" /\ call = None /\ half = 0 /\ tries = 0 /\ failures = 0
    /\ input = None /\ output = 0 /\ obf = FALSE
    /\ ec = "command" /\ register = 0
    /\ mem \in Contents
    /\ sent = None /\ written = [r \in Registers |-> None] /\ abandoned = FALSE

\* register_ + 0 or + 1, as uint8_t.
Address == (call.register + half) % (MaxRegister + 1)

\* The byte of the call a try is at.
Value == IF half = 0 THEN call.lsb ELSE call.msb

\* The registers a call writes, and what it leaves in them.
Target(c) == IF c.op = "read" THEN {}
             ELSE {c.register} \cup IF c.word THEN {c.register + 1} ELSE {}
Wanted(c, r) == IF r = c.register THEN c.lsb ELSE c.msb

---------------------------------------------------------------------------
(* The calls *)

\* "Register > 254"
Fits(c) == c.word => c.register < MaxRegister

Begin(c) ==
    /\ pc = "idle"
    /\ Fits(c)
    /\ pc' = "wait1"
    /\ call' = c
    /\ half' = 0
    /\ tries' = MaxRetries
    /\ written' = [r \in Registers |-> IF r \in Target(c) THEN None ELSE written[r]]
    /\ UNCHANGED <<failures, input, output, obf, controller, sent, abandoned>>

\* Mutant: || for && between the bytes of a word.
DoneWithOne == TRUE

\* Whether the call is done with this byte.
Done == call.word => half = 1

\* One of the Try functions has done a byte.
Succeeds ==
    /\ pc' = IF Done THEN "idle" ELSE "wait1"
    /\ half' = IF Done THEN 0 ELSE 1
    /\ written' = [r \in Registers |->
                     IF Done /\ r \in Target(call) THEN Wanted(call, r) ELSE written[r]]
    /\ UNCHANGED <<call, tries, abandoned>>

\* Mutant: while (true).
TriesForEver == tries

Left == tries - 1

\* A step of one has failed, and it starts over, with the lower byte.
Fails ==
    /\ tries' = Left
    /\ pc' = IF tries' = 0 THEN "idle" ELSE "wait1"
    /\ half' = 0
    /\ abandoned' = (abandoned \/ (call.op = "read" /\ pc \in {"wait3", "waitRead", "get"}))
    /\ UNCHANGED <<call, sent, written>>

---------------------------------------------------------------------------
(* The steps of TryReadByte and TryWriteByte *)

Goes(to) == pc' = to /\ UNCHANGED <<call, half, tries, history>>

AfterWait ==
    CASE pc = "wait1" -> "command"
      [] pc = "wait2" -> "register"
      [] pc = "wait3" -> IF call.op = "read" THEN "waitRead" ELSE "put"

WaitWrite ==
    /\ pc \in Waits /\ input = None
    /\ Goes(AfterWait)
    /\ UNCHANGED <<failures, input, output, obf, controller>>

\* The status did not change in RWTimeout polls, or the port could not be read.
WaitWriteTimesOut ==
    /\ pc \in Waits
    /\ Fails
    /\ UNCHANGED <<failures, input, output, obf, controller>>

\* EC_Linux_WritePort; what is in the buffer is lost.
WritePort(kind, byte) ==
    /\ input' = [kind |-> kind, byte |-> byte]
    /\ UNCHANGED <<failures, output, obf, controller>>

WriteCommand ==
    /\ pc = "command"
    /\ Goes("wait2")
    /\ WritePort(call.op, 0)

WriteRegister ==
    /\ pc = "register"
    /\ Goes("wait3")
    /\ WritePort("data", Address)

WriteValue ==
    /\ pc = "put"
    /\ WritePort("data", Value)
    /\ sent' = <<call.register + half, Value>>
    /\ Succeeds

WritePortFails ==
    /\ pc \in {"command", "register", "put"}
    /\ Fails
    /\ UNCHANGED <<failures, input, output, obf, controller>>

\* Nothing clears the counter once it is beyond the limit.
Skips == failures > FailuresBeforeSkip

\* Mutant: EC_OBF not looked at.
AnsweredAlways == TRUE

Answered == obf

WaitRead ==
    /\ pc = "waitRead"
    /\ Skips \/ Answered
    /\ failures' = IF Skips THEN failures ELSE 0
    /\ Goes("get")
    /\ UNCHANGED <<input, output, obf, controller>>

WaitReadTimesOut ==
    /\ pc = "waitRead"
    /\ ~Skips
    /\ failures' = failures + 1
    /\ Fails
    /\ UNCHANGED <<input, output, obf, controller>>

\* The value of the data port is what there was last.
ReadValue ==
    /\ pc = "get"
    /\ obf' = FALSE
    /\ Succeeds
    /\ UNCHANGED <<failures, input, output, controller, sent>>

ReadPortFails ==
    /\ pc = "get"
    /\ Fails
    /\ UNCHANGED <<failures, input, output, obf, controller>>

---------------------------------------------------------------------------
(* The controller *)

\* A command begins a transaction, whatever was before it.
TakeCommand ==
    /\ ec # "answer" /\ input # None /\ input.kind # "data"
    /\ ec' = IF input.kind = "read" THEN "readRegister" ELSE "writeRegister"
    /\ input' = None
    /\ UNCHANGED <<program, output, obf, register, mem, history>>

TakeRegister ==
    /\ ec \in {"readRegister", "writeRegister"} /\ input # None /\ input.kind = "data"
    /\ register' = input.byte
    /\ ec' = IF ec = "readRegister" THEN "answer" ELSE "value"
    /\ input' = None
    /\ UNCHANGED <<program, output, obf, mem, history>>

TakeValue ==
    /\ ec = "value" /\ input # None /\ input.kind = "data"
    /\ mem' = [mem EXCEPT ![register] = input.byte]
    /\ ec' = "command"
    /\ input' = None
    /\ UNCHANGED <<program, output, obf, register, history>>

Answer ==
    /\ ec = "answer"
    /\ output' = mem[register] /\ obf' = TRUE
    /\ ec' = "command"
    /\ UNCHANGED <<program, input, register, mem, history>>

---------------------------------------------------------------------------
Try ==
    \/ WaitWrite \/ WaitWriteTimesOut
    \/ WriteCommand \/ WriteRegister \/ WriteValue \/ WritePortFails
    \/ WaitRead \/ WaitReadTimesOut \/ ReadValue \/ ReadPortFails

Controller == TakeCommand \/ TakeRegister \/ TakeValue \/ Answer

Next == Try \/ Controller \/ \E c \in Calls : Begin(c)

\* The program runs on; nothing is assumed of the controller.
Spec == Init /\ [][Next]_vars /\ WF_vars(Try)

---------------------------------------------------------------------------
\* What a read is about to return is the content of its register, however late
\* the controller is with its input and whatever tries failed before, as long as
\* no try has given up on an answer, which comes later and is taken for another.
ReadsAreRight ==
    pc = "get" /\ ~abandoned => obf /\ output = mem[Address]

\* A write that has returned success arrives, both bytes of it if it is a word:
\* when the controller has taken its input, the register has the value, and
\* keeps it through all reads, failed tries and writes to other registers.
WritesArrive ==
    input = None => \A r \in Registers : written[r] # None => mem[r] = written[r]

\* No register gets a value that was not sent for it: not the number of a
\* register, not a byte for its neighbour, not a byte left over from an earlier
\* try, however late the controller takes it.
NoStrayWrites ==
    [][\A r \in Registers : mem'[r] # mem[r] => sent = <<r, mem'[r]>>]_vars

\* A value that is in the input buffer and that the controller will put where it
\* was last told.
Pending == ec = "value" /\ input # None /\ input.kind = "data"

\* What the registers hold for the next access: a byte counts as written from the
\* moment its value is in the input buffer, however late the controller takes it,
\* since no later access can overtake it there.
Content == [r \in Registers |-> IF Pending /\ r = register THEN input.byte ELSE mem[r]]
Current == IF pc = "idle" THEN None ELSE call

\* The calls do to the registers what RegisterFile.tla promises: a write that
\* succeeds has left all its bytes, one that fails some of them, a read none, and
\* nothing is written between two calls.
RF == INSTANCE RegisterFile WITH NoCall <- None, mem <- Content, call <- Current

ImplementsRegisterFile == RF!Spec

\* Every call returns, also if the controller never answers.
CallsReturn == pc # "idle" ~> pc = "idle"
================================================================================
