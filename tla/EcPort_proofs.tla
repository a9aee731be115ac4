------------------------------ MODULE EcPort_proofs ------------------------------
(***************************************************************************)
(* Proofs about EcPort.tla, for any calls, registers and retries.          *)
(***************************************************************************)
EXTENDS EcPort, TLAPS

\* A call under way is one that fits and has tries left.
CallUnderWay == /\ pc # "idle" => call # None /\ Fits(call) /\ tries # 0
                /\ call # None /\ half = 1 => call.word

\* What the controller is about to take for the number of a register is one.
NamesRegister == ec \in {"readRegister", "writeRegister"} /\ input # None /\ input.kind = "data"
                    => input.byte \in Registers

\* What the controller waits for after the command of a call.
Expected == IF call.op = "read" THEN "readRegister" ELSE "writeRegister"

\* What a step of a try finds in the input buffer and in the controller.
InStep ==
    /\ pc \in {"command", "register", "waitRead", "get", "put"} => input = None
    /\ pc = "wait2" /\ input # None => input.kind = call.op
    /\ pc = "wait2" /\ input = None => ec = Expected
    /\ pc = "register" => ec = Expected
    /\ pc = "wait3" /\ input # None =>
          input.kind = "data" /\ input.byte = Address /\ ec = Expected
    /\ pc = "wait3" /\ input = None /\ call.op = "write" => ec = "value" /\ register = Address
    /\ pc = "put" => call.op = "write" /\ ec = "value" /\ register = Address
    /\ pc \in {"waitRead", "get"} => call.op = "read"

\* A value that is still in the input buffer goes where it was sent to.
Sent == Pending => sent = <<register, input.byte>>

\* A byte has arrived, or nothing but its taking is left to do.
Arrives(r, b) == IF Pending /\ register = r THEN input.byte = b ELSE mem[r] = b

\* What a call has written is in its register, or about to be.
Written == \A r \in Registers : written[r] # None => Arrives(r, written[r])

\* What a call is about to write has no value of an earlier one to keep.
Unwritten == pc # "idle" => \A r \in Registers : r \in Target(call) => written[r] = None

\* So is the lower byte of a word while its upper byte is written.
HalfWritten == pc # "idle" /\ call.op = "write" /\ half = 1 => Arrives(call.register, call.lsb)

\* The controller has, or is about to give, the answer a try waits for.
Answering == IF ec = "answer" THEN register = Address /\ ~obf
                              ELSE ec = "command" /\ obf /\ output = mem[Address]

\* No answer but the one waited for.
NoOtherAnswer ==
    ~abandoned =>
        /\ failures = 0
        /\ pc = "wait3" /\ call.op = "read" /\ input = None => Answering
        /\ pc = "waitRead" => Answering
        /\ pc = "get" => ec = "command" /\ obf /\ output = mem[Address]
        /\ pc \in {"idle", "wait1", "command", "wait2", "register", "put"} =>
              ~obf /\ ec # "answer" /\ (ec = "readRegister" => input = None \/ input.kind # "data")
        /\ pc = "wait3" /\ (call.op = "write" \/ input # None) => ~obf /\ ec # "answer"

\* The inductive invariant.
EcPortInv == /\ TypeOK /\ CallUnderWay /\ NamesRegister /\ InStep /\ Sent
             /\ Written /\ Unwritten /\ HalfWritten /\ NoOtherAnswer

---------------------------------------------------------------------------
\* The register a try is at: nothing wraps round.
LEMMA AddressIs ==
    ASSUME TypeOK, CallUnderWay, pc # "idle"
    PROVE  call \in Call /\ Address = call.register + half /\ Address \in Registers
<1>1. call \in Call /\ Fits(call) /\ half \in {0, 1}
  BY EcPortAssumption DEF TypeOK, ProgramTypes, CallUnderWay
<1>a. call.word => call.register < MaxRegister
  BY <1>1 DEF Fits
<1>b. half = 1 => call.word
  BY DEF CallUnderWay
<1>c. call.register \in 0..MaxRegister
  BY <1>1 DEF Call, Registers
<1>2. call.register + half \in 0..MaxRegister
  BY <1>1, <1>a, <1>b, <1>c, EcPortAssumption DEF Byte
<1>3. Address = call.register + half
  BY <1>2, EcPortAssumption DEF Address, Byte
<1> QED BY <1>1, <1>2, <1>3 DEF Registers

---------------------------------------------------------------------------
(* Types *)

\* The program starts with variables of their types.
LEMMA TypeInit == Init => TypeOK /\ CallUnderWay /\ NamesRegister
<1> SUFFICES ASSUME Init PROVE TypeOK /\ CallUnderWay /\ NamesRegister
  OBVIOUS
<1>1. mem \in [Registers -> Byte]
  BY EcPortAssumption DEF Init
<1>2. obf \in BOOLEAN /\ abandoned \in BOOLEAN
  BY Zenon DEF Init
<1>3. written \in [Registers -> Byte \cup {None}]
  BY DEF Init
<1>4. CallUnderWay /\ NamesRegister
  BY DEF Init, CallUnderWay, NamesRegister
<1>5. ProgramTypes
  BY EcPortAssumption DEF Init, ProgramTypes
<1>6. PortTypes
  BY <1>2 DEF Init, PortTypes, Byte
<1>7. 0 \in Registers
  BY EcPortAssumption DEF Registers, Byte
<1>8. ControllerTypes
  BY <1>1, <1>7 DEF Init, ControllerTypes
<1>9. HistoryTypes
  BY <1>2, <1>3, Zenon DEF Init, HistoryTypes
<1> QED BY <1>4, <1>5, <1>6, <1>8, <1>9 DEF TypeOK

\* A step keeps the types; that a register is named needs what the step finds.
LEMMA TypeStep ==
    ASSUME TypeOK, CallUnderWay, NamesRegister, InStep, [Next]_vars
    PROVE  TypeOK' /\ CallUnderWay' /\ NamesRegister'
<1> USE EcPortAssumption
<1>0. MaxRegister \in 0..255
  BY DEF Byte
<1>1. CASE WaitWrite
  <2>1. pc # "idle" /\ call \in Call /\ Address = call.register + half /\ Address \in Registers
    BY <1>1, AddressIs DEF WaitWrite, Waits
  <2>2. obf' \in BOOLEAN /\ abandoned' \in BOOLEAN
    BY <1>1, Zenon DEF TypeOK, PortTypes, HistoryTypes, WaitWrite, Goes, AfterWait,
        Waits, vars, program, controller, history
  <2>3. CallUnderWay'
    BY <1>1, <2>1, SMT DEF TypeOK, ProgramTypes, CallUnderWay, WaitWrite, Goes,
        AfterWait, Waits, vars, program, controller, history
  <2>4. ProgramTypes'
    BY <1>1, <2>1, SMT DEF TypeOK, ProgramTypes, CallUnderWay, WaitWrite, Goes,
        AfterWait, Waits, vars, program, controller, history
  <2>5. PortTypes'
    BY <1>1, <2>2, <2>1, SMT DEF TypeOK, PortTypes, Byte, Call, WaitWrite, Goes,
        AfterWait, Waits, vars, program, controller, history
  <2>6. ControllerTypes'
    BY <1>1, SMT DEF TypeOK, ControllerTypes, PortTypes, NamesRegister, WaitWrite, Goes,
        AfterWait, Waits, vars, program, controller, history
  <2>7. HistoryTypes'
    BY <1>1, <2>2, <2>1, SMT DEF TypeOK, HistoryTypes, WaitWrite, Goes, AfterWait,
        Waits, vars, program, controller, history
  <2>8. NamesRegister'
    BY <1>1, <2>1, SMT DEF NamesRegister, InStep, Call, WaitWrite, Goes, AfterWait,
        Waits, vars, program, controller, history
  <2> QED BY <2>3, <2>4, <2>5, <2>6, <2>7, <2>8 DEF TypeOK
<1>2. CASE WaitWriteTimesOut
  <2>1. pc # "idle" /\ call \in Call /\ Address = call.register + half /\ Address \in Registers
    BY <1>2, AddressIs DEF WaitWriteTimesOut, Waits
  <2>2. obf' \in BOOLEAN /\ abandoned' \in BOOLEAN
    BY <1>2, Zenon DEF TypeOK, PortTypes, HistoryTypes, WaitWriteTimesOut, Fails, Left,
        Waits, vars, program, controller, history
  <2>3. CallUnderWay'
    BY <1>2, <2>1, SMT DEF TypeOK, ProgramTypes, CallUnderWay, WaitWriteTimesOut, Fails,
        Left, Waits, vars, program, controller, history
  <2>4. ProgramTypes'
    BY <1>2, <2>1, SMT DEF TypeOK, ProgramTypes, CallUnderWay, WaitWriteTimesOut, Fails,
        Left, Waits, vars, program, controller, history
  <2>5. PortTypes'
    BY <1>2, <2>2, <2>1, SMT DEF TypeOK, PortTypes, Byte, Call, WaitWriteTimesOut,
        Fails, Left, Waits, vars, program, controller, history
  <2>6. ControllerTypes'
    BY <1>2, SMT DEF TypeOK, ControllerTypes, PortTypes, NamesRegister,
        WaitWriteTimesOut, Fails, Left, Waits, vars, program, controller, history
  <2>7. HistoryTypes'
    BY <1>2, <2>2, <2>1, SMT DEF TypeOK, HistoryTypes, WaitWriteTimesOut, Fails, Left,
        Waits, vars, program, controller, history
  <2>8. NamesRegister'
    BY <1>2, <2>1, SMT DEF NamesRegister, InStep, Call, WaitWriteTimesOut, Fails, Left,
        Waits, vars, program, controller, history
  <2> QED BY <2>3, <2>4, <2>5, <2>6, <2>7, <2>8 DEF TypeOK
<1>3. CASE WriteCommand
  <2>1. pc # "idle" /\ call \in Call /\ Address = call.register + half /\ Address \in Registers
    BY <1>3, AddressIs DEF WriteCommand, Waits
  <2>2. obf' \in BOOLEAN /\ abandoned' \in BOOLEAN
    BY <1>3, Zenon DEF TypeOK, PortTypes, HistoryTypes, WriteCommand, Goes, WritePort,
        vars, program, controller, history
  <2>3. CallUnderWay'
    BY <1>3, <2>1, SMT DEF TypeOK, ProgramTypes, CallUnderWay, WriteCommand, Goes,
        WritePort, vars, program, controller, history
  <2>4. ProgramTypes'
    BY <1>3, <2>1, SMT DEF TypeOK, ProgramTypes, CallUnderWay, Waits, WriteCommand,
        Goes, WritePort, vars, program, controller, history
  <2>5. PortTypes'
    BY <1>3, <2>2, <2>1, SMT DEF TypeOK, PortTypes, Byte, Call, WriteCommand, Goes,
        WritePort, vars, program, controller, history
  <2>6. ControllerTypes'
    BY <1>3, SMT DEF TypeOK, ControllerTypes, PortTypes, NamesRegister, WriteCommand,
        Goes, WritePort, vars, program, controller, history
  <2>7. HistoryTypes'
    BY <1>3, <2>2, <2>1, SMT DEF TypeOK, HistoryTypes, WriteCommand, Goes, WritePort,
        vars, program, controller, history
  <2>8. NamesRegister'
    BY <1>3, <2>1, SMT DEF NamesRegister, InStep, Call, WriteCommand, Goes, WritePort,
        vars, program, controller, history
  <2> QED BY <2>3, <2>4, <2>5, <2>6, <2>7, <2>8 DEF TypeOK
<1>4. CASE WriteRegister
  <2>1. pc # "idle" /\ call \in Call /\ Address = call.register + half /\ Address \in Registers
    BY <1>4, AddressIs DEF WriteRegister, Waits
  <2>2. Address \in Byte
    BY ONLY <1>0, <2>1 DEF Registers, Byte
  <2>3. obf' \in BOOLEAN /\ abandoned' \in BOOLEAN
    BY <1>4, Zenon DEF TypeOK, PortTypes, HistoryTypes, WriteRegister, Goes, WritePort,
        vars, program, controller, history
  <2>4. CallUnderWay'
    BY <1>4, <2>1, SMT DEF TypeOK, ProgramTypes, CallUnderWay, WriteRegister, Goes,
        WritePort, vars, program, controller, history
  <2>5. ProgramTypes'
    BY <1>4, <2>1, SMT DEF TypeOK, ProgramTypes, CallUnderWay, Waits, WriteRegister,
        Goes, WritePort, vars, program, controller, history
  <2>6. PortTypes'
    BY <1>4, <2>3, <2>1, <2>2, SMT DEF TypeOK, PortTypes, WriteRegister, Goes,
        WritePort, vars, program, controller, history
  <2>7. ControllerTypes'
    BY <1>4, SMT DEF TypeOK, ControllerTypes, PortTypes, NamesRegister, WriteRegister,
        Goes, WritePort, vars, program, controller, history
  <2>8. HistoryTypes'
    BY <1>4, <2>3, <2>1, <2>2, SMT DEF TypeOK, HistoryTypes, WriteRegister, Goes,
        WritePort, vars, program, controller, history
  <2>9. NamesRegister'
    BY <1>4, <2>1, SMT DEF NamesRegister, InStep, Call, WriteRegister, Goes, WritePort,
        vars, program, controller, history
  <2> QED BY <2>4, <2>5, <2>6, <2>7, <2>8, <2>9 DEF TypeOK
<1>5. CASE WriteValue
  <2>1. pc # "idle" /\ call \in Call /\ Address = call.register + half /\ Address \in Registers
    BY <1>5, AddressIs DEF WriteValue, Waits
  <2>2. Value \in Byte /\ \A r \in Registers : Wanted(call, r) \in Byte
    BY <2>1 DEF Call, Value, Wanted
  <2>3. Address \in 0..(MaxRegister + 1)
    BY ONLY <1>0, <2>1 DEF Registers
  <2>4. obf' \in BOOLEAN /\ abandoned' \in BOOLEAN
    BY <1>5, Zenon DEF TypeOK, PortTypes, HistoryTypes, WriteValue, WritePort, Succeeds,
        Done, Wanted, Target, Value, vars, program, controller, history
  <2>5. CallUnderWay'
    BY <1>5, <2>1, SMT DEF TypeOK, ProgramTypes, CallUnderWay, WriteValue, WritePort,
        Succeeds, Done, Wanted, Target, Value, vars, program, controller, history
  <2>6. ProgramTypes'
    BY <1>5, <2>1, SMT DEF TypeOK, ProgramTypes, CallUnderWay, Waits, WriteValue,
        WritePort, Succeeds, Done, Wanted, Target, Value, vars, program, controller,
        history
  <2>7. PortTypes'
    BY <1>5, <2>4, <2>1, <2>2, <2>3, SMT DEF TypeOK, PortTypes, Byte, Call, WriteValue,
        WritePort, Succeeds, Done, Wanted, Target, Value, vars, program, controller,
        history
  <2>8. ControllerTypes'
    BY <1>5, SMT DEF TypeOK, ControllerTypes, PortTypes, NamesRegister, WriteValue,
        WritePort, Succeeds, Done, Wanted, Target, Value, vars, program, controller,
        history
  <2>9. HistoryTypes'
    BY <1>5, <2>4, <2>1, <2>2, <2>3, SMT DEF TypeOK, HistoryTypes, WriteValue,
        WritePort, Succeeds, Done, Target, vars, program, controller, history
  <2>10. NamesRegister'
    BY <1>5, <2>1, SMT DEF NamesRegister, InStep, Call, WriteValue, WritePort, Succeeds,
        Done, Wanted, Target, Value, vars, program, controller, history
  <2> QED BY <2>5, <2>6, <2>7, <2>8, <2>9, <2>10 DEF TypeOK
<1>6. CASE WritePortFails
  <2>1. pc # "idle" /\ call \in Call /\ Address = call.register + half /\ Address \in Registers
    BY <1>6, AddressIs DEF WritePortFails, Waits
  <2>2. obf' \in BOOLEAN /\ abandoned' \in BOOLEAN
    BY <1>6, Zenon DEF TypeOK, PortTypes, HistoryTypes, WritePortFails, Fails, Left,
        vars, program, controller, history
  <2>3. CallUnderWay'
    BY <1>6, <2>1, SMT DEF TypeOK, ProgramTypes, CallUnderWay, WritePortFails, Fails,
        Left, vars, program, controller, history
  <2>4. ProgramTypes'
    BY <1>6, <2>1, SMT DEF TypeOK, ProgramTypes, CallUnderWay, Waits, WritePortFails,
        Fails, Left, vars, program, controller, history
  <2>5. PortTypes'
    BY <1>6, <2>2, <2>1, SMT DEF TypeOK, PortTypes, Byte, Call, WritePortFails, Fails,
        Left, vars, program, controller, history
  <2>6. ControllerTypes'
    BY <1>6, SMT DEF TypeOK, ControllerTypes, PortTypes, NamesRegister, WritePortFails,
        Fails, Left, vars, program, controller, history
  <2>7. HistoryTypes'
    BY <1>6, <2>2, <2>1, SMT DEF TypeOK, HistoryTypes, WritePortFails, Fails, Left,
        vars, program, controller, history
  <2>8. NamesRegister'
    BY <1>6, <2>1, SMT DEF NamesRegister, InStep, Call, WritePortFails, Fails, Left,
        vars, program, controller, history
  <2> QED BY <2>3, <2>4, <2>5, <2>6, <2>7, <2>8 DEF TypeOK
<1>7. CASE WaitRead
  <2>1. pc # "idle" /\ call \in Call /\ Address = call.register + half /\ Address \in Registers
    BY <1>7, AddressIs DEF WaitRead, Waits
  <2>2. obf' \in BOOLEAN /\ abandoned' \in BOOLEAN
    BY <1>7, Zenon DEF TypeOK, PortTypes, HistoryTypes, WaitRead, Goes, Skips, Answered,
        vars, program, controller, history
  <2>3. CallUnderWay'
    BY <1>7, <2>1, SMT DEF TypeOK, ProgramTypes, CallUnderWay, WaitRead, Goes, Skips,
        Answered, vars, program, controller, history
  <2>4. ProgramTypes'
    BY <1>7, <2>1, SMT DEF TypeOK, ProgramTypes, CallUnderWay, Waits, WaitRead, Goes,
        Skips, Answered, vars, program, controller, history
  <2>5. PortTypes'
    BY <1>7, <2>2, <2>1, SMT DEF TypeOK, PortTypes, Byte, Call, WaitRead, Goes, Skips,
        Answered, vars, program, controller, history
  <2>6. ControllerTypes'
    BY <1>7, SMT DEF TypeOK, ControllerTypes, PortTypes, NamesRegister, WaitRead, Goes,
        Skips, Answered, vars, program, controller, history
  <2>7. HistoryTypes'
    BY <1>7, <2>2, <2>1, SMT DEF TypeOK, HistoryTypes, WaitRead, Goes, Skips, Answered,
        vars, program, controller, history
  <2>8. NamesRegister'
    BY <1>7, <2>1, SMT DEF NamesRegister, InStep, Call, WaitRead, Goes, Skips, Answered,
        vars, program, controller, history
  <2> QED BY <2>3, <2>4, <2>5, <2>6, <2>7, <2>8 DEF TypeOK
<1>8. CASE WaitReadTimesOut
  <2>1. pc # "idle" /\ call \in Call /\ Address = call.register + half /\ Address \in Registers
    BY <1>8, AddressIs DEF WaitReadTimesOut, Waits
  <2>2. obf' \in BOOLEAN /\ abandoned' \in BOOLEAN
    BY <1>8, Zenon DEF TypeOK, PortTypes, HistoryTypes, WaitReadTimesOut, Fails, Left,
        Skips, vars, program, controller, history
  <2>3. CallUnderWay'
    BY <1>8, <2>1, SMT DEF TypeOK, ProgramTypes, CallUnderWay, WaitReadTimesOut, Fails,
        Left, Skips, vars, program, controller, history
  <2>4. ProgramTypes'
    BY <1>8, <2>1, SMT DEF TypeOK, ProgramTypes, CallUnderWay, Waits, WaitReadTimesOut,
        Fails, Left, Skips, vars, program, controller, history
  <2>5. PortTypes'
    BY <1>8, <2>2, <2>1, SMT DEF TypeOK, PortTypes, Byte, Call, WaitReadTimesOut, Fails,
        Left, Skips, vars, program, controller, history
  <2>6. ControllerTypes'
    BY <1>8, SMT DEF TypeOK, ControllerTypes, PortTypes, NamesRegister,
        WaitReadTimesOut, Fails, Left, Skips, vars, program, controller, history
  <2>7. HistoryTypes'
    BY <1>8, <2>2, <2>1, SMT DEF TypeOK, HistoryTypes, WaitReadTimesOut, Fails, Left,
        Skips, vars, program, controller, history
  <2>8. NamesRegister'
    BY <1>8, <2>1, SMT DEF NamesRegister, InStep, Call, WaitReadTimesOut, Fails, Left,
        Skips, vars, program, controller, history
  <2> QED BY <2>3, <2>4, <2>5, <2>6, <2>7, <2>8 DEF TypeOK
<1>9. CASE ReadValue
  <2>1. pc # "idle" /\ call \in Call /\ Address = call.register + half /\ Address \in Registers
    BY <1>9, AddressIs DEF ReadValue, Waits
  <2>2. Value \in Byte /\ \A r \in Registers : Wanted(call, r) \in Byte
    BY <2>1 DEF Call, Value, Wanted
  <2>3. Address \in 0..(MaxRegister + 1)
    BY ONLY <1>0, <2>1 DEF Registers
  <2>4. obf' \in BOOLEAN /\ abandoned' \in BOOLEAN
    BY <1>9, Zenon DEF TypeOK, PortTypes, HistoryTypes, ReadValue, Succeeds, Done,
        Target, vars, program, controller, history
  <2>5. CallUnderWay'
    BY <1>9, <2>1, SMT DEF TypeOK, ProgramTypes, CallUnderWay, ReadValue, Succeeds,
        Done, Target, vars, program, controller, history
  <2>6. ProgramTypes'
    BY <1>9, <2>1, SMT DEF TypeOK, ProgramTypes, CallUnderWay, Waits, ReadValue,
        Succeeds, Done, Target, vars, program, controller, history
  <2>7. PortTypes'
    BY <1>9, <2>4, <2>1, <2>2, <2>3, SMT DEF TypeOK, PortTypes, Byte, Call, ReadValue,
        Succeeds, Done, Target, vars, program, controller, history
  <2>8. ControllerTypes'
    BY <1>9, SMT DEF TypeOK, ControllerTypes, PortTypes, NamesRegister, ReadValue,
        Succeeds, Done, Target, vars, program, controller, history
  <2>9. HistoryTypes'
    BY <1>9, <2>4, <2>1, <2>2, <2>3, SMT DEF TypeOK, HistoryTypes, ReadValue, Succeeds,
        Done, Target, vars, program, controller, history
  <2>10. NamesRegister'
    BY <1>9, <2>1, SMT DEF NamesRegister, InStep, Call, ReadValue, Succeeds, Done,
        Target, vars, program, controller, history
  <2> QED BY <2>5, <2>6, <2>7, <2>8, <2>9, <2>10 DEF TypeOK
<1>10. CASE ReadPortFails
  <2>1. pc # "idle" /\ call \in Call /\ Address = call.register + half /\ Address \in Registers
    BY <1>10, AddressIs DEF ReadPortFails, Waits
  <2>2. obf' \in BOOLEAN /\ abandoned' \in BOOLEAN
    BY <1>10, Zenon DEF TypeOK, PortTypes, HistoryTypes, ReadPortFails, Fails, Left,
        vars, program, controller, history
  <2>3. CallUnderWay'
    BY <1>10, <2>1, SMT DEF TypeOK, ProgramTypes, CallUnderWay, ReadPortFails, Fails,
        Left, vars, program, controller, history
  <2>4. ProgramTypes'
    BY <1>10, <2>1, SMT DEF TypeOK, ProgramTypes, CallUnderWay, Waits, ReadPortFails,
        Fails, Left, vars, program, controller, history
  <2>5. PortTypes'
    BY <1>10, <2>2, <2>1, SMT DEF TypeOK, PortTypes, Byte, Call, ReadPortFails, Fails,
        Left, vars, program, controller, history
  <2>6. ControllerTypes'
    BY <1>10, SMT DEF TypeOK, ControllerTypes, PortTypes, NamesRegister, ReadPortFails,
        Fails, Left, vars, program, controller, history
  <2>7. HistoryTypes'
    BY <1>10, <2>2, <2>1, SMT DEF TypeOK, HistoryTypes, ReadPortFails, Fails, Left,
        vars, program, controller, history
  <2>8. NamesRegister'
    BY <1>10, <2>1, SMT DEF NamesRegister, InStep, Call, ReadPortFails, Fails, Left,
        vars, program, controller, history
  <2> QED BY <2>3, <2>4, <2>5, <2>6, <2>7, <2>8 DEF TypeOK
<1>11. CASE TakeCommand
  <2>1. obf' \in BOOLEAN /\ abandoned' \in BOOLEAN
    BY <1>11, Zenon DEF TypeOK, PortTypes, HistoryTypes, TakeCommand, vars, program,
        controller, history
  <2>2. CallUnderWay'
    BY <1>11, SMT DEF TypeOK, ProgramTypes, CallUnderWay, TakeCommand, vars, program,
        controller, history
  <2>3. ProgramTypes'
    BY <1>11, SMT DEF TypeOK, ProgramTypes, CallUnderWay, Waits, TakeCommand, vars,
        program, controller, history
  <2>4. PortTypes'
    BY <1>11, <2>1, SMT DEF TypeOK, PortTypes, Byte, Call, TakeCommand, vars, program,
        controller, history
  <2>5. ControllerTypes'
    BY <1>11, SMT DEF TypeOK, ControllerTypes, PortTypes, NamesRegister, TakeCommand,
        vars, program, controller, history
  <2>6. HistoryTypes'
    BY <1>11, <2>1, SMT DEF TypeOK, HistoryTypes, TakeCommand, vars, program,
        controller, history
  <2>7. NamesRegister'
    BY <1>11, SMT DEF NamesRegister, InStep, Call, TakeCommand, vars, program,
        controller, history
  <2> QED BY <2>2, <2>3, <2>4, <2>5, <2>6, <2>7 DEF TypeOK
<1>12. CASE TakeRegister
  <2>1. obf' \in BOOLEAN /\ abandoned' \in BOOLEAN
    BY <1>12, Zenon DEF TypeOK, PortTypes, HistoryTypes, TakeRegister, vars, program,
        controller, history
  <2>2. CallUnderWay'
    BY <1>12, SMT DEF TypeOK, ProgramTypes, CallUnderWay, TakeRegister, vars, program,
        controller, history
  <2>3. ProgramTypes'
    BY <1>12, SMT DEF TypeOK, ProgramTypes, CallUnderWay, Waits, TakeRegister, vars,
        program, controller, history
  <2>4. PortTypes'
    BY <1>12, <2>1, SMT DEF TypeOK, PortTypes, Byte, Call, TakeRegister, vars, program,
        controller, history
  <2>5. ControllerTypes'
    BY <1>12, SMT DEF TypeOK, ControllerTypes, PortTypes, NamesRegister, TakeRegister,
        vars, program, controller, history
  <2>6. HistoryTypes'
    BY <1>12, <2>1, SMT DEF TypeOK, HistoryTypes, TakeRegister, vars, program,
        controller, history
  <2>7. NamesRegister'
    BY <1>12, SMT DEF NamesRegister, InStep, Call, TakeRegister, vars, program,
        controller, history
  <2> QED BY <2>2, <2>3, <2>4, <2>5, <2>6, <2>7 DEF TypeOK
<1>13. CASE TakeValue
  <2>1. obf' \in BOOLEAN /\ abandoned' \in BOOLEAN
    BY <1>13, Zenon DEF TypeOK, PortTypes, HistoryTypes, TakeValue, vars, program,
        controller, history
  <2>2. CallUnderWay'
    BY <1>13, SMT DEF TypeOK, ProgramTypes, CallUnderWay, TakeValue, vars, program,
        controller, history
  <2>3. ProgramTypes'
    BY <1>13, SMT DEF TypeOK, ProgramTypes, CallUnderWay, Waits, TakeValue, vars,
        program, controller, history
  <2>4. PortTypes'
    BY <1>13, <2>1, SMT DEF TypeOK, PortTypes, Byte, Call, TakeValue, vars, program,
        controller, history
  <2>5. ControllerTypes'
    BY <1>13, SMT DEF TypeOK, ControllerTypes, PortTypes, NamesRegister, TakeValue,
        vars, program, controller, history
  <2>6. HistoryTypes'
    BY <1>13, <2>1, SMT DEF TypeOK, HistoryTypes, TakeValue, vars, program, controller,
        history
  <2>7. NamesRegister'
    BY <1>13, SMT DEF NamesRegister, InStep, Call, TakeValue, vars, program, controller,
        history
  <2> QED BY <2>2, <2>3, <2>4, <2>5, <2>6, <2>7 DEF TypeOK
<1>14. CASE Answer
  <2>1. mem[register] \in Byte
    BY DEF TypeOK, ControllerTypes
  <2>2. obf' \in BOOLEAN /\ abandoned' \in BOOLEAN
    BY <1>14, Zenon DEF TypeOK, PortTypes, HistoryTypes, Answer, vars, program,
        controller, history
  <2>3. CallUnderWay'
    BY <1>14, SMT DEF TypeOK, ProgramTypes, CallUnderWay, Answer, vars, program,
        controller, history
  <2>4. ProgramTypes'
    BY <1>14, SMT DEF TypeOK, ProgramTypes, CallUnderWay, Waits, Answer, vars, program,
        controller, history
  <2>5. PortTypes'
    BY <1>14, <2>2, <2>1, SMT DEF TypeOK, PortTypes, Answer, vars, program, controller,
        history
  <2>6. ControllerTypes'
    BY <1>14, SMT DEF TypeOK, ControllerTypes, PortTypes, NamesRegister, Answer, vars,
        program, controller, history
  <2>7. HistoryTypes'
    BY <1>14, <2>2, <2>1, SMT DEF TypeOK, HistoryTypes, Answer, vars, program,
        controller, history
  <2>8. NamesRegister'
    BY <1>14, SMT DEF NamesRegister, InStep, Call, Answer, vars, program, controller,
        history
  <2> QED BY <2>3, <2>4, <2>5, <2>6, <2>7, <2>8 DEF TypeOK
<1>15. CASE \E c \in Calls : Begin(c)
  <2>1. obf' \in BOOLEAN /\ abandoned' \in BOOLEAN
    BY <1>15, Zenon DEF TypeOK, PortTypes, HistoryTypes, Begin, Target, vars, program,
        controller, history
  <2>2. CallUnderWay'
    BY <1>15, SMT DEF TypeOK, ProgramTypes, CallUnderWay, Begin, Target, vars, program,
        controller, history
  <2>3. ProgramTypes'
    BY <1>15, SMT DEF TypeOK, ProgramTypes, CallUnderWay, Waits, Begin, Target, vars,
        program, controller, history
  <2>4. PortTypes'
    BY <1>15, <2>1, SMT DEF TypeOK, PortTypes, Byte, Call, Begin, Target, vars, program,
        controller, history
  <2>5. ControllerTypes'
    BY <1>15, SMT DEF TypeOK, ControllerTypes, PortTypes, NamesRegister, Begin, Target,
        vars, program, controller, history
  <2>6. HistoryTypes'
    BY <1>15, <2>1, SMT DEF TypeOK, HistoryTypes, Begin, Target, vars, program,
        controller, history
  <2>7. NamesRegister'
    BY <1>15, SMT DEF NamesRegister, InStep, Call, Begin, Target, vars, program,
        controller, history
  <2> QED BY <2>2, <2>3, <2>4, <2>5, <2>6, <2>7 DEF TypeOK
<1>16. CASE UNCHANGED vars
  <2>1. obf' \in BOOLEAN /\ abandoned' \in BOOLEAN
    BY <1>16, Zenon DEF TypeOK, PortTypes, HistoryTypes, vars, program, controller,
        history
  <2>2. CallUnderWay'
    BY <1>16, SMT DEF TypeOK, ProgramTypes, CallUnderWay, vars, program, controller,
        history
  <2>3. ProgramTypes'
    BY <1>16, SMT DEF TypeOK, ProgramTypes, CallUnderWay, Waits, vars, program,
        controller, history
  <2>4. PortTypes'
    BY <1>16, <2>1, SMT DEF TypeOK, PortTypes, Byte, Call, vars, program, controller,
        history
  <2>5. ControllerTypes'
    BY <1>16, SMT DEF TypeOK, ControllerTypes, PortTypes, NamesRegister, vars, program,
        controller, history
  <2>6. HistoryTypes'
    BY <1>16, <2>1, SMT DEF TypeOK, HistoryTypes, vars, program, controller, history
  <2>7. NamesRegister'
    BY <1>16, SMT DEF NamesRegister, InStep, Call, vars, program, controller, history
  <2> QED BY <2>2, <2>3, <2>4, <2>5, <2>6, <2>7 DEF TypeOK
<1> QED BY <1>1, <1>2, <1>3, <1>4, <1>5, <1>6, <1>7, <1>8, <1>9, <1>10, <1>11, <1>12,
    <1>13, <1>14, <1>15, <1>16 DEF Next, Try, Controller

\* A port that has been written to is not empty.
LEMMA Filled ==
    ASSUME NEW kind \in {"read", "write", "data"}, NEW byte,
           byte = 0 \/ byte \in Registers \/ byte \in Byte
    PROVE  [kind |-> kind, byte |-> byte] # None
<1>1. byte \in Byte
  <2>1. MaxRegister \in 0..255
    BY EcPortAssumption DEF Byte
  <2> QED BY ONLY <2>1, byte = 0 \/ byte \in Registers \/ byte \in Byte DEF Registers,
      Byte
<1> QED BY <1>1, EcPortAssumption


---------------------------------------------------------------------------
\* A step of a try that fails, whichever it is.
GivesUp ==
    /\ pc # "idle" /\ Fails
    /\ failures' = failures \/ pc = "waitRead"
    /\ UNCHANGED <<input, output, obf, controller>>

\* The four steps that fail do the same to what the invariant is about.
LEMMA TryGivesUp ==
    WaitWriteTimesOut \/ WritePortFails \/ WaitReadTimesOut \/ ReadPortFails => GivesUp
BY DEF WaitWriteTimesOut, WritePortFails, WaitReadTimesOut, ReadPortFails, GivesUp,
    Waits

---------------------------------------------------------------------------
(* What a step finds *)

\* A step leaves in the buffer and the controller what the next one finds.
LEMMA InStepStep ==
    ASSUME EcPortInv, [Next]_vars
    PROVE  InStep'
<1> USE EcPortAssumption DEF EcPortInv
<1>1. CASE WaitWrite
  <2>1. pc # "idle" /\ call \in Call /\ Address = call.register + half /\ Address \in Registers
    BY <1>1, AddressIs DEF WaitWrite, Waits
  <2>2. Address' = Address
    BY <1>1, Zenon DEF WaitWrite, Goes, Address, vars, program, controller, history
  <2> QED BY <1>1, <2>1, <2>2, SMT DEF InStep, Expected, Call, WaitWrite, Goes,
      AfterWait, Waits, vars, program, controller, history
<1>2. CASE WriteCommand
  <2>1. pc # "idle" /\ call \in Call /\ Address = call.register + half /\ Address \in Registers
    BY <1>2, AddressIs DEF WriteCommand, Waits
  <2>2. Address' = Address
    BY <1>2, Zenon DEF WriteCommand, Goes, Address, vars, program, controller, history
  <2>3. input' # None
    BY <1>2, <2>1, Filled DEF WriteCommand, WritePort, Call
  <2> QED BY <1>2, <2>1, <2>2, <2>3, SMT DEF InStep, Expected, Call, WriteCommand, Goes,
      WritePort, vars, program, controller, history
<1>3. CASE WriteRegister
  <2>1. pc # "idle" /\ call \in Call /\ Address = call.register + half /\ Address \in Registers
    BY <1>3, AddressIs DEF WriteRegister, Waits
  <2>2. Address' = Address
    BY <1>3, Zenon DEF WriteRegister, Goes, Address, vars, program, controller, history
  <2>3. input' # None
    BY <1>3, <2>1, Filled DEF WriteRegister, WritePort, Call
  <2> QED BY <1>3, <2>1, <2>2, <2>3, SMT DEF InStep, Expected, Call, WriteRegister,
      Goes, WritePort, vars, program, controller, history
<1>4. CASE WriteValue
  BY <1>4, SMT DEF InStep, Expected, Call, WriteValue, WritePort, Succeeds, Done,
      Wanted, Target, Value, vars, program, controller, history
<1>5. CASE WaitRead
  BY <1>5, SMT DEF InStep, Expected, Call, WaitRead, Goes, Skips, Answered, vars,
      program, controller, history
<1>6. CASE ReadValue
  BY <1>6, SMT DEF InStep, Expected, Call, ReadValue, Succeeds, Done, Target, vars,
      program, controller, history
<1>7. CASE GivesUp
  BY <1>7, SMT DEF InStep, Expected, Call, GivesUp, Fails, Left, vars, program,
      controller, history
<1>8. CASE TakeCommand
  BY <1>8, SMT DEF InStep, Expected, Call, TakeCommand, vars, program, controller,
      history
<1>9. CASE TakeRegister
  <2>1. Address' = Address
    BY <1>9, Zenon DEF TakeRegister, Address, vars, program, controller, history
  <2>2. pc # "idle" => call \in Call
    BY AddressIs
  <2> QED BY <1>9, <2>1, <2>2, SMT DEF InStep, Expected, Call, TakeRegister, vars,
      program, controller, history
<1>10. CASE TakeValue
  <2>1. Address' = Address
    BY <1>10, Zenon DEF TakeValue, Address, vars, program, controller, history
  <2>2. pc # "idle" => call \in Call
    BY AddressIs
  <2> QED BY <1>10, <2>1, <2>2, SMT DEF InStep, Expected, Call, TakeValue, vars,
      program, controller, history
<1>11. CASE Answer
  BY <1>11, SMT DEF InStep, Expected, Call, Answer, vars, program, controller, history
<1>12. CASE \E c \in Calls : Begin(c)
  BY <1>12, SMT DEF InStep, Expected, Call, Begin, Target, vars, program, controller,
      history
<1>13. CASE UNCHANGED vars
  <2>1. Address' = Address
    BY <1>13, Zenon DEF Address, vars, program, controller, history
  <2> QED BY <1>13, <2>1, SMT DEF InStep, Expected, Call, vars, program, controller,
      history
<1> QED BY <1>1, <1>2, <1>3, <1>4, <1>5, <1>6, <1>7, <1>8, <1>9, <1>10, <1>11, <1>12,
    <1>13, TryGivesUp DEF Next, Try, Controller

---------------------------------------------------------------------------
(* A value not taken yet *)

\* A value in the input buffer belongs to the register the controller has.
LEMMA SentStep ==
    ASSUME EcPortInv, [Next]_vars
    PROVE  Sent'
<1> USE EcPortAssumption DEF EcPortInv
<1>1. CASE WaitWrite
  BY <1>1, SMT DEF Sent, Pending, InStep, Expected, Call, WaitWrite, Goes, AfterWait,
      Waits, vars, program, controller, history
<1>2. CASE WriteCommand
  <2>1. pc # "idle" /\ call \in Call /\ Address = call.register + half /\ Address \in Registers
    BY <1>2, AddressIs DEF WriteCommand, Waits
  <2>2. Address' = Address
    BY <1>2, Zenon DEF WriteCommand, Goes, Address, vars, program, controller, history
  <2>3. input' # None
    BY <1>2, <2>1, Filled DEF WriteCommand, WritePort, Call
  <2> QED BY <1>2, <2>1, <2>2, <2>3, SMT DEF Sent, Pending, InStep, Expected, Call,
      WriteCommand, Goes, WritePort, vars, program, controller, history
<1>3. CASE WriteRegister
  BY <1>3, SMT DEF Sent, Pending, InStep, Expected, Call, WriteRegister, Goes,
      WritePort, vars, program, controller, history
<1>4. CASE WriteValue
  <2>1. pc # "idle" /\ call \in Call /\ Address = call.register + half /\ Address \in Registers
    BY <1>4, AddressIs DEF WriteValue, Waits
  <2> QED BY <1>4, <2>1, SMT DEF Sent, Pending, InStep, Expected, Call, WriteValue,
      WritePort, Succeeds, Value, vars, program, controller, history
<1>5. CASE WaitRead
  BY <1>5, SMT DEF Sent, Pending, InStep, Expected, Call, WaitRead, Goes, Skips,
      Answered, vars, program, controller, history
<1>6. CASE ReadValue
  BY <1>6, SMT DEF Sent, Pending, InStep, Expected, Call, ReadValue, Succeeds, vars,
      program, controller, history
<1>7. CASE GivesUp
  BY <1>7, SMT DEF Sent, Pending, InStep, Expected, Call, GivesUp, Fails, Left, vars,
      program, controller, history
<1>8. CASE TakeCommand
  BY <1>8, SMT DEF Sent, Pending, InStep, Expected, Call, TakeCommand, vars, program,
      controller, history
<1>9. CASE TakeRegister
  BY <1>9, SMT DEF Sent, Pending, InStep, Expected, Call, TakeRegister, vars, program,
      controller, history
<1>10. CASE TakeValue
  BY <1>10, SMT DEF Sent, Pending, InStep, Expected, Call, TakeValue, vars, program,
      controller, history
<1>11. CASE Answer
  BY <1>11, SMT DEF Sent, Pending, InStep, Expected, Call, Answer, vars, program,
      controller, history
<1>12. CASE \E c \in Calls : Begin(c)
  BY <1>12, SMT DEF Sent, Pending, InStep, Expected, Call, Begin, vars, program,
      controller, history
<1>13. CASE UNCHANGED vars
  BY <1>13, SMT DEF Sent, Pending, InStep, Expected, Call, vars, program, controller,
      history
<1> QED BY <1>1, <1>2, <1>3, <1>4, <1>5, <1>6, <1>7, <1>8, <1>9, <1>10, <1>11, <1>12,
    <1>13, TryGivesUp DEF Next, Try, Controller

---------------------------------------------------------------------------
(* What a call is about to write *)

\* A call keeps no earlier value for what it is about to write.
LEMMA UnwrittenStep ==
    ASSUME EcPortInv, [Next]_vars
    PROVE  Unwritten'
<1> USE EcPortAssumption DEF EcPortInv
<1>1. CASE WaitWrite
  BY <1>1, SMT DEF Unwritten, Target, WaitWrite, Goes, AfterWait, Waits, vars, program,
      controller, history
<1>2. CASE WriteCommand
  BY <1>2, SMT DEF Unwritten, Target, WriteCommand, Goes, WritePort, vars, program,
      controller, history
<1>3. CASE WriteRegister
  BY <1>3, SMT DEF Unwritten, Target, WriteRegister, Goes, WritePort, vars, program,
      controller, history
<1>4. CASE WriteValue
  BY <1>4, SMT DEF Unwritten, Target, WriteValue, WritePort, Succeeds, Done, vars,
      program, controller, history
<1>5. CASE WaitRead
  BY <1>5, SMT DEF Unwritten, Target, WaitRead, Goes, Skips, Answered, vars, program,
      controller, history
<1>6. CASE ReadValue
  BY <1>6, SMT DEF Unwritten, Target, ReadValue, Succeeds, Done, vars, program,
      controller, history
<1>7. CASE GivesUp
  BY <1>7, SMT DEF Unwritten, Target, GivesUp, Fails, Left, vars, program, controller,
      history
<1>8. CASE TakeCommand
  BY <1>8, SMT DEF Unwritten, Target, TakeCommand, vars, program, controller, history
<1>9. CASE TakeRegister
  BY <1>9, SMT DEF Unwritten, Target, TakeRegister, vars, program, controller, history
<1>10. CASE TakeValue
  BY <1>10, SMT DEF Unwritten, Target, TakeValue, vars, program, controller, history
<1>11. CASE Answer
  BY <1>11, SMT DEF Unwritten, Target, Answer, vars, program, controller, history
<1>12. CASE \E c \in Calls : Begin(c)
  BY <1>12, SMT DEF Unwritten, Target, Begin, vars, program, controller, history
<1>13. CASE UNCHANGED vars
  BY <1>13, SMT DEF Unwritten, Target, vars, program, controller, history
<1> QED BY <1>1, <1>2, <1>3, <1>4, <1>5, <1>6, <1>7, <1>8, <1>9, <1>10, <1>11, <1>12,
    <1>13, TryGivesUp DEF Next, Try, Controller

---------------------------------------------------------------------------
(* Half a word *)

\* The lower byte of a word arrives before the upper one is sent.
LEMMA HalfWrittenStep ==
    ASSUME EcPortInv, [Next]_vars
    PROVE  HalfWritten'
<1> USE EcPortAssumption DEF EcPortInv
<1>1. CASE WaitWrite
  BY <1>1, SMT DEF HalfWritten, Arrives, Pending, InStep, Expected, Call, WaitWrite,
      Goes, AfterWait, Waits, vars, program, controller, history
<1>2. CASE WriteCommand
  BY <1>2, SMT DEF HalfWritten, Arrives, Pending, InStep, Expected, Call, WriteCommand,
      Goes, WritePort, vars, program, controller, history
<1>3. CASE WriteRegister
  BY <1>3, SMT DEF HalfWritten, Arrives, Pending, InStep, Expected, Call, WriteRegister,
      Goes, WritePort, vars, program, controller, history
<1>4. CASE WriteValue
  <2>1. pc # "idle" /\ call \in Call /\ Address = call.register + half /\ Address \in Registers
    BY <1>4, AddressIs DEF WriteValue, Waits
  <2>2. half \in {0, 1} /\ call.register \in Int
    BY <2>1 DEF TypeOK, ProgramTypes, Call, Registers
  <2>3. ec = "value" /\ register = call.register + half /\ input = None /\ call.op = "write"
    BY <1>4, <2>1 DEF InStep, WriteValue
  <2>4. input' # None /\ input'.kind = "data" /\ input'.byte = Value
    BY <1>4, <2>1, Filled DEF WriteValue, WritePort, Value, Call
  <2> QED BY <1>4, <2>1, <2>2, <2>3, <2>4, SMT DEF HalfWritten, Arrives, Pending,
      InStep, Expected, Call, WriteValue, WritePort, Succeeds, Done, Value, vars,
      program, controller, history
<1>5. CASE WaitRead
  BY <1>5, SMT DEF HalfWritten, Arrives, Pending, InStep, Expected, Call, WaitRead,
      Goes, Skips, Answered, vars, program, controller, history
<1>6. CASE ReadValue
  BY <1>6, SMT DEF HalfWritten, Arrives, Pending, InStep, Expected, Call, ReadValue,
      Succeeds, Done, vars, program, controller, history
<1>7. CASE GivesUp
  BY <1>7, SMT DEF HalfWritten, Arrives, Pending, InStep, Expected, Call, GivesUp,
      Fails, Left, vars, program, controller, history
<1>8. CASE TakeCommand
  BY <1>8, SMT DEF HalfWritten, Arrives, Pending, InStep, Expected, Call, TakeCommand,
      vars, program, controller, history
<1>9. CASE TakeRegister
  BY <1>9, SMT DEF HalfWritten, Arrives, Pending, InStep, Expected, Call, TakeRegister,
      vars, program, controller, history
<1>10. CASE TakeValue
  <2>1. Address' = Address
    BY <1>10, Zenon DEF TakeValue, Address, vars, program, controller, history
  <2>2. pc # "idle" => call \in Call
    BY AddressIs
  <2>3. \A r \in Registers : mem'[r] = IF r = register THEN input.byte ELSE mem[r]
    BY <1>10 DEF TypeOK, ControllerTypes, TakeValue
  <2> QED BY <1>10, <2>1, <2>2, <2>3, SMT DEF HalfWritten, Arrives, Pending, InStep,
      Expected, Call, Registers, TakeValue, vars, program, controller, history
<1>11. CASE Answer
  BY <1>11, SMT DEF HalfWritten, Arrives, Pending, InStep, Expected, Call, Answer, vars,
      program, controller, history
<1>12. CASE \E c \in Calls : Begin(c)
  BY <1>12, SMT DEF HalfWritten, Arrives, Pending, InStep, Expected, Call, Begin, vars,
      program, controller, history
<1>13. CASE UNCHANGED vars
  BY <1>13, SMT DEF HalfWritten, Arrives, Pending, InStep, Expected, Call, vars,
      program, controller, history
<1> QED BY <1>1, <1>2, <1>3, <1>4, <1>5, <1>6, <1>7, <1>8, <1>9, <1>10, <1>11, <1>12,
    <1>13, TryGivesUp DEF Next, Try, Controller

---------------------------------------------------------------------------
(* What has been written *)

\* What has been written is in its register or on its way to it.
LEMMA WrittenStep ==
    ASSUME EcPortInv, [Next]_vars
    PROVE  Written'
<1> USE EcPortAssumption DEF EcPortInv
<1>1. CASE WaitWrite
  BY <1>1, SMT DEF Written, Arrives, Pending, InStep, Expected, Call, WaitWrite, Goes,
      AfterWait, Waits, vars, program, controller, history
<1>2. CASE WriteCommand
  <2>1. pc # "idle" /\ call \in Call /\ Address = call.register + half /\ Address \in Registers
    BY <1>2, AddressIs DEF WriteCommand, Waits
  <2>2. Address' = Address
    BY <1>2, Zenon DEF WriteCommand, Goes, Address, vars, program, controller, history
  <2>3. input' # None
    BY <1>2, <2>1, Filled DEF WriteCommand, WritePort, Call
  <2> QED BY <1>2, <2>1, <2>2, <2>3, SMT DEF Written, Arrives, Pending, InStep,
      Expected, Call, WriteCommand, Goes, WritePort, vars, program, controller, history
<1>3. CASE WriteRegister
  BY <1>3, SMT DEF Written, Arrives, Pending, InStep, Expected, Call, WriteRegister,
      Goes, WritePort, vars, program, controller, history
<1>4. CASE WriteValue
  <2>1. pc # "idle" /\ call \in Call /\ Address = call.register + half /\ Address \in Registers
    BY <1>4, AddressIs DEF WriteValue, Waits
  <2>2. half \in {0, 1} /\ call.register \in Int
    BY <2>1 DEF TypeOK, ProgramTypes, Call, Registers
  <2>3. ec = "value" /\ register = call.register + half /\ input = None /\ call.op = "write"
    BY <1>4, <2>1 DEF InStep, WriteValue
  <2>4. input' # None /\ input'.kind = "data" /\ input'.byte = Value
    BY <1>4, <2>1, Filled DEF WriteValue, WritePort, Value, Call
  <2>5. half = 1 => call.word /\ mem[call.register] = call.lsb
    BY <1>4, <2>1, <2>3, Zenon DEF CallUnderWay, HalfWritten, Arrives, Pending
  <2>6. ASSUME NEW r \in Registers, r = register, written'[r] # None
        PROVE  written'[r] = Value
    <3>1. r \in Target(call)
      BY <2>2, <2>3, <2>5, <2>6 DEF Target
    <3>2. written[r] = None
      BY <2>1, <3>1 DEF Unwritten
    <3>3. written'[r] = Wanted(call, r)
      BY <1>4, <2>6, <3>1, <3>2 DEF WriteValue, Succeeds
    <3> QED BY <2>2, <2>3, <2>6, <3>3 DEF Wanted, Value
  <2>7. ASSUME NEW r \in Registers, r # register, written'[r] # None
        PROVE  mem[r] = written'[r]
    <3>1. CASE Done /\ r \in Target(call)
      <4>1. half = 1 /\ r = call.register
        BY <2>2, <2>3, <2>7, <3>1 DEF Done, Target
      <4>2. written'[r] = call.lsb
        BY <1>4, <3>1, <4>1 DEF WriteValue, Succeeds, Wanted
      <4> QED BY <2>5, <4>1, <4>2
    <3>2. CASE ~(Done /\ r \in Target(call))
      BY <1>4, <2>3, <2>7, <3>2 DEF WriteValue, Succeeds, Written, Arrives, Pending
    <3> QED BY <3>1, <3>2
  <2> QED BY <1>4, <2>1, <2>2, <2>3, <2>4, <2>5, <2>6, <2>7, SMT DEF Written, Arrives,
      Pending, InStep, Expected, Call, WriteValue, WritePort, Succeeds, Done, Wanted,
      Target, Value, vars, program, controller, history
<1>5. CASE WaitRead
  BY <1>5, SMT DEF Written, Arrives, Pending, InStep, Expected, Call, WaitRead, Goes,
      Skips, Answered, vars, program, controller, history
<1>6. CASE ReadValue
  BY <1>6, SMT DEF Written, Arrives, Pending, InStep, Expected, Call, ReadValue,
      Succeeds, Done, Target, vars, program, controller, history
<1>7. CASE GivesUp
  BY <1>7, SMT DEF Written, Arrives, Pending, InStep, Expected, Call, GivesUp, Fails,
      Left, vars, program, controller, history
<1>8. CASE TakeCommand
  BY <1>8, SMT DEF Written, Arrives, Pending, InStep, Expected, Call, TakeCommand, vars,
      program, controller, history
<1>9. CASE TakeRegister
  BY <1>9, SMT DEF Written, Arrives, Pending, InStep, Expected, Call, TakeRegister,
      vars, program, controller, history
<1>10. CASE TakeValue
  <2>1. Address' = Address
    BY <1>10, Zenon DEF TakeValue, Address, vars, program, controller, history
  <2>2. pc # "idle" => call \in Call
    BY AddressIs
  <2>3. \A r \in Registers : mem'[r] = IF r = register THEN input.byte ELSE mem[r]
    BY <1>10 DEF TypeOK, ControllerTypes, TakeValue
  <2> QED BY <1>10, <2>1, <2>2, <2>3, SMT DEF Written, Arrives, Pending, InStep,
      Expected, Call, Registers, TakeValue, vars, program, controller, history
<1>11. CASE Answer
  BY <1>11, SMT DEF Written, Arrives, Pending, InStep, Expected, Call, Answer, vars,
      program, controller, history
<1>12. CASE \E c \in Calls : Begin(c)
  BY <1>12, SMT DEF Written, Arrives, Pending, InStep, Expected, Call, Begin, Target,
      vars, program, controller, history
<1>13. CASE UNCHANGED vars
  BY <1>13, SMT DEF Written, Arrives, Pending, InStep, Expected, Call, vars, program,
      controller, history
<1> QED BY <1>1, <1>2, <1>3, <1>4, <1>5, <1>6, <1>7, <1>8, <1>9, <1>10, <1>11, <1>12,
    <1>13, TryGivesUp DEF Next, Try, Controller

---------------------------------------------------------------------------
(* No other answer *)

\* Without an answer given up on, the one that comes is the one waited for.
LEMMA NoOtherAnswerStep ==
    ASSUME EcPortInv, [Next]_vars
    PROVE  NoOtherAnswer'
<1> USE EcPortAssumption DEF EcPortInv
<1>1. CASE WaitWrite
  <2>1. pc # "idle" /\ call \in Call /\ Address = call.register + half /\ Address \in Registers
    BY <1>1, AddressIs DEF WaitWrite, Waits
  <2>2. Address' = Address
    BY <1>1, Zenon DEF WaitWrite, Goes, Address, vars, program, controller, history
  <2> QED BY <1>1, <2>1, <2>2, SMT DEF NoOtherAnswer, Answering, InStep, Expected, Call,
      WaitWrite, Goes, AfterWait, Waits, vars, program, controller, history
<1>2. CASE WriteCommand
  <2>1. pc # "idle" /\ call \in Call /\ Address = call.register + half /\ Address \in Registers
    BY <1>2, AddressIs DEF WriteCommand, Waits
  <2>2. Address' = Address
    BY <1>2, Zenon DEF WriteCommand, Goes, Address, vars, program, controller, history
  <2>3. input' # None
    BY <1>2, <2>1, Filled DEF WriteCommand, WritePort, Call
  <2> QED BY <1>2, <2>1, <2>2, <2>3, SMT DEF NoOtherAnswer, Answering, InStep, Expected,
      Call, WriteCommand, Goes, WritePort, vars, program, controller, history
<1>3. CASE WriteRegister
  <2>1. pc # "idle" /\ call \in Call /\ Address = call.register + half /\ Address \in Registers
    BY <1>3, AddressIs DEF WriteRegister, Waits
  <2>2. Address' = Address
    BY <1>3, Zenon DEF WriteRegister, Goes, Address, vars, program, controller, history
  <2>3. input' # None
    BY <1>3, <2>1, Filled DEF WriteRegister, WritePort, Call
  <2> QED BY <1>3, <2>1, <2>2, <2>3, SMT DEF NoOtherAnswer, Answering, InStep, Expected,
      Call, WriteRegister, Goes, WritePort, vars, program, controller, history
<1>4. CASE WriteValue
  BY <1>4, SMT DEF NoOtherAnswer, Answering, InStep, Expected, Call, WriteValue,
      WritePort, Succeeds, Done, Wanted, Target, Value, vars, program, controller,
      history
<1>5. CASE WaitRead
  <2>1. pc # "idle" /\ call \in Call /\ Address = call.register + half /\ Address \in Registers
    BY <1>5, AddressIs DEF WaitRead, Waits
  <2>2. Address' = Address
    BY <1>5, Zenon DEF WaitRead, Goes, Address, vars, program, controller, history
  <2> QED BY <1>5, <2>1, <2>2, SMT DEF NoOtherAnswer, Answering, InStep, Expected, Call,
      WaitRead, Goes, Skips, Answered, vars, program, controller, history
<1>6. CASE ReadValue
  BY <1>6, SMT DEF NoOtherAnswer, Answering, InStep, Expected, Call, ReadValue,
      Succeeds, Done, Target, vars, program, controller, history
<1>7. CASE GivesUp
  <2>1. ~abandoned' => ~abandoned /\ ~(call.op = "read" /\ pc \in {"wait3", "waitRead", "get"})
    BY <1>7, Zenon DEF GivesUp, Fails
  <2>2. call \in Call
    BY <1>7, AddressIs DEF GivesUp
  <2> QED BY <1>7, <2>1, <2>2, SMT DEF NoOtherAnswer, Answering, InStep, Expected, Call,
      TypeOK, ProgramTypes, Waits, GivesUp, Fails, Left, vars, program, controller,
      history
<1>8. CASE TakeCommand
  BY <1>8, SMT DEF NoOtherAnswer, Answering, InStep, Expected, Call, TakeCommand, vars,
      program, controller, history
<1>9. CASE TakeRegister
  <2>1. Address' = Address
    BY <1>9, Zenon DEF TakeRegister, Address, vars, program, controller, history
  <2>2. pc # "idle" => call \in Call
    BY AddressIs
  <2> QED BY <1>9, <2>1, <2>2, SMT DEF NoOtherAnswer, Answering, InStep, Expected, Call,
      TakeRegister, vars, program, controller, history
<1>10. CASE TakeValue
  BY <1>10, SMT DEF NoOtherAnswer, Answering, InStep, Expected, Call, TakeValue, vars,
      program, controller, history
<1>11. CASE Answer
  <2>1. Address' = Address
    BY <1>11, Zenon DEF Answer, Address, vars, program, controller, history
  <2> QED BY <1>11, <2>1, SMT DEF NoOtherAnswer, Answering, InStep, Expected, Call,
      Answer, vars, program, controller, history
<1>12. CASE \E c \in Calls : Begin(c)
  BY <1>12, SMT DEF NoOtherAnswer, Answering, InStep, Expected, Call, Begin, Target,
      vars, program, controller, history
<1>13. CASE UNCHANGED vars
  <2>1. Address' = Address
    BY <1>13, Zenon DEF Address, vars, program, controller, history
  <2> QED BY <1>13, <2>1, SMT DEF NoOtherAnswer, Answering, InStep, Expected, Call,
      vars, program, controller, history
<1> QED BY <1>1, <1>2, <1>3, <1>4, <1>5, <1>6, <1>7, <1>8, <1>9, <1>10, <1>11, <1>12,
    <1>13, TryGivesUp DEF Next, Try, Controller

---------------------------------------------------------------------------
(* The invariant *)

\* The invariant holds at first.
LEMMA EcPortInit == Init => EcPortInv
<1> SUFFICES ASSUME Init PROVE EcPortInv
  OBVIOUS
<1>1. TypeOK /\ CallUnderWay /\ NamesRegister
  BY TypeInit
<1>2. InStep /\ Sent /\ Written /\ Unwritten /\ HalfWritten
  BY DEF Init, InStep, Sent, Pending, Written, Unwritten, HalfWritten
<1>3. NoOtherAnswer
  BY DEF Init, NoOtherAnswer
<1> QED BY <1>1, <1>2, <1>3 DEF EcPortInv

\* Every step keeps the invariant.
LEMMA EcPortStep == EcPortInv /\ [Next]_vars => EcPortInv'
<1> SUFFICES ASSUME EcPortInv, [Next]_vars PROVE EcPortInv'
  OBVIOUS
<1>1. TypeOK' /\ CallUnderWay' /\ NamesRegister'
  BY TypeStep DEF EcPortInv
<1>2. InStep' /\ Sent' /\ Unwritten' /\ HalfWritten' /\ Written' /\ NoOtherAnswer'
  BY InStepStep, SentStep, UnwrittenStep, HalfWrittenStep, WrittenStep,
      NoOtherAnswerStep
<1> QED BY <1>1, <1>2 DEF EcPortInv

\* What the program, the ports and the controller have to do with each other
\* in every state: the inductive invariant.
THEOREM EcPortInvariant == Spec => []EcPortInv
<1>1. EcPortInv /\ [Next]_vars => EcPortInv'
  BY EcPortStep
<1> QED BY EcPortInit, <1>1, PTL DEF Spec

\* Every variable keeps its type (the counter of failed waits stays within its
\* limit, and no number of a register is beyond the last).
THEOREM EcPortTypes == Spec => []TypeOK
<1>1. EcPortInv => TypeOK
  BY DEF EcPortInv
<1> QED BY EcPortInvariant, <1>1, PTL

\* Until a try gives up on an answer, a byte that is read is that of its
\* register, for any calls, retries and delays.
THEOREM ReadsRightly == Spec => []ReadsAreRight
<1>1. EcPortInv => ReadsAreRight
  BY DEF EcPortInv, NoOtherAnswer, ReadsAreRight
<1> QED BY EcPortInvariant, <1>1, PTL

\* A byte or word whose write has succeeded is in its registers as soon as the
\* controller has taken its input, and stays there until it is written again.
THEOREM DeliversWrites == Spec => []WritesArrive
<1>1. EcPortInv => WritesArrive
  BY DEF EcPortInv, Written, Arrives, Pending, WritesArrive
<1> QED BY EcPortInvariant, <1>1, PTL

\* No register ever gets a value that was not sent for it.
THEOREM WritesNothingElse == Spec => NoStrayWrites
<1>1. EcPortInv /\ [Next]_vars =>
        [\A r \in Registers : mem'[r] # mem[r] => sent = <<r, mem'[r]>>]_vars
  <2> SUFFICES ASSUME EcPortInv, Next, NEW r \in Registers, mem'[r] # mem[r]
               PROVE  sent = <<r, mem'[r]>>
    OBVIOUS
  <2>1. TakeValue
    BY DEF Next, Try, Controller, Begin, WaitWrite, WaitWriteTimesOut, WriteCommand,
           WriteRegister, WriteValue, WritePortFails, WritePort, WaitRead, WaitReadTimesOut,
           ReadValue, ReadPortFails, TakeCommand, TakeRegister, Answer, controller
  <2>2. r = register /\ mem'[r] = input.byte
    BY <2>1 DEF TakeValue, EcPortInv, TypeOK, ControllerTypes
  <2>3. sent = <<register, input.byte>>
    BY <2>1 DEF TakeValue, EcPortInv, Sent, Pending
  <2> QED BY <2>2, <2>3
<1> QED BY EcPortInvariant, <1>1, PTL DEF Spec, NoStrayWrites

---------------------------------------------------------------------------
(* The register file *)

\* The abstract step of each kind of step.
LEMMA RegisterFileStep ==
    ASSUME EcPortInv, [Next]_vars
    PROVE  [RF!Next]_(RF!vars)
<1> USE EcPortAssumption
<1>0. SUFFICES (Content' = Content /\ Current' = Current) \/ RF!Next
  BY DEF RF!vars
<1>1. CASE WaitWrite \/ WaitRead
  <2>1. Current' = Current
    BY <1>1, SMT DEF Current, WaitWrite, WaitRead, Goes, AfterWait, Waits
  <2> QED BY <1>1, <2>1, Zenon DEF Content, Pending, WaitWrite, WaitRead, controller
<1>2. CASE WriteCommand \/ WriteRegister
  <2>1. pc # "idle" /\ call \in Call
    BY <1>2, AddressIs DEF EcPortInv, WriteCommand, WriteRegister
  <2>2. ~Pending /\ ~Pending' /\ mem' = mem
    BY <1>2, <2>1, SMT DEF EcPortInv, Pending, InStep, Expected, Call, WriteCommand,
        WriteRegister, WritePort, controller
  <2>3. Current' = Current
    BY <1>2, SMT DEF Current, WriteCommand, WriteRegister, Goes
  <2> QED BY <2>2, <2>3, Zenon DEF Content
<1>3. CASE WriteValue
  <2>1. /\ pc # "idle" /\ call \in Call /\ call # None
        /\ Address = call.register + half /\ Address \in Registers
    BY <1>3, AddressIs DEF EcPortInv, CallUnderWay, WriteValue
  <2>2. call.op = "write" /\ register = Address /\ input = None /\ half \in {0, 1}
    BY <1>3 DEF EcPortInv, InStep, TypeOK, ProgramTypes, WriteValue
  <2>3. ~Pending /\ Pending' /\ register' = register /\ mem' = mem /\ input'.byte = Value
    <3>1. Value \in Byte
      BY <2>1 DEF Value, Call
    <3>2. input' # None /\ input'.kind = "data" /\ input'.byte = Value
      BY <1>3, <3>1, Filled DEF WriteValue, WritePort
    <3> QED BY <1>3, <2>2, <3>2, Zenon DEF EcPortInv, InStep, Pending, WriteValue, WritePort,
        controller
  <2>4. half = 1 => call.word
    BY <2>1 DEF EcPortInv, CallUnderWay
  <2>5. Address \in RF!Target(call) /\ Value = RF!Wanted(call, Address)
    <3>1. call.register \in Int
      BY <2>1 DEF Call, Registers
    <3>2. CASE half = 0
      BY <2>1, <2>2, <3>1, <3>2 DEF RF!Target, RF!Wanted, Value
    <3>3. CASE half = 1
      BY <2>1, <2>2, <2>4, <3>1, <3>3 DEF RF!Target, RF!Wanted, Value
    <3> QED BY <2>2, <3>2, <3>3
  <2>6. Content = [r \in Registers |-> mem[r]]
    BY <2>3, Zenon DEF Content
  <2>7. \A r \in Registers : Content'[r] = IF r = Address THEN Value ELSE mem[r]
    BY <2>2, <2>3, Zenon DEF Content
  <2>8. Current = call /\ Current' = IF Done THEN None ELSE call
    BY <1>3, <2>1, SMT DEF Current, WriteValue, Succeeds
  <2>9. Content' = [r \in Registers |->
                      IF r \in {Address} THEN RF!Wanted(call, r) ELSE Content[r]]
    BY <2>2, <2>3, <2>5, <2>6, Zenon DEF Content
  <2>10. \E some \in SUBSET RF!Target(Current) : RF!Put(some)
    <3>1. {Address} \in SUBSET RF!Target(Current)
      BY <2>5, <2>8
    <3>2. RF!Put({Address})
      BY <2>8, <2>9 DEF RF!Put
    <3> QED BY <3>1, <3>2
  <2>11. CASE ~Done
    BY <2>1, <2>8, <2>10, <2>11 DEF RF!Next, RF!Write
  <2>12. CASE Done
    <3>1. \A r \in RF!Target(call) : r \in Registers /\ Content'[r] = RF!Wanted(call, r)
      <4> SUFFICES ASSUME NEW r \in RF!Target(call)
                   PROVE  r \in Registers /\ Content'[r] = RF!Wanted(call, r)
        OBVIOUS
      <4>1. Fits(call) /\ call.register \in Registers
        BY <2>1 DEF EcPortInv, CallUnderWay, Call
      <4>2. r \in Registers
        <5>1. r = call.register \/ (call.word /\ r = call.register + 1)
          BY <2>2 DEF RF!Target
        <5>2. r = call.register \/ (call.register < MaxRegister /\ r = call.register + 1)
          BY <4>1, <5>1, Zenon DEF Fits
        <5>3. MaxRegister \in Int
          BY DEF Byte
        <5> QED BY ONLY <4>1, <5>2, <5>3 DEF Registers
      <4>3. CASE r = Address
        BY <2>5, <2>7, <4>2, <4>3
      <4>4. CASE r # Address
        <5>1. r = call.register /\ half = 1
          BY <2>1, <2>2, <2>12, <4>1, <4>4 DEF Done, RF!Target, Registers
        <5>2. mem[r] = call.lsb
          BY <2>1, <2>2, <2>3, <5>1 DEF EcPortInv, HalfWritten, Arrives
        <5> QED BY <2>7, <4>2, <4>4, <5>1, <5>2 DEF RF!Wanted
      <4> QED BY <4>2, <4>3, <4>4
    <3>2. RF!Succeed
      BY <2>1, <2>8, <2>10, <2>12, <3>1 DEF RF!Succeed
    <3> QED BY <3>2 DEF RF!Next
  <2> QED BY <2>11, <2>12
<1>4. CASE ReadValue
  <2>1. pc # "idle" /\ call # None /\ call.op = "read"
    BY <1>4, SMT DEF EcPortInv, CallUnderWay, InStep, ReadValue
  <2>2. Content' = Content
    BY <1>4, Zenon DEF Content, Pending, ReadValue, controller
  <2>3. Current = call /\ Current' = IF Done THEN None ELSE call
    BY <1>4, <2>1, SMT DEF Current, ReadValue, Succeeds
  <2>4. CASE ~Done
    BY <2>2, <2>3, <2>4
  <2>5. CASE Done
    <3>1. RF!Target(call) = {}
      BY <2>1 DEF RF!Target
    <3>2. RF!Put({})
      BY <2>2, Zenon DEF RF!Put, Content
    <3>3. RF!Succeed
      BY <2>1, <2>3, <2>5, <3>1, <3>2 DEF RF!Succeed
    <3> QED BY <3>3 DEF RF!Next
  <2> QED BY <2>4, <2>5
<1>5. CASE GivesUp
  <2>1. pc # "idle" /\ call # None
    BY <1>5, SMT DEF EcPortInv, CallUnderWay, GivesUp
  <2>2. Content' = Content
    BY <1>5, Zenon DEF Content, Pending, GivesUp, controller
  <2>3. Current = call /\ Current' \in {None, call}
    BY <1>5, <2>1, SMT DEF Current, GivesUp, Fails
  <2>4. CASE Current' = None
    BY <2>1, <2>2, <2>3, <2>4 DEF RF!Next, RF!Fail
  <2> QED BY <2>2, <2>3, <2>4
<1>6. CASE TakeCommand \/ TakeRegister \/ Answer
  <2>1. ~Pending /\ ~Pending' /\ mem' = mem
    BY <1>6, SMT DEF Pending, TakeCommand, TakeRegister, Answer
  <2>2. Current' = Current
    BY <1>6, Zenon DEF Current, TakeCommand, TakeRegister, Answer, program
  <2> QED BY <2>1, <2>2, Zenon DEF Content
<1>7. CASE TakeValue
  <2>1. Pending /\ ~Pending' /\ mem' = [mem EXCEPT ![register] = input.byte]
    BY <1>7 DEF Pending, TakeValue
  <2>2. \A r \in Registers : mem'[r] = IF r = register THEN input.byte ELSE mem[r]
    BY <2>1 DEF EcPortInv, TypeOK, ControllerTypes
  <2>3. Content' = Content
    BY <2>1, <2>2, Zenon DEF Content
  <2>4. Current' = Current
    BY <1>7, Zenon DEF Current, TakeValue, program
  <2> QED BY <2>3, <2>4
<1>8. CASE \E c \in Calls : Begin(c)
  <2>1. PICK c \in Calls : Begin(c)
    BY <1>8
  <2>2. Content' = Content
    BY <2>1, Zenon DEF Content, Pending, Begin, controller
  <2>3. Current = None /\ Current' = c
    BY <2>1, SMT DEF Current, Begin
  <2> QED BY <2>2, <2>3 DEF RF!Next, RF!Begin
<1>9. CASE UNCHANGED vars
  BY <1>9, Zenon DEF Content, Current, Pending, vars, program, controller
<1> QED BY <1>1, <1>2, <1>3, <1>4, <1>5, <1>6, <1>7, <1>8, <1>9, TryGivesUp
    DEF Next, Try, Controller

\* For any calls and delays, the driver implements the registers it stands for:
\* what a call that has succeeded wrote is there, all of it, one that fails may
\* have written some of it, and nothing else ever writes.
THEOREM IsARegisterFile == Spec => ImplementsRegisterFile
<1>1. Init => RF!Init
  BY Zenon DEF Init, RF!Init, Current
<1>2. EcPortInv /\ [Next]_vars => [RF!Next]_(RF!vars)
  BY RegisterFileStep
<1> QED BY EcPortInvariant, <1>1, <1>2, PTL DEF Spec, RF!Spec, ImplementsRegisterFile
================================================================================
