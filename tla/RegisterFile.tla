----------------------------- MODULE RegisterFile -----------------------------
(***************************************************************************)
(* What the drivers of the embedded controller promise, whichever it is    *)
(* (src/ec.h, struct EC_VTable): registers that change only by the calls   *)
(* that write them, to the values those calls give, one byte after the     *)
(* other or both at once.  A write that reports success has left all of    *)
(* its bytes; one that fails may have left any of them.                    *)
(***************************************************************************)
EXTENDS Integers

CONSTANTS
    Registers,  \* 0..255
    Calls,      \* records of op, word, register, lsb and msb
    NoCall      \* nothing is called

VARIABLES
    mem,        \* the registers, as the next reader will find them
    call        \* the call under way

vars == <<mem, call>>

\* The registers a call writes, and what it leaves in them.
Target(c) == IF c.op = "read" THEN {}
             ELSE {c.register} \cup IF c.word THEN {c.register + 1} ELSE {}
Wanted(c, r) == IF r = c.register THEN c.lsb ELSE c.msb

Put(some) == mem' = [r \in Registers |-> IF r \in some THEN Wanted(call, r) ELSE mem[r]]

Begin(c) ==
    /\ call = NoCall
    /\ call' = c
    /\ UNCHANGED mem

Write ==
    /\ call # NoCall
    /\ \E some \in SUBSET Target(call) : Put(some)
    /\ UNCHANGED call

Succeed ==
    /\ call # NoCall
    /\ \E some \in SUBSET Target(call) : Put(some)
    /\ \A r \in Target(call) : r \in Registers /\ mem'[r] = Wanted(call, r)
    /\ call' = NoCall

Fail ==
    /\ call # NoCall
    /\ call' = NoCall
    /\ UNCHANGED mem

Init == call = NoCall

Next == Write \/ Succeed \/ Fail \/ \E c \in Calls : Begin(c)

Spec == Init /\ [][Next]_vars
================================================================================
