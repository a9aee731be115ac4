--------------------------------- MODULE Range ---------------------------------
(***************************************************************************)
(* src/range.c and the presets of src/probe/cmd_probe.c: the values        *)
(* `ec_probe probe' is told to write.  A text is what the parser splits it *)
(* into: up to three numbers, two separators, an operator, and whether     *)
(* anything is left over.                                                  *)
(***************************************************************************)
EXTENDS Integers, Sequences, SequencesExt

CONSTANT MaxU64     \* UINT64_MAX

ASSUME RangeAssumption == MaxU64 \in Nat \ {0}

Absent == -1

Text == [num1 : Nat \cup {Absent}, sep1 : {"", "-", "?"}, num2 : Nat \cup {Absent},
         sep2 : {"", ":", "?"}, op : {"", "+", "-", "*", "/", "?"},
         num3 : Nat \cup {Absent}, rest : BOOLEAN, preset : STRING]

NoRange == [start |-> Absent, stop |-> Absent, step |-> 0, type |-> "add"]

\* parse_unumber: strtoull says so when a number is too large.
Numbers(t) == {t.num1, t.num2, t.num3}
NumbersFit(t) == \A n \in Numbers(t) : n <= MaxU64

IsValue(t) == t.num1 # Absent /\ t.sep1 = ""
IsSpan(t) == t.num1 # Absent /\ t.sep1 = "-" /\ t.num2 # Absent /\ t.sep2 = ""
IsSteps(t) == t.num1 # Absent /\ t.sep1 = "-" /\ t.num2 # Absent
              /\ t.sep2 = ":" /\ t.num3 # Absent

\* The checks of <start>-<stop>:<op><step>.
StepFits(t) ==
    /\ t.num3 # 0
    /\ t.op \in {"*", "/"} => t.num3 # 1 /\ t.num1 # 0
    /\ t.op \in {"", "+", "*"} => t.num1 <= t.num2
    /\ t.op \in {"-", "/"} => t.num1 >= t.num2
    /\ t.op # "?"

Operator(t) == CASE t.op \in {"", "+"} -> "add" [] t.op = "-" -> "sub"
                 [] t.op = "*" -> "mul" [] t.op = "/" -> "div"

Range_Parse(t) ==
    IF t.rest \/ ~NumbersFit(t) THEN NoRange
    ELSE CASE IsValue(t) -> [start |-> t.num1, stop |-> t.num1, step |-> 0, type |-> "add"]
           [] IsSteps(t) /\ StepFits(t) ->
                [start |-> t.num1, stop |-> t.num2, step |-> t.num3, type |-> Operator(t)]
           [] IsSpan(t) ->
                [start |-> t.num1, stop |-> t.num2,
                 step |-> IF t.num1 = t.num2 THEN 0 ELSE 1,
                 type |-> IF t.num1 <= t.num2 THEN "add" ELSE "sub"]
           [] OTHER -> NoRange

Presets == {"all", "all_reversed", "bits", "bits_reversed"}

\* Probe_ParsePreset; `top' is the largest value, `bit' the highest bit.
Preset(name, top, bit) ==
    CASE name = "all" -> [start |-> 0, stop |-> top, step |-> 1, type |-> "add"]
      [] name = "all_reversed" -> [start |-> top, stop |-> 0, step |-> 1, type |-> "sub"]
      [] name = "bits" -> [start |-> 1, stop |-> bit, step |-> 2, type |-> "mul"]
      [] name = "bits_reversed" -> [start |-> bit, stop |-> 1, step |-> 2, type |-> "div"]

Range_IsInRange(r, max) == r.start \in 0..max /\ r.stop \in 0..max

\* Mutant: the sum wraps round.
AddedWrapping(r, v) == (v + r.step) % (MaxU64 + 1)

\* What the builtins leave of a sum, a difference and a product that overflow is
\* not looked at.
Added(r, v) == IF v + r.step > MaxU64 THEN Absent ELSE v + r.step

Stepped(r, v) ==
    IF r.step = 0 THEN Absent
    ELSE CASE r.type = "add" -> Added(r, v)
           [] r.type = "sub" -> IF v < r.step THEN Absent ELSE v - r.step
           [] r.type = "mul" -> IF v * r.step > MaxU64 THEN Absent ELSE v * r.step
           [] r.type = "div" -> IF v = 0 THEN Absent ELSE v \div r.step

\* The next value, or Absent.
Range_Iterate(r, v) ==
    LET next == Stepped(r, v)
        passed == IF r.type \in {"add", "mul"} THEN next > r.stop ELSE next < r.stop
    IN IF next = Absent \/ passed THEN Absent ELSE next

---------------------------------------------------------------------------
\* The values a range stands for, as doc/ec_probe.1.md describes them.
Members(r) ==
    IF r.step = 0 THEN {r.start}
    ELSE CASE r.type = "add" -> {v \in r.start..r.stop : (v - r.start) % r.step = 0}
           [] r.type = "sub" -> {v \in r.stop..r.start : (r.start - v) % r.step = 0}
           [] r.type = "mul" -> {r.start * r.step^k : k \in 0..r.stop} \cap r.start..r.stop
           [] r.type = "div" -> {r.start \div r.step^k : k \in 0..r.start} \cap r.stop..r.start

Values(r) == IF r.type \in {"add", "mul"} THEN SetToSortSeq(Members(r), <)
                                          ELSE SetToSortSeq(Members(r), >)
================================================================================
