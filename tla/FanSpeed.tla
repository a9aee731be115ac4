------------------------------- MODULE FanSpeed -------------------------------
(***************************************************************************)
(* src/fan.c: between the percentages of a fan and the values of its       *)
(* registers.  Percentages are counted in parts; float_eq, which allows a  *)
(* difference of 0.06 percent, is equality of those.                       *)
(***************************************************************************)
EXTENDS ModelConfig

\* Fan_Init
Fan(f, c) ==
    LET same == ~f.IndependentReadMinMaxValues
    IN [config    |-> f,
        minWrite  |-> f.MinSpeedValue,
        maxWrite  |-> f.MaxSpeedValue,
        minRead   |-> IF same THEN f.MinSpeedValue ELSE f.MinSpeedValueRead,
        maxRead   |-> IF same THEN f.MaxSpeedValue ELSE f.MaxSpeedValueRead,
        readWords |-> IF Has(f, {"ReadWords"}) THEN f.ReadWords ELSE c.ReadWriteWords,
        writeWords |-> IF Has(f, {"WriteWords"}) THEN f.WriteWords ELSE c.ReadWriteWords]

Lesser(a, b) == IF a < b THEN a ELSE b
Greater(a, b) == IF a < b THEN b ELSE a

\* The first of the overrides that speak of a value that is read, or of a percentage
\* to be written.
FirstOf(overrides, Speaks(_)) ==
    LET of == {i \in DOMAIN overrides : Speaks(overrides[i])}
    IN {overrides[i] : i \in {j \in of : \A k \in of : j <= k}}

Fan_OverrideByValue(fan, v) ==
    FirstOf(fan.config.FanSpeedPercentageOverrides,
            LAMBDA o : o.TargetOperation \in {"Read", "ReadWrite"} /\ o.FanSpeedValue = v)

Fan_OverrideByPercentage(fan, p) ==
    FirstOf(fan.config.FanSpeedPercentageOverrides,
            LAMBDA o : o.TargetOperation \in {"Write", "ReadWrite"} /\ o.FanSpeedPercentage = p)

\* A quotient rounded to the nearest, halves away from zero; either may be negative.
Magnitude(n) == Greater(n, -n)
Nearest(n, d) == (2 * n + d) \div (2 * d)
Rounded(n, d) == IF n >= 0 <=> d > 0 THEN Nearest(Magnitude(n), Magnitude(d))
                                     ELSE -Nearest(Magnitude(n), Magnitude(d))

\* Mutant: the quotient is cut.
CutToFanSpeed(fan, percentage) ==
    fan.minWrite + ((fan.maxWrite - fan.minWrite) * percentage) \div Full

Fan_PercentageToFanSpeed(fan, percentage) ==
    LET p == Greater(0, Lesser(Full, percentage))
        o == Fan_OverrideByPercentage(fan, p)
    IN IF o # {} THEN The(o).FanSpeedValue
       ELSE Rounded(fan.minWrite * Full + (fan.maxWrite - fan.minWrite) * p, Full)

Fan_FanSpeedToPercentage(fan, value) ==
    LET o == Fan_OverrideByValue(fan, value)
    IN IF o # {} THEN The(o).FanSpeedPercentage
       ELSE Rounded((value - fan.minRead) * Full, fan.maxRead - fan.minRead)

\* What Fan_UpdateCurrentSpeed makes of the value it has read last.
InReadRange(fan, value) ==
    Greater(Lesser(fan.minRead, fan.maxRead), Lesser(Greater(fan.minRead, fan.maxRead), value))

\* Where Fan_ECReadValue, Fan_ECWriteValue and Fan_ECReset look, in this order.
Source(f, method, lua) == CASE Has(f, {method}) -> "acpi"
                            [] ~Has(f, {method}) /\ Has(f, {lua}) -> "lua"
                            [] OTHER -> "register"
ReadSource(f) == Source(f, "ReadAcpiMethod", "ReadLuaCode")
WriteTarget(f) == Source(f, "WriteAcpiMethod", "WriteLuaCode")
ResetTarget(f) == Source(f, "ResetAcpiMethod", "ResetLuaCode")

\* What the register, or the method, is written for a value: a byte is cut from it unless
\* it is written as a word.
Fan_ECWriteValue(fan, value) ==
    IF WriteTarget(fan.config) # "register" \/ fan.writeWords THEN value ELSE value % 2^Bits

\* The field they use of the three.
Used(source, register, method, lua) ==
    CASE source = "acpi" -> method [] source = "lua" -> lua [] OTHER -> register

\* The fields the functions of fan.c and of register_write_configuration_utils.c
\* then use of a fan and of a register write configuration.
FanUses(f) ==
    {Used(ReadSource(f), "ReadRegister", "ReadAcpiMethod", "ReadLuaCode"),
     Used(WriteTarget(f), "WriteRegister", "WriteAcpiMethod", "WriteLuaCode")}
    \cup (IF f.ResetRequired
          THEN {Used(ResetTarget(f), "FanSpeedResetValue", "ResetAcpiMethod", "ResetLuaCode")} ELSE {})
    \cup (IF f.IndependentReadMinMaxValues THEN {"MinSpeedValueRead", "MaxSpeedValueRead"} ELSE {})

ModeUses(mode, method, lua, value) ==
    CASE mode = "Call" -> {method} [] mode = "Lua" -> {lua} [] OTHER -> {"Register", value}
RegisterWriteUses(r) ==
    ModeUses(r.WriteMode, "AcpiMethod", "LuaCode", "Value")
    \cup IF r.ResetRequired THEN ModeUses(r.ResetWriteMode, "ResetAcpiMethod", "ResetLuaCode", "ResetValue")
                            ELSE {}
================================================================================
