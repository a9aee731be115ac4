------------------------------- MODULE RateConfig -------------------------------
(***************************************************************************)
(* `nbfc rate-config', src/client/cmd_rate_config.c, with                  *)
(* src/model_config_utils.c: it rates configurations by how they fit the   *)
(* firmware, and lists those that fit, with the like ones in one group.    *)
(* One command line runs after the other.                                  *)
(***************************************************************************)
EXTENDS ConfigRating, ConfigFiles

CONSTANT Orders     \* bound: the command lines, and what happens to each

VARIABLES
    orders,     \* the command lines still to come
    order,      \* RateConfig_Options; the files, the firmware, what fails
    doing,      \* where the program is
    outcome,    \* its exit status
    with,       \* the ConfigRating
    list,       \* the names of the files still to be rated
    rated,      \* the array of ConfigWithData
    groups      \* what it prints: for each group the files and the last rating

vars == <<orders, order, doing, outcome, with, list, rated, groups>>

\* What comes before the first command line.
Fresh ==
    /\ order = [actions |-> <<>>]
    /\ doing = "ended" /\ outcome = 0
    /\ with = <<>> /\ list = <<>> /\ rated = <<>> /\ groups = <<>>

Init == orders \in Orders /\ Fresh

RateIsOver == doing \in {"ended", "crashed"}
Exit(s) == doing' = "ended" /\ outcome' = s

---------------------------------------------------------------------------
(* Similar configurations *)

\* What AcpiMethodCall_Equal or strcmp makes of a method or a source; without one
\* of them it reads from a null pointer.
Compared(a, b, field) ==
    CASE ~Has(a, {field}) \/ ~Has(b, {field}) -> "crash"
      [] field \in {"LuaCode", "ResetLuaCode"} -> IF a[field] = b[field] THEN "yes" ELSE "no"
      [] OTHER -> IF AcpiAnalysis_PathEquals(a[field], b[field]) THEN "yes" ELSE "no"

FanConfiguration_IsSimilar(a, b) ==
    LET registers == {"ReadRegister", "WriteRegister"}
        methods == {"ReadAcpiMethod", "WriteAcpiMethod", "ResetAcpiMethod"}
        sources == {"ReadLuaCode", "WriteLuaCode", "ResetLuaCode"}
        set(f) == DOMAIN f \cap (registers \cup methods \cup sources)
    IN IF /\ set(a) = set(b)
          /\ \A k \in set(a) : IF k \in methods THEN AcpiAnalysis_PathEquals(a[k], b[k]) ELSE a[k] = b[k]
       THEN "yes" ELSE "no"

\* A register that is not set is compared as 0.
Register(r) == IF Has(r, {"Register"}) THEN r.Register ELSE 0

RegisterWriteConfiguration_IsSimilar(a, b) ==
    LET In(mode, method, lua) ==
            CASE mode = "Call" -> Compared(a, b, method)
              [] mode = "Lua" -> Compared(a, b, lua)
              [] OTHER -> IF Register(a) = Register(b) THEN "yes" ELSE "no"
    IN IF a.WriteMode # b.WriteMode \/ a.ResetWriteMode # b.ResetWriteMode THEN "no"
       ELSE LET written == In(a.WriteMode, "AcpiMethod", "LuaCode")
            IN IF written # "yes" THEN written
               ELSE In(a.ResetWriteMode, "ResetAcpiMethod", "ResetLuaCode")

\* Each element of a takes the first of b that is like it and not taken yet.
AreSimilar(a, b, Similar(_, _)) ==
    LET Take(done, x) ==
            LET left == {l \in DOMAIN b \ done.used : Similar(x, b[l]) # "no"}
            IN IF done.verdict # "yes" \/ left = {}
               THEN [done EXCEPT !.verdict = IF @ = "yes" THEN "no" ELSE @]
               ELSE [used |-> done.used \cup {Min(left)}, verdict |-> Similar(x, b[Min(left)])]
    IN IF Len(a) # Len(b) THEN "no"
       ELSE FoldLeft(Take, [used |-> {}, verdict |-> "yes"], a).verdict

FanConfigurations_AreSimilar(a, b) == AreSimilar(a, b, FanConfiguration_IsSimilar)
RegisterWriteConfigurations_AreSimilar(a, b) == AreSimilar(a, b, RegisterWriteConfiguration_IsSimilar)

ModelConfig_IsSimilar(a, b) ==
    LET fans == FanConfigurations_AreSimilar(a.FanConfigurations, b.FanConfigurations)
    IN IF fans # "yes" THEN fans
       ELSE RegisterWriteConfigurations_AreSimilar(a.RegisterWriteConfigurations,
                                                   b.RegisterWriteConfigurations)

---------------------------------------------------------------------------
(* The files and the rules *)

\* The lists of files a command line may begin with.
Files(o) ==
    CASE o.actions = <<"all">> -> List_All_Configs(o.disk)
      [] o.actions = <<"input">> -> {o.files} \ {<<>>}
      [] OTHER -> {o.files}

\* RateConfig_GetRules: what is downloaded is used whatever it is.
RateConfig_GetRules(o) ==
    CASE o.rulesFile # <<>> -> {o.rulesFile[i] : i \in DOMAIN o.rulesFile}
      [] o.rulesFile = <<>> /\ ~o.noDownload /\ o.download # <<>> -> {o.download[1]}
      [] OTHER -> {o.builtin}

Rules(o) == UNION {ConfigRatingRules_FromJson(node) : node \in RateConfig_GetRules(o)}

---------------------------------------------------------------------------
(* The command *)

\* RateConfig_SetAction refuses a second action, RateConfig none.
RateNothing ==
    /\ RateIsOver /\ orders # <<>> /\ Len(Head(orders).actions) # 1
    /\ order' = Head(orders) /\ orders' = Tail(orders)
    /\ Exit(2) /\ groups' = <<>>
    /\ UNCHANGED <<with, list, rated>>

Prints == Head(orders).actions \in {<<"full help">>, <<"print rules">>}

PrintOnly ==
    /\ RateIsOver /\ orders # <<>> /\ Prints
    /\ order' = Head(orders) /\ orders' = Tail(orders)
    /\ Exit(IF order'.actions = <<"print rules">> /\ Rules(order') = {} THEN 1 ELSE 0) /\ groups' = <<>>
    /\ UNCHANGED <<with, list, rated>>

\* A list of no names, or no rules, no right to read the tables, no acpiexec.
CannotRate(o) == Files(o) = {} \/ Rules(o) = {} \/ o.fails

BeginRating ==
    /\ RateIsOver /\ orders # <<>> /\ Len(Head(orders).actions) = 1 /\ ~Prints
    /\ order' = Head(orders) /\ orders' = Tail(orders)
    /\ groups' = <<>> /\ rated' = <<>>
    /\ IF CannotRate(order')
       THEN Exit(1) /\ UNCHANGED <<with, list>>
       ELSE /\ with' = ConfigRating_Init(order'.firmware, order'.unverified, The(Rules(order')))
            /\ list' \in Files(order')
            /\ doing' = "rating" /\ UNCHANGED outcome

\* RateConfig_RateConfigs, for one file; one that fails is left out.
RateFile ==
    /\ doing = "rating" /\ list # <<>>
    /\ list' = Tail(list)
    /\ LET name == Head(list)
           ratings == UNION {{[file |-> name, config |-> c, rating |-> r] :
                                 r \in ConfigRating_RateModelConfig(with, c)} :
                                 c \in Loaded(order.disk, name)}
       IN rated' = IF ratings = {} THEN rated ELSE Append(rated, The(ratings))
    /\ UNCHANGED <<orders, order, doing, outcome, with, groups>>

\* The bubble sorts, which leave equal ones in their order.
SortedBy(all, InOrder(_, _)) ==
    FoldLeft(LAMBDA done, x :
                LET n == Cardinality({i \in DOMAIN done : InOrder(done[i], x)})
                IN SubSeq(done, 1, n) \o <<x>> \o SubSeq(done, n + 1, Len(done)),
             <<>>, all)

ByPriority(x, y) == x.rating.priority <= y.rating.priority
ByScore(x, y) == x.rating.points * y.rating.uses <= y.rating.points * x.rating.uses
SameScore(x, y) == ByScore(x, y) /\ ByScore(y, x)

InPrintedOrder(all) == SortedBy(SortedBy(all, ByPriority), ByScore)

\* RateConfig_GroupRatingsBySimilarConfig: the first group, by its first member, that
\* a rating can join; a comparison on the way may crash.
Grouped(all) ==
    LET Place(done, x) ==
            LET Verdict(g) == ModelConfig_IsSimilar(done.groups[g][1].config, x.config)
                hits == {g \in DOMAIN done.groups :
                            Verdict(g) = "yes" /\ SameScore(done.groups[g][1], x)}
                tried == IF hits = {} THEN DOMAIN done.groups ELSE 1..Min(hits)
            IN IF done.crash \/ \E g \in tried : Verdict(g) = "crash"
               THEN [done EXCEPT !.crash = TRUE]
               ELSE [done EXCEPT !.groups = IF hits = {} THEN Append(@, <<x>>)
                                            ELSE [@ EXCEPT ![Min(hits)] = Append(@, x)]]
    IN FoldLeft(Place, [groups |-> <<>>, crash |-> FALSE], all)

\* A single file is listed whatever its score; --min-score, --fan-count and --bad.
Listed(group) ==
    LET first == group[1]
    IN order.actions = <<"file">> \/
       /\ first.rating.points >= order.minScore * first.rating.uses
       /\ order.bad = first.rating.bad

HasFanCount(group) == order.fanCount \in {0, Len(group[1].config.FanConfigurations)}

PrintResults ==
    /\ doing = "rating" /\ list = <<>>
    /\ LET sorted == Grouped(InPrintedOrder(rated))
           shown == SelectSeq(sorted.groups, LAMBDA g : Listed(g) /\ HasFanCount(g))
       IN IF rated = <<>> THEN Exit(1) /\ UNCHANGED groups
          ELSE IF sorted.crash THEN doing' = "crashed" /\ UNCHANGED <<outcome, groups>>
          ELSE /\ groups' = [g \in DOMAIN shown |->
                                [files |-> [i \in DOMAIN shown[g] |-> shown[g][i].file],
                                 rating |-> shown[g][Len(shown[g])].rating]]
               /\ Exit(0)
    /\ UNCHANGED <<orders, order, with, list, rated>>

Next == RateNothing \/ PrintOnly \/ BeginRating \/ RateFile \/ PrintResults

\* The names in the order they are printed.
PrintedNames == FoldLeft(LAMBDA some, g : some \o g.files, <<>>, groups)

---------------------------------------------------------------------------
\* The registers that a configuration names when it is used, in whatever order, and what
\* for.  Of one that is read or written as a word it names the first byte.
Elements(s) == {s[i] : i \in DOMAIN s}

NamedRegisters(c) ==
    LET Of(object, field, type) == {<<object[k], type>> : k \in {field} \cap DOMAIN object}
        Lua(object, fields, most, Type(_)) ==
            UNION {{<<call.register, Type(call.name)>> :
                       call \in {x \in Elements(Calls(object[k])) :
                                     x.from <= most /\ x.name \in {"ec_read", "ec_read_word", "ec_write", "ec_write_word"}}} :
                   k \in fields \cap DOMAIN object}
        Fan(name) == IF name \in {"ec_read", "ec_read_word"} THEN "fanRead" ELSE "fanWrite"
        Write(name) == "write"
        OfFan(f) == Of(f, "ReadRegister", "fanRead") \cup Of(f, "WriteRegister", "fanWrite")
                    \cup Lua(f, {"ReadLuaCode", "ResetLuaCode"}, 0, Fan)
                    \cup Lua(f, {"WriteLuaCode"}, Max({f.MinSpeedValue, f.MaxSpeedValue}), Fan)
        OfWrite(r) == Of(r, "Register", "write") \cup Lua(r, {"LuaCode", "ResetLuaCode"}, 0, Write)
    IN UNION {OfFan(f) : f \in Elements(c.FanConfigurations)}
       \cup UNION {OfWrite(r) : r \in Elements(c.RegisterWriteConfigurations)}

\* The objects of a configuration, and where they have one of some fields.
Objects(c) == c.FanConfigurations \o c.RegisterWriteConfigurations
Having(c, fields) == {at \in (DOMAIN Objects(c)) \X fields : Has(Objects(c)[at[1]], {at[2]})}

MethodUses(c) == Having(c, {"ReadAcpiMethod", "WriteAcpiMethod", "AcpiMethod", "ResetAcpiMethod"})
Called(c) == UNION {Elements(Calls(Objects(c)[at[1]][at[2]])) :
                       at \in Having(c, {"ReadLuaCode", "WriteLuaCode", "LuaCode", "ResetLuaCode"})}
Methods(c) == {Objects(c)[at[1]][at[2]] : at \in MethodUses(c)}
              \cup {call.method : call \in {x \in Called(c) : x.name \in {"acpi_call", "acpi_call_raw"}}}

\* No more is used than there is room for, and no program leaves the controller.
UsesOf(c) == Cardinality(NamedRegisters(c)) + Cardinality(MethodUses(c)) + Cardinality(Methods(c))
Moderate(c) ==
    /\ Cardinality(NamedRegisters(c)) <= MaxRegisters
    /\ Cardinality(MethodUses(c)) + Cardinality(Methods(c)) <= MaxMethods
    /\ \A call \in Called(c) : call.register < 2^Bits - 1 /\ call.value < 2^Bits

\* A reset that is not required, is done by a method or a program and names none: two
\* such files cannot be compared, which ends the program (model_config_utils.c:98-104).
Incomparable(c) ==
    \E r \in Elements(c.RegisterWriteConfigurations) :
        /\ ~r.ResetRequired
        /\ \/ r.ResetWriteMode = "Call" /\ ~Has(r, {"ResetAcpiMethod"})
           \/ r.ResetWriteMode = "Lua" /\ ~Has(r, {"ResetLuaCode"})

\* By default nothing is listed that names a field of the controller with a bad name,
\* unless the rules name it, that calls a method the firmware does not have, or that was
\* made for another firmware.  Of what uses fewer than ten registers and methods each fan
\* register has at least a minimal match (cmd_rate_config.c:227; where ten others match
\* in full, the average makes up for one that has none).  What fits in everything is
\* listed, and after all the rest, whatever files beside it are broken or fail, however
\* the command ends; only one that is incomparable can hide it.  The rating looks at the
\* field that begins in a register; nothing is said of the second byte of a word, which
\* may well be a bad one.
RatingsAreSound ==
    RateIsOver /\ order.actions \in {<<"all">>, <<"input">>} /\ ~CannotRate(order)
    /\ order.minScore = 9 /\ order.fanCount = 0 /\ ~order.bad
    => LET rules == with.rules
           asked == IF order.actions = <<"input">> THEN Elements(order.files)
                    ELSE {place[2] : place \in {p \in DOMAIN order.disk : p[1] # ""}}
           Loads(name) == Loaded(order.disk, name) # Failed
           Config(name) == The(Loaded(order.disk, name))
           At(r) == ConfigRating_FindEcRegister(with, r)
           Basename(f) == AcpiAnalysis_RegisterBasename(f.name)
           RulesOf(f) == {rule \in Elements(rules.FanRegisterFullMatch) : Basename(f) = rule.Name}
           Allows(rule, type) == (IF type = "fanRead" THEN "read" ELSE "write") \in rule.Mode
           Bad(name) == \/ First(name) = "B" \/ name \in Elements(rules.BadRegisterFullMatch)
                        \/ \E part \in Elements(rules.BadRegisterPartialMatch) : HasPart(name, part)
           Exists(method) == \E m \in Elements(with.firmware.methods) : AcpiAnalysis_PathEquals(m, method)
           Fits(c) == /\ \A m \in Methods(c) : Exists(m)
                      /\ Elements(Fingerprints(c)) \subseteq with.firmware.fingerprints
           Safe(c) == /\ Fits(c)
                      /\ \A t \in NamedRegisters(c) : \A f \in At(t[1]) :
                             Bad(Basename(f)) => IF IsFan(t[2]) THEN RulesOf(f) # {}
                                               ELSE Basename(f) \in Elements(rules.RegisterWriteFullMatch)
           Minimal(r, type) == \E f \in At(r) :
                                   IF RulesOf(f) # {} THEN \E rule \in RulesOf(f) : Allows(rule, type)
                                   ELSE \/ First(Basename(f)) = "F"
                                        \/ \E part \in Elements(rules.FanRegisterPartialMatch) : HasPart(Basename(f), part)
           Best(r, type) == \E f \in At(r) :
                                IF IsFan(type)
                                THEN /\ f.bit = 0 /\ f.length \in {Bits, 2 * Bits}
                                     /\ \E rule \in RulesOf(f) : Allows(rule, type)
                                ELSE Basename(f) \in Elements(rules.RegisterWriteFullMatch)
           Perfect(c) == Fits(c) /\ \A t \in NamedRegisters(c) : Best(t[1], t[2])
           Works(name) == Loads(name) /\ Moderate(Config(name))
           hidden == doing = "crashed" /\ \E name \in asked : Loads(name) /\ Incomparable(Config(name))
           printed == PrintedNames
       IN /\ \A k \in DOMAIN printed :
                 LET c == Config(printed[k])
                 IN /\ Safe(c)
                    /\ UsesOf(c) < 10 => \A t \in NamedRegisters(c) : IsFan(t[2]) => Minimal(t[1], t[2])
          /\ ~hidden => \A name \in asked : Works(name) /\ Perfect(Config(name)) => name \in Elements(printed)
          /\ \A k, l \in DOMAIN printed : k < l /\ Perfect(Config(printed[k])) => Perfect(Config(printed[l]))
================================================================================
