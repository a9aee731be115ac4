---------------------------- MODULE Sensors_proofs ----------------------------
(***************************************************************************)
(* What holds of the temperature sources and of the filters of Sensors.tla *)
(* for every number of fans, every set of chips, every configuration and   *)
(* every poll interval: that no reference is beyond the sources there are, *)
(* that the functions of libnvidia-ml are not called unless it is open,    *)
(* that a fan's temperature is the average of the last time span, and that *)
(* it is made of the sources the configuration names.                      *)
(***************************************************************************)
EXTENDS Sensors, FiniteLemmas

--------------------------------------------------------------------------------
(* What the loops that make lists give: Matching and FlattenSeq.  There is no  *)
(* theorem for the induction: the function exists because there is no least n *)
(* for which it does not.                                                     *)

LEMMA SeqOfMore ==
    ASSUME NEW A, NEW B, A \subseteq B, NEW s \in Seq(A)
    PROVE  s \in Seq(B)
OBVIOUS

Collects(sensor, n, upTo) ==
    upTo = [m \in 0..n |-> IF m = 0 THEN <<>>
                           ELSE IF Matches(sensor, sources[m]) THEN Append(upTo[m - 1], m)
                           ELSE upTo[m - 1]]

LEMMA CollectsExists ==
    ASSUME NEW sensor, NEW n \in Nat
    PROVE  \E upTo : Collects(sensor, n, upTo)
<1>. DEFINE Bad == {m \in Nat : ~ \E upTo : Collects(sensor, m, upTo)}
<1>1. SUFFICES ASSUME Bad # {} PROVE FALSE
  OBVIOUS
<1>2. PICK m \in Bad : \A l \in Bad : m <= l
  <2>1. Bad \subseteq Nat
    OBVIOUS
  <2>. HIDE DEF Bad
  <2>. QED BY <1>1, <2>1, LeastElement
<1>3. m \in Nat /\ ~ \E upTo : Collects(sensor, m, upTo)
  OBVIOUS
<1>4. ASSUME m = 0 PROVE FALSE
  <2>. DEFINE none == [l \in 0..0 |-> <<>>]
  <2>1. Collects(sensor, 0, none)
    BY DEF Collects
  <2>. QED BY <1>3, <1>4, <2>1
<1>5. m - 1 \in Nat
  BY <1>3, <1>4
<1>6. PICK before : Collects(sensor, m - 1, before)
  BY <1>2, <1>5
<1>. DEFINE Next1(g) == IF Matches(sensor, sources[m]) THEN Append(g[m - 1], m) ELSE g[m - 1]
            all == [l \in 0..m |-> IF l = m THEN Next1(before) ELSE before[l]]
<1>7. ASSUME NEW l \in 0..m
      PROVE  all[l] = IF l = 0 THEN <<>>
                      ELSE IF Matches(sensor, sources[l]) THEN Append(all[l - 1], l)
                      ELSE all[l - 1]
  <2>1. CASE l = m
    <3>1. all[m] = Next1(before) /\ all[m - 1] = before[m - 1] /\ m # 0
      BY <1>3, <1>5
    <3>. HIDE DEF all
    <3>. QED BY <2>1, <3>1
  <2>2. CASE l # m
    <3>1. l \in 0..(m - 1)
      BY <1>3, <2>2
    <3>2. before[l] = IF l = 0 THEN <<>>
                      ELSE IF Matches(sensor, sources[l]) THEN Append(before[l - 1], l)
                      ELSE before[l - 1]
      BY <1>6, <3>1 DEF Collects
    <3>3. all[l] = before[l] /\ (l # 0 => all[l - 1] = before[l - 1])
      BY <1>3, <2>2, <3>1
    <3>. HIDE DEF all
    <3>. QED BY <3>2, <3>3
  <2>. QED BY <2>1, <2>2
<1>8. Collects(sensor, m, all)
  <2>1. all = [l \in 0..m |-> all[l]]
    OBVIOUS
  <2>. HIDE DEF all
  <2>. QED BY <1>7, <2>1 DEF Collects
<1>. QED BY <1>3, <1>8

\* FS_TemperatureSources_AddTemperatureSources refers to the sources a sensor
\* designates, all of them and no others.
LEMMA MatchingIs ==
    ASSUME NEW sensor, Len(sources) \in Nat
    PROVE  /\ Matching(sensor) \in Seq(1..Len(sources))
           /\ {Matching(sensor)[k] : k \in 1..Len(Matching(sensor))}
                = {i \in 1..Len(sources) : Matches(sensor, sources[i])}
<1>. DEFINE n == Len(sources)
            upTo == CHOOSE g : Collects(sensor, n, g)
            Found(m) == {i \in 1..m : Matches(sensor, sources[i])}
            Right(m) == /\ upTo[m] \in Seq(1..m)
                        /\ {upTo[m][k] : k \in 1..Len(upTo[m])} = Found(m)
            Bad == {m \in 0..n : ~ Right(m)}
<1>1. Matching(sensor) = upTo[n]
  BY DEF Matching, Collects
<1>2. Collects(sensor, n, upTo)
  BY CollectsExists
<1>. HIDE DEF upTo
<1>3. ASSUME Bad # {} PROVE FALSE
  <2>1. PICK m \in Bad : \A l \in Bad : m <= l
    <3>1. Bad \subseteq Nat
      OBVIOUS
    <3>. HIDE DEF Bad
    <3>. QED BY <1>3, <3>1, LeastElement
  <2>2. m \in 0..n /\ ~ Right(m)
    OBVIOUS
  <2>3. upTo[m] = IF m = 0 THEN <<>>
                  ELSE IF Matches(sensor, sources[m]) THEN Append(upTo[m - 1], m)
                  ELSE upTo[m - 1]
    BY <1>2, <2>2 DEF Collects
  <2>4. m # 0
    <3>1. ASSUME m = 0 PROVE Right(m)
      <4>1. upTo[m] = <<>> /\ Found(m) = {}
        BY <2>3, <3>1
      <4>. QED BY <4>1
    <3>. QED BY <2>2, <3>1
  <2>5. Right(m - 1) /\ m - 1 \in Nat /\ m \in 1..m
    BY <2>1, <2>2, <2>4
  <2>. DEFINE s == upTo[m - 1]
  <2>6. s \in Seq(1..m) /\ {s[k] : k \in 1..Len(s)} = Found(m - 1)
    <3>1. s \in Seq(1..(m - 1)) /\ 1..(m - 1) \subseteq 1..m
      BY <2>5
    <3>2. s \in Seq(1..m)
      BY <3>1, SeqOfMore
    <3>. QED BY <2>5, <3>2
  <2>7. Found(m) = IF Matches(sensor, sources[m]) THEN Found(m - 1) \cup {m} ELSE Found(m - 1)
    BY <2>2, <2>4
  <2>. HIDE DEF Found, s
  <2>8. CASE Matches(sensor, sources[m])
    <3>1. upTo[m] = Append(s, m)
      BY <2>3, <2>4, <2>8 DEF s
    <3>2. /\ Append(s, m) \in Seq(1..m)
          /\ Len(Append(s, m)) = Len(s) + 1 /\ Len(s) \in Nat
          /\ Append(s, m)[Len(s) + 1] = m
          /\ \A k \in 1..Len(s) : Append(s, m)[k] = s[k]
      BY <2>5, <2>6
    <3>3. {Append(s, m)[k] : k \in 1..(Len(s) + 1)} = {s[k] : k \in 1..Len(s)} \cup {m}
      BY <3>2
    <3>4. Right(m)
      BY <2>6, <2>7, <2>8, <3>1, <3>2, <3>3
    <3>. QED BY <2>2, <3>4
  <2>9. CASE ~ Matches(sensor, sources[m])
    <3>1. upTo[m] = s
      BY <2>3, <2>4, <2>9 DEF s
    <3>2. Right(m)
      BY <2>6, <2>7, <2>9, <3>1
    <3>. QED BY <2>2, <3>2
  <2>. QED BY <2>8, <2>9
<1>4. Right(n)
  BY <1>3
<1>. QED BY <1>1, <1>4

\* What FlattenSeq computes of the first n lists.
Flattens(ss, n, g) ==
    g = [i \in 1..n |-> IF i = 1 THEN ss[i] ELSE g[i - 1] \o ss[i]]

LEMMA FlattensExists ==
    ASSUME NEW ss, NEW n \in Nat
    PROVE  \E g : Flattens(ss, n, g)
<1>. DEFINE Bad == {m \in Nat : ~ \E g : Flattens(ss, m, g)}
<1>1. SUFFICES ASSUME Bad # {} PROVE FALSE
  OBVIOUS
<1>2. PICK m \in Bad : \A l \in Bad : m <= l
  <2>1. Bad \subseteq Nat
    OBVIOUS
  <2>. HIDE DEF Bad
  <2>. QED BY <1>1, <2>1, LeastElement
<1>3. m \in Nat /\ ~ \E g : Flattens(ss, m, g)
  OBVIOUS
<1>4. ASSUME m = 0 PROVE FALSE
  <2>. DEFINE none == [l \in 1..0 |-> <<>>]
  <2>1. Flattens(ss, 0, none)
    BY DEF Flattens
  <2>. QED BY <1>3, <1>4, <2>1
<1>5. m - 1 \in Nat
  BY <1>3, <1>4
<1>6. PICK before : Flattens(ss, m - 1, before)
  BY <1>2, <1>5
<1>. DEFINE last(g) == IF m = 1 THEN ss[m] ELSE g[m - 1] \o ss[m]
            all == [l \in 1..m |-> IF l = m THEN last(before) ELSE before[l]]
<1>7. ASSUME NEW l \in 1..m
      PROVE  all[l] = IF l = 1 THEN ss[l] ELSE all[l - 1] \o ss[l]
  <2>1. CASE l = m
    <3>1. all[m] = last(before) /\ (m # 1 => all[m - 1] = before[m - 1])
      BY <1>3, <1>5
    <3>. HIDE DEF all
    <3>. QED BY <2>1, <3>1
  <2>2. CASE l # m
    <3>1. l \in 1..(m - 1)
      BY <1>3, <2>2
    <3>2. before[l] = IF l = 1 THEN ss[l] ELSE before[l - 1] \o ss[l]
      BY <1>6, <3>1 DEF Flattens
    <3>3. all[l] = before[l] /\ (l # 1 => all[l - 1] = before[l - 1])
      BY <1>3, <2>2, <3>1
    <3>. HIDE DEF all
    <3>. QED BY <3>2, <3>3
  <2>. QED BY <2>1, <2>2
<1>8. Flattens(ss, m, all)
  <2>1. all = [l \in 1..m |-> all[l]]
    OBVIOUS
  <2>. HIDE DEF all
  <2>. QED BY <1>7, <2>1 DEF Flattens
<1>. QED BY <1>3, <1>8

\* The lists one after the other: by the list before the last.
LEMMA FlattenSeqIs ==
    ASSUME NEW ss, Len(ss) \in Nat \ {0}
    PROVE  \E g : /\ FlattenSeq(ss) = g[Len(ss)]
                  /\ g[1] = ss[1]
                  /\ \A i \in 2..Len(ss) : g[i] = g[i - 1] \o ss[i]
<1>. DEFINE n == Len(ss)
            g == CHOOSE h : Flattens(ss, n, h)
<1>1. FlattenSeq(ss) = g[n]
  BY DEF FlattenSeq, Flattens
<1>2. Flattens(ss, n, g)
  BY FlattensExists
<1>. HIDE DEF g
<1>3. n \in Nat \ {0}
  OBVIOUS
<1>. HIDE DEF n
<1>4. ASSUME NEW i \in 1..n
      PROVE  g[i] = IF i = 1 THEN ss[i] ELSE g[i - 1] \o ss[i]
  BY <1>2 DEF Flattens
<1>5. g[1] = ss[1]
  BY <1>3, <1>4
<1>6. ASSUME NEW i \in 2..n PROVE g[i] = g[i - 1] \o ss[i]
  <2>1. i \in 1..n /\ i # 1
    BY <1>3
  <2>. QED BY <1>4, <2>1
<1>. QED BY <1>1, <1>5, <1>6 DEF n

LEMMA FlattenSeqType ==
    ASSUME NEW S, NEW ss \in Seq(Seq(S))
    PROVE  FlattenSeq(ss) \in Seq(S)
<1>1. CASE Len(ss) = 0
  BY <1>1 DEF FlattenSeq
<1>2. CASE Len(ss) # 0
  <2>. DEFINE n == Len(ss)
  <2>1. n \in Nat \ {0} /\ \A i \in 1..n : ss[i] \in Seq(S)
    BY <1>2
  <2>2. PICK g : /\ FlattenSeq(ss) = g[n]
                 /\ g[1] = ss[1]
                 /\ \A i \in 2..n : g[i] = g[i - 1] \o ss[i]
    BY <2>1, FlattenSeqIs
  <2>. DEFINE Bad == {i \in 1..n : g[i] \notin Seq(S)}
  <2>3. ASSUME Bad # {} PROVE FALSE
    <3>1. PICK m \in Bad : \A l \in Bad : m <= l
      <4>1. Bad \subseteq Nat
        OBVIOUS
      <4>. HIDE DEF Bad
      <4>. QED BY <2>3, <4>1, LeastElement
    <3>2. m \in 1..n /\ g[m] \notin Seq(S)
      OBVIOUS
    <3>3. CASE m = 1
      BY <2>1, <2>2, <3>2, <3>3
    <3>4. CASE m # 1
      <4>1. m - 1 \in 1..n /\ m \in 2..n
        BY <3>2, <3>4
      <4>2. g[m - 1] \in Seq(S) /\ g[m] = g[m - 1] \o ss[m]
        <5>1. m - 1 \notin Bad
          <6>1. ~ (m <= m - 1)
            BY <3>2
          <6>. HIDE DEF Bad
          <6>. QED BY <3>1, <6>1
        <5>. QED BY <2>2, <4>1, <5>1
      <4>. QED BY <2>1, <3>2, <4>2
    <3>. QED BY <3>3, <3>4
  <2>. QED BY <2>1, <2>2, <2>3
<1>. QED BY <1>1, <1>2

--------------------------------------------------------------------------------
(* The inductive invariants *)

\* An order to FanTemperatureControls_Init.
Order == [do : {"default", "clear"}, fan : Fans]
         \cup [do : {"add"}, fan : Fans, sensor : STRING]
         \cup [do : {"algorithm"}, fan : Fans, algorithm : Algorithms]
         \cup [do : {"invalid"}, fan : Nat]

Source == Chips \cup {NvidiaSource} \cup {UserSource(file) : file \in UserFiles}

\* What is known of a fan's sources: before they are selected there are none, and
\* no reference is beyond the end of FS_Sensors_Sources.
ControlsInv ==
    /\ sources \in Seq(Source)
    /\ todo \in Seq(Order)
    /\ algorithm \in [Fans -> Algorithms]
    /\ refs \in [Fans -> Seq(1..Len(sources))]
    /\ phase \in {"hwmon", "gpu", "nvidia", "found"} => \A f \in Fans : refs[f] = <<>>

\* The library is loaded only before there are sources and in the daemon.
NvidiaInv ==
    /\ symbols \subseteq Symbols
    /\ phase \in {"hwmon", "gpu", "nvidia", "forking"} => "GetTemperature" \notin symbols
    /\ NvidiaIsOpenWhenAsked

\* The place in the ring of the j-th oldest reading, if there is one for every place.
Place(i, j) == IF i + j - 1 < size THEN i + j - 1 ELSE i + j - 1 - size

\* The ring holds the readings of the time span, the oldest where the next one goes;
\* as long as it is not full, they start at 0 and zeros follow.
Holds(fl, past) ==
    /\ fl \in TemperatureFilterState
    /\ past \in Seq(Int) /\ Len(past) <= size
    /\ fl.full <=> Len(past) = size
    /\ fl.sum = SumFunction(past)
    /\ ~ fl.full =>
          /\ fl.index = Len(past)
          /\ \A i \in 0..(size - 1) : fl.ring[i] = IF i < Len(past) THEN past[i + 1] ELSE 0
    /\ fl.full => \A j \in 1..size : fl.ring[Place(fl.index, j)] = past[j]

FiltersInv ==
    /\ DOMAIN filter = Fans /\ DOMAIN recent = Fans
    /\ \A f \in Fans : Holds(filter[f], recent[f])

--------------------------------------------------------------------------------
(* The orders *)

\* An entry of a configuration is made into well-formed orders.
LEMMA EntryOrders ==
    ASSUME NEW f \in Fans, NEW entry \in ConfigEntry
    PROVE  AlgorithmOf(f, entry) \o SensorsOf(f, entry) \in Seq(Order)
<1>1. AlgorithmOf(f, entry) \in Seq(Order)
  <2>1. CASE entry.algorithm = "unset"
    BY <2>1 DEF AlgorithmOf
  <2>2. CASE entry.algorithm # "unset"
    <3>1. entry.algorithm \in Algorithms
      BY <2>2 DEF ConfigEntry
    <3>. DEFINE o == [do |-> "algorithm", fan |-> f, algorithm |-> entry.algorithm]
    <3>2. o \in Order
      BY <3>1 DEF Order
    <3>3. AlgorithmOf(f, entry) = <<o>>
      BY <2>2 DEF AlgorithmOf
    <3>. HIDE DEF o
    <3>. QED BY <3>2, <3>3
  <2>. QED BY <2>1, <2>2
<1>2. SensorsOf(f, entry) \in Seq(Order)
  <2>1. CASE entry.sensors = <<>>
    BY <2>1 DEF SensorsOf
  <2>2. CASE entry.sensors # <<>>
    <3>. DEFINE n == Len(entry.sensors)
                adds == [i \in 1..n |-> AddTo(f, entry.sensors[i])]
    <3>1. n \in Nat /\ \A i \in 1..n : entry.sensors[i] \in STRING
      BY DEF ConfigEntry
    <3>2. ClearOf(f) \in Order
      BY DEF ClearOf, Order
    <3>3. ASSUME NEW i \in 1..n PROVE AddTo(f, entry.sensors[i]) \in Order
      BY <3>1 DEF AddTo, Order
    <3>4. SensorsOf(f, entry) = <<ClearOf(f)>> \o adds
      BY <2>2 DEF SensorsOf
    <3>. HIDE DEF n
    <3>5. adds \in Seq(Order)
      BY <3>1, <3>3
    <3>6. <<ClearOf(f)>> \in Seq(Order)
      BY <3>2
    <3>. QED BY <3>4, <3>5, <3>6
  <2>. QED BY <2>1, <2>2
<1>. QED BY <1>1, <1>2

\* FanTemperatureControls_Init has a well-formed order for everything it does.
LEMMA InitOrders ==
    ASSUME NEW c \in Configs
    PROVE  FanTemperatureControls_Init(c) \in Seq(Order)
<1>. DEFINE each(f) == AlgorithmOf(f, c.model[f]) \o SensorsOf(f, c.model[f])
            user(i) == IF c.service[i].fan \notin Fans
                       THEN <<[do |-> "invalid", fan |-> c.service[i].fan]>>
                       ELSE AlgorithmOf(c.service[i].fan, c.service[i])
                              \o SensorsOf(c.service[i].fan, c.service[i])
            n == Len(c.service)
<1>1. Fans = 1..NumFans /\ NumFans \in Nat
  BY SensorsAssumption DEF Fans
<1>2. c.model \in [Fans -> ConfigEntry] /\ c.service \in Seq(ConfigEntry)
  BY SensorsAssumption
<1>3. SetDefaults \in Seq(Order)
  <2>1. \A f \in Fans : [do |-> "default", fan |-> f] \in Order
    BY DEF Order
  <2>. HIDE DEF Order
  <2>. QED BY <1>1, <2>1 DEF SetDefaults
<1>4. SetByModelConfig(c.model) \in Seq(Order)
  <2>1. ASSUME NEW f \in Fans PROVE each(f) \in Seq(Order)
    <3>1. c.model[f] \in ConfigEntry
      BY <1>2
    <3>. QED BY <3>1, EntryOrders
  <2>. HIDE DEF each
  <2>2. [f \in Fans |-> each(f)] \in Seq(Seq(Order))
    BY <1>1, <2>1
  <2>3. FlattenSeq([f \in Fans |-> each(f)]) \in Seq(Order)
    BY <2>2, FlattenSeqType
  <2>. QED BY <2>3 DEF SetByModelConfig, each
<1>5. SetByServiceConfig(c.service) \in Seq(Order)
  <2>1. ASSUME NEW i \in 1..n PROVE user(i) \in Seq(Order)
    <3>1. c.service[i] \in ConfigEntry
      BY <1>2
    <3>2. CASE c.service[i].fan \notin Fans
      <4>. DEFINE o == [do |-> "invalid", fan |-> c.service[i].fan]
      <4>1. o \in Order
        BY <3>1 DEF Order, ConfigEntry
      <4>2. user(i) = <<o>>
        BY <3>2
      <4>. HIDE DEF o, user
      <4>. QED BY <4>1, <4>2
    <3>3. CASE c.service[i].fan \in Fans
      BY <3>1, <3>3, EntryOrders
    <3>. QED BY <3>2, <3>3
  <2>. HIDE DEF user
  <2>2. n \in Nat
    BY <1>2
  <2>. HIDE DEF n
  <2>3. [i \in 1..n |-> user(i)] \in Seq(Seq(Order))
    BY <2>1, <2>2
  <2>4. FlattenSeq([i \in 1..n |-> user(i)]) \in Seq(Order)
    BY <2>3, FlattenSeqType
  <2>. QED BY <2>4 DEF SetByServiceConfig, user, n
<1>. QED BY <1>3, <1>4, <1>5 DEF FanTemperatureControls_Init

--------------------------------------------------------------------------------
(* References are to sources *)

LEMMA ControlsInit == Init => ControlsInv
<1>. SUFFICES ASSUME Init PROVE ControlsInv
  OBVIOUS
<1>1. todo \in Seq(Order)
  BY InitOrders DEF Init
<1>2. sources = <<>> /\ refs = [f \in Fans |-> <<>>] /\ algorithm = [f \in Fans |-> "Average"]
  BY DEF Init
<1>3. algorithm \in [Fans -> Algorithms]
  BY <1>2 DEF Algorithms
<1>4. refs \in [Fans -> Seq(1..Len(sources))]
  BY <1>2
<1>. QED BY <1>1, <1>2, <1>3, <1>4 DEF ControlsInv

\* A reference to a source stays one when sources are added after it.
LEMMA RefsGrow ==
    ASSUME ControlsInv, NEW s \in Seq(Source), Len(sources) <= Len(s)
    PROVE  refs \in [Fans -> Seq(1..Len(s))]
<1>1. 1..Len(sources) \subseteq 1..Len(s)
  BY DEF ControlsInv
<1>2. ASSUME NEW f \in Fans PROVE refs[f] \in Seq(1..Len(s))
  <2>1. refs[f] \in Seq(1..Len(sources))
    BY DEF ControlsInv
  <2>. QED BY <1>1, <2>1, SeqOfMore
<1>. QED BY <1>2 DEF ControlsInv

\* The discovery finds sources before there are references to them.
LEMMA DiscoveryControls ==
    ASSUME ControlsInv, FS_Sensors_Init PROVE ControlsInv'
<1>1. CASE HwMonFound
  <2>1. PICK found \in SUBSET Chips : sources' \in SetToAllKPermutations(found)
    BY <1>1 DEF HwMonFound
  <2>2. PICK s \in SUBSET found : sources' \in SetToSeqs(s)
    BY <2>1 DEF SetToAllKPermutations
  <2>3. IsFiniteSet(s)
    <3>1. s \subseteq Chips
      BY <2>2
    <3>. QED BY <3>1, FS_Subset, SensorsAssumption
  <2>4. Cardinality(s) \in Nat
    BY <2>3, FS_CardinalityType
  <2>5. sources' \in [1..Cardinality(s) -> s] /\ s \subseteq Source
    BY <2>2 DEF SetToSeqs, Source
  <2>6. sources' \in Seq(Source)
    BY <2>4, <2>5
  <2>7. \A f \in Fans : refs'[f] = <<>>
    BY <1>1 DEF HwMonFound, ControlsInv, controls
  <2>8. refs' \in [Fans -> Seq(1..Len(sources'))]
    BY <1>1, <2>7 DEF HwMonFound, ControlsInv, controls
  <2>. QED BY <1>1, <2>6, <2>7, <2>8 DEF HwMonFound, ControlsInv, controls
<1>2. CASE NvidiaFound
  <2>1. sources' \in Seq(Source) /\ Len(sources) <= Len(sources')
    <3>1. NvidiaSource \in Source /\ sources' = Append(sources, NvidiaSource)
      BY <1>2 DEF NvidiaFound, Source
    <3>. QED BY <3>1 DEF ControlsInv
  <2>2. refs \in [Fans -> Seq(1..Len(sources'))]
    BY <2>1, RefsGrow
  <2>. QED BY <1>2, <2>1, <2>2 DEF NvidiaFound, ControlsInv, controls
<1>3. CASE HwMonMissing \/ HwMonGivenUp \/ CheckVFIO \/ NvidiaNotReady \/ NvidiaMissing
  BY <1>3 DEF HwMonMissing, HwMonGivenUp, CheckVFIO, NvidiaNotReady, NvidiaMissing,
              ControlsInv, controls
<1>4. CASE SensorsInitialized
  BY <1>4 DEF SensorsInitialized, ControlsInv, controls
<1>. QED BY <1>1, <1>2, <1>3, <1>4 DEF FS_Sensors_Init

\* An order is one of those listed, and what comes after it is as well-formed.
LEMMA NextOrder ==
    ASSUME ControlsInv, todo # <<>>
    PROVE  /\ Head(todo) \in Order
           /\ Tail(todo) \in Seq(Order)
BY DEF ControlsInv

\* The references of a fan after those it has.
LEMMA ReferKeeps ==
    ASSUME ControlsInv, NEW s \in Seq(Source), Len(sources) <= Len(s),
           NEW f \in Fans, NEW indexes \in Seq(1..Len(s)), Refer(f, indexes)
    PROVE  refs' \in [Fans -> Seq(1..Len(s))]
<1>1. refs \in [Fans -> Seq(1..Len(s))]
  BY RefsGrow
<1>2. refs[f] \o indexes \in Seq(1..Len(s))
  BY <1>1
<1>. QED BY <1>1, <1>2 DEF Refer

\* The selection refers to sources there are.
LEMMA SelectionControls ==
    ASSUME ControlsInv, Select PROVE ControlsInv'
<1>0. Len(sources) \in Nat /\ sources \in Seq(Source)
  BY DEF ControlsInv
<1>1. CASE SetDefault
  <2>1. phase = "select" /\ todo # <<>> /\ Head(todo).do = "default"
    BY <1>1 DEF SetDefault, Selecting
  <2>. DEFINE f == Head(todo).fan
  <2>2. f \in Fans /\ todo' \in Seq(Order)
    BY <1>1, <2>1, NextOrder DEF Order, SetDefault, Done
  <2>3. /\ algorithm' = [algorithm EXCEPT ![f] = "Average"]
        /\ Refer(f, Matching("@CPU")) /\ phase' = "select" /\ sources' = sources
    BY <1>1, <2>1 DEF SetDefault, Done
  <2>. HIDE DEF f
  <2>. DEFINE indexes == Matching("@CPU")
  <2>4. indexes \in Seq(1..Len(sources)) /\ Refer(f, indexes)
    BY <1>0, <2>3, MatchingIs
  <2>. HIDE DEF indexes
  <2>5. refs' \in [Fans -> Seq(1..Len(sources))]
    BY <1>0, <2>2, <2>4, ReferKeeps
  <2>6. algorithm' \in [Fans -> Algorithms]
    BY <2>2, <2>3 DEF ControlsInv, Algorithms
  <2>. QED BY <1>0, <2>2, <2>3, <2>5, <2>6 DEF ControlsInv
<1>2. CASE SetAlgorithm
  <2>1. phase = "select" /\ todo # <<>> /\ Head(todo).do = "algorithm"
    BY <1>2 DEF SetAlgorithm, Selecting
  <2>2. Head(todo).fan \in Fans /\ Head(todo).algorithm \in Algorithms /\ todo' \in Seq(Order)
    BY <1>2, <2>1, NextOrder DEF Order, SetAlgorithm, Done
  <2>3. algorithm' \in [Fans -> Algorithms]
    BY <1>2, <2>2 DEF SetAlgorithm, ControlsInv
  <2>. QED BY <1>2, <2>1, <2>2, <2>3 DEF SetAlgorithm, Done, ControlsInv
<1>3. CASE ClearSources
  <2>1. phase = "select" /\ todo # <<>>
    BY <1>3 DEF ClearSources, Selecting
  <2>2. todo' \in Seq(Order)
    BY <1>3, <2>1, NextOrder DEF ClearSources, Done
  <2>3. <<>> \in Seq(1..Len(sources))
    OBVIOUS
  <2>4. refs' \in [Fans -> Seq(1..Len(sources))]
    BY <1>3, <2>3 DEF ClearSources, ControlsInv
  <2>. QED BY <1>3, <2>1, <2>2, <2>4 DEF ClearSources, Done, ControlsInv
<1>4. CASE AddKnown
  <2>1. phase = "select" /\ todo # <<>> /\ Head(todo).do = "add"
    BY <1>4 DEF AddKnown, Selecting
  <2>2. Head(todo).fan \in Fans /\ todo' \in Seq(Order)
    BY <1>4, <2>1, NextOrder DEF Order, AddKnown, Done
  <2>3. Matching(Head(todo).sensor) \in Seq(1..Len(sources))
    BY <1>0, MatchingIs
  <2>. DEFINE f == Head(todo).fan
              indexes == Matching(Head(todo).sensor)
  <2>4. f \in Fans /\ indexes \in Seq(1..Len(sources)) /\ Refer(f, indexes)
    BY <1>4, <2>2, <2>3 DEF AddKnown
  <2>. HIDE DEF f, indexes
  <2>5. refs' \in [Fans -> Seq(1..Len(sources))]
    BY <1>0, <2>4, ReferKeeps
  <2>. QED BY <1>4, <2>1, <2>2, <2>5 DEF AddKnown, Done, ControlsInv
<1>5. CASE AddUserFile
  <2>1. phase = "select" /\ todo # <<>> /\ Head(todo).do = "add"
    BY <1>5 DEF AddUserFile, Selecting
  <2>2. Head(todo).fan \in Fans /\ todo' \in Seq(Order)
    BY <1>5, <2>1, NextOrder DEF Order, AddUserFile, Done
  <2>. DEFINE new == UserSource(Head(todo).sensor)
  <2>3. new \in Source /\ sources' = Append(sources, new)
    BY <1>5 DEF AddUserFile, Source
  <2>. HIDE DEF new
  <2>4. sources' \in Seq(Source) /\ Len(sources') = Len(sources) + 1
    BY <1>0, <2>3
  <2>5. <<Len(sources) + 1>> \in Seq(1..Len(sources'))
    BY <1>0, <2>4
  <2>. DEFINE f == Head(todo).fan
              indexes == <<Len(sources) + 1>>
  <2>6. f \in Fans /\ indexes \in Seq(1..Len(sources')) /\ Refer(f, indexes)
    BY <1>5, <2>2, <2>5 DEF AddUserFile
  <2>. HIDE DEF f, indexes
  <2>7. Len(sources) <= Len(sources')
    BY <1>0, <2>4
  <2>8. refs' \in [Fans -> Seq(1..Len(sources'))]
    BY <2>4, <2>6, <2>7, ReferKeeps
  <2>. QED BY <1>5, <2>1, <2>2, <2>4, <2>8 DEF AddUserFile, Done, ControlsInv
<1>6. CASE SelectFails
  <2>1. refs' = [f \in Fans |-> <<>>] /\ sources' = <<>>
    BY <1>6 DEF SelectFails, CleanupSensors
  <2>2. refs' \in [Fans -> Seq(1..Len(sources'))]
    BY <2>1
  <2>. QED BY <1>6, <2>1, <2>2 DEF SelectFails, ControlsInv
<1>7. CASE Selected
  BY <1>7 DEF Selected, ControlsInv, controls
<1>. QED BY <1>1, <1>2, <1>3, <1>4, <1>5, <1>6, <1>7 DEF Select

LEMMA ServingControls ==
    ASSUME ControlsInv, Serve PROVE ControlsInv'
<1>1. CASE \E f \in Fans, r \in Readings : FanTemperatureControl_UpdateFanTemperature(f, r)
  BY <1>1 DEF FanTemperatureControl_UpdateFanTemperature, ControlsInv, controls
<1>2. CASE Fork \/ ReinitializeNvidia
  BY <1>2 DEF Fork, ReinitializeNvidia, ControlsInv, controls
<1>3. CASE FS_Sensors_Cleanup
  <2>1. refs' = [f \in Fans |-> <<>>] /\ sources' = <<>>
    BY <1>3 DEF FS_Sensors_Cleanup, CleanupSensors
  <2>2. refs' \in [Fans -> Seq(1..Len(sources'))]
    BY <2>1
  <2>. QED BY <1>3, <2>1, <2>2 DEF FS_Sensors_Cleanup, ControlsInv
<1>. QED BY <1>1, <1>2, <1>3 DEF Serve

\* Across the discovery, the selection with the sources it adds, and both ends of the
\* service, no reference of a fan is beyond the end of FS_Sensors_Sources, and every
\* fan has an algorithm the code knows.
THEOREM ReferencesAreSources == Spec => []ControlsInv
<1>1. ASSUME ControlsInv, [Next]_vars PROVE ControlsInv'
  <2>1. CASE UNCHANGED vars
    BY <1>1, <2>1 DEF vars, controls, ControlsInv
  <2>. QED
    BY <1>1, <2>1, DiscoveryControls, SelectionControls, ServingControls DEF Next
<1>. QED BY <1>1, ControlsInit, PTL DEF Spec

--------------------------------------------------------------------------------
(* libnvidia-ml *)

\* Init loads a function the library lacks no further than the one before it.
LEMMA NvidiaStep ==
    ASSUME NvidiaInv, [Next]_vars PROVE NvidiaInv'
<1>. USE DEF NvidiaInv, NvidiaIsOpenWhenAsked, library
<1>0. ASSUME NEW missing \in Symbols
      PROVE  SymbolsBefore(missing) \subseteq Symbols \ {"GetTemperature"}
  BY DEF SymbolsBefore, Symbols
<1>1. CASE CheckVFIO
  BY <1>1 DEF CheckVFIO
<1>2. CASE NvidiaFound
  BY <1>2 DEF NvidiaFound, Nvidia_OK
<1>3. CASE NvidiaNotReady
  BY <1>3 DEF NvidiaNotReady, Nvidia_Error_API, Symbols
<1>4. CASE NvidiaMissing
  BY <1>0, <1>4 DEF NvidiaMissing, Nvidia_Error_DlOpen
<1>5. CASE HwMonFound \/ HwMonMissing \/ HwMonGivenUp \/ SensorsInitialized
  BY <1>5 DEF HwMonFound, HwMonMissing, HwMonGivenUp, SensorsInitialized
<1>6. CASE Select
  <2>1. CASE SelectFails
    BY <2>1 DEF SelectFails, CleanupSensors, Nvidia_Close, Nvidia_CloseClears
  <2>2. CASE Selected
    BY <2>2 DEF Selected
  <2>3. CASE SetDefault \/ SetAlgorithm \/ ClearSources \/ AddKnown \/ AddUserFile
    BY <2>3 DEF SetDefault, SetAlgorithm, ClearSources, AddKnown, AddUserFile, Done
  <2>. QED BY <1>6, <2>1, <2>2, <2>3 DEF Select
<1>7. CASE \E f \in Fans, r \in Readings : FanTemperatureControl_UpdateFanTemperature(f, r)
  BY <1>7 DEF FanTemperatureControl_UpdateFanTemperature
<1>8. CASE Fork \/ FS_Sensors_Cleanup
  BY <1>8 DEF Fork, FS_Sensors_Cleanup, CleanupSensors, Nvidia_Close, Nvidia_CloseClears
<1>9. CASE ReinitializeNvidia
  BY <1>0, <1>9 DEF ReinitializeNvidia, Nvidia_OK, Nvidia_Error_API, Nvidia_Error_DlOpen, Symbols
<1>10. CASE UNCHANGED vars
  BY <1>10 DEF vars
<1>. QED
  BY <1>1, <1>2, <1>3, <1>4, <1>5, <1>6, <1>7, <1>8, <1>9, <1>10
  DEF Next, FS_Sensors_Init, Serve

\* After any number of failed initialisations, in the daemon after the fork and in
\* every exit, the pointer to nvmlDeviceGetTemperature is set only while the library is
\* loaded and initialised.
THEOREM NvidiaIsOpen == Spec => []NvidiaIsOpenWhenAsked
<1>1. Init => NvidiaInv
  BY DEF Init, NvidiaInv, NvidiaIsOpenWhenAsked, Symbols
<1>2. NvidiaInv => NvidiaIsOpenWhenAsked
  BY DEF NvidiaInv
<1>. QED BY <1>1, <1>2, NvidiaStep, PTL DEF Spec

--------------------------------------------------------------------------------
(* The temperature of the readable sources *)

\* Division by a positive number keeps the order of what it divides.
LEMMA QuotientBetween ==
    ASSUME NEW k \in Nat \ {0}, NEW s \in Int, NEW lo \in Int, NEW hi \in Int,
           lo * k <= s, s <= hi * k
    PROVE  /\ s \div k \in Int
           /\ lo <= s \div k
           /\ s \div k <= hi
<1>. DEFINE q == s \div k
<1>1. q \in Int /\ q * k <= s /\ s < (q + 1) * k
  <2>1. s \div k \in Int
    OBVIOUS
  <2>2. (s \div k) * k <= s
    OBVIOUS
  <2>3. s < ((s \div k) + 1) * k
    OBVIOUS
  <2>. QED BY <2>1, <2>2, <2>3
<1>. HIDE DEF q
<1>2. ASSUME q < lo PROVE FALSE
  <2>1. (q + 1) * k <= lo * k
    BY <1>1, <1>2
  <2>. QED BY <1>1, <2>1
<1>3. ASSUME hi < q PROVE FALSE
  <2>1. (hi + 1) * k <= q * k
    BY <1>1, <1>3
  <2>2. hi * k < (hi + 1) * k
    OBVIOUS
  <2>. QED BY <1>1, <2>1, <2>2
<1>. QED BY <1>1, <1>2, <1>3 DEF q

\* What is known of a fan with a readable source.
LEMMA ReadableIs ==
    ASSUME ControlsInv, NEW f \in Fans, NEW r \in Readings
    PROVE  /\ IsFiniteSet(Readable(f, r))
           /\ \A n \in Readable(f, r) : r[refs[f][n]] \in Int
           /\ IsFiniteSet(Given(f, r)) /\ Given(f, r) \subseteq Int
           /\ Readable(f, r) # {} => Given(f, r) # {}
<1>1. refs[f] \in Seq(1..Len(sources))
  BY DEF ControlsInv
<1>2. r \in [1..Len(sources) -> Temperatures \cup {Unreadable}] /\ Temperatures \subseteq Int
  BY SensorsAssumption DEF Readings
<1>3. IsFiniteSet(Readable(f, r))
  <2>1. IsFiniteSet(1..Len(refs[f]))
    BY <1>1, FS_Interval
  <2>2. Readable(f, r) \subseteq 1..Len(refs[f])
    BY DEF Readable
  <2>. QED BY <2>1, <2>2, FS_Subset
<1>4. ASSUME NEW n \in Readable(f, r) PROVE r[refs[f][n]] \in Int
  <2>1. n \in 1..Len(refs[f]) /\ r[refs[f][n]] # Unreadable
    BY DEF Readable
  <2>2. refs[f][n] \in 1..Len(sources)
    BY <1>1, <2>1
  <2>. QED BY <1>2, <2>1, <2>2
<1>5. IsFiniteSet(Given(f, r))
  <2>. DEFINE the == [n \in Readable(f, r) |-> r[refs[f][n]]]
  <2>1. the \in Surjection(Readable(f, r), Given(f, r))
    BY DEF Given, Surjection
  <2>. QED BY <1>3, <2>1, FS_Surjection
<1>6. Given(f, r) \subseteq Int
  BY <1>4 DEF Given
<1>7. Readable(f, r) # {} => Given(f, r) # {}
  BY DEF Given
<1>. QED BY <1>3, <1>4, <1>5, <1>6, <1>7

\* Each of the three algorithms stays within what the sources gave.
LEMMA TemperatureBetween ==
    ASSUME ControlsInv, NEW f \in Fans, NEW r \in Readings, Readable(f, r) # {}
    PROVE  /\ GetTemperature(f, r) \in Int
           /\ Min(Given(f, r)) <= GetTemperature(f, r)
           /\ GetTemperature(f, r) <= Max(Given(f, r))
<1>. DEFINE S == Readable(f, r)
            G == Given(f, r)
            temperatures == [n \in S |-> r[refs[f][n]]]
<1>1. IsFiniteSet(S) /\ S # {} /\ \A n \in S : temperatures[n] \in Int
  BY ReadableIs
<1>2. IsFiniteSet(G) /\ G \subseteq Int /\ G # {}
  BY ReadableIs
<1>3. Min(G) \in G /\ \A t \in G : Min(G) <= t
  BY <1>2, MinOfFinite
<1>4. Max(G) \in G /\ \A t \in G : t <= Max(G)
  BY <1>2, MaxOfFinite
<1>5. Min(G) \in Int /\ Max(G) \in Int /\ Min(G) <= Max(G)
  BY <1>2, <1>3, <1>4
<1>6. \A n \in S : temperatures[n] \in G
  BY DEF Given
<1>7. Cardinality(S) \in Nat \ {0}
  BY <1>1, FS_CardinalityType, FS_EmptySet
<1>8. SumFunction(temperatures) = SumFunctionOnSet(temperatures, S)
  BY DEF SumFunction, SumFunctionOnSet, FoldFunction, FoldFunctionOnSet
<1>9. Mean(f, r) = SumFunctionOnSet(temperatures, S) \div Cardinality(S)
  BY <1>8 DEF Mean
<1>10. algorithm[f] \in Algorithms
  BY DEF ControlsInv
<1>11. CASE algorithm[f] = "Average"
  <2>1. \A n \in S : temperatures[n] \in Int /\ Min(G) <= temperatures[n] /\ temperatures[n] <= Max(G)
    BY <1>1, <1>3, <1>4, <1>6
  <2>. HIDE DEF S, G, temperatures
  <2>2. /\ Min(G) * Cardinality(S) <= SumFunctionOnSet(temperatures, S)
        /\ SumFunctionOnSet(temperatures, S) <= Max(G) * Cardinality(S)
    BY <1>1, <1>5, <2>1, SumIsBetween
  <2>3. SumFunctionOnSet(temperatures, S) \in Int
    BY <1>1, <2>1, SumIsInt
  <2>4. Mean(f, r) \in Int /\ Min(G) <= Mean(f, r) /\ Mean(f, r) <= Max(G)
    BY <1>5, <1>7, <1>9, <2>2, <2>3, QuotientBetween
  <2>5. GetTemperature(f, r) = Mean(f, r)
    BY <1>11 DEF GetTemperature
  <2>. QED BY <2>4, <2>5 DEF G
<1>12. CASE algorithm[f] = "Min"
  BY <1>5, <1>12 DEF GetTemperature
<1>13. CASE algorithm[f] = "Max"
  BY <1>5, <1>13 DEF GetTemperature
<1>. QED BY <1>10, <1>11, <1>12, <1>13 DEF Algorithms

LEMMA TemperaturesWithin == ControlsInv => WithinTheReadable
BY TemperatureBetween DEF WithinTheReadable

--------------------------------------------------------------------------------
(* The filter *)

\* The readings of a time span: fewer of them than the ring has places do not fill it.
LEMMA SizeIs ==
    /\ size \in Nat \ {0}
    /\ \A n \in Nat : n * PollInterval < Timespan <=> n < size
<1>. DEFINE q == Timespan \div PollInterval
            rest == Timespan % PollInterval
<1>1. PollInterval \in Nat \ {0} /\ Timespan \in Nat \ {0}
  BY TemperatureFilterAssumption
<1>2. /\ q \in Nat /\ rest \in Nat /\ rest < PollInterval
      /\ Timespan = q * PollInterval + rest
  BY <1>1
<1>3. size = q + (IF rest = 0 THEN 0 ELSE 1)
  BY DEF size
<1>. HIDE DEF q, rest
<1>4. size \in Nat \ {0}
  <2>1. q = 0 => rest # 0
    BY <1>1, <1>2
  <2>. QED BY <1>2, <1>3, <2>1
<1>5. ASSUME NEW n \in Nat PROVE n * PollInterval < Timespan <=> n < size
  <2>1. CASE n < q
    <3>1. n * PollInterval < q * PollInterval
      BY <1>1, <1>2, <2>1
    <3>2. n * PollInterval < Timespan
      BY <1>1, <1>2, <3>1
    <3>. QED BY <1>2, <1>3, <2>1, <3>2
  <2>2. CASE n = q
    BY <1>1, <1>2, <1>3, <2>2
  <2>3. CASE n > q
    <3>1. (q + 1) * PollInterval <= n * PollInterval
      BY <1>1, <1>2, <2>3
    <3>2. (q + 1) * PollInterval = q * PollInterval + PollInterval
      BY <1>1, <1>2
    <3>3. ~ n * PollInterval < Timespan
      BY <1>1, <1>2, <3>1, <3>2
    <3>. QED BY <1>2, <1>3, <2>3, <3>3
  <2>. QED BY <1>2, <2>1, <2>2, <2>3
<1>. QED BY <1>4, <1>5

\* The filter as it is created holds nothing.
LEMMA HoldsNone == Holds(TemperatureFilter_Init, <<>>)
<1>1. size \in Nat \ {0}
  BY SizeIs
<1>2. SumFunction(<<>>) = 0
  <2>1. SumFunction(<<>>) = SumFunctionOnSet(<<>>, {})
    BY DOMAIN <<>> = {} DEF SumFunction
  <2>. QED BY <2>1, SumOfNone
<1>. QED BY <1>1, <1>2 DEF Holds, TemperatureFilter_Init, TemperatureFilterState

\* When the ring moves on, the j-th oldest reading is what was the one after it, and
\* the youngest is where the oldest was.
LEMMA PlaceMoves ==
    ASSUME NEW i \in 0..(size - 1), NEW j \in 1..size, NEW next \in 0..(size - 1),
           next = IF i + 1 = size THEN 0 ELSE i + 1
    PROVE  /\ j < size => /\ Place(next, j) = Place(i, j + 1)
                          /\ Place(i, j + 1) \in 0..(size - 1) \ {i}
           /\ j = size => Place(next, j) = i
BY SizeIs DEF Place

\* A reading is put where the oldest was, and takes its place in the sum: the filter
\* holds the time span that ends with it.
LEMMA HoldsNext ==
    ASSUME NEW fl, NEW past, Holds(fl, past), NEW t \in Int
    PROVE  Holds(Filtered(fl, t),
                 IF Len(past) * PollInterval < Timespan THEN Append(past, t)
                 ELSE Tail(Append(past, t)))
<1>. DEFINE n == Len(past)
            next == Filtered(fl, t)
            all == Append(past, t)
            after == IF n * PollInterval < Timespan THEN all ELSE Tail(all)
<1>. SUFFICES Holds(next, after)
  OBVIOUS
<1>1. /\ fl \in TemperatureFilterState /\ past \in Seq(Int)
      /\ n \in Nat /\ n <= size /\ size \in Nat \ {0}
      /\ fl.full <=> n = size
      /\ fl.sum = SumFunction(past)
  BY SizeIs DEF Holds
<1>2. /\ fl.ring \in [0..(size - 1) -> Int] /\ fl.index \in 0..(size - 1)
      /\ fl.full \in BOOLEAN /\ fl.sum \in Int
  BY <1>1 DEF TemperatureFilterState
<1>3. /\ next.ring = [fl.ring EXCEPT ![fl.index] = t]
      /\ next.index = IF fl.index + 1 = size THEN 0 ELSE fl.index + 1
      /\ next.full = (fl.full \/ fl.index + 1 = size)
      /\ next.sum = fl.sum - fl.ring[fl.index] + t
  BY DEF Filtered, SumWith, Wraps
<1>0. next = [ring |-> next.ring, index |-> next.index, full |-> next.full, sum |-> next.sum]
  BY DEF Filtered
<1>. HIDE DEF next
<1>4. next \in TemperatureFilterState
  <2>1. next.ring \in [0..(size - 1) -> Int]
    BY <1>2, <1>3
  <2>2. next.index \in 0..(size - 1)
    BY <1>1, <1>2, <1>3
  <2>3. next.full \in BOOLEAN
    BY <1>1, <1>2, <1>3
  <2>4. next.sum \in Int
    <3>1. fl.ring[fl.index] \in Int
      BY <1>2
    <3>. QED BY <1>2, <1>3, <3>1
  <2>. QED BY <1>0, <2>1, <2>2, <2>3, <2>4 DEF TemperatureFilterState
<1>5. /\ all \in Seq(Int) /\ Len(all) = n + 1 /\ all # <<>> /\ all[n + 1] = t
      /\ \A i \in 1..n : all[i] = past[i]
      /\ SumFunction(all) = SumFunction(past) + t
  BY <1>1, SumOfAppend
<1>6. n * PollInterval < Timespan <=> n < size
  BY <1>1, SizeIs
<1>7. SumFunction(past) \in Int
  BY <1>1, <1>2
<1>. HIDE DEF all, after
<1>8. CASE ~ fl.full
  <2>1. /\ n < size /\ after = all /\ fl.index = n
        /\ \A i \in 0..(size - 1) : fl.ring[i] = IF i < n THEN past[i + 1] ELSE 0
    BY <1>1, <1>6, <1>8 DEF Holds, after
  <2>2. next.sum = SumFunction(all)
    <3>1. fl.ring[fl.index] = 0
      BY <1>1, <2>1
    <3>. QED BY <1>1, <1>2, <1>3, <1>5, <1>7, <3>1
  <2>3. ASSUME NEW i \in 0..(size - 1)
        PROVE  next.ring[i] = IF i < n + 1 THEN all[i + 1] ELSE 0
    <3>1. CASE i = n
      BY <1>1, <1>2, <1>3, <1>5, <2>1, <3>1
    <3>2. CASE i # n
      <4>1. next.ring[i] = fl.ring[i] /\ (i < n + 1 <=> i < n)
        <5>1. n \in 0..(size - 1) /\ n \in Int
          BY <1>1, <2>1
        <5>2. next.ring[i] = fl.ring[i]
          BY <1>2, <1>3, <2>1, <3>2
        <5>. QED BY <3>2, <5>1, <5>2
      <4>2. ASSUME i < n PROVE all[i + 1] = past[i + 1]
        <5>1. i + 1 \in 1..n
          BY <1>1, <4>2
        <5>. QED BY <1>5, <5>1
      <4>. QED BY <2>1, <4>1, <4>2
    <3>. QED BY <3>1, <3>2
  <2>4. CASE n + 1 = size
    <3>1. next.full /\ next.index = 0
      BY <1>3, <2>1, <2>4
    <3>2. ASSUME NEW j \in 1..size PROVE next.ring[Place(0, j)] = all[j]
      <4>1. Place(0, j) = j - 1 /\ j - 1 \in 0..(size - 1) /\ j - 1 < n + 1
        BY <1>1, <2>4 DEF Place
      <4>2. next.ring[j - 1] = all[(j - 1) + 1]
        BY <2>3, <4>1
      <4>. QED BY <4>1, <4>2
    <3>. QED BY <1>4, <1>5, <2>1, <2>2, <2>4, <3>1, <3>2 DEF Holds
  <2>5. CASE n + 1 # size
    <3>1. ~ next.full /\ next.index = n + 1
      BY <1>3, <1>8, <2>1, <2>5
    <3>. QED BY <1>1, <1>4, <1>5, <2>1, <2>2, <2>3, <2>5, <3>1 DEF Holds
  <2>. QED BY <2>4, <2>5
<1>9. CASE fl.full
  <2>. DEFINE i == fl.index
              rest == Tail(all)
  <2>1. /\ n = size /\ after = rest
        /\ \A j \in 1..size : fl.ring[Place(i, j)] = past[j]
    BY <1>1, <1>6, <1>9 DEF Holds, after
  <2>2. /\ rest \in Seq(Int) /\ Len(rest) = n
        /\ \A j \in 1..n : rest[j] = all[j + 1]
        /\ SumFunction(rest) = SumFunction(all) - all[1]
    BY <1>1, <1>5, SumOfTail
  <2>3. fl.ring[i] = past[1]
    <3>1. Place(i, 1) = i /\ 1 \in 1..size
      BY <1>1, <1>2 DEF Place
    <3>. QED BY <2>1, <3>1
  <2>4. next.sum = SumFunction(rest)
    <3>1. all[1] = past[1] /\ past[1] \in Int
      BY <1>1, <1>5, <2>1
    <3>. QED BY <1>1, <1>2, <1>3, <1>5, <1>7, <2>2, <2>3, <3>1
  <2>5. next.full
    BY <1>3, <1>9
  <2>6. next.index \in 0..(size - 1)
    BY <1>4 DEF TemperatureFilterState
  <2>7. ASSUME NEW j \in 1..size PROVE next.ring[Place(next.index, j)] = rest[j]
    <3>1. CASE j < size
      <4>0. j + 1 \in 1..size
        BY <1>1, <3>1
      <4>1. /\ Place(next.index, j) = Place(i, j + 1)
            /\ Place(i, j + 1) \in 0..(size - 1) \ {i}
        BY <1>2, <1>3, <2>6, <3>1, PlaceMoves
      <4>2. next.ring[Place(i, j + 1)] = fl.ring[Place(i, j + 1)]
        BY <1>2, <1>3, <4>1
      <4>3. fl.ring[Place(i, j + 1)] = past[j + 1]
        BY <2>1, <4>0, <4>1
      <4>4. past[j + 1] = all[j + 1] /\ rest[j] = all[j + 1]
        BY <1>1, <1>5, <2>1, <2>2, <4>0
      <4>. QED BY <4>1, <4>2, <4>3, <4>4
    <3>2. CASE j = size
      <4>1. Place(next.index, j) = i
        BY <1>1, <1>2, <1>3, <2>6, <3>2, PlaceMoves
      <4>2. next.ring[i] = t
        BY <1>2, <1>3
      <4>3. rest[j] = t
        BY <1>1, <1>5, <2>1, <2>2, <3>2
      <4>. QED BY <4>1, <4>2, <4>3
    <3>3. j < size \/ j = size
      BY <1>1
    <3>. QED BY <3>1, <3>2, <3>3
  <2>. HIDE DEF rest
  <2>. QED BY <1>1, <1>4, <2>1, <2>2, <2>4, <2>5, <2>7 DEF Holds
<1>. QED BY <1>2, <1>8, <1>9

LEMMA FiltersStep ==
    ASSUME ControlsInv, FiltersInv, [Next]_vars PROVE FiltersInv'
<1>1. CASE \E f \in Fans, r \in Readings : FanTemperatureControl_UpdateFanTemperature(f, r)
  <2>1. PICK f \in Fans, r \in Readings : FanTemperatureControl_UpdateFanTemperature(f, r)
    BY <1>1
  <2>. DEFINE t == GetTemperature(f, r)
              past == recent[f]
              after == IF Len(past) * PollInterval < Timespan THEN Append(past, t)
                       ELSE Tail(Append(past, t))
  <2>2. /\ Readable(f, r) # {}
        /\ filter' = [filter EXCEPT ![f] = Filtered(filter[f], t)]
        /\ recent' = [recent EXCEPT ![f] = after]
    BY <2>1 DEF FanTemperatureControl_UpdateFanTemperature
  <2>3. t \in Int
    BY <2>2, TemperatureBetween
  <2>. HIDE DEF t
  <2>4. Holds(Filtered(filter[f], t), after)
    BY <2>3, HoldsNext DEF FiltersInv
  <2>. HIDE DEF after
  <2>5. DOMAIN filter' = Fans /\ DOMAIN recent' = Fans
    BY <2>2 DEF FiltersInv
  <2>6. ASSUME NEW g \in Fans PROVE Holds(filter'[g], recent'[g])
    <3>1. CASE g = f
      BY <2>2, <2>4, <3>1 DEF FiltersInv
    <3>2. CASE g # f
      <4>1. filter'[g] = filter[g] /\ recent'[g] = recent[g]
        BY <2>2, <3>2 DEF FiltersInv
      <4>. QED BY <4>1 DEF FiltersInv
    <3>. QED BY <3>1, <3>2
  <2>. QED BY <2>5, <2>6 DEF FiltersInv
<1>2. CASE UNCHANGED <<filter, recent>>
  BY <1>2 DEF FiltersInv
<1>3. Select => UNCHANGED <<filter, recent>>
  BY DEF Select, SetDefault, SetAlgorithm, ClearSources, AddKnown, AddUserFile, SelectFails,
         Selected, Done
<1>4. FS_Sensors_Init => UNCHANGED <<filter, recent>>
  BY DEF FS_Sensors_Init, HwMonFound, HwMonMissing, HwMonGivenUp, CheckVFIO, NvidiaFound,
         NvidiaNotReady, NvidiaMissing, SensorsInitialized
<1>5. Fork \/ ReinitializeNvidia \/ FS_Sensors_Cleanup => UNCHANGED <<filter, recent>>
  BY DEF Fork, ReinitializeNvidia, FS_Sensors_Cleanup
<1>. QED BY <1>1, <1>2, <1>3, <1>4, <1>5 DEF Next, Serve, vars

\* The sum the filter keeps is that of the readings of the last time span, and it is
\* divided by their number.
LEMMA FiltersAverage == FiltersInv => AveragesTheTimespan
<1>. SUFFICES ASSUME FiltersInv, NEW f \in Fans
              PROVE  /\ Average(filter[f]).by = Len(recent[f])
                     /\ Average(filter[f]).sum = SumFunction(recent[f])
  BY DEF AveragesTheTimespan
<1>1. Holds(filter[f], recent[f])
  BY DEF FiltersInv
<1>2. filter[f].full \in BOOLEAN
  BY <1>1 DEF Holds, TemperatureFilterState
<1>. QED BY <1>1, <1>2 DEF Holds, Average

\* Whatever the sources give and however often none can be read, the temperature a fan
\* is regulated by is the average over the time span, whose running sum has lost nothing
\* and kept nothing, of temperatures that were within what its readable sources gave.
THEOREM TemperaturesSound == Spec => []TemperaturesAreSound
<1>1. Init => FiltersInv
  BY HoldsNone DEF Init, FiltersInv
<1>2. FiltersInv /\ ControlsInv => TemperaturesAreSound
  BY FiltersAverage, TemperaturesWithin DEF TemperaturesAreSound
<1>. QED BY <1>1, <1>2, FiltersStep, ReferencesAreSources, PTL DEF Spec

--------------------------------------------------------------------------------
(* The sources follow the configuration                                        *)

\* The sensor an order gives its fan.
SensorOf(order) == IF order.do = "default" THEN "@CPU" ELSE order.sensor

Gives(order, f) == order.fan = f /\ order.do \in {"default", "add"}

Clears(order, f) == order.fan = f /\ order.do = "clear"

\* The sensors a fan is left with by a list of orders, and whether they were to
\* replace those it had.
Stays(orders, i, f) ==
    Gives(orders[i], f) /\ \A j \in (i + 1)..Len(orders) : ~ Clears(orders[j], f)

Left(orders, f) == {SensorOf(orders[i]) : i \in {j \in 1..Len(orders) : Stays(orders, j, f)}}

Replaces(orders, f) == \E i \in 1..Len(orders) : Clears(orders[i], f)

LEMMA LeftIs ==
    ASSUME NEW orders, NEW f, NEW sensor
    PROVE  sensor \in Left(orders, f) <=>
              \E i \in 1..Len(orders) :
                 /\ Gives(orders[i], f) /\ sensor = SensorOf(orders[i])
                 /\ \A j \in (i + 1)..Len(orders) : ~ Clears(orders[j], f)
BY DEF Left, Stays

LEMMA LeftByBoth ==
    ASSUME NEW a \in Seq(Order), NEW b \in Seq(Order), NEW f
    PROVE  /\ Left(a \o b, f) = IF Replaces(b, f) THEN Left(b, f) ELSE Left(a, f) \cup Left(b, f)
           /\ Replaces(a \o b, f) <=> Replaces(a, f) \/ Replaces(b, f)
<1>. DEFINE m == Len(a)
            n == Len(b)
            ab == a \o b
<1>1. /\ m \in Nat /\ n \in Nat /\ Len(ab) = m + n
      /\ \A i \in 1..m : ab[i] = a[i]
      /\ \A i \in 1..n : ab[m + i] = b[i]
  OBVIOUS
<1>. HIDE DEF ab, m, n
<1>2. Len(a) = m /\ Len(b) = n
  BY DEF m, n
<1>3. ASSUME NEW i \in 1..(m + n), ~ i \in 1..m PROVE i - m \in 1..n /\ m + (i - m) = i
  BY <1>1, <1>3
<1>4. ASSUME NEW i \in 1..n PROVE m + i \in 1..(m + n) /\ m + i \in Int
  BY <1>1
<1>5. 1..m \subseteq 1..(m + n)
  BY <1>1
<1>6. Replaces(ab, f) <=> Replaces(a, f) \/ Replaces(b, f)
  <2>1. ASSUME NEW i \in 1..(m + n), Clears(ab[i], f) PROVE Replaces(a, f) \/ Replaces(b, f)
    <3>1. CASE i \in 1..m
      BY <1>1, <1>2, <2>1, <3>1 DEF Replaces
    <3>2. CASE ~ i \in 1..m
      <4>1. i - m \in 1..n /\ ab[i] = b[i - m]
        BY <1>1, <1>3, <3>2
      <4>. QED BY <1>2, <2>1, <4>1 DEF Replaces
    <3>. QED BY <3>1, <3>2
  <2>2. ASSUME NEW i \in 1..m, Clears(a[i], f) PROVE Replaces(ab, f)
    BY <1>1, <1>5, <2>2 DEF Replaces
  <2>3. ASSUME NEW i \in 1..n, Clears(b[i], f) PROVE Replaces(ab, f)
    BY <1>1, <1>4, <2>3 DEF Replaces
  <2>. QED BY <1>1, <1>2, <2>1, <2>2, <2>3 DEF Replaces
<1>7. ASSUME NEW sensor
      PROVE  sensor \in Left(ab, f) <=>
                \/ sensor \in Left(b, f)
                \/ sensor \in Left(a, f) /\ ~ Replaces(b, f)
  <2>1. ASSUME NEW i \in 1..n, Gives(b[i], f) /\ sensor = SensorOf(b[i]),
               \A j \in (i + 1)..n : ~ Clears(b[j], f)
        PROVE  sensor \in Left(ab, f)
    <3>1. m + i \in 1..(m + n) /\ Gives(ab[m + i], f) /\ sensor = SensorOf(ab[m + i])
      BY <1>1, <1>4, <2>1
    <3>2. ASSUME NEW j \in (m + i + 1)..(m + n) PROVE ~ Clears(ab[j], f)
      <4>1. j - m \in (i + 1)..n /\ j - m \in 1..n /\ m + (j - m) = j
        BY <1>1
      <4>. QED BY <1>1, <2>1, <4>1
    <3>. QED BY <1>1, <3>1, <3>2, LeftIs
  <2>2. ASSUME NEW i \in 1..m, Gives(a[i], f) /\ sensor = SensorOf(a[i]),
               \A j \in (i + 1)..m : ~ Clears(a[j], f), ~ Replaces(b, f)
        PROVE  sensor \in Left(ab, f)
    <3>1. i \in 1..(m + n) /\ Gives(ab[i], f) /\ sensor = SensorOf(ab[i])
      BY <1>1, <1>5, <2>2
    <3>2. ASSUME NEW j \in (i + 1)..(m + n) PROVE ~ Clears(ab[j], f)
      <4>1. CASE j \in 1..m
        BY <1>1, <2>2, <4>1
      <4>2. CASE ~ j \in 1..m
        <5>1. j \in 1..(m + n)
          BY <1>1
        <5>2. j - m \in 1..n /\ m + (j - m) = j
          BY <1>3, <4>2, <5>1
        <5>3. ~ Clears(b[j - m], f)
          BY <1>2, <2>2, <5>2 DEF Replaces
        <5>. QED BY <1>1, <5>2, <5>3
      <4>. QED BY <4>1, <4>2
    <3>. QED BY <1>1, <3>1, <3>2, LeftIs
  <2>3. ASSUME NEW i \in 1..(m + n), Gives(ab[i], f) /\ sensor = SensorOf(ab[i]),
               \A j \in (i + 1)..(m + n) : ~ Clears(ab[j], f)
        PROVE  \/ sensor \in Left(b, f)
               \/ sensor \in Left(a, f) /\ ~ Replaces(b, f)
    <3>1. CASE i \in 1..m
      <4>1. ASSUME NEW j \in (i + 1)..m PROVE ~ Clears(a[j], f)
        <5>1. j \in 1..m /\ j \in (i + 1)..(m + n)
          BY <1>1, <3>1
        <5>. QED BY <1>1, <2>3, <5>1
      <4>2. ASSUME NEW j \in 1..n PROVE ~ Clears(b[j], f)
        <5>1. m + j \in (i + 1)..(m + n)
          BY <1>1, <3>1
        <5>. QED BY <1>1, <2>3, <5>1
      <4>3. Gives(a[i], f) /\ sensor = SensorOf(a[i])
        BY <1>1, <2>3, <3>1
      <4>. QED BY <1>2, <3>1, <4>1, <4>2, <4>3, LeftIs DEF Replaces
    <3>2. CASE ~ i \in 1..m
      <4>1. i - m \in 1..n /\ m + (i - m) = i
        BY <1>3, <3>2
      <4>2. Gives(b[i - m], f) /\ sensor = SensorOf(b[i - m])
        BY <1>1, <2>3, <4>1
      <4>3. ASSUME NEW j \in (i - m + 1)..n PROVE ~ Clears(b[j], f)
        <5>1. m + j \in (i + 1)..(m + n) /\ j \in 1..n
          BY <1>1, <4>1
        <5>. QED BY <1>1, <2>3, <5>1
      <4>. QED BY <1>2, <4>1, <4>2, <4>3, LeftIs
    <3>. QED BY <3>1, <3>2
  <2>4. sensor \in Left(b, f) => sensor \in Left(ab, f)
    BY <1>2, <2>1, LeftIs
  <2>5. sensor \in Left(a, f) /\ ~ Replaces(b, f) => sensor \in Left(ab, f)
    BY <1>2, <2>2, LeftIs
  <2>6. ASSUME sensor \in Left(ab, f)
        PROVE  sensor \in Left(b, f) \/ (sensor \in Left(a, f) /\ ~ Replaces(b, f))
    <3>1. \E i \in 1..(m + n) : /\ Gives(ab[i], f) /\ sensor = SensorOf(ab[i])
                                 /\ \A j \in (i + 1)..(m + n) : ~ Clears(ab[j], f)
      BY <1>1, <2>6, LeftIs
    <3>2. PICK i \in 1..(m + n) : /\ Gives(ab[i], f) /\ sensor = SensorOf(ab[i])
                                  /\ \A j \in (i + 1)..(m + n) : ~ Clears(ab[j], f)
      BY <3>1
    <3>. QED BY <2>3, <3>2, Zenon
  <2>. QED BY <2>4, <2>5, <2>6
<1>8. Left(ab, f) = IF Replaces(b, f) THEN Left(b, f) ELSE Left(a, f) \cup Left(b, f)
  BY <1>7
<1>. QED BY <1>6, <1>8 DEF ab

LEMMA LeftByNone ==
    ASSUME NEW f PROVE Left(<<>>, f) = {} /\ ~ Replaces(<<>>, f)
<1>1. ASSUME NEW sensor PROVE sensor \notin Left(<<>>, f)
  BY LeftIs
<1>. QED BY <1>1 DEF Replaces

SensorsIn(sensors) == {sensors[m] : m \in 1..Len(sensors)}

\* An entry's sensors are all that is left of what the fan had, if it has any.
LEMMA LeftByEntry ==
    ASSUME NEW e \in Fans, NEW f \in Fans, NEW entry \in ConfigEntry
    PROVE  LET orders == AlgorithmOf(e, entry) \o SensorsOf(e, entry)
           IN /\ Left(orders, f) = IF f = e THEN SensorsIn(entry.sensors) ELSE {}
              /\ Replaces(orders, f) <=> f = e /\ entry.sensors # <<>>
<1>. DEFINE a == AlgorithmOf(e, entry)
            s == SensorsOf(e, entry)
            n == Len(entry.sensors)
            adds == [i \in 1..n |-> AddTo(e, entry.sensors[i])]
<1>0. entry.sensors \in Seq(STRING) /\ n \in Nat /\ \A i \in 1..n : entry.sensors[i] \in STRING
  BY DEF ConfigEntry
<1>1. a \in Seq(Order) /\ Left(a, f) = {} /\ ~ Replaces(a, f)
  <2>1. CASE entry.algorithm = "unset"
    BY <2>1, LeftByNone DEF AlgorithmOf
  <2>2. CASE entry.algorithm # "unset"
    <3>. DEFINE o == [do |-> "algorithm", fan |-> e, algorithm |-> entry.algorithm]
    <3>1. a = <<o>> /\ o \in Order /\ o.do = "algorithm"
      BY <2>2 DEF AlgorithmOf, Order, ConfigEntry
    <3>. HIDE DEF o, a
    <3>2. Len(a) = 1 /\ a[1].do = "algorithm"
      BY <3>1
    <3>. QED BY <3>1, <3>2 DEF Left, Stays, Replaces, Gives, Clears
  <2>. QED BY <2>1, <2>2
<1>2. /\ s \in Seq(Order)
      /\ Left(s, f) = IF f = e THEN SensorsIn(entry.sensors) ELSE {}
      /\ Replaces(s, f) <=> f = e /\ entry.sensors # <<>>
  <2>1. CASE entry.sensors = <<>>
    <3>1. s = <<>> /\ SensorsIn(entry.sensors) = {}
      BY <2>1 DEF SensorsOf, SensorsIn
    <3>2. Left(<<>>, f) = {} /\ ~ Replaces(<<>>, f) /\ <<>> \in Seq(Order)
      BY LeftByNone
    <3>. HIDE DEF s
    <3>. QED BY <2>1, <3>1, <3>2
  <2>2. CASE entry.sensors # <<>>
    <3>1. s = <<ClearOf(e)>> \o adds
      BY <2>2 DEF SensorsOf
    <3>. HIDE DEF n
    <3>2. adds \in Seq(Order) /\ Len(adds) = n
      <4>1. \A i \in 1..n : AddTo(e, entry.sensors[i]) \in Order
        BY <1>0 DEF AddTo, Order
      <4>. QED BY <1>0, <4>1
    <3>3. \A i \in 1..n : adds[i].do = "add" /\ adds[i].fan = e /\ adds[i].sensor = entry.sensors[i]
      BY DEF AddTo
    <3>. HIDE DEF adds
    <3>4. ~ Replaces(adds, f)
      BY <3>2, <3>3 DEF Replaces, Clears
    <3>5. Left(adds, f) = IF f = e THEN SensorsIn(entry.sensors) ELSE {}
      <4>1. ASSUME NEW i \in 1..n
            PROVE  /\ ~ Clears(adds[i], f)
                   /\ Gives(adds[i], f) <=> f = e
                   /\ SensorOf(adds[i]) = entry.sensors[i]
        BY <3>3 DEF Clears, Gives, SensorOf
      <4>2. ASSUME NEW i \in 1..n PROVE \A j \in (i + 1)..n : j \in 1..n
        BY <1>0
      <4>3. Left(adds, f) = {entry.sensors[i] : i \in {j \in 1..n : f = e}}
        BY <3>2, <4>1, <4>2 DEF Left, Stays
      <4>4. {j \in 1..n : f = e} = IF f = e THEN 1..n ELSE {}
        OBVIOUS
      <4>. QED BY <4>3, <4>4 DEF SensorsIn, n
    <3>. DEFINE clear == <<ClearOf(e)>>
    <3>6. clear \in Seq(Order) /\ Len(clear) = 1 /\ clear[1].do = "clear" /\ clear[1].fan = e
      BY DEF ClearOf, Order
    <3>. HIDE DEF clear
    <3>7. Left(clear, f) = {} /\ (Replaces(clear, f) <=> f = e)
      BY <3>6 DEF Left, Stays, Gives, Replaces, Clears
    <3>8. /\ clear \o adds \in Seq(Order)
          /\ Left(clear \o adds, f) = Left(adds, f)
          /\ Replaces(clear \o adds, f) <=> f = e
      <4>1. /\ Left(clear \o adds, f) = IF Replaces(adds, f) THEN Left(adds, f)
                                        ELSE Left(clear, f) \cup Left(adds, f)
            /\ Replaces(clear \o adds, f) <=> Replaces(clear, f) \/ Replaces(adds, f)
        BY <3>2, <3>6, LeftByBoth
      <4>2. clear \o adds \in Seq(Order)
        BY <3>2, <3>6
      <4>. QED BY <3>4, <3>7, <4>1, <4>2
    <3>. QED BY <2>2, <3>1, <3>5, <3>8 DEF clear
  <2>. QED BY <2>1, <2>2
<1>. HIDE DEF a, s
<1>3. /\ Left(a \o s, f) = IF Replaces(s, f) THEN Left(s, f) ELSE Left(a, f) \cup Left(s, f)
      /\ Replaces(a \o s, f) <=> Replaces(a, f) \/ Replaces(s, f)
  BY <1>1, <1>2, LeftByBoth
<1>. QED BY <1>1, <1>2, <1>3 DEF a, s

\* The first layer: every fan has the CPU's sensors.
LEMMA LeftByDefaults ==
    ASSUME NEW f \in Fans
    PROVE  /\ SetDefaults \in Seq(Order)
           /\ Left(SetDefaults, f) = {"@CPU"}
<1>1. Fans = 1..NumFans /\ NumFans \in Nat
  BY SensorsAssumption DEF Fans
<1>. DEFINE d == SetDefaults
<1>2. /\ d \in Seq(Order) /\ Len(d) = NumFans
      /\ \A g \in 1..NumFans : d[g].do = "default" /\ d[g].fan = g
  <2>1. \A g \in Fans : [do |-> "default", fan |-> g] \in Order
    BY DEF Order
  <2>. HIDE DEF Order
  <2>. QED BY <1>1, <2>1 DEF SetDefaults
<1>. HIDE DEF d
<1>3. ASSUME NEW g \in 1..NumFans
      PROVE  /\ ~ Clears(d[g], f)
             /\ Gives(d[g], f) <=> g = f
             /\ SensorOf(d[g]) = "@CPU"
  BY <1>2 DEF Clears, Gives, SensorOf
<1>4. ASSUME NEW g \in 1..NumFans PROVE \A j \in (g + 1)..NumFans : j \in 1..NumFans
  BY <1>1
<1>5. {g \in 1..Len(d) : Stays(d, g, f)} = {f}
  BY <1>1, <1>2, <1>3, <1>4 DEF Stays
<1>6. Left(d, f) = {"@CPU"}
  BY <1>1, <1>3, <1>5 DEF Left
<1>. QED BY <1>2, <1>6 DEF d

\* The second layer: what the model config has for a fan, if it has any.
LEMMA LeftByModel ==
    ASSUME NEW c \in Configs, NEW f \in Fans
    PROVE  LET orders == SetByModelConfig(c.model)
           IN /\ orders \in Seq(Order)
              /\ Left(orders, f) = SensorsIn(c.model[f].sensors)
              /\ Replaces(orders, f) <=> c.model[f].sensors # <<>>
<1>. DEFINE each(e) == AlgorithmOf(e, c.model[e]) \o SensorsOf(e, c.model[e])
            ss == [e \in Fans |-> each(e)]
            n == NumFans
            given == c.model[f].sensors
<1>1. Fans = 1..n /\ n \in Nat \ {0} /\ f \in 1..n
  BY SensorsAssumption DEF Fans
<1>2. ASSUME NEW e \in Fans
      PROVE  /\ each(e) \in Seq(Order)
             /\ Left(each(e), f) = IF f = e THEN SensorsIn(c.model[e].sensors) ELSE {}
             /\ Replaces(each(e), f) <=> f = e /\ c.model[e].sensors # <<>>
  <2>1. c.model[e] \in ConfigEntry
    BY SensorsAssumption
  <2>2. each(e) \in Seq(Order)
    BY <2>1, EntryOrders
  <2>. DEFINE entry == c.model[e]
  <2>3. entry \in ConfigEntry
    BY <2>1
  <2>. HIDE DEF entry
  <2>4. LET orders == AlgorithmOf(e, entry) \o SensorsOf(e, entry)
        IN /\ Left(orders, f) = IF f = e THEN SensorsIn(entry.sensors) ELSE {}
           /\ Replaces(orders, f) <=> f = e /\ entry.sensors # <<>>
    BY <2>3, LeftByEntry
  <2>. QED BY <2>2, <2>4 DEF entry
<1>. HIDE DEF each
<1>3. Len(ss) = n /\ \A e \in 1..n : ss[e] = each(e)
  BY <1>1
<1>. HIDE DEF ss
<1>4. PICK g : /\ FlattenSeq(ss) = g[n]
               /\ g[1] = ss[1]
               /\ \A i \in 2..n : g[i] = g[i - 1] \o ss[i]
  BY <1>1, <1>3, FlattenSeqIs
<1>. DEFINE Right(i) ==
               /\ g[i] \in Seq(Order)
               /\ Left(g[i], f) = IF f <= i THEN SensorsIn(given) ELSE {}
               /\ Replaces(g[i], f) <=> f <= i /\ given # <<>>
            Good == {i \in 1..n : Right(i)}
<1>5. 1 \in Good
  <2>1. 1 \in 1..n /\ g[1] = each(1) /\ 1 \in Fans /\ (f <= 1 <=> f = 1)
    BY <1>1, <1>3, <1>4
  <2>. QED BY <1>2, <2>1
<1>6. ASSUME NEW i \in 2..n, i - 1 \in Good PROVE i \in Good
  <2>1. i \in 1..n /\ g[i] = g[i - 1] \o each(i) /\ i \in Fans
    <3>1. i \in 1..n /\ i \in Fans
      BY <1>1
    <3>. QED BY <1>3, <1>4, <3>1
  <2>2. Right(i - 1)
    BY <1>6
  <2>. DEFINE before == g[i - 1]
              order == each(i)
  <2>3. /\ before \in Seq(Order) /\ order \in Seq(Order)
        /\ Left(before, f) = IF f <= i - 1 THEN SensorsIn(given) ELSE {}
        /\ Replaces(before, f) <=> f <= i - 1 /\ given # <<>>
        /\ Left(order, f) = IF f = i THEN SensorsIn(given) ELSE {}
        /\ Replaces(order, f) <=> f = i /\ given # <<>>
    BY <1>2, <2>1, <2>2
  <2>4. g[i] = before \o order
    BY <2>1
  <2>. HIDE DEF before, order
  <2>5. /\ Left(before \o order, f) =
              IF Replaces(order, f) THEN Left(order, f) ELSE Left(before, f) \cup Left(order, f)
        /\ Replaces(before \o order, f) <=> Replaces(before, f) \/ Replaces(order, f)
        /\ before \o order \in Seq(Order)
    BY <2>3, LeftByBoth
  <2>6. /\ f <= i <=> f <= i - 1 \/ f = i
        /\ ~ (f <= i - 1 /\ f = i)
    BY <1>1
  <2>7. given = <<>> => SensorsIn(given) = {}
    BY DEF SensorsIn
  <2>. HIDE DEF given
  <2>8. Right(i)
    BY <2>3, <2>4, <2>5, <2>6, <2>7
  <2>. QED BY <2>1, <2>8
<1>7. n \in Good
  <2>. HIDE DEF Good
  <2>1. 1..n \subseteq Good
    BY <1>1, <1>5, <1>6, UpToTheLast
  <2>. QED BY <1>1, <2>1
<1>8. Right(n) /\ f <= n
  BY <1>1, <1>7
<1>. QED BY <1>4, <1>8 DEF SetByModelConfig, ss, each

\* The third layer: the last entry of the service config that has sensors for a
\* fan, if there is one.
UsersOf(c, f, n) == {l \in 1..n : c.service[l].fan = f /\ c.service[l].sensors # <<>>}

LEMMA LeftByService ==
    ASSUME NEW c \in Configs, NEW f \in Fans
    PROVE  LET orders == SetByServiceConfig(c.service)
               users == UsersOf(c, f, Len(c.service))
           IN /\ orders \in Seq(Order)
              /\ users = {} => Left(orders, f) = {}
              /\ \A u \in users : (\A l \in users : l <= u) =>
                    Left(orders, f) = SensorsIn(c.service[u].sensors)
              /\ Replaces(orders, f) <=> users # {}
<1>. DEFINE n == Len(c.service)
            each(i) == IF c.service[i].fan \notin Fans
                       THEN <<[do |-> "invalid", fan |-> c.service[i].fan]>>
                       ELSE AlgorithmOf(c.service[i].fan, c.service[i])
                              \o SensorsOf(c.service[i].fan, c.service[i])
            ss == [i \in 1..n |-> each(i)]
            users(i) == UsersOf(c, f, i)
            Leaves(orders, i) ==
               /\ orders \in Seq(Order)
               /\ users(i) = {} => Left(orders, f) = {}
               /\ \A u \in users(i) : (\A l \in users(i) : l <= u) =>
                     Left(orders, f) = SensorsIn(c.service[u].sensors)
               /\ Replaces(orders, f) <=> users(i) # {}
<1>1. n \in Nat /\ \A i \in 1..n : c.service[i] \in ConfigEntry
  BY SensorsAssumption
<1>2. SetByServiceConfig(c.service) = FlattenSeq(ss)
  BY DEF SetByServiceConfig
<1>3. ASSUME NEW i \in 1..n
      PROVE  /\ each(i) \in Seq(Order)
             /\ Left(each(i), f) = IF i \in users(i) THEN SensorsIn(c.service[i].sensors) ELSE {}
             /\ Replaces(each(i), f) <=> i \in users(i)
  <2>. DEFINE entry == c.service[i]
  <2>1. entry \in ConfigEntry /\ (i \in users(i) <=> entry.fan = f /\ entry.sensors # <<>>)
    BY <1>1 DEF UsersOf
  <2>2. CASE entry.fan \notin Fans
    <3>. DEFINE o == [do |-> "invalid", fan |-> entry.fan]
    <3>1. o \in Order /\ o.do = "invalid"
      BY <2>1 DEF Order, ConfigEntry
    <3>2. each(i) = <<o>> /\ i \notin users(i)
      BY <2>1, <2>2
    <3>. HIDE DEF o, each, users
    <3>. DEFINE os == <<o>>
    <3>3. os \in Seq(Order) /\ Len(os) = 1 /\ os[1] = o
      BY <3>1
    <3>. HIDE DEF os
    <3>4. Left(os, f) = {} /\ ~ Replaces(os, f)
      BY <3>1, <3>3 DEF Left, Stays, Replaces, Gives, Clears
    <3>. QED BY <3>2, <3>3, <3>4 DEF os
  <2>3. CASE entry.fan \in Fans
    <3>. DEFINE orders == AlgorithmOf(entry.fan, entry) \o SensorsOf(entry.fan, entry)
    <3>1. each(i) = orders
      BY <2>3
    <3>2. orders \in Seq(Order)
      BY <2>1, <2>3, EntryOrders
    <3>3. /\ Left(orders, f) = IF f = entry.fan THEN SensorsIn(entry.sensors) ELSE {}
          /\ Replaces(orders, f) <=> f = entry.fan /\ entry.sensors # <<>>
      <4>. HIDE DEF entry
      <4>. QED BY <2>1, <2>3, LeftByEntry
    <3>4. SensorsIn(<<>>) = {}
      BY DEF SensorsIn
    <3>. HIDE DEF each, orders, users
    <3>. QED BY <2>1, <3>1, <3>2, <3>3, <3>4
  <2>. QED BY <2>2, <2>3
<1>. HIDE DEF each
<1>4. CASE n = 0
  <2>1. ss = <<>> /\ users(n) = {}
    BY <1>4 DEF UsersOf
  <2>2. FlattenSeq(<<>>) = <<>>
    BY DEF FlattenSeq
  <2>3. <<>> \in Seq(Order) /\ Left(<<>>, f) = {} /\ ~ Replaces(<<>>, f)
    BY LeftByNone
  <2>4. SetByServiceConfig(c.service) = <<>>
    BY <1>2, <2>1, <2>2
  <2>. QED BY <2>1, <2>3, <2>4
<1>5. CASE n # 0
  <2>1. Len(ss) = n /\ \A i \in 1..n : ss[i] = each(i)
    BY <1>1
  <2>. HIDE DEF ss
  <2>. HIDE DEF n
  <2>2. PICK g : /\ FlattenSeq(ss) = g[n]
                 /\ g[1] = ss[1]
                 /\ \A i \in 2..n : g[i] = g[i - 1] \o ss[i]
    BY <1>1, <1>5, <2>1, FlattenSeqIs
  <2>. DEFINE Good == {i \in 1..n : Leaves(g[i], i)}
  <2>3. 1 \in Good
    <3>1. 1 \in 1..n /\ g[1] = each(1)
      BY <1>1, <1>5, <2>1, <2>2
    <3>2. users(1) = IF 1 \in users(1) THEN {1} ELSE {}
      BY DEF UsersOf
    <3>3. Leaves(g[1], 1)
      <4>1. /\ each(1) \in Seq(Order)
            /\ Left(each(1), f) = IF 1 \in users(1) THEN SensorsIn(c.service[1].sensors) ELSE {}
            /\ Replaces(each(1), f) <=> 1 \in users(1)
        BY <1>3, <3>1
      <4>. HIDE DEF users
      <4>. QED BY <3>1, <3>2, <4>1
    <3>. QED BY <3>1, <3>3
  <2>4. ASSUME NEW i \in 2..n, i - 1 \in Good PROVE i \in Good
    <3>1. i \in 1..n /\ g[i] = g[i - 1] \o each(i) /\ i - 1 \in 1..n
      <4>1. i \in 1..n /\ i - 1 \in 1..n
        BY <1>1
      <4>. QED BY <2>1, <2>2, <4>1
    <3>. DEFINE before == g[i - 1]
                order == each(i)
    <3>2. Leaves(before, i - 1)
      BY <2>4
    <3>3. /\ order \in Seq(Order)
          /\ Left(order, f) = IF i \in users(i) THEN SensorsIn(c.service[i].sensors) ELSE {}
          /\ Replaces(order, f) <=> i \in users(i)
      BY <1>3, <3>1
    <3>4. g[i] = before \o order
      BY <3>1
    <3>5. /\ users(i) = users(i - 1) \cup (IF i \in users(i) THEN {i} ELSE {})
          /\ \A l \in users(i - 1) : l \in Int /\ l <= i /\ l # i
          /\ i \in Int
      BY <1>1 DEF UsersOf
    <3>. HIDE DEF before, order, users
    <3>6. /\ Left(before \o order, f) =
                IF Replaces(order, f) THEN Left(order, f) ELSE Left(before, f) \cup Left(order, f)
          /\ Replaces(before \o order, f) <=> Replaces(before, f) \/ Replaces(order, f)
          /\ before \o order \in Seq(Order)
      BY <3>2, <3>3, LeftByBoth
    <3>7. CASE i \in users(i)
      <4>0. Replaces(order, f) /\ Left(order, f) = SensorsIn(c.service[i].sensors)
        BY <3>3, <3>7
      <4>. DEFINE given == SensorsIn(c.service[i].sensors)
      <4>3. Replaces(order, f) /\ Left(order, f) = given
        BY <4>0
      <4>. HIDE DEF given
      <4>4. Left(before \o order, f) = given
        BY <3>6, <4>3
      <4>5. Replaces(before \o order, f)
        BY <3>6, <4>3
      <4>1. /\ Left(before \o order, f) = SensorsIn(c.service[i].sensors)
            /\ Replaces(before \o order, f)
        BY <4>4, <4>5 DEF given
      <4>2. ASSUME NEW u \in users(i), \A l \in users(i) : l <= u PROVE u = i
        <5>1. u \in users(i - 1) \/ u = i
          BY <3>5, <3>7
        <5>2. i <= u
          BY <3>7, <4>2
        <5>. QED BY <3>5, <5>1, <5>2
      <4>. QED BY <3>1, <3>4, <3>6, <3>7, <4>1, <4>2
    <3>8. CASE i \notin users(i)
      <4>1. users(i) = users(i - 1)
        BY <3>5, <3>8
      <4>2. /\ Left(before \o order, f) = Left(before, f)
            /\ Replaces(before \o order, f) <=> Replaces(before, f)
        BY <3>3, <3>6, <3>8
      <4>. QED BY <3>1, <3>2, <3>4, <3>6, <4>1, <4>2
    <3>. QED BY <3>7, <3>8
  <2>5. n \in Good
    <3>. HIDE DEF Good
    <3>1. 1..n \subseteq Good
      BY <1>1, <2>3, <2>4, UpToTheLast
    <3>. QED BY <1>1, <1>5, <3>1
  <2>. QED BY <1>2, <2>2, <2>5 DEF n
<1>. QED BY <1>4, <1>5

LEMMA NoSensors == SensorsIn(<<>>) = {} /\ \A sensor : SensorsIn(<<sensor>>) = {sensor}
BY DEF SensorsIn

\* All three layers: a fan is left with the sensors of the one that decides.
LEMMA LeftByAll ==
    ASSUME config \in Configs, NEW f \in Fans
    PROVE  Left(FanTemperatureControls_Init(config), f) = SensorsIn(Deciding(f))
<1>. DEFINE d == SetDefaults
            m == SetByModelConfig(config.model)
            u == SetByServiceConfig(config.service)
            model == config.model[f].sensors
            users == UsersOf(config, f, Len(config.service))
<1>1. FanTemperatureControls_Init(config) = (d \o m) \o u
  BY DEF FanTemperatureControls_Init
<1>2. d \in Seq(Order) /\ Left(d, f) = {"@CPU"}
  BY LeftByDefaults
<1>3. /\ m \in Seq(Order)
      /\ Left(m, f) = SensorsIn(model)
      /\ Replaces(m, f) <=> model # <<>>
  BY LeftByModel
<1>4. /\ u \in Seq(Order)
      /\ users = {} => Left(u, f) = {}
      /\ \A l \in users : (\A k \in users : k <= l) =>
            Left(u, f) = SensorsIn(config.service[l].sensors)
      /\ Replaces(u, f) <=> users # {}
  BY LeftByService
<1>5. Deciding(f) = IF users # {} THEN config.service[Max(users)].sensors
                    ELSE IF model # <<>> THEN model ELSE <<"@CPU">>
  BY DEF Deciding, UsersOf
<1>6. users # {} => Max(users) \in users /\ \A k \in users : k <= Max(users)
  <2>1. Len(config.service) \in Nat
    BY SensorsAssumption
  <2>2. users \subseteq 1..Len(config.service)
    BY DEF UsersOf
  <2>3. IsFiniteSet(1..Len(config.service)) /\ users \subseteq Int
    BY <2>1, <2>2, FS_Interval
  <2>. HIDE DEF users
  <2>4. IsFiniteSet(users)
    BY <2>2, <2>3, FS_Subset
  <2>. QED BY <2>3, <2>4, MaxOfFinite
<1>. HIDE DEF d, m, u, model, users
<1>7. d \o m \in Seq(Order)
  BY <1>2, <1>3
<1>8. Left(d \o m, f) = IF Replaces(m, f) THEN Left(m, f) ELSE Left(d, f) \cup Left(m, f)
  BY <1>2, <1>3, LeftByBoth
<1>9. Left((d \o m) \o u, f) = IF Replaces(u, f) THEN Left(u, f)
                               ELSE Left(d \o m, f) \cup Left(u, f)
  BY <1>4, <1>7, LeftByBoth
<1>10. CASE users # {}
  BY <1>1, <1>4, <1>5, <1>6, <1>9, <1>10
<1>11. CASE users = {} /\ model # <<>>
  BY <1>1, <1>3, <1>4, <1>5, <1>8, <1>9, <1>11
<1>12. CASE users = {} /\ model = <<>>
  BY <1>1, <1>2, <1>3, <1>4, <1>5, <1>8, <1>9, <1>12, NoSensors
<1>. QED BY <1>10, <1>11, <1>12

\* One more order.
LEMMA LeftByOne ==
    ASSUME NEW done \in Seq(Order), NEW order \in Order, NEW f
    PROVE  Left(Append(done, order), f) =
              IF Clears(order, f) THEN {}
              ELSE Left(done, f) \cup (IF Gives(order, f) THEN {SensorOf(order)} ELSE {})
<1>. DEFINE one == <<order>>
<1>1. Append(done, order) = done \o one
  OBVIOUS
<1>2. one \in Seq(Order) /\ Len(one) = 1 /\ one[1] = order
  OBVIOUS
<1>. HIDE DEF one
<1>3. Replaces(one, f) <=> Clears(order, f)
  BY <1>2 DEF Replaces
<1>4. Left(one, f) = IF Gives(order, f) THEN {SensorOf(order)} ELSE {}
  BY <1>2 DEF Left, Stays
<1>5. Clears(order, f) => ~ Gives(order, f)
  BY DEF Clears, Gives
<1>6. Left(done \o one, f) = IF Replaces(one, f) THEN Left(one, f)
                             ELSE Left(done, f) \cup Left(one, f)
  BY <1>2, LeftByBoth
<1>. QED BY <1>1, <1>3, <1>4, <1>5, <1>6

\* The sensors that are left are among those the configuration names.
LEMMA LeftIsNamed ==
    ASSUME config \in Configs, NEW done \in Seq(Order), NEW rest \in Seq(Order),
           FanTemperatureControls_Init(config) = done \o rest, NEW f
    PROVE  Left(done, f) \subseteq Named(config)
<1>. DEFINE orders == FanTemperatureControls_Init(config)
<1>1. orders = done \o rest
  OBVIOUS
<1>. HIDE DEF orders
<1>2. ASSUME NEW i \in 1..Len(done)
      PROVE  i \in 1..Len(orders) /\ orders[i] = done[i]
  BY <1>1
<1>3. ASSUME NEW i \in 1..Len(done), Gives(done[i], f)
      PROVE  SensorOf(done[i]) \in Named(config)
  BY <1>2, <1>3 DEF Gives, SensorOf, Named, orders
<1>. QED BY <1>3 DEF Left, Stays

LEMMA NextIsNamed ==
    ASSUME config \in Configs, NEW done \in Seq(Order), NEW rest \in Seq(Order),
           FanTemperatureControls_Init(config) = done \o rest,
           rest # <<>>, Head(rest).do = "add"
    PROVE  Head(rest).sensor \in Named(config)
<1>. DEFINE orders == FanTemperatureControls_Init(config)
<1>1. orders = done \o rest
  OBVIOUS
<1>. HIDE DEF orders
<1>2. Len(done) + 1 \in 1..Len(orders) /\ orders[Len(done) + 1] = Head(rest)
  BY <1>1
<1>. QED BY <1>2 DEF Named, orders

--------------------------------------------------------------------------------
(* A fan's references and the sensors it has *)

\* A fan refers to what these sensors designate, and every one of them, but for that
\* of the defaults, designates something.
Gathers(f, given) ==
    /\ {refs[f][n] : n \in 1..Len(refs[f])}
         = {i \in 1..Len(sources) : \E s \in given : Matches(s, sources[i])}
    /\ \A s \in given : s = "@CPU" \/ \E i \in 1..Len(sources) : Matches(s, sources[i])

\* Between two orders every fan has the sources of the sensors the orders so far have
\* left it with.
Follows(done) ==
    /\ FanTemperatureControls_Init(config) = done \o todo
    /\ \A f \in Fans : Gathers(f, Left(done, f))

SelectionInv ==
    /\ config \in Configs
    /\ phase \in {"hwmon", "gpu", "nvidia", "found"} =>
          todo = FanTemperatureControls_Init(config)
    /\ phase = "select" => \E done \in Seq(Order) : Follows(done)
    /\ phase \in {"running", "forking", "daemon"} =>
          \A f \in Fans : Gathers(f, SensorsIn(Deciding(f)))

\* The references of a fan after Refer.
LEMMA ReferIs ==
    ASSUME ControlsInv, NEW f \in Fans, NEW n \in Nat, NEW indexes \in Seq(1..n),
           Refer(f, indexes)
    PROVE  /\ \A i : (\E k \in 1..Len(refs'[f]) : i = refs'[f][k])
                 <=> \/ \E k \in 1..Len(refs[f]) : i = refs[f][k]
                     \/ \E k \in 1..Len(indexes) : i = indexes[k]
           /\ \A g \in Fans \ {f} : refs'[g] = refs[g]
<1>. DEFINE a == refs[f]
            ab == refs'[f]
<1>1. a \in Seq(1..Len(sources))
  BY DEF ControlsInv
<1>2. ab = a \o indexes
  BY DEF Refer, ControlsInv
<1>. HIDE DEF a, ab
<1>3. /\ Len(a) \in Nat /\ Len(indexes) \in Nat /\ Len(ab) = Len(a) + Len(indexes)
      /\ \A k \in 1..Len(a) : ab[k] = a[k]
      /\ \A k \in 1..Len(indexes) : ab[Len(a) + k] = indexes[k]
  BY <1>1, <1>2
<1>4. ASSUME NEW k \in 1..Len(ab)
      PROVE  ab[k] \in {a[l] : l \in 1..Len(a)} \cup {indexes[l] : l \in 1..Len(indexes)}
  <2>1. CASE k <= Len(a)
    BY <1>3, <2>1
  <2>2. CASE ~ k <= Len(a)
    <3>1. k - Len(a) \in 1..Len(indexes) /\ Len(a) + (k - Len(a)) = k
      BY <1>3, <2>2
    <3>2. ab[k] = indexes[k - Len(a)]
      BY <1>3, <3>1
    <3>. QED BY <3>1, <3>2
  <2>. QED BY <2>1, <2>2
<1>5. ASSUME NEW k \in 1..Len(a) PROVE a[k] \in {ab[l] : l \in 1..Len(ab)}
  BY <1>3
<1>6. ASSUME NEW k \in 1..Len(indexes) PROVE indexes[k] \in {ab[l] : l \in 1..Len(ab)}
  <2>1. Len(a) + k \in 1..Len(ab) /\ ab[Len(a) + k] = indexes[k]
    BY <1>3
  <2>. QED BY <2>1
<1>7. \A i : (\E k \in 1..Len(ab) : i = ab[k])
          <=> \/ \E k \in 1..Len(a) : i = a[k]
              \/ \E k \in 1..Len(indexes) : i = indexes[k]
  BY <1>4, <1>5, <1>6
<1>8. \A g \in Fans \ {f} : refs'[g] = refs[g]
  BY DEF Refer, ControlsInv
<1>. QED BY <1>7, <1>8 DEF a, ab

LEMMA GathersNothing ==
    ASSUME NEW f \in Fans, refs'[f] = <<>> PROVE Gathers(f, {})'
BY DEF Gathers

LEMMA GathersAsBefore ==
    ASSUME NEW f \in Fans, NEW given, Gathers(f, given), refs'[f] = refs[f], sources' = sources
    PROVE  Gathers(f, given)'
BY DEF Gathers

\* A sensor that designates sources there are, or the default.
LEMMA GathersKnown ==
    ASSUME ControlsInv, NEW f \in Fans, NEW given, Gathers(f, given), sources' = sources,
           NEW sensor, sensor = "@CPU" \/ Matching(sensor) # <<>>,
           Refer(f, Matching(sensor))
    PROVE  Gathers(f, given \cup {sensor})'
<1>. DEFINE n == Len(sources)
            indexes == Matching(sensor)
<1>1. n \in Nat
  BY DEF ControlsInv
<1>2. /\ indexes \in Seq(1..n)
      /\ {indexes[k] : k \in 1..Len(indexes)} = {i \in 1..n : Matches(sensor, sources[i])}
  BY <1>1, MatchingIs
<1>3. Refer(f, indexes) /\ (sensor = "@CPU" \/ indexes # <<>>)
  OBVIOUS
<1>. HIDE DEF indexes
<1>4. \A i : (\E k \in 1..Len(refs'[f]) : i = refs'[f][k])
        <=> \/ \E k \in 1..Len(refs[f]) : i = refs[f][k]
            \/ \E k \in 1..Len(indexes) : i = indexes[k]
  BY <1>1, <1>2, <1>3, ReferIs
<1>5. sensor = "@CPU" \/ \E i \in 1..n : Matches(sensor, sources[i])
  <2>1. ASSUME indexes # <<>> PROVE 1 \in 1..Len(indexes)
    BY <1>2, <2>1
  <2>. QED BY <1>2, <1>3, <2>1
<1>. QED BY <1>2, <1>4, <1>5 DEF Gathers

\* A file or a command no source is of yet: its source is designated by no sensor
\* anyone has, and by its own.
LEMMA GathersNew ==
    ASSUME ControlsInv, NEW f \in Fans, NEW given, Gathers(f, given),
           NEW file \in UserFiles, Matching(file) = <<>>,
           sources' = Append(sources, UserSource(file)),
           \A s \in given : Matches(s, UserSource(file)) => s = file
    PROVE  /\ refs'[f] = refs[f] => Gathers(f, given)'
           /\ Refer(f, <<Len(sources) + 1>>) => Gathers(f, given \cup {file})'
<1>. DEFINE n == Len(sources)
            new == UserSource(file)
<1>1. n \in Nat /\ sources \in Seq(Source)
  BY DEF ControlsInv
<1>2. {i \in 1..n : Matches(file, sources[i])} = {}
  <2>1. {Matching(file)[k] : k \in 1..Len(Matching(file))} = {}
    OBVIOUS
  <2>. QED BY <1>1, <2>1, MatchingIs
<1>3. file # "@CPU" /\ file # "@GPU"
  BY SensorsAssumption
<1>4. Matches(file, new)
  BY <1>3 DEF Matches, UserSource
<1>5. file \notin given
  BY <1>2, <1>3 DEF Gathers
<1>6. \A s \in given : ~ Matches(s, new)
  BY <1>5
<1>. HIDE DEF new
<1>7. /\ Len(sources') = n + 1 /\ sources'[n + 1] = new
      /\ \A i \in 1..n : sources'[i] = sources[i]
  BY <1>1 DEF new
<1>8. 1..(n + 1) = (1..n) \cup {n + 1} /\ n + 1 \notin 1..n
  BY <1>1
<1>9. {i \in 1..(n + 1) : \E s \in given : Matches(s, sources'[i])}
        = {i \in 1..n : \E s \in given : Matches(s, sources[i])}
  BY <1>6, <1>7, <1>8
<1>10. ASSUME NEW s, \E i \in 1..n : Matches(s, sources[i])
       PROVE  \E i \in 1..(n + 1) : Matches(s, sources'[i])
  BY <1>7, <1>8, <1>10
<1>11. ASSUME refs'[f] = refs[f] PROVE Gathers(f, given)'
  BY <1>7, <1>9, <1>10, <1>11 DEF Gathers
<1>12. ASSUME Refer(f, <<n + 1>>) PROVE Gathers(f, given \cup {file})'
  <2>. DEFINE indexes == <<n + 1>>
              m == n + 1
  <2>1. indexes \in Seq(1..m) /\ m \in Nat /\ {indexes[k] : k \in 1..Len(indexes)} = {n + 1}
    BY <1>1
  <2>2. Refer(f, indexes)
    BY <1>12
  <2>. HIDE DEF indexes, m
  <2>3. \A i : (\E k \in 1..Len(refs'[f]) : i = refs'[f][k])
          <=> \/ \E k \in 1..Len(refs[f]) : i = refs[f][k]
              \/ \E k \in 1..Len(indexes) : i = indexes[k]
    BY <2>1, <2>2, ReferIs
  <2>4. {i \in 1..(n + 1) : \E s \in given \cup {file} : Matches(s, sources'[i])}
          = {i \in 1..n : \E s \in given : Matches(s, sources[i])} \cup {n + 1}
    BY <1>2, <1>4, <1>6, <1>7, <1>8
  <2>5. \E i \in 1..(n + 1) : Matches(file, sources'[i])
    BY <1>4, <1>7, <1>8
  <2>6. {refs'[f][k] : k \in 1..Len(refs'[f])} = {refs[f][k] : k \in 1..Len(refs[f])} \cup {n + 1}
    BY <2>1, <2>3
  <2>7. {refs'[f][k] : k \in 1..Len(refs'[f])}
          = {i \in 1..Len(sources') : \E s \in given \cup {file} : Matches(s, sources'[i])}
    BY <1>7, <2>4, <2>6 DEF Gathers
  <2>8. \A s \in given \cup {file} :
          s = "@CPU" \/ \E i \in 1..Len(sources') : Matches(s, sources'[i])
    BY <1>7, <1>10, <2>5 DEF Gathers
  <2>. QED BY <2>7, <2>8 DEF Gathers
<1>. QED BY <1>11, <1>12

\* The next order is as good as done: the list is in two parts as before.
LEMMA OrderDone ==
    ASSUME NEW done \in Seq(Order), NEW rest \in Seq(Order), rest # <<>>
    PROVE  /\ Append(done, Head(rest)) \in Seq(Order)
           /\ Append(done, Head(rest)) \o Tail(rest) = done \o rest
OBVIOUS

\* An order that is carried out leaves every fan with the sources of its sensors.
LEMMA FollowsOn ==
    ASSUME ControlsInv, config \in Configs, SensorsAreUnambiguous,
           NEW done \in Seq(Order), Follows(done),
           SetDefault \/ SetAlgorithm \/ ClearSources \/ AddKnown \/ AddUserFile
    PROVE  \E all \in Seq(Order) : Follows(all)'
<1>1. phase = "select" /\ todo # <<>> /\ config' = config /\ todo' = Tail(todo)
  BY DEF SetDefault, SetAlgorithm, ClearSources, AddKnown, AddUserFile, Selecting, Done
<1>2. PICK order \in Order : order = Head(todo) /\ todo \in Seq(Order)
  BY <1>1, NextOrder DEF ControlsInv
<1>. DEFINE all == Append(done, order)
            f == order.fan
            sensor == order.sensor
<1>3. /\ all \in Seq(Order)
      /\ FanTemperatureControls_Init(config) = all \o Tail(todo)
  BY <1>1, <1>2, OrderDone DEF Follows
<1>4. FanTemperatureControls_Init(config') = all \o todo'
  BY <1>1, <1>3
<1>5. ASSUME NEW g \in Fans
      PROVE  /\ Gathers(g, Left(done, g))
             /\ Left(all, g) = IF Clears(order, g) THEN {}
                               ELSE Left(done, g)
                                    \cup (IF Gives(order, g) THEN {SensorOf(order)} ELSE {})
             /\ Left(done, g) \subseteq Named(config)
  <2>1. Gathers(g, Left(done, g)) /\ FanTemperatureControls_Init(config) = done \o todo
    BY DEF Follows
  <2>2. Left(done, g) \subseteq Named(config)
    BY <1>2, <2>1, LeftIsNamed
  <2>3. Left(Append(done, order), g) = IF Clears(order, g) THEN {}
                               ELSE Left(done, g)
                                    \cup (IF Gives(order, g) THEN {SensorOf(order)} ELSE {})
    BY <1>2, LeftByOne
  <2>. QED BY <2>1, <2>2, <2>3
<1>6. order.do = "add" => order.sensor \in Named(config)
  BY <1>1, <1>2, NextIsNamed DEF Follows
<1>7. order.do \in {"default", "add", "clear", "algorithm"} => order.fan \in Fans
  BY <1>2 DEF Order
<1>8. SUFFICES ASSUME NEW g \in Fans PROVE Gathers(g, Left(all, g))'
  BY <1>3, <1>4 DEF Follows
<1>9. CASE SetDefault
  <2>1. order.do = "default" /\ Refer(f, Matching("@CPU")) /\ sources' = sources /\ f \in Fans
    BY <1>2, <1>7, <1>9 DEF SetDefault, Selecting
  <2>2. Left(all, g) = IF g = f THEN Left(done, g) \cup {"@CPU"} ELSE Left(done, g)
    BY <1>5, <2>1 DEF Clears, Gives, SensorOf
  <2>. HIDE DEF all, f
  <2>3. CASE g = f
    <3>1. Gathers(g, Left(done, g) \cup {"@CPU"})'
      BY <1>5, <2>1, <2>3, GathersKnown
    <3>. QED BY <2>2, <2>3, <3>1
  <2>4. CASE g # f
    <3>1. refs'[g] = refs[g]
      BY <2>1, <2>4 DEF Refer, ControlsInv
    <3>2. Gathers(g, Left(done, g))'
      BY <1>5, <2>1, <3>1, GathersAsBefore
    <3>. QED BY <2>2, <2>4, <3>2
  <2>. QED BY <2>3, <2>4
<1>10. CASE SetAlgorithm
  <2>1. order.do = "algorithm" /\ refs' = refs /\ sources' = sources
    BY <1>2, <1>10 DEF SetAlgorithm, Selecting
  <2>2. Left(all, g) = Left(done, g)
    BY <1>5, <2>1 DEF Clears, Gives
  <2>3. Gathers(g, Left(done, g))'
    BY <1>5, <2>1, GathersAsBefore
  <2>. HIDE DEF all
  <2>. QED BY <2>2, <2>3
<1>11. CASE ClearSources
  <2>1. order.do = "clear" /\ refs' = [refs EXCEPT ![f] = <<>>] /\ sources' = sources /\ f \in Fans
    BY <1>2, <1>7, <1>11 DEF ClearSources, Selecting
  <2>2. Left(all, g) = IF g = f THEN {} ELSE Left(done, g)
    BY <1>5, <2>1 DEF Clears, Gives
  <2>. HIDE DEF all, f
  <2>3. CASE g = f
    <3>1. refs'[g] = <<>>
      BY <2>1, <2>3 DEF ControlsInv
    <3>2. Gathers(g, {})'
      BY <3>1, GathersNothing
    <3>. QED BY <2>2, <2>3, <3>2
  <2>4. CASE g # f
    <3>1. refs'[g] = refs[g]
      BY <2>1, <2>4 DEF ControlsInv
    <3>2. Gathers(g, Left(done, g))'
      BY <1>5, <2>1, <3>1, GathersAsBefore
    <3>. QED BY <2>2, <2>4, <3>2
  <2>. QED BY <2>3, <2>4
<1>12. CASE AddKnown
  <2>1. /\ order.do = "add" /\ Refer(f, Matching(sensor)) /\ sources' = sources /\ f \in Fans
        /\ Matching(sensor) # <<>>
    BY <1>2, <1>7, <1>12 DEF AddKnown, Selecting
  <2>2. Left(all, g) = IF g = f THEN Left(done, g) \cup {sensor} ELSE Left(done, g)
    BY <1>5, <2>1 DEF Clears, Gives, SensorOf
  <2>. HIDE DEF all, f, sensor
  <2>3. CASE g = f
    <3>1. Gathers(g, Left(done, g) \cup {sensor})'
      BY <1>5, <2>1, <2>3, GathersKnown
    <3>. QED BY <2>2, <2>3, <3>1
  <2>4. CASE g # f
    <3>1. refs'[g] = refs[g]
      BY <2>1, <2>4 DEF Refer, ControlsInv
    <3>2. Gathers(g, Left(done, g))'
      BY <1>5, <2>1, <3>1, GathersAsBefore
    <3>. QED BY <2>2, <2>4, <3>2
  <2>. QED BY <2>3, <2>4
<1>13. CASE AddUserFile
  <2>1. /\ order.do = "add" /\ Refer(f, <<Len(sources) + 1>>) /\ f \in Fans
        /\ sources' = Append(sources, UserSource(sensor))
        /\ sensor \in UserFiles /\ Matching(sensor) = <<>>
    BY <1>2, <1>7, <1>13 DEF AddUserFile, Selecting
  <2>2. Left(all, g) = IF g = f THEN Left(done, g) \cup {sensor} ELSE Left(done, g)
    BY <1>5, <2>1 DEF Clears, Gives, SensorOf
  <2>3. sensor \in Named(config) \cap UserFiles
    BY <1>6, <2>1
  <2>. HIDE DEF all, f, sensor
  <2>4. \A s \in Left(done, g) : Matches(s, UserSource(sensor)) => s = sensor
    BY <1>5, <2>3 DEF SensorsAreUnambiguous
  <2>5. CASE g = f
    <3>1. Refer(g, <<Len(sources) + 1>>)
      BY <2>1, <2>5
    <3>2. Gathers(g, Left(done, g) \cup {sensor})'
      BY <1>5, <2>1, <2>4, <3>1, GathersNew
    <3>. QED BY <2>2, <2>5, <3>2
  <2>6. CASE g # f
    <3>1. refs'[g] = refs[g]
      BY <2>1, <2>6 DEF Refer, ControlsInv
    <3>2. Gathers(g, Left(done, g))'
      BY <1>5, <2>1, <2>4, <3>1, GathersNew
    <3>. QED BY <2>2, <2>6, <3>2
  <2>. QED BY <2>5, <2>6
<1>. QED BY <1>9, <1>10, <1>11, <1>12, <1>13

LEMMA SelectionStep ==
    ASSUME ControlsInv, SelectionInv, SensorsAreUnambiguous, [Next]_vars
    PROVE  SelectionInv'
<1>1. CASE HwMonFound \/ HwMonMissing \/ HwMonGivenUp \/ CheckVFIO \/ NvidiaFound
           \/ NvidiaNotReady \/ NvidiaMissing
  <2>1. /\ config' = config /\ todo' = todo
        /\ phase \in {"hwmon", "gpu", "nvidia"} /\ phase' \in {"hwmon", "gpu", "nvidia", "found"}
    BY <1>1 DEF HwMonFound, HwMonMissing, HwMonGivenUp, CheckVFIO, NvidiaFound, NvidiaNotReady,
                NvidiaMissing
  <2>. QED BY <2>1 DEF SelectionInv
<1>2. CASE SensorsInitialized
  <2>1. /\ config' = config /\ todo' = todo /\ sources' = sources /\ refs' = refs
        /\ phase = "found" /\ phase' \in {"failed", "select"}
    BY <1>2 DEF SensorsInitialized, controls
  <2>2. FanTemperatureControls_Init(config') = <<>> \o todo' /\ <<>> \in Seq(Order)
    BY <2>1 DEF SelectionInv, ControlsInv
  <2>3. ASSUME NEW f \in Fans PROVE Gathers(f, Left(<<>>, f))'
    <3>1. refs'[f] = <<>>
      BY <2>1 DEF ControlsInv
    <3>2. Gathers(f, {})'
      BY <3>1, GathersNothing
    <3>. QED BY <3>2, LeftByNone
  <2>4. Follows(<<>>)'
    BY <2>2, <2>3 DEF Follows
  <2>. QED BY <2>1, <2>2, <2>4 DEF SelectionInv
<1>3. CASE SetDefault \/ SetAlgorithm \/ ClearSources \/ AddKnown \/ AddUserFile
  <2>1. config' = config /\ phase = "select" /\ phase' = "select"
    BY <1>3 DEF SetDefault, SetAlgorithm, ClearSources, AddKnown, AddUserFile, Selecting, Done
  <2>2. config \in Configs /\ \E done \in Seq(Order) : Follows(done)
    BY <2>1 DEF SelectionInv
  <2>3. \E done \in Seq(Order) : Follows(done)'
    BY <1>3, <2>2, FollowsOn
  <2>. QED BY <2>1, <2>2, <2>3 DEF SelectionInv
<1>4. CASE Selected
  <2>1. /\ config' = config /\ sources' = sources /\ refs' = refs
        /\ phase = "select" /\ phase' = "running" /\ todo = <<>>
    BY <1>4 DEF Selected, controls
  <2>2. config \in Configs
    BY DEF SelectionInv
  <2>3. PICK done \in Seq(Order) : Follows(done)
    BY <2>1 DEF SelectionInv
  <2>4. done = FanTemperatureControls_Init(config)
    BY <2>1, <2>3 DEF Follows
  <2>5. ASSUME NEW f \in Fans PROVE Gathers(f, SensorsIn(Deciding(f)))'
    <3>1. Left(done, f) = SensorsIn(Deciding(f))
      BY <2>2, <2>4, LeftByAll
    <3>2. Gathers(f, SensorsIn(Deciding(f)))
      BY <2>3, <3>1 DEF Follows
    <3>3. Deciding(f)' = Deciding(f)
      BY <2>1 DEF Deciding
    <3>. QED BY <2>1, <3>2, <3>3 DEF Gathers
  <2>. QED BY <2>1, <2>2, <2>5 DEF SelectionInv
<1>5. CASE \/ \E f \in Fans, r \in Readings : FanTemperatureControl_UpdateFanTemperature(f, r)
           \/ Fork \/ ReinitializeNvidia
  <2>1. /\ config' = config /\ sources' = sources /\ refs' = refs
        /\ phase \in {"running", "forking", "daemon"} /\ phase' \in {"running", "forking", "daemon"}
    BY <1>5 DEF FanTemperatureControl_UpdateFanTemperature, Fork, ReinitializeNvidia, controls
  <2>2. ASSUME NEW f \in Fans PROVE Gathers(f, SensorsIn(Deciding(f)))'
    <3>1. Gathers(f, SensorsIn(Deciding(f)))
      BY <2>1 DEF SelectionInv
    <3>2. Deciding(f)' = Deciding(f)
      BY <2>1 DEF Deciding
    <3>. QED BY <2>1, <3>1, <3>2 DEF Gathers
  <2>. QED BY <2>1, <2>2 DEF SelectionInv
<1>6. CASE SelectFails \/ FS_Sensors_Cleanup
  <2>1. config' = config /\ phase' \in {"failed", "ended"}
    BY <1>6 DEF SelectFails, FS_Sensors_Cleanup
  <2>. QED BY <2>1 DEF SelectionInv
<1>7. CASE UNCHANGED vars
  <2>1. /\ config' = config /\ sources' = sources /\ refs' = refs /\ phase' = phase /\ todo' = todo
    BY <1>7 DEF vars, controls
  <2>2. \A f \in Fans : Gathers(f, SensorsIn(Deciding(f)))' = Gathers(f, SensorsIn(Deciding(f)))
    <3>1. \A f \in Fans : Deciding(f)' = Deciding(f)
      BY <2>1 DEF Deciding
    <3>. QED BY <2>1, <3>1 DEF Gathers
  <2>3. \A done : Follows(done)' = Follows(done)
    BY <2>1 DEF Follows, Gathers
  <2>. QED BY <2>1, <2>2, <2>3 DEF SelectionInv
<1>. QED
  BY <1>1, <1>2, <1>3, <1>4, <1>5, <1>6, <1>7 DEF Next, FS_Sensors_Init, Select, Serve

\* Whatever hwmon and libnvidia-ml show and whatever the three layers name, in any order
\* and over each other, with files and commands that are added on the way and shared by
\* fans: a started service takes a fan's temperature from all the sources the deciding
\* layer names and from no others.  The configurations are assumed to name no sensor
\* that designates the source of another.
THEOREM SourcesFollow ==
    ASSUME SensorsAreUnambiguous PROVE Spec => []SourcesFollowTheConfig
<1>1. Init => SelectionInv
  BY DEF Init, SelectionInv
<1>2. SelectionInv => SourcesFollowTheConfig
  BY DEF SelectionInv, SourcesFollowTheConfig, Gathers, SensorsIn
<1>3. SelectionInv /\ ControlsInv /\ [Next]_vars => SelectionInv'
  BY SelectionStep
<1>. QED BY <1>1, <1>2, <1>3, ReferencesAreSources, PTL DEF Spec

===============================================================================
