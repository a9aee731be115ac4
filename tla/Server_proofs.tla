------------------------------ MODULE Server_proofs ------------------------------
(***************************************************************************)
(* Theorems about Server.tla, for any number of connections and slots and  *)
(* buffers of any size.                                                    *)
(***************************************************************************)
EXTENDS Server, FiniteLemmas

\* Types; a buffer always has room for the end of the string (Server_Clients is
\* an array of fixed size).
TypeOK ==
    /\ pc \in {"poll", "accept", "handle"}
    /\ clients \in [Slots -> Connections \cup {None}]
    /\ buf \in [Slots -> Seq(Units)]
    /\ \A i \in Slots : Len(buf[i]) <= BufferSize - 1
    /\ polled \in SUBSET Connections
    /\ state \in [Connections -> {"queued", "open", "closed"}]
    /\ queue \in Seq(Connections)
    /\ stream \in [Connections -> Seq(Units)]
    /\ ended \in SUBSET Connections /\ reset \in SUBSET Connections
    /\ answers \in [Connections -> Nat]

\* The open connections are those in slots, each in a slot of its own:
\* Server_FindClientByFileDescriptor finds the only one.
OneSlotEach ==
    /\ \A c \in Connections : state[c] = "open" <=> \E i \in Slots : clients[i] = c
    /\ \A i, j \in Slots : clients[i] # None /\ clients[i] = clients[j] => i = j

\* A connection whose event is still to be handled has not been closed by the
\* handling of another, nor by the refusal of a third.
PolledAreOpen ==
    /\ \A c \in polled : state[c] = "open"
    /\ pc = "poll" => polled = {}

\* What accept() is still to return has not been accepted, and nobody waits
\* twice.
QueuedOnce ==
    /\ \A n \in 1..Len(queue) : state[queue[n]] = "queued"
    /\ \A m, n \in 1..Len(queue) : queue[m] = queue[n] => m = n

ServerInv == TypeOK /\ OneSlotEach /\ PolledAreOpen /\ QueuedOnce /\ AnsweredOnce

-----------------------------------------------------------------------------
LEMMA SlotOfOpen ==
    ASSUME ServerInv, NEW c \in Connections, state[c] = "open"
    PROVE  SlotOf(c) \in Slots /\ clients[SlotOf(c)] = c
BY DEF ServerInv, OneSlotEach, SlotOf

\* Server_ReceiveMessage does not write beyond the buffer.
LEMMA ReceivedFits ==
    ASSUME ServerInv, NEW c \in Connections, state[c] = "open"
    PROVE  Received(c) \in Seq(Units) /\ Len(Received(c)) <= BufferSize - 1
<1>. DEFINE all == buf[SlotOf(c)] \o stream[c]
            n == Min({Len(all), BufferSize - 1})
<1>1. all \in Seq(Units) /\ Len(all) \in Nat
  BY SlotOfOpen DEF ServerInv, TypeOK
<1>2. n \in Nat /\ n <= Len(all) /\ n <= BufferSize - 1
  <2>1. Len(all) \in Int /\ BufferSize - 1 \in Int /\ BufferSize - 1 >= 0
    BY <1>1, ServerAssumption
  <2>. HIDE DEF all
  <2>2. n = IF Len(all) <= BufferSize - 1 THEN Len(all) ELSE BufferSize - 1
    BY <2>1, MinOfTwo
  <2>. HIDE DEF n
  <2>. QED BY <1>1, <2>1, <2>2
<1>3. Received(c) = SubSeq(all, 1, n)
  BY DEF Received
<1>. HIDE DEF all, n
<1>. QED BY <1>1, <1>2, <1>3, ServerAssumption

\* The connection accept() returns leaves the queue, and no other.
LEMMA AcceptTakesOne ==
    ASSUME ServerInv, NEW c \in Connections, Accepts(c), queue' = Tail(queue)
    PROVE  /\ state[c] = "queued"
           /\ queue' \in Seq(Connections)
           /\ \A n \in 1..Len(queue') : queue'[n] # c /\ state[queue'[n]] = "queued"
           /\ \A m, n \in 1..Len(queue') : queue'[m] = queue'[n] => m = n
<1>1. /\ queue \in Seq(Connections) /\ queue # <<>> /\ c = queue[1]
      /\ Len(queue) \in Nat \ {0}
  BY DEF ServerInv, TypeOK, Accepts
<1>2. /\ queue' \in Seq(Connections) /\ Len(queue') = Len(queue) - 1
      /\ \A n \in 1..Len(queue') : queue'[n] = queue[n + 1]
  BY <1>1
<1>3. \A n \in 1..Len(queue') : n + 1 \in 1..Len(queue) /\ n + 1 # 1
  BY <1>1, <1>2
<1>4. 1 \in 1..Len(queue)
  BY <1>1
<1>. QED BY <1>1, <1>2, <1>3, <1>4 DEF ServerInv, QueuedOnce

\* What closing a connection leaves: its slot is free, and the others' slots and
\* answers are as they were.
LEMMA CloseKeeps ==
    ASSUME ServerInv, NEW c \in Connections, Turn(c), Close(c),
           answers' \in {answers, [answers EXCEPT ![c] = @ + 1]}
    PROVE  ServerInv'
<1>. USE DEF ServerInv
<1>1. c \in polled /\ state[c] = "open" /\ pc = "handle"
  BY DEF Turn, PolledAreOpen
<1>2. PICK i \in Slots : i = SlotOf(c) /\ clients[i] = c
  BY <1>1, SlotOfOpen
<1>3. /\ clients' = [clients EXCEPT ![i] = None]
      /\ buf' = [buf EXCEPT ![i] = <<>>]
      /\ state' = [state EXCEPT ![c] = "closed"]
      /\ stream' = [stream EXCEPT ![c] = <<>>]
      /\ ended' = ended \ {c} /\ reset' = reset \ {c}
      /\ polled' = polled \ {c} /\ pc' = pc /\ queue' = queue
  BY <1>2 DEF Close, Shut, Turn
<1>4. TypeOK'
  <2>1. /\ clients' \in [Slots -> Connections \cup {None}]
        /\ buf' \in [Slots -> Seq(Units)]
        /\ \A j \in Slots : Len(buf'[j]) <= BufferSize - 1
    BY <1>3, ServerAssumption DEF TypeOK
  <2>2. answers' \in [Connections -> Nat]
    BY DEF TypeOK
  <2>. QED BY <1>3, <2>1, <2>2 DEF TypeOK
<1>5. OneSlotEach'
  <2>1. \A j \in Slots : clients'[j] = IF j = i THEN None ELSE clients[j]
    BY <1>3 DEF TypeOK
  <2>2. \A d \in Connections : state'[d] = IF d = c THEN "closed" ELSE state[d]
    BY <1>3 DEF TypeOK
  <2>3. \A j \in Slots : clients[j] = c => j = i
    BY <1>2, ServerAssumption DEF OneSlotEach
  <2>4. ASSUME NEW d \in Connections
        PROVE  state'[d] = "open" <=> \E j \in Slots : clients'[j] = d
    BY <1>2, <2>1, <2>2, <2>3, <2>4, ServerAssumption DEF OneSlotEach
  <2>. QED BY <2>1, <2>4 DEF OneSlotEach
<1>6. PolledAreOpen'
  BY <1>1, <1>3 DEF PolledAreOpen, TypeOK
<1>7. AnsweredOnce'
  BY <1>1, <1>3 DEF AnsweredOnce, TypeOK
<1>8. QueuedOnce'
  BY <1>1, <1>3 DEF QueuedOnce, TypeOK
<1>. QED BY <1>4, <1>5, <1>6, <1>7, <1>8

(***************************************************************************)
(* The steps.                                                              *)
(***************************************************************************)
LEMMA LoopStep ==
    ASSUME ServerInv, Server_Loop
    PROVE  ServerInv'
<1>. USE ServerAssumption DEF ServerInv, environment
<1>1. CASE PollWakes
  <2>. DEFINE ready == {c \in InSlots : Readable(c)}
  <2>1. \A c \in ready : c \in Connections /\ state[c] = "open"
    BY DEF InSlots, OneSlotEach, TypeOK
  <2>2. /\ polled' = ready /\ pc' \in {"accept", "handle"}
        /\ UNCHANGED <<clients, buf, state, queue, stream, ended, reset, answers>>
    BY <1>1 DEF PollWakes
  <2>. HIDE DEF ready
  <2>. QED
    BY <2>1, <2>2 DEF TypeOK, OneSlotEach, PolledAreOpen, QueuedOnce, AnsweredOnce, Slots
<1>2. CASE LoopReturns
  BY <1>2
  DEF LoopReturns, TypeOK, OneSlotEach, PolledAreOpen, QueuedOnce, AnsweredOnce, Slots
<1>3. ASSUME NEW c \in Connections, AcceptClient(c) PROVE ServerInv'
  <2>1. PICK i \in Slots : i = Min(Free) /\ clients[i] = None
    <3>1. Free # {} /\ Free \subseteq Nat
      BY <1>3 DEF AcceptClient, Free, Slots
    <3>2. Min(Free) \in Free
      BY <3>1, MinOfNaturals
    <3>. QED BY <3>2 DEF Free
  <2>2. /\ clients' = [clients EXCEPT ![i] = c]
        /\ buf' = [buf EXCEPT ![i] = <<>>]
        /\ state' = [state EXCEPT ![c] = "open"]
        /\ pc' = "handle" /\ Accepts(c) /\ queue' = Tail(queue)
        /\ UNCHANGED <<polled, stream, ended, reset, answers>>
    BY <1>3, <2>1 DEF AcceptClient
  <2>0. /\ state[c] = "queued"
        /\ queue' \in Seq(Connections)
        /\ \A n \in 1..Len(queue') : queue'[n] # c /\ state[queue'[n]] = "queued"
        /\ \A m, n \in 1..Len(queue') : queue'[m] = queue'[n] => m = n
    BY <2>2, AcceptTakesOne
  <2>3. TypeOK'
    BY <2>2, <2>0 DEF TypeOK
  <2>4. OneSlotEach'
    <3>1. \A j \in Slots : clients'[j] = IF j = i THEN c ELSE clients[j]
      BY <2>2 DEF TypeOK
    <3>2. \A d \in Connections : state'[d] = IF d = c THEN "open" ELSE state[d]
      BY <2>2 DEF TypeOK
    <3>3. \A j \in Slots : clients[j] # c
      BY <2>0 DEF OneSlotEach
    <3>. QED BY <2>1, <3>1, <3>2, <3>3 DEF OneSlotEach
  <2>5. PolledAreOpen' /\ AnsweredOnce'
    BY <2>2, <2>0 DEF PolledAreOpen, AnsweredOnce, TypeOK
  <2>6. QueuedOnce'
    <3>1. \A n \in 1..Len(queue') : queue'[n] \in Connections
      BY <2>0
    <3>2. \A d \in Connections : d # c => state'[d] = state[d]
      BY <2>2 DEF TypeOK
    <3>. QED BY <2>0, <3>1, <3>2 DEF QueuedOnce
  <2>. QED BY <2>3, <2>4, <2>5, <2>6
<1>4. ASSUME NEW c \in Connections, RefuseClient(c) PROVE ServerInv'
  <2>1. /\ state' = [state EXCEPT ![c] = "closed"]
        /\ Accepts(c) /\ queue' = Tail(queue)
        /\ stream' = [stream EXCEPT ![c] = <<>>]
        /\ ended' = ended \ {c} /\ reset' = reset \ {c}
        /\ pc' = "poll" /\ polled' = {}
        /\ UNCHANGED <<clients, buf, answers>>
    BY <1>4 DEF RefuseClient, Shut
  <2>0. /\ state[c] = "queued"
        /\ queue' \in Seq(Connections)
        /\ \A n \in 1..Len(queue') : queue'[n] # c /\ state[queue'[n]] = "queued"
        /\ \A m, n \in 1..Len(queue') : queue'[m] = queue'[n] => m = n
    BY <2>1, AcceptTakesOne
  <2>2. TypeOK'
    BY <2>1, <2>0 DEF TypeOK
  <2>3. OneSlotEach' /\ PolledAreOpen' /\ AnsweredOnce'
    BY <2>1, <2>0 DEF TypeOK, OneSlotEach, PolledAreOpen, AnsweredOnce
  <2>4. QueuedOnce'
    <3>1. \A n \in 1..Len(queue') : queue'[n] \in Connections
      BY <2>0
    <3>2. \A d \in Connections : d # c => state'[d] = state[d]
      BY <2>1 DEF TypeOK
    <3>. QED BY <2>0, <3>1, <3>2 DEF QueuedOnce
  <2>. QED BY <2>2, <2>3, <2>4
<1>5. ASSUME NEW c \in Connections, Handle(c) \/ HandleTooLarge(c) \/ ReadFails(c)
      PROVE  ServerInv'
  BY <1>5, CloseKeeps DEF Handle, HandleTooLarge, ReadFails
<1>6. ASSUME NEW c \in Connections, KeepReading(c) PROVE ServerInv'
  <2>1. c \in polled /\ state[c] = "open" /\ pc = "handle"
    BY <1>6 DEF KeepReading, Turn, PolledAreOpen
  <2>2. SlotOf(c) \in Slots
    BY <2>1, SlotOfOpen
  <2>3. Received(c) \in Seq(Units) /\ Len(Received(c)) <= BufferSize - 1
    BY <2>1, ReceivedFits
  <2>4. /\ buf' = [buf EXCEPT ![SlotOf(c)] = Received(c)]
        /\ stream' = [stream EXCEPT ![c] = <<>>]
        /\ polled' = polled \ {c} /\ pc' = pc
        /\ UNCHANGED <<clients, state, queue, ended, reset, answers>>
    BY <1>6 DEF KeepReading, Turn
  <2>5. TypeOK'
    BY <2>2, <2>3, <2>4 DEF TypeOK
  <2>6. OneSlotEach' /\ PolledAreOpen' /\ QueuedOnce' /\ AnsweredOnce'
    BY <2>1, <2>4 DEF OneSlotEach, PolledAreOpen, QueuedOnce, AnsweredOnce
  <2>. QED BY <2>5, <2>6
<1>. QED BY <1>1, <1>2, <1>3, <1>4, <1>5, <1>6 DEF Server_Loop

\* Clients only open, write and close their ends of connections.
LEMMA ClientStep ==
    ASSUME ServerInv, NEW c \in Connections, Connect(c) \/ Write(c) \/ End(c)
    PROVE  ServerInv'
<1>. USE ServerAssumption DEF ServerInv, environment
<1>1. CASE Connect(c)
  <2>1. /\ state[c] = "closed" /\ state' = [state EXCEPT ![c] = "queued"]
        /\ queue' = Append(queue, c) /\ answers' = [answers EXCEPT ![c] = 0]
        /\ UNCHANGED <<pc, clients, buf, polled, stream, ended, reset>>
    BY <1>1 DEF Connect
  <2>2. queue \in Seq(Connections) /\ \A n \in 1..Len(queue) : queue[n] # c
    BY <2>1 DEF QueuedOnce, TypeOK
  <2>3. /\ queue' \in Seq(Connections) /\ Len(queue') = Len(queue) + 1
        /\ \A n \in 1..Len(queue') :
             queue'[n] = IF n = Len(queue') THEN c ELSE queue[n]
    BY <2>1, <2>2
  <2>4. QueuedOnce'
    <3>1. \A n \in 1..Len(queue') : n = Len(queue') \/ n \in 1..Len(queue)
      BY <2>2, <2>3
    <3>. QED BY <2>1, <2>2, <2>3, <3>1 DEF QueuedOnce, TypeOK
  <2>5. TypeOK' /\ OneSlotEach' /\ PolledAreOpen' /\ AnsweredOnce'
    BY <2>1, <2>3 DEF TypeOK, OneSlotEach, PolledAreOpen, AnsweredOnce
  <2>. QED BY <2>4, <2>5
<1>2. CASE Write(c)
  <2>1. PICK u \in Units : stream' = [stream EXCEPT ![c] = Append(@, u)]
    BY <1>2 DEF Write
  <2>2. TypeOK'
    BY <1>2, <2>1 DEF Write, TypeOK
  <2>3. OneSlotEach' /\ PolledAreOpen' /\ QueuedOnce' /\ AnsweredOnce'
    BY <1>2 DEF Write, OneSlotEach, PolledAreOpen, QueuedOnce, AnsweredOnce
  <2>. QED BY <2>2, <2>3
<1>3. CASE End(c)
  BY <1>3 DEF End, TypeOK, OneSlotEach, PolledAreOpen, QueuedOnce, AnsweredOnce
<1>. QED BY <1>1, <1>2, <1>3

LEMMA ServerInvariant == Spec => []ServerInv
<1>1. Init => ServerInv
  BY ServerAssumption DEF Init, ServerInv, TypeOK, OneSlotEach, PolledAreOpen,
     QueuedOnce, AnsweredOnce, Slots
<1>2. ServerInv /\ [Next]_vars => ServerInv'
  <2>. SUFFICES ASSUME ServerInv, [Next]_vars PROVE ServerInv'
    OBVIOUS
  <2>1. CASE Server_Loop
    BY <2>1, LoopStep
  <2>2. CASE AcceptFails
    BY <2>2 DEF AcceptFails, environment, ServerInv, TypeOK, OneSlotEach,
       PolledAreOpen, QueuedOnce, AnsweredOnce, Slots
  <2>3. CASE \E c \in Connections : Connect(c) \/ Write(c) \/ End(c)
    BY <2>3, ClientStep
  <2>4. CASE UNCHANGED vars
    BY <2>4
    DEF vars, ServerInv, TypeOK, OneSlotEach, PolledAreOpen, QueuedOnce, AnsweredOnce, Slots
  <2>. QED BY <2>1, <2>2, <2>3, <2>4 DEF Next
<1>. QED BY <1>1, <1>2, PTL DEF Spec

\* Types, and no receive buffer is ever written beyond its end.
THEOREM ServerTypes == Spec => []TypeOK
<1>1. ServerInv => TypeOK
  BY DEF ServerInv
<1>. QED BY <1>1, ServerInvariant, PTL

\* Whatever the clients send, and whenever they go: a connection is answered and
\* has its command run once at most, and is closed then.
THEOREM AnswersOnce == Spec => []AnsweredOnce
<1>1. ServerInv => AnsweredOnce
  BY DEF ServerInv
<1>. QED BY <1>1, ServerInvariant, PTL

-----------------------------------------------------------------------------
(* Refusals *)

Open == {d \in Connections : state[d] = "open"}

\* Server_AllocateClient returns NULL when there are as many open connections as
\* slots.
LEMMA NoSlotIsFull ==
    ASSUME ServerInv, Free = {}
    PROVE  Cardinality(Open) = MaxConnections
<1>1. \A i \in Slots : clients[i] \in Open
  BY ServerAssumption DEF Free, ServerInv, TypeOK, OneSlotEach, Open
<1>2. \A i, j \in Slots : clients[i] = clients[j] => i = j
  BY <1>1, ServerAssumption DEF ServerInv, OneSlotEach, Open
<1>3. \A d \in Open : \E i \in Slots : clients[i] = d
  BY DEF ServerInv, OneSlotEach, Open
<1>4. clients \in [Slots -> Open]
  BY <1>1 DEF ServerInv, TypeOK
<1>5. clients \in Bijection(Slots, Open)
  BY <1>2, <1>3, <1>4 DEF Bijection, Injection, Surjection, IsInjective
<1>6. ExistsBijection(1..MaxConnections, Open)
  BY <1>5 DEF ExistsBijection, Slots
<1>. QED BY <1>6, FS_CountingElements, ServerAssumption

\* The handling of a client closes open connections only, and queued ones are
\* closed where no slot was found.
LEMMA ClosedFromTheQueue ==
    ASSUME ServerInv, Next, NEW c \in Connections,
           state[c] = "queued", state'[c] = "closed"
    PROVE  Free = {}
<1>. USE DEF ServerInv
<1>1. CASE PollWakes \/ LoopReturns \/ AcceptFails
  BY <1>1 DEF PollWakes, LoopReturns, AcceptFails
<1>2. ASSUME NEW d \in Connections, AcceptClient(d) PROVE Free = {}
  BY <1>2 DEF AcceptClient, TypeOK
<1>3. ASSUME NEW d \in Connections, RefuseClient(d) PROVE Free = {}
  BY <1>3 DEF RefuseClient
<1>4. ASSUME NEW d \in Connections, Handle(d) \/ HandleTooLarge(d) \/ ReadFails(d)
      PROVE  Free = {}
  <2>1. d \in polled /\ state' = [state EXCEPT ![d] = "closed"]
    BY <1>4 DEF Handle, HandleTooLarge, ReadFails, Turn, Close, Shut
  <2>2. state[d] = "open" /\ d # c
    BY <2>1 DEF PolledAreOpen
  <2>. QED BY <2>1, <2>2 DEF TypeOK
<1>5. ASSUME NEW d \in Connections, KeepReading(d) PROVE Free = {}
  BY <1>5 DEF KeepReading
<1>6. ASSUME NEW d \in Connections, Connect(d) \/ Write(d) \/ End(d) PROVE Free = {}
  BY <1>6 DEF Connect, Write, End, TypeOK
<1>. QED BY <1>1, <1>2, <1>3, <1>4, <1>5, <1>6 DEF Next, Server_Loop

\* A client is turned away only by a server that has all its slots in use.
THEOREM RefusesWhenFull == Spec => RefusesOnlyWhenFull
<1>1. ServerInv /\ [Next]_vars =>
        [\A c \in Connections :
            state[c] = "queued" /\ state'[c] = "closed" =>
                Cardinality({d \in Connections : state[d] = "open"}) = MaxConnections]_vars
  BY ClosedFromTheQueue, NoSlotIsFull DEF Open
<1>. QED BY <1>1, ServerInvariant, PTL DEF Spec, RefusesOnlyWhenFull
=================================================================================
