--------------------------------- MODULE Server ---------------------------------
(***************************************************************************)
(* The socket server of src/server.c: Server_Loop, its client slots and    *)
(* their buffers.  What a command does to the fans is in Service.tla.      *)
(*                                                                         *)
(* A connection is a stream of units, a stretch of a message or the end    *)
(* marker.  Clients write, close and connect at any time, also while       *)
(* Server_Loop is between two of its steps, and connect again when their   *)
(* connection is gone: connections come without end.                       *)
(***************************************************************************)
EXTENDS Naturals, SequencesExt, FiniteSetsExt

CONSTANTS
    Connections,    \* the connections there may be at a time
    Writers,        \* bound: the connections whose clients send anything
    MaxConnections, \* NBFC_MAX_CONNECTIONS
    BufferSize,     \* units a receive buffer holds
    MaxUnits,       \* bound: units of a stream the server has not read yet
    None            \* an inactive slot

ASSUME ServerAssumption ==
    /\ MaxConnections \in Nat \ {0} /\ BufferSize \in Nat \ {0}
    /\ MaxUnits \in Nat /\ Writers \subseteq Connections
    /\ None \notin Connections

Slots == 1..MaxConnections

VARIABLES
    \* the server
    pc,         \* "poll", "accept" or "handle"
    clients,    \* Server_Clients: the connection of each slot
    buf,        \* what the buffer of each slot holds
    polled,     \* the connections of Server_PollFDs with POLLIN, still to be handled
    \* the connections
    state,      \* "queued", "open" or "closed", as the server has it
    queue,      \* the queued ones, in the order in which accept() returns them
    stream,     \* written and not yet read
    ended,      \* the open ones closed by the client, for writing at least
    reset,      \* the open ones that are lost: reads fail
    \* history
    answers     \* answers sent to a connection, each with at most one command run

vars == <<pc, clients, buf, polled, state, queue, stream, ended, reset, answers>>
environment == <<ended, reset>>

Units == {"text", "END"}

\* The connections in slots; a slot that is not active has its old contents.
InSlots == {clients[i] : i \in Slots} \ {None}

Init ==
    /\ pc = "poll"
    /\ clients = [i \in Slots |-> None]
    /\ buf = [i \in Slots |-> <<>>]
    /\ polled = {}
    /\ state = [c \in Connections |-> "closed"] /\ queue = <<>>
    /\ stream = [c \in Connections |-> <<>>]
    /\ ended = {} /\ reset = {}
    /\ answers = [c \in Connections |-> 0]

---------------------------------------------------------------------------
(* Clients *)

\* A new connection; one that had this name before is gone.
Connect(c) ==
    /\ state[c] = "closed"
    /\ state' = [state EXCEPT ![c] = "queued"] /\ queue' = Append(queue, c)
    /\ answers' = [answers EXCEPT ![c] = 0]
    /\ UNCHANGED <<pc, clients, buf, polled, stream, environment>>

Write(c) ==
    /\ c \in Writers /\ c \notin ended
    /\ state[c] \in {"queued", "open"}
    /\ Len(stream[c]) < MaxUnits
    /\ \E u \in Units : stream' = [stream EXCEPT ![c] = Append(@, u)]
    /\ UNCHANGED <<pc, clients, buf, polled, state, queue, environment, answers>>

\* shutdown() or close(); a close may be seen as a reset.
End(c) ==
    /\ state[c] \in {"queued", "open"} /\ c \notin ended
    /\ ended' = ended \cup {c}
    /\ reset' \in {reset, reset \cup {c}}
    /\ UNCHANGED <<pc, clients, buf, polled, state, queue, stream, answers>>

---------------------------------------------------------------------------
(* Server_Loop *)

\* poll() reports data, the end and errors.
Readable(c) == stream[c] # <<>> \/ c \in ended

\* The table is built from the slots before poll() waits, so a client accepted
\* in this call is not in it.
PollWakes ==
    LET ready == {c \in InSlots : Readable(c)}
    IN /\ pc = "poll"
       /\ ready # {} \/ queue # <<>>
       /\ polled' = ready
       /\ pc' = IF queue # <<>> THEN "accept" ELSE "handle"
       /\ UNCHANGED <<clients, buf, state, queue, stream, environment, answers>>

\* Mutant: the last slot is never used.
FreeButLast == {i \in 1..(MaxConnections - 1) : clients[i] = None}

\* Server_AllocateClient
Free == {i \in Slots : clients[i] = None}

\* accept() returns the connection that has waited longest.
Accepts(c) == pc = "accept" /\ queue # <<>> /\ c = Head(queue)

AcceptClient(c) ==
    /\ Accepts(c) /\ Free # {}
    /\ queue' = Tail(queue)
    /\ clients' = [clients EXCEPT ![Min(Free)] = c]
    /\ buf' = [buf EXCEPT ![Min(Free)] = <<>>]
    /\ state' = [state EXCEPT ![c] = "open"]
    /\ pc' = "handle"
    /\ UNCHANGED <<polled, stream, environment, answers>>

\* close(): what the client has written or done is gone with the connection.
Shut(c) ==
    /\ state' = [state EXCEPT ![c] = "closed"]
    /\ stream' = [stream EXCEPT ![c] = <<>>]
    /\ ended' = ended \ {c} /\ reset' = reset \ {c}

\* Mutant: looks for a slot before accept().
RefuseClientUnaccepted(c) ==
    /\ Accepts(c) /\ Free = {}
    /\ pc' = "poll" /\ polled' = {}
    /\ UNCHANGED <<clients, buf, state, queue, stream, environment, answers>>

\* No slot: Server_Loop closes the connection and returns, and the clients that
\* poll() has reported wait for its next call.
RefuseClient(c) ==
    /\ Accepts(c) /\ Free = {}
    /\ Shut(c) /\ queue' = Tail(queue)
    /\ pc' = "poll" /\ polled' = {}
    /\ UNCHANGED <<clients, buf, answers>>

\* They do too if accept() fails.
AcceptFails ==
    /\ pc = "accept"
    /\ pc' = "poll" /\ polled' = {}
    /\ UNCHANGED <<clients, buf, state, queue, stream, environment, answers>>

---------------------------------------------------------------------------
(* Server_HandleClient *)

\* Server_FindClientByFileDescriptor
SlotOf(c) == CHOOSE i \in Slots : clients[i] = c

\* What Server_ReceiveMessage has in the buffer when it has read all it can:
\* one unit of the buffer is kept for the end of the string.
Received(c) ==
    LET all == buf[SlotOf(c)] \o stream[c]
    IN SubSeq(all, 1, Min({Len(all), BufferSize - 1}))

Complete(c) == Contains(Received(c), "END")

\* Mutant: no byte kept for the end of the string.
TooLargeByOne(c) == ~Complete(c) /\ Len(Received(c)) = BufferSize

TooLarge(c) == ~Complete(c) /\ Len(Received(c)) = BufferSize - 1

\* End of file ends a message like the marker does.
EndOfFile(c) == ~Complete(c) /\ ~TooLarge(c) /\ c \in ended

\* The slot is released and the connection closed.
Close(c) ==
    /\ clients' = [clients EXCEPT ![SlotOf(c)] = None]
    /\ buf' = [buf EXCEPT ![SlotOf(c)] = <<>>]
    /\ Shut(c)

\* The client whose turn it is: the table has the order of the slots.
Turn(c) ==
    /\ pc = "handle" /\ c \in polled
    /\ \A d \in polled : SlotOf(c) <= SlotOf(d)
    /\ polled' = polled \ {c}
    /\ UNCHANGED <<pc, queue>>

\* The message is parsed, and its command run unless it has a mistake; what
\* comes of it is sent, be it the command's answer or an error.
Handle(c) ==
    /\ Turn(c) /\ c \notin reset
    /\ Complete(c) \/ EndOfFile(c)
    /\ answers' = [answers EXCEPT ![c] = @ + 1]
    /\ Close(c)

\* Mutant: the error is sent, the client kept.
HandleTooLargeAndGoOn(c) ==
    /\ Turn(c) /\ c \notin reset
    /\ TooLarge(c)
    /\ answers' = [answers EXCEPT ![c] = @ + 1]
    /\ UNCHANGED <<clients, buf, state, stream, environment>>

\* "Message too large"
HandleTooLarge(c) ==
    /\ Turn(c) /\ c \notin reset
    /\ TooLarge(c)
    /\ answers' = [answers EXCEPT ![c] = @ + 1]
    /\ Close(c)

\* EAGAIN: there is more to come.
KeepReading(c) ==
    /\ Turn(c) /\ c \notin reset
    /\ ~Complete(c) /\ ~TooLarge(c) /\ ~EndOfFile(c)
    /\ buf' = [buf EXCEPT ![SlotOf(c)] = Received(c)]
    /\ stream' = [stream EXCEPT ![c] = <<>>]
    /\ UNCHANGED <<clients, state, environment, answers>>

\* read() fails.
ReadFails(c) ==
    /\ Turn(c) /\ c \in reset
    /\ Close(c)
    /\ UNCHANGED answers

LoopReturns ==
    /\ pc = "handle" /\ polled = {}
    /\ pc' = "poll"
    /\ UNCHANGED <<clients, buf, polled, state, queue, stream, environment, answers>>

---------------------------------------------------------------------------
Server_Loop ==
    \/ PollWakes \/ LoopReturns
    \/ \E c \in Connections :
        \/ AcceptClient(c) \/ RefuseClient(c)
        \/ Handle(c) \/ HandleTooLarge(c) \/ KeepReading(c) \/ ReadFails(c)

Next ==
    \/ Server_Loop \/ AcceptFails
    \/ \E c \in Connections : Connect(c) \/ Write(c) \/ End(c)

\* main calls Server_Loop again and again, and accept() does not fail for ever.
\* Nothing is assumed of the clients: they may connect faster than they are
\* refused.
Fairness == /\ WF_vars(Server_Loop)
            /\ SF_vars(\E c \in Connections : AcceptClient(c) \/ RefuseClient(c))

Spec == Init /\ [][Next]_vars /\ Fairness

---------------------------------------------------------------------------

\* A connection gets one answer and has at most one command run, none if it was
\* lost or refused; the rest of a message that was answered early is
\* never taken for another.
AnsweredOnce ==
    \A c \in Connections :
        /\ answers[c] <= 1
        /\ answers[c] = 1 => state[c] = "closed"

\* Only a server with MaxConnections open connections refuses one.
RefusesOnlyWhenFull ==
    [][\A c \in Connections :
          state[c] = "queued" /\ state'[c] = "closed" =>
              Cardinality({d \in Connections : state[d] = "open"}) = MaxConnections]_vars

Refuses == \E c \in Connections : RefuseClient(c)

\* Every client that has sent its message, or as much as fits, or has closed, is
\* done with, however many connections are queued, accepted, idle or lost
\* meanwhile - unless connections are refused without end: Server_Loop returns
\* after a refusal before it handles anyone, so as long as the slots are full
\* and connections keep coming, complete messages stay unread.
Finished(c) ==
    \/ Contains(stream[c], "END") \/ c \in ended
    \/ Len(buf[SlotOf(c)]) + Len(stream[c]) >= BufferSize - 1
MessagesAreHandled ==
    \/ []<><<Refuses>>_vars
    \/ \A c \in Connections : state[c] = "open" /\ Finished(c) ~> state[c] = "closed"

\* No connection stays in the queue, also while others are refused without end.
NobodyQueuesForEver ==
    \A c \in Connections : state[c] = "queued" ~> state[c] # "queued"
================================================================================
