------------------------------- MODULE Lifecycle -------------------------------
(***************************************************************************)
(* How services come and go: main() of src/main.c around the PID file of   *)
(* src/pidfile.c and the socket file of src/server.c, with the clients     *)
(* that start, stop and restart services (src/client/service_control.c).   *)
(*                                                                         *)
(* Services and clients are processes that share nothing but the two files *)
(* and signals.  Every system call that another process can observe is a   *)
(* step; what a service does with its fans in between is in Service.tla.   *)
(***************************************************************************)
EXTENDS Naturals, FiniteSets

CONSTANTS
    Pids,       \* process identifiers of services, given out in order, none twice
    Clients,    \* clients, each running one command at a time
    None        \* no file, no text

ASSUME LifecycleAssumption ==
    /\ Pids \subseteq Nat /\ None \notin Pids
    /\ \A p \in Pids, t \in Pids \cup {None} : None # [inode |-> p, text |-> t]

VARIABLES
    pc,         \* where a service is, see Starting and the phases below
    forks,      \* options.fork, the services started with -f
    fd,         \* the file PID_Write of a service has opened, named by its creator
    pidFile,    \* the PID file: which file it is and the number in it
    sock,       \* the socket file: the service listening on it, or the last one
    cpc,        \* where a client is
    target,     \* pid of Service_Stop, the child of Service_Start
    again,      \* the command is restart
    stopped,    \* history: services a client has signalled
    broken,     \* history: a service was killed, or could not write its number
    hasty       \* history: a start or a stop did not wait for the one before

vars == <<pc, forks, fd, pidFile, sock, cpc, target, again, stopped, broken,
          hasty>>
services == <<pc, forks, fd, pidFile, sock, broken>>
clients == <<cpc, target, again, stopped>>

\* The phases of a service before it serves and after.
Starting == {"lock", "write", "init", "bind", "first", "fork", "parent",
             "relock", "rewrite"}
Leaving == {"close", "cleanup", "unlock"}
Phases == {"none", "gone", "serve"} \cup Starting \cup Leaving

\* A service that has passed PID_Write and not yet PID_Cleanup; a parent whose
\* fork has succeeded only exits.
Holding == {"write", "init", "bind", "first", "fork", "relock", "rewrite",
            "serve"} \cup Leaving

Alive(p) == pc[p] \notin {"none", "gone"}

\* Service_Stop between reading the PID file and unlinking it.
Stopping(c) == cpc[c] \in {"kill", "unlink"}

PidFile == [inode : Pids, text : Pids \cup {None}]

\* Types; a client that stops a service has a number to signal (Service_GetPID).
TypeOK ==
    /\ pc \in [Pids -> Phases]
    /\ forks \in SUBSET Pids
    /\ fd \in [Pids -> Pids \cup {None}]
    /\ pidFile \in PidFile \cup {None}
    /\ sock \in Pids \cup {None}
    /\ cpc \in [Clients -> {"idle", "kill", "unlink", "sleep", "wait"}]
    /\ target \in [Clients -> Pids \cup {None}]
    /\ again \in [Clients -> BOOLEAN]
    /\ \A c \in Clients : Stopping(c) => target[c] # None
    /\ stopped \in SUBSET Pids
    /\ broken \in BOOLEAN /\ hasty \in BOOLEAN

Init ==
    /\ pc = [p \in Pids |-> "none"]
    /\ forks = {}
    /\ fd = [p \in Pids |-> None]
    /\ pidFile = None /\ sock = None
    /\ cpc = [c \in Clients |-> "idle"]
    /\ target = [c \in Clients |-> None]
    /\ again = [c \in Clients |-> FALSE]
    /\ stopped = {} /\ broken = FALSE /\ hasty = FALSE

\* Starts and stops one after the other: no start before a stop is over and what
\* it stopped is gone, no stop during a start.  Nothing makes anybody wait so.
WaitsToStart == /\ \A c \in Clients : ~Stopping(c)
                /\ \A p \in stopped : ~Alive(p)
WaitsToStop == \A p \in Pids : pc[p] \notin Starting

\* The next process identifier.
Fresh(p) == pc[p] = "none" /\ \A q \in Pids : pc[q] = "none" => p <= q

Goes(p, from, to) == pc[p] = from /\ pc' = [pc EXCEPT ![p] = to]

\* What a process has open is closed when it is gone.
Closed(p) == fd' = [fd EXCEPT ![p] = None] /\ forks' = forks \ {p}
Ends(p, from) == Goes(p, from, "gone") /\ Closed(p)

---------------------------------------------------------------------------
(* The start of a service *)

\* exec of nbfc_service, up to PID_Write.
Exec(p, inBackground) ==
    /\ Fresh(p)
    /\ Goes(p, "none", "lock")
    /\ hasty' = (hasty \/ ~WaitsToStart)
    /\ forks' = IF inBackground THEN forks \cup {p} ELSE forks
    /\ UNCHANGED <<fd, pidFile, sock, broken>>

\* nbfc_service run by hand, with -f or without.
Spawn(p) == /\ \E inBackground \in BOOLEAN : Exec(p, inBackground)
            /\ UNCHANGED clients

\* Mutant: PID_Write without O_EXCL.
LockFreeAlways == TRUE

\* open(O_CREAT | O_EXCL) succeeds if there is no PID file.
LockFree == pidFile = None

TakeLock(p) ==
    /\ LockFree
    /\ Goes(p, "lock", "write")
    /\ pidFile' = [inode |-> p, text |-> None]
    /\ fd' = [fd EXCEPT ![p] = p]
    /\ UNCHANGED <<forks, sock, broken, clients, hasty>>

\* EEXIST, or any other error: only Log_Close is registered by then.
LockFails(p) ==
    /\ Ends(p, "lock")
    /\ UNCHANGED <<pidFile, sock, broken, clients, hasty>>

\* The number goes into the file this process has opened, which may have been
\* unlinked since.
NumberWritten(p) ==
    IF pidFile # None /\ pidFile.inode = fd[p]
    THEN [pidFile EXCEPT !.text = p]
    ELSE pidFile

WriteNumber(p) ==
    /\ Goes(p, "write", "init")
    /\ pidFile' = NumberWritten(p)
    /\ UNCHANGED <<forks, fd, sock, broken, clients, hasty>>

\* PID_Cleanup is registered after PID_Write has succeeded.
WriteNumberFails(p) ==
    /\ Ends(p, "write")
    /\ broken' = TRUE
    /\ UNCHANGED <<pidFile, sock, clients, hasty>>

Service_Init(p) ==
    /\ Goes(p, "init", "bind") \/ Goes(p, "init", "cleanup")
    /\ UNCHANGED <<forks, fd, pidFile, sock, broken, clients, hasty>>

Server_Init(p) ==
    /\ sock = None
    /\ Goes(p, "bind", "first")
    /\ sock' = p
    /\ UNCHANGED <<forks, fd, pidFile, broken, clients, hasty>>

\* Mutant: Server_Init leaves what it has made.
Server_InitFailsOpen(p) ==
    /\ Goes(p, "bind", "cleanup")
    /\ sock' \in {sock, IF sock = None THEN p ELSE sock}
    /\ UNCHANGED <<forks, fd, pidFile, broken, clients, hasty>>

\* socket() fails, or one of bind(), chmod() and listen(), which end in
\* Server_Close: bind() does when the file exists, whoever made it.
Server_InitFails(p) ==
    /\ Goes(p, "bind", "cleanup")
    /\ sock' \in {sock, None}
    /\ UNCHANGED <<forks, fd, pidFile, broken, clients, hasty>>

\* The first Service_Loop; without -f the service does not fork.
FirstLoop(p) ==
    /\ Goes(p, "first", IF p \in forks THEN "fork" ELSE "serve") \/ Goes(p, "first", "close")
    /\ UNCHANGED <<forks, fd, pidFile, sock, broken, clients, hasty>>

\* The child has the variables, the exit handlers and the listening socket.
Fork(p, child) ==
    /\ pc[p] = "fork" /\ Fresh(child)
    /\ pc' = [pc EXCEPT ![p] = "parent", ![child] = "relock"]
    /\ sock' = IF sock = p THEN child ELSE sock
    /\ UNCHANGED <<forks, fd, pidFile, broken, clients, hasty>>

ForkFails(p) ==
    /\ Goes(p, "fork", "close")
    /\ UNCHANGED <<forks, fd, pidFile, sock, broken, clients, hasty>>

\* Mutant: exit, which does.
ParentReturns(p) ==
    /\ Goes(p, "parent", "close")
    /\ UNCHANGED <<forks, fd, pidFile, sock, broken, clients, hasty>>

\* _exit runs no handlers.
ParentExits(p) ==
    /\ Ends(p, "parent")
    /\ UNCHANGED <<pidFile, sock, broken, clients, hasty>>

\* PID_Write in the child truncates the file, or creates it if it is gone.
Relock(p) ==
    /\ Goes(p, "relock", "rewrite")
    /\ pidFile' = IF pidFile = None THEN [inode |-> p, text |-> None]
                                    ELSE [pidFile EXCEPT !.text = None]
    /\ fd' = [fd EXCEPT ![p] = pidFile'.inode]
    /\ UNCHANGED <<forks, sock, broken, clients, hasty>>

Rewrite(p) ==
    /\ Goes(p, "rewrite", "serve")
    /\ pidFile' = NumberWritten(p)
    /\ UNCHANGED <<forks, fd, sock, broken, clients, hasty>>

\* setsid() or PID_Write fails: the child returns from main.
ChildFails(p) ==
    /\ Goes(p, "relock", "close") \/ Goes(p, "rewrite", "close")
    /\ UNCHANGED <<forks, fd, pidFile, sock, broken, clients, hasty>>

---------------------------------------------------------------------------
(* Serving and leaving *)

\* A signal has come and quit is seen (when, is in Service.tla), or there were too
\* many failed rounds.
EndMain(p) ==
    /\ Goes(p, "serve", "close")
    /\ UNCHANGED <<forks, fd, pidFile, sock, broken, clients, hasty>>

\* The handlers of atexit, last registered first.
Server_Close(p) ==
    /\ Goes(p, "close", "cleanup")
    /\ sock' = None
    /\ UNCHANGED <<forks, fd, pidFile, broken, clients, hasty>>

Service_Cleanup(p) ==
    /\ Goes(p, "cleanup", "unlock")
    /\ UNCHANGED <<forks, fd, pidFile, sock, broken, clients, hasty>>

PID_Cleanup(p) ==
    /\ Ends(p, "unlock")
    /\ pidFile' = None
    /\ UNCHANGED <<sock, broken, clients, hasty>>

Kill(p) ==
    /\ Alive(p)
    /\ pc' = [pc EXCEPT ![p] = "gone"] /\ Closed(p)
    /\ broken' = TRUE
    /\ UNCHANGED <<pidFile, sock, clients, hasty>>

---------------------------------------------------------------------------
(* The commands start, stop and restart *)

\* The end of a command, and of Service_Stop, which restart goes on from.
CommandEnds(c) ==
    /\ cpc' = [cpc EXCEPT ![c] = "idle"]
    /\ target' = [target EXCEPT ![c] = None]
    /\ again' = [again EXCEPT ![c] = FALSE]

StopEnds(c) ==
    IF again[c]
    THEN /\ cpc' = [cpc EXCEPT ![c] = "sleep"]
         /\ target' = [target EXCEPT ![c] = None]
         /\ UNCHANGED again
    ELSE CommandEnds(c)

\* Service_GetPID: the text is no number, the client exits.
Unreadable == pidFile # None /\ pidFile.text = None
NoService == pidFile = None

Stop(c, restart) ==
    /\ cpc[c] = "idle"
    /\ ~NoService /\ ~Unreadable
    /\ cpc' = [cpc EXCEPT ![c] = "kill"]
    /\ target' = [target EXCEPT ![c] = pidFile.text]
    /\ again' = [again EXCEPT ![c] = restart]
    /\ hasty' = (hasty \/ ~WaitsToStop)
    /\ UNCHANGED <<services, stopped>>

\* "Service not running": stop is done, restart waits its second.
StopNothing(c) ==
    /\ cpc[c] = "idle"
    /\ NoService
    /\ cpc' = [cpc EXCEPT ![c] = "sleep"]
    /\ UNCHANGED <<services, target, again, stopped, hasty>>

\* kill(pid, SIGINT), which fails if there is no such process.
StopKill(c) ==
    /\ cpc[c] = "kill" /\ Alive(target[c])
    /\ stopped' = stopped \cup {target[c]}
    /\ cpc' = [cpc EXCEPT ![c] = "unlink"]
    /\ UNCHANGED <<pc, forks, fd, pidFile, sock, broken, target, again, hasty>>

StopKillFails(c) ==
    /\ cpc[c] = "kill" /\ ~Alive(target[c])
    /\ StopEnds(c)
    /\ UNCHANGED <<services, stopped, hasty>>

StopUnlink(c) ==
    /\ cpc[c] = "unlink"
    /\ pidFile' = None
    /\ StopEnds(c)
    /\ UNCHANGED <<pc, forks, fd, sock, broken, stopped, hasty>>

\* Mutant: nbfc_service without -f.
StartInForeground(c, p) ==
    /\ cpc[c] \in {"idle", "sleep"}
    /\ NoService
    /\ Exec(p, FALSE)
    /\ cpc' = [cpc EXCEPT ![c] = "wait"]
    /\ target' = [target EXCEPT ![c] = p]
    /\ UNCHANGED <<again, stopped>>

\* Service_Start finds no PID file, and runs nbfc_service.
Start(c, p) ==
    /\ cpc[c] \in {"idle", "sleep"}
    /\ NoService
    /\ Exec(p, TRUE)
    /\ cpc' = [cpc EXCEPT ![c] = "wait"]
    /\ target' = [target EXCEPT ![c] = p]
    /\ UNCHANGED <<again, stopped>>

\* It finds one: "Service already running", and success.
SaysRunning(c) ==
    /\ cpc[c] \in {"idle", "sleep"}
    /\ ~NoService /\ ~Unreadable
    /\ CommandEnds(c)
    /\ UNCHANGED <<services, stopped, hasty>>

\* It cannot read it, in start and in stop.
SaysUnreadable(c) ==
    /\ cpc[c] \in {"idle", "sleep"}
    /\ Unreadable
    /\ CommandEnds(c)
    /\ UNCHANGED <<services, stopped, hasty>>

\* system() returns when the process it has started is gone.
StartReturns(c) ==
    /\ cpc[c] = "wait" /\ ~Alive(target[c])
    /\ CommandEnds(c)
    /\ UNCHANGED <<services, stopped, hasty>>

---------------------------------------------------------------------------
\* What a service does by itself.
Runs(p) ==
    \/ TakeLock(p) \/ LockFails(p) \/ WriteNumber(p) \/ WriteNumberFails(p)
    \/ Service_Init(p) \/ Server_Init(p) \/ Server_InitFails(p)
    \/ FirstLoop(p) \/ (\E child \in Pids : Fork(p, child)) \/ ForkFails(p)
    \/ ParentExits(p) \/ Relock(p) \/ Rewrite(p) \/ ChildFails(p)
    \/ Server_Close(p) \/ Service_Cleanup(p) \/ PID_Cleanup(p)

Commands(c) ==
    \/ \E restart \in BOOLEAN : Stop(c, restart)
    \/ StopNothing(c) \/ StopKill(c) \/ StopKillFails(c) \/ StopUnlink(c)
    \/ \E p \in Pids : Start(c, p)
    \/ SaysRunning(c) \/ SaysUnreadable(c) \/ StartReturns(c)

Next ==
    \/ \E p \in Pids : Spawn(p) \/ Runs(p) \/ EndMain(p) \/ Kill(p)
    \/ \E c \in Clients : Commands(c)

Fairness ==
    /\ \A p \in Pids : WF_vars(Runs(p))
    /\ \A c \in Clients : WF_vars(StartReturns(c))

Spec == Init /\ [][Next]_vars /\ Fairness

---------------------------------------------------------------------------
(* What the files promise *)

\* No two services are between PID_Write and PID_Cleanup at a time, so no two
\* of them drive the fans and write the state file.
OneService ==
    \A p, q \in Pids : pc[p] \in Holding /\ pc[q] \in Holding => p = q

\* That holds as long as starts and stops wait for each other: the lock of
\* PID_Write against stops that unlink the file, forks that rewrite it, signals
\* and kills.
OneController == ~hasty => OneService

\* And so does this: a service that serves and was not told to stop is found by
\* clients, the PID file has its number and the socket file is its own.
Reachable ==
    ~hasty => \A p \in Pids : pc[p] = "serve" /\ p \notin stopped =>
                  pidFile # None /\ pidFile.text = p /\ sock = p

\* When all services are gone and none was killed, neither file is left to
\* block the next start (PID_Write, bind): every exit of main, with the handlers
\* registered so far, removes what has been made.
LeavesNoFiles ==
    (\A p \in Pids : ~Alive(p)) /\ ~broken => pidFile = None /\ sock = None

\* `nbfc start' returns: system() waits for a process that forks or fails.
StartEnds == \A c \in Clients : cpc[c] = "wait" ~> cpc[c] # "wait"
================================================================================
