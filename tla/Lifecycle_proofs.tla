---------------------------- MODULE Lifecycle_proofs ----------------------------
(***************************************************************************)
(* Proofs about Lifecycle.tla, for any number of services and clients.     *)
(***************************************************************************)
EXTENDS Lifecycle, TLAPS

\* Between PID_Write and the stop that unlinks it, the PID file exists.
Locked ==
    \A p \in Pids : pc[p] \in Holding /\ p \notin stopped => pidFile # None

\* What starts and stops that wait for each other keep apart.
NoStartInStop ==
    /\ \A c \in Clients : Stopping(c) => \A p \in Pids : pc[p] \notin Starting
    /\ \A p \in stopped : pc[p] # "none" /\ pc[p] \notin Starting
    /\ \A p \in Pids, q \in stopped : pc[p] = "lock" => ~Alive(q)

\* Service_Stop unlinks the file of a service it has signalled.
UnlinksItsOwn ==
    \A c \in Clients : cpc[c] = "unlink" =>
        \A p \in Pids : pc[p] \in Holding => p \in stopped

\* The number of a service gets into the PID file and stays there.
Numbered ==
    /\ \A p \in Pids : pc[p] \in {"write", "rewrite"} /\ pidFile # None =>
                            pidFile.inode = fd[p]
    /\ \A p \in Pids : pc[p] \in {"init", "bind", "first", "serve"}
                            /\ p \notin stopped => pidFile # None /\ pidFile.text = p

\* The socket file is the one of the service that has passed Server_Init.
Listens ==
    \A p \in Pids : pc[p] \in {"first", "fork", "relock", "rewrite", "serve"} => sock = p

InOrder == /\ OneService /\ Locked /\ NoStartInStop /\ UnlinksItsOwn
           /\ Numbered /\ Listens

LockInv == TypeOK /\ (~hasty => InOrder)

(***************************************************************************)
(* The steps of one service.                                               *)
(***************************************************************************)
LEMMA LockStep ==
    ASSUME TypeOK, InOrder, ~hasty', NEW p \in Pids,
           Spawn(p) \/ Runs(p) \/ EndMain(p) \/ Kill(p)
    PROVE  InOrder'
<1> USE LifecycleAssumption
<1> USE DEF InOrder, TypeOK, OneService, Locked, NoStartInStop, UnlinksItsOwn,
    Numbered, Listens, Holding, Starting, Leaving, Phases, Alive, Stopping, PidFile,
    Goes, Ends, Closed, clients
<1>1. CASE Spawn(p)
  <2>1. PICK inBackground \in BOOLEAN : Exec(p, inBackground)
    BY <1>1 DEF Spawn
  <2>2. /\ pc[p] = "none" /\ pc' = [pc EXCEPT ![p] = "lock"]
        /\ forks' \in SUBSET Pids
        /\ UNCHANGED <<fd, pidFile, sock, broken, clients>>
    BY <1>1, <2>1 DEF Spawn, Exec, Fresh
  <2>3. /\ \A c \in Clients : ~Stopping(c)
        /\ \A q \in stopped : ~Alive(q)
    BY <2>1 DEF Exec, WaitsToStart
  <2>4. \A q \in Pids : pc'[q] = IF q = p THEN "lock" ELSE pc[q]
    BY <2>2
  <2>5. OneService' /\ Locked'
    BY <2>2, <2>4
  <2>6. UnlinksItsOwn'
    BY <2>2, <2>4
  <2>7. NoStartInStop'
    BY <2>2, <2>3, <2>4
  <2>8. Numbered' /\ Listens'
    BY <2>2, <2>4
  <2>. QED
    BY <2>5, <2>6, <2>7, <2>8
<1>2. CASE TakeLock(p)
  <2>1. /\ pidFile = None /\ pidFile' = [inode |-> p, text |-> None]
        /\ pc[p] = "lock" /\ fd' = [fd EXCEPT ![p] = p]
        /\ UNCHANGED <<forks, sock, broken, clients>>
    BY <1>2 DEF TakeLock, LockFree
  <2>2. \A q \in Pids : pc'[q] = IF q = p THEN "write" ELSE pc[q]
    BY <1>2 DEF TakeLock
  <2>3. p \notin stopped /\ \A c \in Clients : ~Stopping(c)
    BY <2>1
  <2>4. \A q \in stopped : ~Alive(q)
    BY <2>1
  <2>5. \A q \in Pids : pc[q] \notin Holding
    BY <2>1, <2>4
  <2>6. /\ \A q \in Pids : pc'[q] \in Holding => q = p
        /\ pidFile' # None
    BY <2>1, <2>2, <2>5
  <2>7. NoStartInStop' /\ UnlinksItsOwn'
    BY <2>1, <2>2, <2>3, <2>5
  <2>8. Numbered' /\ Listens'
    BY <2>1, <2>2, <2>3, <2>5
  <2>9. OneService'
    BY ONLY <2>6 DEF OneService
  <2>10. Locked'
    BY ONLY <2>6 DEF Locked
  <2>. QED
    BY <2>7, <2>8, <2>9, <2>10
<1>3. CASE LockFails(p)
  BY <1>3 DEF LockFails
<1>4. CASE WriteNumber(p)
  BY <1>4 DEF WriteNumber, NumberWritten
<1>5. CASE WriteNumberFails(p)
  BY <1>5 DEF WriteNumberFails
<1>6. CASE Service_Init(p)
  BY <1>6 DEF Service_Init
<1>7. CASE Server_Init(p)
  BY <1>7 DEF Server_Init
<1>8. CASE Server_InitFails(p)
  BY <1>8 DEF Server_InitFails
<1>9. CASE FirstLoop(p)
  BY <1>9 DEF FirstLoop
<1>10. CASE \E child \in Pids : Fork(p, child)
  <2>1. PICK child \in Pids : Fork(p, child)
    BY <1>10
  <2>2. p \notin stopped /\ \A c \in Clients : ~Stopping(c)
    BY <2>1 DEF Fork
  <2>3. OneService' /\ Locked' /\ UnlinksItsOwn'
    BY <2>1, <2>2 DEF Fork, Fresh
  <2>4. NoStartInStop'
    BY <2>1, <2>2 DEF Fork, Fresh
  <2>5. Numbered' /\ Listens'
    BY <2>1, <2>2 DEF Fork, Fresh
  <2>. QED
    BY <2>3, <2>4, <2>5
<1>11. CASE ForkFails(p)
  BY <1>11 DEF ForkFails
<1>12. CASE ParentExits(p)
  BY <1>12 DEF ParentExits
<1>13. CASE Relock(p)
  BY <1>13 DEF Relock
<1>14. CASE Rewrite(p)
  BY <1>14 DEF Rewrite, NumberWritten
<1>15. CASE ChildFails(p)
  BY <1>15 DEF ChildFails
<1>16. CASE Server_Close(p)
  BY <1>16 DEF Server_Close
<1>17. CASE Service_Cleanup(p)
  BY <1>17 DEF Service_Cleanup
<1>18. CASE PID_Cleanup(p)
  BY <1>18 DEF PID_Cleanup
<1>19. CASE EndMain(p)
  BY <1>19 DEF EndMain
<1>20. CASE Kill(p)
  BY <1>20 DEF Kill
<1>. QED
  BY <1>1, <1>2, <1>3, <1>4, <1>5, <1>6, <1>7, <1>8, <1>9, <1>10, <1>11, <1>12, <1>13, <1>14, <1>15, <1>16, <1>17, <1>18, <1>19, <1>20 DEF Runs

(***************************************************************************)
(* The steps of one client.                                                *)
(***************************************************************************)
EndsAt(c, to) ==
    /\ cpc' = [cpc EXCEPT ![c] = to]
    /\ target' = [target EXCEPT ![c] = None]
    /\ again' \in [Clients -> BOOLEAN]

LEMMA StopEndsAt ==
    ASSUME TypeOK, NEW c \in Clients, StopEnds(c)
    PROVE  \E to \in {"idle", "sleep"} : EndsAt(c, to)
<1>1. CASE again[c]
  BY <1>1 DEF StopEnds, EndsAt, TypeOK
<1>2. CASE ~again[c]
  BY <1>2 DEF StopEnds, CommandEnds, EndsAt, TypeOK
<1>. QED
  BY <1>1, <1>2

LEMMA CommandStep ==
    ASSUME TypeOK, InOrder, ~hasty', NEW c \in Clients, Commands(c)
    PROVE  InOrder'
<1> USE LifecycleAssumption
<1> USE DEF InOrder, TypeOK, OneService, Locked, NoStartInStop, UnlinksItsOwn,
    Numbered, Listens, Holding, Starting, Leaving, Phases, Alive, Stopping, PidFile,
    NoService, Unreadable, services
<1>1. CASE \E restart \in BOOLEAN : Stop(c, restart)
  <2>1. PICK restart \in BOOLEAN : Stop(c, restart)
    BY <1>1
  <2>2. \A p \in Pids : pc[p] \notin Starting
    BY <2>1 DEF Stop, WaitsToStop
  <2>3. cpc' = [cpc EXCEPT ![c] = "kill"] /\ UNCHANGED <<services, stopped>>
    BY <2>1 DEF Stop
  <2>4. OneService' /\ Locked' /\ Numbered' /\ Listens'
    BY <2>3
  <2>5. NoStartInStop' /\ UnlinksItsOwn'
    BY <2>2, <2>3
  <2>. QED
    BY <2>4, <2>5
<1>2. CASE StopNothing(c)
  BY <1>2 DEF StopNothing
<1>3. CASE StopKill(c)
  <2>1. target[c] \in Pids /\ pc[target[c]] \in Holding
    BY <1>3 DEF StopKill
  <2>2. \A p \in Pids : pc[p] \in Holding => p = target[c]
    BY <2>1
  <2>. QED
    BY <1>3, <2>1, <2>2 DEF StopKill
<1>4. CASE StopKillFails(c)
  <2>1. PICK to \in {"idle", "sleep"} : EndsAt(c, to)
    BY <1>4, StopEndsAt DEF StopKillFails
  <2>. QED
    BY <1>4, <2>1 DEF StopKillFails, EndsAt
<1>5. CASE StopUnlink(c)
  <2>1. PICK to \in {"idle", "sleep"} : EndsAt(c, to)
    BY <1>5, StopEndsAt DEF StopUnlink
  <2>. QED
    BY <1>5, <2>1 DEF StopUnlink, EndsAt
<1>6. CASE \E p \in Pids : Start(c, p)
  <2>1. PICK p \in Pids : Start(c, p)
    BY <1>6
  <2>2. /\ pc[p] = "none" /\ pc' = [pc EXCEPT ![p] = "lock"]
        /\ UNCHANGED <<fd, pidFile, sock, broken, again, stopped>>
        /\ cpc' = [cpc EXCEPT ![c] = "wait"] /\ target' = [target EXCEPT ![c] = p]
        /\ forks' = forks \cup {p}
    BY <2>1 DEF Start, Exec, Goes, Fresh
  <2>3. /\ \A d \in Clients : ~Stopping(d)
        /\ \A q \in stopped : ~Alive(q)
    BY <2>1 DEF Start, Exec, WaitsToStart
  <2>. QED
    BY <2>2, <2>3
<1>7. CASE SaysRunning(c)
  BY <1>7 DEF SaysRunning, CommandEnds
<1>8. CASE SaysUnreadable(c)
  BY <1>8 DEF SaysUnreadable, CommandEnds
<1>9. CASE StartReturns(c)
  BY <1>9 DEF StartReturns, CommandEnds
<1>. QED
  BY <1>1, <1>2, <1>3, <1>4, <1>5, <1>6, <1>7, <1>8, <1>9 DEF Commands

\* A command that did not wait is remembered.
LEMMA HastyStays == ASSUME Next, hasty \in BOOLEAN, ~hasty' PROVE ~hasty
<1> USE DEF clients
<1>1. CASE \E p \in Pids : Spawn(p) \/ Runs(p) \/ EndMain(p) \/ Kill(p)
  BY <1>1 DEF Spawn, Exec, Runs, TakeLock, LockFails, WriteNumber, WriteNumberFails,
     Service_Init, Server_Init, Server_InitFails, FirstLoop, Fork, ForkFails, ParentExits,
     Relock, Rewrite, ChildFails, EndMain, Server_Close, Service_Cleanup, PID_Cleanup, Kill
<1>2. CASE \E c \in Clients : Commands(c)
  BY <1>2 DEF Commands, Stop, StopNothing, StopKill, StopKillFails, StopUnlink, Start, Exec,
     SaysRunning, SaysUnreadable, StartReturns
<1>. QED
  BY <1>1, <1>2 DEF Next

(***************************************************************************)
(* Types.                                                                  *)
(***************************************************************************)
LEMMA ServiceTypes ==
    ASSUME TypeOK, NEW p \in Pids, Spawn(p) \/ Runs(p) \/ EndMain(p) \/ Kill(p)
    PROVE  TypeOK'
<1> USE LifecycleAssumption
<1> USE DEF TypeOK, Starting, Leaving, Phases, Stopping, PidFile, Goes, Ends, Closed, clients
<1>1. CASE Spawn(p)
  BY <1>1 DEF Spawn, Exec
<1>2. CASE \E child \in Pids : Fork(p, child)
  BY <1>2 DEF Fork
<1>3. CASE TakeLock(p)
  BY <1>3 DEF TakeLock, LockFree
<1>4. CASE LockFails(p)
  BY <1>4 DEF LockFails
<1>5. CASE WriteNumber(p)
  BY <1>5 DEF WriteNumber, NumberWritten
<1>6. CASE WriteNumberFails(p)
  BY <1>6 DEF WriteNumberFails
<1>7. CASE Service_Init(p)
  BY <1>7 DEF Service_Init
<1>8. CASE Server_Init(p)
  BY <1>8 DEF Server_Init
<1>9. CASE Server_InitFails(p)
  BY <1>9 DEF Server_InitFails
<1>10. CASE FirstLoop(p)
  BY <1>10 DEF FirstLoop
<1>11. CASE ForkFails(p)
  BY <1>11 DEF ForkFails
<1>12. CASE ParentExits(p)
  BY <1>12 DEF ParentExits
<1>13. CASE ChildFails(p)
  BY <1>13 DEF ChildFails
<1>14. CASE Relock(p)
  BY <1>14 DEF Relock
<1>15. CASE Rewrite(p)
  BY <1>15 DEF Rewrite, NumberWritten
<1>16. CASE Server_Close(p)
  BY <1>16 DEF Server_Close
<1>17. CASE Service_Cleanup(p)
  BY <1>17 DEF Service_Cleanup
<1>18. CASE PID_Cleanup(p)
  BY <1>18 DEF PID_Cleanup
<1>19. CASE EndMain(p)
  BY <1>19 DEF EndMain
<1>20. CASE Kill(p)
  BY <1>20 DEF Kill
<1>. QED
  BY <1>1, <1>2, <1>3, <1>4, <1>5, <1>6, <1>7, <1>8, <1>9, <1>10, <1>11, <1>12, <1>13, <1>14, <1>15, <1>16, <1>17, <1>18, <1>19, <1>20 DEF Runs

LEMMA CommandTypes ==
    ASSUME TypeOK, NEW c \in Clients, Commands(c)
    PROVE  TypeOK'
<1> USE LifecycleAssumption
<1> USE DEF TypeOK, Starting, Phases, Stopping, PidFile, NoService, Unreadable, services
<1>1. CASE \E restart \in BOOLEAN : Stop(c, restart)
  BY <1>1 DEF Stop
<1>2. CASE StopNothing(c) \/ StopKill(c)
  BY <1>2 DEF StopNothing, StopKill
<1>3. CASE StopKillFails(c) \/ StopUnlink(c)
  <2>1. PICK to \in {"idle", "sleep"} : EndsAt(c, to)
    BY <1>3, StopEndsAt DEF StopKillFails, StopUnlink
  <2>. QED
    BY <1>3, <2>1 DEF StopKillFails, StopUnlink, EndsAt
<1>4. CASE \E p \in Pids : Start(c, p)
  BY <1>4 DEF Start, Exec, Goes, Fresh
<1>5. CASE SaysRunning(c) \/ SaysUnreadable(c) \/ StartReturns(c)
  BY <1>5 DEF SaysRunning, SaysUnreadable, StartReturns, CommandEnds
<1>. QED
  BY <1>1, <1>2, <1>3, <1>4, <1>5 DEF Commands

\* The invariant holds whatever administrators do: it says of the hasty ones that
\* the types are right.
THEOREM LockInvariant == Spec => []LockInv
<1>1. Init => LockInv
  BY LifecycleAssumption DEF Init, LockInv, InOrder, TypeOK, OneService, Locked,
     NoStartInStop, UnlinksItsOwn, Numbered, Listens, Holding, Starting, Leaving,
     Phases, Alive, Stopping
<1>2. LockInv /\ [Next]_vars => LockInv'
  <2> SUFFICES ASSUME LockInv, [Next]_vars PROVE LockInv'
    OBVIOUS
  <2>1. CASE Next
    <3>1. TypeOK'
      BY <2>1, ServiceTypes, CommandTypes DEF Next, LockInv
    <3>2. ASSUME ~hasty' PROVE InOrder'
      <4>1. TypeOK /\ InOrder
        BY <2>1, <3>2, HastyStays DEF LockInv, TypeOK
      <4>. QED
        BY <2>1, <3>2, <4>1, LockStep, CommandStep DEF Next
    <3>. QED
      BY <3>1, <3>2 DEF LockInv
  <2>2. CASE UNCHANGED vars
    BY <2>2 DEF vars, LockInv, InOrder, TypeOK, OneService, Locked, NoStartInStop,
       UnlinksItsOwn, Numbered, Listens, Alive, Stopping
  <2>. QED
    BY <2>1, <2>2
<1>. QED
  BY <1>1, <1>2, PTL DEF Spec

\* Every variable has its type, and a client that stops a service a number.
THEOREM LifecycleTypes == Spec => []TypeOK
<1>1. LockInv => TypeOK
  BY DEF LockInv
<1>. QED
  BY <1>1, LockInvariant, PTL

\* The lock of PID_Write: whatever kills and failures do, as long as starts and
\* stops come one after the other no two services run at a time.
THEOREM LockExcludes == Spec => []OneController
<1>1. LockInv => OneController
  BY DEF LockInv, InOrder, OneController
<1>. QED
  BY <1>1, LockInvariant, PTL

\* And a service that serves is the one that clients find.
THEOREM ServicesAreReachable == Spec => []Reachable
<1>1. LockInv => Reachable
  BY DEF LockInv, InOrder, Numbered, Listens, Reachable
<1>. QED
  BY <1>1, LockInvariant, PTL

(***************************************************************************)
(* The files, whether starts and stops wait for each other or not.         *)
(***************************************************************************)

\* A service that will run Server_Close when it leaves main.
Closing == {"first", "fork", "relock", "rewrite", "serve", "close"}

\* As long as there is a file, there is a process whose exit handlers remove it,
\* not always the one that has made it.
Removed ==
    /\ pidFile # None => \E p \in Pids : pc[p] \in Holding
    /\ sock # None => \E p \in Pids : pc[p] \in Closing

FilesInv == TypeOK /\ (~broken => Removed)

LEMMA ServiceRemoves ==
    ASSUME TypeOK, Removed, NEW p \in Pids, ~broken',
           Spawn(p) \/ Runs(p) \/ EndMain(p) \/ Kill(p)
    PROVE  Removed'
<1> USE LifecycleAssumption
<1> USE DEF TypeOK, Removed, Holding, Closing, Leaving, Goes, Ends, Closed, clients
<1>1. CASE Spawn(p)
  BY <1>1 DEF Spawn, Exec, Fresh
<1>2. CASE \E child \in Pids : Fork(p, child)
  <2>1. PICK child \in Pids : Fork(p, child)
    BY <1>2
  <2>2. pc'[child] = "relock"
    BY <2>1 DEF Fork
  <2>. QED
    BY <2>2
<1>3. CASE TakeLock(p)
  BY <1>3 DEF TakeLock, LockFree
<1>4. CASE LockFails(p)
  BY <1>4 DEF LockFails
<1>5. CASE WriteNumber(p)
  BY <1>5 DEF WriteNumber, NumberWritten
<1>6. CASE WriteNumberFails(p) \/ Kill(p)
  BY <1>6 DEF WriteNumberFails, Kill
<1>7. CASE Service_Init(p)
  BY <1>7 DEF Service_Init
<1>8. CASE Server_Init(p)
  BY <1>8 DEF Server_Init
<1>9. CASE Server_InitFails(p)
  BY <1>9 DEF Server_InitFails
<1>10. CASE FirstLoop(p)
  BY <1>10 DEF FirstLoop
<1>11. CASE ForkFails(p)
  BY <1>11 DEF ForkFails
<1>12. CASE ParentExits(p)
  BY <1>12 DEF ParentExits
<1>13. CASE Relock(p)
  BY <1>13 DEF Relock
<1>14. CASE Rewrite(p)
  BY <1>14 DEF Rewrite, NumberWritten
<1>15. CASE ChildFails(p)
  BY <1>15 DEF ChildFails
<1>16. CASE Server_Close(p)
  BY <1>16 DEF Server_Close
<1>17. CASE Service_Cleanup(p)
  BY <1>17 DEF Service_Cleanup
<1>18. CASE PID_Cleanup(p)
  \* What is still open, another service closes.
  BY <1>18 DEF PID_Cleanup
<1>19. CASE EndMain(p)
  BY <1>19 DEF EndMain
<1>. QED
  BY <1>1, <1>2, <1>3, <1>4, <1>5, <1>6, <1>7, <1>8, <1>9, <1>10, <1>11, <1>12, <1>13, <1>14, <1>15, <1>16, <1>17, <1>18, <1>19 DEF Runs

\* Clients make no file, and no service goes further by what they do.
LEMMA CommandRemoves ==
    ASSUME TypeOK, Removed, NEW c \in Clients, Commands(c)
    PROVE  Removed'
<1> USE LifecycleAssumption DEF TypeOK, Removed, Holding, Closing, Leaving, services
<1>1. CASE \E p \in Pids : Start(c, p)
  BY <1>1 DEF Start, Exec, Goes, Fresh
<1>2. CASE StopUnlink(c)
  BY <1>2 DEF StopUnlink
<1>3. CASE StopKill(c)
  BY <1>3 DEF StopKill
<1>4. CASE UNCHANGED services
  BY <1>4
<1>. QED
  BY <1>1, <1>2, <1>3, <1>4 DEF Commands, Stop, StopNothing, StopKillFails, SaysRunning,
     SaysUnreadable, StartReturns

\* A kill is remembered.
LEMMA BrokenStays == ASSUME Next, broken \in BOOLEAN, ~broken' PROVE ~broken
<1>1. CASE \E p \in Pids : Spawn(p) \/ Runs(p) \/ EndMain(p) \/ Kill(p)
  BY <1>1 DEF Spawn, Exec, Runs, TakeLock, LockFails, WriteNumber, WriteNumberFails,
     Service_Init, Server_Init, Server_InitFails, FirstLoop, Fork, ForkFails, ParentExits,
     Relock, Rewrite, ChildFails, EndMain, Server_Close, Service_Cleanup, PID_Cleanup, Kill
<1>2. CASE \E c \in Clients : Commands(c)
  BY <1>2 DEF Commands, Stop, StopNothing, StopKill, StopKillFails, StopUnlink, Start, Exec,
     SaysRunning, SaysUnreadable, StartReturns, services
<1>. QED
  BY <1>1, <1>2 DEF Next

LEMMA FilesInvariant == Spec => []FilesInv
<1>1. Init => FilesInv
  BY LifecycleAssumption DEF Init, FilesInv, TypeOK, Removed, Phases, Stopping
<1>2. FilesInv /\ [Next]_vars => FilesInv'
  <2> SUFFICES ASSUME FilesInv, [Next]_vars PROVE FilesInv'
    OBVIOUS
  <2>1. CASE Next
    <3>1. TypeOK'
      BY <2>1, ServiceTypes, CommandTypes DEF Next, FilesInv
    <3>2. ASSUME ~broken' PROVE Removed'
      <4>1. TypeOK /\ Removed
        BY <2>1, <3>2, BrokenStays DEF FilesInv, TypeOK
      <4>. QED
        BY <2>1, <3>2, <4>1, ServiceRemoves, CommandRemoves DEF Next
    <3>. QED
      BY <3>1, <3>2 DEF FilesInv
  <2>2. CASE UNCHANGED vars
    BY <2>2 DEF vars, FilesInv, TypeOK, Removed, Stopping
  <2>. QED
    BY <2>1, <2>2
<1>. QED
  BY <1>1, <1>2, PTL DEF Spec

\* Whatever starts, stops and failures come together: when the last service has
\* gone through the exit handlers, neither the PID file nor the socket file is
\* left.
THEOREM FilesAreRemoved == Spec => []LeavesNoFiles
<1>1. FilesInv => LeavesNoFiles
  BY DEF FilesInv, Removed, LeavesNoFiles, Alive, Holding, Closing, Leaving
<1>. QED
  BY <1>1, FilesInvariant, PTL
================================================================================
