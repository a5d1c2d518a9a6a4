-------------------------- MODULE SupervisorProofs --------------------------
(***************************************************************************)
(* Theorems about Supervisor for any number of processes, app runs,        *)
(* logins, crashes and restarts.                                           *)
(***************************************************************************)
EXTENDS Supervisor, TLAPS

USE SupervisorAssumption

\* The app and its supervisor live together, and a supervisor that has not
\* given up has restarts left: what TypeOK needs to be inductive.
TypeInv ==
    /\ TypeOK
    /\ app # "down" <=> sup # NULL
    /\ sup # NULL /\ sup.at # "done" => sup.fast < MaxFastRestarts

\* What shutdown relies on: a run of the app spawns one daemon at a time, the
\* one its task stands for, and that one is in the shared slot from the
\* handoff on, or dead.
OwnInv ==
    /\ \A p \in Proc : Alive(p) => proc[p].by <= session
    /\ sup # NULL =>
         /\ session # 0
         /\ \A p \in Proc : Alive(p) /\ proc[p].by = session => p = sup.mine
         /\ sup.mine # NULL <=> sup.at \in {"handoff", "watching"}
         /\ sup.child # NULL => sup.child = sup.mine /\ sup.at = "watching"
         /\ sup.at = "watching" => IF sup.down THEN ~Alive(sup.mine)
                                   ELSE sup.child = sup.mine

\* What the guard relies on: without an overlap, whoever serves the endpoint
\* is the one the file names.
SoleInv ==
    /\ \A p \in Proc : Listening(p) => Running(p)
    /\ ~overlapped => /\ \A p, q \in Proc : Running(p) /\ Running(q) => p = q
                      /\ \A p \in Proc : Listening(p) => path = p

LEMMA Bounds ==
  /\ MaxSession \in Nat /\ MaxLogin \in Nat /\ MaxCrash \in Nat
  /\ MaxFastRestarts \in Nat /\ 0 < MaxFastRestarts
  BY SMT

LEMMA InitType == Init => TypeInv
  <1> SUFFICES ASSUME Init PROVE TypeInv
    OBVIOUS
  <1>1. /\ session \in 0..MaxSession /\ logins \in 0..MaxLogin
        /\ crashes \in 0..MaxCrash
    BY Bounds DEF Init
  <1>2. /\ proc \in [Proc -> Daemon \cup {NULL}]
        /\ path \in Proc \cup {NULL} /\ sup \in Supervising \cup {NULL}
    BY DEF Init
  <1>3. /\ overlapped \in BOOLEAN
        /\ app \in {"down", "up", "updating", "quitting"}
    BY Zenon DEF Init
  <1>4. app # "down" <=> sup # NULL
    BY DEF Init
  <1>5. ~(sup # NULL)
    BY DEF Init
  <1> QED
    BY <1>1, <1>2, <1>3, <1>4, <1>5 DEF TypeInv, TypeOK

LEMMA FreshProcIn ==
  ASSUME FreshProc # {}
  PROVE  (CHOOSE p \in FreshProc : TRUE) \in FreshProc
  OBVIOUS

LEMMA CountType ==
  ASSUME NEW s \in Supervising, s.fast < MaxFastRestarts
  PROVE  /\ Count(s) \in Supervising
         /\ Count(s).at # "done" => Count(s).fast < MaxFastRestarts
  <1> DEFINE at == IF s.fast + 1 >= MaxFastRestarts THEN "done"
                   ELSE "sleeping"
  <1>1. at \in {"done", "sleeping"} /\ s.fast + 1 \in 0..MaxFastRestarts
    BY Bounds DEF Supervising
  <1>2. at # "done" => s.fast + 1 < MaxFastRestarts
    BY Bounds DEF Supervising
  <1>3. Count(s) = [s EXCEPT !.fast = @ + 1, !.at = at]
    BY DEF Count
  <1> HIDE DEF at
  <1>4. /\ Count(s) \in Supervising
        /\ Count(s).at = at /\ Count(s).fast = s.fast + 1
    BY <1>1, <1>3 DEF Supervising, Task
  <1> QED
    BY <1>2, <1>4

LEMMA NextType == TypeInv /\ [Next]_vars => TypeInv'
  <1> SUFFICES ASSUME TypeInv, [Next]_vars PROVE TypeInv'
    OBVIOUS
  <1> USE DEF TypeInv, TypeOK
  <1>1. CASE LoginStart
    BY <1>1, FreshProcIn DEF LoginStart, Started, Daemon, FreshProc
  <1>2. ASSUME NEW p \in Proc, Guard(p) PROVE TypeInv'
    <2>1. proc' \in [Proc -> Daemon \cup {NULL}]
      BY <1>2 DEF Guard, Daemon
    <2>2. overlapped' \in BOOLEAN
      BY <1>2, Zenon DEF Guard
    <2> QED
      BY <1>2, <2>1, <2>2 DEF Guard
  <1>3. ASSUME NEW p \in Proc, IpcProbe(p) PROVE TypeInv'
    BY <1>3 DEF IpcProbe, Running, Daemon
  <1>4. ASSUME NEW p \in Proc, IpcUnlink(p) PROVE TypeInv'
    BY <1>4 DEF IpcUnlink, Running, Daemon
  <1>5. ASSUME NEW p \in Proc, IpcBind(p) PROVE TypeInv'
    BY <1>5 DEF IpcBind, Running, Daemon
  <1>6. ASSUME NEW p \in Proc, IpcEnd(p) PROVE TypeInv'
    BY <1>6 DEF IpcEnd, Running, Daemon
  <1>7. ASSUME NEW p \in Proc, Stop(p) PROVE TypeInv'
    BY <1>7 DEF Stop
  <1>8. ASSUME NEW p \in Proc, IpcFails(p) \/ IpcEndLeaves(p) \/ Interrupt(p)
        PROVE  TypeInv'
    <2>1. CASE IpcFails(p) \/ IpcEndLeaves(p)
      BY <2>1, Bounds DEF IpcFails, IpcEndLeaves, Upset, Running, Daemon
    <2>2. CASE Interrupt(p)
      <3>1. proc' \in [Proc -> Daemon \cup {NULL}]
        BY <2>2 DEF Interrupt, Running, Daemon
      <3> QED
        BY <2>2, <3>1, Bounds DEF Interrupt, Upset
    <2> QED
      BY <1>8, <2>1, <2>2
  <1>9. ASSUME NEW p \in Proc, Crash(p) PROVE TypeInv'
    BY <1>9 DEF Crash, Upset
  <1>10. CASE SupProbe
    BY <1>10 DEF SupProbe, Supervising, Task
  <1>11. CASE SupTop
    BY <1>11 DEF SupTop, Supervising, Task
  <1>12. CASE SupSpawn
    BY <1>12, FreshProcIn
       DEF SupSpawn, Started, Daemon, FreshProc, Supervising, Task
  <1>13. CASE SupAdopt
    <2>1. CASE sup.down
      <3>1. sup' \in Supervising /\ sup'.at = "done"
        BY <1>13, <2>1 DEF SupAdopt, Supervising, Task
      <3>2. proc' \in [Proc -> Daemon \cup {NULL}]
        BY <1>13, <2>1 DEF SupAdopt
      <3> QED
        BY <1>13, <3>1, <3>2 DEF SupAdopt
    <2>2. CASE ~sup.down
      <3>1. sup' \in Supervising /\ sup'.fast = sup.fast
        BY <1>13, <2>2 DEF SupAdopt, Supervising, Task
      <3> QED
        BY <1>13, <2>2, <3>1 DEF SupAdopt
    <2> QED
      BY <2>1, <2>2
  <1>14. CASE SupExited
    BY <1>14 DEF SupExited, Supervising, Task
  <1>15. CASE SupDecide
    <2>1. CASE sup' = [sup EXCEPT !.at = "done"]
      BY <1>15, <2>1 DEF SupDecide, Supervising, Task
    <2>2. CASE sup' = Count(sup)
      BY <1>15, <2>2, CountType DEF SupDecide
    <2>3. CASE sup' = [sup EXCEPT !.fast = 0, !.at = "sleeping"]
      <3>1. 0 \in 0..MaxFastRestarts /\ 0 < MaxFastRestarts
        BY Bounds
      <3>2. sup \in Supervising
        BY <1>15 DEF SupDecide
      <3>3. sup' \in Supervising /\ sup'.fast = 0
        BY <2>3, <3>1, <3>2 DEF Supervising, Task
      <3> QED
        BY <1>15, <3>1, <3>3 DEF SupDecide
    <2> QED
      BY <1>15, <2>1, <2>2, <2>3 DEF SupDecide
  <1>16. CASE SupWake
    BY <1>16 DEF SupWake, Supervising, Task
  <1>17. CASE SupSpawnFail
    <2>1. crashes' \in 0..MaxCrash
      BY <1>17, Bounds DEF SupSpawnFail, Upset
    <2>2. CASE sup' = [sup EXCEPT !.at = "done"]
      BY <1>17, <2>1, <2>2 DEF SupSpawnFail, Supervising, Task
    <2>3. CASE sup' = Count(sup)
      BY <1>17, <2>1, <2>3, CountType DEF SupSpawnFail
    <2> QED
      BY <1>17, <2>2, <2>3 DEF SupSpawnFail
  <1>18. CASE AppStart
    <2>1. sup' \in Supervising /\ sup'.fast < MaxFastRestarts
      BY <1>18, Bounds DEF AppStart, Supervising, Task
    <2>2. session' \in 0..MaxSession
      BY <1>18, Bounds DEF AppStart
    <2> QED
      BY <1>18, <2>1, <2>2 DEF AppStart
  <1>19. CASE AppQuit
    BY <1>19 DEF AppQuit, Shutdown, Supervising
  <1>20. CASE UpdateAsk
    BY <1>20 DEF UpdateAsk, Answered, Listening, Daemon
  <1>21. CASE UpdateShutdown
    BY <1>21 DEF UpdateShutdown, Shutdown, Supervising
  <1>22. CASE AppExit
    BY <1>22 DEF AppExit
  <1>23. CASE AppKill
    BY <1>23 DEF AppKill, Upset
  <1>24. CASE UNCHANGED vars
    BY <1>24 DEF vars
  <1> QED
    BY <1>1, <1>2, <1>3, <1>4, <1>5, <1>6, <1>7, <1>8, <1>9, <1>10, <1>11,
       <1>12, <1>13, <1>14, <1>15, <1>16, <1>17, <1>18, <1>19, <1>20, <1>21,
       <1>22, <1>23, <1>24 DEF Next, DaemonStep, DaemonUpset, SupStep

\* Every reachable state is well typed: among others, the restart counter of
\* supervise never passes MAX_FAST_RESTARTS.
THEOREM TypeCorrect == Spec => []TypeOK
  <1>1. TypeInv => TypeOK
    BY DEF TypeInv
  <1> QED
    BY <1>1, InitType, NextType, PTL DEF Spec

-----------------------------------------------------------------------------
LEMMA SoleFrame ==
  ASSUME SoleInv, path' = path, overlapped' = overlapped,
         \A p \in Proc : /\ Running(p)' => Running(p)
                         /\ Listening(p)' => Listening(p) /\ Running(p)'
  PROVE  SoleInv'
  BY DEF SoleInv

\* A process that ends is neither running nor listening.
LEMMA KillFrame ==
  ASSUME TypeInv, SoleInv, NEW p \in Proc, path' = path,
         overlapped' = overlapped, proc' = [proc EXCEPT ![p] = NULL]
  PROVE  SoleInv'
  <1>1. \A q \in Proc : /\ Running(q)' => Running(q)
                        /\ Listening(q)' => Listening(q) /\ Running(q)'
    BY DEF TypeInv, TypeOK, SoleInv, Running, Listening
  <1> QED
    BY <1>1, SoleFrame

LEMMA NextSole == TypeInv /\ SoleInv /\ [Next]_vars => SoleInv'
  <1> SUFFICES ASSUME TypeInv, SoleInv, [Next]_vars PROVE SoleInv'
    OBVIOUS
  <1> DEFINE Fewer ==
        \A q \in Proc : /\ Running(q)' => Running(q)
                        /\ Listening(q)' => Listening(q) /\ Running(q)'
  <1>0. ASSUME proc' = proc, path' = path, overlapped' = overlapped
        PROVE  SoleInv'
    BY <1>0 DEF SoleInv, Running, Listening
  <1>1. ASSUME NEW p \in FreshProc, NEW by \in 0..MaxSession,
               proc' = [proc EXCEPT ![p] = Started(by)], path' = path,
               overlapped' = overlapped
        PROVE  SoleInv'
    <2>1. Fewer
      BY <1>1 DEF TypeInv, TypeOK, SoleInv, Running, Listening, Started,
                  FreshProc
    <2> QED
      BY <1>1, <2>1, SoleFrame
  <1>2. CASE LoginStart
    <2>1. 0 \in 0..MaxSession
      BY Bounds
    <2> QED
      BY <1>1, <1>2, <2>1, FreshProcIn DEF LoginStart
  <1>3. ASSUME NEW p \in Proc, Guard(p) PROVE SoleInv'
    <2>1. CASE Answered
      <3>1. /\ proc' = [proc EXCEPT ![p] = NULL] /\ path' = path
            /\ overlapped' = overlapped
        BY <1>3, <2>1, Zenon DEF Guard
      <3> QED
        BY <3>1, KillFrame
    <2>2. CASE ~Answered
      <3>1. \A q \in Proc : /\ Listening(q)' <=> Listening(q)
                            /\ Running(q)' <=> Running(q) \/ q = p
        BY <1>3, <2>2 DEF Guard, TypeInv, TypeOK, Running, Listening, Daemon
      <3>2. path' = path /\ (~overlapped' => ~overlapped /\ ~Silent)
        BY <1>3, <2>2, Zenon DEF Guard
      <3>3. ~overlapped' => \A q \in Proc : ~Running(q)
        BY <3>2, <2>2 DEF Silent, SoleInv, Answered, TypeInv, TypeOK
      <3> QED
        BY <3>1, <3>2, <3>3 DEF SoleInv
    <2> QED
      BY <2>1, <2>2
  <1>4. ASSUME NEW p \in Proc, IpcProbe(p) \/ IpcFails(p) \/ IpcEndLeaves(p)
        PROVE  SoleInv'
    <2>1. Fewer
      BY <1>4 DEF IpcProbe, IpcFails, IpcEndLeaves, TypeInv, TypeOK, SoleInv,
                  Running, Listening, Daemon
    <2> QED
      BY <1>4, <2>1, SoleFrame DEF IpcProbe, IpcFails, IpcEndLeaves
  <1>5. ASSUME NEW p \in Proc, IpcUnlink(p) PROVE SoleInv'
    <2>1. Fewer /\ ~Listening(p)'
      BY <1>5 DEF IpcUnlink, TypeInv, TypeOK, SoleInv, Running, Listening,
                  Daemon
    <2>2. Running(p) /\ overlapped' = overlapped
      BY <1>5 DEF IpcUnlink
    <2> QED
      BY <2>1, <2>2 DEF SoleInv
  <1>6. ASSUME NEW p \in Proc, IpcBind(p) PROVE SoleInv'
    <2>1. \A q \in Proc : /\ Running(q)' <=> Running(q)
                          /\ q # p => (Listening(q)' <=> Listening(q))
      BY <1>6 DEF IpcBind, TypeInv, TypeOK, Running, Listening, Daemon
    <2>2. /\ Running(p) /\ overlapped' = overlapped
          /\ path' = p \/ (path' = path /\ ~Listening(p)')
      BY <1>6 DEF IpcBind, TypeInv, TypeOK, Running, Listening, Daemon
    <2> QED
      BY <2>1, <2>2 DEF SoleInv
  <1>7. ASSUME NEW p \in Proc, IpcEnd(p) PROVE SoleInv'
    <2>1. Fewer /\ ~Listening(p)'
      BY <1>7 DEF IpcEnd, TypeInv, TypeOK, SoleInv, Running, Listening, Daemon
    <2>2. Running(p) /\ overlapped' = overlapped
      BY <1>7 DEF IpcEnd
    <2> QED
      BY <2>1, <2>2 DEF SoleInv
  <1>8. ASSUME NEW p \in Proc, Stop(p) \/ Crash(p) PROVE SoleInv'
    BY <1>8, KillFrame DEF Stop, Crash
  <1>9. ASSUME NEW p \in Proc, proc' = [proc EXCEPT ![p].stop = TRUE],
               Alive(p), path' = path, overlapped' = overlapped
        PROVE  SoleInv'
    <2>1. Fewer
      BY <1>9 DEF Alive, TypeInv, TypeOK, SoleInv, Running, Listening, Daemon
    <2> QED
      BY <1>9, <2>1, SoleFrame
  <1>10. ASSUME NEW p \in Proc, Interrupt(p) PROVE SoleInv'
    BY <1>9, <1>10 DEF Interrupt, Running, Alive
  <1>11. CASE SupSpawn
    BY <1>1, <1>11, FreshProcIn DEF SupSpawn, TypeInv, TypeOK
  <1>12. CASE SupAdopt
    <2>1. CASE sup.down /\ sup.mine \in Proc
      BY <1>12, <2>1, KillFrame DEF SupAdopt
    <2>2. CASE sup.down /\ sup.mine \notin Proc
      BY <1>0, <1>12, <2>2 DEF SupAdopt, TypeInv, TypeOK
    <2>3. CASE ~sup.down
      BY <1>0, <1>12, <2>3 DEF SupAdopt
    <2> QED
      BY <2>1, <2>2, <2>3
  <1>13. ASSUME Shutdown, app # "down", path' = path,
                overlapped' = overlapped
         PROVE  SoleInv'
    <2>1. sup.child \in Proc \cup {NULL}
      BY <1>13 DEF TypeInv, TypeOK, Supervising
    <2> QED
      BY <1>0, <1>13, <2>1, KillFrame DEF Shutdown
  <1>14. CASE AppQuit
    BY <1>13, <1>14 DEF AppQuit
  <1>15. CASE UpdateShutdown
    BY <1>13, <1>15 DEF UpdateShutdown
  <1>16. CASE UpdateAsk
    BY <1>0, <1>9, <1>16
       DEF UpdateAsk, Answered, Listening, Alive, TypeInv, TypeOK
  <1>17. CASE \/ SupProbe \/ SupTop \/ SupExited \/ SupDecide \/ SupWake
             \/ SupSpawnFail \/ AppStart \/ AppExit \/ AppKill
    BY <1>0, <1>17 DEF SupProbe, SupTop, SupExited, SupDecide, SupWake,
                       SupSpawnFail, AppStart, AppExit, AppKill
  <1>18. CASE UNCHANGED vars
    BY <1>0, <1>18 DEF vars
  <1> QED
    BY <1>2, <1>3, <1>4, <1>5, <1>6, <1>7, <1>8, <1>10, <1>11, <1>12, <1>14,
       <1>15, <1>16, <1>17, <1>18 DEF Next, DaemonStep, DaemonUpset, SupStep

\* Whatever crashes, restarts and updates happen, two daemons run at once
\* only after one started beside another that was not serving its endpoint
\* (main's single-instance guard, run_ipc_server).
THEOREM SingleInstanceHolds == Spec => []SingleInstance
  <1>1. Init => SoleInv
    BY DEF Init, SoleInv, Running, Listening
  <1>2. SoleInv => SingleInstance
    BY DEF SoleInv, SingleInstance
  <1> QED
    BY <1>1, <1>2, InitType, NextType, NextSole, PTL DEF Spec

\* Without an overlap a daemon never unlinks or replaces the socket of another
\* one that still serves it: only a daemon told to stop gives its endpoint up
\* (run_ipc_server).  A stolen endpoint takes a daemon that passed its guard
\* beside another that was still starting, was draining or had failed to bind.
THEOREM EndpointKeptHolds == Spec /\ []~overlapped => EndpointKept
  <1> DEFINE Kept ==
        \A p \in Proc : (path = p /\ Listening(p) /\ path' # p)
                        => proc[p].stop
  <1>1. ~overlapped /\ SoleInv /\ [Next]_vars => [Kept]_vars
    <2> SUFFICES ASSUME ~overlapped, SoleInv, Next,
                        NEW p \in Proc, path = p, Listening(p), path' # p
                 PROVE  proc[p].stop
      OBVIOUS
    <2>1. ASSUME NEW q \in Proc, Running(q) PROVE q = p
      BY <2>1 DEF SoleInv
    <2>2. ASSUME NEW q \in Proc, IpcUnlink(q) PROVE proc[p].stop
      BY <2>1, <2>2 DEF IpcUnlink, Listening
    <2>3. ASSUME NEW q \in Proc, IpcBind(q) PROVE proc[p].stop
      BY <2>1, <2>3 DEF IpcBind, Listening
    <2>4. ASSUME NEW q \in Proc, IpcEnd(q) PROVE proc[p].stop
      BY <2>1, <2>4 DEF IpcEnd
    <2>5. ASSUME NEW q \in Proc,
                 Guard(q) \/ IpcProbe(q) \/ Stop(q) \/ DaemonUpset(q)
          PROVE  path' = path
      BY <2>5 DEF Guard, IpcProbe, Stop, DaemonUpset, IpcFails, IpcEndLeaves,
                  Interrupt, Crash
    <2>6. CASE \/ LoginStart \/ SupStep \/ SupSpawnFail \/ AppStart \/ AppQuit
               \/ UpdateAsk \/ UpdateShutdown \/ AppExit \/ AppKill
      <3>1. path' = path
        BY <2>6, Zenon
           DEF LoginStart, SupStep, SupProbe, SupTop, SupSpawn, SupAdopt,
               SupExited, SupDecide, SupWake, SupSpawnFail, AppStart, AppQuit,
               UpdateAsk, UpdateShutdown, AppExit, AppKill
      <3> QED
        BY <3>1
    <2> QED
      BY <2>2, <2>3, <2>4, <2>5, <2>6 DEF Next, DaemonStep
  <1>2. Init => SoleInv
    BY DEF Init, SoleInv, Running, Listening
  <1>3. Spec /\ []~overlapped => [][Kept]_vars
    <2> HIDE DEF Kept
    <2> QED
      BY <1>1, <1>2, InitType, NextType, NextSole, PTL DEF Spec
  <1> QED
    BY <1>3 DEF EndpointKept

-----------------------------------------------------------------------------
\* Steps of daemons and logins: the supervisor and the session stay, and no
\* daemon of this run appears.
LEMMA OwnFrame ==
  ASSUME TypeInv, OwnInv, sup' = sup, session' = session,
         \A p \in Proc : Alive(p)' =>
             \/ Alive(p) /\ proc'[p].by = proc[p].by
             \/ p \in FreshProc /\ proc'[p].by = 0
  PROVE  OwnInv'
  <1>1. \A p \in Proc : Alive(p)' => proc'[p].by <= session'
    BY Bounds DEF OwnInv, TypeInv, TypeOK
  <1>2. CASE sup # NULL
    <2>1. \A p \in Proc : Alive(p)' /\ proc'[p].by = session => p = sup.mine
      BY <1>2 DEF OwnInv
    <2>2. sup.at = "watching" /\ sup.down => ~Alive(sup.mine)'
      <3> SUFFICES ASSUME sup.at = "watching", sup.down
                   PROVE  ~Alive(sup.mine)'
        OBVIOUS
      <3>1. sup.mine \in Proc /\ ~Alive(sup.mine)
        BY <1>2 DEF OwnInv, TypeInv, TypeOK, Supervising
      <3>2. sup.mine \notin FreshProc
        BY <1>2 DEF FreshProc
      <3> QED
        BY <3>1, <3>2
    <2> QED
      BY <1>1, <1>2, <2>1, <2>2 DEF OwnInv
  <1>3. CASE sup = NULL
    BY <1>1, <1>3 DEF OwnInv
  <1> QED
    BY <1>2, <1>3

\* Steps of the supervisor's task that touch no process and keep its slot.
LEMMA TaskFrame ==
  ASSUME TypeInv, OwnInv, sup # NULL, proc' = proc, session' = session,
         sup' # NULL, sup'.down = sup.down, sup'.mine = sup.mine,
         sup'.child = sup.child,
         sup.at \notin {"handoff", "watching"},
         sup'.at \notin {"handoff", "watching"}
  PROVE  OwnInv'
  BY DEF OwnInv, Alive

LEMMA ShutdownOwn ==
  ASSUME TypeInv, OwnInv, app # "down", Shutdown, session' = session
  PROVE  OwnInv'
  <1>1. sup \in Supervising
    BY DEF TypeInv, TypeOK
  <1>2. /\ sup' \in Supervising /\ sup'.at = sup.at /\ sup'.mine = sup.mine
        /\ sup'.child = NULL /\ sup'.down
    BY <1>1 DEF Shutdown, Supervising
  <1>3. \A p \in Proc : Alive(p)' => /\ Alive(p) /\ proc'[p] = proc[p]
                                      /\ p # sup.child
    BY <1>1 DEF Shutdown, Alive, TypeInv, TypeOK, Supervising
  <1>4. sup.at = "watching" => ~Alive(sup.mine)'
    <2> SUFFICES ASSUME sup.at = "watching" PROVE ~Alive(sup.mine)'
      OBVIOUS
    <2>1. sup.mine \in Proc /\ (Alive(sup.mine) => sup.child = sup.mine)
      BY <1>1 DEF OwnInv, Supervising
    <2> QED
      BY <1>2, <1>3, <2>1
  <1>5. /\ session # 0 /\ sup # NULL /\ sup' # NULL
        /\ sup.mine # NULL <=> sup.at \in {"handoff", "watching"}
    BY <1>1, <1>2 DEF OwnInv
  <1>6. \A p \in Proc : Alive(p)' /\ proc'[p].by = session' => p = sup'.mine
    BY <1>2, <1>3, <1>5 DEF OwnInv
  <1> QED
    BY <1>2, <1>3, <1>4, <1>5, <1>6 DEF OwnInv

\* A daemon's own steps start no daemon and pass none to another run.
LEMMA DaemonKeeps ==
  ASSUME TypeOK, NEW p \in Proc, DaemonStep(p) \/ DaemonUpset(p)
  PROVE  \A q \in Proc : Alive(q)' => Alive(q) /\ proc'[q].by = proc[q].by
  <1> USE DEF TypeOK
  <1>1. CASE proc' = [proc EXCEPT ![p] = NULL]
    BY <1>1 DEF Alive
  <1>2. ASSUME Alive(p), NEW v,
               \/ proc' = [proc EXCEPT ![p].main = v]
               \/ proc' = [proc EXCEPT ![p].ipc = v]
               \/ proc' = [proc EXCEPT ![p].stop = v]
        PROVE  \A q \in Proc : Alive(q)' => Alive(q) /\ proc'[q].by = proc[q].by
    BY <1>2 DEF Alive, Daemon
  <1>3. CASE Guard(p)
    BY <1>1, <1>2, <1>3 DEF Guard, Alive
  <1>4. CASE IpcProbe(p) \/ IpcUnlink(p) \/ IpcBind(p) \/ IpcEnd(p)
    BY <1>2, <1>4 DEF IpcProbe, IpcUnlink, IpcBind, IpcEnd, Running, Alive
  <1>5. CASE Stop(p) \/ Crash(p)
    BY <1>1, <1>5 DEF Stop, Crash
  <1>6. CASE IpcFails(p) \/ IpcEndLeaves(p) \/ Interrupt(p)
    BY <1>2, <1>6 DEF IpcFails, IpcEndLeaves, Interrupt, Running, Alive
  <1> QED
    BY <1>3, <1>4, <1>5, <1>6 DEF DaemonStep, DaemonUpset

LEMMA NextOwn == TypeInv /\ OwnInv /\ [Next]_vars => OwnInv'
  <1> SUFFICES ASSUME TypeInv, OwnInv, [Next]_vars PROVE OwnInv'
    OBVIOUS
  <1> USE DEF TypeInv, TypeOK
  <1>1. CASE LoginStart
    <2>1. \A p \in Proc : Alive(p)' =>
             \/ Alive(p) /\ proc'[p].by = proc[p].by
             \/ p \in FreshProc /\ proc'[p].by = 0
      BY <1>1, FreshProcIn DEF LoginStart, Started, Alive
    <2> QED
      BY <1>1, <2>1, OwnFrame DEF LoginStart
  <1>2. ASSUME NEW p \in Proc,
               DaemonStep(p) \/ DaemonUpset(p)
        PROVE  OwnInv'
    <2>1. \A q \in Proc : Alive(q)' => Alive(q) /\ proc'[q].by = proc[q].by
      BY <1>2, DaemonKeeps
    <2>2. sup' = sup /\ session' = session
      BY <1>2 DEF DaemonStep, Guard, IpcProbe, IpcUnlink, IpcBind, IpcEnd,
                  Stop, DaemonUpset, IpcFails, IpcEndLeaves, Interrupt, Crash
    <2> QED
      BY <2>1, <2>2, OwnFrame
  <1>3. CASE SupProbe
    <2>1. /\ sup' \in Supervising /\ sup'.at \in {"done", "top"}
          /\ sup'.mine = sup.mine /\ sup'.child = sup.child
          /\ sup'.down = sup.down
      BY <1>3 DEF SupProbe, Supervising, Task
    <2> QED
      BY <1>3, <2>1, TaskFrame DEF SupProbe
  <1>4. CASE SupTop
    <2>1. /\ sup' \in Supervising /\ sup'.at \in {"done", "spawn"}
          /\ sup'.mine = sup.mine /\ sup'.child = sup.child
          /\ sup'.down = sup.down
      BY <1>4 DEF SupTop, Supervising, Task
    <2> QED
      BY <1>4, <2>1, TaskFrame DEF SupTop
  <1>5. CASE SupSpawn
    <2> DEFINE p == CHOOSE p \in FreshProc : TRUE
    <2>1. p \in Proc /\ p # NULL
      BY <1>5, FreshProcIn DEF SupSpawn, FreshProc
    <2>2. /\ sup' \in Supervising /\ sup'.at = "handoff" /\ sup'.mine = p
          /\ sup'.child = sup.child
      BY <1>5, <2>1 DEF SupSpawn, Supervising, Task
    <2>3. \A q \in Proc : Alive(q)' =>
             \/ Alive(q) /\ proc'[q].by = proc[q].by
             \/ q = p /\ proc'[q].by = session
      BY <1>5 DEF SupSpawn, Started, Alive
    <2>4. /\ sup # NULL /\ session # 0 /\ session' = session
          /\ sup.mine = NULL /\ sup.child = NULL
      BY <1>5 DEF SupSpawn, OwnInv
    <2>5. session <= session
      BY Bounds
    <2> HIDE DEF p
    <2> QED
      BY <2>1, <2>2, <2>3, <2>4, <2>5 DEF OwnInv
  <1>6. CASE SupAdopt
    <2>1. /\ sup \in Supervising /\ sup.mine \in Proc /\ sup.child = NULL
          /\ session # 0 /\ session' = session
      BY <1>6 DEF SupAdopt, OwnInv, Supervising
    <2>2. CASE sup.down
      <3>1. /\ sup' \in Supervising /\ sup'.at = "done" /\ sup'.mine = NULL
            /\ sup'.child = NULL
        <4>1. sup' = [sup EXCEPT !.at = "done", !.mine = NULL]
          BY <1>6, <2>2, Zenon DEF SupAdopt
        <4> QED
          BY <2>1, <4>1 DEF Supervising, Task
      <3>2. \A q \in Proc : Alive(q)' => /\ Alive(q) /\ proc'[q] = proc[q]
                                          /\ q # sup.mine
        BY <1>6, <2>1, <2>2 DEF SupAdopt, Alive
      <3> QED
        BY <1>6, <2>1, <3>1, <3>2 DEF OwnInv
    <2>3. CASE ~sup.down
      <3>1. /\ sup' \in Supervising /\ sup'.at = "watching"
            /\ sup'.mine = sup.mine /\ sup'.child = sup.mine
            /\ sup'.down = sup.down
        <4>1. sup' = [sup EXCEPT !.at = "watching", !.child = sup.mine]
          BY <1>6, <2>3, Zenon DEF SupAdopt
        <4> QED
          BY <2>1, <4>1 DEF Supervising, Task
      <3>2. proc' = proc /\ sup # NULL
        BY <1>6, <2>3 DEF SupAdopt
      <3> QED
        BY <2>1, <2>3, <3>1, <3>2 DEF OwnInv, Alive
    <2> QED
      BY <2>2, <2>3
  <1>7. CASE SupExited
    <2>1. /\ sup' \in Supervising /\ sup'.at = "exited" /\ sup'.mine = NULL
          /\ sup'.child = NULL
      BY <1>7 DEF SupExited, Supervising, Task
    <2>2. /\ sup # NULL /\ proc' = proc /\ session' = session
          /\ ~Alive(sup.mine)
      BY <1>7 DEF SupExited
    <2> QED
      BY <2>1, <2>2 DEF OwnInv, Alive
  <1>8. ASSUME sup # NULL, sup.at # "done",
               \/ sup' = Count(sup)
               \/ sup' = [sup EXCEPT !.at = "done"]
               \/ sup' = [sup EXCEPT !.at = "top"]
               \/ sup' = [sup EXCEPT !.fast = 0, !.at = "sleeping"]
        PROVE  /\ sup' # NULL /\ sup'.at \notin {"handoff", "watching"}
               /\ sup'.mine = sup.mine /\ sup'.child = sup.child
               /\ sup'.down = sup.down
    <2>1. sup \in Supervising /\ 0 \in 0..MaxFastRestarts
      BY <1>8, Bounds
    <2>2. CASE sup' = Count(sup)
      BY <1>8, <2>1, <2>2, CountType DEF Count, Supervising
    <2>3. CASE \/ sup' = [sup EXCEPT !.at = "done"]
               \/ sup' = [sup EXCEPT !.at = "top"]
               \/ sup' = [sup EXCEPT !.fast = 0, !.at = "sleeping"]
      <3>1. sup' \in Supervising
        BY <2>1, <2>3 DEF Supervising, Task
      <3> QED
        BY <2>1, <2>3, <3>1 DEF Supervising
    <2> QED
      BY <1>8, <2>2, <2>3
  <1>9. CASE SupDecide
    BY <1>8, <1>9, TaskFrame DEF SupDecide
  <1>10. CASE SupWake
    BY <1>8, <1>10, TaskFrame DEF SupWake
  <1>11. CASE SupSpawnFail
    BY <1>8, <1>11, TaskFrame DEF SupSpawnFail
  <1>12. CASE AppStart
    <2>1. /\ sup' \in Supervising /\ sup'.at = "probe" /\ sup'.mine = NULL
          /\ sup'.child = NULL
      BY <1>12, Bounds DEF AppStart, Supervising, Task
    <2>2. session' = session + 1 /\ proc' = proc /\ session \in Nat
      BY <1>12, Bounds DEF AppStart
    <2>3. \A p \in Proc : Alive(p) => proc[p].by \in Nat
      BY Bounds DEF Alive, Daemon
    <2>4. \A p \in Proc : Alive(p)' => /\ proc'[p].by <= session'
                                        /\ proc'[p].by # session'
      BY <2>2, <2>3 DEF OwnInv, Alive
    <2>5. session' # 0
      BY <2>2
    <2> QED
      BY <2>1, <2>4, <2>5 DEF OwnInv
  <1>13. CASE AppQuit
    BY <1>13, ShutdownOwn DEF AppQuit
  <1>14. CASE UpdateAsk
    <2>1. \A q \in Proc : Alive(q)' => Alive(q) /\ proc'[q].by = proc[q].by
      BY <1>14 DEF UpdateAsk, Answered, Listening, Alive, Daemon
    <2> QED
      BY <1>14, <2>1, OwnFrame DEF UpdateAsk
  <1>15. CASE UpdateShutdown
    BY <1>15, ShutdownOwn DEF UpdateShutdown
  <1>16. CASE AppExit \/ AppKill
    BY <1>16 DEF AppExit, AppKill, OwnInv, Alive
  <1>17. CASE UNCHANGED vars
    BY <1>17 DEF vars, OwnInv, Alive
  <1> QED
    BY <1>1, <1>2, <1>3, <1>4, <1>5, <1>6, <1>7, <1>9, <1>10, <1>11, <1>12,
       <1>13, <1>14, <1>15, <1>16, <1>17 DEF Next, SupStep

\* However a shutdown falls between the steps of a spawn, the app leaves none
\* of its daemons behind, save the one its task is about to kill (adopt,
\* shutdown).
THEOREM ShutdownReapsHolds == Spec => []ShutdownReaps
  <1>1. Init => OwnInv
    BY DEF Init, OwnInv, Alive
  <1>2. TypeInv /\ OwnInv => ShutdownReaps
    BY DEF TypeInv, TypeOK, OwnInv, ShutdownReaps
  <1> QED
    BY <1>1, <1>2, InitType, NextType, NextOwn, PTL DEF Spec

-----------------------------------------------------------------------------
\* An app that is about to exit has shut down, and until something crashed
\* the daemons are those of logins and of this run.
OrphanInv ==
    /\ app = "quitting" => sup.down
    /\ crashes = 0 => \A p \in Proc : Alive(p) =>
         proc[p].by = 0 \/ (sup # NULL /\ proc[p].by = session)

\* The app does not end while its task stands between a spawn and the handoff.
ExitsSettled == [][AppExit => sup.at # "handoff"]_vars

LEMMA NextOrphan ==
  ASSUME TypeInv, OwnInv, OrphanInv, [Next]_vars,
         [AppExit => sup.at # "handoff"]_vars
  PROVE  OrphanInv'
  <1> USE DEF TypeInv, TypeOK
  <1>1. ASSUME crashes' = 0 => crashes = 0, sup # NULL => sup' # NULL,
               session' = session,
               \A p \in Proc : Alive(p)' =>
                   \/ Alive(p) /\ proc'[p].by = proc[p].by
                   \/ proc'[p].by = 0
                   \/ sup # NULL /\ proc'[p].by = session,
               app' = "quitting" => sup'.down
        PROVE  OrphanInv'
    BY <1>1 DEF OrphanInv
  <1>2. ASSUME crashes' = crashes \/ crashes' = crashes + 1
        PROVE  crashes' = 0 => crashes = 0
    BY <1>2, Bounds
  <1>3. CASE LoginStart
    <2>1. \A p \in Proc : Alive(p)' =>
             (Alive(p) /\ proc'[p].by = proc[p].by) \/ proc'[p].by = 0
      BY <1>3 DEF LoginStart, Started, Alive
    <2> QED
      BY <1>1, <1>3, <2>1 DEF LoginStart, OrphanInv
  <1>4. ASSUME NEW p \in Proc, DaemonStep(p) \/ DaemonUpset(p)
        PROVE  OrphanInv'
    <2>1. /\ sup' = sup /\ session' = session /\ app' = app
          /\ crashes' = crashes \/ crashes' = crashes + 1
      BY <1>4 DEF DaemonStep, Guard, IpcProbe, IpcUnlink, IpcBind, IpcEnd,
                  Stop, DaemonUpset, IpcFails, IpcEndLeaves, Interrupt, Crash,
                  Upset
    <2> QED
      BY <1>1, <1>2, <1>4, <2>1, DaemonKeeps DEF OrphanInv
  <1>5. CASE SupStep \/ SupSpawnFail
    <2>1. /\ sup \in Supervising /\ sup # NULL
          /\ session' = session /\ app' = app
      BY <1>5 DEF SupStep, SupProbe, SupTop, SupSpawn, SupAdopt, SupExited,
                  SupDecide, SupWake, SupSpawnFail
    <2>2. crashes' = crashes \/ crashes' = crashes + 1
      BY <1>5 DEF SupStep, SupProbe, SupTop, SupSpawn, SupAdopt, SupExited,
                  SupDecide, SupWake, SupSpawnFail, Upset
    <2>3. sup' # NULL
      BY <2>1, NextType
    <2>4. sup'.down = sup.down
      <3>1. CASE SupProbe \/ SupTop \/ SupSpawn \/ SupWake
        BY <2>1, <3>1 DEF SupProbe, SupTop, SupSpawn, SupWake, Supervising
      <3>2. CASE SupAdopt \/ SupExited
        BY <2>1, <3>2 DEF SupAdopt, SupExited, Supervising
      <3>3. CASE SupDecide \/ SupSpawnFail
        BY <2>1, <3>3 DEF SupDecide, SupSpawnFail, Count, Supervising
      <3> QED
        BY <1>5, <3>1, <3>2, <3>3 DEF SupStep
    <2>5. \A p \in Proc : Alive(p)' =>
             (Alive(p) /\ proc'[p].by = proc[p].by) \/ proc'[p].by = session
      <3>1. CASE proc' = proc
        BY <3>1 DEF Alive
      <3>2. CASE SupSpawn
        BY <3>2 DEF SupSpawn, Started, Alive
      <3>3. CASE SupAdopt
        BY <3>3 DEF SupAdopt, Alive
      <3> QED
        BY <1>5, <3>1, <3>2, <3>3
           DEF SupStep, SupProbe, SupTop, SupExited, SupDecide, SupWake,
               SupSpawnFail
    <2> QED
      BY <1>1, <1>2, <2>1, <2>2, <2>3, <2>4, <2>5 DEF OrphanInv
  <1>6. CASE AppStart
    BY <1>6 DEF AppStart, OrphanInv, Alive
  <1>7. CASE AppQuit \/ UpdateShutdown
    <2>1. sup \in Supervising /\ sup # NULL
      BY <1>7 DEF AppQuit, UpdateShutdown
    <2>2. sup'.down /\ sup' # NULL
      BY <1>7, <2>1, NextType DEF AppQuit, UpdateShutdown, Shutdown, Supervising
    <2>3. \A p \in Proc : Alive(p)' => Alive(p) /\ proc'[p].by = proc[p].by
      BY <1>7, <2>1 DEF AppQuit, UpdateShutdown, Shutdown, Alive, Supervising
    <2> QED
      BY <1>1, <1>7, <2>2, <2>3 DEF AppQuit, UpdateShutdown
  <1>8. CASE UpdateAsk
    <2>1. \A q \in Proc : Alive(q)' => Alive(q) /\ proc'[q].by = proc[q].by
      BY <1>8 DEF UpdateAsk, Answered, Listening, Alive, Daemon
    <2> QED
      BY <1>1, <1>8, <2>1 DEF UpdateAsk
  <1>9. CASE AppExit
    <2>1. /\ sup # NULL /\ sup.down /\ sup.at # "handoff"
          /\ sup' = NULL /\ app' = "down" /\ proc' = proc
          /\ crashes' = crashes
      BY <1>9 DEF AppExit, OrphanInv, vars
    <2>2. \A p \in Proc : Alive(p) => proc[p].by # session
      BY <2>1 DEF OwnInv
    <2> QED
      BY <2>1, <2>2 DEF OrphanInv, Alive
  <1>10. CASE AppKill
    BY <1>10, Bounds DEF AppKill, Upset, OrphanInv
  <1>11. CASE UNCHANGED vars
    BY <1>11 DEF vars, OrphanInv, Alive
  <1> QED
    BY <1>3, <1>4, <1>5, <1>6, <1>7, <1>8, <1>9, <1>10, <1>11 DEF Next

\* Without crashes and kills, an app whose exits find its task past the handoff
\* leaves no daemon behind, through any number of quits and updates: that
\* window is the only way a daemon is orphaned (adopt, shutdown).
THEOREM NeverOrphanedHolds == Spec /\ ExitsSettled => []NeverOrphaned
  <1>1. Init => OwnInv /\ OrphanInv
    BY DEF Init, OwnInv, OrphanInv, Alive
  <1>2. TypeInv /\ OrphanInv => NeverOrphaned
    BY DEF TypeInv, OrphanInv, NeverOrphaned
  <1>3. TypeInv /\ OwnInv /\ OrphanInv /\ [Next]_vars
          /\ [AppExit => sup.at # "handoff"]_vars => OrphanInv'
    BY NextOrphan
  <1> QED
    BY <1>1, <1>2, <1>3, InitType, NextType, NextOwn, PTL DEF Spec, ExitsSettled

=============================================================================
