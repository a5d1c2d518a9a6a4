----------------------------- MODULE Supervisor -----------------------------
(***************************************************************************)
(* Who starts, watches and stops the daemon: the app's supervisor          *)
(* (daemon.rs, lib.rs, restart_for_update), the daemon's single-instance   *)
(* guard (main.rs) and the ownership of the IPC endpoint (ipc.rs), as on   *)
(* unix, where the endpoint is a socket file.  Logins may start a daemon   *)
(* of their own.                                                           *)
(*                                                                         *)
(* `path' is the process whose socket the file names, dead or alive.  What *)
(* a daemon does besides serving its endpoint is left out.  Two app        *)
(* processes never run at once (the single-instance plugin, external).     *)
(***************************************************************************)
EXTENDS Integers, FiniteSets

CONSTANTS
    Proc,           \* process ids
    NULL,
    MaxFastRestarts,\* MAX_FAST_RESTARTS
    MaxSession,     \* bound on runs of the app
    MaxLogin,       \* bound on daemons started by a login
    MaxCrash        \* bound on crashes, interrupts, hard kills, failed spawns
                    \* and failures around the endpoint's file

VARIABLES
    proc,       \* per process: the daemon it runs, or NULL
    path,       \* whose socket the endpoint's file names, or NULL
    app,        \* the app: "down", "up", "updating", "quitting"
    session,    \* the app's current or last run
    sup,        \* the supervisor: its task, and Supervisor::inner
    overlapped, \* a daemon passed its guard beside a silent one (history)
    logins, crashes

vars == <<proc, path, app, session, sup, overlapped, logins, crashes>>

\* `by' is the app's run that spawned it, 0 for a login.
Daemon == [by : 0..MaxSession, main : {"starting", "running"},
           ipc : {"idle", "probed", "cleared", "listening", "none", "failed"},
           stop : BOOLEAN]
Task == {"probe", "top", "spawn", "handoff", "watching", "exited", "sleeping",
         "done"}
Supervising == [at : Task, mine : Proc \cup {NULL}, fast : 0..MaxFastRestarts,
                child : Proc \cup {NULL}, down : BOOLEAN]

ASSUME SupervisorAssumption ==
    /\ NULL \notin Proc \cup Daemon \cup Supervising
    /\ MaxFastRestarts \in Nat \ {0}
    /\ {MaxSession, MaxLogin, MaxCrash} \subseteq Nat

TypeOK ==
    /\ proc \in [Proc -> Daemon \cup {NULL}]
    /\ path \in Proc \cup {NULL}
    /\ app \in {"down", "up", "updating", "quitting"}
    /\ session \in 0..MaxSession
    /\ sup \in Supervising \cup {NULL}
    /\ overlapped \in BOOLEAN
    /\ logins \in 0..MaxLogin
    /\ crashes \in 0..MaxCrash

Init ==
    /\ proc = [p \in Proc |-> NULL]
    /\ path = NULL
    /\ app = "down"
    /\ session = 0
    /\ sup = NULL
    /\ overlapped = FALSE
    /\ logins = 0
    /\ crashes = 0

Upset == crashes < MaxCrash /\ crashes' = crashes + 1

Alive(p) == proc[p] # NULL
Running(p) == proc[p] # NULL /\ proc[p].main = "running"

\* is_listening, is_daemon_running: somebody accepts the connection.
Listening(p) == proc[p] # NULL /\ proc[p].ipc = "listening"
Answered == path # NULL /\ Listening(path)

Started(by) == [by |-> by, main |-> "starting", ipc |-> "idle",
                stop |-> FALSE]

\* An id is not reused while the endpoint's file or the supervisor still
\* stands for the process that had it.
FreshProc == {p \in Proc : /\ proc[p] = NULL /\ path # p
                           /\ sup # NULL => sup.mine # p}

-----------------------------------------------------------------------------
\* The daemon's main.
LoginStart ==
    /\ logins < MaxLogin /\ FreshProc # {}
    /\ proc' = [proc EXCEPT ![CHOOSE p \in FreshProc : TRUE] = Started(0)]
    /\ logins' = logins + 1
    /\ UNCHANGED <<path, app, session, sup, overlapped, crashes>>

\* A daemon runs that does not serve its endpoint: not yet, no longer or,
\* having failed to bind it, never.
Silent == \E q \in Proc : Running(q) /\ ~Listening(q)

\* Faulty variant: no single-instance guard.
GuardNone(p) ==
    /\ proc[p] # NULL /\ proc[p].main = "starting"
    /\ proc' = [proc EXCEPT ![p].main = "running"]
    /\ overlapped' = (overlapped \/ Silent)
    /\ UNCHANGED <<path, app, session, sup, logins, crashes>>

\* The single-instance guard.
Guard(p) ==
    /\ proc[p] # NULL /\ proc[p].main = "starting"
    /\ IF Answered
       THEN proc' = [proc EXCEPT ![p] = NULL] /\ UNCHANGED overlapped
       ELSE /\ proc' = [proc EXCEPT ![p].main = "running"]
            /\ overlapped' = (overlapped \/ Silent)
    /\ UNCHANGED <<path, app, session, sup, logins, crashes>>

\* run_ipc_server: a second probe; a peer that answers ends the IPC task, and
\* only that.
IpcProbe(p) ==
    /\ Running(p) /\ proc[p].ipc = "idle"
    /\ proc' = [proc EXCEPT ![p].ipc = IF Answered THEN "none" ELSE "probed"]
    /\ UNCHANGED <<path, app, session, sup, overlapped, logins, crashes>>

\* Faulty variant: the file of a crashed daemon is left in place.
IpcUnlinkNot(p) ==
    /\ Running(p) /\ proc[p].ipc = "probed"
    /\ proc' = [proc EXCEPT ![p].ipc = "cleared"]
    /\ UNCHANGED <<path, app, session, sup, overlapped, logins, crashes>>

\* The leftover file goes, whoever's it is by now.
IpcUnlink(p) ==
    /\ Running(p) /\ proc[p].ipc = "probed"
    /\ path' = NULL
    /\ proc' = [proc EXCEPT ![p].ipc = "cleared"]
    /\ UNCHANGED <<app, session, sup, overlapped, logins, crashes>>

\* Binding fails if the file is there again.
IpcBind(p) ==
    /\ Running(p) /\ proc[p].ipc = "cleared"
    /\ IF path = NULL
       THEN path' = p /\ proc' = [proc EXCEPT ![p].ipc = "listening"]
       ELSE UNCHANGED path /\ proc' = [proc EXCEPT ![p].ipc = "none"]
    /\ UNCHANGED <<app, session, sup, overlapped, logins, crashes>>

\* The directory cannot be made, the leftover file cannot go or the bind fails:
\* the IPC task ends and the daemon runs on without an endpoint.
IpcFails(p) ==
    /\ Running(p) /\ proc[p].ipc \in {"probed", "cleared"}
    /\ Upset
    /\ proc' = [proc EXCEPT ![p].ipc = "failed"]
    /\ UNCHANGED <<path, app, session, sup, overlapped, logins>>

\* The accept loop ends once the daemon is to stop, and removes the file.
IpcEnd(p) ==
    /\ Running(p) /\ proc[p].ipc = "listening" /\ proc[p].stop
    /\ path' = NULL
    /\ proc' = [proc EXCEPT ![p].ipc = "none"]
    /\ UNCHANGED <<app, session, sup, overlapped, logins, crashes>>

\* The file cannot be removed: the error is ignored.
IpcEndLeaves(p) ==
    /\ Running(p) /\ proc[p].ipc = "listening" /\ proc[p].stop
    /\ Upset
    /\ proc' = [proc EXCEPT ![p].ipc = "none"]
    /\ UNCHANGED <<path, app, session, sup, overlapped, logins>>

\* main returns when every task has.
Stop(p) ==
    /\ Running(p) /\ proc[p].stop /\ proc[p].ipc \in {"none", "failed"}
    /\ proc' = [proc EXCEPT ![p] = NULL]
    /\ UNCHANGED <<path, app, session, sup, overlapped, logins, crashes>>

Interrupt(p) ==
    /\ Running(p) /\ ~proc[p].stop
    /\ Upset
    /\ proc' = [proc EXCEPT ![p].stop = TRUE]
    /\ UNCHANGED <<path, app, session, sup, overlapped, logins>>

Crash(p) ==
    /\ Alive(p)
    /\ Upset
    /\ proc' = [proc EXCEPT ![p] = NULL]
    /\ UNCHANGED <<path, app, session, sup, overlapped, logins>>

-----------------------------------------------------------------------------
\* The app starts: setup starts the supervisor's task.
AppStart ==
    /\ app = "down" /\ session < MaxSession
    /\ app' = "up"
    /\ session' = session + 1
    /\ sup' = [at |-> "probe", mine |-> NULL, fast |-> 0, child |-> NULL,
               down |-> FALSE]
    /\ UNCHANGED <<proc, path, overlapped, logins, crashes>>

\* supervise: defer to a daemon that answers.
SupProbe ==
    /\ sup # NULL /\ sup.at = "probe"
    /\ sup' = [sup EXCEPT !.at = IF Answered THEN "done" ELSE "top"]
    /\ UNCHANGED <<proc, path, app, session, overlapped, logins, crashes>>

SupTop ==
    /\ sup # NULL /\ sup.at = "top"
    /\ sup' = [sup EXCEPT !.at = IF sup.down THEN "done" ELSE "spawn"]
    /\ UNCHANGED <<proc, path, app, session, overlapped, logins, crashes>>

SupSpawn ==
    /\ sup # NULL /\ sup.at = "spawn" /\ FreshProc # {}
    /\ LET p == CHOOSE p \in FreshProc : TRUE IN
         /\ proc' = [proc EXCEPT ![p] = Started(session)]
         /\ sup' = [sup EXCEPT !.at = "handoff", !.mine = p]
    /\ UNCHANGED <<path, app, session, overlapped, logins, crashes>>

\* Faulty variant: gives up one restart too late.
CountLate(s) == [s EXCEPT !.fast = @ + 1,
                          !.at = IF s.fast + 1 > MaxFastRestarts THEN "done"
                                 ELSE "sleeping"]

\* One more attempt that came to nothing: sleep, or give up.
Count(s) == [s EXCEPT !.fast = @ + 1,
                      !.at = IF s.fast + 1 >= MaxFastRestarts THEN "done"
                             ELSE "sleeping"]

\* The binary is missing, or the spawn fails for now.
SupSpawnFail ==
    /\ sup # NULL /\ sup.at = "spawn"
    /\ Upset
    /\ \/ sup' = [sup EXCEPT !.at = "done"]
       \/ sup' = Count(sup)
    /\ UNCHANGED <<proc, path, app, session, overlapped, logins>>

\* Faulty variant: the flag is not looked at under the lock.
SupAdoptBlind ==
    /\ sup # NULL /\ sup.at = "handoff"
    /\ sup' = [sup EXCEPT !.at = "watching", !.child = sup.mine]
    /\ UNCHANGED <<proc, path, app, session, overlapped, logins, crashes>>

SupAdopt ==
    /\ sup # NULL /\ sup.at = "handoff"
    /\ IF sup.down
       THEN /\ proc' = [proc EXCEPT ![sup.mine] = NULL]
            /\ sup' = [sup EXCEPT !.at = "done", !.mine = NULL]
       ELSE /\ sup' = [sup EXCEPT !.at = "watching", !.child = sup.mine]
            /\ UNCHANGED proc
    /\ UNCHANGED <<path, app, session, overlapped, logins, crashes>>

\* Terminated, then clear_child.
SupExited ==
    /\ sup # NULL /\ sup.at = "watching" /\ ~Alive(sup.mine)
    /\ sup' = [sup EXCEPT !.at = "exited", !.mine = NULL, !.child = NULL]
    /\ UNCHANGED <<proc, path, app, session, overlapped, logins, crashes>>

\* Whether it lived for FAST_RESTART is left open.
SupDecide ==
    /\ sup # NULL /\ sup.at = "exited"
    /\ IF sup.down THEN sup' = [sup EXCEPT !.at = "done"]
       ELSE \/ sup' = Count(sup)
            \/ sup' = [sup EXCEPT !.fast = 0, !.at = "sleeping"]
    /\ UNCHANGED <<proc, path, app, session, overlapped, logins, crashes>>

SupWake ==
    /\ sup # NULL /\ sup.at = "sleeping"
    /\ sup' = [sup EXCEPT !.at = "top"]
    /\ UNCHANGED <<proc, path, app, session, overlapped, logins, crashes>>

\* Supervisor::shutdown, under the lock.
Shutdown ==
    /\ sup' = [sup EXCEPT !.down = TRUE, !.child = NULL]
    /\ proc' = IF sup.child = NULL THEN proc
               ELSE [proc EXCEPT ![sup.child] = NULL]

-----------------------------------------------------------------------------
\* "Quit Savr".
AppQuit ==
    /\ app = "up"
    /\ Shutdown
    /\ app' = "quitting"
    /\ UNCHANGED <<path, session, overlapped, logins, crashes>>

\* restart_for_update: whoever answers is asked to stop, then shutdown and
\* restart, which is an exit and a start.
UpdateAsk ==
    /\ app = "up"
    /\ proc' = IF Answered THEN [proc EXCEPT ![path].stop = TRUE] ELSE proc
    /\ app' = "updating"
    /\ UNCHANGED <<path, session, sup, overlapped, logins, crashes>>

UpdateShutdown ==
    /\ app = "updating"
    /\ Shutdown
    /\ app' = "quitting"
    /\ UNCHANGED <<path, session, overlapped, logins, crashes>>

\* RunEvent::Exit calls shutdown again; the process ends with its tasks.
AppExit ==
    /\ app = "quitting"
    /\ app' = "down"
    /\ sup' = NULL
    /\ UNCHANGED <<proc, path, session, overlapped, logins, crashes>>

\* The app is killed: its daemon lives on.
AppKill ==
    /\ app # "down"
    /\ Upset
    /\ app' = "down"
    /\ sup' = NULL
    /\ UNCHANGED <<proc, path, session, overlapped, logins>>

-----------------------------------------------------------------------------
DaemonStep(p) ==
    \/ Guard(p) \/ IpcProbe(p) \/ IpcUnlink(p) \/ IpcBind(p) \/ IpcEnd(p)
    \/ Stop(p)

DaemonUpset(p) == IpcFails(p) \/ IpcEndLeaves(p) \/ Interrupt(p) \/ Crash(p)

SupStep ==
    \/ SupProbe \/ SupTop \/ SupSpawn \/ SupAdopt \/ SupExited \/ SupDecide
    \/ SupWake

Next ==
    \/ LoginStart
    \/ \E p \in Proc : DaemonStep(p) \/ DaemonUpset(p)
    \/ SupStep \/ SupSpawnFail
    \/ AppStart \/ AppQuit \/ UpdateAsk \/ UpdateShutdown \/ AppExit \/ AppKill

Spec == Init /\ [][Next]_vars

\* Processes that run go on running; nobody has to start or quit the app.
FairSpec == /\ Spec
            /\ \A p \in Proc : WF_vars(DaemonStep(p))
            /\ WF_vars(SupStep)

-----------------------------------------------------------------------------
\* A shutdown that races a spawn misses nothing: while the app lives, once it
\* has shut its daemon down no daemon it spawned is left, except one that the
\* supervisor's task has yet to hand over, and will kill (adopt, shutdown).
ShutdownReaps ==
    sup # NULL /\ sup.down =>
        \A p \in Proc : Alive(p) /\ proc[p].by = session
                        => sup.at = "handoff" /\ sup.mine = p

\* Unless a daemon starts while another one is still starting, drains or could
\* not bind its endpoint, a single daemon runs: one that serves its endpoint stays reachable through
\* the file, so that every later start meets it (main's guard, run_ipc_server).
SingleInstance ==
    ~overlapped => \A p, q \in Proc : Running(p) /\ Running(q) => p = q

\* run_ipc_server: "Never unlink and steal a socket a live daemon still
\* owns."  Does not hold: README, "Disagreements without a run".
EndpointKept ==
    [][\A p \in Proc : (path = p /\ Listening(p) /\ path' # p)
                       => proc[p].stop]_vars

\* adopt: "the daemon is never orphaned".  Does not hold: README,
\* "Disagreements without a run".
NeverOrphaned ==
    (app = "down" /\ crashes = 0) => \A p \in Proc : Alive(p) => proc[p].by = 0

\* GuiRequest::Shutdown: the daemon "exits and frees the socket for the fresh
\* instance".  Does not hold: README, "Disagreements without a run".
UpdateServed ==
    [](crashes = 0 /\ ~overlapped) => (<>[](app = "up") => []<>Answered)

\* Only this run of the app has daemons.
OnlyOwn == \A p \in Proc : Alive(p) => proc[p].by = session /\ session # 0

\* A daemon runs on that failed to bind its endpoint.
Deaf == \E p \in Proc : Alive(p) /\ proc[p].ipc = "failed"

\* As long as nobody else starts daemons, an app that goes on supervising
\* always comes back to a daemon that answers, whatever the last one left
\* behind, unless it is left with one that failed to bind and that nobody stops
\* (supervise, run_ipc_server).
KeptAlive ==
    []OnlyOwn =>
      (<>[](app = "up" /\ sup.at # "done" /\ ~Deaf) => []<>Answered)

=============================================================================
