------------------------------- MODULE Watcher -------------------------------
(***************************************************************************)
(* Game detection: the poll loop (detection/mod.rs run_watcher), the       *)
(* broadcast channel it feeds, the engine's event loop (engine.rs) and the *)
(* play statistics it keeps (state.rs), across restarts of the daemon.     *)
(*                                                                         *)
(* `alive' is the set of games scan_running_games would find: a process of *)
(* the game runs and the exe index knows it.  The settle timer is          *)
(* abstracted to "fires at some later poll".  The channel never lags: the  *)
(* poll loop stands still at MaxChan pending events, where the real        *)
(* channel, of 256, would drop the oldest.                                 *)
(***************************************************************************)
EXTENDS Integers, Sequences, FiniteSets, SequencesExt

CONSTANTS
    Game,
    NULL,
    MaxTime,    \* bound on the clock
    MaxBack,    \* bound on backward clock adjustments
    MaxChan,    \* bound on the events in the channel
    MaxUpset    \* bound on daemon restarts and failed writes

VARIABLES
    alive,      \* games with a matching process
    up,         \* the daemon runs
    subscribed, \* run_event_loop has subscribed to the channel
    running,    \* run_watcher: games seen by the last poll
    pending,    \* run_watcher: games whose settle timer is armed
    chan,       \* detection events not yet received by the event loop
    handling,   \* event whose database half is done, or NULL
    playing,    \* engine.running
    stats,      \* play_stats row per game, or NULL
    now,        \* Utc::now()
    backs,
    uptime,     \* ticks spent with the daemon up (ghost)
    lost,       \* games whose last event could not be written (history)
    unclosed,   \* games whose orphaned session was left open (history)
    upsets

watchVars == <<running, pending>>
engineVars == <<handling, playing>>
clockVars == <<now, backs, uptime>>
faultVars == <<lost, unclosed, upsets>>
vars == <<alive, up, subscribed, running, pending, chan, handling, playing,
          stats, now, backs, uptime, lost, unclosed, upsets>>

Event == [kind : {"started", "stopped"}, game : Game, at : 0..MaxTime]
PlayStats == [session : 0..MaxTime \cup {NULL}, total : Int]

ASSUME WatcherAssumption ==
    /\ IsFiniteSet(Game)
    /\ NULL \notin 0..MaxTime /\ NULL \notin Event /\ NULL \notin PlayStats
    /\ MaxTime \in Nat /\ MaxBack \in Nat
    /\ MaxChan \in Nat \ {0} /\ MaxUpset \in Nat

TypeOK ==
    /\ alive \subseteq Game
    /\ up \in BOOLEAN /\ subscribed \in BOOLEAN
    /\ running \subseteq Game /\ pending \subseteq Game
    /\ chan \in Seq(Event) /\ Len(chan) <= MaxChan
    /\ handling \in Event \cup {NULL}
    /\ playing \subseteq Game
    /\ stats \in [Game -> PlayStats \cup {NULL}]
    /\ now \in 0..MaxTime /\ backs \in 0..MaxBack
    /\ uptime \in 0..(MaxTime + MaxBack)
    /\ lost \subseteq Game /\ unclosed \subseteq Game
    /\ upsets \in 0..MaxUpset

Init ==
    /\ alive = {}
    /\ up = FALSE /\ subscribed = FALSE
    /\ running = {} /\ pending = {}
    /\ chan = <<>>
    /\ handling = NULL
    /\ playing = {}
    /\ stats = [g \in Game |-> NULL]
    /\ now = 0 /\ backs = 0 /\ uptime = 0
    /\ lost = {} /\ unclosed = {}
    /\ upsets = 0

Upset == upsets < MaxUpset /\ upsets' = upsets + 1

-----------------------------------------------------------------------------
\* The machine: a process appears or goes (or a rebuilt index gains or loses
\* the game), and time passes.
Launch(g) ==
    /\ g \notin alive
    /\ alive' = alive \cup {g}
    /\ UNCHANGED <<up, subscribed, watchVars, chan, engineVars, stats,
                   clockVars, faultVars>>

Exit(g) ==
    /\ g \in alive
    /\ alive' = alive \ {g}
    /\ UNCHANGED <<up, subscribed, watchVars, chan, engineVars, stats,
                   clockVars, faultVars>>

Tick ==
    /\ now < MaxTime
    /\ now' = now + 1
    /\ uptime' = IF up THEN uptime + 1 ELSE uptime
    /\ UNCHANGED <<alive, up, subscribed, watchVars, chan, engineVars, stats,
                   backs, faultVars>>

ClockBack ==
    /\ backs < MaxBack
    /\ now > 0
    /\ now' = now - 1
    /\ backs' = backs + 1
    /\ UNCHANGED <<alive, up, subscribed, watchVars, chan, engineVars, stats,
                   uptime, faultVars>>

-----------------------------------------------------------------------------
Sessions == {g \in Game : stats[g] # NULL /\ stats[g].session # NULL}

\* Faulty variant: open sessions stay open.
CloseOrphanedSessionsNot == UNCHANGED stats

CloseOrphanedSessions ==
    stats' = [g \in Game |-> IF g \in Sessions
                             THEN [stats[g] EXCEPT !.session = NULL]
                             ELSE stats[g]]

\* main: orphaned sessions are closed, then the tasks are spawned.
Start ==
    /\ ~up
    /\ up' = TRUE
    /\ CloseOrphanedSessions
    /\ UNCHANGED <<alive, subscribed, watchVars, chan, engineVars, clockVars,
                   faultVars>>

\* The update fails: main ignores the error and goes on.
StartUnclosed ==
    /\ ~up
    /\ up' = TRUE
    /\ Upset
    /\ unclosed' = unclosed \cup Sessions
    /\ UNCHANGED <<alive, subscribed, watchVars, chan, engineVars, stats,
                   clockVars, lost>>

\* A second daemon is launched: it closes "orphaned" sessions of the shared
\* database (or fails to, which changes nothing), then finds the endpoint taken
\* and exits.
SecondLaunch ==
    /\ up
    /\ CloseOrphanedSessions
    /\ UNCHANGED <<alive, up, subscribed, watchVars, chan, engineVars,
                   clockVars, faultVars>>

\* The daemon crashes or is shut down: only the database survives.
Crash ==
    /\ up
    /\ Upset
    /\ up' = FALSE /\ subscribed' = FALSE
    /\ running' = {} /\ pending' = {}
    /\ chan' = <<>>
    /\ handling' = NULL
    /\ playing' = {}
    /\ UNCHANGED <<alive, stats, clockVars, lost, unclosed>>

\* A receiver sees only what is sent after it subscribed.
Subscribe ==
    /\ up /\ ~subscribed
    /\ subscribed' = TRUE
    /\ UNCHANGED <<alive, up, watchVars, chan, engineVars, stats, clockVars,
                   faultVars>>

-----------------------------------------------------------------------------
Events(kind, games) ==
    SetToSeq({[kind |-> kind, game |-> g, at |-> now] : g \in games})

\* events.send: without a subscribed loop the event is lost.
SendEvents(starts, stops) ==
    chan' = IF subscribed
            THEN chan \o Events("started", starts) \o Events("stopped", stops)
            ELSE chan

\* Faulty variant: only games of the last poll can settle.
ArmedLastPoll == running \ alive

\* Games absent from this scan whose timer is, or is now, armed.
Armed == (pending \cup running) \ alive

\* One turn of the poll loop; `due' are the armed timers that have expired.
Poll(due) ==
    /\ up
    /\ due \subseteq pending \cap Armed
    /\ SendEvents(alive \ running, due)
    /\ Len(chan') <= MaxChan
    /\ pending' = Armed \ due
    /\ running' = alive
    /\ UNCHANGED <<alive, up, subscribed, engineVars, stats, clockVars,
                   faultVars>>

-----------------------------------------------------------------------------
\* Faulty variant: the inserted row lacks total_secs.
PlayStartNoTotal(g, at) ==
    stats' = [stats EXCEPT ![g] =
                 [session |-> at, total |-> IF @ = NULL THEN NULL ELSE @.total]]

\* play_start: upsert with a new session_start.
PlayStart(g, at) ==
    stats' = [stats EXCEPT ![g] =
                 [session |-> at, total |-> IF @ = NULL THEN 0 ELSE @.total]]

\* Faulty variant: the duration is not clamped.
CreditedUnclamped(from, to) == to - from

\* The duration of a session, at least 0.
Credited(from, to) == IF to < from THEN 0 ELSE to - from

\* play_stop: credit the session if one is open.
PlayStop(g, at) ==
    stats' = [stats EXCEPT ![g] =
                 IF @ = NULL THEN [session |-> NULL, total |-> 0]
                 ELSE IF @.session = NULL THEN @
                 ELSE [session |-> NULL,
                       total |-> @.total + Credited(@.session, at)]]

\* The event loop takes the next event.
TakeEvent ==
    /\ up /\ handling = NULL /\ chan # <<>>
    /\ handling' = Head(chan)
    /\ chan' = Tail(chan)
    /\ UNCHANGED <<alive, up, subscribed, watchVars, clockVars, unclosed>>

\* Faulty variant: the running flag is set before the row is written.
OnEventFlagFirst ==
    /\ TakeEvent
    /\ LET e == Head(chan)
       IN  /\ IF e.kind = "started" THEN UNCHANGED stats
                                    ELSE PlayStop(e.game, e.at)
           /\ playing' = IF e.kind = "started" THEN playing \cup {e.game}
                                               ELSE playing
           /\ lost' = lost \ {e.game}
    /\ UNCHANGED upsets

\* on_event, database half.
OnEvent ==
    /\ TakeEvent
    /\ LET e == Head(chan)
       IN  /\ IF e.kind = "started" THEN PlayStart(e.game, e.at)
                                    ELSE PlayStop(e.game, e.at)
           /\ lost' = lost \ {e.game}
    /\ UNCHANGED <<playing, upsets>>

\* play_start or play_stop fails: on_event ignores the error and goes on.
OnEventUnsaved ==
    /\ TakeEvent
    /\ Upset
    /\ lost' = lost \cup {Head(chan).game}
    /\ UNCHANGED <<playing, stats>>

\* on_event, in-memory half.
SetRunning ==
    /\ up /\ handling # NULL
    /\ playing' = IF handling.kind = "started"
                  THEN playing \cup {handling.game}
                  ELSE playing \ {handling.game}
    /\ handling' = NULL
    /\ UNCHANGED <<alive, up, subscribed, watchVars, chan, stats, clockVars,
                   faultVars>>

-----------------------------------------------------------------------------
Next ==
    \/ \E g \in Game : Launch(g) \/ Exit(g)
    \/ Tick \/ ClockBack
    \/ Start \/ StartUnclosed \/ SecondLaunch \/ Crash \/ Subscribe
    \/ \E due \in SUBSET Game : Poll(due)
    \/ OnEvent \/ OnEventUnsaved \/ SetRunning

Spec == Init /\ [][Next]_vars

\* The tasks of a running daemon are scheduled and every settle timer expires.
FairSpec ==
    /\ Spec
    /\ WF_vars(Subscribe)
    /\ WF_vars(Poll(pending \ alive))
    /\ WF_vars(OnEvent) /\ WF_vars(SetRunning)

-----------------------------------------------------------------------------
\* A game shown as running has a play_stats row unless the write of its last
\* event failed, so that ListGames, which reads the running set first, shows
\* "Playing" next to "Last played: never" for no other reason, whatever restarts
\* and second launches interleave (engine.rs on_event and ListGames).
PlayingRecorded == \A g \in playing : stats[g] # NULL \/ g \in lost

\* on_event: "any ListGames that observes running=true also sees the row".
\* Does not hold: README, "Disagreements without a run".
PlayingHasRow == \A g \in playing : stats[g] # NULL

\* Time during which the daemon was down is never credited as play time,
\* although a crash leaves the session open, the next stop may arrive without
\* its start and starts and stops may go unrecorded; only a session that main
\* failed to close is excepted (state.rs close_orphaned_sessions).
DowntimeNeverCredited ==
    \A g \in Game \ unclosed : stats[g] # NULL => stats[g].total <= uptime

\* No step lowers a game's total, whatever the clock does (state.rs play_stop).
TotalNeverShrinks ==
    [][\A g \in Game : stats[g] # NULL =>
          stats'[g] # NULL /\ stats[g].total <= stats'[g].total]_vars

\* A game that stays closed is eventually no longer shown as running, through
\* any flapping before, and its session is closed unless the write that was to
\* close it failed (detection/mod.rs run_watcher, engine.rs on_event).
StopSeen ==
    \A g \in Game :
        <>[](up /\ g \notin alive)
            => <>[](/\ g \notin playing
                    /\ g \in Sessions => g \in lost \cup unclosed)

\* A game that keeps running is eventually shown as running (types.rs:99).
\* Does not hold: README, "Disagreements without a run".
LaunchSeen ==
    \A g \in Game : <>[](up /\ g \in alive) => <>[](g \in playing)

\* A reappearance within the settle time continues the session: its start is
\* not replaced (PRD-02:110, detection/mod.rs:69).
\* Does not hold: README, "Disagreements without a run".
SessionContinues ==
    [][\A g \in Sessions :
          stats'[g].session \in {stats[g].session, NULL}]_vars

\* While the daemon runs, a session is closed by its GameStopped only: what
\* close_orphaned_sessions drops was left by a previous run (main.rs:58-60).
\* Does not hold: README, "Disagreements without a run".
LiveSessionKept ==
    [][\A g \in Sessions :
          up /\ up' /\ stats'[g].session = NULL
              => handling' # NULL /\ handling'.game = g]_vars
=============================================================================
