---------------------------- MODULE WatcherProofs ----------------------------
(***************************************************************************)
(* Theorems about Watcher for any number of games, restarts, pending       *)
(* events and clock adjustments.                                           *)
(***************************************************************************)
EXTENDS Watcher, FiniteSetTheorems, SequenceTheorems, TLAPS

USE WatcherAssumption

\* Time spent up is time that passed, and the event in hand and the games
\* shown as running have their rows or are known to lack them.
Inv ==
    /\ TypeOK
    /\ uptime <= now + backs
    /\ handling # NULL =>
          stats[handling.game] # NULL \/ handling.game \in lost
    /\ PlayingRecorded

LEMMA Bounds == /\ MaxTime \in Nat /\ MaxBack \in Nat /\ MaxUpset \in Nat
                /\ MaxChan \in Nat
  BY SMT

\* SetToSeq turns a finite set into a sequence over it.
LEMMA SetToSeqType ==
  ASSUME NEW S, IsFiniteSet(S)
  PROVE  SetToSeq(S) \in Seq(S)
  <1> DEFINE n == Cardinality(S)
  <1>1. n \in Nat /\ ExistsBijection(1..n, S)
    BY FS_CardinalityType
  <1>2. \E f \in [1..n -> S] : IsInjective(f)
    BY <1>1 DEF ExistsBijection, Bijection, Injection
  <1>3. SetToSeq(S) \in [1..n -> S]
    BY <1>2 DEF SetToSeq
  <1> HIDE DEF n
  <1> QED
    BY <1>1, <1>3, IsASeq

LEMMA EventsSent ==
  ASSUME NEW kind, NEW G \in SUBSET Game
  PROVE  Events(kind, G) \in
             Seq({[kind |-> kind, game |-> g, at |-> now] : g \in G})
  <1> DEFINE T == {[kind |-> kind, game |-> g, at |-> now] : g \in G}
             f == [g \in G |-> [kind |-> kind, game |-> g, at |-> now]]
  <1>1. f \in Surjection(G, T)
    BY DEF Surjection
  <1>2. IsFiniteSet(G)
    BY FS_Subset
  <1>3. IsFiniteSet(T)
    BY <1>1, <1>2, FS_Surjection
  <1>4. Events(kind, G) = SetToSeq(T)
    BY DEF Events
  <1>5. SetToSeq(T) \in Seq(T)
    <2> HIDE DEF T
    <2> QED
      BY <1>3, SetToSeqType
  <1> QED
    BY <1>4, <1>5

LEMMA EventsType ==
  ASSUME TypeOK, NEW kind \in {"started", "stopped"}, NEW G \in SUBSET Game
  PROVE  Events(kind, G) \in Seq(Event)
  <1> DEFINE T == {[kind |-> kind, game |-> g, at |-> now] : g \in G}
  <1>1. T \subseteq Event
    BY DEF Event, TypeOK
  <1>2. Events(kind, G) \in Seq(T)
    BY EventsSent
  <1> HIDE DEF T
  <1> QED
    BY <1>1, <1>2, SeqMonotonic

LEMMA InitInv == Init => Inv
  <1> SUFFICES ASSUME Init PROVE Inv
    OBVIOUS
  <1>1. /\ now \in 0..MaxTime /\ backs \in 0..MaxBack
        /\ uptime \in 0..(MaxTime + MaxBack) /\ upsets \in 0..MaxUpset
        /\ uptime <= now + backs
    BY Bounds DEF Init
  <1>2. chan \in Seq(Event) /\ Len(chan) <= MaxChan
    BY EmptySeq, Bounds DEF Init
  <1>3. stats \in [Game -> PlayStats \cup {NULL}]
    BY DEF Init
  <1>4. up \in BOOLEAN /\ subscribed \in BOOLEAN
    BY Zenon DEF Init
  <1>5. /\ alive \subseteq Game /\ running \subseteq Game
        /\ pending \subseteq Game /\ playing = {} /\ handling = NULL
        /\ lost = {} /\ unclosed = {}
    BY DEF Init
  <1> QED
    BY <1>1, <1>2, <1>3, <1>4, <1>5 DEF Inv, TypeOK, PlayingRecorded

\* Closing the orphaned sessions keeps every row and its total.
LEMMA CloseType ==
  ASSUME TypeOK, CloseOrphanedSessions
  PROVE  /\ stats' \in [Game -> PlayStats \cup {NULL}]
         /\ \A g \in Game : stats[g] # NULL =>
              stats'[g] # NULL /\ stats'[g].total = stats[g].total
  <1> DEFINE closed(g) == [stats[g] EXCEPT !.session = NULL]
  <1>1. ASSUME NEW s \in PlayStats
        PROVE  /\ [s EXCEPT !.session = NULL] \in PlayStats
               /\ [s EXCEPT !.session = NULL].total = s.total
    BY DEF PlayStats
  <1>2. \A g \in Game : stats[g] # NULL => stats[g] \in PlayStats
    BY DEF TypeOK
  <1>3. \A g \in Sessions : /\ stats[g] # NULL /\ closed(g) \in PlayStats
                            /\ closed(g).total = stats[g].total
    BY <1>1, <1>2 DEF Sessions
  <1>4. stats' = [g \in Game |-> IF g \in Sessions THEN closed(g)
                                 ELSE stats[g]]
    BY DEF CloseOrphanedSessions
  <1> HIDE DEF closed
  <1> QED
    BY <1>2, <1>3, <1>4

\* An event's database half makes a row if there is none and lowers no total.
LEMMA EventType ==
  ASSUME TypeOK, NEW g \in Game, NEW at \in 0..MaxTime,
         PlayStart(g, at) \/ PlayStop(g, at)
  PROVE  /\ stats' \in [Game -> PlayStats \cup {NULL}] /\ stats'[g] # NULL
         /\ \A h \in Game : stats[h] # NULL =>
              stats'[h] # NULL /\ stats[h].total <= stats'[h].total
  <1>1. \A h \in Game : stats[h] # NULL =>
          /\ stats[h] \in PlayStats /\ stats[h].total \in Int
          /\ stats[h].total <= stats[h].total
    BY DEF TypeOK, PlayStats
  <1>2. PICK s \in PlayStats :
          /\ stats' = [stats EXCEPT ![g] = s]
          /\ stats[g] # NULL => stats[g].total <= s.total
    <2>1. CASE PlayStart(g, at)
      <3> DEFINE t == IF stats[g] = NULL THEN 0 ELSE stats[g].total
                 s == [session |-> at, total |-> t]
      <3>1. t \in Int /\ (stats[g] # NULL => stats[g].total <= t)
        BY <1>1
      <3>2. stats' = [stats EXCEPT ![g] = s]
        BY <2>1 DEF PlayStart, TypeOK
      <3> HIDE DEF t
      <3>3. s \in PlayStats /\ s.total = t
        BY <3>1 DEF PlayStats
      <3> QED
        BY <3>1, <3>2, <3>3
    <2>2. CASE PlayStop(g, at)
      <3>1. CASE stats[g] = NULL
        <4> DEFINE s == [session |-> NULL, total |-> 0]
        <4>1. s \in PlayStats
          BY DEF PlayStats
        <4>2. stats' = [stats EXCEPT ![g] = s]
          BY <2>2, <3>1 DEF PlayStop, TypeOK
        <4> QED
          BY <3>1, <4>1, <4>2
      <3>2. CASE stats[g] # NULL /\ stats[g].session = NULL
        <4>1. stats' = [stats EXCEPT ![g] = stats[g]]
          BY <2>2, <3>2 DEF PlayStop, TypeOK
        <4> QED
          BY <1>1, <3>2, <4>1
      <3>3. CASE stats[g] # NULL /\ stats[g].session # NULL
        <4> DEFINE c == Credited(stats[g].session, at)
                   s == [session |-> NULL, total |-> stats[g].total + c]
        <4>1. stats[g].session \in 0..MaxTime /\ stats[g].total \in Int
          BY <1>1, <3>3 DEF PlayStats
        <4>2. c \in Nat
          BY <4>1, Bounds DEF Credited
        <4>3. stats' = [stats EXCEPT ![g] = s]
          BY <2>2, <3>3 DEF PlayStop, TypeOK
        <4> HIDE DEF c
        <4>4. s \in PlayStats /\ stats[g].total <= s.total
          BY <4>1, <4>2 DEF PlayStats
        <4> QED
          BY <4>3, <4>4
      <3> QED
        BY <3>1, <3>2, <3>3
    <2> QED
      BY <2>1, <2>2
  <1> QED
    BY <1>1, <1>2 DEF TypeOK

\* What every step does to the rows: none is lost, no total is lowered.
RowsGrow ==
    \A g \in Game : stats[g] # NULL =>
        stats'[g] # NULL /\ stats[g].total <= stats'[g].total

LEMMA NextInv == Inv /\ [Next]_vars => Inv' /\ RowsGrow
  <1> SUFFICES ASSUME Inv, [Next]_vars PROVE Inv' /\ RowsGrow
    OBVIOUS
  <1> USE DEF Inv, TypeOK
  <1>0. \A g \in Game : stats[g] # NULL =>
          stats[g].total \in Int /\ stats[g].total <= stats[g].total
    BY DEF PlayStats
  <1>1. ASSUME stats' = stats PROVE RowsGrow
    BY <1>0, <1>1 DEF RowsGrow
  <1>2. ASSUME NEW g \in Game, Launch(g) \/ Exit(g) PROVE Inv' /\ RowsGrow
    <2>1. alive' \subseteq Game
      BY <1>2 DEF Launch, Exit
    <2> QED
      BY <1>1, <1>2, <2>1
         DEF Launch, Exit, watchVars, engineVars, clockVars, faultVars,
             PlayingRecorded
  <1>3. CASE Tick
    <2>1. /\ now' \in 0..MaxTime /\ uptime' \in 0..(MaxTime + MaxBack)
          /\ uptime' <= now' + backs'
      BY <1>3, Bounds DEF Tick
    <2> QED
      BY <1>1, <1>3, <2>1 
         DEF Tick, watchVars, engineVars, faultVars, PlayingRecorded
  <1>4. CASE ClockBack
    <2>1. /\ now' \in 0..MaxTime /\ backs' \in 0..MaxBack
          /\ uptime' <= now' + backs'
      BY <1>4, Bounds DEF ClockBack
    <2> QED
      BY <1>1, <1>4, <2>1 
         DEF ClockBack, watchVars, engineVars, faultVars, PlayingRecorded
  <1>5. ASSUME CloseOrphanedSessions, handling' = handling, playing' = playing
        PROVE  /\ stats' \in [Game -> PlayStats \cup {NULL}] /\ RowsGrow
               /\ handling' # NULL =>
                    stats'[handling'.game] # NULL \/ handling'.game \in lost
               /\ \A g \in playing' : stats'[g] # NULL \/ g \in lost
    <2>1. /\ stats' \in [Game -> PlayStats \cup {NULL}]
          /\ \A g \in Game : stats[g] # NULL =>
               stats'[g] # NULL /\ stats'[g].total = stats[g].total
      BY <1>5, CloseType
    <2>2. handling # NULL => handling.game \in Game
      BY DEF Event
    <2> QED
      BY <1>0, <1>5, <2>1, <2>2 DEF RowsGrow, PlayingRecorded
  <1>6. CASE Start
    <2>1. up' \in BOOLEAN
      BY <1>6, Zenon DEF Start
    <2> QED
      BY <1>5, <1>6, <2>1
         DEF Start, watchVars, engineVars, clockVars, faultVars, PlayingRecorded
  <1>7. CASE SecondLaunch
    BY <1>5, <1>7
       DEF SecondLaunch, watchVars, engineVars, clockVars, faultVars, PlayingRecorded
  <1>8. CASE Crash
    <2>1. up' \in BOOLEAN /\ subscribed' \in BOOLEAN
      BY <1>8, Zenon DEF Crash
    <2>2. /\ upsets' \in 0..MaxUpset /\ chan' \in Seq(Event)
          /\ Len(chan') <= MaxChan
      BY <1>8, EmptySeq, Bounds DEF Crash, Upset
    <2> QED
      BY <1>1, <1>8, <2>1, <2>2 DEF Crash, clockVars, PlayingRecorded
  <1>9. CASE Subscribe
    <2>1. subscribed' \in BOOLEAN
      BY <1>9, Zenon DEF Subscribe
    <2> QED
      BY <1>1, <1>9, <2>1
         DEF Subscribe, watchVars, engineVars, clockVars, faultVars,
             PlayingRecorded
  <1>10. ASSUME NEW due \in SUBSET Game, Poll(due) PROVE Inv' /\ RowsGrow
    <2>1. /\ Events("started", alive \ running) \in Seq(Event)
          /\ Events("stopped", due) \in Seq(Event)
      BY EventsType
    <2>2. chan' \in Seq(Event) /\ Len(chan') <= MaxChan
      BY <1>10, <2>1, ConcatProperties DEF Poll, SendEvents
    <2>3. pending' \subseteq Game /\ running' \subseteq Game
      BY <1>10 DEF Poll, Armed
    <2> QED
      BY <1>1, <1>10, <2>2, <2>3 DEF Poll, engineVars, clockVars, faultVars,
             PlayingRecorded
  <1>11. CASE OnEvent \/ OnEventUnsaved
    <2>0. PICK e : e = Head(chan)
      OBVIOUS
    <2>1. /\ e \in Event /\ Tail(chan) \in Seq(Event)
          /\ Len(Tail(chan)) <= MaxChan
      BY <1>11, <2>0, HeadTailProperties, LenProperties, Bounds
         DEF OnEvent, OnEventUnsaved, TakeEvent
    <2>2. e.game \in Game /\ e.at \in 0..MaxTime /\ e # NULL
      BY <2>1 DEF Event
    <2>3. handling' = e /\ chan' = Tail(chan) /\ playing' = playing
      BY <1>11, <2>0 DEF OnEvent, OnEventUnsaved, TakeEvent
    <2>4. CASE OnEvent
      <3>1. /\ PlayStart(e.game, e.at) \/ PlayStop(e.game, e.at)
            /\ lost' = lost \ {e.game}
        BY <2>0, <2>4 DEF OnEvent
      <3>2. /\ stats' \in [Game -> PlayStats \cup {NULL}]
            /\ stats'[e.game] # NULL /\ RowsGrow
        BY <2>2, <3>1, EventType DEF RowsGrow
      <3>3. PlayingRecorded'
        BY <2>3, <3>1, <3>2 DEF PlayingRecorded, RowsGrow
      <3> QED
        BY <2>1, <2>3, <2>4, <3>1, <3>2, <3>3
           DEF OnEvent, TakeEvent, watchVars, clockVars
    <2>5. CASE OnEventUnsaved
      <3>1. stats' = stats /\ lost' = lost \cup {e.game}
        BY <2>0, <2>5 DEF OnEventUnsaved
      <3>2. upsets' \in 0..MaxUpset
        BY <2>5, Bounds DEF OnEventUnsaved, Upset
      <3>3. PlayingRecorded'
        BY <2>3, <3>1 DEF PlayingRecorded
      <3> QED
        BY <1>1, <2>1, <2>2, <2>3, <2>5, <3>1, <3>2, <3>3
           DEF OnEventUnsaved, TakeEvent, watchVars, clockVars
    <2> QED
      BY <1>11, <2>4, <2>5
  <1>12. CASE SetRunning
    <2>1. handling.game \in Game
      BY <1>12 DEF SetRunning, Event
    <2>2. playing' \subseteq Game /\ PlayingRecorded'
      BY <1>12, <2>1 DEF SetRunning, faultVars, PlayingRecorded
    <2> QED
      BY <1>1, <1>12, <2>2 DEF SetRunning, watchVars, clockVars, faultVars
  <1>13. CASE UNCHANGED vars
    BY <1>1, <1>13 DEF vars, PlayingRecorded
  <1>14. CASE StartUnclosed
    <2>1. up' \in BOOLEAN
      BY <1>14, Zenon DEF StartUnclosed
    <2>2. upsets' \in 0..MaxUpset /\ unclosed' \subseteq Game
      BY <1>14, Bounds DEF StartUnclosed, Upset, Sessions
    <2> QED
      BY <1>1, <1>14, <2>1, <2>2
         DEF StartUnclosed, watchVars, engineVars, clockVars, PlayingRecorded
  <1> QED
    BY <1>2, <1>3, <1>4, <1>6, <1>7, <1>8, <1>9, <1>10, <1>11, <1>12, <1>13,
       <1>14
       DEF Next

\* Every reachable state is well typed: among others, the events a poll sends
\* are of known games and uptime never exceeds what the clock was moved by.
THEOREM TypeCorrect == Spec => []TypeOK
  <1>1. Inv => TypeOK
    BY DEF Inv
  <1> QED
    BY <1>1, InitInv, NextInv, PTL DEF Spec

\* A game shown as running has a row unless the write of its last event
\* failed, through any restart, second launch or loss of events, although flag
\* and row are written apart (on_event).
THEOREM PlayingRecordedHolds == Spec => []PlayingRecorded
  <1>1. Inv => PlayingRecorded
    BY DEF Inv
  <1> QED
    BY <1>1, InitInv, NextInv, PTL DEF Spec

\* No step lowers a game's total, whatever the clock does (play_stop).
THEOREM TotalNeverShrinksHolds == Spec => TotalNeverShrinks
  <1>1. Inv /\ [Next]_vars =>
          [\A g \in Game : stats[g] # NULL =>
             stats'[g] # NULL /\ stats[g].total <= stats'[g].total]_vars
    BY NextInv DEF RowsGrow
  <1> QED
    BY <1>1, InitInv, NextInv, PTL DEF Spec, TotalNeverShrinks

-----------------------------------------------------------------------------
(***************************************************************************)
(* Down time is never credited                                             *)
(***************************************************************************)

\* u[i] is the uptime at which pending event i was sent, w[g] the one at which
\* the last event of g that was handled, or less.  The wall clock advanced by
\* no more than the uptime did between two events, since an event, and since
\* an open session began, unless main failed to close that session.
Paced(u, w) ==
    LET Pos == 1..Len(chan)
    IN  /\ \A i \in Pos : now - chan[i].at <= uptime - u[i]
        /\ \A i, j \in Pos : i <= j =>
              u[i] <= u[j] /\ chan[j].at - chan[i].at <= u[j] - u[i]
        /\ \A g \in Game, i \in Pos : w[g] <= u[i]
        /\ \A g \in Game \ unclosed : stats[g] # NULL => stats[g].total <= w[g]
        /\ \A g \in Sessions \ unclosed :
              /\ \A i \in Pos : chan[i].at - stats[g].session <= u[i] - w[g]
              /\ up => now - stats[g].session <= uptime - w[g]

PaceInv ==
    /\ ~up => chan = <<>>
    /\ \E u \in [1..Len(chan) -> 0..uptime], w \in [Game -> 0..uptime] :
          Paced(u, w)

LEMMA Numbers ==
  ASSUME TypeOK
  PROVE  /\ now \in Int /\ uptime \in Nat /\ Len(chan) \in Nat
         /\ \A i \in 1..Len(chan) : chan[i] \in Event /\ chan[i].at \in Int
         /\ \A g \in Game : stats[g] # NULL => stats[g].total \in Int
         /\ \A g \in Sessions : stats[g].session \in Int
  <1>1. chan \in Seq(Event) /\ now \in 0..MaxTime
    BY DEF TypeOK
  <1>2. Len(chan) \in Nat /\ \A i \in 1..Len(chan) : chan[i] \in Event
    BY <1>1, LenProperties, ElementOfSeq
  <1>3. \A e \in Event : e.at \in Int
    BY Bounds DEF Event
  <1>4. now \in Int /\ uptime \in Nat
    BY <1>1, Bounds DEF TypeOK
  <1>5. \A s \in PlayStats : s.total \in Int /\ (s.session # NULL => s.session \in Int)
    BY Bounds DEF PlayStats
  <1>6. \A g \in Game : stats[g] # NULL => stats[g] \in PlayStats
    BY DEF TypeOK
  <1> QED
    BY <1>2, <1>3, <1>4, <1>5, <1>6 DEF Sessions

LEMMA Marks ==
  ASSUME TypeOK, NEW u \in [1..Len(chan) -> 0..uptime],
         NEW w \in [Game -> 0..uptime]
  PROVE  /\ \A i \in 1..Len(chan) : u[i] \in Int /\ u[i] <= uptime
         /\ \A g \in Game : w[g] \in Int /\ w[g] <= uptime
  <1>1. \A n \in 0..uptime : n \in Int /\ n <= uptime
    BY Numbers
  <1> QED
    BY <1>1

LEMMA TickPaced ==
  ASSUME TypeOK, PaceInv, Tick PROVE PaceInv'
  <1>1. PICK u \in [1..Len(chan) -> 0..uptime], w \in [Game -> 0..uptime] :
          Paced(u, w)
    BY DEF PaceInv
  <1>2. /\ chan' = chan /\ stats' = stats /\ up' = up /\ Sessions' = Sessions
        /\ now' = now + 1 /\ unclosed' = unclosed
    BY DEF Tick, Sessions, faultVars
  <1>3. CASE up
    <2>1. uptime' = uptime + 1
      BY <1>3 DEF Tick
    <2>2. u \in [1..Len(chan) -> 0..uptime'] /\ w \in [Game -> 0..uptime']
      BY <2>1, Numbers
    <2>3. /\ \A i \in 1..Len(chan) : now' - chan[i].at <= uptime' - u[i]
          /\ \A g \in Sessions \ unclosed : now' - stats[g].session <= uptime' - w[g]
      <3>1. \A i \in 1..Len(chan) : now - chan[i].at <= uptime - u[i]
        BY <1>1 DEF Paced
      <3>2. \A g \in Sessions \ unclosed : now - stats[g].session <= uptime - w[g]
        BY <1>1, <1>3 DEF Paced
      <3>3. \A g \in Sessions \ unclosed : w[g] \in Int
        BY Marks DEF Sessions
      <3>4. \A a, b \in Int : now - a <= uptime - b => now' - a <= uptime' - b
        BY <1>2, <2>1, Numbers
      <3>5. \A i \in 1..Len(chan) : chan[i].at \in Int /\ u[i] \in Int
        BY Marks, Numbers
      <3>6. \A g \in Sessions \ unclosed : stats[g].session \in Int
        BY Numbers
      <3> QED
        BY <3>1, <3>2, <3>3, <3>4, <3>5, <3>6
    <2>4. Paced(u, w)'
      BY <1>1, <1>2, <2>3 DEF Paced
    <2> QED
      BY <1>2, <1>3, <2>2, <2>4 DEF PaceInv
  <1>4. CASE ~up
    <2>1. uptime' = uptime /\ chan = <<>>
      BY <1>4 DEF Tick, PaceInv
    <2>2. 1..Len(chan) = {}
      BY <2>1
    <2>3. Paced(u, w)'
      BY <1>1, <1>2, <1>4, <2>1, <2>2 DEF Paced
    <2> QED
      BY <1>1, <1>2, <2>1, <2>3 DEF PaceInv
  <1> QED
    BY <1>3, <1>4

LEMMA ClockBackPaced ==
  ASSUME TypeOK, PaceInv, ClockBack PROVE PaceInv'
  <1>1. PICK u \in [1..Len(chan) -> 0..uptime], w \in [Game -> 0..uptime] :
          Paced(u, w)
    BY DEF PaceInv
  <1>2. /\ chan' = chan /\ stats' = stats /\ up' = up /\ Sessions' = Sessions
        /\ now' = now - 1 /\ uptime' = uptime /\ unclosed' = unclosed
    BY DEF ClockBack, Sessions, faultVars
  <1>3. \A i \in 1..Len(chan) : now' - chan[i].at <= uptime - u[i]
    <2>1. \A i \in 1..Len(chan) : now - chan[i].at <= uptime - u[i]
      BY <1>1 DEF Paced
    <2> QED
      BY <1>2, <2>1, Marks, Numbers
  <1>4. \A g \in Sessions \ unclosed : up => now' - stats[g].session <= uptime - w[g]
    <2>1. \A g \in Sessions \ unclosed : up => now - stats[g].session <= uptime - w[g]
      BY <1>1 DEF Paced
    <2>2. \A g \in Sessions \ unclosed : w[g] \in Int
      BY Marks DEF Sessions
    <2> QED
      BY <1>2, <2>1, <2>2, Numbers
  <1>5. Paced(u, w)'
    BY <1>1, <1>2, <1>3, <1>4 DEF Paced
  <1> QED
    BY <1>1, <1>2, <1>5 DEF PaceInv

\* Totals stay, sessions are closed and the rest, but `up', is as before.
LEMMA ClosePaced ==
  ASSUME TypeOK, PaceInv, CloseOrphanedSessions,
         up', UNCHANGED <<chan, now, uptime, unclosed>>
  PROVE  PaceInv'
  <1>1. PICK u \in [1..Len(chan) -> 0..uptime], w \in [Game -> 0..uptime] :
          Paced(u, w)
    BY DEF PaceInv
  <1>2. Sessions' = {}
    <2>1. \A s \in PlayStats : [s EXCEPT !.session = NULL].session = NULL
      BY DEF PlayStats
    <2>2. \A g \in Sessions : stats[g] \in PlayStats
      BY DEF Sessions, TypeOK
    <2>3. \A g \in Game : stats'[g] = IF g \in Sessions
                                      THEN [stats[g] EXCEPT !.session = NULL]
                                      ELSE stats[g]
      BY DEF CloseOrphanedSessions
    <2> QED
      BY <2>1, <2>2, <2>3 DEF Sessions
  <1>3. \A g \in Game : stats'[g] # NULL =>
          stats[g] # NULL /\ stats'[g].total = stats[g].total
    <2>1. \A g \in Game : stats[g] = NULL => stats'[g] = NULL
      BY DEF CloseOrphanedSessions, Sessions
    <2> QED
      BY <2>1, CloseType
  <1>4. Paced(u, w)'
    BY <1>1, <1>2, <1>3 DEF Paced
  <1> QED
    BY <1>1, <1>4 DEF PaceInv

\* What main fails to close is excepted from here on.
LEMMA UnclosedPaced ==
  ASSUME PaceInv, StartUnclosed PROVE PaceInv'
  <1>1. PICK u \in [1..Len(chan) -> 0..uptime], w \in [Game -> 0..uptime] :
          Paced(u, w)
    BY DEF PaceInv
  <1>2. /\ chan' = chan /\ stats' = stats /\ now' = now /\ uptime' = uptime
        /\ unclosed' = unclosed \cup Sessions /\ Sessions' = Sessions /\ up'
    BY DEF StartUnclosed, clockVars, Sessions
  <1>3. Sessions' \ unclosed' = {}
    BY <1>2
  <1>4. \A g \in Game \ unclosed' : g \in Game \ unclosed
    BY <1>2
  <1>5. Paced(u, w)'
    BY <1>1, <1>2, <1>3, <1>4 DEF Paced
  <1> QED
    BY <1>1, <1>2, <1>5 DEF PaceInv

LEMMA CrashPaced ==
  ASSUME TypeOK, PaceInv, Crash PROVE PaceInv'
  <1>1. PICK u \in [1..Len(chan) -> 0..uptime], w \in [Game -> 0..uptime] :
          Paced(u, w)
    BY DEF PaceInv
  <1>2. PICK e : e = [i \in 1..0 |-> 0]
    OBVIOUS
  <1>3. /\ chan' = <<>> /\ ~up' /\ UNCHANGED <<stats, now, uptime>>
        /\ Sessions' = Sessions /\ unclosed' = unclosed
    BY DEF Crash, clockVars, Sessions
  <1>4. 1..Len(chan') = {}
    BY <1>3
  <1>5. Paced(e, w)'
    BY <1>1, <1>3, <1>4 DEF Paced
  <1>6. e \in [1..Len(chan') -> 0..uptime']
    BY <1>2, <1>4
  <1> QED
    BY <1>1, <1>3, <1>5, <1>6 DEF PaceInv

\* The events of one poll are sent at one moment, now.
LEMMA PollPaced ==
  ASSUME TypeOK, PaceInv, NEW due \in SUBSET Game, Poll(due) PROVE PaceInv'
  <1>1. PICK u \in [1..Len(chan) -> 0..uptime], w \in [Game -> 0..uptime] :
          Paced(u, w)
    BY DEF PaceInv
  <1>2. PICK es \in Seq(Event) :
          /\ chan' = chan \o es
          /\ \A i \in 1..Len(es) : es[i].at = now
    <2>1. ASSUME NEW kind \in {"started", "stopped"}, NEW G \in SUBSET Game
          PROVE  /\ Events(kind, G) \in Seq(Event)
                 /\ \A i \in 1..Len(Events(kind, G)) : Events(kind, G)[i].at = now
      <3> DEFINE T == {[kind |-> kind, game |-> g, at |-> now] : g \in G}
      <3>1. Events(kind, G) \in Seq(T)
        BY EventsSent
      <3>2. \A e \in T : e.at = now
        OBVIOUS
      <3> HIDE DEF T
      <3> QED
        BY <3>1, <3>2, EventsType, ElementOfSeq
    <2>2. CASE subscribed
      <3> DEFINE a == Events("started", alive \ running)
                 b == Events("stopped", due)
      <3>1. chan' = chan \o a \o b
        BY <2>2 DEF Poll, SendEvents
      <3>2. /\ a \in Seq(Event) /\ \A i \in 1..Len(a) : a[i].at = now
            /\ b \in Seq(Event) /\ \A i \in 1..Len(b) : b[i].at = now
        BY <2>1 DEF TypeOK
      <3> HIDE DEF a, b
      <3>3. a \o b \in Seq(Event) /\ chan' = chan \o (a \o b)
        <4>1. chan \in Seq(Event)
          BY DEF TypeOK
        <4> QED
          BY <3>1, <3>2, <4>1
      <3>4. \A i \in 1..Len(a \o b) : (a \o b)[i].at = now
        BY <3>2
      <3> QED
        BY <3>3, <3>4
    <2>3. CASE ~subscribed
      <3>1. chan' = chan \o <<>>
        BY <2>3 DEF Poll, SendEvents, TypeOK
      <3>2. <<>> \in Seq(Event) /\ 1..Len(<<>>) = {}
        BY EmptySeq
      <3> QED
        BY <3>1, <3>2
    <2> QED
      BY <2>2, <2>3
  <1>3. /\ up /\ UNCHANGED <<up, stats, now, uptime, unclosed>>
        /\ Sessions' = Sessions
    BY DEF Poll, clockVars, faultVars, Sessions
  <1>4. PICK v : v = [i \in 1..(Len(chan) + Len(es)) |->
                        IF i <= Len(chan) THEN u[i] ELSE uptime]
    OBVIOUS
  <1>5. /\ Len(chan') = Len(chan) + Len(es) /\ Len(es) \in Nat
        /\ \A i \in 1..Len(chan') :
             IF i <= Len(chan) THEN i \in 1..Len(chan) /\ chan'[i] = chan[i]
                               ELSE chan'[i].at = now
    BY <1>2, Numbers DEF TypeOK
  <1>6. v \in [1..Len(chan') -> 0..uptime']
    BY <1>1, <1>3, <1>4, <1>5, Numbers
  <1>7. \A i \in 1..Len(chan') :
          \/ /\ i \in 1..Len(chan) /\ v[i] = u[i] /\ chan'[i].at = chan[i].at
          \/ i > Len(chan) /\ v[i] = uptime /\ chan'[i].at = now
    BY <1>4, <1>5, Numbers
  <1>8. \A i \in 1..Len(chan) : u[i] \in Int /\ u[i] <= uptime
    BY Marks
  <1>9. \A g \in Game : w[g] \in Int /\ w[g] <= uptime
    BY Marks
  <1>10. Paced(v, w)'
    <2>1. \A i \in 1..Len(chan') : now' - chan'[i].at <= uptime' - v[i]
      <3>1. \A i \in 1..Len(chan) : now - chan[i].at <= uptime - u[i]
        BY <1>1 DEF Paced
      <3> QED
        BY <1>3, <1>7, <3>1, Numbers
    <2>2. ASSUME NEW i \in 1..Len(chan'), NEW j \in 1..Len(chan'), i <= j
          PROVE  v[i] <= v[j] /\ chan'[j].at - chan'[i].at <= v[j] - v[i]
      <3>1. CASE j \in 1..Len(chan)
        <4>1. i \in 1..Len(chan)
          BY <2>2, <3>1, Numbers
        <4>2. u[i] <= u[j] /\ chan[j].at - chan[i].at <= u[j] - u[i]
          BY <1>1, <2>2, <3>1, <4>1 DEF Paced
        <4>3. /\ v[i] = u[i] /\ chan'[i].at = chan[i].at
              /\ v[j] = u[j] /\ chan'[j].at = chan[j].at
          BY <1>7, <3>1, <4>1, Numbers
        <4> QED
          BY <4>2, <4>3
      <3>2. CASE j > Len(chan) /\ v[j] = uptime /\ chan'[j].at = now
        <4>1. CASE i \in 1..Len(chan) /\ v[i] = u[i] /\ chan'[i].at = chan[i].at
          <5>1. now - chan[i].at <= uptime - u[i]
            BY <1>1, <4>1 DEF Paced
          <5> QED
            BY <1>8, <3>2, <4>1, <5>1
        <4>2. CASE v[i] = uptime /\ chan'[i].at = now
          BY <3>2, <4>2, Numbers
        <4> QED
          BY <1>7, <4>1, <4>2
      <3> QED
        BY <1>7, <3>1, <3>2
    <2>3. \A g \in Game, i \in 1..Len(chan') : w[g] <= v[i]
      BY <1>1, <1>7, <1>9 DEF Paced
    <2>4. \A g \in Sessions \ unclosed :
            /\ \A i \in 1..Len(chan') :
                 chan'[i].at - stats[g].session <= v[i] - w[g]
            /\ now - stats[g].session <= uptime - w[g]
      BY <1>1, <1>3, <1>7 DEF Paced
    <2> QED
      BY <1>1, <1>3, <2>1, <2>2, <2>3, <2>4 DEF Paced
  <1> QED
    BY <1>1, <1>3, <1>6, <1>10 DEF PaceInv

\* A session is credited with no more than the uptime since it began.
LEMMA OnEventPaced ==
  ASSUME TypeOK, PaceInv, OnEvent PROVE PaceInv'
  <1>1. PICK u \in [1..Len(chan) -> 0..uptime], w \in [Game -> 0..uptime] :
          Paced(u, w)
    BY DEF PaceInv
  <1>2. PICK e : e = Head(chan)
    OBVIOUS
  <1>3. /\ chan # <<>> /\ up /\ UNCHANGED <<up, now, uptime, unclosed>>
        /\ chan' = Tail(chan)
        /\ PlayStart(e.game, e.at) \/ PlayStop(e.game, e.at)
    BY <1>2 DEF OnEvent, TakeEvent, clockVars
  <1>4. /\ Len(chan') = Len(chan) - 1 /\ 1 \in 1..Len(chan) /\ e = chan[1]
        /\ \A i \in 1..Len(chan') : i + 1 \in 1..Len(chan) /\ chan'[i] = chan[i + 1]
    BY <1>2, <1>3, Numbers DEF TypeOK
  <1>5. /\ e \in Event /\ e.game \in Game /\ e.at \in Int
    BY <1>4, Numbers DEF Event
  <1>6. PICK g : g = e.game
    OBVIOUS
  <1>7. PICK v : v = [i \in 1..(Len(chan) - 1) |-> u[i + 1]]
    OBVIOUS
  <1>8. PICK x : x = [w EXCEPT ![g] = u[1]]
    OBVIOUS
  <1>9. /\ u[1] \in Int /\ u[1] \in 0..uptime /\ w[g] \in Int
        /\ \A i \in 1..Len(chan) : u[i] \in Int
    BY <1>4, <1>5, <1>6, Marks
  <1>10. /\ v \in [1..Len(chan') -> 0..uptime'] /\ x \in [Game -> 0..uptime']
    BY <1>1, <1>3, <1>4, <1>5, <1>6, <1>7, <1>8, <1>9, Numbers
  <1>11. \A i \in 1..Len(chan') : v[i] = u[i + 1] /\ chan'[i].at = chan[i + 1].at
    BY <1>4, <1>7
  <1>12. x[g] = u[1] /\ \A h \in Game : h # g => x[h] = w[h]
    BY <1>1, <1>5, <1>6, <1>8
  <1>13. \A h \in Game : h # g => stats'[h] = stats[h]
    BY <1>3, <1>5, <1>6 DEF PlayStart, PlayStop, TypeOK
  <1>14. /\ g \notin unclosed => stats'[g].total <= u[1]
         /\ g \in Sessions' => stats'[g].session = e.at
    <2>1. stats[g] # NULL =>
            /\ stats[g].total \in Int /\ w[g] <= u[1]
            /\ g \notin unclosed => stats[g].total <= w[g]
      BY <1>1, <1>4, <1>5, <1>6, Numbers DEF Paced
    <2>2. CASE PlayStart(g, e.at)
      <3> DEFINE t == IF stats[g] = NULL THEN 0 ELSE stats[g].total
      <3>1. stats'[g] = [session |-> e.at, total |-> t]
        BY <1>5, <1>6, <2>2 DEF PlayStart, TypeOK
      <3>2. g \notin unclosed => t <= u[1]
        BY <1>9, <2>1
      <3> HIDE DEF t
      <3> QED
        BY <3>1, <3>2
    <2>3. CASE PlayStop(g, e.at)
      <3>1. CASE stats[g] = NULL
        <4>1. stats'[g] = [session |-> NULL, total |-> 0]
          BY <1>5, <1>6, <2>3, <3>1 DEF PlayStop, TypeOK
        <4> QED
          BY <1>9, <4>1 DEF Sessions
      <3>2. CASE stats[g] # NULL /\ stats[g].session = NULL
        <4>1. stats'[g] = stats[g]
          BY <1>5, <1>6, <2>3, <3>2 DEF PlayStop, TypeOK
        <4> QED
          BY <1>9, <2>1, <3>2, <4>1 DEF Sessions
      <3>3. CASE stats[g] # NULL /\ stats[g].session # NULL
        <4> DEFINE c == Credited(stats[g].session, e.at)
        <4>1. stats'[g] = [session |-> NULL, total |-> stats[g].total + c]
          BY <1>5, <1>6, <2>3, <3>3 DEF PlayStop, TypeOK
        <4>2. g \in Sessions
          BY <1>5, <1>6, <3>3 DEF Sessions
        <4>3. g \notin unclosed => e.at - stats[g].session <= u[1] - w[g]
          BY <1>1, <1>4, <4>2 DEF Paced
        <4>4. c \in Int /\ (g \notin unclosed => c <= u[1] - w[g])
          BY <1>5, <1>9, <2>1, <3>3, <4>2, <4>3, Numbers DEF Credited
        <4> HIDE DEF c
        <4>5. g \notin unclosed => stats'[g].total <= u[1]
          BY <1>9, <2>1, <3>3, <4>1, <4>4
        <4> QED
          BY <4>1, <4>5 DEF Sessions
      <3> QED
        BY <3>1, <3>2, <3>3
    <2> QED
      BY <1>3, <1>6, <2>2, <2>3
  <1>15. Paced(v, x)'
    <2>1. \A i \in 1..Len(chan') : now' - chan'[i].at <= uptime' - v[i]
      BY <1>1, <1>3, <1>4, <1>11 DEF Paced
    <2>2. \A i, j \in 1..Len(chan') : i <= j =>
            v[i] <= v[j] /\ chan'[j].at - chan'[i].at <= v[j] - v[i]
      <3>1. \A i, j \in 1..Len(chan) : i <= j =>
              u[i] <= u[j] /\ chan[j].at - chan[i].at <= u[j] - u[i]
        BY <1>1 DEF Paced
      <3>2. \A i, j \in 1..Len(chan') : i <= j =>
              /\ i + 1 \in 1..Len(chan) /\ j + 1 \in 1..Len(chan)
              /\ i + 1 <= j + 1
        BY <1>4
      <3> QED
        BY <1>11, <3>1, <3>2
    <2>3. \A h \in Game, i \in 1..Len(chan') : x[h] <= v[i]
      BY <1>1, <1>4, <1>11, <1>12, Numbers DEF Paced
    <2>4. \A h \in Game \ unclosed : stats'[h] # NULL => stats'[h].total <= x[h]
      BY <1>1, <1>12, <1>13, <1>14 DEF Paced
    <2>5. ASSUME NEW h \in Sessions' \ unclosed
          PROVE  /\ \A i \in 1..Len(chan') :
                      chan'[i].at - stats'[h].session <= v[i] - x[h]
                 /\ now - stats'[h].session <= uptime - x[h]
      <3>1. CASE h = g
        <4>1. \A j \in 1..Len(chan) : chan[j].at - chan[1].at <= u[j] - u[1]
          <5>1. \A j \in 1..Len(chan) : 1 <= j
            OBVIOUS
          <5> QED
            BY <1>1, <1>4, <5>1 DEF Paced
        <4>2. now - chan[1].at <= uptime - u[1]
          BY <1>1, <1>4 DEF Paced
        <4>3. stats'[h].session = chan[1].at /\ x[h] = u[1]
          BY <1>4, <1>12, <1>14, <2>5, <3>1
        <4> QED
          BY <1>4, <1>11, <4>1, <4>2, <4>3
      <3>2. CASE h # g
        <4>1. h \in Sessions \ unclosed /\ stats'[h] = stats[h] /\ x[h] = w[h]
          BY <1>12, <1>13, <2>5, <3>2 DEF Sessions
        <4> QED
          BY <1>1, <1>3, <1>4, <1>11, <4>1 DEF Paced
      <3> QED
        BY <3>1, <3>2
    <2> QED
      BY <1>3, <2>1, <2>2, <2>3, <2>4, <2>5 DEF Paced
  <1> QED
    BY <1>3, <1>10, <1>15 DEF PaceInv

\* An event whose write failed only leaves the channel.
LEMMA UnsavedPaced ==
  ASSUME TypeOK, PaceInv, OnEventUnsaved PROVE PaceInv'
  <1>1. PICK u \in [1..Len(chan) -> 0..uptime], w \in [Game -> 0..uptime] :
          Paced(u, w)
    BY DEF PaceInv
  <1>2. /\ chan # <<>> /\ chan' = Tail(chan) /\ up
        /\ UNCHANGED <<up, now, uptime, stats, unclosed>>
        /\ Sessions' = Sessions
    BY DEF OnEventUnsaved, TakeEvent, clockVars, Sessions
  <1>3. /\ Len(chan') = Len(chan) - 1
        /\ \A i \in 1..Len(chan') : i + 1 \in 1..Len(chan) /\ chan'[i] = chan[i + 1]
    BY <1>2, Numbers DEF TypeOK
  <1>4. PICK v : v = [i \in 1..(Len(chan) - 1) |-> u[i + 1]]
    OBVIOUS
  <1>5. v \in [1..Len(chan') -> 0..uptime'] /\ w \in [Game -> 0..uptime']
    BY <1>1, <1>2, <1>3, <1>4
  <1>6. \A i \in 1..Len(chan') : v[i] = u[i + 1] /\ chan'[i].at = chan[i + 1].at
    BY <1>3, <1>4
  <1>7. \A i, j \in 1..Len(chan') : i <= j =>
          v[i] <= v[j] /\ chan'[j].at - chan'[i].at <= v[j] - v[i]
    <2>1. \A i, j \in 1..Len(chan) : i <= j =>
            u[i] <= u[j] /\ chan[j].at - chan[i].at <= u[j] - u[i]
      BY <1>1 DEF Paced
    <2>2. \A i, j \in 1..Len(chan') : i <= j =>
            /\ i + 1 \in 1..Len(chan) /\ j + 1 \in 1..Len(chan)
            /\ i + 1 <= j + 1
      BY <1>3
    <2> QED
      BY <1>6, <2>1, <2>2
  <1>8. Paced(v, w)'
    BY <1>1, <1>2, <1>3, <1>6, <1>7 DEF Paced
  <1> QED
    BY <1>2, <1>5, <1>8 DEF PaceInv

LEMMA StutterPaced ==
  ASSUME PaceInv, UNCHANGED <<chan, stats, up, now, uptime, unclosed>>
  PROVE  PaceInv'
  <1>1. PICK u \in [1..Len(chan) -> 0..uptime], w \in [Game -> 0..uptime] :
          Paced(u, w)
    BY DEF PaceInv
  <1>2. /\ chan' = chan /\ stats' = stats /\ now' = now /\ uptime' = uptime
        /\ (up' <=> up) /\ unclosed' = unclosed
    OBVIOUS
  <1>3. Sessions' = Sessions
    BY <1>2 DEF Sessions
  <1>4. Paced(u, w)'
    BY <1>1, <1>2, <1>3 DEF Paced
  <1>5. ~up' => chan' = <<>>
    BY <1>2 DEF PaceInv
  <1>6. u \in [1..Len(chan') -> 0..uptime'] /\ w \in [Game -> 0..uptime']
    BY <1>1, <1>2
  <1> QED
    BY <1>4, <1>5, <1>6 DEF PaceInv

LEMMA NextPaced == TypeOK /\ PaceInv /\ [Next]_vars => PaceInv'
  <1> SUFFICES ASSUME TypeOK, PaceInv, [Next]_vars PROVE PaceInv'
    OBVIOUS
  <1>1. ASSUME NEW g \in Game, Launch(g) \/ Exit(g) PROVE PaceInv'
    BY <1>1, StutterPaced DEF Launch, Exit, clockVars, faultVars
  <1>2. CASE Start
    BY <1>2, ClosePaced DEF Start, clockVars, faultVars
  <1>3. CASE SecondLaunch
    BY <1>3, ClosePaced DEF SecondLaunch, clockVars, faultVars
  <1>4. CASE Subscribe \/ SetRunning \/ UNCHANGED vars
    BY <1>4, StutterPaced DEF Subscribe, SetRunning, vars, clockVars, faultVars
  <1> QED
    BY <1>1, <1>2, <1>3, <1>4, TickPaced, ClockBackPaced, CrashPaced,
       UnclosedPaced, PollPaced, OnEventPaced, UnsavedPaced DEF Next

\* Play time is credited only for time the daemon was up, through crashes that
\* leave sessions open, stops without their start, events that go unrecorded and
\* a clock that is set back; a session main failed to close is excepted
\* (close_orphaned_sessions, play_stop).
THEOREM DowntimeNeverCreditedHolds == Spec => []DowntimeNeverCredited
  <1>1. Init => PaceInv
    <2> SUFFICES ASSUME Init PROVE PaceInv
      OBVIOUS
    <2>1. PICK e, z : e = [i \in 1..0 |-> 0] /\ z = [g \in Game |-> 0]
      OBVIOUS
    <2>2. 1..Len(chan) = {} /\ Sessions = {} /\ uptime = 0 /\ chan = <<>>
      BY DEF Init, Sessions
    <2>3. e \in [1..Len(chan) -> 0..uptime] /\ z \in [Game -> 0..uptime]
      BY <2>1, <2>2
    <2>4. Paced(e, z)
      BY <2>2 DEF Paced, Init
    <2> QED
      BY <2>2, <2>3, <2>4 DEF PaceInv
  <1>2. TypeOK /\ PaceInv => DowntimeNeverCredited
    <2> SUFFICES ASSUME TypeOK, PaceInv, NEW g \in Game \ unclosed,
                        stats[g] # NULL
                 PROVE  stats[g].total <= uptime
      BY DEF DowntimeNeverCredited
    <2>1. PICK u \in [1..Len(chan) -> 0..uptime], w \in [Game -> 0..uptime] :
            Paced(u, w)
      BY DEF PaceInv
    <2>2. w[g] \in Int /\ w[g] <= uptime /\ stats[g].total <= w[g]
      BY <2>1, Numbers DEF Paced
    <2> QED
      BY <2>2, Numbers
  <1> QED
    BY <1>1, <1>2, NextPaced, TypeCorrect, PTL DEF Spec
=============================================================================
