------------------------------ MODULE SyncProofs ------------------------------
(***************************************************************************)
(* Theorems about Sync for any number of devices, tasks, files, versions,  *)
(* failures and crashes.                                                   *)
(*                                                                         *)
(* The first part (Inv) is about what is stored and queued, whatever it    *)
(* contains.  The second solves the recursion of Rebuilt.  The third       *)
(* (Typed) is the type invariant.  The fourth (Recoverable) is about tasks *)
(* that no lock keeps apart.  The last (Exact) is about a device that runs *)
(* one task at a time and whose calls succeed.                             *)
(***************************************************************************)
EXTENDS Sync, SequenceTheorems, WellFoundedInduction, TLAPS

USE TaskAssumption, GameAssumption

\* Listings declared by the versions on the server.
Stored == {versions[v].blob.files : v \in DOMAIN versions}

RowsSound ==
    /\ DOMAIN minted = Game
    /\ \A v \in DOMAIN versions : v \in minted[game]

IsQueue(q) ==
    /\ \E S : q \in Seq(S)
    /\ \A i \in 1..Len(q) : q[i].game = game

\* Queues hold requests for the game, and what the outbox loop is about to
\* remove has been stored.
QueueSound ==
    /\ DOMAIN outbox = Device /\ DOMAIN retry = Device
    /\ \A d \in Device :
          /\ IsQueue(outbox[d])
          /\ DOMAIN retry[d] = {"pc", "ver"}
          /\ retry[d].pc # "idle" =>
                outbox[d] # << >> /\ Head(outbox[d]).blob.files \in Stored

\* What a task is about to record as the diff base is stored or queued.
TaskSound(t) ==
    /\ DOMAIN task[t] = DOMAIN Idle
    /\ task[t].pc \in {"send", "settle", "enqueue", "queuebase"} =>
          task[t].req.game = game /\ task[t].req.blob.files = task[t].snap
    /\ task[t].pc = "settle" => task[t].snap \in Stored
    /\ task[t].pc = "queuebase" => task[t].snap \in Declared(TaskDevice[t])
    /\ task[t].goal # "backup" => task[t].target \in DOMAIN versions
    /\ task[t].pc \in {"list", "write", "adopt"} => task[t].goal # "backup"

BaseSound ==
    /\ DOMAIN base = Device
    /\ \A d \in Device : base[d] # NULL => DOMAIN base[d] = {"files", "head"}

Inv ==
    /\ RowsSound
    /\ QueueSound
    /\ DOMAIN task = Task /\ \A t \in Task : TaskSound(t)
    /\ BaseSound
    /\ BaseDurable

\* No step loses what is stored or queued.
Growing ==
    /\ DOMAIN versions \subseteq DOMAIN versions'
    /\ Stored \subseteq Stored'
    /\ \A d \in Device : Declared(d) \subseteq Declared(d)'

-----------------------------------------------------------------------------
\* A new version gets an id of its own.
LEMMA CreateStores ==
  ASSUME RowsSound, NEW id, NEW req, req.game = game, CreateVersion(id, req)
  PROVE  /\ RowsSound'
         /\ DOMAIN versions \subseteq DOMAIN versions'
         /\ Stored \subseteq Stored'
         /\ id \in DOMAIN versions' /\ req.blob.files \in Stored'
  <1>1. id \notin DOMAIN versions
    BY DEF RowsSound, CreateVersion, Fresh
  <1>2. /\ DOMAIN versions' = DOMAIN versions \cup {id}
        /\ \A v \in DOMAIN versions : versions'[v] = versions[v]
        /\ versions'[id].blob = req.blob
        /\ minted' = [minted EXCEPT ![game] = @ \cup {id}]
    BY <1>1 DEF CreateVersion
  <1>3. RowsSound'
    BY <1>2 DEF RowsSound
  <1>4. Stored \subseteq Stored' /\ req.blob.files \in Stored'
    BY <1>2 DEF Stored
  <1> QED
    BY <1>2, <1>3, <1>4

LEMMA SameStored ==
  ASSUME UNCHANGED versionVars
  PROVE  Stored' = Stored /\ (RowsSound => RowsSound') /\ versions' = versions
  BY DEF versionVars, Stored, RowsSound

\* Queues that lose nothing: appending, rotating.
LEMMA AppendKeeps ==
  ASSUME NEW q, IsQueue(q), NEW e, e.game = game
  PROVE  /\ IsQueue(Append(q, e)) /\ Append(q, e) # << >>
         /\ Len(Append(q, e)) = Len(q) + 1 /\ Len(q) \in Nat
         /\ \A i \in 1..Len(q) : Append(q, e)[i] = q[i]
         /\ Append(q, e)[Len(q) + 1] = e
         /\ q # << >> => Head(Append(q, e)) = Head(q)
  <1>1. PICK S : q \in Seq(S)
    BY DEF IsQueue
  <1>2. q \in Seq(S \cup {e}) /\ e \in S \cup {e}
    BY <1>1, SeqMonotonic
  <1>3. /\ Append(q, e) \in Seq(S \cup {e}) /\ Append(q, e) # << >>
        /\ Len(Append(q, e)) = Len(q) + 1 /\ Len(q) \in Nat
        /\ \A i \in 1..Len(q) : Append(q, e)[i] = q[i]
        /\ Append(q, e)[Len(q) + 1] = e
    BY <1>2
  <1>4. q # << >> => Head(Append(q, e)) = Head(q)
    BY <1>2, <1>3
  <1>5. \A i \in 1..(Len(q) + 1) : Append(q, e)[i].game = game
    BY <1>3 DEF IsQueue
  <1> QED
    BY <1>3, <1>4, <1>5 DEF IsQueue

LEMMA TailKeeps ==
  ASSUME NEW q, IsQueue(q), q # << >>
  PROVE  /\ IsQueue(Tail(q)) /\ Head(q) = q[1] /\ Head(q).game = game
         /\ Len(q) \in Nat /\ Len(Tail(q)) = Len(q) - 1 /\ 1 \in 1..Len(q)
         /\ \A i \in 1..Len(Tail(q)) : Tail(q)[i] = q[i + 1]
  <1>1. PICK S : q \in Seq(S)
    BY DEF IsQueue
  <1>2. /\ Tail(q) \in Seq(S) /\ Head(q) = q[1]
        /\ Len(q) \in Nat /\ Len(Tail(q)) = Len(q) - 1 /\ 1 \in 1..Len(q)
        /\ \A i \in 1..Len(Tail(q)) : Tail(q)[i] = q[i + 1]
    BY <1>1
  <1>3. \A i \in 1..Len(Tail(q)) : Tail(q)[i].game = game
    BY <1>2 DEF IsQueue
  <1> QED
    BY <1>2, <1>3 DEF IsQueue

LEMMA DeclaredGrows ==
  ASSUME Stored \subseteq Stored', NEW d \in Device,
         IsQueue(outbox[d]), IsQueue(outbox'[d]),
         \A i \in 1..Len(outbox[d]) :
            \/ outbox[d][i].blob.files \in Stored'
            \/ \E j \in 1..Len(outbox'[d]) : outbox'[d][j] = outbox[d][i]
  PROVE  Declared(d) \subseteq Declared(d)'
  <1>1. /\ DOMAIN outbox[d] = 1..Len(outbox[d])
        /\ DOMAIN outbox'[d] = 1..Len(outbox'[d])
    BY LenProperties DEF IsQueue
  <1> QED
    BY <1>1 DEF Declared, Stored

LEMMA SameQueue ==
  ASSUME NEW d \in Device, Stored \subseteq Stored', IsQueue(outbox[d]),
         outbox'[d] = outbox[d]
  PROVE  Declared(d) \subseteq Declared(d)'
  BY DEF Declared, Stored

-----------------------------------------------------------------------------
(***************************************************************************)
(* The server and the queues                                               *)
(***************************************************************************)
ServerSide == RowsSound' /\ QueueSound' /\ Growing

\* A step of a task that leaves the queues alone.
LEMMA QuietServer ==
  ASSUME RowsSound, QueueSound, RowsSound', Stored \subseteq Stored',
         DOMAIN versions \subseteq DOMAIN versions', UNCHANGED <<outbox, retry>>
  PROVE  ServerSide
  <1>1. QueueSound'
    BY DEF QueueSound
  <1>2. \A d \in Device : Declared(d) \subseteq Declared(d)'
    BY SameQueue DEF QueueSound
  <1> QED
    BY <1>1, <1>2 DEF ServerSide, Growing

LEMMA EnqueueServer ==
  ASSUME RowsSound, QueueSound, NEW t \in Task, TaskSound(t), Enqueue(t)
  PROVE  /\ ServerSide
         /\ task[t].req.blob.files \in Declared(TaskDevice[t])'
  <1> DEFINE d == TaskDevice[t]
             q == outbox[d]
             e == task[t].req
  <1>0. d \in Device /\ IsQueue(q) /\ e.game = game
    BY DEF QueueSound, TaskSound, Enqueue
  <1>1. /\ outbox' = [outbox EXCEPT ![d] = Append(q, e)]
        /\ UNCHANGED <<versionVars, retry>>
    BY DEF Enqueue
  <1>2. Stored' = Stored /\ RowsSound' /\ versions' = versions
    BY <1>1, SameStored
  <1>3. outbox'[d] = Append(q, e) /\ \A c \in Device \ {d} : outbox'[c] = outbox[c]
    BY <1>0, <1>1 DEF QueueSound
  <1>4. /\ IsQueue(Append(q, e)) /\ Append(q, e) # << >>
        /\ Len(Append(q, e)) = Len(q) + 1 /\ Len(q) \in Nat
        /\ \A i \in 1..Len(q) : Append(q, e)[i] = q[i]
        /\ Append(q, e)[Len(q) + 1] = e
        /\ q # << >> => Head(Append(q, e)) = Head(q)
    BY <1>0, AppendKeeps
  <1> HIDE DEF d, e
  <1>5. QueueSound'
    <2>1. ASSUME NEW c \in Device
          PROVE  /\ IsQueue(outbox'[c]) /\ DOMAIN retry[c] = {"pc", "ver"}
                 /\ retry[c].pc # "idle" => /\ outbox'[c] # << >>
                                            /\ Head(outbox'[c]).blob.files \in Stored
      <3>1. CASE c = d
        BY <1>0, <1>3, <1>4, <3>1 DEF QueueSound
      <3>2. CASE c # d
        BY <1>3, <3>2 DEF QueueSound
      <3> QED
        BY <3>1, <3>2
    <2> QED
      BY <1>1, <1>2, <2>1 DEF QueueSound
  <1>6. ASSUME NEW c \in Device PROVE Declared(c) \subseteq Declared(c)'
    <2>1. CASE c = d
      <3>1. \A i \in 1..Len(q) : i \in 1..Len(outbox'[d]) /\ outbox'[d][i] = q[i]
        BY <1>3, <1>4
      <3> QED
        BY <1>0, <1>2, <1>3, <1>4, <2>1, <3>1, DeclaredGrows
    <2>2. CASE c # d
      BY <1>2, <1>3, <2>2, SameQueue DEF QueueSound
    <2> QED
      BY <2>1, <2>2
  <1>7. e.blob.files \in Declared(d)'
    <2>1. Len(q) + 1 \in DOMAIN outbox'[d] /\ outbox'[d][Len(q) + 1] = e
      BY <1>3, <1>4, LenProperties DEF IsQueue
    <2> QED
      BY <2>1 DEF Declared
  <1> QED
    BY <1>2, <1>5, <1>6, <1>7 DEF ServerSide, Growing, d, e

\* An item that fails goes to the end of its queue.
LEMMA PostponeServer ==
  ASSUME RowsSound, QueueSound, RowsSound', Stored \subseteq Stored',
         DOMAIN versions \subseteq DOMAIN versions', NEW d \in Device, Postpone(d)
  PROVE  ServerSide
  <1> DEFINE q == outbox[d]
             r == Append(Tail(q), Head(q))
  <1>1. /\ q # << >> /\ retry[d].pc = "idle" /\ retry' = retry
        /\ outbox' = [outbox EXCEPT ![d] = r]
    BY DEF Postpone
  <1>2. outbox'[d] = r /\ \A c \in Device \ {d} : outbox'[c] = outbox[c]
    BY <1>1 DEF QueueSound
  <1>3. /\ IsQueue(q) /\ IsQueue(Tail(q)) /\ Head(q) = q[1]
        /\ Head(q).game = game
        /\ Len(q) \in Nat /\ Len(Tail(q)) = Len(q) - 1 /\ 1 \in 1..Len(q)
        /\ \A i \in 1..Len(Tail(q)) : Tail(q)[i] = q[i + 1]
    BY <1>1, TailKeeps DEF QueueSound
  <1>4. /\ IsQueue(r) /\ Len(r) = Len(q)
        /\ \A i \in 1..(Len(q) - 1) : r[i] = q[i + 1]
        /\ r[Len(q)] = q[1]
    BY <1>3, AppendKeeps
  <1> HIDE DEF r
  <1>5. QueueSound'
    <2>1. ASSUME NEW c \in Device
          PROVE  /\ IsQueue(outbox'[c]) /\ DOMAIN retry[c] = {"pc", "ver"}
                 /\ retry[c].pc # "idle" => /\ outbox'[c] # << >>
                                            /\ Head(outbox'[c]).blob.files \in Stored'
      BY <1>1, <1>2, <1>4 DEF QueueSound
    <2> QED
      BY <1>1, <2>1 DEF QueueSound
  <1>6. ASSUME NEW c \in Device PROVE Declared(c) \subseteq Declared(c)'
    <2>1. CASE c = d
      <3>1. ASSUME NEW i \in 1..Len(q)
            PROVE  \E j \in 1..Len(r) : r[j] = q[i]
        <4>1. CASE i = 1
          <5>1. Len(q) \in 1..Len(r) /\ r[Len(q)] = q[i]
            BY <1>3, <1>4, <4>1
          <5> QED
            BY <5>1
        <4>2. CASE i # 1
          <5>1. i - 1 \in 1..(Len(q) - 1) /\ (i - 1) + 1 = i
            BY <1>3, <4>2
          <5>2. i - 1 \in 1..Len(r) /\ r[i - 1] = q[i]
            BY <1>3, <1>4, <5>1
          <5> QED
            BY <5>2
        <4> QED
          BY <4>1, <4>2
      <3> QED
        BY <1>2, <1>3, <1>4, <2>1, <3>1, DeclaredGrows
    <2>2. CASE c # d
      BY <1>2, <2>2, SameQueue DEF QueueSound
    <2> QED
      BY <2>1, <2>2
  <1> QED
    BY <1>5, <1>6 DEF ServerSide, Growing

\* What leaves the queue after an upload is stored.
LEMMA RemoveServer ==
  ASSUME RowsSound, QueueSound, NEW d \in Device, RetryRemove(d)
  PROVE  ServerSide
  <1> DEFINE q == outbox[d]
  <1>1. /\ retry[d].pc = "remove" /\ UNCHANGED versionVars
        /\ retry' = [retry EXCEPT ![d] = RetryIdle]
        /\ outbox' = [outbox EXCEPT ![d] = Tail(q)]
    BY DEF RetryRemove
  <1>2. /\ outbox'[d] = Tail(q) /\ retry'[d] = RetryIdle
        /\ \A c \in Device \ {d} : outbox'[c] = outbox[c] /\ retry'[c] = retry[c]
    BY <1>1 DEF QueueSound
  <1>3. Stored' = Stored /\ RowsSound' /\ versions' = versions
    BY <1>1, SameStored
  <1>4. q # << >> /\ Head(q).blob.files \in Stored /\ IsQueue(q)
    BY <1>1 DEF QueueSound
  <1>5. /\ IsQueue(Tail(q)) /\ Head(q) = q[1]
        /\ Len(q) \in Nat /\ Len(Tail(q)) = Len(q) - 1 /\ 1 \in 1..Len(q)
        /\ \A i \in 1..Len(Tail(q)) : Tail(q)[i] = q[i + 1]
    BY <1>4, TailKeeps
  <1>6. QueueSound'
    BY <1>1, <1>2, <1>3, <1>5 DEF QueueSound, RetryIdle
  <1>7. ASSUME NEW c \in Device PROVE Declared(c) \subseteq Declared(c)'
    <2>1. CASE c = d
      <3>1. ASSUME NEW i \in 1..Len(q), i # 1
            PROVE  \E j \in 1..Len(Tail(q)) : Tail(q)[j] = q[i]
        <4>1. i - 1 \in 1..Len(Tail(q)) /\ (i - 1) + 1 = i
          BY <1>5, <3>1
        <4>2. Tail(q)[i - 1] = q[i]
          BY <1>5, <4>1
        <4> QED
          BY <4>1, <4>2
      <3>2. q[1].blob.files \in Stored'
        BY <1>3, <1>4, <1>5
      <3>3. \A i \in 1..Len(outbox[d]) :
              \/ outbox[d][i].blob.files \in Stored'
              \/ \E j \in 1..Len(outbox'[d]) : outbox'[d][j] = outbox[d][i]
        BY <1>2, <3>1, <3>2
      <3>4. IsQueue(outbox[d]) /\ IsQueue(outbox'[d]) /\ Stored \subseteq Stored'
        BY <1>2, <1>3, <1>4, <1>5
      <3> QED
        BY <2>1, <3>3, <3>4, DeclaredGrows
    <2>2. CASE c # d
      BY <1>2, <1>3, <2>2, SameQueue DEF QueueSound
    <2> QED
      BY <2>1, <2>2
  <1> QED
    BY <1>3, <1>6, <1>7 DEF ServerSide, Growing

\* The other steps of the outbox loop, and its death, leave the queue alone.
LEMMA RetryServer ==
  ASSUME RowsSound, QueueSound, NEW d \in Device
  PROVE  /\ \A id \in VersionId : RetrySend(d, id) => ServerSide
         /\ RetryHead(d) => ServerSide
         /\ Crash(d) => ServerSide
  <1>1. ASSUME Stored \subseteq Stored', RowsSound',
               DOMAIN versions \subseteq DOMAIN versions', outbox' = outbox,
               NEW r, retry' = [retry EXCEPT ![d] = r], DOMAIN r = {"pc", "ver"},
               r.pc # "idle" => /\ outbox[d] # << >>
                                /\ Head(outbox[d]).blob.files \in Stored'
        PROVE  ServerSide
    <2>1. QueueSound'
      BY <1>1 DEF QueueSound
    <2>2. \A c \in Device : Declared(c) \subseteq Declared(c)'
      BY <1>1, SameQueue DEF QueueSound
    <2> QED
      BY <1>1, <2>1, <2>2 DEF ServerSide, Growing
  <1>2. ASSUME NEW id \in VersionId, RetrySend(d, id) PROVE ServerSide
    <2> DEFINE e == Head(outbox[d])
               r == [pc |-> "head", ver |-> id]
    <2>1. /\ outbox[d] # << >> /\ CreateVersion(id, e) /\ outbox' = outbox
          /\ retry' = [retry EXCEPT ![d] = r]
      BY <1>2 DEF RetrySend, localVars
    <2>2. e.game = game
      BY <2>1, TailKeeps DEF QueueSound
    <2>3. /\ RowsSound' /\ Stored \subseteq Stored' /\ e.blob.files \in Stored'
          /\ DOMAIN versions \subseteq DOMAIN versions'
      BY <2>1, <2>2, CreateStores
    <2>4. DOMAIN r = {"pc", "ver"}
      OBVIOUS
    <2> QED
      BY <1>1, <2>1, <2>3, <2>4
  <1>3. ASSUME RetryHead(d) PROVE ServerSide
    <2> DEFINE r == [retry[d] EXCEPT !.pc = "remove"]
    <2>1. /\ retry[d].pc = "head" /\ outbox' = outbox /\ UNCHANGED versionVars
          /\ retry' = [retry EXCEPT ![d] = r]
      BY <1>3 DEF RetryHead
    <2>2. /\ DOMAIN r = {"pc", "ver"}
          /\ outbox[d] # << >> /\ Head(outbox[d]).blob.files \in Stored
      BY <2>1 DEF QueueSound
    <2> QED
      BY <1>1, <2>1, <2>2, SameStored
  <1>4. ASSUME Crash(d) PROVE ServerSide
    <2>1. /\ outbox' = outbox /\ UNCHANGED versionVars
          /\ retry' = [retry EXCEPT ![d] = RetryIdle]
      BY <1>4 DEF Crash, localVars
    <2>2. DOMAIN RetryIdle = {"pc", "ver"} /\ RetryIdle.pc = "idle"
      BY DEF RetryIdle
    <2> QED
      BY <1>1, <2>1, <2>2, SameStored
  <1> QED
    BY <1>2, <1>3, <1>4

-----------------------------------------------------------------------------
(***************************************************************************)
(* Tasks and diff bases                                                    *)
(***************************************************************************)

\* What holds of a task goes on holding while others store and queue more.
LEMMA TaskStays ==
  ASSUME Growing, NEW t \in Task, TaskSound(t), task'[t] = task[t]
  PROVE  TaskSound(t)'
  <1>1. TaskDevice[t] \in Device
    OBVIOUS
  <1> QED
    BY <1>1 DEF TaskSound, Growing

LEMMA IdleSound ==
  ASSUME NEW t \in Task, task'[t] = Idle PROVE TaskSound(t)'
  BY DEF TaskSound, Idle

\* A step of task t that goes on to a step at which nothing is due.
LEMMA OnwardSound ==
  ASSUME Growing, NEW t \in Task, TaskSound(t), DOMAIN task'[t] = DOMAIN Idle,
         task'[t].goal = task[t].goal, task'[t].target = task[t].target,
         \/ task'[t].pc \in {"scan", "pack", "confirm", "count", "queueflag"}
         \/ /\ task'[t].pc \in {"write", "adopt"}
            /\ task[t].pc \in {"list", "write"}
  PROVE  TaskSound(t)'
  BY DEF TaskSound, Growing

LEMMA BackupOverSound ==
  ASSUME Growing, DOMAIN task = Task, NEW t \in Task, TaskSound(t),
         NEW a, BackupOver(t, a)
  PROVE  TaskSound(t)' /\ \A s \in Task \ {t} : task'[s] = task[s]
  <1>1. \A s \in Task \ {t} : task'[s] = task[s]
    BY DEF BackupOver
  <1>2. CASE task[t].goal = "backup"
    <2>1. task'[t] = Idle
      BY <1>2 DEF BackupOver
    <2> QED
      BY <1>1, <2>1, IdleSound
  <1>3. CASE task[t].goal # "backup"
    <2>1. task'[t] = [Idle EXCEPT !.pc = "list", !.goal = task[t].goal,
                                  !.target = task[t].target, !.answer = a]
      BY <1>3 DEF BackupOver
    <2>2. /\ DOMAIN task'[t] = DOMAIN Idle /\ task'[t].pc = "list"
          /\ task'[t].goal = task[t].goal /\ task'[t].target = task[t].target
      BY <2>1 DEF Idle
    <2> QED
      BY <1>1, <1>3, <2>2 DEF TaskSound, Growing
  <1> QED
    BY <1>2, <1>3

\* The tasks after a step of t alone.
LEMMA Others ==
  ASSUME Inv, Growing, DOMAIN task' = Task, NEW t \in Task, TaskSound(t)',
         \A s \in Task \ {t} : task'[s] = task[s]
  PROVE  DOMAIN task' = Task /\ \A s \in Task : TaskSound(s)'
  BY TaskStays DEF Inv

LEMMA BaseStays ==
  ASSUME Inv, Growing, base' = base PROVE BaseSound' /\ BaseDurable'
  BY DEF Inv, Growing, BaseSound, BaseDurable

LEMMA PutSound ==
  ASSUME Inv, Growing, NEW d \in Device, NEW files, NEW hd,
         PutSnapshot(d, files, hd), files \in Declared(d)'
  PROVE  BaseSound' /\ BaseDurable'
  <1>1. /\ DOMAIN base' = Device
        /\ base'[d] = [files |-> files, head |-> hd]
        /\ \A c \in Device \ {d} : base'[c] = base[c]
    BY DEF PutSnapshot, Inv, BaseSound
  <1>2. base'[d].files = files /\ DOMAIN base'[d] = {"files", "head"}
    BY <1>1
  <1>3. BaseSound'
    BY <1>1, <1>2 DEF BaseSound, Inv
  <1>4. BaseDurable'
    BY <1>1, <1>2 DEF BaseDurable, Inv, Growing
  <1> QED
    BY <1>3, <1>4

\* Steps that touch neither server nor queues.
LEMMA LocalServer ==
  ASSUME Inv, UNCHANGED <<versionVars, outbox, retry>> PROVE ServerSide
  <1>1. Stored' = Stored /\ RowsSound' /\ versions' = versions
    BY SameStored DEF Inv
  <1> QED
    BY <1>1, QuietServer DEF Inv

LEMMA SendServer ==
  ASSUME Inv, NEW t \in Task, NEW id, task[t].pc = "send",
         CreateVersion(id, task[t].req), UNCHANGED <<outbox, retry>>
  PROVE  ServerSide /\ task[t].snap \in Stored'
  <1>1. task[t].req.game = game /\ task[t].req.blob.files = task[t].snap
    BY DEF Inv, TaskSound
  <1>2. /\ RowsSound' /\ Stored \subseteq Stored' /\ task[t].snap \in Stored'
        /\ DOMAIN versions \subseteq DOMAIN versions'
    BY <1>1, CreateStores DEF Inv
  <1> QED
    BY <1>2, QuietServer DEF Inv

LEMMA StoredDeclared ==
  \A d \in Device : Stored \subseteq Declared(d)
  BY DEF Stored, Declared

LEMMA NextSound == Inv /\ [Next]_vars => Inv' /\ Growing
  <1> SUFFICES ASSUME Inv, [Next]_vars PROVE Inv' /\ Growing
    OBVIOUS
  <1>0. /\ DOMAIN task = Task
        /\ \A t \in Task : TaskSound(t) /\ DOMAIN task[t] = DOMAIN Idle
    BY DEF Inv, TaskSound
  <1>a. ASSUME ServerSide, UNCHANGED <<task, base>> PROVE Inv' /\ Growing
    BY <1>a, <1>0, TaskStays, BaseStays DEF ServerSide, Inv
  <1>b. ASSUME ServerSide, base' = base, NEW t \in Task, TaskSound(t)',
               DOMAIN task' = Task, \A s \in Task \ {t} : task'[s] = task[s]
        PROVE  Inv' /\ Growing
    BY <1>b, Others, BaseStays DEF ServerSide, Inv
  <1>1. ASSUME NEW d \in Device, NEW f \in File, NEW x, Save(d, f, x)
        PROVE  Inv' /\ Growing
    BY <1>a, <1>1, LocalServer DEF Save, localVars
  <1>2. ASSUME NEW t \in Task, StartBackup(t) PROVE Inv' /\ Growing
    <2>1. ServerSide /\ base' = base
      BY <1>2, LocalServer DEF StartBackup, localVars
    <2>2. /\ DOMAIN task' = Task /\ \A s \in Task \ {t} : task'[s] = task[s]
          /\ DOMAIN task'[t] = DOMAIN Idle /\ task'[t].pc = "scan"
          /\ task'[t].goal = task[t].goal /\ task'[t].target = task[t].target
      BY <1>0, <1>2 DEF StartBackup, Goto, Idle
    <2>3. TaskSound(t)'
      BY <1>0, <2>1, <2>2, OnwardSound DEF ServerSide
    <2> QED
      BY <1>b, <2>1, <2>2, <2>3
  <1>3. ASSUME NEW t \in Task, NEW goal \in {"restore", "pull"},
               NEW v \in VersionId, StartRestore(t, goal, v)
        PROVE  Inv' /\ Growing
    <2>1. ServerSide /\ base' = base /\ v \in DOMAIN versions'
      BY <1>3, LocalServer DEF StartRestore, localVars, versionVars
    <2>2. /\ DOMAIN task' = Task /\ \A s \in Task \ {t} : task'[s] = task[s]
          /\ task'[t] = [Idle EXCEPT !.pc = "scan", !.goal = goal, !.target = v]
      BY <1>0, <1>3 DEF StartRestore
    <2>3. /\ DOMAIN task'[t] = DOMAIN Idle /\ task'[t].pc = "scan"
          /\ task'[t].target = v
      BY <2>2 DEF Idle
    <2>4. TaskSound(t)'
      BY <2>1, <2>3 DEF TaskSound
    <2> QED
      BY <1>b, <2>1, <2>2, <2>4
  <1>4. ASSUME NEW t \in Task, Scan(t) PROVE Inv' /\ Growing
    <2>1. ServerSide /\ base' = base
      BY <1>4, LocalServer DEF Scan, localVars
    <2>2. DOMAIN task' = Task
      BY <1>0, <1>4 DEF Scan, BackupOver
    <2>3. CASE BackupOver(t, "none")
      BY <1>0, <1>b, <2>1, <2>2, <2>3, BackupOverSound DEF ServerSide
    <2>4. CASE task' = [task EXCEPT ![t].pc = "pack",
                                    ![t].snap = disk[TaskDevice[t]],
                                    ![t].last = base[TaskDevice[t]]]
      <3>1. /\ \A s \in Task \ {t} : task'[s] = task[s]
            /\ DOMAIN task'[t] = DOMAIN Idle /\ task'[t].pc = "pack"
            /\ task'[t].goal = task[t].goal /\ task'[t].target = task[t].target
        BY <1>0, <2>4 DEF Idle
      <3>2. TaskSound(t)'
        BY <1>0, <2>1, <3>1, OnwardSound DEF ServerSide
      <3> QED
        BY <1>b, <2>1, <2>2, <3>1, <3>2
    <2> QED
      BY <1>4, <2>3, <2>4 DEF Scan
  <1>5. ASSUME NEW t \in Task, Pack(t) PROVE Inv' /\ Growing
    <2>1. ServerSide /\ base' = base
      BY <1>5, LocalServer DEF Pack, localVars
    <2>2. PICK r : /\ r.game = game /\ r.blob.files = task[t].snap
                   /\ task' = [task EXCEPT ![t].pc = "send",
                                           ![t].prior = diffs[TaskDevice[t]],
                                           ![t].req = r]
      <3> DEFINE b == [files |-> task[t].snap, data |-> PackData(t)]
                 up == IF task[t].last = NULL THEN NULL ELSE task[t].last.head
                 r == [game |-> game, parent |-> up, kind |-> KindOf(t),
                       blob |-> b]
      <3>1. task' = [task EXCEPT ![t].pc = "send",
                                 ![t].prior = diffs[TaskDevice[t]],
                                 ![t].req = r]
        BY <1>5 DEF Pack
      <3>2. b.files = task[t].snap
        OBVIOUS
      <3> HIDE DEF b, up
      <3>3. r.game = game /\ r.blob = b
        OBVIOUS
      <3> HIDE DEF r
      <3> QED
        BY <3>1, <3>2, <3>3
    <2>3. /\ DOMAIN task' = Task /\ \A s \in Task \ {t} : task'[s] = task[s]
          /\ DOMAIN task'[t] = DOMAIN Idle /\ task'[t].pc = "send"
          /\ task'[t].goal = task[t].goal /\ task'[t].target = task[t].target
          /\ task'[t].snap = task[t].snap /\ task'[t].req = r
      BY <1>0, <2>2 DEF Idle
    <2>4. TaskSound(t)'
      BY <1>0, <2>1, <2>2, <2>3 DEF TaskSound, ServerSide, Growing
    <2> QED
      BY <1>b, <2>1, <2>3, <2>4
  <1>6. ASSUME NEW t \in Task, PackFails(t) \/ ListFails(t) PROVE Inv' /\ Growing
    <2>1. /\ ServerSide /\ base' = base
          /\ DOMAIN task' = Task /\ \A s \in Task \ {t} : task'[s] = task[s]
          /\ task'[t] = Idle
      BY <1>0, <1>6, LocalServer DEF PackFails, ListFails, localVars
    <2> QED
      BY <1>b, <2>1, IdleSound
  <1>7. ASSUME NEW t \in Task, NEW id \in VersionId, Send(t, id)
        PROVE  Inv' /\ Growing
    <2>1. ServerSide /\ base' = base /\ task[t].snap \in Stored'
      BY <1>7, SendServer DEF Send, localVars
    <2>2. /\ DOMAIN task' = Task /\ \A s \in Task \ {t} : task'[s] = task[s]
          /\ DOMAIN task'[t] = DOMAIN Idle /\ task'[t].pc = "settle"
          /\ task'[t].goal = task[t].goal /\ task'[t].target = task[t].target
          /\ task'[t].snap = task[t].snap /\ task'[t].req = task[t].req
          /\ task[t].pc = "send"
      BY <1>0, <1>7 DEF Send, Idle
    <2>3. TaskSound(t)'
      BY <1>0, <2>1, <2>2 DEF TaskSound, ServerSide, Growing
    <2> QED
      BY <1>b, <2>1, <2>2, <2>3
  <1>8. ASSUME NEW t \in Task,
               \/ SendRefused(t) \/ SendFails(t)
               \/ \E id \in VersionId : SendAnswerLost(t, id)
        PROVE  Inv' /\ Growing
    <2>1. ServerSide /\ base' = base
      BY <1>8, SendServer, LocalServer
         DEF SendRefused, SendFails, SendAnswerLost, localVars
    <2>2. /\ DOMAIN task' = Task /\ \A s \in Task \ {t} : task'[s] = task[s]
          /\ DOMAIN task'[t] = DOMAIN Idle /\ task'[t].pc = "enqueue"
          /\ task'[t].goal = task[t].goal /\ task'[t].target = task[t].target
          /\ task'[t].snap = task[t].snap /\ task'[t].req = task[t].req
          /\ task[t].pc = "send"
      BY <1>0, <1>8 DEF SendRefused, SendFails, SendAnswerLost, Goto, Idle
    <2>3. TaskSound(t)'
      BY <1>0, <2>1, <2>2 DEF TaskSound, ServerSide, Growing
    <2> QED
      BY <1>b, <2>1, <2>2, <2>3
  <1>9. ASSUME NEW t \in Task, Settle(t) \/ QueueBase(t) PROVE Inv' /\ Growing
    <2>1. ServerSide
      BY <1>9, LocalServer DEF Settle, QueueBase
    <2>2. /\ DOMAIN task' = Task /\ \A s \in Task \ {t} : task'[s] = task[s]
          /\ DOMAIN task'[t] = DOMAIN Idle
          /\ task'[t].pc \in {"confirm", "queueflag"}
          /\ task'[t].goal = task[t].goal /\ task'[t].target = task[t].target
      BY <1>0, <1>9 DEF Settle, QueueBase, Goto, Idle
    <2>3. TaskSound(t)'
      BY <1>0, <2>1, <2>2, OnwardSound DEF ServerSide
    <2>4. TaskDevice[t] \in Device /\ task[t].snap \in Declared(TaskDevice[t])'
      BY <1>0, <1>9, <2>1, StoredDeclared
         DEF Settle, QueueBase, TaskSound, ServerSide, Growing
    <2>5. BaseSound' /\ BaseDurable'
      BY <1>9, <2>1, <2>4, PutSound DEF Settle, QueueBase, ServerSide
    <2> QED
      BY <2>1, <2>2, <2>3, <2>5, Others DEF ServerSide, Inv
  <1>10. ASSUME NEW t \in Task, Confirm(t) PROVE Inv' /\ Growing
    <2>1. ServerSide /\ base' = base
      BY <1>10, LocalServer DEF Confirm
    <2>2. DOMAIN task' = Task
      BY <1>0, <1>10 DEF Confirm, BackupOver, Goto
    <2>3. CASE BackupOver(t, "conflict")
      BY <1>0, <1>b, <2>1, <2>2, <2>3, BackupOverSound DEF ServerSide
    <2>4. CASE Goto(t, "count")
      <3>1. /\ \A s \in Task \ {t} : task'[s] = task[s]
            /\ DOMAIN task'[t] = DOMAIN Idle /\ task'[t].pc = "count"
            /\ task'[t].goal = task[t].goal /\ task'[t].target = task[t].target
        BY <1>0, <2>4 DEF Goto, Idle
      <3>2. TaskSound(t)'
        BY <1>0, <2>1, <3>1, OnwardSound DEF ServerSide
      <3> QED
        BY <1>b, <2>1, <2>2, <3>1, <3>2
    <2> QED
      BY <1>10, <2>3, <2>4 DEF Confirm
  <1>11. ASSUME NEW t \in Task, Count(t) \/ QueueFlag(t) PROVE Inv' /\ Growing
    <2>1. ServerSide /\ base' = base
      BY <1>11, LocalServer DEF Count, QueueFlag
    <2>2. PICK a : BackupOver(t, a)
      BY <1>11 DEF Count, QueueFlag
    <2>3. DOMAIN task' = Task
      BY <1>0, <2>2 DEF BackupOver
    <2> QED
      BY <1>0, <1>b, <2>1, <2>2, <2>3, BackupOverSound DEF ServerSide
  <1>12. ASSUME NEW t \in Task, Enqueue(t) PROVE Inv' /\ Growing
    <2>1. /\ ServerSide /\ base' = base
          /\ task[t].req.blob.files \in Declared(TaskDevice[t])'
      BY <1>0, <1>12, EnqueueServer DEF Inv, Enqueue
    <2>2. /\ DOMAIN task' = Task /\ \A s \in Task \ {t} : task'[s] = task[s]
          /\ DOMAIN task'[t] = DOMAIN Idle /\ task'[t].pc = "queuebase"
          /\ task'[t].goal = task[t].goal /\ task'[t].target = task[t].target
          /\ task'[t].snap = task[t].snap /\ task'[t].req = task[t].req
          /\ task[t].pc = "enqueue"
      BY <1>0, <1>12 DEF Enqueue, Goto, Idle
    <2>3. TaskSound(t)'
      BY <1>0, <2>1, <2>2 DEF TaskSound, ServerSide, Growing
    <2> QED
      BY <1>b, <2>1, <2>2, <2>3
  <1>13. ASSUME NEW t \in Task,
                List(t) \/ Sweep(t) \/ SweepFails(t) \/ \E f \in File : Write(t, f)
         PROVE  Inv' /\ Growing
    <2>1. ServerSide /\ base' = base
      BY <1>13, LocalServer DEF List, Sweep, SweepFails, SweepBut, Write, localVars
    <2>2. /\ DOMAIN task' = Task /\ \A s \in Task \ {t} : task'[s] = task[s]
          /\ DOMAIN task'[t] = DOMAIN Idle /\ task'[t].pc \in {"write", "adopt"}
          /\ task'[t].goal = task[t].goal /\ task'[t].target = task[t].target
          /\ task[t].pc \in {"list", "write"}
      BY <1>0, <1>13 DEF List, Sweep, SweepFails, SweepBut, Write, Goto, Idle
    <2>3. TaskSound(t)'
      BY <1>0, <2>1, <2>2, OnwardSound DEF ServerSide
    <2> QED
      BY <1>b, <2>1, <2>2, <2>3
  <1>14. ASSUME NEW t \in Task, Adopt(t) PROVE Inv' /\ Growing
    <2> DEFINE v == task[t].target
    <2>1. /\ ServerSide /\ versions' = versions
          /\ DOMAIN task' = Task /\ \A s \in Task \ {t} : task'[s] = task[s]
          /\ task'[t] = Idle
      BY <1>0, <1>14, LocalServer DEF Adopt, versionVars
    <2>2. v \in DOMAIN versions
      BY <1>0, <1>14 DEF Adopt, TaskSound
    <2>3. TaskDevice[t] \in Device /\ versions[v].blob.files \in Declared(TaskDevice[t])'
      BY <2>1, <2>2 DEF Declared
    <2>4. BaseSound' /\ BaseDurable'
      BY <1>14, <2>1, <2>3, PutSound DEF Adopt, ServerSide
    <2> QED
      BY <2>1, <2>4, Others, IdleSound DEF ServerSide, Inv
  <1>15. ASSUME NEW d \in Device, NEW id \in VersionId, RetrySend(d, id)
         PROVE  Inv' /\ Growing
    BY <1>a, <1>15, RetryServer DEF Inv, RetrySend, localVars
  <1>16. ASSUME NEW d \in Device, RetryHead(d) PROVE Inv' /\ Growing
    <2>1. ServerSide /\ task' = task
      BY <1>16, RetryServer DEF Inv, RetryHead
    <2>2. CASE base[d] = NULL
      BY <1>a, <1>16, <2>1, <2>2 DEF RetryHead
    <2>3. CASE base[d] # NULL
      <3>1. /\ DOMAIN base' = Device
            /\ base'[d] = [base[d] EXCEPT !.head = retry[d].ver]
            /\ \A c \in Device \ {d} : base'[c] = base[c]
        BY <1>16, <2>3 DEF RetryHead, Inv, BaseSound
      <3>2. DOMAIN base[d] = {"files", "head"}
        BY <2>3 DEF Inv, BaseSound
      <3>3. base'[d].files = base[d].files /\ DOMAIN base'[d] = {"files", "head"}
        BY <3>1, <3>2
      <3>4. BaseSound'
        BY <3>1, <3>3 DEF BaseSound, Inv
      <3>5. BaseDurable'
        BY <2>1, <2>3, <3>1, <3>3 DEF BaseDurable, Inv, ServerSide, Growing
      <3> QED
        BY <1>0, <2>1, <3>4, <3>5, TaskStays DEF ServerSide, Inv
    <2> QED
      BY <2>2, <2>3
  <1>17. ASSUME NEW d \in Device, RetryRemove(d) PROVE Inv' /\ Growing
    BY <1>a, <1>17, RemoveServer DEF Inv, RetryRemove
  <1>18. ASSUME NEW d \in Device,
                \/ RetryRefused(d) \/ RetryFails(d)
                \/ \E id \in VersionId : RetryAnswerLost(d, id)
         PROVE  Inv' /\ Growing
    <2>1. Postpone(d) /\ UNCHANGED <<task, base>>
      BY <1>18 DEF RetryRefused, RetryFails, RetryAnswerLost, Postpone
    <2>2. /\ RowsSound' /\ Stored \subseteq Stored'
          /\ DOMAIN versions \subseteq DOMAIN versions'
      <3>1. CASE RetryRefused(d) \/ RetryFails(d)
        BY <3>1, SameStored DEF RetryRefused, RetryFails, Inv
      <3>2. ASSUME NEW id \in VersionId, RetryAnswerLost(d, id)
            PROVE  /\ RowsSound' /\ Stored \subseteq Stored'
                   /\ DOMAIN versions \subseteq DOMAIN versions'
        <4>1. outbox[d] # << >> /\ CreateVersion(id, Head(outbox[d]))
          BY <3>2 DEF RetryAnswerLost, Postpone
        <4>2. Head(outbox[d]).game = game
          BY <4>1, TailKeeps DEF Inv, QueueSound
        <4> QED
          BY <4>1, <4>2, CreateStores DEF Inv
      <3> QED
        BY <1>18, <3>1, <3>2
    <2>3. ServerSide
      BY <2>1, <2>2, PostponeServer DEF Inv
    <2> QED
      BY <1>a, <2>1, <2>3
  <1>19. ASSUME NEW w \in VersionId, Resolve(w) PROVE Inv' /\ Growing
    <2>1. UNCHANGED <<versions, minted, outbox, retry, task, base>>
      BY <1>19 DEF Resolve, ResolveConflict, localVars
    <2>2. RowsSound' /\ Stored' = Stored
      BY <2>1 DEF RowsSound, Stored, Inv
    <2> QED
      BY <1>a, <2>1, <2>2, QuietServer DEF Inv
  <1>20. ASSUME NEW d \in Device, Crash(d) PROVE Inv' /\ Growing
    <2>1. ServerSide /\ base' = base
      BY <1>20, RetryServer DEF Inv, Crash, localVars
    <2>2. /\ DOMAIN task' = Task
          /\ \A t \in Task : task'[t] = Idle \/ task'[t] = task[t]
      BY <1>20 DEF Crash
    <2>3. \A t \in Task : TaskSound(t)'
      BY <1>0, <2>1, <2>2, IdleSound, TaskStays DEF ServerSide
    <2> QED
      BY <2>1, <2>2, <2>3, BaseStays DEF ServerSide, Inv
  <1>21. CASE UNCHANGED vars
    BY <1>a, <1>21, LocalServer DEF vars, localVars
  <1> QED
    BY <1>1, <1>2, <1>3, <1>4, <1>5, <1>6, <1>7, <1>8, <1>9, <1>10, <1>11,
       <1>12, <1>13, <1>14, <1>15, <1>16, <1>17, <1>18, <1>19, <1>20, <1>21
       DEF Next, BackupStep, RestoreStep, RetryStep, Faulty

LEMMA InitSound == Init => Inv
  <1> SUFFICES ASSUME Init PROVE Inv
    OBVIOUS
  <1>1. RowsSound
    BY DEF Init, VersionsInit, RowsSound
  <1>2. QueueSound
    <2>1. IsQueue(<< >>)
      BY EmptySeq DEF IsQueue
    <2> QED
      BY <2>1 DEF Init, QueueSound, RetryIdle
  <1>3. DOMAIN task = Task /\ \A t \in Task : TaskSound(t)
    BY DEF Init, TaskSound, Idle
  <1>4. BaseSound /\ BaseDurable
    BY DEF Init, BaseSound, BaseDurable
  <1> QED
    BY <1>1, <1>2, <1>3, <1>4 DEF Inv

\* What a device believes backed up, and so will not back up again, is on the
\* server or in its outbox, through failed uploads, lost answers, retries and
\* a crash between any two writes, for any number of unsynchronised tasks
\* (queue_backup, retry_outbox, run_restore).
THEOREM BaseDurableHolds == Spec => []BaseDurable
  <1>1. Inv => BaseDurable
    BY DEF Inv
  <1> QED
    BY <1>1, InitSound, NextSound, PTL DEF Spec

\* A step never loses a listing that was stored or queued.
NothingLost == [][\A d \in Device : Declared(d) \subseteq Declared(d)']_vars

\* A backup that reached the server or an outbox stays on the server or in that
\* outbox: an item leaves its queue only after its version is stored
\* (retry_outbox, remove_outbox).
THEOREM NothingLostHolds == Spec => NothingLost
  <1>1. Inv /\ [Next]_vars =>
          [\A d \in Device : Declared(d) \subseteq Declared(d)']_vars
    BY NextSound DEF Growing
  <1> QED
    BY <1>1, InitSound, NextSound, PTL DEF Spec, NothingLost

-----------------------------------------------------------------------------
(***************************************************************************)
(* What unpacking a chain yields.  Rebuilt is defined by recursion over the*)
(* parents of differentials, which have smaller seqs.  A solution is given *)
(* outright: of each file, what the nearest archive of the chain says; what*)
(* holds of every chain is shown for a version of least seq.               *)
(***************************************************************************)
\* Every nonempty set of naturals has a least element.
LEMMA Least ==
  ASSUME NEW S, S \subseteq Nat, S # {}
  PROVE  \E m \in S : \A n \in S : m <= n
  <1>1. PICK m \in S : \A n \in S : ~(<<n, m>> \in OpToRel(<, Nat))
    BY NatLessThanWellFounded, WFMin
  <1>2. \A n \in S : ~(n < m)
    BY <1>1 DEF OpToRel
  <1> QED
    BY <1>2

\* Differentials have a live parent of smaller seq.
Linked(vs) ==
    /\ \A v \in DOMAIN vs : vs[v].seq \in Nat
    /\ \A v \in DOMAIN vs : vs[v].kind # "full" =>
          vs[v].parent \in DOMAIN vs /\ vs[vs[v].parent].seq < vs[v].seq

Unpacked(vs, g, v) ==
    IF vs[v].kind = "full" THEN vs[v].blob.data
    ELSE Overlay(g[vs[v].parent], vs[v].blob.data)

\* A version and the versions its chain goes through.
ClosedIn(vs, C) == \A v \in C : vs[v].kind # "full" => vs[v].parent \in C

Chain(vs, v) ==
    {u \in DOMAIN vs : \A C \in SUBSET DOMAIN vs : v \in C /\ ClosedIn(vs, C) => u \in C}

\* What the nearest archive of the chain that mentions f says of it.
Nearest(vs, v, f) ==
    {x \in Val \cup {Absent} : \E u \in Chain(vs, v) :
        /\ vs[u].blob.data[f] = x
        /\ \A w \in Chain(vs, v) : vs[w].blob.data[f] # Kept => vs[w].seq <= vs[u].seq}

LEMMA ChainOf ==
  ASSUME NEW vs, Linked(vs), NEW v \in DOMAIN vs
  PROVE  /\ v \in Chain(vs, v)
         /\ \A u \in Chain(vs, v) : u \in DOMAIN vs /\ vs[u].seq <= vs[v].seq
         /\ vs[v].kind # "full" =>
               /\ Chain(vs, v) = {v} \cup Chain(vs, vs[v].parent)
               /\ vs[v].parent \in DOMAIN vs
               /\ \A u \in Chain(vs, vs[v].parent) : vs[u].seq < vs[v].seq
         /\ vs[v].kind = "full" => Chain(vs, v) = {v}
  <1>0. v \in Chain(vs, v) /\ Chain(vs, v) \subseteq DOMAIN vs
    BY DEF Chain
  <1>1. ASSUME NEW w \in DOMAIN vs
        PROVE  \A u \in Chain(vs, w) : u \in DOMAIN vs /\ vs[u].seq <= vs[w].seq
    <2> DEFINE C == {u \in DOMAIN vs : vs[u].seq <= vs[w].seq}
    <2>1. w \in C /\ ClosedIn(vs, C) /\ C \in SUBSET DOMAIN vs
      BY DEF Linked, ClosedIn
    <2> QED
      BY <2>1 DEF Chain
  <1>2. ASSUME vs[v].kind # "full"
        PROVE  /\ Chain(vs, v) = {v} \cup Chain(vs, vs[v].parent)
               /\ vs[v].parent \in DOMAIN vs
               /\ \A u \in Chain(vs, vs[v].parent) : vs[u].seq < vs[v].seq
    <2> DEFINE p == vs[v].parent
               C == {v} \cup Chain(vs, p)
    <2>1. p \in DOMAIN vs /\ vs[p].seq < vs[v].seq
      BY <1>2 DEF Linked
    <2>2. Chain(vs, p) \subseteq Chain(vs, v)
      BY <1>2 DEF Chain, ClosedIn
    <2>3. ClosedIn(vs, Chain(vs, p)) /\ p \in Chain(vs, p)
      BY <2>1 DEF Chain, ClosedIn, Linked
    <2>4. ClosedIn(vs, C) /\ v \in C /\ C \in SUBSET DOMAIN vs
      BY <2>3 DEF ClosedIn, Chain
    <2>5. Chain(vs, v) \subseteq C
      BY <2>4 DEF Chain
    <2>6. \A u \in Chain(vs, p) : vs[u].seq < vs[v].seq
      BY <1>1, <2>1 DEF Linked
    <2> QED
      BY <1>0, <2>1, <2>2, <2>5, <2>6
  <1>3. ASSUME vs[v].kind = "full" PROVE Chain(vs, v) = {v}
    <2>1. ClosedIn(vs, {v})
      BY <1>3 DEF ClosedIn
    <2> QED
      BY <1>0, <2>1 DEF Chain
  <1> QED
    BY <1>0, <1>1, <1>2, <1>3

\* What archives of versions look like: a full one says something of every file.
Archives(vs) ==
    \A v \in DOMAIN vs :
        /\ vs[v].blob.data \in [File -> Val \cup {Absent, Kept}]
        /\ vs[v].kind = "full" => vs[v].blob.data \in Content

LEMMA NearestOf ==
  ASSUME NEW vs, Linked(vs), Archives(vs), NEW v \in DOMAIN vs, NEW f \in File
  PROVE  /\ vs[v].blob.data[f] # Kept => Nearest(vs, v, f) = {vs[v].blob.data[f]}
         /\ vs[v].blob.data[f] = Kept =>
               /\ vs[v].kind # "full" /\ vs[v].parent \in DOMAIN vs
               /\ Nearest(vs, v, f) = Nearest(vs, vs[v].parent, f)
  <1> DEFINE p == vs[v].parent
             D(u) == vs[u].blob.data[f]
  <1>0. \A u \in DOMAIN vs : D(u) \in Val \cup {Absent, Kept}
    BY DEF Archives
  <1>k. Kept \notin Val \cup {Absent}
    BY MarkAssumption
  <1>1. ASSUME D(v) # Kept PROVE Nearest(vs, v, f) = {D(v)}
    <2>0. D(v) \in Val \cup {Absent}
      BY <1>0, <1>1
    <2>1. D(v) \in Nearest(vs, v, f)
      BY <2>0, ChainOf DEF Nearest
    <2>2. ASSUME NEW x \in Nearest(vs, v, f) PROVE x = D(v)
      <3>1. PICK u \in Chain(vs, v) : D(u) = x /\ vs[v].seq <= vs[u].seq
        BY <1>1, ChainOf DEF Nearest
      <3>2. CASE vs[v].kind = "full"
        BY <3>1, <3>2, ChainOf
      <3>3. CASE vs[v].kind # "full"
        <4>1. u = v \/ (u \in DOMAIN vs /\ vs[u].seq < vs[v].seq)
          BY <3>1, <3>3, ChainOf
        <4> QED
          BY <3>1, <4>1 DEF Linked
      <3> QED
        BY <3>2, <3>3
    <2> QED
      BY <2>1, <2>2
  <1>2. ASSUME D(v) = Kept
        PROVE  /\ vs[v].kind # "full" /\ p \in DOMAIN vs
               /\ Nearest(vs, v, f) = Nearest(vs, p, f)
    <2>1. vs[v].kind # "full"
      BY <1>2, <1>k DEF Archives, Content
    <2>2. p \in DOMAIN vs /\ Chain(vs, v) = {v} \cup Chain(vs, p)
      BY <2>1, ChainOf
    <2> HIDE DEF p
    <2>3. ASSUME NEW x \in Val \cup {Absent}
          PROVE  x \in Nearest(vs, v, f) <=> x \in Nearest(vs, p, f)
      <3>0. x # Kept
        BY <1>k
      <3>1. ASSUME x \in Nearest(vs, v, f) PROVE x \in Nearest(vs, p, f)
        <4>1. PICK u \in Chain(vs, v) : /\ D(u) = x
                 /\ \A w \in Chain(vs, v) : D(w) # Kept => vs[w].seq <= vs[u].seq
          BY <3>1 DEF Nearest
        <4>2. u \in Chain(vs, p)
          BY <1>2, <2>2, <3>0, <4>1
        <4> QED
          BY <2>2, <4>1, <4>2 DEF Nearest
      <3>2. ASSUME x \in Nearest(vs, p, f) PROVE x \in Nearest(vs, v, f)
        <4>1. PICK u \in Chain(vs, p) : /\ D(u) = x
                 /\ \A w \in Chain(vs, p) : D(w) # Kept => vs[w].seq <= vs[u].seq
          BY <3>2 DEF Nearest
        <4>2. \A w \in Chain(vs, v) : D(w) # Kept => vs[w].seq <= vs[u].seq
          BY <1>2, <2>2, <4>1
        <4> QED
          BY <2>2, <4>1, <4>2 DEF Nearest
      <3> QED
        BY <3>1, <3>2
    <2> QED
      BY <2>1, <2>2, <2>3 DEF Nearest, p
  <1> QED
    BY <1>1, <1>2

\* The recursion of Rebuilt has a solution, so Rebuilt is one.
LEMMA RebuiltExists ==
  ASSUME NEW vs, Linked(vs), Archives(vs)
  PROVE  \E g : g = [v \in DOMAIN vs |-> Unpacked(vs, g, v)]
  <1> DEFINE Some(S) == CHOOSE x : x \in S
             g == [v \in DOMAIN vs |-> [f \in File |-> Some(Nearest(vs, v, f))]]
  <1>0. \A x : Some({x}) = x
    OBVIOUS
  <1> HIDE DEF Some
  <1>1. ASSUME NEW v \in DOMAIN vs PROVE g[v] = Unpacked(vs, g, v)
    <2> DEFINE D == vs[v].blob.data
    <2>0. g[v] = [f \in File |-> Some(Nearest(vs, v, f))]
      OBVIOUS
    <2>1. D \in [File -> Val \cup {Absent, Kept}]
      BY DEF Archives
    <2>2. \A f \in File : D[f] # Kept => g[v][f] = D[f]
      BY <1>0, <2>0, NearestOf
    <2>3. CASE vs[v].kind = "full"
      <3>1. \A f \in File : D[f] # Kept
        BY <2>3, MarkAssumption DEF Archives, Content
      <3>2. g[v] = D
        BY <2>0, <2>1, <2>2, <3>1
      <3> QED
        BY <2>3, <3>2 DEF Unpacked
    <2>4. CASE vs[v].kind # "full"
      <3>1. vs[v].parent \in DOMAIN vs
        BY <2>4 DEF Linked
      <3>2. \A f \in File : D[f] = Kept => g[v][f] = g[vs[v].parent][f]
        BY <3>1, NearestOf
      <3>3. g[v] = Overlay(g[vs[v].parent], D)
        BY <2>0, <2>2, <3>2 DEF Overlay
      <3> QED
        BY <2>4, <3>3 DEF Unpacked
    <2> QED
      BY <2>3, <2>4
  <1>2. g = [v \in DOMAIN vs |-> Unpacked(vs, g, v)]
    BY <1>1
  <1> QED
    BY <1>2

LEMMA RebuiltSolves ==
  ASSUME Linked(versions), Archives(versions)
  PROVE  /\ DOMAIN Rebuilt = DOMAIN versions
         /\ \A v \in DOMAIN versions : Rebuilt[v] = Unpacked(versions, Rebuilt, v)
  <1>1. \E g : g = [v \in DOMAIN versions |-> Unpacked(versions, g, v)]
    BY RebuiltExists
  <1>2. Rebuilt = [v \in DOMAIN versions |-> Unpacked(versions, Rebuilt, v)]
    BY <1>1 DEF Rebuilt, Unpacked
  <1> QED
    BY <1>2

-----------------------------------------------------------------------------
(***************************************************************************)
(* Types                                                                   *)
(***************************************************************************)
\* The requests that the daemons make: a full archive says something of every
\* file, a differential names its parent.
GoodRequest ==
    {r \in Request : /\ r.game = game
                     /\ r.kind = "full" => r.blob.data \in Content
                     /\ r.kind # "full" => r.parent # NULL}

ServerTyped ==
    /\ VersionsTypeOK
    /\ Linked(versions) /\ Archives(versions)
    /\ \A v \in DOMAIN versions : versions[v].game = game

LocalTyped ==
    /\ disk \in [Device -> Content]
    /\ base \in [Device -> Base \cup {NULL}]
    /\ unconf \in [Device -> {0, 1}]
    /\ diffs \in [Device -> Nat]
    /\ outbox \in [Device -> Seq(GoodRequest)]
    /\ retry \in [Device -> [pc : {"idle", "head", "remove"},
                             ver : VersionId \cup {NULL}]]
    /\ saves \in 0..MaxSaves /\ fails \in 0..MaxFail /\ crashes \in 0..MaxCrash

Uploading == {"send", "settle", "confirm", "count", "enqueue", "queuebase", "queueflag"}

\* What a task holds at each of its steps.
Holds(r) ==
    /\ r \in TaskState
    /\ r.pc = "pack" \/ r.pc \in Uploading => r.snap \in Content
    /\ r.pc \in Uploading => r.req \in GoodRequest
    /\ r.pc \in {"write", "adopt"} => r.merged \in Content

TasksTyped ==
    /\ DOMAIN task = Task /\ task = [t \in Task |-> task[t]]
    /\ \A t \in Task : Holds(task[t])

Typed == ServerTyped /\ LocalTyped /\ TasksTyped

LEMMA TypedOK == Typed => TypeOK
  <1> SUFFICES ASSUME Typed PROVE TypeOK
    OBVIOUS
  <1>1. task \in [Task -> TaskState]
    BY DEF Typed, TasksTyped, Holds
  <1>2. outbox \in [Device -> Seq(Request)]
    <2>1. GoodRequest \subseteq Request
      BY DEF GoodRequest
    <2>2. \A d \in Device : outbox[d] \in Seq(Request)
      BY <2>1, SeqMonotonic DEF Typed, LocalTyped
    <2> QED
      BY <2>2 DEF Typed, LocalTyped
  <1> QED
    BY <1>1, <1>2 DEF Typed, ServerTyped, LocalTyped, TypeOK

-----------------------------------------------------------------------------
LEMMA CreateTyped ==
  ASSUME RowsSound, ServerTyped, NEW id \in VersionId, NEW req \in GoodRequest,
         CreateVersion(id, req)
  PROVE  ServerTyped'
  <1>0. /\ req \in Request /\ req.game = game
        /\ req.kind = "full" => req.blob.data \in Content
        /\ req.kind # "full" => req.parent # NULL
    BY DEF GoodRequest
  <1>1. id \notin DOMAIN versions
    BY DEF RowsSound, CreateVersion, Fresh
  <1>2. PICK n \in {0} \cup {versions[v].seq : v \in Rows(game)} :
          /\ IsMaxSeq(game, n)
          /\ versions' = [v \in DOMAIN versions \cup {id} |->
                            IF v = id
                            THEN [game |-> game, parent |-> req.parent,
                                  kind |-> req.kind, blob |-> req.blob,
                                  seq |-> n + 1]
                            ELSE versions[v]]
    BY <1>0 DEF CreateVersion
  <1>3. n \in Nat /\ \A v \in DOMAIN versions : versions[v].seq <= n
    BY <1>2 DEF ServerTyped, Rows, IsMaxSeq, Linked
  <1> DEFINE row == [game |-> game, parent |-> req.parent, kind |-> req.kind,
                     blob |-> req.blob, seq |-> n + 1]
  <1>4. /\ row \in VersionRow
        /\ row.game = game /\ row.kind = req.kind /\ row.parent = req.parent
        /\ row.blob = req.blob /\ row.seq = n + 1
    BY <1>0, <1>3 DEF Request, VersionRow
  <1>5. /\ DOMAIN versions' = DOMAIN versions \cup {id} /\ versions'[id] = row
        /\ \A v \in DOMAIN versions : versions'[v] = versions[v]
        /\ versions' = [v \in DOMAIN versions \cup {id} |-> versions'[v]]
    BY <1>1, <1>2
  <1> HIDE DEF row
  <1>6. VersionsTypeOK'
    <2>1. DOMAIN versions' \subseteq VersionId
      BY <1>5 DEF ServerTyped, VersionsTypeOK
    <2>2. \A v \in DOMAIN versions' : versions'[v] \in VersionRow
      BY <1>4, <1>5 DEF ServerTyped, VersionsTypeOK
    <2>3. versions' \in [DOMAIN versions' -> VersionRow]
      BY <1>5, <2>2
    <2>4. head' \in [Game -> VersionId \cup {NULL}] /\ losers' \subseteq VersionId
      BY DEF CreateVersion, ServerTyped, VersionsTypeOK
    <2>5. minted' \in [Game -> SUBSET VersionId]
      BY DEF CreateVersion, ServerTyped, VersionsTypeOK
    <2> QED
      BY <2>1, <2>3, <2>4, <2>5 DEF VersionsTypeOK
  <1>7. Linked(versions)'
    <2>1. req.parent \in DOMAIN versions \cup {NULL}
      BY DEF CreateVersion, ParentExists
    <2>2. \A v \in DOMAIN versions' : versions'[v].seq \in Nat
      BY <1>3, <1>4, <1>5 DEF ServerTyped, Linked
    <2>3. req.kind # "full" => /\ req.parent \in DOMAIN versions
                               /\ versions[req.parent].seq < n + 1
      BY <1>0, <1>3, <2>1 DEF ServerTyped, Linked
    <2>4. ASSUME NEW v \in DOMAIN versions', versions'[v].kind # "full"
          PROVE  /\ versions'[v].parent \in DOMAIN versions'
                 /\ versions'[versions'[v].parent].seq < versions'[v].seq
      <3>1. CASE v = id
        BY <1>4, <1>5, <2>3, <2>4, <3>1
      <3>2. CASE v # id
        <4>1. v \in DOMAIN versions /\ versions'[v] = versions[v]
          BY <1>5, <3>2
        <4>2. /\ versions[v].parent \in DOMAIN versions
              /\ versions[versions[v].parent].seq < versions[v].seq
          BY <2>4, <4>1 DEF ServerTyped, Linked
        <4> QED
          BY <1>5, <4>1, <4>2
      <3> QED
        BY <3>1, <3>2
    <2> QED
      BY <2>2, <2>4 DEF Linked
  <1>8. Archives(versions)'
    <2>1. req.blob.data \in [File -> Val \cup {Absent, Kept}]
      BY <1>0, ArchiveAssumption DEF Request, Archive
    <2> QED
      BY <1>0, <1>4, <1>5, <2>1 DEF ServerTyped, Archives
  <1>9. \A v \in DOMAIN versions' : versions'[v].game = game
    BY <1>4, <1>5 DEF ServerTyped
  <1> QED
    BY <1>6, <1>7, <1>8, <1>9 DEF ServerTyped

LEMMA SameServer ==
  ASSUME ServerTyped, UNCHANGED versionVars PROVE ServerTyped'
  BY DEF ServerTyped, versionVars, VersionsTypeOK

\* What unpacking a chain yields is a save.
LEMMA RebuiltTyped ==
  ASSUME ServerTyped PROVE \A v \in DOMAIN versions : Rebuilt[v] \in Content
  <1> DEFINE Bad == {v \in DOMAIN versions : Rebuilt[v] \notin Content}
             Seqs == {versions[v].seq : v \in Bad}
  <1> SUFFICES ASSUME Bad # {} PROVE FALSE
    OBVIOUS
  <1>0. Linked(versions) /\ Archives(versions)
    BY DEF ServerTyped
  <1>1. Seqs \subseteq Nat /\ Seqs # {}
    BY <1>0 DEF Linked
  <1>2. PICK v \in Bad : \A u \in Bad : versions[v].seq <= versions[u].seq
    <2>1. PICK m \in Seqs : \A n \in Seqs : m <= n
      BY <1>1, Least
    <2> QED
      BY <2>1
  <1> DEFINE D == versions[v].blob.data
             p == versions[v].parent
  <1>3. Rebuilt[v] = Unpacked(versions, Rebuilt, v)
    BY <1>0, RebuiltSolves
  <1>4. versions[v].kind # "full" /\ D \in [File -> Val \cup {Absent, Kept}]
    BY <1>0, <1>3 DEF Unpacked, Archives
  <1>5. p \in DOMAIN versions /\ versions[p].seq < versions[v].seq
        /\ versions[v].seq \in Nat /\ versions[p].seq \in Nat
    BY <1>0, <1>4 DEF Linked
  <1>6. Rebuilt[p] \in Content
    BY <1>2, <1>5
  <1>7. Rebuilt[v] = Overlay(Rebuilt[p], D)
    BY <1>3, <1>4 DEF Unpacked
  <1>8. Overlay(Rebuilt[p], D) \in Content
    BY <1>4, <1>6 DEF Overlay, Content
  <1> QED
    BY <1>7, <1>8

-----------------------------------------------------------------------------
LEMMA IdleHolds == Holds(Idle)
  BY DEF Holds, Idle, TaskState, TaskPc, Uploading

\* A step of one task.
LEMMA TaskTo ==
  ASSUME TasksTyped, NEW t \in Task, NEW r, task' = [task EXCEPT ![t] = r]
  PROVE  /\ task'[t] = r /\ \A s \in Task \ {t} : task'[s] = task[s]
         /\ Holds(r) => TasksTyped'
  BY DEF TasksTyped

LEMMA GotoHolds ==
  ASSUME NEW r, Holds(r), NEW pc \in TaskPc,
         \/ pc \in {"scan", "idle", "list"}
         \/ pc \in Uploading /\ r.pc \in Uploading
         \/ pc = "adopt" /\ r.pc = "write"
  PROVE  Holds([r EXCEPT !.pc = pc])
  BY DEF Holds, TaskState, Uploading

LEMMA ToList ==
  ASSUME NEW r, Holds(r), NEW a \in {"none", "created", "conflict", "queued"}
  PROVE  Holds([Idle EXCEPT !.pc = "list", !.goal = r.goal,
                            !.target = r.target, !.answer = a])
  <1>1. PICK g \in {"backup", "restore", "pull"} : g = r.goal
    BY DEF Holds, TaskState
  <1>2. PICK v \in VersionId \cup {NULL} : v = r.target
    BY DEF Holds, TaskState
  <1> DEFINE e == [Idle EXCEPT !.pc = "list", !.goal = g, !.target = v, !.answer = a]
  <1>3. e \in TaskState
    BY DEF Idle, TaskState, TaskPc
  <1>4. e.pc = "list"
    BY DEF Idle
  <1> HIDE DEF e
  <1>5. Holds(e)
    BY <1>3, <1>4 DEF Holds, Uploading
  <1> QED
    BY <1>1, <1>2, <1>5 DEF e

LEMMA OverTyped ==
  ASSUME TasksTyped, NEW t \in Task, NEW a \in {"none", "created", "conflict", "queued"},
         BackupOver(t, a)
  PROVE  TasksTyped'
  <1>1. Holds(task[t])
    BY DEF TasksTyped
  <1>2. Holds([Idle EXCEPT !.pc = "list", !.goal = task[t].goal,
                           !.target = task[t].target, !.answer = a])
    BY <1>1, ToList
  <1> DEFINE l == [Idle EXCEPT !.pc = "list", !.goal = task[t].goal,
                           !.target = task[t].target, !.answer = a]
             r == IF task[t].goal = "backup" THEN Idle ELSE l
  <1>3. task' = [task EXCEPT ![t] = r]
    BY DEF BackupOver, TasksTyped
  <1>4. Holds(r)
    BY <1>2, IdleHolds
  <1> HIDE DEF r
  <1> QED
    BY <1>3, <1>4, TaskTo

USE SyncBoundsAssumption

\* The archive a task packs, when every file it must read is there.
LEMMA PackTyped ==
  ASSUME Typed, NEW t \in Task, task[t].pc = "pack",
         \A f \in Packed(t) : disk[TaskDevice[t]][f] # Absent
  PROVE  [game |-> game,
          parent |-> IF task[t].last = NULL THEN NULL ELSE task[t].last.head,
          kind |-> KindOf(t),
          blob |-> [files |-> task[t].snap, data |-> PackData(t)]] \in GoodRequest
  <1> DEFINE now == disk[TaskDevice[t]]
             snap == task[t].snap
             last == task[t].last
             up == IF last = NULL THEN NULL ELSE last.head
  <1>1. now \in Content /\ snap \in Content /\ last \in Base \cup {NULL}
    BY DEF Typed, LocalTyped, TasksTyped, Holds, TaskState
  <1>2. up \in VersionId \cup {NULL}
    BY <1>1 DEF Base
  <1>3. KindOf(t) \in Kind
    BY DEF KindOf, Kind
  <1>4. KindOf(t) # "full" => last # NULL /\ last.head # NULL
    BY DEF KindOf
  <1>5. KindOf(t) = "full" => PackData(t) = FullData(snap, now)
    BY DEF PackData
  <1>6. KindOf(t) # "full" => PackData(t) = DiffData(last.files, snap, now)
    BY DEF PackData
  <1> HIDE DEF now, snap, last
  <1>7. FullData(snap, now) \in Content
    BY <1>1 DEF FullData, Content
  <1>8. DiffData(last.files, snap, now) \in [File -> Val \cup {Absent, Kept}]
    BY <1>1 DEF DiffData, Content
  <1>9. KindOf(t) = "full" => PackData(t) \in Content
    BY <1>5, <1>7
  <1>10. PackData(t) \in [File -> Val \cup {Absent, Kept}]
    BY <1>5, <1>6, <1>7, <1>8 DEF Content
  <1> DEFINE b == [files |-> snap, data |-> PackData(t)]
  <1>11. b \in Hash /\ b.data = PackData(t)
    BY <1>1, <1>10, ArchiveAssumption DEF Archive
  <1> HIDE DEF b, up
  <1> DEFINE r == [game |-> game, parent |-> up, kind |-> KindOf(t), blob |-> b]
  <1>12. r \in Request /\ r.game = game /\ r.kind = KindOf(t) /\ r.parent = up /\ r.blob = b
    BY <1>2, <1>3, <1>11 DEF Request
  <1>13. KindOf(t) # "full" => up # NULL
    BY <1>4 DEF up
  <1> HIDE DEF r
  <1>14. r \in GoodRequest
    BY <1>9, <1>11, <1>12, <1>13 DEF GoodRequest
  <1> QED
    BY <1>14 DEF r, b, up, snap, last

LEMMA NextTyped == Inv /\ Typed /\ [Next]_vars => Typed'
  <1> SUFFICES ASSUME Inv, Typed, [Next]_vars PROVE Typed'
    OBVIOUS
  <1>0. ServerTyped /\ LocalTyped /\ TasksTyped
    BY DEF Typed
  <1>s. UNCHANGED versionVars => ServerTyped'
    BY <1>0, SameServer
  <1>t. task' = task => TasksTyped'
    BY <1>0 DEF TasksTyped
  <1>d. \A t \in Task : TaskDevice[t] \in Device
    OBVIOUS
  <1>c. \A t \in Task : Holds(task[t]) /\ task[t] \in TaskState
    BY <1>0 DEF TasksTyped, Holds
  <1>r. RowsSound
    BY DEF Inv
  <1>1. ASSUME NEW d \in Device, NEW f \in File, NEW x \in Val \cup {Absent},
               Save(d, f, x)
        PROVE  Typed'
    <2>1. [disk[d] EXCEPT ![f] = x] \in Content
      BY <1>0 DEF LocalTyped, Content
    <2>2. disk' \in [Device -> Content]
      BY <1>0, <1>1, <2>1 DEF LocalTyped, Save
    <2>3. LocalTyped'
      BY <1>0, <1>1, <2>2 DEF LocalTyped, Save, localVars
    <2> QED
      BY <1>1, <1>s, <1>t, <2>3 DEF Typed, Save
  <1>2. ASSUME NEW t \in Task, StartBackup(t) PROVE Typed'
    <2>1. task' = [task EXCEPT ![t] = [task[t] EXCEPT !.pc = "scan"]]
      BY <1>2 DEF StartBackup, Goto
    <2>2. Holds([task[t] EXCEPT !.pc = "scan"])
      BY <1>c, GotoHolds DEF TaskPc
    <2>3. LocalTyped'
      BY <1>0, <1>2 DEF LocalTyped, StartBackup, localVars, faultVars
    <2> QED
      BY <1>0, <1>2, <1>s, <2>1, <2>2, <2>3, TaskTo DEF Typed, StartBackup
  <1>3. ASSUME NEW t \in Task, NEW goal \in {"restore", "pull"},
               NEW v \in VersionId, StartRestore(t, goal, v)
        PROVE  Typed'
    <2> DEFINE r == [Idle EXCEPT !.pc = "scan", !.goal = goal, !.target = v]
    <2>1. task' = [task EXCEPT ![t] = r]
      BY <1>3 DEF StartRestore
    <2>2. Holds(r)
      BY DEF Holds, Idle, TaskState, TaskPc, Uploading
    <2>3. LocalTyped'
      BY <1>0, <1>3 DEF LocalTyped, StartRestore, localVars, faultVars
    <2> HIDE DEF r
    <2> QED
      BY <1>0, <1>3, <1>s, <2>1, <2>2, <2>3, TaskTo DEF Typed, StartRestore
  <1>4. ASSUME NEW t \in Task, Scan(t) PROVE Typed'
    <2>1. LocalTyped'
      BY <1>0, <1>4 DEF LocalTyped, Scan, localVars, faultVars
    <2>2. CASE BackupOver(t, "none")
      BY <1>0, <1>4, <1>s, <2>1, <2>2, OverTyped DEF Typed, Scan
    <2>3. CASE task' = [task EXCEPT ![t].pc = "pack",
                                    ![t].snap = disk[TaskDevice[t]],
                                    ![t].last = base[TaskDevice[t]]]
      <3> DEFINE x == disk[TaskDevice[t]]
                 y == base[TaskDevice[t]]
                 r == [task[t] EXCEPT !.pc = "pack", !.snap = x, !.last = y]
      <3>1. task' = [task EXCEPT ![t] = r]
        BY <2>3
      <3>2. x \in Content /\ y \in Base \cup {NULL}
        BY <1>0, <1>d DEF LocalTyped
      <3> HIDE DEF x, y
      <3>3. Holds(r)
        BY <1>c, <3>2 DEF Holds, TaskState, TaskPc, Uploading
      <3> HIDE DEF r
      <3> QED
        BY <1>0, <1>4, <1>s, <2>1, <3>1, <3>3, TaskTo DEF Typed, Scan
    <2> QED
      BY <1>4, <2>2, <2>3 DEF Scan
  <1>5. ASSUME NEW t \in Task, Pack(t) PROVE Typed'
    <2>1. LocalTyped'
      BY <1>0, <1>5 DEF LocalTyped, Pack, localVars, faultVars
    <2> DEFINE n == diffs[TaskDevice[t]]
               q == [game |-> game,
                     parent |-> IF task[t].last = NULL THEN NULL ELSE task[t].last.head,
                     kind |-> KindOf(t),
                     blob |-> [files |-> task[t].snap, data |-> PackData(t)]]
               r == [task[t] EXCEPT !.pc = "send", !.prior = n, !.req = q]
    <2>2. task' = [task EXCEPT ![t] = r] /\ task[t].pc = "pack"
      BY <1>5 DEF Pack
    <2>3. q \in GoodRequest
      BY <1>5, PackTyped DEF Pack
    <2>4. n \in Nat
      BY <1>0, <1>d DEF LocalTyped
    <2> HIDE DEF q, n
    <2>5. Holds(r)
      BY <1>c, <2>2, <2>3, <2>4 DEF Holds, TaskState, TaskPc, Uploading, GoodRequest
    <2> HIDE DEF r
    <2> QED
      BY <1>0, <1>5, <1>s, <2>1, <2>2, <2>5, TaskTo DEF Typed, Pack
  <1>6. ASSUME NEW t \in Task, PackFails(t) \/ ListFails(t) PROVE Typed'
    <2>1. LocalTyped'
      BY <1>0, <1>6 DEF LocalTyped, PackFails, ListFails, Fail, localVars, faultVars
    <2>2. task' = [task EXCEPT ![t] = Idle] /\ UNCHANGED versionVars
      BY <1>6 DEF PackFails, ListFails
    <2> QED
      BY <1>0, <1>s, <2>1, <2>2, TaskTo, IdleHolds DEF Typed
  <1>7. ASSUME NEW t \in Task, NEW id \in VersionId, Send(t, id) PROVE Typed'
    <2> DEFINE a == Outcome(task[t].req)
               r == [task[t] EXCEPT !.pc = "settle", !.ver = id, !.answer = a]
    <2>1. LocalTyped'
      BY <1>0, <1>7 DEF LocalTyped, Send, localVars, faultVars
    <2>2. task[t].pc = "send" /\ task' = [task EXCEPT ![t] = r]
      BY <1>7 DEF Send
    <2>3. task[t].req \in GoodRequest
      BY <1>c, <2>2 DEF Holds, Uploading
    <2>4. ServerTyped'
      BY <1>0, <1>7, <1>r, <2>3, CreateTyped DEF Send
    <2>5. a \in {"none", "created", "conflict", "queued"}
      BY DEF Outcome
    <2> HIDE DEF a
    <2>6. Holds(r)
      BY <1>c, <2>2, <2>5 DEF Holds, TaskState, TaskPc, Uploading
    <2> HIDE DEF r
    <2> QED
      BY <1>0, <2>1, <2>2, <2>4, <2>6, TaskTo DEF Typed
  <1>8. ASSUME NEW t \in Task,
               \/ SendRefused(t) \/ SendFails(t)
               \/ \E id \in VersionId : SendAnswerLost(t, id)
        PROVE  Typed'
    <2>1. LocalTyped'
      BY <1>0, <1>8
         DEF LocalTyped, SendRefused, SendFails, SendAnswerLost, Fail, localVars,
             faultVars
    <2>2. /\ task[t].pc = "send"
          /\ task' = [task EXCEPT ![t] = [task[t] EXCEPT !.pc = "enqueue"]]
      BY <1>8 DEF SendRefused, SendFails, SendAnswerLost, Goto
    <2>3. task[t].req \in GoodRequest
      BY <1>c, <2>2 DEF Holds, Uploading
    <2>4. ServerTyped'
      BY <1>0, <1>8, <1>r, <1>s, <2>3, CreateTyped
         DEF SendRefused, SendFails, SendAnswerLost
    <2>5. Holds([task[t] EXCEPT !.pc = "enqueue"])
      BY <1>c, <2>2, GotoHolds DEF TaskPc, Uploading
    <2> QED
      BY <1>0, <2>1, <2>2, <2>4, <2>5, TaskTo DEF Typed
  <1>9. ASSUME NEW t \in Task, Settle(t) \/ QueueBase(t) PROVE Typed'
    <2>1. PICK hd \in VersionId \cup {NULL}, pc \in {"confirm", "queueflag"} :
            /\ base' = [base EXCEPT ![TaskDevice[t]] =
                            [files |-> task[t].snap, head |-> hd]]
            /\ task[t].pc \in Uploading
            /\ task' = [task EXCEPT ![t] = [task[t] EXCEPT !.pc = pc]]
            /\ UNCHANGED <<versionVars, disk, unconf, diffs, outbox, retry, faultVars>>
      <3>1. CASE Settle(t)
        <4>1. task[t].ver \in VersionId \cup {NULL}
          BY <1>c DEF TaskState
        <4> QED
          BY <3>1, <4>1 DEF Settle, PutSnapshot, Goto, Uploading
      <3>2. CASE QueueBase(t)
        <4>1. task[t].pc \in Uploading
          BY <3>2 DEF QueueBase, Uploading
        <4>2. task[t].req \in Request
          BY <1>c, <4>1 DEF Holds, GoodRequest
        <4>3. task[t].req.parent \in VersionId \cup {NULL}
          BY <4>2 DEF Request
        <4> QED
          BY <3>2, <4>1, <4>3 DEF QueueBase, PutSnapshot, Goto
      <3> QED
        BY <1>9, <3>1, <3>2
    <2>2. task[t].snap \in Content
      BY <1>c, <2>1 DEF Holds
    <2>3. base' \in [Device -> Base \cup {NULL}]
      BY <1>0, <1>d, <2>1, <2>2 DEF LocalTyped, Base
    <2>4. LocalTyped'
      BY <1>0, <2>1, <2>3 DEF LocalTyped, faultVars
    <2>5. Holds([task[t] EXCEPT !.pc = pc])
      BY <1>c, <2>1, GotoHolds DEF TaskPc, Uploading
    <2> QED
      BY <1>0, <1>s, <2>1, <2>4, <2>5, TaskTo DEF Typed
  <1>10. ASSUME NEW t \in Task, Confirm(t) PROVE Typed'
    <2>1. LocalTyped'
      BY <1>0, <1>10 DEF LocalTyped, Confirm, faultVars
    <2>2. ServerTyped' /\ task[t].pc = "confirm"
      BY <1>10, <1>s DEF Confirm
    <2>3. CASE BackupOver(t, "conflict")
      BY <1>0, <2>1, <2>2, <2>3, OverTyped DEF Typed
    <2>4. CASE Goto(t, "count")
      <3>1. Holds([task[t] EXCEPT !.pc = "count"])
        BY <1>c, <2>2, GotoHolds DEF TaskPc, Uploading
      <3>2. task' = [task EXCEPT ![t] = [task[t] EXCEPT !.pc = "count"]]
        BY <2>4 DEF Goto
      <3> QED
        BY <1>0, <2>1, <2>2, <3>1, <3>2, TaskTo DEF Typed
    <2> QED
      BY <1>10, <2>3, <2>4 DEF Confirm
  <1>11. ASSUME NEW t \in Task, Count(t) PROVE Typed'
    <2>1. task[t].prior \in Nat
      BY <1>c DEF TaskState
    <2>2. LocalTyped'
      BY <1>0, <1>11, <1>d, <2>1 DEF LocalTyped, Count, faultVars
    <2> QED
      BY <1>0, <1>11, <1>s, <2>2, OverTyped DEF Typed, Count
  <1>12. ASSUME NEW t \in Task, Enqueue(t) PROVE Typed'
    <2>1. /\ task[t].pc = "enqueue"
          /\ task' = [task EXCEPT ![t] = [task[t] EXCEPT !.pc = "queuebase"]]
      BY <1>12 DEF Enqueue, Goto
    <2>2. task[t].req \in GoodRequest
      BY <1>c, <2>1 DEF Holds, Uploading
    <2>3. outbox' \in [Device -> Seq(GoodRequest)]
      BY <1>0, <1>12, <1>d, <2>2 DEF LocalTyped, Enqueue
    <2>4. LocalTyped'
      BY <1>0, <1>12, <2>3 DEF LocalTyped, Enqueue, faultVars
    <2>5. Holds([task[t] EXCEPT !.pc = "queuebase"])
      BY <1>c, <2>1, GotoHolds DEF TaskPc, Uploading
    <2> QED
      BY <1>0, <1>12, <1>s, <2>1, <2>4, <2>5, TaskTo DEF Typed, Enqueue
  <1>13. ASSUME NEW t \in Task, QueueFlag(t) PROVE Typed'
    <2>1. LocalTyped'
      BY <1>0, <1>13 DEF LocalTyped, QueueFlag, faultVars
    <2> QED
      BY <1>0, <1>13, <1>s, <2>1, OverTyped DEF Typed, QueueFlag
  <1>14. ASSUME NEW t \in Task, List(t) PROVE Typed'
    <2> DEFINE m == Rebuilt[task[t].target]
               todo == {f \in File : m[f] # Absent}
               r == [task[t] EXCEPT !.pc = "write", !.merged = m, !.todo = todo]
    <2>1. LocalTyped'
      BY <1>0, <1>14 DEF LocalTyped, List, localVars, faultVars
    <2>2. task[t].pc = "list" /\ task' = [task EXCEPT ![t] = r]
      BY <1>14 DEF List
    <2>3. task[t].target \in DOMAIN versions
      BY <2>2 DEF Inv, TaskSound
    <2>4. m \in Content
      BY <1>0, <2>3, RebuiltTyped
    <2>5. todo \in SUBSET File
      OBVIOUS
    <2> HIDE DEF m, todo
    <2>6. Holds(r)
      BY <1>c, <2>4, <2>5 DEF Holds, TaskState, TaskPc, Uploading
    <2> HIDE DEF r
    <2> QED
      BY <1>0, <1>14, <1>s, <2>1, <2>2, <2>6, TaskTo DEF Typed, List
  <1>15. ASSUME NEW t \in Task, NEW f \in File, Write(t, f) PROVE Typed'
    <2> DEFINE d == TaskDevice[t]
               left == task[t].todo \ {f}
               r == [task[t] EXCEPT !.todo = left]
    <2>1. /\ task[t].pc = "write" /\ task' = [task EXCEPT ![t] = r]
          /\ disk' = [disk EXCEPT ![d] = [disk[d] EXCEPT ![f] = task[t].merged[f]]]
      BY <1>15 DEF Write
    <2>2. task[t].merged \in Content /\ left \in SUBSET File
      BY <1>c, <2>1 DEF Holds, TaskState
    <2>3. [disk[d] EXCEPT ![f] = task[t].merged[f]] \in Content
      BY <1>0, <1>d, <2>2 DEF LocalTyped, Content
    <2>4. disk' \in [Device -> Content]
      BY <1>0, <2>1, <2>3 DEF LocalTyped
    <2>5. LocalTyped'
      BY <1>0, <1>15, <2>4 DEF LocalTyped, Write, localVars, faultVars
    <2> HIDE DEF left
    <2>6. Holds(r)
      BY <1>c, <2>2 DEF Holds, TaskState, TaskPc, Uploading
    <2> HIDE DEF r
    <2> QED
      BY <1>0, <1>15, <1>s, <2>1, <2>5, <2>6, TaskTo DEF Typed, Write
  <1>16. ASSUME NEW t \in Task, Sweep(t) \/ SweepFails(t) PROVE Typed'
    <2>0. PICK kept : SweepBut(t, kept)
      BY <1>16 DEF Sweep, SweepFails
    <2> DEFINE d == TaskDevice[t]
               gone == Gone(t) \ kept
               c == [f \in File |-> IF f \in gone THEN Absent ELSE disk[d][f]]
    <2>1. /\ task[t].pc = "write"
          /\ task' = [task EXCEPT ![t] = [task[t] EXCEPT !.pc = "adopt"]]
          /\ disk' = [disk EXCEPT ![d] = c]
      BY <2>0 DEF SweepBut, Goto
    <2> HIDE DEF gone
    <2>2. c \in Content
      BY <1>0, <1>d DEF LocalTyped, Content
    <2> HIDE DEF c
    <2>3. disk' \in [Device -> Content]
      BY <1>0, <2>1, <2>2 DEF LocalTyped
    <2>4. LocalTyped'
      BY <1>0, <1>16, <2>0, <2>3
         DEF LocalTyped, Sweep, SweepFails, SweepBut, Fail, localVars, faultVars
    <2>5. Holds([task[t] EXCEPT !.pc = "adopt"])
      BY <1>c, <2>1, GotoHolds DEF TaskPc, Uploading
    <2> QED
      BY <1>0, <1>s, <2>0, <2>1, <2>4, <2>5, TaskTo DEF Typed, SweepBut
  <1>17. ASSUME NEW t \in Task, Adopt(t) PROVE Typed'
    <2> DEFINE v == task[t].target
    <2>1. /\ task[t].pc = "adopt" /\ task' = [task EXCEPT ![t] = Idle]
          /\ base' = [base EXCEPT ![TaskDevice[t]] =
                          [files |-> versions[v].blob.files, head |-> v]]
      BY <1>17 DEF Adopt, PutSnapshot
    <2>2. v \in DOMAIN versions
      BY <2>1 DEF Inv, TaskSound
    <2>3. versions[v].blob \in Archive /\ v \in VersionId
      BY <1>0, <2>2, ArchiveAssumption DEF ServerTyped, VersionsTypeOK, VersionRow
    <2>4. versions[v].blob.files \in Content
      BY <2>3 DEF Archive
    <2>5. base' \in [Device -> Base \cup {NULL}]
      BY <1>0, <1>d, <2>1, <2>3, <2>4 DEF LocalTyped, Base
    <2>6. LocalTyped'
      BY <1>0, <1>17, <2>5 DEF LocalTyped, Adopt, faultVars
    <2> QED
      BY <1>0, <1>17, <1>s, <2>1, <2>6, TaskTo, IdleHolds DEF Typed, Adopt
  <1>18. ASSUME NEW d \in Device, outbox[d] # << >>
         PROVE  /\ Head(outbox[d]) \in GoodRequest /\ Tail(outbox[d]) \in Seq(GoodRequest)
                /\ Append(Tail(outbox[d]), Head(outbox[d])) \in Seq(GoodRequest)
    BY <1>0, <1>18 DEF LocalTyped
  <1>19. ASSUME NEW d \in Device, NEW id \in VersionId, RetrySend(d, id) PROVE Typed'
    <2>1. ServerTyped'
      BY <1>0, <1>r, <1>18, <1>19, CreateTyped DEF RetrySend
    <2>2. LocalTyped'
      BY <1>0, <1>19 DEF LocalTyped, RetrySend, localVars, faultVars
    <2> QED
      BY <1>19, <1>t, <2>1, <2>2 DEF Typed, RetrySend
  <1>20. ASSUME NEW d \in Device, RetryHead(d) PROVE Typed'
    <2>1. retry[d].ver \in VersionId \cup {NULL}
      BY <1>0 DEF LocalTyped
    <2>2. base' \in [Device -> Base \cup {NULL}]
      <3>1. CASE base[d] = NULL
        BY <1>0, <1>20, <3>1 DEF LocalTyped, RetryHead
      <3>2. CASE base[d] # NULL
        <4>1. base[d] \in Base
          BY <1>0, <3>2 DEF LocalTyped
        <4>2. [base[d] EXCEPT !.head = retry[d].ver] \in Base
          BY <2>1, <4>1 DEF Base
        <4> QED
          BY <1>0, <1>20, <3>2, <4>2 DEF LocalTyped, RetryHead
      <3> QED
        BY <3>1, <3>2
    <2>3. retry' \in [Device -> [pc : {"idle", "head", "remove"},
                                 ver : VersionId \cup {NULL}]]
      BY <1>0, <1>20 DEF LocalTyped, RetryHead
    <2>4. LocalTyped'
      BY <1>0, <1>20, <2>2, <2>3 DEF LocalTyped, RetryHead, faultVars
    <2> QED
      BY <1>20, <1>s, <1>t, <2>4 DEF Typed, RetryHead
  <1>21. ASSUME NEW d \in Device, RetryRemove(d) PROVE Typed'
    <2>1. outbox[d] # << >>
      BY <1>21 DEF RetryRemove, Inv, QueueSound
    <2>2. outbox' \in [Device -> Seq(GoodRequest)]
      BY <1>0, <1>18, <1>21, <2>1 DEF LocalTyped, RetryRemove
    <2>3. LocalTyped'
      BY <1>0, <1>21, <2>2 DEF LocalTyped, RetryRemove, RetryIdle, faultVars
    <2> QED
      BY <1>21, <1>s, <1>t, <2>3 DEF Typed, RetryRemove
  <1>22. ASSUME NEW d \in Device,
                \/ RetryRefused(d) \/ RetryFails(d)
                \/ \E id \in VersionId : RetryAnswerLost(d, id)
         PROVE  Typed'
    <2>1. /\ Postpone(d) /\ outbox[d] # << >>
          /\ Fail \/ fails' = fails
      BY <1>22 DEF RetryRefused, RetryFails, RetryAnswerLost, Postpone
    <2>2. ServerTyped'
      BY <1>0, <1>18, <1>22, <1>r, <1>s, <2>1, CreateTyped
         DEF RetryRefused, RetryFails, RetryAnswerLost
    <2>3. outbox' \in [Device -> Seq(GoodRequest)]
      BY <1>0, <1>18, <2>1 DEF LocalTyped, Postpone
    <2>4. LocalTyped'
      BY <1>0, <2>1, <2>3 DEF LocalTyped, Postpone, Fail
    <2> QED
      BY <1>t, <2>1, <2>2, <2>4 DEF Typed, Postpone
  <1>23. ASSUME NEW w \in VersionId, Resolve(w) PROVE Typed'
    <2>1. UNCHANGED <<versions, minted, disk, localVars, task, retry, faultVars>>
      BY <1>23 DEF Resolve, ResolveConflict
    <2>2. VersionsTypeOK'
      BY <1>0, <1>23, <2>1
         DEF Resolve, ResolveConflict, ServerTyped, VersionsTypeOK
    <2>3. ServerTyped'
      BY <1>0, <2>1, <2>2 DEF ServerTyped
    <2>4. LocalTyped'
      BY <1>0, <2>1 DEF LocalTyped, localVars, faultVars
    <2> QED
      BY <1>t, <2>1, <2>3, <2>4 DEF Typed
  <1>24. ASSUME NEW d \in Device, Crash(d) PROVE Typed'
    <2>1. LocalTyped'
      BY <1>0, <1>24 DEF LocalTyped, Crash, RetryIdle, localVars
    <2>2. TasksTyped'
      BY <1>0, <1>24, IdleHolds DEF TasksTyped, Crash
    <2> QED
      BY <1>24, <1>s, <2>1, <2>2 DEF Typed, Crash
  <1>25. CASE UNCHANGED vars
    <2>1. LocalTyped'
      BY <1>0, <1>25 DEF LocalTyped, vars, localVars, faultVars
    <2> QED
      BY <1>25, <1>s, <1>t, <2>1 DEF Typed, vars
  <1> QED
    BY <1>1, <1>2, <1>3, <1>4, <1>5, <1>6, <1>7, <1>8, <1>9, <1>10, <1>11,
       <1>12, <1>13, <1>14, <1>15, <1>16, <1>17, <1>19, <1>20, <1>21, <1>22,
       <1>23, <1>24, <1>25
       DEF Next, BackupStep, RestoreStep, RetryStep, Faulty

LEMMA InitTyped == Init => Typed
  <1> SUFFICES ASSUME Init PROVE Typed
    OBVIOUS
  <1>1. ServerTyped
    BY DEF Init, VersionsInit, ServerTyped, VersionsTypeOK, Linked, Archives
  <1>2. LocalTyped
    <2>1. disk \in [Device -> Content]
      BY DEF Init, Content
    <2>2. outbox \in [Device -> Seq(GoodRequest)]
      BY DEF Init
    <2> QED
      BY <2>1, <2>2 DEF Init, LocalTyped, RetryIdle
  <1>3. TasksTyped
    BY IdleHolds DEF Init, TasksTyped
  <1> QED
    BY <1>1, <1>2, <1>3 DEF Typed

\* Every variable stays in its type; in particular the chain that a restore
\* unpacks yields a save whatever archives it is made of (run_backup, run_restore,
\* retry_outbox, build_chain).
THEOREM TypeCorrect == Spec => []TypeOK
  <1>1. Inv /\ Typed /\ [Next]_vars => Inv' /\ Typed'
    BY NextSound, NextTyped
  <1> QED
    BY <1>1, InitSound, InitTyped, TypedOK, PTL DEF Spec

-----------------------------------------------------------------------------
(***************************************************************************)
(* Several tasks of one device, none of which knows of the others          *)
(***************************************************************************)
\* Some listing in S gives file f the content x.
Has(S, f, x) == \E c \in S : c[f] = x

\* An archive holds what it declares, or what some listing in S declares.
KnownIn(b, S) ==
    \A f \in File : b.data[f] \in {Kept, b.files[f]} \/ Has(S, f, b.data[f])

KnownRequest(S) == {r \in GoodRequest : KnownIn(r.blob, S)}

\* What a task at r may overwrite in the save c is in the listings S on the
\* server or D of the device.
UndoableIn(r, c, S, D) ==
    /\ r.pc = "pack" \/ r.pc \in Uploading =>
          \A f \in File : c[f] = r.snap[f] \/ Has(S, f, c[f])
    /\ r.pc \in {"send", "enqueue"} => KnownIn(r.req.blob, S)
    /\ r.pc \in {"confirm", "count", "queueflag"} => r.snap \in D
    /\ r.pc \in {"list", "write", "adopt"} => \A f \in File : Has(D, f, c[f])
    /\ r.pc = "write" => \A f \in File : Has(S, f, r.merged[f])

RowsKnown == \A v \in DOMAIN versions : KnownIn(versions[v].blob, Stored)
QueuesKnown == \A d \in Device : outbox[d] \in Seq(KnownRequest(Stored))
TasksUndoable ==
    \A t \in Task : UndoableIn(task[t], disk[TaskDevice[t]], Stored,
                               Declared(TaskDevice[t]))

Recoverable == RowsKnown /\ QueuesKnown /\ TasksUndoable

LEMMA HasGrows ==
  ASSUME NEW S, NEW T, S \subseteq T, NEW f, NEW x, Has(S, f, x)
  PROVE  Has(T, f, x)
  BY DEF Has

LEMMA KnownGrows ==
  ASSUME NEW S, NEW T, S \subseteq T
  PROVE  /\ \A b : KnownIn(b, S) => KnownIn(b, T)
         /\ KnownRequest(S) \subseteq KnownRequest(T)
         /\ Seq(KnownRequest(S)) \subseteq Seq(KnownRequest(T))
  <1>1. \A b : KnownIn(b, S) => KnownIn(b, T)
    BY HasGrows DEF KnownIn
  <1>2. KnownRequest(S) \subseteq KnownRequest(T)
    BY <1>1 DEF KnownRequest
  <1> QED
    BY <1>1, <1>2, SeqMonotonic

\* The save changes only to stored contents.
Calm(c, e, S) == \A f \in File : e[f] = c[f] \/ Has(S, f, e[f])

LEMMA UndoableGrows ==
  ASSUME NEW r, NEW c, NEW e, NEW S, NEW T, NEW D, NEW E,
         S \subseteq T, D \subseteq E, T \subseteq E,
         UndoableIn(r, c, S, D), Calm(c, e, T)
  PROVE  UndoableIn(r, e, T, E)
  <1>1. r.pc = "pack" \/ r.pc \in Uploading =>
          \A f \in File : e[f] = r.snap[f] \/ Has(T, f, e[f])
    BY HasGrows DEF UndoableIn, Calm
  <1>2. r.pc \in {"send", "enqueue"} => KnownIn(r.req.blob, T)
    BY KnownGrows DEF UndoableIn
  <1>3. r.pc \in {"confirm", "count", "queueflag"} => r.snap \in E
    BY DEF UndoableIn
  <1>4. r.pc \in {"list", "write", "adopt"} => \A f \in File : Has(E, f, e[f])
    BY HasGrows DEF UndoableIn, Calm
  <1>5. r.pc = "write" => \A f \in File : Has(T, f, r.merged[f])
    BY HasGrows DEF UndoableIn
  <1> QED
    BY <1>1, <1>2, <1>3, <1>4, <1>5 DEF UndoableIn

LEMMA IdleUndoable == \A c, S, D : UndoableIn(Idle, c, S, D)
  BY DEF UndoableIn, Idle, Uploading

\* Unpacking a chain yields contents that stored listings declare.
LEMMA RebuiltKnown ==
  ASSUME ServerTyped, RowsKnown
  PROVE  \A v \in DOMAIN versions : \A f \in File : Has(Stored, f, Rebuilt[v][f])
  <1> SUFFICES ASSUME NEW f \in File
               PROVE  \A v \in DOMAIN versions : Has(Stored, f, Rebuilt[v][f])
    OBVIOUS
  <1> DEFINE Bad == {v \in DOMAIN versions : ~Has(Stored, f, Rebuilt[v][f])}
             Seqs == {versions[v].seq : v \in Bad}
  <1> SUFFICES ASSUME Bad # {} PROVE FALSE
    OBVIOUS
  <1>0. Linked(versions) /\ Archives(versions)
    BY DEF ServerTyped
  <1>1. Seqs \subseteq Nat /\ Seqs # {}
    BY <1>0 DEF Linked
  <1>2. PICK v \in Bad : \A u \in Bad : versions[v].seq <= versions[u].seq
    <2>1. PICK m \in Seqs : \A n \in Seqs : m <= n
      BY <1>1, Least
    <2> QED
      BY <2>1
  <1> DEFINE D == versions[v].blob.data
             p == versions[v].parent
  <1>3. Rebuilt[v] = Unpacked(versions, Rebuilt, v)
    BY <1>0, RebuiltSolves
  <1>4. D[f] = Kept \/ Has(Stored, f, D[f])
    BY DEF RowsKnown, KnownIn, Has, Stored
  <1>5. CASE versions[v].kind = "full"
    <2>1. D[f] # Kept
      BY <1>0, <1>5, MarkAssumption DEF Archives, Content
    <2>2. Rebuilt[v] = D
      BY <1>3, <1>5 DEF Unpacked
    <2> QED
      BY <1>4, <2>1, <2>2
  <1>6. CASE versions[v].kind # "full"
    <2>1. /\ p \in DOMAIN versions /\ versions[p].seq < versions[v].seq
          /\ versions[v].seq \in Nat /\ versions[p].seq \in Nat
      BY <1>0, <1>6 DEF Linked
    <2>2. Has(Stored, f, Rebuilt[p][f])
      BY <1>2, <2>1
    <2>3. Rebuilt[v] = Overlay(Rebuilt[p], D)
      BY <1>3, <1>6 DEF Unpacked
    <2>4. Rebuilt[v][f] = IF D[f] = Kept THEN Rebuilt[p][f] ELSE D[f]
      BY <2>3 DEF Overlay
    <2> QED
      BY <1>4, <2>2, <2>4
  <1> QED
    BY <1>5, <1>6

LEMMA CreateKnown ==
  ASSUME RowsSound, RowsKnown, Stored \subseteq Stored', NEW id, NEW req,
         KnownIn(req.blob, Stored), CreateVersion(id, req)
  PROVE  RowsKnown'
  <1>1. id \notin DOMAIN versions
    BY DEF RowsSound, CreateVersion, Fresh
  <1>2. /\ DOMAIN versions' = DOMAIN versions \cup {id}
        /\ \A v \in DOMAIN versions : versions'[v] = versions[v]
        /\ versions'[id].blob = req.blob
    BY <1>1 DEF CreateVersion
  <1> QED
    BY <1>2, KnownGrows DEF RowsKnown

\* What a pack reads: the scanned content, or one a restore has put there.
LEMMA PackKnown ==
  ASSUME Typed, NEW t \in Task, task[t].pc = "pack", NEW S,
         \A f \in File : \/ disk[TaskDevice[t]][f] = task[t].snap[f]
                         \/ Has(S, f, disk[TaskDevice[t]][f])
  PROVE  \A f \in File : \/ PackData(t)[f] \in {Kept, task[t].snap[f]}
                         \/ Has(S, f, PackData(t)[f])
  <1> SUFFICES ASSUME NEW f \in File
               PROVE  \/ PackData(t)[f] \in {Kept, task[t].snap[f]}
                      \/ Has(S, f, PackData(t)[f])
    OBVIOUS
  <1> DEFINE now == disk[TaskDevice[t]]
  <1>1. CASE KindOf(t) = "full"
    <2>1. PackData(t)[f] = IF task[t].snap[f] = Absent THEN Absent ELSE now[f]
      BY <1>1 DEF PackData, FullData
    <2> QED
      BY <2>1
  <1>2. CASE KindOf(t) # "full"
    <2>1. PackData(t)[f] = IF f \in Changed(task[t].last.files, task[t].snap) THEN now[f]
                           ELSE IF f \in Deleted(task[t].last.files, task[t].snap)
                                THEN Absent ELSE Kept
      BY <1>2 DEF PackData, DiffData
    <2>2. f \in Deleted(task[t].last.files, task[t].snap) => task[t].snap[f] = Absent
      BY DEF Deleted
    <2> QED
      BY <2>1, <2>2
  <1> QED
    BY <1>1, <1>2

LEMMA NextRecoverable ==
  ASSUME Quiescent, Inv, Typed, Recoverable, [Next]_vars PROVE Recoverable'
  <1>0. Inv' /\ Growing /\ Typed'
    BY NextSound, NextTyped
  <1>1. /\ Stored \subseteq Stored'
        /\ \A d \in Device : /\ Declared(d) \subseteq Declared(d)'
                             /\ Stored' \subseteq Declared(d)'
                             /\ Stored \subseteq Declared(d)
    BY <1>0 DEF Growing, Stored, Declared
  <1>d. \A t \in Task : TaskDevice[t] \in Device
    OBVIOUS
  <1>c. \A t \in Task : /\ task[t] \in TaskState /\ Holds(task[t])
                        /\ UndoableIn(task[t], disk[TaskDevice[t]], Stored,
                                      Declared(TaskDevice[t]))
    BY DEF Typed, TasksTyped, Holds, Recoverable, TasksUndoable
  <1>v. versions' = versions => RowsKnown' /\ Stored' = Stored
    BY DEF Recoverable, RowsKnown, Stored
  <1>q. outbox' = outbox => QueuesKnown'
    BY <1>1, KnownGrows DEF Recoverable, QueuesKnown
  <1>k. disk' = disk => \A d \in Device : Calm(disk[d], disk'[d], Stored')
    BY DEF Calm
  \* Tasks that stand still.
  <1>o. ASSUME NEW s \in Task, task'[s] = task[s],
               Calm(disk[TaskDevice[s]], disk'[TaskDevice[s]], Stored')
        PROVE  UndoableIn(task'[s], disk'[TaskDevice[s]], Stored',
                          Declared(TaskDevice[s])')
    <2>1. /\ Declared(TaskDevice[s]) \subseteq Declared(TaskDevice[s])'
          /\ Stored' \subseteq Declared(TaskDevice[s])'
      BY <1>1, <1>d
    <2> QED
      BY <1>1, <1>c, <1>o, <2>1, UndoableGrows
  \* A step of task t that leaves the files alone.
  <1>t. ASSUME NEW t \in Task, NEW r, task' = [task EXCEPT ![t] = r], disk' = disk,
               UndoableIn(r, disk[TaskDevice[t]], Stored', Declared(TaskDevice[t])')
        PROVE  TasksUndoable'
    <2>1. task'[t] = r /\ \A s \in Task \ {t} : task'[s] = task[s]
      BY <1>t, TaskTo DEF Typed
    <2>2. \A s \in Task \ {t} : UndoableIn(task'[s], disk'[TaskDevice[s]], Stored',
                                           Declared(TaskDevice[s])')
      BY <1>d, <1>k, <1>o, <1>t, <2>1
    <2> QED
      BY <1>t, <2>1, <2>2 DEF TasksUndoable
  \* The end of a backup: what it scanned is declared.
  <1>b. ASSUME NEW t \in Task, NEW a, BackupOver(t, a), disk' = disk,
               \A f \in File : Has(Declared(TaskDevice[t])', f, disk[TaskDevice[t]][f])
        PROVE  TasksUndoable'
    <2> DEFINE l == [Idle EXCEPT !.pc = "list", !.goal = task[t].goal,
                                 !.target = task[t].target, !.answer = a]
               r == IF task[t].goal = "backup" THEN Idle ELSE l
    <2>1. task' = [task EXCEPT ![t] = r]
      BY <1>b DEF BackupOver
    <2>2. l.pc = "list"
      BY DEF Idle
    <2> HIDE DEF l
    <2>3. UndoableIn(l, disk[TaskDevice[t]], Stored', Declared(TaskDevice[t])')
      BY <1>b, <2>2 DEF UndoableIn, Uploading
    <2>4. UndoableIn(r, disk[TaskDevice[t]], Stored', Declared(TaskDevice[t])')
      BY <2>3, IdleUndoable
    <2> HIDE DEF r
    <2> QED
      BY <1>b, <1>t, <2>1, <2>4
  \* A task that goes from one step of an upload to another.
  <1>g. ASSUME NEW t \in Task, NEW r, task' = [task EXCEPT ![t] = r], disk' = disk,
               task[t].pc \in Uploading, r.snap = task[t].snap, r.pc \in Uploading,
               r.pc \in {"send", "enqueue"} =>
                   task[t].pc \in {"send", "enqueue"} /\ r.req = task[t].req,
               r.pc \in {"confirm", "count", "queueflag"} =>
                   r.snap \in Declared(TaskDevice[t])'
        PROVE  TasksUndoable'
    <2>1. \A f \in File : \/ disk[TaskDevice[t]][f] = r.snap[f]
                          \/ Has(Stored', f, disk[TaskDevice[t]][f])
      BY <1>1, <1>c, <1>g, HasGrows DEF UndoableIn
    <2>2. r.pc \in {"send", "enqueue"} => KnownIn(r.req.blob, Stored')
      BY <1>1, <1>c, <1>g, KnownGrows DEF UndoableIn
    <2>3. UndoableIn(r, disk[TaskDevice[t]], Stored', Declared(TaskDevice[t])')
      BY <1>g, <2>1, <2>2 DEF UndoableIn, Uploading
    <2> QED
      BY <1>g, <1>t, <2>3
  \* What is scanned is declared once the snapshot is.
  <1>w. ASSUME NEW t \in Task, task[t].pc \in Uploading,
               task[t].snap \in Declared(TaskDevice[t])'
        PROVE  \A f \in File : Has(Declared(TaskDevice[t])', f, disk[TaskDevice[t]][f])
    <2>1. \A f \in File : \/ disk[TaskDevice[t]][f] = task[t].snap[f]
                          \/ Has(Stored, f, disk[TaskDevice[t]][f])
      BY <1>c, <1>w DEF UndoableIn
    <2>2. Stored \subseteq Declared(TaskDevice[t])'
      BY <1>1, <1>d
    <2> QED
      BY <1>w, <2>1, <2>2 DEF Has
  <1>2. ASSUME NEW d \in Device, NEW f \in File, NEW x \in Val \cup {Absent},
               Save(d, f, x)
        PROVE  Recoverable'
    <2>1. \A t \in Task : TaskDevice[t] = d => task[t].pc = "idle"
      BY <1>2 DEF Save, Busy
    <2>2. \A c \in Device \ {d} : disk'[c] = disk[c]
      BY <1>2 DEF Save, Typed, LocalTyped
    <2>3. task' = task /\ versions' = versions /\ outbox' = outbox
      BY <1>2 DEF Save, versionVars, localVars
    <2>4. ASSUME NEW s \in Task
          PROVE  UndoableIn(task'[s], disk'[TaskDevice[s]], Stored', Declared(TaskDevice[s])')
      <3>1. CASE TaskDevice[s] = d
        BY <2>1, <2>3, <3>1 DEF UndoableIn, Uploading
      <3>2. CASE TaskDevice[s] # d
        <4>1. Calm(disk[TaskDevice[s]], disk'[TaskDevice[s]], Stored')
          BY <1>d, <2>2, <3>2 DEF Calm
        <4> QED
          BY <1>o, <2>3, <4>1
      <3> QED
        BY <3>1, <3>2
    <2> QED
      BY <1>q, <1>v, <2>3, <2>4 DEF Recoverable, TasksUndoable
  <1>3. ASSUME NEW t \in Task,
               \/ StartBackup(t) \/ PackFails(t) \/ ListFails(t) \/ Adopt(t)
               \/ \E goal \in {"restore", "pull"}, v \in VersionId :
                     StartRestore(t, goal, v)
        PROVE  Recoverable'
    <2>1. /\ versions' = versions /\ outbox' = outbox /\ disk' = disk
          /\ task' = [task EXCEPT ![t] = task'[t]]
          /\ task'[t].pc \in {"idle", "scan"}
      <3>2. CASE StartBackup(t)
        <4> DEFINE e == [task[t] EXCEPT !.pc = "scan"]
        <4>1. e.pc = "scan"
          BY <1>c DEF TaskState
        <4>2. /\ task' = [task EXCEPT ![t] = e]
              /\ versions' = versions /\ outbox' = outbox /\ disk' = disk
          BY <3>2 DEF StartBackup, Goto, versionVars, localVars
        <4> HIDE DEF e
        <4>3. task'[t] = e
          BY <4>2, TaskTo DEF Typed
        <4> QED
          BY <4>1, <4>2, <4>3
      <3>3. ASSUME NEW goal, NEW v, StartRestore(t, goal, v)
            PROVE  /\ versions' = versions /\ outbox' = outbox /\ disk' = disk
                   /\ task'[t].pc \in {"idle", "scan"} /\ task' = [task EXCEPT ![t] = task'[t]]
        <4> DEFINE e == [Idle EXCEPT !.pc = "scan", !.goal = goal, !.target = v]
        <4>1. e.pc = "scan"
          BY DEF Idle
        <4>2. /\ task' = [task EXCEPT ![t] = e]
              /\ versions' = versions /\ outbox' = outbox /\ disk' = disk
          BY <3>3 DEF StartRestore, versionVars, localVars
        <4> HIDE DEF e
        <4>3. task'[t] = e
          BY <4>2, TaskTo DEF Typed
        <4> QED
          BY <4>1, <4>2, <4>3
      <3>4. CASE PackFails(t) \/ ListFails(t) \/ Adopt(t)
        <4>1. Idle.pc = "idle"
          BY DEF Idle
        <4>2. /\ task' = [task EXCEPT ![t] = Idle]
              /\ versions' = versions /\ outbox' = outbox /\ disk' = disk
          BY <3>4 DEF PackFails, ListFails, Adopt, versionVars, localVars
        <4>3. task'[t] = Idle
          BY <4>2, TaskTo DEF Typed
        <4> QED
          BY <4>1, <4>2, <4>3
      <3> QED
        BY <1>3, <3>2, <3>3, <3>4
    <2>2. UndoableIn(task'[t], disk[TaskDevice[t]], Stored', Declared(TaskDevice[t])')
      BY <2>1 DEF UndoableIn, Uploading
    <2> QED
      BY <1>q, <1>t, <1>v, <2>1, <2>2 DEF Recoverable
  <1>4. ASSUME NEW t \in Task, Scan(t) PROVE Recoverable'
    <2> DEFINE d == TaskDevice[t]
    <2>0. versions' = versions /\ outbox' = outbox /\ disk' = disk
      BY <1>4 DEF Scan, versionVars, localVars
    <2>1. CASE base[d] # NULL /\ base[d].files = disk[d]
      <3>1. BackupOver(t, "none")
        BY <1>4, <2>1 DEF Scan
      <3>2. disk[d] \in Declared(d)'
        BY <1>1, <1>d, <2>1 DEF Inv, BaseDurable
      <3>3. \A f \in File : Has(Declared(d)', f, disk[d][f])
        BY <3>2 DEF Has
      <3> QED
        BY <1>b, <1>q, <1>v, <2>0, <3>1, <3>3 DEF Recoverable
    <2>2. CASE ~(base[d] # NULL /\ base[d].files = disk[d])
      <3> DEFINE r == [task[t] EXCEPT !.pc = "pack", !.snap = disk[d], !.last = base[d]]
      <3>1. task' = [task EXCEPT ![t] = r]
        BY <1>4, <2>2 DEF Scan
      <3>2. r.pc = "pack" /\ r.snap = disk[d]
        BY <1>c DEF TaskState
      <3> HIDE DEF r
      <3>3. UndoableIn(r, disk[d], Stored', Declared(d)')
        BY <3>2 DEF UndoableIn
      <3> QED
        BY <1>q, <1>t, <1>v, <2>0, <3>1, <3>3 DEF Recoverable
    <2> QED
      BY <2>1, <2>2
  <1>5. ASSUME NEW t \in Task, Pack(t) PROVE Recoverable'
    <2> DEFINE d == TaskDevice[t]
               b == [files |-> task[t].snap, data |-> PackData(t)]
               q == [game |-> game,
                     parent |-> IF task[t].last = NULL THEN NULL ELSE task[t].last.head,
                     kind |-> KindOf(t), blob |-> b]
               r == [task[t] EXCEPT !.pc = "send", !.prior = diffs[d], !.req = q]
    <2>0. versions' = versions /\ outbox' = outbox /\ disk' = disk
      BY <1>5 DEF Pack, versionVars, localVars
    <2>1. task' = [task EXCEPT ![t] = r] /\ task[t].pc = "pack"
      BY <1>5 DEF Pack
    <2>2. q.blob = b /\ b.files = task[t].snap /\ b.data = PackData(t)
      OBVIOUS
    <2> HIDE DEF q, b
    <2>3. r.pc = "send" /\ r.snap = task[t].snap /\ r.req = q
      BY <1>c DEF TaskState
    <2> HIDE DEF r
    <2>4. \A f \in File : disk[d][f] = task[t].snap[f] \/ Has(Stored, f, disk[d][f])
      BY <1>c, <2>1 DEF UndoableIn
    <2>5. KnownIn(b, Stored)
      BY <2>1, <2>2, <2>4, PackKnown DEF KnownIn
    <2>6. UndoableIn(r, disk[d], Stored', Declared(d)')
      BY <1>v, <2>0, <2>2, <2>3, <2>4, <2>5 DEF UndoableIn
    <2> QED
      BY <1>q, <1>t, <1>v, <2>0, <2>1, <2>6 DEF Recoverable
  <1>6. ASSUME NEW t \in Task,
               \/ SendRefused(t) \/ SendFails(t)
               \/ \E id \in VersionId : Send(t, id) \/ SendAnswerLost(t, id)
        PROVE  Recoverable'
    <2>1. /\ task[t].pc = "send" /\ outbox' = outbox /\ disk' = disk
          /\ \/ versions' = versions
             \/ \E id \in VersionId : CreateVersion(id, task[t].req)
      BY <1>6 DEF Send, SendRefused, SendAnswerLost, SendFails, versionVars,
                  localVars
    <2>2. KnownIn(task[t].req.blob, Stored)
      BY <1>c, <2>1 DEF UndoableIn
    <2>3. RowsKnown'
      BY <1>1, <1>v, <2>1, <2>2, CreateKnown DEF Inv, Recoverable
    <2>4. PICK r : /\ task' = [task EXCEPT ![t] = r] /\ r.pc \in {"settle", "enqueue"}
                   /\ r.snap = task[t].snap /\ r.req = task[t].req
      <3>1. ASSUME NEW id \in VersionId, Send(t, id)
            PROVE  \E r : /\ task' = [task EXCEPT ![t] = r] /\ r.pc = "settle"
                          /\ r.snap = task[t].snap /\ r.req = task[t].req
        <4> DEFINE a == Outcome(task[t].req)
                   r == [task[t] EXCEPT !.pc = "settle", !.ver = id, !.answer = a]
        <4>1. task' = [task EXCEPT ![t] = r]
          BY <3>1 DEF Send
        <4> HIDE DEF a
        <4>2. r.pc = "settle" /\ r.snap = task[t].snap /\ r.req = task[t].req
          BY <1>c DEF TaskState
        <4> HIDE DEF r
        <4> QED
          BY <4>1, <4>2
      <3>2. CASE \/ SendRefused(t) \/ SendFails(t)
                 \/ \E id \in VersionId : SendAnswerLost(t, id)
        <4> DEFINE r == [task[t] EXCEPT !.pc = "enqueue"]
        <4>1. task' = [task EXCEPT ![t] = r]
          BY <3>2 DEF SendRefused, SendAnswerLost, SendFails, Goto
        <4>2. r.pc = "enqueue" /\ r.snap = task[t].snap /\ r.req = task[t].req
          BY <1>c DEF TaskState
        <4> HIDE DEF r
        <4> QED
          BY <4>1, <4>2
      <3> QED
        BY <1>6, <3>1, <3>2
    <2>5. TasksUndoable'
      BY <1>g, <2>1, <2>4 DEF Uploading
    <2> QED
      BY <1>q, <2>1, <2>3, <2>5 DEF Recoverable
  <1>7. ASSUME NEW t \in Task,
               \/ Settle(t) \/ Enqueue(t) \/ QueueBase(t)
               \/ Confirm(t) /\ Goto(t, "count")
        PROVE  TasksUndoable'
    <2>1. PICK pc : /\ task' = [task EXCEPT ![t] = [task[t] EXCEPT !.pc = pc]]
                    /\ pc \in {"confirm", "queuebase", "queueflag", "count"}
                    /\ pc = "confirm" => task[t].pc = "settle"
                    /\ pc = "queueflag" => task[t].pc = "queuebase"
                    /\ pc = "count" => task[t].pc = "confirm"
                    /\ task[t].pc \in Uploading
      <3>1. CASE Settle(t)
        BY <3>1 DEF Settle, Goto, Uploading
      <3>2. CASE Enqueue(t)
        BY <3>2 DEF Enqueue, Goto, Uploading
      <3>3. CASE QueueBase(t)
        BY <3>3 DEF QueueBase, Goto, Uploading
      <3>4. CASE Confirm(t) /\ Goto(t, "count")
        BY <3>4 DEF Confirm, Goto, Uploading
      <3> QED
        BY <1>7, <3>1, <3>2, <3>3, <3>4
    <2> DEFINE r == [task[t] EXCEPT !.pc = pc]
    <2>2. r.pc = pc /\ r.snap = task[t].snap
      BY <1>c DEF TaskState
    <2> HIDE DEF r
    <2>3. pc \in {"confirm", "queueflag", "count"} => task[t].snap \in Declared(TaskDevice[t])'
      <3>1. TaskSound(t)
        BY DEF Inv
      <3> QED
        BY <1>1, <1>c, <1>d, <2>1, <3>1 DEF TaskSound, UndoableIn
    <2>4. task' = [task EXCEPT ![t] = r] /\ disk' = disk
      BY <1>7, <2>1 DEF r, Settle, Enqueue, QueueBase, Confirm
    <2> QED
      BY <1>g, <2>1, <2>2, <2>3, <2>4 DEF Uploading
  <1>8. ASSUME NEW t \in Task, NEW a, BackupOver(t, a), disk' = disk,
               task[t].pc \in {"confirm", "count", "queueflag"}
        PROVE  TasksUndoable'
    <2>1. task[t].snap \in Declared(TaskDevice[t])'
      BY <1>1, <1>c, <1>d, <1>8 DEF UndoableIn
    <2>2. task[t].pc \in Uploading
      BY <1>8 DEF Uploading
    <2> QED
      BY <1>b, <1>w, <1>8, <2>1, <2>2
  <1>9. ASSUME NEW t \in Task,
               Settle(t) \/ QueueBase(t) \/ Confirm(t) \/ Count(t) \/ QueueFlag(t)
        PROVE  Recoverable'
    <2>1. versions' = versions /\ outbox' = outbox /\ disk' = disk
      BY <1>9 DEF Settle, QueueBase, Confirm, Count, QueueFlag, versionVars
    <2>2. TasksUndoable'
      <3>1. CASE Settle(t) \/ QueueBase(t)
        BY <1>7, <3>1
      <3>2. CASE Confirm(t)
        <4>1. task[t].pc = "confirm" /\ (Goto(t, "count") \/ BackupOver(t, "conflict"))
          BY <3>2 DEF Confirm
        <4> QED
          BY <1>7, <1>8, <2>1, <3>2, <4>1
      <3>3. CASE Count(t) \/ QueueFlag(t)
        BY <1>8, <2>1, <3>3 DEF Count, QueueFlag
      <3> QED
        BY <1>9, <3>1, <3>2, <3>3
    <2> QED
      BY <1>q, <1>v, <2>1, <2>2 DEF Recoverable
  <1>10. ASSUME NEW t \in Task, Enqueue(t) PROVE Recoverable'
    <2> DEFINE d == TaskDevice[t]
    <2>1. /\ versions' = versions /\ task[t].pc = "enqueue"
          /\ outbox' = [outbox EXCEPT ![d] = Append(outbox[d], task[t].req)]
      BY <1>10 DEF Enqueue, versionVars
    <2>2. task[t].req \in KnownRequest(Stored)
      BY <1>c, <2>1 DEF UndoableIn, Holds, Uploading, KnownRequest
    <2>3. \A c \in Device : outbox[c] \in Seq(KnownRequest(Stored))
      BY DEF Recoverable, QueuesKnown
    <2>4. Append(outbox[d], task[t].req) \in Seq(KnownRequest(Stored))
      BY <1>d, <2>2, <2>3
    <2>5. QueuesKnown'
      BY <1>v, <2>1, <2>3, <2>4 DEF QueuesKnown, Typed, LocalTyped
    <2> QED
      BY <1>7, <1>10, <1>v, <2>1, <2>5 DEF Recoverable
  <1>11. ASSUME NEW t \in Task, List(t) PROVE Recoverable'
    <2> DEFINE m == Rebuilt[task[t].target]
               todo == {f \in File : m[f] # Absent}
               r == [task[t] EXCEPT !.pc = "write", !.merged = m, !.todo = todo]
    <2>1. /\ versions' = versions /\ outbox' = outbox /\ disk' = disk
          /\ task[t].pc = "list" /\ task' = [task EXCEPT ![t] = r]
      BY <1>11 DEF List, versionVars, localVars
    <2>2. task[t].target \in DOMAIN versions
      BY <2>1 DEF Inv, TaskSound
    <2>3. \A f \in File : Has(Stored, f, m[f])
      BY <2>2, RebuiltKnown DEF Typed, Recoverable
    <2> HIDE DEF m, todo
    <2>4. r.pc = "write" /\ r.merged = m
      BY <1>c DEF TaskState
    <2> HIDE DEF r
    <2>5. \A f \in File : Has(Declared(TaskDevice[t])', f, disk[TaskDevice[t]][f])
      BY <1>1, <1>c, <1>d, <2>1, HasGrows DEF UndoableIn
    <2>6. UndoableIn(r, disk[TaskDevice[t]], Stored', Declared(TaskDevice[t])')
      BY <1>v, <2>1, <2>3, <2>4, <2>5 DEF UndoableIn, Uploading
    <2> QED
      BY <1>q, <1>t, <1>v, <2>1, <2>6 DEF Recoverable
  \* Files are replaced by stored contents.
  <1>12. ASSUME NEW t \in Task,
                Sweep(t) \/ SweepFails(t) \/ \E f \in File : Write(t, f)
         PROVE  Recoverable'
    <2> DEFINE d == TaskDevice[t]
    <2>0. (\E kept : SweepBut(t, kept)) \/ \E f \in File : Write(t, f)
      BY <1>12 DEF Sweep, SweepFails
    <2>1. /\ versions' = versions /\ outbox' = outbox /\ task[t].pc = "write"
      BY <2>0 DEF SweepBut, Write, versionVars, localVars
    <2>2. \A f \in File : Has(Stored, f, task[t].merged[f])
      BY <1>c, <2>1 DEF UndoableIn
    <2>3. \A c \in Device : Calm(disk[c], disk'[c], Stored')
      <3>1. ASSUME NEW f \in File, Write(t, f)
            PROVE  \A c \in Device : Calm(disk[c], disk'[c], Stored')
        <4>1. /\ disk'[d] = [disk[d] EXCEPT ![f] = task[t].merged[f]]
              /\ \A c \in Device \ {d} : disk'[c] = disk[c]
          BY <1>d, <3>1 DEF Write, Typed, LocalTyped
        <4>2. disk[d] \in Content
          BY <1>d DEF Typed, LocalTyped
        <4>3. \A g \in File : disk'[d][g] = disk[d][g] \/ disk'[d][g] = task[t].merged[g]
          BY <4>1, <4>2 DEF Content
        <4> QED
          BY <1>v, <2>1, <2>2, <4>1, <4>3 DEF Calm
      <3>2. ASSUME NEW kept, SweepBut(t, kept)
            PROVE  \A c \in Device : Calm(disk[c], disk'[c], Stored')
        <4> DEFINE gone == Gone(t) \ kept
        <4>1. /\ disk'[d] = [f \in File |-> IF f \in gone THEN Absent ELSE disk[d][f]]
              /\ \A c \in Device \ {d} : disk'[c] = disk[c]
          BY <1>d, <3>2 DEF SweepBut, Typed, LocalTyped
        <4>2. \A g \in gone : task[t].merged[g] = Absent
          BY DEF Gone
        <4> HIDE DEF gone
        <4>3. \A g \in File : disk'[d][g] = disk[d][g] \/ disk'[d][g] = task[t].merged[g]
          BY <4>1, <4>2
        <4> QED
          BY <1>v, <2>1, <2>2, <4>1, <4>3 DEF Calm
      <3> QED
        BY <2>0, <3>1, <3>2
    <2>4. PICK r : /\ task' = [task EXCEPT ![t] = r] /\ r.pc \in {"write", "adopt"}
                   /\ r.merged = task[t].merged
      <3>1. ASSUME NEW f \in File, Write(t, f)
            PROVE  \E r : /\ task' = [task EXCEPT ![t] = r] /\ r.pc = "write"
                          /\ r.merged = task[t].merged
        <4> DEFINE r == [task[t] EXCEPT !.todo = task[t].todo \ {f}]
        <4>1. task' = [task EXCEPT ![t] = r] /\ r.pc = "write" /\ r.merged = task[t].merged
          BY <1>c, <2>1, <3>1 DEF Write, TaskState
        <4> QED
          BY <4>1
      <3>2. ASSUME NEW kept, SweepBut(t, kept)
            PROVE  \E r : /\ task' = [task EXCEPT ![t] = r] /\ r.pc = "adopt"
                          /\ r.merged = task[t].merged
        <4> DEFINE r == [task[t] EXCEPT !.pc = "adopt"]
        <4>1. task' = [task EXCEPT ![t] = r]
          BY <3>2 DEF SweepBut, Goto
        <4>2. r.pc = "adopt" /\ r.merged = task[t].merged
          BY <1>c DEF TaskState
        <4> HIDE DEF r
        <4> QED
          BY <4>1, <4>2
      <3> QED
        BY <2>0, <3>1, <3>2
    <2>5. task'[t] = r /\ \A s \in Task \ {t} : task'[s] = task[s]
      BY <2>4, TaskTo DEF Typed
    <2>6. \A s \in Task \ {t} : UndoableIn(task'[s], disk'[TaskDevice[s]], Stored',
                                           Declared(TaskDevice[s])')
      BY <1>d, <1>o, <2>3, <2>5
    <2>7. \A f \in File : Has(Declared(d)', f, disk'[d][f])
      <3>1. \A f \in File : Has(Declared(d)', f, disk[d][f])
        BY <1>1, <1>c, <1>d, <2>1, HasGrows DEF UndoableIn
      <3>2. Stored' \subseteq Declared(d)' /\ Calm(disk[d], disk'[d], Stored')
        BY <1>1, <1>d, <2>3
      <3> QED
        BY <3>1, <3>2, HasGrows DEF Calm
    <2>8. UndoableIn(r, disk'[d], Stored', Declared(d)')
      BY <1>v, <2>1, <2>2, <2>4, <2>7 DEF UndoableIn, Uploading
    <2> QED
      BY <1>q, <1>v, <2>1, <2>5, <2>6, <2>8 DEF Recoverable, TasksUndoable
  <1>13. ASSUME task' = task, disk' = disk PROVE TasksUndoable'
    BY <1>d, <1>k, <1>o, <1>13 DEF TasksUndoable
  <1>14. ASSUME NEW d \in Device, outbox[d] # << >>
         PROVE  /\ Head(outbox[d]) \in KnownRequest(Stored)
                /\ Tail(outbox[d]) \in Seq(KnownRequest(Stored))
                /\ Append(Tail(outbox[d]), Head(outbox[d])) \in Seq(KnownRequest(Stored))
    <2>1. outbox[d] \in Seq(KnownRequest(Stored))
      BY DEF Recoverable, QueuesKnown
    <2> QED
      BY <1>14, <2>1
  <1>15. ASSUME NEW d \in Device, NEW id \in VersionId, outbox[d] # << >>,
                CreateVersion(id, Head(outbox[d]))
         PROVE  RowsKnown'
    BY <1>1, <1>14, <1>15, CreateKnown DEF KnownRequest, Inv, Recoverable
  <1>16. ASSUME NEW d \in Device, NEW q \in Seq(KnownRequest(Stored)),
                outbox' = [outbox EXCEPT ![d] = q]
         PROVE  QueuesKnown'
    <2>1. Seq(KnownRequest(Stored)) \subseteq Seq(KnownRequest(Stored'))
      BY <1>1, KnownGrows
    <2>2. \A c \in Device : outbox'[c] \in Seq(KnownRequest(Stored))
      BY <1>16 DEF Recoverable, QueuesKnown, Typed, LocalTyped
    <2> QED
      BY <2>1, <2>2 DEF QueuesKnown
  <1>17. ASSUME NEW d \in Device,
                \/ RetryRefused(d) \/ RetryFails(d)
                \/ \E id \in VersionId : RetryAnswerLost(d, id)
         PROVE  Recoverable'
    <2>1. /\ task' = task /\ disk' = disk /\ outbox[d] # << >>
          /\ outbox' = [outbox EXCEPT ![d] = Append(Tail(outbox[d]), Head(outbox[d]))]
      BY <1>17 DEF RetryRefused, RetryFails, RetryAnswerLost, Postpone
    <2>2. RowsKnown'
      BY <1>15, <1>17, <1>v, <2>1
         DEF RetryRefused, RetryFails, RetryAnswerLost, versionVars
    <2> QED
      BY <1>13, <1>14, <1>16, <2>1, <2>2 DEF Recoverable
  <1>18. ASSUME NEW d \in Device, RetryStep(d) PROVE Recoverable'
    <2>1. task' = task /\ disk' = disk
      BY <1>18 DEF RetryStep, RetrySend, RetryHead, RetryRemove, RetryRefused,
                   Postpone
    <2>2. CASE \E id \in VersionId : RetrySend(d, id)
      BY <1>13, <1>15, <1>q, <2>1, <2>2 DEF RetrySend, localVars, Recoverable
    <2>3. CASE RetryHead(d)
      BY <1>13, <1>q, <1>v, <2>1, <2>3 DEF RetryHead, versionVars, Recoverable
    <2>4. CASE RetryRemove(d)
      <3>1. outbox[d] # << >> /\ outbox' = [outbox EXCEPT ![d] = Tail(outbox[d])]
        BY <2>4 DEF RetryRemove, Inv, QueueSound
      <3> QED
        BY <1>13, <1>14, <1>16, <1>v, <2>1, <2>4, <3>1
           DEF RetryRemove, versionVars, Recoverable
    <2> QED
      BY <1>17, <1>18, <2>2, <2>3, <2>4 DEF RetryStep
  <1>19. ASSUME NEW w \in VersionId, Resolve(w) PROVE Recoverable'
    BY <1>13, <1>19, <1>q, <1>v DEF Resolve, ResolveConflict, localVars, Recoverable
  <1>20. ASSUME NEW d \in Device, Crash(d) PROVE Recoverable'
    <2>1. /\ versions' = versions /\ outbox' = outbox /\ disk' = disk
          /\ \A s \in Task : task'[s] = Idle \/ task'[s] = task[s]
      BY <1>20 DEF Crash, versionVars, localVars
    <2>2. TasksUndoable'
      BY <1>d, <1>k, <1>o, <2>1, IdleUndoable DEF TasksUndoable
    <2> QED
      BY <1>q, <1>v, <2>1, <2>2 DEF Recoverable
  <1>21. CASE UNCHANGED vars
    BY <1>13, <1>21, <1>q, <1>v DEF vars, versionVars, localVars, Recoverable
  <1> QED
    BY <1>2, <1>3, <1>4, <1>5, <1>6, <1>9, <1>10, <1>11, <1>12, <1>17, <1>18,
       <1>19, <1>20, <1>21 DEF Next, BackupStep, RestoreStep, Faulty

\* While no game saves during a task of its device, a file that a restore replaces
\* or deletes has its content in some version or queued backup: for any number of
\* backups, restores and pulls of one device at once, none of which knows of the
\* others, with failed uploads, lost answers and crashes at any step, and even
\* when a restore tears the archive another task is packing (run_restore,
\* engine.rs restore).
THEOREM RestoresUndoable == ASSUME Quiescent PROVE Spec => RestoreUndoable
  <1>1. Init => Recoverable
    <2> SUFFICES ASSUME Init PROVE Recoverable
      OBVIOUS
    <2>1. RowsKnown /\ QueuesKnown
      BY DEF Init, VersionsInit, RowsKnown, QueuesKnown
    <2>2. TasksUndoable
      BY IdleUndoable DEF Init, TasksUndoable
    <2> QED
      BY <2>1, <2>2 DEF Recoverable
  <1>2. Inv /\ Typed /\ Recoverable /\ [Next]_vars => Inv' /\ Typed' /\ Recoverable'
    BY NextSound, NextTyped, NextRecoverable
  <1>3. Recoverable =>
          \A t \in Task :
            LET d == TaskDevice[t]
            IN  task[t].pc = "write" /\ task'[t] # task[t] =>
                  \A f \in File : disk[d][f] # disk'[d][f] =>
                      \E c \in Declared(d) : c[f] = disk[d][f]
    BY DEF Recoverable, TasksUndoable, UndoableIn, Has
  <1> QED
    BY <1>1, <1>2, <1>3, InitSound, InitTyped, PTL DEF Spec, RestoreUndoable

-----------------------------------------------------------------------------
(***************************************************************************)
(* One task of a device at a time, and no failed call                      *)
(***************************************************************************)
\* At most one task of a device is under way.
Alone ==
    \A s, t \in Task :
        (/\ TaskDevice[s] = TaskDevice[t]
         /\ task[s].pc # "idle" /\ task[t].pc # "idle") => s = t

\* A row or a request r unpacks, over its parent, to what it declares.
Fits(vs, r) ==
    /\ r.kind = "full" => r.blob.data = r.blob.files
    /\ r.kind # "full" => /\ r.parent \in DOMAIN vs
                          /\ Overlay(vs[r.parent].blob.files, r.blob.data) = r.blob.files

\* A diff base lists what its head declares.
AtHead(vs, b) ==
    b # NULL => b.head \in DOMAIN vs /\ vs[b.head].blob.files = b.files

\* Where the save c and the diff base b are when a task stands at r.
ExactIn(r, c, b, vs) ==
    /\ r.pc \notin {"enqueue", "queuebase", "queueflag"}
    /\ r.pc \in {"pack", "send", "settle", "confirm", "count"} => c = r.snap
    /\ r.pc = "pack" => AtHead(vs, r.last)
    /\ r.pc = "send" => Fits(vs, r.req)
    /\ r.pc = "settle" => r.ver \in DOMAIN vs /\ vs[r.ver].blob.files = r.snap
    /\ r.pc \in {"confirm", "count"} => b # NULL /\ b.files = r.snap
    /\ r.pc = "list" => b # NULL /\ b.files = c
    /\ r.pc = "write" =>
          /\ b # NULL /\ r.merged = vs[r.target].blob.files
          /\ \A f \in File :
                /\ r.merged[f] = Absent => f \notin r.todo /\ c[f] = b.files[f]
                /\ r.merged[f] # Absent => f \in r.todo \/ c[f] = r.merged[f]
    /\ r.pc = "adopt" => c = vs[r.target].blob.files

TasksExact ==
    \A t \in Task : ExactIn(task[t], disk[TaskDevice[t]], base[TaskDevice[t]], versions)

Exact ==
    /\ \A d \in Device : outbox[d] = << >> /\ retry[d].pc = "idle"
    /\ \A v \in DOMAIN versions : Fits(versions, versions[v])
    /\ \A d \in Device : AtHead(versions, base[d])
    /\ TasksExact

More(vs, ws) == DOMAIN vs \subseteq DOMAIN ws /\ \A v \in DOMAIN vs : ws[v] = vs[v]

LEMMA FitsMore ==
  ASSUME NEW vs, NEW ws, More(vs, ws)
  PROVE  /\ \A r : Fits(vs, r) => Fits(ws, r)
         /\ \A b : AtHead(vs, b) => AtHead(ws, b)
         /\ \A r, c, b :
               ExactIn(r, c, b, vs)
                 /\ (r.pc \in {"write", "adopt"} => r.target \in DOMAIN vs)
               => ExactIn(r, c, b, ws)
  <1>1. \A r : Fits(vs, r) => Fits(ws, r)
    BY DEF More, Fits
  <1>2. \A b : AtHead(vs, b) => AtHead(ws, b)
    BY DEF More, AtHead
  <1>3. ASSUME NEW r, NEW c, NEW b, ExactIn(r, c, b, vs),
               r.pc \in {"write", "adopt"} => r.target \in DOMAIN vs
        PROVE  ExactIn(r, c, b, ws)
    <2>1. r.pc \in {"write", "adopt"} => ws[r.target] = vs[r.target]
      BY <1>3 DEF More
    <2>2. r.pc = "settle" => r.ver \in DOMAIN ws /\ ws[r.ver].blob.files = r.snap
      BY <1>3 DEF More, ExactIn
    <2>3. /\ r.pc = "pack" => AtHead(ws, r.last)
          /\ r.pc = "send" => Fits(ws, r.req)
      BY <1>1, <1>2, <1>3 DEF ExactIn
    <2> QED
      BY <1>3, <2>1, <2>2, <2>3 DEF ExactIn
  <1> QED
    BY <1>1, <1>2, <1>3

LEMMA IdleExact ==
  ASSUME NEW r, r.pc \in {"idle", "scan"} PROVE \A c, b, vs : ExactIn(r, c, b, vs)
  BY DEF ExactIn

\* Rows that fit their parents unpack to what they declare.
LEMMA FittingChains ==
  ASSUME ServerTyped, \A v \in DOMAIN versions : Fits(versions, versions[v])
  PROVE  ChainSound
  <1> DEFINE Bad == {v \in DOMAIN versions : Rebuilt[v] # versions[v].blob.files}
             Seqs == {versions[v].seq : v \in Bad}
  <1> SUFFICES ASSUME Bad # {} PROVE FALSE
    BY DEF ChainSound
  <1>0. Linked(versions) /\ Archives(versions)
    BY DEF ServerTyped
  <1>1. Seqs \subseteq Nat /\ Seqs # {}
    BY <1>0 DEF Linked
  <1>2. PICK v \in Bad : \A u \in Bad : versions[v].seq <= versions[u].seq
    <2>1. PICK m \in Seqs : \A n \in Seqs : m <= n
      BY <1>1, Least
    <2> QED
      BY <2>1
  <1> DEFINE p == versions[v].parent
  <1>3. Rebuilt[v] = Unpacked(versions, Rebuilt, v)
    BY <1>0, RebuiltSolves
  <1>4. versions[v].kind # "full"
    BY <1>3 DEF Unpacked, Fits
  <1>5. /\ p \in DOMAIN versions /\ versions[p].seq < versions[v].seq
        /\ versions[v].seq \in Nat /\ versions[p].seq \in Nat
    BY <1>0, <1>4 DEF Linked
  <1>6. Rebuilt[p] = versions[p].blob.files
    BY <1>2, <1>5
  <1> QED
    BY <1>3, <1>4, <1>6 DEF Unpacked, Fits

\* An archive packed from the save that was scanned fits its parent.
LEMMA PackFits ==
  ASSUME Typed, NEW t \in Task, task[t].pc = "pack",
         disk[TaskDevice[t]] = task[t].snap, AtHead(versions, task[t].last),
         NEW r, r.kind = KindOf(t), r.blob.files = task[t].snap,
         r.blob.data = PackData(t),
         r.parent = IF task[t].last = NULL THEN NULL ELSE task[t].last.head
  PROVE  Fits(versions, r)
  <1> DEFINE snap == task[t].snap
             old == task[t].last.files
  <1>1. snap \in Content /\ task[t].last \in Base \cup {NULL}
    BY DEF Typed, TasksTyped, Holds, TaskState
  <1>2. CASE KindOf(t) = "full"
    <2>1. PackData(t) = FullData(snap, snap)
      BY <1>2 DEF PackData
    <2> HIDE DEF snap
    <2>2. FullData(snap, snap) = snap
      BY <1>1 DEF FullData, Content
    <2> QED
      BY <1>2, <2>1, <2>2 DEF Fits, snap
  <1>3. CASE KindOf(t) # "full"
    <2>1. task[t].last # NULL /\ PackData(t) = DiffData(old, snap, snap)
      BY <1>3 DEF KindOf, PackData
    <2>2. r.parent \in DOMAIN versions /\ versions[r.parent].blob.files = old
      BY <2>1 DEF AtHead
    <2>3. old \in Content
      BY <1>1, <2>1 DEF Base
    <2> HIDE DEF snap, old
    <2>4. \A f \in File : snap[f] # Kept
      BY <1>1, MarkAssumption DEF Content
    <2>5. Overlay(old, DiffData(old, snap, snap)) = snap
      <3>1. ASSUME NEW f \in File
            PROVE  Overlay(old, DiffData(old, snap, snap))[f] = snap[f]
        <4>1. Overlay(old, DiffData(old, snap, snap))[f] =
                IF f \in Changed(old, snap) THEN snap[f]
                ELSE IF f \in Deleted(old, snap) THEN Absent ELSE old[f]
          BY <2>4, MarkAssumption DEF Overlay, DiffData
        <4> QED
          BY <4>1 DEF Changed, Deleted
      <3>2. Overlay(old, DiffData(old, snap, snap)) =
              [f \in File |-> Overlay(old, DiffData(old, snap, snap))[f]]
        BY DEF Overlay
      <3> QED
        BY <1>1, <3>1, <3>2 DEF Content
    <2> QED
      BY <1>3, <2>1, <2>2, <2>5 DEF Fits, snap
  <1> QED
    BY <1>2, <1>3

LEMMA NextExact ==
  ASSUME Quiescent, Orphaned = {}, Inv, Typed, Alone, Exact, [Next]_vars,
         fails = 0, fails' = 0
  PROVE  Exact'
  <1>0. ServerTyped /\ LocalTyped /\ TasksTyped
    BY DEF Typed
  <1>d. \A t \in Task : TaskDevice[t] \in Device
    OBVIOUS
  <1>c. \A t \in Task :
          /\ task[t] \in TaskState /\ Holds(task[t]) /\ TaskSound(t)
          /\ ExactIn(task[t], disk[TaskDevice[t]], base[TaskDevice[t]], versions)
          /\ AtHead(versions, base[TaskDevice[t]])
          /\ task[t].pc \in {"list", "write", "adopt"} => task[t].target \in DOMAIN versions
    BY <1>d DEF Typed, TasksTyped, Holds, Exact, TasksExact, Inv, TaskSound
  <1>e. \A d \in Device : outbox[d] = << >> /\ retry[d].pc = "idle"
    BY DEF Exact
  <1>v. versions' = versions => More(versions, versions')
    BY DEF More
  \* The other tasks of the device are idle.
  <1>a. \A s, t \in Task :
          TaskDevice[s] = TaskDevice[t] /\ s # t /\ task[t].pc # "idle"
            => task[s].pc = "idle"
    BY DEF Alone
  <1>o. ASSUME NEW s \in Task, task'[s] = task[s], More(versions, versions'),
               \/ task[s].pc = "idle"
               \/ /\ disk'[TaskDevice[s]] = disk[TaskDevice[s]]
                  /\ base'[TaskDevice[s]] = base[TaskDevice[s]]
        PROVE  ExactIn(task'[s], disk'[TaskDevice[s]], base'[TaskDevice[s]], versions')
    <2>1. CASE task[s].pc = "idle"
      BY <1>o, <2>1, IdleExact
    <2>2. CASE /\ disk'[TaskDevice[s]] = disk[TaskDevice[s]]
               /\ base'[TaskDevice[s]] = base[TaskDevice[s]]
      BY <1>c, <1>o, <2>2, FitsMore
    <2> QED
      BY <1>o, <2>1, <2>2
  \* A step of task t: only its own device's save and diff base may change.
  <1>t. ASSUME NEW t \in Task, NEW r, task' = [task EXCEPT ![t] = r],
               versions' = versions, outbox' = outbox, retry' = retry,
               \A c \in Device \ {TaskDevice[t]} : disk'[c] = disk[c] /\ base'[c] = base[c],
               task[t].pc # "idle" \/ (disk' = disk /\ base' = base),
               AtHead(versions, base'[TaskDevice[t]]),
               ExactIn(r, disk'[TaskDevice[t]], base'[TaskDevice[t]], versions)
        PROVE  Exact'
    <2>1. task'[t] = r /\ \A s \in Task \ {t} : task'[s] = task[s]
      BY <1>0, <1>t, TaskTo
    <2>2. \A s \in Task \ {t} :
            \/ task[s].pc = "idle"
            \/ /\ disk'[TaskDevice[s]] = disk[TaskDevice[s]]
               /\ base'[TaskDevice[s]] = base[TaskDevice[s]]
      BY <1>a, <1>d, <1>t
    <2>3. TasksExact'
      BY <1>o, <1>t, <1>v, <2>1, <2>2 DEF TasksExact
    <2>4. \A d \in Device : AtHead(versions, base'[d])
      BY <1>t DEF Exact
    <2> QED
      BY <1>t, <2>3, <2>4 DEF Exact
  \* The end of a backup: the diff base lists the save.
  <1>b. ASSUME NEW t \in Task, NEW a, BackupOver(t, a),
               UNCHANGED <<versions, outbox, retry, disk, base>>,
               base[TaskDevice[t]] # NULL,
               base[TaskDevice[t]].files = disk[TaskDevice[t]]
        PROVE  Exact'
    <2> DEFINE l == [Idle EXCEPT !.pc = "list", !.goal = task[t].goal,
                                 !.target = task[t].target, !.answer = a]
               r == IF task[t].goal = "backup" THEN Idle ELSE l
    <2>1. task' = [task EXCEPT ![t] = r]
      BY <1>b DEF BackupOver
    <2>2. l.pc = "list" /\ Idle.pc = "idle"
      BY DEF Idle
    <2> HIDE DEF l
    <2>3. ExactIn(l, disk[TaskDevice[t]], base[TaskDevice[t]], versions)
      BY <1>b, <2>2 DEF ExactIn
    <2>4. ExactIn(r, disk[TaskDevice[t]], base[TaskDevice[t]], versions)
      BY <2>2, <2>3, IdleExact
    <2> HIDE DEF r
    <2> QED
      BY <1>b, <1>c, <1>t, <2>1, <2>4
  <1>1. ASSUME NEW d \in Device, NEW f \in File, NEW x \in Val \cup {Absent},
               Save(d, f, x)
        PROVE  Exact'
    <2>1. \A t \in Task : TaskDevice[t] = d => task[t].pc = "idle"
      BY <1>1 DEF Save, Busy
    <2>2. \A c \in Device \ {d} : disk'[c] = disk[c]
      BY <1>0, <1>1 DEF Save, LocalTyped
    <2>3. UNCHANGED <<task, versions, outbox, base, retry>>
      BY <1>1 DEF Save, versionVars, localVars
    <2>4. TasksExact'
      BY <1>d, <1>o, <1>v, <2>1, <2>2, <2>3 DEF TasksExact
    <2> QED
      BY <2>3, <2>4 DEF Exact
  <1>2. ASSUME NEW t \in Task,
               \/ StartBackup(t) \/ PackFails(t)
               \/ \E goal \in {"restore", "pull"}, v \in VersionId :
                     StartRestore(t, goal, v)
        PROVE  Exact'
    <2>1. UNCHANGED <<versions, outbox, retry, disk, base>>
      BY <1>2 DEF StartBackup, PackFails, StartRestore, versionVars, localVars
    <2>2. /\ task' = [task EXCEPT ![t] = task'[t]]
          /\ task'[t].pc \in {"idle", "scan"}
      <3>1. CASE StartBackup(t)
        <4> DEFINE e == [task[t] EXCEPT !.pc = "scan"]
        <4>1. e.pc = "scan"
          BY <1>c DEF TaskState
        <4>2. task' = [task EXCEPT ![t] = e]
          BY <3>1 DEF StartBackup, Goto
        <4> HIDE DEF e
        <4>3. task'[t] = e
          BY <1>0, <4>2, TaskTo
        <4> QED
          BY <4>1, <4>2, <4>3
      <3>2. ASSUME NEW goal, NEW v, StartRestore(t, goal, v)
            PROVE  /\ task' = [task EXCEPT ![t] = task'[t]]
                   /\ task'[t].pc \in {"idle", "scan"}
        <4> DEFINE e == [Idle EXCEPT !.pc = "scan", !.goal = goal, !.target = v]
        <4>1. e.pc = "scan"
          BY DEF Idle
        <4>2. task' = [task EXCEPT ![t] = e]
          BY <3>2 DEF StartRestore
        <4> HIDE DEF e
        <4>3. task'[t] = e
          BY <1>0, <4>2, TaskTo
        <4> QED
          BY <4>1, <4>2, <4>3
      <3>3. CASE PackFails(t)
        <4>1. task' = [task EXCEPT ![t] = Idle] /\ Idle.pc = "idle"
          BY <3>3 DEF PackFails, Idle
        <4>2. task'[t] = Idle
          BY <1>0, <4>1, TaskTo
        <4> QED
          BY <4>1, <4>2
      <3> QED
        BY <1>2, <3>1, <3>2, <3>3
    <2>3. ExactIn(task'[t], disk'[TaskDevice[t]], base'[TaskDevice[t]], versions)
      BY <2>2, IdleExact
    <2> QED
      BY <1>c, <1>t, <2>1, <2>2, <2>3
  <1>3. ASSUME NEW t \in Task, Scan(t) PROVE Exact'
    <2> DEFINE d == TaskDevice[t]
    <2>0. UNCHANGED <<versions, outbox, retry, disk, base>>
      BY <1>3 DEF Scan, versionVars, localVars
    <2>1. CASE base[d] # NULL /\ base[d].files = disk[d]
      <3>1. BackupOver(t, "none")
        BY <1>3, <2>1 DEF Scan
      <3> QED
        BY <1>b, <2>0, <2>1, <3>1
    <2>2. CASE ~(base[d] # NULL /\ base[d].files = disk[d])
      <3> DEFINE r == [task[t] EXCEPT !.pc = "pack", !.snap = disk[d], !.last = base[d]]
      <3>1. task' = [task EXCEPT ![t] = r]
        BY <1>3, <2>2 DEF Scan
      <3>2. r.pc = "pack" /\ r.snap = disk[d] /\ r.last = base[d]
        BY <1>c DEF TaskState
      <3> HIDE DEF r
      <3>3. ExactIn(r, disk[d], base[d], versions)
        BY <1>c, <3>2 DEF ExactIn
      <3> QED
        BY <1>c, <1>t, <2>0, <3>1, <3>3
    <2> QED
      BY <2>1, <2>2
  <1>4. ASSUME NEW t \in Task, Pack(t) PROVE Exact'
    <2> DEFINE d == TaskDevice[t]
               b == [files |-> task[t].snap, data |-> PackData(t)]
               up == IF task[t].last = NULL THEN NULL ELSE task[t].last.head
               q == [game |-> game, parent |-> up, kind |-> KindOf(t), blob |-> b]
               r == [task[t] EXCEPT !.pc = "send", !.prior = diffs[d], !.req = q]
    <2>0. UNCHANGED <<versions, outbox, retry, disk, base>>
      BY <1>4 DEF Pack, versionVars, localVars
    <2>1. task' = [task EXCEPT ![t] = r] /\ task[t].pc = "pack"
      BY <1>4 DEF Pack
    <2>2. b.files = task[t].snap /\ b.data = PackData(t)
      OBVIOUS
    <2>3. disk[d] = task[t].snap /\ AtHead(versions, task[t].last)
      BY <1>c, <2>1 DEF ExactIn
    <2> HIDE DEF b
    <2>4. q.blob = b /\ q.kind = KindOf(t) /\ q.parent = up
      OBVIOUS
    <2> HIDE DEF q
    <2>5. Fits(versions, q)
      BY <2>1, <2>2, <2>3, <2>4, PackFits
    <2>6. r.pc = "send" /\ r.snap = task[t].snap /\ r.req = q
      BY <1>c DEF TaskState
    <2> HIDE DEF r
    <2>7. ExactIn(r, disk[d], base[d], versions)
      BY <2>3, <2>5, <2>6 DEF ExactIn
    <2> QED
      BY <1>c, <1>t, <2>0, <2>1, <2>7
  <1>5. ASSUME NEW t \in Task, NEW id \in VersionId, Send(t, id) PROVE Exact'
    <2> DEFINE d == TaskDevice[t]
               q == task[t].req
               r == [task[t] EXCEPT !.pc = "settle", !.ver = id, !.answer = Outcome(q)]
    <2>0. UNCHANGED <<outbox, retry, disk, base>>
      BY <1>5 DEF Send, localVars
    <2>1. /\ task' = [task EXCEPT ![t] = r] /\ task[t].pc = "send"
          /\ CreateVersion(id, q)
      BY <1>5 DEF Send
    <2>2. Fits(versions, q) /\ disk[d] = task[t].snap /\ q.blob.files = task[t].snap
      BY <1>c, <2>1 DEF ExactIn, TaskSound
    <2>3. id \notin DOMAIN versions
      BY <2>1 DEF Inv, RowsSound, CreateVersion, Fresh
    <2>4. /\ More(versions, versions')
          /\ DOMAIN versions' = DOMAIN versions \cup {id}
          /\ versions'[id].kind = q.kind /\ versions'[id].parent = q.parent
          /\ versions'[id].blob = q.blob
      BY <2>1, <2>3 DEF CreateVersion, More
    <2>5. r.pc = "settle" /\ r.snap = task[t].snap /\ r.ver = id
      BY <1>c DEF TaskState
    <2> HIDE DEF r
    <2>6. ExactIn(r, disk[d], base[d], versions')
      BY <2>2, <2>4, <2>5 DEF ExactIn
    <2>7. Fits(versions', versions'[id])
      <3>1. Fits(versions', q)
        BY <2>2, <2>4, FitsMore
      <3> QED
        BY <2>4, <3>1 DEF Fits
    <2>8. \A v \in DOMAIN versions' : Fits(versions', versions'[v])
      BY <2>4, <2>7, FitsMore DEF Exact, More
    <2>9. \A c \in Device : AtHead(versions', base'[c])
      BY <2>0, <2>4, FitsMore DEF Exact
    <2>10. TasksExact'
      <3>1. task'[t] = r /\ \A s \in Task \ {t} : task'[s] = task[s]
        BY <1>0, <2>1, TaskTo
      <3>2. \A s \in Task \ {t} : ExactIn(task'[s], disk'[TaskDevice[s]],
                                          base'[TaskDevice[s]], versions')
        BY <1>o, <2>0, <2>4, <3>1
      <3> QED
        BY <2>0, <2>6, <3>1, <3>2 DEF TasksExact
    <2> QED
      BY <2>0, <2>8, <2>9, <2>10 DEF Exact
  <1>6. ASSUME NEW t \in Task, Settle(t) PROVE Exact'
    <2> DEFINE d == TaskDevice[t]
               b == [files |-> task[t].snap, head |-> task[t].ver]
               r == [task[t] EXCEPT !.pc = "confirm"]
    <2>1. /\ UNCHANGED <<versions, outbox, retry, disk>> /\ task[t].pc = "settle"
          /\ base' = [base EXCEPT ![d] = b] /\ task' = [task EXCEPT ![t] = r]
      BY <1>6 DEF Settle, PutSnapshot, Goto, versionVars
    <2>2. /\ disk[d] = task[t].snap /\ task[t].ver \in DOMAIN versions
          /\ versions[task[t].ver].blob.files = task[t].snap
      BY <1>c, <2>1 DEF ExactIn
    <2>3. /\ b.files = task[t].snap /\ b.head = task[t].ver
          /\ r.pc = "confirm" /\ r.snap = task[t].snap
      BY <1>c DEF TaskState
    <2>4. b # NULL
      <3>1. task[t].snap \in Content /\ task[t].ver \in VersionId \cup {NULL}
        BY <1>c, <2>1 DEF Holds, Uploading, TaskState
      <3>2. b \in Base
        BY <3>1 DEF Base
      <3> QED
        BY <3>2, BaseAssumption
    <2> HIDE DEF b, r
    <2>5. base'[d] = b /\ \A c \in Device \ {d} : base'[c] = base[c]
      BY <1>0, <1>d, <2>1 DEF LocalTyped
    <2>6. AtHead(versions, b) /\ ExactIn(r, disk[d], b, versions)
      BY <2>2, <2>3, <2>4 DEF AtHead, ExactIn
    <2> QED
      BY <1>t, <2>1, <2>5, <2>6
  <1>7. ASSUME NEW t \in Task, Confirm(t) \/ Count(t) PROVE Exact'
    <2> DEFINE d == TaskDevice[t]
    <2>0. UNCHANGED <<versions, outbox, retry, disk, base>>
      BY <1>7 DEF Confirm, Count, versionVars
    <2>1. task[t].pc \in {"confirm", "count"}
      BY <1>7 DEF Confirm, Count
    <2>2. disk[d] = task[t].snap /\ base[d] # NULL /\ base[d].files = task[t].snap
      BY <1>c, <2>1 DEF ExactIn
    <2>3. ASSUME NEW a, BackupOver(t, a) PROVE Exact'
      BY <1>b, <2>0, <2>2, <2>3
    <2>4. ASSUME Goto(t, "count") PROVE Exact'
      <3> DEFINE r == [task[t] EXCEPT !.pc = "count"]
      <3>1. task' = [task EXCEPT ![t] = r]
        BY <2>4 DEF Goto
      <3>2. r.pc = "count" /\ r.snap = task[t].snap
        BY <1>c DEF TaskState
      <3> HIDE DEF r
      <3>3. ExactIn(r, disk[d], base[d], versions)
        BY <2>2, <3>2 DEF ExactIn
      <3> QED
        BY <1>c, <1>t, <2>0, <3>1, <3>3
    <2> QED
      BY <1>7, <2>3, <2>4 DEF Confirm, Count
  <1>8. ASSUME NEW t \in Task, List(t) PROVE Exact'
    <2> DEFINE d == TaskDevice[t]
               m == Rebuilt[task[t].target]
               todo == {f \in File : m[f] # Absent}
               r == [task[t] EXCEPT !.pc = "write", !.merged = m, !.todo = todo]
    <2>0. UNCHANGED <<versions, outbox, retry, disk, base>>
      BY <1>8 DEF List, versionVars, localVars
    <2>1. task[t].pc = "list" /\ task' = [task EXCEPT ![t] = r]
      BY <1>8 DEF List
    <2>2. m = versions[task[t].target].blob.files
      BY <1>0, <1>c, <2>1, FittingChains DEF Exact, ChainSound
    <2>3. base[d] # NULL /\ base[d].files = disk[d]
      BY <1>c, <2>1 DEF ExactIn
    <2>4. \A f \in File : f \in todo <=> m[f] # Absent
      OBVIOUS
    <2> HIDE DEF m, todo
    <2>5. r.pc = "write" /\ r.merged = m /\ r.todo = todo /\ r.target = task[t].target
      BY <1>c DEF TaskState
    <2> HIDE DEF r
    <2>6. ExactIn(r, disk[d], base[d], versions)
      BY <2>2, <2>3, <2>4, <2>5 DEF ExactIn
    <2> QED
      BY <1>c, <1>t, <2>0, <2>1, <2>6
  <1>9. ASSUME NEW t \in Task, NEW f \in File, Write(t, f) PROVE Exact'
    <2> DEFINE d == TaskDevice[t]
               left == task[t].todo \ {f}
               c == [disk[d] EXCEPT ![f] = task[t].merged[f]]
               r == [task[t] EXCEPT !.todo = left]
    <2>0. UNCHANGED <<versions, outbox, retry, base>>
      BY <1>9 DEF Write, versionVars, localVars
    <2>1. /\ task[t].pc = "write" /\ task' = [task EXCEPT ![t] = r] /\ f \in task[t].todo
          /\ disk' = [disk EXCEPT ![d] = c]
      BY <1>9 DEF Write
    <2>2. disk[d] \in Content
      BY <1>0, <1>d DEF LocalTyped
    <2>3. /\ c[f] = task[t].merged[f]
          /\ \A g \in File \ {f} : c[g] = disk[d][g]
      BY <2>2 DEF Content
    <2>4. disk'[d] = c /\ \A e \in Device \ {d} : disk'[e] = disk[e]
      BY <1>0, <1>d, <2>1 DEF LocalTyped
    <2>5. \A g : g \in left <=> g \in task[t].todo /\ g # f
      OBVIOUS
    <2> HIDE DEF left, c
    <2>6. /\ r.pc = "write" /\ r.merged = task[t].merged /\ r.todo = left
          /\ r.target = task[t].target
      BY <1>c, <2>1 DEF TaskState
    <2> HIDE DEF r
    <2>7. /\ base[d] # NULL /\ task[t].merged = versions[task[t].target].blob.files
          /\ \A g \in File :
                /\ task[t].merged[g] = Absent =>
                      g \notin task[t].todo /\ disk[d][g] = base[d].files[g]
                /\ task[t].merged[g] # Absent =>
                      g \in task[t].todo \/ disk[d][g] = task[t].merged[g]
      BY <1>c, <2>1 DEF ExactIn
    <2>8. \A g \in File :
            /\ task[t].merged[g] = Absent => g \notin left /\ c[g] = base[d].files[g]
            /\ task[t].merged[g] # Absent => g \in left \/ c[g] = task[t].merged[g]
      BY <2>1, <2>3, <2>5, <2>7
    <2>9. ExactIn(r, c, base[d], versions)
      BY <2>6, <2>7, <2>8 DEF ExactIn
    <2> QED
      BY <1>c, <1>t, <2>0, <2>1, <2>4, <2>9
  <1>10. ASSUME NEW t \in Task, Sweep(t) PROVE Exact'
    <2> DEFINE d == TaskDevice[t]
               m == task[t].merged
               gone == Gone(t) \ {}
               c == [f \in File |-> IF f \in gone THEN Absent ELSE disk[d][f]]
               r == [task[t] EXCEPT !.pc = "adopt"]
    <2>0. UNCHANGED <<versions, outbox, retry, base>>
      BY <1>10 DEF Sweep, SweepBut, versionVars, localVars
    <2>1. /\ task[t].pc = "write" /\ task' = [task EXCEPT ![t] = r] /\ task[t].todo = {}
          /\ disk' = [disk EXCEPT ![d] = c]
      BY <1>10 DEF Sweep, SweepBut, Goto
    <2>2. /\ base[d] # NULL /\ m = versions[task[t].target].blob.files
          /\ \A g \in File :
                /\ m[g] = Absent => disk[d][g] = base[d].files[g]
                /\ m[g] # Absent => disk[d][g] = m[g]
      BY <1>c, <2>1 DEF ExactIn
    <2>3. m \in Content
      BY <1>c, <2>1 DEF Holds
    <2>4. \A g \in File : c[g] = m[g]
      BY <2>2 DEF Gone
    <2>5. c = m
      BY <2>3, <2>4 DEF Content
    <2>6. disk'[d] = c /\ \A e \in Device \ {d} : disk'[e] = disk[e]
      BY <1>0, <1>d, <2>1 DEF LocalTyped
    <2>7. r.pc = "adopt" /\ r.target = task[t].target
      BY <1>c DEF TaskState
    <2> HIDE DEF r, c, m
    <2>8. ExactIn(r, c, base[d], versions)
      BY <2>2, <2>5, <2>7 DEF ExactIn
    <2> QED
      BY <1>c, <1>t, <2>0, <2>1, <2>6, <2>8
  <1>11. ASSUME NEW t \in Task, Adopt(t) PROVE Exact'
    <2> DEFINE d == TaskDevice[t]
               v == task[t].target
               b == [files |-> versions[v].blob.files, head |-> v]
    <2>1. /\ UNCHANGED <<versions, outbox, retry, disk>> /\ task[t].pc = "adopt"
          /\ base' = [base EXCEPT ![d] = b] /\ task' = [task EXCEPT ![t] = Idle]
      BY <1>11 DEF Adopt, PutSnapshot, versionVars
    <2>2. v \in DOMAIN versions
      BY <1>c, <2>1
    <2>3. b.files = versions[v].blob.files /\ b.head = v
      OBVIOUS
    <2> HIDE DEF b
    <2>4. base'[d] = b /\ \A e \in Device \ {d} : base'[e] = base[e]
      BY <1>0, <1>d, <2>1 DEF LocalTyped
    <2>5. AtHead(versions, b)
      BY <2>2, <2>3 DEF AtHead
    <2>6. Idle.pc = "idle"
      BY DEF Idle
    <2>7. ExactIn(Idle, disk[d], b, versions)
      BY <2>6, IdleExact
    <2> QED
      BY <1>t, <2>1, <2>4, <2>5, <2>7
  \* Nothing was ever queued, and steps that fail are excluded.
  <1>12. ASSUME NEW t \in Task, Enqueue(t) \/ QueueBase(t) \/ QueueFlag(t) PROVE FALSE
    BY <1>c, <1>12 DEF ExactIn, Enqueue, QueueBase, QueueFlag
  <1>13. ASSUME NEW d \in Device,
                \/ RetryStep(d) \/ RetryFails(d)
                \/ \E id \in VersionId : RetryAnswerLost(d, id)
         PROVE  FALSE
    BY <1>e, <1>13 DEF RetryStep, RetrySend, RetryHead, RetryRemove,
                       RetryRefused, RetryFails, RetryAnswerLost, Postpone
  <1>14. ASSUME NEW t \in Task,
                \/ SendRefused(t) \/ SendFails(t) \/ ListFails(t) \/ SweepFails(t)
                \/ \E id \in VersionId : SendAnswerLost(t, id)
         PROVE  FALSE
    BY <1>14 DEF SendRefused, Accepted, SendFails, ListFails, SweepFails,
                 SendAnswerLost, Fail
  <1>15. ASSUME NEW w \in VersionId, Resolve(w) PROVE Exact'
    <2>1. UNCHANGED <<versions, outbox, retry, disk, base, task>>
      BY <1>15 DEF Resolve, ResolveConflict, localVars
    <2> QED
      BY <2>1 DEF Exact, TasksExact
  <1>16. ASSUME NEW d \in Device, Crash(d) PROVE Exact'
    <2>1. /\ UNCHANGED <<versions, outbox, disk, base>>
          /\ \A s \in Task : task'[s] = Idle \/ task'[s] = task[s]
      BY <1>16 DEF Crash, versionVars, localVars
    <2>2. \A c \in Device : retry'[c].pc = "idle"
      BY <1>0, <1>16, <1>e DEF Crash, RetryIdle, LocalTyped
    <2>3. Idle.pc = "idle"
      BY DEF Idle
    <2>4. TasksExact'
      BY <1>o, <1>v, <2>1, <2>3, IdleExact DEF TasksExact
    <2> QED
      BY <2>1, <2>2, <2>4 DEF Exact
  <1>17. CASE UNCHANGED vars
    BY <1>17 DEF vars, versionVars, localVars, Exact, TasksExact
  <1> QED
    BY <1>1, <1>2, <1>3, <1>4, <1>5, <1>6, <1>7, <1>8, <1>9, <1>10, <1>11,
       <1>12, <1>13, <1>14, <1>15, <1>16, <1>17
       DEF Next, BackupStep, RestoreStep, Faulty

LEMMA InitExact == Init => Exact
  <1> SUFFICES ASSUME Init PROVE Exact
    OBVIOUS
  <1>1. Idle.pc = "idle" /\ \A t \in Task : task[t] = Idle
    BY DEF Init, Idle
  <1>2. TasksExact
    BY <1>1, IdleExact DEF TasksExact
  <1> QED
    BY <1>2 DEF Init, VersionsInit, Exact, AtHead, RetryIdle

LEMMA NeverLess == Typed /\ Typed' /\ [Next]_vars /\ fails' = 0 => fails = 0
  <1> SUFFICES ASSUME Typed, [Next]_vars, fails' = 0 PROVE fails = 0
    OBVIOUS
  <1>1. fails \in Nat
    BY DEF Typed, LocalTyped
  <1>2. fails' = fails \/ fails' = fails + 1
    BY DEF Next, Save, StartBackup, StartRestore, BackupStep, Scan, Pack, PackFails,
           Send, SendRefused, Settle, Confirm, Count, Enqueue, QueueBase, QueueFlag, RestoreStep,
           List, Write, Sweep, SweepFails, SweepBut, Adopt, RetryStep, RetrySend, RetryHead, RetryRemove,
           Resolve, Faulty, SendAnswerLost, SendFails, ListFails, RetryAnswerLost,
           RetryRefused, RetryFails, Postpone, Fail, Crash, vars, faultVars
  <1> QED
    BY <1>1, <1>2

\* A device that runs one task at a time, never while its game saves, and whose
\* calls have neither failed so far nor are refused.
LEMMA ExactHolds ==
  ASSUME Quiescent, Orphaned = {}
  PROVE  Spec /\ []Alone => []Typed /\ [](fails = 0 => Exact)
  <1>1. Inv /\ Typed /\ Alone /\ (fails = 0 => Exact) /\ [Next]_vars
          => Inv' /\ Typed' /\ (fails = 0 => Exact)'
    BY NextSound, NextTyped, NeverLess, NextExact
  <1>2. Init => Inv /\ Typed /\ (fails = 0 => Exact)
    BY InitSound, InitTyped, InitExact
  <1> QED
    BY <1>1, <1>2, PTL DEF Spec

\* As long as no call has failed or is refused and no two tasks of a device overlap, restoring
\* any version yields exactly the files it declares, through conflicts, branches,
\* pre-restore backups and crashes at any step (run_backup: every differential
\* sits on a parent whose content is its diff base).
THEOREM ChainsSound ==
  ASSUME Quiescent, Orphaned = {}
  PROVE  Spec /\ []Alone => [](fails = 0 => ChainSound)
  <1>1. Typed /\ Exact => ChainSound
    BY FittingChains DEF Typed, Exact
  <1>2. Typed /\ (fails = 0 => Exact) => (fails = 0 => ChainSound)
    BY <1>1
  <1> QED
    BY <1>2, ExactHolds, PTL

\* Under the same conditions a restore that records its target as the local head
\* has left exactly the files that the target declares, also when an earlier
\* restore of the device died between two files (run_restore: write, sweep, adopt).
THEOREM RestoresExact ==
  ASSUME Quiescent, Orphaned = {}
  PROVE  Spec /\ []Alone => [](fails = 0 => RestoreExact)
  <1>1. Exact => RestoreExact
    BY DEF Exact, TasksExact, ExactIn, RestoreExact
  <1>2. (fails = 0 => Exact) => (fails = 0 => RestoreExact)
    BY <1>1
  <1> QED
    BY <1>2, ExactHolds, PTL
=============================================================================
