--------------------------------- MODULE Sync ---------------------------------
(***************************************************************************)
(* Backup, outbox retry and restore of one game by the daemons of several  *)
(* devices (backup.rs, restore.rs, the snapshot/outbox/meta tables of      *)
(* state.rs), against the server's version rows (Versions).                *)
(*                                                                         *)
(* A save is a function from files to contents.  An archive records the    *)
(* listing it declares and what it physically holds; Versions' blob is the *)
(* archive itself in place of its hash.  Each step ends at an await: a     *)
(* database write, a server call, or a file swapped into place.  Launching *)
(* a game, saving and closing it is one Save.                              *)
(***************************************************************************)
EXTENDS Versions, Sequences

CONSTANTS
    Device,
    Task,           \* concurrent backup or restore tasks
    TaskDevice,     \* the device each task runs on
    game,           \* the game under consideration
    File, Val,      \* save files and their possible contents
    Absent,         \* the file does not exist
    Kept,           \* the archive says nothing about the file
    FullEvery,      \* config.full_every
    Orphaned,       \* archives whose object is on the server without its row
    MaxSaves, MaxFail, MaxCrash,    \* bounds per behaviour
    AutoPull,       \* TRUE: config.autopull is "auto"
    Quiescent       \* TRUE: no game saves while a task of its device runs

Content == [File -> Val \cup {Absent}]

Archive == [files : Content, data : [File -> Val \cup {Absent, Kept}]]

ASSUME TaskAssumption == TaskDevice \in [Task -> Device]
ASSUME GameAssumption == game \in Game
ASSUME MarkAssumption == Absent \notin Val /\ Kept \notin Val /\ Absent # Kept
ASSUME ArchiveAssumption == Hash = Archive /\ NULL \notin Request \cup Content
ASSUME OrphanedAssumption == Orphaned \subseteq Archive
ASSUME SyncBoundsAssumption ==
    /\ FullEvery \in Nat /\ MaxSaves \in Nat /\ MaxFail \in Nat
    /\ MaxCrash \in Nat /\ AutoPull \in BOOLEAN /\ Quiescent \in BOOLEAN

VARIABLES
    disk,       \* disk[d]: the save on device d
    base,       \* base[d]: local_snapshots row [files, head], or NULL
    unconf,     \* unconf[d]: the "unconfirmed" meta flag, 0 or 1
    diffs,      \* diffs[d]: the "diffcount" meta counter
    outbox,     \* outbox[d]: queued requests, oldest first
    task,       \* task[t]
    retry,      \* retry[d]: the outbox loop
    saves, fails, crashes

localVars == <<base, unconf, diffs, outbox>>
faultVars == <<saves, fails, crashes>>
vars == <<versionVars, disk, localVars, task, retry, faultVars>>

Idle == [pc |-> "idle", goal |-> "backup", target |-> NULL, snap |-> NULL,
         last |-> NULL, prior |-> 0, req |-> NULL, ver |-> NULL,
         answer |-> "none", merged |-> NULL, todo |-> {}]

RetryIdle == [pc |-> "idle", ver |-> NULL]

TaskPc == {"idle", "scan", "pack", "send", "settle", "confirm", "count",
           "enqueue", "queuebase", "queueflag", "list", "write", "adopt"}

Base == [files : Content, head : VersionId \cup {NULL}]

ASSUME BaseAssumption == NULL \notin Base

TaskState ==
    [pc : TaskPc, goal : {"backup", "restore", "pull"},
     target : VersionId \cup {NULL}, snap : Content \cup {NULL},
     last : Base \cup {NULL}, prior : Nat, req : Request \cup {NULL},
     ver : VersionId \cup {NULL}, answer : {"none", "created", "conflict", "queued"},
     merged : Content \cup {NULL}, todo : SUBSET File]

TypeOK ==
    /\ VersionsTypeOK
    /\ disk \in [Device -> Content]
    /\ base \in [Device -> Base \cup {NULL}]
    /\ unconf \in [Device -> {0, 1}]
    /\ diffs \in [Device -> Nat]
    /\ outbox \in [Device -> Seq(Request)]
    /\ task \in [Task -> TaskState]
    /\ retry \in [Device -> [pc : {"idle", "head", "remove"},
                             ver : VersionId \cup {NULL}]]
    /\ saves \in 0..MaxSaves /\ fails \in 0..MaxFail /\ crashes \in 0..MaxCrash

Init ==
    /\ VersionsInit
    /\ disk = [d \in Device |-> [f \in File |-> Absent]]
    /\ base = [d \in Device |-> NULL]
    /\ unconf = [d \in Device |-> 0]
    /\ diffs = [d \in Device |-> 0]
    /\ outbox = [d \in Device |-> << >>]
    /\ task = [t \in Task |-> Idle]
    /\ retry = [d \in Device |-> RetryIdle]
    /\ saves = 0 /\ fails = 0 /\ crashes = 0

-----------------------------------------------------------------------------
(***************************************************************************)
(* Archives and restore chains                                             *)
(***************************************************************************)

\* snapshot::diff and pack: what the archive of a backup holds.  The listing
\* was read by the scan (new); file contents are read again when packing (now).
Changed(old, new) == {f \in File : new[f] # Absent /\ old[f] # new[f]}
Deleted(old, new) == {f \in File : new[f] = Absent /\ old[f] # Absent}

FullData(new, now) == [f \in File |-> IF new[f] = Absent THEN Absent ELSE now[f]]

\* Faulty variant: the deletions list is left out.
DiffDataNoDeletions(old, new, now) ==
    [f \in File |-> IF f \in Changed(old, new) THEN now[f] ELSE Kept]

DiffData(old, new, now) ==
    [f \in File |-> IF f \in Changed(old, new) THEN now[f]
                    ELSE IF f \in Deleted(old, new) THEN Absent ELSE Kept]

\* Restoring an archive over what the chain built so far.
Overlay(c, data) == [f \in File |-> IF data[f] = Kept THEN c[f] ELSE data[f]]

\* What unpacking the chain of each version yields, full first (build_chain).
Rebuilt ==
    LET r[v \in DOMAIN versions] ==
          IF versions[v].kind = "full" THEN versions[v].blob.data
          ELSE Overlay(r[versions[v].parent], versions[v].blob.data)
    IN  r

-----------------------------------------------------------------------------
(***************************************************************************)
(* The player                                                              *)
(***************************************************************************)
Busy(d) == \E t \in Task : TaskDevice[t] = d /\ task[t].pc # "idle"

Save(d, f, x) ==
    /\ saves < MaxSaves
    /\ Quiescent => ~Busy(d)
    /\ disk[d][f] # x
    /\ disk' = [disk EXCEPT ![d][f] = x]
    /\ saves' = saves + 1
    /\ UNCHANGED <<versionVars, localVars, task, retry, fails, crashes>>

-----------------------------------------------------------------------------
(***************************************************************************)
(* run_backup                                                              *)
(***************************************************************************)

\* A task goes on to its next step.
Goto(t, pc) == task' = [task EXCEPT ![t].pc = pc]

\* The backup is over: a restore goes on, its pre-restore backup being done.
BackupOver(t, answer) ==
    task' = [task EXCEPT ![t] =
                IF @.goal = "backup" THEN Idle
                ELSE [Idle EXCEPT !.pc = "list", !.goal = task[t].goal,
                                  !.target = task[t].target, !.answer = answer]]

\* backup_now / trigger_backup, restore, on_version_available (auto-pull).
StartBackup(t) ==
    /\ task[t].pc = "idle"
    /\ Goto(t, "scan")
    /\ UNCHANGED <<versionVars, disk, localVars, retry, faultVars>>

\* Faulty variant: no pre-restore backup.
StartRestoreBare(t, goal, v) ==
    /\ task[t].pc = "idle"
    /\ goal = "pull" => AutoPull
    /\ v \in DOMAIN versions
    /\ task' = [task EXCEPT ![t] = [Idle EXCEPT !.pc = "list", !.goal = goal,
                                                !.target = v]]
    /\ UNCHANGED <<versionVars, disk, localVars, retry, faultVars>>

StartRestore(t, goal, v) ==
    /\ task[t].pc = "idle"
    /\ goal = "pull" => AutoPull
    /\ v \in DOMAIN versions
    /\ task' = [task EXCEPT ![t] = [Idle EXCEPT !.pc = "scan", !.goal = goal,
                                                !.target = v]]
    /\ UNCHANGED <<versionVars, disk, localVars, retry, faultVars>>

\* Snapshot::build and get_snapshot; unchanged saves end the backup here.
Scan(t) ==
    LET d == TaskDevice[t]
    IN  /\ task[t].pc = "scan"
        /\ IF base[d] # NULL /\ base[d].files = disk[d]
           THEN BackupOver(t, "none")
           ELSE task' = [task EXCEPT ![t].pc = "pack", ![t].snap = disk[d],
                                     ![t].last = base[d]]
        /\ UNCHANGED <<versionVars, disk, localVars, retry, faultVars>>

\* Full vs differential: full_every is u32::MAX for a pre-restore backup.
KindOf(t) ==
    LET d == TaskDevice[t]
    IN  IF \/ task[t].last = NULL
           \/ task[t].last.head = NULL
           \/ task[t].goal = "backup" /\ diffs[d] >= FullEvery
           \/ unconf[d] = 1
        THEN "full" ELSE "diff"

PackData(t) ==
    LET now == disk[TaskDevice[t]]
    IN  IF KindOf(t) = "full" THEN FullData(task[t].snap, now)
        ELSE DiffData(task[t].last.files, task[t].snap, now)

\* Files the archive must read; one that vanished since the scan fails it.
Packed(t) ==
    IF KindOf(t) = "full" THEN {f \in File : task[t].snap[f] # Absent}
    ELSE Changed(task[t].last.files, task[t].snap)

Pack(t) ==
    LET d == TaskDevice[t]
    IN  /\ task[t].pc = "pack"
        /\ \A f \in Packed(t) : disk[d][f] # Absent
        /\ task' = [task EXCEPT
                      ![t].pc = "send", ![t].prior = diffs[d],
                      ![t].req = [game |-> game,
                                  parent |-> IF task[t].last = NULL THEN NULL
                                             ELSE task[t].last.head,
                                  kind |-> KindOf(t),
                                  blob |-> [files |-> task[t].snap,
                                            data |-> PackData(t)]]]
        /\ UNCHANGED <<versionVars, disk, localVars, retry, faultVars>>

\* The archive cannot be built: run_backup fails, and with it a restore.
PackFails(t) ==
    /\ task[t].pc = "pack"
    /\ \E f \in Packed(t) : disk[TaskDevice[t]][f] = Absent
    /\ task' = [task EXCEPT ![t] = Idle]
    /\ UNCHANGED <<versionVars, disk, localVars, retry, faultVars>>

\* upload_version: the object of an orphaned archive is found, so that it is not
\* put again and its row is never made, and the version is refused.
Accepted(req) == req.blob \notin Orphaned

\* The outcome create_version reports: 201 or 409.
Outcome(req) == IF head[req.game] = req.parent THEN "created" ELSE "conflict"

Send(t, id) ==
    /\ task[t].pc = "send"
    /\ Accepted(task[t].req)
    /\ CreateVersion(id, task[t].req)
    /\ task' = [task EXCEPT ![t].pc = "settle", ![t].ver = id,
                            ![t].answer = Outcome(task[t].req)]
    /\ UNCHANGED <<disk, localVars, retry, faultVars>>

\* One more call that fails for now.
Fail == fails < MaxFail /\ fails' = fails + 1

\* Refused for good; run_backup does not tell it from a failure.
SendRefused(t) ==
    /\ task[t].pc = "send"
    /\ ~Accepted(task[t].req)
    /\ Goto(t, "enqueue")
    /\ UNCHANGED <<versionVars, disk, localVars, retry, faultVars>>

\* The server stores the version but the answer never arrives.
SendAnswerLost(t, id) ==
    /\ task[t].pc = "send"
    /\ Accepted(task[t].req)
    /\ CreateVersion(id, task[t].req)
    /\ Goto(t, "enqueue")
    /\ Fail
    /\ UNCHANGED <<disk, localVars, retry, saves, crashes>>

\* Server unreachable, or the daemon not authenticated.
SendFails(t) ==
    /\ task[t].pc = "send"
    /\ Goto(t, "enqueue")
    /\ Fail
    /\ UNCHANGED <<versionVars, disk, localVars, retry, saves, crashes>>

PutSnapshot(d, files, hd) ==
    base' = [base EXCEPT ![d] = [files |-> files, head |-> hd]]

Settle(t) ==
    /\ task[t].pc = "settle"
    /\ PutSnapshot(TaskDevice[t], task[t].snap, task[t].ver)
    /\ Goto(t, "confirm")
    /\ UNCHANGED <<versionVars, disk, unconf, diffs, outbox, retry, faultVars>>

Confirm(t) ==
    /\ task[t].pc = "confirm"
    /\ unconf' = [unconf EXCEPT ![TaskDevice[t]] = 0]
    /\ IF task[t].answer = "created" THEN Goto(t, "count") ELSE BackupOver(t, "conflict")
    /\ UNCHANGED <<versionVars, disk, base, diffs, outbox, retry, faultVars>>

\* Faulty variant: the counter runs down.
CountDown(t) ==
    /\ task[t].pc = "count"
    /\ diffs' = [diffs EXCEPT ![TaskDevice[t]] =
                    IF task[t].req.kind = "full" THEN 0
                    ELSE task[t].prior - 1]
    /\ BackupOver(t, "created")
    /\ UNCHANGED <<versionVars, disk, base, unconf, outbox, retry, faultVars>>

\* bump_diff_counter, not reached on the conflict path.
Count(t) ==
    /\ task[t].pc = "count"
    /\ diffs' = [diffs EXCEPT ![TaskDevice[t]] =
                    IF task[t].req.kind = "full" THEN 0
                    ELSE task[t].prior + 1]
    /\ BackupOver(t, "created")
    /\ UNCHANGED <<versionVars, disk, base, unconf, outbox, retry, faultVars>>

\* Faulty variant: the diff base is advanced before the outbox row is written.
EnqueueLast(t) ==
    LET d == TaskDevice[t]
    IN  /\ task[t].pc = "enqueue"
        /\ base' = [base EXCEPT ![d] = [files |-> task[t].snap,
                                        head |-> task[t].req.parent]]
        /\ outbox' = [outbox EXCEPT ![d] = IF base[d] = base'[d]
                                           THEN Append(@, task[t].req) ELSE @]
        /\ Goto(t, IF base[d] = base'[d] THEN "queuebase" ELSE "enqueue")
        /\ UNCHANGED <<versionVars, disk, unconf, diffs, retry, faultVars>>

\* queue_backup: outbox row, then diff base under the old head, then flag.
Enqueue(t) ==
    LET d == TaskDevice[t]
    IN  /\ task[t].pc = "enqueue"
        /\ outbox' = [outbox EXCEPT ![d] = Append(@, task[t].req)]
        /\ Goto(t, "queuebase")
        /\ UNCHANGED <<versionVars, disk, base, unconf, diffs, retry, faultVars>>

QueueBase(t) ==
    /\ task[t].pc = "queuebase"
    /\ PutSnapshot(TaskDevice[t], task[t].snap, task[t].req.parent)
    /\ Goto(t, "queueflag")
    /\ UNCHANGED <<versionVars, disk, unconf, diffs, outbox, retry, faultVars>>

QueueFlag(t) ==
    /\ task[t].pc = "queueflag"
    /\ unconf' = [unconf EXCEPT ![TaskDevice[t]] = 1]
    /\ BackupOver(t, "queued")
    /\ UNCHANGED <<versionVars, disk, base, diffs, outbox, retry, faultVars>>

-----------------------------------------------------------------------------
(***************************************************************************)
(* retry_outbox, run by one loop per device (outbox_loop).  Items are sent *)
(* in the order of their due times; a failed attempt postpones its item.   *)
(***************************************************************************)
RetrySend(d, id) ==
    /\ retry[d].pc = "idle"
    /\ outbox[d] # << >>
    /\ Accepted(Head(outbox[d]))
    /\ CreateVersion(id, Head(outbox[d]))
    /\ retry' = [retry EXCEPT ![d] = [pc |-> "head", ver |-> id]]
    /\ UNCHANGED <<disk, localVars, task, faultVars>>

\* bump_outbox_attempt: the item is due again after the others.
Postpone(d) ==
    /\ retry[d].pc = "idle"
    /\ outbox[d] # << >>
    /\ outbox' = [outbox EXCEPT ![d] = Append(Tail(@), Head(@))]
    /\ UNCHANGED <<disk, base, unconf, diffs, task, retry, saves, crashes>>

RetryFails(d) == Postpone(d) /\ Fail /\ UNCHANGED versionVars

\* Faulty variant: the refused item stays in front of the others.
RetryRefusedInPlace(d) ==
    /\ retry[d].pc = "idle"
    /\ outbox[d] # << >>
    /\ ~Accepted(Head(outbox[d]))
    /\ UNCHANGED vars

RetryRefused(d) ==
    /\ Postpone(d)
    /\ ~Accepted(Head(outbox[d]))
    /\ UNCHANGED <<versionVars, fails>>

\* The server stores the version but the answer never arrives.
RetryAnswerLost(d, id) ==
    /\ Postpone(d)
    /\ Fail
    /\ Accepted(Head(outbox[d]))
    /\ CreateVersion(id, Head(outbox[d]))

\* set_local_head: only the head of the row changes.
RetryHead(d) ==
    /\ retry[d].pc = "head"
    /\ base' = IF base[d] = NULL THEN base
               ELSE [base EXCEPT ![d].head = retry[d].ver]
    /\ retry' = [retry EXCEPT ![d].pc = "remove"]
    /\ UNCHANGED <<versionVars, disk, unconf, diffs, outbox, task, faultVars>>

\* Faulty variant: the row stays after a confirmed upload.
RetryRemoveNot(d) ==
    /\ retry[d].pc = "remove"
    /\ retry' = [retry EXCEPT ![d] = RetryIdle]
    /\ UNCHANGED <<versionVars, disk, localVars, task, faultVars>>

RetryRemove(d) ==
    /\ retry[d].pc = "remove"
    /\ outbox' = [outbox EXCEPT ![d] = Tail(@)]
    /\ retry' = [retry EXCEPT ![d] = RetryIdle]
    /\ UNCHANGED <<versionVars, disk, base, unconf, diffs, task, faultVars>>

-----------------------------------------------------------------------------
(***************************************************************************)
(* run_restore, after its pre-restore backup                               *)
(***************************************************************************)

\* list_versions, build_chain, download and merge of the chain.
List(t) ==
    LET merged == Rebuilt[task[t].target]
    IN  /\ task[t].pc = "list"
        /\ task' = [task EXCEPT ![t].pc = "write", ![t].merged = merged,
                        ![t].todo = {f \in File : merged[f] # Absent}]
        /\ UNCHANGED <<versionVars, disk, localVars, retry, faultVars>>

\* Any of these calls fails: the restore is abandoned before touching a file.
ListFails(t) ==
    /\ task[t].pc = "list"
    /\ task' = [task EXCEPT ![t] = Idle]
    /\ Fail
    /\ UNCHANGED <<versionVars, disk, localVars, retry, saves, crashes>>

\* One file is copied aside and renamed into place.
Write(t, f) ==
    LET d == TaskDevice[t]
    IN  /\ task[t].pc = "write"
        /\ f \in task[t].todo
        /\ disk' = [disk EXCEPT ![d][f] = task[t].merged[f]]
        /\ task' = [task EXCEPT ![t].todo = @ \ {f}]
        /\ UNCHANGED <<versionVars, localVars, retry, faultVars>>

\* Files of the last snapshot that the target no longer has.
Gone(t) ==
    LET last == base[TaskDevice[t]]
    IN  {f \in File : /\ last # NULL /\ last.files[f] # Absent
                      /\ task[t].merged[f] = Absent}

\* They are removed, except those whose removal fails.
SweepBut(t, kept) ==
    LET d == TaskDevice[t]
    IN  /\ task[t].pc = "write"
        /\ task[t].todo = {}
        /\ disk' = [disk EXCEPT ![d] = [f \in File |-> IF f \in Gone(t) \ kept
                                                       THEN Absent
                                                       ELSE disk[d][f]]]
        /\ Goto(t, "adopt")
        /\ UNCHANGED <<versionVars, localVars, retry>>

\* Faulty variant: the sweep compares with the target's own listing.
SweepTargetOnly(t) ==
    /\ task[t].pc = "write"
    /\ task[t].todo = {}
    /\ Goto(t, "adopt")
    /\ UNCHANGED <<versionVars, disk, localVars, retry, faultVars>>

\* All swapped in; files of the last snapshot that the target lacks are removed.
Sweep(t) == SweepBut(t, {}) /\ UNCHANGED faultVars

\* Some cannot be removed: run_restore ignores the error and goes on.
SweepFails(t) ==
    /\ task[t].pc = "write"
    /\ \E kept \in SUBSET Gone(t) : kept # {} /\ SweepBut(t, kept)
    /\ Fail
    /\ UNCHANGED <<saves, crashes>>

\* The listing the target declares becomes the diff base.
Adopt(t) ==
    /\ task[t].pc = "adopt"
    /\ PutSnapshot(TaskDevice[t], versions[task[t].target].blob.files,
                   task[t].target)
    /\ task' = [task EXCEPT ![t] = Idle]
    /\ UNCHANGED <<versionVars, disk, unconf, diffs, outbox, retry, faultVars>>

-----------------------------------------------------------------------------
\* The user settles a conflict; the winner is one of the tips it showed.
Resolve(winner) ==
    /\ head[game] # winner
    /\ ResolveConflict(game, winner)
    /\ UNCHANGED <<disk, localVars, task, retry, faultVars>>

\* The daemon of d dies and starts again: only its database and disk survive.
Crash(d) ==
    /\ crashes < MaxCrash
    /\ Busy(d) \/ retry[d].pc # "idle"
    /\ task' = [t \in Task |-> IF TaskDevice[t] = d THEN Idle ELSE task[t]]
    /\ retry' = [retry EXCEPT ![d] = RetryIdle]
    /\ crashes' = crashes + 1
    /\ UNCHANGED <<versionVars, disk, localVars, saves, fails>>

BackupStep(t) ==
    \/ Scan(t) \/ Pack(t) \/ PackFails(t)
    \/ (\E id \in VersionId : Send(t, id)) \/ SendRefused(t)
    \/ Settle(t) \/ Confirm(t) \/ Count(t)
    \/ Enqueue(t) \/ QueueBase(t) \/ QueueFlag(t)

RestoreStep(t) ==
    \/ List(t) \/ (\E f \in File : Write(t, f))
    \/ Sweep(t) \/ Adopt(t)

RetryStep(d) ==
    \/ (\E id \in VersionId : RetrySend(d, id)) \/ RetryRefused(d)
    \/ RetryHead(d)
    \/ RetryRemove(d)

Faulty ==
    \/ \E t \in Task : \/ \E id \in VersionId : SendAnswerLost(t, id)
                       \/ SendFails(t)
                       \/ ListFails(t)
                       \/ SweepFails(t)
    \/ \E d \in Device : \/ \E id \in VersionId : RetryAnswerLost(d, id)
                         \/ RetryFails(d)
                         \/ Crash(d)

Next ==
    \/ \E d \in Device, f \in File, x \in Val \cup {Absent} : Save(d, f, x)
    \/ \E t \in Task : \/ StartBackup(t)
                       \/ \E goal \in {"restore", "pull"}, v \in VersionId :
                             StartRestore(t, goal, v)
                       \/ BackupStep(t)
                       \/ RestoreStep(t)
    \/ \E d \in Device : RetryStep(d)
    \/ \E winner \in VersionId : Resolve(winner)
    \/ Faulty

Spec == Init /\ [][Next]_vars

\* Tasks run on once started, and the outbox loop ticks every 30 s.
Fairness ==
    /\ \A t \in Task : WF_vars(BackupStep(t) \/ RestoreStep(t))
    /\ \A d \in Device : WF_vars(RetryStep(d))

FairSpec == Spec /\ Fairness

-----------------------------------------------------------------------------
(***************************************************************************)
(* Properties                                                              *)
(***************************************************************************)

\* The listings declared by what device d could get back from the server or
\* from its own outbox.
Declared(d) ==
    {versions[v].blob.files : v \in DOMAIN versions}
        \cup {outbox[d][i].blob.files : i \in DOMAIN outbox[d]}

\* Restoring any version yields exactly the files it declares: every
\* differential sits on a parent whose content is its diff base
\* (backup.rs:154-158).
ChainSound == \A v \in DOMAIN versions : Rebuilt[v] = versions[v].blob.files

\* What a device believes to be backed up (and will therefore not back up
\* again) is on the server or in its outbox, across failed uploads, lost
\* answers and crashes between the writes of queue_backup (backup.rs:222-226).
BaseDurable == \A d \in Device : base[d] # NULL => base[d].files \in Declared(d)

\* A file a restore replaces or deletes has its content in some version or
\* queued backup (PRD-03 section 6, the pre-restore backup).
RestoreUndoable ==
    [][\A t \in Task :
          LET d == TaskDevice[t]
          IN  task[t].pc = "write" /\ task'[t] # task[t] =>
                \A f \in File : disk[d][f] # disk'[d][f] =>
                    \E c \in Declared(d) : c[f] = disk[d][f]]_vars

\* When a restore records its target as the local head, the save is the one
\* the target declares: nothing missing and nothing left over, as long as
\* nothing fails (restore.rs:99-130).
RestoreExact ==
    \A t \in Task : task[t].pc = "adopt" =>
        disk[TaskDevice[t]] = versions[task[t].target].blob.files

\* An auto-pull only overwrites saves that are unchanged since the last sync
\* (engine.rs:814-815, PRD-03 section 5).
\* Does not hold: README, "Disagreements without a run".
PullOnlyWhenClean ==
    \A t \in Task : task[t].goal = "pull" /\ task[t].pc = "write" =>
        task[t].answer = "none"

\* Number of differentials between each version and its full.
Depth ==
    LET r[v \in DOMAIN versions] ==
          IF versions[v].kind = "full" THEN 0 ELSE 1 + r[versions[v].parent]
    IN  r

\* No restore chain has more differentials than full_every allows
\* (backup.rs:92-93, PRD-03 section 2).
\* Does not hold: README, "Disagreements without a run".
ChainCapped == \A v \in DOMAIN versions : Depth[v] <= FullEvery

\* Something is queued that the server would take.
Sendable(d) == \E i \in DOMAIN outbox[d] : Accepted(outbox[d][i])

\* Once failures stop, a queue comes back to nothing but what the server refuses
\* for good: a lost answer, a failed retry or a refused item in front holds up
\* none of the backups behind it (PRD-03 section 8, retry_outbox).
OutboxDrains == \A d \in Device : Sendable(d) ~> ~Sendable(d)
=============================================================================
