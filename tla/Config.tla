-------------------------------- MODULE Config --------------------------------
(***************************************************************************)
(* The account configuration: the server's row under optimistic            *)
(* concurrency (db.rs, api.rs), each daemon's copy (engine.rs              *)
(* update_config and pull_config, state.rs synced_config) and the form of  *)
(* the Settings view, which keeps the tag it was loaded with.              *)
(*                                                                         *)
(* A tag is the number of the write that minted it; 0 is the empty tag of  *)
(* SyncedConfig::default().                                                *)
(***************************************************************************)
EXTENDS Naturals

CONSTANTS
    Device,
    Data,       \* contents of a configuration
    Default,    \* the contents of SyncedConfig::default()
    NULL,
    MaxTag,     \* bound on successful writes
    MaxFail     \* bound on failed calls

VARIABLES
    row,        \* config row of the account
    writer,     \* the device that wrote it, or NULL (ghost)
    local,      \* local[d]: meta "synced_config", or NULL
    form,       \* form[d]: what the Settings view holds, or NULL
    push,       \* push[d]: the PUT of an update_config
    pull,       \* pull[d]: the pull_config of the socket loop
    notice,     \* devices with a ConfigUpdated in their channel
    got,        \* got[d]: tags of the configurations d got so far (ghost)
    fails

vars == <<row, writer, local, form, push, pull, notice, got, fails>>

Cfg == [tag : 0..MaxTag, data : Data]

ASSUME ConfigAssumption ==
    /\ Default \in Data
    /\ NULL \notin Device /\ NULL \notin Cfg
    /\ MaxTag \in Nat \ {0} /\ MaxFail \in Nat

NoPush == [pc |-> "idle", cfg |-> NULL]
NoPull == [pc |-> "idle", cfg |-> NULL]

TypeOK ==
    /\ row \in Cfg
    /\ writer \in Device \cup {NULL}
    /\ local \in [Device -> Cfg \cup {NULL}]
    /\ form \in [Device -> Cfg \cup {NULL}]
    /\ push \in [Device -> [pc : {"idle", "read", "swap", "adopt"},
                            cfg : Cfg \cup {NULL}]]
    /\ pull \in [Device -> [pc : {"idle", "store"}, cfg : Cfg \cup {NULL}]]
    /\ notice \subseteq Device
    /\ got \in [Device -> SUBSET (0..MaxTag)]
    /\ fails \in 0..MaxFail

\* The owner bootstrap seeded the row; no device has a copy.
Init ==
    /\ row = [tag |-> 1, data |-> Default]
    /\ writer = NULL
    /\ local = [d \in Device |-> NULL]
    /\ form = [d \in Device |-> NULL]
    /\ push = [d \in Device |-> NoPush]
    /\ pull = [d \in Device |-> NoPull]
    /\ notice = {}
    /\ got = [d \in Device |-> {}]
    /\ fails = 0

-----------------------------------------------------------------------------
\* GetConfig: the daemon's copy, or the default.
OpenSettings(d) ==
    /\ push[d].pc = "idle"
    /\ form' = [form EXCEPT ![d] = IF local[d] = NULL
                                   THEN [tag |-> 0, data |-> Default]
                                   ELSE local[d]]
    /\ UNCHANGED <<row, writer, local, push, pull, notice, got, fails>>

\* The user edits and saves: update_config stores the form, then PUTs it.
SaveSettings(d, x) ==
    /\ push[d].pc = "idle"
    /\ form[d] # NULL
    /\ form[d].data # x
    /\ LET cfg == [form[d] EXCEPT !.data = x]
       IN  /\ form' = [form EXCEPT ![d] = cfg]
           /\ local' = [local EXCEPT ![d] = cfg]
           /\ push' = [push EXCEPT ![d] = [pc |-> "read", cfg |-> cfg]]
    /\ UNCHANGED <<row, writer, pull, notice, got, fails>>

\* put_config, first half: 409 unless the stored tag is the client's.
PutRead(d) ==
    /\ push[d].pc = "read"
    /\ push' = [push EXCEPT ![d] = IF @.cfg.tag = row.tag
                                   THEN [@ EXCEPT !.pc = "swap"] ELSE NoPush]
    /\ UNCHANGED <<row, writer, local, form, pull, notice, got, fails>>

\* Faulty variant: the fresh tag is not bound.
StoreRowUntagged(data, by) ==
    /\ row.tag < MaxTag
    /\ row' = [tag |-> NULL, data |-> data]
    /\ writer' = by
    /\ notice' = notice \cup (Device \ {by})

\* A write replaces the row under a fresh tag; the other devices are notified.
StoreRow(data, by) ==
    /\ row.tag < MaxTag
    /\ row' = [tag |-> row.tag + 1, data |-> data]
    /\ writer' = by
    /\ notice' = notice \cup (Device \ {by})

\* Faulty variant: UPDATE without the tag in its WHERE clause.
PutSwapBlind(d) ==
    /\ push[d].pc = "swap"
    /\ StoreRow(push[d].cfg.data, d)
    /\ push' = [push EXCEPT ![d] = [pc |-> "adopt", cfg |-> row']]
    /\ UNCHANGED <<local, form, pull, got, fails>>

\* put_config, second half: the tag-guarded UPDATE.
PutSwap(d) ==
    /\ push[d].pc = "swap"
    /\ push[d].cfg.tag = row.tag
    /\ StoreRow(push[d].cfg.data, d)
    /\ push' = [push EXCEPT ![d] = [pc |-> "adopt", cfg |-> row']]
    /\ UNCHANGED <<local, form, pull, got, fails>>

PutSwapLost(d) ==
    /\ push[d].pc = "swap"
    /\ push[d].cfg.tag # row.tag
    /\ push' = [push EXCEPT ![d] = NoPush]
    /\ UNCHANGED <<row, writer, local, form, pull, notice, got, fails>>

\* The daemon adopts the configuration the server returned.
PutAdopt(d) ==
    /\ push[d].pc = "adopt"
    /\ local' = [local EXCEPT ![d] = push[d].cfg]
    /\ got' = [got EXCEPT ![d] = @ \cup {push[d].cfg.tag}]
    /\ push' = [push EXCEPT ![d] = NoPush]
    /\ UNCHANGED <<row, writer, form, pull, notice, fails>>

\* The call fails before it reaches the server, or its answer is lost.
PutFails(d) ==
    /\ fails < MaxFail
    /\ push[d].pc \in {"read", "adopt"}
    /\ push' = [push EXCEPT ![d] = NoPush]
    /\ fails' = fails + 1
    /\ UNCHANGED <<row, writer, local, form, pull, notice, got>>

\* ConfigUpdated: pull_config, a GET and then a write of the copy.
PullRead(d) ==
    /\ d \in notice
    /\ pull[d].pc = "idle"
    /\ notice' = notice \ {d}
    /\ pull' = [pull EXCEPT ![d] = [pc |-> "store", cfg |-> row]]
    /\ UNCHANGED <<row, writer, local, form, push, got, fails>>

PullStore(d) ==
    /\ pull[d].pc = "store"
    /\ local' = [local EXCEPT ![d] = pull[d].cfg]
    /\ got' = [got EXCEPT ![d] = @ \cup {pull[d].cfg.tag}]
    /\ pull' = [pull EXCEPT ![d] = NoPull]
    /\ UNCHANGED <<row, writer, form, push, notice, fails>>

\* The notice dies with its socket, or the GET fails; nothing asks again.
PullFails(d) ==
    /\ fails < MaxFail
    /\ d \in notice
    /\ notice' = notice \ {d}
    /\ fails' = fails + 1
    /\ UNCHANGED <<row, writer, local, form, push, pull, got>>

\* Another client of the REST API reads and updates the configuration.
OtherClientPut(x) ==
    /\ row.data # x
    /\ StoreRow(x, NULL)
    /\ UNCHANGED <<local, form, push, pull, got, fails>>

Next ==
    \/ \E d \in Device : \/ OpenSettings(d)
                         \/ \E x \in Data : SaveSettings(d, x)
                         \/ PutRead(d) \/ PutSwap(d) \/ PutSwapLost(d)
                         \/ PutAdopt(d) \/ PutFails(d)
                         \/ PullRead(d) \/ PullStore(d) \/ PullFails(d)
    \/ \E x \in Data : OtherClientPut(x)

Spec == Init /\ [][Next]_vars

-----------------------------------------------------------------------------
\* A daemon only ever replaces a configuration it has received: however forms,
\* local copies, pulls and the two halves of concurrent PUTs interleave, no
\* edit of another client is overwritten unseen (db.rs:537-538, "surface the
\* conflict instead of clobbering").
NoBlindOverwrite ==
    [][\A d \in Device :
          row' # row /\ writer' = d => row.tag \in got[d]]_vars

\* The server answers 409 to d's PUT.
Refused(d) ==
    /\ push[d].pc \in {"read", "swap"}
    /\ push'[d].pc = "idle"
    /\ fails' = fails

\* A device is never refused over its own last write: it adopted the tag that
\* write was given, so its next edit replaces it
\* (engine.rs:608-611, docs/KNOWN-ISSUES.md:9).
\* Does not hold: README, "Disagreements without a run".
NextEditAccepted ==
    [][\A d \in Device :
          Refused(d) => ~(writer = d /\ row.tag \in got[d])]_vars

\* As long as nobody has changed the seeded configuration, the first edit of a
\* device is accepted: there is nothing it could conflict with
\* (types.rs:202, "synced to every device").
\* Does not hold: README, "Disagreements without a run".
FirstEditAccepted == [][\A d \in Device : Refused(d) => row.tag # 1]_vars

\* A device never goes back to a configuration older than one it already got
\* from the server, although update_config and pull_config write the same copy
\* (engine.rs:608-611).
\* Does not hold: README, "Disagreements without a run".
NeverGoesBack ==
    [][\A d \in Device : \A t \in got[d] :
          /\ PutAdopt(d) => t <= push[d].cfg.tag
          /\ PullStore(d) => t <= pull[d].cfg.tag]_vars
=============================================================================
