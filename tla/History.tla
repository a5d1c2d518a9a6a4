------------------------------- MODULE History -------------------------------
(***************************************************************************)
(* The history service of savr-server: version rows (Versions), blob rows  *)
(* with their reference counts, blob objects on disk, the requests that    *)
(* upload a version (daemon upload_version + the server's blob and version *)
(* handlers) and the retention GC, which runs concurrently with them.      *)
(*                                                                         *)
(* Every SQLite transaction is one step; everything between two of them    *)
(* interleaves.  A step that fails (SQLITE_BUSY, a dropped connection, a   *)
(* process crash) is a HandlerDies, GcDies or Abandon.                     *)
(***************************************************************************)
EXTENDS Versions

CONSTANTS
    Slot,           \* concurrently executing upload attempts
    MaxFaults       \* bound on failures per behaviour

ASSUME FaultsAssumption == MaxFaults \in Nat
ASSUME NullSlotAssumption == NULL \notin Game \cup Hash \cup Request

VARIABLES
    blobRows,   \* blobs.refcount, a function from the hashes with a row
    blobFiles,  \* hashes whose object exists in the blob directory
    pending,    \* packed by a client and not yet acknowledged to it
    packed,     \* hashes of all archives ever packed
    slots,      \* upload attempts
    gc,         \* the GC task
    faults      \* failures so far

blobVars == <<blobRows, blobFiles>>
clientVars == <<pending, packed>>
vars == <<versionVars, blobVars, clientVars, slots, gc, faults>>

NoAttempt == [pc |-> "idle", req |-> NULL, client |-> "gone"]

NoRows == [v \in {} |-> NULL]

GcIdle == [pc |-> "idle", game |-> NULL, head |-> NULL, vers |-> NoRows,
           refs |-> {}, blob |-> NULL]

AttemptPc == {"idle", "head", "put", "row", "post", "commit"}
GcPc == {"idle", "rows", "refs", "losers", "prune", "unlink"}

TypeOK ==
    /\ VersionsTypeOK
    /\ DOMAIN blobRows \subseteq Hash
    /\ blobRows \in [DOMAIN blobRows -> Nat]
    /\ blobFiles \subseteq Hash
    /\ pending \subseteq Request
    /\ packed \subseteq Hash
    /\ slots \in [Slot -> [pc : AttemptPc, req : Request \cup {NULL},
                           client : {"waits", "gone"}]]
    /\ \A s \in Slot : slots[s].pc # "idle" => slots[s].req \in Request
    /\ DOMAIN gc = {"pc", "game", "head", "vers", "refs", "blob"}
    /\ gc.pc \in GcPc
    /\ gc.game \in Game \cup {NULL}
    /\ gc.head \in VersionId \cup {NULL}
    /\ DOMAIN gc.vers \subseteq VersionId
    /\ gc.vers \in [DOMAIN gc.vers -> VersionRow]
    /\ gc.refs \subseteq VersionId
    /\ gc.blob \in Hash \cup {NULL}
    /\ faults \in Nat

Init ==
    /\ VersionsInit
    /\ blobRows = [h \in {} |-> 0]
    /\ blobFiles = {}
    /\ pending = {}
    /\ packed = {}
    /\ slots = [s \in Slot |-> NoAttempt]
    /\ gc = GcIdle
    /\ faults = 0

-----------------------------------------------------------------------------
(***************************************************************************)
(* The client side of an upload                                            *)
(***************************************************************************)

\* run_backup packs an archive: its meta carries a timestamp and the device,
\* so its hash is new.  The parent is a version of the game the device knows.
Pack(req) ==
    /\ req.blob \notin packed
    /\ req.parent \in minted[req.game] \cup {NULL}
    /\ req.kind = "diff" => req.parent # NULL
    /\ pending' = pending \cup {req}
    /\ packed' = packed \cup {req.blob}
    /\ UNCHANGED <<versionVars, blobVars, slots, gc, faults>>

\* upload_version starts, first from run_backup, then from retry_outbox: one
\* client never runs two attempts for the same archive.
Attempt(s, req) ==
    /\ slots[s].pc = "idle"
    /\ req \in pending
    /\ \A t \in Slot : ~(slots[t].client = "waits" /\ slots[t].req = req)
    /\ slots' = [slots EXCEPT ![s] = [pc |-> "head", req |-> req,
                                      client |-> "waits"]]
    /\ UNCHANGED <<versionVars, blobVars, clientVars, gc, faults>>

\* The next HTTP call of an attempt, made only while its client still waits.
Proceed(s, pc) ==
    slots' = [slots EXCEPT ![s] = IF @.client = "waits"
                                  THEN [@ EXCEPT !.pc = pc] ELSE NoAttempt]

\* HEAD /blobs/{hash}: only the object's existence decides to skip the PUT.
BlobHead(s) ==
    /\ slots[s].pc = "head"
    /\ Proceed(s, IF slots[s].req.blob \in blobFiles THEN "post" ELSE "put")
    /\ UNCHANGED <<versionVars, blobVars, clientVars, gc, faults>>

-----------------------------------------------------------------------------
(***************************************************************************)
(* Server handlers                                                         *)
(***************************************************************************)

\* blob_put, first half: the verified upload is renamed into place.
BlobPut(s) ==
    /\ slots[s].pc = "put"
    /\ blobFiles' = blobFiles \cup {slots[s].req.blob}
    /\ slots' = [slots EXCEPT ![s].pc = "row"]
    /\ UNCHANGED <<versionVars, blobRows, clientVars, gc, faults>>

\* Faulty variant: INSERT OR REPLACE resets the refcount of a present row.
BlobRowReplace(s) ==
    /\ slots[s].pc = "row"
    /\ blobRows' = [h \in DOMAIN blobRows \cup {slots[s].req.blob} |->
                        IF h = slots[s].req.blob THEN 0 ELSE blobRows[h]]
    /\ Proceed(s, "post")
    /\ UNCHANGED <<versionVars, blobFiles, clientVars, gc, faults>>

\* blob_put, second half: INSERT OR IGNORE of the row with refcount 0.
BlobRow(s) ==
    /\ slots[s].pc = "row"
    /\ blobRows' = [h \in DOMAIN blobRows \cup {slots[s].req.blob} |->
                        IF h \in DOMAIN blobRows THEN blobRows[h] ELSE 0]
    /\ Proceed(s, "post")
    /\ UNCHANGED <<versionVars, blobFiles, clientVars, gc, faults>>

\* create_version handler, first half: 422 unless the object exists.
PostCheck(s) ==
    /\ slots[s].pc = "post"
    /\ slots' = [slots EXCEPT ![s] = IF @.req.blob \in blobFiles
                                     THEN [@ EXCEPT !.pc = "commit"]
                                     ELSE NoAttempt]
    /\ UNCHANGED <<versionVars, blobVars, clientVars, gc, faults>>

\* The foreign keys of versions hold for the request (else the POST is a 500).
KeysHold(req) == ParentExists(req) /\ req.blob \in DOMAIN blobRows

\* create_version handler, second half: the transaction and, if the client
\* still waits, its acknowledgement (201 and 409 both store the version).
PostCommit(s, id) ==
    LET req == slots[s].req
    IN  /\ slots[s].pc = "commit"
        /\ KeysHold(req)
        /\ CreateVersion(id, req)
        /\ blobRows' = [blobRows EXCEPT ![req.blob] = @ + 1]
        /\ pending' = IF slots[s].client = "waits" THEN pending \ {req} ELSE pending
        /\ slots' = [slots EXCEPT ![s] = NoAttempt]
        /\ UNCHANGED <<blobFiles, packed, gc, faults>>

PostRejected(s) ==
    /\ slots[s].pc = "commit"
    /\ ~KeysHold(slots[s].req)
    /\ slots' = [slots EXCEPT ![s] = NoAttempt]
    /\ UNCHANGED <<versionVars, blobVars, clientVars, gc, faults>>

\* POST /games/{id}/resolve.
Resolve(g, winner) ==
    /\ ResolveConflict(g, winner)
    /\ UNCHANGED <<blobVars, clientVars, slots, gc, faults>>

\* The client times out while the server still executes its request.
Abandon(s) ==
    /\ faults < MaxFaults
    /\ slots[s].client = "waits"
    /\ slots[s].pc \in {"put", "row", "post", "commit"}
    /\ slots' = [slots EXCEPT ![s].client = "gone"]
    /\ faults' = faults + 1
    /\ UNCHANGED <<versionVars, blobVars, clientVars, gc>>

\* The request ends without its next step: crash, lost connection, busy db.
HandlerDies(s) ==
    /\ faults < MaxFaults
    /\ slots[s].pc # "idle"
    /\ slots' = [slots EXCEPT ![s] = NoAttempt]
    /\ faults' = faults + 1
    /\ UNCHANGED <<versionVars, blobVars, clientVars, gc>>

-----------------------------------------------------------------------------
(***************************************************************************)
(* Retention GC: run_gc visits a game with four separate reads, then       *)
(* deletes what it planned, one transaction per version.                   *)
(***************************************************************************)
GcHead(g) ==
    /\ gc.pc = "idle"
    /\ gc' = [GcIdle EXCEPT !.pc = "rows", !.game = g, !.head = head[g]]
    /\ UNCHANGED <<versionVars, blobVars, clientVars, slots, faults>>

GcRows ==
    /\ gc.pc = "rows"
    /\ gc' = IF Rows(gc.game) = {} THEN GcIdle
             ELSE [gc EXCEPT !.pc = "refs",
                             !.vers = [v \in Rows(gc.game) |-> versions[v]]]
    /\ UNCHANGED <<versionVars, blobVars, clientVars, slots, faults>>

\* Faulty variant: the query misses "parent IS NOT NULL".
GcRefsWithNull ==
    /\ gc.pc = "refs"
    /\ gc' = [gc EXCEPT !.pc = "losers",
                        !.refs = {versions[v].parent : v \in Rows(gc.game)}]
    /\ UNCHANGED <<versionVars, blobVars, clientVars, slots, faults>>

GcRefs ==
    /\ gc.pc = "refs"
    /\ gc' = [gc EXCEPT !.pc = "losers",
                        !.refs = {versions[v].parent : v \in Rows(gc.game)}
                                   \ {NULL}]
    /\ UNCHANGED <<versionVars, blobVars, clientVars, slots, faults>>

\* Reads the losers and fixes what to delete: gc.vers becomes the work left.
GcPlan ==
    LET doomed == DOMAIN gc.vers \ Keep(gc.vers, gc.head, gc.refs, losers)
    IN  /\ gc.pc = "losers"
        /\ gc' = [gc EXCEPT !.pc = "prune", !.refs = {},
                            !.vers = [v \in doomed |-> gc.vers[v]]]
        /\ UNCHANGED <<versionVars, blobVars, clientVars, slots, faults>>

\* The oldest version still to delete.
IsNextDoomed(v) ==
    /\ v \in DOMAIN gc.vers
    /\ \A u \in DOMAIN gc.vers : gc.vers[v].seq <= gc.vers[u].seq

\* What deleting version v leaves to do.
Remaining(v) == [u \in DOMAIN gc.vers \ {v} |-> gc.vers[u]]

\* delete_version_and_deref commits; the object of an unreferenced blob is
\* unlinked after the commit.
GcDelete(v) ==
    LET h == gc.vers[v].blob
    IN  /\ gc.pc = "prune"
        /\ IsNextDoomed(v)
        /\ PruneVersion(v)
        /\ IF h \in DOMAIN blobRows /\ blobRows[h] <= 1
           THEN /\ blobRows' = [k \in DOMAIN blobRows \ {h} |-> blobRows[k]]
                /\ gc' = [gc EXCEPT !.pc = "unlink", !.vers = Remaining(v),
                                    !.blob = h]
           ELSE /\ blobRows' = [k \in DOMAIN blobRows |->
                                  IF k = h THEN blobRows[k] - 1 ELSE blobRows[k]]
                /\ gc' = [gc EXCEPT !.vers = Remaining(v)]
        /\ UNCHANGED <<blobFiles, clientVars, slots, faults>>

GcUnlink ==
    /\ gc.pc = "unlink"
    /\ blobFiles' = blobFiles \ {gc.blob}
    /\ gc' = [gc EXCEPT !.pc = "prune", !.blob = NULL]
    /\ UNCHANGED <<versionVars, blobRows, clientVars, slots, faults>>

\* The head's foreign key rejects the delete: run_gc returns the error.
GcRejected(v) ==
    /\ gc.pc = "prune"
    /\ IsNextDoomed(v)
    /\ ~NotAHead(v)
    /\ gc' = GcIdle
    /\ UNCHANGED <<versionVars, blobVars, clientVars, slots, faults>>

GcDone ==
    /\ gc.pc = "prune"
    /\ DOMAIN gc.vers = {}
    /\ gc' = GcIdle
    /\ UNCHANGED <<versionVars, blobVars, clientVars, slots, faults>>

GcDies ==
    /\ faults < MaxFaults
    /\ gc.pc # "idle"
    /\ gc' = GcIdle
    /\ faults' = faults + 1
    /\ UNCHANGED <<versionVars, blobVars, clientVars, slots>>

-----------------------------------------------------------------------------
SlotStep(s) ==
    \/ \E req \in pending : Attempt(s, req)
    \/ BlobHead(s)
    \/ BlobPut(s)
    \/ BlobRow(s)
    \/ PostCheck(s)
    \/ \E id \in VersionId : PostCommit(s, id)
    \/ PostRejected(s)

GcStep ==
    \/ GcRows
    \/ GcRefs
    \/ GcPlan
    \/ \E v \in DOMAIN gc.vers : GcDelete(v) \/ GcRejected(v)
    \/ GcUnlink
    \/ GcDone

Next ==
    \/ \E req \in Request : Pack(req)
    \/ \E s \in Slot : SlotStep(s) \/ Abandon(s) \/ HandlerDies(s)
    \/ \E g \in Game, winner \in VersionId : Resolve(g, winner)
    \/ \E g \in Game : GcHead(g)
    \/ GcStep
    \/ GcDies

Spec == Init /\ [][Next]_vars

\* Requests once sent are executed, the outbox keeps retrying (outbox_loop,
\* every 30 s), and a GC pass once begun runs on.
FairSpec ==
    /\ Spec
    /\ \A s \in Slot : WF_vars(SlotStep(s))
    /\ WF_vars(GcStep)

-----------------------------------------------------------------------------
(***************************************************************************)
(* Properties (HeadLive, LineageDescends and SeqUnique are in Versions)    *)
(***************************************************************************)

\* The versions whose archive is the blob h.
Referencing(h) == {v \in DOMAIN versions : versions[v].blob = h}

\* Every referenced blob has a row, and each row's refcount is exactly the
\* number of versions that reference it, across retried uploads, branches and
\* prunes (db.rs:867-869, "the source of truth for shared blobs").
RefcountExact ==
    /\ \A v \in DOMAIN versions : versions[v].blob \in DOMAIN blobRows
    /\ \A h \in DOMAIN blobRows : blobRows[h] = Cardinality(Referencing(h))

\* Every version a client can list has its archive on disk: the HEAD/PUT/POST
\* protocol and the GC's unlink-after-commit never lose it
\* (0001 migration: "a version can never reference a missing blob or game").
\* Does not hold: README, "Disagreements without a run".
VersionBlobStored == \A v \in DOMAIN versions : versions[v].blob \in blobFiles

\* v is the tip of a branch nobody has decided against.
UnresolvedTip(v) ==
    v \notin losers /\ \A u \in DOMAIN versions : versions[u].parent # v

\* A row that disappears is neither a head nor an unresolved conflict tip at
\* that moment, although the GC decided on older reads (db.rs:699-700, "always
\* protected").
GcProtects ==
    [][\A v \in DOMAIN versions \ DOMAIN versions' :
           NotAHead(v) /\ ~UnresolvedTip(v)]_vars

\* The loser of a resolved conflict stays a version of the history
\* (PRD-03 section 4, "never deleted, so nothing is lost").
\* Does not hold: README, "Disagreements without a run".
LoserKept == losers \subseteq DOMAIN versions

\* The head of every game can be restored: its chain reaches a full
\* (db.rs:826, "keep the owning full so the tip stays restorable").
\* Does not hold: README, "Disagreements without a run".
HeadRestorable ==
    \A g \in Game : head[g] # NULL => Restorable(versions, head[g])

\* Every archive a client keeps retrying is eventually accepted once failures
\* stop (PRD-03 section 8: "retry with backoff [...] nothing is lost").
\* Does not hold: README, "Disagreements without a run".
UploadsComplete == \A r \in Request : r \in pending ~> r \notin pending

\* A queued archive can still be stored: the parent it declares has not been
\* pruned meanwhile.  Ids are never reused, so once it is gone the foreign key
\* rejects every retry (PRD-03 section 8, as above).
\* Does not hold: README, "Disagreements without a run".
PendingParentLive == \A r \in pending : ParentExists(r)

-----------------------------------------------------------------------------
\* The history service implements the abstract head register: with uploads,
\* retries, resolutions and GC passes interleaving, every step that clients
\* can observe is one atomic step of the register (db.rs:179-181).
Register == INSTANCE HeadRegister
    WITH log <- [v \in DOMAIN versions |->
                    [game |-> versions[v].game, parent |-> versions[v].parent]]

ImplementsRegister == Register!Spec

-----------------------------------------------------------------------------
(***************************************************************************)
(* What makes the properties inductive                                     *)
(***************************************************************************)

\* Clients only declare parents the server once gave them for that game.
RequestsKnown ==
    /\ \A r \in pending : r.parent \in minted[r.game] \cup {NULL}
    /\ \A s \in Slot :
          slots[s].pc # "idle" =>
              slots[s].req.parent \in minted[slots[s].req.game] \cup {NULL}

\* What a GC pass still means to delete exists and has the blob it read.
PlanFaithful ==
    \A v \in DOMAIN gc.vers :
        v \in DOMAIN versions /\ versions[v].blob = gc.vers[v].blob

RowInv == HeadLive /\ LineageDescends /\ SeqUnique /\ MintedSound

IndInv ==
    /\ TypeOK
    /\ RowInv
    /\ RequestsKnown
    /\ PlanFaithful
    /\ IsFiniteSet(DOMAIN versions)
    /\ RefcountExact
=============================================================================
