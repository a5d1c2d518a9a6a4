------------------------------- MODULE Versions -------------------------------
(***************************************************************************)
(* The version rows and per-game heads of savr-server (db.rs): what a      *)
(* create_version, a resolve_conflict and the row half of a retention      *)
(* prune do to them, each being one SQLite transaction, and the pure       *)
(* computation of the set of versions that retention keeps.                *)
(*                                                                         *)
(* A version's blob is named by its content hash; History adds the blob    *)
(* rows and objects, Sync gives the archives their content.                *)
(***************************************************************************)
EXTENDS Naturals, FiniteSets

CONSTANTS
    Game,           \* games of one account
    VersionId,      \* ids the server may mint
    Hash,           \* blob hashes
    NULL,           \* SQL NULL
    RetainFull,     \* Retention.full
    RetainDiff      \* Retention.diff_per_full

ASSUME NullAssumption == NULL \notin VersionId
ASSUME RetentionAssumption == RetainFull \in Nat /\ RetainDiff \in Nat

VARIABLES
    versions,   \* the versions table: a function from the ids of live rows
    head,       \* games.head
    losers,     \* resolved_conflicts.loser
    minted      \* ids ever answered to a client, per game (rows may be gone)

versionVars == <<versions, head, losers, minted>>

Kind == {"full", "diff"}

VersionRow == [game : Game, parent : VersionId \cup {NULL}, kind : Kind,
               blob : Hash, seq : Nat]

\* What a client sends in POST /games/{id}/versions.
Request == [game : Game, parent : VersionId \cup {NULL}, kind : Kind,
            blob : Hash]

VersionsTypeOK ==
    /\ DOMAIN versions \subseteq VersionId
    /\ versions \in [DOMAIN versions -> VersionRow]
    /\ head \in [Game -> VersionId \cup {NULL}]
    /\ losers \subseteq VersionId
    /\ minted \in [Game -> SUBSET VersionId]

VersionsInit ==
    /\ versions = [v \in {} |-> NULL]
    /\ head = [g \in Game |-> NULL]
    /\ losers = {}
    /\ minted = [g \in Game |-> {}]

-----------------------------------------------------------------------------
(***************************************************************************)
(* Transactions                                                            *)
(***************************************************************************)
Rows(g) == {v \in DOMAIN versions : versions[v].game = g}

\* An id from Uuid::now_v7() has never been used.
Fresh(id) == \A g \in Game : id \notin minted[g]

\* The foreign key versions.parent REFERENCES versions(id).
ParentExists(req) == req.parent = NULL \/ req.parent \in DOMAIN versions

\* Faulty variant: the next seq is taken from the head instead of MAX(seq).
IsHeadSeq(g, n) ==
    n = IF head[g] \in DOMAIN versions THEN versions[head[g]].seq ELSE 0

\* SELECT COALESCE(MAX(seq), 0) over the rows of the game.
IsMaxSeq(g, n) ==
    LET Seqs == {0} \cup {versions[v].seq : v \in Rows(g)}
    IN  n \in Seqs /\ \A m \in Seqs : m <= n

\* Faulty variant: the head is set without comparing it to the parent.
CreateVersionNoCas(id, req) ==
    /\ Fresh(id)
    /\ ParentExists(req)
    /\ \E n \in {0} \cup {versions[v].seq : v \in Rows(req.game)} :
        /\ \A v \in Rows(req.game) : versions[v].seq <= n
        /\ versions' = [v \in DOMAIN versions \cup {id} |->
                            IF v = id
                            THEN [game |-> req.game, parent |-> req.parent,
                                  kind |-> req.kind, blob |-> req.blob,
                                  seq |-> n + 1]
                            ELSE versions[v]]
    /\ head' = [head EXCEPT ![req.game] = id]
    /\ minted' = [minted EXCEPT ![req.game] = @ \cup {id}]
    /\ UNCHANGED losers

(***************************************************************************)
(* db::create_version: insert the row under the next seq, then advance the *)
(* head iff it IS still the request's parent (NULL-safe comparison).  A    *)
(* head that moved makes the new row a branch (the client sees 409).       *)
(***************************************************************************)
CreateVersion(id, req) ==
    /\ Fresh(id)
    /\ ParentExists(req)
    /\ \E n \in {0} \cup {versions[v].seq : v \in Rows(req.game)} :
        /\ IsMaxSeq(req.game, n)
        /\ versions' = [v \in DOMAIN versions \cup {id} |->
                            IF v = id
                            THEN [game |-> req.game, parent |-> req.parent,
                                  kind |-> req.kind, blob |-> req.blob,
                                  seq |-> n + 1]
                            ELSE versions[v]]
    /\ head' = [head EXCEPT ![req.game] = IF @ = req.parent THEN id ELSE @]
    /\ minted' = [minted EXCEPT ![req.game] = @ \cup {id}]
    /\ UNCHANGED losers

(***************************************************************************)
(* db::resolve_conflict: any live version of the game becomes the head and *)
(* the previous head, unless it is the winner itself, a resolved loser.    *)
(***************************************************************************)
ResolveConflict(g, winner) ==
    /\ winner \in Rows(g)
    /\ head' = [head EXCEPT ![g] = winner]
    /\ losers' = losers \cup ({head[g]} \ {winner, NULL})
    /\ UNCHANGED <<versions, minted>>

\* The foreign key games.head REFERENCES versions(id).
NotAHead(v) == \A g \in Game : head[g] # v

\* Faulty variant: foreign keys not enforced, the head's row can go.
PruneVersionNoKey(v) ==
    /\ v \in DOMAIN versions
    /\ versions' = [u \in DOMAIN versions \ {v} |->
                        IF versions[u].parent = v
                        THEN [versions[u] EXCEPT !.parent = NULL]
                        ELSE versions[u]]
    /\ UNCHANGED <<head, losers, minted>>

\* Faulty variant: children keep pointing at the deleted row.
PruneVersionDangling(v) ==
    /\ v \in DOMAIN versions
    /\ NotAHead(v)
    /\ versions' = [u \in DOMAIN versions \ {v} |-> versions[u]]
    /\ UNCHANGED <<head, losers, minted>>

\* Row half of delete_version_and_deref: orphan the children, drop the row.
PruneVersion(v) ==
    /\ v \in DOMAIN versions
    /\ NotAHead(v)
    /\ versions' = [u \in DOMAIN versions \ {v} |->
                        IF versions[u].parent = v
                        THEN [versions[u] EXCEPT !.parent = NULL]
                        ELSE versions[u]]
    /\ UNCHANGED <<head, losers, minted>>

-----------------------------------------------------------------------------
(***************************************************************************)
(* Retention (db::prune_game), computed from the four reads of one pass:   *)
(* vs  the rows of the game, hd  its head, refs  the ids named as parents, *)
(* lost  the resolved losers.                                              *)
(***************************************************************************)
Fulls(vs) == {v \in DOMAIN vs : vs[v].kind = "full"}

\* Nearest preceding full by seq: at most one; a full owns itself.
Owning(vs, v) ==
    {f \in Fulls(vs) :
        /\ vs[f].seq <= vs[v].seq
        /\ \A e \in Fulls(vs) :
              vs[e].seq <= vs[v].seq => vs[e].seq <= vs[f].seq}

\* The n members of S with the highest seq.
Newest(vs, S, n) ==
    {v \in S : Cardinality({u \in S : vs[u].seq > vs[v].seq}) < n}

\* Faulty variant: only the head is protected.
ProtectedHeadOnly(vs, hd, refs, lost) == {v \in DOMAIN vs : v = hd}

Protected(vs, hd, refs, lost) ==
    {v \in DOMAIN vs : v = hd \/ (v \notin refs /\ v \notin lost)}

Keep(vs, hd, refs, lost) ==
    LET prot == Protected(vs, hd, refs, lost)
        keptFulls == Newest(vs, Fulls(vs), RetainFull)
        DiffsOf(f) == {d \in DOMAIN vs \ Fulls(vs) : f \in Owning(vs, d)}
    IN  prot \cup UNION {Owning(vs, v) : v \in prot}
        \cup keptFulls
        \cup UNION {Newest(vs, DiffsOf(f), RetainDiff) : f \in keptFulls}

(***************************************************************************)
(* restore::build_chain succeeds for t: following parents from t reaches a *)
(* full without leaving the history.  (Parents have smaller seqs, so the   *)
(* chain is a set closed under "parent of a differential".)                *)
(***************************************************************************)
Restorable(vs, t) ==
    \E C \in SUBSET DOMAIN vs :
        /\ t \in C
        /\ \A v \in C : vs[v].kind = "full" \/ vs[v].parent \in C

-----------------------------------------------------------------------------
(***************************************************************************)
(* Integrity of the rows                                                   *)
(***************************************************************************)

\* The head of a game is always a stored version of that game, whatever a GC
\* pass planned from a head it read before a resolve moved it
\* (db.rs resolve_conflict, run_gc).
HeadLive == \A g \in Game : head[g] # NULL => head[g] \in Rows(g)

\* A live parent pointer names a live version of the same game with a smaller
\* seq, so build_chain's walk over parents terminates, even though seqs are
\* reused after a prune (db.rs create_version, delete_version_and_deref).
LineageDescends ==
    \A v \in DOMAIN versions :
        LET p == versions[v].parent
        IN  p # NULL => /\ p \in Rows(versions[v].game)
                        /\ versions[p].seq < versions[v].seq

\* Two versions of a game never share a seq (UNIQUE(game_id, seq)).
SeqUnique ==
    \A u, v \in DOMAIN versions :
        versions[u].game = versions[v].game /\ versions[u].seq = versions[v].seq
            => u = v

\* An id belongs to the one game it was minted for.
MintedSound ==
    /\ \A v \in DOMAIN versions : v \in minted[versions[v].game]
    /\ \A g, h \in Game : g # h => minted[g] \cap minted[h] = {}
=============================================================================
