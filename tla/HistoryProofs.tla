---------------------------- MODULE HistoryProofs ----------------------------
(***************************************************************************)
(* Theorems about History for any number of games, versions, archives,     *)
(* upload attempts and failures.                                           *)
(***************************************************************************)
EXTENDS History, FiniteSetTheorems, TLAPS

USE NullAssumption, RetentionAssumption, FaultsAssumption, NullSlotAssumption

LEMMA InitTypeOK == Init => TypeOK
  BY DEF Init, TypeOK, VersionsInit, VersionsTypeOK, NoAttempt, GcIdle, NoRows,
         AttemptPc, GcPc, VersionRow

\* A created row is a row.
LEMMA CreateTypeOK ==
  ASSUME VersionsTypeOK, NEW id \in VersionId, NEW req \in Request,
         CreateVersion(id, req)
  PROVE  VersionsTypeOK'
  <1>1. PICK n \in {0} \cup {versions[v].seq : v \in Rows(req.game)} :
          versions' = [v \in DOMAIN versions \cup {id} |->
                            IF v = id
                            THEN [game |-> req.game, parent |-> req.parent,
                                  kind |-> req.kind, blob |-> req.blob,
                                  seq |-> n + 1]
                            ELSE versions[v]]
    BY DEF CreateVersion
  <1>2. n \in Nat
    BY DEF VersionsTypeOK, Rows, VersionRow
  <1>3. versions' \in [DOMAIN versions' -> VersionRow]
    BY <1>1, <1>2 DEF VersionsTypeOK, VersionRow, Request
  <1>4. DOMAIN versions' \subseteq VersionId
    BY <1>1 DEF VersionsTypeOK
  <1>5. head' \in [Game -> VersionId \cup {NULL}]
    BY DEF VersionsTypeOK, CreateVersion
  <1>6. losers' \subseteq VersionId /\ minted' \in [Game -> SUBSET VersionId]
    BY DEF VersionsTypeOK, CreateVersion, Request
  <1> QED
    BY <1>3, <1>4, <1>5, <1>6 DEF VersionsTypeOK

LEMMA PruneTypeOK ==
  ASSUME VersionsTypeOK, NEW v \in VersionId, PruneVersion(v)
  PROVE  VersionsTypeOK'
  BY DEF VersionsTypeOK, PruneVersion, VersionRow

LEMMA NextTypeOK == TypeOK /\ [Next]_vars => TypeOK'
  <1> SUFFICES ASSUME TypeOK, [Next]_vars PROVE TypeOK'
    OBVIOUS
  <1>1. ASSUME NEW req \in Request, Pack(req) PROVE TypeOK'
    BY <1>1 DEF TypeOK, Pack, VersionsTypeOK, versionVars, blobVars, Request
  <1>2. ASSUME NEW s \in Slot, NEW req \in pending, Attempt(s, req)
        PROVE  TypeOK'
    BY <1>2 DEF TypeOK, Attempt, VersionsTypeOK, versionVars, blobVars,
                clientVars, AttemptPc
  <1>3. ASSUME NEW s \in Slot, BlobHead(s) PROVE TypeOK'
    BY <1>3 DEF TypeOK, BlobHead, Proceed, VersionsTypeOK, versionVars,
                blobVars, clientVars, AttemptPc, NoAttempt
  <1>4. ASSUME NEW s \in Slot, BlobPut(s) PROVE TypeOK'
    BY <1>4 DEF TypeOK, BlobPut, VersionsTypeOK, versionVars, clientVars,
                AttemptPc, Request
  <1>5. ASSUME NEW s \in Slot, BlobRow(s) PROVE TypeOK'
    BY <1>5 DEF TypeOK, BlobRow, Proceed, VersionsTypeOK, versionVars,
                clientVars, AttemptPc, NoAttempt, Request
  <1>6. ASSUME NEW s \in Slot, PostCheck(s) PROVE TypeOK'
    BY <1>6 DEF TypeOK, PostCheck, VersionsTypeOK, versionVars, blobVars,
                clientVars, AttemptPc, NoAttempt
  <1>7. ASSUME NEW s \in Slot, NEW id \in VersionId, PostCommit(s, id)
        PROVE  TypeOK'
    <2>1. slots[s].req \in Request
      BY <1>7 DEF TypeOK, PostCommit
    <2>2. VersionsTypeOK'
      BY <1>7, <2>1, CreateTypeOK DEF TypeOK, PostCommit
    <2>3. blobRows' \in [DOMAIN blobRows' -> Nat] /\ DOMAIN blobRows' \subseteq Hash
      BY <1>7 DEF TypeOK, PostCommit, KeysHold
    <2> QED
      BY <1>7, <2>2, <2>3 DEF TypeOK, PostCommit, NoAttempt, AttemptPc
  <1>8. ASSUME NEW s \in Slot, PostRejected(s) PROVE TypeOK'
    BY <1>8 DEF TypeOK, PostRejected, VersionsTypeOK, versionVars, blobVars,
                clientVars, AttemptPc, NoAttempt
  <1>9. ASSUME NEW s \in Slot, Abandon(s) PROVE TypeOK'
    BY <1>9 DEF TypeOK, Abandon, VersionsTypeOK, versionVars, blobVars,
                clientVars, AttemptPc
  <1>10. ASSUME NEW s \in Slot, HandlerDies(s) PROVE TypeOK'
    BY <1>10 DEF TypeOK, HandlerDies, VersionsTypeOK, versionVars, blobVars,
                 clientVars, AttemptPc, NoAttempt
  <1>11. ASSUME NEW g \in Game, NEW winner \in VersionId, Resolve(g, winner)
         PROVE  TypeOK'
    BY <1>11 DEF TypeOK, Resolve, ResolveConflict, VersionsTypeOK, blobVars,
                 clientVars
  <1>12. ASSUME NEW g \in Game, GcHead(g) PROVE TypeOK'
    BY <1>12 DEF TypeOK, GcHead, VersionsTypeOK, versionVars, blobVars,
                 clientVars, GcPc, GcIdle, NoRows, VersionRow
  <1>13. CASE GcRows
    BY <1>13 DEF TypeOK, GcRows, Rows, VersionsTypeOK, versionVars, blobVars,
                 clientVars, GcPc, GcIdle, NoRows
  <1>14. CASE GcRefs
    BY <1>14 DEF TypeOK, GcRefs, Rows, VersionsTypeOK, versionVars, blobVars,
                 clientVars, GcPc, VersionRow
  <1>15. CASE GcPlan
    BY <1>15 DEF TypeOK, GcPlan, VersionsTypeOK, versionVars, blobVars,
                 clientVars, GcPc
  <1>16. ASSUME NEW v \in DOMAIN gc.vers, GcDelete(v) PROVE TypeOK'
    <2>1. VersionsTypeOK'
      BY <1>16, PruneTypeOK DEF TypeOK, GcDelete
    <2>2. gc.vers[v].blob \in Hash /\ Remaining(v) \in [DOMAIN Remaining(v) -> VersionRow]
          /\ DOMAIN Remaining(v) \subseteq VersionId
      BY <1>16 DEF TypeOK, VersionRow, Remaining
    <2>3. CASE gc.vers[v].blob \in DOMAIN blobRows
               /\ blobRows[gc.vers[v].blob] <= 1
      <3>1. blobRows' = [k \in DOMAIN blobRows \ {gc.vers[v].blob} |-> blobRows[k]]
        BY <1>16, <2>3 DEF GcDelete
      <3>2. blobRows' \in [DOMAIN blobRows' -> Nat] /\ DOMAIN blobRows' \subseteq Hash
        BY <3>1 DEF TypeOK
      <3>3. gc' = [gc EXCEPT !.pc = "unlink", !.vers = Remaining(v),
                             !.blob = gc.vers[v].blob]
        BY <1>16, <2>3 DEF GcDelete
      <3> QED
        BY <1>16, <2>1, <2>2, <3>2, <3>3 DEF TypeOK, GcDelete, clientVars, GcPc
    <2>4. CASE ~(gc.vers[v].blob \in DOMAIN blobRows
                 /\ blobRows[gc.vers[v].blob] <= 1)
      <3>1. blobRows' = [k \in DOMAIN blobRows |->
                            IF k = gc.vers[v].blob THEN blobRows[k] - 1
                                                   ELSE blobRows[k]]
        BY <1>16, <2>4 DEF GcDelete
      <3>2. blobRows' \in [DOMAIN blobRows' -> Nat] /\ DOMAIN blobRows' \subseteq Hash
        BY <2>4, <3>1 DEF TypeOK
      <3>3. gc' = [gc EXCEPT !.vers = Remaining(v)]
        BY <1>16, <2>4 DEF GcDelete
      <3> QED
        BY <1>16, <2>1, <2>2, <3>2, <3>3 DEF TypeOK, GcDelete, clientVars
    <2> QED
      BY <2>3, <2>4
  <1>17. ASSUME NEW v \in DOMAIN gc.vers, GcRejected(v) PROVE TypeOK'
    BY <1>17 DEF TypeOK, GcRejected, VersionsTypeOK, versionVars, blobVars,
                 clientVars, GcPc, GcIdle, NoRows
  <1>18. CASE GcUnlink
    BY <1>18 DEF TypeOK, GcUnlink, VersionsTypeOK, versionVars, clientVars, GcPc
  <1>19. CASE GcDone
    BY <1>19 DEF TypeOK, GcDone, VersionsTypeOK, versionVars, blobVars,
                 clientVars, GcPc, GcIdle, NoRows
  <1>20. CASE GcDies
    BY <1>20 DEF TypeOK, GcDies, VersionsTypeOK, versionVars, blobVars,
                 clientVars, GcPc, GcIdle, NoRows
  <1>21. CASE UNCHANGED vars
    BY <1>21 DEF TypeOK, vars, VersionsTypeOK, versionVars, blobVars, clientVars
  <1> QED
    BY <1>1, <1>2, <1>3, <1>4, <1>5, <1>6, <1>7, <1>8, <1>9, <1>10, <1>11,
       <1>12, <1>13, <1>14, <1>15, <1>16, <1>17, <1>18, <1>19, <1>20, <1>21
    DEF Next, SlotStep, GcStep

\* Type correctness of the history service, for every value of the constants.
THEOREM TypeCorrect == Spec => []TypeOK
  BY InitTypeOK, NextTypeOK, PTL DEF Spec

-----------------------------------------------------------------------------
(***************************************************************************)
(* The three transactions preserve the integrity of the rows               *)
(***************************************************************************)

\* create_version: the new row is the newest of its game, descends from a row
\* of the same game, and the head it may become is stored.
LEMMA CreateRowInv ==
  ASSUME VersionsTypeOK, RowInv, NEW id \in VersionId, NEW req \in Request,
         req.parent \in minted[req.game] \cup {NULL},
         CreateVersion(id, req)
  PROVE  RowInv'
  <1>1. PICK n \in {0} \cup {versions[v].seq : v \in Rows(req.game)} :
          /\ IsMaxSeq(req.game, n)
          /\ versions' = [v \in DOMAIN versions \cup {id} |->
                            IF v = id
                            THEN [game |-> req.game, parent |-> req.parent,
                                  kind |-> req.kind, blob |-> req.blob,
                                  seq |-> n + 1]
                            ELSE versions[v]]
    BY DEF CreateVersion
  <1>2. n \in Nat /\ \A v \in DOMAIN versions : versions[v].seq \in Nat
    BY DEF VersionsTypeOK, Rows, VersionRow
  <1>3. \A v \in Rows(req.game) : versions[v].seq <= n
    BY <1>1 DEF IsMaxSeq
  <1>4. id \notin DOMAIN versions
    BY DEF CreateVersion, Fresh, RowInv, MintedSound, VersionsTypeOK, VersionRow
  <1>5. /\ DOMAIN versions' = DOMAIN versions \cup {id}
        /\ \A v \in DOMAIN versions : versions'[v] = versions[v]
        /\ versions'[id] = [game |-> req.game, parent |-> req.parent,
                            kind |-> req.kind, blob |-> req.blob, seq |-> n + 1]
    BY <1>1, <1>4
  <1>6. req.parent # NULL => req.parent \in Rows(req.game)
    <2> SUFFICES ASSUME req.parent # NULL PROVE req.parent \in Rows(req.game)
      OBVIOUS
    <2>1. req.parent \in DOMAIN versions /\ req.parent \in minted[req.game]
      BY DEF CreateVersion, ParentExists
    <2>2. req.parent \in minted[versions[req.parent].game]
          /\ versions[req.parent].game \in Game
      BY <2>1 DEF RowInv, MintedSound, VersionsTypeOK, VersionRow
    <2> QED
      BY <2>1, <2>2 DEF RowInv, MintedSound, Rows, Request
  <1>7. HeadLive'
    BY <1>5, <1>4 DEF RowInv, HeadLive, Rows, CreateVersion, VersionsTypeOK, Request
  <1>8. LineageDescends'
    <2> SUFFICES ASSUME NEW v \in DOMAIN versions', versions'[v].parent # NULL
                 PROVE  /\ versions'[v].parent \in DOMAIN versions'
                        /\ versions'[versions'[v].parent].game = versions'[v].game
                        /\ versions'[versions'[v].parent].seq < versions'[v].seq
      BY DEF LineageDescends, Rows
    <2>1. CASE v = id
      BY <1>2, <1>3, <1>5, <1>6, <2>1 DEF Rows
    <2>2. CASE v # id
      BY <1>5, <2>2 DEF RowInv, LineageDescends, Rows
    <2> QED
      BY <2>1, <2>2
  <1>9. SeqUnique'
    <2>1. \A v \in DOMAIN versions : versions[v].game = req.game => versions[v].seq < n + 1
      BY <1>2, <1>3 DEF Rows
    <2> QED
      BY <1>2, <1>5, <2>1 DEF RowInv, SeqUnique
  <1>10. MintedSound'
    <2>1. minted' = [minted EXCEPT ![req.game] = @ \cup {id}] /\ Fresh(id)
      BY DEF CreateVersion
    <2> QED
      BY <1>5, <2>1 DEF RowInv, MintedSound, VersionsTypeOK, Fresh, VersionRow, Request
  <1> QED
    BY <1>7, <1>8, <1>9, <1>10 DEF RowInv

\* delete_version_and_deref: no head and no parent pointer is left dangling.
LEMMA PruneRowInv ==
  ASSUME VersionsTypeOK, RowInv, NEW v \in VersionId, PruneVersion(v)
  PROVE  RowInv'
  <1>1. /\ DOMAIN versions' = DOMAIN versions \ {v}
        /\ \A u \in DOMAIN versions' :
              /\ versions'[u].game = versions[u].game
              /\ versions'[u].seq = versions[u].seq
              /\ versions'[u].parent = IF versions[u].parent = v THEN NULL
                                       ELSE versions[u].parent
    BY DEF PruneVersion, VersionsTypeOK, VersionRow
  <1>2. HeadLive'
    BY <1>1 DEF RowInv, HeadLive, Rows, PruneVersion, NotAHead
  <1>3. LineageDescends'
    BY <1>1 DEF RowInv, LineageDescends, Rows
  <1>4. SeqUnique'
    BY <1>1 DEF RowInv, SeqUnique
  <1>5. MintedSound'
    BY <1>1 DEF RowInv, MintedSound, PruneVersion
  <1> QED
    BY <1>2, <1>3, <1>4, <1>5 DEF RowInv

\* resolve_conflict: the winner is a stored version of the game.
LEMMA ResolveRowInv ==
  ASSUME VersionsTypeOK, RowInv, NEW g \in Game, NEW w \in VersionId,
         ResolveConflict(g, w)
  PROVE  RowInv'
  BY DEF RowInv, ResolveConflict, HeadLive, LineageDescends, SeqUnique,
         MintedSound, Rows, VersionsTypeOK

LEMMA StutterRowInv == RowInv /\ UNCHANGED versionVars => RowInv'
  BY DEF RowInv, HeadLive, LineageDescends, SeqUnique, MintedSound, Rows,
         versionVars

-----------------------------------------------------------------------------
(***************************************************************************)
(* Reference counts                                                        *)
(***************************************************************************)
LEMMA ReferencingFinite ==
  ASSUME IsFiniteSet(DOMAIN versions), NEW h
  PROVE  IsFiniteSet(Referencing(h))
  BY FS_Subset DEF Referencing

\* INSERT OR IGNORE: a row that was not there had no version referencing it.
LEMMA BlobRowCounts ==
  ASSUME TypeOK, RefcountExact, NEW s \in Slot, BlobRow(s)
  PROVE  RefcountExact'
  <1> DEFINE b == slots[s].req.blob
  <1>1. /\ versions' = versions
        /\ blobRows' = [h \in DOMAIN blobRows \cup {b} |->
                          IF h \in DOMAIN blobRows THEN blobRows[h] ELSE 0]
    BY DEF BlobRow, versionVars
  <1>2. \A h : Referencing(h)' = Referencing(h)
    BY <1>1 DEF Referencing
  <1>3. b \notin DOMAIN blobRows => Referencing(b) = {}
    BY DEF RefcountExact, Referencing
  <1>4. Cardinality({}) = 0
    BY FS_EmptySet
  <1>5. \A h \in DOMAIN blobRows' : blobRows'[h] = Cardinality(Referencing(h))
    BY <1>1, <1>3, <1>4 DEF RefcountExact
  <1> QED
    BY <1>1, <1>2, <1>5 DEF RefcountExact

\* create_version counts the reference it adds, and no other.
LEMMA PostCommitCounts ==
  ASSUME TypeOK, RefcountExact, IsFiniteSet(DOMAIN versions), MintedSound,
         NEW s \in Slot, NEW id \in VersionId, PostCommit(s, id)
  PROVE  RefcountExact' /\ IsFiniteSet(DOMAIN versions')
  <1> DEFINE b == slots[s].req.blob
  <1>0. slots[s].req \in Request
    BY DEF TypeOK, PostCommit
  <1>1. id \notin DOMAIN versions
    BY DEF PostCommit, CreateVersion, Fresh, MintedSound, TypeOK,
           VersionsTypeOK, VersionRow
  <1>2. /\ DOMAIN versions' = DOMAIN versions \cup {id}
        /\ \A v \in DOMAIN versions : versions'[v] = versions[v]
        /\ versions'[id].blob = b
    BY <1>1 DEF PostCommit, CreateVersion
  <1>3. /\ b \in DOMAIN blobRows
        /\ blobRows' = [blobRows EXCEPT ![b] = @ + 1]
    BY DEF PostCommit, KeysHold
  <1>4. IsFiniteSet(DOMAIN versions')
    BY <1>2, FS_AddElement
  <1>5. \A h : Referencing(h)' = IF h = b THEN Referencing(h) \cup {id}
                                         ELSE Referencing(h)
    BY <1>1, <1>2 DEF Referencing
  <1>6. id \notin Referencing(b) /\ IsFiniteSet(Referencing(b))
    BY <1>1, ReferencingFinite DEF Referencing
  <1>7. Cardinality(Referencing(b) \cup {id}) = Cardinality(Referencing(b)) + 1
    BY <1>6, FS_AddElement
  <1>8. \A v \in DOMAIN versions' : versions'[v].blob \in DOMAIN blobRows'
    BY <1>2, <1>3 DEF RefcountExact
  <1>9. \A h \in DOMAIN blobRows' : blobRows'[h] = Cardinality(Referencing(h)')
    <2> SUFFICES ASSUME NEW h \in DOMAIN blobRows
                 PROVE  blobRows'[h] = Cardinality(Referencing(h)')
      BY <1>3
    <2>1. CASE h = b
      BY <1>3, <1>5, <1>7, <2>1 DEF RefcountExact
    <2>2. CASE h # b
      BY <1>3, <1>5, <2>2 DEF RefcountExact
    <2> QED
      BY <2>1, <2>2
  <1> QED
    BY <1>4, <1>8, <1>9 DEF RefcountExact

\* A prune drops exactly the reference of the row it deletes, and a blob row
\* only goes with its last reference.
LEMMA GcDeleteCounts ==
  ASSUME TypeOK, RefcountExact, IsFiniteSet(DOMAIN versions), PlanFaithful,
         NEW v \in DOMAIN gc.vers, GcDelete(v)
  PROVE  RefcountExact' /\ IsFiniteSet(DOMAIN versions')
  <1> DEFINE b == gc.vers[v].blob
  <1>1. v \in DOMAIN versions /\ versions[v].blob = b /\ v \in Referencing(b)
    BY DEF PlanFaithful, Referencing
  <1>2. /\ DOMAIN versions' = DOMAIN versions \ {v}
        /\ \A u \in DOMAIN versions' : versions'[u].blob = versions[u].blob
    BY DEF GcDelete, PruneVersion, TypeOK, VersionsTypeOK, VersionRow
  <1>3. IsFiniteSet(DOMAIN versions')
    BY <1>2, FS_RemoveElement
  <1>4. \A h : Referencing(h)' = IF h = b THEN Referencing(h) \ {v}
                                         ELSE Referencing(h)
    BY <1>1, <1>2 DEF Referencing
  <1>5. Cardinality(Referencing(b) \ {v}) = Cardinality(Referencing(b)) - 1
    <2>1. IsFiniteSet(Referencing(b))
      BY ReferencingFinite
    <2> QED
      BY <1>1, <2>1, FS_RemoveElement
  <1>6. b \in DOMAIN blobRows /\ blobRows[b] = Cardinality(Referencing(b))
    BY <1>1 DEF RefcountExact
  <1>7. CASE blobRows[b] <= 1
    <2>1. blobRows' = [k \in DOMAIN blobRows \ {b} |-> blobRows[k]]
      BY <1>6, <1>7 DEF GcDelete
    <2>2. Referencing(b) \ {v} = {}
      <3>1. Cardinality(Referencing(b) \ {v}) \in Nat /\ IsFiniteSet(Referencing(b) \ {v})
        BY ReferencingFinite, FS_RemoveElement, FS_CardinalityType
      <3>2. Cardinality(Referencing(b) \ {v}) = 0
        BY <1>5, <1>6, <1>7, <3>1 DEF TypeOK
      <3> QED
        BY <3>1, <3>2, FS_EmptySet
    <2>3. \A u \in DOMAIN versions' : versions'[u].blob # b
      BY <1>2, <2>2 DEF Referencing
    <2>4. \A h \in DOMAIN blobRows' : blobRows'[h] = Cardinality(Referencing(h)')
      BY <1>4, <2>1 DEF RefcountExact
    <2> QED
      BY <1>2, <1>3, <2>1, <2>3, <2>4 DEF RefcountExact
  <1>8. CASE ~(blobRows[b] <= 1)
    <2>1. blobRows' = [k \in DOMAIN blobRows |->
                          IF k = b THEN blobRows[k] - 1 ELSE blobRows[k]]
      BY <1>6, <1>8 DEF GcDelete
    <2>2. \A h \in DOMAIN blobRows' : blobRows'[h] = Cardinality(Referencing(h)')
      BY <1>4, <1>5, <1>6, <2>1 DEF RefcountExact
    <2> QED
      BY <1>2, <1>3, <2>1, <2>2 DEF RefcountExact
  <1> QED
    BY <1>7, <1>8

LEMMA StutterCounts ==
  RefcountExact /\ UNCHANGED <<versions, blobRows>> => RefcountExact'
  BY DEF RefcountExact, Referencing

-----------------------------------------------------------------------------
(***************************************************************************)
(* The inductive invariant                                                 *)
(***************************************************************************)
LEMMA InitIndInv == Init => IndInv
  <1> SUFFICES ASSUME Init PROVE IndInv
    OBVIOUS
  <1>1. TypeOK
    BY InitTypeOK
  <1>2. RowInv /\ RequestsKnown /\ PlanFaithful
    BY DEF Init, VersionsInit, RowInv, HeadLive, LineageDescends, SeqUnique,
           MintedSound, RequestsKnown, PlanFaithful, NoAttempt, GcIdle, NoRows
  <1>3. DOMAIN versions = {} /\ DOMAIN blobRows = {}
    BY DEF Init, VersionsInit
  <1>4. IsFiniteSet(DOMAIN versions) /\ RefcountExact
    BY <1>3, FS_EmptySet DEF RefcountExact
  <1> QED
    BY <1>1, <1>2, <1>4 DEF IndInv

\* Requests stay known: packing asks for it and minted ids only accumulate.
LEMMA NextRequestsKnown ==
  ASSUME TypeOK, RequestsKnown, [Next]_vars
  PROVE  RequestsKnown'
  <1> USE DEF RequestsKnown
  <1>1. ASSUME NEW req \in Request, Pack(req) PROVE RequestsKnown'
    BY <1>1 DEF TypeOK, Pack, versionVars
  <1>2. ASSUME NEW s \in Slot, NEW req \in pending, Attempt(s, req)
        PROVE  RequestsKnown'
    BY <1>2 DEF TypeOK, Attempt, versionVars, clientVars
  <1>3. ASSUME NEW s \in Slot,
               BlobHead(s) \/ BlobPut(s) \/ BlobRow(s) \/ PostCheck(s)
               \/ PostRejected(s) \/ Abandon(s) \/ HandlerDies(s)
        PROVE  RequestsKnown'
    <2>1. /\ minted' = minted /\ pending' = pending
          /\ \A t \in Slot :
                slots'[t].pc # "idle" => /\ slots[t].pc # "idle"
                                         /\ slots'[t].req = slots[t].req
      BY <1>3 DEF TypeOK, BlobHead, BlobPut, BlobRow, PostCheck, PostRejected,
                  Abandon, HandlerDies, Proceed, NoAttempt, versionVars,
                  clientVars
    <2>2. ASSUME NEW t \in Slot, slots'[t].pc # "idle"
          PROVE  slots'[t].req.parent \in minted'[slots'[t].req.game] \cup {NULL}
      <3>1. slots[t].pc # "idle" /\ slots'[t].req = slots[t].req
        BY <2>1, <2>2
      <3>2. slots[t].req.parent \in minted[slots[t].req.game] \cup {NULL}
        BY <3>1
      <3> QED
        BY <2>1, <3>1, <3>2
    <2> QED
      BY <2>1, <2>2
  <1>4. ASSUME NEW s \in Slot, NEW id \in VersionId, PostCommit(s, id)
        PROVE  RequestsKnown'
    <2>1. /\ \A g \in Game : minted[g] \subseteq minted'[g]
          /\ pending' \subseteq pending
          /\ \A t \in Slot : slots'[t].pc # "idle" => slots'[t] = slots[t]
      BY <1>4 DEF TypeOK, VersionsTypeOK, PostCommit, CreateVersion, NoAttempt
    <2> QED
      BY <2>1 DEF TypeOK, Request
  <1>5. ASSUME NEW g \in Game, NEW winner \in VersionId, Resolve(g, winner)
        PROVE  RequestsKnown'
    BY <1>5 DEF Resolve, ResolveConflict, clientVars
  <1>6. CASE GcStep \/ GcDies \/ (\E g \in Game : GcHead(g)) \/ UNCHANGED vars
    BY <1>6 DEF GcStep, GcDies, GcHead, GcRows, GcRefs, GcPlan, GcDelete,
                GcRejected, GcUnlink, GcDone, PruneVersion, versionVars,
                clientVars, vars
  <1> QED
    BY <1>1, <1>2, <1>3, <1>4, <1>5, <1>6 DEF Next, SlotStep

\* Only the GC deletes rows, and it strikes each off its plan as it does.
LEMMA NextPlanFaithful ==
  ASSUME TypeOK, PlanFaithful, MintedSound, [Next]_vars
  PROVE  PlanFaithful'
  <1> USE DEF PlanFaithful
  <1>1. CASE UNCHANGED <<versions, gc>>
    BY <1>1
  <1>2. ASSUME NEW s \in Slot, NEW id \in VersionId, PostCommit(s, id)
        PROVE  PlanFaithful'
    <2>1. id \notin DOMAIN versions
      BY <1>2 DEF PostCommit, CreateVersion, Fresh, MintedSound, TypeOK,
                  VersionsTypeOK, VersionRow
    <2> QED
      BY <1>2, <2>1 DEF PostCommit, CreateVersion
  <1>3. ASSUME NEW g \in Game, GcHead(g) PROVE PlanFaithful'
    BY <1>3 DEF GcHead, GcIdle, NoRows
  <1>4. CASE GcRows
    BY <1>4 DEF GcRows, Rows, GcIdle, NoRows, versionVars, TypeOK
  <1>5. CASE GcRefs
    BY <1>5 DEF GcRefs, versionVars, TypeOK
  <1>6. CASE GcPlan
    BY <1>6 DEF GcPlan, versionVars, TypeOK
  <1>7. ASSUME NEW v \in DOMAIN gc.vers, GcDelete(v) PROVE PlanFaithful'
    <2>1. gc'.vers = Remaining(v)
      BY <1>7 DEF GcDelete, TypeOK
    <2>2. /\ DOMAIN versions' = DOMAIN versions \ {v}
          /\ \A u \in DOMAIN versions' : versions'[u].blob = versions[u].blob
      BY <1>7 DEF GcDelete, PruneVersion, TypeOK, VersionsTypeOK, VersionRow
    <2> QED
      BY <2>1, <2>2 DEF Remaining
  <1>8. ASSUME NEW v \in DOMAIN gc.vers, GcRejected(v) PROVE PlanFaithful'
    BY <1>8 DEF GcRejected, GcIdle, NoRows
  <1>9. CASE GcUnlink
    BY <1>9 DEF GcUnlink, versionVars, TypeOK
  <1>12. CASE GcDone \/ GcDies
    BY <1>12 DEF GcDone, GcDies, GcIdle, NoRows
  <1>10. ASSUME NEW s \in Slot,
                BlobHead(s) \/ BlobPut(s) \/ BlobRow(s) \/ PostCheck(s)
                \/ PostRejected(s) \/ Abandon(s) \/ HandlerDies(s)
                \/ \E req \in pending : Attempt(s, req)
         PROVE  UNCHANGED <<versions, gc>>
    BY <1>10 DEF BlobHead, BlobPut, BlobRow, PostCheck, PostRejected, Abandon,
                 HandlerDies, Attempt, versionVars
  <1>11. ASSUME \/ \E req \in Request : Pack(req)
                \/ \E g \in Game, winner \in VersionId : Resolve(g, winner)
                \/ UNCHANGED vars
         PROVE  UNCHANGED <<versions, gc>>
    BY <1>11 DEF Pack, Resolve, ResolveConflict, versionVars, vars
  <1> QED
    BY <1>1, <1>2, <1>3, <1>4, <1>5, <1>6, <1>7, <1>8, <1>9, <1>10, <1>11,
       <1>12
    DEF Next, SlotStep, GcStep

\* Of all steps only these change version rows, blob rows or heads.
LEMMA QuietSteps ==
  ASSUME [Next]_vars,
         ~ \E s \in Slot, id \in VersionId : PostCommit(s, id),
         ~ \E s \in Slot : BlobRow(s),
         ~ \E g \in Game, w \in VersionId : Resolve(g, w),
         ~ \E v \in DOMAIN gc.vers : GcDelete(v)
  PROVE  UNCHANGED <<versionVars, blobRows>>
  <1>1. ASSUME NEW req \in Request, Pack(req)
        PROVE  UNCHANGED <<versionVars, blobRows>>
    BY <1>1 DEF Pack, blobVars
  <1>2. ASSUME NEW s \in Slot, SlotStep(s) \/ Abandon(s) \/ HandlerDies(s)
        PROVE  UNCHANGED <<versionVars, blobRows>>
    BY <1>2 DEF SlotStep, Attempt, BlobHead, BlobPut, PostCheck, PostRejected,
                Abandon, HandlerDies, blobVars
  <1>3. ASSUME NEW g \in Game, GcHead(g) PROVE UNCHANGED <<versionVars, blobRows>>
    BY <1>3 DEF GcHead, blobVars
  <1>4. CASE GcStep \/ GcDies
    BY <1>4 DEF GcStep, GcRows, GcRefs, GcPlan, GcRejected, GcUnlink, GcDone,
                GcDies, blobVars
  <1>5. CASE UNCHANGED vars
    BY <1>5 DEF vars, blobVars
  <1> QED
    BY <1>1, <1>2, <1>3, <1>4, <1>5 DEF Next

LEMMA NextIndInv == IndInv /\ [Next]_vars => IndInv'
  <1> SUFFICES ASSUME IndInv, [Next]_vars PROVE IndInv'
    OBVIOUS
  <1> USE DEF IndInv
  <1>1. TypeOK' /\ RequestsKnown' /\ PlanFaithful'
    BY NextTypeOK, NextRequestsKnown, NextPlanFaithful DEF RowInv
  <1>2. CASE \E s \in Slot, id \in VersionId : PostCommit(s, id)
    <2> PICK s \in Slot, id \in VersionId : PostCommit(s, id)
      BY <1>2
    <2>1. /\ slots[s].req \in Request
          /\ slots[s].req.parent \in minted[slots[s].req.game] \cup {NULL}
      BY DEF PostCommit, TypeOK, RequestsKnown
    <2>2. RowInv'
      BY <2>1, CreateRowInv DEF PostCommit, TypeOK
    <2> QED
      BY <1>1, <2>2, PostCommitCounts DEF RowInv
  <1>3. CASE \E s \in Slot : BlobRow(s)
    <2> PICK s \in Slot : BlobRow(s)
      BY <1>3
    <2>1. UNCHANGED versionVars
      BY DEF BlobRow
    <2> QED
      BY <1>1, <2>1, StutterRowInv, BlobRowCounts DEF versionVars
  <1>4. CASE \E g \in Game, w \in VersionId : Resolve(g, w)
    <2> PICK g \in Game, w \in VersionId : Resolve(g, w)
      BY <1>4
    <2>1. RowInv'
      BY ResolveRowInv DEF Resolve, TypeOK
    <2>2. UNCHANGED <<versions, blobRows>>
      BY DEF Resolve, ResolveConflict, blobVars
    <2> QED
      BY <1>1, <2>1, <2>2, StutterCounts
  <1>5. CASE \E v \in DOMAIN gc.vers : GcDelete(v)
    <2> PICK v \in DOMAIN gc.vers : GcDelete(v)
      BY <1>5
    <2>1. RowInv'
      BY PruneRowInv DEF GcDelete, TypeOK
    <2> QED
      BY <1>1, <2>1, GcDeleteCounts
  <1>6. CASE UNCHANGED <<versionVars, blobRows>>
    BY <1>1, <1>6, StutterRowInv, StutterCounts DEF versionVars
  <1> QED
    BY <1>2, <1>3, <1>4, <1>5, <1>6, QuietSteps

LEMMA InductiveInvariant == Spec => []IndInv
  BY InitIndInv, NextIndInv, PTL DEF Spec

\* The head of every game is a stored version of that game, for any number of
\* concurrent uploads, resolutions and GC passes with stale plans.
THEOREM HeadsLive == Spec => []HeadLive
  <1>1. IndInv => HeadLive
    BY DEF IndInv, RowInv
  <1> QED
    BY <1>1, InductiveInvariant, PTL

\* The walk of build_chain is well-founded: parents are older stored versions
\* of the same game.
THEOREM LineageSound == Spec => []LineageDescends
  <1>1. IndInv => LineageDescends
    BY DEF IndInv, RowInv
  <1> QED
    BY <1>1, InductiveInvariant, PTL

\* No two stored versions of a game share a seq, although a pruned version's
\* seq is given out again, so "the newest" is one version (create_version).
THEOREM SeqsUnique == Spec => []SeqUnique
  <1>1. IndInv => SeqUnique
    BY DEF IndInv, RowInv
  <1> QED
    BY <1>1, InductiveInvariant, PTL

\* Blob refcounts equal the number of referencing versions in every state.
THEOREM RefcountsExact == Spec => []RefcountExact
  <1>1. IndInv => RefcountExact
    BY DEF IndInv
  <1> QED
    BY <1>1, InductiveInvariant, PTL

-----------------------------------------------------------------------------
(***************************************************************************)
(* What a GC pass protects                                                 *)
(***************************************************************************)

HasChild(v) == \E u \in DOMAIN versions : versions[u].parent = v

\* A pass still knows the age of what it means to delete, and each such
\* version has been decided against or is the parent of a stored one.
PlanInv ==
    /\ \A v \in DOMAIN gc.vers : gc.vers[v].seq = versions[v].seq
    /\ gc.pc = "losers" => \A v \in gc.refs : HasChild(v)
    /\ gc.pc \in {"prune", "unlink"} =>
          \A v \in DOMAIN gc.vers : v \in losers \/ HasChild(v)

\* Requests only add rows and losers.
Grows ==
    /\ DOMAIN versions \subseteq DOMAIN versions'
    /\ \A v \in DOMAIN versions : versions'[v] = versions[v]
    /\ losers \subseteq losers'

LEMMA GrowsPlanInv ==
  ASSUME IndInv, PlanInv, Grows, gc' = gc
  PROVE  PlanInv'
  <1>1. \A v : HasChild(v) => HasChild(v)'
    BY DEF HasChild, Grows
  <1>2. \A v \in DOMAIN gc.vers : gc.vers[v].seq = versions'[v].seq
    BY DEF PlanInv, Grows, IndInv, PlanFaithful
  <1> QED
    BY <1>1, <1>2 DEF PlanInv, Grows

\* What is deleted is no younger than the rest of the plan, and a child is
\* younger than its parent: the witnesses of the others stay.
LEMMA DeletePlanInv ==
  ASSUME IndInv, PlanInv, NEW v \in DOMAIN gc.vers, GcDelete(v)
  PROVE  PlanInv'
  <1>1. /\ DOMAIN versions' = DOMAIN versions \ {v}
        /\ \A u \in DOMAIN versions' :
              /\ versions'[u].seq = versions[u].seq
              /\ versions[u].parent # v => versions'[u].parent = versions[u].parent
    BY DEF GcDelete, PruneVersion, IndInv, TypeOK, VersionsTypeOK, VersionRow
  <1>2. /\ gc.pc = "prune" /\ gc'.vers = Remaining(v)
        /\ gc'.pc \in {"prune", "unlink"} /\ losers' = losers
    BY DEF GcDelete, PruneVersion, IndInv, TypeOK
  <1>3. ASSUME NEW w \in DOMAIN gc'.vers
        PROVE  /\ gc'.vers[w].seq = versions'[w].seq
               /\ w \in losers' \/ HasChild(w)'
    <2>1. /\ w \in DOMAIN gc.vers /\ w # v /\ gc'.vers[w] = gc.vers[w]
          /\ w \in DOMAIN versions /\ v \in DOMAIN versions
      BY <1>2, <1>3 DEF Remaining, IndInv, PlanFaithful
    <2>2. gc'.vers[w].seq = versions'[w].seq
      BY <1>1, <2>1 DEF PlanInv
    <2>3. ASSUME HasChild(w) PROVE HasChild(w)'
      <3>1. PICK u \in DOMAIN versions : versions[u].parent = w
        BY <2>3 DEF HasChild
      <3>2. versions[w].seq < versions[u].seq
        <4>1. w # NULL
          BY <2>1 DEF IndInv, TypeOK, VersionsTypeOK
        <4> QED
          BY <3>1, <4>1 DEF IndInv, RowInv, LineageDescends
      <3>3. versions[v].seq <= versions[w].seq
        BY <2>1 DEF GcDelete, IsNextDoomed, PlanInv
      <3>4. /\ versions[u].seq \in Nat /\ versions[v].seq \in Nat
            /\ versions[w].seq \in Nat
        BY <2>1, <3>1 DEF IndInv, TypeOK, VersionsTypeOK, VersionRow
      <3>5. u # v
        BY <3>2, <3>3, <3>4
      <3>6. u \in DOMAIN versions' /\ versions'[u].parent = w
        BY <1>1, <2>1, <3>1, <3>5
      <3> QED
        BY <3>6 DEF HasChild
    <2>4. w \in losers \/ HasChild(w)
      BY <1>2, <2>1 DEF PlanInv
    <2> QED
      BY <1>2, <2>2, <2>3, <2>4
  <1> QED
    BY <1>2, <1>3 DEF PlanInv

\* What the plan does not keep is not protected.
LEMMA GcPlanInv == IndInv /\ PlanInv /\ GcPlan => PlanInv'
  <1> SUFFICES ASSUME IndInv, PlanInv, GcPlan PROVE PlanInv'
    OBVIOUS
  <1> DEFINE kept == Keep(gc.vers, gc.head, gc.refs, losers)
  <1>1. Protected(gc.vers, gc.head, gc.refs, losers) \subseteq kept
    BY DEF Keep
  <1>2. /\ gc.pc = "losers" /\ gc'.pc = "prune"
        /\ gc'.vers = [v \in DOMAIN gc.vers \ kept |-> gc.vers[v]]
        /\ UNCHANGED <<versions, losers>>
    BY DEF GcPlan, IndInv, TypeOK, versionVars
  <1> HIDE DEF kept
  <1>3. ASSUME NEW v \in DOMAIN gc'.vers
        PROVE  v \in DOMAIN gc.vers /\ (v \in gc.refs \/ v \in losers)
    BY <1>1, <1>2, <1>3 DEF Protected
  <1>4. \A v : HasChild(v) => HasChild(v)'
    BY <1>2 DEF HasChild
  <1> QED
    BY <1>2, <1>3, <1>4 DEF PlanInv

LEMMA NextPlanInv == IndInv /\ PlanInv /\ [Next]_vars => PlanInv'
  <1> SUFFICES ASSUME IndInv, PlanInv, [Next]_vars PROVE PlanInv'
    OBVIOUS
  <1>1. ASSUME UNCHANGED <<versionVars, gc>> PROVE PlanInv'
    BY <1>1, GrowsPlanInv DEF Grows, versionVars
  <1>2. ASSUME NEW req \in Request, Pack(req) PROVE PlanInv'
    BY <1>1, <1>2 DEF Pack
  <1>3. ASSUME NEW s \in Slot, SlotStep(s) \/ Abandon(s) \/ HandlerDies(s)
        PROVE  PlanInv'
    <2>1. ASSUME NEW id \in VersionId, PostCommit(s, id) PROVE PlanInv'
      <3>1. id \notin DOMAIN versions
        BY <2>1 DEF PostCommit, CreateVersion, Fresh, IndInv, RowInv,
                    MintedSound, TypeOK, VersionsTypeOK, VersionRow
      <3>2. Grows /\ gc' = gc
        BY <2>1, <3>1 DEF PostCommit, CreateVersion, Grows
      <3> QED
        BY <3>2, GrowsPlanInv
    <2>2. CASE ~ \E id \in VersionId : PostCommit(s, id)
      BY <1>1, <1>3, <2>2 DEF SlotStep, Attempt, BlobHead, BlobPut, BlobRow,
           PostCheck, PostRejected, Abandon, HandlerDies
    <2> QED
      BY <2>1, <2>2
  <1>4. ASSUME NEW g \in Game, NEW w \in VersionId, Resolve(g, w) PROVE PlanInv'
    <2>1. Grows /\ gc' = gc
      BY <1>4 DEF Resolve, ResolveConflict, Grows
    <2> QED
      BY <2>1, GrowsPlanInv
  <1>5. ASSUME gc' = GcIdle PROVE PlanInv'
    BY <1>5 DEF GcIdle, NoRows, PlanInv
  <1>6. ASSUME NEW g \in Game, GcHead(g) PROVE PlanInv'
    <2>1. gc'.pc = "rows" /\ DOMAIN gc'.vers = {}
      BY <1>6 DEF GcHead, GcIdle, NoRows
    <2> QED
      BY <2>1 DEF PlanInv
  <1>7. CASE GcRows
    <2>1. CASE Rows(gc.game) = {}
      BY <1>5, <1>7, <2>1 DEF GcRows
    <2>2. CASE Rows(gc.game) # {}
      <3>1. /\ gc'.pc = "refs" /\ versions' = versions
            /\ gc'.vers = [v \in Rows(gc.game) |-> versions[v]]
        BY <1>7, <2>2 DEF GcRows, versionVars, IndInv, TypeOK
      <3> QED
        BY <3>1 DEF PlanInv
    <2> QED
      BY <2>1, <2>2
  <1>8. CASE GcRefs
    <2>1. /\ gc'.pc = "losers" /\ gc'.vers = gc.vers /\ versions' = versions
          /\ gc'.refs = {versions[v].parent : v \in Rows(gc.game)} \ {NULL}
      BY <1>8 DEF GcRefs, versionVars, IndInv, TypeOK
    <2>2. \A v \in gc'.refs : HasChild(v)'
      BY <2>1 DEF HasChild, Rows
    <2> QED
      BY <2>1, <2>2 DEF PlanInv
  <1>9. CASE GcPlan
    BY <1>9, GcPlanInv
  <1>10. ASSUME NEW v \in DOMAIN gc.vers, GcDelete(v) \/ GcRejected(v)
         PROVE  PlanInv'
    BY <1>5, <1>10, DeletePlanInv DEF GcRejected
  <1>11. CASE GcUnlink
    <2>1. /\ gc.pc = "unlink" /\ gc'.pc = "prune" /\ gc'.vers = gc.vers
          /\ UNCHANGED <<versions, losers>>
      BY <1>11 DEF GcUnlink, versionVars, IndInv, TypeOK
    <2>2. \A v : HasChild(v) => HasChild(v)'
      BY <2>1 DEF HasChild
    <2> QED
      BY <2>1, <2>2 DEF PlanInv
  <1>12. CASE GcDone \/ GcDies
    BY <1>5, <1>12 DEF GcDone, GcDies
  <1>13. CASE UNCHANGED vars
    BY <1>1, <1>13 DEF vars
  <1> QED
    BY <1>2, <1>3, <1>4, <1>6, <1>7, <1>8, <1>9, <1>10, <1>11, <1>12, <1>13
       DEF Next, GcStep

\* A pruned version is neither a head nor an unresolved tip at the moment it
\* goes, although heads, children and losers were read one after the other and
\* requests ran in between (prune_game, delete_version_and_deref).
THEOREM GcProtectsHolds == Spec => GcProtects
  <1>1. Init => PlanInv
    BY DEF Init, GcIdle, NoRows, PlanInv
  <1>2. IndInv /\ PlanInv /\ [Next]_vars =>
          [\A v \in DOMAIN versions \ DOMAIN versions' :
              NotAHead(v) /\ ~UnresolvedTip(v)]_vars
    <2> SUFFICES ASSUME IndInv, PlanInv, [Next]_vars,
                        NEW v \in DOMAIN versions \ DOMAIN versions'
                 PROVE  NotAHead(v) /\ ~UnresolvedTip(v)
      OBVIOUS
    <2>1. CASE \E w \in DOMAIN gc.vers : GcDelete(w)
      <3>1. PICK w \in DOMAIN gc.vers : GcDelete(w)
        BY <2>1
      <3>2. gc.pc = "prune" /\ PruneVersion(w)
        BY <3>1 DEF GcDelete
      <3>3. v = w
        BY <3>2 DEF PruneVersion
      <3> QED
        BY <3>2, <3>3 DEF PruneVersion, PlanInv, UnresolvedTip, HasChild
    <2>2. CASE \E s \in Slot, id \in VersionId : PostCommit(s, id)
      BY <2>2 DEF PostCommit, CreateVersion
    <2>3. CASE UNCHANGED versions
      BY <2>3
    <2>4. CASE \E s \in Slot : BlobRow(s)
      BY <2>4 DEF BlobRow, versionVars
    <2>5. CASE \E g \in Game, w \in VersionId : Resolve(g, w)
      BY <2>5 DEF Resolve, ResolveConflict
    <2> QED
      BY <2>1, <2>2, <2>3, <2>4, <2>5, QuietSteps DEF versionVars
  <1> QED
    BY <1>1, <1>2, NextPlanInv, InductiveInvariant, PTL DEF Spec, GcProtects

-----------------------------------------------------------------------------
(***************************************************************************)
(* Refinement                                                              *)
(***************************************************************************)

\* The register's view of the version rows.
Log == [v \in DOMAIN versions |->
           [game |-> versions[v].game, parent |-> versions[v].parent]]

LEMMA CreateRefines ==
  ASSUME TypeOK, MintedSound, NEW id \in VersionId, NEW req \in Request,
         CreateVersion(id, req)
  PROVE  Register!Next
  <1>1. id \notin DOMAIN versions
    BY DEF CreateVersion, Fresh, MintedSound, TypeOK, VersionsTypeOK, VersionRow
  <1>2. /\ DOMAIN versions' = DOMAIN versions \cup {id}
        /\ \A v \in DOMAIN versions : versions'[v] = versions[v]
        /\ versions'[id].game = req.game /\ versions'[id].parent = req.parent
    BY <1>1 DEF CreateVersion
  <1>3. Log' = [v \in DOMAIN Log \cup {id} |->
                   IF v = id THEN [game |-> req.game, parent |-> req.parent]
                             ELSE Log[v]]
    BY <1>1, <1>2 DEF Log
  <1>4. Register!Store(id, req.game, req.parent)
    BY <1>1, <1>3 DEF Register!Store, Log, CreateVersion, ParentExists
  <1>5. req.game \in Game /\ req.parent \in VersionId \cup {NULL}
    BY DEF Request
  <1>6. CASE head[req.game] = req.parent
    <2>1. head' = [head EXCEPT ![req.game] = id]
      BY <1>6 DEF CreateVersion
    <2>2. Register!FastForward(id, req.game, req.parent)
      BY <1>4, <1>6, <2>1 DEF Register!FastForward
    <2> QED
      BY <1>5, <2>2 DEF Register!Next
  <1>7. CASE head[req.game] # req.parent
    <2>1. head' = head
      BY <1>7, <1>5 DEF CreateVersion, TypeOK, VersionsTypeOK
    <2>2. Register!Branch(id, req.game, req.parent)
      BY <1>4, <1>7, <2>1 DEF Register!Branch
    <2> QED
      BY <1>5, <2>2 DEF Register!Next
  <1> QED
    BY <1>6, <1>7

LEMMA PruneRefines ==
  ASSUME TypeOK, NEW v \in VersionId, PruneVersion(v)
  PROVE  Register!Next
  <1>1. /\ DOMAIN versions' = DOMAIN versions \ {v}
        /\ \A u \in DOMAIN versions' :
              /\ versions'[u].game = versions[u].game
              /\ versions'[u].parent = IF versions[u].parent = v THEN NULL
                                       ELSE versions[u].parent
    BY DEF PruneVersion, TypeOK, VersionsTypeOK, VersionRow
  <1>2. Log' = [u \in DOMAIN Log \ {v} |->
                   IF Log[u].parent = v THEN [Log[u] EXCEPT !.parent = NULL]
                                        ELSE Log[u]]
    BY <1>1 DEF Log
  <1>3. Register!Forget(v)
    BY <1>2 DEF Register!Forget, Log, PruneVersion, NotAHead
  <1> QED
    BY <1>3 DEF Register!Next

LEMMA ResolveRefines ==
  ASSUME TypeOK, NEW g \in Game, NEW w \in VersionId, ResolveConflict(g, w)
  PROVE  Register!Next
  <1>1. Register!Resolve(g, w)
    BY DEF ResolveConflict, Register!Resolve, Rows
  <1> QED
    BY <1>1 DEF Register!Next

\* The history service implements the head register, for every value of the
\* constants: no interleaving of uploads, retries, resolutions and GC passes
\* moves a head except by a compare-and-swap or a resolution.
THEOREM HistoryImplementsRegister == Spec => ImplementsRegister
  <1>1. Init => Register!Init
    BY DEF Init, VersionsInit, Register!Init
  <1>2. IndInv /\ [Next]_vars => [Register!Next]_(Register!vars)
    <2> SUFFICES ASSUME IndInv, [Next]_vars
                 PROVE  [Register!Next]_(Register!vars)
      OBVIOUS
    <2> USE DEF IndInv, RowInv
    <2>1. CASE \E s \in Slot, id \in VersionId : PostCommit(s, id)
      BY <2>1, CreateRefines DEF PostCommit, TypeOK
    <2>2. CASE \E g \in Game, w \in VersionId : Resolve(g, w)
      BY <2>2, ResolveRefines DEF Resolve
    <2>3. CASE \E v \in DOMAIN gc.vers : GcDelete(v)
      BY <2>3, PruneRefines DEF GcDelete, TypeOK
    <2>4. CASE UNCHANGED versionVars
      BY <2>4 DEF Register!vars, versionVars
    <2>5. CASE \E s \in Slot : BlobRow(s)
      BY <2>4, <2>5 DEF BlobRow
    <2> QED
      BY <2>1, <2>2, <2>3, <2>4, <2>5, QuietSteps
  <1> QED
    BY <1>1, <1>2, InductiveInvariant, PTL DEF Spec, ImplementsRegister, Register!Spec

-----------------------------------------------------------------------------
(***************************************************************************)
(* When a version keeps its object                                         *)
(***************************************************************************)
\* No POST stands between its check and its transaction while a GC pass is
\* about to unlink the object of the same archive.
Apart ==
    \A s \in Slot :
        gc.pc = "unlink" /\ slots[s].pc = "commit" => slots[s].req.blob # gc.blob

CheckedStored ==
    \A s \in Slot : slots[s].pc = "commit" => slots[s].req.blob \in blobFiles

UnlinkedUnused ==
    gc.pc = "unlink" => \A v \in DOMAIN versions : versions[v].blob # gc.blob

BlobInv == VersionBlobStored /\ CheckedStored /\ UnlinkedUnused

\* Requests neither start an unlink nor remove an object.
LEMMA SlotBlobInv ==
  ASSUME BlobInv, blobFiles \subseteq blobFiles', UNCHANGED <<versions, gc>>,
         \A s \in Slot : slots'[s].pc = "commit" =>
             slots'[s].req.blob \in blobFiles'
  PROVE  BlobInv'
  BY DEF BlobInv, VersionBlobStored, CheckedStored, UnlinkedUnused

\* A pass that starts no unlink and does none.
LEMMA GcBlobInv ==
  ASSUME BlobInv, UNCHANGED <<versions, blobFiles, slots>>, gc'.pc # "unlink"
  PROVE  BlobInv'
  BY DEF BlobInv, VersionBlobStored, CheckedStored, UnlinkedUnused

LEMMA NextBlobInv == IndInv /\ Apart /\ BlobInv /\ [Next]_vars => BlobInv'
  <1> SUFFICES ASSUME IndInv, Apart, BlobInv, [Next]_vars PROVE BlobInv'
    OBVIOUS
  <1>0. TypeOK /\ slots \in [Slot -> [pc : AttemptPc, req : Request \cup {NULL},
                                     client : {"waits", "gone"}]]
    BY DEF IndInv, TypeOK
  <1>1. ASSUME NEW req \in Request, Pack(req) PROVE BlobInv'
    BY <1>1, SlotBlobInv DEF Pack, versionVars, blobVars, BlobInv, CheckedStored
  <1>2. ASSUME NEW s \in Slot, NEW req \in pending, Attempt(s, req) PROVE BlobInv'
    BY <1>0, <1>2, SlotBlobInv DEF Attempt, versionVars, blobVars, BlobInv,
       CheckedStored
  <1>3. ASSUME NEW s \in Slot, BlobHead(s) PROVE BlobInv'
    BY <1>0, <1>3, SlotBlobInv DEF BlobHead, Proceed, NoAttempt, versionVars,
       blobVars, BlobInv, CheckedStored
  <1>4. ASSUME NEW s \in Slot, BlobPut(s) PROVE BlobInv'
    BY <1>0, <1>4, SlotBlobInv DEF BlobPut, versionVars, BlobInv, CheckedStored
  <1>5. ASSUME NEW s \in Slot, BlobRow(s) PROVE BlobInv'
    BY <1>0, <1>5, SlotBlobInv DEF BlobRow, Proceed, NoAttempt, versionVars,
       BlobInv, CheckedStored
  <1>6. ASSUME NEW s \in Slot, PostCheck(s) PROVE BlobInv'
    BY <1>0, <1>6, SlotBlobInv DEF PostCheck, NoAttempt, versionVars, blobVars,
       BlobInv, CheckedStored
  <1>7. ASSUME NEW s \in Slot, NEW id \in VersionId, PostCommit(s, id)
        PROVE  BlobInv'
    <2> DEFINE b == slots[s].req.blob
    <2>1. id \notin DOMAIN versions
      BY <1>7 DEF PostCommit, CreateVersion, Fresh, IndInv, RowInv, MintedSound,
         TypeOK, VersionsTypeOK, VersionRow
    <2>2. /\ DOMAIN versions' = DOMAIN versions \cup {id}
          /\ \A v \in DOMAIN versions : versions'[v] = versions[v]
          /\ versions'[id].blob = b
      BY <1>7, <2>1 DEF PostCommit, CreateVersion
    <2>3. /\ slots[s].pc = "commit" /\ UNCHANGED <<blobFiles, gc>>
          /\ \A t \in Slot : slots'[t] = IF t = s THEN NoAttempt ELSE slots[t]
      BY <1>0, <1>7 DEF PostCommit
    <2>4. b \in blobFiles /\ (gc.pc = "unlink" => b # gc.blob)
      BY <2>3 DEF BlobInv, CheckedStored, Apart
    <2>5. VersionBlobStored' /\ UnlinkedUnused'
      BY <2>2, <2>3, <2>4 DEF BlobInv, VersionBlobStored, UnlinkedUnused
    <2>6. CheckedStored'
      BY <2>3 DEF BlobInv, CheckedStored, NoAttempt
    <2> QED
      BY <2>5, <2>6 DEF BlobInv
  <1>8. ASSUME NEW s \in Slot, PostRejected(s) PROVE BlobInv'
    BY <1>0, <1>8, SlotBlobInv DEF PostRejected, NoAttempt, versionVars, blobVars,
       BlobInv, CheckedStored
  <1>9. ASSUME NEW s \in Slot, Abandon(s) PROVE BlobInv'
    BY <1>0, <1>9, SlotBlobInv DEF Abandon, versionVars, blobVars, BlobInv,
       CheckedStored
  <1>10. ASSUME NEW s \in Slot, HandlerDies(s) PROVE BlobInv'
    BY <1>0, <1>10, SlotBlobInv DEF HandlerDies, NoAttempt, versionVars, blobVars,
       BlobInv, CheckedStored
  <1>11. ASSUME NEW g \in Game, NEW w \in VersionId, Resolve(g, w) PROVE BlobInv'
    BY <1>11, SlotBlobInv DEF Resolve, ResolveConflict, blobVars, BlobInv,
       CheckedStored
  <1>12. ASSUME NEW g \in Game, GcHead(g) PROVE BlobInv'
    BY <1>12, GcBlobInv DEF GcHead, GcIdle, versionVars, blobVars
  <1>13. CASE GcRows \/ GcRefs \/ GcPlan \/ GcDone \/ GcDies
    <2>1. DOMAIN gc = {"pc", "game", "head", "vers", "refs", "blob"}
      BY <1>0 DEF TypeOK
    <2>2. GcRows => gc'.pc # "unlink"
      BY <2>1 DEF GcRows, GcIdle
    <2>3. GcRefs => gc'.pc # "unlink"
      BY <2>1 DEF GcRefs
    <2>4. GcPlan => gc'.pc # "unlink"
      BY <2>1 DEF GcPlan
    <2>5. GcDone \/ GcDies => gc'.pc # "unlink"
      BY DEF GcDone, GcDies, GcIdle
    <2>6. gc'.pc # "unlink"
      BY <1>13, <2>2, <2>3, <2>4, <2>5
    <2> QED
      BY <1>13, <2>6, GcBlobInv
      DEF GcRows, GcRefs, GcPlan, GcDone, GcDies, versionVars, blobVars
  <1>14. ASSUME NEW v \in DOMAIN gc.vers, GcRejected(v) PROVE BlobInv'
    BY <1>14, GcBlobInv DEF GcRejected, GcIdle, versionVars, blobVars
  <1>15. ASSUME NEW v \in DOMAIN gc.vers, GcDelete(v) PROVE BlobInv'
    <2> DEFINE b == gc.vers[v].blob
    <2>1. /\ DOMAIN versions' = DOMAIN versions \ {v}
          /\ \A u \in DOMAIN versions' : versions'[u].blob = versions[u].blob
          /\ UNCHANGED <<blobFiles, slots>>
      BY <1>0, <1>15 DEF GcDelete, PruneVersion, TypeOK, VersionsTypeOK, VersionRow
    <2>2. VersionBlobStored' /\ CheckedStored'
      BY <2>1 DEF BlobInv, VersionBlobStored, CheckedStored
    <2>3. UnlinkedUnused'
      <3>1. CASE b \in DOMAIN blobRows /\ blobRows[b] <= 1
        <4>0. /\ blobRows' = [k \in DOMAIN blobRows \ {b} |-> blobRows[k]]
              /\ gc' = [gc EXCEPT !.pc = "unlink", !.vers = Remaining(v), !.blob = b]
              /\ DOMAIN gc = {"pc", "game", "head", "vers", "refs", "blob"}
          BY <1>0, <1>15, <3>1 DEF GcDelete, TypeOK
        <4>1. b \notin DOMAIN blobRows' /\ gc'.blob = b
          BY <4>0
        <4>2. RefcountExact'
          BY NextIndInv DEF IndInv
        <4> QED
          BY <4>1, <4>2 DEF RefcountExact, UnlinkedUnused
      <3>2. CASE ~(b \in DOMAIN blobRows /\ blobRows[b] <= 1)
        <4>1. gc.pc = "prune" /\ gc' = [gc EXCEPT !.vers = Remaining(v)]
          BY <1>15, <3>2 DEF GcDelete
        <4>2. gc'.pc # "unlink"
          BY <1>0, <4>1 DEF TypeOK
        <4> QED
          BY <4>2 DEF UnlinkedUnused
      <3> QED
        BY <3>1, <3>2
    <2> QED
      BY <2>2, <2>3 DEF BlobInv
  <1>16. CASE GcUnlink
    <2>1. /\ gc.pc = "unlink" /\ blobFiles' = blobFiles \ {gc.blob}
          /\ UNCHANGED <<versions, slots>>
      BY <1>16 DEF GcUnlink, versionVars
    <2>2. gc'.pc # "unlink"
      BY <1>0, <1>16 DEF GcUnlink, TypeOK
    <2> QED
      BY <2>1, <2>2 DEF BlobInv, VersionBlobStored, CheckedStored, UnlinkedUnused,
         Apart
  <1>17. CASE UNCHANGED vars
    BY <1>17, SlotBlobInv DEF vars, versionVars, blobVars, BlobInv, CheckedStored
  <1> QED
    BY <1>1, <1>2, <1>3, <1>4, <1>5, <1>6, <1>7, <1>8, <1>9, <1>10, <1>11, <1>12,
       <1>13, <1>14, <1>15, <1>16, <1>17
    DEF Next, SlotStep, GcStep

\* A stored version has its object, unless a GC pass unlinked it in the very
\* window in which a POST of the same archive had checked for it and not yet
\* committed: no other overlap of HEAD, PUT, POST, prune and their failures,
\* repetitions and deaths loses an object (create_version, run_gc).
THEOREM ObjectLostOnlyByRace == Spec /\ []Apart => []VersionBlobStored
  <1>1. Init => BlobInv
    BY DEF Init, VersionsInit, NoAttempt, GcIdle, BlobInv, VersionBlobStored,
           CheckedStored, UnlinkedUnused
  <1>2. BlobInv => VersionBlobStored
    BY DEF BlobInv
  <1> QED
    BY <1>1, <1>2, NextBlobInv, InductiveInvariant, PTL DEF Spec

=============================================================================
