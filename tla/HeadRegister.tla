----------------------------- MODULE HeadRegister -----------------------------
(***************************************************************************)
(* What the history service promises its clients (PRD-03 section 4): a log *)
(* of versions per game and a head that behaves as one atomic register.  A *)
(* backup moves the head only from the very version it was made on;        *)
(* otherwise it becomes a branch and the head stays.  A head is otherwise  *)
(* moved only by an explicit resolution to a stored version, and a stored  *)
(* version is only forgotten while no head names it.                       *)
(***************************************************************************)
CONSTANTS Game, VersionId, NULL

VARIABLES
    log,    \* stored versions: id -> [game, parent]
    head

vars == <<log, head>>

Init ==
    /\ log = [v \in {} |-> NULL]
    /\ head = [g \in Game |-> NULL]

Store(id, g, parent) ==
    /\ id \notin DOMAIN log
    /\ parent = NULL \/ parent \in DOMAIN log
    /\ log' = [v \in DOMAIN log \cup {id} |->
                  IF v = id THEN [game |-> g, parent |-> parent] ELSE log[v]]

FastForward(id, g, parent) ==
    /\ head[g] = parent
    /\ Store(id, g, parent)
    /\ head' = [head EXCEPT ![g] = id]

Branch(id, g, parent) ==
    /\ head[g] # parent
    /\ Store(id, g, parent)
    /\ UNCHANGED head

Resolve(g, winner) ==
    /\ winner \in DOMAIN log
    /\ log[winner].game = g
    /\ head' = [head EXCEPT ![g] = winner]
    /\ UNCHANGED log

Forget(v) ==
    /\ v \in DOMAIN log
    /\ \A g \in Game : head[g] # v
    /\ log' = [u \in DOMAIN log \ {v} |->
                  IF log[u].parent = v THEN [log[u] EXCEPT !.parent = NULL]
                                       ELSE log[u]]
    /\ UNCHANGED head

Next ==
    \/ \E id \in VersionId, g \in Game, parent \in VersionId \cup {NULL} :
          FastForward(id, g, parent) \/ Branch(id, g, parent)
    \/ \E g \in Game, winner \in VersionId : Resolve(g, winner)
    \/ \E v \in VersionId : Forget(v)

Spec == Init /\ [][Next]_vars
=============================================================================
