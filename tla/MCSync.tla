-------------------------------- MODULE MCSync --------------------------------
(* Sync with one game, two save files and a bounded number of versions.      *)
EXTENDS Sync, TLC

CONSTANTS d1, d2, t1, t2

MCArchive == Archive

\* An earlier crash of the server left the full archive of one save orphaned.
OneOrphan ==
    LET c == [f \in File |-> CHOOSE x \in Val : TRUE]
    IN  {[files |-> c, data |-> c]}

\* One task on each device.
OneEach == (t1 :> d1) @@ (t2 :> d2)

\* Two tasks of one device, which no lock keeps apart.
TwoTasks == (t1 :> d1) @@ (t2 :> d1)

\* A single device with a single task.
OneTask == t1 :> d1

SwapDevices == {(d1 :> d2) @@ (d2 :> d1) @@ (t1 :> t2) @@ (t2 :> t1)}

\* Ids are interchangeable; where liveness rules symmetry out, they are taken in
\* order.
IdsInOrder ==
    \A v \in DOMAIN versions', u \in VersionId :
        u < v => u \in DOMAIN versions'

\* After a crash one task runs at a time; up to it they interleave freely.
AloneAfterCrash ==
    crashes' > 0 =>
        \A t, u \in Task : t # u => "idle" \in {task'[t].pc, task'[u].pc}

\* A second failure comes before the crash; a first one also after it.
SecondFailureFirst == fails' # fails => crashes = 0 \/ fails = 0

DataSymmetry == Permutations(VersionId) \cup Permutations(File) \cup Permutations(Val)

TaskSymmetry == DataSymmetry \cup Permutations({t1, t2})

Symmetry == DataSymmetry \cup SwapDevices
=============================================================================
