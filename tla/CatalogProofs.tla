---------------------------- MODULE CatalogProofs ----------------------------
(***************************************************************************)
(* Theorems about Catalog for any disks, manifests and numbers of devices  *)
(* and tasks.                                                              *)
(*                                                                         *)
(* NoDuplicateTitle and TypeOK hold whichever refreshes run at once.  The  *)
(* others are about daemons that refresh one at a time (OneRefresh): two   *)
(* refreshes of a device that overlap may publish one's catalog with the   *)
(* other's index, or the older one's last.                                 *)
(***************************************************************************)
EXTENDS Catalog, TLAPS

USE CatalogAssumption

\* Two games of a catalog share a normalised title only if Steam lists both.
NoDuplicateIn(f) ==
    \A g, h \in DOMAIN f :
        g # h /\ Norm[f[g].title] = Norm[f[h].title]
        => f[g].src = "steam" /\ f[h].src = "steam"

Later == {"drive", "custom", "swap"}

Field == {"at", "authed", "todo", "item", "step", "cached", "readOk", "id",
          "seen", "index", "bad", "built"}

\* What the refresh r has found and recorded so far.
FoundSound(r) ==
    /\ r.at \in Stage
    /\ r.todo \subseteq Item
    /\ r.item \in Item \cup {NULL}
    /\ r.step # "none" => r.item # NULL
    /\ r.at = "begin" => DOMAIN r.built = {} /\ r.item = NULL /\ r.todo = {}
    /\ r.at = "steam" => /\ \A i \in r.todo : i.src = "steam"
                         /\ r.item # NULL => r.item.src = "steam"
                         /\ \A g \in DOMAIN r.built : r.built[g].src = "steam"
    /\ r.at \in Later => \A i \in r.todo : i.src # "steam"

\* Past Steam's games, every recorded title is marked as seen, and the game in
\* hand has a title of its own.
SeenSound(r) ==
    r.at \in Later =>
        /\ \A g \in DOMAIN r.built : Norm[r.built[g].title] \in r.seen
        /\ r.item # NULL =>
              /\ r.item.src # "steam" /\ Norm[r.item.title] \in r.seen
              /\ \A g \in DOMAIN r.built :
                    Norm[r.built[g].title] # Norm[r.item.title]

RefreshSound(r) ==
    /\ DOMAIN r = Field
    /\ FoundSound(r)
    /\ SeenSound(r)
    /\ NoDuplicateIn(r.built)

Inv ==
    /\ DOMAIN custom = Device /\ \A d \in Device : custom[d] \subseteq CustomTitle[d]
    /\ DOMAIN games = Device /\ \A d \in Device : NoDuplicateIn(games[d])
    /\ DOMAIN task = Job
    /\ \A k \in Job : task[k] # NULL => RefreshSound(task[k])

-----------------------------------------------------------------------------
(***************************************************************************)
(* What the disks hold                                                     *)
(***************************************************************************)
LEMMA SteamFound ==
  ASSUME NEW d \in Device
  PROVE  SteamItems(d) \subseteq Item /\ \A i \in SteamItems(d) : i.src = "steam"
  <1>1. ASSUME NEW a \in Installed[d]
        PROVE  a \in App /\ TitleOf(d, a) \in Title
    BY DEF TitleOf
  <1> QED
    BY <1>1 DEF SteamItems, Item

LEMMA DriveFound ==
  ASSUME NEW d \in Device
  PROVE  DriveItems(d) \subseteq Item /\ \A i \in DriveItems(d) : i.src # "steam"
  <1>1. ASSUME NEW f \in Folder[d], NEW t \in Matches(d, f)
        PROVE  f \in Title /\ t \in Title
    BY DEF Matches
  <1> QED
    BY <1>1 DEF DriveItems, Item

LEMMA CustomFound ==
  ASSUME NEW d \in Device, custom[d] \subseteq CustomTitle[d]
  PROVE  CustomItems(d) \subseteq Item /\ \A i \in CustomItems(d) : i.src # "steam"
  BY DEF CustomItems, Item

LEMMA BeginIs ==
  ASSUME NEW e PROVE RefreshSound(Begin(e))
  BY DEF Begin, RefreshSound, FoundSound, SeenSound, NoDuplicateIn, NoGames,
         Field, Stage, Later

-----------------------------------------------------------------------------
(***************************************************************************)
(* Steps of a refresh                                                      *)
(***************************************************************************)

\* Steps that keep what has been found and recorded.
LEMMA SameFound ==
  ASSUME NEW r, RefreshSound(r), NEW s, DOMAIN s = Field,
         s.at = r.at, s.todo = r.todo, s.item = r.item, s.seen = r.seen,
         s.built = r.built, s.step # "none" => r.step # "none"
  PROVE  RefreshSound(s)
  BY DEF RefreshSound, FoundSound, SeenSound

LEMMA StartSound ==
  ASSUME NEW k \in Job, NEW r, RefreshSound(r), r.at = "begin", NEW a
  PROVE  RefreshSound([r EXCEPT !.at = "steam", !.todo = SteamItems(k[1]),
                                !.authed = a])
  <1> DEFINE s == [r EXCEPT !.at = "steam", !.todo = SteamItems(k[1]),
                            !.authed = a]
  <1>1. /\ DOMAIN s = Field /\ s.at = "steam" /\ s.todo = SteamItems(k[1])
        /\ s.item = r.item /\ s.step = r.step /\ s.built = r.built
    BY DEF RefreshSound, Field
  <1>2. k[1] \in Device
    BY DEF Job
  <1> HIDE DEF s
  <1>3. RefreshSound(s)
    BY <1>1, <1>2, SteamFound
       DEF RefreshSound, FoundSound, SeenSound, NoDuplicateIn, Stage, Later
  <1> QED
    BY <1>3 DEF s

LEMMA SkipSound ==
  ASSUME NEW r, RefreshSound(r), NEW i, r.item = NULL
  PROVE  RefreshSound([r EXCEPT !.todo = @ \ {i}])
  <1> DEFINE s == [r EXCEPT !.todo = @ \ {i}]
  <1>1. /\ DOMAIN s = Field /\ s.at = r.at /\ s.todo = r.todo \ {i}
        /\ s.item = r.item /\ s.step = r.step /\ s.built = r.built
        /\ s.seen = r.seen
    BY DEF RefreshSound, Field
  <1> HIDE DEF s
  <1>2. RefreshSound(s)
    BY <1>1 DEF RefreshSound, FoundSound, SeenSound
  <1> QED
    BY <1>2 DEF s

\* A game that is not skipped has a title no recorded one has.
LEMMA LookSound ==
  ASSUME NEW r, RefreshSound(r), r.item = NULL, NEW i \in r.todo,
         ~SkipSeen(r, i), NEW ok, NEW c
  PROVE  RefreshSound(
           [r EXCEPT !.item = i, !.step = "looked", !.readOk = ok,
                     !.seen = IF i.src = "steam" THEN @
                              ELSE @ \cup {Norm[i.title]},
                     !.cached = c])
  <1> DEFINE n == IF i.src = "steam" THEN r.seen ELSE r.seen \cup {Norm[i.title]}
             s == [r EXCEPT !.item = i, !.step = "looked", !.readOk = ok,
                            !.seen = IF i.src = "steam" THEN @
                                     ELSE @ \cup {Norm[i.title]},
                            !.cached = c]
  <1>1. /\ DOMAIN s = Field /\ s.at = r.at /\ s.todo = r.todo /\ s.item = i
        /\ s.step = "looked" /\ s.built = r.built /\ s.seen = n
    BY DEF RefreshSound, Field
  <1> HIDE DEF s
  <1>2. i \in Item /\ i # NULL /\ r.at # "begin"
    BY DEF RefreshSound, FoundSound
  <1>3. FoundSound(s)
    BY <1>1, <1>2 DEF RefreshSound, FoundSound
  <1>4. SeenSound(s)
    <2>1. CASE r.at \in Later
      <3>1. i.src # "steam" /\ Norm[i.title] \notin r.seen
        BY <2>1 DEF RefreshSound, FoundSound, SkipSeen
      <3>2. \A g \in DOMAIN r.built : Norm[r.built[g].title] \in r.seen
        BY <2>1 DEF RefreshSound, SeenSound
      <3> QED
        BY <1>1, <3>1, <3>2 DEF SeenSound
    <2> QED
      BY <1>1, <2>1 DEF SeenSound
  <1>5. RefreshSound(s)
    BY <1>1, <1>3, <1>4 DEF RefreshSound
  <1> QED
    BY <1>5 DEF s

\* Recording the game in hand, under whatever id.
LEMMA RecordedSound ==
  ASSUME NEW r, RefreshSound(r), r.item # NULL, NEW g
  PROVE  RefreshSound(Recorded(r, g))
  <1> DEFINE s == Recorded(r, g)
             b == [h \in DOMAIN r.built \cup {g} |->
                     IF h = g THEN r.item ELSE r.built[h]]
  <1>1. /\ DOMAIN s = Field /\ s.at = r.at /\ s.todo = r.todo \ {r.item}
        /\ s.item = NULL /\ s.step = "none" /\ s.built = b /\ s.seen = r.seen
    BY DEF RefreshSound, Field, Recorded
  <1> HIDE DEF s
  <1>2. /\ DOMAIN b = DOMAIN r.built \cup {g} /\ b[g] = r.item
        /\ \A h \in DOMAIN b : h # g => h \in DOMAIN r.built /\ b[h] = r.built[h]
    OBVIOUS
  <1> HIDE DEF b
  <1>3. r.at \in {"steam"} \cup Later
    BY DEF RefreshSound, FoundSound, Stage, Later
  <1>4. FoundSound(s)
    BY <1>1, <1>2, <1>3 DEF RefreshSound, FoundSound, Later
  <1>5. SeenSound(s)
    BY <1>1, <1>2 DEF RefreshSound, SeenSound
  <1>6. NoDuplicateIn(b)
    <2>1. CASE r.at = "steam"
      <3>1. \A h \in DOMAIN b : b[h].src = "steam"
        BY <1>2, <2>1 DEF RefreshSound, FoundSound
      <3> QED
        BY <3>1 DEF NoDuplicateIn
    <2>2. CASE r.at \in Later
      <3>1. \A h \in DOMAIN b : h # g => Norm[b[h].title] # Norm[b[g].title]
        BY <1>2, <2>2 DEF RefreshSound, SeenSound
      <3>2. NoDuplicateIn(r.built)
        BY DEF RefreshSound
      <3> QED
        BY <1>2, <3>1, <3>2 DEF NoDuplicateIn
    <2> QED
      BY <1>3, <2>1, <2>2
  <1>7. RefreshSound(s)
    BY <1>1, <1>4, <1>5, <1>6 DEF RefreshSound
  <1> QED
    BY <1>7 DEF s

\* The titles recorded so far are marked before the drives are searched.
LEMMA SourceSound ==
  ASSUME Inv, NEW k \in Job, RefreshSound(task[k]), NextSource(k)
  PROVE  task[k] # NULL /\ \E s : SetTask(k, s) /\ RefreshSound(s)
  <1> DEFINE r == task[k]
             d == k[1]
             to == CASE r.at = "steam" -> "drive" [] r.at = "drive" -> "custom"
             found == IF to = "drive" THEN DriveItems(d) ELSE CustomItems(d)
             marks == IF to = "drive"
                      THEN {Norm[r.built[g].title] : g \in DOMAIN r.built}
                      ELSE r.seen
  <1>0. d \in Device /\ custom[d] \subseteq CustomTitle[d]
    BY DEF Job, Inv
  <1>1. r # NULL /\ r.at \in {"steam", "drive"} /\ r.item = NULL
    BY DEF NextSource
  <1>2. PICK s, todo :
          /\ SetTask(k, s) /\ todo \in {found, {}}
          /\ DOMAIN s = Field /\ s.at = to /\ s.todo = todo /\ s.item = NULL
          /\ s.step = r.step /\ s.built = r.built /\ s.seen = marks
    <2>1. PICK ok \in BOOLEAN :
            SetTask(k, [r EXCEPT !.at = to, !.todo = IF ok THEN found ELSE {},
                                 !.bad = @ \/ ~ok,
                                 !.seen = IF to = "drive"
                                          THEN {Norm[r.built[g].title] :
                                                  g \in DOMAIN r.built}
                                          ELSE @])
      BY DEF NextSource
    <2> DEFINE s == [r EXCEPT !.at = to, !.todo = IF ok THEN found ELSE {},
                              !.bad = @ \/ ~ok,
                              !.seen = IF to = "drive"
                                       THEN {Norm[r.built[g].title] :
                                               g \in DOMAIN r.built}
                                       ELSE @]
    <2> HIDE DEF found, to
    <2>2. /\ DOMAIN s = Field /\ s.at = to /\ s.todo = IF ok THEN found ELSE {}
          /\ s.item = r.item
          /\ s.step = r.step /\ s.built = r.built /\ s.seen = marks
      BY DEF RefreshSound, Field
    <2>3. SetTask(k, s)
      BY <2>1
    <2>4. (IF ok THEN found ELSE {}) \in {found, {}}
      OBVIOUS
    <2> HIDE DEF s, marks
    <2> QED
      BY <1>1, <2>2, <2>3, <2>4
  <1>3. \/ r.at = "steam" /\ to = "drive"
        \/ r.at = "drive" /\ to = "custom"
    BY <1>1
  <1>4. todo \subseteq Item /\ \A i \in todo : i.src # "steam"
    <2>1. found \in {DriveItems(d), CustomItems(d)}
      OBVIOUS
    <2> HIDE DEF found
    <2> QED
      BY <1>0, <1>2, <2>1, DriveFound, CustomFound
  <1>5. \A g \in DOMAIN r.built : Norm[r.built[g].title] \in marks
    <2>1. CASE to = "drive"
      BY <2>1
    <2>2. CASE to # "drive"
      <3>1. r.at \in Later
        BY <1>3, <2>2 DEF Later
      <3> QED
        BY <2>2, <3>1 DEF RefreshSound, SeenSound
    <2> QED
      BY <2>1, <2>2
  <1> HIDE DEF to, found, marks
  <1>6. FoundSound(s)
    BY <1>1, <1>2, <1>3, <1>4 DEF RefreshSound, FoundSound, Stage, Later
  <1>7. SeenSound(s)
    BY <1>2, <1>5 DEF SeenSound
  <1>8. RefreshSound(s)
    BY <1>2, <1>6, <1>7 DEF RefreshSound
  <1> QED
    BY <1>1, <1>2, <1>8

\* From here on only the soundness of a refresh matters.
LEMMA StepsSound ==
  ASSUME Inv, NEW k \in Job, RefreshStep(k) \/ EnsureFail(k)
  PROVE  \E s : SetTask(k, s) /\ (s # NULL => RefreshSound(s))
  <1> DEFINE r == task[k]
  <1>0. r # NULL => RefreshSound(r)
    BY DEF Inv
  <1>1. CASE RefreshStart(k)
    <2>1. r # NULL /\ r.at = "begin"
      BY <1>1 DEF RefreshStart
    <2>2. CASE SetTask(k, NULL)
      BY <2>2
    <2>3. CASE SetTask(k, [r EXCEPT !.at = "steam", !.todo = SteamItems(k[1]),
                                    !.authed = @ /\ k[1] \in paired])
      <3>1. PICK a : SetTask(k, [r EXCEPT !.at = "steam",
                                          !.todo = SteamItems(k[1]),
                                          !.authed = a])
        BY <2>3
      <3> DEFINE s == [r EXCEPT !.at = "steam", !.todo = SteamItems(k[1]),
                                !.authed = a]
      <3>2. SetTask(k, s) /\ RefreshSound(s)
        BY <1>0, <2>1, <3>1, StartSound
      <3> HIDE DEF s
      <3> QED
        BY <3>2
    <2> QED
      BY <1>1, <2>2, <2>3 DEF RefreshStart
  <1>2. CASE Look(k)
    <2>1. r # NULL /\ r.item = NULL
      BY <1>2 DEF Look
    <2>2. PICK i \in r.todo :
            \/ SetTask(k, [r EXCEPT !.todo = @ \ {i}])
            \/ /\ ~SkipSeen(r, i)
               /\ \E ok \in BOOLEAN :
                    SetTask(k,
                      [r EXCEPT !.item = i, !.step = "looked", !.readOk = ok,
                                !.seen = IF i.src = "steam" THEN @
                                         ELSE @ \cup {Norm[i.title]},
                                !.cached = IF ok THEN meta[k[1]][KeyOf(i)]
                                           ELSE NULL])
      BY <1>2 DEF Look
    <2>3. CASE SetTask(k, [r EXCEPT !.todo = @ \ {i}])
      <3>1. RefreshSound([r EXCEPT !.todo = @ \ {i}])
        BY <1>0, <2>1, SkipSound
      <3> QED
        BY <2>3, <3>1
    <2>4. ASSUME ~SkipSeen(r, i), NEW ok, NEW c,
                 SetTask(k,
                   [r EXCEPT !.item = i, !.step = "looked", !.readOk = ok,
                             !.seen = IF i.src = "steam" THEN @
                                      ELSE @ \cup {Norm[i.title]},
                             !.cached = c])
          PROVE  \E s : SetTask(k, s) /\ (s # NULL => RefreshSound(s))
      <3>1. RefreshSound(
              [r EXCEPT !.item = i, !.step = "looked", !.readOk = ok,
                        !.seen = IF i.src = "steam" THEN @
                                 ELSE @ \cup {Norm[i.title]},
                        !.cached = c])
        BY <1>0, <2>1, <2>4, LookSound
      <3> QED
        BY <2>4, <3>1
    <2> QED
      BY <2>2, <2>3, <2>4
  <1>3. ASSUME r # NULL, NEW s, DOMAIN s = Field, s.at = r.at,
               s.todo = r.todo, s.item = r.item, s.seen = r.seen,
               s.built = r.built, r.step # "none"
        PROVE  RefreshSound(s)
    BY <1>0, <1>3, SameFound
  <1>4. ASSUME r # NULL, r.step # "none", NEW st, NEW x
        PROVE  /\ RefreshSound([r EXCEPT !.step = st, !.id = x])
               /\ RefreshSound([r EXCEPT !.step = st])
    <2>1. DOMAIN r = Field
      BY <1>0, <1>4 DEF RefreshSound
    <2> DEFINE s == [r EXCEPT !.step = st, !.id = x]
               u == [r EXCEPT !.step = st]
    <2>2. /\ DOMAIN s = Field /\ s.at = r.at /\ s.todo = r.todo
          /\ s.item = r.item /\ s.seen = r.seen /\ s.built = r.built
          /\ DOMAIN u = Field /\ u.at = r.at /\ u.todo = r.todo
          /\ u.item = r.item /\ u.seen = r.seen /\ u.built = r.built
      BY <2>1 DEF Field
    <2> HIDE DEF s, u
    <2>3. RefreshSound(s) /\ RefreshSound(u)
      BY <1>3, <1>4, <2>2
    <2> QED
      BY <2>3 DEF s, u
  <1>5. CASE EnsureFind(k)
    <2>1. r # NULL /\ r.step # "none"
      BY <1>5 DEF EnsureFind
    <2>2. \/ \E x : SetTask(k, [r EXCEPT !.step = "ensured", !.id = x])
          \/ SetTask(k, [r EXCEPT !.step = "missing"])
      BY <1>5 DEF EnsureFind
    <2> QED
      BY <1>4, <2>1, <2>2
  <1>6. CASE EnsureInsert(k)
    <2>1. r # NULL /\ r.step # "none"
      BY <1>6 DEF EnsureInsert
    <2>2. PICK x : SetTask(k, [r EXCEPT !.step = "ensured", !.id = x])
      BY <1>6 DEF EnsureInsert
    <2> QED
      BY <1>4, <2>1, <2>2
  <1>7. CASE EnsureFail(k)
    <2>1. r # NULL /\ r.step # "none"
      BY <1>7 DEF EnsureFail
    <2>2. SetTask(k, [r EXCEPT !.step = "local", !.id = NULL])
      BY <1>7 DEF EnsureFail
    <2> QED
      BY <1>4, <2>1, <2>2
  <1>8. ASSUME r # NULL, r.step # "none", NEW g
        PROVE  RefreshSound(Recorded(r, g))
    BY <1>0, <1>8, RecordedSound DEF RefreshSound, FoundSound
  <1>9. CASE Adopt(k)
    <2>1. r # NULL /\ r.step # "none" /\ SetTask(k, Recorded(r, r.id))
      BY <1>9 DEF Adopt
    <2> QED
      BY <1>8, <2>1
  <1>10. CASE KeepLocal(k)
    <2>1. r # NULL /\ r.step # "none"
      BY <1>10 DEF KeepLocal
    <2>2. PICK g : SetTask(k, Recorded(r, g))
      BY <1>10 DEF KeepLocal
    <2> QED
      BY <1>8, <2>1, <2>2
  <1>11. CASE NextSource(k)
    <2>1. r # NULL
      BY <1>11 DEF NextSource
    <2> QED
      BY <1>0, <1>11, <2>1, SourceSound
  <1>12. CASE Publish(k)
    <2> DEFINE s == [r EXCEPT !.at = "swap"]
    <2>1. /\ r # NULL /\ r.at = "custom" /\ r.item = NULL /\ r.todo = {}
          /\ SetTask(k, s)
      BY <1>12 DEF Publish
    <2>2. /\ DOMAIN s = Field /\ s.at = "swap" /\ s.todo = r.todo
          /\ s.item = r.item /\ s.seen = r.seen /\ s.built = r.built
          /\ s.step = r.step
      BY <1>0, <2>1 DEF RefreshSound, Field
    <2> HIDE DEF s
    <2>3. RefreshSound(s)
      BY <1>0, <2>1, <2>2
         DEF RefreshSound, FoundSound, SeenSound, Stage, Later
    <2> QED
      BY <2>1, <2>3
  <1>13. CASE SwapIndex(k)
    <2>1. SetTask(k, NULL)
      BY <1>13 DEF SwapIndex
    <2> QED
      BY <2>1
  <1> QED
    BY <1>1, <1>2, <1>5, <1>6, <1>7, <1>9, <1>10, <1>11, <1>12, <1>13
       DEF RefreshStep

LEMMA NextSound == Inv /\ [Next]_vars => Inv'
  <1> SUFFICES ASSUME Inv, [Next]_vars PROVE Inv'
    OBVIOUS
  <1>1. ASSUME NEW k \in Job, NEW s, SetTask(k, s), s # NULL => RefreshSound(s)
        PROVE  /\ DOMAIN task' = Job
               /\ \A j \in Job : task'[j] # NULL => RefreshSound(task'[j])
    BY <1>1 DEF SetTask, Inv
  <1>2. ASSUME NEW k \in Job, RefreshStep(k) \/ EnsureFail(k) PROVE Inv'
    <2>1. /\ DOMAIN task' = Job
          /\ \A j \in Job : task'[j] # NULL => RefreshSound(task'[j])
      BY <1>1, <1>2, StepsSound
    <2>2. custom' = custom
      BY <1>2 DEF RefreshStep, RefreshStart, Look, EnsureFind, EnsureInsert,
           EnsureFail, Adopt, KeepLocal, NextSource, Publish, SwapIndex, localVars
    <2>3. CASE Publish(k)
      <3>1. NoDuplicateIn(task[k].built)
        BY <2>3 DEF Publish, Inv, RefreshSound
      <3>2. games' = [games EXCEPT ![k[1]] = task[k].built]
        BY <2>3 DEF Publish
      <3>3. DOMAIN games' = Device /\ \A d \in Device : NoDuplicateIn(games'[d])
        BY <3>1, <3>2 DEF Inv
      <3> QED
        BY <2>1, <2>2, <3>3 DEF Inv
    <2>4. CASE games' = games
      BY <2>1, <2>2, <2>4 DEF Inv
    <2> QED
      BY <1>2, <2>3, <2>4 DEF RefreshStep, RefreshStart, Look, EnsureFind,
           EnsureInsert, EnsureFail, Adopt, KeepLocal, NextSource, SwapIndex
  <1>3. ASSUME NEW k \in Job, Request(k) PROVE Inv'
    <2>1. games' = games /\ SetTask(k, Begin(TRUE))
      BY <1>3 DEF Request, AddRoot, RemoveRoot, AddCustomGame, RemoveCustomGame,
           Rescan, SetManifest
    <2>2. /\ DOMAIN task' = Job
          /\ \A j \in Job : task'[j] # NULL => RefreshSound(task'[j])
      BY <1>1, <2>1, BeginIs
    <2>3. /\ DOMAIN custom' = Device
          /\ \A d \in Device : custom'[d] \subseteq CustomTitle[d]
      <3>1. CASE custom' = custom
        BY <3>1 DEF Inv
      <3>2. ASSUME NEW c \in CustomTitle[k[1]], AddCustomGame(k, c)
            PROVE  /\ DOMAIN custom' = Device
                   /\ \A d \in Device : custom'[d] \subseteq CustomTitle[d]
        BY <3>2 DEF AddCustomGame, Inv
      <3>3. ASSUME NEW c \in CustomTitle[k[1]], RemoveCustomGame(k, c)
            PROVE  /\ DOMAIN custom' = Device
                   /\ \A d \in Device : custom'[d] \subseteq CustomTitle[d]
        BY <3>3 DEF RemoveCustomGame, Inv
      <3> QED
        BY <1>3, <3>1, <3>2, <3>3
           DEF Request, AddRoot, RemoveRoot, Rescan, SetManifest, localVars
    <2> QED
      BY <2>1, <2>2, <2>3 DEF Inv
  <1>4. ASSUME NEW d \in Device, PairDevice(d) PROVE Inv'
    BY <1>4 DEF PairDevice, Inv
  <1>5. ASSUME NEW d \in Device, Restart(d) PROVE Inv'
    <2>1. NoDuplicateIn(NoGames)
      BY DEF NoDuplicateIn, NoGames
    <2>2. DOMAIN games' = Device /\ \A e \in Device : NoDuplicateIn(games'[e])
      BY <1>5, <2>1 DEF Restart, Inv
    <2>3. /\ DOMAIN task' = Job
          /\ \A k \in Job : task'[k] \in {task[k], Begin(FALSE), NULL}
      BY <1>5 DEF Restart
    <2>4. \A k \in Job : task'[k] # NULL => RefreshSound(task'[k])
      <3>1. RefreshSound(Begin(FALSE))
        BY BeginIs
      <3>2. \A k \in Job : task[k] # NULL => RefreshSound(task[k])
        BY DEF Inv
      <3> QED
        BY <2>3, <3>1, <3>2
    <2> QED
      BY <1>5, <2>2, <2>3, <2>4 DEF Restart, Inv
  <1>6. CASE UNCHANGED vars
    BY <1>6 DEF vars, localVars, Inv
  <1> QED
    BY <1>2, <1>3, <1>4, <1>5, <1>6 DEF Next

LEMMA InitSound == Init => Inv
  <1> SUFFICES ASSUME Init PROVE Inv
    OBVIOUS
  <1>1. DOMAIN games = Device /\ \A d \in Device : NoDuplicateIn(games[d])
    BY DEF Init, NoDuplicateIn, NoGames
  <1>2. DOMAIN custom = Device /\ \A d \in Device : custom[d] \subseteq CustomTitle[d]
    BY DEF Init
  <1>3. DOMAIN task = Job /\ \A k \in Job : task[k] \in {Begin(FALSE), NULL}
    BY DEF Init
  <1>4. \A k \in Job : task[k] # NULL => RefreshSound(task[k])
    <2>1. RefreshSound(Begin(FALSE))
      BY BeginIs
    <2> QED
      BY <1>3, <2>1
  <1> QED
    BY <1>1, <1>2, <1>3, <1>4 DEF Inv

\* A catalog never lists a folder or a custom game under the title of another
\* entry, whichever refreshes run at once, whatever ids the server answers
\* (two of them may be the same) and whichever lists cannot be read
\* (refresh_games).
THEOREM NoDuplicateTitleHolds == Spec => []NoDuplicateTitle
  <1>1. Inv => NoDuplicateTitle
    BY DEF Inv, NoDuplicateIn, NoDuplicateTitle
  <1> QED
    BY <1>1, InitSound, NextSound, PTL DEF Spec

-----------------------------------------------------------------------------
(***************************************************************************)
(* Types                                                                   *)
(***************************************************************************)
\* A record with the fields of a refresh.
Fielded(r) == DOMAIN r = Field /\ r = [f \in Field |-> r[f]]

\* The fields of a refresh, one by one.
RefreshTyped(r) ==
    /\ Fielded(r)
    /\ r.at \in Stage /\ r.authed \in BOOLEAN
    /\ r.todo \subseteq Item /\ r.item \in Item \cup {NULL}
    /\ r.step \in {"none", "looked", "missing", "ensured", "local"}
    /\ r.cached \in Id \cup {NULL} /\ r.readOk \in BOOLEAN
    /\ r.id \in Id \cup {NULL}
    /\ r.seen \subseteq Range(Norm) /\ r.index \in Index /\ r.bad \in BOOLEAN
    /\ IsListing(r.built)

\* An id answered by the server is that of a row.
TasksTyped ==
    /\ DOMAIN task = Job
    /\ \A k \in Job : task[k] # NULL =>
         /\ RefreshTyped(task[k])
         /\ task[k].step = "ensured" => task[k].id \in DOMAIN rows

StateTyped ==
    /\ DOMAIN rows \subseteq Id
    /\ \A g \in DOMAIN rows :
         rows[g] \in [title : Title, app : App \cup {NULL}]
    /\ meta \in [Device -> [Key -> Id \cup {NULL}]]
    /\ roots \in [Device -> SUBSET {"steam", "drive"}]
    /\ custom \in [Device -> SUBSET Title]
    /\ paired \subseteq Device /\ manifest \subseteq Device
    /\ DOMAIN games = Device /\ \A d \in Device : IsListing(games[d])
    /\ index \in [Device -> Index]
    /\ spoilt \subseteq Device
    /\ minted \subseteq Id
    /\ upsets \in 0..MaxUpset

Typed == StateTyped /\ TasksTyped

LEMMA RefreshIs ==
  ASSUME NEW r, RefreshTyped(r)
  PROVE  IsRefresh(r) /\ r # NULL
  <1>1. ASSUME NEW L, r.built \in L PROVE r \in Refresh(L)
    BY <1>1 DEF RefreshTyped, Fielded, Refresh, Field
  <1>2. r.built \in UNION {[S -> Item] : S \in SUBSET Id}
    BY DEF RefreshTyped, IsListing
  <1> QED
    BY <1>1, <1>2, RefreshAssumption DEF IsRefresh, RefreshTyped

LEMMA TypedOK == Inv /\ Typed => TypeOK
  BY RefreshIs DEF Inv, Typed, StateTyped, TasksTyped, TypeOK

LEMMA KeyTyped ==
  ASSUME NEW i \in Item PROVE KeyOf(i) \in Key
  <1>1. CASE i.app # NULL
    BY <1>1 DEF KeyOf, Key, Item
  <1>2. CASE i.app = NULL
    <2>1. Norm[i.title] \in Range(Norm)
      BY DEF Item, Range
    <2> QED
      BY <1>2, <2>1 DEF KeyOf, Key
  <1> QED
    BY <1>1, <1>2

LEMMA EmptyTyped == EmptyIndex \in Index /\ IsListing(NoGames)
  BY DEF EmptyIndex, Index, IsListing, NoGames

LEMMA BeginTyped ==
  ASSUME NEW e \in BOOLEAN
  PROVE  RefreshTyped(Begin(e)) /\ Begin(e).step = "none"
  BY EmptyTyped DEF Begin, RefreshTyped, Fielded, Field, Stage, NoGames

LEMMA IndexTyped ==
  ASSUME NEW x \in Index, NEW i \in Item, NEW g \in Id
  PROVE  IndexInstallDir(x, i.dir, g) \in Index
  <1>1. /\ x.path \in [Exe -> Id \cup {NULL}]
        /\ x.base \in [Range(Basename) -> SUBSET Id]
    BY DEF Index
  <1>2. [e \in Exe |-> IF e \in ExesIn[i.dir] THEN g ELSE x.path[e]]
          \in [Exe -> Id \cup {NULL}]
    BY <1>1
  <1>3. [n \in Range(Basename) |->
           x.base[n] \cup {g : e \in {e \in ExesIn[i.dir] : Basename[e] = n}}]
          \in [Range(Basename) -> SUBSET Id]
    BY <1>1
  <1> QED
    BY <1>2, <1>3 DEF IndexInstallDir, Index

\* The catalog f with the game i under the id g.
Put(f, g, i) == [h \in DOMAIN f \cup {g} |-> IF h = g THEN i ELSE f[h]]

\* The refresh s is r after recording its game under the id g.
IsRecorded(s, r, g) ==
    /\ Fielded(s) /\ s.at = r.at /\ s.authed = r.authed
    /\ s.todo = r.todo \ {r.item} /\ s.item = NULL /\ s.step = "none"
    /\ s.cached = NULL /\ s.readOk = TRUE /\ s.id = NULL /\ s.seen = r.seen
    /\ s.index = IndexInstallDir(r.index, r.item.dir, g)
    /\ s.built = Put(r.built, g, r.item)

LEMMA RecordedIs ==
  ASSUME NEW r, RefreshTyped(r), NEW g
  PROVE  IsRecorded(Recorded(r, g), r, g)
  BY DEF IsRecorded, Recorded, RefreshTyped, Fielded, Field, Put

LEMMA RecordedBad ==
  ASSUME NEW r, RefreshTyped(r), NEW g
  PROVE  /\ Recorded(r, g).bad \in BOOLEAN
         /\ ~Recorded(r, g).bad => ~r.bad /\ g \notin DOMAIN r.built
  <1>1. Recorded(r, g).bad = (r.bad \/ g \in DOMAIN r.built)
    BY DEF Recorded, RefreshTyped, Fielded, Field
  <1>2. r.bad \in BOOLEAN
    BY DEF RefreshTyped
  <1> QED
    BY <1>1, <1>2

LEMMA RecordedTyped ==
  ASSUME NEW r, RefreshTyped(r), r.item # NULL, NEW g \in Id
  PROVE  RefreshTyped(Recorded(r, g)) /\ Recorded(r, g).step = "none"
  <1> DEFINE s == Recorded(r, g)
             b == Put(r.built, g, r.item)
  <1>1. IsRecorded(s, r, g)
    BY RecordedIs
  <1>2. s.bad \in BOOLEAN
    BY RecordedBad
  <1>3. IsListing(b)
    BY DEF RefreshTyped, IsListing, Put
  <1>4. IndexInstallDir(r.index, r.item.dir, g) \in Index
    BY IndexTyped DEF RefreshTyped
  <1> HIDE DEF s
  <1>5. RefreshTyped(s) /\ s.step = "none"
    BY <1>1, <1>2, <1>3, <1>4 DEF RefreshTyped, IsRecorded
  <1> QED
    BY <1>5 DEF s

\* The task goes on, with what it holds.
Going(k) == TasksTyped' /\ task'[k] # NULL

LEMMA PutTask ==
  ASSUME TasksTyped, NEW k \in Job, NEW s, SetTask(k, s),
         DOMAIN rows \subseteq DOMAIN rows', RefreshTyped(s),
         s.step = "ensured" => s.id \in DOMAIN rows'
  PROVE  Going(k)
  <1>1. s # NULL
    BY RefreshIs
  <1> QED
    BY <1>1 DEF TasksTyped, SetTask, Going

LEMMA DropTask ==
  ASSUME TasksTyped, NEW k \in Job, SetTask(k, NULL),
         DOMAIN rows \subseteq DOMAIN rows'
  PROVE  TasksTyped'
  BY DEF TasksTyped, SetTask

\* A step in the middle of a game: only the stage of the lookup and the id.
LEMMA StageTyped ==
  ASSUME NEW r, RefreshTyped(r), NEW x \in Id \cup {NULL},
         NEW st \in {"missing", "ensured", "local"}
  PROVE  /\ RefreshTyped([r EXCEPT !.step = st, !.id = x])
         /\ [r EXCEPT !.step = st, !.id = x].step = st
         /\ [r EXCEPT !.step = st, !.id = x].id = x
         /\ RefreshTyped([r EXCEPT !.step = st])
         /\ [r EXCEPT !.step = st].step = st
  <1> DEFINE s == [r EXCEPT !.step = st, !.id = x]
             u == [r EXCEPT !.step = st]
  <1>1. /\ Fielded(s) /\ s.at = r.at /\ s.authed = r.authed
        /\ s.todo = r.todo /\ s.item = r.item /\ s.step = st
        /\ s.cached = r.cached /\ s.readOk = r.readOk /\ s.id = x
        /\ s.seen = r.seen /\ s.index = r.index /\ s.bad = r.bad
        /\ s.built = r.built
    BY DEF RefreshTyped, Fielded, Field
  <1>2. /\ Fielded(u) /\ u.at = r.at /\ u.authed = r.authed
        /\ u.todo = r.todo /\ u.item = r.item /\ u.step = st
        /\ u.cached = r.cached /\ u.readOk = r.readOk /\ u.id = r.id
        /\ u.seen = r.seen /\ u.index = r.index /\ u.bad = r.bad
        /\ u.built = r.built
    BY DEF RefreshTyped, Fielded, Field
  <1> HIDE DEF s, u
  <1>3. RefreshTyped(s)
    BY <1>1 DEF RefreshTyped
  <1>4. RefreshTyped(u)
    BY <1>2 DEF RefreshTyped
  <1> QED
    BY <1>1, <1>2, <1>3, <1>4 DEF s, u

LEMMA FirstRowIn ==
  ASSUME NEW S, S # {} PROVE FirstRow(S) \in S
  BY DEF FirstRow

LEMMA FreshIn ==
  ASSUME Fresh # {} PROVE (CHOOSE g \in Fresh : TRUE) \in Id \ minted
  BY DEF Fresh

LEMMA StartTyped ==
  ASSUME Inv, Typed, NEW k \in Job, RefreshStart(k)
  PROVE  TasksTyped' /\ (task'[k] # NULL \/ k[1] \in spoilt')
  <1> DEFINE r == task[k]
  <1>1. r # NULL /\ r.at = "begin" /\ rows' = rows
    BY DEF RefreshStart
  <1>2. RefreshTyped(r) /\ (r.step = "ensured" => r.id \in DOMAIN rows)
    BY <1>1 DEF Typed, TasksTyped
  <1>3. ASSUME NEW a \in BOOLEAN,
               SetTask(k, [r EXCEPT !.at = "steam", !.todo = SteamItems(k[1]),
                                    !.authed = a])
        PROVE  Going(k)
    <2> DEFINE s == [r EXCEPT !.at = "steam", !.todo = SteamItems(k[1]),
                              !.authed = a]
    <2>1. /\ Fielded(s) /\ s.at = "steam" /\ s.authed = a
          /\ s.todo = SteamItems(k[1]) /\ s.item = r.item /\ s.step = r.step
          /\ s.cached = r.cached /\ s.readOk = r.readOk /\ s.id = r.id
          /\ s.seen = r.seen /\ s.index = r.index /\ s.bad = r.bad
          /\ s.built = r.built
      BY <1>2 DEF RefreshTyped, Fielded, Field
    <2>2. SetTask(k, s)
      BY <1>3
    <2> HIDE DEF s
    <2>3. SteamItems(k[1]) \subseteq Item
      BY SteamFound DEF Job
    <2>4. RefreshTyped(s)
      BY <1>2, <2>1, <2>3 DEF RefreshTyped, Stage
    <2> QED
      BY <1>1, <1>2, <2>1, <2>2, <2>4, PutTask DEF Typed
  <1>4. CASE SetTask(k, NULL) /\ k[1] \in spoilt'
    BY <1>1, <1>4, DropTask DEF Typed
  <1>5. ASSUME SetTask(k, [r EXCEPT !.at = "steam", !.todo = SteamItems(k[1]),
                                    !.authed = @ /\ k[1] \in paired])
        PROVE  Going(k)
    <2>1. PICK a \in BOOLEAN : a = (r.authed /\ k[1] \in paired)
      BY <1>2 DEF RefreshTyped
    <2>2. SetTask(k, [r EXCEPT !.at = "steam", !.todo = SteamItems(k[1]),
                               !.authed = a])
      BY <1>5, <2>1
    <2> QED
      BY <1>3, <2>2
  <1> QED
    BY <1>4, <1>5 DEF RefreshStart, Going

LEMMA LookTyped ==
  ASSUME Inv, Typed, NEW k \in Job, Look(k)
  PROVE  Going(k)
  <1> DEFINE r == task[k]
  <1>1. r # NULL /\ r.item = NULL /\ rows' = rows
    BY DEF Look
  <1>2. RefreshTyped(r) /\ (r.step = "ensured" => r.id \in DOMAIN rows)
    BY <1>1 DEF Typed, TasksTyped
  <1>3. ASSUME NEW i \in r.todo, SetTask(k, [r EXCEPT !.todo = @ \ {i}])
        PROVE  Going(k)
    <2> DEFINE s == [r EXCEPT !.todo = @ \ {i}]
    <2>1. /\ Fielded(s) /\ s.at = r.at /\ s.authed = r.authed
          /\ s.todo = r.todo \ {i} /\ s.item = r.item /\ s.step = r.step
          /\ s.cached = r.cached /\ s.readOk = r.readOk /\ s.id = r.id
          /\ s.seen = r.seen /\ s.index = r.index /\ s.bad = r.bad
          /\ s.built = r.built
      BY <1>2 DEF RefreshTyped, Fielded, Field
    <2>2. SetTask(k, s)
      BY <1>3
    <2> HIDE DEF s
    <2>3. RefreshTyped(s)
      BY <1>2, <2>1 DEF RefreshTyped
    <2> QED
      BY <1>1, <1>2, <2>1, <2>2, <2>3, PutTask DEF Typed
  <1>4. ASSUME NEW i \in r.todo, NEW ok \in BOOLEAN, NEW c \in Id \cup {NULL},
               NEW n, n = (IF i.src = "steam" THEN r.seen
                           ELSE r.seen \cup {Norm[i.title]}),
               SetTask(k, [r EXCEPT !.item = i, !.step = "looked",
                                    !.readOk = ok, !.seen = n, !.cached = c])
        PROVE  Going(k)
    <2> DEFINE s == [r EXCEPT !.item = i, !.step = "looked",
                              !.readOk = ok, !.seen = n, !.cached = c]
    <2>1. /\ Fielded(s) /\ s.at = r.at /\ s.authed = r.authed
          /\ s.todo = r.todo /\ s.item = i /\ s.step = "looked"
          /\ s.cached = c /\ s.readOk = ok /\ s.id = r.id
          /\ s.seen = n /\ s.index = r.index /\ s.bad = r.bad
          /\ s.built = r.built
      BY <1>2 DEF RefreshTyped, Fielded, Field
    <2>2. SetTask(k, s)
      BY <1>4
    <2> HIDE DEF s
    <2>3. n \subseteq Range(Norm) /\ i \in Item
      <3>1. i \in Item
        BY <1>2 DEF RefreshTyped
      <3>2. Norm[i.title] \in Range(Norm)
        BY <3>1 DEF Item, Range
      <3> QED
        BY <1>2, <1>4, <3>1, <3>2 DEF RefreshTyped
    <2>4. RefreshTyped(s)
      BY <1>2, <2>1, <2>3 DEF RefreshTyped
    <2> QED
      BY <1>1, <2>1, <2>2, <2>4, PutTask DEF Typed
  <1>5. PICK i \in r.todo :
          \/ SetTask(k, [r EXCEPT !.todo = @ \ {i}])
          \/ \E ok \in BOOLEAN :
               SetTask(k,
                 [r EXCEPT !.item = i, !.step = "looked", !.readOk = ok,
                           !.seen = IF i.src = "steam" THEN @
                                    ELSE @ \cup {Norm[i.title]},
                           !.cached = IF ok THEN meta[k[1]][KeyOf(i)]
                                      ELSE NULL])
    BY DEF Look
  <1>6. ASSUME NEW ok \in BOOLEAN,
               SetTask(k,
                 [r EXCEPT !.item = i, !.step = "looked", !.readOk = ok,
                           !.seen = IF i.src = "steam" THEN @
                                    ELSE @ \cup {Norm[i.title]},
                           !.cached = IF ok THEN meta[k[1]][KeyOf(i)]
                                      ELSE NULL])
        PROVE  Going(k)
    <2>1. PICK n : n = (IF i.src = "steam" THEN r.seen
                        ELSE r.seen \cup {Norm[i.title]})
      OBVIOUS
    <2>2. PICK c \in Id \cup {NULL} :
            c = (IF ok THEN meta[k[1]][KeyOf(i)] ELSE NULL)
      <3>1. KeyOf(i) \in Key
        BY <1>2, KeyTyped DEF RefreshTyped
      <3>2. k[1] \in Device
        BY DEF Job
      <3>3. meta \in [Device -> [Key -> Id \cup {NULL}]]
        BY DEF Typed, StateTyped
      <3>4. meta[k[1]][KeyOf(i)] \in Id \cup {NULL}
        BY <3>1, <3>2, <3>3
      <3> QED
        BY <3>4
    <2>3. SetTask(k, [r EXCEPT !.item = i, !.step = "looked",
                               !.readOk = ok, !.seen = n, !.cached = c])
      BY <1>6, <2>1, <2>2
    <2> QED
      BY <1>4, <2>1, <2>3
  <1> QED
    BY <1>3, <1>5, <1>6

LEMMA EnsuredTyped ==
  ASSUME Typed, NEW k \in Job, task[k] # NULL, NEW x \in Id, x \in DOMAIN rows',
         DOMAIN rows \subseteq DOMAIN rows',
         SetTask(k, [task[k] EXCEPT !.step = "ensured", !.id = x])
  PROVE  Going(k)
  <1> DEFINE s == [task[k] EXCEPT !.step = "ensured", !.id = x]
  <1>1. RefreshTyped(task[k])
    BY DEF Typed, TasksTyped
  <1>2. \A st \in {"missing", "ensured", "local"} :
           RefreshTyped([task[k] EXCEPT !.step = st, !.id = x])
    BY <1>1, StageTyped
  <1>4. RefreshTyped(s)
    BY <1>2
  <1>5. s.id = x
    BY <1>1 DEF RefreshTyped, Fielded, Field
  <1>3. SetTask(k, s)
    OBVIOUS
  <1> HIDE DEF s
  <1> QED
    BY <1>3, <1>4, <1>5, PutTask DEF Typed

LEMMA FindTyped ==
  ASSUME Inv, Typed, NEW k \in Job, EnsureFind(k)
  PROVE  Going(k)
  <1> DEFINE r == task[k]
             found == RowsOfApp(r.item.app)
  <1>1. r # NULL /\ rows' = rows
    BY DEF EnsureFind
  <1>2. RefreshTyped(r)
    BY <1>1 DEF Typed, TasksTyped
  <1>3. CASE found # {} /\ SetTask(k, [r EXCEPT !.step = "ensured", !.id = FirstRow(found)])
    <2>1. PICK x : x = FirstRow(found)
      OBVIOUS
    <2>2. x \in DOMAIN rows /\ x \in Id
      BY <1>3, <2>1, FirstRowIn DEF RowsOfApp, Typed, StateTyped
    <2>3. SetTask(k, [r EXCEPT !.step = "ensured", !.id = x])
      BY <1>3, <2>1
    <2> QED
      BY <1>1, <2>2, <2>3, EnsuredTyped
  <1>4. CASE SetTask(k, [r EXCEPT !.step = "missing"])
    BY <1>1, <1>2, <1>4, StageTyped, PutTask DEF Typed
  <1> QED
    BY <1>3, <1>4 DEF EnsureFind

LEMMA InsertTyped ==
  ASSUME Inv, Typed, NEW k \in Job, EnsureInsert(k)
  PROVE  /\ Going(k)
         /\ DOMAIN rows \subseteq DOMAIN rows'
         /\ DOMAIN rows' \subseteq Id
         /\ \A g \in DOMAIN rows' :
              rows'[g] \in [title : Title, app : App \cup {NULL}]
         /\ minted' \subseteq Id
  <1> DEFINE r == task[k]
             found == RowsOfTitle(r.item.title)
             n == CHOOSE g \in Fresh : TRUE
  <1>1. r # NULL /\ r.step # "none"
    BY DEF EnsureInsert
  <1>2. RefreshTyped(r) /\ r.item \in Item
    BY <1>1 DEF Typed, TasksTyped, Inv, RefreshSound, FoundSound, RefreshTyped
  <1>0. /\ DOMAIN rows \subseteq Id /\ minted \subseteq Id
        /\ \A g \in DOMAIN rows :
             rows[g] \in [title : Title, app : App \cup {NULL}]
    BY DEF Typed, StateTyped
  <1>3. ASSUME found # {}, rows' = rows, minted' = minted,
               SetTask(k, [r EXCEPT !.step = "ensured", !.id = FirstRow(found)])
        PROVE  Going(k)
    <2>1. PICK x : x = FirstRow(found)
      OBVIOUS
    <2>2. x \in DOMAIN rows /\ x \in Id
      BY <1>3, <2>1, FirstRowIn DEF RowsOfTitle, Typed, StateTyped
    <2>3. SetTask(k, [r EXCEPT !.step = "ensured", !.id = x])
      BY <1>3, <2>1
    <2> QED
      BY <1>1, <1>3, <2>2, <2>3, EnsuredTyped
  <1>4. ASSUME NEW g \in Id, minted' = minted \cup {g},
               rows' = [h \in DOMAIN rows \cup {g} |->
                          IF h = g THEN [title |-> r.item.title, app |-> r.item.app]
                          ELSE rows[h]],
               SetTask(k, [r EXCEPT !.step = "ensured", !.id = g])
        PROVE  /\ Going(k)
               /\ DOMAIN rows \subseteq DOMAIN rows'
               /\ DOMAIN rows' \subseteq Id
               /\ \A h \in DOMAIN rows' :
                    rows'[h] \in [title : Title, app : App \cup {NULL}]
               /\ minted' \subseteq Id
    <2>1. DOMAIN rows' = DOMAIN rows \cup {g}
      BY <1>4
    <2>2. [title |-> r.item.title, app |-> r.item.app]
            \in [title : Title, app : App \cup {NULL}]
      BY <1>2 DEF Item
    <2>3. \A h \in DOMAIN rows' :
            rows'[h] \in [title : Title, app : App \cup {NULL}]
      BY <1>0, <1>4, <2>1, <2>2
    <2>4. Going(k)
      BY <1>1, <1>4, <2>1, EnsuredTyped
    <2> QED
      BY <1>0, <1>4, <2>1, <2>3, <2>4
  <1>5. \/ /\ found # {} /\ rows' = rows /\ minted' = minted
           /\ SetTask(k, [r EXCEPT !.step = "ensured", !.id = FirstRow(found)])
        \/ /\ Fresh # {} /\ minted' = minted \cup {n}
           /\ rows' = [h \in DOMAIN rows \cup {n} |->
                         IF h = n THEN [title |-> r.item.title, app |-> r.item.app]
                         ELSE rows[h]]
           /\ SetTask(k, [r EXCEPT !.step = "ensured", !.id = n])
    BY DEF EnsureInsert
  <1>6. Fresh # {} => n \in Id
    BY FreshIn
  <1> HIDE DEF n, found
  <1> QED
    BY <1>0, <1>3, <1>4, <1>5, <1>6

LEMMA FailTyped ==
  ASSUME Inv, Typed, NEW k \in Job, EnsureFail(k)
  PROVE  Going(k)
  <1> DEFINE s == [task[k] EXCEPT !.step = "local", !.id = NULL]
  <1>1. task[k] # NULL /\ rows' = rows /\ SetTask(k, s)
    BY DEF EnsureFail
  <1>2. RefreshTyped(task[k])
    BY <1>1 DEF Typed, TasksTyped
  <1>3. \A st \in {"missing", "ensured", "local"} :
           RefreshTyped([task[k] EXCEPT !.step = st, !.id = NULL])
    BY <1>2, StageTyped
  <1>4. RefreshTyped(s)
    BY <1>3
  <1>5. s.step = "local"
    BY <1>2 DEF RefreshTyped, Fielded, Field
  <1> HIDE DEF s
  <1> QED
    BY <1>1, <1>4, <1>5, PutTask DEF Typed

LEMMA RecordTyped ==
  ASSUME Inv, Typed, NEW k \in Job, task[k] # NULL, task[k].step # "none",
         NEW g \in Id, SetTask(k, Recorded(task[k], g)), rows' = rows
  PROVE  Going(k)
  <1>1. RefreshTyped(task[k]) /\ task[k].item # NULL
    BY DEF Typed, TasksTyped, Inv, RefreshSound, FoundSound
  <1>2. /\ RefreshTyped(Recorded(task[k], g))
        /\ Recorded(task[k], g).step = "none"
    BY <1>1, RecordedTyped
  <1> QED
    BY <1>2, PutTask DEF Typed

LEMMA MetaTyped ==
  ASSUME Typed, NEW d \in Device, NEW key \in Key, NEW g \in Id,
         meta' = [meta EXCEPT ![d][key] = g]
  PROVE  meta' \in [Device -> [Key -> Id \cup {NULL}]]
  BY DEF Typed, StateTyped

LEMMA UpsetTyped ==
  ASSUME Typed, NEW d, Upset(d) PROVE upsets' \in 0..MaxUpset
  BY DEF Typed, StateTyped, Upset

LEMMA SetMetaTyped ==
  ASSUME Typed, NEW d \in Device, NEW i \in Item, NEW g \in Id, SetMeta(d, KeyOf(i), g)
  PROVE  meta' \in [Device -> [Key -> Id \cup {NULL}]] /\ upsets' \in 0..MaxUpset
  <1>1. KeyOf(i) \in Key
    BY KeyTyped
  <1>2. CASE meta' = [meta EXCEPT ![d][KeyOf(i)] = g] /\ UNCHANGED upsets
    BY <1>1, <1>2, MetaTyped DEF Typed, StateTyped
  <1>3. CASE Upset(d) /\ UNCHANGED meta
    BY <1>3, UpsetTyped DEF Typed, StateTyped
  <1> QED
    BY <1>2, <1>3 DEF SetMeta

LEMMA AdoptTyped ==
  ASSUME Inv, Typed, NEW k \in Job, Adopt(k)
  PROVE  /\ Going(k)
         /\ meta' \in [Device -> [Key -> Id \cup {NULL}]]
         /\ upsets' \in 0..MaxUpset
  <1> DEFINE r == task[k]
  <1>1. /\ r # NULL /\ r.step = "ensured" /\ rows' = rows
        /\ SetTask(k, Recorded(r, r.id))
    BY DEF Adopt
  <1>2. r.id \in Id /\ r.item \in Item /\ k[1] \in Device
    BY <1>1 DEF Typed, TasksTyped, StateTyped, Inv, RefreshSound, FoundSound, Job
  <1>3. Going(k)
    BY <1>1, <1>2, RecordTyped
  <1>4. UNCHANGED <<meta, upsets>> \/ SetMeta(k[1], KeyOf(r.item), r.id)
    BY DEF Adopt
  <1> QED
    BY <1>2, <1>3, <1>4, SetMetaTyped DEF Typed, StateTyped

LEMMA KeepTyped ==
  ASSUME Inv, Typed, NEW k \in Job, KeepLocal(k)
  PROVE  /\ Going(k)
         /\ meta' \in [Device -> [Key -> Id \cup {NULL}]]
         /\ upsets' \in 0..MaxUpset
         /\ minted' \subseteq Id
  <1> DEFINE r == task[k]
             n == CHOOSE g \in Fresh : TRUE
  <1>1. r # NULL /\ r.step # "none" /\ rows' = rows
    BY DEF KeepLocal
  <1>2. RefreshTyped(r) /\ r.item \in Item /\ k[1] \in Device
    BY <1>1 DEF Typed, TasksTyped, Inv, RefreshSound, FoundSound, Job
  <1>3. Fresh # {} => n \in Id
    BY FreshIn
  <1>4. \/ /\ r.cached # NULL /\ SetTask(k, Recorded(r, r.cached))
           /\ UNCHANGED <<meta, minted, upsets>>
        \/ /\ Fresh # {} /\ minted' = minted \cup {n}
           /\ UNCHANGED <<meta, upsets>> \/ SetMeta(k[1], KeyOf(r.item), n)
           /\ SetTask(k, Recorded(r, n))
    BY DEF KeepLocal
  <1> HIDE DEF n
  <1>5. CASE /\ r.cached # NULL /\ SetTask(k, Recorded(r, r.cached))
             /\ UNCHANGED <<meta, minted, upsets>>
    <2>1. r.cached \in Id
      BY <1>2, <1>5 DEF RefreshTyped
    <2>2. Going(k)
      BY <1>1, <1>5, <2>1, RecordTyped
    <2> QED
      BY <1>5, <2>2 DEF Typed, StateTyped
  <1>6. CASE /\ Fresh # {} /\ minted' = minted \cup {n}
             /\ UNCHANGED <<meta, upsets>> \/ SetMeta(k[1], KeyOf(r.item), n)
             /\ SetTask(k, Recorded(r, n))
    <2>1. n \in Id
      BY <1>3, <1>6
    <2>2. Going(k)
      BY <1>1, <1>6, <2>1, RecordTyped
    <2>3. /\ meta' \in [Device -> [Key -> Id \cup {NULL}]]
          /\ upsets' \in 0..MaxUpset
      BY <1>2, <1>6, <2>1, SetMetaTyped DEF Typed, StateTyped
    <2> QED
      BY <1>6, <2>1, <2>2, <2>3 DEF Typed, StateTyped
  <1> QED
    BY <1>4, <1>5, <1>6

LEMMA SourceTyped ==
  ASSUME Inv, Typed, NEW k \in Job, NextSource(k)
  PROVE  Going(k)
  <1> DEFINE r == task[k]
             d == k[1]
             to == CASE r.at = "steam" -> "drive" [] r.at = "drive" -> "custom"
             found == IF to = "drive" THEN DriveItems(d) ELSE CustomItems(d)
             marks == IF to = "drive"
                      THEN {Norm[r.built[g].title] : g \in DOMAIN r.built}
                      ELSE r.seen
  <1>1. r # NULL /\ r.at \in {"steam", "drive"} /\ rows' = rows
    BY DEF NextSource
  <1>2. RefreshTyped(r) /\ (r.step = "ensured" => r.id \in DOMAIN rows)
    BY <1>1 DEF Typed, TasksTyped
  <1>3. PICK ok \in BOOLEAN :
          SetTask(k, [r EXCEPT !.at = to, !.todo = IF ok THEN found ELSE {},
                               !.bad = @ \/ ~ok,
                               !.seen = IF to = "drive"
                                        THEN {Norm[r.built[g].title] :
                                                g \in DOMAIN r.built}
                                        ELSE @])
    BY DEF NextSource
  <1>4. PICK b \in BOOLEAN : b = (r.bad \/ ~ok)
    OBVIOUS
  <1>5. PICK l : l = IF ok THEN found ELSE {}
    OBVIOUS
  <1>6. SetTask(k, [r EXCEPT !.at = to, !.todo = l, !.bad = b, !.seen = marks])
    BY <1>3, <1>4, <1>5
  <1>7. l \subseteq Item
    <2>1. found \in {DriveItems(d), CustomItems(d)}
      OBVIOUS
    <2>2. d \in Device /\ custom[d] \subseteq CustomTitle[d]
      BY DEF Job, Inv
    <2> HIDE DEF found, d
    <2>3. found \subseteq Item
      BY <2>1, <2>2, DriveFound, CustomFound
    <2> QED
      BY <1>5, <2>3
  <1>8. marks \subseteq Range(Norm)
    <2>1. \A g \in DOMAIN r.built : r.built[g] \in Item
      BY <1>2 DEF RefreshTyped, IsListing
    <2>2. \A g \in DOMAIN r.built : Norm[r.built[g].title] \in Range(Norm)
      BY <2>1 DEF Item, Range
    <2> QED
      BY <1>2, <2>2 DEF RefreshTyped
  <1>9. to \in Stage
    BY <1>1 DEF Stage
  <1> HIDE DEF to, found, marks
  <1> DEFINE s == [r EXCEPT !.at = to, !.todo = l, !.bad = b, !.seen = marks]
  <1>10. /\ Fielded(s) /\ s.at = to /\ s.authed = r.authed
         /\ s.todo = l /\ s.item = r.item /\ s.step = r.step
         /\ s.cached = r.cached /\ s.readOk = r.readOk /\ s.id = r.id
         /\ s.seen = marks /\ s.index = r.index /\ s.bad = b
         /\ s.built = r.built
    BY <1>2 DEF RefreshTyped, Fielded, Field
  <1>11. SetTask(k, s)
    BY <1>6
  <1> HIDE DEF s
  <1>12. RefreshTyped(s)
    BY <1>2, <1>7, <1>8, <1>9, <1>10 DEF RefreshTyped
  <1> QED
    BY <1>1, <1>2, <1>10, <1>11, <1>12, PutTask DEF Typed

LEMMA PublishTyped ==
  ASSUME Inv, Typed, NEW k \in Job, Publish(k)
  PROVE  /\ Going(k)
         /\ DOMAIN games' = Device /\ \A d \in Device : IsListing(games'[d])
  <1> DEFINE r == task[k]
             s == [r EXCEPT !.at = "swap"]
  <1>1. /\ r # NULL /\ rows' = rows /\ SetTask(k, s)
        /\ games' = [games EXCEPT ![k[1]] = r.built]
    BY DEF Publish
  <1>2. RefreshTyped(r) /\ (r.step = "ensured" => r.id \in DOMAIN rows)
    BY <1>1 DEF Typed, TasksTyped
  <1>3. /\ Fielded(s) /\ s.at = "swap" /\ s.authed = r.authed
        /\ s.todo = r.todo /\ s.item = r.item /\ s.step = r.step
        /\ s.cached = r.cached /\ s.readOk = r.readOk /\ s.id = r.id
        /\ s.seen = r.seen /\ s.index = r.index /\ s.bad = r.bad
        /\ s.built = r.built
    BY <1>2 DEF RefreshTyped, Fielded, Field
  <1> HIDE DEF s
  <1>4. RefreshTyped(s)
    BY <1>2, <1>3 DEF RefreshTyped, Stage
  <1>5. Going(k)
    BY <1>1, <1>2, <1>3, <1>4, PutTask DEF Typed
  <1>6. IsListing(r.built)
    BY <1>2 DEF RefreshTyped
  <1> QED
    BY <1>1, <1>5, <1>6 DEF Typed, StateTyped

LEMMA SwapTyped ==
  ASSUME Inv, Typed, NEW k \in Job, SwapIndex(k)
  PROVE  /\ TasksTyped'
         /\ index' \in [Device -> Index] /\ spoilt' \subseteq Device
         /\ upsets' \in 0..MaxUpset
  <1> DEFINE r == task[k]
  <1>1. r # NULL /\ rows' = rows /\ SetTask(k, NULL) /\ k[1] \in Device
    BY DEF SwapIndex, Job
  <1>2. r.index \in Index
    BY <1>1 DEF Typed, TasksTyped, RefreshTyped
  <1>3. TasksTyped'
    BY <1>1, DropTask DEF Typed
  <1>4. \/ index' = [index EXCEPT ![k[1]] = r.index] /\ UNCHANGED upsets
        \/ Upset(k[1]) /\ UNCHANGED index
    BY DEF SwapIndex
  <1>5. spoilt' \subseteq spoilt \cup {k[1]}
    BY DEF SwapIndex
  <1>6. index' \in [Device -> Index] /\ upsets' \in 0..MaxUpset
    BY <1>1, <1>2, <1>4, UpsetTyped DEF Typed, StateTyped
  <1> QED
    BY <1>1, <1>3, <1>5, <1>6 DEF Typed, StateTyped

LEMMA RequestTyped ==
  ASSUME Inv, Typed, NEW k \in Job, Request(k)
  PROVE  Typed'
  <1>1. /\ SetTask(k, Begin(TRUE))
        /\ UNCHANGED <<rows, meta, games, index, spoilt, minted, paired>>
    BY DEF Request, AddRoot, RemoveRoot, AddCustomGame, RemoveCustomGame,
           Rescan, SetManifest, localVars
  <1>2. TasksTyped'
    BY <1>1, BeginTyped, PutTask DEF Typed, Going
  <1>3. k[1] \in Device
    BY DEF Job
  <1>4. /\ roots' \in [Device -> SUBSET {"steam", "drive"}]
        /\ custom' \in [Device -> SUBSET Title]
        /\ manifest' \subseteq Device
        /\ upsets' \in 0..MaxUpset
    <2>1. ASSUME NEW kind \in {"steam", "drive"},
                 AddRoot(k, kind) \/ RemoveRoot(k, kind)
          PROVE  /\ UNCHANGED <<custom, manifest>> /\ Upset(k[1])
                 /\ roots' \in [Device -> SUBSET {"steam", "drive"}]
      <3>1. /\ UNCHANGED <<custom, manifest>> /\ Upset(k[1])
            /\ \/ roots' = [roots EXCEPT ![k[1]] = @ \cup {kind}]
               \/ roots' = [roots EXCEPT ![k[1]] = @ \ {kind}]
        BY <2>1 DEF AddRoot, RemoveRoot
      <3>2. roots \in [Device -> SUBSET {"steam", "drive"}]
        BY DEF Typed, StateTyped
      <3>3. roots' \in [Device -> SUBSET {"steam", "drive"}]
        <4>1. CASE roots' = [roots EXCEPT ![k[1]] = @ \cup {kind}]
          BY <1>3, <3>2, <4>1
        <4>2. CASE roots' = [roots EXCEPT ![k[1]] = @ \ {kind}]
          BY <1>3, <3>2, <4>2
        <4> QED
          BY <3>1, <4>1, <4>2
      <3> QED
        BY <3>1, <3>3
    <2>2. ASSUME NEW c \in CustomTitle[k[1]],
                 AddCustomGame(k, c) \/ RemoveCustomGame(k, c)
          PROVE  /\ UNCHANGED <<roots, manifest>>
                 /\ UNCHANGED upsets \/ Upset(k[1])
                 /\ custom' \in [Device -> SUBSET Title]
      <3>1. c \in Title
        BY <1>3
      <3>2. /\ UNCHANGED <<roots, manifest>>
            /\ UNCHANGED upsets \/ Upset(k[1])
            /\ \/ custom' = [custom EXCEPT ![k[1]] = @ \cup {c}]
               \/ custom' = [custom EXCEPT ![k[1]] = {o \in @ : Norm[o] # Norm[c]}]
        BY <2>2 DEF AddCustomGame, RemoveCustomGame
      <3>3. custom \in [Device -> SUBSET Title]
        BY DEF Typed, StateTyped
      <3>4. custom' \in [Device -> SUBSET Title]
        <4>1. CASE custom' = [custom EXCEPT ![k[1]] = @ \cup {c}]
          BY <1>3, <3>1, <3>3, <4>1
        <4>2. CASE custom' = [custom EXCEPT ![k[1]] = {o \in @ : Norm[o] # Norm[c]}]
          BY <1>3, <3>3, <4>2
        <4> QED
          BY <3>2, <4>1, <4>2
      <3> QED
        BY <3>2, <3>4
    <2>3. CASE Rescan(k)
      BY <2>3 DEF Rescan, localVars, Typed, StateTyped
    <2>4. CASE SetManifest(k)
      BY <1>3, <2>4 DEF SetManifest, Typed, StateTyped
    <2> QED
      BY <1>3, <2>1, <2>2, <2>3, <2>4, UpsetTyped DEF Request, Typed, StateTyped
  <1> QED
    BY <1>1, <1>2, <1>4 DEF Typed, StateTyped

LEMMA RestartTyped ==
  ASSUME Typed, NEW d \in Device, Restart(d)
  PROVE  Typed'
  <1>1. /\ upsets' \in 0..MaxUpset
        /\ roots' = [roots EXCEPT ![d] = IF @ = {} THEN {"steam"} ELSE @]
        /\ manifest' = manifest \ {d}
        /\ games' = [games EXCEPT ![d] = NoGames]
        /\ index' = [index EXCEPT ![d] = EmptyIndex]
        /\ UNCHANGED <<rows, meta, custom, paired, spoilt, minted>>
    BY UpsetTyped DEF Restart
  <1>2. /\ DOMAIN task' = Job
        /\ \A k \in Job : task'[k] \in {task[k], Begin(FALSE), NULL}
    BY DEF Restart
  <1>3. TasksTyped'
    <2>1. RefreshTyped(Begin(FALSE)) /\ Begin(FALSE).step = "none"
      BY BeginTyped
    <2> HIDE DEF Begin
    <2> QED
      BY <1>1, <1>2, <2>1 DEF Typed, TasksTyped
  <1>4. roots' \in [Device -> SUBSET {"steam", "drive"}]
    BY <1>1 DEF Typed, StateTyped
  <1>5. /\ DOMAIN games' = Device /\ \A e \in Device : IsListing(games'[e])
        /\ index' \in [Device -> Index]
    BY <1>1, EmptyTyped DEF Typed, StateTyped
  <1> QED
    BY <1>1, <1>3, <1>4, <1>5 DEF Typed, StateTyped

LEMMA NextTyped == Inv /\ Typed /\ [Next]_vars => Typed'
  <1> SUFFICES ASSUME Inv, Typed, [Next]_vars PROVE Typed'
    OBVIOUS
  <1>1. ASSUME NEW k \in Job, RefreshStart(k) PROVE Typed'
    <2>1. TasksTyped'
      BY <1>1, StartTyped
    <2>2. /\ UNCHANGED <<rows, meta, localVars, games, index, minted>>
          /\ \/ UNCHANGED <<spoilt, upsets>>
             \/ Upset(k[1]) /\ spoilt' = spoilt \cup {k[1]}
      BY <1>1 DEF RefreshStart
    <2>3. k[1] \in Device
      BY DEF Job
    <2> QED
      BY <2>1, <2>2, <2>3, UpsetTyped DEF localVars, Typed, StateTyped
  <1>2. ASSUME NEW k \in Job, Look(k) PROVE Typed'
    <2>1. TasksTyped'
      BY <1>2, LookTyped DEF Going
    <2>2. /\ UNCHANGED <<rows, meta, localVars, games, index, spoilt, minted>>
          /\ UNCHANGED upsets \/ Upset(k[1])
      BY <1>2 DEF Look
    <2> QED
      BY <2>1, <2>2, UpsetTyped DEF localVars, Typed, StateTyped
  <1>3. ASSUME NEW k \in Job, EnsureFind(k) PROVE Typed'
    BY <1>3, FindTyped DEF Going, EnsureFind, localVars, Typed, StateTyped
  <1>4. ASSUME NEW k \in Job, EnsureInsert(k) PROVE Typed'
    <2>1. UNCHANGED <<meta, localVars, games, index, spoilt, upsets>>
      BY <1>4 DEF EnsureInsert
    <2> QED
      BY <1>4, <2>1, InsertTyped DEF Going, localVars, Typed, StateTyped
  <1>5. ASSUME NEW k \in Job, EnsureFail(k) PROVE Typed'
    <2>1. /\ UNCHANGED <<rows, meta, localVars, games, index, spoilt, minted>>
          /\ Upset(k[1])
      BY <1>5 DEF EnsureFail
    <2> QED
      BY <1>5, <2>1, FailTyped, UpsetTyped DEF Going, localVars, Typed, StateTyped
  <1>6. ASSUME NEW k \in Job, Adopt(k) PROVE Typed'
    <2>1. UNCHANGED <<rows, localVars, games, index, spoilt, minted>>
      BY <1>6 DEF Adopt
    <2> QED
      BY <1>6, <2>1, AdoptTyped DEF Going, localVars, Typed, StateTyped
  <1>7. ASSUME NEW k \in Job, KeepLocal(k) PROVE Typed'
    <2>1. UNCHANGED <<rows, localVars, games, index, spoilt>>
      BY <1>7 DEF KeepLocal
    <2> QED
      BY <1>7, <2>1, KeepTyped DEF Going, localVars, Typed, StateTyped
  <1>8. ASSUME NEW k \in Job, NextSource(k) PROVE Typed'
    <2>1. TasksTyped'
      BY <1>8, SourceTyped DEF Going
    <2>2. /\ UNCHANGED <<rows, meta, localVars, games, index, spoilt, minted>>
          /\ UNCHANGED upsets \/ Upset(k[1])
      BY <1>8 DEF NextSource
    <2> QED
      BY <2>1, <2>2, UpsetTyped DEF localVars, Typed, StateTyped
  <1>9. ASSUME NEW k \in Job, Publish(k) PROVE Typed'
    <2>1. UNCHANGED <<rows, meta, localVars, index, spoilt, minted, upsets>>
      BY <1>9 DEF Publish
    <2> QED
      BY <1>9, <2>1, PublishTyped DEF Going, localVars, Typed, StateTyped
  <1>10. ASSUME NEW k \in Job, SwapIndex(k) PROVE Typed'
    <2>1. UNCHANGED <<rows, meta, localVars, games, minted>>
      BY <1>10 DEF SwapIndex
    <2> QED
      BY <1>10, <2>1, SwapTyped DEF localVars, Typed, StateTyped
  <1>11. ASSUME NEW d \in Device, PairDevice(d) PROVE Typed'
    BY <1>11 DEF PairDevice, Typed, StateTyped, TasksTyped
  <1>12. CASE UNCHANGED vars
    BY <1>12 DEF vars, localVars, Typed, StateTyped, TasksTyped
  <1> QED
    BY <1>1, <1>2, <1>3, <1>4, <1>5, <1>6, <1>7, <1>8, <1>9, <1>10, <1>11,
       <1>12, RequestTyped, RestartTyped DEF Next, RefreshStep

LEMMA InitTyped == Init => Typed
  <1> SUFFICES ASSUME Init PROVE Typed
    OBVIOUS
  <1>1. /\ meta \in [Device -> [Key -> Id \cup {NULL}]]
        /\ roots \in [Device -> SUBSET {"steam", "drive"}]
        /\ custom \in [Device -> SUBSET Title]
    BY DEF Init
  <1>2. /\ DOMAIN games = Device /\ \A d \in Device : IsListing(games[d])
        /\ index \in [Device -> Index]
    BY EmptyTyped DEF Init
  <1>3. DOMAIN task = Job /\ \A k \in Job : task[k] \in {Begin(FALSE), NULL}
    BY DEF Init
  <1>4. TasksTyped
    <2>1. RefreshTyped(Begin(FALSE)) /\ Begin(FALSE).step = "none"
      BY BeginTyped
    <2> QED
      BY <1>3, <2>1 DEF TasksTyped
  <1> QED
    BY <1>1, <1>2, <1>4 DEF Init, Typed, StateTyped

\* Every behaviour of the catalog is type correct: in particular no game is
\* ever listed or persisted without an id, whichever statements and calls
\* fail (game_id_for).
THEOREM TypeCorrect == Spec => []TypeOK
  <1>1. Inv /\ Typed /\ [Next]_vars => Inv' /\ Typed'
    BY NextSound, NextTyped
  <1> QED
    BY <1>1, InitSound, InitTyped, TypedOK, PTL DEF Spec

-----------------------------------------------------------------------------
(***************************************************************************)
(* One refresh at a time                                                   *)
(***************************************************************************)
\* At most one refresh of a device is under way.
OneRefresh ==
    \A d \in Device : \A s, t \in Task :
        task[<<d, s>>] # NULL /\ task[<<d, t>>] # NULL => s = t

\* Every executable of a listed game, and no other, has a path in the index,
\* which leads to a listed game that it belongs to.
IndexSound(x, f) ==
    /\ \A e \in Exe : x.path[e] # NULL =>
         x.path[e] \in DOMAIN f /\ e \in ExesIn[f[x.path[e]].dir]
    /\ \A g \in DOMAIN f : \A e \in ExesIn[f[g].dir] : x.path[e] # NULL

\* The sources read by the time a refresh is at the stage `at', of which S, D
\* and C are Steam's games, the folders and the custom games.
Due(at, S, D, C) ==
    S \cup (IF at \in Later THEN D ELSE {})
      \cup (IF at \in {"custom", "swap"} THEN C ELSE {})

\* A refresh that met no error accounts for every game of the sources read.
Complete(r, S, D, C) ==
    /\ r.at # "begin" => Norms(Range(r.built)) \cup Norms(r.todo)
                           = Norms(Due(r.at, S, D, C))
    /\ r.at \in Later => r.seen \subseteq Norms(Range(r.built))
                                          \cup Norms({r.item} \ {NULL})
    /\ IndexSound(r.index, r.built)

\* What the refresh r knows of its device, whose persisted ids are m and whose
\* catalog is f.
Faithful(r, m, f, S, D, C) ==
    /\ r.item # NULL => r.item \in r.todo
    /\ r.step # "none" /\ r.readOk => r.cached = m[KeyOf(r.item)]
    /\ r.at = "begin" => r.index = EmptyIndex
    /\ r.at = "swap" => r.todo = {} /\ r.item = NULL /\ f = r.built
    /\ ~r.bad => Complete(r, S, D, C)

TasksFaithful ==
    \A k \in Job : task[k] # NULL =>
        Faithful(task[k], meta[k[1]], games[k[1]],
                 SteamItems(k[1]), DriveItems(k[1]), CustomItems(k[1]))

\* A device at rest whose last refresh met no error.
Settled ==
    \A d \in Device : ~Refreshing(d) /\ d \notin spoilt =>
        /\ Norms(Range(games[d]))
             = Norms(Due("swap", SteamItems(d), DriveItems(d), CustomItems(d)))
        /\ IndexSound(index[d], games[d])

LEMMA NormsOf ==
  /\ \A S, T : Norms(S \cup T) = Norms(S) \cup Norms(T)
  /\ Norms({}) = {}
  /\ \A i : Norms({i}) = {Norm[i.title]}
  <1>1. \A S, T : Norms(S \cup T) = Norms(S) \cup Norms(T)
    BY DEF Norms
  <1>2. Norms({}) = {}
    BY DEF Norms
  <1>3. \A i : Norms({i}) = {Norm[i.title]}
    BY DEF Norms
  <1> QED
    BY <1>1, <1>2, <1>3

LEMMA Only ==
  ASSUME OneRefresh, NEW j \in Job, NEW k \in Job,
         task[j] # NULL, task[k] # NULL, j[1] = k[1]
  PROVE  j = k
  <1>1. /\ j[1] \in Device /\ j[2] \in Task /\ k[2] \in Task
        /\ j = <<j[1], j[2]>> /\ k = <<k[1], k[2]>>
    BY DEF Job
  <1>2. task[<<j[1], j[2]>>] # NULL /\ task[<<j[1], k[2]>>] # NULL
    BY <1>1
  <1>3. j[2] = k[2]
    BY <1>1, <1>2 DEF OneRefresh
  <1> QED
    BY <1>1, <1>3

\* What a device has depends on its own roots, custom games and manifest.
LEMMA SameItems ==
  ASSUME NEW d, roots'[d] = roots[d], custom'[d] = custom[d],
         (d \in manifest') = (d \in manifest)
  PROVE  /\ SteamItems(d)' = SteamItems(d)
         /\ DriveItems(d)' = DriveItems(d)
         /\ CustomItems(d)' = CustomItems(d)
  <1>1. \A a : TitleOf(d, a)' = TitleOf(d, a)
    BY DEF TitleOf
  <1>2. \A f : Matches(d, f)' = Matches(d, f)
    BY DEF Matches
  <1>3. SteamItems(d)' = SteamItems(d)
    <2>1. \A i : i \in SteamItems(d) <=>
            /\ "steam" \in roots[d] /\ i.title \notin Ignored
            /\ \E a \in Installed[d] :
                 i = [src |-> "steam", app |-> a, title |-> TitleOf(d, a), dir |-> a]
      BY DEF SteamItems
    <2>2. \A i : i \in SteamItems(d)' <=>
            /\ "steam" \in roots'[d] /\ i.title \notin Ignored
            /\ \E a \in Installed[d] :
                 i = [src |-> "steam", app |-> a, title |-> TitleOf(d, a)', dir |-> a]
      BY DEF SteamItems
    <2>3. \A i : i \in SteamItems(d)' <=> i \in SteamItems(d)
      BY <1>1, <2>1, <2>2
    <2> QED
      BY <2>3
  <1>4. DriveItems(d)' = DriveItems(d)
    <2>1. \A i : i \in DriveItems(d) <=>
            /\ "drive" \in roots[d] /\ i.title \notin Ignored
            /\ \E f \in Folder[d] :
                 /\ Cardinality(Matches(d, f)) = 1
                 /\ \E t \in Matches(d, f) :
                      i = [src |-> "drive", app |-> NULL, title |-> t, dir |-> f]
      BY DEF DriveItems
    <2>2. \A i : i \in DriveItems(d)' <=>
            /\ "drive" \in roots'[d] /\ i.title \notin Ignored
            /\ \E f \in Folder[d] :
                 /\ Cardinality(Matches(d, f)') = 1
                 /\ \E t \in Matches(d, f)' :
                      i = [src |-> "drive", app |-> NULL, title |-> t, dir |-> f]
      BY DEF DriveItems
    <2>3. \A i : i \in DriveItems(d)' <=> i \in DriveItems(d)
      BY <1>2, <2>1, <2>2
    <2> QED
      BY <2>3
  <1> QED
    BY <1>3, <1>4 DEF CustomItems

LEMMA RangeOf ==
  /\ \A f : DOMAIN f = {} => Range(f) = {}
  /\ \A f, g, i : g \notin DOMAIN f => Range(Put(f, g, i)) = Range(f) \cup {i}
  <1>1. \A f : DOMAIN f = {} => Range(f) = {}
    BY DEF Range
  <1>2. ASSUME NEW f, NEW g, NEW i, g \notin DOMAIN f
        PROVE  Range(Put(f, g, i)) = Range(f) \cup {i}
    <2> DEFINE p == Put(f, g, i)
    <2>1. /\ DOMAIN p = DOMAIN f \cup {g} /\ p[g] = i
          /\ \A h \in DOMAIN f : p[h] = f[h]
      BY <1>2 DEF Put
    <2> HIDE DEF p
    <2>2. Range(p) = Range(f) \cup {i}
      BY <2>1 DEF Range
    <2> QED
      BY <2>2 DEF p
  <1> QED
    BY <1>1, <1>2

LEMMA EmptySound ==
  ASSUME NEW f, DOMAIN f = {} PROVE IndexSound(EmptyIndex, f)
  BY DEF IndexSound, EmptyIndex

\* The index after a game has been recorded under an id of its own.
LEMMA IndexedSound ==
  ASSUME NEW x \in Index, NEW f, IsListing(f), IndexSound(x, f),
         NEW i \in Item, NEW g \in Id, g \notin DOMAIN f
  PROVE  IndexSound(IndexInstallDir(x, i.dir, g), Put(f, g, i))
  <1> DEFINE p == Put(f, g, i)
             y == IndexInstallDir(x, i.dir, g)
  <1>1. /\ DOMAIN p = DOMAIN f \cup {g} /\ p[g] = i
        /\ \A h \in DOMAIN f : p[h] = f[h]
    BY DEF Put
  <1>2. \A e \in Exe : y.path[e] = IF e \in ExesIn[i.dir] THEN g ELSE x.path[e]
    BY DEF IndexInstallDir
  <1>3. \A h \in DOMAIN f : ExesIn[f[h].dir] \subseteq Exe
    BY DEF IsListing, Item
  <1>4. ExesIn[i.dir] \subseteq Exe
    BY DEF Item
  <1> HIDE DEF p, y
  <1>5. IndexSound(y, p)
    BY <1>1, <1>2, <1>3, <1>4 DEF IndexSound
  <1> QED
    BY <1>5 DEF p, y

\* Recording keeps account of every game.
LEMMA RecordedComplete ==
  ASSUME NEW r, RefreshTyped(r), r.item # NULL, r.item \in r.todo, NEW g \in Id,
         NEW S, NEW D, NEW C, Complete(r, S, D, C), g \notin DOMAIN r.built
  PROVE  Complete(Recorded(r, g), S, D, C)
  <1> DEFINE s == Recorded(r, g)
  <1>0. IsRecorded(s, r, g)
    BY RecordedIs
  <1> HIDE DEF s
  <1>1. /\ s.at = r.at /\ s.todo = r.todo \ {r.item} /\ s.item = NULL
        /\ s.seen = r.seen /\ s.built = Put(r.built, g, r.item)
        /\ s.index = IndexInstallDir(r.index, r.item.dir, g)
    BY <1>0 DEF IsRecorded
  <1>2. Range(s.built) = Range(r.built) \cup {r.item}
    BY <1>1, RangeOf
  <1>3. Norms(Range(s.built)) \cup Norms(s.todo)
          = Norms(Range(r.built)) \cup Norms(r.todo)
    <2>1. Range(s.built) \cup s.todo = Range(r.built) \cup r.todo
      BY <1>1, <1>2
    <2>2. /\ Norms(Range(s.built) \cup s.todo) = Norms(Range(s.built)) \cup Norms(s.todo)
          /\ Norms(Range(r.built) \cup r.todo) = Norms(Range(r.built)) \cup Norms(r.todo)
      BY NormsOf
    <2> QED
      BY <2>1, <2>2
  <1>4. Norms(Range(s.built)) = Norms(Range(r.built)) \cup Norms({r.item})
    BY <1>2, NormsOf
  <1>5. {r.item} \ {NULL} = {r.item}
    OBVIOUS
  <1>6. r.at \in Later =>
          s.seen \subseteq Norms(Range(s.built)) \cup Norms({s.item} \ {NULL})
    BY <1>1, <1>4, <1>5 DEF Complete
  <1>7. IndexSound(s.index, s.built)
    BY <1>1, IndexedSound DEF Complete, RefreshTyped
  <1>8. Complete(s, S, D, C)
    BY <1>1, <1>3, <1>6, <1>7 DEF Complete
  <1> QED
    BY <1>8 DEF s

LEMMA PutFaithful ==
  ASSUME TasksTyped, TasksFaithful, OneRefresh, NEW k \in Job, NEW s,
         SetTask(k, s), UNCHANGED localVars, task[k] # NULL,
         \A d \in Device \ {k[1]} : meta'[d] = meta[d] /\ games'[d] = games[d],
         s # NULL => Faithful(s, meta'[k[1]], games'[k[1]], SteamItems(k[1]),
                              DriveItems(k[1]), CustomItems(k[1]))
  PROVE  TasksFaithful'
  <1>1. \A d : /\ SteamItems(d)' = SteamItems(d) /\ DriveItems(d)' = DriveItems(d)
               /\ CustomItems(d)' = CustomItems(d)
    BY SameItems DEF localVars
  <1>2. ASSUME NEW j \in Job, task'[j] # NULL
        PROVE  Faithful(task'[j], meta'[j[1]], games'[j[1]], SteamItems(j[1])',
                        DriveItems(j[1])', CustomItems(j[1])')
    <2>1. CASE j = k
      BY <1>1, <1>2, <2>1 DEF SetTask, TasksTyped
    <2>2. CASE j # k
      <3>1. task'[j] = task[j]
        BY <2>2 DEF SetTask, TasksTyped
      <3>2. j[1] # k[1]
        BY <1>2, <2>2, <3>1, Only
      <3>3. j[1] \in Device
        BY DEF Job
      <3> QED
        BY <1>1, <1>2, <3>1, <3>2, <3>3 DEF TasksFaithful
    <2> QED
      BY <2>1, <2>2
  <1> QED
    BY <1>2 DEF TasksFaithful

\* Steps that leave what is found, recorded and remembered alone.
LEMMA SameFaithful ==
  ASSUME NEW r, NEW s, NEW m, NEW f, NEW S, NEW D, NEW C,
         Faithful(r, m, f, S, D, C), s.at = r.at, s.todo = r.todo,
         s.item = r.item, s.readOk = r.readOk, s.cached = r.cached,
         s.seen = r.seen, s.index = r.index, s.bad = r.bad, s.built = r.built,
         s.step # "none" => r.step # "none"
  PROVE  Faithful(s, m, f, S, D, C)
  BY DEF Faithful, Complete

LEMMA StartFaithful ==
  ASSUME Inv, Typed, TasksFaithful, OneRefresh, NEW k \in Job, RefreshStart(k)
  PROVE  TasksFaithful'
  <1> DEFINE r == task[k]
             d == k[1]
  <1>1. /\ r # NULL /\ r.at = "begin"
        /\ UNCHANGED <<meta, localVars, games>>
    BY DEF RefreshStart
  <1>2. RefreshTyped(r)
    BY <1>1 DEF Typed, TasksTyped
  <1>3. /\ DOMAIN r.built = {} /\ r.item = NULL /\ r.step = "none"
        /\ r.index = EmptyIndex
    BY <1>1 DEF Inv, RefreshSound, FoundSound, TasksFaithful, Faithful
  <1>4. \A e \in Device \ {d} : meta'[e] = meta[e] /\ games'[e] = games[e]
    BY <1>1
  <1>5. ASSUME NEW a,
               SetTask(k, [r EXCEPT !.at = "steam", !.todo = SteamItems(d),
                                    !.authed = a])
        PROVE  TasksFaithful'
    <2> DEFINE s == [r EXCEPT !.at = "steam", !.todo = SteamItems(d),
                              !.authed = a]
    <2>1. /\ s.at = "steam" /\ s.todo = SteamItems(d) /\ s.item = NULL
          /\ s.step = "none" /\ s.index = EmptyIndex /\ s.built = r.built
      BY <1>2, <1>3 DEF RefreshTyped, Fielded, Field
    <2>2. SetTask(k, s)
      BY <1>5
    <2> HIDE DEF s
    <2>3. ASSUME NEW D, NEW C
          PROVE  Complete(s, SteamItems(d), D, C)
      <3>1. Range(s.built) = {}
        BY <1>3, <2>1, RangeOf
      <3>2. Norms(Range(s.built)) \cup Norms(s.todo) = Norms(SteamItems(d))
        BY <2>1, <3>1, NormsOf
      <3>3. Due("steam", SteamItems(d), D, C) = SteamItems(d)
        BY DEF Due, Later
      <3>4. IndexSound(s.index, s.built)
        BY <1>3, <2>1, EmptySound
      <3> QED
        BY <2>1, <3>2, <3>3, <3>4 DEF Complete, Later
    <2>4. Faithful(s, meta'[d], games'[d], SteamItems(d), DriveItems(d), CustomItems(d))
      BY <2>1, <2>3 DEF Faithful
    <2> QED
      BY <1>1, <1>4, <2>2, <2>4, PutFaithful DEF Typed
  <1>6. CASE SetTask(k, NULL)
    BY <1>1, <1>4, <1>6, PutFaithful DEF Typed
  <1>7. ASSUME SetTask(k, [r EXCEPT !.at = "steam", !.todo = SteamItems(d),
                                    !.authed = @ /\ d \in paired])
        PROVE  TasksFaithful'
    <2>1. PICK a : SetTask(k, [r EXCEPT !.at = "steam", !.todo = SteamItems(d),
                                        !.authed = a])
      BY <1>7
    <2> QED
      BY <1>5, <2>1
  <1> QED
    BY <1>6, <1>7 DEF RefreshStart

LEMMA LookFaithful ==
  ASSUME Inv, Typed, TasksFaithful, OneRefresh, NEW k \in Job, Look(k)
  PROVE  TasksFaithful'
  <1> DEFINE r == task[k]
             d == k[1]
  <1>1. r # NULL /\ r.item = NULL /\ UNCHANGED <<meta, localVars, games>>
    BY DEF Look
  <1>2. RefreshTyped(r) /\ RefreshSound(r)
    BY <1>1 DEF Typed, TasksTyped, Inv
  <1>3. Faithful(r, meta[d], games[d], SteamItems(d), DriveItems(d), CustomItems(d))
    BY <1>1 DEF TasksFaithful
  <1>4. \A e \in Device \ {d} : meta'[e] = meta[e] /\ games'[e] = games[e]
    BY <1>1
  <1>5. r.step = "none"
    BY <1>1, <1>2 DEF RefreshSound, FoundSound
  <1>6. ASSUME NEW i \in r.todo, SkipSeen(r, i), SetTask(k, [r EXCEPT !.todo = @ \ {i}])
        PROVE  TasksFaithful'
    <2> DEFINE s == [r EXCEPT !.todo = @ \ {i}]
    <2>1. /\ s.at = r.at /\ s.todo = r.todo \ {i} /\ s.item = NULL
          /\ s.step = r.step /\ s.seen = r.seen /\ s.index = r.index
          /\ s.bad = r.bad /\ s.built = r.built
      BY <1>1, <1>2 DEF RefreshTyped, Fielded, Field
    <2>2. SetTask(k, s)
      BY <1>6
    <2> HIDE DEF s
    <2>3. i.src # "steam" /\ Norm[i.title] \in r.seen
      BY <1>6 DEF SkipSeen
    <2>4. r.at \in Later
      BY <1>2, <1>6, <2>3 DEF RefreshSound, FoundSound, Stage, Later
    <2>5. ASSUME NEW S, NEW D, NEW C, Complete(r, S, D, C)
          PROVE  Complete(s, S, D, C)
      <3>1. r.seen \subseteq Norms(Range(r.built))
        <4>1. {r.item} \ {NULL} = {}
          BY <1>1
        <4> QED
          BY <2>4, <2>5, <4>1, NormsOf DEF Complete
      <3>2. Norms({i}) \subseteq Norms(Range(r.built))
        BY <2>3, <3>1, NormsOf
      <3>3. Norms(r.todo) = Norms(s.todo) \cup Norms({i})
        <4>1. r.todo = s.todo \cup {i}
          BY <2>1
        <4> QED
          BY <4>1, NormsOf
      <3>4. Norms(Range(s.built)) \cup Norms(s.todo)
              = Norms(Range(r.built)) \cup Norms(r.todo)
        BY <2>1, <3>2, <3>3
      <3> QED
        BY <1>1, <2>1, <2>5, <3>4 DEF Complete
    <2>6. Faithful(s, meta'[d], games'[d], SteamItems(d), DriveItems(d), CustomItems(d))
      BY <1>1, <1>3, <1>5, <2>1, <2>5 DEF Faithful
    <2> QED
      BY <1>1, <1>4, <2>2, <2>6, PutFaithful DEF Typed
  <1>7. ASSUME NEW i \in r.todo, ~SkipSeen(r, i), NEW ok \in BOOLEAN,
               NEW n, n = (IF i.src = "steam" THEN r.seen
                           ELSE r.seen \cup {Norm[i.title]}),
               NEW c, ok => c = meta[d][KeyOf(i)],
               SetTask(k, [r EXCEPT !.item = i, !.step = "looked",
                                    !.readOk = ok, !.seen = n, !.cached = c])
        PROVE  TasksFaithful'
    <2> DEFINE s == [r EXCEPT !.item = i, !.step = "looked",
                              !.readOk = ok, !.seen = n, !.cached = c]
    <2>1. /\ s.at = r.at /\ s.todo = r.todo /\ s.item = i
          /\ s.cached = c /\ s.readOk = ok
          /\ s.seen = n /\ s.index = r.index /\ s.bad = r.bad
          /\ s.built = r.built
      BY <1>2 DEF RefreshTyped, Fielded, Field
    <2>2. SetTask(k, s)
      BY <1>7
    <2> HIDE DEF s
    <2>3. i \in Item /\ i # NULL /\ r.at # "begin" /\ r.at # "swap"
      BY <1>2, <1>3, <1>7 DEF RefreshTyped, RefreshSound, FoundSound, Faithful
    <2>4. ASSUME NEW S, NEW D, NEW C, Complete(r, S, D, C)
          PROVE  Complete(s, S, D, C)
      <3>1. {r.item} \ {NULL} = {} /\ {i} \ {NULL} = {i}
        BY <1>1, <2>3
      <3>2. n \subseteq r.seen \cup Norms({i})
        BY <1>7, NormsOf
      <3>3. r.at \in Later => r.seen \subseteq Norms(Range(r.built))
        BY <2>4, <3>1, NormsOf DEF Complete
      <3>4. r.at \in Later => s.seen \subseteq Norms(Range(s.built))
                                               \cup Norms({s.item} \ {NULL})
        BY <2>1, <3>1, <3>2, <3>3
      <3> QED
        BY <2>1, <2>4, <3>4 DEF Complete
    <2>5. ok => c = meta'[d][KeyOf(i)]
      BY <1>1, <1>7
    <2>6. ~s.bad => Complete(s, SteamItems(d), DriveItems(d), CustomItems(d))
      BY <1>3, <2>1, <2>4 DEF Faithful
    <2>7. Faithful(s, meta'[d], games'[d], SteamItems(d), DriveItems(d), CustomItems(d))
      BY <1>7, <2>1, <2>3, <2>5, <2>6 DEF Faithful
    <2> QED
      BY <1>1, <1>4, <2>2, <2>7, PutFaithful DEF Typed
  <1>8. PICK i \in r.todo :
          \/ SkipSeen(r, i) /\ SetTask(k, [r EXCEPT !.todo = @ \ {i}])
          \/ /\ ~SkipSeen(r, i)
             /\ \E ok \in BOOLEAN :
                  SetTask(k,
                    [r EXCEPT !.item = i, !.step = "looked", !.readOk = ok,
                              !.seen = IF i.src = "steam" THEN @
                                       ELSE @ \cup {Norm[i.title]},
                              !.cached = IF ok THEN meta[d][KeyOf(i)]
                                         ELSE NULL])
    BY DEF Look
  <1>9. ASSUME ~SkipSeen(r, i), NEW ok \in BOOLEAN,
               SetTask(k,
                 [r EXCEPT !.item = i, !.step = "looked", !.readOk = ok,
                           !.seen = IF i.src = "steam" THEN @
                                    ELSE @ \cup {Norm[i.title]},
                           !.cached = IF ok THEN meta[d][KeyOf(i)]
                                      ELSE NULL])
        PROVE  TasksFaithful'
    <2>1. PICK n : n = (IF i.src = "steam" THEN r.seen
                        ELSE r.seen \cup {Norm[i.title]})
      OBVIOUS
    <2>2. PICK c : c = (IF ok THEN meta[d][KeyOf(i)] ELSE NULL)
      OBVIOUS
    <2>3. SetTask(k, [r EXCEPT !.item = i, !.step = "looked",
                               !.readOk = ok, !.seen = n, !.cached = c])
      BY <1>9, <2>1, <2>2
    <2>4. ok => c = meta[d][KeyOf(i)]
      BY <2>2
    <2> QED
      BY <1>7, <1>9, <2>1, <2>3, <2>4
  <1> QED
    BY <1>6, <1>8, <1>9

\* The steps of ensure_game change the stage of the lookup and the id only.
LEMMA EnsureFaithful ==
  ASSUME Inv, Typed, TasksFaithful, OneRefresh, NEW k \in Job,
         EnsureFind(k) \/ EnsureInsert(k) \/ EnsureFail(k)
  PROVE  TasksFaithful'
  <1> DEFINE r == task[k]
             d == k[1]
  <1>1. r # NULL /\ r.step # "none" /\ UNCHANGED <<meta, localVars, games>>
    BY DEF EnsureFind, EnsureInsert, EnsureFail
  <1>2. RefreshTyped(r)
    BY <1>1 DEF Typed, TasksTyped
  <1>3. Faithful(r, meta[d], games[d], SteamItems(d), DriveItems(d), CustomItems(d))
    BY <1>1 DEF TasksFaithful
  <1>4. ASSUME NEW s, SetTask(k, s), s.at = r.at, s.todo = r.todo,
               s.item = r.item, s.readOk = r.readOk, s.cached = r.cached,
               s.seen = r.seen, s.index = r.index, s.bad = r.bad,
               s.built = r.built
        PROVE  TasksFaithful'
    <2>1. Faithful(s, meta[d], games[d], SteamItems(d), DriveItems(d), CustomItems(d))
      BY <1>1, <1>3, <1>4, SameFaithful
    <2>2. /\ Faithful(s, meta'[d], games'[d], SteamItems(d), DriveItems(d), CustomItems(d))
          /\ \A e \in Device \ {d} : meta'[e] = meta[e] /\ games'[e] = games[e]
      BY <1>1, <2>1
    <2> QED
      BY <1>1, <1>4, <2>2, PutFaithful DEF Typed
  <1>5. ASSUME NEW st, NEW x, SetTask(k, [r EXCEPT !.step = st, !.id = x])
        PROVE  TasksFaithful'
    <2> DEFINE s == [r EXCEPT !.step = st, !.id = x]
    <2>1. /\ s.at = r.at /\ s.todo = r.todo
          /\ s.item = r.item /\ s.readOk = r.readOk /\ s.cached = r.cached
          /\ s.seen = r.seen /\ s.index = r.index /\ s.bad = r.bad
          /\ s.built = r.built
      BY <1>2 DEF RefreshTyped, Fielded, Field
    <2>2. SetTask(k, s)
      BY <1>5
    <2> HIDE DEF s
    <2> QED
      BY <1>4, <2>1, <2>2
  <1>6. ASSUME NEW st, SetTask(k, [r EXCEPT !.step = st])
        PROVE  TasksFaithful'
    <2> DEFINE s == [r EXCEPT !.step = st]
    <2>1. /\ s.at = r.at /\ s.todo = r.todo
          /\ s.item = r.item /\ s.readOk = r.readOk /\ s.cached = r.cached
          /\ s.seen = r.seen /\ s.index = r.index /\ s.bad = r.bad
          /\ s.built = r.built
      BY <1>2 DEF RefreshTyped, Fielded, Field
    <2>2. SetTask(k, s)
      BY <1>6
    <2> HIDE DEF s
    <2> QED
      BY <1>4, <2>1, <2>2
  <1>7. \/ \E st, x : SetTask(k, [r EXCEPT !.step = st, !.id = x])
        \/ \E st : SetTask(k, [r EXCEPT !.step = st])
    <2>1. CASE EnsureFind(k)
      BY <2>1 DEF EnsureFind
    <2>2. CASE EnsureInsert(k)
      BY <2>2 DEF EnsureInsert
    <2>3. CASE EnsureFail(k)
      BY <2>3 DEF EnsureFail
    <2> QED
      BY <2>1, <2>2, <2>3
  <1> QED
    BY <1>5, <1>6, <1>7

LEMMA RecordedFaithful ==
  ASSUME NEW r, RefreshTyped(r), r.item # NULL, NEW g \in Id,
         NEW m, NEW n, NEW f, NEW S, NEW D, NEW C, r.at # "begin",
         Faithful(r, m, f, S, D, C)
  PROVE  Faithful(Recorded(r, g), n, f, S, D, C)
  <1> DEFINE s == Recorded(r, g)
  <1>1. r.at # "swap" /\ r.item \in r.todo
    BY DEF Faithful
  <1>2. s.at = r.at /\ s.item = NULL /\ s.step = "none"
    BY RecordedIs DEF IsRecorded
  <1>3. ~s.bad => ~r.bad /\ g \notin DOMAIN r.built
    BY RecordedBad
  <1>4. ~s.bad => Complete(s, S, D, C)
    <2>1. SUFFICES ASSUME ~r.bad, g \notin DOMAIN r.built
                   PROVE  Complete(s, S, D, C)
      BY <1>3
    <2>2. Complete(r, S, D, C)
      BY <2>1 DEF Faithful
    <2> QED
      BY <1>1, <2>1, <2>2, RecordedComplete
  <1> HIDE DEF s
  <1>5. Faithful(s, n, f, S, D, C)
    BY <1>1, <1>2, <1>4 DEF Faithful
  <1> QED
    BY <1>5 DEF s

LEMMA RecordFaithful ==
  ASSUME Inv, Typed, TasksFaithful, OneRefresh, NEW k \in Job, task[k] # NULL,
         task[k].step # "none", NEW g \in Id, SetTask(k, Recorded(task[k], g)),
         UNCHANGED <<localVars, games>>,
         \A d \in Device \ {k[1]} : meta'[d] = meta[d]
  PROVE  TasksFaithful'
  <1> DEFINE d == k[1]
  <1>1. RefreshTyped(task[k]) /\ RefreshSound(task[k]) /\ task[k].item # NULL
    BY DEF Typed, TasksTyped, Inv, RefreshSound, FoundSound
  <1>2. Faithful(task[k], meta[d], games[d], SteamItems(d), DriveItems(d), CustomItems(d))
    BY DEF TasksFaithful
  <1>3. task[k].at # "begin"
    BY <1>1 DEF RefreshSound, FoundSound
  <1>4. Faithful(Recorded(task[k], g), meta'[d], games[d],
                 SteamItems(d), DriveItems(d), CustomItems(d))
    BY <1>1, <1>2, <1>3, RecordedFaithful
  <1> QED
    BY <1>4, PutFaithful DEF Typed

LEMMA IdFaithful ==
  ASSUME Inv, Typed, TasksFaithful, OneRefresh, NEW k \in Job,
         Adopt(k) \/ KeepLocal(k)
  PROVE  TasksFaithful'
  <1> DEFINE r == task[k]
             n == CHOOSE g \in Fresh : TRUE
  <1>1. r # NULL /\ r.step # "none" /\ UNCHANGED <<localVars, games>>
    BY DEF Adopt, KeepLocal
  <1>2. meta' = meta \/ \E key, g : meta' = [meta EXCEPT ![k[1]][key] = g]
    BY DEF Adopt, KeepLocal, SetMeta
  <1>3. \A d \in Device \ {k[1]} : meta'[d] = meta[d]
    BY <1>2 DEF Typed, StateTyped
  <1>4. \E g \in Id : SetTask(k, Recorded(r, g))
    <2>1. CASE Adopt(k)
      <3>1. r.id \in Id
        BY <1>1, <2>1 DEF Adopt, Typed, TasksTyped, StateTyped
      <3> QED
        BY <2>1, <3>1 DEF Adopt
    <2>2. CASE KeepLocal(k)
      <3>1. r.cached \in Id \cup {NULL}
        BY <1>1 DEF Typed, TasksTyped, RefreshTyped
      <3>2. Fresh # {} => n \in Id
        BY FreshIn
      <3>3. \/ r.cached # NULL /\ SetTask(k, Recorded(r, r.cached))
            \/ Fresh # {} /\ SetTask(k, Recorded(r, n))
        BY <2>2 DEF KeepLocal
      <3> HIDE DEF n
      <3> QED
        BY <3>1, <3>2, <3>3
    <2> QED
      BY <2>1, <2>2
  <1> QED
    BY <1>1, <1>3, <1>4, RecordFaithful

LEMMA SourceFaithful ==
  ASSUME Inv, Typed, TasksFaithful, OneRefresh, NEW k \in Job, NextSource(k)
  PROVE  TasksFaithful'
  <1> DEFINE r == task[k]
             d == k[1]
             to == CASE r.at = "steam" -> "drive" [] r.at = "drive" -> "custom"
             found == IF to = "drive" THEN DriveItems(d) ELSE CustomItems(d)
             marks == IF to = "drive"
                      THEN {Norm[r.built[g].title] : g \in DOMAIN r.built}
                      ELSE r.seen
  <1>1. /\ r # NULL /\ r.at \in {"steam", "drive"} /\ r.item = NULL /\ r.todo = {}
        /\ UNCHANGED <<meta, localVars, games>>
    BY DEF NextSource
  <1>2. RefreshTyped(r) /\ RefreshSound(r)
    BY <1>1 DEF Typed, TasksTyped, Inv
  <1>3. Faithful(r, meta[d], games[d], SteamItems(d), DriveItems(d), CustomItems(d))
    BY <1>1 DEF TasksFaithful
  <1>4. r.step = "none"
    BY <1>1, <1>2 DEF RefreshSound, FoundSound
  <1>5. PICK ok \in BOOLEAN :
          SetTask(k, [r EXCEPT !.at = to, !.todo = IF ok THEN found ELSE {},
                               !.bad = @ \/ ~ok,
                               !.seen = IF to = "drive"
                                        THEN {Norm[r.built[g].title] :
                                                g \in DOMAIN r.built}
                                        ELSE @])
    BY DEF NextSource
  <1>6. PICK b \in BOOLEAN : b = (r.bad \/ ~ok)
    OBVIOUS
  <1>7. PICK l : l = IF ok THEN found ELSE {}
    OBVIOUS
  <1>8. SetTask(k, [r EXCEPT !.at = to, !.todo = l, !.bad = b, !.seen = marks])
    BY <1>5, <1>6, <1>7
  <1>9. ~b => ~r.bad /\ l = found
    BY <1>6, <1>7
  <1>10. \/ r.at = "steam" /\ to = "drive" /\ found = DriveItems(d)
            /\ marks = Norms(Range(r.built))
         \/ r.at = "drive" /\ to = "custom" /\ found = CustomItems(d)
            /\ marks = r.seen
    <2>1. {Norm[r.built[g].title] : g \in DOMAIN r.built} = Norms(Range(r.built))
      BY DEF Norms, Range
    <2> QED
      BY <1>1, <2>1
  <1> HIDE DEF to, found, marks
  <1> DEFINE s == [r EXCEPT !.at = to, !.todo = l, !.bad = b, !.seen = marks]
  <1>11. /\ s.at = to /\ s.todo = l /\ s.item = NULL /\ s.step = "none"
         /\ s.seen = marks /\ s.index = r.index /\ s.bad = b
         /\ s.built = r.built
    BY <1>1, <1>2, <1>4 DEF RefreshTyped, Fielded, Field
  <1>12. SetTask(k, s)
    BY <1>8
  <1> HIDE DEF s
  <1>13. ASSUME ~b
         PROVE  Complete(s, SteamItems(d), DriveItems(d), CustomItems(d))
    <2>1. Complete(r, SteamItems(d), DriveItems(d), CustomItems(d)) /\ l = found
      BY <1>3, <1>9, <1>13 DEF Faithful
    <2> DEFINE S == SteamItems(d)
               D == DriveItems(d)
               C == CustomItems(d)
    <2>2. Norms(Range(r.built)) = Norms(Due(r.at, S, D, C))
      BY <1>1, <2>1, NormsOf DEF Complete
    <2>3. Due(to, S, D, C) = Due(r.at, S, D, C) \cup found
      BY <1>10 DEF Due, Later
    <2> HIDE DEF S, D, C
    <2>4. Norms(Due(to, S, D, C)) = Norms(Due(r.at, S, D, C)) \cup Norms(found)
      BY <2>3, NormsOf
    <2>5. Norms(Range(s.built)) \cup Norms(s.todo) = Norms(Due(to, S, D, C))
      BY <1>11, <2>1, <2>2, <2>4
    <2>6. marks \subseteq Norms(Range(r.built))
      <3>1. CASE r.at = "drive"
        <4>1. {r.item} \ {NULL} = {} /\ r.at \in Later
          BY <1>1, <3>1 DEF Later
        <4> QED
          BY <1>10, <2>1, <4>1, NormsOf DEF Complete
      <3> QED
        BY <1>10, <3>1
    <2>7. IndexSound(s.index, s.built)
      BY <1>11, <2>1 DEF Complete
    <2>8. Complete(s, S, D, C)
      BY <1>11, <2>5, <2>6, <2>7 DEF Complete
    <2> QED
      BY <2>8 DEF S, D, C
  <1>14. Faithful(s, meta'[d], games'[d], SteamItems(d), DriveItems(d), CustomItems(d))
    BY <1>10, <1>11, <1>13 DEF Faithful
  <1>15. \A e \in Device \ {d} : meta'[e] = meta[e] /\ games'[e] = games[e]
    BY <1>1
  <1> QED
    BY <1>1, <1>12, <1>14, <1>15, PutFaithful DEF Typed

LEMMA PublishFaithful ==
  ASSUME Inv, Typed, TasksFaithful, OneRefresh, NEW k \in Job, Publish(k)
  PROVE  TasksFaithful'
  <1> DEFINE r == task[k]
             d == k[1]
             s == [r EXCEPT !.at = "swap"]
  <1>1. /\ r # NULL /\ r.at = "custom" /\ r.item = NULL /\ r.todo = {}
        /\ SetTask(k, s) /\ UNCHANGED <<meta, localVars>>
        /\ games' = [games EXCEPT ![d] = r.built]
    BY DEF Publish
  <1>2. RefreshTyped(r) /\ RefreshSound(r) /\ d \in Device
    BY <1>1 DEF Typed, TasksTyped, Inv, Job
  <1>3. Faithful(r, meta[d], games[d], SteamItems(d), DriveItems(d), CustomItems(d))
    BY <1>1 DEF TasksFaithful
  <1>4. r.step = "none"
    BY <1>1, <1>2 DEF RefreshSound, FoundSound
  <1>5. /\ s.at = "swap" /\ s.todo = {} /\ s.item = NULL /\ s.step = "none"
        /\ s.seen = r.seen /\ s.index = r.index /\ s.bad = r.bad
        /\ s.built = r.built
    BY <1>1, <1>2, <1>4 DEF RefreshTyped, Fielded, Field
  <1> HIDE DEF s
  <1>6. ASSUME NEW S, NEW D, NEW C, Complete(r, S, D, C)
        PROVE  Complete(s, S, D, C)
    <2>1. Due("swap", S, D, C) = Due("custom", S, D, C)
      BY DEF Due, Later
    <2> QED
      BY <1>1, <1>5, <1>6, <2>1 DEF Complete, Later
  <1>7. ~s.bad => Complete(s, SteamItems(d), DriveItems(d), CustomItems(d))
    BY <1>3, <1>5, <1>6 DEF Faithful
  <1>8. /\ games'[d] = r.built
        /\ \A e \in Device \ {d} : meta'[e] = meta[e] /\ games'[e] = games[e]
    BY <1>1, <1>2 DEF Typed, StateTyped
  <1>9. Faithful(s, meta'[d], games'[d], SteamItems(d), DriveItems(d), CustomItems(d))
    BY <1>5, <1>7, <1>8 DEF Faithful
  <1> QED
    BY <1>1, <1>8, <1>9, PutFaithful DEF Typed

LEMMA SwapFaithful ==
  ASSUME Inv, Typed, TasksFaithful, OneRefresh, NEW k \in Job, SwapIndex(k)
  PROVE  TasksFaithful'
  <1>1. /\ task[k] # NULL /\ SetTask(k, NULL)
        /\ UNCHANGED <<meta, localVars, games>>
    BY DEF SwapIndex
  <1>2. \A e \in Device \ {k[1]} : meta'[e] = meta[e] /\ games'[e] = games[e]
    BY <1>1
  <1> QED
    BY <1>1, <1>2, PutFaithful DEF Typed

LEMMA BeginFaithful ==
  ASSUME NEW e, NEW m, NEW f, NEW S, NEW D, NEW C
  PROVE  Faithful(Begin(e), m, f, S, D, C)
  <1> DEFINE r == Begin(e)
  <1>1. /\ r.at = "begin" /\ r.item = NULL /\ r.step = "none"
        /\ r.index = EmptyIndex /\ DOMAIN r.built = {}
    BY DEF Begin, NoGames
  <1> HIDE DEF r
  <1>2. IndexSound(r.index, r.built)
    BY <1>1, EmptySound
  <1>3. Faithful(r, m, f, S, D, C)
    BY <1>1, <1>2 DEF Faithful, Complete, Later
  <1> QED
    BY <1>3 DEF r

LEMMA RequestOthers ==
  ASSUME Typed, NEW k \in Job, Request(k)
  PROVE  \A d \in Device \ {k[1]} :
           /\ roots'[d] = roots[d] /\ custom'[d] = custom[d]
           /\ (d \in manifest') = (d \in manifest)
  <1>1. ASSUME NEW kind, AddRoot(k, kind) \/ RemoveRoot(k, kind)
        PROVE  /\ UNCHANGED <<custom, manifest>>
               /\ \A d \in Device \ {k[1]} : roots'[d] = roots[d]
    BY <1>1 DEF AddRoot, RemoveRoot, Typed, StateTyped
  <1>2. ASSUME NEW c, AddCustomGame(k, c) \/ RemoveCustomGame(k, c)
        PROVE  /\ UNCHANGED <<roots, manifest>>
               /\ \A d \in Device \ {k[1]} : custom'[d] = custom[d]
    BY <1>2 DEF AddCustomGame, RemoveCustomGame, Typed, StateTyped
  <1>3. Rescan(k) => UNCHANGED <<roots, custom, manifest>>
    BY DEF Rescan, localVars
  <1>4. SetManifest(k) => /\ UNCHANGED <<roots, custom>>
                          /\ manifest' = manifest \cup {k[1]}
    BY DEF SetManifest
  <1>5. CASE \E kind : AddRoot(k, kind) \/ RemoveRoot(k, kind)
    BY <1>1, <1>5
  <1>6. CASE \E c : AddCustomGame(k, c) \/ RemoveCustomGame(k, c)
    BY <1>2, <1>6
  <1>7. CASE Rescan(k)
    BY <1>3, <1>7
  <1>8. CASE SetManifest(k)
    <2>1. \A d \in Device \ {k[1]} : (d \in manifest') <=> (d \in manifest)
      BY <1>4, <1>8
    <2>2. \A d \in Device \ {k[1]} : (d \in manifest') = (d \in manifest)
      BY <2>1
    <2> QED
      BY <1>4, <1>8, <2>2
  <1> QED
    BY <1>5, <1>6, <1>7, <1>8 DEF Request

\* A request starts the only refresh of its device.
LEMMA RequestFaithful ==
  ASSUME Inv, Typed, TasksFaithful, OneRefresh', NEW k \in Job, Request(k)
  PROVE  TasksFaithful'
  <1>1. /\ SetTask(k, Begin(TRUE)) /\ UNCHANGED <<meta, games>>
        /\ \A d \in Device \ {k[1]} :
             /\ roots'[d] = roots[d] /\ custom'[d] = custom[d]
             /\ (d \in manifest') = (d \in manifest)
    BY RequestOthers DEF Request, AddRoot, RemoveRoot, AddCustomGame,
         RemoveCustomGame, Rescan, SetManifest
  <1>2. DOMAIN task = Job
    BY DEF Typed, TasksTyped
  <1>3. task'[k] = Begin(TRUE) /\ Begin(TRUE) # NULL
    BY <1>1, <1>2, BeginTyped, RefreshIs DEF SetTask
  <1>4. ASSUME NEW j \in Job, task'[j] # NULL
        PROVE  Faithful(task'[j], meta'[j[1]], games'[j[1]], SteamItems(j[1])',
                        DriveItems(j[1])', CustomItems(j[1])')
    <2>1. CASE j = k
      <3>1. Faithful(Begin(TRUE), meta'[j[1]], games'[j[1]], SteamItems(j[1])',
                     DriveItems(j[1])', CustomItems(j[1])')
        BY BeginFaithful
      <3> QED
        BY <1>3, <2>1, <3>1
    <2>2. CASE j # k
      <3>1. task'[j] = task[j]
        BY <1>1, <1>2, <2>2 DEF SetTask
      <3>2. j[1] # k[1]
        <4>1. /\ j[1] \in Device /\ j[2] \in Task /\ k[2] \in Task
              /\ j = <<j[1], j[2]>> /\ k = <<k[1], k[2]>>
          BY DEF Job
        <4>2. SUFFICES ASSUME j[1] = k[1] PROVE FALSE
          OBVIOUS
        <4>3. task'[<<j[1], j[2]>>] # NULL /\ task'[<<j[1], k[2]>>] # NULL
          BY <1>3, <1>4, <4>1, <4>2
        <4>4. j[2] = k[2]
          BY <4>1, <4>3 DEF OneRefresh
        <4> QED
          BY <2>2, <4>1, <4>2, <4>4
      <3>3. j[1] \in Device \ {k[1]}
        BY <3>2 DEF Job
      <3>4. /\ SteamItems(j[1])' = SteamItems(j[1])
            /\ DriveItems(j[1])' = DriveItems(j[1])
            /\ CustomItems(j[1])' = CustomItems(j[1])
        BY <1>1, <3>3, SameItems
      <3> QED
        BY <1>1, <1>4, <3>1, <3>4 DEF TasksFaithful
    <2> QED
      BY <2>1, <2>2
  <1> QED
    BY <1>4 DEF TasksFaithful

LEMMA RestartFaithful ==
  ASSUME Inv, Typed, TasksFaithful, NEW d \in Device, Restart(d)
  PROVE  TasksFaithful'
  <1>1. /\ meta' = meta
        /\ \A e \in Device \ {d} :
             /\ games'[e] = games[e]
             /\ roots'[e] = roots[e] /\ custom'[e] = custom[e]
             /\ (e \in manifest') = (e \in manifest)
    BY DEF Restart, Typed, StateTyped
  <1>2. \A k \in Job : /\ k[1] # d => task'[k] = task[k]
                       /\ k[1] = d => task'[k] \in {Begin(FALSE), NULL}
    BY DEF Restart
  <1>3. ASSUME NEW j \in Job, task'[j] # NULL
        PROVE  Faithful(task'[j], meta'[j[1]], games'[j[1]], SteamItems(j[1])',
                        DriveItems(j[1])', CustomItems(j[1])')
    <2>1. CASE j[1] = d
      <3>1. Faithful(Begin(FALSE), meta'[j[1]], games'[j[1]], SteamItems(j[1])',
                     DriveItems(j[1])', CustomItems(j[1])')
        BY BeginFaithful
      <3> QED
        BY <1>2, <1>3, <2>1, <3>1
    <2>2. CASE j[1] # d
      <3>1. j[1] \in Device \ {d}
        BY <2>2 DEF Job
      <3>2. /\ SteamItems(j[1])' = SteamItems(j[1])
            /\ DriveItems(j[1])' = DriveItems(j[1])
            /\ CustomItems(j[1])' = CustomItems(j[1])
        BY <1>1, <3>1, SameItems
      <3> QED
        BY <1>1, <1>2, <1>3, <2>2, <3>1, <3>2 DEF TasksFaithful
    <2> QED
      BY <2>1, <2>2
  <1> QED
    BY <1>3 DEF TasksFaithful

LEMMA IdleFaithful ==
  ASSUME TasksFaithful, UNCHANGED <<task, meta, games, roots, custom, manifest>>
  PROVE  TasksFaithful'
  <1>1. \A d : /\ SteamItems(d)' = SteamItems(d) /\ DriveItems(d)' = DriveItems(d)
               /\ CustomItems(d)' = CustomItems(d)
    BY SameItems
  <1> QED
    BY <1>1 DEF TasksFaithful

LEMMA NextFaithful ==
  ASSUME Inv, Typed, TasksFaithful, OneRefresh, OneRefresh', [Next]_vars
  PROVE  TasksFaithful'
  <1>1. ASSUME NEW k \in Job, RefreshStep(k) \/ EnsureFail(k) PROVE TasksFaithful'
    BY <1>1, StartFaithful, LookFaithful, EnsureFaithful, IdFaithful,
       SourceFaithful, PublishFaithful, SwapFaithful DEF RefreshStep
  <1>2. ASSUME NEW d \in Device, PairDevice(d) PROVE TasksFaithful'
    BY <1>2, IdleFaithful DEF PairDevice
  <1>3. CASE UNCHANGED vars
    BY <1>3, IdleFaithful DEF vars, localVars
  <1> QED
    BY <1>1, <1>2, <1>3, RequestFaithful, RestartFaithful DEF Next

\* What a refresh in progress leaves alone: its own device is not at rest.
LEMMA Unsettled ==
  ASSUME Settled, NEW d \in Device,
         Refreshing(d)' \/ d \in spoilt'
            \/ (/\ Refreshing(d)' = Refreshing(d)
                /\ (d \in spoilt') = (d \in spoilt)
                /\ games'[d] = games[d] /\ index'[d] = index[d]
                /\ roots'[d] = roots[d] /\ custom'[d] = custom[d]
                /\ (d \in manifest') = (d \in manifest))
  PROVE  ~Refreshing(d)' /\ d \notin spoilt' =>
           /\ Norms(Range(games'[d]))
                = Norms(Due("swap", SteamItems(d)', DriveItems(d)', CustomItems(d)'))
           /\ IndexSound(index'[d], games'[d])
  <1>1. CASE /\ Refreshing(d)' = Refreshing(d)
             /\ (d \in spoilt') = (d \in spoilt)
             /\ games'[d] = games[d] /\ index'[d] = index[d]
             /\ roots'[d] = roots[d] /\ custom'[d] = custom[d]
             /\ (d \in manifest') = (d \in manifest)
    <2>1. /\ SteamItems(d)' = SteamItems(d) /\ DriveItems(d)' = DriveItems(d)
          /\ CustomItems(d)' = CustomItems(d)
      BY <1>1, SameItems
    <2>2. ~Refreshing(d)' /\ d \notin spoilt' => ~Refreshing(d) /\ d \notin spoilt
      BY <1>1
    <2> QED
      BY <1>1, <2>1, <2>2 DEF Settled
  <1> QED
    BY <1>1

-----------------------------------------------------------------------------
(***************************************************************************)
(* Devices at rest                                                         *)
(***************************************************************************)
LEMMA GoesOn ==
  ASSUME NEW k \in Job, task'[k] # NULL
  PROVE  Refreshing(k[1])'
  <1>1. k[2] \in Task /\ k = <<k[1], k[2]>>
    BY DEF Job
  <1>2. task'[<<k[1], k[2]>>] # NULL
    BY <1>1
  <1> QED
    BY <1>1, <1>2 DEF Refreshing

\* The other devices are not concerned.
LEMMA OthersSame ==
  ASSUME TasksTyped, NEW k \in Job, NEW s, SetTask(k, s), NEW d, d # k[1]
  PROVE  Refreshing(d)' = Refreshing(d)
  <1>1. \A t \in Task : task'[<<d, t>>] = task[<<d, t>>]
    BY DEF TasksTyped, SetTask
  <1> QED
    BY <1>1 DEF Refreshing

LEMMA StepSettled ==
  ASSUME Inv, Typed, TasksFaithful, Settled, OneRefresh, NEW k \in Job,
         RefreshStep(k) \/ EnsureFail(k)
  PROVE  Settled'
  <1> DEFINE c == k[1]
  <1>1. /\ UNCHANGED localVars
        /\ \A d \in Device \ {c} :
             /\ games'[d] = games[d] /\ index'[d] = index[d]
             /\ (d \in spoilt') <=> (d \in spoilt)
    <2>1. UNCHANGED localVars
      BY DEF RefreshStep, RefreshStart, Look, EnsureFind, EnsureInsert,
             EnsureFail, Adopt, KeepLocal, NextSource, Publish, SwapIndex
    <2>2. games' = games \/ \E f : games' = [games EXCEPT ![c] = f]
      BY DEF RefreshStep, RefreshStart, Look, EnsureFind, EnsureInsert,
             EnsureFail, Adopt, KeepLocal, NextSource, Publish, SwapIndex
    <2>3. index' = index \/ \E x : index' = [index EXCEPT ![c] = x]
      BY DEF RefreshStep, RefreshStart, Look, EnsureFind, EnsureInsert,
             EnsureFail, Adopt, KeepLocal, NextSource, Publish, SwapIndex
    <2>4. spoilt' \in {spoilt, spoilt \cup {c}, spoilt \ {c}}
      BY DEF RefreshStep, RefreshStart, Look, EnsureFind, EnsureInsert,
             EnsureFail, Adopt, KeepLocal, NextSource, Publish, SwapIndex
    <2>5. \A d \in Device \ {c} : games'[d] = games[d] /\ index'[d] = index[d]
      BY <2>2, <2>3 DEF Typed, StateTyped
    <2> QED
      BY <2>1, <2>4, <2>5
  <1>2. \E s : SetTask(k, s)
    BY StepsSound
  <1>3. ASSUME NEW d \in Device \ {c}, ~Refreshing(d)' /\ d \notin spoilt'
        PROVE  /\ Norms(Range(games'[d]))
                    = Norms(Due("swap", SteamItems(d)', DriveItems(d)', CustomItems(d)'))
               /\ IndexSound(index'[d], games'[d])
    <2>1. Refreshing(d)' = Refreshing(d)
      BY <1>2, OthersSame DEF Typed
    <2>2. (d \in spoilt') = (d \in spoilt)
      BY <1>1
    <2>3. /\ roots'[d] = roots[d] /\ custom'[d] = custom[d]
          /\ (d \in manifest') = (d \in manifest)
      BY <1>1 DEF localVars
    <2> QED
      BY <1>1, <1>3, <2>1, <2>2, <2>3, Unsettled
  <1>4. ASSUME SwapIndex(k), ~Refreshing(c)' /\ c \notin spoilt'
        PROVE  /\ Norms(Range(games'[c]))
                    = Norms(Due("swap", SteamItems(c)', DriveItems(c)', CustomItems(c)'))
               /\ IndexSound(index'[c], games'[c])
    <2> DEFINE r == task[k]
    <2>1. /\ r # NULL /\ r.at = "swap" /\ games' = games /\ c \in Device
          /\ ~r.bad /\ index' = [index EXCEPT ![c] = r.index]
      BY <1>4 DEF SwapIndex, Job
    <2>2. Faithful(r, meta[c], games[c], SteamItems(c), DriveItems(c), CustomItems(c))
      BY <2>1 DEF TasksFaithful
    <2>3. /\ r.todo = {} /\ games[c] = r.built
          /\ Complete(r, SteamItems(c), DriveItems(c), CustomItems(c))
      BY <2>1, <2>2 DEF Faithful
    <2>4. /\ SteamItems(c)' = SteamItems(c) /\ DriveItems(c)' = DriveItems(c)
          /\ CustomItems(c)' = CustomItems(c)
      BY <1>1, SameItems DEF localVars
    <2>5. index'[c] = r.index
      BY <2>1 DEF Typed, StateTyped
    <2>6. Norms(Range(r.built)) = Norms(Due("swap", SteamItems(c), DriveItems(c), CustomItems(c)))
      BY <2>1, <2>3, NormsOf DEF Complete
    <2> QED
      BY <2>1, <2>3, <2>4, <2>5, <2>6 DEF Complete
  <1>5. ASSUME ~SwapIndex(k) PROVE Refreshing(c)' \/ c \in spoilt'
    <2>1. task'[k] # NULL \/ c \in spoilt'
      BY <1>5, StartTyped, LookTyped, FindTyped, InsertTyped, FailTyped, AdoptTyped,
         KeepTyped, SourceTyped, PublishTyped DEF RefreshStep, Going
    <2> QED
      BY <2>1, GoesOn
  <1> QED
    BY <1>3, <1>4, <1>5 DEF Settled

LEMMA RequestSettled ==
  ASSUME Inv, Typed, Settled, NEW k \in Job, Request(k)
  PROVE  Settled'
  <1> DEFINE c == k[1]
  <1>1. /\ SetTask(k, Begin(TRUE)) /\ UNCHANGED <<games, index, spoilt>>
    BY DEF Request, AddRoot, RemoveRoot, AddCustomGame, RemoveCustomGame,
           Rescan, SetManifest
  <1>2. task'[k] # NULL
    BY <1>1, BeginTyped, RefreshIs DEF SetTask, Typed, TasksTyped
  <1>3. Refreshing(c)'
    BY <1>2, GoesOn
  <1>4. \A d \in Device \ {c} :
           /\ roots'[d] = roots[d] /\ custom'[d] = custom[d]
           /\ (d \in manifest') = (d \in manifest)
    BY RequestOthers
  <1>5. ASSUME NEW d \in Device \ {c}, ~Refreshing(d)' /\ d \notin spoilt'
        PROVE  /\ Norms(Range(games'[d]))
                    = Norms(Due("swap", SteamItems(d)', DriveItems(d)', CustomItems(d)'))
               /\ IndexSound(index'[d], games'[d])
    <2>1. Refreshing(d)' = Refreshing(d)
      BY <1>1, OthersSame DEF Typed
    <2> QED
      BY <1>1, <1>4, <1>5, <2>1, Unsettled
  <1> QED
    BY <1>3, <1>5 DEF Settled

LEMMA RestartSettled ==
  ASSUME Typed, Settled, NEW c \in Device, Restart(c)
  PROVE  Settled'
  <1>1. /\ spoilt' = spoilt
        /\ \A d \in Device \ {c} :
             /\ games'[d] = games[d] /\ index'[d] = index[d]
             /\ roots'[d] = roots[d] /\ custom'[d] = custom[d]
             /\ (d \in manifest') = (d \in manifest)
    BY DEF Restart, Typed, StateTyped
  <1>2. Refreshing(c)'
    <2> DEFINE first == CHOOSE t \in Task : TRUE
    <2>1. first \in Task
      OBVIOUS
    <2>2. <<c, first>> \in Job
      BY <2>1 DEF Job
    <2>3. task'[<<c, first>>] = Begin(FALSE)
      BY <2>2 DEF Restart
    <2>4. Begin(FALSE) # NULL
      BY BeginTyped, RefreshIs
    <2> QED
      BY <2>1, <2>3, <2>4 DEF Refreshing
  <1>3. ASSUME NEW d \in Device \ {c}, ~Refreshing(d)' /\ d \notin spoilt'
        PROVE  /\ Norms(Range(games'[d]))
                    = Norms(Due("swap", SteamItems(d)', DriveItems(d)', CustomItems(d)'))
               /\ IndexSound(index'[d], games'[d])
    <2>1. \A t \in Task : task'[<<d, t>>] = task[<<d, t>>]
      BY DEF Restart, Job
    <2>2. Refreshing(d)' = Refreshing(d)
      BY <2>1 DEF Refreshing
    <2> QED
      BY <1>1, <1>3, <2>2, Unsettled
  <1> QED
    BY <1>2, <1>3 DEF Settled

LEMMA IdleSettled ==
  ASSUME Settled,
         UNCHANGED <<task, games, index, spoilt, roots, custom, manifest>>
  PROVE  Settled'
  <1>1. \A d : /\ SteamItems(d)' = SteamItems(d) /\ DriveItems(d)' = DriveItems(d)
               /\ CustomItems(d)' = CustomItems(d)
    BY SameItems
  <1>2. \A d : Refreshing(d)' = Refreshing(d)
    BY DEF Refreshing
  <1> QED
    BY <1>1, <1>2 DEF Settled

LEMMA NextSettled ==
  ASSUME Inv, Typed, TasksFaithful, Settled, OneRefresh, [Next]_vars
  PROVE  Settled'
  <1>1. ASSUME NEW d \in Device, PairDevice(d) PROVE Settled'
    BY <1>1, IdleSettled DEF PairDevice
  <1>2. CASE UNCHANGED vars
    BY <1>2, IdleSettled DEF vars, localVars
  <1> QED
    BY <1>1, <1>2, StepSettled, RequestSettled, RestartSettled DEF Next

LEMMA InitSettled == Init => TasksFaithful /\ Settled
  <1> SUFFICES ASSUME Init PROVE TasksFaithful /\ Settled
    OBVIOUS
  <1>1. PICK t \in Task :
          task = [k \in Job |-> IF k[2] = t THEN Begin(FALSE) ELSE NULL]
    BY DEF Init
  <1>2. TasksFaithful
    <2>1. ASSUME NEW j \in Job, task[j] # NULL
          PROVE  Faithful(task[j], meta[j[1]], games[j[1]], SteamItems(j[1]),
                          DriveItems(j[1]), CustomItems(j[1]))
      <3>1. Faithful(Begin(FALSE), meta[j[1]], games[j[1]], SteamItems(j[1]),
                     DriveItems(j[1]), CustomItems(j[1]))
        BY BeginFaithful
      <3>2. task[j] = Begin(FALSE)
        BY <1>1, <2>1
      <3> QED
        BY <3>1, <3>2
    <2> QED
      BY <2>1 DEF TasksFaithful
  <1>3. \A d \in Device : Refreshing(d)
    <2>1. Begin(FALSE) # NULL
      BY BeginTyped, RefreshIs
    <2>2. \A d \in Device : task[<<d, t>>] = Begin(FALSE)
      BY <1>1 DEF Job
    <2> QED
      BY <2>1, <2>2 DEF Refreshing
  <1> QED
    BY <1>2, <1>3 DEF Settled

\* The invariants of a daemon that refreshes one at a time.
LEMMA OneRefreshHolds ==
  Spec /\ []OneRefresh => [](Inv /\ Typed /\ TasksFaithful /\ Settled)
  <1> DEFINE I == Inv /\ Typed /\ TasksFaithful /\ Settled
  <1>1. Init => I
    BY InitSound, InitTyped, InitSettled
  <1>2. I /\ OneRefresh /\ OneRefresh' /\ [Next]_vars => I'
    BY NextSound, NextTyped, NextFaithful, NextSettled
  <1> HIDE DEF I
  <1>3. Spec /\ []OneRefresh => []I
    BY <1>1, <1>2, PTL DEF Spec
  <1> QED
    BY <1>3 DEF I

\* refresh_games: as long as no two refreshes of a device overlap, a device at
\* rest whose last refresh met no error lists what it has, nothing less and
\* nothing more: whatever disks and manifests, with restarts, lost answers and
\* changes of roots and custom games between them.
THEOREM CatalogCurrentHolds == Spec /\ []OneRefresh => []CatalogCurrent
  <1>1. ASSUME NEW d
        PROVE  Due("swap", SteamItems(d), DriveItems(d), CustomItems(d))
                 = SteamItems(d) \cup DriveItems(d) \cup CustomItems(d)
    BY DEF Due, Later
  <1>2. Settled => CatalogCurrent
    BY <1>1 DEF Settled, CatalogCurrent
  <1> QED
    BY <1>2, OneRefreshHolds, PTL

\* exe_index.rs: under the same conditions an executable that lies in one
\* listed game's directory only is detected as that game, under its id.
THEOREM DetectionFindsGameHolds == Spec /\ []OneRefresh => []DetectionFindsGame
  <1>1. ASSUME Typed, Settled PROVE DetectionFindsGame
    <2> SUFFICES ASSUME NEW d \in Device, ~Refreshing(d) /\ d \notin spoilt,
                        NEW g \in DOMAIN games[d], NEW e \in ExesIn[games[d][g].dir],
                        \A h \in DOMAIN games[d] \ {g} : e \notin ExesIn[games[d][h].dir]
                 PROVE  MatchExe(index[d], e) = g
      BY DEF DetectionFindsGame
    <2>1. IndexSound(index[d], games[d]) /\ IsListing(games[d])
      BY <1>1 DEF Settled, Typed, StateTyped
    <2>2. e \in Exe
      BY <2>1 DEF IsListing, Item
    <2>3. index[d].path[e] # NULL /\ index[d].path[e] = g
      BY <2>1, <2>2 DEF IndexSound
    <2> QED
      BY <2>3 DEF MatchExe
  <1>2. Inv /\ Typed /\ TasksFaithful /\ Settled => DetectionFindsGame
    BY <1>1
  <1> QED
    BY <1>2, OneRefreshHolds, PTL

\* game_id_for: under the same condition a persisted id gives way only to the
\* server's.  The id in hand was read, not written, by the refresh that holds
\* it, and no other one wrote since.
THEOREM PersistedIdKeptHolds == Spec /\ []OneRefresh => PersistedIdKept
  <1> DEFINE Kept == \A d \in Device : \A key \in Key :
                       meta[d][key] # NULL =>
                         meta'[d][key] \in {meta[d][key]} \cup DOMAIN rows'
  <1>1. Typed /\ TasksFaithful /\ [Next]_vars => [Kept]_vars
    <2> SUFFICES ASSUME Typed, TasksFaithful, Next PROVE Kept
      OBVIOUS
    <2>1. CASE meta' = meta
      BY <2>1
    <2>2. ASSUME NEW k \in Job, Adopt(k), meta' # meta PROVE Kept
      <3>1. /\ task[k] # NULL /\ task[k].step = "ensured" /\ rows' = rows
            /\ meta' = [meta EXCEPT ![k[1]][KeyOf(task[k].item)] = task[k].id]
        BY <2>2 DEF Adopt, SetMeta
      <3>2. task[k].id \in DOMAIN rows
        BY <3>1 DEF Typed, TasksTyped
      <3> QED
        BY <3>1, <3>2 DEF Typed, StateTyped
    <2>3. ASSUME NEW k \in Job, KeepLocal(k), meta' # meta PROVE Kept
      <3>1. PICK g : meta' = [meta EXCEPT ![k[1]][KeyOf(task[k].item)] = g]
        BY <2>3 DEF KeepLocal, SetMeta
      <3>2. /\ task[k] # NULL /\ task[k].step # "none" /\ task[k].readOk
            /\ task[k].cached = NULL
        BY <2>3 DEF KeepLocal
      <3>3. meta[k[1]][KeyOf(task[k].item)] = NULL
        BY <3>2 DEF TasksFaithful, Faithful
      <3> QED
        BY <3>1, <3>3 DEF Typed, StateTyped
    <2> QED
      BY <2>1, <2>2, <2>3 DEF Next, RefreshStep, RefreshStart, Look, EnsureFind,
           EnsureInsert, EnsureFail, NextSource, Publish, SwapIndex, Request,
           AddRoot, RemoveRoot, AddCustomGame, RemoveCustomGame, Rescan,
           SetManifest, PairDevice, Restart
  <1> QED
    BY <1>1, OneRefreshHolds, PTL DEF Spec, PersistedIdKept
=============================================================================
