------------------------------ MODULE Catalog ------------------------------
(***************************************************************************)
(* Game identity and the catalog: Engine::refresh_games and game_id_for,   *)
(* the requests that end in a refresh (roots, custom games, start-up and   *)
(* daily manifest), the exe index a refresh builds, and the server's       *)
(* ensure_game that gives devices a common id per game.                    *)
(*                                                                         *)
(* What is on the disks (Steam's app manifests, folders, executables) and  *)
(* what the Ludusavi manifest says are constants; save paths and titles'   *)
(* spelling are left out, Norm being normalize_title.  A refresh stops at  *)
(* every await.  It holds the manifest's read lock throughout, so a new    *)
(* manifest waits for the refreshes under way.                             *)
(***************************************************************************)
EXTENDS Integers, FiniteSets, Functions

CONSTANTS
    Device,
    Task,           \* tasks of a device that may refresh at once
    App,            \* Steam appids
    Title,
    Norm,           \* Title -> normalised title, 0 for the empty one
    RawName,        \* App -> the name in the .acf
    Manifest,       \* manifest title -> its appid or NULL
    InstallDir,     \* manifest title -> folder names it lists
    Installed,      \* Device -> apps under its Steam root
    Folder,         \* Device -> folder names under its drive root
    CustomTitle,    \* Device -> titles its user registers by hand
    PairedBefore,   \* devices paired in an earlier run of the daemon
    Ignored,        \* titles whose config says ignore
    Exe, Basename,  \* executables, and their file names
    ExesIn,         \* App, folder or custom title -> executables found there
    Id,             \* ids yet to be minted
    NULL,
    Upsettable,     \* devices where any of the following happens
    MaxUpset        \* bound on failed statements and calls, restarts, changes
                    \* of roots and removals of custom games, together

VARIABLES
    rows,       \* server: games table, id -> [title, app]
    meta,       \* per device: key -> persisted id or NULL
    roots,      \* per device: kinds of registered roots
    custom,     \* per device: custom_games
    paired,     \* devices whose client has a token
    manifest,   \* devices that have a manifest loaded
    games,      \* per device: engine.games, id -> item
    index,      \* per device: engine.exe_index
    task,       \* per device and task: the refresh under way
    spoilt,     \* devices whose last refresh met an error, or gave two games
                \* one id (history)
    minted,     \* ids in use
    upsets

localVars == <<roots, custom, paired, manifest>>
vars == <<rows, meta, localVars, games, index, task, spoilt, minted, upsets>>

-----------------------------------------------------------------------------
\* An installed game as a refresh sees it: `dir' is where its executables are.
Item == [src : {"steam", "drive", "custom"}, app : App \cup {NULL},
         title : Title, dir : App \cup Title]

ASSUME CatalogAssumption ==
    /\ Norm \in [Title -> Nat]
    /\ RawName \in [App -> Title]
    /\ DOMAIN Manifest \subseteq Title
    /\ \A t \in DOMAIN Manifest : Manifest[t] \in App \cup {NULL}
    /\ InstallDir \in [DOMAIN Manifest -> SUBSET Title]
    /\ Installed \in [Device -> SUBSET App]
    /\ Folder \in [Device -> SUBSET Title]
    /\ CustomTitle \in [Device -> SUBSET Title]
    /\ PairedBefore \subseteq Device
    /\ DOMAIN Basename = Exe
    /\ ExesIn \in [App \cup Title -> SUBSET Exe]
    /\ NULL \notin Id \cup App \cup Item
    /\ Task # {} \* the daemon's main task at least
    /\ Upsettable \subseteq Device
    /\ MaxUpset \in Nat

\* meta's keys: "gameid:steam:<appid>" and "gameid:name:<normalised title>".
KeyOf(i) == IF i.app # NULL THEN <<"steam", i.app>>
            ELSE <<"name", Norm[i.title]>>
Key == ({"steam"} \X App) \cup ({"name"} \X Range(Norm))

EmptyIndex == [path |-> [e \in Exe |-> NULL],
               base |-> [n \in Range(Basename) |-> {}]]
Index == [path : [Exe -> Id \cup {NULL}],
          base : [Range(Basename) -> SUBSET Id]]

NoGames == [g \in {} |-> NULL]
Job == Device \X Task

\* A catalog: games by id.
IsListing(f) == DOMAIN f \subseteq Id /\ f \in [DOMAIN f -> Item]

\* A refresh and the catalog it builds, which is one of L.
Stage == {"begin", "steam", "drive", "custom", "swap"}
Refresh(L) == [at : Stage, authed : BOOLEAN,
               todo : SUBSET Item, item : Item \cup {NULL},
               step : {"none", "looked", "missing", "ensured", "local"},
               cached : Id \cup {NULL}, readOk : BOOLEAN, id : Id \cup {NULL},
               seen : SUBSET Range(Norm), index : Index, bad : BOOLEAN,
               built : L]
IsRefresh(r) == r \in Refresh({r.built}) /\ IsListing(r.built)

ASSUME RefreshAssumption ==
    NULL \notin Refresh(UNION {[S -> Item] : S \in SUBSET Id})

TypeOK ==
    /\ DOMAIN rows \subseteq Id
    /\ \A g \in DOMAIN rows :
         rows[g] \in [title : Title, app : App \cup {NULL}]
    /\ meta \in [Device -> [Key -> Id \cup {NULL}]]
    /\ roots \in [Device -> SUBSET {"steam", "drive"}]
    /\ custom \in [Device -> SUBSET Title]
    /\ \A d \in Device : custom[d] \subseteq CustomTitle[d]
    /\ paired \subseteq Device /\ manifest \subseteq Device
    /\ DOMAIN games = Device /\ \A d \in Device : IsListing(games[d])
    /\ index \in [Device -> Index]
    /\ DOMAIN task = Job
    /\ \A k \in Job : task[k] # NULL => IsRefresh(task[k])
    /\ spoilt \subseteq Device
    /\ minted \subseteq Id
    /\ upsets \in 0..MaxUpset

\* refresh_games(enrich), not yet past its first await.
Begin(enrich) ==
    [at |-> "begin", authed |-> enrich, todo |-> {}, item |-> NULL,
     step |-> "none", cached |-> NULL, readOk |-> TRUE, id |-> NULL,
     seen |-> {}, index |-> EmptyIndex, bad |-> FALSE, built |-> NoGames]

\* A first start: ensure_default_roots has registered Steam.
Init ==
    /\ rows = [g \in {} |-> NULL]
    /\ meta = [d \in Device |-> [k \in Key |-> NULL]]
    /\ roots = [d \in Device |-> {"steam"}]
    /\ custom = [d \in Device |-> {}]
    /\ paired = PairedBefore
    /\ manifest = {}
    /\ games = [d \in Device |-> NoGames]
    /\ index = [d \in Device |-> EmptyIndex]
    /\ \E t \in Task :
         task = [k \in Job |-> IF k[2] = t THEN Begin(FALSE) ELSE NULL]
    /\ spoilt = {}
    /\ minted = {}
    /\ upsets = 0

Upset(d) ==
    /\ d \in Upsettable
    /\ upsets < MaxUpset
    /\ upsets' = upsets + 1
Fresh == Id \ minted
Refreshing(d) == \E t \in Task : task[<<d, t>>] # NULL

-----------------------------------------------------------------------------
\* The exe index.
\* index_install_dir: insert_exe for every executable found under the
\* directory; a path has one game, the last, a file name all that claim it.
IndexInstallDir(idx, dir, g) ==
    [path |-> [e \in Exe |-> IF e \in ExesIn[dir] THEN g ELSE idx.path[e]],
     base |-> [n \in Range(Basename) |->
                 idx.base[n] \cup {g : e \in {e \in ExesIn[dir] :
                                                Basename[e] = n}}]]

\* Faulty variant: a file name decides before the path does.
MatchExeByName(idx, e) ==
    LET named == idx.base[Basename[e]]
    IN  IF named # {} THEN CHOOSE g \in named : TRUE ELSE idx.path[e]

\* The path wins; a file name only if a single game claims it.
MatchExe(idx, e) ==
    LET named == idx.base[Basename[e]]
    IN  IF idx.path[e] # NULL THEN idx.path[e]
        ELSE IF Cardinality(named) = 1 THEN CHOOSE g \in named : TRUE
        ELSE NULL

-----------------------------------------------------------------------------
\* What a refresh finds on the disks.
TitleOf(d, a) ==
    IF d \in manifest /\ \E t \in DOMAIN Manifest : Manifest[t] = a
    THEN CHOOSE t \in DOMAIN Manifest : Manifest[t] = a
    ELSE RawName[a]

SteamItems(d) ==
    IF "steam" \notin roots[d] THEN {}
    ELSE {i \in {[src |-> "steam", app |-> a, title |-> TitleOf(d, a),
                  dir |-> a] : a \in Installed[d]} : i.title \notin Ignored}

\* ManifestMatcher: a folder name that two titles answer to never matches.
Matches(d, f) ==
    {t \in DOMAIN Manifest :
        /\ d \in manifest
        /\ Norm[f] # 0
        /\ Norm[f] \in {Norm[n] : n \in {t} \cup InstallDir[t]}}

DriveItems(d) ==
    IF "drive" \notin roots[d] THEN {}
    ELSE {i \in UNION {{[src |-> "drive", app |-> NULL, title |-> t,
                         dir |-> f] : t \in Matches(d, f)} :
                       f \in {f \in Folder[d] :
                                Cardinality(Matches(d, f)) = 1}} :
            i.title \notin Ignored}

CustomItems(d) ==
    {[src |-> "custom", app |-> NULL, title |-> c, dir |-> c] :
        c \in custom[d]}

-----------------------------------------------------------------------------
\* ensure_game on the server: a row with the appid, else the row of the title,
\* inserted if there is none.
RowsOfApp(a) == {g \in DOMAIN rows : a # NULL /\ rows[g].app = a}
RowsOfTitle(t) == {g \in DOMAIN rows : rows[g].title = t}

\* The SELECT takes the first row it meets, the same one every time.
FirstRow(S) == CHOOSE g \in S : TRUE

-----------------------------------------------------------------------------
\* refresh_games, await by await.
SetTask(k, r) == task' = [task EXCEPT ![k] = r]

\* Steam roots are read first; an error there ends the refresh.
RefreshStart(k) ==
    LET d == k[1]  r == task[k] IN
    /\ r # NULL /\ r.at = "begin"
    /\ \/ /\ SetTask(k, [r EXCEPT !.at = "steam", !.todo = SteamItems(d),
                                  !.authed = @ /\ d \in paired])
          /\ UNCHANGED <<spoilt, upsets>>
       \/ /\ Upset(d)
          /\ SetTask(k, NULL)
          /\ spoilt' = spoilt \cup {d}
    /\ UNCHANGED <<rows, meta, localVars, games, index, minted>>

\* Faulty variant: titles already in the catalog are not skipped.
SkipSeenNever(r, i) == FALSE

SkipSeen(r, i) == i.src # "steam" /\ Norm[i.title] \in r.seen

\* The next game found; game_id_for reads its persisted id.
Look(k) ==
    LET d == k[1]  r == task[k] IN
    /\ r # NULL /\ r.item = NULL
    /\ \E i \in r.todo :
         \/ /\ SkipSeen(r, i)
            /\ SetTask(k, [r EXCEPT !.todo = @ \ {i}])
            /\ UNCHANGED upsets
         \/ /\ ~SkipSeen(r, i)
            /\ \E ok \in BOOLEAN :
                 /\ IF ok THEN UNCHANGED upsets ELSE Upset(d)
                 /\ SetTask(k,
                      [r EXCEPT !.item = i, !.step = "looked", !.readOk = ok,
                                !.seen = IF i.src = "steam" THEN @
                                         ELSE @ \cup {Norm[i.title]},
                                !.cached = IF ok THEN meta[d][KeyOf(i)]
                                           ELSE NULL])
    /\ UNCHANGED <<rows, meta, localVars, games, index, spoilt, minted>>

\* Faulty variant: only the title is looked up.
EnsureFindByTitle(k) ==
    LET r == task[k] IN
    /\ r # NULL /\ r.step = "looked" /\ r.authed
    /\ SetTask(k, [r EXCEPT !.step = "missing"])
    /\ UNCHANGED <<rows, meta, localVars, games, index, spoilt, minted,
                   upsets>>

EnsureFind(k) ==
    LET r == task[k]
        found == RowsOfApp(r.item.app)
    IN
    /\ r # NULL /\ r.step = "looked" /\ r.authed
    /\ SetTask(k, IF found # {}
                  THEN [r EXCEPT !.step = "ensured", !.id = FirstRow(found)]
                  ELSE [r EXCEPT !.step = "missing"])
    /\ UNCHANGED <<rows, meta, localVars, games, index, spoilt, minted,
                   upsets>>

\* INSERT ... ON CONFLICT DO NOTHING, then the row of that title.  Rows are
\* never removed, so the two statements act as one.
EnsureInsert(k) ==
    LET r == task[k]
        found == RowsOfTitle(r.item.title)
        g == CHOOSE g \in Fresh : TRUE
    IN
    /\ r # NULL /\ r.step = "missing"
    /\ \/ /\ found # {}
          /\ SetTask(k, [r EXCEPT !.step = "ensured", !.id = FirstRow(found)])
          /\ UNCHANGED <<rows, minted>>
       \/ /\ found = {} /\ Fresh # {}
          /\ rows' = [h \in DOMAIN rows \cup {g} |->
                        IF h = g THEN [title |-> r.item.title,
                                       app |-> r.item.app] ELSE rows[h]]
          /\ minted' = minted \cup {g}
          /\ SetTask(k, [r EXCEPT !.step = "ensured", !.id = g])
    /\ UNCHANGED <<meta, localVars, games, index, spoilt, upsets>>

\* The call fails, or its answer is lost.
EnsureFail(k) ==
    LET r == task[k] IN
    /\ r # NULL
    /\ r.step = "looked" => r.authed
    /\ r.step \in {"looked", "missing", "ensured"}
    /\ Upset(k[1])
    /\ SetTask(k, [r EXCEPT !.step = "local", !.id = NULL])
    /\ UNCHANGED <<rows, meta, localVars, games, index, spoilt, minted>>

\* The game enters the catalog being built; one with the same id is replaced.
Recorded(r, g) ==
    [r EXCEPT !.todo = @ \ {r.item}, !.item = NULL, !.step = "none",
              !.cached = NULL, !.readOk = TRUE, !.id = NULL,
              !.bad = @ \/ g \in DOMAIN r.built,
              !.built = [h \in DOMAIN @ \cup {g} |->
                           IF h = g THEN r.item ELSE @[h]],
              !.index = IndexInstallDir(@, r.item.dir, g)]

\* set_meta, whose failure is ignored.
SetMeta(d, key, g) ==
    \/ meta' = [meta EXCEPT ![d][key] = g] /\ UNCHANGED upsets
    \/ Upset(d) /\ UNCHANGED meta

\* The server's id is canonical: it replaces a cached local one.
Adopt(k) ==
    LET d == k[1]  r == task[k] IN
    /\ r # NULL /\ r.step = "ensured"
    /\ IF r.cached = r.id THEN UNCHANGED <<meta, upsets>>
       ELSE SetMeta(d, KeyOf(r.item), r.id)
    /\ SetTask(k, Recorded(r, r.id))
    /\ UNCHANGED <<rows, localVars, games, index, spoilt, minted>>

\* Faulty variant: a fresh id is persisted after a read error too.
KeepLocalClobber(k) ==
    LET d == k[1]  r == task[k]  g == CHOOSE g \in Fresh : TRUE IN
    /\ r # NULL
    /\ r.step \in {"local", "looked"}
    /\ r.step = "looked" => ~r.authed
    /\ \/ /\ r.cached # NULL
          /\ SetTask(k, Recorded(r, r.cached))
          /\ UNCHANGED <<meta, minted, upsets>>
       \/ /\ r.cached = NULL /\ Fresh # {}
          /\ minted' = minted \cup {g}
          /\ SetMeta(d, KeyOf(r.item), g)
          /\ SetTask(k, Recorded(r, g))
    /\ UNCHANGED <<rows, localVars, games, index, spoilt>>

\* Faulty variant: without a readable key the game gets no id.
KeepLocalNil(k) ==
    LET r == task[k] IN
    /\ r # NULL
    /\ r.step \in {"local", "looked"}
    /\ r.step = "looked" => ~r.authed
    /\ SetTask(k, Recorded(r, r.cached))
    /\ UNCHANGED <<rows, meta, localVars, games, index, spoilt, minted,
                   upsets>>

\* Without the server: the cached id, or a fresh one, persisted if the key
\* is known to be absent.
KeepLocal(k) ==
    LET d == k[1]  r == task[k]  g == CHOOSE g \in Fresh : TRUE IN
    /\ r # NULL
    /\ r.step \in {"local", "looked"}
    /\ r.step = "looked" => ~r.authed
    /\ \/ /\ r.cached # NULL
          /\ SetTask(k, Recorded(r, r.cached))
          /\ UNCHANGED <<meta, minted, upsets>>
       \/ /\ r.cached = NULL /\ Fresh # {}
          /\ minted' = minted \cup {g}
          /\ IF r.readOk THEN SetMeta(d, KeyOf(r.item), g)
             ELSE UNCHANGED <<meta, upsets>>
          /\ SetTask(k, Recorded(r, g))
    /\ UNCHANGED <<rows, localVars, games, index, spoilt>>

\* Steam games, then folders, then custom games: each list is read when its
\* turn comes, and an unreadable one counts as empty.
NextSource(k) ==
    LET d == k[1]
        r == task[k]
        to == CASE r.at = "steam" -> "drive" [] r.at = "drive" -> "custom"
        found == IF to = "drive" THEN DriveItems(d) ELSE CustomItems(d)
    IN
    /\ r # NULL /\ r.at \in {"steam", "drive"}
    /\ r.item = NULL /\ r.todo = {}
    /\ \E ok \in BOOLEAN :
         /\ IF ok THEN UNCHANGED upsets ELSE Upset(d)
         /\ SetTask(k, [r EXCEPT
              !.at = to,
              !.todo = IF ok THEN found ELSE {},
              !.bad = @ \/ ~ok,
              !.seen = IF to = "drive"
                       THEN {Norm[r.built[g].title] : g \in DOMAIN r.built}
                       ELSE @])
    /\ UNCHANGED <<rows, meta, localVars, games, index, spoilt, minted>>

\* Faulty variant: the new catalog is added to the old one.
PublishMerged(k) ==
    LET d == k[1]  r == task[k] IN
    /\ r # NULL /\ r.at = "custom" /\ r.item = NULL /\ r.todo = {}
    /\ games' = [games EXCEPT ![d] = [g \in DOMAIN @ \cup DOMAIN r.built |->
                    IF g \in DOMAIN r.built THEN r.built[g] ELSE @[g]]]
    /\ SetTask(k, [r EXCEPT !.at = "swap"])
    /\ UNCHANGED <<rows, meta, localVars, index, spoilt, minted, upsets>>

Publish(k) ==
    LET d == k[1]  r == task[k] IN
    /\ r # NULL /\ r.at = "custom" /\ r.item = NULL /\ r.todo = {}
    /\ games' = [games EXCEPT ![d] = r.built]
    /\ SetTask(k, [r EXCEPT !.at = "swap"])
    /\ UNCHANGED <<rows, meta, localVars, index, spoilt, minted, upsets>>

\* replace_exe_index, then the hot swap; if the first fails so does the
\* refresh, with the new catalog and the old index in place.
SwapIndex(k) ==
    LET d == k[1]  r == task[k] IN
    /\ r # NULL /\ r.at = "swap"
    /\ \/ /\ index' = [index EXCEPT ![d] = r.index]
          /\ spoilt' = IF r.bad THEN spoilt \cup {d} ELSE spoilt \ {d}
          /\ UNCHANGED upsets
       \/ /\ Upset(d)
          /\ spoilt' = spoilt \cup {d}
          /\ UNCHANGED index
    /\ SetTask(k, NULL)
    /\ UNCHANGED <<rows, meta, localVars, games, minted>>

-----------------------------------------------------------------------------
\* What leads to a refresh.
AddRoot(k, kind) ==
    LET d == k[1] IN
    /\ task[k] = NULL
    /\ kind \notin roots[d]
    /\ Upset(d)
    /\ roots' = [roots EXCEPT ![d] = @ \cup {kind}]
    /\ SetTask(k, Begin(TRUE))
    /\ UNCHANGED <<rows, meta, custom, paired, manifest, games, index, spoilt,
                   minted>>

RemoveRoot(k, kind) ==
    LET d == k[1] IN
    /\ task[k] = NULL
    /\ kind \in roots[d]
    /\ Upset(d)
    /\ roots' = [roots EXCEPT ![d] = @ \ {kind}]
    /\ SetTask(k, Begin(TRUE))
    /\ UNCHANGED <<rows, meta, custom, paired, manifest, games, index, spoilt,
                   minted>>

\* A title without letters or digits, or one already there, is refused.
AddCustomGame(k, c) ==
    LET d == k[1] IN
    /\ task[k] = NULL
    /\ Norm[c] # 0
    /\ \A o \in custom[d] : Norm[o] # Norm[c]
    /\ custom' = [custom EXCEPT ![d] = @ \cup {c}]
    /\ SetTask(k, Begin(TRUE))
    /\ UNCHANGED <<rows, meta, roots, paired, manifest, games, index, spoilt,
                   minted, upsets>>

RemoveCustomGame(k, c) ==
    LET d == k[1] IN
    /\ task[k] = NULL
    /\ c \in custom[d]
    /\ Upset(d)
    /\ custom' = [custom EXCEPT ![d] = {o \in @ : Norm[o] # Norm[c]}]
    /\ SetTask(k, Begin(TRUE))
    /\ UNCHANGED <<rows, meta, roots, paired, manifest, games, index, spoilt,
                   minted>>

\* A changed configuration, or the daily refresh.
Rescan(k) ==
    /\ task[k] = NULL
    /\ SetTask(k, Begin(TRUE))
    /\ UNCHANGED <<rows, meta, localVars, games, index, spoilt, minted,
                   upsets>>

\* The manifest arrives; its write lock waits for refreshes that read it.
SetManifest(k) ==
    LET d == k[1] IN
    /\ task[k] = NULL
    /\ d \notin manifest
    /\ \A t \in Task : task[<<d, t>>] # NULL => task[<<d, t>>].at = "begin"
    /\ manifest' = manifest \cup {d}
    /\ SetTask(k, Begin(TRUE))
    /\ UNCHANGED <<rows, meta, roots, custom, paired, games, index, spoilt,
                   minted, upsets>>

PairDevice(d) ==
    /\ d \notin paired
    /\ paired' = paired \cup {d}
    /\ UNCHANGED <<rows, meta, roots, custom, manifest, games, index, task,
                   spoilt, minted, upsets>>

\* A restart keeps the database; without roots the default ones come back.
Restart(d) ==
    /\ Upset(d)
    /\ roots' = [roots EXCEPT ![d] = IF @ = {} THEN {"steam"} ELSE @]
    /\ manifest' = manifest \ {d}
    /\ games' = [games EXCEPT ![d] = NoGames]
    /\ index' = [index EXCEPT ![d] = EmptyIndex]
    /\ LET first == CHOOSE t \in Task : TRUE IN
         task' = [k \in Job |-> IF k[1] # d THEN task[k]
                                ELSE IF k[2] = first THEN Begin(FALSE)
                                ELSE NULL]
    /\ UNCHANGED <<rows, meta, custom, paired, spoilt, minted>>

-----------------------------------------------------------------------------
RefreshStep(k) ==
    \/ RefreshStart(k) \/ Look(k) \/ EnsureFind(k) \/ EnsureInsert(k)
    \/ Adopt(k) \/ KeepLocal(k) \/ NextSource(k) \/ Publish(k) \/ SwapIndex(k)

Request(k) ==
    \/ \E kind \in {"steam", "drive"} : AddRoot(k, kind) \/ RemoveRoot(k, kind)
    \/ \E c \in CustomTitle[k[1]] : AddCustomGame(k, c) \/ RemoveCustomGame(k, c)
    \/ Rescan(k) \/ SetManifest(k)

Next ==
    \/ \E k \in Job : RefreshStep(k) \/ EnsureFail(k) \/ Request(k)
    \/ \E d \in Device : PairDevice(d) \/ Restart(d)

Spec == Init /\ [][Next]_vars

\* A refresh that has begun goes on; whether one begins is not promised.
FairSpec == Spec /\ \A k \in Job : WF_vars(RefreshStep(k))

-----------------------------------------------------------------------------
Norms(S) == {Norm[i.title] : i \in S}

\* Once no refresh is under way the catalog lists what is installed and
\* registered, nothing less and nothing more, whatever changed meanwhile.
\* refresh_games: "Idempotent; safe to call on any change."
CatalogCurrent ==
    \A d \in Device :
        ~Refreshing(d) /\ d \notin spoilt
        => Norms(Range(games[d]))
             = Norms(SteamItems(d) \cup DriveItems(d) \cup CustomItems(d))

\* A later source never adds a game an earlier one lists under the same
\* normalised title (refresh_games, `seen').
NoDuplicateTitle ==
    \A d \in Device : \A g, h \in DOMAIN games[d] :
        /\ g # h
        /\ Norm[games[d][g].title] = Norm[games[d][h].title]
        => games[d][g].src = "steam" /\ games[d][h].src = "steam"

\* Between refreshes an executable that lies in one listed game's directory is
\* detected as that game, under the id the catalog knows it by (exe_index.rs).
DetectionFindsGame ==
    \A d \in Device :
        ~Refreshing(d) /\ d \notin spoilt =>
          \A g \in DOMAIN games[d] : \A e \in ExesIn[games[d][g].dir] :
             (\A h \in DOMAIN games[d] \ {g} : e \notin ExesIn[games[d][h].dir])
             => MatchExe(index[d], e) = g

\* A persisted id gives way only to the server's, never to a freshly minted
\* one: history is keyed by it (game_id_for).
PersistedIdKept ==
    [][\A d \in Device : \A key \in Key :
          meta[d][key] # NULL =>
            meta'[d][key] \in {meta[d][key]} \cup DOMAIN rows']_vars

\* refresh_games: "no game is registered server-side under its raw Steam
\* folder name before the manifest supplies the canonical title".
\* Does not hold: README, "Disagreements without a run".
CanonicalTitle ==
    \A g \in DOMAIN rows : \A t \in DOMAIN Manifest :
        rows[g].app # NULL /\ Manifest[t] = rows[g].app => rows[g].title = t

\* The id the server answers for a game is not one that the refresh has already
\* listed another game under: games.insert would replace that one (refresh_games).
\* Does not hold: README, "Disagreements without a run".
AnswerUnused ==
    \A k \in Job :
        task[k] # NULL /\ task[k].step = "ensured"
        => task[k].id \notin DOMAIN task[k].built

Enriched(d, a) ==
    \E t \in Task : LET r == task[<<d, t>>] IN
        /\ r # NULL /\ r.authed /\ r.at = "swap"
        /\ \E g \in DOMAIN r.built : r.built[g].app = a

\* Devices that go on refreshing settle on one id per Steam game, even if
\* they registered it at the same instant or under different titles
\* (ensure_game, game_id_for).
IdsConverge ==
    \A a \in App :
        (\A d \in Device : []<>Enriched(d, a))
        => <>[](\E g \in DOMAIN rows : \A d \in Device :
                    meta[d][<<"steam", a>>] = g)

=============================================================================
