------------------------------ MODULE Pairing ------------------------------
(***************************************************************************)
(* Devices, pairing codes and tokens: the server's handlers (api.rs login, *)
(* create_pair_code, pair, refresh, delete_device and the Authed and       *)
(* OwnerSession extractors over db.rs and auth.rs) and the daemon's side   *)
(* (engine.rs pair, client.rs send_authed and refresh, secrets.rs).        *)
(*                                                                         *)
(* Secrets are abstracted to what they open: a code or a refresh secret is *)
(* the id of its row, and hashing and signing never fail or collide.  A    *)
(* bearer is the device and expiry it claims and the signing key it was    *)
(* made with.  There is one account.  Requests that are refused without    *)
(* any effect (a locked guard, the code limit, no session) are not steps.  *)
(***************************************************************************)
EXTENDS Integers, FiniteSets

CONSTANTS
    Daemon,         \* installations of the daemon
    Configured,     \* those whose config file names the server
    Attempt,        \* pair requests that may be under way at once
    Task,           \* concurrent tasks of a daemon that call the server
    Owner,          \* pair-code requests that may be under way at once
    Code, Device,   \* ids of rows yet to be made
    WrongCode,      \* codes that match no row
    NULL,
    MaxActiveCodes, \* MAX_ACTIVE_PAIRING_CODES
    MaxPairFails,   \* MAX_PAIR_FAILS
    CodeTTL, AccessTTL, SessionTTL, LockTime,
    MaxTime,        \* bound on the clock
    MaxUpset        \* bound on lost calls, failed writes and restarts

VARIABLES
    now,
    codes,      \* pairing_codes: per code its row or NULL
    devices,    \* devices: per id its row or NULL; `code' is what it redeemed
    guard,      \* PairGuard
    key,        \* generation of the JWT signing secret
    session,    \* the owner's session token, or NULL
    minting,    \* create_pair_code requests past the count: their start time
    pair,       \* pair requests, from handler to the daemon's last write
    store,      \* per daemon: the credential in the secret store
    url,        \* per daemon: meta server_url holds the paired server
    base,       \* per daemon: the running client talks to the server
    creds,      \* per daemon: client.creds
    access,     \* per daemon: client.access
    call,       \* per daemon and task: the authenticated call under way
    upsets

serverVars == <<codes, devices, guard, key, session, minting>>
clientVars == <<store, url, base, creds, access>>
vars == <<now, serverVars, pair, clientVars, call, upsets>>

Time == 0..(MaxTime + AccessTTL + SessionTTL + CodeTTL + LockTime)
CodeRow == [exp : Time, used : BOOLEAN]
DeviceRow == [revoked : BOOLEAN, code : Code]
Bearer == [dev : Device \cup {NULL}, exp : Time, key : Nat]
Caller == Daemon \X Task

PairStage == {"checked", "matched", "burned", "created", "stored", "placed",
              "known"}
PairRequest == [at : PairStage, daemon : Daemon, code : Code \cup WrongCode,
                dev : Device \cup {NULL}, tok : Bearer \cup {NULL},
                waiting : BOOLEAN]
CallStage == {"sent", "authed", "refused", "refreshing", "minted",
              "refreshed", "served", "rejected"}
CallRequest == [at : CallStage, try : {1, 2}, tok : Bearer \cup {NULL},
                cred : Device \cup {NULL}, target : Device \cup {NULL}]

ASSUME PairingAssumption ==
    /\ Configured \subseteq Daemon
    /\ NULL \notin Daemon \cup Code \cup Device \cup Time
    /\ NULL \notin Bearer /\ NULL \notin PairRequest
    /\ NULL \notin CallRequest
    /\ NULL \notin CodeRow /\ NULL \notin DeviceRow
    /\ WrongCode \cap Code = {}
    /\ IsFiniteSet(Attempt) /\ IsFiniteSet(Owner) /\ IsFiniteSet(Code)
    /\ {MaxActiveCodes, MaxPairFails, CodeTTL, AccessTTL, SessionTTL,
        LockTime} \subseteq Nat \ {0}
    /\ {MaxTime, MaxUpset} \subseteq Nat

TypeOK ==
    /\ now \in 0..MaxTime
    /\ codes \in [Code -> CodeRow \cup {NULL}]
    /\ devices \in [Device -> DeviceRow \cup {NULL}]
    /\ guard \in [fails : Nat, until : Time \cup {NULL}]
    /\ key \in 0..MaxUpset
    /\ session \in [exp : Time, key : Nat] \cup {NULL}
    /\ minting \in [Owner -> 0..MaxTime \cup {NULL}]
    /\ pair \in [Attempt -> PairRequest \cup {NULL}]
    /\ store \in [Daemon -> Device \cup {NULL}]
    /\ url \in [Daemon -> BOOLEAN] /\ base \in [Daemon -> BOOLEAN]
    /\ creds \in [Daemon -> Device \cup {NULL}]
    /\ access \in [Daemon -> Bearer \cup {NULL}]
    /\ call \in [Caller -> CallRequest \cup {NULL}]
    /\ upsets \in 0..MaxUpset

Init ==
    /\ now = 0
    /\ codes = [c \in Code |-> NULL]
    /\ devices = [x \in Device |-> NULL]
    /\ guard = [fails |-> 0, until |-> NULL]
    /\ key = 0
    /\ session = NULL
    /\ minting = [o \in Owner |-> NULL]
    /\ pair = [a \in Attempt |-> NULL]
    /\ store = [d \in Daemon |-> NULL]
    /\ url = [d \in Daemon |-> FALSE]
    /\ base = [d \in Daemon |-> d \in Configured]
    /\ creds = [d \in Daemon |-> NULL]
    /\ access = [d \in Daemon |-> NULL]
    /\ call = [k \in Caller |-> NULL]
    /\ upsets = 0

-----------------------------------------------------------------------------
\* Tokens and the device table.

\* Faulty variant: account and device are swapped in the call.
MintAccessSwapped(x) == [dev |-> "account", exp |-> now + AccessTTL,
                         key |-> key]

MintAccess(x) == [dev |-> x, exp |-> now + AccessTTL, key |-> key]
MintOwnerSession == [exp |-> now + SessionTTL, key |-> key]

\* What Engine::new sends until the first refresh: a bearer that is no JWT.
AccountBearer == [dev |-> NULL, exp |-> 0, key |-> 0]

Verifies(t) == t.key = key /\ now < t.exp
DeviceActive(x) == x # NULL /\ devices[x] # NULL /\ ~devices[x].revoked

\* Faulty variant: the extractor trusts the token.
AuthedByToken(t) == t # NULL /\ Verifies(t) /\ t.dev # NULL

Authed(t) == t # NULL /\ Verifies(t) /\ DeviceActive(t.dev)

Upset == upsets < MaxUpset /\ upsets' = upsets + 1

Tick ==
    /\ now < MaxTime
    /\ now' = now + 1
    /\ UNCHANGED <<serverVars, pair, clientVars, call, upsets>>

-----------------------------------------------------------------------------
\* The owner logs in and asks for codes.
FreshCode == {c \in Code : codes[c] = NULL}
FreshDevice == {x \in Device : devices[x] = NULL}

ActiveCodes(t) == {c \in Code : codes[c] # NULL /\ ~codes[c].used
                                /\ codes[c].exp > t}

Login ==
    /\ session' = MintOwnerSession
    /\ UNCHANGED <<now, codes, devices, guard, key, minting, pair, clientVars,
                   call, upsets>>

\* Faulty variant: the limit is off by one.
CountCodesLoose(o) ==
    /\ minting[o] = NULL
    /\ session # NULL /\ Verifies(session)
    /\ Cardinality(ActiveCodes(now)) <= MaxActiveCodes
    /\ minting' = [minting EXCEPT ![o] = now]
    /\ UNCHANGED <<now, codes, devices, guard, key, session, pair, clientVars,
                   call, upsets>>

\* create_pairing_code counts in one statement and inserts in another.
CountCodes(o) ==
    /\ minting[o] = NULL
    /\ session # NULL /\ Verifies(session)
    /\ Cardinality(ActiveCodes(now)) < MaxActiveCodes
    /\ minting' = [minting EXCEPT ![o] = now]
    /\ UNCHANGED <<now, codes, devices, guard, key, session, pair, clientVars,
                   call, upsets>>

InsertCode(o) ==
    /\ minting[o] # NULL
    /\ FreshCode # {}
    /\ codes' = [codes EXCEPT ![CHOOSE c \in FreshCode : TRUE] =
                    [exp |-> minting[o] + CodeTTL, used |-> FALSE]]
    /\ minting' = [minting EXCEPT ![o] = NULL]
    /\ UNCHANGED <<now, devices, guard, key, session, pair, clientVars, call,
                   upsets>>

-----------------------------------------------------------------------------
\* The guard.
Locked == guard.until # NULL /\ now < guard.until

\* Faulty variant: an expired lock is not cleared, and one more failure is
\* allowed before the next.
RecordFailLate ==
    LET n == guard.fails + 1
    IN  guard' = [fails |-> n,
                  until |-> IF n > MaxPairFails THEN now + LockTime
                            ELSE guard.until]

RecordFail ==
    LET g == IF guard.until # NULL /\ now >= guard.until
             THEN [fails |-> 0, until |-> NULL] ELSE guard
        n == g.fails + 1
    IN  guard' = [fails |-> n,
                  until |-> IF n >= MaxPairFails THEN now + LockTime
                            ELSE g.until]

RecordSuccess == guard' = [fails |-> 0, until |-> NULL]

\* A daemon sends a code and passes the guard's check.
PairCheck(a, d, c) ==
    /\ pair[a] = NULL
    /\ c \in Code => codes[c] # NULL
    /\ ~Locked
    /\ pair' = [pair EXCEPT ![a] =
                  [at |-> "checked", daemon |-> d, code |-> c, dev |-> NULL,
                   tok |-> NULL, waiting |-> TRUE]]
    /\ UNCHANGED <<now, serverVars, clientVars, call, upsets>>

\* redeem_pairing_code reads the active codes and verifies each.
PairMatch(a) ==
    /\ pair[a] # NULL /\ pair[a].at = "checked"
    /\ pair[a].code \in ActiveCodes(now)
    /\ pair' = [pair EXCEPT ![a].at = "matched"]
    /\ UNCHANGED <<now, serverVars, clientVars, call, upsets>>

\* Faulty variant: the update does not ask for used = 0.
PairBurnBlind(a) ==
    /\ pair[a] # NULL /\ pair[a].at = "matched"
    /\ codes' = [codes EXCEPT ![pair[a].code].used = TRUE]
    /\ RecordSuccess
    /\ pair' = [pair EXCEPT ![a].at = "burned"]
    /\ UNCHANGED <<now, devices, key, session, minting, clientVars, call,
                   upsets>>

\* The compare-and-swap that burns the code; nobody awaits between it and
\* record_success.
PairBurn(a) ==
    /\ pair[a] # NULL /\ pair[a].at = "matched"
    /\ ~codes[pair[a].code].used
    /\ codes' = [codes EXCEPT ![pair[a].code].used = TRUE]
    /\ RecordSuccess
    /\ pair' = [pair EXCEPT ![a].at = "burned"]
    /\ UNCHANGED <<now, devices, key, session, minting, clientVars, call,
                   upsets>>

\* No code matches, or another request burned it first.
PairRefuse(a) ==
    /\ pair[a] # NULL
    /\ \/ pair[a].at = "checked" /\ pair[a].code \notin ActiveCodes(now)
       \/ pair[a].at = "matched" /\ codes[pair[a].code].used
    /\ RecordFail
    /\ pair' = [pair EXCEPT ![a] = NULL]
    /\ UNCHANGED <<now, codes, devices, key, session, minting, clientVars,
                   call, upsets>>

CreateDevice(a) ==
    /\ pair[a] # NULL /\ pair[a].at = "burned"
    /\ FreshDevice # {}
    /\ LET x == CHOOSE x \in FreshDevice : TRUE IN
         /\ devices' = [devices EXCEPT ![x] = [revoked |-> FALSE,
                                               code |-> pair[a].code]]
         /\ pair' = [pair EXCEPT ![a].at = "created", ![a].dev = x,
                                 ![a].tok = MintAccess(x)]
    /\ UNCHANGED <<now, codes, guard, key, session, minting, clientVars, call,
                   upsets>>

\* The client times out while the handler runs on.
PairAbandon(a) ==
    /\ pair[a] # NULL /\ pair[a].at \in {"checked", "matched", "burned"}
    /\ pair[a].waiting
    /\ Upset
    /\ pair' = [pair EXCEPT ![a].waiting = FALSE]
    /\ UNCHANGED <<now, serverVars, clientVars, call>>

\* A handler whose client is gone is dropped at its next await, the answer is
\* lost, or the credential cannot be stored: the device stays on the server.
PairLost(a) ==
    /\ pair[a] # NULL
    /\ \/ ~pair[a].waiting /\ UNCHANGED upsets
       \/ pair[a].waiting /\ pair[a].at = "created" /\ Upset
    /\ pair' = [pair EXCEPT ![a] = NULL]
    /\ UNCHANGED <<now, serverVars, clientVars, call>>

\* Engine::pair: secret store, meta, credentials and token are four writes.
PairStore(a) ==
    /\ pair[a] # NULL /\ pair[a].at = "created" /\ pair[a].waiting
    /\ store' = [store EXCEPT ![pair[a].daemon] = pair[a].dev]
    /\ pair' = [pair EXCEPT ![a].at = "stored"]
    /\ UNCHANGED <<now, serverVars, url, base, creds, access, call, upsets>>

\* A failing set_meta is ignored.
PairMeta(a) ==
    /\ pair[a] # NULL /\ pair[a].at = "stored"
    /\ \/ url' = [url EXCEPT ![pair[a].daemon] = TRUE] /\ UNCHANGED upsets
       \/ Upset /\ UNCHANGED url
    /\ pair' = [pair EXCEPT ![a].at = "placed"]
    /\ UNCHANGED <<now, serverVars, store, base, creds, access, call>>

PairCreds(a) ==
    /\ pair[a] # NULL /\ pair[a].at = "placed"
    /\ creds' = [creds EXCEPT ![pair[a].daemon] = pair[a].dev]
    /\ pair' = [pair EXCEPT ![a].at = "known"]
    /\ UNCHANGED <<now, serverVars, store, url, base, access, call, upsets>>

PairToken(a) ==
    /\ pair[a] # NULL /\ pair[a].at = "known"
    /\ access' = [access EXCEPT ![pair[a].daemon] = pair[a].tok]
    /\ pair' = [pair EXCEPT ![a] = NULL]
    /\ UNCHANGED <<now, serverVars, store, url, base, creds, call, upsets>>

-----------------------------------------------------------------------------
\* send_authed: `target' is the device a DELETE /devices names, NULL for any
\* other request.
CallSend(d, t, x) ==
    /\ call[<<d, t>>] = NULL
    /\ access[d] # NULL /\ base[d]
    /\ x # NULL => devices[x] # NULL
    /\ call' = [call EXCEPT ![<<d, t>>] =
                  [at |-> "sent", try |-> 1, tok |-> access[d],
                   cred |-> NULL, target |-> x]]
    /\ UNCHANGED <<now, serverVars, pair, clientVars, upsets>>

CallAuth(k) ==
    /\ call[k] # NULL /\ call[k].at = "sent"
    /\ call' = [call EXCEPT ![k].at = IF Authed(call[k].tok) THEN "authed"
                                      ELSE "refused"]
    /\ UNCHANGED <<now, serverVars, pair, clientVars, upsets>>

\* The handler's effect: for DELETE /devices, revoke_device.
CallServe(k) ==
    /\ call[k] # NULL /\ call[k].at = "authed"
    /\ devices' = IF call[k].target = NULL THEN devices
                  ELSE [devices EXCEPT ![call[k].target].revoked = TRUE]
    /\ call' = [call EXCEPT ![k].at = "served"]
    /\ UNCHANGED <<now, codes, guard, key, session, minting, pair, clientVars,
                   upsets>>

\* Faulty variant: a refused call is not retried.
RefreshSendNever(k) ==
    /\ call[k] # NULL /\ call[k].at = "refused"
    /\ call' = [call EXCEPT ![k].at = "rejected"]
    /\ UNCHANGED <<now, serverVars, pair, clientVars, upsets>>

\* The first 401 is answered by one refresh; without credentials, or after
\* the retry, it is the caller's.
RefreshSend(k) ==
    LET d == k[1] IN
    /\ call[k] # NULL /\ call[k].at = "refused"
    /\ call' = [call EXCEPT
                  ![k] = IF @.try = 1 /\ creds[d] # NULL
                         THEN [@ EXCEPT !.at = "refreshing", !.cred = creds[d]]
                         ELSE [@ EXCEPT !.at = "rejected"]]
    /\ UNCHANGED <<now, serverVars, pair, clientVars, upsets>>

\* POST /auth/refresh.
Refresh(k) ==
    /\ call[k] # NULL /\ call[k].at = "refreshing"
    /\ call' = [call EXCEPT
                  ![k] = IF DeviceActive(@.cred)
                         THEN [@ EXCEPT !.at = "minted",
                                        !.tok = MintAccess(call[k].cred)]
                         ELSE [@ EXCEPT !.at = "rejected"]]
    /\ UNCHANGED <<now, serverVars, pair, clientVars, upsets>>

\* The token replaces whatever the client holds by then.
RefreshAdopt(k) ==
    /\ call[k] # NULL /\ call[k].at = "minted"
    /\ access' = [access EXCEPT ![k[1]] = call[k].tok]
    /\ call' = [call EXCEPT ![k].at = "refreshed"]
    /\ UNCHANGED <<now, serverVars, pair, store, url, base, creds, upsets>>

CallResend(k) ==
    /\ call[k] # NULL /\ call[k].at = "refreshed"
    /\ call' = [call EXCEPT ![k] = [@ EXCEPT !.at = "sent", !.try = 2,
                                             !.tok = access[k[1]]]]
    /\ UNCHANGED <<now, serverVars, pair, clientVars, upsets>>

CallEnd(k) ==
    /\ call[k] # NULL /\ call[k].at \in {"served", "rejected"}
    /\ call' = [call EXCEPT ![k] = NULL]
    /\ UNCHANGED <<now, serverVars, pair, clientVars, upsets>>

\* A request or its answer is lost.
CallLost(k) ==
    /\ call[k] # NULL /\ call[k].at \in {"sent", "refreshing", "minted"}
    /\ Upset
    /\ call' = [call EXCEPT ![k] = NULL]
    /\ UNCHANGED <<now, serverVars, pair, clientVars>>

-----------------------------------------------------------------------------
\* The daemon dies and starts again: Engine::new loads the stored credential,
\* main the stored URL.  Handlers of its requests run on or are dropped.
DaemonRestart(d) ==
    /\ Upset
    /\ base' = [base EXCEPT ![d] = d \in Configured \/ url[d]]
    /\ creds' = [creds EXCEPT ![d] = store[d]]
    /\ access' = [access EXCEPT ![d] = IF store[d] = NULL THEN NULL
                                       ELSE AccountBearer]
    /\ call' = [k \in Caller |-> IF k[1] = d THEN NULL ELSE call[k]]
    /\ pair' = [a \in Attempt |->
                  IF pair[a] = NULL \/ pair[a].daemon # d THEN pair[a]
                  ELSE IF pair[a].at \in {"checked", "matched", "burned"}
                  THEN [pair[a] EXCEPT !.waiting = FALSE]
                  ELSE NULL]
    /\ UNCHANGED <<now, serverVars, store, url>>

\* The server restarts: every handler dies, the guard forgets, and a signing
\* secret that could not be written to disk is replaced.
ServerRestart ==
    /\ Upset
    /\ key' \in {key, key + 1}
    /\ guard' = [fails |-> 0, until |-> NULL]
    /\ minting' = [o \in Owner |-> NULL]
    /\ pair' = [a \in Attempt |->
                  IF pair[a] # NULL /\ pair[a].at \in {"checked", "matched",
                                                       "burned", "created"}
                  THEN NULL ELSE pair[a]]
    /\ call' = [k \in Caller |->
                  IF call[k] # NULL /\ call[k].at \in {"sent", "authed",
                                                       "refreshing"}
                  THEN NULL ELSE call[k]]
    /\ UNCHANGED <<now, codes, devices, session, clientVars>>

-----------------------------------------------------------------------------
CallStep(k) ==
    \/ CallAuth(k) \/ CallServe(k) \/ CallEnd(k)
    \/ RefreshSend(k) \/ Refresh(k) \/ RefreshAdopt(k) \/ CallResend(k)

PairStep(a) ==
    \/ PairMatch(a) \/ PairBurn(a) \/ PairRefuse(a) \/ CreateDevice(a)
    \/ PairStore(a) \/ PairMeta(a) \/ PairCreds(a) \/ PairToken(a)

Next ==
    \/ Tick \/ Login \/ ServerRestart
    \/ \E o \in Owner : CountCodes(o) \/ InsertCode(o)
    \/ \E a \in Attempt :
         \/ \E d \in Daemon, c \in Code \cup WrongCode : PairCheck(a, d, c)
         \/ PairStep(a) \/ PairAbandon(a) \/ PairLost(a)
    \/ \E k \in Caller :
         \/ \E x \in Device \cup {NULL} : CallSend(k[1], k[2], x)
         \/ CallStep(k) \/ CallLost(k)
    \/ \E d \in Daemon : DaemonRestart(d)

Spec == Init /\ [][Next]_vars

\* A call that was made goes on.  Whether a code is typed or a call is made
\* is up to the user and to the games played.
Fairness == \A k \in Caller : WF_vars(CallStep(k))

FairSpec == Spec /\ Fairness

-----------------------------------------------------------------------------
\* A pairing code makes at most one device, however many requests redeem it
\* at once, time out or die (redeem_pairing_code, pair).
OneDevicePerCode ==
    \A x, y \in Device :
        /\ devices[x] # NULL /\ devices[y] # NULL
        /\ devices[x].code = devices[y].code
        => x = y

\* Requests that counted before each other's insert exceed the limit on
\* active codes by at most one each (create_pairing_code).
CodesBounded ==
    LET coming == {o \in Owner : minting[o] # NULL
                                 /\ minting[o] + CodeTTL > now}
    IN  Cardinality(ActiveCodes(now)) + Cardinality(coming)
          <= MaxActiveCodes - 1 + Cardinality(Owner)

\* The limit as create_pairing_code's comment puts it.
\* Does not hold: README, "Disagreements without a run".
CodesCapped == Cardinality(ActiveCodes(now)) <= MaxActiveCodes

\* Requests that passed the check together can overrun the lockout threshold
\* by at most one failure each (PairGuard, pair).
LockoutBound == guard.fails <= MaxPairFails - 1 + Cardinality(Attempt)

-----------------------------------------------------------------------------
Revoked(x) == devices[x] # NULL /\ devices[x].revoked

Acting(x) == \E k \in Caller : /\ call[k] # NULL
                               /\ call[k].at \in {"authed", "served"}
                               /\ call[k].tok.dev = x

\* Once a device is revoked the server soon stops acting for it, for good,
\* whatever tokens it holds or was just refreshed (Authed, refresh).
RevokedShutOut == \A x \in Device : Revoked(x) ~> []~Acting(x)

\* The running client knows the server and holds credentials it honours.
Admissible(d) == base[d] /\ DeviceActive(creds[d])

\* A device that stays paired and goes on calling goes on being served:
\* expiry, restarts, a lost signing key and tokens of a former pairing cost
\* it one refresh (send_authed, refresh, Engine::new).
ServedAgain ==
    \A d \in Daemon :
        (/\ <>[]Admissible(d)
         /\ []<>(\E t \in Task : call[<<d, t>>] # NULL))
        => []<>(\E t \in Task : /\ call[<<d, t>>] # NULL
                                /\ call[<<d, t>>].at = "served")

\* A finished pairing is a stored one: the credential and the server it is
\* for (engine.rs pair, main.rs).
\* Does not hold: README, "Disagreements without a run".
PairingKept ==
    \A d \in Daemon :
        (store[d] # NULL /\ \A a \in Attempt : pair[a] = NULL)
        => d \in Configured \/ url[d]

=============================================================================
