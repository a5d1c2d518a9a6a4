--------------------------- MODULE PairingProofs ---------------------------
(***************************************************************************)
(* Theorems about Pairing for any number of daemons, requests, codes and   *)
(* devices, any life times and limits.                                     *)
(***************************************************************************)
EXTENDS Pairing, FiniteSetTheorems, TLAPS

USE PairingAssumption

\* A key is replaced at most once per restart, a code that was matched has a
\* row, and a revocation names one: what TypeOK needs to be inductive.
TypeInv ==
    /\ TypeOK
    /\ key <= upsets
    /\ \A a \in Attempt :
         pair[a] # NULL /\ pair[a].at \in {"matched", "burned"}
         => pair[a].code \in Code /\ codes[pair[a].code] # NULL
    /\ \A k \in Caller : call[k] # NULL /\ call[k].target # NULL
                         => devices[call[k].target] # NULL

LEMMA Bounds ==
  /\ MaxTime \in Nat /\ MaxUpset \in Nat
  /\ CodeTTL \in Nat /\ AccessTTL \in Nat /\ SessionTTL \in Nat
  /\ LockTime \in Nat /\ 0 < LockTime
  /\ MaxActiveCodes \in Nat /\ MaxPairFails \in Nat /\ 0 < MaxPairFails
  BY SMT

\* Every expiry the server computes is a time.
LEMMA Expiries ==
  ASSUME NEW t \in 0..MaxTime
  PROVE  /\ t \in Time /\ t + CodeTTL \in Time /\ t + AccessTTL \in Time
         /\ t + SessionTTL \in Time /\ t + LockTime \in Time
  BY Bounds DEF Time

LEMMA FreshIn ==
  /\ FreshCode # {} => (CHOOSE c \in FreshCode : TRUE) \in FreshCode
  /\ FreshDevice # {} => (CHOOSE x \in FreshDevice : TRUE) \in FreshDevice
  OBVIOUS

LEMMA MintType ==
  ASSUME TypeOK, NEW x \in Device \cup {NULL}
  PROVE  MintAccess(x) \in Bearer
  BY Expiries, Bounds DEF MintAccess, Bearer, TypeOK

LEMMA InitType == Init => TypeInv
  <1> SUFFICES ASSUME Init PROVE TypeInv
    OBVIOUS
  <1>1. /\ now \in 0..MaxTime /\ key \in 0..MaxUpset /\ upsets \in 0..MaxUpset
        /\ key <= upsets
    BY Bounds DEF Init
  <1>2. guard \in [fails : Nat, until : Time \cup {NULL}]
    BY DEF Init
  <1>3. /\ codes \in [Code -> CodeRow \cup {NULL}]
        /\ devices \in [Device -> DeviceRow \cup {NULL}]
        /\ session \in [exp : Time, key : Nat] \cup {NULL}
        /\ minting \in [Owner -> 0..MaxTime \cup {NULL}]
        /\ pair \in [Attempt -> PairRequest \cup {NULL}]
        /\ store \in [Daemon -> Device \cup {NULL}]
        /\ creds \in [Daemon -> Device \cup {NULL}]
        /\ access \in [Daemon -> Bearer \cup {NULL}]
        /\ call \in [Caller -> CallRequest \cup {NULL}]
    BY DEF Init
  <1>4. url \in [Daemon -> BOOLEAN] /\ base \in [Daemon -> BOOLEAN]
    BY DEF Init
  <1>5. /\ \A a \in Attempt : pair[a] = NULL
        /\ \A k \in Caller : call[k] = NULL
    BY DEF Init
  <1> QED
    BY <1>1, <1>2, <1>3, <1>4, <1>5, Zenon DEF TypeInv, TypeOK

\* What a step may do to the parts TypeInv relates.
LEMMA RowsKept ==
  ASSUME TypeInv, TypeOK', key' <= upsets',
         \A c \in Code : codes[c] # NULL => codes'[c] # NULL,
         \A x \in Device : devices[x] # NULL => devices'[x] # NULL,
         \A a \in Attempt : pair'[a] = NULL \/ pair'[a] = pair[a]
             \/ (pair'[a].at \in {"matched", "burned"} =>
                   /\ pair'[a].code \in Code
                   /\ codes'[pair'[a].code] # NULL),
         \A k \in Caller : call'[k] # NULL /\ call'[k].target # NULL =>
             devices'[call'[k].target] # NULL
  PROVE  TypeInv'
  BY DEF TypeInv

LEMMA OwnerType ==
  ASSUME TypeInv,
         \/ Tick \/ Login
         \/ \E o \in Owner : CountCodes(o) \/ InsertCode(o)
  PROVE  TypeInv'
  <1> USE DEF TypeInv
  <1>1. CASE Tick
    <2>1. now' \in 0..MaxTime
      BY <1>1, Bounds DEF Tick, TypeOK
    <2> QED
      BY <1>1, <2>1 DEF Tick, serverVars, clientVars, TypeOK
  <1>2. CASE Login
    <2>1. session' \in [exp : Time, key : Nat]
      BY <1>2, Expiries, Bounds DEF Login, MintOwnerSession, TypeOK
    <2> QED
      BY <1>2, <2>1 DEF Login, clientVars, TypeOK
  <1>3. ASSUME NEW o \in Owner, CountCodes(o) PROVE TypeInv'
    BY <1>3 DEF CountCodes, clientVars, TypeOK
  <1>4. ASSUME NEW o \in Owner, InsertCode(o) PROVE TypeInv'
    <2> DEFINE c == CHOOSE c \in FreshCode : TRUE
               row == [exp |-> minting[o] + CodeTTL, used |-> FALSE]
    <2>1. minting[o] \in 0..MaxTime /\ c \in Code
      BY <1>4, FreshIn DEF InsertCode, TypeOK, FreshCode
    <2>2. row \in CodeRow
      BY <2>1, Expiries DEF CodeRow
    <2>3. codes' = [codes EXCEPT ![c] = row]
      BY <1>4 DEF InsertCode
    <2> HIDE DEF c, row
    <2>4. /\ codes' \in [Code -> CodeRow \cup {NULL}]
          /\ \A b \in Code : codes[b] # NULL => codes'[b] # NULL
      BY <2>1, <2>2, <2>3 DEF TypeOK
    <2>5. minting' \in [Owner -> 0..MaxTime \cup {NULL}]
      BY <1>4 DEF InsertCode, TypeOK
    <2> QED
      BY <1>4, <2>4, <2>5 DEF InsertCode, clientVars, TypeOK
  <1> QED
    BY <1>1, <1>2, <1>3, <1>4

\* Both outcomes of a redemption leave a guard.
LEMMA GuardType ==
  ASSUME TypeOK, RecordFail \/ RecordSuccess
  PROVE  guard' \in [fails : Nat, until : Time \cup {NULL}]
  <1>1. CASE RecordFail
    <2> DEFINE g == IF guard.until # NULL /\ now >= guard.until
                    THEN [fails |-> 0, until |-> NULL] ELSE guard
    <2>1. g \in [fails : Nat, until : Time \cup {NULL}]
      BY DEF TypeOK
    <2>2. guard' = [fails |-> g.fails + 1,
                    until |-> IF g.fails + 1 >= MaxPairFails
                              THEN now + LockTime ELSE g.until]
      BY <1>1 DEF RecordFail
    <2> HIDE DEF g
    <2>3. now + LockTime \in Time
      BY Expiries DEF TypeOK
    <2> QED
      BY <2>1, <2>2, <2>3
  <1>2. CASE RecordSuccess
    BY <1>2 DEF RecordSuccess
  <1> QED
    BY <1>1, <1>2

\* A request moves on: its record keeps its type and its code.
LEMMA PairMoves ==
  ASSUME TypeOK, NEW a \in Attempt, pair[a] # NULL, NEW st \in PairStage,
         pair' = [pair EXCEPT ![a].at = st]
  PROVE  /\ pair' \in [Attempt -> PairRequest \cup {NULL}]
         /\ pair'[a] # NULL /\ pair'[a].at = st
         /\ pair'[a].code = pair[a].code
         /\ \A b \in Attempt : b # a => pair'[b] = pair[b]
  <1>1. pair[a] \in PairRequest
    BY DEF TypeOK
  <1>2. /\ [pair[a] EXCEPT !.at = st] \in PairRequest
        /\ [pair[a] EXCEPT !.at = st].at = st
        /\ [pair[a] EXCEPT !.at = st].code = pair[a].code
    BY <1>1 DEF PairRequest
  <1> QED
    BY <1>1, <1>2 DEF TypeOK

LEMMA PairType ==
  ASSUME TypeInv, NEW a \in Attempt,
         \/ \E d \in Daemon, c \in Code \cup WrongCode : PairCheck(a, d, c)
         \/ PairStep(a) \/ PairAbandon(a) \/ PairLost(a)
  PROVE  TypeInv'
  <1> USE DEF TypeInv
  <1>1. ASSUME NEW d \in Daemon, NEW c \in Code \cup WrongCode,
               PairCheck(a, d, c)
        PROVE  TypeInv'
    <2> DEFINE r == [at |-> "checked", daemon |-> d, code |-> c, dev |-> NULL,
                     tok |-> NULL, waiting |-> TRUE]
    <2>1. r \in PairRequest /\ r.at = "checked"
      BY DEF PairRequest, PairStage
    <2>2. pair' = [pair EXCEPT ![a] = r]
      BY <1>1 DEF PairCheck
    <2> HIDE DEF r
    <2>3. pair' \in [Attempt -> PairRequest \cup {NULL}]
      BY <2>1, <2>2 DEF TypeOK
    <2> QED
      BY <1>1, <2>1, <2>2, <2>3
         DEF PairCheck, serverVars, clientVars, TypeOK
  <1>2. CASE PairMatch(a)
    <2>1. "matched" \in PairStage
      BY DEF PairStage
    <2>2. pair[a].code \in Code /\ codes[pair[a].code] # NULL
      BY <1>2 DEF PairMatch, ActiveCodes
    <2>3. /\ pair' \in [Attempt -> PairRequest \cup {NULL}]
          /\ pair'[a] # NULL /\ pair'[a].at = "matched"
          /\ pair'[a].code = pair[a].code
          /\ \A b \in Attempt : b # a => pair'[b] = pair[b]
      BY <1>2, <2>1, PairMoves DEF PairMatch
    <2>4. UNCHANGED <<now, serverVars, clientVars, call, upsets>>
      BY <1>2 DEF PairMatch
    <2>5. TypeOK'
      BY <2>3, <2>4 DEF serverVars, clientVars, TypeOK
    <2>6. UNCHANGED <<codes, devices, key, upsets, call>>
      BY <2>4 DEF serverVars
    <2> QED
      BY <2>2, <2>3, <2>5, <2>6, RowsKept
  <1>3. CASE PairBurn(a)
    <2>1. "burned" \in PairStage
      BY DEF PairStage
    <2>2. pair[a].code \in Code /\ codes[pair[a].code] \in CodeRow
      BY <1>3 DEF PairBurn, TypeOK
    <2>3. /\ codes' \in [Code -> CodeRow \cup {NULL}]
          /\ \A c \in Code : codes[c] # NULL => codes'[c] # NULL
      BY <1>3, <2>2 DEF PairBurn, TypeOK, CodeRow
    <2>4. guard' \in [fails : Nat, until : Time \cup {NULL}]
      BY <1>3, GuardType DEF PairBurn
    <2>5. /\ pair' \in [Attempt -> PairRequest \cup {NULL}]
          /\ pair'[a] # NULL /\ pair'[a].at = "burned"
          /\ pair'[a].code = pair[a].code
          /\ \A b \in Attempt : b # a => pair'[b] = pair[b]
      BY <1>3, <2>1, PairMoves DEF PairBurn
    <2>6. TypeOK'
      BY <1>3, <2>3, <2>4, <2>5 DEF PairBurn, clientVars, TypeOK
    <2>7. UNCHANGED <<devices, key, upsets, call>>
      BY <1>3 DEF PairBurn
    <2> QED
      BY <2>2, <2>3, <2>5, <2>6, <2>7, RowsKept
  <1>4. CASE PairRefuse(a)
    <2>1. guard' \in [fails : Nat, until : Time \cup {NULL}]
      BY <1>4, GuardType DEF PairRefuse
    <2> QED
      BY <1>4, <2>1 DEF PairRefuse, clientVars, TypeOK
  <1>5. CASE CreateDevice(a)
    <2> DEFINE x == CHOOSE x \in FreshDevice : TRUE
               row == [revoked |-> FALSE, code |-> pair[a].code]
    <2>1. /\ x \in Device /\ pair[a] \in PairRequest /\ pair[a].code \in Code
      BY <1>5, FreshIn DEF CreateDevice, FreshDevice, TypeOK
    <2>2. row \in DeviceRow
      BY <2>1 DEF DeviceRow
    <2>3. devices' = [devices EXCEPT ![x] = row]
      BY <1>5 DEF CreateDevice
    <2>4. pair' = [pair EXCEPT ![a] =
                     [pair[a] EXCEPT !.at = "created", !.dev = x,
                                     !.tok = MintAccess(x)]]
      BY <1>5, <2>1 DEF CreateDevice, TypeOK
    <2> HIDE DEF x, row
    <2>5. MintAccess(x) \in Bearer
      BY <2>1, MintType
    <2>6. /\ [pair[a] EXCEPT !.at = "created", !.dev = x,
                             !.tok = MintAccess(x)] \in PairRequest
          /\ [pair[a] EXCEPT !.at = "created", !.dev = x,
                             !.tok = MintAccess(x)].at = "created"
      BY <2>1, <2>5 DEF PairRequest, PairStage
    <2>7. /\ devices' \in [Device -> DeviceRow \cup {NULL}]
          /\ \A y \in Device : devices[y] # NULL => devices'[y] # NULL
      BY <2>1, <2>2, <2>3 DEF TypeOK
    <2>8. /\ pair' \in [Attempt -> PairRequest \cup {NULL}]
          /\ pair'[a].at = "created"
          /\ \A b \in Attempt : b # a => pair'[b] = pair[b]
      BY <2>4, <2>6 DEF TypeOK
    <2>9. TypeOK'
      BY <1>5, <2>7, <2>8 DEF CreateDevice, clientVars, TypeOK
    <2>10. UNCHANGED <<codes, key, upsets, call>>
      BY <1>5 DEF CreateDevice
    <2>11. \A k \in Caller : call[k] # NULL /\ call[k].target # NULL =>
             call[k].target \in Device
      BY DEF TypeOK, CallRequest
    <2> QED
      BY <2>7, <2>8, <2>9, <2>10, <2>11, RowsKept
  <1>6. ASSUME Upset PROVE upsets' \in 0..MaxUpset /\ key <= upsets'
    BY <1>6, Bounds DEF Upset, TypeOK
  <1>7. CASE PairAbandon(a)
    <2>1. pair[a] \in PairRequest
      BY <1>7 DEF PairAbandon, TypeOK
    <2>2. [pair[a] EXCEPT !.waiting = FALSE] \in PairRequest
      BY <2>1 DEF PairRequest
    <2>3. /\ pair' \in [Attempt -> PairRequest \cup {NULL}]
          /\ pair'[a].at = pair[a].at /\ pair'[a].code = pair[a].code
          /\ \A b \in Attempt : b # a => pair'[b] = pair[b]
      BY <1>7, <2>1, <2>2 DEF PairAbandon, TypeOK, PairRequest
    <2> QED
      BY <1>6, <1>7, <2>3 DEF PairAbandon, serverVars, clientVars, TypeOK
  <1>8. CASE PairLost(a)
    <2>1. upsets' \in 0..MaxUpset /\ key <= upsets'
      BY <1>6, <1>8 DEF PairLost, TypeOK
    <2> QED
      BY <1>8, <2>1 DEF PairLost, serverVars, clientVars, TypeOK
  <1>9. CASE PairStore(a)
    <2>1. /\ "stored" \in PairStage
          /\ store' \in [Daemon -> Device \cup {NULL}]
      BY <1>9 DEF PairStage, PairStore, TypeOK, PairRequest
    <2>2. /\ pair' \in [Attempt -> PairRequest \cup {NULL}]
          /\ pair'[a] # NULL /\ pair'[a].at = "stored"
          /\ pair'[a].code = pair[a].code
          /\ \A b \in Attempt : b # a => pair'[b] = pair[b]
      BY <1>9, <2>1, PairMoves DEF PairStore
    <2>3. TypeOK'
      BY <1>9, <2>1, <2>2 DEF PairStore, serverVars, TypeOK
    <2>4. UNCHANGED <<codes, devices, key, upsets, call>>
      BY <1>9 DEF PairStore, serverVars
    <2> QED
      BY <2>2, <2>3, <2>4, RowsKept
  <1>10. CASE PairMeta(a)
    <2>1. "placed" \in PairStage /\ url' \in [Daemon -> BOOLEAN]
      BY <1>10 DEF PairStage, PairMeta, TypeOK
    <2>2. upsets' \in 0..MaxUpset /\ key <= upsets'
      BY <1>6, <1>10 DEF PairMeta, TypeOK
    <2>3. /\ pair' \in [Attempt -> PairRequest \cup {NULL}]
          /\ pair'[a] # NULL /\ pair'[a].at = "placed"
          /\ pair'[a].code = pair[a].code
          /\ \A b \in Attempt : b # a => pair'[b] = pair[b]
      BY <1>10, <2>1, PairMoves DEF PairMeta
    <2>4. UNCHANGED <<codes, devices, key, call>>
      BY <1>10 DEF PairMeta, serverVars
    <2>5. TypeOK'
      BY <1>10, <2>1, <2>2, <2>3 DEF PairMeta, serverVars, TypeOK
    <2> QED
      BY <2>2, <2>3, <2>4, <2>5, RowsKept
  <1>11. CASE PairCreds(a)
    <2>1. /\ "known" \in PairStage
          /\ creds' \in [Daemon -> Device \cup {NULL}]
      BY <1>11 DEF PairStage, PairCreds, TypeOK, PairRequest
    <2>2. /\ pair' \in [Attempt -> PairRequest \cup {NULL}]
          /\ pair'[a] # NULL /\ pair'[a].at = "known"
          /\ pair'[a].code = pair[a].code
          /\ \A b \in Attempt : b # a => pair'[b] = pair[b]
      BY <1>11, <2>1, PairMoves DEF PairCreds
    <2>3. TypeOK'
      BY <1>11, <2>1, <2>2 DEF PairCreds, serverVars, TypeOK
    <2>4. UNCHANGED <<codes, devices, key, upsets, call>>
      BY <1>11 DEF PairCreds, serverVars
    <2> QED
      BY <2>2, <2>3, <2>4, RowsKept
  <1>12. CASE PairToken(a)
    <2>1. access' \in [Daemon -> Bearer \cup {NULL}]
      BY <1>12 DEF PairToken, TypeOK, PairRequest
    <2> QED
      BY <1>12, <2>1 DEF PairToken, serverVars, TypeOK
  <1> QED
    BY <1>1, <1>2, <1>3, <1>4, <1>5, <1>7, <1>8, <1>9, <1>10, <1>11, <1>12
       DEF PairStep

\* A call that moves on to another stage, or takes another token or
\* credential, stays a call for the same target.
LEMMA CallMoves ==
  ASSUME TypeInv, NEW k \in Caller,
         NEW r \in CallRequest \cup {NULL},
         r # NULL => \/ r.target = NULL
                     \/ call[k] # NULL /\ r.target = call[k].target
                     \/ r.target \in Device /\ devices[r.target] # NULL,
         call' = [call EXCEPT ![k] = r],
         UNCHANGED <<now, codes, guard, key, session, minting, pair>>,
         devices' \in [Device -> DeviceRow \cup {NULL}],
         \A x \in Device : devices[x] # NULL => devices'[x] # NULL,
         UNCHANGED <<store, url, base, creds>>,
         access' \in [Daemon -> Bearer \cup {NULL}],
         upsets' \in 0..MaxUpset, key <= upsets'
  PROVE  TypeInv'
  <1>1. call' \in [Caller -> CallRequest \cup {NULL}]
    BY DEF TypeInv, TypeOK
  <1>2. TypeOK'
    BY <1>1 DEF TypeInv, TypeOK
  <1>3. \A j \in Caller : call[j] # NULL /\ call[j].target # NULL
          => call[j].target \in Device /\ devices[call[j].target] # NULL
    BY DEF TypeInv, TypeOK, CallRequest
  <1>4. \A j \in Caller : call'[j] # NULL /\ call'[j].target # NULL
          => devices'[call'[j].target] # NULL
    BY <1>1, <1>3 DEF TypeInv, TypeOK
  <1> QED
    BY <1>2, <1>4, RowsKept

LEMMA CallType ==
  ASSUME TypeInv, NEW k \in Caller,
         \/ \E x \in Device \cup {NULL} : CallSend(k[1], k[2], x)
         \/ CallStep(k) \/ CallLost(k)
  PROVE  TypeInv'
  <1>1. /\ devices \in [Device -> DeviceRow \cup {NULL}]
        /\ access \in [Daemon -> Bearer \cup {NULL}]
        /\ upsets \in 0..MaxUpset /\ key <= upsets
        /\ k = <<k[1], k[2]>> /\ k[1] \in Daemon
        /\ call[k] # NULL => call[k] \in CallRequest
        /\ creds[k[1]] \in Device \cup {NULL}
        /\ access[k[1]] \in Bearer \cup {NULL}
    BY DEF TypeInv, TypeOK, Caller
  <1>2. ASSUME NEW x \in Device \cup {NULL}, CallSend(k[1], k[2], x)
        PROVE  TypeInv'
    <2> DEFINE r == [at |-> "sent", try |-> 1, tok |-> access[k[1]],
                     cred |-> NULL, target |-> x]
    <2>1. r \in CallRequest /\ r.target = x
      BY <1>1 DEF CallRequest, CallStage
    <2>2. call' = [call EXCEPT ![k] = r] /\ (x # NULL => devices[x] # NULL)
      BY <1>1, <1>2 DEF CallSend
    <2> HIDE DEF r
    <2> QED
      BY <1>1, <1>2, <2>1, <2>2, CallMoves
         DEF CallSend, serverVars, clientVars
  <1>3. CASE CallAuth(k)
    <2> DEFINE st == IF Authed(call[k].tok) THEN "authed" ELSE "refused"
               r == [call[k] EXCEPT !.at = st]
    <2>1. st \in CallStage
      BY DEF CallStage
    <2>2. call' = [call EXCEPT ![k] = r] /\ call[k] \in CallRequest
      BY <1>1, <1>3 DEF CallAuth
    <2> HIDE DEF st
    <2>3. r \in CallRequest /\ r.target = call[k].target
      BY <2>1, <2>2 DEF CallRequest
    <2> HIDE DEF r
    <2> QED
      BY <1>1, <1>3, <2>2, <2>3, CallMoves
         DEF CallAuth, serverVars, clientVars
  <1>4. CASE CallServe(k)
    <2> DEFINE r == [call[k] EXCEPT !.at = "served"]
    <2>1. call' = [call EXCEPT ![k] = r] /\ call[k] \in CallRequest
      BY <1>1, <1>4 DEF CallServe
    <2>2. r \in CallRequest /\ r.target = call[k].target
      BY <2>1 DEF CallRequest, CallStage
    <2>3. call[k].target # NULL => /\ call[k].target \in Device
                                   /\ devices[call[k].target] \in DeviceRow
      BY <1>1, <2>1, <1>4 DEF TypeInv, TypeOK, CallRequest, CallServe
    <2>4. /\ devices' \in [Device -> DeviceRow \cup {NULL}]
          /\ \A x \in Device : devices[x] # NULL => devices'[x] # NULL
      <3>1. CASE call[k].target = NULL
        BY <1>1, <1>4, <3>1 DEF CallServe
      <3>2. CASE call[k].target # NULL
        <4>1. devices' = [devices EXCEPT ![call[k].target] =
                [devices[call[k].target] EXCEPT !.revoked = TRUE]]
          BY <1>1, <1>4, <2>3, <3>2 DEF CallServe
        <4>2. [devices[call[k].target] EXCEPT !.revoked = TRUE] \in DeviceRow
          BY <2>3, <3>2 DEF DeviceRow
        <4> QED
          BY <1>1, <2>3, <3>2, <4>1, <4>2
      <3> QED
        BY <3>1, <3>2
    <2> HIDE DEF r
    <2> QED
      BY <1>1, <1>4, <2>1, <2>2, <2>4, CallMoves DEF CallServe, clientVars
  <1>5. CASE RefreshSend(k)
    <2>1. call[k] \in CallRequest
      BY <1>1, <1>5 DEF RefreshSend
    <2>2. PICK r \in {[call[k] EXCEPT !.at = "refreshing",
                                      !.cred = creds[k[1]]],
                      [call[k] EXCEPT !.at = "rejected"]} :
            call' = [call EXCEPT ![k] = r]
      BY <1>5, <2>1 DEF RefreshSend, TypeInv, TypeOK
    <2>3. r \in CallRequest /\ r.target = call[k].target
      BY <1>1, <2>1, <2>2 DEF CallRequest, CallStage
    <2> QED
      BY <1>1, <1>5, <2>1, <2>2, <2>3, CallMoves
         DEF RefreshSend, serverVars, clientVars
  <1>6. CASE Refresh(k)
    <2>1. call[k] \in CallRequest
      BY <1>1, <1>6 DEF Refresh
    <2>2. PICK r \in {[call[k] EXCEPT !.at = "minted",
                                      !.tok = MintAccess(call[k].cred)],
                      [call[k] EXCEPT !.at = "rejected"]} :
            call' = [call EXCEPT ![k] = r]
      BY <1>6, <2>1 DEF Refresh, TypeInv, TypeOK
    <2>3. MintAccess(call[k].cred) \in Bearer
      BY <2>1, MintType DEF CallRequest, TypeInv
    <2>4. r \in CallRequest /\ r.target = call[k].target
      BY <2>1, <2>2, <2>3 DEF CallRequest, CallStage
    <2> QED
      BY <1>1, <1>6, <2>1, <2>2, <2>4, CallMoves
         DEF Refresh, serverVars, clientVars
  <1>7. CASE RefreshAdopt(k)
    <2> DEFINE r == [call[k] EXCEPT !.at = "refreshed"]
    <2>1. call' = [call EXCEPT ![k] = r] /\ call[k] \in CallRequest
      BY <1>1, <1>7 DEF RefreshAdopt
    <2>2. r \in CallRequest /\ r.target = call[k].target
      BY <2>1 DEF CallRequest, CallStage
    <2>3. access' \in [Daemon -> Bearer \cup {NULL}]
      BY <1>1, <1>7, <2>1 DEF RefreshAdopt, CallRequest
    <2> HIDE DEF r
    <2> QED
      BY <1>1, <1>7, <2>1, <2>2, <2>3, CallMoves DEF RefreshAdopt, serverVars
  <1>8. CASE CallResend(k)
    <2> DEFINE r == [call[k] EXCEPT !.at = "sent", !.try = 2,
                                    !.tok = access[k[1]]]
    <2>1. call' = [call EXCEPT ![k] = r] /\ call[k] \in CallRequest
      BY <1>1, <1>8 DEF CallResend, TypeInv, TypeOK
    <2>2. r \in CallRequest /\ r.target = call[k].target
      BY <1>1, <2>1 DEF CallRequest, CallStage
    <2> HIDE DEF r
    <2> QED
      BY <1>1, <1>8, <2>1, <2>2, CallMoves
         DEF CallResend, serverVars, clientVars
  <1>9. CASE CallEnd(k)
    BY <1>1, <1>9, CallMoves DEF CallEnd, serverVars, clientVars
  <1>10. CASE CallLost(k)
    <2>1. upsets' \in 0..MaxUpset /\ key <= upsets'
      BY <1>10, Bounds DEF CallLost, Upset, TypeInv, TypeOK
    <2> QED
      BY <1>1, <1>10, <2>1, CallMoves DEF CallLost, serverVars, clientVars
  <1> QED
    BY <1>2, <1>3, <1>4, <1>5, <1>6, <1>7, <1>8, <1>9, <1>10 DEF CallStep

LEMMA RestartType ==
  ASSUME TypeInv,
         ServerRestart \/ \E d \in Daemon : DaemonRestart(d)
  PROVE  TypeInv'
  <1> USE DEF TypeInv
  <1>1. ASSUME Upset, key' \in {key, key + 1}
        PROVE  /\ upsets' \in 0..MaxUpset /\ key' \in 0..MaxUpset
               /\ key' <= upsets'
    BY <1>1, Bounds DEF Upset, TypeOK
  <1>2. CASE ServerRestart
    <2>1. /\ pair' \in [Attempt -> PairRequest \cup {NULL}]
          /\ \A a \in Attempt : pair'[a] = NULL \/ pair'[a] = pair[a]
      BY <1>2 DEF ServerRestart, TypeOK
    <2>2. /\ call' \in [Caller -> CallRequest \cup {NULL}]
          /\ \A k \in Caller : call'[k] = NULL \/ call'[k] = call[k]
      BY <1>2 DEF ServerRestart, TypeOK
    <2>3. /\ guard' \in [fails : Nat, until : Time \cup {NULL}]
          /\ minting' \in [Owner -> 0..MaxTime \cup {NULL}]
      BY <1>2 DEF ServerRestart
    <2>4. TypeOK'
      BY <1>1, <1>2, <2>1, <2>2, <2>3 DEF ServerRestart, clientVars, TypeOK
    <2> QED
      BY <1>1, <1>2, <2>1, <2>2, <2>4 DEF ServerRestart
  <1>3. ASSUME NEW d \in Daemon, DaemonRestart(d) PROVE TypeInv'
    <2>1. /\ pair' \in [Attempt -> PairRequest \cup {NULL}]
          /\ \A a \in Attempt : pair'[a] = NULL \/ pair'[a] = pair[a] \/
               (/\ pair[a] # NULL /\ pair'[a].at = pair[a].at
                /\ pair'[a].code = pair[a].code)
      <3>1. ASSUME NEW r \in PairRequest
            PROVE  /\ [r EXCEPT !.waiting = FALSE] \in PairRequest
                   /\ [r EXCEPT !.waiting = FALSE].at = r.at
                   /\ [r EXCEPT !.waiting = FALSE].code = r.code
        BY DEF PairRequest
      <3>2. \A a \in Attempt : pair[a] # NULL => pair[a] \in PairRequest
        BY DEF TypeOK
      <3> DEFINE kept(a) == [pair[a] EXCEPT !.waiting = FALSE]
                 out(a) == IF pair[a] = NULL \/ pair[a].daemon # d THEN pair[a]
                           ELSE IF pair[a].at \in {"checked", "matched",
                                                   "burned"}
                           THEN kept(a) ELSE NULL
      <3>3. pair' = [a \in Attempt |-> out(a)]
        BY <1>3 DEF DaemonRestart
      <3>4. \A a \in Attempt : pair[a] # NULL =>
              /\ kept(a) \in PairRequest
              /\ kept(a).at = pair[a].at /\ kept(a).code = pair[a].code
        BY <3>1, <3>2
      <3> HIDE DEF kept
      <3> QED
        BY <3>2, <3>3, <3>4
    <2>2. /\ call' \in [Caller -> CallRequest \cup {NULL}]
          /\ \A k \in Caller : call'[k] = NULL \/ call'[k] = call[k]
      BY <1>3 DEF DaemonRestart, TypeOK
    <2>3. base' \in [Daemon -> BOOLEAN]
      BY <1>3, Zenon DEF DaemonRestart, TypeOK
    <2>4. creds' \in [Daemon -> Device \cup {NULL}]
      BY <1>3 DEF DaemonRestart, TypeOK
    <2>5. access' \in [Daemon -> Bearer \cup {NULL}]
      <3>1. AccountBearer \in Bearer
        BY Bounds DEF AccountBearer, Bearer, Time
      <3> QED
        BY <1>3, <3>1 DEF DaemonRestart, TypeOK
    <2>6. upsets' \in 0..MaxUpset /\ key' \in 0..MaxUpset /\ key' <= upsets'
      BY <1>1, <1>3 DEF DaemonRestart, serverVars
    <2>7. TypeOK'
      BY <1>3, <2>1, <2>2, <2>3, <2>4, <2>5, <2>6
         DEF DaemonRestart, serverVars, TypeOK
    <2>8. UNCHANGED <<codes, devices>>
      BY <1>3 DEF DaemonRestart, serverVars
    <2> QED
      BY <2>1, <2>2, <2>6, <2>7, <2>8
  <1> QED
    BY <1>2, <1>3

LEMMA NextType == TypeInv /\ [Next]_vars => TypeInv'
  <1> SUFFICES ASSUME TypeInv, [Next]_vars PROVE TypeInv'
    OBVIOUS
  <1>1. CASE UNCHANGED vars
    BY <1>1 DEF vars, serverVars, clientVars, TypeInv, TypeOK
  <1>2. CASE Next
    BY <1>2, OwnerType, PairType, CallType, RestartType DEF Next
  <1> QED
    BY <1>1, <1>2

\* Every reachable state is well typed: among others, every device row names
\* the code it was made with and every request the daemon that sent it.
THEOREM TypeCorrect == Spec => []TypeOK
  <1>1. TypeInv => TypeOK
    BY DEF TypeInv
  <1> QED
    BY <1>1, InitType, NextType, PTL DEF Spec

-----------------------------------------------------------------------------
\* The steps the invariants below are about.
Decisive ==
    \/ \E o \in Owner : CountCodes(o) \/ InsertCode(o)
    \/ \E a \in Attempt :
         \/ \E d \in Daemon, c \in Code \cup WrongCode : PairCheck(a, d, c)
         \/ PairBurn(a) \/ PairRefuse(a) \/ CreateDevice(a)

\* What every other step leaves alone: codes, the code of a device, and who
\* is redeeming which code.
Quiet ==
    /\ now <= now'
    /\ guard' = guard \/ guard' = [fails |-> 0, until |-> NULL]
    /\ codes' = codes
    /\ \A o \in Owner : minting'[o] = NULL \/ minting'[o] = minting[o]
    /\ \A x \in Device : devices'[x] # NULL =>
         devices[x] # NULL /\ devices'[x].code = devices[x].code
    /\ \A a \in Attempt : pair'[a] # NULL =>
         /\ pair[a] # NULL /\ pair'[a].code = pair[a].code
         /\ pair'[a].at \in {"checked", "matched"}
            => pair[a].at \in {"checked", "matched"}
         /\ pair'[a].at = "burned" => pair[a].at = "burned"

LEMMA QuietSteps ==
  ASSUME TypeInv, [Next]_vars, ~Decisive
  PROVE  Quiet
  <1>1. now \in Nat
    BY Bounds DEF TypeInv, TypeOK
  <1>2. ASSUME now' = now, guard' = guard, codes' = codes,
               minting' = minting, devices' = devices, pair' = pair
        PROVE  Quiet
    BY <1>1, <1>2 DEF Quiet
  <1>3. CASE Tick
    BY <1>1, <1>3 DEF Tick, serverVars, Quiet
  <1>4. CASE Login
    BY <1>2, <1>4 DEF Login
  <1>5. CASE ServerRestart
    BY <1>1, <1>5 DEF ServerRestart, Quiet
  <1>6. ASSUME NEW d \in Daemon, DaemonRestart(d) PROVE Quiet
    <2>1. \A a \in Attempt : pair[a] # NULL => pair[a] \in PairRequest
      BY DEF TypeInv, TypeOK
    <2>2. ASSUME NEW r \in PairRequest
          PROVE  /\ [r EXCEPT !.waiting = FALSE].at = r.at
                 /\ [r EXCEPT !.waiting = FALSE].code = r.code
      BY DEF PairRequest
    <2>3. \A a \in Attempt : pair'[a] = NULL \/ pair'[a] = pair[a] \/
            (/\ pair[a] # NULL
             /\ pair'[a] = [pair[a] EXCEPT !.waiting = FALSE])
      BY <1>6 DEF DaemonRestart
    <2>4. \A a \in Attempt : pair'[a] # NULL =>
            /\ pair[a] # NULL /\ pair'[a].code = pair[a].code
            /\ pair'[a].at = pair[a].at
      BY <2>1, <2>2, <2>3
    <2>5. /\ now' = now /\ guard' = guard /\ codes' = codes
          /\ minting' = minting /\ devices' = devices
      BY <1>6 DEF DaemonRestart, serverVars
    <2> QED
      BY <1>1, <2>4, <2>5 DEF Quiet
  <1>7. ASSUME NEW a \in Attempt,
               PairStep(a) \/ PairAbandon(a) \/ PairLost(a)
        PROVE  Quiet
    <2>1. ~PairBurn(a) /\ ~PairRefuse(a) /\ ~CreateDevice(a)
      BY DEF Decisive
    <2>2. pair[a] \in PairRequest
      BY <1>7, <2>1 DEF PairStep, PairMatch, PairStore, PairMeta, PairCreds,
                   PairToken, PairAbandon, PairLost, TypeInv, TypeOK
    <2>3. \/ /\ pair[a].at = "checked"
             /\ pair' = [pair EXCEPT ![a].at = "matched"]
          \/ pair' = [pair EXCEPT ![a].at = "stored"]
          \/ pair' = [pair EXCEPT ![a].at = "placed"]
          \/ pair' = [pair EXCEPT ![a].at = "known"]
          \/ pair' = [pair EXCEPT ![a].waiting = FALSE]
          \/ pair' = [pair EXCEPT ![a] = NULL]
      BY <1>7, <2>1 DEF PairStep, PairMatch, PairStore, PairMeta, PairCreds,
                        PairToken, PairAbandon, PairLost
    <2>4. \A b \in Attempt : pair'[b] # NULL =>
            /\ pair[b] # NULL /\ pair'[b].code = pair[b].code
            /\ pair'[b].at \in {"checked", "matched"}
               => pair[b].at \in {"checked", "matched"}
            /\ pair'[b].at = "burned" => pair[b].at = "burned"
      BY <2>2, <2>3 DEF TypeInv, TypeOK, PairRequest
    <2>5. /\ now' = now /\ guard' = guard /\ codes' = codes
          /\ minting' = minting /\ devices' = devices
      BY <1>7, <2>1 DEF PairStep, PairMatch, PairStore, PairMeta, PairCreds,
                        PairToken, PairAbandon, PairLost, serverVars
    <2> QED
      BY <1>1, <2>4, <2>5 DEF Quiet
  <1>8. ASSUME NEW k \in Caller, CallServe(k) PROVE Quiet
    <2>1. call[k] \in CallRequest
      BY <1>8 DEF CallServe, TypeInv, TypeOK
    <2>2. call[k].target # NULL => /\ call[k].target \in Device
                                   /\ devices[call[k].target] \in DeviceRow
      BY <1>8, <2>1 DEF TypeInv, TypeOK, CallRequest, CallServe
    <2>3. \A x \in Device : devices'[x] # NULL =>
            devices[x] # NULL /\ devices'[x].code = devices[x].code
      BY <1>8, <2>2 DEF CallServe, TypeInv, TypeOK, DeviceRow
    <2>4. /\ now' = now /\ guard' = guard /\ codes' = codes
          /\ minting' = minting /\ pair' = pair
      BY <1>8 DEF CallServe
    <2> QED
      BY <1>1, <2>3, <2>4 DEF Quiet
  <1>9. ASSUME NEW k \in Caller,
               \/ \E x \in Device \cup {NULL} : CallSend(k[1], k[2], x)
               \/ CallAuth(k) \/ CallEnd(k) \/ RefreshSend(k) \/ Refresh(k)
               \/ RefreshAdopt(k) \/ CallResend(k) \/ CallLost(k)
        PROVE  Quiet
    BY <1>2, <1>9 DEF CallSend, CallAuth, CallEnd, RefreshSend, Refresh,
                      RefreshAdopt, CallResend, CallLost, serverVars
  <1>10. CASE UNCHANGED vars
    BY <1>2, <1>10 DEF vars, serverVars
  <1> QED
    BY <1>3, <1>4, <1>5, <1>6, <1>7, <1>8, <1>9, <1>10
       DEF Next, CallStep, Decisive

-----------------------------------------------------------------------------
\* A burned code is used, has at most one request on its way to a device and
\* none besides the device it made.
BurnInv ==
    /\ \A a \in Attempt : pair[a] # NULL /\ pair[a].at = "burned" =>
         /\ codes[pair[a].code].used
         /\ \A x \in Device : devices[x] # NULL
                              => devices[x].code # pair[a].code
         /\ \A b \in Attempt :
              /\ pair[b] # NULL /\ pair[b].at = "burned"
              /\ pair[b].code = pair[a].code
              => b = a
    /\ \A x \in Device : devices[x] # NULL =>
         codes[devices[x].code] # NULL /\ codes[devices[x].code].used
    /\ OneDevicePerCode

\* Steps that change no code that has a row, and burn none.
LEMMA BurnFrame ==
  ASSUME TypeInv, BurnInv,
         \A c \in Code : codes[c] # NULL => codes'[c] = codes[c],
         \A x \in Device : devices'[x] # NULL =>
             devices[x] # NULL /\ devices'[x].code = devices[x].code,
         \A a \in Attempt : pair'[a] # NULL /\ pair'[a].at = "burned" =>
             /\ pair[a] # NULL /\ pair[a].at = "burned"
             /\ pair'[a].code = pair[a].code
  PROVE  BurnInv'
  <1>1. \A x \in Device : devices[x] # NULL => devices[x].code \in Code
    BY DEF TypeInv, TypeOK, DeviceRow
  <1>2. \A a \in Attempt : pair[a] # NULL /\ pair[a].at = "burned" =>
          pair[a].code \in Code /\ codes[pair[a].code] # NULL
    BY DEF TypeInv
  <1>3. \A a \in Attempt : pair'[a] # NULL /\ pair'[a].at = "burned" =>
          codes'[pair'[a].code].used
    BY <1>2 DEF BurnInv
  <1>4. \A a \in Attempt : pair'[a] # NULL /\ pair'[a].at = "burned" =>
          /\ \A x \in Device : devices'[x] # NULL
                               => devices'[x].code # pair'[a].code
          /\ \A b \in Attempt :
               /\ pair'[b] # NULL /\ pair'[b].at = "burned"
               /\ pair'[b].code = pair'[a].code
               => b = a
    BY DEF BurnInv
  <1>5. \A x \in Device : devices'[x] # NULL =>
          codes'[devices'[x].code] # NULL /\ codes'[devices'[x].code].used
    BY <1>1 DEF BurnInv
  <1>6. OneDevicePerCode'
    BY DEF BurnInv, OneDevicePerCode
  <1> QED
    BY <1>3, <1>4, <1>5, <1>6 DEF BurnInv

LEMMA NextBurn == TypeInv /\ BurnInv /\ [Next]_vars => BurnInv'
  <1> SUFFICES ASSUME TypeInv, BurnInv, [Next]_vars PROVE BurnInv'
    OBVIOUS
  <1>1. CASE ~Decisive
    BY <1>1, QuietSteps, BurnFrame DEF Quiet
  <1>2. ASSUME NEW o \in Owner, CountCodes(o) PROVE BurnInv'
    BY <1>2, BurnFrame DEF CountCodes
  <1>3. ASSUME NEW o \in Owner, InsertCode(o) PROVE BurnInv'
    <2>1. \A c \in Code : codes[c] # NULL => codes'[c] = codes[c]
      BY <1>3, FreshIn DEF InsertCode, FreshCode, TypeInv, TypeOK
    <2> QED
      BY <1>3, <2>1, BurnFrame DEF InsertCode
  <1>4. ASSUME NEW a \in Attempt, NEW d \in Daemon,
               NEW c \in Code \cup WrongCode, PairCheck(a, d, c)
        PROVE  BurnInv'
    <2>1. \A b \in Attempt : pair'[b] # NULL /\ pair'[b].at = "burned" =>
            pair'[b] = pair[b]
      BY <1>4 DEF PairCheck, TypeInv, TypeOK
    <2> QED
      BY <1>4, <2>1, BurnFrame DEF PairCheck, serverVars
  <1>5. ASSUME NEW a \in Attempt, PairRefuse(a) PROVE BurnInv'
    <2>1. \A b \in Attempt : pair'[b] # NULL => pair'[b] = pair[b]
      BY <1>5 DEF PairRefuse, TypeInv, TypeOK
    <2> QED
      BY <1>5, <2>1, BurnFrame DEF PairRefuse
  <1>6. ASSUME NEW a \in Attempt, PairBurn(a) PROVE BurnInv'
    <2> DEFINE c == pair[a].code
    <2>1. c \in Code /\ codes[c] \in CodeRow /\ ~codes[c].used
      BY <1>6 DEF PairBurn, TypeInv, TypeOK
    <2>2. /\ codes'[c] # NULL /\ codes'[c].used
          /\ \A e \in Code : e # c => codes'[e] = codes[e]
      BY <1>6, <2>1 DEF PairBurn, TypeInv, TypeOK, CodeRow
    <2>3. /\ pair'[a].code = c
          /\ \A b \in Attempt : b # a => pair'[b] = pair[b]
      BY <1>6 DEF PairBurn, TypeInv, TypeOK, PairRequest
    <2>4. \A b \in Attempt : pair[b] # NULL /\ pair[b].at = "burned" =>
            pair[b].code # c /\ pair[b].code \in Code
      BY <2>1 DEF BurnInv, TypeInv
    <2>5. \A x \in Device : devices[x] # NULL =>
            devices[x].code # c /\ devices[x].code \in Code
      BY <2>1 DEF BurnInv, TypeInv, TypeOK, DeviceRow
    <2>6. devices' = devices
      BY <1>6 DEF PairBurn
    <2> HIDE DEF c
    <2> QED
      BY <2>2, <2>3, <2>4, <2>5, <2>6 DEF BurnInv, OneDevicePerCode
  <1>7. ASSUME NEW a \in Attempt, CreateDevice(a) PROVE BurnInv'
    <2> DEFINE x == CHOOSE x \in FreshDevice : TRUE
    <2>1. x \in Device /\ devices[x] = NULL
      BY <1>7, FreshIn DEF CreateDevice, FreshDevice
    <2>2. devices' = [devices EXCEPT ![x] = [revoked |-> FALSE,
                                             code |-> pair[a].code]]
      BY <1>7 DEF CreateDevice
    <2>3. pair[a] # NULL /\ pair[a].at = "burned" /\ codes' = codes
      BY <1>7 DEF CreateDevice
    <2>0. pair' = [pair EXCEPT ![a] =
                     [pair[a] EXCEPT !.at = "created", !.dev = x,
                                     !.tok = MintAccess(x)]]
      BY <1>7 DEF CreateDevice, TypeInv, TypeOK
    <2> HIDE DEF x
    <2>4. /\ pair'[a].at = "created"
          /\ \A b \in Attempt : b # a => pair'[b] = pair[b]
      BY <2>0, <2>3 DEF TypeInv, TypeOK, PairRequest
    <2>5. /\ devices'[x].code = pair[a].code
          /\ \A y \in Device : y # x => devices'[y] = devices[y]
      BY <2>1, <2>2 DEF TypeInv, TypeOK
    <2>6. codes[pair[a].code] # NULL /\ codes[pair[a].code].used
      BY <2>3 DEF BurnInv, TypeInv
    <2>7. \A b \in Attempt : pair'[b] # NULL /\ pair'[b].at = "burned" =>
            b # a /\ pair'[b] = pair[b] /\ pair[b].code # pair[a].code
      BY <2>3, <2>4 DEF BurnInv
    <2>8. \A y \in Device : devices[y] # NULL =>
            devices[y].code # pair[a].code
      BY <2>3 DEF BurnInv
    <2>9. OneDevicePerCode'
      BY <2>5, <2>8 DEF BurnInv, OneDevicePerCode
    <2>10. \A y \in Device : devices'[y] # NULL =>
             codes'[devices'[y].code] # NULL /\ codes'[devices'[y].code].used
      BY <2>3, <2>5, <2>6 DEF BurnInv
    <2>11. \A b \in Attempt : pair'[b] # NULL /\ pair'[b].at = "burned" =>
             /\ codes'[pair'[b].code].used
             /\ \A y \in Device : devices'[y] # NULL
                                  => devices'[y].code # pair'[b].code
      BY <2>3, <2>5, <2>7 DEF BurnInv
    <2>12. \A b \in Attempt : pair'[b] # NULL /\ pair'[b].at = "burned" =>
             \A e \in Attempt :
               /\ pair'[e] # NULL /\ pair'[e].at = "burned"
               /\ pair'[e].code = pair'[b].code
               => e = b
      BY <2>7 DEF BurnInv
    <2> QED
      BY <2>9, <2>10, <2>11, <2>12 DEF BurnInv
  <1> QED
    BY <1>1, <1>2, <1>3, <1>4, <1>5, <1>6, <1>7 DEF Decisive

\* However many requests verify a code before one burns it, and whatever
\* times out, dies or restarts on the way, a code makes at most one device
\* (redeem_pairing_code, pair).
THEOREM OneDevicePerCodeHolds == Spec => []OneDevicePerCode
  <1>1. Init => BurnInv
    BY DEF Init, BurnInv, OneDevicePerCode
  <1>2. BurnInv => OneDevicePerCode
    BY DEF BurnInv
  <1> QED
    BY <1>1, <1>2, InitType, NextType, NextBurn, PTL DEF Spec

-----------------------------------------------------------------------------
\* Requests that passed the check and may still fail.
Redeeming == {a \in Attempt : /\ pair[a] # NULL
                              /\ pair[a].at \in {"checked", "matched"}}

\* Below the threshold there is no lock; under a lock nobody passes the check
\* and every failure uses up a request that did.
GuardInv ==
    /\ guard.until = NULL => guard.fails < MaxPairFails
    /\ Locked => guard.fails + Cardinality(Redeeming)
                   <= MaxPairFails - 1 + Cardinality(Attempt)
    /\ LockoutBound

LEMMA RedeemingSize ==
  /\ IsFiniteSet(Redeeming) /\ Cardinality(Redeeming) \in Nat
  /\ Cardinality(Attempt) \in Nat
  /\ Cardinality(Redeeming) <= Cardinality(Attempt)
  BY FS_Subset, FS_CardinalityType DEF Redeeming

\* Steps that leave the guard alone and let nobody in while it is locked.
LEMMA GuardFrame ==
  ASSUME TypeInv, TypeInv', GuardInv, guard' = guard, now <= now',
         Locked => Redeeming' \subseteq Redeeming
  PROVE  GuardInv'
  <1>1. now \in Nat /\ now' \in Nat /\ guard.fails \in Nat
        /\ (guard.until # NULL => guard.until \in Nat)
    BY Bounds DEF TypeInv, TypeOK, Time
  <1>2. Locked' => Locked
    BY <1>1 DEF Locked
  <1>3. Locked => /\ Cardinality(Redeeming') <= Cardinality(Redeeming)
                  /\ Cardinality(Redeeming') \in Nat
    BY RedeemingSize, FS_Subset, FS_CardinalityType
  <1>4. Locked' => guard'.fails + Cardinality(Redeeming')
                     <= MaxPairFails - 1 + Cardinality(Attempt)
    BY <1>1, <1>2, <1>3, RedeemingSize, Bounds DEF GuardInv
  <1>5. LockoutBound'
    BY DEF GuardInv, LockoutBound
  <1>6. guard'.until = NULL => guard'.fails < MaxPairFails
    BY DEF GuardInv
  <1> QED
    BY <1>4, <1>5, <1>6 DEF GuardInv

LEMMA GuardReset ==
  ASSUME guard' = [fails |-> 0, until |-> NULL]
  PROVE  GuardInv'
  <1>1. guard'.fails = 0 /\ guard'.until = NULL /\ ~Locked'
    BY DEF Locked
  <1> QED
    BY <1>1, RedeemingSize, Bounds DEF GuardInv, LockoutBound

LEMMA RefuseGuard ==
  ASSUME TypeInv, GuardInv, NEW a \in Attempt, PairRefuse(a)
  PROVE  GuardInv'
  <1> DEFINE g == IF guard.until # NULL /\ now >= guard.until
                  THEN [fails |-> 0, until |-> NULL] ELSE guard
             R == Cardinality(Redeeming)
             A == Cardinality(Attempt)
  <1>1. /\ guard \in [fails : Nat, until : Time \cup {NULL}]
        /\ now \in Nat /\ Time \subseteq Nat
    BY Bounds DEF TypeInv, TypeOK, Time
  <1>2. a \in Redeeming /\ Redeeming' = Redeeming \ {a}
    BY DEF PairRefuse, Redeeming, TypeInv, TypeOK
  <1>3. /\ Cardinality(Redeeming') = R - 1 /\ R \in Nat /\ A \in Nat
        /\ R <= A /\ R # 0
    <2>1. Cardinality(Redeeming \ {a}) = R - 1
      BY <1>2, RedeemingSize, FS_RemoveElement
    <2>2. Cardinality(Redeeming \ {a}) \in Nat
      BY RedeemingSize, FS_RemoveElement, FS_CardinalityType
    <2> QED
      BY <1>2, <2>1, <2>2, RedeemingSize
  <1>4. guard' = [fails |-> g.fails + 1,
                  until |-> IF g.fails + 1 >= MaxPairFails
                            THEN now + LockTime ELSE g.until]
    BY DEF PairRefuse, RecordFail
  <1>5. \/ g.until = NULL /\ g.fails \in Nat /\ g.fails < MaxPairFails
        \/ Locked /\ g = guard
    <2>1. CASE guard.until # NULL /\ now >= guard.until
      <3>1. g = [fails |-> 0, until |-> NULL]
        BY <2>1
      <3> QED
        BY <3>1, Bounds
    <2>2. CASE guard.until = NULL
      BY <1>1, <2>2 DEF GuardInv
    <2>3. CASE guard.until # NULL /\ ~(now >= guard.until)
      <3>1. guard.until \in Nat
        BY <1>1, <2>3
      <3> QED
        BY <1>1, <2>3, <3>1 DEF Locked
    <2> QED
      BY <2>1, <2>2, <2>3
  <1>6. /\ guard'.fails = g.fails + 1
        /\ guard'.until = IF g.fails + 1 >= MaxPairFails
                          THEN now + LockTime ELSE g.until
    BY <1>4
  <1>7. now + LockTime # NULL
    BY Expiries DEF TypeInv, TypeOK
  <1> HIDE DEF g, R, A
  <1>8. CASE g.until = NULL /\ g.fails \in Nat /\ g.fails < MaxPairFails
    <2>1. /\ guard'.until = NULL => guard'.fails < MaxPairFails
          /\ Locked' => guard'.fails <= MaxPairFails
          /\ guard'.fails <= MaxPairFails /\ guard'.fails \in Nat
      BY <1>6, <1>7, <1>8, Bounds DEF Locked
    <2>2. guard'.fails + (R - 1) <= MaxPairFails - 1 + A
      BY <1>3, <2>1, Bounds
    <2>3. guard'.fails <= MaxPairFails - 1 + A
      BY <1>3, <2>1, Bounds
    <2> QED
      BY <1>3, <2>1, <2>2, <2>3 DEF GuardInv, LockoutBound, A
  <1>9. CASE Locked /\ g = guard
    <2>1. guard.fails \in Nat /\ guard.fails + R <= MaxPairFails - 1 + A
      BY <1>1, <1>9 DEF GuardInv, R, A
    <2>2. guard'.until # NULL
      BY <1>6, <1>7, <1>9 DEF Locked
    <2>3. /\ guard'.fails + (R - 1) <= MaxPairFails - 1 + A
          /\ guard'.fails <= MaxPairFails - 1 + A
      BY <1>3, <1>6, <1>9, <2>1, Bounds
    <2> QED
      BY <1>3, <2>2, <2>3 DEF GuardInv, LockoutBound, A
  <1> QED
    BY <1>5, <1>8, <1>9

LEMMA NextGuard == TypeInv /\ TypeInv' /\ GuardInv /\ [Next]_vars => GuardInv'
  <1> SUFFICES ASSUME TypeInv, TypeInv', GuardInv, [Next]_vars
               PROVE  GuardInv'
    OBVIOUS
  <1>0. now <= now
    BY Bounds DEF TypeInv, TypeOK
  <1>1. CASE ~Decisive
    <2>1. Quiet
      BY <1>1, QuietSteps
    <2>2. Redeeming' \subseteq Redeeming
      BY <2>1 DEF Quiet, Redeeming
    <2> QED
      BY <2>1, <2>2, GuardFrame, GuardReset DEF Quiet
  <1>2. ASSUME NEW o \in Owner, CountCodes(o) \/ InsertCode(o)
        PROVE  GuardInv'
    <2>1. guard' = guard /\ pair' = pair /\ now' = now
      BY <1>2 DEF CountCodes, InsertCode
    <2>2. Redeeming' = Redeeming
      BY <2>1 DEF Redeeming
    <2> QED
      BY <1>0, <2>1, <2>2, GuardFrame
  <1>3. ASSUME NEW a \in Attempt, NEW d \in Daemon,
               NEW c \in Code \cup WrongCode, PairCheck(a, d, c)
        PROVE  GuardInv'
    <2>1. guard' = guard /\ now' = now /\ ~Locked
      BY <1>3 DEF PairCheck, serverVars
    <2> QED
      BY <1>0, <2>1, GuardFrame
  <1>4. ASSUME NEW a \in Attempt, PairBurn(a) PROVE GuardInv'
    BY <1>4, GuardReset DEF PairBurn, RecordSuccess
  <1>5. ASSUME NEW a \in Attempt, PairRefuse(a) PROVE GuardInv'
    BY <1>5, RefuseGuard
  <1>6. ASSUME NEW a \in Attempt, CreateDevice(a) PROVE GuardInv'
    <2>1. guard' = guard /\ now' = now
      BY <1>6 DEF CreateDevice
    <2>2. pair[a] \in PairRequest
      BY <1>6 DEF CreateDevice, TypeInv, TypeOK
    <2> DEFINE x == CHOOSE x \in FreshDevice : TRUE
    <2>3. pair' = [pair EXCEPT ![a] =
            [pair[a] EXCEPT !.at = "created", !.dev = x,
                            !.tok = MintAccess(x)]]
      BY <1>6 DEF CreateDevice, TypeInv, TypeOK
    <2> HIDE DEF x
    <2>4. /\ pair'[a].at = "created"
          /\ \A b \in Attempt : b # a => pair'[b] = pair[b]
      BY <2>2, <2>3 DEF TypeInv, TypeOK, PairRequest
    <2>5. Redeeming' \subseteq Redeeming
      BY <2>4 DEF Redeeming
    <2> QED
      BY <1>0, <2>1, <2>5, GuardFrame
  <1> QED
    BY <1>1, <1>2, <1>3, <1>4, <1>5, <1>6 DEF Decisive

\* Whatever the requests that pass the check together, the failures counted
\* before the lockout holds exceed its threshold by less than their number
\* (PairGuard, pair).
THEOREM LockoutHolds == Spec => []LockoutBound
  <1>1. Init => GuardInv
    <2> SUFFICES ASSUME Init PROVE GuardInv
      OBVIOUS
    <2>1. guard.fails = 0 /\ guard.until = NULL /\ ~Locked
      BY DEF Init, Locked
    <2> QED
      BY <2>1, RedeemingSize, Bounds DEF GuardInv, LockoutBound
  <1>2. GuardInv => LockoutBound
    BY DEF GuardInv
  <1> QED
    BY <1>1, <1>2, InitType, NextType, NextGuard, PTL DEF Spec

-----------------------------------------------------------------------------
\* Codes that can be redeemed now, and requests that are about to add one.
Active == ActiveCodes(now)
Coming == {o \in Owner : minting[o] # NULL /\ minting[o] + CodeTTL > now}

LEMMA CodesSize ==
  /\ IsFiniteSet(Active) /\ Cardinality(Active) \in Nat
  /\ IsFiniteSet(Coming) /\ Cardinality(Coming) \in Nat
  /\ Cardinality(Owner) \in Nat /\ Cardinality(Coming) <= Cardinality(Owner)
  BY FS_Subset, FS_CardinalityType DEF Active, ActiveCodes, Coming

\* Codes that are there or about to be.
Load == Cardinality(Active) + Cardinality(Coming)

LEMMA LoadFrame ==
  ASSUME NEW n \in Nat, Load <= n, Active' \subseteq Active, Coming' \subseteq Coming
  PROVE  Load' <= n
  <1>1. /\ Cardinality(Active') <= Cardinality(Active)
        /\ Cardinality(Coming') <= Cardinality(Coming)
        /\ Cardinality(Active') \in Nat /\ Cardinality(Coming') \in Nat
    BY CodesSize, FS_Subset, FS_CardinalityType
  <1> QED
    BY <1>1, CodesSize DEF Load

\* The load grows only when a request has counted: an insert turns what was
\* about to come into what is there.
LEMMA NextLoad ==
  ASSUME NEW n \in Nat, TypeInv, TypeInv', Load <= n, [Next]_vars,
         \A o \in Owner : CountCodes(o) => Load' <= n
  PROVE  Load' <= n
  <1>0. /\ now \in Nat /\ now' \in Nat
        /\ \A c \in Code : codes[c] # NULL => codes[c].exp \in Nat
        /\ \A o \in Owner : minting[o] # NULL =>
             minting[o] \in 0..MaxTime /\ minting[o] + CodeTTL \in Nat
    BY Bounds DEF TypeInv, TypeOK, Time, CodeRow
  <1>1. CASE ~Decisive
    <2>1. Quiet
      BY <1>1, QuietSteps
    <2>2. Active' \subseteq Active
      BY <1>0, <2>1 DEF Quiet, Active, ActiveCodes
    <2>3. Coming' \subseteq Coming
      BY <1>0, <2>1 DEF Quiet, Coming
    <2> QED
      BY <2>2, <2>3, LoadFrame
  <1>2. ASSUME NEW o \in Owner, CountCodes(o) PROVE Load' <= n
    BY <1>2
  <1>3. ASSUME NEW o \in Owner, InsertCode(o) PROVE Load' <= n
    <2> DEFINE c == CHOOSE c \in FreshCode : TRUE
               row == [exp |-> minting[o] + CodeTTL, used |-> FALSE]
    <2>1. c \in Code /\ codes[c] = NULL
      BY <1>3, FreshIn DEF InsertCode, FreshCode
    <2>2. /\ codes' = [codes EXCEPT ![c] = row]
          /\ minting' = [minting EXCEPT ![o] = NULL] /\ minting[o] # NULL
          /\ now' = now
      BY <1>3 DEF InsertCode
    <2>3. row \in CodeRow /\ row # NULL
      <3>1. minting[o] + CodeTTL \in Time
        BY <1>0, <2>2, Expiries
      <3>2. row \in CodeRow
        BY <3>1 DEF CodeRow
      <3> QED
        BY <3>2
    <2>4. row.exp = minting[o] + CodeTTL /\ ~row.used
      OBVIOUS
    <2> HIDE DEF c, row
    <2>5. Coming' = Coming \ {o}
      BY <2>2 DEF Coming, TypeInv, TypeOK
    <2>6. CASE o \in Coming
      <3>1. Active' = Active \cup {c} /\ c \notin Active
        <4>1. minting[o] + CodeTTL > now
          BY <2>6 DEF Coming
        <4> QED
          BY <2>1, <2>2, <2>3, <2>4, <4>1
             DEF Active, ActiveCodes, TypeInv, TypeOK
      <3>2. /\ Cardinality(Active') = Cardinality(Active) + 1
            /\ Cardinality(Coming') = Cardinality(Coming) - 1
        BY <2>5, <2>6, <3>1, CodesSize, FS_AddElement, FS_RemoveElement
      <3> QED
        BY <3>2, CodesSize DEF Load
    <2>7. CASE o \notin Coming
      <3>1. ~(minting[o] + CodeTTL > now)
        BY <2>2, <2>7 DEF Coming
      <3>2. Active' \subseteq Active
        BY <2>1, <2>2, <2>3, <2>4, <3>1
           DEF Active, ActiveCodes, TypeInv, TypeOK
      <3> QED
        BY <2>5, <3>2, LoadFrame
    <2> QED
      BY <2>6, <2>7
  <1>4. ASSUME NEW a \in Attempt, PairBurn(a) PROVE Load' <= n
    <2>1. pair[a].code \in Code /\ codes[pair[a].code] \in CodeRow
      BY <1>4 DEF PairBurn, TypeInv, TypeOK
    <2>2. /\ codes'[pair[a].code].used
          /\ \A e \in Code : e # pair[a].code => codes'[e] = codes[e]
      BY <1>4, <2>1 DEF PairBurn, TypeInv, TypeOK, CodeRow
    <2>3. now' = now /\ minting' = minting
      BY <1>4 DEF PairBurn
    <2>4. Active' \subseteq Active
      BY <2>2, <2>3 DEF Active, ActiveCodes
    <2>5. Coming' = Coming
      BY <2>3 DEF Coming
    <2> QED
      BY <2>4, <2>5, LoadFrame
  <1>5. ASSUME NEW a \in Attempt,
               \/ \E d \in Daemon, c \in Code \cup WrongCode :
                    PairCheck(a, d, c)
               \/ PairRefuse(a) \/ CreateDevice(a)
        PROVE  Load' <= n
    <2>1. codes' = codes /\ minting' = minting /\ now' = now
      BY <1>5 DEF PairCheck, PairRefuse, CreateDevice, serverVars
    <2>2. Active' = Active /\ Coming' = Coming
      BY <2>1 DEF Active, ActiveCodes, Coming
    <2> QED
      BY <2>2, LoadFrame
  <1> QED
    BY <1>1, <1>2, <1>3, <1>4, <1>5 DEF Decisive

\* A request that counts meets fewer codes than the limit.
LEMMA CountLoad ==
  ASSUME NEW o \in Owner, CountCodes(o)
  PROVE  /\ Active' = Active /\ Cardinality(Active) < MaxActiveCodes
         /\ Load' = Cardinality(Active) + Cardinality(Coming')
         /\ IsFiniteSet(Coming') /\ Cardinality(Coming') \in Nat
         /\ Cardinality(Coming') <= Cardinality(Owner)
  <1>1. Active' = Active /\ Cardinality(Active) < MaxActiveCodes
    BY DEF CountCodes, Active, ActiveCodes
  <1>2. Coming' \subseteq Owner
    BY DEF Coming
  <1> QED
    BY <1>1, <1>2, FS_Subset, FS_CardinalityType DEF Load

LEMMA NextCodes ==
  TypeInv /\ TypeInv' /\ CodesBounded /\ [Next]_vars => CodesBounded'
  <1> SUFFICES ASSUME TypeInv, TypeInv', CodesBounded, [Next]_vars
               PROVE  CodesBounded'
    OBVIOUS
  <1> DEFINE n == MaxActiveCodes - 1 + Cardinality(Owner)
  <1>1. n \in Nat /\ MaxActiveCodes \in Nat /\ Cardinality(Owner) \in Nat
    <2>1. MaxActiveCodes \in Nat /\ 0 < MaxActiveCodes
      BY SMT
    <2> QED
      BY <2>1, CodesSize
  <1>2. Load <= n
    BY DEF CodesBounded, Load, Active, Coming
  <1>3. ASSUME NEW o \in Owner, CountCodes(o) PROVE Load' <= n
    BY <1>1, <1>3, CountLoad, CodesSize
  <1> HIDE DEF n
  <1>4. Load' <= n
    BY <1>1, <1>2, <1>3, NextLoad
  <1> QED
    BY <1>4 DEF n, CodesBounded, Load, Active, Coming

\* However many requests count the active codes before another one inserts
\* its own, the limit is exceeded by less than their number
\* (create_pairing_code).
THEOREM CodesBoundedHolds == Spec => []CodesBounded
  <1>1. Init => CodesBounded
    <2> SUFFICES ASSUME Init PROVE CodesBounded
      OBVIOUS
    <2>1. Active = {} /\ Coming = {}
      BY DEF Init, Active, ActiveCodes, Coming
    <2>2. Cardinality(Active) = 0 /\ Cardinality(Coming) = 0
      BY <2>1, FS_EmptySet
    <2>3. MaxActiveCodes \in Nat /\ 0 < MaxActiveCodes
      BY SMT
    <2>4. Cardinality(Active) + Cardinality(Coming)
            <= MaxActiveCodes - 1 + Cardinality(Owner)
      BY <2>2, <2>3, CodesSize
    <2> QED
      BY <2>4 DEF CodesBounded, Active, Coming
  <1> QED
    BY <1>1, InitType, NextType, NextCodes, PTL DEF Spec

\* At most one request stands between its count and its insert.
OneMinting ==
    \A o, p \in Owner : minting[o] # NULL /\ minting[p] # NULL => o = p

\* The limit on active codes is kept exactly as long as no two requests for a
\* code overlap, whatever codes expire or are redeemed meanwhile: counting and
\* inserting in two statements is the only way it is overrun
\* (create_pairing_code).
THEOREM CodesCappedHolds == Spec /\ []OneMinting => []CodesCapped
  <1> DEFINE Capped == Load <= MaxActiveCodes
  <1>1. Init => Capped
    <2> SUFFICES ASSUME Init PROVE Capped
      OBVIOUS
    <2>1. Active = {} /\ Coming = {}
      BY DEF Init, Active, ActiveCodes, Coming
    <2>2. Cardinality(Active) = 0 /\ Cardinality(Coming) = 0
      BY <2>1, FS_EmptySet
    <2> QED
      BY <2>2, Bounds DEF Load
  <1>2. TypeInv /\ TypeInv' /\ OneMinting' /\ Capped /\ [Next]_vars => Capped'
    <2> SUFFICES ASSUME TypeInv, TypeInv', OneMinting', Capped, [Next]_vars
                 PROVE  Capped'
      OBVIOUS
    <2>1. ASSUME NEW o \in Owner, CountCodes(o) PROVE Load' <= MaxActiveCodes
      <3>1. Coming' \subseteq {o}
        <4>1. minting'[o] = now /\ now # NULL
          BY <2>1, Expiries DEF CountCodes, TypeInv, TypeOK
        <4> QED
          BY <4>1 DEF Coming, OneMinting
      <3>2. Cardinality({o}) = 1 /\ IsFiniteSet({o})
        BY FS_Singleton
      <3>3. Cardinality(Coming') <= 1
        BY <3>1, <3>2, FS_Subset
      <3> QED
        BY <2>1, <3>3, CountLoad, CodesSize, Bounds
    <2> QED
      BY <2>1, NextLoad, Bounds
  <1>3. Capped => CodesCapped
    BY CodesSize, Bounds DEF Load, CodesCapped, Active
  <1> HIDE DEF Capped
  <1> QED
    BY <1>1, <1>2, <1>3, InitType, NextType, PTL DEF Spec

-----------------------------------------------------------------------------
\* A revocation is never taken back, and no id is given to a second device.
LEMMA RevokedKept ==
  ASSUME TypeInv, [Next]_vars, NEW x \in Device, Revoked(x)
  PROVE  Revoked(x)'
  <1>1. ASSUME devices' = devices PROVE Revoked(x)'
    BY <1>1 DEF Revoked
  <1>2. ASSUME NEW o \in Owner, CountCodes(o) \/ InsertCode(o) PROVE Revoked(x)'
    BY <1>1, <1>2 DEF CountCodes, InsertCode
  <1>3. ASSUME NEW a \in Attempt, CreateDevice(a) PROVE Revoked(x)'
    BY <1>3, FreshIn DEF CreateDevice, FreshDevice, Revoked, TypeInv, TypeOK
  <1>4. ASSUME NEW a \in Attempt,
               \/ \E d \in Daemon, c \in Code \cup WrongCode : PairCheck(a, d, c)
               \/ PairMatch(a) \/ PairBurn(a) \/ PairRefuse(a) \/ PairStore(a)
               \/ PairMeta(a) \/ PairCreds(a) \/ PairToken(a) \/ PairAbandon(a)
               \/ PairLost(a)
        PROVE  Revoked(x)'
    BY <1>1, <1>4 DEF PairCheck, PairMatch, PairBurn, PairRefuse, PairStore,
       PairMeta, PairCreds, PairToken, PairAbandon, PairLost, serverVars
  <1>5. ASSUME NEW k \in Caller, CallServe(k) PROVE Revoked(x)'
    <2>1. call[k].target # NULL => /\ call[k].target \in Device
                                   /\ devices[call[k].target] \in DeviceRow
      BY <1>5 DEF CallServe, TypeInv, TypeOK, CallRequest
    <2> QED
      BY <1>5, <2>1 DEF CallServe, Revoked, TypeInv, TypeOK, DeviceRow
  <1>6. ASSUME NEW k \in Caller,
               \/ \E y \in Device \cup {NULL} : CallSend(k[1], k[2], y)
               \/ CallAuth(k) \/ CallEnd(k) \/ RefreshSend(k) \/ Refresh(k)
               \/ RefreshAdopt(k) \/ CallResend(k) \/ CallLost(k)
        PROVE  Revoked(x)'
    BY <1>1, <1>6 DEF CallSend, CallAuth, CallEnd, RefreshSend, Refresh,
       RefreshAdopt, CallResend, CallLost, serverVars
  <1>7. CASE Tick \/ Login \/ ServerRestart \/ \E d \in Daemon : DaemonRestart(d)
    BY <1>1, <1>7 DEF Tick, Login, ServerRestart, DaemonRestart, serverVars
  <1>8. CASE UNCHANGED vars
    BY <1>1, <1>8 DEF vars, serverVars
  <1> QED
    BY <1>2, <1>3, <1>4, <1>5, <1>6, <1>7, <1>8 DEF Next, PairStep, CallStep

\* A call that starts to act was let in by the extractor in that very step.
LEMMA NotLetIn ==
  ASSUME TypeInv, [Next]_vars, NEW x \in Device, Revoked(x), ~Acting(x),
         NEW k \in Caller, call'[k] # NULL, call'[k].at \in {"authed", "served"}
  PROVE  call'[k].tok.dev # x
  <1>1. ASSUME call'[k] = call[k] PROVE call'[k].tok.dev # x
    BY <1>1 DEF Acting
  <1>2. ASSUME NEW j \in Caller,
               \/ \E y \in Device \cup {NULL} : CallSend(j[1], j[2], y)
               \/ CallStep(j) \/ CallLost(j)
        PROVE  call'[k].tok.dev # x
    <2>0. /\ call \in [Caller -> CallRequest \cup {NULL}] /\ j = <<j[1], j[2]>>
          /\ call[j] # NULL => call[j] \in CallRequest
      BY DEF TypeInv, TypeOK, Caller
    <2>1. CASE j # k
      BY <1>1, <1>2, <2>0, <2>1 DEF CallSend, CallStep, CallAuth, CallServe, CallEnd,
         RefreshSend, Refresh, RefreshAdopt, CallResend, CallLost
    <2>2. CASE j = k
      <3>1. CASE CallAuth(k)
        <4>1. /\ call[k] \in CallRequest
              /\ call'[k] = [call[k] EXCEPT !.at = IF Authed(call[k].tok)
                                                   THEN "authed" ELSE "refused"]
          BY <2>0, <2>2, <3>1 DEF CallAuth
        <4>2. call'[k].tok = call[k].tok /\ Authed(call[k].tok)
          BY <4>1 DEF CallRequest
        <4> QED
          BY <4>2 DEF Authed, DeviceActive, Revoked
      <3>2. CASE CallServe(k)
        <4>1. /\ call[k] \in CallRequest /\ call[k].at = "authed"
              /\ call'[k] = [call[k] EXCEPT !.at = "served"]
          BY <2>0, <2>2, <3>2 DEF CallServe
        <4>2. call'[k].tok = call[k].tok
          BY <4>1 DEF CallRequest
        <4> QED
          BY <4>1, <4>2 DEF Acting
      <3>3. ASSUME NEW y \in Device \cup {NULL}, CallSend(k[1], k[2], y)
            PROVE  FALSE
        <4>1. call'[k].at = "sent"
          BY <2>0, <2>2, <3>3 DEF CallSend
        <4> QED
          BY <4>1
      <3>4. CASE RefreshSend(k) \/ Refresh(k) \/ RefreshAdopt(k) \/ CallResend(k)
        <4>1. call[k] \in CallRequest
          BY <2>0, <2>2, <3>4 DEF RefreshSend, Refresh, RefreshAdopt, CallResend
        <4>2. CASE RefreshSend(k)
          <5> DEFINE r == [call[k] EXCEPT !.at = "refreshing", !.cred = creds[k[1]]]
                     q == [call[k] EXCEPT !.at = "rejected"]
          <5>1. r.at = "refreshing" /\ q.at = "rejected"
            BY <4>1 DEF CallRequest
          <5>2. call'[k] = r \/ call'[k] = q
            BY <2>0, <4>2 DEF RefreshSend
          <5> HIDE DEF r, q
          <5> QED
            BY <5>1, <5>2
        <4>3. CASE Refresh(k)
          <5> DEFINE r == [call[k] EXCEPT !.at = "minted",
                                          !.tok = MintAccess(call[k].cred)]
                     q == [call[k] EXCEPT !.at = "rejected"]
          <5>1. r.at = "minted" /\ q.at = "rejected"
            BY <4>1 DEF CallRequest
          <5>2. call'[k] = r \/ call'[k] = q
            BY <2>0, <4>3 DEF Refresh
          <5> HIDE DEF r, q
          <5> QED
            BY <5>1, <5>2
        <4>4. CASE RefreshAdopt(k)
          <5>1. call'[k] = [call[k] EXCEPT !.at = "refreshed"]
            BY <2>0, <4>4 DEF RefreshAdopt
          <5>2. call'[k].at = "refreshed"
            BY <4>1, <5>1 DEF CallRequest
          <5> QED
            BY <5>2
        <4>5. CASE CallResend(k)
          <5>1. call'[k] = [call[k] EXCEPT !.at = "sent", !.try = 2,
                                           !.tok = access[k[1]]]
            BY <2>0, <4>5 DEF CallResend
          <5>2. call'[k].at = "sent"
            BY <4>1, <5>1 DEF CallRequest
          <5> QED
            BY <5>2
        <4> QED
          BY <3>4, <4>2, <4>3, <4>4, <4>5
      <3>5. CASE CallEnd(k) \/ CallLost(k)
        BY <2>0, <2>2, <3>5 DEF CallEnd, CallLost
      <3> QED
        BY <1>2, <2>2, <3>1, <3>2, <3>3, <3>4, <3>5 DEF CallStep
    <2> QED
      BY <2>1, <2>2
  <1>3. CASE \E o \in Owner : CountCodes(o) \/ InsertCode(o)
    BY <1>1, <1>3 DEF CountCodes, InsertCode
  <1>4. ASSUME NEW a \in Attempt,
               \/ \E d \in Daemon, c \in Code \cup WrongCode : PairCheck(a, d, c)
               \/ PairStep(a) \/ PairAbandon(a) \/ PairLost(a)
        PROVE  call'[k].tok.dev # x
    BY <1>1, <1>4 DEF PairStep, PairCheck, PairMatch, PairBurn, PairRefuse,
       CreateDevice, PairStore, PairMeta, PairCreds, PairToken, PairAbandon, PairLost
  <1>5. CASE Tick \/ Login \/ ServerRestart \/ \E d \in Daemon : DaemonRestart(d)
    BY <1>1, <1>5 DEF Tick, Login, ServerRestart, DaemonRestart
  <1>6. CASE UNCHANGED vars
    BY <1>1, <1>6 DEF vars
  <1> QED
    BY <1>2, <1>3, <1>4, <1>5, <1>6 DEF Next

\* Once the calls that were let in before a revocation have ended, the server
\* never acts for the device again: neither a token it still holds, nor one a
\* refresh handed out before the revocation, nor another pairing or restart
\* lets it in (Authed, refresh, pair).  RevokedShutOut adds that they do end.
THEOREM RevokedStayOut ==
  Spec => \A x \in Device : [](Revoked(x) /\ ~Acting(x) => []~Acting(x))
  <1> SUFFICES ASSUME NEW x \in Device
               PROVE  Spec => [](Revoked(x) /\ ~Acting(x) => []~Acting(x))
    OBVIOUS
  <1> DEFINE Out == Revoked(x) /\ ~Acting(x)
             In == Acting(x)
  <1>1. TypeInv /\ Out /\ [Next]_vars => Out'
    <2> SUFFICES ASSUME TypeInv, Out, [Next]_vars PROVE Out'
      OBVIOUS
    <2>1. Revoked(x)'
      BY RevokedKept
    <2>2. ~Acting(x)'
      BY NotLetIn DEF Acting
    <2> QED
      BY <2>1, <2>2
  <1>2. Out => ~In
    OBVIOUS
  <1>3. Spec => [](Out => []~In)
    <2> HIDE DEF Out, In
    <2> QED
      BY <1>1, <1>2, InitType, NextType, PTL DEF Spec
  <1> QED
    BY <1>3

=============================================================================
