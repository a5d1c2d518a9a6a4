--------------------------------- MODULE Push ---------------------------------
(***************************************************************************)
(* How a stored version becomes a notice on the WebSocket of every other   *)
(* device of the account: the presence map (hub.rs), the per-socket loop   *)
(* (server ws.rs), revocation, and the daemon's reconnecting client.       *)
(*                                                                         *)
(* The channel of a socket is unbounded and in order, so it is abstracted  *)
(* to the set of versions pushed into it.  A socket slot is used again by  *)
(* a later connection once both sides have let go of it.                   *)
(***************************************************************************)
EXTENDS FiniteSets

CONSTANTS
    Device,
    Socket,         \* connection slots
    SocketDevice,   \* the device that connects through each slot
    Version,
    NULL

ASSUME SocketAssumption == SocketDevice \in [Socket -> Device]
ASSUME PushNullAssumption == NULL \notin Socket \cup Device

VARIABLES
    revoked,    \* devices.revoked
    dropping,   \* delete_device requests between revoke_device and drop_device
    author,     \* versions rows: version -> the device that stored it
    unsent,     \* stored, not yet broadcast by their handler
    hub,        \* Hub.inner: device -> socket registered for it, or NULL
    sock,       \* the server's handle_socket tasks
    sent,       \* sent[s]: versions pushed into the channel of s
    attached    \* attached[d]: the socket the daemon of d holds, or NULL

vars == <<revoked, dropping, author, unsent, hub, sock, sent, attached>>

\* The socket loop waits: before the Hello, or after it with the missed versions
\* replayed ("ready") or not, their query having failed ("silent").
Looping == {"open", "ready", "silent"}

SockPc == {"free", "upgrade", "checked", "replay"} \cup Looping

TypeOK ==
    /\ revoked \subseteq Device
    /\ dropping \subseteq revoked
    /\ DOMAIN author \subseteq Version /\ author \in [DOMAIN author -> Device]
    /\ unsent \subseteq DOMAIN author
    /\ hub \in [Device -> Socket \cup {NULL}]
    /\ sock \in [Socket -> SockPc]
    /\ sent \in [Socket -> SUBSET Version]
    /\ attached \in [Device -> Socket \cup {NULL}]

Init ==
    /\ revoked = {}
    /\ dropping = {}
    /\ author = [v \in {} |-> NULL]
    /\ unsent = {}
    /\ hub = [d \in Device |-> NULL]
    /\ sock = [s \in Socket |-> "free"]
    /\ sent = [s \in Socket |-> {}]
    /\ attached = [d \in Device |-> NULL]

-----------------------------------------------------------------------------
\* create_version commits; its broadcast is a later step of the handler.
Commit(v, d) ==
    /\ v \notin DOMAIN author
    /\ author' = [u \in DOMAIN author \cup {v} |-> IF u = v THEN d ELSE author[u]]
    /\ unsent' = unsent \cup {v}
    /\ UNCHANGED <<revoked, dropping, hub, sock, sent, attached>>

\* broadcast_except the author for a fast-forward, broadcast_account for a
\* branch: one pass over the map under its mutex.
Broadcast(v, to) ==
    /\ v \in unsent
    /\ to \in {Device, Device \ {author[v]}}
    /\ sent' = [s \in Socket |->
                   IF \E d \in to : hub[d] = s THEN sent[s] \cup {v} ELSE sent[s]]
    /\ unsent' = unsent \ {v}
    /\ UNCHANGED <<revoked, dropping, author, hub, sock, attached>>

\* Faulty variant: the row is not updated before the hub forgets the device.
RevokeUnwritten(d) ==
    /\ d \notin revoked
    /\ dropping' = dropping \cup {d}
    /\ UNCHANGED <<revoked, author, unsent, hub, sock, sent, attached>>

\* revoke_device, then Hub::drop_device.
Revoke(d) ==
    /\ d \notin revoked
    /\ revoked' = revoked \cup {d}
    /\ dropping' = dropping \cup {d}
    /\ UNCHANGED <<author, unsent, hub, sock, sent, attached>>

DropDevice(d) ==
    /\ d \in dropping
    /\ dropping' = dropping \ {d}
    /\ hub' = [hub EXCEPT ![d] = NULL]
    /\ UNCHANGED <<revoked, author, unsent, sock, sent, attached>>

-----------------------------------------------------------------------------
(***************************************************************************)
(* A connection: connect_async, the Authed upgrade, handle_socket.         *)
(***************************************************************************)
Connect(s) ==
    LET d == SocketDevice[s]
    IN  /\ attached[d] = NULL
        /\ sock[s] = "free"
        /\ d \notin revoked
        /\ attached' = [attached EXCEPT ![d] = s]
        /\ sock' = [sock EXCEPT ![s] = "upgrade"]
        /\ UNCHANGED <<revoked, dropping, author, unsent, hub, sent>>

\* handle_socket starts: a fresh channel, registered before the Hello.
Accept(s) ==
    /\ sock[s] = "upgrade"
    /\ hub' = [hub EXCEPT ![SocketDevice[s]] = s]
    /\ sent' = [sent EXCEPT ![s] = {}]
    /\ sock' = [sock EXCEPT ![s] = "open"]
    /\ UNCHANGED <<revoked, dropping, author, unsent, attached>>

\* The socket loop ends and deregisters, by device, whatever is registered.
Close(s) ==
    /\ hub' = [hub EXCEPT ![SocketDevice[s]] = NULL]
    /\ sock' = [sock EXCEPT ![s] = "free"]
    /\ UNCHANGED <<revoked, dropping, author, unsent, sent, attached>>

\* Hello, in three steps: device_active, register, versions_since and replay.
\* The daemon sends an empty last_seq, so every version is replayed.
HelloCheck(s) ==
    /\ sock[s] = "open"
    /\ attached[SocketDevice[s]] = s
    /\ SocketDevice[s] \notin revoked
    /\ sock' = [sock EXCEPT ![s] = "checked"]
    /\ UNCHANGED <<revoked, dropping, author, unsent, hub, sent, attached>>

HelloRefused(s) ==
    /\ sock[s] = "open"
    /\ SocketDevice[s] \in revoked
    /\ Close(s)

HelloRegister(s) ==
    /\ sock[s] = "checked"
    /\ hub' = [hub EXCEPT ![SocketDevice[s]] = s]
    /\ sock' = [sock EXCEPT ![s] = "replay"]
    /\ UNCHANGED <<revoked, dropping, author, unsent, sent, attached>>

\* Faulty variant: nothing is replayed.
HelloReplayNone(s) ==
    /\ sock[s] = "replay"
    /\ sock' = [sock EXCEPT ![s] = "ready"]
    /\ UNCHANGED <<revoked, dropping, author, unsent, hub, sent, attached>>

HelloReplay(s) ==
    /\ sock[s] = "replay"
    /\ sent' = [sent EXCEPT ![s] = @ \cup DOMAIN author]
    /\ sock' = [sock EXCEPT ![s] = "ready"]
    /\ UNCHANGED <<revoked, dropping, author, unsent, hub, attached>>

\* versions_since fails: the error is ignored and nothing is replayed.
HelloReplayFails(s) ==
    /\ sock[s] = "replay"
    /\ sock' = [sock EXCEPT ![s] = "silent"]
    /\ UNCHANGED <<revoked, dropping, author, unsent, hub, sent, attached>>

\* Faulty variant: the heartbeat only pings.
HeartbeatPings(s) ==
    /\ sock[s] \in Looping
    /\ SocketDevice[s] \in revoked
    /\ UNCHANGED vars

\* The heartbeat finds the device revoked.
Heartbeat(s) ==
    /\ sock[s] \in Looping
    /\ SocketDevice[s] \in revoked
    /\ Close(s)

\* The daemon loses its connection (run_ws_client will reconnect) ...
Detach(d) ==
    /\ attached[d] # NULL
    /\ attached' = [attached EXCEPT ![d] = NULL]
    /\ UNCHANGED <<revoked, dropping, author, unsent, hub, sock, sent>>

\* ... and the server finds out some time later, on a read, a send or a ping.
NoticeGone(s) ==
    /\ sock[s] \in Looping
    /\ attached[SocketDevice[s]] # s
    /\ Close(s)

\* device_active or a send fails for a device in good standing.
SocketFails(s) ==
    /\ sock[s] \in Looping
    /\ SocketDevice[s] \notin revoked
    /\ attached[SocketDevice[s]] = s
    /\ Close(s)

\* The server restarts: presence, channels and running handlers are gone.
Restart ==
    /\ sock' = [s \in Socket |-> "free"]
    /\ hub' = [d \in Device |-> NULL]
    /\ attached' = [d \in Device |-> NULL]
    /\ unsent' = {}
    /\ dropping' = {}
    /\ UNCHANGED <<revoked, author, sent>>

SocketStep(s) ==
    \/ Accept(s) \/ HelloCheck(s) \/ HelloRefused(s) \/ HelloRegister(s)
    \/ HelloReplay(s) \/ NoticeGone(s)

Next ==
    \/ \E v \in Version, d \in Device : Commit(v, d)
    \/ \E v \in Version, to \in SUBSET Device : Broadcast(v, to)
    \/ \E d \in Device : Revoke(d) \/ DropDevice(d) \/ Detach(d)
    \/ \E s \in Socket : Connect(s) \/ SocketStep(s) \/ Heartbeat(s)
    \/ \E s \in Socket : HelloReplayFails(s) \/ SocketFails(s)
    \/ Restart

Spec == Init /\ [][Next]_vars

\* Tasks of the server run on, and the heartbeat ticks every 30 s.
FairSpec ==
    /\ Spec
    /\ \A s \in Socket : WF_vars(SocketStep(s)) /\ WF_vars(Heartbeat(s))
    /\ \A d \in Device : WF_vars(DropDevice(d))

-----------------------------------------------------------------------------
(***************************************************************************)
(* Properties                                                              *)
(***************************************************************************)

\* Versions that device d should hear of from others.
Foreign(d) == {v \in DOMAIN author \ unsent : author[v] # d}

\* A socket that has been answered with the missed versions and is registered
\* has every foreign version in its channel, whichever way the commit, the
\* broadcast, the registration and the replay interleaved; a socket whose replay
\* could not be read is not one of them (ws.rs:31, 75-82).
RegisteredMissesNothing ==
    \A s \in Socket :
        LET d == SocketDevice[s]
        IN  sock[s] = "ready" /\ hub[d] = s => Foreign(d) \subseteq sent[s]

\* The same for the socket the device actually holds: a push that races the
\* connection is not lost (ws.rs:31).
\* Does not hold: README, "Disagreements without a run".
ConnectedMissesNothing ==
    \A d \in Device \ revoked :
        attached[d] # NULL /\ sock[attached[d]] = "ready" =>
            Foreign(d) \subseteq sent[attached[d]]

\* d has no registration and no socket that could get one.
Gone(d) ==
    hub[d] = NULL /\ \A s \in Socket : SocketDevice[s] = d => sock[s] = "free"

\* A revoked device is off the hub for good within a heartbeat, although an
\* upgrade or a Hello checked before the revocation may register it again
\* (hub.rs:76-79, ws.rs:50-55).
RevokedLeaves == \A d \in Device : d \in revoked ~> []Gone(d)
=============================================================================
