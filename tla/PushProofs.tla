----------------------------- MODULE PushProofs -----------------------------
(***************************************************************************)
(* Theorems about Push for any number of devices, sockets and versions.    *)
(***************************************************************************)
EXTENDS Push, TLAPS

USE SocketAssumption, PushNullAssumption

LEMMA InitType == Init => TypeOK
  <1> SUFFICES ASSUME Init PROVE TypeOK
    OBVIOUS
  <1>1. DOMAIN author = {} /\ author \in [DOMAIN author -> Device]
    BY DEF Init
  <1> QED
    BY <1>1 DEF Init, TypeOK, SockPc, Looping

LEMMA NextType == TypeOK /\ [Next]_vars => TypeOK'
  <1> SUFFICES ASSUME TypeOK, [Next]_vars PROVE TypeOK'
    OBVIOUS
  <1> USE DEF TypeOK, SockPc, Looping
  <1>1. ASSUME NEW v \in Version, NEW d \in Device, Commit(v, d) PROVE TypeOK'
    <2>1. /\ DOMAIN author' = DOMAIN author \cup {v}
          /\ author' \in [DOMAIN author' -> Device]
      BY <1>1 DEF Commit
    <2> QED
      BY <1>1, <2>1 DEF Commit
  <1>2. ASSUME NEW v \in Version, NEW to \in SUBSET Device, Broadcast(v, to)
        PROVE  TypeOK'
    BY <1>2 DEF Broadcast
  <1>3. ASSUME NEW d \in Device, Revoke(d) PROVE TypeOK'
    BY <1>3 DEF Revoke
  <1>4. ASSUME NEW d \in Device, DropDevice(d) PROVE TypeOK'
    BY <1>4 DEF DropDevice
  <1>5. ASSUME NEW d \in Device, Detach(d) PROVE TypeOK'
    BY <1>5 DEF Detach
  <1>6. ASSUME NEW s \in Socket, Connect(s) PROVE TypeOK'
    BY <1>6 DEF Connect
  <1>7. ASSUME NEW s \in Socket, Accept(s) PROVE TypeOK'
    BY <1>7 DEF Accept
  <1>8. ASSUME NEW s \in Socket, HelloCheck(s) PROVE TypeOK'
    BY <1>8 DEF HelloCheck
  <1>9. ASSUME NEW s \in Socket, HelloRegister(s) PROVE TypeOK'
    BY <1>9 DEF HelloRegister
  <1>10. ASSUME NEW s \in Socket, HelloReplay(s) \/ HelloReplayFails(s)
         PROVE  TypeOK'
    BY <1>10 DEF HelloReplay, HelloReplayFails
  <1>11. ASSUME NEW s \in Socket, Close(s) PROVE TypeOK'
    BY <1>11 DEF Close
  <1>12. CASE Restart
    BY <1>12 DEF Restart
  <1>13. CASE UNCHANGED vars
    BY <1>13 DEF vars
  <1> QED
    BY <1>1, <1>2, <1>3, <1>4, <1>5, <1>6, <1>7, <1>8, <1>9, <1>10, <1>11,
       <1>12, <1>13
       DEF Next, SocketStep, HelloRefused, NoticeGone, Heartbeat, SocketFails

\* Every reachable state is well typed: among others, only stored versions
\* await their broadcast and only revoked devices are being dropped.
THEOREM TypeCorrect == Spec => []TypeOK
  BY InitType, NextType, PTL DEF Spec

-----------------------------------------------------------------------------
\* Steps after which no socket is newly answered or newly registered, and no
\* version newly counts as sent out.
LEMMA MissFrame ==
  ASSUME RegisteredMissesNothing,
         \A s \in Socket :
             sock'[s] = "ready" /\ hub'[SocketDevice[s]] = s =>
               sock[s] = "ready" /\ hub[SocketDevice[s]] = s,
         \A s \in Socket : sock'[s] = "ready" => sent'[s] = sent[s],
         author' = author, unsent' = unsent
  PROVE  RegisteredMissesNothing'
  BY DEF RegisteredMissesNothing, Foreign

LEMMA NextMiss ==
  TypeOK /\ RegisteredMissesNothing /\ [Next]_vars => RegisteredMissesNothing'
  <1> SUFFICES ASSUME TypeOK, RegisteredMissesNothing, [Next]_vars
               PROVE  RegisteredMissesNothing'
    OBVIOUS
  <1> USE DEF TypeOK
  <1>1. ASSUME NEW v \in Version, NEW d \in Device, Commit(v, d)
        PROVE  RegisteredMissesNothing'
    <2>1. \A e \in Device : Foreign(e)' = Foreign(e)
      BY <1>1 DEF Commit, Foreign
    <2> QED
      BY <1>1, <2>1 DEF Commit, RegisteredMissesNothing
  <1>2. ASSUME NEW v \in Version, NEW to \in SUBSET Device, Broadcast(v, to)
        PROVE  RegisteredMissesNothing'
    <2> SUFFICES ASSUME NEW s \in Socket, sock'[s] = "ready",
                        hub'[SocketDevice[s]] = s
                 PROVE  Foreign(SocketDevice[s])' \subseteq sent'[s]
      BY DEF RegisteredMissesNothing
    <2> DEFINE d == SocketDevice[s]
    <2>1. /\ Foreign(d) \subseteq sent[s] /\ sent[s] \subseteq sent'[s]
          /\ d \in Device
      BY <1>2 DEF Broadcast, RegisteredMissesNothing
    <2>2. Foreign(d)' \subseteq Foreign(d) \cup ({v} \cap Foreign(d)')
      BY <1>2 DEF Broadcast, Foreign
    <2>3. v \in Foreign(d)' => v \in sent'[s]
      <3>1. v \in Foreign(d)' => d \in to
        BY <1>2, <2>1 DEF Broadcast, Foreign
      <3>2. d \in to => v \in sent'[s]
        BY <1>2 DEF Broadcast
      <3> QED
        BY <3>1, <3>2
    <2> QED
      BY <2>1, <2>2, <2>3
  <1>3. ASSUME NEW d \in Device, Revoke(d) \/ Detach(d)
        PROVE  RegisteredMissesNothing'
    BY <1>3, MissFrame DEF Revoke, Detach
  <1>4. ASSUME NEW d \in Device, DropDevice(d) PROVE RegisteredMissesNothing'
    BY <1>4, MissFrame DEF DropDevice
  <1>5. ASSUME NEW s \in Socket, Connect(s) PROVE RegisteredMissesNothing'
    BY <1>5, MissFrame DEF Connect
  <1>6. ASSUME NEW s \in Socket, Accept(s) PROVE RegisteredMissesNothing'
    BY <1>6, MissFrame DEF Accept
  <1>7. ASSUME NEW s \in Socket, HelloCheck(s) PROVE RegisteredMissesNothing'
    BY <1>7, MissFrame DEF HelloCheck
  <1>8. ASSUME NEW s \in Socket, HelloRegister(s)
        PROVE  RegisteredMissesNothing'
    BY <1>8, MissFrame DEF HelloRegister
  <1>9. ASSUME NEW s \in Socket, HelloReplay(s) PROVE RegisteredMissesNothing'
    <2>1. /\ DOMAIN author \subseteq sent'[s]
          /\ \A e \in Socket : e # s => /\ sock'[e] = sock[e]
                                        /\ sent'[e] = sent[e]
      BY <1>9 DEF HelloReplay
    <2>2. \A d \in Device : /\ Foreign(d)' = Foreign(d)
                            /\ Foreign(d) \subseteq DOMAIN author
      BY <1>9 DEF HelloReplay, Foreign
    <2> QED
      BY <1>9, <2>1, <2>2 DEF HelloReplay, RegisteredMissesNothing
  <1>10. ASSUME NEW s \in Socket, Close(s) PROVE RegisteredMissesNothing'
    BY <1>10, MissFrame DEF Close
  <1>11. CASE Restart
    BY <1>11 DEF Restart, RegisteredMissesNothing
  <1>12. CASE UNCHANGED vars
    BY <1>12, MissFrame DEF vars
  <1>13. ASSUME NEW s \in Socket, HelloReplayFails(s)
         PROVE  RegisteredMissesNothing'
    BY <1>13, MissFrame DEF HelloReplayFails
  <1> QED
    BY <1>1, <1>2, <1>3, <1>4, <1>5, <1>6, <1>7, <1>8, <1>9, <1>10, <1>11,
       <1>12, <1>13
       DEF Next, SocketStep, HelloRefused, NoticeGone, Heartbeat, SocketFails

\* However commits, broadcasts, registrations, replays, revocations and
\* restarts interleave, a registered socket whose missed versions could be read
\* has been sent every foreign version (handle_socket, Hub).
THEOREM RegisteredMissesNothingHolds == Spec => []RegisteredMissesNothing
  <1>1. Init => RegisteredMissesNothing
    BY DEF Init, RegisteredMissesNothing
  <1> QED
    BY <1>1, InitType, NextType, NextMiss, PTL DEF Spec

-----------------------------------------------------------------------------
(***************************************************************************)
(* What the connected device misses                                        *)
(***************************************************************************)
\* At most one socket loop of a device is running: the loop of a connection
\* has ended before the device's next one starts.
OneLoop ==
    \A s, t \in Socket :
        (/\ SocketDevice[s] = SocketDevice[t]
         /\ sock[s] # "free" /\ sock[t] # "free") => s = t

\* A running loop of a device in good standing is the one the hub has.
LoopRegistered ==
    \A s \in Socket :
        sock[s] \notin {"free", "upgrade"} /\ SocketDevice[s] \notin revoked
        => hub[SocketDevice[s]] = s

OwnSocket == \A d \in Device : attached[d] # NULL => SocketDevice[attached[d]] = d

ReachInv == LoopRegistered /\ OwnSocket

LEMMA NextReach == TypeOK /\ OneLoop /\ ReachInv /\ [Next]_vars => ReachInv'
  <1> SUFFICES ASSUME TypeOK, OneLoop, ReachInv, [Next]_vars PROVE ReachInv'
    OBVIOUS
  <1> USE DEF TypeOK, ReachInv, LoopRegistered, OwnSocket
  <1>1. ASSUME NEW v \in Version, NEW d \in Device, Commit(v, d) PROVE ReachInv'
    BY <1>1 DEF Commit
  <1>2. ASSUME NEW v \in Version, NEW to \in SUBSET Device, Broadcast(v, to)
        PROVE  ReachInv'
    BY <1>2 DEF Broadcast
  <1>3. ASSUME NEW d \in Device, Revoke(d) PROVE ReachInv'
    BY <1>3 DEF Revoke
  <1>4. ASSUME NEW d \in Device, DropDevice(d) PROVE ReachInv'
    BY <1>4 DEF DropDevice
  <1>5. ASSUME NEW d \in Device, Detach(d) PROVE ReachInv'
    BY <1>5 DEF Detach
  <1>6. ASSUME NEW s \in Socket, Connect(s) PROVE ReachInv'
    BY <1>6 DEF Connect
  <1>7. ASSUME NEW s \in Socket, Accept(s) PROVE ReachInv'
    BY <1>7 DEF Accept, OneLoop
  <1>8. ASSUME NEW s \in Socket,
               HelloCheck(s) \/ HelloReplay(s) \/ HelloReplayFails(s)
        PROVE  ReachInv'
    BY <1>8 DEF HelloCheck, HelloReplay, HelloReplayFails
  <1>9. ASSUME NEW s \in Socket, HelloRegister(s) PROVE ReachInv'
    BY <1>9 DEF HelloRegister, OneLoop
  <1>10. ASSUME NEW s \in Socket, sock[s] # "free", Close(s) PROVE ReachInv'
    BY <1>10 DEF Close, OneLoop
  <1>11. CASE Restart
    BY <1>11 DEF Restart
  <1>12. CASE UNCHANGED vars
    BY <1>12 DEF vars
  <1> QED
    BY <1>1, <1>2, <1>3, <1>4, <1>5, <1>6, <1>7, <1>8, <1>9, <1>10, <1>11, <1>12
       DEF Next, SocketStep, HelloRefused, NoticeGone, Heartbeat, SocketFails,
           Looping

\* The connected device misses nothing as long as no loop of a former
\* connection of it outlives the reconnect: the late deregistration by device
\* and a replay that could not be read are the only ways a push is lost
\* (handle_socket, Hub::deregister).
THEOREM ConnectedMissesNothingHolds == Spec /\ []OneLoop => []ConnectedMissesNothing
  <1>1. Init => RegisteredMissesNothing /\ ReachInv
    BY DEF Init, RegisteredMissesNothing, ReachInv, LoopRegistered, OwnSocket
  <1>2. TypeOK /\ RegisteredMissesNothing /\ ReachInv => ConnectedMissesNothing
    BY DEF TypeOK, RegisteredMissesNothing, ReachInv, LoopRegistered, OwnSocket,
           ConnectedMissesNothing
  <1> QED
    BY <1>1, <1>2, InitType, NextType, NextMiss, NextReach, PTL DEF Spec

\* A revoked device that has left the hub is gone for good: no connection, no
\* Hello checked before the revocation and no other device's loop can register
\* it again (Authed, handle_socket).  RevokedLeaves adds that it does leave.
THEOREM RevokedStayGone ==
  Spec => \A d \in Device : [](d \in revoked /\ Gone(d) => []Gone(d))
  <1> SUFFICES ASSUME NEW d \in Device
               PROVE  Spec => [](d \in revoked /\ Gone(d) => []Gone(d))
    OBVIOUS
  <1> DEFINE Out == d \in revoked /\ Gone(d)
  <1>1. TypeOK /\ Out /\ [Next]_vars => Out'
    <2> SUFFICES ASSUME TypeOK, Out, [Next]_vars PROVE Out'
      OBVIOUS
    <2> USE DEF TypeOK, Gone
    <2>1. ASSUME NEW v \in Version, NEW e \in Device, Commit(v, e) PROVE Out'
      BY <2>1 DEF Commit
    <2>2. ASSUME NEW v \in Version, NEW to \in SUBSET Device, Broadcast(v, to)
          PROVE  Out'
      BY <2>2 DEF Broadcast
    <2>3. ASSUME NEW e \in Device, Revoke(e) \/ DropDevice(e) \/ Detach(e)
          PROVE  Out'
      BY <2>3 DEF Revoke, DropDevice, Detach
    <2>4. ASSUME NEW s \in Socket, Connect(s) PROVE Out'
      BY <2>4 DEF Connect
    <2>5. ASSUME NEW s \in Socket, Accept(s) \/ HelloRegister(s) PROVE Out'
      BY <2>5 DEF Accept, HelloRegister
    <2>6. ASSUME NEW s \in Socket,
                 HelloCheck(s) \/ HelloReplay(s) \/ HelloReplayFails(s)
          PROVE  Out'
      BY <2>6 DEF HelloCheck, HelloReplay, HelloReplayFails
    <2>7. ASSUME NEW s \in Socket, Close(s) PROVE Out'
      BY <2>7 DEF Close
    <2>8. CASE Restart
      BY <2>8 DEF Restart
    <2>9. CASE UNCHANGED vars
      BY <2>9 DEF vars
    <2> QED
      BY <2>1, <2>2, <2>3, <2>4, <2>5, <2>6, <2>7, <2>8, <2>9
         DEF Next, SocketStep, HelloRefused, NoticeGone, Heartbeat, SocketFails
  <1>2. Out => Gone(d)
    OBVIOUS
  <1>3. Spec => [](Out => []Gone(d))
    <2> HIDE DEF Out
    <2> QED
      BY <1>1, <1>2, InitType, NextType, PTL DEF Spec
  <1> QED
    BY <1>3

=============================================================================
