------------------------------ MODULE Registry ------------------------------
(***************************************************************************)
(* The relay server's directory of devices: p2pServer::_connections and    *)
(* the ConnInfo kept in the context of every connection                    *)
(* (p2pServer.h, p2pServer.cc).  All its handlers run on the one I/O       *)
(* thread (setThreadNum(1)), so each is one action.                        *)
(*                                                                         *)
(* The lists of ConnInfo are modelled as sets: subscribeIdListAdd and      *)
(* sendToListAdd refuse duplicates and nothing reads their order.          *)
(*                                                                         *)
(* Operators named Mut... are broken variants of the definition that       *)
(* follows them; they show which mistake each property would notice.       *)
(***************************************************************************)
EXTENDS Muduo

CONSTANTS DeviceId,  \* names a client may register
          Delete,    \* string("delete"), the id of an unregistered connection
          NoConn     \* "no entry in _connections"

ASSUME NoConnAssumption == NoConn \notin Conn

VARIABLES connections,      \* _connections, a map from device ids
          deviceId,         \* ConnInfo::deviceId of every connection
          subscribeIdList,  \* ConnInfo::subscribeIdList: ids it listens to
          sendToList        \* ConnInfo::sendToList: connections it feeds

infoVars == <<deviceId, subscribeIdList, sendToList>>
regVars == <<connections, deviceId, subscribeIdList, sendToList, connState,
             crashed>>

(* Every variable of the directory has its type.  ConnInfo::deviceId is    *)
(* either a name a client sent or the marker "delete".                     *)
RegTypeOK ==
  /\ MuduoTypeOK
  /\ connections \in [DeviceId -> Conn \cup {NoConn}]
  /\ deviceId \in [Conn -> DeviceId \cup {Delete}]
  /\ subscribeIdList \in [Conn -> SUBSET DeviceId]
  /\ sendToList \in [Conn -> SUBSET Conn]

RegInit ==
  /\ MuduoInit
  /\ connections = [d \in DeviceId |-> NoConn]
  /\ deviceId = [c \in Conn |-> Delete]
  /\ subscribeIdList = [c \in Conn |-> {}]
  /\ sendToList = [c \in Conn |-> {}]

-----------------------------------------------------------------------------
(* registerDeviceFunc: the id goes to the connection that asked last.  An  *)
(* earlier holder is marked "delete" and shut down.                        *)

\* The loser of a takeover keeps its id.
MutIdsAfterRegister(c, d) == [deviceId EXCEPT ![c] = d]

IdsAfterRegister(c, d) ==
  [x \in Conn |-> IF x = c THEN d
                  ELSE IF x = connections[d] THEN Delete
                  ELSE deviceId[x]]

\* The loser of a takeover is not shut down.
MutStatesAfterRegister(c, d) == connState

StatesAfterRegister(c, d) ==
  IF connections[d] \in {NoConn, c} THEN connState
  ELSE AfterShutdown(connections[d])

RegisterDevice(c, d) ==
  /\ Receiving(c)
  /\ connections' = [connections EXCEPT ![d] = c]
  /\ deviceId' = IdsAfterRegister(c, d)
  /\ connState' = StatesAfterRegister(c, d)
  /\ UNCHANGED <<subscribeIdList, sendToList, crashed>>

-----------------------------------------------------------------------------
(* subscribeDeviceFunc fails for an id nobody holds and for the caller's   *)
(* own id; unsubscribeDeviceFunc removes the caller from the feed of       *)
(* whoever holds the id at that moment.                                    *)

\* Subscribing to the own id is not refused.
MutCanSubscribe(c, d) == connections[d] # NoConn

CanSubscribe(c, d) == connections[d] # NoConn /\ deviceId[c] # d

SubscribeDevice(c, d) ==
  /\ Receiving(c)
  /\ CanSubscribe(c, d)
  /\ sendToList' = [sendToList EXCEPT ![connections[d]] = @ \cup {c}]
  /\ subscribeIdList' = [subscribeIdList EXCEPT ![c] = @ \cup {d}]
  /\ UNCHANGED <<connections, deviceId, muduoVars>>

\* The holder's sendToList is not updated.
MutFeedsWithout(c, ids) == sendToList

\* sendToList once c no longer listens to the ids in ids.
FeedsWithout(c, ids) ==
  [p \in Conn |-> IF \E d \in ids : connections[d] = p
                  THEN sendToList[p] \ {c} ELSE sendToList[p]]

UnsubscribeDevice(c, d) ==
  /\ Receiving(c)
  /\ d \in subscribeIdList[c]
  /\ sendToList' = FeedsWithout(c, {d})
  /\ subscribeIdList' = [subscribeIdList EXCEPT ![c] = @ \ {d}]
  /\ UNCHANGED <<connections, deviceId, muduoVars>>

-----------------------------------------------------------------------------
(* unregisterDeviceFunc, run for the command and when a connection goes    *)
(* DOWN: leave every feed, drop the own feed, then give the id back unless *)
(* the connection is marked "delete".                                      *)

\* The map entry is not erased.
MutConnectionsWithout(c) == connections

ConnectionsWithout(c) ==
  IF deviceId[c] = Delete THEN connections
  ELSE [connections EXCEPT ![deviceId[c]] = NoConn]

\* Only the own list is cleared.
MutFeedsAfterUnregister(c) == [sendToList EXCEPT ![c] = {}]

\* The own list is not cleared.
MutFeedsKept(c) == FeedsWithout(c, subscribeIdList[c])

FeedsAfterUnregister(c) ==
  [FeedsWithout(c, subscribeIdList[c]) EXCEPT ![c] = {}]

unregisterDeviceFunc(c) ==
  /\ sendToList' = FeedsAfterUnregister(c)
  /\ subscribeIdList' = [subscribeIdList EXCEPT ![c] = {}]
  /\ connections' = ConnectionsWithout(c)
  /\ deviceId' = [deviceId EXCEPT ![c] = Delete]

UnregisterDevice(c) ==
  /\ Receiving(c)
  /\ unregisterDeviceFunc(c)
  /\ UNCHANGED muduoVars

(* onConnection: the ConnInfo of a new connection is unregistered and      *)
(* empty; a connection that goes DOWN is unregistered.                     *)
ConnectionUp(c) ==
  /\ Established(c)
  /\ deviceId' = [deviceId EXCEPT ![c] = Delete]
  /\ subscribeIdList' = [subscribeIdList EXCEPT ![c] = {}]
  /\ sendToList' = [sendToList EXCEPT ![c] = {}]
  /\ UNCHANGED connections

\* A connection that goes DOWN is not unregistered.
MutConnectionDown(c) == Closed(c) /\ UNCHANGED <<connections, infoVars>>

ConnectionDown(c) ==
  /\ Closed(c)
  /\ unregisterDeviceFunc(c)

-----------------------------------------------------------------------------
(* sendDataFunc relays to every member of the sender's list.  A member     *)
(* that is not connected() is erased while the iterator stays on it; going *)
(* on from there is undefined: the process dies, or the memory still holds *)
(* the old links and the loop carries on with the next member.             *)

StaleMembers(c) == {p \in sendToList[c] : ~connected(p)}

SendData(c) ==
  /\ Receiving(c)
  /\ \/ /\ StaleMembers(c) = {}
        /\ UNCHANGED regVars
     \/ /\ StaleMembers(c) # {}
        /\ sendToList' = [sendToList EXCEPT ![c] = @ \ StaleMembers(c)]
        /\ UNCHANGED <<connections, deviceId, subscribeIdList, muduoVars>>
     \/ /\ StaleMembers(c) # {}
        /\ Abort
        /\ UNCHANGED <<connections, infoVars>>

\* Every id in the map is reported alive.
MutCheckDeviceAlive(d) == connections[d] # NoConn

\* The answer to CHECK_DEVICE_ALIVE, which changes nothing.
checkDeviceAlive(d) == connections[d] # NoConn /\ connected(connections[d])

(* What happens to the directory from outside: the idle timer or the codec *)
(* shuts a connection down, another thread of the process dies, a closed   *)
(* connection that no list refers to any more is freed with its ConnInfo.  *)

Referenced(c) ==
  \/ \E d \in DeviceId : connections[d] = c
  \/ \E p \in Conn : connState[p] # "kConnecting" /\ c \in sendToList[p]

ConnectionFreed(c) ==
  /\ ~Referenced(c)
  /\ Destroyed(c)
  /\ UNCHANGED <<connections, infoVars>>

OtherShutdown(c) == ShutDown(c) /\ UNCHANGED <<connections, infoVars>>

OtherAbort == Abort /\ UNCHANGED <<connections, infoVars>>

Halted == crashed /\ UNCHANGED regVars

HandlerStep(c) ==
  \/ SendData(c)
  \/ UnregisterDevice(c)
  \/ \E d \in DeviceId : \/ RegisterDevice(c, d)
                         \/ SubscribeDevice(c, d)
                         \/ UnsubscribeDevice(c, d)

RegNext ==
  \/ \E c \in Conn : \/ ConnectionUp(c)
                     \/ ConnectionDown(c)
                     \/ HandlerStep(c)
                     \/ ConnectionFreed(c)
                     \/ OtherShutdown(c)
  \/ OtherAbort
  \/ Halted

(* The directory under arbitrary clients.                                  *)
RegSpec == RegInit /\ [][RegNext]_regVars

(* Applications that hold one id at a time: a connection that is           *)
(* registered takes another id only after UNREGISTER_DEVICE.  The client   *)
(* libraries leave this to the application.                                *)
OneIdPerConnection ==
  \A c \in Conn : deviceId[c] # Delete /\ deviceId'[c] # Delete
                     => deviceId'[c] = deviceId[c]

OneIdNext == RegNext /\ OneIdPerConnection

OneIdSpec == RegInit /\ [][OneIdNext]_regVars

-----------------------------------------------------------------------------
(* Safety under arbitrary clients                                          *)

(* A connection that believes it holds an id does hold it: registerDevice  *)
(* Func marks the loser of a takeover before the map entry changes hands,  *)
(* so unregistering and going DOWN never erase somebody else's entry.      *)
RegistrationOwned ==
  \A c \in Conn : deviceId[c] # Delete => connections[deviceId[c]] = c

(* Live data only flows where a subscription asks for it: every member of  *)
(* the sendToList of a kConnected connection has an id in its              *)
(* subscribeIdList that this very connection holds now.                    *)
SendToJustified ==
  \A p \in Conn : connected(p) =>
    \A c \in sendToList[p] : \E d \in subscribeIdList[c] : connections[d] = p

(* An id leaves a connection only by that connection's own unregistering   *)
(* or DOWN, or by a takeover that also shuts the loser down; no step ever  *)
(* leaves a kConnected former holder that still believes in its id.        *)
NoSilentLoss ==
  [][\A d \in DeviceId :
       LET p == connections[d] IN
       (p # NoConn /\ connections'[d] # p) =>
         /\ deviceId'[p] = Delete
         /\ connections'[d] = NoConn \/ ~(connState'[p] = "kConnected")]_regVars

-----------------------------------------------------------------------------
(* Safety under clients that hold one id at a time                         *)

(* The map and the ConnInfos agree in both directions: an entry names the  *)
(* connection that registered it, and that connection knows it, so no      *)
(* entry is left behind by a takeover, an unregister or a DOWN.            *)
RegistryExact ==
  \A d \in DeviceId : connections[d] # NoConn =>
    deviceId[connections[d]] = d

(* CHECK_DEVICE_ALIVE answers success exactly when a device that is        *)
(* connected holds the id, also after takeovers and while a connection     *)
(* that the idle timer has shut down is still in the map.                  *)
AliveExact ==
  \A d \in DeviceId :
    checkDeviceAlive(d) <=> \E c \in Conn : connected(c) /\ deviceId[c] = d

(* Once a connection has gone DOWN nothing of it is left in _connections:  *)
(* unregisterDeviceFunc has erased "(deviceId, conn) in connections map".  *)
DownUnregistered ==
  \A c \in Conn : connState[c] = "kDisconnected" =>
    \A d \in DeviceId : connections[d] # c

(* A relay loop never meets the connection whose data it relays: a device  *)
(* cannot end up in its own sendToList, whatever the order of registering, *)
(* subscribing and taking ids over.                                        *)
NoSelfRelay == \A c \in Conn : c \notin sendToList[c]

(* A closed connection object is kept alive by half-closed senders only:   *)
(* the connected ones have all dropped it when it went DOWN.               *)
ClosedHeldByHalfClosed ==
  \A c, p \in Conn :
    connState[c] = "kDisconnected" /\ connState[p] # "kConnecting"
      /\ c \in sendToList[p] => connState[p] = "kDisconnecting"

-----------------------------------------------------------------------------
(* Claims of the documentation and comments that the code does not keep    *)

(* The relay serves who has registered and subscribed: a subscriber whose  *)
(* list names an id is fed by the connection that holds the id, unless     *)
(* that is the subscriber itself.                                          *)
SubscribedIsServed ==
  \A c \in Conn, d \in DeviceId :
    (connected(c) /\ d \in subscribeIdList[c] /\ connections[d] \notin {NoConn, c})
      => c \in sendToList[connections[d]]

=============================================================================
