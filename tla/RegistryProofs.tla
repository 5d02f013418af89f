--------------------------- MODULE RegistryProofs ---------------------------
(***************************************************************************)
(* What Registry promises, proved for any set of connections and ids.      *)
(*                                                                         *)
(* Under arbitrary clients the inductive invariant is RegInv: the types,   *)
(* RegistrationOwned, SendToJustified, and that a connection which is not  *)
(* open subscribes to nothing (ClosedUnsubscribed).  The last one is what  *)
(* makes a reused connection slot harmless.  Under clients that hold one   *)
(* id at a time RegistryExact is added, with the fact that only open       *)
(* connections hold ids (HoldersOpen).                                     *)
(***************************************************************************)
EXTENDS Registry, TLAPS

Open(c) == connState[c] \in {"kConnected", "kDisconnecting"}

ClosedUnsubscribed == \A c \in Conn : ~Open(c) => subscribeIdList[c] = {}

RegInv ==
  /\ RegTypeOK
  /\ RegistrationOwned
  /\ SendToJustified
  /\ ClosedUnsubscribed

HoldersOpen ==
  \A d \in DeviceId : connections[d] # NoConn => Open(connections[d])

OneIdInv == RegInv /\ RegistryExact /\ HoldersOpen

-----------------------------------------------------------------------------
(* The invariant holds when the server starts.                             *)
LEMMA RegInitInv == RegInit => RegInv
BY DEF RegInit, RegInv, RegTypeOK, MuduoInit, MuduoTypeOK, StateE,
       RegistrationOwned, SendToJustified, ClosedUnsubscribed, connected

(* Every handler keeps the types.                                          *)
LEMMA RegTypeStep == RegTypeOK /\ [RegNext]_regVars => RegTypeOK'
<1> SUFFICES ASSUME RegTypeOK, [RegNext]_regVars PROVE RegTypeOK'
  OBVIOUS
<1> USE DEF RegTypeOK, MuduoTypeOK, muduoVars, infoVars
<1>1. ASSUME NEW c \in Conn, ConnectionUp(c) PROVE RegTypeOK'
  BY <1>1 DEF ConnectionUp, Established, StateE
<1>2. ASSUME NEW c \in Conn, ConnectionDown(c) PROVE RegTypeOK'
  BY <1>2 DEF ConnectionDown, Closed, unregisterDeviceFunc, StateE,
     FeedsAfterUnregister, FeedsWithout, ConnectionsWithout
<1>3. ASSUME NEW c \in Conn, NEW d \in DeviceId, RegisterDevice(c, d)
      PROVE RegTypeOK'
  BY <1>3 DEF RegisterDevice, IdsAfterRegister, StatesAfterRegister,
     AfterShutdown, StateE
<1>4. ASSUME NEW c \in Conn, NEW d \in DeviceId, SubscribeDevice(c, d)
      PROVE RegTypeOK'
  BY <1>4 DEF SubscribeDevice, CanSubscribe
<1>5. ASSUME NEW c \in Conn, NEW d \in DeviceId, UnsubscribeDevice(c, d)
      PROVE RegTypeOK'
  BY <1>5 DEF UnsubscribeDevice, FeedsWithout
<1>6. ASSUME NEW c \in Conn, UnregisterDevice(c) PROVE RegTypeOK'
  BY <1>6 DEF UnregisterDevice, unregisterDeviceFunc,
     FeedsAfterUnregister, FeedsWithout, ConnectionsWithout
<1>7. ASSUME NEW c \in Conn, SendData(c) PROVE RegTypeOK'
  <2>1. CASE UNCHANGED regVars
    BY <2>1 DEF regVars
  <2>2. CASE sendToList' = [sendToList EXCEPT ![c] = @ \ StaleMembers(c)]
             /\ UNCHANGED <<connections, deviceId, subscribeIdList, muduoVars>>
    BY <2>2
  <2>3. CASE Abort /\ UNCHANGED <<connections, infoVars>>
    BY <2>3 DEF Abort
  <2> QED
    BY <1>7, <2>1, <2>2, <2>3 DEF SendData
<1>8. ASSUME NEW c \in Conn, ConnectionFreed(c) PROVE RegTypeOK'
  BY <1>8 DEF ConnectionFreed, Destroyed, StateE
<1>9. ASSUME NEW c \in Conn, OtherShutdown(c) PROVE RegTypeOK'
  BY <1>9 DEF OtherShutdown, ShutDown, AfterShutdown, StateE
<1>10. CASE OtherAbort
  BY <1>10 DEF OtherAbort, Abort
<1>11. CASE UNCHANGED regVars
  BY <1>11 DEF regVars
<1> QED
  BY <1>1, <1>2, <1>3, <1>4, <1>5, <1>6, <1>7, <1>8, <1>9, <1>10, <1>11
     DEF RegNext, HandlerStep, Halted

(* Leaving every feed and giving the own id back, as unregisterDeviceFunc  *)
(* does for the command and for a connection that goes DOWN, keeps the     *)
(* invariant: the id erased is the caller's own, and the caller leaves     *)
(* every list in which its subscriptions had put it.                       *)
LEMMA UnregisterStep ==
  ASSUME RegInv, NEW c \in Conn, unregisterDeviceFunc(c),
         \A p \in Conn : (connState'[p] = "kConnected") => connected(p)
  PROVE  RegistrationOwned' /\ SendToJustified'
<1> USE NoConnAssumption DEF RegInv, RegTypeOK, MuduoTypeOK
<1>1. RegistrationOwned'
  BY DEF unregisterDeviceFunc, ConnectionsWithout, RegistrationOwned
<1>2. SendToJustified'
  <2> SUFFICES ASSUME NEW p \in Conn, connected(p), NEW x \in sendToList'[p]
               PROVE  \E d \in subscribeIdList'[x] : connections'[d] = p
    BY DEF SendToJustified, connected
  <2>1. p # c /\ x \in sendToList[p]
    BY DEF unregisterDeviceFunc, FeedsAfterUnregister, FeedsWithout
  <2>2. PICK d \in subscribeIdList[x] : connections[d] = p
    BY <2>1 DEF SendToJustified
  <2>3. x # c
    BY <2>1, <2>2 DEF unregisterDeviceFunc, FeedsAfterUnregister, FeedsWithout
  <2>4. d \in subscribeIdList'[x]
    BY <2>1, <2>2, <2>3 DEF unregisterDeviceFunc
  <2>5. connections'[d] = p
    BY <2>1, <2>2 DEF unregisterDeviceFunc, ConnectionsWithout,
       RegistrationOwned
  <2> QED
    BY <2>4, <2>5
<1> QED
  BY <1>1, <1>2

(* A registration keeps the invariant: the only connection that loses an   *)
(* id, and with it the ground of its sendToList, is shut down.             *)
LEMMA RegisterStep ==
  ASSUME RegInv, NEW c \in Conn, NEW d \in DeviceId, RegisterDevice(c, d)
  PROVE  RegistrationOwned' /\ SendToJustified'
<1> USE NoConnAssumption DEF RegInv, RegTypeOK, MuduoTypeOK
<1>1. RegistrationOwned'
  BY DEF RegisterDevice, IdsAfterRegister, RegistrationOwned
<1>2. SendToJustified'
  <2> SUFFICES ASSUME NEW p \in Conn, connState'[p] = "kConnected",
                      NEW x \in sendToList[p]
               PROVE  \E e \in subscribeIdList[x] : connections'[e] = p
    BY DEF SendToJustified, connected, RegisterDevice
  <2>1. connected(p)
    BY DEF RegisterDevice, StatesAfterRegister, AfterShutdown, connected
  <2>2. PICK e \in subscribeIdList[x] : connections[e] = p
    BY <2>1 DEF SendToJustified
  <2>3. CASE e # d
    BY <2>2, <2>3 DEF RegisterDevice
  <2>4. CASE e = d
    <3>1. p = c
      BY <2>2, <2>4 DEF RegisterDevice, StatesAfterRegister, AfterShutdown
    <3> QED
      BY <2>2, <2>4, <3>1 DEF RegisterDevice
  <2> QED
    BY <2>3, <2>4
<1> QED
  BY <1>1, <1>2

(* Every handler, and every step of the surroundings, keeps the invariant. *)
LEMMA RegInvStep == RegInv /\ [RegNext]_regVars => RegInv'
<1> SUFFICES ASSUME RegInv, [RegNext]_regVars PROVE RegInv'
  OBVIOUS
<1>t. RegTypeOK'
  BY RegTypeStep DEF RegInv
<1> USE NoConnAssumption DEF RegInv, RegTypeOK, MuduoTypeOK, muduoVars,
        infoVars, connected
<1>1. ASSUME NEW c \in Conn, ConnectionUp(c) PROVE RegInv'
  <2>1. ClosedUnsubscribed'
    BY <1>1 DEF ConnectionUp, Established, ClosedUnsubscribed, Open
  <2>2. RegistrationOwned'
    BY <1>1 DEF ConnectionUp, RegistrationOwned
  <2>3. SendToJustified'
    <3> SUFFICES ASSUME NEW p \in Conn, connState'[p] = "kConnected",
                        NEW x \in sendToList'[p]
                 PROVE  \E d \in subscribeIdList'[x] : connections'[d] = p
      BY DEF SendToJustified
    <3>1. p # c /\ connState[p] = "kConnected" /\ x \in sendToList[p]
      BY <1>1 DEF ConnectionUp, Established
    <3>2. PICK d \in subscribeIdList[x] : connections[d] = p
      BY <3>1 DEF SendToJustified
    <3>3. x # c
      BY <1>1, <3>2 DEF ConnectionUp, Established, ClosedUnsubscribed, Open
    <3> QED
      BY <1>1, <3>1, <3>2, <3>3 DEF ConnectionUp
  <2> QED
    BY <1>t, <2>1, <2>2, <2>3
<1>2. ASSUME NEW c \in Conn, ConnectionDown(c) PROVE RegInv'
  <2>1. ClosedUnsubscribed'
    BY <1>2 DEF ConnectionDown, Closed, unregisterDeviceFunc,
       ClosedUnsubscribed, Open
  <2>2. \A p \in Conn : connState'[p] = "kConnected" => connected(p)
    BY <1>2 DEF ConnectionDown, Closed
  <2> QED
    BY <1>t, <1>2, <2>1, <2>2, UnregisterStep DEF ConnectionDown
<1>3. ASSUME NEW c \in Conn, NEW d \in DeviceId, RegisterDevice(c, d)
      PROVE RegInv'
  <2>1. ClosedUnsubscribed'
    BY <1>3 DEF RegisterDevice, StatesAfterRegister, AfterShutdown,
       ClosedUnsubscribed, Open
  <2> QED
    BY <1>t, <1>3, <2>1, RegisterStep
<1>4. ASSUME NEW c \in Conn, NEW d \in DeviceId, SubscribeDevice(c, d)
      PROVE RegInv'
  <2>1. ClosedUnsubscribed'
    BY <1>4 DEF SubscribeDevice, Receiving, ClosedUnsubscribed, Open
  <2>2. RegistrationOwned'
    BY <1>4 DEF SubscribeDevice, RegistrationOwned
  <2>3. SendToJustified'
    BY <1>4 DEF SubscribeDevice, CanSubscribe, SendToJustified
  <2> QED
    BY <1>t, <2>1, <2>2, <2>3
<1>5. ASSUME NEW c \in Conn, NEW d \in DeviceId, UnsubscribeDevice(c, d)
      PROVE RegInv'
  <2>1. ClosedUnsubscribed'
    BY <1>5 DEF UnsubscribeDevice, ClosedUnsubscribed, Open
  <2>2. RegistrationOwned'
    BY <1>5 DEF UnsubscribeDevice, RegistrationOwned
  <2>3. SendToJustified'
    BY <1>5 DEF UnsubscribeDevice, FeedsWithout, SendToJustified
  <2> QED
    BY <1>t, <2>1, <2>2, <2>3
<1>6. ASSUME NEW c \in Conn, UnregisterDevice(c) PROVE RegInv'
  <2>1. ClosedUnsubscribed'
    BY <1>6 DEF UnregisterDevice, unregisterDeviceFunc,
       ClosedUnsubscribed, Open
  <2> QED
    BY <1>t, <1>6, <2>1, UnregisterStep DEF UnregisterDevice
<1>7. ASSUME NEW c \in Conn, SendData(c) PROVE RegInv'
  <2>1. connections' = connections /\ deviceId' = deviceId
        /\ subscribeIdList' = subscribeIdList /\ connState' = connState
    BY <1>7 DEF SendData, Abort, regVars
  <2>2. \A p \in Conn : sendToList'[p] \subseteq sendToList[p]
    BY <1>7 DEF SendData, Abort, regVars
  <2> QED
    BY <1>t, <2>1, <2>2 DEF ClosedUnsubscribed, Open, RegistrationOwned,
       SendToJustified
<1>8. ASSUME NEW c \in Conn, ConnectionFreed(c) \/ OtherShutdown(c)
      PROVE RegInv'
  <2>1. \A p \in Conn : connState'[p] = "kConnected"
                          => connState[p] = "kConnected"
    BY <1>8 DEF ConnectionFreed, Destroyed, OtherShutdown, ShutDown,
       AfterShutdown
  <2>2. \A p \in Conn : Open(p) => Open(p)'
    BY <1>8 DEF ConnectionFreed, Destroyed, OtherShutdown, ShutDown,
       AfterShutdown, Open
  <2>3. UNCHANGED <<connections, infoVars>>
    BY <1>8 DEF ConnectionFreed, OtherShutdown
  <2> QED
    BY <1>t, <2>1, <2>2, <2>3 DEF ClosedUnsubscribed, RegistrationOwned,
       SendToJustified
<1>9. CASE OtherAbort \/ UNCHANGED regVars
  BY <1>t, <1>9 DEF OtherAbort, Abort, regVars, ClosedUnsubscribed, Open,
     RegistrationOwned, SendToJustified
<1> QED
  BY <1>1, <1>2, <1>3, <1>4, <1>5, <1>6, <1>7, <1>8, <1>9
     DEF RegNext, HandlerStep, Halted

(* The type invariant, for any number of connections and ids.              *)
THEOREM RegTypeCorrect == RegSpec => []RegTypeOK
<1>1. RegInit => RegTypeOK
  BY RegInitInv DEF RegInv
<1> QED
  BY <1>1, RegTypeStep, PTL DEF RegSpec

(* The directory's invariant, for any number of connections and ids.       *)
THEOREM RegInvCorrect == RegSpec => []RegInv
BY RegInitInv, RegInvStep, PTL DEF RegSpec

(* A connection that believes it holds an id holds it: unregisterDevice    *)
(* Func never erases another connection's entry.                           *)
THEOREM RegistrationOwnedCorrect == RegSpec => []RegistrationOwned
<1>1. RegInv => RegistrationOwned
  BY DEF RegInv
<1> QED
  BY <1>1, RegInvCorrect, PTL

(* sendDataFunc on a live connection relays to subscribers of ids this     *)
(* connection holds now, and to nobody else.                               *)
THEOREM SendToJustifiedCorrect == RegSpec => []SendToJustified
<1>1. RegInv => SendToJustified
  BY DEF RegInv
<1> QED
  BY <1>1, RegInvCorrect, PTL

(* One step never takes an id silently away: the entry goes by the         *)
(* holder's own unregistering or DOWN, or by a takeover that marks and     *)
(* shuts down the loser.                                                   *)
LEMMA NoSilentLossStep ==
  ASSUME RegInv, [RegNext]_regVars, NEW d \in DeviceId,
         connections[d] # NoConn, connections'[d] # connections[d]
  PROVE  /\ deviceId'[connections[d]] = Delete
         /\ \/ connections'[d] = NoConn
            \/ ~(connState'[connections[d]] = "kConnected")
<1> USE NoConnAssumption DEF RegInv, RegTypeOK, MuduoTypeOK, muduoVars, infoVars
<1>1. ASSUME NEW c \in Conn, NEW e \in DeviceId, RegisterDevice(c, e)
      PROVE  /\ deviceId'[connections[d]] = Delete
             /\ ~(connState'[connections[d]] = "kConnected")
  BY <1>1 DEF RegisterDevice, IdsAfterRegister, StatesAfterRegister,
     AfterShutdown
<1>2. ASSUME NEW c \in Conn, unregisterDeviceFunc(c)
      PROVE  /\ deviceId'[connections[d]] = Delete
             /\ connections'[d] = NoConn
  BY <1>2 DEF unregisterDeviceFunc, ConnectionsWithout, RegistrationOwned
<1>3. \/ \E c \in Conn, e \in DeviceId : RegisterDevice(c, e)
      \/ \E c \in Conn : unregisterDeviceFunc(c)
  BY DEF RegNext, HandlerStep, regVars, ConnectionUp, ConnectionDown,
     UnregisterDevice, SubscribeDevice, UnsubscribeDevice, SendData, Abort,
     ConnectionFreed, OtherShutdown, OtherAbort, Halted
<1> QED
  BY <1>1, <1>2, <1>3

(* No step of the directory takes an id silently away from its holder.     *)
THEOREM NoSilentLossCorrect == RegSpec => NoSilentLoss
<1>1. RegInv /\ [RegNext]_regVars =>
        [\A d \in DeviceId :
           LET p == connections[d] IN
           (p # NoConn /\ connections'[d] # p) =>
             /\ deviceId'[p] = Delete
             /\ connections'[d] = NoConn
                  \/ ~(connState'[p] = "kConnected")]_regVars
  BY NoSilentLossStep
<1> QED
  BY <1>1, RegInvCorrect, PTL DEF RegSpec, NoSilentLoss

-----------------------------------------------------------------------------
(* With one id per connection, a registration leaves no entry behind.      *)
LEMMA OneIdRegisterStep ==
  ASSUME Delete \notin DeviceId, OneIdInv, OneIdPerConnection,
         NEW c \in Conn, NEW d \in DeviceId, RegisterDevice(c, d)
  PROVE  RegistryExact' /\ HoldersOpen'
<1> USE NoConnAssumption DEF OneIdInv, RegInv, RegTypeOK, MuduoTypeOK
<1>1. RegistryExact'
  <2> SUFFICES ASSUME NEW e \in DeviceId, connections'[e] # NoConn
               PROVE  deviceId'[connections'[e]] = e
    BY DEF RegistryExact
  <2>1. CASE e = d
    BY <2>1 DEF RegisterDevice, IdsAfterRegister
  <2>2. CASE e # d
    <3>1. connections'[e] = connections[e] /\ deviceId[connections[e]] = e
      BY <2>2 DEF RegisterDevice, RegistryExact
    <3>2. connections[e] # c
      BY <2>2, <3>1 DEF RegisterDevice, IdsAfterRegister, OneIdPerConnection
    <3>3. connections[e] # connections[d]
      BY <2>2, <3>1 DEF RegistryExact
    <3> QED
      BY <3>1, <3>2, <3>3 DEF RegisterDevice, IdsAfterRegister
  <2> QED
    BY <2>1, <2>2
<1>2. HoldersOpen'
  BY DEF HoldersOpen, Open, RegisterDevice, Receiving, StatesAfterRegister,
     AfterShutdown
<1> QED
  BY <1>1, <1>2

(* With one id per connection, unregistering erases the connection from    *)
(* the whole map.                                                          *)
LEMMA OneIdUnregisterStep ==
  ASSUME Delete \notin DeviceId, OneIdInv,
         NEW c \in Conn, unregisterDeviceFunc(c)
  PROVE  /\ RegistryExact'
         /\ \A d \in DeviceId : connections'[d] # c
         /\ \A d \in DeviceId : connections'[d] \in {connections[d], NoConn}
BY NoConnAssumption DEF OneIdInv, RegInv, RegTypeOK, MuduoTypeOK,
   unregisterDeviceFunc, ConnectionsWithout, RegistryExact

(* With one id per connection every step keeps the map and the ConnInfos   *)
(* in agreement.                                                           *)
LEMMA OneIdInvStep ==
  ASSUME Delete \notin DeviceId
  PROVE  OneIdInv /\ [OneIdNext]_regVars => OneIdInv'
<1> SUFFICES ASSUME OneIdInv, [OneIdNext]_regVars PROVE OneIdInv'
  OBVIOUS
<1>r. RegInv'
  BY RegInvStep DEF OneIdInv, OneIdNext
<1> USE NoConnAssumption DEF OneIdInv, RegInv, RegTypeOK, MuduoTypeOK,
        muduoVars, infoVars
<1>1. ASSUME NEW c \in Conn, ConnectionUp(c) PROVE OneIdInv'
  <2>1. \A d \in DeviceId : connections[d] # c
    BY <1>1 DEF ConnectionUp, Established, HoldersOpen, Open
  <2> QED
    BY <1>r, <1>1, <2>1 DEF ConnectionUp, Established, RegistryExact,
       HoldersOpen, Open
<1>2. ASSUME NEW c \in Conn, ConnectionDown(c) PROVE OneIdInv'
  <2>1. /\ RegistryExact'
        /\ \A d \in DeviceId : connections'[d] # c
        /\ \A d \in DeviceId : connections'[d] \in {connections[d], NoConn}
    BY <1>2, OneIdUnregisterStep DEF ConnectionDown
  <2> QED
    BY <1>r, <1>2, <2>1 DEF ConnectionDown, Closed, HoldersOpen, Open
<1>3. ASSUME NEW c \in Conn, NEW d \in DeviceId, RegisterDevice(c, d),
             OneIdPerConnection
      PROVE OneIdInv'
  BY <1>r, <1>3, OneIdRegisterStep
<1>4. ASSUME NEW c \in Conn, UnregisterDevice(c) PROVE OneIdInv'
  <2>1. /\ RegistryExact'
        /\ \A d \in DeviceId : connections'[d] \in {connections[d], NoConn}
    BY <1>4, OneIdUnregisterStep DEF UnregisterDevice
  <2> QED
    BY <1>r, <1>4, <2>1 DEF UnregisterDevice, HoldersOpen, Open
<1>5. ASSUME NEW c \in Conn, ConnectionFreed(c) \/ OtherShutdown(c)
      PROVE OneIdInv'
  <2>1. UNCHANGED <<connections, infoVars>>
    BY <1>5 DEF ConnectionFreed, OtherShutdown
  <2>2. \A p \in Conn : Open(p) => Open(p)'
    BY <1>5 DEF ConnectionFreed, Destroyed, OtherShutdown, ShutDown,
       AfterShutdown, Open, connected
  <2> QED
    BY <1>r, <2>1, <2>2 DEF RegistryExact, HoldersOpen
<1>6. CASE UNCHANGED <<connections, deviceId, connState>>
  BY <1>r, <1>6 DEF RegistryExact, HoldersOpen, Open
<1>7. ASSUME NEW c \in Conn, NEW d \in DeviceId,
             SubscribeDevice(c, d) \/ UnsubscribeDevice(c, d)
      PROVE UNCHANGED <<connections, deviceId, connState>>
  BY <1>7 DEF SubscribeDevice, UnsubscribeDevice
<1>8. ASSUME NEW c \in Conn, SendData(c)
      PROVE UNCHANGED <<connections, deviceId, connState>>
  BY <1>8 DEF SendData, Abort, regVars
<1>9. ASSUME OtherAbort \/ UNCHANGED regVars
      PROVE UNCHANGED <<connections, deviceId, connState>>
  BY <1>9 DEF OtherAbort, Abort, regVars
<1> QED
  BY <1>1, <1>2, <1>3, <1>4, <1>5, <1>6, <1>7, <1>8, <1>9
     DEF OneIdNext, RegNext, HandlerStep, Halted

(* The invariant of the directory under clients with one id each.          *)
LEMMA OneIdInvCorrect ==
  ASSUME Delete \notin DeviceId PROVE OneIdSpec => []OneIdInv
<1>1. RegInit => OneIdInv
  BY RegInitInv DEF OneIdInv, RegInit, RegistryExact, HoldersOpen
<1>2. OneIdInv /\ [OneIdNext]_regVars => OneIdInv'
  BY OneIdInvStep
<1> QED
  BY <1>1, <1>2, PTL DEF OneIdSpec

(* With one id per connection the map and the ConnInfos agree: no entry is *)
(* left behind by a takeover, an unregister or a DOWN.                     *)
THEOREM RegistryExactCorrect ==
  ASSUME Delete \notin DeviceId PROVE OneIdSpec => []RegistryExact
<1>1. OneIdInv => RegistryExact
  BY DEF OneIdInv
<1> QED
  BY <1>1, OneIdInvCorrect, PTL

(* With one id per connection CHECK_DEVICE_ALIVE tells the truth.          *)
THEOREM AliveExactCorrect ==
  ASSUME Delete \notin DeviceId PROVE OneIdSpec => []AliveExact
<1>1. OneIdInv => AliveExact
  <2> SUFFICES ASSUME OneIdInv, NEW d \in DeviceId
               PROVE checkDeviceAlive(d)
                       <=> \E c \in Conn : connected(c) /\ deviceId[c] = d
    BY DEF AliveExact
  <2>1. ASSUME checkDeviceAlive(d)
        PROVE \E c \in Conn : connected(c) /\ deviceId[c] = d
    BY <2>1 DEF checkDeviceAlive, OneIdInv, RegInv, RegTypeOK, RegistryExact
  <2>2. ASSUME NEW c \in Conn, connected(c), deviceId[c] = d
        PROVE checkDeviceAlive(d)
    BY <2>2, NoConnAssumption
       DEF checkDeviceAlive, OneIdInv, RegInv, RegistrationOwned
  <2> QED
    BY <2>1, <2>2
<1> QED
  BY <1>1, OneIdInvCorrect, PTL

(* With one id per connection nothing of a connection that went DOWN is    *)
(* left in _connections.                                                   *)
THEOREM DownUnregisteredCorrect ==
  ASSUME Delete \notin DeviceId PROVE OneIdSpec => []DownUnregistered
<1>1. OneIdInv => DownUnregistered
  BY NoConnAssumption DEF OneIdInv, RegInv, RegTypeOK, HoldersOpen, Open,
     DownUnregistered
<1> QED
  BY <1>1, OneIdInvCorrect, PTL

(* With one id per connection a device never enters its own sendToList:    *)
(* whoever holds the id that is asked for knows it as its own.             *)
THEOREM NoSelfRelayCorrect ==
  ASSUME Delete \notin DeviceId PROVE OneIdSpec => []NoSelfRelay
<1>1. RegInit => NoSelfRelay
  BY DEF RegInit, NoSelfRelay
<1>2. ASSUME OneIdInv, NoSelfRelay, [OneIdNext]_regVars PROVE NoSelfRelay'
  <2> USE NoConnAssumption DEF OneIdInv, RegInv, RegTypeOK
  <2>1. ASSUME NEW c \in Conn, NEW d \in DeviceId, SubscribeDevice(c, d)
        PROVE NoSelfRelay'
    BY <1>2, <2>1 DEF SubscribeDevice, CanSubscribe, RegistryExact, NoSelfRelay
  <2>2. ASSUME \A p \in Conn : sendToList'[p] \subseteq sendToList[p]
        PROVE NoSelfRelay'
    BY <1>2, <2>2 DEF NoSelfRelay
  <2>3. ASSUME NEW c \in Conn,
               ConnectionUp(c) \/ ConnectionDown(c) \/ UnregisterDevice(c)
        PROVE \A p \in Conn : sendToList'[p] \subseteq sendToList[p]
    <3>1. CASE ConnectionUp(c)
      BY <1>2, <3>1 DEF ConnectionUp
    <3>2. CASE sendToList' = FeedsAfterUnregister(c)
      BY <1>2, <3>2 DEF FeedsAfterUnregister, FeedsWithout
    <3> QED
      BY <2>3, <3>1, <3>2 DEF ConnectionDown, UnregisterDevice,
         unregisterDeviceFunc
  <2>4. ASSUME NEW c \in Conn, NEW d \in DeviceId,
               RegisterDevice(c, d) \/ UnsubscribeDevice(c, d)
        PROVE \A p \in Conn : sendToList'[p] \subseteq sendToList[p]
    BY <1>2, <2>4 DEF RegisterDevice, UnsubscribeDevice, FeedsWithout
  <2>5. ASSUME NEW c \in Conn, SendData(c)
        PROVE \A p \in Conn : sendToList'[p] \subseteq sendToList[p]
    BY <1>2, <2>5 DEF SendData, regVars, infoVars
  <2>6. ASSUME NEW c \in Conn, ConnectionFreed(c) \/ OtherShutdown(c)
        PROVE sendToList' = sendToList
    BY <2>6 DEF ConnectionFreed, OtherShutdown, infoVars
  <2>7. ASSUME OtherAbort \/ UNCHANGED regVars
        PROVE sendToList' = sendToList
    BY <2>7 DEF OtherAbort, regVars, infoVars
  <2> QED
    BY <1>2, <2>1, <2>2, <2>3, <2>4, <2>5, <2>6, <2>7
       DEF OneIdNext, RegNext, HandlerStep, Halted
<1> QED
  BY <1>1, <1>2, OneIdInvCorrect, PTL DEF OneIdSpec

=============================================================================
