-------------------------- MODULE P2PServerProofs --------------------------
(***************************************************************************)
(* The composed server implements the directory and the reaper, each with  *)
(* the other as its surroundings; so every theorem about either holds of   *)
(* the server.  The two refinements are proved together, because each step *)
(* needs the types that the other half keeps: a shutdown of a connection   *)
(* that is not connected changes nothing.                                  *)
(***************************************************************************)
EXTENDS P2PServer, RegistryProofs, IdleTimerProofs

SrvInv == RegTypeOK /\ TimInv

-----------------------------------------------------------------------------
(* shutdown() of a connection that is not connected() changes nothing.     *)
LEMMA ShutdownIdle ==
  ASSUME connState \in [Conn -> StateE], NEW c \in Conn, ~connected(c)
  PROVE  AfterShutdown(c) = connState
BY DEF AfterShutdown, connected

(* Every step of the server is a step of the directory or leaves it alone: *)
(* to it, the walk of onTimer is a shutdown, a crash or nothing.           *)
LEMMA ServerStepIsRegStep ==
  ASSUME SrvInv, [SrvNext]_srvVars PROVE [RegNext]_regVars
<1>1. CASE \E c \in Conn : OnConnectionUp(c) \/ OnConnectionDown(c) \/ Freed(c)
  BY <1>1 DEF OnConnectionUp, OnConnectionDown, Freed, RegNext
<1>2. ASSUME NEW c \in Conn, OnMessage(c) PROVE [RegNext]_regVars
  BY <1>2 DEF OnMessage, HeartBeat, RegNext, regVars, dirVars, infoVars,
     muduoVars
<1>3. CASE ContextSet \/ NodeSpliced \/ TimePasses
  BY <1>3 DEF ContextSet, SetContext, NodeSpliced, Splice, TimePasses, Tick,
     regVars, dirVars, infoVars, muduoVars
<1>4. CASE OnTimer
  <2>1. CASE WalkStart \/ Examine \/ Jump \/ Advance
    BY <1>4, <2>1 DEF OnTimer, WalkStart, Examine, Jump, Advance, regVars,
       dirVars, infoVars, muduoVars
  <2>2. CASE WalkDangling \/ WalkNoContext
    BY <1>4, <2>2 DEF OnTimer, WalkDangling, WalkNoContext, RegNext,
       OtherAbort, regVars, dirVars, infoVars, muduoVars
  <2>3. CASE Timeout
    <3>1. timerConn \in Conn /\ connState \in [Conn -> StateE]
      BY <2>3 DEF Timeout, SrvInv, TimInv, TimTypeOK, MuduoTypeOK
    <3>2. CASE connected(timerConn)
      BY <1>4, <2>3, <3>1, <3>2 DEF OnTimer, Timeout, RegNext, OtherShutdown,
         ShutDown, dirVars
    <3>3. CASE ~connected(timerConn)
      BY <1>4, <2>3, <3>1, <3>3, ShutdownIdle DEF OnTimer, Timeout, regVars,
         dirVars, infoVars
    <3> QED
      BY <3>2, <3>3
  <2> QED
    BY <1>4, <2>1, <2>2, <2>3 DEF OnTimer, WalkStep
<1>5. ASSUME NEW c \in Conn, InvalidLength(c) PROVE [RegNext]_regVars
  <2>1. connState \in [Conn -> StateE]
    BY DEF SrvInv, RegTypeOK, MuduoTypeOK
  <2>2. CASE connected(c)
    BY <1>5, <2>2 DEF InvalidLength, RegNext, OtherShutdown, ShutDown,
       Receiving, dirVars
  <2>3. CASE ~connected(c)
    BY <1>5, <2>1, <2>3, ShutdownIdle DEF InvalidLength, regVars, dirVars,
       infoVars
  <2> QED
    BY <2>2, <2>3
<1>6. CASE SrvHalted \/ UNCHANGED srvVars
  BY <1>6 DEF SrvHalted, srvVars, regVars
<1> QED
  BY <1>1, <1>2, <1>3, <1>4, <1>5, <1>6 DEF SrvNext

(* Every step of the server is a step of the reaper or leaves it alone: to *)
(* it, a takeover is a shutdown, and a relay that dies is a crash.         *)
LEMMA ServerStepIsTimStep ==
  ASSUME SrvInv, [SrvNext]_srvVars PROVE [TimNext]_timVars
<1>1. CASE \E c \in Conn : OnConnectionUp(c) \/ OnConnectionDown(c) \/ Freed(c)
  BY <1>1 DEF OnConnectionUp, OnConnectionDown, Freed, TimNext
<1>2. ASSUME NEW c \in Conn, OnMessage(c) PROVE [TimNext]_timVars
  <2> USE DEF reaperVars, listVars, passVars, timVars
  <2>1. CASE HeartBeat(c)
    BY <2>1 DEF TimNext
  <2>2. ASSUME NEW d \in DeviceId, RegisterDevice(c, d), UNCHANGED reaperVars
        PROVE  [TimNext]_timVars
    <3>1. CASE connections[d] \in {NoConn, c}
      BY <2>2, <3>1 DEF RegisterDevice, StatesAfterRegister
    <3>2. CASE connections[d] \notin {NoConn, c}
      <4>1. connections[d] \in Conn /\ connState \in [Conn -> StateE]
        BY <3>2 DEF SrvInv, RegTypeOK, MuduoTypeOK
      <4>2. CASE connected(connections[d])
        <5>1. TakenOver(connections[d])
          BY <1>2, <2>2, <3>2, <4>2 DEF RegisterDevice, StatesAfterRegister,
             TakenOver, ShutDown, OnMessage, Dispatches, Polling, Receiving
        <5> QED
          BY <4>1, <5>1 DEF TimNext
      <4>3. CASE ~connected(connections[d])
        BY <2>2, <3>2, <4>1, <4>3, ShutdownIdle DEF RegisterDevice,
           StatesAfterRegister
      <4> QED
        BY <4>2, <4>3
    <3> QED
      BY <3>1, <3>2
  <2>3. CASE SendData(c) /\ UNCHANGED reaperVars
    BY <2>3 DEF SendData, TimNext, TimOtherAbort, regVars, muduoVars
  <2>4. ASSUME NEW d \in DeviceId, UNCHANGED reaperVars,
               SubscribeDevice(c, d) \/ UnsubscribeDevice(c, d)
        PROVE  [TimNext]_timVars
    BY <2>4 DEF SubscribeDevice, UnsubscribeDevice, muduoVars
  <2>5. CASE UnregisterDevice(c) /\ UNCHANGED reaperVars
    BY <2>5 DEF UnregisterDevice, muduoVars
  <2> QED
    BY <1>2, <2>1, <2>2, <2>3, <2>4, <2>5 DEF OnMessage, HandlerStep
<1>3. CASE ContextSet \/ NodeSpliced \/ TimePasses \/ OnTimer
  BY <1>3 DEF ContextSet, NodeSpliced, TimePasses, OnTimer, TimNext
<1>4. ASSUME NEW c \in Conn, InvalidLength(c) PROVE [TimNext]_timVars
  <2>1. connState \in [Conn -> StateE]
    BY DEF SrvInv, RegTypeOK, MuduoTypeOK
  <2>2. CASE connected(c)
    BY <1>4, <2>2 DEF InvalidLength, Dispatches, Polling, TimNext, TakenOver,
       ShutDown, Receiving, reaperVars
  <2>3. CASE ~connected(c)
    BY <1>4, <2>1, <2>3, ShutdownIdle DEF InvalidLength, timVars, reaperVars,
       listVars, passVars
  <2> QED
    BY <2>2, <2>3
<1>5. CASE SrvHalted \/ UNCHANGED srvVars
  BY <1>5 DEF SrvHalted, srvVars, timVars
<1> QED
  BY <1>1, <1>2, <1>3, <1>4, <1>5 DEF SrvNext

(* The types of both halves are an invariant of the server.                *)
LEMMA SrvInvCorrect == SrvSpec => []SrvInv
<1>1. SrvInit => SrvInv
  BY RegInitInv, TimInitInv DEF SrvInit, SrvInv, RegInv
<1>2. SrvInv /\ [SrvNext]_srvVars => SrvInv'
  BY ServerStepIsRegStep, ServerStepIsTimStep, RegTypeStep, TimInvStep
     DEF SrvInv
<1> QED
  BY <1>1, <1>2, PTL DEF SrvSpec

(* The server implements the directory: whatever the reaper and the codec  *)
(* do, the handlers of p2pServer keep RegSpec.                             *)
THEOREM ServerImplementsRegistry == SrvSpec => RegSpec
<1>1. SrvInit => RegInit
  BY DEF SrvInit
<1>2. SrvInv /\ [SrvNext]_srvVars => [RegNext]_regVars
  BY ServerStepIsRegStep
<1> QED
  BY <1>1, <1>2, SrvInvCorrect, PTL DEF SrvSpec, RegSpec

(* The server implements the reaper: whatever the directory does, the list *)
(* and the walk keep TimSpec.                                              *)
THEOREM ServerImplementsIdleTimer == SrvSpec => TimSpec
<1>1. SrvInit => TimInit
  BY DEF SrvInit
<1>2. SrvInv /\ [SrvNext]_srvVars => [TimNext]_timVars
  BY ServerStepIsTimStep
<1> QED
  BY <1>1, <1>2, SrvInvCorrect, PTL DEF SrvSpec, TimSpec

(* The safety of both halves holds of the whole server.                    *)
THEOREM ServerSafe ==
  SrvSpec => [](RegistrationOwned /\ SendToJustified /\ ListExact
                 /\ NearlyOrdered)
BY ServerImplementsRegistry, ServerImplementsIdleTimer,
   RegistrationOwnedCorrect, SendToJustifiedCorrect, ListExactCorrect,
   NearlyOrderedCorrect, PTL

=============================================================================
