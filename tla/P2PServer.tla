----------------------------- MODULE P2PServer -----------------------------
(***************************************************************************)
(* The relay server: p2pServer::onConnection, onMessage and onTimer, put   *)
(* together from the directory (Registry) and the reaper (IdleTimer).  A   *)
(* handler that works on both halves is the conjunction of its parts; one  *)
(* that works on one half leaves the other alone.                          *)
(***************************************************************************)
EXTENDS Registry, IdleTimer

VARIABLE garbled  \* connections whose input no longer parses

dirVars == <<connections, infoVars>>
reaperVars == <<listVars, doomed, passVars>>
srvVars == <<connections, deviceId, subscribeIdList, sendToList,
             connectionList, age, silence, opening, beating, doomed, timerPc,
             timerConn, timerFreed, passAge, connState, crashed, garbled>>

SrvInit == RegInit /\ TimInit /\ garbled = {}

-----------------------------------------------------------------------------
(* onConnection                                                            *)

OnConnectionUp(c) == ConnectionUp(c) /\ ListUp(c) /\ UNCHANGED garbled

ContextSet == SetContext /\ UNCHANGED <<dirVars, garbled>>

\* The device stays registered when its connection is reaped.
MutOnConnectionDown(c) ==
  /\ ListDown(c)
  /\ \/ c \notin doomed /\ ConnectionDown(c)
     \/ c \in doomed /\ UNCHANGED dirVars
  /\ garbled' = garbled \ {c}

OnConnectionDown(c) ==
  /\ ListDown(c)
  /\ ConnectionDown(c)
  /\ garbled' = garbled \ {c}

-----------------------------------------------------------------------------
(* LengthHeaderCodec::onMessage cuts the input into messages.  A length    *)
(* out of range shuts the connection down and leaves the header in the     *)
(* buffer, so that nothing of this input is ever dispatched again.         *)

\* A message may be handled while another connection is being opened.
MutDispatches(c) == Receiving(c)

Dispatches(c) == Polling /\ c \notin garbled

InvalidLength(c) ==
  /\ Receiving(c)
  /\ Dispatches(c)
  /\ connState' = AfterShutdown(c)
  /\ garbled' = garbled \cup {c}
  /\ UNCHANGED <<crashed, dirVars, reaperVars>>

(* p2pServer::onMessage: one branch per command; a heart beat only works   *)
(* on the list, every other command only on the directory.                 *)

OnMessage(c) ==
  /\ Dispatches(c)
  /\ \/ HandlerStep(c) /\ UNCHANGED reaperVars
     \/ HeartBeat(c) /\ UNCHANGED dirVars
  /\ UNCHANGED garbled

NodeSpliced == Splice /\ UNCHANGED <<dirVars, garbled>>

-----------------------------------------------------------------------------
OnTimer == WalkStep /\ UNCHANGED <<dirVars, garbled>>

Freed(c) == ConnectionFreed(c) /\ TimFreed(c) /\ UNCHANGED garbled

TimePasses == Tick /\ UNCHANGED <<dirVars, garbled>>

SrvHalted == crashed /\ UNCHANGED srvVars

SrvNext ==
  \/ \E c \in Conn : \/ OnConnectionUp(c) \/ OnConnectionDown(c)
                     \/ OnMessage(c) \/ InvalidLength(c) \/ Freed(c)
  \/ ContextSet
  \/ NodeSpliced
  \/ OnTimer
  \/ TimePasses
  \/ SrvHalted

SrvSpec == SrvInit /\ [][SrvNext]_srvVars

(* Clients that hold one id at a time, and the fairness of the two loops:  *)
(* each finishes what it began, and the I/O loop serves every event in its *)
(* queue (strong fairness: it waits there while other handlers run).  What *)
(* onTimer has shut down is closed by forceCloseWithDelay.  What a takeover*)
(* or the codec has shut down is closed by the client library, which sees  *)
(* end-of-file, or by TCP, which gives up on a dead host.  Freeing an      *)
(* object that nobody refers to is immediate.                              *)
SrvFairSpec ==
  /\ SrvInit
  /\ [][SrvNext /\ OneIdPerConnection]_srvVars
  /\ WF_srvVars(OnTimer)
  /\ WF_srvVars(ContextSet)
  /\ WF_srvVars(NodeSpliced)
  /\ \A c \in Conn :
       /\ SF_srvVars(connState[c] = "kDisconnecting" /\ OnConnectionDown(c))
       /\ WF_srvVars(Freed(c))

-----------------------------------------------------------------------------
(* A connection that falls silent is reaped and its device forgotten: when *)
(* the heart beats stay out for long enough it goes DOWN and no entry of   *)
(* _connections names it, however the handlers disturb the walk of onTimer.*)
SilentIsReaped ==
  \A c \in Conn :
    (c \in Listed /\ silence[c] > Idle + MaxPass)
      ~> \/ c \notin Listed /\ \A d \in DeviceId : connections[d] # c
         \/ silence[c] <= Idle
         \/ crashed

(* No connection object leaks: one that has gone DOWN is freed, because    *)
(* the lists that refer to it are cleared when their owners go DOWN.       *)
ClosedIsFreed ==
  \A c \in Conn : connState[c] = "kDisconnected"
    ~> (connState[c] = "kConnecting" \/ crashed)

=============================================================================
