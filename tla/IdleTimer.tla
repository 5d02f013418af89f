----------------------------- MODULE IdleTimer -----------------------------
(***************************************************************************)
(* The relay server's idle-connection reaper: p2pServer::_connectionList,  *)
(* a list of weak pointers kept in the order of the last heart beat, and   *)
(* p2pServer::onTimer, which walks it once a second (p2pServer.cc).        *)
(*                                                                         *)
(* The list is changed by the I/O thread (onConnection, heartBeatFunc) and *)
(* walked by the base-loop thread (runEvery), with no lock.  An action of  *)
(* either thread is one access to what they share: an operation on the     *)
(* list, a lastReceiveTime or a context.                                   *)
(*                                                                         *)
(* lastReceiveTime is kept as an age relative to the running clock, so     *)
(* that the clock needs no variable; ages stop at MaxAge, beyond which     *)
(* nothing compares them.                                                  *)
(***************************************************************************)
EXTENDS Muduo, Integers, SequencesExt

CONSTANTS Idle,     \* _idleSeconds
          MaxPass,  \* the longest time one walk of onTimer takes
          Nobody    \* not a connection

ASSUME IdleAssumption == Idle \in Nat /\ MaxPass \in Nat
ASSUME NobodyAssumption == Nobody \notin Conn

VARIABLES connectionList,  \* _connectionList
          age,             \* now - ConnInfo::lastReceiveTime
          silence,         \* history: time since UP or the last heart beat
          opening,         \* connection listed but without its context yet
          beating,         \* connection whose heart beat is noted but whose
                           \* node is still in its old place
          doomed,          \* connections with forceCloseWithDelay pending
          timerPc,         \* where onTimer stands
          timerConn,       \* the connection of the list node "it"
          timerFreed,      \* the node "it" has been erased under onTimer
          passAge          \* now - the Timestamp "now" onTimer works with

listVars == <<connectionList, age, silence, opening, beating>>
passVars == <<timerPc, timerConn, timerFreed, passAge>>
timVars == <<connectionList, age, silence, opening, beating, doomed, timerPc,
             timerConn, timerFreed, passAge, connState, crashed>>

MaxAge == Idle + 2 * MaxPass + 1

(* Every variable of the reaper has its type; a list node "it" exists      *)
(* exactly while a walk is under way.                                      *)
TimTypeOK ==
  /\ MuduoTypeOK
  /\ connectionList \in Seq(Conn)
  /\ age \in [Conn -> 0..MaxAge] /\ silence \in [Conn -> 0..MaxAge]
  /\ opening \in Conn \cup {Nobody} /\ beating \in Conn \cup {Nobody}
  /\ doomed \subseteq Conn
  /\ timerPc \in {"waiting", "examine", "timeout", "jump", "advance"}
  /\ timerConn \in Conn \cup {Nobody} /\ timerFreed \in BOOLEAN
  /\ timerPc = "waiting" <=> timerConn = Nobody
  /\ passAge \in 0..MaxPass

TimInit ==
  /\ MuduoInit
  /\ connectionList = <<>>
  /\ age = [c \in Conn |-> 0] /\ silence = [c \in Conn |-> 0]
  /\ opening = Nobody /\ beating = Nobody
  /\ doomed = {}
  /\ timerPc = "waiting"
  /\ timerConn = Nobody /\ timerFreed = FALSE
  /\ passAge = 0

Listed == ToSet(connectionList)

\* ConnInfo::position, the node of c; and the list without it.
position(c) == CHOOSE i \in DOMAIN connectionList : connectionList[i] = c

Erased(c) == RemoveAt(connectionList, position(c))

-----------------------------------------------------------------------------
(* I/O thread                                                              *)

\* The I/O thread is between two handlers.
Polling == opening = Nobody /\ beating = Nobody

\* onConnection, UP: the node is pushed before the context is attached.
ListUp(c) ==
  /\ Polling
  /\ Established(c)
  /\ connectionList' = Append(connectionList, c)
  /\ age' = [age EXCEPT ![c] = 0] /\ silence' = [silence EXCEPT ![c] = 0]
  /\ opening' = c
  /\ UNCHANGED <<beating, doomed, passVars>>

SetContext ==
  /\ ~crashed
  /\ opening # Nobody
  /\ opening' = Nobody
  /\ UNCHANGED <<connectionList, age, silence, beating, doomed, passVars,
                 muduoVars>>

\* The node is left in the list.
MutListDown(c) ==
  /\ Polling
  /\ Closed(c)
  /\ doomed' = doomed \ {c}
  /\ UNCHANGED <<listVars, passVars>>

\* onConnection, DOWN: the node is erased, under the walk or not.
ListDown(c) ==
  /\ Polling
  /\ Closed(c)
  /\ connectionList' = Erased(c)
  /\ doomed' = doomed \ {c}
  /\ timerFreed' = (timerFreed \/ timerConn = c)
  /\ UNCHANGED <<age, silence, opening, beating, timerPc, timerConn, passAge>>

\* heartBeatFunc notes the time ...
HeartBeat(c) ==
  /\ Polling
  /\ Receiving(c)
  /\ age' = [age EXCEPT ![c] = 0] /\ silence' = [silence EXCEPT ![c] = 0]
  /\ beating' = c
  /\ UNCHANGED <<connectionList, opening, doomed, passVars, muduoVars>>

\* The node keeps its place.
MutSplice ==
  /\ ~crashed
  /\ beating # Nobody
  /\ beating' = Nobody
  /\ UNCHANGED <<connectionList, age, silence, opening, doomed, passVars,
                 muduoVars>>

\* ... and splices the node to the end of the list.
Splice ==
  /\ ~crashed
  /\ beating # Nobody
  /\ connectionList' = Append(Erased(beating), beating)
  /\ beating' = Nobody
  /\ UNCHANGED <<age, silence, opening, doomed, passVars, muduoVars>>

-----------------------------------------------------------------------------
(* Base-loop thread: onTimer                                               *)

EndWalk ==
  /\ timerPc' = "waiting"
  /\ timerConn' = Nobody /\ timerFreed' = FALSE
  /\ passAge' = 0

\* The body of the loop is done with its node.
ToAdvance == timerPc' = "advance" /\ UNCHANGED <<timerConn, timerFreed, passAge>>

\* Timestamp::now() and begin().
WalkStart ==
  /\ ~crashed
  /\ timerPc = "waiting"
  /\ connectionList # <<>>
  /\ timerPc' = "examine"
  /\ timerConn' = Head(connectionList)
  /\ passAge' = 0
  /\ UNCHANGED <<timerFreed, listVars, doomed, muduoVars>>

\* timeDifference(now, info->lastReceiveTime)
SeenAge == age[timerConn] - passAge

\* lock() the node, read lastReceiveTime and choose the branch; the first
\* connection that is neither old nor ahead of the clock ends the walk.
Examine ==
  /\ ~crashed
  /\ timerPc = "examine"
  /\ ~timerFreed /\ timerConn # opening
  /\ \/ /\ SeenAge > Idle
        /\ timerPc' = "timeout"
        /\ UNCHANGED <<timerConn, timerFreed, passAge>>
     \/ /\ SeenAge < 0
        /\ timerPc' = "jump"
        /\ UNCHANGED <<timerConn, timerFreed, passAge>>
     \/ /\ SeenAge \in 0..Idle
        /\ EndWalk
  /\ UNCHANGED <<listVars, doomed, muduoVars>>

\* shutdown() and forceCloseWithDelay(3.5), if still connected().
Timeout ==
  /\ ~crashed
  /\ timerPc = "timeout"
  /\ connState' = AfterShutdown(timerConn)
  /\ doomed' = IF connected(timerConn) THEN doomed \cup {timerConn} ELSE doomed
  /\ ToAdvance
  /\ UNCHANGED <<listVars, crashed>>

\* lastReceiveTime is set as far back as the limit.
MutJump ==
  /\ ~crashed
  /\ timerPc = "jump"
  /\ age' = [age EXCEPT ![timerConn] = Idle + passAge]
  /\ ToAdvance
  /\ UNCHANGED <<connectionList, silence, opening, beating, doomed, muduoVars>>

\* "Time jump": lastReceiveTime = now, the time the walk began.
Jump ==
  /\ ~crashed
  /\ timerPc = "jump"
  /\ age' = [age EXCEPT ![timerConn] = passAge]
  /\ ToAdvance
  /\ UNCHANGED <<connectionList, silence, opening, beating, doomed, muduoVars>>

\* it++ and the test against end().
Advance ==
  /\ ~crashed
  /\ timerPc = "advance"
  /\ ~timerFreed
  /\ IF timerConn = Last(connectionList)
     THEN EndWalk
     ELSE /\ timerPc' = "examine"
          /\ \E i \in DOMAIN connectionList :
               /\ connectionList[i] = timerConn
               /\ timerConn' = connectionList[i + 1]
          /\ UNCHANGED <<timerFreed, passAge>>
  /\ UNCHANGED <<listVars, doomed, muduoVars>>

\* The node was erased by the I/O thread.  Using it is undefined: the
\* process dies, or what the memory holds leads the walk out of the list.
WalkDangling ==
  /\ ~crashed
  /\ timerPc \in {"examine", "advance"}
  /\ timerFreed
  /\ \/ Abort /\ UNCHANGED passVars
     \/ EndWalk /\ UNCHANGED muduoVars
  /\ UNCHANGED <<listVars, doomed>>

\* The connection has no context yet: any_cast yields a null pointer.
WalkNoContext ==
  /\ timerPc = "examine"
  /\ ~timerFreed /\ timerConn = opening
  /\ Abort
  /\ UNCHANGED <<listVars, doomed, passVars>>

WalkStep ==
  \/ WalkStart \/ Examine \/ Timeout \/ Jump \/ Advance
  \/ WalkDangling \/ WalkNoContext

-----------------------------------------------------------------------------
(* Surroundings                                                            *)

Older(f) == [c \in Conn |-> IF c \in Listed /\ f[c] < MaxAge
                           THEN f[c] + 1 ELSE f[c]]

\* Time passes; a walk is over within MaxPass.
Tick ==
  /\ ~crashed
  /\ timerPc # "waiting" => passAge < MaxPass
  /\ passAge' = IF timerPc = "waiting" THEN 0 ELSE passAge + 1
  /\ age' = Older(age) /\ silence' = Older(silence)
  /\ UNCHANGED <<connectionList, opening, beating, doomed, timerPc, timerConn,
                 timerFreed, muduoVars>>

\* A takeover (or the codec) shuts a connection down on the I/O thread.
TakenOver(c) ==
  /\ Polling
  /\ ShutDown(c)
  /\ UNCHANGED <<listVars, doomed, passVars>>

\* A closed connection goes, with its ConnInfo, once onTimer does not hold it.
TimFreed(c) ==
  /\ ~(timerConn = c /\ timerPc \in {"timeout", "jump"})
  /\ Destroyed(c)
  /\ age' = [age EXCEPT ![c] = 0] /\ silence' = [silence EXCEPT ![c] = 0]
  /\ UNCHANGED <<connectionList, opening, beating, doomed, passVars>>

\* The relay loop of another handler dies.
TimOtherAbort == Abort /\ UNCHANGED <<listVars, doomed, passVars>>

TimHalted == crashed /\ UNCHANGED timVars

TimNext ==
  \/ \E c \in Conn : \/ ListUp(c) \/ ListDown(c) \/ HeartBeat(c)
                     \/ TakenOver(c) \/ TimFreed(c)
  \/ SetContext
  \/ Splice
  \/ WalkStep
  \/ Tick
  \/ TimOtherAbort
  \/ TimHalted

TimSpec == TimInit /\ [][TimNext]_timVars

-----------------------------------------------------------------------------
(* Properties                                                              *)

(* The list holds every open connection exactly once and nothing else: the *)
(* iterator kept in ConnInfo::position is valid whenever a handler uses    *)
(* it, and onTimer never finds an expired weak pointer (its "conn has      *)
(* expired" branch, which would step past the erased node, is dead code).  *)
ListExact ==
  /\ Listed = {c \in Conn : connState[c] \in {"kConnected", "kDisconnecting"}}
  /\ IsInjective(connectionList)

(* Although onTimer sets lastReceiveTime back behind the heart beats of    *)
(* later nodes, the list stays ordered up to the duration of one walk, on  *)
(* which the walk relies that stops at the first fresh connection.  The    *)
(* only node out of order is that of a heart beat under way, between the   *)
(* time being noted and the splice: a walk that meets it there stops too   *)
(* early, and leaves the silent nodes behind it to a later walk.           *)
NearlyOrdered ==
  \A i, j \in DOMAIN connectionList :
    (i < j /\ connectionList[i] # beating)
      => age[connectionList[j]] <= age[connectionList[i]] + MaxPass

(* A connection is timed out only after it was silent for more than Idle   *)
(* less the duration of a walk, however the heart beats interleave with    *)
(* the reading and the rewriting of lastReceiveTime.                       *)
NoEarlyTimeout ==
  [][(timerPc = "examine" /\ timerPc' = "timeout")
       => silence[timerConn] + MaxPass > Idle]_timVars

=============================================================================
