------------------------------ MODULE CClient ------------------------------
(***************************************************************************)
(* The C client as its threads see it: application threads inside          *)
(* need_to_send, the send thread, the receive thread and the check-net     *)
(* thread, which beats the heart and reconnects (API/C/stupidP2P.c).       *)
(*                                                                         *)
(* Messages are whole: CReceiver is about how bytes become messages.       *)
(* send_fifo is a queue.  A request is known by the thread that queued it  *)
(* and by the number of the call.  The server answers in the order of the  *)
(* requests.                                                               *)
(*                                                                         *)
(* Not modelled: failures of malloc, parameter errors, an application that *)
(* calls stupid_p2p_heart_beat itself, and stupid_p2p_deinit.              *)
(*                                                                         *)
(* close() does not wake a thread that is blocked in recv(): after a       *)
(* reconnect the receive thread may still sit on the old socket.           *)
(*                                                                         *)
(* Operators named Mut... are broken variants of the definition that       *)
(* follows them.                                                           *)
(***************************************************************************)
EXTENDS Integers, Sequences, SequencesExt

CONSTANTS App,        \* application threads
          CheckNet,   \* the check-net thread
          Command,    \* commands the application uses
          HeartBeat,  \* HEART_BEAT
          HeartBeatMax,  \* heart_beat_max
          MaxCalls,   \* bound: calls of every application thread
          MaxLosses,  \* bound: connections lost
          MaxLate     \* bound: answers that take longer than 3 seconds

ASSUME ThreadsAssumption == CheckNet \notin App /\ HeartBeat \notin Command
ASSUME BoundsAssumption ==
  /\ HeartBeatMax \in Nat \ {0}
  /\ MaxCalls \in Nat /\ MaxLosses \in Nat /\ MaxLate \in Nat

Caller == App \cup {CheckNet}
Kind == Command \cup {HeartBeat}

VARIABLES need_to_restart_flag,
          command_status,  \* the flag of every command
          send_fifo,       \* requests not yet sent
          heart_beat_not_receive_num,
          fdSet,           \* stupid_p2p_init has entered the client in the list
          pc, kind, call,  \* need_to_send of every caller: place, command, number
          result,          \* what its last call returned
          checkPc,         \* the check-net thread
          recvPc,          \* the receive thread: "top", "reading" or "stale"
          link,            \* the connection: "up", "silent" or "closed"
          requests, answers,  \* in flight on the connection
          oldRequests, oldAnswers,  \* in flight on the socket a stale receive
                           \* thread sits on
          losses, lates,   \* counters for the bounds
          executed,        \* history: the application's requests that were executed
          mixed            \* history: commands of the application whose calls
                           \* overlapped or were given up

callVars == <<pc, kind, call, result, mixed>>
netVars == <<link, requests, answers, oldRequests, oldAnswers, losses>>
clientVars == <<need_to_restart_flag, command_status, send_fifo,
                heart_beat_not_receive_num, fdSet, pc, kind, call, result,
                checkPc, recvPc, link, requests, answers, oldRequests,
                oldAnswers, losses, lates, executed, mixed>>

Request == Caller \X (0..MaxCalls) \X Kind
Answer == Kind \X {"success", "error"}

(* Every variable of the client has its type; no more heart beats are      *)
(* missed than heart_beat_max before the restart.                          *)
ClientTypeOK ==
  /\ need_to_restart_flag \in BOOLEAN /\ fdSet \in BOOLEAN
  /\ command_status \in [Kind -> {"success", "error", "not_receive"}]
  /\ send_fifo \in Seq(Request) /\ requests \in Seq(Request)
  /\ oldRequests \in Seq(Request)
  /\ answers \in Seq(Answer) /\ oldAnswers \in Seq(Answer)
  /\ heart_beat_not_receive_num \in 0..HeartBeatMax
  /\ pc \in [Caller -> {"idle", "entered", "waiting", "read"}]
  /\ kind \in [Caller -> Kind] /\ call \in [Caller -> 0..MaxCalls]
  /\ result \in [Caller -> {"none", "ok", "error_command", "net_error",
                            "restarting", "bad_param"}]
  /\ checkPc \in {"top", "clear", "beat", "beating"}
  /\ recvPc \in {"top", "reading", "stale"}
  /\ link \in {"up", "silent", "closed"}
  /\ losses \in 0..MaxLosses /\ lates \in 0..MaxLate
  /\ executed \subseteq Request
  /\ mixed \subseteq Command

\* stupid_p2p_init has connected and started the threads.
ClientInit ==
  /\ need_to_restart_flag = FALSE /\ fdSet = FALSE
  /\ command_status = [k \in Kind |-> "error"]
  /\ send_fifo = <<>> /\ requests = <<>> /\ answers = <<>>
  /\ oldRequests = <<>> /\ oldAnswers = <<>>
  /\ heart_beat_not_receive_num = 0
  /\ pc = [c \in Caller |-> "idle"] /\ kind = [c \in Caller |-> HeartBeat]
  /\ call = [c \in Caller |-> 0] /\ result = [c \in Caller |-> "none"]
  /\ checkPc = "top" /\ recvPc = "top"
  /\ link = "up" /\ losses = 0 /\ lates = 0
  /\ executed = {} /\ mixed = {}

-----------------------------------------------------------------------------
(* need_to_send and waitting_flag_and_return                               *)

\* Another call of the same command is under way.
Overlaps(c, k) == \E o \in Caller \ {c} : pc[o] # "idle" /\ kind[o] = k

Mix(k) == mixed \cup ({k} \ {HeartBeat})

\* The tests at the beginning: no client yet, or a restart under way.
Refused(c) ==
  /\ result' = [result EXCEPT ![c] = IF fdSet THEN "restarting" ELSE "bad_param"]
  /\ UNCHANGED <<pc, kind, call, mixed>>

Entered(c, k, n) ==
  /\ pc' = [pc EXCEPT ![c] = "entered"]
  /\ kind' = [kind EXCEPT ![c] = k]
  /\ call' = [call EXCEPT ![c] = n]
  /\ mixed' = IF Overlaps(c, k) THEN Mix(k) ELSE mixed
  /\ UNCHANGED result

Begin(c, k, n) ==
  IF fdSet /\ ~need_to_restart_flag THEN Entered(c, k, n) ELSE Refused(c)

\* An application thread calls the API, once it has its fd.
AppCall(c, k) ==
  /\ fdSet /\ pc[c] = "idle" /\ call[c] < MaxCalls
  /\ Begin(c, k, call[c] + 1)
  /\ UNCHANGED <<need_to_restart_flag, command_status, send_fifo,
                 heart_beat_not_receive_num, fdSet, checkPc, recvPc, netVars,
                 lates, executed>>

\* The flag keeps the answer to the call before.
MutQueueCommand(c) ==
  /\ pc[c] = "entered"
  /\ send_fifo' = Append(send_fifo, <<c, call[c], kind[c]>>)
  /\ pc' = [pc EXCEPT ![c] = "waiting"]
  /\ UNCHANGED <<need_to_restart_flag, command_status,
                 heart_beat_not_receive_num, fdSet, kind, call, result, mixed,
                 checkPc, recvPc, netVars, lates, executed>>

\* *flag = CALL_BACK_NOT_RECEIVE, then send_command_fifo_push.  One step: no
\* other thread can tell a step between the two from one after them.
QueueCommand(c) ==
  /\ pc[c] = "entered"
  /\ command_status' = [command_status EXCEPT ![kind[c]] = "not_receive"]
  /\ send_fifo' = Append(send_fifo, <<c, call[c], kind[c]>>)
  /\ pc' = [pc EXCEPT ![c] = "waiting"]
  /\ UNCHANGED <<need_to_restart_flag, heart_beat_not_receive_num, fdSet, kind,
                 call, result, mixed, checkPc, recvPc, netVars, lates, executed>>

\* The answer to the call of c is on its way: no restart is under way, and a
\* thread or the server is about to move it on.
Coming(c) ==
  LET request == <<c, call[c], kind[c]>> IN
  /\ ~need_to_restart_flag
  /\ \/ Contains(send_fifo, request)
     \/ /\ link = "up"
        /\ recvPc = "stale" => oldRequests # <<>> \/ oldAnswers # <<>>
        /\ \/ Contains(requests, request)
           \/ \E i \in DOMAIN answers : answers[i][1] = kind[c]

\* The loop ends: the flag has changed, or three seconds are over.
StopWaiting(c) ==
  /\ pc[c] = "waiting"
  /\ \/ /\ command_status[kind[c]] # "not_receive"
        /\ UNCHANGED lates
     \/ /\ command_status[kind[c]] = "not_receive"
        /\ ~Coming(c)
        /\ UNCHANGED lates
     \/ /\ command_status[kind[c]] = "not_receive"
        /\ Coming(c)
        /\ lates < MaxLate
        /\ lates' = lates + 1
  /\ pc' = [pc EXCEPT ![c] = "read"]
  /\ UNCHANGED <<need_to_restart_flag, command_status, send_fifo,
                 heart_beat_not_receive_num, fdSet, kind, call, result, mixed,
                 checkPc, recvPc, netVars, executed>>

\* A command without an answer is queued again.
MutReturn(c) ==
  /\ pc[c] = "read"
  /\ LET flag == command_status[kind[c]] IN
       IF flag = "not_receive"
       THEN pc' = [pc EXCEPT ![c] = "entered"] /\ UNCHANGED result
       ELSE /\ pc' = [pc EXCEPT ![c] = "idle"]
            /\ result' = [result EXCEPT ![c] =
                            IF flag = "success" THEN "ok" ELSE "error_command"]
  /\ UNCHANGED <<need_to_restart_flag, command_status, send_fifo,
                 heart_beat_not_receive_num, fdSet, kind, call, mixed, checkPc,
                 recvPc, netVars, lates, executed>>

\* The flag is read again for the result.
Return(c) ==
  /\ pc[c] = "read"
  /\ LET flag == command_status[kind[c]] IN
       /\ result' = [result EXCEPT ![c] =
                       IF flag = "success" THEN "ok"
                       ELSE IF flag = "not_receive" THEN "net_error"
                       ELSE "error_command"]
       /\ mixed' = IF flag = "not_receive" THEN Mix(kind[c]) ELSE mixed
  /\ pc' = [pc EXCEPT ![c] = "idle"]
  /\ UNCHANGED <<need_to_restart_flag, command_status, send_fifo,
                 heart_beat_not_receive_num, fdSet, kind, call, checkPc,
                 recvPc, netVars, lates, executed>>

NeedToSend(c) ==
  QueueCommand(c) \/ StopWaiting(c) \/ Return(c)

-----------------------------------------------------------------------------
(* The check-net thread                                                    *)

\* Top of the loop.  With the flag set: close the socket and connect again
\* (a failed attempt changes nothing and is tried again).
CheckTop ==
  /\ checkPc = "top"
  /\ IF need_to_restart_flag
     THEN /\ checkPc' = "clear"
          /\ link' = "up"
          /\ requests' = <<>> /\ answers' = <<>>
          /\ IF recvPc = "reading"
             THEN recvPc' = "stale" /\ oldRequests' = requests /\ oldAnswers' = answers
             ELSE UNCHANGED <<recvPc, oldRequests, oldAnswers>>
     ELSE /\ checkPc' = "beat"
          /\ UNCHANGED <<link, requests, answers, oldRequests, oldAnswers, recvPc>>
  /\ UNCHANGED <<need_to_restart_flag, command_status, send_fifo,
                 heart_beat_not_receive_num, fdSet, callVars, losses, lates,
                 executed>>

\* The count is not cleared.
MutCheckClear ==
  /\ checkPc = "clear"
  /\ need_to_restart_flag' = FALSE
  /\ checkPc' = "beat"
  /\ UNCHANGED <<heart_beat_not_receive_num, command_status, send_fifo, fdSet,
                 callVars, recvPc, netVars, lates, executed>>

\* Connected: the flag and the count are cleared.
CheckClear ==
  /\ checkPc = "clear"
  /\ need_to_restart_flag' = FALSE
  /\ heart_beat_not_receive_num' = 0
  /\ checkPc' = "beat"
  /\ UNCHANGED <<command_status, send_fifo, fdSet, callVars, recvPc, netVars,
                 lates, executed>>

CheckBeat ==
  /\ checkPc = "beat"
  /\ Begin(CheckNet, HeartBeat, 0)
  /\ checkPc' = "beating"
  /\ UNCHANGED <<need_to_restart_flag, command_status, send_fifo,
                 heart_beat_not_receive_num, fdSet, recvPc, netVars, lates,
                 executed>>

\* Only STUPID_P2P_ERROR_COMMOND counts as a missed heart beat.
MutMissed == result[CheckNet] = "error_command"

\* Any result but success: "ret = STUPID_P2P_NET_ERROR" is an assignment.
Missed == result[CheckNet] # "ok"

\* The heart beat has returned: count, and ask for a restart if need be.
CheckCount ==
  /\ checkPc = "beating" /\ pc[CheckNet] = "idle"
  /\ LET n == IF Missed THEN heart_beat_not_receive_num + 1 ELSE 0 IN
       /\ heart_beat_not_receive_num' = n
       /\ need_to_restart_flag' = (need_to_restart_flag \/ n >= HeartBeatMax)
  /\ checkPc' = "top"
  /\ UNCHANGED <<command_status, send_fifo, fdSet, callVars, recvPc, netVars,
                 lates, executed>>

CheckNetStep == CheckTop \/ CheckClear \/ CheckBeat \/ CheckCount

-----------------------------------------------------------------------------
(* The send thread and the receive thread                                  *)

\* Unless a restart is under way the oldest command is sent and popped,
\* whether or not it reaches the server.
SendThread ==
  /\ send_fifo # <<>>
  /\ ~need_to_restart_flag
  /\ requests' = IF link = "up" THEN Append(requests, Head(send_fifo))
                 ELSE requests
  /\ send_fifo' = Tail(send_fifo)
  /\ UNCHANGED <<need_to_restart_flag, command_status,
                 heart_beat_not_receive_num, fdSet, callVars, checkPc, recvPc,
                 link, answers, oldRequests, oldAnswers, losses, lates,
                 executed>>

RecvCall ==
  /\ recvPc = "top"
  /\ ~need_to_restart_flag
  /\ recvPc' = "reading"
  /\ UNCHANGED <<need_to_restart_flag, command_status, send_fifo,
                 heart_beat_not_receive_num, fdSet, callVars, checkPc, netVars,
                 lates, executed>>

\* An answer: parse_recv_net_command sets the flag of its command.
RecvAnswer ==
  /\ recvPc = "reading"
  /\ answers # <<>>
  /\ command_status' = [command_status EXCEPT ![Head(answers)[1]] =
                          Head(answers)[2]]
  /\ answers' = Tail(answers)
  /\ recvPc' = "top"
  /\ UNCHANGED <<need_to_restart_flag, send_fifo, heart_beat_not_receive_num,
                 fdSet, callVars, checkPc, link, requests, oldRequests, oldAnswers,
                 losses, lates, executed>>

\* An answer that was under way on the connection before.
RecvOldAnswer ==
  /\ recvPc = "stale"
  /\ oldAnswers # <<>>
  /\ command_status' = [command_status EXCEPT ![Head(oldAnswers)[1]] =
                          Head(oldAnswers)[2]]
  /\ oldRequests' = <<>> /\ oldAnswers' = <<>>
  /\ recvPc' = "top"
  /\ UNCHANGED <<need_to_restart_flag, send_fifo, heart_beat_not_receive_num,
                 fdSet, callVars, checkPc, link, requests, answers, losses,
                 lates, executed>>

\* End of file or an error, on the socket the thread sits on.
RecvFails ==
  /\ recvPc = "stale" \/ (recvPc = "reading" /\ link = "closed")
  /\ need_to_restart_flag' = TRUE
  /\ recvPc' = "top"
  /\ oldRequests' = <<>> /\ oldAnswers' = <<>>
  /\ UNCHANGED <<command_status, send_fifo, heart_beat_not_receive_num, fdSet,
                 callVars, checkPc, link, requests, answers, losses, lates,
                 executed>>

ReceiveThread == RecvCall \/ RecvAnswer \/ RecvOldAnswer \/ RecvFails

-----------------------------------------------------------------------------
(* Surroundings                                                            *)

\* stupid_p2p_init enters the client in the list and returns.
InitReturns ==
  /\ ~fdSet
  /\ fdSet' = TRUE
  /\ UNCHANGED <<need_to_restart_flag, command_status, send_fifo,
                 heart_beat_not_receive_num, callVars, checkPc, recvPc,
                 netVars, lates, executed>>

\* The server executes the oldest request of a connection and answers it; a
\* heart beat always succeeds.
Serve(reqs, answersNow, answersNext) ==
  LET r == Head(reqs) IN
  \/ /\ answersNext = Append(answersNow, <<r[3], "success">>)
     /\ executed' = IF r[3] = HeartBeat THEN executed ELSE executed \cup {r}
  \/ /\ r[3] # HeartBeat
     /\ answersNext = Append(answersNow, <<r[3], "error">>)
     /\ UNCHANGED executed

ServerAnswers ==
  /\ requests # <<>>
  /\ Serve(requests, answers, answers')
  /\ requests' = Tail(requests)
  /\ UNCHANGED <<need_to_restart_flag, command_status, send_fifo,
                 heart_beat_not_receive_num, fdSet, callVars, checkPc, recvPc,
                 link, oldRequests, oldAnswers, losses, lates>>

\* To the server the connection before is as good as the new one.
ServerAnswersOld ==
  /\ oldRequests # <<>>
  /\ Serve(oldRequests, oldAnswers, oldAnswers')
  /\ oldRequests' = Tail(oldRequests)
  /\ UNCHANGED <<need_to_restart_flag, command_status, send_fifo,
                 heart_beat_not_receive_num, fdSet, callVars, checkPc, recvPc,
                 link, requests, answers, losses, lates>>

\* The connection breaks, with or without the client being told.
LinkLost ==
  /\ link = "up" /\ losses < MaxLosses
  /\ link' \in {"silent", "closed"}
  /\ losses' = losses + 1
  /\ requests' = <<>> /\ answers' = <<>>
  /\ UNCHANGED <<need_to_restart_flag, command_status, send_fifo,
                 heart_beat_not_receive_num, fdSet, callVars, checkPc, recvPc,
                 oldRequests, oldAnswers, lates, executed>>

ClientNext ==
  \/ \E c \in Caller : NeedToSend(c)
  \/ \E c \in App, k \in Command : AppCall(c, k)
  \/ CheckNetStep
  \/ SendThread \/ ReceiveThread
  \/ InitReturns \/ ServerAnswers \/ ServerAnswersOld \/ LinkLost

ClientSpec == ClientInit /\ [][ClientNext]_clientVars

(* Every thread goes on; the server answers while the connection is up.    *)
ClientFairSpec ==
  /\ ClientSpec
  /\ \A c \in Caller : WF_clientVars(NeedToSend(c))
  /\ WF_clientVars(CheckNetStep)
  /\ WF_clientVars(SendThread)
  /\ WF_clientVars(ReceiveThread)
  /\ WF_clientVars(ServerAnswers)
  /\ WF_clientVars(ServerAnswersOld)
  /\ WF_clientVars(InitReturns)

-----------------------------------------------------------------------------
(* Properties                                                              *)

(* A call that returns success had its own request executed, as long as no *)
(* two calls of the command overlapped and none was given up: across lost  *)
(* connections and restarts no flag of an earlier call is taken for it.    *)
AnswerIsOwn ==
  \A c \in App :
    (pc[c] = "idle" /\ result[c] = "ok" /\ kind[c] \notin mixed)
      => <<c, call[c], kind[c]>> \in executed

(* Every call returns.                                                     *)
CallsReturn == \A c \in Caller : pc[c] = "waiting" ~> pc[c] = "idle"

(* However connections are lost, silently or not, and whatever the order   *)
(* in which the receive thread and the check-net thread notice, the client *)
(* ends up connected with its receive thread on the new socket, and stays  *)
(* so when no more connections are lost and no more answers are late.      *)
Recovers == <>[](link = "up" /\ ~need_to_restart_flag /\ recvPc # "stale")

=============================================================================
