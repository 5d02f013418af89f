------------------------------ MODULE PyClient ------------------------------
(***************************************************************************)
(* The life of a Python client (API/Python/stupidP2P.py, stupidP2PClient   *)
(* and clientCheckNetThread): the application sends commands and at last   *)
(* calls deinitClient, while a heart-beat thread watches the connection    *)
(* and restarts the client from within itself.                             *)
(*                                                                         *)
(* Connections are numbered.  Connection i has the receive thread i and    *)
(* the heart-beat thread i that initClient starts for it; current is the   *)
(* number of self.recvThread and self.checkNetThread.  A lost connection   *)
(* stays open on this side: a send on it fails or goes unanswered.         *)
(*                                                                         *)
(* Assumed: an answer on a connection that works comes within the three    *)
(* seconds of __sendCommand, and the three seconds a new heart-beat thread *)
(* sleeps are longer than the rest of the restart that made it.            *)
(* Not modelled: deinitClient called while a restart is due or under way.  *)
(***************************************************************************)
EXTENDS Integers

CONSTANTS MaxConn, MaxLosses, MaxCalls   \* bounds

ASSUME PyClientAssumption ==
  MaxConn \in Nat \ {0} /\ MaxLosses \in Nat /\ MaxCalls \in Nat

Beat == 1..MaxConn
User == 0
Caller == Beat \cup {User}

VARIABLES sock,         \* the connection of self.sock, 0 if it has none
          link,         \* of every connection
          current, runningFlag, needToRestartFlag, notReceiveNum,
          commandResponse,   \* of every receive thread: user's and heart beat's
          stopCheck, stopRecv,  \* threads whose _stop_event is set
          ended,        \* receive threads that ended
          inflight,     \* of every connection: callers the server will answer
          pc, ret, calls, losses,
          answered      \* history: callers whose present request was answered

clientState == <<current, runningFlag, needToRestartFlag, notReceiveNum>>
net == <<sock, link, inflight, losses>>
threads == <<stopCheck, stopRecv, ended>>
lifeVars == <<sock, link, current, runningFlag, needToRestartFlag,
              notReceiveNum, commandResponse, stopCheck, stopRecv, ended,
              inflight, pc, ret, calls, losses, answered>>

command(p) == IF p = User THEN "data" ELSE "beat"
NoResponse == [c \in {"data", "beat"} |-> "none"]

Go(p, where) == pc' = [pc EXCEPT ![p] = where]

LifeInit ==
  /\ sock = 1 /\ current = 1
  /\ link = [i \in Beat |-> IF i = 1 THEN "open" ELSE "unused"]
  /\ runningFlag = TRUE /\ needToRestartFlag = FALSE /\ notReceiveNum = 0
  /\ commandResponse = [i \in Beat |-> NoResponse]
  /\ stopCheck = {} /\ stopRecv = {} /\ ended = {}
  /\ inflight = [i \in Beat |-> {}] /\ losses = 0
  /\ pc = [p \in Caller |-> IF p = User THEN "idle"
                            ELSE IF p = 1 THEN "top" ELSE "unborn"]
  /\ ret = [p \in Caller |-> "none"] /\ calls = 0
  /\ answered = {}

-----------------------------------------------------------------------------
(* The connection and the receive threads                                  *)

Lose(i) ==
  /\ link[i] = "open" /\ losses < MaxLosses
  /\ link' = [link EXCEPT ![i] = "lost"]
  /\ losses' = losses + 1
  /\ UNCHANGED <<sock, clientState, commandResponse, threads, inflight, pc,
                 ret, calls, answered>>

\* The receive thread of connection i stores the answer to p's request.
Answer(i, p) ==
  /\ p \in inflight[i] /\ link[i] = "open" /\ i \notin ended
  /\ inflight' = [inflight EXCEPT ![i] = @ \ {p}]
  /\ commandResponse' = [commandResponse EXCEPT ![i][command(p)] = "answer"]
  /\ answered' = answered \cup {p}
  /\ UNCHANGED <<sock, link, clientState, threads, pc, ret, calls, losses>>

RecvThreadEnds(i) ==
  /\ i \in stopRecv \ ended
  /\ ended' = ended \cup {i}
  /\ UNCHANGED <<net, clientState, commandResponse, stopCheck, stopRecv, pc,
                 ret, calls, answered>>

-----------------------------------------------------------------------------
(* __sendCommand and __send, called by p; a step per access to a shared    *)
(* attribute.                                                              *)

After(p) == IF p = User THEN "idle" ELSE "result"

Begin(p) ==
  /\ pc[p] = "begin"
  /\ IF runningFlag /\ ~needToRestartFlag
     THEN Go(p, "reset") /\ UNCHANGED ret
     ELSE Go(p, After(p)) /\ ret' = [ret EXCEPT ![p] = "fail"]
  /\ UNCHANGED <<net, clientState, commandResponse, threads, calls, answered>>

\* The last answer is left in place.
MutReset(p) ==
  /\ pc[p] = "reset"
  /\ answered' = answered \ {p}
  /\ Go(p, "flags")
  /\ UNCHANGED <<net, clientState, commandResponse, threads, ret, calls>>

Reset(p) ==
  /\ pc[p] = "reset"
  /\ commandResponse' = [commandResponse EXCEPT ![current][command(p)] = "none"]
  /\ answered' = answered \ {p}
  /\ Go(p, "flags")
  /\ UNCHANGED <<net, clientState, threads, ret, calls>>

TestFlags(p) ==
  /\ pc[p] = "flags"
  /\ Go(p, IF runningFlag /\ ~needToRestartFlag THEN "send" ELSE "poll")
  /\ UNCHANGED <<net, clientState, commandResponse, threads, ret, calls,
                 answered>>

\* A send on a socket that was never connected fails like one on a closed one.
sockLink == IF sock = 0 THEN "closed" ELSE link[sock]

SendWorks(p) ==
  /\ pc[p] = "send" /\ sockLink \in {"open", "lost"}
  /\ inflight' = [inflight EXCEPT ![sock] = @ \cup {p}]
  /\ Go(p, "poll")
  /\ UNCHANGED <<sock, link, losses, clientState, commandResponse, threads,
                 ret, calls, answered>>

SendFails(p) ==
  /\ pc[p] = "send" /\ sockLink \in {"lost", "closed"}
  /\ needToRestartFlag' = TRUE
  /\ Go(p, "poll")
  /\ UNCHANGED <<net, current, runningFlag, notReceiveNum, commandResponse,
                 threads, ret, calls, answered>>

\* The loop ends with an answer, or after three seconds.
Poll(p) ==
  /\ pc[p] = "poll"
  /\ \/ commandResponse[current][command(p)] # "none"
     \/ \A i \in Beat : p \in inflight[i] => link[i] # "open" \/ i \in ended
  /\ Go(p, "return")
  /\ UNCHANGED <<net, clientState, commandResponse, threads, ret, calls,
                 answered>>

Return(p) ==
  /\ pc[p] = "return"
  /\ ret' = [ret EXCEPT ![p] = commandResponse[current][command(p)]]
  /\ Go(p, After(p))
  /\ UNCHANGED <<net, clientState, commandResponse, threads, calls, answered>>

sendCommand(p) ==
  \/ Begin(p) \/ Reset(p) \/ TestFlags(p) \/ SendWorks(p) \/ SendFails(p)
  \/ Poll(p) \/ Return(p)

-----------------------------------------------------------------------------
(* deinitClient, called by the application or by restartClient             *)

\* The application ends the client while no restart is due or under way.
Quiet ==
  ~needToRestartFlag /\ \A h \in Beat : pc[h] \in {"unborn", "top", "asleep", "exit"}

\* Where p goes after deinitClient.
Onwards(p) == IF p = User THEN "gone" ELSE "socket"

DeinitTest(p) ==
  /\ pc[p] = "deinit" /\ (p = User => Quiet)
  /\ Go(p, IF runningFlag THEN "stopCheck" ELSE Onwards(p))
  /\ runningFlag' = FALSE
  /\ UNCHANGED <<net, current, needToRestartFlag, notReceiveNum,
                 commandResponse, threads, ret, calls, answered>>

\* The heart-beat thread that restarts does not stop itself.
MutStopCheckThread(p) ==
  /\ pc[p] = "stopCheck"
  /\ stopCheck' = stopCheck \cup ({current} \ {p})
  /\ Go(p, "stopRecv")
  /\ UNCHANGED <<net, clientState, commandResponse, stopRecv, ended, ret, calls,
                 answered>>

StopCheckThread(p) ==
  /\ pc[p] = "stopCheck"
  /\ stopCheck' = stopCheck \cup {current}
  /\ Go(p, "stopRecv")
  /\ UNCHANGED <<net, clientState, commandResponse, stopRecv, ended, ret, calls,
                 answered>>

StopRecvThread(p) ==
  /\ pc[p] = "stopRecv"
  /\ stopRecv' = stopRecv \cup {current}
  /\ Go(p, "close")
  /\ UNCHANGED <<net, clientState, commandResponse, stopCheck, ended, ret, calls,
                 answered>>

Close(p) ==
  /\ pc[p] = "close"
  /\ link' = [i \in Beat |-> IF i = sock THEN "closed" ELSE link[i]]
  /\ Go(p, Onwards(p))
  /\ UNCHANGED <<sock, inflight, losses, clientState, commandResponse, threads,
                 ret, calls, answered>>

deinitClient(p) ==
  DeinitTest(p) \/ StopCheckThread(p) \/ StopRecvThread(p) \/ Close(p)

-----------------------------------------------------------------------------
(* initClient, called by restartClient of heart-beat thread h              *)

NewSocket(h) ==
  /\ pc[h] = "socket"
  /\ sock' = 0
  /\ Go(h, "connect")
  /\ UNCHANGED <<link, inflight, losses, clientState, commandResponse, threads,
                 ret, calls, answered>>

ConnectFails(h) ==
  /\ pc[h] = "connect"
  /\ Go(h, "deinit")
  /\ UNCHANGED <<net, clientState, commandResponse, threads, ret, calls,
                 answered>>

ConnectWorks(h) ==
  /\ pc[h] = "connect"
  /\ \E i \in Beat :
       /\ link[i] = "unused" /\ \A j \in Beat : link[j] = "unused" => i <= j
       /\ sock' = i
       /\ link' = [link EXCEPT ![i] = "open"]
  /\ Go(h, "start")
  /\ UNCHANGED <<inflight, losses, clientState, commandResponse, threads, ret,
                 calls, answered>>

\* The two threads of the new connection are made and started.
StartThreads(h) ==
  /\ pc[h] = "start"
  /\ current' = sock
  /\ pc' = [pc EXCEPT ![h] = "running", ![sock] = "top"]
  /\ UNCHANGED <<net, runningFlag, needToRestartFlag, notReceiveNum,
                 commandResponse, threads, ret, calls, answered>>

SetRunning(h) ==
  /\ pc[h] = "running"
  /\ runningFlag' = TRUE
  /\ Go(h, "clear")
  /\ UNCHANGED <<net, current, needToRestartFlag, notReceiveNum,
                 commandResponse, threads, ret, calls, answered>>

ClearRestart(h) ==
  /\ pc[h] = "clear"
  /\ needToRestartFlag' = FALSE
  /\ Go(h, "top")
  /\ UNCHANGED <<net, current, runningFlag, notReceiveNum, commandResponse,
                 threads, ret, calls, answered>>

initClient(h) ==
  NewSocket(h) \/ ConnectFails(h) \/ ConnectWorks(h) \/ StartThreads(h)
    \/ SetRunning(h) \/ ClearRestart(h)

-----------------------------------------------------------------------------
(* clientCheckNetThread.run and __heartBeat                                *)

\* The thread never looks at its event again.
MutRun(h) ==
  /\ pc[h] = "top"
  /\ Go(h, "asleep")
  /\ UNCHANGED <<net, clientState, commandResponse, threads, ret, calls,
                 answered>>

run(h) ==
  /\ pc[h] = "top"
  /\ Go(h, IF h \in stopCheck THEN "exit" ELSE "asleep")
  /\ UNCHANGED <<net, clientState, commandResponse, threads, ret, calls,
                 answered>>

\* Three seconds pass; no restart needs that long to finish its last steps.
Wake(h) ==
  /\ pc[h] = "asleep"
  /\ \A i \in Beat : pc[i] \notin {"running", "clear"}
  /\ Go(h, "begin")
  /\ UNCHANGED <<net, clientState, commandResponse, threads, ret, calls,
                 answered>>

Misses(h) == notReceiveNum + (IF ret[h] = "none" THEN 1 ELSE 0)

\* Only a send that failed restarts the client.
MutHeartBeatResult(h) ==
  /\ pc[h] = "result"
  /\ IF needToRestartFlag
     THEN notReceiveNum' = 0 /\ Go(h, "deinit")
     ELSE UNCHANGED notReceiveNum /\ Go(h, "top")
  /\ UNCHANGED <<net, current, runningFlag, needToRestartFlag, commandResponse,
                 threads, ret, calls, answered>>

HeartBeatResult(h) ==
  /\ pc[h] = "result"
  /\ IF Misses(h) > 2 \/ needToRestartFlag
     THEN notReceiveNum' = 0 /\ Go(h, "deinit")
     ELSE notReceiveNum' = Misses(h) /\ Go(h, "top")
  /\ UNCHANGED <<net, current, runningFlag, needToRestartFlag, commandResponse,
                 threads, ret, calls, answered>>

heartBeat(h) == run(h) \/ Wake(h) \/ HeartBeatResult(h)

-----------------------------------------------------------------------------
(* The application: one thread that sends commands, then ends the client   *)

UserCalls ==
  /\ pc[User] = "idle" /\ calls < MaxCalls
  /\ calls' = calls + 1
  /\ Go(User, "begin")
  /\ UNCHANGED <<net, clientState, commandResponse, threads, ret, answered>>

UserEnds ==
  /\ pc[User] = "idle"
  /\ Go(User, "deinit")
  /\ UNCHANGED <<net, clientState, commandResponse, threads, ret, calls,
                 answered>>

Step(p) ==
  \/ sendCommand(p) \/ deinitClient(p)
  \/ p \in Beat /\ (initClient(p) \/ heartBeat(p))

LifeNext ==
  \/ UserCalls \/ UserEnds
  \/ \E p \in Caller : Step(p)
  \/ \E i \in Beat : Lose(i) \/ RecvThreadEnds(i) \/ \E p \in Caller : Answer(i, p)

\* Threads run, answers come, and the server can be reached again and again.
LifeFairness ==
  /\ \A p \in Caller : WF_lifeVars(Step(p))
  /\ \A h \in Beat : SF_lifeVars(ConnectWorks(h))
  /\ \A i \in Beat : WF_lifeVars(RecvThreadEnds(i))
  /\ \A i \in Beat, p \in Caller : WF_lifeVars(Answer(i, p))

LifeSpec == LifeInit /\ [][LifeNext]_lifeVars /\ LifeFairness

-----------------------------------------------------------------------------
(* Properties                                                              *)

(* A call of the application that returns an answer returns the one to its *)
(* own request, also when the heart-beat thread swaps self.recvThread and  *)
(* self.sock between the steps of the call.                                *)
AnswerOfThisCall ==
  ret[User] = "answer" /\ pc[User] = "idle" => User \in answered

(* As long as the application has not called deinitClient, at most one     *)
(* heart-beat thread beats, and every heart-beat thread but the one of     *)
(* self.checkNetThread is stopped although the thread that restarts stops  *)
(* itself and goes on; so do the receive threads.                          *)
OneHeartBeat ==
  pc[User] \notin {"deinit", "stopCheck", "stopRecv", "close", "gone"} =>
    /\ \A i, j \in Beat :
         i # j => \/ pc[i] \in {"unborn", "top", "asleep", "exit"}
                  \/ pc[j] \in {"unborn", "top", "asleep", "exit"}
    /\ \A i \in Beat \ {current} :
         pc[i] # "unborn" => i \in stopCheck /\ i \in stopRecv

(* A lost connection is replaced by one that works, also when the loss is  *)
(* silent and only heart beats without an answer tell, unless the          *)
(* application ends the client.                                            *)
Working == runningFlag /\ sockLink = "open"

Reconnects == sockLink = "lost" ~> (Working \/ pc[User] = "gone")

(* deinitClient at a quiet moment ends every thread of the client for      *)
(* good, although the heart-beat thread may be past its test of the event  *)
(* and then runs one more __heartBeat on the client that ended.            *)
Ended(i) == pc[i] = "unborn" \/ (pc[i] = "exit" /\ i \in ended)

DeinitEnds == pc[User] = "gone" ~> [](\A i \in Beat : Ended(i))

=============================================================================
