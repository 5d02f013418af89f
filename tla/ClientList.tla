----------------------------- MODULE ClientList -----------------------------
(***************************************************************************)
(* The clients of one process (API/C/stupidP2P.c): application threads     *)
(* create a client with stupid_p2p_init, look it up by fd in every call,   *)
(* and end it with stupid_p2p_deinit.                                      *)
(*                                                                         *)
(* A client is known by its node, a member of Node; list holds the nodes   *)
(* behind stupid_p2p_head, whose fd is 0.  The list is walked under a      *)
(* rwlock, so add, find and remove are one step each; the fd of a node is  *)
(* set after add has returned.  The application calls with an fd that init *)
(* returned, and not after it called deinit.                               *)
(*                                                                         *)
(* Every thread of a client detaches itself, so the pthread_join of deinit *)
(* and of the error paths returns at once: a cancelled thread runs on to   *)
(* its next cancellation point.  What it then does with a node that was    *)
(* freed is undefined and not modelled.                                    *)
(***************************************************************************)
EXTENDS Integers, Sequences, SequencesExt, FiniteSets, FiniteSetsExt

CONSTANTS Node, Nil,
          MaxData    \* bound: data one client receives

ASSUME ListAssumption == Nil \notin Node /\ MaxData \in Nat

VARIABLES list,      \* the nodes of the list, in order
          fd,        \* of every node; 0 until it is set
          _g_fd_start,
          place,     \* how far init or deinit of every node is
          ret,       \* what add returned for a node
          receiving, \* the nodes whose receive thread runs
          unread,    \* data in the recv_data_list of every node
          released,  \* the nodes that were freed
          received, handed  \* history: data received, and taken by the owner

listVars == <<list, fd, _g_fd_start, place, ret, receiving, unread, released,
              received, handed>>

ListInit ==
  /\ list = <<>> /\ _g_fd_start = 0 /\ released = {}
  /\ fd = [n \in Node |-> 0] /\ ret = [n \in Node |-> 0]
  /\ place = [n \in Node |-> "unused"] /\ receiving = {}
  /\ unread = [n \in Node |-> 0]
  /\ received = [n \in Node |-> 0] /\ handed = [n \in Node |-> 0]

-----------------------------------------------------------------------------
Matches(f) == {i \in 1..Len(list) : fd[list[i]] = f}

find_stupid_p2p(f) ==
  IF Matches(f) = {} THEN Nil ELSE list[Min(Matches(f))]

add_stupid_p2p_to_list(n) ==
  /\ _g_fd_start' = _g_fd_start + 1
  /\ ret' = [ret EXCEPT ![n] = _g_fd_start']
  /\ list' = Append(list, n)

\* The node is freed and stays linked.
MutRemoveFree(f) ==
  LET m == Matches(f) IN
    IF m = {} THEN UNCHANGED <<list, released>>
    ELSE list' = list /\ released' = released \cup {list[Min(m)]}

\* The loop ends before it looks at the last node, which is never removed.
remove_stupid_p2p(f) ==
  LET m == Matches(f) \ {Len(list)} IN
    IF m = {} THEN UNCHANGED <<list, released>>
    ELSE /\ list' = RemoveAt(list, Min(m))
         /\ released' = released \cup {list[Min(m)]}

-----------------------------------------------------------------------------
(* stupid_p2p_init.  No error path frees the node.                         *)

\* The connection is made and the receive thread is created.
StartReceiving(n) ==
  /\ place[n] = "unused"
  /\ place' = [place EXCEPT ![n] = "started"]
  /\ receiving' = receiving \cup {n}
  /\ UNCHANGED <<list, fd, _g_fd_start, ret, unread, released, received, handed>>

\* The parameters are wrong, the server cannot be reached, or one of the other
\* threads cannot be created and those that run are cancelled.
InitFails(n) ==
  /\ place[n] \in {"unused", "started"}
  /\ place' = [place EXCEPT ![n] = "failed"]
  /\ UNCHANGED <<list, fd, _g_fd_start, ret, receiving, unread, released,
                 received, handed>>

InitAdds(n) ==
  /\ place[n] = "started"
  /\ add_stupid_p2p_to_list(n)
  /\ place' = [place EXCEPT ![n] = "added"]
  /\ UNCHANGED <<fd, receiving, unread, released, received, handed>>

InitReturns(n) ==
  /\ place[n] = "added"
  /\ fd' = [fd EXCEPT ![n] = ret[n]]
  /\ place' = [place EXCEPT ![n] = "live"]
  /\ UNCHANGED <<list, _g_fd_start, ret, receiving, unread, released, received,
                 handed>>

stupid_p2p_init(n) ==
  StartReceiving(n) \/ InitFails(n) \/ InitAdds(n) \/ InitReturns(n)

-----------------------------------------------------------------------------
\* recv_data_list_add by the receive thread
Receive(n) ==
  /\ n \in receiving /\ n \notin released /\ received[n] < MaxData
  /\ received' = [received EXCEPT ![n] = @ + 1]
  /\ unread' = [unread EXCEPT ![n] = @ + 1]
  /\ UNCHANGED <<list, fd, _g_fd_start, place, ret, receiving, released, handed>>

\* recv_data_list_return_data for the owner of client n
RecvData(n) ==
  LET p == find_stupid_p2p(fd[n]) IN
    /\ place[n] = "live" /\ p # Nil
    /\ unread[p] > 0
    /\ unread' = [unread EXCEPT ![p] = @ - 1]
    /\ handed' = [handed EXCEPT ![n] = @ + 1]
    /\ UNCHANGED <<list, fd, _g_fd_start, place, ret, receiving, released,
                   received>>

\* The cancelled receive thread reaches a cancellation point.
ReceiveEnds(n) ==
  /\ place[n] \in {"failed", "cancelled", "emptied", "ended"}
  /\ n \in receiving
  /\ receiving' = receiving \ {n}
  /\ UNCHANGED <<list, fd, _g_fd_start, place, ret, unread, released, received,
                 handed>>

-----------------------------------------------------------------------------
(* stupid_p2p_deinit                                                       *)

DeinitCancels(n) ==
  /\ place[n] = "live"
  /\ place' = [place EXCEPT ![n] = IF find_stupid_p2p(fd[n]) = Nil
                                   THEN "ended" ELSE "cancelled"]
  /\ UNCHANGED <<list, fd, _g_fd_start, ret, receiving, unread, released,
                 received, handed>>

\* recv_data_list_deinit and send_command_fifo_deinit
DeinitEmpties(n) ==
  /\ place[n] = "cancelled"
  /\ place' = [place EXCEPT ![n] = "emptied"]
  /\ unread' = [unread EXCEPT ![n] = 0]
  /\ UNCHANGED <<list, fd, _g_fd_start, ret, receiving, released, received, handed>>

DeinitRemoves(n) ==
  /\ place[n] = "emptied"
  /\ remove_stupid_p2p(fd[n])
  /\ place' = [place EXCEPT ![n] = "ended"]
  /\ UNCHANGED <<fd, _g_fd_start, ret, receiving, unread, received, handed>>

stupid_p2p_deinit(n) == DeinitCancels(n) \/ DeinitEmpties(n) \/ DeinitRemoves(n)

ListNext ==
  \E n \in Node :
    \/ stupid_p2p_init(n) \/ stupid_p2p_deinit(n)
    \/ Receive(n) \/ RecvData(n) \/ ReceiveEnds(n)

ListSpec == ListInit /\ [][ListNext]_listVars

-----------------------------------------------------------------------------
(* A client whose init returned is found by its fd until its own deinit    *)
(* ends, whatever inits and deinits of other clients run in between: fds   *)
(* are never given out twice (_g_fd_start) and remove_stupid_p2p unlinks   *)
(* no other node.                                                          *)
LiveFindable ==
  \A n \in Node :
    place[n] \in {"live", "cancelled", "emptied"} => find_stupid_p2p(fd[n]) = n

(* No node that remove_stupid_p2p freed is linked in the list, where the   *)
(* next walk of any thread would read it, and no node is linked twice.     *)
NoFreedNodeLinked ==
  /\ \A i \in 1..Len(list) : list[i] \notin released
  /\ \A i, j \in 1..Len(list) : list[i] = list[j] => i = j

(* Data received for a client that lives is taken by its own application   *)
(* or waits for it: neither calls with the fd of another client nor        *)
(* another client's recv_data_list_deinit take it.                         *)
DataStaysWithOwner ==
  \A n \in Node : place[n] = "live" => received[n] = handed[n] + unread[n]

(* Clients do not get into each other's way: each is found by its own fd   *)
(* and keeps its data, and no walk of the list meets a freed node.         *)
ListSound == LiveFindable /\ NoFreedNodeLinked /\ DataStaysWithOwner

=============================================================================
