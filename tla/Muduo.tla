------------------------------- MODULE Muduo -------------------------------
(***************************************************************************)
(* The part of the muduo network library the relay server stands on: the   *)
(* life cycle of a TcpConnection and the process it lives in.  The library *)
(* is linked, not part of this repository; its headers are, and the server *)
(* code shows how it is used.                                              *)
(*                                                                         *)
(* A member of Conn is a slot for a TcpConnection object.  A slot in       *)
(* kConnecting holds no object yet: the library creates the object and     *)
(* reports it UP in one go on the single I/O thread.  An object that is    *)
(* kDisconnected lives on for as long as a shared pointer to it exists;    *)
(* the components that keep such pointers say when a slot may be reused.   *)
(***************************************************************************)
CONSTANT Conn

VARIABLES connState,  \* TcpConnection::state_ of every slot
          crashed     \* the process executed undefined behaviour and died

muduoVars == <<connState, crashed>>

StateE == {"kConnecting", "kConnected", "kDisconnecting", "kDisconnected"}

MuduoTypeOK ==
  /\ connState \in [Conn -> StateE]
  /\ crashed \in BOOLEAN

MuduoInit ==
  /\ connState = [c \in Conn |-> "kConnecting"]
  /\ crashed = FALSE

connected(c) == connState[c] = "kConnected"

\* After shutdown() only the write side is closed: input is still dispatched
\* to the server until the peer closes or forceClose() runs.
Receiving(c) == ~crashed /\ connState[c] \in {"kConnected", "kDisconnecting"}

\* connState after c->shutdown(), which acts on a kConnected connection only.
AfterShutdown(c) ==
  [connState EXCEPT ![c] = IF @ = "kConnected" THEN "kDisconnecting" ELSE @]

\* TcpServer accepts a connection and reports it UP.
Established(c) ==
  /\ ~crashed
  /\ connState[c] = "kConnecting"
  /\ connState' = [connState EXCEPT ![c] = "kConnected"]
  /\ UNCHANGED crashed

\* The peer closed, the link broke or forceClose() ran: the connection is
\* reported DOWN.
Closed(c) ==
  /\ Receiving(c)
  /\ connState' = [connState EXCEPT ![c] = "kDisconnected"]
  /\ UNCHANGED crashed

\* The last shared pointer to a closed connection is dropped.
Destroyed(c) ==
  /\ ~crashed
  /\ connState[c] = "kDisconnected"
  /\ connState' = [connState EXCEPT ![c] = "kConnecting"]
  /\ UNCHANGED crashed

\* Another part of the process shuts a live connection down.
ShutDown(c) ==
  /\ ~crashed
  /\ connected(c)
  /\ connState' = AfterShutdown(c)
  /\ UNCHANGED crashed

\* Undefined behaviour takes the process down.
Abort ==
  /\ ~crashed
  /\ crashed' = TRUE
  /\ UNCHANGED connState

=============================================================================
