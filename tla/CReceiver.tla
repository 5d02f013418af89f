----------------------------- MODULE CReceiver -----------------------------
(***************************************************************************)
(* The receiving half of the C client: the receive thread                  *)
(* (_stupid_p2p_recv_func), the byte ring recv_fifo, the parser            *)
(* parse_recv_net_command and the list recv_data_list from which           *)
(* stupid_p2p_recv_data serves the application (API/C/netWork.h,           *)
(* netWork.c, stupidP2P.c).                                                *)
(*                                                                         *)
(* A byte is known by its place in the concatenation of all the messages   *)
(* the server ever wrote to this client; the ring holds such places.  A    *)
(* message is known by the place of its first byte.  The four bytes of a   *)
(* length header read as the length of a message when they are the header  *)
(* of one; any other four bytes read as some member of Garbage.            *)
(*                                                                         *)
(* Not modelled: recv() interrupted by a signal handler installed without  *)
(* SA_RESTART, and a second application thread inside                      *)
(* stupid_p2p_recv_data of the same client.                                *)
(*                                                                         *)
(* Operators named Mut... are broken variants of the definition that       *)
(* follows them.                                                           *)
(***************************************************************************)
EXTENDS Integers, Sequences, SequencesExt

CONSTANTS N,         \* NET_READ_DATA_LENGTH, the size of recv_fifo
          Chunk,     \* sizeof(buf), the most one recv() returns
          Header,    \* NET_PACKAGE_LENGTH
          Body,      \* lengths of the data messages the server relays
          MaxBody,   \* sizeof(command), into which a message is copied
          MaxNum,    \* max_num of stupid_p2p_recv_data
          CallBack,  \* the ..._CALL_BACK codes, one for every command
          Garbage,   \* what bytes that are no header may read as
          StreamEnd,     \* bound: bytes the server writes
          MaxReconnects  \* bound: connections lost, not counting a good one
                         \* that is given up for the error of an old socket

ASSUME SizesAssumption ==
  /\ N \in Nat \ {0} /\ Chunk \in 1..N /\ Header \in Nat \ {0}
  /\ Body \subseteq Nat \ {0} /\ MaxBody \in Nat /\ MaxNum \in Nat
  /\ StreamEnd \in Nat /\ MaxReconnects \in Nat
  /\ Garbage \subseteq Int
  /\ "SEND_DATA" \notin CallBack

VARIABLES data, r_ptr, w_ptr, length,  \* recv_fifo
          pc,              \* the receive thread: "top" of its loop, inside
                           \* "recv" or at "parse"
          message,         \* messages the server wrote, by their first byte
          sentEnd,         \* the place of the next byte the server writes
          recvPos,         \* the place of the next byte recv() returns
          connBegin,       \* the place where this connection's bytes begin
          stale, oldEnd,   \* the receive thread sits in recv() on an old
                           \* socket, whose bytes end at oldEnd
          need_to_restart_flag,
          reconnects,      \* number of reconnections
          command_status,  \* one flag for every command
          recv_data_list,  \* data for the application, by message
          crashed,         \* a store outside of an array ended the process
          torn,    \* history: bytes were lost inside a message, with a
                   \* connection or because recv_fifo was full
          parsed,  \* history: the messages parse_recv_net_command handled
          handed,  \* history: what the application got
          lost     \* history: data dropped for want of memory or room

fifoVars == <<data, r_ptr, w_ptr, length>>
netVars == <<message, sentEnd>>
appVars == <<command_status, recv_data_list, parsed, handed, lost, crashed>>
sockVars == <<connBegin, stale, oldEnd>>
linkVars == <<need_to_restart_flag, reconnects>>
recvVars == <<data, r_ptr, w_ptr, length, pc, message, sentEnd, recvPos,
              connBegin, stale, oldEnd, need_to_restart_flag, reconnects,
              command_status, recv_data_list, crashed, torn, parsed, handed,
              lost>>

Message == [body : Body, command : {"SEND_DATA"}, result : {"none"}]
           \cup [body : {2}, command : CallBack, result : {"success", "error"}]

Flag == {"success", "error", "not_receive"}

\* An entry of recv_data_list that is no message of the server.
Corrupt == -1

(* Every variable of the receiver has its type; the pointers stay inside   *)
(* the ring and length inside its size.                                    *)
RecvTypeOK ==
  /\ data \in [0..(N-1) -> Int]
  /\ r_ptr \in 0..(N-1) /\ w_ptr \in 0..(N-1) /\ length \in 0..N
  /\ pc \in {"top", "recv", "parse"}
  /\ DOMAIN message \subseteq Nat
  /\ \A p \in DOMAIN message : message[p] \in Message
  /\ sentEnd \in Nat /\ recvPos \in Nat /\ reconnects \in Nat
  /\ connBegin \in Nat /\ oldEnd \in Nat /\ stale \in BOOLEAN
  /\ need_to_restart_flag \in BOOLEAN /\ torn \in BOOLEAN
  /\ crashed \in BOOLEAN
  /\ command_status \in [CallBack -> Flag]
  /\ recv_data_list \in Seq(Int) /\ handed \in Seq(Int)
  /\ parsed \subseteq Nat /\ lost \subseteq Int

RecvInit ==
  /\ data = [j \in 0..(N-1) |-> Corrupt]
  /\ r_ptr = 0 /\ w_ptr = 0 /\ length = 0
  /\ pc = "top"
  /\ message = [p \in {} |-> Corrupt]
  /\ sentEnd = 0 /\ recvPos = 0 /\ reconnects = 0
  /\ connBegin = 0 /\ oldEnd = 0 /\ stale = FALSE
  /\ need_to_restart_flag = FALSE /\ torn = FALSE /\ crashed = FALSE
  /\ command_status = [k \in CallBack |-> "error"]
  /\ recv_data_list = <<>> /\ handed = <<>>
  /\ parsed = {} /\ lost = {}

-----------------------------------------------------------------------------
(* recv_fifo                                                               *)

\* A pointer advanced by at most N.
Wrap(j) == IF j >= N THEN j - N ELSE j

\* How far cell j is ahead of the write pointer.
Ahead(j) == IF j >= w_ptr THEN j - w_ptr ELSE j - w_ptr + N

\* The cell at the write pointer is skipped.
MutPushed(k) == [j \in 0..(N-1) |-> IF Ahead(j) \in 1..(k-1)
                                    THEN recvPos + Ahead(j) ELSE data[j]]

\* The cells after pushing the next k bytes of the stream.
Pushed(k) == [j \in 0..(N-1) |-> IF Ahead(j) < k
                                 THEN recvPos + Ahead(j) ELSE data[j]]

recv_data_fifo_push(k) ==
  /\ data' = Pushed(k)
  /\ w_ptr' = Wrap(w_ptr + k)
  /\ length' = length + k
  /\ UNCHANGED r_ptr

recv_data_fifo_pop(k) ==
  /\ r_ptr' = Wrap(r_ptr + k)
  /\ length' = length - k
  /\ UNCHANGED <<data, w_ptr>>

\* The next k bytes of the ring, k <= N, are the bytes from place p on.
Holds(p, k) == \A i \in 0..(k-1) : data[Wrap(r_ptr + i)] = p + i

\* recv_data_fifo_top_int: what the next Header bytes may read as.
TopInt ==
  IF data[r_ptr] \in DOMAIN message /\ Holds(data[r_ptr], Header)
  THEN {message[data[r_ptr]].body} ELSE Garbage

-----------------------------------------------------------------------------
(* The receive thread                                                      *)

\* With no restart under way the thread calls recv() on the current socket.
\* What it has not read of an older one is gone; recv_fifo keeps what it
\* holds.
CallRecv ==
  /\ ~crashed
  /\ pc = "top" /\ ~need_to_restart_flag
  /\ pc' = "recv"
  /\ IF recvPos < connBegin
     THEN recvPos' = connBegin /\ torn' = (torn \/ length > 0)
     ELSE UNCHANGED <<recvPos, torn>>
  /\ UNCHANGED <<fifoVars, netVars, sockVars, linkVars, appVars>>

OffOldSocket == stale' = FALSE /\ oldEnd' = 0 /\ UNCHANGED connBegin

\* recv() returned k bytes, of an old socket also after a reconnect: they are
\* pushed, or dropped when they do not fit.
Recv(k) ==
  /\ ~crashed
  /\ pc = "recv"
  /\ recvPos + k <= IF stale THEN oldEnd ELSE sentEnd
  /\ \/ k + length > N /\ torn' = TRUE /\ UNCHANGED fifoVars
     \/ k + length <= N /\ recv_data_fifo_push(k) /\ UNCHANGED torn
  /\ recvPos' = recvPos + k
  /\ pc' = "parse"
  /\ OffOldSocket
  /\ UNCHANGED <<netVars, linkVars, appVars>>

\* recv() failed or the server closed the connection; on an old socket this
\* restarts a good connection.
RecvError ==
  /\ ~crashed
  /\ pc = "recv"
  /\ stale \/ need_to_restart_flag \/ reconnects < MaxReconnects
  /\ need_to_restart_flag' = TRUE
  /\ pc' = "top"
  /\ OffOldSocket
  /\ UNCHANGED <<fifoVars, netVars, recvPos, reconnects, torn, appVars>>

\* The last byte of a message is waited for although it is there.
MutComplete(len) == length > len + Header

Complete(len) == length >= len + Header

\* parse_recv_net_command returns: no header, or no whole message.
ParseStop ==
  /\ ~crashed
  /\ pc = "parse"
  /\ \/ length < Header
     \/ length >= Header /\ \E len \in TopInt : ~Complete(len)
  /\ pc' = "top"
  /\ UNCHANGED <<fifoVars, netVars, recvPos, sockVars, linkVars, torn, appVars>>

\* The new node is put at the head.
MutListAdd(p) == <<p>> \o recv_data_list

ListAdd(p) == Append(recv_data_list, p)

\* The switch on command[0]: data goes to the list, unless memory runs out;
\* a call back sets the flag of its command.
Handle(p) ==
  /\ parsed' = parsed \cup {p}
  /\ \/ /\ message[p].command = "SEND_DATA"
        /\ \/ /\ recv_data_list' = ListAdd(p)
              /\ UNCHANGED lost
           \/ /\ lost' = lost \cup {p}
              /\ UNCHANGED recv_data_list
        /\ UNCHANGED command_status
     \/ /\ message[p].command \in CallBack
        /\ command_status' =
             [command_status EXCEPT ![message[p].command] = message[p].result]
        /\ UNCHANGED <<recv_data_list, lost>>
  /\ UNCHANGED <<handed, crashed>>

\* A message beyond sizeof(command) is copied over what lies behind the
\* array.  The process dies of it, or nothing that is used lies there.
Overrun(len) ==
  /\ len > MaxBody
  /\ crashed' = TRUE
  /\ UNCHANGED <<fifoVars, command_status, recv_data_list, parsed, handed, lost>>

\* The parser handles one message only.
MutParseMessage ==
  /\ ~crashed
  /\ pc = "parse" /\ length >= Header
  /\ LET p == data[r_ptr] IN
       /\ p \in DOMAIN message
       /\ Complete(message[p].body)
       /\ Holds(p, Header + message[p].body)
       /\ \/ recv_data_fifo_pop(Header + message[p].body) /\ Handle(p)
          \/ Overrun(message[p].body)
  /\ pc' = "top"
  /\ UNCHANGED <<netVars, recvPos, sockVars, linkVars, torn>>

\* One round of the loop, for a message that is in the ring as it was sent.
ParseMessage ==
  /\ ~crashed
  /\ pc = "parse" /\ length >= Header
  /\ LET p == data[r_ptr] IN
       /\ p \in DOMAIN message
       /\ Complete(message[p].body)
       /\ Holds(p, Header + message[p].body)
       /\ \/ recv_data_fifo_pop(Header + message[p].body) /\ Handle(p)
          \/ Overrun(message[p].body)
  /\ UNCHANGED <<pc, netVars, recvPos, sockVars, linkVars, torn>>

\* One round for bytes that are no message of the server: they may look like
\* any command.
ParseMangled ==
  /\ ~crashed
  /\ pc = "parse" /\ length >= Header
  /\ \E len \in TopInt :
       /\ Complete(len)
       /\ ~(data[r_ptr] \in DOMAIN message /\ Holds(data[r_ptr], Header + len))
       /\ \/ Overrun(len)
          \/ /\ recv_data_fifo_pop(IF len > 0 THEN Header + len ELSE Header)
             /\ \/ /\ \E k \in CallBack, f \in {"success", "error"} :
                        command_status' = [command_status EXCEPT ![k] = f]
                   /\ UNCHANGED recv_data_list
                \/ /\ recv_data_list' = ListAdd(Corrupt)
                   /\ UNCHANGED command_status
                \/ UNCHANGED <<command_status, recv_data_list>>
             /\ UNCHANGED <<parsed, handed, lost, crashed>>
  /\ UNCHANGED <<pc, netVars, recvPos, sockVars, linkVars, torn>>

-----------------------------------------------------------------------------
(* Surroundings                                                            *)

\* codec.send: the server writes a message, also to a connection the client
\* has given up but still reads.  (Such a message is given a place before
\* those of the new connection, which the client has not read from.)
ServerWrites(m) ==
  /\ ~crashed
  /\ sentEnd + Header + m.body <= StreamEnd
  /\ message' = [p \in DOMAIN message \cup {sentEnd} |->
                   IF p = sentEnd THEN m ELSE message[p]]
  /\ sentEnd' = sentEnd + Header + m.body
  /\ \/ UNCHANGED <<connBegin, oldEnd>>
     \/ /\ stale /\ oldEnd = sentEnd
        /\ connBegin' = sentEnd' /\ oldEnd' = sentEnd'
  /\ UNCHANGED <<fifoVars, pc, recvPos, stale, linkVars, torn, appVars>>

\* The check-net thread missed too many heart beats.
HeartBeatsMissed ==
  /\ ~crashed
  /\ ~need_to_restart_flag /\ reconnects < MaxReconnects
  /\ need_to_restart_flag' = TRUE
  /\ UNCHANGED <<fifoVars, pc, netVars, recvPos, sockVars, reconnects, torn,
                 appVars>>

\* The check-net thread opens a new connection; close() of the old one does
\* not wake a recv() on it.
Reconnect ==
  /\ ~crashed
  /\ need_to_restart_flag
  /\ need_to_restart_flag' = FALSE
  /\ reconnects' = reconnects + 1
  /\ connBegin' = sentEnd
  /\ stale' = (pc = "recv")
  /\ oldEnd' = IF pc = "recv" /\ ~stale THEN sentEnd ELSE oldEnd
  /\ UNCHANGED <<fifoVars, pc, netVars, recvPos, torn, appVars>>

\* need_to_send resets the flag of its command.
Ask(k) ==
  /\ ~crashed
  /\ command_status' = [command_status EXCEPT ![k] = "not_receive"]
  /\ UNCHANGED <<fifoVars, pc, netVars, recvPos, sockVars, linkVars, torn,
                 recv_data_list, parsed, handed, lost, crashed>>

\* The first n entries of the list, and what follows them.
FirstData(n) ==
  SubSeq(recv_data_list, 1, IF n <= Len(recv_data_list)
                            THEN n ELSE Len(recv_data_list))
DataAfter(n) == SubSeq(recv_data_list, n + 1, Len(recv_data_list))

\* stupid_p2p_recv_data stops with more than max_num entries stored, or with
\* an empty list.  It stores one entry beyond the array of max_num, which
\* may end the process, and drops the entry it took before it noticed; when
\* the result cannot be allocated everything taken is gone.
RecvData ==
  /\ ~crashed
  /\ recv_data_list # <<>>
  /\ \/ /\ handed' = handed \o FirstData(MaxNum + 1)
        /\ lost' = lost \cup (ToSet(FirstData(MaxNum + 2))
                                \ ToSet(FirstData(MaxNum + 1)))
        /\ recv_data_list' = DataAfter(MaxNum + 2)
        /\ UNCHANGED crashed
     \/ /\ lost' = lost \cup ToSet(FirstData(MaxNum + 2))
        /\ recv_data_list' = DataAfter(MaxNum + 2)
        /\ UNCHANGED <<handed, crashed>>
     \/ /\ Len(recv_data_list) > MaxNum
        /\ crashed' = TRUE
        /\ UNCHANGED <<handed, recv_data_list, lost>>
  /\ UNCHANGED <<fifoVars, pc, netVars, recvPos, sockVars, linkVars, torn,
                 command_status, parsed>>

RecvHalted == crashed /\ UNCHANGED recvVars

ReceiveThread ==
  \/ CallRecv
  \/ \E k \in 1..Chunk : Recv(k)
  \/ ParseStop \/ ParseMessage \/ ParseMangled

RecvNext ==
  \/ ReceiveThread
  \/ RecvError
  \/ \E m \in Message : ServerWrites(m)
  \/ HeartBeatsMissed \/ Reconnect
  \/ \E k \in CallBack : Ask(k)
  \/ RecvData
  \/ RecvHalted

RecvSpec == RecvInit /\ [][RecvNext]_recvVars

(* The receive thread goes on as long as recv() has something to return.   *)
RecvFairSpec == RecvSpec /\ WF_recvVars(ReceiveThread)

-----------------------------------------------------------------------------
(* Properties                                                              *)

\* The place of the first byte the parser has not consumed.
Unparsed == recvPos - length

(* As long as no bytes were lost inside a message, the ring holds the      *)
(* bytes received and not parsed, in order, whatever the pieces in which   *)
(* recv() returned them, wherever the pointers wrapped and whichever       *)
(* socket they came from; and the parser always stands at the beginning of *)
(* a message.                                                              *)
FramingExact ==
  ~torn => /\ Holds(Unparsed, length)
           /\ Unparsed \in DOMAIN message \cup {sentEnd}

\* With all of a message but its last byte in the ring a full recv() fits
\* (4096 + 4 + len <= 8192 + 1 in the code).
RoomFor(len) == Chunk + Header + len <= N + 1

(* The ring is short of room for a full recv() behind a long message only: *)
(* as long as no bytes were lost inside a message, the branch that drops   *)
(* what was received ("receive fifo is full", a TODO in the code) can be   *)
(* taken only if the message being received is longer than                 *)
(* N + 1 - Chunk - Header, 4093 bytes in the code, however many messages   *)
(* one recv() brings.                                                      *)
FullOnlyForLong ==
  (~torn /\ pc = "recv" /\ length + Chunk > N)
    => Unparsed \in DOMAIN message /\ ~RoomFor(message[Unparsed].body)

(* Data reaches the application in the order it was sent and at most once, *)
(* and nothing the parser handled is missing but what was dropped for want *)
(* of memory or of room in stupid_p2p_recv_data.                           *)
DeliveredInOrder ==
  ~torn =>
    LET out == handed \o recv_data_list IN
    /\ \A i, j \in 1..Len(out) : i < j => out[i] < out[j]
    /\ ToSet(out) \cap lost = {}
    /\ ToSet(out) \cup lost =
         {p \in parsed : message[p].command = "SEND_DATA"}

(* The receiver catches up with the server: everything written is handled  *)
(* without waiting for more input, unless the connection is lost or the    *)
(* receive thread left behind on an old one, because the parser never      *)
(* leaves a whole message in the ring when it returns to recv().           *)
CatchesUp ==
  []<>(Unparsed = sentEnd \/ need_to_restart_flag \/ stale \/ torn \/ crashed)

-----------------------------------------------------------------------------
(* A claim of the documentation that the code does not keep                *)

(* The parser always reads a length where a message begins, across lost    *)
(* and restored connections.                                               *)
ParsesAtMessage ==
  pc = "parse" /\ length >= Header /\ ~crashed
    => data[r_ptr] \in DOMAIN message /\ Holds(data[r_ptr], Header)

=============================================================================
