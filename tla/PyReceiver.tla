----------------------------- MODULE PyReceiver -----------------------------
(***************************************************************************)
(* The receive thread of the Python client (clientRecvThread.run): bytes   *)
(* from the socket go into a deque, and a loop takes messages out of it.   *)
(*                                                                         *)
(* recvDeque is _recvDeque with the byte that pop() returns first.  Every  *)
(* round of the loop is an action; "looping" holds while it runs.          *)
(***************************************************************************)
EXTENDS Buffer   \* for Base, the number of values of a byte

CONSTANTS commandHeaderLength,
          responseCommand,      \* the command bytes 0x81..0x87
          sendDataCommand,      \* the command byte 0x03
          maxsize               \* of recvDataQueue, 4096

ASSUME PyReceiverAssumption ==
  commandHeaderLength \in Nat /\ maxsize \in Nat

VARIABLES recvDeque, looping,
          commandResponse,   \* the answer received last for every command
          recvDataQueue,
          received           \* history: the messages taken out of the deque

pyVars == <<recvDeque, looping, commandResponse, recvDataQueue, received>>

notReceiveResponse == Base - 1   \* 0xff

from_bytes(d) == FoldLeft(LAMBDA n, e : n * Base + e, 0, d)
littleEndian(n) ==
  [i \in 1..commandHeaderLength |-> (n \div Base^(i - 1)) % Base]

PyInit ==
  /\ recvDeque = <<>> /\ looping = FALSE
  /\ commandResponse = [c \in responseCommand |-> notReceiveResponse]
  /\ recvDataQueue = <<>> /\ received = <<>>

\* recv() returned d, which extendleft() puts behind what is there.
recv(d) ==
  /\ ~looping
  /\ recvDeque' = recvDeque \o d
  /\ looping' = TRUE
  /\ UNCHANGED <<commandResponse, recvDataQueue, received>>

headerLength == from_bytes(SubSeq(recvDeque, 1, commandHeaderLength))
rest == SubSeq(recvDeque, commandHeaderLength + 1, Len(recvDeque))
body == SubSeq(rest, 1, headerLength)

HasCommand ==
  looping /\ Len(recvDeque) > commandHeaderLength /\ Len(rest) >= headerLength

\* The bytes of the body are consumed whatever the command is.
Consume ==
  /\ recvDeque' = SubSeq(rest, Len(body) + 1, Len(rest))
  /\ received' = Append(received, body)
  /\ UNCHANGED looping

\* The answer to a command.
TakeResponse ==
  /\ HasCommand /\ Head(body) \in responseCommand
  /\ commandResponse' = [commandResponse EXCEPT ![Head(body)] = body[2]]
  /\ Consume
  /\ UNCHANGED recvDataQueue

\* Data from another device; a full queue drops it.
TakeData ==
  /\ HasCommand /\ Head(body) = sendDataCommand
  /\ recvDataQueue' = IF Len(recvDataQueue) < maxsize
                      THEN Append(recvDataQueue, Tail(body)) ELSE recvDataQueue
  /\ Consume
  /\ UNCHANGED commandResponse

\* An unknown command is skipped.
TakeUnknown ==
  /\ HasCommand /\ Head(body) \notin responseCommand \cup {sendDataCommand}
  /\ Consume
  /\ UNCHANGED <<commandResponse, recvDataQueue>>

\* The header is not put back.
MutPutBack ==
  /\ looping /\ Len(recvDeque) > commandHeaderLength /\ Len(rest) < headerLength
  /\ recvDeque' = rest
  /\ looping' = FALSE
  /\ UNCHANGED <<commandResponse, recvDataQueue, received>>

\* The message is not complete: extend() puts the length back, byte by byte,
\* at the end pop() takes from, its lowest byte first.
PutBack ==
  /\ looping /\ Len(recvDeque) > commandHeaderLength /\ Len(rest) < headerLength
  /\ recvDeque' = Reverse(littleEndian(headerLength)) \o rest
  /\ looping' = FALSE
  /\ UNCHANGED <<commandResponse, recvDataQueue, received>>

\* No more than a header is left.
Exhausted ==
  /\ looping /\ Len(recvDeque) <= commandHeaderLength
  /\ looping' = FALSE
  /\ UNCHANGED <<recvDeque, commandResponse, recvDataQueue, received>>

\* stupidP2PClient.recvData: the user empties the queue.
recvData ==
  /\ recvDataQueue # <<>>
  /\ recvDataQueue' = <<>>
  /\ UNCHANGED <<recvDeque, looping, commandResponse, received>>

=============================================================================
