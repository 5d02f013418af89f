-------------------------------- MODULE Codec --------------------------------
(***************************************************************************)
(* LengthHeaderCodec (p2pServer/codec.h) at one connection of the server:  *)
(* a message travels behind its length, kHeaderLen bytes of it.            *)
(*                                                                         *)
(* inputBuffer_ and state_ are the members of the TcpConnection.  A read   *)
(* calls onMessage; "parsing" holds while its loop runs, and every round   *)
(* of the loop is an action.  The loop and the reads are on one thread.    *)
(***************************************************************************)
EXTENDS Buffer

CONSTANTS kHeaderLen,   \* sizeof(int32_t)
          MaxLen        \* 65536, the longest message that is accepted

ASSUME CodecAssumption ==
  kHeaderLen \in 1..kCheapPrepend /\ kHeaderLen \in IntSize /\ MaxLen \in Nat

VARIABLES inputBuffer_, state_, parsing

codecVars == <<inputBuffer_, state_, parsing>>

CodecInit ==
  /\ inputBuffer_ = NewBuffer(kInitialSize)
  /\ state_ = "kConnected"
  /\ parsing = FALSE

\* The header goes in front of a message that is already in the buffer.
send(message) ==
  toStringPiece(prepend(append(NewBuffer(kInitialSize), message),
                        hostToNetwork(Len(message), kHeaderLen)))

\* TcpConnection reads d from the socket and calls onMessage.
handleRead(d) ==
  /\ ~parsing
  /\ inputBuffer_' = append(inputBuffer_, d)
  /\ parsing' = TRUE
  /\ UNCHANGED state_

HasHeader == readableBytes(inputBuffer_) >= kHeaderLen
len == peekInt(inputBuffer_, kHeaderLen)

\* A frame that ends with the content is left waiting.
MutHasFrame ==
  HasHeader /\ len \in 0..MaxLen /\ readableBytes(inputBuffer_) > len + kHeaderLen

HasFrame ==
  HasHeader /\ len \in 0..MaxLen /\ readableBytes(inputBuffer_) >= len + kHeaderLen

message == peek(retrieve(inputBuffer_, kHeaderLen), len)

\* The header is left in the buffer.
MutDeliver ==
  /\ parsing /\ HasFrame
  /\ inputBuffer_' = retrieve(inputBuffer_, len)
  /\ UNCHANGED <<state_, parsing>>

\* A round that hands "message" to the callback.
DeliverMessage ==
  /\ parsing /\ HasFrame
  /\ inputBuffer_' = retrieve(retrieve(inputBuffer_, kHeaderLen), len)
  /\ UNCHANGED <<state_, parsing>>

\* An invalid length stays in the buffer, so every later read ends here too.
InvalidLength ==
  /\ parsing /\ HasHeader /\ len \notin 0..MaxLen
  /\ parsing' = FALSE
  /\ state_' = "kDisconnecting"
  /\ UNCHANGED inputBuffer_

\* Wait for the rest of a header or of a message.
Incomplete ==
  /\ parsing /\ ~HasFrame /\ (HasHeader => len \in 0..MaxLen)
  /\ parsing' = FALSE
  /\ UNCHANGED <<inputBuffer_, state_>>

=============================================================================
