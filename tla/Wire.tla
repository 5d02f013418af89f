-------------------------------- MODULE Wire --------------------------------
(***************************************************************************)
(* A client and the server, byte by byte: requests go up through the       *)
(* framing of the clients and the codec of the server, and for each one    *)
(* that is delivered the server sends an answer, or data of a device the   *)
(* client subscribed to, down to the receive thread of the Python client.  *)
(* The streams are TCP's: reliable, and cut into pieces anywhere.          *)
(***************************************************************************)
EXTENDS Codec, PyReceiver

CONSTANTS Request, Reply,   \* messages, as sequences of bytes
          MaxCommand,       \* 257, the longest command of the C client: 256 bytes
                            \* of data behind the command byte
          BufSize,          \* 2048, the send buffer of the C client
          MaxRequests,      \* bound: requests sent
          MaxReplies,       \* bound: replies sent
          Chunk, MaxChunk   \* the numbers of bytes a read, or a short send, takes

ASSUME WireAssumption ==
  /\ MaxCommand \in Nat /\ BufSize \in Nat
  /\ MaxChunk \in Nat /\ Chunk \subseteq 1..MaxChunk

VARIABLES up, down,         \* bytes on their way
          sent, delivered,  \* history: requests
          replied,          \* history: replies
          torn              \* a frame went out incomplete

wireVars == <<codecVars, pyVars, up, down, sent, delivered, replied, torn>>

\* prepend_length_to_buf_s of the C client: the message is cut to the buffer.
prepend_length_to_buf_s(src) ==
  LET src_length == IF Len(src) > BufSize - kHeaderLen
                    THEN BufSize - kHeaderLen ELSE Len(src) IN
    hostToNetwork(src_length, kHeaderLen) \o SubSeq(src, 1, src_length)

\* __send of the Python client.
pySend(command) == hostToNetwork(Len(command), kHeaderLen) \o command

\* need_to_send of the C client turns longer commands away.
Frames(m) == {pySend(m)} \cup
             {prepend_length_to_buf_s(c) : c \in {m} \cap SeqOf(Byte, MaxCommand)}

WireInit ==
  /\ CodecInit /\ PyInit
  /\ up = <<>> /\ down = <<>>
  /\ sent = <<>> /\ delivered = <<>> /\ replied = <<>> /\ torn = FALSE

ClientSend(m) ==
  /\ Len(sent) < MaxRequests
  /\ \E f \in Frames(m) : up' = up \o f
  /\ sent' = Append(sent, m)
  /\ UNCHANGED <<codecVars, pyVars, down, delivered, replied, torn>>

\* send() took only n bytes of the frame; the C client logs it, the Python
\* client does not look, and both go on with the next command.
ShortSend(m, n) ==
  /\ Len(sent) < MaxRequests /\ ~torn
  /\ \E f \in Frames(m) : n < Len(f) /\ up' = up \o SubSeq(f, 1, n)
  /\ torn' = TRUE
  /\ UNCHANGED <<codecVars, pyVars, down, sent, delivered, replied>>

ServerRead(n) ==
  /\ n <= Len(up)
  /\ handleRead(SubSeq(up, 1, n))
  /\ up' = SubSeq(up, n + 1, Len(up))
  /\ UNCHANGED <<pyVars, down, sent, delivered, replied, torn>>

\* The message callback sends nothing, or a reply through the codec (bound:
\* nothing to what is read off a torn stream).
ServerDeliver(r) ==
  /\ DeliverMessage
  /\ Len(replied) + Len(r) <= MaxReplies /\ (torn => r = <<>>)
  /\ delivered' = Append(delivered, message)
  /\ down' = down \o FlattenSeq([i \in 1..Len(r) |-> send(r[i])])
  /\ replied' = replied \o r
  /\ UNCHANGED <<pyVars, up, sent, torn>>

ServerStop ==
  /\ InvalidLength \/ Incomplete
  /\ UNCHANGED <<pyVars, up, down, sent, delivered, replied, torn>>

PyRead(n) ==
  /\ n <= Len(down)
  /\ recv(SubSeq(down, 1, n))
  /\ down' = SubSeq(down, n + 1, Len(down))
  /\ UNCHANGED <<codecVars, up, sent, delivered, replied, torn>>

PyStep ==
  /\ TakeResponse \/ TakeData \/ TakeUnknown \/ PutBack \/ Exhausted
  /\ UNCHANGED <<codecVars, up, down, sent, delivered, replied, torn>>

UserRecvData ==
  /\ recvData
  /\ UNCHANGED <<codecVars, up, down, sent, delivered, replied, torn>>

ServerStep == (\E r \in SeqOf(Reply, 1) : ServerDeliver(r)) \/ ServerStop

WireNext ==
  \/ \E m \in Request :
       ClientSend(m) \/ \E n \in Chunk : ShortSend(m, n)
  \/ \E n \in Chunk : ServerRead(n) \/ PyRead(n)
  \/ ServerStep \/ PyStep \/ UserRecvData

\* The server's event loop and the receive thread keep running.
WireFairness ==
  /\ WF_wireVars(\E n \in Chunk : ServerRead(n)) /\ WF_wireVars(ServerStep)
  /\ WF_wireVars(\E n \in Chunk : PyRead(n)) /\ WF_wireVars(PyStep)

WireSpec == WireInit /\ [][WireNext]_wireVars /\ WireFairness

-----------------------------------------------------------------------------
(* Properties                                                              *)

(* onMessage delivers what the clients framed: however the stream is cut   *)
(* into reads, the requests arrive whole, once and in order, a connection  *)
(* is shut down only for a message over the limit, and after that no byte  *)
(* of the stream is taken for a message.                                   *)
Up == INSTANCE MessageChannel
        WITH Message <- Request, sent <- sent, delivered <- delivered,
             mode <- IF torn THEN "torn"
                     ELSE IF state_ = "kConnected" THEN "open" ELSE "refused"

UpIsChannel == Up!ChannelSpec

(* The Python receive loop takes out what codec.send() framed, also when a *)
(* message comes in pieces and its header is put back.                     *)
Down == INSTANCE MessageChannel
          WITH Message <- Reply, sent <- replied, delivered <- received,
               mode <- "open"

DownIsChannel == Down!ChannelSpec

(* While a connection is up its input buffer does not outgrow two reads    *)
(* and one message, whatever the bytes are, torn frames included: content  *)
(* that was read makes room before the vector grows.                       *)
InputBounded ==
  state_ = "kConnected" =>
    \/ Len(inputBuffer_.buffer_) = kCheapPrepend + kInitialSize
    \/ Len(inputBuffer_.buffer_) <=
         kCheapPrepend + 2 * MaxChunk + MaxLen + kHeaderLen - 2

(* Every request is delivered unless the stream is torn or refused, and    *)
(* every reply is taken out of the deque: no message waits for a byte that *)
(* only a later message would bring.                                       *)
EverythingArrives ==
  \A k \in 1..MaxRequests :
    /\ Len(sent) >= k ~> Len(delivered) >= k \/ torn \/ state_ # "kConnected"
    /\ Len(replied) >= k ~> Len(received) >= k

=============================================================================
