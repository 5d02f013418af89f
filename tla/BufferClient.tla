---------------------------- MODULE BufferClient ----------------------------
(***************************************************************************)
(* A muduo::net::Buffer in the hands of arbitrary callers that keep to the *)
(* asserts on the arguments of its methods.                                *)
(***************************************************************************)
EXTENDS Buffer

CONSTANT MaxContent   \* bound: bytes the callers keep in the buffer

ASSUME MaxContentAssumption == MaxContent \in Nat

VARIABLES buf,   \* a Buffer
          call   \* the last operation, and the bytes that went in or out

bufVars == <<buf, call>>

Data == SeqOf(Byte, 2)

BufInit == buf = NewBuffer(kInitialSize) /\ call = [op |-> "none", data |-> <<>>]

\* append() and appendInt8..64(): the content grows at its end.
Append_(d) ==
  /\ readableBytes(buf) + Len(d) <= MaxContent
  /\ buf' = append(buf, d)
  /\ call' = [op |-> "append", data |-> d]

AppendInt(x, w) ==
  /\ readableBytes(buf) + w <= MaxContent
  /\ buf' = appendInt(buf, x, w)
  /\ call' = [op |-> "append", data |-> hostToNetwork(x, w)]

\* prepend() and prependInt8..64().
Prepend(d) ==
  /\ readableBytes(buf) + Len(d) <= MaxContent
  /\ Len(d) <= prependableBytes(buf)
  /\ buf' = prepend(buf, d)
  /\ call' = [op |-> "prepend", data |-> d]

\* retrieve(), retrieveAsString() and, through it, retrieveAllAsString().
Retrieve(n) ==
  /\ n <= readableBytes(buf)
  /\ buf' = retrieve(buf, n)
  /\ call' = [op |-> "retrieve", data |-> peek(buf, n)]

ReadInt(w) ==
  /\ w <= readableBytes(buf)
  /\ buf' = readInt(buf, w)
  /\ call' = [op |-> "retrieve", data |-> peek(buf, w)]

\* A caller reads a line: retrieveUntil() the end that findCRLF() or findEOL()
\* found, searching from "start" on.
RetrieveLine(mark, start) ==
  /\ start <= readableBytes(buf)
  /\ \E end \in find(buf, mark, start) :
       /\ buf' = retrieve(buf, end + Len(mark))
       /\ call' = [op |-> "retrieve", data |-> peek(buf, end + Len(mark))]

Unwrite(n) ==
  /\ n <= readableBytes(buf)
  /\ buf' = unwrite(buf, n)
  /\ call' = [op |-> "unwrite",
              data |-> SubSeq(buf.buffer_, buf.writerIndex_ - n + 1, buf.writerIndex_)]

Shrink(n) ==
  /\ buf' = shrink(buf, n)
  /\ call' = [op |-> "shrink", data |-> <<>>]

BufNext ==
  \/ \E d \in Data : Append_(d) \/ Prepend(d)
  \/ \E w \in IntSize : ReadInt(w) \/ \E x \in Ints(w) : AppendInt(x, w)
  \/ \E n \in 0..MaxContent : Retrieve(n) \/ Unwrite(n)
  \/ \E mark \in {kCRLF, <<LF>>}, n \in 0..MaxContent : RetrieveLine(mark, n)
  \/ \E n \in 0..kInitialSize : Shrink(n)

BufSpec == BufInit /\ [][BufNext]_bufVars

-----------------------------------------------------------------------------
(* Properties                                                              *)

(* The picture above the class: 0 <= readerIndex <= writerIndex <= size.   *)
BufTypeOK ==
  /\ buf = [buffer_ |-> buf.buffer_, readerIndex_ |-> buf.readerIndex_,
            writerIndex_ |-> buf.writerIndex_]
  /\ buf.buffer_ \in Seq(Byte)
  /\ buf.readerIndex_ \in Nat /\ buf.writerIndex_ \in Nat
  /\ buf.readerIndex_ <= buf.writerIndex_
  /\ buf.writerIndex_ <= Len(buf.buffer_)

(* The buffer is a queue of bytes: whatever the order of the operations,   *)
(* and wherever makeSpace moved the content to, what comes out at either   *)
(* end is what went in.                                                    *)
Queue == INSTANCE ByteQueue WITH queue <- toStringPiece(buf)

IsByteQueue == Queue!QueueSpec

(* The asserts of makeSpace and ensureWritableBytes hold for every request *)
(* in every state: content is moved only to the left, and after that the   *)
(* request fits, also when earlier prepends used up the room in front.     *)
AssertsHold ==
  \A len \in 0..(MaxContent + kInitialSize) :
    /\ writableBytes(buf) < len /\ ~Crowded(buf, len)
         => kCheapPrepend < buf.readerIndex_
    /\ writableBytes(ensureWritableBytes(buf, len)) >= len

(* After any operation, and so in every layout of the buffer, an integer   *)
(* that is prepended is read back, sign and all, and leaves the content as *)
(* it was.                                                                 *)
IntsReadBack ==
  \A w \in IntSize : call.op # "none" /\ w <= prependableBytes(buf) =>
    \A x \in Ints(w) :
      LET b == prependInt(buf, x, w) IN
        /\ peekInt(b, w) = x
        /\ toStringPiece(readInt(b, w)) = toStringPiece(buf)

=============================================================================
