------------------------------- MODULE Buffer -------------------------------
(***************************************************************************)
(* muduo::net::Buffer (net/Buffer.h): a vector of bytes with a reader and  *)
(* a writer index, and room in front for a header to be prepended.         *)
(*                                                                         *)
(* A Buffer is a record of the three members of the class; the methods are *)
(* operators on such records, so that the codec can have buffers of its    *)
(* own.  Offset i of the vector is element i + 1 of the sequence buffer_.  *)
(* An assert on the arguments is a condition on the caller.                *)
(*                                                                         *)
(* Operators named Mut... are broken variants of the definition that       *)
(* follows them.                                                           *)
(***************************************************************************)
EXTENDS Integers, Sequences, SequencesExt

CONSTANTS kCheapPrepend, kInitialSize,
          Base,        \* number of values of a byte
          IntSize,     \* the widths of the integers: 1, 2, 4 and 8 bytes
          kCRLF, LF    \* the ends of a line: "\r\n" and "\n", as bytes

ASSUME BufferAssumption ==
  /\ kCheapPrepend \in Nat /\ kInitialSize \in Nat
  /\ Base \in Nat \ {0} /\ IntSize \subseteq Nat \ {0}
  /\ kCRLF \in Seq(Nat)

Byte == 0..(Base - 1)

zeros(n) == [i \in 1..n |-> 0]

\* The constructor.
NewBuffer(initialSize) ==
  [buffer_ |-> zeros(kCheapPrepend + initialSize),
   readerIndex_ |-> kCheapPrepend, writerIndex_ |-> kCheapPrepend]

readableBytes(b) == b.writerIndex_ - b.readerIndex_
writableBytes(b) == Len(b.buffer_) - b.writerIndex_
prependableBytes(b) == b.readerIndex_

\* The n bytes from peek() on, and all of the readable ones.
peek(b, n) == SubSeq(b.buffer_, b.readerIndex_ + 1, b.readerIndex_ + n)
toStringPiece(b) == SubSeq(b.buffer_, b.readerIndex_ + 1, b.writerIndex_)

\* std::copy of d to offset "at" of the vector s.
copy(s, at, d) ==
  [i \in 1..Len(s) |-> IF i \in (at + 1)..(at + Len(d)) THEN d[i - at] ELSE s[i]]

-----------------------------------------------------------------------------
(* Methods                                                                 *)

\* The offsets, from peek() and not before "start", at which "mark" occurs in
\* the readable bytes.
Occurrences(b, mark, start) ==
  {i \in start..(readableBytes(b) - Len(mark)) :
     \A j \in 1..Len(mark) : b.buffer_[b.readerIndex_ + i + j] = mark[j]}

\* findCRLF() and findEOL(): the first one, if there is any (NULL otherwise).
find(b, mark, start) ==
  LET found == Occurrences(b, mark, start) IN
    {i \in found : \A j \in found : i <= j}

retrieveAll(b) ==
  [b EXCEPT !.readerIndex_ = kCheapPrepend, !.writerIndex_ = kCheapPrepend]

\* retrieveAll() also when bytes are left.
MutRetrieve(b, len) ==
  IF len + 1 < readableBytes(b)
  THEN [b EXCEPT !.readerIndex_ = @ + len] ELSE retrieveAll(b)

retrieve(b, len) ==
  IF len < readableBytes(b)
  THEN [b EXCEPT !.readerIndex_ = @ + len] ELSE retrieveAll(b)

\* resize() grows the vector by zeros (or cuts it) to n bytes.
resize(s, n) == [i \in 1..n |-> IF i <= Len(s) THEN s[i] ELSE 0]

Crowded(b, len) ==
  writableBytes(b) + prependableBytes(b) < len + kCheapPrepend

\* The room in front is not set aside for the cheap prepend.
MutMakeSpace(b, len) ==
  IF writableBytes(b) + prependableBytes(b) < len
  THEN [b EXCEPT !.buffer_ = resize(@, b.writerIndex_ + len)]
  ELSE [buffer_ |-> copy(b.buffer_, kCheapPrepend, toStringPiece(b)),
        readerIndex_ |-> kCheapPrepend,
        writerIndex_ |-> kCheapPrepend + readableBytes(b)]

\* The content is never moved.
MutMakeSpaceGrow(b, len) == [b EXCEPT !.buffer_ = resize(@, b.writerIndex_ + len)]

\* Grow at the end, or move the content to the front.
makeSpace(b, len) ==
  IF Crowded(b, len)
  THEN [b EXCEPT !.buffer_ = resize(@, b.writerIndex_ + len)]
  ELSE [buffer_ |-> copy(b.buffer_, kCheapPrepend, toStringPiece(b)),
        readerIndex_ |-> kCheapPrepend,
        writerIndex_ |-> kCheapPrepend + readableBytes(b)]

ensureWritableBytes(b, len) ==
  IF writableBytes(b) < len THEN makeSpace(b, len) ELSE b

hasWritten(b, len) == [b EXCEPT !.writerIndex_ = @ + len]

append(b, d) ==
  LET e == ensureWritableBytes(b, Len(d)) IN
    hasWritten([e EXCEPT !.buffer_ = copy(@, e.writerIndex_, d)], Len(d))

unwrite(b, len) == [b EXCEPT !.writerIndex_ = @ - len]

prepend(b, d) ==
  [b EXCEPT !.buffer_ = copy(@, b.readerIndex_ - Len(d), d),
            !.readerIndex_ = @ - Len(d)]

\* The content goes to a new buffer, which is swapped with this one.
shrink(b, reserve) ==
  append(ensureWritableBytes(NewBuffer(kInitialSize), readableBytes(b) + reserve),
         toStringPiece(b))

-----------------------------------------------------------------------------
(* Integers in network byte order (net/Endian.h), as two's complement.     *)

Ints(w) == -(Base^w \div 2)..((Base^w - 1) \div 2)

hostToNetwork(x, w) == [i \in 1..w |-> (x \div Base^(w - i)) % Base]

\* The value is taken as unsigned.
MutNetworkToHost(d) == FoldLeft(LAMBDA u, e : u * Base + e, 0, d)

networkToHost(d) ==
  LET u == FoldLeft(LAMBDA v, e : v * Base + e, 0, d) IN
    IF u \in Ints(Len(d)) THEN u ELSE u - Base^Len(d)

appendInt(b, x, w) == append(b, hostToNetwork(x, w))
prependInt(b, x, w) == prepend(b, hostToNetwork(x, w))
peekInt(b, w) == networkToHost(peek(b, w))
readInt(b, w) == retrieve(b, w)

=============================================================================
