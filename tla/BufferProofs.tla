---------------------------- MODULE BufferProofs ----------------------------
(***************************************************************************)
(* Proofs about BufferClient: muduo::net::Buffer is a queue of bytes, for  *)
(* every size of the buffer, of its room in front and of the content.      *)
(***************************************************************************)
EXTENDS BufferClient, SequenceTheorems, TLAPS

(* The picture above the class, for any buffer, and what retrieveAll needs *)
(* of it: the vector never gets smaller than the room in front.            *)
IsBuffer(b) ==
  /\ b \in [buffer_ : Seq(Byte), readerIndex_ : Nat, writerIndex_ : Nat]
  /\ b.readerIndex_ <= b.writerIndex_
  /\ b.writerIndex_ <= Len(b.buffer_)
  /\ kCheapPrepend <= Len(b.buffer_)

-----------------------------------------------------------------------------
(* The vector                                                              *)

LEMMA ByteRange == 0 \in Byte /\ \A n \in Byte : n \in Nat
  BY BufferAssumption DEF Byte

LEMMA ZerosSeq ==
  ASSUME NEW n \in Nat
  PROVE  zeros(n) \in Seq(Byte) /\ Len(zeros(n)) = n
  BY ByteRange, SeqDef DEF zeros

(* std::copy replaces the bytes it is given and no other.                  *)
LEMMA CopySeq ==
  ASSUME NEW s \in Seq(Byte), NEW d \in Seq(Byte), NEW at \in Nat,
         at + Len(d) <= Len(s)
  PROVE  /\ copy(s, at, d) \in Seq(Byte) /\ Len(copy(s, at, d)) = Len(s)
         /\ \A i \in 1..Len(s) : copy(s, at, d)[i] =
              IF at < i /\ i <= at + Len(d) THEN d[i - at] ELSE s[i]
  <1>1. Len(s) \in Nat /\ Len(d) \in Nat
    OBVIOUS
  <1>2. \A i \in 1..Len(s) :
          i \in (at + 1)..(at + Len(d)) <=> at < i /\ i <= at + Len(d)
    BY <1>1
  <1>3. \A i \in 1..Len(s) : at < i /\ i <= at + Len(d) => d[i - at] \in Byte
    <2> TAKE i \in 1..Len(s)
    <2> HAVE at < i /\ i <= at + Len(d)
    <2>1. i - at \in 1..Len(d)
      BY <1>1
    <2> QED
      BY <2>1, ElementOfSeq
  <1>4. \A i \in 1..Len(s) : s[i] \in Byte
    BY ElementOfSeq
  <1>5. \A i \in 1..Len(s) : copy(s, at, d)[i] =
          IF at < i /\ i <= at + Len(d) THEN d[i - at] ELSE s[i]
    BY <1>2 DEF copy
  <1>6. copy(s, at, d) \in [1..Len(s) -> Byte]
    BY <1>2, <1>3, <1>4 DEF copy
  <1>7. copy(s, at, d) \in Seq(Byte)
    BY <1>1, <1>6, SeqDef
  <1>8. Len(copy(s, at, d)) = Len(s)
    BY <1>1, <1>6, <1>7, LenProperties
  <1> QED
    BY <1>5, <1>7, <1>8

LEMMA ResizeSeq ==
  ASSUME NEW s \in Seq(Byte), NEW n \in Nat
  PROVE  /\ resize(s, n) \in Seq(Byte) /\ Len(resize(s, n)) = n
         /\ \A i \in 1..n : i <= Len(s) => resize(s, n)[i] = s[i]
  <1>1. Len(s) \in Nat
    OBVIOUS
  <1>2. \A i \in 1..n : i <= Len(s) => s[i] \in Byte
    BY <1>1, ElementOfSeq
  <1>3. resize(s, n) \in [1..n -> Byte]
    BY <1>2, ByteRange DEF resize
  <1>4. resize(s, n) \in Seq(Byte)
    BY <1>3, SeqDef
  <1> QED
    BY <1>3, <1>4, LenProperties DEF resize

(* The bytes of a vector between two offsets, one by one.                  *)
LEMMA Slice ==
  ASSUME NEW s \in Seq(Byte), NEW m \in Nat, NEW n \in Nat, m <= n, n <= Len(s)
  PROVE  /\ SubSeq(s, m + 1, n) \in Seq(Byte)
         /\ Len(SubSeq(s, m + 1, n)) = n - m
         /\ \A i \in 1..(n - m) : SubSeq(s, m + 1, n)[i] = s[m + i]
  <1>1. Len(s) \in Nat /\ m + 1 \in Int /\ n \in Int
    OBVIOUS
  <1>2. \A i \in (m + 1)..n : s[i] \in Byte
    <2> TAKE i \in (m + 1)..n
    <2>1. i \in 1..Len(s)
      BY <1>1
    <2> QED
      BY <2>1, ElementOfSeq
  <1>3. /\ SubSeq(s, m + 1, n) \in Seq(Byte)
        /\ Len(SubSeq(s, m + 1, n)) = IF m + 1 <= n THEN n - (m + 1) + 1 ELSE 0
        /\ \A i \in 1..(n - (m + 1) + 1) :
             SubSeq(s, m + 1, n)[i] = s[(m + 1) + i - 1]
    BY <1>1, <1>2, SubSeqProperties
  <1>4. n - (m + 1) + 1 = n - m /\ (m + 1 <= n \/ n - m = 0)
    OBVIOUS
  <1>5. \A i \in 1..(n - m) : (m + 1) + i - 1 = m + i
    OBVIOUS
  <1> QED
    BY <1>3, <1>4, <1>5

(* The readable bytes, one by one.                                         *)
LEMMA Content ==
  ASSUME NEW b, IsBuffer(b)
  PROVE  /\ toStringPiece(b) \in Seq(Byte)
         /\ Len(toStringPiece(b)) = b.writerIndex_ - b.readerIndex_
         /\ \A i \in 1..(b.writerIndex_ - b.readerIndex_) :
              toStringPiece(b)[i] = b.buffer_[b.readerIndex_ + i]
  <1>1. /\ b.buffer_ \in Seq(Byte)
        /\ b.readerIndex_ \in Nat /\ b.writerIndex_ \in Nat
        /\ b.readerIndex_ <= b.writerIndex_ /\ b.writerIndex_ <= Len(b.buffer_)
    BY DEF IsBuffer
  <1> QED
    BY <1>1, Slice DEF toStringPiece

(* Two buffers have the same content when they hold the same bytes between *)
(* their indices.                                                          *)
LEMMA SameContent ==
  ASSUME NEW b, NEW c, IsBuffer(b), IsBuffer(c),
         c.writerIndex_ - c.readerIndex_ = b.writerIndex_ - b.readerIndex_,
         \A i \in 1..(b.writerIndex_ - b.readerIndex_) :
           c.buffer_[c.readerIndex_ + i] = b.buffer_[b.readerIndex_ + i]
  PROVE  toStringPiece(c) = toStringPiece(b)
  <1>1. /\ toStringPiece(b) \in Seq(Byte) /\ toStringPiece(c) \in Seq(Byte)
        /\ Len(toStringPiece(c)) = Len(toStringPiece(b))
        /\ \A i \in 1..Len(toStringPiece(c)) :
             toStringPiece(c)[i] = toStringPiece(b)[i]
    BY Content
  <1> QED
    BY <1>1, SeqEqual

-----------------------------------------------------------------------------
(* The methods                                                             *)

LEMMA NewIsBuffer ==
  ASSUME NEW n \in Nat
  PROVE  IsBuffer(NewBuffer(n)) /\ toStringPiece(NewBuffer(n)) = <<>>
  <1>1. kCheapPrepend + n \in Nat
    BY BufferAssumption
  <1>2. /\ zeros(kCheapPrepend + n) \in Seq(Byte)
        /\ Len(zeros(kCheapPrepend + n)) = kCheapPrepend + n
    BY <1>1, ZerosSeq
  <1>3. IsBuffer(NewBuffer(n))
    BY <1>2, BufferAssumption DEF IsBuffer, NewBuffer
  <1>4. toStringPiece(NewBuffer(n)) \in Seq(Byte)
        /\ Len(toStringPiece(NewBuffer(n))) = 0
    BY <1>3, Content, BufferAssumption DEF NewBuffer
  <1> QED
    BY <1>3, <1>4, EmptySeq

(* makeSpace keeps the content, makes the room it is asked for and, when   *)
(* it moves the content, moves it to the left.                             *)
LEMMA SpaceIsMade ==
  ASSUME NEW b, IsBuffer(b), NEW len \in Nat, writableBytes(b) < len
  PROVE  /\ IsBuffer(makeSpace(b, len))
         /\ toStringPiece(makeSpace(b, len)) = toStringPiece(b)
         /\ writableBytes(makeSpace(b, len)) >= len
         /\ ~Crowded(b, len) => kCheapPrepend < b.readerIndex_
  <1> DEFINE c == makeSpace(b, len)
  <1>1. /\ b.buffer_ \in Seq(Byte) /\ Len(b.buffer_) \in Nat
        /\ b.readerIndex_ \in Nat /\ b.writerIndex_ \in Nat
        /\ b.readerIndex_ <= b.writerIndex_ /\ b.writerIndex_ <= Len(b.buffer_)
        /\ kCheapPrepend <= Len(b.buffer_) /\ kCheapPrepend \in Nat
    BY BufferAssumption DEF IsBuffer
  <1>2. Len(b.buffer_) - b.writerIndex_ < len
    BY DEF writableBytes
  <1>3. CASE Crowded(b, len)
    <2>1. c = [b EXCEPT !.buffer_ = resize(b.buffer_, b.writerIndex_ + len)]
      BY <1>3 DEF makeSpace
    <2>2. b.writerIndex_ + len \in Nat /\ Len(b.buffer_) < b.writerIndex_ + len
      BY <1>1, <1>2
    <2>3. /\ c.buffer_ \in Seq(Byte) /\ Len(c.buffer_) = b.writerIndex_ + len
          /\ \A i \in 1..(b.writerIndex_ + len) :
               i <= Len(b.buffer_) => c.buffer_[i] = b.buffer_[i]
          /\ c.readerIndex_ = b.readerIndex_ /\ c.writerIndex_ = b.writerIndex_
          /\ c = [buffer_ |-> c.buffer_, readerIndex_ |-> c.readerIndex_,
                  writerIndex_ |-> c.writerIndex_]
      <3>1. /\ c.buffer_ = resize(b.buffer_, b.writerIndex_ + len)
            /\ c.readerIndex_ = b.readerIndex_ /\ c.writerIndex_ = b.writerIndex_
            /\ c = [buffer_ |-> c.buffer_, readerIndex_ |-> c.readerIndex_,
                    writerIndex_ |-> c.writerIndex_]
        BY <2>1 DEF IsBuffer
      <3> HIDE DEF c
      <3>2. LET r == resize(b.buffer_, b.writerIndex_ + len) IN
              /\ r \in Seq(Byte) /\ Len(r) = b.writerIndex_ + len
              /\ \A i \in 1..(b.writerIndex_ + len) :
                   i <= Len(b.buffer_) => r[i] = b.buffer_[i]
        BY <1>1, <2>2, ResizeSeq
      <3> QED
        BY <3>1, <3>2
    <2> HIDE DEF c
    <2>4. IsBuffer(c)
      BY <1>1, <2>2, <2>3 DEF IsBuffer
    <2>5. \A i \in 1..(b.writerIndex_ - b.readerIndex_) :
            c.buffer_[c.readerIndex_ + i] = b.buffer_[b.readerIndex_ + i]
      <3> TAKE i \in 1..(b.writerIndex_ - b.readerIndex_)
      <3>1. /\ b.readerIndex_ + i \in 1..(b.writerIndex_ + len)
            /\ b.readerIndex_ + i <= Len(b.buffer_)
        BY <1>1
      <3> QED
        BY <2>3, <3>1
    <2>6. toStringPiece(c) = toStringPiece(b)
      BY <2>3, <2>4, <2>5, SameContent
    <2>7. writableBytes(c) >= len
      BY <1>1, <2>3 DEF writableBytes
    <2> QED
      BY <1>3, <2>4, <2>6, <2>7 DEF c
  <1>4. CASE ~Crowded(b, len)
    <2> DEFINE size == b.writerIndex_ - b.readerIndex_
    <2>1. /\ c.buffer_ = copy(b.buffer_, kCheapPrepend, toStringPiece(b))
          /\ c.readerIndex_ = kCheapPrepend
          /\ c.writerIndex_ = kCheapPrepend + size
          /\ c = [buffer_ |-> c.buffer_, readerIndex_ |-> c.readerIndex_,
                  writerIndex_ |-> c.writerIndex_]
      BY <1>4 DEF makeSpace, readableBytes
    <2>2. Len(b.buffer_) - b.writerIndex_ + b.readerIndex_ >= len + kCheapPrepend
      BY <1>1, <1>4 DEF Crowded, writableBytes, prependableBytes
    <2>3. kCheapPrepend < b.readerIndex_
      BY <1>1, <1>2, <2>2
    <2> HIDE DEF c
    <2>4. /\ toStringPiece(b) \in Seq(Byte) /\ Len(toStringPiece(b)) = size
          /\ \A i \in 1..size : toStringPiece(b)[i] = b.buffer_[b.readerIndex_ + i]
      BY Content
    <2>5. size \in Nat /\ kCheapPrepend + size + len <= Len(b.buffer_)
      BY <1>1, <2>2
    <2> HIDE DEF size
    <2>6. kCheapPrepend + Len(toStringPiece(b)) <= Len(b.buffer_)
      BY <1>1, <2>4, <2>5
    <2>7. /\ c.buffer_ \in Seq(Byte) /\ Len(c.buffer_) = Len(b.buffer_)
          /\ \A i \in 1..Len(b.buffer_) : c.buffer_[i] =
               IF kCheapPrepend < i /\ i <= kCheapPrepend + size
               THEN toStringPiece(b)[i - kCheapPrepend] ELSE b.buffer_[i]
      <3> DEFINE t == copy(b.buffer_, kCheapPrepend, toStringPiece(b))
      <3>1. /\ t \in Seq(Byte) /\ Len(t) = Len(b.buffer_)
            /\ \A i \in 1..Len(b.buffer_) : t[i] =
                 IF kCheapPrepend < i /\ i <= kCheapPrepend + Len(toStringPiece(b))
                 THEN toStringPiece(b)[i - kCheapPrepend] ELSE b.buffer_[i]
        BY <1>1, <2>4, <2>6, CopySeq
      <3> HIDE DEF t
      <3>2. c.buffer_ = t /\ Len(toStringPiece(b)) = size
        BY <2>1, <2>4 DEF t
      <3> QED
        BY <3>1, <3>2
    <2>8. IsBuffer(c)
      BY <1>1, <2>1, <2>5, <2>7 DEF IsBuffer
    <2>9. \A i \in 1..size : c.buffer_[c.readerIndex_ + i] = b.buffer_[b.readerIndex_ + i]
      <3> TAKE i \in 1..size
      <3>1. /\ kCheapPrepend + i \in 1..Len(b.buffer_)
            /\ kCheapPrepend < kCheapPrepend + i
            /\ kCheapPrepend + i <= kCheapPrepend + size
            /\ (kCheapPrepend + i) - kCheapPrepend = i
        BY <1>1, <2>5
      <3> QED
        BY <2>1, <2>4, <2>7, <3>1
    <2>10. c.writerIndex_ - c.readerIndex_ = size
      BY <1>1, <2>1, <2>5
    <2>11. toStringPiece(c) = toStringPiece(b)
      BY <2>8, <2>9, <2>10, SameContent DEF size
    <2>12. writableBytes(c) >= len
      BY <1>1, <2>1, <2>5, <2>7 DEF writableBytes
    <2> QED
      BY <2>3, <2>8, <2>11, <2>12 DEF c
  <1> QED
    BY <1>3, <1>4

LEMMA RoomIsEnsured ==
  ASSUME NEW b, IsBuffer(b), NEW len \in Nat
  PROVE  /\ IsBuffer(ensureWritableBytes(b, len))
         /\ toStringPiece(ensureWritableBytes(b, len)) = toStringPiece(b)
         /\ writableBytes(ensureWritableBytes(b, len)) >= len
  <1>1. CASE writableBytes(b) < len
    BY <1>1, SpaceIsMade DEF ensureWritableBytes
  <1>2. CASE ~(writableBytes(b) < len)
    <2>1. writableBytes(b) \in Int
      BY DEF IsBuffer, writableBytes
    <2> QED
      BY <1>2, <2>1 DEF ensureWritableBytes
  <1> QED
    BY <1>1, <1>2

(* append adds its bytes at the end of the content.                        *)
LEMMA Appends ==
  ASSUME NEW b, IsBuffer(b), NEW d \in Seq(Byte)
  PROVE  /\ IsBuffer(append(b, d))
         /\ toStringPiece(append(b, d)) = toStringPiece(b) \o d
  <1> DEFINE e == ensureWritableBytes(b, Len(d))
             c == append(b, d)
             size == e.writerIndex_ - e.readerIndex_
  <1>1. Len(d) \in Nat
    OBVIOUS
  <1>2. IsBuffer(e) /\ toStringPiece(e) = toStringPiece(b) /\ writableBytes(e) >= Len(d)
    BY <1>1, RoomIsEnsured
  <1>3. c = [[e EXCEPT !.buffer_ = copy(e.buffer_, e.writerIndex_, d)]
               EXCEPT !.writerIndex_ = e.writerIndex_ + Len(d)]
    BY <1>2 DEF append, hasWritten, IsBuffer
  <1> HIDE DEF e, c
  <1>4. /\ c.buffer_ = copy(e.buffer_, e.writerIndex_, d)
        /\ c.readerIndex_ = e.readerIndex_
        /\ c.writerIndex_ = e.writerIndex_ + Len(d)
        /\ c = [buffer_ |-> c.buffer_, readerIndex_ |-> c.readerIndex_,
                writerIndex_ |-> c.writerIndex_]
    BY <1>2, <1>3 DEF IsBuffer
  <1>5. /\ e.buffer_ \in Seq(Byte) /\ Len(e.buffer_) \in Nat
        /\ e.readerIndex_ \in Nat /\ e.writerIndex_ \in Nat
        /\ e.readerIndex_ <= e.writerIndex_
        /\ e.writerIndex_ + Len(d) <= Len(e.buffer_)
        /\ kCheapPrepend <= Len(e.buffer_)
    BY <1>1, <1>2 DEF IsBuffer, writableBytes
  <1>6. /\ c.buffer_ \in Seq(Byte) /\ Len(c.buffer_) = Len(e.buffer_)
        /\ \A i \in 1..Len(e.buffer_) : c.buffer_[i] =
             IF e.writerIndex_ < i /\ i <= e.writerIndex_ + Len(d)
             THEN d[i - e.writerIndex_] ELSE e.buffer_[i]
    BY <1>4, <1>5, CopySeq
  <1>7. IsBuffer(c)
    BY <1>1, <1>4, <1>5, <1>6 DEF IsBuffer
  <1>8. /\ size \in Nat /\ c.writerIndex_ - c.readerIndex_ = size + Len(d)
        /\ e.readerIndex_ + size = e.writerIndex_
    BY <1>1, <1>4, <1>5
  <1>9. /\ toStringPiece(e) \in Seq(Byte) /\ Len(toStringPiece(e)) = size
        /\ \A i \in 1..size : toStringPiece(e)[i] = e.buffer_[e.readerIndex_ + i]
    BY <1>2, Content
  <1> HIDE DEF size
  <1>10. /\ toStringPiece(c) \in Seq(Byte) /\ Len(toStringPiece(c)) = size + Len(d)
         /\ \A i \in 1..(size + Len(d)) :
              toStringPiece(c)[i] = c.buffer_[c.readerIndex_ + i]
    BY <1>7, <1>8, Content
  <1>11. /\ toStringPiece(e) \o d \in Seq(Byte)
         /\ Len(toStringPiece(e) \o d) = size + Len(d)
         /\ \A i \in 1..(size + Len(d)) : (toStringPiece(e) \o d)[i] =
              IF i <= size THEN toStringPiece(e)[i] ELSE d[i - size]
    BY <1>9, ConcatProperties
  <1>12. \A i \in 1..(size + Len(d)) :
           toStringPiece(c)[i] = (toStringPiece(e) \o d)[i]
    <2> TAKE i \in 1..(size + Len(d))
    <2>1. /\ e.readerIndex_ + i \in 1..Len(e.buffer_)
          /\ e.readerIndex_ + i <= e.writerIndex_ + Len(d)
          /\ (e.readerIndex_ + i) - e.writerIndex_ = i - size
      <3>1. i \in Nat /\ 1 <= i /\ i <= size + Len(d)
        BY <1>1, <1>8
      <3>2. e.readerIndex_ + i <= e.writerIndex_ + Len(d)
        BY <1>1, <1>5, <1>8, <3>1
      <3>3. e.readerIndex_ + i \in 1..Len(e.buffer_)
        BY <1>1, <1>5, <3>1, <3>2
      <3>4. (e.readerIndex_ + i) - e.writerIndex_ = i - size
        BY <1>5, <1>8, <3>1
      <3> QED
        BY <3>2, <3>3, <3>4
    <2>2. CASE i <= size
      <3>1. i \in 1..size /\ ~(e.writerIndex_ < e.readerIndex_ + i)
        BY <1>5, <1>8, <2>2
      <3>2. c.buffer_[e.readerIndex_ + i] = e.buffer_[e.readerIndex_ + i]
        BY <1>6, <2>1, <3>1
      <3>3. (toStringPiece(e) \o d)[i] = e.buffer_[e.readerIndex_ + i]
        BY <1>9, <1>11, <2>2, <3>1
      <3> QED
        BY <1>4, <1>10, <3>2, <3>3
    <2>3. CASE ~(i <= size)
      <3>1. e.writerIndex_ < e.readerIndex_ + i
        BY <1>5, <1>8, <2>3
      <3>2. c.buffer_[e.readerIndex_ + i] = d[i - size]
        BY <1>6, <2>1, <3>1
      <3>3. (toStringPiece(e) \o d)[i] = d[i - size]
        BY <1>11, <2>3
      <3> QED
        BY <1>4, <1>10, <3>2, <3>3
    <2> QED
      BY <2>2, <2>3
  <1>13. toStringPiece(c) = toStringPiece(e) \o d
    BY <1>10, <1>11, <1>12, SeqEqual
  <1> QED
    BY <1>2, <1>7, <1>13 DEF c

(* prepend adds its bytes in front of the content.                         *)
LEMMA Prepends ==
  ASSUME NEW b, IsBuffer(b), NEW d \in Seq(Byte), Len(d) <= prependableBytes(b)
  PROVE  /\ IsBuffer(prepend(b, d))
         /\ toStringPiece(prepend(b, d)) = d \o toStringPiece(b)
  <1> DEFINE c == prepend(b, d)
             at == b.readerIndex_ - Len(d)
             size == b.writerIndex_ - b.readerIndex_
  <1>1. Len(d) \in Nat
    OBVIOUS
  <1>2. c = [[b EXCEPT !.buffer_ = copy(b.buffer_, at, d)]
               EXCEPT !.readerIndex_ = at]
    BY DEF prepend, IsBuffer
  <1>3. /\ b.buffer_ \in Seq(Byte) /\ Len(b.buffer_) \in Nat
        /\ b.readerIndex_ \in Nat /\ b.writerIndex_ \in Nat
        /\ b.readerIndex_ <= b.writerIndex_ /\ b.writerIndex_ <= Len(b.buffer_)
        /\ kCheapPrepend <= Len(b.buffer_) /\ Len(d) <= b.readerIndex_
    BY DEF IsBuffer, prependableBytes
  <1>4. /\ at \in Nat /\ at + Len(d) = b.readerIndex_ /\ at + Len(d) <= Len(b.buffer_)
        /\ size \in Nat /\ b.writerIndex_ - at = Len(d) + size
        /\ at <= b.writerIndex_ /\ b.readerIndex_ + size <= Len(b.buffer_)
    BY <1>1, <1>3
  <1>5. /\ toStringPiece(b) \in Seq(Byte) /\ Len(toStringPiece(b)) = size
        /\ \A i \in 1..size : toStringPiece(b)[i] = b.buffer_[b.readerIndex_ + i]
    BY Content
  <1> HIDE DEF c, at, size
  <1>6. /\ c.buffer_ = copy(b.buffer_, at, d)
        /\ c.readerIndex_ = at /\ c.writerIndex_ = b.writerIndex_
        /\ c = [buffer_ |-> c.buffer_, readerIndex_ |-> c.readerIndex_,
                writerIndex_ |-> c.writerIndex_]
    BY <1>2 DEF IsBuffer
  <1>7. /\ c.buffer_ \in Seq(Byte) /\ Len(c.buffer_) = Len(b.buffer_)
        /\ \A i \in 1..Len(b.buffer_) : c.buffer_[i] =
             IF at < i /\ i <= b.readerIndex_ THEN d[i - at] ELSE b.buffer_[i]
    <2> DEFINE t == copy(b.buffer_, at, d)
    <2>0. b.buffer_ \in Seq(Byte) /\ at \in Nat /\ at + Len(d) <= Len(b.buffer_)
      BY <1>3, <1>4
    <2>1. /\ t \in Seq(Byte) /\ Len(t) = Len(b.buffer_)
          /\ \A i \in 1..Len(b.buffer_) : t[i] =
               IF at < i /\ i <= at + Len(d) THEN d[i - at] ELSE b.buffer_[i]
      BY <2>0, CopySeq
    <2> HIDE DEF t
    <2>2. c.buffer_ = t /\ at + Len(d) = b.readerIndex_
      BY <1>4, <1>6 DEF t
    <2> QED
      BY <2>1, <2>2
  <1>8. IsBuffer(c)
    BY <1>3, <1>4, <1>6, <1>7 DEF IsBuffer
  <1>9. /\ toStringPiece(c) \in Seq(Byte) /\ Len(toStringPiece(c)) = Len(d) + size
        /\ \A i \in 1..(Len(d) + size) : toStringPiece(c)[i] = c.buffer_[at + i]
    BY <1>4, <1>6, <1>8, Content
  <1>10. /\ d \o toStringPiece(b) \in Seq(Byte)
         /\ Len(d \o toStringPiece(b)) = Len(d) + size
         /\ \A i \in 1..(Len(d) + size) : (d \o toStringPiece(b))[i] =
              IF i <= Len(d) THEN d[i] ELSE toStringPiece(b)[i - Len(d)]
    BY <1>5, ConcatProperties
  <1>11. \A i \in 1..(Len(d) + size) :
           toStringPiece(c)[i] = (d \o toStringPiece(b))[i]
    <2> TAKE i \in 1..(Len(d) + size)
    <2>1. at + i \in 1..Len(b.buffer_) /\ at < at + i /\ (at + i) - at = i
      BY <1>1, <1>3, <1>4
    <2>2. CASE i <= Len(d)
      <3>1. at + i <= b.readerIndex_
        BY <1>1, <1>4, <2>2
      <3>2. c.buffer_[at + i] = d[i]
        BY <1>7, <2>1, <3>1
      <3>3. (d \o toStringPiece(b))[i] = d[i]
        BY <1>10, <2>2
      <3> QED
        BY <1>9, <3>2, <3>3
    <2>3. CASE ~(i <= Len(d))
      <3>1. /\ i - Len(d) \in 1..size /\ b.readerIndex_ + (i - Len(d)) = at + i
            /\ ~(at + i <= b.readerIndex_)
        BY <1>1, <1>3, <1>4, <2>3
      <3>2. toStringPiece(b)[i - Len(d)] = b.buffer_[at + i]
        BY <1>5, <3>1
      <3>3. c.buffer_[at + i] = b.buffer_[at + i]
        BY <1>7, <2>1, <3>1
      <3>4. (d \o toStringPiece(b))[i] = toStringPiece(b)[i - Len(d)]
        BY <1>10, <2>3
      <3> QED
        BY <1>9, <3>2, <3>3, <3>4
    <2> QED
      BY <2>2, <2>3
  <1> QED
    BY <1>8, <1>9, <1>10, <1>11, SeqEqual DEF c

(* retrieve and unwrite take bytes away at one end of the content: the     *)
(* indices that delimit what is left, and what they cut off.               *)
LEMMA Cut ==
  ASSUME NEW b, IsBuffer(b), NEW m \in Nat,
         b.readerIndex_ <= m, m <= b.writerIndex_
  PROVE  /\ SubSeq(b.buffer_, b.readerIndex_ + 1, m) \in Seq(Byte)
         /\ SubSeq(b.buffer_, m + 1, b.writerIndex_) \in Seq(Byte)
         /\ toStringPiece(b) = SubSeq(b.buffer_, b.readerIndex_ + 1, m)
                                 \o SubSeq(b.buffer_, m + 1, b.writerIndex_)
  <1> DEFINE s == b.buffer_
             r == b.readerIndex_
             w == b.writerIndex_
             front == SubSeq(s, r + 1, m)
             back == SubSeq(s, m + 1, w)
  <1>1. /\ s \in Seq(Byte) /\ Len(s) \in Nat /\ r \in Nat /\ w \in Nat
        /\ r <= m /\ m <= w /\ w <= Len(s)
    BY DEF IsBuffer
  <1>2. /\ toStringPiece(b) \in Seq(Byte) /\ Len(toStringPiece(b)) = w - r
        /\ \A i \in 1..(w - r) : toStringPiece(b)[i] = s[r + i]
    BY Content
  <1> HIDE DEF s, r, w
  <1>3. /\ front \in Seq(Byte) /\ Len(front) = m - r
        /\ \A i \in 1..(m - r) : front[i] = s[r + i]
    BY <1>1, Slice
  <1>4. /\ back \in Seq(Byte) /\ Len(back) = w - m
        /\ \A i \in 1..(w - m) : back[i] = s[m + i]
    BY <1>1, Slice
  <1> HIDE DEF front, back
  <1>5. (m - r) + (w - m) = w - r
    BY <1>1
  <1>6. /\ front \o back \in Seq(Byte) /\ Len(front \o back) = w - r
        /\ \A i \in 1..(w - r) : (front \o back)[i] =
             IF i <= m - r THEN front[i] ELSE back[i - (m - r)]
    <2>1. /\ front \o back \in Seq(Byte)
          /\ Len(front \o back) = Len(front) + Len(back)
          /\ \A i \in 1..(Len(front) + Len(back)) : (front \o back)[i] =
               IF i <= Len(front) THEN front[i] ELSE back[i - Len(front)]
      BY <1>3, <1>4, ConcatProperties
    <2>2. Len(front) + Len(back) = w - r /\ Len(front) = m - r
      BY <1>3, <1>4, <1>5
    <2> HIDE <1>3, <1>4
    <2> QED
      BY <2>1, <2>2
  <1>7. \A i \in 1..(w - r) : toStringPiece(b)[i] = (front \o back)[i]
    <2> TAKE i \in 1..(w - r)
    <2>1. CASE i <= m - r
      <3>1. i \in 1..(m - r)
        BY <1>1, <2>1
      <3> QED
        BY <1>2, <1>3, <1>6, <2>1, <3>1
    <2>2. CASE ~(i <= m - r)
      <3>1. i - (m - r) \in 1..(w - m) /\ m + (i - (m - r)) = r + i
        BY <1>1, <2>2
      <3>2. back[i - (m - r)] = s[r + i]
        BY <1>4, <3>1
      <3> QED
        BY <1>2, <1>6, <2>2, <3>2
    <2> QED
      BY <2>1, <2>2
  <1>8. toStringPiece(b) = front \o back
    BY <1>2, <1>6, <1>7, SeqEqual
  <1> QED
    BY <1>3, <1>4, <1>8 DEF front, back, s, r, w

(* What retrieve takes away is what peek showed.                           *)
LEMMA Retrieves ==
  ASSUME NEW b, IsBuffer(b), NEW n \in Nat, n <= readableBytes(b)
  PROVE  /\ IsBuffer(retrieve(b, n))
         /\ toStringPiece(b) = peek(b, n) \o toStringPiece(retrieve(b, n))
  <1> DEFINE c == retrieve(b, n)
  <1>1. /\ b.buffer_ \in Seq(Byte) /\ Len(b.buffer_) \in Nat
        /\ b.readerIndex_ \in Nat /\ b.writerIndex_ \in Nat
        /\ b.readerIndex_ <= b.writerIndex_ /\ b.writerIndex_ <= Len(b.buffer_)
        /\ kCheapPrepend <= Len(b.buffer_) /\ kCheapPrepend \in Nat
        /\ n <= b.writerIndex_ - b.readerIndex_
    BY BufferAssumption DEF IsBuffer, readableBytes
  <1>2. /\ b.readerIndex_ + n \in Nat /\ b.readerIndex_ <= b.readerIndex_ + n
        /\ b.readerIndex_ + n <= b.writerIndex_
    BY <1>1
  <1>3. /\ peek(b, n) \in Seq(Byte)
        /\ SubSeq(b.buffer_, b.readerIndex_ + n + 1, b.writerIndex_) \in Seq(Byte)
        /\ toStringPiece(b) = peek(b, n) \o
             SubSeq(b.buffer_, b.readerIndex_ + n + 1, b.writerIndex_)
    BY <1>2, Cut DEF peek
  <1>4. CASE n < readableBytes(b)
    <2>1. /\ c.buffer_ = b.buffer_ /\ c.readerIndex_ = b.readerIndex_ + n
          /\ c.writerIndex_ = b.writerIndex_
          /\ c = [buffer_ |-> c.buffer_, readerIndex_ |-> c.readerIndex_,
                  writerIndex_ |-> c.writerIndex_]
      BY <1>4 DEF retrieve, IsBuffer
    <2> HIDE DEF c
    <2>2. IsBuffer(c)
      BY <1>1, <1>2, <2>1 DEF IsBuffer
    <2>3. toStringPiece(c) = SubSeq(b.buffer_, b.readerIndex_ + n + 1, b.writerIndex_)
      BY <2>1 DEF toStringPiece
    <2> QED
      BY <1>3, <2>2, <2>3 DEF c
  <1>5. CASE ~(n < readableBytes(b))
    <2>1. /\ c.buffer_ = b.buffer_ /\ c.readerIndex_ = kCheapPrepend
          /\ c.writerIndex_ = kCheapPrepend
          /\ c = [buffer_ |-> c.buffer_, readerIndex_ |-> c.readerIndex_,
                  writerIndex_ |-> c.writerIndex_]
      BY <1>5 DEF retrieve, retrieveAll, IsBuffer
    <2> HIDE DEF c
    <2>2. IsBuffer(c)
      BY <1>1, <2>1 DEF IsBuffer
    <2>3. toStringPiece(c) = <<>>
      <3>1. toStringPiece(c) \in Seq(Byte) /\ Len(toStringPiece(c)) = 0
        BY <1>1, <2>1, <2>2, Content
      <3> QED
        BY <3>1, EmptySeq
    <2>4. SubSeq(b.buffer_, b.readerIndex_ + n + 1, b.writerIndex_) = <<>>
      <3>1. b.writerIndex_ < b.readerIndex_ + n + 1
        BY <1>1, <1>5 DEF readableBytes
      <3> QED
        BY <1>1, <3>1, SubSeqEmpty
    <2> QED
      BY <1>3, <2>2, <2>3, <2>4 DEF c
  <1> QED
    BY <1>4, <1>5

LEMMA Unwrites ==
  ASSUME NEW b, IsBuffer(b), NEW n \in Nat, n <= readableBytes(b)
  PROVE  /\ IsBuffer(unwrite(b, n))
         /\ toStringPiece(b) = toStringPiece(unwrite(b, n)) \o
              SubSeq(b.buffer_, b.writerIndex_ - n + 1, b.writerIndex_)
  <1> DEFINE c == unwrite(b, n)
  <1>1. /\ b.buffer_ \in Seq(Byte) /\ Len(b.buffer_) \in Nat
        /\ b.readerIndex_ \in Nat /\ b.writerIndex_ \in Nat
        /\ b.writerIndex_ <= Len(b.buffer_) /\ kCheapPrepend <= Len(b.buffer_)
        /\ n <= b.writerIndex_ - b.readerIndex_
    BY DEF IsBuffer, readableBytes
  <1>2. /\ b.writerIndex_ - n \in Nat /\ b.readerIndex_ <= b.writerIndex_ - n
        /\ b.writerIndex_ - n <= b.writerIndex_
        /\ b.writerIndex_ - n <= Len(b.buffer_)
    BY <1>1
  <1>3. /\ c.buffer_ = b.buffer_ /\ c.readerIndex_ = b.readerIndex_
        /\ c.writerIndex_ = b.writerIndex_ - n
        /\ c = [buffer_ |-> c.buffer_, readerIndex_ |-> c.readerIndex_,
                writerIndex_ |-> c.writerIndex_]
    BY DEF unwrite, IsBuffer
  <1> HIDE DEF c
  <1>4. IsBuffer(c)
    BY <1>1, <1>2, <1>3 DEF IsBuffer
  <1>5. toStringPiece(c) = SubSeq(b.buffer_, b.readerIndex_ + 1, b.writerIndex_ - n)
    BY <1>3 DEF toStringPiece
  <1> QED
    BY <1>2, <1>4, <1>5, Cut DEF c

(* shrink keeps the content.                                               *)
LEMMA Shrinks ==
  ASSUME NEW b, IsBuffer(b), NEW n \in Nat
  PROVE  IsBuffer(shrink(b, n)) /\ toStringPiece(shrink(b, n)) = toStringPiece(b)
  <1>1. readableBytes(b) + n \in Nat
    BY DEF IsBuffer, readableBytes
  <1> DEFINE e == ensureWritableBytes(NewBuffer(kInitialSize), readableBytes(b) + n)
  <1>2. IsBuffer(e) /\ toStringPiece(e) = <<>>
    BY <1>1, NewIsBuffer, RoomIsEnsured, BufferAssumption
  <1>3. toStringPiece(b) \in Seq(Byte)
    BY Content
  <1> HIDE DEF e
  <1>4. /\ IsBuffer(append(e, toStringPiece(b)))
        /\ toStringPiece(append(e, toStringPiece(b))) = <<>> \o toStringPiece(b)
    BY <1>2, <1>3, Appends
  <1> QED
    BY <1>3, <1>4, ConcatEmptySeq DEF shrink, e

-----------------------------------------------------------------------------
(* The buffer and its callers                                              *)

LEMMA IntBytes ==
  ASSUME NEW w \in IntSize, NEW x \in Ints(w)
  PROVE  hostToNetwork(x, w) \in Seq(Byte)
  <1>1. w \in Nat /\ Base \in Nat \ {0}
    BY BufferAssumption
  <1>2. x \in Int
    BY DEF Ints
  <1>3. hostToNetwork(x, w) \in [1..w -> Byte]
    <2> SUFFICES ASSUME NEW i \in 1..w
                 PROVE  (x \div Base^(w - i)) % Base \in Byte
      BY DEF hostToNetwork
    <2>1. w - i \in Nat
      BY <1>1
    <2>2. Base^(w - i) \in Int
      BY <1>1, <2>1
    <2> QED
      BY <1>1, <1>2, <2>2 DEF Byte
  <1> QED
    BY <1>1, <1>3, SeqDef

LEMMA DataBytes == Data \subseteq Seq(Byte)
  <1> SUFFICES ASSUME NEW d \in Data
               PROVE  d \in Seq(Byte)
    OBVIOUS
  <1>1. PICK m \in 0..2 : d \in [1..m -> Byte]
    BY DEF Data, SeqOf
  <1> QED
    BY <1>1, SeqDef

(* A step of the caller keeps the buffer well-formed and is a step of the  *)
(* queue.                                                                  *)
LEMMA BufStep ==
  ASSUME IsBuffer(buf), BufNext
  PROVE  IsBuffer(buf') /\ Queue!QueueNext
  <1> USE DEF Queue!QueueNext
  <1>1. ASSUME NEW d \in Data, Append_(d)
        PROVE  IsBuffer(buf') /\ Queue!QueueNext
    BY <1>1, DataBytes, Appends DEF Append_, Queue!Appended
  <1>2. ASSUME NEW d \in Data, Prepend(d)
        PROVE  IsBuffer(buf') /\ Queue!QueueNext
    BY <1>2, DataBytes, Prepends DEF Prepend, Queue!Prepended
  <1>3. ASSUME NEW w \in IntSize, ReadInt(w)
        PROVE  IsBuffer(buf') /\ Queue!QueueNext
    <2>1. w \in Nat
      BY BufferAssumption
    <2> QED
      BY <1>3, <2>1, Retrieves DEF ReadInt, readInt, Queue!Retrieved
  <1>4. ASSUME NEW w \in IntSize, NEW x \in Ints(w), AppendInt(x, w)
        PROVE  IsBuffer(buf') /\ Queue!QueueNext
    BY <1>4, IntBytes, Appends DEF AppendInt, appendInt, Queue!Appended
  <1>5. ASSUME NEW n \in 0..MaxContent, Retrieve(n)
        PROVE  IsBuffer(buf') /\ Queue!QueueNext
    <2>1. n \in Nat
      BY MaxContentAssumption
    <2> QED
      BY <1>5, <2>1, Retrieves DEF Retrieve, Queue!Retrieved
  <1>6. ASSUME NEW n \in 0..MaxContent, Unwrite(n)
        PROVE  IsBuffer(buf') /\ Queue!QueueNext
    <2>1. n \in Nat
      BY MaxContentAssumption
    <2> QED
      BY <1>6, <2>1, Unwrites DEF Unwrite, Queue!Unwritten
  <1>7. ASSUME NEW mark \in {kCRLF, <<LF>>}, NEW n \in 0..MaxContent,
               RetrieveLine(mark, n)
        PROVE  IsBuffer(buf') /\ Queue!QueueNext
    <2>1. n \in Nat /\ Len(mark) \in Nat /\ readableBytes(buf) \in Nat
      BY MaxContentAssumption, BufferAssumption DEF IsBuffer, readableBytes
    <2>2. PICK end \in find(buf, mark, n) :
            /\ buf' = retrieve(buf, end + Len(mark))
            /\ call' = [op |-> "retrieve", data |-> peek(buf, end + Len(mark))]
      BY <1>7 DEF RetrieveLine
    <2>3. end \in n..(readableBytes(buf) - Len(mark))
      BY DEF find, Occurrences
    <2>4. end + Len(mark) \in Nat /\ end + Len(mark) <= readableBytes(buf)
      BY <2>1, <2>3
    <2> QED
      BY <2>2, <2>4, Retrieves DEF Queue!Retrieved
  <1>8. ASSUME NEW n \in 0..kInitialSize, Shrink(n)
        PROVE  IsBuffer(buf') /\ Queue!QueueNext
    <2>1. n \in Nat
      BY BufferAssumption
    <2> QED
      BY <1>8, <2>1, Shrinks DEF Shrink, Queue!Kept
  <1> QED
    BY <1>1, <1>2, <1>3, <1>4, <1>5, <1>6, <1>7, <1>8 DEF BufNext

LEMMA BufStart ==
  ASSUME BufInit
  PROVE  IsBuffer(buf) /\ Queue!QueueInit
  BY NewIsBuffer, BufferAssumption DEF BufInit, Queue!QueueInit

BufInv == IsBuffer(buf)

(* The inductive invariant: the indices delimit the content in every       *)
(* state, and the vector keeps the room in front.                          *)
THEOREM BufInvariant == BufSpec => []BufInv
  <1>1. BufInv /\ UNCHANGED bufVars => BufInv'
    BY DEF bufVars, BufInv
  <1>2. BufInv /\ [BufNext]_bufVars => BufInv'
    BY <1>1, BufStep DEF BufInv
  <1>3. BufInit => BufInv
    BY BufStart DEF BufInv
  <1> QED
    BY <1>2, <1>3, PTL DEF BufSpec

(* Whatever the methods are called with, in whatever order,                *)
(* 0 <= readerIndex <= writerIndex <= size.                                *)
THEOREM BufIndices == BufSpec => []BufTypeOK
  <1>1. BufInv => BufTypeOK
    BY DEF BufInv, IsBuffer, BufTypeOK
  <1> QED
    BY <1>1, BufInvariant, PTL

(* The asserts in makeSpace and ensureWritableBytes hold for every request *)
(* in every state.                                                         *)
THEOREM BufAsserts == BufSpec => []AssertsHold
  <1>1. BufInv => AssertsHold
    <2> SUFFICES ASSUME IsBuffer(buf), NEW len \in 0..(MaxContent + kInitialSize)
                 PROVE  /\ writableBytes(buf) < len /\ ~Crowded(buf, len)
                             => kCheapPrepend < buf.readerIndex_
                        /\ writableBytes(ensureWritableBytes(buf, len)) >= len
      BY DEF AssertsHold, BufInv
    <2>1. len \in Nat
      BY BufferAssumption, MaxContentAssumption
    <2> QED
      BY <2>1, SpaceIsMade, RoomIsEnsured
  <1> QED
    BY <1>1, BufInvariant, PTL

(* The buffer implements the queue of bytes: every method takes the        *)
(* content from one state of the queue to the next, whatever makeSpace     *)
(* and shrink do to the vector behind it.                                  *)
THEOREM BufRefinement == BufSpec => IsByteQueue
  <1>1. UNCHANGED bufVars => UNCHANGED Queue!queueVars
    BY DEF bufVars, Queue!queueVars, toStringPiece
  <1>2. BufInv /\ [BufNext]_bufVars => [Queue!QueueNext]_(Queue!queueVars)
    BY <1>1, BufStep DEF BufInv
  <1>3. BufInit => Queue!QueueInit
    BY BufStart
  <1> QED
    BY <1>2, <1>3, BufInvariant, PTL DEF BufSpec, IsByteQueue, Queue!QueueSpec

=============================================================================
