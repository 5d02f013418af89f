------------------------------- MODULE LogText -------------------------------
(***************************************************************************)
(* What the log of the server is written with: StringPiece, a view of      *)
(* characters that are somebody else's (base/StringPiece.h), FixedBuffer   *)
(* and LogStream, which collects a line in SIZE bytes (base/LogStream.h).  *)
(*                                                                         *)
(* A StringPiece is a pair of an offset into the memory mem and a length.  *)
(* cur_ and the bytes before it are kept as the sequence data_.            *)
(***************************************************************************)
EXTENDS Integers, Sequences, SequencesExt, FiniteSets

CONSTANTS mem,               \* the characters that pieces point into
          SIZE,              \* kSmallBuffer
          kMaxNumericSize,
          null,              \* the text "(null)"
          Items              \* bound: items written between two resets

ASSUME LogTextAssumption ==
  SIZE \in Nat \ {0} /\ kMaxNumericSize \in 1..SIZE /\ Items \in Nat

VARIABLES piece,      \* a StringPiece
          data_,      \* FixedBuffer::data_ up to cur_
          written     \* history: the items put into the stream since resetBuffer()

textVars == <<piece, data_, written>>

-----------------------------------------------------------------------------
(* StringPiece                                                             *)

StringPiece(offset, n) == [ptr_ |-> offset, length_ |-> n]
Piece == {StringPiece(o, n) : o \in 0..Len(mem), n \in 0..Len(mem)}
Valid(p) == p.ptr_ + p.length_ <= Len(mem)

as_string(p) == SubSeq(mem, p.ptr_ + 1, p.ptr_ + p.length_)

remove_prefix(p, n) == StringPiece(p.ptr_ + n, p.length_ - n)
remove_suffix(p, n) == StringPiece(p.ptr_, p.length_ - n)

\* memcmp() of the first n characters of two pieces: the difference at the
\* first place where they differ.
memcmp(p, x, n) ==
  LET differ == {i \in 1..n : mem[p.ptr_ + i] # mem[x.ptr_ + i]} IN
    IF differ = {} THEN 0
    ELSE LET i == CHOOSE i \in differ : \A j \in differ : i <= j IN
           mem[p.ptr_ + i] - mem[x.ptr_ + i]

shorter(p, x) == IF p.length_ < x.length_ THEN p.length_ ELSE x.length_

equal(p, x) == p.length_ = x.length_ /\ memcmp(p, x, p.length_) = 0

\* STRINGPIECE_BINARY_PREDICATE for < and <= (> and >= are their mirror images).
less(p, x) ==
  LET r == memcmp(p, x, shorter(p, x)) IN r < 0 \/ (r = 0 /\ p.length_ < x.length_)

lessEqual(p, x) ==
  LET r == memcmp(p, x, shorter(p, x)) IN r < 0 \/ (r = 0 /\ p.length_ <= x.length_)

compare(p, x) ==
  LET r == memcmp(p, x, shorter(p, x)) IN
    IF r = 0 THEN p.length_ - x.length_ ELSE r

starts_with(p, x) == p.length_ >= x.length_ /\ memcmp(p, x, x.length_) = 0

-----------------------------------------------------------------------------
(* FixedBuffer and LogStream                                               *)

avail == SIZE - Len(data_)

\* As much of the text as fits is taken.
MutFixedAppendPart(buf) ==
  data_ \o SubSeq(buf, 1, IF avail > Len(buf) THEN Len(buf) ELSE avail - 1)

\* A text that does not fit is dropped as a whole.
fixedAppend(buf) == IF avail > Len(buf) THEN data_ \o buf ELSE data_

Write(item, after) ==
  /\ Len(written) < Items
  /\ data_' = after
  /\ written' = Append(written, item)
  /\ UNCHANGED piece

\* operator<< of strings, pieces and other buffers, of a char and of a bool,
\* of a Fmt; append().
WriteText(s) == Write(s, fixedAppend(s))

\* operator<< of a NULL string.
WriteNull == Write(null, fixedAppend(null))

\* operator<< of a number writes at current() if there is room for any number,
\* and add()s its length.
WriteNumber(digits) ==
  /\ Len(digits) < kMaxNumericSize
  /\ Write(digits, IF avail >= kMaxNumericSize THEN data_ \o digits ELSE data_)

resetBuffer ==
  /\ written # <<>>
  /\ data_' = <<>> /\ written' = <<>>
  /\ UNCHANGED piece

-----------------------------------------------------------------------------
\* A caller sets a piece to a text, and cuts it at both ends.
SetPiece(p) ==
  /\ Valid(p)
  /\ piece' = p
  /\ UNCHANGED <<data_, written>>

RemovePrefix(n) ==
  /\ n <= piece.length_
  /\ piece' = remove_prefix(piece, n)
  /\ UNCHANGED <<data_, written>>

RemoveSuffix(n) ==
  /\ n <= piece.length_
  /\ piece' = remove_suffix(piece, n)
  /\ UNCHANGED <<data_, written>>

TextInit == piece = StringPiece(0, 0) /\ data_ = <<>> /\ written = <<>>

TextNext ==
  \/ \E p \in Piece : SetPiece(p)
  \/ \E n \in 1..Len(mem) : RemovePrefix(n) \/ RemoveSuffix(n)
  \/ WriteText(as_string(piece)) \/ WriteNull \/ WriteNumber(as_string(piece))
  \/ resetBuffer

TextSpec == TextInit /\ [][TextNext]_textVars

-----------------------------------------------------------------------------
(* Properties                                                              *)

(* A piece never leaves the memory it was set to, and the stream keeps one *)
(* byte free behind the text, whatever is written.                         *)
TextTypeOK ==
  /\ piece \in Piece /\ Valid(piece)
  /\ data_ \in Seq(Range(mem) \cup Range(null)) /\ Len(data_) < SIZE

Texts(s) == FlattenSeq(s)

(* The line is made of whole items in the order they were written: an item *)
(* that did not fit leaves no part behind, and nothing later is lost for   *)
(* it as long as that fits.                                                *)
WholeItems ==
  \E kept \in SUBSET (1..Len(written)) :
    /\ data_ = Texts([i \in 1..Len(written) |->
                        IF i \in kept THEN written[i] ELSE <<>>])
    /\ \A i \in (1..Len(written)) \ kept :
         Len(data_) + Len(written[i]) >= SIZE
           \/ Len(data_) + kMaxNumericSize > SIZE

\* Dictionary order, as the reference.
Before(s, t) ==
  \/ Len(s) < Len(t) /\ s = SubSeq(t, 1, Len(s))
  \/ \E i \in 1..Len(s) : /\ i <= Len(t)
                          /\ SubSeq(s, 1, i - 1) = SubSeq(t, 1, i - 1)
                          /\ s[i] < t[i]

(* The comparisons of pieces are one total order, that of the dictionary,  *)
(* and agree with each other and with starts_with: a map with pieces as    *)
(* keys finds what was put into it.                                        *)
OrderAgrees ==
  \A x \in {p \in Piece : Valid(p)} :
    LET s == as_string(piece)
        t == as_string(x) IN
      /\ equal(piece, x) <=> s = t
      /\ less(piece, x) <=> Before(s, t)
      /\ lessEqual(piece, x) <=> (Before(s, t) \/ s = t)
      /\ compare(piece, x) < 0 <=> Before(s, t)
      /\ compare(piece, x) = 0 <=> s = t
      /\ starts_with(piece, x) <=> IsPrefix(t, s)

(* A line is made of whole items and ends before its buffer does, and the  *)
(* pieces it is fed from stay in their memory and compare as texts.        *)
TextSound == TextTypeOK /\ WholeItems /\ OrderAgrees

=============================================================================
