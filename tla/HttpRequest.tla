----------------------------- MODULE HttpRequest -----------------------------
(***************************************************************************)
(* muduo's HttpContext and the HttpRequest in it (net/http/HttpContext.h,  *)
(* HttpRequest.h): one object serves all requests of a connection, one     *)
(* after the other, and is reset() in between.                             *)
(*                                                                         *)
(* parseRequest is not in the repository; RequestLine, HeaderLine and      *)
(* EndOfHeaders are the calls it makes as the state of the context tells.  *)
(* Path, query and time are stored like the version and are left out.      *)
(***************************************************************************)
EXTENDS Integers, Sequences, SequencesExt, FiniteSets

CONSTANTS Name,          \* words at the beginning of a request line
          Version, kUnknown,
          Field,         \* names of headers
          Char, Space,   \* characters of header values; isspace() holds for Space
          MaxValue       \* bound: characters behind the colon of a header

ASSUME HttpAssumption ==
  Space \in Char /\ kUnknown \notin Version /\ MaxValue \in Nat

VARIABLES method_, version_,
          headers_,   \* the value of every field that has one
          state_,
          asked,      \* history: what the present request line asked for
          lines       \* history: what the last header of every field had behind its colon

httpVars == <<method_, version_, headers_, state_, asked, lines>>

Empty == [f \in {} |-> <<>>]

HttpInit ==
  /\ method_ = "kInvalid" /\ version_ = kUnknown /\ headers_ = Empty
  /\ state_ = "kExpectRequestLine"
  /\ asked = "UNKNOWN" /\ lines = Empty

-----------------------------------------------------------------------------
Method == {<<"GET", "kGet">>, <<"POST", "kPost">>, <<"HEAD", "kHead">>,
           <<"PUT", "kPut">>, <<"DELETE", "kDelete">>}

\* The value setMethod() stores; it returns whether that is not kInvalid.
setMethod(name) ==
  IF \E m \in Method : m[1] = name
  THEN (CHOOSE m \in Method : m[1] = name)[2] ELSE "kInvalid"

methodString ==
  IF \E m \in Method : m[2] = method_
  THEN (CHOOSE m \in Method : m[2] = method_)[1] ELSE "UNKNOWN"

\* The first place, from 1 on, that is not a space: colon after its loop.
leading(s) ==
  LET from[i \in 1..(Len(s) + 1)] ==
        IF i <= Len(s) /\ s[i] = Space THEN from[i + 1] ELSE i
  IN from[1]

\* Spaces at the end are cut off while the value is not empty.
trailing(s) ==
  LET keep[n \in 0..Len(s)] ==
        IF n > 0 /\ s[n] = Space THEN keep[n - 1] ELSE n
  IN SubSeq(s, 1, keep[Len(s)])

\* headers_ after addHeader() of a line with "rest" behind the colon.
addHeader(field, rest) ==
  (field :> trailing(SubSeq(rest, leading(rest), Len(rest)))) @@ headers_

getHeader(field) == IF field \in DOMAIN headers_ THEN headers_[field] ELSE <<>>

-----------------------------------------------------------------------------
RequestLine(name, v) ==
  /\ state_ = "kExpectRequestLine"
  /\ method_' = setMethod(name)
  /\ asked' = name
  /\ IF method_' = "kInvalid"
     THEN UNCHANGED <<version_, state_>>
     ELSE version_' = v /\ state_' = "kExpectHeaders"
  /\ UNCHANGED <<headers_, lines>>

HeaderLine(field, rest) ==
  /\ state_ = "kExpectHeaders"
  /\ headers_' = addHeader(field, rest)
  /\ lines' = (field :> rest) @@ lines
  /\ UNCHANGED <<method_, version_, state_, asked>>

EndOfHeaders ==
  /\ state_ = "kExpectHeaders"
  /\ state_' = "kGotAll"
  /\ UNCHANGED <<method_, version_, headers_, asked, lines>>

\* swap() leaves the method of the request that is over.
MutResetMethod ==
  /\ state_ = "kGotAll"
  /\ version_' = kUnknown /\ headers_' = Empty
  /\ state_' = "kExpectRequestLine"
  /\ asked' = "UNKNOWN" /\ lines' = Empty
  /\ UNCHANGED method_

\* The request is swapped with a new one.
reset ==
  /\ state_ = "kGotAll"
  /\ method_' = "kInvalid" /\ version_' = kUnknown /\ headers_' = Empty
  /\ state_' = "kExpectRequestLine"
  /\ asked' = "UNKNOWN" /\ lines' = Empty

HttpNext ==
  \/ \E n \in Name, v \in Version : RequestLine(n, v)
  \/ \E f \in Field, r \in SeqOf(Char, MaxValue) : HeaderLine(f, r)
  \/ EndOfHeaders \/ reset

-----------------------------------------------------------------------------
(* Properties                                                              *)

(* The assert of setMethod holds at every call, and what a request is said *)
(* to be is what its own request line asked for, also when the context     *)
(* served other requests before.                                           *)
MethodIsAsked ==
  /\ state_ = "kExpectRequestLine" => method_ = "kInvalid"
  /\ method_ # "kInvalid" => methodString = asked
  /\ method_ = "kInvalid" => methodString = "UNKNOWN"

Blank(s) == \A i \in 1..Len(s) : s[i] = Space

(* getHeader() of every field finds the last line of this request for that *)
(* field, and of that line the longest part that neither begins nor ends   *)
(* with a space: nothing if the line has none or only spaces, and nothing  *)
(* of a request before.                                                    *)
HeadersOfThisRequest ==
  \A f \in Field :
    LET v == getHeader(f)
        line == IF f \in DOMAIN lines THEN lines[f] ELSE <<>> IN
      /\ v # <<>> => Head(v) # Space /\ Last(v) # Space
      /\ \E i \in 0..Len(line), j \in 0..Len(line) :
           /\ i + Len(v) + j = Len(line) /\ Blank(SubSeq(line, 1, i))
           /\ v = SubSeq(line, i + 1, i + Len(v))
           /\ Blank(SubSeq(line, i + Len(v) + 1, Len(line)))

(* A request says what its own lines said, and nothing of those that were  *)
(* served by the same context before it.                                   *)
RequestSound == MethodIsAsked /\ HeadersOfThisRequest

=============================================================================
