-------------------------- MODULE CReceiverProofs --------------------------
(***************************************************************************)
(* Proofs about CReceiver, for every size of the ring, the chunks, the     *)
(* header and command[], and messages of any length.                       *)
(***************************************************************************)
EXTENDS CReceiver, SequenceTheorems, TLAPS

\* The write pointer is length cells ahead of the read pointer.
Pointers == w_ptr = Wrap(r_ptr + length)

\* The messages follow one another without a gap up to sentEnd, and a new
\* connection begins with one.
MessageEnds ==
  /\ recvPos <= sentEnd /\ connBegin <= sentEnd /\ oldEnd <= sentEnd
  /\ connBegin \in DOMAIN message \cup {sentEnd}
  /\ \A p \in DOMAIN message :
       /\ p + Header + message[p].body <= sentEnd
       /\ p + Header + message[p].body \in DOMAIN message \cup {sentEnd}

\* When the parser has stopped, less than the message at the front is left.
LessThanOne ==
  ~torn /\ pc # "parse" =>
    \/ length = 0
    \/ /\ Unparsed \in DOMAIN message
       /\ length < Header + message[Unparsed].body

RecvInv ==
  /\ RecvTypeOK
  /\ Pointers
  /\ MessageEnds
  /\ FramingExact
  /\ LessThanOne

-----------------------------------------------------------------------------
(* A message has a body of at least one byte, and its command byte is      *)
(* SEND_DATA or a call back with a result.                                 *)
LEMMA MessageFields ==
  ASSUME NEW m \in Message
  PROVE  /\ m.body \in Nat \ {0}
         /\ m.command = "SEND_DATA" \/ m.command \in CallBack
         /\ m.command \in CallBack => m.result \in {"success", "error"}
<1>1. CASE m \in [body : Body, command : {"SEND_DATA"}, result : {"none"}]
  BY <1>1, SizesAssumption
<1>2. CASE m \in [body : {2}, command : CallBack, result : {"success", "error"}]
  BY <1>2
<1> QED BY <1>1, <1>2 DEF Message

(* recv_data_fifo_push keeps the pointers inside the ring and puts the     *)
(* next k bytes of the stream behind the ones it holds.                    *)
LEMMA PushKeepsRing ==
  ASSUME RecvTypeOK, Pointers, NEW k \in 1..Chunk, k + length <= N,
         recv_data_fifo_push(k)
  PROVE  /\ data' \in [0..(N-1) -> Int]
         /\ r_ptr' = r_ptr /\ w_ptr' \in 0..(N-1) /\ length' \in 0..N
         /\ length' = length + k
         /\ Pointers'
         /\ Holds(recvPos - length, length)
              => \A i \in 0..(length + k - 1) :
                   data'[Wrap(r_ptr + i)] = recvPos - length + i
<1> USE SizesAssumption
<1>1. /\ r_ptr' = r_ptr /\ length' = length + k
      /\ w_ptr' = Wrap(w_ptr + k)
      /\ data' = Pushed(k)
  BY DEF recv_data_fifo_push
<1>2. data' \in [0..(N-1) -> Int]
  BY <1>1 DEF RecvTypeOK, Pushed, Ahead
<1>3. w_ptr' \in 0..(N-1) /\ length' \in 0..N
  BY <1>1 DEF RecvTypeOK, Wrap
<1>4. Pointers'
  BY <1>1 DEF RecvTypeOK, Wrap, Pointers
<1>5. ASSUME Holds(recvPos - length, length), NEW i \in 0..(length + k - 1)
      PROVE  data'[Wrap(r_ptr + i)] = recvPos - length + i
  <2> DEFINE j == Wrap(r_ptr + i)
  <2>1. j \in 0..(N-1)
    BY DEF RecvTypeOK, Wrap
  <2>2. data'[j] = IF Ahead(j) < k THEN recvPos + Ahead(j) ELSE data[j]
    BY <1>1, <2>1 DEF Pushed
  <2>3. CASE i < length
    <3>1. Ahead(j) >= k
      BY <2>3 DEF RecvTypeOK, Pointers, Wrap, Ahead
    <3>2. i \in 0..(length - 1)
      BY <2>3 DEF RecvTypeOK
    <3>3. data[j] = recvPos - length + i
      BY <3>2, <1>5 DEF Holds
    <3>4. Ahead(j) \in Int /\ k \in Int
      BY <2>1 DEF Ahead, RecvTypeOK
    <3>5. ~(Ahead(j) < k)
      BY <3>1, <3>4
    <3>6. data'[j] = data[j]
      BY <2>2, <3>5
    <3> QED BY <3>3, <3>6
  <2>4. CASE i >= length
    <3>1. Ahead(j) = i - length
      BY <2>4 DEF RecvTypeOK, Pointers, Wrap, Ahead
    <3>2. Ahead(j) < k /\ recvPos + Ahead(j) = recvPos - length + i
      BY <2>4, <3>1 DEF RecvTypeOK
    <3> QED BY <2>2, <3>2
  <2> QED BY <2>3, <2>4 DEF RecvTypeOK
<1> QED BY <1>1, <1>2, <1>3, <1>4, <1>5

(* recv_data_fifo_pop of no more bytes than the ring holds keeps the       *)
(* pointers inside the ring and the rest of the bytes in order.            *)
LEMMA PopKeepsRing ==
  ASSUME RecvTypeOK, Pointers, NEW k \in 0..length, recv_data_fifo_pop(k)
  PROVE  /\ data' = data /\ w_ptr' = w_ptr
         /\ r_ptr' \in 0..(N-1) /\ length' \in 0..N
         /\ length' = length - k
         /\ Pointers'
         /\ Holds(recvPos - length, length)
              => \A i \in 0..(length - k - 1) :
                   data[Wrap(r_ptr' + i)] = recvPos - (length - k) + i
<1> USE SizesAssumption
<1>1. /\ data' = data /\ w_ptr' = w_ptr /\ length' = length - k
      /\ r_ptr' = Wrap(r_ptr + k)
  BY DEF recv_data_fifo_pop
<1>2. r_ptr' \in 0..(N-1) /\ length' \in 0..N
  BY <1>1 DEF RecvTypeOK, Wrap
<1>3. Pointers'
  BY <1>1 DEF RecvTypeOK, Wrap, Pointers
<1>4. ASSUME Holds(recvPos - length, length), NEW i \in 0..(length - k - 1)
      PROVE  data[Wrap(r_ptr' + i)] = recvPos - (length - k) + i
  <2>1. Wrap(r_ptr' + i) = Wrap(r_ptr + (k + i))
    BY <1>1 DEF RecvTypeOK, Wrap
  <2>2. k + i \in 0..(length - 1)
    BY DEF RecvTypeOK
  <2>3. data[Wrap(r_ptr + (k + i))] = recvPos - length + (k + i)
    BY <2>2, <1>4 DEF Holds
  <2> QED BY <2>1, <2>3 DEF RecvTypeOK
<1> QED BY <1>1, <1>2, <1>3, <1>4

(* Taking entries off recv_data_list leaves a list of the same type.       *)
LEMMA TakeTypes ==
  ASSUME recv_data_list \in Seq(Int), NEW n \in Nat
  PROVE  /\ FirstData(n) \in Seq(Int)
         /\ DataAfter(n) \in Seq(Int)
         /\ ToSet(FirstData(n)) \subseteq Int
<1>1. Len(recv_data_list) \in Nat
  BY LenProperties
<1>2. \A a, b \in Int : 1 <= a /\ b <= Len(recv_data_list)
        => SubSeq(recv_data_list, a, b) \in Seq(Int)
  BY <1>1, SubSeqProperties
<1>3. FirstData(n) \in Seq(Int)
  BY <1>1, <1>2 DEF FirstData
<1>4. DataAfter(n) \in Seq(Int)
  BY <1>1, <1>2 DEF DataAfter
<1>5. ToSet(FirstData(n)) \subseteq Int
  BY <1>3, ElementOfSeq DEF ToSet
<1> QED BY <1>3, <1>4, <1>5

(* A step that leaves the ring, the stream and the place of the receive    *)
(* thread alone keeps what is proved of them.                              *)
LEMMA FramesUntouched ==
  ASSUME Pointers, MessageEnds, FramingExact, LessThanOne,
         UNCHANGED <<fifoVars, netVars, recvPos, sockVars, torn, pc>>
  PROVE  Pointers' /\ MessageEnds' /\ FramingExact' /\ LessThanOne'
BY DEF Pointers, MessageEnds, FramingExact, LessThanOne, Holds, Unparsed,
       Wrap, fifoVars, netVars, sockVars

-----------------------------------------------------------------------------
(* Calling recv() on a new socket with an empty ring loses whole messages  *)
(* only; with bytes in the ring it tears one.                              *)
LEMMA CallRecvKeeps ==
  ASSUME RecvInv, CallRecv
  PROVE  RecvInv'
<1> USE SizesAssumption
<1>1. /\ pc = "top" /\ pc' = "recv"
      /\ UNCHANGED <<data, r_ptr, w_ptr, length, message, sentEnd, connBegin,
                     stale, oldEnd, need_to_restart_flag, reconnects,
                     command_status, recv_data_list, parsed, handed, lost,
                     crashed>>
  BY DEF CallRecv, fifoVars, netVars, sockVars, linkVars, appVars
<1>2. CASE ~(recvPos < connBegin)
  <2>1. recvPos' = recvPos /\ torn' = torn
    BY <1>2 DEF CallRecv
  <2>2. RecvTypeOK' /\ Pointers' /\ MessageEnds' /\ FramingExact'
    BY <1>1, <2>1 DEF RecvInv, RecvTypeOK, Pointers, MessageEnds, FramingExact,
       Holds, Unparsed, Wrap
  <2>3. LessThanOne'
    BY <1>1, <2>1 DEF RecvInv, LessThanOne, Unparsed
  <2> QED BY <2>2, <2>3 DEF RecvInv
<1>3. CASE recvPos < connBegin
  <2>1. recvPos' = connBegin /\ torn' = (torn \/ length > 0)
    BY <1>3 DEF CallRecv
  <2>2. torn' \in BOOLEAN /\ (~torn' => ~(length > 0))
    BY <2>1, Zenon
  <2>3. length \in 0..N /\ connBegin \in Nat
    BY DEF RecvInv, RecvTypeOK
  <2>4. RecvTypeOK'
    <3>1. recvPos' \in Nat
      BY <2>1, <2>3
    <3>2. pc' \in {"top", "recv", "parse"}
      BY <1>1
    <3> QED BY <1>1, <2>2, <3>1, <3>2, Zenon DEF RecvInv, RecvTypeOK
  <2>5. Pointers' /\ MessageEnds'
    BY <1>1, <2>1 DEF RecvInv, Pointers, MessageEnds, Wrap
  <2>6. ASSUME ~torn'
        PROVE  /\ length' = 0 /\ recvPos' - length' = connBegin
               /\ connBegin \in DOMAIN message' \cup {sentEnd'}
    <3>1. length = 0
      BY <2>2, <2>3, <2>6
    <3>2. connBegin \in DOMAIN message \cup {sentEnd}
      BY DEF RecvInv, MessageEnds
    <3> QED BY <1>1, <2>1, <2>3, <3>1, <3>2
  <2>7. FramingExact' /\ LessThanOne'
    BY <2>6 DEF FramingExact, LessThanOne, Holds, Unparsed
  <2> QED BY <2>4, <2>5, <2>7 DEF RecvInv
<1> QED BY <1>2, <1>3

(* A recv() of k bytes keeps the invariant: they are put behind the ones   *)
(* in the ring, or dropped, which tears a message.                         *)
LEMMA RecvKeeps ==
  ASSUME RecvInv, NEW k \in 1..Chunk, Recv(k)
  PROVE  RecvInv'
<1> USE SizesAssumption
<1>1. /\ ~crashed /\ pc = "recv"
      /\ recvPos + k <= IF stale THEN oldEnd ELSE sentEnd
      /\ recvPos' = recvPos + k /\ pc' = "parse"
      /\ stale' = FALSE /\ oldEnd' = 0
      /\ UNCHANGED <<message, sentEnd, connBegin, need_to_restart_flag,
                     reconnects, command_status, recv_data_list, parsed,
                     handed, lost, crashed>>
  BY DEF Recv, OffOldSocket, netVars, linkVars, appVars
<1>2. LessThanOne'
  BY <1>1 DEF LessThanOne
<1>3. MessageEnds'
  BY <1>1 DEF RecvInv, MessageEnds, RecvTypeOK
<1>n. recvPos' \in Nat /\ oldEnd' \in Nat
  BY <1>1 DEF RecvInv, RecvTypeOK
<1>b. stale' \in BOOLEAN /\ pc' \in {"top", "recv", "parse"}
  BY <1>1, Zenon
<1>4. CASE k + length > N /\ torn' = TRUE /\ UNCHANGED fifoVars
  <2>0. torn' \in BOOLEAN /\ UNCHANGED <<data, r_ptr, w_ptr, length>>
    BY <1>4, Zenon DEF fifoVars
  <2>1. RecvTypeOK' /\ Pointers'
    BY <1>1, <1>n, <1>b, <2>0, Zenon DEF RecvInv, RecvTypeOK, Pointers, Wrap
  <2>2. FramingExact'
    BY <1>4 DEF FramingExact
  <2> QED BY <1>2, <1>3, <2>1, <2>2 DEF RecvInv
<1>5. CASE k + length <= N /\ recv_data_fifo_push(k) /\ torn' = torn
  <2>1. /\ data' \in [0..(N-1) -> Int]
        /\ r_ptr' = r_ptr /\ w_ptr' \in 0..(N-1) /\ length' \in 0..N
        /\ length' = length + k
        /\ Pointers'
        /\ Holds(recvPos - length, length)
             => \A i \in 0..(length + k - 1) :
                  data'[Wrap(r_ptr + i)] = recvPos - length + i
    BY <1>5, PushKeepsRing DEF RecvInv
  <2>2. RecvTypeOK'
    BY <1>1, <1>n, <1>b, <1>5, <2>1, Zenon DEF RecvInv, RecvTypeOK
  <2>3. ASSUME ~torn
        PROVE  /\ \A i \in 0..(length' - 1) :
                    data'[Wrap(r_ptr' + i)] = recvPos' - length' + i
               /\ recvPos' - length' \in DOMAIN message \cup {sentEnd}
    <3>1. recvPos' - length' = recvPos - length
      BY <1>1, <2>1 DEF RecvInv, RecvTypeOK
    <3>2. /\ Holds(recvPos - length, length)
          /\ recvPos - length \in DOMAIN message \cup {sentEnd}
      BY <2>3 DEF RecvInv, FramingExact, Unparsed
    <3>3. ASSUME NEW i \in 0..(length' - 1)
          PROVE  data'[Wrap(r_ptr' + i)] = recvPos' - length' + i
      <4>0. length' = length + k /\ length \in Nat
        BY <2>1 DEF RecvInv, RecvTypeOK
      <4>1. i \in 0..(length + k - 1)
        BY <4>0
      <4>2. data'[Wrap(r_ptr + i)] = recvPos - length + i
        BY <2>1, <3>2, <4>1
      <4> QED BY <2>1, <3>1, <4>2
    <3> QED BY <3>1, <3>2, <3>3
  <2>4. FramingExact'
    BY <1>1, <1>5, <2>3 DEF FramingExact, Holds, Unparsed, Wrap
  <2> QED BY <1>2, <1>3, <2>1, <2>2, <2>4 DEF RecvInv
<1> QED BY <1>4, <1>5 DEF Recv

(* When the parser returns, less than the message at the front is left.    *)
LEMMA ParseStopKeeps ==
  ASSUME RecvInv, ParseStop
  PROVE  RecvInv'
<1> USE SizesAssumption
<1>1. /\ pc = "parse" /\ pc' = "top"
      /\ UNCHANGED <<data, r_ptr, w_ptr, length, message, sentEnd, recvPos,
                     connBegin, stale, oldEnd, need_to_restart_flag,
                     reconnects, torn, command_status, recv_data_list, parsed,
                     handed, lost, crashed>>
  BY DEF ParseStop, fifoVars, netVars, sockVars, linkVars, appVars
<1>2. RecvTypeOK' /\ Pointers' /\ MessageEnds' /\ FramingExact'
  BY <1>1 DEF RecvInv, RecvTypeOK, Pointers, MessageEnds, FramingExact, Holds,
              Unparsed, Wrap
<1>3. ASSUME ~torn, length # 0
      PROVE  /\ Unparsed \in DOMAIN message
             /\ length < Header + message[Unparsed].body
  <2>1. length \in Nat /\ length > 0
    BY <1>3 DEF RecvInv, RecvTypeOK
  <2>2. Holds(Unparsed, length)
    BY <1>3 DEF RecvInv, FramingExact
  <2>3. Unparsed \in DOMAIN message
    BY <1>3, <2>1 DEF RecvInv, FramingExact, MessageEnds, Unparsed, RecvTypeOK
  <2>4. message[Unparsed].body \in Nat \ {0}
    BY <2>3, MessageFields DEF RecvInv, RecvTypeOK
  <2>5. CASE length < Header
    BY <2>1, <2>3, <2>4, <2>5
  <2>6. CASE length >= Header /\ \E len \in TopInt : ~Complete(len)
    <3>1. data[r_ptr] = Unparsed
      <4>1. 0 \in 0..(length - 1)
        BY <2>1
      <4>2. data[Wrap(r_ptr + 0)] = Unparsed + 0
        BY <2>2, <4>1 DEF Holds
      <4> QED BY <4>2 DEF Wrap, Unparsed, RecvInv, RecvTypeOK
    <3>2. Holds(data[r_ptr], Header)
      BY <2>1, <2>2, <2>6, <3>1 DEF Holds
    <3>3. TopInt = {message[Unparsed].body}
      BY <2>3, <3>1, <3>2 DEF TopInt
    <3>4. ~Complete(message[Unparsed].body)
      BY <2>6, <3>3
    <3> QED BY <2>1, <2>3, <2>4, <3>4 DEF Complete
  <2> QED BY <2>5, <2>6 DEF ParseStop
<1>4. LessThanOne'
  BY <1>1, <1>3 DEF LessThanOne, Unparsed
<1> QED BY <1>2, <1>4 DEF RecvInv

(* A process that dies in the parser leaves the ring as it is.             *)
LEMMA OverrunKeeps ==
  ASSUME RecvInv, NEW len, Overrun(len),
         UNCHANGED <<pc, netVars, recvPos, sockVars, linkVars, torn>>
  PROVE  RecvInv'
<1>1. /\ UNCHANGED <<data, r_ptr, w_ptr, length, pc, message, sentEnd, recvPos,
                     connBegin, stale, oldEnd, need_to_restart_flag,
                     reconnects, torn, command_status, recv_data_list, parsed,
                     handed, lost>>
      /\ crashed' = TRUE
  BY DEF Overrun, fifoVars, netVars, sockVars, linkVars
<1>2. RecvTypeOK'
  BY <1>1 DEF RecvInv, RecvTypeOK
<1>3. Pointers' /\ MessageEnds' /\ FramingExact' /\ LessThanOne'
  BY <1>1, FramesUntouched DEF RecvInv, fifoVars, netVars, sockVars
<1> QED BY <1>2, <1>3 DEF RecvInv

(* Parsing a message leaves the parser at the beginning of the next one.   *)
LEMMA ParseMessageKeeps ==
  ASSUME RecvInv, ParseMessage
  PROVE  RecvInv'
<1> USE SizesAssumption
<1>0. SUFFICES ASSUME recv_data_fifo_pop(Header + message[data[r_ptr]].body),
                      Handle(data[r_ptr])
               PROVE  RecvInv'
  BY OverrunKeeps DEF ParseMessage
<1> DEFINE p == data[r_ptr]
           k == Header + message[p].body
<1>1. /\ pc = "parse" /\ pc' = pc /\ p \in DOMAIN message
      /\ Complete(message[p].body)
      /\ recv_data_fifo_pop(k)
      /\ Handle(p)
      /\ UNCHANGED <<message, sentEnd, recvPos, connBegin, stale, oldEnd,
                     need_to_restart_flag, reconnects, torn>>
  BY <1>0 DEF ParseMessage, netVars, sockVars, linkVars
<1>2. /\ message[p] \in Message
      /\ message[p].body \in Nat \ {0}
      /\ length \in 0..N /\ recvPos \in Nat
  BY <1>1, MessageFields DEF RecvInv, RecvTypeOK
<1>3. k \in 0..length
  BY <1>1, <1>2 DEF Complete
<1>4. /\ data' = data /\ w_ptr' = w_ptr
      /\ r_ptr' \in 0..(N-1) /\ length' \in 0..N
      /\ length' = length - k
      /\ Pointers'
      /\ Holds(recvPos - length, length)
           => \A i \in 0..(length - k - 1) :
                data[Wrap(r_ptr' + i)] = recvPos - (length - k) + i
  BY <1>1, <1>3, PopKeepsRing DEF RecvInv
<1>5. /\ command_status' \in [CallBack -> Flag]
      /\ recv_data_list' \in Seq(Int) /\ handed' \in Seq(Int)
      /\ parsed' \subseteq Nat /\ lost' \subseteq Int /\ crashed' = crashed
  <2>1. p \in Nat
    BY <1>1 DEF RecvInv, RecvTypeOK
  <2>2. /\ parsed' = parsed \cup {p} /\ handed' = handed /\ crashed' = crashed
        /\ \/ recv_data_list' = ListAdd(p) /\ lost' = lost
              /\ command_status' = command_status
           \/ lost' = lost \cup {p} /\ recv_data_list' = recv_data_list
              /\ command_status' = command_status
           \/ /\ message[p].command \in CallBack
              /\ command_status' = [command_status EXCEPT
                                      ![message[p].command] = message[p].result]
              /\ recv_data_list' = recv_data_list /\ lost' = lost
    BY <1>1 DEF Handle
  <2>3. message[p].command \in CallBack => message[p].result \in Flag
    BY <1>2, MessageFields DEF Flag
  <2>4. ListAdd(p) \in Seq(Int)
    BY <2>1, AppendProperties DEF RecvInv, RecvTypeOK, ListAdd
  <2>5. command_status' \in [CallBack -> Flag]
    BY <2>2, <2>3 DEF RecvInv, RecvTypeOK
  <2>6. recv_data_list' \in Seq(Int)
    BY <2>2, <2>4 DEF RecvInv, RecvTypeOK
  <2>7. parsed' \subseteq Nat /\ lost' \subseteq Int /\ handed' \in Seq(Int)
    BY <2>1, <2>2 DEF RecvInv, RecvTypeOK
  <2> QED BY <2>2, <2>5, <2>6, <2>7
<1>6. RecvTypeOK'
  BY <1>1, <1>4, <1>5 DEF RecvInv, RecvTypeOK
<1>7. MessageEnds' /\ LessThanOne'
  BY <1>1 DEF RecvInv, MessageEnds, LessThanOne
<1>8. ASSUME ~torn
      PROVE  /\ \A i \in 0..(length' - 1) :
                  data'[Wrap(r_ptr' + i)] = recvPos' - length' + i
             /\ recvPos' - length' \in DOMAIN message \cup {sentEnd}
  <2>1. Holds(recvPos - length, length)
    BY <1>8 DEF RecvInv, FramingExact, Unparsed
  <2>2. p = recvPos - length
    <3>1. 0 \in 0..(length - 1)
      BY <1>2, <1>3
    <3>2. data[Wrap(r_ptr + 0)] = recvPos - length + 0
      BY <2>1, <3>1 DEF Holds
    <3> QED BY <1>2, <3>2 DEF Wrap, RecvInv, RecvTypeOK
  <2>3. p + Header + message[p].body \in DOMAIN message \cup {sentEnd}
    BY <1>1 DEF RecvInv, MessageEnds
  <2>4. recvPos' - length' = p + Header + message[p].body
    BY <1>1, <1>2, <1>3, <1>4, <2>2
  <2>5. ASSUME NEW i \in 0..(length' - 1)
        PROVE  data'[Wrap(r_ptr' + i)] = recvPos' - length' + i
    <3>0. length' = length - k /\ recvPos' = recvPos /\ data' = data
      BY <1>1, <1>4
    <3>1. i \in 0..(length - k - 1)
      BY <1>2, <1>3, <3>0
    <3>2. data[Wrap(r_ptr' + i)] = recvPos - (length - k) + i
      BY <1>4, <2>1, <3>1
    <3> QED BY <3>0, <3>2
  <2> QED BY <2>3, <2>4, <2>5
<1>9. FramingExact'
  BY <1>1, <1>8 DEF FramingExact, Holds, Unparsed, Wrap
<1> QED BY <1>4, <1>6, <1>7, <1>9 DEF RecvInv

(* Bytes that are no message occur only after bytes were lost inside one;  *)
(* even then the pointers stay in the ring.                                *)
LEMMA ParseMangledKeeps ==
  ASSUME RecvInv, ParseMangled
  PROVE  RecvInv'
<1> USE SizesAssumption
<1>1. /\ pc = "parse" /\ length >= Header /\ pc' = pc
      /\ UNCHANGED <<message, sentEnd, recvPos, connBegin, stale, oldEnd,
                     need_to_restart_flag, reconnects, torn>>
  BY DEF ParseMangled, netVars, sockVars, linkVars
<1>2. PICK len \in TopInt :
        /\ Complete(len)
        /\ ~(data[r_ptr] \in DOMAIN message /\ Holds(data[r_ptr], Header + len))
        /\ \/ Overrun(len)
           \/ /\ recv_data_fifo_pop(IF len > 0 THEN Header + len ELSE Header)
              /\ \/ /\ \E k \in CallBack, f \in {"success", "error"} :
                         command_status' = [command_status EXCEPT ![k] = f]
                    /\ UNCHANGED recv_data_list
                 \/ /\ recv_data_list' = ListAdd(Corrupt)
                    /\ UNCHANGED command_status
                 \/ UNCHANGED <<command_status, recv_data_list>>
              /\ UNCHANGED <<parsed, handed, lost, crashed>>
  BY DEF ParseMangled
<1>3. MessageEnds' /\ LessThanOne'
  BY <1>1 DEF RecvInv, MessageEnds, LessThanOne
<1>4. torn
  <2> SUFFICES ASSUME ~torn PROVE FALSE
    OBVIOUS
  <2>1. Holds(Unparsed, length) /\ length \in Nat
    BY DEF RecvInv, FramingExact, RecvTypeOK
  <2>2. data[r_ptr] = Unparsed
    <3>1. 0 \in 0..(length - 1)
      BY <1>1, <2>1
    <3>2. data[Wrap(r_ptr + 0)] = Unparsed + 0
      BY <2>1, <3>1 DEF Holds
    <3> QED BY <3>2 DEF Wrap, Unparsed, RecvInv, RecvTypeOK
  <2>3. Unparsed \in DOMAIN message
    BY <1>1 DEF RecvInv, FramingExact, MessageEnds, Unparsed, RecvTypeOK
  <2>4. Holds(data[r_ptr], Header)
    BY <1>1, <2>1, <2>2 DEF Holds
  <2>5. len = message[data[r_ptr]].body
    BY <1>2, <2>2, <2>3, <2>4 DEF TopInt
  <2>6. len \in Nat \ {0}
    BY <2>2, <2>3, <2>5, MessageFields DEF RecvInv, RecvTypeOK
  <2>7. Holds(data[r_ptr], Header + len)
    BY <1>2, <2>1, <2>2, <2>6 DEF Holds, Complete
  <2> QED BY <1>2, <2>2, <2>3, <2>7
<1>5. FramingExact'
  BY <1>1, <1>4 DEF FramingExact
<1>6. len \in Int
  <2>1. CASE len \in Garbage
    BY <2>1
  <2>2. CASE data[r_ptr] \in DOMAIN message /\ len = message[data[r_ptr]].body
    <3>1. message[data[r_ptr]] \in Message
      BY <2>2 DEF RecvInv, RecvTypeOK
    <3> QED BY <2>2, <3>1, MessageFields
  <2> QED BY <1>2, <2>1, <2>2 DEF TopInt
<1>7. CASE Overrun(len)
  BY <1>7, OverrunKeeps DEF ParseMangled
<1>8. CASE /\ recv_data_fifo_pop(IF len > 0 THEN Header + len ELSE Header)
           /\ ~Overrun(len)
  <2> DEFINE k == IF len > 0 THEN Header + len ELSE Header
  <2>1. k \in 0..length
    BY <1>1, <1>2, <1>6 DEF Complete, RecvInv, RecvTypeOK
  <2>2. /\ data' = data /\ w_ptr' = w_ptr
        /\ r_ptr' \in 0..(N-1) /\ length' \in 0..N
        /\ Pointers'
    BY <1>8, <2>1, PopKeepsRing DEF RecvInv
  <2>3. ListAdd(Corrupt) \in Seq(Int)
    BY AppendProperties DEF RecvInv, RecvTypeOK, ListAdd, Corrupt
  <2>4. /\ \/ \E c \in CallBack, f \in {"success", "error"} :
                command_status' = [command_status EXCEPT ![c] = f]
           \/ command_status' = command_status
        /\ recv_data_list' \in {recv_data_list, ListAdd(Corrupt)}
        /\ UNCHANGED <<parsed, handed, lost, crashed>>
    BY <1>2, <1>8
  <2>5. command_status' \in [CallBack -> Flag]
    BY <2>4 DEF Flag, RecvInv, RecvTypeOK
  <2>6. recv_data_list' \in Seq(Int)
    BY <2>3, <2>4 DEF RecvInv, RecvTypeOK
  <2>7. RecvTypeOK'
    BY <1>1, <2>2, <2>4, <2>5, <2>6 DEF RecvInv, RecvTypeOK
  <2> QED BY <1>3, <1>5, <2>2, <2>7 DEF RecvInv
<1> QED BY <1>2, <1>7, <1>8

-----------------------------------------------------------------------------
(* A new message begins where the one before it ends.                      *)
LEMMA ServerWritesKeeps ==
  ASSUME RecvInv, NEW m \in Message, ServerWrites(m)
  PROVE  RecvInv'
<1> USE SizesAssumption
<1>1. /\ message' = [p \in DOMAIN message \cup {sentEnd} |->
                       IF p = sentEnd THEN m ELSE message[p]]
      /\ sentEnd' = sentEnd + Header + m.body
      /\ UNCHANGED <<data, r_ptr, w_ptr, length, pc, recvPos, stale,
                     need_to_restart_flag, reconnects, torn, command_status,
                     recv_data_list, parsed, handed, lost, crashed>>
      /\ \/ connBegin' = connBegin /\ oldEnd' = oldEnd
         \/ connBegin' = sentEnd' /\ oldEnd' = sentEnd'
  BY DEF ServerWrites, fifoVars, linkVars, appVars
<1>2. m.body \in Nat \ {0} /\ sentEnd \in Nat /\ recvPos \in Nat
  BY MessageFields DEF RecvInv, RecvTypeOK
<1>3. \A p \in DOMAIN message : p \in Nat /\ message[p] \in Message
                                /\ message[p].body \in Nat \ {0}
  BY MessageFields DEF RecvInv, RecvTypeOK
<1>4. /\ DOMAIN message' = DOMAIN message \cup {sentEnd}
      /\ message'[sentEnd] = m
      /\ \A p \in DOMAIN message : p # sentEnd /\ message'[p] = message[p]
  <2>1. ASSUME NEW p \in DOMAIN message PROVE p # sentEnd
    <3>1. p \in Nat /\ message[p].body \in Nat \ {0}
      BY <1>3
    <3>2. p + Header + message[p].body <= sentEnd
      BY DEF RecvInv, MessageEnds
    <3> QED BY <1>2, <3>1, <3>2
  <2>2. message' = [p \in DOMAIN message \cup {sentEnd} |->
                      IF p = sentEnd THEN m ELSE message[p]]
    BY <1>1
  <2> QED BY <2>1, <2>2
<1>5. RecvTypeOK'
  <2>1. /\ DOMAIN message' \subseteq Nat
        /\ \A p \in DOMAIN message' : message'[p] \in Message
    BY <1>2, <1>3, <1>4
  <2>2. sentEnd' = sentEnd + Header + m.body
    BY <1>1
  <2>3. sentEnd' \in Nat
    BY <1>2, <2>2
  <2>4. connBegin' \in Nat /\ oldEnd' \in Nat
    BY <1>1, <2>3 DEF RecvInv, RecvTypeOK
  <2> QED BY <1>1, <2>1, <2>3, <2>4 DEF RecvInv, RecvTypeOK
<1>6. MessageEnds'
  <2>1. /\ recvPos' <= sentEnd' /\ connBegin' <= sentEnd' /\ oldEnd' <= sentEnd'
        /\ connBegin' \in DOMAIN message' \cup {sentEnd'}
    <3>1. /\ recvPos <= sentEnd /\ connBegin <= sentEnd /\ oldEnd <= sentEnd
          /\ connBegin \in DOMAIN message \cup {sentEnd}
          /\ connBegin \in Nat /\ oldEnd \in Nat
      BY DEF RecvInv, MessageEnds, RecvTypeOK
    <3>2. recvPos' = recvPos /\ sentEnd' = sentEnd + Header + m.body
      BY <1>1
    <3>3. sentEnd <= sentEnd' /\ sentEnd' \in Nat
      BY <1>2, <3>2
    <3>4. CASE connBegin' = connBegin /\ oldEnd' = oldEnd
      BY <1>2, <1>4, <3>1, <3>2, <3>3, <3>4
    <3>5. CASE connBegin' = sentEnd' /\ oldEnd' = sentEnd'
      BY <1>2, <3>1, <3>2, <3>3, <3>5
    <3> QED BY <1>1, <3>4, <3>5
  <2>2. ASSUME NEW p \in DOMAIN message'
        PROVE  /\ p + Header + message'[p].body <= sentEnd'
               /\ p + Header + message'[p].body
                    \in DOMAIN message' \cup {sentEnd'}
    <3>1. CASE p = sentEnd
      <4>1. message'[p] = m /\ sentEnd' = sentEnd + Header + m.body
        BY <1>1, <1>4, <3>1
      <4> QED BY <1>2, <3>1, <4>1
    <3>2. CASE p \in DOMAIN message
      <4>1. /\ p + Header + message[p].body <= sentEnd
            /\ p + Header + message[p].body \in DOMAIN message \cup {sentEnd}
        BY <3>2 DEF RecvInv, MessageEnds
      <4>2. p \in Nat /\ message[p].body \in Nat
        BY <1>3, <3>2
      <4> QED BY <1>1, <1>2, <1>4, <3>2, <4>1, <4>2
    <3> QED BY <1>4, <3>1, <3>2
  <2> QED BY <2>1, <2>2 DEF MessageEnds
<1>7. Pointers' /\ LessThanOne'
  BY <1>1, <1>4 DEF RecvInv, Pointers, LessThanOne, Unparsed, Wrap
<1>8. FramingExact'
  BY <1>1, <1>4 DEF RecvInv, FramingExact, Holds, Unparsed, Wrap
<1> QED BY <1>5, <1>6, <1>7, <1>8 DEF RecvInv

(* A new connection begins where the server stands; the ring and the place *)
(* of the receive thread are left alone.                                   *)
LEMMA ReconnectKeeps ==
  ASSUME RecvInv, Reconnect
  PROVE  RecvInv'
<1>1. /\ need_to_restart_flag' = FALSE /\ reconnects' = reconnects + 1
      /\ connBegin' = sentEnd /\ stale' = (pc = "recv")
      /\ oldEnd' \in {sentEnd, oldEnd}
      /\ UNCHANGED <<data, r_ptr, w_ptr, length, pc, message, sentEnd, recvPos,
                     torn, command_status, recv_data_list, parsed, handed,
                     lost, crashed>>
  BY DEF Reconnect, fifoVars, netVars, appVars
<1>2. /\ connBegin' \in Nat /\ oldEnd' \in Nat /\ reconnects' \in Nat
      /\ connBegin' <= sentEnd /\ oldEnd' <= sentEnd
  BY <1>1 DEF RecvInv, RecvTypeOK, MessageEnds
<1>3. stale' \in BOOLEAN /\ need_to_restart_flag' \in BOOLEAN
  BY <1>1, Zenon
<1>4. RecvTypeOK'
  BY <1>1, <1>2, <1>3, Zenon DEF RecvInv, RecvTypeOK
<1>5. Pointers' /\ MessageEnds' /\ FramingExact' /\ LessThanOne'
  BY <1>1, <1>2 DEF RecvInv, Pointers, MessageEnds, FramingExact, LessThanOne,
     Holds, Unparsed, Wrap
<1> QED BY <1>4, <1>5 DEF RecvInv

(* A failed recv() sends the thread to the top of its loop.                *)
LEMMA RecvErrorKeeps ==
  ASSUME RecvInv, RecvError
  PROVE  RecvInv'
<1>1. /\ pc = "recv" /\ pc' = "top" /\ need_to_restart_flag' = TRUE
      /\ stale' = FALSE /\ oldEnd' = 0
      /\ UNCHANGED <<data, r_ptr, w_ptr, length, message, sentEnd, recvPos,
                     connBegin, reconnects, torn, command_status,
                     recv_data_list, parsed, handed, lost, crashed>>
  BY DEF RecvError, OffOldSocket, fifoVars, netVars, appVars
<1>2. RecvTypeOK'
  BY <1>1 DEF RecvInv, RecvTypeOK
<1>3. Pointers' /\ MessageEnds' /\ FramingExact' /\ LessThanOne'
  BY <1>1 DEF RecvInv, RecvTypeOK, Pointers, MessageEnds, FramingExact,
     LessThanOne, Holds, Unparsed, Wrap
<1> QED BY <1>2, <1>3 DEF RecvInv

(* stupid_p2p_recv_data touches the list only.                             *)
LEMMA RecvDataKeeps ==
  ASSUME RecvInv, RecvData
  PROVE  RecvInv'
<1> USE SizesAssumption
<1>1. UNCHANGED <<data, r_ptr, w_ptr, length, pc, message, sentEnd, recvPos,
                  connBegin, stale, oldEnd, need_to_restart_flag, reconnects,
                  torn, command_status, parsed>>
  BY DEF RecvData, fifoVars, netVars, sockVars, linkVars
<1>2. recv_data_list \in Seq(Int) /\ handed \in Seq(Int)
      /\ lost \subseteq Int /\ crashed \in BOOLEAN
  BY DEF RecvInv, RecvTypeOK
<1>3. /\ FirstData(MaxNum + 1) \in Seq(Int)
      /\ DataAfter(MaxNum + 2) \in Seq(Int)
      /\ ToSet(FirstData(MaxNum + 2)) \subseteq Int
  <2>1. MaxNum + 1 \in Nat /\ MaxNum + 2 \in Nat
    OBVIOUS
  <2> QED BY <1>2, <2>1, TakeTypes
<1>4. handed \o FirstData(MaxNum + 1) \in Seq(Int)
  BY <1>2, <1>3, ConcatProperties
<1>5. recv_data_list' \in Seq(Int) /\ handed' \in Seq(Int)
      /\ lost' \subseteq Int
  BY <1>2, <1>3, <1>4 DEF RecvData
<1>6. crashed' \in BOOLEAN
  BY <1>2 DEF RecvData
<1>7. RecvTypeOK'
  BY <1>1, <1>5, <1>6 DEF RecvInv, RecvTypeOK
<1>8. Pointers' /\ MessageEnds' /\ FramingExact' /\ LessThanOne'
  BY <1>1, FramesUntouched DEF RecvInv, fifoVars, netVars, sockVars
<1> QED BY <1>7, <1>8 DEF RecvInv

(* Setting a flag, or asking for a restart, leaves the ring alone.         *)
LEMMA FlagsKeep ==
  ASSUME RecvInv,
         \/ HeartBeatsMissed
         \/ \E k \in CallBack : Ask(k)
         \/ UNCHANGED recvVars
  PROVE  RecvInv'
<1>1. UNCHANGED <<data, r_ptr, w_ptr, length, pc, message, sentEnd, recvPos,
                  connBegin, stale, oldEnd, reconnects, torn, recv_data_list,
                  parsed, handed, lost, crashed>>
  BY DEF HeartBeatsMissed, Ask, recvVars, fifoVars, netVars, sockVars,
         linkVars, appVars
<1>2. command_status' \in [CallBack -> Flag]
  BY DEF HeartBeatsMissed, Ask, recvVars, appVars, RecvInv, RecvTypeOK, Flag
<1>3. need_to_restart_flag' \in BOOLEAN
  BY DEF HeartBeatsMissed, Ask, recvVars, linkVars, RecvInv, RecvTypeOK
<1>4. RecvTypeOK'
  BY <1>1, <1>2, <1>3 DEF RecvInv, RecvTypeOK
<1>5. Pointers' /\ MessageEnds' /\ FramingExact' /\ LessThanOne'
  BY <1>1, FramesUntouched DEF RecvInv, fifoVars, netVars, sockVars
<1> QED BY <1>4, <1>5 DEF RecvInv

-----------------------------------------------------------------------------
(* The invariant holds initially: the ring is empty and nothing was sent.  *)
LEMMA RecvInvInit ==
  ASSUME RecvInit
  PROVE  RecvInv
<1> USE SizesAssumption
<1>1. RecvTypeOK
  <2>1. <<>> \in Seq(Int)
    BY EmptySeq
  <2>2. /\ data \in [0..(N-1) -> Int]
        /\ r_ptr \in 0..(N-1) /\ w_ptr \in 0..(N-1) /\ length \in 0..N
        /\ sentEnd \in Nat /\ recvPos \in Nat /\ reconnects \in Nat
        /\ connBegin \in Nat /\ oldEnd \in Nat
    BY DEF RecvInit, Corrupt
  <2>3. DOMAIN message = {}
    BY DEF RecvInit
  <2>4. command_status \in [CallBack -> Flag]
    BY DEF RecvInit, Flag
  <2>5. /\ need_to_restart_flag \in BOOLEAN /\ torn \in BOOLEAN
        /\ crashed \in BOOLEAN /\ stale \in BOOLEAN
        /\ pc \in {"top", "recv", "parse"}
        /\ parsed \subseteq Nat /\ lost \subseteq Int
    BY DEF RecvInit
  <2> QED BY <2>1, <2>2, <2>3, <2>4, <2>5 DEF RecvTypeOK, RecvInit
<1>2. Pointers /\ MessageEnds /\ FramingExact /\ LessThanOne
  BY DEF RecvInit, Pointers, MessageEnds, FramingExact, LessThanOne, Holds,
         Unparsed, Wrap
<1> QED BY <1>1, <1>2 DEF RecvInv

(* The inductive invariant: the pointers, the messages of the stream and   *)
(* the bytes in the ring agree, and less than the message at the front is  *)
(* left over when the receive thread calls recv().                         *)
THEOREM RecvInvCorrect == RecvSpec => []RecvInv
<1>1. RecvInit => RecvInv
  BY RecvInvInit
<1>2. RecvInv /\ [RecvNext]_recvVars => RecvInv'
  <2> SUFFICES ASSUME RecvInv, [RecvNext]_recvVars
               PROVE  RecvInv'
    OBVIOUS
  <2>1. CASE ReceiveThread
    BY <2>1, CallRecvKeeps, RecvKeeps, ParseStopKeeps, ParseMessageKeeps, ParseMangledKeeps
       DEF ReceiveThread
  <2>2. CASE \E m \in Message : ServerWrites(m)
    BY <2>2, ServerWritesKeeps
  <2>3. CASE Reconnect \/ RecvError
    BY <2>3, ReconnectKeeps, RecvErrorKeeps
  <2>4. CASE RecvData
    BY <2>4, RecvDataKeeps
  <2>5. CASE \/ HeartBeatsMissed
             \/ \E k \in CallBack : Ask(k)
             \/ RecvHalted
             \/ UNCHANGED recvVars
    BY <2>5, FlagsKeep DEF RecvHalted
  <2> QED BY <2>1, <2>2, <2>3, <2>4, <2>5 DEF RecvNext
<1> QED BY <1>1, <1>2, PTL DEF RecvSpec

(* The receiver's variables keep their types: the ring's pointers never    *)
(* leave the ring, even when the input no longer parses.                   *)
THEOREM RecvTypeCorrect == RecvSpec => []RecvTypeOK
BY RecvInvCorrect, PTL DEF RecvInv

(* The ring holds the unparsed bytes in order and the parser stands at the *)
(* beginning of a message, however recv() cuts the stream.                 *)
THEOREM FramingExactCorrect == RecvSpec => []FramingExact
BY RecvInvCorrect, PTL DEF RecvInv

(* The branch of the receive thread that drops input can be taken only     *)
(* behind a message longer than N + 1 - Chunk - Header, as long as no      *)
(* bytes were lost inside a message before.                                *)
THEOREM FullOnlyForLongCorrect == RecvSpec => []FullOnlyForLong
<1>1. RecvInv => FullOnlyForLong
  <2> SUFFICES ASSUME RecvInv, ~torn, pc = "recv", length + Chunk > N
               PROVE  /\ Unparsed \in DOMAIN message
                      /\ ~RoomFor(message[Unparsed].body)
    BY DEF FullOnlyForLong
  <2>1. length # 0
    BY SizesAssumption DEF RecvInv, RecvTypeOK
  <2>2. /\ Unparsed \in DOMAIN message
        /\ length < Header + message[Unparsed].body
    BY <2>1 DEF RecvInv, LessThanOne
  <2>3. message[Unparsed].body \in Nat /\ length \in Nat
    BY <2>2, MessageFields DEF RecvInv, RecvTypeOK
  <2> QED BY <2>2, <2>3, SizesAssumption DEF RoomFor
<1> QED BY <1>1, RecvInvCorrect, PTL

=============================================================================
