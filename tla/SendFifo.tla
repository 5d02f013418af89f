------------------------------ MODULE SendFifo ------------------------------
(***************************************************************************)
(* The send fifo of the C client (API/C/netWork.h): a ring of N commands   *)
(* filled by the threads inside need_to_send and emptied by the send       *)
(* thread.                                                                 *)
(*                                                                         *)
(* send_command_fifo_pop unlocks the mutex where it should lock it.  That  *)
(* frees the mutex from whoever holds it, and the rest of pop runs without *)
(* it, so every read and write of a shared member is a step of its own.    *)
(* pop frees the data of a command and leaves the pointer in the slot;     *)
(* push frees what it finds there.  Buffers are numbered as they are       *)
(* pushed; to free one twice, or to use it afterwards, is a crash.          *)
(***************************************************************************)
EXTENDS Integers, Sequences, SequencesExt

CONSTANTS Pusher,      \* threads that call need_to_send
          Nobody, NULL,
          N,           \* NET_SEND_COMMAND_NUM
          MaxPushes    \* bound: commands pushed

ASSUME FifoAssumption ==
  /\ Nobody \notin Pusher /\ NULL \notin Nat
  /\ N \in Nat \ {0} /\ MaxPushes \in Nat

VARIABLES data,            \* the pointers in the slots
          r_ptr, w_ptr, num,
          mutex,           \* the owner of send_data_fifo_mutex
          pushPc, tmp, wraps,  \* of every pusher: place, value read, outcome of a test
          popPc, popTmp,   \* the same of the send thread
          freed, crashed,
          pushed, sent,    \* history: buffers stored and buffers sent, in order
          overlap          \* history: a pop ran while a push was under way

fifoVars == <<data, r_ptr, w_ptr, num, mutex, pushPc, tmp, wraps, popPc, popTmp,
              freed, crashed, pushed, sent, overlap>>

\* send_command_fifo_init
FifoInit ==
  /\ data = [i \in 0..(N - 1) |-> NULL]
  /\ r_ptr = 0 /\ w_ptr = 0 /\ num = 0 /\ mutex = Nobody
  /\ pushPc = [p \in Pusher |-> "idle"] /\ tmp = [p \in Pusher |-> 0]
  /\ wraps = [p \in Pusher |-> FALSE]
  /\ popPc = "loop" /\ popTmp = 0
  /\ freed = {} /\ crashed = FALSE
  /\ pushed = <<>> /\ sent = <<>> /\ overlap = FALSE

Goto(p, next) == pushPc' = [pushPc EXCEPT ![p] = next]

Free(b) ==
  /\ freed' = freed \cup ({b} \ {NULL})
  /\ crashed' = (b \in freed)

last == N - 1
InRing(i) == i \in 0..last

send_command_fifo_empty == num = 0
send_command_fifo_top == data[r_ptr]

-----------------------------------------------------------------------------
(* send_command_fifo_push                                                  *)

PushLock(p) ==
  /\ pushPc[p] = "idle" /\ mutex = Nobody /\ Len(pushed) < MaxPushes
  /\ mutex' = p
  /\ Goto(p, "free")
  /\ UNCHANGED <<data, r_ptr, w_ptr, num, tmp, wraps, popPc, popTmp, freed,
                 crashed, pushed, sent>>

\* if(fifo->w_ptr->data != NULL) free(fifo->w_ptr->data)
PushFree(p) ==
  /\ pushPc[p] = "free" /\ InRing(w_ptr)
  /\ Free(data[w_ptr])
  /\ Goto(p, "store")
  /\ UNCHANGED <<data, r_ptr, w_ptr, num, mutex, tmp, wraps, popPc, popTmp,
                 pushed, sent>>

PushStore(p) ==
  /\ pushPc[p] = "store" /\ InRing(w_ptr)
  /\ data' = [data EXCEPT ![w_ptr] = Len(pushed) + 1]
  /\ pushed' = Append(pushed, Len(pushed) + 1)
  /\ Goto(p, "test")
  /\ UNCHANGED <<r_ptr, w_ptr, num, mutex, tmp, wraps, popPc, popTmp, freed,
                 crashed, sent>>

\* A step past the end: a push that lost the mutex left w_ptr outside the ring.
PushWild(p) ==
  /\ pushPc[p] \in {"free", "store"} /\ ~InRing(w_ptr)
  /\ crashed' = TRUE
  /\ UNCHANGED <<data, r_ptr, w_ptr, num, mutex, pushPc, tmp, wraps, popPc, popTmp,
                 freed, pushed, sent>>

PushTest(p) ==
  /\ pushPc[p] = "test"
  /\ wraps' = [wraps EXCEPT ![p] = (w_ptr = last)]
  /\ Goto(p, "read_w")
  /\ UNCHANGED <<data, r_ptr, w_ptr, num, mutex, tmp, popPc, popTmp, freed,
                 crashed, pushed, sent>>

PushReadW(p) ==
  /\ pushPc[p] = "read_w"
  /\ tmp' = [tmp EXCEPT ![p] = w_ptr]
  /\ Goto(p, "write_w")
  /\ UNCHANGED <<data, r_ptr, w_ptr, num, mutex, wraps, popPc, popTmp, freed,
                 crashed, pushed, sent>>

PushWriteW(p) ==
  /\ pushPc[p] = "write_w"
  /\ w_ptr' = IF wraps[p] THEN 0 ELSE tmp[p] + 1
  /\ Goto(p, "read_num")
  /\ UNCHANGED <<data, r_ptr, num, mutex, tmp, wraps, popPc, popTmp, freed,
                 crashed, pushed, sent>>

PushReadNum(p) ==
  /\ pushPc[p] = "read_num"
  /\ tmp' = [tmp EXCEPT ![p] = num]
  /\ Goto(p, "write_num")
  /\ UNCHANGED <<data, r_ptr, w_ptr, num, mutex, wraps, popPc, popTmp, freed,
                 crashed, pushed, sent>>

PushWriteNum(p) ==
  /\ pushPc[p] = "write_num"
  /\ num' = tmp[p] + 1
  /\ Goto(p, "unlock")
  /\ UNCHANGED <<data, r_ptr, w_ptr, mutex, tmp, wraps, popPc, popTmp, freed,
                 crashed, pushed, sent>>

PushUnlock(p) ==
  /\ pushPc[p] = "unlock"
  /\ mutex' = Nobody
  /\ Goto(p, "idle")
  /\ UNCHANGED <<data, r_ptr, w_ptr, num, tmp, wraps, popPc, popTmp, freed,
                 crashed, pushed, sent>>

-----------------------------------------------------------------------------
(* The loop of the send thread, and send_command_fifo_pop                  *)

pushVars == <<w_ptr, pushPc, tmp, wraps, pushed>>

\* The fifo is not empty: the command at r_ptr is sent (a slot nobody has
\* filled sends a message without data).
SendTop ==
  /\ popPc = "loop" /\ ~send_command_fifo_empty
  /\ sent' = IF send_command_fifo_top = NULL THEN sent
             ELSE Append(sent, send_command_fifo_top)
  /\ crashed' = (send_command_fifo_top \in freed)
  /\ popPc' = "unlock1"
  /\ UNCHANGED <<pushVars, data, r_ptr, num, mutex, popTmp, freed>>

\* The first call of pop, and its last.
PopUnlock ==
  /\ \/ popPc = "unlock1" /\ popPc' = "free"
     \/ popPc = "unlock2" /\ popPc' = "loop"
  /\ mutex' = Nobody
  /\ UNCHANGED <<pushVars, data, r_ptr, num, popTmp, freed, crashed, sent>>

\* r_ptr moves on before the free.
MutPopFree ==
  /\ popPc = "free"
  /\ Free(data[IF r_ptr = last THEN 0 ELSE r_ptr + 1])
  /\ popPc' = "advance"
  /\ UNCHANGED <<pushVars, data, r_ptr, num, mutex, popTmp, sent>>

PopFree ==
  /\ popPc = "free"
  /\ Free(data[r_ptr])
  /\ popPc' = "advance"
  /\ UNCHANGED <<pushVars, data, r_ptr, num, mutex, popTmp, sent>>

\* Only the send thread writes r_ptr.
PopAdvance ==
  /\ popPc = "advance"
  /\ r_ptr' = IF r_ptr = last THEN 0 ELSE r_ptr + 1
  /\ popPc' = "read_num"
  /\ UNCHANGED <<pushVars, data, num, mutex, popTmp, freed, crashed, sent>>

PopReadNum ==
  /\ popPc = "read_num"
  /\ popTmp' = num
  /\ popPc' = "write_num"
  /\ UNCHANGED <<pushVars, data, r_ptr, num, mutex, freed, crashed, sent>>

PopWriteNum ==
  /\ popPc = "write_num"
  /\ num' = popTmp - 1
  /\ popPc' = "unlock2"
  /\ UNCHANGED <<pushVars, data, r_ptr, mutex, popTmp, freed, crashed, sent>>

-----------------------------------------------------------------------------
Pushing(p) == pushPc[p] # "idle"
Popping == popPc \notin {"loop", "unlock1"}

FifoStep ==
  \/ \E p \in Pusher :
       \/ PushLock(p) \/ PushFree(p) \/ PushStore(p) \/ PushWild(p) \/ PushTest(p)
       \/ PushReadW(p) \/ PushWriteW(p) \/ PushReadNum(p) \/ PushWriteNum(p)
       \/ PushUnlock(p)
  \/ SendTop \/ PopUnlock \/ PopFree \/ PopAdvance \/ PopReadNum \/ PopWriteNum

FifoNext ==
  /\ ~crashed
  /\ FifoStep
  /\ overlap' = (overlap \/ (Popping' /\ \E p \in Pusher : Pushing(p)'))

FifoSpec == FifoInit /\ [][FifoNext]_fifoVars

-----------------------------------------------------------------------------
(* Properties                                                              *)

(* Members have their types; however pushes and pops race, the read        *)
(* pointer stays in the ring and num does not fall below zero, where       *)
(* send_command_fifo_empty would never hold again.                         *)
FifoTypeOK ==
  /\ data \in [0..last -> Nat \cup {NULL}]
  /\ InRing(r_ptr) /\ w_ptr \in Nat /\ num \in Nat
  /\ mutex \in Pusher \cup {Nobody}
  /\ crashed \in BOOLEAN /\ overlap \in BOOLEAN

\* No more than N pushes have begun.
FirstRound ==
  Len(pushed) < N \/ (Len(pushed) = N /\ \A p \in Pusher : pushPc[p] \notin {"free", "store"})

(* As long as no pop has run during a push, and the ring has not gone      *)
(* round, the fifo is one: commands are sent once, in the order they were  *)
(* pushed, no buffer is freed twice or used after it was, and num is the   *)
(* number of commands that wait whenever no thread is inside.  The N + 1st *)
(* push frees the buffer of the first command, which pop has freed.        *)
FirstRoundIsFifo ==
  (~overlap /\ FirstRound) =>
    /\ ~crashed
    /\ IsPrefix(sent, pushed)
    /\ (popPc = "loop" /\ \A p \in Pusher : ~Pushing(p))
         => num = Len(pushed) - Len(sent)

(* What is left of a fifo although pop does not lock: r_ptr and num stay   *)
(* in range in all interleavings, and without an overlap the first round   *)
(* of the ring sends every command once and in order.                      *)
FifoSound == FifoTypeOK /\ FirstRoundIsFifo

=============================================================================
