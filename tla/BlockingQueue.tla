---------------------------- MODULE BlockingQueue ----------------------------
(***************************************************************************)
(* muduo's BlockingQueue and BoundedBlockingQueue, with the MutexLock and  *)
(* the Condition they are made of (base/BlockingQueue.h,                   *)
(* BoundedBlockingQueue.h, Mutex.h, Condition.h).                          *)
(*                                                                         *)
(* pc[t] is where thread t is in its call: waiting for mutex_ ("lock"),    *)
(* owner of it before assignHolder() ("locked"), at the test of the        *)
(* while-loop ("test"), in Condition::wait with the holder unassigned      *)
(* ("wait"), blocked on the condition ("asleep"), done under the lock      *)
(* ("done") and about to unlock ("unlock").  Puts wait on notFull_ and     *)
(* takes on notEmpty_, so the waiters of a condition can be told by their  *)
(* pc and op.  A wakeup may be spurious.                                   *)
(***************************************************************************)
EXTENDS Integers, Sequences, FiniteSets

CONSTANTS Thread, NoThread,
          maxSize,     \* capacity of the circular buffer
          MaxCalls     \* bound: calls of every thread

ASSUME QueueAssumption ==
  /\ IsFiniteSet(Thread) /\ NoThread \notin Thread
  /\ maxSize \in Nat \ {0} /\ MaxCalls \in Nat

VARIABLES bounded,     \* a BoundedBlockingQueue, not a BlockingQueue
          mutex_,      \* the owner of the pthread mutex
          holder_,     \* the thread MutexLock records as its owner
          queue_, pc, op, calls,
          puts, takes  \* history: the values put and taken, in order

queVars == <<bounded, mutex_, holder_, queue_, pc, op, calls, puts, takes>>

notEmpty_ == {t \in Thread : pc[t] = "asleep" /\ op[t] = "take"}
notFull_ == {t \in Thread : pc[t] = "asleep" /\ op[t] = "put"}

QueInit ==
  /\ bounded \in BOOLEAN
  /\ mutex_ = NoThread /\ holder_ = NoThread /\ queue_ = <<>>
  /\ pc = [t \in Thread |-> "idle"] /\ op = [t \in Thread |-> "size"]
  /\ calls = [t \in Thread |-> 0]
  /\ puts = <<>> /\ takes = <<>>

-----------------------------------------------------------------------------
(* MutexLock and Condition                                                 *)

\* A call begins with the constructor of a MutexLockGuard.
Call(t, o) ==
  /\ pc[t] = "idle" /\ calls[t] < MaxCalls
  /\ pc' = [pc EXCEPT ![t] = "lock"]
  /\ op' = [op EXCEPT ![t] = o]
  /\ calls' = [calls EXCEPT ![t] = @ + 1]
  /\ UNCHANGED <<bounded, mutex_, holder_, queue_, puts, takes>>

\* pthread_mutex_lock(), or the return of pthread_cond_wait().
Lock(t) ==
  /\ pc[t] = "lock" /\ mutex_ = NoThread
  /\ mutex_' = t
  /\ pc' = [pc EXCEPT ![t] = "locked"]
  /\ UNCHANGED <<bounded, holder_, queue_, op, calls, puts, takes>>

assignHolder(t) ==
  /\ pc[t] = "locked"
  /\ holder_' = t
  /\ pc' = [pc EXCEPT ![t] = "test"]
  /\ UNCHANGED <<bounded, mutex_, queue_, op, calls, puts, takes>>

\* The destructor of the MutexLockGuard: unassignHolder() ...
unassignHolder(t) ==
  /\ pc[t] = "done"
  /\ holder_' = NoThread
  /\ pc' = [pc EXCEPT ![t] = "unlock"]
  /\ UNCHANGED <<bounded, mutex_, queue_, op, calls, puts, takes>>

\* ... and pthread_mutex_unlock().
Unlock(t) ==
  /\ pc[t] = "unlock"
  /\ mutex_' = NoThread
  /\ pc' = [pc EXCEPT ![t] = "idle"]
  /\ UNCHANGED <<bounded, holder_, queue_, op, calls, puts, takes>>

\* pthread_cond_wait() gives the mutex up and blocks, in one step.
CondWait(t) ==
  /\ pc[t] = "wait"
  /\ mutex_' = NoThread
  /\ pc' = [pc EXCEPT ![t] = "asleep"]
  /\ UNCHANGED <<bounded, holder_, queue_, op, calls, puts, takes>>

SpuriousWakeup(t) ==
  /\ pc[t] = "asleep"
  /\ pc' = [pc EXCEPT ![t] = "lock"]
  /\ UNCHANGED <<bounded, mutex_, holder_, queue_, op, calls, puts, takes>>

\* t is done after pthread_cond_signal(), which wakes one of the waiters.
DoneNotify(t, waiters) ==
  \/ waiters = {} /\ pc' = [pc EXCEPT ![t] = "done"]
  \/ \E w \in waiters : pc' = [pc EXCEPT ![t] = "done", ![w] = "lock"]

-----------------------------------------------------------------------------
(* The queues                                                              *)

full == bounded /\ Len(queue_) >= maxSize
empty == queue_ = <<>>

\* A circular buffer that is full loses its front.
push_back(x) ==
  IF bounded /\ Len(queue_) >= maxSize THEN Append(Tail(queue_), x) ELSE Append(queue_, x)

\* The body of the while-loop up to the constructor of the UnassignGuard.
wait(t) ==
  /\ pc[t] = "test"
  /\ \/ op[t] = "put" /\ full
     \/ op[t] = "take" /\ empty
  /\ holder_' = NoThread
  /\ pc' = [pc EXCEPT ![t] = "wait"]
  /\ UNCHANGED <<bounded, mutex_, queue_, op, calls, puts, takes>>

\* Only a put into an empty queue notifies.
MutPut(t) ==
  /\ pc[t] = "test" /\ op[t] = "put" /\ ~full
  /\ queue_' = push_back(Len(puts) + 1)
  /\ puts' = Append(puts, Len(puts) + 1)
  /\ DoneNotify(t, IF empty THEN notEmpty_ ELSE {})
  /\ UNCHANGED <<bounded, mutex_, holder_, op, calls, takes>>

put(t) ==
  /\ pc[t] = "test" /\ op[t] = "put" /\ ~full
  /\ queue_' = push_back(Len(puts) + 1)
  /\ puts' = Append(puts, Len(puts) + 1)
  /\ DoneNotify(t, notEmpty_)
  /\ UNCHANGED <<bounded, mutex_, holder_, op, calls, takes>>

\* Nothing waits on notFull_ of a BlockingQueue, which has none.
take(t) ==
  /\ pc[t] = "test" /\ op[t] = "take" /\ ~empty
  /\ takes' = Append(takes, Head(queue_))
  /\ queue_' = Tail(queue_)
  /\ DoneNotify(t, notFull_)
  /\ UNCHANGED <<bounded, mutex_, holder_, op, calls, puts>>

\* size(), empty(), full() and capacity() only read.
size(t) ==
  /\ pc[t] = "test" /\ op[t] = "size"
  /\ pc' = [pc EXCEPT ![t] = "done"]
  /\ UNCHANGED <<bounded, mutex_, holder_, queue_, op, calls, puts, takes>>

QueNext ==
  \E t \in Thread :
    \/ \E o \in {"put", "take", "size"} : Call(t, o)
    \/ Lock(t) \/ assignHolder(t) \/ unassignHolder(t) \/ Unlock(t)
    \/ wait(t) \/ CondWait(t) \/ SpuriousWakeup(t)
    \/ put(t) \/ take(t) \/ size(t)

QueSpec == QueInit /\ [][QueNext]_queVars

-----------------------------------------------------------------------------
(* Properties                                                              *)

(* The variables have their types.                                         *)
QueTypeOK ==
  /\ bounded \in BOOLEAN
  /\ mutex_ \in Thread \cup {NoThread} /\ holder_ \in Thread \cup {NoThread}
  /\ queue_ \in Seq(Nat) /\ puts \in Seq(Nat) /\ takes \in Seq(Nat)
  /\ pc \in [Thread -> {"idle", "lock", "locked", "test", "wait", "asleep",
                        "done", "unlock"}]
  /\ op \in [Thread -> {"put", "take", "size"}]
  /\ calls \in [Thread -> 0..MaxCalls]

(* isLockedByThisThread() is true in a thread exactly while it works on    *)
(* the queue, also across Condition::wait, and no two threads do; the      *)
(* holder_ == 0 of the destructor holds whenever the mutex is free.        *)
HolderExact ==
  /\ \A t \in Thread : holder_ = t <=> pc[t] \in {"test", "done"}
  /\ mutex_ = NoThread => holder_ = NoThread

(* What was put is taken once and in order, or still there: no put finds   *)
(* a full circular buffer and overwrites its front, however threads are    *)
(* woken and whoever gets the lock first.                                  *)
NothingLost == puts = takes \o queue_ /\ (bounded => Len(queue_) <= maxSize)

Awake(o) == {t \in Thread : op[t] = o /\ pc[t] \in {"lock", "locked", "test"}}

(* No wakeup is missed: while a take sleeps there are as many takes awake  *)
(* as values in the queue, and while a put sleeps as many puts awake as    *)
(* free places, although notify() wakes a single thread and another one    *)
(* may take the value before it.                                           *)
NoMissedWakeup ==
  /\ notEmpty_ # {} => Len(queue_) <= Cardinality(Awake("take"))
  /\ notFull_ # {} => maxSize - Len(queue_) <= Cardinality(Awake("put"))

(* What callers of both queues rely on, taken together: the asserts about  *)
(* holder_ hold, values arrive once and in order within the capacity, and  *)
(* nobody sleeps while there is something to do.                           *)
QueueSound == HolderExact /\ NothingLost /\ NoMissedWakeup

=============================================================================
