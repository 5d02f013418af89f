------------------------ MODULE BlockingQueueProofs ------------------------
(***************************************************************************)
(* Proofs about BlockingQueue, for every number of threads, capacity and   *)
(* number of calls.                                                        *)
(***************************************************************************)
EXTENDS BlockingQueue, FiniteSetTheorems, SequenceTheorems, TLAPS

Owning == {"locked", "test", "wait", "done", "unlock"}

(* Who owns mutex_; a thread that is about to sleep still sees what made   *)
(* it wait, because it owns mutex_.                                        *)
OwnerExact ==
  /\ \A t \in Thread : mutex_ = t <=> pc[t] \in Owning
  /\ \A t \in Thread : pc[t] = "wait" /\ op[t] = "take" => queue_ = <<>>
  /\ \A t \in Thread : pc[t] = "wait" /\ op[t] = "put" => full

(* The inductive invariant.                                                *)
QueInv ==
  QueTypeOK /\ OwnerExact /\ HolderExact /\ NothingLost /\ NoMissedWakeup

-----------------------------------------------------------------------------
(* Appending to a concatenation appends to its second part.                *)
LEMMA AppendConcat ==
  ASSUME NEW S, NEW a \in Seq(S), NEW b \in Seq(S), NEW x \in S
  PROVE  Append(a \o b, x) = a \o Append(b, x)
  OBVIOUS

(* Moving the head of the second part of a concatenation to the end of the *)
(* first changes nothing.                                                  *)
LEMMA MoveHead ==
  ASSUME NEW S, NEW a \in Seq(S), NEW b \in Seq(S), b # <<>>
  PROVE  a \o b = Append(a, Head(b)) \o Tail(b)
  <1>1. Head(b) \in S /\ Tail(b) \in Seq(S) /\ <<Head(b)>> \in Seq(S)
    OBVIOUS
  <1>2. b = <<Head(b)>> \o Tail(b)
    OBVIOUS
  <1>3. Append(a, Head(b)) = a \o <<Head(b)>>
    OBVIOUS
  <1>4. (a \o <<Head(b)>>) \o Tail(b) = a \o (<<Head(b)>> \o Tail(b))
    BY <1>1, ConcatAssociative
  <1> QED
    BY <1>2, <1>3, <1>4

-----------------------------------------------------------------------------
Place == {"idle", "lock", "locked", "test", "wait", "asleep", "done", "unlock"}

(* A notification moves t to "done" and at most one waiter to "lock".      *)
LEMMA NotifyMoves ==
  ASSUME QueTypeOK, NEW t \in Thread, pc[t] = "test",
         NEW o \in {"put", "take"},
         NEW waiters, waiters = {u \in Thread : pc[u] = "asleep" /\ op[u] = o},
         DoneNotify(t, waiters)
  PROVE  /\ pc' \in [Thread -> Place]
         /\ pc'[t] = "done"
         /\ \A u \in Thread \ {t} :
              pc'[u] = pc[u] \/ (u \in waiters /\ pc'[u] = "lock")
         /\ waiters # {} => \E w \in waiters : pc'[w] = "lock" /\ w # t
  <1>1. CASE waiters = {} /\ pc' = [pc EXCEPT ![t] = "done"]
    BY <1>1 DEF QueTypeOK, Place
  <1>2. CASE \E w \in waiters : pc' = [pc EXCEPT ![t] = "done", ![w] = "lock"]
    <2>1. PICK w \in waiters : pc' = [pc EXCEPT ![t] = "done", ![w] = "lock"]
      BY <1>2
    <2>2. w \in Thread /\ w # t
      OBVIOUS
    <2>3. /\ pc' \in [Thread -> Place] /\ pc'[t] = "done" /\ pc'[w] = "lock"
          /\ \A u \in Thread \ {t, w} : pc'[u] = pc[u]
      BY <2>1, <2>2 DEF QueTypeOK, Place
    <2> QED
      BY <2>2, <2>3
  <1> QED
    BY <1>1, <1>2 DEF DoneNotify

(* Every step keeps the types.                                             *)
LEMMA QueTypeStep ==
  ASSUME QueTypeOK, [QueNext]_queVars
  PROVE  QueTypeOK'
  <1> USE DEF QueTypeOK
  <1>1. CASE UNCHANGED queVars
    BY <1>1 DEF queVars
  <1>2. ASSUME NEW t \in Thread, NEW o \in {"put", "take", "size"}, Call(t, o)
        PROVE  QueTypeOK'
    BY <1>2, QueueAssumption DEF Call
  <1>3. ASSUME NEW t \in Thread,
               \/ Lock(t) \/ assignHolder(t) \/ unassignHolder(t) \/ Unlock(t)
               \/ wait(t) \/ CondWait(t) \/ SpuriousWakeup(t) \/ size(t)
        PROVE  QueTypeOK'
    BY <1>3 DEF Lock, assignHolder, unassignHolder, Unlock, wait, CondWait,
                SpuriousWakeup, size
  <1>4. ASSUME NEW t \in Thread, put(t)
        PROVE  QueTypeOK'
    <2>1. pc' \in [Thread -> Place]
      BY <1>4, NotifyMoves DEF put, notEmpty_
    <2>2. Len(puts) + 1 \in Nat
      OBVIOUS
    <2>3. queue_' \in Seq(Nat) /\ puts' \in Seq(Nat)
      BY <1>4, <2>2, QueueAssumption DEF put, push_back, full
    <2> QED
      BY <1>4, <2>1, <2>3 DEF put, Place
  <1>5. ASSUME NEW t \in Thread, take(t)
        PROVE  QueTypeOK'
    <2>1. pc' \in [Thread -> Place]
      BY <1>5, NotifyMoves DEF take, notFull_
    <2>2. queue_' \in Seq(Nat) /\ takes' \in Seq(Nat)
      BY <1>5 DEF take, empty
    <2> QED
      BY <1>5, <2>1, <2>2 DEF take, Place
  <1> QED
    BY <1>1, <1>2, <1>3, <1>4, <1>5 DEF QueNext

-----------------------------------------------------------------------------
(* The steps other than put and take, which leave the queue alone.         *)
Quiet(t) ==
  \/ \E o \in {"put", "take", "size"} : Call(t, o)
  \/ Lock(t) \/ assignHolder(t) \/ unassignHolder(t) \/ Unlock(t)
  \/ wait(t) \/ CondWait(t) \/ SpuriousWakeup(t) \/ size(t)

(* What a quiet step leaves alone.                                         *)
LEMMA QuietKeeps ==
  ASSUME NEW t \in Thread, Quiet(t)
  PROVE  UNCHANGED <<bounded, queue_, puts, takes>>
  BY DEF Quiet, Call, Lock, assignHolder, unassignHolder, Unlock, wait,
         CondWait, SpuriousWakeup, size

(* Every step keeps the records of the owner and of the holder exact.      *)
LEMMA OwnerStep ==
  ASSUME QueTypeOK, OwnerExact, HolderExact, [QueNext]_queVars
  PROVE  OwnerExact' /\ HolderExact'
  <1> USE DEF OwnerExact, HolderExact, Owning
  <1>1. CASE UNCHANGED queVars
    BY <1>1 DEF queVars, full
  <1>2. ASSUME NEW t \in Thread, Quiet(t)
        PROVE  OwnerExact' /\ HolderExact'
    <2> USE QueueAssumption DEF QueTypeOK, full
    <2>1. ASSUME NEW o \in {"put", "take", "size"}, Call(t, o)
          PROVE  OwnerExact' /\ HolderExact'
      BY <2>1 DEF Call
    <2>2. CASE Lock(t)
      BY <2>2 DEF Lock
    <2>3. CASE assignHolder(t)
      BY <2>3 DEF assignHolder
    <2>4. CASE unassignHolder(t)
      BY <2>4 DEF unassignHolder
    <2>5. CASE Unlock(t)
      BY <2>5 DEF Unlock
    <2>6. CASE wait(t)
      BY <2>6 DEF wait, empty
    <2>7. CASE CondWait(t)
      BY <2>7 DEF CondWait
    <2>8. CASE SpuriousWakeup(t)
      BY <2>8 DEF SpuriousWakeup
    <2>9. CASE size(t)
      BY <2>9 DEF size
    <2> QED
      BY <1>2, <2>1, <2>2, <2>3, <2>4, <2>5, <2>6, <2>7, <2>8, <2>9 DEF Quiet
  <1>3. ASSUME NEW t \in Thread, put(t) \/ take(t)
        PROVE  OwnerExact' /\ HolderExact'
    <2>1. /\ pc[t] = "test" /\ pc'[t] = "done"
          /\ \A u \in Thread \ {t} :
               pc'[u] = pc[u] \/ (pc[u] = "asleep" /\ pc'[u] = "lock")
      BY <1>3, NotifyMoves DEF put, take, notEmpty_, notFull_
    <2>2. UNCHANGED <<mutex_, holder_, op>>
      BY <1>3 DEF put, take
    <2>3. \A u \in Thread : pc'[u] # "wait"
      BY <2>1
    <2> QED
      BY <2>1, <2>2, <2>3
  <1> QED
    BY <1>1, <1>2, <1>3 DEF QueNext, Quiet

(* Every step keeps what was put, in order, and within the capacity.       *)
LEMMA LostStep ==
  ASSUME QueTypeOK, NothingLost, [QueNext]_queVars
  PROVE  NothingLost'
  <1> USE DEF NothingLost
  <1>1. CASE UNCHANGED queVars
    BY <1>1 DEF queVars
  <1>2. ASSUME NEW t \in Thread, Quiet(t)
        PROVE  NothingLost'
    BY <1>2, QuietKeeps
  <1>3. ASSUME NEW t \in Thread, put(t)
        PROVE  NothingLost'
    <2>1. /\ queue_' = Append(queue_, Len(puts) + 1)
          /\ puts' = Append(puts, Len(puts) + 1)
          /\ UNCHANGED <<bounded, takes>>
      BY <1>3 DEF put, push_back, full
    <2>2. Len(puts) + 1 \in Nat /\ queue_ \in Seq(Nat) /\ takes \in Seq(Nat)
      BY DEF QueTypeOK
    <2>3. puts' = takes' \o queue_'
      <3>1. Append(takes \o queue_, Len(puts) + 1)
              = takes \o Append(queue_, Len(puts) + 1)
        BY <2>2, AppendConcat
      <3> QED
        BY <2>1, <3>1
    <2>4. bounded => Len(queue_) < maxSize
      BY <1>3, <2>2, QueueAssumption DEF put, full
    <2>5. Len(queue_') = Len(queue_) + 1
      BY <2>1, <2>2
    <2>6. bounded => Len(queue_') <= maxSize
      BY <2>2, <2>4, <2>5, QueueAssumption
    <2> QED
      BY <2>1, <2>3, <2>6
  <1>4. ASSUME NEW t \in Thread, take(t)
        PROVE  NothingLost'
    <2>1. /\ queue_ # <<>> /\ queue_ \in Seq(Nat) /\ takes \in Seq(Nat)
          /\ queue_' = Tail(queue_) /\ takes' = Append(takes, Head(queue_))
          /\ UNCHANGED <<bounded, puts>>
      BY <1>4 DEF take, empty, QueTypeOK
    <2>2. puts' = takes' \o queue_'
      <3>1. takes \o queue_ = Append(takes, Head(queue_)) \o Tail(queue_)
        BY <2>1, MoveHead
      <3> QED
        BY <2>1, <3>1
    <2>3. Len(queue_') <= Len(queue_) /\ Len(queue_) \in Nat /\ Len(queue_') \in Nat
      BY <2>1
    <2>4. bounded => Len(queue_') <= maxSize
      BY <2>3, QueueAssumption
    <2> QED
      BY <2>1, <2>2, <2>4
  <1> QED
    BY <1>1, <1>2, <1>3, <1>4 DEF QueNext, Quiet

-----------------------------------------------------------------------------
(* Sets of threads have a cardinality, which grows with the set and by one *)
(* with each element.                                                      *)
LEMMA CountThreads ==
  ASSUME NEW A, NEW B, A \subseteq B, B \subseteq Thread
  PROVE  /\ Cardinality(A) \in Nat /\ Cardinality(B) \in Nat
         /\ Cardinality(A) <= Cardinality(B)
  BY FS_Subset, FS_CardinalityType, QueueAssumption

LEMMA CountWithout ==
  ASSUME NEW A, A \subseteq Thread, NEW t
  PROVE  Cardinality(A) - 1 <= Cardinality(A \ {t})
  <1>1. IsFiniteSet(A) /\ Cardinality(A) \in Nat
    BY FS_Subset, FS_CardinalityType, QueueAssumption
  <1>2. CASE t \in A
    <2>1. Cardinality(A \ {t}) = Cardinality(A) - 1
      BY <1>1, <1>2, FS_RemoveElement
    <2> QED
      BY <1>1, <2>1
  <1>3. CASE t \notin A
    <2>1. A \ {t} = A
      BY <1>3
    <2>2. Cardinality(A \ {t}) = Cardinality(A)
      BY <2>1
    <2> QED
      BY <1>1, <2>2
  <1> QED
    BY <1>2, <1>3

LEMMA CountWith ==
  ASSUME NEW A, A \subseteq Thread, NEW w, w \notin A
  PROVE  Cardinality(A \cup {w}) = Cardinality(A) + 1
  BY FS_Subset, FS_AddElement, QueueAssumption

(* A quiet step loses no thread that is awake and puts none to sleep, but  *)
(* for a thread that found nothing to take or no room.                     *)
LEMMA QuietWakeup ==
  ASSUME QueTypeOK, OwnerExact, NEW t \in Thread, Quiet(t)
  PROVE  /\ (notEmpty_' \subseteq notEmpty_ /\ Awake("take") \subseteq Awake("take")')
              \/ queue_ = <<>>
         /\ (notFull_' \subseteq notFull_ /\ Awake("put") \subseteq Awake("put")')
              \/ Len(queue_) >= maxSize
  <1> USE DEF QueTypeOK, notEmpty_, notFull_, Awake
  <1>1. ASSUME NEW o \in {"put", "take", "size"}, Call(t, o)
        PROVE  /\ notEmpty_' \subseteq notEmpty_ /\ Awake("take") \subseteq Awake("take")'
               /\ notFull_' \subseteq notFull_ /\ Awake("put") \subseteq Awake("put")'
    BY <1>1 DEF Call
  <1>2. ASSUME \/ Lock(t) \/ assignHolder(t) \/ unassignHolder(t) \/ Unlock(t)
               \/ SpuriousWakeup(t)
        PROVE  /\ notEmpty_' \subseteq notEmpty_ /\ Awake("take") \subseteq Awake("take")'
               /\ notFull_' \subseteq notFull_ /\ Awake("put") \subseteq Awake("put")'
    BY <1>2 DEF Lock, assignHolder, unassignHolder, Unlock, SpuriousWakeup
  <1>3. ASSUME size(t)
        PROVE  /\ notEmpty_' \subseteq notEmpty_ /\ Awake("take") \subseteq Awake("take")'
               /\ notFull_' \subseteq notFull_ /\ Awake("put") \subseteq Awake("put")'
    BY <1>3 DEF size
  <1>4. CASE wait(t)
    <2>1. CASE op[t] = "put" /\ full
      BY <1>4, <2>1 DEF wait, full
    <2>2. CASE op[t] = "take" /\ empty
      BY <1>4, <2>2 DEF wait, empty
    <2> QED
      BY <1>4, <2>1, <2>2 DEF wait
  <1>5. CASE CondWait(t)
    <2>1. op[t] = "take" => queue_ = <<>>
      BY <1>5 DEF CondWait, OwnerExact
    <2>2. op[t] = "put" => Len(queue_) >= maxSize
      BY <1>5 DEF CondWait, OwnerExact, full
    <2> QED
      BY <1>5, <2>1, <2>2 DEF CondWait
  <1> QED
    BY <1>1, <1>2, <1>3, <1>4, <1>5 DEF Quiet

(* No step misses a wakeup.                                                *)
LEMMA WakeupStep ==
  ASSUME QueTypeOK, QueTypeOK', OwnerExact, NoMissedWakeup, [QueNext]_queVars
  PROVE  NoMissedWakeup'
  <1> DEFINE T == Awake("take")
  <1> DEFINE P == Awake("put")
  <1>0. /\ T \subseteq Thread /\ T' \subseteq Thread
        /\ P \subseteq Thread /\ P' \subseteq Thread
        /\ Cardinality(T) \in Nat /\ Cardinality(T') \in Nat
        /\ Cardinality(P) \in Nat /\ Cardinality(P') \in Nat
    <2>1. T \subseteq Thread /\ T' \subseteq Thread /\ P \subseteq Thread /\ P' \subseteq Thread
      BY DEF Awake
    <2> HIDE DEF T, P
    <2> QED
      BY <2>1, CountThreads
  <1>1. Len(queue_) \in Nat /\ Len(queue_') \in Nat /\ maxSize \in Nat
    <2>1. queue_ \in Seq(Nat) /\ queue_' \in Seq(Nat)
      BY DEF QueTypeOK
    <2> QED
      BY <2>1, QueueAssumption
  <1>2. CASE UNCHANGED queVars
    BY <1>2 DEF queVars, NoMissedWakeup, Awake, notEmpty_, notFull_
  <1>3. ASSUME NEW t \in Thread, Quiet(t)
        PROVE  NoMissedWakeup'
    <2>1. queue_' = queue_
      BY <1>3, QuietKeeps
    <2>2. notEmpty_' # {} => Len(queue_') <= Cardinality(T')
      <3>1. CASE notEmpty_' \subseteq notEmpty_ /\ T \subseteq T'
        <4> HIDE DEF T
        <4>1. Cardinality(T) <= Cardinality(T')
          BY <1>0, <3>1, CountThreads
        <4>2. notEmpty_' # {} => Len(queue_) <= Cardinality(T)
          BY <3>1 DEF NoMissedWakeup, T
        <4> QED
          BY <1>0, <1>1, <2>1, <4>1, <4>2
      <3>2. CASE queue_ = <<>>
        <4>1. Len(queue_') = 0
          BY <2>1, <3>2
        <4> HIDE DEF T
        <4> QED
          BY <1>0, <4>1
      <3> QED
        BY <1>3, <3>1, <3>2, QuietWakeup
    <2>3. notFull_' # {} => maxSize - Len(queue_') <= Cardinality(P')
      <3>1. CASE notFull_' \subseteq notFull_ /\ P \subseteq P'
        <4> HIDE DEF P
        <4>1. Cardinality(P) <= Cardinality(P')
          BY <1>0, <3>1, CountThreads
        <4>2. notFull_' # {} => maxSize - Len(queue_) <= Cardinality(P)
          BY <3>1 DEF NoMissedWakeup, P
        <4> QED
          BY <1>0, <1>1, <2>1, <4>1, <4>2
      <3>2. CASE Len(queue_) >= maxSize
        <4> HIDE DEF P
        <4> QED
          BY <1>0, <1>1, <2>1, <3>2
      <3> QED
        BY <1>3, <3>1, <3>2, QuietWakeup
    <2> QED
      BY <2>2, <2>3 DEF NoMissedWakeup
  <1>4. ASSUME NEW t \in Thread, put(t)
        PROVE  NoMissedWakeup'
    <2>1. /\ pc' \in [Thread -> Place] /\ pc'[t] = "done"
          /\ \A u \in Thread \ {t} :
               pc'[u] = pc[u] \/ (u \in notEmpty_ /\ pc'[u] = "lock")
          /\ notEmpty_ # {} => \E w \in notEmpty_ : pc'[w] = "lock" /\ w # t
      BY <1>4, NotifyMoves DEF put, notEmpty_
    <2>2. pc[t] = "test" /\ op[t] = "put" /\ op' = op
      BY <1>4 DEF put
    <2>3. Len(queue_') = Len(queue_) + 1
      <3>1. queue_' = Append(queue_, Len(puts) + 1)
        BY <1>4 DEF put, push_back, full
      <3> QED
        BY <3>1 DEF QueTypeOK
    <2>4. notEmpty_' # {} => Len(queue_') <= Cardinality(T')
      <3> SUFFICES ASSUME notEmpty_' # {}
                   PROVE  Len(queue_') <= Cardinality(T')
        OBVIOUS
      <3>1. notEmpty_ # {}
        BY <2>1, <2>2 DEF notEmpty_
      <3>2. PICK w \in notEmpty_ : pc'[w] = "lock" /\ w # t
        BY <2>1, <3>1
      <3>3. w \notin T /\ T \cup {w} \subseteq T'
        BY <2>1, <2>2, <3>2 DEF notEmpty_, Awake
      <3>4. Len(queue_) <= Cardinality(T)
        BY <3>1 DEF NoMissedWakeup
      <3> HIDE DEF T
      <3>5. Cardinality(T \cup {w}) = Cardinality(T) + 1
        BY <1>0, <3>3, CountWith
      <3>6. Cardinality(T \cup {w}) <= Cardinality(T')
        BY <1>0, <3>3, CountThreads
      <3> QED
        BY <1>0, <1>1, <2>3, <3>4, <3>5, <3>6
    <2>5. notFull_' # {} => maxSize - Len(queue_') <= Cardinality(P')
      <3>1. notFull_' \subseteq notFull_ /\ P \ {t} \subseteq P'
        BY <2>1, <2>2 DEF notFull_, notEmpty_, Awake
      <3>2. notFull_' # {} => maxSize - Len(queue_) <= Cardinality(P)
        BY <3>1 DEF NoMissedWakeup
      <3> HIDE DEF P
      <3>3. Cardinality(P) - 1 <= Cardinality(P \ {t})
        BY <1>0, CountWithout
      <3>4. Cardinality(P \ {t}) <= Cardinality(P') /\ Cardinality(P \ {t}) \in Nat
        BY <1>0, <3>1, CountThreads
      <3> QED
        BY <1>0, <1>1, <2>3, <3>2, <3>3, <3>4
    <2> QED
      BY <2>4, <2>5 DEF NoMissedWakeup
  <1>5. ASSUME NEW t \in Thread, take(t)
        PROVE  NoMissedWakeup'
    <2>1. /\ pc' \in [Thread -> Place] /\ pc'[t] = "done"
          /\ \A u \in Thread \ {t} :
               pc'[u] = pc[u] \/ (u \in notFull_ /\ pc'[u] = "lock")
          /\ notFull_ # {} => \E w \in notFull_ : pc'[w] = "lock" /\ w # t
      BY <1>5, NotifyMoves DEF take, notFull_
    <2>2. pc[t] = "test" /\ op[t] = "take" /\ op' = op
      BY <1>5 DEF take
    <2>3. Len(queue_') = Len(queue_) - 1
      BY <1>5 DEF take, empty, QueTypeOK
    <2>4. notFull_' # {} => maxSize - Len(queue_') <= Cardinality(P')
      <3> SUFFICES ASSUME notFull_' # {}
                   PROVE  maxSize - Len(queue_') <= Cardinality(P')
        OBVIOUS
      <3>1. notFull_ # {}
        BY <2>1, <2>2 DEF notFull_
      <3>2. PICK w \in notFull_ : pc'[w] = "lock" /\ w # t
        BY <2>1, <3>1
      <3>3. w \notin P /\ P \cup {w} \subseteq P'
        BY <2>1, <2>2, <3>2 DEF notFull_, Awake
      <3>4. maxSize - Len(queue_) <= Cardinality(P)
        BY <3>1 DEF NoMissedWakeup
      <3> HIDE DEF P
      <3>5. Cardinality(P \cup {w}) = Cardinality(P) + 1
        BY <1>0, <3>3, CountWith
      <3>6. Cardinality(P \cup {w}) <= Cardinality(P')
        BY <1>0, <3>3, CountThreads
      <3> QED
        BY <1>0, <1>1, <2>3, <3>4, <3>5, <3>6
    <2>5. notEmpty_' # {} => Len(queue_') <= Cardinality(T')
      <3>1. notEmpty_' \subseteq notEmpty_ /\ T \ {t} \subseteq T'
        BY <2>1, <2>2 DEF notFull_, notEmpty_, Awake
      <3>2. notEmpty_' # {} => Len(queue_) <= Cardinality(T)
        BY <3>1 DEF NoMissedWakeup
      <3> HIDE DEF T
      <3>3. Cardinality(T) - 1 <= Cardinality(T \ {t})
        BY <1>0, CountWithout
      <3>4. Cardinality(T \ {t}) <= Cardinality(T') /\ Cardinality(T \ {t}) \in Nat
        BY <1>0, <3>1, CountThreads
      <3> QED
        BY <1>0, <1>1, <2>3, <3>2, <3>3, <3>4
    <2> QED
      BY <2>4, <2>5 DEF NoMissedWakeup
  <1> QED
    BY <1>2, <1>3, <1>4, <1>5 DEF QueNext, Quiet

-----------------------------------------------------------------------------
(* A new queue satisfies the invariant.                                    *)
LEMMA QueInitially == ASSUME QueInit PROVE QueInv
  <1>1. QueTypeOK /\ OwnerExact /\ HolderExact
    BY QueueAssumption DEF QueInit, QueTypeOK, OwnerExact, Owning, HolderExact, full
  <1>2. NothingLost /\ notEmpty_ = {} /\ notFull_ = {}
    BY QueueAssumption DEF QueInit, NothingLost, notEmpty_, notFull_
  <1> QED
    BY <1>1, <1>2 DEF QueInv, NoMissedWakeup

(* The inductive invariant of BlockingQueue and BoundedBlockingQueue.      *)
THEOREM QueInvariant == QueSpec => []QueInv
  <1>1. QueInit => QueInv
    BY QueInitially
  <1>2. QueInv /\ [QueNext]_queVars => QueInv'
    BY QueTypeStep, OwnerStep, LostStep, WakeupStep DEF QueInv
  <1> QED
    BY <1>1, <1>2, PTL DEF QueSpec

(* The holder that MutexLock records is the thread that works on the       *)
(* queue, across every Condition::wait.                                    *)
THEOREM HolderIsExact == QueSpec => []HolderExact
  BY QueInvariant, PTL DEF QueInv

(* Values come out once and in the order put() stored them, and the        *)
(* circular buffer never exceeds its capacity.                             *)
THEOREM NothingIsLost == QueSpec => []NothingLost
  BY QueInvariant, PTL DEF QueInv

(* One notify() per value and per free place is enough.                    *)
THEOREM NoWakeupIsMissed == QueSpec => []NoMissedWakeup
  BY QueInvariant, PTL DEF QueInv

(* The three together, for any number of threads and any capacity.         *)
THEOREM QueueIsSound == QueSpec => []QueueSound
  BY HolderIsExact, NothingIsLost, NoWakeupIsMissed, PTL DEF QueueSound

=============================================================================
