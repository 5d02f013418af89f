-------------------------- MODULE IdleTimerProofs --------------------------
(***************************************************************************)
(* What IdleTimer promises, proved for any set of connections and any      *)
(* Idle and MaxPass.  The inductive invariant TimInv adds to the types and *)
(* the exactness of the list that                                          *)
(*   - the list is ordered by true silence, but for the node of a heart    *)
(*     beat under way (Ordered), which nobody has beaten since (BeatFresh);*)
(*   - lastReceiveTime lags behind the last heart beat by at most one walk *)
(*     (Lag), because                                                      *)
(*   - only a connection that beat during this walk is set back            *)
(*     (JumpFresh).                                                        *)
(***************************************************************************)
EXTENDS IdleTimer, SequenceTheorems, TLAPS

Lag == \A c \in Conn : silence[c] <= age[c] /\ age[c] <= silence[c] + MaxPass

JumpFresh == timerPc = "jump" => silence[timerConn] <= passAge

Ordered ==
  \A i, j \in DOMAIN connectionList :
    (i < j /\ connectionList[i] # beating)
      => silence[connectionList[j]] <= silence[connectionList[i]]

BeatFresh ==
  beating # Nobody =>
    /\ beating \in Listed
    /\ \A c \in Listed : silence[beating] <= silence[c]

TimInv == TimTypeOK /\ ListExact /\ Lag /\ JumpFresh /\ Ordered /\ BeatFresh

-----------------------------------------------------------------------------
(* Erasing a node: what erase(position) leaves of the list.                *)
LEMMA RemoveAtProperties ==
  ASSUME NEW S, NEW s \in Seq(S), NEW i \in 1..Len(s)
  PROVE  /\ RemoveAt(s, i) \in Seq(S)
         /\ Len(RemoveAt(s, i)) = Len(s) - 1
         /\ \A k \in 1..(Len(s) - 1) :
              RemoveAt(s, i)[k] = IF k < i THEN s[k] ELSE s[k + 1]
<1> DEFINE a == SubSeq(s, 1, i - 1)
           b == SubSeq(s, i + 1, Len(s))
<1>1. a \in Seq(S) /\ Len(a) = i - 1 /\ \A k \in 1..(i - 1) : a[k] = s[k]
  BY SubSeqProperties
<1>2. /\ b \in Seq(S) /\ Len(b) = Len(s) - i
      /\ \A k \in 1..(Len(s) - i) : b[k] = s[i + k]
  BY SubSeqProperties
<1>3. RemoveAt(s, i) = a \o b
  BY DEF RemoveAt
<1>4. /\ a \o b \in Seq(S)
      /\ Len(a \o b) = Len(a) + Len(b)
      /\ \A k \in 1..(Len(a) + Len(b)) :
           (a \o b)[k] = IF k <= Len(a) THEN a[k] ELSE b[k - Len(a)]
  BY <1>1, <1>2, ConcatProperties
<1> HIDE DEF a, b
<1>5. ASSUME NEW k \in 1..(Len(s) - 1)
      PROVE  (a \o b)[k] = IF k < i THEN s[k] ELSE s[k + 1]
  BY <1>1, <1>2, <1>4
<1> QED
  BY <1>1, <1>2, <1>3, <1>4, <1>5

(* A listed connection has a position.                                     *)
LEMMA PositionValid ==
  ASSUME NEW c \in Listed
  PROVE  position(c) \in DOMAIN connectionList /\ connectionList[position(c)] = c
BY DEF position, Listed, ToSet

(* Erasing a listed connection keeps the order of the others.              *)
LEMMA ErasedProperties ==
  ASSUME connectionList \in Seq(Conn), IsInjective(connectionList),
         NEW c \in Listed
  PROVE  /\ Erased(c) \in Seq(Conn)
         /\ ToSet(Erased(c)) = Listed \ {c}
         /\ IsInjective(Erased(c))
         /\ \A k, l \in DOMAIN Erased(c) : k < l =>
              \E i, j \in DOMAIN connectionList :
                /\ i < j
                /\ Erased(c)[k] = connectionList[i]
                /\ Erased(c)[l] = connectionList[j]
<1> DEFINE s == connectionList
           n == position(c)
           t == Erased(c)
<1>1. n \in 1..Len(s) /\ s[n] = c
  BY PositionValid
<1>2. /\ t \in Seq(Conn) /\ DOMAIN t = 1..(Len(s) - 1)
      /\ \A k \in 1..(Len(s) - 1) : t[k] = IF k < n THEN s[k] ELSE s[k + 1]
  <2>1. t = RemoveAt(s, n) /\ s \in Seq(Conn)
    BY DEF Erased
  <2> HIDE DEF s, n, t
  <2>2. /\ RemoveAt(s, n) \in Seq(Conn)
        /\ Len(RemoveAt(s, n)) = Len(s) - 1
        /\ \A k \in 1..(Len(s) - 1) :
             RemoveAt(s, n)[k] = IF k < n THEN s[k] ELSE s[k + 1]
    BY <1>1, <2>1, RemoveAtProperties
  <2> QED
    BY <2>1, <2>2, LenProperties
<1> DEFINE At(k) == IF k < n THEN k ELSE k + 1
<1>3. \A k \in DOMAIN t : At(k) \in DOMAIN s /\ At(k) # n /\ t[k] = s[At(k)]
  BY <1>1, <1>2
<1>4. \A k, l \in DOMAIN t : k < l => At(k) < At(l)
  BY <1>1, <1>2
<1>5. \A i \in DOMAIN s : i # n => \E k \in DOMAIN t : At(k) = i
  <2> SUFFICES ASSUME NEW i \in DOMAIN s, i # n
               PROVE  \E k \in DOMAIN t : At(k) = i
    OBVIOUS
  <2>1. CASE i < n
    BY <1>1, <1>2, <2>1
  <2>2. CASE i > n
    <3>1. i - 1 \in DOMAIN t /\ At(i - 1) = i
      BY <1>1, <1>2, <2>2
    <3> QED
      BY <3>1
  <2> QED
    BY <1>1, <2>1, <2>2
<1> HIDE DEF s, n, t, At
<1>6. ToSet(t) = Listed \ {c}
  <2>1. ASSUME NEW k \in DOMAIN t PROVE t[k] \in Listed /\ t[k] # c
    BY <1>1, <1>3, <2>1 DEF Listed, ToSet, s, IsInjective
  <2>2. ASSUME NEW x \in Listed, x # c PROVE \E k \in DOMAIN t : t[k] = x
    <3>1. PICK i \in DOMAIN s : s[i] = x
      BY DEF Listed, ToSet, s
    <3>2. i # n
      BY <1>1, <2>2, <3>1
    <3> QED
      BY <1>3, <1>5, <3>1, <3>2
  <2> QED
    BY <2>1, <2>2 DEF ToSet
<1>7. IsInjective(t)
  <2> SUFFICES ASSUME NEW k \in DOMAIN t, NEW l \in DOMAIN t, t[k] = t[l]
               PROVE  k = l
    BY DEF IsInjective
  <2>1. At(k) = At(l)
    BY <1>3 DEF IsInjective, s
  <2> QED
    BY <1>1, <1>2, <2>1 DEF At
<1> QED
  BY <1>2, <1>3, <1>4, <1>6, <1>7 DEF s, t

-----------------------------------------------------------------------------
(* The reaper starts in the invariant.                                     *)
LEMMA TimInitInv == TimInit => TimInv
<1> SUFFICES ASSUME TimInit PROVE TimInv
  OBVIOUS
<1> USE IdleAssumption, NobodyAssumption DEF TimInit, MuduoInit
<1>1. TimTypeOK
  <2>1. connectionList \in Seq(Conn)
    BY EmptySeq
  <2>2. MuduoTypeOK
    BY DEF MuduoTypeOK, StateE
  <2>3. age \in [Conn -> 0..MaxAge] /\ silence \in [Conn -> 0..MaxAge]
    BY DEF MaxAge
  <2>4. passAge \in 0..MaxPass
    OBVIOUS
  <2> QED
    BY <2>1, <2>2, <2>3, <2>4, Zenon DEF TimTypeOK
<1>2. ListExact
  BY DEF ListExact, Listed, ToSet, IsInjective
<1>3. Lag /\ JumpFresh /\ Ordered /\ BeatFresh
  BY DEF Lag, JumpFresh, Ordered, BeatFresh
<1> QED
  BY <1>1, <1>2, <1>3 DEF TimInv

(* Every handler of the I/O thread keeps the invariant.                    *)
LEMMA ListUpStep ==
  ASSUME TimInv, NEW c \in Conn, ListUp(c) PROVE TimInv'
<1> USE IdleAssumption, NobodyAssumption DEF TimInv, passVars, Polling
<1>1. connectionList \in Seq(Conn) /\ connectionList' = Append(connectionList, c)
  BY DEF ListUp, TimTypeOK
<1>2. /\ connectionList' \in Seq(Conn)
      /\ DOMAIN connectionList' = 1..(Len(connectionList) + 1)
      /\ \A i \in 1..Len(connectionList) : connectionList'[i] = connectionList[i]
      /\ connectionList'[Len(connectionList) + 1] = c
      /\ Len(connectionList) \in Nat
      /\ DOMAIN connectionList = 1..Len(connectionList)
  BY <1>1, AppendProperties
<1>3. c \notin Listed
  BY DEF ListUp, Established, ListExact
<1>4. TimTypeOK'
  BY <1>2 DEF TimTypeOK, MuduoTypeOK, ListUp, Established, StateE, MaxAge
<1>5. ListExact'
  <2>1. Listed' = Listed \cup {c}
    BY <1>2 DEF Listed, ToSet
  <2>2. IsInjective(connectionList')
    BY <1>2, <1>3 DEF ListExact, IsInjective, Listed, ToSet
  <2> QED
    BY <2>1, <2>2 DEF ListExact, ListUp, Established, TimTypeOK, MuduoTypeOK
<1>6. Lag'
  BY DEF Lag, ListUp, TimTypeOK
<1>7. JumpFresh'
  BY DEF JumpFresh, ListUp, TimTypeOK
<1>8. Ordered'
  <2>1. \A i \in DOMAIN connectionList : connectionList[i] # c
    BY <1>3 DEF Listed, ToSet
  <2>2. \A x \in Conn : x # c => silence'[x] = silence[x]
    BY DEF ListUp, TimTypeOK
  <2>3. silence'[c] = 0 /\ \A x \in Conn : silence'[x] \in Nat
    BY <1>4 DEF ListUp, TimTypeOK
  <2>4. beating = Nobody
    BY DEF ListUp
  <2>5. \A i, j \in DOMAIN connectionList : i < j =>
          silence[connectionList[j]] <= silence[connectionList[i]]
    BY <1>1, <2>4, ElementOfSeq, LenProperties DEF Ordered
  <2> QED
    BY <1>1, <1>2, <2>1, <2>2, <2>3, <2>5 DEF Ordered
<1>9. BeatFresh'
  BY DEF BeatFresh, ListUp
<1> QED
  BY <1>4, <1>5, <1>6, <1>7, <1>8, <1>9

LEMMA ListDownStep ==
  ASSUME TimInv, NEW c \in Conn, ListDown(c) PROVE TimInv'
<1> USE IdleAssumption, NobodyAssumption DEF TimInv, Polling
<1>1. c \in Listed
  BY DEF ListDown, Closed, Receiving, ListExact
<1>2. /\ connectionList' \in Seq(Conn)
      /\ Listed' = Listed \ {c}
      /\ IsInjective(connectionList')
      /\ \A k, l \in DOMAIN connectionList' : k < l =>
           \E i, j \in DOMAIN connectionList :
             /\ i < j
             /\ connectionList'[k] = connectionList[i]
             /\ connectionList'[l] = connectionList[j]
  BY <1>1, ErasedProperties DEF ListDown, TimTypeOK, ListExact, Listed
<1>3. TimTypeOK'
  BY <1>2 DEF TimTypeOK, MuduoTypeOK, ListDown, Closed, StateE
<1>4. ListExact'
  BY <1>2 DEF ListExact, ListDown, Closed, TimTypeOK, MuduoTypeOK
<1>5. Lag' /\ JumpFresh'
  BY DEF Lag, JumpFresh, ListDown
<1>6. Ordered'
  BY <1>2 DEF Ordered, ListDown
<1>7. BeatFresh'
  BY DEF BeatFresh, ListDown
<1> QED
  BY <1>3, <1>4, <1>5, <1>6, <1>7

LEMMA HeartBeatStep ==
  ASSUME TimInv, NEW c \in Conn, HeartBeat(c) PROVE TimInv'
<1> USE IdleAssumption, NobodyAssumption DEF TimInv, passVars, muduoVars, Polling
<1>1. c \in Listed /\ Listed' = Listed
  BY DEF HeartBeat, Receiving, ListExact, Listed
<1>2. TimTypeOK'
  BY DEF TimTypeOK, MuduoTypeOK, HeartBeat, MaxAge
<1>3. ListExact'
  BY <1>1 DEF ListExact, HeartBeat
<1>4. Lag' /\ JumpFresh'
  BY DEF Lag, JumpFresh, HeartBeat, TimTypeOK
<1>5. /\ \A x \in Conn : x # c => silence'[x] = silence[x]
      /\ silence'[c] = 0 /\ \A x \in Conn : silence'[x] \in Nat
  BY <1>2 DEF HeartBeat, TimTypeOK
<1>6. \A i \in DOMAIN connectionList : connectionList[i] \in Conn
  BY ElementOfSeq, LenProperties DEF TimTypeOK
<1>7. Ordered'
  <2>1. \A i, j \in DOMAIN connectionList : i < j =>
          silence[connectionList[j]] <= silence[connectionList[i]]
    BY <1>6 DEF Ordered, HeartBeat
  <2>2. connectionList' = connectionList /\ beating' = c
    BY DEF HeartBeat
  <2> QED
    BY <1>5, <1>6, <2>1, <2>2 DEF Ordered
<1>8. BeatFresh'
  <2>1. \A x \in Listed : x \in Conn
    BY <1>6 DEF Listed, ToSet
  <2>2. beating' = c
    BY DEF HeartBeat
  <2> QED
    BY <1>1, <1>5, <2>1, <2>2 DEF BeatFresh
<1> QED
  BY <1>2, <1>3, <1>4, <1>7, <1>8

LEMMA SpliceStep ==
  ASSUME TimInv, Splice PROVE TimInv'
<1> USE IdleAssumption, NobodyAssumption DEF TimInv, passVars, muduoVars
<1> DEFINE c == beating
           t == Erased(c)
<1>1. c \in Listed /\ c \in Conn
  BY DEF Splice, BeatFresh, TimTypeOK
<1>2. /\ t \in Seq(Conn)
      /\ ToSet(t) = Listed \ {c}
      /\ IsInjective(t)
      /\ \A k, l \in DOMAIN t : k < l =>
           \E i, j \in DOMAIN connectionList :
             /\ i < j
             /\ t[k] = connectionList[i]
             /\ t[l] = connectionList[j]
  BY <1>1, ErasedProperties DEF TimTypeOK, ListExact
<1>3. connectionList' = Append(t, c) /\ beating' = Nobody /\ silence' = silence
  BY DEF Splice
<1> HIDE DEF t
<1>4. /\ connectionList' \in Seq(Conn)
      /\ DOMAIN connectionList' = 1..(Len(t) + 1)
      /\ \A i \in 1..Len(t) : connectionList'[i] = t[i]
      /\ connectionList'[Len(t) + 1] = c
      /\ Len(t) \in Nat
      /\ DOMAIN t = 1..Len(t)
  BY <1>1, <1>2, <1>3, AppendProperties
<1>5. TimTypeOK'
  BY <1>4 DEF TimTypeOK, MuduoTypeOK, Splice
<1>6. ListExact'
  <2>1. Listed' = ToSet(t) \cup {c}
    BY <1>4 DEF Listed, ToSet
  <2>2. IsInjective(connectionList')
    <3>1. \A k \in DOMAIN t : t[k] # c
      BY <1>2 DEF ToSet
    <3> QED
      BY <1>2, <1>4, <3>1 DEF IsInjective
  <2> QED
    BY <1>1, <1>2, <2>1, <2>2 DEF ListExact, Splice
<1>7. Lag' /\ JumpFresh'
  BY DEF Lag, JumpFresh, Splice
<1>8. Ordered'
  <2>1. \A k \in DOMAIN t : t[k] \in Listed /\ t[k] # c
    BY <1>2 DEF ToSet
  <2>2. \A k, l \in DOMAIN t : k < l => silence[t[l]] <= silence[t[k]]
    BY <1>2, <2>1 DEF Ordered
  <2>3. \A k \in DOMAIN t : silence[c] <= silence[t[k]]
    BY <1>1, <2>1 DEF BeatFresh
  <2> QED
    BY <1>3, <1>4, <2>2, <2>3 DEF Ordered
<1>9. BeatFresh'
  BY <1>3 DEF BeatFresh
<1> QED
  BY <1>5, <1>6, <1>7, <1>8, <1>9

(* A step that leaves the list and the heart beats alone, and opens or     *)
(* closes no connection, keeps the list exact and ordered.                 *)
LEMMA ListKept ==
  ASSUME ListExact, Ordered, BeatFresh,
         UNCHANGED <<connectionList, silence, beating>>,
         \A c \in Conn : connState'[c] \in {"kConnected", "kDisconnecting"}
                         <=> connState[c] \in {"kConnected", "kDisconnecting"}
  PROVE  ListExact' /\ Ordered' /\ BeatFresh'
BY DEF ListExact, Ordered, BeatFresh, Listed

(* The end of a walk keeps the invariant if it changes nothing else.       *)
LEMMA EndWalkStep ==
  ASSUME TimInv, EndWalk, UNCHANGED <<listVars, doomed, muduoVars>>
  PROVE  TimInv'
<1> USE DEF TimInv, listVars, muduoVars
<1>1. passAge' \in 0..MaxPass
  BY IdleAssumption DEF EndWalk
<1>2. TimTypeOK'
  BY <1>1, Zenon DEF EndWalk, TimTypeOK, MuduoTypeOK
<1>3. ListExact' /\ Ordered' /\ BeatFresh'
  BY ListKept
<1>4. Lag' /\ JumpFresh'
  BY DEF EndWalk, Lag, JumpFresh
<1> QED
  BY <1>2, <1>3, <1>4

(* A step of the walk that only moves on keeps the invariant.              *)
LEMMA WalkMoveStep ==
  ASSUME TimInv, UNCHANGED <<listVars, doomed, muduoVars>>,
         timerPc' \in {"examine", "timeout", "jump", "advance"},
         timerConn' \in Conn, timerFreed' \in BOOLEAN,
         passAge' \in 0..MaxPass,
         timerPc' = "jump" => silence[timerConn'] <= passAge'
  PROVE  TimInv'
<1> USE DEF TimInv, listVars, muduoVars
<1>1. TimTypeOK'
  BY NobodyAssumption DEF TimTypeOK, MuduoTypeOK
<1>2. ListExact' /\ Ordered' /\ BeatFresh'
  BY ListKept
<1>3. Lag' /\ JumpFresh'
  BY DEF Lag, JumpFresh
<1> QED
  BY <1>1, <1>2, <1>3

(* Every step of the walk of onTimer keeps the invariant.                  *)
LEMMA WalkStepInv ==
  ASSUME TimInv, WalkStep PROVE TimInv'
<1>t. /\ passAge \in 0..MaxPass
      /\ timerFreed \in BOOLEAN
      /\ timerPc # "waiting" => timerConn \in Conn
      /\ connectionList \in Seq(Conn)
      /\ age \in [Conn -> 0..MaxAge] /\ silence \in [Conn -> 0..MaxAge]
      /\ connState \in [Conn -> StateE]
  BY DEF TimInv, TimTypeOK, MuduoTypeOK
<1> USE IdleAssumption
<1>1. CASE WalkStart
  <2>1. Head(connectionList) \in Conn
    BY <1>t, <1>1, HeadTailProperties DEF WalkStart
  <2>2. /\ timerConn' \in Conn /\ passAge' \in 0..MaxPass
        /\ timerPc' = "examine" /\ timerFreed' \in BOOLEAN
    BY <1>t, <1>1, <2>1 DEF WalkStart
  <2> QED
    BY <1>1, <2>2, WalkMoveStep DEF WalkStart
<1>2. CASE Examine
  <2>1. CASE EndWalk
    BY <1>2, <2>1, EndWalkStep DEF Examine
  <2>2. CASE SeenAge > Idle /\ timerPc' = "timeout"
             /\ UNCHANGED <<timerConn, timerFreed, passAge>>
    BY <1>t, <1>2, <2>2, WalkMoveStep DEF Examine
  <2>3. CASE SeenAge < 0 /\ timerPc' = "jump"
             /\ UNCHANGED <<timerConn, timerFreed, passAge>>
    <3>1. timerConn \in Conn
      BY <1>t, <1>2 DEF Examine
    <3>2. silence[timerConn] <= passAge
      BY <1>t, <2>3, <3>1 DEF TimInv, Lag, SeenAge, MaxAge
    <3> QED
      BY <1>t, <1>2, <2>3, <3>1, <3>2, WalkMoveStep DEF Examine
  <2> QED
    BY <1>2, <2>1, <2>2, <2>3 DEF Examine
<1>3. CASE Timeout
  <2>1. timerConn \in Conn
    BY <1>t, <1>3 DEF Timeout
  <2>2. TimTypeOK'
    <3>1. connState' \in [Conn -> StateE]
      BY <1>t, <1>3 DEF Timeout, AfterShutdown, StateE
    <3>2. doomed' \subseteq Conn
      BY <1>3, <2>1 DEF Timeout, TimInv, TimTypeOK
    <3> QED
      BY <1>3, <2>1, <3>1, <3>2, NobodyAssumption
         DEF Timeout, ToAdvance, TimInv, TimTypeOK, MuduoTypeOK, listVars
  <2>3. ListExact' /\ Ordered' /\ BeatFresh'
    BY <1>t, <1>3, ListKept DEF Timeout, AfterShutdown, TimInv, listVars
  <2>4. Lag' /\ JumpFresh'
    BY <1>3 DEF Timeout, ToAdvance, TimInv, Lag, JumpFresh, listVars
  <2> QED
    BY <2>2, <2>3, <2>4 DEF TimInv
<1>4. CASE Jump
  <2>1. timerConn \in Conn
    BY <1>t, <1>4 DEF Jump
  <2>2. TimTypeOK'
    <3>1. age' \in [Conn -> 0..MaxAge]
      BY <1>t, <1>4, <2>1 DEF Jump, MaxAge
    <3> QED
      BY <1>4, <2>1, <3>1, NobodyAssumption
         DEF Jump, ToAdvance, TimInv, TimTypeOK, MuduoTypeOK, muduoVars
  <2>3. ListExact' /\ Ordered' /\ BeatFresh'
    BY <1>4, ListKept DEF Jump, TimInv, muduoVars
  <2>4. Lag'
    BY <1>t, <1>4, <2>1 DEF Jump, TimInv, Lag, JumpFresh, MaxAge
  <2>5. JumpFresh'
    BY <1>4 DEF Jump, ToAdvance, JumpFresh
  <2> QED
    BY <2>2, <2>3, <2>4, <2>5 DEF TimInv
<1>5. CASE Advance
  <2>1. CASE EndWalk
    BY <1>5, <2>1, EndWalkStep DEF Advance
  <2>2. ASSUME NEW i \in DOMAIN connectionList, connectionList[i] = timerConn,
               timerConn # Last(connectionList),
               timerPc' = "examine", timerConn' = connectionList[i + 1],
               UNCHANGED <<timerFreed, passAge>>
        PROVE TimInv'
    <3>1. i + 1 \in 1..Len(connectionList)
      BY <1>t, <2>2, LenProperties DEF Last
    <3>2. timerConn' \in Conn
      BY <1>t, <2>2, <3>1, ElementOfSeq
    <3> QED
      BY <1>t, <1>5, <2>2, <3>2, WalkMoveStep DEF Advance
  <2> QED
    BY <1>5, <2>1, <2>2 DEF Advance
<1>6. CASE WalkDangling \/ WalkNoContext
  <2>1. CASE EndWalk /\ UNCHANGED muduoVars
    BY <1>6, <2>1, EndWalkStep DEF WalkDangling, WalkNoContext
  <2>2. CASE Abort /\ UNCHANGED passVars
    <3>1. UNCHANGED <<listVars, doomed, passVars, connState>> /\ crashed' = TRUE
      BY <1>6, <2>2 DEF WalkDangling, WalkNoContext, Abort
    <3>2. TimTypeOK'
      BY <3>1 DEF TimInv, TimTypeOK, MuduoTypeOK, listVars, passVars
    <3> QED
      BY <3>1, <3>2, ListKept DEF TimInv, Lag, JumpFresh, listVars, passVars
  <2> QED
    BY <1>6, <2>1, <2>2 DEF WalkDangling, WalkNoContext
<1> QED
  BY <1>1, <1>2, <1>3, <1>4, <1>5, <1>6 DEF WalkStep

(* The passing of time keeps the invariant: silence and age grow together, *)
(* and stop together at MaxAge.                                            *)
LEMMA TickStep ==
  ASSUME TimInv, Tick PROVE TimInv'
<1> USE IdleAssumption DEF TimInv, Tick, muduoVars
<1>t. /\ age \in [Conn -> 0..MaxAge] /\ silence \in [Conn -> 0..MaxAge]
      /\ passAge \in 0..MaxPass /\ MaxAge \in Nat
      /\ timerPc # "waiting" => timerConn \in Conn
      /\ connectionList \in Seq(Conn)
  BY DEF TimTypeOK, MaxAge
<1>1. /\ age' \in [Conn -> 0..MaxAge] /\ silence' \in [Conn -> 0..MaxAge]
  BY <1>t DEF Older
<1>2. passAge' \in 0..MaxPass
  BY <1>t
<1>3. TimTypeOK'
  BY <1>1, <1>2, Zenon DEF TimTypeOK, MuduoTypeOK
<1>4. ListExact'
  BY DEF ListExact, Listed
<1>5. Lag'
  BY <1>t DEF Lag, Older
<1>6. JumpFresh'
  BY <1>t DEF JumpFresh, Older
<1>7. \A c, d \in Conn : (c \in Listed /\ d \in Listed /\ silence[c] <= silence[d])
                          => silence'[c] <= silence'[d]
  <2> DEFINE grown(n) == IF n < MaxAge THEN n + 1 ELSE n
  <2>1. \A c \in Conn : c \in Listed => silence'[c] = grown(silence[c])
    BY <1>t DEF Older
  <2>2. \A m, n \in 0..MaxAge : m <= n => grown(m) <= grown(n)
    BY <1>t
  <2> HIDE DEF grown
  <2> QED
    BY <1>t, <2>1, <2>2
<1>8. \A i \in DOMAIN connectionList :
        connectionList[i] \in Listed /\ connectionList[i] \in Conn
  BY <1>t, ElementOfSeq, LenProperties DEF Listed, ToSet
<1>9. Ordered'
  BY <1>7, <1>8 DEF Ordered
<1>10. BeatFresh'
  <2>1. \A c \in Listed : c \in Conn
    BY <1>8 DEF Listed, ToSet
  <2>2. Listed' = Listed
    BY DEF Listed
  <2> QED
    BY <1>7, <2>1, <2>2 DEF BeatFresh
<1> QED
  BY <1>3, <1>4, <1>5, <1>6, <1>9, <1>10

(* A connection that is freed is in no list and not in onTimer's hands.    *)
LEMMA TimFreedStep ==
  ASSUME TimInv, NEW c \in Conn, TimFreed(c) PROVE TimInv'
<1> USE IdleAssumption DEF TimInv, TimFreed, Destroyed, passVars
<1>1. TimTypeOK'
  BY DEF TimTypeOK, MuduoTypeOK, StateE, MaxAge
<1>2. c \notin Listed
  BY DEF ListExact
<1>3. ListExact'
  BY DEF ListExact, Listed, TimTypeOK, MuduoTypeOK
<1>4. Lag' /\ JumpFresh'
  BY DEF Lag, JumpFresh, TimTypeOK
<1>5. Ordered'
  <2>1. \A i \in DOMAIN connectionList : connectionList[i] # c
                                          /\ connectionList[i] \in Conn
    BY <1>2, ElementOfSeq, LenProperties DEF Listed, ToSet, TimTypeOK
  <2>2. \A x \in Conn : x # c => silence'[x] = silence[x]
    BY DEF TimTypeOK
  <2> QED
    BY <2>1, <2>2 DEF Ordered
<1>6. BeatFresh'
  <2>1. Listed' = Listed /\ \A x \in Listed : x # c /\ x \in Conn
    BY <1>2, ElementOfSeq, LenProperties DEF Listed, ToSet, TimTypeOK
  <2>2. \A x \in Conn : x # c => silence'[x] = silence[x]
    BY DEF TimTypeOK
  <2> QED
    BY <2>1, <2>2 DEF BeatFresh
<1> QED
  BY <1>1, <1>3, <1>4, <1>5, <1>6

(* Every step keeps the invariant.                                         *)
LEMMA TimInvStep == TimInv /\ [TimNext]_timVars => TimInv'
<1> SUFFICES ASSUME TimInv, [TimNext]_timVars PROVE TimInv'
  OBVIOUS
<1>1. ASSUME NEW c \in Conn, TakenOver(c) PROVE TimInv'
  <2>1. UNCHANGED <<listVars, doomed, passVars>>
    BY <1>1 DEF TakenOver
  <2>2. TimTypeOK'
    BY <1>1, <2>1 DEF TimInv, TimTypeOK, MuduoTypeOK, TakenOver, ShutDown,
       AfterShutdown, StateE, listVars, passVars
  <2>3. ListExact' /\ Ordered' /\ BeatFresh'
    BY <1>1, <2>1, ListKept DEF TakenOver, ShutDown, AfterShutdown, TimInv,
       TimTypeOK, MuduoTypeOK, listVars
  <2> QED
    BY <2>1, <2>2, <2>3 DEF TimInv, Lag, JumpFresh, listVars, passVars
<1>2. CASE SetContext
  <2>1. TimTypeOK'
    BY <1>2 DEF SetContext, TimInv, TimTypeOK, MuduoTypeOK, passVars, muduoVars
  <2> QED
    BY <1>2, <2>1, ListKept DEF SetContext, TimInv, Lag, JumpFresh, passVars,
       muduoVars
<1>3. CASE TimOtherAbort \/ UNCHANGED timVars
  <2>1. UNCHANGED <<listVars, doomed, passVars, connState>>
    BY <1>3 DEF TimOtherAbort, Abort, timVars, listVars, passVars
  <2>2. crashed' \in BOOLEAN
    BY <1>3 DEF TimOtherAbort, Abort, timVars, TimInv, TimTypeOK, MuduoTypeOK
  <2>3. TimTypeOK'
    BY <2>1, <2>2 DEF TimInv, TimTypeOK, MuduoTypeOK, listVars, passVars
  <2> QED
    BY <2>1, <2>3, ListKept DEF TimInv, Lag, JumpFresh, listVars, passVars
<1> QED
  BY <1>1, <1>2, <1>3, ListUpStep, ListDownStep, HeartBeatStep, SpliceStep,
     WalkStepInv, TickStep, TimFreedStep DEF TimNext, TimHalted

-----------------------------------------------------------------------------
(* The invariant of the reaper, for any connections and any limits.        *)
THEOREM TimInvCorrect == TimSpec => []TimInv
BY TimInitInv, TimInvStep, PTL DEF TimSpec

(* The list holds every open connection once: ConnInfo::position is always *)
(* valid and the "conn has expired" branch of onTimer is dead code.        *)
THEOREM ListExactCorrect == TimSpec => []ListExact
<1>1. TimInv => ListExact
  BY DEF TimInv
<1> QED
  BY <1>1, TimInvCorrect, PTL

(* The list is ordered by lastReceiveTime up to the duration of a walk,    *)
(* but for the node of a heart beat under way: onTimer may stop at the     *)
(* first fresh connection that heartBeatFunc has moved.                    *)
THEOREM NearlyOrderedCorrect == TimSpec => []NearlyOrdered
<1>1. TimInv => NearlyOrdered
  <2> SUFFICES ASSUME TimInv, NEW i \in DOMAIN connectionList,
                      NEW j \in DOMAIN connectionList, i < j,
                      connectionList[i] # beating
               PROVE  age[connectionList[j]] <= age[connectionList[i]] + MaxPass
    BY DEF NearlyOrdered
  <2>1. connectionList[i] \in Conn /\ connectionList[j] \in Conn
    BY ElementOfSeq, LenProperties DEF TimInv, TimTypeOK
  <2>2. silence[connectionList[j]] <= silence[connectionList[i]]
    BY DEF TimInv, Ordered
  <2> QED
    BY <2>1, <2>2, IdleAssumption DEF TimInv, TimTypeOK, Lag, MaxAge
<1> QED
  BY <1>1, TimInvCorrect, PTL

(* onTimer times a connection out only after it was silent for more than   *)
(* Idle less the duration of a walk.                                       *)
THEOREM NoEarlyTimeoutCorrect == TimSpec => NoEarlyTimeout
<1>1. ASSUME TimInv, [TimNext]_timVars, timerPc = "examine",
             timerPc' = "timeout"
      PROVE  silence[timerConn] + MaxPass > Idle
  <2>1. Examine
    BY <1>1 DEF TimNext, timVars, ListUp, ListDown, HeartBeat, Splice,
       TakenOver, TimFreed, SetContext, WalkStep, WalkStart, Timeout, Jump, Advance,
       EndWalk, WalkDangling, WalkNoContext, Tick, TimOtherAbort, TimHalted,
       passVars
  <2>2. SeenAge > Idle /\ timerConn \in Conn
    BY <1>1, <2>1 DEF Examine, EndWalk, TimInv, TimTypeOK
  <2> QED
    BY <1>1, <2>2, IdleAssumption DEF SeenAge, TimInv, Lag, TimTypeOK, MaxAge
<1>2. TimInv /\ [TimNext]_timVars
        => [(timerPc = "examine" /\ timerPc' = "timeout")
              => silence[timerConn] + MaxPass > Idle]_timVars
  BY <1>1
<1> QED
  BY <1>2, TimInvCorrect, PTL DEF TimSpec, NoEarlyTimeout

=============================================================================
