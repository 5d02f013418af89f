------------------------- MODULE ClientListProofs -------------------------
(***************************************************************************)
(* Proofs about ClientList, for every set of clients.                      *)
(***************************************************************************)
EXTENDS ClientList, SequenceTheorems, TLAPS

InUse == {"live", "cancelled", "emptied"}

ListTypeOK ==
  /\ list \in Seq(Node) /\ fd \in [Node -> Nat] /\ _g_fd_start \in Nat
  /\ ret \in [Node -> Nat]
  /\ place \in [Node -> {"unused", "started", "failed", "added", "live",
                         "cancelled", "emptied", "ended"}]
  /\ receiving \subseteq Node /\ released \subseteq Node
  /\ unread \in [Node -> Nat] /\ received \in [Node -> Nat]
  /\ handed \in [Node -> Nat]

(* What ties the list to the clients: nodes that init added are linked     *)
(* until deinit removes them, carry the number add returned, and no two    *)
(* nodes carry the same one.                                               *)
Linkage ==
  /\ \A i \in 1..Len(list) : place[list[i]] \in InUse \cup {"added", "ended"}
  /\ \A n \in Node :
       place[n] \in InUse \cup {"added"} => \E i \in 1..Len(list) : list[i] = n
  /\ \A n \in Node : place[n] \in InUse \cup {"added", "ended"} =>
                       ret[n] >= 1 /\ ret[n] <= _g_fd_start
  /\ \A n \in Node :
       fd[n] = IF place[n] \in InUse \cup {"ended"} THEN ret[n] ELSE 0
  /\ \A n, o \in Node :
       /\ place[n] \in InUse \cup {"added", "ended"}
       /\ place[o] \in InUse \cup {"added", "ended"}
       /\ ret[n] = ret[o]
       => n = o
  /\ \A n \in released : place[n] = "ended"

(* Data may arrive before init has returned.                               *)
DataExact ==
  \A n \in Node : place[n] \in {"unused", "started", "added", "live"} =>
                     received[n] = handed[n] + unread[n]

(* The inductive invariant.                                                *)
ListInv == ListTypeOK /\ Linkage /\ NoFreedNodeLinked /\ DataExact

-----------------------------------------------------------------------------
(* The walk of find_stupid_p2p and of remove_stupid_p2p meets a client in  *)
(* use at the one place where it is linked.                                *)
LEMMA OneMatch ==
  ASSUME ListInv, NEW n \in Node, place[n] \in InUse
  PROVE  \E i \in 1..Len(list) : list[i] = n /\ Matches(fd[n]) = {i}
  <1> USE DEF ListInv, ListTypeOK
  <1>1. PICK i \in 1..Len(list) : list[i] = n
    BY DEF Linkage
  <1>2. fd[n] = ret[n] /\ ret[n] \in Nat /\ ret[n] >= 1
    BY DEF Linkage
  <1>3. ASSUME NEW j \in 1..Len(list), fd[list[j]] = fd[n]
        PROVE  j = i
    <2>1. list[j] \in Node
      OBVIOUS
    <2>2. place[list[j]] \in InUse \cup {"ended"}
      <3>1. fd[list[j]] # 0
        BY <1>2, <1>3
      <3> QED
        BY <2>1, <3>1 DEF Linkage
    <2>3. ret[list[j]] = ret[n]
      BY <1>2, <1>3, <2>1, <2>2 DEF Linkage
    <2>4. list[j] = n
      BY <2>1, <2>2, <2>3 DEF Linkage
    <2> QED
      BY <1>1, <2>4 DEF NoFreedNodeLinked
  <1>4. Matches(fd[n]) = {i}
    BY <1>1, <1>3 DEF Matches
  <1> QED
    BY <1>1, <1>4

LEMMA MinOfOne ==
  ASSUME NEW i \in Int
  PROVE  Min({i}) = i
  BY DEF Min

(* find_stupid_p2p returns the client in use.                              *)
LEMMA FindsOwn ==
  ASSUME ListInv, NEW n \in Node, place[n] \in InUse
  PROVE  find_stupid_p2p(fd[n]) = n
  <1>1. PICK i \in 1..Len(list) : list[i] = n /\ Matches(fd[n]) = {i}
    BY OneMatch
  <1>2. Min({i}) = i
    BY MinOfOne
  <1> QED
    BY <1>1, <1>2 DEF find_stupid_p2p

(* Erasing the node at place i.                                            *)
LEMMA RemoveAtProperties ==
  ASSUME NEW S, NEW s \in Seq(S), NEW i \in 1..Len(s)
  PROVE  /\ RemoveAt(s, i) \in Seq(S)
         /\ Len(RemoveAt(s, i)) = Len(s) - 1
         /\ \A k \in 1..(Len(s) - 1) :
              RemoveAt(s, i)[k] = IF k < i THEN s[k] ELSE s[k + 1]
  <1> DEFINE a == SubSeq(s, 1, i - 1)
  <1> DEFINE b == SubSeq(s, i + 1, Len(s))
  <1>1. a \in Seq(S) /\ Len(a) = i - 1 /\ \A k \in 1..(i - 1) : a[k] = s[k]
    BY SubSeqProperties
  <1>2. /\ b \in Seq(S) /\ Len(b) = Len(s) - i
        /\ \A k \in 1..(Len(s) - i) : b[k] = s[i + k]
    BY SubSeqProperties
  <1>3. RemoveAt(s, i) = a \o b
    BY DEF RemoveAt
  <1> HIDE DEF a, b
  <1>4. /\ a \o b \in Seq(S)
        /\ Len(a \o b) = Len(a) + Len(b)
        /\ \A k \in 1..(Len(a) + Len(b)) :
             (a \o b)[k] = IF k <= Len(a) THEN a[k] ELSE b[k - Len(a)]
    BY <1>1, <1>2, ConcatProperties
  <1>5. ASSUME NEW k \in 1..(Len(s) - 1)
        PROVE  (a \o b)[k] = IF k < i THEN s[k] ELSE s[k + 1]
    <2>1. Len(s) \in Nat /\ Len(a) + Len(b) = Len(s) - 1
      BY <1>1, <1>2
    <2>2. CASE k < i
      BY <1>1, <1>4, <2>1, <2>2
    <2>3. CASE ~(k < i)
      <3>1. k - (i - 1) \in 1..(Len(s) - i) /\ i + (k - (i - 1)) = k + 1
        BY <2>1, <2>3
      <3>2. (a \o b)[k] = b[k - (i - 1)]
        BY <1>1, <1>4, <2>1, <2>3
      <3>3. b[k - (i - 1)] = s[i + (k - (i - 1))]
        BY <1>2, <3>1
      <3> QED
        BY <2>3, <3>1, <3>2, <3>3
    <2> QED
      BY <2>2, <2>3
  <1> QED
    BY <1>1, <1>2, <1>3, <1>4, <1>5

(* What remove_stupid_p2p does for a client whose deinit is at its end: it *)
(* unlinks and frees the node, or does nothing when the node is the last.  *)
LEMMA RemovesOwn ==
  ASSUME ListInv, NEW n \in Node, place[n] \in InUse, remove_stupid_p2p(fd[n])
  PROVE  \/ UNCHANGED <<list, released>>
         \/ /\ released' = released \cup {n}
            /\ list' \in Seq(Node)
            /\ \A k \in 1..Len(list') : list'[k] # n
            /\ \A k \in 1..Len(list') : \E j \in 1..Len(list) : list'[k] = list[j]
            /\ \A j \in 1..Len(list) :
                 list[j] # n => \E k \in 1..Len(list') : list'[k] = list[j]
            /\ \A k, l \in 1..Len(list') : list'[k] = list'[l] => k = l
  <1>1. PICK i \in 1..Len(list) : list[i] = n /\ Matches(fd[n]) = {i}
    BY OneMatch
  <1>2. CASE i = Len(list)
    <2>1. Matches(fd[n]) \ {Len(list)} = {}
      BY <1>1, <1>2
    <2> QED
      BY <2>1 DEF remove_stupid_p2p
  <1>3. CASE i # Len(list)
    <2>1. Matches(fd[n]) \ {Len(list)} = {i} /\ Min({i}) = i
      BY <1>1, <1>3, MinOfOne
    <2>2. list' = RemoveAt(list, i) /\ released' = released \cup {list[i]}
      BY <2>1 DEF remove_stupid_p2p
    <2>3. list \in Seq(Node) /\ Len(list) \in Nat
      BY DEF ListInv, ListTypeOK
    <2>4. /\ list' \in Seq(Node) /\ Len(list') = Len(list) - 1
          /\ \A k \in 1..(Len(list) - 1) :
               list'[k] = IF k < i THEN list[k] ELSE list[k + 1]
      BY <2>2, <2>3, RemoveAtProperties
    <2>5. \A k, l \in 1..Len(list) : list[k] = list[l] => k = l
      BY DEF ListInv, NoFreedNodeLinked
    <2>6. \A k \in 1..Len(list') :
            \E j \in 1..Len(list) : j # i /\ list'[k] = list[j]
      BY <2>3, <2>4
    <2>7. \A k \in 1..Len(list') : list'[k] # n
      BY <1>1, <2>5, <2>6
    <2>8. ASSUME NEW j \in 1..Len(list), list[j] # n
          PROVE  \E k \in 1..Len(list') : list'[k] = list[j]
      <3>1. CASE j < i
        BY <2>3, <2>4, <3>1
      <3>2. CASE j > i
        <4>1. j - 1 \in 1..(Len(list) - 1) /\ ~(j - 1 < i) /\ (j - 1) + 1 = j
          BY <2>3, <3>2
        <4>2. list'[j - 1] = list[j]
          BY <2>4, <4>1
        <4> QED
          BY <2>4, <4>1, <4>2
      <3> QED
        BY <1>1, <2>3, <2>8, <3>1, <3>2
    <2>9. ASSUME NEW k \in 1..Len(list'), NEW l \in 1..Len(list'), list'[k] = list'[l]
          PROVE  k = l
      BY <2>3, <2>4, <2>5, <2>9
    <2> QED
      BY <1>1, <2>2, <2>4, <2>6, <2>7, <2>8, <2>9
  <1> QED
    BY <1>2, <1>3

-----------------------------------------------------------------------------
(* Sums that stay balanced.                                                *)
LEMMA OneMore ==
  ASSUME NEW r \in Nat, NEW h \in Nat, NEW u \in Nat, r = h + u
  PROVE  r + 1 = h + (u + 1) /\ r = (h + 1) + (u - 1)
  OBVIOUS

(* The steps that leave list, fds and released alone, and move no node     *)
(* between the places that Linkage tells apart.                            *)
LEMMA PlainStep ==
  ASSUME ListInv, NEW n \in Node,
         \/ StartReceiving(n) \/ InitFails(n) \/ Receive(n) \/ RecvData(n)
         \/ ReceiveEnds(n) \/ DeinitCancels(n) \/ DeinitEmpties(n)
  PROVE  ListInv'
  <1> USE DEF ListInv
  <1>1. ListTypeOK'
    <2> USE DEF ListTypeOK
    <2>1. CASE StartReceiving(n) \/ InitFails(n) \/ ReceiveEnds(n)
      BY <2>1 DEF StartReceiving, InitFails, ReceiveEnds
    <2>2. CASE DeinitCancels(n)
      <3>1. \E q \in {"ended", "cancelled"} : place' = [place EXCEPT ![n] = q]
        BY <2>2 DEF DeinitCancels
      <3> QED
        BY <2>2, <3>1 DEF DeinitCancels
    <2>3. CASE Receive(n)
      <3>1. received[n] + 1 \in Nat /\ unread[n] + 1 \in Nat
        OBVIOUS
      <3> QED
        BY <2>3, <3>1 DEF Receive
    <2>4. CASE RecvData(n)
      <3>1. find_stupid_p2p(fd[n]) = n
        BY <2>4, FindsOwn DEF RecvData, InUse
      <3>2. /\ unread[n] > 0
            /\ unread' = [unread EXCEPT ![n] = @ - 1]
            /\ handed' = [handed EXCEPT ![n] = @ + 1]
        BY <2>4, <3>1 DEF RecvData
      <3>3. unread[n] - 1 \in Nat /\ handed[n] + 1 \in Nat
        BY <3>2
      <3>4. UNCHANGED <<list, fd, _g_fd_start, place, ret, receiving, released,
                        received>>
        BY <2>4 DEF RecvData
      <3> QED
        BY <3>2, <3>3, <3>4
    <2>5. CASE DeinitEmpties(n)
      BY <2>5 DEF DeinitEmpties
    <2> QED
      BY <2>1, <2>2, <2>3, <2>4, <2>5
  <1>2. /\ UNCHANGED <<list, fd, _g_fd_start, ret, released>>
        /\ \A m \in Node \ {n} : place'[m] = place[m]
        /\ \/ place'[n] = place[n]
           \/ place[n] \in InUse /\ place'[n] \in InUse
           \/ place[n] \in {"unused", "started"} /\ place'[n] \in {"started", "failed"}
    <2>1. CASE StartReceiving(n) \/ InitFails(n)
      BY <2>1 DEF StartReceiving, InitFails, ListTypeOK
    <2>2. CASE Receive(n) \/ RecvData(n) \/ ReceiveEnds(n)
      BY <2>2 DEF Receive, RecvData, ReceiveEnds, ListTypeOK
    <2>3. CASE DeinitCancels(n)
      <3>1. find_stupid_p2p(fd[n]) # Nil
        BY <2>3, FindsOwn, ListAssumption DEF DeinitCancels, InUse
      <3> QED
        BY <2>3, <3>1 DEF DeinitCancels, ListTypeOK, InUse
    <2>4. CASE DeinitEmpties(n)
      BY <2>4 DEF DeinitEmpties, ListTypeOK, InUse
    <2> QED
      BY <2>1, <2>2, <2>3, <2>4
  <1>3. Linkage'
    <2>1. \A m \in Node :
            /\ place'[m] \in InUse <=> place[m] \in InUse
            /\ place'[m] = "added" <=> place[m] = "added"
            /\ place'[m] = "ended" <=> place[m] = "ended"
      BY <1>2 DEF InUse
    <2>2. \A i \in 1..Len(list) : list[i] \in Node
      BY DEF ListTypeOK
    <2>3. released \subseteq Node
      BY DEF ListTypeOK
    <2> QED
      BY <1>2, <2>1, <2>2, <2>3 DEF Linkage
  <1>4. NoFreedNodeLinked'
    BY <1>2 DEF NoFreedNodeLinked
  <1>5. DataExact'
    <2>1. CASE StartReceiving(n) \/ InitFails(n) \/ ReceiveEnds(n) \/ DeinitCancels(n)
      BY <1>2, <2>1 DEF StartReceiving, InitFails, ReceiveEnds, DeinitCancels,
                        DataExact, ListTypeOK
    <2>2. CASE DeinitEmpties(n)
      BY <2>2 DEF DeinitEmpties, DataExact, ListTypeOK
    <2>3. CASE Receive(n)
      <3>1. /\ received' = [received EXCEPT ![n] = @ + 1]
            /\ unread' = [unread EXCEPT ![n] = @ + 1]
            /\ UNCHANGED <<place, handed>>
        BY <2>3 DEF Receive
      <3> QED
        BY <3>1, OneMore DEF DataExact, ListTypeOK
    <2>4. CASE RecvData(n)
      <3>1. find_stupid_p2p(fd[n]) = n
        BY <2>4, FindsOwn DEF RecvData, InUse
      <3>2. /\ unread' = [unread EXCEPT ![n] = @ - 1]
            /\ handed' = [handed EXCEPT ![n] = @ + 1]
            /\ UNCHANGED <<place, received>>
        BY <2>4, <3>1 DEF RecvData
      <3> QED
        BY <3>2, OneMore DEF DataExact, ListTypeOK
    <2> QED
      BY <2>1, <2>2, <2>3, <2>4
  <1> QED
    BY <1>1, <1>3, <1>4, <1>5
(* init links its node under a number no other node has.                   *)
LEMMA AddStep ==
  ASSUME ListInv, NEW n \in Node, InitAdds(n)
  PROVE  ListInv'
  <1> USE DEF ListInv
  <1>1. /\ place[n] = "started" /\ place' = [place EXCEPT ![n] = "added"]
        /\ _g_fd_start' = _g_fd_start + 1
        /\ ret' = [ret EXCEPT ![n] = _g_fd_start + 1]
        /\ list' = Append(list, n)
        /\ UNCHANGED <<fd, receiving, unread, released, received, handed>>
    BY DEF InitAdds, add_stupid_p2p_to_list
  <1>2. /\ list' \in Seq(Node) /\ Len(list') = Len(list) + 1 /\ Len(list) \in Nat
        /\ \A i \in 1..Len(list) : list'[i] = list[i]
        /\ list'[Len(list) + 1] = n
    BY <1>1, AppendProperties DEF ListTypeOK
  <1>3. ListTypeOK'
    <2>1. _g_fd_start + 1 \in Nat
      BY DEF ListTypeOK
    <2> QED
      BY <1>1, <1>2, <2>1 DEF ListTypeOK
  <1>4. n \notin released /\ \A i \in 1..Len(list) : list[i] # n
    BY <1>1 DEF Linkage, InUse
  <1>5. NoFreedNodeLinked'
    BY <1>1, <1>2, <1>4 DEF NoFreedNodeLinked
  <1>6. /\ \A m \in Node \ {n} : place'[m] = place[m] /\ ret'[m] = ret[m]
        /\ place'[n] = "added" /\ ret'[n] = _g_fd_start + 1
    BY <1>1 DEF ListTypeOK
  <1>7. Linkage'
    <2>1. \A i \in 1..Len(list') : place'[list'[i]] \in InUse \cup {"added", "ended"}
      <3>1. \A i \in 1..Len(list) : list[i] \in Node
        BY DEF ListTypeOK
      <3>2. \A i \in 1..Len(list') : i \in 1..Len(list) \/ i = Len(list) + 1
        BY <1>2
      <3> QED
        BY <1>2, <1>4, <1>6, <3>1, <3>2 DEF Linkage
    <2>2. \A m \in Node : place'[m] \in InUse \cup {"added"} =>
                            \E i \in 1..Len(list') : list'[i] = m
      <3>1. \A i \in 1..Len(list) : i \in 1..Len(list')
        BY <1>2
      <3>2. Len(list) + 1 \in 1..Len(list')
        BY <1>2
      <3> QED
        BY <1>2, <1>6, <3>1, <3>2 DEF Linkage
    <2>3. \A m \in Node : place'[m] \in InUse \cup {"added", "ended"} =>
                            ret'[m] >= 1 /\ ret'[m] <= _g_fd_start'
      BY <1>1, <1>6 DEF Linkage, ListTypeOK
    <2>4. \A m \in Node :
            fd'[m] = IF place'[m] \in InUse \cup {"ended"} THEN ret'[m] ELSE 0
      BY <1>1, <1>6 DEF Linkage, InUse
    <2>5. \A m, o \in Node :
            /\ place'[m] \in InUse \cup {"added", "ended"}
            /\ place'[o] \in InUse \cup {"added", "ended"}
            /\ ret'[m] = ret'[o]
            => m = o
      <3>1. \A m \in Node \ {n} :
              place'[m] \in InUse \cup {"added", "ended"} => ret'[m] < _g_fd_start + 1
        <4>1. _g_fd_start \in Nat /\ \A m \in Node : ret[m] \in Nat
          BY DEF ListTypeOK
        <4>2. \A m \in Node \ {n} :
                place'[m] \in InUse \cup {"added", "ended"} => ret'[m] <= _g_fd_start
          BY <1>6 DEF Linkage
        <4> QED
          BY <1>6, <4>1, <4>2
      <3>2. \A m \in Node \ {n} :
              place'[m] \in InUse \cup {"added", "ended"} => ret'[m] # _g_fd_start + 1
        <4>1. _g_fd_start \in Nat /\ \A m \in Node : ret'[m] \in Nat
          BY <1>3 DEF ListTypeOK
        <4> QED
          BY <3>1, <4>1
      <3> QED
        BY <1>6, <3>2 DEF Linkage
    <2>6. \A m \in released' : place'[m] = "ended"
      BY <1>1, <1>4, <1>6 DEF Linkage, ListTypeOK
    <2> QED
      BY <2>1, <2>2, <2>3, <2>4, <2>5, <2>6 DEF Linkage
  <1>8. DataExact'
    BY <1>1, <1>6 DEF DataExact
  <1> QED
    BY <1>3, <1>5, <1>7, <1>8

(* init then sets the fd.                                                  *)
LEMMA ReturnStep ==
  ASSUME ListInv, NEW n \in Node, InitReturns(n)
  PROVE  ListInv'
  <1> USE DEF ListInv
  <1>1. /\ place[n] = "added" /\ place' = [place EXCEPT ![n] = "live"]
        /\ fd' = [fd EXCEPT ![n] = ret[n]]
        /\ UNCHANGED <<list, _g_fd_start, ret, receiving, unread, released,
                       received, handed>>
    BY DEF InitReturns
  <1>2. ListTypeOK'
    BY <1>1 DEF ListTypeOK
  <1>3. /\ \A m \in Node \ {n} : place'[m] = place[m] /\ fd'[m] = fd[m]
        /\ place'[n] = "live" /\ fd'[n] = ret[n]
    BY <1>1 DEF ListTypeOK
  <1>4. Linkage'
    <2>1. \A i \in 1..Len(list) : list[i] \in Node
      BY DEF ListTypeOK
    <2>2. \A m \in Node :
            /\ place'[m] \in InUse \cup {"added"} <=> place[m] \in InUse \cup {"added"}
            /\ place'[m] = "ended" <=> place[m] = "ended"
      BY <1>1, <1>3 DEF InUse
    <2>3. \A m \in Node :
            fd'[m] = IF place'[m] \in InUse \cup {"ended"} THEN ret'[m] ELSE 0
      BY <1>1, <1>3 DEF Linkage, InUse
    <2>4. released \subseteq Node
      BY DEF ListTypeOK
    <2> QED
      BY <1>1, <2>1, <2>2, <2>3, <2>4 DEF Linkage
  <1>5. NoFreedNodeLinked'
    BY <1>1 DEF NoFreedNodeLinked
  <1>6. DataExact'
    BY <1>1, <1>3 DEF DataExact
  <1> QED
    BY <1>2, <1>4, <1>5, <1>6
(* deinit unlinks its own node only.                                       *)
LEMMA RemoveStep ==
  ASSUME ListInv, NEW n \in Node, DeinitRemoves(n)
  PROVE  ListInv'
  <1> USE DEF ListInv
  <1>1. /\ place[n] = "emptied" /\ place' = [place EXCEPT ![n] = "ended"]
        /\ UNCHANGED <<fd, _g_fd_start, ret, receiving, unread, received, handed>>
    BY DEF DeinitRemoves
  <1>2. /\ \A m \in Node \ {n} : place'[m] = place[m]
        /\ place'[n] = "ended"
    BY <1>1 DEF ListTypeOK
  <1>3. DataExact'
    BY <1>1, <1>2 DEF DataExact
  <1>4. /\ \A m \in Node :
             place'[m] \in InUse \cup {"ended"} <=> place[m] \in InUse \cup {"ended"}
        /\ \A m \in Node : place'[m] = "added" <=> place[m] = "added"
    BY <1>1, <1>2 DEF InUse
  <1>5. \A m \in Node :
          fd'[m] = IF place'[m] \in InUse \cup {"ended"} THEN ret'[m] ELSE 0
    BY <1>1, <1>4 DEF Linkage
  <1>6. \A i \in 1..Len(list) : list[i] \in Node
    BY DEF ListTypeOK
  <1>7. CASE UNCHANGED <<list, released>>
    <2>1. ListTypeOK'
      BY <1>1, <1>7 DEF ListTypeOK
    <2>2. NoFreedNodeLinked'
      BY <1>7 DEF NoFreedNodeLinked
    <2>3. \A m \in released' : place'[m] = "ended"
      BY <1>2, <1>7 DEF Linkage, ListTypeOK
    <2>4. \A m \in Node : place'[m] \in InUse \cup {"added"} =>
                            \E i \in 1..Len(list') : list'[i] = m
      BY <1>1, <1>2, <1>7 DEF Linkage, InUse
    <2>5. \A i \in 1..Len(list') : place'[list'[i]] \in InUse \cup {"added", "ended"}
      BY <1>4, <1>6, <1>7 DEF Linkage
    <2>6. Linkage'
      BY <1>1, <1>4, <1>5, <2>3, <2>4, <2>5 DEF Linkage
    <2> QED
      BY <1>3, <2>1, <2>2, <2>6
  <1>8. CASE /\ released' = released \cup {n}
             /\ list' \in Seq(Node)
             /\ \A k \in 1..Len(list') : list'[k] # n
             /\ \A k \in 1..Len(list') : \E j \in 1..Len(list) : list'[k] = list[j]
             /\ \A j \in 1..Len(list) :
                  list[j] # n => \E k \in 1..Len(list') : list'[k] = list[j]
             /\ \A k, l \in 1..Len(list') : list'[k] = list'[l] => k = l
    <2>1. ListTypeOK'
      BY <1>1, <1>8 DEF ListTypeOK
    <2>2. NoFreedNodeLinked'
      BY <1>8 DEF NoFreedNodeLinked
    <2>3. \A m \in released' : place'[m] = "ended"
      BY <1>2, <1>8 DEF Linkage, ListTypeOK
    <2>4. \A m \in Node : place'[m] \in InUse \cup {"added"} =>
                            \E i \in 1..Len(list') : list'[i] = m
      <3> SUFFICES ASSUME NEW m \in Node, place'[m] \in InUse \cup {"added"}
                   PROVE  \E i \in 1..Len(list') : list'[i] = m
        OBVIOUS
      <3>1. m # n /\ place[m] \in InUse \cup {"added"}
        BY <1>2 DEF InUse
      <3>2. PICK j \in 1..Len(list) : list[j] = m
        BY <3>1 DEF Linkage
      <3> QED
        BY <1>8, <3>1, <3>2
    <2>5. \A i \in 1..Len(list') : place'[list'[i]] \in InUse \cup {"added", "ended"}
      <3> SUFFICES ASSUME NEW i \in 1..Len(list')
                   PROVE  place'[list'[i]] \in InUse \cup {"added", "ended"}
        OBVIOUS
      <3>1. PICK j \in 1..Len(list) : list'[i] = list[j]
        BY <1>8
      <3> QED
        BY <1>4, <1>6, <3>1 DEF Linkage
    <2>6. Linkage'
      BY <1>1, <1>4, <1>5, <2>3, <2>4, <2>5 DEF Linkage
    <2> QED
      BY <1>3, <2>1, <2>2, <2>6
  <1>9. remove_stupid_p2p(fd[n]) /\ place[n] \in InUse
    BY <1>1 DEF DeinitRemoves, InUse
  <1> QED
    BY <1>7, <1>8, <1>9, RemovesOwn

-----------------------------------------------------------------------------
(* The inductive invariant of the list of clients.                         *)
THEOREM ListInvariant == ListSpec => []ListInv
  <1>1. ListInit => ListInv
    BY DEF ListInit, ListInv, ListTypeOK, Linkage, InUse, NoFreedNodeLinked, DataExact
  <1>2. ListInv /\ [ListNext]_listVars => ListInv'
    <2> SUFFICES ASSUME ListInv, [ListNext]_listVars
                 PROVE  ListInv'
      OBVIOUS
    <2>1. CASE UNCHANGED listVars
      BY <2>1 DEF listVars, ListInv, ListTypeOK, Linkage, NoFreedNodeLinked, DataExact
    <2>2. ASSUME NEW n \in Node, stupid_p2p_init(n)
          PROVE  ListInv'
      BY <2>2, PlainStep, AddStep, ReturnStep DEF stupid_p2p_init
    <2>3. ASSUME NEW n \in Node, stupid_p2p_deinit(n)
          PROVE  ListInv'
      BY <2>3, PlainStep, RemoveStep DEF stupid_p2p_deinit
    <2>4. ASSUME NEW n \in Node, Receive(n) \/ RecvData(n) \/ ReceiveEnds(n)
          PROVE  ListInv'
      BY <2>4, PlainStep
    <2> QED
      BY <2>1, <2>2, <2>3, <2>4 DEF ListNext
  <1> QED
    BY <1>1, <1>2, PTL DEF ListSpec

(* A client in use is found by its fd, whatever inits and deinits of other *)
(* clients do to the list.                                                 *)
THEOREM LiveIsFound == ListSpec => []LiveFindable
  <1>1. ListInv => LiveFindable
    BY FindsOwn DEF LiveFindable, InUse
  <1> QED
    BY <1>1, ListInvariant, PTL

(* A walk of the list never meets a node that was freed.                   *)
THEOREM NoFreedNode == ListSpec => []NoFreedNodeLinked
  BY ListInvariant, PTL DEF ListInv

(* No client takes the data of another.                                    *)
THEOREM DataIsOwners == ListSpec => []DataStaysWithOwner
  <1>1. ListInv => DataStaysWithOwner
    BY DEF ListInv, DataExact, DataStaysWithOwner
  <1> QED
    BY <1>1, ListInvariant, PTL

(* The three together, for any number of clients.                          *)
THEOREM ListIsSound == ListSpec => []ListSound
  BY LiveIsFound, NoFreedNode, DataIsOwners, PTL DEF ListSound

============================================================================
