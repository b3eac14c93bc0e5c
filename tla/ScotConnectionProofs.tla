-------------------------- MODULE ScotConnectionProofs --------------------------
(***************************************************************************)
(* Proofs about ScotConnection: for a quorum of any size, the queue pairs  *)
(* are connected in pairs, writes aim at the peer they are meant for, and, *)
(* if no barrier key is left in memcached from an earlier run, no key is   *)
(* withdrawn that somebody has yet to fetch.                               *)
(***************************************************************************)
EXTENDS ScotConnection, SequenceTheorems, TLAPS

Peers(n) == Nodes \ {n}

\* The index of p in quroum_conns of n.
Index(n, p) == IF p < n THEN p ELSE p - 1

LEMMA QuorumIs ==
  ASSUME NEW n \in Nodes
  PROVE  /\ \A q \in 0 .. QuorumSize - 2 : Quorum(n)[1 + q] \in Peers(n) /\ Index(n, Quorum(n)[1 + q]) = q
         /\ \A p \in Peers(n) : Index(n, p) \in 0 .. QuorumSize - 2 /\ Quorum(n)[1 + Index(n, p)] = p
  <1>1. n \in Int /\ n >= 0 /\ n < QuorumSize /\ QuorumSize \in Int
    BY QuorumSizeAssumption DEF Nodes
  <1>2. ASSUME NEW q \in 0 .. QuorumSize - 2
        PROVE  Quorum(n)[1 + q] \in Peers(n) /\ Index(n, Quorum(n)[1 + q]) = q
    <2>1. PICK i \in 1 .. QuorumSize - 1 : i = 1 + q
      BY <1>1
    <2>2. PICK p : p = Quorum(n)[i] /\ p = IF i <= n THEN i - 1 ELSE i
      BY DEF Quorum
    <2>3. p \in 0 .. QuorumSize - 1 /\ p # n /\ (IF p < n THEN p ELSE p - 1) = q
      BY <1>1, <2>1, <2>2
    <2> QED BY <2>1, <2>2, <2>3 DEF Peers, Nodes, Index
  <1>3. ASSUME NEW p \in Peers(n) PROVE Index(n, p) \in 0 .. QuorumSize - 2 /\ Quorum(n)[1 + Index(n, p)] = p
    <2>1. p \in 0 .. QuorumSize - 1 /\ p # n
      BY DEF Peers, Nodes
    <2>2. PICK q : q = Index(n, p) /\ q = IF p < n THEN p ELSE p - 1
      BY DEF Index
    <2>3. PICK i : i = 1 + q
      OBVIOUS
    <2>4. i \in 1 .. QuorumSize - 1 /\ q \in 0 .. QuorumSize - 2 /\ (IF i <= n THEN i - 1 ELSE i) = p
      BY <1>1, <2>1, <2>2, <2>3
    <2>5. Quorum(n)[i] = p
      BY <2>4 DEF Quorum
    <2> QED BY <2>2, <2>3, <2>4, <2>5
  <1> QED BY <1>2, <1>3

LEMMA DivIs ==
  ASSUME NEW w \in {1, 3, 6, 7, 8}, NEW i \in Int, NEW q \in Int, NEW j \in 1 .. w, i = w * q + j
  PROVE  (i - 1) \div w = q /\ (i - 1) % w = j - 1
  <1>1. CASE w = 1
    BY <1>1
  <1>2. CASE w = 3
    BY <1>2
  <1>3. CASE w = 6
    BY <1>3
  <1>4. CASE w = 7
    BY <1>4
  <1>5. CASE w = 8
    BY <1>5
  <1> QED BY <1>1, <1>2, <1>3, <1>4, <1>5

LEMMA DivRange ==
  ASSUME NEW w \in {1, 3, 6, 7, 8}, NEW m \in Nat, NEW i \in 1 .. w * m
  PROVE  \E q \in 0 .. m - 1, j \in 1 .. w : i = w * q + j
  <1>1. ASSUME NEW v \in {1, 3, 6, 7, 8}, w = v, (i - 1) \div v \in 0 .. m - 1, (i - 1) % v \in 0 .. v - 1,
               i - 1 = v * ((i - 1) \div v) + ((i - 1) % v)
        PROVE  \E q \in 0 .. m - 1, j \in 1 .. w : i = w * q + j
    <2>1. PICK q \in 0 .. m - 1 : q = (i - 1) \div v
      BY <1>1
    <2>2. PICK j \in 1 .. v : j = 1 + ((i - 1) % v)
      BY <1>1
    <2>3. i = w * q + j
      BY <1>1, <2>1, <2>2
    <2> QED BY <1>1, <2>3
  <1>2. CASE w = 1
    BY <1>1, <1>2
  <1>3. CASE w = 3
    BY <1>1, <1>3
  <1>4. CASE w = 6
    BY <1>1, <1>4
  <1>5. CASE w = 7
    BY <1>1, <1>5
  <1>6. CASE w = 8
    BY <1>1, <1>6
  <1> QED BY <1>2, <1>3, <1>4, <1>5, <1>6

LEMMA RangeDiv ==
  ASSUME NEW w \in {1, 3, 6, 7, 8}, NEW m \in Nat, NEW q \in 0 .. m - 1, NEW j \in 1 .. w
  PROVE  w * q + j \in 1 .. w * m
  <1>1. CASE w = 1
    BY <1>1
  <1>2. CASE w = 3
    BY <1>2
  <1>3. CASE w = 6
    BY <1>3
  <1>4. CASE w = 7
    BY <1>4
  <1>5. CASE w = 8
    BY <1>5
  <1> QED BY <1>1, <1>2, <1>3, <1>4, <1>5

\* In a loop over the peers, w calls for each, the j-th call for p has this place;
\* with m peers there are no other places.
Place(n, p, w, j) == w * Index(n, p) + j
Placed(n, w, m) ==
  /\ \A i \in 1 .. w * m : \E p \in Peers(n), j \in 1 .. w : i = Place(n, p, w, j)
  /\ \A p \in Peers(n), j \in 1 .. w :
       /\ Place(n, p, w, j) \in 1 .. w * m
       /\ Quorum(n)[1 + (Place(n, p, w, j) - 1) \div w] = p
       /\ 1 + ((Place(n, p, w, j) - 1) % w) = j

LEMMA Places ==
  ASSUME NEW n \in Nodes, NEW w \in {1, 3, 6, 7, 8}, NEW m \in Nat, m = QuorumSize - 1
  PROVE  Placed(n, w, m)
  <1>0. /\ \A q \in 0 .. m - 1 : \E p \in Peers(n) : Index(n, p) = q
        /\ \A p \in Peers(n) : Index(n, p) \in 0 .. m - 1 /\ Quorum(n)[1 + Index(n, p)] = p
    <2>1. m - 1 = QuorumSize - 2
      BY QuorumSizeAssumption
    <2> QED BY <2>1, QuorumIs
  <1>1. ASSUME NEW i \in 1 .. w * m
        PROVE  \E p \in Peers(n), j \in 1 .. w : i = Place(n, p, w, j)
    <2>1. PICK q \in 0 .. m - 1, j \in 1 .. w : i = w * q + j
      BY DivRange
    <2>2. PICK p \in Peers(n) : Index(n, p) = q
      BY <1>0, Zenon
    <2> QED BY <2>1, <2>2, Zenon DEF Place
  <1>2. ASSUME NEW p \in Peers(n), NEW j \in 1 .. w
        PROVE  /\ Place(n, p, w, j) \in 1 .. w * m
               /\ Quorum(n)[1 + (Place(n, p, w, j) - 1) \div w] = p
               /\ 1 + ((Place(n, p, w, j) - 1) % w) = j
    <2>1. PICK q \in 0 .. m - 1 : Index(n, p) = q /\ Quorum(n)[1 + q] = p
      BY <1>0, Zenon
    <2>2. PICK i \in 1 .. w * m : i = w * q + j /\ i = Place(n, p, w, j)
      BY <2>1, RangeDiv DEF Place
    <2>3. (i - 1) \div w = q /\ (i - 1) % w = j - 1
      BY <2>2, DivIs
    <2>4. 1 + (j - 1) = j
      OBVIOUS
    <2> QED BY <2>1, <2>2, <2>3, <2>4, Zenon
  <1> QED BY <1>1, <1>2, Zenon DEF Placed

\* A sequence of k calls, which are those of C.
Counted(s, k) == s = [i \in 1 .. k |-> s[i]]
Makes(s, k, C) ==
  /\ Counted(s, k)
  /\ \A i \in 1 .. k : s[i] \in C
  /\ \A c \in C : \E i \in 1 .. k : s[i] = c

\* What a loop over the peers does, place by place.
LoopAt(s, n, round, w, m) ==
  /\ Counted(s, w * m)
  /\ \A p \in Peers(n), j \in 1 .. w : Place(n, p, w, j) \in 1 .. w * m /\ s[Place(n, p, w, j)] = round[p][j]
  /\ \A i \in 1 .. w * m : \E p \in Peers(n), j \in 1 .. w : i = Place(n, p, w, j)

LEMMA LoopIs ==
  ASSUME NEW n \in Nodes, NEW w \in {1, 3, 6, 7, 8}, NEW round, Len(round[n]) = w,
         NEW m \in Nat, m = QuorumSize - 1
  PROVE  LoopAt(ForPeers(n, round), n, round, w, m)
  <1> DEFINE peer(i) == Quorum(n)[1 + (i - 1) \div w]
             nth(i) == 1 + ((i - 1) % w)
             D == 1 .. w * m
             f == [i \in D |-> round[peer(i)][nth(i)]]
  <1>1. /\ \A i \in D : \E p \in Peers(n), j \in 1 .. w : i = Place(n, p, w, j)
        /\ \A p \in Peers(n), j \in 1 .. w :
             Place(n, p, w, j) \in D /\ peer(Place(n, p, w, j)) = p /\ nth(Place(n, p, w, j)) = j
    <2>1. Placed(n, w, m)
      BY Places
    <2> QED BY <2>1, Zenon DEF Placed
  <1>2. ForPeers(n, round) = f
    <2>1. QuorumSize - 1 = m
      OBVIOUS
    <2> QED BY <2>1, Zenon DEF ForPeers
  <1> HIDE DEF peer, nth, D
  <1>3. \A p \in Peers(n), j \in 1 .. w : f[Place(n, p, w, j)] = round[p][j]
    BY <1>1
  <1>4. f = [i \in D |-> f[i]]
    OBVIOUS
  <1> HIDE DEF f
  <1>5. LoopAt(f, n, round, w, m)
    BY <1>1, <1>3, <1>4, Zenon DEF LoopAt, Counted, D
  <1> QED BY <1>2, <1>5

\* In brief: every call of every peer's round, and no other.
LEMMA LoopMakes ==
  ASSUME NEW n \in Nodes, NEW w \in {1, 3, 6, 7, 8}, NEW round, Len(round[n]) = w,
         NEW m \in Nat, m = QuorumSize - 1, NEW C,
         \A p \in Peers(n), j \in 1 .. w : round[p][j] \in C,
         \A c \in C : \E p \in Peers(n), j \in 1 .. w : round[p][j] = c
  PROVE  Makes(ForPeers(n, round), w * m, C)
  <1>1. PICK s : s = ForPeers(n, round)
    OBVIOUS
  <1>2. LoopAt(s, n, round, w, m)
    BY <1>1, LoopIs
  <1> DEFINE D == 1 .. w * m
  <1>3. Counted(s, w * m) /\ \A i \in D : \E p \in Peers(n), j \in 1 .. w : i = Place(n, p, w, j)
    BY <1>2, Zenon DEF LoopAt
  <1>4. \A p \in Peers(n), j \in 1 .. w : Place(n, p, w, j) \in D /\ s[Place(n, p, w, j)] = round[p][j]
    BY <1>2, Zenon DEF LoopAt
  <1> HIDE DEF D
  <1>5. \A i \in D : s[i] \in C
    <2>1. \A p \in Peers(n), j \in 1 .. w : s[Place(n, p, w, j)] \in C
      BY <1>4
    <2> QED BY <1>3, <2>1
  <1>6. \A c \in C : \E i \in D : s[i] = c
    BY <1>4
  <1>7. Makes(s, w * m, C)
    BY <1>3, <1>5, <1>6, Zenon DEF Makes, D
  <1> QED BY <1>1, <1>7

(***************************************************************************)
(* The constructor, call by call.                                          *)
(***************************************************************************)
\* t follows s, which has k elements and t l.
IsConcat(u, s, t) == u = s \o t
Follows(u, s, t, k, l) == (\A i \in 1 .. k : u[i] = s[i]) /\ (\A i \in 1 .. l : u[k + i] = t[i])

LEMMA ConcatMakes ==
  ASSUME NEW k \in Nat, NEW l \in Nat, NEW s, NEW t, NEW C, NEW D, Makes(s, k, C), Makes(t, l, D),
         NEW u, IsConcat(u, s, t), NEW e, e = k + l
  PROVE  Makes(u, e, C \cup D) /\ Follows(u, s, t, k, l)
  <1> DEFINE S == C \cup D
  <1>1. (\A i \in 1 .. k : s[i] \in S) /\ (\A i \in 1 .. l : t[i] \in S)
    BY DEF Makes
  <1> HIDE DEF S
  <1>2. s \in [1 .. k -> S] /\ t \in [1 .. l -> S]
    BY <1>1 DEF Makes, Counted
  <1>3. s \in Seq(S) /\ Len(s) = k /\ t \in Seq(S) /\ Len(t) = l
    BY <1>2
  <1>4. /\ u \in Seq(S) /\ Len(u) = k + l
        /\ \A i \in 1 .. k + l : u[i] = IF i <= k THEN s[i] ELSE t[i - k]
    <2>1. /\ s \o t \in Seq(S) /\ Len(s \o t) = Len(s) + Len(t)
          /\ \A i \in 1 .. Len(s) + Len(t) : (s \o t)[i] = IF i <= Len(s) THEN s[i] ELSE t[i - Len(s)]
      BY <1>3, ConcatProperties, Zenon
    <2> QED BY <1>3, <2>1, Zenon DEF IsConcat
  <1>5. u \in [1 .. k + l -> S]
    <2>1. u \in [1 .. Len(u) -> S]
      BY <1>4, LenProperties, Zenon
    <2> QED BY <1>4, <2>1, Zenon
  <1>6. \A i \in 1 .. k : u[i] = s[i] /\ i \in 1 .. k + l
    BY <1>4
  <1>7. \A i \in 1 .. l : k + i \in 1 .. k + l /\ ~(k + i <= k) /\ (k + i) - k = i
    OBVIOUS
  <1>8. \A i \in 1 .. l : u[k + i] = t[i]
    BY <1>4, <1>7
  <1>9. ASSUME NEW c \in S PROVE \E i \in 1 .. k + l : u[i] = c
    <2>1. CASE c \in C
      <3>1. PICK i \in 1 .. k : s[i] = c
        BY <2>1 DEF Makes
      <3> QED BY <1>6, <3>1
    <2>2. CASE c \in D
      <3>1. PICK i \in 1 .. l : t[i] = c
        BY <2>2 DEF Makes
      <3>2. k + i \in 1 .. k + l /\ u[k + i] = c
        BY <1>7, <1>8, <3>1
      <3> QED BY <3>2, Zenon
    <2> QED BY <2>1, <2>2 DEF S
  <1>10. Counted(u, k + l) /\ \A i \in 1 .. k + l : u[i] \in S
    BY <1>5 DEF Counted
  <1>11. Makes(u, k + l, S)
    BY <1>9, <1>10, Zenon DEF Makes
  <1> QED BY <1>6, <1>8, <1>11 DEF S, Follows

\* The calls of each part of the constructor.
PublishedFor(n, p) ==
  {<<"qp-rpli", n, p>>, <<"qp-chkr", n, p>>, <<"qp-rply", p, n>>, <<"mr-rply", p, n>>,
   <<"qp-rcvr", p, n>>, <<"mr-rcvr", p, n>>, <<"qp-hbtr", n, p>>}
Published(n) == {Scoreboard(n)} \cup UNION {PublishedFor(n, p) : p \in Peers(n)}
PublishCalls(n) == {Call("push", key) : key \in Published(n)}

LEMMA PublishMakes ==
  ASSUME NEW n \in Nodes, NEW m \in Nat, m = QuorumSize - 1
  PROVE  Makes(Publish(n), 1 + 7 * m, PublishCalls(n))
  <1> DEFINE round == [p \in Nodes |->
                <<Call("push", wkey("qp-rpli", n, p)), Call("push", wkey("qp-chkr", n, p)),
                  Call("push", rkey("qp-rply", n, p)), Call("push", rkey("mr-rply", n, p)),
                  Call("push", rkey("qp-rcvr", n, p)), Call("push", rkey("mr-rcvr", n, p)),
                  Call("push", wkey("qp-hbtr", n, p))>>]
  <1> DEFINE s == <<Call("push", Scoreboard(n))>>
  <1> DEFINE C == {Call("push", Scoreboard(n))}
  <1> DEFINE D == UNION {{Call("push", key) : key \in PublishedFor(n, p)} : p \in Peers(n)}
  <1>1. Makes(s, 1, C)
    BY DEF Makes, Counted
  <1>2. Len(round[n]) = 7
    OBVIOUS
  <1>3. ASSUME NEW p \in Peers(n), NEW j \in 1 .. 7 PROVE round[p][j] \in D
    <2>1. j \in {1, 2, 3, 4, 5, 6, 7} /\ p \in Nodes
      BY DEF Peers
    <2>2. PICK key \in PublishedFor(n, p) : round[p][j] = Call("push", key)
      BY <2>1 DEF wkey, rkey, PublishedFor
    <2>3. Call("push", key) \in D
      OBVIOUS
    <2> QED BY <2>2, <2>3, Zenon
  <1>4. ASSUME NEW c \in D PROVE \E p \in Peers(n), j \in 1 .. 7 : round[p][j] = c
    <2>1. PICK p \in Peers(n) : \E key \in PublishedFor(n, p) : c = Call("push", key)
      OBVIOUS
    <2>2. p \in Nodes /\ \A j \in {1, 2, 3, 4, 5, 6, 7} : j \in 1 .. 7
      BY DEF Peers
    <2>3. \E j \in 1 .. 7 : round[p][j] = c
      BY <2>1, <2>2 DEF wkey, rkey, PublishedFor
    <2> QED BY <2>3
  <1> HIDE DEF round, C, D, s
  <1>5. Makes(ForPeers(n, round), 7 * m, D)
    <2>1. 7 \in {1, 3, 6, 7, 8}
      OBVIOUS
    <2> QED BY <1>2, <1>3, <1>4, <2>1, LoopMakes
  <1>6. IsConcat(Publish(n), s, ForPeers(n, round))
    BY Zenon DEF Publish, round, s, IsConcat
  <1>7. Makes(Publish(n), 1 + 7 * m, C \cup D)
    <2>1. 1 \in Nat /\ 7 * m \in Nat
      OBVIOUS
    <2> QED BY <1>1, <1>5, <1>6, <2>1, ConcatMakes
  <1>8. C \cup D = PublishCalls(n)
    BY DEF C, D, PublishCalls, Published
  <1> QED BY <1>7, <1>8
FetchedFor(n, p) ==
  {Aim(<<n, p, "rply">>, <<"mr-rply", n, p>>), Join(<<"qp-rpli", n, p>>, <<"qp-rply", n, p>>),
   Aim(<<n, p, "rcvr">>, <<"mr-rcvr", n, p>>), Join(<<"qp-chkr", n, p>>, <<"qp-rcvr", n, p>>),
   Join(<<"qp-rply", p, n>>, <<"qp-rpli", p, n>>), Join(<<"qp-rcvr", p, n>>, <<"qp-chkr", p, n>>),
   Aim(<<n, p, "hbtr">>, Scoreboard(n)), Join(<<"qp-hbtr", n, p>>, <<"qp-hbtr", p, n>>)}
ConnectCalls(n) == UNION {FetchedFor(n, p) : p \in Peers(n)}

LEMMA ConnectMakes ==
  ASSUME NEW n \in Nodes, NEW m \in Nat, m = QuorumSize - 1
  PROVE  Makes(Connect(n), 8 * m, ConnectCalls(n))
  <1> DEFINE round == [p \in Nodes |->
                <<Aim(<<n, p, "rply">>, wkey("mr-rply", n, p)),
                  Join(wkey("qp-rpli", n, p), wkey("qp-rply", n, p)),
                  Aim(<<n, p, "rcvr">>, wkey("mr-rcvr", n, p)),
                  Join(wkey("qp-chkr", n, p), wkey("qp-rcvr", n, p)),
                  Join(rkey("qp-rply", n, p), rkey("qp-rpli", n, p)),
                  Join(rkey("qp-rcvr", n, p), rkey("qp-chkr", n, p)),
                  Aim(<<n, p, "hbtr">>, Scoreboard(n)),
                  Join(wkey("qp-hbtr", n, p), rkey("qp-hbtr", n, p))>>]
  <1> DEFINE D == ConnectCalls(n)
  <1>1. Len(round[n]) = 8
    OBVIOUS
  <1>2. ASSUME NEW p \in Peers(n), NEW j \in 1 .. 8 PROVE round[p][j] \in D
    <2>1. j \in {1, 2, 3, 4, 5, 6, 7, 8} /\ p \in Nodes
      BY DEF Peers
    <2>2. round[p][j] \in FetchedFor(n, p)
      BY <2>1 DEF wkey, rkey, FetchedFor
    <2> QED BY <2>2, Zenon DEF ConnectCalls
  <1>3. ASSUME NEW c \in D PROVE \E p \in Peers(n), j \in 1 .. 8 : round[p][j] = c
    <2>1. PICK p \in Peers(n) : c \in FetchedFor(n, p)
      BY DEF ConnectCalls
    <2>2. p \in Nodes /\ \A j \in {1, 2, 3, 4, 5, 6, 7, 8} : j \in 1 .. 8
      BY DEF Peers
    <2>3. \E j \in 1 .. 8 : round[p][j] = c
      BY <2>1, <2>2 DEF wkey, rkey, FetchedFor
    <2> QED BY <2>3
  <1>4. Connect(n) = ForPeers(n, round)
    BY Zenon DEF Connect, round
  <1> HIDE DEF round, D
  <1>5. Makes(ForPeers(n, round), 8 * m, D)
    <2>1. 8 \in {1, 3, 6, 7, 8}
      OBVIOUS
    <2> QED BY <1>1, <1>2, <1>3, <2>1, LoopMakes
  <1> QED BY <1>4, <1>5 DEF D

WithdrawnFor(n, p) ==
  {Call("del", <<"qp-rpli", n, p>>), Call("del", <<"qp-chkr", n, p>>), Call("del", <<"qp-rply", p, n>>),
   Call("del", <<"qp-rcvr", p, n>>), Call("del", <<"mr-rply", p, n>>), Call("del", <<"mr-rcvr", p, n>>)}
WithdrawCalls(n) == UNION {WithdrawnFor(n, p) : p \in Peers(n)}

LEMMA WithdrawMakes ==
  ASSUME NEW n \in Nodes, NEW m \in Nat, m = QuorumSize - 1
  PROVE  Makes(Withdraw(n), 6 * m, WithdrawCalls(n))
  <1> DEFINE round == [p \in Nodes |->
                <<Call("del", wkey("qp-rpli", n, p)), Call("del", wkey("qp-chkr", n, p)),
                  Call("del", rkey("qp-rply", n, p)), Call("del", rkey("qp-rcvr", n, p)),
                  Call("del", rkey("mr-rply", n, p)), Call("del", rkey("mr-rcvr", n, p))>>]
  <1> DEFINE D == WithdrawCalls(n)
  <1>1. Len(round[n]) = 6
    OBVIOUS
  <1>2. ASSUME NEW p \in Peers(n), NEW j \in 1 .. 6 PROVE round[p][j] \in D
    <2>1. j \in {1, 2, 3, 4, 5, 6} /\ p \in Nodes
      BY DEF Peers
    <2>2. round[p][j] \in WithdrawnFor(n, p)
      BY <2>1 DEF wkey, rkey, WithdrawnFor
    <2> QED BY <2>2, Zenon DEF WithdrawCalls
  <1>3. ASSUME NEW c \in D PROVE \E p \in Peers(n), j \in 1 .. 6 : round[p][j] = c
    <2>1. PICK p \in Peers(n) : c \in WithdrawnFor(n, p)
      BY DEF WithdrawCalls
    <2>2. p \in Nodes /\ \A j \in {1, 2, 3, 4, 5, 6} : j \in 1 .. 6
      BY DEF Peers
    <2>3. \E j \in 1 .. 6 : round[p][j] = c
      BY <2>1, <2>2 DEF wkey, rkey, WithdrawnFor
    <2> QED BY <2>3
  <1>4. Withdraw(n) = ForPeers(n, round)
    BY Zenon DEF Withdraw, round
  <1> HIDE DEF round, D
  <1>5. Makes(ForPeers(n, round), 6 * m, D)
    <2>1. 6 \in {1, 3, 6, 7, 8}
      OBVIOUS
    <2> QED BY <1>1, <1>2, <1>3, <2>1, LoopMakes
  <1> QED BY <1>4, <1>5 DEF D

AwaitCalls(n) == {Call("await", WaitKey(p)) : p \in Peers(n)}
BarrierCalls(n) == {Call("push", WaitKey(n))} \cup AwaitCalls(n)

LEMMA BarrierMakes ==
  ASSUME NEW n \in Nodes, NEW m \in Nat, m = QuorumSize - 1
  PROVE  Makes(Barrier(n), 1 + m, BarrierCalls(n))
  <1> DEFINE round == [p \in Nodes |-> <<Call("await", WaitKey(p))>>]
  <1> DEFINE s == <<Call("push", WaitKey(n))>>
  <1>1. Makes(s, 1, {Call("push", WaitKey(n))})
    BY DEF Makes, Counted
  <1>2. Len(round[n]) = 1
    OBVIOUS
  <1>3. ASSUME NEW p \in Peers(n), NEW j \in 1 .. 1 PROVE round[p][j] \in AwaitCalls(n)
    <2>1. j = 1 /\ p \in Nodes
      BY DEF Peers
    <2> QED BY <2>1 DEF AwaitCalls
  <1>4. ASSUME NEW c \in AwaitCalls(n) PROVE \E p \in Peers(n), j \in 1 .. 1 : round[p][j] = c
    <2>1. PICK p \in Peers(n) : c = Call("await", WaitKey(p))
      BY DEF AwaitCalls
    <2>2. p \in Nodes /\ 1 \in 1 .. 1
      BY DEF Peers
    <2> QED BY <2>1, <2>2
  <1> HIDE DEF round, s
  <1>5. Makes(ForPeers(n, round), m, AwaitCalls(n))
    <2>1. 1 \in {1, 3, 6, 7, 8} /\ 1 * m = m
      OBVIOUS
    <2>2. Makes(ForPeers(n, round), 1 * m, AwaitCalls(n))
      BY <1>2, <1>3, <1>4, <2>1, LoopMakes
    <2> QED BY <2>1, <2>2
  <1>6. IsConcat(Barrier(n), s, ForPeers(n, round))
    BY Zenon DEF Barrier, round, s, IsConcat
  <1>7. Makes(Barrier(n), 1 + m, {Call("push", WaitKey(n))} \cup AwaitCalls(n))
    BY <1>1, <1>5, <1>6, ConcatMakes
  <1> QED BY <1>7 DEF BarrierCalls
\* Where the parts of the constructor end, m being the number of peers.
PublishEnd(m) == 1 + 7 * m
ConnectEnd(m) == PublishEnd(m) + 8 * m
BarrierEnd(m) == ConnectEnd(m) + (1 + m)
End(m) == BarrierEnd(m) + 6 * m

ConstructorCalls(n) == ((PublishCalls(n) \cup ConnectCalls(n)) \cup BarrierCalls(n)) \cup WithdrawCalls(n)

\* The call in the i-th place belongs to the part whose places i is among.
InItsPart(n, m, i) ==
  /\ i <= PublishEnd(m) => Constructor[n][i] \in PublishCalls(n)
  /\ i > PublishEnd(m) /\ i <= ConnectEnd(m) => Constructor[n][i] \in ConnectCalls(n)
  /\ i > ConnectEnd(m) /\ i <= BarrierEnd(m) => Constructor[n][i] \in BarrierCalls(n)
  /\ i > BarrierEnd(m) => Constructor[n][i] \in WithdrawCalls(n)

LEMMA ConstructorIs ==
  ASSUME NEW n \in Nodes, NEW m \in Nat, m = QuorumSize - 1
  PROVE  /\ Len(Constructor[n]) = End(m) /\ DOMAIN Constructor[n] = 1 .. End(m)
         /\ Calls(n) = ConstructorCalls(n)
         /\ \A i \in 1 .. End(m) : InItsPart(n, m, i)
         /\ \A c \in AwaitCalls(n) : \E i \in 1 .. BarrierEnd(m) : Constructor[n][i] = c
  <1> DEFINE s == Publish(n) \o Connect(n)
             t == s \o Barrier(n)
             u == t \o Withdraw(n)
  <1>1. /\ PublishEnd(m) \in Nat /\ ConnectEnd(m) \in Nat /\ BarrierEnd(m) \in Nat /\ End(m) \in Nat
        /\ 8 * m \in Nat /\ 1 + m \in Nat /\ 6 * m \in Nat
    BY DEF PublishEnd, ConnectEnd, BarrierEnd, End
  <1>2. /\ Makes(Publish(n), PublishEnd(m), PublishCalls(n)) /\ Makes(Connect(n), 8 * m, ConnectCalls(n))
        /\ Makes(Barrier(n), 1 + m, BarrierCalls(n)) /\ Makes(Withdraw(n), 6 * m, WithdrawCalls(n))
    BY PublishMakes, ConnectMakes, BarrierMakes, WithdrawMakes DEF PublishEnd
  <1>3. Constructor[n] = u
    BY DEF Constructor
  <1>4. IsConcat(s, Publish(n), Connect(n)) /\ IsConcat(t, s, Barrier(n)) /\ IsConcat(u, t, Withdraw(n))
    BY Zenon DEF IsConcat
  <1> HIDE DEF s, t, u
  <1>5. Makes(s, ConnectEnd(m), PublishCalls(n) \cup ConnectCalls(n)) /\ Follows(s, Publish(n), Connect(n), PublishEnd(m), 8 * m)
    <2>1. ConnectEnd(m) = PublishEnd(m) + 8 * m
      BY DEF ConnectEnd
    <2> QED BY <1>1, <1>2, <1>4, <2>1, ConcatMakes
  <1>6. /\ Makes(t, BarrierEnd(m), (PublishCalls(n) \cup ConnectCalls(n)) \cup BarrierCalls(n))
        /\ Follows(t, s, Barrier(n), ConnectEnd(m), 1 + m)
    <2>1. BarrierEnd(m) = ConnectEnd(m) + (1 + m)
      BY DEF BarrierEnd
    <2> QED BY <1>1, <1>2, <1>4, <1>5, <2>1, ConcatMakes
  <1>7. Makes(u, End(m), ConstructorCalls(n)) /\ Follows(u, t, Withdraw(n), BarrierEnd(m), 6 * m)
    <2>1. End(m) = BarrierEnd(m) + 6 * m
      BY DEF End
    <2> QED BY <1>1, <1>2, <1>4, <1>6, <2>1, ConcatMakes DEF ConstructorCalls
  <1>8. Len(Constructor[n]) = End(m) /\ DOMAIN Constructor[n] = 1 .. End(m)
    <2>1. u = [i \in 1 .. End(m) |-> u[i]] /\ \A i \in 1 .. End(m) : u[i] \in ConstructorCalls(n)
      BY <1>7 DEF Makes, Counted
    <2>2. u \in [1 .. End(m) -> ConstructorCalls(n)]
      BY <2>1
    <2>3. Len(u) = End(m) /\ DOMAIN u = 1 .. End(m)
      BY <1>1, <2>2
    <2> QED BY <1>3, <2>3
  <1>9. Calls(n) = ConstructorCalls(n)
    <2>1. Calls(n) = {u[i] : i \in 1 .. End(m)}
      BY <1>3, <1>8 DEF Calls
    <2> QED BY <1>7, <2>1 DEF Makes
  <1>10. \A c \in AwaitCalls(n) : \E i \in 1 .. BarrierEnd(m) : Constructor[n][i] = c
    BY <1>3, <1>6, <1>7 DEF Makes, BarrierCalls, Follows
  <1>11. ASSUME NEW i \in 1 .. End(m) PROVE InItsPart(n, m, i)
    <2>1. ASSUME i <= BarrierEnd(m) PROVE Constructor[n][i] = t[i] /\ i \in 1 .. BarrierEnd(m)
      BY <1>1, <1>3, <1>7, <2>1 DEF Follows
    <2>2. ASSUME i <= ConnectEnd(m) PROVE Constructor[n][i] = s[i] /\ i \in 1 .. ConnectEnd(m)
      BY <1>1, <1>6, <2>1, <2>2 DEF BarrierEnd, Follows
    <2>3. ASSUME i <= PublishEnd(m) PROVE Constructor[n][i] \in PublishCalls(n)
      <3>1. i \in 1 .. PublishEnd(m) /\ Constructor[n][i] = s[i]
        BY <1>1, <2>2, <2>3 DEF ConnectEnd
      <3> QED BY <1>2, <1>5, <3>1 DEF Makes, Follows
    <2>4. ASSUME i > PublishEnd(m), i <= ConnectEnd(m) PROVE Constructor[n][i] \in ConnectCalls(n)
      <3>1. PICK k \in 1 .. 8 * m : k = i - PublishEnd(m) /\ i = PublishEnd(m) + k
        BY <1>1, <2>4 DEF ConnectEnd
      <3> QED BY <1>2, <1>5, <2>2, <2>4, <3>1 DEF Makes, Follows
    <2>5. ASSUME i > ConnectEnd(m), i <= BarrierEnd(m) PROVE Constructor[n][i] \in BarrierCalls(n)
      <3>1. PICK k \in 1 .. 1 + m : k = i - ConnectEnd(m) /\ i = ConnectEnd(m) + k
        BY <1>1, <2>5 DEF BarrierEnd
      <3> QED BY <1>2, <1>6, <2>1, <2>5, <3>1 DEF Makes, Follows
    <2>6. ASSUME i > BarrierEnd(m) PROVE Constructor[n][i] \in WithdrawCalls(n)
      <3>1. PICK k \in 1 .. 6 * m : k = i - BarrierEnd(m) /\ i = BarrierEnd(m) + k
        BY <1>1, <2>6 DEF End
      <3> QED BY <1>2, <1>3, <1>7, <3>1 DEF Makes, Follows
    <2> QED BY <2>3, <2>4, <2>5, <2>6, Zenon DEF InItsPart
  <1> QED BY <1>8, <1>9, <1>10, <1>11
(***************************************************************************)
(* What a call can be.                                                     *)
(***************************************************************************)
Others == QuorumSize - 1

LEMMA OthersIs == Others \in Nat /\ Others = QuorumSize - 1
  BY QuorumSizeAssumption DEF Others

\* The two ends of a connection, under the keys of their publication.
QueuePairs == {"qp-rpli", "qp-rply", "qp-chkr", "qp-rcvr", "qp-hbtr"} \X Nodes \X Nodes
Partner(q) ==
  IF q[1] = "qp-hbtr" THEN <<"qp-hbtr", q[3], q[2]>>
  ELSE <<IF q[1] = "qp-rpli" THEN "qp-rply"
         ELSE IF q[1] = "qp-rply" THEN "qp-rpli"
         ELSE IF q[1] = "qp-chkr" THEN "qp-rcvr" ELSE "qp-chkr", q[2], q[3]>>

LEMMA PartnersAreMutual ==
  ASSUME NEW q \in QueuePairs
  PROVE  Partner(Partner(q)) = q
  <1>1. PICK r \in {"qp-rpli", "qp-rply", "qp-chkr", "qp-rcvr", "qp-hbtr"}, n \in Nodes, p \in Nodes : q = <<r, n, p>>
    BY DEF QueuePairs
  <1> QED BY <1>1 DEF Partner

LEMMA CallsAre ==
  ASSUME NEW n \in Nodes
  PROVE  Calls(n) = ConstructorCalls(n)
  BY OthersIs, ConstructorIs

\* A fetched queue pair belongs to its local one; the uses of fetched regions.
LEMMA JoinsAre ==
  ASSUME NEW n \in Nodes, NEW c \in Calls(n), c.op = "join"
  PROVE  c.use \in QueuePairs /\ c.key = Partner(c.use) /\ c.use \in Published(n)
  <1>1. c \in ConnectCalls(n)
    BY CallsAre DEF ConstructorCalls, PublishCalls, BarrierCalls, AwaitCalls, WithdrawCalls, WithdrawnFor, Call
  <1>2. PICK p \in Peers(n) : c \in FetchedFor(n, p)
    BY <1>1 DEF ConnectCalls
  <1>3. p \in Nodes
    BY DEF Peers
  <1>4. c.use \in QueuePairs /\ c.key = Partner(c.use) /\ c.use \in PublishedFor(n, p)
    <2>1. CASE c = Join(<<"qp-rpli", n, p>>, <<"qp-rply", n, p>>)
      BY <1>3, <2>1 DEF Join, QueuePairs, Partner, PublishedFor
    <2>2. CASE c = Join(<<"qp-chkr", n, p>>, <<"qp-rcvr", n, p>>)
      BY <1>3, <2>2 DEF Join, QueuePairs, Partner, PublishedFor
    <2>3. CASE c = Join(<<"qp-rply", p, n>>, <<"qp-rpli", p, n>>)
      BY <1>3, <2>3 DEF Join, QueuePairs, Partner, PublishedFor
    <2>4. CASE c = Join(<<"qp-rcvr", p, n>>, <<"qp-chkr", p, n>>)
      BY <1>3, <2>4 DEF Join, QueuePairs, Partner, PublishedFor
    <2>5. CASE c = Join(<<"qp-hbtr", n, p>>, <<"qp-hbtr", p, n>>)
      BY <1>3, <2>5 DEF Join, QueuePairs, Partner, PublishedFor
    <2> QED BY <1>2, <2>1, <2>2, <2>3, <2>4, <2>5 DEF FetchedFor, Aim
  <1> QED BY <1>4 DEF Published

AimsAt(u, region) ==
  \E n \in Nodes : \E p \in Peers(n) :
    \/ u = <<n, p, "rply">> /\ region = <<"mr-rply", n, p>>
    \/ u = <<n, p, "rcvr">> /\ region = <<"mr-rcvr", n, p>>
    \/ u = <<n, p, "hbtr">> /\ region = Scoreboard(n)

LEMMA AimsAre ==
  ASSUME NEW n \in Nodes, NEW c \in Calls(n), c.op = "aim"
  PROVE  AimsAt(c.use, c.key)
  <1>1. c \in ConnectCalls(n)
    BY CallsAre DEF ConstructorCalls, PublishCalls, BarrierCalls, AwaitCalls, WithdrawCalls, WithdrawnFor, Call
  <1>2. PICK p \in Peers(n) : c \in FetchedFor(n, p)
    BY <1>1 DEF ConnectCalls
  <1>3. \/ c = Aim(<<n, p, "rply">>, <<"mr-rply", n, p>>)
        \/ c = Aim(<<n, p, "rcvr">>, <<"mr-rcvr", n, p>>)
        \/ c = Aim(<<n, p, "hbtr">>, Scoreboard(n))
    BY <1>2 DEF FetchedFor, Join
  <1>4. \/ c.use = <<n, p, "rply">> /\ c.key = <<"mr-rply", n, p>>
        \/ c.use = <<n, p, "rcvr">> /\ c.key = <<"mr-rcvr", n, p>>
        \/ c.use = <<n, p, "hbtr">> /\ c.key = Scoreboard(n)
    BY <1>3 DEF Aim
  <1> QED BY <1>4 DEF AimsAt

\* What is read by a node, that node has published.
LEMMA PublisherIs ==
  ASSUME NEW n \in Nodes, NEW p \in Peers(n), NEW r \in {"mr-rply", "mr-rcvr", "qp-rply", "qp-rcvr"}
  PROVE  Publisher(<<r, n, p>>) = p
  <1>1. p \in Nodes /\ n \in Peers(p)
    BY DEF Peers
  <1>2. Call("push", <<r, n, p>>) \in Calls(p)
    <2>1. <<r, n, p>> \in PublishedFor(p, n)
      BY DEF PublishedFor
    <2>2. <<r, n, p>> \in Published(p)
      BY <1>1, <2>1 DEF Published
    <2> QED BY <1>1, <2>2, CallsAre DEF PublishCalls, ConstructorCalls
  <1>3. ASSUME NEW k \in Nodes, Call("push", <<r, n, p>>) \in Calls(k) PROVE k = p
    <2>1. PICK c : c = Call("push", <<r, n, p>>)
      OBVIOUS
    <2>2. c.op = "push" /\ c.key = <<r, n, p>>
      BY <2>1 DEF Call
    <2>3. c \in PublishCalls(k) \/ c = Call("push", WaitKey(k))
      BY <1>3, <2>1, <2>2, CallsAre
         DEF ConstructorCalls, ConnectCalls, FetchedFor, BarrierCalls, AwaitCalls, WithdrawCalls, WithdrawnFor, Call, Join, Aim
    <2>4. c.key # WaitKey(k) /\ c.key # Scoreboard(k)
      BY <2>2 DEF WaitKey, Scoreboard
    <2>5. c.key \in Published(k)
      BY <2>3, <2>4 DEF PublishCalls, Call
    <2>6. PICK q \in Peers(k) : <<r, n, p>> \in PublishedFor(k, q)
      BY <2>2, <2>4, <2>5 DEF Published
    <2> QED BY <2>6 DEF PublishedFor
  <1> QED BY <1>1, <1>2, <1>3 DEF Publisher

\* Every queue pair and region that a node publishes is among the keys.
LEMMA KeysAre ==
  /\ \A n \in Nodes : Published(n) \subseteq AllKeys
  /\ \A n \in Nodes : \A c \in Calls(n) : c.key \in AllKeys
  <1>1. \A n \in Nodes : \A c \in Calls(n) : c.key \in AllKeys
    BY DEF AllKeys
  <1>2. ASSUME NEW n \in Nodes, NEW key \in Published(n) PROVE key \in AllKeys
    <2>1. Call("push", key) \in Calls(n)
      BY CallsAre DEF ConstructorCalls, PublishCalls
    <2>2. Call("push", key).key = key
      BY DEF Call
    <2> QED BY <1>1, <2>1, <2>2
  <1> QED BY <1>1, <1>2
(***************************************************************************)
(* The inductive invariant.                                                *)
(***************************************************************************)
StepsOK == step \in [Nodes -> Nat] /\ \A n \in Nodes : step[n] <= End(Others)

KeysInv ==
  /\ store \subseteq AllKeys
  /\ DOMAIN peer_of \subseteq AllKeys /\ peer_of \in [DOMAIN peer_of -> AllKeys]
  /\ target \in [DOMAIN target -> AllKeys]

WiringInv ==
  /\ \A q \in DOMAIN peer_of : q \in QueuePairs /\ peer_of[q] = Partner(q)
  /\ \A u \in DOMAIN target : AimsAt(u, target[u])

\* The next call of n exists and n has now made it.
MakesNext(n) ==
  /\ step[n] + 1 \in 1 .. End(Others)
  /\ NextCall(n) = Constructor[n][step[n] + 1]
  /\ NextCall(n) \in Calls(n)
  /\ InItsPart(n, Others, step[n] + 1)
  /\ step' = [step EXCEPT ![n] = step[n] + 1]

LEMMA StepMakes ==
  ASSUME NEW n \in Nodes, StepsOK, ~Done(n), Return(n)
  PROVE  MakesNext(n)
  <1>1. /\ Len(Constructor[n]) = End(Others) /\ DOMAIN Constructor[n] = 1 .. End(Others)
        /\ \A i \in 1 .. End(Others) : InItsPart(n, Others, i)
    BY OthersIs, ConstructorIs
  <1>2. End(Others) \in Nat
    BY OthersIs DEF End, BarrierEnd, ConnectEnd, PublishEnd
  <1>3. step[n] + 1 \in 1 .. End(Others)
    BY <1>1, <1>2 DEF StepsOK, Done
  <1>4. NextCall(n) \in Calls(n)
    BY <1>1, <1>3 DEF NextCall, Calls
  <1> QED BY <1>1, <1>3, <1>4 DEF MakesNext, NextCall, Return

LEMMA StepsStep ==
  ASSUME StepsOK, [Next]_vars
  PROVE  StepsOK'
  <1>1. CASE UNCHANGED vars
    BY <1>1 DEF vars, StepsOK
  <1>2. ASSUME NEW n \in Nodes, NodeStep(n) PROVE StepsOK'
    <2>1. ~Done(n) /\ Return(n)
      BY <1>2 DEF NodeStep, Push, Delete, FetchQp, FetchMr, Await
    <2>2. MakesNext(n)
      BY <2>1, StepMakes
    <2>3. step' = [step EXCEPT ![n] = step[n] + 1] /\ step[n] + 1 \in 1 .. End(Others)
      BY <2>2 DEF MakesNext
    <2> QED BY <2>3 DEF StepsOK
  <1> QED BY <1>1, <1>2 DEF Next

LEMMA KeysStep ==
  ASSUME StepsOK, KeysInv, [Next]_vars
  PROVE  KeysInv'
  <1>1. CASE UNCHANGED vars
    BY <1>1 DEF vars, KeysInv
  <1>2. ASSUME NEW n \in Nodes, NodeStep(n) PROVE KeysInv'
    <2>1. ~Done(n) /\ Return(n)
      BY <1>2 DEF NodeStep, Push, Delete, FetchQp, FetchMr, Await
    <2>2. NextCall(n) \in Calls(n)
      BY <2>1, StepMakes DEF MakesNext
    <2>3. PICK c \in Calls(n) : c = NextCall(n)
      BY <2>2
    <2>4. c.key \in AllKeys
      BY KeysAre
    <2>5. CASE Push(n)
      BY <2>3, <2>4, <2>5 DEF Push, KeysInv
    <2>6. CASE Delete(n)
      BY <2>3, <2>6 DEF Delete, KeysInv
    <2>7. CASE FetchQp(n)
      <3>1. c.use \in AllKeys
        BY <2>3, <2>7, JoinsAre, KeysAre DEF FetchQp
      <3>2. PICK x, y : x = c.use /\ y = c.key
        OBVIOUS
      <3>3. peer_of' = [z \in DOMAIN peer_of \cup {x} |-> IF z = x THEN y ELSE peer_of[z]]
        BY <2>3, <2>7, <3>2 DEF FetchQp, Bind
      <3> QED BY <2>4, <2>7, <3>1, <3>2, <3>3 DEF KeysInv, FetchQp
    <2>8. CASE FetchMr(n)
      <3>1. PICK x, y : x = c.use /\ y = c.key
        OBVIOUS
      <3>2. target' = [z \in DOMAIN target \cup {x} |-> IF z = x THEN y ELSE target[z]]
        BY <2>3, <2>8, <3>1 DEF FetchMr, Bind
      <3> QED BY <2>4, <2>8, <3>1, <3>2 DEF KeysInv, FetchMr
    <2>9. CASE Await(n)
      BY <2>9 DEF Await, KeysInv
    <2> QED BY <1>2, <2>5, <2>6, <2>7, <2>8, <2>9 DEF NodeStep
  <1> QED BY <1>1, <1>2 DEF Next

LEMMA WiringStep ==
  ASSUME StepsOK, WiringInv, [Next]_vars
  PROVE  WiringInv'
  <1>1. CASE UNCHANGED <<peer_of, target>>
    BY <1>1 DEF WiringInv
  <1>2. ASSUME NEW n \in Nodes, NodeStep(n), ~UNCHANGED <<peer_of, target>> PROVE WiringInv'
    <2>1. ~Done(n) /\ Return(n)
      BY <1>2 DEF NodeStep, Push, Delete, FetchQp, FetchMr, Await
    <2>2. NextCall(n) \in Calls(n)
      BY <2>1, StepMakes DEF MakesNext
    <2>3. PICK c \in Calls(n) : c = NextCall(n)
      BY <2>2
    <2>4. PICK x, y : x = c.use /\ y = c.key
      OBVIOUS
    <2>5. CASE FetchQp(n)
      <3>1. x \in QueuePairs /\ y = Partner(x)
        BY <2>3, <2>4, <2>5, JoinsAre DEF FetchQp
      <3>2. peer_of' = [z \in DOMAIN peer_of \cup {x} |-> IF z = x THEN y ELSE peer_of[z]]
        BY <2>3, <2>4, <2>5 DEF FetchQp, Bind
      <3>3. target' = target
        BY <2>5 DEF FetchQp
      <3> QED BY <3>1, <3>2, <3>3 DEF WiringInv
    <2>6. CASE FetchMr(n)
      <3>1. AimsAt(x, y)
        BY <2>3, <2>4, <2>6, AimsAre DEF FetchMr
      <3>2. target' = [z \in DOMAIN target \cup {x} |-> IF z = x THEN y ELSE target[z]]
        BY <2>3, <2>4, <2>6 DEF FetchMr, Bind
      <3>3. peer_of' = peer_of
        BY <2>6 DEF FetchMr
      <3> QED BY <3>1, <3>2, <3>3 DEF WiringInv
    <2> QED BY <1>2, <2>5, <2>6 DEF NodeStep, Push, Delete, Await
  <1> QED BY <1>1, <1>2 DEF Next, vars
\* No barrier key is in memcached before the first node starts.
NoBarrierKey == \A p \in Nodes : WaitKey(p) \notin Leftover

\* A node whose barrier key is there, or was awaited, has connected.
Connected(p) == step[p] > ConnectEnd(Others)
AwaitedBy(n, i, p) == Constructor[n][i] = Call("await", WaitKey(p))
BarrierInv ==
  /\ \A p \in Nodes : WaitKey(p) \in store => Connected(p)
  /\ \A n \in Nodes : \A p \in Peers(n) : \A i \in 1 .. step[n] : AwaitedBy(n, i, p) => Connected(p)

LEMMA EndsAre ==
  /\ ConnectEnd(Others) \in Nat /\ BarrierEnd(Others) \in Nat /\ End(Others) \in Nat /\ PublishEnd(Others) \in Nat
  /\ PublishEnd(Others) <= ConnectEnd(Others) /\ ConnectEnd(Others) < BarrierEnd(Others)
  /\ BarrierEnd(Others) <= End(Others)
  BY OthersIs DEF End, BarrierEnd, ConnectEnd, PublishEnd

LEMMA BarrierStep ==
  ASSUME StepsOK, BarrierInv, [Next]_vars
  PROVE  BarrierInv'
  <1>1. CASE UNCHANGED vars
    BY <1>1 DEF vars, BarrierInv, Connected
  <1>2. ASSUME NEW n \in Nodes, NodeStep(n) PROVE BarrierInv'
    <2>1. ~Done(n) /\ Return(n)
      BY <1>2 DEF NodeStep, Push, Delete, FetchQp, FetchMr, Await
    <2>2. MakesNext(n)
      BY <2>1, StepMakes
    <2>3. PICK e \in Nat : e = ConnectEnd(Others)
      BY EndsAre
    <2>4. PICK k \in Nat : k = step[n]
      BY DEF StepsOK
    <2>5. PICK c : c = NextCall(n) /\ c = Constructor[n][k + 1]
      BY <2>2, <2>4 DEF MakesNext
    <2>6. step' = [step EXCEPT ![n] = k + 1] /\ DOMAIN step = Nodes /\ \A p \in Nodes : step[p] \in Nat
      BY <2>2, <2>4 DEF MakesNext, StepsOK
    <2>7. \A p \in Nodes : Connected(p) => Connected(p)'
      <3>1. \A p \in Nodes : step[p] > e => step'[p] > e
        BY <2>3, <2>4, <2>6
      <3> QED BY <2>3, <3>1 DEF Connected
    <2>8. ASSUME NEW p \in Nodes, WaitKey(p) \in store' PROVE Connected(p)'
      <3>1. CASE WaitKey(p) \in store
        BY <2>7, <3>1 DEF BarrierInv
      <3>2. CASE WaitKey(p) \notin store
        <4>1. c.op = "push" /\ c.key = WaitKey(p)
          BY <1>2, <2>5, <2>8, <3>2 DEF NodeStep, Push, Delete, FetchQp, FetchMr, Await
        <4>2. c \notin PublishCalls(n) /\ c \notin ConnectCalls(n) /\ c \notin WithdrawCalls(n)
          <5>1. ASSUME c \in PublishCalls(n) PROVE FALSE
            <6>1. WaitKey(p) \in Published(n)
              BY <4>1, <5>1 DEF PublishCalls, Call
            <6> QED BY <6>1 DEF Published, PublishedFor, Scoreboard, WaitKey
          <5>2. c \notin ConnectCalls(n) /\ c \notin WithdrawCalls(n)
            BY <4>1 DEF ConnectCalls, FetchedFor, WithdrawCalls, WithdrawnFor, Call, Join, Aim
          <5> QED BY <5>1, <5>2
        <4>3. k + 1 > e /\ c \in BarrierCalls(n)
          <5>1. InItsPart(n, Others, k + 1)
            BY <2>2, <2>4 DEF MakesNext
          <5> QED BY <2>3, <2>5, <4>2, <5>1, EndsAre DEF InItsPart
        <4>4. p = n
          <5>1. c = Call("push", WaitKey(n))
            BY <4>1, <4>3 DEF BarrierCalls, AwaitCalls, Call
          <5> QED BY <4>1, <5>1 DEF Call, WaitKey
        <4> QED BY <2>3, <2>6, <4>3, <4>4 DEF Connected
      <3> QED BY <3>1, <3>2
    <2>9. ASSUME NEW l \in Nodes, NEW p \in Peers(l), NEW i \in 1 .. step'[l], AwaitedBy(l, i, p) PROVE Connected(p)'
      <3>1. p \in Nodes
        BY DEF Peers
      <3>2. CASE i \in 1 .. step[l]
        BY <2>7, <2>9, <3>1, <3>2 DEF BarrierInv
      <3>3. CASE i \notin 1 .. step[l]
        <4>1. l = n /\ i = k + 1
          BY <2>4, <2>6, <3>3
        <4>2. c.op = "await" /\ c.key = WaitKey(p)
          <5>1. c = Call("await", WaitKey(p))
            BY <2>5, <2>9, <4>1 DEF AwaitedBy
          <5> QED BY <5>1 DEF Call
        <4>3. WaitKey(p) \in store
          BY <1>2, <2>5, <4>2 DEF NodeStep, Push, Delete, FetchQp, FetchMr, Await
        <4> QED BY <2>7, <3>1, <4>3 DEF BarrierInv
      <3> QED BY <3>2, <3>3
    <2>10. \A l \in Nodes : \A p \in Peers(l) : \A i \in 1 .. step'[l] : AwaitedBy(l, i, p) => Connected(p)'
      BY <2>9
    <2> QED BY <2>8, <2>10 DEF BarrierInv, AwaitedBy
  <1> QED BY <1>1, <1>2 DEF Next

(***************************************************************************)
(* The theorems.                                                           *)
(***************************************************************************)
LEMMA InitIs ==
  ASSUME Init
  PROVE  StepsOK /\ WiringInv /\ (Leftover \subseteq AllKeys => KeysInv) /\ (NoBarrierKey => BarrierInv)
  <1>1. StepsOK
    BY EndsAre DEF Init, StepsOK
  <1>2. WiringInv
    BY DEF Init, WiringInv
  <1>3. Leftover \subseteq AllKeys => KeysInv
    BY DEF Init, KeysInv
  <1>4. NoBarrierKey => BarrierInv
    BY DEF Init, NoBarrierKey, BarrierInv
  <1> QED BY <1>1, <1>2, <1>3, <1>4

\* Type correctness, whatever keys of the cluster an earlier run left in memcached.
THEOREM TypeCorrect == Leftover \subseteq AllKeys => (Spec => []TypeOK)
  <1> SUFFICES ASSUME Leftover \subseteq AllKeys PROVE Spec => []TypeOK
    OBVIOUS
  <1>1. Init => StepsOK /\ KeysInv
    BY InitIs
  <1>2. StepsOK /\ KeysInv /\ [Next]_vars => (StepsOK /\ KeysInv)'
    BY StepsStep, KeysStep
  <1>3. ASSUME StepsOK, KeysInv PROVE TypeOK
    <2>1. \A n \in Nodes : step[n] \in 0 .. Len(Constructor[n])
      BY <1>3, OthersIs, ConstructorIs, EndsAre DEF StepsOK
    <2> QED BY <1>3, <2>1 DEF TypeOK, KeysInv
  <1> QED BY <1>1, <1>2, <1>3, PTL DEF Spec

\* Whatever is left in memcached, a queue pair is only ever connected to the
\* one that is connected to it: wkey_helper and rkey_helper agree on the names.
THEOREM ConnectionsAreMutual == Spec => []WiringIsMutual
  <1>1. Init => StepsOK /\ WiringInv
    BY InitIs
  <1>2. StepsOK /\ WiringInv /\ [Next]_vars => (StepsOK /\ WiringInv)'
    BY StepsStep, WiringStep
  <1>3. ASSUME WiringInv PROVE WiringIsMutual
    BY <1>3, PartnersAreMutual DEF WiringInv, WiringIsMutual
  <1> QED BY <1>1, <1>2, <1>3, PTL DEF Spec

\* A region that a writer aims at is one that its peer registered for it, and
\* the queue pair it writes through leads to that peer.
THEOREM WritesGoToThePeer == Spec => []WritesReachTheirPeer
  <1>1. Init => StepsOK /\ WiringInv
    BY InitIs
  <1>2. StepsOK /\ WiringInv /\ [Next]_vars => (StepsOK /\ WiringInv)'
    BY StepsStep, WiringStep
  <1>3. ASSUME WiringInv PROVE WritesReachTheirPeer
    <2> SUFFICES ASSUME NEW u \in DOMAIN target, u[3] \in {"rply", "rcvr"}
                 PROVE  /\ Publisher(target[u]) = u[2]
                        /\ target[u][2] = u[1]
                        /\ LET qp == IF u[3] = "rply" THEN "qp-rpli" ELSE "qp-chkr"
                               mine == wkey(qp, u[1], u[2])
                           IN  mine \in DOMAIN peer_of => Publisher(peer_of[mine]) = u[2]
      BY DEF WritesReachTheirPeer
    <2>1. AimsAt(u, target[u])
      BY <1>3 DEF WiringInv
    <2>2. PICK n \in Nodes, p \in Nodes :
            /\ p \in Peers(n)
            /\ \/ u = <<n, p, "rply">> /\ target[u] = <<"mr-rply", n, p>>
               \/ u = <<n, p, "rcvr">> /\ target[u] = <<"mr-rcvr", n, p>>
      BY <2>1 DEF AimsAt, Peers
    <2>3. CASE u = <<n, p, "rply">> /\ target[u] = <<"mr-rply", n, p>>
      <3>1. Publisher(<<"mr-rply", n, p>>) = p /\ Publisher(<<"qp-rply", n, p>>) = p
        BY <2>2, PublisherIs
      <3>2. ASSUME <<"qp-rpli", n, p>> \in DOMAIN peer_of PROVE peer_of[<<"qp-rpli", n, p>>] = <<"qp-rply", n, p>>
        BY <1>3, <3>2 DEF WiringInv, Partner
      <3> QED BY <2>3, <3>1, <3>2 DEF wkey
    <2>4. CASE u = <<n, p, "rcvr">> /\ target[u] = <<"mr-rcvr", n, p>>
      <3>1. Publisher(<<"mr-rcvr", n, p>>) = p /\ Publisher(<<"qp-rcvr", n, p>>) = p
        BY <2>2, PublisherIs
      <3>2. ASSUME <<"qp-chkr", n, p>> \in DOMAIN peer_of PROVE peer_of[<<"qp-chkr", n, p>>] = <<"qp-rcvr", n, p>>
        BY <1>3, <3>2 DEF WiringInv, Partner
      <3> QED BY <2>4, <3>1, <3>2 DEF wkey
    <2> QED BY <2>2, <2>3, <2>4
  <1> QED BY <1>1, <1>2, <1>3, PTL DEF Spec

\* If no barrier key is left from an earlier run, nobody withdraws a key
\* before everybody has fetched all of theirs.
THEOREM KeysAreFetchedFirst == NoBarrierKey => (Spec => []WithdrawnKeysWereFetched)
  <1> SUFFICES ASSUME NoBarrierKey PROVE Spec => []WithdrawnKeysWereFetched
    OBVIOUS
  <1>1. Init => StepsOK /\ BarrierInv
    BY InitIs
  <1>2. StepsOK /\ BarrierInv /\ [Next]_vars => (StepsOK /\ BarrierInv)'
    BY StepsStep, BarrierStep
  <1>3. ASSUME StepsOK, BarrierInv PROVE WithdrawnKeysWereFetched
    <2> SUFFICES ASSUME NEW n \in Nodes, NEW m \in Nodes, NEW k \in 1 .. step[n], Constructor[n][k].op = "del",
                        NEW i \in step[m] + 1 .. Len(Constructor[m])
                 PROVE  Constructor[m][i].op \notin {"join", "aim"}
      BY DEF WithdrawnKeysWereFetched, Made
    <2>1. step[n] \in Nat /\ step[m] \in Nat /\ step[n] <= End(Others) /\ step[m] <= End(Others)
      BY <1>3 DEF StepsOK
    <2>2. k \in 1 .. End(Others) /\ i \in 1 .. End(Others)
      <3>1. Len(Constructor[m]) = End(Others)
        BY OthersIs, ConstructorIs
      <3> QED BY <2>1, <3>1, EndsAre
    <2>3. InItsPart(n, Others, k) /\ InItsPart(m, Others, i)
      BY <2>2, OthersIs, ConstructorIs
    <2>4. k > BarrierEnd(Others)
      <3>1. PICK c : c = Constructor[n][k] /\ c.op = "del"
        OBVIOUS
      <3>2. c \notin PublishCalls(n) /\ c \notin ConnectCalls(n) /\ c \notin BarrierCalls(n)
        BY <3>1 DEF PublishCalls, ConnectCalls, FetchedFor, BarrierCalls, AwaitCalls, Call, Join, Aim
      <3> QED BY <2>2, <2>3, <3>1, <3>2, EndsAre DEF InItsPart
    <2>5. Connected(m)
      <3>1. CASE m = n
        BY <2>1, <2>4, <3>1, EndsAre DEF Connected
      <3>2. CASE m # n
        <4>1. m \in Peers(n) /\ Call("await", WaitKey(m)) \in AwaitCalls(n)
          BY <3>2 DEF Peers, AwaitCalls
        <4>2. PICK j \in 1 .. BarrierEnd(Others) : AwaitedBy(n, j, m)
          BY <4>1, OthersIs, ConstructorIs DEF AwaitedBy
        <4>3. j \in 1 .. step[n]
          BY <2>1, <2>4, EndsAre
        <4> QED BY <1>3, <4>1, <4>2, <4>3 DEF BarrierInv
      <3> QED BY <3>1, <3>2
    <2>6. i > ConnectEnd(Others)
      BY <2>1, <2>5, EndsAre DEF Connected
    <2>7. Constructor[m][i] \in BarrierCalls(m) \/ Constructor[m][i] \in WithdrawCalls(m)
      BY <2>2, <2>3, <2>6, EndsAre DEF InItsPart
    <2> QED BY <2>7 DEF BarrierCalls, AwaitCalls, WithdrawCalls, WithdrawnFor, Call
  <1> QED BY <1>1, <1>2, <1>3, PTL DEF Spec
===============================================================================
