---------------------------- MODULE ScotConnection -----------------------------
(***************************************************************************)
(* The constructor of ScotConnection on every node (scot-conn.cc): nodes   *)
(* publish their queue pairs and memory regions in memcached, fetch those  *)
(* of the others, connect, meet at a barrier, and withdraw their keys.     *)
(*                                                                         *)
(* A key is <<resource, writing node, reading node>>: wkey_helper, called  *)
(* by the writing side, and rkey_helper, called by the reading side, both  *)
(* put the writing node first.  A queue pair is named by the key it was    *)
(* published under.  A node's constructor is straight-line code and is     *)
(* modelled as a sequence of calls to memcached, one action per call;      *)
(* fetching or awaiting a key blocks until somebody has published it.      *)
(***************************************************************************)
EXTENDS Integers, Sequences

CONSTANTS QuorumSize,  \* SCOT_QSIZE
          Leftover     \* keys in memcached before the first node starts

ASSUME QuorumSizeAssumption == QuorumSize \in Nat \ {0}

VARIABLES store,       \* keys in memcached
          step,        \* node -> number of calls it has made
          peer_of,     \* queue pair -> queue pair it is connected to
          target       \* <<node, peer, resource>> -> region its writes go to

vars == <<store, step, peer_of, target>>

Nodes == 0 .. QuorumSize - 1
wkey(resource, local, remote) == <<resource, local, remote>>
\* Faults, which no specification uses: the order of the ids is not swapped;
\* below, the receiver connects to the replicator (copied line), the barrier
\* is not awaited, a key is not published, a binding keeps one of the two ids.
RkeyUnswapped(resource, local, remote) == <<resource, local, remote>>
rkey(resource, local, remote) == <<resource, remote, local>>
WaitKey(n) == <<"wait", n, n>>
Scoreboard(n) == <<"mr-hbtr", n, n>>

\* quroum_conns: the other nodes in the order of their ids.
Quorum(n) == [i \in 1 .. QuorumSize - 1 |-> IF i <= n THEN i - 1 ELSE i]

\* A loop over quroum_conns, round[p] being the calls of the round for p.
ForPeers(n, round) ==
  LET width == Len(round[n]) IN
  [i \in 1 .. width * (QuorumSize - 1) |->
     round[Quorum(n)[1 + (i - 1) \div width]][1 + ((i - 1) % width)]]

Call(op, key) == [op |-> op, key |-> key, use |-> <<>>]
\* The fetched queue pair is connected to the local one `use`.
Join(use, key) == [op |-> "join", key |-> key, use |-> use]
\* The fetched region becomes the target `use` of this node's writes.
Aim(use, key) == [op |-> "aim", key |-> key, use |-> use]

PublishNoHeartbeat(n) ==
  <<Call("push", Scoreboard(n))>> \o
  ForPeers(n, [p \in Nodes |->
    <<Call("push", wkey("qp-rpli", n, p)), Call("push", wkey("qp-chkr", n, p)),
      Call("push", rkey("qp-rply", n, p)), Call("push", rkey("mr-rply", n, p)),
      Call("push", rkey("qp-rcvr", n, p)), Call("push", rkey("mr-rcvr", n, p))>>])

ConnectCopied(n) ==
  ForPeers(n, [p \in Nodes |->
    <<Join(wkey("qp-rpli", n, p), wkey("qp-rply", n, p)),
      Join(wkey("qp-chkr", n, p), wkey("qp-rcvr", n, p)),
      Join(rkey("qp-rply", n, p), rkey("qp-rpli", n, p)),
      Join(rkey("qp-rcvr", n, p), rkey("qp-rpli", n, p))>>])

BarrierUnawaited(n) == <<Call("push", WaitKey(n))>>

\* __init_hartebeest.
Publish(n) ==
  <<Call("push", Scoreboard(n))>> \o
  ForPeers(n, [p \in Nodes |->
    <<Call("push", wkey("qp-rpli", n, p)), Call("push", wkey("qp-chkr", n, p)),
      Call("push", rkey("qp-rply", n, p)), Call("push", rkey("mr-rply", n, p)),
      Call("push", rkey("qp-rcvr", n, p)), Call("push", rkey("mr-rcvr", n, p)),
      Call("push", wkey("qp-hbtr", n, p))>>])

\* __connect_qps.  The scoreboard fetched is the node's own.
Connect(n) ==
  ForPeers(n, [p \in Nodes |->
    <<Aim(<<n, p, "rply">>, wkey("mr-rply", n, p)),
      Join(wkey("qp-rpli", n, p), wkey("qp-rply", n, p)),
      Aim(<<n, p, "rcvr">>, wkey("mr-rcvr", n, p)),
      Join(wkey("qp-chkr", n, p), wkey("qp-rcvr", n, p)),
      Join(rkey("qp-rply", n, p), rkey("qp-rpli", n, p)),
      Join(rkey("qp-rcvr", n, p), rkey("qp-chkr", n, p)),
      Aim(<<n, p, "hbtr">>, Scoreboard(n)),
      Join(wkey("qp-hbtr", n, p), rkey("qp-hbtr", n, p))>>])

\* __wait_connection.
Barrier(n) ==
  <<Call("push", WaitKey(n))>> \o ForPeers(n, [p \in Nodes |-> <<Call("await", WaitKey(p))>>])

\* __finalize_hartebeest.  The keys of barrier and heartbeat stay behind.
Withdraw(n) ==
  ForPeers(n, [p \in Nodes |->
    <<Call("del", wkey("qp-rpli", n, p)), Call("del", wkey("qp-chkr", n, p)),
      Call("del", rkey("qp-rply", n, p)), Call("del", rkey("qp-rcvr", n, p)),
      Call("del", rkey("mr-rply", n, p)), Call("del", rkey("mr-rcvr", n, p))>>])

Constructor == [n \in Nodes |-> Publish(n) \o Connect(n) \o Barrier(n) \o Withdraw(n)]
Calls(n) == {Constructor[n][i] : i \in DOMAIN Constructor[n]}
Done(n) == step[n] = Len(Constructor[n])
NextCall(n) == Constructor[n][step[n] + 1]

Init ==
  /\ store = Leftover
  /\ step = [n \in Nodes |-> 0]
  /\ peer_of = [q \in {} |-> q]
  /\ target = [u \in {} |-> u]

Return(n) == step' = [step EXCEPT ![n] = @ + 1]
BindHalf(f, x, y) ==
  [z \in DOMAIN f \cup {x} |-> IF z = x THEN <<y[1], y[2], y[2]>> ELSE f[z]]
Bind(f, x, y) == [z \in DOMAIN f \cup {x} |-> IF z = x THEN y ELSE f[z]]

Push(n) ==
  /\ ~Done(n) /\ NextCall(n).op = "push"
  /\ store' = store \cup {NextCall(n).key}
  /\ Return(n)
  /\ UNCHANGED <<peer_of, target>>

Delete(n) ==
  /\ ~Done(n) /\ NextCall(n).op = "del"
  /\ store' = store \ {NextCall(n).key}
  /\ Return(n)
  /\ UNCHANGED <<peer_of, target>>

FetchQp(n) ==
  /\ ~Done(n) /\ NextCall(n).op = "join"
  /\ NextCall(n).key \in store
  /\ peer_of' = Bind(peer_of, NextCall(n).use, NextCall(n).key)
  /\ Return(n)
  /\ UNCHANGED <<store, target>>

FetchMr(n) ==
  /\ ~Done(n) /\ NextCall(n).op = "aim"
  /\ NextCall(n).key \in store
  /\ target' = Bind(target, NextCall(n).use, NextCall(n).key)
  /\ Return(n)
  /\ UNCHANGED <<store, peer_of>>

Await(n) ==
  /\ ~Done(n) /\ NextCall(n).op = "await"
  /\ NextCall(n).key \in store
  /\ Return(n)
  /\ UNCHANGED <<store, peer_of, target>>

NodeStep(n) == Push(n) \/ Delete(n) \/ FetchQp(n) \/ FetchMr(n) \/ Await(n)
Next == \E n \in Nodes : NodeStep(n)

Spec == Init /\ [][Next]_vars

(***************************************************************************)
(* Properties.                                                             *)
(***************************************************************************)
Made(n) == {Constructor[n][i] : i \in 1 .. step[n]}
Publisher(key) == CHOOSE n \in Nodes : Call("push", key) \in Calls(n)

AllKeys == UNION {{c.key : c \in Calls(n)} : n \in Nodes}

TypeOK ==
  /\ store \subseteq AllKeys
  /\ \A n \in Nodes : step[n] \in 0 .. Len(Constructor[n])
  /\ DOMAIN peer_of \subseteq AllKeys /\ peer_of \in [DOMAIN peer_of -> AllKeys]
  /\ target \in [DOMAIN target -> AllKeys]

\* Connections are mutual: the queue pair my queue pair is connected to is
\* connected to mine, or to nothing yet (wkey_helper against rkey_helper).
WiringIsMutual ==
  \A q \in DOMAIN peer_of :
    peer_of[q] \in DOMAIN peer_of => peer_of[peer_of[q]] = q

\* The region a writer aims at was registered by the node its queue pair
\* leads to, for this writer.
WritesReachTheirPeer ==
  \A u \in DOMAIN target : u[3] \in {"rply", "rcvr"} =>
    /\ Publisher(target[u]) = u[2]
    /\ target[u][2] = u[1]
    /\ LET qp == IF u[3] = "rply" THEN "qp-rpli" ELSE "qp-chkr"
           mine == wkey(qp, u[1], u[2])
       IN  mine \in DOMAIN peer_of => Publisher(peer_of[mine]) = u[2]

\* No key is withdrawn while another node has yet to fetch it: the barrier
\* comes after everybody's fetches.
WithdrawnKeysWereFetched ==
  \A n, m \in Nodes : \A c \in Made(n) : c.op = "del" =>
    \A i \in step[m] + 1 .. Len(Constructor[m]) :
      Constructor[m][i].op \in {"join", "aim"} => Constructor[m][i].key # c.key
===============================================================================
