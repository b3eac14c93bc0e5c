--------------------------- MODULE ScotClusterProofs ---------------------------

(***************************************************************************)
(* Proofs about ScotCluster for any number of nodes, threads, keys, rules  *)
(* and proposals, and whichever links break.                               *)
(***************************************************************************)
EXTENDS ScotCluster, WellFoundedInduction, TLAPS

\* The part of write_request between setting wait_hashv and clearing it.
Asking(t) == pc[t] \in {"post", "clear"}

\* The parts of the type invariant that the checker's variables need.
CallsTyped ==
  /\ proposals \in Seq([thread : Threads, key : Keys, owner : Nodes])
  /\ DOMAIN pc = Callers /\ DOMAIN mine = Callers
  /\ DOMAIN wait_hashv = Nodes
  /\ \A t \in Threads : pc[t] # "idle" => mine[t] \in DOMAIN proposals

\* WaitIsCurrent is inductive once the calls are known to be well formed.
WaitInductive == CallsTyped /\ WaitIsCurrent

\* A cluster that has just been built waits for nothing.
LEMMA WaitInit == Init => WaitInductive
  BY NodesAssumption DEF Init, WaitInductive, CallsTyped, WaitIsCurrent, Callers, Nodes

\* A step that leaves proposals, waits and the threads' locals alone.
LEMMA WaitKept ==
  ASSUME WaitInductive, UNCHANGED <<proposals, wait_hashv>>,
         DOMAIN pc' = Callers, DOMAIN mine' = Callers,
         \A t \in Threads : mine'[t] = mine[t],
         \A t \in Threads : pc'[t] # "idle" => pc[t] # "idle",
         \A t \in Threads : Asking(t) => Asking(t)'
  PROVE  WaitInductive'
  <1>1. CallsTyped'
    BY DEF WaitInductive, CallsTyped
  <1>2. WaitIsCurrent'
    <2> SUFFICES ASSUME NEW n \in Nodes, wait_hashv[n] # Nobody
                 PROVE  \E t \in Threads : /\ NodeOf[t] = n
                                           /\ Asking(t)'
                                           /\ wait_hashv[n] = Key(mine[t])'
      BY DEF WaitIsCurrent, Asking
    <2>1. PICK t \in Threads : /\ NodeOf[t] = n /\ Asking(t)
                               /\ wait_hashv[n] = Key(mine[t])
      BY DEF WaitInductive, WaitIsCurrent, Asking
    <2>2. mine'[t] = mine[t] /\ Asking(t)'
      BY <2>1
    <2>3. Key(mine[t])' = Key(mine[t])
      BY <2>2 DEF Key
    <2> QED BY <2>1, <2>2, <2>3
  <1> QED BY <1>1, <1>2 DEF WaitInductive

\* A new proposal is at nobody's wait yet, and earlier ones keep their keys.
LEMMA WaitPropose ==
  ASSUME WaitInductive, NEW u \in Threads, NEW k \in Keys, NEW rule \in Rules,
         Propose(u, k, rule)
  PROVE  WaitInductive'
  <1> DEFINE new == [thread |-> u, key |-> k, owner |-> rule[k]]
  <1>1. /\ proposals \in Seq([thread : Threads, key : Keys, owner : Nodes])
        /\ new \in [thread : Threads, key : Keys, owner : Nodes]
        /\ proposals' = Append(proposals, new)
        /\ \A t \in Threads : t \in DOMAIN pc /\ t \in DOMAIN mine
    BY RulesAssumption DEF WaitInductive, CallsTyped, Propose, Judge, Callers
  <1> HIDE DEF new
  <1>2. /\ DOMAIN proposals \subseteq DOMAIN proposals'
        /\ \A i \in DOMAIN proposals : proposals'[i] = proposals[i]
        /\ Len(proposals') \in DOMAIN proposals'
        /\ proposals' \in Seq([thread : Threads, key : Keys, owner : Nodes])
    BY <1>1
  <1>3. /\ \A t \in Threads \ {u} : pc'[t] = pc[t] /\ mine'[t] = mine[t]
        /\ mine'[u] = Len(proposals') /\ pc[u] = "idle"
        /\ DOMAIN pc' = Callers /\ DOMAIN mine' = Callers
        /\ UNCHANGED wait_hashv
    BY <1>1 DEF Propose, Goto, waits, WaitInductive, CallsTyped
  <1>4. CallsTyped'
    BY <1>1, <1>2, <1>3 DEF WaitInductive, CallsTyped
  <1>5. WaitIsCurrent'
    <2> SUFFICES ASSUME NEW n \in Nodes, wait_hashv[n] # Nobody
                 PROVE  \E t \in Threads : /\ NodeOf[t] = n
                                           /\ pc'[t] \in {"post", "clear"}
                                           /\ wait_hashv[n] = proposals'[mine'[t]].key
      BY <1>3 DEF WaitIsCurrent, Key
    <2>1. PICK t \in Threads : /\ NodeOf[t] = n /\ pc[t] \in {"post", "clear"}
                               /\ wait_hashv[n] = proposals[mine[t]].key
      BY DEF WaitInductive, WaitIsCurrent, Key
    <2>2. t # u /\ mine[t] \in DOMAIN proposals
      BY <2>1, <1>3 DEF WaitInductive, CallsTyped
    <2> QED BY <2>1, <2>2, <1>2, <1>3
  <1> QED BY <1>4, <1>5 DEF WaitInductive

\* The thread that sets wait_hashv stays at its call until it clears it.
LEMMA WaitAsk ==
  ASSUME WaitInductive, NEW u \in Threads, Ask(u)
  PROVE  WaitInductive'
  <1>1. /\ UNCHANGED <<proposals, mine>> /\ DOMAIN pc' = Callers
        /\ \A t \in Threads \ {u} : pc'[t] = pc[t]
        /\ pc[u] = "ask" /\ pc'[u] = "post"
        /\ DOMAIN wait_hashv' = Nodes
        /\ wait_hashv'[NodeOf[u]] = Key(mine[u])
        /\ \A n \in Nodes \ {NodeOf[u]} : wait_hashv'[n] = wait_hashv[n]
    BY ThreadsAssumption DEF Ask, Goto, WaitInductive, CallsTyped, Callers
  <1>2. CallsTyped'
    BY <1>1 DEF WaitInductive, CallsTyped
  <1>3. WaitIsCurrent'
    <2> SUFFICES ASSUME NEW n \in Nodes, wait_hashv'[n] # Nobody
                 PROVE  \E t \in Threads : /\ NodeOf[t] = n
                                           /\ pc'[t] \in {"post", "clear"}
                                           /\ wait_hashv'[n] = Key(mine[t])
      BY <1>1 DEF WaitIsCurrent, Key
    <2>1. CASE n = NodeOf[u]
      BY <1>1, <2>1
    <2>2. CASE n # NodeOf[u]
      <3>1. PICK t \in Threads : /\ NodeOf[t] = n /\ pc[t] \in {"post", "clear"}
                                 /\ wait_hashv[n] = Key(mine[t])
        BY <1>1, <2>2 DEF WaitInductive, WaitIsCurrent
      <3> QED BY <3>1, <1>1, <2>2
    <2> QED BY <2>1, <2>2
  <1> QED BY <1>2, <1>3 DEF WaitInductive

\* Whoever clears wait_hashv, nothing is waited for at that node any more.
LEMMA WaitClear ==
  ASSUME WaitInductive, NEW u \in Threads, ClearWait(u)
  PROVE  WaitInductive'
  <1>1. /\ UNCHANGED <<proposals, mine>> /\ DOMAIN pc' = Callers
        /\ \A t \in Threads \ {u} : pc'[t] = pc[t]
        /\ pc[u] = "clear"
        /\ DOMAIN wait_hashv' = Nodes
        /\ wait_hashv'[NodeOf[u]] = Nobody
        /\ \A n \in Nodes \ {NodeOf[u]} : wait_hashv'[n] = wait_hashv[n]
    BY ThreadsAssumption DEF ClearWait, Goto, WaitInductive, CallsTyped, Callers
  <1>2. CallsTyped'
    BY <1>1 DEF WaitInductive, CallsTyped
  <1>3. WaitIsCurrent'
    <2> SUFFICES ASSUME NEW n \in Nodes, wait_hashv'[n] # Nobody
                 PROVE  \E t \in Threads : /\ NodeOf[t] = n
                                           /\ pc'[t] \in {"post", "clear"}
                                           /\ wait_hashv'[n] = Key(mine[t])
      BY <1>1 DEF WaitIsCurrent, Key
    <2>1. n # NodeOf[u]
      BY <1>1
    <2>2. PICK t \in Threads : /\ NodeOf[t] = n /\ pc[t] \in {"post", "clear"}
                               /\ wait_hashv[n] = Key(mine[t])
      BY <1>1, <2>1 DEF WaitInductive, WaitIsCurrent
    <2> QED BY <2>1, <2>2, <1>1
  <1> QED BY <1>2, <1>3 DEF WaitInductive

\* The inductive step: one case per action of the cluster.
LEMMA WaitStep ==
  ASSUME WaitInductive, [Next]_vars
  PROVE  WaitInductive'
  <1>1. ASSUME NEW t \in Threads, NEW k \in Keys, NEW rule \in Rules, Propose(t, k, rule)
        PROVE  WaitInductive'
    BY <1>1, WaitPropose
  <1>2. ASSUME NEW kind, NEW l \in Links, Break(kind, l)
        PROVE  WaitInductive'
    BY <1>2, WaitKept DEF Break, waits, Asking, WaitInductive, CallsTyped
  <1>3. ASSUME NEW c \in Callers, Continue(c)
        PROVE  WaitInductive'
    <2> USE DEF Goto, waits, Asking, WaitInductive, CallsTyped
    <2>1. CASE Link(c)
      BY <2>1, WaitKept DEF Link, Callers
    <2>2. CASE WriteLog(c)
      BY <2>2, WaitKept DEF WriteLog, Callers
    <2>3. CASE Return(c)
      BY <2>3, WaitKept DEF Return, Callers
    <2>4. CASE c \in Threads /\ Ask(c)
      BY <2>4, WaitAsk
    <2>5. CASE c \in Threads /\ PostAsk(c)
      BY <2>5, WaitKept DEF PostAsk
    <2>6. CASE c \in Threads /\ EndAsk(c)
      BY <2>6, WaitKept DEF EndAsk, Callers
    <2>7. CASE c \in Threads /\ ClearWait(c)
      BY <2>7, WaitClear
    <2> QED BY <1>3, <2>1, <2>2, <2>3, <2>4, <2>5, <2>6, <2>7 DEF Continue
  <1>4. ASSUME NEW l \in Links, LinkStep(l)
        PROVE  WaitInductive'
    <2> USE DEF Goto, waits, Asking, WaitInductive, CallsTyped
    <2>1. CASE Receive(l)
      BY <2>1, WaitKept, ThreadsAssumption DEF Receive, Receivers, Callers
    <2>2. CASE Replay(l)
      BY <2>2, WaitKept DEF Replay
    <2>3. CASE Arrive(l)
      BY <2>3, WaitKept DEF Arrive
    <2>4. CASE ArriveAsk(l)
      BY <2>4, WaitKept DEF ArriveAsk
    <2> QED BY <1>4, <2>1, <2>2, <2>3, <2>4 DEF LinkStep
  <1>5. CASE UNCHANGED vars
    BY <1>5, WaitKept DEF vars, waits, Asking, WaitInductive, CallsTyped
  <1> QED BY <1>1, <1>2, <1>3, <1>4, <1>5 DEF Next, Progress

\* For every cluster, the hash value a checker waits for is that of a proposal
\* that is being made on its node (wait_hashv, scot-chkr.cc:71 and 127).
THEOREM WaitsAreCurrent == Spec => []WaitIsCurrent
  <1>1. Init => WaitInductive
    BY WaitInit
  <1>2. WaitInductive /\ [Next]_vars => WaitInductive'
    BY WaitStep
  <1>3. WaitInductive => WaitIsCurrent
    BY DEF WaitInductive
  <1> QED BY <1>1, <1>2, <1>3, PTL DEF Spec

(***************************************************************************)
(* The invariant behind the other properties comes in layers, each proved  *)
(* with the help of those before it.                                       *)
(*                                                                         *)
(* Callers: a thread that is busy works on the last of its proposals.      *)
(***************************************************************************)
Proposals == [thread : Threads, key : Keys, owner : Nodes]
Writing == {"link", "log", "poll"}
Labels == {"idle", "link", "log", "poll", "ask", "post", "clear"}

CallTypes ==
  /\ proposals \in Seq(Proposals) /\ Len(proposals) <= MaxProposals
  /\ pc \in [Callers -> Labels]
  /\ DOMAIN mine = Callers
  /\ \A t \in Threads : mine[t] \in {0} \cup DOMAIN proposals

CallsOwned ==
  /\ \A l \in Links : pc[l] \in Writing \cup {"idle"}
  /\ \A t \in Threads :
       /\ mine[t] # 0 => proposals[mine[t]].thread = t
       /\ pc[t] # "idle" => mine[t] # 0 /\ (pc[t] \in Writing <=> Owner(mine[t]) = NodeOf[t])
  /\ \A id \in DOMAIN proposals : id <= mine[proposals[id].thread]

Calls == CallTypes /\ CallsOwned

USE DEF Goto, replicators, replayers, checkers, waits, receivers

\* Who the callers are, and where.
LEMMA CallersAre ==
  /\ Callers = Threads \cup Links
  /\ \A t \in Threads : t \notin Links /\ NodeOf[t] \in Nodes /\ Home(t) = NodeOf[t]
  /\ \A l \in Links : /\ l \notin Threads /\ Home(l) = l[2] /\ l = <<l[1], l[2]>>
                      /\ l[1] \in Nodes /\ l[2] \in Nodes /\ l[1] # l[2]
  BY ThreadsAssumption DEF Callers, Receivers, Links, Home

\* A cluster that has just been built has no proposals.
LEMMA CallsInit == Init => Calls
  BY CallersAre, BoundsAssumption DEF Init, Calls, CallTypes, CallsOwned, Labels, Writing

\* Steps that make no proposal.
LEMMA CallsKept ==
  ASSUME Calls, UNCHANGED proposals, DOMAIN mine' = Callers,
         \A t \in Threads : mine'[t] = mine[t],
         pc' \in [Callers -> Labels],
         \A l \in Links : pc'[l] \in Writing \cup {"idle"},
         \A t \in Threads : pc'[t] # "idle" =>
           pc[t] # "idle" /\ (pc'[t] \in Writing <=> pc[t] \in Writing)
  PROVE  Calls'
  <1>1. CallTypes'
    BY DEF Calls, CallTypes, Proposals
  <1>2. ASSUME NEW t \in Threads
        PROVE  /\ mine'[t] # 0 => proposals[mine'[t]].thread = t
               /\ pc'[t] # "idle" => mine'[t] # 0 /\ (pc'[t] \in Writing <=> Owner(mine[t])' = NodeOf[t])
    <2>1. mine'[t] = mine[t] /\ Owner(mine[t])' = Owner(mine[t])
      BY DEF Owner
    <2> QED BY <2>1 DEF Calls, CallsOwned
  <1>3. \A id \in DOMAIN proposals : id <= mine'[proposals[id].thread]
    <2> SUFFICES ASSUME NEW id \in DOMAIN proposals PROVE id <= mine'[proposals[id].thread]
      OBVIOUS
    <2>1. proposals[id] \in Proposals
      BY DEF Calls, CallTypes
    <2>2. proposals[id].thread \in Threads
      BY <2>1 DEF Proposals
    <2> QED BY <2>2 DEF Calls, CallsOwned
  <1> QED BY <1>1, <1>2, <1>3 DEF Calls, CallsOwned, Owner

\* propose makes the new proposal the last of its thread.
LEMMA CallsPropose ==
  ASSUME Calls, NEW t \in Threads, NEW k \in Keys, NEW rule \in Rules, Propose(t, k, rule)
  PROVE  Calls'
  <1> DEFINE new == [thread |-> t, key |-> k, owner |-> rule[k]]
             next == Len(proposals) + 1
  <1>1. /\ proposals' = Append(proposals, new) /\ new \in Proposals
        /\ new.thread = t /\ new.owner = rule[k]
        /\ Len(proposals) < MaxProposals /\ Len(proposals) \in Nat /\ proposals \in Seq(Proposals)
        /\ mine' = [mine EXCEPT ![t] = Len(proposals')]
        /\ pc[t] = "idle" /\ pc' = [pc EXCEPT ![t] = IF rule[k] = NodeOf[t] THEN "link" ELSE "ask"]
    BY RulesAssumption DEF Propose, Judge, Proposals, Calls, CallTypes
  <1> HIDE DEF new
  <1>2. PICK n : n = next
    OBVIOUS
  <1>3. /\ proposals' \in Seq(Proposals) /\ Len(proposals') = n /\ n <= MaxProposals
        /\ DOMAIN proposals' = DOMAIN proposals \cup {n}
        /\ n \in DOMAIN proposals' /\ n \notin DOMAIN proposals /\ n # 0 /\ proposals'[n] = new
        /\ \A i \in DOMAIN proposals : proposals'[i] = proposals[i] /\ i <= n
    BY <1>1, <1>2, BoundsAssumption
  <1>4. /\ \A u \in Callers \ {t} : mine'[u] = mine[u] /\ pc'[u] = pc[u]
        /\ mine'[t] = n /\ pc'[t] = IF rule[k] = NodeOf[t] THEN "link" ELSE "ask"
        /\ pc' \in [Callers -> Labels] /\ DOMAIN mine' = Callers
    BY <1>1, <1>3, CallersAre DEF Calls, CallTypes, Labels
  <1>5. CallTypes'
    <2>1. \A u \in Threads : mine'[u] \in {0} \cup DOMAIN proposals'
      BY <1>3, <1>4, CallersAre DEF Calls, CallTypes
    <2> QED BY <1>3, <1>4, <2>1 DEF CallTypes, Proposals
  <1>6. \A u \in Threads \ {t} :
          /\ mine'[u] # 0 => proposals'[mine'[u]].thread = u
          /\ pc'[u] # "idle" => mine'[u] # 0 /\ (pc'[u] \in Writing <=> proposals'[mine'[u]].owner = NodeOf[u])
    BY <1>3, <1>4, CallersAre DEF Calls, CallTypes, CallsOwned, Owner
  <1>7. /\ proposals'[mine'[t]].thread = t
        /\ mine'[t] # 0 /\ (pc'[t] \in Writing <=> proposals'[mine'[t]].owner = NodeOf[t])
    BY <1>1, <1>3, <1>4 DEF Writing
  <1>8. \A id \in DOMAIN proposals' : id <= mine'[proposals'[id].thread]
    <2> SUFFICES ASSUME NEW id \in DOMAIN proposals' PROVE id <= mine'[proposals'[id].thread]
      OBVIOUS
    <2>1. CASE proposals'[id].thread = t
      BY <1>3, <1>4, <2>1
    <2>2. CASE proposals'[id].thread # t
      <3>1. id \in DOMAIN proposals /\ proposals'[id] = proposals[id] /\ proposals[id] \in Proposals
        BY <1>1, <1>3, <2>2
      <3>2. proposals[id].thread \in Callers \ {t}
        BY <3>1, <2>2, CallersAre DEF Proposals
      <3> QED BY <3>1, <3>2, <1>4 DEF Calls, CallsOwned
    <2> QED BY <2>1, <2>2
  <1>9. \A l \in Links : pc'[l] \in Writing \cup {"idle"}
    BY <1>4, CallersAre DEF Calls, CallsOwned
  <1> QED BY <1>5, <1>6, <1>7, <1>8, <1>9 DEF Calls, CallsOwned, Owner

\* Callers stay with their own proposals, whatever the others do.
LEMMA CallsStep == Calls /\ [Next]_vars => Calls'
  <1> SUFFICES ASSUME Calls, [Next]_vars PROVE Calls'
    OBVIOUS
  <1> USE DEF Calls, CallTypes, CallsOwned, Writing, Labels
  <1>1. ASSUME NEW c \in Callers, Link(c) \/ WriteLog(c) \/ Return(c) PROVE Calls'
    <2>1. UNCHANGED <<proposals, mine>> /\ pc[c] \in Writing
      BY <1>1 DEF Link, WriteLog, Return
    <2>2. PICK label \in Labels : pc' = [pc EXCEPT ![c] = label] /\ label \in Writing \cup {"idle"}
      BY <1>1 DEF Link, WriteLog, Return, Goto
    <2> QED BY <2>1, <2>2, CallsKept, CallersAre
  <1>2. ASSUME NEW t \in Threads, Ask(t) \/ EndAsk(t) \/ ClearWait(t) PROVE Calls'
    BY <1>2, CallsKept, CallersAre DEF Ask, EndAsk, ClearWait
  <1>3. ASSUME NEW l \in Links, Receive(l) PROVE Calls'
    <2>1. /\ UNCHANGED proposals
          /\ pc' = pc \/ pc' = [pc EXCEPT ![l] = "link"]
          /\ DOMAIN mine' = Callers /\ \A t \in Threads : mine'[t] = mine[t]
      BY <1>3, CallersAre DEF Receive, Goto
    <2> QED BY <2>1, CallsKept, CallersAre
  <1>4. CASE UNCHANGED <<proposals, pc, mine>>
    BY <1>4, CallsKept
  <1> QED BY <1>1, <1>2, <1>3, <1>4, CallsPropose, Zenon
          DEF Next, Progress, Continue, LinkStep, PostAsk, Replay, Arrive, ArriveAsk, Break, vars

\* Every busy thread works on the last proposal it made, at the place where
\* its owner is reached.
LEMMA CallsHold == Spec => []Calls
  BY CallsInit, CallsStep, PTL DEF Spec

(***************************************************************************)
(* Checkers: the holder of a checker's lock has its proposal in the header *)
(* and is the only one with writes on their way.                           *)
(***************************************************************************)
CheckerTypes ==
  /\ asker \in [Nodes -> Threads \cup {Nobody}]
  /\ header \in [Nodes -> Messages \cup {NoHeader}]
  /\ todo \in [Nodes -> Seq(Nodes)] /\ inflight \in [Nodes -> SUBSET Nodes]
  /\ inbox \in [Links -> Seq(Messages)]

CheckerLocked ==
  /\ \A n \in Nodes :
       /\ asker[n] # Nobody =>
            NodeOf[asker[n]] = n /\ pc[asker[n]] = "post" /\ header[n].id = mine[asker[n]]
       /\ asker[n] = Nobody => todo[n] = <<>> /\ inflight[n] = {}
  /\ \A t \in Threads : pc[t] = "post" => asker[NodeOf[t]] = t

Checkers == CheckerTypes /\ CheckerLocked

\* At first nobody asks.
LEMMA CheckersInit == Init => Checkers
  BY CallersAre DEF Init, Checkers, CheckerTypes, CheckerLocked

\* The header of a checker with a write on its way is that of a proposal.
LEMMA HeaderIsMessage ==
  ASSUME Calls, Checkers, NEW n \in Nodes, asker[n] # Nobody
  PROVE  /\ header[n] \in Messages
         /\ asker[n] \in Threads /\ NodeOf[asker[n]] = n /\ pc[asker[n]] = "post"
         /\ header[n].id = mine[asker[n]] /\ mine[asker[n]] \in DOMAIN proposals
         /\ proposals[mine[asker[n]]].thread = asker[n]
         /\ Owner(mine[asker[n]]) # n
  <1>1. PICK t \in Threads : t = asker[n]
    BY DEF Checkers, CheckerTypes
  <1>2. NodeOf[t] = n /\ pc[t] = "post" /\ header[n].id = mine[t]
    BY <1>1 DEF Checkers, CheckerLocked
  <1>3. mine[t] # 0 /\ mine[t] \in DOMAIN proposals /\ proposals[mine[t]].thread = t
        /\ Owner(mine[t]) # n
    BY <1>2 DEF Calls, CallTypes, CallsOwned, Writing
  <1>4. header[n] # NoHeader
    BY <1>2, <1>3 DEF NoHeader
  <1>5. header[n] \in Messages
    BY <1>4 DEF Checkers, CheckerTypes
  <1> QED BY <1>1, <1>2, <1>3, <1>5

\* Steps that leave the checkers alone.
LEMMA CheckersKept ==
  ASSUME Checkers, UNCHANGED <<checkers, inbox>>,
         \A t \in Threads : /\ pc'[t] = "post" <=> pc[t] = "post"
                            /\ pc[t] = "post" => mine'[t] = mine[t]
  PROVE  Checkers'
  <1>1. CheckerTypes'
    BY DEF Checkers, CheckerTypes
  <1>2. \A n \in Nodes : asker[n] \in Threads \cup {Nobody}
    BY DEF Checkers, CheckerTypes
  <1>3. CheckerLocked'
    BY <1>2 DEF Checkers, CheckerLocked
  <1> QED BY <1>1, <1>3 DEF Checkers

\* The peers to post to are all other nodes, each once.
LEMMA QuorumIs ==
  ASSUME NEW n \in Nodes
  PROVE  /\ Quorum(n) \in Seq(Nodes)
         /\ \A p \in Nodes \ {n} : \E i \in DOMAIN Quorum(n) : Quorum(n)[i] = p
         /\ \A i \in DOMAIN Quorum(n) : Quorum(n)[i] # n
         /\ \A i, j \in DOMAIN Quorum(n) : Quorum(n)[i] = Quorum(n)[j] => i = j
  <1> USE NodesAssumption DEF Quorum, Nodes
  <1>1. ASSUME NEW p \in Nodes \ {n} PROVE \E i \in DOMAIN Quorum(n) : Quorum(n)[i] = p
    <2>1. CASE p < n
      <3>1. p + 1 \in DOMAIN Quorum(n) /\ Quorum(n)[p + 1] = p
        BY <2>1
      <3> QED BY <3>1
    <2>2. CASE p > n
      <3>1. p \in DOMAIN Quorum(n) /\ Quorum(n)[p] = p
        BY <2>2
      <3> QED BY <3>1
    <2> QED BY <2>1, <2>2
  <1>2. Quorum(n) \in [1 .. NodeCount - 1 -> Nodes] /\ NodeCount - 1 \in Nat
    OBVIOUS
  <1>3. Quorum(n) \in Seq(Nodes)
    <2> HIDE DEF Quorum, Nodes
    <2> QED BY <1>2
  <1> QED BY <1>1, <1>3

\* A thread takes the lock with its own proposal.
LEMMA CheckersAsk ==
  ASSUME Calls, Checkers, NEW t \in Threads, Ask(t)
  PROVE  Checkers'
  <1> DEFINE n == NodeOf[t]
             new == [id |-> mine[t], msg |-> "WAIT"]
  <1>1. /\ n \in Nodes /\ pc[t] = "ask" /\ asker[n] = Nobody
        /\ asker' = [asker EXCEPT ![n] = t] /\ header' = [header EXCEPT ![n] = new]
        /\ todo' = [todo EXCEPT ![n] = Quorum(n)] /\ UNCHANGED <<inflight, inbox, mine>>
        /\ pc' = [pc EXCEPT ![t] = "post"]
    BY CallersAre DEF Ask
  <1>2. new \in Messages /\ new.id = mine[t]
    <2>1. mine[t] \in DOMAIN proposals /\ proposals \in Seq(Proposals) /\ Len(proposals) <= MaxProposals
      BY <1>1 DEF Calls, CallTypes, CallsOwned
    <2>2. mine[t] \in Ids
      BY <2>1, BoundsAssumption DEF Ids
    <2> QED BY <2>2 DEF Messages
  <1> HIDE DEF n, new
  <1>3. /\ asker'[n] = t /\ header'[n] = new /\ todo'[n] = Quorum(n)
        /\ \A m \in Nodes \ {n} : asker'[m] = asker[m] /\ header'[m] = header[m] /\ todo'[m] = todo[m]
        /\ pc'[t] = "post" /\ \A u \in Threads \ {t} : pc'[u] = pc[u]
    BY <1>1, CallersAre DEF Checkers, CheckerTypes, Calls, CallTypes
  <1>4. CheckerTypes'
    BY <1>1, <1>2, QuorumIs DEF Checkers, CheckerTypes, Messages
  <1>5. t # Nobody /\ NodeOf[t] = n
    BY NobodyAssumption, CallersAre DEF n
  <1>6. CheckerLocked'
    <2>1. ASSUME NEW m \in Nodes, m # n, asker[m] # Nobody
          PROVE  /\ asker[m] \in Threads \ {t} /\ NodeOf[asker[m]] = m /\ pc[asker[m]] = "post"
                 /\ header[m].id = mine[asker[m]]
      BY <2>1, <1>5 DEF Checkers, CheckerTypes, CheckerLocked
    <2>2. ASSUME NEW m \in Nodes, m # n
          PROVE  /\ asker'[m] # Nobody =>
                      NodeOf[asker'[m]] = m /\ pc'[asker'[m]] = "post" /\ header'[m].id = mine'[asker'[m]]
                 /\ asker'[m] = Nobody => todo'[m] = <<>> /\ inflight'[m] = {}
      BY <1>1, <1>3, <2>1, <2>2 DEF Checkers, CheckerLocked
    <2>3. /\ asker'[n] # Nobody /\ NodeOf[asker'[n]] = n /\ pc'[asker'[n]] = "post"
          /\ header'[n].id = mine'[asker'[n]]
      BY <1>1, <1>2, <1>3, <1>5
    <2>4. \A u \in Threads : pc'[u] = "post" => asker'[NodeOf[u]] = u
      <3> SUFFICES ASSUME NEW u \in Threads \ {t}, pc[u] = "post" PROVE asker'[NodeOf[u]] = u
        BY <1>3, <1>5
      <3>1. asker[NodeOf[u]] = u /\ NodeOf[u] \in Nodes /\ u # Nobody
        BY NobodyAssumption, CallersAre DEF Checkers, CheckerLocked
      <3> QED BY <3>1, <1>1, <1>3
    <2> QED BY <2>2, <2>3, <2>4 DEF CheckerLocked
  <1> QED BY <1>4, <1>6 DEF Checkers

\* The holder of the lock posts to the next peer.
LEMMA CheckersPost ==
  ASSUME Calls, Checkers, NEW t \in Threads, PostAsk(t)
  PROVE  Checkers'
  <1>1. PICK n \in Nodes : n = NodeOf[t]
    BY CallersAre
  <1>2. asker[n] = t /\ t # Nobody
    BY <1>1, NobodyAssumption, CallersAre DEF Checkers, CheckerLocked, PostAsk
  <1>3. PICK msg \in {"WAIT", "HDRONLY"} : header' = [header EXCEPT ![n].msg = msg]
    BY <1>1 DEF PostAsk
  <1>4. /\ todo[n] # <<>> /\ todo[n] \in Seq(Nodes)
        /\ todo' = [todo EXCEPT ![n] = Tail(@)] /\ UNCHANGED <<pc, mine, asker, inbox>>
        /\ inflight' = [inflight EXCEPT ![n] = @] \/ inflight' = [inflight EXCEPT ![n] = @ \cup {todo[n][1]}]
    BY <1>1 DEF PostAsk, Checkers, CheckerTypes
  <1>5. header[n] \in Messages
    BY <1>2, HeaderIsMessage
  <1>6. /\ header'[n] \in Messages /\ header'[n].id = header[n].id
        /\ \A m \in Nodes \ {n} : header'[m] = header[m]
        /\ header' \in [Nodes -> Messages \cup {NoHeader}]
    BY <1>3, <1>5 DEF Messages, Checkers, CheckerTypes
  <1>7. CheckerTypes'
    <2>1. todo[n][1] \in Nodes /\ Tail(todo[n]) \in Seq(Nodes)
      <3> HIDE DEF Nodes
      <3> QED BY <1>4
    <2>2. todo' \in [Nodes -> Seq(Nodes)]
      BY <1>4, <2>1 DEF Checkers, CheckerTypes
    <2>3. inflight' \in [Nodes -> SUBSET Nodes]
      <3>1. inflight \in [Nodes -> SUBSET Nodes]
        BY DEF Checkers, CheckerTypes
      <3>2. PICK peers \in SUBSET Nodes : inflight' = [inflight EXCEPT ![n] = peers]
        BY <1>4, <2>1, <3>1
      <3> QED BY <3>1, <3>2
    <2> QED BY <1>4, <1>6, <2>2, <2>3 DEF Checkers, CheckerTypes, Messages
  <1>8. \A m \in Nodes \ {n} : todo'[m] = todo[m] /\ inflight'[m] = inflight[m]
    BY <1>4 DEF Checkers, CheckerTypes
  <1>9. CheckerLocked'
    BY <1>2, <1>4, <1>6, <1>8 DEF Checkers, CheckerLocked
  <1> QED BY <1>7, <1>9 DEF Checkers

\* When the lock is given back everything was posted and polled.
LEMMA CheckersEnd ==
  ASSUME Calls, Checkers, NEW t \in Threads, EndAsk(t)
  PROVE  Checkers'
  <1>1. PICK n \in Nodes : n = NodeOf[t]
    BY CallersAre
  <1>2. /\ asker[n] = t /\ asker'[n] = Nobody /\ \A m \in Nodes \ {n} : asker'[m] = asker[m]
        /\ pc[t] = "post" /\ pc'[t] = "clear" /\ \A u \in Threads \ {t} : pc'[u] = pc[u]
        /\ todo[n] = <<>> /\ inflight[n] = {} /\ UNCHANGED <<header, todo, inflight, inbox, mine>>
    BY <1>1, CallersAre DEF Checkers, CheckerTypes, CheckerLocked, EndAsk, AskPolled, Calls, CallTypes
  <1>3. CheckerTypes'
    BY <1>1 DEF Checkers, CheckerTypes, EndAsk, Messages
  <1>4. ASSUME NEW m \in Nodes, m # n, asker[m] # Nobody PROVE asker[m] \in Threads \ {t}
    BY <1>1, <1>4 DEF Checkers, CheckerTypes, CheckerLocked
  <1>5. CheckerLocked'
    <2>1. ASSUME NEW m \in Nodes
          PROVE  /\ asker'[m] # Nobody =>
                      NodeOf[asker'[m]] = m /\ pc'[asker'[m]] = "post" /\ header'[m].id = mine'[asker'[m]]
                 /\ asker'[m] = Nobody => todo'[m] = <<>> /\ inflight'[m] = {}
      BY <1>1, <1>2, <1>4, <2>1 DEF Checkers, CheckerLocked
    <2>2. \A u \in Threads : pc'[u] = "post" => asker'[NodeOf[u]] = u
      <3> SUFFICES ASSUME NEW u \in Threads \ {t}, pc[u] = "post" PROVE asker'[NodeOf[u]] = u
        BY <1>2
      <3>1. asker[NodeOf[u]] = u /\ NodeOf[u] \in Nodes
        BY CallersAre DEF Checkers, CheckerLocked
      <3> QED BY <3>1, <1>2
    <2> QED BY <2>1, <2>2 DEF CheckerLocked
  <1> QED BY <1>3, <1>5 DEF Checkers

\* What arrives is the header of a proposal.
LEMMA CheckersArrive ==
  ASSUME Calls, Checkers, NEW l \in Links, ArriveAsk(l)
  PROVE  Checkers'
  <1>1. PICK n \in Nodes : n = l[1]
    BY CallersAre
  <1>2. asker[n] # Nobody /\ header[n] \in Messages
    BY <1>1, HeaderIsMessage DEF ArriveAsk, Checkers, CheckerLocked
  <1>3. PICK e \in Messages : e = header[n]
    BY <1>2
  <1>4. inbox' = [inbox EXCEPT ![l] = Append(@, e)] /\ inflight' = [inflight EXCEPT ![n] = @ \ {l[2]}]
        /\ UNCHANGED <<pc, mine, asker, header, todo>>
    BY <1>1, <1>3 DEF ArriveAsk
  <1>5. CheckerTypes'
    <2>1. inbox' \in [Links -> Seq(Messages)]
      <3> HIDE DEF Messages
      <3>1. inbox \in [Links -> Seq(Messages)]
        BY DEF Checkers, CheckerTypes
      <3>2. Append(inbox[l], e) \in Seq(Messages)
        BY <3>1
      <3> QED BY <1>4, <3>1, <3>2
    <2> QED BY <1>4, <2>1 DEF Checkers, CheckerTypes, Messages
  <1>6. \A m \in Nodes : inflight'[m] \subseteq inflight[m]
    BY <1>4 DEF Checkers, CheckerTypes
  <1>7. CheckerLocked'
    BY <1>4, <1>6 DEF Checkers, CheckerLocked
  <1> QED BY <1>5, <1>7 DEF Checkers

\* A broken link has no writes on their way.
LEMMA CheckersBreak ==
  ASSUME Calls, Checkers, NEW kind, NEW l \in Links, Break(kind, l)
  PROVE  Checkers'
  <1>1. UNCHANGED <<pc, mine, asker, header, todo, inbox>>
    BY DEF Break
  <1>2. /\ inflight' \in [Nodes -> SUBSET Nodes]
        /\ \A m \in Nodes : inflight'[m] \subseteq inflight[m]
    BY CallersAre DEF Break, Checkers, CheckerTypes
  <1>3. CheckerTypes'
    <2> HIDE DEF Messages
    <2> QED BY <1>1, <1>2 DEF Checkers, CheckerTypes
  <1>4. CheckerLocked'
    <2>1. \A m \in Nodes : inflight[m] = {} => inflight'[m] = {}
      BY <1>2
    <2> QED BY <1>1, <2>1 DEF Checkers, CheckerLocked
  <1> QED BY <1>3, <1>4 DEF Checkers

\* The lock of a checker passes from one thread to the next.
LEMMA CheckersStep == Calls /\ Checkers /\ [Next]_vars => Checkers'
  <1> SUFFICES ASSUME Calls, Checkers, [Next]_vars PROVE Checkers'
    OBVIOUS
  <1> USE DEF Calls, CallTypes
  <1>1. ASSUME NEW t \in Threads, NEW k \in Keys, NEW rule \in Rules, Propose(t, k, rule)
        PROVE  Checkers'
    BY <1>1, CheckersKept, CallersAre DEF Propose
  <1>2. ASSUME NEW c \in Callers, Link(c) \/ WriteLog(c) \/ Return(c) PROVE Checkers'
    BY <1>2, CheckersKept, CallersAre DEF Link, WriteLog, Return
  <1>3. ASSUME NEW t \in Threads, ClearWait(t) PROVE Checkers'
    BY <1>3, CheckersKept, CallersAre DEF ClearWait
  <1>4. ASSUME NEW l \in Links, Receive(l) PROVE Checkers'
    BY <1>4, CheckersKept, CallersAre DEF Receive
  <1>5. CASE UNCHANGED <<pc, mine, checkers, inbox>>
    BY <1>5, CheckersKept
  <1> QED BY <1>1, <1>2, <1>3, <1>4, <1>5, CheckersAsk, CheckersPost, CheckersEnd,
             CheckersArrive, CheckersBreak
          DEF Next, Progress, Continue, LinkStep, Replay, Arrive, vars

\* Whoever writes to a checker's log holds its lock (scot-chkr.cc:45, 124).
LEMMA CheckersHold == Spec => []Checkers
  BY CallsHold, CheckersInit, CheckersStep, PTL DEF Spec

(***************************************************************************)
(* Posting: whoever is still to be posted to has not been posted to, and   *)
(* a write on its way finds the header that is meant for its peer.         *)
(***************************************************************************)
PostingAt(n) ==
  /\ \A i \in DOMAIN todo[n] : todo[n][i] # n /\ todo[n][i] \notin inflight[n]
  /\ \A i, j \in DOMAIN todo[n] : todo[n][i] = todo[n][j] => i = j
  /\ \A p \in inflight[n] : p # n /\ (header[n].msg = "WAIT" <=> p = Owner(header[n].id))

Posting == \A n \in Nodes : PostingAt(n)

\* What a proposal is made of.
LEMMA ProposalIsTyped ==
  ASSUME Calls, NEW id \in DOMAIN proposals
  PROVE  /\ proposals[id].thread \in Threads /\ Key(id) \in Keys
         /\ Owner(id) \in Nodes /\ Proposer(id) \in Nodes
         /\ id \in Ids
  <1>1. proposals[id] \in Proposals /\ id \in Ids
    BY BoundsAssumption DEF Calls, CallTypes, Ids
  <1> QED BY <1>1, CallersAre DEF Proposals, Key, Owner, Proposer

\* Proposals stay what they are.
LEMMA ProposalsKept ==
  ASSUME Calls, [Next]_vars, NEW id \in DOMAIN proposals
  PROVE  /\ id \in DOMAIN proposals' /\ proposals'[id] = proposals[id]
         /\ Key(id)' = Key(id) /\ Owner(id)' = Owner(id) /\ Proposer(id)' = Proposer(id)
  <1>1. id \in DOMAIN proposals' /\ proposals'[id] = proposals[id]
    <2>1. ASSUME NEW t \in Threads, NEW k \in Keys, NEW rule \in Rules, Propose(t, k, rule)
          PROVE  id \in DOMAIN proposals' /\ proposals'[id] = proposals[id]
      <3> DEFINE new == [thread |-> t, key |-> k, owner |-> rule[k]]
      <3>1. proposals' = Append(proposals, new)
        BY <2>1 DEF Propose, Judge
      <3> HIDE DEF new
      <3> QED BY <3>1 DEF Calls, CallTypes
    <2> QED BY <2>1, Zenon DEF Next, Progress, Continue, LinkStep, Link, WriteLog, Return, Ask, PostAsk, EndAsk,
                        ClearWait, Receive, Replay, Arrive, ArriveAsk, Break, vars
  <1> QED BY <1>1 DEF Key, Owner, Proposer

\* At first nothing is to be posted.
LEMMA PostingInit == Init => Posting
  BY DEF Init, Posting, PostingAt

\* Steps that leave a checker's posting alone.
LEMMA PostingKept ==
  ASSUME Calls, Checkers, [Next]_vars, NEW n \in Nodes, PostingAt(n),
         todo'[n] = todo[n], inflight'[n] = inflight[n], header'[n] = header[n]
  PROVE  PostingAt(n)'
  <1>1. CASE inflight[n] = {}
    BY <1>1 DEF PostingAt
  <1>2. CASE inflight[n] # {}
    <2>1. header[n] \in Messages /\ mine[asker[n]] \in DOMAIN proposals /\ header[n].id = mine[asker[n]]
      BY <1>2, HeaderIsMessage DEF Checkers, CheckerLocked
    <2>2. PICK id \in DOMAIN proposals : id = header[n].id
      BY <2>1
    <2>3. Owner(id)' = Owner(id) /\ id = header'[n].id
      BY <2>2, ProposalsKept
    <2>4. Owner(header[n].id)' = Owner(header[n].id)
      BY <2>2, <2>3 DEF Owner
    <2> QED BY <2>4 DEF PostingAt
  <1> QED BY <1>1, <1>2

\* All other nodes are to be posted to, and nothing is on its way.
LEMMA PostingAsk ==
  ASSUME Calls, Checkers, Posting, NEW t \in Threads, Ask(t)
  PROVE  Posting'
  <1>1. PICK n \in Nodes : n = NodeOf[t]
    BY CallersAre
  <1>2. /\ todo'[n] = Quorum(n) /\ inflight[n] = {} /\ UNCHANGED inflight
        /\ \A m \in Nodes \ {n} : todo'[m] = todo[m] /\ header'[m] = header[m]
    BY <1>1 DEF Ask, Checkers, CheckerTypes, CheckerLocked
  <1>3. PostingAt(n)'
    BY <1>2, QuorumIs DEF PostingAt
  <1>4. \A m \in Nodes \ {n} : PostingAt(m)'
    BY <1>2, PostingKept DEF Posting, Next, Progress, Continue, Callers
  <1> QED BY <1>3, <1>4 DEF Posting

\* The type in the header is set for the only write on its way.
LEMMA PostingPost ==
  ASSUME Calls, Checkers, Posting, NEW t \in Threads, PostAsk(t)
  PROVE  Posting'
  <1>1. PICK n \in Nodes : n = NodeOf[t]
    BY CallersAre
  <1>2. asker[n] = t /\ t # Nobody
    BY <1>1, NobodyAssumption, CallersAre DEF Checkers, CheckerLocked, PostAsk
  <1>3. PICK p : p = todo[n][1]
    OBVIOUS
  <1>4. PICK msg : /\ msg = IF p = Owner(mine[t]) THEN "WAIT" ELSE "HDRONLY"
                   /\ header' = [header EXCEPT ![n].msg = msg]
    BY <1>1, <1>3 DEF PostAsk
  <1>5. /\ todo[n] # <<>> /\ todo[n] \in Seq(Nodes) /\ inflight[n] = {}
        /\ todo' = [todo EXCEPT ![n] = Tail(@)] /\ UNCHANGED <<pc, mine, asker, proposals>>
        /\ \/ inflight' = [inflight EXCEPT ![n] = @]
           \/ inflight' = [inflight EXCEPT ![n] = @ \cup {p}]
    BY <1>1, <1>3 DEF PostAsk, AskPolled, Checkers, CheckerTypes
  <1>6. header'[n].msg = msg /\ header'[n].id = mine[t]
    <2>1. header[n] \in Messages /\ header[n].id = mine[t]
      BY <1>2, HeaderIsMessage
    <2>2. header'[n] = [header[n] EXCEPT !.msg = msg]
      BY <1>4 DEF Checkers, CheckerTypes
    <2> QED BY <2>1, <2>2 DEF Messages
  <1>7. /\ todo'[n] = Tail(todo[n]) /\ inflight'[n] \subseteq {p}
        /\ \A m \in Nodes \ {n} : todo'[m] = todo[m] /\ header'[m] = header[m] /\ inflight'[m] = inflight[m]
    BY <1>4, <1>5 DEF Checkers, CheckerTypes
  <1>8. /\ p # n /\ 1 \in DOMAIN todo[n]
        /\ \A i \in DOMAIN todo'[n] : /\ i \in Nat /\ i + 1 \in DOMAIN todo[n] /\ i + 1 # 1
                                      /\ todo'[n][i] = todo[n][i + 1]
    <2> HIDE DEF Nodes
    <2>1. 1 \in DOMAIN todo[n] /\ \A i \in DOMAIN Tail(todo[n]) :
             i \in Nat /\ i + 1 \in DOMAIN todo[n] /\ i + 1 # 1 /\ Tail(todo[n])[i] = todo[n][i + 1]
      BY <1>5
    <2>2. p # n
      BY <1>3, <2>1 DEF Posting, PostingAt
    <2> QED BY <1>7, <2>1, <2>2
  <1>9. PICK o : o = Owner(mine[t])
    OBVIOUS
  <1>10. o = Owner(header[n].id)'
    BY <1>5, <1>6, <1>9 DEF Owner
  <1>11. PostingAt(n)'
    <2>1. \A i \in DOMAIN todo'[n] : todo'[n][i] # n /\ todo'[n][i] # p
      BY <1>3, <1>8 DEF Posting, PostingAt
    <2>2. \A i, j \in DOMAIN todo'[n] : todo'[n][i] = todo'[n][j] => i = j
      <3> SUFFICES ASSUME NEW i \in DOMAIN todo'[n], NEW j \in DOMAIN todo'[n], todo'[n][i] = todo'[n][j]
                   PROVE  i = j
        OBVIOUS
      <3>1. i + 1 = j + 1
        BY <1>8 DEF Posting, PostingAt
      <3> QED BY <1>8, <3>1
    <2> QED BY <1>4, <1>6, <1>7, <1>8, <1>9, <1>10, <2>1, <2>2 DEF PostingAt
  <1>12. \A m \in Nodes \ {n} : PostingAt(m)'
    BY <1>7, PostingKept DEF Posting, Next, Progress, Continue, Callers
  <1> QED BY <1>11, <1>12 DEF Posting

\* Whatever arrives or breaks, less is on its way.
LEMMA PostingLess ==
  ASSUME Calls, Checkers, Posting, UNCHANGED <<proposals, header, todo>>,
         \A n \in Nodes : inflight'[n] \subseteq inflight[n]
  PROVE  Posting'
  <1> SUFFICES ASSUME NEW n \in Nodes PROVE PostingAt(n)'
    BY DEF Posting
  <1>1. inflight'[n] \subseteq inflight[n] /\ PostingAt(n)
    BY DEF Posting
  <1> QED BY <1>1 DEF PostingAt, Owner

\* Every step keeps the header true to the write on its way.
LEMMA PostingStep == Calls /\ Checkers /\ Posting /\ [Next]_vars => Posting'
  <1> SUFFICES ASSUME Calls, Checkers, Posting, [Next]_vars PROVE Posting'
    OBVIOUS
  <1>1. ASSUME NEW l \in Links, ArriveAsk(l) PROVE Posting'
    BY <1>1, CallersAre, PostingLess DEF ArriveAsk, Checkers, CheckerTypes
  <1>2. ASSUME NEW kind, NEW l \in Links, Break(kind, l) PROVE Posting'
    BY <1>2, CallersAre, PostingLess DEF Break, Checkers, CheckerTypes
  <1>3. CASE UNCHANGED <<header, todo, inflight>>
    BY <1>3, PostingKept DEF Posting
  <1> QED BY <1>1, <1>2, <1>3, PostingAsk, PostingPost, Zenon
          DEF Next, Progress, Continue, LinkStep, Propose, Link, WriteLog, Return, EndAsk, ClearWait,
              Receive, Replay, Arrive, vars

\* The network never reads a header that was rewritten for another peer
\* (scot-chkr.cc:80, 97, 117).
LEMMA PostingHolds == Spec => []Posting
  BY CallsHold, CheckersHold, PostingInit, PostingStep, PTL DEF Spec

(***************************************************************************)
(* Asks: a proposal made elsewhere than at its owner has reached the       *)
(* owner's receiver, once, or is still to be posted, or its link broke.    *)
(***************************************************************************)
IsWait(l, x, id) == inbox[l][x].msg = "WAIT" /\ inbox[l][x].id = id
Way(id) == <<Proposer(id), Owner(id)>>
Remote(id) == Proposer(id) # Owner(id)
Cut(id) == <<"chkr", Way(id)>> \in broken
Heard(id) == \E x \in DOMAIN inbox[Way(id)] : IsWait(Way(id), x, id)
ToPost(n, p) == p \in inflight[n] \/ \E i \in DOMAIN todo[n] : todo[n][i] = p
PendingBy(t, id) ==
  mine[t] = id /\ (pc[t] = "ask" \/ (pc[t] = "post" /\ ToPost(NodeOf[t], Owner(id))))
Pending(id) == \E t \in Threads : PendingBy(t, id)

InboxSound ==
  \A l \in Links : \A x \in DOMAIN inbox[l] :
    /\ inbox[l][x].id \in DOMAIN proposals
    /\ inbox[l][x].msg = "WAIT" => Way(inbox[l][x].id) = l

HeardOnce ==
  \A l \in Links : \A x, y \in DOMAIN inbox[l] :
    inbox[l][x].msg = "WAIT" /\ inbox[l][y].msg = "WAIT" /\ inbox[l][x].id = inbox[l][y].id => x = y

AskKnown(id) == (Heard(id) => ~Pending(id)) /\ (Heard(id) \/ Pending(id) \/ Cut(id))

Asks ==
  /\ InboxSound /\ HeardOnce
  /\ \A id \in DOMAIN proposals : Remote(id) => AskKnown(id)

\* At first there are no proposals.
LEMMA AsksInit == Init => Asks
  BY DEF Init, Asks, InboxSound, HeardOnce

\* Steps by which nothing is proposed and nothing arrives.
LEMMA AsksMoved ==
  ASSUME Asks, UNCHANGED <<proposals, inbox>>, broken \subseteq broken',
         \A id \in DOMAIN proposals : Remote(id) =>
           (Pending(id)' => Pending(id)) /\ (Pending(id) => Pending(id)' \/ Cut(id)')
  PROVE  Asks'
  <1>1. InboxSound' /\ HeardOnce'
    BY DEF Asks, InboxSound, HeardOnce, Way, Proposer, Owner
  <1>2. ASSUME NEW id \in DOMAIN proposals, Remote(id)' PROVE AskKnown(id)'
    <2>1. Remote(id) /\ (Heard(id)' <=> Heard(id)) /\ (Cut(id) => Cut(id)')
      BY <1>2 DEF Remote, Heard, IsWait, Cut, Way, Proposer, Owner
    <2>2. AskKnown(id)
      BY <2>1 DEF Asks
    <2> QED BY <2>1, <2>2 DEF AskKnown
  <1> QED BY <1>1, <1>2 DEF Asks

\* Steps of callers that are not in the checker.
LEMMA PendingKept ==
  ASSUME UNCHANGED <<proposals, todo, inflight>>, NEW id,
         \A t \in Threads : /\ mine'[t] = mine[t]
                            /\ pc'[t] = "ask" <=> pc[t] = "ask"
                            /\ pc'[t] = "post" <=> pc[t] = "post"
  PROVE  Pending(id)' <=> Pending(id)
  <1>1. \A t \in Threads : PendingBy(t, id)' <=> PendingBy(t, id)
    BY DEF PendingBy, ToPost, Owner
  <1> QED BY <1>1 DEF Pending

\* Nobody else is posting on a node whose checker is taken.
LEMMA PostsAlone ==
  ASSUME Checkers, NEW t \in Threads, NEW u \in Threads, u # t, pc[u] = "post",
         asker[NodeOf[t]] \in {t, Nobody}
  PROVE  NodeOf[u] \in Nodes \ {NodeOf[t]}
  BY CallersAre, NobodyAssumption DEF Checkers, CheckerLocked

\* A new proposal is either the replicator's, or still to be posted.
LEMMA AsksPropose ==
  ASSUME Calls, Calls', Checkers, Asks,
         NEW t \in Threads, NEW k \in Keys, NEW rule \in Rules, Propose(t, k, rule)
  PROVE  Asks'
  <1> DEFINE new == [thread |-> t, key |-> k, owner |-> rule[k]]
  <1>1. /\ proposals' = Append(proposals, new) /\ new.thread = t /\ new.owner = rule[k]
        /\ proposals \in Seq(Proposals)
        /\ mine' = [mine EXCEPT ![t] = Len(proposals')]
        /\ pc[t] = "idle" /\ pc' = [pc EXCEPT ![t] = IF rule[k] = NodeOf[t] THEN "link" ELSE "ask"]
        /\ UNCHANGED <<todo, inflight, inbox, broken>>
    BY DEF Propose, Judge, Calls, CallTypes
  <1> HIDE DEF new
  <1>2. PICK n : n = Len(proposals) + 1
    OBVIOUS
  <1>3. /\ DOMAIN proposals' = DOMAIN proposals \cup {n} /\ n \notin DOMAIN proposals
        /\ proposals'[n] = new /\ \A id \in DOMAIN proposals : proposals'[id] = proposals[id]
    BY <1>1, <1>2
  <1>4. /\ \A u \in Threads \ {t} : mine'[u] = mine[u] /\ pc'[u] = pc[u]
        /\ mine'[t] = n /\ pc'[t] = IF rule[k] = NodeOf[t] THEN "link" ELSE "ask"
    BY <1>1, <1>2, CallersAre DEF Calls, CallTypes
  <1>5. \A id \in DOMAIN proposals : id # n /\ Owner(id)' = Owner(id) /\ Proposer(id)' = Proposer(id) /\ Way(id)' = Way(id)
    BY <1>3 DEF Owner, Proposer, Way
  <1>6. InboxSound' /\ HeardOnce'
    <2>1. ASSUME NEW l \in Links, NEW x \in DOMAIN inbox[l]
          PROVE  /\ inbox'[l][x].id \in DOMAIN proposals'
                 /\ inbox'[l][x].msg = "WAIT" => Way(inbox[l][x].id)' = l
      <3>1. PICK id : id = inbox[l][x].id
        OBVIOUS
      <3>2. id \in DOMAIN proposals /\ (inbox[l][x].msg = "WAIT" => Way(id) = l)
        BY <3>1 DEF Asks, InboxSound
      <3>3. Way(inbox[l][x].id)' = Way(id)'
        BY <1>1, <3>1 DEF Way, Proposer, Owner
      <3> QED BY <1>1, <1>3, <1>5, <3>1, <3>2, <3>3
    <2> QED BY <1>1, <2>1 DEF Asks, InboxSound, HeardOnce
  <1>7. ASSUME NEW id \in DOMAIN proposals, Remote(id)' PROVE AskKnown(id)'
    <2>1. \A u \in Threads : PendingBy(u, id)' <=> PendingBy(u, id)
      <3> SUFFICES ASSUME NEW u \in Threads PROVE PendingBy(u, id)' <=> PendingBy(u, id)
        OBVIOUS
      <3>1. CASE u = t
        BY <1>1, <1>4, <1>5, <3>1 DEF PendingBy
      <3>2. CASE u # t
        <4>1. Owner(id)' = Owner(id) /\ mine'[u] = mine[u] /\ pc'[u] = pc[u]
          BY <1>4, <1>5, <3>2
        <4> QED BY <1>1, <4>1 DEF PendingBy, ToPost
      <3> QED BY <3>1, <3>2
    <2>2. Remote(id) /\ (Heard(id)' <=> Heard(id)) /\ (Cut(id)' <=> Cut(id))
      BY <1>1, <1>5, <1>7 DEF Remote, Heard, IsWait, Cut
    <2> QED BY <2>1, <2>2 DEF Asks, AskKnown, Pending
  <1>8. ASSUME Remote(n)' PROVE AskKnown(n)'
    <2>1. Proposer(n)' = NodeOf[t] /\ Owner(n)' = rule[k]
      BY <1>1, <1>3 DEF Proposer, Owner
    <2>2. PendingBy(t, n)'
      BY <1>4, <1>8, <2>1 DEF PendingBy, ToPost, Remote
    <2>3. Way(n)' \in Links
      <3>1. rule[k] \in Nodes
        BY RulesAssumption
      <3> QED BY <1>8, <2>1, <3>1, CallersAre DEF Way, Remote, Links
    <2>4. ~Heard(n)'
      BY <1>1, <1>3, <2>3 DEF Heard, IsWait, Asks, InboxSound
    <2> QED BY <2>2, <2>4 DEF AskKnown, Pending
  <1> QED BY <1>3, <1>6, <1>7, <1>8 DEF Asks

\* The thread with the lock is to post to the owner.
LEMMA AsksAsk ==
  ASSUME Calls, Checkers, Asks, NEW t \in Threads, Ask(t)
  PROVE  Asks'
  <1>1. PICK n \in Nodes : n = NodeOf[t]
    BY CallersAre
  <1>2. /\ pc[t] = "ask" /\ pc'[t] = "post" /\ asker[n] = Nobody
        /\ \A u \in Threads \ {t} : pc'[u] = pc[u]
        /\ todo'[n] = Quorum(n) /\ \A m \in Nodes \ {n} : todo'[m] = todo[m]
        /\ UNCHANGED <<proposals, mine, inflight, inbox, broken>>
    BY <1>1, CallersAre DEF Ask, Calls, CallTypes, Checkers, CheckerTypes
  <1>3. ASSUME NEW id \in DOMAIN proposals, NEW u \in Threads PROVE PendingBy(u, id)' <=> PendingBy(u, id)
    <2>1. Owner(id)' = Owner(id)
      BY <1>2 DEF Owner
    <2>2. CASE u # t
      <3>1. pc[u] = "post" => NodeOf[u] \in Nodes \ {n}
        BY <1>1, <1>2, <2>2, PostsAlone
      <3>2. /\ pc'[u] = pc[u] /\ mine'[u] = mine[u]
            /\ pc[u] = "post" => todo'[NodeOf[u]] = todo[NodeOf[u]] /\ inflight'[NodeOf[u]] = inflight[NodeOf[u]]
        BY <1>2, <2>2, <3>1
      <3> QED BY <2>1, <3>2 DEF PendingBy, ToPost
    <2>3. CASE u = t /\ mine[t] = id
      <3>1. Owner(id) \in Nodes \ {n}
        <4>1. proposals[id] \in Proposals
          BY DEF Calls, CallTypes
        <4> QED BY <1>1, <1>2, <2>3, <4>1 DEF Calls, CallsOwned, Writing, Owner, Proposals
      <3>2. \E i \in DOMAIN todo'[n] : todo'[n][i] = Owner(id)
        BY <1>2, <3>1, QuorumIs
      <3>3. PendingBy(t, id)
        BY <1>2, <2>3 DEF PendingBy
      <3>4. PendingBy(t, id)'
        BY <1>1, <1>2, <2>1, <2>3, <3>2 DEF PendingBy, ToPost
      <3> QED BY <2>3, <3>3, <3>4
    <2> QED BY <1>2, <2>2, <2>3 DEF PendingBy
  <1>4. \A id \in DOMAIN proposals : Pending(id)' <=> Pending(id)
    BY <1>3 DEF Pending
  <1> QED BY <1>2, <1>4, AsksMoved

\* A peer that has been posted to is on its way, or its link is broken.
LEMMA AsksPost ==
  ASSUME Calls, Checkers, Asks, NEW t \in Threads, PostAsk(t)
  PROVE  Asks'
  <1>1. PICK n \in Nodes : n = NodeOf[t]
    BY CallersAre
  <1>2. pc[t] = "post" /\ asker[n] = t
    BY <1>1 DEF PostAsk, Checkers, CheckerLocked
  <1>3. PICK p : p = todo[n][1]
    OBVIOUS
  <1>4. /\ todo[n] # <<>> /\ todo[n] \in Seq(Nodes) /\ inflight[n] = {}
        /\ todo'[n] = Tail(todo[n])
        /\ \A m \in Nodes \ {n} : todo'[m] = todo[m] /\ inflight'[m] = inflight[m]
        /\ inflight'[n] = IF <<"chkr", <<n, p>>>> \in broken THEN {} ELSE {p}
        /\ UNCHANGED <<pc, mine, proposals, inbox, broken>>
    BY <1>1, <1>3 DEF PostAsk, AskPolled, Checkers, CheckerTypes
  <1>5. /\ 1 \in DOMAIN todo[n]
        /\ \A i \in DOMAIN todo'[n] : i + 1 \in DOMAIN todo[n] /\ todo'[n][i] = todo[n][i + 1]
        /\ \A i \in DOMAIN todo[n] : i = 1 \/ (i - 1 \in DOMAIN todo'[n] /\ todo'[n][i - 1] = todo[n][i])
    <2> HIDE DEF Nodes
    <2> QED BY <1>4
  <1>6. ASSUME NEW o PROVE /\ ToPost(n, o)' => ToPost(n, o)
                           /\ ToPost(n, o) => ToPost(n, o)' \/ <<"chkr", <<n, o>>>> \in broken
    <2>1. ToPost(n, o)' => ToPost(n, o)
      BY <1>3, <1>4, <1>5 DEF ToPost
    <2>2. ASSUME ToPost(n, o), o # p PROVE ToPost(n, o)'
      <3>1. PICK i \in DOMAIN todo[n] : todo[n][i] = o
        BY <1>4, <2>2 DEF ToPost
      <3>2. i - 1 \in DOMAIN todo'[n] /\ todo'[n][i - 1] = o
        BY <1>3, <1>5, <2>2, <3>1
      <3> QED BY <3>2 DEF ToPost
    <2>3. ToPost(n, p)' \/ <<"chkr", <<n, p>>>> \in broken
      BY <1>4 DEF ToPost
    <2> QED BY <2>1, <2>2, <2>3
  <1>7. ASSUME NEW id \in DOMAIN proposals, NEW u \in Threads
        PROVE  /\ PendingBy(u, id)' => PendingBy(u, id)
               /\ PendingBy(u, id) => PendingBy(u, id)' \/ Cut(id)'
    <2>1. PICK o : o = Owner(id)
      OBVIOUS
    <2>2. o = Owner(id)' /\ pc'[u] = pc[u] /\ mine'[u] = mine[u]
      BY <1>4, <2>1 DEF Owner
    <2>3. CASE u # t
      <3>1. pc[u] = "post" => NodeOf[u] \in Nodes \ {n}
        BY <1>1, <1>2, <2>3, PostsAlone
      <3>2. pc[u] = "post" => todo'[NodeOf[u]] = todo[NodeOf[u]] /\ inflight'[NodeOf[u]] = inflight[NodeOf[u]]
        BY <1>4, <3>1
      <3> QED BY <2>1, <2>2, <3>2 DEF PendingBy, ToPost
    <2>4. CASE u = t /\ mine[t] = id
      <3>1. Way(id)' = <<n, o>>
        <4>1. proposals[id].thread = t
          BY <1>2, <2>4 DEF Calls, CallsOwned
        <4> QED BY <1>1, <1>4, <2>2, <4>1 DEF Way, Proposer
      <3>2. (PendingBy(t, id) <=> ToPost(n, o)) /\ (PendingBy(t, id)' <=> ToPost(n, o)')
        BY <1>1, <1>2, <2>1, <2>2, <2>4 DEF PendingBy, ToPost
      <3> QED BY <1>4, <1>6, <2>4, <3>1, <3>2 DEF Cut
    <2>5. CASE u = t /\ mine[t] # id
      BY <2>2, <2>5 DEF PendingBy
    <2> QED BY <2>3, <2>4, <2>5
  <1>8. \A id \in DOMAIN proposals :
          (Pending(id)' => Pending(id)) /\ (Pending(id) => Pending(id)' \/ Cut(id)')
    BY <1>7 DEF Pending
  <1> QED BY <1>4, <1>8, AsksMoved

\* The lock is given back when nothing is left to post.
LEMMA AsksEnd ==
  ASSUME Calls, Checkers, Asks, NEW t \in Threads, EndAsk(t)
  PROVE  Asks'
  <1>1. PICK n \in Nodes : n = NodeOf[t]
    BY CallersAre
  <1>2. /\ pc[t] = "post" /\ pc'[t] = "clear" /\ todo[n] = <<>> /\ inflight[n] = {}
        /\ \A u \in Threads \ {t} : pc'[u] = pc[u]
        /\ UNCHANGED <<proposals, mine, todo, inflight, inbox, broken>>
    BY <1>1, CallersAre DEF EndAsk, AskPolled, Calls, CallTypes
  <1>3. ASSUME NEW id \in DOMAIN proposals, NEW u \in Threads PROVE PendingBy(u, id)' <=> PendingBy(u, id)
    <2>1. CASE u # t
      BY <1>2, <2>1 DEF PendingBy, ToPost, Owner
    <2>2. ~PendingBy(t, id)
      BY <1>1, <1>2 DEF PendingBy, ToPost
    <2>3. ~PendingBy(t, id)'
      BY <1>2 DEF PendingBy
    <2> QED BY <2>1, <2>2, <2>3
  <1>4. \A id \in DOMAIN proposals : Pending(id)' <=> Pending(id)
    BY <1>3 DEF Pending
  <1> QED BY <1>2, <1>4, AsksMoved

\* What a broken link loses was on its way over that link.
LEMMA AsksBreak ==
  ASSUME Calls, Checkers, Asks, NEW kind, NEW l \in Links, Break(kind, l)
  PROVE  Asks'
  <1>1. PICK n \in Nodes : n = l[1]
    BY CallersAre
  <1>2. PICK p \in Nodes : p = l[2]
    BY CallersAre
  <1>3. /\ UNCHANGED <<proposals, pc, mine, todo, inbox>> /\ broken' = broken \cup {<<kind, l>>}
        /\ l = <<n, p>>
        /\ \/ UNCHANGED inflight
           \/ kind = "chkr" /\ inflight' = [inflight EXCEPT ![n] = @ \ {p}]
    BY <1>1, <1>2, CallersAre DEF Break
  <1>4. ASSUME NEW m \in Nodes, NEW o
        PROVE  /\ ToPost(m, o)' => ToPost(m, o)
               /\ ToPost(m, o) => ToPost(m, o)' \/ <<"chkr", <<m, o>>>> \in broken'
    BY <1>3 DEF ToPost, Checkers, CheckerTypes
  <1>5. ASSUME NEW id \in DOMAIN proposals, NEW u \in Threads
        PROVE  /\ PendingBy(u, id)' => PendingBy(u, id)
               /\ PendingBy(u, id) => PendingBy(u, id)' \/ Cut(id)'
    <2>1. PICK o : o = Owner(id)
      OBVIOUS
    <2>2. PICK m \in Nodes : m = NodeOf[u]
      BY CallersAre
    <2>3. o = Owner(id)' /\ pc'[u] = pc[u] /\ mine'[u] = mine[u]
      BY <1>3, <2>1 DEF Owner
    <2>4. CASE mine[u] = id /\ pc[u] = "post"
      <3>1. Way(id)' = <<m, o>>
        <4>1. proposals[id].thread = u
          BY <2>4 DEF Calls, CallsOwned
        <4> QED BY <1>3, <2>2, <2>3, <4>1 DEF Way, Proposer
      <3>2. (PendingBy(u, id) <=> ToPost(m, o)) /\ (PendingBy(u, id)' <=> ToPost(m, o)')
        BY <2>1, <2>2, <2>3, <2>4 DEF PendingBy, ToPost
      <3> QED BY <1>4, <3>1, <3>2 DEF Cut
    <2>5. CASE mine[u] # id \/ pc[u] # "post"
      BY <2>3, <2>5 DEF PendingBy
    <2> QED BY <2>4, <2>5
  <1>6. \A id \in DOMAIN proposals :
          (Pending(id)' => Pending(id)) /\ (Pending(id) => Pending(id)' \/ Cut(id)')
    BY <1>5 DEF Pending
  <1> QED BY <1>3, <1>6, AsksMoved

\* What a step of the network hands to a receiver.
LEMMA ArrivalIs ==
  ASSUME Calls, Checkers, Posting, Asks, NEW l \in Links, ArriveAsk(l),
         NEW n \in Nodes, NEW p \in Nodes, l = <<n, p>>
  PROVE  \E id \in DOMAIN proposals, e \in Messages :
           /\ e.id = id /\ inbox' = [inbox EXCEPT ![l] = Append(@, e)]
           /\ proposals[id].thread = asker[n] /\ mine[asker[n]] = id /\ asker[n] \in Threads
           /\ pc[asker[n]] = "post" /\ NodeOf[asker[n]] = n /\ Proposer(id) = n
           /\ Remote(id)
           /\ e.msg = "WAIT" <=> p = Owner(id)
           /\ UNCHANGED <<proposals, pc, mine, todo, broken>>
           /\ inflight' = [inflight EXCEPT ![n] = @ \ {p}] /\ p \in inflight[n]
           /\ \A i \in DOMAIN todo[n] : todo[n][i] # p
  <1>1. n = l[1] /\ p = l[2]
    OBVIOUS
  <1>2. p \in inflight[n] /\ asker[n] # Nobody
    BY <1>1 DEF ArriveAsk, Checkers, CheckerLocked
  <1>3. /\ header[n] \in Messages /\ header[n].id = mine[asker[n]] /\ mine[asker[n]] \in DOMAIN proposals
        /\ asker[n] \in Threads /\ pc[asker[n]] = "post" /\ NodeOf[asker[n]] = n
        /\ proposals[mine[asker[n]]].thread = asker[n] /\ Owner(mine[asker[n]]) # n
    BY <1>2, HeaderIsMessage
  <1>4. PICK id \in DOMAIN proposals : id = mine[asker[n]]
    BY <1>3
  <1>5. PICK e \in Messages : e = header[n]
    BY <1>3
  <1>6. e.msg = "WAIT" <=> p = Owner(id)
    BY <1>2, <1>3, <1>4, <1>5 DEF Posting, PostingAt
  <1>7. Proposer(id) = n /\ Remote(id)
    BY <1>3, <1>4 DEF Proposer, Remote
  <1>8. \A i \in DOMAIN todo[n] : todo[n][i] # p
    BY <1>2 DEF Posting, PostingAt
  <1>9. /\ inbox' = [inbox EXCEPT ![l] = Append(@, e)] /\ UNCHANGED <<proposals, pc, mine, todo, broken>>
        /\ inflight' = [inflight EXCEPT ![n] = @ \ {p}]
    BY <1>1, <1>5 DEF ArriveAsk
  <1> QED BY <1>1, <1>2, <1>3, <1>4, <1>5, <1>6, <1>7, <1>8, <1>9

\* A WAIT arrives at the owner for the first time; a bare header changes
\* nothing for its proposal.
LEMMA AsksArrive ==
  ASSUME Calls, Checkers, Posting, Asks, NEW l \in Links, ArriveAsk(l)
  PROVE  Asks'
  <1>1. PICK n \in Nodes, p \in Nodes : n = l[1] /\ p = l[2] /\ l = <<n, p>>
    BY CallersAre
  <1>2. PICK id \in DOMAIN proposals, e \in Messages :
           /\ e.id = id /\ inbox' = [inbox EXCEPT ![l] = Append(@, e)]
           /\ proposals[id].thread = asker[n] /\ mine[asker[n]] = id /\ asker[n] \in Threads
           /\ pc[asker[n]] = "post" /\ NodeOf[asker[n]] = n /\ Proposer(id) = n
           /\ Remote(id)
           /\ e.msg = "WAIT" <=> p = Owner(id)
           /\ UNCHANGED <<proposals, pc, mine, todo, broken>>
           /\ inflight' = [inflight EXCEPT ![n] = @ \ {p}] /\ p \in inflight[n]
           /\ \A i \in DOMAIN todo[n] : todo[n][i] # p
    BY <1>1, ArrivalIs
  <1>3. PICK t \in Threads : t = asker[n]
    BY <1>2
  <1>4. PICK z : z = Len(inbox[l]) + 1
    OBVIOUS
  <1>5. /\ \A m \in Links \ {l} : inbox'[m] = inbox[m]
        /\ DOMAIN inbox'[l] = DOMAIN inbox[l] \cup {z} /\ z \notin DOMAIN inbox[l]
        /\ inbox'[l][z] = e /\ \A x \in DOMAIN inbox[l] : inbox'[l][x] = inbox[l][x]
    <2>1. inbox \in [Links -> Seq(Messages)]
      BY DEF Checkers, CheckerTypes
    <2> HIDE DEF Messages
    <2>2. inbox'[l] = Append(inbox[l], e) /\ inbox[l] \in Seq(Messages)
      BY <1>2, <2>1
    <2>3. \A m \in Links \ {l} : inbox'[m] = inbox[m]
      BY <1>2, <2>1
    <2> QED BY <1>4, <2>2, <2>3
  <1>6. e.msg = "WAIT" => Way(id) = l /\ Owner(id) \in inflight[n]
    BY <1>1, <1>2 DEF Way
  <1>7. e.msg = "WAIT" => ~Heard(id)
    <2>1. SUFFICES ASSUME e.msg = "WAIT" PROVE ~Heard(id)
      OBVIOUS
    <2>2. PendingBy(t, id)
      BY <1>2, <1>3, <1>6, <2>1 DEF PendingBy, ToPost
    <2> QED BY <1>2, <2>2 DEF Pending, Asks, AskKnown
  <1>8. \A r : Way(r)' = Way(r) /\ (Remote(r)' <=> Remote(r)) /\ (Cut(r)' <=> Cut(r))
    BY <1>2 DEF Way, Remote, Proposer, Owner, Cut
  <1>9. InboxSound'
    <2> SUFFICES ASSUME NEW m \in Links, NEW x \in DOMAIN inbox'[m]
                 PROVE  /\ inbox'[m][x].id \in DOMAIN proposals
                        /\ inbox'[m][x].msg = "WAIT" => Way(inbox[m][x].id)' = m
      BY <1>2 DEF InboxSound
    <2>1. CASE m = l /\ x = z
      <3>1. inbox'[m][x] = e
        BY <1>5, <2>1
      <3>2. e.msg = "WAIT" => Way(id)' = m
        BY <1>6, <1>8, <2>1
      <3> QED BY <1>2, <3>1, <3>2 DEF Way, Proposer, Owner
    <2>2. CASE ~(m = l /\ x = z)
      <3>1. x \in DOMAIN inbox[m] /\ inbox'[m][x] = inbox[m][x]
        BY <1>5, <2>2
      <3>2. PICK r : r = inbox[m][x].id
        OBVIOUS
      <3>3. r \in DOMAIN proposals /\ (inbox[m][x].msg = "WAIT" => Way(r)' = m)
        BY <1>8, <3>1, <3>2 DEF Asks, InboxSound
      <3> QED BY <3>1, <3>2, <3>3 DEF Way, Proposer, Owner
    <2> QED BY <2>1, <2>2
  <1>10. HeardOnce'
    <2> SUFFICES ASSUME NEW m \in Links, NEW x \in DOMAIN inbox'[m], NEW y \in DOMAIN inbox'[m],
                        inbox'[m][x].msg = "WAIT", inbox'[m][y].msg = "WAIT",
                        inbox'[m][x].id = inbox'[m][y].id
                 PROVE  x = y
      BY DEF HeardOnce
    <2>1. CASE m # l
      BY <1>5, <2>1 DEF Asks, HeardOnce
    <2>2. CASE m = l
      <3>1. e.msg = "WAIT" => \A w \in DOMAIN inbox[l] : ~IsWait(l, w, id)
        BY <1>6, <1>7 DEF Heard
      <3> QED BY <1>2, <1>5, <2>2, <3>1 DEF Asks, HeardOnce, IsWait
    <2> QED BY <2>1, <2>2
  <1>11. ASSUME NEW r \in DOMAIN proposals, Remote(r)' PROVE AskKnown(r)'
    <2>1. Remote(r) /\ AskKnown(r)
      BY <1>8, <1>11 DEF Asks
    <2>2. PICK o : o = Owner(r)
      OBVIOUS
    <2>3. o = Owner(r)' /\ \A u \in Threads : pc'[u] = pc[u] /\ mine'[u] = mine[u]
      BY <1>2, <2>2 DEF Owner
    <2>4. Heard(r)' <=> (Heard(r) \/ (e.msg = "WAIT" /\ r = id))
      <3>1. PICK w : w = Way(r)
        OBVIOUS
      <3>2. w = Way(r)' /\ (w # l => ~(e.msg = "WAIT" /\ r = id))
        BY <1>6, <1>8, <3>1
      <3>3. w \in Links
        BY <1>1, <2>1, <3>1, ProposalIsTyped, CallersAre DEF Way, Remote, Links
      <3>4. \A x \in DOMAIN inbox[w] : x \in DOMAIN inbox'[w] /\ inbox'[w][x] = inbox[w][x]
        BY <1>5, <3>3
      <3>5. \A x \in DOMAIN inbox'[w] : x \in DOMAIN inbox[w] \/ (w = l /\ x = z /\ inbox'[w][x] = e)
        BY <1>5, <3>3
      <3>6. (e.msg = "WAIT" /\ r = id) => z \in DOMAIN inbox'[w] /\ inbox'[w][z] = e
        BY <1>5, <3>2
      <3>7. Heard(r) <=> \E x \in DOMAIN inbox[w] : inbox[w][x].msg = "WAIT" /\ inbox[w][x].id = r
        BY <3>1 DEF Heard, IsWait
      <3>8. Heard(r)' <=> \E x \in DOMAIN inbox'[w] : inbox'[w][x].msg = "WAIT" /\ inbox'[w][x].id = r
        BY <3>2 DEF Heard, IsWait
      <3> QED BY <1>2, <3>4, <3>5, <3>6, <3>7, <3>8
    <2>5. CASE r # id
      <3>1. \A u \in Threads : mine[u] = r /\ pc[u] = "post" => NodeOf[u] \in Nodes \ {n}
        BY <1>2, <1>3, <2>5, PostsAlone
      <3>2. \A u \in Threads : PendingBy(u, r)' <=> PendingBy(u, r)
        <4> SUFFICES ASSUME NEW u \in Threads PROVE PendingBy(u, r)' <=> PendingBy(u, r)
          OBVIOUS
        <4>1. mine[u] = r /\ pc[u] = "post" => inflight'[NodeOf[u]] = inflight[NodeOf[u]]
          BY <1>2, <3>1 DEF Checkers, CheckerTypes
        <4> QED BY <1>2, <2>2, <2>3, <4>1 DEF PendingBy, ToPost
      <3> QED BY <1>8, <2>1, <2>4, <2>5, <3>2 DEF AskKnown, Pending
    <2>6. CASE r = id
      <3>1. \A u \in Threads \ {t} : mine[u] # id
        BY <1>2, <1>3 DEF Calls, CallTypes, CallsOwned
      <3>2. PendingBy(t, id)' <=> ToPost(n, o)'
        BY <1>2, <1>3, <2>2, <2>3, <2>6 DEF PendingBy, ToPost
      <3>3. PendingBy(t, id) <=> ToPost(n, o)
        BY <1>2, <1>3, <2>2, <2>3, <2>6 DEF PendingBy, ToPost
      <3>4. Pending(id)' <=> ToPost(n, o)'
        BY <2>3, <3>1, <3>2 DEF Pending, PendingBy
      <3>5. Pending(id) <=> ToPost(n, o)
        BY <3>1, <3>3 DEF Pending, PendingBy
      <3>6. inflight'[n] = inflight[n] \ {p}
        BY <1>2 DEF Checkers, CheckerTypes
      <3>7. CASE e.msg = "WAIT"
        <4>1. o = p /\ ~ToPost(n, o)'
          BY <1>2, <2>2, <2>6, <3>6, <3>7 DEF ToPost
        <4> QED BY <2>4, <2>6, <3>4, <3>7, <4>1 DEF AskKnown
      <3>8. CASE e.msg # "WAIT"
        <4>1. o # p /\ (ToPost(n, o)' <=> ToPost(n, o))
          BY <1>2, <2>2, <2>6, <3>6, <3>8 DEF ToPost
        <4> QED BY <1>8, <2>1, <2>4, <2>6, <3>4, <3>5, <3>8, <4>1 DEF AskKnown
      <3> QED BY <3>7, <3>8
    <2> QED BY <2>5, <2>6
  <1> QED BY <1>2, <1>9, <1>10, <1>11 DEF Asks

\* No step forgets a proposal on its way to the owner, or doubles it.
LEMMA AsksStep == Calls /\ Calls' /\ Checkers /\ Posting /\ Asks /\ [Next]_vars => Asks'
  <1> SUFFICES ASSUME Calls, Calls', Checkers, Posting, Asks, [Next]_vars PROVE Asks'
    OBVIOUS
  <1>1. ASSUME UNCHANGED <<proposals, todo, inflight, inbox, broken>>,
               \A t \in Threads : /\ mine'[t] = mine[t]
                                  /\ pc'[t] = "ask" <=> pc[t] = "ask"
                                  /\ pc'[t] = "post" <=> pc[t] = "post"
        PROVE  Asks'
    BY <1>1, PendingKept, AsksMoved
  <1>2. ASSUME NEW c \in Callers, Link(c) \/ WriteLog(c) \/ Return(c) PROVE Asks'
    BY <1>1, <1>2, CallersAre DEF Link, WriteLog, Return, Calls, CallTypes
  <1>3. ASSUME NEW t \in Threads, ClearWait(t) PROVE Asks'
    BY <1>1, <1>3, CallersAre DEF ClearWait, Calls, CallTypes
  <1>4. ASSUME NEW l \in Links, Receive(l) PROVE Asks'
    BY <1>1, <1>4, CallersAre DEF Receive, Calls, CallTypes
  <1>5. CASE UNCHANGED <<proposals, pc, mine, todo, inflight, inbox, broken>>
    BY <1>1, <1>5
  <1> QED BY <1>2, <1>3, <1>4, <1>5, AsksPropose, AsksAsk, AsksPost, AsksEnd, AsksArrive, AsksBreak
          DEF Next, Progress, Continue, LinkStep, Replay, Arrive, vars

\* Each proposal made elsewhere than at its owner reaches the owner's receiver
\* once, or is still to be posted, or its link is broken (scot-chkr.cc:74-117).
LEMMA AsksHold == Spec => []Asks
  BY CallsHold, CheckersHold, PostingHolds, AsksInit, AsksStep, PTL DEF Spec

(***************************************************************************)
(* Receivers: a busy receiver works on the first entry not handled.        *)
(***************************************************************************)
ReceivedAt(l) ==
  /\ handled[l] \in 0 .. Len(inbox[l])
  /\ mine[l] \in {0} \cup DOMAIN proposals
  /\ pc[l] # "idle" => handled[l] + 1 \in DOMAIN inbox[l] /\ IsWait(l, handled[l] + 1, mine[l])

Received == DOMAIN handled = Links /\ \A l \in Links : ReceivedAt(l)

\* At first nothing is handled.
LEMMA ReceivedInit == Init => Received
  BY CallersAre DEF Init, Received, ReceivedAt, Callers, Receivers

\* What was in a receiver's log stays there.
LEMMA InboxGrows ==
  ASSUME Calls, Checkers, Posting, Asks, [Next]_vars, NEW l \in Links
  PROVE  /\ \A x \in DOMAIN inbox[l] : x \in DOMAIN inbox'[l] /\ inbox'[l][x] = inbox[l][x]
         /\ Len(inbox[l]) \in Nat /\ Len(inbox'[l]) \in Nat
         /\ DOMAIN inbox[l] = 1 .. Len(inbox[l]) /\ DOMAIN inbox'[l] = 1 .. Len(inbox'[l])
         /\ Len(inbox[l]) <= Len(inbox'[l])
  <1>1. inbox \in [Links -> Seq(Messages)]
    BY DEF Checkers, CheckerTypes
  <1> HIDE DEF Messages
  <1>2. ASSUME NEW m \in Links, ArriveAsk(m)
        PROVE  inbox'[l] = inbox[l] \/ \E e \in Messages : inbox'[l] = Append(inbox[l], e)
    <2>1. PICK n \in Nodes, p \in Nodes : m = <<n, p>>
      BY CallersAre
    <2>2. PICK id \in DOMAIN proposals, e \in Messages :
            e.id = id /\ inbox' = [inbox EXCEPT ![m] = Append(@, e)]
      BY <1>2, <2>1, ArrivalIs
    <2> QED BY <1>1, <2>2
  <1>3. (\A m \in Links : ~ArriveAsk(m)) => UNCHANGED inbox
    BY Zenon DEF Next, Progress, Continue, LinkStep, Propose, Link, WriteLog, Return, Ask, PostAsk, EndAsk,
           ClearWait, Receive, Replay, Arrive, Break, vars
  <1>4. inbox'[l] = inbox[l] \/ \E e \in Messages : inbox'[l] = Append(inbox[l], e)
    BY <1>2, <1>3
  <1> QED BY <1>1, <1>4

\* Steps that leave the receiver alone.
LEMMA ReceivedKept ==
  ASSUME Calls, Checkers, Posting, Asks, [Next]_vars, NEW l \in Links, ReceivedAt(l),
         handled'[l] = handled[l], mine'[l] = mine[l], pc'[l] # "idle" => pc[l] # "idle"
  PROVE  ReceivedAt(l)'
  <1>1. \A id \in DOMAIN proposals : id \in DOMAIN proposals'
    BY ProposalsKept
  <1> QED BY <1>1, InboxGrows DEF ReceivedAt, IsWait

\* A receiver takes up the next WAIT, and goes on when it was answered.
LEMMA ReceivedStep == Calls /\ Checkers /\ Posting /\ Asks /\ Received /\ [Next]_vars => Received'
  <1> SUFFICES ASSUME Calls, Checkers, Posting, Asks, Received, [Next]_vars PROVE Received'
    OBVIOUS
  <1> USE DEF Received
  <1>1. ASSUME NEW l \in Links, Receive(l) PROVE Received'
    <2>1. /\ UNCHANGED <<proposals, inbox>> /\ pc[l] = "idle" /\ handled[l] < Len(inbox[l])
          /\ inbox[l] \in Seq(Messages) /\ DOMAIN handled' = Links
      BY <1>1 DEF Receive, Checkers, CheckerTypes
    <2>2. handled[l] + 1 \in DOMAIN inbox[l] /\ handled[l] + 1 \in 0 .. Len(inbox[l])
      <3> HIDE DEF Messages
      <3> QED BY <2>1 DEF ReceivedAt
    <2>3. PICK e : e = inbox[l][handled[l] + 1]
      OBVIOUS
    <2>4. e.id \in DOMAIN proposals
      BY <2>2, <2>3 DEF Asks, InboxSound
    <2>5. \A m \in Links \ {l} : handled'[m] = handled[m] /\ mine'[m] = mine[m] /\ pc'[m] = pc[m]
      BY <1>1, CallersAre DEF Receive, Calls, CallTypes
    <2>6. ReceivedAt(l)'
      <3>1. CASE e.msg = "WAIT"
        <4>1. mine'[l] = e.id /\ handled'[l] = handled[l]
          BY <1>1, <2>3, <3>1, CallersAre DEF Receive, Answers, Calls, CallTypes
        <4> QED BY <2>1, <2>2, <2>3, <2>4, <3>1, <4>1 DEF ReceivedAt, IsWait
      <3>2. CASE e.msg # "WAIT"
        <4>1. mine'[l] = mine[l] /\ handled'[l] = handled[l] + 1 /\ pc'[l] = "idle"
          BY <1>1, <2>1, <2>3, <3>2 DEF Receive, Answers
        <4> QED BY <2>1, <2>2, <4>1 DEF ReceivedAt
      <3> QED BY <3>1, <3>2
    <2> QED BY <2>1, <2>5, <2>6, ReceivedKept
  <1>2. ASSUME NEW c \in Callers, Return(c) PROVE Received'
    <2>1. /\ UNCHANGED <<proposals, mine, inbox>> /\ pc[c] = "poll" /\ pc'[c] = "idle"
          /\ DOMAIN handled' = Links
          /\ \A m \in Links \ {c} : handled'[m] = handled[m] + 0 /\ pc'[m] = pc[m]
          /\ c \in Links => handled'[c] = handled[c] + 1
      BY <1>2, CallersAre DEF Return, Calls, CallTypes
    <2>2. \A m \in Links \ {c} : handled'[m] = handled[m]
      BY <2>1 DEF ReceivedAt
    <2>3. c \in Links => ReceivedAt(c)'
      <3> SUFFICES ASSUME c \in Links PROVE ReceivedAt(c)'
        OBVIOUS
      <3>1. handled[c] + 1 \in 0 .. Len(inbox[c])
        BY <2>1, InboxGrows DEF ReceivedAt
      <3> QED BY <2>1, <3>1 DEF ReceivedAt
    <2> QED BY <2>1, <2>2, <2>3, ReceivedKept
  <1>3. ASSUME NEW c \in Callers, Link(c) \/ WriteLog(c) PROVE Received'
    BY <1>3, ReceivedKept, CallersAre DEF Link, WriteLog, Calls, CallTypes
  <1>4. ASSUME NEW t \in Threads, Ask(t) \/ EndAsk(t) \/ ClearWait(t) PROVE Received'
    BY <1>4, ReceivedKept, CallersAre DEF Ask, EndAsk, ClearWait, Calls, CallTypes
  <1>5. ASSUME NEW t \in Threads, NEW k \in Keys, NEW rule \in Rules, Propose(t, k, rule) PROVE Received'
    BY <1>5, ReceivedKept, CallersAre DEF Propose, Calls, CallTypes
  <1>6. CASE UNCHANGED <<pc, mine, handled>>
    BY <1>6, ReceivedKept
  <1> QED BY <1>1, <1>2, <1>3, <1>4, <1>5, <1>6
          DEF Next, Progress, Continue, LinkStep, PostAsk, Replay, Arrive, ArriveAsk, Break, vars

\* A receiver that runs write_request answers the WAIT it stands at
\* (scot-rcvr.cc:52-63).
LEMMA ReceivedHolds == Spec => []Received
  BY CallsHold, CheckersHold, PostingHolds, AsksHold, ReceivedInit, ReceivedStep, PTL DEF Spec

(***************************************************************************)
(* A broken link has no write on its way, so that nothing arrives over it  *)
(* any more.                                                               *)
(***************************************************************************)
Unbroken == \A n \in Nodes : \A p \in inflight[n] : <<"chkr", <<n, p>>>> \notin broken

\* At first nothing is on its way.
LEMMA UnbrokenInit == Init => Unbroken
  BY DEF Init, Unbroken

\* Nothing is posted over a broken link, and a link loses what it carries.
LEMMA UnbrokenStep == Checkers /\ Unbroken /\ [Next]_vars => Unbroken'
  <1> SUFFICES ASSUME Checkers, Unbroken, [Next]_vars PROVE Unbroken'
    OBVIOUS
  <1>1. CASE UNCHANGED <<inflight, broken>>
    BY <1>1, Zenon DEF Unbroken
  <1>2. ASSUME NEW t \in Threads, PostAsk(t) PROVE Unbroken'
    <2>1. PICK n \in Nodes : n = NodeOf[t]
      BY CallersAre
    <2>2. PICK p : p = todo[n][1]
      OBVIOUS
    <2>3. /\ UNCHANGED broken /\ \A m \in Nodes \ {n} : inflight'[m] = inflight[m]
          /\ inflight'[n] = IF <<"chkr", <<n, p>>>> \in broken THEN inflight[n] ELSE inflight[n] \cup {p}
      BY <1>2, <2>1, <2>2 DEF PostAsk, Checkers, CheckerTypes
    <2> QED BY <2>3, Zenon DEF Unbroken
  <1>3. ASSUME NEW l \in Links, ArriveAsk(l) PROVE Unbroken'
    BY <1>3, CallersAre, Zenon DEF ArriveAsk, Unbroken, Checkers, CheckerTypes
  <1>4. ASSUME NEW kind \in {"rpli", "chkr"}, NEW l \in Links, Break(kind, l) PROVE Unbroken'
    <2>1. PICK n \in Nodes, p \in Nodes : n = l[1] /\ p = l[2] /\ l = <<n, p>>
      BY CallersAre
    <2>2. /\ broken' = broken \cup {<<kind, <<n, p>>>>}
          /\ \A m \in Nodes \ {n} : inflight'[m] = inflight[m]
          /\ inflight'[n] = IF kind = "chkr" THEN inflight[n] \ {p} ELSE inflight[n]
      BY <1>4, <2>1 DEF Break, Checkers, CheckerTypes
    <2> QED BY <2>2, Zenon DEF Unbroken
  <1> QED BY <1>1, <1>2, <1>3, <1>4, Zenon
          DEF Next, Progress, Continue, LinkStep, Propose, Link, WriteLog, Return, Ask, EndAsk,
              ClearWait, Receive, Replay, Arrive, vars

\* What a link has swallowed is followed by nothing.
LEMMA UnbrokenHolds == Spec => []Unbroken
  BY CheckersHold, UnbrokenInit, UnbrokenStep, PTL DEF Spec

(***************************************************************************)
(* Order: a thread's proposals for one owner arrive in the order in which  *)
(* the thread made them.                                                   *)
(***************************************************************************)
Earlier(i, j) ==
  i < j /\ proposals[i].thread = proposals[j].thread /\ Owner(i) = Owner(j)

AskedInOrder ==
  \A l \in Links : \A y \in DOMAIN inbox[l] : \A i, j \in DOMAIN proposals :
    IsWait(l, y, j) /\ Earlier(i, j) => \E x \in DOMAIN inbox[l] : x < y /\ IsWait(l, x, i)

\* At first nothing was asked.
LEMMA OrderInit == Init => AskedInOrder
  BY DEF Init, AskedInOrder

\* All a thread's earlier proposals have reached the owner, or their link is
\* broken.
LEMMA EarlierWasHeard ==
  ASSUME Calls, Asks, NEW i \in DOMAIN proposals, NEW j \in DOMAIN proposals, Earlier(i, j), Remote(j)
  PROVE  Way(i) = Way(j) /\ (Heard(i) \/ Cut(j))
  <1>1. Way(i) = Way(j) /\ Remote(i)
    BY DEF Earlier, Way, Remote, Proposer
  <1>2. ASSUME NEW t \in Threads PROVE ~PendingBy(t, i)
    <2>1. j <= mine[t] \/ proposals[j].thread # t
      BY DEF Calls, CallsOwned
    <2>2. mine[t] = i => i # 0 /\ proposals[i].thread = t
      BY DEF Calls, CallTypes, CallsOwned
    <2> QED BY <2>1, <2>2 DEF PendingBy, Earlier, Calls, CallTypes
  <1> QED BY <1>1, <1>2 DEF Asks, AskKnown, Pending, Cut

\* What arrives is behind all its thread asked for before.
LEMMA OrderArrive ==
  ASSUME Calls, Checkers, Posting, Asks, Unbroken, AskedInOrder, NEW l \in Links, ArriveAsk(l)
  PROVE  AskedInOrder'
  <1>1. PICK n \in Nodes, p \in Nodes : n = l[1] /\ p = l[2] /\ l = <<n, p>>
    BY CallersAre
  <1>2. PICK id \in DOMAIN proposals, e \in Messages :
           /\ e.id = id /\ inbox' = [inbox EXCEPT ![l] = Append(@, e)]
           /\ Proposer(id) = n /\ Remote(id)
           /\ e.msg = "WAIT" <=> p = Owner(id)
           /\ UNCHANGED <<proposals, broken>>
           /\ p \in inflight[n]
    BY <1>1, ArrivalIs
  <1>3. PICK z : z = Len(inbox[l]) + 1
    OBVIOUS
  <1>4. /\ \A m \in Links \ {l} : inbox'[m] = inbox[m]
        /\ DOMAIN inbox'[l] = DOMAIN inbox[l] \cup {z} /\ \A x \in DOMAIN inbox[l] : x < z
        /\ inbox'[l][z] = e /\ \A x \in DOMAIN inbox[l] : inbox'[l][x] = inbox[l][x]
    <2>1. inbox \in [Links -> Seq(Messages)]
      BY DEF Checkers, CheckerTypes
    <2> HIDE DEF Messages
    <2>2. inbox'[l] = Append(inbox[l], e) /\ inbox[l] \in Seq(Messages)
      BY <1>2, <2>1
    <2>3. \A m \in Links \ {l} : inbox'[m] = inbox[m]
      BY <1>2, <2>1
    <2> QED BY <1>3, <2>2, <2>3
  <1>5. ASSUME NEW m \in Links, NEW y \in DOMAIN inbox'[m],
               NEW i \in DOMAIN proposals, NEW j \in DOMAIN proposals,
               inbox'[m][y].msg = "WAIT", inbox'[m][y].id = j, Earlier(i, j)
        PROVE  \E x \in DOMAIN inbox'[m] : x < y /\ inbox'[m][x].msg = "WAIT" /\ inbox'[m][x].id = i
    <2>1. CASE m # l \/ y \in DOMAIN inbox[l]
      <3>1. y \in DOMAIN inbox[m] /\ IsWait(m, y, j)
        BY <1>4, <1>5, <2>1 DEF IsWait
      <3>2. PICK x \in DOMAIN inbox[m] : x < y /\ IsWait(m, x, i)
        BY <1>5, <3>1 DEF AskedInOrder
      <3> QED BY <1>4, <3>2 DEF IsWait
    <2>2. CASE m = l /\ y = z
      <3>1. j = id /\ Way(j) = l
        BY <1>1, <1>2, <1>4, <1>5, <2>2 DEF Way
      <3>2. Way(i) = l /\ Heard(i)
        BY <1>1, <1>2, <1>5, <2>2, <3>1, EarlierWasHeard, Zenon DEF Cut, Unbroken
      <3>3. PICK x \in DOMAIN inbox[l] : inbox[l][x].msg = "WAIT" /\ inbox[l][x].id = i
        BY <3>2 DEF Heard, IsWait
      <3> QED BY <1>4, <2>2, <3>3
    <2> QED BY <1>4, <2>1, <2>2
  <1> QED BY <1>2, <1>5 DEF AskedInOrder, IsWait, Earlier, Owner

\* Whatever else happens, the order of what arrived stays.
LEMMA OrderStep ==
  Calls /\ Calls' /\ Checkers /\ Posting /\ Asks /\ Unbroken /\ AskedInOrder /\ [Next]_vars => AskedInOrder'
  <1> SUFFICES ASSUME Calls, Calls', Checkers, Posting, Asks, Unbroken, AskedInOrder, [Next]_vars PROVE AskedInOrder'
    OBVIOUS
  <1>1. CASE UNCHANGED inbox
    <2> SUFFICES ASSUME NEW l \in Links, NEW y \in DOMAIN inbox[l],
                        NEW i \in DOMAIN proposals', NEW j \in DOMAIN proposals',
                        inbox[l][y].msg = "WAIT", inbox[l][y].id = j, Earlier(i, j)'
                 PROVE  \E x \in DOMAIN inbox[l] : x < y /\ inbox[l][x].msg = "WAIT" /\ inbox[l][x].id = i
      BY <1>1 DEF AskedInOrder, IsWait
    <2>1. j \in DOMAIN proposals
      BY DEF Asks, InboxSound
    <2>2. i \in DOMAIN proposals
      BY <2>1 DEF Earlier, Calls, CallTypes
    <2>3. Earlier(i, j)
      BY <2>1, <2>2, ProposalsKept DEF Earlier
    <2> QED BY <2>1, <2>2, <2>3 DEF AskedInOrder, IsWait
  <1> QED BY <1>1, OrderArrive, Zenon
          DEF Next, Progress, Continue, LinkStep, Propose, Link, WriteLog, Return, Ask, PostAsk, EndAsk,
              ClearWait, Receive, Replay, Arrive, Break, vars

\* A peer is asked for a thread's proposals in their order.
LEMMA OrderHolds == Spec => []AskedInOrder
  BY CallsHold, CheckersHold, PostingHolds, AsksHold, UnbrokenHolds, OrderInit, OrderStep, PTL DEF Spec

(***************************************************************************)
(* Linked: what the owner has linked are the proposals it has taken up,    *)
(* each once.                                                              *)
(***************************************************************************)
IsLinked(id) ==
  \E i \in DOMAIN linked[Owner(id)][Key(id)] : linked[Owner(id)][Key(id)][i] = id

\* The receiver of l has linked what it was asked for with entry x.
Done(l, x) == x <= handled[l] \/ (x = handled[l] + 1 /\ pc[l] \in {"log", "poll"})

TakenUp(id) ==
  IF Remote(id) THEN \E x \in DOMAIN inbox[Way(id)] : IsWait(Way(id), x, id) /\ Done(Way(id), x)
                ELSE \A t \in Threads : ~(pc[t] = "link" /\ mine[t] = id)

LinkedSound ==
  /\ linked \in [Nodes -> [Keys -> Seq(Ids)]]
  /\ \A n \in Nodes, k \in Keys : \A i \in DOMAIN linked[n][k] :
       /\ linked[n][k][i] \in DOMAIN proposals
       /\ Owner(linked[n][k][i]) = n /\ Key(linked[n][k][i]) = k
       /\ \A j \in DOMAIN linked[n][k] : linked[n][k][i] = linked[n][k][j] => i = j

Linked ==
  /\ LinkedSound
  /\ \A id \in DOMAIN proposals : IsLinked(id) <=> TakenUp(id)

\* At first nothing is linked.
LEMMA LinkedInit == Init => Linked
  BY DEF Init, Linked, LinkedSound

\* Steps that link nothing and propose nothing.
LEMMA LinkedMoved ==
  ASSUME Linked, UNCHANGED <<proposals, linked>>,
         \A id \in DOMAIN proposals : TakenUp(id)' <=> TakenUp(id)
  PROVE  Linked'
  <1>1. LinkedSound'
    BY DEF Linked, LinkedSound, Owner, Key
  <1>2. \A id \in DOMAIN proposals : IsLinked(id)' <=> IsLinked(id)
    BY DEF IsLinked, Owner, Key
  <1> QED BY <1>1, <1>2 DEF Linked

\* A proposal is taken up as long as no thread is about to link it, and what
\* arrives for a receiver is not taken up yet.
LEMMA TakenUpKept ==
  ASSUME Calls, Checkers, Posting, Asks, Received, [Next]_vars, UNCHANGED proposals,
         \A t \in Threads : (pc'[t] = "link" <=> pc[t] = "link") /\ mine'[t] = mine[t],
         \A l \in Links : handled'[l] = handled[l]
                          /\ (pc'[l] \in {"log", "poll"} <=> pc[l] \in {"log", "poll"}),
         NEW id \in DOMAIN proposals
  PROVE  TakenUp(id)' <=> TakenUp(id)
  <1>1. (Remote(id)' <=> Remote(id)) /\ Way(id)' = Way(id)
    BY DEF Remote, Way, Owner, Proposer
  <1>2. CASE ~Remote(id)
    BY <1>1, <1>2 DEF TakenUp
  <1>3. CASE Remote(id)
    <2>1. PICK l : l = Way(id)
      OBVIOUS
    <2>2. l \in Links /\ l = Way(id)'
      BY <1>1, <1>3, <2>1, ProposalIsTyped, CallersAre DEF Way, Remote, Links
    <2>3. \A x : Done(l, x)' <=> Done(l, x)
      BY <2>2 DEF Done
    <2>4. \A x : Done(l, x) /\ x \in DOMAIN inbox'[l] => x \in DOMAIN inbox[l]
      BY <2>2, InboxGrows DEF Done, Received, ReceivedAt
    <2>5. \A x \in DOMAIN inbox[l] : x \in DOMAIN inbox'[l] /\ inbox'[l][x] = inbox[l][x]
      BY <2>2, InboxGrows
    <2>6. TakenUp(id) <=> \E x \in DOMAIN inbox[l] : inbox[l][x].msg = "WAIT" /\ inbox[l][x].id = id /\ Done(l, x)
      BY <1>3, <2>1 DEF TakenUp, IsWait
    <2>7. TakenUp(id)' <=> \E x \in DOMAIN inbox'[l] : inbox'[l][x].msg = "WAIT" /\ inbox'[l][x].id = id /\ Done(l, x)'
      BY <1>1, <1>3, <2>2 DEF TakenUp, IsWait
    <2> QED BY <2>3, <2>4, <2>5, <2>6, <2>7
  <1> QED BY <1>2, <1>3

\* Steps of one receiver that neither link nor add to its log.
LEMMA TakenUpReceiver ==
  ASSUME Calls, Asks, UNCHANGED <<proposals, inbox>>, NEW l \in Links,
         \A t \in Threads : pc'[t] = pc[t] /\ mine'[t] = mine[t],
         \A m \in Links \ {l} : handled'[m] = handled[m] /\ pc'[m] = pc[m],
         \A x \in DOMAIN inbox[l] : inbox[l][x].msg = "WAIT" => (Done(l, x)' <=> Done(l, x)),
         NEW id \in DOMAIN proposals
  PROVE  TakenUp(id)' <=> TakenUp(id)
  <1>1. (Remote(id)' <=> Remote(id)) /\ Way(id)' = Way(id)
    BY DEF Remote, Way, Owner, Proposer
  <1>2. CASE ~Remote(id)
    BY <1>1, <1>2 DEF TakenUp
  <1>3. CASE Remote(id)
    <2>1. PICK m : m = Way(id)
      OBVIOUS
    <2>2. m \in Links /\ m = Way(id)'
      BY <1>1, <1>3, <2>1, ProposalIsTyped, CallersAre DEF Way, Remote, Links
    <2>3. \A x \in DOMAIN inbox[m] : inbox[m][x].msg = "WAIT" => (Done(m, x)' <=> Done(m, x))
      <3>1. CASE m = l
        BY <3>1
      <3>2. CASE m # l
        BY <2>2, <3>2 DEF Done
      <3> QED BY <3>1, <3>2
    <2>4. TakenUp(id) <=> \E x \in DOMAIN inbox[m] : inbox[m][x].msg = "WAIT" /\ inbox[m][x].id = id /\ Done(m, x)
      BY <1>3, <2>1 DEF TakenUp, IsWait
    <2>5. TakenUp(id)' <=> \E x \in DOMAIN inbox'[m] : inbox'[m][x].msg = "WAIT" /\ inbox'[m][x].id = id /\ Done(m, x)'
      BY <1>1, <1>3, <2>2 DEF TakenUp, IsWait
    <2> QED BY <2>3, <2>4, <2>5
  <1> QED BY <1>2, <1>3

\* A new proposal is not linked.
LEMMA LinkedPropose ==
  ASSUME Calls, Calls', Asks, Linked, NEW t \in Threads, NEW k \in Keys, NEW rule \in Rules, Propose(t, k, rule)
  PROVE  Linked'
  <1> DEFINE new == [thread |-> t, key |-> k, owner |-> rule[k]]
  <1>1. /\ proposals' = Append(proposals, new) /\ new.thread = t /\ new.owner = rule[k]
        /\ proposals \in Seq(Proposals)
        /\ mine' = [mine EXCEPT ![t] = Len(proposals')]
        /\ pc[t] = "idle" /\ pc' = [pc EXCEPT ![t] = IF rule[k] = NodeOf[t] THEN "link" ELSE "ask"]
        /\ UNCHANGED <<linked, inbox, handled>>
    BY DEF Propose, Judge, Calls, CallTypes
  <1> HIDE DEF new
  <1>2. PICK n : n = Len(proposals) + 1
    OBVIOUS
  <1>3. /\ DOMAIN proposals' = DOMAIN proposals \cup {n} /\ n \notin DOMAIN proposals
        /\ proposals'[n] = new /\ \A id \in DOMAIN proposals : proposals'[id] = proposals[id]
    BY <1>1, <1>2
  <1>4. /\ \A u \in Callers \ {t} : mine'[u] = mine[u] /\ pc'[u] = pc[u]
        /\ mine'[t] = n /\ pc'[t] = IF rule[k] = NodeOf[t] THEN "link" ELSE "ask"
    BY <1>1, <1>2, CallersAre DEF Calls, CallTypes
  <1>5. \A id \in DOMAIN proposals : /\ id # n /\ Owner(id)' = Owner(id) /\ Proposer(id)' = Proposer(id)
                                     /\ Key(id)' = Key(id) /\ Way(id)' = Way(id) /\ (Remote(id)' <=> Remote(id))
    BY <1>3 DEF Owner, Proposer, Way, Key, Remote
  <1>6. LinkedSound'
    <2> SUFFICES ASSUME NEW m \in Nodes, NEW h \in Keys, NEW i \in DOMAIN linked[m][h]
                 PROVE  /\ linked[m][h][i] \in DOMAIN proposals'
                        /\ proposals'[linked[m][h][i]].owner = m /\ proposals'[linked[m][h][i]].key = h
                        /\ \A j \in DOMAIN linked[m][h] : linked[m][h][i] = linked[m][h][j] => i = j
      BY <1>1 DEF Linked, LinkedSound, Owner, Key
    <2> QED BY <1>3 DEF Linked, LinkedSound, Owner, Key
  <1>7. ASSUME NEW id \in DOMAIN proposals PROVE IsLinked(id)' <=> TakenUp(id)'
    <2>1. IsLinked(id)' <=> IsLinked(id)
      BY <1>1, <1>5 DEF IsLinked
    <2>2. CASE ~Remote(id)
      BY <1>4, <1>5, <2>1, <2>2, <1>1, CallersAre DEF Linked, TakenUp
    <2>3. CASE Remote(id)
      <3>1. PICK l : l = Way(id)
        OBVIOUS
      <3>2. l \in Links /\ l = Way(id)'
        BY <1>5, <2>3, <3>1, ProposalIsTyped, CallersAre DEF Way, Remote, Links
      <3>3. \A x : Done(l, x)' <=> Done(l, x)
        BY <1>1, <1>4, <3>2, CallersAre DEF Done
      <3>4. TakenUp(id) <=> \E x \in DOMAIN inbox[l] : inbox[l][x].msg = "WAIT" /\ inbox[l][x].id = id /\ Done(l, x)
        BY <2>3, <3>1 DEF TakenUp, IsWait
      <3>5. TakenUp(id)' <=> \E x \in DOMAIN inbox'[l] : inbox'[l][x].msg = "WAIT" /\ inbox'[l][x].id = id /\ Done(l, x)'
        BY <1>5, <2>3, <3>2 DEF TakenUp, IsWait
      <3> QED BY <1>1, <2>1, <3>3, <3>4, <3>5 DEF Linked
    <2> QED BY <2>2, <2>3
  <1>8. ~IsLinked(n)'
    <2>1. Owner(n)' \in Nodes /\ Key(n)' \in Keys
      BY <1>1, <1>3, RulesAssumption DEF Owner, Key, new
    <2> QED BY <1>1, <1>3, <2>1 DEF IsLinked, Linked, LinkedSound
  <1>9. ~TakenUp(n)'
    <2>1. Proposer(n)' = NodeOf[t] /\ Owner(n)' = rule[k]
      BY <1>1, <1>3 DEF Proposer, Owner
    <2>2. CASE Remote(n)'
      <3>1. Way(n)' \in Links
        <4>1. rule[k] \in Nodes
          BY RulesAssumption
        <4> QED BY <2>1, <2>2, <4>1, CallersAre DEF Way, Remote, Links
      <3> QED BY <1>1, <1>3, <2>2, <3>1 DEF TakenUp, IsWait, Asks, InboxSound
    <2>3. CASE ~Remote(n)'
      BY <1>4, <2>1, <2>3 DEF TakenUp, Remote
    <2> QED BY <2>2, <2>3
  <1> QED BY <1>3, <1>6, <1>7, <1>8, <1>9 DEF Linked

\* What a caller in write_request works on, and where.
LEMMA WriterIs ==
  ASSUME Calls, Asks, Received, NEW c \in Callers, pc[c] \in Writing
  PROVE  \E id \in DOMAIN proposals :
           /\ mine[c] = id /\ Owner(id) = Home(c) /\ Home(c) \in Nodes /\ Key(id) \in Keys /\ id \in Ids
           /\ c \in Threads => ~Remote(id) /\ proposals[id].thread = c
           /\ c \in Links => Remote(id) /\ Way(id) = c /\ handled[c] + 1 \in DOMAIN inbox[c]
                             /\ IsWait(c, handled[c] + 1, id)
  <1>1. CASE c \in Threads
    <2>1. /\ mine[c] \in DOMAIN proposals /\ proposals[mine[c]].thread = c
          /\ Owner(mine[c]) = NodeOf[c] /\ c \notin Links /\ Home(c) = NodeOf[c] /\ NodeOf[c] \in Nodes
      BY <1>1, CallersAre DEF Calls, CallTypes, CallsOwned, Writing
    <2>2. PICK id \in DOMAIN proposals : id = mine[c]
      BY <2>1
    <2>3. ~Remote(id) /\ Key(id) \in Keys /\ id \in Ids
      BY <2>1, <2>2, ProposalIsTyped DEF Remote, Proposer
    <2> QED BY <2>1, <2>2, <2>3
  <1>2. CASE c \in Links
    <2>1. /\ c \notin Threads /\ Home(c) = c[2] /\ c[2] \in Nodes /\ c[1] # c[2] /\ c = <<c[1], c[2]>>
          /\ handled[c] + 1 \in DOMAIN inbox[c] /\ IsWait(c, handled[c] + 1, mine[c])
      BY <1>2, CallersAre DEF Received, ReceivedAt, Writing
    <2>2. mine[c] \in DOMAIN proposals /\ Way(mine[c]) = c
      BY <1>2, <2>1 DEF IsWait, Asks, InboxSound
    <2>3. PICK id \in DOMAIN proposals : id = mine[c]
      BY <2>2
    <2>4. Way(id) = c /\ Owner(id) = c[2] /\ Remote(id) /\ Key(id) \in Keys /\ id \in Ids
      BY <2>1, <2>2, <2>3, ProposalIsTyped DEF Way, Remote
    <2> QED BY <2>1, <2>3, <2>4
  <1> QED BY <1>1, <1>2, CallersAre

\* A caller that is about to link its proposal is the first to do so, and the
\* proposal is taken up with that.
LEMMA LinkTakesUp ==
  ASSUME Calls, Asks, Received, NEW c \in Callers, Link(c),
         NEW id \in DOMAIN proposals, mine[c] = id
  PROVE  /\ ~TakenUp(id) /\ TakenUp(id)'
         /\ \A r \in DOMAIN proposals \ {id} : TakenUp(r)' <=> TakenUp(r)
  <1>1. /\ pc[c] = "link" /\ pc'[c] = "log" /\ \A d \in Callers \ {c} : pc'[d] = pc[d]
        /\ UNCHANGED <<proposals, mine, inbox, handled>>
    BY DEF Link, Calls, CallTypes
  <1>2. /\ c \in Threads => ~Remote(id) /\ proposals[id].thread = c
        /\ c \in Links => Remote(id) /\ Way(id) = c /\ handled[c] + 1 \in DOMAIN inbox[c]
                          /\ IsWait(c, handled[c] + 1, id)
    BY <1>1, WriterIs DEF Writing
  <1>3. \A r : Way(r)' = Way(r) /\ (Remote(r)' <=> Remote(r))
    BY <1>1 DEF Way, Remote, Proposer, Owner
  <1>4. CASE c \in Threads
    <2>1. ~TakenUp(id)
      BY <1>1, <1>2, <1>4 DEF TakenUp
    <2>2. \A t \in Threads : pc'[t] = "link" => mine'[t] # id
      BY <1>1, <1>2, <1>4, CallersAre DEF Calls, CallTypes, CallsOwned
    <2>3. TakenUp(id)'
      BY <1>2, <1>3, <1>4, <2>2 DEF TakenUp
    <2>4. ASSUME NEW r \in DOMAIN proposals \ {id} PROVE TakenUp(r)' <=> TakenUp(r)
      <3>1. CASE ~Remote(r)
        BY <1>1, <1>3, <2>4, <3>1, CallersAre DEF TakenUp
      <3>2. CASE Remote(r)
        <4>1. PICK l : l = Way(r)
          OBVIOUS
        <4>2. l \in Links /\ l = Way(r)'
          BY <1>3, <3>2, <4>1, ProposalIsTyped, CallersAre DEF Way, Remote, Links
        <4>3. \A x : (Done(l, x)' <=> Done(l, x)) /\ (IsWait(l, x, r)' <=> IsWait(l, x, r))
          BY <1>1, <1>4, <4>2, CallersAre DEF Done, IsWait
        <4>4. TakenUp(r)' <=> \E x \in DOMAIN inbox'[l] : IsWait(l, x, r)' /\ Done(l, x)'
          BY <1>3, <3>2, <4>2 DEF TakenUp, IsWait
        <4> QED BY <1>1, <3>2, <4>1, <4>3, <4>4 DEF TakenUp
      <3> QED BY <3>1, <3>2
    <2> QED BY <2>1, <2>3, <2>4
  <1>5. CASE c \in Links
    <2>1. PICK z : z = handled[c] + 1
      OBVIOUS
    <2>2. z \in DOMAIN inbox[c] /\ inbox[c][z].msg = "WAIT" /\ inbox[c][z].id = id
      BY <1>2, <1>5, <2>1 DEF IsWait
    <2>3. ~Done(c, z) /\ Done(c, z)' /\ \A x : x # z => (Done(c, x)' <=> Done(c, x))
      <3>1. handled[c] \in Int
        BY <1>5 DEF Received, ReceivedAt
      <3> QED BY <1>1, <2>1, <3>1 DEF Done
    <2>4. TakenUp(id) <=> \E x \in DOMAIN inbox[c] : inbox[c][x].msg = "WAIT" /\ inbox[c][x].id = id /\ Done(c, x)
      BY <1>2, <1>5 DEF TakenUp, IsWait
    <2>5. TakenUp(id)' <=> \E x \in DOMAIN inbox[c] : inbox[c][x].msg = "WAIT" /\ inbox[c][x].id = id /\ Done(c, x)'
      BY <1>1, <1>2, <1>3, <1>5 DEF TakenUp, IsWait
    <2>6. ~TakenUp(id) /\ TakenUp(id)'
      BY <1>5, <2>2, <2>3, <2>4, <2>5 DEF Asks, HeardOnce
    <2>7. ASSUME NEW r \in DOMAIN proposals \ {id} PROVE TakenUp(r)' <=> TakenUp(r)
      <3>1. CASE ~Remote(r)
        BY <1>1, <1>3, <1>5, <3>1, CallersAre DEF TakenUp
      <3>2. CASE Remote(r)
        <4>1. PICK l : l = Way(r)
          OBVIOUS
        <4>2. l \in Links /\ l = Way(r)'
          BY <1>3, <3>2, <4>1, ProposalIsTyped, CallersAre DEF Way, Remote, Links
        <4>3. TakenUp(r) <=> \E x \in DOMAIN inbox[l] : inbox[l][x].msg = "WAIT" /\ inbox[l][x].id = r /\ Done(l, x)
          BY <3>2, <4>1 DEF TakenUp, IsWait
        <4>4. TakenUp(r)' <=> \E x \in DOMAIN inbox[l] : inbox[l][x].msg = "WAIT" /\ inbox[l][x].id = r /\ Done(l, x)'
          BY <1>1, <1>3, <3>2, <4>2 DEF TakenUp, IsWait
        <4>5. l # c => \A x : Done(l, x)' <=> Done(l, x)
          BY <1>1, <4>2, CallersAre DEF Done
        <4> QED BY <2>2, <2>3, <4>3, <4>4, <4>5
      <3> QED BY <3>1, <3>2
    <2> QED BY <2>6, <2>7
  <1> QED BY <1>4, <1>5, CallersAre

\* The proposal id becomes the z-th version of its key k at its owner n.
BecomesNewest(c, id, n, k, z) ==
  /\ mine[c] = id /\ Home(c) = n /\ Owner(id) = n /\ Key(id) = k /\ id \in Ids
  /\ UNCHANGED <<proposals, mine, writer, log, inbox, handled, broken, arrived, applied>>
  /\ pc[c] = "link" /\ pc' = [pc EXCEPT ![c] = "log"]
  /\ \A m \in Nodes, h \in Keys : m # n \/ h # k => linked'[m][h] = linked[m][h]
  /\ DOMAIN linked[n][k] = 1 .. z - 1 /\ DOMAIN linked'[n][k] = 1 .. z
  /\ DOMAIN linked'[n][k] = DOMAIN linked[n][k] \cup {z} /\ z \notin DOMAIN linked[n][k]
  /\ linked'[n][k][z] = id /\ Len(linked'[n][k]) = z
  /\ \A i \in DOMAIN linked[n][k] : linked'[n][k][i] = linked[n][k][i]
  /\ linked' \in [Nodes -> [Keys -> Seq(Ids)]]

LEMMA LinkAppends ==
  ASSUME Calls, Asks, Received, Linked, NEW c \in Callers, Link(c)
  PROVE  \E id \in DOMAIN proposals, n \in Nodes, k \in Keys, z \in Nat \ {0} : BecomesNewest(c, id, n, k, z)
  <1>1. pc[c] = "link"
    BY DEF Link
  <1>2. PICK id \in DOMAIN proposals :
          mine[c] = id /\ Owner(id) = Home(c) /\ Home(c) \in Nodes /\ Key(id) \in Keys /\ id \in Ids
    BY <1>1, WriterIs DEF Writing
  <1>3. PICK n \in Nodes : n = Home(c)
    BY <1>2
  <1>4. PICK k \in Keys : k = Key(id)
    BY <1>2
  <1>5. linked \in [Nodes -> [Keys -> Seq(Ids)]]
    BY DEF Linked, LinkedSound
  <1>6. linked' = [linked EXCEPT ![n][k] = Append(linked[n][k], id)]
    BY <1>2, <1>3, <1>4, <1>5 DEF Link
  <1>7. PICK s \in Seq(Ids) : s = linked[n][k]
    BY <1>5
  <1>8. PICK r \in Seq(Ids) : r = Append(s, id)
    <2>1. id \in Ids
      BY <1>2
    <2>2. Append(s, id) \in Seq(Ids)
      BY <1>7, <2>1
    <2> QED BY <2>2
  <1>9. /\ linked'[n][k] = r /\ linked' \in [Nodes -> [Keys -> Seq(Ids)]]
        /\ \A m \in Nodes, h \in Keys : m # n \/ h # k => linked'[m][h] = linked[m][h]
    BY <1>5, <1>6, <1>7, <1>8
  <1>10. PICK z \in Nat \ {0} : z = Len(s) + 1
    BY <1>7
  <1>11. /\ DOMAIN s = 1 .. z - 1 /\ DOMAIN r = 1 .. z /\ r[z] = id /\ Len(r) = z
         /\ DOMAIN r = DOMAIN s \cup {z} /\ z \notin DOMAIN s
         /\ \A i \in DOMAIN s : r[i] = s[i]
    BY <1>7, <1>8, <1>10
  <1>12. /\ UNCHANGED <<proposals, mine, writer, log, inbox, handled, broken, arrived, applied>>
         /\ pc' = [pc EXCEPT ![c] = "log"]
    BY DEF Link
  <1>13. BecomesNewest(c, id, n, k, z)
    BY <1>1, <1>2, <1>3, <1>4, <1>7, <1>9, <1>11, <1>12 DEF BecomesNewest
  <1> QED BY <1>2, <1>3, <1>4, <1>10, <1>13

\* It is linked for the first time.
LEMMA LinkedLink ==
  ASSUME Calls, Asks, Received, Linked, NEW c \in Callers, Link(c)
  PROVE  Linked'
  <1>0. PICK id \in DOMAIN proposals, n \in Nodes, k \in Keys, z \in Nat \ {0} : BecomesNewest(c, id, n, k, z)
    BY LinkAppends
  <1>1. /\ mine[c] = id /\ Owner(id) = n /\ Key(id) = k
        /\ UNCHANGED proposals
        /\ \A m \in Nodes, h \in Keys : m # n \/ h # k => linked'[m][h] = linked[m][h]
        /\ DOMAIN linked'[n][k] = DOMAIN linked[n][k] \cup {z} /\ z \notin DOMAIN linked[n][k]
        /\ linked'[n][k][z] = id
        /\ \A i \in DOMAIN linked[n][k] : linked'[n][k][i] = linked[n][k][i]
        /\ linked' \in [Nodes -> [Keys -> Seq(Ids)]]
    BY <1>0 DEF BecomesNewest
  <1>2. /\ ~TakenUp(id) /\ TakenUp(id)'
        /\ \A r \in DOMAIN proposals \ {id} : TakenUp(r)' <=> TakenUp(r)
    BY <1>1, LinkTakesUp
  <1>3. \A i \in DOMAIN linked[n][k] : linked[n][k][i] # id
    BY <1>1, <1>2 DEF Linked, IsLinked
  <1>4. \A r : Owner(r)' = Owner(r) /\ Key(r)' = Key(r)
    BY <1>1 DEF Owner, Key
  <1>5. LinkedSound'
    <2>1. ASSUME NEW m \in Nodes, NEW h \in Keys, NEW i \in DOMAIN linked'[m][h]
          PROVE  /\ linked'[m][h][i] \in DOMAIN proposals
                 /\ proposals[linked'[m][h][i]].owner = m /\ proposals[linked'[m][h][i]].key = h
                 /\ \A j \in DOMAIN linked'[m][h] : linked'[m][h][i] = linked'[m][h][j] => i = j
      <3>1. CASE m # n \/ h # k
        BY <1>1, <3>1, <2>1 DEF Linked, LinkedSound, Owner, Key
      <3>2. CASE m = n /\ h = k
        <4>1. \A j \in DOMAIN linked'[n][k] : j = z \/ (j \in DOMAIN linked[n][k] /\ linked'[n][k][j] = linked[n][k][j])
          BY <1>1
        <4>2. ASSUME NEW j \in DOMAIN linked'[n][k]
              PROVE  /\ linked'[n][k][j] \in DOMAIN proposals
                     /\ Owner(linked'[n][k][j]) = n /\ Key(linked'[n][k][j]) = k
          BY <1>1, <4>1, <4>2 DEF Linked, LinkedSound
        <4>3. \A j \in DOMAIN linked'[n][k] : linked'[n][k][i] = linked'[n][k][j] => i = j
          BY <1>1, <1>3, <2>1, <3>2, <4>1 DEF Linked, LinkedSound
        <4> QED BY <2>1, <3>2, <4>2, <4>3 DEF Owner, Key
      <3> QED BY <3>1, <3>2
    <2> QED BY <1>1, <2>1 DEF LinkedSound, Owner, Key
  <1>6. ASSUME NEW r \in DOMAIN proposals PROVE IsLinked(r)' <=> (IsLinked(r) \/ r = id)
    <2>1. PICK m \in Nodes, h \in Keys : m = Owner(r) /\ h = Key(r)
      BY ProposalIsTyped
    <2>2. m = Owner(r)' /\ h = Key(r)'
      BY <1>4, <2>1
    <2>3. IsLinked(r) <=> \E i \in DOMAIN linked[m][h] : linked[m][h][i] = r
      BY <2>1 DEF IsLinked
    <2>4. IsLinked(r)' <=> \E i \in DOMAIN linked'[m][h] : linked'[m][h][i] = r
      BY <2>2 DEF IsLinked
    <2>5. CASE m # n \/ h # k
      BY <1>1, <2>1, <2>3, <2>4, <2>5
    <2>6. CASE m = n /\ h = k
      <3> QED BY <1>1, <2>3, <2>4, <2>6
    <2> QED BY <2>5, <2>6
  <1> QED BY <1>1, <1>2, <1>5, <1>6 DEF Linked

\* Whatever happens, exactly what is taken up is linked.
LEMMA LinkedStep ==
  Calls /\ Calls' /\ Checkers /\ Posting /\ Asks /\ Received /\ Linked /\ [Next]_vars => Linked'
  <1> SUFFICES ASSUME Calls, Calls', Checkers, Posting, Asks, Received, Linked, [Next]_vars PROVE Linked'
    OBVIOUS
  <1>1. ASSUME UNCHANGED <<proposals, linked, handled>>,
               \A t \in Threads : (pc'[t] = "link" <=> pc[t] = "link") /\ mine'[t] = mine[t],
               \A l \in Links : pc'[l] \in {"log", "poll"} <=> pc[l] \in {"log", "poll"}
        PROVE  Linked'
    BY <1>1, TakenUpKept, LinkedMoved
  <1>2. ASSUME NEW t \in Threads, Ask(t) \/ EndAsk(t) \/ ClearWait(t) PROVE Linked'
    BY <1>1, <1>2, CallersAre DEF Ask, EndAsk, ClearWait, Calls, CallTypes
  <1>3. ASSUME NEW c \in Callers, WriteLog(c) PROVE Linked'
    BY <1>1, <1>3, CallersAre DEF WriteLog, Calls, CallTypes
  <1>4. ASSUME NEW c \in Callers, Return(c) PROVE Linked'
    <2>1. /\ UNCHANGED <<proposals, linked, mine, inbox>> /\ pc[c] = "poll" /\ pc'[c] = "idle"
          /\ \A d \in Callers \ {c} : pc'[d] = pc[d]
          /\ \A l \in Links : handled'[l] = handled[l] + IF l = c THEN 1 ELSE 0
      BY <1>4 DEF Return, Calls, CallTypes
    <2>2. \A l \in Links : handled[l] \in Int
      BY DEF Received, ReceivedAt
    <2>3. \A l \in Links \ {c} : handled'[l] = handled[l]
      BY <2>1, <2>2
    <2>4. CASE c \in Threads
      BY <1>1, <2>1, <2>2, <2>3, <2>4, CallersAre, TakenUpKept, LinkedMoved
    <2>5. CASE c \in Links
      <3>1. \A x \in DOMAIN inbox[c] : Done(c, x)' <=> Done(c, x)
        <4>1. handled'[c] = handled[c] + 1 /\ inbox[c] \in Seq(Messages)
          BY <2>1, <2>5 DEF Checkers, CheckerTypes
        <4> HIDE DEF Messages
        <4> QED BY <2>1, <2>2, <2>5, <4>1 DEF Done
      <3> QED BY <2>1, <2>3, <2>5, <3>1, CallersAre, TakenUpReceiver, LinkedMoved
    <2> QED BY <2>4, <2>5, CallersAre
  <1>5. ASSUME NEW l \in Links, Receive(l) PROVE Linked'
    <2>1. PICK z \in DOMAIN inbox[l] : z = handled[l] + 1
      <3>1. handled[l] < Len(inbox[l]) /\ handled[l] \in Nat /\ inbox[l] \in Seq(Messages)
        BY <1>5 DEF Receive, Received, ReceivedAt, Checkers, CheckerTypes
      <3> HIDE DEF Messages
      <3> QED BY <3>1
    <2>2. /\ UNCHANGED <<proposals, linked, inbox>> /\ pc[l] = "idle"
          /\ \A d \in Callers \ {l} : pc'[d] = pc[d] /\ mine'[d] = mine[d]
          /\ \A m \in Links \ {l} : handled'[m] = handled[m]
          /\ \/ pc'[l] = "link" /\ UNCHANGED handled
             \/ inbox[l][z].msg # "WAIT" /\ pc'[l] = "idle" /\ handled'[l] = handled[l] + 1
      BY <1>5, <2>1, CallersAre DEF Receive, Answers, Calls, CallTypes, Received
    <2>3. \A x \in DOMAIN inbox[l] : inbox[l][x].msg = "WAIT" => (Done(l, x)' <=> Done(l, x))
      <3>1. DOMAIN inbox[l] \subseteq Int /\ handled[l] \in Int
        <4>1. inbox[l] \in Seq(Messages)
          BY DEF Checkers, CheckerTypes
        <4> HIDE DEF Messages
        <4> QED BY <4>1 DEF Received, ReceivedAt
      <3> QED BY <2>1, <2>2, <3>1 DEF Done
    <2> QED BY <2>2, <2>3, CallersAre, TakenUpReceiver, LinkedMoved
  <1>6. CASE UNCHANGED <<proposals, linked, handled, pc, mine>>
    BY <1>1, <1>6
  <1> QED BY <1>2, <1>3, <1>4, <1>5, <1>6, LinkedPropose, LinkedLink
          DEF Next, Progress, Continue, LinkStep, PostAsk, Replay, Arrive, ArriveAsk, Break, vars

\* The histories of the keys hold every proposal taken up, once, at its owner
\* (scot-rpli.cc:68, scot-rcvr.cc:60-63).
LEMMA LinkedHold == Spec => []Linked
  BY CallsHold, CheckersHold, PostingHolds, AsksHold, ReceivedHolds, LinkedInit, LinkedStep, PTL DEF Spec

(***************************************************************************)
(* ThreadOrder is inductive with the layers above.                         *)
(***************************************************************************)
SameKey(i, j) == Earlier(i, j) /\ Key(i) = Key(j)
Behind(i, j) ==
  \A b \in DOMAIN linked[Owner(j)][Key(j)] : linked[Owner(j)][Key(j)][b] = j =>
    \E a \in 1 .. b - 1 : linked[Owner(j)][Key(j)][a] = i

\* ThreadOrder, pair by pair.
LEMMA ThreadOrderIs ==
  ThreadOrder <=> \A i \in DOMAIN proposals : \A j \in DOMAIN proposals : SameKey(i, j) => Behind(i, j)
  BY DEF ThreadOrder, SameKey, Earlier, Behind

\* A proposal is linked when the earlier ones of its thread for the same owner
\* are.
LEMMA EarlierIsTakenUp ==
  ASSUME Calls, Checkers, Asks, AskedInOrder, Received, NEW c \in Callers, Link(c),
         NEW i \in DOMAIN proposals, NEW j \in DOMAIN proposals, mine[c] = j, Earlier(i, j)
  PROVE  TakenUp(i)
  <1>1. pc[c] = "link"
    BY DEF Link
  <1>2. /\ c \in Threads => ~Remote(j) /\ proposals[j].thread = c
        /\ c \in Links => Remote(j) /\ Way(j) = c /\ handled[c] + 1 \in DOMAIN inbox[c]
                          /\ IsWait(c, handled[c] + 1, j)
    BY <1>1, WriterIs DEF Writing
  <1>3. Way(i) = Way(j) /\ (Remote(i) <=> Remote(j))
    BY DEF Earlier, Way, Remote, Proposer
  <1>4. i # j /\ i # 0
    BY DEF Earlier, Calls, CallTypes
  <1>5. CASE c \in Threads
    <2>1. \A t \in Threads : mine[t] # i
      BY <1>2, <1>4, <1>5 DEF Calls, CallsOwned, Earlier
    <2> QED BY <1>2, <1>3, <1>5, <2>1 DEF TakenUp
  <1>6. CASE c \in Links
    <2>1. PICK x \in DOMAIN inbox[c] : x < handled[c] + 1 /\ IsWait(c, x, i)
      BY <1>2, <1>6 DEF AskedInOrder
    <2>2. x <= handled[c]
      <3>1. handled[c] \in Int /\ x \in Int
        <4>1. inbox[c] \in Seq(Messages)
          BY <1>6 DEF Checkers, CheckerTypes
        <4> HIDE DEF Messages
        <4> QED BY <1>6, <2>1, <4>1 DEF Received, ReceivedAt
      <3> QED BY <2>1, <3>1
    <2> QED BY <1>2, <1>3, <1>6, <2>1, <2>2 DEF TakenUp, Done
  <1> QED BY <1>5, <1>6, CallersAre

\* At first nothing is proposed.
LEMMA ThreadOrderInit == Init => ThreadOrder
  BY DEF Init, ThreadOrder

\* A new proposal is not linked, and comes after all others.
LEMMA ThreadOrderPropose ==
  ASSUME Calls, Linked, ThreadOrder, NEW t \in Threads, NEW k \in Keys, NEW rule \in Rules, Propose(t, k, rule)
  PROVE  ThreadOrder'
  <1> DEFINE new == [thread |-> t, key |-> k, owner |-> rule[k]]
  <1>1. /\ proposals' = Append(proposals, new) /\ new.key = k /\ new.owner = rule[k] /\ UNCHANGED linked
        /\ proposals \in Seq(Proposals) /\ rule[k] \in Nodes
    BY RulesAssumption DEF Propose, Judge, Calls, CallTypes
  <1> HIDE DEF new
  <1>2. PICK n \in Nat : n = Len(proposals) + 1
    BY <1>1
  <1>3. /\ DOMAIN proposals' = DOMAIN proposals \cup {n} /\ n \notin DOMAIN proposals
        /\ \A i \in DOMAIN proposals' : i <= n /\ i \in Nat
        /\ proposals'[n] = new /\ \A id \in DOMAIN proposals : proposals'[id] = proposals[id]
    BY <1>1, <1>2
  <1> SUFFICES ASSUME NEW i \in DOMAIN proposals', NEW j \in DOMAIN proposals', SameKey(i, j)'
               PROVE  Behind(i, j)'
    BY DEF ThreadOrder, SameKey, Earlier, Behind
  <1>4. CASE j = n
    <2>1. Owner(n)' = rule[k] /\ Key(n)' = k
      BY <1>1, <1>3 DEF Owner, Key
    <2> QED BY <1>1, <1>3, <1>4, <2>1 DEF Behind, Linked, LinkedSound
  <1>5. CASE j # n
    <2>1. i \in DOMAIN proposals /\ j \in DOMAIN proposals
      BY <1>3, <1>5 DEF SameKey, Earlier
    <2>2. /\ Owner(i)' = Owner(i) /\ Key(i)' = Key(i) /\ Owner(j)' = Owner(j) /\ Key(j)' = Key(j)
          /\ proposals'[i].thread = proposals[i].thread /\ proposals'[j].thread = proposals[j].thread
      BY <1>3, <2>1 DEF Owner, Key
    <2>3. SameKey(i, j)
      BY <2>2 DEF SameKey, Earlier
    <2>4. Behind(i, j)
      BY <2>1, <2>3, ThreadOrderIs
    <2> QED BY <1>1, <2>2, <2>4 DEF Behind
  <1> QED BY <1>4, <1>5

\* What is linked comes behind all that its thread proposed before.
LEMMA ThreadOrderLink ==
  ASSUME Calls, Checkers, Asks, AskedInOrder, Received, Linked, ThreadOrder, NEW c \in Callers, Link(c)
  PROVE  ThreadOrder'
  <1>0. PICK id \in DOMAIN proposals, n \in Nodes, k \in Keys, z \in Nat \ {0} : BecomesNewest(c, id, n, k, z)
    BY LinkAppends
  <1>1. /\ mine[c] = id /\ Owner(id) = n /\ Key(id) = k
        /\ UNCHANGED proposals
        /\ \A m \in Nodes, h \in Keys : m # n \/ h # k => linked'[m][h] = linked[m][h]
        /\ DOMAIN linked[n][k] = 1 .. z - 1
        /\ DOMAIN linked'[n][k] = DOMAIN linked[n][k] \cup {z} /\ z \notin DOMAIN linked[n][k]
        /\ linked'[n][k][z] = id
        /\ \A i \in DOMAIN linked[n][k] : linked'[n][k][i] = linked[n][k][i]
    BY <1>0 DEF BecomesNewest
  <1>2. UNCHANGED proposals
    BY <1>1
  <1> SUFFICES ASSUME NEW i \in DOMAIN proposals', NEW j \in DOMAIN proposals', SameKey(i, j)'
               PROVE  Behind(i, j)'
    BY DEF ThreadOrder, SameKey, Earlier, Behind
  <1>7. i \in DOMAIN proposals /\ j \in DOMAIN proposals /\ SameKey(i, j)
    BY <1>2 DEF SameKey, Earlier, Owner, Key
  <1>3. PICK m \in Nodes, h \in Keys : m = Owner(j) /\ h = Key(j)
    BY <1>7, ProposalIsTyped
  <1>8. Behind(i, j) /\ m = Owner(j)' /\ h = Key(j)'
    BY <1>2, <1>3, <1>7, ThreadOrderIs DEF Owner, Key
  <1> SUFFICES ASSUME NEW b \in DOMAIN linked'[m][h], linked'[m][h][b] = j
               PROVE  \E a \in 1 .. b - 1 : linked'[m][h][a] = i
    BY <1>8 DEF Behind
  <1>4. CASE b \in DOMAIN linked[m][h] /\ linked'[m][h][b] = linked[m][h][b]
    <2>1. PICK a \in 1 .. b - 1 : linked[m][h][a] = i
      BY <1>3, <1>4, <1>8 DEF Behind
    <2>2. a \in DOMAIN linked[m][h]
      <3>1. linked[m][h] \in Seq(Ids)
        BY DEF Linked, LinkedSound
      <3> QED BY <1>4, <2>1, <3>1
    <2>3. linked'[m][h][a] = linked[m][h][a]
      BY <1>1, <2>2
    <2> QED BY <1>3, <2>1, <2>3
  <1>5. CASE m = n /\ h = k /\ b = z
    <2>1. j = id /\ Earlier(i, j) /\ Owner(i) = n /\ Key(i) = k
      BY <1>1, <1>3, <1>5, <1>7 DEF Earlier, SameKey
    <2>2. IsLinked(i)
      BY <1>1, <1>7, <2>1, EarlierIsTakenUp DEF Linked
    <2>3. PICK a \in DOMAIN linked[n][k] : linked[n][k][a] = i
      BY <2>1, <2>2 DEF IsLinked
    <2>4. a \in 1 .. b - 1 /\ linked'[n][k][a] = i
      BY <1>1, <1>5, <2>3
    <2> QED BY <1>3, <1>5, <2>4
  <1>6. (b \in DOMAIN linked[m][h] /\ linked'[m][h][b] = linked[m][h][b]) \/ (m = n /\ h = k /\ b = z)
    BY <1>1, <1>3
  <1> QED BY <1>4, <1>5, <1>6

\* Only propose and the link into the hash table bear on the order.
LEMMA ThreadOrderStep ==
  Calls /\ Checkers /\ Asks /\ AskedInOrder /\ Received /\ Linked /\ ThreadOrder /\ [Next]_vars => ThreadOrder'
  <1> SUFFICES ASSUME Calls, Checkers, Asks, AskedInOrder, Received, Linked, ThreadOrder, [Next]_vars PROVE ThreadOrder'
    OBVIOUS
  <1>1. CASE UNCHANGED <<proposals, linked>>
    BY <1>1 DEF ThreadOrder, Owner, Key
  <1> QED BY <1>1, ThreadOrderPropose, ThreadOrderLink, Zenon
          DEF Next, Progress, Continue, LinkStep, WriteLog, Return, Ask, PostAsk, EndAsk, ClearWait,
              Receive, Replay, Arrive, ArriveAsk, Break, vars

\* For every cluster, the proposals of a thread that concern one key and go to
\* the same owner are taken up in the order in which the thread made them,
\* although propose does not wait for the owner (scot-core.hh:92, scot-chkr.cc:74).
THEOREM OrderIsKept == Spec => []ThreadOrder
  BY CallsHold, CheckersHold, AsksHold, OrderHolds, ReceivedHolds, LinkedHold, ThreadOrderInit, ThreadOrderStep, PTL DEF Spec

(***************************************************************************)
(* Logs: what a node logs are versions it has linked, and of each key      *)
(* never one older than one before.                                        *)
(***************************************************************************)
Where(s, e) == SelectInSeq(s, LAMBDA i : i = e)

\* The place of an entry that occurs once.
LEMMA WhereIs ==
  ASSUME NEW S, NEW s \in Seq(S), NEW a \in DOMAIN s, NEW e, s[a] = e,
         \A i \in DOMAIN s : s[i] = e => i = a
  PROVE  Where(s, e) = a
  <1>1. {i \in 1 .. Len(s) : s[i] = e} = {a}
    OBVIOUS
  <1>2. (CHOOSE x \in {a} : \A y \in {a} : x =< y) = a
    OBVIOUS
  <1> QED BY <1>1, <1>2 DEF Where, SelectInSeq, Min

\* A version that is linked at n.
IsVersion(n, id) == id \in DOMAIN proposals /\ Owner(id) = n /\ IsLinked(id)

\* Where it is, and that it occurs nowhere else.
LEMMA PositionIs ==
  ASSUME Calls, Linked, NEW n \in Nodes, NEW k \in Keys, NEW a \in DOMAIN linked[n][k]
  PROVE  /\ IsVersion(n, linked[n][k][a]) /\ Key(linked[n][k][a]) = k
         /\ Position(n, linked[n][k][a]) = a
         /\ a \in 1 .. Len(linked[n][k]) /\ Len(linked[n][k]) \in Nat
  <1>1. PICK s \in Seq(Ids) : s = linked[n][k]
    BY DEF Linked, LinkedSound
  <1>2. PICK id : id = s[a]
    OBVIOUS
  <1>3. /\ id \in DOMAIN proposals /\ Owner(id) = n /\ Key(id) = k
        /\ \A i \in DOMAIN s : s[i] = id => i = a
    BY <1>1, <1>2 DEF Linked, LinkedSound
  <1>4. Where(s, id) = a
    BY <1>1, <1>2, <1>3, WhereIs
  <1>5. Position(n, id) = a
    <2>1. Position(n, id) = Where(linked[n][Key(id)], id)
      BY DEF Position, Where
    <2> QED BY <1>1, <1>3, <1>4, <2>1
  <1>6. IsVersion(n, id)
    BY <1>1, <1>2, <1>3 DEF IsVersion, IsLinked
  <1> QED BY <1>1, <1>2, <1>3, <1>5, <1>6

\* Every version has its place.
LEMMA VersionIsAt ==
  ASSUME Calls, Linked, NEW n \in Nodes, NEW id, IsVersion(n, id)
  PROVE  \E k \in Keys, a \in Nat \ {0} :
           /\ k = Key(id) /\ a = Position(n, id) /\ a \in DOMAIN linked[n][k] /\ linked[n][k][a] = id
           /\ a <= Len(linked[n][k]) /\ Len(linked[n][k]) \in Nat
  <1>1. PICK k \in Keys : k = Key(id)
    BY ProposalIsTyped DEF IsVersion
  <1>2. PICK a \in DOMAIN linked[n][k] : linked[n][k][a] = id
    BY <1>1 DEF IsVersion, IsLinked
  <1>3. Position(n, id) = a /\ a \in 1 .. Len(linked[n][k]) /\ Len(linked[n][k]) \in Nat
    BY <1>2, PositionIs
  <1> QED BY <1>1, <1>2, <1>3

\* Histories only grow.
LEMMA HistoryGrows ==
  ASSUME Calls, Asks, Received, Linked, [Next]_vars, NEW n \in Nodes, NEW k \in Keys
  PROVE  /\ \A a \in DOMAIN linked[n][k] : a \in DOMAIN linked'[n][k] /\ linked'[n][k][a] = linked[n][k][a]
         /\ Len(linked'[n][k]) \in Nat /\ Len(linked[n][k]) \in Nat /\ Len(linked[n][k]) <= Len(linked'[n][k])
  <1>1. linked[n][k] \in Seq(Ids)
    BY DEF Linked, LinkedSound
  <1>2. ASSUME NEW c \in Callers, Link(c)
        PROVE  \/ linked'[n][k] = linked[n][k]
               \/ \E id \in Ids : linked'[n][k] = Append(linked[n][k], id)
    <2>1. PICK id \in Ids : id = mine[c]
      BY <1>2, WriterIs DEF Link, Writing
    <2>2. linked' = [linked EXCEPT ![Home(c)][Key(mine[c])] = Append(@, mine[c])]
      BY <1>2 DEF Link
    <2>3. PICK m, h : m = Home(c) /\ h = Key(mine[c])
      OBVIOUS
    <2>4. linked' = [linked EXCEPT ![m][h] = Append(@, id)]
      BY <2>1, <2>2, <2>3
    <2>5. linked \in [Nodes -> [Keys -> Seq(Ids)]]
      BY DEF Linked, LinkedSound
    <2> QED BY <2>4, <2>5
  <1>3. (\A c \in Callers : ~Link(c)) => UNCHANGED linked
    BY Zenon DEF Next, Progress, Continue, LinkStep, Propose, WriteLog, Return, Ask, PostAsk, EndAsk,
           ClearWait, Receive, Replay, Arrive, ArriveAsk, Break, vars
  <1>4. \/ linked'[n][k] = linked[n][k]
        \/ \E id \in Ids : linked'[n][k] = Append(linked[n][k], id)
    BY <1>2, <1>3
  <1> HIDE DEF Ids
  <1> QED BY <1>1, <1>4

\* A version stays where it is.
LEMMA PositionKept ==
  ASSUME Calls, Asks, Received, Linked, Linked', [Next]_vars, NEW n \in Nodes, NEW id, IsVersion(n, id)
  PROVE  /\ IsVersion(n, id)' /\ Position(n, id)' = Position(n, id) /\ Key(id)' = Key(id)
         /\ Position(n, id) \in Nat
  <1>1. PICK k \in Keys, a \in Nat \ {0} :
           /\ k = Key(id) /\ a = Position(n, id) /\ a \in DOMAIN linked[n][k] /\ linked[n][k][a] = id
    BY VersionIsAt
  <1>2. id \in DOMAIN proposals' /\ Owner(id)' = n /\ k = Key(id)'
    BY <1>1, ProposalsKept DEF IsVersion
  <1>3. PICK s \in Seq(Ids) : s = linked'[n][k]
    BY DEF Linked, LinkedSound
  <1>4. a \in DOMAIN s /\ s[a] = id
    BY <1>1, <1>3, HistoryGrows
  <1>5. \A i \in DOMAIN s : s[i] = id => i = a
    BY <1>3, <1>4 DEF Linked, LinkedSound
  <1>6. Where(s, id) = a
    BY <1>4, <1>5, WhereIs
  <1>7. Position(n, id)' = a
    <2>1. Position(n, id)' = Where(linked'[n][Key(id)'], id)
      BY DEF Position, Where, SelectInSeq, Min, Key
    <2> QED BY <1>2, <1>3, <1>6, <2>1
  <1>8. IsVersion(n, id)'
    BY <1>2, <1>3, <1>4 DEF IsVersion, IsLinked
  <1> QED BY <1>1, <1>2, <1>7, <1>8

\* Whoever has linked its proposal finds it, or a newer version, in the table.
LEMMA WriterLinked ==
  ASSUME Calls, Asks, Received, Linked, NEW c \in Callers, pc[c] \in {"log", "poll"}
  PROVE  /\ IsVersion(Home(c), mine[c]) /\ Home(c) \in Nodes /\ Key(mine[c]) \in Keys
         /\ mine[c] \in DOMAIN proposals
  <1>1. PICK id \in DOMAIN proposals :
           /\ mine[c] = id /\ Owner(id) = Home(c) /\ Home(c) \in Nodes /\ Key(id) \in Keys
           /\ c \in Threads => ~Remote(id) /\ proposals[id].thread = c
           /\ c \in Links => Remote(id) /\ Way(id) = c /\ handled[c] + 1 \in DOMAIN inbox[c]
                             /\ IsWait(c, handled[c] + 1, id)
    BY WriterIs DEF Writing
  <1>2. TakenUp(id)
    <2>1. CASE c \in Threads
      <3>1. \A t \in Threads : mine[t] = id => t = c
        BY <1>1, <2>1 DEF Calls, CallTypes, CallsOwned
      <3> QED BY <1>1, <2>1, <3>1 DEF TakenUp
    <2>2. CASE c \in Links
      BY <1>1, <2>2 DEF TakenUp, Done
    <2> QED BY <2>1, <2>2, CallersAre
  <1> QED BY <1>1, <1>2 DEF Linked, IsVersion

\* One caller at a time writes to the log of a node, and its replayers are not
\* ahead of it.
LogTypes ==
  /\ writer \in [Nodes -> Callers \cup {Nobody}]
  /\ log \in [Nodes -> Seq(Ids)]
  /\ arrived \in [Links -> Nat] /\ applied \in [Links -> Nat]
  /\ \A l \in Links : applied[l] <= arrived[l] /\ arrived[l] <= Len(log[l[1]])

WriterLocked ==
  /\ \A n \in Nodes : writer[n] # Nobody => Home(writer[n]) = n /\ pc[writer[n]] = "poll"
  /\ \A c \in Callers : pc[c] = "poll" => writer[Home(c)] = c

Logs == LogTypes /\ WriterLocked

\* At first nothing is logged.
LEMMA LogsInit == Init => Logs
  BY CallersAre DEF Init, Logs, LogTypes, WriterLocked

\* What is logged next is the newest version of the key of a proposal.
LogsNewest(c, id, n, e) ==
  /\ mine[c] = id /\ Home(c) = n /\ pc[c] = "log" /\ writer[n] = Nobody
  /\ IsVersion(n, id) /\ IsVersion(n, e) /\ Key(e) = Key(id) /\ e \in Ids
  /\ \A r : IsVersion(n, r) /\ Key(r) = Key(id) => Position(n, r) <= Position(n, e)
  /\ writer' = [writer EXCEPT ![n] = c] /\ log' = [log EXCEPT ![n] = Append(log[n], e)]
  /\ pc' = [pc EXCEPT ![c] = "poll"]
  /\ UNCHANGED <<proposals, linked, mine, arrived, applied, broken, inbox, handled>>

LEMMA LogIsNewest ==
  ASSUME Calls, Asks, Received, Linked, NEW c \in Callers, WriteLog(c)
  PROVE  \E id \in DOMAIN proposals, n \in Nodes, e \in DOMAIN proposals : LogsNewest(c, id, n, e)
  <1>1. pc[c] = "log"
    BY DEF WriteLog
  <1>2. /\ IsVersion(Home(c), mine[c]) /\ Home(c) \in Nodes /\ Key(mine[c]) \in Keys
        /\ mine[c] \in DOMAIN proposals
    BY <1>1, WriterLinked
  <1>3. PICK n \in Nodes : n = Home(c)
    BY <1>2
  <1>4. PICK id \in DOMAIN proposals : id = mine[c]
    BY <1>2
  <1>5. PICK k \in Keys, a \in Nat \ {0} :
           /\ k = Key(id) /\ a = Position(n, id) /\ a \in DOMAIN linked[n][k] /\ linked[n][k][a] = id
           /\ a <= Len(linked[n][k]) /\ Len(linked[n][k]) \in Nat
    BY <1>2, <1>3, <1>4, VersionIsAt
  <1>6. PICK z \in DOMAIN linked[n][k] : z = Len(linked[n][k])
    <2>1. linked[n][k] \in Seq(Ids)
      BY DEF Linked, LinkedSound
    <2> QED BY <1>5, <2>1
  <1>7. PICK e : e = linked[n][k][z]
    OBVIOUS
  <1>8. IsVersion(n, e) /\ Key(e) = k /\ Position(n, e) = z
    BY <1>7, PositionIs
  <1>9. e \in DOMAIN proposals /\ e \in Ids
    BY <1>8, ProposalIsTyped DEF IsVersion
  <1>10. ASSUME NEW r, IsVersion(n, r), Key(r) = k PROVE Position(n, r) <= Position(n, e)
    BY <1>6, <1>8, <1>10, VersionIsAt
  <1>11. log' = [log EXCEPT ![n] = Append(log[n], e)]
    BY <1>3, <1>4, <1>5, <1>6, <1>7 DEF WriteLog, Last
  <1>12. /\ writer[n] = Nobody /\ writer' = [writer EXCEPT ![n] = c] /\ pc' = [pc EXCEPT ![c] = "poll"]
         /\ UNCHANGED <<proposals, linked, mine, arrived, applied, broken, inbox, handled>>
    BY <1>3 DEF WriteLog
  <1>13. LogsNewest(c, id, n, e)
    BY <1>1, <1>2, <1>3, <1>4, <1>5, <1>8, <1>9, <1>10, <1>11, <1>12 DEF LogsNewest
  <1> QED BY <1>9, <1>13

\* A log only grows, by one entry at most.
LEMMA LogGrows ==
  ASSUME Calls, Asks, Received, Linked, Logs, [Next]_vars, NEW n \in Nodes
  PROVE  /\ \/ log'[n] = log[n]
            \/ \E e \in Ids : log'[n] = Append(log[n], e)
         /\ \A i \in DOMAIN log[n] : i \in DOMAIN log'[n] /\ log'[n][i] = log[n][i]
         /\ DOMAIN log[n] = 1 .. Len(log[n]) /\ DOMAIN log'[n] = 1 .. Len(log'[n])
         /\ Len(log[n]) \in Nat /\ Len(log'[n]) \in Nat /\ Len(log[n]) <= Len(log'[n])
         /\ log'[n] \in Seq(Ids) /\ log[n] \in Seq(Ids)
  <1>1. log \in [Nodes -> Seq(Ids)]
    BY DEF Logs, LogTypes
  <1>2. ASSUME NEW c \in Callers, WriteLog(c)
        PROVE  \/ log'[n] = log[n]
               \/ \E e \in Ids : log'[n] = Append(log[n], e)
    <2>1. PICK id \in DOMAIN proposals, m \in Nodes, e \in DOMAIN proposals : LogsNewest(c, id, m, e)
      BY <1>2, LogIsNewest
    <2>2. e \in Ids /\ log' = [log EXCEPT ![m] = Append(log[m], e)]
      BY <2>1 DEF LogsNewest
    <2> QED BY <1>1, <2>2
  <1>3. (\A c \in Callers : ~WriteLog(c)) => UNCHANGED log
    BY Zenon DEF Next, Progress, Continue, LinkStep, Propose, Link, Return, Ask, PostAsk, EndAsk,
           ClearWait, Receive, Replay, Arrive, ArriveAsk, Break, vars
  <1>4. \/ log'[n] = log[n]
        \/ \E e \in Ids : log'[n] = Append(log[n], e)
    BY <1>2, <1>3
  <1>5. PICK s \in Seq(Ids) : s = log[n]
    BY <1>1
  <1>6. PICK r : r = log'[n]
    OBVIOUS
  <1>7. CASE r = s
    BY <1>4, <1>5, <1>6, <1>7
  <1>8. ASSUME NEW e \in Ids, r = Append(s, e)
        PROVE  /\ r \in Seq(Ids) /\ \A i \in DOMAIN s : i \in DOMAIN r /\ r[i] = s[i]
               /\ Len(s) <= Len(r)
    <2> HIDE DEF Ids
    <2> QED BY <1>5, <1>8
  <1> HIDE DEF Ids
  <1> QED BY <1>4, <1>5, <1>6, <1>7, <1>8

\* Steps that write to no log and leave no write_request.
LEMMA LogsKept ==
  ASSUME Calls, Logs, UNCHANGED <<writer, log, arrived, applied>>,
         \A c \in Callers : pc'[c] = "poll" <=> pc[c] = "poll"
  PROVE  Logs'
  <1>1. \A n \in Nodes : writer[n] # Nobody => writer[n] \in Callers
    BY DEF Logs, LogTypes
  <1> QED BY <1>1 DEF Logs, LogTypes, WriterLocked

\* The lock of the replicator passes from one caller to the next.
LEMMA LogsStep == Calls /\ Asks /\ Received /\ Linked /\ Logs /\ [Next]_vars => Logs'
  <1> SUFFICES ASSUME Calls, Asks, Received, Linked, Logs, [Next]_vars PROVE Logs'
    OBVIOUS
  <1> USE DEF Logs
  <1>0. \A c \in Callers : c # Nobody
    BY NobodyAssumption
  <1>1. ASSUME NEW c \in Callers, WriteLog(c) PROVE Logs'
    <2>1. PICK id \in DOMAIN proposals, n \in Nodes, e \in DOMAIN proposals : LogsNewest(c, id, n, e)
      BY <1>1, LogIsNewest
    <2>2. /\ Home(c) = n /\ pc[c] = "log" /\ writer[n] = Nobody /\ e \in Ids
          /\ writer'[n] = c /\ \A m \in Nodes \ {n} : writer'[m] = writer[m]
          /\ writer' \in [Nodes -> Callers \cup {Nobody}]
          /\ pc'[c] = "poll" /\ \A d \in Callers \ {c} : pc'[d] = pc[d]
          /\ UNCHANGED <<arrived, applied>>
          /\ DOMAIN log' = Nodes
      BY <2>1 DEF LogsNewest, LogTypes, Calls, CallTypes
    <2>3. LogTypes'
      <3>1. log' \in [Nodes -> Seq(Ids)]
        BY <2>1, <2>2 DEF LogsNewest, LogTypes
      <3>2. ASSUME NEW l \in Links PROVE applied'[l] <= arrived'[l] /\ arrived'[l] <= Len(log'[l[1]])
        <4>1. PICK m \in Nodes : m = l[1]
          BY CallersAre
        <4>2. /\ Len(log[m]) \in Nat /\ Len(log'[m]) \in Nat /\ Len(log[m]) <= Len(log'[m])
              /\ arrived[l] \in Nat
          BY LogGrows DEF LogTypes
        <4> QED BY <2>2, <4>1, <4>2 DEF LogTypes
      <3> QED BY <2>2, <3>1, <3>2 DEF LogTypes
    <2>4. \A m \in Nodes : writer[m] # Nobody => writer[m] \in Callers \ {c} /\ m # n
      BY <2>2 DEF LogTypes, WriterLocked
    <2>5. \A m \in Nodes : writer'[m] # Nobody => Home(writer'[m]) = m /\ pc'[writer'[m]] = "poll"
      BY <2>2, <2>4 DEF WriterLocked
    <2>6. ASSUME NEW d \in Callers, pc'[d] = "poll" PROVE writer'[Home(d)] = d
      <3>1. CASE d = c
        BY <2>2, <3>1
      <3>2. CASE d # c
        <4>1. writer[Home(d)] = d /\ Home(d) \in Nodes
          BY <2>2, <2>6, <3>2, CallersAre DEF WriterLocked
        <4> QED BY <1>0, <2>2, <4>1
      <3> QED BY <3>1, <3>2
    <2> QED BY <2>3, <2>5, <2>6 DEF WriterLocked
  <1>2. ASSUME NEW c \in Callers, Return(c) PROVE Logs'
    <2>1. PICK n \in Nodes : n = Home(c)
      BY CallersAre
    <2>2. /\ pc[c] = "poll" /\ writer[n] = c
          /\ writer'[n] = Nobody /\ \A m \in Nodes \ {n} : writer'[m] = writer[m]
          /\ writer' \in [Nodes -> Callers \cup {Nobody}]
          /\ pc'[c] = "idle" /\ \A d \in Callers \ {c} : pc'[d] = pc[d]
          /\ UNCHANGED <<log, arrived, applied>>
      BY <1>2, <2>1 DEF Return, LogTypes, WriterLocked, Calls, CallTypes
    <2>3. \A m \in Nodes \ {n} : writer[m] # Nobody => writer[m] \in Callers \ {c}
      BY <2>1 DEF LogTypes, WriterLocked
    <2>4. \A d \in Callers \ {c} : pc[d] = "poll" => writer[Home(d)] = d /\ Home(d) \in Nodes \ {n}
      BY <2>1, <2>2, CallersAre DEF WriterLocked
    <2>5. WriterLocked'
      BY <2>2, <2>3, <2>4 DEF WriterLocked
    <2> QED BY <2>2, <2>5 DEF LogTypes
  <1>3. ASSUME NEW c \in Callers, Link(c) PROVE Logs'
    BY <1>3, LogsKept DEF Link, Calls, CallTypes
  <1>4. ASSUME NEW t \in Threads, Ask(t) \/ EndAsk(t) \/ ClearWait(t) PROVE Logs'
    BY <1>4, LogsKept, CallersAre DEF Ask, EndAsk, ClearWait, Calls, CallTypes
  <1>5. ASSUME NEW t \in Threads, NEW k \in Keys, NEW rule \in Rules, Propose(t, k, rule) PROVE Logs'
    BY <1>5, LogsKept, CallersAre DEF Propose, Calls, CallTypes
  <1>6. ASSUME NEW l \in Links, Receive(l) PROVE Logs'
    BY <1>6, LogsKept, CallersAre DEF Receive, Calls, CallTypes
  <1>7. ASSUME NEW l \in Links, Replay(l) \/ Arrive(l) PROVE Logs'
    <2>1. PICK m \in Nodes : m = l[1]
      BY CallersAre
    <2>2. /\ UNCHANGED <<writer, log, pc>> /\ arrived[l] \in Nat /\ applied[l] \in Nat /\ Len(log[m]) \in Nat
          /\ \/ UNCHANGED arrived /\ applied' = [applied EXCEPT ![l] = @ + 1] /\ applied[l] < arrived[l]
             \/ UNCHANGED applied /\ arrived' = [arrived EXCEPT ![l] = @ + 1] /\ arrived[l] < Len(log[m])
      BY <1>7, <2>1 DEF Replay, ReplayerReady, Arrive, LogTypes
    <2>3. arrived' \in [Links -> Nat] /\ applied' \in [Links -> Nat]
      <3>1. arrived \in [Links -> Nat] /\ applied \in [Links -> Nat]
        BY DEF LogTypes
      <3>2. arrived[l] + 1 \in Nat /\ applied[l] + 1 \in Nat
        BY <2>2
      <3>3. CASE UNCHANGED arrived
        BY <2>2, <3>1, <3>2, <3>3
      <3>4. CASE UNCHANGED applied
        BY <2>2, <3>1, <3>2, <3>4
      <3> QED BY <2>2, <3>3, <3>4
    <2>4. applied'[l] <= arrived'[l] /\ arrived'[l] <= Len(log[m])
      <3>1. applied[l] <= arrived[l] /\ arrived[l] <= Len(log[m])
        BY <2>1 DEF LogTypes
      <3>2. \/ arrived'[l] = arrived[l] /\ applied'[l] = applied[l] + 1 /\ applied[l] < arrived[l]
            \/ applied'[l] = applied[l] /\ arrived'[l] = arrived[l] + 1 /\ arrived[l] < Len(log[m])
        BY <2>2 DEF LogTypes
      <3> QED BY <2>2, <3>1, <3>2
    <2>5. \A k \in Links \ {l} : applied'[k] = applied[k] /\ arrived'[k] = arrived[k]
      BY <2>2 DEF LogTypes
    <2>6. LogTypes'
      BY <2>1, <2>2, <2>3, <2>4, <2>5 DEF LogTypes
    <2> QED BY <2>2, <2>6 DEF WriterLocked
  <1>8. CASE UNCHANGED <<pc, writer, log, arrived, applied>>
    BY <1>8, LogsKept
  <1> QED BY <1>1, <1>2, <1>3, <1>4, <1>5, <1>6, <1>7, <1>8
          DEF Next, Progress, Continue, LinkStep, PostAsk, ArriveAsk, Break, vars

\* One thread at a time posts entries of a replicator's log (scot-rpli.cc:70, 142).
LEMMA LogsHold == Spec => []Logs
  BY CallsHold, AsksHold, ReceivedHolds, LinkedHold, LogsInit, LogsStep, PTL DEF Spec

\* Whatever is logged is a version of its node, and an entry is never older
\* than an earlier one of its key.
VersionsAt(n) ==
  \A i \in DOMAIN log[n] : \A e \in Ids : log[n][i] = e => IsVersion(n, e)
ForwardAt(n) ==
  \A i, j \in DOMAIN log[n] : \A d, e \in Ids :
    log[n][i] = d /\ log[n][j] = e /\ i <= j /\ Key(d) = Key(e) => Position(n, d) <= Position(n, e)
Forward == \A n \in Nodes : VersionsAt(n) /\ ForwardAt(n)

\* At first nothing is logged.
LEMMA ForwardInit == Init => Forward
  BY DEF Init, Forward, VersionsAt, ForwardAt

\* Entries already there stay where they are.
LEMMA ForwardKept ==
  ASSUME Calls, Asks, Received, Linked, Linked', [Next]_vars, NEW n \in Nodes,
         VersionsAt(n), ForwardAt(n), log'[n] = log[n]
  PROVE  VersionsAt(n)' /\ ForwardAt(n)'
  <1>1. \A i \in DOMAIN log[n] : \A e \in Ids : log[n][i] = e =>
          IsVersion(n, e)' /\ Position(n, e)' = Position(n, e) /\ Key(e)' = Key(e)
    BY PositionKept DEF VersionsAt
  <1> QED BY <1>1 DEF VersionsAt, ForwardAt

\* The newest version is not older than any logged before.
LEMMA ForwardWrite ==
  ASSUME Calls, Asks, Received, Linked, Linked', Logs, Forward, NEW c \in Callers, WriteLog(c)
  PROVE  Forward'
  <1>0. [Next]_vars
    BY DEF Next, Progress, Continue
  <1>1. PICK id \in DOMAIN proposals, n \in Nodes, new \in DOMAIN proposals : LogsNewest(c, id, n, new)
    BY LogIsNewest
  <1>2. PICK z : z = Len(log[n]) + 1
    OBVIOUS
  <1>3. /\ DOMAIN log'[n] = DOMAIN log[n] \cup {z} /\ z \notin DOMAIN log[n] /\ \A i \in DOMAIN log[n] : ~(z <= i)
        /\ log'[n][z] = new /\ \A i \in DOMAIN log[n] : log'[n][i] = log[n][i]
        /\ \A m \in Nodes \ {n} : log'[m] = log[m]
    <2>1. new \in Ids /\ log' = [log EXCEPT ![n] = Append(log[n], new)] /\ log \in [Nodes -> Seq(Ids)]
      BY <1>1 DEF LogsNewest, Logs, LogTypes
    <2> HIDE DEF Ids
    <2> QED BY <1>2, <2>1
  <1>4. /\ IsVersion(n, new) /\ new \in Ids /\ Key(new) = Key(id)
        /\ \A r : IsVersion(n, r) /\ Key(r) = Key(id) => Position(n, r) <= Position(n, new)
    BY <1>1 DEF LogsNewest
  <1>5. \A e : IsVersion(n, e) =>
          IsVersion(n, e)' /\ Position(n, e)' = Position(n, e) /\ Key(e)' = Key(e) /\ Position(n, e) \in Nat
    BY <1>0, PositionKept
  <1>6. \A i \in DOMAIN log'[n] : \A e \in Ids : log'[n][i] = e => IsVersion(n, e)
    BY <1>3, <1>4 DEF Forward, VersionsAt
  <1>7. ASSUME NEW i \in DOMAIN log'[n], NEW j \in DOMAIN log'[n], NEW d \in Ids, NEW e \in Ids,
               log'[n][i] = d, log'[n][j] = e, i <= j, Key(d) = Key(e)
        PROVE  Position(n, d) <= Position(n, e)
    <2>1. CASE j = z
      BY <1>3, <1>4, <1>6, <1>7, <2>1
    <2>2. CASE j # z
      <3>1. j \in DOMAIN log[n] /\ i \in DOMAIN log[n]
        BY <1>3, <1>7, <2>2
      <3> QED BY <1>3, <1>7, <3>1 DEF Forward, ForwardAt
    <2> QED BY <2>1, <2>2
  <1>8. VersionsAt(n)' /\ ForwardAt(n)'
    BY <1>5, <1>6, <1>7 DEF VersionsAt, ForwardAt
  <1>9. \A m \in Nodes \ {n} : VersionsAt(m)' /\ ForwardAt(m)'
    BY <1>0, <1>3, ForwardKept DEF Forward
  <1> QED BY <1>8, <1>9 DEF Forward

\* No step logs anything but the newest version.
LEMMA ForwardStep ==
  Calls /\ Asks /\ Received /\ Linked /\ Linked' /\ Logs /\ Forward /\ [Next]_vars => Forward'
  <1> SUFFICES ASSUME Calls, Asks, Received, Linked, Linked', Logs, Forward, [Next]_vars PROVE Forward'
    OBVIOUS
  <1>1. CASE UNCHANGED log
    BY <1>1, ForwardKept DEF Forward
  <1> QED BY <1>1, ForwardWrite, Zenon
          DEF Next, Progress, Continue, LinkStep, Propose, Link, Return, Ask, PostAsk, EndAsk,
              ClearWait, Receive, Replay, Arrive, ArriveAsk, Break, vars

\* A replicator's log never goes back in the history of a key (scot-rpli.cc:72, 74).
LEMMA ForwardHolds == Spec => []Forward
  BY CallsHold, AsksHold, ReceivedHolds, LinkedHold, LogsHold, ForwardInit, ForwardStep, PTL DEF Spec

(***************************************************************************)
(* Delivery: while a caller polls, its proposal or a newer version of the  *)
(* key is in the log; when it has returned, at the peers.                  *)
(***************************************************************************)
\* The first x entries of the log of n make up for id.
MadeUp(n, id, x) ==
  \E i \in DOMAIN log[n] : \E e \in Ids :
    i <= x /\ log[n][i] = e /\ Key(e) = Key(id) /\ Position(n, id) <= Position(n, e)

PollCovered ==
  \A c \in Callers, n \in Nodes, id \in Ids, x \in Nat :
    pc[c] = "poll" /\ Home(c) = n /\ mine[c] = id /\ Len(log[n]) = x => MadeUp(n, id, x)

Local(id) == ~Remote(id)
Settled(id) ==
  \A l \in Links : l[1] = Owner(id) => MadeUp(Owner(id), id, arrived[l]) \/ <<"rpli", l>> \in broken
Delivered == \A id \in DOMAIN proposals : Local(id) /\ Returned(id) => IsLinked(id) /\ Settled(id)

\* What is made up for stays so.
LEMMA MadeUpKept ==
  ASSUME Calls, Asks, Received, Linked, Linked', Logs, Forward, [Next]_vars,
         NEW n \in Nodes, NEW id, IsVersion(n, id), NEW x, NEW y,
         MadeUp(n, id, x), \A i \in DOMAIN log[n] : i <= x => i <= y
  PROVE  MadeUp(n, id, y)'
  <1>1. PICK i \in DOMAIN log[n], e \in Ids :
          i <= x /\ log[n][i] = e /\ Key(e) = Key(id) /\ Position(n, id) <= Position(n, e)
    BY DEF MadeUp
  <1>2. i \in DOMAIN log'[n] /\ log'[n][i] = e
    BY <1>1, LogGrows
  <1>3. IsVersion(n, e)
    BY <1>1 DEF Forward, VersionsAt
  <1>4. /\ Position(n, e)' = Position(n, e) /\ Key(e)' = Key(e)
        /\ Position(n, id)' = Position(n, id) /\ Key(id)' = Key(id)
    BY <1>3, PositionKept
  <1> QED BY <1>1, <1>2, <1>4 DEF MadeUp

\* How a call goes on.
LEMMA CallerMoves ==
  ASSUME Calls, [Next]_vars, NEW c \in Callers
  PROVE  /\ pc[c] # "idle" => mine'[c] = mine[c]
         /\ pc'[c] = "poll" => pc[c] = "poll" \/ WriteLog(c)
         /\ pc[c] # "idle" /\ pc'[c] = "idle" => Return(c) \/ (c \in Threads /\ ClearWait(c))
  <1> DEFINE P == /\ pc[c] # "idle" => mine'[c] = mine[c]
                  /\ pc'[c] = "poll" => pc[c] = "poll" \/ WriteLog(c)
                  /\ pc[c] # "idle" /\ pc'[c] = "idle" => Return(c) \/ (c \in Threads /\ ClearWait(c))
  <1>1. DOMAIN pc = Callers /\ DOMAIN mine = Callers
    BY DEF Calls, CallTypes
  <1>2. ASSUME NEW t \in Threads, NEW k \in Keys, NEW rule \in Rules, Propose(t, k, rule) PROVE P
    BY <1>1, <1>2 DEF Propose
  <1>3. ASSUME NEW d \in Callers, Link(d) PROVE P
    BY <1>1, <1>3 DEF Link
  <1>4. ASSUME NEW d \in Callers, WriteLog(d) PROVE P
    BY <1>1, <1>4 DEF WriteLog
  <1>5. ASSUME NEW d \in Callers, Return(d) PROVE P
    BY <1>1, <1>5 DEF Return
  <1>6. ASSUME NEW t \in Threads, Ask(t) \/ EndAsk(t) PROVE P
    BY <1>1, <1>6 DEF Ask, EndAsk
  <1>7. ASSUME NEW t \in Threads, ClearWait(t) PROVE P
    BY <1>1, <1>7 DEF ClearWait
  <1>8. ASSUME NEW l \in Links, Receive(l) PROVE P
    BY <1>1, <1>8 DEF Receive
  <1>9. CASE UNCHANGED <<pc, mine>>
    BY <1>9
  <1> QED BY <1>2, <1>3, <1>4, <1>5, <1>6, <1>7, <1>8, <1>9
          DEF Next, Progress, Continue, LinkStep, PostAsk, Replay, Arrive, ArriveAsk, Break, vars

\* At first nobody polls and nothing is proposed.
LEMMA DeliveredInit == Init => PollCovered /\ Delivered
  BY DEF Init, PollCovered, Delivered

\* A caller polls for the newest version of its key.
LEMMA PollStep ==
  Calls /\ Asks /\ Received /\ Linked /\ Linked' /\ Logs /\ Forward /\ PollCovered /\ [Next]_vars => PollCovered'
  <1> SUFFICES ASSUME Calls, Asks, Received, Linked, Linked', Logs, Forward, PollCovered, [Next]_vars,
                      NEW c \in Callers, NEW n \in Nodes, NEW id \in Ids, NEW y \in Nat,
                      pc'[c] = "poll", Home(c) = n, mine'[c] = id, Len(log'[n]) = y
               PROVE  MadeUp(n, id, y)'
    BY DEF PollCovered, Home
  <1>2. PICK x \in Nat : x = Len(log[n])
    BY LogGrows
  <1>4. x <= y
    BY <1>2, LogGrows
  <1>5. mine[c] = id
    BY CallerMoves DEF WriteLog
  <1>6. CASE pc[c] = "poll"
    <2>1. IsVersion(n, id) /\ MadeUp(n, id, x)
      BY <1>2, <1>5, <1>6, WriterLinked DEF PollCovered
    <2>2. \A i \in DOMAIN log[n] : i <= x => i <= y
      BY <1>2, <1>4, LogGrows
    <2> QED BY <2>1, <2>2, MadeUpKept
  <1>7. CASE WriteLog(c)
    <2>1. PICK i2 \in DOMAIN proposals, m \in Nodes, new \in DOMAIN proposals : LogsNewest(c, i2, m, new)
      BY <1>7, LogIsNewest
    <2>2. /\ i2 = id /\ m = n /\ mine'[c] = id /\ IsVersion(n, id) /\ IsVersion(n, new) /\ Key(new) = Key(id)
          /\ new \in Ids /\ Position(n, id) <= Position(n, new)
          /\ log' = [log EXCEPT ![n] = Append(log[n], new)]
      BY <1>5, <2>1 DEF LogsNewest
    <2>3. y \in DOMAIN log'[n] /\ log'[n][y] = new
      <3>1. log \in [Nodes -> Seq(Ids)]
        BY DEF Logs, LogTypes
      <3> HIDE DEF Ids
      <3> QED BY <2>2, <3>1
    <2>4. /\ Position(n, new)' = Position(n, new) /\ Key(new)' = Key(new)
          /\ Position(n, id)' = Position(n, id) /\ Key(id)' = Key(id)
      BY <2>2, PositionKept
    <2> QED BY <2>2, <2>3, <2>4 DEF MadeUp
  <1> QED BY <1>6, <1>7, CallerMoves

\* What has returned was made up for at every peer whose link holds.
LEMMA DeliveredStep ==
  /\ Calls /\ Calls' /\ Asks /\ Received /\ Linked /\ Linked' /\ Logs /\ Forward /\ PollCovered
  /\ Delivered /\ [Next]_vars
  => Delivered'
  <1> SUFFICES ASSUME Calls, Calls', Asks, Received, Linked, Linked', Logs, Forward, PollCovered, Delivered,
                      [Next]_vars, NEW id \in DOMAIN proposals', Local(id)', Returned(id)'
               PROVE  IsLinked(id)' /\ Settled(id)'
    BY DEF Delivered
  <1>1. id \in DOMAIN proposals
    <2> SUFFICES ASSUME id \notin DOMAIN proposals PROVE FALSE
      OBVIOUS
    <2>1. PICK t \in Threads, k \in Keys, rule \in Rules : Propose(t, k, rule)
      BY Zenon DEF Next, Progress, Continue, LinkStep, Link, WriteLog, Return, Ask, PostAsk, EndAsk,
             ClearWait, Receive, Replay, Arrive, ArriveAsk, Break, vars
    <2> DEFINE new == [thread |-> t, key |-> k, owner |-> rule[k]]
    <2>2. /\ proposals' = Append(proposals, new) /\ new.thread = t /\ proposals \in Seq(Proposals)
          /\ mine' = [mine EXCEPT ![t] = Len(proposals')] /\ t \in Callers
          /\ pc' = [pc EXCEPT ![t] = IF rule[k] = NodeOf[t] THEN "link" ELSE "ask"]
      BY <2>1, CallersAre DEF Propose, Judge, Calls, CallTypes
    <2> HIDE DEF new
    <2>3. id = Len(proposals') /\ proposals'[id] = new
      BY <2>2
    <2>4. mine'[t] = id /\ pc'[t] # "idle"
      BY <2>2, <2>3 DEF Calls, CallTypes
    <2> QED BY <2>2, <2>3, <2>4 DEF Returned
  <1>2. PICK n \in Nodes : n = Owner(id)
    BY <1>1, ProposalIsTyped
  <1>3. /\ Owner(id)' = n /\ Local(id) /\ Proposer(id) = n
        /\ proposals'[id].thread = proposals[id].thread
    BY <1>1, <1>2, ProposalsKept DEF Local, Remote
  <1>4. PICK t \in Threads : t = proposals[id].thread
    BY <1>1, ProposalIsTyped
  <1>5. broken \subseteq broken'
    BY Zenon DEF Next, Progress, Continue, LinkStep, Propose, Link, WriteLog, Return, Ask, PostAsk, EndAsk,
           ClearWait, Receive, Replay, Arrive, ArriveAsk, Break, vars
  <1>6. \A l \in Links : arrived[l] \in Nat /\ arrived'[l] \in Nat /\ arrived[l] <= arrived'[l]
    <2> SUFFICES ASSUME NEW l \in Links
                 PROVE  arrived[l] \in Nat /\ arrived'[l] \in Nat /\ arrived[l] <= arrived'[l]
      OBVIOUS
    <2>1. arrived \in [Links -> Nat]
      BY DEF Logs, LogTypes
    <2>2. ASSUME NEW m \in Links, Arrive(m) PROVE arrived'[l] = arrived[l] \/ arrived'[l] = arrived[l] + 1
      BY <2>1, <2>2 DEF Arrive
    <2>3. arrived'[l] = arrived[l] \/ arrived'[l] = arrived[l] + 1
      BY <2>2, Zenon DEF Next, Progress, Continue, LinkStep, Propose, Link, WriteLog, Return, Ask, PostAsk, EndAsk,
             ClearWait, Receive, Replay, ArriveAsk, Break, vars
    <2> QED BY <2>1, <2>3
  <1>7. IsLinked(id) /\ Settled(id)
    <2>1. CASE Returned(id)
      BY <1>1, <1>3, <2>1 DEF Delivered
    <2>2. CASE ~Returned(id)
      <3>1. mine[t] = id /\ pc[t] # "idle" /\ t \in Callers
        BY <1>4, <2>2, CallersAre DEF Returned
      <3>2. pc'[t] = "idle" /\ pc[t] \in Writing
        <4>1. mine'[t] = mine[t]
          BY <3>1, CallerMoves
        <4>2. NodeOf[t] = n
          BY <1>3, <1>4 DEF Proposer
        <4>3. pc'[t] = "idle"
          BY <1>3, <1>4, <3>1, <4>1 DEF Returned
        <4> QED BY <1>2, <3>1, <4>2, <4>3 DEF Calls, CallsOwned
      <3>3. Return(t)
        BY <3>1, <3>2, CallerMoves DEF ClearWait, Writing
      <3>4. pc[t] = "poll" /\ Home(t) = n /\ LogPolled(n)
        <4>1. Home(t) = n
          BY <1>3, <1>4, CallersAre DEF Proposer
        <4> QED BY <3>3, <4>1 DEF Return
      <3>5. MadeUp(n, id, Len(log[n])) /\ IsVersion(n, id)
        <4>1. IsVersion(n, id) /\ id \in Ids
          BY <1>1, <3>1, <3>4, WriterLinked, ProposalIsTyped
        <4> QED BY <3>1, <3>4, <4>1, LogGrows DEF PollCovered
      <3> QED BY <1>2, <3>4, <3>5 DEF Settled, LogPolled, IsVersion
    <2> QED BY <2>1, <2>2
  <1>8. IsVersion(n, id)
    BY <1>1, <1>2, <1>7 DEF IsVersion
  <1>9. IsLinked(id)'
    BY <1>8, PositionKept DEF IsVersion
  <1>10. Settled(id)'
    <2> SUFFICES ASSUME NEW l \in Links, l[1] = n, <<"rpli", l>> \notin broken'
                 PROVE  MadeUp(n, id, arrived[l])'
      BY <1>3 DEF Settled, MadeUp, Key, Position
    <2>1. PICK x, y : x = arrived[l] /\ y = arrived'[l]
      OBVIOUS
    <2>2. MadeUp(n, id, x)
      BY <1>2, <1>5, <1>7, <2>1 DEF Settled
    <2>3. \A i \in DOMAIN log[n] : i <= x => i <= y
      BY <1>6, <2>1, LogGrows
    <2>4. MadeUp(n, id, y)'
      BY <1>8, <2>2, <2>3, MadeUpKept
    <2> QED BY <2>1, <2>4 DEF MadeUp, Key, Position
  <1> QED BY <1>9, <1>10

\* A poll waits for its proposal's entry or a newer one, and what was returned
\* stays delivered.
LEMMA DeliveredHolds == Spec => [](PollCovered /\ Delivered)
  BY CallsHold, AsksHold, ReceivedHolds, LinkedHold, LogsHold, ForwardHolds, DeliveredInit, PollStep,
     DeliveredStep, PTL DEF Spec

\* The layers give the property as it is checked.
LEMMA DeliveredIsCovered == Calls /\ Checkers /\ Asks /\ Logs /\ Delivered => ReturnedIsDelivered
  <1> SUFFICES ASSUME Calls, Checkers, Asks, Logs, Delivered, NEW id \in DOMAIN proposals, Returned(id)
               PROVE  IF Proposer(id) = Owner(id)
                        THEN \A l \in Links : l[1] = Proposer(id) =>
                               Covered(Proposer(id), id, arrived[l]) \/ <<"rpli", l>> \in broken
                        ELSE \/ <<"chkr", <<Proposer(id), Owner(id)>>>> \in broken
                             \/ [id |-> id, msg |-> "WAIT"] \in Range(inbox[<<Proposer(id), Owner(id)>>])
    BY DEF ReturnedIsDelivered
  <1>1. CASE Proposer(id) = Owner(id)
    <2>1. PICK n \in Nodes : n = Owner(id)
      BY ProposalIsTyped
    <2> SUFFICES ASSUME NEW l \in Links, l[1] = n, <<"rpli", l>> \notin broken
                 PROVE  Covered(n, id, arrived[l])
      BY <1>1, <2>1
    <2>2. MadeUp(n, id, arrived[l])
      BY <1>1, <2>1 DEF Delivered, Settled, Local, Remote
    <2>3. PICK i \in DOMAIN log[n], e \in Ids :
            i <= arrived[l] /\ log[n][i] = e /\ Key(e) = Key(id) /\ Position(n, id) <= Position(n, e)
      BY <2>2 DEF MadeUp
    <2>4. i \in 1 .. arrived[l]
      <3>1. log[n] \in Seq(Ids) /\ arrived[l] \in Nat
        BY DEF Logs, LogTypes
      <3> QED BY <2>3, <3>1
    <2>5. Key(log[n][i]) = Key(id) /\ Position(n, log[n][i]) >= Position(n, id)
      BY <2>3
    <2> QED BY <2>4, <2>5 DEF Covered
  <1>2. CASE Proposer(id) # Owner(id)
    <2>1. ~Pending(id)
      BY DEF Pending, PendingBy, Returned, Calls, CallTypes, CallsOwned
    <2>2. Heard(id) \/ Cut(id)
      BY <1>2, <2>1 DEF Asks, AskKnown, Remote
    <2>3. PICK l : l = Way(id)
      OBVIOUS
    <2>4. CASE Heard(id)
      <3>1. PICK x \in DOMAIN inbox[l] : inbox[l][x].msg = "WAIT" /\ inbox[l][x].id = id
        BY <2>3, <2>4 DEF Heard, IsWait
      <3>2. l \in Links
        BY <1>2, <2>3, ProposalIsTyped, CallersAre DEF Way, Links
      <3>3. PICK e \in Messages : e = inbox[l][x]
        <4>1. inbox[l] \in Seq(Messages)
          BY <3>2 DEF Checkers, CheckerTypes
        <4> HIDE DEF Messages
        <4> QED BY <3>1, <4>1
      <3>4. e = [id |-> id, msg |-> "WAIT"]
        BY <3>1, <3>3 DEF Messages
      <3>5. e \in Range(inbox[l])
        BY <3>1, <3>3 DEF Range
      <3> QED BY <1>2, <2>3, <3>4, <3>5 DEF Way
    <2> QED BY <1>2, <2>2, <2>3, <2>4 DEF Cut, Way
  <1> QED BY <1>1, <1>2

\* For every cluster, when propose returns, the proposal or a newer version of
\* its key has reached every peer of the owner, if the proposal was made there,
\* and otherwise the owner's receiver has been asked for it; broken links
\* excepted (scot-core.cc:127-138, scot-rpli.cc:127).
THEOREM ReturnedAreDelivered == Spec => []ReturnedIsDelivered
  BY CallsHold, CheckersHold, AsksHold, LogsHold, DeliveredHolds, DeliveredIsCovered, PTL

(***************************************************************************)
(* The type invariant: what is left of it.                                 *)
(***************************************************************************)
WaitTypes ==
  /\ wait_hashv \in [Nodes -> Keys \cup {Nobody}] /\ wait_lock \in [Nodes -> BOOLEAN]
  /\ broken \subseteq Fragile
  /\ mine = [c \in Callers |-> mine[c]]

\* At first nothing is waited for.
LEMMA WaitTypesInit == Init => WaitTypes
  BY DEF Init, WaitTypes

\* A checker waits for the key of a proposal.
LEMMA WaitTypesStep == Calls /\ WaitTypes /\ [Next]_vars => WaitTypes'
  <1> SUFFICES ASSUME Calls, WaitTypes, [Next]_vars PROVE WaitTypes'
    OBVIOUS
  <1> USE DEF WaitTypes
  <1>1. ASSUME NEW t \in Threads, Ask(t) PROVE WaitTypes'
    <2>1. PICK id \in DOMAIN proposals : id = mine[t]
      BY <1>1 DEF Ask, Calls, CallTypes, CallsOwned
    <2>2. Key(mine[t]) \in Keys
      BY <2>1, ProposalIsTyped
    <2> QED BY <1>1, <2>2 DEF Ask
  <1>2. ASSUME NEW t \in Threads, EndAsk(t) \/ ClearWait(t) PROVE WaitTypes'
    BY <1>2 DEF EndAsk, ClearWait
  <1>3. ASSUME NEW l \in Links, Replay(l) PROVE WaitTypes'
    <2>1. PICK released \in BOOLEAN : wait_lock' = [wait_lock EXCEPT ![l[2]] = @ /\ ~released]
      <3> DEFINE released == /\ Kind(l[1], log[l[1]][applied[l] + 1]) = "ACK"
                             /\ Releases(l[2], Key(log[l[1]][applied[l] + 1]))
      <3>1. wait_lock' = [wait_lock EXCEPT ![l[2]] = @ /\ ~released]
        BY <1>3 DEF Replay
      <3>2. released \in BOOLEAN
        BY DEF Releases
      <3> HIDE DEF released
      <3> QED BY <3>1, <3>2
    <2> QED BY <1>3, <2>1 DEF Replay
  <1>4. ASSUME NEW kind, NEW l \in Links, Break(kind, l) PROVE WaitTypes'
    BY <1>4 DEF Break
  <1>5. ASSUME NEW c \in Callers, NEW id, mine' = [mine EXCEPT ![c] = id],
               UNCHANGED <<wait_hashv, wait_lock, broken>>
        PROVE  WaitTypes'
    BY <1>5
  <1>6. ASSUME NEW t \in Threads, NEW k \in Keys, NEW rule \in Rules, Propose(t, k, rule) PROVE WaitTypes'
    BY <1>5, <1>6, CallersAre DEF Propose
  <1>7. ASSUME NEW l \in Links, Receive(l) PROVE WaitTypes'
    <2>1. CASE UNCHANGED mine
      BY <1>7, <2>1 DEF Receive
    <2>2. CASE \E id : mine' = [mine EXCEPT ![l] = id]
      BY <1>5, <1>7, <2>2, CallersAre DEF Receive
    <2> QED BY <1>7, <2>1, <2>2 DEF Receive
  <1>8. CASE UNCHANGED <<wait_hashv, wait_lock, broken, mine>>
    BY <1>8
  <1> QED BY <1>1, <1>2, <1>3, <1>4, <1>6, <1>7, <1>8, Zenon
          DEF Next, Progress, Continue, LinkStep, Link, WriteLog, Return, PostAsk,
              Arrive, ArriveAsk, vars

\* The waits are of their types.
LEMMA WaitTypesHold == Spec => []WaitTypes
  BY CallsHold, WaitTypesInit, WaitTypesStep, PTL DEF Spec

\* A sequence whose entries are in a set is a sequence over that set.
LEMMA SequenceOver ==
  ASSUME NEW S, NEW T, NEW s \in Seq(S), \A i \in DOMAIN s : s[i] \in T
  PROVE  s \in Seq(T)
  <1>1. Len(s) \in Nat /\ DOMAIN s = 1 .. Len(s) /\ s = [i \in DOMAIN s |-> s[i]]
    OBVIOUS
  <1>2. s \in [1 .. Len(s) -> T]
    BY <1>1
  <1> QED BY <1>1, <1>2

\* The layers make up the type invariant.
LEMMA LayersAreTyped ==
  Calls /\ Checkers /\ Received /\ Linked /\ Logs /\ Forward /\ WaitTypes => TypeOK
  <1> SUFFICES ASSUME Calls, Checkers, Received, Linked, Logs, Forward, WaitTypes PROVE TypeOK
    OBVIOUS
  <1>1. mine \in [Callers -> {0} \cup DOMAIN proposals]
    <2>1. \A c \in Callers : mine[c] \in {0} \cup DOMAIN proposals
      BY CallersAre DEF Calls, CallTypes, Received, ReceivedAt
    <2>2. mine = [c \in Callers |-> mine[c]]
      BY DEF WaitTypes
    <2> QED BY <2>1, <2>2
  <1>2. linked \in [Nodes -> [Keys -> Seq(DOMAIN proposals)]]
    <2>1. linked \in [Nodes -> [Keys -> Seq(Ids)]]
      BY DEF Linked, LinkedSound
    <2>2. ASSUME NEW n \in Nodes, NEW k \in Keys PROVE linked[n][k] \in Seq(DOMAIN proposals)
      <3>1. linked[n][k] \in Seq(Ids)
        BY <2>1
      <3>2. \A i \in DOMAIN linked[n][k] : linked[n][k][i] \in DOMAIN proposals
        BY ZenonT(30) DEF Linked, LinkedSound
      <3>3. PICK s \in Seq(Ids) : s = linked[n][k]
        BY <3>1
      <3>4. PICK T : T = DOMAIN proposals
        OBVIOUS
      <3>5. s \in Seq(T)
        <4>1. \A i \in DOMAIN s : s[i] \in T
          BY <3>2, <3>3, <3>4 DEF Linked, LinkedSound
        <4> HIDE DEF Ids
        <4> QED BY <4>1, SequenceOver
      <3> QED BY <3>3, <3>4, <3>5
    <2> QED BY <2>1, <2>2
  <1>3. log \in [Nodes -> Seq(DOMAIN proposals)]
    <2>1. log \in [Nodes -> Seq(Ids)]
      BY DEF Logs, LogTypes
    <2>2. ASSUME NEW n \in Nodes PROVE log[n] \in Seq(DOMAIN proposals)
      <3>1. log[n] \in Seq(Ids)
        BY <2>1
      <3>2. \A i \in DOMAIN log[n] : log[n][i] \in Ids
        <4> HIDE DEF Ids
        <4> QED BY <3>1
      <3>3. \A i \in DOMAIN log[n] : log[n][i] \in DOMAIN proposals
        BY <3>2 DEF Forward, VersionsAt, IsVersion
      <3>4. PICK s \in Seq(Ids) : s = log[n]
        BY <3>1
      <3>5. PICK T : T = DOMAIN proposals
        OBVIOUS
      <3>6. s \in Seq(T)
        <4>1. \A i \in DOMAIN s : s[i] \in T
          BY <3>3, <3>4, <3>5
        <4> HIDE DEF Ids
        <4> QED BY <4>1, SequenceOver
      <3> QED BY <3>4, <3>5, <3>6
    <2> QED BY <2>1, <2>2
  <1>4. \A l \in Links : arrived[l] \in 0 .. Len(log[l[1]]) /\ applied[l] \in 0 .. arrived[l]
    <2> SUFFICES ASSUME NEW l \in Links
                 PROVE  arrived[l] \in 0 .. Len(log[l[1]]) /\ applied[l] \in 0 .. arrived[l]
      OBVIOUS
    <2>1. PICK n \in Nodes : n = l[1]
      BY CallersAre
    <2>2. Len(log[n]) \in Nat /\ arrived[l] \in Nat /\ applied[l] \in Nat
      BY DEF Logs, LogTypes
    <2>3. applied[l] <= arrived[l] /\ arrived[l] <= Len(log[n])
      BY <2>1 DEF Logs, LogTypes
    <2> QED BY <2>1, <2>2, <2>3
  <1>5. \A l \in Links : handled[l] \in 0 .. Len(inbox[l])
    BY DEF Received, ReceivedAt
  <1>6. /\ proposals \in Seq([thread : Threads, key : Keys, owner : Nodes]) /\ Len(proposals) <= MaxProposals
        /\ pc \in [Callers -> {"idle", "link", "log", "poll", "ask", "post", "clear"}]
    BY DEF Calls, CallTypes, Proposals, Labels
  <1>7. /\ asker \in [Nodes -> Threads \cup {Nobody}]
        /\ header \in [Nodes -> Messages \cup {NoHeader}]
        /\ todo \in [Nodes -> Seq(Nodes)] /\ inflight \in [Nodes -> SUBSET Nodes]
        /\ inbox \in [Links -> Seq(Messages)]
    BY DEF Checkers, CheckerTypes
  <1>8. writer \in [Nodes -> Callers \cup {Nobody}]
    BY DEF Logs, LogTypes
  <1> QED BY <1>1, <1>2, <1>3, <1>4, <1>5, <1>6, <1>7, <1>8 DEF TypeOK, WaitTypes

\* For every cluster, all variables keep their types: no replayer runs ahead of
\* what arrived, nor a receiver ahead of its log (scot-rply.cc:52, scot-rcvr.cc:53).
THEOREM TypeCorrect == Spec => []TypeOK
  BY CallsHold, CheckersHold, ReceivedHolds, LinkedHold, LogsHold, ForwardHolds, WaitTypesHold,
     LayersAreTyped, PTL

(***************************************************************************)
(* The histories that the cluster implements.                              *)
(***************************************************************************)
\* A bounded set of naturals that is not empty has its maximum.
LEMMA MaxIs ==
  ASSUME NEW m \in Nat, NEW S \in SUBSET (0 .. m), S # {}
  PROVE  Max(S) \in S /\ \A y \in S : y <= Max(S)
  <1> DEFINE T == {m - x : x \in S}
  <1>1. T \subseteq Nat /\ T # {}
    <2>1. \A x \in S : x \in 0 .. m /\ m - x \in Nat
      OBVIOUS
    <2>2. PICK x \in S : TRUE
      OBVIOUS
    <2>3. m - x \in T
      OBVIOUS
    <2> QED BY <2>1, <2>3
  <1>6. \E R : IsWellFoundedOn(R, Nat) /\ \A a, b \in Nat : a < b => <<a, b>> \in R
    <2> DEFINE R == OpToRel(<, Nat)
    <2>1. \A a, b \in Nat : a < b => <<a, b>> \in R
      BY DEF OpToRel
    <2>2. IsWellFoundedOn(R, Nat)
      BY NatLessThanWellFounded, Zenon
    <2> HIDE DEF R
    <2> QED BY <2>1, <2>2
  <1>7. PICK R : IsWellFoundedOn(R, Nat) /\ \A a, b \in Nat : a < b => <<a, b>> \in R
    BY <1>6
  <1>2. PICK t \in T : \A y \in T : ~(<<y, t>> \in R)
    <2>1. ASSUME NEW U, U \subseteq Nat, U # {}
          PROVE  \E t \in U : \A y \in U : ~(<<y, t>> \in R)
      <3>1. IsWellFoundedOn(R, Nat)
        BY <1>7
      <3> QED BY <2>1, <3>1, WFMin, Zenon
    <2> HIDE DEF T
    <2> QED BY <1>1, <2>1
  <1>3. \A y \in T : t <= y
    <2> SUFFICES ASSUME NEW y \in T PROVE t <= y
      OBVIOUS
    <2>1. y \in Nat /\ t \in Nat
      BY <1>1
    <2>2. ~(y < t)
      BY <1>2, <1>7, <2>1
    <2> QED BY <2>1, <2>2
  <1>4. PICK x \in S : t = m - x
    OBVIOUS
  <1>5. \A y \in S : x >= y
    <2> SUFFICES ASSUME NEW y \in S PROVE x >= y
      OBVIOUS
    <2>1. t <= m - y
      BY <1>3
    <2> QED BY <1>4, <2>1
  <1> QED BY <1>5 DEF Max

\* The version of k that the replayer of l has come to.
View(l, k) ==
  LET i == Replayed(l, k) IN
  IF i = 0 THEN 0 ELSE Position(l[1], log[l[1]][i])

\* It is the newest among those replayed.
ViewAt(l, k, v) ==
  /\ \A i \in 1 .. applied[l] : \A d \in Ids :
       log[l[1]][i] = d /\ Key(d) = k => Position(l[1], d) <= v
  /\ \/ v = 0
     \/ \E i \in 1 .. applied[l], e \in Ids :
          /\ log[l[1]][i] = e /\ Key(e) = k /\ IsVersion(l[1], e)
          /\ v = Position(l[1], e) /\ v \in 1 .. Len(linked[l[1]][k])
ViewsKnown == \A l \in Links, k \in Keys : \E v \in Nat : View(l, k) = v /\ ViewAt(l, k, v)

\* A log never goes back, so that the last entry of a key is its newest.
LEMMA ViewsAreKnown == Calls /\ Linked /\ Logs /\ Forward => ViewsKnown
  <1> SUFFICES ASSUME Calls, Linked, Logs, Forward, NEW l \in Links, NEW k \in Keys
               PROVE  \E v \in Nat : View(l, k) = v /\ ViewAt(l, k, v)
    BY DEF ViewsKnown
  <1>1. PICK n \in Nodes : n = l[1]
    BY CallersAre
  <1>2. PICK m \in Nat : m = applied[l]
    BY DEF Logs, LogTypes
  <1>3. log[n] \in Seq(Ids) /\ m <= Len(log[n]) /\ Len(log[n]) \in Nat
    <2>1. m <= arrived[l] /\ arrived[l] <= Len(log[n]) /\ arrived[l] \in Nat
      BY <1>1, <1>2 DEF Logs, LogTypes
    <2>2. log[n] \in Seq(Ids)
      BY DEF Logs, LogTypes
    <2>3. Len(log[n]) \in Nat
      <3> HIDE DEF Ids
      <3> QED BY <2>2
    <2> QED BY <1>2, <2>1, <2>2, <2>3
  <1>4. \A i \in 1 .. m : i \in DOMAIN log[n] /\ log[n][i] \in Ids
    <2> HIDE DEF Ids
    <2> QED BY <1>3
  <1> DEFINE S == {0} \cup {i \in 1 .. m : Key(log[n][i]) = k}
  <1>5. Max(S) \in S /\ \A y \in S : y <= Max(S)
    <2>1. S \in SUBSET (0 .. m) /\ S # {}
      OBVIOUS
    <2> HIDE DEF S
    <2> QED BY <2>1, MaxIs
  <1>6. PICK r \in S : r = Max(S) /\ \A y \in S : y <= r
    BY <1>5
  <1>7. Replayed(l, k) = r
    BY <1>1, <1>2, <1>6 DEF Replayed
  <1>8. CASE r = 0
    <2>1. ASSUME NEW i \in 1 .. m, NEW d \in Ids, log[n][i] = d, Key(d) = k PROVE FALSE
      <3>1. i \in S
        BY <2>1
      <3>2. i <= r
        BY <1>6, <3>1
      <3> QED BY <1>8, <3>2
    <2> QED BY <1>1, <1>2, <1>7, <1>8, <2>1 DEF View, ViewAt
  <1>9. CASE r # 0
    <2>1. r \in 1 .. m /\ Key(log[n][r]) = k
      BY <1>9
    <2>2. PICK e \in Ids : e = log[n][r]
      BY <1>4, <2>1
    <2>3. IsVersion(n, e)
      <3>1. r \in DOMAIN log[n]
        BY <1>4, <2>1
      <3>2. VersionsAt(n)
        BY DEF Forward
      <3> QED BY <2>2, <3>1, <3>2 DEF VersionsAt
    <2>4. PICK v \in Nat \ {0} : v = Position(n, e) /\ v <= Len(linked[n][k]) /\ Len(linked[n][k]) \in Nat
      BY <2>1, <2>2, <2>3, VersionIsAt
    <2>5. View(l, k) = v
      BY <1>1, <1>7, <1>9, <2>2, <2>4 DEF View
    <2>6. ASSUME NEW i \in 1 .. m, NEW d \in Ids, log[n][i] = d, Key(d) = k PROVE Position(n, d) <= v
      <3>1. i <= r
        BY <1>6, <2>6
      <3> QED BY <1>4, <2>1, <2>2, <2>4, <2>6, <3>1 DEF Forward, ForwardAt
    <2>7. ViewAt(l, k, v)
      BY <1>1, <1>2, <2>1, <2>2, <2>3, <2>4, <2>6 DEF ViewAt
    <2> QED BY <2>5, <2>7
  <1> QED BY <1>8, <1>9

\* A step of the reader leaves what it holds of a key, or moves it forward
\* through the history, and only when it replays an entry of that key.
LEMMA ViewMoves ==
  ASSUME Calls, Asks, Received, Linked, Linked', Logs, Logs', Forward, ViewsKnown, ViewsKnown', [Next]_vars,
         NEW l \in Links, NEW k \in Keys
  PROVE  \E v, w \in Nat :
           /\ View(l, k) = v /\ View(l, k)' = w
           /\ \/ w = v
              \/ /\ v < w /\ w \in 1 .. Len(linked'[l[1]][k])
                 /\ \E i \in 1 .. applied'[l], e \in Ids :
                      i \notin 1 .. applied[l] /\ log'[l[1]][i] = e /\ Key(e)' = k
  <1>1. PICK n \in Nodes : n = l[1]
    BY CallersAre
  <1>2. PICK v \in Nat : View(l, k) = v /\ ViewAt(l, k, v)
    BY DEF ViewsKnown
  <1>3. PICK w \in Nat : View(l, k)' = w /\ ViewAt(l, k, w)'
    BY DEF ViewsKnown
  <1>4. PICK a, b \in Nat : a = applied[l] /\ b = applied'[l] /\ a <= b /\ a <= Len(log[n]) /\ Len(log[n]) \in Nat
    <2>1. /\ applied[l] \in Nat /\ arrived[l] \in Nat /\ Len(log[n]) \in Nat
          /\ applied[l] <= arrived[l] /\ arrived[l] <= Len(log[n])
      BY <1>1, LogGrows DEF Logs, LogTypes
    <2>2. applied' = applied \/ \E r \in Links : applied' = [applied EXCEPT ![r] = @ + 1]
      BY Zenon DEF Next, Progress, Continue, LinkStep, Propose, Break, Link, WriteLog, Return, Ask, PostAsk,
             EndAsk, ClearWait, Receive, Replay, Arrive, ArriveAsk, replayers, vars
    <2>3. applied'[l] \in Nat /\ applied[l] <= applied'[l]
      <3>1. applied \in [Links -> Nat] /\ applied' \in [Links -> Nat]
        BY DEF Logs, LogTypes
      <3> QED BY <2>2, <3>1
    <2> QED BY <2>1, <2>3
  <1>5. ASSUME NEW i \in 1 .. a PROVE i \in DOMAIN log[n] /\ log[n][i] \in Ids /\ log'[n][i] = log[n][i]
    <2>1. i \in 1 .. Len(log[n])
      BY <1>4
    <2>2. i \in DOMAIN log[n] /\ log'[n][i] = log[n][i] /\ log[n] \in Seq(Ids)
      BY <2>1, LogGrows
    <2> HIDE DEF Ids
    <2> QED BY <2>2
  <1>6. v <= w
    <2>1. CASE v = 0
      BY <2>1
    <2>2. CASE v # 0
      <3>1. PICK i \in 1 .. a, e \in Ids :
              log[n][i] = e /\ Key(e) = k /\ IsVersion(n, e) /\ v = Position(n, e)
        BY <1>1, <1>2, <1>4, <2>2 DEF ViewAt
      <3>2. Key(e)' = k /\ Position(n, e)' = v /\ log'[n][i] = e /\ i \in 1 .. b
        BY <1>4, <1>5, <3>1, PositionKept
      <3> QED BY <1>1, <1>3, <1>4, <3>2 DEF ViewAt
    <2> QED BY <2>1, <2>2
  <1>7. CASE v < w
    <2>1. PICK i \in 1 .. b, e \in Ids :
              /\ log'[n][i] = e /\ Key(e)' = k /\ IsVersion(n, e)' /\ w = Position(n, e)'
              /\ w \in 1 .. Len(linked'[n][k])
      BY <1>1, <1>3, <1>4, <1>7 DEF ViewAt
    <2>2. i \notin 1 .. a
      <3> SUFFICES ASSUME i \in 1 .. a PROVE FALSE
        OBVIOUS
      <3>1. log[n][i] = e /\ IsVersion(n, e)
        <4>1. i \in DOMAIN log[n] /\ log[n][i] = e
          BY <1>5, <2>1
        <4>2. VersionsAt(n)
          BY DEF Forward
        <4> QED BY <2>1, <4>1, <4>2 DEF VersionsAt
      <3>2. Key(e) = k /\ Position(n, e) = w
        BY <2>1, <3>1, PositionKept
      <3>3. w <= v
        BY <1>1, <1>2, <1>4, <3>1, <3>2 DEF ViewAt
      <3> QED BY <1>7, <3>3
    <2>3. i \in 1 .. applied'[l] /\ i \notin 1 .. applied[l] /\ log'[l[1]][i] = e
      BY <1>1, <1>4, <2>1, <2>2
    <2> QED BY <1>1, <1>2, <1>3, <1>7, <2>1, <2>3
  <1> QED BY <1>2, <1>3, <1>6, <1>7
Views == [l \in Links |-> [k \in Keys |-> View(l, k)]]
Proposed == [i \in DOMAIN proposals |-> [key |-> Key(i), owner |-> Owner(i)]]
HistoriesInductive == Calls /\ Asks /\ Received /\ Linked /\ Logs /\ Forward /\ ViewsKnown

\* As long as nothing is replayed, no reader holds anything else.
LEMMA ViewsStay ==
  ASSUME HistoriesInductive, HistoriesInductive', [Next]_vars, applied' = applied
  PROVE  Views' = Views
  <1>1. ASSUME NEW l \in Links, NEW k \in Keys PROVE View(l, k)' = View(l, k)
    BY ViewMoves DEF HistoriesInductive
  <1> QED BY <1>1 DEF Views

\* A replayed entry moves its reader forward in the history of its key.
LEMMA ReplayLearns ==
  ASSUME HistoriesInductive, HistoriesInductive', [Next]_vars, NEW l \in Links, Replay(l)
  PROVE  \/ Views' = Views
         \/ \E k \in Keys, v, w \in Nat :
              /\ Views[l][k] = v /\ Views'[l][k] = w /\ v < w
              /\ w \in 1 .. Len(linked[l[1]][k])
              /\ Views' = [Views EXCEPT ![l][k] = w]
  <1>1. /\ UNCHANGED <<proposals, linked, log>>
        /\ applied' = [applied EXCEPT ![l] = @ + 1]
    BY DEF Replay, replicators
  <1>2. applied \in [Links -> Nat]
    BY DEF HistoriesInductive, Logs, LogTypes
  <1>3. ASSUME NEW r \in Links \ {l}, NEW k \in Keys PROVE View(r, k)' = View(r, k)
    <2>1. applied'[r] = applied[r]
      BY <1>1, <1>2
    <2> QED BY <2>1, ViewMoves DEF HistoriesInductive
  <1>4. ASSUME NEW h \in Keys, NEW k \in Keys, h # k, View(l, h)' # View(l, h) PROVE View(l, k)' = View(l, k)
    <2>1. PICK a \in Nat : a = applied[l] /\ applied'[l] = a + 1
      BY <1>1, <1>2
    <2>2. ASSUME NEW g \in Keys, View(l, g)' # View(l, g)
          PROVE  \E e \in Ids : log'[l[1]][a + 1] = e /\ Key(e)' = g
      <3>1. PICK i \in 1 .. applied'[l], e \in Ids :
              i \notin 1 .. applied[l] /\ log'[l[1]][i] = e /\ Key(e)' = g
        BY <2>2, ViewMoves DEF HistoriesInductive
      <3>2. i = a + 1
        BY <2>1, <3>1
      <3> QED BY <3>1, <3>2
    <2>3. PICK d \in Ids : log'[l[1]][a + 1] = d /\ Key(d)' = h
      BY <1>4, <2>2
    <2> QED BY <1>4, <2>2, <2>3
  <1>5. CASE \A k \in Keys : View(l, k)' = View(l, k)
    BY <1>3, <1>5 DEF Views
  <1>6. CASE \E h \in Keys : View(l, h)' # View(l, h)
    <2>1. PICK h \in Keys : View(l, h)' # View(l, h)
      BY <1>6
    <2>2. PICK v, w \in Nat :
            View(l, h) = v /\ View(l, h)' = w /\ v < w /\ w \in 1 .. Len(linked'[l[1]][h])
      BY <2>1, ViewMoves DEF HistoriesInductive
    <2>3. \A r \in Links, k \in Keys : Views'[r][k] = IF r = l /\ k = h THEN w ELSE Views[r][k]
      BY <1>3, <1>4, <2>1, <2>2 DEF Views
    <2>4. Views' = [Views EXCEPT ![l][h] = w]
      <3>1. PICK V : V = Views
        OBVIOUS
      <3>2. PICK W : W = Views'
        OBVIOUS
      <3>3. /\ V = [r \in Links |-> [k \in Keys |-> V[r][k]]]
            /\ W = [r \in Links |-> [k \in Keys |-> W[r][k]]]
        BY <3>1, <3>2 DEF Views
      <3>4. \A r \in Links, k \in Keys : W[r][k] = IF r = l /\ k = h THEN w ELSE V[r][k]
        BY <2>3, <3>1, <3>2
      <3>5. ASSUME NEW r \in Links PROVE W[r] = IF r = l THEN [V[l] EXCEPT ![h] = w] ELSE V[r]
        <4>1. W[r] = [k \in Keys |-> W[r][k]] /\ V[r] = [k \in Keys |-> V[r][k]]
          BY <3>3
        <4>2. \A k \in Keys : W[r][k] = IF r = l /\ k = h THEN w ELSE V[r][k]
          BY <3>4
        <4> QED BY <4>1, <4>2
      <3>6. DOMAIN W = Links /\ DOMAIN V = Links
        BY <3>3
      <3>7. W = [V EXCEPT ![l] = [V[l] EXCEPT ![h] = w]]
        BY <3>3, <3>5, <3>6
      <3> QED BY <3>1, <3>2, <3>7
    <2>5. Views[l][h] = v /\ Views'[l][h] = w
      BY <2>2 DEF Views
    <2> QED BY <1>1, <2>2, <2>4, <2>5
  <1> QED BY <1>5, <1>6

\* A proposal is appended to those made before.
LEMMA ProposeProposes ==
  ASSUME HistoriesInductive, HistoriesInductive', [Next]_vars,
         NEW t \in Threads, NEW k \in Keys, NEW rule \in Rules, Propose(t, k, rule)
  PROVE  \E o \in Nodes :
           /\ Len(Proposed) < MaxProposals
           /\ Proposed' = Append(Proposed, [key |-> k, owner |-> o])
           /\ UNCHANGED <<linked, Views>>
  <1>1. PICK o \in Nodes : o = Judge(rule, k)
    BY RulesAssumption DEF Judge
  <1>2. PICK x : x = [thread |-> t, key |-> k, owner |-> o]
    OBVIOUS
  <1>3. proposals' = Append(proposals, x) /\ Len(proposals) < MaxProposals
    BY <1>1, <1>2 DEF Propose
  <1>4. PICK z \in Nat : z = Len(proposals) /\ DOMAIN proposals = 1 .. z /\ proposals \in Seq(Proposals)
    BY DEF HistoriesInductive, Calls, CallTypes
  <1>5. /\ DOMAIN proposals' = 1 .. z + 1 /\ proposals'[z + 1] = x
        /\ \A i \in 1 .. z : proposals'[i] = proposals[i]
    <2> HIDE DEF Proposals
    <2> QED BY <1>3, <1>4
  <1> DEFINE R == [key : Keys, owner : Nodes]
  <1>6. PICK p \in Seq(R) : p = Proposed /\ Len(p) = z
    <2>1. \A i \in 1 .. z : [key |-> Key(i), owner |-> Owner(i)] \in R
      BY <1>4, ProposalIsTyped DEF HistoriesInductive
    <2>2. Proposed \in [1 .. z -> R]
      BY <1>4, <2>1 DEF Proposed
    <2> HIDE DEF R
    <2> QED BY <2>2
  <1>7. PICK y \in R : y = [key |-> k, owner |-> o]
    OBVIOUS
  <1>8. Proposed' = Append(p, y)
    <2>1. Proposed' = [i \in 1 .. z + 1 |-> IF i = z + 1 THEN y ELSE p[i]]
      <3>1. \A i \in 1 .. z : p[i] = [key |-> proposals[i].key, owner |-> proposals[i].owner]
        BY <1>4, <1>6 DEF Proposed, Key, Owner
      <3>2. Proposed' = [i \in 1 .. z + 1 |-> [key |-> proposals'[i].key, owner |-> proposals'[i].owner]]
        BY <1>5 DEF Proposed, Key, Owner
      <3>3. ASSUME NEW i \in 1 .. z + 1
            PROVE  [key |-> proposals'[i].key, owner |-> proposals'[i].owner] = IF i = z + 1 THEN y ELSE p[i]
        <4>1. CASE i = z + 1
          <5>1. x.key = k /\ x.owner = o
            BY <1>2
          <5> QED BY <1>5, <1>7, <4>1, <5>1
        <4>2. CASE i # z + 1
          <5>1. i \in 1 .. z
            BY <1>4, <4>2
          <5> QED BY <1>5, <3>1, <4>2, <5>1
        <4> QED BY <4>1, <4>2
      <3> QED BY <3>2, <3>3
    <2>2. PICK s : s = Append(p, y)
      OBVIOUS
    <2>3. /\ s \in [1 .. z + 1 -> R] /\ s[z + 1] = y
          /\ \A i \in 1 .. z : s[i] = p[i]
      <3> HIDE DEF R
      <3>1. s \in Seq(R) /\ Len(s) = z + 1 /\ s[z + 1] = y
        BY <1>6, <2>2
      <3>2. \A i \in 1 .. z : s[i] = p[i]
        BY <1>6, <2>2
      <3> QED BY <3>1, <3>2
    <2>4. s = [i \in 1 .. z + 1 |-> IF i = z + 1 THEN y ELSE p[i]]
      <3>1. \A i \in 1 .. z + 1 : i = z + 1 \/ i \in 1 .. z
        BY <1>4
      <3> HIDE DEF R
      <3> QED BY <2>3, <3>1
    <2> QED BY <2>1, <2>2, <2>4
  <1>9. UNCHANGED <<linked, Views>>
    BY ViewsStay DEF Propose, replicators, replayers
  <1> QED BY <1>3, <1>4, <1>6, <1>7, <1>8, <1>9

\* What is linked is taken up, for the first time, by its owner.
LEMMA LinkAccepts ==
  ASSUME HistoriesInductive, HistoriesInductive', [Next]_vars, NEW c \in Callers, Link(c)
  PROVE  \E id \in DOMAIN proposals, o \in Nodes, k \in Keys :
           /\ id \in DOMAIN Proposed /\ Proposed[id].key = k /\ Proposed[id].owner = o
           /\ \A i \in DOMAIN linked[o][k] : linked[o][k][i] # id
           /\ linked' = [linked EXCEPT ![o][k] = Append(@, id)]
           /\ UNCHANGED <<Proposed, Views>>
  <1>1. PICK id \in DOMAIN proposals : mine[c] = id /\ Owner(id) = Home(c) /\ Home(c) \in Nodes /\ Key(id) \in Keys
    BY WriterIs DEF HistoriesInductive, Link, Writing
  <1>2. PICK o \in Nodes : o = Owner(id) /\ o = Home(c)
    BY <1>1
  <1>3. PICK k \in Keys : k = Key(id)
    BY <1>1
  <1>4. linked' = [linked EXCEPT ![o][k] = Append(@, id)]
    BY <1>1, <1>2, <1>3 DEF Link
  <1>5. \A i \in DOMAIN linked[o][k] : linked[o][k][i] # id
    <2>1. ~TakenUp(id)
      BY <1>1, LinkTakesUp DEF HistoriesInductive
    <2>2. ~IsLinked(id)
      BY <2>1 DEF HistoriesInductive, Linked
    <2> QED BY <1>2, <1>3, <2>2 DEF IsLinked
  <1>6. UNCHANGED <<Proposed, Views>>
    <2>1. UNCHANGED proposals /\ applied' = applied
      BY DEF Link, replayers
    <2> QED BY <2>1, ViewsStay DEF Proposed, Key, Owner
  <1> QED BY <1>2, <1>3, <1>4, <1>5, <1>6 DEF Proposed

\* A cluster that has just been built has empty histories.
LEMMA HistoriesInit == Init => Histories!Init
  <1> SUFFICES ASSUME Init PROVE Histories!Init
    OBVIOUS
  <1>1. proposals = <<>> /\ linked = [n \in Nodes |-> [k \in Keys |-> <<>>]] /\ applied = [l \in Links |-> 0]
    BY DEF Init
  <1>2. Proposed = <<>>
    BY <1>1 DEF Proposed
  <1>3. ASSUME NEW l \in Links, NEW k \in Keys PROVE Replayed(l, k) = 0
    <2>1. {0} \cup {i \in 1 .. applied[l] : Key(log[l[1]][i]) = k} = {0}
      BY <1>1
    <2>2. Max({0}) = 0
      BY DEF Max
    <2> QED BY <2>1, <2>2 DEF Replayed
  <1>4. Views = [l \in Links |-> [k \in Keys |-> 0]]
    BY <1>3 DEF Views, View
  <1> QED BY <1>1, <1>2, <1>4 DEF Histories!Init, Histories!Links, Links, Proposed, Views, View

\* Steps of the cluster are steps of the histories, or leave them alone.
LEMMA HistoriesStep ==
  HistoriesInductive /\ HistoriesInductive' /\ [Next]_vars => [Histories!Next]_(Histories!vars)
  <1> SUFFICES ASSUME HistoriesInductive, HistoriesInductive', [Next]_vars
               PROVE  [Histories!Next]_(Histories!vars)
    OBVIOUS
  <1>1. ASSUME NEW t \in Threads, NEW k \in Keys, NEW rule \in Rules, Propose(t, k, rule)
        PROVE  Histories!Next
    <2>1. PICK o \in Nodes :
             /\ Len(Proposed) < MaxProposals
             /\ Proposed' = Append(Proposed, [key |-> k, owner |-> o])
             /\ UNCHANGED <<linked, Views>>
      BY <1>1, ProposeProposes
    <2>2. Histories!Propose(k, o)
      BY <2>1 DEF Histories!Propose, Proposed, Views, View
    <2> QED BY <2>2 DEF Histories!Next
  <1>2. ASSUME NEW c \in Callers, Link(c) PROVE Histories!Next
    <2>1. PICK id \in DOMAIN proposals, o \in Nodes, k \in Keys :
             /\ id \in DOMAIN Proposed /\ Proposed[id].key = k /\ Proposed[id].owner = o
             /\ \A i \in DOMAIN linked[o][k] : linked[o][k][i] # id
             /\ linked' = [linked EXCEPT ![o][k] = Append(@, id)]
             /\ UNCHANGED <<Proposed, Views>>
      BY <1>2, LinkAccepts
    <2>2. Histories!Accept(id)
      BY <2>1 DEF Histories!Accept, Proposed, Views, View
    <2> QED BY <2>1, <2>2 DEF Histories!Next, Proposed
  <1>3. ASSUME NEW l \in Links, Replay(l) PROVE [Histories!Next]_(Histories!vars)
    <2>1. UNCHANGED <<Proposed, linked>>
      BY <1>3 DEF Replay, replicators, Proposed, Key, Owner
    <2>2. CASE Views' = Views
      BY <2>1, <2>2 DEF Histories!vars, Proposed, Views, View
    <2>3. ASSUME NEW k \in Keys, NEW v \in Nat, NEW w \in Nat,
                 Views[l][k] = v, Views'[l][k] = w, v < w, w \in 1 .. Len(linked[l[1]][k]),
                 Views' = [Views EXCEPT ![l][k] = w]
          PROVE  Histories!Next
      <3>1. Views'[l][k] > Views[l][k]
        BY <2>3
      <3>2. Histories!Learn(l, k)
        BY <2>1, <2>3, <3>1 DEF Histories!Learn, Proposed, Views, View
      <3>3. l \in Histories!Links
        BY DEF Histories!Links, Links
      <3> QED BY <3>2, <3>3 DEF Histories!Next
    <2> QED BY <1>3, <2>2, <2>3, ReplayLearns
  <1>4. CASE UNCHANGED <<proposals, linked, applied>>
    <2>1. UNCHANGED <<Proposed, linked, Views>>
      BY <1>4, ViewsStay DEF Proposed, Key, Owner
    <2> QED BY <2>1 DEF Histories!vars, Proposed, Views, View
  <1> QED BY <1>1, <1>2, <1>3, <1>4, Zenon
          DEF Next, Progress, Continue, LinkStep, Break, WriteLog, Return, Ask, PostAsk, EndAsk,
              ClearWait, Receive, Arrive, ArriveAsk, replicators, replayers, vars

\* For every cluster, whatever links break: a proposal is taken up at most once,
\* by the owner chosen for it, and no node that replays an owner's log goes
\* back to an older version of a key (scot-hash.cc:186, scot-rply.cc:50).
THEOREM ImplementsKeyHistories == Spec => ImplementsHistories
  <1>1. HistoriesInductive <=> Calls /\ Asks /\ Received /\ Linked /\ Logs /\ Forward /\ ViewsKnown
    BY DEF HistoriesInductive
  <1>2. Spec => []HistoriesInductive
    BY <1>1, CallsHold, AsksHold, ReceivedHolds, LinkedHold, LogsHold, ForwardHolds, ViewsAreKnown, PTL
  <1>3. Spec => Histories!Init /\ [][Histories!Next]_(Histories!vars)
    BY <1>2, HistoriesInit, HistoriesStep, PTL DEF Spec
  <1> QED BY <1>3 DEF ImplementsHistories, Histories!Spec
===============================================================================
