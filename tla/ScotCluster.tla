------------------------------ MODULE ScotCluster ------------------------------
(***************************************************************************)
(* ScotCore::propose on several nodes.  Each node has a replicator, a      *)
(* checker, and for every peer a replayer of the peer's replicator log and *)
(* a receiver of its checker log.  A proposal made at the owner of its key *)
(* goes through the replicator; another one goes through the checker to    *)
(* the owner's receiver, which calls the owner's replicator in turn.       *)
(*                                                                         *)
(* The parts are taken at what the other modules show of them: slots are   *)
(* no obstacle (SlotRounds), an entry becomes the newest version of its    *)
(* key in one step (VersionMap), a log and its reader are a FIFO channel   *)
(* (FifoChannel).  A version is named by its proposal; it is of type PURE  *)
(* at the node that proposed it and ACK anywhere else.                     *)
(*                                                                         *)
(* A link may break: its queue pair goes into the error state, in which    *)
(* writes complete at once, without effect.  The code ignores the results. *)
(***************************************************************************)
EXTENDS Integers, Sequences, SequencesExt

CONSTANTS NodeCount,     \* SCOT_QSIZE
          Threads,       \* application threads
          NodeOf,        \* thread -> its node
          Keys,          \* hash values
          Rules,         \* registered rules, functions from keys to owners
          MaxProposals,  \* bound: calls of propose
          Fragile,       \* links that may break
          Nobody         \* a lock is free; no hash value is waited for

Nodes == 0 .. NodeCount - 1
Links == {l \in Nodes \X Nodes : l[1] # l[2]}   \* <<writer, reader>>
Receivers == Links                              \* the worker serving that link
Callers == Threads \cup Receivers
Home(c) == IF c \in Threads THEN NodeOf[c] ELSE c[2]

ASSUME NodesAssumption == NodeCount \in Nat \ {0, 1}
ASSUME ThreadsAssumption ==
  Threads \cap Receivers = {} /\ NodeOf \in [Threads -> Nodes]
ASSUME NobodyAssumption == Nobody \notin Callers \cup Keys
ASSUME RulesAssumption == Rules # {} /\ Rules \subseteq [Keys -> Nodes]
ASSUME BoundsAssumption ==
  MaxProposals \in Nat /\ Fragile \subseteq {"rpli", "chkr"} \X Links

VARIABLES proposals,         \* history: [thread, key, owner]
          pc, mine,          \* caller -> where it is, the proposal it works on
          linked,            \* node -> key -> versions, in the order of linking
          writer,            \* node -> holder of the replicator's writer_lock
          log,               \* node -> versions the replicator has logged
          arrived, applied,  \* link -> how much of log arrived and was replayed
          asker,             \* node -> holder of the checker's writer_lock
          header,            \* node -> header of the checker's newest entry
          todo, inflight,    \* node -> peers to post to; posted and not polled
          inbox, handled,    \* link -> entries in the receiver's log, and done
          wait_hashv, wait_lock,
          broken             \* broken links: <<"rpli" or "chkr", link>>

replicators == <<linked, writer, log>>
replayers == <<arrived, applied>>
checkers == <<asker, header, todo, inflight>>
waits == <<wait_hashv, wait_lock>>
receivers == <<inbox, handled>>
vars == <<proposals, pc, mine, replicators, replayers, checkers, waits, receivers, broken>>

Ids == 1 .. MaxProposals
Quorum(n) == [i \in 1 .. NodeCount - 1 |-> IF i <= n THEN i - 1 ELSE i]   \* all but n
Key(id) == proposals[id].key
Owner(id) == proposals[id].owner
Proposer(id) == NodeOf[proposals[id].thread]
Kind(n, id) == IF Proposer(id) = n THEN "PURE" ELSE "ACK"
Messages == [id : Ids, msg : {"WAIT", "HDRONLY"}]
NoHeader == [id |-> 0, msg |-> "NONE"]

Init ==
  /\ proposals = <<>> /\ broken = {}
  /\ pc = [c \in Callers |-> "idle"] /\ mine = [c \in Callers |-> 0]
  /\ linked = [n \in Nodes |-> [k \in Keys |-> <<>>]] /\ log = [n \in Nodes |-> <<>>]
  /\ writer = [n \in Nodes |-> Nobody] /\ asker = [n \in Nodes |-> Nobody]
  /\ arrived = [l \in Links |-> 0] /\ applied = [l \in Links |-> 0]
  /\ header = [n \in Nodes |-> NoHeader]
  /\ todo = [n \in Nodes |-> <<>>] /\ inflight = [n \in Nodes |-> {}]
  /\ inbox = [l \in Links |-> <<>>] /\ handled = [l \in Links |-> 0]
  /\ wait_hashv = [n \in Nodes |-> Nobody] /\ wait_lock = [n \in Nodes |-> FALSE]

Goto(c, label) == pc' = [pc EXCEPT ![c] = label]

(***************************************************************************)
(* Faults: what a plausible mistake would make of a definition below.  No  *)
(* specification uses them; each breaks a property that the code keeps.    *)
(***************************************************************************)
\* The completion of a write is not awaited.
Unpolled(n) == TRUE
NothingPolled(n) == TRUE

\* The receiver answers whatever it is sent; the replayer runs ahead.
Answered(message) == TRUE
ReplayNextEntry(l) == applied[l] <= arrived[l]

\* The hash value waited for is left behind.
KeepWait(t) ==
  /\ pc[t] = "clear"
  /\ Goto(t, "idle")
  /\ UNCHANGED <<proposals, mine, replicators, replayers, checkers, waits, receivers, broken>>

\* ScotJudge::judge.  Every node sets its active rule for itself, at any time,
\* so that it may be any of the registered ones.
Judge(rule, k) == rule[k]

\* propose.
Propose(t, k, rule) ==
  LET n == NodeOf[t]
      owner == Judge(rule, k)
  IN
  /\ pc[t] = "idle"
  /\ Len(proposals) < MaxProposals
  /\ proposals' = Append(proposals, [thread |-> t, key |-> k, owner |-> owner])
  /\ mine' = [mine EXCEPT ![t] = Len(proposals')]
  /\ Goto(t, IF owner = n THEN "link" ELSE "ask")
  /\ UNCHANGED <<replicators, replayers, checkers, waits, receivers, broken>>

(***************************************************************************)
(* ScotReplicator::write_request, for a thread or a receiver.              *)
(***************************************************************************)
Link(c) ==
  /\ pc[c] = "link"
  /\ linked' = [linked EXCEPT ![Home(c)][Key(mine[c])] = Append(@, mine[c])]
  /\ Goto(c, "log")
  /\ UNCHANGED <<proposals, mine, writer, log, replayers, checkers, waits, receivers, broken>>

\* The newest version is logged and posted to all peers.
WriteLog(c) ==
  LET n == Home(c) IN
  /\ pc[c] = "log"
  /\ writer[n] = Nobody
  /\ writer' = [writer EXCEPT ![n] = c]
  /\ log' = [log EXCEPT ![n] = Append(@, Last(linked[n][Key(mine[c])]))]
  /\ Goto(c, "poll")
  /\ UNCHANGED <<proposals, mine, linked, replayers, checkers, waits, receivers, broken>>

\* Every write has completed, with success or not.
LogPolled(n) ==
  \A l \in Links :
    l[1] = n => arrived[l] = Len(log[n]) \/ <<"rpli", l>> \in broken

\* write_request returns; a receiver goes on to clear its header.
Return(c) ==
  LET n == Home(c) IN
  /\ pc[c] = "poll"
  /\ LogPolled(n)
  /\ writer' = [writer EXCEPT ![n] = Nobody]
  /\ handled' = [l \in Links |-> handled[l] + IF l = c THEN 1 ELSE 0]
  /\ Goto(c, "idle")
  /\ UNCHANGED <<proposals, mine, linked, log, replayers, checkers, waits, inbox, broken>>

(***************************************************************************)
(* ScotChecker::write_request.                                             *)
(***************************************************************************)
Ask(t) ==
  LET n == NodeOf[t] IN
  /\ pc[t] = "ask"
  /\ asker[n] = Nobody
  /\ asker' = [asker EXCEPT ![n] = t]
  /\ header' = [header EXCEPT ![n] = [id |-> mine[t], msg |-> "WAIT"]]
  /\ wait_hashv' = [wait_hashv EXCEPT ![n] = Key(mine[t])]
  /\ todo' = [todo EXCEPT ![n] = Quorum(n)]
  /\ Goto(t, "post")
  /\ UNCHANGED <<proposals, mine, replicators, replayers, inflight, wait_lock, receivers, broken>>

AskPolled(n) == inflight[n] = {}

\* One iteration of the loop over the quorum, after the poll of the one
\* before: the type is set in the header, which the network card will read.
PostAsk(t) ==
  LET n == NodeOf[t]
      p == todo[n][1]
      msg == IF p = Owner(mine[t]) THEN "WAIT" ELSE "HDRONLY"
  IN
  /\ pc[t] = "post"
  /\ todo[n] # <<>> /\ AskPolled(n)
  /\ header' = [header EXCEPT ![n].msg = msg]
  /\ inflight' = [inflight EXCEPT ![n] = IF <<"chkr", <<n, p>>>> \in broken
                                           THEN @ ELSE @ \cup {p}]
  /\ todo' = [todo EXCEPT ![n] = Tail(@)]
  /\ UNCHANGED <<proposals, pc, mine, replicators, replayers, asker, waits, receivers, broken>>

\* __WAIT_FOR_PROPACK__ sets the flag and does not wait; __END_WRITE__.
EndAsk(t) ==
  LET n == NodeOf[t] IN
  /\ pc[t] = "post"
  /\ todo[n] = <<>> /\ AskPolled(n)
  /\ wait_lock' = [wait_lock EXCEPT ![n] = TRUE]
  /\ asker' = [asker EXCEPT ![n] = Nobody]
  /\ Goto(t, "clear")
  /\ UNCHANGED <<proposals, mine, replicators, replayers, header, todo, inflight, wait_hashv, receivers, broken>>

\* wait_hashv = 0, outside the lock.
ClearWait(t) ==
  /\ pc[t] = "clear"
  /\ wait_hashv' = [wait_hashv EXCEPT ![NodeOf[t]] = Nobody]
  /\ Goto(t, "idle")
  /\ UNCHANGED <<proposals, mine, replicators, replayers, checkers, wait_lock, receivers, broken>>

(***************************************************************************)
(* Readers.                                                                *)
(***************************************************************************)
Answers(message) == message.msg = "WAIT"

\* A receiver answers a WAIT with a write_request of its node's replicator
\* and skips a HDRONLY.
Receive(l) ==
  /\ pc[l] = "idle"
  /\ handled[l] < Len(inbox[l])
  /\ LET message == inbox[l][handled[l] + 1] IN
     IF Answers(message)
       THEN /\ mine' = [mine EXCEPT ![l] = message.id]
            /\ Goto(l, "link")
            /\ UNCHANGED handled
       ELSE /\ handled' = [handled EXCEPT ![l] = @ + 1]
            /\ UNCHANGED <<pc, mine>>
  /\ UNCHANGED <<proposals, replicators, replayers, checkers, waits, inbox, broken>>

ReplayerReady(l) == applied[l] < arrived[l]

\* release_wait(hashv) of the checker on node n.
Releases(n, hashv) == wait_hashv[n] = hashv

\* The replayer of l; an ACK goes to release_wait of its node's checker.
Replay(l) ==
  LET id == log[l[1]][applied[l] + 1]
      released == Kind(l[1], id) = "ACK" /\ Releases(l[2], Key(id))
  IN
  /\ ReplayerReady(l)
  /\ applied' = [applied EXCEPT ![l] = @ + 1]
  /\ wait_lock' = [wait_lock EXCEPT ![l[2]] = @ /\ ~released]
  /\ UNCHANGED <<proposals, pc, mine, replicators, arrived, checkers, wait_hashv, receivers, broken>>

(***************************************************************************)
(* The network.                                                            *)
(***************************************************************************)
Arrive(l) ==
  /\ <<"rpli", l>> \notin broken
  /\ arrived[l] < Len(log[l[1]])
  /\ arrived' = [arrived EXCEPT ![l] = @ + 1]
  /\ UNCHANGED <<proposals, pc, mine, replicators, applied, checkers, waits, receivers, broken>>

\* What arrives is what the header says now.
ArriveAsk(l) ==
  /\ l[2] \in inflight[l[1]]
  /\ inbox' = [inbox EXCEPT ![l] = Append(@, header[l[1]])]
  /\ inflight' = [inflight EXCEPT ![l[1]] = @ \ {l[2]}]
  /\ UNCHANGED <<proposals, pc, mine, replicators, replayers, asker, header, todo, waits, handled, broken>>

\* A write on its way fails, and with it all later ones on this link.
Break(kind, l) ==
  /\ <<kind, l>> \in Fragile
  /\ IF kind = "rpli" THEN arrived[l] < Len(log[l[1]]) ELSE l[2] \in inflight[l[1]]
  /\ broken' = broken \cup {<<kind, l>>}
  /\ inflight' = IF kind = "chkr" THEN [inflight EXCEPT ![l[1]] = @ \ {l[2]}] ELSE inflight
  /\ UNCHANGED <<proposals, pc, mine, replicators, replayers, asker, header, todo, waits, receivers>>

Continue(c) ==
  \/ Link(c) \/ WriteLog(c) \/ Return(c)
  \/ c \in Threads /\ (Ask(c) \/ PostAsk(c) \/ EndAsk(c) \/ ClearWait(c))
LinkStep(l) == Receive(l) \/ Replay(l) \/ Arrive(l) \/ ArriveAsk(l)
Progress == (\E c \in Callers : Continue(c)) \/ \E l \in Links : LinkStep(l)

Next ==
  \/ \E t \in Threads, k \in Keys, rule \in Rules : Propose(t, k, rule)
  \/ \E kind \in {"rpli", "chkr"}, l \in Links : Break(kind, l)
  \/ Progress

Spec == Init /\ [][Next]_vars

\* Calls that have begun go on, workers are scheduled, writes complete.  No
\* step can be repeated without a new proposal, so that with finitely many of
\* them fairness for all steps together is fairness for each.
FairSpec == Spec /\ WF_vars(Progress)

(***************************************************************************)
(* Properties.                                                             *)
(***************************************************************************)
TypeOK ==
  /\ proposals \in Seq([thread : Threads, key : Keys, owner : Nodes])
  /\ Len(proposals) <= MaxProposals
  /\ pc \in [Callers -> {"idle", "link", "log", "poll", "ask", "post", "clear"}]
  /\ mine \in [Callers -> {0} \cup DOMAIN proposals]
  /\ linked \in [Nodes -> [Keys -> Seq(DOMAIN proposals)]]
  /\ writer \in [Nodes -> Callers \cup {Nobody}]
  /\ log \in [Nodes -> Seq(DOMAIN proposals)]
  /\ \A l \in Links : arrived[l] \in 0 .. Len(log[l[1]]) /\ applied[l] \in 0 .. arrived[l]
  /\ asker \in [Nodes -> Threads \cup {Nobody}]
  /\ header \in [Nodes -> Messages \cup {NoHeader}]
  /\ todo \in [Nodes -> Seq(Nodes)] /\ inflight \in [Nodes -> SUBSET Nodes]
  /\ inbox \in [Links -> Seq(Messages)]
  /\ \A l \in Links : handled[l] \in 0 .. Len(inbox[l])
  /\ wait_hashv \in [Nodes -> Keys \cup {Nobody}] /\ wait_lock \in [Nodes -> BOOLEAN]
  /\ broken \subseteq Fragile

Position(n, id) == SelectInSeq(linked[n][Key(id)], LAMBDA i : i = id)
\* The newest entry of k that was replayed, 0 if there is none.
Replayed(l, k) == Max({0} \cup {i \in 1 .. applied[l] : Key(log[l[1]][i]) = k})

\* Every proposal is taken up at most once and only by the owner chosen for
\* it, and a node that replays an owner's log never goes back to an older
\* version of a key, whichever thread or receiver logged it.
Histories ==
  INSTANCE KeyHistories WITH
    proposed <- [i \in DOMAIN proposals |-> [key |-> Key(i), owner |-> Owner(i)]],
    history <- linked,
    view <- [l \in Links |-> [k \in Keys |->
              LET i == Replayed(l, k) IN
              IF i = 0 THEN 0 ELSE Position(l[1], log[l[1]][i])]]
ImplementsHistories == Histories!Spec

\* The proposals of a thread that concern one key and go to the same owner
\* are taken up in the order in which the thread made them, although propose
\* returns before the owner has taken them up (scot-core.hh:92); nothing that
\* a broken link swallows is followed by a later proposal over that link.
ThreadOrder ==
  \A i, j \in DOMAIN proposals :
    /\ i < j
    /\ proposals[i].thread = proposals[j].thread
    /\ Owner(i) = Owner(j) /\ Key(i) = Key(j)
    => LET at == linked[Owner(j)][Key(j)] IN
       \A b \in DOMAIN at : at[b] = j => \E a \in 1 .. b - 1 : at[a] = i

Returned(id) ==
  LET t == proposals[id].thread IN mine[t] # id \/ pc[t] = "idle"

\* Position(n, id) or a later version of its key is among the first `count`
\* entries of the log.
Covered(n, id, count) ==
  \E i \in 1 .. count :
    Key(log[n][i]) = Key(id) /\ Position(n, log[n][i]) >= Position(n, id)

\* When propose returns, the peers hold the proposal or a newer version of
\* its key, or, elsewhere than at its owner, the owner has been asked; broken
\* links excepted.
ReturnedIsDelivered ==
  \A id \in DOMAIN proposals : Returned(id) =>
    LET n == Proposer(id)
        o == Owner(id)
    IN  IF n = o
          THEN \A l \in Links : l[1] = n => Covered(n, id, arrived[l]) \/ <<"rpli", l>> \in broken
          ELSE \/ <<"chkr", <<n, o>>>> \in broken
               \/ [id |-> id, msg |-> "WAIT"] \in Range(inbox[<<n, o>>])

\* A hash value in wait_hashv is that of a proposal still being made there,
\* although it is set inside and cleared outside the lock by different threads.
WaitIsCurrent ==
  \A n \in Nodes : wait_hashv[n] # Nobody =>
    \E t \in Threads :
      /\ NodeOf[t] = n
      /\ pc[t] \in {"post", "clear"}
      /\ wait_hashv[n] = Key(mine[t])

\* The links a proposal takes to reach a node.
Path(id, p) ==
  {<<"chkr", <<Proposer(id), Owner(id)>>>>, <<"rpli", <<Owner(id), p>>>>}

Spread(id, p) ==
  \/ p = Owner(id)
  \/ Path(id, p) \cap broken # {}
  \/ Covered(Owner(id), id, applied[<<Owner(id), p>>])

\* In the end every proposal, or a newer version of its key, was replayed at
\* all nodes but the owner's, unless a link on its way broke; a broken link
\* hurts no other.
EveryProposalSpreads ==
  <>[](\A id \in DOMAIN proposals, p \in Nodes : Spread(id, p))
===============================================================================
