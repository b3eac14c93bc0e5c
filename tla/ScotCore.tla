-------------------------------- MODULE ScotCore -------------------------------
(***************************************************************************)
(* The constructor of ScotCore on every node (scot-core.cc), which goes on *)
(* where that of ScotConnection ends: for every peer a replayer and a      *)
(* receiver are constructed over the registered memory region, their       *)
(* workers are spawned, paused, and at last all of them are let run.       *)
(*                                                                         *)
(* The constructor of a reader zeroes its region, and the barrier of       *)
(* ScotConnection comes before.  So a node that is through may write into  *)
(* the region of a peer that has not zeroed it yet.                        *)
(*                                                                         *)
(* A region is a set of words that are not zero; an entry of a log takes   *)
(* two of them, its header and its canary (ScotRing has the details).  A   *)
(* reader is <<"rply" or "rcvr", its node, the peer it reads from>>.       *)
(***************************************************************************)
EXTENDS ScotConnection

CONSTANTS Watched,     \* readers that entries are written for
          MaxEntries   \* bound: entries per log, which do not fill it

Readers == {<<kind, n, p>> : kind \in {"rply", "rcvr"}, n \in Nodes, p \in Nodes}
             \ {<<kind, n, n>> : kind \in {"rply", "rcvr"}, n \in Nodes}

ASSUME WatchedAssumption == Watched \subseteq Readers
ASSUME MaxEntriesAssumption == MaxEntries \in Nat \ {0}

VARIABLES built,       \* node -> calls of the core's constructor it has made
          nonzero,     \* reader -> words of its region that are not zero
          zeroed,      \* reader -> words its constructor has zeroed
          paused,      \* reader -> SCOT_WRKR_PAUSE in worker_signal
          spawned,     \* readers whose worker has started
          posted,      \* reader -> entries its peer has posted
          delivered,   \* reader -> words of them in the region
          got,         \* reader -> entries the worker has taken
          early        \* history: readers that were overtaken by an entry

coreVars == <<built, nonzero, zeroed, paused, spawned, posted, delivered, got, early>>

\* The region of a reader that nobody writes to is as good as one word.
Words(r) == 1 .. (IF r \in Watched THEN 2 * MaxEntries ELSE 1)
Entry(i) == {2 * i - 1, 2 * i}

Do(op, r) == [op |-> op, reader |-> r]

\* Faults, which no specification uses: a reader whose region is not zeroed,
\* one that does not start paused, replayers let run instead of receivers.
ConstructNoZero(r) == <<Do("toggle", r), Do("spawn", r)>>
ConstructRunning(r) == <<Do("zero", r), Do("spawn", r)>>
RunReplayers(n) == ForPeers(n, [p \in Nodes |-> <<Do("toggle", <<"rply", n, p>>)>>])

\* ScotReplayer::ScotReplayer, ScotReceiver::ScotReceiver, worker_spawn.
Construct(r) == <<Do("zero", r), Do("toggle", r), Do("spawn", r)>>

RunReceivers(n) == ForPeers(n, [p \in Nodes |-> <<Do("toggle", <<"rcvr", n, p>>)>>])

CoreConstructor ==
  [n \in Nodes |->
     ForPeers(n, [p \in Nodes |-> Construct(<<"rply", n, p>>)]) \o
     ForPeers(n, [p \in Nodes |-> Construct(<<"rcvr", n, p>>)]) \o
     RunReplayers(n) \o RunReceivers(n)]

Built(n) == Done(n) /\ built[n] = Len(CoreConstructor[n])
NextDo(n) == CoreConstructor[n][built[n] + 1]

\* What a region holds before its reader's constructor is up to chance.
CoreInit ==
  /\ Init
  /\ built = [n \in Nodes |-> 0]
  /\ nonzero = [r \in Readers |-> Words(r)]
  /\ zeroed = [r \in Readers |-> {}]
  /\ paused = [r \in Readers |-> FALSE]
  /\ spawned = {} /\ early = {}
  /\ posted = [r \in Readers |-> 0]
  /\ delivered = [r \in Readers |-> 0]
  /\ got = [r \in Readers |-> 0]

MayDo(n, op) == Done(n) /\ ~Built(n) /\ NextDo(n).op = op

\* One word of the memset in ScotLog::ScotLog, whose order is not specified.
Zero(n) ==
  /\ MayDo(n, "zero")
  /\ LET r == NextDo(n).reader IN
     \E w \in Words(r) \ zeroed[r] :
       /\ nonzero' = [nonzero EXCEPT ![r] = @ \ {w}]
       /\ zeroed' = [zeroed EXCEPT ![r] = @ \cup {w}]
       /\ built' = [built EXCEPT ![n] = IF zeroed'[r] = Words(r) THEN @ + 1 ELSE @]
  /\ UNCHANGED <<vars, paused, spawned, posted, delivered, got, early>>

\* worker_signal_toggle(SCOT_WRKR_PAUSE): worker_signal ^= signal.
Toggle(n) ==
  /\ MayDo(n, "toggle")
  /\ paused' = [paused EXCEPT ![NextDo(n).reader] = ~@]
  /\ built' = [built EXCEPT ![n] = @ + 1]
  /\ UNCHANGED <<vars, nonzero, zeroed, spawned, posted, delivered, got, early>>

Spawn(n) ==
  /\ MayDo(n, "spawn")
  /\ spawned' = spawned \cup {NextDo(n).reader}
  /\ built' = [built EXCEPT ![n] = @ + 1]
  /\ UNCHANGED <<vars, nonzero, zeroed, paused, posted, delivered, got, early>>

\* The application of the peer proposes as soon as its own core is there.
Post(r) ==
  /\ Built(r[3])
  /\ posted[r] < MaxEntries
  /\ posted' = [posted EXCEPT ![r] = @ + 1]
  /\ UNCHANGED <<vars, built, nonzero, zeroed, paused, spawned, delivered, got, early>>

Deliver(r) ==
  LET w == delivered[r] + 1 IN
  /\ delivered[r] < 2 * posted[r]
  /\ delivered' = [delivered EXCEPT ![r] = w]
  /\ nonzero' = [nonzero EXCEPT ![r] = @ \cup {w}]
  /\ early' = IF w \in zeroed[r] THEN early ELSE early \cup {r}
  /\ UNCHANGED <<vars, built, zeroed, paused, spawned, posted, got>>

\* One turn of the worker: it finds header and canary, and clears both.
Work(r) ==
  LET entry == Entry(got[r] + 1) IN
  /\ r \in spawned /\ ~paused[r]
  /\ entry \subseteq nonzero[r]
  /\ nonzero' = [nonzero EXCEPT ![r] = @ \ entry]
  /\ got' = [got EXCEPT ![r] = @ + 1]
  /\ UNCHANGED <<vars, built, zeroed, paused, spawned, posted, delivered, early>>

Progress ==
  \/ Next /\ UNCHANGED coreVars
  \/ \E n \in Nodes : Zero(n) \/ Toggle(n) \/ Spawn(n)
  \/ \E r \in Watched : Deliver(r) \/ Work(r)

CoreNext == Progress \/ \E r \in Watched : Post(r)

CoreSpec == CoreInit /\ [][CoreNext]_<<vars, coreVars>>

\* Constructors and workers are scheduled and posted writes arrive; whether an
\* application proposes is open.  No step can be repeated for ever, so that
\* fairness for all steps together is fairness for each.
CoreFairSpec == CoreSpec /\ WF_<<vars, coreVars>>(Progress)

(***************************************************************************)
(* Properties.                                                             *)
(***************************************************************************)
\* The types; a worker's region is zeroed before the worker is spawned.
CoreTypeOK ==
  /\ \A n \in Nodes : built[n] \in 0 .. Len(CoreConstructor[n])
  /\ \A r \in Readers : nonzero[r] \subseteq Words(r) /\ zeroed[r] \subseteq Words(r)
  /\ paused \in [Readers -> BOOLEAN]
  /\ spawned \subseteq {r \in Readers : zeroed[r] = Words(r)}
  /\ early \subseteq Watched
  /\ posted \in [Readers -> 0 .. MaxEntries] /\ got \in [Readers -> 0 .. MaxEntries]
  /\ delivered \in [Readers -> 0 .. 2 * MaxEntries]

\* A worker takes nothing that its peer has not written, whatever its region
\* held when it was registered and whoever wrote into it while it was zeroed.
NothingInvented == \A r \in Readers : 2 * got[r] <= delivered[r]

\* No worker touches an entry before all readers of its node have their
\* worker: PAUSE, set before the spawn, holds them back (scot-core.cc:91-97).
NoWorkBeforeReady ==
  \A r \in Readers : got[r] > 0 => {q \in Readers : q[2] = r[2]} \subseteq spawned

\* In the end every entry was taken by the worker it was written for, except
\* on a link where an entry overtook the zeroing of the region: the barrier
\* does not wait for it (scot-core.cc:64), and a log once behind stays behind.
ReceivedUnlessEarly ==
  <>[](\A r \in Readers : r \in early \/ got[r] = posted[r])

\* All nodes get through both constructors.
AllBuilt == \A n \in Nodes : <>Built(n)
===============================================================================
