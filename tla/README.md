# SCOT in TLA+

SCOT replicates the proposals of a cluster of nodes over RDMA. Every key (a
32-bit hash) has an owner among the nodes. `propose` on the owner writes the
proposal into the memory of all other nodes; on another node it asks the owner
to do so. The nodes have no messages besides these writes into each other's
logs, and inside a node almost everything is lock-free. This directory models
the code under `src/src`, checks the models with TLC and proves some of their
properties with TLAPS.

1. [The system](#1-the-system): components, state, interaction, what is hard
2. [The modules](#2-the-modules): which module stands for which code
3. [The runs](#3-the-runs): what is checked, within which bounds
4. [What the checks show](#4-what-the-checks-show)
5. [The proofs](#5-the-proofs)
6. [What is not modelled, and the plan](#6-what-is-not-modelled-and-the-plan)
7. [Running it](#7-running-it)

## 1. The system

### Components

| component | state | operations that change it | used by |
|---|---|---|---|
| `ScotSlot` (scot-slot.cc) | array of 512 entries, atomics `next_free` and `processed` | `register_entry`, `mark_entry_finished` | both writers |
| `LockfreeMap` (lfmap.cc) | 2^20 buckets, each a list through `ScotSlotEntry::next`; two mark bits per pointer | `search` (it protects and unlinks), `insert`, `replace`, `reset`; `remove`, `cleanup*` are never called | replicator |
| `ScotLog` (scot-log.cc) | position `next_free`, the words of a memory region | `write_local_log`, `poll_next_local_log` | all four of the following |
| `ScotReplicator` (scot-rpli.cc) | a slot array, a table, a log, `writer_lock` | `write_request` (PURE from `propose`, ACK from receivers) | core, receivers |
| `ScotChecker` (scot-chkr.cc) | a slot array, a log, `writer_lock`, `wait_hashv`, `wait_lock` | `write_request` (WAIT to the owner, HDRONLY to the others), `release_wait` | core, replayers |
| `ScotReplayer` (scot-rply.cc) | a log per peer, `worker_signal` | worker thread | peer's replicator |
| `ScotReceiver` (scot-rcvr.cc) | a log per peer, `worker_signal` | worker thread | peer's checker |
| `ScotConnection` (scot-conn.cc) | queue pairs, memory regions, keys in memcached | the constructor | core |
| `ScotCore`, `ScotJudge` (scot-core.cc, scot-rule.hh) | the parts above, the active rule | constructor, destructor, `propose`, `add_rule`, `update_active` | application |
| `ScotHeartbeat`, `ScotTimestamp`, `MessageOut` | scoreboard; two arrays of time stamps; loggers | empty worker; `record_*`, `dump_to_fs`; logging | core, tests |

hartebeest, the wrapper around RDMA verbs and memcached, is a submodule that is
not in the tree. It is modelled from its calls: writes posted to a queue pair
arrive in order, a poll returns when the write has completed, and fetching a
key waits until somebody has pushed it.

### How they interact

A proposal at the owner:

    propose -> ScotReplicator::write_request
                 register_entry       one of 512 slots, spinning if all are taken
                 __ht_try_insert      becomes the newest version of its key
                 __START_WRITE__      spin lock
                   __ht_get_latest_entry, write_local_log(latest)
                   post to every peer, then poll every peer
                 __END_WRITE__
                 mark_entry_finished  the thread with slot 511 resets slots and table
    peer: ScotReplayer polls header and canary, calls release_wait for an ACK,
          clears the header

A proposal elsewhere: `ScotChecker::write_request` writes a WAIT entry into the
owner's memory and the bare header (HDRONLY) into everybody else's. The owner's
`ScotReceiver` answers it with a `write_request` of its own replicator, of type
ACK; the ACK reaches the replayers of all nodes, and `release_wait` of the
checker compares it with the hash value it waits for.

Components share memory, not messages: the slots and the table are shared by
all threads that call `write_request`, a log by a remote writer and a local
poller, the caller's buffer by every thread that may log its entry.

### What is hard, and what correct means

* **Slots.** Two atomics are read and written apart from each other, and set
  back while other threads increment them. Correct: an index has one owner at
  a time, an entry is not cleared before it is finished, the table never
  points to a cleared entry, and the array opens again and again.
* **Table.** Search, insertion and replacement race on the pointers of one
  list. Correct: each entry becomes the newest version of its key in one step,
  the walk from any version ends at the newest, lists stay sorted, nobody
  searches for ever.
* **Log.** The reader finds entries only by their position and by two bytes, in
  memory that is written again after a wrap. Correct: the reader is handed what
  the writer wrote, once, whole, in order, and both agree on every position.
* **Replicator.** The thread that logs a request need not be the one that made
  it. Correct: all peers hold one sequence, no key goes back to an older
  version, a call returns only when its request, or a newer one of its key, is
  at all peers, and every call returns.
* **Checker and cluster.** One header is rewritten for every peer while it is
  being sent, `wait_hashv` is set and cleared by different threads, the owner's
  receiver competes with the owner's application, rules may differ between
  nodes, writes fail unnoticed. Correct: a proposal is taken up once, by the
  owner chosen for it, in the order its thread made it, and in the end it, or a
  newer version of its key, is replayed at every node its links lead to.
* **Start-up.** Nodes may write to a peer whose readers are not there yet.
  Correct: a worker takes only what was written for it, and starts only when all
  workers of its node are there.
* **Connection.** Nodes start in any order and remove their keys again.
  Correct: queue pairs are connected in pairs, writes reach the region meant
  for them, nobody waits for a key that was removed.

PROJECT.json lists the hazards line by line, each with the properties that
watch it.

## 2. The modules

    abstract         detailed          instance for TLC    proofs
    SlotRounds       ScotSlot          MCScotSlot          ScotSlotProofs
    VersionMap       LockfreeMap       MCLockfreeMap       LockfreeMapProofs
                     ScotLogIndex                          ScotLogIndexProofs
    FifoChannel      ScotRing          MCScotRing          ScotRingProofs
    ReplicatedLog    ScotReplicator    MCScotReplicator    ScotReplicatorProofs
    KeyHistories     ScotCluster       MCScotCluster       ScotClusterProofs
                     ScotConnection                        ScotConnectionProofs
                     ScotCore          MCScotCore          ScotCoreProofs

Each detailed module that has an abstract one instantiates it and claims the
refinement (`RefinesRounds`, `ImplementsVersionMap`, `ImplementsChannel`,
`ImplementsReplicatedLog`, `ImplementsHistories`). ScotReplicator composes the others at the level of
what they promise: its table is VersionMap, its wire is FifoChannel, and its
slots come in rounds as in SlotRounds. Of the slots it also keeps the count of
finished entries and the two stores that end a reset, since SlotRounds promises
no progress and whether a call returns depends on them. ScotCluster composes replicators, checkers, receivers and
replayers in the same way, with critical sections in place of the single steps
of ScotReplicator. Both therefore speak of executions in which those promises
hold; section 4 says where they do not. ScotCore extends ScotConnection: its
constructor goes on where the other one ends.

Operators under the heading "Faults" are not part of any specification. Each is
a definition with a plausible mistake in it; with the definition replaced by
it, the property named in PROJECT.json fails. They document what the
properties are able to see.

**ScotSlot.** One action per access to `next_free`, `processed` or the array.
`Claim` is the fetch-and-add of `__get_next_slot`, `WaitReset` the end of the
spin loop before the recursive call, `Fill` the assignments of
`register_entry`, `MarkProcessed` and `ClearReady` the two statements of
`mark_entry_finished`, `Drain`, `ResetTable`, `ZeroSlots`, `Reopen`,
`ResetProcessed` the reset, in the order of the code. `Table` tells the
replicator's array (linked in a table) from the checker's. An entry is
abstracted to the thread that wrote it. The atomics grow only as far as there
are threads; that they are 32 bits wide plays no role.

**LockfreeMap.** One bucket, with one action per read or compare-and-swap of a
shared `next`. A pointer is a record of a cell and a mark. `ReadHead` to
`ExitSearch` are `__elemSearch`, `Insert` and `Replace` one iteration of
`__elem_insert` and `__elem_switch` (whose write to the new entry's own pointer
is private until the swap), `Lock`, `Walk`, `Follow`, `LogLatest` the critical
section of `write_request`. `versions` is a history variable: the order in
which entries were linked. Buckets share no state, so one is enough.

**ScotLogIndex, ScotRing.** ScotLogIndex is the arithmetic of
`__get_next_aligned_idx` with its 16-bit parameter. ScotRing has one writer, one
reader and the memory between them, in words. A write is delivered word by
word. Words that carry application bytes (hash values and payload) may look like
any header or canary (`ReadAs`, `MayBeCanary`): their content is not the
program's. What the program writes is known to the byte: `Meta` is size, instance
and type, `Final` the last word of an entry, whose bytes behind the canary
(`CanaryByte`) keep what the log held before (`Landed`), so that a last word taken
for a header has the type of an older entry, no type, or the canary.
A member of `Pairs` makes it a replicator-replayer or checker-receiver pair: the
types of its entries, those whose header the reader clears, the sizes of their
payloads, how far the writer gets ahead, and how many entries there are.

**ScotReplicator.** `write_request` from `register_entry` to
`mark_entry_finished`, with one action per peer for posting and for polling.
The slot array is two numbers: `given` is `next_free`, without the increments of
threads that find the array full, and `processed` the count. `Finish` counts; the
thread with the last slot goes on with `Reset`, which is everything up to and with
`next_free.store(0)` (nobody else has a slot until then), and `ResetProcessed`,
`processed.store(0)`. In between, others may take slots and finish them, and their
count is then lost, as in ScotSlot.
`buffer` is the memory behind the entries' pointers; `SharedBuffer` says that a
caller uses the same memory for all its requests, as the tests do, and
`ClearBuffer` is the memset behind `propose` in mt-test.cc.

**ScotCluster.** `Propose` is `propose` with `judge`; since each node sets its
active rule for itself, any registered rule may decide. `Link`, `WriteLog`,
`Return` are the replicator's `write_request`, for application threads and for
receivers alike; `Ask`, one `PostAsk` per peer, `EndAsk` and `ClearWait` are the
checker's. `header` is the one header in the checker's log, which the network
reads when a write is under way (`ArriveAsk`), not when it is posted. `Receive`
and `Replay` are the workers. `Break` puts a queue pair into its error state:
its writes complete at once and without effect, and the code, which ignores
the results, goes on.

**ScotConnection, ScotCore.** Constructors are straight-line code, so they are
sequences of calls per node, with one action per kind of call; a loop over the
peers makes a fixed number of calls for each (`ForPeers`). Names of keys are
triples of a resource, the writing and the reading node. ScotCore has the memory
of the readers, word by word where a peer writes to it (`Zero` is one word of the
memset, in any order; `Deliver` one word of an entry), `worker_signal` with its
toggles, and the workers. The replicator's and the checker's own regions, which
no peer writes to, are left out.

## 3. The runs

| run | instance and bounds | properties |
|---|---|---|
| `SlotTable` | 3 threads, 2 slots, table; any number of rounds; fair | type, `SlotExclusive`, `HeldIntact`, `NoDanglingEntry`, `CountIsSound`, `Inductive`, refinement of SlotRounds, `DrainCompletes` |
| `SlotStuck` | 2 threads, 2 slots, no table, fair | `LastIndexResets`: violated |
| `MapOneKey` | 4 entries of one key | `LogNeverStale`, `LogCovers`, `ChainIsHistory`, refinement of VersionMap |
| `MapCollision` | 3 entries, 2 keys in the bucket, fair | type, `ListSorted`, `InsertCompletes`, `WriteCompletes` |
| `MapAssert` | 3 entries, 2 keys in the bucket | `NoAssertFailure`: violated |
| `Ring` | 17 words, 4 entries ahead; 9 entries of one size; 4 of WAIT and HDRONLY in 3 sizes; fair | type, `PositionsAgree`, refinement of FifoChannel, `AllReceived` |
| `RingHeaderOnly` | 10 words, WAIT and HDRONLY of 5 bytes, 7 entries, 1 ahead | `ReaderNotAhead`: violated |
| `RingSizes` | 10 words, entries of 2 and 9 bytes, 7 entries, 1 ahead | `ReaderNotAhead`: violated |
| `RpliOrder` | 2 threads, 2 keys, 2 peers, 2 slots, 4 requests, shared buffers, fair | type, `LogNeverStale`, `ReturnedIsReplicated`, refinement of ReplicatedLog, `CallsReturn` |
| `RpliBuffer` | 2 threads, 1 key, 1 peer, 2 slots, 3 requests, shared buffers | `PayloadIntact`: violated |
| `Cluster` | 3 nodes, 1 key, 3 threads, 2 proposals, 2 rules, 2 links that may break; fair | type, `ThreadOrder`, `ReturnedIsDelivered`, `WaitIsCurrent`, refinement of KeyHistories, `EveryProposalSpreads` |
| `Core` | 3 nodes, 1 receiver that is sent 2 entries; fair | types, `WiringIsMutual`, `WritesReachTheirPeer`, `WithdrawnKeysWereFetched`, `NothingInvented`, `NoWorkBeforeReady`, `ReceivedUnlessEarly`, `AllBuilt` |

**Why the bounds are enough.** With fewer slots than threads a thread spins for
the next round while another resets, and a third may slip into the gap; the
state space of ScotSlot is finite without a bound on rounds. Four entries of
one key allow an insertion, two replacements and a search that is behind all of
them; two keys are the least that share a bucket, and with two entries of the
lower one a replaced entry lies in front of a search for the higher one.
Seventeen words hold three entries of eight bytes and let the fourth run over
the end, so that nine entries make more than two laps with a full log in between. Four requests with two slots are two rounds, and since a
round has two slots, at most two threads are between registration and reset (a
third request may be finished in between the reset's two stores, and the fourth then
drains for ever: it is this that the condition of `CallsReturn` excludes).
`Backlog` keeps the writer from overtaking the reader by more than
the log holds: there is no flow control in the code, only a log of 2^26 words.
In `Cluster` the owner of the key has one thread, another node two, and the
third none: that gives two askers on one checker, an asker against the owner's
application, a node that is sent headers only, and, with two rules, a key with
two owners. Two proposals are what each of these races takes. The links that may
break are the two on the way from the asker to the third node. In `Core` two
entries show that a log whose first entry was wiped out does not recover with
the second; which of the readers is written to makes no difference but for the
order in which they are constructed, and the one chosen is neither first nor last.

**Deadlock** is not checked where threads may all be outside a call (slots,
replicator), where the number of entries is bounded (table, log), or after the
constructors have returned and all entries are taken (core), or when no proposals
are left (cluster).

**Symmetry** is used in `MapOneKey` only, which checks no liveness.

**Fairness.** Threads are never made to call: fairness is weak, for the steps
of a call that has begun (`Continue`, `Step`), which is what a
preemptive scheduler gives a spinning thread. Delivery is weakly fair because
the connection is reliable (RC). In `Cluster` and `Core` one condition covers all
steps but those of the applications (and the breaking of links): there every
behaviour comes to an end, so that a step which stays possible is taken. No strong fairness is assumed: the lock and the slots
are won in the end only because the number of requests is finite
in these runs.

## 4. What the checks show

The slot array keeps its promise to hand out slots in rounds, for any number of
threads. The table does so for one key. Where every entry has the same size
and is cleared, and as long as no log has wrapped, the log is a FIFO channel, of
any length and even when full. The replicator gives all peers one
sequence, and returns only when the request is covered everywhere. Every call does
return, as long as no count is lost between the two stores at scot-slot.cc:86-87
(`CallsReturn` has this condition, `NoCountLost`, and is violated without it).

Across nodes, owners keep one history per key and no reader goes back in it
(`ImplementsHistories`), also while links break and rules disagree. What keeps a
thread's proposals in order is not the wait for the owner's answer, which does
nothing, but that the checker polls each write before it touches the header
again: without that poll `ThreadOrder` and `EveryProposalSpreads` fail, for a
peer may then be sent the header meant for another. `propose` returns at a
non-owner when the owner has been asked, not when it has answered
(`ReturnedIsDelivered`). A broken link hurts the proposals on it and no others.
The slots are left out of ScotCluster, so `EveryProposalSpreads` is to be read
with the condition of `CallsReturn`, at every node on the way.

At the start a single thing goes wrong: an entry that arrives before its reader
has zeroed the region is wiped out, in part or as a whole, and the reader then
waits for it for ever (`ReceivedUnlessEarly` excepts just these links). The
barrier in ScotConnection comes too early to prevent it; the tests sleep for three
seconds after the constructor.

Five runs end in a counterexample to something the repository states:

1. `SlotStuck`: `next_free.store(0)` comes before `processed.store(0)`
   (scot-slot.cc:86-87). A thread that registers and finishes an entry in
   between is counted and forgotten; the count of that round never reaches the
   number of slots, its last thread waits for ever, and so does everybody else.
   `DrainCompletes` says that this gap is the only reason: when nothing is
   counted in the gap, every reset completes. `CallsReturn` says the same of the
   calls of `write_request`.
2. `MapAssert`: with two keys in one bucket the compare-and-swap behind the
   search loop (lfmap.cc:194) redirects the pointer of a replaced entry past
   its replacement and keeps its mark, so that the walk of
   `__ht_get_latest_entry` leaves its key and the assertion at scot-rpli.cc:39
   fails. (The list head has no hash value of its own: `bucket` is not
   initialised beyond `next`.) The versions of a key that shares its bucket are
   therefore not those of VersionMap; the list itself stays sorted and free of
   cycles, and every search ends.
3. `RingHeaderOnly`: scot-rcvr.cc:70 stands inside the branch for WAIT, so that
   a HDRONLY header is met again after the log has wrapped.
4. `RingSizes`: only header bytes are cleared; with entries of different sizes a
   header position of the second lap holds other words of the first. In the
   counterexample entries of 2, 2 and 9 bytes start at words 0, 3 and 6, and one
   of 9 at word 0 again. The reader then looks for a header at word 5: size and
   type are two words of the third entry's application bytes, its hash value at
   word 6, and the canary is found in its payload.
5. `RpliBuffer`: the thread of a superseded request logs the newest version
   through that request's buffer pointer, whose owner may have returned and, as
   in mt-test.cc:92, cleared it.

A log of 2^26 words, 2^20 buckets and 512 slots make these rare in short
tests; nothing in the code excludes them.

## 5. The proofs

**ScotSlotProofs** proves, for every finite set of threads and every number of
slots, `InductiveInvariant`: `Spec => []Inductive`, and from it `TypeCorrect`,
`SlotsAreExclusive`, `EntriesStayIntact`, `TableNeverDangles`, `CountNeverAhead`
and `ImplementsRounds`, the refinement of SlotRounds. Assumptions: the set of
threads is finite, `NoThread` is not in it, there is at least one slot.

None of the properties is inductive. What excludes a reset under a thread's
feet is a count: `processed` plus the number of holders is at most the number
of slots given out (`CountIsSound`), so that `processed = SlotCount` leaves no
holder (`ResetIsQuiet`). That holds only if a single thread drains at a time:
the one that got the last index (`InRound`, `OneCloser`). Between the two
stores of the reset the count is not sound, for a new round has begun with the
old count. There `RezeroAlone` says that the count is still at least
`SlotCount`, and above it as soon as the new round's last thread has counted
itself, so that it cannot pass `Drain`, which tests for equality. This is why a
test for "at least" would be wrong (fault `DrainAtLeast`), and it is also what
makes the hang of `SlotStuck` possible. `Inductive` is an invariant of
`SlotTable`, so TLC has seen it too.

The proof has a lemma per action (`ClaimStep`, ..., `StutterStep`), a lemma for
types (`TypeStep`) and one for the finiteness of the holders, on which the
cardinalities rest.

**ScotLogIndexProofs** proves, for every size of the log, every position in it
and every payload up to 65531 bytes, that the next entry starts behind this
one's canary or at the start of the log (`EntriesDoNotOverlap`), and that for
the four payload sizes above it does not (`LargestPayloadsOverlap`): the
padding overflows the `uint16_t`, no word is taken, and the next entry is
written on this one's payload.

**ScotRingProofs** proves, for a log and entries of any size and any number of
them, `TypeCorrect`, `PositionsAreEqual`, `ReaderStaysBehind` and `ImplementsFifo`,
the refinement of FifoChannel. The hypothesis `KnownPairs` says which pairs of
writer and reader this is about (ScotRing defines it):

* `OneSize`: all entries have one size, the reader clears every header, and the
  writer is never ahead by more entries than start in one lap. This is the
  replicator with its replayers, when all payloads are alike.
* `OneLap`: any sizes and types, but as many as fit in the log.

`RingHeaderOnly` and `RingSizes` leave out one condition of `OneSize` each, and
`ReaderNotAhead` is violated; that both sorts exist is checked by TLC
(`RegularIsKnown` in MCScotRing: the pairs of `Ring` are of them). Assumptions:
the log is not empty, `PairsAssumption` and `MaxSentAssumption`, which `Ring` evaluates.

The invariant `RingInv` says that there are positions `at` of all entries and a
set `free` of words at which an entry may yet start (`RingAt`). The arithmetic is
in `Layout`: entries of one size divide the log into slots, used in turn
(`GridExists`; the entry after the last slot starts at word 0), others follow one
another. All that the rest of the proof takes from it is `Room`: outstanding
entries overlap neither each other nor an entry that starts at a free word, and
where a place is used again, its entry is cleared and of the only size. The rest
is about words. `StoredAt`: what has come of an entry is what was written; as
long as its header has not come there is nothing that could be taken for one,
and the same of its canary. `Ready`: the same of every free place, which is what
the reader's two stores, the canary reset in `Validate` and the header cleared in
`Clear`, leave behind (`ClearStep`). So `Detect` waits for the header of the next
entry (`DetectStep`), `Validate` for its last word (`ValidateStep`), and `Handle`
finds one entry, not a mixture of two (`HandleStep`), though a payload word may look
like any header or canary.

**LockfreeMapProofs** proves, for any finite set of entries and any hash values,
`TypeCorrect` and `ListIsSorted`. Assumptions: the entries are finitely many,
other than the list head and the null pointer, and hash values are integers.
The invariant `ListInv` says of every pointer that it leads to a higher key, or,
out of a replaced entry, perhaps to the same key; and of every search that the
place it has come to (`prev`) lies before the key it looks for, or is an entry of
that key which has been replaced. The swap in `Insert` then fails or keeps the
order, also where it redirects a marked pointer.

The rest is proved under the hypothesis `OneKey`, all entries of the bucket have
the same hash value: `VersionsAreChained`, `AssertionHolds`, `LogIsNeverStale`,
`LogCoversWriters` and `ImplementsMap`, the refinement of VersionMap. With two
keys in a bucket they are false (`MapAssert`). With one key nothing is ever
unlinked: a search never passes an entry, so `ExitSearch` has nothing to cut off
(`FirstSeen`, `NextSeen`), and the pointers spell the sequence of versions, marked
between versions and bare behind the last (`ChainInv`). A walk that began when its
own entry was a version can only go up in that sequence (`WalkInv`), and it leaves
the list head alone; since one thread holds the lock, what is logged goes up too
(`LogInv`). In the refinement the successful swap is the step `NewVersion`, and
the read that finds a bare pointer is `GetLatest`.

**ScotReplicatorProofs** proves, for any finite set of threads and any number of
keys, peers, slots and requests, with shared buffers or without, `TypeCorrect`,
`LogIsNeverStale`, `ReturnedAreReplicated` and `ImplementsLog`, the refinement of
ReplicatedLog. The invariant comes in layers, each of them proved with those
before. A thread works on a request of its own (`Calls`). Threads between `Link`
and the end of the critical section hold slots of their own, none twice, and but for the gap in
a reset the count and the holders together are at most the slots given out; a full
count leaves no holder, so the table is reset only while nobody is in there
(`SlotsOwned`, `ResetAlone`). The newest entry of
a key is the one linked last since the reset (`Links`); as a newer one may take
its place only by `Link`, what is read under the lock is at least as new as
whatever was logged (`LockHeld`, `Logged`). One thread posts at a time; so a peer
has all of the log, or lacks its last entry, which is on the wire or yet to be
posted, depending on where the thread is in its two loops (`Wires`). A thread that
has logged, or seen, the newest version of its key is covered by the last entry
of that key in the log, and, once the loops are over, at every peer (`Covering`).
The refinement maps the log to the decided sequence and each `Arrive` to a copy.

**ScotClusterProofs** proves, for any number of nodes, threads, keys, ownership
rules and proposals, and whichever links break, `WaitsAreCurrent`, `TypeCorrect`,
`OrderIsKept`, `ReturnedAreDelivered` and `ImplementsKeyHistories`, the refinement
of KeyHistories. Assumptions: every thread is on a node, there are at least two
nodes, a rule maps every key to a node, and `Nobody` is neither a thread nor a
key (`ThreadsAssumption`, `NodesAssumption`, `RulesAssumption`, `NobodyAssumption`).

`WaitIsCurrent` is almost inductive: it needs only that a busy thread's proposal
is one of `proposals`, and that the witness is existential. The thread that set
`wait_hashv` last remains in `post` or `clear`, however many others set the word
before it; and whichever thread reaches `clear` first, also one that clears
another's request, leaves nothing behind that could be stale.

For the others the layers follow a proposal on its way.

* `Checkers`, `Posting`: one thread of a node is between `Ask` and `EndAsk`, the
  header of its log names that thread's proposal, and for each peer a post is
  either to come, on its way, or over. That the writes to a peer are over before
  the header changes is what makes the header the right one when it is read.
* `Asks`: a WAIT for a proposal arrives at its owner and nowhere else, at most
  once, and is not pending any longer when it has arrived (`HeardOnce`,
  `AskKnown`). `AskedInOrder`: a WAIT that arrives comes behind those of its
  thread's earlier proposals for that owner.
* `Received`, `Linked`: a receiver takes its inbox entry by entry, so what the
  owner has linked is what it has handled, each once, plus what its own threads
  proposed. From this `ThreadOrder` follows, without exception for broken links:
  a broken link stays broken, so what is missing is a tail.
* `Logs`, `Forward`: an owner's log holds versions of its keys in the order of
  linking, a newer version of a key never before an older one.
* `Delivered`: when the owner's writer has polled all peers, each of them has in
  its replica that proposal or a newer version of the key, or the link is cut.
  `ReturnedIsDelivered` is this for local proposals, and `Asks` for the others.
* `ViewsKnown`: for the refinement, the version of a key a node has come to is
  the one with the highest position in the owner's `linked` among those it has
  replayed. That a highest one exists is shown with the well-foundedness of the
  naturals (the smallest distance from the end). Taking up is `Link`, and a
  replay that changes a view is KeyHistories' step; all others stutter.

**ScotConnectionProofs** proves, for a quorum of any size, `TypeCorrect`,
`ConnectionsAreMutual`, `WritesGoToThePeer` and `KeysAreFetchedFirst`. Assumption:
the size is positive. The constructor is a sequence whose length depends on it,
so the first half of the module says where each call stands: the four parts end
at 1+7m, after 8m, 1+m and 6m more calls, m being the number of peers
(`ConstructorIs`), and a part publishes, fetches or withdraws exactly the keys it
should (`PublisherIs`: a key has one publisher). Then:

* A queue pair is connected to its partner or not at all, and the partner of
  the partner is the pair itself (`WiringInv`, `Partner`); what a node binds is
  the region its peer published for it.
* A barrier key that is in the store, or has been awaited, shows that its node
  is past its fetches (`BarrierInv`), and a node withdraws only after it has
  awaited all barrier keys. `KeysAreFetchedFirst` has the hypothesis
  `NoBarrierKey`, none of the keys left from an earlier run is a barrier's: those
  are never withdrawn, and with one of them present the property is false.
  `TypeCorrect` has the hypothesis that leftover keys are keys of the cluster.

**ScotCoreProofs** proves, for a quorum of any size, logs of any number of entries
and any set of readers that are written to, `CoreTypeCorrect`, `OnlyDeliveredIsTaken`
and `ReadersWaitForEachOther`, and with `CoreConnects` that what holds of
ScotConnection holds of ScotCore. Besides the size being positive, `Watched` is
assumed to be a set of readers and `MaxEntries` to be positive. Each reader has four places in the constructor:
its region is zeroed, PAUSE is toggled on, the worker is spawned, and, behind all
spawns, PAUSE is toggled off. Its flags are a function of how far the
constructor has come (`FlagsInv`): the toggle makes PAUSE what it should be only
because it is made twice and in this order. `WordsInv` says of a region's words
that one which holds something and has been zeroed already was delivered after
that, so a worker takes only what was delivered, although regions start with
anything in them and deliveries overtake the memset.

**Only model-checked.** All liveness (the prover has no rules for fairness and
ENABLED): `DrainCompletes`, `InsertCompletes`, `WriteCompletes`, `AllReceived`,
`CallsReturn`, `EveryProposalSpreads`, `ReceivedUnlessEarly`, `AllBuilt`. Every
invariant and every refinement that a passing run checks is proved.

## 6. What is not modelled, and the plan

Not modelled: `ScotHeartbeat` (empty), `ScotTimestamp` (a measuring aid of the
tests), `MessageOut`, the loggers, the vendored libraries, the patches under
`experiments`; the functions of LockfreeMap and ScotSlot that nothing calls
(about a third of lfmap.cc: `remove`, `cleanup*`, the murmur hash); the instance
number in a header, which nothing reads. The destructor of ScotCore frees memory
that detached workers go on using, which has no defined outcome. A log that is
overrun by its writer, and a cluster restarted on a memcached with the keys of an
earlier run, are excluded by assumption (`backlog`, an empty `Leftover`): the
repository promises nothing about them. Data races on plain fields are modelled
as the reads and writes of the code, without reordering: the code runs on x86,
and the accesses that matter are atomics or full barriers.

What is left: the table with several keys in a bucket, of which only the order of
the list is proved, could be given a weaker promise than VersionMap that holds in
spite of `MapAssert`.

## 7. Running it

    tlc -config SlotTable.cfg MCScotSlot.tla
    tlapm ScotSlotProofs.tla

PROJECT.json names the module and the properties of every configuration.
