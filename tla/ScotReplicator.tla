----------------------------- MODULE ScotReplicator -----------------------------
(***************************************************************************)
(* ScotReplicator::write_request (scot-rpli.cc) of one node, called by the *)
(* application threads of propose (PURE) and by the receiver workers that  *)
(* answer a WAIT (ACK).  It composes what the other modules show of its    *)
(* parts: a slot belongs to one call and the array is reset while nobody   *)
(* holds one (SlotRounds), the hash table turns an entry into the newest   *)
(* version of its key in one step (VersionMap; keys do not share a         *)
(* bucket), and what is posted to a peer arrives complete and in order     *)
(* (FifoChannel).  The count that the reset waits for, and the step        *)
(* between its two stores in which an entry can be missed, are those of    *)
(* ScotSlot.                                                               *)
(*                                                                         *)
(* A slot entry holds a pointer to the caller's buffer, which is read when *)
(* the entry is logged: `buffer` is the memory behind those pointers.      *)
(***************************************************************************)
EXTENDS Integers, Sequences, FiniteSets

CONSTANTS Threads,       \* callers of write_request
          Keys,          \* hash values
          Kinds,         \* subset of {"PURE", "ACK"}
          PeerCount,     \* size of get_quorum()
          SlotCount,     \* SCOT_SLOT_COUNTS
          SharedBuffer,  \* a caller uses one buffer for all its requests
          MaxRequests,   \* bound: calls of write_request
          Nobody         \* writer_lock is free

ASSUME ThreadsAssumption == IsFiniteSet(Threads) /\ Nobody \notin Threads
ASSUME CountsAssumption ==
  /\ PeerCount \in Nat \ {0} /\ SlotCount \in Nat \ {0} /\ MaxRequests \in Nat \ {0}
ASSUME KindsAssumption == Kinds \subseteq {"PURE", "ACK"}
ASSUME SharedBufferAssumption == SharedBuffer \in BOOLEAN

VARIABLES requests,      \* request number -> [thread, key, kind, slot]
          buffer,        \* address -> request whose payload is in it, or 0
          given,         \* slots handed out in this round: next_free
          processed,     \* the slot array's count of finished entries
          newest,        \* hash table: key -> newest request, 0 if none
          linked,        \* history: requests in the order of their linking
          pc, mine, latest, peer,   \* locals of the threads
          writer,        \* writer_lock
          log,           \* the local log
          wire,          \* peer -> entries posted and not yet written
          copy           \* peer -> entries in the peer's memory

locals == <<pc, mine, latest, peer>>
slots == <<given, processed>>
vars == <<requests, buffer, slots, newest, linked, locals, writer, log, wire, copy>>

Peers == 1 .. PeerCount
Ids == 1 .. MaxRequests
Slots == 0 .. SlotCount - 1
Labels == {"idle", "link", "linked", "log", "post", "poll", "unlock", "finish", "reset", "rezero"}
Entries == [id : Ids, key : Keys, kind : Kinds, content : Ids \cup {0}]
Addresses == Threads \cup Ids
AddressOf(t, id) == IF SharedBuffer THEN t ELSE id

TypeOK ==
  /\ requests \in Seq([thread : Threads, key : Keys, kind : Kinds, slot : Slots])
  /\ buffer \in [Addresses -> Ids \cup {0}]
  /\ given \in 0 .. SlotCount /\ processed \in Nat
  /\ newest \in [Keys -> Ids \cup {0}]
  /\ linked \in Seq(Ids)
  /\ pc \in [Threads -> Labels]
  /\ mine \in [Threads -> Ids \cup {0}] /\ latest \in [Threads -> Ids \cup {0}]
  /\ peer \in [Threads -> 1 .. PeerCount + 1]
  /\ writer \in Threads \cup {Nobody}
  /\ log \in Seq(Entries)
  /\ wire \in [Peers -> Seq(Entries)] /\ copy \in [Peers -> Seq(Entries)]

Init ==
  /\ requests = <<>>
  /\ buffer = [a \in Addresses |-> 0]
  /\ given = 0 /\ processed = 0
  /\ newest = [k \in Keys |-> 0]
  /\ linked = <<>>
  /\ pc = [t \in Threads |-> "idle"]
  /\ mine = [t \in Threads |-> 0]
  /\ latest = [t \in Threads |-> 0]
  /\ peer = [t \in Threads |-> 1]
  /\ writer = Nobody
  /\ log = <<>>
  /\ wire = [p \in Peers |-> <<>>]
  /\ copy = [p \in Peers |-> <<>>]

Goto(t, label) == pc' = [pc EXCEPT ![t] = label]
MyRequest(t) == requests[mine[t]]

(***************************************************************************)
(* Faults: what a plausible mistake would make of a definition below.  No  *)
(* specification uses them; each breaks a property that the code keeps.    *)
(***************************************************************************)
\* Slots are handed out beyond the last one; the caller's own entry is logged,
\* be it the latest or not; completions are not awaited, or one for all; the
\* thread with the last slot does not count its own entry.
SlotAlways == TRUE
OwnEntry(t) == mine[t]
Unpolled(p) == TRUE
PolledFirst(p) == wire[1] = <<>>
FinishLastUncounted(t) ==
  LET last == MyRequest(t).slot = SlotCount - 1 IN
  /\ pc[t] = "finish"
  /\ processed' = IF last THEN processed ELSE processed + 1
  /\ Goto(t, IF last THEN "reset" ELSE "idle")
  /\ UNCHANGED <<requests, buffer, given, newest, linked, mine, latest, peer, writer, log, wire, copy>>

SlotFree == given < SlotCount

\* The caller fills its buffer and calls; register_entry.
Begin(t, key, kind) ==
  LET id == Len(requests) + 1 IN
  /\ pc[t] = "idle"
  /\ id <= MaxRequests
  /\ SlotFree
  /\ requests' = Append(requests, [thread |-> t, key |-> key, kind |-> kind, slot |-> given])
  /\ buffer' = [buffer EXCEPT ![AddressOf(t, id)] = id]
  /\ given' = given + 1
  /\ mine' = [mine EXCEPT ![t] = id]
  /\ Goto(t, "link")
  /\ UNCHANGED <<processed, newest, linked, latest, peer, writer, log, wire, copy>>

\* __ht_try_insert.
Link(t) ==
  /\ pc[t] = "link"
  /\ newest' = [newest EXCEPT ![MyRequest(t).key] = mine[t]]
  /\ linked' = Append(linked, mine[t])
  /\ Goto(t, "linked")
  /\ UNCHANGED <<requests, buffer, slots, mine, latest, peer, writer, log, wire, copy>>

LatestEntry(t) == newest[MyRequest(t).key]

\* __START_WRITE__ and __ht_get_latest_entry.
Acquire(t) ==
  /\ pc[t] = "linked"
  /\ writer = Nobody
  /\ writer' = t
  /\ latest' = [latest EXCEPT ![t] = LatestEntry(t)]
  /\ Goto(t, "log")
  /\ UNCHANGED <<requests, buffer, slots, newest, linked, mine, peer, log, wire, copy>>

\* write_local_log(latest): key and type of the latest version, and what its
\* buffer pointer leads to now.
WriteLog(t) ==
  LET id == latest[t]
      r == requests[id]
  IN
  /\ pc[t] = "log"
  /\ log' = Append(log, [id |-> id, key |-> r.key, kind |-> r.kind,
                         content |-> buffer[AddressOf(r.thread, id)]])
  /\ peer' = [peer EXCEPT ![t] = 1]
  /\ Goto(t, "post")
  /\ UNCHANGED <<requests, buffer, slots, newest, linked, mine, latest, writer, wire, copy>>

\* One iteration of the first loop over the quorum.
Post(t) ==
  LET p == peer[t] IN
  /\ pc[t] = "post"
  /\ wire' = [wire EXCEPT ![p] = Append(@, log[Len(log)])]
  /\ peer' = [peer EXCEPT ![t] = IF p = PeerCount THEN 1 ELSE p + 1]
  /\ Goto(t, IF p = PeerCount THEN "poll" ELSE "post")
  /\ UNCHANGED <<requests, buffer, slots, newest, linked, mine, latest, writer, log, copy>>

\* The completion of this peer's write.
Polled(p) == wire[p] = <<>>

\* One iteration of the second loop.
Poll(t) ==
  LET p == peer[t] IN
  /\ pc[t] = "poll"
  /\ Polled(p)
  /\ peer' = [peer EXCEPT ![t] = p + 1]
  /\ Goto(t, IF p = PeerCount THEN "unlock" ELSE "poll")
  /\ UNCHANGED <<requests, buffer, slots, newest, linked, mine, latest, writer, log, wire, copy>>

\* The network: an RDMA write takes effect.
Deliver(p) ==
  /\ wire[p] # <<>>
  /\ copy' = [copy EXCEPT ![p] = Append(@, wire[p][1])]
  /\ wire' = [wire EXCEPT ![p] = SubSeq(@, 2, Len(@))]
  /\ UNCHANGED <<requests, buffer, slots, newest, linked, locals, writer, log>>

\* __END_WRITE__.
Unlock(t) ==
  /\ pc[t] = "unlock"
  /\ writer' = Nobody
  /\ Goto(t, "finish")
  /\ UNCHANGED <<requests, buffer, slots, newest, linked, mine, latest, peer, log, wire, copy>>

\* mark_entry_finished; the thread with the last slot goes on to the reset.
Finish(t) ==
  /\ pc[t] = "finish"
  /\ processed' = processed + 1
  /\ Goto(t, IF MyRequest(t).slot = SlotCount - 1 THEN "reset" ELSE "idle")
  /\ UNCHANGED <<requests, buffer, given, newest, linked, mine, latest, peer, writer, log, wire, copy>>

\* __wait_until_proc_finish, the reset of the table, the memset and
\* next_free.store(0): one step, as nobody has a slot until that store.
Reset(t) ==
  /\ pc[t] = "reset"
  /\ processed = SlotCount
  /\ given' = 0
  /\ newest' = [k \in Keys |-> 0]
  /\ Goto(t, "rezero")
  /\ UNCHANGED <<requests, buffer, processed, linked, mine, latest, peer, writer, log, wire, copy>>

\* processed.store(0), whatever was counted since next_free.store(0).
ResetProcessed(t) ==
  /\ pc[t] = "rezero"
  /\ processed' = 0
  /\ Goto(t, "idle")
  /\ UNCHANGED <<requests, buffer, given, newest, linked, mine, latest, peer, writer, log, wire, copy>>

\* The caller has its buffer back and clears it.
ClearBuffer(t) ==
  /\ SharedBuffer
  /\ pc[t] = "idle"
  /\ buffer' = [buffer EXCEPT ![t] = 0]
  /\ UNCHANGED <<requests, slots, newest, linked, locals, writer, log, wire, copy>>

Continue(t) ==
  \/ Link(t) \/ Acquire(t) \/ WriteLog(t) \/ Post(t) \/ Poll(t)
  \/ Unlock(t) \/ Finish(t) \/ Reset(t) \/ ResetProcessed(t)

Next ==
  \/ \E t \in Threads :
       \/ \E key \in Keys, kind \in Kinds : Begin(t, key, kind)
       \/ Continue(t)
       \/ ClearBuffer(t)
  \/ \E p \in Peers : Deliver(p)

Spec == Init /\ [][Next]_vars

\* Threads inside write_request run, and posted writes take effect.  The
\* number of requests is finite, so nobody loses the lock for ever.
FairSpec ==
  /\ Spec
  /\ \A t \in Threads : WF_vars(Continue(t))
  /\ \A p \in Peers : WF_vars(Deliver(p))

(***************************************************************************)
(* Properties.                                                             *)
(***************************************************************************)
LinkPosition(id) == CHOOSE i \in DOMAIN linked : linked[i] = id
Returned(id) ==
  id \in DOMAIN requests
    /\ LET t == requests[id].thread IN mine[t] # id \/ pc[t] = "idle"

\* All peers hold the same sequence, and none misses more than the newest.
Replicated == INSTANCE ReplicatedLog
ImplementsReplicatedLog == Replicated!Spec

\* For no key an older version is logged behind a newer one, also across
\* the reset of the hash table.
LogNeverStale ==
  \A i, j \in DOMAIN log :
    i < j /\ log[i].key = log[j].key
      => LinkPosition(log[i].id) <= LinkPosition(log[j].id)

\* When write_request returns, every peer holds the request's entry or a
\* newer version of its key, although an other thread may have logged it.
ReturnedIsReplicated ==
  \A id \in DOMAIN requests : Returned(id) =>
    \A p \in Peers : \E i \in DOMAIN copy[p] :
      /\ copy[p][i].key = requests[id].key
      /\ LinkPosition(copy[p][i].id) >= LinkPosition(id)

\* At the second store of the reset nothing was counted since the first.
NoCountLost == \A t \in Threads : pc[t] = "rezero" => processed = SlotCount

\* As long as the slot array loses no count, every call returns.
CallsReturn ==
  []NoCountLost => \A id \in Ids : Len(requests) >= id ~> Returned(id)

\* std::memset(static_buffer, 0, 4096) behind propose (mt-test.cc:92) takes it
\* that a request is not read any more once its propose has returned: what
\* is logged for a request is what its caller proposed.
PayloadIntact == \A i \in DOMAIN log : log[i].content = log[i].id
===============================================================================
