------------------------- MODULE ScotReplicatorProofs -------------------------
(***************************************************************************)
(* Proofs about ScotReplicator for any number of threads, keys, peers,     *)
(* slots and requests, with shared buffers or without.                     *)
(*                                                                         *)
(* The inductive invariant comes in layers, each proved with the help of   *)
(* those before it: the callers' locals, the slots, the order of linking,  *)
(* the lock, the log, the wires, and what the log and the peers hold.      *)
(***************************************************************************)
EXTENDS ScotReplicator, FiniteSetTheorems, TLAPS

Requests == [thread : Threads, key : Keys, kind : Kinds, slot : Slots]

(***************************************************************************)
(* Callers.                                                                *)
(***************************************************************************)
CallTypes ==
  /\ requests \in Seq(Requests) /\ Len(requests) <= MaxRequests
  /\ buffer \in [Addresses -> Ids \cup {0}]
  /\ given \in 0 .. SlotCount /\ processed \in Nat
  /\ newest \in [Keys -> Ids \cup {0}]
  /\ linked \in Seq(Ids)
  /\ pc \in [Threads -> Labels]
  /\ mine \in [Threads -> Ids \cup {0}]
  /\ peer \in [Threads -> 1 .. PeerCount + 1]
  /\ writer \in Threads \cup {Nobody}

\* A thread that is not idle works on a request of its own.
CallsOwned ==
  \A t \in Threads :
    /\ pc[t] # "idle" => mine[t] # 0
    /\ mine[t] # 0 => mine[t] \in DOMAIN requests /\ requests[mine[t]].thread = t
    /\ pc[t] \in {"post", "poll"} => peer[t] \in Peers

Calls == CallTypes /\ CallsOwned

USE DEF Ids, Slots, Peers, Goto, locals, slots

\* Before the first call nobody works on a request.
LEMMA CallsInit == Init => Calls
  BY CountsAssumption DEF Init, Calls, CallTypes, CallsOwned, Labels, Requests

\* write_request is entered with a slot and an entry of the caller's own.
LEMMA CallsBegin ==
  ASSUME Calls, NEW t \in Threads, NEW key \in Keys, NEW kind \in Kinds, Begin(t, key, kind)
  PROVE  Calls'
  <1> USE CountsAssumption DEF Calls, CallTypes, CallsOwned
  <1> DEFINE new == [thread |-> t, key |-> key, kind |-> kind, slot |-> given]
             id == Len(requests) + 1
  <1>1. /\ requests' = Append(requests, new) /\ new \in Requests /\ new.thread = t
        /\ id \in Ids /\ id <= MaxRequests
        /\ buffer' = [buffer EXCEPT ![AddressOf(t, id)] = id]
        /\ given' = given + 1 /\ given \in Slots /\ processed' = processed
        /\ mine' = [mine EXCEPT ![t] = id] /\ pc' = [pc EXCEPT ![t] = "link"]
        /\ UNCHANGED <<newest, linked, peer, writer>>
    BY DEF Begin, SlotFree, Requests
  <1> HIDE DEF new
  <1>2. /\ requests' \in Seq(Requests) /\ Len(requests') = id
        /\ DOMAIN requests \subseteq DOMAIN requests' /\ id \in DOMAIN requests'
        /\ requests'[id] = new
        /\ \A i \in DOMAIN requests : requests'[i] = requests[i]
    BY <1>1
  <1>3. CallTypes'
    <2>1. buffer' \in [Addresses -> Ids \cup {0}] /\ mine' \in [Threads -> Ids \cup {0}]
      BY <1>1
    <2>2. pc' \in [Threads -> Labels]
      BY <1>1 DEF Labels
    <2>3. given' \in 0 .. SlotCount /\ processed' \in Nat
      BY <1>1
    <2>4. requests' \in Seq(Requests) /\ Len(requests') <= MaxRequests
      BY <1>1, <1>2
    <2>5. /\ newest' \in [Keys -> Ids \cup {0}] /\ linked' \in Seq(Ids)
          /\ peer' \in [Threads -> 1 .. PeerCount + 1] /\ writer' \in Threads \cup {Nobody}
      BY <1>1
    <2> QED BY <2>1, <2>2, <2>3, <2>4, <2>5 DEF Addresses, Labels, Requests
  <1>4. CallsOwned'
    BY <1>1, <1>2
  <1> QED BY <1>3, <1>4

\* Nothing but Begin changes requests or mine.
LEMMA CallsContinue ==
  ASSUME Calls, NEW t \in Threads, Continue(t)
  PROVE  Calls'
  <1> USE CountsAssumption DEF Calls, CallTypes, CallsOwned, Labels
  <1>1. CASE Link(t)
    <2>1. mine[t] \in Ids
      BY <1>1 DEF Link
    <2>2. newest' = [newest EXCEPT ![MyRequest(t).key] = mine[t]] /\ linked' = Append(linked, mine[t])
      BY <1>1 DEF Link
    <2>3. newest' \in [Keys -> Ids \cup {0}]
      BY <2>1, <2>2
    <2>4. linked' \in Seq(Ids)
      <3> HIDE DEF Ids
      <3> QED BY <2>1, <2>2
    <2> QED BY <1>1, <2>3, <2>4 DEF Link
  <1>2. CASE Acquire(t)
    BY <1>2 DEF Acquire
  <1>3. CASE WriteLog(t)
    BY <1>3 DEF WriteLog
  <1>4. CASE Post(t)
    BY <1>4 DEF Post
  <1>5. CASE Poll(t)
    BY <1>5 DEF Poll
  <1>6. CASE Unlock(t)
    BY <1>6 DEF Unlock
  <1>7. CASE Finish(t)
    BY <1>7 DEF Finish
  <1>8. CASE Reset(t)
    BY <1>8 DEF Reset
  <1>9. CASE ResetProcessed(t)
    BY <1>9 DEF ResetProcessed
  <1> QED BY <1>1, <1>2, <1>3, <1>4, <1>5, <1>6, <1>7, <1>8, <1>9 DEF Continue

\* Callers stay with their own requests, whatever the others do.
LEMMA CallsStep == Calls /\ [Next]_vars => Calls'
  <1> SUFFICES ASSUME Calls, [Next]_vars PROVE Calls'
    OBVIOUS
  <1> USE DEF Calls, CallTypes, CallsOwned
  <1>1. ASSUME NEW t \in Threads, NEW key \in Keys, NEW kind \in Kinds, Begin(t, key, kind)
        PROVE  Calls'
    BY <1>1, CallsBegin
  <1>2. ASSUME NEW t \in Threads, Continue(t) PROVE Calls'
    BY <1>2, CallsContinue
  <1>3. ASSUME NEW t \in Threads, ClearBuffer(t) PROVE Calls'
    BY <1>3 DEF ClearBuffer
  <1>4. ASSUME NEW p \in Peers, Deliver(p) PROVE Calls'
    BY <1>4 DEF Deliver
  <1>5. CASE UNCHANGED vars
    BY <1>5 DEF vars
  <1> QED BY <1>1, <1>2, <1>3, <1>4, <1>5 DEF Next

\* Every thread inside write_request works on an entry of its own.
LEMMA CallsHold == Spec => []Calls
  BY CallsInit, CallsStep, PTL DEF Spec

(***************************************************************************)
(* What a step leaves alone.                                               *)
(***************************************************************************)
\* A request keeps its fields for ever.
LEMMA RequestsKept ==
  ASSUME Calls, [Next]_vars, NEW id \in DOMAIN requests
  PROVE  id \in DOMAIN requests' /\ requests'[id] = requests[id]
  <1> USE DEF Calls, CallTypes
  <1>1. ASSUME NEW t \in Threads, NEW key \in Keys, NEW kind \in Kinds, Begin(t, key, kind)
        PROVE  id \in DOMAIN requests' /\ requests'[id] = requests[id]
    <2> DEFINE new == [thread |-> t, key |-> key, kind |-> kind, slot |-> given]
    <2>1. requests' = Append(requests, new)
      BY <1>1 DEF Begin
    <2> HIDE DEF new
    <2> QED BY <2>1
  <1>2. (\E t \in Threads : Continue(t) \/ ClearBuffer(t)) \/ (\E p \in Peers : Deliver(p)) \/ UNCHANGED vars
        => UNCHANGED requests
    BY DEF Continue, Link, Acquire, WriteLog, Post, Poll, Unlock, Finish, Reset, ResetProcessed, ClearBuffer, Deliver, vars
  <1> QED BY <1>1, <1>2 DEF Next

\* What a step of a busy thread does to the callers.
LEMMA ContinueKeeps ==
  ASSUME Calls, NEW t \in Threads, Continue(t)
  PROVE  /\ UNCHANGED <<requests, mine>>
         /\ \A u \in Threads : MyRequest(u)' = MyRequest(u)
         /\ pc[t] # "idle" /\ pc' = [pc EXCEPT ![t] = pc'[t]]
         /\ \A u \in Threads \ {t} : pc'[u] = pc[u]
  <1>1. UNCHANGED <<requests, mine>>
    BY DEF Continue, Link, Acquire, WriteLog, Post, Poll, Unlock, Finish, Reset, ResetProcessed
  <1>2. pc[t] # "idle" /\ \E label : pc' = [pc EXCEPT ![t] = label]
    BY DEF Continue, Link, Acquire, WriteLog, Post, Poll, Unlock, Finish, Reset, ResetProcessed
  <1> QED BY <1>1, <1>2 DEF MyRequest, Calls, CallTypes

(***************************************************************************)
(* Slots: every call has one of its own, and the count of the finished     *)
(* ones is never ahead but between the two stores of a reset.  So the      *)
(* array and the table are reset when nobody has a slot.                   *)
(***************************************************************************)
Holding == {"link", "linked", "log", "post", "poll", "unlock", "finish"}
Holders == {t \in Threads : pc[t] \in Holding}
Active(t) == pc[t] \notin {"idle", "rezero"}

SlotsExclusive ==
  /\ \A t \in Threads : Active(t) => MyRequest(t).slot < given
  /\ \A t \in Threads : pc[t] = "reset" => MyRequest(t).slot = SlotCount - 1
  /\ \A t, u \in Threads : t # u /\ Active(t) /\ Active(u) => MyRequest(t).slot # MyRequest(u).slot

\* Counts as in ScotSlot's HoldersInRound, CountIsSound and RezeroAlone.
CountSound ==
  /\ Cardinality(Holders) <= given
  /\ (\A t \in Threads : pc[t] # "rezero") => processed + Cardinality(Holders) <= given
  /\ \A t \in Threads : pc[t] = "rezero" =>
       /\ processed >= SlotCount
       /\ \A u \in Threads \ {t} : pc[u] # "rezero" /\ (pc[u] = "reset" => processed > SlotCount)

SlotsOwned == SlotsExclusive /\ CountSound

\* A set of threads is finite.
LEMMA HoldersFinite == IsFiniteSet(Holders) /\ Cardinality(Holders) \in Nat
  <1>1. Holders \in SUBSET Threads
    BY DEF Holders
  <1> QED BY <1>1, ThreadsAssumption, FS_Subset, FS_CardinalityType

\* At first no slot is taken.
LEMMA SlotsInit == Init => SlotsOwned
  <1> SUFFICES ASSUME Init PROVE SlotsOwned
    OBVIOUS
  <1>1. Holders = {} /\ Cardinality(Holders) = 0
    BY FS_EmptySet DEF Init, Holders, Holding
  <1> QED BY <1>1 DEF Init, SlotsOwned, SlotsExclusive, CountSound, Active

\* register_entry hands out the slot behind those already given, so nobody
\* has it.
LEMMA SlotsBegin ==
  ASSUME Calls, Calls', SlotsOwned,
         NEW t \in Threads, NEW key \in Keys, NEW kind \in Kinds, Begin(t, key, kind)
  PROVE  SlotsOwned'
  <1>1. /\ given' = given + 1 /\ given \in Nat /\ processed' = processed /\ processed \in Nat
        /\ pc' = [pc EXCEPT ![t] = "link"] /\ pc[t] = "idle"
    BY DEF Begin, Calls, CallTypes
  <1>2. MyRequest(t)'.slot = given
    <2> DEFINE new == [thread |-> t, key |-> key, kind |-> kind, slot |-> given]
    <2>1. requests' = Append(requests, new) /\ mine' = [mine EXCEPT ![t] = Len(requests) + 1]
      BY DEF Begin
    <2>2. mine'[t] = Len(requests) + 1
      BY <2>1 DEF Calls, CallTypes
    <2>3. new.slot = given
      OBVIOUS
    <2> HIDE DEF new
    <2> QED BY <2>1, <2>2, <2>3 DEF MyRequest, Calls, CallTypes
  <1>3. \A u \in Threads : u # t /\ pc[u] # "idle" => MyRequest(u)' = MyRequest(u)
    <2> SUFFICES ASSUME NEW u \in Threads, u # t, pc[u] # "idle"
                 PROVE  MyRequest(u)' = MyRequest(u)
      OBVIOUS
    <2>1. mine'[u] = mine[u]
      BY DEF Begin, Calls, CallTypes
    <2>2. mine[u] \in DOMAIN requests
      BY DEF Calls, CallsOwned
    <2> QED BY <2>1, <2>2, RequestsKept DEF MyRequest, Next
  <1>4. pc'[t] = "link" /\ \A u \in Threads \ {t} : pc'[u] = pc[u]
    BY <1>1 DEF Calls, CallTypes
  <1>5. ASSUME NEW u \in Threads, u # t, pc'[u] \notin {"idle", "rezero"}
        PROVE  /\ pc'[u] = pc[u] /\ MyRequest(u)'.slot = MyRequest(u).slot
               /\ MyRequest(u).slot # given /\ MyRequest(u).slot < given'
    <2>1. pc'[u] = pc[u] /\ MyRequest(u)' = MyRequest(u) /\ MyRequest(u).slot < given
      BY <1>3, <1>4, <1>5 DEF SlotsOwned, SlotsExclusive, Active
    <2>2. MyRequest(u) \in Requests
      BY <2>1, <1>5 DEF Calls, CallTypes, CallsOwned, MyRequest
    <2>3. MyRequest(u).slot \in Slots
      BY <2>2 DEF Requests
    <2> QED BY <2>1, <2>3, <1>1, CountsAssumption
  <1>6. SlotsExclusive'
    <2>1. given < given'
      BY <1>1
    <2> QED BY <1>2, <1>4, <1>5, <2>1 DEF SlotsOwned, SlotsExclusive, Active
  <1>7. Holders' = Holders \cup {t} /\ t \notin Holders
    BY <1>1, <1>4 DEF Holders, Holding
  <1>8. Cardinality(Holders') = Cardinality(Holders) + 1
    BY <1>7, HoldersFinite, FS_AddElement
  <1>9. CountSound'
    <2>1. Cardinality(Holders') <= given'
      BY <1>1, <1>8, HoldersFinite DEF SlotsOwned, CountSound
    <2>2. (\A u \in Threads : pc'[u] # "rezero") => processed' + Cardinality(Holders') <= given'
      <3>1. (\A u \in Threads : pc'[u] # "rezero") => \A u \in Threads : pc[u] # "rezero"
        BY <1>1, <1>4
      <3> QED BY <1>1, <1>8, <3>1, HoldersFinite DEF SlotsOwned, CountSound
    <2> QED BY <1>1, <1>4, <2>1, <2>2 DEF SlotsOwned, CountSound
  <1> QED BY <1>6, <1>9 DEF SlotsOwned

\* The thread that resets is the only one inside write_request: a thread in
\* rezero would have left the count too large, and with the count at
\* SlotCount nobody has a slot.
LEMMA ResetAlone ==
  ASSUME Calls, SlotsOwned, NEW t \in Threads, Reset(t)
  PROVE  Holders = {} /\ \A u \in Threads \ {t} : pc[u] = "idle"
  <1>1. pc[t] = "reset" /\ processed = SlotCount /\ given <= SlotCount /\ given \in Nat /\ SlotCount \in Nat
    BY CountsAssumption DEF Reset, Calls, CallTypes
  <1>2. \A u \in Threads : pc[u] # "rezero"
    BY <1>1 DEF SlotsOwned, CountSound
  <1>3. Cardinality(Holders) = 0
    BY <1>1, <1>2, HoldersFinite DEF SlotsOwned, CountSound
  <1>4. Holders = {}
    BY <1>3, HoldersFinite, FS_EmptySet
  <1>5. ASSUME NEW u \in Threads \ {t} PROVE pc[u] = "idle"
    <2>1. pc[u] \in {"idle", "reset"}
      BY <1>2, <1>4 DEF Holders, Holding, Calls, CallTypes, Labels
    <2>2. pc[u] # "reset"
      BY <1>1 DEF SlotsOwned, SlotsExclusive, Active
    <2> QED BY <2>1, <2>2
  <1> QED BY <1>4, <1>5

\* A thread gives back only its own slot; the one that empties the array is
\* the last that has one.
LEMMA SlotsContinue ==
  ASSUME Calls, SlotsOwned, NEW t \in Threads, Continue(t)
  PROVE  SlotsOwned'
  <1> DEFINE slot(u) == MyRequest(u).slot
  <1>1. /\ \A u \in Threads : slot(u)' = slot(u)
        /\ pc[t] # "idle" /\ \A u \in Threads \ {t} : pc'[u] = pc[u]
    BY ContinueKeeps
  <1>2. given \in Nat /\ processed \in Nat
    BY DEF Calls, CallTypes
  <1>3. CASE Finish(t)
    <2>1. /\ pc[t] = "finish" /\ processed' = processed + 1 /\ given' = given
          /\ pc'[t] = IF slot(t) = SlotCount - 1 THEN "reset" ELSE "idle"
      BY <1>3 DEF Finish, Calls, CallTypes
    <2>2. SlotsExclusive'
      BY <1>1, <2>1 DEF SlotsOwned, SlotsExclusive, Active
    <2>3. Holders' = Holders \ {t} /\ t \in Holders
      BY <1>1, <2>1 DEF Holders, Holding
    <2>4. Cardinality(Holders') = Cardinality(Holders) - 1
      BY <2>3, HoldersFinite, FS_RemoveElement
    <2>5. \A u \in Threads : pc'[u] = "rezero" <=> pc[u] = "rezero"
      BY <1>1, <2>1
    <2>6. /\ Cardinality(Holders') <= given'
          /\ (\A u \in Threads : pc'[u] # "rezero") => processed' + Cardinality(Holders') <= given'
      BY <1>2, <2>1, <2>4, <2>5, HoldersFinite DEF SlotsOwned, CountSound
    <2>7. ASSUME NEW u \in Threads, pc'[u] = "rezero"
          PROVE  processed' > SlotCount /\ \A v \in Threads \ {u} : pc'[v] # "rezero"
      <3>1. processed >= SlotCount /\ \A v \in Threads \ {u} : pc[v] # "rezero"
        BY <2>5, <2>7 DEF SlotsOwned, CountSound
      <3> QED BY <1>2, <2>1, <2>5, <3>1, CountsAssumption
    <2>8. CountSound'
      <3>1. processed' > SlotCount => processed' >= SlotCount
        BY <1>2, <2>1, CountsAssumption
      <3> QED BY <2>6, <2>7, <3>1 DEF CountSound
    <2> QED BY <2>2, <2>8 DEF SlotsOwned
  <1>4. CASE Reset(t)
    <2>1. /\ pc[t] = "reset" /\ processed = SlotCount /\ processed' = SlotCount /\ given' = 0
          /\ pc'[t] = "rezero"
      BY <1>4 DEF Reset, Calls, CallTypes
    <2>2. \A u \in Threads \ {t} : pc'[u] = "idle"
      BY <1>1, <1>4, ResetAlone
    <2>3. Holders' = {} /\ Cardinality(Holders') = 0
      BY <2>1, <2>2, FS_EmptySet DEF Holders, Holding
    <2> QED BY <2>1, <2>2, <2>3, CountsAssumption DEF SlotsOwned, SlotsExclusive, CountSound, Active
  <1>5. CASE ResetProcessed(t)
    <2>1. pc[t] = "rezero" /\ processed' = 0 /\ given' = given /\ pc'[t] = "idle"
      BY <1>5 DEF ResetProcessed, Calls, CallTypes
    <2>2. SlotsExclusive'
      BY <1>1, <2>1 DEF SlotsOwned, SlotsExclusive, Active
    <2>3. Holders' = Holders
      BY <1>1, <2>1 DEF Holders, Holding
    <2>4. \A u \in Threads : pc'[u] # "rezero"
      BY <1>1, <2>1 DEF SlotsOwned, CountSound
    <2> QED BY <1>2, <2>1, <2>2, <2>3, <2>4, HoldersFinite DEF SlotsOwned, CountSound
  <1>6. CASE ~Finish(t) /\ ~Reset(t) /\ ~ResetProcessed(t)
    <2>1. /\ UNCHANGED <<given, processed>>
          /\ pc[t] \in Holding /\ pc'[t] \in Holding
      BY <1>6 DEF Continue, Link, Acquire, WriteLog, Post, Poll, Unlock, Calls, CallTypes, Holding
    <2>2. \A u \in Threads : /\ pc'[u] = "rezero" <=> pc[u] = "rezero"
                             /\ pc'[u] = "reset" <=> pc[u] = "reset"
                             /\ pc'[u] \in {"idle", "rezero"} <=> pc[u] \in {"idle", "rezero"}
                             /\ pc'[u] \in Holding <=> pc[u] \in Holding
      BY <1>1, <2>1 DEF Holding
    <2>3. Holders' = Holders
      BY <2>2 DEF Holders
    <2>4. SlotsExclusive'
      BY <1>1, <2>1, <2>2 DEF SlotsOwned, SlotsExclusive, Active
    <2>5. CountSound'
      BY <2>1, <2>2, <2>3 DEF SlotsOwned, CountSound
    <2> QED BY <2>4, <2>5 DEF SlotsOwned
  <1> QED BY <1>3, <1>4, <1>5, <1>6

\* Slots stay exclusive through every step.
LEMMA SlotsStep == Calls /\ Calls' /\ SlotsOwned /\ [Next]_vars => SlotsOwned'
  <1> SUFFICES ASSUME Calls, Calls', SlotsOwned, [Next]_vars PROVE SlotsOwned'
    OBVIOUS
  <1>1. ASSUME UNCHANGED <<requests, given, processed, pc, mine>> PROVE SlotsOwned'
    <2>1. Holders' = Holders
      BY <1>1 DEF Holders
    <2> QED BY <1>1, <2>1 DEF SlotsOwned, SlotsExclusive, CountSound, MyRequest, Active
  <1>2. (\E t \in Threads : ClearBuffer(t)) \/ (\E p \in Peers : Deliver(p)) \/ UNCHANGED vars
        => UNCHANGED <<requests, given, processed, pc, mine>>
    BY DEF ClearBuffer, Deliver, vars
  <1> QED BY <1>1, <1>2, SlotsBegin, SlotsContinue DEF Next

\* No two threads inside write_request have the same slot (scot-slot.cc:14-48).
LEMMA SlotsHold == Spec => []SlotsOwned
  BY CallsHold, SlotsInit, SlotsStep, PTL DEF Spec

(***************************************************************************)
(* Links: every request is linked once, and the table holds the last one   *)
(* of each key that was linked since the table was reset.                  *)
(***************************************************************************)
IsLinked(id) == \E i \in DOMAIN linked : linked[i] = id
IsNewest(k) ==
  \E i \in DOMAIN linked :
    /\ linked[i] = newest[k]
    /\ requests[newest[k]].key = k
    /\ \A j \in DOMAIN linked : requests[linked[j]].key = k => j <= i

LinkedOnce ==
  /\ \A i \in DOMAIN linked : linked[i] \in DOMAIN requests
  /\ \A i, j \in DOMAIN linked : linked[i] = linked[j] => i = j
  /\ \A t \in Threads : pc[t] = "link" => ~IsLinked(mine[t])
  /\ \A id \in DOMAIN requests :
       IsLinked(id) \/ \E t \in Threads : pc[t] = "link" /\ mine[t] = id

NewestLinked ==
  /\ \A k \in Keys : newest[k] # 0 => IsNewest(k)
  /\ \A t \in Threads : pc[t] = "linked" => newest[MyRequest(t).key] # 0

Links == LinkedOnce /\ NewestLinked

\* At first nothing is linked.
LEMMA LinksInit == Init => Links
  BY DEF Init, Links, LinkedOnce, NewestLinked

\* Steps that neither link nor reset.
LEMMA LinksKept ==
  ASSUME Calls, Calls', Links, [Next]_vars, UNCHANGED <<newest, linked, requests, mine>>,
         \A t \in Threads : pc'[t] \in {"link", "linked"} <=> pc[t] \in {"link", "linked"},
         \A t \in Threads : pc[t] \in {"link", "linked"} => pc'[t] = pc[t]
  PROVE  Links'
  <1>1. LinkedOnce'
    BY DEF Links, LinkedOnce, IsLinked
  <1>2. NewestLinked'
    BY DEF Links, NewestLinked, IsNewest, MyRequest
  <1> QED BY <1>1, <1>2 DEF Links

\* A new request is not linked yet.
LEMMA LinksBegin ==
  ASSUME Calls, Calls', Links,
         NEW t \in Threads, NEW key \in Keys, NEW kind \in Kinds, Begin(t, key, kind)
  PROVE  Links'
  <1> DEFINE id == Len(requests) + 1
  <1>1. /\ UNCHANGED <<newest, linked>>
        /\ mine'[t] = id /\ pc'[t] = "link" /\ pc[t] = "idle"
        /\ \A u \in Threads \ {t} : pc'[u] = pc[u] /\ mine'[u] = mine[u]
        /\ DOMAIN requests' = DOMAIN requests \cup {id} /\ id \notin DOMAIN requests
    <2> DEFINE new == [thread |-> t, key |-> key, kind |-> kind, slot |-> given]
    <2>1. requests' = Append(requests, new)
      BY DEF Begin
    <2> HIDE DEF new
    <2>2. DOMAIN requests' = DOMAIN requests \cup {id} /\ id \notin DOMAIN requests
      BY <2>1 DEF Calls, CallTypes
    <2> QED BY <2>2 DEF Begin, Calls, CallTypes
  <1>2. \A i \in DOMAIN requests : requests'[i] = requests[i]
    BY RequestsKept DEF Next
  <1> HIDE DEF id
  <1>3. LinkedOnce'
    BY <1>1, <1>2 DEF Links, LinkedOnce, IsLinked
  <1>4. \A k \in Keys : newest'[k] # 0 => IsNewest(k)'
    BY <1>1, <1>2 DEF Links, LinkedOnce, NewestLinked, IsNewest
  <1>5. ASSUME NEW u \in Threads, pc'[u] = "linked" PROVE newest'[MyRequest(u)'.key] # 0
    <2>1. u # t /\ pc[u] = "linked" /\ mine'[u] = mine[u] /\ mine[u] \in DOMAIN requests
      BY <1>1, <1>5 DEF Calls, CallsOwned
    <2>2. MyRequest(u)' = MyRequest(u)
      BY <2>1, <1>2 DEF MyRequest
    <2> QED BY <1>1, <2>1, <2>2 DEF Links, NewestLinked
  <1> QED BY <1>3, <1>4, <1>5 DEF Links, NewestLinked

\* __ht_try_insert makes the request the newest of its key, behind all that
\* were linked before.
LEMMA LinksLink ==
  ASSUME Calls, Calls', Links, NEW t \in Threads, Link(t)
  PROVE  Links'
  <1> DEFINE key == MyRequest(t).key
             n == Len(linked) + 1
  <1>1. /\ linked' = Append(linked, mine[t]) /\ newest' = [newest EXCEPT ![key] = mine[t]]
        /\ UNCHANGED <<requests, mine>>
        /\ pc[t] = "link" /\ pc'[t] = "linked" /\ \A u \in Threads \ {t} : pc'[u] = pc[u]
    BY DEF Link, Calls, CallTypes
  <1>2. /\ mine[t] \in DOMAIN requests /\ mine[t] # 0 /\ key \in Keys
        /\ \A u \in Threads \ {t} : pc[u] = "link" => mine[u] # mine[t]
    <2>1. mine[t] \in DOMAIN requests /\ mine[t] # 0 /\ requests[mine[t]] \in Requests
      BY <1>1 DEF Calls, CallsOwned, CallTypes
    <2>2. \A u \in Threads \ {t} : pc[u] = "link" => mine[u] # mine[t]
      BY <2>1 DEF Calls, CallsOwned
    <2> QED BY <2>1, <2>2 DEF MyRequest, Requests
  <1>3. /\ n \in Nat \ {0} /\ DOMAIN linked = 1 .. (n - 1) /\ DOMAIN linked' = 1 .. n
        /\ linked'[n] = mine[t] /\ \A i \in DOMAIN linked : linked'[i] = linked[i]
    BY <1>1, <1>2 DEF Calls, CallTypes
  <1> HIDE DEF n
  <1>4. LinkedOnce'
    <2>1. \A i \in DOMAIN linked : linked[i] # mine[t]
      BY <1>1 DEF Links, LinkedOnce, IsLinked
    <2>2. DOMAIN linked' = DOMAIN linked \cup {n} /\ n \notin DOMAIN linked
      BY <1>3
    <2>3. \A id : IsLinked(id)' <=> IsLinked(id) \/ id = mine[t]
      BY <1>3, <2>2 DEF IsLinked
    <2>4. \A i \in DOMAIN linked' : linked'[i] \in DOMAIN requests'
      BY <1>1, <1>2, <1>3, <2>2 DEF Links, LinkedOnce
    <2>5. \A i, j \in DOMAIN linked' : linked'[i] = linked'[j] => i = j
      BY <1>3, <2>1, <2>2 DEF Links, LinkedOnce
    <2>6. \A u \in Threads : pc'[u] = "link" => ~IsLinked(mine[u])'
      BY <1>1, <1>2, <2>3 DEF Links, LinkedOnce
    <2>7. \A id \in DOMAIN requests' :
            IsLinked(id)' \/ \E u \in Threads : pc'[u] = "link" /\ mine'[u] = id
      BY <1>1, <2>3 DEF Links, LinkedOnce
    <2> QED BY <1>1, <2>4, <2>5, <2>6, <2>7 DEF LinkedOnce, IsLinked
  <1>5. ASSUME NEW k \in Keys, newest'[k] # 0 PROVE IsNewest(k)'
    <2>1. CASE k = key
      <3>1. newest'[k] = mine[t]
        BY <1>1, <1>2, <2>1 DEF Calls, CallTypes
      <3>2. requests'[mine[t]].key = k
        BY <1>1, <2>1 DEF MyRequest
      <3> QED BY <1>3, <3>1, <3>2 DEF IsNewest
    <2>2. CASE k # key
      <3>1. newest'[k] = newest[k]
        BY <1>1, <2>2 DEF Calls, CallTypes
      <3>2. PICK i \in DOMAIN linked :
              /\ linked[i] = newest[k]
              /\ requests[newest[k]].key = k
              /\ \A j \in DOMAIN linked : requests[linked[j]].key = k => j <= i
        BY <1>5, <3>1 DEF Links, NewestLinked, IsNewest
      <3>3. requests[linked'[n]].key # k
        BY <1>3, <2>2 DEF MyRequest
      <3>4. \A j \in DOMAIN linked' : requests[linked'[j]].key = k => j \in DOMAIN linked /\ j <= i
        BY <1>3, <3>2, <3>3
      <3>5. i \in DOMAIN linked' /\ linked'[i] = newest'[k]
        BY <1>3, <3>1, <3>2
      <3> QED BY <1>1, <3>1, <3>2, <3>4, <3>5 DEF IsNewest
    <2> QED BY <2>1, <2>2
  <1>6. ASSUME NEW u \in Threads, pc'[u] = "linked" PROVE newest'[MyRequest(u)'.key] # 0
    <2>1. MyRequest(u)' = MyRequest(u)
      BY <1>1 DEF MyRequest
    <2>2. pc'[u] # "idle" => MyRequest(u)' \in Requests
      BY DEF Calls, CallsOwned, CallTypes, MyRequest
    <2>3. MyRequest(u).key \in Keys
      BY <1>6, <2>1, <2>2 DEF Requests
    <2>4. CASE MyRequest(u).key = key
      BY <1>1, <1>2, <2>1, <2>3, <2>4 DEF Calls, CallTypes
    <2>5. CASE MyRequest(u).key # key
      <3>1. pc[u] = "linked"
        BY <1>1, <1>6, <2>5
      <3> QED BY <1>1, <2>1, <2>3, <2>5, <3>1 DEF Calls, CallTypes, Links, NewestLinked
    <2> QED BY <2>4, <2>5
  <1> QED BY <1>4, <1>5, <1>6 DEF Links, NewestLinked

\* The table is reset when no entry is between its linking and its logging.
LEMMA LinksReset ==
  ASSUME Calls, Calls', SlotsOwned, Links, NEW t \in Threads, Reset(t)
  PROVE  Links'
  <1>1. /\ pc'[t] = "rezero" /\ pc[t] = "reset" /\ \A u \in Threads \ {t} : pc'[u] = pc[u]
        /\ newest' = [k \in Keys |-> 0]
        /\ UNCHANGED <<requests, mine, linked>>
    BY DEF Reset, Calls, CallTypes
  <1>2. \A u \in Threads : pc[u] \notin {"link", "linked"} /\ pc'[u] \notin {"link", "linked"}
    BY <1>1, ResetAlone
  <1>3. LinkedOnce'
    BY <1>1, <1>2 DEF Links, LinkedOnce, IsLinked
  <1>4. NewestLinked'
    BY <1>1, <1>2 DEF NewestLinked
  <1> QED BY <1>3, <1>4 DEF Links

\* Links stay in order; the reset clears the table only when nobody is
\* between linking and logging.
LEMMA LinksStep == Calls /\ Calls' /\ SlotsOwned /\ Links /\ [Next]_vars => Links'
  <1> SUFFICES ASSUME Calls, Calls', SlotsOwned, Links, [Next]_vars PROVE Links'
    OBVIOUS
  <1>1. ASSUME NEW t \in Threads, Continue(t), ~Link(t), ~Reset(t)
        PROVE  Links'
    <2>1. UNCHANGED <<newest, linked>> /\ pc[t] # "link"
      BY <1>1 DEF Continue, Acquire, WriteLog, Post, Poll, Unlock, Finish, ResetProcessed
    <2>2. CASE Acquire(t)
      <3>1. pc[t] = "linked" /\ pc'[t] = "log"
        BY <2>2 DEF Acquire, Calls, CallTypes
      <3>2. LinkedOnce'
        BY <2>1, <3>1, <1>1, ContinueKeeps DEF Links, LinkedOnce, IsLinked
      <3>3. NewestLinked'
        BY <2>1, <3>1, <1>1, ContinueKeeps DEF Links, NewestLinked, IsNewest
      <3> QED BY <3>2, <3>3 DEF Links
    <2>3. CASE ~Acquire(t)
      <3>1. pc[t] \notin {"link", "linked"} /\ pc'[t] \notin {"link", "linked"}
        BY <1>1, <2>3 DEF Continue, WriteLog, Post, Poll, Unlock, Finish, ResetProcessed, Calls, CallTypes
      <3> QED BY <1>1, <2>1, <3>1, ContinueKeeps, LinksKept
    <2> QED BY <2>2, <2>3
  <1>2. ((\E t \in Threads : ClearBuffer(t)) \/ (\E p \in Peers : Deliver(p)) \/ UNCHANGED vars) => Links'
    <2>1. ASSUME UNCHANGED <<requests, newest, linked, pc, mine>> PROVE Links'
      BY <2>1, LinksKept
    <2> QED BY <2>1 DEF ClearBuffer, Deliver, vars
  <1> QED BY <1>1, <1>2, LinksBegin, LinksLink, LinksReset DEF Next

\* A request is linked once, and the table has the last linked version of a
\* key from its linking until the reset.
LEMMA LinksHold == Spec => []Links
  BY CallsHold, SlotsHold, LinksInit, LinksStep, PTL DEF Spec

(***************************************************************************)
(* writer_lock.                                                            *)
(***************************************************************************)
Locked == {"log", "post", "poll", "unlock"}

\* The lock is held by the one thread between Acquire and Unlock.
LockHeld == \A t \in Threads : pc[t] \in Locked <=> writer = t

\* At first writer_lock is free.
LEMMA LockInit == Init => LockHeld
  BY ThreadsAssumption DEF Init, LockHeld, Locked

\* writer_lock passes from one thread to the next.
LEMMA LockStep == Calls /\ LockHeld /\ [Next]_vars => LockHeld'
  <1> SUFFICES ASSUME Calls, LockHeld, [Next]_vars PROVE LockHeld'
    OBVIOUS
  <1> USE ThreadsAssumption DEF Calls, CallTypes, LockHeld, Locked
  <1>1. ASSUME NEW t \in Threads, NEW key \in Keys, NEW kind \in Kinds, Begin(t, key, kind)
        PROVE  LockHeld'
    BY <1>1 DEF Begin
  <1>2. ASSUME NEW t \in Threads, Acquire(t) PROVE LockHeld'
    BY <1>2 DEF Acquire
  <1>3. ASSUME NEW t \in Threads, Unlock(t) PROVE LockHeld'
    BY <1>3 DEF Unlock
  <1>4. ASSUME NEW t \in Threads, Continue(t), ~Acquire(t), ~Unlock(t) PROVE LockHeld'
    <2>1. writer' = writer /\ (pc[t] \in Locked <=> pc'[t] \in Locked)
      BY <1>4 DEF Continue, Link, WriteLog, Post, Poll, Finish, Reset, ResetProcessed
    <2> QED BY <1>4, <2>1, ContinueKeeps
  <1>5. ((\E t \in Threads : ClearBuffer(t)) \/ (\E p \in Peers : Deliver(p)) \/ UNCHANGED vars) => LockHeld'
    BY DEF ClearBuffer, Deliver, vars
  <1> QED BY <1>1, <1>2, <1>3, <1>4, <1>5 DEF Next

\* Only the thread that holds writer_lock is between __START_WRITE__ and
\* __END_WRITE__ (scot-rpli.cc:69, 150).
LEMMA LockHolds == Spec => []LockHeld
  BY CallsHold, LockInit, LockStep, PTL DEF Spec

(***************************************************************************)
(* The log: what is logged is a linked entry under its own key.            *)
(***************************************************************************)
LatestLinked ==
  /\ latest \in [Threads -> Ids \cup {0}]
  /\ \A t \in Threads : pc[t] = "log" =>
       /\ IsLinked(latest[t]) /\ requests[latest[t]].key = MyRequest(t).key
       /\ LinkPosition(mine[t]) <= LinkPosition(latest[t])
       /\ \A i \in DOMAIN log : log[i].key = MyRequest(t).key =>
            LinkPosition(log[i].id) <= LinkPosition(latest[t])

LogLinked ==
  /\ log \in Seq(Entries)
  /\ \A i \in DOMAIN log : IsLinked(log[i].id) /\ log[i].key = requests[log[i].id].key

\* The newest version of the key is the entry logged last, or newer than it.
Logged == LatestLinked /\ LogLinked /\ LogNeverStale

\* The position of the i-th linked request is i.
LEMMA PositionOf ==
  ASSUME Links, NEW i \in DOMAIN linked
  PROVE  LinkPosition(linked[i]) = i
  BY DEF Links, LinkedOnce, LinkPosition

\* Linking more entries moves none of those that are linked.
LEMMA PositionKept ==
  ASSUME Calls, Links, Links', [Next]_vars, NEW id, IsLinked(id)
  PROVE  /\ IsLinked(id)' /\ LinkPosition(id)' = LinkPosition(id)
         /\ LinkPosition(id) \in DOMAIN linked
  <1>1. PICK i \in DOMAIN linked : linked[i] = id
    BY DEF IsLinked
  <1>2. i \in DOMAIN linked' /\ linked'[i] = id
    <2>1. ASSUME NEW t \in Threads, Link(t) PROVE i \in DOMAIN linked' /\ linked'[i] = id
      <3>1. linked' = Append(linked, mine[t]) /\ mine[t] \in Ids
        BY <2>1 DEF Link, Calls, CallTypes, CallsOwned
      <3> QED BY <1>1, <3>1 DEF Calls, CallTypes
    <2>2. (\A t \in Threads : ~Link(t)) => UNCHANGED linked
      BY DEF Next, Begin, Continue, Acquire, WriteLog, Post, Poll, Unlock, Finish, Reset, ResetProcessed,
             ClearBuffer, Deliver, vars
    <2> QED BY <1>1, <2>1, <2>2
  <1>3. LinkPosition(id) = i
    BY <1>1, PositionOf
  <1>4. LinkPosition(id)' = i
    BY <1>2 DEF Links, LinkedOnce, LinkPosition
  <1> QED BY <1>1, <1>2, <1>3, <1>4 DEF IsLinked

\* At first nothing is logged.
LEMMA LoggedInit == Init => Logged
  BY DEF Init, Logged, LatestLinked, LogLinked, LogNeverStale

\* A linked entry is a request, so that its key stays.
LEMMA LinkedIsRequest ==
  ASSUME Calls, Links, [Next]_vars, NEW id, IsLinked(id)
  PROVE  id \in DOMAIN requests /\ id \in Ids /\ requests'[id] = requests[id]
  <1>1. id \in DOMAIN requests
    BY DEF IsLinked, Links, LinkedOnce
  <1>2. id \in Ids
    BY <1>1, CountsAssumption DEF Calls, CallTypes
  <1> QED BY <1>1, <1>2, RequestsKept

\* Steps that log nothing and do not enter the critical section.
LEMMA LoggedKept ==
  ASSUME Calls, Links, Links', Logged, [Next]_vars, UNCHANGED <<log, latest>>,
         \A t \in Threads : pc'[t] = "log" => /\ pc[t] = "log" /\ UNCHANGED mine[t]
  PROVE  Logged'
  <1>1. ASSUME NEW i \in DOMAIN log
        PROVE  /\ IsLinked(log[i].id)' /\ log[i].key = requests'[log[i].id].key
               /\ LinkPosition(log[i].id)' = LinkPosition(log[i].id)
    <2>1. PICK e : e = log[i].id /\ e = log'[i].id
      OBVIOUS
    <2>2. IsLinked(e) /\ log[i].key = requests[e].key
      BY <2>1 DEF Logged, LogLinked
    <2>3. IsLinked(e)' /\ LinkPosition(e)' = LinkPosition(e) /\ requests'[e] = requests[e]
      BY <2>2, PositionKept, LinkedIsRequest
    <2> QED BY <2>1, <2>2, <2>3 DEF LinkPosition, IsLinked
  <1>2. LogLinked'
    BY <1>1 DEF Logged, LogLinked
  <1>3. LogNeverStale'
    BY <1>1 DEF Logged, LogNeverStale
  <1>4. ASSUME NEW t \in Threads, pc'[t] = "log"
        PROVE  /\ IsLinked(latest[t])' /\ requests'[latest[t]].key = MyRequest(t)'.key
               /\ LinkPosition(mine[t])' <= LinkPosition(latest[t])'
               /\ MyRequest(t)'.key = MyRequest(t).key
               /\ LinkPosition(latest[t])' = LinkPosition(latest[t])
    <2>1. pc[t] = "log" /\ mine'[t] = mine[t] /\ latest'[t] = latest[t]
      BY <1>4
    <2>2. IsLinked(mine[t])
      <3>1. mine[t] \in DOMAIN requests
        BY <2>1 DEF Calls, CallsOwned
      <3>2. \A u \in Threads : pc[u] = "link" => mine[u] # mine[t]
        BY <2>1, <3>1 DEF Calls, CallsOwned
      <3> QED BY <3>1, <3>2 DEF Links, LinkedOnce
    <2>3. MyRequest(t)' = MyRequest(t)
      BY <2>1, <2>2, LinkedIsRequest DEF MyRequest
    <2>4. LinkPosition(mine[t])' = LinkPosition(mine[t])
      BY <2>1, <2>2, PositionKept DEF LinkPosition
    <2>5. IsLinked(latest[t]) /\ requests[latest[t]].key = MyRequest(t).key
          /\ LinkPosition(mine[t]) <= LinkPosition(latest[t])
      BY <2>1 DEF Logged, LatestLinked
    <2>6. /\ IsLinked(latest[t])' /\ LinkPosition(latest[t])' = LinkPosition(latest[t])
          /\ requests'[latest[t]] = requests[latest[t]]
      <3>1. PICK e : e = latest[t] /\ e = latest'[t]
        BY <2>1
      <3>2. /\ IsLinked(e)' /\ LinkPosition(e)' = LinkPosition(e)
            /\ requests'[e] = requests[e]
        BY <2>5, <3>1, PositionKept, LinkedIsRequest
      <3> QED BY <3>1, <3>2 DEF LinkPosition, IsLinked
    <2> QED BY <2>3, <2>4, <2>5, <2>6
  <1>5. LatestLinked'
    BY <1>1, <1>4 DEF Logged, LatestLinked
  <1> QED BY <1>2, <1>3, <1>5 DEF Logged

\* A thread past its linking has a linked request.
LEMMA MineLinked ==
  ASSUME Calls, Links, NEW t \in Threads, pc[t] \notin {"idle", "link"}
  PROVE  mine[t] \in DOMAIN requests /\ IsLinked(mine[t]) /\ MyRequest(t).key \in Keys
  <1>1. mine[t] \in DOMAIN requests
    BY DEF Calls, CallsOwned
  <1>2. \A u \in Threads : pc[u] = "link" => mine[u] # mine[t]
    BY <1>1 DEF Calls, CallsOwned
  <1>3. requests[mine[t]] \in Requests
    BY <1>1 DEF Calls, CallTypes
  <1> QED BY <1>1, <1>2, <1>3 DEF Links, LinkedOnce, MyRequest, Requests

\* The table's entry is the newest version: not older than the thread's own
\* entry, nor than any that was logged.
LEMMA LoggedAcquire ==
  ASSUME Calls, Calls', Links, LockHeld, Logged, NEW t \in Threads, Acquire(t)
  PROVE  Logged'
  <1> DEFINE key == MyRequest(t).key
             entry == newest[key]
  <1>1. /\ pc[t] = "linked" /\ writer = Nobody /\ latest' = [latest EXCEPT ![t] = entry]
        /\ UNCHANGED <<requests, newest, linked, mine, log>>
        /\ pc'[t] = "log" /\ \A u \in Threads \ {t} : pc'[u] = pc[u]
    BY DEF Acquire, LatestEntry, Calls, CallTypes
  <1>2. \A u \in Threads : pc'[u] = "log" => u = t
    BY <1>1, ThreadsAssumption DEF LockHeld, Locked
  <1>3. key \in Keys /\ entry # 0 /\ entry \in Ids \cup {0} /\ IsLinked(mine[t])
    BY <1>1, MineLinked DEF Calls, CallTypes, Links, NewestLinked
  <1>4. PICK i \in DOMAIN linked :
          /\ linked[i] = entry /\ requests[entry].key = key
          /\ \A j \in DOMAIN linked : requests[linked[j]].key = key => j <= i
    BY <1>3 DEF Links, NewestLinked, IsNewest
  <1>5. LinkPosition(entry) = i
    BY <1>4, PositionOf
  <1>6. ASSUME NEW e, IsLinked(e), requests[e].key = key
        PROVE  LinkPosition(e) <= LinkPosition(entry)
    BY <1>4, <1>5, <1>6, PositionOf DEF IsLinked
  <1>7. latest' \in [Threads -> Ids \cup {0}] /\ latest'[t] = entry
    BY <1>1, <1>3 DEF Logged, LatestLinked
  <1>8. LinkPosition(mine[t]) <= LinkPosition(entry)
    BY <1>3, <1>6 DEF MyRequest
  <1>9. \A j \in DOMAIN log : log[j].key = key => LinkPosition(log[j].id) <= LinkPosition(entry)
    BY <1>6 DEF Logged, LogLinked
  <1> HIDE DEF key, entry
  <1>10. LatestLinked'
    <2> SUFFICES ASSUME NEW u \in Threads, pc'[u] = "log"
                 PROVE  (/\ IsLinked(latest[u]) /\ requests[latest[u]].key = MyRequest(u).key
                         /\ LinkPosition(mine[u]) <= LinkPosition(latest[u])
                         /\ \A j \in DOMAIN log : log[j].key = MyRequest(u).key =>
                              LinkPosition(log[j].id) <= LinkPosition(latest[u]))'
      BY <1>7 DEF LatestLinked
    <2>1. u = t
      BY <1>2
    <2> QED BY <2>1, <1>1, <1>4, <1>7, <1>8, <1>9 DEF IsLinked, LinkPosition, MyRequest, key
  <1>11. LogLinked' /\ LogNeverStale'
    BY <1>1 DEF Logged, LogLinked, LogNeverStale, IsLinked, LinkPosition
  <1> QED BY <1>10, <1>11 DEF Logged

\* What write_local_log appends is linked, and no older than what the log
\* has of its key.
LEMMA LoggedWrite ==
  ASSUME Calls, Calls', Links, LockHeld, Logged, NEW t \in Threads, WriteLog(t)
  PROVE  Logged'
  <1> DEFINE id == latest[t]
             content == buffer[AddressOf(requests[id].thread, id)]
             e == [id |-> id, key |-> requests[id].key, kind |-> requests[id].kind,
                   content |-> content]
  <1>1. /\ pc[t] = "log" /\ log' = Append(log, e)
        /\ UNCHANGED <<requests, linked, mine, latest>>
        /\ pc'[t] = "post" /\ \A u \in Threads \ {t} : pc'[u] = pc[u]
    BY DEF WriteLog, Calls, CallTypes
  <1>2. \A u \in Threads : pc'[u] # "log"
    BY <1>1 DEF LockHeld, Locked
  <1>3. IsLinked(id) /\ requests[id].key = MyRequest(t).key
    BY <1>1 DEF Logged, LatestLinked
  <1>4. id \in DOMAIN requests /\ id \in Ids /\ requests[id] \in Requests
    <2>1. id \in DOMAIN requests
      BY <1>3 DEF IsLinked, Links, LinkedOnce
    <2>2. requests[id] \in Requests
      BY <2>1 DEF Calls, CallTypes
    <2>3. id \in Ids
      BY <2>1, CountsAssumption DEF Calls, CallTypes
    <2> QED BY <2>1, <2>2, <2>3
  <1>5. content \in Ids \cup {0}
    <2>1. AddressOf(requests[id].thread, id) \in Addresses
      BY <1>4 DEF AddressOf, Addresses, Requests
    <2> QED BY <2>1 DEF Calls, CallTypes
  <1>6. e \in Entries /\ e.id = id /\ e.key = requests[id].key
    BY <1>4, <1>5 DEF Entries, Requests
  <1> HIDE DEF e
  <1>7. /\ log' \in Seq(Entries) /\ Len(log) \in Nat
        /\ DOMAIN log' = DOMAIN log \cup {Len(log) + 1} /\ Len(log) + 1 \notin DOMAIN log
        /\ log'[Len(log) + 1] = e /\ \A i \in DOMAIN log : log'[i] = log[i]
        /\ \A i \in DOMAIN log : i < Len(log) + 1
    BY <1>1, <1>6 DEF Logged, LogLinked
  <1>8. LatestLinked'
    BY <1>1, <1>2 DEF Logged, LatestLinked
  <1>9. LogLinked'
    BY <1>1, <1>3, <1>6, <1>7 DEF Logged, LogLinked, IsLinked, Entries
  <1>10. LogNeverStale'
    <2>1. \A i \in DOMAIN log : log[i].key = e.key => LinkPosition(log[i].id) <= LinkPosition(e.id)
      BY <1>1, <1>3, <1>6 DEF Logged, LatestLinked
    <2>2. UNCHANGED linked
      BY <1>1
    <2> SUFFICES ASSUME NEW i \in DOMAIN log', NEW j \in DOMAIN log', i < j, log'[i].key = log'[j].key
                 PROVE  LinkPosition(log[i].id)' <= LinkPosition(log[j].id)'
      BY DEF LogNeverStale
    <2>3. i \in DOMAIN log
      BY <1>7
    <2>4. CASE j \in DOMAIN log
      BY <1>7, <2>2, <2>3, <2>4 DEF Logged, LogNeverStale, LinkPosition
    <2>5. CASE j = Len(log) + 1
      BY <1>7, <2>1, <2>2, <2>3, <2>5 DEF LinkPosition
    <2> QED BY <1>7, <2>4, <2>5
  <1> QED BY <1>8, <1>9, <1>10 DEF Logged

\* The log only grows by entries that are the newest of their key.
LEMMA LoggedStep ==
  Calls /\ Calls' /\ Links /\ Links' /\ LockHeld /\ Logged /\ [Next]_vars => Logged'
  <1> SUFFICES ASSUME Calls, Calls', Links, Links', LockHeld, Logged, [Next]_vars PROVE Logged'
    OBVIOUS
  <1>1. ASSUME NEW t \in Threads, NEW key \in Keys, NEW kind \in Kinds, Begin(t, key, kind)
        PROVE  Logged'
    BY <1>1, LoggedKept DEF Begin, Calls, CallTypes
  <1>2. ASSUME NEW t \in Threads, Continue(t), ~Acquire(t), ~WriteLog(t) PROVE Logged'
    <2>1. UNCHANGED <<log, latest>> /\ pc'[t] # "log"
      BY <1>2 DEF Continue, Link, Post, Poll, Unlock, Finish, Reset, ResetProcessed, Calls, CallTypes
    <2> QED BY <1>2, <2>1, ContinueKeeps, LoggedKept
  <1>3. ASSUME UNCHANGED <<pc, mine, log, latest>> PROVE Logged'
    BY <1>3, LoggedKept
  <1> QED BY <1>1, <1>2, <1>3, LoggedAcquire, LoggedWrite DEF Next, ClearBuffer, Deliver, vars

\* Whatever is logged, or about to be, is linked, and the log of a key never
\* goes back.
LEMMA LoggedHolds == Spec => []Logged
  BY CallsHold, LinksHold, LockHolds, LoggedInit, LoggedStep, PTL DEF Spec

(***************************************************************************)
(* Wires: every peer holds a prefix of the log that lacks at most the      *)
(* newest entry, and only while that is being posted and polled.           *)
(***************************************************************************)
Synced(p) == wire[p] = <<>> /\ Len(copy[p]) = Len(log)
Sent(p) == wire[p] = <<log[Len(log)]>> /\ Len(copy[p]) + 1 = Len(log)
Owed(p) == wire[p] = <<>> /\ Len(copy[p]) + 1 = Len(log)

WireTypes == wire \in [Peers -> Seq(Entries)] /\ copy \in [Peers -> Seq(Entries)]
Prefixes == \A p \in Peers : \A i \in DOMAIN copy[p] : i \in DOMAIN log /\ copy[p][i] = log[i]
Posting ==
  /\ (\A t \in Threads : pc[t] \notin {"post", "poll"}) => \A p \in Peers : Synced(p)
  /\ \A t \in Threads : pc[t] = "post" =>
       \A p \in Peers : IF p < peer[t] THEN Synced(p) \/ Sent(p) ELSE Owed(p)
  /\ \A t \in Threads : pc[t] = "poll" =>
       \A p \in Peers : Synced(p) \/ (p >= peer[t] /\ Sent(p))

Wires == WireTypes /\ Prefixes /\ Posting

\* At first nothing was posted.
LEMMA WiresInit == Init => Wires
  <1> SUFFICES ASSUME Init PROVE Wires
    OBVIOUS
  <1>1. WireTypes
    BY DEF Init, WireTypes
  <1>2. Prefixes /\ Posting
    BY DEF Init, Prefixes, Posting, Synced
  <1> QED BY <1>1, <1>2 DEF Wires

\* Steps that do not touch the peers.
LEMMA WiresKept ==
  ASSUME Wires, UNCHANGED <<log, wire, copy, peer>>,
         \A t \in Threads : /\ pc'[t] \in {"post", "poll"} => pc'[t] = pc[t]
                            /\ pc[t] \in {"post", "poll"} => pc'[t] = pc[t]
  PROVE  Wires'
  <1>1. \A p \in Peers : Synced(p)' = Synced(p) /\ Sent(p)' = Sent(p) /\ Owed(p)' = Owed(p)
    BY DEF Synced, Sent, Owed
  <1>2. Posting'
    BY <1>1 DEF Wires, Posting
  <1> QED BY <1>2 DEF Wires, WireTypes, Prefixes

\* Only the holder of the lock posts and polls.
LEMMA OnePosting ==
  ASSUME Calls, LockHeld, NEW t \in Threads, pc[t] \in Locked,
         NEW u \in Threads \ {t}
  PROVE  pc[u] \notin Locked
  BY DEF LockHeld

\* When an entry is logged every peer has all that was logged before.
LEMMA WiresWrite ==
  ASSUME Calls, LockHeld, Logged, Logged', Wires, NEW t \in Threads, WriteLog(t)
  PROVE  Wires'
  <1>1. /\ \E e : log' = Append(log, e)
        /\ UNCHANGED <<wire, copy>> /\ pc[t] = "log"
        /\ pc'[t] = "post" /\ \A u \in Threads \ {t} : pc'[u] = pc[u]
        /\ peer'[t] = 1
    BY DEF WriteLog, Calls, CallTypes
  <1>2. \A u \in Threads : pc[u] \notin {"post", "poll"}
    BY <1>1, OnePosting DEF Locked
  <1>3. \A p \in Peers : Synced(p)
    BY <1>2 DEF Wires, Posting
  <1>4. Len(log') = Len(log) + 1 /\ \A i \in DOMAIN log : i \in DOMAIN log' /\ log'[i] = log[i]
    <2>1. PICK e : log' = Append(log, e)
      BY <1>1
    <2> QED BY <2>1 DEF Logged, LogLinked
  <1>5. \A p \in Peers : Owed(p)'
    BY <1>1, <1>3, <1>4 DEF Synced, Owed
  <1>6. Posting'
    BY <1>1, <1>2, <1>5 DEF Posting
  <1>7. Prefixes'
    BY <1>1, <1>4 DEF Wires, Prefixes
  <1> QED BY <1>1, <1>6, <1>7 DEF Wires, WireTypes

\* A thread posts the newest entry to one peer after the other.
LEMMA WiresPost ==
  ASSUME Calls, LockHeld, Logged, Wires, NEW t \in Threads, Post(t)
  PROVE  Wires'
  <1> DEFINE last == log[Len(log)]
  <1>0. PICK p \in Peers : p = peer[t]
    BY DEF Post, Calls, CallsOwned
  <1>1. /\ pc[t] = "post" /\ wire' = [wire EXCEPT ![p] = Append(@, last)]
        /\ UNCHANGED <<log, copy>> /\ \A u \in Threads \ {t} : pc'[u] = pc[u]
        /\ peer'[t] = IF p = PeerCount THEN 1 ELSE p + 1
        /\ pc'[t] = IF p = PeerCount THEN "poll" ELSE "post"
    BY <1>0 DEF Post, Calls, CallTypes
  <1>2. \A u \in Threads \ {t} : pc'[u] \notin {"post", "poll"}
    BY <1>1, OnePosting DEF Locked
  <1>3. Owed(p) /\ \A q \in Peers : q < p => Synced(q) \/ Sent(q)
    BY <1>0, <1>1 DEF Wires, Posting
  <1>4. last \in Entries
    <2>1. Len(copy[p]) \in Nat /\ Len(copy[p]) + 1 = Len(log)
      BY <1>1, <1>3 DEF Wires, WireTypes, Owed
    <2> QED BY <2>1 DEF Logged, LogLinked
  <1>5. wire'[p] = <<last>> /\ \A q \in Peers \ {p} : wire'[q] = wire[q]
    BY <1>1, <1>3, <1>4 DEF Owed, Wires, WireTypes
  <1>6. Sent(p)'
    BY <1>1, <1>3, <1>5 DEF Sent, Owed
  <1>7. \A q \in Peers \ {p} : (Synced(q)' <=> Synced(q)) /\ (Sent(q)' <=> Sent(q)) /\ (Owed(q)' <=> Owed(q))
    BY <1>1, <1>5 DEF Synced, Sent, Owed
  <1>8. Posting'
    <2>1. CASE p = PeerCount
      <3>1. \A q \in Peers : Synced(q)' \/ Sent(q)'
        BY <1>3, <1>6, <1>7, <2>1, CountsAssumption
      <3> QED BY <1>1, <1>2, <2>1, <3>1, CountsAssumption DEF Posting
    <2>2. CASE p # PeerCount
      <3>1. peer'[t] = p + 1 /\ pc'[t] = "post"
        BY <1>1, <2>2
      <3>2. \A q \in Peers : IF q < p + 1 THEN Synced(q)' \/ Sent(q)' ELSE Owed(q)'
        <4>1. \A q \in Peers : IF q < p THEN Synced(q) \/ Sent(q) ELSE Owed(q)
          BY <1>0, <1>1 DEF Wires, Posting
        <4> QED BY <1>1, <1>6, <1>7, <4>1, CountsAssumption
      <3> QED BY <1>1, <1>2, <3>1, <3>2, CountsAssumption DEF Posting
    <2> QED BY <2>1, <2>2
  <1>9. WireTypes'
    BY <1>1, <1>4 DEF Wires, WireTypes
  <1> QED BY <1>1, <1>8, <1>9 DEF Wires, Prefixes

\* When the thread is done with polling, every peer has the whole log.
LEMMA WiresPoll ==
  ASSUME Calls, LockHeld, Wires, NEW t \in Threads, Poll(t)
  PROVE  Wires' /\ (pc'[t] = "unlock" => \A q \in Peers : Synced(q))
  <1> DEFINE p == peer[t]
  <1>1. /\ pc[t] = "poll" /\ p \in Peers /\ wire[p] = <<>>
        /\ UNCHANGED <<log, copy, wire>> /\ \A u \in Threads \ {t} : pc'[u] = pc[u]
        /\ peer'[t] = p + 1
        /\ pc'[t] = IF p = PeerCount THEN "unlock" ELSE "poll"
    BY DEF Poll, Polled, Calls, CallTypes, CallsOwned
  <1>2. \A u \in Threads \ {t} : pc'[u] \notin {"post", "poll"}
    BY <1>1, OnePosting DEF Locked
  <1>3. \A q \in Peers : (Synced(q)' <=> Synced(q)) /\ (Sent(q)' <=> Sent(q))
    BY <1>1 DEF Synced, Sent
  <1>4. \A q \in Peers : Synced(q) \/ (q >= p /\ Sent(q))
    BY <1>1 DEF Wires, Posting
  <1>5. Synced(p)
    <2>1. ~Sent(p)
      BY <1>1 DEF Sent
    <2> QED BY <1>1, <1>4, <2>1
  <1>6. \A q \in Peers : Synced(q) \/ (q >= p + 1 /\ Sent(q))
    BY <1>1, <1>4, <1>5, CountsAssumption
  <1>7. Posting' /\ (pc'[t] = "unlock" => \A q \in Peers : Synced(q))
    <2>1. CASE p = PeerCount
      <3>1. \A q \in Peers : Synced(q)
        BY <1>6, <2>1, CountsAssumption
      <3> QED BY <1>1, <1>2, <1>3, <2>1, <3>1 DEF Posting
    <2>2. CASE p # PeerCount
      BY <1>1, <1>2, <1>3, <1>6, <2>2 DEF Posting
    <2> QED BY <2>1, <2>2
  <1> QED BY <1>1, <1>7 DEF Wires, WireTypes, Prefixes

\* What is delivered is the newest entry, which the peer lacked.
LEMMA DeliverSent ==
  ASSUME Calls, LockHeld, Logged, Wires, NEW p \in Peers, Deliver(p)
  PROVE  /\ Sent(p) /\ Len(copy[p]) \in Nat /\ log[Len(log)] \in Entries
         /\ copy' = [copy EXCEPT ![p] = Append(@, log[Len(log)])]
         /\ wire' = [wire EXCEPT ![p] = <<>>]
         /\ UNCHANGED <<requests, linked, pc, mine, peer, log>>
  <1>1. /\ wire[p] # <<>> /\ copy' = [copy EXCEPT ![p] = Append(@, wire[p][1])]
        /\ wire' = [wire EXCEPT ![p] = SubSeq(@, 2, Len(@))]
        /\ UNCHANGED <<requests, linked, pc, mine, peer, log>>
    BY DEF Deliver
  <1>2. Sent(p)
    BY <1>1 DEF Wires, Posting, Synced, Owed
  <1>3. Len(copy[p]) \in Nat /\ log[Len(log)] \in Entries
    <2>1. Len(copy[p]) \in Nat
      BY DEF Wires, WireTypes
    <2> QED BY <1>2, <2>1 DEF Sent, Logged, LogLinked
  <1>4. wire[p][1] = log[Len(log)] /\ SubSeq(wire[p], 2, Len(wire[p])) = <<>>
    <2>1. wire[p] = <<log[Len(log)]>>
      BY <1>2 DEF Sent
    <2> QED BY <2>1, <1>3
  <1> QED BY <1>1, <1>2, <1>3, <1>4

\* What arrives at a peer is the entry it lacks.
LEMMA WiresDeliver ==
  ASSUME Calls, LockHeld, Logged, Wires, NEW p \in Peers, Deliver(p)
  PROVE  Wires'
  <1> DEFINE last == log[Len(log)]
  <1>1. /\ Sent(p) /\ Len(copy[p]) \in Nat /\ last \in Entries
        /\ copy' = [copy EXCEPT ![p] = Append(@, last)]
        /\ wire' = [wire EXCEPT ![p] = <<>>]
        /\ UNCHANGED <<pc, peer, log>>
    BY DeliverSent
  <1> HIDE DEF last
  <1>2. /\ wire'[p] = <<>> /\ \A q \in Peers \ {p} : wire'[q] = wire[q] /\ copy'[q] = copy[q]
        /\ copy'[p] = Append(copy[p], last)
        /\ WireTypes'
    BY <1>1 DEF Wires, WireTypes
  <1>3. Len(copy'[p]) = Len(log) /\ Len(log) = Len(copy[p]) + 1
    BY <1>1, <1>2 DEF Sent, Wires, WireTypes
  <1>4. Synced(p)'
    BY <1>1, <1>2, <1>3 DEF Synced
  <1>5. \A q \in Peers \ {p} : (Synced(q)' <=> Synced(q)) /\ (Sent(q)' <=> Sent(q)) /\ (Owed(q)' <=> Owed(q))
    BY <1>1, <1>2 DEF Synced, Sent, Owed
  <1>6. ~Owed(p) /\ ~Synced(p)
    BY <1>1 DEF Sent, Owed, Synced
  <1>7. Posting'
    BY <1>1, <1>4, <1>5, <1>6 DEF Wires, Posting
  <1>8. Prefixes'
    <2>1. \A i \in DOMAIN copy'[p] : i \in DOMAIN log /\ copy'[p][i] = log[i]
      BY <1>1, <1>2, <1>3 DEF Wires, WireTypes, Prefixes, Logged, LogLinked, last
    <2> QED BY <1>1, <1>2, <2>1 DEF Wires, Prefixes
  <1> QED BY <1>2, <1>7, <1>8 DEF Wires

\* Every step keeps all peers within one entry of the log.
LEMMA WiresStep ==
  Calls /\ LockHeld /\ Logged /\ Logged' /\ Wires /\ [Next]_vars => Wires'
  <1> SUFFICES ASSUME Calls, LockHeld, Logged, Logged', Wires, [Next]_vars PROVE Wires'
    OBVIOUS
  <1>1. ASSUME NEW t \in Threads, NEW key \in Keys, NEW kind \in Kinds, Begin(t, key, kind)
        PROVE  Wires'
    BY <1>1, WiresKept DEF Begin, Calls, CallTypes
  <1>2. ASSUME NEW t \in Threads, Continue(t), ~WriteLog(t), ~Post(t), ~Poll(t) PROVE Wires'
    <2>1. /\ UNCHANGED <<log, wire, copy, peer>>
          /\ pc[t] \notin {"post", "poll"} /\ pc'[t] \notin {"post", "poll"}
      BY <1>2 DEF Continue, Link, Acquire, Unlock, Finish, Reset, ResetProcessed, Calls, CallTypes
    <2> QED BY <1>2, <2>1, ContinueKeeps, WiresKept
  <1>3. ASSUME UNCHANGED <<pc, peer, log, wire, copy>> PROVE Wires'
    BY <1>3, WiresKept
  <1> QED BY <1>1, <1>2, <1>3, WiresWrite, WiresPost, WiresPoll, WiresDeliver DEF Next, ClearBuffer, vars

\* Each peer holds a prefix of the log and lacks at most its newest entry,
\* and that only while a thread is posting or polling (scot-rpli.cc:97-148).
LEMMA WiresHold == Spec => []Wires
  BY CallsHold, LockHolds, LoggedHolds, WiresInit, WiresStep, PTL DEF Spec

(***************************************************************************)
(* Covering: what is logged for a thread is its request or a newer version *)
(* of its key, and all peers have it once the thread left the section.     *)
(***************************************************************************)
CoveredAt(p, id) ==
  \E i \in DOMAIN copy[p] :
    /\ copy[p][i].key = requests[id].key
    /\ LinkPosition(copy[p][i].id) >= LinkPosition(id)

LastCovers(id) ==
  /\ log # <<>>
  /\ log[Len(log)].key = requests[id].key
  /\ LinkPosition(log[Len(log)].id) >= LinkPosition(id)

Settled(id) ==
  \E t \in Threads : /\ requests[id].thread = t
                     /\ mine[t] # id \/ pc[t] \in {"idle", "unlock", "finish", "reset", "rezero"}

Covering ==
  /\ \A t \in Threads : pc[t] \in {"post", "poll"} => LastCovers(mine[t])
  /\ \A id \in DOMAIN requests : Settled(id) => \A p \in Peers : CoveredAt(p, id)

\* At first there is no request.
LEMMA CoveringInit == Init => Covering
  BY DEF Init, Covering

\* A settled request is linked.
LEMMA SettledLinked ==
  ASSUME Calls, Links, NEW id \in DOMAIN requests, Settled(id)
  PROVE  IsLinked(id)
  <1>1. \A t \in Threads : pc[t] = "link" => mine[t] # id
    BY DEF Settled, Calls, CallsOwned
  <1> QED BY <1>1 DEF Links, LinkedOnce

\* Peers forget nothing.
LEMMA CopiesGrow ==
  ASSUME Calls, LockHeld, Logged, Wires, [Next]_vars, NEW p \in Peers, NEW i \in DOMAIN copy[p]
  PROVE  i \in DOMAIN copy'[p] /\ copy'[p][i] = copy[p][i]
  <1>1. ASSUME NEW q \in Peers, Deliver(q)
        PROVE  i \in DOMAIN copy'[p] /\ copy'[p][i] = copy[p][i]
    <2> DEFINE last == log[Len(log)]
    <2>1. copy' = [copy EXCEPT ![q] = Append(@, last)] /\ last \in Entries
      BY <1>1, DeliverSent
    <2> HIDE DEF last
    <2> QED BY <2>1 DEF Wires, WireTypes
  <1>2. (\A q \in Peers : ~Deliver(q)) => UNCHANGED copy
    BY DEF Next, Begin, Continue, Link, Acquire, WriteLog, Post, Poll, Unlock, Finish, Reset, ResetProcessed,
           ClearBuffer, vars
  <1> QED BY <1>1, <1>2

\* What covers a request at a peer goes on covering it.
LEMMA CoveredStays ==
  ASSUME Calls, Links, Links', LockHeld, Logged, Wires, [Next]_vars,
         NEW p \in Peers, NEW id \in DOMAIN requests, IsLinked(id), CoveredAt(p, id)
  PROVE  CoveredAt(p, id)'
  <1>1. PICK i \in DOMAIN copy[p] :
          /\ copy[p][i].key = requests[id].key
          /\ LinkPosition(copy[p][i].id) >= LinkPosition(id)
    BY DEF CoveredAt
  <1>2. PICK e : e = copy[p][i]
    OBVIOUS
  <1>3. PICK r : r = e.id
    OBVIOUS
  <1>4. i \in DOMAIN copy'[p] /\ copy'[p][i] = e
    BY <1>2, CopiesGrow
  <1>5. IsLinked(r)
    BY <1>2, <1>3 DEF Wires, Prefixes, Logged, LogLinked
  <1>6. LinkPosition(r)' = LinkPosition(r) /\ LinkPosition(id)' = LinkPosition(id)
    BY <1>5, PositionKept
  <1>7. requests'[id] = requests[id]
    BY RequestsKept
  <1>8. (copy[p][i].key = requests[id].key)'
    BY <1>1, <1>2, <1>4, <1>7
  <1>9. LinkPosition(r) >= LinkPosition(id)
    BY <1>1, <1>2, <1>3
  <1>10. (LinkPosition(copy[p][i].id) = LinkPosition(r))'
    BY <1>3, <1>4 DEF LinkPosition
  <1>11. (LinkPosition(copy[p][i].id) >= LinkPosition(id))'
    BY <1>6, <1>9, <1>10
  <1> QED BY <1>4, <1>8, <1>11, Zenon DEF CoveredAt

\* Steps by which nobody leaves the section and the log stays.
LEMMA CoveringKept ==
  ASSUME Calls, Links, Links', LockHeld, Logged, Wires, Covering, [Next]_vars,
         UNCHANGED log,
         \A t \in Threads : pc'[t] \in {"post", "poll"} => pc[t] \in {"post", "poll"} /\ UNCHANGED mine[t],
         \A id \in DOMAIN requests' : Settled(id)' => id \in DOMAIN requests /\ Settled(id)
  PROVE  Covering'
  <1>1. ASSUME NEW t \in Threads, pc'[t] \in {"post", "poll"}
        PROVE  LastCovers(mine[t])'
    <2>1. PICK id : id = mine[t] /\ id = mine'[t]
      BY <1>1
    <2>2. LastCovers(id) /\ IsLinked(id) /\ id \in DOMAIN requests
      BY <1>1, <2>1, MineLinked DEF Covering
    <2>3. PICK e : e = log[Len(log)]
      OBVIOUS
    <2>4. PICK r : r = e.id
      OBVIOUS
    <2>5. IsLinked(r)
      <3>1. Len(log) \in DOMAIN log
        BY <2>2 DEF LastCovers, Logged, LogLinked
      <3> QED BY <2>3, <2>4, <3>1 DEF Logged, LogLinked
    <2>6. LinkPosition(r)' = LinkPosition(r) /\ LinkPosition(id)' = LinkPosition(id)
      BY <2>2, <2>5, PositionKept
    <2>7. requests'[id] = requests[id]
      BY <2>2, RequestsKept
    <2>8. (log # <<>> /\ log[Len(log)].key = requests[id].key)'
      BY <2>2, <2>7 DEF LastCovers
    <2>9. LinkPosition(r) >= LinkPosition(id)
      BY <2>2, <2>3, <2>4 DEF LastCovers
    <2>10. (LinkPosition(log[Len(log)].id) = LinkPosition(r))'
      BY <2>3, <2>4 DEF LinkPosition
    <2>11. LastCovers(id)'
      BY <2>6, <2>8, <2>9, <2>10 DEF LastCovers
    <2> QED BY <2>1, <2>11 DEF LastCovers, LinkPosition
  <1>2. ASSUME NEW id \in DOMAIN requests', Settled(id)', NEW p \in Peers
        PROVE  CoveredAt(p, id)'
    <2>1. id \in DOMAIN requests /\ Settled(id)
      BY <1>2
    <2>2. CoveredAt(p, id) /\ IsLinked(id)
      BY <2>1, SettledLinked DEF Covering
    <2> QED BY <2>1, <2>2, CoveredStays
  <1> QED BY <1>1, <1>2 DEF Covering

\* A new request is neither posted nor settled.
LEMMA CoveringBegin ==
  ASSUME Calls, Links, Links', LockHeld, Logged, Wires, Covering,
         NEW t \in Threads, NEW key \in Keys, NEW kind \in Kinds, Begin(t, key, kind)
  PROVE  Covering'
  <1> DEFINE new == [thread |-> t, key |-> key, kind |-> kind, slot |-> given]
             next == Len(requests) + 1
  <1>1. /\ requests' = Append(requests, new) /\ new.thread = t
        /\ mine'[t] = next /\ pc'[t] = "link" /\ pc[t] = "idle" /\ UNCHANGED log
        /\ \A u \in Threads \ {t} : pc'[u] = pc[u] /\ mine'[u] = mine[u]
    BY DEF Begin, Calls, CallTypes
  <1> HIDE DEF new
  <1>2. /\ requests'[next].thread = t /\ next \notin DOMAIN requests
        /\ DOMAIN requests' = DOMAIN requests \cup {next}
        /\ \A id \in DOMAIN requests : requests'[id] = requests[id]
    BY <1>1 DEF Calls, CallTypes
  <1> HIDE DEF next
  <1>3. PICK n : n = next
    OBVIOUS
  <1>4. ~Settled(n)'
    BY <1>1, <1>2, <1>3 DEF Settled
  <1>5. ASSUME NEW id \in DOMAIN requests', Settled(id)' PROVE id \in DOMAIN requests /\ Settled(id)
    <2>1. id \in DOMAIN requests
      BY <1>2, <1>3, <1>4, <1>5
    <2> QED BY <1>1, <1>2, <1>5, <2>1 DEF Settled
  <1>6. \A u \in Threads : pc'[u] \in {"post", "poll"} => pc[u] \in {"post", "poll"} /\ UNCHANGED mine[u]
    BY <1>1
  <1> QED BY <1>1, <1>5, <1>6, CoveringKept DEF Next

\* The entry that a thread logs covers its request.
LEMMA CoveringWrite ==
  ASSUME Calls, Links, Links', LockHeld, Logged, Logged', Wires, Covering, NEW t \in Threads, WriteLog(t)
  PROVE  Covering'
  <1> DEFINE id == latest[t]
             content == buffer[AddressOf(requests[id].thread, id)]
             e == [id |-> id, key |-> requests[id].key, kind |-> requests[id].kind,
                   content |-> content]
  <1>1. /\ pc[t] = "log" /\ log' = Append(log, e) /\ e.id = id /\ e.key = requests[id].key
        /\ UNCHANGED <<requests, linked, mine, copy>>
        /\ pc'[t] = "post" /\ \A u \in Threads \ {t} : pc'[u] = pc[u]
    BY DEF WriteLog, Calls, CallTypes
  <1>2. \A u \in Threads : pc[u] \notin {"post", "poll"}
    BY <1>1, OnePosting DEF Locked
  <1>3. requests[id].key = MyRequest(t).key /\ LinkPosition(mine[t]) <= LinkPosition(id)
    BY <1>1 DEF Logged, LatestLinked
  <1> HIDE DEF e
  <1>4. log' # <<>> /\ log'[Len(log')] = e
    BY <1>1 DEF Logged, LogLinked
  <1>5. /\ LinkPosition(mine[t]) \in Int /\ LinkPosition(id) \in Int
    <2>1. IsLinked(mine[t]) /\ IsLinked(id)
      BY <1>1, MineLinked DEF Logged, LatestLinked
    <2>2. DOMAIN linked \subseteq Int
      BY DEF Calls, CallTypes
    <2>3. ASSUME NEW r, IsLinked(r) PROVE LinkPosition(r) \in Int
      BY <2>2, <2>3, PositionOf DEF IsLinked
    <2> QED BY <2>1, <2>3
  <1>6. LastCovers(mine[t])'
    BY <1>1, <1>3, <1>4, <1>5 DEF LastCovers, LinkPosition, MyRequest
  <1>7. \A u \in Threads : pc'[u] \in {"post", "poll"} => u = t
    BY <1>1, <1>2
  <1>8. ASSUME NEW r \in DOMAIN requests', Settled(r)', NEW p \in Peers
        PROVE  CoveredAt(p, r)'
    <2>1. r \in DOMAIN requests /\ Settled(r)
      BY <1>1, <1>8 DEF Settled
    <2>2. CoveredAt(p, r)
      BY <2>1 DEF Covering
    <2> QED BY <1>1, <2>2 DEF CoveredAt, LinkPosition
  <1> QED BY <1>6, <1>7, <1>8 DEF Covering

\* The thread that polled the last peer leaves its request covered at all.
LEMMA CoveringPoll ==
  ASSUME Calls, Links, Links', LockHeld, Logged, Wires, Covering, NEW t \in Threads, Poll(t)
  PROVE  Covering'
  <1>1. /\ pc[t] = "poll" /\ pc'[t] \in {"poll", "unlock"}
        /\ UNCHANGED <<requests, linked, mine, log, copy>>
        /\ \A u \in Threads \ {t} : pc'[u] = pc[u]
    BY DEF Poll, Calls, CallTypes
  <1>2. CASE pc'[t] = "poll"
    <2>1. \A id \in DOMAIN requests' : Settled(id)' => id \in DOMAIN requests /\ Settled(id)
      BY <1>1, <1>2 DEF Settled
    <2> QED BY <1>1, <1>2, <2>1, CoveringKept DEF Next, Continue
  <1>3. CASE pc'[t] = "unlock"
    <2>1. \A p \in Peers : Synced(p)
      BY <1>3, WiresPoll
    <2>2. LastCovers(mine[t])
      BY <1>1 DEF Covering
    <2>3. ASSUME NEW p \in Peers PROVE CoveredAt(p, mine[t])
      <3>1. Len(copy[p]) = Len(log) /\ Len(log) \in DOMAIN log /\ copy[p] \in Seq(Entries)
        BY <2>1, <2>2 DEF Synced, LastCovers, Logged, LogLinked, Wires, WireTypes
      <3>2. Len(log) \in DOMAIN copy[p] /\ copy[p][Len(log)] = log[Len(log)]
        BY <3>1 DEF Wires, Prefixes, Logged, LogLinked
      <3> QED BY <2>2, <3>2 DEF CoveredAt, LastCovers
    <2>4. ASSUME NEW id \in DOMAIN requests', Settled(id)', NEW p \in Peers
          PROVE  CoveredAt(p, id)'
      <3>1. id \in DOMAIN requests /\ (Settled(id) \/ id = mine[t])
        BY <1>1, <2>4 DEF Settled
      <3>2. CoveredAt(p, id)
        BY <2>3, <3>1 DEF Covering
      <3> QED BY <1>1, <3>2 DEF CoveredAt, LinkPosition
    <2>5. \A u \in Threads : pc'[u] \in {"post", "poll"} => LastCovers(mine[u])'
      BY <1>1, <1>3 DEF Covering, LastCovers, LinkPosition
    <2> QED BY <2>4, <2>5 DEF Covering
  <1> QED BY <1>1, <1>2, <1>3

\* Requests that are settled stay covered, and only covered ones get settled.
LEMMA CoveringStep ==
  Calls /\ Links /\ Links' /\ LockHeld /\ Logged /\ Logged' /\ Wires /\ Covering /\ [Next]_vars => Covering'
  <1> SUFFICES ASSUME Calls, Links, Links', LockHeld, Logged, Logged', Wires, Covering, [Next]_vars
               PROVE  Covering'
    OBVIOUS
  <1>1. ASSUME NEW t \in Threads, Continue(t), ~WriteLog(t), ~Poll(t) PROVE Covering'
    <2>1. /\ UNCHANGED <<requests, mine, log>> /\ \A u \in Threads \ {t} : pc'[u] = pc[u]
      BY <1>1, ContinueKeeps DEF Continue, Link, Acquire, Post, Unlock, Finish, Reset, ResetProcessed
    <2>2. /\ pc'[t] \in {"post", "poll"} => pc[t] \in {"post", "poll"}
          /\ pc'[t] \in {"idle", "unlock", "finish", "reset", "rezero"} => pc[t] \in {"idle", "unlock", "finish", "reset", "rezero"}
      BY <1>1 DEF Continue, Link, Acquire, Post, Unlock, Finish, Reset, ResetProcessed, Calls, CallTypes
    <2>3. \A id \in DOMAIN requests' : Settled(id)' => id \in DOMAIN requests /\ Settled(id)
      BY <2>1, <2>2 DEF Settled
    <2> QED BY <2>1, <2>2, <2>3, CoveringKept
  <1>2. ASSUME UNCHANGED <<requests, mine, pc, log>> PROVE Covering'
    <2>1. \A id \in DOMAIN requests' : Settled(id)' => id \in DOMAIN requests /\ Settled(id)
      BY <1>2 DEF Settled
    <2> QED BY <1>2, <2>1, CoveringKept
  <1> QED BY <1>1, <1>2, CoveringBegin, CoveringWrite, CoveringPoll DEF Next, ClearBuffer, Deliver, vars

\* Every request whose thread left the section is covered at every peer.
LEMMA CoveringHolds == Spec => []Covering
  BY CallsHold, LinksHold, LockHolds, LoggedHolds, WiresHold, CoveringInit, CoveringStep, PTL DEF Spec

(***************************************************************************)
(* The theorems.                                                           *)
(***************************************************************************)
\* Requests, slots, table, lock, log and peers keep their types; in
\* particular what is logged is always a request with a key and a kind.
THEOREM TypeCorrect == Spec => []TypeOK
  <1>1. Calls /\ Logged /\ Wires => TypeOK
    BY DEF Calls, CallTypes, Logged, LatestLinked, LogLinked, Wires, WireTypes, TypeOK, Requests
  <1> QED BY <1>1, CallsHold, LoggedHolds, WiresHold, PTL

\* However threads interleave between linking an entry and logging the newest
\* version under writer_lock, and whenever the table is reset, the log of a
\* key never goes back to an older version (scot-rpli.cc:69-75).
THEOREM LogIsNeverStale == Spec => []LogNeverStale
  <1>1. Logged => LogNeverStale
    BY DEF Logged
  <1> QED BY <1>1, LoggedHolds, PTL

\* When write_request returns, every peer holds the request or a newer
\* version of its key (scot-rpli.cc:97-151).
THEOREM ReturnedAreReplicated == Spec => []ReturnedIsReplicated
  <1>1. Calls /\ Covering => ReturnedIsReplicated
    <2> SUFFICES ASSUME Calls, Covering, NEW id \in DOMAIN requests, Returned(id), NEW p \in Peers
                 PROVE  CoveredAt(p, id)
      BY DEF ReturnedIsReplicated, CoveredAt
    <2>1. requests[id] \in Requests
      BY DEF Calls, CallTypes
    <2>2. PICK t \in Threads : t = requests[id].thread
      BY <2>1 DEF Requests
    <2>3. mine[t] # id \/ pc[t] = "idle"
      BY <2>2 DEF Returned
    <2>4. Settled(id)
      BY <2>2, <2>3 DEF Settled
    <2> QED BY <2>4 DEF Covering
  <1> QED BY <1>1, CallsHold, CoveringHolds, PTL

\* A peer that lacks nothing has a copy of the log.
LEMMA SyncedCopies ==
  ASSUME Logged, Wires, NEW p \in Peers, Synced(p)
  PROVE  copy[p] = log
  <1>1. copy[p] \in Seq(Entries) /\ log \in Seq(Entries) /\ Len(copy[p]) = Len(log)
    BY DEF Wires, WireTypes, Logged, LogLinked, Synced
  <1>2. \A i \in 1 .. Len(log) : copy[p][i] = log[i]
    BY <1>1 DEF Wires, Prefixes
  <1> QED BY <1>1, <1>2

\* Every step of the replicator is one of the replicated log, or stutters.
LEMMA ReplicatedStep ==
  ASSUME Calls, LockHeld, Logged, Logged', Wires, [Next]_vars
  PROVE  [Replicated!Next]_(Replicated!vars)
  <1>1. ASSUME NEW t \in Threads, WriteLog(t) PROVE Replicated!Next
    <2>1. /\ pc[t] = "log" /\ UNCHANGED copy /\ \E e : log' = Append(log, e)
      BY <1>1 DEF WriteLog
    <2>2. \A u \in Threads : pc[u] \notin {"post", "poll"}
      BY <2>1, OnePosting DEF Locked
    <2>3. \A p \in Peers : copy[p] = log
      BY <2>2, SyncedCopies DEF Wires, Posting
    <2>4. PICK e : log' = Append(log, e)
      BY <2>1
    <2>5. e \in Entries
      <3>1. log \in Seq(Entries) /\ log' \in Seq(Entries)
        BY DEF Logged, LogLinked, Entries
      <3>2. Len(log) + 1 \in DOMAIN log' /\ log'[Len(log) + 1] = e
        BY <2>4, <3>1
      <3> QED BY <3>1, <3>2
    <2> QED BY <2>1, <2>3, <2>4, <2>5 DEF Replicated!Next, Replicated!Decide
  <1>2. ASSUME NEW p \in Peers, Deliver(p) PROVE Replicated!Next
    <2>1. /\ Sent(p) /\ Len(copy[p]) \in Nat /\ UNCHANGED log
          /\ copy' = [copy EXCEPT ![p] = Append(@, log[Len(log)])]
      BY <1>2, DeliverSent
    <2>2. Len(copy[p]) + 1 = Len(log) /\ Len(copy[p]) < Len(log)
      BY <2>1 DEF Sent
    <2>3. copy' = [copy EXCEPT ![p] = Append(@, log[Len(@) + 1])]
      BY <2>1, <2>2
    <2> QED BY <2>1, <2>2, <2>3 DEF Replicated!Next, Replicated!Catch
  <1>3. (\A t \in Threads : ~WriteLog(t)) /\ (\A p \in Peers : ~Deliver(p)) => UNCHANGED <<log, copy>>
    BY DEF Next, Begin, Continue, Link, Acquire, Post, Poll, Unlock, Finish, Reset, ResetProcessed, ClearBuffer, vars
  <1> QED BY <1>1, <1>2, <1>3 DEF Replicated!vars

\* The replicator implements one log that all peers copy: logging an entry is
\* its decision, which happens when no peer lacks anything; an RDMA write that
\* takes effect lets a peer catch up.
THEOREM ImplementsLog == Spec => ImplementsReplicatedLog
  <1>1. Init => Replicated!Init
    BY DEF Init, Replicated!Init
  <1> QED BY <1>1, ReplicatedStep, CallsHold, LockHolds, LoggedHolds, WiresHold, PTL
          DEF Spec, ImplementsReplicatedLog, Replicated!Spec
===============================================================================
