------------------------------- MODULE ScotSlot -------------------------------
(***************************************************************************)
(* The slot array of a ScotWriter (scot-slot.cc), shared by the threads    *)
(* that run write_request.  next_free and processed are separate atomics,  *)
(* so every access to them is an action of its own.                        *)
(*                                                                         *)
(* A thread registers an entry, links it into the hash table (replicator   *)
(* only: Table), processes it, and marks it finished.  The thread that got *)
(* the last index also waits for the others and resets the array and the   *)
(* table.  Program counter:                                                *)
(*                                                                         *)
(*   idle    outside write_request          retry   will call              *)
(*   full    spins for the next round               __get_next_slot again  *)
(*   fill    owns index, entry not written  link    entry not yet in table *)
(*   held    entry registered               marked  processed incremented  *)
(*   drain   spins for processed = SlotCount                               *)
(*   clear, zero, reopen, rezero   the four steps of the reset             *)
(***************************************************************************)
EXTENDS Integers, FiniteSets

CONSTANTS Threads,     \* threads that call write_request
          SlotCount,   \* SCOT_SLOT_COUNTS
          Table,       \* TRUE: entries are linked in a LockfreeMap
          NoThread     \* owner of a slot that memset has cleared

ASSUME ThreadsAssumption == IsFiniteSet(Threads) /\ NoThread \notin Threads
ASSUME SlotCountAssumption == SlotCount \in Nat \ {0}
ASSUME TableAssumption == Table \in BOOLEAN

VARIABLES next_free, processed,
          slot,        \* index -> [owner, ready]
          linked,      \* indices of the entries the table points to
          pc,
          index,       \* local of write_request: the registered index
          entry        \* index of procd_entry, whose ready flag is cleared

vars == <<next_free, processed, slot, linked, pc, index, entry>>

Indices == 0 .. SlotCount - 1
Last == SlotCount - 1
Labels == {"idle", "retry", "full", "fill", "link", "held", "marked",
           "drain", "clear", "zero", "reopen", "rezero"}

Empty == [owner |-> NoThread, ready |-> 0]

TypeOK ==
  /\ next_free \in Nat
  /\ processed \in Nat
  /\ slot \in [Indices -> [owner : Threads \cup {NoThread}, ready : {0, 1}]]
  /\ linked \subseteq Indices
  /\ pc \in [Threads -> Labels]
  /\ index \in [Threads -> Indices]
  /\ entry \in [Threads -> Indices]

Init ==
  /\ next_free = 0
  /\ processed = 0
  /\ slot = [i \in Indices |-> Empty]
  /\ linked = {}
  /\ pc = [t \in Threads |-> "idle"]
  /\ index = [t \in Threads |-> 0]
  /\ entry = [t \in Threads |-> 0]

Goto(t, label) == pc' = [pc EXCEPT ![t] = label]

(***************************************************************************)
(* Faults: what a plausible mistake would make of a definition below.  No  *)
(* specification uses them; each breaks a property that the code keeps.    *)
(***************************************************************************)
\* The bound of __get_next_slot is off by one.
ClaimOffByOne(t) ==
  /\ pc[t] \in {"idle", "retry"}
  /\ next_free <= SlotCount
  /\ next_free' = next_free + 1
  /\ index' = [index EXCEPT ![t] = next_free]
  /\ Goto(t, "fill")
  /\ UNCHANGED <<processed, slot, linked, entry>>

\* A spinning thread goes on with its old index.
WaitResetNoRetry(t) ==
  /\ pc[t] = "full"
  /\ next_free < SlotCount
  /\ Goto(t, "fill")
  /\ UNCHANGED <<next_free, processed, slot, linked, index, entry>>

\* The thread with the last index does not count itself.
MarkLastUncounted(t) ==
  /\ pc[t] = "held"
  /\ processed' = IF index[t] = Last THEN processed ELSE processed + 1
  /\ entry' = [entry EXCEPT ![t] = index[t]]
  /\ Goto(t, "marked")
  /\ UNCHANGED <<next_free, slot, linked, index>>

\* The last thread does not wait, or waits for "at least" the full count.
DrainAtOnce(t) ==
  /\ pc[t] = "drain"
  /\ Goto(t, "clear")
  /\ UNCHANGED <<next_free, processed, slot, linked, index, entry>>

DrainAtLeast(t) ==
  /\ pc[t] = "drain"
  /\ processed >= SlotCount
  /\ Goto(t, "clear")
  /\ UNCHANGED <<next_free, processed, slot, linked, index, entry>>

\* The table, or the count, is not reset.
ResetNoTable(t) ==
  /\ pc[t] = "clear"
  /\ Goto(t, "zero")
  /\ UNCHANGED <<next_free, processed, slot, linked, index, entry>>

KeepProcessed(t) ==
  /\ pc[t] = "rezero"
  /\ Goto(t, "idle")
  /\ UNCHANGED <<next_free, processed, slot, linked, index, entry>>

(***************************************************************************)
(* register_entry.                                                         *)
(***************************************************************************)
\* __get_next_slot: the fetch-and-add, and the early return it may allow.
Claim(t) ==
  /\ pc[t] \in {"idle", "retry"}
  /\ next_free' = next_free + 1
  /\ \/ /\ next_free < SlotCount
        /\ index' = [index EXCEPT ![t] = next_free]
        /\ Goto(t, "fill")
     \/ /\ next_free >= SlotCount
        /\ Goto(t, "full")
        /\ UNCHANGED index
  /\ UNCHANGED <<processed, slot, linked, entry>>

\* __wait_until_reset_finish returns; __get_next_slot calls itself.
WaitReset(t) ==
  /\ pc[t] = "full"
  /\ next_free < SlotCount
  /\ Goto(t, "retry")
  /\ UNCHANGED <<next_free, processed, slot, linked, index, entry>>

\* The assignments to slot[index].
Fill(t) ==
  /\ pc[t] = "fill"
  /\ slot' = [slot EXCEPT ![index[t]] = [owner |-> t, ready |-> 1]]
  /\ Goto(t, IF Table THEN "link" ELSE "held")
  /\ UNCHANGED <<next_free, processed, linked, index, entry>>

\* __ht_try_insert, here in one step (module LockfreeMap has the details).
Link(t) ==
  /\ pc[t] = "link"
  /\ linked' = linked \cup {index[t]}
  /\ Goto(t, "held")
  /\ UNCHANGED <<next_free, processed, slot, index, entry>>

(***************************************************************************)
(* mark_entry_finished.                                                    *)
(***************************************************************************)
\* The checker passes its own entry; the replicator passes the latest
\* version of its key, which can be any entry of the table.
FinishedEntries(t) == IF Table THEN linked ELSE {index[t]}

MarkProcessed(t) ==
  /\ pc[t] = "held"
  /\ processed' = processed + 1
  /\ \E e \in FinishedEntries(t) : entry' = [entry EXCEPT ![t] = e]
  /\ Goto(t, "marked")
  /\ UNCHANGED <<next_free, slot, linked, index>>

\* procd_entry->ready = 0, then the test for the last index.
ClearReady(t) ==
  /\ pc[t] = "marked"
  /\ slot' = [slot EXCEPT ![entry[t]].ready = 0]
  /\ Goto(t, IF index[t] = Last THEN "drain" ELSE "idle")
  /\ UNCHANGED <<next_free, processed, linked, index, entry>>

\* __wait_until_proc_finish returns.
Drain(t) ==
  /\ pc[t] = "drain"
  /\ processed = SlotCount
  /\ Goto(t, "clear")
  /\ UNCHANGED <<next_free, processed, slot, linked, index, entry>>

\* ht->reset(), skipped for the null table of the checker.
ResetTable(t) ==
  /\ pc[t] = "clear"
  /\ linked' = {}
  /\ Goto(t, "zero")
  /\ UNCHANGED <<next_free, processed, slot, index, entry>>

ZeroSlots(t) ==
  /\ pc[t] = "zero"
  /\ slot' = [i \in Indices |-> Empty]
  /\ Goto(t, "reopen")
  /\ UNCHANGED <<next_free, processed, linked, index, entry>>

Reopen(t) ==
  /\ pc[t] = "reopen"
  /\ next_free' = 0
  /\ Goto(t, "rezero")
  /\ UNCHANGED <<processed, slot, linked, index, entry>>

ResetProcessed(t) ==
  /\ pc[t] = "rezero"
  /\ processed' = 0
  /\ Goto(t, "idle")
  /\ UNCHANGED <<next_free, slot, linked, index, entry>>

\* The steps of a call that has begun.
Continue(t) ==
  \/ pc[t] = "retry" /\ Claim(t)
  \/ WaitReset(t) \/ Fill(t) \/ Link(t)
  \/ MarkProcessed(t) \/ ClearReady(t)
  \/ Drain(t) \/ ResetTable(t) \/ ZeroSlots(t) \/ Reopen(t) \/ ResetProcessed(t)

Next ==
  \E t \in Threads :
    \/ Claim(t) \/ WaitReset(t) \/ Fill(t) \/ Link(t)
    \/ MarkProcessed(t) \/ ClearReady(t)
    \/ Drain(t) \/ ResetTable(t) \/ ZeroSlots(t) \/ Reopen(t) \/ ResetProcessed(t)

Spec == Init /\ [][Next]_vars

\* A thread inside write_request is eventually scheduled; nobody has to call.
FairSpec == Spec /\ \A t \in Threads : WF_vars(Continue(t))

(***************************************************************************)
(* Properties.                                                             *)
(***************************************************************************)
Holding(t) == pc[t] \in {"fill", "link", "held"}
Resetting(t) == pc[t] \in {"clear", "zero", "reopen"}
Given == IF next_free < SlotCount THEN next_free ELSE SlotCount
Holders == {t \in Threads : Holding(t)}
Held == {index[t] : t \in Holders}

\* The array hands out its indices in rounds: a reset happens only when all
\* indices were handed out and all entries finished, although the test of
\* `processed` and the two stores of the reset are separate steps.
Rounds == INSTANCE SlotRounds WITH given <- Given, held <- Held
RefinesRounds == Rounds!Spec

\* No two threads own the same slot (register_entry's fetch_add, across
\* resets that set next_free back under the feet of the spinning threads).
SlotExclusive ==
  \A t, u \in Threads :
    t # u /\ Holding(t) /\ Holding(u) => index[t] # index[u]

\* From register_entry to mark_entry_finished the entry stays as its thread
\* wrote it: no reset and no other thread's fill touches it.
HeldIntact ==
  \A t \in Threads :
    pc[t] \in {"link", "held"} => slot[index[t]].owner = t

\* While the table points to an entry, the entry is some request's: the
\* table is emptied before memset, and no thread links in between.
NoDanglingEntry == \A i \in linked : slot[i].owner # NoThread

\* processed never counts an entry that is still held, except between the
\* two stores of the reset.
CountIsSound ==
  (\A t \in Threads : pc[t] # "rezero")
    => processed + Cardinality(Holders) <= Given

\* At the second store of the reset nothing was counted since the first.
NoCountLost == \A t \in Threads : pc[t] = "rezero" => processed = SlotCount

\* As long as no count is lost, the thread with the last index gets out of
\* mark_entry_finished.
DrainCompletes ==
  []NoCountLost => \A t \in Threads : (pc[t] = "drain") ~> (pc[t] = "idle")

\* "If last index, reset all slots." (scot-slot.cc:76): unconditionally.
LastIndexResets ==
  \A t \in Threads : (pc[t] = "drain") ~> (pc[t] = "reopen")

(***************************************************************************)
(* The inductive invariant behind the safety properties.                   *)
(***************************************************************************)
\* The thread that got the last index, from then to the reset it performs.
Closing(t) ==
  /\ index[t] = Last
  /\ Holding(t) \/ Resetting(t) \/ pc[t] \in {"marked", "drain"}

\* Held indices belong to the current round; only the closing thread drains
\* or resets; while there is a closing thread the round is used up.
InRound ==
  \A t \in Threads :
    /\ Holding(t) => index[t] < next_free
    /\ pc[t] = "drain" \/ Resetting(t) => index[t] = Last
    /\ Closing(t) => next_free >= SlotCount

OneCloser ==
  \A t, u \in Threads : Closing(t) /\ Closing(u) => t = u

HoldersInRound == Cardinality(Holders) <= Given

\* Between the two stores of the reset the next round is already open, but
\* its closing thread finds more than SlotCount counted and cannot pass.
RezeroAlone ==
  \A t \in Threads : pc[t] = "rezero" =>
    /\ processed >= SlotCount
    /\ \A u \in Threads :
         /\ pc[u] = "rezero" => u = t
         /\ ~Resetting(u)
         /\ Closing(u) /\ ~Holding(u) => processed > SlotCount

\* Nobody holds an entry while the array and the table are being reset.
ResetIsQuiet ==
  \A t \in Threads :
    /\ Resetting(t) => processed = SlotCount /\ Holders = {}
    /\ pc[t] = "zero" => linked = {}

Inductive ==
  /\ TypeOK
  /\ InRound
  /\ SlotExclusive
  /\ OneCloser
  /\ HoldersInRound
  /\ CountIsSound
  /\ RezeroAlone
  /\ ResetIsQuiet
  /\ HeldIntact
  /\ NoDanglingEntry
===============================================================================
