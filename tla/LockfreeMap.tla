------------------------------ MODULE LockfreeMap ------------------------------
(***************************************************************************)
(* One bucket of the replicator's hash table (lfmap.cc) and the part of    *)
(* write_request that uses it (scot-rpli.cc): every entry is linked by     *)
(* __ht_try_insert and then, under writer_lock, its writer follows the     *)
(* chain of versions to the latest one and logs that.                      *)
(*                                                                         *)
(* A bucket is a list through `next`, sorted by hash value and closed by   *)
(* its head cell.  A `next` pointer carries a mark: Del on the pointer     *)
(* from a replaced entry to its replacement, Prot on the pointer of an     *)
(* entry somebody is about to replace.  A cell stands for the entry and    *)
(* for the thread that writes it.  Every read and every CAS of a shared    *)
(* `next` is an action; steps on locals are part of the preceding one.     *)
(***************************************************************************)
EXTENDS Integers, Sequences, FiniteSets

CONSTANTS Cells,       \* entries of one slot round that fall into the bucket
          Hash,        \* entry -> hash value
          ListHead,        \* the bucket's head cell
          NoCell       \* null

ASSUME CellsAssumption == IsFiniteSet(Cells) /\ ListHead \notin Cells /\ NoCell \notin Cells \cup {ListHead}
ASSUME HashAssumption == Hash \in [Cells -> Int]

VARIABLES next,        \* cell -> marked pointer
          pc,
          prev, prev_next, curr, curr_next,   \* locals of __elemSearch
          right,       \* arg_next of __elem_insert and __elem_switch
          writer,      \* holder of writer_lock, or NoCell
          log,         \* entries in the order write_local_log logged them
          versions     \* history: hash value -> entries in link order

search_vars == <<prev, prev_next, curr, curr_next>>
vars == <<next, pc, prev, prev_next, curr, curr_next, right, writer, log, versions>>

Marks == {"none", "del", "prot"}
Nodes == Cells \cup {ListHead}
Ptr(cell) == [ref |-> cell, mark |-> "none"]
Del(cell) == [ref |-> cell, mark |-> "del"]
Prot(cell) == [ref |-> cell, mark |-> "prot"]
Pointers == [ref : Nodes \cup {NoCell}, mark : Marks]
Hashes == {Hash[c] : c \in Cells}
SearchLabels == {"search", "first", "next", "loop", "pass"}
Labels == SearchLabels \cup
          {"insert", "replace", "linked", "walk", "follow", "log", "done", "abort"}

TypeOK ==
  /\ next \in [Nodes -> Pointers]
  /\ pc \in [Cells -> Labels]
  /\ prev \in [Cells -> Nodes] /\ curr \in [Cells -> Nodes]
  /\ prev_next \in [Cells -> Pointers] /\ curr_next \in [Cells -> Pointers]
  /\ right \in [Cells -> Pointers]
  /\ writer \in Cells \cup {NoCell}
  /\ log \in Seq(Cells)
  /\ versions \in [Hashes -> Seq(Cells)]

\* __list_init, and the entries as register_entry leaves them.
Init ==
  /\ next = [n \in Nodes |-> IF n = ListHead THEN Ptr(ListHead) ELSE Ptr(NoCell)]
  /\ pc = [c \in Cells |-> "search"]
  /\ prev = [c \in Cells |-> ListHead]
  /\ prev_next = [c \in Cells |-> Ptr(NoCell)]
  /\ curr = [c \in Cells |-> ListHead]
  /\ curr_next = [c \in Cells |-> Ptr(NoCell)]
  /\ right = [c \in Cells |-> Ptr(NoCell)]
  /\ writer = NoCell
  /\ log = <<>>
  /\ versions = [h \in Hashes |-> <<>>]

Goto(c, label) == pc' = [pc EXCEPT ![c] = label]

(***************************************************************************)
(* Faults: what a plausible mistake would make of a definition below.  No  *)
(* specification uses them; each breaks a property that the code keeps.    *)
(***************************************************************************)
\* The search stops in front of its own key; the new entry is linked before
\* its own pointer is set; the replaced entry is not marked; a replacement
\* that failed is tried again in place.
InLoopBelow(c) == pc[c] = "loop" /\ curr[c] # ListHead /\ Hash[curr[c]] < Hash[c]
SplicedHalf(c) == [next EXCEPT ![prev[c]] = Ptr(c)]
SwitchedUnmarked(c) == [next EXCEPT ![c] = right[c], ![prev[c]] = Ptr(c)]
RetryInPlace == "replace"

\* The lock is entered while it is held, or kept; one replacement is followed
\* at most; a superseded entry is left to the thread of the newer version.
AlwaysFree == TRUE
KeepLock(c) == c
OutdatedOnce(c) == curr[c] = c /\ next[c].mark = "del"
LoggedIfOwn(c) == IF curr[c] = c THEN Append(log, c) ELSE log

(***************************************************************************)
(* __elemSearch(c).                                                        *)
(***************************************************************************)
ReadHead(c) ==
  /\ pc[c] = "search"
  /\ prev' = [prev EXCEPT ![c] = ListHead]
  /\ prev_next' = [prev_next EXCEPT ![c] = next[ListHead]]
  /\ Goto(c, "first")
  /\ UNCHANGED <<next, curr, curr_next, right, writer, log, versions>>

\* curr is read from the head a second time.
ReadFirst(c) ==
  /\ pc[c] = "first"
  /\ curr' = [curr EXCEPT ![c] = next[ListHead].ref]
  /\ Goto(c, "next")
  /\ UNCHANGED <<next, prev, prev_next, curr_next, right, writer, log, versions>>

ReadNext(c) ==
  /\ pc[c] = "next"
  /\ curr_next' = [curr_next EXCEPT ![c] = next[curr[c]]]
  /\ Goto(c, "loop")
  /\ UNCHANGED <<next, prev, prev_next, curr, right, writer, log, versions>>

\* The condition of the while loop (scot_hash_cmp).
InLoop(c) == pc[c] = "loop" /\ curr[c] # ListHead /\ Hash[curr[c]] <= Hash[c]

SkipDeleted(c) ==
  /\ InLoop(c)
  /\ curr_next[c].mark = "del"
  /\ curr' = [curr EXCEPT ![c] = curr_next[c].ref]
  /\ Goto(c, "next")
  /\ UNCHANGED <<next, prev, prev_next, curr_next, right, writer, log, versions>>

\* prev moves on to curr; its pointer is read again.
Pass(c) ==
  /\ \/ pc[c] = "pass"
     \/ InLoop(c) /\ curr_next[c].mark # "del" /\ Hash[curr[c]] < Hash[c]
  /\ prev' = [prev EXCEPT ![c] = curr[c]]
  /\ prev_next' = [prev_next EXCEPT ![c] = next[curr[c]]]
  /\ curr' = [curr EXCEPT ![c] = curr_next[c].ref]
  /\ Goto(c, "next")
  /\ UNCHANGED <<next, curr_next, right, writer, log, versions>>

\* The CAS that protects the entry to be replaced: found, or deleted in the
\* meantime, or another try with the pointer read.
Protect(c) ==
  LET orig == next[curr[c]]
      prot == Prot(curr_next[c].ref)
  IN
  /\ InLoop(c) /\ curr_next[c].mark # "del" /\ Hash[curr[c]] = Hash[c]
  /\ \/ /\ orig \in {curr_next[c], prot}
        /\ next' = [next EXCEPT ![curr[c]] = prot]
        /\ prev' = [prev EXCEPT ![c] = curr[c]]
        /\ right' = [right EXCEPT ![c] = Ptr(curr_next[c].ref)]
        /\ Goto(c, "replace")
        /\ UNCHANGED curr_next
     \/ /\ orig \notin {curr_next[c], prot}
        /\ curr_next' = [curr_next EXCEPT ![c] = orig]
        /\ Goto(c, IF orig.mark = "del" THEN "pass" ELSE "loop")
        /\ UNCHANGED <<next, prev, right>>
  /\ UNCHANGED <<prev_next, curr, writer, log, versions>>

\* The loop ends without a match; a CAS unlinks what lies between prev and
\* curr if prev_next is not curr.
ExitSearch(c) ==
  /\ pc[c] = "loop" /\ ~InLoop(c)
  /\ IF prev_next[c].ref # curr[c] /\ next[prev[c]] = prev_next[c]
       THEN next' = [next EXCEPT ![prev[c]].ref = curr[c]]
       ELSE UNCHANGED next
  /\ right' = [right EXCEPT ![c] = Ptr(curr[c])]
  /\ Goto(c, "insert")
  /\ UNCHANGED <<prev, prev_next, curr, curr_next, writer, log, versions>>

Linked(c) ==
  /\ versions' = [versions EXCEPT ![Hash[c]] = Append(@, c)]
  /\ Goto(c, "linked")

Spliced(c) == [next EXCEPT ![c] = right[c], ![prev[c]] = Ptr(c)]

\* __elem_insert(c, prev, right); a protected pointer is tried once more
\* with its mark, which then moves to the new entry.
Insert(c) ==
  LET orig == next[prev[c]] IN
  /\ pc[c] = "insert"
  /\ \/ /\ orig = right[c]
        /\ next' = Spliced(c)
        /\ Linked(c)
        /\ UNCHANGED right
     \/ /\ orig # right[c]
        /\ orig = Prot(right[c].ref)
        /\ right' = [right EXCEPT ![c] = orig]
        /\ UNCHANGED <<next, pc, versions>>
     \/ /\ orig \notin {right[c], Prot(right[c].ref)}
        /\ Goto(c, "search")
        /\ UNCHANGED <<next, right, versions>>
  /\ UNCHANGED <<search_vars, writer, log>>

Switched(c) == [next EXCEPT ![c] = right[c], ![prev[c]] = Del(c)]
Retry == "search"

\* __elem_switch(c, prev, right): prev is replaced by c.
Replace(c) ==
  LET orig == next[prev[c]] IN
  /\ pc[c] = "replace"
  /\ \/ /\ orig = Prot(right[c].ref)
        /\ next' = Switched(c)
        /\ Linked(c)
        /\ UNCHANGED right
     \/ /\ orig # Prot(right[c].ref)
        /\ orig.mark = "prot"
        /\ right' = [right EXCEPT ![c] = Ptr(orig.ref)]
        /\ UNCHANGED <<next, pc, versions>>
     \/ /\ orig.mark # "prot"
        /\ Goto(c, Retry)
        /\ UNCHANGED <<next, right, versions>>
  /\ UNCHANGED <<search_vars, writer, log>>

(***************************************************************************)
(* write_request, under writer_lock.                                       *)
(***************************************************************************)
Free == writer = NoCell

Lock(c) ==
  /\ pc[c] = "linked"
  /\ Free
  /\ writer' = c
  /\ curr' = [curr EXCEPT ![c] = c]
  /\ Goto(c, "walk")
  /\ UNCHANGED <<next, prev, prev_next, curr_next, right, log, versions>>

\* A version that was replaced.
Outdated(c) == next[curr[c]].mark = "del"
SameKey(c, n) == n # ListHead /\ Hash[n] = Hash[c]

\* __ht_get_latest_entry: the test of curr->next, and the assertion behind
\* the loop (which the list head, whose hash value is never set, fails).
Walk(c) ==
  /\ pc[c] = "walk"
  /\ \/ /\ ~SameKey(c, curr[c])
        /\ Goto(c, "abort")
     \/ /\ SameKey(c, curr[c])
        /\ Goto(c, IF Outdated(c) THEN "follow" ELSE "log")
  /\ UNCHANGED <<next, search_vars, right, writer, log, versions>>

\* curr = GET_UNMARKED_REFERENCE(curr->next), a second read.
Follow(c) ==
  /\ pc[c] = "follow"
  /\ curr' = [curr EXCEPT ![c] = next[curr[c]].ref]
  /\ Goto(c, "walk")
  /\ UNCHANGED <<next, prev, prev_next, curr_next, right, writer, log, versions>>

Logged(c) == Append(log, curr[c])
Release(c) == NoCell

\* write_local_log(latest), and the release of the lock.
LogLatest(c) ==
  /\ pc[c] = "log"
  /\ log' = Logged(c)
  /\ writer' = Release(c)
  /\ Goto(c, "done")
  /\ UNCHANGED <<next, search_vars, right, versions>>

Step(c) ==
  \/ ReadHead(c) \/ ReadFirst(c) \/ ReadNext(c)
  \/ SkipDeleted(c) \/ Pass(c) \/ Protect(c) \/ ExitSearch(c)
  \/ Insert(c) \/ Replace(c)
  \/ Lock(c) \/ Walk(c) \/ Follow(c) \/ LogLatest(c)

\* write_request is called once per entry of the round.
Next == \E c \in Cells : Step(c)

Spec == Init /\ [][Next]_vars
FairSpec == Spec /\ \A c \in Cells : WF_vars(Step(c))

(***************************************************************************)
(* Properties.                                                             *)
(***************************************************************************)
IsLinked(c) == \E i \in DOMAIN versions[Hash[c]] : versions[Hash[c]][i] = c
VersionNumber(c) == CHOOSE i \in DOMAIN versions[Hash[c]] : versions[Hash[c]][i] = c

\* Linking is one atomic step in the order of versions, and the walk ends at
\* the newest version there is when it reads the last pointer.
Map == INSTANCE VersionMap
         WITH answer <- [c \in Cells |->
                           IF pc[c] \in {"log", "done"} THEN curr[c] ELSE NoCell]
ImplementsVersionMap == Map!Spec

\* The log of a key never goes back to an older version of it.
LogNeverStale ==
  \A i, j \in DOMAIN log :
    i < j /\ Hash[log[i]] = Hash[log[j]]
      => VersionNumber(log[i]) <= VersionNumber(log[j])

\* When write_request has logged, the log holds its entry or a newer
\* version of the same key.
LogCovers ==
  \A c \in Cells : pc[c] = "done" =>
    \E i \in DOMAIN log :
      Hash[log[i]] = Hash[c] /\ VersionNumber(log[i]) >= VersionNumber(c)

\* The pointers spell the history: replaced entries point, marked, to their
\* replacement, and the newest version of a key is not marked.
ChainIsHistory ==
  \A h \in Hashes : \A i \in DOMAIN versions[h] :
    IF i < Len(versions[h])
      THEN next[versions[h][i]] = Del(versions[h][i + 1])
      ELSE next[versions[h][i]].mark # "del"

\* Along the pointers of linked entries hash values do not decrease, and
\* grow where the entry was not replaced, so that the list has no cycle.
SortedFrom(n, m) ==
  \/ m.ref = ListHead
  \/ /\ m.ref \in Cells /\ IsLinked(m.ref)
     /\ Hash[n] <= Hash[m.ref]
     /\ m.mark # "del" => Hash[n] < Hash[m.ref]

ListSorted ==
  /\ next[ListHead].ref = ListHead \/ (next[ListHead].ref \in Cells /\ IsLinked(next[ListHead].ref))
  /\ \A c \in Cells : IsLinked(c) => SortedFrom(c, next[c])

\* Every search and every retry of __ht_try_insert comes to an end.
InsertCompletes ==
  \A c \in Cells : <>(pc[c] \in {"linked", "walk", "follow", "log", "done", "abort"})

\* assert(hashv == curr->hashv) (scot-rpli.cc:39).
NoAssertFailure == \A c \in Cells : pc[c] # "abort"

\* Unless the assertion stops the program, every writer gets the lock, walks
\* to the end of its chain and returns.
WriteCompletes == []NoAssertFailure => \A c \in Cells : <>(pc[c] = "done")
===============================================================================
