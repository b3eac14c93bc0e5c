------------------------------ MODULE VersionMap ------------------------------
(***************************************************************************)
(* What the replicator needs from its hash table: every entry becomes, in  *)
(* one step, the newest version of its key, and a writer that asks for the *)
(* latest version of its key gets the newest one at that moment.           *)
(***************************************************************************)
EXTENDS Integers, Sequences

CONSTANTS Cells,     \* the entries
          Hash,      \* entry -> hash value of its key
          NoCell     \* the answer of an entry that has not asked

VARIABLES versions,  \* hash value -> entries of that key, oldest first
          answer     \* entry -> the latest version its writer was given

vars == <<versions, answer>>

Hashes == {Hash[c] : c \in Cells}
Newest(h) == versions[h][Len(versions[h])]
Put(c) == \E i \in DOMAIN versions[Hash[c]] : versions[Hash[c]][i] = c

Init ==
  /\ versions = [h \in Hashes |-> <<>>]
  /\ answer = [c \in Cells |-> NoCell]

NewVersion(c) ==
  /\ ~Put(c)
  /\ versions' = [versions EXCEPT ![Hash[c]] = Append(@, c)]
  /\ UNCHANGED answer

GetLatest(c) ==
  /\ Put(c)
  /\ answer[c] = NoCell
  /\ answer' = [answer EXCEPT ![c] = Newest(Hash[c])]
  /\ UNCHANGED versions

Next == \E c \in Cells : NewVersion(c) \/ GetLatest(c)

Spec == Init /\ [][Next]_vars
===============================================================================
