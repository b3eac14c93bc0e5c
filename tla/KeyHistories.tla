----------------------------- MODULE KeyHistories ------------------------------
(* What the cluster promises: a proposal is accepted at most once, by the     *)
(* owner chosen for it; an owner keeps one history of accepted proposals per  *)
(* key; and every other node moves forward through that history, perhaps with *)
(* jumps, never back.                                                         *)
EXTENDS Integers, Sequences

CONSTANTS Nodes, Keys, MaxProposals

Links == {l \in Nodes \X Nodes : l[1] # l[2]}

VARIABLES proposed,   \* proposals in the order they were made: [key, owner]
          history,    \* owner -> key -> accepted proposals
          view        \* <<owner, reader>> -> key -> position in the history

vars == <<proposed, history, view>>

Init ==
  /\ proposed = <<>>
  /\ history = [o \in Nodes |-> [k \in Keys |-> <<>>]]
  /\ view = [l \in Links |-> [k \in Keys |-> 0]]

Propose(k, o) ==
  /\ Len(proposed) < MaxProposals
  /\ proposed' = Append(proposed, [key |-> k, owner |-> o])
  /\ UNCHANGED <<history, view>>

Accept(id) ==
  LET k == proposed[id].key
      o == proposed[id].owner
  IN
  /\ \A i \in DOMAIN history[o][k] : history[o][k][i] # id
  /\ UNCHANGED proposed
  /\ history' = [history EXCEPT ![o][k] = Append(@, id)]
  /\ UNCHANGED view

Learn(l, k) ==
  /\ view'[l][k] > view[l][k]
  /\ \E i \in 1 .. Len(history[l[1]][k]) : view' = [view EXCEPT ![l][k] = i]
  /\ UNCHANGED <<proposed, history>>

Next ==
  \/ \E l \in Links : \E k \in Keys : Learn(l, k)
  \/ \E k \in Keys, o \in Nodes : Propose(k, o)
  \/ \E id \in DOMAIN proposed : Accept(id)

Spec == Init /\ [][Next]_vars
===============================================================================
