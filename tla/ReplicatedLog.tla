----------------------------- MODULE ReplicatedLog -----------------------------
(* What the replicator promises to its peers: there is one sequence of       *)
(* entries, every peer holds a prefix of it, and no peer misses more than    *)
(* the newest entry.                                                         *)
EXTENDS Integers, Sequences

CONSTANTS Peers, Entries

VARIABLES log, copy

vars == <<log, copy>>

Init == log = <<>> /\ copy = [p \in Peers |-> <<>>]

Decide(e) ==
  /\ \A p \in Peers : copy[p] = log
  /\ log' = Append(log, e)
  /\ UNCHANGED copy

Catch(p) ==
  /\ Len(copy[p]) < Len(log)
  /\ copy' = [copy EXCEPT ![p] = Append(@, log[Len(@) + 1])]
  /\ UNCHANGED log

Next == (\E e \in Entries : Decide(e)) \/ \E p \in Peers : Catch(p)

Spec == Init /\ [][Next]_vars
===============================================================================
