----------------------------- MODULE MCScotCluster -----------------------------
(* ScotCluster with one thread at the owner of the key and two at another     *)
(* node, so that the third node is sent headers only.                         *)
EXTENDS ScotCluster

CONSTANTS a, b, c, k1

MCThreads == {a, b, c}
MCNodeOf == [t \in MCThreads |-> IF t = a THEN 0 ELSE 1]
OneKey == {k1}
\* Rules that disagree, as between two nodes that update theirs at different times.
TwoRules == {[k \in OneKey |-> 0], [k \in OneKey |-> 1]}
\* The way to the owner, and the way from it to a peer.
OneEach == {<<"chkr", <<1, 0>>>>, <<"rpli", <<0, 2>>>>}
===============================================================================
