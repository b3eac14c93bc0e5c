----------------------------- MODULE FifoChannel ------------------------------
(* What a log pair promises: the reader is handed the messages the writer   *)
(* sent, each of them once, unchanged and in order.                         *)
EXTENDS Integers, Sequences

CONSTANT Messages

VARIABLES sent, received

vars == <<sent, received>>

Init == sent = <<>> /\ received = <<>>

Send(m) ==
  /\ sent' = Append(sent, m)
  /\ UNCHANGED received

Receive ==
  /\ Len(received) < Len(sent)
  /\ received' = Append(received, sent[Len(received) + 1])
  /\ UNCHANGED sent

Next == Receive \/ \E m \in Messages : Send(m)

Spec == Init /\ [][Next]_vars
===============================================================================
