------------------------------ MODULE MCScotCore -------------------------------
(* ScotCore, and with it ScotConnection, for a quorum of three, as in         *)
(* scripts/ (SCOT_QSIZE=3); one receiver is written to.                       *)
EXTENDS ScotCore

Fresh == {}
OneReceiver == {<<"rcvr", 2, 0>>}
===============================================================================
