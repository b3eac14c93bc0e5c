------------------------------ MODULE MCScotSlot ------------------------------
(* ScotSlot on small instances: a few threads, fewer slots than requests.  *)
EXTENDS ScotSlot

CONSTANTS t1, t2, t3

MCThreads == {t1, t2, t3}
MCTwoThreads == {t1, t2}
===============================================================================
