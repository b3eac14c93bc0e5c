--------------------------- MODULE MCScotReplicator ----------------------------
(* ScotReplicator with a few threads, keys and peers; rounds are short.      *)
EXTENDS ScotReplicator

CONSTANTS t1, t2, k1, k2

MCThreads == {t1, t2}
MCKeys == {k1, k2}
OneKey == {k1}
Pure == {"PURE"}
===============================================================================
