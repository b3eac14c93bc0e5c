---------------------------- MODULE MCLockfreeMap -----------------------------
(* LockfreeMap on small buckets: one key, or several keys that collide.    *)
EXTENDS LockfreeMap, TLC

CONSTANTS c1, c2, c3, c4

ThreeCells == {c1, c2, c3}
FourCells == {c1, c2, c3, c4}

OneKey4 == [x \in FourCells |-> 1]
LowKeys3 == (c1 :> 1) @@ (c2 :> 1) @@ (c3 :> 2)

OneKeySymmetry == Permutations(FourCells)
===============================================================================
