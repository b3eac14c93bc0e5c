------------------------------ MODULE MCScotRing ------------------------------
(* ScotRing with a log of a few entries.                                     *)
EXTENDS ScotRing

Replayer(sizes, backlog, count) ==
  [kinds |-> {"PURE", "ACK"}, cleared |-> {"PURE", "ACK"},
   sizes |-> sizes, backlog |-> backlog, count |-> count]
Receiver(sizes, backlog, count) ==
  [kinds |-> {"WAIT", "HDRONLY"}, cleared |-> {"WAIT"},
   sizes |-> sizes, backlog |-> backlog, count |-> count]

\* A replayer over more than two laps of entries of one size, with a full log
\* in between, and a receiver over a first lap of several sizes.
Regular == {Replayer({8}, 4, 9), Receiver({2, 4, 7}, 4, 4)}
\* They are of the sorts that the properties are expected, and proved, for.
ASSUME RegularIsKnown == Pairs = Regular => KnownPairs

\* After a wrap: header-only entries, and entries of different sizes.
HeaderOnly == {Receiver({5}, 1, 7)}
MixedSizes == {Replayer({2, 9}, 1, 7)}
===============================================================================
