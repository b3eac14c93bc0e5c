------------------------------ MODULE SlotRounds ------------------------------
(***************************************************************************)
(* What a ScotSlot promises to the writers that share it: the indices      *)
(* 0 .. SlotCount-1 are handed out once each, in order, in rounds; a new   *)
(* round starts only when every index of the round was handed out and      *)
(* every entry of it was given back.                                       *)
(***************************************************************************)
EXTENDS Integers

CONSTANT SlotCount

VARIABLES given,    \* number of indices handed out in this round
          held      \* indices handed out and not yet given back

vars == <<given, held>>

Init == given = 0 /\ held = {}

Take ==
  /\ given < SlotCount
  /\ held' = held \cup {given}
  /\ given' = given + 1

GiveBack(i) ==
  /\ i \in held
  /\ held' = held \ {i}
  /\ UNCHANGED given

NewRound ==
  /\ given = SlotCount
  /\ held = {}
  /\ given' = 0
  /\ UNCHANGED held

Next == Take \/ NewRound \/ \E i \in held : GiveBack(i)

Spec == Init /\ [][Next]_vars
===============================================================================
