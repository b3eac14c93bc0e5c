---------------------------- MODULE ScotSlotProofs ----------------------------
(***************************************************************************)
(* Proofs about ScotSlot for every set of threads and every slot count:    *)
(* the inductive invariant, the safety properties that follow from it, and *)
(* the refinement of SlotRounds.                                           *)
(***************************************************************************)
EXTENDS ScotSlot, FiniteSetTheorems, TLAPS

USE DEF Indices, Last, Goto

\* Every step keeps the types of the variables.
LEMMA TypeStep ==
  ASSUME TypeOK, [Next]_vars
  PROVE  TypeOK'
<1> USE SlotCountAssumption, ThreadsAssumption, TableAssumption DEF TypeOK
<1>1. CASE UNCHANGED vars
  BY <1>1 DEF vars
<1>2. ASSUME NEW t \in Threads, Claim(t) PROVE TypeOK'
  <2>1. pc' \in [Threads -> Labels]
    <3>1. pc' = [pc EXCEPT ![t] = "fill"] \/ pc' = [pc EXCEPT ![t] = "full"]
      BY <1>2 DEF Claim
    <3> QED
      BY <3>1 DEF Labels
  <2>2. index' \in [Threads -> Indices]
    <3>1. CASE next_free < SlotCount
      <4>1. next_free \in Indices
        BY <3>1
      <4>2. index' = [index EXCEPT ![t] = next_free]
        BY <1>2, <3>1 DEF Claim
      <4> QED
        BY <4>1, <4>2
    <3>2. CASE ~(next_free < SlotCount)
      BY <1>2, <3>2 DEF Claim
    <3> QED
      BY <3>1, <3>2
  <2> QED
    BY <1>2, <2>1, <2>2 DEF Claim
<1>3. ASSUME NEW t \in Threads, WaitReset(t) PROVE TypeOK'
  BY <1>3 DEF WaitReset, Labels
<1>4. ASSUME NEW t \in Threads, Fill(t) PROVE TypeOK'
  BY <1>4 DEF Fill, Labels
<1>5. ASSUME NEW t \in Threads, Link(t) PROVE TypeOK'
  BY <1>5 DEF Link, Labels
<1>6. ASSUME NEW t \in Threads, MarkProcessed(t) PROVE TypeOK'
  BY <1>6 DEF MarkProcessed, FinishedEntries, Labels
<1>7. ASSUME NEW t \in Threads, ClearReady(t) PROVE TypeOK'
  BY <1>7 DEF ClearReady, Labels
<1>8. ASSUME NEW t \in Threads, Drain(t) PROVE TypeOK'
  BY <1>8 DEF Drain, Labels
<1>9. ASSUME NEW t \in Threads, ResetTable(t) PROVE TypeOK'
  BY <1>9 DEF ResetTable, Labels
<1>10. ASSUME NEW t \in Threads, ZeroSlots(t) PROVE TypeOK'
  BY <1>10 DEF ZeroSlots, Empty, Labels
<1>11. ASSUME NEW t \in Threads, Reopen(t) PROVE TypeOK'
  BY <1>11 DEF Reopen, Labels
<1>12. ASSUME NEW t \in Threads, ResetProcessed(t) PROVE TypeOK'
  BY <1>12 DEF ResetProcessed, Labels
<1> QED
  BY <1>1, <1>2, <1>3, <1>4, <1>5, <1>6, <1>7, <1>8, <1>9, <1>10, <1>11, <1>12
  DEF Next

\* A set of threads is finite, so its cardinality is a natural number.
LEMMA HoldersFinite == IsFiniteSet(Holders) /\ Cardinality(Holders) \in Nat
<1>1. Holders \in SUBSET Threads
  BY DEF Holders
<1> QED
  BY <1>1, ThreadsAssumption, FS_Subset, FS_CardinalityType

LEMMA InitInductive == Init => Inductive
<1> SUFFICES ASSUME Init PROVE Inductive
  OBVIOUS
<1> USE SlotCountAssumption, ThreadsAssumption, TableAssumption DEF Init
<1>1. Holders = {} /\ Cardinality(Holders) = 0
  BY FS_EmptySet DEF Holders, Holding
<1>2. TypeOK
  BY DEF TypeOK, Labels, Empty
<1>3. Given = 0
  BY DEF Given
<1>4. InRound /\ SlotExclusive /\ OneCloser
  BY DEF InRound, SlotExclusive, OneCloser, Holding, Closing, Resetting
<1>5. HoldersInRound /\ CountIsSound
  BY <1>1, <1>3 DEF HoldersInRound, CountIsSound
<1>6. RezeroAlone /\ ResetIsQuiet /\ HeldIntact /\ NoDanglingEntry
  BY DEF RezeroAlone, ResetIsQuiet, HeldIntact, NoDanglingEntry, Resetting
<1> QED
  BY <1>2, <1>4, <1>5, <1>6 DEF Inductive

\* A spinning thread that sees the new round moves no shared variable.
LEMMA WaitResetStep ==
  ASSUME Inductive, NEW t \in Threads, WaitReset(t)
  PROVE  Inductive'
<1> USE SlotCountAssumption, ThreadsAssumption DEF Inductive, WaitReset
<1>1. TypeOK'
  BY TypeStep DEF Next
<1>2. Holders' = Holders /\ Given' = Given
  BY DEF Holders, Holding, Given, TypeOK
<1>3. InRound' /\ SlotExclusive' /\ OneCloser'
  BY DEF InRound, SlotExclusive, OneCloser, Holding, Closing, Resetting, TypeOK
<1>4. HoldersInRound' /\ CountIsSound'
  BY <1>2 DEF HoldersInRound, CountIsSound, TypeOK
<1>5. RezeroAlone' /\ ResetIsQuiet'
  BY <1>2 DEF RezeroAlone, ResetIsQuiet, Resetting, Closing, Holding, Holders, TypeOK
<1>6. HeldIntact' /\ NoDanglingEntry'
  BY DEF HeldIntact, NoDanglingEntry, ResetIsQuiet, SlotExclusive, Resetting, Holding, Holders, TypeOK
<1> QED
  BY <1>1, <1>3, <1>4, <1>5, <1>6

\* The slot a thread fills is nobody else's (SlotExclusive).
LEMMA FillStep ==
  ASSUME Inductive, NEW t \in Threads, Fill(t)
  PROVE  Inductive'
<1> USE SlotCountAssumption, ThreadsAssumption DEF Inductive, Fill
<1>1. TypeOK'
  BY TypeStep DEF Next
<1>2. Holders' = Holders /\ Given' = Given
  BY DEF Holders, Holding, Given, TypeOK
<1>3. InRound' /\ SlotExclusive' /\ OneCloser'
  BY DEF InRound, SlotExclusive, OneCloser, Holding, Closing, Resetting, TypeOK
<1>4. HoldersInRound' /\ CountIsSound'
  BY <1>2 DEF HoldersInRound, CountIsSound, TypeOK
<1>5. RezeroAlone' /\ ResetIsQuiet'
  BY <1>2 DEF RezeroAlone, ResetIsQuiet, Resetting, Closing, Holding, Holders, TypeOK
<1>6. HeldIntact' /\ NoDanglingEntry'
  BY DEF HeldIntact, NoDanglingEntry, ResetIsQuiet, SlotExclusive, Resetting, Holding, Holders, TypeOK
<1> QED
  BY <1>1, <1>3, <1>4, <1>5, <1>6

\* An entry is linked while its thread holds it, so never during a reset.
LEMMA LinkStep ==
  ASSUME Inductive, NEW t \in Threads, Link(t)
  PROVE  Inductive'
<1> USE SlotCountAssumption, ThreadsAssumption DEF Inductive, Link
<1>1. TypeOK'
  BY TypeStep DEF Next
<1>2. Holders' = Holders /\ Given' = Given
  BY DEF Holders, Holding, Given, TypeOK
<1>3. InRound' /\ SlotExclusive' /\ OneCloser'
  BY DEF InRound, SlotExclusive, OneCloser, Holding, Closing, Resetting, TypeOK
<1>4. HoldersInRound' /\ CountIsSound'
  BY <1>2 DEF HoldersInRound, CountIsSound, TypeOK
<1>5. RezeroAlone' /\ ResetIsQuiet'
  BY <1>2 DEF RezeroAlone, ResetIsQuiet, Resetting, Closing, Holding, Holders, TypeOK
<1>6. HeldIntact' /\ NoDanglingEntry'
  BY DEF HeldIntact, NoDanglingEntry, ResetIsQuiet, SlotExclusive, Resetting, Holding, Holders, TypeOK
<1> QED
  BY <1>1, <1>3, <1>4, <1>5, <1>6

\* Clearing a ready flag changes no owner; the last index goes on to drain.
LEMMA ClearReadyStep ==
  ASSUME Inductive, NEW t \in Threads, ClearReady(t)
  PROVE  Inductive'
<1> USE SlotCountAssumption, ThreadsAssumption DEF Inductive, ClearReady
<1>1. TypeOK'
  BY TypeStep DEF Next
<1>2. Holders' = Holders /\ Given' = Given
  BY DEF Holders, Holding, Given, TypeOK
<1>3. InRound' /\ SlotExclusive' /\ OneCloser'
  BY DEF InRound, SlotExclusive, OneCloser, Holding, Closing, Resetting, TypeOK
<1>4. HoldersInRound' /\ CountIsSound'
  BY <1>2 DEF HoldersInRound, CountIsSound, TypeOK
<1>5. RezeroAlone' /\ ResetIsQuiet'
  BY <1>2 DEF RezeroAlone, ResetIsQuiet, Resetting, Closing, Holding, Holders, TypeOK
<1>6. HeldIntact' /\ NoDanglingEntry'
  BY DEF HeldIntact, NoDanglingEntry, ResetIsQuiet, SlotExclusive, Resetting, Holding, Holders, TypeOK
<1> QED
  BY <1>1, <1>3, <1>4, <1>5, <1>6

\* ht->reset() runs with no entry held.
LEMMA ResetTableStep ==
  ASSUME Inductive, NEW t \in Threads, ResetTable(t)
  PROVE  Inductive'
<1> USE SlotCountAssumption, ThreadsAssumption DEF Inductive, ResetTable
<1>1. TypeOK'
  BY TypeStep DEF Next
<1>2. Holders' = Holders /\ Given' = Given
  BY DEF Holders, Holding, Given, TypeOK
<1>3. InRound' /\ SlotExclusive' /\ OneCloser'
  BY DEF InRound, SlotExclusive, OneCloser, Holding, Closing, Resetting, TypeOK
<1>4. HoldersInRound' /\ CountIsSound'
  BY <1>2 DEF HoldersInRound, CountIsSound, TypeOK
<1>5. RezeroAlone' /\ ResetIsQuiet'
  BY <1>2 DEF RezeroAlone, ResetIsQuiet, Resetting, Closing, Holding, Holders, TypeOK
<1>6. HeldIntact' /\ NoDanglingEntry'
  BY DEF HeldIntact, NoDanglingEntry, ResetIsQuiet, SlotExclusive, Resetting, Holding, Holders, TypeOK
<1> QED
  BY <1>1, <1>3, <1>4, <1>5, <1>6

\* memset runs after the table was emptied, with no entry held.
LEMMA ZeroSlotsStep ==
  ASSUME Inductive, NEW t \in Threads, ZeroSlots(t)
  PROVE  Inductive'
<1> USE SlotCountAssumption, ThreadsAssumption DEF Inductive, ZeroSlots, Empty
<1>1. TypeOK'
  BY TypeStep DEF Next
<1>2. Holders' = Holders /\ Given' = Given
  BY DEF Holders, Holding, Given, TypeOK
<1>3. InRound' /\ SlotExclusive' /\ OneCloser'
  BY DEF InRound, SlotExclusive, OneCloser, Holding, Closing, Resetting, TypeOK
<1>4. HoldersInRound' /\ CountIsSound'
  BY <1>2 DEF HoldersInRound, CountIsSound, TypeOK
<1>5. RezeroAlone' /\ ResetIsQuiet'
  BY <1>2 DEF RezeroAlone, ResetIsQuiet, Resetting, Closing, Holding, Holders, TypeOK
<1>6. HeldIntact' /\ NoDanglingEntry'
  BY DEF HeldIntact, NoDanglingEntry, ResetIsQuiet, SlotExclusive, Resetting, Holding, Holders, TypeOK
<1> QED
  BY <1>1, <1>3, <1>4, <1>5, <1>6


\* An index below SlotCount is fresh: all held ones are below next_free, and
\* there is a closing thread only once the round is used up.
LEMMA ClaimStep ==
  ASSUME Inductive, NEW t \in Threads, Claim(t)
  PROVE  Inductive'
<1> USE SlotCountAssumption, ThreadsAssumption DEF Inductive
<1>1. TypeOK'
  BY TypeStep DEF Next
<1>2. HeldIntact' /\ NoDanglingEntry'
  BY DEF HeldIntact, NoDanglingEntry, Claim, TypeOK
<1>3. CASE next_free < SlotCount
  <2>1. /\ index' = [index EXCEPT ![t] = next_free]
        /\ pc' = [pc EXCEPT ![t] = "fill"]
        /\ next_free' = next_free + 1
        /\ pc[t] \in {"idle", "retry"}
        /\ UNCHANGED <<processed, slot, linked, entry>>
    BY <1>3 DEF Claim, TypeOK
  <2>2. Holders' = Holders \cup {t} /\ t \notin Holders
    BY <2>1 DEF Holders, Holding, TypeOK
  <2>3. Cardinality(Holders') = Cardinality(Holders) + 1
    BY <2>2, HoldersFinite, FS_AddElement
  <2>4. Given = next_free /\ Given' = Given + 1
    BY <1>3, <2>1 DEF Given, TypeOK
  <2>5. \A u \in Threads : ~Resetting(u) /\ ~Closing(u)
    BY <1>3 DEF InRound, Closing, Resetting, TypeOK
  <2>6. InRound' /\ SlotExclusive' /\ OneCloser'
    BY <1>3, <2>1, <2>5
    DEF InRound, SlotExclusive, OneCloser, Holding, Closing, Resetting, TypeOK
  <2>7. HoldersInRound' /\ CountIsSound'
    BY <2>1, <2>3, <2>4, HoldersFinite
    DEF HoldersInRound, CountIsSound, Given, TypeOK
  <2>8. RezeroAlone' /\ ResetIsQuiet'
    BY <2>1, <2>5 DEF RezeroAlone, ResetIsQuiet, Resetting, Closing, Holding, TypeOK
  <2> QED
    BY <1>1, <1>2, <2>6, <2>7, <2>8
<1>4. CASE ~(next_free < SlotCount)
  <2>1. /\ pc' = [pc EXCEPT ![t] = "full"]
        /\ next_free' = next_free + 1
        /\ pc[t] \in {"idle", "retry"}
        /\ UNCHANGED <<processed, slot, linked, index, entry>>
    BY <1>4 DEF Claim, TypeOK
  <2>2. Holders' = Holders /\ Given' = Given
    BY <1>4, <2>1 DEF Holders, Holding, Given, TypeOK
  <2>3. InRound' /\ SlotExclusive' /\ OneCloser'
    BY <1>4, <2>1
    DEF InRound, SlotExclusive, OneCloser, Holding, Closing, Resetting, TypeOK
  <2>4. HoldersInRound' /\ CountIsSound'
    BY <2>1, <2>2 DEF HoldersInRound, CountIsSound, TypeOK
  <2>5. RezeroAlone' /\ ResetIsQuiet'
    BY <2>1, <2>2 DEF RezeroAlone, ResetIsQuiet, Resetting, Closing, Holding, TypeOK
  <2> QED
    BY <1>1, <1>2, <2>3, <2>4, <2>5
<1> QED
  BY <1>3, <1>4

\* One holder less, one entry counted more.
LEMMA MarkProcessedStep ==
  ASSUME Inductive, NEW t \in Threads, MarkProcessed(t)
  PROVE  Inductive'
<1> USE SlotCountAssumption, ThreadsAssumption DEF Inductive
<1>1. TypeOK'
  BY TypeStep DEF Next
<1>2. /\ pc[t] = "held"
      /\ pc' = [pc EXCEPT ![t] = "marked"]
      /\ processed' = processed + 1
      /\ UNCHANGED <<next_free, slot, linked, index>>
  BY DEF MarkProcessed
<1>3. Holders' = Holders \ {t} /\ t \in Holders
  BY <1>2 DEF Holders, Holding, TypeOK
<1>4. Cardinality(Holders') = Cardinality(Holders) - 1
  BY <1>3, HoldersFinite, FS_RemoveElement
<1>5. Given' = Given /\ Given \in Int
  BY <1>2 DEF Given, TypeOK
<1>6. InRound' /\ SlotExclusive' /\ OneCloser'
  BY <1>2 DEF InRound, SlotExclusive, OneCloser, Holding, Closing, Resetting, TypeOK
<1>7. HoldersInRound' /\ CountIsSound'
  BY <1>2, <1>4, <1>5, HoldersFinite DEF HoldersInRound, CountIsSound, TypeOK
<1>8. RezeroAlone'
  BY <1>2 DEF RezeroAlone, Resetting, Closing, Holding, TypeOK
<1>9. ResetIsQuiet'
  BY <1>2, <1>3 DEF ResetIsQuiet, Resetting, TypeOK
<1>10. HeldIntact' /\ NoDanglingEntry'
  BY <1>2 DEF HeldIntact, NoDanglingEntry, TypeOK
<1> QED
  BY <1>1, <1>6, <1>7, <1>8, <1>9, <1>10

\* The full count says that nobody holds an entry: CountIsSound applies,
\* since a thread between the two stores would have made the count larger.
LEMMA DrainStep ==
  ASSUME Inductive, NEW t \in Threads, Drain(t)
  PROVE  Inductive'
<1> USE SlotCountAssumption, ThreadsAssumption DEF Inductive
<1>1. TypeOK'
  BY TypeStep DEF Next
<1>2. /\ pc[t] = "drain"
      /\ pc' = [pc EXCEPT ![t] = "clear"]
      /\ processed = SlotCount
      /\ UNCHANGED <<next_free, processed, slot, linked, index, entry>>
  BY DEF Drain
<1>3. Closing(t) /\ ~Holding(t)
  BY <1>2 DEF InRound, Closing, Holding
<1>4. \A u \in Threads : pc[u] # "rezero"
  BY <1>2, <1>3 DEF RezeroAlone, TypeOK
<1>5. Given <= SlotCount /\ Given \in Int
  BY DEF Given, TypeOK
<1>6. Cardinality(Holders) = 0
  BY <1>2, <1>4, <1>5, HoldersFinite DEF CountIsSound, TypeOK
<1>7. Holders = {}
  BY <1>6, HoldersFinite, FS_EmptySet
<1>8. Holders' = Holders /\ Given' = Given
  BY <1>2 DEF Holders, Holding, Given, TypeOK
<1>9. InRound' /\ SlotExclusive' /\ OneCloser'
  BY <1>2 DEF InRound, SlotExclusive, OneCloser, Holding, Closing, Resetting, TypeOK
<1>10. HoldersInRound' /\ CountIsSound'
  BY <1>2, <1>8 DEF HoldersInRound, CountIsSound, TypeOK
<1>11. RezeroAlone'
  BY <1>2, <1>4 DEF RezeroAlone, TypeOK
<1>12. ResetIsQuiet'
  BY <1>2, <1>7, <1>8 DEF ResetIsQuiet, Resetting, TypeOK
<1>13. HeldIntact' /\ NoDanglingEntry'
  BY <1>2 DEF HeldIntact, NoDanglingEntry, TypeOK
<1> QED
  BY <1>1, <1>9, <1>10, <1>11, <1>12, <1>13

\* The first store opens the next round; it has no holder and no closer.
LEMMA ReopenStep ==
  ASSUME Inductive, NEW t \in Threads, Reopen(t)
  PROVE  Inductive'
<1> USE SlotCountAssumption, ThreadsAssumption DEF Inductive
<1>1. TypeOK'
  BY TypeStep DEF Next
<1>2. /\ pc[t] = "reopen"
      /\ pc' = [pc EXCEPT ![t] = "rezero"]
      /\ next_free' = 0
      /\ UNCHANGED <<processed, slot, linked, index, entry>>
  BY DEF Reopen
<1>3. Holders = {} /\ processed = SlotCount
  BY <1>2 DEF ResetIsQuiet, Resetting
<1>4. Holders' = {}
  BY <1>2, <1>3 DEF Holders, Holding, TypeOK
<1>5. Cardinality(Holders') = 0 /\ Given' = 0
  BY <1>2, <1>4, FS_EmptySet DEF Given
<1>6. Closing(t)
  BY <1>2 DEF InRound, Closing, Resetting
<1>7. \A u \in Threads : u # t => ~Closing(u) /\ ~Resetting(u)
  BY <1>6 DEF OneCloser, InRound, Closing
<1>8. \A u \in Threads : ~Holding(u)' /\ ~Closing(u)' /\ ~Resetting(u)' /\ pc'[u] # "drain"
  BY <1>2, <1>4, <1>7 DEF Holders, Holding, Closing, Resetting, InRound, TypeOK
<1>9. InRound' /\ SlotExclusive' /\ OneCloser'
  BY <1>8 DEF InRound, SlotExclusive, OneCloser
<1>10. HoldersInRound' /\ CountIsSound'
  BY <1>2, <1>5 DEF HoldersInRound, CountIsSound, TypeOK
<1>11. \A u \in Threads : pc[u] # "rezero"
  BY <1>2 DEF RezeroAlone, Resetting
<1>12. RezeroAlone'
  BY <1>2, <1>3, <1>8, <1>11 DEF RezeroAlone, TypeOK
<1>13. ResetIsQuiet'
  BY <1>2, <1>8 DEF ResetIsQuiet, Resetting, TypeOK
<1>14. HeldIntact' /\ NoDanglingEntry'
  BY <1>2 DEF HeldIntact, NoDanglingEntry, TypeOK
<1> QED
  BY <1>1, <1>9, <1>10, <1>12, <1>13, <1>14

\* The second store: whatever it forgets, the count is again below the truth.
LEMMA ResetProcessedStep ==
  ASSUME Inductive, NEW t \in Threads, ResetProcessed(t)
  PROVE  Inductive'
<1> USE SlotCountAssumption, ThreadsAssumption DEF Inductive
<1>1. TypeOK'
  BY TypeStep DEF Next
<1>2. /\ pc[t] = "rezero"
      /\ pc' = [pc EXCEPT ![t] = "idle"]
      /\ processed' = 0
      /\ UNCHANGED <<next_free, slot, linked, index, entry>>
  BY DEF ResetProcessed
<1>3. Holders' = Holders /\ Given' = Given
  BY <1>2 DEF Holders, Holding, Given, TypeOK
<1>4. InRound' /\ SlotExclusive' /\ OneCloser'
  BY <1>2 DEF InRound, SlotExclusive, OneCloser, Holding, Closing, Resetting, TypeOK
<1>5. HoldersInRound' /\ CountIsSound'
  BY <1>2, <1>3, HoldersFinite DEF HoldersInRound, CountIsSound, TypeOK
<1>6. RezeroAlone' /\ ResetIsQuiet'
  BY <1>2, <1>3 DEF RezeroAlone, ResetIsQuiet, Resetting, Closing, Holding, TypeOK
<1>7. HeldIntact' /\ NoDanglingEntry'
  BY <1>2 DEF HeldIntact, NoDanglingEntry, TypeOK
<1> QED
  BY <1>1, <1>4, <1>5, <1>6, <1>7

\* Stuttering.
LEMMA StutterStep ==
  ASSUME Inductive, UNCHANGED vars
  PROVE  Inductive'
<1> USE DEF Inductive, vars
<1>1. Holders' = Holders /\ Given' = Given
  BY DEF Holders, Holding, Given
<1>2. TypeOK' /\ InRound' /\ SlotExclusive' /\ OneCloser'
  BY DEF TypeOK, InRound, SlotExclusive, OneCloser, Holding, Closing, Resetting
<1>3. HoldersInRound' /\ CountIsSound'
  BY <1>1 DEF HoldersInRound, CountIsSound
<1>4. RezeroAlone' /\ ResetIsQuiet'
  BY <1>1 DEF RezeroAlone, ResetIsQuiet, Resetting, Closing, Holding
<1>5. HeldIntact' /\ NoDanglingEntry'
  BY DEF HeldIntact, NoDanglingEntry
<1> QED
  BY <1>2, <1>3, <1>4, <1>5

\* The invariant is inductive, so it holds in every state.
THEOREM InductiveInvariant == Spec => []Inductive
<1>1. Inductive /\ [Next]_vars => Inductive'
  BY ClaimStep, WaitResetStep, FillStep, LinkStep, MarkProcessedStep,
     ClearReadyStep, DrainStep, ResetTableStep, ZeroSlotsStep, ReopenStep,
     ResetProcessedStep, StutterStep
  DEF Next
<1> QED
  BY <1>1, InitInductive, PTL DEF Spec

\* The variables keep their types.
THEOREM TypeCorrect == Spec => []TypeOK
<1>1. Inductive => TypeOK
  BY DEF Inductive
<1> QED
  BY <1>1, InductiveInvariant, PTL

\* No two threads own the same slot, across any number of resets.
THEOREM SlotsAreExclusive == Spec => []SlotExclusive
<1>1. Inductive => SlotExclusive
  BY DEF Inductive
<1> QED
  BY <1>1, InductiveInvariant, PTL

\* No reset and no other thread touches a registered, unfinished entry.
THEOREM EntriesStayIntact == Spec => []HeldIntact
<1>1. Inductive => HeldIntact
  BY DEF Inductive
<1> QED
  BY <1>1, InductiveInvariant, PTL

\* The hash table never points to a cleared slot.
THEOREM TableNeverDangles == Spec => []NoDanglingEntry
<1>1. Inductive => NoDanglingEntry
  BY DEF Inductive
<1> QED
  BY <1>1, InductiveInvariant, PTL

\* processed never runs ahead of the finished entries.
THEOREM CountNeverAhead == Spec => []CountIsSound
<1>1. Inductive => CountIsSound
  BY DEF Inductive
<1> QED
  BY <1>1, InductiveInvariant, PTL

\* A step that leaves the held set and next_free's visible part alone.
LEMMA RoundStutter ==
  ASSUME TypeOK, NEW t \in Threads,
         UNCHANGED <<next_free, index>>,
         NEW label, pc' = [pc EXCEPT ![t] = label],
         Holding(t) <=> label \in {"fill", "link", "held"}
  PROVE  UNCHANGED Rounds!vars
<1>1. Holders' = Holders
  BY DEF Holders, Holding, TypeOK
<1> QED
  BY <1>1 DEF Given, Held, Rounds!vars

\* Every step of the array is a step of the rounds, or invisible to them.
LEMMA RoundStep ==
  ASSUME Inductive, [Next]_vars
  PROVE  [Rounds!Next]_(Rounds!vars)
<1> USE SlotCountAssumption
<1>0. TypeOK
  BY DEF Inductive
<1>1. CASE UNCHANGED vars
  BY <1>1 DEF vars, Given, Held, Holders, Holding, Rounds!vars
<1>2. ASSUME NEW t \in Threads, Claim(t) PROVE [Rounds!Next]_(Rounds!vars)
  <2>1. CASE next_free < SlotCount
    <3>1. /\ index' = [index EXCEPT ![t] = next_free]
          /\ pc' = [pc EXCEPT ![t] = "fill"]
          /\ pc[t] \in {"idle", "retry"}
          /\ next_free' = next_free + 1
      BY <1>0, <1>2, <2>1 DEF Claim, TypeOK
    <3>2. Holders' = Holders \cup {t} /\ t \notin Holders
      BY <1>0, <3>1 DEF Holders, Holding, TypeOK
    <3>3. \A u \in Holders : u \in Threads /\ index'[u] = index[u]
      BY <1>0, <3>1, <3>2 DEF Holders, TypeOK
    <3>4. index'[t] = next_free
      BY <1>0, <3>1 DEF TypeOK
    <3>5. Held' = Held \cup {next_free}
      BY <3>2, <3>3, <3>4 DEF Held
    <3>6. Given = next_free /\ Given' = Given + 1 /\ Given < SlotCount
      BY <1>0, <2>1, <3>1 DEF Given, TypeOK
    <3> QED
      BY <3>5, <3>6 DEF Rounds!Next, Rounds!Take
  <2>2. CASE ~(next_free < SlotCount)
    <3>1. /\ pc' = [pc EXCEPT ![t] = "full"]
          /\ pc[t] \in {"idle", "retry"}
          /\ next_free' = next_free + 1
          /\ index' = index
      BY <1>0, <1>2, <2>2 DEF Claim, TypeOK
    <3>2. Holders' = Holders
      BY <1>0, <3>1 DEF Holders, Holding, TypeOK
    <3>3. Given' = Given
      BY <1>0, <2>2, <3>1 DEF Given, TypeOK
    <3> QED
      BY <3>1, <3>2, <3>3 DEF Held, Rounds!vars
  <2> QED
    BY <2>1, <2>2
<1>3. ASSUME NEW t \in Threads, MarkProcessed(t) PROVE [Rounds!Next]_(Rounds!vars)
  <2>1. /\ pc[t] = "held" /\ pc' = [pc EXCEPT ![t] = "marked"]
        /\ UNCHANGED <<next_free, index>>
    BY <1>3 DEF MarkProcessed
  <2>2. Holders' = Holders \ {t} /\ t \in Holders
    BY <1>0, <2>1 DEF Holders, Holding, TypeOK
  <2>3. \A u \in Holders : u # t => index[u] # index[t]
    BY <2>1, <2>2 DEF Inductive, SlotExclusive, Holders
  <2>4. Held' = Held \ {index[t]} /\ index[t] \in Held
    BY <2>1, <2>2, <2>3 DEF Held
  <2>5. Given' = Given
    BY <2>1 DEF Given
  <2> QED
    BY <2>4, <2>5 DEF Rounds!Next, Rounds!GiveBack
<1>4. ASSUME NEW t \in Threads, Reopen(t) PROVE [Rounds!Next]_(Rounds!vars)
  <2>1. /\ pc[t] = "reopen" /\ pc' = [pc EXCEPT ![t] = "rezero"]
        /\ next_free' = 0 /\ index' = index
    BY <1>4 DEF Reopen
  <2>2. Holders = {}
    BY <2>1 DEF Inductive, ResetIsQuiet, Resetting
  <2>3. Holders' = {}
    BY <1>0, <2>1, <2>2 DEF Holders, Holding, TypeOK
  <2>4. next_free >= SlotCount
    BY <2>1 DEF Inductive, InRound, Closing, Resetting
  <2>5. Given = SlotCount /\ Given' = 0
    BY <1>0, <2>1, <2>4 DEF Given, TypeOK
  <2>6. Held = {} /\ Held' = {}
    BY <2>2, <2>3 DEF Held
  <2> QED
    BY <2>5, <2>6 DEF Rounds!Next, Rounds!NewRound
<1>5. ASSUME NEW t \in Threads,
             \/ WaitReset(t) \/ Fill(t) \/ Link(t) \/ ClearReady(t) \/ Drain(t)
             \/ ResetTable(t) \/ ZeroSlots(t) \/ ResetProcessed(t)
      PROVE  UNCHANGED Rounds!vars
  BY <1>0, <1>5, RoundStutter
  DEF WaitReset, Fill, Link, ClearReady, Drain, ResetTable, ZeroSlots,
      ResetProcessed, Holding
<1> QED
  BY <1>1, <1>2, <1>3, <1>4, <1>5 DEF Next

\* The array implements the rounds.
THEOREM ImplementsRounds == Spec => RefinesRounds
<1>1. Init => Rounds!Init
  BY SlotCountAssumption DEF Init, Rounds!Init, Given, Held, Holders, Holding
<1> QED
  BY <1>1, RoundStep, InductiveInvariant, PTL
  DEF Spec, RefinesRounds, Rounds!Spec
===============================================================================
