--------------------------- MODULE LockfreeMapProofs ---------------------------
(***************************************************************************)
(* Proofs about LockfreeMap: for any number of entries and any hash values *)
(* the list stays sorted; and as long as no two keys share the bucket, its *)
(* pointers spell the versions of the key, every writer finds the newest,  *)
(* and the log never goes back.                                            *)
(***************************************************************************)
EXTENDS LockfreeMap, TLAPS

\* Where a writer is once its entry has become a version.
Inserted == {"linked", "walk", "follow", "log", "done", "abort"}
\* Where it holds writer_lock; the assertion, if it fails, fails there.
Locked == {"walk", "follow", "log", "abort"}

\* A cell that may be met in the list.
Placed(n) == n = ListHead \/ (n \in Cells /\ pc[n] \in Inserted)

(***************************************************************************)
(* The list, and what a search knows of it.                                *)
(***************************************************************************)
\* A pointer out of n leads to an entry of a higher key, or, if it is a
\* replaced entry's, perhaps of the same key.
Leads(n, m) ==
  /\ Placed(m.ref)
  /\ n \in Cells /\ m.ref \in Cells =>
       Hash[n] <= Hash[m.ref] /\ (m.mark # "del" => Hash[n] < Hash[m.ref])

Sorted ==
  /\ next[ListHead].mark = "none"
  /\ \A n \in Nodes : Placed(n) => Leads(n, next[n])

\* The new entry c may come behind n.
Behind(n, c) ==
  /\ Placed(n)
  /\ n \in Cells => Hash[n] < Hash[c] \/ (Hash[n] = Hash[c] /\ next[n].mark = "del")

\* The new entry c may come in front of n.
Before(c, n) == Placed(n) /\ (n \in Cells => Hash[c] < Hash[n])

\* By where the writer of c is.
AtPrev(c) == pc[c] \in {"first", "next", "loop", "pass", "insert"} => Behind(prev[c], c)
AtCurr(c) ==
  /\ pc[c] \in {"next", "loop", "walk", "follow"} => Placed(curr[c])
  /\ pc[c] \in {"loop", "pass"} => Placed(curr_next[c].ref)
  /\ pc[c] = "pass" => curr[c] \in Cells /\ Behind(curr[c], c)
  /\ pc[c] = "log" => curr[c] \in Cells
AtRight(c) ==
  /\ pc[c] = "insert" => right[c].mark # "del" /\ Before(c, right[c].ref)
  /\ pc[c] = "replace" => /\ right[c].mark = "none" /\ Before(c, right[c].ref)
                          /\ Placed(prev[c]) /\ prev[c] \in Cells /\ Hash[prev[c]] = Hash[c]

Types ==
  /\ next \in [Nodes -> Pointers]
  /\ pc \in [Cells -> Labels]
  /\ prev \in [Cells -> Nodes]
  /\ prev_next \in [Cells -> Pointers] /\ curr_next \in [Cells -> Pointers]
  /\ right \in [Cells -> Pointers] /\ curr \in [Cells -> Nodes]

ListInv == Types /\ Sorted /\ \A c \in Cells : AtPrev(c) /\ AtCurr(c) /\ AtRight(c)
\* At first the list is empty and everybody searches.
LEMMA ListInit == Init => ListInv
  <1> SUFFICES ASSUME Init PROVE ListInv
    OBVIOUS
  <1>1. Types
    BY DEF Init, Types, Pointers, Ptr, Marks, Nodes, Labels, SearchLabels
  <1>2. \A n \in Cells : ~Placed(n)
    BY CellsAssumption DEF Init, Placed, Inserted
  <1>3. Sorted
    <2>1. next[ListHead] = Ptr(ListHead)
      BY DEF Init, Nodes
    <2> QED BY <1>2, <2>1, CellsAssumption DEF Sorted, Leads, Ptr, Placed, Nodes
  <1>4. \A c \in Cells : AtPrev(c) /\ AtCurr(c) /\ AtRight(c)
    BY DEF Init, AtPrev, AtCurr, AtRight
  <1> QED BY <1>1, <1>3, <1>4 DEF ListInv

\* A step of c: only its own locals change, the list keeps its entries and
\* their deletion marks.
MovesOnly(c) ==
  /\ \A d \in Cells \ {c} :
       /\ pc'[d] = pc[d] /\ prev'[d] = prev[d] /\ curr'[d] = curr[d]
       /\ curr_next'[d] = curr_next[d] /\ right'[d] = right[d]
  /\ pc[c] \in Inserted => pc'[c] \in Inserted
  /\ \A n \in Cells : Placed(n) /\ next[n].mark = "del" => next'[n].mark = "del"

\* What the others know of the list remains true.
LEMMA OthersKept ==
  ASSUME NEW c \in Cells, MovesOnly(c), NEW d \in Cells \ {c}, AtPrev(d), AtCurr(d), AtRight(d)
  PROVE  AtPrev(d)' /\ AtCurr(d)' /\ AtRight(d)'
  <1>1. \A n : Placed(n) => Placed(n)'
    BY DEF MovesOnly, Placed
  <1>2. \A n : Behind(n, d) => Behind(n, d)'
    BY <1>1 DEF Behind, MovesOnly
  <1>3. \A n : Before(d, n) => Before(d, n)'
    BY <1>1 DEF Before
  <1>4. /\ pc'[d] = pc[d] /\ prev'[d] = prev[d] /\ curr'[d] = curr[d]
        /\ curr_next'[d] = curr_next[d] /\ right'[d] = right[d]
    BY DEF MovesOnly
  <1>5. AtPrev(d)'
    BY <1>2, <1>4 DEF AtPrev
  <1>6. AtCurr(d)'
    BY <1>1, <1>2, <1>4 DEF AtCurr
  <1>7. AtRight(d)'
    BY <1>1, <1>3, <1>4 DEF AtRight
  <1> QED BY <1>5, <1>6, <1>7

\* A step that reads the list.
LEMMA ReadsKeep ==
  ASSUME ListInv, NEW c \in Cells, MovesOnly(c), UNCHANGED next,
         pc'[c] \in Inserted => pc[c] \in Inserted,
         Types', (AtPrev(c) /\ AtCurr(c) /\ AtRight(c))'
  PROVE  ListInv'
  <1>1. \A n : Placed(n)' <=> Placed(n)
    BY DEF MovesOnly, Placed
  <1>2. \A n, m : Leads(n, m)' <=> Leads(n, m)
    BY <1>1 DEF Leads
  <1>3. Sorted'
    BY <1>1, <1>2 DEF ListInv, Sorted
  <1>4. \A d \in Cells \ {c} : (AtPrev(d) /\ AtCurr(d) /\ AtRight(d))'
    BY OthersKept DEF ListInv
  <1> QED BY <1>3, <1>4 DEF ListInv

\* Pointers are made of cells and marks.
LEMMA PointersAre ==
  /\ \A n \in Nodes \cup {NoCell} : Ptr(n) \in Pointers /\ Del(n) \in Pointers /\ Prot(n) \in Pointers
  /\ \A m \in Pointers : m.ref \in Nodes \cup {NoCell} /\ m.mark \in Marks
  /\ \A n : /\ Ptr(n).ref = n /\ Ptr(n).mark = "none" /\ Del(n).ref = n /\ Del(n).mark = "del"
            /\ Prot(n).ref = n /\ Prot(n).mark = "prot"
  BY DEF Pointers, Ptr, Del, Prot, Marks

\* What is placed is a cell or the head.
LEMMA PlacedIs ==
  /\ \A n : Placed(n) => n \in Nodes
  /\ ListHead \in Nodes /\ ListHead \notin Cells /\ Cells \subseteq Nodes
  BY CellsAssumption DEF Placed, Nodes
\* A search that goes on stays behind its own key.
LEMMA SearchStep ==
  ASSUME ListInv, NEW c \in Cells,
         ReadHead(c) \/ ReadFirst(c) \/ ReadNext(c) \/ SkipDeleted(c) \/ Pass(c)
  PROVE  ListInv'
  <1> USE DEF ListInv
  <1>1. MovesOnly(c) /\ UNCHANGED next /\ pc'[c] \notin Inserted
    BY DEF ReadHead, ReadFirst, ReadNext, SkipDeleted, Pass, Goto, MovesOnly, Types, Inserted, InLoop
  <1>2. \A n : (Placed(n) => Placed(n)') /\ (Behind(n, c) => Behind(n, c)')
    BY <1>1 DEF MovesOnly, Placed, Behind
  <1>3. Placed(next[ListHead].ref)
    BY PlacedIs DEF Sorted, Leads, Placed
  <1>4. CASE ReadHead(c)
    <2>1. Types'
      BY <1>4, PlacedIs DEF ReadHead, Goto, Types, Labels, SearchLabels
    <2>2. pc'[c] = "first" /\ prev'[c] = ListHead
      BY <1>4 DEF ReadHead, Goto, Types
    <2>3. Behind(ListHead, c)'
      BY PlacedIs DEF Behind, Placed
    <2> QED BY <1>1, <2>1, <2>2, <2>3, ReadsKeep DEF AtPrev, AtCurr, AtRight
  <1>5. CASE ReadFirst(c)
    <2>1. Types'
      BY <1>3, <1>5, PlacedIs DEF ReadFirst, Goto, Types, Labels, SearchLabels
    <2>2. pc[c] = "first" /\ pc'[c] = "next" /\ curr'[c] = next[ListHead].ref /\ prev'[c] = prev[c]
      BY <1>5 DEF ReadFirst, Goto, Types
    <2>3. Behind(prev[c], c)'
      BY <1>2, <2>2 DEF AtPrev
    <2> QED BY <1>1, <1>2, <1>3, <2>1, <2>2, <2>3, ReadsKeep DEF AtPrev, AtCurr, AtRight
  <1>6. CASE ReadNext(c)
    <2>1. Types'
      BY <1>6 DEF ReadNext, Goto, Types, Labels, SearchLabels
    <2>2. pc[c] = "next" /\ pc'[c] = "loop" /\ curr_next'[c] = next[curr[c]] /\ UNCHANGED <<prev, curr>>
      BY <1>6 DEF ReadNext, Goto, Types
    <2>3. Behind(prev[c], c)' /\ Placed(curr[c])
      BY <1>2, <2>2 DEF AtPrev, AtCurr
    <2>4. Placed(next[curr[c]].ref)
      BY <2>3, PlacedIs DEF Sorted, Leads
    <2> QED BY <1>1, <1>2, <2>1, <2>2, <2>3, <2>4, ReadsKeep DEF AtPrev, AtCurr, AtRight
  <1>7. CASE SkipDeleted(c)
    <2>1. /\ pc[c] = "loop" /\ pc'[c] = "next" /\ UNCHANGED <<prev, prev_next, curr_next, right>>
          /\ curr' = [curr EXCEPT ![c] = curr_next[c].ref]
      BY <1>7 DEF SkipDeleted, InLoop, Goto, Types
    <2>2. Behind(prev[c], c)' /\ Placed(curr_next[c].ref)
      BY <1>2, <2>1 DEF AtPrev, AtCurr
    <2>3. Types'
      BY <1>1, <1>7, <2>1, <2>2, PlacedIs DEF SkipDeleted, Goto, Types, Labels, SearchLabels
    <2>4. curr'[c] = curr_next[c].ref
      BY <2>1 DEF Types
    <2> QED BY <1>1, <1>2, <2>1, <2>2, <2>3, <2>4, ReadsKeep DEF AtPrev, AtCurr, AtRight
  <1>8. CASE Pass(c)
    <2>1. /\ pc'[c] = "next" /\ UNCHANGED <<curr_next, right>>
          /\ curr' = [curr EXCEPT ![c] = curr_next[c].ref]
          /\ prev' = [prev EXCEPT ![c] = curr[c]]
          /\ pc[c] \in {"loop", "pass"}
      BY <1>8 DEF Pass, InLoop, Goto, Types
    <2>2. Behind(curr[c], c) /\ Placed(curr_next[c].ref)
      BY <1>8, <2>1 DEF Pass, InLoop, AtCurr, Behind
    <2>3. Types'
      BY <1>1, <1>8, <2>1, <2>2, PlacedIs DEF Pass, Goto, Types, Labels, SearchLabels
    <2>4. curr'[c] = curr_next[c].ref /\ prev'[c] = curr[c]
      BY <2>1 DEF Types
    <2> QED BY <1>1, <1>2, <2>1, <2>2, <2>3, <2>4, ReadsKeep DEF AtPrev, AtCurr, AtRight
  <1> QED BY <1>4, <1>5, <1>6, <1>7, <1>8
\* An entry of the key is protected, or was replaced in the meantime.
LEMMA ProtectStep == ASSUME ListInv, NEW c \in Cells, Protect(c) PROVE ListInv'
  <1> USE DEF ListInv
  <1>1. PICK n \in Cells : n = curr[c] /\ pc[c] = "loop" /\ Placed(n) /\ Hash[n] = Hash[c]
    BY PlacedIs DEF Protect, InLoop, AtCurr, Nodes, Types
  <1>2. PICK m \in Pointers : m = curr_next[c] /\ m.mark # "del" /\ Placed(m.ref)
    BY <1>1 DEF Protect, AtCurr, Types
  <1>3. PICK orig \in Pointers : orig = next[n]
    BY <1>1, PlacedIs DEF Types
  <1>4. Leads(n, orig) /\ m.ref \in Nodes
    BY <1>1, <1>2, <1>3, PlacedIs DEF Sorted
  <1>5. CASE orig \in {m, Prot(m.ref)}
    <2>1. /\ next' = [next EXCEPT ![n] = Prot(m.ref)] /\ prev' = [prev EXCEPT ![c] = n]
          /\ right' = [right EXCEPT ![c] = Ptr(m.ref)] /\ pc' = [pc EXCEPT ![c] = "replace"]
          /\ UNCHANGED <<curr_next, prev_next, curr>>
      BY <1>1, <1>2, <1>3, <1>5 DEF Protect, Goto
    <2>2. orig.ref = m.ref /\ orig.mark # "del"
      BY <1>2, <1>5, PointersAre
    <2>3. Types'
      BY <1>1, <1>4, <2>1, PointersAre, PlacedIs DEF Types, Labels
    <2>4. MovesOnly(c)
      BY <1>1, <1>3, <2>1, <2>2, PlacedIs DEF MovesOnly, Types, Inserted
    <2>5. \A x : Placed(x)' <=> Placed(x)
      BY <1>1, <2>1 DEF Placed, Types, Inserted
    <2>6. \A x \in Nodes : x # n => next'[x] = next[x]
      BY <2>1 DEF Types
    <2>7. next'[n] = Prot(m.ref)
      BY <1>1, <2>1, PlacedIs DEF Types
    <2>8. Leads(n, Prot(m.ref))'
      BY <1>4, <2>2, <2>5, PointersAre DEF Leads
    <2>9. Sorted'
      BY <1>1, <2>5, <2>6, <2>7, <2>8, PlacedIs DEF Sorted, Leads
    <2>10. pc'[c] = "replace" /\ prev'[c] = n /\ right'[c] = Ptr(m.ref)
      BY <2>1 DEF Types
    <2>11. Before(c, m.ref)'
      BY <1>1, <1>4, <2>2, <2>5, PlacedIs DEF Before, Leads
    <2>12. (AtPrev(c) /\ AtCurr(c) /\ AtRight(c))'
      BY <1>1, <2>5, <2>10, <2>11, PointersAre DEF AtPrev, AtCurr, AtRight
    <2>13. \A d \in Cells \ {c} : (AtPrev(d) /\ AtCurr(d) /\ AtRight(d))'
      BY <2>4, OthersKept
    <2> QED BY <2>3, <2>9, <2>12, <2>13
  <1>6. CASE orig \notin {m, Prot(m.ref)}
    <2>1. PICK label \in {"pass", "loop"} : pc' = [pc EXCEPT ![c] = label] /\ (label = "pass" => orig.mark = "del")
      BY <1>1, <1>2, <1>3, <1>6 DEF Protect, Goto
    <2>2. curr_next' = [curr_next EXCEPT ![c] = orig] /\ UNCHANGED <<next, prev, right, prev_next, curr>>
      BY <1>1, <1>2, <1>3, <1>6 DEF Protect
    <2>3. Types'
      BY <2>1, <2>2 DEF Types, Labels, SearchLabels
    <2>4. MovesOnly(c) /\ pc'[c] \notin Inserted
      BY <1>1, <2>1, <2>2 DEF MovesOnly, Types, Inserted
    <2>5. pc'[c] = label /\ curr_next'[c] = orig /\ curr'[c] = n /\ prev'[c] = prev[c]
      BY <1>1, <2>1, <2>2 DEF Types
    <2>6. \A x : Placed(x) => Placed(x)'
      BY <2>4 DEF Placed, MovesOnly
    <2>7. Behind(prev[c], c)' /\ Placed(n)' /\ Placed(orig.ref)'
      BY <1>1, <1>4, <2>2, <2>6 DEF AtPrev, Behind, Leads
    <2>8. label = "pass" => Behind(n, c)'
      BY <1>1, <1>3, <2>1, <2>2, <2>7 DEF Behind
    <2>9. (AtPrev(c) /\ AtCurr(c) /\ AtRight(c))'
      BY <2>5, <2>7, <2>8 DEF AtPrev, AtCurr, AtRight
    <2> QED BY <2>2, <2>3, <2>4, <2>9, ReadsKeep
  <1> QED BY <1>5, <1>6

\* What is unlinked lies between an entry of a lower key and one of a higher.
LEMMA ExitStep == ASSUME ListInv, NEW c \in Cells, ExitSearch(c) PROVE ListInv'
  <1> USE DEF ListInv
  <1>1. PICK n \in Nodes : n = curr[c] /\ pc[c] = "loop" /\ Placed(n) /\ Before(c, n)
    <2>1. pc[c] = "loop" /\ Placed(curr[c]) /\ curr[c] \in Nodes
      BY PlacedIs DEF ExitSearch, AtCurr
    <2>2. curr[c] \in Cells => Hash[c] < Hash[curr[c]]
      BY <2>1, HashAssumption, PlacedIs DEF ExitSearch, InLoop
    <2> QED BY <2>1, <2>2 DEF Before
  <1>2. PICK p \in Nodes : p = prev[c] /\ Behind(p, c)
    BY <1>1, PlacedIs DEF AtPrev, Types
  <1>3. /\ right' = [right EXCEPT ![c] = Ptr(n)] /\ pc' = [pc EXCEPT ![c] = "insert"]
        /\ UNCHANGED <<prev, prev_next, curr, curr_next>>
    BY <1>1 DEF ExitSearch, Goto
  <1>4. next' = next \/ next' = [next EXCEPT ![p].ref = n]
    BY <1>1, <1>2 DEF ExitSearch
  <1>5. /\ \A x \in Nodes : next'[x].mark = next[x].mark
        /\ \A x \in Nodes : x # p => next'[x] = next[x]
        /\ next'[p].ref = n \/ next'[p] = next[p]
        /\ next' \in [Nodes -> Pointers]
    <2>1. CASE next' = next
      BY <2>1 DEF Types
    <2>2. CASE next' = [next EXCEPT ![p].ref = n]
      <3>1. next[p] \in Pointers
        BY DEF Types
      <3>2. PICK m \in Pointers : m = [next[p] EXCEPT !.ref = n] /\ m.ref = n /\ m.mark = next[p].mark
        <4>1. PICK m : m = [next[p] EXCEPT !.ref = n]
          OBVIOUS
        <4>2. m.ref = n /\ m.mark = next[p].mark
          BY <3>1, <4>1 DEF Pointers
        <4>3. m \in Pointers
          BY <3>1, <4>1 DEF Pointers
        <4> QED BY <4>1, <4>2, <4>3
      <3>3. next' = [next EXCEPT ![p] = m]
        BY <2>2, <3>2
      <3> QED BY <3>2, <3>3 DEF Types
    <2> QED BY <1>4, <2>1, <2>2
  <1>6. Types'
    BY <1>3, <1>5, PointersAre DEF Types, Labels
  <1>7. MovesOnly(c)
    BY <1>1, <1>3, <1>5, PlacedIs DEF MovesOnly, Types, Inserted
  <1>8. \A x : Placed(x)' <=> Placed(x)
    BY <1>1, <1>3 DEF Placed, Types, Inserted
  <1>9. next'[p].ref = n => Leads(p, next'[p])
    <2>1. p \in Cells /\ n \in Cells => Hash[p] < Hash[n]
      BY <1>1, <1>2, HashAssumption DEF Behind, Before
    <2>2. p \in Cells /\ n \in Cells => Hash[p] <= Hash[n]
      BY <2>1, HashAssumption
    <2> QED BY <1>1, <2>1, <2>2 DEF Leads
  <1>10. \A x \in Nodes : Placed(x) => Leads(x, next'[x])
    BY <1>5, <1>9 DEF Sorted
  <1>11. Sorted'
    <2>1. \A x \in Nodes : Placed(x)' => Leads(x, next[x])'
      BY <1>8, <1>10 DEF Leads
    <2>2. next'[ListHead].mark = "none"
      BY <1>5, PlacedIs DEF Sorted
    <2> QED BY <2>1, <2>2 DEF Sorted
  <1>12. pc'[c] = "insert" /\ prev'[c] = p /\ right'[c] = Ptr(n)
    BY <1>2, <1>3 DEF Types
  <1>13. Behind(p, c)' /\ Before(c, n)'
    BY <1>1, <1>2, <1>5, <1>8, PlacedIs DEF Behind, Before
  <1>14. (AtPrev(c) /\ AtCurr(c) /\ AtRight(c))'
    BY <1>12, <1>13, PointersAre DEF AtPrev, AtCurr, AtRight
  <1>15. \A d \in Cells \ {c} : (AtPrev(d) /\ AtCurr(d) /\ AtRight(d))'
    BY <1>7, OthersKept
  <1> QED BY <1>6, <1>11, <1>14, <1>15
\* The new entry c comes between p, whose pointer now is q, and what its own
\* pointer m leads to.
LEMMA ListTakes ==
  ASSUME ListInv, NEW c \in Cells, pc[c] \notin Inserted, NEW p \in Nodes, NEW m \in Pointers, NEW q \in Pointers,
         Placed(p), Before(c, m.ref), m.mark # "del", q.ref = c, next[p].mark # "del",
         p = ListHead => q.mark = "none",
         p \in Cells => Hash[p] <= Hash[c] /\ (q.mark # "del" => Hash[p] < Hash[c]),
         next' = [next EXCEPT ![c] = m, ![p] = q], pc' = [pc EXCEPT ![c] = "linked"],
         right' \in [Cells -> Pointers], \A d \in Cells \ {c} : right'[d] = right[d],
         UNCHANGED search_vars
  PROVE  ListInv'
  <1> USE DEF ListInv
  <1>1. p # c
    BY CellsAssumption DEF Placed
  <1>2. next'[c] = m /\ next'[p] = q /\ \A x \in Nodes : x # c /\ x # p => next'[x] = next[x]
    BY <1>1, PlacedIs DEF Types
  <1>3. Types'
    BY PlacedIs DEF Types, Labels, search_vars
  <1>4. pc'[c] = "linked" /\ \A x : Placed(x)' <=> Placed(x) \/ x = c
    BY DEF Placed, Types, Inserted
  <1>5. MovesOnly(c)
    <2>1. \A d \in Cells \ {c} : pc'[d] = pc[d]
      BY DEF Types
    <2>2. \A n \in Cells : Placed(n) => n # c
      BY CellsAssumption DEF Placed
    <2>3. \A n \in Cells : Placed(n) /\ next[n].mark = "del" => next'[n].mark = "del"
      BY <1>2, <2>2, PlacedIs
    <2> QED BY <1>4, <2>1, <2>3 DEF MovesOnly, search_vars, Inserted
  <1>6. Leads(c, m)'
    BY <1>4, HashAssumption DEF Before, Leads
  <1>7. Leads(p, q)'
    BY <1>4 DEF Leads
  <1>8. \A x \in Nodes : Placed(x) => Leads(x, next[x])
    BY DEF Sorted
  <1>9. \A x, y : Leads(x, y) => Leads(x, y)'
    BY <1>4 DEF Leads
  <1>10. Sorted'
    <2>1. ASSUME NEW x \in Nodes, Placed(x)' PROVE Leads(x, next[x])'
      <3>1. CASE x = c
        BY <1>2, <1>6, <3>1
      <3>2. CASE x = p
        BY <1>2, <1>7, <3>2
      <3>3. CASE x # c /\ x # p
        <4>1. Leads(x, next[x]) /\ next'[x] = next[x]
          BY <1>2, <1>4, <1>8, <2>1, <3>3
        <4>2. PICK y : y = next[x]
          OBVIOUS
        <4>3. Leads(x, y)'
          BY <1>9, <4>1, <4>2
        <4> QED BY <4>1, <4>2, <4>3
      <3> QED BY <3>1, <3>2, <3>3
    <2>2. next'[ListHead].mark = "none"
      BY <1>2, CellsAssumption, PlacedIs DEF Sorted
    <2> QED BY <2>1, <2>2 DEF Sorted
  <1>11. (AtPrev(c) /\ AtCurr(c) /\ AtRight(c))'
    BY <1>4 DEF AtPrev, AtCurr, AtRight
  <1>12. \A d \in Cells \ {c} : (AtPrev(d) /\ AtCurr(d) /\ AtRight(d))'
    BY <1>5, OthersKept
  <1> QED BY <1>3, <1>10, <1>11, <1>12

\* A try that failed changes nothing but the writer's own locals.
LEMMA InsertStep == ASSUME ListInv, NEW c \in Cells, Insert(c) PROVE ListInv'
  <1> USE DEF ListInv
  <1>1. PICK p \in Nodes, m \in Pointers, orig \in Pointers :
          p = prev[c] /\ m = right[c] /\ orig = next[p]
    BY DEF Types
  <1>2. /\ pc[c] = "insert" /\ Behind(p, c) /\ m.mark # "del" /\ Before(c, m.ref)
        /\ UNCHANGED search_vars
    BY <1>1 DEF Insert, AtPrev, AtRight
  <1>3. CASE orig = m
    <2>1. /\ next' = [next EXCEPT ![c] = m, ![p] = Ptr(c)] /\ pc' = [pc EXCEPT ![c] = "linked"]
          /\ right' = right
      BY <1>1, <1>3 DEF Insert, Spliced, Linked, Goto
    <2>2. Ptr(c) \in Pointers /\ Ptr(c).ref = c /\ Ptr(c).mark = "none"
      BY PointersAre, PlacedIs
    <2>3. next[p].mark # "del" /\ (p \in Cells => Hash[p] < Hash[c] /\ Hash[p] <= Hash[c])
      BY <1>1, <1>2, <1>3, HashAssumption DEF Behind
    <2> QED BY <1>1, <1>2, <2>1, <2>2, <2>3, ListTakes DEF Behind, Types, Inserted
  <1>4. CASE orig # m
    <2>1. UNCHANGED next
      BY <1>1, <1>4 DEF Insert
    <2>2. \/ pc' = pc /\ right' = [right EXCEPT ![c] = orig] /\ orig = Prot(m.ref)
          \/ pc' = [pc EXCEPT ![c] = "search"] /\ right' = right
      BY <1>1, <1>2, <1>4 DEF Insert, Goto
    <2>3. Types'
      BY <1>2, <2>1, <2>2 DEF Types, Labels, SearchLabels, search_vars
    <2>4. MovesOnly(c) /\ pc'[c] \notin Inserted
      BY <1>2, <2>1, <2>2 DEF MovesOnly, Types, Inserted, search_vars
    <2>5. \A x : Placed(x) => Placed(x)'
      BY <2>4 DEF Placed, MovesOnly
    <2>6. Behind(p, c)' /\ Before(c, m.ref)'
      BY <1>2, <2>1, <2>5 DEF Behind, Before
    <2>7. (AtPrev(c) /\ AtCurr(c) /\ AtRight(c))'
      <3>1. CASE pc' = pc /\ right' = [right EXCEPT ![c] = orig] /\ orig = Prot(m.ref)
        <4>1. pc'[c] = "insert" /\ prev'[c] = p /\ right'[c] = Prot(m.ref)
          BY <1>1, <1>2, <3>1 DEF Types, search_vars
        <4> QED BY <2>6, <4>1, PointersAre DEF AtPrev, AtCurr, AtRight
      <3>2. CASE pc' = [pc EXCEPT ![c] = "search"]
        <4>1. pc'[c] = "search"
          BY <3>2 DEF Types
        <4> QED BY <4>1 DEF AtPrev, AtCurr, AtRight
      <3> QED BY <2>2, <3>1, <3>2
    <2> QED BY <2>1, <2>3, <2>4, <2>7, ReadsKeep
  <1> QED BY <1>3, <1>4

\* An entry is replaced in front of a higher key, where it was.
LEMMA ReplaceStep == ASSUME ListInv, NEW c \in Cells, Replace(c) PROVE ListInv'
  <1> USE DEF ListInv
  <1>1. PICK p \in Nodes, m \in Pointers, orig \in Pointers :
          p = prev[c] /\ m = right[c] /\ orig = next[p]
    BY DEF Types
  <1>2. /\ pc[c] = "replace" /\ p \in Cells /\ Placed(p) /\ Hash[p] = Hash[c]
        /\ m.mark = "none" /\ Before(c, m.ref) /\ UNCHANGED search_vars
    BY <1>1 DEF Replace, AtRight
  <1>3. CASE orig = Prot(m.ref)
    <2>1. /\ next' = [next EXCEPT ![c] = m, ![p] = Del(c)] /\ pc' = [pc EXCEPT ![c] = "linked"]
          /\ right' = right
      BY <1>1, <1>3, PointersAre DEF Replace, Switched, Linked, Goto
    <2>2. Del(c) \in Pointers /\ Del(c).ref = c /\ Del(c).mark = "del" /\ next[p].mark # "del"
      BY <1>1, <1>3, PointersAre, PlacedIs
    <2>3. Hash[p] <= Hash[c] /\ p # ListHead
      BY <1>2, HashAssumption, PlacedIs
    <2> QED BY <1>1, <1>2, <2>1, <2>2, <2>3, ListTakes DEF Types, Inserted
  <1>4. CASE orig # Prot(m.ref)
    <2>1. UNCHANGED next
      BY <1>1, <1>4 DEF Replace
    <2>2. \/ pc' = pc /\ right' = [right EXCEPT ![c] = Ptr(orig.ref)] /\ orig.mark = "prot"
          \/ pc' = [pc EXCEPT ![c] = "search"] /\ right' = right
      BY <1>1, <1>2, <1>4 DEF Replace, Retry, Goto
    <2>3. Types'
      <3>1. Ptr(orig.ref) \in Pointers /\ "search" \in Labels
        BY PointersAre DEF Labels, SearchLabels
      <3>2. right' \in [Cells -> Pointers] /\ pc' \in [Cells -> Labels]
        BY <2>2, <3>1 DEF Types
      <3> QED BY <1>2, <2>1, <3>2 DEF Types, search_vars
    <2>4. MovesOnly(c) /\ pc'[c] \notin Inserted
      BY <1>2, <2>1, <2>2 DEF MovesOnly, Types, Inserted, search_vars
    <2>5. \A x : Placed(x) => Placed(x)'
      BY <2>4 DEF Placed, MovesOnly
    <2>6. (AtPrev(c) /\ AtCurr(c) /\ AtRight(c))'
      <3>1. CASE pc' = pc /\ right' = [right EXCEPT ![c] = Ptr(orig.ref)] /\ orig.mark = "prot"
        <4>1. pc'[c] = "replace" /\ prev'[c] = p /\ right'[c] = Ptr(orig.ref)
          BY <1>1, <1>2, <3>1 DEF Types, search_vars
        <4>2. Leads(p, orig)
          BY <1>1, <1>2 DEF Sorted
        <4>3. Before(c, orig.ref)'
          BY <1>2, <2>5, <3>1, <4>2 DEF Leads, Before
        <4> QED BY <1>2, <2>5, <4>1, <4>3, PointersAre DEF AtPrev, AtCurr, AtRight
      <3>2. CASE pc' = [pc EXCEPT ![c] = "search"]
        <4>1. pc'[c] = "search"
          BY <3>2 DEF Types
        <4> QED BY <4>1 DEF AtPrev, AtCurr, AtRight
      <3> QED BY <2>2, <3>1, <3>2
    <2> QED BY <2>1, <2>3, <2>4, <2>6, ReadsKeep
  <1> QED BY <1>3, <1>4
\* The walk of the writer that has the lock stays among what is placed.
LEMMA WriteStep ==
  ASSUME ListInv, NEW c \in Cells, Lock(c) \/ Walk(c) \/ Follow(c) \/ LogLatest(c)
  PROVE  ListInv'
  <1> USE DEF ListInv
  <1>1. MovesOnly(c) /\ UNCHANGED <<next, prev, prev_next, curr_next, right>> /\ pc[c] \in Inserted
    BY DEF Lock, Walk, Follow, LogLatest, Goto, MovesOnly, Types, Inserted, search_vars
  <1>2. \A n : Placed(n) => Placed(n)'
    BY <1>1 DEF MovesOnly, Placed
  <1>3. CASE Lock(c)
    <2>1. pc' = [pc EXCEPT ![c] = "walk"] /\ curr' = [curr EXCEPT ![c] = c]
      BY <1>3 DEF Lock, Goto
    <2>2. Types' /\ pc'[c] = "walk" /\ curr'[c] = c
      BY <1>1, <2>1, PlacedIs DEF Types, Labels
    <2>3. Placed(c)'
      BY <1>1, <1>2 DEF Placed
    <2> QED BY <1>1, <2>2, <2>3, ReadsKeep DEF AtPrev, AtCurr, AtRight
  <1>4. CASE Walk(c)
    <2>1. PICK label \in {"abort", "follow", "log"} :
            pc' = [pc EXCEPT ![c] = label] /\ (label = "log" => SameKey(c, curr[c]))
      BY <1>4 DEF Walk, Goto
    <2>2. pc[c] = "walk" /\ curr' = curr /\ Placed(curr[c])
      BY <1>4 DEF Walk, AtCurr, search_vars
    <2>3. Types' /\ pc'[c] = label
      BY <1>1, <2>1, <2>2 DEF Types, Labels
    <2>4. label = "log" => curr[c] \in Cells
      BY <2>1, <2>2 DEF SameKey, Placed
    <2>5. (AtPrev(c) /\ AtCurr(c) /\ AtRight(c))'
      BY <1>2, <2>2, <2>3, <2>4 DEF AtPrev, AtCurr, AtRight
    <2> QED BY <1>1, <2>3, <2>5, ReadsKeep
  <1>5. CASE Follow(c)
    <2>1. /\ pc[c] = "follow" /\ pc' = [pc EXCEPT ![c] = "walk"]
          /\ curr' = [curr EXCEPT ![c] = next[curr[c]].ref]
      BY <1>5 DEF Follow, Goto
    <2>2. Placed(curr[c])
      BY <2>1 DEF AtCurr
    <2>3. Placed(next[curr[c]].ref)
      BY <2>2, PlacedIs DEF Sorted, Leads
    <2>4. Types' /\ pc'[c] = "walk" /\ curr'[c] = next[curr[c]].ref
      BY <1>1, <2>1, <2>3, PlacedIs DEF Types, Labels
    <2> QED BY <1>1, <1>2, <2>3, <2>4, ReadsKeep DEF AtPrev, AtCurr, AtRight
  <1>6. CASE LogLatest(c)
    <2>1. pc' = [pc EXCEPT ![c] = "done"] /\ curr' = curr
      BY <1>6 DEF LogLatest, Goto, search_vars
    <2>2. Types' /\ pc'[c] = "done"
      BY <1>1, <2>1 DEF Types, Labels
    <2> QED BY <1>1, <2>2, ReadsKeep DEF AtPrev, AtCurr, AtRight
  <1> QED BY <1>3, <1>4, <1>5, <1>6

\* Searches, insertions and replacements keep the list in order, whatever
\* keys share it.
LEMMA ListStep == ListInv /\ [Next]_vars => ListInv'
  <1> SUFFICES ASSUME ListInv, [Next]_vars PROVE ListInv'
    OBVIOUS
  <1>1. CASE Next
    BY <1>1, SearchStep, ProtectStep, ExitStep, InsertStep, ReplaceStep, WriteStep DEF Next, Step
  <1>2. CASE UNCHANGED vars
    <2>1. UNCHANGED <<next, pc, prev, prev_next, curr, curr_next, right>>
      BY <1>2 DEF vars
    <2> QED BY <2>1 DEF ListInv, Types, Sorted, Leads, Behind, Before, Placed, AtPrev, AtCurr, AtRight
  <1> QED BY <1>1, <1>2

LEMMA ListHolds == Spec => []ListInv
  BY ListInit, ListStep, PTL DEF Spec

(***************************************************************************)
(* Versions: every entry that was inserted is one of its key, once.        *)
(***************************************************************************)
VersionsOf(h) ==
  \A i \in DOMAIN versions[h] :
    /\ Hash[versions[h][i]] = h /\ pc[versions[h][i]] \in Inserted
    /\ \A j \in DOMAIN versions[h] : versions[h][i] = versions[h][j] => i = j

VersionsInv ==
  /\ versions \in [Hashes -> Seq(Cells)]
  /\ \A h \in Hashes : VersionsOf(h)
  /\ \A c \in Cells : pc[c] \in Inserted => IsLinked(c)

\* writer_lock is held on the walk; what is logged are entries.
LockInv ==
  /\ writer \in Cells \cup {NoCell} /\ log \in Seq(Cells)
  /\ \A c \in Cells : pc[c] \in Locked <=> writer = c
\* At first there are no versions.
LEMMA VersionsInit == Init => VersionsInv /\ LockInv
  BY CellsAssumption DEF Init, VersionsInv, VersionsOf, LockInv, IsLinked, Inserted, Locked

\* A new entry becomes the newest version of its key.
Joins(c, h, z) ==
  /\ h = Hash[c] /\ pc[c] \notin Inserted /\ pc' = [pc EXCEPT ![c] = "linked"]
  /\ versions' \in [Hashes -> Seq(Cells)]
  /\ \A g \in Hashes : g # h => versions'[g] = versions[g]
  /\ DOMAIN versions[h] = 1 .. z - 1 /\ DOMAIN versions'[h] = 1 .. z
  /\ Len(versions[h]) = z - 1 /\ Len(versions'[h]) = z /\ versions'[h][z] = c
  /\ \A i \in 1 .. z - 1 : versions'[h][i] = versions[h][i]
  /\ UNCHANGED <<writer, log, search_vars>>

LEMMA LinkedJoins ==
  ASSUME ListInv, VersionsInv, NEW c \in Cells, Insert(c) \/ Replace(c), Linked(c)
  PROVE  \E h \in Hashes, z \in Nat \ {0} : Joins(c, h, z)
  <1>1. PICK h \in Hashes : h = Hash[c]
    BY DEF Hashes
  <1>2. PICK s \in Seq(Cells) : s = versions[h]
    BY DEF VersionsInv
  <1>3. PICK z \in Nat \ {0} : z = Len(s) + 1 /\ DOMAIN s = 1 .. z - 1
    BY <1>2
  <1>4. versions' = [versions EXCEPT ![h] = Append(s, c)] /\ pc' = [pc EXCEPT ![c] = "linked"]
    BY <1>1, <1>2 DEF Linked, Goto
  <1>5. /\ Append(s, c) \in Seq(Cells) /\ Len(Append(s, c)) = z /\ DOMAIN Append(s, c) = 1 .. z
        /\ Append(s, c)[z] = c /\ \A i \in 1 .. z - 1 : Append(s, c)[i] = s[i]
    BY <1>3
  <1>6. pc[c] \in {"insert", "replace"} /\ UNCHANGED <<writer, log, search_vars>>
    BY DEF Insert, Replace
  <1>7. versions'[h] = Append(s, c) /\ \A g \in Hashes : g # h => versions'[g] = versions[g]
    BY <1>4 DEF VersionsInv
  <1>8. versions' \in [Hashes -> Seq(Cells)]
    BY <1>4, <1>5 DEF VersionsInv
  <1>9. /\ Len(versions[h]) = z - 1 /\ DOMAIN versions[h] = 1 .. z - 1
        /\ Len(versions'[h]) = z /\ DOMAIN versions'[h] = 1 .. z
    BY <1>2, <1>3, <1>5, <1>7
  <1>10. versions'[h][z] = c /\ \A i \in 1 .. z - 1 : versions'[h][i] = versions[h][i]
    BY <1>2, <1>5, <1>7
  <1> QED BY <1>1, <1>4, <1>6, <1>7, <1>8, <1>9, <1>10 DEF Joins, Inserted

\* Any other step leaves the versions alone.
LEMMA VersionsMove ==
  ASSUME ListInv, VersionsInv, [Next]_vars
  PROVE  \/ \E c \in Cells, h \in Hashes, z \in Nat \ {0} : Joins(c, h, z) /\ (Insert(c) \/ Replace(c))
         \/ UNCHANGED versions /\ \A d \in Cells : pc'[d] \in Inserted <=> pc[d] \in Inserted
  <1>1. ASSUME NEW c \in Cells, Insert(c) \/ Replace(c)
        PROVE  \/ Linked(c)
               \/ UNCHANGED versions /\ \A d \in Cells : pc'[d] \in Inserted <=> pc[d] \in Inserted
    BY <1>1 DEF Insert, Replace, Goto, Retry, ListInv, Types, Inserted
  <1>2. ASSUME NEW c \in Cells,
               ReadHead(c) \/ ReadFirst(c) \/ ReadNext(c) \/ SkipDeleted(c) \/ Pass(c) \/ Protect(c) \/ ExitSearch(c)
        PROVE  UNCHANGED versions /\ \A d \in Cells : pc'[d] \in Inserted <=> pc[d] \in Inserted
    BY <1>2 DEF ReadHead, ReadFirst, ReadNext, SkipDeleted, Pass, Protect, ExitSearch, InLoop, Goto, ListInv,
                Types, Inserted
  <1>3. ASSUME NEW c \in Cells, Lock(c) \/ Walk(c) \/ Follow(c) \/ LogLatest(c)
        PROVE  UNCHANGED versions /\ \A d \in Cells : pc'[d] \in Inserted <=> pc[d] \in Inserted
    BY <1>3 DEF Lock, Walk, Follow, LogLatest, Goto, ListInv, Types, Inserted
  <1>4. CASE UNCHANGED vars
    BY <1>4 DEF vars
  <1> QED BY <1>1, <1>2, <1>3, <1>4, LinkedJoins DEF Next, Step

\* Entries join the versions when they join the list.
LEMMA VersionsStep == ListInv /\ VersionsInv /\ [Next]_vars => VersionsInv'
  <1> SUFFICES ASSUME ListInv, VersionsInv, [Next]_vars PROVE VersionsInv'
    OBVIOUS
  <1>1. ASSUME NEW c \in Cells, NEW h \in Hashes, NEW z \in Nat \ {0}, Joins(c, h, z) PROVE VersionsInv'
    <2>1. pc'[c] \in Inserted /\ \A d \in Cells \ {c} : pc'[d] = pc[d]
      BY <1>1 DEF Joins, ListInv, Types, Inserted
    <2>2. ASSUME NEW g \in Hashes PROVE VersionsOf(g)'
      <3>1. CASE g = h
        <4>1. \A i \in 1 .. z - 1 : versions[h][i] # c /\ versions[h][i] \in Cells
          <5>1. versions[h] \in Seq(Cells) /\ DOMAIN versions[h] = 1 .. z - 1
            BY <1>1 DEF VersionsInv, Joins
          <5>2. \A i \in 1 .. z - 1 : versions[h][i] \in Cells
            BY <5>1
          <5>3. \A i \in 1 .. z - 1 : pc[versions[h][i]] \in Inserted
            BY <5>1 DEF VersionsInv, VersionsOf
          <5> QED BY <1>1, <5>2, <5>3 DEF Joins
        <4>2. \A i \in 1 .. z - 1 : Hash[versions[h][i]] = h /\ pc[versions[h][i]] \in Inserted
          BY <1>1 DEF VersionsInv, VersionsOf, Joins
        <4>3. \A i, j \in 1 .. z - 1 : versions[h][i] = versions[h][j] => i = j
          BY <1>1 DEF VersionsInv, VersionsOf, Joins
        <4>4. \A i \in 1 .. z : i = z \/ i \in 1 .. z - 1
          OBVIOUS
        <4>5. /\ DOMAIN versions'[h] = 1 .. z /\ versions'[h][z] = c /\ h = Hash[c]
              /\ \A i \in 1 .. z - 1 : versions'[h][i] = versions[h][i]
          BY <1>1 DEF Joins
        <4>6. ASSUME NEW i \in 1 .. z
              PROVE  /\ Hash[versions'[h][i]] = h /\ pc'[versions'[h][i]] \in Inserted
                     /\ \A j \in 1 .. z : versions'[h][i] = versions'[h][j] => i = j
          <5>1. CASE i = z
            BY <2>1, <4>1, <4>4, <4>5, <5>1
          <5>2. CASE i \in 1 .. z - 1
            BY <2>1, <4>1, <4>2, <4>3, <4>4, <4>5, <5>2
          <5> QED BY <4>4, <5>1, <5>2
        <4> QED BY <3>1, <4>5, <4>6 DEF VersionsOf
      <3>2. CASE g # h
        <4>1. versions'[g] = versions[g] /\ VersionsOf(g)
          BY <1>1, <3>2 DEF Joins, VersionsInv
        <4>2. \A i \in DOMAIN versions[g] : versions[g][i] # c
          BY <1>1, <3>2, <4>1 DEF VersionsOf, Joins
        <4>3. \A i \in DOMAIN versions[g] : versions[g][i] \in Cells
          BY DEF VersionsInv
        <4> QED BY <2>1, <4>1, <4>2, <4>3 DEF VersionsOf
      <3> QED BY <3>1, <3>2
    <2>3. ASSUME NEW d \in Cells, pc'[d] \in Inserted PROVE IsLinked(d)'
      <3>1. CASE d = c
        BY <1>1, <3>1 DEF IsLinked, Joins
      <3>2. CASE d # c
        <4>1. PICK i \in DOMAIN versions[Hash[d]] : versions[Hash[d]][i] = d
          BY <2>1, <2>3, <3>2 DEF VersionsInv, IsLinked
        <4>2. Hash[d] \in Hashes
          BY DEF Hashes
        <4>3. i \in DOMAIN versions'[Hash[d]] /\ versions'[Hash[d]][i] = d
          <5>1. CASE Hash[d] = h
            BY <1>1, <4>1, <5>1 DEF Joins
          <5>2. CASE Hash[d] # h
            BY <1>1, <4>1, <4>2, <5>2 DEF Joins
          <5> QED BY <5>1, <5>2
        <4> QED BY <4>3 DEF IsLinked
      <3> QED BY <3>1, <3>2
    <2> QED BY <1>1, <2>2, <2>3 DEF VersionsInv, Joins
  <1>2. CASE UNCHANGED versions /\ \A d \in Cells : pc'[d] \in Inserted <=> pc[d] \in Inserted
    <2>1. ASSUME NEW h \in Hashes PROVE VersionsOf(h)'
      <3>1. \A i \in DOMAIN versions[h] : versions[h][i] \in Cells
        BY DEF VersionsInv
      <3> QED BY <1>2, <3>1 DEF VersionsInv, VersionsOf
    <2>2. \A d \in Cells : IsLinked(d)' <=> IsLinked(d)
      BY <1>2 DEF IsLinked
    <2> QED BY <1>2, <2>1, <2>2 DEF VersionsInv
  <1> QED BY <1>1, <1>2, VersionsMove

\* The lock passes from writer to writer.
LEMMA LockStep == ListInv /\ LockInv /\ [Next]_vars => LockInv'
  <1> SUFFICES ASSUME ListInv, LockInv, [Next]_vars PROVE LockInv'
    OBVIOUS
  <1> USE DEF LockInv
  <1>1. ASSUME NEW c \in Cells, Lock(c) PROVE LockInv'
    BY <1>1, CellsAssumption DEF Lock, Free, Goto, ListInv, Types, Locked
  <1>2. ASSUME NEW c \in Cells, LogLatest(c) PROVE LockInv'
    <2>1. curr[c] \in Cells /\ log' = Append(log, curr[c])
      BY <1>2 DEF LogLatest, Logged, ListInv, AtCurr
    <2>2. log' \in Seq(Cells)
      BY <2>1
    <2> QED BY <1>2, <2>2, CellsAssumption DEF LogLatest, Release, Goto, ListInv, Types, Locked
  <1>3. ASSUME NEW c \in Cells, Walk(c) \/ Follow(c) PROVE LockInv'
    BY <1>3 DEF Walk, Follow, Goto, ListInv, Types, Locked
  <1>4. ASSUME NEW c \in Cells,
               ReadHead(c) \/ ReadFirst(c) \/ ReadNext(c) \/ SkipDeleted(c) \/ Pass(c) \/ Protect(c) \/ ExitSearch(c)
               \/ Insert(c) \/ Replace(c)
        PROVE  LockInv'
    <2>1. UNCHANGED <<writer, log>> /\ \A d \in Cells : pc'[d] \in Locked <=> pc[d] \in Locked
      BY <1>4 DEF ReadHead, ReadFirst, ReadNext, SkipDeleted, Pass, Protect, ExitSearch, Insert, Replace, Linked,
                  Retry, InLoop, Goto, ListInv, Types, Locked
    <2> QED BY <2>1
  <1>5. CASE UNCHANGED vars
    BY <1>5 DEF vars
  <1> QED BY <1>1, <1>2, <1>3, <1>4, <1>5 DEF Next, Step

\* Entries of the list are versions, and writers take turns.
LEMMA VersionsHold == Spec => [](VersionsInv /\ LockInv)
  BY ListHolds, VersionsInit, VersionsStep, LockStep, PTL DEF Spec

\* For every set of entries and every assignment of hash values, pointers lead
\* to cells of the bucket, and only entries are logged.
THEOREM TypeCorrect == Spec => []TypeOK
  <1>1. ListInv /\ VersionsInv /\ LockInv => TypeOK
    BY DEF ListInv, Types, VersionsInv, LockInv, TypeOK
  <1> QED BY <1>1, ListHolds, VersionsHold, PTL

\* For every set of entries and whatever keys share the bucket, its list is
\* sorted along all pointers, so that every search ends (__elemSearch, lfmap.cc:143-201).
THEOREM ListIsSorted == Spec => []ListSorted
  <1>1. ListInv /\ VersionsInv => ListSorted
    <2> SUFFICES ASSUME ListInv, VersionsInv PROVE ListSorted
      OBVIOUS
    <2>1. ASSUME NEW n, Placed(n) PROVE n = ListHead \/ (n \in Cells /\ IsLinked(n))
      BY <2>1 DEF Placed, VersionsInv
    <2>2. ASSUME NEW c \in Cells, IsLinked(c) PROVE Placed(c)
      BY <2>2 DEF IsLinked, VersionsInv, VersionsOf, Placed, Hashes
    <2>3. next[ListHead].ref = ListHead \/ (next[ListHead].ref \in Cells /\ IsLinked(next[ListHead].ref))
      BY <2>1, PlacedIs DEF ListInv, Sorted, Leads, Placed
    <2>4. ASSUME NEW c \in Cells, IsLinked(c) PROVE SortedFrom(c, next[c])
      BY <2>1, <2>2, <2>4, PlacedIs DEF ListInv, Sorted, Leads, SortedFrom
    <2> QED BY <2>3, <2>4 DEF ListSorted
  <1> QED BY <1>1, ListHolds, VersionsHold, PTL
(***************************************************************************)
(* One key in the bucket.  Then nothing is ever unlinked, and the pointers *)
(* spell the history of the key.                                           *)
(***************************************************************************)
OneKey == \A c, d \in Cells : Hash[c] = Hash[d]

\* The i-th version of its key is c.
Nth(i, c) == i \in DOMAIN versions[Hash[c]] /\ versions[Hash[c]][i] = c

\* The newest version, and only it, points back to the head.
Chained(h) ==
  /\ next[ListHead] = IF Len(versions[h]) = 0 THEN Ptr(ListHead) ELSE Ptr(versions[h][1])
  /\ \A i \in DOMAIN versions[h] :
       IF i < Len(versions[h])
         THEN next[versions[h][i]] = Del(versions[h][i + 1])
         ELSE next[versions[h][i]] \in {Ptr(ListHead), Prot(ListHead)}

\* A search that finds the list empty has seen nothing to unlink; one that
\* saw an entry of the key ends at an entry of the key.
FirstSeen(c) ==
  /\ pc[c] = "first" => /\ prev[c] = ListHead
                        /\ prev_next[c].ref # ListHead => next[ListHead].ref # ListHead
  /\ pc[c] \in {"next", "loop"} /\ curr[c] = ListHead =>
       prev[c] = ListHead /\ prev_next[c].ref = ListHead
NextSeen(c) ==
  /\ pc[c] \in {"loop", "pass"} /\ curr[c] \in Cells =>
       IF curr_next[c].mark = "del" THEN curr_next[c].ref \in Cells ELSE curr_next[c].ref = ListHead
  /\ pc[c] = "pass" => curr_next[c].mark = "del"
  /\ pc[c] = "insert" => prev[c] = ListHead
  /\ pc[c] \in {"insert", "replace"} => right[c] = Ptr(ListHead)

ChainInv ==
  /\ \A h \in Hashes : Chained(h)
  /\ \A c \in Cells : FirstSeen(c) /\ NextSeen(c)

\* A writer walks from its entry to newer versions, and always finds its key.
Walks(c) ==
  /\ pc[c] # "abort"
  /\ pc[c] \in {"walk", "follow", "log", "done"} =>
       curr[c] \in Cells /\ \E i, j \in Nat : Nth(i, c) /\ Nth(j, curr[c]) /\ i <= j
  /\ pc[c] = "follow" => next[curr[c]].mark = "del"
WalkInv == \A c \in Cells : Walks(c)

\* What was logged is not newer than what was logged later, nor than what
\* is logged next.
LoggedInOrder ==
  /\ \A k \in DOMAIN log : \E i \in Nat : Nth(i, log[k])
  /\ \A k, l \in DOMAIN log, i, j \in Nat : k < l /\ Nth(i, log[k]) /\ Nth(j, log[l]) => i <= j
LogsNewest(c) ==
  /\ pc[c] = "log" => \A k \in DOMAIN log, i, j \in Nat : Nth(i, log[k]) /\ Nth(j, curr[c]) => i <= j
  /\ pc[c] = "done" => \E k \in DOMAIN log : log[k] = curr[c]
LogInv == LoggedInOrder /\ \A c \in Cells : LogsNewest(c)

\* A step of c leaves the locals of the others alone.
OnlyOwn(c) ==
  \A d \in Cells \ {c} :
    /\ pc'[d] = pc[d] /\ prev'[d] = prev[d] /\ prev_next'[d] = prev_next[d]
    /\ curr'[d] = curr[d] /\ curr_next'[d] = curr_next[d] /\ right'[d] = right[d]

LEMMA StepIsOwn == ASSUME ListInv, NEW c \in Cells, Step(c) PROVE OnlyOwn(c)
  <1>1. CASE ReadHead(c) \/ ReadFirst(c) \/ ReadNext(c) \/ SkipDeleted(c) \/ Pass(c)
    BY <1>1 DEF ReadHead, ReadFirst, ReadNext, SkipDeleted, Pass, InLoop, Goto, ListInv, Types, OnlyOwn
  <1>2. CASE Protect(c) \/ ExitSearch(c)
    BY <1>2 DEF Protect, ExitSearch, Goto, ListInv, Types, OnlyOwn
  <1>3. CASE Insert(c) \/ Replace(c)
    BY <1>3 DEF Insert, Replace, Linked, Retry, Goto, search_vars, ListInv, Types, OnlyOwn
  <1>4. CASE Lock(c) \/ Walk(c) \/ Follow(c) \/ LogLatest(c)
    BY <1>4 DEF Lock, Walk, Follow, LogLatest, Goto, search_vars, ListInv, Types, OnlyOwn
  <1> QED BY <1>1, <1>2, <1>3, <1>4 DEF Step

\* With one key there is one history, of distinct entries.
LEMMA OneHistory ==
  ASSUME OneKey, ListInv, VersionsInv, NEW h \in Hashes
  PROVE  /\ \A c \in Cells : Hash[c] = h
         /\ Len(versions[h]) \in Nat /\ DOMAIN versions[h] = 1 .. Len(versions[h])
         /\ \A i \in 1 .. Len(versions[h]) : versions[h][i] \in Cells /\ Placed(versions[h][i])
         /\ \A i, j \in 1 .. Len(versions[h]) : versions[h][i] = versions[h][j] => i = j
         /\ \A c \in Cells : Placed(c) => \E i \in 1 .. Len(versions[h]) : versions[h][i] = c
         /\ \A c \in Cells : \A i : Nth(i, c) <=> i \in 1 .. Len(versions[h]) /\ versions[h][i] = c
  <1>1. \A c \in Cells : Hash[c] = h
    BY DEF OneKey, Hashes
  <1>2. versions[h] \in Seq(Cells)
    BY DEF VersionsInv
  <1>3. Len(versions[h]) \in Nat /\ DOMAIN versions[h] = 1 .. Len(versions[h])
    BY <1>2
  <1>4. \A i \in 1 .. Len(versions[h]) : versions[h][i] \in Cells
    BY <1>2
  <1>5. /\ \A i \in 1 .. Len(versions[h]) : Placed(versions[h][i])
        /\ \A i, j \in 1 .. Len(versions[h]) : versions[h][i] = versions[h][j] => i = j
    BY <1>3, <1>4 DEF VersionsInv, VersionsOf, Placed
  <1>6. \A c \in Cells : Placed(c) => \E i \in 1 .. Len(versions[h]) : versions[h][i] = c
    BY <1>1, <1>3, CellsAssumption DEF VersionsInv, IsLinked, Placed
  <1>7. \A c \in Cells : \A i : Nth(i, c) <=> i \in 1 .. Len(versions[h]) /\ versions[h][i] = c
    BY <1>1, <1>3 DEF Nth
  <1> QED BY <1>1, <1>3, <1>4, <1>5, <1>6, <1>7

\* What an entry of the list points to.
LEMMA ChainAt ==
  ASSUME OneKey, ListInv, VersionsInv, ChainInv, NEW n \in Cells, Placed(n)
  PROVE  /\ IF next[n].mark = "del" THEN next[n].ref \in Cells ELSE next[n] \in {Ptr(ListHead), Prot(ListHead)}
         /\ next[ListHead].ref \in Cells
         /\ next[n].mark # "del" => Len(versions[Hash[n]]) # 0 /\ n = versions[Hash[n]][Len(versions[Hash[n]])]
         /\ next[n].mark = "del" =>
              \E i \in Nat : Nth(i, n) /\ Nth(i + 1, next[n].ref)
  <1>1. PICK h \in Hashes : h = Hash[n]
    BY DEF Hashes
  <1>2. PICK i \in 1 .. Len(versions[h]) : versions[h][i] = n
    BY OneHistory
  <1>3. Chained(h) /\ Len(versions[h]) \in Nat /\ DOMAIN versions[h] = 1 .. Len(versions[h])
    BY OneHistory DEF ChainInv
  <1>4. next[ListHead].ref \in Cells
    BY <1>2, <1>3, OneHistory, PointersAre DEF Chained
  <1>5. CASE i < Len(versions[h])
    <2>1. next[n] = Del(versions[h][i + 1]) /\ i + 1 \in 1 .. Len(versions[h])
      <3>1. i + 1 \in 1 .. Len(versions[h]) /\ i \in DOMAIN versions[h]
        BY <1>3, <1>5
      <3> QED BY <1>2, <1>3, <1>5, <3>1 DEF Chained
    <2>2. versions[h][i + 1] \in Cells
      BY <2>1, OneHistory
    <2>3. next[n].mark = "del" /\ next[n].ref = versions[h][i + 1]
      BY <2>1, PointersAre
    <2>4. Nth(i, n) /\ Nth(i + 1, next[n].ref)
      BY <1>2, <2>1, <2>2, <2>3, OneHistory
    <2> QED BY <1>4, <2>2, <2>3, <2>4
  <1>6. CASE ~(i < Len(versions[h]))
    <2>1. i = Len(versions[h]) /\ next[n] \in {Ptr(ListHead), Prot(ListHead)}
      BY <1>2, <1>3, <1>6 DEF Chained
    <2> QED BY <1>1, <1>2, <1>4, <2>1, PointersAre
  <1> QED BY <1>5, <1>6
LEMMA ChainInit == Init => ChainInv
  <1> SUFFICES ASSUME Init PROVE ChainInv
    OBVIOUS
  <1>1. next[ListHead] = Ptr(ListHead) /\ \A h \in Hashes : versions[h] = <<>>
    BY DEF Init, Nodes
  <1>2. \A h \in Hashes : Len(versions[h]) = 0 /\ DOMAIN versions[h] = {}
    BY <1>1
  <1>3. \A h \in Hashes : Chained(h)
    BY <1>1, <1>2 DEF Chained
  <1>4. \A c \in Cells : FirstSeen(c) /\ NextSeen(c)
    BY DEF Init, FirstSeen, NextSeen
  <1> QED BY <1>3, <1>4 DEF ChainInv

\* What the others have seen stays so while the list does not become empty.
LEMMA SeenKept ==
  ASSUME NEW c \in Cells, OnlyOwn(c), next[ListHead].ref # ListHead => next'[ListHead].ref # ListHead,
         NEW d \in Cells \ {c}, FirstSeen(d), NextSeen(d)
  PROVE  FirstSeen(d)' /\ NextSeen(d)'
  BY DEF OnlyOwn, FirstSeen, NextSeen

\* A step that reads the list.
LEMMA ChainReadsKeep ==
  ASSUME ChainInv, NEW c \in Cells, OnlyOwn(c), UNCHANGED <<next, versions>>,
         (FirstSeen(c) /\ NextSeen(c))'
  PROVE  ChainInv'
  <1>1. \A h \in Hashes : Chained(h)'
    BY DEF ChainInv, Chained
  <1>2. \A d \in Cells \ {c} : (FirstSeen(d) /\ NextSeen(d))'
    BY SeenKept DEF ChainInv
  <1> QED BY <1>1, <1>2 DEF ChainInv

LEMMA ChainSearch ==
  ASSUME OneKey, ListInv, VersionsInv, ChainInv, NEW c \in Cells,
         ReadHead(c) \/ ReadFirst(c) \/ ReadNext(c) \/ SkipDeleted(c) \/ Pass(c)
  PROVE  ChainInv'
  <1> SUFFICES (FirstSeen(c) /\ NextSeen(c))'
    BY StepIsOwn, ChainReadsKeep DEF Step, ReadHead, ReadFirst, ReadNext, SkipDeleted, Pass
  <1>1. CASE ReadHead(c)
    <2>1. pc'[c] = "first" /\ prev'[c] = ListHead /\ prev_next'[c] = next[ListHead] /\ UNCHANGED next
      BY <1>1 DEF ReadHead, Goto, ListInv, Types
    <2> QED BY <2>1 DEF FirstSeen, NextSeen
  <1>2. CASE ReadFirst(c)
    <2>1. pc[c] = "first" /\ pc' = [pc EXCEPT ![c] = "next"] /\ UNCHANGED <<prev, prev_next, right>>
      BY <1>2 DEF ReadFirst, Goto
    <2>2. pc'[c] = "next" /\ curr'[c] = next[ListHead].ref
      BY <1>2, <2>1 DEF ReadFirst, ListInv, Types
    <2>3. prev[c] = ListHead /\ (prev_next[c].ref # ListHead => next[ListHead].ref # ListHead)
      BY <2>1 DEF ChainInv, FirstSeen
    <2> QED BY <2>1, <2>2, <2>3 DEF FirstSeen, NextSeen
  <1>3. CASE ReadNext(c)
    <2>1. pc[c] = "next" /\ pc' = [pc EXCEPT ![c] = "loop"] /\ UNCHANGED <<curr, prev, prev_next, right>>
      BY <1>3 DEF ReadNext, Goto
    <2>2. pc'[c] = "loop" /\ curr_next'[c] = next[curr[c]] /\ Placed(curr[c])
      BY <1>3, <2>1 DEF ReadNext, ListInv, Types, AtCurr
    <2>3. curr[c] \in Cells =>
            IF next[curr[c]].mark = "del" THEN next[curr[c]].ref \in Cells ELSE next[curr[c]].ref = ListHead
      BY <2>2, ChainAt, PointersAre
    <2>4. curr[c] = ListHead => prev[c] = ListHead /\ prev_next[c].ref = ListHead
      BY <2>1 DEF ChainInv, FirstSeen
    <2> QED BY <2>1, <2>2, <2>3, <2>4 DEF FirstSeen, NextSeen
  <1>4. CASE SkipDeleted(c) \/ Pass(c)
    <2>1. curr[c] \in Cells /\ pc[c] \in {"loop", "pass"} /\ curr_next[c].mark = "del"
      <3>1. CASE SkipDeleted(c)
        BY <3>1, PlacedIs DEF SkipDeleted, InLoop, ListInv, Types, Nodes
      <3>2. CASE Pass(c) /\ pc[c] = "pass"
        BY <3>2 DEF ListInv, AtCurr, ChainInv, NextSeen
      <3>3. CASE Pass(c) /\ pc[c] # "pass"
        <4>1. curr[c] \in Cells /\ Hash[curr[c]] < Hash[c]
          BY <3>3, PlacedIs DEF Pass, InLoop, ListInv, Types, Nodes
        <4>2. Hash[curr[c]] = Hash[c] /\ Hash[c] \in Int
          BY <4>1, HashAssumption DEF OneKey
        <4> QED BY <4>1, <4>2
      <3> QED BY <1>4, <3>1, <3>2, <3>3
    <2>2. curr_next[c].ref \in Cells
      BY <2>1 DEF ChainInv, NextSeen
    <2>3. pc'[c] = "next" /\ curr'[c] = curr_next[c].ref
      BY <1>4 DEF SkipDeleted, Pass, Goto, ListInv, Types
    <2> QED BY <2>2, <2>3, CellsAssumption DEF FirstSeen, NextSeen
  <1> QED BY <1>1, <1>2, <1>3, <1>4

LEMMA ChainExit ==
  ASSUME OneKey, ListInv, VersionsInv, ChainInv, NEW c \in Cells, ExitSearch(c)
  PROVE  ChainInv'
  <1>1. pc[c] = "loop" /\ curr[c] = ListHead
    <2>1. pc[c] = "loop" /\ curr[c] \in Nodes
      BY PlacedIs DEF ExitSearch, ListInv, Types
    <2>2. curr[c] \in Cells => Hash[curr[c]] = Hash[c] /\ Hash[c] \in Int
      BY HashAssumption DEF OneKey
    <2> QED BY <2>1, <2>2 DEF ExitSearch, InLoop, Nodes
  <1>2. prev[c] = ListHead /\ prev_next[c].ref = ListHead
    BY <1>1 DEF ChainInv, FirstSeen
  <1>3. UNCHANGED <<next, versions, prev>> /\ pc' = [pc EXCEPT ![c] = "insert"]
        /\ right' = [right EXCEPT ![c] = Ptr(ListHead)]
    BY <1>1, <1>2 DEF ExitSearch, Goto
  <1>4. pc'[c] = "insert" /\ right'[c] = Ptr(ListHead) /\ prev'[c] = ListHead
    BY <1>2, <1>3 DEF ListInv, Types
  <1> QED BY <1>3, <1>4, StepIsOwn, ChainReadsKeep DEF Step, FirstSeen, NextSeen

LEMMA ChainWrite ==
  ASSUME ListInv, ChainInv, NEW c \in Cells, Lock(c) \/ Walk(c) \/ Follow(c) \/ LogLatest(c)
  PROVE  ChainInv'
  <1>1. UNCHANGED <<next, versions>> /\ pc'[c] \in Inserted
    BY DEF Lock, Walk, Follow, LogLatest, Goto, ListInv, Types, Inserted
  <1> QED BY <1>1, StepIsOwn, ChainReadsKeep DEF Step, FirstSeen, NextSeen, Inserted
\* The entry that is protected is the newest version; any other was replaced.
LEMMA ChainProtect ==
  ASSUME OneKey, ListInv, VersionsInv, ChainInv, NEW c \in Cells, Protect(c)
  PROVE  ChainInv'
  <1>1. PICK n \in Cells : n = curr[c] /\ pc[c] = "loop" /\ Placed(n) /\ curr_next[c].mark # "del"
    BY PlacedIs DEF Protect, InLoop, ListInv, AtCurr, Nodes, Types
  <1>2. PICK m \in Pointers : m = curr_next[c] /\ m.ref = ListHead
    BY <1>1 DEF ListInv, Types, ChainInv, NextSeen
  <1>3. PICK orig \in Pointers : orig = next[n]
    BY <1>1, PlacedIs DEF ListInv, Types
  <1>4. /\ IF orig.mark = "del" THEN orig.ref \in Cells ELSE orig \in {Ptr(ListHead), Prot(ListHead)}
        /\ orig.mark # "del" => Len(versions[Hash[n]]) # 0 /\ n = versions[Hash[n]][Len(versions[Hash[n]])]
    BY <1>1, <1>3, ChainAt
  <1>5. CASE orig \in {m, Prot(m.ref)}
    <2>1. /\ next' = [next EXCEPT ![n] = Prot(ListHead)] /\ pc' = [pc EXCEPT ![c] = "replace"]
          /\ right' = [right EXCEPT ![c] = Ptr(ListHead)] /\ UNCHANGED versions
      BY <1>1, <1>2, <1>3, <1>5 DEF Protect, Goto
    <2>2. orig.mark # "del"
      BY <1>1, <1>2, <1>5, PointersAre
    <2>3. /\ next'[n] = Prot(ListHead) /\ \A x \in Nodes : x # n => next'[x] = next[x]
      BY <2>1, PlacedIs DEF ListInv, Types
    <2>4. ASSUME NEW h \in Hashes PROVE Chained(h)'
      <3>1. Chained(h) /\ n = versions[h][Len(versions[h])] /\ Len(versions[h]) # 0 /\ Len(versions[h]) \in Nat
            /\ DOMAIN versions[h] = 1 .. Len(versions[h])
        BY <1>4, <2>2, OneHistory DEF ChainInv
      <3>2. next'[ListHead] = next[ListHead]
        BY <2>3, PlacedIs
      <3>3. ASSUME NEW i \in 1 .. Len(versions[h])
            PROVE  IF i < Len(versions[h])
                     THEN next'[versions[h][i]] = Del(versions[h][i + 1])
                     ELSE next'[versions[h][i]] \in {Ptr(ListHead), Prot(ListHead)}
        <4>1. CASE i < Len(versions[h])
          <5>1. versions[h][i] # n /\ versions[h][i] \in Nodes
            BY <3>1, <4>1, OneHistory, PlacedIs
          <5> QED BY <2>3, <3>1, <4>1, <5>1 DEF Chained
        <4>2. CASE ~(i < Len(versions[h]))
          <5>1. i = Len(versions[h])
            BY <3>1, <4>2
          <5> QED BY <2>3, <3>1, <4>2, <5>1
        <4> QED BY <4>1, <4>2
      <3> QED BY <2>1, <3>1, <3>2, <3>3 DEF Chained
    <2>5. pc'[c] = "replace" /\ right'[c] = Ptr(ListHead)
      BY <2>1 DEF ListInv, Types
    <2>6. (FirstSeen(c) /\ NextSeen(c))'
      BY <2>5 DEF FirstSeen, NextSeen
    <2>7. \A d \in Cells \ {c} : (FirstSeen(d) /\ NextSeen(d))'
      <3>1. next'[ListHead] = next[ListHead] /\ OnlyOwn(c)
        BY <2>3, PlacedIs, StepIsOwn DEF Step
      <3> QED BY <3>1, SeenKept DEF ChainInv
    <2> QED BY <2>4, <2>6, <2>7 DEF ChainInv
  <1>6. CASE orig \notin {m, Prot(m.ref)}
    <2>1. PICK label \in {"pass", "loop"} :
            pc' = [pc EXCEPT ![c] = label] /\ (label = "pass" <=> orig.mark = "del")
      BY <1>1, <1>2, <1>3, <1>6 DEF Protect, Goto
    <2>2. curr_next' = [curr_next EXCEPT ![c] = orig] /\ UNCHANGED <<next, versions, prev, right, prev_next, curr>>
      BY <1>1, <1>2, <1>3, <1>6 DEF Protect
    <2>3. pc'[c] = label /\ curr_next'[c] = orig /\ curr'[c] = n
      BY <1>1, <2>1, <2>2 DEF ListInv, Types
    <2>4. (FirstSeen(c) /\ NextSeen(c))'
      BY <1>4, <2>1, <2>3, PointersAre, CellsAssumption DEF FirstSeen, NextSeen
    <2> QED BY <2>2, <2>4, StepIsOwn, ChainReadsKeep DEF Step
  <1> QED BY <1>5, <1>6

\* A new entry behind the newest version, or the first one in an empty list.
LEMMA ChainJoins ==
  ASSUME OneKey, ListInv, VersionsInv, ChainInv, NEW c \in Cells, NEW h \in Hashes, NEW z \in Nat \ {0},
         Joins(c, h, z), OnlyOwn(c), NEW p \in Nodes, IF z = 1 THEN p = ListHead ELSE p = versions[h][z - 1],
         next' = [next EXCEPT ![c] = Ptr(ListHead), ![p] = IF z = 1 THEN Ptr(c) ELSE Del(c)]
  PROVE  ChainInv'
  <1>1. /\ DOMAIN versions[h] = 1 .. z - 1 /\ Len(versions[h]) = z - 1 /\ versions'[h][z] = c
        /\ DOMAIN versions'[h] = 1 .. z /\ Len(versions'[h]) = z
        /\ \A i \in 1 .. z - 1 : versions'[h][i] = versions[h][i]
        /\ pc[c] \notin Inserted /\ pc' = [pc EXCEPT ![c] = "linked"] /\ Hash[c] = h
    BY DEF Joins
  <1>2. p # c /\ ListHead # c
    <2>1. z # 1 => z - 1 \in 1 .. z - 1 /\ p = versions[h][z - 1]
      OBVIOUS
    <2>2. z # 1 => Placed(p) /\ p \in Cells
      BY <1>1, <2>1, OneHistory
    <2> QED BY <1>1, <2>2, CellsAssumption DEF Placed
  <1>3. /\ next'[c] = Ptr(ListHead) /\ next'[p] = IF z = 1 THEN Ptr(c) ELSE Del(c)
        /\ \A x \in Nodes : x # c /\ x # p => next'[x] = next[x]
    BY <1>2, PlacedIs DEF ListInv, Types
  <1>4. \A i \in 1 .. z - 1 : versions[h][i] \in Cells /\ versions[h][i] # c
    <2>1. ~Placed(c)
      BY <1>1, CellsAssumption DEF Placed
    <2>2. \A i \in 1 .. z - 1 : versions[h][i] \in Cells /\ Placed(versions[h][i])
      BY <1>1, OneHistory
    <2> QED BY <2>1, <2>2
  <1>5. Chained(h)'
    <2>1. CASE z = 1
      <3>1. next'[ListHead] = Ptr(versions'[h][1])
        BY <1>1, <1>3, <2>1
      <3>2. \A i \in 1 .. z : i = z
        BY <2>1
      <3> QED BY <1>1, <1>3, <2>1, <3>1, <3>2 DEF Chained
    <2>2. CASE z # 1
      <3>1. z - 1 # 0 /\ 1 \in 1 .. z - 1 /\ z - 1 \in 1 .. z - 1
        BY <2>2
      <3>2. next[ListHead] = Ptr(versions[h][1])
        BY <1>1, <3>1 DEF ChainInv, Chained
      <3>3. next'[ListHead] = Ptr(versions'[h][1])
        <4>1. p # ListHead
          BY <1>4, <2>2, <3>1, CellsAssumption
        <4> QED BY <1>1, <1>2, <1>3, <3>1, <3>2, <4>1, PlacedIs
      <3>4. ASSUME NEW i \in 1 .. z
            PROVE  IF i < z THEN next'[versions'[h][i]] = Del(versions'[h][i + 1])
                            ELSE next'[versions'[h][i]] \in {Ptr(ListHead), Prot(ListHead)}
        <4>1. CASE i = z
          BY <1>1, <1>3, <4>1
        <4>2. CASE i = z - 1 /\ i # z
          <5>1. i < z /\ i + 1 = z /\ i \in 1 .. z - 1
            BY <4>2
          <5> QED BY <1>1, <1>3, <2>2, <4>2, <5>1
        <4>3. CASE i # z - 1 /\ i # z
          <5>1. i < z /\ i < z - 1 /\ i \in 1 .. z - 1 /\ i + 1 \in 1 .. z - 1
            BY <4>3
          <5>2. next[versions[h][i]] = Del(versions[h][i + 1])
            BY <1>1, <5>1 DEF ChainInv, Chained
          <5>3. versions[h][i] # p /\ versions[h][i] # c /\ versions[h][i] \in Nodes
            BY <1>1, <1>4, <2>2, <3>1, <4>3, <5>1, OneHistory, PlacedIs
          <5> QED BY <1>1, <1>3, <5>1, <5>2, <5>3
        <4> QED BY <4>1, <4>2, <4>3
      <3> QED BY <1>1, <3>3, <3>4 DEF Chained
    <2> QED BY <2>1, <2>2
  <1>6. \A g \in Hashes : g = h
    BY DEF OneKey, Hashes
  <1>7. next'[ListHead].ref # ListHead
    <2>1. next'[ListHead] = Ptr(versions'[h][1]) /\ versions'[h][1] \in Cells
      <3>1. next'[ListHead] = Ptr(versions'[h][1])
        BY <1>1, <1>5 DEF Chained
      <3>2. versions'[h] \in Seq(Cells) /\ 1 \in 1 .. z
        BY DEF Joins
      <3> QED BY <1>1, <3>1, <3>2
    <2> QED BY <2>1, PointersAre, CellsAssumption
  <1>8. pc'[c] = "linked"
    BY <1>1 DEF ListInv, Types
  <1>9. (FirstSeen(c) /\ NextSeen(c))'
    BY <1>8 DEF FirstSeen, NextSeen
  <1>10. \A d \in Cells \ {c} : (FirstSeen(d) /\ NextSeen(d))'
    BY <1>7, SeenKept DEF ChainInv
  <1> QED BY <1>5, <1>6, <1>9, <1>10 DEF ChainInv
LEMMA ChainInsert ==
  ASSUME OneKey, ListInv, VersionsInv, ChainInv, NEW c \in Cells, Insert(c)
  PROVE  ChainInv'
  <1>1. pc[c] = "insert" /\ prev[c] = ListHead /\ right[c] = Ptr(ListHead) /\ OnlyOwn(c)
    BY StepIsOwn DEF Insert, Step, ChainInv, NextSeen
  <1>2. PICK h \in Hashes : h = Hash[c]
    BY DEF Hashes
  <1>3. /\ next[ListHead] = IF Len(versions[h]) = 0 THEN Ptr(ListHead) ELSE Ptr(versions[h][1])
        /\ Len(versions[h]) \in Nat /\ \A i \in 1 .. Len(versions[h]) : versions[h][i] \in Cells
    BY OneHistory DEF ChainInv, Chained
  <1>4. CASE next[ListHead] = Ptr(ListHead)
    <2>1. Len(versions[h]) = 0
      <3>1. CASE Len(versions[h]) # 0
        <4>1. versions[h][1] \in Cells
          BY <1>3, <3>1
        <4> QED BY <1>3, <1>4, <3>1, <4>1, CellsAssumption DEF Ptr
      <3> QED BY <3>1
    <2>2. next' = [next EXCEPT ![c] = Ptr(ListHead), ![ListHead] = Ptr(c)] /\ Linked(c)
      BY <1>1, <1>4 DEF Insert, Spliced
    <2>3. PICK g \in Hashes, z \in Nat \ {0} : Joins(c, g, z)
      BY <2>2, LinkedJoins
    <2>4. g = h /\ z = 1
      BY <1>2, <2>1, <2>3 DEF Joins
    <2> QED BY <1>1, <2>2, <2>3, <2>4, ChainJoins, PlacedIs
  <1>5. CASE next[ListHead] # Ptr(ListHead)
    <2>1. next[ListHead] # Prot(ListHead)
      BY <1>3, PointersAre
    <2>2. UNCHANGED <<next, versions>> /\ pc' = [pc EXCEPT ![c] = "search"]
      BY <1>1, <1>5, <2>1, PointersAre DEF Insert, Goto
    <2>3. pc'[c] = "search"
      BY <2>2 DEF ListInv, Types
    <2> QED BY <1>1, <2>2, <2>3, ChainReadsKeep DEF FirstSeen, NextSeen
  <1> QED BY <1>4, <1>5

LEMMA ChainReplace ==
  ASSUME OneKey, ListInv, VersionsInv, ChainInv, NEW c \in Cells, Replace(c)
  PROVE  ChainInv'
  <1>1. pc[c] = "replace" /\ right[c] = Ptr(ListHead) /\ OnlyOwn(c)
    BY StepIsOwn DEF Replace, Step, ChainInv, NextSeen
  <1>2. PICK p \in Cells : p = prev[c] /\ Placed(p)
    BY <1>1 DEF ListInv, AtRight
  <1>3. PICK h \in Hashes : h = Hash[c] /\ h = Hash[p]
    BY DEF Hashes, OneKey
  <1>4. CASE next[p] = Prot(ListHead)
    <2>1. next' = [next EXCEPT ![c] = Ptr(ListHead), ![p] = Del(c)] /\ Linked(c)
      BY <1>1, <1>2, <1>4, PointersAre DEF Replace, Switched
    <2>2. PICK g \in Hashes, z \in Nat \ {0} : Joins(c, g, z)
      BY <2>1, LinkedJoins
    <2>3. Len(versions[h]) # 0 /\ p = versions[h][Len(versions[h])]
      BY <1>2, <1>3, <1>4, ChainAt, PointersAre
    <2>4. g = h /\ Len(versions[h]) = z - 1
      BY <1>3, <2>2 DEF Joins
    <2>5. z # 1 /\ p = versions[h][z - 1]
      BY <2>3, <2>4
    <2> QED BY <1>1, <2>1, <2>2, <2>4, <2>5, ChainJoins, PlacedIs
  <1>5. CASE next[p] # Prot(ListHead)
    <2>1. next[p].mark # "prot"
      BY <1>2, <1>5, ChainAt, PointersAre
    <2>2. UNCHANGED <<next, versions>> /\ pc' = [pc EXCEPT ![c] = "search"]
      BY <1>1, <1>2, <1>5, <2>1, PointersAre DEF Replace, Retry, Goto
    <2>3. pc'[c] = "search"
      BY <2>2 DEF ListInv, Types
    <2> QED BY <1>1, <2>2, <2>3, ChainReadsKeep DEF FirstSeen, NextSeen
  <1> QED BY <1>4, <1>5

LEMMA ChainStep ==
  ASSUME OneKey, ListInv, VersionsInv, ChainInv, [Next]_vars
  PROVE  ChainInv'
  <1>1. CASE Next
    BY <1>1, ChainSearch, ChainProtect, ChainExit, ChainInsert, ChainReplace, ChainWrite DEF Next, Step
  <1>2. CASE UNCHANGED vars
    BY <1>2 DEF vars, ChainInv, Chained, FirstSeen, NextSeen
  <1> QED BY <1>1, <1>2

LEMMA ChainHolds == OneKey => (Spec => []ChainInv)
  <1> SUFFICES ASSUME OneKey PROVE Spec => []ChainInv
    OBVIOUS
  <1>1. ListInv /\ VersionsInv /\ ChainInv /\ [Next]_vars => ChainInv'
    BY ChainStep
  <1> QED BY <1>1, ChainInit, ListHolds, VersionsHold, PTL DEF Spec

\* For every number of entries of one key, the pointers spell the history of
\* the key: replaced entries point, marked, to their replacement, and the
\* newest is not marked (__elem_insert and __elem_switch, lfmap.cc:20-60).
THEOREM VersionsAreChained == OneKey => (Spec => []ChainIsHistory)
  <1>1. ChainInv => ChainIsHistory
    BY PointersAre DEF ChainInv, Chained, ChainIsHistory
  <1> QED BY <1>1, ChainHolds, PTL
(***************************************************************************)
(* The walk under the lock, and the log.                                   *)
(***************************************************************************)
\* A version has one number, and keeps it.
LEMMA NumberIsOne ==
  VersionsInv => \A c \in Cells : \A i, j : Nth(i, c) /\ Nth(j, c) => i = j /\ i \in Nat
  <1> SUFFICES ASSUME VersionsInv, NEW c \in Cells, NEW i, NEW j, Nth(i, c), Nth(j, c)
               PROVE  i = j /\ i \in Nat
    OBVIOUS
  <1>1. PICK h \in Hashes : h = Hash[c]
    BY DEF Hashes
  <1>2. versions[h] \in Seq(Cells)
    BY DEF VersionsInv
  <1>3. DOMAIN versions[h] \subseteq Nat
    BY <1>2
  <1> QED BY <1>1, <1>3 DEF Nth, VersionsInv, VersionsOf

LEMMA NumberGrows ==
  ASSUME ListInv, VersionsInv, [Next]_vars, NEW c \in Cells, NEW i, Nth(i, c)
  PROVE  Nth(i, c)'
  <1>1. PICK h \in Hashes : h = Hash[c]
    BY DEF Hashes
  <1>2. ASSUME NEW d \in Cells, NEW g \in Hashes, NEW z \in Nat \ {0}, Joins(d, g, z) PROVE Nth(i, c)'
    <2>1. CASE g = h
      BY <1>1, <1>2, <2>1 DEF Nth, Joins
    <2>2. CASE g # h
      BY <1>1, <1>2, <2>2 DEF Nth, Joins
    <2> QED BY <2>1, <2>2
  <1>3. CASE UNCHANGED versions
    BY <1>3 DEF Nth
  <1> QED BY <1>2, <1>3, VersionsMove

LEMMA NumberKept ==
  ASSUME ListInv, VersionsInv, [Next]_vars, NEW c \in Cells, NEW i, Nth(i, c), NEW j, Nth(j, c)'
  PROVE  j = i
  <1>1. Nth(i, c)' /\ VersionsInv'
    BY NumberGrows, VersionsStep
  <1>2. Hash[c] \in Hashes
    BY DEF Hashes
  <1> QED BY <1>1, <1>2 DEF Nth, VersionsInv, VersionsOf

\* A version that was replaced stays so.
LEMMA ReplacedStays ==
  ASSUME OneKey, ListInv, VersionsInv, ChainInv, [Next]_vars, NEW n \in Cells, Placed(n), next[n].mark = "del"
  PROVE  next'[n].mark = "del"
  <1>1. PICK i \in Nat, m \in Cells : Nth(i, n) /\ Nth(i + 1, m)
    BY ChainAt
  <1>2. Nth(i, n)' /\ Nth(i + 1, m)'
    BY <1>1, NumberGrows
  <1>3. PICK h \in Hashes : h = Hash[n] /\ h = Hash[m]
    BY DEF Hashes, OneKey
  <1>4. Chained(h)' /\ versions'[h] \in Seq(Cells)
    BY ChainStep, VersionsStep DEF ChainInv, VersionsInv
  <1>5. DOMAIN versions'[h] = 1 .. Len(versions'[h]) /\ Len(versions'[h]) \in Nat
    BY <1>4
  <1>6. i \in DOMAIN versions'[h] /\ versions'[h][i] = n /\ i < Len(versions'[h])
    BY <1>2, <1>3, <1>5 DEF Nth
  <1> QED BY <1>4, <1>6, PointersAre DEF Chained

\* The newest version is not marked; all others are older.
LEMMA NewestIs ==
  ASSUME OneKey, ListInv, VersionsInv, ChainInv, NEW n \in Cells, Placed(n), next[n].mark # "del",
         NEW c \in Cells, NEW i, Nth(i, c), NEW j, Nth(j, n)
  PROVE  i <= j
  <1>1. PICK h \in Hashes : h = Hash[n]
    BY DEF Hashes
  <1>2. n = versions[h][Len(versions[h])] /\ Len(versions[h]) # 0 /\ Len(versions[h]) \in Nat
    BY <1>1, ChainAt, OneHistory
  <1>3. Nth(Len(versions[h]), n) /\ i \in 1 .. Len(versions[h])
    BY <1>2, OneHistory
  <1>4. j = Len(versions[h])
    BY <1>3, NumberIsOne
  <1> QED BY <1>3, <1>4
LEMMA WalkStep ==
  ASSUME OneKey, ListInv, VersionsInv, ChainInv, WalkInv, [Next]_vars
  PROVE  WalkInv'
  <1> SUFFICES ASSUME NEW d \in Cells PROVE Walks(d)'
    BY DEF WalkInv
  <1> USE DEF ListInv
  <1>1. ASSUME NEW n \in Cells, NEW i \in Nat, NEW j \in Nat, Nth(i, d), Nth(j, n)
        PROVE  Nth(i, d)' /\ Nth(j, n)'
    BY <1>1, NumberGrows
  <1>2. ASSUME pc'[d] = pc[d], curr'[d] = curr[d] PROVE Walks(d)'
    <2>1. Walks(d)
      BY DEF WalkInv
    <2>2. pc[d] = "follow" => next'[curr[d]].mark = "del"
      <3>1. pc[d] = "follow" => curr[d] \in Cells /\ Placed(curr[d]) /\ next[curr[d]].mark = "del"
        BY <2>1 DEF Walks, AtCurr
      <3> QED BY <3>1, ReplacedStays
    <2>3. ASSUME pc[d] \in {"walk", "follow", "log", "done"}
          PROVE  \E n \in Cells, i, j \in Nat : n = curr[d] /\ Nth(i, d) /\ Nth(j, n) /\ i <= j
      BY <2>1, <2>3 DEF Walks
    <2>4. ASSUME pc[d] \in {"walk", "follow", "log", "done"}
          PROVE  \E n \in Cells, i, j \in Nat : n = curr[d] /\ Nth(i, d)' /\ Nth(j, n)' /\ i <= j
      BY <2>3, <2>4, <1>1
    <2> QED BY <1>2, <2>1, <2>2, <2>4 DEF Walks, Nth
  <1>3. CASE Lock(d)
    <2>1. pc[d] = "linked" /\ pc'[d] = "walk" /\ curr'[d] = d
      BY <1>3, PlacedIs DEF Lock, Goto, Types
    <2>2. PICK i \in Nat : Nth(i, d)
      <3>1. Placed(d)
        BY <2>1 DEF Placed, Inserted
      <3>2. PICK h \in Hashes : h = Hash[d]
        BY DEF Hashes
      <3>3. PICK i \in 1 .. Len(versions[h]) : versions[h][i] = d
        BY <3>1, OneHistory
      <3> QED BY <3>3, OneHistory
    <2>3. Nth(i, d)'
      BY <2>2, NumberGrows
    <2> QED BY <2>1, <2>3 DEF Walks
  <1>4. CASE Walk(d)
    <2>1. pc[d] = "walk" /\ curr[d] \in Cells /\ curr'[d] = curr[d] /\ UNCHANGED next
      BY <1>4 DEF Walk, WalkInv, Walks, search_vars
    <2>2. SameKey(d, curr[d])
      BY <2>1, CellsAssumption DEF SameKey, OneKey
    <2>3. pc'[d] \in {"follow", "log"} /\ (pc'[d] = "follow" => next[curr[d]].mark = "del")
      BY <1>4, <2>2 DEF Walk, Goto, Outdated, Types
    <2>4. PICK n \in Cells, i \in Nat, j \in Nat : n = curr[d] /\ Nth(i, d) /\ Nth(j, n) /\ i <= j
      BY <2>1 DEF WalkInv, Walks
    <2>5. Nth(i, d)' /\ Nth(j, n)'
      BY <1>1, <2>4
    <2> QED BY <2>1, <2>3, <2>4, <2>5 DEF Walks
  <1>5. CASE Follow(d)
    <2>1. PICK n \in Cells, i \in Nat, j \in Nat : n = curr[d] /\ Nth(i, d) /\ Nth(j, n) /\ i <= j
      BY <1>5 DEF Follow, WalkInv, Walks
    <2>2. next[n].mark = "del" /\ Placed(n)
      BY <1>5, <2>1 DEF Follow, WalkInv, Walks, AtCurr
    <2>3. PICK m \in Cells : m = next[n].ref /\ \E k \in Nat : Nth(k, n) /\ Nth(k + 1, m)
      BY <2>2, ChainAt
    <2>4. Nth(j + 1, m)
      BY <2>1, <2>3, NumberIsOne
    <2>5. pc'[d] = "walk" /\ curr'[d] = m
      BY <1>5, <2>1, <2>3, PlacedIs DEF Follow, Goto, Types
    <2>6. Nth(i, d)' /\ Nth(j + 1, m)' /\ j + 1 \in Nat /\ i <= j + 1
      BY <1>1, <2>1, <2>4
    <2> QED BY <2>5, <2>6 DEF Walks
  <1>6. CASE LogLatest(d)
    <2>1. pc[d] = "log" /\ pc'[d] = "done" /\ curr'[d] = curr[d]
      BY <1>6 DEF LogLatest, Goto, Types, search_vars
    <2>2. PICK n \in Cells, i \in Nat, j \in Nat : n = curr[d] /\ Nth(i, d) /\ Nth(j, n) /\ i <= j
      BY <2>1 DEF WalkInv, Walks
    <2>3. Nth(i, d)' /\ Nth(j, n)'
      BY <1>1, <2>2
    <2> QED BY <2>1, <2>2, <2>3 DEF Walks
  <1>7. CASE Insert(d) \/ Replace(d)
    <2>1. pc'[d] \in {"linked", "search", "insert", "replace"}
      BY <1>7 DEF Insert, Replace, Linked, Goto, Retry, Types
    <2> QED BY <2>1 DEF Walks
  <1>8. CASE ReadHead(d) \/ ReadFirst(d) \/ ReadNext(d) \/ SkipDeleted(d) \/ Pass(d) \/ Protect(d) \/ ExitSearch(d)
    <2>1. pc'[d] \in {"first", "next", "loop", "pass", "replace", "insert"}
      BY <1>8 DEF ReadHead, ReadFirst, ReadNext, SkipDeleted, Pass, Protect, ExitSearch, InLoop, Goto, Types
    <2> QED BY <2>1 DEF Walks
  <1>9. CASE \E c \in Cells \ {d} : Step(c)
    BY <1>2, <1>9, StepIsOwn DEF OnlyOwn
  <1>10. CASE UNCHANGED vars
    BY <1>2, <1>10 DEF vars
  <1> QED BY <1>3, <1>4, <1>5, <1>6, <1>7, <1>8, <1>9, <1>10 DEF Next, Step
\* Until somebody logs, what was logged stays in order; who comes to log has
\* found the newest version.
LEMMA LogKept ==
  ASSUME OneKey, ListInv, VersionsInv, LockInv, ChainInv, WalkInv, LogInv, [Next]_vars, UNCHANGED log
  PROVE  LogInv'
  <1>1. \A k \in DOMAIN log : log[k] \in Cells /\ \E i \in Nat : Nth(i, log[k])
    BY DEF LockInv, LogInv, LoggedInOrder
  <1>2. ASSUME NEW k \in DOMAIN log, NEW i, Nth(i, log[k])' PROVE Nth(i, log[k])
    <2>1. PICK n \in Cells, j \in Nat : n = log[k] /\ Nth(j, n)
      BY <1>1
    <2>2. Nth(i, n)'
      BY <1>2, <2>1 DEF Nth
    <2> QED BY <2>1, <2>2, NumberKept
  <1>3. LoggedInOrder'
    <2>1. ASSUME NEW k \in DOMAIN log PROVE \E i \in Nat : Nth(i, log[k])'
      <3>1. PICK n \in Cells, j \in Nat : n = log[k] /\ Nth(j, n)
        BY <1>1
      <3>2. Nth(j, n)'
        BY <3>1, NumberGrows
      <3> QED BY <3>1, <3>2 DEF Nth
    <2>2. ASSUME NEW k \in DOMAIN log, NEW l \in DOMAIN log, NEW i \in Nat, NEW j \in Nat, k < l,
                 Nth(i, log[k])', Nth(j, log[l])'
          PROVE  i <= j
      <3>1. Nth(i, log[k]) /\ Nth(j, log[l])
        BY <1>2, <2>2
      <3> QED BY <2>2, <3>1 DEF LogInv, LoggedInOrder
    <2> QED BY <2>1, <2>2 DEF LoggedInOrder
  <1>4. ASSUME NEW c \in Cells, pc'[c] = pc[c], curr'[c] = curr[c] PROVE LogsNewest(c)'
    <2>1. ASSUME pc[c] = "log", NEW k \in DOMAIN log, NEW i \in Nat, NEW j \in Nat,
                 Nth(i, log[k])', Nth(j, curr[c])'
          PROVE  i <= j
      <3>1. PICK n \in Cells, m \in Nat : n = curr[c] /\ Nth(m, n)
        BY <2>1 DEF WalkInv, Walks
      <3>2. Nth(j, n)' 
        BY <1>4, <2>1, <3>1 DEF Nth
      <3>3. Nth(j, curr[c]) /\ Nth(i, log[k])
        BY <1>2, <2>1, <3>1, <3>2, NumberKept
      <3> QED BY <2>1, <3>3 DEF LogInv, LogsNewest
    <2> QED BY <1>4, <2>1 DEF LogInv, LogsNewest, Nth
  <1>5. ASSUME NEW c \in Cells, Walk(c) PROVE LogsNewest(c)'
    <2>1. pc'[c] = "log" \/ pc'[c] \notin {"log", "done"}
      BY <1>5 DEF Walk, Goto, ListInv, Types
    <2>2. ASSUME pc'[c] = "log", NEW k \in DOMAIN log, NEW i \in Nat, NEW j \in Nat,
                 Nth(i, log[k])', Nth(j, curr[c])'
          PROVE  i <= j
      <3>1. PICK n \in Cells, m \in Nat : n = curr[c] /\ Nth(m, n)
        BY <1>5 DEF Walk, WalkInv, Walks
      <3>2. Placed(n) /\ next[n].mark # "del" /\ UNCHANGED curr
        BY <1>5, <2>2, <3>1 DEF Walk, Goto, Outdated, ListInv, Types, AtCurr, search_vars
      <3>3. Nth(j, n)'
        BY <2>2, <3>1, <3>2 DEF Nth
      <3>4. j = m /\ Nth(i, log[k])
        BY <1>2, <2>2, <3>1, <3>3, NumberKept
      <3> QED BY <1>1, <3>1, <3>2, <3>4, NewestIs
    <2> QED BY <1>5, <2>1, <2>2 DEF LogsNewest
  <1>6. ASSUME NEW c \in Cells, Step(c), ~Walk(c) PROVE LogsNewest(c)'
    <2>1. ~LogLatest(c)
      <3>1. log \in Seq(Cells) /\ Len(log) \in Nat
        BY DEF LockInv
      <3>2. ASSUME NEW n \in Cells PROVE log # Append(log, n)
        BY <3>1
      <3>3. LogLatest(c) => curr[c] \in Cells /\ log' = Append(log, curr[c])
        BY DEF LogLatest, Logged, WalkInv, Walks
      <3> QED BY <3>2, <3>3
    <2>2. CASE Lock(c) \/ Follow(c) \/ Insert(c) \/ Replace(c)
      <3>1. pc'[c] \notin {"log", "done"}
        BY <2>2 DEF Lock, Follow, Insert, Replace, Linked, Retry, Goto, ListInv, Types
      <3> QED BY <3>1 DEF LogsNewest
    <2>3. CASE ReadHead(c) \/ ReadFirst(c) \/ ReadNext(c) \/ SkipDeleted(c) \/ Pass(c) \/ Protect(c) \/ ExitSearch(c)
      <3>1. pc'[c] \notin {"log", "done"}
        BY <2>3 DEF ReadHead, ReadFirst, ReadNext, SkipDeleted, Pass, Protect, ExitSearch, InLoop, Goto, ListInv, Types
      <3> QED BY <3>1 DEF LogsNewest
    <2> QED BY <1>6, <2>1, <2>2, <2>3 DEF Step
  <1>7. \A c \in Cells : LogsNewest(c)'
    <2>1. CASE Next
      <3>1. PICK d \in Cells : Step(d)
        BY <2>1 DEF Next
      <3> QED BY <1>4, <1>5, <1>6, <3>1, StepIsOwn DEF OnlyOwn
    <2>2. CASE UNCHANGED vars
      BY <1>4, <2>2 DEF vars
    <2> QED BY <2>1, <2>2
  <1> QED BY <1>3, <1>7 DEF LogInv
\* What is logged is as new as everything logged before.
LEMMA LogGrows ==
  ASSUME OneKey, ListInv, VersionsInv, LockInv, ChainInv, WalkInv, LogInv, NEW c \in Cells, LogLatest(c)
  PROVE  LogInv'
  <1>1. /\ pc[c] = "log" /\ pc'[c] = "done" /\ UNCHANGED <<versions, curr>>
        /\ \A d \in Cells \ {c} : pc'[d] = pc[d]
    BY DEF LogLatest, Goto, ListInv, Types, search_vars
  <1>2. PICK n \in Cells, m \in Nat : n = curr[c] /\ Nth(m, n)
    BY <1>1 DEF WalkInv, Walks
  <1>3. PICK z \in Nat \ {0} : Len(log) = z - 1 /\ DOMAIN log = 1 .. z - 1
    <2>1. Len(log) \in Nat /\ DOMAIN log = 1 .. Len(log)
      BY DEF LockInv
    <2> QED BY <2>1
  <1>4. /\ DOMAIN log' = 1 .. z /\ log'[z] = n
        /\ \A k \in 1 .. z - 1 : log'[k] = log[k]
    <2>1. log' = Append(log, n) /\ log \in Seq(Cells)
      BY <1>2 DEF LogLatest, Logged, LockInv
    <2> QED BY <1>3, <2>1
  <1>5. \A i, d : Nth(i, d)' <=> Nth(i, d)
    BY <1>1 DEF Nth
  <1>6. \A k \in 1 .. z : k = z \/ k \in 1 .. z - 1
    OBVIOUS
  <1>7. ASSUME NEW k \in 1 .. z PROVE \E i \in Nat : Nth(i, log'[k])
    BY <1>2, <1>3, <1>4, <1>6 DEF LogInv, LoggedInOrder
  <1>8. ASSUME NEW k \in 1 .. z, NEW l \in 1 .. z, NEW i \in Nat, NEW j \in Nat, k < l,
               Nth(i, log'[k]), Nth(j, log'[l])
        PROVE  i <= j
    <2>1. k \in 1 .. z - 1 /\ log'[k] = log[k] /\ Nth(i, log[k])
      BY <1>4, <1>8
    <2>2. CASE l = z
      BY <1>1, <1>2, <1>3, <1>4, <1>8, <2>1, <2>2 DEF LogInv, LogsNewest
    <2>3. CASE l # z
      BY <1>3, <1>4, <1>6, <1>8, <2>1, <2>3 DEF LogInv, LoggedInOrder
    <2> QED BY <2>2, <2>3
  <1>9. LoggedInOrder'
    <2>1. \A k \in 1 .. z : \E i \in Nat : Nth(i, log[k])'
      BY <1>1, <1>7 DEF Nth
    <2>2. \A k, l \in 1 .. z, i, j \in Nat : k < l /\ Nth(i, log[k])' /\ Nth(j, log[l])' => i <= j
      BY <1>1, <1>8 DEF Nth
    <2> QED BY <1>4, <2>1, <2>2 DEF LoggedInOrder
  <1>10. LogsNewest(c)'
    <2>1. z \in 1 .. z
      OBVIOUS
    <2> QED BY <1>1, <1>2, <1>4, <2>1 DEF LogsNewest
  <1>11. ASSUME NEW d \in Cells, d # c PROVE LogsNewest(d)'
    <2>1. pc[d] # "log"
      BY <1>1, <1>11 DEF LockInv, Locked
    <2>2. pc[d] = "done" => \E k \in 1 .. z : log'[k] = curr[d]
      <3>1. ASSUME pc[d] = "done" PROVE \E k \in 1 .. z - 1 : log[k] = curr[d]
        BY <1>3, <3>1 DEF LogInv, LogsNewest
      <3>2. \A k \in 1 .. z - 1 : k \in 1 .. z
        OBVIOUS
      <3> QED BY <1>4, <3>1, <3>2
    <2> QED BY <1>1, <1>4, <1>11, <2>1, <2>2 DEF LogsNewest
  <1> QED BY <1>9, <1>10, <1>11 DEF LogInv

LEMMA LogStep ==
  ASSUME OneKey, ListInv, VersionsInv, LockInv, ChainInv, WalkInv, LogInv, [Next]_vars
  PROVE  LogInv'
  <1>1. UNCHANGED log \/ \E c \in Cells : LogLatest(c)
    BY DEF Next, Step, vars, ReadHead, ReadFirst, ReadNext, SkipDeleted, Pass, Protect, ExitSearch, Insert, Replace,
           Lock, Walk, Follow
  <1> QED BY <1>1, LogKept, LogGrows

\* With one key: writers find the newest version and log it.
LEMMA LogHolds == OneKey => (Spec => [](WalkInv /\ LogInv))
  <1> SUFFICES ASSUME OneKey PROVE Spec => [](WalkInv /\ LogInv)
    OBVIOUS
  <1>1. Init => WalkInv /\ LogInv
    BY DEF Init, WalkInv, Walks, LogInv, LoggedInOrder, LogsNewest
  <1>2. ListInv /\ VersionsInv /\ LockInv /\ ChainInv /\ WalkInv /\ LogInv /\ [Next]_vars => (WalkInv /\ LogInv)'
    BY WalkStep, LogStep
  <1>3. Spec => []ChainInv
    BY ChainHolds
  <1> QED BY <1>1, <1>2, <1>3, ListHolds, VersionsHold, PTL DEF Spec

LEMMA NumberOf ==
  ASSUME VersionsInv, NEW c \in Cells, NEW i, Nth(i, c)
  PROVE  VersionNumber(c) = i
  <1>1. \A j \in DOMAIN versions[Hash[c]] : versions[Hash[c]][j] = c => j = i
    BY NumberIsOne DEF Nth
  <1> QED BY <1>1 DEF VersionNumber, Nth

\* For every number of writers of one key: the log never goes back to an older
\* version (write_request, scot-rpli.cc:48-149).
THEOREM LogIsNeverStale == OneKey => (Spec => []LogNeverStale)
  <1> SUFFICES ASSUME OneKey PROVE Spec => []LogNeverStale
    OBVIOUS
  <1>1. VersionsInv /\ LockInv /\ LogInv => LogNeverStale
    <2> SUFFICES ASSUME VersionsInv, LockInv, LogInv, NEW k \in DOMAIN log, NEW l \in DOMAIN log, k < l
                 PROVE  VersionNumber(log[k]) <= VersionNumber(log[l])
      BY DEF LogNeverStale
    <2>1. PICK m \in Cells, n \in Cells, i \in Nat, j \in Nat : m = log[k] /\ n = log[l] /\ Nth(i, m) /\ Nth(j, n)
      BY DEF LockInv, LogInv, LoggedInOrder
    <2>2. i <= j
      BY <2>1 DEF LogInv, LoggedInOrder
    <2> QED BY <2>1, <2>2, NumberOf
  <1> QED BY <1>1, LogHolds, VersionsHold, PTL

\* For every number of writers of one key: a request that returns has its
\* entry in the log, or a newer version of its key (scot-rpli.cc:27-41).
THEOREM LogCoversWriters == OneKey => (Spec => []LogCovers)
  <1> SUFFICES ASSUME OneKey PROVE Spec => []LogCovers
    OBVIOUS
  <1>1. VersionsInv /\ WalkInv /\ LogInv => LogCovers
    <2> SUFFICES ASSUME VersionsInv, WalkInv, LogInv, NEW c \in Cells, pc[c] = "done"
                 PROVE  \E k \in DOMAIN log : Hash[log[k]] = Hash[c] /\ VersionNumber(log[k]) >= VersionNumber(c)
      BY DEF LogCovers
    <2>1. PICK n \in Cells, i \in Nat, j \in Nat : n = curr[c] /\ Nth(i, c) /\ Nth(j, n) /\ i <= j
      BY DEF WalkInv, Walks
    <2>2. PICK k \in DOMAIN log : log[k] = n
      BY <2>1 DEF LogInv, LogsNewest
    <2>3. Hash[n] = Hash[c] /\ VersionNumber(n) = j /\ VersionNumber(c) = i
      BY <2>1, NumberOf DEF OneKey
    <2> QED BY <2>1, <2>2, <2>3
  <1> QED BY <1>1, LogHolds, VersionsHold, PTL

\* For every number of writers of one key, the assertion behind the walk holds
\* (scot-rpli.cc:39); with two keys in the bucket it does not.
THEOREM AssertionHolds == OneKey => (Spec => []NoAssertFailure)
  <1>1. WalkInv => NoAssertFailure
    BY DEF WalkInv, Walks, NoAssertFailure
  <1> QED BY <1>1, LogHolds, PTL
(***************************************************************************)
(* The refinement: linking is the step that makes a version, reading the   *)
(* last pointer of the walk is the step that answers.                      *)
(***************************************************************************)
Answer(c) == IF pc[c] \in {"log", "done"} THEN curr[c] ELSE NoCell

LEMMA AnswersKept ==
  ASSUME NEW c \in Cells, OnlyOwn(c), Answer(c)' = Answer(c)
  PROVE  UNCHANGED [d \in Cells |-> IF pc[d] \in {"log", "done"} THEN curr[d] ELSE NoCell]
  <1>1. \A d \in Cells : (IF pc'[d] \in {"log", "done"} THEN curr'[d] ELSE NoCell)
                         = IF pc[d] \in {"log", "done"} THEN curr[d] ELSE NoCell
    BY DEF OnlyOwn, Answer
  <1> QED BY <1>1

\* Linking an entry makes it the newest version of its key.
LEMMA LinkIsNewVersion ==
  ASSUME ListInv, VersionsInv, NEW c \in Cells, Insert(c) \/ Replace(c), Linked(c)
  PROVE  Map!NewVersion(c)
  <1>1. pc[c] \in {"insert", "replace"} /\ pc'[c] = "linked"
    BY DEF Insert, Replace, Linked, Goto, ListInv, Types
  <1>2. ~Map!Put(c)
    <2>1. Hash[c] \in Hashes
      BY DEF Hashes
    <2> QED BY <1>1, <2>1 DEF Map!Put, VersionsInv, VersionsOf, Inserted
  <1>3. UNCHANGED [d \in Cells |-> IF pc[d] \in {"log", "done"} THEN curr[d] ELSE NoCell]
    BY <1>1, StepIsOwn, AnswersKept DEF Step, Answer
  <1> QED BY <1>2, <1>3 DEF Map!NewVersion, Linked

\* The walk ends at the newest version there is.
LEMMA WalkIsGetLatest ==
  ASSUME OneKey, ListInv, VersionsInv, ChainInv, WalkInv, NEW c \in Cells, Walk(c), pc'[c] = "log"
  PROVE  Map!GetLatest(c)
  <1>1. pc[c] = "walk" /\ pc' = [pc EXCEPT ![c] = "log"] /\ UNCHANGED <<curr, versions>> /\ ~Outdated(c)
    BY DEF Walk, Goto, ListInv, Types, search_vars
  <1>2. PICK n \in Cells, i \in Nat, j \in Nat : n = curr[c] /\ Nth(i, c) /\ Nth(j, n)
    BY <1>1 DEF WalkInv, Walks
  <1>3. Map!Put(c)
    BY <1>2 DEF Nth, Map!Put
  <1>4. n = Map!Newest(Hash[c])
    <2>1. Placed(n) /\ next[n].mark # "del"
      BY <1>1, <1>2 DEF Outdated, ListInv, AtCurr
    <2>2. n = versions[Hash[n]][Len(versions[Hash[n]])] /\ Hash[n] = Hash[c]
      BY <2>1, ChainAt DEF OneKey
    <2> QED BY <2>2 DEF Map!Newest
  <1>5. /\ (IF pc[c] \in {"log", "done"} THEN curr[c] ELSE NoCell) = NoCell
        /\ [d \in Cells |-> IF pc'[d] \in {"log", "done"} THEN curr'[d] ELSE NoCell]
           = [[d \in Cells |-> IF pc[d] \in {"log", "done"} THEN curr[d] ELSE NoCell] EXCEPT ![c] = n]
    BY <1>1, <1>2 DEF ListInv, Types
  <1> QED BY <1>1, <1>3, <1>4, <1>5 DEF Map!GetLatest

LEMMA MapStep ==
  ASSUME OneKey, ListInv, VersionsInv, ChainInv, WalkInv, [Next]_vars
  PROVE  [Map!Next]_(Map!vars)
  <1>1. ASSUME NEW c \in Cells, Step(c), UNCHANGED versions, Answer(c)' = Answer(c) PROVE UNCHANGED Map!vars
    BY <1>1, StepIsOwn, AnswersKept DEF Map!vars
  <1>2. ASSUME NEW c \in Cells, Insert(c) \/ Replace(c) PROVE [Map!Next]_(Map!vars)
    <2>1. CASE Linked(c)
      BY <1>2, <2>1, LinkIsNewVersion DEF Map!Next
    <2>2. CASE ~Linked(c)
      <3>1. UNCHANGED versions /\ pc[c] \notin {"log", "done"} /\ pc'[c] \notin {"log", "done"}
        BY <1>2, <2>2 DEF Insert, Replace, Retry, Goto, ListInv, Types
      <3> QED BY <1>1, <1>2, <3>1 DEF Step, Answer
    <2> QED BY <2>1, <2>2
  <1>3. ASSUME NEW c \in Cells, Walk(c) PROVE [Map!Next]_(Map!vars)
    <2>1. CASE pc'[c] = "log"
      BY <1>3, <2>1, WalkIsGetLatest DEF Map!Next
    <2>2. CASE pc'[c] # "log"
      <3>1. UNCHANGED versions /\ pc[c] \notin {"log", "done"} /\ pc'[c] \notin {"log", "done"}
        BY <1>3, <2>2 DEF Walk, Goto, ListInv, Types
      <3> QED BY <1>1, <1>3, <3>1 DEF Step, Answer
    <2> QED BY <2>1, <2>2
  <1>4. ASSUME NEW c \in Cells, Lock(c) \/ Follow(c) PROVE UNCHANGED Map!vars
    <2>1. UNCHANGED versions /\ pc[c] \notin {"log", "done"} /\ pc'[c] \notin {"log", "done"}
      BY <1>4 DEF Lock, Follow, Goto, ListInv, Types
    <2> QED BY <1>1, <1>4, <2>1 DEF Step, Answer
  <1>5. ASSUME NEW c \in Cells, LogLatest(c) PROVE UNCHANGED Map!vars
    <2>1. UNCHANGED <<versions, curr>> /\ pc[c] = "log" /\ pc'[c] = "done"
      BY <1>5 DEF LogLatest, Goto, ListInv, Types, search_vars
    <2> QED BY <1>1, <1>5, <2>1 DEF Step, Answer
  <1>6. ASSUME NEW c \in Cells,
               ReadHead(c) \/ ReadFirst(c) \/ ReadNext(c) \/ SkipDeleted(c) \/ Pass(c) \/ Protect(c) \/ ExitSearch(c)
        PROVE  UNCHANGED Map!vars
    <2>1. UNCHANGED versions /\ pc[c] \in SearchLabels /\ pc'[c] \notin {"log", "done"}
      BY <1>6 DEF ReadHead, ReadFirst, ReadNext, SkipDeleted, Pass, Protect, ExitSearch, InLoop, Goto, ListInv, Types,
                  SearchLabels
    <2> QED BY <1>1, <1>6, <2>1 DEF Step, Answer, SearchLabels
  <1>7. CASE UNCHANGED vars
    BY <1>7 DEF vars, Map!vars
  <1> QED BY <1>2, <1>3, <1>4, <1>5, <1>6, <1>7 DEF Next, Step

\* For every number of writers of one key, the table implements a map whose
\* entries become, in one step, the newest version of their key, and whose
\* readers get the newest (__ht_try_insert, __ht_get_latest_entry).
THEOREM ImplementsMap == OneKey => (Spec => ImplementsVersionMap)
  <1> SUFFICES ASSUME OneKey PROVE Spec => ImplementsVersionMap
    OBVIOUS
  <1>1. Init => Map!Init
    BY DEF Init, Map!Init, Map!Hashes, Hashes
  <1>2. ListInv /\ VersionsInv /\ ChainInv /\ WalkInv /\ [Next]_vars => [Map!Next]_(Map!vars)
    BY MapStep
  <1>3. Spec => [](ListInv /\ VersionsInv /\ ChainInv /\ WalkInv)
    BY ListHolds, VersionsHold, ChainHolds, LogHolds, PTL
  <1> QED BY <1>1, <1>2, <1>3, PTL DEF Spec, ImplementsVersionMap, Map!Spec
===============================================================================
