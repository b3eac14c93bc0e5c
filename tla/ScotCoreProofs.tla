----------------------------- MODULE ScotCoreProofs -----------------------------
(***************************************************************************)
(* Proofs about ScotCore: for a quorum of any size, logs of any number of  *)
(* entries and any of them written to, no worker takes what nobody wrote,  *)
(* and none works before all readers of its node have their worker.        *)
(***************************************************************************)
EXTENDS ScotCore, ScotConnectionProofs

LEMMA CountedIs ==
  ASSUME NEW s, NEW k \in Nat, Counted(s, k)
  PROVE  Len(s) = k /\ Makes(s, k, {s[i] : i \in 1 .. k})
  <1> DEFINE S == {s[i] : i \in 1 .. k}
  <1>1. (\A i \in 1 .. k : s[i] \in S) /\ (\A c \in S : \E i \in 1 .. k : s[i] = c)
    OBVIOUS
  <1> HIDE DEF S
  <1>2. s \in [1 .. k -> S]
    BY <1>1 DEF Counted
  <1>3. Len(s) = k
    BY <1>2
  <1>4. Makes(s, k, S)
    BY <1>1, Zenon DEF Makes
  <1> QED BY <1>3, <1>4 DEF S

LEMMA ConcatIs ==
  ASSUME NEW k \in Nat, NEW l \in Nat, NEW s, NEW t, Counted(s, k), Counted(t, l),
         NEW u, IsConcat(u, s, t), NEW e, e = k + l
  PROVE  Counted(u, e) /\ Follows(u, s, t, k, l)
  <1>1. PICK C : Makes(s, k, C)
    BY CountedIs, Zenon
  <1>2. PICK D : Makes(t, l, D)
    BY CountedIs, Zenon
  <1>3. Makes(u, e, C \cup D) /\ Follows(u, s, t, k, l)
    BY <1>1, <1>2, ConcatMakes
  <1> QED BY <1>3 DEF Makes

(***************************************************************************)
(* The core's constructor, step by step.                                   *)
(***************************************************************************)
Kinds == {"rply", "rcvr"}
ReadersOf(n) == {r \in Readers : r[2] = n}

LEMMA ReadersAre ==
  ASSUME NEW n \in Nodes
  PROVE  /\ \A kind \in Kinds, p \in Peers(n) : <<kind, n, p>> \in ReadersOf(n)
         /\ \A r \in ReadersOf(n) : r[1] \in Kinds /\ r[3] \in Peers(n) /\ r = <<r[1], n, r[3]>>
  <1>1. ASSUME NEW kind \in Kinds, NEW p \in Peers(n) PROVE <<kind, n, p>> \in ReadersOf(n)
    <2>1. p \in Nodes /\ p # n
      BY DEF Peers
    <2> QED BY <2>1 DEF ReadersOf, Readers, Kinds
  <1>2. ASSUME NEW r \in ReadersOf(n) PROVE r[1] \in Kinds /\ r[3] \in Peers(n) /\ r = <<r[1], n, r[3]>>
    <2>1. PICK kind \in Kinds, k \in Nodes, p \in Nodes : r = <<kind, k, p>> /\ k # p
      BY DEF ReadersOf, Readers, Kinds
    <2>2. k = n
      BY <2>1 DEF ReadersOf
    <2> QED BY <2>1, <2>2 DEF Peers
  <1> QED BY <1>1, <1>2

\* The places of a reader's steps: zeroed, paused, spawned, and let run.
At(r, j) ==
  IF j = 4 THEN (IF r[1] = "rply" THEN 6 * Others ELSE 7 * Others) + Place(r[2], r[3], 1, 1)
  ELSE (IF r[1] = "rply" THEN 0 ELSE 3 * Others) + Place(r[2], r[3], 3, j)
Step(r, j) == Do(IF j = 1 THEN "zero" ELSE IF j = 3 THEN "spawn" ELSE "toggle", r)
CoreEnd == 8 * Others

IsPlaced(n) ==
  /\ \A r \in ReadersOf(n), j \in 1 .. 4 :
       /\ At(r, j) \in 1 .. CoreEnd
       /\ CoreConstructor[n][At(r, j)] = Step(r, j)
       /\ j < 4 => At(r, j) <= 6 * Others
       /\ j = 4 => At(r, j) > 6 * Others
       /\ j < 4 => At(r, j) = At(r, 1) + (j - 1)
  /\ \A i \in 1 .. CoreEnd : \E r \in ReadersOf(n), j \in 1 .. 4 : i = At(r, j)

LEMMA CoreConstructorIs ==
  ASSUME NEW n \in Nodes
  PROVE  Len(CoreConstructor[n]) = CoreEnd /\ IsPlaced(n)
  <1> DEFINE round(kind) == [p \in Nodes |-> Construct(<<kind, n, p>>)]
             run(kind) == [p \in Nodes |-> <<Do("toggle", <<kind, n, p>>)>>]
             a == ForPeers(n, round("rply"))
             b == ForPeers(n, round("rcvr"))
             c == ForPeers(n, run("rply"))
             d == ForPeers(n, run("rcvr"))
             s == a \o b
             t == s \o c
             u == t \o d
  <1>1. PICK m \in Nat : m = Others /\ m = QuorumSize - 1
    BY OthersIs
  <1>2. \A p \in Peers(n), kind \in Kinds :
          /\ round(kind)[p][1] = Do("zero", <<kind, n, p>>) /\ round(kind)[p][2] = Do("toggle", <<kind, n, p>>)
          /\ round(kind)[p][3] = Do("spawn", <<kind, n, p>>) /\ run(kind)[p][1] = Do("toggle", <<kind, n, p>>)
    BY DEF Peers, Construct
  <1>3. \A kind \in Kinds : Len(round(kind)[n]) = 3 /\ Len(run(kind)[n]) = 1
    BY DEF Construct
  <1>4. CoreConstructor[n] = u
    BY Zenon DEF CoreConstructor, RunReplayers, RunReceivers
  <1>5. IsConcat(s, a, b) /\ IsConcat(t, s, c) /\ IsConcat(u, t, d)
    BY Zenon DEF IsConcat
  <1> HIDE DEF round, run
  <1>6. /\ LoopAt(a, n, round("rply"), 3, m) /\ LoopAt(b, n, round("rcvr"), 3, m)
        /\ LoopAt(c, n, run("rply"), 1, m) /\ LoopAt(d, n, run("rcvr"), 1, m)
    <2>1. 3 \in {1, 3, 6, 7, 8} /\ 1 \in {1, 3, 6, 7, 8} /\ "rply" \in Kinds /\ "rcvr" \in Kinds
      BY DEF Kinds
    <2> QED BY <1>1, <1>3, <2>1, LoopIs
  <1> HIDE DEF a, b, c, d, s, t, u
  <1>7. Counted(a, 3 * m) /\ Counted(b, 3 * m) /\ Counted(c, m) /\ Counted(d, m)
    <2>1. 1 * m = m
      OBVIOUS
    <2>2. Counted(a, 3 * m) /\ Counted(b, 3 * m) /\ Counted(c, 1 * m) /\ Counted(d, 1 * m)
      BY <1>6, Zenon DEF LoopAt
    <2> QED BY <2>1, <2>2
  <1>8. /\ Follows(s, a, b, 3 * m, 3 * m) /\ Follows(t, s, c, 6 * m, m) /\ Follows(u, t, d, 7 * m, m)
        /\ Counted(u, 8 * m)
    <2>1. /\ 3 * m \in Nat /\ 6 * m \in Nat /\ 7 * m \in Nat /\ 8 * m \in Nat
          /\ 6 * m = 3 * m + 3 * m /\ 7 * m = 6 * m + m /\ 8 * m = 7 * m + m
      OBVIOUS
    <2>2. Counted(s, 6 * m) /\ Follows(s, a, b, 3 * m, 3 * m)
      BY <1>5, <1>7, <2>1, ConcatIs
    <2>3. Counted(t, 7 * m) /\ Follows(t, s, c, 6 * m, m)
      BY <1>5, <1>7, <2>1, <2>2, ConcatIs
    <2>4. Counted(u, 8 * m) /\ Follows(u, t, d, 7 * m, m)
      BY <1>5, <1>7, <2>1, <2>3, ConcatIs
    <2> QED BY <2>2, <2>3, <2>4
  <1>9. Len(CoreConstructor[n]) = CoreEnd
    <2>1. 8 * m \in Nat
      OBVIOUS
    <2>2. Len(u) = 8 * m
      BY <1>8, <2>1, CountedIs
    <2> QED BY <1>1, <1>4, <2>2 DEF CoreEnd
  \* Where the calls of each loop end up.
  <1>10. /\ \A i \in 1 .. 3 * m : u[i] = a[i]
         /\ \A i \in 1 .. 3 * m : u[3 * m + i] = b[i]
         /\ \A i \in 1 .. m : u[6 * m + i] = c[i]
         /\ \A i \in 1 .. m : u[7 * m + i] = d[i]
    <2>1. \A i \in 1 .. 3 * m : i \in 1 .. 6 * m /\ i \in 1 .. 7 * m /\ 3 * m + i \in 1 .. 6 * m /\ 3 * m + i \in 1 .. 7 * m
      OBVIOUS
    <2>2. \A i \in 1 .. m : 6 * m + i \in 1 .. 7 * m
      OBVIOUS
    <2> QED BY <1>8, <2>1, <2>2 DEF Follows
  <1>11. ASSUME NEW p \in Peers(n)
         PROVE  /\ \A j \in 1 .. 3 : /\ Place(n, p, 3, j) \in 1 .. 3 * m
                                     /\ a[Place(n, p, 3, j)] = round("rply")[p][j] /\ b[Place(n, p, 3, j)] = round("rcvr")[p][j]
                                     /\ Place(n, p, 3, j) = Place(n, p, 3, 1) + (j - 1)
                /\ Place(n, p, 1, 1) \in 1 .. m
                /\ c[Place(n, p, 1, 1)] = run("rply")[p][1] /\ d[Place(n, p, 1, 1)] = run("rcvr")[p][1]
    <2>1. \A j \in 1 .. 3 : /\ Place(n, p, 3, j) \in 1 .. 3 * m
                            /\ a[Place(n, p, 3, j)] = round("rply")[p][j] /\ b[Place(n, p, 3, j)] = round("rcvr")[p][j]
      BY <1>6, Zenon DEF LoopAt
    <2>2. Place(n, p, 1, 1) \in 1 .. 1 * m /\ c[Place(n, p, 1, 1)] = run("rply")[p][1] /\ d[Place(n, p, 1, 1)] = run("rcvr")[p][1]
      <3>1. 1 \in 1 .. 1
        OBVIOUS
      <3> QED BY <1>6, <3>1, Zenon DEF LoopAt
    <2>3. Index(n, p) \in Int
      BY <1>1, QuorumIs
    <2> QED BY <2>1, <2>2, <2>3 DEF Place
  <1>12. ASSUME NEW p \in Peers(n), NEW kind \in Kinds, NEW r, r = <<kind, n, p>>
         PROVE  /\ \A j \in 1 .. 3 : /\ At(r, j) \in 1 .. 6 * m /\ At(r, j) = At(r, 1) + (j - 1)
                                     /\ CoreConstructor[n][At(r, j)] = Step(r, j)
                /\ At(r, 4) \in 6 * m + 1 .. 8 * m /\ CoreConstructor[n][At(r, 4)] = Step(r, 4)
    <2>1. r[1] = kind /\ r[2] = n /\ r[3] = p
      BY <1>12
    <2>2. PICK x1, x2, x3, y : /\ x1 = Place(n, p, 3, 1) /\ x2 = Place(n, p, 3, 2) /\ x3 = Place(n, p, 3, 3)
                               /\ y = Place(n, p, 1, 1)
      OBVIOUS
    <2>3. x1 \in 1 .. 3 * m /\ x2 = x1 + 1 /\ x3 = x1 + 2 /\ x3 \in 1 .. 3 * m /\ y \in 1 .. m
      <3>1. 1 \in 1 .. 3 /\ 2 \in 1 .. 3 /\ 3 \in 1 .. 3
        OBVIOUS
      <3> QED BY <1>11, <2>2, <3>1
    <2>4. PICK z \in {0, 3 * m} : z = IF kind = "rply" THEN 0 ELSE 3 * m
      OBVIOUS
    <2>5. PICK v \in {6 * m, 7 * m} : v = IF kind = "rply" THEN 6 * m ELSE 7 * m
      OBVIOUS
    <2>6. At(r, 1) = z + x1 /\ At(r, 2) = z + x2 /\ At(r, 3) = z + x3 /\ At(r, 4) = v + y
      BY <1>1, <2>1, <2>2, <2>4, <2>5 DEF At
    <2>7. /\ z + x1 \in 1 .. 6 * m /\ z + x2 = (z + x1) + 1 /\ z + x3 = (z + x1) + 2
          /\ z + x2 \in 1 .. 6 * m /\ z + x3 \in 1 .. 6 * m
          /\ v + y \in 6 * m + 1 .. 8 * m /\ x2 \in 1 .. 3 * m
      BY <2>3
    <2>8. /\ u[z + x1] = round(kind)[p][1] /\ u[z + x2] = round(kind)[p][2] /\ u[z + x3] = round(kind)[p][3]
          /\ u[v + y] = run(kind)[p][1]
      <3>1. 1 \in 1 .. 3 /\ 2 \in 1 .. 3 /\ 3 \in 1 .. 3
        OBVIOUS
      <3>2. CASE kind = "rply"
        <4>1. a[x1] = round(kind)[p][1] /\ a[x2] = round(kind)[p][2] /\ a[x3] = round(kind)[p][3] /\ c[y] = run(kind)[p][1]
          BY <1>11, <2>2, <3>1, <3>2
        <4>2. z + x1 = x1 /\ z + x2 = x2 /\ z + x3 = x3 /\ v = 6 * m
          BY <2>3, <2>4, <2>5, <3>2
        <4>3. u[x1] = a[x1] /\ u[x2] = a[x2] /\ u[x3] = a[x3] /\ u[6 * m + y] = c[y]
          BY <1>10, <2>3, <2>7
        <4> QED BY <4>1, <4>2, <4>3
      <3>3. CASE kind # "rply"
        <4>1. b[x1] = round(kind)[p][1] /\ b[x2] = round(kind)[p][2] /\ b[x3] = round(kind)[p][3] /\ d[y] = run(kind)[p][1]
          BY <1>11, <2>2, <3>1, <3>3 DEF Kinds
        <4>2. z = 3 * m /\ v = 7 * m
          BY <2>4, <2>5, <3>3
        <4>3. u[3 * m + x1] = b[x1] /\ u[3 * m + x2] = b[x2] /\ u[3 * m + x3] = b[x3] /\ u[7 * m + y] = d[y]
          BY <1>10, <2>3, <2>7
        <4> QED BY <4>1, <4>2, <4>3
      <3> QED BY <3>2, <3>3
    <2>9. /\ u[At(r, 1)] = Step(r, 1) /\ u[At(r, 2)] = Step(r, 2) /\ u[At(r, 3)] = Step(r, 3) /\ u[At(r, 4)] = Step(r, 4)
      BY <1>2, <1>12, <2>6, <2>8 DEF Step
    <2>10. \A j \in 1 .. 3 : j \in {1, 2, 3}
      OBVIOUS
    <2> QED BY <1>4, <2>6, <2>7, <2>9, <2>10
  <1>13. ASSUME NEW r \in ReadersOf(n), NEW j \in 1 .. 4
         PROVE  /\ At(r, j) \in 1 .. CoreEnd
                /\ CoreConstructor[n][At(r, j)] = Step(r, j)
                /\ j < 4 => At(r, j) <= 6 * Others
                /\ j = 4 => At(r, j) > 6 * Others
                /\ j < 4 => At(r, j) = At(r, 1) + (j - 1)
    <2>1. PICK kind \in Kinds, p \in Peers(n) : r = <<kind, n, p>>
      BY ReadersAre
    <2>2. CASE j = 4
      BY <1>1, <1>12, <2>1, <2>2 DEF CoreEnd
    <2>3. CASE j # 4
      <3>1. j \in 1 .. 3 /\ j < 4
        BY <2>3
      <3>2. PICK x : x = At(r, j) /\ x \in 1 .. 6 * m /\ x = At(r, 1) + (j - 1) /\ CoreConstructor[n][x] = Step(r, j)
        BY <1>12, <2>1, <3>1
      <3>3. x \in 1 .. CoreEnd /\ x <= 6 * Others
        BY <1>1, <3>2 DEF CoreEnd
      <3> QED BY <2>3, <3>1, <3>2, <3>3
    <2> QED BY <2>2, <2>3
  <1>14. ASSUME NEW i \in 1 .. CoreEnd PROVE \E r \in ReadersOf(n), j \in 1 .. 4 : i = At(r, j)
    <2>1. /\ \A k \in 1 .. 3 * m : \E p \in Peers(n), j \in 1 .. 3 : k = Place(n, p, 3, j)
          /\ \A k \in 1 .. m : \E p \in Peers(n), j \in 1 .. 1 : k = Place(n, p, 1, j)
      <3>1. 1 * m = m
        OBVIOUS
      <3>2. \A k \in 1 .. 1 * m : \E p \in Peers(n), j \in 1 .. 1 : k = Place(n, p, 1, j)
        BY <1>6, Zenon DEF LoopAt
      <3> QED BY <1>6, <3>1, <3>2, Zenon DEF LoopAt
    <2>2. \A kind \in Kinds, p \in Peers(n) : <<kind, n, p>> \in ReadersOf(n)
      BY ReadersAre
    <2>3. "rply" \in Kinds /\ "rcvr" \in Kinds
      BY DEF Kinds
    <2>4. CASE i \in 1 .. 3 * m
      <3>1. PICK p \in Peers(n), j \in 1 .. 3 : i = Place(n, p, 3, j)
        BY <2>1, <2>4
      <3>2. At(<<"rply", n, p>>, j) = 0 + Place(n, p, 3, j)
        BY DEF At
      <3>3. j \in 1 .. 4 /\ i = 0 + i
        OBVIOUS
      <3> QED BY <2>2, <2>3, <3>1, <3>2, <3>3
    <2>5. CASE i - 3 * m \in 1 .. 3 * m
      <3>1. PICK k \in 1 .. 3 * m : i = 3 * m + k
        BY <2>5
      <3>2. PICK p \in Peers(n), j \in 1 .. 3 : k = Place(n, p, 3, j)
        BY <2>1
      <3>3. At(<<"rcvr", n, p>>, j) = 3 * m + Place(n, p, 3, j)
        BY <1>1 DEF At
      <3>4. j \in 1 .. 4
        OBVIOUS
      <3> QED BY <2>2, <2>3, <3>1, <3>2, <3>3, <3>4
    <2>6. CASE i - 6 * m \in 1 .. m
      <3>1. PICK k \in 1 .. m : i = 6 * m + k
        BY <2>6
      <3>2. PICK p \in Peers(n) : k = Place(n, p, 1, 1)
        BY <2>1
      <3>3. At(<<"rply", n, p>>, 4) = 6 * m + Place(n, p, 1, 1)
        BY <1>1 DEF At
      <3> QED BY <2>2, <2>3, <3>1, <3>2, <3>3
    <2>7. CASE i - 7 * m \in 1 .. m
      <3>1. PICK k \in 1 .. m : i = 7 * m + k
        BY <2>7
      <3>2. PICK p \in Peers(n) : k = Place(n, p, 1, 1)
        BY <2>1
      <3>3. At(<<"rcvr", n, p>>, 4) = 7 * m + Place(n, p, 1, 1)
        BY <1>1 DEF At
      <3> QED BY <2>2, <2>3, <3>1, <3>2, <3>3
    <2>8. i \in 1 .. 3 * m \/ i - 3 * m \in 1 .. 3 * m \/ i - 6 * m \in 1 .. m \/ i - 7 * m \in 1 .. m
      BY <1>1 DEF CoreEnd
    <2> QED BY <2>4, <2>5, <2>6, <2>7, <2>8
  <1>15. IsPlaced(n)
    BY <1>13, <1>14, Zenon DEF IsPlaced
  <1> QED BY <1>9, <1>15
(***************************************************************************)
(* The inductive invariant.                                                *)
(***************************************************************************)
\* The core of r's node has made the k-th of the steps that concern r.
Past(r, k, b) == b >= At(r, k)
Passed(r, k) == Past(r, k, built[r[2]])

BuiltOK == built \in [Nodes -> Nat] /\ \A n \in Nodes : built[n] <= CoreEnd

FlagsInv ==
  /\ DOMAIN paused = Readers /\ DOMAIN zeroed = Readers /\ spawned \subseteq Readers
  /\ paused \in [Readers -> BOOLEAN]
  /\ \A r \in Readers :
       /\ Passed(r, 1) => zeroed[r] = Words(r)
       /\ paused[r] <=> Passed(r, 2) /\ ~Passed(r, 4)
       /\ r \in spawned <=> Passed(r, 3)

\* A word that is not zero, although it was zeroed, has been delivered.
WordsInv ==
  /\ DOMAIN nonzero = Readers /\ DOMAIN zeroed = Readers
  /\ \A r \in Readers :
       /\ nonzero[r] \subseteq Words(r) /\ zeroed[r] \subseteq Words(r)
       /\ nonzero[r] \cap zeroed[r] \subseteq 1 .. delivered[r]

CountsInv ==
  /\ posted \in [Readers -> 0 .. MaxEntries] /\ got \in [Readers -> Nat] /\ delivered \in [Readers -> Nat]
  /\ \A r \in Readers : delivered[r] <= 2 * posted[r] /\ 2 * got[r] <= delivered[r]
  /\ early \subseteq Watched

WorkInv == \A r \in Readers : got[r] > 0 => built[r[2]] > 6 * Others

CoreInv == BuiltOK /\ FlagsInv /\ WordsInv /\ CountsInv /\ WorkInv

LEMMA Passing ==
  ASSUME NEW n \in Nodes, NEW r \in ReadersOf(n), NEW j \in 1 .. 4, NEW b \in Nat, b + 1 = At(r, j)
  PROVE  /\ \A q \in ReadersOf(n), k \in 1 .. 4 : Past(q, k, b + 1) <=> Past(q, k, b) \/ (q = r /\ k = j)
         /\ \A k \in 1 .. 4 : Past(r, k, b) <=> k < j
  <1>1. IsPlaced(n)
    BY CoreConstructorIs
  <1>2. \A q \in ReadersOf(n), k \in 1 .. 4 : At(q, k) \in Int /\ CoreConstructor[n][At(q, k)] = Step(q, k)
    BY <1>1 DEF IsPlaced
  <1>3. ASSUME NEW k \in 1 .. 4, NEW l \in 1 .. 4, k < l PROVE At(r, k) < At(r, l)
    <2>1. PICK x, y \in Int : x = At(r, k) /\ y = At(r, l)
      BY <1>2
    <2>2. k < 4
      BY <1>3
    <2>3. PICK z \in Int : z = At(r, 1)
      <3>1. 1 \in 1 .. 4
        OBVIOUS
      <3> QED BY <1>2, <3>1
    <2>4. PICK o : o = 6 * Others
      OBVIOUS
    <2>5. x <= o /\ x = z + (k - 1)
      BY <1>1, <2>1, <2>2, <2>3, <2>4 DEF IsPlaced
    <2>6. (l = 4 => y > o) /\ (l < 4 => y = z + (l - 1))
      BY <1>1, <2>1, <2>3, <2>4 DEF IsPlaced
    <2>7. o \in Int
      BY <2>4, OthersIs
    <2>8. CASE l = 4
      BY <2>1, <2>5, <2>6, <2>7, <2>8
    <2>9. CASE l # 4
      BY <1>3, <2>1, <2>5, <2>6, <2>9
    <2> QED BY <2>8, <2>9
  <1>4. ASSUME NEW q \in ReadersOf(n), NEW k \in 1 .. 4, At(q, k) = At(r, j) PROVE q = r /\ k = j
    <2>1. Step(q, k) = Step(r, j)
      BY <1>2, <1>4
    <2>2. q = r
      BY <2>1 DEF Step, Do
    <2>3. ~(k < j) /\ ~(j < k)
      BY <1>2, <1>3, <1>4, <2>2
    <2> QED BY <2>2, <2>3
  <1>5. ASSUME NEW q \in ReadersOf(n), NEW k \in 1 .. 4
        PROVE  Past(q, k, b + 1) <=> Past(q, k, b) \/ (q = r /\ k = j)
    <2>1. PICK x \in Int : x = At(q, k)
      BY <1>2
    <2>2. b + 1 >= x <=> b >= x \/ x = b + 1
      OBVIOUS
    <2>3. x = b + 1 <=> q = r /\ k = j
      BY <1>4, <2>1
    <2> QED BY <2>1, <2>2, <2>3 DEF Past
  <1>6. ASSUME NEW k \in 1 .. 4 PROVE Past(r, k, b) <=> k < j
    <2>1. PICK x \in Int : x = At(r, k)
      BY <1>2
    <2>2. (k < j => x < b + 1) /\ (k = j => x = b + 1) /\ (j < k => b + 1 < x)
      BY <1>3, <2>1
    <2>3. b >= x <=> k < j
      BY <2>2
    <2> QED BY <2>1, <2>3 DEF Past
  <1> QED BY <1>5, <1>6

\* The next step of a core's constructor concerns one of its readers.
LEMMA DoIs ==
  ASSUME NEW n \in Nodes, NEW op, BuiltOK, MayDo(n, op)
  PROVE  \E r \in ReadersOf(n), j \in 1 .. 4 :
           built[n] + 1 = At(r, j) /\ NextDo(n) = Step(r, j) /\ built[n] + 1 <= CoreEnd
  <1>1. Len(CoreConstructor[n]) = CoreEnd /\ IsPlaced(n)
    BY CoreConstructorIs
  <1>2. CoreEnd \in Nat
    BY OthersIs DEF CoreEnd
  <1>3. built[n] + 1 \in 1 .. CoreEnd
    BY <1>1, <1>2 DEF MayDo, Built, BuiltOK
  <1>4. PICK r \in ReadersOf(n), j \in 1 .. 4 : built[n] + 1 = At(r, j)
    BY <1>1, <1>3 DEF IsPlaced
  <1>5. NextDo(n) = Step(r, j)
    BY <1>1, <1>4 DEF IsPlaced, NextDo
  <1> QED BY <1>2, <1>3, <1>4, <1>5

LEMMA CoreInitially ==
  ASSUME CoreInit
  PROVE  CoreInv
  <1>1. CoreEnd \in Nat
    BY OthersIs DEF CoreEnd
  <1>2. BuiltOK
    BY <1>1 DEF CoreInit, BuiltOK
  <1>3. ASSUME NEW r \in Readers, NEW k \in 1 .. 4 PROVE ~Passed(r, k)
    <2>1. r[2] \in Nodes /\ r \in ReadersOf(r[2])
      BY DEF Readers, ReadersOf
    <2>2. At(r, k) \in 1 .. CoreEnd
      BY <2>1, CoreConstructorIs DEF IsPlaced
    <2>3. built[r[2]] = 0
      BY <2>1 DEF CoreInit
    <2> QED BY <2>2, <2>3 DEF Passed, Past
  <1>4. FlagsInv
    <2>1. 1 \in 1 .. 4 /\ 2 \in 1 .. 4 /\ 3 \in 1 .. 4
      OBVIOUS
    <2> QED BY <1>3, <2>1 DEF CoreInit, FlagsInv
  <1>5. WordsInv
    BY DEF CoreInit, WordsInv
  <1>6. CountsInv
    BY MaxEntriesAssumption DEF CoreInit, CountsInv
  <1>7. WorkInv
    BY DEF CoreInit, WorkInv
  <1> QED BY <1>2, <1>4, <1>5, <1>6, <1>7 DEF CoreInv
LEMMA NextPassed ==
  ASSUME NEW n \in Nodes, NEW r \in ReadersOf(n), NEW j \in 1 .. 4, BuiltOK, built[n] + 1 = At(r, j),
         built' = [built EXCEPT ![n] = @ + 1]
  PROVE  /\ \A q \in Readers, k \in 1 .. 4 : Passed(q, k)' <=> Passed(q, k) \/ (q = r /\ k = j)
         /\ \A k \in 1 .. 4 : Passed(r, k) <=> k < j
  <1>1. PICK b \in Nat : b = built[n]
    BY DEF BuiltOK
  <1>2. b + 1 = At(r, j) /\ b + 1 = built'[n] /\ \A m \in Nodes : m # n => built'[m] = built[m]
    BY <1>1 DEF BuiltOK
  <1>3. /\ \A q \in ReadersOf(n), k \in 1 .. 4 : Past(q, k, b + 1) <=> Past(q, k, b) \/ (q = r /\ k = j)
        /\ \A k \in 1 .. 4 : Past(r, k, b) <=> k < j
    BY <1>2, Passing
  <1>4. r[2] = n /\ \A q \in Readers : q[2] \in Nodes /\ (q[2] = n => q \in ReadersOf(n))
    BY DEF ReadersOf, Readers
  <1>5. ASSUME NEW q \in Readers, NEW k \in 1 .. 4 PROVE Passed(q, k)' <=> Passed(q, k) \/ (q = r /\ k = j)
    <2>1. CASE q[2] = n
      <3>1. Passed(q, k) <=> Past(q, k, b)
        BY <1>1, <2>1 DEF Passed
      <3>2. Passed(q, k)' <=> Past(q, k, b + 1)
        <4>1. Passed(q, k)' <=> Past(q, k, built'[q[2]])
          BY DEF Passed, Past
        <4> QED BY <1>2, <2>1, <4>1
      <3> QED BY <1>3, <1>4, <2>1, <3>1, <3>2
    <2>2. CASE q[2] # n
      <3>1. built'[q[2]] = built[q[2]]
        BY <1>2, <1>4, <2>2
      <3>2. Passed(q, k)' <=> Passed(q, k)
        BY <3>1 DEF Passed, Past
      <3> QED BY <1>4, <2>2, <3>2
    <2> QED BY <2>1, <2>2
  <1>6. \A k \in 1 .. 4 : Passed(r, k) <=> k < j
    BY <1>1, <1>3, <1>4 DEF Passed
  <1> QED BY <1>5, <1>6

LEMMA BuiltGrows ==
  ASSUME NEW n \in Nodes, BuiltOK, built[n] + 1 <= CoreEnd, built' = [built EXCEPT ![n] = @ + 1], WorkInv, got' = got
  PROVE  BuiltOK' /\ WorkInv'
  <1>1. BuiltOK'
    BY DEF BuiltOK
  <1>2. WorkInv'
    <2> SUFFICES ASSUME NEW r \in Readers, got'[r] > 0 PROVE built'[r[2]] > 6 * Others
      BY DEF WorkInv
    <2>1. r[2] \in Nodes
      BY DEF Readers
    <2>2. PICK o : o = 6 * Others
      OBVIOUS
    <2>3. o \in Int
      BY <2>2, OthersIs
    <2>4. built[r[2]] > o /\ built[r[2]] \in Nat
      BY <2>1, <2>2 DEF WorkInv, BuiltOK
    <2>5. built'[r[2]] > o
      BY <2>1, <2>3, <2>4 DEF BuiltOK
    <2> QED BY <2>2, <2>5
  <1> QED BY <1>1, <1>2

LEMMA ToggleStep ==
  ASSUME NEW n \in Nodes, CoreInv, Toggle(n)
  PROVE  CoreInv'
  <1>1. BuiltOK /\ FlagsInv /\ WordsInv /\ CountsInv /\ WorkInv
    BY DEF CoreInv
  <1>2. PICK r \in ReadersOf(n), j \in 1 .. 4 : built[n] + 1 = At(r, j) /\ NextDo(n) = Step(r, j) /\ built[n] + 1 <= CoreEnd
    BY <1>1, DoIs DEF Toggle
  <1>3. NextDo(n).reader = r /\ NextDo(n).op = "toggle" /\ (j = 2 \/ j = 4) /\ r \in Readers
    BY <1>2 DEF Toggle, MayDo, Step, Do, ReadersOf
  <1>4. /\ \A q \in Readers, k \in 1 .. 4 : Passed(q, k)' <=> Passed(q, k) \/ (q = r /\ k = j)
        /\ \A k \in 1 .. 4 : Passed(r, k) <=> k < j
    BY <1>1, <1>2, NextPassed DEF Toggle
  <1>5. paused' = [paused EXCEPT ![r] = ~paused[r]] /\ zeroed' = zeroed /\ spawned' = spawned
    BY <1>3 DEF Toggle
  <1>6. FlagsInv'
    <2>1. 1 \in 1 .. 4 /\ 2 \in 1 .. 4 /\ 3 \in 1 .. 4 /\ 4 \in 1 .. 4
      OBVIOUS
    <2>2. \A q \in Readers : /\ Passed(q, 1)' <=> Passed(q, 1)
                             /\ Passed(q, 3)' <=> Passed(q, 3)
      BY <1>3, <1>4, <2>1
    <2>3. ASSUME NEW q \in Readers PROVE paused'[q] <=> Passed(q, 2)' /\ ~Passed(q, 4)'
      <3>1. CASE q # r
        <4>1. paused'[q] = paused[q]
          BY <1>1, <1>5, <3>1, Zenon DEF FlagsInv
        <4>2. (Passed(q, 2)' <=> Passed(q, 2)) /\ (Passed(q, 4)' <=> Passed(q, 4))
          BY <1>4, <2>1, <3>1
        <4>3. paused[q] <=> Passed(q, 2) /\ ~Passed(q, 4)
          BY <1>1, Zenon DEF FlagsInv
        <4> QED BY <4>1, <4>2, <4>3, Zenon
      <3>2. CASE q = r
        <4>1. paused'[r] = ~paused[r]
          BY <1>1, <1>3, <1>5, Zenon DEF FlagsInv
        <4>2. paused[r] <=> Passed(r, 2) /\ ~Passed(r, 4)
          BY <1>1, <1>3, Zenon DEF FlagsInv
        <4>3. (Passed(r, 2) <=> 2 < j) /\ (Passed(r, 4) <=> 4 < j)
          BY <1>4, <2>1
        <4>4. (Passed(r, 2)' <=> 2 < j \/ j = 2) /\ (Passed(r, 4)' <=> 4 < j \/ j = 4)
          BY <1>3, <1>4, <2>1, <4>3
        <4>5. ~(4 < j) /\ (j = 2 => ~(2 < j)) /\ (j = 4 => 2 < j) /\ 2 # 4
          BY <1>3
        <4>6. (Passed(r, 2) /\ ~Passed(r, 4)) <=> j = 4
          BY <1>3, <4>3, <4>5
        <4>7. (Passed(r, 2)' /\ ~Passed(r, 4)') <=> j = 2
          BY <1>3, <4>4, <4>5
        <4>8. (j = 2) <=> ~(j = 4)
          BY <1>3
        <4> QED BY <3>2, <4>1, <4>2, <4>6, <4>7, <4>8, Zenon
      <3> QED BY <3>1, <3>2
    <2>4. paused' \in [Readers -> BOOLEAN]
      BY <1>1, <1>5, Zenon DEF FlagsInv
    <2>5. DOMAIN paused' = Readers
      BY <1>1, <1>5, Zenon DEF FlagsInv
    <2>6. \A q \in Readers : (Passed(q, 1)' => zeroed'[q] = Words(q)) /\ (q \in spawned' <=> Passed(q, 3)')
      BY <1>1, <1>5, <2>2 DEF FlagsInv
    <2>7. DOMAIN zeroed' = Readers /\ spawned' \subseteq Readers
      BY <1>1, <1>5 DEF FlagsInv
    <2> QED BY <2>3, <2>4, <2>5, <2>6, <2>7, Zenon DEF FlagsInv, Words
  <1>7. WordsInv' /\ CountsInv'
    BY <1>1 DEF Toggle, WordsInv, CountsInv, Words
  <1>8. BuiltOK' /\ WorkInv'
    BY <1>1, <1>2, BuiltGrows DEF Toggle
  <1> QED BY <1>6, <1>7, <1>8 DEF CoreInv

LEMMA SpawnStep ==
  ASSUME NEW n \in Nodes, CoreInv, Spawn(n)
  PROVE  CoreInv'
  <1>1. BuiltOK /\ FlagsInv /\ WordsInv /\ CountsInv /\ WorkInv
    BY DEF CoreInv
  <1>2. PICK r \in ReadersOf(n), j \in 1 .. 4 : built[n] + 1 = At(r, j) /\ NextDo(n) = Step(r, j) /\ built[n] + 1 <= CoreEnd
    BY <1>1, DoIs DEF Spawn
  <1>3. NextDo(n).reader = r /\ j = 3 /\ r \in Readers
    BY <1>2 DEF Spawn, MayDo, Step, Do, ReadersOf
  <1>4. \A q \in Readers, k \in 1 .. 4 : Passed(q, k)' <=> Passed(q, k) \/ (q = r /\ k = j)
    BY <1>1, <1>2, NextPassed DEF Spawn
  <1>5. paused' = paused /\ zeroed' = zeroed /\ spawned' = spawned \cup {r}
    BY <1>3 DEF Spawn
  <1>6. FlagsInv'
    <2>1. \A q \in Readers : /\ Passed(q, 1)' <=> Passed(q, 1)
                             /\ Passed(q, 2)' <=> Passed(q, 2)
                             /\ Passed(q, 3)' <=> Passed(q, 3) \/ q = r
                             /\ Passed(q, 4)' <=> Passed(q, 4)
      BY <1>3, <1>4
    <2>2. DOMAIN paused' = Readers /\ DOMAIN zeroed' = Readers /\ spawned' \subseteq Readers
      BY <1>1, <1>3, <1>5 DEF FlagsInv
    <2>3. paused' \in [Readers -> BOOLEAN]
      BY <1>1, <1>5, Zenon DEF FlagsInv
    <2>4. \A q \in Readers : (Passed(q, 1)' => zeroed'[q] = Words(q)) /\ (q \in spawned' <=> Passed(q, 3)')
      BY <1>1, <1>5, <2>1 DEF FlagsInv
    <2>5. \A q \in Readers : paused'[q] <=> Passed(q, 2)' /\ ~Passed(q, 4)'
      BY <1>1, <1>5, <2>1, Zenon DEF FlagsInv
    <2> QED BY <2>2, <2>3, <2>4, <2>5, Zenon DEF FlagsInv, Words
  <1>7. WordsInv' /\ CountsInv'
    BY <1>1 DEF Spawn, WordsInv, CountsInv, Words
  <1>8. BuiltOK' /\ WorkInv'
    BY <1>1, <1>2, BuiltGrows DEF Spawn
  <1> QED BY <1>6, <1>7, <1>8 DEF CoreInv
LEMMA ZeroStep ==
  ASSUME NEW n \in Nodes, CoreInv, Zero(n)
  PROVE  CoreInv'
  <1>1. BuiltOK /\ FlagsInv /\ WordsInv /\ CountsInv /\ WorkInv
    BY DEF CoreInv
  <1>2. PICK r \in ReadersOf(n), j \in 1 .. 4 : built[n] + 1 = At(r, j) /\ NextDo(n) = Step(r, j) /\ built[n] + 1 <= CoreEnd
    BY <1>1, DoIs DEF Zero
  <1>3. NextDo(n).reader = r /\ j = 1 /\ r \in Readers
    BY <1>2 DEF Zero, MayDo, Step, Do, ReadersOf
  <1>4. PICK w \in Words(r) :
          /\ nonzero' = [nonzero EXCEPT ![r] = nonzero[r] \ {w}]
          /\ zeroed' = [zeroed EXCEPT ![r] = zeroed[r] \cup {w}]
          /\ built' = [built EXCEPT ![n] = IF zeroed'[r] = Words(r) THEN @ + 1 ELSE @]
    BY <1>3 DEF Zero
  <1>5. UNCHANGED <<paused, spawned, posted, delivered, got, early>>
    BY DEF Zero
  <1>6. WordsInv'
    <2>1. \A q \in Readers : q # r => nonzero'[q] = nonzero[q] /\ zeroed'[q] = zeroed[q]
      BY <1>1, <1>4 DEF WordsInv
    <2>2. nonzero'[r] = nonzero[r] \ {w} /\ zeroed'[r] = zeroed[r] \cup {w}
      BY <1>1, <1>3, <1>4 DEF WordsInv
    <2>3. \A q \in Readers : /\ nonzero'[q] \subseteq Words(q) /\ zeroed'[q] \subseteq Words(q)
                             /\ nonzero'[q] \cap zeroed'[q] \subseteq 1 .. delivered[q]
      BY <1>1, <2>1, <2>2 DEF WordsInv
    <2>4. DOMAIN nonzero' = Readers /\ DOMAIN zeroed' = Readers
      BY <1>1, <1>4 DEF WordsInv
    <2> QED BY <1>5, <2>3, <2>4 DEF WordsInv, Words
  <1>7. CountsInv'
    BY <1>1, <1>5 DEF CountsInv
  <1>8. CASE zeroed'[r] = Words(r)
    <2>1. built' = [built EXCEPT ![n] = @ + 1]
      BY <1>4, <1>8
    <2>2. \A q \in Readers, k \in 1 .. 4 : Passed(q, k)' <=> Passed(q, k) \/ (q = r /\ k = j)
      BY <1>1, <1>2, <2>1, NextPassed
    <2>3. \A q \in Readers : /\ Passed(q, 1)' <=> Passed(q, 1) \/ q = r
                             /\ Passed(q, 2)' <=> Passed(q, 2)
                             /\ Passed(q, 3)' <=> Passed(q, 3)
                             /\ Passed(q, 4)' <=> Passed(q, 4)
      BY <1>3, <2>2
    <2>4. DOMAIN paused' = Readers /\ DOMAIN zeroed' = Readers /\ spawned' \subseteq Readers
      BY <1>1, <1>4, <1>5 DEF FlagsInv
    <2>5. paused' \in [Readers -> BOOLEAN]
      BY <1>1, <1>5, Zenon DEF FlagsInv
    <2>6. \A q \in Readers : q # r => zeroed'[q] = zeroed[q]
      BY <1>1, <1>4 DEF FlagsInv
    <2>7. \A q \in Readers : (Passed(q, 1)' => zeroed'[q] = Words(q)) /\ (q \in spawned' <=> Passed(q, 3)')
      BY <1>1, <1>5, <1>8, <2>3, <2>6 DEF FlagsInv
    <2>8. \A q \in Readers : paused'[q] <=> Passed(q, 2)' /\ ~Passed(q, 4)'
      BY <1>1, <1>5, <2>3, Zenon DEF FlagsInv
    <2>9. FlagsInv'
      BY <2>4, <2>5, <2>7, <2>8, Zenon DEF FlagsInv, Words
    <2>10. BuiltOK' /\ WorkInv'
      BY <1>1, <1>2, <1>5, <2>1, BuiltGrows
    <2> QED BY <1>6, <1>7, <2>9, <2>10 DEF CoreInv
  <1>9. CASE zeroed'[r] # Words(r)
    <2>1. built' = built
      BY <1>1, <1>4, <1>9 DEF BuiltOK
    <2>2. ~Passed(r, 1)
      <3>1. PICK b \in Nat : b = built[n]
        BY <1>1 DEF BuiltOK
      <3>2. 1 \in 1 .. 4 /\ ~(1 < 1)
        OBVIOUS
      <3>3. Past(r, 1, b) <=> 1 < 1
        BY <1>2, <1>3, <3>1, <3>2, Passing
      <3>4. r[2] = n
        BY DEF ReadersOf
      <3> QED BY <3>1, <3>2, <3>3, <3>4 DEF Passed
    <2>3. \A q \in Readers, k \in 1 .. 4 : Passed(q, k)' <=> Passed(q, k)
      BY <2>1 DEF Passed, Past
    <2>4. \A q \in Readers : /\ Passed(q, 1)' <=> Passed(q, 1)
                             /\ Passed(q, 2)' <=> Passed(q, 2)
                             /\ Passed(q, 3)' <=> Passed(q, 3)
                             /\ Passed(q, 4)' <=> Passed(q, 4)
      BY <2>3
    <2>5. DOMAIN paused' = Readers /\ DOMAIN zeroed' = Readers /\ spawned' \subseteq Readers
      BY <1>1, <1>4, <1>5 DEF FlagsInv
    <2>6. paused' \in [Readers -> BOOLEAN]
      BY <1>1, <1>5, Zenon DEF FlagsInv
    <2>7. \A q \in Readers : q # r => zeroed'[q] = zeroed[q]
      BY <1>1, <1>4 DEF FlagsInv
    <2>8. \A q \in Readers : (Passed(q, 1)' => zeroed'[q] = Words(q)) /\ (q \in spawned' <=> Passed(q, 3)')
      BY <1>1, <1>5, <2>2, <2>4, <2>7 DEF FlagsInv
    <2>9. \A q \in Readers : paused'[q] <=> Passed(q, 2)' /\ ~Passed(q, 4)'
      BY <1>1, <1>5, <2>4, Zenon DEF FlagsInv
    <2>10. FlagsInv'
      BY <2>5, <2>6, <2>8, <2>9, Zenon DEF FlagsInv, Words
    <2>11. BuiltOK' /\ WorkInv'
      BY <1>1, <1>5, <2>1 DEF BuiltOK, WorkInv
    <2> QED BY <1>6, <1>7, <2>10, <2>11 DEF CoreInv
  <1> QED BY <1>8, <1>9

\* Steps that leave the constructors alone.
LEMMA FlagsStay ==
  ASSUME FlagsInv, BuiltOK, UNCHANGED <<built, zeroed, paused, spawned>>
  PROVE  FlagsInv' /\ BuiltOK'
  <1>1. \A q \in Readers : /\ Passed(q, 1)' <=> Passed(q, 1)
                           /\ Passed(q, 2)' <=> Passed(q, 2)
                           /\ Passed(q, 3)' <=> Passed(q, 3)
                           /\ Passed(q, 4)' <=> Passed(q, 4)
    BY DEF Passed, Past
  <1>2. \A q \in Readers : (Passed(q, 1)' => zeroed'[q] = Words(q)) /\ (q \in spawned' <=> Passed(q, 3)')
    BY <1>1 DEF FlagsInv
  <1>3. \A q \in Readers : paused'[q] <=> Passed(q, 2)' /\ ~Passed(q, 4)'
    BY <1>1, Zenon DEF FlagsInv
  <1>4. DOMAIN paused' = Readers /\ DOMAIN zeroed' = Readers /\ spawned' \subseteq Readers
    BY DEF FlagsInv
  <1>5. paused' \in [Readers -> BOOLEAN]
    BY Zenon DEF FlagsInv
  <1>6. FlagsInv'
    BY <1>2, <1>3, <1>4, <1>5, Zenon DEF FlagsInv, Words
  <1>7. BuiltOK'
    BY DEF BuiltOK
  <1> QED BY <1>6, <1>7

LEMMA PostStep ==
  ASSUME NEW r \in Watched, CoreInv, Post(r)
  PROVE  CoreInv'
  <1>1. BuiltOK /\ FlagsInv /\ WordsInv /\ CountsInv /\ WorkInv
    BY DEF CoreInv
  <1>2. BuiltOK' /\ FlagsInv'
    BY <1>1, FlagsStay DEF Post
  <1>3. WordsInv' /\ WorkInv'
    BY <1>1 DEF Post, WordsInv, WorkInv, Words
  <1>4. CountsInv'
    BY <1>1, WatchedAssumption, MaxEntriesAssumption DEF Post, CountsInv
  <1> QED BY <1>2, <1>3, <1>4 DEF CoreInv

LEMMA DeliverStep ==
  ASSUME NEW r \in Watched, CoreInv, Deliver(r)
  PROVE  CoreInv'
  <1>1. BuiltOK /\ FlagsInv /\ WordsInv /\ CountsInv /\ WorkInv
    BY DEF CoreInv
  <1>2. BuiltOK' /\ FlagsInv'
    BY <1>1, FlagsStay DEF Deliver
  <1>3. WorkInv'
    BY <1>1 DEF Deliver, WorkInv
  <1>4. r \in Readers
    BY WatchedAssumption
  <1>5. PICK w \in Nat : /\ w = delivered[r] + 1 /\ w <= 2 * posted[r] /\ w >= 1
                         /\ delivered' = [delivered EXCEPT ![r] = w]
                         /\ nonzero' = [nonzero EXCEPT ![r] = nonzero[r] \cup {w}]
    <2>1. PICK d, p \in Nat : d = delivered[r] /\ p = posted[r]
      BY <1>1, <1>4, MaxEntriesAssumption DEF CountsInv
    <2>2. PICK w : w = d + 1
      OBVIOUS
    <2>3. /\ d < 2 * p /\ delivered' = [delivered EXCEPT ![r] = w]
          /\ nonzero' = [nonzero EXCEPT ![r] = nonzero[r] \cup {w}]
      BY <2>1, <2>2 DEF Deliver
    <2>4. w \in Nat /\ w <= 2 * p /\ w >= 1
      BY <2>2, <2>3
    <2> QED BY <2>1, <2>2, <2>3, <2>4, Zenon
  <1>6. UNCHANGED <<zeroed, posted, got>> /\ early' \subseteq early \cup {r}
    BY DEF Deliver
  <1>7. CountsInv'
    <2>1. delivered' \in [Readers -> Nat]
      BY <1>1, <1>5 DEF CountsInv
    <2>2. \A q \in Readers : delivered'[q] <= 2 * posted[q] /\ 2 * got[q] <= delivered'[q]
      BY <1>1, <1>5 DEF CountsInv
    <2> QED BY <1>1, <1>6, <2>1, <2>2 DEF CountsInv
  <1>8. WordsInv'
    <2>1. w \in Words(r)
      BY <1>1, <1>4, <1>5, MaxEntriesAssumption DEF Words, CountsInv
    <2>2. nonzero'[r] = nonzero[r] \cup {w} /\ delivered'[r] = w
      BY <1>1, <1>4, <1>5 DEF WordsInv, CountsInv
    <2>3. \A q \in Readers : q # r => nonzero'[q] = nonzero[q] /\ delivered'[q] = delivered[q]
      BY <1>1, <1>5 DEF WordsInv, CountsInv
    <2>4. 1 .. delivered[r] \cup {w} \subseteq 1 .. w
      BY <1>1, <1>4, <1>5 DEF CountsInv
    <2>5. ASSUME NEW q \in Readers
          PROVE  nonzero'[q] \subseteq Words(q) /\ zeroed[q] \subseteq Words(q) /\ nonzero'[q] \cap zeroed[q] \subseteq 1 .. delivered'[q]
      <3>1. nonzero[q] \subseteq Words(q) /\ zeroed[q] \subseteq Words(q) /\ nonzero[q] \cap zeroed[q] \subseteq 1 .. delivered[q]
        BY <1>1 DEF WordsInv
      <3>2. CASE q = r
        BY <2>1, <2>2, <2>4, <3>1, <3>2
      <3>3. CASE q # r
        BY <2>3, <3>1, <3>3
      <3> QED BY <3>2, <3>3
    <2>6. DOMAIN nonzero' = Readers /\ DOMAIN zeroed' = Readers
      BY <1>1, <1>5, <1>6 DEF WordsInv
    <2> QED BY <1>6, <2>5, <2>6 DEF WordsInv, Words
  <1> QED BY <1>2, <1>3, <1>7, <1>8 DEF CoreInv

LEMMA WorkStep ==
  ASSUME NEW r \in Watched, CoreInv, Work(r)
  PROVE  CoreInv'
  <1>1. BuiltOK /\ FlagsInv /\ WordsInv /\ CountsInv /\ WorkInv
    BY DEF CoreInv
  <1>2. BuiltOK' /\ FlagsInv'
    BY <1>1, FlagsStay DEF Work
  <1>3. r \in Readers /\ r[2] \in Nodes /\ r \in ReadersOf(r[2])
    BY WatchedAssumption DEF Readers, ReadersOf
  <1>4. PICK g \in Nat : g = got[r]
    BY <1>1, <1>3 DEF CountsInv
  <1>5. /\ Entry(g + 1) \subseteq nonzero[r]
        /\ nonzero' = [nonzero EXCEPT ![r] = nonzero[r] \ Entry(g + 1)]
        /\ got' = [got EXCEPT ![r] = g + 1]
        /\ r \in spawned
        /\ UNCHANGED <<built, zeroed, posted, delivered, early>>
    BY <1>4 DEF Work
  \* An entry that a worker finds was delivered.
  <1>6. 2 * (g + 1) <= delivered[r]
    <2>1. 1 \in 1 .. 4 /\ 2 \in 1 .. 4 /\ 3 \in 1 .. 4 /\ 4 \in 1 .. 4
      OBVIOUS
    <2>2. Passed(r, 3)
      BY <1>1, <1>3, <1>5 DEF FlagsInv
    <2>3. Passed(r, 1)
      <3>1. /\ At(r, 1) \in 1 .. CoreEnd /\ At(r, 3) \in 1 .. CoreEnd
            /\ 3 < 4 => At(r, 3) = At(r, 1) + (3 - 1)
        BY <1>3, <2>1, CoreConstructorIs DEF IsPlaced
      <3>2. PICK b \in Nat : b = built[r[2]]
        BY <1>1, <1>3 DEF BuiltOK
      <3> QED BY <2>2, <3>1, <3>2 DEF Passed, Past
    <2>4. zeroed[r] = Words(r)
      BY <1>1, <1>3, <2>3 DEF FlagsInv
    <2>5. Entry(g + 1) \subseteq 1 .. delivered[r]
      BY <1>1, <1>3, <1>5, <2>4 DEF WordsInv
    <2>6. 2 * (g + 1) \in 1 .. delivered[r]
      BY <2>5 DEF Entry
    <2> QED BY <2>6
  <1>7. CountsInv'
    <2>1. got \in [Readers -> Nat] /\ got' \in [Readers -> Nat]
      <3>1. got \in [Readers -> Nat] /\ g + 1 \in Nat
        BY <1>1 DEF CountsInv
      <3> QED BY <1>5, <3>1
    <2>2. got'[r] = g + 1 /\ \A q \in Readers : q # r => got'[q] = got[q]
      BY <1>3, <1>5, <2>1
    <2>3. \A q \in Readers : 2 * got[q] <= delivered[q] /\ delivered[q] <= 2 * posted[q]
      BY <1>1 DEF CountsInv
    <2>4. \A q \in Readers : 2 * got'[q] <= delivered[q]
      BY <1>6, <2>2, <2>3
    <2> QED BY <1>1, <1>5, <2>1, <2>3, <2>4 DEF CountsInv
  <1>8. WordsInv'
    <2>1. \A q \in Readers : nonzero'[q] \subseteq nonzero[q]
      BY <1>1, <1>5 DEF WordsInv
    <2>2. DOMAIN nonzero' = Readers /\ DOMAIN zeroed' = Readers
      BY <1>1, <1>5 DEF WordsInv
    <2>3. \A q \in Readers : /\ nonzero'[q] \subseteq Words(q) /\ zeroed[q] \subseteq Words(q)
                             /\ nonzero'[q] \cap zeroed[q] \subseteq 1 .. delivered[q]
      BY <1>1, <2>1 DEF WordsInv
    <2> QED BY <1>5, <2>2, <2>3 DEF WordsInv, Words
  \* A worker that is spawned and not paused has been let run.
  <1>9. built[r[2]] > 6 * Others
    <2>1. ~paused[r]
      BY Zenon DEF Work
    <2>2. 1 \in 1 .. 4 /\ 2 \in 1 .. 4 /\ 3 \in 1 .. 4 /\ 4 \in 1 .. 4
      OBVIOUS
    <2>3. paused[r] <=> Passed(r, 2) /\ ~Passed(r, 4)
      BY <1>1, <1>3, Zenon DEF FlagsInv
    <2>4. Passed(r, 3)
      BY <1>1, <1>3, <1>5 DEF FlagsInv
    <2>5. /\ At(r, 1) \in 1 .. CoreEnd /\ At(r, 2) \in 1 .. CoreEnd /\ At(r, 3) \in 1 .. CoreEnd /\ At(r, 4) \in 1 .. CoreEnd
          /\ At(r, 3) = At(r, 1) + (3 - 1) /\ At(r, 2) = At(r, 1) + (2 - 1) /\ At(r, 4) > 6 * Others
      <3>1. 2 < 4 /\ 3 < 4
        OBVIOUS
      <3> QED BY <1>3, <2>2, <3>1, CoreConstructorIs DEF IsPlaced
    <2>6. PICK b \in Nat : b = built[r[2]]
      BY <1>1, <1>3 DEF BuiltOK
    <2>7. Passed(r, 2)
      BY <2>4, <2>5, <2>6 DEF Passed, Past
    <2>8. Passed(r, 4)
      BY <2>1, <2>3, <2>7, Zenon
    <2>9. PICK o \in Int : o = 6 * Others
      BY OthersIs
    <2> QED BY <2>5, <2>6, <2>8, <2>9 DEF Passed, Past
  <1>10. WorkInv'
    BY <1>1, <1>5, <1>9 DEF WorkInv, CountsInv
  <1> QED BY <1>2, <1>7, <1>8, <1>10 DEF CoreInv

LEMMA CoreStep ==
  ASSUME CoreInv, [CoreNext]_<<vars, coreVars>>
  PROVE  CoreInv'
  <1>1. CASE UNCHANGED coreVars
    <2>1. BuiltOK /\ FlagsInv /\ WordsInv /\ CountsInv /\ WorkInv
      BY DEF CoreInv
    <2>2. BuiltOK' /\ FlagsInv'
      BY <1>1, <2>1, FlagsStay DEF coreVars
    <2>3. WordsInv' /\ CountsInv' /\ WorkInv'
      BY <1>1, <2>1 DEF coreVars, WordsInv, CountsInv, WorkInv, Words
    <2> QED BY <2>2, <2>3 DEF CoreInv
  <1>2. ASSUME NEW n \in Nodes, Zero(n) \/ Toggle(n) \/ Spawn(n) PROVE CoreInv'
    BY <1>2, ZeroStep, ToggleStep, SpawnStep
  <1>3. ASSUME NEW r \in Watched, Deliver(r) \/ Work(r) \/ Post(r) PROVE CoreInv'
    BY <1>3, DeliverStep, WorkStep, PostStep
  <1> QED BY <1>1, <1>2, <1>3 DEF CoreNext, Progress
(***************************************************************************)
(* The theorems.                                                           *)
(***************************************************************************)
\* The constructor of the core goes through that of the connection and leaves
\* what that made alone: all that holds of ScotConnection holds here.
THEOREM CoreConnects == CoreSpec => Spec
  <1>1. CoreInit => Init
    BY DEF CoreInit
  <1>2. [CoreNext]_<<vars, coreVars>> => [Next]_vars
    BY DEF CoreNext, Progress, Zero, Toggle, Spawn, Deliver, Work, Post, vars
  <1> QED BY <1>1, <1>2, PTL DEF CoreSpec, Spec

\* The invariant behind the next three holds whatever the nodes' order.
THEOREM CoreInvariant == CoreSpec => []CoreInv
  <1>1. CoreInit => CoreInv
    BY CoreInitially
  <1>2. CoreInv /\ [CoreNext]_<<vars, coreVars>> => CoreInv'
    BY CoreStep
  <1> QED BY <1>1, <1>2, PTL DEF CoreSpec

\* The types; the region of a spawned worker was zeroed.
THEOREM CoreTypeCorrect == CoreSpec => []CoreTypeOK
  <1>1. ASSUME CoreInv PROVE CoreTypeOK
    <2>1. BuiltOK /\ FlagsInv /\ WordsInv /\ CountsInv
      BY <1>1 DEF CoreInv
    <2>2. \A n \in Nodes : built[n] \in 0 .. Len(CoreConstructor[n])
      <3>1. CoreEnd \in Nat
        BY OthersIs DEF CoreEnd
      <3> QED BY <2>1, <3>1, CoreConstructorIs DEF BuiltOK
    <2>3. \A r \in Readers : delivered[r] \in 0 .. 2 * MaxEntries /\ got[r] \in 0 .. MaxEntries
      BY <2>1, MaxEntriesAssumption DEF CountsInv
    <2>4. delivered \in [Readers -> 0 .. 2 * MaxEntries] /\ got \in [Readers -> 0 .. MaxEntries]
      BY <2>1, <2>3 DEF CountsInv
    <2>5. ASSUME NEW r \in spawned PROVE r \in Readers /\ zeroed[r] = Words(r)
      <3>1. r \in Readers /\ Passed(r, 3)
        BY <2>1 DEF FlagsInv
      <3>2. r[2] \in Nodes /\ r \in ReadersOf(r[2]) /\ 1 \in 1 .. 4 /\ 3 \in 1 .. 4 /\ 3 < 4
        BY <3>1 DEF Readers, ReadersOf
      <3>3. At(r, 1) \in 1 .. CoreEnd /\ At(r, 3) = At(r, 1) + (3 - 1)
        BY <3>2, CoreConstructorIs DEF IsPlaced
      <3>4. PICK b \in Nat : b = built[r[2]]
        BY <2>1, <3>2 DEF BuiltOK
      <3>5. Passed(r, 1)
        BY <3>1, <3>3, <3>4 DEF Passed, Past
      <3> QED BY <2>1, <3>1, <3>5 DEF FlagsInv
    <2>6. paused \in [Readers -> BOOLEAN]
      BY <2>1, Zenon DEF FlagsInv
    <2>7. /\ \A r \in Readers : nonzero[r] \subseteq Words(r) /\ zeroed[r] \subseteq Words(r)
          /\ early \subseteq Watched /\ posted \in [Readers -> 0 .. MaxEntries]
      BY <2>1 DEF WordsInv, CountsInv
    <2>8. spawned \subseteq {r \in Readers : zeroed[r] = Words(r)}
      BY <2>5
    <2> QED BY <2>2, <2>4, <2>6, <2>7, <2>8, Zenon DEF CoreTypeOK
  <1> QED BY <1>1, CoreInvariant, PTL

\* A worker takes only what its peer has written, whatever its region held.
THEOREM OnlyDeliveredIsTaken == CoreSpec => []NothingInvented
  <1>1. CoreInv => NothingInvented
    BY DEF CoreInv, CountsInv, NothingInvented
  <1> QED BY <1>1, CoreInvariant, PTL

\* No worker takes an entry before all readers of its node have their worker.
THEOREM ReadersWaitForEachOther == CoreSpec => []NoWorkBeforeReady
  <1>1. ASSUME CoreInv PROVE NoWorkBeforeReady
    <2> SUFFICES ASSUME NEW r \in Readers, got[r] > 0, NEW q \in Readers, q[2] = r[2] PROVE q \in spawned
      BY DEF NoWorkBeforeReady
    <2>1. q[2] \in Nodes /\ q \in ReadersOf(q[2]) /\ 3 \in 1 .. 4 /\ 3 < 4
      BY DEF Readers, ReadersOf
    <2>2. PICK o \in Int : o = 6 * Others
      BY OthersIs
    <2>3. PICK b \in Nat : b = built[q[2]]
      BY <1>1, <2>1 DEF CoreInv, BuiltOK
    <2>4. b > o
      BY <1>1, <2>2, <2>3 DEF CoreInv, WorkInv
    <2>5. PICK x \in Int : x = At(q, 3) /\ x <= o
      BY <2>1, <2>2, CoreConstructorIs DEF IsPlaced
    <2>6. Passed(q, 3)
      BY <2>3, <2>4, <2>5 DEF Passed, Past
    <2> QED BY <1>1, <2>6 DEF CoreInv, FlagsInv
  <1> QED BY <1>1, CoreInvariant, PTL
===============================================================================
