----------------------------- MODULE ScotRingProofs -----------------------------
(***************************************************************************)
(* Proofs about ScotRing: the ring is a FIFO channel for entries of one    *)
(* size whose headers the reader clears, however often the log wraps, and  *)
(* for any entries until it wraps.                                         *)
(***************************************************************************)
EXTENDS ScotRing, ScotLogIndexProofs, SequenceTheorems, WellFoundedInduction

(***************************************************************************)
(* The arithmetic of positions.                                            *)
(***************************************************************************)
\* An entry's canary is in its last word, and the next entry starts there.
LEMMA NextIs ==
  ASSUME NEW w \in 0 .. AlignCounts - 1, NEW b \in 0 .. MaxPayload
  PROVE  /\ Stride(b) \in Nat /\ Stride(b) >= 3 /\ b \div WordBytes = Stride(b) - 3
         /\ CanaryWord(w, b) = w + Stride(b) - 1
         /\ NextEntry(w, b) = IF w + Stride(b) < AlignCounts THEN w + Stride(b) ELSE 0
         /\ NextEntry(w, b) \in 0 .. AlignCounts - 1
  <1> DEFINE q == b \div 4
  <1>1. b \in Nat /\ q \in Nat /\ w \in Nat /\ AlignCounts \in Nat
    <2>1. b \in Nat
      BY DEF MaxPayload
    <2>2. q \in Nat
      BY <2>1
    <2> QED BY <2>1, <2>2, AlignCountsAssumption
  <1>2. Take(Uint16(b + 1)) = q + 1
    BY TakeCovers
  <1>3. Stride(b) = q + 3 /\ CanaryWord(w, b) = w + 2 + q /\ b \div WordBytes = q
    BY <1>1 DEF Stride, CanaryWord, HeaderWords, WordBytes
  <1>4. NextEntry(w, b) = IF w + 2 + (q + 1) > AlignCounts - 1 THEN 0 ELSE w + 2 + (q + 1)
    BY <1>2 DEF NextEntry, NextAligned, HeaderWords
  <1> HIDE DEF q
  <1> QED BY <1>1, <1>3, <1>4

\* An entry takes three words or more.
LEMMA StrideIs ==
  ASSUME NEW b \in 0 .. MaxPayload
  PROVE  Stride(b) \in Nat \ {0} /\ Stride(b) >= 3
  <1>1. 0 \in 0 .. AlignCounts - 1
    BY AlignCountsAssumption
  <1>2. Stride(b) \in Nat /\ Stride(b) >= 3
    BY <1>1, NextIs
  <1> QED BY <1>2

\* A set of naturals has a least element.
LEMMA LeastExists ==
  ASSUME NEW T, T \subseteq Nat, T # {}
  PROVE  \E t \in T : \A y \in T : t <= y
  <1>1. \E R : IsWellFoundedOn(R, Nat) /\ \A a, b \in Nat : a < b => <<a, b>> \in R
    <2> DEFINE R == OpToRel(<, Nat)
    <2>1. \A a, b \in Nat : a < b => <<a, b>> \in R
      BY DEF OpToRel
    <2>2. IsWellFoundedOn(R, Nat)
      BY NatLessThanWellFounded, Zenon
    <2> HIDE DEF R
    <2> QED BY <2>1, <2>2
  <1>2. PICK R : IsWellFoundedOn(R, Nat) /\ \A a, b \in Nat : a < b => <<a, b>> \in R
    BY <1>1
  <1>3. PICK t \in T : \A y \in T : ~(<<y, t>> \in R)
    <2>1. ASSUME NEW U, U \subseteq Nat, U # {}
          PROVE  \E t \in U : \A y \in U : ~(<<y, t>> \in R)
      <3>1. IsWellFoundedOn(R, Nat)
        BY <1>2
      <3> QED BY <2>1, <3>1, WFMin, Zenon
    <2> QED BY <2>1
  <1>4. \A y \in T : t <= y
    <2> SUFFICES ASSUME NEW y \in T PROVE t <= y
      OBVIOUS
    <2>1. y \in Nat /\ t \in Nat /\ ~(y < t)
      BY <1>2, <1>3
    <2> QED BY <2>1
  <1> QED BY <1>4

\* Entries of one size divide the log into slots.
IsGrid(m, pos, s) ==
  /\ m \in Nat \ {0} /\ pos \in [0 .. m - 1 -> 0 .. AlignCounts - 1] /\ pos[0] = 0
  /\ \A x \in 0 .. m - 1 :
       IF x < m - 1 THEN pos[x + 1] = pos[x] + s ELSE pos[x] + s >= AlignCounts
  /\ \A x, y \in 0 .. m - 1 : x < y => pos[x] + s <= pos[y]

\* There is such a division, and it has room for the writer's lead.
LEMMA GridExists ==
  ASSUME NEW s \in Nat \ {0}, NEW g \in Nat \ {0}, (g - 1) * s < AlignCounts
  PROVE  \E m, pos : g <= m /\ IsGrid(m, pos, s)
  <1>1. AlignCounts - 1 \in Nat
    BY AlignCountsAssumption
  <1>2. PICK q \in Nat : s * q <= AlignCounts - 1 /\ AlignCounts - 1 < s * q + s
    <2> DEFINE T == {x \in Nat : AlignCounts <= s * x}
    <2>1. AlignCounts \in T
      BY AlignCountsAssumption
    <2>2. PICK t \in T : \A y \in T : t <= y
      BY <2>1, LeastExists
    <2>3. t \in Nat /\ AlignCounts <= s * t
      OBVIOUS
    <2>4. t # 0
      BY <2>3, AlignCountsAssumption
    <2>5. t - 1 \in Nat /\ t - 1 \notin T
      BY <2>2, <2>3, <2>4
    <2>6. s * (t - 1) + s = s * t /\ s * (t - 1) \in Nat
      BY <2>3, <2>5
    <2>7. PICK a \in Nat, c \in Nat : a = s * (t - 1) /\ c = s * t
      BY <2>3, <2>6
    <2>8. a + s = c /\ AlignCounts <= c /\ ~(AlignCounts <= a)
      BY <2>3, <2>5, <2>6, <2>7
    <2>9. a <= AlignCounts - 1 /\ AlignCounts - 1 < a + s
      BY <2>8, AlignCountsAssumption
    <2> QED BY <2>5, <2>7, <2>9
  <1> DEFINE m == q + 1
             pos == [x \in 0 .. q |-> s * x]
  <1>3. ASSUME NEW x \in Nat PROVE s * x \in Nat /\ s * (x + 1) = s * x + s
    OBVIOUS
  <1>4. ASSUME NEW x \in Nat, NEW y \in Nat, x < y PROVE s * x + s <= s * y
    <2>1. PICK k \in Nat : y = (x + 1) + k
      <3>1. y - (x + 1) \in Nat /\ y = (x + 1) + (y - (x + 1))
        BY <1>4
      <3> QED BY <3>1
    <2>2. s * y = (s * x + s) + s * k /\ s * k >= 0
      BY <2>1
    <2> QED BY <2>2, <1>3
  <1>5. ASSUME NEW x \in 0 .. q PROVE s * x \in 0 .. AlignCounts - 1
    <2>1. x = q \/ x < q
      BY <1>2
    <2>2. s * x <= s * q
      BY <1>2, <1>3, <1>4, <2>1
    <2> QED BY <1>1, <1>2, <1>3, <2>2
  <1>6. g <= m
    <2>1. SUFFICES ASSUME g > m PROVE FALSE
      BY <1>2
    <2>2. g - 1 \in Nat /\ q < g - 1
      BY <1>2, <2>1
    <2>3. s * q + s <= s * (g - 1)
      BY <1>2, <1>4, <2>2
    <2>4. PICK k : k = s * (g - 1) /\ k = (g - 1) * s
      BY <2>2
    <2>5. PICK a \in Nat : a = s * q
      BY <1>3
    <2>6. a + s <= k /\ k < AlignCounts /\ AlignCounts - 1 < a + s
      BY <1>2, <2>3, <2>4, <2>5
    <2>7. k \in Int
      BY <2>2, <2>4
    <2>8. a + s <= AlignCounts - 1
      <3> HIDE DEF m
      <3> QED BY AlignCountsAssumption, <2>6, <2>7
    <2> QED BY <1>1, <2>5, <2>6, <2>8
  <1>7. IsGrid(m, pos, s)
    <2>1. /\ DOMAIN pos = 0 .. q /\ m \in Nat \ {0} /\ m - 1 = q
          /\ \A x \in 0 .. q : pos[x] = s * x
      BY <1>2
    <2>2. pos \in [0 .. m - 1 -> 0 .. AlignCounts - 1]
      BY <1>5, <2>1
    <2>3. pos[0] = 0
      BY <1>2, <2>1
    <2>4. ASSUME NEW x \in 0 .. m - 1
          PROVE  IF x < m - 1 THEN pos[x + 1] = pos[x] + s ELSE pos[x] + s >= AlignCounts
      <3>1. CASE x < m - 1
        <4>1. x \in Nat /\ x + 1 \in 0 .. q
          BY <1>2, <2>1, <3>1
        <4> QED BY <1>3, <2>1, <3>1, <4>1
      <3>2. CASE x = q
        <4>1. pos[x] = s * q /\ s * q \in Nat
          BY <1>3, <2>1, <3>2
        <4>2. pos[x] + s >= AlignCounts
          <5> HIDE DEF pos
          <5>1. PICK a \in Nat : a = pos[x]
            BY <4>1
          <5>2. AlignCounts - 1 < a + s
            BY <1>2, <4>1, <5>1
          <5>3. AlignCounts <= a + s
            BY <5>2, AlignCountsAssumption
          <5> QED BY <5>1, <5>3
        <4> QED BY <2>1, <3>2, <4>2
      <3> QED BY <1>2, <2>1, <3>1, <3>2
    <2>5. ASSUME NEW x \in 0 .. m - 1, NEW y \in 0 .. m - 1, x < y PROVE pos[x] + s <= pos[y]
      BY <1>2, <1>4, <2>1, <2>5
    <2> HIDE DEF pos, m
    <2> QED BY <2>1, <2>2, <2>3, <2>4, <2>5 DEF IsGrid
  <1> QED BY <1>2, <1>6, <1>7

(***************************************************************************)
(* The inductive invariant.  at[i] is where entry i starts, and free are   *)
(* the words at which an entry may yet start.                              *)
(***************************************************************************)
Size(i) == sent[i].size
Kind(i) == sent[i].kind
Outstanding == retired + 1 .. Len(sent)

SentOK ==
  /\ pair \in Pairs
  /\ sent \in Seq([id : Ids, kind : Kinds, size : Sizes])
  /\ Len(sent) <= pair.count
  /\ \A i \in DOMAIN sent : sent[i].id = i
  /\ retired \in 0 .. Len(sent)

Positions(at) ==
  /\ at \in [1 .. Len(sent) + 1 -> 0 .. AlignCounts - 1]
  /\ at[1] = 0 /\ at[Len(sent) + 1] = wr
  /\ \A i \in DOMAIN sent : at[i + 1] = NextEntry(at[i], Size(i))

\* The slots are used in turn.
InTurn(place, m, n) ==
  /\ place \in [1 .. n -> 0 .. m - 1]
  /\ \A i, j \in 1 .. n : i <= j /\ j <= i + m =>
       place[j] = place[i] + (j - i) \/ place[j] = place[i] + (j - i) - m

InSlots(at, free) ==
  \E b \in 0 .. MaxPayload : \E m, pos, place :
    /\ OneSize(pair, b) /\ IsGrid(m, pos, Stride(b)) /\ pair.backlog <= m
    /\ Len(sent) - retired <= pair.backlog
    /\ InTurn(place, m, Len(sent) + 1) /\ \A i \in 1 .. Len(sent) + 1 : at[i] = pos[place[i]]
    /\ free = {pos[x] : x \in 0 .. m - 1}

InOneLap(at, free) ==
  /\ OneLap(pair)
  /\ free = wr .. AlignCounts - 1
  /\ \A i \in DOMAIN sent, j \in 1 .. Len(sent) + 1 : i < j => at[i] + Stride(Size(i)) <= at[j]
  /\ \E b \in Sizes :
       /\ pair.count * Stride(b) < AlignCounts /\ wr <= Len(sent) * Stride(b)
       /\ \A c \in Sizes : Stride(c) <= Stride(b)

Layout(at, free) == Positions(at) /\ (InSlots(at, free) \/ InOneLap(at, free))

\* What matters of a layout: entries do not overlap each other, nor do they
\* touch what is free.
Apart(v, a, w, b) == v + Stride(a) <= w \/ w + Stride(b) <= v
Room(at, free) ==
  /\ free \subseteq 0 .. AlignCounts - 1 /\ wr \in free
  /\ \A i, j \in Outstanding : i < j => Apart(at[i], Size(i), at[j], Size(j))
  /\ \A i \in Outstanding, w \in free, b \in Sizes : w # at[i] => Apart(at[i], Size(i), w, b)
  /\ \A i \in Outstanding :
       at[i] \in free => Sizes = {Size(i)} /\ Kind(i) \in pair.cleared \ {"HDRONLY"}
  /\ Len(sent) - retired < pair.backlog => \A i \in Outstanding : at[i] # wr

\* The words of an entry, and those delivered.
Length(i) == IF Kind(i) = "HDRONLY" THEN 2 ELSE Stride(Size(i))
WordOf(i, k) ==
  IF k = 2 THEN Meta(i, Kind(i), Size(i)) ELSE IF k = Stride(Size(i)) THEN Final(i, Size(i)) ELSE Data(i)
WordTypes ==
  [id : Ids \cup {0}, role : {"zero", "meta", "data", "last"}, kind : LastBytes,
   size : Sizes \cup {0}, canary : [Bytes -> {"yes", "no", "any"}]]
HasCome(i, k) == i < Len(sent) \/ k <= Length(i) - Len(transit)

InTransit(at) ==
  LET n == Len(sent) IN
  IF n = 0 THEN transit = <<>>
  ELSE /\ transit \in Seq([at : Nat, word : WordTypes])
       /\ Len(transit) <= Length(n)
       /\ \A k \in 1 .. Len(transit) :
            LET d == Length(n) - Len(transit) IN
            transit[k] = [at |-> at[n] + d + k - 1, word |-> WordOf(n, d + k)]

\* A reader sees no header there, and no canary of an entry of b bytes.
Blank(word) == word.kind = "NONE"
NoCanary(word, b) == word.canary[CanaryByte(b)] = "no"

\* The reader has reset the canary of entry i.
Validated(i) == i = retired + 1 /\ pc \in {"handle", "clear"}

\* What the reader can rely on in the k-th word of entry i.
Holds(i, k, word) ==
  /\ word.id = i
  /\ k = 2 => word.role = "meta" /\ word.kind = Kind(i) /\ word.size = Size(i)
  /\ k = Stride(Size(i)) /\ Validated(i) => NoCanary(word, Size(i))

StoredAt(i, w) ==
  /\ \A k \in 1 .. Length(i) : HasCome(i, k) => Holds(i, k, mem[w + k - 1])
  /\ ~HasCome(i, 2) => Blank(mem[w + 1])
  /\ Kind(i) # "HDRONLY" /\ ~HasCome(i, Length(i)) => NoCanary(mem[w + Length(i) - 1], Size(i))
Ready(w) == \A b \in Sizes : Blank(mem[w + 1]) /\ NoCanary(mem[w + Stride(b) - 1], b)

Memory(at, free) ==
  /\ mem \in [Words -> WordTypes]
  /\ \A i \in Outstanding : StoredAt(i, at[i])
  /\ \A w \in free : (\A i \in Outstanding : at[i] # w) => Ready(w)

Reader(at) ==
  LET n == IF pc = "clear" THEN retired + 1 ELSE retired
      r == IF pc \in {"handle", "clear"} THEN retired + 2 ELSE retired + 1 IN
  /\ pc \in {"poll", "canary", "handle", "clear"}
  /\ received \in Seq([id : Ids, kind : Kinds]) /\ Len(received) = n
  /\ \A j \in 1 .. n : received[j] = Outline(sent[j])
  /\ rd = at[r] /\ header \in 0 .. AlignCounts - 1
  /\ pc # "poll" => header = at[retired + 1] /\ retired < Len(sent) /\ HasCome(retired + 1, 2)
  /\ pc \in {"handle", "clear"} => HasCome(retired + 1, Length(retired + 1))
  /\ retired = Len(sent) => transit = <<>>

RingAt(at, free) == SentOK /\ Layout(at, free) /\ InTransit(at) /\ Memory(at, free) /\ Reader(at)
RingInv == \E at, free : RingAt(at, free)

(***************************************************************************)
(* Positions.                                                              *)
(***************************************************************************)
\* The sizes and kinds of a pair.
LEMMA PairIs ==
  ASSUME KnownPairs, pair \in Pairs
  PROVE  /\ Sizes \subseteq 0 .. MaxPayload /\ Kinds \subseteq Types
         /\ pair.backlog \in Nat \ {0} /\ pair.count \in 1 .. MaxSent
         /\ \E b \in Sizes : \A c \in Sizes : Stride(c) <= Stride(b)
  <1>1. /\ Kinds \subseteq Types /\ pair.backlog \in Nat \ {0} /\ pair.count \in 1 .. MaxSent
    BY PairsAssumption DEF Kinds
  <1>2. CASE OneLap(pair)
    <2>1. Sizes \subseteq 0 .. MaxPayload /\ \E b \in Sizes : \A c \in Sizes : Stride(c) <= Stride(b)
      BY <1>2 DEF OneLap, Sizes
    <2> QED BY <1>1, <2>1
  <1>3. CASE \E b \in Sizes : OneSize(pair, b)
    <2>1. PICK b \in Sizes : b \in 0 .. MaxPayload /\ Sizes = {b}
      BY <1>3 DEF OneSize, Sizes
    <2>2. Stride(b) <= Stride(b)
      BY <2>1, AlignCountsAssumption, NextIs
    <2> QED BY <1>1, <2>1, <2>2
  <1> QED BY <1>2, <1>3 DEF KnownPairs, Sizes

\* What was sent.
LEMMA SentIs ==
  ASSUME SentOK
  PROVE  /\ Len(sent) \in Nat /\ retired \in 0 .. Len(sent) /\ DOMAIN sent = 1 .. Len(sent)
         /\ \A i \in 1 .. Len(sent) : Size(i) \in Sizes /\ Kind(i) \in Kinds /\ sent[i].id = i
  <1>1. /\ Len(sent) \in Nat /\ retired \in 0 .. Len(sent) /\ DOMAIN sent = 1 .. Len(sent)
        /\ \A i \in 1 .. Len(sent) : sent[i] \in [id : Ids, kind : Kinds, size : Sizes] /\ sent[i].id = i
    <2> DEFINE S == [id : Ids, kind : Kinds, size : Sizes]
    <2>1. sent \in Seq(S) /\ retired \in 0 .. Len(sent) /\ \A i \in DOMAIN sent : sent[i].id = i
      BY DEF SentOK
    <2> HIDE DEF S
    <2>2. DOMAIN sent = 1 .. Len(sent) /\ Len(sent) \in Nat /\ \A i \in 1 .. Len(sent) : sent[i] \in S
      BY <2>1
    <2> QED BY <2>1, <2>2 DEF S
  <1> QED BY <1>1 DEF Size, Kind

\* The reader's memory holds any entry, wherever it starts.
LEMMA WordsAre ==
  ASSUME KnownPairs, pair \in Pairs
  PROVE  \A w \in 0 .. AlignCounts - 1, b \in Sizes : \A k \in 1 .. Stride(b) :
           w + k - 1 \in Words /\ w + k - 1 \in Nat
  <1> DEFINE a == AlignCounts - 1
             E == {CanaryWord(a, b) : b \in Sizes}
  <1>1. a \in 0 .. AlignCounts - 1 /\ Sizes \subseteq 0 .. MaxPayload
    BY PairIs, AlignCountsAssumption
  <1>2. PICK b \in Sizes : \A c \in Sizes : Stride(c) <= Stride(b)
    BY PairIs
  <1>3. \A c \in Sizes : CanaryWord(a, c) = a + Stride(c) - 1 /\ Stride(c) \in Nat
    <2> HIDE DEF a
    <2> QED BY <1>1, NextIs
  <1> DEFINE top == CHOOSE w \in E : \A c \in Sizes : CanaryWord(a, c) <= w
  <1>4. top \in E /\ \A c \in Sizes : CanaryWord(a, c) <= top
    <2>1. CanaryWord(a, b) \in E
      OBVIOUS
    <2>2. \A c \in Sizes : CanaryWord(a, c) <= CanaryWord(a, b)
      BY <1>1, <1>2, <1>3
    <2> HIDE DEF E
    <2> QED BY <2>1, <2>2, Zenon
  <1>5. Words = 0 .. top
    BY DEF Words
  <1>6. top \in Int
    <2>1. PICK c \in Sizes : top = CanaryWord(a, c)
      BY <1>4, Zenon
    <2> HIDE DEF top
    <2> QED BY <1>3, <2>1, AlignCountsAssumption
  <1> HIDE DEF top, E
  <1> SUFFICES ASSUME NEW w \in 0 .. AlignCounts - 1, NEW c \in Sizes, NEW k \in 1 .. Stride(c)
               PROVE  w + k - 1 \in 0 .. top /\ w + k - 1 \in Nat
    BY <1>5
  <1>7. a + Stride(c) - 1 <= top /\ Stride(c) \in Nat
    BY <1>3, <1>4
  <1> QED BY <1>6, <1>7, AlignCountsAssumption

\* A position is that of a slot, or below it.
LEMMA RoomIs ==
  ASSUME KnownPairs, SentOK, NEW at, NEW free, Layout(at, free)
  PROVE  Room(at, free)
  <1> DEFINE n == Len(sent)
  <1>1. /\ n \in Nat /\ retired \in 0 .. n /\ DOMAIN sent = 1 .. n
        /\ \A i \in 1 .. n : Size(i) \in Sizes /\ Kind(i) \in Kinds
    BY SentIs
  <1>2. /\ at \in [1 .. n + 1 -> 0 .. AlignCounts - 1] /\ at[n + 1] = wr
    BY DEF Layout, Positions
  <1>3. \A b \in Sizes : Stride(b) \in Nat /\ Stride(b) >= 3
    BY PairIs, NextIs, AlignCountsAssumption DEF SentOK
  <1>4. Outstanding = retired + 1 .. n
    BY DEF Outstanding
  <1> HIDE DEF n
  <1>5. \A i \in Outstanding : i \in 1 .. n /\ i \in 1 .. n + 1 /\ n + 1 \in 1 .. n + 1
    BY <1>1, <1>4
  <1>6. CASE InSlots(at, free)
    <2>1. PICK b, m, pos, place :
             /\ b \in 0 .. MaxPayload /\ OneSize(pair, b) /\ IsGrid(m, pos, Stride(b)) /\ pair.backlog <= m
             /\ n - retired <= pair.backlog
             /\ InTurn(place, m, n + 1) /\ \A i \in 1 .. n + 1 : at[i] = pos[place[i]]
             /\ free = {pos[x] : x \in 0 .. m - 1}
      BY <1>6 DEF InSlots, n
    <2>2. Sizes = {b} /\ Kinds \subseteq pair.cleared \ {"HDRONLY"}
      BY <2>1 DEF OneSize, Sizes, Kinds
    <2>3. PICK s \in Nat : s = Stride(b)
      BY <1>3, <2>2
    <2>4. /\ m \in Nat \ {0} /\ pos \in [0 .. m - 1 -> 0 .. AlignCounts - 1]
          /\ \A x, y \in 0 .. m - 1 : x < y => pos[x] + s <= pos[y]
      BY <2>1, <2>3 DEF IsGrid
    <2>5. /\ place \in [1 .. n + 1 -> 0 .. m - 1]
          /\ \A i, j \in 1 .. n + 1 : i <= j /\ j <= i + m =>
               place[j] = place[i] + (j - i) \/ place[j] = place[i] + (j - i) - m
      BY <2>1 DEF InTurn
    <2>6. pair.backlog \in Nat
      BY PairIs DEF SentOK
    <2>7. ASSUME NEW x \in 0 .. m - 1, NEW y \in 0 .. m - 1, x # y
          PROVE  Apart(pos[x], b, pos[y], b) /\ pos[x] # pos[y]
      <3>1. pos[x] + s <= pos[y] \/ pos[y] + s <= pos[x]
        <4>1. x < y \/ y < x
          BY <2>7
        <4> QED BY <2>4, <4>1
      <3>2. s >= 3 /\ pos[x] \in Nat /\ pos[y] \in Nat
        BY <1>3, <2>2, <2>3, <2>4, AlignCountsAssumption
      <3> QED BY <2>3, <3>1, <3>2 DEF Apart
    <2>8. ASSUME NEW i \in 1 .. n + 1, NEW j \in 1 .. n + 1, i < j, j < i + m PROVE place[i] # place[j]
      <3>1. /\ i <= j /\ j <= i + m
            /\ place[i] \in 0 .. m - 1 /\ place[j] \in 0 .. m - 1 /\ m \in Nat \ {0}
        BY <1>1, <2>4, <2>5, <2>8
      <3>2. place[j] = place[i] + (j - i) \/ place[j] = place[i] + (j - i) - m
        BY <2>5, <3>1
      <3>3. PICK x \in Int, y \in Int : x = place[i] /\ y = place[j]
        BY <3>1
      <3> QED BY <2>8, <3>1, <3>2, <3>3
    <2>9. free \subseteq 0 .. AlignCounts - 1 /\ \A i \in 1 .. n + 1 : at[i] \in free
      BY <2>1, <2>4, <2>5
    <2>10. ASSUME NEW i \in Outstanding, NEW j \in Outstanding, i < j
           PROVE  Apart(at[i], Size(i), at[j], Size(j))
      <3>1. j < i + m
        BY <1>1, <1>4, <2>1, <2>4, <2>6
      <3>2. place[i] # place[j] /\ at[i] = pos[place[i]] /\ at[j] = pos[place[j]]
        BY <1>5, <2>1, <2>8, <2>10, <3>1
      <3>3. Size(i) = b /\ Size(j) = b /\ place[i] \in 0 .. m - 1 /\ place[j] \in 0 .. m - 1
        BY <1>1, <1>5, <2>2, <2>5
      <3> QED BY <2>7, <3>2, <3>3
    <2>11. ASSUME NEW i \in Outstanding, NEW w \in free, NEW c \in Sizes, w # at[i]
           PROVE  Apart(at[i], Size(i), w, c)
      <3>1. PICK x \in 0 .. m - 1 : w = pos[x]
        BY <2>1
      <3>2. at[i] = pos[place[i]] /\ place[i] \in 0 .. m - 1 /\ Size(i) = b /\ c = b
        BY <1>1, <1>5, <2>1, <2>2, <2>5
      <3> QED BY <2>7, <2>11, <3>1, <3>2
    <2>12. ASSUME n - retired < pair.backlog, NEW i \in Outstanding PROVE at[i] # wr
      <3>1. i < n + 1 /\ n + 1 < i + m
        BY <1>1, <1>4, <2>1, <2>4, <2>6, <2>12
      <3>2. place[i] # place[n + 1] /\ at[i] = pos[place[i]] /\ at[n + 1] = pos[place[n + 1]]
        BY <1>5, <2>1, <2>8, <3>1
      <3>3. place[i] \in 0 .. m - 1 /\ place[n + 1] \in 0 .. m - 1
        BY <1>5, <2>5
      <3> QED BY <1>2, <2>7, <3>2, <3>3
    <2>13. \A i \in Outstanding : Sizes = {Size(i)} /\ Kind(i) \in pair.cleared \ {"HDRONLY"}
      BY <1>1, <1>5, <2>2
    <2>14. n + 1 \in 1 .. n + 1
      BY <1>1
    <2> QED BY <1>2, <2>9, <2>10, <2>11, <2>12, <2>13, <2>14 DEF Room, n
  <1>7. CASE InOneLap(at, free)
    <2>1. /\ free = wr .. AlignCounts - 1
          /\ \A i \in 1 .. n, j \in 1 .. n + 1 : i < j => at[i] + Stride(Size(i)) <= at[j]
      BY <1>1, <1>7 DEF InOneLap, n
    <2>2. wr \in 0 .. AlignCounts - 1
      BY <1>1, <1>2
    <2>3. ASSUME NEW i \in Outstanding
          PROVE  \E v \in Nat, s \in Nat : v = at[i] /\ s = Stride(Size(i)) /\ s >= 3 /\ v + s <= wr
      <3>1. i \in 1 .. n /\ i \in 1 .. n + 1 /\ n + 1 \in 1 .. n + 1 /\ i < n + 1
        BY <1>1, <1>4, <1>5
      <3>2. at[i] + Stride(Size(i)) <= wr
        BY <1>2, <2>1, <3>1
      <3>3. at[i] \in Nat
        BY <1>2, <3>1, AlignCountsAssumption
      <3>4. Stride(Size(i)) \in Nat /\ Stride(Size(i)) >= 3
        BY <1>1, <1>3, <3>1
      <3> QED BY <3>2, <3>3, <3>4
    <2>4. ASSUME NEW i \in Outstanding PROVE at[i] < wr /\ at[i] \notin free
      <3>1. PICK v \in Nat, s \in Nat : v = at[i] /\ s = Stride(Size(i)) /\ s >= 3 /\ v + s <= wr
        BY <2>3
      <3>2. v < wr
        BY <2>2, <3>1
      <3> QED BY <2>1, <2>2, <3>1, <3>2
    <2>5. \A i, j \in Outstanding : i < j => Apart(at[i], Size(i), at[j], Size(j))
      BY <1>5, <2>1 DEF Apart
    <2>6. ASSUME NEW i \in Outstanding, NEW w \in free, NEW b \in Sizes PROVE Apart(at[i], Size(i), w, b)
      <3>1. PICK v \in Nat, s \in Nat : v = at[i] /\ s = Stride(Size(i)) /\ s >= 3 /\ v + s <= wr
        BY <2>3
      <3>2. wr <= w /\ w \in Int
        BY <2>1, <2>2, AlignCountsAssumption
      <3>3. v + s <= w
        BY <2>2, <3>1, <3>2
      <3> QED BY <3>1, <3>3 DEF Apart
    <2>7. free \subseteq 0 .. AlignCounts - 1 /\ wr \in free
      BY <2>1, <2>2, AlignCountsAssumption
    <2>8. \A i \in Outstanding : at[i] # wr
      BY <2>2, <2>4
    <2> QED BY <2>4, <2>5, <2>6, <2>7, <2>8 DEF Room
  <1> QED BY <1>6, <1>7 DEF Layout

\* At first the log is empty, and its slots, if it has any, are free.
LEMMA LayoutInit ==
  ASSUME KnownPairs, Init
  PROVE  \E at, free : Layout(at, free)
  <1>1. /\ Len(sent) = 0 /\ DOMAIN sent = {} /\ wr = 0 /\ retired = 0 /\ pair \in Pairs
    BY DEF Init
  <1>2. PICK at : at = [i \in 1 .. 1 |-> 0]
    OBVIOUS
  <1>3. Positions(at)
    BY <1>1, <1>2, AlignCountsAssumption DEF Positions
  <1>4. CASE OneLap(pair)
    <2>1. PICK b \in Sizes : pair.count * Stride(b) < AlignCounts /\ \A c \in Sizes : Stride(c) <= Stride(b)
      BY <1>4 DEF OneLap, Sizes
    <2>2. Stride(b) \in Nat
      BY <1>1, PairIs, NextIs, AlignCountsAssumption
    <2>3. wr <= Len(sent) * Stride(b)
      BY <1>1, <2>2
    <2>4. InOneLap(at, wr .. AlignCounts - 1)
      BY <1>1, <1>4, <2>1, <2>3 DEF InOneLap
    <2> QED BY <1>3, <2>4 DEF Layout
  <1>5. CASE \E b \in pair.sizes : OneSize(pair, b)
    <2>1. PICK b \in 0 .. MaxPayload : OneSize(pair, b)
      BY <1>5 DEF OneSize
    <2>2. /\ Stride(b) \in Nat \ {0} /\ pair.backlog \in Nat \ {0}
          /\ (pair.backlog - 1) * Stride(b) < AlignCounts
      BY <1>1, <2>1, PairIs, StrideIs DEF OneSize
    <2>3. PICK m, pos : pair.backlog <= m /\ IsGrid(m, pos, Stride(b))
      BY <2>2, GridExists
    <2>4. PICK place : place = [i \in 1 .. 1 |-> 0]
      OBVIOUS
    <2>5. m \in Nat \ {0} /\ pos[0] = 0
      BY <2>3 DEF IsGrid
    <2>6. InTurn(place, m, 1) /\ at[1] = pos[place[1]]
      BY <1>2, <2>4, <2>5 DEF InTurn
    <2>7. Len(sent) + 1 = 1 /\ Len(sent) - retired <= pair.backlog /\ \A i \in 1 .. 1 : i = 1
      BY <1>1, <2>2
    <2>8. InSlots(at, {pos[x] : x \in 0 .. m - 1})
      BY <2>1, <2>3, <2>6, <2>7 DEF InSlots
    <2> QED BY <1>3, <2>8 DEF Layout
  <1> QED BY <1>1, <1>4, <1>5 DEF KnownPairs

\* One more entry.
LEMMA WriteIs ==
  ASSUME KnownPairs, SentOK, NEW kind \in Kinds, NEW size \in Sizes, Write(kind, size)
  PROVE  /\ SentOK' /\ Len(sent') = Len(sent) + 1 /\ UNCHANGED <<pair, retired>>
         /\ Len(sent) < pair.count /\ Len(sent) - retired < pair.backlog
         /\ \A i \in 1 .. Len(sent) : sent'[i] = sent[i] /\ Size(i)' = Size(i) /\ Kind(i)' = Kind(i)
         /\ sent'[Len(sent) + 1] = [id |-> Len(sent) + 1, kind |-> kind, size |-> size]
         /\ \A i : i = Len(sent) + 1 => Size(i)' = size /\ Kind(i)' = kind
  <1> DEFINE S == [id : Ids, kind : Kinds, size : Sizes]
             new == [id |-> Len(sent) + 1, kind |-> kind, size |-> size]
  <1>1. /\ sent \in Seq(S) /\ Len(sent) < pair.count /\ Len(sent) - retired < pair.backlog
        /\ retired \in 0 .. Len(sent) /\ (\A i \in DOMAIN sent : sent[i].id = i)
        /\ sent' = Append(sent, new) /\ UNCHANGED <<pair, retired>> /\ pair \in Pairs
    BY DEF SentOK, Write
  <1>2. pair.count \in 1 .. MaxSent
    BY <1>1, PairIs
  <1>3. Len(sent) \in Nat
    BY <1>1
  <1>4. new \in S /\ new.id = Len(sent) + 1 /\ new.size = size /\ new.kind = kind
    <2>1. Len(sent) + 1 \in Ids
      BY <1>1, <1>2, <1>3, MaxSentAssumption DEF Ids
    <2> QED BY <2>1
  <1>5. S' = S /\ pair'.count = pair.count
    BY <1>1 DEF Kinds, Sizes
  <1> HIDE DEF S, new
  <1>6. /\ sent' \in Seq(S) /\ Len(sent') = Len(sent) + 1 /\ DOMAIN sent' = 1 .. Len(sent) + 1
        /\ sent'[Len(sent) + 1] = new /\ \A i \in 1 .. Len(sent) : sent'[i] = sent[i]
    BY <1>1, <1>4
  <1>7. \A i \in DOMAIN sent' : sent'[i].id = i
    <2> SUFFICES ASSUME NEW i \in 1 .. Len(sent) + 1 PROVE sent'[i].id = i
      BY <1>6
    <2>1. i = Len(sent) + 1 \/ i \in 1 .. Len(sent)
      BY <1>3
    <2>2. DOMAIN sent = 1 .. Len(sent)
      BY <1>1
    <2> QED BY <1>1, <1>4, <1>6, <2>1, <2>2
  <1>8. Len(sent') <= pair.count /\ retired' \in 0 .. Len(sent')
    BY <1>1, <1>2, <1>3, <1>6
  <1>9. SentOK'
    <2>1. sent' \in Seq(S')
      BY <1>5, <1>6
    <2> QED BY <1>1, <1>5, <1>7, <1>8, <2>1 DEF SentOK, S
  <1>10. /\ \A i \in 1 .. Len(sent) : Size(i)' = Size(i) /\ Kind(i)' = Kind(i)
         /\ \A i : i = Len(sent) + 1 => Size(i)' = size /\ Kind(i)' = kind
    <2>1. \A i \in 1 .. Len(sent) : sent'[i] = sent[i]
      BY <1>6
    <2>2. sent'[Len(sent) + 1].size = size /\ sent'[Len(sent) + 1].kind = kind
      BY <1>4, <1>6
    <2> QED BY <2>1, <2>2 DEF Size, Kind
  <1> QED BY <1>1, <1>6, <1>9, <1>10 DEF new

\* The slot after the one that is e slots on.
LEMMA NextPlace ==
  ASSUME NEW m \in Nat \ {0}, NEW x \in 0 .. m - 1, NEW z \in 0 .. m - 1, NEW e \in Nat, e < m,
         x = z + e \/ x = z + e - m, NEW y, y = (IF x < m - 1 THEN x + 1 ELSE 0)
  PROVE  y = z + (e + 1) \/ y = z + (e + 1) - m
  <1>1. CASE x < m - 1
    BY <1>1
  <1>2. CASE x = m - 1
    BY <1>2
  <1> QED BY <1>1, <1>2

\* Where the next entry but one will start is known when this one is made.
Longer(at, w) == [i \in 1 .. Len(sent) + 2 |-> IF i = Len(sent) + 2 THEN w ELSE at[i]]

\* The layout when one more entry was written.
LEMMA LayoutWrite ==
  ASSUME KnownPairs, SentOK, NEW at, NEW free, Layout(at, free),
         NEW kind \in Kinds, NEW size \in Sizes, Write(kind, size),
         NEW a, a = Longer(at, wr')
  PROVE  \E f : Layout(a, f)' /\ f \subseteq free
  <1>0. PICK n : n = Len(sent)
    OBVIOUS
  <1>1. /\ n \in Nat /\ retired \in 0 .. n /\ DOMAIN sent = 1 .. n
        /\ n + 1 \in 1 .. n + 1 /\ n + 2 \in 1 .. n + 2
        /\ SentOK' /\ Len(sent') = n + 1 /\ DOMAIN sent' = 1 .. n + 1 /\ UNCHANGED <<pair, retired>>
        /\ n < pair.count /\ n - retired < pair.backlog
        /\ \A i \in 1 .. n : Size(i)' = Size(i) /\ Size(i) \in Sizes
        /\ Size(n + 1)' = size
    <2>1. /\ SentOK' /\ Len(sent') = Len(sent) + 1 /\ UNCHANGED <<pair, retired>>
          /\ Len(sent) < pair.count /\ Len(sent) - retired < pair.backlog
          /\ \A i \in 1 .. Len(sent) : Size(i)' = Size(i)
          /\ \A i : i = Len(sent) + 1 => Size(i)' = size
      BY WriteIs
    <2>2. DOMAIN sent' = 1 .. Len(sent')
      BY <2>1 DEF SentOK
    <2> QED BY <1>0, <2>1, <2>2, SentIs
  <1>2. at \in [1 .. n + 1 -> 0 .. AlignCounts - 1] /\ at[1] = 0 /\ at[n + 1] = wr
        /\ \A i \in 1 .. n : at[i + 1] = NextEntry(at[i], Size(i))
    BY <1>0, <1>1 DEF Layout, Positions
  <1>3. size \in 0 .. MaxPayload /\ Sizes \subseteq 0 .. MaxPayload
    BY PairIs DEF SentOK
  <1>4. wr' = NextEntry(wr, size)
    BY DEF Write, WriterNext
  <1>5. wr \in 0 .. AlignCounts - 1 /\ AlignCounts \in Nat
    BY <1>1, <1>2, AlignCountsAssumption
  <1>6. /\ wr' = IF wr + Stride(size) < AlignCounts THEN wr + Stride(size) ELSE 0
        /\ wr' \in 0 .. AlignCounts - 1
    BY <1>3, <1>4, <1>5, NextIs
  <1>7. a = [i \in 1 .. n + 2 |-> IF i = n + 2 THEN wr' ELSE at[i]]
    BY <1>0 DEF Longer
  <1>8. /\ a \in [1 .. n + 2 -> 0 .. AlignCounts - 1]
        /\ a[n + 2] = wr' /\ \A i \in 1 .. n + 1 : a[i] = at[i]
    <2>1. PICK w : w = wr' /\ w \in 0 .. AlignCounts - 1
      BY <1>6
    <2>2. /\ n \in Nat /\ at \in [1 .. n + 1 -> 0 .. AlignCounts - 1]
          /\ a = [i \in 1 .. n + 2 |-> IF i = n + 2 THEN w ELSE at[i]]
      BY <1>1, <1>2, <1>7, <2>1
    <2>3. a \in [1 .. n + 2 -> 0 .. AlignCounts - 1] /\ a[n + 2] = w /\ \A i \in 1 .. n + 1 : a[i] = at[i]
      BY <2>1, <2>2
    <2> QED BY <2>1, <2>3
  <1>9. Positions(a)'
    <2>1. a[1] = 0
      BY <1>1, <1>2, <1>8
    <2>2. ASSUME NEW i \in 1 .. n + 1 PROVE a[i + 1] = NextEntry(a[i], Size(i)')
      <3>1. CASE i = n + 1
        <4>1. i + 1 = n + 2 /\ a[i] = wr
          BY <1>1, <1>2, <1>8, <3>1
        <4>2. a[i + 1] = wr' /\ Size(i)' = size
          BY <1>1, <1>8, <3>1, <4>1
        <4> QED BY <1>4, <4>1, <4>2
      <3>2. CASE i # n + 1
        <4>1. i \in 1 .. n /\ i + 1 \in 1 .. n + 1
          BY <1>1, <3>2
        <4> QED BY <1>1, <1>2, <1>8, <4>1
      <3> QED BY <3>1, <3>2
    <2>3. (n + 1) + 1 = n + 2
      BY <1>1
    <2> QED BY <1>1, <1>8, <2>1, <2>2, <2>3 DEF Positions
  <1>10. CASE InSlots(at, free)
    <2>1. PICK b, m, pos, place :
             /\ b \in 0 .. MaxPayload /\ OneSize(pair, b) /\ IsGrid(m, pos, Stride(b)) /\ pair.backlog <= m
             /\ InTurn(place, m, n + 1) /\ \A i \in 1 .. n + 1 : at[i] = pos[place[i]]
             /\ free = {pos[x] : x \in 0 .. m - 1}
      BY <1>0, <1>10 DEF InSlots
    <2>2. size = b
      BY <2>1 DEF OneSize, Sizes
    <2>3. PICK s \in Nat : s = Stride(b)
      BY <1>3, <1>5, <2>2, NextIs
    <2>4. /\ m \in Nat \ {0} /\ pos \in [0 .. m - 1 -> 0 .. AlignCounts - 1] /\ pos[0] = 0
          /\ \A x \in 0 .. m - 1 : IF x < m - 1 THEN pos[x + 1] = pos[x] + s ELSE pos[x] + s >= AlignCounts
      BY <2>1, <2>3 DEF IsGrid
    <2>5. /\ place \in [1 .. n + 1 -> 0 .. m - 1]
          /\ \A i, j \in 1 .. n + 1 : i <= j /\ j <= i + m =>
               place[j] = place[i] + (j - i) \/ place[j] = place[i] + (j - i) - m
      BY <2>1 DEF InTurn
    <2>6. PICK x \in 0 .. m - 1 : x = place[n + 1] /\ wr = pos[x]
      <3>1. PICK l \in 1 .. n + 1 : l = n + 1
        BY <1>1
      <3>2. place[l] \in 0 .. m - 1 /\ at[l] = pos[place[l]] /\ at[l] = wr
        BY <1>2, <2>1, <2>5, <3>1
      <3> QED BY <3>1, <3>2
    <2>7. PICK y \in 0 .. m - 1 : y = (IF x < m - 1 THEN x + 1 ELSE 0) /\ wr' = pos[y]
      <3>1. CASE x < m - 1
        <4>1. x + 1 \in 0 .. m - 1 /\ pos[x + 1] = wr + s
          <5>1. pos[x + 1] = pos[x] + s /\ m \in Nat \ {0}
            BY <2>4, <3>1
          <5>2. x + 1 \in 0 .. m - 1
            BY <3>1, <5>1
          <5> QED BY <2>6, <5>1, <5>2
        <4>2. pos[x + 1] < AlignCounts
          BY <1>5, <2>4, <4>1
        <4> QED BY <1>6, <2>2, <2>3, <3>1, <4>1, <4>2
      <3>2. CASE ~(x < m - 1)
        <4>1. wr + s >= AlignCounts /\ 0 \in 0 .. m - 1
          BY <2>4, <2>6, <3>2
        <4>2. wr' = 0
          BY <1>5, <1>6, <2>2, <2>3, <4>1
        <4> QED BY <2>4, <3>2, <4>1, <4>2
      <3> QED BY <3>1, <3>2
    <2>8. PICK pl : pl = [i \in 1 .. n + 2 |-> IF i = n + 2 THEN y ELSE place[i]]
      OBVIOUS
    <2>9. /\ pl \in [1 .. n + 2 -> 0 .. m - 1] /\ pl[n + 2] = y
          /\ \A i \in 1 .. n + 1 : pl[i] = place[i]
      BY <1>1, <2>5, <2>8
    <2>10. ASSUME NEW i \in 1 .. n + 2, NEW j \in 1 .. n + 2, i <= j, j <= i + m
           PROVE  pl[j] = pl[i] + (j - i) \/ pl[j] = pl[i] + (j - i) - m
      <3>1. CASE j # n + 2
        <4>1. i \in 1 .. n + 1 /\ j \in 1 .. n + 1
          BY <1>1, <2>10, <3>1
        <4> QED BY <2>5, <2>9, <2>10, <4>1
      <3>2. CASE i = n + 2
        <4>1. i = j /\ pl[i] \in Int
          BY <1>1, <2>4, <2>9, <2>10, <3>2
        <4> QED BY <4>1
      <3>3. CASE j = n + 2 /\ i # n + 2
        <4>1. i \in 1 .. n + 1 /\ n + 1 \in 1 .. n + 1 /\ i <= n + 1 /\ n + 1 <= i + m
          <5>1. j <= i + m /\ m \in Nat
            BY <2>4, <2>10
          <5> QED BY <1>1, <3>3, <5>1
        <4>2. place[n + 1] = place[i] + (n + 1 - i) \/ place[n + 1] = place[i] + (n + 1 - i) - m
          <5>1. PICK l \in 1 .. n + 1 : l = n + 1
            BY <4>1
          <5>2. place[l] = place[i] + (l - i) \/ place[l] = place[i] + (l - i) - m
            BY <2>5, <4>1, <5>1
          <5> QED BY <1>1, <4>1, <5>1, <5>2
        <4>3. PICK z \in 0 .. m - 1 : z = place[i] /\ z = pl[i]
          BY <2>5, <2>9, <4>1
        <4>4. x = z + (n + 1 - i) \/ x = z + (n + 1 - i) - m
          BY <2>6, <4>2, <4>3
        <4>5. y = z + (n + 2 - i) \/ y = z + (n + 2 - i) - m
          <5>1. m \in Nat \ {0} /\ y = (IF x < m - 1 THEN x + 1 ELSE 0) /\ x \in 0 .. m - 1 /\ z \in 0 .. m - 1
            BY <2>4, <2>7
          <5>2. PICK e \in Nat : e = n + 1 - i /\ e < m /\ n + 2 - i = e + 1
            <6>1. j <= i + m /\ j = n + 2 /\ i <= n + 1 /\ i \in Nat /\ n \in Nat
              BY <1>1, <2>10, <3>3, <4>1
            <6>2. n + 1 - i \in Nat /\ n + 1 - i < m /\ n + 2 - i = (n + 1 - i) + 1
              BY <5>1, <6>1
            <6> QED BY <6>2
          <5>3. x = z + e \/ x = z + e - m
            BY <4>4, <5>2
          <5> QED BY <5>1, <5>2, <5>3, NextPlace
        <4>6. pl[j] = y /\ j = n + 2
          BY <2>9, <3>3
        <4> QED BY <1>1, <4>3, <4>5, <4>6
      <3> QED BY <3>1, <3>2, <3>3
    <2>11. InTurn(pl, m, n + 2) /\ \A i \in 1 .. n + 2 : a[i] = pos[pl[i]]
      <3>1. \A i \in 1 .. n + 2 : i = n + 2 \/ i \in 1 .. n + 1
        BY <1>1
      <3> QED BY <1>8, <2>1, <2>7, <2>9, <2>10, <3>1 DEF InTurn
    <2>12. (n + 1) + 1 = n + 2 /\ n + 1 - retired <= pair.backlog
      <3>1. pair.backlog \in Nat
        BY PairIs DEF SentOK
      <3> QED BY <1>1, <3>1
    <2>13. InSlots(a, free)'
      BY <1>1, <2>1, <2>11, <2>12 DEF InSlots
    <2> QED BY <1>9, <2>13 DEF Layout
  <1>11. CASE InOneLap(at, free)
    <2>1. PICK b \in Sizes : pair.count * Stride(b) < AlignCounts /\ wr <= n * Stride(b)
                             /\ \A c \in Sizes : Stride(c) <= Stride(b)
      BY <1>0, <1>11 DEF InOneLap
    <2>2. PICK s \in Nat, t \in Nat : s = Stride(b) /\ t = Stride(size) /\ t <= s /\ t >= 3
      BY <1>3, <1>5, <2>1, NextIs
    <2>3. pair.count \in Nat
      BY PairIs DEF SentOK
    <2>4. wr + t <= (n + 1) * s /\ (n + 1) * s <= pair.count * s
      <3>1. (n + 1) * s = n * s + s
        BY <1>1
      <3>2. PICK k \in Nat : pair.count = (n + 1) + k
        <4>1. pair.count - (n + 1) \in Nat /\ pair.count = (n + 1) + (pair.count - (n + 1))
          BY <1>1, <2>3
        <4> QED BY <4>1
      <3>3. pair.count * s = (n + 1) * s + k * s /\ k * s >= 0
        BY <1>1, <3>2
      <3>4. PICK u \in Nat, v \in Nat, x \in Nat : u = n * s /\ v = k * s /\ x = (n + 1) * s
        BY <1>1
      <3>5. wr + t <= x
        BY <1>5, <2>1, <2>2, <3>1, <3>4
      <3>6. x <= x + v /\ pair.count * s = x + v
        BY <3>3, <3>4
      <3> QED BY <3>4, <3>5, <3>6
    <2>5. PICK u \in Int : u = (n + 1) * s
      BY <1>1
    <2>6. wr' = wr + t
      <3>1. PICK v \in Int : v = pair.count * s
        BY <2>3
      <3>2. wr + t < AlignCounts
        BY <1>5, <2>1, <2>2, <2>4, <2>5, <3>1
      <3> QED BY <1>6, <2>2, <3>2
    <2>7. wr' <= (n + 1) * Stride(b)
      BY <2>2, <2>4, <2>6
    <2>8. \A i \in 1 .. n, j \in 1 .. n + 1 : i < j => at[i] + Stride(Size(i)) <= at[j]
      BY <1>0, <1>1, <1>11 DEF InOneLap
    <2>9. ASSUME NEW i \in 1 .. n + 1, NEW j \in 1 .. n + 2, i < j
          PROVE  a[i] + Stride(Size(i)') <= a[j]
      <3>1. CASE j # n + 2
        <4>1. i \in 1 .. n /\ j \in 1 .. n + 1 /\ i \in 1 .. n + 1
          BY <1>1, <2>9, <3>1
        <4> QED BY <1>1, <1>8, <2>8, <2>9, <4>1
      <3>2. CASE j = n + 2 /\ i = n + 1
        <4>1. a[i] = wr /\ a[j] = wr' /\ Size(i)' = size
          BY <1>1, <1>2, <1>8, <3>2
        <4> QED BY <1>5, <2>2, <2>6, <4>1
      <3>3. CASE j = n + 2 /\ i # n + 1
        <4>1. i \in 1 .. n /\ n + 1 \in 1 .. n + 1 /\ i < n + 1 /\ i \in 1 .. n + 1
          BY <1>1, <3>3
        <4>2. at[i] + Stride(Size(i)) <= wr
          BY <1>2, <2>8, <4>1
        <4>3. Stride(Size(i)) \in Nat /\ at[i] \in Nat
          <5>1. at[i] \in 0 .. AlignCounts - 1 /\ Size(i) \in 0 .. MaxPayload
            BY <1>1, <1>2, <1>3, <4>1
          <5>2. Stride(Size(i)) \in Nat
            BY <5>1, StrideIs
          <5> QED BY <5>1, <5>2
        <4>4. at[i] + Stride(Size(i)) <= wr'
          BY <1>5, <2>2, <2>6, <4>2, <4>3
        <4> QED BY <1>1, <1>8, <3>3, <4>1, <4>4
      <3> QED BY <3>1, <3>2, <3>3
    <2>12. PICK f : f = wr' .. AlignCounts - 1
      OBVIOUS
    <2>10. InOneLap(a, f)'
      <3>1. (n + 1) + 1 = n + 2 /\ OneLap(pair')
        BY <1>1, <1>11 DEF InOneLap
      <3>2. b \in Sizes' /\ Sizes' = Sizes /\ pair'.count = pair.count
        BY <1>1 DEF Sizes
      <3>3. /\ pair'.count * Stride(b) < AlignCounts /\ wr' <= Len(sent') * Stride(b)
            /\ \A c \in Sizes' : Stride(c) <= Stride(b)
        BY <1>1, <2>1, <2>7, <3>2
      <3>4. \A i \in DOMAIN sent', j \in 1 .. Len(sent') + 1 : i < j => a[i] + Stride(Size(i)') <= a[j]
        BY <1>1, <2>9, <3>1
      <3> QED BY <2>12, <3>1, <3>2, <3>3, <3>4 DEF InOneLap
    <2>11. f \subseteq free
      <3>1. free = wr .. AlignCounts - 1
        BY <1>11 DEF InOneLap
      <3>2. PICK w \in Nat : w = wr' /\ wr <= w
        BY <1>5, <2>2, <2>6
      <3> QED BY <1>5, <2>12, <3>1, <3>2
    <2> QED BY <1>9, <2>10, <2>11 DEF Layout
  <1> QED BY <1>10, <1>11 DEF Layout

\* The other steps leave positions alone.
LEMMA LayoutKept ==
  ASSUME KnownPairs, SentOK, NEW at, NEW free, Layout(at, free),
         UNCHANGED <<pair, sent, wr>>, retired' \in Nat, retired <= retired'
  PROVE  Layout(at, free)'
  <1>1. Positions(at)'
    BY DEF Layout, Positions, Size
  <1>2. CASE InOneLap(at, free)
    <2>1. InOneLap(at, free)'
      BY <1>2 DEF InOneLap, Size, Sizes
    <2> QED BY <1>1, <2>1 DEF Layout
  <1>3. CASE InSlots(at, free)
    <2>1. Len(sent) \in Nat /\ retired \in Nat /\ pair.backlog \in Nat
      BY SentIs, PairIs DEF SentOK
    <2>2. Len(sent) - retired <= pair.backlog => Len(sent') - retired' <= pair'.backlog
      BY <2>1
    <2>3. InSlots(at, free)'
      BY <1>3, <2>2 DEF InSlots
    <2> QED BY <1>1, <2>3 DEF Layout
  <1> QED BY <1>2, <1>3 DEF Layout

(***************************************************************************)
(* Words.                                                                  *)
(***************************************************************************)
\* A canary is in one of the bytes of a word.
LEMMA CanaryByteIs ==
  ASSUME NEW b \in 0 .. MaxPayload
  PROVE  CanaryByte(b) \in Bytes
  <1>1. b \in Nat
    BY DEF MaxPayload
  <1> QED BY <1>1 DEF CanaryByte, Bytes, WordBytes

\* The words that the writer makes are words.
LEMMA MadeAre ==
  ASSUME NEW i \in Ids, NEW kind \in Kinds, NEW size \in Sizes
  PROVE  Data(i) \in WordTypes /\ Meta(i, kind, size) \in WordTypes /\ Final(i, size) \in WordTypes
  <1>1. i \in Ids \cup {0} /\ size \in Sizes \cup {0} /\ 0 \in Sizes \cup {0} /\ kind \in LastBytes /\ "ANY" \in LastBytes
    BY DEF LastBytes, AllKinds
  <1>2. Data(i) \in WordTypes
    BY <1>1 DEF Data, WordTypes
  <1>3. Meta(i, kind, size) \in WordTypes
    <2> DEFINE bytes == <<size % 256, size \div 256, (i - 1) % 256, 0>>
               c == [b \in Bytes |-> IF bytes[b + 1] = Canary THEN "yes" ELSE "no"]
    <2>1. c \in [Bytes -> {"yes", "no", "any"}]
      OBVIOUS
    <2>2. Meta(i, kind, size) = [id |-> i, role |-> "meta", kind |-> kind, size |-> size, canary |-> c]
      BY DEF Meta
    <2> HIDE DEF c
    <2> QED BY <1>1, <2>1, <2>2 DEF WordTypes
  <1>4. Final(i, size) \in WordTypes
    BY <1>1 DEF Final, WordTypes
  <1> QED BY <1>2, <1>3, <1>4

\* What becomes of a word that is delivered: it keeps what only the last
\* word of an entry mixes with what was there before.
LEMMA LandedIs ==
  ASSUME NEW old \in WordTypes, NEW word \in WordTypes
  PROVE  /\ Landed(old, word) \in WordTypes /\ Landed(old, word).id = word.id
         /\ word.role # "last" => Landed(old, word) = word
  <1>1. CASE word.role # "last"
    BY <1>1 DEF Landed
  <1>2. CASE word.role = "last"
    <2> DEFINE c == [b \in Bytes |-> IF b > CanaryByte(word.size) THEN old.canary[b] ELSE word.canary[b]]
               t == IF CanaryByte(word.size) = LastByte THEN "CANARY" ELSE old.kind
    <2>1. c \in [Bytes -> {"yes", "no", "any"}]
      BY DEF WordTypes
    <2>2. t \in LastBytes
      BY DEF WordTypes, LastBytes
    <2>3. Landed(old, word) = [word EXCEPT !.canary = c, !.kind = t]
      BY <1>2 DEF Landed
    <2> HIDE DEF c, t
    <2> QED BY <1>2, <2>1, <2>2, <2>3 DEF WordTypes
  <1> QED BY <1>1, <1>2

\* What becomes of a word whose canary is reset.
LEMMA WithoutCanaryIs ==
  ASSUME NEW word \in WordTypes, NEW b \in 0 .. MaxPayload
  PROVE  /\ WithoutCanary(word, b) \in WordTypes /\ WithoutCanary(word, b).id = word.id
         /\ NoCanary(WithoutCanary(word, b), b)
  <1> DEFINE c == [word.canary EXCEPT ![CanaryByte(b)] = "no"]
             t == IF CanaryByte(b) = LastByte THEN "NONE" ELSE word.kind
  <1>1. CanaryByte(b) \in Bytes
    BY CanaryByteIs
  <1>2. c \in [Bytes -> {"yes", "no", "any"}] /\ c[CanaryByte(b)] = "no"
    BY <1>1 DEF WordTypes
  <1>3. t \in LastBytes
    BY DEF WordTypes, LastBytes, AllKinds
  <1>4. WithoutCanary(word, b) = [word EXCEPT !.canary = c, !.kind = t]
    BY DEF WithoutCanary, WordTypes
  <1> HIDE DEF c, t
  <1> QED BY <1>2, <1>3, <1>4 DEF WordTypes, NoCanary

\* The words of an entry are words, and they land as such.
LEMMA WordsTyped ==
  ASSUME KnownPairs, SentOK, NEW i \in 1 .. Len(sent), NEW k
  PROVE  WordOf(i, k) \in WordTypes
  <1>1. Size(i) \in Sizes /\ Kind(i) \in Kinds /\ i \in Ids
    <2>1. Len(sent) \in Nat /\ Len(sent) <= pair.count /\ pair.count \in 1 .. MaxSent
      BY SentIs, PairIs DEF SentOK
    <2> QED BY <2>1, SentIs, MaxSentAssumption DEF Ids
  <1> QED BY <1>1, MadeAre DEF WordOf

\* A word of an entry that has not been validated, on delivery.
LEMMA LandedHolds ==
  ASSUME KnownPairs, SentOK, NEW i \in 1 .. Len(sent), NEW k, NEW old \in WordTypes
  PROVE  LET word == Landed(old, WordOf(i, k)) IN
         /\ word \in WordTypes /\ word.id = i
         /\ k = 2 => word.role = "meta" /\ word.kind = Kind(i) /\ word.size = Size(i)
  <1> DEFINE word == Landed(old, WordOf(i, k))
  <1>1. WordOf(i, k) \in WordTypes /\ WordOf(i, k).id = i
    BY WordsTyped DEF WordOf, Meta, Final, Data
  <1>2. word \in WordTypes /\ word.id = i /\ (WordOf(i, k).role # "last" => word = WordOf(i, k))
    BY <1>1, LandedIs
  <1>3. k = 2 => WordOf(i, k).role = "meta" /\ WordOf(i, k).kind = Kind(i) /\ WordOf(i, k).size = Size(i)
    BY DEF WordOf, Meta
  <1> QED BY <1>2, <1>3

\* Sequences of a length, and one behind the other.
IsLong(s, S, k) == s \in Seq(S) /\ Len(s) = k /\ k \in Nat
IsConcat(u, s, t) == u = s \o t
Follows(u, s, t, k, m) == (\A i \in 1 .. k : u[i] = s[i]) /\ \A i \in k + 1 .. m : u[i] = t[i - k]

\* Two sequences, one behind the other.
LEMMA ConcatIs ==
  ASSUME NEW S, NEW k, NEW l, NEW s, NEW t, IsLong(s, S, k), IsLong(t, S, l),
         NEW u, IsConcat(u, s, t), NEW m, m = k + l
  PROVE  IsLong(u, S, m) /\ Follows(u, s, t, k, m)
  <1>1. s \in Seq(S) /\ t \in Seq(S) /\ Len(s) = k /\ Len(t) = l /\ u = s \o t /\ k \in Nat /\ l \in Nat
    BY DEF IsLong, IsConcat
  <1>2. u \in Seq(S) /\ Len(u) = k + l
    BY <1>1, ConcatProperties
  <1>3. \A i \in 1 .. k + l : u[i] = IF i <= k THEN s[i] ELSE t[i - k]
    BY <1>1, ConcatProperties
  <1>4. \A i \in 1 .. k : i \in 1 .. k + l /\ i <= k
    BY <1>1
  <1>5. \A i \in k + 1 .. m : i \in 1 .. k + l /\ ~(i <= k)
    BY <1>1
  <1> QED BY <1>1, <1>2, <1>3, <1>4, <1>5 DEF IsLong, Follows

\* A function on 1 .. k is a sequence of k elements.
LEMMA CountedIs == ASSUME NEW S, NEW k \in Nat, NEW s, s \in [1 .. k -> S] PROVE IsLong(s, S, k)
  BY DEF IsLong

\* The words of an RDMA write, in order.
IsWrite(e, S, w, id, kind, size, s, l) ==
  /\ e \in Seq(S) /\ Len(e) = l
  /\ \A k \in 1 .. l :
       e[k] = [at   |-> w + k - 1,
               word |-> IF k = 2 THEN Meta(id, kind, size) ELSE IF k = s THEN Final(id, size) ELSE Data(id)]

\* EntryWrite makes them so: the two header words, the payload, the canary.
LEMMA EntryWriteIs ==
  ASSUME NEW w \in Nat, NEW id, NEW kind, NEW size \in 0 .. MaxPayload,
         NEW W, Data(id) \in W, Final(id, size) \in W, Meta(id, kind, size) \in W,
         NEW S, S = [at : Nat, word : W],
         NEW s \in Nat, s = Stride(size), NEW l, l = IF kind = "HDRONLY" THEN 2 ELSE s,
         NEW e, e = EntryWrite(w, id, kind, size)
  PROVE  IsWrite(e, S, w, id, kind, size, s, l)
  <1> USE DEF IsWrite
  <1> DEFINE hash == [at |-> w, word |-> Data(id)]
             meta == [at |-> w + 1, word |-> Meta(id, kind, size)]
             body == [i \in 1 .. size \div WordBytes |-> [at |-> w + HeaderWords + i - 1, word |-> Data(id)]]
             tail == [at |-> CanaryWord(w, size), word |-> Final(id, size)]
             head == <<hash, meta>>
  <1>1. s >= 3 /\ size \div WordBytes = s - 3
    <2>1. 0 \in 0 .. AlignCounts - 1
      BY AlignCountsAssumption
    <2> QED BY <2>1, NextIs
  <1>2. CanaryWord(w, size) = w + s - 1
    BY <1>1 DEF CanaryWord, HeaderWords
  <1>3. IsLong(head, S, 2) /\ head[1] = hash /\ head[2] = meta
    <2>1. hash \in S /\ meta \in S
      OBVIOUS
    <2>2. PICK x \in S, y \in S : x = hash /\ y = meta
      BY <2>1
    <2>3. head = <<x, y>>
      BY <2>2
    <2> HIDE DEF hash, meta, head
    <2> QED BY <2>2, <2>3 DEF IsLong
  <1>4. /\ IsLong(body, S, s - 3)
        /\ \A k \in 1 .. s - 3 : body[k] = [at |-> w + 2 + k - 1, word |-> Data(id)]
    <2>1. \A k \in 1 .. s - 3 : w + 2 + k - 1 \in Nat
      BY <1>1
    <2>2. PICK q \in Nat : q = s - 3 /\ size \div WordBytes = q
      BY <1>1
    <2>3. body = [k \in 1 .. q |-> [at |-> w + 2 + k - 1, word |-> Data(id)]]
      BY <2>2 DEF HeaderWords
    <2>4. \A k \in 1 .. q : [at |-> w + 2 + k - 1, word |-> Data(id)] \in S
      BY <2>1, <2>2
    <2>5. body \in [1 .. q -> S]
      BY <2>3, <2>4
    <2>6. IsLong(body, S, q)
      <3> HIDE DEF body
      <3> QED BY <2>2, <2>5, CountedIs
    <2> QED BY <2>2, <2>3, <2>6
  <1>5. tail \in S /\ tail = [at |-> w + s - 1, word |-> Final(id, size)]
    <2>1. w + s - 1 \in Nat
      BY <1>1
    <2> QED BY <1>2, <2>1
  <1>6. e = IF kind = "HDRONLY" THEN head ELSE head \o body \o <<tail>>
    BY DEF EntryWrite
  <1> HIDE DEF body, tail, head
  <1>7. CASE kind = "HDRONLY"
    <2>1. \A k \in 1 .. 2 : k = 1 \/ k = 2
      OBVIOUS
    <2> QED BY <1>1, <1>3, <1>6, <1>7, <2>1 DEF IsLong
  <1>8. CASE kind # "HDRONLY"
    <2>1. PICK u : u = head \o body
      OBVIOUS
    <2>2. IsLong(u, S, s - 1) /\ Follows(u, head, body, 2, s - 1)
      <3>1. IsConcat(u, head, body) /\ s - 1 = 2 + (s - 3)
        BY <1>1, <2>1 DEF IsConcat
      <3> QED BY <1>3, <1>4, <3>1, ConcatIs, Zenon
    <2>3. /\ \A k \in 1 .. 2 : u[k] = head[k]
          /\ \A k \in 3 .. s - 1 : u[k] = body[k - 2]
      BY <2>2 DEF Follows
    <2>4. PICK t : t = <<tail>>
      OBVIOUS
    <2>5. IsLong(t, S, 1) /\ t[1] = tail
      BY <1>5, <2>4 DEF IsLong
    <2>6. e = u \o t
      BY <1>6, <1>8, <2>1, <2>4
    <2>7. IsLong(e, S, s) /\ Follows(e, u, t, s - 1, s)
      <3>1. IsConcat(e, u, t) /\ s = (s - 1) + 1
        BY <1>1, <2>6 DEF IsConcat
      <3> QED BY <2>2, <2>5, <3>1, ConcatIs, Zenon
    <2>8. e[s] = tail /\ \A k \in 1 .. s - 1 : e[k] = u[k]
      <3>1. s \in (s - 1) + 1 .. s /\ s - (s - 1) = 1
        BY <1>1
      <3> QED BY <2>5, <2>7, <3>1 DEF Follows
    <2>9. ASSUME NEW k \in 1 .. s
          PROVE  e[k] = [at   |-> w + k - 1,
                         word |-> IF k = 2 THEN Meta(id, kind, size) ELSE IF k = s THEN Final(id, size) ELSE Data(id)]
      <3>1. CASE k = s
        BY <1>1, <1>5, <2>8, <3>1
      <3>2. CASE k = 1
        <4>1. 1 \in 1 .. 2 /\ 1 \in 1 .. s - 1 /\ w + 1 - 1 = w
          BY <1>1
        <4>2. e[1] = hash
          BY <1>3, <2>3, <2>8, <4>1
        <4> QED BY <1>1, <3>2, <4>1, <4>2
      <3>3. CASE k = 2
        <4>1. 2 \in 1 .. 2 /\ 2 \in 1 .. s - 1 /\ w + 2 - 1 = w + 1
          BY <1>1
        <4>2. e[2] = meta
          BY <1>3, <2>3, <2>8, <4>1
        <4> QED BY <1>1, <3>3, <4>1, <4>2
      <3>4. CASE k \in 3 .. s - 1
        <4>1. k - 2 \in 1 .. s - 3 /\ k \in 1 .. s - 1 /\ w + 2 + (k - 2) - 1 = w + k - 1
          BY <1>1, <3>4
        <4>2. e[k] = body[k - 2]
          BY <2>3, <2>8, <3>4, <4>1
        <4>3. body[k - 2] = [at |-> w + k - 1, word |-> Data(id)]
          BY <1>4, <4>1
        <4> QED BY <1>1, <3>4, <4>2, <4>3
      <3> QED BY <1>1, <3>1, <3>2, <3>3, <3>4
    <2> QED BY <1>8, <2>7, <2>9 DEF IsLong
  <1> QED BY <1>7, <1>8

(***************************************************************************)
(* What a change of one entry's words leaves alone.                        *)
(***************************************************************************)
\* Entries that are apart share no word.
LEMMA ApartIs ==
  ASSUME NEW v \in Nat, NEW w \in Nat, NEW a, NEW b, Stride(a) \in Nat, Stride(b) \in Nat, Apart(v, a, w, b),
         NEW k \in 1 .. Stride(a), NEW l \in 1 .. Stride(b)
  PROVE  v + k - 1 # w + l - 1
  BY DEF Apart

\* An outstanding entry shares no word with another one, nor with a free place.
LEMMA OthersApart ==
  ASSUME KnownPairs, SentOK, NEW at, NEW free, Positions(at), Room(at, free), NEW j \in Outstanding
  PROVE  \A k \in 1 .. Stride(Size(j)) :
           /\ \A i \in Outstanding \ {j} : \A l \in 1 .. Stride(Size(i)) : at[i] + l - 1 # at[j] + k - 1
           /\ \A w \in free \ {at[j]}, b \in Sizes : \A l \in 1 .. Stride(b) : w + l - 1 # at[j] + k - 1
  <1>1. \A i \in Outstanding : i \in 1 .. Len(sent) /\ Size(i) \in Sizes
    BY SentIs DEF Outstanding
  <1>2. \A b \in Sizes : Stride(b) \in Nat
    BY PairIs, StrideIs DEF SentOK
  <1>3. \A i \in Outstanding : at[i] \in Nat
    BY <1>1, SentIs DEF Positions
  <1>4. ASSUME NEW k \in 1 .. Stride(Size(j)), NEW i \in Outstanding \ {j}, NEW l \in 1 .. Stride(Size(i))
        PROVE  at[i] + l - 1 # at[j] + k - 1
    <2>1. i < j \/ j < i
      BY <1>1, SentIs
    <2>2. Apart(at[i], Size(i), at[j], Size(j)) \/ Apart(at[j], Size(j), at[i], Size(i))
      BY <2>1 DEF Room
    <2> QED BY <1>1, <1>2, <1>3, <2>2, ApartIs
  <1>5. ASSUME NEW k \in 1 .. Stride(Size(j)), NEW w \in free \ {at[j]}, NEW b \in Sizes, NEW l \in 1 .. Stride(b)
        PROVE  w + l - 1 # at[j] + k - 1
    <2>1. Apart(at[j], Size(j), w, b) /\ w \in Nat
      BY AlignCountsAssumption DEF Room
    <2> QED BY <1>1, <1>2, <1>3, <2>1, ApartIs
  <1> QED BY <1>4, <1>5

\* The change is at entry j.
OnlyAt(at, j) == \A v \in Words : (\A k \in 1 .. Stride(Size(j)) : v # at[j] + k - 1) => mem'[v] = mem[v]

\* So the words of the others, and the free places, are as before.
LEMMA OthersKept ==
  ASSUME KnownPairs, SentOK, NEW at, NEW free, Positions(at), Room(at, free), NEW j \in Outstanding,
         OnlyAt(at, j)
  PROVE  /\ \A i \in Outstanding \ {j} : \A l \in 1 .. Stride(Size(i)) : mem'[at[i] + l - 1] = mem[at[i] + l - 1]
         /\ \A w \in free \ {at[j]}, b \in Sizes : \A l \in 1 .. Stride(b) : mem'[w + l - 1] = mem[w + l - 1]
  <1>1. \A i \in Outstanding : i \in 1 .. Len(sent) /\ Size(i) \in Sizes /\ at[i] \in 0 .. AlignCounts - 1
    BY SentIs DEF Outstanding, Positions
  <1>2. \A w \in 0 .. AlignCounts - 1, b \in Sizes : \A l \in 1 .. Stride(b) : w + l - 1 \in Words
    BY WordsAre DEF SentOK
  <1>3. ASSUME NEW i \in Outstanding \ {j}, NEW l \in 1 .. Stride(Size(i))
        PROVE  mem'[at[i] + l - 1] = mem[at[i] + l - 1]
    <2>1. at[i] + l - 1 \in Words /\ \A k \in 1 .. Stride(Size(j)) : at[i] + l - 1 # at[j] + k - 1
      BY <1>1, <1>2, OthersApart
    <2> QED BY <2>1 DEF OnlyAt
  <1>4. ASSUME NEW w \in free \ {at[j]}, NEW b \in Sizes, NEW l \in 1 .. Stride(b)
        PROVE  mem'[w + l - 1] = mem[w + l - 1]
    <2>1. w \in 0 .. AlignCounts - 1
      BY DEF Room
    <2>2. w + l - 1 \in Words /\ \A k \in 1 .. Stride(Size(j)) : w + l - 1 # at[j] + k - 1
      BY <1>2, <2>1, OthersApart
    <2> QED BY <2>2 DEF OnlyAt
  <1> QED BY <1>3, <1>4

(***************************************************************************)
(* The steps.                                                              *)
(***************************************************************************)
\* What holds of an outstanding entry.
LEMMA EntryIs ==
  ASSUME KnownPairs, SentOK, NEW at, Positions(at), NEW j \in Outstanding
  PROVE  /\ j \in 1 .. Len(sent) /\ Size(j) \in Sizes /\ Size(j) \in 0 .. MaxPayload
         /\ Kind(j) \in Kinds /\ Kind(j) # "NONE" /\ sent[j].id = j
         /\ at[j] \in 0 .. AlignCounts - 1 /\ at[j] \in Nat
         /\ Stride(Size(j)) \in Nat /\ Stride(Size(j)) >= 3
         /\ Length(j) \in 2 .. Stride(Size(j))
         /\ at[j + 1] = NextEntry(at[j], Size(j)) /\ CanaryWord(at[j], Size(j)) = at[j] + Stride(Size(j)) - 1
  <1>1. j \in 1 .. Len(sent) /\ j \in DOMAIN sent
    BY SentIs DEF Outstanding
  <1>2. Size(j) \in Sizes /\ Kind(j) \in Kinds /\ sent[j].id = j
    BY <1>1, SentIs
  <1>3. Size(j) \in 0 .. MaxPayload /\ Kind(j) # "NONE"
    BY <1>2, PairIs DEF SentOK, Types
  <1>4. at[j] \in 0 .. AlignCounts - 1 /\ at[j + 1] = NextEntry(at[j], Size(j))
    BY <1>1, SentIs DEF Positions
  <1>5. at[j] \in Nat
    BY <1>4, AlignCountsAssumption
  <1>6. Stride(Size(j)) \in Nat /\ Stride(Size(j)) >= 3 /\ CanaryWord(at[j], Size(j)) = at[j] + Stride(Size(j)) - 1
    BY <1>3, <1>4, NextIs
  <1>7. Length(j) \in 2 .. Stride(Size(j))
    BY <1>6 DEF Length
  <1> QED BY <1>1, <1>2, <1>3, <1>4, <1>5, <1>6, <1>7

\* An entry whose words do not change.
LEMMA StoredKept ==
  ASSUME UNCHANGED sent, NEW i, NEW w \in Nat, NEW s \in Nat, s = Stride(Size(i)), s >= 3, StoredAt(i, w),
         \A l \in 1 .. s : mem'[w + l - 1] = mem[w + l - 1],
         \A k \in Nat : HasCome(i, k)' <=> HasCome(i, k), Validated(i)' <=> Validated(i)
  PROVE  StoredAt(i, w)'
  <1>1. Length(i)' = Length(i) /\ Size(i)' = Size(i) /\ Kind(i)' = Kind(i)
    BY DEF Length, Size, Kind
  <1>2. Length(i) \in 2 .. s
    BY DEF Length
  <1>3. \A k, x, y : y = x => (Holds(i, k, x) => Holds(i, k, y)')
    BY <1>1 DEF Holds, NoCanary
  <1>4. PICK x : x = w + 1 /\ mem'[x] = mem[x]
    <2>1. 2 \in 1 .. s /\ w + 2 - 1 = w + 1
      OBVIOUS
    <2> QED BY <2>1
  <1>5. \A k \in 1 .. Length(i) : k \in 1 .. s /\ k \in Nat /\ mem'[w + k - 1] = mem[w + k - 1]
    BY <1>2
  <1>6. Length(i) \in 1 .. Length(i) /\ 2 \in Nat
    BY <1>2
  <1>7. \A k \in 1 .. Length(i) : HasCome(i, k)' => Holds(i, k, mem[w + k - 1])'
    BY <1>3, <1>5 DEF StoredAt
  <1>8. ~HasCome(i, 2)' => Blank(mem'[w + 1])
    BY <1>4, <1>6 DEF StoredAt
  <1>9. PICK m : m = Length(i) /\ m = Length(i)'
    BY <1>1
  <1>10. Kind(i)' # "HDRONLY" /\ ~HasCome(i, m)' => NoCanary(mem'[w + m - 1], Size(i)')
    BY <1>1, <1>5, <1>6, <1>9 DEF StoredAt
  <1> QED BY <1>1, <1>7, <1>8, <1>9, <1>10 DEF StoredAt

\* A free place whose words do not change.
LEMMA ReadyKept ==
  ASSUME KnownPairs, pair \in Pairs, UNCHANGED pair, NEW w \in Nat, Ready(w),
         \A b \in Sizes : \A l \in 1 .. Stride(b) : mem'[w + l - 1] = mem[w + l - 1]
  PROVE  Ready(w)'
  <1> SUFFICES ASSUME NEW b \in Sizes
               PROVE  Blank(mem'[w + 1]) /\ NoCanary(mem'[w + Stride(b) - 1], b)
    BY DEF Ready, Sizes
  <1>1. Stride(b) \in Nat /\ Stride(b) >= 3
    BY PairIs, StrideIs
  <1>2. 2 \in 1 .. Stride(b) /\ Stride(b) \in 1 .. Stride(b) /\ w + 2 - 1 = w + 1
    BY <1>1
  <1>3. mem'[w + 1] = mem[w + 1] /\ mem'[w + Stride(b) - 1] = mem[w + Stride(b) - 1]
    BY <1>2
  <1> QED BY <1>3 DEF Ready

\* A step that changes no words but those of entry j.
LEMMA MemoryChange ==
  ASSUME KnownPairs, SentOK, NEW at, NEW free, Positions(at), Room(at, free), Memory(at, free),
         UNCHANGED <<pair, sent, retired>>, NEW j \in Outstanding, OnlyAt(at, j),
         mem' \in [Words -> WordTypes], StoredAt(j, at[j])',
         \A i \in Outstanding \ {j} :
           /\ \A k \in Nat : HasCome(i, k)' <=> HasCome(i, k)
           /\ Validated(i)' <=> Validated(i)
  PROVE  Memory(at, free)'
  <1>1. mem' \in [Words' -> WordTypes']
    BY DEF Words, Sizes, WordTypes, LastBytes, AllKinds, Kinds
  <1>2. Outstanding' = Outstanding
    BY DEF Outstanding
  <1>3. /\ \A i \in Outstanding \ {j} : \A l \in 1 .. Stride(Size(i)) : mem'[at[i] + l - 1] = mem[at[i] + l - 1]
        /\ \A w \in free \ {at[j]}, b \in Sizes : \A l \in 1 .. Stride(b) : mem'[w + l - 1] = mem[w + l - 1]
    BY OthersKept
  <1>4. ASSUME NEW i \in Outstanding PROVE StoredAt(i, at[i])'
    <2>1. CASE i = j
      BY <2>1
    <2>2. CASE i # j
      <3>1. StoredAt(i, at[i])
        BY DEF Memory
      <3>2. at[i] \in Nat /\ Stride(Size(i)) \in Nat /\ Stride(Size(i)) >= 3
        BY EntryIs
      <3>3. PICK w \in Nat, s \in Nat : w = at[i] /\ s = Stride(Size(i))
        BY <3>2
      <3> QED BY <1>3, <2>2, <3>1, <3>2, <3>3, StoredKept
    <2> QED BY <2>1, <2>2
  <1>5. ASSUME NEW w \in free, \A i \in Outstanding : at[i] # w PROVE Ready(w)'
    <2>1. Ready(w) /\ w # at[j]
      BY <1>5 DEF Memory
    <2>2. w \in Nat
      BY AlignCountsAssumption DEF Room
    <2> QED BY <1>3, <2>1, <2>2, ReadyKept DEF SentOK
  <1> QED BY <1>1, <1>2, <1>4, <1>5 DEF Memory

\* The header of an outstanding entry whose second word has come.
LEMMA HeaderIs ==
  ASSUME KnownPairs, SentOK, NEW at, NEW free, Positions(at), Memory(at, free),
         NEW j \in Outstanding, HasCome(j, 2)
  PROVE  Holds(j, 2, mem[at[j] + 1])
  <1>1. /\ Length(j) \in 2 .. Stride(Size(j)) /\ Stride(Size(j)) \in Nat /\ Stride(Size(j)) >= 3
        /\ at[j] \in Nat
    BY EntryIs
  <1>2. 2 \in 1 .. Length(j) /\ 2 # Stride(Size(j)) /\ at[j] + 2 - 1 = at[j] + 1
    BY <1>1
  <1>3. Holds(j, 2, mem[at[j] + 2 - 1])
    BY <1>2 DEF Memory, StoredAt
  <1> QED BY <1>2, <1>3

\* A header is seen only when the next entry's has come.
LEMMA DetectStep ==
  ASSUME KnownPairs, NEW at, NEW free, RingAt(at, free), Detect
  PROVE  RingAt(at, free)'
  <1> DEFINE j == retired + 1
  <1>1. SentOK /\ Layout(at, free) /\ Positions(at) /\ InTransit(at) /\ Memory(at, free) /\ Reader(at) /\ Room(at, free)
    BY RoomIs DEF RingAt, Layout
  <1>2. /\ pc = "poll" /\ pc' = "canary" /\ header' = rd
        /\ UNCHANGED <<pair, sent, wr, transit, mem, rd, received, retired>>
    BY DEF Detect
  <1>3. rd = at[retired + 1] /\ Len(sent) \in Nat /\ retired \in 0 .. Len(sent)
    BY <1>1, <1>2, SentIs DEF Reader
  <1>4. ~Blank(mem[rd + 1])
    <2> SUFFICES ASSUME Blank(mem[rd + 1]) PROVE FALSE
      OBVIOUS
    <2>1. PICK h \in ReadAs(mem[rd + 1]) : Detected(h.kind)
      BY DEF Detect
    <2>2. h.kind = "NONE"
      BY <2>1 DEF ReadAs, Blank
    <2>3. Kinds \subseteq Types
      BY <1>1, PairIs DEF SentOK
    <2> QED BY <2>1, <2>2, <2>3 DEF Types, Detected
  <1>5. retired < Len(sent)
    <2> SUFFICES ASSUME retired = Len(sent) PROVE FALSE
      BY <1>3
    <2>1. Outstanding = {} /\ rd = wr /\ wr \in free
      BY <1>1, <1>3 DEF Outstanding, Positions, Room
    <2>2. Ready(wr)
      BY <1>1, <2>1 DEF Memory
    <2>3. \E b \in Sizes : TRUE
      BY <1>1, PairIs DEF SentOK
    <2> QED BY <1>4, <2>1, <2>2, <2>3 DEF Ready
  <1>6. j \in Outstanding
    BY <1>3, <1>5 DEF Outstanding
  <1>7. HasCome(j, 2)
    <2>1. StoredAt(j, at[j])
      BY <1>1, <1>6 DEF Memory
    <2> QED BY <1>3, <1>4, <2>1 DEF StoredAt
  <1>8. (\A i, k : HasCome(i, k)' <=> HasCome(i, k)) /\ \A i : Validated(i)' <=> Validated(i)
    BY <1>2 DEF HasCome, Length, Kind, Size, Validated
  <1>9. Memory(at, free)'
    <2>1. StoredAt(j, at[j])
      BY <1>1, <1>6 DEF Memory
    <2>2. PICK w \in Nat, s \in Nat : w = at[j] /\ s = Stride(Size(j)) /\ s >= 3
      BY <1>1, <1>6, EntryIs
    <2>3. PICK i \in Outstanding : i = j /\ OnlyAt(at, i)
      BY <1>2, <1>6 DEF OnlyAt
    <2>4. StoredAt(i, at[i])'
      BY <1>2, <1>8, <2>1, <2>2, <2>3, StoredKept
    <2>5. mem' \in [Words -> WordTypes]
      BY <1>1, <1>2 DEF Memory
    <2> QED BY <1>1, <1>2, <1>8, <2>3, <2>4, <2>5, MemoryChange
  <1>10. SentOK' /\ Layout(at, free)' /\ InTransit(at)'
    <2>1. SentOK'
      BY <1>1, <1>2 DEF SentOK, Kinds, Sizes
    <2>2. Layout(at, free)'
      BY <1>1, <1>2, <1>3, LayoutKept
    <2>3. InTransit(at)'
      BY <1>1, <1>2 DEF InTransit, WordOf, Length, Kind, Size, WordTypes, LastBytes, AllKinds, Kinds, Sizes
    <2> QED BY <2>1, <2>2, <2>3
  <1>11. Reader(at)'
    <2>1. rd \in 0 .. AlignCounts - 1
      BY <1>1, <1>3 DEF Positions
    <2>2. HasCome(retired + 1, 2)'
      BY <1>2, <1>7, <1>8
    <2> QED BY <1>1, <1>2, <1>3, <1>5, <2>1, <2>2 DEF Reader, Kinds, Outline
  <1> QED BY <1>9, <1>10, <1>11 DEF RingAt

\* The reader validates an entry when all of it has come, and moves to the
\* next one.
LEMMA ValidateStep ==
  ASSUME KnownPairs, NEW at, NEW free, RingAt(at, free), Validate
  PROVE  RingAt(at, free)'
  <1>0. PICK j : j = retired + 1
    OBVIOUS
  <1>1. SentOK /\ Layout(at, free) /\ Positions(at) /\ InTransit(at) /\ Memory(at, free) /\ Reader(at) /\ Room(at, free)
    BY RoomIs DEF RingAt, Layout
  <1>2. /\ pc = "canary" /\ pc' = "handle"
        /\ UNCHANGED <<pair, sent, wr, transit, header, received, retired>>
    BY DEF Validate
  <1>3. /\ rd = at[j] /\ header = at[j] /\ retired < Len(sent) /\ HasCome(j, 2)
        /\ Len(sent) \in Nat /\ retired \in 0 .. Len(sent)
    BY <1>0, <1>1, <1>2, SentIs DEF Reader
  <1>4. j \in Outstanding
    BY <1>0, <1>3 DEF Outstanding
  <1>5. Holds(j, 2, mem[rd + 1])
    BY <1>1, <1>3, <1>4, HeaderIs
  <1>6. PICK s \in Nat : /\ s = Stride(Size(j)) /\ s >= 3 /\ CanaryWord(rd, Size(j)) = at[j] + s - 1
                         /\ at[j] \in 0 .. AlignCounts - 1 /\ at[j] \in Nat
                         /\ at[j + 1] = NextEntry(rd, Size(j)) /\ Size(j) \in Sizes
    BY <1>1, <1>3, <1>4, EntryIs
  <1>7. PICK c : c = at[j] + s - 1
    OBVIOUS
  <1>8. /\ rd' = at[j + 1]
        /\ \/ Kind(j) = "HDRONLY" /\ mem' = mem
           \/ /\ Kind(j) # "HDRONLY" /\ MayBeCanary(mem[c], Size(j))
              /\ mem' = [mem EXCEPT ![c] = WithoutCanary(@, Size(j))]
    <2>1. Kind(j) # "ANY"
      <3>1. Kind(j) \in Kinds /\ Kinds \subseteq Types
        BY <1>1, <1>4, EntryIs, PairIs DEF SentOK
      <3> QED BY <3>1 DEF Types
    <2>2. mem[rd + 1].role = "meta" /\ mem[rd + 1].kind = Kind(j) /\ mem[rd + 1].size = Size(j)
      BY <1>5 DEF Holds
    <2>3. \A h \in ReadAs(mem[rd + 1]) : h.kind = Kind(j) /\ h.size = Size(j)
      BY <2>1, <2>2 DEF ReadAs
    <2> QED BY <1>6, <1>7, <2>3 DEF Validate
  <1>9. HasCome(j, Length(j))
    <2>1. CASE Kind(j) = "HDRONLY"
      BY <1>3, <2>1 DEF Length
    <2>2. CASE Kind(j) # "HDRONLY"
      <3> SUFFICES ASSUME ~HasCome(j, Length(j)) PROVE FALSE
        OBVIOUS
      <3>1. Length(j) = s
        BY <1>6, <2>2 DEF Length
      <3>2. NoCanary(mem[c], Size(j))
        BY <1>1, <1>4, <1>7, <2>2, <3>1 DEF Memory, StoredAt
      <3> QED BY <1>8, <2>2, <3>2 DEF NoCanary, MayBeCanary
    <2> QED BY <2>1, <2>2
  <1>10. /\ \A i, k : HasCome(i, k)' <=> HasCome(i, k)
         /\ \A i \in Outstanding \ {j} : Validated(i)' <=> Validated(i)
    BY <1>0, <1>2 DEF HasCome, Length, Kind, Size, Validated
  <1>11. ~Validated(j) /\ Validated(j)'
    BY <1>0, <1>2 DEF Validated
  <1>12. mem \in [Words -> WordTypes] /\ c \in Words
    <2>1. s \in 1 .. s
      BY <1>6
    <2> QED BY <1>1, <1>6, <1>7, <2>1, WordsAre DEF Memory, SentOK
  <1>13. Length(j)' = Length(j) /\ Size(j)' = Size(j) /\ Kind(j)' = Kind(j)
    BY <1>2 DEF Length, Size, Kind
  <1>14. /\ mem' \in [Words -> WordTypes] /\ OnlyAt(at, j)
         /\ \A k \in 1 .. Length(j) : Holds(j, k, mem[at[j] + k - 1])'
    <2>1. \A k \in 1 .. Length(j) : Holds(j, k, mem[at[j] + k - 1])
      <3>1. \A k \in 1 .. Length(j) : HasCome(j, k)
        <4>1. Length(j) \in Nat /\ (Len(sent) = 0 \/ Len(transit) \in Nat)
          <5>1. Length(j) \in Nat
            BY <1>6 DEF Length
          <5> QED BY <1>1, <1>3, <5>1 DEF InTransit
        <4> QED BY <1>3, <1>9, <4>1 DEF HasCome
      <3> QED BY <1>1, <1>4, <3>1 DEF Memory, StoredAt
    <2>2. \A k, x, y : k # s /\ y = x /\ Holds(j, k, x) => Holds(j, k, y)'
      BY <1>6, <1>13 DEF Holds
    <2>3. CASE Kind(j) = "HDRONLY"
      <3>1. Length(j) = 2 /\ mem' = mem
        BY <1>8, <2>3 DEF Length
      <3> QED BY <1>6, <1>12, <2>1, <2>2, <3>1 DEF OnlyAt
    <2>4. CASE Kind(j) # "HDRONLY"
      <3>1. Length(j) = s /\ mem' = [mem EXCEPT ![c] = WithoutCanary(@, Size(j))]
        BY <1>6, <1>8, <2>4 DEF Length
      <3>2. s \in 1 .. s /\ s # 2
        BY <1>6
      <3>3. mem[c].id = j /\ mem[c] \in WordTypes
        BY <1>7, <1>12, <2>1, <3>1, <3>2 DEF Holds
      <3>4. mem'[c] = WithoutCanary(mem[c], Size(j))
        BY <1>12, <3>1
      <3>5. \A v \in Words : v # c => mem'[v] = mem[v]
        BY <1>12, <3>1
      <3>7. mem'[c] \in WordTypes /\ mem'[c].id = j /\ NoCanary(mem'[c], Size(j))
        <4>1. Size(j) \in 0 .. MaxPayload
          BY <1>1, <1>6, PairIs DEF SentOK
        <4> QED BY <3>3, <3>4, <4>1, WithoutCanaryIs
      <3>6. Holds(j, s, mem[c])'
        BY <1>2, <1>6, <1>7, <1>13, <3>2, <3>7 DEF Holds, NoCanary
      <3>8. mem' \in [Words -> WordTypes]
        <4>1. PICK f : f = mem' /\ DOMAIN f = Words /\ f = [v \in Words |-> f[v]]
          BY <1>12, <3>1
        <4>2. \A v \in Words : f[v] \in WordTypes
          BY <1>12, <3>5, <3>7, <4>1
        <4> QED BY <4>1, <4>2
      <3>9. OnlyAt(at, j)
        BY <1>6, <1>7, <3>2, <3>5 DEF OnlyAt
      <3>10. ASSUME NEW k \in 1 .. s PROVE Holds(j, k, mem[at[j] + k - 1])'
        <4>1. CASE k = s
          BY <1>7, <3>6, <4>1
        <4>2. CASE k # s
          <5>1. at[j] + k - 1 \in Words
            BY <1>1, <1>6, WordsAre DEF SentOK
          <5>2. at[j] + k - 1 # c
            BY <1>6, <1>7, <4>2
          <5> QED BY <2>1, <2>2, <3>1, <3>5, <4>2, <5>1, <5>2
        <4> QED BY <4>1, <4>2
      <3> QED BY <3>1, <3>8, <3>9, <3>10
    <2> QED BY <2>3, <2>4
  <1>15. StoredAt(j, at[j])'
    <2>1. HasCome(j, 2)' /\ HasCome(j, Length(j))'
      BY <1>3, <1>9, <1>10, <1>13
    <2> QED BY <1>13, <1>14, <2>1 DEF StoredAt
  <1>16. Memory(at, free)'
    BY <1>1, <1>2, <1>4, <1>10, <1>14, <1>15, MemoryChange
  <1>17. SentOK' /\ Layout(at, free)' /\ InTransit(at)'
    <2>1. SentOK'
      BY <1>1, <1>2 DEF SentOK, Kinds, Sizes
    <2>2. Layout(at, free)'
      BY <1>1, <1>2, <1>3, LayoutKept
    <2>3. InTransit(at)'
      BY <1>1, <1>2 DEF InTransit, WordOf, Length, Kind, Size, WordTypes, LastBytes, AllKinds, Kinds, Sizes
    <2> QED BY <2>1, <2>2, <2>3
  <1>18. Reader(at)'
    <2>1. HasCome(retired + 1, 2)' /\ HasCome(retired + 1, Length(retired + 1))'
      BY <1>0, <1>2, <1>3, <1>9, <1>10, <1>13
    <2>2. j + 1 = retired + 2
      BY <1>0, <1>3
    <2> QED BY <1>0, <1>1, <1>2, <1>3, <1>8, <2>1, <2>2 DEF Reader, Kinds, Outline
  <1> QED BY <1>16, <1>17, <1>18 DEF RingAt

\* The worker is handed the entry as it was sent.
LEMMA HandleStep ==
  ASSUME KnownPairs, NEW at, NEW free, RingAt(at, free), Handle
  PROVE  RingAt(at, free)'
  <1>0. PICK j : j = retired + 1
    OBVIOUS
  <1>1. SentOK /\ Layout(at, free) /\ Positions(at) /\ InTransit(at) /\ Memory(at, free) /\ Reader(at) /\ Room(at, free)
    BY RoomIs DEF RingAt, Layout
  <1>2. /\ pc = "handle" /\ pc' = "clear" /\ received' = Append(received, EntryAt(header))
        /\ UNCHANGED <<pair, sent, wr, transit, mem, rd, header, retired>>
    BY DEF Handle
  <1>3. /\ header = at[j] /\ retired < Len(sent) /\ HasCome(j, 2) /\ HasCome(j, Length(j))
        /\ Len(sent) \in Nat /\ retired \in 0 .. Len(sent)
    BY <1>0, <1>1, <1>2, SentIs DEF Reader
  <1>4. j \in Outstanding
    BY <1>0, <1>3 DEF Outstanding
  <1>5. Holds(j, 2, mem[header + 1])
    BY <1>1, <1>3, <1>4, HeaderIs
  <1>6. PICK s \in Nat : /\ s = Stride(Size(j)) /\ s >= 3 /\ CanaryWord(header, Size(j)) = header + s - 1
                         /\ header \in Nat /\ Kind(j) # "NONE" /\ Kind(j) \in Kinds /\ sent[j].id = j
                         /\ j \in 1 .. Len(sent)
    BY <1>1, <1>3, <1>4, EntryIs
  <1>7. Kind(j) # "HDRONLY" => {mem[v].id : v \in EntryWords(header, Size(j))} = {j}
    <2> SUFFICES ASSUME Kind(j) # "HDRONLY" PROVE {mem[v].id : v \in EntryWords(header, Size(j))} = {j}
      OBVIOUS
    <2>1. Length(j) = s
      BY <1>6 DEF Length
    <2>2. \A k \in 1 .. s : HasCome(j, k)
      <3>1. Len(transit) \in Nat
        BY <1>1, <1>3 DEF InTransit
      <3>2. j < Len(sent) \/ s <= s - Len(transit)
        BY <1>3, <2>1 DEF HasCome
      <3>3. \A k \in 1 .. s : j < Len(sent) \/ k <= s - Len(transit)
        BY <3>1, <3>2
      <3> QED BY <2>1, <3>3 DEF HasCome
    <2>3. \A k \in 1 .. s : Holds(j, k, mem[header + k - 1])
      BY <1>1, <1>3, <1>4, <2>1, <2>2 DEF Memory, StoredAt
    <2>4. \A k \in 1 .. s : mem[header + k - 1].id = j
      BY <2>3 DEF Holds
    <2>5. EntryWords(header, Size(j)) = header .. header + s - 1
      BY <1>6 DEF EntryWords
    <2>6. ASSUME NEW v \in header .. header + s - 1 PROVE mem[v].id = j
      <3>1. PICK k \in 1 .. s : v = header + k - 1
        <4>1. PICK h \in Nat : h = header /\ v \in h .. h + s - 1
          BY <1>6
        <4>2. v - h + 1 \in 1 .. s /\ v = h + (v - h + 1) - 1
          BY <4>1
        <4> QED BY <4>1, <4>2
      <3> QED BY <2>4, <3>1
    <2>7. header \in header .. header + s - 1
      BY <1>6
    <2> QED BY <2>5, <2>6, <2>7
  <1>8. EntryAt(header) = Outline(sent[j])
    <2>1. Outline(sent[j]) = [id |-> j, kind |-> Kind(j)]
      BY <1>6 DEF Outline, Kind
    <2>2. /\ mem[header + 1].role = "meta" /\ mem[header + 1].kind = Kind(j)
          /\ mem[header + 1].size = Size(j) /\ mem[header + 1].id = j
      BY <1>5 DEF Holds
    <2>3. EntryAt(header) = [id |-> j, kind |-> Kind(j)]
      BY <1>6, <1>7, <2>2 DEF EntryAt
    <2> QED BY <2>1, <2>3
  <1>9. /\ \A i, k : HasCome(i, k)' <=> HasCome(i, k)
        /\ \A i : Validated(i)' <=> Validated(i)
    BY <1>2 DEF HasCome, Length, Kind, Size, Validated
  <1>10. Memory(at, free)'
    <2>1. StoredAt(j, at[j])
      BY <1>1, <1>4 DEF Memory
    <2>2. PICK w \in Nat, s2 \in Nat : w = at[j] /\ s2 = Stride(Size(j)) /\ s2 >= 3
      BY <1>1, <1>4, EntryIs
    <2>3. OnlyAt(at, j)
      BY <1>2 DEF OnlyAt
    <2>4. StoredAt(j, at[j])'
      BY <1>2, <1>9, <2>1, <2>2, StoredKept
    <2>5. mem' \in [Words -> WordTypes]
      BY <1>1, <1>2 DEF Memory
    <2> QED BY <1>1, <1>2, <1>4, <1>9, <2>3, <2>4, <2>5, MemoryChange
  <1>11. SentOK' /\ Layout(at, free)' /\ InTransit(at)'
    <2>1. SentOK'
      BY <1>1, <1>2 DEF SentOK, Kinds, Sizes
    <2>2. Layout(at, free)'
      BY <1>1, <1>2, <1>3, LayoutKept
    <2>3. InTransit(at)'
      BY <1>1, <1>2 DEF InTransit, WordOf, Length, Kind, Size, WordTypes, LastBytes, AllKinds, Kinds, Sizes
    <2> QED BY <2>1, <2>2, <2>3
  <1>12. Reader(at)'
    <2> DEFINE R == [id : Ids, kind : Kinds]
               o == Outline(sent[j])
    <2>1. received \in Seq(R) /\ Len(received) = retired /\ \A i \in 1 .. retired : received[i] = Outline(sent[i])
      BY <1>1, <1>2 DEF Reader
    <2>2. o \in R
      <3>1. PICK S : S = [id : Ids, kind : Kinds, size : Sizes] /\ sent \in Seq(S)
        BY <1>1 DEF SentOK
      <3>2. sent \in Seq(S) /\ j \in 1 .. Len(sent)
        BY <1>6, <3>1
      <3>3. sent[j] \in S
        BY <3>2
      <3> QED BY <3>1, <3>3 DEF Outline
    <2> HIDE DEF R, o
    <2>3. /\ received' \in Seq(R) /\ Len(received') = retired + 1
          /\ \A i \in 1 .. retired + 1 : received'[i] = Outline(sent[i])
      <3>1. received' = Append(received, o)
        BY <1>2, <1>8 DEF o
      <3>2. /\ received' \in Seq(R) /\ Len(received') = retired + 1
            /\ received'[retired + 1] = o /\ \A i \in 1 .. retired : received'[i] = received[i]
        BY <2>1, <2>2, <3>1
      <3>3. \A i \in 1 .. retired + 1 : i = retired + 1 \/ i \in 1 .. retired
        BY <1>3
      <3> QED BY <1>0, <2>1, <3>2, <3>3 DEF o
    <2>4. HasCome(retired + 1, 2)' /\ HasCome(retired + 1, Length(retired + 1))'
      <3>1. Length(retired + 1)' = Length(retired + 1)
        BY <1>2 DEF Length, Kind, Size
      <3> QED BY <1>0, <1>2, <1>3, <1>9, <3>1
    <2> QED BY <1>0, <1>1, <1>2, <1>3, <2>3, <2>4 DEF Reader, Kinds, R, Outline
  <1> QED BY <1>10, <1>11, <1>12 DEF RingAt

\* The worker retires an entry; its place, if it can be used again, has
\* neither header nor canary left.
LEMMA ClearStep ==
  ASSUME KnownPairs, NEW at, NEW free, RingAt(at, free), Clear
  PROVE  RingAt(at, free)'
  <1>0. PICK j : j = retired + 1
    OBVIOUS
  <1>1. SentOK /\ Layout(at, free) /\ Positions(at) /\ InTransit(at) /\ Memory(at, free) /\ Reader(at) /\ Room(at, free)
    BY RoomIs DEF RingAt, Layout
  <1>2. /\ pc = "clear" /\ pc' = "poll" /\ retired' = retired + 1
        /\ UNCHANGED <<pair, sent, wr, transit, rd, header, received>>
    BY DEF Clear
  <1>3. /\ header = at[j] /\ rd = at[j + 1] /\ retired < Len(sent)
        /\ HasCome(j, 2) /\ HasCome(j, Length(j))
        /\ Len(sent) \in Nat /\ retired \in 0 .. Len(sent)
    <2>1. Len(sent) \in Nat /\ retired \in 0 .. Len(sent)
      BY <1>1, SentIs
    <2>2. j + 1 = retired + 2
      BY <1>0, <2>1
    <2> QED BY <1>0, <1>1, <1>2, <2>1, <2>2 DEF Reader
  <1>4. j \in Outstanding /\ Outstanding' = Outstanding \ {j} /\ Validated(j)
    BY <1>0, <1>2, <1>3 DEF Outstanding, Validated
  <1>5. Holds(j, 2, mem[header + 1])
    BY <1>1, <1>3, <1>4, HeaderIs
  <1>6. PICK s \in Nat : /\ s = Stride(Size(j)) /\ s >= 3 /\ header \in Nat /\ header \in 0 .. AlignCounts - 1
                         /\ Size(j) \in Sizes
    BY <1>1, <1>3, <1>4, EntryIs
  <1>7. PICK c : c = header + 1 /\ c \in Words /\ c = header + 2 - 1
    <2>1. 2 \in 1 .. s /\ header + 2 - 1 = header + 1
      BY <1>6
    <2> QED BY <1>1, <1>6, <2>1, WordsAre DEF SentOK
  <1>8. mem \in [Words -> WordTypes]
    BY <1>1 DEF Memory
  <1>9. /\ \A v \in Words : v # c => mem'[v] = mem[v]
        /\ mem' \in [Words -> WordTypes]
        /\ Kind(j) \in pair.cleared => Blank(mem'[c])
    <2>0. \A h \in ReadAs(mem[header + 1]) : h.kind = Kind(j) /\ Kind(j) \in Kinds
      <3>1. Kind(j) \in Kinds /\ Kinds \subseteq Types
        BY <1>1, <1>4, EntryIs, PairIs DEF SentOK
      <3>2. mem[header + 1].kind = Kind(j) /\ Kind(j) # "ANY"
        BY <1>5, <3>1 DEF Holds, Types
      <3> QED BY <3>1, <3>2 DEF ReadAs
    <2>1. CASE Kind(j) \in pair.cleared
      <3>1. mem' = [mem EXCEPT ![c].kind = "NONE"]
        <4>1. mem' = [mem EXCEPT ![header + 1].kind = "NONE"]
          BY <2>0, <2>1 DEF Clear
        <4> QED BY <1>7, <4>1
      <3>2. mem'[c] = [mem[c] EXCEPT !.kind = "NONE"]
        BY <1>7, <1>8, <3>1
      <3>3. mem'[c].kind = "NONE"
        BY <1>7, <1>8, <3>2 DEF WordTypes
      <3>4. \A v \in Words : v # c => mem'[v] = mem[v]
        BY <1>8, <3>1
      <3>5. mem'[c] \in WordTypes
        <4>1. mem[c] \in WordTypes /\ "NONE" \in LastBytes
          BY <1>7, <1>8 DEF LastBytes, AllKinds
        <4> QED BY <3>2, <4>1 DEF WordTypes
      <3>6. mem' \in [Words -> WordTypes]
        <4>1. PICK f : f = mem' /\ DOMAIN f = Words /\ f = [v \in Words |-> f[v]]
          BY <1>8, <3>1
        <4>2. \A v \in Words : f[v] \in WordTypes
          BY <1>8, <3>4, <3>5, <4>1
        <4> QED BY <4>1, <4>2
      <3> QED BY <3>3, <3>4, <3>6 DEF Blank
    <2>2. CASE Kind(j) \notin pair.cleared
      <3>1. mem' = mem
        <4>1. pair.cleared # Kinds
          BY <2>2, <1>1, <1>4, EntryIs
        <4> QED BY <2>0, <2>2, <4>1 DEF Clear
      <3> QED BY <1>8, <2>2, <3>1
    <2> QED BY <2>1, <2>2
  <1>10. OnlyAt(at, j)
    <2>1. 2 \in 1 .. Stride(Size(j))
      BY <1>6
    <2> QED BY <1>3, <1>7, <1>9, <2>1 DEF OnlyAt
  <1>11. /\ \A i, k : HasCome(i, k)' <=> HasCome(i, k)
         /\ \A i \in Outstanding \ {j} : Validated(i)' <=> Validated(i)
    BY <1>0, <1>2 DEF HasCome, Length, Kind, Size, Validated
  <1>12. /\ \A i \in Outstanding \ {j} : \A l \in 1 .. Stride(Size(i)) : mem'[at[i] + l - 1] = mem[at[i] + l - 1]
         /\ \A w \in free \ {at[j]}, b \in Sizes : \A l \in 1 .. Stride(b) : mem'[w + l - 1] = mem[w + l - 1]
    BY <1>1, <1>4, <1>10, OthersKept
  <1>13. ASSUME NEW i \in Outstanding \ {j} PROVE StoredAt(i, at[i])'
    <2>1. StoredAt(i, at[i])
      BY <1>1 DEF Memory
    <2>2. at[i] \in Nat /\ Stride(Size(i)) \in Nat /\ Stride(Size(i)) >= 3
      BY <1>1, EntryIs
    <2>3. PICK w \in Nat, t \in Nat : w = at[i] /\ t = Stride(Size(i))
      BY <2>2
    <2> QED BY <1>2, <1>11, <1>12, <2>1, <2>2, <2>3, StoredKept
  <1>14. ASSUME NEW w \in free, \A i \in Outstanding \ {j} : at[i] # w PROVE Ready(w)'
    <2>1. CASE w = at[j]
      <3>1. Sizes = {Size(j)} /\ Kind(j) \in pair.cleared /\ Kind(j) # "HDRONLY"
        BY <1>1, <1>4, <2>1 DEF Room
      <3>2. Length(j) = s /\ s \in 1 .. s
        BY <1>6, <3>1 DEF Length
      <3>3. PICK d : d = at[j] + s - 1 /\ d \in Words /\ d # c
        <4>1. header + s - 1 \in Words
          BY <1>1, <1>6, <3>2, WordsAre DEF SentOK
        <4>2. header + s - 1 # header + 1
          BY <1>6
        <4> QED BY <1>3, <1>7, <4>1, <4>2
      <3>4. Holds(j, s, mem[d])
        BY <1>1, <1>3, <1>4, <3>2, <3>3 DEF Memory, StoredAt
      <3>5. mem'[d] = mem[d]
        BY <1>9, <3>3
      <3>6. NoCanary(mem'[d], Size(j))
        BY <1>4, <1>6, <3>4, <3>5 DEF Holds
      <3>7. Blank(mem'[c])
        BY <1>9, <3>1
      <3> QED BY <1>2, <1>3, <1>6, <1>7, <2>1, <3>1, <3>3, <3>6, <3>7 DEF Ready, Sizes
    <2>2. CASE w # at[j]
      <3>1. Ready(w)
        BY <1>1, <1>14, <2>2 DEF Memory
      <3>2. w \in Nat
        BY <1>1, AlignCountsAssumption DEF Room
      <3>3. \A b \in Sizes : \A l \in 1 .. Stride(b) : mem'[w + l - 1] = mem[w + l - 1]
        BY <1>12, <2>2
      <3> QED BY <1>1, <1>2, <3>1, <3>2, <3>3, ReadyKept DEF SentOK
    <2> QED BY <2>1, <2>2
  <1>15. Memory(at, free)'
    <2>1. mem' \in [Words' -> WordTypes']
      BY <1>2, <1>9 DEF Words, Sizes, WordTypes, LastBytes, AllKinds, Kinds
    <2> QED BY <1>4, <1>13, <1>14, <2>1 DEF Memory
  <1>16. SentOK' /\ Layout(at, free)' /\ InTransit(at)'
    <2>1. SentOK'
      BY <1>1, <1>2, <1>3 DEF SentOK, Kinds, Sizes
    <2>2. Layout(at, free)'
      BY <1>1, <1>2, <1>3, LayoutKept
    <2>3. InTransit(at)'
      BY <1>1, <1>2 DEF InTransit, WordOf, Length, Kind, Size, WordTypes, LastBytes, AllKinds, Kinds, Sizes
    <2> QED BY <2>1, <2>2, <2>3
  <1>17. Reader(at)'
    <2>1. /\ received \in Seq([id : Ids, kind : Kinds]) /\ Len(received) = retired + 1
          /\ (\A i \in 1 .. retired + 1 : received[i] = Outline(sent[i]))
          /\ header \in 0 .. AlignCounts - 1
      BY <1>1, <1>2 DEF Reader
    <2>2. retired + 1 = Len(sent) => transit = <<>>
      <3> SUFFICES ASSUME retired + 1 = Len(sent) PROVE transit = <<>>
        OBVIOUS
      <3>1. transit \in Seq([at : Nat, word : WordTypes])
        BY <1>1, <1>3 DEF InTransit
      <3>2. Len(transit) = 0
        <4>1. Length(j) <= Length(j) - Len(transit)
          BY <1>0, <1>3 DEF HasCome
        <4>2. Length(j) \in Nat /\ Len(transit) \in Nat
          BY <1>6, <3>1 DEF Length
        <4> QED BY <4>1, <4>2
      <3> QED BY <3>1, <3>2
    <2> QED BY <1>0, <1>2, <1>3, <2>1, <2>2 DEF Reader, Kinds, Outline
  <1> QED BY <1>15, <1>16, <1>17 DEF RingAt

\* All but the first word that is in transit.
LEMMA RestIs ==
  ASSUME NEW S, NEW s \in Seq(S), s # <<>>, NEW t, t = SubSeq(s, 2, Len(s))
  PROVE  /\ Len(s) \in Nat \ {0} /\ t \in Seq(S) /\ Len(t) = Len(s) - 1
         /\ \A k \in 1 .. Len(s) - 1 : t[k] = s[k + 1]
  <1>1. Len(s) \in Nat /\ Len(s) # 0
    BY EmptySeq, LenProperties
  <1>2. PICK n : n = Len(s) /\ n \in Nat \ {0}
    BY <1>1
  <1>3. t \in Seq(S) /\ Len(t) = (IF 2 <= n THEN n - 2 + 1 ELSE 0) /\ \A i \in 1 .. n - 2 + 1 : t[i] = s[2 + i - 1]
    BY <1>2, SubSeqProperties
  <1>4. \A i \in 1 .. n - 1 : i \in 1 .. n - 2 + 1 /\ 2 + i - 1 = i + 1
    BY <1>2
  <1> QED BY <1>2, <1>3, <1>4

\* The words of the newest entry arrive one by one.
LEMMA DeliverStep ==
  ASSUME KnownPairs, NEW at, NEW free, RingAt(at, free), Deliver
  PROVE  RingAt(at, free)'
  <1>0. PICK j : j = Len(sent)
    OBVIOUS
  <1>1. SentOK /\ Layout(at, free) /\ Positions(at) /\ InTransit(at) /\ Memory(at, free) /\ Reader(at) /\ Room(at, free)
    BY RoomIs DEF RingAt, Layout
  <1>2. /\ transit # <<>> /\ mem' = [mem EXCEPT ![transit[1].at] = Landed(@, transit[1].word)]
        /\ transit' = SubSeq(transit, 2, Len(transit))
        /\ UNCHANGED <<pair, sent, wr, rd, pc, header, received, retired>>
    BY DEF Deliver
  <1>3. j \in Nat /\ j # 0 /\ retired \in 0 .. j /\ retired < j
    BY <1>0, <1>1, <1>2, SentIs DEF InTransit, Reader
  <1>4. j \in Outstanding
    BY <1>0, <1>3 DEF Outstanding
  <1>5. PICK s \in Nat, n \in Nat, w \in Nat :
          /\ s = Stride(Size(j)) /\ s >= 3 /\ n = Length(j) /\ n \in 2 .. s /\ w = at[j] /\ w \in 0 .. AlignCounts - 1
          /\ (Kind(j) # "HDRONLY" => n = s) /\ Size(j) \in Sizes
    BY <1>1, <1>4, EntryIs, AlignCountsAssumption DEF Length
  <1>6. PICK S : S = [at : Nat, word : WordTypes]
    OBVIOUS
  <1>7. /\ transit \in Seq(S) /\ Len(transit) <= n
        /\ \A k \in 1 .. Len(transit) :
             transit[k] = [at |-> w + (n - Len(transit)) + k - 1, word |-> WordOf(j, (n - Len(transit)) + k)]
    BY <1>0, <1>1, <1>3, <1>5, <1>6 DEF InTransit
  <1>8. /\ Len(transit) \in Nat \ {0} /\ transit' \in Seq(S) /\ Len(transit') = Len(transit) - 1
        /\ \A k \in 1 .. Len(transit) - 1 : transit'[k] = transit[k + 1]
    BY <1>2, <1>7, RestIs
  <1>9. PICK d \in Nat, l \in Nat : /\ l = Len(transit) /\ d = n - l /\ l # 0 /\ d + 1 <= n
                                   /\ n \in 2 .. s /\ s >= 3
    <2>1. PICK l \in Nat : l = Len(transit) /\ l # 0 /\ l <= n /\ n \in 2 .. s /\ s >= 3
      BY <1>5, <1>7, <1>8
    <2>2. n - l \in Nat /\ (n - l) + 1 <= n
      BY <2>1
    <2> QED BY <2>1, <2>2
  <1>10. transit[1] = [at |-> w + d, word |-> WordOf(j, d + 1)]
    <2>1. 1 \in 1 .. Len(transit) /\ w + d + 1 - 1 = w + d
      BY <1>8, <1>9
    <2> QED BY <1>7, <1>9, <2>1
  <1>11. mem \in [Words -> WordTypes] /\ mem' = [mem EXCEPT ![w + d] = Landed(@, WordOf(j, d + 1))]
    BY <1>1, <1>2, <1>10 DEF Memory
  <1>12. \A k \in 1 .. s : w + k - 1 \in Words
    BY <1>1, <1>5, WordsAre DEF SentOK
  <1>13. w + d \in Words /\ d + 1 \in 1 .. s /\ w + (d + 1) - 1 = w + d
    <2>1. d + 1 \in 1 .. s /\ w + (d + 1) - 1 = w + d
      BY <1>9
    <2> QED BY <1>12, <2>1
  <1>14. /\ mem'[w + d] = Landed(mem[w + d], WordOf(j, d + 1)) /\ mem' \in [Words -> WordTypes]
         /\ \A v \in Words : v # w + d => mem'[v] = mem[v]
         /\ mem'[w + d].id = j
         /\ d + 1 = 2 => mem'[w + d].role = "meta" /\ mem'[w + d].kind = Kind(j) /\ mem'[w + d].size = Size(j)
    <2>1. mem[w + d] \in WordTypes /\ j \in 1 .. Len(sent)
      BY <1>0, <1>3, <1>11, <1>13
    <2>2. PICK v : v = Landed(mem[w + d], WordOf(j, d + 1))
      OBVIOUS
    <2>3. v \in WordTypes /\ v.id = j /\ (d + 1 = 2 => v.role = "meta" /\ v.kind = Kind(j) /\ v.size = Size(j))
      BY <1>1, <2>1, <2>2, LandedHolds
    <2>4. mem' = [mem EXCEPT ![w + d] = v]
      BY <1>11, <2>2
    <2> QED BY <1>11, <1>13, <2>2, <2>3, <2>4
  <1>15. OnlyAt(at, j)
    BY <1>5, <1>13, <1>14 DEF OnlyAt
  <1>16. UNCHANGED sent /\ Length(j)' = n /\ Size(j)' = Size(j) /\ Kind(j)' = Kind(j)
    BY <1>2, <1>5 DEF Length, Size, Kind
  <1>17. \A k : (HasCome(j, k) <=> k <= d) /\ (HasCome(j, k)' <=> k <= d + 1)
    <2>1. n - Len(transit) = d /\ n - Len(transit') = d + 1
      <3>1. Len(transit) = l /\ Len(transit') = l - 1
        BY <1>8, <1>9
      <3>2. n - l = d /\ n - (l - 1) = d + 1
        BY <1>9
      <3> QED BY <3>1, <3>2
    <2>2. ~(j < Len(sent)) /\ ~(j < Len(sent'))
      BY <1>0, <1>3, <1>16
    <2> QED BY <1>5, <1>16, <2>1, <2>2 DEF HasCome
  <1>18. /\ \A i \in Outstanding \ {j} : i < Len(sent)
         /\ \A i \in Outstanding \ {j}, k \in Nat : HasCome(i, k)' <=> HasCome(i, k)
         /\ \A i : Validated(i)' <=> Validated(i)
    <2>1. \A i \in Outstanding \ {j} : i < Len(sent)
      BY <1>0, <1>3 DEF Outstanding
    <2> QED BY <1>2, <2>1 DEF HasCome, Validated
  <1>19. ~Validated(j) /\ ~Validated(j)'
    <2> SUFFICES ASSUME Validated(j) PROVE FALSE
      BY <1>18
    <2>1. HasCome(j, n)
      BY <1>1, <1>5 DEF Validated, Reader
    <2> QED BY <1>5, <1>9, <1>17, <2>1
  <1>20. \A k, x, y : y = x /\ Holds(j, k, x) => Holds(j, k, y)'
    BY <1>16, <1>19 DEF Holds
  <1>21. StoredAt(j, at[j])'
    <2>1. /\ \A k \in 1 .. n : k <= d => Holds(j, k, mem[w + k - 1])
          /\ d < 2 => Blank(mem[w + 1])
          /\ Kind(j) # "HDRONLY" /\ d < n => NoCanary(mem[w + n - 1], Size(j))
      <3>1. StoredAt(j, w)
        BY <1>1, <1>4, <1>5 DEF Memory
      <3>2. HasCome(j, 2) <=> 2 <= d
        BY <1>17
      <3>3. HasCome(j, n) <=> n <= d
        BY <1>17
      <3>4. \A k \in 1 .. n : HasCome(j, k) => Holds(j, k, mem[w + k - 1])
        BY <1>5, <3>1 DEF StoredAt
      <3>5. /\ ~HasCome(j, 2) => Blank(mem[w + 1])
            /\ Kind(j) # "HDRONLY" /\ ~HasCome(j, n) => NoCanary(mem[w + n - 1], Size(j))
        BY <1>5, <3>1 DEF StoredAt
      <3>6. (~(2 <= d) <=> d < 2) /\ (~(n <= d) <=> d < n)
        OBVIOUS
      <3> QED BY <1>17, <3>2, <3>3, <3>4, <3>5, <3>6
    <2>2. ASSUME NEW k \in 1 .. n, k <= d + 1 PROVE Holds(j, k, mem[w + k - 1])'
      <3>1. CASE k = d + 1
        BY <1>13, <1>14, <1>16, <1>19, <3>1 DEF Holds
      <3>2. CASE k # d + 1
        <4>1. k \in 1 .. s /\ k <= d /\ w + k - 1 # w + d
          BY <1>9, <2>2, <3>2
        <4> QED BY <1>12, <1>14, <1>20, <2>1, <4>1
      <3> QED BY <3>1, <3>2
    <2>3. ASSUME ~(2 <= d + 1) PROVE Blank(mem'[w + 1])
      <3>1. d < 2 /\ w + 1 # w + d /\ 2 \in 1 .. s /\ w + 2 - 1 = w + 1
        BY <1>9, <2>3
      <3> QED BY <1>12, <1>14, <2>1, <3>1
    <2>4. ASSUME Kind(j) # "HDRONLY", ~(n <= d + 1) PROVE NoCanary(mem'[w + n - 1], Size(j))
      <3>1. d < n /\ w + n - 1 # w + d /\ n \in 1 .. s
        BY <1>9, <2>4
      <3> QED BY <1>12, <1>14, <2>1, <2>4, <3>1
    <2> QED BY <1>5, <1>16, <1>17, <2>2, <2>3, <2>4 DEF StoredAt
  <1>22. Memory(at, free)'
    BY <1>1, <1>2, <1>4, <1>14, <1>15, <1>18, <1>21, MemoryChange
  <1>23. SentOK' /\ Layout(at, free)'
    <2>1. SentOK'
      BY <1>1, <1>2 DEF SentOK, Kinds, Sizes
    <2>2. retired' \in Nat /\ retired <= retired'
      BY <1>2, <1>3
    <2>3. Layout(at, free)'
      BY <1>1, <1>2, <2>2, LayoutKept
    <2> QED BY <2>1, <2>3
  <1>24. InTransit(at)'
    <2>1. /\ Len(transit') = l - 1 /\ Len(transit') <= n /\ n - Len(transit') = d + 1
          /\ \A k \in 1 .. l : transit[k] = [at |-> w + d + k - 1, word |-> WordOf(j, d + k)]
      <3>1. \A k \in 1 .. l : transit[k] = [at |-> w + d + k - 1, word |-> WordOf(j, d + k)]
        BY <1>7, <1>9
      <3>2. Len(transit') = l - 1
        BY <1>8, <1>9
      <3>3. l - 1 <= n /\ n - (l - 1) = d + 1
        BY <1>9
      <3> QED BY <3>1, <3>2, <3>3
    <2>2. ASSUME NEW k \in 1 .. Len(transit')
          PROVE  transit'[k] = [at |-> w + (d + 1) + k - 1, word |-> WordOf(j, (d + 1) + k)]
      <3>1. k + 1 \in 1 .. l /\ w + d + (k + 1) - 1 = w + (d + 1) + k - 1 /\ d + (k + 1) = (d + 1) + k
            /\ k \in 1 .. Len(transit) - 1
        <4>1. k \in 1 .. l - 1 /\ Len(transit) = l
          BY <1>9, <2>1
        <4>2. k + 1 \in 1 .. l /\ w + d + (k + 1) - 1 = w + (d + 1) + k - 1 /\ d + (k + 1) = (d + 1) + k
          BY <4>1
        <4> QED BY <4>1, <4>2
      <3>2. transit'[k] = transit[k + 1]
        BY <1>8, <3>1
      <3> QED BY <2>1, <3>1, <3>2
    <2>3. \A k : WordOf(j, k)' = WordOf(j, k)
      BY <1>16 DEF WordOf
    <2>4. S' = S /\ S = [at : Nat, word : WordTypes']
      BY <1>2, <1>6 DEF WordTypes, LastBytes, AllKinds, Kinds, Sizes
    <2>5. /\ j = Len(sent') /\ j # 0 /\ n = Length(j)' /\ w = at[j]
          /\ transit' \in Seq([at : Nat, word : WordTypes'])
      BY <1>0, <1>3, <1>5, <1>8, <1>16, <2>4
    <2>6. PICK e \in Nat : e = d + 1 /\ e = n - Len(transit')
      BY <2>1
    <2>7. \A k \in 1 .. Len(transit') : transit'[k] = [at |-> w + e + k - 1, word |-> WordOf(j, e + k)']
      BY <2>2, <2>3, <2>6
    <2> QED BY <2>1, <2>5, <2>6, <2>7 DEF InTransit
  <1>25. Reader(at)'
    <2>1. ASSUME NEW k \in Nat, HasCome(retired + 1, k) PROVE HasCome(retired + 1, k)'
      <3>0. PICK i : i = retired + 1 /\ i = retired' + 1 /\ i \in Outstanding
        BY <1>0, <1>2, <1>3 DEF Outstanding
      <3>1. CASE i = j
        <4>1. k <= d
          BY <1>17, <2>1, <3>0, <3>1
        <4>2. k <= d + 1
          BY <4>1
        <4>3. HasCome(i, k)'
          BY <1>17, <3>1, <4>2
        <4> QED BY <3>0, <4>3
      <3>2. CASE i # j
        <4>1. HasCome(i, k)'
          BY <1>18, <2>1, <3>0, <3>2
        <4> QED BY <3>0, <4>1
      <3> QED BY <3>1, <3>2
    <2>2. pc # "poll" => HasCome(retired + 1, 2)'
      BY <1>1, <2>1 DEF Reader
    <2>3. Length(retired + 1)' = Length(retired + 1) /\ Length(retired + 1) \in Nat
      <3>1. retired + 1 \in Outstanding
        BY <1>0, <1>3 DEF Outstanding
      <3>2. Length(retired + 1) \in 2 .. Stride(Size(retired + 1)) /\ Stride(Size(retired + 1)) \in Nat
        BY <1>1, <3>1, EntryIs
      <3> QED BY <1>2, <3>2 DEF Length, Kind, Size
    <2>4. PICK m : m = Length(retired + 1) /\ m = Length(retired + 1)' /\ m \in Nat
      BY <2>3
    <2>5. pc \in {"handle", "clear"} => HasCome(retired + 1, m)'
      BY <1>1, <2>1, <2>4 DEF Reader
    <2> QED BY <1>0, <1>1, <1>2, <1>3, <2>2, <2>4, <2>5 DEF Reader, Kinds, Outline
  <1> QED BY <1>22, <1>23, <1>24, <1>25 DEF RingAt

\* A new entry is put where the reader sees nothing of an old one.
LEMMA WriteStep ==
  ASSUME KnownPairs, NEW at, NEW free, RingAt(at, free),
         NEW kind \in Kinds, NEW size \in Sizes, Write(kind, size)
  PROVE  \E a, f : RingAt(a, f)'
  <1>0. PICK n : n = Len(sent)
    OBVIOUS
  <1>1. SentOK /\ Layout(at, free) /\ Positions(at) /\ InTransit(at) /\ Memory(at, free) /\ Reader(at) /\ Room(at, free)
    BY RoomIs DEF RingAt, Layout
  <1>2. transit' = EntryWrite(wr, n + 1, kind, size) /\ transit = <<>> /\ UNCHANGED <<pair, mem, rd, pc, header, received, retired>>
    BY <1>0 DEF Write
  <1>3. /\ SentOK' /\ Len(sent') = n + 1 /\ n - retired < pair.backlog
        /\ \A i \in 1 .. n : sent'[i] = sent[i] /\ Size(i)' = Size(i) /\ Kind(i)' = Kind(i)
        /\ \A i : i = n + 1 => Size(i)' = size /\ Kind(i)' = kind
    BY <1>0, <1>1, WriteIs
  <1>4. n \in Nat /\ retired \in 0 .. n
    BY <1>0, <1>1, SentIs
  <1>5. PICK j : j = n + 1 /\ j \in 1 .. n + 1 /\ j \in Nat /\ j # 0 /\ Size(j)' = size /\ Kind(j)' = kind /\ Len(sent') = j
    BY <1>3, <1>4
  <1>6. PICK a : a = Longer(at, wr')
    OBVIOUS
  <1>7. PICK f : Layout(a, f)' /\ f \subseteq free
    BY <1>1, <1>6, LayoutWrite
  <1>8. /\ \A i \in 1 .. n + 1 : a[i] = at[i]
        /\ at \in [1 .. n + 1 -> 0 .. AlignCounts - 1] /\ at[n + 1] = wr
    <2>1. \A i \in 1 .. n + 1 : i \in 1 .. n + 2 /\ i # n + 2
      BY <1>4
    <2> QED BY <1>0, <1>1, <1>6, <2>1 DEF Longer, Positions
  <1>9. PICK w \in Nat, s \in Nat : /\ w = wr /\ w = a[j] /\ s = Stride(size) /\ s >= 3
                                    /\ size \in 0 .. MaxPayload
    <2>1. wr \in Nat
      BY <1>5, <1>8, AlignCountsAssumption
    <2>2. size \in 0 .. MaxPayload
      BY <1>1, PairIs DEF SentOK
    <2>3. Stride(size) \in Nat /\ Stride(size) >= 3
      BY <2>2, StrideIs
    <2> QED BY <1>5, <1>8, <2>1, <2>2, <2>3
  <1>10. PICK l \in Nat : l = Length(j)' /\ (l = IF kind = "HDRONLY" THEN 2 ELSE s) /\ l \in 2 .. s
    <2>1. Length(j)' = IF kind = "HDRONLY" THEN 2 ELSE s
      BY <1>5, <1>9 DEF Length
    <2>2. Length(j)' \in 2 .. s
      BY <1>9, <2>1
    <2> QED BY <2>1, <2>2
  <1>11. \A k : WordOf(j, k)' = IF k = 2 THEN Meta(j, kind, size) ELSE IF k = s THEN Final(j, size) ELSE Data(j)
    BY <1>5, <1>9 DEF WordOf
  <1>12. PICK W : W = WordTypes /\ W = WordTypes' /\ Data(j) \in W /\ Final(j, size) \in W /\ Meta(j, kind, size) \in W
    <2>1. WordTypes' = WordTypes
      BY <1>2 DEF WordTypes, LastBytes, AllKinds, Kinds, Sizes
    <2>2. j \in Ids
      <3>1. j <= pair.count /\ pair.count \in 1 .. MaxSent
        BY <1>1, <1>2, <1>3, <1>5, PairIs DEF SentOK
      <3> QED BY <1>5, <3>1, MaxSentAssumption DEF Ids
    <2>3. Data(j) \in WordTypes /\ Final(j, size) \in WordTypes /\ Meta(j, kind, size) \in WordTypes
      BY <2>2, MadeAre
    <2> QED BY <2>1, <2>3
  <1>13. PICK S : S = [at : Nat, word : W]
    OBVIOUS
  <1>14. /\ transit' \in Seq(S) /\ Len(transit') = l
         /\ \A k \in 1 .. l : transit'[k] = [at   |-> w + k - 1,
                                             word |-> IF k = 2 THEN Meta(j, kind, size) ELSE IF k = s THEN Final(j, size) ELSE Data(j)]
    <2>1. PICK e : e = EntryWrite(w, j, kind, size) /\ e = transit'
      BY <1>2, <1>5, <1>9
    <2>2. IsWrite(e, S, w, j, kind, size, s, l)
      <3>1. Data(j) \in W /\ Final(j, size) \in W /\ Meta(j, kind, size) \in W
        BY <1>12
      <3>2. size \in 0 .. MaxPayload /\ s = Stride(size) /\ l = (IF kind = "HDRONLY" THEN 2 ELSE s)
        BY <1>9, <1>10
      <3>3. e = EntryWrite(w, j, kind, size)
        BY <2>1
      <3> QED BY <1>13, <3>1, <3>2, <3>3, EntryWriteIs
    <2> QED BY <2>1, <2>2 DEF IsWrite
  <1>15. InTransit(a)'
    <2>1. \A k \in 1 .. l : transit'[k] = [at |-> w + 0 + k - 1, word |-> WordOf(j, 0 + k)']
      <3>1. \A k \in 1 .. l : w + 0 + k - 1 = w + k - 1 /\ 0 + k = k
        BY <1>9
      <3> QED BY <1>11, <1>14, <3>1
    <2>2. l - Len(transit') = 0 /\ Len(transit') <= l
      BY <1>14
    <2> QED BY <1>5, <1>9, <1>10, <1>12, <1>13, <1>14, <2>1, <2>2 DEF InTransit
  <1>16. Outstanding' = Outstanding \cup {j} /\ \A i \in Outstanding : i \in 1 .. n /\ i \in 1 .. n + 1
    BY <1>0, <1>2, <1>4, <1>5 DEF Outstanding
  <1>17. \A k \in Nat \ {0} : ~HasCome(j, k)'
    <2>1. l - Len(transit') = 0
      BY <1>14
    <2>2. ~(j < Len(sent'))
      BY <1>5
    <2>3. ASSUME NEW k \in Nat \ {0}, HasCome(j, k)' PROVE FALSE
      <3>1. k <= Length(j)' - Len(transit')
        BY <2>2, <2>3 DEF HasCome
      <3>2. k <= 0
        BY <1>10, <2>1, <3>1
      <3> QED BY <3>2
    <2> QED BY <2>3
  <1>18. Ready(w)
    <2>1. w \in free /\ \A i \in Outstanding : at[i] # w
      BY <1>0, <1>1, <1>3, <1>9 DEF Room
    <2> QED BY <1>1, <2>1 DEF Memory
  <1>19. StoredAt(j, a[j])'
    <2>1. Blank(mem'[w + 1]) /\ NoCanary(mem'[w + s - 1], size)
      BY <1>2, <1>9, <1>18 DEF Ready
    <2>2. \A k \in 1 .. l : ~HasCome(j, k)'
      BY <1>17
    <2> QED BY <1>5, <1>9, <1>10, <2>1, <2>2 DEF StoredAt
  <1>20. ASSUME NEW i \in Outstanding PROVE StoredAt(i, a[i])'
    <2>1. StoredAt(i, at[i]) /\ a[i] = at[i] /\ i \in 1 .. n /\ i < Len(sent')
      BY <1>1, <1>4, <1>5, <1>8, <1>16 DEF Memory
    <2>2. Length(i)' = Length(i) /\ Size(i)' = Size(i) /\ Kind(i)' = Kind(i) /\ (Validated(i)' <=> Validated(i))
      BY <1>2, <1>3, <2>1 DEF Length, Validated
    <2>3. \A k, x, y : y = x /\ Holds(i, k, x) => Holds(i, k, y)'
      BY <2>2 DEF Holds
    <2>4. Length(i) \in Nat /\ Len(transit) = 0
      <3>1. Length(i) \in 2 .. Stride(Size(i)) /\ Stride(Size(i)) \in Nat
        BY <1>1, EntryIs
      <3> QED BY <1>2, <3>1
    <2>5. \A k \in 1 .. Length(i) : HasCome(i, k)
      BY <2>4 DEF HasCome
    <2>6. \A k : HasCome(i, k)'
      BY <2>1 DEF HasCome
    <2>7. \A k \in 1 .. Length(i) : Holds(i, k, mem[a[i] + k - 1])'
      BY <1>2, <2>1, <2>3, <2>5 DEF StoredAt
    <2>8. PICK m : m = Length(i) /\ m = Length(i)'
      BY <2>2
    <2>9. HasCome(i, m)' /\ HasCome(i, 2)'
      BY <2>6
    <2> QED BY <2>7, <2>8, <2>9 DEF StoredAt
  <1>21. Memory(a, f)'
    <2>1. mem' \in [Words' -> WordTypes']
      BY <1>1, <1>2 DEF Memory, Words, Sizes, WordTypes, LastBytes, AllKinds, Kinds
    <2>2. \A i \in Outstanding' : StoredAt(i, a[i])'
      BY <1>16, <1>19, <1>20
    <2>3. ASSUME NEW v \in f, \A i \in Outstanding' : a[i] # v PROVE Ready(v)'
      <3>1. v \in free /\ \A i \in Outstanding : at[i] # v
        BY <1>7, <1>8, <1>16, <2>3
      <3>2. Ready(v)
        BY <1>1, <3>1 DEF Memory
      <3> QED BY <1>2, <3>2 DEF Ready, Sizes
    <2> QED BY <2>1, <2>2, <2>3 DEF Memory
  <1>22. Reader(a)'
    <2>1. PICK t : t = (IF pc = "clear" THEN retired + 1 ELSE retired)
      OBVIOUS
    <2>2. PICK r : r = (IF pc \in {"handle", "clear"} THEN retired + 2 ELSE retired + 1)
      OBVIOUS
    <2>3. t \in 0 .. n /\ r \in 1 .. n + 1 /\ (pc # "poll" => retired < n)
      BY <1>0, <1>1, <1>4, <2>1, <2>2 DEF Reader
    <2>4. /\ received' \in Seq([id : Ids, kind : Kinds]) /\ Len(received') = t
          /\ \A i \in 1 .. t : received'[i] = Outline(sent'[i])
      <3>1. /\ received \in Seq([id : Ids, kind : Kinds]) /\ Len(received) = t
            /\ \A i \in 1 .. t : received[i] = Outline(sent[i])
        BY <1>1, <2>1 DEF Reader
      <3>2. \A i \in 1 .. t : sent'[i] = sent[i]
        <4>1. \A i \in 1 .. t : i \in 1 .. n
          BY <1>4, <2>3
        <4> QED BY <1>3, <4>1
      <3> QED BY <1>2, <3>1, <3>2
    <2>5. rd' = a[r] /\ header' \in 0 .. AlignCounts - 1
      BY <1>1, <1>2, <1>8, <2>2, <2>3 DEF Reader
    <2>6. pc # "poll" => header' = a[retired + 1] /\ retired < n + 1 /\ retired + 1 < n + 1
      <3> SUFFICES ASSUME pc # "poll" PROVE header' = a[retired + 1] /\ retired < n + 1 /\ retired + 1 < n + 1
        OBVIOUS
      <3>1. header = at[retired + 1] /\ retired + 1 \in 1 .. n + 1 /\ retired + 1 < n + 1
        BY <1>1, <1>4, <2>3 DEF Reader
      <3> QED BY <1>2, <1>4, <1>8, <3>1
    <2>7. retired # n + 1
      BY <1>4
    <2> QED BY <1>1, <1>2, <1>3, <2>1, <2>2, <2>4, <2>5, <2>6, <2>7 DEF Reader, HasCome, Kinds
  <1>23. RingAt(a, f)'
    BY <1>3, <1>7, <1>15, <1>21, <1>22 DEF RingAt
  <1> QED BY <1>23

\* At first nothing was sent and nothing is in the reader's memory.
LEMMA InitStep ==
  ASSUME KnownPairs, Init
  PROVE  RingInv
  <1>1. PICK at, free : Layout(at, free)
    BY LayoutInit
  <1>2. /\ pair \in Pairs /\ sent = <<>> /\ wr = 0 /\ transit = <<>> /\ mem = [w \in Words |-> Zero]
        /\ rd = 0 /\ pc = "poll" /\ header = 0 /\ received = <<>> /\ retired = 0
    BY DEF Init
  <1>3. SentOK
    BY <1>2, PairIs DEF SentOK
  <1>4. Len(sent) = 0 /\ Outstanding = {}
    BY <1>2 DEF Outstanding
  <1>5. Memory(at, free)
    <2>1. Zero \in WordTypes
      BY DEF Zero, WordTypes, LastBytes, AllKinds
    <2>2. mem \in [Words -> WordTypes]
      BY <1>2, <2>1
    <2>3. ASSUME NEW w \in free PROVE Ready(w)
      <3> SUFFICES ASSUME NEW b \in Sizes PROVE Blank(mem[w + 1]) /\ NoCanary(mem[w + Stride(b) - 1], b)
        BY DEF Ready
      <3>1. w \in 0 .. AlignCounts - 1
        BY <1>1, <1>3, RoomIs DEF Room
      <3>2. Stride(b) \in Nat /\ Stride(b) >= 3
        BY <1>2, PairIs, StrideIs
      <3>3. 2 \in 1 .. Stride(b) /\ Stride(b) \in 1 .. Stride(b) /\ w + 2 - 1 = w + 1
        BY <3>1, <3>2, AlignCountsAssumption
      <3>4. w + 1 \in Words /\ w + Stride(b) - 1 \in Words
        BY <1>2, <3>1, <3>3, WordsAre
      <3>5. CanaryByte(b) \in Bytes
        BY <1>2, PairIs, CanaryByteIs
      <3> QED BY <1>2, <3>4, <3>5 DEF Zero, Blank, NoCanary
    <2> QED BY <1>4, <2>2, <2>3 DEF Memory
  <1>6. Reader(at)
    <2>1. at[1] = 0
      BY <1>1 DEF Layout, Positions
    <2> QED BY <1>2, <1>4, <2>1, AlignCountsAssumption DEF Reader
  <1>7. InTransit(at)
    BY <1>2, <1>4 DEF InTransit
  <1> QED BY <1>1, <1>3, <1>5, <1>6, <1>7 DEF RingInv, RingAt

\* The invariant is inductive.
LEMMA Step ==
  ASSUME KnownPairs, RingInv, [Next]_vars
  PROVE  RingInv'
  <1>1. PICK at, free : RingAt(at, free)
    BY DEF RingInv
  <1>2. ASSUME NEW kind \in Kinds, NEW size \in Sizes, Write(kind, size) PROVE RingInv'
    BY <1>1, <1>2, WriteStep DEF RingInv
  <1>3. CASE Deliver
    BY <1>1, <1>3, DeliverStep DEF RingInv
  <1>4. CASE Detect
    BY <1>1, <1>4, DetectStep DEF RingInv
  <1>5. CASE Validate
    BY <1>1, <1>5, ValidateStep DEF RingInv
  <1>6. CASE Handle
    BY <1>1, <1>6, HandleStep DEF RingInv
  <1>7. CASE Clear
    BY <1>1, <1>7, ClearStep DEF RingInv
  <1>8. CASE UNCHANGED vars
    <2>1. UNCHANGED <<pair, sent, wr, transit, mem, rd, pc, header, received, retired>>
      BY <1>8 DEF vars
    <2>2. /\ \A i : Size(i)' = Size(i) /\ Kind(i)' = Kind(i) /\ Length(i)' = Length(i)
          /\ Outstanding' = Outstanding /\ Sizes' = Sizes /\ Kinds' = Kinds
          /\ WordTypes' = WordTypes /\ Words' = Words
      BY <2>1 DEF Size, Kind, Length, Outstanding, Sizes, Kinds, WordTypes, LastBytes, AllKinds, Words
    <2>3. SentOK' /\ Layout(at, free)'
      BY <1>1, <2>1, <2>2 DEF RingAt, SentOK, Layout, Positions, InSlots, InOneLap
    <2>4. InTransit(at)'
      BY <1>1, <2>1, <2>2 DEF RingAt, InTransit, WordOf
    <2>5. /\ \A i, k : (HasCome(i, k)' <=> HasCome(i, k)) /\ \A x, y : y = x => (Holds(i, k, y)' <=> Holds(i, k, x))
          /\ \A w : Ready(w)' <=> Ready(w)
      BY <2>1, <2>2 DEF HasCome, Holds, Validated, Ready
    <2>6. \A i \in Outstanding : StoredAt(i, at[i])'
      BY <1>1, <2>1, <2>2, <2>5 DEF RingAt, Memory, StoredAt
    <2>7. Memory(at, free)'
      BY <1>1, <2>1, <2>2, <2>5, <2>6 DEF RingAt, Memory
    <2>8. Reader(at)'
      BY <1>1, <2>1, <2>2, <2>5 DEF RingAt, Reader, Outline
    <2> QED BY <2>3, <2>4, <2>7, <2>8 DEF RingInv, RingAt
  <1> QED BY <1>2, <1>3, <1>4, <1>5, <1>6, <1>7, <1>8 DEF Next

(***************************************************************************)
(* The theorems.                                                           *)
(***************************************************************************)
\* The invariant implies what the runs check.
LEMMA InvImplies ==
  ASSUME KnownPairs, RingInv
  PROVE  TypeOK /\ PositionsAgree /\ ReaderNotAhead
  <1>1. PICK at, free : RingAt(at, free)
    BY DEF RingInv
  <1>2. SentOK /\ Positions(at) /\ Memory(at, free) /\ Reader(at)
    BY <1>1 DEF RingAt, Layout
  <1>3. PICK n : n = Len(sent) /\ n \in Nat /\ retired \in 0 .. n
    BY <1>2, SentIs
  <1>4. PICK t, r : /\ t = (IF pc = "clear" THEN retired + 1 ELSE retired)
                    /\ r = (IF pc \in {"handle", "clear"} THEN retired + 2 ELSE retired + 1)
    OBVIOUS
  <1>5. /\ pc \in {"poll", "canary", "handle", "clear"}
        /\ received \in Seq([id : Ids, kind : Kinds]) /\ Len(received) = t
        /\ rd = at[r] /\ header \in 0 .. AlignCounts - 1 /\ (pc # "poll" => retired < n)
    BY <1>2, <1>3, <1>4 DEF Reader
  <1>6. t \in 0 .. n /\ retired \in 0 .. t /\ r \in 1 .. n + 1 /\ n + 1 \in 1 .. n + 1
    BY <1>3, <1>4, <1>5
  <1>7. /\ at \in [1 .. n + 1 -> 0 .. AlignCounts - 1] /\ at[n + 1] = wr
    BY <1>2, <1>3 DEF Positions
  <1>8. TypeOK
    <2>1. wr \in 0 .. AlignCounts - 1 /\ rd \in 0 .. AlignCounts - 1
      BY <1>5, <1>6, <1>7
    <2>2. \A w \in DOMAIN mem : mem[w] \in WordTypes
      BY <1>2 DEF Memory
    <2>3. received \in Seq([id : Ids, kind : Kinds] \cup {Garbage})
      <3>1. PICK S : S = [id : Ids, kind : Kinds]
        OBVIOUS
      <3>2. received \in Seq(S)
        BY <1>5, <3>1
      <3>3. received \in Seq(S \cup {Garbage})
        BY <3>2
      <3> QED BY <3>1, <3>3
    <2>4. pair \in Pairs /\ sent \in Seq([id : Ids, kind : Kinds, size : Sizes])
      BY <1>2 DEF SentOK
    <2>5. retired \in 0 .. Len(received)
      BY <1>5, <1>6
    <2> QED BY <1>5, <2>1, <2>2, <2>3, <2>4, <2>5 DEF TypeOK, WordTypes
  <1>9. PositionsAgree
    <2> SUFFICES ASSUME pc = "poll", retired = Len(sent) PROVE rd = wr
      BY DEF PositionsAgree
    <2>1. r = n + 1
      BY <1>3, <1>4
    <2> QED BY <1>5, <1>7, <2>1
  <1>10. ReaderNotAhead
    BY <1>3, <1>5, <1>6 DEF ReaderNotAhead
  <1> QED BY <1>8, <1>9, <1>10

\* The invariant holds in every behaviour.
THEOREM Invariance ==
  ASSUME KnownPairs
  PROVE  Spec => []RingInv
  <1>1. Init => RingInv
    BY InitStep
  <1>2. RingInv /\ [Next]_vars => RingInv'
    BY Step
  <1> QED BY <1>1, <1>2, PTL DEF Spec

\* Every variable keeps its type.
THEOREM TypeCorrect ==
  ASSUME KnownPairs
  PROVE  Spec => []TypeOK
  <1>1. RingInv => TypeOK
    BY InvImplies
  <1> QED BY <1>1, Invariance, PTL

\* When the reader has caught up, it waits where the writer will write next.
THEOREM PositionsAreEqual ==
  ASSUME KnownPairs
  PROVE  Spec => []PositionsAgree
  <1>1. RingInv => PositionsAgree
    BY InvImplies
  <1> QED BY <1>1, Invariance, PTL

\* The reader takes no old entry for a new one.
THEOREM ReaderStaysBehind ==
  ASSUME KnownPairs
  PROVE  Spec => []ReaderNotAhead
  <1>1. RingInv => ReaderNotAhead
    BY InvImplies
  <1> QED BY <1>1, Invariance, PTL

(***************************************************************************)
(* The ring is a FIFO channel.                                             *)
(***************************************************************************)
\* What the channel calls sent.
Outlines == [i \in DOMAIN sent |-> Outline(sent[i])]

\* Appending is extending by one element.
LEMMA AppendIs ==
  ASSUME NEW n \in Nat, NEW S, NEW s, s \in [1 .. n -> S], NEW x \in S, NEW t, t \in [1 .. n + 1 -> S],
         t[n + 1] = x, \A i \in 1 .. n : t[i] = s[i]
  PROVE  t = Append(s, x)
  <1>1. s \in Seq(S) /\ Len(s) = n
    BY CountedIs DEF IsLong
  <1>2. t \in Seq(S) /\ Len(t) = n + 1
    <2>1. n + 1 \in Nat
      OBVIOUS
    <2> QED BY <2>1, CountedIs DEF IsLong
  <1>3. PICK u : u = Append(s, x) /\ u \in Seq(S) /\ Len(u) = n + 1 /\ u[n + 1] = x /\ \A i \in 1 .. n : u[i] = s[i]
    BY <1>1
  <1>4. \A i \in 1 .. n + 1 : i = n + 1 \/ i \in 1 .. n
    OBVIOUS
  <1>5. \A i \in 1 .. n + 1 : t[i] = u[i]
    BY <1>3, <1>4
  <1>6. t = u
    BY <1>2, <1>3, <1>5, SeqEqual
  <1> QED BY <1>3, <1>6

\* A write sends a message.
LEMMA WriteSends ==
  ASSUME KnownPairs, SentOK, NEW kind \in Kinds, NEW size \in Sizes, Write(kind, size)
  PROVE  \E m \in [id : Ids, kind : Types] : Outlines' = Append(Outlines, m) /\ UNCHANGED received
  <1>0. PICK n : n = Len(sent)
    OBVIOUS
  <1>1. /\ n \in Nat /\ DOMAIN sent = 1 .. n /\ SentOK' /\ Len(sent') = n + 1
        /\ sent'[n + 1] = [id |-> n + 1, kind |-> kind, size |-> size]
        /\ \A i \in 1 .. n : sent'[i] = sent[i]
    BY <1>0, SentIs, WriteIs
  <1>2. DOMAIN sent' = 1 .. n + 1 /\ Kinds \subseteq Types /\ UNCHANGED <<pair, received>>
    <2>1. DOMAIN sent' = 1 .. n + 1
      BY <1>1 DEF SentOK
    <2> QED BY <2>1, PairIs DEF SentOK, Write
  <1>3. PICK M : M = [id : Ids, kind : Types]
    OBVIOUS
  <1>4. \A i \in 1 .. n + 1 : Outline(sent'[i]) \in M
    <2> SUFFICES ASSUME NEW i \in 1 .. n + 1 PROVE Outline(sent'[i]) \in M
      OBVIOUS
    <2>1. PICK S : S = [id : Ids, kind : Kinds, size : Sizes] /\ sent' \in Seq(S)
      BY <1>1, <1>2 DEF SentOK, Kinds, Sizes
    <2>2. sent' \in Seq(S) /\ i \in 1 .. Len(sent')
      BY <1>1, <2>1
    <2>3. sent'[i] \in S
      BY <2>2
    <2> QED BY <1>2, <1>3, <2>1, <2>3 DEF Outline
  <1>5. PICK s, t : /\ s = Outlines /\ s = [i \in 1 .. n |-> Outline(sent[i])]
                    /\ t = Outlines' /\ t = [i \in 1 .. n + 1 |-> Outline(sent'[i])]
    BY <1>1, <1>2 DEF Outlines, Outline
  <1>6. PICK x \in M : x = Outline(sent'[n + 1])
    <2>1. n + 1 \in 1 .. n + 1
      BY <1>1
    <2> QED BY <1>4, <2>1
  <1>7. /\ t \in [1 .. n + 1 -> M] /\ t[n + 1] = x /\ \A i \in 1 .. n : t[i] = s[i]
        /\ s \in [1 .. n -> M]
    <2>1. n + 1 \in 1 .. n + 1 /\ \A i \in 1 .. n : i \in 1 .. n + 1
      BY <1>1
    <2> QED BY <1>1, <1>4, <1>5, <1>6, <2>1
  <1>8. t = Append(s, x)
    BY <1>1, <1>7, AppendIs
  <1> QED BY <1>2, <1>3, <1>5, <1>8

\* The worker receives the next message.
LEMMA HandleReceives ==
  ASSUME KnownPairs, RingInv, RingInv', Handle
  PROVE  /\ Len(received) < Len(Outlines) /\ Outlines' = Outlines
         /\ received' = Append(received, Outlines[Len(received) + 1])
  <1>1. PICK at, free : RingAt(at, free)
    BY DEF RingInv
  <1>2. PICK x : x = EntryAt(header)
    OBVIOUS
  <1>3. /\ pc = "handle" /\ pc' = "clear" /\ UNCHANGED <<sent, retired>>
        /\ received' = Append(received, x)
    BY <1>2 DEF Handle
  <1>4. /\ SentOK /\ received \in Seq([id : Ids, kind : Kinds]) /\ Len(received) = retired /\ retired < Len(sent)
    BY <1>1, <1>3 DEF RingAt, Reader
  <1>5. received'[retired + 1] = Outline(sent[retired + 1])
    <2>1. \A i \in 1 .. retired + 1 : received'[i] = Outline(sent'[i])
      BY <1>3 DEF RingInv, RingAt, Reader
    <2>2. retired + 1 \in 1 .. retired + 1
      BY <1>4
    <2> QED BY <1>3, <2>1, <2>2
  <1>6. x = Outline(sent[retired + 1])
    <2>1. received'[Len(received) + 1] = x
      BY <1>3, <1>4
    <2> QED BY <1>4, <1>5, <2>1
  <1>7. retired + 1 \in DOMAIN sent /\ DOMAIN sent = 1 .. Len(sent) /\ Len(sent) \in Nat
    BY <1>4, SentIs
  <1>8. Outlines[retired + 1] = x /\ Len(Outlines) = Len(sent)
    <2>1. Outlines[retired + 1] = x
      BY <1>6, <1>7 DEF Outlines
    <2>2. DOMAIN Outlines = 1 .. Len(sent)
      BY <1>7 DEF Outlines
    <2> QED BY <1>7, <2>1, <2>2, LenProperties
  <1>9. Outlines' = Outlines
    BY <1>3 DEF Outlines, Outline
  <1> QED BY <1>3, <1>4, <1>8, <1>9

\* Each entry is handed to the worker once, in order and as it was sent.
THEOREM ImplementsFifo ==
  ASSUME KnownPairs
  PROVE  Spec => ImplementsChannel
  <1>1. Init => Channel!Init
    BY DEF Init, Channel!Init
  <1>2. RingInv /\ RingInv' /\ [Next]_vars => [Channel!Next]_Channel!vars
    <2> SUFFICES ASSUME RingInv, RingInv', [Next]_vars PROVE [Channel!Next]_Channel!vars
      OBVIOUS
    <2>1. SentOK
      BY DEF RingInv, RingAt
    <2>2. ASSUME NEW kind \in Kinds, NEW size \in Sizes, Write(kind, size) PROVE Channel!Next
      <3>1. PICK m \in [id : Ids, kind : Types] : Outlines' = Append(Outlines, m) /\ UNCHANGED received
        BY <2>1, <2>2, WriteSends
      <3>2. Channel!Send(m)
        BY <3>1 DEF Channel!Send, Outlines
      <3> QED BY <3>2 DEF Channel!Next
    <2>3. CASE Handle
      <3>1. Channel!Receive
        BY <2>3, HandleReceives DEF Channel!Receive, Outlines
      <3> QED BY <3>1 DEF Channel!Next
    <2>4. CASE Deliver \/ Detect \/ Validate \/ Clear \/ UNCHANGED vars
      <3>1. UNCHANGED <<sent, received>>
        BY <2>4 DEF Deliver, Detect, Validate, Clear, vars
      <3> QED BY <3>1 DEF Channel!vars, Outline
    <2> QED BY <2>2, <2>3, <2>4 DEF Next
  <1> QED BY <1>1, <1>2, Invariance, PTL DEF Spec, ImplementsChannel, Channel!Spec
===============================================================================
