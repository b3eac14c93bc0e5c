-------------------------- MODULE ScotLogIndexProofs ---------------------------
(* What the index arithmetic of scot-log.cc gives for every payload size    *)
(* and every length of the log.                                            *)
EXTENDS ScotLogIndex, TLAPS

\* The words taken are exactly those of the payload and its canary, as long
\* as the padded size fits in 16 bits.
LEMMA TakeCovers ==
  \A b \in 0 .. MaxPayload : Take(Uint16(b + 1)) = b \div 4 + 1
<1> SUFFICES ASSUME NEW b \in Nat, b <= 65531
             PROVE  Take(Uint16(b + 1)) = b \div 4 + 1
  BY DEF MaxPayload
<1>1. Uint16(b + 1) = b + 1
  BY DEF Uint16
<1>2. PICK q \in Nat, r \in 0 .. 3 : b = 4 * q + r
  <2>1. b \div 4 \in Nat /\ b % 4 \in 0 .. 3 /\ b = 4 * (b \div 4) + (b % 4)
    OBVIOUS
  <2> QED
    BY <2>1
<1>3. b \div 4 = q
  BY <1>2
<1>4. CASE r = 3
  <2>1. (b + 1) % 4 = 0 /\ (b + 1) \div 4 = q + 1
    BY <1>2, <1>4
  <2> QED
    BY <1>1, <1>3, <2>1 DEF Take, WordBytes
<1>5. CASE r # 3
  <2>1. (b + 1) % 4 # 0 /\ b + 5 < 65536 /\ (b + 5) \div 4 = q + 1
    BY <1>2, <1>5
  <2>2. Uint16(b + 1 + 4) = b + 5
    BY <2>1 DEF Uint16
  <2> QED
    BY <1>1, <1>3, <2>1, <2>2 DEF Take, WordBytes
<1> QED
  BY <1>4, <1>5

\* Entries do not overlap: the next one starts at the word behind the canary
\* (__get_next_aligned_idx), or at the start of the log.
THEOREM EntriesDoNotOverlap ==
  ASSUME NEW w \in 0 .. AlignCounts - 1, NEW b \in 0 .. MaxPayload
  PROVE  EntryFits(w, b) /\ NextEntry(w, b) \in 0 .. AlignCounts - 1
<1> DEFINE q == b \div 4
<1>1. w \in Nat /\ q \in Nat
  BY AlignCountsAssumption
<1>2. Take(Uint16(b + 1)) = q + 1
  BY TakeCovers
<1>3. CanaryWord(w, b) = w + 2 + q
  BY DEF CanaryWord, HeaderWords, WordBytes
<1>4. NextEntry(w, b) = IF w + 2 + (q + 1) > AlignCounts - 1
                          THEN 0 ELSE w + 2 + (q + 1)
  BY <1>2 DEF NextEntry, NextAligned, HeaderWords
<1> HIDE DEF q
<1> QED
  BY <1>1, <1>3, <1>4, AlignCountsAssumption DEF EntryFits

\* The four largest uint16_t sizes: the padding overflows, and the next
\* entry would start behind the header of this one, on its payload.
THEOREM LargestPayloadsOverlap ==
  ASSUME NEW w \in 0 .. AlignCounts - 1, NEW b \in PayloadSizes,
         b > MaxPayload, w + 2 < AlignCounts
  PROVE  NextEntry(w, b) = w + 2 /\ ~EntryFits(w, b)
<1>1. b \in {65532, 65533, 65534, 65535}
  <2>1. b \in Int /\ 65532 <= b /\ b <= 65535
    BY DEF PayloadSizes, MaxPayload
  <2> QED
    BY <2>1
<1>2. Take(Uint16(b + 1)) = 0
  <2>1. Uint16(b + 1) \in {65533, 65534, 65535, 0}
    BY <1>1 DEF Uint16
  <2> QED
    BY <2>1 DEF Take, Uint16, WordBytes
<1>3. NextEntry(w, b) = w + 2
  BY <1>2, AlignCountsAssumption DEF NextEntry, NextAligned, HeaderWords
<1>4. CanaryWord(w, b) \in Int /\ CanaryWord(w, b) >= w + 2 /\ w \in Nat
  BY <1>1, AlignCountsAssumption DEF CanaryWord, HeaderWords, WordBytes
<1> QED
  BY <1>3, <1>4, AlignCountsAssumption DEF EntryFits
===============================================================================
