---------------------------- MODULE ScotLogIndex ------------------------------
(***************************************************************************)
(* Where a ScotLog puts its entries (scot-log.cc).  An entry is a header   *)
(* of two 32-bit words, the payload and one canary byte; the next entry    *)
(* starts at a word boundary, or at word 0 when the log is used up.        *)
(***************************************************************************)
EXTENDS Integers

CONSTANT AlignCounts   \* SCOT_ALIGN_COUNTS

ASSUME AlignCountsAssumption == AlignCounts \in Nat \ {0}

WordBytes == 4                  \* sizeof(SCOT_LOGALIGN_T)
HeaderWords == 2                \* sizeof(struct ScotMessageHeader)
Uint16(n) == n % 65536
PayloadSizes == 0 .. 65535      \* uint16_t buffer_sz

\* __get_next_aligned_idx; buf_sz is a uint16_t, so the padding may wrap.
Take(buf_sz) ==
  (IF buf_sz % WordBytes # 0 THEN Uint16(buf_sz + WordBytes) ELSE buf_sz)
    \div WordBytes

\* A fault that breaks what the ring keeps: the end of the log is forgotten.
NextNeverWraps(cur_align, buf_sz) == cur_align + Take(buf_sz)

NextAligned(cur_align, buf_sz) ==
  IF cur_align + Take(buf_sz) > AlignCounts - 1
    THEN 0
    ELSE cur_align + Take(buf_sz)

\* next_free after an entry of b payload bytes at word w, as writer and
\* reader compute it.
NextEntry(w, b) == NextAligned(w + HeaderWords, Uint16(b + 1))

\* The words an entry occupies, from its header to its canary.
CanaryWord(w, b) == w + HeaderWords + b \div WordBytes
EntryWords(w, b) == w .. CanaryWord(w, b)

\* The next entry starts behind this one (or at the start of the log).
EntryFits(w, b) == NextEntry(w, b) = 0 \/ NextEntry(w, b) > CanaryWord(w, b)

\* The largest payload whose padded size still fits in 16 bits.
MaxPayload == 65531
===============================================================================
