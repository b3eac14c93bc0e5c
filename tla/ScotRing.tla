------------------------------- MODULE ScotRing -------------------------------
(***************************************************************************)
(* One direction of the log replication between two nodes: a ScotWriter's  *)
(* ScotLog, the RDMA writes that copy its entries to the same offset of a  *)
(* peer's memory region, and the ScotReader that polls that region.  The   *)
(* replicator writes PURE and ACK entries for a peer's replayer, the       *)
(* checker WAIT and HDRONLY entries for a peer's receiver.                 *)
(*                                                                         *)
(* Memory is modelled in words.  The second header word ("meta") holds     *)
(* size and message type, the last word the canary; the bytes of any other *)
(* word are the application's, so a stale one may look like anything.      *)
(* RDMA delivers an entry word by word, in address order.                  *)
(***************************************************************************)
EXTENDS ScotLogIndex, Sequences

CONSTANTS Pairs,       \* the kinds of writer and reader to look at, as records:
                       \*   kinds    message types sent
                       \*   cleared  types whose header the reader sets to NONE
                       \*   sizes    payload sizes in bytes
                       \*   backlog  bound: entries the writer gets ahead
                       \*   count    bound: entries written
          MaxSent      \* the largest of those counts

Types == {"PURE", "ACK", "WAIT", "HDRONLY"}
ASSUME MaxSentAssumption == MaxSent \in Nat
ASSUME PairsAssumption ==
  \A p \in Pairs :
    /\ p.cleared \subseteq p.kinds /\ p.kinds \subseteq Types
    /\ p.sizes # {} /\ p.sizes \subseteq PayloadSizes
    /\ p.backlog \in Nat \ {0} /\ p.count \in 1 .. MaxSent

VARIABLES pair,        \* the one of Pairs this behaviour is about
          sent,        \* entries write_local_log made: [id, kind, size]
          wr,          \* next_free of the writer's log
          transit,     \* words posted and not yet delivered: [at, word]
          mem,         \* the reader's log
          rd,          \* next_free of the reader's log
          pc,          \* reader: poll, canary, handle, clear
          header,      \* rcvd: where the current entry starts
          received,    \* entries handed to the worker
          retired      \* entries the worker is done with

vars == <<pair, sent, wr, transit, mem, rd, pc, header, received, retired>>

\* canary: for each byte whether it has the value of a canary; an
\* application byte may or may not ("any").
\* kind: the message type that the last byte is when the word is taken for a
\* meta word; again "ANY" for an application byte, "CANARY" for a canary.
Canary == 36                    \* SCOT_LOGENTRY_CANARY
Bytes == 0 .. WordBytes - 1
LastByte == WordBytes - 1
CanaryByte(size) == size % WordBytes

Zero == [id |-> 0, role |-> "zero", kind |-> "NONE", size |-> 0,
         canary |-> [b \in Bytes |-> "no"]]
Data(id) == [id |-> id, role |-> "data", kind |-> "ANY", size |-> 0,
             canary |-> [b \in Bytes |-> "any"]]
\* buf_sz, inst and msg; no message type is a canary.
Meta(id, kind, size) ==
  LET bytes == <<size % 256, size \div 256, (id - 1) % 256, 0>> IN
  [id |-> id, role |-> "meta", kind |-> kind, size |-> size,
   canary |-> [b \in Bytes |-> IF bytes[b + 1] = Canary THEN "yes" ELSE "no"]]
\* The last word of an entry: payload, the canary, and what was there before.
Final(id, size) ==
  [id |-> id, role |-> "last", kind |-> "ANY", size |-> size,
   canary |-> [b \in Bytes |-> IF b = CanaryByte(size) THEN "yes" ELSE "any"]]
Landed(old, word) ==
  IF word.role # "last" THEN word
  ELSE [word EXCEPT
          !.canary = [b \in Bytes |-> IF b > CanaryByte(word.size) THEN old.canary[b] ELSE @[b]],
          !.kind = IF CanaryByte(word.size) = LastByte THEN "CANARY" ELSE old.kind]

Kinds == pair.kinds
Sizes == pair.sizes
Ids == 1 .. MaxSent
AllKinds == Kinds \cup {"NONE"}
LastBytes == AllKinds \cup {"ANY", "CANARY"}
Garbage == [id |-> 0, kind |-> "NONE"]

TypeOK ==
  /\ pair \in Pairs
  /\ sent \in Seq([id : Ids, kind : Kinds, size : Sizes])
  /\ wr \in 0 .. AlignCounts - 1 /\ rd \in 0 .. AlignCounts - 1
  /\ header \in 0 .. AlignCounts - 1
  /\ \A w \in DOMAIN mem :
       mem[w] \in [id : Ids \cup {0}, role : {"zero", "meta", "data", "last"},
                   kind : LastBytes, size : Sizes \cup {0},
                   canary : [Bytes -> {"yes", "no", "any"}]]
  /\ pc \in {"poll", "canary", "handle", "clear"}
  /\ received \in Seq([id : Ids, kind : Kinds] \cup {Garbage})
  /\ retired \in 0 .. Len(received)

Words == 0 .. CHOOSE w \in {CanaryWord(AlignCounts - 1, b) : b \in Sizes} :
                \A b \in Sizes : CanaryWord(AlignCounts - 1, b) <= w

\* The ScotLog constructors; the memory region is zeroed.
Init ==
  /\ pair \in Pairs
  /\ sent = <<>>
  /\ wr = 0
  /\ transit = <<>>
  /\ mem = [w \in Words |-> Zero]
  /\ rd = 0
  /\ pc = "poll"
  /\ header = 0
  /\ received = <<>>
  /\ retired = 0

(***************************************************************************)
(* Writer.                                                                 *)
(***************************************************************************)
\* The words of one RDMA write; a HDRONLY write stops behind the header.
EntryWrite(w, id, kind, size) ==
  LET hash == [at |-> w, word |-> Data(id)]
      meta == [at |-> w + 1, word |-> Meta(id, kind, size)]
      body == [i \in 1 .. size \div WordBytes |->
                 [at |-> w + HeaderWords + i - 1, word |-> Data(id)]]
      tail == [at |-> CanaryWord(w, size), word |-> Final(id, size)]
  IN  IF kind = "HDRONLY" THEN <<hash, meta>>
                          ELSE <<hash, meta>> \o body \o <<tail>>

(***************************************************************************)
(* Faults: what a plausible mistake would make of a definition below.  No  *)
(* specification uses them; each breaks a property that the code keeps.    *)
(***************************************************************************)
\* The writer forgets the canary byte when it advances.
WriterNextNoCanary(w, size) == NextAligned(w + HeaderWords, size)

\* The reader does not reset the canary.
ValidateNoReset ==
  LET size == mem[rd + 1].size IN
  /\ pc = "canary"
  /\ mem[CanaryWord(rd, size)].canary[CanaryByte(size)] = "yes"
  /\ rd' = NextEntry(rd, size)
  /\ pc' = "handle"
  /\ UNCHANGED <<pair, sent, wr, transit, mem, header, received, retired>>

\* The worker clears the header at its new position.
ClearNext ==
  /\ pc = "clear"
  /\ mem' = [mem EXCEPT ![rd + 1].kind = "NONE"]
  /\ retired' = retired + 1
  /\ pc' = "poll"
  /\ UNCHANGED <<pair, sent, wr, transit, rd, header, received>>

WriterNext(w, size) == NextEntry(w, size)

\* write_request: write_local_log and the post to this peer.  writer_lock
\* is held until the completion was polled, so one write is in transit.
Write(kind, size) ==
  LET id == Len(sent) + 1 IN
  /\ transit = <<>>
  /\ Len(sent) < pair.count
  /\ Len(sent) - retired < pair.backlog
  /\ sent' = Append(sent, [id |-> id, kind |-> kind, size |-> size])
  /\ transit' = EntryWrite(wr, id, kind, size)
  /\ wr' = WriterNext(wr, size)
  /\ UNCHANGED <<pair, mem, rd, pc, header, received, retired>>

Deliver ==
  /\ transit # <<>>
  /\ mem' = [mem EXCEPT ![transit[1].at] = Landed(@, transit[1].word)]
  /\ transit' = SubSeq(transit, 2, Len(transit))
  /\ UNCHANGED <<pair, sent, wr, rd, pc, header, received, retired>>

(***************************************************************************)
(* Reader: poll_next_local_log and the worker around it.                   *)
(***************************************************************************)
\* The header fields a word may be read as; payload may give any size.
ReadAs(word) ==
  [kind : IF word.kind = "ANY" THEN AllKinds ELSE {word.kind},
   size : IF word.role \in {"data", "last"} THEN Sizes ELSE {word.size}]
\* msg & msg_detect; a canary has the bit of SCOT_MSGTYPE_WAIT.
Detected(kind) == kind \in Kinds \/ (kind = "CANARY" /\ "WAIT" \in Kinds)
MayBeCanary(word, size) == word.canary[CanaryByte(size)] # "no"
WithoutCanary(word, size) ==
  [word EXCEPT !.canary[CanaryByte(size)] = "no",
               !.kind = IF CanaryByte(size) = LastByte THEN "NONE" ELSE @]

\* The loop on rcv_header->msg ends.
Detect ==
  /\ pc = "poll"
  /\ \E h \in ReadAs(mem[rd + 1]) : Detected(h.kind)
  /\ pc' = "canary"
  /\ header' = rd
  /\ UNCHANGED <<pair, sent, wr, transit, mem, rd, received, retired>>

\* The canary is awaited (not for HDRONLY) and reset, next_free advanced.
Validate ==
  /\ pc = "canary"
  /\ \E h \in ReadAs(mem[rd + 1]) :
       LET at == CanaryWord(rd, h.size) IN
       /\ \/ h.kind = "HDRONLY" /\ UNCHANGED mem
          \/ /\ h.kind # "HDRONLY"
             /\ MayBeCanary(mem[at], h.size)
             /\ mem' = [mem EXCEPT ![at] = WithoutCanary(@, h.size)]
       /\ rd' = NextEntry(rd, h.size)
  /\ pc' = "handle"
  /\ UNCHANGED <<pair, sent, wr, transit, header, received, retired>>

\* The entry as the worker sees it: one entry of the writer, or a mixture.
EntryAt(w) ==
  LET meta == mem[w + 1]
      ids == {mem[v].id : v \in EntryWords(w, meta.size)}
  IN  IF meta.role = "meta" /\ meta.kind # "NONE"
         /\ (meta.kind = "HDRONLY" \/ ids = {meta.id})
        THEN [id |-> meta.id, kind |-> meta.kind]
        ELSE Garbage

\* The worker uses header and payload (release_wait, or write_request).
Handle ==
  /\ pc = "handle"
  /\ received' = Append(received, EntryAt(header))
  /\ pc' = "clear"
  /\ UNCHANGED <<pair, sent, wr, transit, mem, rd, header, retired>>

\* rcvd->msg = SCOT_MSGTYPE_NONE, which the receiver does for WAIT only and
\* the replayer whatever it was that it detected.
Clear ==
  /\ pc = "clear"
  /\ \E h \in ReadAs(mem[header + 1]) :
       mem' = IF h.kind \in pair.cleared \/ pair.cleared = Kinds
                THEN [mem EXCEPT ![header + 1].kind = "NONE"] ELSE mem
  /\ retired' = retired + 1
  /\ pc' = "poll"
  /\ UNCHANGED <<pair, sent, wr, transit, rd, header, received>>

Next ==
  \/ \E kind \in Kinds, size \in Sizes : Write(kind, size)
  \/ Deliver
  \/ Detect \/ Validate \/ Handle \/ Clear

Spec == Init /\ [][Next]_vars

\* RDMA delivers what was posted, and the worker thread is scheduled.
FairSpec == Spec /\ WF_vars(Deliver) /\ WF_vars(Detect \/ Validate \/ Handle \/ Clear)

(***************************************************************************)
(* Properties.  They are expected of pairs of two sorts.                   *)
(***************************************************************************)
\* The words from one entry to the next.
Stride(b) == b \div WordBytes + HeaderWords + 1

\* Entries of one size, all cleared by the reader, and a writer that is
\* never ahead by more entries than fit in the log.
OneSize(p, b) ==
  /\ b \in 0 .. MaxPayload /\ p.sizes = {b}
  /\ p.kinds \subseteq p.cleared \ {"HDRONLY"}
  /\ (p.backlog - 1) * Stride(b) < AlignCounts

\* Entries of any size and type, all of which fit in the log.
OneLap(p) ==
  /\ p.sizes \subseteq 0 .. MaxPayload
  /\ \E b \in p.sizes : p.count * Stride(b) < AlignCounts /\ \A c \in p.sizes : Stride(c) <= Stride(b)

KnownPairs == \A p \in Pairs : OneLap(p) \/ \E b \in p.sizes : OneSize(p, b)

\* The pair is a FIFO channel: nothing is lost, repeated, reordered or torn.
Outline(e) == [id |-> e.id, kind |-> e.kind]
Channel == INSTANCE FifoChannel
             WITH Messages <- [id : Ids, kind : Types],
                  sent <- [i \in DOMAIN sent |-> Outline(sent[i])]
ImplementsChannel == Channel!Spec

\* Reader and writer agree on where the next entry starts.
PositionsAgree == pc = "poll" /\ retired = Len(sent) => rd = wr

\* In the end every entry written was handed to the worker (the number of
\* entries is bounded).
AllReceived == <>[](Len(received) = Len(sent))

\* "Wait until a message is written from the remote." (scot-log.cc:121): the
\* reader is never ahead of the writer.
ReaderNotAhead == Len(received) <= Len(sent)
===============================================================================
