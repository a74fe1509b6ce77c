---------------------------- MODULE StreamReader ----------------------------
(***************************************************************************)
(* The read side of the DMA (StreamReader in DMA.scala, XactTracker.scala, *)
(* BeatMerger.scala).  A request for one row of main memory is cut into    *)
(* TileLink packets; each packet takes a slot of the transaction tracker,  *)
(* is translated by the TLB, sent, and answered in beats, packets in any   *)
(* order.  The beat merger turns the beats of a packet into rows of the    *)
(* local memory.                                                           *)
(*                                                                         *)
(* A register that may be empty and a queue of one are sequences of at     *)
(* most one element.  A byte of data is the main-memory address it came    *)
(* from.  The request pipeline (translator, retries) moves once per        *)
(* Translate step; everything joined by ready/valid handshakes moves in a  *)
(* step of its own, which allows every timing the handshakes allow.        *)
(***************************************************************************)
EXTENDS Integers, Sequences, FiniteSets, FiniteSetsExt, Functions

CONSTANTS BlockRows,  \* block_rows
          BlockCols,  \* block_cols
          InputBytes, \* inputType.getWidth / 8
          AccBytes,   \* accType.getWidth / 8
          BeatBytes,  \* dma_buswidth / 8
          MaxBytes,   \* dma_maxbytes
          NXacts      \* max_in_flight_mem_reqs

PowersOfTwo == {2^k : k \in 0..10}

\* Sizes the generator requires to be powers of two.
ASSUME WidthsAssumption ==
  /\ {BlockRows, BlockCols, InputBytes, AccBytes, BeatBytes, MaxBytes} \subseteq PowersOfTwo
  /\ BeatBytes <= MaxBytes
  /\ InputBytes <= AccBytes
  /\ NXacts \in Nat \ {0}

VARIABLES reader,      \* state and req of StreamReaderCore: <<>> is s_idle
          entries,     \* XactTracker: the valid slots and what they hold
          tlb_q,       \* packets on their way to the TLB
          translate_q, \* packets the TLB answers now
          inflight,    \* packets TileLink has taken and not fully answered
          merger       \* req, buffer, bytesRead and bytesSent of BeatMerger

readerVars == <<reader, entries, tlb_q, translate_q, inflight, merger>>

XactIds == 0..NXacts-1
spadWidthBytes == BlockCols * InputBytes
accWidthBytes  == BlockCols * AccBytes
rowBytes(e)  == IF e.has_acc_bitwidth THEN accWidthBytes ELSE spadWidthBytes
elemBytes(e) == IF e.has_acc_bitwidth THEN AccBytes ELSE InputBytes

\* the largest row or packet; buflen of BeatMerger
BufLen == Max({spadWidthBytes, accWidthBytes, MaxBytes})

-----------------------------------------------------------------------------
(* Cutting a row into packets *)

\* bytesRequested has log2Ceil(BufLen) bits
bytesLeft(r) == r.len * elemBytes(r) - r.bytesRequested

\* packet.bytes_read of a packet of s bytes around vaddr
BytesRead(vaddr, left, s) == Min({s - (vaddr % s), left})

read_sizes == {s \in PowersOfTwo : BeatBytes <= s /\ s <= MaxBytes}

\* fault: a packet longer than what is left takes the bytes behind the row too
read_packet_PastEnd(vaddr, left) ==
  LET size == MaxBytes
  IN  [size |-> size, bytes_read |-> size - (vaddr % size),
       shift |-> vaddr % size, vaddr |-> vaddr - (vaddr % size)]

\* The packet that reads most; the smallest of those.
read_packet(vaddr, left) ==
  LET most == Max({BytesRead(vaddr, left, s) : s \in read_sizes})
      size == Min({s \in read_sizes : BytesRead(vaddr, left, s) = most})
  IN  [size |-> size, bytes_read |-> most,
       shift |-> vaddr % size, vaddr |-> vaddr - (vaddr % size)]

free_entry == Min(XactIds \ DOMAIN entries)

\* io.reserve.entry: what the tracker keeps about packet p of request r
ReserveEntry(r, p) ==
  [shift |-> p.shift, bytes_to_read |-> p.bytes_read,
   addr  |-> r.spaddr + r.block_stride * (r.bytesRequested \div rowBytes(r)),
   spad_row_offset |-> r.bytesRequested % rowBytes(r),
   is_acc |-> r.is_acc, accumulate |-> r.accumulate,
   has_acc_bitwidth |-> r.has_acc_bitwidth, repeats |-> r.repeats,
   pixel_repeats |-> r.pixel_repeats, len |-> r.len,
   block_stride |-> r.block_stride, cmd_id |-> r.cmd_id]

\* the request once packet p has been cut off
Advance(r, p) ==
  IF p.bytes_read >= bytesLeft(r) THEN <<>>
  ELSE <<[r EXCEPT !.vaddr = @ + p.bytes_read,
                   !.bytesRequested = (@ + p.bytes_read) % BufLen]>>

Accept(r) ==
  /\ reader = <<>>
  /\ reader' = <<[r EXCEPT !.bytesRequested = 0]>>
  /\ UNCHANGED <<entries, tlb_q, translate_q, inflight, merger>>

-----------------------------------------------------------------------------
(* Translation *)

\* fault: a packet that finds the TileLink port busy is not tried again
retry_a_MissOnly(miss, a_ready) == translate_q # <<>> /\ miss
retry_a(miss, a_ready) == translate_q # <<>> /\ (miss \/ ~ a_ready)

untranslated_a_valid == reader # <<>> /\ DOMAIN entries # XactIds

\* One cycle of the request pipeline: the packet in translate_q is sent or goes
\* round again, with priority over a new one from the state machine.
Translate(miss, a_ready) ==
  /\ translate_q # <<>> \/ tlb_q # <<>> \/ untranslated_a_valid
  /\ translate_q' = tlb_q
  /\ inflight' = IF translate_q # <<>> /\ ~ miss /\ a_ready
                 THEN inflight \cup {translate_q[1]} ELSE inflight
  /\ \/ /\ retry_a(miss, a_ready)
        /\ tlb_q' = translate_q
        /\ UNCHANGED <<reader, entries>>
     \/ /\ ~ retry_a(miss, a_ready)
        /\ ~ untranslated_a_valid
        /\ tlb_q' = <<>>
        /\ UNCHANGED <<reader, entries>>
     \/ /\ ~ retry_a(miss, a_ready)
        /\ untranslated_a_valid
        /\ LET r == reader[1]
               p == read_packet(r.vaddr, bytesLeft(r))
           IN  /\ tlb_q' = <<[source |-> free_entry, vaddr |-> p.vaddr, size |-> p.size]>>
               /\ entries' = [i \in DOMAIN entries \cup {free_entry} |->
                                IF i = free_entry THEN ReserveEntry(r, p) ELSE entries[i]]
               /\ reader' = Advance(r, p)
  /\ UNCHANGED merger

-----------------------------------------------------------------------------
(* Answers *)

\* Addresses a, a + 1, ..., a + n - 1
Addresses(a, n) == [i \in 1..n |-> a + i - 1]

bytesReadAfterShift(m) == Max({m.bytesRead - m.entry.shift, 0})
bytesDiscarded(m)  == m.bytesRead - bytesReadAfterShift(m)
usefulBytesRead(m) == Min({bytesReadAfterShift(m), m.entry.bytes_to_read})

\* The merger once the beat `data' is in: the bytes in front of the row are
\* dropped, the rest goes behind what is there.
Merged(m, data) ==
  LET skip == m.entry.shift - bytesDiscarded(m)
  IN  [m EXCEPT !.bytesRead = Min({@ + BeatBytes, m.size}),
                !.buffer = IF skip <= BeatBytes
                           THEN SubSeq(@, 1, usefulBytesRead(m))
                                  \o SubSeq(data, skip + 1, BeatBytes)
                           ELSE @]

\* fault: the slot of a packet is freed by its first beat
lastBeat_Any(m) == TRUE
lastBeat(m) == m.bytesRead = m.size

\* req.pop(): the packet is read and all of its rows are handed on
Popped(m) == IF m.bytesRead = m.size /\ m.bytesSent = m.entry.bytes_to_read THEN <<>> ELSE <<m>>

Loaded(q) == [entry |-> entries[q.source], source |-> q.source, size |-> q.size,
              bytesRead |-> 0, bytesSent |-> 0, buffer |-> <<>>]

\* A beat of packet q arrives.  The beats of a packet come together; the
\* merger takes the first one of a packet only when it is empty.
Beat(q) ==
  /\ merger # <<>> => merger[1].source = q.source /\ merger[1].bytesRead < merger[1].size
  /\ LET m == IF merger = <<>> THEN Loaded(q) ELSE merger[1]
         n == Merged(m, Addresses(q.vaddr + m.bytesRead, BeatBytes))
     IN  /\ merger' = Popped(n)
         /\ entries' = IF lastBeat(n) THEN Restrict(entries, DOMAIN entries \ {q.source})
                       ELSE entries
         /\ inflight' = IF n.bytesRead = n.size THEN inflight \ {q} ELSE inflight
  /\ UNCHANGED <<reader, tlb_q, translate_q>>

rowOffset(m) == IF m.bytesSent = 0 THEN m.entry.spad_row_offset ELSE 0

bytesSent_next(m) == Min({m.bytesSent + rowBytes(m.entry) - rowOffset(m), m.entry.bytes_to_read})

out_valid(m) ==
  /\ usefulBytesRead(m) > m.bytesSent
  /\ \/ usefulBytesRead(m) - m.bytesSent >= rowBytes(m.entry)
     \/ usefulBytesRead(m) = m.entry.bytes_to_read

\* io.out: the bytes of one local row, and the tag that travels with them
OutRow(m) ==
  LET end == rowOffset(m) + m.entry.bytes_to_read - m.bytesSent
  IN  [tag   |-> m.entry,
       addr  |-> m.entry.addr + m.entry.block_stride *
                   ((m.entry.spad_row_offset + m.bytesSent) \div rowBytes(m.entry)),
       bytes |-> [i \in rowOffset(m)..Min({rowBytes(m.entry), end}) - 1
                    |-> m.buffer[m.bytesSent + i - rowOffset(m) + 1]],
       last  |-> bytesSent_next(m) = m.entry.bytes_to_read]

\* The merger hands a row on.
Emit ==
  /\ merger # <<>>
  /\ out_valid(merger[1])
  /\ merger' = Popped([merger[1] EXCEPT !.bytesSent = bytesSent_next(merger[1])])
  /\ UNCHANGED <<reader, entries, tlb_q, translate_q, inflight>>

ReaderInit ==
  /\ reader = <<>> /\ entries = <<>> /\ tlb_q = <<>> /\ translate_q = <<>>
  /\ inflight = {} /\ merger = <<>>
=============================================================================
