---------------------------- MODULE StreamWriter ----------------------------
(***************************************************************************)
(* The write side of the DMA (StreamWriter in DMA.scala).  Requests bring  *)
(* rows of data; the rows of a pooling window and the blocks of a wide row *)
(* are collected, and the last one of them starts the write.  The bytes    *)
(* are cut into TileLink bursts of masked beats; each beat is translated   *)
(* on its own and goes round again when the TLB misses, with the beat      *)
(* behind it parked in the shadow queue.                                   *)
(*                                                                         *)
(* A byte is the set of bytes of local rows it is the maximum of.  The     *)
(* translation pipeline moves once per WriterCycle.  External: a burst is  *)
(* in memory when TileLink acknowledges it, which is any time after its    *)
(* last beat; acknowledgements come in any order.                          *)
(***************************************************************************)
EXTENDS FrontendTLB, FiniteSets, FiniteSetsExt, Functions

CONSTANTS BlockCols,  \* block_cols
          InputBytes, \* inputType.getWidth / 8
          AccBytes,   \* accType.getWidth / 8
          BeatBytes,  \* dma_buswidth / 8
          MaxBytes,   \* dma_maxbytes
          NXacts      \* max_in_flight_mem_reqs

PowersOfTwo == {2^k : k \in 0..10}

\* With one transaction a burst of two beats would wait for itself.
ASSUME WriterAssumption ==
  /\ {BlockCols, InputBytes, AccBytes, BeatBytes, MaxBytes, PageBytes} \subseteq PowersOfTwo
  /\ BeatBytes <= MaxBytes /\ MaxBytes <= PageBytes
  /\ BlockCols * InputBytes <= MaxBytes
  /\ NXacts \in Nat \ {0, 1}

VARIABLES writer,         \* state, req, bytesSent, beatsLeft, write_packet, source
          data_single_block, data_blocks,
          xactBusy,       \* transactions in use
          tlb_q,          \* valid, and bits that stay when they are dequeued
          translate_q, shadow_retry_a, \* queues of one beat
          paddr,          \* the register behind tl.a.bits.address
          tlb_fired,      \* RegNext(io.tlb.req.fire)
          bursts,         \* external: beats TileLink has taken, by source
          mem             \* external: what was written to main memory

dmaVars == <<writer, data_single_block, data_blocks, xactBusy, tlb_q, translate_q,
             shadow_retry_a, paddr, tlb_fired, bursts, mem>>
writerVars == <<tlbVars, dmaVars>>

XactIds == 0..NXacts-1
inputTypeRowBytes == BlockCols * InputBytes
accRowBytes == BlockCols * AccBytes
dataBytes   == Max({inputTypeRowBytes, accRowBytes})
maxBlocks   == MaxBytes \div inputTypeRowBytes

\* a byte of a local row that is zero, or padding
Zero == {<<"zero">>}

-----------------------------------------------------------------------------
(* Cutting a row into bursts *)

write_sizes == {s \in PowersOfTwo : BeatBytes <= s /\ s <= MaxBytes}

\* a packet of s bytes around vaddr; mask: the bytes of it that are written
Packet(vaddr, left, s) ==
  LET offset == vaddr % s
  IN  [size |-> s, vaddr |-> vaddr - offset, mask |-> offset..(Min({s, offset + left}) - 1)]

bytes_written(p) == Cardinality(p.mask)

\* The packet that writes most; the smallest of those.
best_write_packet(vaddr, left) ==
  LET most == Max({bytes_written(Packet(vaddr, left, s)) : s \in write_sizes})
  IN  Packet(vaddr, left,
             Min({s \in write_sizes : bytes_written(Packet(vaddr, left, s)) = most}))

total_beats(p) == p.size \div BeatBytes

bytesLeft == writer.len - writer.bytesSent

write_packet == IF writer.state = "s_writing_new_block"
                THEN best_write_packet(writer.vaddr, bytesLeft) ELSE writer.packet

beatsSent == IF writer.state = "s_writing_new_block" THEN 0
             ELSE total_beats(writer.packet) - writer.beatsLeft

\* the bytes of this beat that are written
write_mask == {i \in 0..BeatBytes-1 : beatsSent * BeatBytes + i \in write_packet.mask}

data == IF writer.block = 0 THEN data_single_block
        ELSE [i \in 0..MaxBytes-1 |->
                data_blocks[i \div inputTypeRowBytes][i % inputTypeRowBytes]]

xactId == Min(XactIds \ xactBusy)

\* the identifier of the burst, held from its first beat on
source == IF writer.state = "s_writing_new_block" THEN xactId ELSE writer.source

untranslated_a_valid == writer.state # "s_idle" /\ xactBusy # XactIds

\* a beat; its number is for the properties
untranslated_a ==
  [source |-> source, size |-> write_packet.size, vaddr |-> write_packet.vaddr,
   beat |-> beatsSent,
   bytes |-> [i \in write_mask |-> data[writer.bytesSent + i - Min(write_mask)]]]

\* the state machine after untranslated_a.fire
WriterNext ==
  LET this_beat == Cardinality(write_mask)
      left == IF writer.state = "s_writing_new_block" THEN total_beats(write_packet) - 1
              ELSE writer.beatsLeft - 1
  IN  [writer EXCEPT
         !.packet = write_packet, !.source = source, !.beatsLeft = left,
         !.bytesSent = @ + this_beat,
         !.vaddr = IF writer.state = "s_writing_new_block"
                   THEN @ + bytes_written(write_packet) ELSE @,
         !.state = CASE left # 0 -> "s_writing_beats"
                     [] left = 0 /\ this_beat >= bytesLeft -> "s_idle"
                     [] OTHER -> "s_writing_new_block"]

-----------------------------------------------------------------------------
(* Translation *)

retry_a(miss) == translate_q # <<>> /\ miss

\* translate_q.io.enq.ready, which is tlb_q.io.deq.ready
translate_q_ready(miss, a_ready) == translate_q = <<>> \/ a_ready \/ miss

tlb_q_fires(miss, a_ready) == tlb_q.valid /\ translate_q_ready(miss, a_ready)

tlb_q_ready(miss, a_ready) == ~ tlb_q.valid \/ translate_q_ready(miss, a_ready)

\* which input of tlb_arb goes to tlb_q
tlb_arb(miss) ==
  CASE retry_a(miss) -> "retry"
    [] ~ retry_a(miss) /\ shadow_retry_a # <<>> -> "shadow"
    [] ~ retry_a(miss) /\ shadow_retry_a = <<>> /\ untranslated_a_valid -> "new"
    [] OTHER -> "none"

\* One cycle of tlb_q, translate_q and the shadow queue.
MoveBeats(miss, a_ready) ==
  LET chosen == tlb_arb(miss)
      enters == chosen # "none" /\ tlb_q_ready(miss, a_ready)
      new    == enters /\ chosen = "new"
  IN  /\ tlb_q' = IF enters
           THEN [valid |-> TRUE,
                 bits |-> CASE chosen = "retry" -> translate_q[1]
                            [] chosen = "shadow" -> shadow_retry_a[1]
                            [] OTHER -> untranslated_a]
           ELSE [tlb_q EXCEPT !.valid = @ /\ ~ tlb_q_fires(miss, a_ready)]
      /\ translate_q' =
           IF ~ translate_q_ready(miss, a_ready) THEN translate_q
           ELSE IF tlb_q.valid /\ ~ retry_a(miss) THEN <<tlb_q.bits>> ELSE <<>>
      /\ shadow_retry_a' =
           IF retry_a(miss) /\ tlb_q.valid /\ shadow_retry_a = <<>> THEN <<tlb_q.bits>>
           ELSE IF enters /\ chosen = "shadow" THEN <<>> ELSE shadow_retry_a
      /\ writer' = IF new THEN WriterNext ELSE writer
      /\ xactBusy' = IF new /\ writer.state = "s_writing_new_block"
                     THEN xactBusy \cup {xactId} ELSE xactBusy

\* tl.a.bits.address
Address(hit) == IF tlb_fired THEN resp_paddr(hit) ELSE paddr

\* External: TileLink takes a beat.
Taken(b, address) ==
  [s \in DOMAIN bursts \cup {b.source} |->
     IF s # b.source THEN bursts[s]
     ELSE [address |-> IF s \in DOMAIN bursts THEN bursts[s].address ELSE address,
           size |-> b.size,
           beats |-> IF s \in DOMAIN bursts THEN Append(bursts[s].beats, b) ELSE <<b>>]]

WriterMoves == \/ untranslated_a_valid \/ tlb_q.valid \/ translate_q # <<>>
               \/ shadow_retry_a # <<>> \/ tlb_request # <<>>

\* One cycle: the TLB hits or not, TileLink is ready or not.
WriterCycle(hit, a_ready) ==
  LET miss == resp_miss(hit)
  IN  /\ WriterMoves
      /\ MoveBeats(miss, a_ready)
      /\ TranslateCycle(tlb_q_fires(miss, a_ready), tlb_q.bits.vaddr, hit)
      /\ paddr' = Address(hit)
      /\ tlb_fired' = tlb_q_fires(miss, a_ready)
      /\ bursts' = IF translate_q # <<>> /\ ~ miss /\ a_ready
                   THEN Taken(translate_q[1], Address(hit)) ELSE bursts
      /\ UNCHANGED <<data_single_block, data_blocks, mem>>

-----------------------------------------------------------------------------

IsWhole(burst) == Len(burst.beats) * BeatBytes >= burst.size

\* External: the bytes of a burst, beat after beat
BytesOf(burst) ==
  LET at(k, i) == <<burst.address[1], burst.address[2] + (k - 1) * BeatBytes + i>>
      cells == UNION {{<<k, i>> : i \in DOMAIN burst.beats[k].bytes} : k \in DOMAIN burst.beats}
  IN  [a \in {at(c[1], c[2]) : c \in cells} |->
         LET c == CHOOSE c \in cells : at(c[1], c[2]) = a IN burst.beats[c[1]].bytes[c[2]]]

\* fault: an identifier is used once
xactBusy_remove_Never(s) == xactBusy
xactBusy_remove(s) == xactBusy \ {s}

\* tl.d: a burst is acknowledged
Acknowledge(s) ==
  /\ s \in DOMAIN bursts /\ IsWhole(bursts[s])
  /\ LET bytes == BytesOf(bursts[s])
     IN  mem' = [a \in DOMAIN mem \cup DOMAIN bytes |->
                   IF a \in DOMAIN bytes THEN bytes[a] ELSE mem[a]]
  /\ bursts' = Restrict(bursts, DOMAIN bursts \ {s})
  /\ xactBusy' = xactBusy_remove(s)
  /\ UNCHANGED <<tlbVars, writer, data_single_block, data_blocks, tlb_q, translate_q,
                 shadow_retry_a, paddr, tlb_fired>>

\* data_single_block after request r: maximum with the rows of its window before
Collected(r) ==
  [i \in 0..dataBytes-1 |-> IF ~ r.pool_en THEN r.data[i]
     ELSE IF i < BlockCols * InputBytes THEN data_single_block[i] \cup r.data[i]
     ELSE data_single_block[i]]

\* io.req.fire
AcceptWrite(r) ==
  /\ writer.state = "s_idle"
  /\ writer' = [writer EXCEPT
       !.state = IF r.store_en THEN "s_writing_new_block" ELSE "s_idle",
       !.vaddr = r.vaddr, !.len = r.block * inputTypeRowBytes + r.len, !.block = r.block,
       !.bytesSent = 0]
  /\ data_single_block' = Collected(r)
  /\ data_blocks' = [data_blocks EXCEPT ![r.block] =
                       [i \in 0..inputTypeRowBytes-1 |-> r.data[i]]]
  /\ UNCHANGED <<tlbVars, xactBusy, tlb_q, translate_q, shadow_retry_a, paddr, tlb_fired,
                 bursts, mem>>

writer_busy == xactBusy # {} \/ writer.state # "s_idle"

NoBeat == [source |-> 0, size |-> BeatBytes, vaddr |-> 0, beat |-> 0, bytes |-> <<>>]

\* Data registers hold anything after reset: the empty set is no byte.
WriterInit ==
  /\ TLBInit
  /\ writer = [state |-> "s_idle", vaddr |-> 0, len |-> 0, block |-> 0, bytesSent |-> 0,
               beatsLeft |-> 0, packet |-> Packet(0, 0, BeatBytes), source |-> 0]
  /\ data_single_block = [i \in 0..dataBytes-1 |-> {}]
  /\ data_blocks = [b \in 0..maxBlocks-1 |-> [i \in 0..inputTypeRowBytes-1 |-> {}]]
  /\ xactBusy = {} /\ tlb_q = [valid |-> FALSE, bits |-> NoBeat]
  /\ translate_q = <<>> /\ shadow_retry_a = <<>> /\ paddr = NoAddress /\ tlb_fired = FALSE
  /\ bursts = <<>> /\ mem = <<>>
=============================================================================
