----------------------------- MODULE FrontendTLB -----------------------------
(***************************************************************************)
(* Address translation for one client of the DMA (FrontendTLB.scala): a    *)
(* filter register that keeps the last translation, in front of a TLB that *)
(* the clients share.  A request is answered a cycle later, by the TLB if  *)
(* the filter did not know the page, else by the filter.                   *)
(*                                                                         *)
(* External: the TLB of the core library, which answers a request at once  *)
(* or misses, and the page table.  A request that loses the shared TLB to  *)
(* the other client sees a miss.  A physical address is a pair of the      *)
(* generation of the page table that maps it and the address.              *)
(***************************************************************************)
EXTENDS Integers, Sequences

CONSTANT PageBytes \* 2^pgIdxBits

ASSUME PageAssumption == PageBytes \in Nat \ {0}

VARIABLES page_table,      \* external: how often the page table has changed
          last_translated, \* last_translated_valid, _vpn, _ppn
          tlb_request,     \* tlbReqValid, tlbReq: <<>> when not valid
          l0_answer        \* RegNext of l0_tlb_paddr: <<>> when l0_tlb_hit was false

tlbVars == <<page_table, last_translated, tlb_request, l0_answer>>

vpn(vaddr) == vaddr \div PageBytes

\* external: the frame of a page
Translation(page) == <<page_table, page>>

PhysicalAddress(ppn, vaddr) == <<ppn[1], ppn[2] * PageBytes + (vaddr % PageBytes)>>

l0_tlb_hit(vaddr) == last_translated.valid /\ last_translated.vpn = vpn(vaddr)

l0_tlb_paddr(vaddr) == PhysicalAddress(last_translated.ppn, vaddr)

\* client.resp, when the TLB hits or not
resp_miss(hit) == IF tlb_request # <<>> THEN ~ hit ELSE l0_answer = <<>>

\* what resp.paddr holds when nothing is translated
NoAddress == <<-1, 0>>

resp_paddr(hit) ==
  IF tlb_request # <<>>
  THEN IF hit THEN PhysicalAddress(Translation(vpn(tlb_request[1])), tlb_request[1])
       ELSE NoAddress
  ELSE IF l0_answer # <<>> THEN l0_answer[1] ELSE NoAddress

\* One cycle: client.req is `vaddr', a request if `valid'; the TLB hits or not.
\* The filter looks at the address whether it is valid or not.
TranslateCycle(valid, vaddr, hit) ==
  /\ tlb_request' = IF valid /\ ~ l0_tlb_hit(vaddr) THEN <<vaddr>> ELSE <<>>
  /\ l0_answer' = IF l0_tlb_hit(vaddr) THEN <<l0_tlb_paddr(vaddr)>> ELSE <<>>
  /\ last_translated' = IF tlb_request = <<>> \/ ~ hit THEN last_translated
       ELSE [valid |-> TRUE, vpn |-> vpn(tlb_request[1]),
             ppn |-> Translation(vpn(tlb_request[1]))]
  /\ UNCHANGED page_table

\* the filter register after io.exp.flush
FilterAfterFlush == [last_translated EXCEPT !.valid = FALSE]

\* Software has changed the page table and flushes.
FlushTLB ==
  /\ page_table' = page_table + 1
  /\ last_translated' = FilterAfterFlush
  /\ UNCHANGED <<tlb_request, l0_answer>>

TLBInit ==
  /\ page_table = 0
  /\ last_translated = [valid |-> FALSE, vpn |-> 0, ppn |-> <<0, 0>>]
  /\ tlb_request = <<>> /\ l0_answer = <<>>
==============================================================================
