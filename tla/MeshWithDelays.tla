--------------------------- MODULE MeshWithDelays ---------------------------
(***************************************************************************)
(* The systolic array and the logic that feeds it (MeshWithDelays, Mesh,   *)
(* PE, AlwaysOutTransposer, TagQueue).  The shifters delay every column by *)
(* what its neighbours take, so a row of operands that goes in meets the   *)
(* registers of one moment and comes out as one row of results             *)
(* MeshLatency cycles later: the array is modelled a row at a time.        *)
(*                                                                         *)
(* A row of numbers is a term that says how it was computed; Junk is a row *)
(* nobody defined, and what is computed from it.                           *)
(***************************************************************************)
EXTENDS Naturals, Sequences, SequencesExt

CONSTANTS BlockSize,   \* meshRows * tileRows
          MeshLatency, \* cycles from the buffers to io.resp
          MaxMatmuls   \* max_simultaneous_matmuls

ASSUME MeshAssumption ==
  /\ BlockSize \in Nat /\ BlockSize >= 4
  /\ MeshLatency \in Nat \ {0}
  /\ MaxMatmuls \in Nat /\ MaxMatmuls >= 5

VARIABLES req,          \* valid, flush, total_rows, dataflow, a_transpose, bd_transpose
          matmul_id, fire_counter, in_prop,
          buf,          \* a_buf, b_buf, d_buf
          written,      \* the operands whose buffer is written
          pes,          \* c1 and c2 of the array, a row of PEs each
          transposer,   \* the block it gives out, the rows that came in since
          pipe,         \* the rows on their way through the array, oldest last
          tagq, total_rows_q

meshVars == <<req, matmul_id, fire_counter, in_prop, buf, written, pes, transposer,
              pipe, tagq, total_rows_q>>

Operands == {"a", "b", "d"}
tagqlen == MaxMatmuls + 1

-----------------------------------------------------------------------------
(* Rows *)

Row(op, n, x) == [op |-> op, n |-> n, x |-> x]
Zero == Row("zero", 0, <<>>)
Junk == Row("junk", 0, <<>>)

\* A row computed from the rows x.
Computed(op, n, x) == IF \E i \in DOMAIN x : x[i] = Junk THEN Junk ELSE Row(op, n, x)

Column(block, n) == IF \A i \in DOMAIN block : block[i] = Zero THEN Zero
                    ELSE Computed("column", n, block)
\* weight-stationary: b plus a times the weights
Product(a, b, weights) == IF a = Zero THEN b ELSE Computed("product", 0, <<a, b>> \o weights)
\* output-stationary: row n of the results plus element n of a times b
Accumulated(c, n, a, b) ==
  IF a = Zero \/ b = Zero THEN c
  ELSE Computed("sum", n, (IF c.op = "sum" THEN c.x ELSE <<c>>) \o <<a, b>>)

-----------------------------------------------------------------------------
(* Feeding a row *)

WS == "WS"
OS == "OS"

FromTransposer(dataflow, a_transpose, bd_transpose) ==
  [a |-> IF dataflow = OS THEN ~a_transpose ELSE a_transpose,
   b |-> dataflow = OS /\ bd_transpose,
   d |-> dataflow = WS /\ bd_transpose]

from_transposer == FromTransposer(req.dataflow, req.a_transpose, req.bd_transpose)

input_next_row_into_spatial_array == req.valid /\ (written = Operands \/ req.flush > 0)
last_fire == fire_counter = req.total_rows - 1 /\ input_next_row_into_spatial_array

req_ready == /\ ~req.valid \/ last_fire
             /\ Len(tagq) < tagqlen
             /\ Len(total_rows_q) < tagqlen
MeshReady(x) == x \notin written \/ input_next_row_into_spatial_array \/ req_ready

\* The transposer gives out the columns of the block before, one for each row
\* that comes in.  Rows of d come last first and are turned round on both sides.
transposer_in == IF from_transposer.b THEN buf.b
                 ELSE IF from_transposer.d THEN buf.d ELSE buf.a
transposer_out ==
  IF from_transposer.d
  THEN Column(Reverse(transposer.block), BlockSize - Len(transposer.rows))
  ELSE Column(transposer.block, Len(transposer.rows) + 1)
Transposed ==
  LET rows == Append(transposer.rows, transposer_in)
  IN IF ~\E x \in Operands : from_transposer[x] THEN transposer
     ELSE IF Len(rows) = BlockSize THEN [block |-> rows, rows |-> <<>>]
     ELSE [transposer EXCEPT !.rows = rows]

shifter_in == [x \in Operands |-> IF from_transposer[x] THEN transposer_out ELSE buf[x]]

\* in_prop says which registers compute and which pass d down.
computing_reg == IF in_prop = 1 THEN "c2" ELSE "c1"
passing_reg   == IF in_prop = 1 THEN "c1" ELSE "c2"

ArrayOut == IF req.dataflow = WS
            THEN Product(shifter_in.a, shifter_in.b, pes[computing_reg])
            ELSE Last(pes[passing_reg])

ArrayAfter ==
  [pes EXCEPT
     ![passing_reg] = <<shifter_in.d>> \o Front(@),
     ![computing_reg] =
        IF req.dataflow = WS THEN @
        ELSE [n \in 1..BlockSize |-> Accumulated(@[n], n, shifter_in.a, shifter_in.b)]]

-----------------------------------------------------------------------------
(* What comes out *)

NoRow == [valid |-> FALSE, id |-> 0, last |-> FALSE, data |-> Zero]

garbage == [mem |-> "garbage", row |-> 0, accumulate |-> TRUE]
NoId == 0
garbage_tag == [rob_id |-> NoId, addr |-> garbage, rows |-> 0]

out == pipe[MeshLatency]
tag_matches == tagq # <<>> /\ out.id = Head(tagq).id
rows_match  == total_rows_q # <<>> /\ out.id = Head(total_rows_q).id

resp == [valid |-> out.valid,
         last  |-> out.last,
         data  |-> out.data,
         tag   |-> IF tag_matches THEN Head(tagq).tag ELSE garbage_tag,
         total_rows |-> IF rows_match THEN Head(total_rows_q).total_rows ELSE BlockSize]

tags_in_progress == {tagq[i].tag : i \in DOMAIN tagq}

-----------------------------------------------------------------------------
MeshInit ==
  /\ req = [valid |-> FALSE, flush |-> 0, total_rows |-> BlockSize,
            dataflow |-> WS, a_transpose |-> FALSE, bd_transpose |-> FALSE]
  /\ matmul_id = 0 /\ fire_counter = 0 /\ in_prop = 0
  /\ buf = [x \in Operands |-> Junk]
  /\ written = {}
  /\ pes = [r \in {"c1", "c2"} |-> [n \in 1..BlockSize |-> Junk]]
  /\ transposer = [block |-> [n \in 1..BlockSize |-> Junk], rows |-> <<>>]
  /\ pipe = [n \in 1..MeshLatency |-> NoRow]
  /\ tagq = <<>> /\ total_rows_q = <<>>

wrapped_id(n) == (matmul_id + n) % MaxMatmuls

Popped(q, does) == IF does THEN Tail(q) ELSE q
Pushed(q, does, entry) == IF does THEN Append(q, entry) ELSE q

\* One clock cycle: the operands in fired bring the rows bits, and new is the
\* request when req_fire holds.
MeshCycle(fired, bits, req_fire, new) ==
  LET feeds == input_next_row_into_spatial_array
      leaves == out.valid /\ out.last
      enters == req_fire /\ new.flush = 0
  IN /\ req' = IF req_fire
               THEN [valid |-> TRUE, flush |-> new.flush, total_rows |-> new.total_rows,
                     dataflow |-> new.dataflow, a_transpose |-> new.a_transpose,
                     bd_transpose |-> new.bd_transpose]
               ELSE IF last_fire
               THEN [req EXCEPT !.valid = req.flush > 1, !.flush = (@ + 3) % 4]
               ELSE req
     /\ in_prop' = IF req_fire /\ new.propagate THEN 1 - in_prop ELSE in_prop
     /\ matmul_id' = IF req_fire THEN wrapped_id(1) ELSE matmul_id
     /\ fire_counter' = IF feeds THEN (fire_counter + 1) % req.total_rows ELSE fire_counter
     /\ buf' = [x \in Operands |-> IF x \in fired THEN bits[x] ELSE buf[x]]
     /\ written' = (IF feeds THEN {} ELSE written) \union fired
     /\ pes' = IF feeds THEN ArrayAfter ELSE pes
     /\ transposer' = IF feeds THEN Transposed ELSE transposer
     /\ pipe' = <<[valid |-> feeds, id |-> IF feeds THEN matmul_id ELSE 0,
                   last |-> last_fire, data |-> IF feeds THEN ArrayOut ELSE Zero]>>
                \o Front(pipe)
     /\ tagq' = Pushed(Popped(tagq, leaves /\ tag_matches), enters,
                       [tag |-> new.tag,
                        id  |-> wrapped_id(IF new.dataflow = OS THEN 3 ELSE 2)])
     /\ total_rows_q' = Pushed(Popped(total_rows_q, leaves /\ rows_match), enters,
                               [total_rows |-> new.total_rows, id |-> wrapped_id(1)])

=============================================================================
