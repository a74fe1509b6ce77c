------------------------------- MODULE LoopConv -------------------------------
(***************************************************************************)
(* The convolution loop unroller (LoopConv.scala): seven commands configure *)
(* a tile of a convolution, and five units unroll it into mvins, preloads,  *)
(* computes and mvouts.  Two loops are in flight at a time; the unit of the *)
(* loads may be one loop ahead of the others.  Between a unit and the       *)
(* arbiter sits a pipeline of two stages, so a unit has moved on by the     *)
(* time its command leaves.                                                 *)
(*                                                                         *)
(* A step is a clock cycle.  Commands are those of module Simulator, and g  *)
(* is the accelerator after the commands emitted so far, executed in the    *)
(* order of their emission, which is what the reservation station           *)
(* guarantees (module StationPromise).                                      *)
(***************************************************************************)
EXTENDS SimulatorLoops

CONSTANTS Programs,               \* what the core sends: commands, and the loops they configure
          MaxLds, MaxExs, MaxSts  \* entries of the reservation station

ASSUME StationAssumption == {MaxLds, MaxExs, MaxSts} \subseteq Nat \ {0}

VARIABLES prog,    \* the program
          taken,   \* how many of its commands left the queue
          queued,  \* how many commands are in the queue
          loops,   \* the two loop states
          head,    \* head_loop_id
          unit,    \* ld_bias, ld_input, ld_weights, ex and st
          start,   \* ld_bias_addr_start, ex_c_addr_start, st_addr_start
          util,    \* ld_utilization, ex_utilization, st_utilization
          sent,    \* commands given to the reservation station and not completed
          g,       \* the accelerator after the commands emitted so far
          done,    \* loops completed
          simulated  \* what the functional simulator makes of the program

vars == <<prog, taken, queued, loops, head, unit, start, util, sent, g, done, simulated>>

LoopIds == {0, 1}
Loads   == {"ld_bias", "ld_input", "ld_weights"}
Units   == Loads \cup {"ex", "st"}

Cmd == prog.stream[taken + 1]

-------------------------------------------------------------------------------
(* The configuration registers of a loop                                     *)

\* The fields of the six LOOP_CONV_WS_CONFIG commands and of LOOP_CONV_WS
Fields ==
  <<{"out_channels", "in_channels", "in_row_dim", "batch_size", "stride", "out_col_dim",
     "pool_out_row_dim", "out_row_dim"},
    {"kernel_dim", "pool_out_col_dim", "pool_size", "pool_stride", "batches", "porows", "pocols", "pochs"},
    {"krows", "kcols", "kchs", "lpad", "rpad", "upad", "dpad", "plpad", "in_col_dim"},
    {"orows", "pupad", "kernel_dilation", "ocols", "in_stride", "weight_stride", "out_stride"},
    {"weights", "output"},
    {"bias", "input"},
    {"no_bias", "max_pixels_per_row", "a_spad_id", "b_spad_id", "wrot180", "input_dilated",
     "trans_output_1203", "trans_weight_1203", "trans_weight_0132", "trans_input_3120", "dw",
     "no_pool", "activation", "downsample"}>>

\* the bits a command has for a field
Decoded(f, value) ==
  CASE f \in {"stride", "pool_stride", "dpad", "plpad"} -> value % 2^8
    [] f = "max_pixels_per_row" -> IF value % 2^8 = 0 THEN 1 ELSE value % 2^8
    [] f = "pupad" -> value % 2^11
    [] f = "kernel_dilation" -> value % 2^10
    [] f \in {"a_spad_id", "b_spad_id", "activation"} -> value % 4
    [] f \in UNION {Fields[k] : k \in 1..4} -> value % 2^16
    [] OTHER -> value

\* A loop remembers from which call each group of its registers was written.
Registers(l) ==
  [f \in UNION {Fields[k] : k \in 1..7} |->
     Decoded(f, prog.calls[l.config[CHOOSE k \in 1..7 : f \in Fields[k]]][f])]

ResetLoop(l) == [l EXCEPT !.configured = FALSE, !.running = FALSE, !.started = {}, !.completed = {}]

NewLoop == [config |-> [k \in 1..7 |-> 0], configured |-> FALSE, running |-> FALSE,
            started |-> {}, completed |-> {}]

tail == 1 - head

loop_configured == \E x \in LoopIds : loops[x].configured

loop_being_configured_id == IF loops[head].configured THEN tail ELSE head

undilated(p, x) == IF p.input_dilated THEN (x + 1) \div 2 ELSE x

\* derived_params: the sizes of the image, cut to the 16 bits of their registers, and of the
\* regions of the local memories
derived_params(p) ==
  LET dilated(k) == k + (p.kernel_dilation - 1) * (k - 1)
      irows_without_dilation == p.orows * p.stride + dilated(p.krows) - 1
      icols_without_dilation == p.ocols * p.stride + dilated(p.kcols) - 1
      irows_unpadded == undilated(p, irows_without_dilation - p.upad - p.dpad)
      icols_unpadded == undilated(p, icols_without_dilation - p.lpad - p.rpad)
      irows == IF p.input_dilated THEN irows_unpadded + undilated(p, p.upad) + undilated(p, p.dpad)
               ELSE irows_without_dilation
      icols == IF p.input_dilated THEN icols_unpadded + undilated(p, p.lpad) + undilated(p, p.rpad)
               ELSE icols_without_dilation
      banks(chs) == chs \div DIM + (IF chs % DIM # 0 THEN 1 ELSE 0)
      image == DS(p, irows % 2^16) * DS(p, icols % 2^16)
  IN  [ochs |-> p.pochs, ichs |-> p.kchs,
       irows |-> irows % 2^16, icols |-> icols % 2^16,
       irows_unpadded |-> irows_unpadded % 2^16, icols_unpadded |-> icols_unpadded % 2^16,
       image |-> image,
       bias_spad_stride |-> p.batches * p.orows * p.ocols,
       input_spad_stride |-> image * (IF p.trans_input_3120 THEN p.kchs ELSE p.batches),
       weight_spad_stride |-> p.krows * p.kcols * (IF p.trans_weight_0132 THEN p.pochs ELSE p.kchs),
       B_rows |-> p.krows * p.kcols * (IF p.trans_weight_0132 THEN banks(p.kchs) * p.pochs
                                                              ELSE banks(p.pochs) * p.kchs)]

-------------------------------------------------------------------------------
(* Requests: a unit that is idle takes the next loop it has not started       *)

NoCmd == [op |-> "none"]

\* A mistaken variant: a unit is idle although its last commands are still in its pipeline.
idle_PipelineFull(u) == unit[u].state = "idle"

idle(u) == unit[u].state = "idle" /\ unit[u].pipe = <<NoCmd, NoCmd>>

loop_requesting(u) == IF u \in loops[head].started THEN tail ELSE head

req_fire(u) ==
  LET l == loops[loop_requesting(u)]
  IN  /\ idle(u)
      /\ u \notin l.started
      /\ l.configured
      /\ u = "ex" => Loads \subseteq l.started
      /\ u = "st" => "ex" \in l.started

SpHalf  == SP_ROWS \div 2
AccHalf == ACC_ROWS \div 2

Request(u) ==
  LET x == loop_requesting(u)
      p == Registers(loops[x])
  IN  [loop |-> x,
       a_start |-> (IF p.a_spad_id = 0 THEN x ELSE p.a_spad_id - 1) * SpHalf,
       b_end   |-> (IF p.b_spad_id = 0 THEN x + 1 ELSE p.b_spad_id) * SpHalf,
       c_start |-> IF u \in DOMAIN start THEN start[u] ELSE 0]
      @@ p @@ derived_params(p)

\* the iterators of the five units
Zeros == [b |-> 0, irow |-> 0, icol |-> 0, ich |-> 0, orow |-> 0, ocol |-> 0, och |-> 0,
          krow |-> 0, kcol |-> 0, kch |-> 0]

Started(u, r) ==
      [req  |-> r,
       pipe |-> <<NoCmd, NoCmd>>,
       at   |-> IF u = "ld_input"
                THEN [Zeros EXCEPT !.irow = -undilated(r, r.upad), !.icol = -undilated(r, r.lpad)]
                ELSE Zeros,
       new_weights |-> TRUE,
       state |-> CASE u \in Loads -> "config"
                   [] u = "ex" -> IF r.trans_input_3120 THEN "config" ELSE "pre"
                   [] u = "st" -> IF r.no_pool THEN "st" ELSE "pre_pool_config"]

\* A null address ends a unit's loop with no command.
skip(u) == CASE u = "ld_bias" -> unit[u].req.bias = 0
             [] u = "ld_input" -> unit[u].req.input = 0
             [] u = "ld_weights" -> unit[u].req.weights = 0
             [] u = "st" -> unit[u].req.output = 0
             [] u = "ex" -> FALSE

-------------------------------------------------------------------------------
(* The commands, with r the request of a unit and i its iterators             *)

OutRow(r, i) == r.c_start + (((i.och \div DIM) * r.batches + i.b) * r.orows + i.orow) * r.ocols + i.ocol

\* ld_bias
max_ochs_per_mvin(r) == AtMost(MAX_BLOCK_LEN_ACC * DIM, r.ochs)

BiasConfig(r) == CONFIG_LD(2, 0, Identity, FALSE, r.bias_spad_stride, 1)
BiasMvin(r, i) ==
  MVIN(2, IF r.no_bias THEN 0 ELSE r.bias + i.och * SizeofAcc, AccAddr(OutRow(r, i), FALSE, FALSE),
       AtMost(max_ochs_per_mvin(r), r.ochs - i.och), AtMost(DIM, r.ocols - i.ocol))

\* ld_input
max_chs_per_mvin(r) == AtMost(MAX_BLOCK_LEN * DIM, IF r.trans_input_3120 THEN r.batches ELSE r.ichs)

InputConfig(r) ==
  CONFIG_LD(0, US(r, IF r.trans_input_3120 THEN r.batch_size ELSE r.in_stride), Identity, FALSE,
            r.input_spad_stride, r.max_pixels_per_row)

\* A mistaken variant: a block in the image goes on into the padding behind it.
InputCols_PastEdge(r, i) ==
  IF i.icol < 0 THEN AtMost(DIM, -i.icol)
  ELSE AtMost(US(r, DIM), r.icols_unpadded + undilated(r, r.rpad) - i.icol)

InputCols(r, i) ==
  IF i.icol < 0 THEN AtMost(DIM, -i.icol)
  ELSE IF i.icol >= r.icols_unpadded THEN AtMost(DIM, r.icols_unpadded + undilated(r, r.rpad) - i.icol)
  ELSE AtMost(US(r, DIM), r.icols_unpadded - i.icol)

InputMvin(r, i) ==
  LET is_zeros == i.irow \notin 0 .. r.irows_unpadded - 1 \/ i.icol \notin 0 .. r.icols_unpadded - 1
      pixel == i.irow * r.in_col_dim + i.icol
      \* transposed, the batches of the tile are taken for the batches of the tensor
      offset == IF r.trans_input_3120
                THEN (i.ich * r.in_col_dim * r.in_row_dim + pixel) * r.batches + i.b
                ELSE (i.b * r.in_row_dim * r.in_col_dim + pixel) * r.in_stride + i.ich
      row == r.a_start + DS(r, i.irow + undilated(r, r.upad)) * DS(r, r.icols) + DS(r, i.icol + undilated(r, r.lpad))
             + IF r.trans_input_3120 THEN (i.b \div DIM) * r.input_spad_stride + i.ich * r.image
                                     ELSE (i.ich \div DIM) * r.input_spad_stride + i.b * r.image
  IN  MVIN(0, IF is_zeros THEN 0 ELSE r.input + offset, SpAddr(row),
           AtMost(max_chs_per_mvin(r), IF r.trans_input_3120 THEN r.batches - i.b ELSE r.ichs - i.ich),
           DS(r, InputCols(r, i)))

\* ld_weights
max_wchs_per_mvin(r) == AtMost(MAX_BLOCK_LEN * DIM, IF r.trans_weight_0132 THEN r.kchs ELSE r.ochs)

\* the weights of a kernel pixel, from the end of the half of the scratchpad backwards
WeightsRow(r, krow, kcol, kch, och) ==
  r.b_end - r.B_rows +
  IF r.trans_weight_0132 THEN (((kch \div DIM) * r.krows + krow) * r.kcols + kcol) * r.ochs + och
  ELSE (((och \div DIM) * r.krows + krow) * r.kcols + kcol) * r.kchs + kch

WeightsConfig(r) ==
  CONFIG_LD(1, CASE r.dw -> 1
                 [] ~r.dw /\ r.trans_weight_1203 -> r.kernel_dim * r.kernel_dim * r.out_channels
                 [] ~r.dw /\ ~r.trans_weight_1203 /\ r.trans_weight_0132 -> r.in_channels
                 [] OTHER -> r.weight_stride,
            Identity, FALSE, r.weight_spad_stride, 1)

WeightsMvin(r, i) ==
  LET pixel == i.krow * r.kernel_dim + i.kcol
      offset == CASE r.dw -> pixel
                  [] ~r.dw /\ r.trans_weight_1203 ->
                       (i.kch * r.kernel_dim * r.kernel_dim + pixel) * r.out_channels + i.och
                  [] ~r.dw /\ ~r.trans_weight_1203 /\ r.trans_weight_0132 ->
                       (pixel * r.out_channels + i.och) * r.in_channels + i.kch
                  [] OTHER -> (pixel * r.in_channels + i.kch) * r.weight_stride + i.och
      t == r.trans_weight_0132
  IN  MVIN(1, r.weights + offset, SpAddr(WeightsRow(r, i.krow, i.kcol, i.kch, i.och)),
           AtMost(max_wchs_per_mvin(r), IF t THEN r.kchs - i.kch ELSE r.ochs - i.och),
           AtMost(DIM, IF t THEN r.ochs - i.och ELSE r.kchs - i.kch))

\* ex
StridesConfig(r) == CONFIG_EX("OS", NONE, 0, FALSE, FALSE, r.irows * r.icols, r.orows * r.ocols, TRUE)

ExI(r, i) == IF r.trans_input_3120 THEN AtMost(DIM, r.batches - i.b)
             ELSE undilated(r, AtMost(IF r.input_dilated THEN 2 * DIM ELSE DIM, r.ocols - i.ocol))
ExJ(r, i) == AtMost(DIM, r.ochs - i.och)
ExK(r, i) == AtMost(r.max_pixels_per_row, r.kcols - i.kcol) * AtMost(DIM, r.kchs - i.kch)

PreloadCmd(r, i, new_weights) ==
  LET krow_rot == IF r.wrot180 THEN r.krows - i.krow - 1 ELSE i.krow
      kcol_rot == IF r.wrot180 THEN r.kcols - i.kcol - 1 ELSE i.kcol
  IN  PRELOAD(IF new_weights THEN SpAddr(WeightsRow(r, krow_rot, kcol_rot, i.kch, i.och)) ELSE GARBAGE_ADDR,
              ExJ(r, i), ExK(r, i), AccAddr(OutRow(r, i), TRUE, FALSE), ExJ(r, i), ExI(r, i))

ComputeCmd(r, i, new_weights) ==
  LET irow == undilated(r, i.orow * r.stride + i.krow * r.kernel_dilation)
      icol == undilated(r, i.ocol * r.stride + i.kcol * r.kernel_dilation)
      row == r.a_start + DS(r, irow) * DS(r, r.icols) + DS(r, icol)
             + IF r.trans_input_3120 THEN (i.b \div DIM) * r.input_spad_stride + i.kch * r.image
                                     ELSE (i.kch \div DIM) * r.input_spad_stride + i.b * r.image
  IN  COMPUTE(SpAddr(row), ExK(r, i), ExI(r, i), GARBAGE_ADDR, ExJ(r, i), ExI(r, i), new_weights)

\* st
\* ACC_SCALE_NO_CHANGE: the store controller keeps its scale.  The fields of the second
\* configuration that are not set are zero, which is no pooling.
NO_CHANGE == "no change"

PoolConfig(r) ==
  CONFIG_ST(r.out_stride, r.activation, NO_CHANGE,
            [stride |-> r.pool_stride, size |-> r.pool_size, upad |-> r.pupad, lpad |-> r.plpad,
             out_dim |-> r.pool_out_col_dim, porows |-> r.porows, pocols |-> r.pocols,
             orows |-> r.orows, ocols |-> r.ocols])
PostPoolConfig(r) == CONFIG_ST(r.out_stride, r.activation, NO_CHANGE, NoPool)

MvoutCmd(r, i) ==
  LET offset == IF r.trans_output_1203
                THEN (i.orow * r.out_col_dim * r.batch_size + i.ocol * r.batch_size + i.b) * r.out_channels + i.och
                ELSE (i.b * r.out_row_dim * r.out_col_dim + i.orow * r.out_col_dim + i.ocol) * r.out_stride + i.och
  IN  MVOUT(r.output + offset, AccAddr(OutRow(r, i), FALSE, FALSE),
            AtMost(DIM, r.ochs - i.och), AtMost(DIM, r.ocols - i.ocol))

PoolCmd(r, i) ==
  MVOUT(r.output + i.b * r.pool_out_col_dim * r.pool_out_row_dim * r.out_stride + i.och,
        AccAddr(OutRow(r, i), FALSE, FALSE), AtMost(DIM, r.ochs - i.och), 0)

Command(u) ==
  LET v == unit[u]
      r == v.req
  IN  CASE u = "ld_bias"    -> IF v.state = "config" THEN BiasConfig(r) ELSE BiasMvin(r, v.at)
        [] u = "ld_input"   -> IF v.state = "config" THEN InputConfig(r) ELSE InputMvin(r, v.at)
        [] u = "ld_weights" -> IF v.state = "config" THEN WeightsConfig(r) ELSE WeightsMvin(r, v.at)
        [] u = "ex" -> (CASE v.state = "config" -> StridesConfig(r)
                          [] v.state = "pre" -> PreloadCmd(r, v.at, v.new_weights)
                          [] v.state = "comp" -> ComputeCmd(r, v.at, v.new_weights))
        [] u = "st" -> (CASE v.state = "st" -> MvoutCmd(r, v.at)
                          [] v.state = "pre_pool_config" -> PoolConfig(r)
                          [] v.state = "pool" -> PoolCmd(r, v.at)
                          [] v.state = "post_pool_config" -> PostPoolConfig(r))

-------------------------------------------------------------------------------
(* How a unit moves on                                                        *)

\* Nested iterators, the innermost first: each is its name, step, first value and end.
\* One moves when all inside it start again.
Dim(it, by, lo, end) == [it |-> it, by |-> by, lo |-> lo, end |-> end]

Moved(i, dims) ==
  LET wraps[n \in 0 .. Len(dims)] == n = 0 \/ (wraps[n - 1] /\ i[dims[n].it] + dims[n].by > dims[n].end - 1)
      next == [n \in 1 .. Len(dims) |-> IF ~wraps[n - 1] THEN i[dims[n].it]
                                        ELSE IF wraps[n] THEN dims[n].lo ELSE i[dims[n].it] + dims[n].by]
  IN  [at |-> [x \in DOMAIN i |-> IF \E n \in DOMAIN dims : dims[n].it = x
                                  THEN next[CHOOSE n \in DOMAIN dims : dims[n].it = x] ELSE i[x]],
       wraps |-> wraps]

\* v after its last command, or before the next one
Swept(v, dims, last) ==
  LET m == Moved(v.at, dims)
  IN  [v EXCEPT !.at = m.at, !.state = IF m.wraps[Len(dims)] THEN last ELSE @]

BiasDims(r) == <<Dim("och", max_ochs_per_mvin(r), 0, r.ochs), Dim("ocol", DIM, 0, r.ocols),
                 Dim("orow", 1, 0, r.orows), Dim("b", 1, 0, r.batches)>>

InputDims(r, i) ==
  <<Dim("ich", IF r.trans_input_3120 THEN 1 ELSE max_chs_per_mvin(r), 0, r.ichs),
    Dim("icol", InputCols(r, i), -undilated(r, r.lpad), r.icols_unpadded + undilated(r, r.rpad)),
    Dim("irow", US(r, 1), -undilated(r, r.upad), r.irows_unpadded + undilated(r, r.dpad)),
    Dim("b", IF r.trans_input_3120 THEN max_chs_per_mvin(r) ELSE 1, 0, r.batches)>>

WeightsDims(r) ==
  <<Dim("kch", IF r.trans_weight_0132 THEN max_wchs_per_mvin(r) ELSE DIM, 0, r.kchs),
    Dim("kcol", 1, 0, r.kcols), Dim("krow", 1, 0, r.krows),
    Dim("och", IF r.trans_weight_0132 THEN DIM ELSE max_wchs_per_mvin(r), 0, r.ochs)>>

\* In a dilated input only every other pixel is data: the others are passed over, one by one.
skip_iteration ==
  LET v == unit["ex"]
  IN  /\ v.state \in {"pre", "comp"}
      /\ v.req.input_dilated
      /\ \/ (v.at.krow * v.req.kernel_dilation + v.at.orow - v.req.upad) % 2 # 0
         \/ (v.at.kcol * v.req.kernel_dilation + v.at.ocol - v.req.lpad) % 2 # 0

ExDims(r, skipped) ==
  <<Dim("ocol", IF skipped \/ r.trans_input_3120 THEN 1 ELSE IF r.input_dilated THEN 2 * DIM ELSE DIM, 0, r.ocols),
    Dim("orow", 1, 0, r.orows), Dim("b", IF r.trans_input_3120 THEN DIM ELSE 1, 0, r.batches),
    Dim("kch", DIM, 0, r.kchs), Dim("kcol", r.max_pixels_per_row, 0, r.kcols),
    Dim("krow", 1, 0, r.krows), Dim("och", DIM, 0, r.ochs)>>

\* Weights stay in the array from the first matmul that needs them to the last one.
AdvanceEx(v) ==
  LET dims == ExDims(v.req, skip_iteration)
      used == v.new_weights /\ skip_iteration
  IN  CASE v.state = "config" -> [v EXCEPT !.state = "pre"]
        [] v.state = "pre" -> [v EXCEPT !.state = "comp"]
        [] v.state = "comp" -> Swept([v EXCEPT !.state = "pre", !.new_weights = used \/ Moved(v.at, dims).wraps[3]],
                                     dims, "idle")

AdvanceSt(v) ==
  LET och == Dim("och", DIM, 0, v.req.ochs)
      b   == Dim("b", 1, 0, v.req.batches)
  IN  CASE v.state = "st" -> Swept(v, <<och, Dim("ocol", DIM, 0, v.req.ocols), Dim("orow", 1, 0, v.req.orows), b>>, "idle")
        [] v.state = "pre_pool_config" -> [v EXCEPT !.state = "pool"]
        [] v.state = "pool" -> Swept(v, <<och, b>>, "post_pool_config")
        [] v.state = "post_pool_config" -> [v EXCEPT !.state = "idle"]

Advance(u) ==
  LET v == unit[u]
  IN  CASE u = "ex" -> AdvanceEx(v)
        [] u = "st" -> AdvanceSt(v)
        [] u \in Loads /\ v.state = "config" -> [v EXCEPT !.state = "ld"]
        [] u = "ld_bias" /\ v.state = "ld" -> Swept(v, BiasDims(v.req), "idle")
        [] u = "ld_input" /\ v.state = "ld" -> Swept(v, InputDims(v.req, v.at), "idle")
        [] u = "ld_weights" /\ v.state = "ld" -> Swept(v, WeightsDims(v.req), "idle")

-------------------------------------------------------------------------------
(* Who may send a command into its pipeline, and whose command leaves         *)

\* u has left behind the loop that v works on
Past(u, v) == unit[u].req.loop # unit[v].req.loop \/ idle(u)

ex_is_waiting_for_loads ==
  LET l == loops[unit["ex"].req.loop]
  IN  "ex" \in l.started /\ "ex" \notin l.completed /\ ~(Loads \subseteq l.completed)

\* A mistaken variant: the loads ex waits for wait as well.
wait_for_prev_loop_AnyLoop(u) == ex_is_waiting_for_loads

wait_for_prev_loop(u) == ex_is_waiting_for_loads /\ unit[u].req.loop # unit["ex"].req.loop

in_valid(u) ==
  /\ unit[u].state # "idle"
  /\ ~skip(u)
  /\ u \in Loads => ~wait_for_prev_loop(u)
  /\ u = "ex" => ~skip_iteration /\ \A ld \in Loads : Past(ld, "ex")
  /\ u = "st" => Past("ex", "st")

Class(u) == IF u \in Loads THEN "ld" ELSE u
Entries(c) == CASE c = "ld" -> MaxLds [] c = "ex" -> MaxExs [] c = "st" -> MaxSts

rob_overloaded(u) == util[Class(u)] >= Entries(Class(u))

cmd_valid(u) == unit[u].pipe[2] # NoCmd /\ ~rob_overloaded(u)

\* the arbiter: the first valid command wins
chosen ==
  LET order == <<"st", "ex", "ld_bias", "ld_weights", "ld_input">>
      ready == {n \in DOMAIN order : cmd_valid(order[n])}
  IN  IF ready = {} THEN "none" ELSE order[Min(ready)]

\* A stage of the pipeline stalls when the one ahead of it does.
Stalls(u, stage, fired) ==
  LET last == unit[u].pipe[2] # NoCmd /\ u # fired
  IN  IF stage = 2 THEN last ELSE unit[u].pipe[1] # NoCmd /\ last

in_fire(u, fired) == in_valid(u) /\ ~Stalls(u, 1, fired)

NextPipe(u, fired) ==
  LET pipe == unit[u].pipe
  IN  <<IF Stalls(u, 1, fired) THEN pipe[1] ELSE IF in_valid(u) THEN Command(u) ELSE NoCmd,
        IF Stalls(u, 2, fired) THEN pipe[2] ELSE pipe[1]>>

NextUnit(u, fired) ==
  LET Piped(v) == [v EXCEPT !.pipe = NextPipe(u, fired)]
  IN  Piped(CASE req_fire(u) -> Started(u, Request(u))
              [] ~req_fire(u) /\ skip(u) -> [unit[u] EXCEPT !.state = "idle"]
              [] ~req_fire(u) /\ ~skip(u) /\ (in_fire(u, fired) \/ (u = "ex" /\ skip_iteration)) -> Advance(u)
              [] OTHER -> unit[u])

-------------------------------------------------------------------------------
(* One clock cycle                                                            *)

\* CONFIG_1 to CONFIG_6 are 1 to 6, LOOP_CONV_WS is 7; all other commands pass through.
OTHER_CMD == 0
is_loop_cmd == Cmd.funct # OTHER_CMD

\* A mistaken variant: other commands do not wait for the loops.
cmd_fires_Unordered(ready) ==
  /\ queued > 0
  /\ IF is_loop_cmd THEN ~loops[loop_being_configured_id].configured ELSE ready

\* cmd.ready, with a command at the head of the queue
cmd_fires(ready) ==
  /\ queued > 0
  /\ IF is_loop_cmd THEN ~loops[loop_being_configured_id].configured
     ELSE ~loop_configured /\ ready

\* A mistaken variant: completion without a look at whether the unit was started.
completes_Unstarted(u) == idle(u) /\ loops[unit[u].req.loop].running

completes(u) == LET l == loops[unit[u].req.loop] IN idle(u) /\ l.running /\ u \in l.started

head_ends == loops[head].running /\ loops[head].completed = Units

NextLoop(x, cmdfire) ==
  LET l    == loops[x]
      new  == {u \in Units : req_fire(u) /\ loop_requesting(u) = x}
      over == {u \in Units : completes(u) /\ unit[u].req.loop = x}
  IN  IF x = head /\ head_ends THEN ResetLoop(l)
      ELSE IF cmdfire /\ is_loop_cmd /\ x = loop_being_configured_id
      THEN [l EXCEPT !.config[Cmd.funct] = Cmd.n, !.configured = Cmd.funct = 7]
      ELSE [l EXCEPT !.running = @ \/ new # {}, !.started = @ \cup new, !.completed = @ \cup over]

\* The half of the accumulator changes with every loop that moves its outputs out.
NextStart(u) ==
  IF req_fire(u) /\ Request(u).output # 0 THEN (start[u] + AccHalf) % (2 * AccHalf) ELSE start[u]

\* what a command does; repeated pixels that would leave the half of the scratchpad are dropped
\* (PixelRepeater.scala)
Effect(c) ==
  LET InHalf(h) == IF c.op = "mvin" /\ ~c.addr.acc /\ c.addr.row >= SpHalf
                   THEN [h EXCEPT !.spad = [x \in DOMAIN @ |-> IF x[1] < SpHalf THEN g.spad[x] ELSE @[x]]]
                   ELSE h
  IN  InHalf(Execute(g, IF c.op = "config_st" /\ c.scale = NO_CHANGE THEN [c EXCEPT !.scale = g.store.scale] ELSE c))

\* The core holds a command back while the queue is full.
can_arrive == queued < 2 /\ taken + queued < Len(prog.stream)

\* The reservation station completes one command per cycle through its completion
\* port, of whatever class, and one store configuration when it is issued.
Completions == {f \in [{"ld", "ex", "st"} -> 0 .. 2] :
                  /\ f["ld"] + f["ex"] <= 1
                  /\ f["st"] + f["ld"] + f["ex"] <= 2}

\* The unroller, with ready for io.out.ready
Clock(ready, fired) ==
  LET cmdfire == cmd_fires(ready)
  IN  /\ taken' = taken + IF cmdfire THEN 1 ELSE 0
      /\ loops' = [x \in LoopIds |-> NextLoop(x, cmdfire)]
      /\ head' = IF head_ends THEN tail ELSE head
      /\ unit' = [u \in Units |-> NextUnit(u, fired)]
      /\ start' = [u \in DOMAIN start |-> NextStart(u)]
      /\ done' = done + IF head_ends THEN 1 ELSE 0

\* What it counts: a command may enter the queue, and the reservation station reports the
\* commands it has finished, by class.
Count(ready, fired, arrive, finished) ==
  LET counts(c) == IF fired # "none" /\ Class(fired) = c THEN 1 ELSE 0
  IN  /\ arrive => can_arrive
      /\ \A c \in DOMAIN sent : finished[c] <= sent[c]
      /\ queued' = queued + (IF arrive THEN 1 ELSE 0) - (IF cmd_fires(ready) THEN 1 ELSE 0)
      /\ util' = [c \in DOMAIN util |-> util[c] + counts(c) - finished[c]]
      /\ sent' = [c \in DOMAIN sent |-> sent[c] + (IF loop_configured THEN counts(c) ELSE 0) - finished[c]]

\* What it sends to the reservation station
Emit(ready, fired) ==
  LET cmds == IF fired # "none" /\ loop_configured THEN {unit[fired].pipe[2]}
              ELSE IF cmd_fires(ready) /\ ~is_loop_cmd THEN {prog.others[Cmd.n]} ELSE {}
  IN  IF cmds = {} THEN UNCHANGED g ELSE \E c \in cmds : g' = Effect(c)

Fired(ready) == IF ready THEN chosen ELSE "none"

Cycle ==
  \E ready \in BOOLEAN : \E fired \in {Fired(ready)} :
    /\ Clock(ready, fired)
    /\ Emit(ready, fired)
    /\ \E arrive \in BOOLEAN, finished \in Completions : Count(ready, fired, arrive, finished)
    /\ UNCHANGED <<prog, simulated>>

\* the program on the functional simulator, and the cells stored by its first n loops
Simulated(p) ==
  LET after[n \in 0 .. Len(p.stream)] ==
        IF n = 0 THEN Reset
        ELSE LET cmd == p.stream[n]
             IN  CASE cmd.funct = OTHER_CMD -> Execute(after[n - 1], p.others[cmd.n])
                   [] cmd.funct = 7 -> LoopConvWs(after[n - 1], p.calls[cmd.n])
                   [] OTHER -> after[n - 1]
      loop(n) == CHOOSE k \in DOMAIN p.stream : p.stream[k] = [funct |-> 7, n |-> n]
      Outcome(hist) ==
        LET end == hist[Len(p.stream)]
        IN  [dram |-> end.dram, reads |-> end.reads, fault |-> end.fault,
             stored |-> [n \in 0 .. Len(p.calls) |-> IF n = 0 THEN {} ELSE DOMAIN hist[loop(n)].dram]]
  IN  Outcome(after)

Init ==
  /\ prog \in Programs
  /\ taken = 0 /\ queued = 0
  /\ loops = [x \in LoopIds |-> NewLoop]
  /\ head = 0
  /\ unit = [u \in Units |-> [state |-> "idle", pipe |-> <<NoCmd, NoCmd>>, at |-> Zeros, new_weights |-> FALSE,
                              req |-> [loop |-> 0, input |-> 1, weights |-> 1, bias |-> 1, output |-> 1]]]
  /\ start = [u \in {"ld_bias", "ex", "st"} |-> 0]
  /\ util = [c \in {"ld", "ex", "st"} |-> 0]
  /\ sent = util
  /\ g = Reset
  /\ done = 0
  /\ simulated = Simulated(prog)

Idle == /\ taken = Len(prog.stream)
        /\ ~loop_configured
        /\ \A c \in DOMAIN sent : sent[c] = 0

\* The program has ended and the unroller rests.
Finished == Idle /\ UNCHANGED vars

Next == Cycle \/ Finished

Spec == Init /\ [][Next]_vars

\* Fairness: the clock ticks while that changes anything, the reservation station keeps
\* accepting what is offered and completing what it has, the core keeps sending its commands.
Stirring == \/ head_ends
            \/ cmd_fires(FALSE)
            \/ \E u \in Units : NextUnit(u, "none") # unit[u]
            \/ \E x \in LoopIds : NextLoop(x, FALSE) # loops[x]

Offering == IF loop_configured THEN chosen # "none" ELSE queued > 0 /\ ~is_loop_cmd
Accepts  == IF loop_configured THEN chosen # "none" /\ unit[chosen].pipe[2] # unit'[chosen].pipe[2]
            ELSE taken' # taken

Arrives == taken' + queued' > taken + queued

Retires(c) == sent'[c] < sent[c] + IF loop_configured /\ Accepts /\ Class(chosen) = c THEN 1 ELSE 0

Fairness == /\ []<>(~Stirring) \/ []<><<TRUE>>_<<unit, loops, taken>>
            /\ []<>(~Offering) \/ []<><<Accepts>>_<<unit, taken>>
            /\ []<>(~can_arrive) \/ []<><<Arrives>>_vars
            /\ \A c \in {"ld", "ex", "st"} : []<>(sent[c] = 0) \/ []<><<Retires(c)>>_vars

FairSpec == Spec /\ Fairness

-------------------------------------------------------------------------------
(* Properties                                                                 *)

LoopType == [config : [1..7 -> 0 .. Len(prog.calls)], configured : BOOLEAN, running : BOOLEAN,
             started : SUBSET Units, completed : SUBSET Units]

\* The registers of the unroller have their types; a unit's iterators stay within the bounds
\* of the loop it works on.
TypeOK ==
  /\ taken \in 0 .. Len(prog.stream) /\ queued \in 0..2 /\ head \in LoopIds
  /\ loops \in [LoopIds -> LoopType]
  /\ start \in [{"ld_bias", "ex", "st"} -> {0, AccHalf}]
  /\ done \in 0 .. Len(prog.calls)
  /\ \A u \in Units : unit[u].state # "idle" =>
       LET r == unit[u].req
           i == unit[u].at
       IN  /\ i.b < r.batches /\ i.orow < r.orows /\ i.ocol < r.ocols /\ i.och < r.ochs
           /\ i.krow < r.krows /\ i.kcol < r.kcols /\ i.kch < r.kchs /\ i.ich < r.ichs
           /\ u = "ld_input" => /\ i.irow \in -r.upad .. r.irows - 1
                                /\ i.icol \in -r.lpad .. r.icols - 1

\* Whatever the stores that LoopConv has emitted leave in main memory, when the stream it
\* emits is executed in order, is what loop_conv_ws of the functional simulator stores there:
\* the next loop, which runs ahead, never loads over what the current one still uses.
StoredAsSimulated ==
  /\ ~g.fault
  /\ DOMAIN g.dram \subseteq DOMAIN simulated.dram
  /\ \A a \in DOMAIN g.dram : g.dram[a] = simulated.dram[a]

\* A loop whose slot is given up (all_completed of the head) has emitted every store of it.
LoopsStoreAll == simulated.stored[done] \subseteq DOMAIN g.dram

\* The iterators stay inside their tile, and the loads they make (LoopConvLdInput, LdWeight,
\* LdBias) read nothing of main memory that the simulator's loop_conv_ws does not read, and all
\* of it: padding, strides and dilation leave out the same pixels in both.
ReadsAsSimulated ==
  /\ TypeOK
  /\ g.reads \subseteq simulated.reads
  /\ Idle => g.reads = simulated.reads

\* A command that is not of a loop passes only when every loop before it is complete and no
\* command of theirs is left in a pipeline, so it takes effect between them and the loops after.
PassesAlone ==
  [][(taken' # taken /\ ~is_loop_cmd) =>
       /\ done = Cardinality({k \in 1 .. taken : prog.stream[k].funct = 7})
       /\ \A u \in Units : unit[u].pipe = <<NoCmd, NoCmd>>]_vars

\* Every program ends, with every loop completed and every command retired.
EventuallyIdle == <>[](Idle /\ done = Len(prog.calls))

===============================================================================
