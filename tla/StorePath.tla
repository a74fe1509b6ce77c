------------------------------ MODULE StorePath ------------------------------
(***************************************************************************)
(* A mvout from the store controller to main memory: the controller        *)
(* (StoreController.scala) cuts it into rows, the blocks of rows or the    *)
(* rows of pooling windows, and opens an account of rows in the command    *)
(* tracker; the request of a row waits in write_dispatch_q until its bank  *)
(* is read, which is when the row is reported, and follows the data        *)
(* through write_norm_q, write_scale_q and write_issue_q                   *)
(* (Scratchpad.scala); rows of the accumulator pass the normaliser and the *)
(* scaling unit (AccumulatorScale.scala) on the way to the write DMA       *)
(* (module StreamWriter).                                                  *)
(*                                                                         *)
(* Queues of requests and queues of data are separate, as in the code: a   *)
(* request finds its data by being at the head when the data is.           *)
(* Activations and scales are kept as names.                               *)
(***************************************************************************)
EXTENDS StreamWriter, Normalizer

CONSTANTS Programs,     \* sequences of config_st, config_norm, mvout and flush commands
          BlockRows,    \* block_rows
          SpBanks, SpBankRows, AccBanks, AccBankRows,
          DispatchDepth, NormDepth, ScaleDepth, IssueDepth, \* entries of the request queues
          PipeDepth,    \* rows a bank holds that were read for the DMA
          AccScaleDepth,\* rows in the scaling unit
          StoresAtOnce  \* accounts the reservation station lets be open: 1

NCmds == NXacts \div BlockRows + 1
CmdIds == 0..NCmds-1

ASSUME StoreAssumption ==
  /\ {BlockRows, SpBanks, SpBankRows, AccBanks, AccBankRows} \subseteq PowersOfTwo
  /\ {DispatchDepth, NormDepth, ScaleDepth, IssueDepth, PipeDepth, AccScaleDepth}
        \subseteq Nat \ {0}
  /\ StoresAtOnce \in 1..NCmds

VARIABLES prog,     \* the program
          expected, \* what each of its commands is to write, for the properties
          pc,       \* commands the controller is done with
          control_state, cmd_id,
          conf,     \* stride, activation, acc_scale, norm_stats_id and pool_* registers
          counters, \* row_counter, block_counter, porow, pocol, wrow and wcol counters
          cmds,     \* DMACommandTracker: the valid entries
          write_dispatch_q, write_norm_q, write_scale_q, write_issue_q,
          read_resp,     \* rows read from each bank for the DMA
          acc_scale_unit \* rows in the scaling unit

controlVars == <<pc, control_state, cmd_id, conf, counters>>
queueVars   == <<write_dispatch_q, write_norm_q, write_scale_q, write_issue_q>>
vars == <<writerVars, normVars, prog, expected, controlVars, cmds, queueVars, read_resp,
          acc_scale_unit>>

-----------------------------------------------------------------------------
(* StoreController *)

cmd == prog[pc + 1]

pooling_is_enabled == conf.pool_stride # 0
mvout_1d_enabled   == conf.pool_size # 0 /\ ~ pooling_is_enabled

blocks == (cmd.cols \div BlockCols) + (IF cmd.cols % BlockCols # 0 THEN 1 ELSE 0)
mvout_1d_rows   == conf.orows * conf.ocols
pool_total_rows == conf.porows * conf.pocols * conf.pool_size * conf.pool_size

last_block == counters.block = blocks - 1
last_in_window == counters.wrow = conf.pool_size - 1 /\ counters.wcol = conf.pool_size - 1

orow == counters.porow * conf.pool_stride + counters.wrow - conf.upad
ocol == counters.pocol * conf.pool_stride + counters.wcol - conf.lpad

\* pool_row_addr is garbage
in_padding == orow < 0 \/ ocol < 0 \/ orow >= conf.orows \/ ocol >= conf.ocols

current_vaddr == cmd.vaddr + counters.row * conf.stride
pool_vaddr == cmd.vaddr + (counters.porow * conf.out_dim + counters.pocol) * conf.stride

\* io.dma.req.bits
RowRequest(id) ==
  [vaddr |-> IF pooling_is_enabled \/ mvout_1d_enabled THEN pool_vaddr ELSE current_vaddr,
   garbage |-> cmd.garbage \/ (pooling_is_enabled /\ in_padding),
   at |-> <<cmd.is_acc, cmd.row + (IF pooling_is_enabled THEN orow * conf.ocols + ocol
                                   ELSE counters.block * BlockRows + counters.row)>>,
   full |-> cmd.full,
   norm_cmd |-> IF last_block THEN cmd.norm_cmd ELSE non_reset_version(cmd.norm_cmd),
   stats_id |-> conf.norm_stats_id, act |-> conf.activation, scale |-> conf.acc_scale,
   len |-> IF last_block THEN ((cmd.cols - 1) % BlockCols) + 1 ELSE BlockCols,
   block |-> counters.block, cmd_id |-> id,
   pool_en |-> pooling_is_enabled /\ (counters.wrow # 0 \/ counters.wcol # 0),
   store_en |-> IF pooling_is_enabled THEN last_in_window ELSE last_block]

\* fault: the rows of a blocked store are counted once
rows_to_read_Unblocked ==
  IF pooling_is_enabled THEN pool_total_rows
  ELSE IF mvout_1d_enabled THEN mvout_1d_rows ELSE cmd.rows
\* cmd_tracker.io.alloc.bits.bytes_to_read
rows_to_read ==
  IF pooling_is_enabled THEN pool_total_rows
  ELSE IF mvout_1d_enabled THEN mvout_1d_rows ELSE cmd.rows * blocks

\* wrappingAdd(c, 1, n, en)
Wrap(c, n, en) == IF en THEN (c + 1) % n ELSE c

\* the counters after io.dma.req.fire
next_counters ==
  IF pooling_is_enabled
  THEN LET n == conf.pool_size
           row_done == last_in_window /\ counters.pocol = conf.pocols - 1
       IN  [counters EXCEPT
              !.wcol = Wrap(@, n, TRUE), !.wrow = Wrap(@, n, counters.wcol = n - 1),
              !.pocol = Wrap(@, conf.pocols, last_in_window),
              !.porow = Wrap(@, conf.porows, row_done)]
  ELSE [counters EXCEPT
          !.pocol = Wrap(@, conf.ocols, mvout_1d_enabled),
          !.porow = Wrap(@, conf.orows, mvout_1d_enabled /\ counters.pocol = conf.ocols - 1),
          !.block = Wrap(@, blocks, TRUE),
          !.row = IF mvout_1d_enabled THEN Wrap(@, mvout_1d_rows, TRUE)
                  ELSE Wrap(@, cmd.rows, last_block)]

dma_req_ready == Len(write_dispatch_q) < DispatchDepth

\* io.dma.req.fire
SendRow(id) ==
  /\ dma_req_ready
  /\ counters' = next_counters
  /\ write_dispatch_q' = Append(write_dispatch_q, RowRequest(id))

HoldRow == ~ dma_req_ready /\ UNCHANGED <<counters, write_dispatch_q>>

sending_state == IF pooling_is_enabled THEN "pooling" ELSE "sending_rows"

\* The station hands over the next command.
Arrives(op) ==
  /\ pc < Len(prog) /\ cmd.op = op
  /\ control_state = "waiting_for_command"
  /\ Cardinality(DOMAIN cmds) < StoresAtOnce

outsideController == <<writerVars, normVars, prog, expected, write_norm_q, write_scale_q,
                       write_issue_q, read_resp, acc_scale_unit>>

\* config_acc_scale is all ones
KeepScale == 0

\* the registers after config_st
NewConf(c) ==
  LET always == {"stride", "activation", "pool_size", "pool_stride"}
      scale  == IF c.acc_scale = KeepScale THEN {} ELSE {"acc_scale"}
      pool   == IF c.pool_stride # 0
                THEN {"out_dim", "porows", "pocols", "orows", "ocols", "upad", "lpad"}
                ELSE IF c.pool_size # 0 THEN {"orows", "ocols", "out_dim"} ELSE {}
  IN  [f \in DOMAIN conf |-> IF f \in always \cup scale \cup pool THEN c[f] ELSE conf[f]]

Config ==
  /\ Arrives("config_st")
  /\ conf' = NewConf(cmd)
  /\ pc' = pc + 1
  /\ UNCHANGED <<outsideController, control_state, cmd_id, counters, cmds, write_dispatch_q>>

ConfigNorm ==
  /\ Arrives("config_norm")
  /\ conf' = [conf EXCEPT !.norm_stats_id = cmd.stats_id,
       !.activation = IF cmd.set_stats_id_only THEN @ ELSE 4 * cmd.act_msb + (@ % 4)]
  /\ pc' = pc + 1
  /\ UNCHANGED <<outsideController, control_state, cmd_id, counters, cmds, write_dispatch_q>>

next_empty_alloc == Min(CmdIds \ DOMAIN cmds)

\* A mvout opens its account and tries to send its first row in the same cycle.
Alloc ==
  /\ Arrives("mvout")
  /\ DOMAIN cmds # CmdIds
  /\ cmd_id' = next_empty_alloc
  /\ cmds' = [i \in DOMAIN cmds \cup {next_empty_alloc} |->
                IF i = next_empty_alloc THEN rows_to_read ELSE cmds[i]]
  /\ \/ SendRow(next_empty_alloc) /\ control_state' = sending_state
     \/ HoldRow /\ control_state' = "waiting_for_dma_req_ready"
  /\ UNCHANGED <<outsideController, pc, conf>>

FirstRow ==
  /\ control_state = "waiting_for_dma_req_ready"
  /\ SendRow(cmd_id)
  /\ control_state' = sending_state
  /\ UNCHANGED <<outsideController, pc, cmd_id, conf, cmds>>

\* The counters of this state are back at zero.
AtStart ==
  LET used == IF control_state = "pooling" THEN {"porow", "pocol", "wrow", "wcol"}
              ELSE {"row", "block"}
  IN  \A f \in used : counters[f] = 0

\* the condition of sending_rows or pooling under which the row sent is the last
last_row ==
  IF pooling_is_enabled
  THEN last_in_window /\ counters.pocol = conf.pocols - 1 /\ counters.porow = conf.porows - 1
  ELSE last_block /\ counters.row = (IF mvout_1d_enabled THEN mvout_1d_rows ELSE cmd.rows) - 1

\* sending_rows and pooling: the command leaves with its last row, a single row
\* a cycle later
NextRow ==
  /\ control_state \in {"sending_rows", "pooling"}
  /\ \/ /\ AtStart
        /\ control_state' = "waiting_for_command" /\ pc' = pc + 1
        /\ UNCHANGED <<counters, write_dispatch_q>>
     \/ /\ ~ AtStart
        /\ SendRow(cmd_id)
        /\ control_state' = IF last_row THEN "waiting_for_command" ELSE control_state
        /\ pc' = IF last_row THEN pc + 1 ELSE pc
  /\ UNCHANGED <<outsideController, cmd_id, conf, cmds>>

cmd_completed == {i \in DOMAIN cmds : cmds[i] = 0}

Complete ==
  /\ cmd_completed # {}
  /\ cmds' = Restrict(cmds, DOMAIN cmds \ {Min(cmd_completed)})
  /\ UNCHANGED <<outsideController, controlVars, write_dispatch_q>>

-----------------------------------------------------------------------------
(* Scratchpad *)

Banks == ({FALSE} \X (0..SpBanks-1)) \cup ({TRUE} \X (0..AccBanks-1))

bank(at) == <<at[1], at[2] \div (IF at[1] THEN AccBankRows ELSE SpBankRows)>>

outsideQueues == <<prog, expected, controlVars>>

\* io.dma.write.resp, into the tracker
Returned(id) == [cmds EXCEPT ![id] = @ - 1]

\* The row at the head of write_dispatch_q is read from its bank; garbage is
\* not read.  The execute controller may keep the bank busy.
Dispatch ==
  /\ write_dispatch_q # <<>> /\ Len(write_norm_q) < NormDepth
  /\ LET r == Head(write_dispatch_q)
         b == bank(r.at)
     IN  /\ \/ r.garbage /\ UNCHANGED read_resp
            \/ /\ ~ r.garbage /\ Len(read_resp[b]) < PipeDepth
               /\ read_resp' = [read_resp EXCEPT ![b] =
                    Append(@, [at |-> r.at, full |-> r.full, act |-> r.act, scale |-> r.scale])]
         /\ write_norm_q' = Append(write_norm_q, r)
         /\ cmds' = Returned(r.cmd_id)
  /\ write_dispatch_q' = Tail(write_dispatch_q)
  /\ UNCHANGED <<writerVars, normVars, outsideQueues, write_scale_q, write_issue_q, acc_scale_unit>>

\* The request goes round the normaliser and the scaling unit.
Bypasses(r) == r.garbage \/ ~ r.at[1]

BypassNorm ==
  /\ write_norm_q # <<>> /\ Bypasses(Head(write_norm_q)) /\ Len(write_scale_q) < ScaleDepth
  /\ write_scale_q' = Append(write_scale_q, Head(write_norm_q))
  /\ write_norm_q' = Tail(write_norm_q)
  /\ UNCHANGED <<writerVars, normVars, outsideQueues, cmds, write_dispatch_q, write_issue_q,
                 read_resp, acc_scale_unit>>

\* A row of the accumulator enters the normaliser; its request goes on only if
\* the row will come out.
Normalize ==
  /\ write_norm_q # <<>> /\ ~ Bypasses(Head(write_norm_q)) /\ Len(write_scale_q) < ScaleDepth
  /\ LET r == Head(write_norm_q)
         b == bank(r.at)
         row == Head(read_resp[b])
     IN  /\ read_resp[b] # <<>>
         /\ NormIn([at |-> row.at, full |-> row.full, act |-> row.act, scale |-> row.scale,
                    norm_cmd |-> r.norm_cmd, stats_id |-> r.stats_id])
         /\ read_resp' = [read_resp EXCEPT ![b] = Tail(@)]
         /\ write_scale_q' = IF writes_to_main_memory(r.norm_cmd) THEN Append(write_scale_q, r)
                             ELSE write_scale_q
  /\ write_norm_q' = Tail(write_norm_q)
  /\ UNCHANGED <<writerVars, outsideQueues, cmds, write_dispatch_q, write_issue_q, acc_scale_unit>>

NormalizerStep ==
  /\ NormStep
  /\ UNCHANGED <<writerVars, outsideQueues, cmds, queueVars, read_resp, acc_scale_unit>>

BypassScale ==
  /\ write_scale_q # <<>> /\ Bypasses(Head(write_scale_q)) /\ Len(write_issue_q) < IssueDepth
  /\ write_issue_q' = Append(write_issue_q, Head(write_scale_q))
  /\ write_scale_q' = Tail(write_scale_q)
  /\ UNCHANGED <<writerVars, normVars, outsideQueues, cmds, write_dispatch_q, write_norm_q,
                 read_resp, acc_scale_unit>>

\* A row leaves the normaliser for the scaling unit, and the request at the
\* head of write_scale_q moves on with it.
Scale(id) ==
  /\ write_scale_q # <<>> /\ ~ Bypasses(Head(write_scale_q)) /\ Len(write_issue_q) < IssueDepth
  /\ Len(acc_scale_unit) < AccScaleDepth
  /\ NormOut(id)
  /\ acc_scale_unit' = Append(acc_scale_unit, norm_out(id))
  /\ write_issue_q' = Append(write_issue_q, Head(write_scale_q))
  /\ write_scale_q' = Tail(write_scale_q)
  /\ UNCHANGED <<writerVars, outsideQueues, cmds, write_dispatch_q, write_norm_q, read_resp>>

\* Bytes of a row: full rows and rows of the scratchpad are as they were read,
\* the others scaled, with their activation and its statistics.
RowBytes(at, full, by) ==
  [i \in 0..dataBytes-1 |->
     IF i < (IF full THEN accRowBytes ELSE inputTypeRowBytes) THEN {<<at, i, by>>} ELSE Zero]

AccRowBytes(o) ==
  RowBytes(o.row.at, o.row.full,
           IF o.row.full THEN <<>> ELSE <<o.row.act, o.row.scale, o.stats>>)

\* writer.module.io.req.bits
WriteRequest(r, bytes) ==
  [vaddr |-> r.vaddr, data |-> bytes, block |-> r.block,
   len |-> r.len * (IF ~ r.garbage /\ r.at[1] /\ r.full THEN AccBytes ELSE InputBytes),
   pool_en |-> r.pool_en, store_en |-> r.store_en]

\* The request at the head of write_issue_q meets its data and goes to the DMA.
Issue ==
  /\ write_issue_q # <<>>
  /\ LET r == Head(write_issue_q)
         b == bank(r.at)
     IN  \/ /\ r.garbage
            /\ AcceptWrite(WriteRequest(r, [i \in 0..dataBytes-1 |-> Zero]))
            /\ UNCHANGED <<read_resp, acc_scale_unit>>
         \/ /\ ~ r.garbage /\ ~ r.at[1] /\ read_resp[b] # <<>>
            /\ AcceptWrite(WriteRequest(r, RowBytes(Head(read_resp[b]).at, FALSE, <<>>)))
            /\ read_resp' = [read_resp EXCEPT ![b] = Tail(@)]
            /\ UNCHANGED acc_scale_unit
         \/ /\ ~ r.garbage /\ r.at[1] /\ acc_scale_unit # <<>>
            /\ AcceptWrite(WriteRequest(r, AccRowBytes(Head(acc_scale_unit))))
            /\ acc_scale_unit' = Tail(acc_scale_unit)
            /\ UNCHANGED read_resp
  /\ write_issue_q' = Tail(write_issue_q)
  /\ UNCHANGED <<normVars, outsideQueues, cmds, write_dispatch_q, write_norm_q, write_scale_q>>

outsideWriter == <<normVars, outsideQueues, cmds, queueVars, read_resp, acc_scale_unit>>

\* One cycle of the DMA's pipeline; the TLB may miss, TileLink may wait.
TranslateWrite ==
  /\ \E hit, a_ready \in BOOLEAN : WriterCycle(hit, a_ready)
  /\ UNCHANGED outsideWriter

ReceiveAck ==
  /\ \E s \in XactIds : Acknowledge(s)
  /\ UNCHANGED outsideWriter

spad_busy == \/ writer_busy \/ write_issue_q # <<>> \/ write_norm_q # <<>> \/ write_scale_q # <<>>
             \/ write_dispatch_q # <<>>

\* io.busy, which a fence waits for: an unfinished command is in the station
busy == cmds # <<>> \/ control_state # "waiting_for_command" \/ spad_busy

\* Software waits for a fence, changes the page table and flushes.
Flush ==
  /\ Arrives("flush") /\ ~ busy
  /\ FlushTLB
  /\ pc' = pc + 1
  /\ UNCHANGED <<dmaVars, normVars, prog, expected, control_state, cmd_id, conf, counters, cmds,
                 queueVars, read_resp, acc_scale_unit>>

-----------------------------------------------------------------------------
(* What a program is to store *)

Stores(p) == {i \in DOMAIN p : p[i].op = "mvout"}

\* the last config_st before command i that satisfies Sets
LastConfig(p, i, Sets(_)) ==
  p[Max({j \in 1..i-1 : p[j].op = "config_st" /\ Sets(p[j])})]

ConfigOf(p, i) == LastConfig(p, i, LAMBDA c : TRUE)
WindowOf(p, i) == LastConfig(p, i, LAMBDA c : c.pool_stride # 0 \/ c.pool_size # 0)
ScaleOf(p, i)  == LastConfig(p, i, LAMBDA c : c.acc_scale # KeepScale).acc_scale

\* config_norm commands before i, after j
NormConfigs(p, i, j) == {k \in j+1..i-1 : p[k].op = "config_norm"}

ActivationOf(p, i) ==
  LET last == Max({j \in 1..i-1 : p[j].op = "config_st"})
      msbs == {k \in NormConfigs(p, i, last) : ~ p[k].set_stats_id_only}
  IN  p[last].activation + (IF msbs = {} THEN 0 ELSE 4 * p[Max(msbs)].act_msb)

StatsOf(p, i) ==
  LET ks == NormConfigs(p, i, 0) IN IF ks = {} THEN 0 ELSE p[Max(ks)].stats_id

\* The passes over the accumulator that belong to the RESET store i: those of
\* its statistics since the RESET stores of the passes before.
PassesOf(p, i) ==
  LET mine == {j \in 1..i-1 : p[j].op = "mvout" /\ p[j].is_acc /\ StatsOf(p, j) = StatsOf(p, i)}
      earlier(j) == \E k, l \in mine : j < k /\ k < l /\ p[k].norm_cmd = "RESET"
                                       /\ p[l].norm_cmd # "RESET"
  IN  {j \in mine : p[j].norm_cmd # "RESET" /\ ~ earlier(j)}

BlocksOf(c) == (c.cols + BlockCols - 1) \div BlockCols

\* the rows of the accumulator that passes of these kinds visit
Visited(p, passes, kinds) ==
  UNION {{<<TRUE, p[j].row + b * BlockRows>> : b \in 0..BlocksOf(p[j])-1} :
           j \in {j \in passes : p[j].norm_cmd \in kinds}}

Terms(rows, about) == {[row |-> at, about |-> about] : at \in rows}

\* the statistics of RESET store i
StatisticsOf(p, i) ==
  LET passes == PassesOf(p, i)
      first  == Visited(p, passes, {"SUM", "MEAN"})
      second == Visited(p, passes, {"VARIANCE", "INV_STDDEV"})
      tops   == Visited(p, passes, {"MAX"})
      exps   == Visited(p, passes, {"SUM_EXP", "INV_SUM_EXP"})
      scale(kind) == ScaleOf(p, CHOOSE j \in passes : p[j].norm_cmd = kind)
      mean   == <<Terms(first, <<>>), first>>
  IN  CASE ActivationOf(p, i) = LAYERNORM ->
             <<mean, <<Terms(second, mean), second, scale("INV_STDDEV")>>>>
        [] ActivationOf(p, i) = SOFTMAX ->
             <<tops, <<Terms(exps, <<tops>>), scale("INV_SUM_EXP")>>>>
        [] OTHER -> <<>>

\* Byte b of the local row `row' as store i writes it
LocalByte(p, i, row, b) ==
  IF p[i].garbage THEN Zero
  ELSE {<<<<p[i].is_acc, row>>, b,
          IF p[i].is_acc /\ ~ p[i].full
          THEN <<ActivationOf(p, i), ScaleOf(p, i), StatisticsOf(p, i)>> ELSE <<>>>>}

\* A byte of the pooling window (pr, pc): the maximum over the rows in it
Pooled(p, i, pr, pcol, b) ==
  LET g == ConfigOf(p, i)
      r(k) == pr * g.pool_stride + k - g.upad
      c(k) == pcol * g.pool_stride + k - g.lpad
      outside(x, y) == x < 0 \/ y < 0 \/ x >= g.orows \/ y >= g.ocols
  IN  UNION {IF outside(r(x), c(y)) THEN Zero
             ELSE LocalByte(p, i, p[i].row + r(x) * g.ocols + c(y), b) :
               x, y \in 0..g.pool_size-1}

\* Store i as a set of pairs of an address and the byte that goes there.
Moves(p, i) ==
  LET c == p[i]
      g == ConfigOf(p, i)
      w == WindowOf(p, i)
      width == IF c.is_acc /\ c.full /\ ~ c.garbage THEN AccBytes ELSE InputBytes
      bytes == 0..(c.cols * width - 1)
      rowBytes == BlockCols * width
  IN  CASE ~ writes_to_main_memory(c.norm_cmd) -> {}
        [] writes_to_main_memory(c.norm_cmd) /\ g.pool_stride # 0 ->
             {<<c.vaddr + (x[1] * g.out_dim + x[2]) * g.stride + x[3],
                Pooled(p, i, x[1], x[2], x[3])>> :
                x \in (0..g.porows-1) \X (0..g.pocols-1) \X bytes}
        [] writes_to_main_memory(c.norm_cmd) /\ g.pool_stride = 0 /\ g.pool_size # 0 ->
             {<<c.vaddr + (x[1] * w.out_dim + x[2]) * g.stride + x[3],
                LocalByte(p, i, c.row + x[1] * w.ocols + x[2], x[3])>> :
                x \in (0..w.orows-1) \X (0..w.ocols-1) \X bytes}
        [] OTHER ->
             {<<c.vaddr + x[1] * g.stride + x[2],
                LocalByte(p, i, c.row + x[1] + BlockRows * (x[2] \div rowBytes), x[2] % rowBytes)>> :
                x \in (0..c.rows-1) \X bytes}

\* For each command the bytes it is to leave in main memory, under the page
\* table of its time.
Expected(p) ==
  [i \in DOMAIN p |->
     IF i \notin Stores(p) THEN {}
     ELSE LET table == Cardinality({j \in 1..i-1 : p[j].op = "flush"})
          IN  {<<<<table, m[1]>>, m[2]>> : m \in Moves(p, i)}]

-----------------------------------------------------------------------------

NoRow == [at |-> <<TRUE, 0>>, full |-> FALSE, act |-> 0, scale |-> KeepScale,
          norm_cmd |-> "RESET", stats_id |-> 0]

Init ==
  /\ WriterInit
  /\ NormInit(NoRow)
  /\ prog \in Programs /\ expected = Expected(prog)
  /\ pc = 0 /\ control_state = "waiting_for_command" /\ cmd_id = 0
  /\ conf = [stride |-> 0, activation |-> 0, acc_scale |-> KeepScale, norm_stats_id |-> 0,
             pool_size |-> 0, pool_stride |-> 0, out_dim |-> 0, porows |-> 0, pocols |-> 0,
             orows |-> 0, ocols |-> 0, upad |-> 0, lpad |-> 0]
  /\ counters = [row |-> 0, block |-> 0, porow |-> 0, pocol |-> 0, wrow |-> 0, wcol |-> 0]
  /\ cmds = <<>>
  /\ write_dispatch_q = <<>> /\ write_norm_q = <<>> /\ write_scale_q = <<>>
  /\ write_issue_q = <<>>
  /\ read_resp = [b \in Banks |-> <<>>] /\ acc_scale_unit = <<>>

Next ==
  \/ Config \/ ConfigNorm \/ Alloc \/ FirstRow \/ NextRow \/ Complete
  \/ Dispatch \/ BypassNorm \/ Normalize \/ NormalizerStep \/ BypassScale
  \/ \E id \in StatsIds : Scale(id)
  \/ Issue \/ TranslateWrite \/ ReceiveAck \/ Flush

Spec == Init /\ [][Next]_vars

\* A beat is before TileLink and its page is about to be known.
BeatReady == translate_q # <<>> /\ (tlb_request # <<>> \/ l0_answer # <<>>)

\* TileLink takes a beat.
BeatTaken == bursts' # bursts /\ mem' = mem

\* Some unit that can move does, and the TLB and TileLink let a beat through
\* again and again.
Fairness ==
  /\ WF_vars(Next)
  /\ <>[]~ BeatReady \/ []<><<BeatTaken>>_vars

FairSpec == Spec /\ Fairness

-----------------------------------------------------------------------------
(* Properties *)

\* Every register, counter and queue of the store path stays within its range
\* and depth.
TypeOK ==
  /\ pc \in 0..Len(prog) /\ cmd_id \in CmdIds
  /\ control_state \in {"waiting_for_command", "waiting_for_dma_req_ready", "sending_rows",
                        "pooling"}
  /\ counters.block < Max({maxBlocks, 1})
  /\ counters.wrow <= conf.pool_size /\ counters.wcol <= conf.pool_size
  /\ control_state = "waiting_for_command" => \A f \in DOMAIN counters : counters[f] = 0
  /\ DOMAIN cmds \subseteq CmdIds /\ \A i \in DOMAIN cmds : cmds[i] \in Nat
  /\ Len(write_dispatch_q) <= DispatchDepth /\ Len(write_norm_q) <= NormDepth
  /\ Len(write_scale_q) <= ScaleDepth /\ Len(write_issue_q) <= IssueDepth
  /\ \A b \in Banks : Len(read_resp[b]) <= PipeDepth
  /\ Len(acc_scale_unit) <= AccScaleDepth
  /\ \A id \in StatsIds : stats[id].state \in NormStates
  /\ writer.state \in {"s_idle", "s_writing_new_block", "s_writing_beats"}
  /\ writer.bytesSent \in 0..Max({dataBytes, MaxBytes})
  /\ xactBusy \subseteq XactIds

\* Whatever is in main memory was put there by the program: every byte that was
\* written belongs to a store that has begun, at its address under the page
\* table of its time, and is the byte that store is to write there.  It covers
\* what StoreController.scala and DMA.scala do to addresses, masks, blocks and
\* windows, the pairing of requests and rows in Scratchpad.scala, and the flush
\* of the filter register in FrontendTLB.scala.
WrittenAsStored ==
  \A a \in DOMAIN mem : \E i \in 1..Min({pc + 1, Len(prog)}) : <<a, mem[a]>> \in expected[i]


\* Rows of local memory that store i visits, padding included
RowsOf(p, i) ==
  LET g == ConfigOf(p, i)
      w == WindowOf(p, i)
  IN  CASE g.pool_stride # 0 -> g.porows * g.pocols * g.pool_size * g.pool_size
        [] g.pool_stride = 0 /\ g.pool_size # 0 -> w.orows * w.ocols
        [] OTHER -> p[i].rows * BlocksOf(p[i])

\* Rows the controller is still to send for account id
RowsToSend(id) ==
  IF control_state = "waiting_for_command" \/ cmd_id # id THEN 0
  ELSE IF control_state \in {"sending_rows", "pooling"} /\ AtStart THEN 0
  ELSE RowsOf(prog, pc + 1) -
    (IF pooling_is_enabled
     THEN counters.wcol + conf.pool_size * (counters.wrow + conf.pool_size *
            (counters.pocol + conf.pocols * counters.porow))
     ELSE IF mvout_1d_enabled THEN counters.row ELSE counters.block + blocks * counters.row)

\* The account of a store is the number of its rows that have not been read: a
\* store is complete, and its rows may be overwritten, exactly when the last of
\* its rows was read, for blocked, pooled and one-dimensional stores alike.  The
\* counters that walk over the rows stay in their ranges.
RowsAccounted ==
  /\ TypeOK
  /\ \A id \in CmdIds :
       (IF id \in DOMAIN cmds THEN cmds[id] ELSE 0) =
         RowsToSend(id) + Cardinality({k \in DOMAIN write_dispatch_q : write_dispatch_q[k].cmd_id = id})

QueuedBeats == Range(translate_q) \cup Range(shadow_retry_a)
                 \cup (IF tlb_q.valid THEN {tlb_q.bits} ELSE {})

\* An identifier is busy exactly while a beat of its burst is to be sent, waits
\* for its translation, or is not acknowledged: xactBusy never lets two bursts
\* share an identifier and never loses one.
XactsAccounted ==
  xactBusy = {b.source : b \in QueuedBeats} \cup DOMAIN bursts
               \cup (IF writer.state = "s_writing_beats" THEN {writer.source} ELSE {})


\* Every store of the program is eventually written, and the accelerator goes
\* idle.
EventuallyWritten == <>[](pc = Len(prog) /\ ~ busy)
==============================================================================
