------------------------------ MODULE LoadPath ------------------------------
(***************************************************************************)
(* A mvin from the load controller to the local memories: the controller   *)
(* (LoadController.scala) cuts it into rows and opens an account of bytes  *)
(* in the command tracker (DMACommandTracker.scala); rows are read by the  *)
(* DMA (module StreamReader) or, for address zero, made up by the zero     *)
(* writer (ZeroWriter.scala); they pass the scalers and the pixel repeater *)
(* and are written to the banks, in competition with the execute           *)
(* controller (Scratchpad.scala).  Each packet written reports its bytes;  *)
(* a command whose account is empty is completed.                          *)
(*                                                                         *)
(* Scaling changes values, not places, and is left out.  The commands of a *)
(* program reach the controller in order (module ReservationStation).      *)
(***************************************************************************)
EXTENDS StreamReader, Bags

CONSTANTS Programs,   \* sequences of config_mvin and mvin commands
          SpRows, SpBankRows, AccRows, AccBankRows, \* sizes of the memories
          IssueDepth, \* entries of read_issue_q, spad_read_delay + 1
          ScaleDepth  \* rows a scaler holds: its queue, register and pipeline

ASSUME MemoriesAssumption ==
  /\ {SpRows, SpBankRows, AccRows, AccBankRows} \subseteq PowersOfTwo
  /\ {IssueDepth, ScaleDepth} \subseteq Nat \ {0}

VARIABLES prog,          \* the program
          expected,      \* what it is to leave in the local memories, for the properties
          pc,            \* commands the controller has finished sending
          control_state, row_counter, cmd_id, \* registers of LoadController
          states,        \* strides, shrinks, block_strides, pixel_repeats
          cmds,          \* DMACommandTracker: the valid entries
          read_issue_q,
          zero_writer,   \* request and col_counter of ZeroWriter
          mvin_scale, mvin_scale_acc,    \* rows in the two scalers
          pixel_repeater, zero_repeater, \* registers of the two PixelRepeaters
          mem,           \* what was written to each byte of the local memories
          completed      \* commands reported to the reservation station

controlVars == <<pc, control_state, row_counter, cmd_id, states>>
scaleVars   == <<mvin_scale, mvin_scale_acc>>
repeatVars  == <<pixel_repeater, zero_repeater>>
vars == <<readerVars, prog, expected, controlVars, cmds, read_issue_q, zero_writer,
          scaleVars, repeatVars, mem, completed>>

NCmds == NXacts \div BlockRows + 1
CmdIds == 0..NCmds-1
States == 0..2

\* bytes_left has log2Up(maxBytesInMatRequest + 1) bits
BytesModulus == 2 * BlockRows * BufLen

-----------------------------------------------------------------------------
(* LoadController *)

cmd    == prog[pc + 1]
state  == states[cmd.state_id]
DoLoad == cmd.op = "mvin"

all_zeros == cmd.vaddr = 0
has_acc_bitwidth == cmd.is_acc /\ ~ state.shrink
RepeatsRow == state.stride = 0 /\ ~ all_zeros
actual_rows_read == IF RepeatsRow THEN 1 ELSE cmd.rows

bytes_to_read == cmd.cols * actual_rows_read * (IF has_acc_bitwidth THEN AccBytes ELSE InputBytes)

\* io.dma.req.bits
RowRequest(id) ==
  [vaddr |-> cmd.vaddr + row_counter * state.stride, spaddr |-> cmd.data + row_counter,
   is_acc |-> cmd.is_acc, accumulate |-> cmd.accumulate,
   has_acc_bitwidth |-> has_acc_bitwidth, len |-> cmd.cols,
   repeats |-> IF RepeatsRow THEN cmd.rows - 1 ELSE 0,
   pixel_repeats |-> state.pixel_repeat, block_stride |-> state.block_stride,
   cmd_id |-> id, bytesRequested |-> 0]

\* io.dma.req.ready
dma_req_ready == IF all_zeros THEN zero_writer = <<>> ELSE Len(read_issue_q) < IssueDepth

next_row == (row_counter + 1) % actual_rows_read

\* io.dma.req.fire, with the row counter's step
SendRow(id) ==
  /\ dma_req_ready
  /\ row_counter' = next_row
  /\ IF all_zeros
     THEN /\ zero_writer' = <<[req |-> RowRequest(id), col_counter |-> 0]>>
          /\ UNCHANGED read_issue_q
     ELSE /\ read_issue_q' = Append(read_issue_q, RowRequest(id))
          /\ UNCHANGED zero_writer

HoldRow == ~ dma_req_ready /\ UNCHANGED <<row_counter, read_issue_q, zero_writer>>

outsideController == <<readerVars, prog, expected, scaleVars, repeatVars, mem, completed>>

\* config_mvin
Config ==
  /\ pc < Len(prog)
  /\ control_state = "waiting_for_command"
  /\ ~ DoLoad
  /\ states' = [states EXCEPT ![cmd.state_id] =
       [stride |-> cmd.stride, shrink |-> cmd.shrink, block_stride |-> cmd.block_stride,
        pixel_repeat |-> IF cmd.pixel_repeat = 0 THEN 1 ELSE cmd.pixel_repeat]]
  /\ pc' = pc + 1
  /\ UNCHANGED <<outsideController, control_state, row_counter, cmd_id, cmds, read_issue_q,
                 zero_writer>>

next_empty_alloc == Min(CmdIds \ DOMAIN cmds)

\* A mvin opens its account and tries to send its first row in the same cycle.
Alloc ==
  /\ pc < Len(prog)
  /\ control_state = "waiting_for_command"
  /\ DoLoad
  /\ DOMAIN cmds # CmdIds
  /\ cmd_id' = next_empty_alloc
  /\ cmds' = [i \in DOMAIN cmds \cup {next_empty_alloc} |->
                IF i = next_empty_alloc THEN [tag |-> pc + 1, bytes_left |-> bytes_to_read]
                ELSE cmds[i]]
  /\ \/ SendRow(next_empty_alloc) /\ control_state' = "sending_rows"
     \/ HoldRow /\ control_state' = "waiting_for_dma_req_ready"
  /\ UNCHANGED <<outsideController, pc, states>>

FirstRow ==
  /\ control_state = "waiting_for_dma_req_ready"
  /\ SendRow(cmd_id)
  /\ control_state' = "sending_rows"
  /\ UNCHANGED <<outsideController, pc, cmd_id, states, cmds>>

\* sending_rows: the command leaves with its last row, a single row a cycle later
NextRow ==
  /\ control_state = "sending_rows"
  /\ \/ /\ row_counter = 0
        /\ control_state' = "waiting_for_command"
        /\ pc' = pc + 1
        /\ UNCHANGED <<row_counter, read_issue_q, zero_writer>>
     \/ /\ row_counter # 0
        /\ SendRow(cmd_id)
        /\ control_state' = IF row_counter = actual_rows_read - 1
                            THEN "waiting_for_command" ELSE control_state
        /\ pc' = IF row_counter = actual_rows_read - 1 THEN pc + 1 ELSE pc
  /\ UNCHANGED <<outsideController, cmd_id, states, cmds>>

\* io.cmd_completed, when the completion arbiter lets the load controller through
cmd_completed == {i \in DOMAIN cmds : cmds[i].bytes_left = 0}

Complete ==
  /\ cmd_completed # {}
  /\ completed' = completed \cup {cmds[Min(cmd_completed)].tag}
  /\ cmds' = Restrict(cmds, DOMAIN cmds \ {Min(cmd_completed)})
  /\ UNCHANGED <<readerVars, prog, expected, controlVars, read_issue_q, zero_writer,
                 scaleVars, repeatVars, mem>>

-----------------------------------------------------------------------------
(* Scalers and repeaters *)

\* read_issue_q hands a row to the DMA.
IssueRead ==
  /\ read_issue_q # <<>>
  /\ Accept(Head(read_issue_q))
  /\ read_issue_q' = Tail(read_issue_q)
  /\ UNCHANGED <<prog, expected, controlVars, cmds, zero_writer, scaleVars, repeatVars, mem,
                 completed>>

outsideReader == <<prog, expected, controlVars, cmds, read_issue_q, zero_writer, repeatVars, mem,
                   completed>>

\* One cycle of the DMA's request pipeline; the TLB may miss, TileLink may wait.
TranslateRead ==
  /\ \E miss, a_ready \in BOOLEAN : Translate(miss, a_ready)
  /\ UNCHANGED <<outsideReader, scaleVars>>

ReceiveBeat ==
  /\ \E q \in inflight : Beat(q)
  /\ UNCHANGED <<outsideReader, scaleVars>>

\* A row leaves the beat merger for the scaler of its width.
ScaleIn ==
  /\ Emit
  /\ LET row  == OutRow(merger[1])
         vrow == [tag |-> row.tag, addr |-> row.addr, bytes |-> row.bytes,
                  last |-> row.last, repeats |-> row.tag.repeats]
     IN  \/ /\ row.tag.is_acc /\ row.tag.has_acc_bitwidth
            /\ Len(mvin_scale_acc) < ScaleDepth
            /\ mvin_scale_acc' = Append(mvin_scale_acc, vrow)
            /\ UNCHANGED mvin_scale
         \/ /\ ~ (row.tag.is_acc /\ row.tag.has_acc_bitwidth)
            /\ Len(mvin_scale) < ScaleDepth
            /\ mvin_scale' = Append(mvin_scale, vrow)
            /\ UNCHANGED mvin_scale_acc
  /\ UNCHANGED outsideReader

\* What a scaler puts out for the row at its head, which it repeats from the
\* last local row down to the first.
Scaled(v) ==
  [is_acc |-> v.tag.is_acc, accumulate |-> v.tag.accumulate,
   addr |-> v.addr + v.repeats, bytes |-> v.bytes,
   last |-> v.last /\ v.repeats = 0,
   len |-> v.tag.len, pixel_repeats |-> v.tag.pixel_repeats,
   cmd_id |-> v.tag.cmd_id, bytes_read |-> v.tag.bytes_to_read]

\* the scaler after that
ScaledRest(q) ==
  IF q[1].repeats = 0 THEN Tail(q) ELSE [q EXCEPT ![1].repeats = @ - 1]

ScaleOut ==
  /\ mvin_scale # <<>>
  /\ pixel_repeater = <<>>
  /\ pixel_repeater' = <<[Scaled(mvin_scale[1]) EXCEPT !.pixel_repeats = @ - 1]>>
  /\ mvin_scale' = ScaledRest(mvin_scale)
  /\ UNCHANGED <<readerVars, prog, expected, controlVars, cmds, read_issue_q, zero_writer,
                 mvin_scale_acc, zero_repeater, mem, completed>>

\* zero_writer_bytes_read
zero_writer_bytes_read(r) == r.len * (IF r.is_acc THEN AccBytes ELSE InputBytes)

\* the source of a byte the zero writer makes up
Zero == 0

\* io.resp of the zero writer: one block of columns of a row
ZeroRow(z) ==
  LET cols == Min({BlockCols, z.req.len - z.col_counter})
  IN  [is_acc |-> z.req.is_acc, accumulate |-> z.req.accumulate,
       addr |-> z.req.spaddr + z.req.block_stride * (z.col_counter \div BlockCols),
       bytes |-> [i \in 0..(cols * InputBytes - 1) |-> Zero],
       last |-> z.col_counter + BlockCols >= z.req.len,
       len |-> z.req.len, pixel_repeats |-> z.req.pixel_repeats,
       cmd_id |-> z.req.cmd_id, bytes_read |-> zero_writer_bytes_read(z.req)]

WriteZeros ==
  /\ zero_writer # <<>>
  /\ zero_repeater = <<>>
  /\ LET row == ZeroRow(zero_writer[1])
     IN  /\ zero_repeater' = <<[row EXCEPT !.pixel_repeats = @ - 1]>>
         /\ zero_writer' = IF row.last THEN <<>>
                           ELSE [zero_writer EXCEPT ![1].col_counter = @ + BlockCols]
  /\ UNCHANGED <<readerVars, prog, expected, controlVars, cmds, read_issue_q, scaleVars,
                 pixel_repeater, mem, completed>>

\* The floor of floorSub: a repeated pixel stays in its half of the scratchpad.
half(addr) == IF addr % SpRows < SpRows \div 2 THEN 0 ELSE SpRows \div 2

underflow(p) == p.addr < half(p.addr) + p.pixel_repeats

\* out_shift has log2Up(block_cols / 2 + 1) bits
out_shift(p) == InputBytes * ((p.pixel_repeats * p.len) % Max({BlockCols, 2}))

\* io.resp of a PixelRepeater: the row moved up and to the right
Repeated(p) ==
  LET kept == {b \in DOMAIN p.bytes : b + out_shift(p) < spadWidthBytes}
  IN  [p EXCEPT !.addr = @ - p.pixel_repeats,
                !.bytes = [i \in {b + out_shift(p) : b \in kept} |-> p.bytes[i - out_shift(p)]],
                !.last = @ /\ p.pixel_repeats = 0]

\* A repeater once its row is written or dropped
RepeatedRest(q) ==
  IF q[1].pixel_repeats = 0 THEN <<>> ELSE [q EXCEPT ![1].pixel_repeats = @ - 1]

\* A repetition that would leave its half of the scratchpad is dropped.
DropRepeat ==
  /\ \/ /\ pixel_repeater # <<>> /\ underflow(pixel_repeater[1])
        /\ pixel_repeater' = RepeatedRest(pixel_repeater)
        /\ UNCHANGED zero_repeater
     \/ /\ zero_repeater # <<>> /\ underflow(zero_repeater[1])
        /\ zero_repeater' = RepeatedRest(zero_repeater)
        /\ UNCHANGED pixel_repeater
  /\ UNCHANGED <<readerVars, prog, expected, controlVars, cmds, read_issue_q, zero_writer,
                 scaleVars, mem, completed>>

-----------------------------------------------------------------------------
(* Writing the banks *)

Places == ({FALSE} \X (0..SpRows-1) \X (0..spadWidthBytes-1))
            \cup ({TRUE} \X (0..AccRows-1) \X (0..accWidthBytes-1))

bank(o) == <<o.is_acc, o.addr \div (IF o.is_acc THEN AccBankRows ELSE SpBankRows)>>

\* An input row as the accumulator sees it: every byte masks AccBytes / InputBytes
Expanded(bytes) ==
  LET n == AccBytes \div InputBytes
  IN  [i \in {b \in 0..accWidthBytes-1 : b \div n \in DOMAIN bytes} |-> bytes[i \div n]]

\* The three ports: what each offers to the banks this cycle, if anything.
mvin_scale_resp ==
  IF pixel_repeater = <<>> \/ underflow(pixel_repeater[1]) THEN {}
  ELSE {[Repeated(pixel_repeater[1]) EXCEPT !.bytes =
           IF pixel_repeater[1].is_acc THEN Expanded(@) ELSE @]}
mvin_scale_acc_resp ==
  IF mvin_scale_acc = <<>> THEN {} ELSE {Scaled(mvin_scale_acc[1])}
zero_writer_resp ==
  IF zero_repeater = <<>> \/ underflow(zero_repeater[1]) THEN {}
  ELSE {[Repeated(zero_repeater[1]) EXCEPT !.bytes =
           IF zero_repeater[1].is_acc THEN Expanded(@) ELSE @]}

spad_last == \E o \in mvin_scale_resp : o.last /\ ~ o.is_acc

\* fault: a scaler may finish a packet in the cycle the zero writer does
scaler_last_None == FALSE
\* A scaler is about to finish a packet; the zero writer has to wait.
scaler_last == \E o \in mvin_scale_resp \cup mvin_scale_acc_resp : o.last

\* dmaread of the accumulator: mvin_scale before mvin_scale_acc
acc_dmaread ==
  LET scale == {o \in mvin_scale_resp : o.is_acc}
  IN  IF scale # {} THEN scale ELSE mvin_scale_acc_resp

\* What is written this cycle when the banks `busy' cannot be: the execute
\* controller writes them, or they are not ready.
ScaleWrites(busy) == {o \in mvin_scale_resp : bank(o) \notin busy}
AccWrites(busy) ==
  {o \in mvin_scale_acc_resp : ~ spad_last /\ o \in acc_dmaread /\ bank(o) \notin busy}
ZeroWrites(busy) ==
  {o \in zero_writer_resp :
     /\ ~ scaler_last
     /\ bank(o) \notin busy \cup {bank(d) : d \in mvin_scale_resp \cup acc_dmaread}}

\* The row and the accumulate flag of an accumulator bank come from a scaler
\* with a row for the accumulator, whichever bank that row is for.
AccPort(o) ==
  IF ~ o.is_acc \/ acc_dmaread = {} THEN o
  ELSE LET d == CHOOSE d \in acc_dmaread : TRUE
       IN  [o EXCEPT !.addr = bank(o)[2] * AccBankRows + (d.addr % AccBankRows),
                     !.accumulate = d.accumulate]

\* A place after row o is written to it
Written(o, place, value) ==
  IF o.is_acc /\ o.accumulate THEN value (+) SetToBag({o.bytes[place[3]]})
  ELSE SetToBag({o.bytes[place[3]]})

Covers(o, place) == place[1] = o.is_acc /\ place[2] = o.addr /\ place[3] \in DOMAIN o.bytes

\* io.dma.read.resp: the packet finished this cycle, at most one is seen
Response(busy) ==
  LET Finished(S) == {o \in S : o.last}
      scale == Finished(ScaleWrites(busy))
      acc   == Finished(AccWrites(busy))
  IN  CASE scale # {} -> scale
        [] scale = {} /\ acc # {} -> acc
        [] OTHER -> Finished(ZeroWrites(busy))

\* request_returned of DMACommandTracker
Returned(resp) ==
  [i \in DOMAIN cmds |-> IF \E o \in resp : o.cmd_id = i
     THEN [cmds[i] EXCEPT !.bytes_left =
             (@ - (CHOOSE o \in resp : TRUE).bytes_read) % BytesModulus]
     ELSE cmds[i]]

\* One cycle in which some bank is written.
WriteBanks(busy) ==
  LET writes == {AccPort(o) : o \in ScaleWrites(busy) \cup AccWrites(busy) \cup ZeroWrites(busy)}
  IN  /\ writes # {}
      /\ mem' = [p \in Places |-> IF \E o \in writes : Covers(o, p)
                   THEN Written(CHOOSE o \in writes : Covers(o, p), p, mem[p]) ELSE mem[p]]
      /\ cmds' = Returned(Response(busy))
      /\ pixel_repeater' = IF ScaleWrites(busy) = {} THEN pixel_repeater
                           ELSE RepeatedRest(pixel_repeater)
      /\ mvin_scale_acc' = IF AccWrites(busy) = {} THEN mvin_scale_acc
                           ELSE ScaledRest(mvin_scale_acc)
      /\ zero_repeater' = IF ZeroWrites(busy) = {} THEN zero_repeater
                          ELSE RepeatedRest(zero_repeater)
      /\ UNCHANGED <<readerVars, prog, expected, controlVars, read_issue_q, zero_writer,
                     mvin_scale, completed>>

WriteCycle ==
  LET offered == mvin_scale_resp \cup mvin_scale_acc_resp \cup zero_writer_resp
  IN  \E busy \in SUBSET {bank(o) : o \in offered} : WriteBanks(busy)

-----------------------------------------------------------------------------
(* What a program is to load *)

\* what a place holds before the program
Old == SetToBag({-1})

IsLoad(p, i) == p[i].op = "mvin"
LoadsOf(p)   == {i \in DOMAIN p : IsLoad(p, i)}

\* the config_mvin command i of p runs under
ConfigOf(p, i) == p[Max({j \in 1..i-1 : p[j].op = "config" /\ p[j].state_id = p[i].state_id})]

\* Byte b of row r of a load c, under config g, in its k-th repetition: the
\* places it goes to.
PlacesOf(c, g, r, b, k) ==
  LET wide  == c.is_acc /\ ~ g.shrink
      width == IF wide THEN accWidthBytes ELSE spadWidthBytes
      n     == IF c.is_acc /\ g.shrink THEN AccBytes \div InputBytes ELSE 1
      row   == c.data + r + g.block_stride * (b \div width)
      col   == (b % width) + k * c.cols * InputBytes
  IN  IF row - k < half(row) \/ (k > 0 /\ col >= width) THEN {}
      ELSE {<<c.is_acc, row - k, col * n + j>> : j \in 0..n-1}

SourceOf(c, g, r, b) == IF c.vaddr = 0 THEN Zero ELSE c.vaddr + r * g.stride + b

\* command i as a set of pairs of a place and the byte that goes there
Moves(p, i) ==
  LET c == p[i]
      g == ConfigOf(p, i)
      bytes == c.cols * (IF c.is_acc /\ ~ g.shrink THEN AccBytes ELSE InputBytes)
      reps  == Max({g.pixel_repeat, 1})
  IN  UNION {PlacesOf(c, g, r, b, k) \X {SourceOf(c, g, r, b)} :
               r \in 0..c.rows-1, b \in 0..bytes-1, k \in 0..reps-1}

\* For each place: the commands of p that write it, and what it holds when the
\* commands of p are executed one after the other.
Expected(p) ==
  LET moves == [i \in LoadsOf(p) |-> Moves(p, i)]
  IN  [pl \in Places |->
         LET byte == [i \in LoadsOf(p) |-> {m[2] : m \in {m \in moves[i] : m[1] = pl}}]
             value[i \in 0..Len(p)] ==
               IF i = 0 THEN Old
               ELSE IF i \notin LoadsOf(p) \/ byte[i] = {} THEN value[i-1]
               ELSE IF p[i].is_acc /\ p[i].accumulate THEN value[i-1] (+) SetToBag(byte[i])
               ELSE SetToBag(byte[i])
         IN  [writers |-> {i \in LoadsOf(p) : byte[i] # {}}, value |-> value[Len(p)]]]

-----------------------------------------------------------------------------

\* The registers a config_mvin sets hold anything after reset; programs set
\* them before they use them.
Reset == [stride |-> 0, shrink |-> FALSE, block_stride |-> 0, pixel_repeat |-> 1]

Init ==
  /\ ReaderInit
  /\ prog \in Programs /\ expected = Expected(prog)
  /\ pc = 0 /\ control_state = "waiting_for_command" /\ row_counter = 0 /\ cmd_id = 0
  /\ states = [s \in States |-> Reset]
  /\ cmds = <<>> /\ read_issue_q = <<>> /\ zero_writer = <<>>
  /\ mvin_scale = <<>> /\ mvin_scale_acc = <<>>
  /\ pixel_repeater = <<>> /\ zero_repeater = <<>>
  /\ mem = [p \in Places |-> Old]
  /\ completed = {}

\* every step but those of the DMA's request pipeline
Advances ==
  \/ Config \/ Alloc \/ FirstRow \/ NextRow \/ Complete \/ IssueRead \/ ReceiveBeat
  \/ ScaleIn \/ ScaleOut \/ WriteZeros \/ DropRepeat \/ WriteCycle

Next == TranslateRead \/ Advances

Spec == Init /\ [][Next]_vars

\* Some unit that can move does, the request pipeline moves every cycle, and
\* the TLB and TileLink let a packet through again and again.
Fairness ==
  /\ WF_vars(Advances)
  /\ WF_vars(TranslateRead)
  /\ SF_vars(TranslateRead /\ inflight' # inflight)

FairSpec == Spec /\ Fairness

-----------------------------------------------------------------------------
(* Properties *)

Request == [vaddr : Nat, spaddr : Nat, is_acc : BOOLEAN, accumulate : BOOLEAN,
            has_acc_bitwidth : BOOLEAN, len : Nat, repeats : Nat, pixel_repeats : Nat,
            block_stride : Nat, cmd_id : CmdIds, bytesRequested : 0..BufLen-1]

\* Every register and queue of the load path stays within its range and depth.
TypeOK ==
  /\ pc \in 0..Len(prog)
  /\ control_state \in {"waiting_for_command", "waiting_for_dma_req_ready", "sending_rows"}
  /\ row_counter \in 0..BlockRows-1 /\ cmd_id \in CmdIds
  /\ DOMAIN cmds \subseteq CmdIds
  /\ \A i \in DOMAIN cmds : cmds[i] \in [tag : LoadsOf(prog), bytes_left : 0..BytesModulus-1]
  /\ Range(read_issue_q) \cup Range(reader) \subseteq Request
  /\ Len(read_issue_q) <= IssueDepth
  /\ DOMAIN entries \subseteq XactIds
  /\ \A q \in Range(tlb_q) \cup Range(translate_q) \cup inflight :
       q \in [source : XactIds, vaddr : Nat, size : read_sizes]
  /\ \A q \in {mvin_scale, mvin_scale_acc} : Len(q) <= ScaleDepth
  /\ \A q \in {reader, tlb_q, translate_q, merger, zero_writer, pixel_repeater, zero_repeater} :
       Len(q) <= 1
  /\ completed \subseteq LoadsOf(prog)

\* A mvin that is reported completed has landed: once the loads of a place are
\* completed, the place holds what executing them in order leaves there.  In
\* particular nothing is written beside the rows and columns of a load, an
\* accumulating load adds each byte once, and completion is never early.
LoadedAsWritten ==
  \A pl \in Places : expected[pl].writers \subseteq completed => mem[pl] = expected[pl].value

Packets == Range(tlb_q) \cup Range(translate_q) \cup inflight

\* The slots in use are exactly the packets that wait for the TLB, for TileLink
\* or for their data, one slot each: a source identifier is never used by two
\* requests at a time, no slot leaks, and no queue holds more than it can.
SlotsAccounted ==
  /\ TypeOK
  /\ DOMAIN entries = {q.source : q \in Packets}
  /\ Cardinality(DOMAIN entries) = Len(tlb_q) + Len(translate_q) + Cardinality(inflight)

\* Bytes of command id that are still to be reported, stage by stage.
Owed(id) ==
  LET Sum(S, Bytes(_)) == MapThenSumSet(Bytes, S)
      Of(q) == {k \in DOMAIN q : q[k].cmd_id = id}
      Last(q) == {k \in Of(q) : q[k].last}
      Tagged(q) == {k \in DOMAIN q : q[k].tag.cmd_id = id /\ q[k].last}
      merging == {q \in inflight : /\ merger # <<>> /\ merger[1].source = q.source
                                  /\ merger[1].bytesRead < merger[1].size}
      unsent  == {k \in DOMAIN merger : /\ merger[k].entry.cmd_id = id
                                         /\ merger[k].bytesSent < merger[k].entry.bytes_to_read}
      waiting == {q.source : q \in Packets \ merging}
      rows_left == IF control_state = "waiting_for_command" \/ cmd_id # id THEN 0
                   ELSE IF control_state = "sending_rows" /\ row_counter = 0 THEN 0
                   ELSE actual_rows_read - row_counter
  IN  (IF rows_left = 0 THEN 0 ELSE rows_left * (bytes_to_read \div actual_rows_read))
      + Sum(Of(read_issue_q), LAMBDA k : read_issue_q[k].len * elemBytes(read_issue_q[k]))
      + Sum(Of(reader), LAMBDA k : bytesLeft(reader[k]))
      + Sum({s \in waiting : entries[s].cmd_id = id}, LAMBDA s : entries[s].bytes_to_read)
      + Sum(unsent, LAMBDA k : merger[k].entry.bytes_to_read)
      + Sum(Tagged(mvin_scale), LAMBDA k : mvin_scale[k].tag.bytes_to_read)
      + Sum(Tagged(mvin_scale_acc), LAMBDA k : mvin_scale_acc[k].tag.bytes_to_read)
      + Sum(Last(pixel_repeater), LAMBDA k : pixel_repeater[k].bytes_read)
      + Sum(Last(zero_repeater), LAMBDA k : zero_repeater[k].bytes_read)
      + Sum({k \in DOMAIN zero_writer : zero_writer[k].req.cmd_id = id},
            LAMBDA k : zero_writer_bytes_read(zero_writer[k].req))

\* The account of a command is the bytes of it that are still on their way, and
\* nothing is on its way for a closed account: no report is lost, counted twice
\* or taken for another command, and the counter never underflows, which is
\* what the assertions of DMACommandTracker ask.
BytesAccounted ==
  \A id \in CmdIds : Owed(id) = (IF id \in DOMAIN cmds THEN cmds[id].bytes_left ELSE 0)

\* Every load of the program is eventually completed.
EventuallyCompleted == <>(completed = LoadsOf(prog))
=============================================================================
