-------------------------- MODULE ExecuteController --------------------------
(***************************************************************************)
(* The controller of the systolic array (ExecuteController and the         *)
(* TransposePreloadUnroller in front of it) with ex_read_from_acc and      *)
(* im2col off.  It pairs the compute at the head of its queue with the     *)
(* preload behind it, reads the rows of A, B and D from the scratchpad     *)
(* banks, feeds them to the array with a request for every pair, writes    *)
(* the rows that come out and reports the commands that are done.          *)
(*                                                                         *)
(* The scratchpad banks are here as the controller sees them: a read is    *)
(* taken unless the bank is refused to the controller in this cycle.       *)
(***************************************************************************)
EXTENDS MeshWithDelays, FiniteSets, FiniteSetsExt

CONSTANTS SpBanks, SpBankEntries, \* sp_banks, sp_bank_entries
          SpadReadDelay,          \* spad_read_delay
          ExQueueLength,          \* ex_queue_length
          ExWriteToSpad           \* ex_write_to_spad

ASSUME ExecuteAssumption ==
  /\ {SpBanks, SpBankEntries, SpadReadDelay} \subseteq Nat \ {0}
  /\ ExQueueLength \in Nat /\ ExQueueLength >= 3
  /\ ExWriteToSpad \in BOOLEAN

VARIABLES unroller,       \* q, state, b_transposed_and_ws
          cmd,            \* the commands in the multi-headed queue
          control_state, perform,
          conf,           \* dataflow, a_transpose, bd_transpose, a_stride, c_stride
          in_prop_flush,
          counter,        \* the fire counters of the operands
          started,        \* the operands that have started to fire
          cntl_q,         \* mesh_cntl_signals_q
          pending_completed_rob_ids,
          output_counter,
          bank_out,       \* per bank, the row its SRAM has read: <<>> or <<row>>
          read_pipe,      \* per bank, ex_read_pipe
          spad            \* the rows of the scratchpad

ctrlVars == <<unroller, cmd, control_state, perform, conf, in_prop_flush, counter, started,
              cntl_q, pending_completed_rob_ids, output_counter, bank_out, read_pipe, spad>>
executeVars == <<meshVars, ctrlVars>>

SpRows == 0..SpBanks * SpBankEntries - 1
SpBankIds == 0..SpBanks-1
sp_bank(row) == row \div SpBankEntries

IsGarbage(addr) == addr.mem = "garbage"
is_same_address(x, y) == x.mem = y.mem /\ x.row = y.row

\* a command: rs1 and rs2 are an address with the rows and columns there
NoOperand == [addr |-> garbage, rows |-> 0, cols |-> 0]
NoCmd == [funct |-> "none", rs1 |-> NoOperand, rs2 |-> NoOperand,
          conf |-> <<>>, rob_id |-> NoId]

IsCompute(c) == c.funct \in {"COMPUTE_AND_FLIP", "COMPUTE_AND_STAY"}
IsPreload(c) == c.funct = "PRELOAD"
IsConfig(c)  == c.funct = "CONFIG"

-----------------------------------------------------------------------------
(* TransposePreloadUnroller: a preload of transposed weights goes twice, the *)
(* first time with a compute whose result is dropped                         *)

UnrollerCmd(k) == IF Len(unroller.q) >= k THEN unroller.q[k] ELSE NoCmd

first_preload == IsPreload(UnrollerCmd(1)) /\ unroller.state = "idle"
unroll_preload == /\ unroller.b_transposed_and_ws
                  /\ UnrollerCmd(2).funct = "COMPUTE_AND_FLIP"

unrolled_valid == IF first_preload
                  THEN ~unroller.b_transposed_and_ws \/ Len(unroller.q) = 2
                  ELSE unroller.q # <<>>

\* The addresses of the first compute stay: the code changes the register numbers.
unrolled_cmd ==
  CASE first_preload /\ unroll_preload ->
         [UnrollerCmd(1) EXCEPT !.rs2.addr = garbage, !.rob_id = NoId]
    [] unroller.state = "first_compute" ->
         [UnrollerCmd(2) EXCEPT !.funct = "COMPUTE_AND_STAY", !.rob_id = NoId]
    [] unroller.state = "second_preload" ->
         [UnrollerCmd(1) EXCEPT !.rs1.addr = garbage]
    [] OTHER -> UnrollerCmd(1)

cmd_ready == Len(unroller.q) < 2
unrolled_fire == unrolled_valid /\ Len(cmd) < ExQueueLength

\* arriving is the sequence of at most one command that comes in
UnrollerAfter(arriving) ==
  LET pops == unrolled_fire /\ ~(first_preload /\ unroll_preload)
                            /\ unroller.state # "first_compute"
      head == UnrollerCmd(1)
  IN [q |-> Popped(unroller.q, pops) \o arriving,
      state |-> CASE ~unrolled_fire -> unroller.state
                  [] unroller.state = "first_compute" -> "second_preload"
                  [] unroller.state = "second_preload" -> "idle"
                  [] unroller.state = "idle" /\ first_preload /\ unroll_preload -> "first_compute"
                  [] OTHER -> "idle",
      b_transposed_and_ws |->
        IF unrolled_fire /\ IsConfig(head) /\ ~head.conf.set_only_strides
        THEN head.conf.dataflow = WS /\ head.conf.bd_transpose
        ELSE unroller.b_transposed_and_ws]

-----------------------------------------------------------------------------
(* Choosing what to do *)

Cmd(k) == IF Len(cmd) > k THEN cmd[k + 1] ELSE NoCmd

should_be_fed == FromTransposer(conf.dataflow, conf.a_transpose, conf.bd_transpose)

preload_cmd_place == IF IsPreload(Cmd(0)) THEN 0 ELSE 1
address_place(x) == IF preload_cmd_place = 0 THEN 1
                    ELSE IF should_be_fed[x] THEN 2 ELSE 0

raw_hazards_are_impossible == ~ExWriteToSpad
third_instruction_needed == \/ address_place("a") > 1 \/ address_place("b") > 1
                            \/ ~raw_hazards_are_impossible

\* a result that is still to be written is D of command p, or A or B of the next
raw_hazard(p) ==
  /\ ~raw_hazards_are_impossible
  /\ \E t \in tags_in_progress :
       /\ ~IsGarbage(t.addr)
       /\ \E r \in {Cmd(p).rs1, Cmd(p + 1).rs1, Cmd(p + 1).rs2} :
            is_same_address(t.addr, r.addr)

matmul_in_progress == \E t \in tags_in_progress : t.rob_id # NoId

waiting_for_cmd == control_state = "waiting_for_cmd"

configures == /\ waiting_for_cmd /\ IsConfig(Cmd(0))
              /\ ~matmul_in_progress
              /\ pending_completed_rob_ids = <<NoId, NoId>>

starting ==
  CASE ~waiting_for_cmd -> "none"
    [] waiting_for_cmd /\ IsPreload(Cmd(0)) ->
         IF Len(cmd) > 1 /\ ~raw_hazard(0) THEN "single_preload" ELSE "none"
    [] waiting_for_cmd /\ IsCompute(Cmd(0)) ->
         IF /\ IsPreload(Cmd(1))
            /\ third_instruction_needed => Len(cmd) > 2 /\ ~raw_hazard(1)
         THEN "mul_pre" ELSE "single_mul"
    [] OTHER -> "none"

performing == IF control_state = "compute" THEN perform ELSE starting

\* Mistaken variant: the results of an output-stationary product wait for a configuration.
flushes_Config == waiting_for_cmd /\ matmul_in_progress /\ IsConfig(Cmd(0))

flushes == /\ waiting_for_cmd /\ matmul_in_progress
           /\ conf.dataflow = OS \/ IsConfig(Cmd(0))

-----------------------------------------------------------------------------
(* The operands of what is performed                                         *)

rs(x) == CASE x = "a" -> Cmd(address_place("a")).rs1
           [] x = "b" -> Cmd(address_place("b")).rs2
           [] x = "d" -> Cmd(preload_cmd_place).rs1
c_rs2 == Cmd(preload_cmd_place).rs2

operand_rows(x) ==
  IF \/ x = "a" /\ conf.a_transpose
     \/ x = "b" /\ conf.dataflow = OS /\ conf.bd_transpose
     \/ x = "d" /\ conf.dataflow = WS /\ conf.bd_transpose
  THEN rs(x).cols ELSE rs(x).rows

start_inputting(now, x) ==
  CASE now = "single_preload" -> x = "d" \/ should_be_fed[x]
    [] now = "mul_pre" -> TRUE
    [] now = "single_mul" -> x # "d" /\ ~should_be_fed[x]
    [] OTHER -> FALSE

\* Mistaken variant: as many rows as the operands have.
total_rows_NoMinimum(garbages) ==
  IF conf.dataflow = WS /\ "d" \in garbages /\ ~\E x \in Operands : should_be_fed[x]
  THEN Max({IF x \in garbages THEN 1 ELSE operand_rows(x) : x \in {"a", "b"}})
  ELSE BlockSize

\* Two writes to a row of the accumulator must be 4 cycles apart, and only one
\* command completes in a cycle: no request has fewer than 4 rows.
total_rows(garbages) ==
  LET rows(x) == IF x \in garbages THEN 1 ELSE operand_rows(x)
  IN IF conf.dataflow = WS /\ "d" \in garbages /\ ~\E x \in Operands : should_be_fed[x]
     THEN Max({rows("a"), rows("b"), 4})
     ELSE BlockSize

row_number(x) == IF x = "d" THEN BlockSize - 1 - counter.d ELSE counter[x]
sp_row(x) == rs(x).addr.row + (IF x = "a" THEN counter.a * conf.a_stride ELSE row_number(x))

\* The signals of this cycle: what is performed, the operands that have nothing to
\* read, those whose row is beyond the last, the banks of the others, and the number of rows.
Signals(now) ==
  LET garbages == {x \in Operands : IsGarbage(rs(x).addr) \/ ~start_inputting(now, x)}
  IN [now |-> now,
      firing |-> \E x \in Operands : start_inputting(now, x),
      garbages |-> garbages,
      zeros |-> {x \in Operands : row_number(x) >= operand_rows(x)},
      bank |-> [x \in Operands |-> IF x \in garbages THEN 0 ELSE sp_bank(sp_row(x))],
      total_rows |-> total_rows(garbages)]

priority == [a |-> 0, b |-> 1, d |-> 2]
same_bank(in, x, y) == x \notin in.garbages /\ y \notin in.garbages /\ in.bank[x] = in.bank[y]
same_counter(x, y) == (x \in started <=> y \in started) /\ counter[x] = counter[y]
one_ahead(in, x, y) == x \in started /\ counter[x] = (counter[y] + 1) % in.total_rows

operand_valid(in, x) ==
  ~\E y \in Operands \ {x} :
     \/ same_bank(in, x, y) /\ priority[y] < priority[x] /\ same_counter(x, y)
     \/ one_ahead(in, x, y)

\* the operands that read a bank
reading(in) == {x \in Operands \ (in.garbages \union in.zeros) : operand_valid(in, x)}

\* where the row of an operand comes from; zero and junk do not wait for a bank
source(in, x) ==
  CASE x \in in.zeros -> "zero"
    [] x \notin in.zeros /\ IsGarbage(rs(x).addr) /\ x # "a" -> "zero"
    [] OTHER -> IF x \in in.garbages THEN "junk" ELSE "spad"

-----------------------------------------------------------------------------
(* Feeding the mesh *)

cntl == Head(cntl_q)
cntl_valid == cntl_q # <<>>

data_valid(x) == cntl.source[x] = "spad" => read_pipe[cntl.bank[x]] # <<>>

\* a preload alone feeds A and B only to the transposer, a compute alone does not
kept_out(x) == /\ x # "d"
               /\ \/ cntl.perform = "single_preload" /\ ~should_be_fed[x]
                  \/ cntl.perform = "single_mul" /\ should_be_fed[x]
data(x) == CASE kept_out(x) \/ cntl.source[x] = "zero" -> Zero
             [] ~kept_out(x) /\ cntl.source[x] = "spad" -> Head(read_pipe[cntl.bank[x]])
             [] OTHER -> Junk

MeshFires == IF ~cntl_valid THEN {}
             ELSE {x \in cntl.fire : data_valid(x) /\ MeshReady(x)}
mesh_bits(fed) == [x \in Operands |-> IF x \in fed THEN data(x) ELSE Junk]

cntl_deq_fire(fed) == /\ cntl_valid
                      /\ \A x \in cntl.fire : x \in fed \/ ~MeshReady(x)
                      /\ cntl.first => req_ready
cntl_ready(deq) == Len(cntl_q) < SpadReadDelay + 1 \/ deq

mesh_req_fire(deq) == /\ req_ready
                      /\ IF cntl_valid THEN deq /\ cntl.fire # {} ELSE control_state = "flush"

\* The signals of a flush are those of the slot the queue would fill next: an entry of the
\* same configuration, for a request has 4 rows or more and a flush comes after two of them.
mesh_req ==
  IF cntl_valid
  THEN [flush |-> 0, total_rows |-> cntl.total_rows,
        propagate |-> IF control_state = "flush" THEN in_prop_flush ELSE cntl.prop,
        dataflow |-> cntl.dataflow,
        a_transpose |-> cntl.a_transpose, bd_transpose |-> cntl.bd_transpose,
        tag |-> [rob_id |-> cntl.rob_id, rows |-> cntl.c_rows,
                 addr |-> IF cntl.perform = "single_mul" THEN garbage ELSE cntl.c_addr]]
  ELSE [flush |-> 1, total_rows |-> BlockSize, propagate |-> in_prop_flush,
        dataflow |-> conf.dataflow, a_transpose |-> conf.a_transpose,
        bd_transpose |-> conf.bd_transpose, tag |-> garbage_tag]

\* the banks whose response is taken
PoppedBanks(fed, deq) == IF ~deq THEN {}
                         ELSE {cntl.bank[x] : x \in {y \in fed : cntl.source[y] = "spad"}}

-----------------------------------------------------------------------------
(* Writing the results and completing the commands *)

array_outputs == resp.valid /\ resp.tag.rob_id # NoId
w_offset == IF conf.dataflow = WS THEN output_counter * conf.c_stride
            ELSE resp.total_rows - 1 - output_counter * conf.c_stride
write_this_row == IF conf.dataflow = WS THEN output_counter < resp.tag.rows
                  ELSE resp.total_rows - 1 - output_counter < resp.tag.rows
w_address == [resp.tag.addr EXCEPT !.row = @ + w_offset]

writes(mem) == /\ array_outputs /\ resp.tag.addr.mem = mem /\ write_this_row
               /\ mem = "spad" => ExWriteToSpad

mesh_completes == array_outputs /\ resp.last
\* the places of pending_completed_rob_ids, the first that is reported
reported == {i \in 1..2 : /\ ~mesh_completes
                          /\ pending_completed_rob_ids[i] # NoId
                          /\ i = 2 => pending_completed_rob_ids[1] = NoId}

completed == CASE mesh_completes -> resp.tag.rob_id
               [] ~mesh_completes /\ reported # {} ->
                    pending_completed_rob_ids[CHOOSE i \in reported : TRUE]
               [] OTHER -> IF configures THEN Cmd(0).rob_id ELSE NoId

-----------------------------------------------------------------------------
(* A clock cycle *)

Clipped(row) == Computed("clipped", 0, <<row>>)

\* The banks have one port: a write keeps the controller from reading.
written_bank(b) == writes("spad") /\ sp_bank(w_address.row) = b
moves_on(b, popped) == bank_out[b] # <<>> /\ (Len(read_pipe[b]) < SpadReadDelay \/ b \in popped)
bank_ready(b, popped) == (bank_out[b] = <<>> \/ moves_on(b, popped)) /\ ~written_bank(b)

\* the operands that fire, when the banks refused are not to be read
Fired(in, refused, popped) ==
  {x \in Operands :
     /\ operand_valid(in, x)
     /\ x \in reading(in) => in.bank[x] \notin refused /\ bank_ready(in.bank[x], popped)}

about_to_fire_all_rows(in, fired, ready) ==
  /\ \A x \in Operands : \/ counter[x] = 0
                         \/ counter[x] = in.total_rows - 1 /\ x \in fired
  /\ started # {}
  /\ ready

cntl_entry(in, fired) ==
  [perform |-> in.now, fire |-> fired, first |-> started = {},
   source |-> [x \in Operands |-> source(in, x)], bank |-> in.bank,
   total_rows |-> in.total_rows,
   prop   |-> IF in.now = "single_preload" THEN in_prop_flush
              ELSE Cmd(0).funct = "COMPUTE_AND_FLIP",
   dataflow |-> conf.dataflow,
   a_transpose |-> conf.a_transpose, bd_transpose |-> conf.bd_transpose,
   c_addr |-> c_rs2.addr, c_rows |-> c_rs2.rows,
   rob_id |-> IF in.now = "single_mul" \/ IsGarbage(c_rs2.addr) THEN NoId
              ELSE Cmd(preload_cmd_place).rob_id]

Configured(old, c) ==
  IF c.set_only_strides
  THEN [old EXCEPT !.a_stride = c.a_stride, !.c_stride = c.c_stride]
  ELSE [dataflow |-> c.dataflow, a_transpose |-> c.a_transpose,
        bd_transpose |-> c.bd_transpose, a_stride |-> c.a_stride, c_stride |-> c.c_stride]

\* The commands of the request, once all its rows are fired: a preload whose result is
\* written completes with its last row instead.
PendingAssigned(all_fired) ==
  LET unless_written(c) == IF IsGarbage(c_rs2.addr) THEN c.rob_id ELSE NoId
  IN CASE ~all_fired -> pending_completed_rob_ids
       [] all_fired /\ perform = "single_preload" ->
            <<unless_written(Cmd(0)), pending_completed_rob_ids[2]>>
       [] all_fired /\ perform = "mul_pre" -> <<Cmd(0).rob_id, unless_written(Cmd(1))>>
       [] OTHER -> <<Cmd(0).rob_id, pending_completed_rob_ids[2]>>

\* Mistaken variant: an id that is reported stays.
PendingAfter_Kept(all_fired) == PendingAssigned(all_fired)

\* the id that is reported is cleared, whatever is assigned to it in the same cycle
PendingAfter(all_fired) ==
  [i \in 1..2 |-> IF i \in reported THEN NoId ELSE PendingAssigned(all_fired)[i]]

conf_at_reset == [dataflow |-> WS, a_transpose |-> FALSE, bd_transpose |-> FALSE,
                  a_stride |-> 1, c_stride |-> 1]

ControllerInit ==
  /\ unroller = [q |-> <<>>, state |-> "idle", b_transposed_and_ws |-> FALSE]
  /\ cmd = <<>> /\ control_state = "waiting_for_cmd" /\ perform = "none"
  /\ conf = conf_at_reset
  /\ in_prop_flush \in BOOLEAN
  /\ counter = [x \in Operands |-> 0] /\ started = {}
  /\ cntl_q = <<>>
  /\ pending_completed_rob_ids = <<NoId, NoId>>
  /\ output_counter = 0
  /\ bank_out = [b \in SpBankIds |-> <<>>]
  /\ read_pipe = [b \in SpBankIds |-> <<>>]
  /\ spad = [r \in SpRows |-> Row("spad", r, <<>>)]

\* the commands and the state of the controller
CommandCycle(in, all_fired, req_fire, arriving) ==
  LET pops == IF all_fired THEN (IF perform = "mul_pre" THEN 2 ELSE 1)
              ELSE IF configures THEN 1 ELSE 0
  IN /\ unroller' = UnrollerAfter(arriving)
     /\ cmd' = SubSeq(cmd, pops + 1, Len(cmd))
               \o (IF unrolled_fire THEN <<unrolled_cmd>> ELSE <<>>)
     /\ control_state' =
          CASE waiting_for_cmd -> IF in.now # "none" THEN "compute"
                                  ELSE IF flushes THEN "flush" ELSE control_state
            [] control_state = "compute" -> IF all_fired THEN "waiting_for_cmd" ELSE control_state
            [] control_state = "flush" -> IF req_fire THEN "flushing" ELSE control_state
            [] control_state = "flushing" -> IF req_ready THEN "waiting_for_cmd" ELSE control_state
     /\ perform' = IF waiting_for_cmd THEN in.now ELSE perform
     /\ conf' = IF configures THEN Configured(conf, Cmd(0).conf) ELSE conf
     /\ in_prop_flush' = IF conf.dataflow = WS THEN FALSE
                         ELSE IF all_fired /\ perform # "single_mul"
                         THEN ~IsGarbage(c_rs2.addr) ELSE in_prop_flush
     /\ pending_completed_rob_ids' = PendingAfter(all_fired)
     /\ output_counter' = IF array_outputs THEN (output_counter + 1) % resp.total_rows
                          ELSE output_counter

\* the rows of the operands: read is the set of operands whose read a bank takes
OperandCycle(in, fired, all_rows, ready, deq, read, popped) ==
     /\ counter' = [x \in Operands |->
                      IF ~in.firing THEN 0
                      ELSE IF x \in fired /\ ready THEN (counter[x] + 1) % in.total_rows
                      ELSE counter[x]]
     /\ started' = IF all_rows THEN {}
                   ELSE IF in.firing /\ ready THEN started \union fired ELSE started
     /\ cntl_q' = Pushed(Popped(cntl_q, deq), in.now # "none" /\ ready, cntl_entry(in, fired))
     /\ bank_out' =
          [b \in SpBankIds |->
             IF \E x \in read : in.bank[x] = b
             THEN <<spad[sp_row(CHOOSE x \in read : in.bank[x] = b)]>>
             ELSE IF moves_on(b, popped) THEN <<>> ELSE bank_out[b]]
     /\ read_pipe' =
          [b \in SpBankIds |-> Popped(read_pipe[b], b \in popped)
                               \o (IF moves_on(b, popped) THEN bank_out[b] ELSE <<>>)]
     /\ spad' = IF writes("spad") THEN [spad EXCEPT ![w_address.row] = Clipped(resp.data)]
                ELSE spad

\* One clock cycle, with the signals in; the banks refused are kept from the controller.
ControllerCycle(in, refused, arriving) ==
  \E fed \in {MeshFires} : \E deq \in {cntl_deq_fire(fed)} :
  \E popped \in {PoppedBanks(fed, deq)}, ready \in {cntl_ready(deq)}, req_fire \in {mesh_req_fire(deq)} :
  \E fired \in {Fired(in, refused, popped)} : \E all_rows \in {about_to_fire_all_rows(in, fired, ready)} :
     /\ MeshCycle(fed, mesh_bits(fed), req_fire, mesh_req)
     /\ CommandCycle(in, all_rows /\ control_state = "compute", req_fire, arriving)
     /\ OperandCycle(in, fired, all_rows, ready, deq, IF ready THEN fired \cap reading(in) ELSE {}, popped)

=============================================================================
