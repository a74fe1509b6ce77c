----------------------------- MODULE ExecutePath -----------------------------
(***************************************************************************)
(* The execute controller with the array and the accumulator, and the DMA  *)
(* at the other ports of the accumulator and of the scratchpad banks       *)
(* (Scratchpad.scala).  One step is one clock cycle.                       *)
(*                                                                         *)
(* A program is a sequence of execute commands and of rows the DMA loads   *)
(* into the accumulator or stores from it.  External: the reservation      *)
(* station sends the execute commands in order, any cycle after the DMA    *)
(* has done the rows before them that they touch, and lets the DMA at a    *)
(* row when the commands before it that touch the row have completed.      *)
(***************************************************************************)
EXTENDS ExecuteController, AccumulatorMem

CONSTANTS Programs, MaxHolds

ASSUME PathAssumption == MaxHolds \in Nat

VARIABLES prog,
          sent,     \* how many items of prog the controller has been sent
          done,     \* the items that are completed
          stored,   \* what the DMA has read for the stores
          held, holds, \* the ports held up in the last cycle, and how often some were taken
          moved     \* whether the last cycle changed anything

work == <<executeVars, accVars, sent, done, stored>>
vars == <<work, prog, held, holds, moved>>

-----------------------------------------------------------------------------
(* What a program promises *)

Items(unit, p) == {i \in DOMAIN p : p[i].unit = unit}

\* the configuration item i of p runs under
ConfAt(p, i) ==
  LET C[k \in 0..Len(p)] ==
        IF k = 0 THEN conf_at_reset
        ELSE IF p[k].unit = "ex" /\ IsConfig(p[k].cmd) THEN Configured(C[k-1], p[k].cmd.conf)
        ELSE C[k-1]
  IN C[i]

\* The rows of a matrix in the scratchpad, with zeros up to the size of the array.
Matrix(sp, operand, rows, stride) ==
  [i \in 1..BlockSize |-> IF i > rows \/ IsGarbage(operand.addr) THEN Zero
                          ELSE sp[operand.addr.row + (i - 1) * stride]]
Turned(block, turn) == IF turn THEN [i \in 1..BlockSize |-> Column(block, i)] ELSE block

AccTerm(row) == SetToBag({row})

\* What is after a preload: the matrix for the registers, and where C goes.
Preloaded(s, c, co) ==
  LET turn == co.dataflow = WS /\ co.bd_transpose
  IN [s EXCEPT !.d = Turned(Matrix(s.spad, c.rs1, IF turn THEN c.rs1.cols ELSE c.rs1.rows, 1), turn),
               !.c = c.rs2]

Multiplied(s, c, co) ==
  LET fed == FromTransposer(co.dataflow, co.a_transpose, co.bd_transpose)
      a == Turned(Matrix(s.spad, c.rs1, IF co.a_transpose THEN c.rs1.cols ELSE c.rs1.rows,
                         co.a_stride), fed.a)
      b == Turned(Matrix(s.spad, c.rs2, IF fed.b THEN c.rs2.cols ELSE c.rs2.rows, 1), fed.b)
      regs == IF c.funct = "COMPUTE_AND_FLIP" THEN s.d ELSE s.regs
      summed[k \in 0..BlockSize] ==
        IF k = 0 THEN regs
        ELSE [n \in 1..BlockSize |-> Accumulated(summed[k-1][n], n, a[k], b[k])]
      result == IF co.dataflow = WS THEN [i \in 1..BlockSize |-> Product(a[i], b[i], regs)]
                ELSE summed[BlockSize]
      c_rows(mem) == IF s.c.addr.mem # mem THEN {}
                     ELSE {s.c.addr.row + i * co.c_stride : i \in 0..s.c.rows-1}
      c_value(r) == result[CHOOSE i \in 1..s.c.rows : r = s.c.addr.row + (i - 1) * co.c_stride]
  IN [s EXCEPT
        !.regs = IF co.dataflow = WS THEN regs ELSE result,
        !.spad = [r \in c_rows("spad") |-> Clipped(c_value(r))] @@ @,
        !.accmem = [r \in c_rows("acc") |->
                      AccTerm(c_value(r)) (+) (IF s.c.addr.accumulate THEN @[r] ELSE EmptyBag)] @@ @]

AccAtReset == [r \in AccRows |-> AccTerm(Row("acc", r, <<>>))]
Loaded(i) == AccTerm(Row("main", i, <<>>))

Promise(p) ==
  LET S[k \in 0..Len(p)] ==
        IF k = 0
        THEN [spad |-> [r \in SpRows |-> Row("spad", r, <<>>)], accmem |-> AccAtReset,
              stored |-> <<>>, c |-> NoOperand,
              d |-> [n \in 1..BlockSize |-> Junk], regs |-> [n \in 1..BlockSize |-> Junk]]
        ELSE LET s == S[k-1] item == p[k]
             IN CASE item.unit = "ld" ->
                       [s EXCEPT !.accmem[item.row] =
                          IF item.acc THEN @ (+) Loaded(k) ELSE Loaded(k)]
                  [] item.unit = "st" ->
                       [s EXCEPT !.stored = Append(@, s.accmem[item.row])]
                  [] item.unit = "ex" ->
                       CASE IsPreload(item.cmd) -> Preloaded(s, item.cmd, ConfAt(p, k))
                         [] IsCompute(item.cmd) -> Multiplied(s, item.cmd, ConfAt(p, k))
                         [] OTHER -> s
  IN [x \in {"spad", "accmem", "stored"} |-> S[Len(p)][x]]

Promised == [p \in Programs |-> Promise(p)]

-----------------------------------------------------------------------------
(* The reservation station and the DMA *)

Touches(i, row) ==
  LET item == prog[i]
  IN IF item.unit = "ex"
     THEN /\ IsPreload(item.cmd) /\ item.cmd.rs2.addr.mem = "acc"
          /\ \E n \in 0..item.cmd.rs2.rows-1 :
               item.cmd.rs2.addr.row + n * ConfAt(prog, i).c_stride = row
     ELSE item.row = row

\* the items before i of other units that touch a row of i have completed
Free(i) ==
  \A j \in 1..i-1 : \/ j \in done
                    \/ prog[j].unit = prog[i].unit
                    \/ ~\E row \in AccRows : Touches(i, row) /\ Touches(j, row)

Next_(unit) == LET left == Items(unit, prog) \ done IN IF left = {} THEN {} ELSE {Min(left)}
\* the row the DMA may load or store next
Offered(unit) == {i \in Next_(unit) : Free(i)}

Sendable == LET left == {i \in Items("ex", prog) : i > sent}
            IN IF left = {} \/ ~cmd_ready THEN {} ELSE {i \in {Min(left)} : Free(i)}

\* The execute controller's write goes before the DMA's.
exwrite(b) == writes("acc") /\ acc_bank(w_address.row) = b
bank_write(loads) ==
  [b \in AccBankIds |->
     IF exwrite(b) THEN AccWrite(w_address.row, w_address.accumulate, AccTerm(resp.data))
     ELSE IF \E i \in loads : acc_bank(prog[i].row) = b
     THEN LET i == CHOOSE i \in loads : TRUE IN AccWrite(prog[i].row, prog[i].acc, Loaded(i))
     ELSE NoWrite]

Init ==
  /\ prog \in Programs
  /\ MeshInit /\ ControllerInit /\ AccInit(AccAtReset)
  /\ sent = 0 /\ done = {} /\ stored = <<>>
  /\ held = {} /\ holds = 0 /\ moved = TRUE

\* sends, loads, stores: the item that is sent, and the ones the DMA tries
Others(sends, loads, stores) ==
  \E write \in {bank_write(loads)} :
  \E loaded \in {{i \in loads : LET b == acc_bank(prog[i].row)
                                IN ~exwrite(b) /\ write_ready(write[b])}},
     read \in {{i \in stores : read_ready(prog[i].row, write)}} :
     /\ AccCycle(write, AccTerm(Junk))
     /\ sent' = IF sends = {} THEN sent ELSE CHOOSE k \in sends : TRUE
     /\ done' = done \union loaded \union read \union ({completed} \ {NoId})
     /\ stored' = stored \o [i \in 1..Cardinality(read) |->
                               accmem[prog[CHOOSE k \in read : TRUE].row]]

\* The ports somebody waits for: the way in of the controller, the banks of the scratchpad
\* it reads, and the DMA's way to the accumulator.
Ports == {"send", "load", "store"} \X {0} \union {"bank"} \X SpBankIds
Waiting(port, items) == IF items = {} THEN {} ELSE {<<port, 0>>}
Wanted(in, sends, loads, stores) ==
  {<<"bank", in.bank[x]>> : x \in reading(in)}
  \union Waiting("send", sends) \union Waiting("load", loads) \union Waiting("store", stores)

Cycle ==
  \E in \in {Signals(performing)}, sends \in {Sendable}, loads \in {Offered("ld")}, stores \in {Offered("st")} :
  \E h \in SUBSET Wanted(in, sends, loads, stores) :
    LET Unless(port, items) == IF <<port, 0>> \in h THEN {} ELSE items
    IN /\ held' = h
       /\ holds' = holds + (IF h \subseteq held THEN 0 ELSE 1) /\ holds' <= MaxHolds
       /\ \E s \in {Unless("send", sends)} :
            /\ ControllerCycle(in, {b \in SpBankIds : <<"bank", b>> \in h},
                               [i \in 1..Cardinality(s) |-> prog[CHOOSE k \in s : TRUE].cmd])
            /\ Others(s, Unless("load", loads), Unless("store", stores))
       /\ moved' = (work' # work)
       /\ UNCHANGED prog

Next == Cycle

\* External: the clock runs (a cycle that changed nothing is like any that follow), and the DMA and the station hold up no port for ever.
Fairness == /\ []<><<TRUE>>_vars \/ <>[]~moved
            /\ \A port \in Ports : []<>(port \notin held)
Spec == Init /\ [][Next]_vars /\ Fairness

-----------------------------------------------------------------------------
(* Properties *)

Finished == done = DOMAIN prog
Settled == \A b \in AccBankIds : \A i \in 1..AccLatency : ~pipelined_writes[b][i].valid

(***************************************************************************)
(* The controller, which runs two commands at a time and reads the         *)
(* operands of the next ones while results are still in the array, leaves  *)
(* in the scratchpad and in the accumulator what its commands promise when *)
(* they are executed one after the other; what the DMA reads from the      *)
(* accumulator after a command has completed is that result.               *)
(***************************************************************************)
ResultsAsProgrammed ==
  LET promised == Promised[prog]
  IN /\ IsPrefix(stored, promised.stored)
     /\ Finished => spad = promised.spad
     /\ Finished /\ Settled => accmem = promised.accmem

(***************************************************************************)
(* The controller reports each command once, and none that it was not      *)
(* sent, although the pending ids, the array and a configuration share one *)
(* completion port (ExecuteController.scala:966-990).                      *)
(***************************************************************************)
CompletedOnce == completed # NoId => completed \in (Items("ex", prog) \cap 1..sent) \ done

(***************************************************************************)
(* The accumulator takes every row the array puts out, which cannot wait   *)
(* (the assertion at Scratchpad.scala:781), and never has a row read and   *)
(* written in one cycle (AccumulatorMem.scala:395).                        *)
(***************************************************************************)
WritesTaken ==
  \E write \in {bank_write(Offered("ld"))} :
     /\ \A b \in AccBankIds : exwrite(b) => write_ready(write[b])
     /\ \A i \in Offered("st") :
          ~LET w == write[acc_bank(prog[i].row)]
           IN w.valid /\ write_ready(w) /\ w.row = prog[i].row /\ read_ready(w.row, write)

(***************************************************************************)
(* Every program is executed to the end: the pairing of commands, the      *)
(* conflicts at the banks, the flush and the buffers of the array never    *)
(* wait for each other for ever.                                           *)
(***************************************************************************)
EventuallyExecuted == <>Finished

=============================================================================
