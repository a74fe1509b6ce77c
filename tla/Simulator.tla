------------------------------ MODULE Simulator ------------------------------
(***************************************************************************)
(* The functional simulator of the accelerator (libgemmini/gemmini.cc, the  *)
(* extension that spike loads).  The simulator runs one instruction after   *)
(* the other, so gemmini_state is a record g and every instruction is an    *)
(* operator from the record before to the record after.  The instructions   *)
(* that are loops over others are in SimulatorLoops.                        *)
(*                                                                         *)
(* Numbers are kept symbolic: a value is a polynomial over the bytes that   *)
(* main memory holds when the program starts, so two values are equal only  *)
(* when the same products were added the same number of times.              *)
(***************************************************************************)
EXTENDS Integers, Sequences, FiniteSets, FiniteSetsExt, Bags, BagsExt, TLC

CONSTANTS
    DIM,            \* rows and columns of the spatial array
    SP_ROWS,        \* BANK_NUM * BANK_ROWS
    ACC_ROWS,
    SizeofAcc,      \* sizeof(acc_t), in units of sizeof(elem_t) = 1
    NORM_STAT_IDS

ASSUME SimulatorAssumption ==
    /\ DIM \in Nat \ {0} /\ SizeofAcc \in Nat \ {0} /\ NORM_STAT_IDS \in Nat \ {0}
    /\ SP_ROWS \in Nat /\ ACC_ROWS \in Nat
    /\ SP_ROWS % DIM = 0 /\ SP_ROWS % 2 = 0 /\ ACC_ROWS % 2 = 0

------------------------------------------------------------------------------
(* Values.  A polynomial is a bag of monomials, a monomial a sequence of    *)
(* atoms; an atom is a byte address of main memory or the result of an      *)
(* operation that is not a sum or a product (scaling, maximum, mean).       *)

Zero == EmptyBag

Atom(a) == SetToBag({<<a>>})

Times(x, y) ==
    IF x = Zero \/ y = Zero THEN Zero
    ELSE LET pairs == (DOMAIN x) \X (DOMAIN y)
         IN [m \in {p[1] \o p[2] : p \in pairs} |->
                MapThenSumSet(LAMBDA p : x[p[1]] * y[p[2]],
                              {p \in pairs : p[1] \o p[2] = m})]

Sum(S, Value(_)) == MapThenFoldSet(LAMBDA x, y : x (+) y, Zero, Value, LAMBDA T : CHOOSE t \in T : TRUE, S)

\* scaling to elem_t or acc_t, with its rounding and saturation; the identity scale is exact
Identity == "identity"
Scaled(v, scale) == IF scale = Identity \/ v = Zero THEN v ELSE Atom(<<"scaled", scale, v>>)

\* activations, in the numbering of the ISA
NONE == 0
RELU == 1
LAYERNORM == 2
IGELU == 3
SOFTMAX == 4

------------------------------------------------------------------------------
(* Local addresses: the bits a 32-bit scratchpad address is made of.        *)

SpAddr(row) == [acc |-> FALSE, accumulate |-> FALSE, full |-> FALSE, norm |-> 0, row |-> row]
AccAddr(row, accumulate, full) ==
    [acc |-> TRUE, accumulate |-> accumulate, full |-> full, norm |-> 0, row |-> row]
GARBAGE_ADDR == [acc |-> TRUE, accumulate |-> TRUE, full |-> TRUE, norm |-> 7, row |-> -1]

------------------------------------------------------------------------------
Cols == 0 .. DIM - 1

NormStats == [sum |-> Zero, count |-> 0, running_max |-> {}, max |-> {}, mean |-> Zero,
              inv_stddev |-> Zero, inv_sum_exp |-> Zero, reset |-> TRUE]

\* The registers that reset() leaves alone hold no meaningful value; the programs
\* configure them before use, and they start here as zero.
Reset ==
    [spad        |-> [x \in (0 .. SP_ROWS - 1) \X Cols |-> Zero],
     accumulator |-> [x \in (0 .. ACC_ROWS - 1) \X Cols |-> Zero],
     pe_state    |-> [x \in Cols \X Cols |-> Zero],
     load        |-> [id \in 0..2 |-> [stride |-> 0, block_stride |-> 0, shrunk |-> FALSE,
                                       scale |-> Identity, pixels |-> 1]],
     ex          |-> [mode |-> "OS", act |-> NONE, shift |-> 0, a_transpose |-> FALSE,
                      b_transpose |-> FALSE, a_stride |-> 0, c_stride |-> 0],
     store       |-> [stride |-> 0, act |-> NONE, scale |-> Identity, pool_stride |-> 0,
                      pool_size |-> 0, out_dim |-> 0, porows |-> 0, pocols |-> 0,
                      orows |-> 0, ocols |-> 0, upad |-> 0, lpad |-> 0],
     preload     |-> [addr |-> GARBAGE_ADDR, cols |-> 0, rows |-> 0,
                      out |-> GARBAGE_ADDR, out_cols |-> 0, out_rows |-> 0],
     norm        |-> [id |-> 0, stats |-> [i \in 0 .. NORM_STAT_IDS - 1 |-> NormStats]],
     D_sp_addr_row |-> 0,
     C_sp_addr_row |-> 0,
     dram        |-> << >>,    \* what the accelerator wrote: address -> value
     reads       |-> {},       \* <<address, size>> of every read of main memory
     fault       |-> FALSE]    \* an index was out of range, or a check called exit(1)

Fault(g) == [g EXCEPT !.fault = TRUE]

\* a value of size bytes, as it was stored there or as main memory held it at the start
ReadDram(g, addr, size) ==
    IF addr \notin DOMAIN g.dram THEN Atom(<<"dram", addr, size>>)
    ELSE IF g.dram[addr].size = size THEN g.dram[addr].value
    ELSE Atom(<<"part", g.dram[addr], size>>)

\* The writes of a loop nest, in its order 0 .. n-1: the last one to a cell stays, or
\* all of them are added.
Written(mem, ns, Cell(_), Value(_), accumulate) ==
    [x \in {Cell(n) : n \in ns} |->
        LET here == {n \in ns : Cell(n) = x}
        IN IF accumulate THEN mem[x] (+) Sum(here, Value) ELSE Value(Max(here))] @@ mem

InRange(mem, cells) == cells \subseteq DOMAIN mem

------------------------------------------------------------------------------
(* mvin                                                                     *)

Mvin(g, id, dram_addr, addr, cols, rows) ==
    LET ld == g.load[id]
        size == IF addr.acc /\ ~ld.shrunk THEN SizeofAcc ELSE 1
        Row(n) == n \div (cols * ld.pixels)
        Col(n) == (n \div ld.pixels) % cols
        Pixel(n) == n % ld.pixels
        SpadRow(n) == addr.row + Row(n) + (Col(n) \div DIM) * ld.block_stride
        ns == {n \in 0 .. rows * cols * ld.pixels - 1 : Pixel(n) <= SpadRow(n)}
        Cell(n) == <<SpadRow(n) - Pixel(n), (Col(n) % DIM) + Pixel(n) * cols>>
        Byte(n) == dram_addr + Row(n) * ld.stride + Col(n) * size
        \* with MVIN_SCALE and without MVIN_ACC_SCALE only elem_t values are scaled
        Value(n) == IF dram_addr = 0 THEN Zero
                    ELSE IF size = 1 THEN Scaled(ReadDram(g, Byte(n), 1), ld.scale)
                    ELSE ReadDram(g, Byte(n), size)
        reads == IF dram_addr = 0 THEN {} ELSE {<<Byte(n), size>> : n \in ns}
        h == [g EXCEPT !.reads = @ \cup reads]
    IN IF addr.acc
       THEN IF InRange(g.accumulator, {Cell(n) : n \in ns})
            THEN [h EXCEPT !.accumulator = Written(@, ns, Cell, Value, addr.accumulate)]
            ELSE Fault(h)
       ELSE IF InRange(g.spad, {Cell(n) : n \in ns})
            THEN [h EXCEPT !.spad = Written(@, ns, Cell, Value, FALSE)]
            ELSE Fault(h)

------------------------------------------------------------------------------
(* Normalisation statistics and activations of mvout                        *)

RESET == 0
SUM == 1
MEAN == 2
VARIANCE == 3
INV_STDDEV == 4
MAX == 5
SUM_EXP == 6
INV_SUM_EXP == 7

NonTerminating(cmd) == IF cmd \in {MEAN, INV_STDDEV, INV_SUM_EXP} THEN cmd - 1 ELSE cmd

\* statistics s with the values of one block x added to them
Gathered(s, x, cmd) ==
    CASE cmd \in {SUM, MEAN} ->
           [s EXCEPT !.sum = @ (+) Sum(DOMAIN x, LAMBDA i : x[i]), !.count = @ + Len(x)]
      [] cmd \in {VARIANCE, INV_STDDEV} ->
           [s EXCEPT !.sum = @ (+) Sum(DOMAIN x, LAMBDA i : Atom(<<"square", x[i], s.mean>>)),
                     !.count = @ + Len(x)]
      [] cmd = MAX -> [s EXCEPT !.running_max = @ \cup {x[i] : i \in DOMAIN x}]
      [] cmd \in {SUM_EXP, INV_SUM_EXP} ->
           [s EXCEPT !.max = s.running_max,
                     !.sum = @ (+) Sum(DOMAIN x, LAMBDA i : Atom(<<"exp", x[i], s.running_max>>))]
      [] OTHER -> s

\* the result of the pass, at the last block of the row
Concluded(s, cmd) ==
    CASE cmd = MEAN -> [s EXCEPT !.mean = Atom(<<"mean", s.sum, s.count>>)]
      [] cmd = INV_STDDEV -> [s EXCEPT !.inv_stddev = Atom(<<"inv_stddev", s.sum, s.count>>)]
      [] cmd = INV_SUM_EXP -> [s EXCEPT !.running_max = {}, !.inv_sum_exp = Atom(<<"inv_sum_exp", s.sum>>)]
      [] OTHER -> s

\* the statistics after one block x of a row went through the command
ApplyNorm(st, x, cmd) ==
    LET cleared == IF st.reset
                   THEN [st EXCEPT !.sum = Zero, !.count = 0, !.running_max = {}] ELSE st
    IN Concluded(Gathered([cleared EXCEPT !.reset = cmd \in {RESET, MEAN, INV_STDDEV}], x, cmd), cmd)

PreActivation(g, v) ==
    LET st == g.norm.stats[g.norm.id]
    IN CASE g.store.act = IGELU -> Atom(<<"igelu", v>>)
         [] g.store.act = LAYERNORM -> Atom(<<"layernorm", v, st.mean, st.inv_stddev>>)
         [] g.store.act = SOFTMAX -> Atom(<<"softmax", v, st.max, st.inv_sum_exp>>)
         [] OTHER -> v

\* acc_scale and apply_activation: what an elem_t of the output holds
Activated(v, scale, act) == Atom(<<"elem", Scaled(v, scale), act = RELU>>)

------------------------------------------------------------------------------
(* mvout                                                                    *)

\* The norm command sees every block of the row.  The statistics are taken from the
\* accumulator row even when the data are in the scratchpad.
RowStats(g, addr, cols, i) ==
    LET last == (cols - 1) \div DIM
        Block(b) == [n \in 1 .. Min({DIM, cols - b * DIM}) |->
                        g.accumulator[<<addr.row + b * DIM + i, n - 1>>]]
        stats[b \in -1 .. last] ==
            IF b = -1 THEN g.norm.stats[g.norm.id]
            ELSE ApplyNorm(stats[b - 1], Block(b), IF b = last THEN addr.norm ELSE NonTerminating(addr.norm))
    IN stats[last]

\* the row that is written, with the statistics it has now
RowWritten(g, dram_row_addr, addr, cols, i) ==
    LET size == IF addr.acc /\ addr.full THEN SizeofAcc ELSE 1
        Cell(j) == <<addr.row + (j \div DIM) * DIM + i, j % DIM>>
        FromAcc(v) == IF addr.full THEN v ELSE Activated(v, g.store.scale, g.store.act)
        Stored(j) == [size |-> size,
                      value |-> IF addr.acc THEN FromAcc(PreActivation(g, g.accumulator[Cell(j)]))
                                ELSE g.spad[Cell(j)]]
    IN [g EXCEPT !.dram = Written(@, 0 .. cols - 1, LAMBDA j : dram_row_addr + j * size, Stored, FALSE)]

\* One row: only RESET lets it be written.
MvoutRow(g, dram_row_addr, addr, cols, i) ==
    LET Counted(stats) == [g EXCEPT !.norm.stats[g.norm.id] = stats]
        Output(h) == IF addr.norm # RESET THEN h ELSE RowWritten(h, dram_row_addr, addr, cols, i)
    IN IF ~InRange(g.accumulator, {<<addr.row + b * DIM + i, 0>> : b \in 0 .. (cols - 1) \div DIM})
          \/ (~addr.acc /\ ~InRange(g.spad, {<<addr.row + (j \div DIM) * DIM + i, j % DIM>> : j \in 0 .. cols - 1}))
       THEN Fault(g)
       ELSE Output(Counted(RowStats(g, addr, cols, i)))

MvoutPooled(g, dram_addr, addr, channels) ==
    LET st == g.store
        window == (0 .. st.pool_size - 1) \X (0 .. st.pool_size - 1)
        ns == 0 .. st.porows * st.pocols * channels - 1
        Porow(n) == n \div (st.pocols * channels)
        Pocol(n) == (n \div channels) % st.pocols
        Poch(n) == n % channels
        Orow(n, w) == Porow(n) * st.pool_stride + w[1] - st.upad
        Ocol(n, w) == Pocol(n) * st.pool_stride + w[2] - st.lpad
        Inside(n, w) == Orow(n, w) \in 0 .. st.orows - 1 /\ Ocol(n, w) \in 0 .. st.ocols - 1
        Cell(n, w) == <<addr.row + Orow(n, w) * st.ocols + Ocol(n, w), Poch(n)>>
        Elem(n, w) == IF ~Inside(n, w) THEN Zero
                      ELSE IF addr.acc THEN Activated(g.accumulator[Cell(n, w)], st.scale, st.act)
                      ELSE g.spad[Cell(n, w)]
        Byte(n) == dram_addr + (Porow(n) * st.out_dim + Pocol(n)) * st.stride + Poch(n)
        Stored(n) == [size |-> 1, value |-> Atom(<<"max", {Elem(n, w) : w \in window}>>)]
        cells == {Cell(p[1], p[2]) : p \in {q \in ns \X window : Inside(q[1], q[2])}}
    IN IF InRange(IF addr.acc THEN g.accumulator ELSE g.spad, cells)
       THEN [g EXCEPT !.dram = Written(@, ns, Byte, Stored, FALSE)]
       ELSE Fault(g)

Mvout(g, dram_addr, addr, cols, rows) ==
    IF g.store.pool_stride # 0 THEN MvoutPooled(g, dram_addr, addr, cols)
    ELSE LET after[i \in 0 .. rows] ==
                IF i = 0 THEN g
                ELSE IF after[i - 1].fault THEN after[i - 1]
                ELSE MvoutRow(after[i - 1], dram_addr + (i - 1) * g.store.stride, addr, cols, i - 1)
         IN after[rows]

------------------------------------------------------------------------------
(* config: one operator per configuration; fields keep the width of the ISA *)

ConfigEx(g, mode, act, shift, a_transpose, b_transpose, a_stride, c_stride, set_only_strides) ==
    LET strides == [g EXCEPT !.ex.a_stride = a_stride % 2^16, !.ex.c_stride = c_stride % 2^16]
        \* NONE keeps a softmax that is in force
        new_act == IF act = NONE /\ g.store.act = SOFTMAX THEN SOFTMAX ELSE act
    IN IF (mode = "OS" /\ ~a_transpose /\ b_transpose) \/ (mode = "WS" /\ a_transpose /\ b_transpose)
       THEN Fault(g)
       ELSE IF set_only_strides THEN strides
       ELSE [strides EXCEPT !.ex.mode = mode, !.ex.act = new_act, !.ex.shift = shift,
                            !.ex.a_transpose = a_transpose, !.ex.b_transpose = b_transpose]

ConfigLd(g, id, stride, scale, shrunk, block_stride, pixels) ==
    [g EXCEPT !.load[id] = [stride |-> stride, scale |-> scale, shrunk |-> shrunk,
                            block_stride |-> block_stride % 2^16,
                            pixels |-> IF pixels % 2^8 = 0 THEN 1 ELSE pixels % 2^8]]

ConfigSt(g, stride, act, scale, pool) ==
    [g EXCEPT !.store = [stride |-> stride, scale |-> scale,
                         act |-> IF act % 4 = NONE /\ @.act = SOFTMAX THEN SOFTMAX ELSE act % 4,
                         pool_stride |-> pool.stride % 4, pool_size |-> pool.size % 4,
                         upad |-> pool.upad % 4, lpad |-> pool.lpad % 4,
                         out_dim |-> pool.out_dim % 2^8,
                         porows |-> pool.porows % 2^8, pocols |-> pool.pocols % 2^8,
                         orows |-> pool.orows % 2^8, ocols |-> pool.ocols % 2^8]]

NoPool == [stride |-> 0, size |-> 0, upad |-> 0, lpad |-> 0, out_dim |-> 0,
           porows |-> 0, pocols |-> 0, orows |-> 0, ocols |-> 0]

\* the constants of the polynomial approximations are not part of a symbolic value
ConfigNorm(g, stat_id, set_stats_id_only, act_msb) ==
    LET h == [g EXCEPT !.norm.id = stat_id]
        act == IF act_msb = 1 /\ g.store.act < 4 THEN g.store.act + 4 ELSE g.store.act
    IN IF set_stats_id_only THEN h
       ELSE IF act > SOFTMAX THEN Fault(h)
       ELSE [h EXCEPT !.store.act = act]

------------------------------------------------------------------------------
(* preload and compute                                                      *)

Preload(g, addr, cols, rows, out, out_cols, out_rows) ==
    [g EXCEPT !.preload = [addr |-> addr, cols |-> cols, rows |-> rows,
                           out |-> out, out_cols |-> out_cols, out_rows |-> out_rows]]

\* A rows x cols operand of compute, and the cells of the scratchpad it is read from
Operand(g, addr, cols, rows, stride, transpose, i, j) ==
    IF addr # GARBAGE_ADDR /\ i < rows /\ j < cols
    THEN g.spad[<<addr.row + stride * (IF transpose THEN j ELSE i), IF transpose THEN i ELSE j>>]
    ELSE Zero

OperandCells(addr, cols, rows, stride, transpose) ==
    IF addr = GARBAGE_ADDR THEN {}
    ELSE {<<addr.row + stride * (IF transpose THEN x[2] ELSE x[1]), IF transpose THEN x[1] ELSE x[2]>> :
            x \in {y \in Cols \X Cols : y[1] < rows /\ y[2] < cols}}

\* the weights, or in the output-stationary dataflow the sums, that the array holds
PeState(g, preloaded) ==
    LET p == g.preload
    IN IF ~preloaded THEN g.pe_state
       ELSE [x \in Cols \X Cols |->
               IF x[1] < p.rows /\ x[2] < p.cols
               THEN Operand(g, p.addr, DIM, DIM, 1, g.ex.mode = "WS" /\ g.ex.b_transpose, x[1], x[2])
               ELSE Zero]

\* With a garbage A the code multiplies with an uninitialised elem_t.
Results(g, pe, a, a_cols, a_rows, bd, bd_cols, bd_rows) ==
    LET A(i, k) == IF a = GARBAGE_ADDR THEN Atom(<<"uninitialised">>)
                   ELSE Operand(g, a, a_cols, a_rows, g.ex.a_stride, g.ex.a_transpose, i, k)
        BD(transpose, i, j) == Operand(g, bd, bd_cols, bd_rows, 1, transpose, i, j)
    IN IF g.ex.mode = "WS"
       THEN [x \in Cols \X Cols |->
               BD(FALSE, x[1], x[2]) (+) Sum(Cols, LAMBDA k : Times(A(x[1], k), pe[<<k, x[2]>>]))]
       ELSE [x \in Cols \X Cols |->
               pe[x] (+) Sum(Cols, LAMBDA k : Times(A(x[1], k), BD(g.ex.b_transpose, k, x[2])))]

\* the results go where the preload said
ResultsWritten(g, result) ==
    LET p == g.preload
        ns == 0 .. p.out_rows * p.out_cols - 1
        Cell(n) == <<p.out.row + g.ex.c_stride * (n \div p.out_cols), n % p.out_cols>>
        Value(n) == result[<<n \div p.out_cols, n % p.out_cols>>]
        shift == IF g.ex.mode = "WS" \/ g.ex.shift = 0 THEN Identity ELSE g.ex.shift
        Elem(n) == Atom(<<"elem", Scaled(Value(n), shift), g.ex.act = RELU>>)
    IN IF p.out = GARBAGE_ADDR THEN g
       ELSE IF ~InRange(IF p.out.acc THEN g.accumulator ELSE g.spad, {Cell(n) : n \in ns}) THEN Fault(g)
       ELSE IF p.out.acc THEN [g EXCEPT !.accumulator = Written(@, ns, Cell, Value, p.out.accumulate)]
       ELSE [g EXCEPT !.spad = Written(@, ns, Cell, Elem, FALSE)]

Compute(g, a, a_cols, a_rows, bd, bd_cols, bd_rows, preloaded) ==
    LET p == g.preload
        ws == g.ex.mode = "WS"
        read == OperandCells(a, a_cols, a_rows, g.ex.a_stride, g.ex.a_transpose)
                \cup OperandCells(bd, bd_cols, bd_rows, 1, FALSE)
                \cup (IF ws THEN {} ELSE OperandCells(bd, bd_cols, bd_rows, 1, g.ex.b_transpose))
                \cup (IF preloaded THEN OperandCells(p.addr, p.cols, p.rows, 1, ws /\ g.ex.b_transpose) ELSE {})
        Kept(pe, result) == ResultsWritten([g EXCEPT !.pe_state = IF ws THEN pe ELSE result], result)
        Computed(pe) == Kept(pe, Results(g, pe, a, a_cols, a_rows, bd, bd_cols, bd_rows))
    IN IF (preloaded /\ p.addr # GARBAGE_ADDR /\ p.addr.acc) \/ ~InRange(g.spad, read) THEN Fault(g)
       ELSE Computed(PeState(g, preloaded))

------------------------------------------------------------------------------
(* Commands, as the instruction loops issue them, and the dispatch of       *)
(* CUSTOMFN.  A faulted simulator has ended.                                *)

MVIN(id, dram_addr, addr, cols, rows) ==
    [op |-> "mvin", id |-> id, dram |-> dram_addr, addr |-> addr, cols |-> cols, rows |-> rows]
MVOUT(dram_addr, addr, cols, rows) ==
    [op |-> "mvout", dram |-> dram_addr, addr |-> addr, cols |-> cols, rows |-> rows]
PRELOAD(addr, cols, rows, out, out_cols, out_rows) ==
    [op |-> "preload", addr |-> addr, cols |-> cols, rows |-> rows,
     out |-> out, out_cols |-> out_cols, out_rows |-> out_rows]
COMPUTE(a, a_cols, a_rows, bd, bd_cols, bd_rows, preloaded) ==
    [op |-> "compute", a |-> a, a_cols |-> a_cols, a_rows |-> a_rows,
     bd |-> bd, bd_cols |-> bd_cols, bd_rows |-> bd_rows, preloaded |-> preloaded]
CONFIG_EX(mode, act, shift, a_transpose, b_transpose, a_stride, c_stride, set_only_strides) ==
    [op |-> "config_ex", mode |-> mode, act |-> act, shift |-> shift, a_transpose |-> a_transpose,
     b_transpose |-> b_transpose, a_stride |-> a_stride, c_stride |-> c_stride,
     set_only_strides |-> set_only_strides]
CONFIG_LD(id, stride, scale, shrunk, block_stride, pixels) ==
    [op |-> "config_ld", id |-> id, stride |-> stride, scale |-> scale, shrunk |-> shrunk,
     block_stride |-> block_stride, pixels |-> pixels]
CONFIG_ST(stride, act, scale, pool) ==
    [op |-> "config_st", stride |-> stride, act |-> act, scale |-> scale, pool |-> pool]
CONFIG_NORM(stat_id, set_stats_id_only, act_msb) ==
    [op |-> "config_norm", stat_id |-> stat_id, set_stats_id_only |-> set_stats_id_only, act_msb |-> act_msb]

Execute(g, c) ==
         CASE c.op = "mvin" -> Mvin(g, c.id, c.dram, c.addr, c.cols, c.rows)
           [] c.op = "mvout" -> Mvout(g, c.dram, c.addr, c.cols, c.rows)
           [] c.op = "preload" -> Preload(g, c.addr, c.cols, c.rows, c.out, c.out_cols, c.out_rows)
           [] c.op = "compute" -> Compute(g, c.a, c.a_cols, c.a_rows, c.bd, c.bd_cols, c.bd_rows, c.preloaded)
           [] c.op = "config_ex" -> ConfigEx(g, c.mode, c.act, c.shift, c.a_transpose, c.b_transpose,
                                             c.a_stride, c.c_stride, c.set_only_strides)
           [] c.op = "config_ld" -> ConfigLd(g, c.id, c.stride, c.scale, c.shrunk, c.block_stride, c.pixels)
           [] c.op = "config_st" -> ConfigSt(g, c.stride, c.act, c.scale, c.pool)
           [] c.op = "config_norm" -> ConfigNorm(g, c.stat_id, c.set_stats_id_only, c.act_msb)

\* one command after the other; the sequence is halved to keep the recursion shallow
RECURSIVE Run(_, _)
Run(g, cs) ==
    LET half == Len(cs) \div 2
    IN IF g.fault \/ cs = << >> THEN g
       ELSE IF half = 0 THEN Execute(g, cs[1])
       ELSE Run(Run(g, SubSeq(cs, 1, half)), SubSeq(cs, half + 1, Len(cs)))

==============================================================================
