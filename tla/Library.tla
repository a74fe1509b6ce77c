------------------------------- MODULE Library -------------------------------
(***************************************************************************)
(* Programs that call the C library: one call after the other on the same   *)
(* simulator, whose configuration and memories the next call finds as the   *)
(* last one left them.  The properties compare every call with its CPU      *)
(* version.                                                                 *)
(***************************************************************************)
EXTENDS ConvLibrary, MatmulLibrary

FirstArgs(m) ==
    CASE m.kind = "conv" -> MaxArgs(m)
      [] m.kind = "matmul" -> MatmulFirst(m)
      [] m.kind \in {"resadd", "norm"} -> <<m.dim_I, m.dim_J>>
      [] m.kind = "average" -> <<1, m.channels>>

FirstPc(m) ==
    CASE m.kind = "conv" -> "shrink"
      [] m.kind = "matmul" -> "fill"
      [] OTHER -> "reduce"

\* the calls of a program
InitWith(Programs) ==
    /\ todo \in Programs
    /\ c = [kind |-> "none"] /\ pc = "done"
    /\ args = << >> /\ at = << >>
    /\ scan = [i |-> 1, nothing_increased |-> TRUE]
    /\ g = Reset /\ before = g.dram

Call ==
    /\ pc = "done" /\ ~g.fault /\ todo # << >>
    /\ LET m == Head(todo)
       IN /\ c' = m /\ pc' = FirstPc(m)
          /\ args' = FirstArgs(m)
          /\ at' = [i \in DOMAIN FirstArgs(m) |-> 0]
    /\ todo' = Tail(todo)
    /\ before' = g.dram
    /\ g' = [g EXCEPT !.reads = {}]
    /\ scan' = [i |-> 1, nothing_increased |-> TRUE]

\* exit(0), or exit(1) and an exception of the simulator
Terminated == pc = "done" /\ (g.fault \/ todo = << >>) /\ UNCHANGED vars

Search == Shrink \/ Fitting \/ IncreaseOcols \/ Increase \/ Fill \/ Reduce

Next ==
    \/ Call
    \/ Shrink \/ Fitting \/ IncreaseOcols \/ Increase \/ Fill \/ Reduce
    \/ ConvStart \/ ConvTile
    \/ MatmulStart \/ MatmulTile
    \/ ResaddStart \/ ResaddTile
    \/ AverageStart \/ AverageTile
    \/ NormStart \/ NormTile
    \/ Terminated

------------------------------------------------------------------------------
(* Properties                                                               *)

Limits ==
    CASE c.kind = "conv" -> Limit(c)
      [] c.kind = "matmul" -> [i \in 1..3 |-> Blocks(Dims(c)[i])]
      [] c.kind \in {"resadd", "norm"} -> <<c.dim_I, c.dim_J>>
      [] c.kind = "average" -> <<c.batches, c.channels>>

\* Types.  A tile is never empty: with a size of 0 the loops over the tiles would not end.
TypeOK ==
    /\ pc \in {"shrink", "ocols", "grow", "fill", "reduce", "check", "run", "done"}
    /\ c.kind # "none" => /\ \A i \in DOMAIN args : args[i] \in 1 .. Limits[i]
                          /\ \A i \in DOMAIN at : at[i] \in 0 .. Limits[i] - 1
    /\ scan.i \in Index /\ scan.nothing_increased \in BOOLEAN
    /\ g.fault \in BOOLEAN

Cpu(m) ==
    CASE m.kind = "conv" -> ConvCpu(m)
      [] m.kind = "matmul" -> MatmulCpu(m)
      [] m.kind = "resadd" -> ResaddCpu(m)
      [] m.kind = "average" -> AverageCpu(m)
      [] m.kind = "norm" -> NormCpu(m)

\* The call ends, no check of the library or of the simulator stops it, and main memory
\* then holds what its CPU version (conv_cpu, matmul_cpu, ...) computes from what was there
\* before, at the addresses the CPU version writes and nowhere else.  In particular no
\* configuration of an earlier call is still in force.
ResultIsCpu == pc = "done" /\ c.kind # "none" => ~g.fault /\ g.dram = Cpu(c) @@ before

\* Elements of the arrays the caller passes: <<address, size>>
ConvElements(cv) ==
    LET pixels == 0 .. cv.in_row_dim * cv.in_col_dim - 1
        batches == 0 .. cv.batch_size - 1
        ichs == 0 .. cv.in_channels - 1
        ochs == 0 .. cv.out_channels - 1
        image == cv.in_row_dim * cv.in_col_dim
        taps == cv.kernel_dim * cv.kernel_dim
    IN {<<IF cv.trans_input_3120 THEN cv.input + (ch * image + px) * cv.batch_size + b
          ELSE cv.input + (b * image + px) * cv.in_stride + ch, 1>> : b \in batches, px \in pixels, ch \in ichs}
       \cup (IF cv.dw \/ cv.trans_weight_1203 \/ cv.trans_weight_0132
             THEN {<<cv.weights + w, 1>> : w \in 0 .. taps * cv.out_channels * (IF cv.dw THEN 1 ELSE cv.in_channels) - 1}
             ELSE {<<cv.weights + w * cv.weight_stride + och, 1>> : w \in 0 .. taps * cv.in_channels - 1, och \in ochs})
       \cup (IF cv.no_bias THEN {} ELSE {<<cv.bias + och * SizeofAcc, SizeofAcc>> : och \in ochs})

Matrix(base, rows, cols, stride, size) ==
    {<<base + (i * stride + j) * size, size>> : i \in 0 .. rows - 1, j \in 0 .. cols - 1}

Elements(m) ==
    CASE m.kind = "conv" -> ConvElements(m)
      [] m.kind = "matmul" ->
            (IF m.transpose_A THEN Matrix(m.A, m.dim_K, m.dim_I, m.stride_A, 1)
                              ELSE Matrix(m.A, m.dim_I, m.dim_K, m.stride_A, 1)) \cup
            (IF m.transpose_B THEN Matrix(m.B, m.dim_J, m.dim_K, m.stride_B, 1)
                              ELSE Matrix(m.B, m.dim_K, m.dim_J, m.stride_B, 1)) \cup
            (IF m.D = 0 THEN {}
             ELSE Matrix(m.D, IF m.repeating_bias THEN 1 ELSE m.dim_I, m.dim_J, m.stride_D,
                         IF m.low_D THEN 1 ELSE SizeofAcc))
      [] m.kind = "resadd" -> Matrix(m.A, m.dim_I, m.dim_J, m.stride, 1) \cup
                              Matrix(m.B, m.dim_I, m.dim_J, m.stride, 1)
      [] m.kind = "average" -> Matrix(m.A, m.batches * m.dim * m.dim, m.channels, m.channels, 1)
      [] m.kind = "norm" -> Matrix(m.A, m.dim_I, m.dim_J, m.dim_J, SizeofAcc)

\* No tile reads main memory outside the arrays of the call: the loads at the border of an
\* image, of a kernel, of the channels and of a matrix stop where the arrays do.
ReadsInArrays == c.kind # "none" => g.reads \subseteq Elements(c)

\* The rows of the scratchpad that loop_conv_ws gives to the inputs and to the weights
RegionRows(p) ==
    LET image == DS(p, p.irows) * DS(p, p.icols)
    IN [inputs |-> image * (IF p.trans_input_3120 THEN Blocks(p.batches) * p.kchs ELSE Blocks(p.kchs) * p.batches),
        weights |-> p.krows * p.kcols * (IF p.trans_weight_0132 THEN Blocks(p.kchs) * p.ochs
                                                                ELSE Blocks(p.ochs) * p.kchs),
        outputs |-> Blocks(p.ochs) * p.batches * p.orows * p.ocols]


\* An output is stored once: no tile stores over what another tile of the call has stored.
StoredOnce ==
    [][/\ DOMAIN g.dram \subseteq DOMAIN g'.dram
       /\ \A a \in DOMAIN g.dram : \/ g'.dram[a] = g.dram[a]
                                   \/ a \in DOMAIN before /\ g.dram[a] = before[a]]_vars

\* The tile search comes to an end, although that of a convolution first shrinks the tile
\* and then grows it again, one size at a time.
SearchEnds == (pc \in {"shrink", "ocols", "grow", "fill", "reduce"}) ~> (pc = "check")

==============================================================================
