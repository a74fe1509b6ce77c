---------------------------- MODULE MatmulLibrary ----------------------------
(***************************************************************************)
(* The other calls of the C library (gemmini.h): matrix multiplication in   *)
(* both dataflows (tiled_matmul_auto, tiled_matmul, tiled_matmul_outer),    *)
(* residual addition (tiled_resadd_auto), global average                    *)
(* (tiled_global_average_auto) and normalisation (tiled_norm_auto), and     *)
(* what the CPU versions of them compute.                                   *)
(***************************************************************************)
EXTENDS LibraryCall

Dims(m) == <<m.dim_I, m.dim_J, m.dim_K>>

------------------------------------------------------------------------------
(* The references                                                           *)

\* what LAYERNORM and SOFTMAX make of a row of sums
Normalized(row, act) ==
    LET mean == Atom(<<"mean", Sum(DOMAIN row, LAMBDA j : row[j]), Len(row)>>)
        squares == Sum(DOMAIN row, LAMBDA j : Atom(<<"square", row[j], mean>>))
        max == {row[j] : j \in DOMAIN row}
        exps == Sum(DOMAIN row, LAMBDA j : Atom(<<"exp", row[j], max>>))
    IN [j \in DOMAIN row |->
           IF act = LAYERNORM
           THEN Atom(<<"layernorm", row[j], mean, Atom(<<"inv_stddev", squares, Len(row)>>)>>)
           ELSE Atom(<<"softmax", row[j], max, Atom(<<"inv_sum_exp", exps>>)>>)]

\* matmul_cpu, where a softmax is scaled to its own range and not by scale.  It has neither
\* full_C nor low_D: a full_C result is the sum itself.
MatmulCpu(m) ==
    LET A(i, k) == Scaled(Held(m.A + (IF m.transpose_A THEN k * m.stride_A + i ELSE i * m.stride_A + k), 1), m.A_scale)
        B(k, j) == Scaled(Held(m.B + (IF m.transpose_B THEN j * m.stride_B + k ELSE k * m.stride_B + j), 1), m.B_scale)
        size_D == IF m.low_D THEN 1 ELSE SizeofAcc
        D(i, j) == IF m.D = 0 THEN Zero
                   ELSE Held(m.D + ((IF m.repeating_bias THEN 0 ELSE i) * m.stride_D + j) * size_D, size_D)
        row == [i \in 0 .. m.dim_I - 1 |-> [j \in 1 .. m.dim_J |->
                  D(i, j - 1) (+) Sum(0 .. m.dim_K - 1, LAMBDA k : Times(A(i, k), B(k, j - 1)))]]
        size_C == IF m.full_C THEN SizeofAcc ELSE 1
        outs == (0 .. m.dim_I - 1) \X (0 .. m.dim_J - 1)
        Byte(o) == m.C + (o[1] * m.stride_C + o[2]) * size_C
        norm == [i \in DOMAIN row |-> Normalized(row[i], m.act)]
        Output(o) ==
            CASE m.act = LAYERNORM -> Activated(norm[o[1]][o[2] + 1], m.scale, m.act)
              [] m.act = SOFTMAX -> Activated(norm[o[1]][o[2] + 1], Identity, m.act)
              [] m.act = IGELU -> Activated(Atom(<<"igelu", row[o[1]][o[2] + 1]>>), m.scale, m.act)
              [] OTHER -> Activated(row[o[1]][o[2] + 1], m.scale, m.act)
    IN [a \in {Byte(o) : o \in outs} |->
           LET o == CHOOSE x \in outs : Byte(x) = a
           IN IF m.full_C THEN Acc(row[o[1]][o[2] + 1]) ELSE Elem(Output(o))]

ResaddCpu(m) ==
    LET outs == (0 .. m.dim_I - 1) \X (0 .. m.dim_J - 1)
        At(base, o) == base + o[1] * m.stride + o[2]
    IN [a \in {At(m.C, o) : o \in outs} |->
           LET o == CHOOSE x \in outs : At(m.C, x) = a
           IN Elem(Activated(Scaled(Held(At(m.A, o), 1), m.A_scale) (+) Scaled(Held(At(m.B, o), 1), m.B_scale),
                             m.scale, IF m.relu THEN RELU ELSE NONE))]

\* the division by the number of pixels, with its rounding, is the scale "average"
AverageCpu(m) ==
    LET outs == (0 .. m.batches - 1) \X (0 .. m.channels - 1)
        pixels == m.dim * m.dim
    IN [a \in {m.C + o[1] * m.channels + o[2] : o \in outs} |->
           LET o == CHOOSE x \in outs : m.C + x[1] * m.channels + x[2] = a
           IN Elem(Activated(Sum(0 .. pixels - 1,
                                 LAMBDA px : Held(m.A + (o[1] * pixels + px) * m.channels + o[2], 1)),
                             "average", NONE))]

\* the library has no CPU version of tiled_norm: this is the normalisation of matmul_cpu
NormCpu(m) ==
    LET row == [i \in 0 .. m.dim_I - 1 |->
                  Normalized([j \in 1 .. m.dim_J |-> Held(m.A + (i * m.dim_J + j - 1) * SizeofAcc, SizeofAcc)], m.act)]
    IN [a \in m.C .. m.C + m.dim_I * m.dim_J - 1 |->
           Elem(Activated(row[(a - m.C) \div m.dim_J][((a - m.C) % m.dim_J) + 1], m.scale, m.act))]

------------------------------------------------------------------------------
(* The tile search                                                          *)

\* what a tile may take; the weight-stationary dataflow is double-buffered
Share(m) == IF m.type = "WS" THEN 2 ELSE 1

MatmulFits(m, t) ==
    /\ (t[1] * t[3] + t[3] * t[2]) * DIM <= SP_ROWS \div Share(m)
    /\ t[1] * t[2] * DIM <= ACC_ROWS \div Share(m)

Isqrt(n) == Max({x \in 0 .. n : x * x <= n})

MatmulFirst(m) ==
    LET max_i_j == Isqrt((ACC_ROWS \div Share(m)) \div DIM)
        max_k == (((SP_ROWS \div 2) \div Share(m)) \div DIM) \div max_i_j
    IN IF m.act \in {LAYERNORM, SOFTMAX} THEN <<1, Blocks(m.dim_J), 1>>
       ELSE <<AtMost(max_i_j, Blocks(m.dim_I)), AtMost(max_i_j, Blocks(m.dim_J)), AtMost(max_k, Blocks(m.dim_K))>>

\* one size of tile t is one larger, if that fits; K is compared with the scratchpad only
Grown(m, t, i) ==
    LET u == [t EXCEPT ![i] = @ + 1]
        fits == IF i = 3 THEN (u[1] * u[3] + u[3] * u[2]) * DIM <= SP_ROWS \div Share(m) ELSE MatmulFits(m, u)
    IN IF fits /\ u[i] <= Blocks(Dims(m)[i]) THEN u ELSE t

\* "Fill scratchpad as much as possible": passes that try J, I and K until one changes nothing
Fill ==
    /\ pc = "fill"
    /\ args' = Grown(c, Grown(c, Grown(c, args, 2), 1), 3)
    /\ pc' = IF args' = args THEN "check" ELSE pc
    /\ UNCHANGED <<c, scan, at, g, before, todo>>

\* tiled_resadd_auto, tiled_global_average_auto, tiled_norm_auto: the whole, reduced until it fits
AccRows(t) == Blocks(t[1]) * DIM * Blocks(t[2])

TooLarge ==
    CASE c.kind = "resadd" -> AccRows(args) > ACC_ROWS \div 2
      [] c.kind = "average" -> Blocks(args[2]) > ACC_ROWS
      [] OTHER -> AccRows(args) > ACC_ROWS

Reduce ==
    /\ pc = "reduce"
    /\ IF ~TooLarge THEN pc' = "check" /\ UNCHANGED <<args, g>>
       ELSE IF c.kind = "norm" /\ args[1] = 1 THEN pc' = "done" /\ g' = Fault(g) /\ UNCHANGED args
       ELSE /\ args' = CASE c.kind = "resadd" -> IF args[1] >= args[2] \/ args[2] <= DIM
                                                 THEN [args EXCEPT ![1] = @ \div 2]
                                                 ELSE [args EXCEPT ![2] = @ - DIM]
                         [] c.kind = "average" -> [args EXCEPT ![2] = @ - 1]
                         [] OTHER -> [args EXCEPT ![1] = @ - 1]
            /\ UNCHANGED <<pc, g>>
    /\ UNCHANGED <<c, scan, at, before, todo>>

------------------------------------------------------------------------------
(* tiled_matmul: its checks, and the configuration at the start of          *)
(* tiled_matmul_outer                                                       *)

MatmulRejected ==
    \/ \E i \in 1..3 : args[i] \notin 1 .. AtMost(65535, Blocks(Dims(c)[i]))
    \/ ~MatmulFits(c, args)
    \/ c.type = "OS" /\ (c.transpose_A \/ c.transpose_B)
    \/ c.type = "WS" /\ c.transpose_A /\ c.transpose_B

SizeofD == IF c.low_D THEN 1 ELSE SizeofAcc

MatmulConfig ==
    <<CONFIG_EX(c.type, c.act % 4, 0, c.transpose_A, c.transpose_B, 1, 1, FALSE),
      CONFIG_ST(c.stride_C * SizeofC(c), c.act % 4, c.scale, NoPool),
      CONFIG_LD(0, c.stride_A, c.A_scale, FALSE, DIM, 1),
      CONFIG_LD(1, c.stride_B, c.B_scale, FALSE, DIM, 1),
      CONFIG_LD(2, IF c.repeating_bias THEN 0 ELSE c.stride_D * SizeofD, Identity, c.low_D, DIM, 1)>> \o
    (CASE c.act = IGELU -> <<CONFIG_NORM(0, FALSE, 0)>>
       [] c.act = SOFTMAX -> <<CONFIG_NORM(0, FALSE, 1), CONFIG_NORM(0, FALSE, 1)>>
       [] OTHER -> << >>)

(* tiled_matmul_outer: the arguments of one inner call                      *)

MatmulTiles(i) == (Blocks(Dims(c)[i]) + args[i] - 1) \div args[i]

\* A mistaken variant: three tiles would share the two halves of the scratchpad.
Reuse_Three(x, y) == c.type = "WS" /\ MatmulTiles(x) * MatmulTiles(y) <= 3

\* the tiles of an operand stay in the scratchpad if they fit, one in each half
Reuse(x, y) == c.type = "WS" /\ MatmulTiles(x) * MatmulTiles(y) <= 2

\* A mistaken variant: partial sums are stored as well.
TileOut_EveryK == c.C + (at[1] * c.stride_C + at[2]) * DIM * SizeofC(c)

\* the sums of a tile leave the accumulator when K is done
TileOut ==
    IF at[3] + args[3] < Blocks(c.dim_K) THEN 0
    ELSE c.C + (at[1] * c.stride_C + at[2]) * DIM * SizeofC(c)

InnerCall ==
    LET n == [i \in 1..3 |-> AtMost(args[i], Blocks(Dims(c)[i]) - at[i])]
        Pad(i) == IF at[i] + args[i] >= Blocks(Dims(c)[i]) THEN Blocks(Dims(c)[i]) * DIM - Dims(c)[i] ELSE 0
        Tile(base, row, col, stride) == base + (row * stride + col) * DIM
        a == IF c.transpose_A THEN Tile(c.A, at[3], at[1], c.stride_A) ELSE Tile(c.A, at[1], at[3], c.stride_A)
        b == IF c.transpose_B THEN Tile(c.B, at[2], at[3], c.stride_B) ELSE Tile(c.B, at[3], at[2], c.stride_B)
        a_reuse == Reuse(1, 3)
        b_reuse == Reuse(2, 3)
        D == IF c.D = 0 THEN 1 ELSE c.D       \* a dummy address which isn't NULL
        bias_row == IF c.repeating_bias THEN 0 ELSE at[1]
    IN [I |-> n[1], J |-> n[2], K |-> n[3], pad_I |-> Pad(1), pad_J |-> Pad(2), pad_K |-> Pad(3),
        A |-> IF a_reuse /\ at[2] > 0 THEN 0 ELSE a,
        B |-> IF b_reuse /\ at[1] > 0 THEN 0 ELSE b,
        D |-> IF at[3] # 0 THEN 0 ELSE D + (bias_row * c.stride_D + at[2]) * DIM * SizeofD,
        C |-> TileOut,
        a_spad_id |-> IF ~a_reuse THEN 0 ELSE IF at[1] + at[3] = 0 THEN 1 ELSE 2,
        b_spad_id |-> IF ~b_reuse THEN 0 ELSE IF at[2] + at[3] = 0 THEN 1 ELSE 2,
        no_bias |-> c.D = 0]

\* sp_tiled_matmul_ws: one gemmini_loop_ws
SpTiledMatmulWs(x) ==
    LoopWs(g, [I |-> x.I, J |-> x.J, K |-> x.K, pad_I |-> x.pad_I, pad_J |-> x.pad_J, pad_K |-> x.pad_K,
               A |-> x.A, B |-> x.B, C |-> x.C, D |-> IF x.no_bias THEN 0 ELSE x.D,
               A_stride |-> c.stride_A, B_stride |-> c.stride_B, C_stride |-> c.stride_C,
               D_stride |-> IF c.repeating_bias THEN 0 ELSE c.stride_D,
               a_transpose |-> c.transpose_A, b_transpose |-> c.transpose_B, full_C |-> c.full_C, low_D |-> c.low_D,
               ex_accumulate |-> ~x.no_bias \/ x.D = 0, act |-> c.act,
               a_spad_id |-> x.a_spad_id, b_spad_id |-> x.b_spad_id, is_resadd |-> FALSE])

\* sp_tiled_matmul_os: the instructions themselves
SpTiledMatmulOs(x) ==
    LET A_row(i, k) == (i * x.K + k) * DIM
        B_row(k, j) == SP_ROWS - x.K * x.J * DIM + (k * x.J + j) * DIM
        C_row(i, j) == (i * x.J + j) * DIM
        A_blocks == AtMost(MAX_BLOCK_LEN, x.K)
        B_blocks == AtMost(MAX_BLOCK_LEN, x.J)
        D_blocks == AtMost(MAX_BLOCK_LEN_ACC, x.J)
        \* the columns of blocks of a matrix of n blocks from block m on, and the rows of a block
        Width(m, n, blocks, pad) == AtMost(blocks, n - m) * DIM - (IF m + blocks >= n THEN pad ELSE 0)
        Is == Steps(0, x.I, 1)
        Js == Steps(0, x.J, 1)
        Ks == Steps(0, x.K, 1)
        D_stride == IF c.repeating_bias THEN 0 ELSE c.stride_D
        bias == <<CONFIG_LD(0, D_stride * SizeofAcc, Identity, FALSE, DIM, 1)>> \o
                Each(Is, LAMBDA i : Each(Steps(0, x.J, D_blocks), LAMBDA j :
                    <<MVIN(0, x.D + ((IF c.repeating_bias THEN 0 ELSE i) * c.stride_D + j) * DIM * SizeofAcc,
                           AccAddr(C_row(i, j), FALSE, FALSE), Width(j, x.J, D_blocks, x.pad_J), LenI(x, i))>>))
        loadB == <<CONFIG_LD(0, c.stride_B, c.B_scale, FALSE, DIM, 1)>> \o
                 Each(Steps(0, x.J, B_blocks), LAMBDA j : Each(Ks, LAMBDA k :
                     <<MVIN(0, x.B + (k * c.stride_B + j) * DIM, SpAddr(B_row(k, j)),
                            Width(j, x.J, B_blocks, x.pad_J), LenK(x, k))>>))
        loadA == <<CONFIG_LD(0, c.stride_A, c.A_scale, FALSE, DIM, 1)>> \o
                 Each(Is, LAMBDA i : Each(Steps(0, x.K, A_blocks), LAMBDA k :
                     <<MVIN(0, x.A + (i * c.stride_A + k) * DIM, SpAddr(A_row(i, k)),
                            Width(k, x.K, A_blocks, x.pad_K), LenI(x, i))>>))
        Out(i, j, k) == IF k < x.K - 1 THEN GARBAGE_ADDR
                        ELSE AccAddr(C_row(i, j), ~(x.no_bias /\ x.D # 0), c.full_C)
        compute == Each(Is, LAMBDA i : Each(Js, LAMBDA j : Each(Ks, LAMBDA k :
                     <<PRELOAD(GARBAGE_ADDR, DIM, DIM, Out(i, j, k), LenJ(x, j), LenI(x, i)),
                       COMPUTE(SpAddr(A_row(i, k)), LenK(x, k), LenI(x, i),
                               SpAddr(B_row(k, j)), LenJ(x, j), LenK(x, k), k = 0)>>)))
        out == Each(Is, LAMBDA i : Each(Js, LAMBDA j :
                  <<MVOUT(x.C + (i * c.stride_C + j) * DIM * SizeofC(c), AccAddr(C_row(i, j), TRUE, c.full_C),
                          LenJ(x, j), LenI(x, i))>>))
    IN Run(g, (IF x.D # 0 /\ ~x.no_bias THEN bias ELSE << >>) \o loadB \o loadA \o compute \o
              (IF x.C # 0 THEN out ELSE << >>))

MatmulStart == Start("matmul", MatmulRejected, MatmulConfig)

MatmulTile == RunTile("matmul", [i \in 1..3 |-> Blocks(Dims(c)[i])],
                      IF c.type = "WS" THEN SpTiledMatmulWs(InnerCall) ELSE SpTiledMatmulOs(InnerCall))

------------------------------------------------------------------------------
(* tiled_resadd                                                             *)

ResaddStart ==
    Start("resadd", FALSE,
          <<CONFIG_ST(c.stride, IF c.relu THEN RELU ELSE NONE, c.scale, NoPool),
            CONFIG_EX("WS", NONE, 0, FALSE, FALSE, 1, 1, FALSE),
            CONFIG_LD(0, c.stride, c.A_scale, TRUE, DIM, 1),
            CONFIG_LD(1, c.stride, c.B_scale, TRUE, DIM, 1)>>)

SpTiledResadd(I, J) ==
    LET from == at[1] * c.stride + at[2]
    IN LoopWs(g, [I |-> Blocks(I), J |-> Blocks(J), K |-> 0,
                  pad_I |-> Blocks(I) * DIM - I, pad_J |-> Blocks(J) * DIM - J, pad_K |-> 0,
                  A |-> c.A + from, B |-> c.B + from, C |-> c.C + from, D |-> 0,
                  A_stride |-> c.stride, B_stride |-> c.stride, C_stride |-> c.stride, D_stride |-> 0,
                  a_transpose |-> FALSE, b_transpose |-> FALSE, full_C |-> FALSE, low_D |-> FALSE,
                  ex_accumulate |-> FALSE, act |-> IF c.relu THEN 1 ELSE 0,
                  a_spad_id |-> 0, b_spad_id |-> 0, is_resadd |-> TRUE])

ResaddTile == RunTile("resadd", <<c.dim_I, c.dim_J>>,
                      SpTiledResadd(AtMost(args[1], c.dim_I - at[1]), AtMost(args[2], c.dim_J - at[2])))

------------------------------------------------------------------------------
(* tiled_global_average                                                     *)

AverageStart ==
    Start("average", FALSE,
          <<CONFIG_LD(0, DIM, Identity, TRUE, 1, 1),
            CONFIG_EX("OS", NONE, 0, FALSE, FALSE, 1, 1, FALSE),
            CONFIG_ST(0, NONE, "average", NoPool)>>)

SpTiledGlobalAverage(channels) ==
    LET input == c.A + at[1] * c.dim * c.dim * c.channels + at[2]
        output == c.C + at[1] * c.channels + at[2]
        width == AtMost(MAX_BLOCK_LEN, Blocks(channels)) * DIM
    IN Run(g, Each(Steps(0, channels, width), LAMBDA ch : Each(Steps(0, c.dim * c.dim, 1), LAMBDA pixel :
                  <<MVIN(0, input + pixel * c.channels + ch, AccAddr(ch \div DIM, pixel # 0, FALSE),
                         AtMost(width, channels - ch), 1)>>)) \o
              Each(Steps(0, channels, DIM), LAMBDA ch :
                  <<MVOUT(output + ch, AccAddr(ch \div DIM, FALSE, FALSE), AtMost(DIM, channels - ch), 1)>>))

AverageTile == RunTile("average", <<c.batches, c.channels>>,
                       SpTiledGlobalAverage(AtMost(args[2], c.channels - at[2])))

------------------------------------------------------------------------------
(* tiled_norm                                                               *)

NormStart ==
    Start("norm", FALSE,
          <<CONFIG_ST(c.dim_J, c.act % 4, c.scale, NoPool),
            CONFIG_EX("WS", NONE, 0, FALSE, FALSE, 1, 1, FALSE),
            CONFIG_LD(0, c.dim_J * SizeofAcc, Identity, FALSE, DIM, 1),
            CONFIG_LD(1, c.dim_J * SizeofAcc, Identity, FALSE, DIM, 1)>> \o
          (IF c.act = SOFTMAX THEN <<CONFIG_NORM(0, FALSE, 1), CONFIG_NORM(0, FALSE, 1)>> ELSE << >>))

\* As in LoopWsNorm two passes collect the statistics of a row and a third one writes it,
\* but an mvout takes as many blocks of the row as it can.
SpTiledNorm(I, J) ==
    LET in == c.A + (at[1] * c.dim_J + at[2]) * SizeofAcc
        out == c.C + at[1] * c.dim_J + at[2]
        A_width == AtMost(MAX_BLOCK_LEN_ACC, Blocks(J)) * DIM
        C_width == AtMost(MAX_BLOCK_LEN, Blocks(J)) * DIM
        norm_cmds == IF c.act = LAYERNORM
                     THEN <<<<SUM, MEAN>>, <<VARIANCE, INV_STDDEV>>, <<RESET, RESET>>>>
                     ELSE <<<<MAX, MAX>>, <<SUM_EXP, INV_SUM_EXP>>, <<RESET, RESET>>>>
        MvinRows(i) ==
            Each(Steps(0, J, A_width), LAMBDA j :
              <<MVIN(0, in + (i * c.dim_J + j) * SizeofAcc, AccAddr(i * Blocks(J) + j, FALSE, FALSE),
                     AtMost(A_width, J - j), AtMost(DIM, I - i))>>)
        MvoutPart(i, r, jj, cmd) ==
            MVOUT(out + (i + r) * c.dim_J + jj,
                  [AccAddr(i * Blocks(J) + jj + r, TRUE, FALSE)
                     EXCEPT !.norm = IF jj + C_width >= J THEN cmd[2] ELSE cmd[1]],
                  AtMost(C_width, J - jj), 1)
        MvoutRows(i) ==
            LET rows == AtMost(DIM, I - i)
            IN Each(Steps(0, rows, NORM_STAT_IDS), LAMBDA row : Each(norm_cmds, LAMBDA cmd :
                 Each(Steps(0, AtMost(NORM_STAT_IDS, rows - row), 1), LAMBDA stat_id :
                   <<CONFIG_NORM(stat_id, c.act = SOFTMAX, 0)>> \o
                   Each(Steps(0, J, C_width), LAMBDA jj : <<MvoutPart(i, row + stat_id, jj, cmd)>>))))
    IN Run(g, Each(Steps(0, I, DIM), LAMBDA i : MvinRows(i) \o MvoutRows(i)))

NormTile == RunTile("norm", <<c.dim_I, c.dim_J>>,
                    SpTiledNorm(AtMost(args[1], c.dim_I - at[1]), AtMost(args[2], c.dim_J - at[2])))

==============================================================================
