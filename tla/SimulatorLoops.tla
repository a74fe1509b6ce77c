--------------------------- MODULE SimulatorLoops ---------------------------
(***************************************************************************)
(* The two instructions of the functional simulator that are loops over     *)
(* other instructions: loop_ws (a tile of a matrix multiplication, or of a  *)
(* residual addition) and loop_conv_ws (a tile of a convolution).  A loop   *)
(* is the sequence of the commands it issues, in order; Run executes them.  *)
(* The record p of a loop holds its configuration, decoded to the widths    *)
(* of the fields.                                                           *)
(***************************************************************************)
EXTENDS Simulator

CONSTANTS MAX_BLOCK_LEN, MAX_BLOCK_LEN_ACC

ASSUME BlockLenAssumption == {MAX_BLOCK_LEN, MAX_BLOCK_LEN_ACC} \subseteq Nat \ {0}

\* for (x = lo; x < hi; x += by)
Steps(lo, hi, by) == [n \in 1 .. (hi - lo + by - 1) \div by |-> lo + (n - 1) * by]

Each(s, Body(_)) ==
    LET upto[n \in 0 .. Len(s)] == IF n = 0 THEN << >> ELSE upto[n - 1] \o Body(s[n])
    IN upto[Len(s)]

AtMost(limit, n) == IF n > limit THEN limit ELSE n

\* integer division of C, towards zero, and its remainder
CDiv(a, b) == IF a >= 0 THEN a \div b ELSE -((-a) \div b)
CMod(a, b) == a - b * CDiv(a, b)

------------------------------------------------------------------------------
(* loop_ws                                                                  *)

LoopWsFields(p) ==
    [p EXCEPT !.I = @ % 2^16, !.J = @ % 2^16, !.K = @ % 2^16,
              !.pad_I = @ % 2^16, !.pad_J = @ % 2^16, !.pad_K = @ % 2^16,
              !.act = @ % 2^3, !.a_spad_id = @ % 4, !.b_spad_id = @ % 4]

\* A mistaken variant: the last block of K is not cut off.
LenK_NoPad(p, k) == DIM

LenI(p, i) == DIM - (IF i = p.I - 1 THEN p.pad_I ELSE 0)
LenJ(p, j) == DIM - (IF j = p.J - 1 THEN p.pad_J ELSE 0)
LenK(p, k) == DIM - (IF k = p.K - 1 THEN p.pad_K ELSE 0)

SizeofC(p) == IF p.full_C THEN SizeofAcc ELSE 1

LoopWsMvout(p, i, j) ==
    MVOUT(p.C + (i * p.C_stride + j) * DIM * SizeofC(p),
          AccAddr((i * p.J + j) * DIM, TRUE, p.full_C), LenJ(p, j), LenI(p, i))

LoopWsResadd(p) ==
    Each(Steps(0, p.I, 1), LAMBDA i : Each(Steps(0, p.J, 1), LAMBDA j :
        LET row == (i * p.J + j) * DIM
        IN <<MVIN(0, p.A + (i * p.A_stride + j) * DIM, AccAddr(row, FALSE, FALSE), LenJ(p, j), LenI(p, i)),
             MVIN(1, p.B + (i * p.B_stride + j) * DIM, AccAddr(row, TRUE, FALSE), LenJ(p, j), LenI(p, i))>>
           \o (IF p.C # 0 THEN <<LoopWsMvout(p, i, j)>> ELSE << >>)))

LoopWsBias(p) ==
    IF p.D = 0 THEN << >>
    ELSE Each(Steps(0, p.I, 1), LAMBDA i : Each(Steps(0, p.J, 1), LAMBDA j :
            <<MVIN(2, p.D + (i * p.D_stride + j) * DIM * (IF p.low_D THEN 1 ELSE SizeofAcc),
                   AccAddr((i * p.J + j) * DIM, FALSE, FALSE), LenJ(p, j), LenI(p, i))>>))

\* The rows of block row i go out NORM_STAT_IDS at a time: two passes for their
\* statistics, the second of which needs the result of the first, and one that writes.
LoopWsNorm(p, i) ==
    LET rows == LenI(p, i)
        passes == IF p.act = LAYERNORM
                  THEN <<<<SUM, MEAN>>, <<VARIANCE, INV_STDDEV>>, <<RESET, RESET>>>>
                  ELSE <<<<MAX, MAX>>, <<SUM_EXP, INV_SUM_EXP>>, <<RESET, RESET>>>>
    IN Each(Steps(0, rows, NORM_STAT_IDS), LAMBDA row :
         Each(passes, LAMBDA cmd :
           Each(Steps(0, AtMost(NORM_STAT_IDS, rows - row), 1), LAMBDA stat_id :
             <<CONFIG_NORM(stat_id, TRUE, 0)>> \o
             Each(Steps(0, p.J, 1), LAMBDA jj :
               LET r == row + stat_id
               IN <<MVOUT(p.C + ((i * p.C_stride + jj) * DIM + r * p.C_stride) * SizeofC(p),
                          [AccAddr((i * p.J + jj) * DIM + r, TRUE, p.full_C)
                             EXCEPT !.norm = IF jj + 1 = p.J THEN cmd[2] ELSE cmd[1]],
                          LenJ(p, jj), 1)>>))))

LoopWsMatmul(p) ==
    LET half == SP_ROWS \div 2
        A_start == IF p.a_spad_id = 2 THEN half ELSE 0
        B_start == (IF p.b_spad_id = 2 THEN SP_ROWS ELSE half) - p.K * p.J * DIM
        A(k, i) == SpAddr(A_start + (IF p.a_transpose THEN k * p.I + i ELSE i * p.K + k) * DIM)
        B(k, j) == SpAddr(B_start + (IF p.b_transpose THEN j * p.K + k ELSE k * p.J + j) * DIM)
        MvinA(k, i) ==
            IF p.a_transpose
            THEN MVIN(0, p.A + (k * p.A_stride + i) * DIM, A(k, i), LenI(p, i), LenK(p, k))
            ELSE MVIN(0, p.A + (i * p.A_stride + k) * DIM, A(k, i), LenK(p, k), LenI(p, i))
        MvinB(k, j) ==
            IF p.b_transpose
            THEN MVIN(1, p.B + (j * p.B_stride + k) * DIM, B(k, j), LenK(p, k), LenJ(p, j))
            ELSE MVIN(1, p.B + (k * p.B_stride + j) * DIM, B(k, j), LenJ(p, j), LenK(p, k))
        C(k, j, i) == AccAddr((i * p.J + j) * DIM, p.ex_accumulate \/ k > 0, p.full_C)
    IN Each(Steps(0, p.K, 1), LAMBDA k : Each(Steps(0, p.J, 1), LAMBDA j : Each(Steps(0, p.I, 1), LAMBDA i :
         (IF j = 0 /\ p.A # 0 THEN <<MvinA(k, i)>> ELSE << >>) \o
         (IF i = 0 /\ p.B # 0 THEN <<MvinB(k, j)>> ELSE << >>) \o
         <<PRELOAD(IF i = 0 THEN B(k, j) ELSE GARBAGE_ADDR, LenJ(p, j), LenK(p, k),
                   C(k, j, i), LenJ(p, j), LenI(p, i)),
           COMPUTE(A(k, i), LenK(p, k), LenI(p, i), GARBAGE_ADDR, DIM, DIM, i = 0)>> \o
         (IF p.C = 0 \/ k < p.K - 1 THEN << >>
          ELSE IF p.act \notin {LAYERNORM, SOFTMAX} THEN <<LoopWsMvout(p, i, j)>>
          ELSE IF j = p.J - 1 THEN LoopWsNorm(p, i) ELSE << >>))))

LoopWs(g, fields) ==
    LET Loop(p) ==
            IF (p.I * p.K + p.K * p.J) * DIM > SP_ROWS \div 2 \/ p.I * p.J * DIM > ACC_ROWS \div 2
            THEN Fault(g)
            ELSE Run(g, IF p.is_resadd THEN LoopWsResadd(p) ELSE LoopWsBias(p) \o LoopWsMatmul(p))
    IN Loop(LoopWsFields(fields))

------------------------------------------------------------------------------
(* loop_conv_ws                                                             *)

LoopConvFields(p) ==
    LET wide == {"batch_size", "in_row_dim", "in_col_dim", "in_channels", "out_channels", "out_row_dim",
                 "out_col_dim", "pool_out_row_dim", "pool_out_col_dim", "kernel_dim", "batches", "porows",
                 "pocols", "pochs", "krows", "kcols", "kchs", "lpad", "rpad", "upad", "orows", "ocols",
                 "in_stride", "weight_stride", "out_stride", "pool_size"}
        narrow == {"stride", "dpad", "plpad", "pupad", "kernel_dilation", "pool_stride"}
    IN [f \in DOMAIN p |-> IF f \in wide THEN p[f] % 2^16
                           ELSE IF f \in narrow THEN p[f] % 2^8
                           ELSE IF f \in {"a_spad_id", "b_spad_id"} THEN p[f] % 4
                           ELSE IF f = "max_pixels_per_row" THEN IF p[f] % 2^8 = 0 THEN 1 ELSE p[f] % 2^8
                           ELSE IF f = "activation" THEN IF p[f] % 4 = 0 THEN 0 ELSE 1   \* a bool
                           ELSE p[f]]

UNDILATED(p, x) == IF p.input_dilated THEN (x + 1) \div 2 ELSE x
DS(p, x) == IF p.downsample THEN x \div 2 ELSE x
US(p, x) == IF p.downsample THEN x * 2 ELSE x

\* p with the dimensions of the image and of the regions of the local memories
LoopConvGeometry(g, p) ==
    LET Dilated(k) == k + (p.kernel_dilation - 1) * (k - 1)
        irows_without_dilation == p.orows * p.stride + Dilated(p.krows) - 1
        icols_without_dilation == p.ocols * p.stride + Dilated(p.kcols) - 1
        Unpadded(i, before, after) ==
            IF p.input_dilated THEN CDiv(i - before - after + 1, 2) ELSE i - before - after
        irows_unpadded == Unpadded(irows_without_dilation, p.upad, p.dpad)
        icols_unpadded == Unpadded(icols_without_dilation, p.lpad, p.rpad)
        Blocks(n) == (n + DIM - 1) \div DIM
        B_rows == p.krows * p.kcols * (IF p.trans_weight_0132 THEN Blocks(p.kchs) * p.pochs
                                                              ELSE Blocks(p.pochs) * p.kchs)
        half == SP_ROWS \div 2
    IN p @@ [irows_unpadded |-> irows_unpadded,
             icols_unpadded |-> icols_unpadded,
             irows |-> IF p.input_dilated THEN irows_unpadded + UNDILATED(p, p.upad) + UNDILATED(p, p.dpad)
                       ELSE irows_without_dilation,
             icols |-> IF p.input_dilated THEN icols_unpadded + UNDILATED(p, p.lpad) + UNDILATED(p, p.rpad)
                       ELSE icols_without_dilation,
             ochs  |-> p.pochs,
             A_start |-> IF p.a_spad_id = 2 THEN half ELSE 0,
             B_start |-> (IF p.b_spad_id = 2 THEN SP_ROWS ELSE half) - B_rows,
             D_row |-> g.D_sp_addr_row,
             C_row |-> g.C_sp_addr_row]

\* the row of output pixel (b, orow, ocol) of the channel block of och, from the start of its region
OutputRow(p, och, b, orow, ocol) ==
    (((och \div DIM) * p.batches + b) * p.orows + orow) * p.ocols + ocol

LoopConvBias(p) ==
    LET max_ochs == AtMost(MAX_BLOCK_LEN_ACC * DIM, p.ochs)
    IN IF p.bias = 0 THEN << >>
       ELSE <<CONFIG_LD(2, 0, Identity, FALSE, p.batches * p.orows * p.ocols, 1)>> \o
            Each(Steps(0, p.batches, 1), LAMBDA b : Each(Steps(0, p.orows, 1), LAMBDA orow :
              Each(Steps(0, p.ocols, DIM), LAMBDA ocol : Each(Steps(0, p.ochs, max_ochs), LAMBDA och :
                <<MVIN(2, IF p.no_bias THEN 0 ELSE p.bias + och * SizeofAcc,
                       AccAddr(p.D_row + OutputRow(p, och, b, orow, ocol), FALSE, FALSE),
                       AtMost(max_ochs, p.ochs - och), AtMost(DIM, p.ocols - ocol))>>))))

LoopConvInput(p) ==
    LET t == p.trans_input_3120
        max_chs == AtMost(MAX_BLOCK_LEN * DIM, IF t THEN p.batches ELSE p.kchs)
        image == DS(p, p.irows) * DS(p, p.icols)
        spad_stride == image * (IF t THEN p.kchs ELSE p.batches)
        upad == UNDILATED(p, p.upad)
        lpad == UNDILATED(p, p.lpad)
        icol_end == p.icols_unpadded + UNDILATED(p, p.rpad)
        \* the columns an mvin starts at, with the number of columns it takes
        Width(icol) == IF icol < 0 THEN AtMost(DIM, -icol)
                       ELSE IF icol >= p.icols_unpadded THEN AtMost(DIM, icol_end - icol)
                       ELSE AtMost(US(p, DIM), p.icols_unpadded - icol)
        cols[icol \in Int] == IF icol >= icol_end THEN << >>
                              ELSE <<[at |-> icol, I |-> Width(icol)]>> \o cols[icol + Width(icol)]
        IsZeros(irow, icol) == irow \notin 0 .. p.irows_unpadded - 1 \/ icol \notin 0 .. p.icols_unpadded - 1
        Dram(b, irow, icol, ich) ==
            IF IsZeros(irow, icol) THEN 0
            ELSE IF t
            THEN p.input + (ich * p.in_row_dim * p.in_col_dim + irow * p.in_col_dim + icol) * p.batch_size + b
            ELSE p.input + (b * p.in_row_dim * p.in_col_dim + irow * p.in_col_dim + icol) * p.in_stride + ich
    IN IF p.input = 0 THEN << >>
       ELSE <<CONFIG_LD(0, US(p, IF t THEN p.batch_size ELSE p.in_stride), Identity, FALSE,
                        spad_stride, p.max_pixels_per_row)>> \o
            Each(Steps(0, p.batches, IF t THEN max_chs ELSE 1), LAMBDA b :
              Each(Steps(-upad, p.irows_unpadded + UNDILATED(p, p.dpad), US(p, 1)), LAMBDA irow :
                Each(cols[-lpad], LAMBDA c : Each(Steps(0, p.kchs, IF t THEN 1 ELSE max_chs), LAMBDA ich :
                  <<MVIN(0, Dram(b, irow, c.at, ich),
                         SpAddr(p.A_start
                                + (IF t THEN (b \div DIM) * spad_stride + ich * image
                                        ELSE (ich \div DIM) * spad_stride + b * image)
                                + DS(p, irow + upad) * DS(p, p.icols) + DS(p, c.at + lpad)),
                         AtMost(max_chs, IF t THEN p.batches - b ELSE p.kchs - ich), DS(p, c.I))>>))))

\* the row of the weights of kernel pixel (krow, kcol), output channel och and input channel kch
WeightRow(p, och, krow, kcol, kch) ==
    IF p.trans_weight_0132
    THEN p.B_start + (((kch \div DIM) * p.krows + krow) * p.kcols + kcol) * p.ochs + och
    ELSE p.B_start + (((och \div DIM) * p.krows + krow) * p.kcols + kcol) * p.kchs + kch

LoopConvWeights(p) ==
    LET t == p.trans_weight_0132
        max_chs == AtMost(MAX_BLOCK_LEN * DIM, IF t THEN p.kchs ELSE p.ochs)
        dram_stride == IF p.dw THEN 1
                       ELSE IF p.trans_weight_1203 THEN p.kernel_dim * p.kernel_dim * p.out_channels
                       ELSE IF t THEN p.in_channels ELSE p.weight_stride
        Dram(och, krow, kcol, kch) ==
            LET pixel == krow * p.kernel_dim + kcol
            IN p.weights +
               (IF p.dw THEN pixel
                ELSE IF p.trans_weight_1203
                     THEN (kch * p.kernel_dim * p.kernel_dim + pixel) * p.out_channels + och
                ELSE IF t THEN (pixel * p.out_channels + och) * p.in_channels + kch
                ELSE (pixel * p.in_channels + kch) * p.weight_stride + och)
    IN IF p.weights = 0 THEN << >>
       ELSE <<CONFIG_LD(1, dram_stride, Identity, FALSE,
                        p.krows * p.kcols * (IF t THEN p.ochs ELSE p.kchs), 1)>> \o
            Each(Steps(0, p.ochs, IF t THEN DIM ELSE max_chs), LAMBDA och :
              Each(Steps(0, p.krows, 1), LAMBDA krow : Each(Steps(0, p.kcols, 1), LAMBDA kcol :
                Each(Steps(0, p.kchs, IF t THEN max_chs ELSE DIM), LAMBDA kch :
                  <<MVIN(1, Dram(och, krow, kcol, kch), SpAddr(WeightRow(p, och, krow, kcol, kch)),
                         AtMost(max_chs, IF t THEN p.kchs - kch ELSE p.ochs - och),
                         AtMost(DIM, IF t THEN p.ochs - och ELSE p.kchs - kch))>>))))

\* The matmuls of one block of weights, over every output pixel it contributes to: the
\* first one preloads the weights.  In a dilated input only every other pixel is data.
LoopConvPoints(p, krow, kcol) ==
    LET t == p.trans_input_3120
        ocol_it == IF t THEN 1 ELSE IF p.input_dilated THEN 2 * DIM ELSE DIM
        Skip(o, k, pad) == p.input_dilated /\ (k * p.kernel_dilation + o - pad) % 2 # 0
        cols[ocol \in Nat] == IF ocol >= p.ocols THEN << >>
                              ELSE IF Skip(ocol, kcol, p.lpad) THEN cols[ocol + 1]
                              ELSE <<ocol>> \o cols[ocol + ocol_it]
    IN Each(Steps(0, p.batches, IF t THEN DIM ELSE 1), LAMBDA b :
         Each(SelectSeq(Steps(0, p.orows, 1), LAMBDA orow : ~Skip(orow, krow, p.upad)), LAMBDA orow :
           Each(cols[0], LAMBDA ocol : <<[b |-> b, orow |-> orow, ocol |-> ocol]>>)))

LoopConvMatmul(p, och, krow, kcol, kch, x, new_weights) ==
    LET t == p.trans_input_3120
        image == DS(p, p.irows) * DS(p, p.icols)
        irow == UNDILATED(p, x.orow * p.stride + krow * p.kernel_dilation)
        icol == UNDILATED(p, x.ocol * p.stride + kcol * p.kernel_dilation)
        I == IF t THEN AtMost(DIM, p.batches - x.b)
             ELSE UNDILATED(p, AtMost(IF p.input_dilated THEN 2 * DIM ELSE DIM, p.ocols - x.ocol))
        J == AtMost(DIM, p.ochs - och)
        K == AtMost(p.max_pixels_per_row, p.kcols - kcol) * AtMost(DIM, p.kchs - kch)
        A == SpAddr(p.A_start + (IF t THEN ((x.b \div DIM) * p.kchs + kch) * image
                                      ELSE ((kch \div DIM) * p.batches + x.b) * image)
                    + DS(p, irow) * DS(p, p.icols) + DS(p, icol))
        B == SpAddr(WeightRow(p, och, IF p.wrot180 THEN p.krows - krow - 1 ELSE krow,
                                      IF p.wrot180 THEN p.kcols - kcol - 1 ELSE kcol, kch))
        C == AccAddr(p.C_row + OutputRow(p, och, x.b, x.orow, x.ocol), TRUE, FALSE)
    IN <<PRELOAD(IF new_weights THEN B ELSE GARBAGE_ADDR, J, K, C, J, I),
         COMPUTE(A, K, I, GARBAGE_ADDR, J, I, new_weights)>>

LoopConvCompute(p) ==
    (IF p.trans_input_3120
     THEN <<CONFIG_EX("OS", NONE, 0, FALSE, FALSE, p.irows * p.icols, p.orows * p.ocols, TRUE)>>
     ELSE << >>) \o
    Each(Steps(0, p.ochs, DIM), LAMBDA och : Each(Steps(0, p.krows, 1), LAMBDA krow :
      Each(Steps(0, p.kcols, p.max_pixels_per_row), LAMBDA kcol : Each(Steps(0, p.kchs, DIM), LAMBDA kch :
        LET points == LoopConvPoints(p, krow, kcol)
        IN Each(Steps(1, Len(points) + 1, 1), LAMBDA n :
             LoopConvMatmul(p, och, krow, kcol, kch, points[n], n = 1))))))

LoopConvMvout(p) ==
    Each(Steps(0, p.batches, 1), LAMBDA b : Each(Steps(0, p.orows, 1), LAMBDA orow :
      Each(Steps(0, p.ocols, DIM), LAMBDA ocol : Each(Steps(0, p.ochs, DIM), LAMBDA och :
        <<MVOUT(p.output + och +
                (IF p.trans_output_1203
                 THEN (orow * p.out_col_dim * p.batch_size + ocol * p.batch_size + b) * p.out_channels
                 ELSE (b * p.out_row_dim * p.out_col_dim + orow * p.out_col_dim + ocol) * p.out_stride),
                AccAddr(p.C_row + OutputRow(p, och, b, orow, ocol), TRUE, FALSE),
                AtMost(DIM, p.ochs - och), AtMost(DIM, p.ocols - ocol))>>))))

\* With pooling the mvouts pool; afterwards the store configuration pools no longer.
LoopConvPooledMvout(p, scale) ==
    LET pool == [stride |-> p.pool_stride, size |-> p.pool_size, upad |-> p.pupad, lpad |-> p.plpad,
                 out_dim |-> p.pool_out_col_dim, porows |-> p.porows, pocols |-> p.pocols,
                 orows |-> p.orows, ocols |-> p.ocols]
    IN <<CONFIG_ST(p.out_stride, p.activation, scale, pool)>> \o
       Each(Steps(0, p.batches, 1), LAMBDA b : Each(Steps(0, p.pochs, DIM), LAMBDA poch :
         <<MVOUT(p.output + b * p.pool_out_row_dim * p.pool_out_col_dim * p.out_stride + poch,
                 AccAddr(p.C_row + OutputRow(p, poch, b, 0, 0), TRUE, FALSE),
                 AtMost(DIM, p.pochs - poch), 0)>>)) \o
       <<CONFIG_ST(p.out_stride, p.activation, scale, NoPool)>>

LoopConvWs(g, fields) ==
    LET Toggled(row) == (row + ACC_ROWS \div 2) % ACC_ROWS
        Swapped(p) == [g EXCEPT !.D_sp_addr_row = IF p.bias # 0 THEN Toggled(@) ELSE @,
                                !.C_sp_addr_row = IF p.output # 0 THEN Toggled(@) ELSE @]
        Loop(p) ==
            IF p.input_dilated /\ p.stride # 1 THEN Fault(g)
            ELSE Run(Swapped(p),
                     LoopConvBias(p) \o LoopConvInput(p) \o LoopConvWeights(p) \o LoopConvCompute(p) \o
                     (IF p.output = 0 THEN << >>
                      ELSE IF p.no_pool THEN LoopConvMvout(p)
                      ELSE LoopConvPooledMvout(p, g.store.scale)))
    IN Loop(LoopConvGeometry(g, LoopConvFields(fields)))

==============================================================================
