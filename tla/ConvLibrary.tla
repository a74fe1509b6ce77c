----------------------------- MODULE ConvLibrary -----------------------------
(***************************************************************************)
(* The convolutions of the C library (gemmini.h) on the functional          *)
(* simulator: tiled_conv_stride_auto and tiled_conv_dw_auto search a tile,  *)
(* tiled_conv and tiled_conv_dw run one loop_conv_ws instruction for every  *)
(* tile of the seven nested loops, and conv_cpu is the reference the tests  *)
(* compare with.                                                            *)
(*                                                                         *)
(* A call is a search, one step per change of the tile, and then one step   *)
(* per tile of the loop nest.                                               *)
(***************************************************************************)
EXTENDS LibraryCall

Index == 1..7
ocols_idx == 3
out_channels_idx == 4
in_channels_idx == 7

------------------------------------------------------------------------------
(* Sizes                                                                    *)

DilatedDim(n, d) == n + (d - 1) * (n - 1)

\* pool_stride = 0 stands for no pooling
NoPooling(cv) == cv.pool_stride = 0
PoolSize(cv) == IF NoPooling(cv) THEN 1 ELSE cv.pool_size
PoolStride(cv) == IF NoPooling(cv) THEN 1 ELSE cv.pool_stride
PoolPadding(cv) == IF NoPooling(cv) THEN 0 ELSE cv.pool_padding

PoolOutDim(cv, out_dim) == (out_dim + 2 * PoolPadding(cv) - PoolSize(cv)) \div PoolStride(cv) + 1

\* the size of the output as the tests compute it
OutDim(cv, in_dim) ==
    (DilatedDim(in_dim, cv.input_dilation) + 2 * cv.padding - DilatedDim(cv.kernel_dim, cv.kernel_dilation))
        \div cv.stride + 1

------------------------------------------------------------------------------
(* The reference, conv_cpu and conv_dw_cpu                                  *)

\* bias plus the products of one output pixel (b, orow, ocol) of channel och
ConvPixel(cv, b, orow, ocol, och) ==
    LET InRow(krow) == orow * cv.stride + krow * cv.kernel_dilation - cv.padding
        InCol(kcol) == ocol * cv.stride + kcol * cv.kernel_dilation - cv.padding
        Ipixel(irow, icol, kch) ==
            IF irow \notin 0 .. cv.in_row_dim - 1 \/ icol \notin 0 .. cv.in_col_dim - 1 THEN Zero
            ELSE LET pixel == irow * cv.in_col_dim + icol
                     image == cv.in_row_dim * cv.in_col_dim
                 IN Held(cv.input + (IF cv.trans_input_3120 THEN (kch * image + pixel) * cv.batch_size + b
                                ELSE (b * image + pixel) * cv.in_stride + (IF cv.dw THEN och ELSE kch)), 1)
        Weight(krow, kcol, kch) ==
            LET kd == cv.kernel_dim
                pixel == (IF cv.wrot180 THEN kd - krow - 1 ELSE krow) * kd
                         + (IF cv.wrot180 THEN kd - kcol - 1 ELSE kcol)
            IN Held(cv.weights + (IF cv.dw THEN och * kd * kd + pixel
                             ELSE IF cv.trans_weight_1203 THEN (kch * kd * kd + pixel) * cv.out_channels + och
                             ELSE IF cv.trans_weight_0132 THEN (pixel * cv.out_channels + och) * cv.in_channels + kch
                             ELSE (pixel * cv.in_channels + kch) * cv.weight_stride + och), 1)
        ks == 0 .. cv.kernel_dim - 1
        taken == {k \in ks \X ks : InRow(k[1]) % cv.input_dilation = 0 /\ InCol(k[2]) % cv.input_dilation = 0}
        terms == taken \X (IF cv.dw THEN {0} ELSE 0 .. cv.in_channels - 1)
    IN (IF cv.no_bias THEN Zero ELSE Held(cv.bias + och * SizeofAcc, SizeofAcc)) (+)
       Sum(terms, LAMBDA t : Times(Ipixel(CDiv(InRow(t[1][1]), cv.input_dilation),
                                          CDiv(InCol(t[1][2]), cv.input_dilation), t[2]),
                                   Weight(t[1][1], t[1][2], t[2])))

\* what conv_cpu stores: address -> value
ConvCpu(cv) ==
    LET rows == PoolOutDim(cv, cv.out_row_dim)
        cols == PoolOutDim(cv, cv.out_col_dim)
        outs == (0 .. cv.batch_size - 1) \X (0 .. rows - 1) \X (0 .. cols - 1) \X (0 .. cv.out_channels - 1)
        Byte(o) == cv.output + o[4] +
                   (IF cv.trans_output_1203
                    THEN (o[2] * cols * cv.batch_size + o[3] * cv.batch_size + o[1]) * cv.out_channels
                    ELSE (o[1] * rows * cols + o[2] * cols + o[3]) * cv.out_stride)
        Pixel(o, orow, ocol) == Activated(ConvPixel(cv, o[1], orow, ocol, o[4]), cv.scale, cv.act)
        window == (0 .. PoolSize(cv) - 1) \X (0 .. PoolSize(cv) - 1)
        InWindow(o, w) ==
            LET orow == o[2] * PoolStride(cv) + w[1] - PoolPadding(cv)
                ocol == o[3] * PoolStride(cv) + w[2] - PoolPadding(cv)
            IN IF orow \notin 0 .. cv.out_row_dim - 1 \/ ocol \notin 0 .. cv.out_col_dim - 1 THEN Zero
               ELSE Pixel(o, orow, ocol)
        Output(o) == IF NoPooling(cv) THEN Pixel(o, o[2], o[3])
                    ELSE Atom(<<"max", {InWindow(o, w) : w \in window}>>)
        value == [o \in outs |-> Output(o)]
    IN [a \in {Byte(o) : o \in outs} |->
           Elem(value[CHOOSE o \in outs : Byte(o) = a])]

------------------------------------------------------------------------------
(* The tile search                                                          *)


\* tiled_conv_total_spad_rows of a tile a; the divisions are exact in tile sizes >= 0
TileRows(cv, downsample, a) ==
    LET orows == a[2] * PoolStride(cv) + PoolSize(cv) - 1
        ocols == a[3] * PoolStride(cv) + PoolSize(cv) - 1
        In(o, k) == (o * cv.stride + DilatedDim(k, cv.kernel_dilation) - 1 + cv.input_dilation - 1)
                        \div cv.input_dilation
        Half(n) == IF downsample THEN n \div 2 ELSE n
        image == Half(In(orows, a[5])) * Half(In(ocols, a[6]))
        A_rows == image * (IF cv.trans_input_3120 THEN Blocks(a[1]) * a[7] ELSE Blocks(a[7]) * a[1])
        B_rows == a[5] * a[6] * (IF cv.trans_weight_0132 THEN Blocks(a[7]) * a[4] ELSE Blocks(a[4]) * a[7])
    IN [spad |-> A_rows + B_rows, acc |-> Blocks(a[4]) * a[1] * orows * ocols]

Fits(cv, downsample, a) ==
    \E rows \in {TileRows(cv, downsample, a)} : rows.spad <= SP_ROWS \div 2 /\ rows.acc <= ACC_ROWS \div 2

\* tiled_conv_stride_auto and tiled_conv do not agree on this one
DownsampleAuto(cv) ==
    /\ ~cv.dw /\ cv.stride = 2 /\ cv.kernel_dim = 1 /\ cv.padding = 0 /\ NoPooling(cv)
    /\ cv.in_row_dim % 2 = 0 /\ cv.in_col_dim % 2 = 0
Downsample(cv) == DownsampleAuto(cv) /\ cv.input_dilation = 1 /\ ~cv.trans_input_3120

\* the bounds of the loop nest of tiled_conv; in tiled_conv_dw the channels are taken one by one
Limit(cv) == <<cv.batch_size, PoolOutDim(cv, cv.out_row_dim), PoolOutDim(cv, cv.out_col_dim),
               cv.out_channels, cv.kernel_dim, cv.kernel_dim, IF cv.dw THEN 1 ELSE cv.in_channels>>
MaxArgs(cv) == [Limit(cv) EXCEPT ![out_channels_idx] = IF cv.dw THEN 1 ELSE @]

\* the first of the largest arguments, sparing ocols while there are rows to give up
ReducedIndex(a) ==
    LET eligible == {i \in Index : ~(i = ocols_idx /\ a[i] <= DIM /\ a[2] > 1)}
        largest == {i \in eligible : \A j \in eligible : a[j] <= a[i]}
    IN CHOOSE i \in largest : \A j \in largest : i <= j

\* A mistaken variant: the last block of channels is never given up.
Reduced_WholeBlocks(a) ==
    LET i == ReducedIndex(a)
    IN IF i \in {out_channels_idx, in_channels_idx}
       THEN [a EXCEPT ![i] = IF @ <= DIM THEN @ ELSE @ - DIM]
       ELSE [a EXCEPT ![i] = @ - 1]

\* channels are given up in blocks, down to one channel
Reduced(a) ==
    LET i == ReducedIndex(a)
        less == IF a[i] % DIM # 0 THEN (a[i] \div DIM) * DIM ELSE a[i] - DIM
    IN IF i \in {out_channels_idx, in_channels_idx}
       THEN [a EXCEPT ![i] = IF less = 0 THEN 1 ELSE less]
       ELSE [a EXCEPT ![i] = @ - 1]

CanIncrease(i) ==
    LET candidate == [args EXCEPT ![i] = @ + 1]
    IN candidate[i] <= MaxArgs(c)[i] /\ Fits(c, DownsampleAuto(c), candidate)

Shrink ==
    /\ pc = "shrink" /\ ~Fits(c, DownsampleAuto(c), args)
    /\ args' = Reduced(args)
    /\ UNCHANGED <<c, pc, scan, at, g, before, todo>>

Fitting ==
    /\ pc = "shrink" /\ Fits(c, DownsampleAuto(c), args)
    /\ pc' = "ocols"
    /\ UNCHANGED <<c, args, scan, at, g, before, todo>>

IncreaseOcols ==
    /\ pc = "ocols"
    /\ IF CanIncrease(ocols_idx)
       THEN args' = [args EXCEPT ![ocols_idx] = @ + 1] /\ UNCHANGED pc
       ELSE pc' = "grow" /\ UNCHANGED args
    /\ UNCHANGED <<c, scan, at, g, before, todo>>

\* one pass of the for loop tries every argument once; passes repeat until one changes nothing
Increase ==
    /\ pc = "grow"
    /\ \E up \in {CanIncrease(scan.i)} : LET nothing == scan.nothing_increased /\ ~up IN
          /\ args' = IF up THEN [args EXCEPT ![scan.i] = @ + 1] ELSE args
          /\ scan' = IF scan.i < 7 THEN [i |-> scan.i + 1, nothing_increased |-> nothing]
                     ELSE [i |-> 1, nothing_increased |-> TRUE]
          /\ pc' = IF scan.i = 7 /\ nothing THEN "check" ELSE "grow"
    /\ UNCHANGED <<c, at, g, before, todo>>

------------------------------------------------------------------------------
(* tiled_conv, tiled_conv_dw and sp_tiled_conv                              *)

ceil_divide_int(a, b) == IF a < b THEN 1 ELSE (a + b - 1) \div b

Tiles(i) == ceil_divide_int(Limit(c)[i], args[i])
b_reuse == ~c.dw /\ Tiles(7) * Tiles(4) * Tiles(5) * Tiles(6) <= 2
a_reuse == ~c.dw /\ Tiles(7) * Tiles(5) * Tiles(6) * Tiles(1) * Tiles(2) * Tiles(3) <= 2

\* the checks of GEMMINI_ASSERTIONS, and the two configurations at the start of the call
Rejected ==
    \/ ~Fits(c, Downsample(c), args)
    \/ c.kernel_dim <= c.padding
    \/ c.input_dilation > 2 \/ (c.input_dilation > 1 /\ c.stride > 1)
    \/ c.trans_output_1203 /\ ~NoPooling(c)
    \/ c.trans_input_3120 /\ c.trans_weight_0132
    \/ c.trans_weight_1203 /\ c.trans_weight_0132

ConvConfig ==
    <<CONFIG_ST(IF c.trans_output_1203 THEN c.batch_size * c.out_channels ELSE c.out_stride,
                c.act, c.scale, NoPool),
      CONFIG_EX("WS", NONE, 0, c.trans_input_3120, c.trans_weight_0132,
                IF Downsample(c) THEN c.stride \div 2 ELSE c.stride, c.input_dilation, FALSE)>>

ConvStart == Start("conv", Rejected, ConvConfig)

\* padding of the input on one axis: o is the first output pixel (before flooring), n the
\* number of them, k the first kernel pixel and kn the number of them
Padding(o, n, opad, k, kn, in_dim) ==
    LET first == (IF o < 0 THEN 0 ELSE o) * c.stride + k * c.kernel_dilation - c.padding
        size == (n - opad) * c.stride + DilatedDim(kn, c.kernel_dilation) - 1
        last == first + size
        in == DilatedDim(in_dim, c.input_dilation)
        Positive(x) == IF x < 0 THEN 0 ELSE x
        lacking == Positive(-first)
        over == Positive(last - in)
        dilated == c.input_dilation = 2
    IN [first |-> first,
        before |-> IF dilated /\ lacking = 0 /\ first % 2 # 0 THEN 1 ELSE lacking,
        after |-> IF dilated /\ over = 0 /\ CMod(last, 2) # 1 THEN 1 ELSE over]

\* one axis of a tile: n pooled pixels from the pooled pixel p, and the kernel pixels
TileAxis(p, n, out_dim, k, kn, in_dim) ==
    LET o == p * PoolStride(c) - PoolPadding(c)
        size == n * PoolStride(c) + PoolSize(c) - 1
        Positive(x) == IF x > 0 THEN x ELSE 0
        ppad == Positive(-o)
        out == size - ppad - Positive(o + size - out_dim)
    IN Padding(o, size, size - out, k, kn, in_dim) @@ [ppad |-> ppad, out |-> out]

\* the loop_conv_ws instruction of the tile of the sizes n that begins at from
ConvLoop(from, n, lim, row, col) ==
    LET Undilated(x) == IF c.input_dilation = 2 THEN x \div 2 ELSE x
        kpixel == (IF c.wrot180 THEN c.kernel_dim - from[5] - n[5] ELSE from[5]) * c.kernel_dim
                  + (IF c.wrot180 THEN c.kernel_dim - from[6] - n[6] ELSE from[6])
        weights == c.weights +
            (IF c.dw THEN from[4] * c.kernel_dim * c.kernel_dim + from[5] * c.kernel_dim + from[6]
             ELSE IF c.trans_weight_1203
                  THEN (from[7] * c.kernel_dim * c.kernel_dim + kpixel) * c.out_channels + from[4]
             ELSE IF c.trans_weight_0132 THEN (kpixel * c.out_channels + from[4]) * c.in_channels + from[7]
             ELSE (kpixel * c.in_channels + from[7]) * c.weight_stride + from[4])
        ipixel == Undilated(row.first + row.before) * c.in_col_dim + Undilated(col.first + col.before)
        image == c.in_row_dim * c.in_col_dim
        input == c.input + (IF c.trans_input_3120 THEN (from[7] * image + ipixel) * c.batch_size + from[1]
                          ELSE (from[1] * image + ipixel) * c.in_stride + (IF c.dw THEN from[4] ELSE from[7]))
        output == c.output + from[4] +
            (IF c.trans_output_1203
             THEN (from[2] * lim[3] * c.batch_size + from[3] * c.batch_size + from[1]) * c.out_channels
             ELSE (from[1] * lim[2] * lim[3] + from[2] * lim[3] + from[3]) * c.out_stride)
        first == from[5] + from[6] + from[7] = 0
        last == \A i \in 5..7 : from[i] + args[i] >= lim[i]
        pixels == IF c.trans_output_1203 \/ c.trans_input_3120 \/ c.trans_weight_1203 \/ c.trans_weight_0132
                     \/ c.wrot180 \/ Downsample(c) \/ c.input_dilation = 2 \/ c.kernel_dilation > 1 \/ n[7] > DIM
                  THEN 1 ELSE DIM \div n[7]
    IN [batch_size |-> c.batch_size, in_row_dim |-> c.in_row_dim, in_col_dim |-> c.in_col_dim,
        in_channels |-> c.in_channels, out_channels |-> c.out_channels,
        out_row_dim |-> c.out_row_dim, out_col_dim |-> c.out_col_dim,
        pool_out_row_dim |-> lim[2], pool_out_col_dim |-> lim[3],
        stride |-> c.stride, kernel_dim |-> c.kernel_dim, kernel_dilation |-> c.kernel_dilation,
        in_stride |-> c.in_stride, weight_stride |-> IF c.dw THEN 1 ELSE c.weight_stride,
        out_stride |-> c.out_stride, pool_size |-> PoolSize(c), pool_stride |-> PoolStride(c),
        batches |-> n[1], porows |-> n[2], pocols |-> n[3], pochs |-> n[4],
        krows |-> n[5], kcols |-> n[6], kchs |-> n[7],
        lpad |-> col.before, rpad |-> col.after, upad |-> row.before, dpad |-> row.after,
        plpad |-> col.ppad, pupad |-> row.ppad, orows |-> row.out, ocols |-> col.out,
        input |-> IF a_reuse /\ from[4] > 0 THEN 0 ELSE input,
        weights |-> IF b_reuse /\ from[1] + from[2] + from[3] > 0 THEN 0 ELSE weights,
        output |-> IF last THEN output ELSE 0,
        bias |-> IF ~first THEN 0 ELSE (IF c.no_bias THEN 1 ELSE c.bias) + from[4] * SizeofAcc,
        no_bias |-> c.no_bias, no_pool |-> NoPooling(c), downsample |-> Downsample(c),
        wrot180 |-> c.wrot180, input_dilated |-> c.input_dilation = 2, activation |-> c.act,
        trans_output_1203 |-> c.trans_output_1203, trans_input_3120 |-> c.trans_input_3120,
        trans_weight_1203 |-> c.trans_weight_1203, trans_weight_0132 |-> c.trans_weight_0132,
        dw |-> c.dw, max_pixels_per_row |-> AtMost(n[6], pixels),
        a_spad_id |-> IF ~a_reuse THEN 0 ELSE IF first /\ from[1] + from[2] + from[3] = 0 THEN 1 ELSE 2,
        b_spad_id |-> IF ~b_reuse THEN 0 ELSE IF first /\ from[4] = 0 THEN 1 ELSE 2]

SpTiledConv(from) ==
    LET Loop(n, lim) == ConvLoop(from, n, lim,
                                 TileAxis(from[2], n[2], c.out_row_dim, from[5], n[5], c.in_row_dim),
                                 TileAxis(from[3], n[3], c.out_col_dim, from[6], n[6], c.in_col_dim))
    IN Loop([i \in Index |-> AtMost(args[i], Limit(c)[i] - from[i])], Limit(c))

\* the seven nested loops
ConvTile == RunTile("conv", Limit(c), LoopConvWs(g, SpTiledConv(at)))

==============================================================================
