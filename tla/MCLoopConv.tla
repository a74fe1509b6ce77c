------------------------------ MODULE MCLoopConv ------------------------------
(***************************************************************************)
(* Programs for the convolution unroller: calls of tiled_conv with a tile,  *)
(* as module ConvLibrary sends them, and what the functional simulator      *)
(* makes of them.                                                           *)
(***************************************************************************)
EXTENDS LoopConv

\* tiled_conv of the convolution cv in tiles of the sizes tile, at the tile that begins at from
Lib(cv, tile, from) == INSTANCE ConvLibrary WITH
  c <- cv, args <- tile, at <- from, pc <- "run", g <- Reset, scan <- << >>, before <- << >>, todo <- << >>

Base == [input |-> 1000, weights |-> 2000, bias |-> 3000, output |-> 4000,
         batch_size |-> 1, in_row_dim |-> 2, in_col_dim |-> 2, in_channels |-> 1, out_channels |-> 1,
         stride |-> 1, input_dilation |-> 1, kernel_dilation |-> 1, padding |-> 0, kernel_dim |-> 1,
         pool_size |-> 0, pool_stride |-> 0, pool_padding |-> 0,
         wrot180 |-> FALSE, trans_output_1203 |-> FALSE, trans_input_3120 |-> FALSE,
         trans_weight_1203 |-> FALSE, trans_weight_0132 |-> FALSE, dw |-> FALSE,
         no_bias |-> FALSE, act |-> NONE, scale |-> "scale"]

\* A tile is batches, porows, pocols, pochs, krows, kcols, kchs.
Call(cv, tile) == [cv |-> cv, tile |-> tile]

Tiles(call) ==
  LET limit == Lib(call.cv, call.tile, << >>)!Limit(call.cv)
      from[n \in Nat] == IF n = 0 THEN [i \in 1..7 |-> 0] ELSE Lib(call.cv, call.tile, from[n - 1])!NextTile(limit)
      last == CHOOSE n \in 0 .. 20 : /\ Lib(call.cv, call.tile, from[n])!More(limit) = {}
                                     /\ \A k \in 0 .. n - 1 : Lib(call.cv, call.tile, from[k])!More(limit) # {}
  IN  [n \in 1 .. last + 1 |-> Lib(call.cv, call.tile, from[n - 1])!SpTiledConv(from[n - 1])]

\* The two configurations of a call and its loops; the seven commands of a loop
Program(calls) ==
  LET config == Each(calls, LAMBDA call : Lib(call.cv, call.tile, << >>)!ConvConfig)
      loop   == Each(calls, Tiles)
      before(n) == Len(Each(SubSeq(calls, 1, n - 1), Tiles))
      Stream(n) == <<[funct |-> OTHER_CMD, n |-> 2 * n - 1], [funct |-> OTHER_CMD, n |-> 2 * n]>> \o
                   Each(Steps(1, Len(Tiles(calls[n])) + 1, 1), LAMBDA t :
                     [k \in 1..7 |-> [funct |-> k, n |-> before(n) + t]])
  IN  [stream |-> Each(Steps(1, Len(calls) + 1, 1), Stream), calls |-> loop, others |-> config]

\* the sizes that follow from the others
Conv(cv) ==
  cv @@ [out_row_dim |-> Lib(cv, << >>, << >>)!OutDim(cv, cv.in_row_dim), out_col_dim |-> Lib(cv, << >>, << >>)!OutDim(cv, cv.in_col_dim),
         in_stride |-> cv.in_channels, weight_stride |-> cv.out_channels, out_stride |-> cv.out_channels]

\* A kernel in two tiles: the second loop goes on with the sums of the first.
Accumulated == <<Call(Conv([Base EXCEPT !.in_row_dim = 1, !.in_col_dim = 3, !.kernel_dim = 2, !.padding = 1]), <<1, 2, 4, 1, 1, 2, 1>>)>>

\* Three rows of output, one after the other: each loop has memories of its own.
Rows == <<Call(Conv([Base EXCEPT !.in_row_dim = 3, !.in_channels = 3, !.trans_weight_1203 = TRUE]), <<1, 1, 2, 1, 1, 1, 3>>)>>

\* Two tiles that share their weights, or their input.
SharedWeights == <<Call(Conv([Base EXCEPT !.batch_size = 2, !.in_channels = 2, !.no_bias = TRUE, !.trans_output_1203 = TRUE]),
                        <<1, 2, 2, 1, 1, 1, 2>>)>>
SharedInput == <<Call(Conv([Base EXCEPT !.in_channels = 2, !.out_channels = 3, !.trans_weight_0132 = TRUE]),
                      <<1, 2, 2, 2, 1, 1, 2>>)>>

\* One channel: a row of the scratchpad holds two pixels, and two loops use both halves.
Pixels == <<Call(Conv([Base EXCEPT !.kernel_dim = 2, !.padding = 1]), <<1, 2, 3, 1, 2, 2, 1>>)>>

\* Three batches at a time, in blocks of two.
Transposed == <<Call(Conv([Base EXCEPT !.batch_size = 3, !.in_row_dim = 1, !.in_channels = 2, !.trans_input_3120 = TRUE]),
                     <<3, 1, 1, 1, 1, 1, 2>>)>>

\* A dilated input and a rotated kernel.
Dilated == <<Call(Conv([Base EXCEPT !.in_row_dim = 1, !.kernel_dim = 2, !.input_dilation = 2, !.wrot180 = TRUE, !.padding = 1]),
                  <<1, 2, 4, 1, 1, 2, 1>>)>>

\* Every other pixel, with a stride of two and a kernel of one pixel.
Downsampled == <<Call(Conv([Base EXCEPT !.in_row_dim = 4, !.in_col_dim = 4, !.in_channels = 2, !.stride = 2]),
                      <<1, 1, 2, 1, 1, 1, 2>>)>>

\* Two channels, one at a time, and then a call with a configuration of its own that pools.
Depthwise == Call(Conv([Base EXCEPT !.in_channels = 2, !.out_channels = 2, !.dw = TRUE, !.kernel_dim = 2]),
                  <<1, 1, 1, 1, 2, 2, 1>>)
Pooled == Call(Conv([Base EXCEPT !.in_row_dim = 1, !.out_channels = 2, !.act = RELU, !.scale = Identity, !.output = 5000,
                                 !.pool_size = 2, !.pool_stride = 1, !.pool_padding = 1]),
               <<1, 2, 3, 2, 1, 1, 1>>)

Calls == {Accumulated, Rows, SharedWeights, SharedInput, Pixels, Transposed, Dilated, Downsampled, <<Depthwise, Pooled>>}

\* the ones that tiled_conv accepts, which is all of them
ConvPrograms == {Program(calls) : calls \in {cs \in Calls : \A n \in DOMAIN cs : ~Lib(cs[n].cv, cs[n].tile, << >>)!Rejected}}
===============================================================================
