------------------------------ MODULE MCLibrary ------------------------------
(***************************************************************************)
(* Programs for TLC: single calls, in families that each vary what one part *)
(* of the code depends on, and sequences of calls.  With DIM = 2 an image   *)
(* of 3 x 4 pixels and 3 channels, or a matrix of 5 x 5, takes several      *)
(* blocks in every direction, and the memories are so small that most calls *)
(* need several tiles.                                                      *)
(***************************************************************************)
EXTENDS Library

------------------------------------------------------------------------------
(* Convolutions                                                             *)

Base == [kind |-> "conv", input |-> 10000, weights |-> 20000, bias |-> 30000, output |-> 40000,
         batch_size |-> 1, in_row_dim |-> 3, in_col_dim |-> 3, in_channels |-> 1, out_channels |-> 1,
         stride |-> 1, input_dilation |-> 1, kernel_dilation |-> 1, padding |-> 0, kernel_dim |-> 2,
         pool_size |-> 0, pool_stride |-> 0, pool_padding |-> 0,
         wrot180 |-> FALSE, trans_output_1203 |-> FALSE, trans_input_3120 |-> FALSE,
         trans_weight_1203 |-> FALSE, trans_weight_0132 |-> FALSE, dw |-> FALSE,
         no_bias |-> FALSE, act |-> NONE, scale |-> "scale"]

\* with the sizes that follow from the others; gap is what the strides have over the channels
Complete(cv, gap) ==
    cv @@ [out_row_dim |-> OutDim(cv, cv.in_row_dim), out_col_dim |-> OutDim(cv, cv.in_col_dim),
           in_stride |-> cv.in_channels + gap, weight_stride |-> cv.out_channels + gap,
           out_stride |-> cv.out_channels + gap]

Legal(cv) ==
    /\ cv.out_row_dim > 0 /\ cv.out_col_dim > 0
    /\ PoolOutDim(cv, cv.out_row_dim) > 0 /\ PoolOutDim(cv, cv.out_col_dim) > 0
    /\ cv.padding < cv.kernel_dim
    /\ ~(cv.trans_weight_0132 /\ (cv.trans_input_3120 \/ cv.trans_weight_1203))
    /\ Fits(cv, FALSE, [i \in Index |-> 1])

Transformations == {"wrot180", "trans_output_1203", "trans_input_3120", "trans_weight_1203", "trans_weight_0132"}

Plain == {Complete([Base EXCEPT !.batch_size = b, !.in_col_dim = w, !.in_channels = ic, !.out_channels = oc,
                                !.kernel_dim = k, !.padding = p, !.stride = st], gap) :
            b \in 1..2, w \in 3..4, ic \in 2..3, oc \in {1, 3}, k \in 1..3, p \in 0..1, st \in 1..2, gap \in {1}}

\* one channel: a row of the scratchpad holds several pixels
FirstLayer == {Complete([Base EXCEPT !.batch_size = b, !.in_col_dim = w, !.kernel_dim = k, !.padding = p,
                                     !.stride = st, !.no_bias = TRUE], 0) :
                 b \in 1..2, w \in 3..4, k \in 2..3, p \in 0..2, st \in 1..2}

\* one or two of them at a time
Transformed == {Complete([Base EXCEPT !.batch_size = b, !.in_channels = 3, !.out_channels = oc, !.kernel_dim = k,
                                      !.padding = p, !.stride = st,
                                      !.wrot180 = "wrot180" \in {f, h},
                                      !.trans_output_1203 = "trans_output_1203" \in {f, h},
                                      !.trans_input_3120 = "trans_input_3120" \in {f, h},
                                      !.trans_weight_1203 = "trans_weight_1203" \in {f, h},
                                      !.trans_weight_0132 = "trans_weight_0132" \in {f, h}], 0) :
                  b \in {1, 3}, oc \in {1, 3}, k \in 1..2, p \in 0..1, st \in 1..2,
                  f \in Transformations, h \in Transformations}

Dilated == {Complete([[Base EXCEPT !.batch_size = b, !.in_row_dim = r, !.in_channels = ic, !.padding = p,
                                   !.input_dilation = d, !.kernel_dilation = kd] EXCEPT ![f] = TRUE], 0) :
              b \in 1..2, r \in 2..3, ic \in 1..2, p \in -1..1, d \in 1..2, kd \in 1..2, f \in {"wrot180", "no_bias"}}

Pooled == {Complete([Base EXCEPT !.in_row_dim = r, !.in_channels = 2, !.out_channels = 3, !.padding = p,
                                 !.act = RELU, !.pool_size = ps, !.pool_stride = pt, !.pool_padding = pp], 0) :
             r \in 3..5, p \in 0..1, ps \in 1..2, pt \in 1..2, pp \in 0..1}

Depthwise == {Complete([Base EXCEPT !.batch_size = b, !.in_channels = 3, !.out_channels = 3, !.kernel_dim = k,
                                    !.padding = p, !.stride = st, !.dw = TRUE, !.pool_size = ps, !.pool_stride = ps], 0) :
                b \in 1..2, k \in 1..3, p \in 0..1, st \in 1..2, ps \in {0, 2}}

\* a pooling window over a dilated kernel: a tile of one pixel needs most of the scratchpad
Wide == {Complete([Base EXCEPT !.in_row_dim = 7, !.in_col_dim = 7, !.in_channels = ic, !.out_channels = oc, !.stride = 2,
                               !.kernel_dilation = 2, !.pool_size = 2, !.pool_stride = 1], 0) : ic \in 1..3, oc \in 1..3}

\* stride 2 and a kernel of one pixel: only every other pixel is loaded
Downsampled == {Complete([Base EXCEPT !.batch_size = b, !.in_row_dim = 4, !.in_col_dim = 4, !.in_channels = ic,
                                      !.out_channels = 3, !.kernel_dim = 1, !.stride = 2], 1) :
                  b \in 1..2, ic \in 2..3}

Convolutions == {cv \in Plain \cup FirstLayer \cup Transformed \cup Dilated \cup Pooled \cup Depthwise
                        \cup Wide \cup Downsampled : Legal(cv)}

------------------------------------------------------------------------------
(* Matrix multiplications and the other calls                               *)

Matmul == [kind |-> "matmul", type |-> "WS", dim_I |-> 3, dim_J |-> 3, dim_K |-> 3,
           A |-> 10000, B |-> 20000, D |-> 30000, C |-> 40000,
           A_scale |-> Identity, B_scale |-> Identity, act |-> NONE, scale |-> "scale",
           repeating_bias |-> FALSE, transpose_A |-> FALSE, transpose_B |-> FALSE,
           full_C |-> FALSE, low_D |-> FALSE]

\* the matrices are parts of larger ones, whose rows are gap longer
Strided(m, gap) ==
    m @@ [stride_A |-> gap + (IF m.transpose_A THEN m.dim_I ELSE m.dim_K),
          stride_B |-> gap + (IF m.transpose_B THEN m.dim_K ELSE m.dim_J),
          stride_C |-> gap + m.dim_J, stride_D |-> gap + m.dim_J]

MatmulSizes == {Strided([Matmul EXCEPT !.type = t, !.dim_I = i, !.dim_J = j, !.dim_K = k, !.D = d], 1) :
                  t \in {"OS", "WS"}, i \in {1, 4, 7}, j \in {2, 5, 9}, k \in {1, 5, 12, 19}, d \in {0, 30000}}

MatmulOptions == {Strided([Matmul EXCEPT !.type = t, !.dim_I = 5, !.dim_J = 5, !.dim_K = k, !.D = d,
                                         !.repeating_bias = "repeating_bias" \in {x, y},
                                         !.transpose_A = "transpose_A" \in {x, y}, !.transpose_B = "transpose_B" \in {x, y},
                                         !.full_C = "full_C" \in {x, y}, !.low_D = "low_D" \in {x, y},
                                         !.act = CASE "relu" \in {x, y} -> RELU [] "igelu" \in {x, y} -> IGELU [] OTHER -> NONE,
                                         !.A_scale = IF "scaled" \in {x, y} THEN "A_scale" ELSE Identity], 0) :
                    t \in {"OS", "WS"}, k \in {3, 19}, d \in {0, 30000},
                    x \in {"repeating_bias", "transpose_A", "transpose_B", "scaled"},
                    y \in {"repeating_bias", "transpose_A", "transpose_B", "full_C", "low_D", "relu", "igelu"}}

MatmulNormalized == {Strided([Matmul EXCEPT !.dim_I = i, !.dim_J = j, !.dim_K = k, !.act = act, !.scale = Identity], 0) :
                       i \in {1, 5}, j \in {1, 3, 8}, k \in {2, 19}, act \in {LAYERNORM, SOFTMAX}}

\* what tiled_matmul implements
LegalMatmul(m) ==
    /\ m.type = "OS" => ~m.transpose_A /\ ~m.transpose_B /\ ~m.low_D
    /\ ~(m.transpose_A /\ m.transpose_B)

Resadd == [kind |-> "resadd", dim_I |-> 3, dim_J |-> 3, stride |-> 3, A |-> 10000, B |-> 20000, C |-> 40000,
           A_scale |-> "A_scale", B_scale |-> Identity, scale |-> "scale", relu |-> FALSE]
Resadds == {[Resadd EXCEPT !.dim_I = i, !.dim_J = j, !.stride = j + gap, !.relu = r, !.C = out] :
              i \in {1, 3, 8}, j \in {1, 4, 7}, gap \in {0, 2}, r \in BOOLEAN, out \in {10000, 40000}}

Average == [kind |-> "average", A |-> 10000, C |-> 40000, batches |-> 2, channels |-> 3, dim |-> 2]
Averages == {[Average EXCEPT !.batches = b, !.channels = ch, !.dim = d] : b \in 1..2, ch \in {1, 3, 9, 35}, d \in {1, 3}}

Norm == [kind |-> "norm", A |-> 10000, C |-> 40000, dim_I |-> 3, dim_J |-> 3, scale |-> Identity, act |-> LAYERNORM]
Norms == {[Norm EXCEPT !.dim_I = i, !.dim_J = j, !.act = act] : i \in {1, 3, 7}, j \in {1, 4, 7}, act \in {LAYERNORM, SOFTMAX}}

------------------------------------------------------------------------------
(* Programs                                                                 *)

Singles == Convolutions \cup {m \in MatmulSizes \cup MatmulOptions \cup MatmulNormalized : LegalMatmul(m)}
           \cup Resadds \cup Averages \cup Norms

\* calls that leave different configurations behind, with outputs of their own
Small == {Complete([Base EXCEPT !.no_bias = TRUE], 0),
          Complete([Base EXCEPT !.in_row_dim = 4, !.in_channels = 2, !.act = RELU, !.pool_size = 2, !.pool_stride = 1], 1),
          Complete([Base EXCEPT !.batch_size = 3, !.in_channels = 2, !.trans_input_3120 = TRUE, !.trans_output_1203 = TRUE], 0),
          Complete([Base EXCEPT !.in_channels = 2, !.trans_weight_0132 = TRUE], 0),
          Complete([Base EXCEPT !.input_dilation = 2, !.in_row_dim = 2, !.wrot180 = TRUE], 0),
          Complete([Base EXCEPT !.in_channels = 2, !.out_channels = 2, !.dw = TRUE, !.stride = 2], 0),
          Strided([Matmul EXCEPT !.transpose_B = TRUE, !.act = RELU, !.A_scale = "A_scale"], 0),
          Strided([Matmul EXCEPT !.transpose_A = TRUE, !.full_C = TRUE, !.low_D = TRUE], 1),
          Strided([Matmul EXCEPT !.type = "OS", !.repeating_bias = TRUE], 0),
          Strided([Matmul EXCEPT !.act = LAYERNORM, !.scale = Identity], 0),
          Strided([Matmul EXCEPT !.act = IGELU], 0),
          Resadd, Average, Norm}
Moved(m) == IF m.kind = "conv" THEN [m EXCEPT !.output = 50000] ELSE [m EXCEPT !.C = 50000]

\* after a softmax, what does not ask for NONE
AfterSoftmax == {Strided([Matmul EXCEPT !.act = act, !.scale = Identity], 0) : act \in {RELU, LAYERNORM, SOFTMAX}}
Softmax == Strided([Matmul EXCEPT !.act = SOFTMAX, !.scale = Identity], 0)

\* The layers of a network: the calls read what the calls before them have written.
Resnet ==
    <<Complete([Base EXCEPT !.in_channels = 2, !.out_channels = 2, !.kernel_dim = 1, !.output = 40000], 0),
      Complete([Base EXCEPT !.in_channels = 2, !.out_channels = 2, !.kernel_dim = 3, !.padding = 1, !.act = RELU,
                            !.input = 40000, !.weights = 21000, !.output = 50000], 0),
      [Resadd EXCEPT !.dim_I = 9, !.dim_J = 2, !.stride = 2, !.A = 50000, !.B = 40000, !.C = 50000, !.relu = TRUE],
      [Average EXCEPT !.A = 50000, !.C = 60000, !.batches = 1, !.channels = 2, !.dim = 3],
      Strided([Matmul EXCEPT !.dim_I = 3, !.dim_J = 1, !.dim_K = 2, !.A = 22000, !.B = 60000, !.C = 70000], 0)>>
Transformer ==
    <<Strided([Matmul EXCEPT !.full_C = TRUE], 0),
      [Norm EXCEPT !.A = 40000, !.C = 50000],
      Strided([Matmul EXCEPT !.A = 50000, !.B = 21000, !.D = 0, !.C = 60000, !.act = IGELU], 0)>>

Programs == {<<m>> : m \in Singles} \cup {<<m, Moved(n)>> : m \in Small, n \in Small}
            \cup {<<Softmax, Moved(m)>> : m \in AfterSoftmax} \cup {Resnet, Transformer}

\* One thread runs the library: the search goes on until it is over.
Spec == InitWith(Programs) /\ [][Next]_vars /\ WF_vars(Search)
==============================================================================
