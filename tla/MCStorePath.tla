---------------------------- MODULE MCStorePath ----------------------------
(* Programs for the store path. *)
EXTENDS StorePath

PoolConf(stride, act, scale, size, step, out_dim, out, in, pad) ==
  [op |-> "config_st", stride |-> stride, activation |-> act, acc_scale |-> scale,
   pool_size |-> size, pool_stride |-> step, out_dim |-> out_dim,
   porows |-> out[1], pocols |-> out[2], orows |-> in[1], ocols |-> in[2],
   upad |-> pad[1], lpad |-> pad[2]]

Conf(stride, act, scale) == PoolConf(stride, act, scale, 0, 0, 0, <<0, 0>>, <<0, 0>>, <<0, 0>>)

Norm(set_only, msb, id) ==
  [op |-> "config_norm", set_stats_id_only |-> set_only, act_msb |-> msb, stats_id |-> id]

Mvout(vaddr, is_acc, row, full, norm_cmd, rows, cols) ==
  [op |-> "mvout", vaddr |-> vaddr, garbage |-> FALSE, is_acc |-> is_acc, row |-> row,
   full |-> full, norm_cmd |-> norm_cmd, rows |-> rows, cols |-> cols]

Sp(vaddr, row, rows, cols)  == Mvout(vaddr, FALSE, row, FALSE, "RESET", rows, cols)
Acc(vaddr, row, rows, cols) == Mvout(vaddr, TRUE, row, FALSE, "RESET", rows, cols)
AccFull(vaddr, row, rows, cols) == Mvout(vaddr, TRUE, row, TRUE, "RESET", rows, cols)
Pass(kind, row, cols) == Mvout(0, TRUE, row, FALSE, kind, 1, cols)
Garbage(vaddr, rows, cols)  == [Sp(vaddr, 0, rows, cols) EXCEPT !.garbage = TRUE]
FenceFlush == [op |-> "flush"]

Id(id) == Norm(TRUE, 0, id)

\* The passes of LoopMatmul for two rows of the accumulator.
TwoRows(first, second, row, vaddr, cols) ==
  <<Id(0), Pass(first, row, cols), Id(1), Pass(first, row + 1, cols),
    Id(0), Pass(second, row, cols), Id(1), Pass(second, row + 1, cols),
    Id(0), Acc(vaddr, row, 1, cols), Id(1), Acc(vaddr + 4, row + 1, 1, cols)>>

\* The passes for one row.
OneRow(first, second, row, vaddr, cols) ==
  <<Id(0), Pass(first, row, cols), Pass(second, row, cols), Acc(vaddr, row, 1, cols)>>

MovedOut == {
  \* unaligned rows from two banks; the page moves; full rows of the accumulator
  <<Conf(5, 0, 1), Sp(3, 3, 2, 2), FenceFlush, AccFull(13, 0, 2, 2), Sp(2, 0, 1, 1)>>,
  \* two blocks at a time, from the scratchpad, of zeros, from the accumulator
  <<Conf(6, 1, 1), Sp(5, 2, 2, 3), Garbage(16, 1, 4), Acc(20, 0, 1, 3)>>,
  \* pooling with padding; then one dimension, with the registers pooling left
  <<PoolConf(2, 1, 1, 2, 1, 2, <<2, 1>>, <<2, 2>>, <<1, 1>>), Acc(3, 0, 1, 2),
    Conf(2, 0, KeepScale), Acc(16, 4, 1, 1),
    PoolConf(3, 1, 2, 1, 0, 3, <<0, 0>>, <<2, 1>>, <<0, 0>>), Acc(33, 4, 1, 1)>>,
  \* layer normalisation and softmax of two rows of two blocks
  <<Conf(4, 2, 1)>> \o TwoRows("MEAN", "INV_STDDEV", 0, 0, 3),
  <<Conf(4, 0, 1), Norm(FALSE, 1, 0)>> \o TwoRows("MAX", "INV_SUM_EXP", 0, 1, 3),
  \* two rows after each other
  <<Conf(4, 2, 1)>> \o OneRow("MEAN", "INV_STDDEV", 0, 0, 2) \o OneRow("MEAN", "INV_STDDEV", 1, 4, 2)
}

\* Three rows: the statistics of the third are those of the first again.
ThreeRows == {<<Conf(4, 2, 1)>> \o TwoRows("MEAN", "INV_STDDEV", 0, 0, 2)
                \o OneRow("MEAN", "INV_STDDEV", 2, 8, 2)}
=============================================================================
