---------------------------- MODULE MCLoadPath ----------------------------
(* Programs for the load path. *)
EXTENDS LoadPath

Conf(id, stride, shrink, block, pixels) ==
  [op |-> "config", state_id |-> id, stride |-> stride, shrink |-> shrink,
   block_stride |-> block, pixel_repeat |-> pixels]

Mvin(id, vaddr, is_acc, accumulate, row, rows, cols) ==
  [op |-> "mvin", state_id |-> id, vaddr |-> vaddr, is_acc |-> is_acc,
   accumulate |-> accumulate, data |-> row, rows |-> rows, cols |-> cols]

Sp(id, vaddr, row, rows, cols) == Mvin(id, vaddr, FALSE, FALSE, row, rows, cols)
Acc(id, vaddr, row, rows, cols) == Mvin(id, vaddr, TRUE, FALSE, row, rows, cols)
AccAdd(id, vaddr, row, rows, cols) == Mvin(id, vaddr, TRUE, TRUE, row, rows, cols)

\* Loads that write different places.
DisjointLoads == {
  \* unaligned rows; one row of main memory for every row of an accumulator
  \* block; zeros for the scratchpad
  <<Conf(0, 3, FALSE, 2, 1), Sp(0, 5, 0, 2, 2),
    Conf(1, 0, FALSE, 2, 1), AccAdd(1, 16, 0, 2, 2), Sp(0, 0, 2, 2, 2)>>,
  \* two blocks at a time, from memory and of zeros
  <<Conf(2, 8, FALSE, 2, 1), Sp(2, 6, 0, 2, 4), Sp(2, 0, 4, 1, 3), Sp(2, 30, 7, 1, 1)>>,
  \* repeated pixels, at the edges of the halves of the scratchpad
  <<Conf(0, 4, FALSE, 2, 2), Sp(0, 9, 0, 2, 1), Sp(0, 0, 4, 2, 1), Conf(1, 4, FALSE, 2, 0), Sp(1, 24, 6, 2, 2)>>,
  \* inputs shrunk and not shrunk for the accumulator, beside the scratchpad
  <<Conf(0, 4, TRUE, 2, 1), AccAdd(0, 9, 0, 2, 2), Conf(1, 4, FALSE, 2, 1), Acc(1, 22, 2, 1, 2), Sp(1, 0, 0, 2, 2)>>,
  \* zeros for the accumulator
  <<Conf(0, 0, FALSE, 2, 1), Acc(0, 0, 0, 2, 2), Sp(0, 9, 0, 2, 2), AccAdd(0, 0, 2, 1, 1)>>
}

\* A bias repeated over the rows of one bank of the accumulator, zeros for the other.
TwoBanks == {<<Conf(0, 0, FALSE, 2, 1), Acc(0, 16, 2, 2, 2), Acc(0, 0, 0, 2, 2)>>}
=============================================================================
