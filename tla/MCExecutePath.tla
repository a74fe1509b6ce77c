---------------------------- MODULE MCExecutePath ----------------------------
EXTENDS ExecutePath

\* block n of the scratchpad, and of the accumulator
Sp(n) == [mem |-> "spad", row |-> n * BlockSize, accumulate |-> FALSE]
Acc(n) == [mem |-> "acc", row |-> n * BlockSize, accumulate |-> FALSE]
Add(n) == [Acc(n) EXCEPT !.accumulate = TRUE]
At(addr, rows) == [addr |-> addr, rows |-> rows, cols |-> BlockSize]
Full(addr) == At(addr, BlockSize)
None == Full(garbage)

Ex(funct, rs1, rs2) == [unit |-> "ex", cmd |-> [NoCmd EXCEPT !.funct = funct, !.rs1 = rs1, !.rs2 = rs2]]
Preload(d, c) == Ex("PRELOAD", d, c)
Flip(a, b) == Ex("COMPUTE_AND_FLIP", a, b)
Stay(a, b) == Ex("COMPUTE_AND_STAY", a, b)
ConfigCmd(c) == [unit |-> "ex", cmd |-> [NoCmd EXCEPT !.funct = "CONFIG", !.conf = c]]
Config(dataflow, at, bt) ==
  ConfigCmd([dataflow |-> dataflow, a_transpose |-> at, bd_transpose |-> bt,
             a_stride |-> 1, c_stride |-> 1, set_only_strides |-> FALSE])
Strides(a, c) == ConfigCmd([conf_at_reset EXCEPT !.a_stride = a, !.c_stride = c]
                           @@ [set_only_strides |-> TRUE])
Load(row, acc) == [unit |-> "ld", row |-> row, acc |-> acc]
Store(row) == [unit |-> "st", row |-> row]

Numbered(p) == [i \in DOMAIN p |-> IF p[i].unit = "ex" THEN [p[i] EXCEPT !.cmd.rob_id = i] ELSE p[i]]

Part == BlockSize \div 2 + 1
\* Weight-stationary: a bias in the accumulator, weights used four times, results of few
\* rows that are added to the same place one right after the other.
Ws == <<Config(WS, FALSE, FALSE), Load(0, FALSE), Load(1, FALSE),
        Preload(Full(Sp(0)), Full(Add(0))), Flip(Full(Sp(1)), None),
        Preload(None, At(Add(0), Part)), Stay(At(Sp(4), Part), Full(Sp(2))),
        Preload(None, At(Add(0), 2)), Stay(At(Sp(5), 2), None),
        Preload(None, At(Add(0), 2)), Stay(At(Sp(6), 2), None),
        Load(2, TRUE), Store(0), Store(3)>>
\* Every other row of A and of C, then weights that are results.
WsStrides == <<Preload(Full(Sp(0)), Full(Sp(5))), Flip(Full(Sp(1)), None),
               Strides(2, 2),
               Preload(Full(Sp(5)), Full(Acc(0))), Flip(Full(Sp(1)), Full(Sp(4))),
               Store(2), Load(2, FALSE)>>
\* The left matrix transposed, then results that are operands.
WsTurned == <<Config(WS, TRUE, FALSE),
              Preload(Full(Sp(0)), Full(Sp(5))), Flip(Full(Sp(1)), None),
              Preload(Full(Sp(2)), Full(Acc(1))), Flip(Full(Sp(5)), Full(Sp(4))),
              Store(BlockSize), Load(BlockSize, FALSE)>>
\* The weights transposed: the unroller sends a preload twice.
WsWeights == <<Config(WS, FALSE, TRUE),
               Preload(Full(Sp(0)), Full(Acc(0))), Flip(Full(Sp(1)), None),
               Preload(None, Full(Add(0))), Stay(Full(Sp(4)), None),
               Preload(Full(Sp(2)), Full(Acc(1))), Flip(Full(Sp(1)), None),
               Store(0), Store(BlockSize + 1)>>
\* Output-stationary: sums over two computes, and a result that is an operand.
Os == <<Config(OS, FALSE, FALSE),
        Preload(Full(Sp(0)), None), Flip(Full(Sp(1)), Full(Sp(2))),
        Preload(None, Full(Sp(5))), Stay(Full(Sp(4)), Full(Sp(2))),
        Preload(None, Full(Acc(0))), Flip(Full(Sp(1)), Full(Sp(5))),
        Store(1)>>
\* Both operands transposed, then the other dataflow.
OsTurned == <<Config(OS, TRUE, TRUE),
              Preload(None, At(Acc(0), 2)), Flip(Full(Sp(1)), Full(Sp(2))),
              Config(WS, FALSE, FALSE),
              Preload(Full(Sp(0)), Full(Acc(1))), Flip(Full(Sp(1)), Full(Sp(2))),
              Store(0), Store(BlockSize)>>
MCPrograms == {Numbered(p) : p \in {Ws, WsStrides, WsTurned, WsWeights, Os, OsTurned}}
=============================================================================
