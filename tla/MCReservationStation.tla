------------------------- MODULE MCReservationStation -------------------------
(***************************************************************************)
(* Small programs for the reservation station: a scratchpad of eight rows  *)
(* and an accumulator of four rows in two banks, blocks of two rows.       *)
(***************************************************************************)
EXTENDS StationPromise

NoArg == [addr |-> GarbageAddr, rows |-> 0, cols |-> 0]
NoCfg == [id |-> 0, stride |-> 0, c_stride |-> 0, set_only_strides |-> FALSE,
          a_transpose |-> FALSE, b_transpose |-> FALSE, repeats |-> 0, pool |-> FALSE]

At(a, n)       == [addr |-> a, rows |-> n, cols |-> 2]
Wide(a, n, m)  == [addr |-> a, rows |-> n, cols |-> m]
Op(f, x, y)    == [funct |-> f, rs1 |-> x, rs2 |-> y, cfg |-> NoCfg]
Config(f, cfg) == [funct |-> f, rs1 |-> NoArg, rs2 |-> NoArg, cfg |-> cfg]

Regs0 == [a_stride |-> 1, c_stride |-> 1, a_transpose |-> FALSE, b_transpose |-> FALSE,
          pooling_is_enabled |-> FALSE, ld_block_strides |-> [i \in 0..2 |-> 2],
          ld_pixel_repeats |-> [i \in 0..2 |-> 0]]

\* A tile of C = A * B: loads of A and B, preload of B with C as destination,
\* compute, mvout of C.
MatmulCmds ==
  { Op("LOAD",    NoArg, At(SpAddr(0), 2)),
    Op("LOAD2",   NoArg, Wide(SpAddr(2), 2, 3)),
    Op("PRELOAD", At(SpAddr(4), 2), At(AccAddr(2), 2)),
    Op("COMPUTE", At(SpAddr(1), 2), At(GarbageAddr, 2)),
    Op("STORE",   NoArg, At(AccAddr(3), 1)) }
PlainRegs == {Regs0}

\* Results that stay on chip: C is moved from the accumulator to the
\* scratchpad, where the next product reads it, while a bias is loaded into
\* the accumulator; one product writes straight to the scratchpad.
OnChipCmds ==
  { Op("LOAD3",      NoArg, At(AccAddr(2), 2)),
    Op("PRELOAD",    At(SpAddr(6), 2), At(AccAddr(0), 2)),
    Op("PRELOAD",    At(SpAddr(1), 2), At(SpAddr(4), 2)),
    Op("COMPUTE",    At(SpAddr(2), 2), At(SpAddr(0), 1)),
    Op("STORE",      NoArg, Wide(AccAddr(0), 1, 3)),
    Op("STORE_SPAD", At(SpAddr(2), 0), At(AccAddr(1), 2)) }

\* Reconfiguration between uses: strides of both kinds, transposition,
\* pooling, and the normalisation constants.
ConfigCmds ==
  { Config("CONFIG_LOAD",  [NoCfg EXCEPT !.id = 1, !.stride = 3]),
    Config("CONFIG_EX",    [NoCfg EXCEPT !.stride = 2, !.c_stride = 2, !.a_transpose = TRUE]),
    Config("CONFIG_EX",    [NoCfg EXCEPT !.stride = 1, !.c_stride = 0, !.set_only_strides = TRUE]),
    Config("CONFIG_STORE", [NoCfg EXCEPT !.pool = TRUE]),
    Config("CONFIG_NORM",  NoCfg),
    Op("LOAD2",   NoArg, Wide(SpAddr(1), 2, 3)),
    Op("PRELOAD", At(GarbageAddr, 2), At(AccAddr(1), 1)),
    Op("COMPUTE", Wide(SpAddr(4), 1, 2), At(GarbageAddr, 2)),
    Op("STORE",   NoArg, At(AccAddr(1), 1)) }

\* Rows the station does not record: the source of a move to the scratchpad.
SpadMoveCmds ==
  { Op("LOAD3",      NoArg, At(AccAddr(0), 2)),
    Op("STORE_SPAD", At(SpAddr(2), 0), At(AccAddr(0), 2)) }
===============================================================================
