----------------------------- MODULE LibraryCall -----------------------------
(***************************************************************************)
(* What a call of the C library (gemmini.h) works with: the call, the tile  *)
(* it searches, the place its loop nest is at, and the simulator.           *)
(* ConvLibrary and MatmulLibrary have the functions, Library the programs   *)
(* that call one after the other.                                           *)
(***************************************************************************)
EXTENDS SimulatorLoops

VARIABLES
    c,          \* the call
    pc,         \* "idle", the search ("shrink", "ocols", "grow"; "fill"; "reduce"), "check", "run", "done"
    args,       \* the sizes of a tile
    scan,       \* index and nothing_increased of the last search loop of a convolution
    at,         \* where the loop nest over the tiles is
    g,          \* the simulator
    before,     \* what g.dram was when the call began
    todo        \* the calls that are still to come

vars == <<c, pc, args, scan, at, g, before, todo>>

Blocks(n) == (n + DIM - 1) \div DIM

\* a value of an array of the call
Held(addr, size) == ReadDram([dram |-> before], addr, size)

\* what is stored in an elem_t or an acc_t
Elem(v) == [size |-> 1, value |-> v]
Acc(v) == [size |-> SizeofAcc, value |-> v]

\* The checks of GEMMINI_ASSERTIONS call exit; otherwise the configuration is sent.
Start(kind, rejected, commands) ==
    /\ pc = "check" /\ c.kind = kind
    /\ IF rejected THEN pc' = "done" /\ g' = Fault(g) ELSE pc' = "run" /\ g' = Run(g, commands)
    /\ UNCHANGED <<c, args, scan, at, before, todo>>

\* The innermost loop of the nest that is not at its limit goes on, those inside it start again.
More(limit) == {i \in DOMAIN at : at[i] + args[i] < limit[i]}
NextTile(limit) == [i \in DOMAIN at |-> IF i < Max(More(limit)) THEN at[i]
                                        ELSE IF i = Max(More(limit)) THEN at[i] + args[i] ELSE 0]

\* One tile of the loop nest, after which the simulator is h.
RunTile(kind, limit, h) ==
    /\ pc = "run" /\ c.kind = kind
    /\ g' = h
    /\ IF More(limit) = {} \/ g'.fault THEN pc' = "done" /\ UNCHANGED at
       ELSE at' = NextTile(limit) /\ UNCHANGED pc
    /\ UNCHANGED <<c, args, scan, before, todo>>

==============================================================================
