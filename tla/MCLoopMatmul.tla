--------------------------- MODULE MCLoopMatmul ---------------------------
(* Programs for the matmul loop unroller, small enough for TLC *)
EXTENDS LoopMatmul, TiledMatmul

Matmul(I0, J0, K0, I, J, K, bias) ==
  tiled_matmul_outer(I0, J0, K0, I, I, J, K, 0, bias, FALSE, FALSE, "NONE", FALSE)

\* Tiles along K accumulated into one, with and without a bias; tiles along I and J
\* that reuse A and B; a command behind the loops.
TilePrograms ==
  {Program(Matmul(1, 1, 2, 2, 1, 2, TRUE), <<Other(2)>>),
   Program(Matmul(1, 1, 3, 1, 1, 1, FALSE), << >>),
   Program(Matmul(2, 2, 1, 1, 1, 1, FALSE), << >>)}

\* Commands of several blocks, transposed operands, full-width results.
ShapePrograms ==
  {Program(tiled_matmul_outer(1, 1, 2, 1, 1, 3, 2, 0, TRUE, FALSE, TRUE, "NONE", FALSE), << >>),
   Program(tiled_matmul_outer(2, 1, 1, 3, 1, 1, 2, 0, TRUE, TRUE, FALSE, "NONE", TRUE), << >>)}

\* Residual additions, alone and between matmuls.
ResaddPrograms ==
  {Program(tiled_resadd(3, 2, 2), << >>),
   Program(Then(Then(Matmul(1, 1, 1, 1, 1, 2, TRUE), tiled_resadd(1, 1, 2)),
                Matmul(1, 1, 2, 1, 1, 1, TRUE)), << >>)}

\* Normalized results: two row blocks, the last one padded.
NormPrograms ==
  {Program(tiled_matmul_outer(1, 1, 1, 2, 2, 3, 1, 1, FALSE, FALSE, FALSE, act, FALSE), << >>) :
     act \in {"LAYERNORM", "SOFTMAX"}}

\* gemmini_loop_ws_spad on the tiles a matmul left in the first half: no loads, the
\* result goes to row block C_sp of the scratchpad.
SpadCall(C_sp, inc) ==
  [Call(1, 1, 1, 2) EXCEPT !.A_sp = 0, !.B_sp = SpHalf, !.C_sp = C_sp, !.inc = inc,
     !.skips = {"ldA", "ldB", "ldD"}, !.spad = TRUE, !.tileA = Tile(1, 0, 0), !.tileB = Tile(2, 0, 0),
     !.sum = {[A |-> Tile(1, 0, 0), B |-> Tile(2, 0, 0), K |-> 2]}]

\* Two scratchpad loops in a row use both halves of the accumulator; two with a fence
\* between them may use the same.
SpadPrograms ==
  LET first == Matmul(1, 1, 1, 1, 1, 2, FALSE)
      pair  == <<SpadCall(SpHalf, TRUE), [SpadCall(SpHalf + 1, TRUE) EXCEPT !.n = 2]>>
  IN  {Program(Then(first, pair), << >>),
       Program(Then(Then(first, <<SpadCall(SpHalf, FALSE)>>), <<SpadCall(SpHalf + 1, FALSE)>>), << >>)}

LoopPrograms == TilePrograms \cup ShapePrograms \cup ResaddPrograms \cup NormPrograms \cup SpadPrograms
=============================================================================
