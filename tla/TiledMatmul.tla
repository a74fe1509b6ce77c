---------------------------- MODULE TiledMatmul ----------------------------
(***************************************************************************)
(* The programs that call the loop unroller: the loop nests of             *)
(* tiled_matmul_outer and tiled_resadd and the macros gemmini_loop_ws and  *)
(* gemmini_loop_ws_spad of gemmini-rocc-tests/include/gemmini.h.  A tile   *)
(* of a matrix is a number; 0 is NULL.                                     *)
(***************************************************************************)
EXTENDS Integers, Sequences

\* A call with no bias, no transposition, no operand reuse.
Call(n, I, J, K) ==
  [n |-> n, I |-> I, J |-> J, K |-> K, pad_I |-> 0, A |-> 0, B |-> 0, D |-> 0, C |-> 0,
   A_transpose |-> FALSE, B_transpose |-> FALSE, full_C |-> FALSE, low_D |-> FALSE,
   ex_accumulate |-> FALSE, act |-> "NONE", a_spad_id |-> 0, b_spad_id |-> 0,
   resadd |-> FALSE, skips |-> {}, spad |-> FALSE, inc |-> FALSE,
   A_sp |-> 0, B_sp |-> 0, C_sp |-> 0, fence |-> FALSE,
   tileA |-> 0, tileB |-> 0, bias |-> 0, sum |-> {}]

\* The commands of a call: gemmini_loop_ws, or gemmini_loop_ws_spad.  fence marks a
\* call that comes after a gemmini_fence().
Commands(l) ==
  [x \in 1 .. (IF l.spad THEN 3 ELSE 6) |->
     [n |-> l.n, fence |-> l.fence /\ x = 1,
      funct |-> (IF l.spad THEN <<"BOUNDS", "SPAD_AB", "LOOP_WS">>
                 ELSE <<"BOUNDS", "ADDRS_AB", "ADDRS_DC", "STRIDES", "STRIDES", "LOOP_WS">>)[x]]]

\* A command that is none of the unroller's, after n calls.
Other(n) == [n |-> n, fence |-> FALSE, funct |-> "OTHER"]

Tile(m, r, c) == 100 * m + 10 * r + c + 1

\* tiled_matmul_outer over I0 x J0 x K0 tiles of I x J x K blocks (lastI in the last
\* row of tiles), reusing A or B where it fits in the scratchpad.
tiled_matmul_outer(I0, J0, K0, I, lastI, J, K, padding_I, bias, at, bt, act, full_C) ==
  [n \in 1 .. I0 * J0 * K0 |->
     LET i0 == (n - 1) \div (J0 * K0)
         j0 == ((n - 1) \div K0) % J0
         k0 == (n - 1) % K0
         a_reuse == I0 * K0 <= 2
         b_reuse == J0 * K0 <= 2
         D == IF bias THEN Tile(3, i0, j0) ELSE 0
     IN  [Call(n, IF i0 < I0 - 1 THEN I ELSE lastI, J, K) EXCEPT
            !.pad_I = IF i0 = I0 - 1 THEN padding_I ELSE 0,
            !.A = IF a_reuse /\ j0 >= 1 THEN 0 ELSE Tile(1, i0, k0),
            !.B = IF b_reuse /\ i0 >= 1 THEN 0 ELSE Tile(2, k0, j0),
            !.D = IF k0 # 0 THEN 0 ELSE D,
            !.C = IF k0 = K0 - 1 THEN Tile(4, i0, j0) ELSE 0,
            !.A_transpose = at, !.B_transpose = bt, !.act = act, !.full_C = full_C,
            !.ex_accumulate = bias \/ k0 # 0,
            !.a_spad_id = IF ~a_reuse THEN 0 ELSE IF i0 + k0 = 0 THEN 1 ELSE 2,
            !.b_spad_id = IF ~b_reuse THEN 0 ELSE IF j0 + k0 = 0 THEN 1 ELSE 2,
            !.tileA = Tile(1, i0, k0), !.tileB = Tile(2, k0, j0), !.bias = D,
            !.sum = {[A |-> Tile(1, i0, k), B |-> Tile(2, k, j0), K |-> K] : k \in 0 .. k0}]]

\* tiled_resadd: one call per tile, K = 0.
tiled_resadd(N, I, J) ==
  [n \in 1 .. N |-> [Call(n, I, J, 0) EXCEPT
                       !.A = Tile(1, n, 0), !.B = Tile(2, n, 0), !.C = Tile(4, n, 0),
                       !.resadd = TRUE]]

\* The calls of one function after those of another, with a gemmini_fence() between.
Then(first, second) ==
  first \o [n \in DOMAIN second |->
               [second[n] EXCEPT !.n = Len(first) + n, !.fence = n = 1]]

\* A program: its calls, and their commands one after the other.
Program(calls, tail) ==
  LET stream[n \in 0 .. Len(calls)] ==
        IF n = 0 THEN << >> ELSE stream[n - 1] \o Commands(calls[n])
  IN  [loops |-> calls \o << >>, stream |-> stream[Len(calls)] \o tail]
=============================================================================
