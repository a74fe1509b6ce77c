----------------------------- MODULE LoopMatmul -----------------------------
(***************************************************************************)
(* The matmul loop unroller (LoopMatmul.scala): one gemmini_loop_ws call   *)
(* becomes a stream of mvins, preloads, computes and mvouts.  Six units    *)
(* walk over the blocks of the four matrices, two loops are in flight at a *)
(* time (the loop at the head and the one behind it), and an arbiter emits *)
(* at most one command per cycle.                                          *)
(*                                                                         *)
(* A step is a clock cycle.  Addresses count blocks of block_size rows.    *)
(* Columns, strides and DRAM offsets only shape the data inside a block    *)
(* and are left out; a DRAM address is the number of a matrix tile, 0 when *)
(* it is NULL.                                                             *)
(*                                                                         *)
(* sp, ac, weights and norm give the emitted stream its meaning: what the  *)
(* scratchpad, the accumulator, the mesh and the normalizer hold once the  *)
(* commands emitted so far have been executed in program order, which is   *)
(* what the reservation station guarantees (module ReservationStation).    *)
(***************************************************************************)
EXTENDS Integers, Sequences, FiniteSets

CONSTANTS Programs,      \* the programs: the loops they call and their commands
          MaxBlockLen,   \* max_block_len: blocks of one mvin or mvout
          MaxBlockLenAcc,\* max_block_len_acc: the same for a full-width mvin
          MaxLds, MaxExs, MaxSts, \* entries of the reservation station
          SpHalf,        \* max_addr / concurrent_loops, in blocks
          AccHalf,       \* max_acc_addr / concurrent_loops, in blocks
          Dim            \* block_size

ASSUME SizesAssumption ==
  {MaxBlockLen, MaxBlockLenAcc, MaxLds, MaxExs, MaxSts, SpHalf, AccHalf, Dim} \subseteq Nat \ {0}

VARIABLES prog,      \* the program that runs
          taken,     \* how many of its commands left the queue
          queued,    \* how many commands sit in the queue
          loops,     \* the two loop states
          head,      \* head_loop_id
          is_resadd, \* the last loop configured is a residual addition
          unit,      \* ldA, ldB, ldD, ex, stC and stC_spad
          start,     \* ld_d_addr_start, ex_c_addr_start, st_c_addr_start
          util,      \* ld_utilization, ex_utilization, st_utilization
          out,       \* the command on io.out in the last cycle
          sent,      \* commands given to the reservation station, not completed
          sp, ac, weights, norm, \* the meaning of the stream emitted so far
          stored,    \* rows of C the two loops have moved out
          done       \* loops completed

vars == <<prog, taken, queued, loops, head, is_resadd, unit, start, util,
          out, sent, sp, ac, weights, norm, stored, done>>

LoopIds == {0, 1}
Units   == {"ldA", "ldB", "ldD", "ex", "stC", "stC_spad"}
Parts   == {"ldA", "ldB", "ldD", "ex", "st"}

Part(u) == IF u \in {"stC", "stC_spad"} THEN "st" ELSE u

Cmd == prog.stream[taken + 1]

-----------------------------------------------------------------------------
(* Arithmetic of the iterators *)

Least(a, b) == IF a <= b THEN a ELSE b

floorAdd(u, n, max_plus_one, en) ==
  IF ~en THEN u ELSE IF u + n > max_plus_one - 1 THEN 0 ELSE u + n

\* Two nested iterators: the outer one moves when the inner one wraps.
Sweep(inner, step, max, outer, ostep, omax) ==
  LET next == floorAdd(inner, step, max, TRUE)
  IN  <<next, floorAdd(outer, ostep, omax, next = 0)>>

\* Blocks of one command that starts at column c of max columns.
BlocksAt(c, max_blocks, max) == IF c + max_blocks <= max THEN max_blocks ELSE max - c

Overlay(f, g) == [x \in DOMAIN g |-> IF x \in DOMAIN f THEN f[x] ELSE g[x]]

-----------------------------------------------------------------------------
(* The loop states *)

Reset(l) == [l EXCEPT !.configured = FALSE, !.running = FALSE, !.started = {},
                      !.completed = {}, !.spad_only = FALSE]

\* Only what reset() and the reset block set is known at power-up; the fields
\* a program writes before LOOP_WS hold anything, here 1 or 0.
NewLoop(x) ==
  [n |-> 0, max_i |-> 1, max_j |-> 1, max_k |-> 1, pad_i |-> 0,
   a |-> 0, b |-> 0, d |-> 0, c |-> 0, c_spad |-> 0, inc_acc_addr |-> FALSE,
   spad_only |-> FALSE, a_transpose |-> FALSE, b_transpose |-> FALSE,
   act |-> "NONE", low_d |-> FALSE, full_c |-> FALSE, ex_accumulate |-> FALSE,
   a_ex_spad_id |-> 0, b_ex_spad_id |-> 0,
   a_addr_start |-> x * SpHalf, b_addr_end |-> (x + 1) * SpHalf,
   configured |-> FALSE, running |-> FALSE, started |-> {}, completed |-> {}]

tail == 1 - head

loop_configured == \E x \in LoopIds : loops[x].configured

loop_being_configured_id == IF loops[head].configured THEN tail ELSE head

loop_requesting(p) == IF p \in loops[head].started THEN tail ELSE head

\* The LOOP_WS_CONFIG_* commands and LOOP_WS, on the loop being configured.
Configured(l, funct, c) ==
  CASE funct = "BOUNDS"   -> [l EXCEPT !.max_i = c.I, !.max_j = c.J, !.max_k = c.K,
                                       !.pad_i = c.pad_I]
    [] funct = "ADDRS_AB" -> [l EXCEPT !.spad_only = FALSE, !.a = c.A, !.b = c.B]
    [] funct = "ADDRS_DC" -> [l EXCEPT !.spad_only = FALSE, !.d = c.D, !.c = c.C]
    [] funct = "STRIDES"  -> l
    [] funct = "SPAD_AB"  -> [l EXCEPT !.a_addr_start = c.A_sp, !.b_addr_end = c.B_sp]
    [] funct = "LOOP_WS"  ->
         [l EXCEPT !.n = c.n, !.ex_accumulate = c.ex_accumulate, !.full_c = c.full_C,
                   !.low_d = c.low_D, !.act = c.act, !.started = c.skips,
                   !.completed = c.skips, !.inc_acc_addr = c.inc,
                   !.spad_only = c.spad, !.c_spad = c.C_sp,
                   !.a_ex_spad_id = c.a_spad_id, !.b_ex_spad_id = c.b_spad_id,
                   !.a_transpose = c.A_transpose, !.b_transpose = c.B_transpose,
                   !.configured = TRUE]

-----------------------------------------------------------------------------
(* Requests: a unit that is idle takes the next loop it has not started *)

req_valid(u) ==
  LET p == Part(u)
      l == loops[loop_requesting(p)]
  IN  /\ p \notin l.started
      /\ l.configured
      /\ u = "ex" => {"ldA", "ldB", "ldD"} \subseteq l.started
      /\ u = "stC" => is_resadd \/ ("ex" \in l.started /\ ~l.spad_only)
      /\ u = "stC_spad" => "ex" \in l.started /\ l.spad_only

req_fire(u) == unit[u].state = "idle" /\ req_valid(u)

\* Where the blocks of A start and those of B end, for the loads and for ex.
AStart(u, x) ==
  LET l == loops[x]
  IN  IF u = "ldA" /\ is_resadd THEN x * AccHalf
      ELSE IF l.a_ex_spad_id = 0 \/ (u = "ex" /\ l.spad_only) THEN l.a_addr_start
      ELSE (l.a_ex_spad_id - 1) * SpHalf

BEnd(u, x) ==
  LET l == loops[x]
  IN  IF u = "ldB" /\ is_resadd THEN x * AccHalf
      ELSE IF l.b_ex_spad_id = 0 \/ (u = "ex" /\ l.spad_only) THEN l.b_addr_end
      ELSE l.b_ex_spad_id * SpHalf

Request(u) ==
  LET x == loop_requesting(Part(u))
      l == loops[x]
  IN  [loop |-> x, n |-> l.n, max_i |-> l.max_i, max_j |-> l.max_j, pad_i |-> l.pad_i,
       max_k |-> CASE is_resadd /\ u = "ldA" -> l.max_j
                   [] is_resadd /\ u = "ldB" -> l.max_i
                   [] is_resadd /\ Part(u) = "st" -> 1
                   [] OTHER -> l.max_k,
       dram |-> CASE u = "ldA" -> l.a [] u = "ldB" -> l.b [] u = "ldD" -> l.d
                  [] u = "stC" -> l.c [] OTHER -> 1,
       a_transpose |-> l.a_transpose, b_transpose |-> l.b_transpose,
       low_d |-> l.low_d, full_c |-> l.full_c, act |-> l.act,
       accumulate |-> l.ex_accumulate, is_resadd |-> is_resadd,
       a_start |-> AStart(u, x), b_end |-> BEnd(u, x),
       c_start |-> CASE u = "stC" /\ is_resadd -> x * AccHalf
                     [] u \in {"ldA", "ldB"} -> 0
                     [] OTHER -> start[Part(u)],
       dst |-> l.c_spad]

IdleUnit(r) == [state |-> "idle", i |-> 0, j |-> 0, k |-> 0, row |-> 0, cmd |-> 0,
                stat |-> 0, req |-> r]

Normalizes(act) == act \in {"LAYERNORM", "SOFTMAX"}

Started(u) ==
  [IdleUnit(Request(u)) EXCEPT
     !.state = CASE u = "ex" -> "pre"
                 [] u = "stC" /\ Normalizes(Request(u).act) -> "ln_config"
                 [] Part(u) = "st" -> "st"
                 [] OTHER -> "ld"]

\* A null address, or the skip bit of ex, ends a unit's loop with no command.
Void(u) == \/ u # "ex" /\ unit[u].req.dram = 0
           \/ u = "ex" /\ unit[u].req.is_resadd

-----------------------------------------------------------------------------
(* The block a unit stands at: row, column and width of the block matrix, and *)
(* the address of its first block                                             *)

Place(u) ==
  LET v == unit[u]
      r == v.req
  IN  CASE u = "ldA" -> [row |-> IF r.a_transpose THEN v.k ELSE v.i,
                         col |-> IF r.a_transpose THEN v.i ELSE v.k,
                         width |-> IF r.a_transpose THEN r.max_i ELSE r.max_k,
                         first |-> r.a_start]
        [] u = "ldB" -> [row |-> IF r.b_transpose THEN v.j ELSE v.k,
                         col |-> IF r.b_transpose THEN v.k ELSE v.j,
                         width |-> IF r.b_transpose THEN r.max_k ELSE r.max_j,
                         first |-> IF r.is_resadd THEN r.b_end
                                   ELSE r.b_end - r.max_k * r.max_j]
        [] OTHER     -> [row |-> v.i, col |-> v.j, width |-> r.max_j,
                         first |-> r.c_start]

Address(u) == Place(u).first + Place(u).row * Place(u).width + Place(u).col

max_blocks(u) ==
  LET r == unit[u].req
  IN  IF Part(u) = "st" /\ r.full_c THEN 1
      ELSE Least(Place(u).width,
                 CASE u = "ldD" /\ ~r.low_d -> MaxBlockLenAcc
                   [] u = "stC_spad" -> 1
                   [] OTHER -> MaxBlockLen)

blocks(u) == BlocksAt(Place(u).col, max_blocks(u), Place(u).width)

rows(u) == Dim - IF unit[u].i = unit[u].req.max_i - 1 THEN unit[u].req.pad_i ELSE 0

\* The operands of ex: A(i, k) and B(k, j) where the loads put them.
a_addr == LET v == unit["ex"]
              r == v.req
          IN  r.a_start + IF r.a_transpose THEN v.k * r.max_i + v.i ELSE v.i * r.max_k + v.k
b_addr == LET v == unit["ex"]
              r == v.req
          IN  r.b_end - r.max_k * r.max_j
                + IF r.b_transpose THEN v.j * r.max_k + v.k ELSE v.k * r.max_j + v.j

-----------------------------------------------------------------------------
(* Who may emit a command *)

\* The loop that v works on, u has left behind.
Past(u, v) == unit[u].req.loop # unit[v].req.loop \/ unit[u].state = "idle"

lda_ahead == LET a == unit["ldA"]  x == unit["ex"]
             IN  Past("ldA", "ex") \/ a.k > x.k \/ (a.k = x.k /\ a.i > x.i)

\* fault: a load of B at the same k is taken for one that is past it
ldb_ahead_SameK == Past("ldB", "ex") \/ unit["ldB"].k >= unit["ex"].k

\* The second comparison reads the k of ldA, not of ldB.
ldb_ahead == LET a == unit["ldA"]  b == unit["ldB"]  x == unit["ex"]
             IN  Past("ldB", "ex") \/ b.k > x.k \/ (a.k = x.k /\ b.j > x.j)

ldd_ahead == Past("ldD", "ex")

\* Mistaken variants: stores that wait only for the first block of several, or that
\* overlook that ex has gone on to its next loop.
ex_ahead_SameLoop(u) ==
  unit["ex"].state # "idle" /\ unit["ex"].k = unit[u].req.max_k - 1 /\ unit["ex"].i > unit[u].i
ex_ahead_FirstBlock(u) ==
  \/ Past("ex", u)
  \/ unit["ex"].k = unit[u].req.max_k - 1 /\ unit["ex"].j >= unit[u].j + 1

\* For a residual addition stC follows ldB instead of ex.
ex_ahead(u) ==
  LET v == unit[u]
      r == v.req
      add == u = "stC" /\ is_resadd
      completed == IF add THEN Past("ldA", u) /\ Past("ldB", u) ELSE Past("ex", u)
      ex_k == IF add THEN 0 ELSE unit["ex"].k
      ex_j == IF add THEN unit["ldB"].j ELSE unit["ex"].j
      ex_i == IF add THEN unit["ldB"].k ELSE unit["ex"].i
  IN  \/ completed
      \/ /\ r.is_resadd
         /\ ex_i > v.i \/ (ex_i = v.i /\ ex_j >= v.j + blocks(u))
      \/ /\ ~r.is_resadd
         /\ ~Normalizes(r.act)
         /\ ex_k = r.max_k - 1
         /\ ex_j >= v.j + blocks(u) \/ (ex_j = v.j + blocks(u) - 1 /\ ex_i > v.i)

Class(u) == IF u \in {"ldA", "ldB", "ldD"} THEN "ld" ELSE Part(u)
Entries(c) == CASE c = "ld" -> MaxLds [] c = "ex" -> MaxExs [] c = "st" -> MaxSts

\* A mistaken variant: one command too many.
rob_overloaded_Late(u) == util[Class(u)] > Entries(Class(u))

rob_overloaded(u) == util[Class(u)] >= Entries(Class(u))

cmd_valid(u) ==
  /\ unit[u].state # "idle"
  /\ ~rob_overloaded(u)
  /\ ~Void(u)
  /\ u = "ex" => lda_ahead /\ ldb_ahead /\ ldd_ahead
  /\ Part(u) = "st" => ex_ahead(u)

\* WeightedArbiter with a static weight: who of ldA and ldB is let through.
ldab_choice ==
  LET a == unit["ldA"]  b == unit["ldB"]
      same == a.req.loop = b.req.loop
      forceA == IF is_resadd THEN same /\ a.state # "idle" ELSE ~same /\ a.req.loop = head
      forceB == (~same /\ b.req.loop = head) \/ (is_resadd /\ a.state = "idle")
  IN  CASE forceA -> "ldA"
        [] ~forceA /\ forceB -> "ldB"
        [] OTHER -> IF \/ a.state = "idle"
                       \/ b.state # "idle" /\ (a.k > b.k \/ (b.k = 0 /\ b.j = 0))
                    THEN "ldB" ELSE "ldA"

\* The arbiter in front of io.out: the first valid command wins.
chosen ==
  LET order == <<"stC", "ex", "ldD", ldab_choice, "stC_spad">>
      ready == {p \in DOMAIN order : cmd_valid(order[p])}
  IN  IF ready = {} THEN "none"
      ELSE order[CHOOSE p \in ready : \A q \in ready : p <= q]

-----------------------------------------------------------------------------
(* How a unit moves on when its command is taken *)

NORM_STAT_IDS == 2
NormPasses    == 3

Swept(v, i, j, k) == [v EXCEPT !.i = i, !.j = j, !.k = k,
                               !.state = IF i = 0 /\ j = 0 /\ k = 0 THEN "idle" ELSE @]

AdvanceEx(v) ==
  IF v.state = "pre" THEN [v EXCEPT !.state = "comp"]
  ELSE LET ij == Sweep(v.i, 1, v.req.max_i, v.j, 1, v.req.max_j)
           k  == floorAdd(v.k, 1, v.req.max_k, ij[1] = 0 /\ ij[2] = 0)
       IN  Swept([v EXCEPT !.state = "pre"], ij[1], ij[2], k)

\* A mistaken variant: no CONFIG_NORM when the statistics slot changes.
AdvanceNorm_SameSlot(v) ==
  [v EXCEPT !.stat = IF v.state = "ln_st" THEN 1 - @ ELSE @, !.state = "ln_st"]

AdvanceNorm(v) ==
  IF v.state = "ln_config" THEN [v EXCEPT !.state = "ln_st"]
  ELSE LET left == rows("stC") - v.row
           j    == floorAdd(v.j, max_blocks("stC"), v.req.max_j, TRUE)
           stat == floorAdd(v.stat, 1, Least(left, NORM_STAT_IDS), j = 0)
           cmd  == floorAdd(v.cmd, 1, NormPasses, j = 0 /\ stat = 0)
           row  == floorAdd(v.row, NORM_STAT_IDS, rows("stC"), j = 0 /\ stat = 0 /\ cmd = 0)
           i    == floorAdd(v.i, 1, v.req.max_i, j = 0 /\ stat = 0 /\ cmd = 0 /\ row = 0)
       IN  [v EXCEPT !.i = i, !.j = j, !.stat = stat, !.cmd = cmd, !.row = row,
                     !.state = IF {i, j, stat, cmd, row} = {0} THEN "idle"
                               ELSE IF j = 0 THEN "ln_config" ELSE @]

Advance(u) ==
  LET v == unit[u]
      r == v.req
      m == max_blocks(u)
  IN  CASE u = "ldA" -> LET s == Sweep(v.i, IF r.a_transpose THEN m ELSE 1, r.max_i,
                                       v.k, IF r.a_transpose THEN 1 ELSE m, r.max_k)
                        IN  Swept(v, s[1], 0, s[2])
        [] u = "ldB" -> LET s == Sweep(v.j, IF r.b_transpose THEN 1 ELSE m, r.max_j,
                                       v.k, IF r.b_transpose THEN m ELSE 1, r.max_k)
                        IN  Swept(v, 0, s[1], s[2])
        [] u = "ex"  -> AdvanceEx(v)
        [] v.state \in {"ln_config", "ln_st"} -> AdvanceNorm(v)
        [] OTHER     -> LET s == Sweep(v.i, 1, r.max_i, v.j, m, r.max_j)
                        IN  Swept(v, s[1], s[2], 0)

NextUnit(u, fired) ==
  IF req_fire(u) THEN Started(u)
  ELSE IF Void(u) THEN [unit[u] EXCEPT !.state = "idle"]
  ELSE IF fired = u THEN Advance(u)
  ELSE unit[u]

-----------------------------------------------------------------------------
(* The meaning of the commands, executed in program order *)

\* The contents of a scratchpad block is the block of the matrix it was loaded
\* from; that of an accumulator block is the set of its summands, to which
\* Twice is added when a summand comes in a second time.
Unknown == <<0, 0, 0>>
Twice   == <<0, 0, 0, 0>>

Plus(sum, x) == sum \cup {x} \cup (IF x \in sum THEN {Twice} ELSE {})

\* The blocks an mvin or mvout of unit u covers, each with its matrix block.
Covered(u) == [b \in Address(u) .. Address(u) + blocks(u) - 1 |->
                 <<unit[u].req.dram, Place(u).row, Place(u).col + b - Address(u)>>]

Product == <<sp[a_addr], weights>>

NextSp(u) ==
  CASE u \in {"ldA", "ldB"} /\ ~unit[u].req.is_resadd -> Overlay(Covered(u), sp)
    [] u = "stC_spad" -> [sp EXCEPT ![unit[u].req.dst + unit[u].i * unit[u].req.max_j + unit[u].j] =
                            <<-unit[u].req.n, unit[u].i, unit[u].j>>]
    [] OTHER -> sp

NextAc(u) ==
  CASE u = "ldD" \/ (u = "ldA" /\ unit[u].req.is_resadd) ->
         Overlay([b \in DOMAIN Covered(u) |-> {Covered(u)[b]}], ac)
    [] u = "ldB" /\ unit[u].req.is_resadd ->
         Overlay([b \in DOMAIN Covered(u) |-> Plus(ac[b], Covered(u)[b])], ac)
    [] u = "ex" /\ unit[u].state = "comp" ->
         [ac EXCEPT ![Address(u)] =
            IF unit[u].req.accumulate \/ unit[u].k # 0 THEN Plus(@, Product) ELSE {Product}]
    [] OTHER -> ac

\* A preload brings new weights into the mesh for the first row of blocks only.
NextWeights(u) ==
  IF u = "ex" /\ unit[u].state = "pre" /\ unit[u].i = 0 THEN sp[b_addr] ELSE weights

\* norm.id is the statistics slot CONFIG_NORM chose; norm.seen[s] says which pass
\* over which row slot s has followed, and up to which column.
NextNorm(u) ==
  LET v == unit[u]
  IN  CASE u = "stC" /\ v.state = "ln_config" -> [norm EXCEPT !.id = v.stat]
        [] u = "stC" /\ v.state = "ln_st" ->
             [norm EXCEPT !.seen[norm.id] = <<v.i, v.row + v.stat, v.cmd, v.j + blocks(u)>>]
        [] OTHER -> norm

\* Rows of C that a command writes to DRAM or to the scratchpad.
RowsOut(u) ==
  LET v == unit[u]
  IN  CASE v.state = "st" -> {v.i} \X (v.j .. v.j + blocks(u) - 1) \X (0 .. rows(u) - 1)
        [] v.state = "ln_st" /\ v.cmd = NormPasses - 1 ->
             {v.i} \X (v.j .. v.j + blocks(u) - 1) \X {v.row + v.stat}
        [] OTHER -> {}

Nothing == [u |-> "none"]

Emitted(u) ==
  LET v == unit[u]
  IN  [u |-> u, state |-> v.state, n |-> v.req.n, i |-> v.i, j |-> v.j, k |-> v.k,
       val |-> CASE u = "ex" -> Product
                 [] Part(u) = "st" -> [x \in 0 .. blocks(u) - 1 |-> ac[Address(u) + x]]
                 [] OTHER -> Unknown]

-----------------------------------------------------------------------------
(* One clock cycle *)

is_loop_cmd == Cmd.funct # "OTHER"

\* A mistaken variant: other commands overtake the loops.
cmd_fires_Overtake(ready) ==
  queued > 0 /\ IF is_loop_cmd THEN ~loops[loop_being_configured_id].configured ELSE ready

\* cmd.ready, with a command at the head of the queue
cmd_fires(ready) ==
  /\ queued > 0
  /\ IF is_loop_cmd THEN ~loops[loop_being_configured_id].configured
     ELSE ~loop_configured /\ ready

\* A mistaken variant: completion of whichever store unit is idle.
completes_AnyStore(u) ==
  LET l == loops[unit[u].req.loop] IN unit[u].state = "idle" /\ l.running /\ Part(u) \in l.started

completes(u) ==
  LET l == loops[unit[u].req.loop]
  IN  /\ unit[u].state = "idle"
      /\ l.running
      /\ Part(u) \in l.started
      /\ u = "stC" => ~l.spad_only
      /\ u = "stC_spad" => l.spad_only

head_ends == loops[head].running /\ loops[head].completed = Parts

NextLoop(x, cmdfire) ==
  LET l    == loops[x]
      new  == {Part(u) : u \in {w \in Units : req_fire(w) /\ loop_requesting(Part(w)) = x}}
      over == {Part(u) : u \in {w \in Units : completes(w) /\ unit[w].req.loop = x}}
  IN  IF x = head /\ head_ends THEN Reset(l)
      ELSE IF cmdfire /\ is_loop_cmd /\ x = loop_being_configured_id
      THEN Configured(l, Cmd.funct, prog.loops[Cmd.n])
      ELSE [l EXCEPT !.running = @ \/ new # {}, !.started = @ \cup new,
                     !.completed = @ \cup over]

\* The half of the accumulator changes with every loop that moves C out.
NextStart(p) ==
  LET l == loops[loop_requesting(p)]
      moves == IF p # "ldD" /\ l.spad_only THEN l.inc_acc_addr ELSE l.c # 0
      fires == \E u \in Units : Part(u) = p /\ req_fire(u)
  IN  IF fires /\ moves THEN floorAdd(start[p], AccHalf, 2 * AccHalf, TRUE) ELSE start[p]

\* The core holds a command back while the queue is full; after a fence it waits
\* until nothing is busy.
can_arrive ==
  /\ queued < 2
  /\ taken + queued < Len(prog.stream)
  /\ prog.stream[taken + queued + 1].fence =>
       queued = 0 /\ ~loop_configured /\ \A c \in DOMAIN sent : sent[c] = 0

\* The reservation station completes one command per cycle through its completion
\* port, of whatever class, and one store configuration when it is issued.
Completions == {f \in [{"ld", "ex", "st"} -> 0 .. 2] :
                  /\ f["ld"] + f["ex"] <= 1
                  /\ f["st"] + f["ld"] + f["ex"] <= 2}

\* The unroller, with ready for io.out.ready
Clock(ready, fired) ==
  LET cmdfire == cmd_fires(ready)
      emits   == fired # "none" /\ loop_configured
  IN  /\ taken' = taken + IF cmdfire THEN 1 ELSE 0
      /\ loops' = [x \in LoopIds |-> NextLoop(x, cmdfire)]
      /\ head' = IF head_ends THEN tail ELSE head
      /\ is_resadd' = IF cmdfire /\ Cmd.funct = "LOOP_WS" THEN prog.loops[Cmd.n].resadd ELSE is_resadd
      /\ unit' = [u \in Units |-> NextUnit(u, fired)]
      /\ start' = [p \in DOMAIN start |-> NextStart(p)]
      /\ out' = IF emits THEN Emitted(fired)
                ELSE IF cmdfire /\ ~is_loop_cmd THEN [u |-> "other", n |-> Cmd.n] ELSE Nothing
      /\ sp' = IF emits THEN NextSp(fired) ELSE sp
      /\ ac' = IF emits THEN NextAc(fired) ELSE ac
      /\ weights' = IF emits THEN NextWeights(fired) ELSE weights
      /\ norm' = IF emits THEN NextNorm(fired) ELSE norm
      /\ stored' = [x \in LoopIds |->
                      IF head_ends /\ x = head THEN {}
                      ELSE IF emits /\ Part(fired) = "st" /\ unit[fired].req.loop = x
                      THEN stored[x] \cup RowsOut(fired) ELSE stored[x]]
      /\ done' = done + IF head_ends THEN 1 ELSE 0
      /\ UNCHANGED prog

\* What it counts: a command may enter the queue, and the reservation station reports the
\* commands it has finished, by class.
Count(ready, fired, arrive, finished) ==
  LET counts(c) == IF fired # "none" /\ Class(fired) = c THEN 1 ELSE 0
  IN  /\ arrive => can_arrive
      /\ \A c \in DOMAIN sent : finished[c] <= sent[c]
      /\ queued' = queued + (IF arrive THEN 1 ELSE 0) - (IF cmd_fires(ready) THEN 1 ELSE 0)
      /\ util' = [c \in DOMAIN util |-> util[c] + counts(c) - finished[c]]
      /\ sent' = [c \in DOMAIN sent |-> sent[c] + (IF loop_configured THEN counts(c) ELSE 0) - finished[c]]

Cycle ==
  \E ready \in BOOLEAN : \E fired \in {IF ready THEN chosen ELSE "none"} :
    /\ Clock(ready, fired)
    /\ \E arrive \in BOOLEAN, finished \in Completions : Count(ready, fired, arrive, finished)

Init ==
  /\ prog \in Programs
  /\ taken = 0 /\ queued = 0
  /\ loops = [x \in LoopIds |-> NewLoop(x)]
  /\ head \in LoopIds
  /\ is_resadd = FALSE
  /\ unit \in [Units -> {IdleUnit([loop |-> 0, dram |-> 1, is_resadd |-> FALSE])}]
  /\ start = [p \in {"ldD", "ex", "st"} |-> 0]
  /\ util = [c \in {"ld", "ex", "st"} |-> 0]
  /\ sent = util
  /\ out = Nothing
  /\ sp = [b \in 0 .. 2 * SpHalf - 1 |-> Unknown]
  /\ ac = [b \in 0 .. 2 * AccHalf - 1 |-> {Unknown}]
  /\ weights = Unknown
  /\ norm = [id |-> 0, seen |-> [s \in 0 .. NORM_STAT_IDS - 1 |-> <<0, 0, 0, 0>>]]
  /\ stored = [x \in LoopIds |-> {}]
  /\ done = 0

Idle == /\ taken = Len(prog.stream)
        /\ ~loop_configured
        /\ \A c \in DOMAIN sent : sent[c] = 0

\* The program has ended and the unroller rests.
Finished == Idle /\ UNCHANGED vars

Next == Cycle \/ Finished

Spec == Init /\ [][Next]_vars

\* Fairness: the clock ticks while that changes anything, the reservation station keeps
\* accepting what is offered and completing what it has, the core keeps sending its commands.
Stirring == \/ head_ends
            \/ cmd_fires(FALSE)
            \/ \E u \in Units : NextUnit(u, "none") # unit[u]
            \/ \E x \in LoopIds : NextLoop(x, FALSE) # loops[x]

Offering == IF loop_configured THEN chosen # "none" ELSE queued > 0 /\ ~is_loop_cmd
Accepts  == out'.u # "none"

Arrives == taken' + queued' > taken + queued

Retires(c) == sent'[c] < sent[c] + IF loop_configured /\ Accepts /\ Class(out'.u) = c THEN 1 ELSE 0

Fairness == /\ []<>(~Stirring) \/ []<><<TRUE>>_<<unit, loops, taken>>
            /\ []<>(~Offering) \/ []<><<Accepts>>_vars
            /\ []<>(~can_arrive) \/ []<><<Arrives>>_vars
            /\ \A c \in {"ld", "ex", "st"} : []<>(sent[c] = 0) \/ []<><<Retires(c)>>_vars

FairSpec == Spec /\ Fairness

-----------------------------------------------------------------------------
(* What the stream has to compute *)

\* The blocks A(i, k) and B(k, j) of a tile, where a transposed matrix keeps them.
ABlock(l, t, i, k) == IF l.A_transpose THEN <<t, k, i>> ELSE <<t, i, k>>
BBlock(l, t, k, j) == IF l.B_transpose THEN <<t, j, k>> ELSE <<t, k, j>>

\* The summands of block (i, j) of C when loop l moves it out: those of A and B for
\* a residual addition; else the bias and the products of every tile pair the
\* program accumulates into C.
Result(l, i, j) ==
  IF l.resadd THEN {<<l.A, i, j>>, <<l.B, i, j>>}
  ELSE (IF l.bias = 0 THEN {} ELSE {<<l.bias, i, j>>}) \cup
       UNION {{<<ABlock(l, t.A, i, k), BBlock(l, t.B, k, j)>> : k \in 0 .. t.K - 1} : t \in l.sum}

AllRows(l) == {<<i, j, r>> \in (0 .. l.I - 1) \X (0 .. l.J - 1) \X (0 .. Dim - 1) :
                 r < Dim - IF i = l.I - 1 THEN l.pad_I ELSE 0}

MovesOut(l) == "st" \notin l.skips /\ (l.spad \/ l.C # 0)

TypeOK ==
  /\ prog \in Programs
  /\ taken \in 0 .. Len(prog.stream) /\ queued \in 0 .. 2
  /\ head \in LoopIds /\ is_resadd \in BOOLEAN
  /\ \A x \in LoopIds : loops[x].started \subseteq Parts /\ loops[x].completed \subseteq loops[x].started
  /\ \A u \in Units : unit[u].state \in {"idle", "ld", "pre", "comp", "st", "ln_config", "ln_st"}
  /\ start \in [{"ldD", "ex", "st"} -> {0, AccHalf}]
  /\ util \in [{"ld", "ex", "st"} -> Nat]
  /\ DOMAIN sp = 0 .. 2 * SpHalf - 1 /\ DOMAIN ac = 0 .. 2 * AccHalf - 1
  /\ done \in 0 .. Len(prog.loops)

\* A compute multiplies the block of A and the weights its iteration is about: both
\* mvins were emitted before it, and no mvin of the next loop, which runs ahead,
\* has been emitted over them.
OperandsInPlace ==
  out.u = "ex" /\ out.state = "comp" =>
    LET l == prog.loops[out.n]
    IN  out.val = <<ABlock(l, l.tileA, out.i, out.k), BBlock(l, l.tileB, out.k, out.j)>>

\* A block of C leaves the accumulator only when every product and the bias have
\* gone into it, each once, and before the next loop has touched it.
StoresFinalResult ==
  out.u \in {"stC", "stC_spad"} /\ out.state # "ln_config" =>
    \A x \in DOMAIN out.val : out.val[x] = Result(prog.loops[out.n], out.i, out.j + x)

\* Loops complete in program order, each only after all the rows of its C have
\* been moved out.
LoopsStoreAll ==
  [][done' # done =>
       LET l == prog.loops[done + 1]
       IN  loops[head].n = done + 1 /\ (MovesOut(l) => stored[head] = AllRows(l))]_vars

\* The utilization counters count exactly the commands the reservation station holds
\* or is about to receive: no command is dropped on the way, none counted twice, and
\* the three underflow assertions of LoopMatmul hold.  Every register keeps its type.
UtilizationExact == TypeOK /\ util = sent /\ \A c \in DOMAIN util : util[c] \in 0 .. Entries(c)

\* A command of the program that is not a loop command waits for the loops before it.
ProgramOrder == out.u = "other" => done = out.n /\ ~loop_configured

\* LAYERNORM and SOFTMAX: a pass over a row uses the statistics slot that followed
\* the previous pass over the same row to its end.
PassesInOrder ==
  [][out' # out /\ out'.u = "stC" /\ out'.state = "ln_st" =>
       LET v == unit["stC"]
           r == v.row + v.stat
           w == v.req.max_j
       IN  /\ norm.id = v.stat
           /\ norm.seen[norm.id] =
                IF v.j # 0 THEN <<v.i, r, v.cmd, v.j>>
                ELSE IF v.cmd # 0 THEN <<v.i, r, v.cmd - 1, w>> ELSE norm.seen[norm.id]]_vars

\* Every call of the program is unrolled to the end.
EventuallyIdle == <>Idle
=============================================================================
