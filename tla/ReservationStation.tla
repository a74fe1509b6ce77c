-------------------------- MODULE ReservationStation --------------------------
(***************************************************************************)
(* The reservation station (ReservationStation.scala): it takes commands   *)
(* in program order, records which local-memory rows each one uses, and    *)
(* hands them to the load, execute and store controllers once the commands *)
(* they depend on are out of the way.                                      *)
(*                                                                         *)
(* One step is one clock cycle.  In a cycle the station may accept one     *)
(* command, issue one command per queue and receive one completion, all at *)
(* once; later connections win, so a dependency bit that is set for the    *)
(* accepted command and cleared by an issue or a completion of the same    *)
(* cycle ends up cleared.                                                  *)
(***************************************************************************)
EXTENDS LocalAddr, FiniteSets

CONSTANTS
  LdEntries, ExEntries, StEntries,  \* reservation_station_entries_ld, _ex, _st
  BlockRows, BlockCols,             \* block_rows, block_cols
  FirstLayerOpt,                    \* has_first_layer_optimizations
  Cmds,                             \* the commands the program may send
  InitRegs,                         \* the configuration the program starts from
  Interleave,                       \* commands may come between a preload and its compute
  MaxInst                           \* bound: the commands of one run

Queues == {"ld", "ex", "st"}
Size(q) == CASE q = "ld" -> LdEntries [] q = "ex" -> ExEntries [] OTHER -> StEntries
QSlots(q) == {q} \X (0..Size(q)-1)
\* a slot is a rob id: Cat(queue, index)
Slots == UNION {QSlots(q) : q \in Queues}

Loads  == {"LOAD", "LOAD2", "LOAD3"}
Stores == {"STORE", "STORE_SPAD"}
Execs  == {"PRELOAD", "COMPUTE"}      \* COMPUTE_AND_STAY and COMPUTE_AND_FLIP alike
Configs == {"CONFIG_LOAD", "CONFIG_EX", "CONFIG_STORE", "CONFIG_NORM"}

\* rs1 and rs2 of a command: a local address and the size of the matrix there
Arg == [addr: LAddr, rows: Nat, cols: Nat]
Cfg == [id: 0..2, stride: Nat, c_stride: Nat, set_only_strides: BOOLEAN,
        a_transpose: BOOLEAN, b_transpose: BOOLEAN, repeats: Nat, pool: BOOLEAN]
Cmd == [funct: Loads \cup Stores \cup Execs \cup Configs, rs1: Arg, rs2: Arg, cfg: Cfg]

\* The configuration registers; b_transpose is the execute controller's.
Regs == [a_stride: Nat, c_stride: Nat, a_transpose: BOOLEAN, b_transpose: BOOLEAN,
         pooling_is_enabled: BOOLEAN, ld_block_strides: [0..2 -> Nat],
         ld_pixel_repeats: [0..2 -> Nat]]   \* pixel repeats MINUS ONE

ASSUME SizeAssumption ==
  /\ LdEntries \in Nat \ {0} /\ ExEntries \in Nat \ {0} /\ StEntries \in Nat \ {0}
  /\ BlockRows \in Nat \ {0} /\ BlockCols \in Nat \ {0}
  /\ FirstLayerOpt \in BOOLEAN /\ Interleave \in BOOLEAN
  /\ MaxInst \in Nat

ASSUME ProgramAssumption ==
  /\ Cmds \subseteq Cmd
  /\ InitRegs \subseteq Regs

VARIABLES
  entries,                \* entries_ld ++ entries_ex ++ entries_st
  regs,                   \* the configuration registers
  solitary_preload,       \* a preload was accepted and its compute was not
  instructions_allocated  \* commands accepted so far

vars == <<entries, regs, solitary_preload, instructions_allocated>>

is_config(c) == c.funct \in Configs
is_store(c)  == c.funct \in Stores \cup {"CONFIG_STORE", "CONFIG_NORM"}
is_ex(c)     == c.funct \in Execs \cup {"CONFIG_EX"}
Queue(c) == CASE is_ex(c) -> "ex" [] is_store(c) -> "st" [] OTHER -> "ld"
LoadId(c) == CASE c.funct = "LOAD2" -> 1 [] c.funct = "LOAD3" -> 2 [] OTHER -> 0

(***************************************************************************)
(* The operands the station records                                        *)
(***************************************************************************)
\* mvin_mats, mvout_mats, blocks: how many blocks a wide matrix spans
Mats(cols) == cols \div BlockCols + (IF cols % BlockCols # 0 THEN 1 ELSE 0)

\* total_mvin_rows and total_mvout_rows: from the first to the last row used
MvinTotal(c)  == (Mats(c.rs2.cols) - 1) * regs.ld_block_strides[LoadId(c)] + c.rs2.rows
\* fault: a mvout wider than a block is taken for one block
MvoutTotal_OneBlock(c) == c.rs2.rows
MvoutTotal(c) == (Mats(c.rs2.cols) - 1) * BlockRows + c.rs2.rows

op1(c) ==
  CASE c.funct = "PRELOAD" -> Operand(c.rs1.addr, c.rs1.rows)
    [] c.funct = "COMPUTE" ->
         Operand(c.rs1.addr,
                 (IF regs.a_transpose THEN c.rs1.cols ELSE c.rs1.rows) * regs.a_stride)
    [] OTHER -> NoOp

\* a pooling mvout: from its start to the end of the accumulator bank
PooledOperand(a) ==
  LET next == ((AccBank(a) + 1) % AccBanks) * AccBankRows
  IN  [valid |-> TRUE, start |-> a, end |-> AccAddr(next), wraps_around |-> next = 0]

op2(c) ==
  CASE c.funct = "COMPUTE" -> Operand(c.rs2.addr, c.rs2.rows)
    [] c.funct \in Stores /\ regs.pooling_is_enabled -> PooledOperand(c.rs2.addr)
    [] c.funct \in Stores /\ ~ regs.pooling_is_enabled ->
         Operand(c.rs2.addr, MvoutTotal(c))
    [] OTHER -> NoOp

HalfSp == SpRows \div 2

\* where the rows of a mvin begin: pixel repeats are written below the address
MvinStart(a, repeats) ==
  IF ~ FirstLayerOpt \/ a.acc THEN a
  ELSE FloorSub(a, repeats, IF Row(a) > HalfSp THEN HalfSp ELSE 0)

dst(c) ==
  CASE c.funct = "PRELOAD"    -> Operand(c.rs2.addr, c.rs2.rows * regs.c_stride)
    [] c.funct = "STORE_SPAD" -> Operand(c.rs1.addr, c.rs2.rows)
    [] c.funct \in Loads ->
         Operand(MvinStart(c.rs2.addr, regs.ld_pixel_repeats[LoadId(c)]), MvinTotal(c))
    [] OTHER -> NoOp

opa_is_dst(c) == dst(c).valid
opa(c) == IF opa_is_dst(c) THEN dst(c) ELSE IF op1(c).valid THEN op1(c) ELSE op2(c)
opb(c) == IF opa_is_dst(c) /\ op1(c).valid THEN op1(c) ELSE op2(c)

(***************************************************************************)
(* The rows a command really reads and writes, from the controllers that   *)
(* execute it.  They are history: no action looks at them.                 *)
(***************************************************************************)
Block(a, n, stride) == IF a.garbage THEN {} ELSE {RowOf(Plus(a, i * stride)) : i \in 0..n-1}

\* PixelRepeater: a row is written `repeats' more times below itself, as far
\* as the half of the scratchpad it lies in goes.
Repeated(a, repeats) ==
  LET floor == IF Row(a) < HalfSp THEN 0 ELSE HalfSp
  IN  IF a.acc THEN {RowOf(a)}
      ELSE {RowOf(FloorSub(a, j, floor)) : j \in {k \in 0..repeats : ~ Underflows(a, k, floor)}}

MvinRows(c) ==
  LET id == LoadId(c)
      repeats == IF FirstLayerOpt THEN regs.ld_pixel_repeats[id] ELSE 0
  IN  UNION {Repeated(Plus(c.rs2.addr, b * regs.ld_block_strides[id] + r), repeats)
             : b \in 0..Mats(c.rs2.cols)-1, r \in 0..c.rs2.rows-1}

MvoutRows(c) ==
  IF regs.pooling_is_enabled
  THEN {RowOf(Plus(c.rs2.addr, i)) : i \in 0..AccBankRows - 1 - (Row(c.rs2.addr) % AccBankRows)}
  ELSE {RowOf(Plus(c.rs2.addr, b * BlockRows + r))
        : b \in 0..Mats(c.rs2.cols)-1, r \in 0..c.rs2.rows-1}

\* ExecuteController in the weight-stationary dataflow
a_rows(c) == IF regs.a_transpose THEN c.rs1.cols ELSE c.rs1.rows
d_rows(c) == IF regs.b_transpose THEN c.rs1.cols ELSE c.rs1.rows

RowsRead(c) ==
  CASE c.funct = "PRELOAD" -> Block(c.rs1.addr, d_rows(c), 1)
    [] c.funct = "COMPUTE" -> Block(c.rs1.addr, a_rows(c), regs.a_stride)
                                \cup Block(c.rs2.addr, c.rs2.rows, 1)
    [] c.funct \in Stores  -> MvoutRows(c)
    [] OTHER -> {}

RowsWritten(c) ==
  CASE c.funct = "PRELOAD"    -> Block(c.rs2.addr, c.rs2.rows, regs.c_stride)
    [] c.funct = "STORE_SPAD" -> Block(c.rs1.addr, c.rs2.rows, 1)
    [] c.funct \in Loads      -> MvinRows(c)
    [] OTHER -> {}

(***************************************************************************)
(* Accepting a command                                                     *)
(***************************************************************************)
Valid(s) == entries[s].valid
UnissuedIn(q) == {t \in QSlots(q) : Valid(t) /\ ~ entries[t].issued}

deps_for_ld(c) ==
  UnissuedIn("ld") \cup
  {t \in QSlots("ex") \cup QSlots("st") :
     /\ Valid(t) /\ ~ is_config(c)
     /\ \/ Overlaps(opa(c), entries[t].opa) /\ entries[t].opa.valid
        \/ Overlaps(opa(c), entries[t].opb) /\ entries[t].opb.valid}

\* fault: the second operand is not compared with the loads in flight
deps_for_ex_OneOperand(c, junk) ==
  UnissuedIn("ex") \cup
  {t \in QSlots("ld") \cup QSlots("st") :
     Valid(t) /\ entries[t].opa.valid /\ ~ is_config(c) /\ Overlaps(opa(c), entries[t].opa)}

\* `junk': the entries of the store queue whose opb, which the station wiped
\* with DontCare, happens to overlap the new command's destination
deps_for_ex(c, junk) ==
  UnissuedIn("ex") \cup
  {t \in QSlots("ld") :
     /\ Valid(t) /\ entries[t].opa.valid /\ ~ is_config(c)
     /\ Overlaps(opa(c), entries[t].opa) \/ Overlaps(opb(c), entries[t].opa)} \cup
  {t \in QSlots("st") :
     /\ Valid(t) /\ entries[t].opa.valid /\ ~ is_config(c)
     /\ IF entries[t].opa_is_dst
        THEN \/ Overlaps(opa(c), entries[t].opa)
             \/ Overlaps(opb(c), entries[t].opa)
             \/ opa_is_dst(c) /\ t \in junk
        ELSE opa_is_dst(c) /\ Overlaps(opa(c), entries[t].opa)}

deps_for_st(c) ==
  {t \in QSlots("st") : Valid(t)} \cup
  {t \in QSlots("ld") :
     /\ Valid(t) /\ entries[t].opa.valid /\ ~ is_config(c)
     /\ \/ Overlaps(opa(c), entries[t].opa)
        \/ opb(c).valid /\ Overlaps(opb(c), entries[t].opa)} \cup
  {t \in QSlots("ex") :
     /\ Valid(t) /\ ~ is_config(c)
     /\ IF opa_is_dst(c)
        THEN \/ Overlaps(opa(c), entries[t].opa) /\ entries[t].opa.valid
             \/ Overlaps(opa(c), entries[t].opb) /\ entries[t].opb.valid
             \/ entries[t].opa.valid /\ entries[t].opa_is_dst /\ Overlaps(opb(c), entries[t].opa)
        ELSE entries[t].opa.valid /\ entries[t].opa_is_dst /\ Overlaps(opa(c), entries[t].opa)}

deps(c, junk) ==
  CASE Queue(c) = "ld" -> deps_for_ld(c)
    [] Queue(c) = "ex" -> deps_for_ex(c, junk)
    [] OTHER           -> deps_for_st(c)

Entry == [valid: BOOLEAN, issued: BOOLEAN, funct: Loads \cup Stores \cup Execs \cup Configs,
          opa: OpT, opa_is_dst: BOOLEAN, opb: OpT, complete_on_issue: BOOLEAN,
          deps: SUBSET Slots, allocated_at: Nat,
          rd: SUBSET PRow, wr: SUBSET PRow,   \* history: rows read and written
          followed: BOOLEAN]                  \* history: a later ex command was issued

\* An entry that is not valid; what it holds is never looked at.
Free == [valid |-> FALSE, issued |-> FALSE, funct |-> "CONFIG_EX", opa |-> NoOp,
         opa_is_dst |-> FALSE, opb |-> NoOp, complete_on_issue |-> FALSE, deps |-> {},
         allocated_at |-> 0, rd |-> {}, wr |-> {}, followed |-> FALSE]

\* opb is marked invalid in every ld and st entry, the new one included
new_entry(c, junk) ==
  [valid |-> TRUE, issued |-> FALSE, funct |-> c.funct,
   opa |-> opa(c), opa_is_dst |-> opa_is_dst(c),
   opb |-> IF Queue(c) = "ex" THEN opb(c) ELSE NoOp,
   complete_on_issue |-> is_config(c) /\ Queue(c) # "ex",
   deps |-> deps(c, junk), allocated_at |-> instructions_allocated,
   rd |-> RowsRead(c), wr |-> RowsWritten(c), followed |-> FALSE]

\* the first invalid entry of the command's queue
IsAllocSlot(c, s) ==
  /\ s \in QSlots(Queue(c))
  /\ ~ Valid(s)
  /\ \A t \in QSlots(Queue(c)) : t[2] < s[2] => Valid(t)

\* The rows a command names exist; what is moved in or out is at least one
\* element; pooling reads the accumulator.
InBounds(c) ==
  /\ c.funct \in Loads \cup Stores =>
       ~ c.rs2.addr.garbage /\ c.rs2.rows > 0 /\ c.rs2.cols > 0
  /\ c.funct \in Loads => Fits(c.rs2.addr, MvinTotal(c))
  /\ c.funct \in Stores =>
       IF regs.pooling_is_enabled THEN c.rs2.addr.acc /\ Fits(c.rs2.addr, 1)
                                  ELSE Fits(c.rs2.addr, MvoutTotal(c))
  /\ c.funct = "STORE_SPAD" => ~ c.rs1.addr.garbage /\ Fits(c.rs1.addr, c.rs2.rows)
  /\ c.funct = "PRELOAD" =>
       Fits(c.rs1.addr, c.rs1.rows) /\ Fits(c.rs2.addr, c.rs2.rows * regs.c_stride)
  /\ c.funct = "COMPUTE" =>
       Fits(c.rs1.addr, a_rows(c) * regs.a_stride) /\ Fits(c.rs2.addr, c.rs2.rows)

\* What programs keep to: the next execute command after a preload is its
\* compute (the very next command, unless Interleave), rows exist, and nothing
\* is moved between local memories while pooling or into the accumulator (the
\* station asserts the last two).
LegalNext(c) ==
  /\ solitary_preload /\ (Queue(c) = "ex" \/ ~ Interleave) => c.funct = "COMPUTE"
  /\ c.funct = "STORE_SPAD" => ~ regs.pooling_is_enabled /\ ~ c.rs1.addr.acc
  /\ InBounds(c)

\* fault: pixel repeats of zero are not taken for one
NextRegs_ZeroRepeats(c) ==
  IF c.funct = "CONFIG_LOAD"
  THEN [regs EXCEPT !.ld_pixel_repeats = [@ EXCEPT ![c.cfg.id] = c.cfg.repeats - 1]]
  ELSE regs

NextRegs(c) ==
  CASE c.funct = "CONFIG_EX" ->
         LET r == [regs EXCEPT !.a_stride = c.cfg.stride, !.c_stride = c.cfg.c_stride]
         IN  IF c.cfg.set_only_strides THEN r
             ELSE [r EXCEPT !.a_transpose = c.cfg.a_transpose, !.b_transpose = c.cfg.b_transpose]
    [] c.funct = "CONFIG_LOAD" ->
         [regs EXCEPT !.ld_block_strides = [@ EXCEPT ![c.cfg.id] = c.cfg.stride],
                      !.ld_pixel_repeats = [@ EXCEPT ![c.cfg.id] =
                         IF c.cfg.repeats = 0 THEN 0 ELSE c.cfg.repeats - 1]]
    [] c.funct = "CONFIG_STORE" -> [regs EXCEPT !.pooling_is_enabled = c.cfg.pool]
    [] OTHER -> regs

(***************************************************************************)
(* Issuing and completing                                                  *)
(***************************************************************************)
Issuable(s) == Valid(s) /\ entries[s].deps = {} /\ ~ entries[s].issued

\* PriorityEncoderOH: the lowest index of the queue that may be issued
IsIssueSel(s) == Issuable(s) /\ \A t \in QSlots(s[1]) : t[2] < s[2] => ~ Issuable(t)

\* fault: a preload completes by itself
Completable_Preload(s) == Valid(s) /\ entries[s].issued

\* A controller completes what it was issued, in any order.  The execute
\* controller starts a preload only when the next command is in its queue.
Completable(s) ==
  /\ Valid(s) /\ entries[s].issued
  /\ entries[s].funct = "PRELOAD" => entries[s].followed

\* faults: issue clears dependencies in all queues, or in none; a completion
\* clears none
Cleared_AnyIssue(s, iss, done) == done \cup iss
Cleared_NoIssue(s, iss, done) == done
Cleared_NoCompletion(s, iss, done) ==
  {t \in iss : (t[1] = s[1] /\ t[1] # "st") \/ entries[t].complete_on_issue}

\* the dependency bits of entry s that the issues and the completion clear
Cleared(s, iss, done) ==
  done \cup {t \in iss : (t[1] = s[1] /\ t[1] # "st") \/ entries[t].complete_on_issue}

\* entry s after the issues and the completion of this cycle
Updated(e, s, iss, done) ==
  IF s \in done \/ (s \in iss /\ e.complete_on_issue)
  THEN Free
  ELSE [e EXCEPT !.issued = @ \/ s \in iss,
                 !.deps = @ \ Cleared(s, iss, done),
                 !.followed = @ \/ (s[1] = "ex" /\ e.issued /\ \E t \in iss : t[1] = "ex")]

(***************************************************************************)
(* The cycle                                                               *)
(***************************************************************************)
IssueAndComplete(iss, done) ==
  /\ \A s \in iss : IsIssueSel(s)
  /\ \A s \in done : Completable(s)

\* A cycle in which command c is accepted.
AllocCycle(c, slot, junk, iss, done) ==
  /\ IssueAndComplete(iss, done)
  /\ LegalNext(c)
  /\ IsAllocSlot(c, slot)
  /\ entries' = [s \in Slots |->
       Updated(IF s = slot THEN new_entry(c, junk) ELSE entries[s], s, iss, done)]
  /\ regs' = NextRegs(c)
  /\ solitary_preload' = CASE c.funct = "PRELOAD" -> TRUE
                           [] c.funct = "COMPUTE" -> FALSE
                           [] OTHER -> solitary_preload
  /\ instructions_allocated' = instructions_allocated + 1
  /\ instructions_allocated' + (IF solitary_preload' THEN 1 ELSE 0) <= MaxInst

\* A cycle in which no command is accepted.
QuietCycle(iss, done) ==
  /\ iss \cup done # {}
  /\ IssueAndComplete(iss, done)
  /\ entries' = [s \in Slots |-> Updated(entries[s], s, iss, done)]
  /\ UNCHANGED <<regs, solitary_preload, instructions_allocated>>

\* The bound is reached and everything has retired.
Finished ==
  /\ instructions_allocated = MaxInst
  /\ \A s \in Slots : ~ Valid(s)
  /\ UNCHANGED vars

Init ==
  /\ entries = [s \in Slots |-> Free]
  /\ regs \in InitRegs
  /\ solitary_preload = FALSE
  /\ instructions_allocated = 0

\* at most one issue per queue and one completion in a cycle
IssueSets == SUBSET {s \in Slots : IsIssueSel(s)}
DoneSets == {{}} \cup {{s} : s \in {t \in Slots : Completable(t)}}
JunkSets(c) == IF c.funct = "PRELOAD" THEN SUBSET {t \in QSlots("st") : Valid(t)} ELSE {{}}

Next ==
  \/ \E iss \in IssueSets, done \in DoneSets :
       \/ QuietCycle(iss, done)
       \/ \E c \in Cmds : \E slot \in QSlots(Queue(c)), junk \in JunkSets(c) :
            AllocCycle(c, slot, junk, iss, done)
  \/ Finished

Spec == Init /\ [][Next]_vars

(***************************************************************************)
(* Fairness: the command queues of the controllers drain, DMA and mesh     *)
(* finish what they were given, and a program that sent a preload sends    *)
(* its compute.                                                            *)
(***************************************************************************)
Issues(q) ==
  \E iss \in IssueSets, done \in DoneSets :
    (\E s \in iss : s[1] = q) /\ QuietCycle(iss, done)
Completes(s) == \E iss \in IssueSets : QuietCycle(iss, {s})
SendsCompute ==
  \E iss \in IssueSets, done \in DoneSets : \E c \in Cmds, slot \in QSlots("ex") :
    solitary_preload /\ c.funct = "COMPUTE" /\ AllocCycle(c, slot, {}, iss, done)

Fairness ==
  /\ \A q \in Queues : WF_vars(Issues(q))
  /\ \A s \in Slots : WF_vars(Completes(s))
  /\ WF_vars(SendsCompute)

FairSpec == Spec /\ Fairness

(***************************************************************************)
(* Programs that stay clear of the rows the station does not record: no    *)
(* pixel repeats, and no preloaded block wider than it is tall (b_transpose*)
(* makes the execute controller read as many rows as the block has         *)
(* columns).                                                               *)
(***************************************************************************)
NoGaps ==
  /\ \A c \in Cmds :
       /\ c.funct = "CONFIG_LOAD" => c.cfg.repeats <= 1
       /\ c.funct = "PRELOAD" => c.rs1.cols <= c.rs1.rows
  /\ \A r \in InitRegs : \A id \in 0..2 : r.ld_pixel_repeats[id] = 0

(***************************************************************************)
(* Properties                                                              *)
(***************************************************************************)
\* Every register holds a value of its type; an entry sits in its own queue.
TypeOK ==
  /\ entries \in [Slots -> Entry]
  /\ regs \in Regs
  /\ solitary_preload \in BOOLEAN
  /\ instructions_allocated \in Nat

Older(t, s) == Valid(t) /\ Valid(s) /\ entries[t].allocated_at < entries[s].allocated_at

\* The rows an older entry reads, as far as the station keeps track of them:
\* the source of a spad-to-spad move is not kept (see DependenciesAwaited).
KeptReads(e) == IF e.funct = "STORE_SPAD" THEN {} ELSE e.rd

\* RAW, WAW or WAR between an older entry o and a younger entry y.
Conflict(o, y) ==
  \/ o.wr \cap (y.rd \cup y.wr) # {}
  \/ KeptReads(o) \cap y.wr # {}

\* A command that reads or writes rows an older command of another controller
\* still has to write, or writes rows it still has to read, is not issued
\* before that command has left the station.
HazardsRespected ==
  \A t, s \in Slots :
    /\ Older(t, s)
    /\ t[1] # s[1]
    /\ Conflict(entries[t], entries[s])
    => ~ entries[s].issued /\ t \in entries[s].deps

\* README, "ROB": instructions are only issued to their controllers once they
\* have no dependencies on instructions in other controllers.  As
\* HazardsRespected, for every row the controllers touch.
DependenciesAwaited ==
  \A t, s \in Slots :
    Older(t, s) /\ t[1] # s[1] /\ entries[s].issued =>
      /\ entries[t].wr \cap (entries[s].rd \cup entries[s].wr) = {}
      /\ entries[t].rd \cap entries[s].wr = {}

\* Each controller receives its commands in program order: no command is
\* issued while an older one of its queue is not.
IssueInOrder ==
  \A t, s \in Slots :
    Older(t, s) /\ t[1] = s[1] /\ entries[s].issued => entries[t].issued

\* The store controller works on one command at a time (same-queue
\* dependencies of stores last until completion).
StoresOneAtATime ==
  \A t, s \in QSlots("st") :
    Valid(t) /\ Valid(s) /\ entries[t].issued /\ entries[s].issued => t = s

\* Dependency bits name only entries that are still valid and older, so a
\* reused entry is never waited for by a command that precedes it and no two
\* commands wait for each other.
DepsOlder == \A s \in Slots : Valid(s) => \A t \in entries[s].deps : Older(t, s)

\* Everything that is waiting waits for something that moves: while the
\* station holds commands, one can be issued or completed, unless the program
\* still owes it the compute of a preload (assert "pipeline stall").
PipelineMoves ==
  (\E s \in Slots : Valid(s)) =>
     solitary_preload \/ \E s \in Slots : Issuable(s) \/ Completable(s)

\* fault: a lone preload hides everything else
busy_AnyPreload == (\E s \in Slots : Valid(s)) /\ ~ solitary_preload

\* io.busy
busy ==
  /\ \E s \in Slots : Valid(s)
  /\ ~ (Cardinality({s \in Slots : Valid(s)}) = 1 /\ solitary_preload)

\* When the station says it is not busy (which ends a fence), the only thing
\* it may still hold is the preload whose compute has not been sent yet.
NotBusyMeansDone ==
  ~ busy => \A s \in Slots : Valid(s) => entries[s].funct = "PRELOAD" /\ solitary_preload

\* Every accepted command is eventually retired.
Inside(n) == \E s \in Slots : Valid(s) /\ entries[s].allocated_at = n
EventuallyRetired == \A n \in 0..MaxInst-1 : Inside(n) ~> ~ Inside(n)

(***************************************************************************)
(* Why the properties hold: facts about the entries E when n commands have *)
(* been accepted.  They are stated of any E, so that they can be followed  *)
(* through the two halves of a cycle (accepting, then issuing/completing). *)
(***************************************************************************)
Before(E, t, s) == E[t].valid /\ E[s].valid /\ E[t].allocated_at < E[s].allocated_at

\* Entries are numbered in program order, dependency bits point to older valid
\* entries, an issued entry has none left, and a command waits for every older
\* command of its queue that is not issued (stores: not retired).
Ordered(E, n) ==
  /\ \A s \in Slots : E[s].valid => E[s].allocated_at < n
  /\ \A s, t \in Slots :
       E[s].valid /\ E[t].valid /\ E[s].allocated_at = E[t].allocated_at => s = t
  /\ \A s \in Slots : E[s].valid => \A t \in E[s].deps : Before(E, t, s)
  /\ \A s \in Slots : E[s].valid /\ E[s].issued => E[s].deps = {}
  /\ \A s, t \in Slots :
       Before(E, t, s) /\ t[1] = s[1] /\ (~ E[t].issued \/ t[1] = "st") => t \in E[s].deps

\* The recorded operands of entry e of queue q account for the rows it uses.
Recorded(e, q) ==
  /\ \A p \in e.wr : e.opa_is_dst /\ e.opa.valid /\ Touches(e.opa, p)
  /\ q # "ex" => \A p \in e.wr : Covers(e.opa, p)
  /\ q = "ld" => e.rd = {}
  /\ q = "st" => \A p \in KeptReads(e) : ~ e.opa_is_dst /\ e.opa.valid /\ Covers(e.opa, p)
  /\ q = "ex" => \A p \in e.rd : \/ e.opa.valid /\ Touches(e.opa, p)
                                 \/ e.opb.valid /\ Touches(e.opb, p)

\* Operands account for the rows, and conflicts between queues are dependencies.
Tracked(E) ==
  /\ \A s \in Slots : E[s].valid => Recorded(E[s], s[1])
  /\ \A s, t \in Slots :
       Before(E, t, s) /\ t[1] # s[1] /\ Conflict(E[t], E[s]) => t \in E[s].deps

\* The preload whose compute is still to come is the youngest execute command
\* and cannot complete.
Awaiting(E) ==
  \E s \in QSlots("ex") :
    /\ E[s].valid /\ E[s].funct = "PRELOAD"
    /\ ~ E[s].followed /\ ~ E[s].complete_on_issue
    /\ \A t \in QSlots("ex") : E[t].valid => E[t].allocated_at <= E[s].allocated_at

\* When computes directly follow their preloads: a preload that cannot complete
\* yet is the last command accepted, or the command accepted right after it is
\* an execute command that has not issued.  Execute commands wait only for
\* unissued commands of their own queue and never complete on issue.
Paired(E, n, pre) ==
  /\ \A s \in Slots : E[s].valid /\ E[s].funct = "PRELOAD" => s[1] = "ex"
  /\ \A s \in QSlots("ex") : E[s].valid =>
       /\ ~ E[s].complete_on_issue
       /\ \A t \in E[s].deps : t[1] = "ex" => ~ E[t].issued
       /\ E[s].funct = "PRELOAD" /\ ~ E[s].followed =>
            \/ pre /\ E[s].allocated_at + 1 = n
            \/ \E t \in QSlots("ex") :
                 E[t].valid /\ ~ E[t].issued /\ E[t].allocated_at = E[s].allocated_at + 1

\* The inductive invariant of the orderings and of io.busy.
OrderInv ==
  /\ TypeOK
  /\ Ordered(entries, instructions_allocated)
  /\ solitary_preload => Awaiting(entries)

NoRepeats == \A id \in 0..2 : regs.ld_pixel_repeats[id] = 0

\* The inductive invariant of PipelineMoves.
StallInv == OrderInv /\ Paired(entries, instructions_allocated, solitary_preload)

\* The inductive invariant of HazardsRespected.
HazardInv == OrderInv /\ Tracked(entries) /\ NoRepeats
=============================================================================
