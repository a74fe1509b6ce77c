--------------------------- MODULE AccumulatorMem ---------------------------
(***************************************************************************)
(* The banks of the accumulator (AccumulatorMem with two ports) and the    *)
(* adder they share (AccPipe, AccPipeShared).  A write travels AccLatency  *)
(* cycles before it reaches the memory; an accumulating write reads the    *)
(* row when it sets out.  A row is the bag of the rows summed in it.       *)
(***************************************************************************)
EXTENDS Naturals, Sequences, Bags, FiniteSets

CONSTANTS AccBanks,       \* acc_banks
          AccBankEntries, \* acc_bank_entries
          AccLatency      \* acc_latency

ASSUME AccumulatorAssumption ==
  /\ AccBanks \in Nat \ {0} /\ AccBankEntries \in Nat \ {0}
  /\ AccLatency \in Nat /\ AccLatency >= 2

VARIABLES accmem,          \* the rows, by address
          pipelined_writes \* of each bank, oldest last

accVars == <<accmem, pipelined_writes>>

AccRows == 0..AccBanks * AccBankEntries - 1
acc_bank(row) == row \div AccBankEntries
AccBankIds == 0..AccBanks-1

NoWrite == [valid |-> FALSE, row |-> 0, acc |-> FALSE, data |-> EmptyBag]
AccWrite(row, acc, data) ==
  [valid |-> TRUE, row |-> row, acc |-> acc, data |-> data]

InFlight(row) ==
  \E i \in 1..AccLatency : LET w == pipelined_writes[acc_bank(row)][i]
                           IN w.valid /\ w.row = row

write_ready(w) == ~(w.acc /\ InFlight(w.row))

\* The row a write puts in memory in the end, read and added when it is taken
\* (the row of an accumulating write cannot change while it travels).  Mux1H
\* mixes the operands of two banks that accumulate in the same cycle.
Summed(w, mixed) == IF ~w.acc THEN w.data
                    ELSE IF mixed # EmptyBag THEN mixed
                    ELSE accmem[w.row] (+) w.data

\* Mistaken variant: a row is read although a write to it is on its way.
read_ready_Stale(row, write) == ~(write[acc_bank(row)].valid /\ write[acc_bank(row)].acc)

read_ready(row, write) ==
  /\ ~(write[acc_bank(row)].valid /\ write[acc_bank(row)].acc)
  /\ ~InFlight(row)

AccInit(rows) ==
  /\ accmem = rows
  /\ pipelined_writes = [b \in AccBankIds |-> [i \in 1..AccLatency |-> NoWrite]]

\* One clock cycle; write is what comes to each bank, junk what an adder gives
\* that two banks use at once.
AccCycle(write, junk) ==
  LET taken == {b \in AccBankIds : write[b].valid /\ write_ready(write[b])}
      adding == {b \in taken : write[b].acc}
      mixed == IF Cardinality(adding) > 1 THEN junk ELSE EmptyBag
      oldest(b) == pipelined_writes[b][AccLatency]
  IN /\ accmem' = [r \in AccRows |->
                     IF oldest(acc_bank(r)).valid /\ oldest(acc_bank(r)).row = r
                     THEN oldest(acc_bank(r)).data ELSE accmem[r]]
     /\ pipelined_writes' =
          [b \in AccBankIds |->
             <<IF b \in taken THEN [write[b] EXCEPT !.data = Summed(write[b], mixed)]
               ELSE NoWrite>> \o SubSeq(pipelined_writes[b], 1, AccLatency - 1)]

=============================================================================
