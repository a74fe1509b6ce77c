------------------------------ MODULE LocalAddr ------------------------------
(***************************************************************************)
(* Addresses of the two local memories, the scratchpad and the             *)
(* accumulator (LocalAddr.scala).  An address is the flag is_acc_addr and  *)
(* the row number `data', kept in maxAddrBits bits; the all-ones address   *)
(* that means "no operand" is the flag `garbage'.  The other metadata bits *)
(* (accumulate, read_full_acc_row, norm_cmd) never decide which row is     *)
(* meant and are left out.                                                 *)
(***************************************************************************)
EXTENDS Integers

CONSTANTS
  SpRows,       \* rows of the scratchpad, sp_banks * sp_bank_entries
  AccRows,      \* rows of the accumulator, acc_banks * acc_bank_entries
  AccBankRows   \* rows of one accumulator bank, acc_bank_entries

ASSUME RowsAssumption ==
  /\ SpRows \in Nat \ {0}
  /\ AccRows \in Nat \ {0}
  /\ AccBankRows \in Nat \ {0}

\* Both row counts are powers of two (isPow2 in the code): one divides the other.
ASSUME PowerOfTwoAssumption ==
  /\ SpRows % AccRows = 0 \/ AccRows % SpRows = 0
  /\ AccRows % AccBankRows = 0

\* 2 ^ maxAddrBits, with maxAddrBits = spAddrBits max accAddrBits
MaxRows == IF SpRows > AccRows THEN SpRows ELSE AccRows

LAddr == [acc: BOOLEAN, garbage: BOOLEAN, data: 0..MaxRows-1]

SpAddr(d)  == [acc |-> FALSE, garbage |-> FALSE, data |-> d]
AccAddr(d) == [acc |-> TRUE,  garbage |-> FALSE, data |-> d]
GarbageAddr == [acc |-> TRUE, garbage |-> TRUE, data |-> MaxRows - 1]

\* full_acc_addr() / full_sp_addr(): the row of its own memory an address names
MemRows(a) == IF a.acc THEN AccRows ELSE SpRows
Row(a) == a.data % MemRows(a)

Leq(a, b) == a.acc = b.acc /\ Row(a) <= Row(b)
Lt(a, b)  == a.acc = b.acc /\ Row(a) < Row(b)

\* `+' : the sum is truncated to maxAddrBits when it is stored in `data'
Plus(a, n) == [a EXCEPT !.data = (a.data + n) % MaxRows]

\* the second result of add_with_overflow: bit accAddrBits (spAddrBits) of the sum
Overflows(a, n) == ((a.data + n) \div MemRows(a)) % 2 = 1

\* floorSub: a.data - n, but not below `floor'
Underflows(a, n, floor) == a.data < floor + n
FloorSub(a, n, floor) ==
  [a EXCEPT !.data = IF Underflows(a, n, floor) THEN floor ELSE a.data - n]

\* acc_bank() of an accumulator address
AccBank(a) == Row(a) \div AccBankRows
AccBanks == AccRows \div AccBankRows

(***************************************************************************)
(* Operand ranges: UDValid(new OpT) of ReservationStation.scala            *)
(***************************************************************************)
OpT == [valid: BOOLEAN, start: LAddr, end: LAddr, wraps_around: BOOLEAN]

NoOp == [valid |-> FALSE, start |-> GarbageAddr, end |-> GarbageAddr,
         wraps_around |-> FALSE]

\* the operand of n rows that begins at a
Operand(a, n) == [valid |-> TRUE, start |-> a, end |-> Plus(a, n),
                  wraps_around |-> Overflows(a, n)]

\* OpT.overlaps
Overlaps(x, y) ==
  /\ \/ Leq(y.start, x.start) /\ (Lt(x.start, y.end) \/ y.wraps_around)
     \/ Leq(x.start, y.start) /\ (Lt(y.start, x.end) \/ x.wraps_around)
  /\ ~ (x.start.garbage \/ y.start.garbage)

(***************************************************************************)
(* Physical rows, to say what an operand covers and what a command touches *)
(***************************************************************************)
PRow == [acc: BOOLEAN, row: Nat]
RowOf(a) == [acc |-> a.acc, row |-> Row(a)]

\* n rows from address a on are there
Fits(a, n) == a.garbage \/ (a.data < MemRows(a) /\ a.data + n <= MemRows(a))

\* Row p lies in the operand's range [start, end), up to the end of the memory
\* if the range wraps around.
Covers(x, p) ==
  /\ ~ x.start.garbage
  /\ p.acc = x.start.acc
  /\ Row(x.start) <= p.row
  /\ (p.acc = x.end.acc /\ p.row < Row(x.end)) \/ x.wraps_around

\* As Covers, but an operand of no rows still stands for the row it starts at.
Touches(x, p) == Covers(x, p) \/ (~ x.start.garbage /\ p = RowOf(x.start))
=============================================================================
