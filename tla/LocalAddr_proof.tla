--------------------------- MODULE LocalAddr_proof ---------------------------
(***************************************************************************)
(* Facts about address ranges: what `overlaps' detects, and which rows an  *)
(* operand covers.                                                         *)
(***************************************************************************)
EXTENDS LocalAddr, TLAPS

\* MaxRows bounds the rows of both memories.
LEMMA MaxRowsFact ==
  /\ MaxRows \in Nat /\ MaxRows > 0 /\ SpRows <= MaxRows /\ AccRows <= MaxRows
BY RowsAssumption DEF MaxRows

\* The memory an address names (full_sp_addr or full_acc_addr) has rows, at most MaxRows.
LEMMA MemRowsFact ==
  ASSUME NEW a \in LAddr
  PROVE  MemRows(a) \in Nat /\ MemRows(a) > 0 /\ MemRows(a) <= MaxRows
BY RowsAssumption, MaxRowsFact DEF MemRows, LAddr

\* Remainders, as the provers need them.
LEMMA ModFact ==
  ASSUME NEW m \in Nat, m > 0, NEW n \in Int
  PROVE  n % m \in 0..m-1 /\ (n \in 0..m-1 => n % m = n)
OBVIOUS

\* Quotient and remainder, as the provers need them.
LEMMA DivModFact ==
  ASSUME NEW m \in Nat, m > 0, NEW n \in Nat
  PROVE  n \div m \in Nat /\ n % m \in 0..m-1 /\ n = (n \div m) * m + (n % m)
OBVIOUS

\* The row an address names lies in its memory.
LEMMA RowType ==
  ASSUME NEW a \in LAddr
  PROVE  Row(a) \in 0..MemRows(a)-1 /\ RowOf(a) \in PRow
BY MemRowsFact, ModFact DEF Row, RowOf, PRow, LAddr

\* Adding to an address (LocalAddr.+) gives an address.
LEMMA PlusType ==
  ASSUME NEW a \in LAddr, NEW n \in Int
  PROVE  Plus(a, n) \in LAddr
BY MaxRowsFact, ModFact DEF Plus, LAddr

\* The garbage address and the operand that is not there have their types.
LEMMA GarbageType == GarbageAddr \in LAddr /\ NoOp \in OpT
BY MaxRowsFact DEF GarbageAddr, LAddr, NoOp, OpT

\* The range of n rows from an address on is an operand.
LEMMA OperandType ==
  ASSUME NEW a \in LAddr, NEW n \in Int
  PROVE  Operand(a, n) \in OpT
BY PlusType DEF Operand, OpT, Overflows

\* Two operands that share a row overlap, whichever is asked first; one of the
\* two may be an operand of no rows that stands for its first row.
LEMMA SharedRowOverlaps ==
  ASSUME NEW x \in OpT, NEW y \in OpT, NEW p \in PRow, Touches(x, p), Covers(y, p)
  PROVE  Overlaps(x, y) /\ Overlaps(y, x)
  <1>1. x.start \in LAddr /\ y.start \in LAddr /\ x.end \in LAddr /\ y.end \in LAddr
    BY DEF OpT
  <1>2. /\ Row(x.start) \in Int /\ Row(y.start) \in Int
        /\ Row(x.end) \in Int /\ Row(y.end) \in Int /\ p.row \in Int
    BY <1>1, RowType, MemRowsFact DEF PRow
  <1>3. CASE Covers(x, p)
    BY <1>1, <1>2, <1>3 DEF Covers, Overlaps, Leq, Lt, OpT
  <1>4. CASE ~ x.start.garbage /\ p = RowOf(x.start)
    BY <1>1, <1>2, <1>4 DEF Covers, Overlaps, Leq, Lt, RowOf, OpT
  <1> QED
    BY <1>3, <1>4 DEF Touches

\* The k-th row from a on, inside a range that fits the memory, is covered.
LEMMA OperandCovers ==
  ASSUME NEW a \in LAddr, ~ a.garbage, NEW n \in Int, Fits(a, n), NEW k \in 0..n-1
  PROVE  Covers(Operand(a, n), RowOf(Plus(a, k)))
  <1> DEFINE m == MemRows(a)
  <1>1. m \in Nat /\ m > 0 /\ m <= MaxRows /\ MaxRows \in Nat
    BY MemRowsFact, MaxRowsFact
  <1>2. a.data \in 0..m-1 /\ a.data + n <= m /\ a.data + k \in 0..m-1
    BY <1>1 DEF Fits, LAddr
  <1>3. Row(a) = a.data
    BY <1>1, <1>2, ModFact DEF Row
  <1>4. /\ Plus(a, k).acc = a.acc /\ MemRows(Plus(a, k)) = m
        /\ Row(Plus(a, k)) = a.data + k
    BY <1>1, <1>2, ModFact DEF Plus, Row, LAddr, MemRows
  <1>5. CASE a.data + n = m
    <2>1. Overflows(a, n)
      BY <1>1, <1>5 DEF Overflows
    <2> QED
      BY <1>1, <1>2, <1>3, <1>4, <2>1 DEF Covers, Operand, RowOf
  <1>6. CASE a.data + n < m
    <2>1. Plus(a, n).acc = a.acc /\ Row(Plus(a, n)) = a.data + n
      BY <1>1, <1>2, <1>6, ModFact DEF Plus, Row, LAddr, MemRows
    <2> QED
      BY <1>1, <1>2, <1>3, <1>4, <2>1 DEF Covers, Operand, RowOf
  <1> QED
    BY <1>1, <1>2, <1>5, <1>6

\* The first row of an operand is always touched.
LEMMA OperandTouchesStart ==
  ASSUME NEW a \in LAddr, ~ a.garbage, NEW n \in Int
  PROVE  Touches(Operand(a, n), RowOf(Plus(a, 0)))
  <1>1. Plus(a, 0) = a
    BY MaxRowsFact, ModFact DEF Plus, LAddr
  <1> QED
    BY <1>1 DEF Touches, Operand
==============================================================================
