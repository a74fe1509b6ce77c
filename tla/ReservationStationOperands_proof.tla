------------------- MODULE ReservationStationOperands_proof -------------------
EXTENDS ReservationStation, LocalAddr_proof

\* Slots, queues and indices: a slot lies in the queue it names.
LEMMA SlotFact ==
  /\ \A q \in Queues : QSlots(q) \subseteq Slots
  /\ \A q \in Queues : \A s \in QSlots(q) : s[1] = q
  /\ \A s \in Slots : s[1] \in Queues /\ s \in QSlots(s[1]) /\ s[2] \in Nat
  <1>1. \A q \in Queues : Size(q) \in Nat
    BY SizeAssumption DEF Queues, Size
  <1> QED
    BY <1>1 DEF QSlots, Slots

\* A free entry is an entry.
LEMMA FreeType == Free \in Entry
BY GarbageType DEF Free, Entry, Configs

\* What a cycle makes of an entry (its issued, deps and valid bits) is an entry.
LEMMA UpdatedType ==
  ASSUME NEW e \in Entry, NEW s \in Slots, NEW iss, NEW done
  PROVE  Updated(e, s, iss, done) \in Entry
  <1> DEFINE i == e.issued \/ s \in iss
             d == e.deps \ Cleared(s, iss, done)
             f == e.followed \/ (s[1] = "ex" /\ e.issued /\ \E t \in iss : t[1] = "ex")
  <1>1. CASE s \in done \/ (s \in iss /\ e.complete_on_issue)
    BY <1>1, FreeType DEF Updated
  <1>2. CASE ~ (s \in done \/ (s \in iss /\ e.complete_on_issue))
    <2>1. Updated(e, s, iss, done) = [e EXCEPT !.issued = i, !.deps = d, !.followed = f]
      BY <1>2 DEF Updated
    <2>2. i \in BOOLEAN /\ f \in BOOLEAN /\ d \in SUBSET Slots
      BY DEF Entry
    <2> HIDE DEF i, d, f
    <2> QED
      BY <2>1, <2>2 DEF Entry
  <1> QED
    BY <1>1, <1>2

(***************************************************************************)
(* Types                                                                   *)
(***************************************************************************)
\* Load commands use one of three configuration states.
LEMMA LoadIdType == ASSUME NEW c PROVE LoadId(c) \in 0..2
BY DEF LoadId

\* The number of blocks a matrix spans (mvin_mats, mvout_mats) is an integer.
LEMMA MatsType ==
  ASSUME NEW n \in Nat
  PROVE  Mats(n) \in Int
BY SizeAssumption DEF Mats

\* total_mvin_rows and total_mvout_rows are integers.
LEMMA TotalType ==
  ASSUME NEW c \in Cmd, regs \in Regs
  PROVE  MvinTotal(c) \in Int /\ MvoutTotal(c) \in Int
  <1>1. c.rs2.cols \in Nat /\ c.rs2.rows \in Nat
    BY DEF Cmd, Arg
  <1>2. Mats(c.rs2.cols) \in Int
    BY <1>1, MatsType
  <1>3. regs.ld_block_strides[LoadId(c)] \in Nat
    BY LoadIdType DEF Regs
  <1> QED
    BY <1>1, <1>2, <1>3, SizeAssumption DEF MvinTotal, MvoutTotal

\* A row of the accumulator has an address.
LEMMA AccAddrType ==
  ASSUME NEW d \in 0..AccRows-1
  PROVE  AccAddr(d) \in LAddr
BY MaxRowsFact, RowsAssumption DEF AccAddr, LAddr

\* floorSub gives an address.
LEMMA FloorSubType ==
  ASSUME NEW a \in LAddr, NEW n \in Nat, NEW floor \in 0..MaxRows-1
  PROVE  FloorSub(a, n, floor) \in LAddr
BY MaxRowsFact DEF FloorSub, Underflows, LAddr

\* The middle of the scratchpad is a row.
LEMMA HalfSpType == HalfSp \in 0..MaxRows-1
  <1>1. SpRows \in Nat /\ SpRows > 0
    BY RowsAssumption
  <1>2. SpRows \div 2 \in Nat /\ SpRows \div 2 < SpRows
    BY <1>1
  <1> QED
    BY <1>1, <1>2, MaxRowsFact DEF HalfSp

\* The operand of a pooling mvout is a range.
LEMMA PooledType ==
  ASSUME NEW a \in LAddr
  PROVE  PooledOperand(a) \in OpT
  <1> DEFINE next == ((AccBank(a) + 1) % AccBanks) * AccBankRows
  <1>1. AccBanks \in Nat /\ AccBanks > 0 /\ AccBanks * AccBankRows = AccRows
    BY RowsAssumption, PowerOfTwoAssumption DEF AccBanks
  <1>2. AccBank(a) \in Int
    BY RowType, MemRowsFact, RowsAssumption DEF AccBank
  <1>3. (AccBank(a) + 1) % AccBanks \in 0..AccBanks-1
    BY <1>1, <1>2, ModFact
  <1>4. next \in 0..AccRows-1
    BY <1>1, <1>3, RowsAssumption
  <1> HIDE DEF next
  <1>5. AccAddr(next) \in LAddr
    BY <1>4, AccAddrType
  <1> QED
    BY <1>5 DEF PooledOperand, OpT, next

\* The floored start of a load (dst.bits.start) is an address.
LEMMA MvinStartType ==
  ASSUME NEW a \in LAddr, NEW n \in Nat
  PROVE  MvinStart(a, n) \in LAddr
  <1>1. 0 \in 0..MaxRows-1
    BY MaxRowsFact
  <1> QED
    BY <1>1, HalfSpType, FloorSubType DEF MvinStart

\* The operands recorded for a command are well-formed ranges.
LEMMA OpsType ==
  ASSUME NEW c \in Cmd, regs \in Regs
  PROVE  /\ op1(c) \in OpT /\ op2(c) \in OpT /\ dst(c) \in OpT
         /\ opa(c) \in OpT /\ opb(c) \in OpT /\ opa_is_dst(c) \in BOOLEAN
  <1>1. /\ c.rs1.addr \in LAddr /\ c.rs1.rows \in Nat /\ c.rs1.cols \in Nat
        /\ c.rs2.addr \in LAddr /\ c.rs2.rows \in Nat /\ c.rs2.cols \in Nat
    BY DEF Cmd, Arg
  <1>2. regs.a_stride \in Nat /\ regs.c_stride \in Nat
    BY DEF Regs
  <1>3. regs.ld_pixel_repeats[LoadId(c)] \in Nat
    BY LoadIdType DEF Regs
  <1>4. op1(c) \in OpT
    <2>1. (IF regs.a_transpose THEN c.rs1.cols ELSE c.rs1.rows) * regs.a_stride \in Int
      BY <1>1, <1>2
    <2> QED
      BY <1>1, <2>1, OperandType, GarbageType DEF op1
  <1>5. op2(c) \in OpT
    BY <1>1, TotalType, OperandType, PooledType, GarbageType DEF op2
  <1>6. dst(c) \in OpT
    <2>1. c.rs2.rows * regs.c_stride \in Int
      BY <1>1, <1>2
    <2>2. Operand(c.rs2.addr, c.rs2.rows * regs.c_stride) \in OpT
      BY <1>1, <2>1, OperandType
    <2>3. Operand(c.rs1.addr, c.rs2.rows) \in OpT
      BY <1>1, OperandType
    <2>4. Operand(MvinStart(c.rs2.addr, regs.ld_pixel_repeats[LoadId(c)]), MvinTotal(c)) \in OpT
      BY <1>1, <1>3, TotalType, MvinStartType, OperandType
    <2> QED
      BY <2>2, <2>3, <2>4, GarbageType DEF dst
  <1> QED
    BY <1>4, <1>5, <1>6 DEF opa, opb, opa_is_dst, OpT

\* Every command goes to one of the three queues (new_entry.q).
LEMMA QueueType == ASSUME NEW c PROVE Queue(c) \in Queues
BY DEF Queue, Queues

\* Dependencies are recorded on valid entries only.
LEMMA DepsType ==
  ASSUME NEW c, NEW junk
  PROVE  deps(c, junk) \subseteq {t \in Slots : Valid(t)}
  <1>1. QSlots("ld") \subseteq Slots /\ QSlots("ex") \subseteq Slots /\ QSlots("st") \subseteq Slots
    BY SlotFact DEF Queues
  <1> QED
    BY <1>1 DEF deps, deps_for_ld, deps_for_ex, deps_for_st, UnissuedIn

\* The rows of a block are rows.
LEMMA BlockType ==
  ASSUME NEW a \in LAddr, NEW n \in Nat, NEW stride \in Nat
  PROVE  Block(a, n, stride) \subseteq PRow
  <1>1. \A i \in 0..n-1 : i * stride \in Int
    OBVIOUS
  <1>2. \A i \in 0..n-1 : RowOf(Plus(a, i * stride)) \in PRow
    BY <1>1, PlusType, RowType
  <1> QED
    BY <1>2 DEF Block

\* The rows the pixel repeater writes are rows.
LEMMA RepeatedType ==
  ASSUME NEW a \in LAddr, NEW n \in Nat
  PROVE  Repeated(a, n) \subseteq PRow
  <1> DEFINE floor == IF Row(a) < HalfSp THEN 0 ELSE HalfSp
  <1>1. floor \in 0..MaxRows-1
    BY HalfSpType, MaxRowsFact
  <1> HIDE DEF floor
  <1>2. \A j \in 0..n : RowOf(FloorSub(a, j, floor)) \in PRow
    BY <1>1, FloorSubType, RowType
  <1> QED
    BY <1>2, RowType DEF Repeated, floor

\* The rows a command uses are rows.
LEMMA RowsType ==
  ASSUME NEW c \in Cmd, regs \in Regs
  PROVE  RowsRead(c) \subseteq PRow /\ RowsWritten(c) \subseteq PRow
  <1>1. /\ c.rs1.addr \in LAddr /\ c.rs1.rows \in Nat /\ c.rs1.cols \in Nat
        /\ c.rs2.addr \in LAddr /\ c.rs2.rows \in Nat /\ c.rs2.cols \in Nat
    BY DEF Cmd, Arg
  <1>2. /\ regs.a_stride \in Nat /\ regs.c_stride \in Nat /\ 1 \in Nat
        /\ regs.ld_block_strides[LoadId(c)] \in Nat
        /\ regs.ld_pixel_repeats[LoadId(c)] \in Nat
        /\ a_rows(c) \in Nat /\ d_rows(c) \in Nat
    BY <1>1, LoadIdType DEF Regs, a_rows, d_rows
  <1>3. Mats(c.rs2.cols) \in Int
    BY <1>1, MatsType
  <1>4. MvinRows(c) \subseteq PRow
    <2>1. SUFFICES ASSUME NEW b \in 0..Mats(c.rs2.cols)-1, NEW r \in 0..c.rs2.rows-1,
                          NEW k \in Nat
                   PROVE  Repeated(Plus(c.rs2.addr, b * regs.ld_block_strides[LoadId(c)] + r), k)
                            \subseteq PRow
      BY <1>2 DEF MvinRows
    <2>2. b * regs.ld_block_strides[LoadId(c)] + r \in Int
      BY <1>1, <1>2, <1>3
    <2> QED
      BY <1>1, <2>2, PlusType, RepeatedType
  <1>5. MvoutRows(c) \subseteq PRow
    <2>1. \A i \in Int : RowOf(Plus(c.rs2.addr, i)) \in PRow
      BY <1>1, PlusType, RowType
    <2>2. \A b \in 0..Mats(c.rs2.cols)-1, r \in 0..c.rs2.rows-1 : b * BlockRows + r \in Int
      BY <1>1, <1>3, SizeAssumption
    <2> QED
      BY <2>1, <2>2 DEF MvoutRows
  <1> QED
    BY <1>1, <1>2, <1>4, <1>5, BlockType DEF RowsRead, RowsWritten

\* The entry made for a command (new_entry) is an entry.
LEMMA NewEntryType ==
  ASSUME TypeOK, NEW c \in Cmds, NEW junk
  PROVE  new_entry(c, junk) \in Entry
  <1>1. c \in Cmd /\ regs \in Regs
    BY ProgramAssumption DEF TypeOK
  <1>2. c.funct \in Loads \cup Stores \cup Execs \cup Configs
    BY <1>1 DEF Cmd
  <1> QED
    BY <1>1, <1>2, OpsType, RowsType, DepsType, GarbageType DEF new_entry, Entry, TypeOK

\* Configuration commands leave the registers well-typed.
LEMMA NextRegsType ==
  ASSUME NEW c \in Cmd, regs \in Regs
  PROVE  NextRegs(c) \in Regs
  <1>1. /\ c.cfg.id \in 0..2 /\ c.cfg.stride \in Nat /\ c.cfg.c_stride \in Nat
        /\ c.cfg.a_transpose \in BOOLEAN /\ c.cfg.b_transpose \in BOOLEAN
        /\ c.cfg.repeats \in Nat /\ c.cfg.pool \in BOOLEAN
    BY DEF Cmd, Cfg
  <1>2. CASE c.funct = "CONFIG_EX"
    BY <1>1, <1>2 DEF NextRegs, Regs
  <1>3. CASE c.funct = "CONFIG_LOAD"
    <2> DEFINE n == IF c.cfg.repeats = 0 THEN 0 ELSE c.cfg.repeats - 1
    <2>1. n \in Nat
      BY <1>1
    <2> DEFINE bs == [regs.ld_block_strides EXCEPT ![c.cfg.id] = c.cfg.stride]
               pr == [regs.ld_pixel_repeats EXCEPT ![c.cfg.id] = n]
    <2>2. bs \in [0..2 -> Nat] /\ pr \in [0..2 -> Nat]
      BY <1>1, <2>1 DEF Regs
    <2>3. NextRegs(c) = [regs EXCEPT !.ld_block_strides = bs, !.ld_pixel_repeats = pr]
      BY <1>3 DEF NextRegs
    <2> HIDE DEF n, bs, pr
    <2> QED
      BY <2>2, <2>3 DEF Regs
  <1>4. CASE c.funct = "CONFIG_STORE"
    BY <1>1, <1>4 DEF NextRegs, Regs
  <1>5. CASE c.funct \notin {"CONFIG_EX", "CONFIG_LOAD", "CONFIG_STORE"}
    BY <1>5 DEF NextRegs
  <1> QED
    BY <1>2, <1>3, <1>4, <1>5

(***************************************************************************)
(* The rows a legal command touches lie in the operands recorded for it    *)
(***************************************************************************)
\* A strided block inside its recorded range is accounted for by it.
LEMMA BlockTouched ==
  ASSUME NEW a \in LAddr, NEW n \in Nat, NEW stride \in Nat, Fits(a, n * stride),
         NEW p \in Block(a, n, stride)
  PROVE  Touches(Operand(a, n * stride), p)
  <1>1. ~ a.garbage
    BY DEF Block
  <1>2. PICK i \in 0..n-1 : p = RowOf(Plus(a, i * stride))
    BY <1>1 DEF Block
  <1>3. n * stride \in Nat
    OBVIOUS
  <1>4. CASE stride = 0
    <2>1. i * stride = 0
      BY <1>4
    <2> QED
      BY <1>1, <1>2, <1>3, <2>1, OperandTouchesStart
  <1>5. CASE stride > 0
    <2>1. i * stride <= (n - 1) * stride /\ (n - 1) * stride = n * stride - stride
      OBVIOUS
    <2>2. i * stride \in 0..(n * stride)-1
      BY <1>5, <2>1
    <2> QED
      BY <1>1, <1>2, <1>3, <2>2, OperandCovers DEF Touches
  <1> QED
    BY <1>4, <1>5

\* Rows read one after the other, possibly fewer than are recorded.
LEMMA RowsTouched ==
  ASSUME NEW a \in LAddr, NEW n \in Nat, NEW m \in 0..n, Fits(a, n), NEW p \in Block(a, m, 1)
  PROVE  Covers(Operand(a, n), p)
  <1>1. ~ a.garbage
    BY DEF Block
  <1>2. PICK i \in 0..m-1 : p = RowOf(Plus(a, i * 1))
    BY <1>1 DEF Block
  <1>3. i * 1 = i /\ i \in 0..n-1
    OBVIOUS
  <1> QED
    BY <1>1, <1>2, <1>3, OperandCovers

\* Without pixel repeats a load writes each row once.
LEMMA NoRepeat ==
  ASSUME NEW a \in LAddr
  PROVE  MvinStart(a, 0) = a /\ \A p \in Repeated(a, 0) : p = RowOf(a)
  <1>1. ASSUME NEW floor \in Nat, ~ Underflows(a, 0, floor)
        PROVE  FloorSub(a, 0, floor) = a
    BY <1>1 DEF FloorSub, LAddr
  <1>2. HalfSp \in Nat
    BY HalfSpType
  <1>3. ASSUME NEW p \in Repeated(a, 0) PROVE p = RowOf(a)
    <2>1. CASE a.acc
      BY <2>1 DEF Repeated
    <2>2. CASE ~ a.acc
      <3> DEFINE floor == IF Row(a) < HalfSp THEN 0 ELSE HalfSp
      <3>1. floor \in Nat
        BY <1>2
      <3>2. PICK j \in {k \in 0..0 : ~ Underflows(a, k, floor)} : p = RowOf(FloorSub(a, j, floor))
        BY <2>2 DEF Repeated
      <3>3. j = 0 /\ ~ Underflows(a, 0, floor)
        BY <3>2
      <3> HIDE DEF floor
      <3> QED
        BY <1>1, <3>1, <3>2, <3>3
    <2> QED
      BY <2>1, <2>2
  <1>4. MvinStart(a, 0) = a
    <2> DEFINE floor == IF Row(a) > HalfSp THEN HalfSp ELSE 0
    <2>1. CASE ~ FirstLayerOpt \/ a.acc
      BY <2>1 DEF MvinStart
    <2>2. CASE FirstLayerOpt /\ ~ a.acc
      <3>1. floor \in Nat /\ ~ Underflows(a, 0, floor)
        <4>1. a.data \in Nat /\ Row(a) <= a.data /\ Row(a) \in Nat
          BY MemRowsFact DEF LAddr, Row
        <4> QED
          BY <1>2, <4>1 DEF Underflows
      <3>2. MvinStart(a, 0) = FloorSub(a, 0, floor)
        BY <2>2 DEF MvinStart
      <3> HIDE DEF floor
      <3> QED
        BY <1>1, <3>1, <3>2
    <2> QED
      BY <2>1, <2>2
  <1> QED
    BY <1>3, <1>4

\* The recorded destination of a load covers every row it writes.
LEMMA MvinCovered ==
  ASSUME NEW c \in Cmd, regs \in Regs, c.funct \in Loads, InBounds(c),
         regs.ld_pixel_repeats[LoadId(c)] = 0, NEW p \in MvinRows(c)
  PROVE  Covers(dst(c), p)
  <1> DEFINE a == c.rs2.addr
             bs == regs.ld_block_strides[LoadId(c)]
             n == MvinTotal(c)
  <1>1. a \in LAddr /\ c.rs2.rows \in Nat /\ c.rs2.cols \in Nat /\ bs \in Nat
    BY LoadIdType DEF Cmd, Arg, Regs
  <1>2. Mats(c.rs2.cols) \in Int /\ n \in Int
    BY <1>1, MatsType, TotalType
  <1>3. ~ a.garbage /\ Fits(a, n)
    BY DEF InBounds
  <1>4. PICK b \in 0..Mats(c.rs2.cols)-1, r \in 0..c.rs2.rows-1 : p \in Repeated(Plus(a, b * bs + r), 0)
    BY DEF MvinRows
  <1>5. b * bs <= (Mats(c.rs2.cols) - 1) * bs /\ b * bs >= 0 /\ b * bs \in Int
    BY <1>1, <1>2
  <1>6. b * bs + r \in 0..n-1
    BY <1>1, <1>2, <1>5 DEF MvinTotal
  <1>7. Plus(a, b * bs + r) \in LAddr
    BY <1>1, <1>6, PlusType
  <1>8. p = RowOf(Plus(a, b * bs + r))
    BY <1>4, <1>7, NoRepeat
  <1>9. MvinStart(a, 0) = a
    BY <1>1, NoRepeat
  <1>10. dst(c) = Operand(a, n)
    BY <1>9 DEF dst, Loads
  <1> HIDE DEF a, bs, n
  <1> QED
    BY <1>1, <1>2, <1>3, <1>6, <1>8, <1>10, OperandCovers

\* The range recorded for a pooling mvout covers the rest of its accumulator bank.
LEMMA PooledCovered ==
  ASSUME NEW a \in LAddr, a.acc, ~ a.garbage, a.data < AccRows,
         NEW i \in 0..AccBankRows - 1 - (Row(a) % AccBankRows)
  PROVE  Covers(PooledOperand(a), RowOf(Plus(a, i)))
  <1> DEFINE B == AccBankRows
             bank == AccBank(a)
             next == ((bank + 1) % AccBanks) * B
  <1>1. /\ B \in Nat /\ B > 0 /\ AccRows \in Nat /\ AccBanks \in Nat /\ AccBanks > 0
        /\ AccRows = AccBanks * B
    BY RowsAssumption, PowerOfTwoAssumption DEF AccBanks
  <1>2. a.data \in 0..AccRows-1 /\ Row(a) = a.data
    BY <1>1, ModFact DEF LAddr, Row, MemRows
  <1>3. bank \in Nat /\ Row(a) % B \in 0..B-1 /\ Row(a) = bank * B + (Row(a) % B)
    <2>1. Row(a) \in Nat
      BY <1>1, <1>2
    <2> QED
      BY <1>1, <2>1, DivModFact DEF AccBank
  <1>4. Row(a) + i < (bank + 1) * B /\ i \in Nat
    BY <1>1, <1>2, <1>3
  <1>5. bank + 1 <= AccBanks
    <2>1. bank * B < AccBanks * B
      BY <1>1, <1>2, <1>3
    <2> QED
      BY <1>1, <1>3, <2>1
  <1>6. Row(a) + i < AccRows
    <2>1. (bank + 1) * B <= AccBanks * B
      BY <1>1, <1>3, <1>5
    <2> QED
      BY <1>1, <1>2, <1>3, <1>4, <2>1
  <1>7. Plus(a, i).acc /\ Row(Plus(a, i)) = Row(a) + i
    <2>1. Row(a) + i \in 0..AccRows-1 /\ Row(a) + i \in 0..MaxRows-1
      BY <1>1, <1>2, <1>4, <1>6, MaxRowsFact
    <2>2. (a.data + i) % MaxRows = Row(a) + i
      BY <1>2, <2>1, MaxRowsFact, ModFact
    <2>3. (Row(a) + i) % AccRows = Row(a) + i
      BY <1>1, <2>1, ModFact
    <2>4. Plus(a, i).acc /\ Plus(a, i).data = Row(a) + i
      BY <2>2 DEF Plus, LAddr
    <2> QED
      BY <2>3, <2>4 DEF Row, MemRows
  <1>8. CASE bank + 1 = AccBanks
    <2>1. next = 0
      BY <1>1, <1>8
    <2> HIDE DEF next, bank
    <2>2. PooledOperand(a).start = a /\ PooledOperand(a).wraps_around
      BY <2>1 DEF PooledOperand, next, bank
    <2>3. RowOf(Plus(a, i)).acc /\ Row(a) <= RowOf(Plus(a, i)).row
      BY <1>2, <1>4, <1>7 DEF RowOf
    <2> QED
      BY <2>2, <2>3 DEF Covers
  <1>9. CASE bank + 1 < AccBanks
    <2>1. next = (bank + 1) * B
      <3>1. bank + 1 \in 0..AccBanks-1
        BY <1>1, <1>3, <1>9
      <3>2. (bank + 1) % AccBanks = bank + 1
        BY <1>1, <3>1, ModFact
      <3> QED
        BY <3>2
    <2>2. next \in 0..AccRows-1
      <3>1. (bank + 2) * B <= AccBanks * B /\ (bank + 2) * B = (bank + 1) * B + B
        BY <1>1, <1>3, <1>9
      <3>2. (bank + 1) * B \in Nat
        BY <1>1, <1>3
      <3> QED
        BY <1>1, <2>1, <3>1, <3>2
    <2>3. Row(AccAddr(next)) = next /\ AccAddr(next).acc
      BY <1>1, <2>2, ModFact DEF Row, AccAddr, MemRows
    <2>4. RowOf(Plus(a, i)).row < Row(AccAddr(next))
      BY <1>4, <1>7, <2>1, <2>3 DEF RowOf
    <2> HIDE DEF next, bank
    <2>5. PooledOperand(a).start = a /\ PooledOperand(a).end = AccAddr(next)
      BY DEF PooledOperand, next, bank
    <2>6. RowOf(Plus(a, i)).acc /\ Row(a) <= RowOf(Plus(a, i)).row
      BY <1>2, <1>4, <1>7 DEF RowOf
    <2> QED
      BY <2>3, <2>4, <2>5, <2>6 DEF Covers
  <1> QED
    BY <1>1, <1>3, <1>5, <1>8, <1>9

\* The recorded source of a mvout covers every row it reads.
LEMMA MvoutCovered ==
  ASSUME NEW c \in Cmd, regs \in Regs, c.funct \in Stores, InBounds(c), NEW p \in MvoutRows(c)
  PROVE  op2(c).valid /\ Covers(op2(c), p)
  <1> DEFINE a == c.rs2.addr
             n == MvoutTotal(c)
  <1>1. a \in LAddr /\ ~ a.garbage /\ c.rs2.rows \in Nat /\ c.rs2.cols \in Nat
    BY DEF Cmd, Arg, InBounds
  <1>2. CASE regs.pooling_is_enabled
    <2>1. a.acc /\ a.data < AccRows
      BY <1>1, <1>2 DEF InBounds, Fits, MemRows
    <2>2. PICK i \in 0..AccBankRows - 1 - (Row(a) % AccBankRows) : p = RowOf(Plus(a, i))
      BY <1>2 DEF MvoutRows
    <2>3. op2(c) = PooledOperand(a)
      BY <1>2 DEF op2, Stores
    <2> HIDE DEF a
    <2> QED
      BY <1>1, <2>1, <2>2, <2>3, PooledCovered DEF PooledOperand
  <1>3. CASE ~ regs.pooling_is_enabled
    <2>1. Mats(c.rs2.cols) \in Int /\ n \in Int /\ BlockRows \in Nat
      BY <1>1, MatsType, TotalType, SizeAssumption
    <2>2. PICK b \in 0..Mats(c.rs2.cols)-1, r \in 0..c.rs2.rows-1 :
             p = RowOf(Plus(a, b * BlockRows + r))
      BY <1>3 DEF MvoutRows
    <2>3. b * BlockRows <= (Mats(c.rs2.cols) - 1) * BlockRows /\ b * BlockRows >= 0
          /\ b * BlockRows \in Int
      BY <2>1
    <2>4. b * BlockRows + r \in 0..n-1
      BY <1>1, <2>1, <2>3 DEF MvoutTotal
    <2>5. op2(c) = Operand(a, n)
      BY <1>3 DEF op2, Stores
    <2>6. Fits(a, n)
      BY <1>3 DEF InBounds
    <2> HIDE DEF a, n
    <2> QED
      BY <1>1, <2>1, <2>2, <2>4, <2>5, <2>6, OperandCovers DEF Operand
  <1> QED
    BY <1>2, <1>3

\* What the recorded operands of a legal command account for.
LEMMA NewCovered ==
  ASSUME NoGaps, NEW c \in Cmds, regs \in Regs, InBounds(c), NoRepeats
  PROVE  /\ \A p \in RowsWritten(c) : opa_is_dst(c) /\ opa(c).valid /\ Touches(opa(c), p)
         /\ Queue(c) # "ex" => \A p \in RowsWritten(c) : Covers(opa(c), p)
         /\ Queue(c) = "ld" => RowsRead(c) = {}
         /\ Queue(c) = "st" => \A p \in RowsRead(c) :
              IF opa_is_dst(c) THEN c.funct = "STORE_SPAD" /\ opb(c).valid /\ Covers(opb(c), p)
                               ELSE opa(c).valid /\ Covers(opa(c), p)
         /\ Queue(c) = "ex" => \A p \in RowsRead(c) :
              \/ opa(c).valid /\ Touches(opa(c), p)
              \/ opb(c).valid /\ Touches(opb(c), p)
  <1>0. c \in Cmd
    BY ProgramAssumption
  <1>1. /\ c.rs1.addr \in LAddr /\ c.rs1.rows \in Nat /\ c.rs1.cols \in Nat
        /\ c.rs2.addr \in LAddr /\ c.rs2.rows \in Nat /\ c.rs2.cols \in Nat
        /\ c.funct \in Loads \cup Stores \cup Execs \cup Configs
        /\ regs.a_stride \in Nat /\ regs.c_stride \in Nat
    BY <1>0 DEF Cmd, Arg, Regs
  <1>2. CASE c.funct \in Loads
    <2>1. regs.ld_pixel_repeats[LoadId(c)] = 0
      BY LoadIdType DEF NoRepeats
    <2>2. \A p \in RowsWritten(c) : Covers(dst(c), p)
      BY <1>0, <1>2, <2>1, MvinCovered DEF RowsWritten, Loads
    <2>3. dst(c).valid /\ RowsRead(c) = {} /\ Queue(c) = "ld"
      BY <1>2 DEF dst, Operand, RowsRead, Queue, Loads, Stores, Execs, is_ex, is_store
    <2> QED
      BY <2>2, <2>3 DEF opa, opa_is_dst, Touches
  <1>3. CASE c.funct = "STORE"
    <2>1. \A p \in RowsRead(c) : op2(c).valid /\ Covers(op2(c), p)
      BY <1>0, <1>3, MvoutCovered DEF RowsRead, Stores
    <2>2. Queue(c) = "st" /\ opa(c) = op2(c) /\ ~ opa_is_dst(c) /\ RowsWritten(c) = {}
      BY <1>3 DEF Queue, opa, opa_is_dst, dst, op1, NoOp, RowsWritten, Loads, Stores, Execs,
                  is_ex, is_store
    <2> QED
      BY <2>1, <2>2
  <1>4. CASE c.funct = "STORE_SPAD"
    <2>1. \A p \in RowsRead(c) : op2(c).valid /\ Covers(op2(c), p)
      BY <1>0, <1>4, MvoutCovered DEF RowsRead, Stores
    <2>2. Queue(c) = "st" /\ opa(c) = Operand(c.rs1.addr, c.rs2.rows) /\ opa_is_dst(c) /\ opb(c) = op2(c)
      BY <1>4 DEF Queue, opa, opb, opa_is_dst, dst, op1, NoOp, Operand, Loads, Stores, Execs,
                  is_ex, is_store
    <2>3. \A p \in RowsWritten(c) : Covers(opa(c), p)
      BY <1>1, <1>4, <2>2, RowsTouched DEF RowsWritten, InBounds, Loads
    <2>4. opa(c).valid
      BY <2>2 DEF Operand
    <2> QED
      BY <1>4, <2>1, <2>2, <2>3, <2>4 DEF Touches
  <1>5. CASE c.funct = "PRELOAD"
    <2>1. /\ Queue(c) = "ex" /\ opa_is_dst(c)
          /\ opa(c) = Operand(c.rs2.addr, c.rs2.rows * regs.c_stride)
          /\ opb(c) = Operand(c.rs1.addr, c.rs1.rows)
      <3>1. Queue(c) = "ex"
        BY <1>5 DEF Queue, is_ex, is_store, Execs, Stores
      <3>2. dst(c) = Operand(c.rs2.addr, c.rs2.rows * regs.c_stride)
        BY <1>5 DEF dst, Loads
      <3>3. op1(c) = Operand(c.rs1.addr, c.rs1.rows)
        BY <1>5 DEF op1
      <3>4. dst(c).valid
        BY <3>2 DEF Operand
      <3>5. op1(c).valid
        BY <3>3 DEF Operand
      <3> QED
        BY <3>1, <3>2, <3>3, <3>4, <3>5 DEF opa, opb, opa_is_dst
    <2>2. \A p \in RowsWritten(c) : Touches(opa(c), p)
      BY <1>1, <1>5, <2>1, BlockTouched DEF RowsWritten, InBounds, Loads
    <2>3. d_rows(c) \in 0..c.rs1.rows
      BY <1>1, <1>5 DEF d_rows, NoGaps
    <2>4. \A p \in RowsRead(c) : Covers(opb(c), p)
      BY <1>1, <1>5, <2>1, <2>3, RowsTouched DEF RowsRead, InBounds, Stores
    <2>5. opa(c).valid /\ opb(c).valid
      BY <2>1 DEF Operand
    <2> QED
      BY <2>1, <2>2, <2>4, <2>5 DEF Touches
  <1>6. CASE c.funct = "COMPUTE"
    <2>1. /\ Queue(c) = "ex" /\ ~ opa_is_dst(c)
          /\ opa(c) = Operand(c.rs1.addr, a_rows(c) * regs.a_stride)
          /\ opb(c) = Operand(c.rs2.addr, c.rs2.rows)
      <3>1. Queue(c) = "ex"
        BY <1>6 DEF Queue, is_ex, is_store, Execs, Stores
      <3>2. dst(c) = NoOp
        BY <1>6 DEF dst, Loads
      <3>3. op1(c) = Operand(c.rs1.addr, a_rows(c) * regs.a_stride)
        BY <1>6 DEF op1, a_rows
      <3>4. op2(c) = Operand(c.rs2.addr, c.rs2.rows)
        BY <1>6 DEF op2, Stores
      <3>5. ~ dst(c).valid /\ op1(c).valid
        BY <3>2, <3>3 DEF Operand, NoOp
      <3> QED
        BY <3>1, <3>3, <3>4, <3>5 DEF opa, opb, opa_is_dst
    <2>2. a_rows(c) \in Nat
      BY <1>1 DEF a_rows
    <2>3. \A p \in Block(c.rs1.addr, a_rows(c), regs.a_stride) : Touches(opa(c), p)
      BY <1>1, <1>6, <2>1, <2>2, BlockTouched DEF InBounds
    <2>4. \A p \in Block(c.rs2.addr, c.rs2.rows, 1) : Covers(opb(c), p)
      <3>1. Fits(c.rs2.addr, c.rs2.rows)
        BY <1>6 DEF InBounds
      <3> QED
        BY <1>1, <2>1, <3>1, RowsTouched
    <2>5. RowsWritten(c) = {}
      BY <1>6 DEF RowsWritten, Loads
    <2>6. opa(c).valid /\ opb(c).valid
      BY <2>1 DEF Operand
    <2>7. RowsRead(c) = Block(c.rs1.addr, a_rows(c), regs.a_stride)
                          \cup Block(c.rs2.addr, c.rs2.rows, 1)
      BY <1>6 DEF RowsRead, Stores
    <2> QED
      BY <2>1, <2>3, <2>4, <2>5, <2>6, <2>7 DEF Touches
  <1>7. CASE c.funct \in Configs
    BY <1>7 DEF RowsRead, RowsWritten, Configs, Loads, Stores
  <1> QED
    BY <1>1, <1>2, <1>3, <1>4, <1>5, <1>6, <1>7 DEF Stores, Execs
===============================================================================
