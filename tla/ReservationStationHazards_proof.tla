------------------- MODULE ReservationStationHazards_proof -------------------
(***************************************************************************)
(* The station's main promise: hazards between commands of different       *)
(* controllers are respected.                                              *)
(***************************************************************************)
EXTENDS ReservationStation_proof

(***************************************************************************)
(* Hazards between queues                                                  *)
(***************************************************************************)
\* The operands written into a new entry account for the rows it will use.
LEMMA NewRecorded ==
  ASSUME NoGaps, NEW c \in Cmds, regs \in Regs, InBounds(c), NoRepeats, NEW junk
  PROVE  Recorded(new_entry(c, junk), Queue(c))
  <1> DEFINE e == new_entry(c, junk)
  <1>1. /\ e.opa = opa(c) /\ (e.opa_is_dst <=> opa_is_dst(c)) /\ e.funct = c.funct
        /\ e.rd = RowsRead(c) /\ e.wr = RowsWritten(c)
        /\ Queue(c) = "ex" => e.opb = opb(c)
    BY DEF new_entry
  <1> HIDE DEF e
  <1>2. \A p \in e.wr : e.opa_is_dst /\ e.opa.valid /\ Touches(e.opa, p)
    BY <1>1, NewCovered
  <1>3. Queue(c) # "ex" => \A p \in e.wr : Covers(e.opa, p)
    BY <1>1, NewCovered
  <1>4. Queue(c) = "ld" => e.rd = {}
    BY <1>1, NewCovered
  <1>5. Queue(c) = "st" => \A p \in KeptReads(e) : ~ e.opa_is_dst /\ e.opa.valid /\ Covers(e.opa, p)
    BY <1>1, NewCovered DEF KeptReads
  <1>6. Queue(c) = "ex" => \A p \in e.rd : \/ e.opa.valid /\ Touches(e.opa, p)
                                           \/ e.opb.valid /\ Touches(e.opb, p)
    BY <1>1, NewCovered
  <1> QED
    BY <1>2, <1>3, <1>4, <1>5, <1>6 DEF Recorded, e

\* The overlap checks made for a new command find every entry of another queue
\* it conflicts with (deps_ld, deps_ex and deps_st of the station).
LEMMA ConflictFound ==
  ASSUME NoGaps, TypeOK, NEW c \in Cmds, InBounds(c), NoRepeats, NEW junk,
         NEW t \in Slots, Valid(t), Recorded(entries[t], t[1]), t[1] # Queue(c),
         Conflict(entries[t], new_entry(c, junk))
  PROVE  t \in deps(c, junk)
  <1> DEFINE o == entries[t]
             q == Queue(c)
  <1>1. /\ o \in Entry /\ o.opa \in OpT /\ o.opb \in OpT /\ o.wr \subseteq PRow /\ o.rd \subseteq PRow
        /\ c \in Cmd /\ regs \in Regs
    BY ProgramAssumption DEF TypeOK, Entry
  <1>2. opa(c) \in OpT /\ opb(c) \in OpT
    BY <1>1, OpsType
  <1>3. t \in QSlots(t[1]) /\ t[1] \in Queues /\ q \in Queues
    BY SlotFact, QueueType
  <1>4. \/ \E p \in o.wr : p \in RowsRead(c) \cup RowsWritten(c)
        \/ \E p \in KeptReads(o) : p \in RowsWritten(c)
    BY DEF Conflict, new_entry
  <1>5. ~ is_config(c)
    BY <1>4 DEF is_config, RowsRead, RowsWritten, Configs, Loads, Stores
  <1>6. KeptReads(o) \subseteq o.rd
    BY DEF KeptReads
  <1> HIDE DEF o
  <1>7. \A x, y \in OpT, p \in PRow : Touches(x, p) /\ Covers(y, p) => Overlaps(x, y) /\ Overlaps(y, x)
    BY SharedRowOverlaps
  <1>8. \A x \in OpT, p \in PRow : Covers(x, p) => Touches(x, p)
    BY DEF Touches
  <1>9. CASE q = "ld"
    <2>1. PICK p \in PRow : (p \in o.wr \/ p \in KeptReads(o)) /\ p \in RowsWritten(c)
      BY <1>1, <1>4, <1>6, <1>9, NewCovered
    <2>2. Covers(opa(c), p)
      BY <1>1, <1>9, <2>1, NewCovered
    <2>3. \/ o.opa.valid /\ Touches(o.opa, p)
          \/ o.opb.valid /\ Touches(o.opb, p)
      BY <1>1, <1>3, <1>6, <1>8, <1>9, <2>1 DEF Recorded, Queues, o
    <2>4. \/ Overlaps(opa(c), o.opa) /\ o.opa.valid
          \/ Overlaps(opa(c), o.opb) /\ o.opb.valid
      BY <1>1, <1>2, <1>7, <2>2, <2>3
    <2>5. t \in QSlots("ex") \cup QSlots("st")
      BY <1>3, <1>9 DEF Queues
    <2>6. t \in deps_for_ld(c)
      BY <1>5, <2>4, <2>5 DEF deps_for_ld, o
    <2> QED
      BY <1>9, <2>6 DEF deps
  <1>10. CASE q = "ex"
    <2>1. CASE t[1] = "ld"
      <3>1. PICK p \in PRow : p \in o.wr /\ p \in RowsRead(c) \cup RowsWritten(c)
        BY <1>1, <1>4, <1>6, <2>1 DEF Recorded, o
      <3>2. o.opa.valid /\ Covers(o.opa, p)
        BY <2>1, <3>1 DEF Recorded, o
      <3>3. Touches(opa(c), p) \/ Touches(opb(c), p)
        BY <1>1, <1>10, <3>1, NewCovered
      <3>4. Overlaps(opa(c), o.opa) \/ Overlaps(opb(c), o.opa)
        BY <1>1, <1>2, <1>7, <3>2, <3>3
      <3>5. t \in deps_for_ex(c, junk)
        BY <1>3, <1>5, <2>1, <3>2, <3>4 DEF deps_for_ex, o
      <3> QED
        BY <1>10, <3>5 DEF deps
    <2>2. CASE t[1] = "st"
      <3> SUFFICES t \in deps_for_ex(c, junk)
        BY <1>10 DEF deps
      <3>1. CASE \E p \in o.wr : p \in RowsRead(c) \cup RowsWritten(c)
        <4>1. PICK p \in PRow : p \in o.wr /\ p \in RowsRead(c) \cup RowsWritten(c)
          BY <1>1, <3>1
        <4>2. o.opa_is_dst /\ o.opa.valid /\ Covers(o.opa, p)
          BY <2>2, <4>1 DEF Recorded, o
        <4>3. Touches(opa(c), p) \/ Touches(opb(c), p)
          BY <1>1, <1>10, <4>1, NewCovered
        <4>4. Overlaps(opa(c), o.opa) \/ Overlaps(opb(c), o.opa)
          BY <1>1, <1>2, <1>7, <4>2, <4>3
        <4> QED
          BY <1>3, <1>5, <2>2, <4>2, <4>4 DEF deps_for_ex, o
      <3>2. CASE \E p \in KeptReads(o) : p \in RowsWritten(c)
        <4>1. PICK p \in PRow : p \in KeptReads(o) /\ p \in RowsWritten(c)
          BY <1>1, <1>6, <3>2
        <4>2. ~ o.opa_is_dst /\ o.opa.valid /\ Covers(o.opa, p)
          BY <2>2, <4>1 DEF Recorded, o
        <4>3. opa_is_dst(c) /\ Touches(opa(c), p)
          BY <1>1, <4>1, NewCovered
        <4>4. Overlaps(opa(c), o.opa)
          BY <1>1, <1>2, <1>7, <4>2, <4>3
        <4> QED
          BY <1>3, <1>5, <2>2, <4>2, <4>3, <4>4 DEF deps_for_ex, o
      <3> QED
        BY <1>4, <3>1, <3>2
    <2> QED
      BY <1>3, <1>10, <2>1, <2>2 DEF Queues
  <1>11. CASE q = "st"
    <2>1. CASE t[1] = "ld"
      <3>1. PICK p \in PRow : p \in o.wr /\ p \in RowsRead(c) \cup RowsWritten(c)
        BY <1>1, <1>4, <1>6, <2>1 DEF Recorded, o
      <3>2. o.opa.valid /\ Covers(o.opa, p)
        BY <2>1, <3>1 DEF Recorded, o
      <3>3. Covers(opa(c), p) \/ (opb(c).valid /\ Covers(opb(c), p))
        BY <1>1, <1>11, <3>1, NewCovered
      <3>4. Overlaps(opa(c), o.opa) \/ (opb(c).valid /\ Overlaps(opb(c), o.opa))
        BY <1>1, <1>2, <1>7, <1>8, <3>2, <3>3
      <3>5. t \in deps_for_st(c)
        BY <1>3, <1>5, <2>1, <3>2, <3>4 DEF deps_for_st, o
      <3> QED
        BY <1>11, <3>5 DEF deps
    <2>2. CASE t[1] = "ex"
      <3> SUFFICES t \in deps_for_st(c)
        BY <1>11 DEF deps
      <3>1. CASE \E p \in RowsWritten(c) : p \in o.wr \cup KeptReads(o)
        <4>1. PICK p \in PRow : p \in RowsWritten(c) /\ p \in o.wr \cup KeptReads(o)
          BY <1>1, <1>6, <3>1
        <4>2. opa_is_dst(c) /\ Covers(opa(c), p)
          BY <1>1, <1>11, <4>1, NewCovered
        <4>3. \/ o.opa.valid /\ Touches(o.opa, p)
              \/ o.opb.valid /\ Touches(o.opb, p)
          BY <1>6, <2>2, <4>1 DEF Recorded, o
        <4>4. \/ Overlaps(opa(c), o.opa) /\ o.opa.valid
              \/ Overlaps(opa(c), o.opb) /\ o.opb.valid
          BY <1>1, <1>2, <1>7, <4>2, <4>3
        <4> QED
          BY <1>3, <1>5, <2>2, <4>2, <4>4 DEF deps_for_st, o
      <3>2. CASE \E p \in RowsRead(c) : p \in o.wr
        <4>1. PICK p \in PRow : p \in RowsRead(c) /\ p \in o.wr
          BY <1>1, <3>2
        <4>2. o.opa_is_dst /\ o.opa.valid /\ Touches(o.opa, p)
          BY <4>1 DEF Recorded, o
        <4>3. IF opa_is_dst(c) THEN Covers(opb(c), p) ELSE Covers(opa(c), p)
          BY <1>1, <1>11, <4>1, NewCovered
        <4>4. IF opa_is_dst(c) THEN Overlaps(opb(c), o.opa) ELSE Overlaps(opa(c), o.opa)
          BY <1>1, <1>2, <1>7, <4>2, <4>3
        <4> QED
          BY <1>3, <1>5, <2>2, <4>2, <4>4 DEF deps_for_st, o
      <3> QED
        BY <1>4, <3>1, <3>2
    <2> QED
      BY <1>3, <1>11, <2>1, <2>2 DEF Queues
  <1> QED
    BY <1>3, <1>9, <1>10, <1>11 DEF Queues

\* A new command keeps every conflict between queues a dependency.
LEMMA AcceptTracked ==
  ASSUME NoGaps, TypeOK, Ordered(entries, instructions_allocated), Tracked(entries), NoRepeats,
         NEW c \in Cmds, InBounds(c), NEW junk, NEW slot \in Slots, IsAllocSlot(c, slot)
  PROVE  Tracked(Accepted(c, slot, junk))
  <1> DEFINE E == Accepted(c, slot, junk)
             e == new_entry(c, junk)
  <1>1. entries \in [Slots -> Entry] /\ instructions_allocated \in Nat /\ regs \in Regs
    BY DEF TypeOK
  <1>2. E[slot] = e /\ \A s \in Slots \ {slot} : E[s] = entries[s]
    BY <1>1 DEF Accepted
  <1>3. e.valid /\ e.allocated_at = instructions_allocated /\ e.deps = deps(c, junk)
    BY DEF new_entry
  <1>4. slot[1] = Queue(c)
    BY SlotFact, QueueType DEF IsAllocSlot
  <1>5. Recorded(e, slot[1])
    BY <1>1, <1>4, NewRecorded
  <1>6. \A t \in Slots : /\ entries[t].valid /\ t[1] # slot[1] /\ Conflict(entries[t], e)
                         => t \in e.deps
    BY <1>3, <1>4, ConflictFound DEF Tracked, Valid
  <1>7. \A t \in Slots : entries[t].allocated_at \in Nat
    BY <1>1 DEF Entry
  <1> HIDE DEF E, e
  <1>8. \A s \in Slots : E[s].valid => Recorded(E[s], s[1])
    BY <1>2, <1>5 DEF Tracked
  <1>9. \A s, t \in Slots :
          Before(E, t, s) /\ t[1] # s[1] /\ Conflict(E[t], E[s]) => t \in E[s].deps
    <2> SUFFICES ASSUME NEW s \in Slots, NEW t \in Slots, Before(E, t, s), t[1] # s[1],
                        Conflict(E[t], E[s])
                 PROVE  t \in E[s].deps
      OBVIOUS
    <2>1. t # slot
      <3>1. \A r \in Slots : entries[r].valid => entries[r].allocated_at < instructions_allocated
        BY DEF Ordered
      <3>2. E[s].allocated_at <= instructions_allocated
        BY <1>1, <1>2, <1>3, <1>7, <3>1 DEF Before
      <3> QED
        BY <1>1, <1>2, <1>3, <1>7, <3>2 DEF Before
    <2>2. E[t] = entries[t]
      BY <1>2, <2>1
    <2>3. CASE s = slot
      BY <1>2, <1>6, <2>2, <2>3 DEF Before
    <2>4. CASE s # slot
      BY <1>2, <2>2, <2>4 DEF Before, Tracked
    <2> QED
      BY <2>3, <2>4
  <1> QED
    BY <1>8, <1>9 DEF Tracked, E

\* Issues and completions keep every conflict between queues a dependency:
\* only a retirement clears a dependency on another queue.
LEMMA SettleTracked ==
  ASSUME NEW E \in [Slots -> Entry], Tracked(E), NEW iss, NEW done, Legitimate(E, iss, done)
  PROVE  Tracked(Settled(E, iss, done))
  <1> DEFINE F == Settled(E, iss, done)
  <1>1. \A s \in Slots : F[s].valid =>
          /\ E[s].valid /\ s \notin done /\ ~ (s \in iss /\ E[s].complete_on_issue)
          /\ F[s].allocated_at = E[s].allocated_at
    BY SettledValid, SettledFacts
  <1>2. \A s \in Slots : F[s].valid =>
          /\ F[s].funct = E[s].funct /\ F[s].rd = E[s].rd /\ F[s].wr = E[s].wr
          /\ F[s].opa = E[s].opa /\ F[s].opb = E[s].opb /\ F[s].opa_is_dst = E[s].opa_is_dst
    BY SettledKept
  <1>3. \A s, t \in Slots : F[s].valid /\ F[t].valid /\ t \in E[s].deps /\ t[1] # s[1]
                            => t \in F[s].deps
    BY KeptDependency
  <1> HIDE DEF F
  <1>4. \A s \in Slots : F[s].valid => Recorded(F[s], s[1])
    <2> SUFFICES ASSUME NEW s \in Slots, F[s].valid PROVE Recorded(F[s], s[1])
      OBVIOUS
    <2>1. Recorded(E[s], s[1])
      BY <1>1 DEF Tracked
    <2>2. KeptReads(F[s]) = KeptReads(E[s])
      BY <1>2 DEF KeptReads
    <2> QED
      BY <1>2, <2>1, <2>2 DEF Recorded
  <1>5. \A s, t \in Slots :
          Before(F, t, s) /\ t[1] # s[1] /\ Conflict(F[t], F[s]) => t \in F[s].deps
    <2> SUFFICES ASSUME NEW s \in Slots, NEW t \in Slots, Before(F, t, s), t[1] # s[1],
                        Conflict(F[t], F[s])
                 PROVE  t \in F[s].deps
      OBVIOUS
    <2>1. Before(E, t, s)
      BY <1>1 DEF Before
    <2>2. Conflict(E[t], E[s])
      BY <1>2 DEF Before, Conflict, KeptReads
    <2>3. t \in E[s].deps
      BY <2>1, <2>2 DEF Tracked
    <2> QED
      BY <1>3, <2>3 DEF Before
  <1> QED
    BY <1>4, <1>5 DEF Tracked, F

(***************************************************************************)
(* Cycles                                                                  *)
(***************************************************************************)
\* Without pixel repeats (NoGaps), no configuration command turns them on.
LEMMA NoRepeatsStep ==
  ASSUME NoGaps, TypeOK, NoRepeats, NEW c \in Cmds, regs' = NextRegs(c)
  PROVE  NoRepeats'
  <1>1. c \in Cmd /\ regs \in Regs
    BY ProgramAssumption DEF TypeOK
  <1>2. CASE c.funct = "CONFIG_LOAD"
    <2>1. c.cfg.repeats \in Nat /\ c.cfg.repeats <= 1 /\ c.cfg.id \in 0..2
      BY <1>1, <1>2 DEF NoGaps, Cmd, Cfg
    <2> DEFINE v == IF c.cfg.repeats = 0 THEN 0 ELSE c.cfg.repeats - 1
    <2>2. v = 0
      BY <2>1
    <2> HIDE DEF v
    <2>3. regs' = [regs EXCEPT !.ld_block_strides = [@ EXCEPT ![c.cfg.id] = c.cfg.stride],
                               !.ld_pixel_repeats = [@ EXCEPT ![c.cfg.id] = v]]
      BY <1>2 DEF NextRegs, v
    <2>4. regs'.ld_pixel_repeats = [regs.ld_pixel_repeats EXCEPT ![c.cfg.id] = v]
      BY <1>1, <2>3 DEF Regs
    <2> QED
      BY <1>1, <2>2, <2>4 DEF NoRepeats, Regs
  <1>3. CASE c.funct = "CONFIG_EX"
    <2> DEFINE r == [regs EXCEPT !.a_stride = c.cfg.stride, !.c_stride = c.cfg.c_stride]
    <2>1. r.ld_pixel_repeats = regs.ld_pixel_repeats
      BY <1>1 DEF Regs
    <2>2. regs' = r \/ regs' = [r EXCEPT !.a_transpose = c.cfg.a_transpose,
                                         !.b_transpose = c.cfg.b_transpose]
      BY <1>3 DEF NextRegs
    <2>3. regs'.ld_pixel_repeats = regs.ld_pixel_repeats
      BY <1>1, <2>1, <2>2 DEF Regs
    <2> QED
      BY <2>3 DEF NoRepeats
  <1>4. CASE c.funct = "CONFIG_STORE"
    <2>1. regs'.ld_pixel_repeats = regs.ld_pixel_repeats
      BY <1>1, <1>4 DEF NextRegs, Regs
    <2> QED
      BY <2>1 DEF NoRepeats
  <1>5. CASE c.funct \notin {"CONFIG_LOAD", "CONFIG_EX", "CONFIG_STORE"}
    BY <1>5 DEF NextRegs, NoRepeats
  <1> QED
    BY <1>2, <1>3, <1>4, <1>5

\* HazardInv is kept by every cycle.
LEMMA HazardInvStep == NoGaps /\ HazardInv /\ [Next]_vars => HazardInv'
  <1> SUFFICES ASSUME NoGaps, HazardInv, [Next]_vars PROVE HazardInv'
    OBVIOUS
  <1>1. /\ OrderInv /\ TypeOK /\ entries \in [Slots -> Entry]
        /\ Ordered(entries, instructions_allocated) /\ Tracked(entries) /\ NoRepeats
    BY DEF HazardInv, OrderInv, TypeOK
  <1>2. OrderInv'
    BY <1>1, OrderInvStep
  <1>3. ASSUME UNCHANGED vars PROVE Tracked(entries') /\ NoRepeats'
    BY <1>1, <1>3 DEF vars, NoRepeats
  <1>4. ASSUME NEW iss \in IssueSets, NEW done \in DoneSets, QuietCycle(iss, done)
        PROVE  Tracked(entries') /\ NoRepeats'
    <2>1. entries' = Settled(entries, iss, done) /\ regs' = regs
      BY <1>4 DEF QuietCycle, Settled
    <2>2. Legitimate(entries, iss, done)
      BY QuietLegitimate
    <2> QED
      BY <1>1, <2>1, <2>2, SettleTracked DEF NoRepeats
  <1>5. ASSUME NEW iss \in IssueSets, NEW done \in DoneSets, NEW c \in Cmds,
               NEW slot \in QSlots(Queue(c)), NEW junk, AllocCycle(c, slot, junk, iss, done)
        PROVE  Tracked(entries') /\ NoRepeats'
    <2> DEFINE E == Accepted(c, slot, junk)
    <2>1. /\ slot \in Slots /\ IsAllocSlot(c, slot) /\ InBounds(c)
          /\ Legitimate(E, iss, done) /\ entries' = Settled(E, iss, done)
      BY <1>1, <1>5, AllocShape
    <2>2. E \in [Slots -> Entry]
      BY <1>1, <2>1, AcceptOrdered
    <2>3. Tracked(E)
      BY <1>1, <2>1, AcceptTracked
    <2> HIDE DEF E
    <2>4. Tracked(entries')
      BY <2>1, <2>2, <2>3, SettleTracked
    <2>5. regs' = NextRegs(c)
      BY <1>5 DEF AllocCycle
    <2>6. NoRepeats'
      BY <1>1, <2>5, NoRepeatsStep
    <2> QED
      BY <2>4, <2>6
  <1>6. Tracked(entries') /\ NoRepeats'
    BY <1>3, <1>4, <1>5 DEF Next, Finished
  <1> QED
    BY <1>2, <1>6 DEF HazardInv

\* The empty station satisfies HazardInv.
LEMMA HazardInvInit == NoGaps /\ Init => HazardInv
  <1> SUFFICES ASSUME NoGaps, Init PROVE HazardInv
    OBVIOUS
  <1>1. \A s \in Slots : ~ entries[s].valid
    BY DEF Init, Free
  <1>2. Tracked(entries)
    BY <1>1 DEF Tracked, Before
  <1>3. NoRepeats
    BY DEF Init, NoGaps, NoRepeats
  <1> QED
    BY <1>2, <1>3, OrderInvInit DEF HazardInv

\* The station's main promise, for programs that stay clear of its gaps: a
\* command with a RAW, WAW or WAR hazard against an older command of another
\* controller is not issued before that command retires.
THEOREM HazardsRespectedHolds == NoGaps => (Spec => []HazardsRespected)
  <1> SUFFICES ASSUME NoGaps PROVE Spec => []HazardsRespected
    OBVIOUS
  <1>1. Init => HazardInv
    BY HazardInvInit
  <1>2. HazardInv /\ [Next]_vars => HazardInv'
    BY HazardInvStep
  <1>3. HazardInv => HazardsRespected
    <2> SUFFICES ASSUME HazardInv, NEW t \in Slots, NEW s \in Slots, Older(t, s), t[1] # s[1],
                        Conflict(entries[t], entries[s])
                 PROVE  ~ entries[s].issued /\ t \in entries[s].deps
      BY DEF HazardsRespected
    <2>1. t \in entries[s].deps
      BY DEF HazardInv, Tracked, Before, Older, Valid
    <2> QED
      BY <2>1 DEF HazardInv, OrderInv, Ordered, Older, Valid
  <1> QED
    BY <1>1, <1>2, <1>3, PTL DEF Spec
==============================================================================
