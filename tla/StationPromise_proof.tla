------------------------- MODULE StationPromise_proof -------------------------
(***************************************************************************)
(* The reservation station implements CommandOrder.                        *)
(***************************************************************************)
EXTENDS ReservationStationHazards_proof, StationPromise

\* The commands in flight when the entries are E.
Rec(E, s) == [no |-> E[s].allocated_at, unit |-> s[1], started |-> E[s].issued,
              rd |-> KeptReads(E[s]), wr |-> E[s].wr]
InFlight(E) == {Rec(E, s) : s \in {t \in Slots : E[t].valid}}

\* what the issues iss and the completions done are in CommandOrder
Start(iss) == {Rec(entries, s) : s \in iss}
Gone(iss, done) ==
  {Rec(entries, s) : s \in {t \in iss \cup done :
                              t \in done \/ (t \in iss /\ entries[t].complete_on_issue)}}

\* Two entries are never the same command.
LEMMA RecUnique ==
  ASSUME TypeOK, Ordered(entries, instructions_allocated),
         NEW s \in Slots, NEW t \in Slots, Valid(s), Valid(t), Rec(entries, s) = Rec(entries, t)
  PROVE  s = t
  <1>1. entries[s].allocated_at = entries[t].allocated_at
    BY DEF Rec
  <1> QED
    BY <1>1 DEF Ordered, Valid

\* An entry that stays valid is the same command, started if it was issued.
LEMMA RecSettled ==
  ASSUME TypeOK, Ordered(entries, instructions_allocated),
         NEW iss, NEW done, Legitimate(entries, iss, done),
         NEW s \in Slots, Settled(entries, iss, done)[s].valid
  PROVE  Rec(Settled(entries, iss, done), s)
           = [Rec(entries, s) EXCEPT !.started = @ \/ Rec(entries, s) \in Start(iss)]
  <1> DEFINE F == Settled(entries, iss, done)
  <1>1. entries \in [Slots -> Entry] /\ F \in [Slots -> Entry]
    BY SettledType DEF TypeOK
  <1>2. entries[s].valid /\ F[s].issued \in BOOLEAN /\ entries[s].issued \in BOOLEAN
    BY <1>1, SettledValid DEF Entry
  <1>3. /\ F[s].issued <=> (entries[s].issued \/ s \in iss)
        /\ F[s].allocated_at = entries[s].allocated_at
        /\ F[s].funct = entries[s].funct /\ F[s].rd = entries[s].rd /\ F[s].wr = entries[s].wr
    BY <1>1, SettledFacts, SettledKept
  <1>4. Rec(entries, s) \in Start(iss) <=> s \in iss
    BY <1>2, RecUnique DEF Start, Legitimate, Valid
  <1>5. KeptReads(F[s]) = KeptReads(entries[s])
    BY <1>3 DEF KeptReads
  <1> HIDE DEF F
  <1>6. F[s].issued = (entries[s].issued \/ Rec(entries, s) \in Start(iss))
    BY <1>2, <1>3, <1>4
  <1>7. Rec(F, s) = [Rec(entries, s) EXCEPT !.started = F[s].issued]
    BY <1>3, <1>5 DEF Rec
  <1>8. Rec(entries, s).started = entries[s].issued
    BY DEF Rec
  <1> QED
    BY <1>6, <1>7, <1>8 DEF F

\* The commands left after the issues and completions of a cycle.
LEMMA LeftSettled ==
  ASSUME TypeOK, Ordered(entries, instructions_allocated),
         NEW iss, NEW done, Legitimate(entries, iss, done)
  PROVE  InFlight(Settled(entries, iss, done)) = Promise!Left(Start(iss), Gone(iss, done))
  <1> DEFINE F == Settled(entries, iss, done)
             mark(c) == [c EXCEPT !.started = @ \/ c \in Start(iss)]
  <1>1. \A s \in Slots : F[s].valid => Rec(F, s) = mark(Rec(entries, s))
    BY RecSettled
  <1>2. \A s \in Slots : F[s].valid <=>
          entries[s].valid /\ s \notin done /\ ~ (s \in iss /\ entries[s].complete_on_issue)
    BY SettledValid DEF TypeOK
  <1>3. \A s \in Slots : entries[s].valid =>
          (Rec(entries, s) \in Gone(iss, done)
             <=> s \in done \/ (s \in iss /\ entries[s].complete_on_issue))
    BY RecUnique DEF Gone, Legitimate, Valid
  <1>4. Promise!Left(Start(iss), Gone(iss, done))
          = {mark(c) : c \in InFlight(entries) \ Gone(iss, done)}
    BY DEF Promise!Left, InFlight, Rec, InFlightOf, Valid
  <1> HIDE DEF F, mark
  <1>5. InFlight(entries) \ Gone(iss, done) = {Rec(entries, s) : s \in {t \in Slots : F[t].valid}}
    BY <1>2, <1>3 DEF InFlight
  <1>6. InFlight(F) = {mark(Rec(entries, s)) : s \in {t \in Slots : F[t].valid}}
    BY <1>1 DEF InFlight
  <1>7. InFlight(F) = {mark(c) : c \in InFlight(entries) \ Gone(iss, done)}
    BY <1>5, <1>6
  <1> QED
    BY <1>4, <1>7 DEF F

\* What is issued may start in CommandOrder, what retires has started there:
\* an entry without dependency bits clashes with no older command.
LEMMA CycleAllowed ==
  ASSUME HazardInv, NEW iss, NEW done, Legitimate(entries, iss, done)
  PROVE  /\ Start(iss) \in SUBSET {c \in InFlight(entries) : Promise!MayStart(c)}
         /\ Gone(iss, done) \in SUBSET {c \in InFlight(entries) : c.started \/ c \in Start(iss)}
  <1>1. /\ TypeOK /\ entries \in [Slots -> Entry]
        /\ Ordered(entries, instructions_allocated) /\ Tracked(entries)
    BY DEF HazardInv, OrderInv, TypeOK
  <1>2. \A s \in iss : Rec(entries, s) \in InFlight(entries)
    BY DEF InFlight, Legitimate
  <1>3. \A s \in iss : Promise!MayStart(Rec(entries, s))
    <2> SUFFICES ASSUME NEW s \in iss PROVE Promise!MayStart(Rec(entries, s))
      OBVIOUS
    <2>1. s \in Slots /\ entries[s].valid /\ entries[s].deps = {} /\ ~ entries[s].issued
      BY DEF Legitimate
    <2>2. ASSUME NEW t \in Slots, entries[t].valid,
                 entries[t].allocated_at < entries[s].allocated_at
          PROVE  IF t[1] = s[1] THEN entries[t].issued /\ s[1] \notin {"st"}
                                ELSE ~ Promise!Clash(Rec(entries, t), Rec(entries, s))
      <3>1. Before(entries, t, s)
        BY <2>1, <2>2 DEF Before
      <3>2. CASE t[1] = s[1]
        BY <1>1, <2>1, <3>1, <3>2 DEF Ordered
      <3>3. CASE t[1] # s[1]
        <4>1. ~ Conflict(entries[t], entries[s])
          BY <1>1, <2>1, <3>1, <3>3 DEF Tracked
        <4>2. KeptReads(entries[s]) \subseteq entries[s].rd
          BY DEF KeptReads
        <4> QED
          BY <3>3, <4>1, <4>2 DEF Conflict, Promise!Clash, Rec
      <3> QED
        BY <3>2, <3>3
    <2>3. \A o \in InFlight(entries) : o.no < Rec(entries, s).no =>
            IF o.unit = Rec(entries, s).unit
            THEN o.started /\ Rec(entries, s).unit \notin {"st"}
            ELSE ~ Promise!Clash(o, Rec(entries, s))
      <3> SUFFICES ASSUME NEW t \in Slots, entries[t].valid,
                          entries[t].allocated_at < entries[s].allocated_at
                   PROVE  IF t[1] = s[1] THEN entries[t].issued /\ s[1] \notin {"st"}
                                ELSE ~ Promise!Clash(Rec(entries, t), Rec(entries, s))
        BY DEF InFlight, Rec
      <3> QED
        BY <2>2
    <2>4. ~ Rec(entries, s).started
      BY <2>1 DEF Rec
    <2> QED
      BY <2>3, <2>4 DEF Promise!MayStart, InFlight, InFlightOf, Rec, Valid
  <1>4. \A s \in done : Rec(entries, s) \in InFlight(entries) /\ Rec(entries, s).started
    BY DEF InFlight, Legitimate, Rec
  <1> QED
    BY <1>2, <1>3, <1>4 DEF Start, Gone

\* Accepting a command adds it to what the rest of the cycle leaves.
LEMMA AcceptedInFlight ==
  ASSUME TypeOK, NEW c \in Cmds, NEW junk, NEW slot \in Slots, IsAllocSlot(c, slot),
         NEW iss, NEW done, Legitimate(Accepted(c, slot, junk), iss, done),
         Legitimate(entries, iss, done)
  PROVE  LET F == Settled(Accepted(c, slot, junk), iss, done)
         IN  /\ InFlight(F) = InFlight(Settled(entries, iss, done)) \cup {Rec(F, slot)}
             /\ Rec(F, slot).no = instructions_allocated /\ ~ Rec(F, slot).started
  <1> DEFINE E == Accepted(c, slot, junk)
             F == Settled(E, iss, done)
             G == Settled(entries, iss, done)
             e == new_entry(c, junk)
  <1>1. e \in Entry /\ entries \in [Slots -> Entry]
    BY NewEntryType DEF TypeOK
  <1>2. E \in [Slots -> Entry] /\ E[slot] = e /\ \A s \in Slots \ {slot} : E[s] = entries[s]
    BY <1>1 DEF Accepted
  <1>3. ~ entries[slot].valid
    BY DEF IsAllocSlot, Valid
  <1>4. slot \notin iss /\ slot \notin done
    BY <1>3 DEF Legitimate
  <1>5. e.valid /\ ~ e.issued /\ e.allocated_at = instructions_allocated
    BY DEF new_entry
  <1>6. /\ F[slot].valid /\ ~ F[slot].issued
        /\ F[slot].allocated_at = instructions_allocated
    BY <1>2, <1>4, <1>5, SettledEntry
  <1>7. ~ G[slot].valid
    BY <1>1, <1>3, SettledValid
  <1>8. \A s \in Slots \ {slot} : F[s] = G[s]
    BY <1>2 DEF Settled
  <1> HIDE DEF E, F, G, e
  <1>9. InFlight(F) = InFlight(G) \cup {Rec(F, slot)}
    <2>1. \A s \in Slots \ {slot} : Rec(F, s) = Rec(G, s)
      BY <1>8 DEF Rec
    <2> QED
      BY <1>6, <1>7, <1>8, <2>1 DEF InFlight
  <1> QED
    BY <1>6, <1>9 DEF Rec, E, F, G

\* The mapping reads the entries as InFlight does.
LEMMA Mapped ==
  /\ Promise!order = <<InFlight(entries), instructions_allocated>>
  /\ Promise!order' = <<InFlight(entries'), instructions_allocated'>>
  BY DEF Promise!order, InFlight, Rec, InFlightOf, Valid, KeptReads

\* Every cycle of the station is a cycle of CommandOrder or none.
LEMMA CycleImplements == NoGaps /\ HazardInv /\ [Next]_vars => [Promise!OrderNext]_(Promise!order)
  <1> SUFFICES ASSUME NoGaps, HazardInv, [Next]_vars PROVE [Promise!OrderNext]_(Promise!order)
    OBVIOUS
  <1>1. TypeOK /\ Ordered(entries, instructions_allocated)
    BY DEF HazardInv, OrderInv
  <1>2. ASSUME UNCHANGED vars PROVE UNCHANGED Promise!order
    BY <1>2, Mapped DEF vars
  <1>3. ASSUME NEW iss \in IssueSets, NEW done \in DoneSets, Legitimate(entries, iss, done),
               Promise!Cycle(Start(iss), Gone(iss, done))
        PROVE  Promise!OrderNext
    <2>1. InFlight(entries) = {InFlightOf(s) : s \in {t \in Slots : Valid(t)}}
      BY DEF InFlight, Rec, InFlightOf, Valid
    <2> QED
      BY <1>3, <2>1, CycleAllowed DEF Promise!OrderNext
  <1>4. ASSUME NEW iss \in IssueSets, NEW done \in DoneSets, QuietCycle(iss, done)
        PROVE  Promise!OrderNext
    <2>1. Legitimate(entries, iss, done)
      BY QuietLegitimate
    <2>2. entries' = Settled(entries, iss, done) /\ instructions_allocated' = instructions_allocated
      BY <1>4 DEF QuietCycle, Settled
    <2>3. InFlight(entries') = Promise!Left(Start(iss), Gone(iss, done))
      BY <1>1, <2>1, <2>2, LeftSettled
    <2>4. Promise!Cycle(Start(iss), Gone(iss, done))
      BY <2>2, <2>3 DEF Promise!Cycle, InFlight, Rec, InFlightOf, Valid, KeptReads
    <2> QED
      BY <1>3, <2>1, <2>4
  <1>5. ASSUME NEW iss \in IssueSets, NEW done \in DoneSets, NEW c \in Cmds,
               NEW slot \in QSlots(Queue(c)), NEW junk, AllocCycle(c, slot, junk, iss, done)
        PROVE  Promise!OrderNext
    <2> DEFINE F == Settled(Accepted(c, slot, junk), iss, done)
    <2>1. /\ slot \in Slots /\ IsAllocSlot(c, slot)
          /\ Legitimate(Accepted(c, slot, junk), iss, done) /\ entries' = F
      BY <1>1, <1>5, AllocShape DEF TypeOK
    <2>2. Legitimate(entries, iss, done)
      BY QuietLegitimate
    <2>3. /\ InFlight(F) = InFlight(Settled(entries, iss, done)) \cup {Rec(F, slot)}
          /\ Rec(F, slot).no = instructions_allocated /\ ~ Rec(F, slot).started
      BY <1>1, <2>1, <2>2, AcceptedInFlight
    <2> HIDE DEF F
    <2>4. InFlight(entries') = Promise!Left(Start(iss), Gone(iss, done)) \cup {Rec(entries', slot)}
      BY <1>1, <2>1, <2>2, <2>3, LeftSettled
    <2>5. instructions_allocated' = instructions_allocated + 1
      BY <1>5 DEF AllocCycle
    <2>6. \E new \in InFlight(entries') :
            /\ new.no = instructions_allocated /\ ~ new.started
            /\ InFlight(entries') = Promise!Left(Start(iss), Gone(iss, done)) \cup {new}
      BY <2>1, <2>3, <2>4
    <2>7. InFlight(entries') = {InFlightOf(s) : s \in {t \in Slots : Valid(t)}}'
      BY DEF InFlight, Rec, InFlightOf, Valid, KeptReads
    <2>8. Promise!Cycle(Start(iss), Gone(iss, done))
      BY <2>5, <2>6, <2>7 DEF Promise!Cycle
    <2> QED
      BY <1>3, <2>2, <2>8
  <1> QED
    BY <1>2, <1>4, <1>5 DEF Next, Finished

\* The station implements CommandOrder, for every size of its queues and every
\* program that stays clear of its gaps.
THEOREM StationImplementsOrder == NoGaps => (Spec => StationKeepsOrder)
  <1> SUFFICES ASSUME NoGaps PROVE Spec => StationKeepsOrder
    OBVIOUS
  <1>1. Init => HazardInv
    BY HazardInvInit
  <1>2. HazardInv /\ [Next]_vars => HazardInv'
    BY HazardInvStep
  <1>3. Init => Promise!OrderInit
    <2>1. Init => \A s \in Slots : ~ Valid(s)
      BY DEF Init, Free, Valid
    <2> QED
      BY <2>1 DEF Init, Promise!OrderInit
  <1>4. HazardInv /\ [Next]_vars => [Promise!OrderNext]_(Promise!order)
    BY CycleImplements
  <1> QED
    BY <1>1, <1>2, <1>3, <1>4, PTL DEF Spec, StationKeepsOrder, Promise!OrderSpec
===============================================================================
