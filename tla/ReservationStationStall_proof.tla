-------------------- MODULE ReservationStationStall_proof --------------------
(***************************************************************************)
(* Freedom from stalls: when every compute directly follows its preload,   *)
(* something in a non-empty station can always move.                       *)
(***************************************************************************)
EXTENDS ReservationStation_proof, WellFoundedInduction

\* A non-empty set of naturals has a least element.
LEMMA LeastNat ==
  ASSUME NEW T, T \subseteq Nat, T # {}
  PROVE  \E x \in T : \A y \in T : x <= y
  <1>1. PICK x \in T : \A y \in T : ~ (<<y, x>> \in OpToRel(<, Nat))
    BY NatLessThanWellFounded, WFMin
  <1>2. \A y \in T : ~ (y < x)
    BY <1>1 DEF OpToRel
  <1> QED
    BY <1>2

\* A new command keeps preloads and computes paired, if nothing may come
\* between them (solitary_preload and the command mix LegalNext allows).
LEMMA AcceptPaired ==
  ASSUME ~ Interleave, TypeOK, Ordered(entries, instructions_allocated),
         Paired(entries, instructions_allocated, solitary_preload),
         NEW c \in Cmds, NEW junk, NEW slot \in Slots, IsAllocSlot(c, slot), LegalNext(c)
  PROVE  Paired(Accepted(c, slot, junk), instructions_allocated + 1,
                c.funct = "PRELOAD" \/ (c.funct # "COMPUTE" /\ solitary_preload))
  <1> DEFINE E == Accepted(c, slot, junk)
             e == new_entry(c, junk)
             n == instructions_allocated
             pre == c.funct = "PRELOAD" \/ (c.funct # "COMPUTE" /\ solitary_preload)
  <1>1. entries \in [Slots -> Entry] /\ n \in Nat
    BY DEF TypeOK
  <1>2. E[slot] = e /\ \A s \in Slots \ {slot} : E[s] = entries[s]
    BY <1>1 DEF Accepted
  <1>3. slot[1] = Queue(c) /\ ~ entries[slot].valid /\ slot \in QSlots(Queue(c))
    BY SlotFact, QueueType DEF IsAllocSlot, Valid
  <1>4. /\ e.valid /\ ~ e.issued /\ e.funct = c.funct /\ e.allocated_at = n
        /\ e.deps = deps(c, junk)
        /\ Queue(c) = "ex" => ~ e.complete_on_issue
    BY DEF new_entry
  <1>5. QSlots("ex") \subseteq Slots /\ \A s \in QSlots("ex") : s[1] = "ex"
    BY SlotFact DEF Queues
  <1>6. c.funct \in {"PRELOAD", "COMPUTE"} => Queue(c) = "ex"
    BY DEF Queue, is_ex, is_store, Execs, Stores
  <1>7. Queue(c) = "ex" => \A t \in deps(c, junk) : t[1] = "ex" => ~ entries[t].issued
    BY SlotFact DEF deps, deps_for_ex, UnissuedIn, Queues
  <1>8. solitary_preload => c.funct = "COMPUTE"
    BY DEF LegalNext
  <1>9. \A s \in Slots : entries[s].valid =>
          slot \notin entries[s].deps /\ entries[s].deps \subseteq Slots
    BY <1>1, <1>3 DEF Ordered, Before, Entry
  <1>10. slot \notin e.deps /\ e.deps \subseteq Slots
    BY <1>3, <1>4, DepsType DEF Valid
  <1> HIDE DEF E, e
  <1>11. \A s \in Slots : E[s].valid /\ E[s].funct = "PRELOAD" => s[1] = "ex"
    BY <1>2, <1>3, <1>4, <1>6 DEF Paired
  <1>12. ASSUME NEW s \in QSlots("ex"), E[s].valid
         PROVE  /\ ~ E[s].complete_on_issue
                /\ \A t \in E[s].deps : t[1] = "ex" => ~ E[t].issued
    <2>1. CASE s = slot
      BY <1>2, <1>3, <1>4, <1>5, <1>7, <1>10, <2>1
    <2>2. CASE s # slot
      <3>1. E[s] = entries[s] /\ s \in Slots
        BY <1>2, <1>5, <2>2
      <3>2. /\ ~ entries[s].complete_on_issue
            /\ \A t \in entries[s].deps : t[1] = "ex" => ~ entries[t].issued
        BY <1>12, <3>1 DEF Paired
      <3> QED
        BY <1>2, <1>9, <1>12, <3>1, <3>2
    <2> QED
      BY <2>1, <2>2
  <1>13. ASSUME NEW s \in QSlots("ex"), E[s].valid, E[s].funct = "PRELOAD", ~ E[s].followed
         PROVE  \/ pre /\ E[s].allocated_at + 1 = n + 1
                \/ \E t \in QSlots("ex") :
                     E[t].valid /\ ~ E[t].issued /\ E[t].allocated_at = E[s].allocated_at + 1
    <2>1. CASE s = slot
      BY <1>2, <1>4, <1>13, <2>1
    <2>2. CASE s # slot
      <3>1. E[s] = entries[s] /\ s \in Slots
        BY <1>2, <1>5, <2>2
      <3>2. \/ solitary_preload /\ entries[s].allocated_at + 1 = n
            \/ \E t \in QSlots("ex") : /\ entries[t].valid /\ ~ entries[t].issued
                                       /\ entries[t].allocated_at = entries[s].allocated_at + 1
        BY <1>13, <3>1 DEF Paired
      <3>3. CASE solitary_preload /\ entries[s].allocated_at + 1 = n
        BY <1>2, <1>3, <1>4, <1>6, <1>8, <3>1, <3>3
      <3>4. CASE \E t \in QSlots("ex") : /\ entries[t].valid /\ ~ entries[t].issued
                                         /\ entries[t].allocated_at = entries[s].allocated_at + 1
        BY <1>2, <1>3, <1>5, <3>1, <3>4
      <3> QED
        BY <3>2, <3>3, <3>4
    <2> QED
      BY <2>1, <2>2
  <1> QED
    BY <1>11, <1>12, <1>13 DEF Paired, E

\* Issues and completions keep preloads and computes paired: when the command
\* after a preload issues, the preload has issued before it and is followed.
LEMMA SettlePaired ==
  ASSUME NEW E \in [Slots -> Entry], NEW n \in Nat, NEW pre, Ordered(E, n), Paired(E, n, pre),
         NEW iss, NEW done, Legitimate(E, iss, done)
  PROVE  Paired(Settled(E, iss, done), n, pre)
  <1> DEFINE F == Settled(E, iss, done)
  <1>1. \A s \in Slots : F[s].valid =>
          /\ E[s].valid /\ s \notin done /\ ~ (s \in iss /\ E[s].complete_on_issue)
          /\ F[s].deps = E[s].deps \ Cleared(s, iss, done)
          /\ F[s].issued <=> (E[s].issued \/ s \in iss)
          /\ F[s].allocated_at = E[s].allocated_at
    BY SettledValid, SettledFacts
  <1>2. \A s \in Slots : F[s].valid =>
          /\ F[s].funct = E[s].funct
          /\ F[s].followed <=>
               (E[s].followed \/ (s[1] = "ex" /\ E[s].issued /\ \E t \in iss : t[1] = "ex"))
    BY SettledKept, SettledFollowed
  <1>3. \A s \in Slots : E[s].valid /\ s \notin done /\ ~ (s \in iss /\ E[s].complete_on_issue)
                         => F[s].valid
    BY SettledValid
  <1>4. \A s \in Slots : F[s].valid => F[s].complete_on_issue = E[s].complete_on_issue
    <2> SUFFICES ASSUME NEW s \in Slots, F[s].valid
                 PROVE  F[s].complete_on_issue = E[s].complete_on_issue
      OBVIOUS
    <2>1. E[s] \in Entry
      OBVIOUS
    <2>2. s \notin done /\ ~ (s \in iss /\ E[s].complete_on_issue)
      BY <1>1
    <2> QED
      BY <2>1, <2>2 DEF Settled, Updated, Entry
  <1>5. QSlots("ex") \subseteq Slots /\ \A s \in QSlots("ex") : s[1] = "ex"
    BY SlotFact DEF Queues
  <1> HIDE DEF F
  <1>6. \A s \in Slots : F[s].valid /\ F[s].funct = "PRELOAD" => s[1] = "ex"
    BY <1>1, <1>2 DEF Paired
  <1>7. ASSUME NEW s \in QSlots("ex"), F[s].valid
        PROVE  ~ F[s].complete_on_issue
    BY <1>1, <1>4, <1>5, <1>7 DEF Paired
  <1>8. ASSUME NEW s \in QSlots("ex"), F[s].valid, NEW t \in F[s].deps, t[1] = "ex"
        PROVE  ~ F[t].issued
    <2>1. s \in Slots /\ E[s].valid /\ t \in E[s].deps /\ t \notin Cleared(s, iss, done) /\ s[1] = "ex"
      BY <1>1, <1>5, <1>8
    <2>2. t \in Slots /\ E[t].valid /\ ~ E[t].issued
      BY <1>8, <2>1 DEF Paired, Ordered, Before, Entry
    <2>3. t \notin iss /\ t \notin done
      BY <1>8, <2>1 DEF Cleared
    <2>4. F[t].valid
      BY <1>3, <2>2, <2>3
    <2> QED
      BY <1>1, <2>2, <2>3, <2>4
  <1>9. ASSUME NEW s \in QSlots("ex"), F[s].valid, F[s].funct = "PRELOAD", ~ F[s].followed
        PROVE  \/ pre /\ F[s].allocated_at + 1 = n
               \/ \E t \in QSlots("ex") :
                    F[t].valid /\ ~ F[t].issued /\ F[t].allocated_at = F[s].allocated_at + 1
    <2>1. /\ s \in Slots /\ s[1] = "ex" /\ E[s].valid /\ E[s].funct = "PRELOAD"
          /\ ~ E[s].followed /\ ~ (E[s].issued /\ \E t \in iss : t[1] = "ex")
          /\ F[s].allocated_at = E[s].allocated_at
      BY <1>1, <1>2, <1>5, <1>9
    <2>2. \/ pre /\ E[s].allocated_at + 1 = n
          \/ \E t \in QSlots("ex") :
               E[t].valid /\ ~ E[t].issued /\ E[t].allocated_at = E[s].allocated_at + 1
      BY <2>1 DEF Paired
    <2>3. ASSUME NEW t \in QSlots("ex"), E[t].valid, ~ E[t].issued,
                 E[t].allocated_at = E[s].allocated_at + 1
          PROVE  F[t].valid /\ ~ F[t].issued /\ F[t].allocated_at = F[s].allocated_at + 1
      <3>1. t \in Slots /\ t[1] = "ex" /\ ~ E[t].complete_on_issue
        BY <1>5, <2>3 DEF Paired
      <3>2. t \notin done
        BY <2>3 DEF Legitimate
      <3>3. F[t].valid
        BY <1>3, <2>3, <3>1, <3>2
      <3>4. t \notin iss
        <4> SUFFICES ASSUME t \in iss PROVE FALSE
          OBVIOUS
        <4>1. ~ E[s].issued /\ E[t].deps = {}
          BY <2>1, <3>1 DEF Legitimate
        <4>2. E[s].allocated_at < E[t].allocated_at
          <5>1. E[s].allocated_at \in Nat
            BY <2>1 DEF Entry
          <5> QED
            BY <2>3, <5>1
        <4>3. s \in E[t].deps
          BY <2>1, <2>3, <3>1, <4>1, <4>2 DEF Ordered, Before
        <4> QED
          BY <4>1, <4>3
      <3> QED
        BY <1>1, <2>1, <2>3, <3>1, <3>3, <3>4
    <2> QED
      BY <2>1, <2>2, <2>3
  <1> QED
    BY <1>6, <1>7, <1>8, <1>9 DEF Paired, F

\* StallInv is kept by every cycle.
LEMMA StallInvStep == ~ Interleave /\ StallInv /\ [Next]_vars => StallInv'
  <1> SUFFICES ASSUME ~ Interleave, StallInv, [Next]_vars PROVE StallInv'
    OBVIOUS
  <1>1. /\ OrderInv /\ TypeOK /\ entries \in [Slots -> Entry] /\ instructions_allocated \in Nat
        /\ Ordered(entries, instructions_allocated)
        /\ Paired(entries, instructions_allocated, solitary_preload)
    BY DEF StallInv, OrderInv, TypeOK
  <1>2. OrderInv'
    BY <1>1, OrderInvStep
  <1> DEFINE P == Paired(entries', instructions_allocated', solitary_preload')
  <1>3. ASSUME UNCHANGED vars PROVE P
    BY <1>1, <1>3 DEF vars
  <1>4. ASSUME NEW iss \in IssueSets, NEW done \in DoneSets, QuietCycle(iss, done)
        PROVE  P
    <2>1. /\ entries' = Settled(entries, iss, done) /\ solitary_preload' = solitary_preload
          /\ instructions_allocated' = instructions_allocated
      BY <1>4 DEF QuietCycle, Settled
    <2>2. Legitimate(entries, iss, done)
      BY QuietLegitimate
    <2> QED
      BY <1>1, <2>1, <2>2, SettlePaired
  <1>5. ASSUME NEW iss \in IssueSets, NEW done \in DoneSets, NEW c \in Cmds,
               NEW slot \in QSlots(Queue(c)), NEW junk, AllocCycle(c, slot, junk, iss, done)
        PROVE  P
    <2> DEFINE E == Accepted(c, slot, junk)
               pre == c.funct = "PRELOAD" \/ (c.funct # "COMPUTE" /\ solitary_preload)
    <2>1. /\ slot \in Slots /\ IsAllocSlot(c, slot) /\ LegalNext(c)
          /\ Legitimate(E, iss, done) /\ entries' = Settled(E, iss, done)
      BY <1>1, <1>5, AllocShape
    <2>2. /\ instructions_allocated' = instructions_allocated + 1
          /\ solitary_preload' = CASE c.funct = "PRELOAD" -> TRUE
                                   [] c.funct = "COMPUTE" -> FALSE
                                   [] OTHER -> solitary_preload
      BY <1>5 DEF AllocCycle
    <2>3. solitary_preload \in BOOLEAN /\ solitary_preload' = pre
      BY <1>1, <2>2 DEF TypeOK
    <2>4. E \in [Slots -> Entry] /\ Ordered(E, instructions_allocated + 1)
      BY <1>1, <2>1, AcceptOrdered
    <2>5. Paired(E, instructions_allocated + 1, pre)
      BY <1>1, <2>1, AcceptPaired
    <2>6. instructions_allocated + 1 \in Nat
      BY <1>1
    <2> HIDE DEF E, pre
    <2>7. Paired(Settled(E, iss, done), instructions_allocated + 1, pre)
      BY <2>1, <2>4, <2>5, <2>6, SettlePaired
    <2> QED
      BY <2>1, <2>2, <2>3, <2>7
  <1>6. P
    BY <1>3, <1>4, <1>5 DEF Next, Finished
  <1> QED
    BY <1>2, <1>6 DEF StallInv

\* In a non-empty station some command can issue or complete, unless the
\* program still owes the compute of a preload: the "pipeline stall" assertion
\* cannot fire because of the station itself.
THEOREM PipelineMovesHolds == ~ Interleave => (Spec => []PipelineMoves)
  <1> SUFFICES ASSUME ~ Interleave PROVE Spec => []PipelineMoves
    OBVIOUS
  <1>1. Init => StallInv
    <2> SUFFICES ASSUME Init PROVE StallInv
      OBVIOUS
    <2>1. \A s \in Slots : ~ entries[s].valid
      BY DEF Init, Free
    <2>2. QSlots("ex") \subseteq Slots
      BY SlotFact DEF Queues
    <2>3. Paired(entries, instructions_allocated, solitary_preload)
      BY <2>1, <2>2 DEF Paired
    <2> QED
      BY <2>3, OrderInvInit DEF StallInv
  <1>2. StallInv /\ [Next]_vars => StallInv'
    BY StallInvStep
  <1>3. StallInv => PipelineMoves
    <2> SUFFICES ASSUME StallInv, \E s \in Slots : Valid(s), ~ solitary_preload
                 PROVE  \E s \in Slots : Issuable(s) \/ Completable(s)
      BY DEF PipelineMoves
    <2> DEFINE at(s) == entries[s].allocated_at
               T == {at(s) : s \in {r \in Slots : Valid(r)}}
    <2>1. /\ entries \in [Slots -> Entry] /\ Ordered(entries, instructions_allocated)
          /\ Paired(entries, instructions_allocated, solitary_preload)
      BY DEF StallInv, OrderInv, TypeOK
    <2>2. \A s \in Slots : at(s) \in Nat /\ entries[s].deps \subseteq Slots
      BY <2>1 DEF Entry
    <2>3. T \subseteq Nat /\ T # {}
      BY <2>2
    <2>4. PICK x \in T : \A y \in T : x <= y
      BY <2>3, LeastNat
    <2>5. PICK s \in Slots : Valid(s) /\ at(s) = x
      BY <2>4
    <2>6. \A t \in Slots : Valid(t) => at(s) <= at(t)
      BY <2>4, <2>5
    <2>7. entries[s].deps = {}
      BY <2>1, <2>2, <2>5, <2>6 DEF Ordered, Before, Valid
    <2>8. CASE ~ entries[s].issued
      BY <2>5, <2>7, <2>8 DEF Issuable
    <2>9. CASE entries[s].issued /\ (entries[s].funct = "PRELOAD" => entries[s].followed)
      BY <2>5, <2>9 DEF Completable
    <2>10. CASE entries[s].issued /\ entries[s].funct = "PRELOAD" /\ ~ entries[s].followed
      <3>1. s[1] = "ex" /\ s \in QSlots("ex")
        BY <2>1, <2>5, <2>10, SlotFact DEF Paired, Valid
      <3>2. PICK t \in QSlots("ex") :
               entries[t].valid /\ ~ entries[t].issued /\ at(t) = at(s) + 1
        BY <2>1, <2>5, <2>10, <3>1 DEF Paired, Valid
      <3>3. t \in Slots
        BY SlotFact DEF Queues
      <3>4. ASSUME NEW d \in entries[t].deps PROVE FALSE
        <4>1. d \in Slots /\ Valid(d) /\ at(d) < at(t)
          BY <2>1, <2>2, <3>2, <3>3 DEF Ordered, Before, Valid
        <4>2. at(d) = at(s)
          BY <2>2, <2>5, <2>6, <3>2, <4>1
        <4>3. d = s
          BY <2>1, <2>5, <4>1, <4>2 DEF Ordered, Valid
        <4> QED
          BY <2>1, <2>10, <3>1, <3>2, <4>3 DEF Paired
      <3> QED
        BY <3>2, <3>3, <3>4 DEF Issuable, Valid
    <2> QED
      BY <2>8, <2>9, <2>10
  <1> QED
    BY <1>1, <1>2, <1>3, PTL DEF Spec
=============================================================================
