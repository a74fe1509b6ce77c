----------------------- MODULE ReservationStation_proof -----------------------
(***************************************************************************)
(* Proofs of the reservation station's safety properties.  A cycle is      *)
(* followed in two halves: the accepted command enters its slot, then the  *)
(* issues and the completion are applied to all entries.                   *)
(***************************************************************************)
EXTENDS ReservationStationOperands_proof, FiniteSetTheorems

\* What the two halves start from: the entries with command c put in `slot'.
Accepted(c, slot, junk) == [entries EXCEPT ![slot] = new_entry(c, junk)]

\* The entries after the issues and the completion of a cycle.
Settled(E, iss, done) == [s \in Slots |-> Updated(E[s], s, iss, done)]

\* What issues and completes was in the station before the cycle.
Legitimate(E, iss, done) ==
  /\ iss \in SUBSET Slots /\ done \in SUBSET Slots
  /\ \A s \in iss : E[s] = entries[s] /\ E[s].valid /\ E[s].deps = {} /\ ~ E[s].issued
  /\ \A s \in done : E[s].valid /\ E[s].issued
                     /\ (E[s].funct = "PRELOAD" => E[s].followed)

\* A new command is put in a free slot (entries_ld/ex/st at the alloc id): the
\* entries stay numbered in program order and wait for older commands.
LEMMA AcceptOrdered ==
  ASSUME TypeOK, Ordered(entries, instructions_allocated),
         NEW c \in Cmds, NEW junk, NEW slot \in Slots, IsAllocSlot(c, slot)
  PROVE  /\ Accepted(c, slot, junk) \in [Slots -> Entry]
         /\ Ordered(Accepted(c, slot, junk), instructions_allocated + 1)
  <1> DEFINE E == Accepted(c, slot, junk)
             e == new_entry(c, junk)
             n == instructions_allocated
  <1>1. e \in Entry /\ entries \in [Slots -> Entry] /\ n \in Nat
    BY NewEntryType DEF TypeOK
  <1>2. E \in [Slots -> Entry] /\ E[slot] = e /\ \A s \in Slots \ {slot} : E[s] = entries[s]
    BY <1>1 DEF Accepted
  <1>3. e.valid /\ ~ e.issued /\ e.allocated_at = n /\ e.deps = deps(c, junk)
    BY DEF new_entry
  <1>4. ~ entries[slot].valid /\ slot[1] = Queue(c)
    BY SlotFact, QueueType DEF IsAllocSlot, Valid
  <1>5. \A s \in Slots : entries[s].allocated_at \in Nat
    BY <1>1 DEF Entry
  <1>6. \A t \in e.deps : t \in Slots /\ entries[t].valid /\ t # slot
    BY <1>3, <1>4, DepsType DEF Valid
  <1>7. \A t \in Slots : /\ entries[t].valid /\ t[1] = slot[1]
                         /\ ~ entries[t].issued \/ t[1] = "st"
                         => t \in e.deps
    <2> SUFFICES ASSUME NEW t \in Slots, entries[t].valid, t[1] = Queue(c),
                        ~ entries[t].issued \/ t[1] = "st"
                 PROVE  t \in deps(c, junk)
      BY <1>3, <1>4
    <2>1. t \in QSlots(Queue(c))
      BY SlotFact
    <2>2. CASE Queue(c) = "st"
      BY <2>1, <2>2 DEF deps, deps_for_st, Valid
    <2>3. CASE Queue(c) = "ld"
      BY <2>1, <2>3 DEF deps, deps_for_ld, Valid, UnissuedIn
    <2>4. CASE Queue(c) = "ex"
      BY <2>1, <2>4 DEF deps, deps_for_ex, Valid, UnissuedIn
    <2> QED
      BY <2>2, <2>3, <2>4, QueueType DEF Queues
  <1>8. \A s \in Slots : entries[s].valid => slot \notin entries[s].deps
    BY <1>4 DEF Ordered, Before
  <1> HIDE DEF E, e
  <1>9. \A s \in Slots : E[s].valid => E[s].allocated_at < n + 1
    BY <1>1, <1>2, <1>3, <1>5 DEF Ordered
  <1>10. \A s, t \in Slots :
       E[s].valid /\ E[t].valid /\ E[s].allocated_at = E[t].allocated_at => s = t
    BY <1>1, <1>2, <1>3, <1>5 DEF Ordered
  <1>11. \A s \in Slots : E[s].valid => \A t \in E[s].deps : Before(E, t, s)
    <2> SUFFICES ASSUME NEW s \in Slots, E[s].valid, NEW t \in E[s].deps
                 PROVE  Before(E, t, s)
      OBVIOUS
    <2>1. CASE s = slot
      BY <1>2, <1>3, <1>6, <2>1 DEF Ordered, Before
    <2>2. CASE s # slot
      <3>1. E[s] = entries[s]
        BY <1>2, <2>2
      <3>2. Before(entries, t, s) /\ t \in Slots
        BY <1>1, <3>1 DEF Ordered, Entry
      <3>3. t # slot
        BY <1>8, <3>1
      <3> QED
        BY <1>2, <3>1, <3>2, <3>3 DEF Before
    <2> QED
      BY <2>1, <2>2
  <1>12. \A s \in Slots : E[s].valid /\ E[s].issued => E[s].deps = {}
    BY <1>2, <1>3 DEF Ordered
  <1>13. \A s, t \in Slots :
       Before(E, t, s) /\ t[1] = s[1] /\ (~ E[t].issued \/ t[1] = "st") => t \in E[s].deps
    <2> SUFFICES ASSUME NEW s \in Slots, NEW t \in Slots, Before(E, t, s), t[1] = s[1],
                        ~ E[t].issued \/ t[1] = "st"
                 PROVE  t \in E[s].deps
      OBVIOUS
    <2>1. t # slot
      BY <1>1, <1>2, <1>3, <1>5 DEF Before, Ordered
    <2>2. E[t] = entries[t]
      BY <1>2, <2>1
    <2>3. CASE s = slot
      BY <1>2, <1>7, <2>2, <2>3 DEF Before
    <2>4. CASE s # slot
      BY <1>2, <2>2, <2>4 DEF Before, Ordered
    <2> QED
      BY <2>3, <2>4
  <1> QED
    BY <1>2, <1>9, <1>10, <1>11, <1>12, <1>13 DEF Ordered, E

\* An entry that is still valid after a cycle was valid before it, did not
\* retire, and lost only the dependencies that were cleared (the issue and
\* completion halves of the station).
LEMMA SettledEntry ==
  ASSUME NEW E \in [Slots -> Entry], NEW iss, NEW done, NEW s \in Slots,
         s \notin done /\ ~ (s \in iss /\ E[s].complete_on_issue)
  PROVE  /\ Settled(E, iss, done)[s].valid <=> E[s].valid
         /\ Settled(E, iss, done)[s].issued <=> (E[s].issued \/ s \in iss)
         /\ Settled(E, iss, done)[s].deps = E[s].deps \ Cleared(s, iss, done)
         /\ Settled(E, iss, done)[s].followed <=>
              (E[s].followed \/ (s[1] = "ex" /\ E[s].issued /\ \E t \in iss : t[1] = "ex"))
         /\ Settled(E, iss, done)[s].allocated_at = E[s].allocated_at
         /\ Settled(E, iss, done)[s].funct = E[s].funct
         /\ Settled(E, iss, done)[s].rd = E[s].rd /\ Settled(E, iss, done)[s].wr = E[s].wr
         /\ Settled(E, iss, done)[s].opa = E[s].opa /\ Settled(E, iss, done)[s].opb = E[s].opb
         /\ Settled(E, iss, done)[s].opa_is_dst = E[s].opa_is_dst
  <1> DEFINE i == E[s].issued \/ s \in iss
             d == E[s].deps \ Cleared(s, iss, done)
             f == E[s].followed \/ (s[1] = "ex" /\ E[s].issued /\ \E t \in iss : t[1] = "ex")
             u == Settled(E, iss, done)[s]
  <1>1. u = [E[s] EXCEPT !.issued = i, !.deps = d, !.followed = f]
    BY DEF Settled, Updated
  <1>2. E[s] \in Entry
    OBVIOUS
  <1> HIDE DEF i, d, f, u
  <1>3. /\ u.valid = E[s].valid /\ u.issued = i /\ u.deps = d /\ u.followed = f
        /\ u.allocated_at = E[s].allocated_at /\ u.funct = E[s].funct
        /\ u.rd = E[s].rd /\ u.wr = E[s].wr
        /\ u.opa = E[s].opa /\ u.opb = E[s].opb /\ u.opa_is_dst = E[s].opa_is_dst
    BY <1>1, <1>2 DEF Entry
  <1> QED
    BY <1>3 DEF i, d, f, u

\* The entries after a cycle are entries.
LEMMA SettledType ==
  ASSUME NEW E \in [Slots -> Entry], NEW iss, NEW done
  PROVE  Settled(E, iss, done) \in [Slots -> Entry]
  <1>1. \A s \in Slots : E[s] \in Entry
    OBVIOUS
  <1> QED
    BY <1>1, UpdatedType DEF Settled

\* An entry is valid after a cycle if it was before and did not retire in it.
LEMMA SettledValid ==
  ASSUME NEW E \in [Slots -> Entry], NEW iss, NEW done
  PROVE  \A s \in Slots : Settled(E, iss, done)[s].valid <=>
           E[s].valid /\ s \notin done /\ ~ (s \in iss /\ E[s].complete_on_issue)
  <1> SUFFICES ASSUME NEW s \in Slots
               PROVE  Settled(E, iss, done)[s].valid <=>
                        E[s].valid /\ s \notin done /\ ~ (s \in iss /\ E[s].complete_on_issue)
    OBVIOUS
  <1>1. CASE s \in done \/ (s \in iss /\ E[s].complete_on_issue)
    <2>1. Settled(E, iss, done)[s] = Free
      BY <1>1 DEF Settled, Updated
    <2> QED
      BY <1>1, <2>1 DEF Free
  <1>2. CASE s \notin done /\ ~ (s \in iss /\ E[s].complete_on_issue)
    <2>1. Settled(E, iss, done)[s].valid <=> E[s].valid
      BY <1>2, SettledEntry
    <2> QED
      BY <1>2, <2>1
  <1> QED
    BY <1>1, <1>2

\* What a cycle changes in the entries that stay valid.
LEMMA SettledFacts ==
  ASSUME NEW E \in [Slots -> Entry], NEW iss, NEW done
  PROVE  \A s \in Slots : Settled(E, iss, done)[s].valid =>
           /\ Settled(E, iss, done)[s].issued <=> (E[s].issued \/ s \in iss)
           /\ Settled(E, iss, done)[s].deps = E[s].deps \ Cleared(s, iss, done)
           /\ Settled(E, iss, done)[s].allocated_at = E[s].allocated_at
  <1> SUFFICES ASSUME NEW s \in Slots, Settled(E, iss, done)[s].valid
               PROVE  /\ Settled(E, iss, done)[s].issued <=> (E[s].issued \/ s \in iss)
                      /\ Settled(E, iss, done)[s].deps = E[s].deps \ Cleared(s, iss, done)
                      /\ Settled(E, iss, done)[s].allocated_at = E[s].allocated_at
    OBVIOUS
  <1>1. s \notin done /\ ~ (s \in iss /\ E[s].complete_on_issue)
    BY SettledValid
  <1> QED
    BY <1>1, SettledEntry

\* What a cycle leaves alone in the entries that stay valid.
LEMMA SettledKept ==
  ASSUME NEW E \in [Slots -> Entry], NEW iss, NEW done
  PROVE  \A s \in Slots : Settled(E, iss, done)[s].valid =>
           /\ Settled(E, iss, done)[s].funct = E[s].funct
           /\ Settled(E, iss, done)[s].rd = E[s].rd /\ Settled(E, iss, done)[s].wr = E[s].wr
           /\ Settled(E, iss, done)[s].opa = E[s].opa /\ Settled(E, iss, done)[s].opb = E[s].opb
           /\ Settled(E, iss, done)[s].opa_is_dst = E[s].opa_is_dst
  <1> SUFFICES ASSUME NEW s \in Slots, Settled(E, iss, done)[s].valid
               PROVE  /\ Settled(E, iss, done)[s].funct = E[s].funct
                      /\ Settled(E, iss, done)[s].rd = E[s].rd
                      /\ Settled(E, iss, done)[s].wr = E[s].wr
                      /\ Settled(E, iss, done)[s].opa = E[s].opa
                      /\ Settled(E, iss, done)[s].opb = E[s].opb
                      /\ Settled(E, iss, done)[s].opa_is_dst = E[s].opa_is_dst
    OBVIOUS
  <1>1. s \notin done /\ ~ (s \in iss /\ E[s].complete_on_issue)
    BY SettledValid
  <1> QED
    BY <1>1, SettledEntry

\* A preload counts as followed once an execute command issues after it.
LEMMA SettledFollowed ==
  ASSUME NEW E \in [Slots -> Entry], NEW iss, NEW done
  PROVE  \A s \in Slots : Settled(E, iss, done)[s].valid =>
           (Settled(E, iss, done)[s].followed <=>
            E[s].followed \/ (s[1] = "ex" /\ E[s].issued /\ \E t \in iss : t[1] = "ex"))
  <1> SUFFICES ASSUME NEW s \in Slots, Settled(E, iss, done)[s].valid
               PROVE  Settled(E, iss, done)[s].followed <=>
                      E[s].followed \/ (s[1] = "ex" /\ E[s].issued /\ \E t \in iss : t[1] = "ex")
    OBVIOUS
  <1>1. s \notin done /\ ~ (s \in iss /\ E[s].complete_on_issue)
    BY SettledValid
  <1> QED
    BY <1>1, SettledEntry

\* A dependency on an entry that has not retired survives the cycle, unless it
\* is one on a load or execute command of the same queue that issued.
LEMMA KeptDependency ==
  ASSUME NEW E \in [Slots -> Entry], NEW iss, NEW done, Legitimate(E, iss, done),
         NEW s \in Slots, NEW t \in Slots,
         Settled(E, iss, done)[s].valid, Settled(E, iss, done)[t].valid,
         t \in E[s].deps, t[1] # s[1] \/ t[1] = "st" \/ t \notin iss
  PROVE  t \in Settled(E, iss, done)[s].deps
  <1>2. t \notin done /\ ~ (t \in iss /\ E[t].complete_on_issue)
    BY SettledValid
  <1>3. t \notin Cleared(s, iss, done)
    BY <1>2 DEF Cleared, Legitimate
  <1> QED
    BY <1>3, SettledFacts

\* Issues and completions keep the entries in order.
LEMMA SettleOrdered ==
  ASSUME NEW E \in [Slots -> Entry], NEW n \in Nat, Ordered(E, n),
         NEW iss, NEW done, Legitimate(E, iss, done)
  PROVE  Ordered(Settled(E, iss, done), n)
  <1> DEFINE F == Settled(E, iss, done)
  <1>1. \A s \in Slots : F[s].valid =>
          /\ E[s].valid /\ s \notin done /\ ~ (s \in iss /\ E[s].complete_on_issue)
          /\ F[s].issued <=> (E[s].issued \/ s \in iss)
          /\ F[s].deps = E[s].deps \ Cleared(s, iss, done)
          /\ F[s].allocated_at = E[s].allocated_at
    BY SettledValid, SettledFacts
  <1>2. \A s \in Slots : E[s].valid /\ s \notin done /\ ~ (s \in iss /\ E[s].complete_on_issue)
                         => F[s].valid
    BY SettledValid
  <1>3. \A s, t \in Slots : /\ F[s].valid /\ F[t].valid /\ t \in E[s].deps
                            /\ t[1] # s[1] \/ t[1] = "st" \/ t \notin iss
                            => t \in F[s].deps
    BY KeptDependency
  <1> HIDE DEF F
  <1>4. \A s \in Slots : F[s].valid => F[s].allocated_at < n
    BY <1>1 DEF Ordered
  <1>5. \A s, t \in Slots :
          F[s].valid /\ F[t].valid /\ F[s].allocated_at = F[t].allocated_at => s = t
    BY <1>1 DEF Ordered
  <1>6. \A s \in Slots : F[s].valid => \A t \in F[s].deps : Before(F, t, s)
    <2> SUFFICES ASSUME NEW s \in Slots, F[s].valid, NEW t \in F[s].deps
                 PROVE  Before(F, t, s)
      OBVIOUS
    <2>1. t \in E[s].deps /\ t \notin Cleared(s, iss, done) /\ E[s].valid
      BY <1>1
    <2>2. Before(E, t, s) /\ t \in Slots
      BY <2>1 DEF Ordered, Entry
    <2>3. t \notin done /\ ~ (t \in iss /\ E[t].complete_on_issue)
      BY <2>1 DEF Cleared, Legitimate
    <2>4. F[t].valid
      BY <1>2, <2>2, <2>3 DEF Before
    <2> QED
      BY <1>1, <2>2, <2>4 DEF Before
  <1>7. \A s \in Slots : F[s].valid /\ F[s].issued => F[s].deps = {}
    <2> SUFFICES ASSUME NEW s \in Slots, F[s].valid, F[s].issued
                 PROVE  F[s].deps = {}
      OBVIOUS
    <2>1. E[s].valid /\ (E[s].issued \/ s \in iss)
      BY <1>1
    <2>2. E[s].deps = {}
      BY <2>1 DEF Ordered, Legitimate
    <2> QED
      BY <1>1, <2>2
  <1>8. \A s, t \in Slots :
       Before(F, t, s) /\ t[1] = s[1] /\ (~ F[t].issued \/ t[1] = "st") => t \in F[s].deps
    <2> SUFFICES ASSUME NEW s \in Slots, NEW t \in Slots, Before(F, t, s), t[1] = s[1],
                        ~ F[t].issued \/ t[1] = "st"
                 PROVE  t \in F[s].deps
      OBVIOUS
    <2>1. Before(E, t, s)
      BY <1>1 DEF Before
    <2>2. (~ E[t].issued /\ t \notin iss) \/ t[1] = "st"
      BY <1>1 DEF Before
    <2>3. t \in E[s].deps
      BY <2>1, <2>2 DEF Ordered
    <2> QED
      BY <1>3, <2>2, <2>3 DEF Before
  <1> QED
    BY <1>4, <1>5, <1>6, <1>7, <1>8 DEF Ordered, F

(***************************************************************************)
(* The preload that waits for its compute                                  *)
(***************************************************************************)
\* Once a preload is accepted it is the youngest execute command, and stays
\* the youngest while commands of the other queues arrive.
LEMMA AcceptAwaiting ==
  ASSUME TypeOK, Ordered(entries, instructions_allocated), solitary_preload => Awaiting(entries),
         NEW c \in Cmds, NEW junk, NEW slot \in Slots, IsAllocSlot(c, slot), LegalNext(c),
         c.funct = "PRELOAD" \/ (c.funct # "COMPUTE" /\ solitary_preload)
  PROVE  Awaiting(Accepted(c, slot, junk))
  <1> DEFINE E == Accepted(c, slot, junk)
             e == new_entry(c, junk)
  <1>1. entries \in [Slots -> Entry] /\ instructions_allocated \in Nat
    BY DEF TypeOK
  <1>2. E[slot] = e /\ \A s \in Slots \ {slot} : E[s] = entries[s]
    BY <1>1 DEF Accepted
  <1>3. slot \in QSlots(Queue(c)) /\ slot[1] = Queue(c)
    BY SlotFact, QueueType DEF IsAllocSlot
  <1>4. QSlots("ex") \subseteq Slots /\ \A s \in QSlots("ex") : s[1] = "ex"
    BY SlotFact DEF Queues
  <1>5. \A t \in Slots : entries[t].allocated_at \in Nat
    BY <1>1 DEF Entry
  <1>6. CASE c.funct = "PRELOAD"
    <2>1. Queue(c) = "ex"
      BY <1>6 DEF Queue, is_ex, is_store, Execs, Stores
    <2>2. /\ e.valid /\ e.funct = "PRELOAD" /\ ~ e.followed /\ ~ e.complete_on_issue
          /\ e.allocated_at = instructions_allocated
      BY <1>6, <2>1 DEF new_entry
    <2> HIDE DEF E, e
    <2>3. \A t \in QSlots("ex") : E[t].valid => E[t].allocated_at <= E[slot].allocated_at
      <3>1. \A r \in Slots : entries[r].valid => entries[r].allocated_at < instructions_allocated
        BY DEF Ordered
      <3> QED
        <4> SUFFICES ASSUME NEW t \in QSlots("ex"), E[t].valid
                     PROVE  E[t].allocated_at <= instructions_allocated
          BY <1>2, <2>2
        <4>1. t \in Slots
          BY <1>4
        <4>2. CASE t = slot
          BY <1>1, <1>2, <2>2, <4>2
        <4>3. CASE t # slot
          BY <1>1, <1>2, <1>5, <3>1, <4>1, <4>3
        <4> QED
          BY <4>2, <4>3
    <2>4. slot \in QSlots("ex")
      BY <1>3, <2>1
    <2> QED
      BY <1>2, <2>2, <2>3, <2>4 DEF Awaiting, E
  <1>7. CASE c.funct # "PRELOAD"
    <2>1. solitary_preload /\ Queue(c) # "ex"
      BY <1>7 DEF LegalNext
    <2>2. slot \notin QSlots("ex")
      BY <1>3, <1>4, <2>1
    <2> HIDE DEF E
    <2>3. \A s \in QSlots("ex") : E[s] = entries[s]
      BY <1>2, <1>4, <2>2
    <2> QED
      BY <2>1, <2>3 DEF Awaiting, E
  <1> QED
    BY <1>6, <1>7

\* No issue or completion touches the waiting preload: older execute commands
\* have all issued by the time it has.
LEMMA SettleAwaiting ==
  ASSUME NEW E \in [Slots -> Entry], NEW n \in Nat, Ordered(E, n), Awaiting(E),
         NEW iss, NEW done, Legitimate(E, iss, done)
  PROVE  Awaiting(Settled(E, iss, done))
  <1> DEFINE F == Settled(E, iss, done)
  <1>1. PICK s \in QSlots("ex") :
          /\ E[s].valid /\ E[s].funct = "PRELOAD"
          /\ ~ E[s].followed /\ ~ E[s].complete_on_issue
          /\ \A t \in QSlots("ex") : E[t].valid => E[t].allocated_at <= E[s].allocated_at
    BY DEF Awaiting
  <1>2. s \in Slots /\ s[1] = "ex" /\ QSlots("ex") \subseteq Slots
    BY SlotFact DEF Queues
  <1>3. s \notin done /\ ~ (s \in iss /\ E[s].complete_on_issue)
    BY <1>1 DEF Legitimate
  <1>4. ~ (E[s].issued /\ \E t \in iss : t[1] = "ex")
    <2> SUFFICES ASSUME E[s].issued, NEW t \in iss, t[1] = "ex" PROVE FALSE
      OBVIOUS
    <2>1. t \in Slots /\ E[t].valid /\ ~ E[t].issued
      BY DEF Legitimate
    <2>2. t \in QSlots("ex") /\ t # s
      BY <2>1, SlotFact
    <2>3. E[t].allocated_at \in Nat /\ E[s].allocated_at \in Nat
      BY <1>2, <2>1 DEF Entry
    <2>4. E[t].allocated_at < E[s].allocated_at
      <3>1. E[t].allocated_at # E[s].allocated_at
        BY <1>1, <1>2, <2>1, <2>2 DEF Ordered
      <3>2. E[t].allocated_at <= E[s].allocated_at
        BY <1>1, <2>1, <2>2
      <3> QED
        BY <2>3, <3>1, <3>2
    <2>5. t \in E[s].deps
      BY <1>1, <1>2, <2>1, <2>4 DEF Ordered, Before
    <2> QED
      BY <1>1, <1>2, <2>5 DEF Ordered
  <1>5. /\ F[s].valid /\ F[s].funct = "PRELOAD" /\ ~ F[s].followed
        /\ F[s].allocated_at = E[s].allocated_at
    <2>1. \A r \in Slots : F[r].valid <=>
            E[r].valid /\ r \notin done /\ ~ (r \in iss /\ E[r].complete_on_issue)
      BY SettledValid
    <2>2. \A r \in Slots : F[r].valid =>
            F[r].allocated_at = E[r].allocated_at /\ F[r].funct = E[r].funct
      BY SettledFacts, SettledKept
    <2>3. \A r \in Slots : F[r].valid =>
            (F[r].followed <=>
             E[r].followed \/ (r[1] = "ex" /\ E[r].issued /\ \E t \in iss : t[1] = "ex"))
      BY SettledFollowed
    <2> HIDE DEF F
    <2>4. F[s].valid
      BY <1>1, <1>2, <1>3, <2>1
    <2> QED
      BY <1>1, <1>2, <1>4, <2>2, <2>3, <2>4
  <1>6. ~ F[s].complete_on_issue
    <2>1. E[s] \in Entry
      BY <1>2
    <2>2. F[s].complete_on_issue = E[s].complete_on_issue
      BY <1>2, <1>3, <2>1 DEF Settled, Updated, Entry
    <2> QED
      BY <1>1, <2>2
  <1>7. \A t \in QSlots("ex") : F[t].valid => E[t].valid /\ F[t].allocated_at = E[t].allocated_at
    <2>1. \A t \in Slots : F[t].valid => E[t].valid /\ F[t].allocated_at = E[t].allocated_at
      BY SettledValid, SettledFacts
    <2> HIDE DEF F
    <2> QED
      BY <1>2, <2>1
  <1> HIDE DEF F
  <1> QED
    BY <1>1, <1>5, <1>6, <1>7 DEF Awaiting, F

(***************************************************************************)
(* Cycles                                                                  *)
(***************************************************************************)
\* What issues or completes in a cycle without a new command is legitimate.
LEMMA QuietLegitimate ==
  ASSUME NEW iss \in IssueSets, NEW done \in DoneSets
  PROVE  Legitimate(entries, iss, done)
  <1>1. iss \in SUBSET Slots /\ \A s \in iss : Issuable(s)
    BY DEF IssueSets, IsIssueSel
  <1>2. done \in SUBSET Slots /\ \A s \in done : Completable(s)
    BY DEF DoneSets
  <1>3. \A s \in iss : entries[s].valid /\ entries[s].deps = {} /\ ~ entries[s].issued
    BY <1>1 DEF Issuable, Valid
  <1>4. \A s \in done : /\ entries[s].valid /\ entries[s].issued
                        /\ entries[s].funct = "PRELOAD" => entries[s].followed
    BY <1>2 DEF Completable, Valid
  <1> QED
    BY <1>1, <1>2, <1>3, <1>4 DEF Legitimate

\* A cycle that accepts a command puts it in a free slot and then issues and
\* completes what was already there.
LEMMA AllocShape ==
  ASSUME TypeOK, NEW iss \in IssueSets, NEW done \in DoneSets, NEW c \in Cmds,
         NEW slot \in QSlots(Queue(c)), NEW junk, AllocCycle(c, slot, junk, iss, done)
  PROVE  /\ slot \in Slots /\ IsAllocSlot(c, slot) /\ LegalNext(c) /\ InBounds(c)
         /\ Legitimate(Accepted(c, slot, junk), iss, done)
         /\ entries' = Settled(Accepted(c, slot, junk), iss, done)
  <1>1. slot \in Slots /\ ~ entries[slot].valid /\ entries \in [Slots -> Entry]
    BY SlotFact, QueueType DEF AllocCycle, IsAllocSlot, Valid, TypeOK
  <1>2. IsAllocSlot(c, slot) /\ LegalNext(c) /\ InBounds(c)
    BY DEF AllocCycle, LegalNext
  <1>3. \A s \in Slots : Accepted(c, slot, junk)[s] =
                         IF s = slot THEN new_entry(c, junk) ELSE entries[s]
    BY <1>1 DEF Accepted
  <1>4. Legitimate(Accepted(c, slot, junk), iss, done)
    BY <1>1, <1>3, QuietLegitimate DEF Legitimate
  <1>5. entries' = Settled(Accepted(c, slot, junk), iss, done)
    BY <1>3 DEF AllocCycle, Settled
  <1> QED
    BY <1>1, <1>2, <1>4, <1>5

\* OrderInv holds initially and every cycle keeps it.
LEMMA OrderInvInit == Init => OrderInv
  <1> SUFFICES ASSUME Init PROVE OrderInv
    OBVIOUS
  <1>1. TypeOK
    BY FreeType, ProgramAssumption DEF Init, TypeOK
  <1>2. \A s \in Slots : ~ entries[s].valid
    BY DEF Init, Free
  <1> QED
    BY <1>1, <1>2 DEF OrderInv, Ordered, Before, Init

\* Every cycle keeps OrderInv: one case per action, through the two halves of a cycle.
LEMMA OrderInvStep == OrderInv /\ [Next]_vars => OrderInv'
  <1> SUFFICES ASSUME OrderInv, [Next]_vars PROVE OrderInv'
    OBVIOUS
  <1>1. /\ TypeOK /\ entries \in [Slots -> Entry] /\ instructions_allocated \in Nat
        /\ Ordered(entries, instructions_allocated)
        /\ solitary_preload => Awaiting(entries)
    BY DEF OrderInv, TypeOK
  <1>2. ASSUME UNCHANGED vars PROVE OrderInv'
    <2>1. /\ entries' = entries /\ regs' = regs /\ solitary_preload' = solitary_preload
          /\ instructions_allocated' = instructions_allocated
      BY <1>2 DEF vars
    <2>2. TypeOK'
      BY <1>1, <2>1 DEF TypeOK
    <2> QED
      BY <1>1, <2>1, <2>2 DEF OrderInv
  <1>3. ASSUME NEW iss \in IssueSets, NEW done \in DoneSets, QuietCycle(iss, done)
        PROVE  OrderInv'
    <2>1. /\ entries' = Settled(entries, iss, done) /\ regs' = regs
          /\ solitary_preload' = solitary_preload
          /\ instructions_allocated' = instructions_allocated
      BY <1>3 DEF QuietCycle, Settled
    <2>2. Legitimate(entries, iss, done)
      BY QuietLegitimate
    <2>3. TypeOK'
      BY <1>1, <2>1, SettledType DEF TypeOK
    <2>4. Ordered(entries', instructions_allocated')
      BY <1>1, <2>1, <2>2, SettleOrdered
    <2>5. solitary_preload' => Awaiting(entries')
      BY <1>1, <2>1, <2>2, SettleAwaiting
    <2> QED
      BY <2>3, <2>4, <2>5 DEF OrderInv
  <1>4. ASSUME NEW iss \in IssueSets, NEW done \in DoneSets, NEW c \in Cmds,
               NEW slot \in QSlots(Queue(c)), NEW junk, AllocCycle(c, slot, junk, iss, done)
        PROVE  OrderInv'
    <2> DEFINE E == Accepted(c, slot, junk)
    <2>1. /\ slot \in Slots /\ IsAllocSlot(c, slot) /\ LegalNext(c)
          /\ Legitimate(E, iss, done) /\ entries' = Settled(E, iss, done)
      BY <1>1, <1>4, AllocShape
    <2>2. /\ regs' = NextRegs(c) /\ instructions_allocated' = instructions_allocated + 1
          /\ solitary_preload' = CASE c.funct = "PRELOAD" -> TRUE
                                   [] c.funct = "COMPUTE" -> FALSE
                                   [] OTHER -> solitary_preload
      BY <1>4 DEF AllocCycle
    <2>3. E \in [Slots -> Entry] /\ Ordered(E, instructions_allocated + 1)
      BY <1>1, <2>1, AcceptOrdered
    <2>4. c.funct = "PRELOAD" \/ (c.funct # "COMPUTE" /\ solitary_preload) => Awaiting(E)
      BY <1>1, <2>1, AcceptAwaiting
    <2> HIDE DEF E
    <2>5. entries' \in [Slots -> Entry]
      <3>1. Settled(E, iss, done) \in [Slots -> Entry]
        BY <2>3, SettledType
      <3> QED
        BY <2>1, <3>1
    <2>6. regs' \in Regs
      BY <1>1, <2>2, NextRegsType, ProgramAssumption DEF TypeOK
    <2>7. solitary_preload' \in BOOLEAN
      BY <1>1, <2>2 DEF TypeOK
    <2>8. instructions_allocated' \in Nat
      BY <1>1, <2>2
    <2>9. Ordered(entries', instructions_allocated')
      BY <1>1, <2>1, <2>2, <2>3, SettleOrdered
    <2>10. solitary_preload' => Awaiting(E)
      BY <2>2, <2>4
    <2>11. solitary_preload' => Awaiting(entries')
      BY <1>1, <2>1, <2>3, <2>10, SettleAwaiting
    <2> QED
      BY <2>5, <2>6, <2>7, <2>8, <2>9, <2>11 DEF OrderInv, TypeOK
  <1> QED
    BY <1>2, <1>3, <1>4 DEF Next, Finished

\* Every register of the station keeps its type.
THEOREM TypeCorrect == Spec => []TypeOK
  <1>1. OrderInv => TypeOK
    BY DEF OrderInv
  <1> QED
    BY <1>1, OrderInvInit, OrderInvStep, PTL DEF Spec

\* Dependency bits name only valid, older entries, so no reused entry is waited
\* for by mistake and no cycle of waiting commands can form.
THEOREM DepsOlderHolds == Spec => []DepsOlder
  <1>1. OrderInv => DepsOlder
    BY DEF OrderInv, Ordered, Before, DepsOlder, Older, Valid
  <1> QED
    BY <1>1, OrderInvInit, OrderInvStep, PTL DEF Spec

\* Each controller is issued its commands in program order.
THEOREM IssueInOrderHolds == Spec => []IssueInOrder
  <1>1. OrderInv => IssueInOrder
    <2> SUFFICES ASSUME OrderInv, NEW t \in Slots, NEW s \in Slots, Older(t, s), t[1] = s[1],
                        entries[s].issued, ~ entries[t].issued
                 PROVE  FALSE
      BY DEF IssueInOrder
    <2>1. t \in entries[s].deps
      BY DEF OrderInv, Ordered, Before, Older, Valid
    <2> QED
      BY <2>1 DEF OrderInv, Ordered, Older, Valid
  <1> QED
    BY <1>1, OrderInvInit, OrderInvStep, PTL DEF Spec

\* The store controller holds at most one issued command.
THEOREM StoresOneAtATimeHolds == Spec => []StoresOneAtATime
  <1>1. OrderInv => StoresOneAtATime
    <2> SUFFICES ASSUME OrderInv, NEW t \in QSlots("st"), NEW s \in QSlots("st"),
                        Valid(t), Valid(s), entries[t].issued, entries[s].issued, t # s
                 PROVE  FALSE
      BY DEF StoresOneAtATime
    <2>1. t \in Slots /\ s \in Slots /\ t[1] = "st" /\ s[1] = "st"
      BY SlotFact DEF Queues
    <2>2. entries[t].allocated_at \in Nat /\ entries[s].allocated_at \in Nat
      BY <2>1 DEF OrderInv, TypeOK, Entry
    <2>3. entries[t].deps = {} /\ entries[s].deps = {}
      BY <2>1 DEF OrderInv, Ordered, Valid
    <2>4. entries[t].allocated_at # entries[s].allocated_at
      BY <2>1 DEF OrderInv, Ordered, Valid
    <2>5. Before(entries, t, s) \/ Before(entries, s, t)
      BY <2>2, <2>4 DEF Before, Valid
    <2> QED
      BY <2>1, <2>3, <2>5 DEF OrderInv, Ordered
  <1> QED
    BY <1>1, OrderInvInit, OrderInvStep, PTL DEF Spec

\* There are finitely many entries.
LEMMA SlotsFinite == IsFiniteSet(Slots)
  <1>1. \A q \in Queues : Size(q) \in Nat
    BY SizeAssumption DEF Queues, Size
  <1>2. ASSUME NEW q \in Queues PROVE IsFiniteSet(QSlots(q))
    <2>1. IsFiniteSet({q})
      BY FS_Singleton
    <2>2. 0 \in Int /\ Size(q) - 1 \in Int
      BY <1>1
    <2>3. IsFiniteSet(0..Size(q)-1)
      BY <2>2, FS_Interval
    <2> QED
      BY <2>1, <2>3, FS_Product DEF QSlots
  <1>3. Slots = QSlots("ld") \cup QSlots("ex") \cup QSlots("st")
    BY DEF Slots, Queues
  <1> QED
    BY <1>2, <1>3, FS_Union DEF Queues

\* io.busy is low only when nothing is left but a preload that waits for its
\* compute: a fence cannot end while another command is in the station.
THEOREM NotBusyMeansDoneHolds == Spec => []NotBusyMeansDone
  <1>1. OrderInv => NotBusyMeansDone
    <2> SUFFICES ASSUME OrderInv, ~ busy, NEW s \in Slots, Valid(s)
                 PROVE  entries[s].funct = "PRELOAD" /\ solitary_preload
      BY DEF NotBusyMeansDone
    <2> DEFINE V == {r \in Slots : Valid(r)}
    <2>1. Cardinality(V) = 1 /\ solitary_preload
      BY DEF busy
    <2>2. IsFiniteSet(V)
      BY SlotsFinite, FS_Subset
    <2>3. PICK x : V = {x}
      BY <2>1, <2>2, FS_Singleton
    <2>4. PICK r \in QSlots("ex") : entries[r].valid /\ entries[r].funct = "PRELOAD"
      BY <2>1 DEF OrderInv, Awaiting
    <2>5. r \in Slots
      BY SlotFact DEF Queues
    <2>6. r = x /\ s = x
      BY <2>3, <2>4, <2>5 DEF Valid
    <2> QED
      BY <2>1, <2>4, <2>6
  <1> QED
    BY <1>1, OrderInvInit, OrderInvStep, PTL DEF Spec
===============================================================================
