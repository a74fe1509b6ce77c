----------------------------- MODULE CommandOrder -----------------------------
(***************************************************************************)
(* What a reservation station promises, without entries, queues or         *)
(* dependency bits: commands are accepted in program order and start out   *)
(* of order, each one no sooner than the commands it must wait for allow.  *)
(***************************************************************************)
EXTENDS Naturals

CONSTANT Serial   \* the units that work on one command at a time

VARIABLES
  inflight,   \* the accepted commands that have not finished
  accepted    \* how many commands were accepted

order == <<inflight, accepted>>

\* o writes what c uses, or reads what c writes
Clash(o, c) == o.wr \cap (c.rd \cup c.wr) # {} \/ o.rd \cap c.wr # {}

\* Command c may start: of the older commands, those of its unit have started
\* (or finished, if the unit is serial), and no other one clashes with it.
MayStart(c) ==
  /\ ~ c.started
  /\ \A o \in inflight : o.no < c.no =>
       IF o.unit = c.unit THEN o.started /\ c.unit \notin Serial ELSE ~ Clash(o, c)

\* the commands left when those of `start' have started and those of `gone'
\* have finished
Left(start, gone) == {[c EXCEPT !.started = @ \/ c \in start] : c \in inflight \ gone}

\* Commands start and finish, some of them at once, and the next command of
\* the program may be accepted.
Cycle(start, gone) ==
  \/ inflight' = Left(start, gone) /\ accepted' = accepted
  \/ /\ accepted' = accepted + 1
     /\ \E new \in inflight' :
          /\ new.no = accepted /\ ~ new.started
          /\ inflight' = Left(start, gone) \cup {new}

OrderInit == inflight = {} /\ accepted = 0

OrderNext ==
  \E start \in SUBSET {c \in inflight : MayStart(c)} :
  \E gone \in SUBSET {c \in inflight : c.started \/ c \in start} : Cycle(start, gone)

OrderSpec == OrderInit /\ [][OrderNext]_order
===============================================================================
