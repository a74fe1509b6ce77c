---------------------------- MODULE StationPromise ----------------------------
(***************************************************************************)
(* The reservation station as an implementation of CommandOrder: a valid   *)
(* entry is a command in flight, an issued one has started.                *)
(***************************************************************************)
EXTENDS ReservationStation

InFlightOf(s) ==
  [no |-> entries[s].allocated_at, unit |-> s[1], started |-> entries[s].issued,
   rd |-> KeptReads(entries[s]), wr |-> entries[s].wr]

Promise == INSTANCE CommandOrder WITH
  Serial   <- {"st"},
  inflight <- {InFlightOf(s) : s \in {t \in Slots : Valid(t)}},
  accepted <- instructions_allocated

\* The station implements CommandOrder: whatever the entries a command lands
\* in, whichever dependency bits are set, cleared by an issue or cleared by a
\* completion, and however accepting, issuing and completing fall together in
\* one cycle, a command reaches its controller only when program order allows.
StationKeepsOrder == Promise!OrderSpec
===============================================================================
