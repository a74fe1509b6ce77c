------------------------------ MODULE Normalizer ------------------------------
(***************************************************************************)
(* The normaliser between the accumulator and the scaling unit             *)
(* (Normalizer.scala): for each of two statistics identifiers it sums the  *)
(* rows sent to it, divides, takes roots and reciprocals in shared units,  *)
(* and hands RESET rows on together with the statistics.                   *)
(*                                                                         *)
(* A statistic is the rows it was computed from: a sum is a set of rows,   *)
(* each with what was subtracted from it, and a count is a set of rows.    *)
(* A row enters the lanes in one piece (n_lanes is the length of a row).   *)
(* The constants of the exponential are left out.                          *)
(***************************************************************************)
EXTENDS Integers, Sequences, FiniteSets, FiniteSetsExt

VARIABLES stats,     \* for each identifier: req, state, running and iterative statistics
          lanes,     \* AccumulationLanes: rows on their way to a sum
          max_lanes  \* MaxLanes

normVars == <<stats, lanes, max_lanes>>

StatsIds == 0..1

NormCmds == {"RESET", "SUM", "MEAN", "VARIANCE", "INV_STDDEV", "MAX", "SUM_EXP", "INV_SUM_EXP"}

writes_to_main_memory(cmd) == cmd = "RESET"

non_reset_version(cmd) ==
  CASE cmd = "MEAN" -> "SUM" [] cmd = "INV_STDDEV" -> "VARIANCE"
    [] cmd = "INV_SUM_EXP" -> "SUM_EXP" [] OTHER -> cmd

LAYERNORM == 2
SOFTMAX   == 4

\* state.next of the states that use a functional unit
Following ==
  [get_mean |-> "waiting_for_mean", waiting_for_mean |-> "idle",
   get_variance |-> "waiting_for_variance", waiting_for_variance |-> "get_stddev",
   get_stddev |-> "waiting_for_stddev", waiting_for_stddev |-> "get_inv_stddev",
   get_inv_stddev |-> "waiting_for_inv_stddev",
   waiting_for_inv_stddev |-> "get_scaled_inv_stddev",
   get_scaled_inv_stddev |-> "waiting_for_scaled_inv_stddev",
   waiting_for_scaled_inv_stddev |-> "idle",
   get_inv_sum_exp |-> "waiting_for_inv_sum_exp",
   waiting_for_inv_sum_exp |-> "get_scaled_inv_sum_exp",
   get_scaled_inv_sum_exp |-> "waiting_for_scaled_inv_sum_exp",
   waiting_for_scaled_inv_sum_exp |-> "idle"]

\* the states in which a statistic asks for a unit, unit by unit
Units == {{"get_mean", "get_variance"}, {"get_stddev"}, {"get_inv_stddev"},
          {"get_scaled_inv_stddev"}, {"get_inv_sum_exp"}, {"get_scaled_inv_sum_exp"}}
Dividers == {"get_mean", "get_variance", "get_inv_sum_exp"}

NormStates == {"idle", "output", "get_max", "get_sum"} \cup DOMAIN Following

\* the identifiers in one of these states; the first of them is served
Asking(states) == {id \in StatsIds : stats[id].state \in states}
First(states, id) == id \in Asking(states) /\ \A other \in Asking(states) : id <= other

-----------------------------------------------------------------------------

waiting_for_lanes_to_drain(s) ==
  \/ s.req.norm_cmd = "MEAN" /\ s.state \in {"get_sum", "get_mean"}
  \/ s.req.norm_cmd = "INV_STDDEV" /\ s.state \in {"get_sum", "get_variance"}
  \/ s.req.norm_cmd = "MAX" /\ s.state = "get_max"
  \/ s.req.norm_cmd = "INV_SUM_EXP" /\ s.state = "get_sum"

norm_in_ready(id) ==
  /\ stats[id].state = "idle"
  /\ \A other \in StatsIds : ~ waiting_for_lanes_to_drain(stats[other])

\* io.in.fire: a row of the accumulator, with its command
NormIn(row) ==
  /\ norm_in_ready(row.stats_id)
  /\ stats' = [stats EXCEPT ![row.stats_id] =
       [@ EXCEPT !.req = row, !.count = @ \cup {row.at},
                 !.state = CASE row.norm_cmd = "RESET" -> "output"
                             [] row.norm_cmd = "MAX" -> "get_max"
                             [] OTHER -> "get_sum"]]
  /\ UNCHANGED <<lanes, max_lanes>>

\* what is subtracted from a row before it is summed
About(s) ==
  CASE s.req.norm_cmd \in {"VARIANCE", "INV_STDDEV"} -> s.mean
    [] s.req.norm_cmd \in {"SUM_EXP", "INV_SUM_EXP"} -> <<s.max>>
    [] OTHER -> <<>>

\* A row enters the accumulation lanes, once the maxima are all in.
LanesIn(id) ==
  /\ First({"get_sum"}, id) /\ max_lanes = <<>>
  /\ lanes' = Append(lanes, [id |-> id, term |-> [row |-> stats[id].req.at, about |-> About(stats[id])]])
  /\ stats' = [stats EXCEPT ![id].state =
       CASE stats[id].req.norm_cmd = "MEAN" -> "get_mean"
         [] stats[id].req.norm_cmd = "INV_STDDEV" -> "get_variance"
         [] stats[id].req.norm_cmd = "INV_SUM_EXP" -> "get_inv_sum_exp"
         [] OTHER -> "idle"]
  /\ UNCHANGED max_lanes

LanesOut ==
  /\ lanes # <<>>
  /\ stats' = [stats EXCEPT ![Head(lanes).id].sum = @ \cup {Head(lanes).term}]
  /\ lanes' = Tail(lanes)
  /\ UNCHANGED max_lanes

MaxLanesIn(id) ==
  /\ First({"get_max"}, id)
  /\ max_lanes' = Append(max_lanes, [id |-> id, row |-> stats[id].req.at])
  /\ stats' = [stats EXCEPT ![id].state = "idle"]
  /\ UNCHANGED lanes

MaxLanesOut ==
  /\ max_lanes # <<>>
  /\ LET id  == Head(max_lanes).id
         new == stats[id].running_max \cup {Head(max_lanes).row}
     IN  stats' = [stats EXCEPT ![id].running_max = new, ![id].max = new]
  /\ max_lanes' = Tail(max_lanes)
  /\ UNCHANGED lanes

\* the running state starts again
ResetRunning(s) == [s EXCEPT !.sum = {}, !.count = {}, !.running_max = {}]

\* A statistic after it has entered the unit it asks for.  The units are
\* slow and hold one operand; nobody reads the result before it is out.
InUnit(s) ==
  LET n == [s EXCEPT !.state = Following[s.state]]
  IN  CASE s.state = "get_mean" -> [ResetRunning(n) EXCEPT !.mean = <<s.sum, s.count>>]
        [] s.state = "get_variance" -> [ResetRunning(n) EXCEPT !.inv_stddev = <<s.sum, s.count>>]
        [] s.state = "get_inv_sum_exp" -> [n EXCEPT !.inv_sum_exp = <<s.sum>>]
        [] s.state = "get_scaled_inv_stddev" -> [n EXCEPT !.inv_stddev = Append(@, s.req.scale)]
        [] s.state = "get_scaled_inv_sum_exp" -> [n EXCEPT !.inv_sum_exp = Append(@, s.req.scale)]
        [] OTHER -> n

EnterUnit(id) ==
  /\ \E unit \in Units :
       /\ First(unit, id)
       /\ Asking({Following[u] : u \in unit}) = {}
       /\ unit \subseteq Dividers => lanes = <<>>
  /\ stats' = [stats EXCEPT ![id] = InUnit(@)]
  /\ UNCHANGED <<lanes, max_lanes>>

LeaveUnit(id) ==
  /\ stats[id].state \in {Following[u] : u \in UNION Units}
  /\ stats' = [stats EXCEPT ![id].state = Following[@]]
  /\ UNCHANGED <<lanes, max_lanes>>

\* One step inside the normaliser.
NormStep ==
  \/ LanesOut
  \/ MaxLanesOut
  \/ \E id \in StatsIds : LanesIn(id) \/ MaxLanesIn(id) \/ EnterUnit(id) \/ LeaveUnit(id)

norm_out_valid(id) == First({"output"}, id)

\* io.out.bits: a row and the statistics its activation uses
norm_out(id) ==
  LET s == stats[id]
  IN  [row |-> s.req,
       stats |-> CASE s.req.act = LAYERNORM -> <<s.mean, s.inv_stddev>>
                   [] s.req.act = SOFTMAX -> <<s.max, s.inv_sum_exp>>
                   [] OTHER -> <<>>]

\* io.out.fire
NormOut(id) ==
  /\ norm_out_valid(id)
  /\ stats' = [stats EXCEPT ![id] = [ResetRunning(@) EXCEPT !.state = "idle"]]
  /\ UNCHANGED <<lanes, max_lanes>>

NormInit(row) ==
  /\ stats = [id \in StatsIds |->
       [req |-> row, state |-> "idle", sum |-> {}, count |-> {}, running_max |-> {},
        max |-> {}, mean |-> <<>>, inv_stddev |-> <<>>, inv_sum_exp |-> <<>>]]
  /\ lanes = <<>> /\ max_lanes = <<>>
================================================================================
