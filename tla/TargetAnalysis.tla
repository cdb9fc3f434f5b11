----------------------------- MODULE TargetAnalysis -----------------------------
(***************************************************************************)
(* The analysis of today's targets by period of the day                    *)
(* (target_analysis.py): what every flow produced at the sewing step in    *)
(* each period, the share of the target that falls to the period, and the  *)
(* rate at which it is met.  Targets are kept in hundredths, rates in      *)
(* tenths of a percent, as the code rounds them.                           *)
(***************************************************************************)
EXTENDS ProductionRows

CONSTANTS
    Periods,        \* TARGET_ANALYSIS_PERIODS: a sequence of [start, end, minutes]
    NormalMinutes   \* TARGET_ANALYSIS_NORMAL_WORK_MINUTES

ASSUME PeriodsAssumption ==
    /\ \A i \in DOMAIN Periods : /\ Periods[i].start < Periods[i].end
                                 /\ Periods[i].minutes \in Nat
    /\ \A i \in 1..(Len(Periods) - 1) : Periods[i].end <= Periods[i + 1].start
    /\ NormalMinutes \in Nat

(* The periods that contain an hour: at most one.                          *)
PeriodOf(hour) == {i \in DOMAIN Periods : Periods[i].start <= hour /\ hour < Periods[i].end}

AggregateTargetAnalysis(facts, flows) ==
    LET counted == {f \in facts : /\ f.step = FlowStep
                                  /\ f.flow # NoName /\ f.flow \in flows
                                  /\ PeriodOf(f.hour) # {}}
    IN  [w \in {f.flow : f \in counted} |->
            [i \in DOMAIN Periods |->
                Total({f \in counted : f.flow = w /\ i \in PeriodOf(f.hour)})]]

RegularWorkMinutes(planned) == Min({Max({planned, 0}), NormalMinutes})

(* The minutes still to be given out before each period.                   *)
NormalPeriodMinutes(regular) ==
    LET left[i \in DOMAIN Periods] ==
          IF i = 1 THEN regular
          ELSE left[i - 1] - Min({left[i - 1], Periods[i - 1].minutes})
    IN  [i \in DOMAIN Periods |-> Min({left[i], Periods[i].minutes})]

(* ROUND_HALF_UP of n / d, away from zero, for d > 0.                      *)
RoundHalfUp(n, d) ==
    IF n >= 0 THEN (2 * n + d) \div (2 * d) ELSE -((2 * (-n) + d) \div (2 * d))

(* target is an optional quantity, planned the planned minutes or 0.       *)
PeriodAnalysis(actuals, target, planned) ==
    LET regular == RegularWorkMinutes(planned)
        minutes == NormalPeriodMinutes(regular)
        known == \E q \in target : q > 0 /\ regular > 0
        Actual(i) == Get(actuals, i, 0)
        Share(i) == {q * minutes[i] : q \in IF known /\ minutes[i] > 0 THEN target ELSE {}}
    IN  [i \in DOMAIN Periods |->
            [actual_qty |-> Actual(i),
             target_qty |-> {RoundHalfUp(100 * s, regular) : s \in Share(i)},
             achievement_rate |-> {RoundHalfUp(1000 * Actual(i) * regular, s) : s \in Share(i)}]]
=============================================================================
