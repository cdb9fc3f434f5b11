------------------------------ MODULE TargetViews ------------------------------
(***************************************************************************)
(* What the pages make of production and targets (api_views.py,            *)
(* api_views_account.py, statistics.py): the share of a group target that  *)
(* falls to every worker of every step, the detail of a flow, a step and   *)
(* an initial style, and today's targets.  A moment of the day is its      *)
(* minute; a rate is the fraction it is computed from.                     *)
(***************************************************************************)
EXTENDS TargetAnalysis, RemoteQueries, TLC

CONSTANTS
    WorkStart, WorkEnd,    \* WORKDAY_START_MINUTE, WORKDAY_END_MINUTE
    Breaks,                \* the pauses in between: a set of [start, end]
    Hour,                  \* minutes by which the current target advances: 60
    DefaultWorkMinutes     \* DEFAULT_TARGET_WORK_MINUTES

ASSUME WorkdayAssumption ==
    /\ WorkStart < WorkEnd
    /\ \A b \in Breaks : WorkStart <= b.start /\ b.start < b.end /\ b.end <= WorkEnd
    /\ Hour \in Nat \ {0} /\ DefaultWorkMinutes \in Nat \ {0}

NoEntries == [k \in {} |-> 0]

Rate(n, d) == IF d > 0 THEN {<<n, d>>} ELSE {}

(* The minutes worked at a moment of the day: none before work starts.     *)
WorkMinutes(minute) ==
    LET until == Min({minute, WorkEnd})
        Rest(b) == Max({0, Min({until, b.end}) - b.start})
    IN  IF minute < WorkStart THEN {}
        ELSE {until - WorkStart - MapThenSumSet(Rest, Breaks)}

Efficiency(output, minutes) == UNION {Rate(v, t) : v \in output, t \in minutes}

-----------------------------------------------------------------------------
(* Distribution of a group target *)

(* Fault: the hours worked are not cut off at the planned ones.            *)
CurrentUnbounded(target, planned, elapsed) ==
    IF planned = {} \/ elapsed = {} THEN target
    ELSE LET p == CHOOSE m \in planned : TRUE
             e == CHOOSE m \in elapsed : TRUE
             begun == ((Max({e, 0}) + Hour - 1) \div Hour) * Hour
         IN  RoundHalfUp(target * begun, p)

(* The part of a day's target due by now: every hour begun counts in full. *)
CurrentGroupTarget(target, planned, elapsed) ==
    IF planned = {} \/ elapsed = {} THEN target
    ELSE LET p == CHOOSE m \in planned : TRUE
             e == CHOOSE m \in elapsed : TRUE
             begun == ((Max({e, 0}) + Hour - 1) \div Hour) * Hour
         IN  RoundHalfUp(target * Min({begun, p}), p)

(* workers gives the employees of every step; the first ones take one more *)
(* where the target does not divide.                                       *)
AllocateStepTarget(workers, target) ==
    [s \in DOMAIN workers |->
        LET n == Cardinality(workers[s])
            Before(e) == Cardinality({x \in workers[s] : x < e})
        IN  [e \in workers[s] |->
                target \div n + (IF Before(e) < target % n THEN 1 ELSE 0)]]

StepsOf(employee) == {s.step : s \in employee.steps}

DistributeGroupTarget(employees, group, planned, elapsed) ==
    LET workers == [s \in UNION {StepsOf(e) : e \in employees} |->
                        {e.emp : e \in {x \in employees : s \in StepsOf(x)}}]
        current == CurrentGroupTarget(group, planned, elapsed)
        full == AllocateStepTarget(workers, group)
        share == AllocateStepTarget(workers, current)
        Actual(e, s) == Total({x \in e.steps : x.step = s})
        Own(e) == [s \in StepsOf(e) |->
                    [full_target |-> full[s][e.emp], target |-> share[s][e.emp],
                     actual_qty |-> Actual(e, s),
                     target_rate |-> Rate(Actual(e, s), share[s][e.emp])]]
        WithShares(e) ==
          LET own == Own(e)
              target == MapThenSumSet(LAMBDA s : own[s].target, DOMAIN own)
          IN  [e EXCEPT !.steps = {x @@ [target |-> own[x.step].target,
                                         target_rate |-> own[x.step].target_rate] : x \in @}]
              @@ [step_targets |-> own, target |-> target,
                  full_target |-> MapThenSumSet(LAMBDA s : own[s].full_target, DOMAIN own),
                  target_rate |-> Rate(e.total_qty, target), wo_targets |-> NoEntries]
    IN  [employees |-> {WithShares(e) : e \in employees},
         current |-> current,
         step_targets |-> [s \in DOMAIN workers |->
            [target |-> group, current_target |-> current,
             worker_count |-> Cardinality(workers[s])]]]

(* stored is what the page read: the group target and its planned minutes  *)
(* if set, the targets by employee, and by employee and order.  elapsed    *)
(* are the minutes worked by now, none on a day that is past.              *)
PrepareFlowEmployees(employees, stored, elapsed, isToday) ==
    LET worked == IF isToday /\ elapsed = {} THEN {0} ELSE elapsed
        efficient == {e @@ [efficiency |-> Efficiency(e.output, elapsed)] : e \in employees}
        Personal(e) ==
          LET target == Get(stored.targets, e.emp, 0)
              orders == {k[2] : k \in {x \in DOMAIN stored.orders : x[1] = e.emp}}
          IN  e @@ [target |-> target, target_rate |-> Rate(e.total_qty, target),
                    step_targets |-> NoEntries,
                    wo_targets |-> [w \in orders |-> stored.orders[<<e.emp, w>>]]]
        shared == DistributeGroupTarget(efficient, CHOOSE q \in stored.group : TRUE,
                                        stored.minutes, worked)
    IN  IF stored.group # {}
        THEN [employees |-> shared.employees, group_target |-> stored.group,
              current_group_target |-> {shared.current}, work_minutes |-> stored.minutes,
              step_targets |-> shared.step_targets]
        ELSE [employees |-> {Personal(e) : e \in efficient}, group_target |-> {},
              current_group_target |-> {}, work_minutes |-> stored.minutes,
              step_targets |-> NoEntries]

-----------------------------------------------------------------------------
(* Production detail.  view holds flow_employees, flow_hourly,             *)
(* stepno_employees and flow_overview of one snapshot.                     *)
FlowDetail(view, flow, stored, elapsed, isToday) ==
    LET prepared == PrepareFlowEmployees(Get(view.flow_employees, flow, {}), stored,
                                         elapsed, isToday)
        all == prepared.employees
    IN  [flow |-> flow, detail |-> prepared, worker_count |-> Cardinality(all),
         total_qty |-> MapThenSumSet(LAMBDA e : e.total_qty, all),
         cumulative_qty |-> MapThenSumSet(LAMBDA e : e.cumulative, all),
         hourly_trend |-> Get(view.flow_hourly, flow, {})]

StepnoDetail(view, step, targets) ==
    LET all == {e @@ [target |-> Get(targets, e.emp, 0)]
                  : e \in Get(view.stepno_employees, step, {})}
    IN  [employees |-> all, total_qty |-> Total(all), worker_count |-> Cardinality(all)]

StepnoOverview(view) ==
    [s \in DOMAIN view.stepno_employees |->
        [total_qty |-> Total(view.stepno_employees[s]),
         worker_count |-> Cardinality(view.stepno_employees[s])]]

(* The steps of all employees, one record each.                            *)
StyleSteps(flowEmployees) ==
    UNION {UNION {{s @@ [flow |-> f, emp |-> e.emp] : s \in e.steps}
                    : e \in flowEmployees[f]} : f \in DOMAIN flowEmployees}

SewingTotal(steps) == Total({s \in steps : s.step = FlowStep})

InitialStyleOverview(flowEmployees) ==
    LET Item(own) ==
          [style |-> Member(own).style,
           total_qty |-> SewingTotal(own),
           worker_count |-> Distinct(own, LAMBDA s : s.emp),
           workorder_count |-> Cardinality({s.wo : s \in own} \ {NoName}),
           flows |-> Ranked({[flow |-> Member(g).flow, qty |-> SewingTotal(g),
                              workers |-> Distinct(g, LAMBDA s : s.emp)]
                               : g \in Groups(own, LAMBDA s : s.flow)}, LAMBDA x : x.flow),
           stepnos |-> [n \in {s.step : s \in own} |-> Total({s \in own : s.step = n})]]
    IN  Ordered({Item(own) : own \in Groups(StyleSteps(flowEmployees), LAMBDA s : s.style)},
                LAMBDA x, y : \/ x.style # NoName /\ y.style = NoName
                              \/ /\ (x.style = NoName) = (y.style = NoName)
                                 /\ x.style < y.style)

(* Fault: of a worker in two flows only the output in one is counted.      *)
StyleOfOneFlow(flowEmployees, style) ==
    LET steps == {s \in StyleSteps(flowEmployees) : s.style = style}
        Employee(own) ==
          [emp |-> Member(own).emp, qty |-> Total({s \in own : s.flow = Member(own).flow}),
           cumulative |-> MapThenSumSet(LAMBDA s : s.cumulative, own),
           output |-> IF \E s \in own : s.output = {} THEN {}
                      ELSE {MapThenSumSet(LAMBDA s : CHOOSE v \in s.output : TRUE, own)},
           steps |-> own, workorders |-> {s.wo : s \in own} \ {NoName}]
        all == {Employee(own) : own \in Groups(steps, LAMBDA s : s.emp)}
    IN  [style |-> style, employees |-> Ranked(all, LAMBDA e : e.emp),
         total_qty |-> Total(all), worker_count |-> Cardinality(all),
         cumulative_qty |-> MapThenSumSet(LAMBDA e : e.cumulative, all),
         flows |-> {s.flow : s \in steps}]

InitialStyleDetail(flowEmployees, style) ==
    LET steps == {s \in StyleSteps(flowEmployees) : s.style = style}
        Employee(own) ==
          [emp |-> Member(own).emp, qty |-> Total(own),
           cumulative |-> MapThenSumSet(LAMBDA s : s.cumulative, own),
           output |-> IF \E s \in own : s.output = {} THEN {}
                      ELSE {MapThenSumSet(LAMBDA s : CHOOSE v \in s.output : TRUE, own)},
           steps |-> own, workorders |-> {s.wo : s \in own} \ {NoName}]
        all == {Employee(own) : own \in Groups(steps, LAMBDA s : s.emp)}
    IN  [style |-> style, employees |-> Ranked(all, LAMBDA e : e.emp),
         total_qty |-> Total(all), worker_count |-> Cardinality(all),
         cumulative_qty |-> MapThenSumSet(LAMBDA e : e.cumulative, all),
         flows |-> {s.flow : s \in steps}]

(* stored gives what was read for each flow.                               *)
InitialStylePage(view, style, stored, elapsed, isToday) ==
    LET flows == {f \in DOMAIN view.flow_employees :
                    \E e \in view.flow_employees[f] : \E s \in e.steps : s.style = style}
        prepared == [f \in flows |-> PrepareFlowEmployees(view.flow_employees[f],
                                            stored[f], elapsed, isToday)]
        detail == InitialStyleDetail([f \in flows |-> prepared[f].employees], style)
    IN  [detail EXCEPT !.employees =
            [i \in DOMAIN @ |-> @[i] @@ [efficiency |-> Efficiency(@[i].output, elapsed)]]]
        @@ [flow_targets |-> [f \in detail.flows |->
                [group_target |-> prepared[f].group_target,
                 current_group_target |-> prepared[f].current_group_target,
                 work_minutes |-> prepared[f].work_minutes]]]

-----------------------------------------------------------------------------
(* Today's targets.  A stored target is {} or one record [target,          *)
(* planned], planned being optional; who submitted it when is left out.    *)
IsComplete(row) == \E t \in row : t.planned # {}

FlowProduction(view) ==
    [f \in DOMAIN view.flow_overview |->
        IF FlowStep \in DOMAIN view.flow_overview[f].stepnos
        THEN view.flow_overview[f].stepnos[FlowStep].qty ELSE 0]

(* Fault: the end of the workday itself already counts as after it.        *)
StateAtEnd(row, actual, minute, past) ==
    LET over == past \/ minute >= WorkEnd
        met == \E t \in row : \E n \in actual : n >= t.target
    IN  IF ~IsComplete(row) THEN "pending_fill"
        ELSE IF met THEN IF over THEN "overdue" ELSE "completed"
        ELSE IF over THEN "unfinished" ELSE "filled"

ProductionState(row, actual, minute, past) ==
    LET over == past \/ minute > WorkEnd
        met == \E t \in row : \E n \in actual : n >= t.target
    IN  IF ~IsComplete(row) THEN "pending_fill"
        ELSE IF met THEN IF over THEN "overdue" ELSE "completed"
        ELSE IF over THEN "unfinished" ELSE "filled"

(* earlier are the minutes of the flow's last target that had any.         *)
WorkHours(row, earlier, past) ==
    LET own == UNION {t.planned : t \in row}
    IN  IF own # {} \/ past THEN own
        ELSE IF earlier # {} THEN earlier ELSE {DefaultWorkMinutes}

(* production is {} without a realtime snapshot, analysis without one of   *)
(* either kind.                                                            *)
TodayTargetPayload(flow, row, earlier, production, analysis, minute, past) ==
    LET actual == {Get(p, flow, 0) : p \in production}
        state == ProductionState(row, actual, minute, past)
        own == UNION {t.planned : t \in row}
    IN  [flow |-> flow, group_target |-> {t.target : t \in row},
         target_set |-> row # {}, work_hours_set |-> own # {},
         work_minutes |-> WorkHours(row, earlier, past),
         work_hours_source |-> IF own # {} THEN "current" ELSE IF past THEN "missing"
                               ELSE IF earlier # {} THEN "history" ELSE "default",
         production_state |-> state, actual_qty |-> actual,
         complete |-> IF past THEN IsComplete(row) ELSE state \in {"completed", "overdue"},
         can_edit |-> ~past,
         analysis |-> {PeriodAnalysis(Get(a, flow, NoEntries), {t.target : t \in row},
                                      IF own = {} THEN 0 ELSE CHOOSE m \in own : TRUE)
                         : a \in analysis}]

TodaySummary(groups, past) ==
    LET Count(state) == Cardinality({g \in groups : g.production_state = state})
        completed == IF past THEN Cardinality({g \in groups : g.complete})
                     ELSE Count("completed")
    IN  [completed_count |-> completed, overdue_count |-> Count("overdue"),
         unfinished_count |-> Count("unfinished"), filled_count |-> Count("filled"),
         pending_fill_count |-> Count("pending_fill"),
         incomplete_count |-> Cardinality(groups) - completed,
         total_count |-> Cardinality(groups),
         all_complete |-> completed = Cardinality(groups)]
=============================================================================
