----------------------------- MODULE RealtimeViews -----------------------------
(***************************************************************************)
(* The views of one realtime snapshot: the batch of statistics by step and *)
(* over all steps with its monthly cache (statistics.py), the work order   *)
(* views (read_model/builder.py), and the checks a snapshot must pass      *)
(* before it is published (read_model/schemas.py).                         *)
(***************************************************************************)
EXTENDS FactSource, SequencesExt

CONSTANTS StationLimit, WorkorderLimit, ProcessLimit   \* 10, 20 and 8 in the code

ASSUME LimitsAssumption ==
    {StationLimit, WorkorderLimit, ProcessLimit} \subseteq Nat \ {0}

(* The lists of a dictionary by step, one after the other in step order.   *)
Concatenated(byStep) ==
    LET steps == Ordered(DOMAIN byStep, <)
    IN  FlattenSeq([i \in DOMAIN steps |-> byStep[steps[i]]])

(* One record per key of the lists, their quantities added up.             *)
Merged(list, Key(_), Record(_, _)) ==
    {LET own == {i \in DOMAIN list : Key(list[i]) = k}
     IN  Record(list[CHOOSE i \in own : TRUE], MapThenSumSet(LAMBDA i : list[i].qty, own))
       : k \in {Key(list[i]) : i \in DOMAIN list}}

-----------------------------------------------------------------------------
(* Merging the steps into the view "all" *)
TopProcesses(basic) ==
    Top(Ranked({[step |-> s, qty |-> basic[s].total_qty] : s \in DOMAIN basic},
               LAMBDA x : x.step), ProcessLimit)

StationFull(byStep) ==
    Top(Ranked(Merged(Concatenated(byStep), LAMBDA x : x.station,
                      LAMBDA x, qty : [station |-> x.station, qty |-> qty]),
               StationName), StationLimit)

AllHours(byStep) ==
    Ordered(Merged(SelectSeq(Concatenated(byStep), LAMBDA x : x.hour # NoHour),
                   LAMBDA x : x.hour, LAMBDA x, qty : [hour |-> x.hour, qty |-> qty]),
            HourBefore)

AllDays(byStep) ==
    ByDay(Merged(Concatenated(byStep), LAMBDA x : x.day,
                 LAMBDA x, qty : [day |-> x.day, qty |-> qty]))

MonthlyOfTopSteps(byStep) ==
    LET totals == {[step |-> s, qty |-> ListTotal(byStep[s])] : s \in DOMAIN byStep}
        top == {x.step : x \in Elements(Top(Ranked(totals, LAMBDA x : x.step), ProcessLimit))}
    IN  Concatenated([s \in top |-> byStep[s]])

MonthlyHoursOfAll(byStep) ==
    UNION {Merged(byStep[s], LAMBDA x : <<x.day, x.hour>>,
                  LAMBDA x, qty : [day |-> x.day, hour |-> x.hour, step |-> s, qty |-> qty])
            : s \in DOMAIN byStep}

MergedWorkorders(lists) ==
    Ranked(Merged(lists, LAMBDA x : x.wo,
             LAMBDA x, qty :
               [x EXCEPT !.qty = qty,
                         !.flows = UNION {y.flows : y \in {z \in Elements(lists) : z.wo = x.wo}}]),
           LAMBDA x : x.wo)

HeatmapMatrix(processFlow) ==
    LET rows == Elements(processFlow)
        Cell(f, s) == {x \in rows : x.flow = f /\ x.step = s}
        steps == {[step |-> s, qty |-> Total({x \in rows : x.step = s})]
                    : s \in {x.step : x \in rows}}
    IN  [stepnos |-> Ranked(steps, LAMBDA x : x.step),
         flows |-> VisibleFlows,
         data |-> [f \in VisibleFlows, s \in {x.step : x \in rows} |-> Total(Cell(f, s))]]

-----------------------------------------------------------------------------
(* The batch of statistics *)

\* Fault: today is added to what was cached of it.
AddToday(cachedRows, todayRows, date) == MergeMonthlyRows(cachedRows, todayRows)

(* The cache of a month is a set of at most one record [total, proc,       *)
(* hourly]; with it only the business date is queried again.               *)
RefreshToday(cachedRows, todayRows, date) ==
    [s \in DOMAIN cachedRows \cup DOMAIN todayRows |->
        SelectSeq(Get(cachedRows, s, <<>>), LAMBDA x : x.day # date)
          \o Get(todayRows, s, <<>>)]

\* Fault: the hours of the month stay as cached.
MonthlyOldHours(source, table, cached, monthStart) ==
    LET end == source.date
    IN  [total |-> FactMonthlyTotalTrend(source, table, monthStart, end),
         proc |-> FactMonthlyProcessStats(source, table, monthStart, end),
         hourly |-> IF cached = {} THEN FactMonthlyHourlyStats(source, table, monthStart, end)
                    ELSE (CHOOSE c \in cached : TRUE).hourly]

MonthlyStats(source, table, cached, monthStart) ==
    LET Rows(Query(_, _, _, _), name) ==
          IF cached = {} THEN Query(source, table, monthStart, source.date)
          ELSE LET old == CHOOSE c \in cached : TRUE
               IN  RefreshToday(old[name], Query(source, table, source.date, source.date),
                                source.date)
    IN  [total |-> Rows(FactMonthlyTotalTrend, "total"),
         proc |-> Rows(FactMonthlyProcessStats, "proc"),
         hourly |-> Rows(FactMonthlyHourlyStats, "hourly")]

StepStats(s, source, monthly, allSteps) ==
    LET basic == FactBasicStats(source)
        flows == Get(FactProcessByFlow(source), s, <<>>)
        stations == Get(FactStationRanking(source, StationLimit), s, <<>>)
        monthHours == Get(monthly.hourly, s, <<>>)
    IN  [workorder_count |-> basic[s].workorder_count,
         total_qty |-> basic[s].total_qty,
         date |-> source.date,
         hourly_stats |-> SelectSeq(FactHourlyStats(source)[s], LAMBDA x : x.hour # NoHour),
         process_flow_stats |-> flows,
         monthly_process_stats |-> Get(monthly.proc, s, <<>>),
         monthly_total_trend |-> Get(monthly.total, s, <<>>),
         monthly_hourly_stats |->
            {[day |-> x.day, hour |-> x.hour, step |-> s, qty |-> x.qty] : x \in Elements(monthHours)},
         heatmap_matrix |-> HeatmapMatrix(flows),
         station_ranking |-> stations,
         top_processes |-> <<[step |-> s, qty |-> basic[s].total_qty]>>,
         workorders |-> Get(FactWorkordersList(source, WorkorderLimit), s, <<>>),
         all_stepnos |-> allSteps]

AllStats(source, monthly, allSteps) ==
    LET basic == FactBasicStats(source)
        flows == Concatenated(FactProcessByFlow(source))
        orders == MergedWorkorders(Concatenated(FactWorkordersList(source, WorkorderLimit)))
    IN  [workorder_count |-> Len(orders),
         total_qty |-> MapThenSumSet(LAMBDA s : basic[s].total_qty, DOMAIN basic),
         date |-> source.date,
         hourly_stats |-> AllHours(FactHourlyStats(source)),
         process_flow_stats |-> flows,
         monthly_process_stats |-> MonthlyOfTopSteps(monthly.proc),
         monthly_total_trend |-> AllDays(monthly.total),
         monthly_hourly_stats |-> MonthlyHoursOfAll(monthly.hourly),
         heatmap_matrix |-> HeatmapMatrix(flows),
         station_ranking |-> StationFull(FactStationRanking(source, StationLimit)),
         top_processes |-> TopProcesses(basic),
         workorders |-> Top(orders, WorkorderLimit),
         all_stepnos |-> allSteps]

BatchStats(source, monthly) ==
    LET steps == DOMAIN FactBasicStats(source)
        allSteps == Ordered(steps, >)
    IN  [step |-> [s \in steps |-> StepStats(s, source, monthly, allSteps)],
         all |-> AllStats(source, monthly, allSteps)]

BatchDetailStats(source) ==
    [flow_overview |-> FactFlowOverview(source),
     flow_hourly |-> FactFlowHourly(source),
     flow_employees |-> FactFlowEmployees(source),
     stepno_employees |-> FactStepnoEmployees(source),
     product_overview |-> FactProductOverview(source)]

-----------------------------------------------------------------------------
(* The snapshot *)
WorkorderRows(facts) ==
    {[wo |-> Member(g).wo, step |-> Member(g).step, total_qty |-> Total(g),
      employee_ids |-> {f.emp : f \in g}, flows |-> {f.flow : f \in g} \ {NoName}]
       : g \in Groups(facts, LAMBDA f : <<f.wo, f.step, f.flow>>)}

WorkorderDetails(facts) ==
    LET Steps(own) == {[step |-> Member(g).step, qty |-> Total(g),
                        count |-> MapThenSumSet(LAMBDA f : f.count, g)]
                         : g \in Groups(own, LAMBDA f : f.step)}
    IN  [w \in {f.wo : f \in facts} |->
            LET steps == Steps({f \in facts : f.wo = w})
            IN  [total_qty |-> Total(steps), steps |-> steps]]

BuildSnapshot(source, monthly, targetAnalysis) ==
    LET facts == ReadModelFacts(source)
        realtime == BatchStats(source, monthly)
    IN  [business_date |-> source.date,
         record_count |-> MapThenSumSet(LAMBDA f : f.count, facts),
         realtime |-> realtime,
         processes |-> realtime.all.all_stepnos,
         workorders |-> [rows |-> WorkorderRows(facts), products |-> source.products,
                         styles |-> source.styles],
         workorder_details |-> WorkorderDetails(facts),
         detail |-> BatchDetailStats(source),
         kanban |-> facts,
         target_analysis |-> targetAnalysis]

(* What validate_snapshot requires of the values of a complete snapshot.   *)
SumQtyForBusinessDate(list, date) == ListTotal(SelectSeq(list, LAMBDA x : x.day = date))

RealtimeTotalsAgree(view, date, isAll) ==
    /\ ListTotal(view.process_flow_stats) = view.total_qty
    /\ SumQtyForBusinessDate(view.monthly_total_trend, date) = view.total_qty
    /\ isAll \/ SumQtyForBusinessDate(view.monthly_process_stats, date) = view.total_qty

ValidSnapshot(snapshot) ==
    LET realtime == snapshot.realtime
        views == {realtime.step[s] : s \in DOMAIN realtime.step}
    IN  /\ \A v \in views \cup {realtime.all} : v.date = snapshot.business_date
        /\ \A v \in views : RealtimeTotalsAgree(v, snapshot.business_date, FALSE)
        /\ RealtimeTotalsAgree(realtime.all, snapshot.business_date, TRUE)
        /\ \A f \in snapshot.kanban : f.count >= 0
        /\ MapThenSumSet(LAMBDA f : f.count, snapshot.kanban) = snapshot.record_count
=============================================================================
