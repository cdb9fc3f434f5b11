------------------------------ MODULE HistoryViews ------------------------------
(***************************************************************************)
(* A day after its end: what a history build copies from the remote        *)
(* database (history_store.py), the production detail read from the copy   *)
(* (historical_queries.py), and the statistics and the kanban read from it *)
(* (local_queries.py, statistics.py).  A history fact is a fact with the   *)
(* number of its employee; a step snapshot is [wo, step, time, product,    *)
(* style].                                                                 *)
(***************************************************************************)
EXTENDS ReadModelQueries, TargetAnalysis

CONSTANT MinCoverage    \* HISTORY_SNAPSHOT_MIN_COVERAGE, in percent

ASSUME CoverageAssumption == MinCoverage \in 0..100

-----------------------------------------------------------------------------
(* The payload of a build *)
LoadFacts(table, date, people) ==
    LET remarks == EmployeeRemarkMap(people, table)
    IN  {f @@ [remark |-> remarks[f.emp]]
           : f \in {r \in FactRows(table, date) : r.emp \in DOMAIN remarks}}

LoadMetadata(facts, stepTable, styles, catalog) ==
    LET pairs == {<<f.wo, f.step>> : f \in {x \in facts : x.wo # NoName}}
        orders == {p[1] : p \in pairs}
        metadata == BatchStepMetadata(stepTable, orders)
        styleOf == InitialStyleNumbers(styles, orders)
    IN  {[wo |-> p[1], step |-> p[2], time |-> Get(metadata, p, {}),
          product |-> Get(catalog, p[1], NoName), style |-> styleOf[p[1]]] : p \in pairs}

RowCount(facts) == MapThenSumSet(LAMBDA f : f.count, facts)

(* The gate refuses a copy that lost too many of the source's records.     *)
Covered(facts, sourceFacts) ==
    RowCount(sourceFacts) > 0
      => 100 * RowCount(facts) >= MinCoverage * RowCount(sourceFacts)

-----------------------------------------------------------------------------
(* Production detail *)
SewingFacts(facts) == {f \in facts : f.flow \in AllowedFlows}
\* Fault: the system's own ids are shown.
KeepIds(facts) == facts

ByRemark(facts) == {[f EXCEPT !.emp = f.remark] : f \in facts}

StepMetadata(snapshots) ==
    [k \in {<<t.wo, t.step>> : t \in snapshots} |->
        (CHOOSE t \in snapshots : <<t.wo, t.step>> = k).time]
OrderInfo(snapshots) ==
    [w \in {t.wo : t \in snapshots} |-> CHOOSE t \in snapshots : t.wo = w]
StyleOf(snapshots) ==
    LET info == OrderInfo(snapshots) IN [w \in DOMAIN info |-> info[w].style]
ProductOf(snapshots) ==
    LET info == OrderInfo(snapshots) IN [w \in DOMAIN info |-> info[w].product]

HistoryFlowHourly(facts) ==
    LET timed == {f \in SewingFacts(facts) : f.hour >= 0}
    IN  PerFlow(timed, LAMBDA own : Ordered(HourTotals(own), HourBefore))

HistoryFlowEmployees(facts, snapshots) ==
    BuildFlowEmployees(DetailLines(ByRemark(SewingFacts(facts))),
                       StepMetadata(snapshots), StyleOf(snapshots))

HistoryFlowOverview(facts, snapshots) ==
    PerFlow(SewingFacts(facts),
        LAMBDA own : [stepnos |-> FlowSteps(own), total_workers |-> Workers(own),
                      initial_styles |-> FlowStyles(own, StyleOf(snapshots))])

HistoryAllStepnos(facts) ==
    LET steps == {f.step : f \in facts}
    IN  Ordered({s \in steps : Total({f \in facts : f.step = s}) # 0}, >)

HistoryStepnoEmployees(facts) ==
    PerStep(ByRemark(SewingFacts(facts)), LAMBDA own :
        {[emp |-> Member(g).emp, qty |-> Total(g), flows |-> {f.flow : f \in g}]
           : g \in Groups(own, LAMBDA f : f.emp)})

HistoryWorkorders(facts, snapshots, steps) ==
    LET own == ApplyFlowFilter(ApplyStepnoFilter(facts, steps), steps)
    IN  {[wo |-> Member(g).wo, qty |-> Total(g), worker_count |-> Workers(g),
          flows |-> {f.flow : f \in g},
          product |-> Get(ProductOf(snapshots), Member(g).wo, NoName)]
           : g \in Groups(own, LAMBDA f : f.wo)}

HistoryProductOverview(facts, snapshots) ==
    LET cells == {[wo |-> Member(g).wo, step |-> Member(g).step, flow |-> Member(g).flow,
                   qty |-> Total(g), cumulative |-> 0, workers |-> Workers(g)]
                    : g \in Groups(facts, LAMBDA f : <<f.wo, f.step, f.flow>>)}
    IN  ProductTree(cells, StepMetadata(snapshots), ProductOf(snapshots), StyleOf(snapshots))

HistoryTargetAnalysis(facts) ==
    AggregateTargetAnalysis({f \in facts : f.step = FlowStep /\ f.flow # NoName}, VisibleFlows)

-----------------------------------------------------------------------------
(* Statistics of a date, by an optional selection of steps.  The flow      *)
(* filter applies to a selection with the sewing step in it, and to        *)
(* neither the flows nor the stations.                                     *)
DateRecords(facts, steps) == ApplyFlowFilter(ApplyStepnoFilter(facts, steps), steps)

LocalBasicStats(facts, steps) ==
    LET own == DateRecords(facts, steps)
    IN  [workorder_count |-> Distinct(own, LAMBDA f : f.wo), total_qty |-> Total(own)]

LocalHourlyStats(facts, steps) == HourTotals(DateRecords(facts, steps))

LocalProcessStats(facts, steps) ==
    {[step |-> Member(g).step, qty |-> Total(g)]
       : g \in Groups(DateRecords(facts, steps), LAMBDA f : f.step)}

LocalProcessByFlow(facts, steps) ==
    {[step |-> Member(g).step, flow |-> Member(g).flow, qty |-> Total(g)]
       : g \in Groups({f \in facts : f.step \in steps /\ f.flow # NoName},
                      LAMBDA f : <<f.step, f.flow>>)}

LocalStationRanking(facts, steps, limit) ==
    SqlTop({[station |-> <<Member(g).flow, Member(g).station>>, qty |-> Total(g)]
              : g \in Groups({f \in ApplyStepnoFilter(facts, steps) :
                                f.flow # NoName /\ f.station # NoName},
                             LAMBDA f : <<f.flow, f.station>>)}, limit)

LocalWorkordersList(facts, steps, limit) ==
    SqlTop({[wo |-> Member(g).wo, qty |-> Total(g), flows |-> {f.flow : f \in g}]
              : g \in Groups(DateRecords(facts, steps), LAMBDA f : f.wo)}, limit)

(* copies: the facts of every stored date up to the one asked for.         *)
LocalMonthlyTotal(copies, steps) ==
    {[day |-> d, qty |-> Total(ApplyStepnoFilter(copies[d], steps))]
       : d \in {x \in DOMAIN copies : ApplyStepnoFilter(copies[x], steps) # {}}}

LocalMonthlyProcess(copies, steps) ==
    {[day |-> k[1], step |-> k[2], qty |-> Total({f \in copies[k[1]] : f.step = k[2]})]
       : k \in {x \in (DOMAIN copies) \X steps : \E f \in copies[x[1]] : f.step = x[2]}}

DateStats(copies, date, steps) ==
    LET facts == copies[date]
        processes == LocalProcessStats(facts, steps)
        top == Ranked(processes, LAMBDA x : x.step)
        allSteps == {p.step : p \in {x \in processes : x.qty # 0}}
        flows == LocalProcessByFlow(facts, allSteps)
    IN  LocalBasicStats(facts, steps) @@
        [hourly_stats |-> LocalHourlyStats(facts, steps),
         process_flow_stats |-> flows,
         monthly_total_trend |-> LocalMonthlyTotal(copies, steps),
         monthly_process_stats |->
            LocalMonthlyProcess(copies, {x.step : x \in Elements(Top(top, ProcessLimit))}),
         heatmap_matrix |-> HeatmapMatrix(Ordered(flows, LAMBDA x, y :
                              x.step < y.step \/ (x.step = y.step /\ x.flow < y.flow))),
         station_ranking |-> LocalStationRanking(facts, steps, StationLimit),
         top_processes |-> Top(top, ProcessLimit),
         workorders |-> LocalWorkordersList(facts, steps, WorkorderLimit),
         all_stepnos |-> Ordered(allSteps, >)]

LocalWorkorderDetail(facts, wo) ==
    LET own == {f \in facts : f.wo = wo}
    IN  [total_qty |-> Total(own),
         steps |-> {[step |-> Member(g).step, qty |-> Total(g), count |-> Cardinality(g)]
                      : g \in Groups(own, LAMBDA f : f.step)}]

-----------------------------------------------------------------------------
(* Kanban *)
ApplyKanbanFilters(facts, filter) ==
    {f \in facts : /\ filter.stepnos = {} \/ f.step \in filter.stepnos
                   /\ filter.wrk_orders = {} \/ f.wo \in filter.wrk_orders
                   /\ filter.flows = {} \/ f.flow \in filter.flows
                   /\ filter.emps = {} \/ f.emp \in filter.emps}
Shown(facts, filter) == {f \in facts : filter.show_all \/ f.flow \notin HiddenFlows}

MergeWorkerRows(facts) ==
    {[emp |-> Member(g).emp, qty |-> Total(g), stepnos |-> {f.step : f \in g},
      wrk_orders |-> {f.wo : f \in g} \ {NoName}, flows |-> {f.flow : f \in g} \ {NoName}]
       : g \in Groups(facts, LAMBDA f : f.emp)}

LocalKanbanStats(facts, filter) ==
    LET workers == MergeWorkerRows(Shown(ApplyKanbanFilters(facts, filter), filter))
        count == Cardinality(workers)
    IN  [worker_count |-> count, total_production |-> Total(workers),
         avg_production |-> IF count = 0 THEN 0 ELSE RoundHalfEven(Total(workers), count),
         max_production |-> IF count = 0 THEN 0 ELSE Max({w.qty : w \in workers}),
         max_worker |-> SqlTop(workers, 1)]

LocalKanbanRanking(facts, filter, page, size) ==
    LET workers == MergeWorkerRows(Shown(ApplyKanbanFilters(facts, filter), filter))
        ranked == Ranked(workers, LAMBDA x : x.emp)
        shown == Page(ranked, page, size)
    IN  [total_count |-> Len(ranked), total_pages |-> TotalPages(Len(ranked), size),
         workers |-> [i \in DOMAIN shown |-> shown[i] @@ [rank |-> (page - 1) * size + i]]]

LocalKanbanFilterOptions(facts, filter) ==
    LET base == Shown(facts, filter)
    IN  [stepnos |-> {f.step : f \in ApplyKanbanFilters(base, [filter EXCEPT !.stepnos = {}])},
         wrk_orders |-> {f.wo : f \in ApplyKanbanFilters(base, [filter EXCEPT !.wrk_orders = {}])},
         flows |-> {f.flow : f \in ApplyKanbanFilters(base, [filter EXCEPT !.flows = {}])} \ {NoName},
         emps |-> {f.emp : f \in ApplyKanbanFilters(base, [filter EXCEPT !.emps = {}])}]
=============================================================================
