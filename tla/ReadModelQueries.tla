---------------------------- MODULE ReadModelQueries ----------------------------
(***************************************************************************)
(* The queries of the pages over one published snapshot                    *)
(* (read_model/queries.py): the realtime view of the selected steps, the   *)
(* pages of work orders, and the kanban.  The selected steps are a         *)
(* sequence, as the request parameter lists them; an answer is the data    *)
(* alone, the version and staleness travel with the read of the store.     *)
(***************************************************************************)
EXTENDS RealtimeViews

-----------------------------------------------------------------------------
(* Merging the views of several steps *)
EmptyHeatmap == [hours |-> {}, flows |-> {}, data |-> <<>>]

(* The answer for a step the snapshot does not have.                       *)
EmptyRealtime(snapshot) ==
    [workorder_count |-> 0, total_qty |-> 0, date |-> snapshot.business_date,
     hourly_stats |-> <<>>, process_flow_stats |-> <<>>, monthly_process_stats |-> <<>>,
     monthly_total_trend |-> <<>>, monthly_hourly_stats |-> {},
     heatmap_matrix |-> EmptyHeatmap, station_ranking |-> <<>>, station_stats |-> <<>>,
     top_processes |-> <<>>, workorders |-> <<>>,
     all_stepnos |-> snapshot.realtime.all.all_stepnos]

(* The lists of one field, one view after the other.                       *)
Lists(views, Field(_)) == FlattenSeq([i \in DOMAIN views |-> Field(views[i])])

(* Rows with equal keys added up, in the order of the keys.                *)
SumRows(list, Key(_), Name(_), Record(_, _)) ==
    Ordered(Merged(list, Key, Record), LAMBDA x, y : Name(x) < Name(y))

(* The matrices of single steps carry stepnos, flows and data: the merge   *)
(* looks for hours, finds none, and keeps the names of the flows.          *)
MergeHeatmaps(matrices) ==
    LET Hours(m) == IF "hours" \in DOMAIN m THEN m.hours ELSE {}
        hours == UNION {Hours(matrices[i]) : i \in DOMAIN matrices}
        flows == UNION {matrices[i].flows : i \in DOMAIN matrices}
    IN  [hours |-> hours, flows |-> flows,
         data |-> [h \in hours, f \in flows |->
                     MapThenSumSet(LAMBDA i : matrices[i].data[h, f],
                       {i \in DOMAIN matrices : h \in Hours(matrices[i]) /\ f \in matrices[i].flows})]]

MergeRealtimeViews(views) ==
    LET stations == SumRows(Lists(views, LAMBDA v : v.station_ranking), LAMBDA x : x.station,
                            StationName, LAMBDA x, qty : [station |-> x.station, qty |-> qty])
        orders == MergedWorkorders(Lists(views, LAMBDA v : v.workorders))
    IN  [workorder_count |-> Len(orders),
         total_qty |-> MapThenSumSet(LAMBDA i : views[i].total_qty, DOMAIN views),
         date |-> views[1].date,
         hourly_stats |-> SumRows(Lists(views, LAMBDA v : v.hourly_stats), LAMBDA x : x.hour,
                            LAMBDA x : x.hour, LAMBDA x, qty : [hour |-> x.hour, qty |-> qty]),
         process_flow_stats |-> Lists(views, LAMBDA v : v.process_flow_stats),
         monthly_process_stats |-> Lists(views, LAMBDA v : v.monthly_process_stats),
         monthly_total_trend |-> SumRows(Lists(views, LAMBDA v : v.monthly_total_trend),
                            LAMBDA x : x.day, LAMBDA x : x.day,
                            LAMBDA x, qty : [day |-> x.day, qty |-> qty]),
         monthly_hourly_stats |-> UNION {views[i].monthly_hourly_stats : i \in DOMAIN views},
         heatmap_matrix |-> MergeHeatmaps([i \in DOMAIN views |-> views[i].heatmap_matrix]),
         station_ranking |-> stations,
         station_stats |-> Top(stations, StationLimit),
         top_processes |-> Lists(views, LAMBDA v : v.top_processes),
         workorders |-> Top(orders, WorkorderLimit),
         all_stepnos |-> views[1].all_stepnos]

WithStationStats(view) == view @@ [station_stats |-> Top(view.station_ranking, StationLimit)]

(* The views the snapshot has of a selection, in the order of the request. *)
SelectedViews(snapshot, stepnos) ==
    LET known == SelectSeq(stepnos, LAMBDA s : s \in DOMAIN snapshot.realtime.step)
    IN  [i \in DOMAIN known |-> WithStationStats(snapshot.realtime.step[known[i]])]

NoView == [empty |-> TRUE]       \* {}: what merging no view returns

ViewOf(snapshot, stepnos) ==
    LET views == SelectedViews(snapshot, stepnos)
    IN  CASE Len(stepnos) = 0 -> {WithStationStats(snapshot.realtime.all)}
          [] Len(stepnos) = 1 -> Elements(views)
          [] OTHER -> {IF views = <<>> THEN NoView ELSE MergeRealtimeViews(views)}

(* The polling endpoint replaces a missing view, the stream also one that  *)
(* merged nothing.                                                         *)
Realtime(snapshot, stepnos) ==
    LET view == ViewOf(snapshot, stepnos)
    IN  IF view = {} THEN EmptyRealtime(snapshot) ELSE CHOOSE v \in view : TRUE

StreamPayload(snapshot, stepnos) ==
    LET view == ViewOf(snapshot, stepnos)
    IN  [data |-> IF view \in {{}, {NoView}} THEN EmptyRealtime(snapshot)
                  ELSE CHOOSE v \in view : TRUE,
         process_list |-> snapshot.processes,
         detail_overview |-> snapshot.detail.flow_overview]

-----------------------------------------------------------------------------
(* Work orders *)
Page(list, page, size) ==
    SubSeq(list, (page - 1) * size + 1, Min({Len(list), page * size}))
TotalPages(count, size) == Max({1, (count + size - 1) \div size})

\* Fault: the sewing lines filter none of the rows.
UnfilteredItems(snapshot, steps) ==
    LET wanted == {r \in snapshot.workorders.rows : steps = {} \/ r.step \in steps}
        Item(own) == [wo |-> Member(own).wo,
                      qty |-> MapThenSumSet(LAMBDA r : r.total_qty, own),
                      worker_count |-> Cardinality(UNION {r.employee_ids : r \in own}),
                      flows |-> UNION {r.flows : r \in own},
                      product |-> Get(snapshot.workorders.products, Member(own).wo, NoName)]
    IN  Ranked({Item(own) : own \in Groups(wanted, LAMBDA r : r.wo)}, LAMBDA x : x.wo)

WorkorderItems(snapshot, steps) ==
    LET wanted == {r \in snapshot.workorders.rows :
                     /\ steps = {} \/ r.step \in steps
                     /\ FlowStep \in steps => r.flows \cap AllowedFlows # {}}
        Item(own) == [wo |-> Member(own).wo,
                      qty |-> MapThenSumSet(LAMBDA r : r.total_qty, own),
                      worker_count |-> Cardinality(UNION {r.employee_ids : r \in own}),
                      flows |-> UNION {r.flows : r \in own},
                      product |-> Get(snapshot.workorders.products, Member(own).wo, NoName)]
    IN  Ranked({Item(own) : own \in Groups(wanted, LAMBDA r : r.wo)}, LAMBDA x : x.wo)

Workorders(snapshot, page, size, steps) ==
    LET items == WorkorderItems(snapshot, steps)
    IN  [items |-> Page(items, page, size), total |-> Len(items),
         total_pages |-> TotalPages(Len(items), size)]

WorkorderDetail(snapshot, wo) ==
    Get(snapshot.workorder_details, wo, [total_qty |-> 0, steps |-> {}])

-----------------------------------------------------------------------------
(* Kanban: a filter is [stepnos, wrk_orders, flows, emps, show_all], with  *)
(* {} for a dimension nothing was chosen in.                               *)
FilterKanbanFacts(facts, filter) ==
    {f \in facts : /\ filter.show_all \/ f.flow \notin HiddenFlows
                   /\ filter.stepnos = {} \/ f.step \in filter.stepnos
                   /\ filter.wrk_orders = {} \/ f.wo \in filter.wrk_orders
                   /\ filter.flows = {} \/ f.flow \in filter.flows
                   /\ filter.emps = {} \/ f.emp \in filter.emps}

WorkerTotals(facts) ==
    [e \in {f.emp : f \in facts} |-> Total({f \in facts : f.emp = e})]

(* Python rounds half to even.                                             *)
RoundHalfEven(n, d) ==
    LET q == n \div d
        twice == 2 * (n % d)
    IN  IF twice > d \/ (twice = d /\ q % 2 = 1) THEN q + 1 ELSE q

KanbanStats(snapshot, filter) ==
    LET totals == WorkerTotals(FilterKanbanFacts(snapshot.kanban, filter))
        count == Cardinality(DOMAIN totals)
        total == MapThenSumSet(LAMBDA e : totals[e], DOMAIN totals)
        ranked == Ranked({[emp |-> e, qty |-> totals[e]] : e \in DOMAIN totals}, LAMBDA x : x.emp)
    IN  [worker_count |-> count, total_production |-> total,
         avg_production |-> IF count = 0 THEN 0 ELSE RoundHalfEven(total, count),
         max_production |-> IF count = 0 THEN 0 ELSE ranked[1].qty,
         max_worker |-> {ranked[i].emp : i \in {1} \cap DOMAIN ranked}]

KanbanRanking(snapshot, filter, page, size) ==
    LET Worker(own) == [emp |-> Member(own).emp, qty |-> Total(own),
                        stepnos |-> {f.step : f \in own},
                        wrk_orders |-> {f.wo : f \in own} \ {NoName},
                        flows |-> {f.flow : f \in own} \ {NoName}]
        workers == Ranked({Worker(own) : own \in Groups(FilterKanbanFacts(snapshot.kanban, filter),
                                                        LAMBDA f : f.emp)}, LAMBDA x : x.emp)
        shown == Page(workers, page, size)
    IN  [total_count |-> Len(workers), total_pages |-> TotalPages(Len(workers), size),
         workers |-> [i \in DOMAIN shown |-> shown[i] @@ [rank |-> (page - 1) * size + i]]]

\* Fault: the steps of all facts are offered.
OptionsOfAllSteps(snapshot, filter) ==
    LET found == FilterKanbanFacts(snapshot.kanban, filter)
    IN  [stepnos |-> {f.step : f \in snapshot.kanban}, wrk_orders |-> {f.wo : f \in found} \ {NoName},
         flows |-> {f.flow : f \in found} \ {NoName}, emps |-> {f.emp : f \in found}]

(* Every dimension offers what is left by the choices in the others.       *)
KanbanFilterOptions(snapshot, filter) ==
    LET Without(f) == FilterKanbanFacts(snapshot.kanban, f)
    IN  [stepnos |-> {f.step : f \in Without([filter EXCEPT !.stepnos = {}])},
         wrk_orders |-> {f.wo : f \in Without([filter EXCEPT !.wrk_orders = {}])} \ {NoName},
         flows |-> {f.flow : f \in Without([filter EXCEPT !.flows = {}])} \ {NoName},
         emps |-> {f.emp : f \in Without([filter EXCEPT !.emps = {}])}]
=============================================================================
