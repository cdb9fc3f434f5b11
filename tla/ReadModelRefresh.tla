---------------------------- MODULE ReadModelRefresh ----------------------------
(***************************************************************************)
(* The way of the production rows to the pages: the minute task collects   *)
(* the facts of the business date from the remote table in several reads   *)
(* of one transaction, folds them into views, validates and publishes      *)
(* them (tasks.py, read_model/builder.py); after midnight the day is       *)
(* copied into the history (history_store.py).  Meanwhile the factory      *)
(* keeps registering and withdrawing rows.                                 *)
(***************************************************************************)
EXTENDS HistoryViews

CONSTANTS
    Candidates,     \* rows the factory may register
    Opening,        \* the tables the day may start from
    People,         \* persons of the remote table pyperson: [sysid, dorm, worker]
    StepTable,      \* standard times: [wo, step, time]
    Styles,         \* initial styles by order
    Catalog,        \* product names by order
    MonthStart, FirstDay, LastDay,
    Selections, Filters, PageSize,      \* requests of the pages
    MaxChanges      \* bound: rows registered or withdrawn after the start

ASSUME OpeningAssumption ==
    /\ FirstDay \in Int /\ LastDay \in Int /\ \A r \in Candidates : r.day \in Int
    /\ \A rows \in Opening : rows \subseteq Candidates /\ \A r \in rows : r.day <= FirstDay

VARIABLES
    table,          \* the rows of pytckreg3
    today,          \* get_business_date()
    changes,        \* rows registered or withdrawn so far
    collection,     \* the task's progress: [phase, date, view, source]
    monthly,        \* cache entry of the month: [date -> optional record]
    published,      \* [date -> optional [rows, source, monthly]]
    refused,        \* optional [rows, date]: what validation last refused
    copies          \* [date -> optional [rows, facts, snapshots]]

refreshVars == <<table, today, changes, collection, monthly, published, refused, copies>>

Days == FirstDay..LastDay
Idle == [phase |-> "idle"]

RefreshInit ==
    /\ today = FirstDay
    /\ table \in Opening
    /\ changes = 0
    /\ collection = Idle
    /\ monthly = [d \in Days |-> {}]
    /\ published = [d \in Days |-> {}]
    /\ refused = {}
    /\ copies = [d \in Days |-> {}]

-----------------------------------------------------------------------------
(* The factory *)
RegisterRow(r) ==
    /\ changes < MaxChanges /\ r.day <= today /\ r \notin table
    /\ table' = table \cup {r}
    /\ changes' = changes + 1
    /\ UNCHANGED <<today, collection, monthly, published, refused, copies>>

WithdrawRow(r) ==
    /\ changes < MaxChanges /\ r \in table
    /\ table' = table \ {r}
    /\ changes' = changes + 1
    /\ UNCHANGED <<today, collection, monthly, published, refused, copies>>

Midnight ==
    /\ today < LastDay
    /\ today' = today + 1
    /\ UNCHANGED <<table, changes, collection, monthly, published, refused, copies>>

-----------------------------------------------------------------------------
(* The minute task.  Under REPEATABLE READ every read of the collection    *)
(* sees the rows of the first one.                                         *)
ReadFacts ==
    /\ collection.phase = "idle"
    /\ collection' =
         [phase |-> "facts", date |-> today, view |-> table,
          source |-> [date |-> today, facts |-> FactRows(table, today),
                      remarks |-> EmployeeRemarkMap(People, table)]]
    /\ UNCHANGED <<table, today, changes, monthly, published, refused, copies>>

Orders(facts) == {f.wo : f \in facts} \ {NoName}

\* The facts of a collection together with all else that is read for their orders.
Completed(source, rows) ==
    LET orders == Orders(source.facts)
    IN  [date |-> source.date, facts |-> source.facts, remarks |-> source.remarks,
         cumulative |-> CumulativeRows(rows, orders),
         products |-> ReadModelProducts(Catalog, orders),
         styles |-> InitialStyleNumbers(Styles, orders),
         metadata |-> BatchStepMetadata(StepTable, orders)]

\* Fault: outside the transaction.
ReadCumulativeLate ==
    /\ collection.phase = "facts"
    /\ collection' = [collection EXCEPT !.phase = "collected", !.source = Completed(@, table)]
    /\ UNCHANGED <<table, today, changes, monthly, published, refused, copies>>

ReadCumulative ==
    /\ collection.phase = "facts"
    /\ collection' = [collection EXCEPT !.phase = "collected",
                                         !.source = Completed(@, collection.view)]
    /\ UNCHANGED <<table, today, changes, monthly, published, refused, copies>>

(* A query times out or the connection is lost: the task is retried.       *)
AbortCollection ==
    /\ collection.phase # "idle"
    /\ collection' = Idle
    /\ UNCHANGED <<table, today, changes, monthly, published, refused, copies>>

SnapshotOf(p) ==
    BuildSnapshot(p.source, p.monthly, AggregateTargetAnalysis(p.source.facts, VisibleFlows))

(* The earlier days of the month are read outside the transaction, and the *)
(* cache is written before the snapshot is validated.                      *)
BuildAndPublish ==
    /\ collection.phase = "collected"
    /\ LET date == collection.date
           month == MonthlyStats(collection.source, table, monthly[date], MonthStart)
           built == [rows |-> collection.view, source |-> collection.source, monthly |-> month]
       IN  /\ monthly' = [monthly EXCEPT ![date] = {month}]
           /\ refused' = IF ValidSnapshot(SnapshotOf(built)) THEN {}
                         ELSE {[rows |-> built.rows, date |-> date]}
           /\ published' = IF refused' = {} /\ today = date
                           THEN [published EXCEPT ![date] = {built}] ELSE published
    /\ collection' = Idle
    /\ UNCHANGED <<table, today, changes, copies>>

-----------------------------------------------------------------------------
(* The history of a day that has ended *)
CopyDay(d) ==
    LET facts == LoadFacts(table, d, People)
    IN  /\ d < today
        /\ Covered(facts, FactRows(table, d))
        /\ copies' = [copies EXCEPT ![d] =
                        {[rows |-> table, facts |-> facts,
                          snapshots |-> LoadMetadata(facts, StepTable, Styles, Catalog)]}]
        /\ UNCHANGED <<table, today, changes, collection, monthly, published, refused>>

RefreshNext ==
    \/ \E r \in Candidates : RegisterRow(r) \/ WithdrawRow(r)
    \/ Midnight
    \/ ReadFacts \/ ReadCumulative \/ AbortCollection \/ BuildAndPublish
    \/ \E d \in Days : CopyDay(d)

RefreshSpec == RefreshInit /\ [][RefreshNext]_refreshVars

-----------------------------------------------------------------------------
(* Properties *)

OfDay(rows, d) == ApplyBatchFlowFilter(Records(rows, d))
Uncumulated(byFlow) ==
    [f \in DOMAIN byFlow |->
        {[e EXCEPT !.cumulative = 0, !.steps = {[s EXCEPT !.cumulative = 0] : s \in @}]
           : e \in byFlow[f]}]

(* However the factory changes its rows between the reads, what is         *)
(* published answers every question as the remote table would have at one  *)
(* instant: the views folded from the facts equal the batch queries over   *)
(* the rows of the first read, and the accumulated output of an employee   *)
(* is the sum of the very same rows.  (ReadModelFactSource against the     *)
(* get_batch functions of queries.py it replaces.)                         *)
SnapshotIsOneInstant ==
    [][\A d \in Days : \A pub \in published'[d] \ published[d] :
        LET rows == pub.rows
            source == pub.source
            Sets(byStep) == [s \in DOMAIN byStep |-> Elements(byStep[s])]
            ranking == FactStationRanking(source, StationLimit)
            allowed == BatchStationRanking(rows, d, StationLimit)
            remarks == EmployeeRemarkMap(People, rows)
            numbered == {[r EXCEPT !.emp = remarks[r.emp]] : r \in {x \in rows : x.emp \in DOMAIN remarks}}
            employees == FactFlowEmployees(source)
            products == FactProductOverview(source)
            Sum(flow, e, s) ==
                Total({r \in numbered : /\ r.flow = flow /\ r.emp = e.emp
                                        /\ r.step = s.step /\ r.wo = s.wo})
        IN  /\ FactBasicStats(source) = BatchBasicStats(rows, d)
            /\ Sets(FactHourlyStats(source)) = BatchHourlyStats(rows, d)
            /\ Sets(FactProcessByFlow(source)) = BatchProcessByFlow(rows, d)
            /\ DOMAIN ranking = DOMAIN allowed
            /\ \A s \in DOMAIN ranking : Elements(ranking[s]) \in allowed[s]
            /\ Sets(FactFlowHourly(source)) = BatchFlowHourly(numbered, d)
            /\ FactStepnoEmployees(source) = BatchStepnoEmployees(numbered, d)
            /\ \A f \in DOMAIN employees : \A e \in employees[f] : \A s \in e.steps :
                  s.wo # NoName => s.cumulative = Sum(f, e, s)
            /\ Uncumulated(employees) = BatchFlowEmployees(numbered, d, StepTable, Styles)
            /\ MapThenSumSet(LAMBDA p : p.cumulative, products)
                 = Total({r \in rows : r.wo \in Orders(FactRows(numbered, d))})
            /\ MapThenSumSet(LAMBDA p : p.total_qty, products) = Total(Records(numbered, d))]_published

(* A collection is refused for one reason only: at some step other than    *)
(* the sewing step the rows without a line do not add up to nothing.  Then *)
(* it is always refused, whatever the cache of the month holds.            *)
(* (_validate_realtime_totals; _refresh_cached_monthly_today.)             *)
Unnamed(rows, d) ==
    \E s \in {r.step : r \in rows} :
        Total({r \in OfDay(rows, d) : r.step = s /\ r.flow = NoName}) # 0

RefusedOnlyForRowsWithoutLine ==
    /\ \A d \in Days : \A p \in published[d] : ~Unnamed(p.rows, d)
    /\ \A x \in refused : Unnamed(x.rows, x.date)

(* The month a page shows ends with the business date itself, once, with   *)
(* the hours and the total the page shows for the day: the cached rows of  *)
(* an earlier round are gone, those of a step that vanished included.      *)
(* (_refresh_cached_monthly_today and the months of get_batch_stats.)      *)
MonthEndsWithToday ==
    [][\A d \in Days : \A pub \in published'[d] \ published[d] :
        LET snapshot == SnapshotOf(pub)
            On(list) == SelectSeq(list, LAMBDA x : x.day = d)
            Hours(view) == {[hour |-> x.hour, qty |-> x.qty]
                              : x \in {y \in view.monthly_hourly_stats : y.day = d}}
        IN  /\ \A s \in DOMAIN snapshot.realtime.step :
                  LET view == snapshot.realtime.step[s]
                  IN  /\ On(view.monthly_total_trend) = <<[day |-> d, qty |-> view.total_qty]>>
                      /\ Hours(view) = Elements(view.hourly_stats)
                      /\ \A i, j \in DOMAIN view.monthly_total_trend :
                           i < j => view.monthly_total_trend[i].day < view.monthly_total_trend[j].day
            /\ \A r \in snapshot.realtime.all.monthly_hourly_stats :
                  r.day = d => r.step \in DOMAIN snapshot.realtime.step]_published

(* The orders that rank among the first WorkorderLimit of their step.      *)
Leading(rows, s) ==
    LET own == {r \in rows : r.step = s}
        orders == {r.wo : r \in own}
        Qty(w) == Total({r \in own : r.wo = w})
        Ahead(w) == {v \in orders : Qty(v) > Qty(w) \/ (Qty(v) = Qty(w) /\ v < w)}
    IN  {w \in orders : Cardinality(Ahead(w)) < WorkorderLimit}

(* Whatever steps a page selects, or none for all of them, its totals and  *)
(* its hours are those of the rows of these steps; the stream shows what   *)
(* polling shows, and the pages of work orders, put together, account for  *)
(* the same total unless the sewing step is one of several (or of all).    *)
(* The orders of a single step are counted in full.  The count of several  *)
(* steps, or of all, has each order once, but an order is dropped from it  *)
(* that ranks beyond the first WorkorderLimit (20) at every one of the     *)
(* steps: it is the length of a list merged from lists already cut         *)
(* (queries.py 320-341, statistics.py 419-442), so it is too small when a  *)
(* step has more orders.                                                   *)
(* (realtime, workorders and stream_payload in read_model/queries.py.)     *)
SelectionsAgree ==
    [][\A d \in Days : \A pub \in published'[d] \ published[d] :
        \A stepnos \in Selections :
        LET snapshot == SnapshotOf(pub)
            steps == Elements(stepnos)
            rows == {r \in OfDay(pub.rows, d) : steps = {} \/ r.step \in steps}
            view == Realtime(snapshot, stepnos)
            orders == Workorders(snapshot, 1, PageSize, steps)
            pages == UNION {Elements(Workorders(snapshot, p, PageSize, steps).items)
                              : p \in 1..orders.total_pages}
        IN  rows # {} =>
              /\ view.total_qty = Total(rows)
              /\ Elements(view.hourly_stats) = HourTotals({r \in rows : r.hour # NoHour})
              /\ view.workorder_count =
                   Cardinality(IF Len(stepnos) = 1 THEN {r.wo : r \in rows}
                               ELSE UNION {Leading(rows, r.step) : r \in rows})
              /\ Elements(view.monthly_total_trend) \cap [day : {d}, qty : Int]
                   = {[day |-> d, qty |-> Total(rows)]}
              /\ StreamPayload(snapshot, stepnos).data = view
              /\ Cardinality(pages) = orders.total
              /\ steps = {FlowStep} \/ (steps # {} /\ FlowStep \notin steps)
                   => Total(pages) = view.total_qty]_published

(* The kanban counts what the realtime page of the same step counts, its   *)
(* pages rank every worker once, and no choice it offers leads to an empty *)
(* page.  (The kanban_ methods of ReadModelQueries.)                       *)
KanbanAgrees ==
    [][\A d \in Days : \A pub \in published'[d] \ published[d] :
        \A filter \in Filters :
        LET snapshot == SnapshotOf(pub)
            stats == KanbanStats(snapshot, filter)
            first == KanbanRanking(snapshot, filter, 1, PageSize)
            workers == UNION {Elements(KanbanRanking(snapshot, filter, p, PageSize).workers)
                                : p \in 1..first.total_pages}
            options == KanbanFilterOptions(snapshot, filter)
            Found(f) == FilterKanbanFacts(snapshot.kanban, f) # {}
            step == snapshot.realtime.step
        IN  /\ Total(workers) = stats.total_production
            /\ {w.rank : w \in workers} = 1..stats.worker_count
            /\ stats.max_worker = {w.emp : w \in {x \in workers : x.rank = 1}}
            /\ \A s \in options.stepnos : Found([filter EXCEPT !.stepnos = {s}])
            /\ \A w \in options.wrk_orders : Found([filter EXCEPT !.wrk_orders = {w}])
            /\ \A f \in options.flows : Found([filter EXCEPT !.flows = {f}])
            /\ \A e \in options.emps : Found([filter EXCEPT !.emps = {e}])
            /\ \A s \in DOMAIN step :
                 KanbanStats(snapshot,
                    [stepnos |-> {s}, wrk_orders |-> {}, emps |-> {}, show_all |-> TRUE,
                     flows |-> IF s = FlowStep THEN AllowedFlows ELSE {}]).total_production
                   = step[s].total_qty]_published

(* The history of a day shows what its last realtime snapshot showed, when *)
(* both read the same rows: the production detail line by line, but for    *)
(* the accumulated output and the output without an hour, and the kanban   *)
(* but for employees without a number of their own.                        *)
(* (RemoteHistorySource.load, historical_queries.py, local_queries.py.)    *)
HistoryKeepsTheDay ==
    [][\A d \in Days : \A pub \in published'[d], copy \in copies'[d] : copy.rows = pub.rows =>
        LET snapshot == SnapshotOf(pub)
            facts == copy.facts
            hourly == snapshot.detail.flow_hourly
            Timed(f) == SelectSeq(hourly[f], LAMBDA x : x.hour # NoHour)
            known == DOMAIN pub.source.remarks
            days == [x \in {d} |-> facts]
        IN  /\ HistoryFlowEmployees(facts, copy.snapshots)
                 = Uncumulated(snapshot.detail.flow_employees)
            /\ HistoryFlowHourly(facts)
                 = [f \in {x \in DOMAIN hourly : Timed(x) # <<>>} |-> Timed(f)]
            /\ HistoryFlowOverview(facts, copy.snapshots) = snapshot.detail.flow_overview
            /\ HistoryStepnoEmployees(facts) = snapshot.detail.stepno_employees
            /\ \A s \in {f.step : f \in facts} :
                 LET stats == DateStats(days, d, {s})
                     own == {f \in pub.source.facts : f.emp \in known /\ f.step = s}
                 IN  stats.total_qty = Total(ApplyFlowFilter(own, {s}))
            /\ \A filter \in Filters :
                 known # {} /\ (filter.emps = {} \/ filter.emps \cap known # {}) =>
                   LET numbered == [filter EXCEPT !.emps = IF @ = {} THEN known ELSE @ \cap known]
                       then == LocalKanbanStats(facts, filter)
                       now == KanbanStats(snapshot, numbered)
                   IN  /\ then.worker_count = now.worker_count
                       /\ then.total_production = now.total_production
                       /\ now.max_worker \in {{w.emp : w \in top} : top \in then.max_worker}
            /\ HistoryTargetAnalysis(facts)
                 = AggregateTargetAnalysis({f \in pub.source.facts : f.emp \in known},
                                           VisibleFlows)]_<<published, copies>>
=============================================================================
