---------------------------- MODULE RemoteQueries -----------------------------
(***************************************************************************)
(* The queries over the remote production database (queries.py): the       *)
(* filters, what one collection of the read model reads, the batch queries *)
(* grouped by step, and the production detail.  A query set is a set of    *)
(* rows; a list whose order no caller uses is the set of its records; an   *)
(* optional value is a set of at most one element.                         *)
(***************************************************************************)
EXTENDS ProductionRows

-----------------------------------------------------------------------------
(* Filters *)
ApplyStepnoFilter(rows, steps) ==
    IF steps = {} THEN rows ELSE {r \in rows : r.step \in steps}

ApplyFlowFilter(rows, steps) ==
    IF FlowStep \in steps THEN {r \in rows : r.flow \in AllowedFlows} ELSE rows

ApplyBatchFlowFilter(rows) ==
    {r \in rows : r.step # FlowStep \/ r.flow \in AllowedFlows}

Records(table, date) == {r \in table : r.day = date}
RecordsBetween(table, first, last) == {r \in table : r.day # NoDay /\ r.day \in first..last}
DetailRecords(table, date) == {r \in Records(table, date) : r.flow \in AllowedFlows}

-----------------------------------------------------------------------------
(* What one collection of the read model reads *)

(* A person is [sysid, dorm, worker]; employees without a number of their  *)
(* own are left out.                                                       *)
EmployeeNumber(person) == IF person.dorm # NoName THEN person.dorm ELSE person.worker

UniqueRemarks(people) ==
    LET numbered == {p \in people : EmployeeNumber(p) # NoName}
        owned == {p \in numbered : \A q \in numbered :
                    EmployeeNumber(q) = EmployeeNumber(p) => q.sysid = p.sysid}
    IN  [e \in {p.sysid : p \in owned} |->
            EmployeeNumber(CHOOSE p \in owned : p.sysid = e)]

EmployeeRemarkMap(people, table) ==
    UniqueRemarks({p \in people : \E r \in table : r.emp = p.sysid})

FactRows(table, date) ==
    LET Key(r) == <<r.emp, r.step, r.wo, r.flow, r.station, r.hour>>
    IN  {LET m == Member(g)
         IN  [emp |-> m.emp, step |-> m.step, wo |-> m.wo, flow |-> m.flow,
              station |-> m.station, hour |-> m.hour,
              qty |-> Total(g), count |-> Cardinality(g)]
           : g \in Groups(Records(table, date), Key)}

CumulativeRows(table, orders) ==
    LET Key(r) == <<r.emp, r.step, r.wo, r.flow>>
        named == orders \ {NoName}
    IN  {LET m == Member(g)
         IN  [emp |-> m.emp, step |-> m.step, wo |-> m.wo, flow |-> m.flow,
              cumulative |-> Total(g)]
           : g \in Groups({r \in table : r.wo \in named /\ r.day # NoDay}, Key)}

(* catalog is the local table of production orders by order number, styles *)
(* the remote table of initial styles, stepTable a set of [wo, step, time] *)
(* with time an optional value.                                            *)
ReadModelProducts(catalog, orders) == [w \in orders |-> Get(catalog, w, NoName)]

InitialStyleNumbers(styles, orders) ==
    [w \in orders \ {NoName} |-> Get(styles, w, NoName)]

BatchStepMetadata(stepTable, orders) ==
    LET rows == {t \in stepTable : t.wo \in orders}
    IN  [k \in {<<t.wo, t.step>> : t \in rows} |->
            (CHOOSE t \in rows : <<t.wo, t.step>> = k).time]

-----------------------------------------------------------------------------
(* Batch queries by step *)
PerStep(rows, F(_)) == [s \in {r.step : r \in rows} |-> F({r \in rows : r.step = s})]
PerFlow(rows, F(_)) == [f \in {r.flow : r \in rows} |-> F({r \in rows : r.flow = f})]

HourTotals(rows) ==
    {[hour |-> Member(g).hour, qty |-> Total(g)] : g \in Groups(rows, LAMBDA r : r.hour)}
DayTotals(rows) ==
    {[day |-> Member(g).day, qty |-> Total(g)] : g \in Groups(rows, LAMBDA r : r.day)}

BatchRecords(table, date) == ApplyBatchFlowFilter(Records(table, date))

BatchBasicStats(table, date) ==
    PerStep(BatchRecords(table, date),
        LAMBDA rows : [total_qty |-> Total(rows),
                       workorder_count |-> Distinct(rows, LAMBDA r : r.wo)])

BatchHourlyStats(table, date) == PerStep(BatchRecords(table, date), HourTotals)

BatchProcessByFlow(table, date) ==
    PerStep({r \in BatchRecords(table, date) : r.flow # NoName},
        LAMBDA rows : {[step |-> Member(g).step, flow |-> Member(g).flow, qty |-> Total(g)]
                        : g \in Groups(rows, LAMBDA r : r.flow)})

(* The lists the database may return: ties at the limit are its choice.    *)
BatchStationRanking(table, date, limit) ==
    PerStep({r \in BatchRecords(table, date) : r.flow # NoName /\ r.station # NoName},
        LAMBDA rows : SqlTop({[station |-> <<Member(g).flow, Member(g).station>>, qty |-> Total(g)]
                               : g \in Groups(rows, LAMBDA r : <<r.flow, r.station>>)}, limit))

(* The flows of an order are those of the whole day, not of the step.      *)
BatchWorkordersList(table, date, limit) ==
    LET records == BatchRecords(table, date)
        FlowsOf(wo) == {r.flow : r \in {x \in records : x.wo = wo}}
    IN  PerStep(records,
          LAMBDA rows : SqlTop({[wo |-> Member(g).wo, qty |-> Total(g), flows |-> FlowsOf(Member(g).wo)]
                                 : g \in Groups(rows, LAMBDA r : r.wo)}, limit))

MonthRecords(table, first, last) == ApplyBatchFlowFilter(RecordsBetween(table, first, last))

ByDay(S) == Ordered(S, LAMBDA x, y : x.day < y.day)
ByDayAndHour(S) ==
    Ordered(S, LAMBDA x, y : x.day < y.day \/ (x.day = y.day /\ x.hour < y.hour))

BatchMonthlyTotalTrend(table, first, last) ==
    PerStep(MonthRecords(table, first, last), LAMBDA rows : ByDay(DayTotals(rows)))

BatchMonthlyProcessStats(table, first, last) ==
    PerStep(MonthRecords(table, first, last),
        LAMBDA rows : ByDay({[day |-> d.day, step |-> Member(rows).step, qty |-> d.qty]
                              : d \in DayTotals(rows)}))

BatchMonthlyHourlyStats(table, first, last) ==
    PerStep({r \in MonthRecords(table, first, last) : r.hour # NoHour},
        LAMBDA rows : ByDayAndHour({[day |-> Member(g).day, hour |-> Member(g).hour, qty |-> Total(g)]
                                     : g \in Groups(rows, LAMBDA r : <<r.day, r.hour>>)}))

-----------------------------------------------------------------------------
(* Production detail *)
Workers(rows) == Distinct(rows, LAMBDA r : r.emp)

FlowSteps(rows) ==
    PerStep(rows, LAMBDA ofStep : [qty |-> Total(ofStep), workers |-> Workers(ofStep)])

BatchFlowOverview(table, date) ==
    PerFlow(DetailRecords(table, date),
        LAMBDA rows : [stepnos |-> FlowSteps(rows), total_workers |-> Workers(rows)])

BatchFlowHourly(table, date) == PerFlow(DetailRecords(table, date), HourTotals)

(* The employees of every flow: lines is a set of [flow, emp, step, wo,    *)
(* qty, cumulative]; the value of an employee's output is known only when  *)
(* the time of every one of the steps is.                                  *)
BuildFlowEmployees(lines, metadata, styleOf) ==
    LET Step(l) ==
          LET time == Get(metadata, <<l.wo, l.step>>, {})
          IN  [step |-> l.step, qty |-> l.qty, wo |-> l.wo,
               style |-> Get(styleOf, l.wo, NoName), time |-> time,
               output |-> {l.qty * t : t \in time}, cumulative |-> l.cumulative]
        Employee(own) ==
          LET steps == {Step(l) : l \in own}
          IN  [emp |-> Member(own).emp,
               total_qty |-> Total(own),
               cumulative |-> MapThenSumSet(LAMBDA l : l.cumulative, own),
               output |-> IF \E s \in steps : s.output = {} THEN {}
                          ELSE {MapThenSumSet(LAMBDA s : CHOOSE v \in s.output : TRUE, steps)},
               steps |-> steps,
               workorders |-> {l.wo : l \in own} \ {NoName}]
    IN  PerFlow(lines, LAMBDA ofFlow :
            {Employee(own) : own \in Groups(ofFlow, LAMBDA l : l.emp)})

DetailLines(rows) ==
    {[flow |-> Member(g).flow, emp |-> Member(g).emp, step |-> Member(g).step,
      wo |-> Member(g).wo, qty |-> Total(g), cumulative |-> 0]
       : g \in Groups(rows, LAMBDA r : <<r.flow, r.emp, r.step, r.wo>>)}

BatchFlowEmployees(table, date, stepTable, styles) ==
    LET lines == DetailLines(DetailRecords(table, date))
        orders == {l.wo : l \in lines} \ {NoName}
    IN  BuildFlowEmployees(lines, BatchStepMetadata(stepTable, orders),
                           InitialStyleNumbers(styles, orders))

BatchStepnoEmployees(table, date) ==
    PerStep(DetailRecords(table, date), LAMBDA rows :
        {[emp |-> Member(g).emp, qty |-> Total(g), flows |-> {r.flow : r \in g}]
           : g \in Groups(rows, LAMBDA r : r.emp)})

(* The tree product - order - step - flow over cells [wo, step, flow, qty, *)
(* cumulative, workers].  Orders of no product are filed under NoName.     *)
ProductTree(cells, metadata, productOf, styleOf) ==
    LET Cumulative(S) == MapThenSumSet(LAMBDA x : x.cumulative, S)
        Crew(S) == MapThenSumSet(LAMBDA x : x.workers, S)
        StepNode(c) ==
          LET time == Get(metadata, <<Member(c).wo, Member(c).step>>, {})
          IN  [step |-> Member(c).step, time |-> time,
               output |-> {Total(c) * t : t \in time}, qty |-> Total(c),
               cumulative |-> Cumulative(c), workers |-> Crew(c),
               flows |-> {[flow |-> x.flow, qty |-> x.qty, cumulative |-> x.cumulative,
                           workers |-> x.workers] : x \in c}]
        OrderNode(c) ==
          LET nodes == {StepNode(s) : s \in Groups(c, LAMBDA x : x.step)}
          IN  [wo |-> Member(c).wo, style |-> Get(styleOf, Member(c).wo, NoName),
               qty |-> Total(nodes), cumulative |-> Cumulative(nodes), stepnos |-> nodes]
        ProductNode(c) ==
          LET nodes == {OrderNode(w) : w \in Groups(c, LAMBDA x : x.wo)}
          IN  [product |-> Get(productOf, Member(c).wo, NoName), total_qty |-> Total(nodes),
               cumulative |-> Cumulative(nodes), wrk_orders |-> nodes]
    IN  {ProductNode(c) : c \in Groups(cells, LAMBDA x : Get(productOf, x.wo, NoName))}

BatchProductOverview(table, date, stepTable, catalog) ==
    LET rows == Records(table, date)
        cells == {[wo |-> Member(g).wo, step |-> Member(g).step, flow |-> Member(g).flow,
                   qty |-> Total(g), cumulative |-> 0, workers |-> Workers(g)]
                    : g \in Groups(rows, LAMBDA r : <<r.wo, r.step, r.flow>>)}
        orders == {r.wo : r \in rows}
    IN  ProductTree(cells, BatchStepMetadata(stepTable, orders \ {NoName}),
                    ReadModelProducts(catalog, orders), <<>>)
=============================================================================
