------------------------------ MODULE FactSource ------------------------------
(***************************************************************************)
(* The source of the realtime views (read_model/fact_source.py): the facts *)
(* of one collection, folded in memory into what the batch queries of      *)
(* RemoteQueries would have returned.  A source is                         *)
(*   [date, facts, cumulative, remarks, products, styles, metadata]        *)
(* and only the monthly history is still asked of the remote table.        *)
(***************************************************************************)
EXTENDS RemoteQueries

MapEmployeeRows(rows, remarks) ==
    {[r EXCEPT !.emp = remarks[r.emp]] : r \in {x \in rows : x.emp \in DOMAIN remarks}}

MappedFacts(source) == MapEmployeeRows(source.facts, source.remarks)
MappedCumulative(source) == MapEmployeeRows(source.cumulative, source.remarks)

RealtimeFacts(source) ==
    {f \in source.facts : f.step # FlowStep \/ f.flow \in AllowedFlows}
DetailFacts(source) == {f \in MappedFacts(source) : f.flow \in AllowedFlows}

(* A group's records of at most one per key, the last of them winning.     *)
CumulativeQty(source) ==
    LET rows == MappedCumulative(source)
        Key(r) == <<r.flow, r.emp, r.step, r.wo>>
    IN  [k \in {Key(r) : r \in rows} |-> (CHOOSE r \in rows : Key(r) = k).cumulative]

-----------------------------------------------------------------------------
(* Realtime views by step *)
FactBasicStats(source) ==
    PerStep(RealtimeFacts(source),
        LAMBDA facts : [total_qty |-> Total(facts),
                        workorder_count |-> Distinct(facts, LAMBDA f : f.wo)])

HourBefore(x, y) == x.hour # NoHour /\ (y.hour = NoHour \/ x.hour < y.hour)

FactHourlyStats(source) ==
    PerStep(RealtimeFacts(source), LAMBDA facts : Ordered(HourTotals(facts), HourBefore))

FactProcessByFlow(source) ==
    PerStep({f \in RealtimeFacts(source) : f.flow # NoName},
        LAMBDA facts :
            Ranked({[step |-> Member(g).step, flow |-> Member(g).flow, qty |-> Total(g)]
                      : g \in Groups(facts, LAMBDA f : f.flow)}, LAMBDA x : x.flow))

(* A station is named "(flow)[id]"; the names sort by flow and then id.    *)
StationName(x) == x.station[1] * 100 + x.station[2]

FactStationRanking(source, limit) ==
    PerStep({f \in RealtimeFacts(source) : f.flow # NoName /\ f.station # NoName},
        LAMBDA facts :
            Top(Ranked({[station |-> <<Member(g).flow, Member(g).station>>, qty |-> Total(g)]
                          : g \in Groups(facts, LAMBDA f : <<f.flow, f.station>>)},
                       StationName), limit))

FactWorkordersList(source, limit) ==
    PerStep(RealtimeFacts(source),
        LAMBDA facts :
            Top(Ranked({[wo |-> Member(g).wo, qty |-> Total(g), flows |-> {f.flow : f \in g},
                         product |-> Get(source.products, Member(g).wo, NoName),
                         style |-> Get(source.styles, Member(g).wo, NoName)]
                          : g \in Groups(facts, LAMBDA f : f.wo)}, LAMBDA x : x.wo), limit))

-----------------------------------------------------------------------------
(* Monthly views: the days before the business date come from the remote   *)
(* table, the business date from the facts.                                *)
HistoryEnd(source, last) == Min({last, source.date - 1})
HistoryRows(source, first, last, rows) ==
    IF first > HistoryEnd(source, last) THEN <<>> ELSE rows

MergeMonthlyRows(history, today) ==
    [s \in DOMAIN history \cup DOMAIN today |->
        Get(history, s, <<>>) \o Get(today, s, <<>>)]

TodayRows(source, first, last, byStep) ==
    IF first <= source.date /\ source.date <= last THEN byStep ELSE <<>>

FactMonthlyTotalTrend(source, table, first, last) ==
    LET basic == FactBasicStats(source)
    IN  MergeMonthlyRows(
          HistoryRows(source, first, last,
            BatchMonthlyTotalTrend(table, first, HistoryEnd(source, last))),
          TodayRows(source, first, last,
            [s \in DOMAIN basic |-> <<[day |-> source.date, qty |-> basic[s].total_qty]>>]))

FactMonthlyProcessStats(source, table, first, last) ==
    LET basic == FactBasicStats(source)
    IN  MergeMonthlyRows(
          HistoryRows(source, first, last,
            BatchMonthlyProcessStats(table, first, HistoryEnd(source, last))),
          TodayRows(source, first, last,
            [s \in DOMAIN basic |->
                <<[day |-> source.date, step |-> s, qty |-> basic[s].total_qty]>>]))

FactMonthlyHourlyStats(source, table, first, last) ==
    LET hourly == FactHourlyStats(source)
        Timed(list) == SelectSeq(list, LAMBDA x : x.hour # NoHour)
    IN  MergeMonthlyRows(
          HistoryRows(source, first, last,
            BatchMonthlyHourlyStats(table, first, HistoryEnd(source, last))),
          TodayRows(source, first, last,
            [s \in DOMAIN hourly |->
                [i \in DOMAIN Timed(hourly[s]) |->
                    [day |-> source.date, hour |-> Timed(hourly[s])[i].hour,
                     qty |-> Timed(hourly[s])[i].qty]]]))

-----------------------------------------------------------------------------
(* Production detail *)
(* Styles of a flow: every one of its orders counts, with the quantity of  *)
(* the sewing step alone.                                                  *)
FlowStyles(facts, styleOf) ==
    LET Style(f) == Get(styleOf, f.wo, NoName)
    IN  Ranked({[style |-> Style(Member(g)), qty |-> Total({f \in g : f.step = FlowStep})]
                  : g \in Groups(facts, Style)}, LAMBDA x : x.style)

FactFlowOverview(source) ==
    PerFlow(DetailFacts(source),
        LAMBDA facts : [stepnos |-> FlowSteps(facts), total_workers |-> Workers(facts),
                        initial_styles |-> FlowStyles(facts, source.styles)])

FactFlowHourly(source) ==
    PerFlow(DetailFacts(source), LAMBDA facts : Ordered(HourTotals(facts), HourBefore))

FactFlowEmployees(source) ==
    LET cumulative == CumulativeQty(source)
        lines == {[l EXCEPT !.cumulative = Get(cumulative, <<l.flow, l.emp, l.step, l.wo>>, 0)]
                    : l \in DetailLines(DetailFacts(source))}
    IN  BuildFlowEmployees(lines, source.metadata, source.styles)

FactStepnoEmployees(source) ==
    PerStep(DetailFacts(source), LAMBDA facts :
        {[emp |-> Member(g).emp, qty |-> Total(g), flows |-> {f.flow : f \in g}]
           : g \in Groups(facts, LAMBDA f : f.emp)})

(* Cells with a quantity today, and cells that only have earlier rows of   *)
(* an order produced today.                                                *)
FactProductOverview(source) ==
    LET facts == MappedFacts(source)
        current == {f.wo : f \in facts}
        earlier == {r \in source.cumulative : r.wo \in current}
        Key(r) == <<r.wo, r.step, r.flow>>
        Cell(k) ==
          LET own == {f \in facts : Key(f) = k}
          IN  [wo |-> k[1], step |-> k[2], flow |-> k[3], qty |-> Total(own),
               workers |-> Workers(own),
               cumulative |-> MapThenSumSet(LAMBDA r : r.cumulative,
                                            {r \in earlier : Key(r) = k})]
    IN  ProductTree({Cell(k) : k \in {Key(f) : f \in facts} \cup {Key(r) : r \in earlier}},
                    source.metadata, source.products, source.styles)

(* Facts at the grain of the kanban.                                       *)
ReadModelFacts(source) ==
    {[emp |-> Member(g).emp, step |-> Member(g).step, wo |-> Member(g).wo,
      flow |-> Member(g).flow, qty |-> Total(g),
      count |-> MapThenSumSet(LAMBDA f : f.count, g)]
       : g \in Groups(source.facts, LAMBDA f : <<f.emp, f.step, f.wo, f.flow>>)}
=============================================================================
