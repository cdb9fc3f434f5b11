--------------------------- MODULE MCReadModelRefresh ---------------------------
EXTENDS ReadModelRefresh

\* Lines 1 and 2 are sewing lines, 2 is hidden, 3 is another line.
Row(t, emp, step, wo, flow, day, hour, qty) ==
    [ticket |-> t, emp |-> emp, step |-> step, wo |-> wo, flow |-> flow,
     station |-> emp, day |-> day, hour |-> hour, qty |-> qty]

MCCandidates ==
    {Row(1, 1, 70, 1, 1, 2, 8, 3),          \* sewing
     Row(2, 1, 10, 1, 1, 2, 8, 2),          \* the same order at another step
     Row(3, 2, 70, 1, 3, 2, 9, 4),          \* sewing on a line that is none
     Row(4, 2, 10, 2, NoName, 2, 9, 1),     \* no line
     Row(5, 3, 10, 2, 2, 2, NoHour, 3),     \* no time
     Row(6, 1, 70, 1, 1, 1, 8, 5),          \* the day before
     Row(7, 1, 70, 1, 1, 2, 9, -3),         \* a correction
     Row(8, 4, 10, 2, 1, 1, 9, 1)}          \* takes employee 3 the number

MCOpening ==
    LET always == {r \in MCCandidates : r.ticket \in {1, 6}}
    IN  {always \cup rest : rest \in SUBSET MCCandidates}

MCPeople == {[sysid |-> 1, dorm |-> 11, worker |-> 91], [sysid |-> 2, dorm |-> NoName, worker |-> 12],
             [sysid |-> 3, dorm |-> 13, worker |-> 93], [sysid |-> 4, dorm |-> NoName, worker |-> 13]}
MCStepTable == {[wo |-> 1, step |-> 70, time |-> {2}], [wo |-> 1, step |-> 10, time |-> {}]}
MCStyles == (1 :> 7)
MCCatalog == (1 :> 8) @@ (2 :> 9)
MCPeriods == <<[start |-> 8, end |-> 9, minutes |-> 4], [start |-> 9, end |-> 10, minutes |-> 2]>>
MCSelections == {<<>>, <<70>>, <<10>>, <<70, 10>>, <<10, 5>>}
MCFilters ==
    LET none == [stepnos |-> {}, wrk_orders |-> {}, flows |-> {}, emps |-> {}, show_all |-> FALSE]
    IN  {none, [none EXCEPT !.show_all = TRUE], [none EXCEPT !.wrk_orders = {1}, !.emps = {1}],
         [none EXCEPT !.stepnos = {10}, !.flows = {1, 3}]}
=============================================================================
