---------------------------- MODULE MCTargetPages ----------------------------
EXTENDS TargetPages

\* 07:30 to 18:30 with two pauses of half an hour; a quarter past seven, nine,
\* a minute to noon, the end of the workday and the minute after it.
MCBreaks == {[start |-> 690, end |-> 720], [start |-> 960, end |-> 990]}
MCMoments == <<435, 540, 719, 1110, 1111>>
MCPeriods == <<[start |-> 7, end |-> 11, minutes |-> 240], [start |-> 12, end |-> 16, minutes |-> 240],
               [start |-> 16, end |-> 18, minutes |-> 120]>>

\* An odd target over more hours than a workday has, a small one over few.
MCGoals == {[target |-> 7, planned |-> 660], [target |-> 2, planned |-> 500]}
MCForms == {[targets |-> (1 :> 4), orders |-> NoEntries],
            [targets |-> NoEntries, orders |-> (<<2, 1>> :> 3) @@ (<<2, 2>> :> 2)]}
MCOpening == {{}, {[target |-> 5, planned |-> {}]}}

Line(emp, step, wo, flow, day, hour, qty) ==
    [emp |-> emp, step |-> step, wo |-> wo, flow |-> flow, station |-> emp, day |-> day,
     hour |-> hour, qty |-> qty]

\* Flow 1 has two sewers and one worker at another step, one of the
\* sewers also helps out in flow 2; orders 1 and 2 are of different styles.
MCLines ==
    {Line(1, 70, 1, 1, 1, 8, 2), Line(2, 70, 2, 1, 1, 8, 1), Line(2, 70, 1, 1, 1, 13, 4),
     Line(3, 10, 1, 1, 1, 8, 3), Line(1, 10, 2, 1, 1, 11, 1), Line(2, 70, 2, 2, 1, 9, 2),
     Line(1, 70, 2, 1, 2, 8, 7), Line(2, 70, 2, 1, 2, 20, 1)}
MCStepTimes == {[wo |-> 1, step |-> 70, time |-> {2}], [wo |-> 2, step |-> 70, time |-> {3}]}
MCStyles == (1 :> 7) @@ (2 :> 8)

Symmetry == Permutations(Requests)
=============================================================================
