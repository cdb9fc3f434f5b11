---------------------------- MODULE ProductionRows ----------------------------
(***************************************************************************)
(* Rows of production and the aggregations every query over them shares.   *)
(*                                                                         *)
(* A ROW is one scanned ticket of the remote table pytckreg3:              *)
(*   [ticket, emp, step, wo, flow, station, day, hour, qty]                *)
(* A FACT is a group of rows of one day with their quantities added up:    *)
(*   [emp, step, wo, flow, station, hour, qty, count]                      *)
(* Names (work orders, flows, stations, employees) are natural numbers in  *)
(* the order Python sorts them; NoName is the empty string.  A database    *)
(* row has a day or none, and a scanning hour or none.                     *)
(***************************************************************************)
EXTENDS Integers, Sequences, FiniteSets, FiniteSetsExt

CONSTANTS
    AllowedFlows,   \* settings.ALLOWED_FLOWS: the sewing lines
    HiddenFlows,    \* settings.HIDDEN_FLOWS: lines no page shows
    FlowStep        \* settings.ALLOWED_FLOWS_STEPNO (70), also TARGET_ANALYSIS_STEP_NO

NoName == 0
NoHour == -1
NoDay == 0

VisibleFlows == AllowedFlows \ HiddenFlows

ASSUME FlowsAssumption ==
    /\ AllowedFlows \subseteq Nat \ {NoName}
    /\ HiddenFlows \subseteq Nat \ {NoName}

Total(rows) == MapThenSumSet(LAMBDA r : r.qty, rows)

(* GROUP BY: the partition of rows by a key, and a member of a group.      *)
Groups(rows, Key(_)) == {{r \in rows : Key(r) = k} : k \in {Key(r) : r \in rows}}
Member(group) == CHOOSE r \in group : TRUE
Distinct(rows, Key(_)) == Cardinality({Key(r) : r \in rows})

(* The members of S in the order Before, which is total on S.              *)
Ordered(S, Before(_, _)) ==
    [i \in 1..Cardinality(S) |->
        CHOOSE x \in S : Cardinality({y \in S : Before(y, x)}) = i - 1]

(* Python's sort by (-qty, name), and its slice [:limit].                  *)
Ranked(S, Name(_)) ==
    Ordered(S, LAMBDA x, y : \/ x.qty > y.qty
                             \/ (x.qty = y.qty /\ Name(x) < Name(y)))
Top(list, limit) == SubSeq(list, 1, IF Len(list) < limit THEN Len(list) ELSE limit)
Elements(list) == {list[i] : i \in DOMAIN list}

(* ORDER BY qty DESC LIMIT n leaves ties to the database: any of these.    *)
SqlTop(S, limit) ==
    {T \in SUBSET S : /\ Cardinality(T) = Min({limit, Cardinality(S)})
                      /\ \A x \in T, y \in S \ T : x.qty >= y.qty}

(* The sum of qty over the records of a list.                              *)
ListTotal(list) == MapThenSumSet(LAMBDA i : list[i].qty, DOMAIN list)

(* d[key], or the default where the dictionary has no such key.            *)
Get(d, key, default) == IF key \in DOMAIN d THEN d[key] ELSE default
=============================================================================
