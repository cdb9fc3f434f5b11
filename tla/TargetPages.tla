------------------------------ MODULE TargetPages ------------------------------
(***************************************************************************)
(* Setting the targets of a flow and showing them: the group target with   *)
(* its planned hours and the older personal targets, stored in MySQL,      *)
(* copied to Redis by the request that saves them and by the pages that    *)
(* find no copy (api_views.py: set_targets, flow_detail and the four       *)
(* "with fallback" readers).  An action is one commit, one read of the     *)
(* database or one command of Redis: requests of the web processes         *)
(* interleave between them, over the days 1..LastDay.                      *)
(*                                                                         *)
(* The copies of a day expire at the next midnight.  Who may save what on  *)
(* which day is checked first; the obligations a save settles are the      *)
(* subject of TargetObligations and left out here.                         *)
(***************************************************************************)
EXTENDS TargetViews

CONSTANTS
    Requests,       \* the requests in flight at once
    Flow,           \* the flow whose targets are set
    Moments,        \* the minutes at which pages are opened: a sequence
    Goals,          \* what a group save may ask for: [target, planned]
    Forms,          \* what an older save may ask for: [targets, orders]
    Opening,        \* rows of the first day before anybody saves
    Earlier,        \* planned minutes of the flow's last target before, or none
    Lines,          \* tickets of the day: [flow, emp, step, wo, qty, day, hour]
    StepTimes, Styles, \* step metadata and initial styles of the orders
    LastDay,        \* the days that pass are 1..LastDay (bound)
    MaxSaves,       \* requests that set targets (bound)
    MaxRefusals     \* refused commands of Redis (bound)

Days == 1..LastDay

ASSUME TargetPagesAssumption ==
    /\ Flow \in VisibleFlows
    /\ \A g \in Goals : g.target \in Nat /\ g.planned \in Nat \ {0}
    /\ LastDay \in Nat \ {0} /\ MaxSaves \in Nat /\ MaxRefusals \in Nat

\* The keys group_target, group_work_minutes, targets and wo_targets of a day.
Keys == {"group", "minutes", "targets", "orders"}

VARIABLES
    today,       \* the business date
    submitted,   \* the stored group target of a day: {} or one record
    personal,    \* the stored personal targets of a day: [targets, orders]
    cache,       \* the copies in Redis: day -> key -> {} or one value
    request,     \* what each request is doing
    saves,       \* requests that set targets so far
    refusals,    \* refused commands so far
    stale        \* days for which a copy may differ from the row until midnight

pagesVars == <<today, submitted, personal, cache, request, saves, refusals, stale>>

Nothing == [group |-> {}, minutes |-> {}, targets |-> NoEntries, orders |-> NoEntries]
Uncopied == [k \in Keys |-> {}]

\* A request: the day it works for and whether that was past, the key it is at,
\* what it read, what it saves, and whether no save of its day has overlapped it.
NoRequest == [step |-> "idle", day |-> 0, past |-> FALSE, key |-> "group", seen |-> Nothing,
              row |-> {}, form |-> Nothing, alone |-> TRUE]

PagesInit ==
    /\ today = 1
    /\ \E r \in Opening : submitted = [d \in Days |-> IF d = 1 THEN r ELSE {}]
    /\ personal = [d \in Days |-> [targets |-> NoEntries, orders |-> NoEntries]]
    /\ cache = [d \in Days |-> Uncopied]
    /\ request = [w \in Requests |-> NoRequest]
    /\ saves = 0 /\ refusals = 0
    /\ stale = [d \in Days |-> FALSE]

-----------------------------------------------------------------------------
\* What the database holds for a key: {} stands for nothing to copy.
Stored(day, key) ==
    CASE key = "group"   -> {r.target : r \in submitted[day]}
      [] key = "minutes" -> UNION {r.planned : r \in submitted[day]}
      [] key = "targets" -> {personal[day].targets} \ {NoEntries}
      [] key = "orders"  -> {personal[day].orders} \ {NoEntries}

\* A page keeps an optional value as it is, a dictionary without its wrapping.
See(seen, key, found) ==
    [seen EXCEPT ![key] = IF key \in {"group", "minutes"} THEN found
                          ELSE IF found = {} THEN NoEntries ELSE CHOOSE v \in found : TRUE]

Saving(c) == c.step \in {"commit", "refresh"}

\* Personal targets are only looked at where no group target is set.
After(key, seen) ==
    CASE key = "group" -> "minutes"
      [] key = "minutes" -> IF seen.group # {} THEN "done" ELSE "targets"
      [] key = "targets" -> "orders"
      [] key = "orders" -> "done"

Seen(c, found) ==
    LET seen == See(c.seen, c.key, found)
        key == After(c.key, seen)
    IN  IF key = "done" THEN [c EXCEPT !.step = "shown", !.seen = seen]
        ELSE [c EXCEPT !.step = "lookup", !.seen = seen, !.key = key]

\* flow_detail and _get_flow_detail_data: a page of a day that has begun.
StartPage(w, day) ==
    /\ request[w].step = "idle"
    /\ day <= today
    /\ request' = [request EXCEPT ![w] =
                  [NoRequest EXCEPT !.step = "lookup", !.day = day, !.past = day < today,
                     !.alone = \A o \in Requests : Saving(request[o]) => request[o].day # day]]
    /\ UNCHANGED <<today, submitted, personal, cache, saves, refusals, stale>>

\* The copy in Redis comes first; a miss goes on to the database.
Lookup(w) ==
    LET c == request[w]
        copy == cache[c.day][c.key]
    IN  /\ c.step = "lookup"
        /\ request' = [request EXCEPT ![w] = IF copy # {} THEN Seen(c, copy)
                                       ELSE [c EXCEPT !.step = "read"]]
        /\ UNCHANGED <<today, submitted, personal, cache, saves, refusals, stale>>

\* A row that is found is copied to Redis before it is shown.
ReadRow(w) ==
    LET c == request[w]
        found == Stored(c.day, c.key)
    IN  /\ c.step = "read"
        /\ request' = [request EXCEPT ![w] = IF found = {} THEN Seen(c, {})
                                       ELSE [c EXCEPT !.step = "fill",
                                                      !.seen = See(c.seen, c.key, found)]]
        /\ UNCHANGED <<today, submitted, personal, cache, saves, refusals, stale>>

\* What a page found in the database, as the copy it writes.
Copied(c) ==
    IF c.key \in {"group", "minutes"} THEN c.seen[c.key] ELSE {c.seen[c.key]}

Fill(w) ==
    LET c == request[w]
    IN  /\ c.step = "fill"
        /\ cache' = [cache EXCEPT ![c.day][c.key] = Copied(c)]
        /\ request' = [request EXCEPT ![w] = Seen(c, Copied(c))]
        /\ UNCHANGED <<today, submitted, personal, saves, refusals, stale>>

\* Redis refuses the copy: the reader logs it and returns as if nothing were set.
FillRefused(w) ==
    LET c == request[w]
    IN  /\ c.step = "fill" /\ refusals < MaxRefusals
        /\ refusals' = refusals + 1
        /\ request' = [request EXCEPT ![w] = [Seen(c, {}) EXCEPT !.alone = FALSE]]
        /\ UNCHANGED <<today, submitted, personal, cache, saves, stale>>

Leave(w) ==
    /\ request[w].step = "shown"
    /\ request' = [request EXCEPT ![w] = NoRequest]
    /\ UNCHANGED <<today, submitted, personal, cache, saves, refusals, stale>>

-----------------------------------------------------------------------------
\* set_targets with a group target: the main administrator may save for any
\* day, others for the present one.
StartGroupSave(w, anyDay, day, goal) ==
    /\ request[w].step = "idle" /\ saves < MaxSaves
    /\ saves' = saves + 1
    /\ anyDay \/ day = today
    /\ request' = [request EXCEPT ![w] =
                  [NoRequest EXCEPT !.step = "commit", !.day = day,
                     !.row = {[target |-> goal.target, planned |-> {goal.planned}]}]]
    /\ UNCHANGED <<today, submitted, personal, cache, refusals, stale>>

\* The older form: personal targets of today by the main administrator, those
\* by order replacing what is given by employee.
Normalized(form) ==
    IF form.orders = NoEntries THEN form
    ELSE [form EXCEPT !.targets =
            [e \in {k[1] : k \in DOMAIN form.orders} |->
                MapThenSumSet(LAMBDA k : form.orders[k],
                              {k \in DOMAIN form.orders : k[1] = e})]]

StartLegacy(w, form) ==
    /\ request[w].step = "idle" /\ saves < MaxSaves
    /\ saves' = saves + 1
    /\ request' = [request EXCEPT ![w] =
                  [NoRequest EXCEPT !.step = "commit", !.day = today,
                     !.form = Normalized(form) @@ [group |-> {}, minutes |-> {}]]]
    /\ UNCHANGED <<today, submitted, personal, cache, refusals, stale>>

\* Another request still holds a value of the day it will write to Redis.
Crossed(w) ==
    \E o \in Requests \ {w} :
        request[o].day = request[w].day /\ request[o].step \in {"fill", "refresh"}

Overlapped(w) ==
    [o \in Requests |-> IF request[o].day = request[w].day
                       THEN [request[o] EXCEPT !.alone = FALSE] ELSE request[o]]

\* update_or_create for every entry of a form: the others stay.
Updated(old, new) ==
    [e \in DOMAIN old \cup DOMAIN new |-> IF e \in DOMAIN new THEN new[e] ELSE old[e]]

\* save_group_target, or the update of the personal targets named in the form.
Commit(w) ==
    LET c == request[w]
    IN  /\ c.step = "commit"
        /\ submitted' = IF c.row # {} THEN [submitted EXCEPT ![c.day] = c.row] ELSE submitted
        /\ personal' = [personal EXCEPT ![c.day] =
                            [targets |-> Updated(@.targets, c.form.targets),
                             orders |-> Updated(@.orders, c.form.orders)]]
        /\ stale' = [stale EXCEPT ![c.day] = @ \/ Crossed(w)]
        /\ request' = [Overlapped(w) EXCEPT ![w].step = "refresh",
                        ![w].key = IF c.row # {} THEN "group" ELSE "targets"]
        /\ UNCHANGED <<today, cache, saves, refusals>>

\* What a save writes to Redis under a key.
Saved(c) ==
    CASE c.key = "group" -> {r.target : r \in c.row}
      [] c.key = "minutes" -> UNION {r.planned : r \in c.row}
      [] c.key = "targets" -> {c.form.targets} \ {NoEntries}
      [] c.key = "orders" -> {c.form.orders} \ {NoEntries}

\* Fault: the planned minutes are stored but their copy is not renewed.
RefreshGroupOnly(w) ==
    LET c == request[w]
    IN  /\ c.step = "refresh"
        /\ cache' = IF Saved(c) = {} \/ c.key = "minutes" THEN cache
                    ELSE [cache EXCEPT ![c.day][c.key] = Saved(c)]
        /\ request' = [request EXCEPT ![w] =
                      IF c.key \in {"minutes", "orders"} THEN NoRequest
                      ELSE [c EXCEPT !.key = IF c.key = "group" THEN "minutes" ELSE "orders"]]
        /\ UNCHANGED <<today, submitted, personal, saves, refusals, stale>>

\* The two copies of a save, one after the other.
Refresh(w) ==
    LET c == request[w]
    IN  /\ c.step = "refresh"
        /\ cache' = IF Saved(c) = {} THEN cache ELSE [cache EXCEPT ![c.day][c.key] = Saved(c)]
        /\ request' = [request EXCEPT ![w] =
                      IF c.key \in {"minutes", "orders"} THEN NoRequest
                      ELSE [c EXCEPT !.key = IF c.key = "group" THEN "minutes" ELSE "orders"]]
        /\ UNCHANGED <<today, submitted, personal, saves, refusals, stale>>

\* Redis refuses: a warning is logged and the rest is skipped.
RefreshRefused(w) ==
    LET c == request[w]
    IN  /\ c.step = "refresh" /\ refusals < MaxRefusals
        /\ refusals' = refusals + 1
        /\ stale' = [stale EXCEPT ![c.day] = TRUE]
        /\ request' = [request EXCEPT ![w] = NoRequest]
        /\ UNCHANGED <<today, submitted, personal, cache, saves>>

-----------------------------------------------------------------------------
\* The copies expire.  One that is under way is written with another day to live,
\* and a page under way may have seen one that was left behind.
Midnight ==
    /\ today + 1 \in Days
    /\ today' = today + 1
    /\ cache' = [d \in Days |-> Uncopied]
    /\ stale' = [d \in Days |-> /\ stale[d]
                                /\ \E w \in Requests :
                                        /\ request[w].day = d
                                        /\ request[w].step \in {"fill", "refresh"}]
    /\ request' = [w \in Requests |-> IF request[w].day \in Days /\ stale[request[w].day]
                                     THEN [request[w] EXCEPT !.alone = FALSE] ELSE request[w]]
    /\ UNCHANGED <<submitted, personal, saves, refusals>>

Page(w) ==
    \/ \E day \in Days : StartPage(w, day)
    \/ Lookup(w) \/ ReadRow(w) \/ Fill(w) \/ FillRefused(w) \/ Leave(w)

Save(w) ==
    \/ \E anyDay \in BOOLEAN, day \in Days, goal \in Goals : StartGroupSave(w, anyDay, day, goal)
    \/ \E form \in Forms : StartLegacy(w, form)
    \/ Commit(w) \/ Refresh(w) \/ RefreshRefused(w)

PagesNext == (\E w \in Requests : Page(w) \/ Save(w)) \/ Midnight

PagesSpec == PagesInit /\ [][PagesNext]_pagesVars

-----------------------------------------------------------------------------
\* The snapshot a page reads: the production of its day up to the moment (by
\* position in Moments), or of the whole day when it is past.
Until(at) == IF at = 0 THEN 1440 ELSE Moments[at]
Made(day, at) == {l \in Lines : l.day = day /\ l.hour * 60 <= Until(at)}
Views ==
    [day \in Days, at \in 0..Len(Moments) |->
        [flow_employees |-> BatchFlowEmployees(Made(day, at), day, StepTimes, Styles),
         flow_hourly |-> BatchFlowHourly(Made(day, at), day),
         stepno_employees |-> BatchStepnoEmployees(Made(day, at), day),
         flow_overview |-> BatchFlowOverview(Made(day, at), day),
         analysis |-> AggregateTargetAnalysis(Made(day, at), AllowedFlows)]]

Elapsed(at) == IF at = 0 THEN {} ELSE WorkMinutes(Until(at))

\* A page is opened at some moment of the day, or when it is past.
Openings(past) == IF past THEN {0} ELSE DOMAIN Moments

DetailFor(day, at, seen) == FlowDetail(Views[day, at], Flow, seen, Elapsed(at), at # 0)
StylePageFor(day, at, seen, style) ==
    InitialStylePage(Views[day, at], style,
        [f \in DOMAIN Views[day, at].flow_employees |-> IF f = Flow THEN seen ELSE Nothing],
        Elapsed(at), at # 0)

\* today_targets of a main administrator, for the present day or one before.
\* A past day has its analysis from history and no realtime production.
TodayGroup(flow, day, at, row, before) ==
    TodayTargetPayload(flow, IF flow = Flow THEN row ELSE {},
        IF flow # Flow THEN {} ELSE IF before # {} THEN before ELSE Earlier,
        IF at = 0 THEN {} ELSE {FlowProduction(Views[day, at])},
        {Views[day, at].analysis}, Until(at), at = 0)

Shown == {request[w] : w \in {v \in Requests : request[v].step = "shown"}}

-----------------------------------------------------------------------------
(* A page that no save of its day overlapped shows the targets the         *)
(* database holds, and a personal target it shows is the stored one --     *)
(* unless a copy was left behind: Redis refused it, or a page or another   *)
(* save wrote what it had read or stored before the last commit.  Such a   *)
(* copy is shown until midnight at the latest (the readers "with fallback" *)
(* and the refresh at the end of set_targets in api_views.py).             *)
PageShowsWhatIsStored ==
    \A c \in Shown : c.alone /\ ~stale[c.day] =>
        /\ c.seen.group = Stored(c.day, "group")
        /\ c.seen.minutes = Stored(c.day, "minutes")
        /\ \A e \in DOMAIN c.seen.targets : c.seen.targets[e] = personal[c.day].targets[e]
        /\ \A k \in DOMAIN c.seen.orders : c.seen.orders[k] = personal[c.day].orders[k]

\* What is made of the targets depends on what was read and on the production
\* only: it is worked out once for everything that can be read.
Quantities == {r.target : r \in UNION Opening} \cup {g.target : g \in Goals}
Plans == UNION {r.planned : r \in UNION Opening} \cup {g.planned : g \in Goals}
Merged(entries) == {NoEntries} \cup {a @@ b : a, b \in entries}
Readable ==
    [group : {{}} \cup {{q} : q \in Quantities}, minutes : {{}} \cup {{m} : m \in Plans},
     targets : Merged({Normalized(f).targets : f \in Forms}),
     orders : Merged({f.orders : f \in Forms})]
Readings == {[day |-> day, past |-> past, seen |-> seen] :
                day \in Days, past \in BOOLEAN, seen \in Readable}
Reading(c) == [day |-> c.day, past |-> c.past, seen |-> c.seen]
StorableRows == {{}} \cup {{r} : r \in [target : Quantities, planned : {{}} \cup {{m} : m \in Plans}]}
TodayReadings ==
    {[day |-> day, past |-> past, row |-> row, before |-> before] :
        day \in Days, past \in BOOLEAN, row \in StorableRows, before \in {{}} \cup {{m} : m \in Plans}}

(* The workers of a step share its whole target between them, and what is  *)
(* due of it by the moment the page is opened; nobody is asked for more by *)
(* now than for the day, and opened later, with nobody new at the step,    *)
(* the page never asks anybody for less (the split of a flow's target in   *)
(* api_views.py: _distribute_group_target,                                 *)
(* _calculate_current_group_target).                                       *)
SharesFit ==
    {r \in Readings :
        LET detail == [at \in Openings(r.past) |-> DetailFor(r.day, at, r.seen).detail]
            Crew(at, step) == {e \in detail[at].employees : step \in StepsOf(e)}
            Share(at, step) == [n \in {e.emp : e \in Crew(at, step)} |->
                (CHOOSE e \in Crew(at, step) : e.emp = n).step_targets[step]]
        IN  \A at \in Openings(r.past) :
            \A step \in DOMAIN detail[at].step_targets :
                LET share == Share(at, step)
                    crew == DOMAIN share
                IN  /\ {MapThenSumSet(LAMBDA n : share[n].full_target, crew)} = r.seen.group
                    /\ {MapThenSumSet(LAMBDA n : share[n].target, crew)}
                          = detail[at].current_group_target
                    /\ \A n \in crew : share[n].target <= share[n].full_target
                    /\ \A later \in Openings(r.past) :
                          /\ at <= later
                          /\ {e.emp : e \in Crew(later, step)} = crew
                          => \A n \in crew : share[n].target <= Share(later, step)[n].target}

(* Every page shown splits the target it read that way.                    *)
SharesAddUp ==
    [][\A c \in Shown' \ Shown : c.seen.group # {} => Reading(c) \in SharesFit]_request

(* The pages by initial style divide what the pages by flow show: the      *)
(* quantities of all styles add up to those of all flows, and a worker's   *)
(* step carries the target and rate it carries on the page of its flow --  *)
(* the target is split among the whole flow, not among those who made the  *)
(* style (get_initial_style_overview, get_initial_style_detail and         *)
(* initial_style_detail in api_views.py).                                  *)
StylesFit ==
    {r \in Readings :
        \A at \in Openings(r.past) :
            LET flows == Views[r.day, at].flow_employees
                styles == {s.style : s \in StyleSteps(flows)}
                page == [y \in styles |-> StylePageFor(r.day, at, r.seen, y)]
                overview == Elements(InitialStyleOverview(flows))
                onFlow == UNION {{s @@ [emp |-> e.emp, flow |-> Flow] : s \in e.steps}
                                   : e \in DetailFor(r.day, at, r.seen).detail.employees}
            IN  /\ MapThenSumSet(LAMBDA y : page[y].total_qty, styles)
                     = MapThenSumSet(LAMBDA f : MapThenSumSet(LAMBDA e : e.total_qty, flows[f]),
                                     DOMAIN flows)
                /\ {x.style : x \in overview} = styles
                /\ MapThenSumSet(LAMBDA x : x.total_qty, overview)
                     = SewingTotal(StyleSteps(flows))
                /\ \A y \in styles :
                     UNION {{s \in e.steps : s.flow = Flow} : e \in Elements(page[y].employees)}
                        = {s \in onFlow : s.style = y}}

(* The pages by style and by flow of whatever was read agree that way.     *)
StylesAgreeWithFlows == [][\A c \in Shown' \ Shown : Reading(c) \in StylesFit]_request

(* Today's targets put every flow into one state: the states add up, none  *)
(* is completed after the workday or overdue before its end.  The periods  *)
(* of the analysis hand the target out once: their shares add up to it,    *)
(* each rounded to a hundredth, wherever hours are planned, and no more is *)
(* counted in them than the flow produced (_today_target_payload and       *)
(* today_targets in api_views_account.py, build_period_analysis).          *)
TodayFits ==
    {r \in TodayReadings :
        \A at \in Openings(r.past) :
            LET groups == {TodayGroup(f, r.day, at, r.row, r.before) : f \in VisibleFlows}
                sum == TodaySummary(groups, r.past)
            IN  /\ ~r.past => sum.completed_count + sum.overdue_count + sum.unfinished_count
                              + sum.filled_count + sum.pending_fill_count = sum.total_count
                /\ \A g \in groups :
                     LET analysis == CHOOSE a \in g.analysis : TRUE
                         due == {i \in DOMAIN Periods : analysis[i].target_qty # {}}
                         shares == MapThenSumSet(
                                     LAMBDA i : CHOOSE q \in analysis[i].target_qty : TRUE, due)
                     IN  /\ g.production_state = "completed" => ~r.past /\ Until(at) <= WorkEnd
                         /\ g.production_state = "overdue" => r.past \/ Until(at) > WorkEnd
                         /\ due # {} => \A q \in g.group_target :
                                100 * q - Len(Periods) <= shares /\ shares <= 100 * q + Len(Periods)
                         /\ \A n \in g.actual_qty :
                              MapThenSumSet(LAMBDA i : analysis[i].actual_qty, DOMAIN Periods) <= n}

TodayReading(day) ==
    [day |-> day, past |-> day < today, row |-> submitted[day],
     before |-> UNION {r.planned : r \in UNION {submitted[d] : d \in 1..(day - 1)}}]

(* After every step, of every day that has begun, with the hours of the    *)
(* last day before it, they do.                                            *)
TodayAddsUp == [][\A day \in 1..today' : TodayReading(day)' \in TodayFits]_pagesVars
=============================================================================
