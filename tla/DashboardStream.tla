--------------------------- MODULE DashboardStream ---------------------------
(***************************************************************************)
(* How a new realtime snapshot reaches the dashboards: the refresh task    *)
(* publishes it and announces its version over Redis Pub/Sub (tasks.py);   *)
(* in one Uvicorn worker the notification broker keeps the latest          *)
(* announcement per connection and the payload cache builds each event     *)
(* once for all connections (sse_events.py); every connection runs the     *)
(* loop of dashboard_stream (api_views.py), and its page (dashboard.html)  *)
(* shows what the stream sends.                                            *)
(*                                                                         *)
(* The code between two awaits of the event loop is one action.  A         *)
(* version is the rank of its snapshot's generated_at, so versions grow;   *)
(* 0 stands for none.  All connections show the same process steps: the    *)
(* cache key is the business date alone, other keys appear as the builds   *)
(* that delay Read and the writes that Evict.                              *)
(* Bounds: MaxDay business dates, MaxVersion snapshots, MaxFaults failing  *)
(* reads and pages closed at a bad moment.                                 *)
(***************************************************************************)
EXTENDS Naturals

CONSTANTS Clients, MaxDay, MaxVersion, MaxFaults

ASSUME StreamAssumption == MaxDay \in Nat \ {0} /\ MaxVersion \in Nat /\ MaxFaults \in Nat

Days     == 1..MaxDay
Versions == 0..MaxVersion

VARIABLES
  today,      (* the business date of the clock                            *)
  generated,  (* the last version generated                                *)
  current,    (* Redis: per date, the version the store serves             *)
  refresh,    (* Celery: per date, the refresh task and its version        *)
  cache,      (* web worker: per date, the cached event                    *)
  handled,    (* web worker: per date, the notification last handled       *)
  task,       (* web worker: per date, the single-flight build             *)
  queue,      (* web worker: per connection, the latest notification       *)
  client,     (* per connection, its loop and what its page shows          *)
  faults

loop == <<cache, handled, task, queue, client>>
vars == <<today, generated, current, refresh, loop, faults>>

NoNews   == [day |-> 0, version |-> 0]
NoEvent  == [version |-> 0, fresh |-> FALSE]
NoTask   == [phase |-> "none", version |-> 0]
NoClient == [pc |-> "off", day |-> 1, seen |-> 0, asked |-> 0, attempt |-> 1,
             page |-> 0, online |-> FALSE]

Init ==
  /\ today = 1 /\ generated = 0 /\ faults = 0
  /\ current = [d \in Days |-> 0]
  /\ refresh = [d \in Days |-> [phase |-> "idle", version |-> 0]]
  /\ cache = [d \in Days |-> NoEvent]
  /\ handled = [d \in Days |-> 0]
  /\ task = [d \in Days |-> NoTask]
  /\ queue = [c \in Clients |-> NoNews]
  /\ client = [c \in Clients |-> NoClient]

Fault == faults < MaxFaults /\ faults' = faults + 1

Midnight ==
  /\ today < MaxDay
  /\ today' = today + 1
  /\ UNCHANGED <<generated, current, refresh, loop, faults>>

-----------------------------------------------------------------------------
(* sync_dashboard_stats: one task per date holds that date's refresh lock. *)

(* The snapshot is built, and it is not yet midnight. *)
BuildSnapshot ==
  /\ refresh[today].phase = "idle"
  /\ generated < MaxVersion
  /\ generated' = generated + 1
  /\ refresh' = [refresh EXCEPT ![today] = [phase |-> "built", version |-> generated + 1]]
  /\ UNCHANGED <<today, current, loop, faults>>

Publish(d) ==
  /\ refresh[d].phase = "built"
  /\ current' = [current EXCEPT ![d] = refresh[d].version]
  /\ refresh' = [refresh EXCEPT ![d].phase = "announce"]
  /\ UNCHANGED <<today, generated, loop, faults>>

(* The publication fails, or nobody hears of it: the message is not sent,  *)
(* the task dies, or the broker's listener is reconnecting.                *)
GiveUp(d) ==
  /\ refresh[d].phase # "idle"
  /\ refresh' = [refresh EXCEPT ![d] = [phase |-> "idle", version |-> 0]]
  /\ UNCHANGED <<today, generated, current, loop, faults>>

(* publish_snapshot_notification and broadcast: the new notification takes *)
(* the place of one a connection has not read yet.                         *)
Announce(d) ==
  /\ refresh[d].phase = "announce"
  /\ queue' = [c \in Clients |-> IF client[c].pc = "off" THEN queue[c]
                                 ELSE [day |-> d, version |-> refresh[d].version]]
  /\ refresh' = [refresh EXCEPT ![d] = [phase |-> "idle", version |-> 0]]
  /\ UNCHANGED <<today, generated, current, cache, handled, task, client, faults>>

-----------------------------------------------------------------------------
(* What a connection does with the outcome of a read *)

(* event_stream sends an event whose version is not the last one it sent;  *)
(* the page drops one that is not newer than what it shows.                *)
Answered(s, v) ==
  LET new == v # s.seen /\ v > s.page
  IN [s EXCEPT !.pc = "listening", !.attempt = 1, !.seen = v,
               !.page = IF new THEN v ELSE @,
               !.online = IF new THEN TRUE ELSE @]

(* snapshot_unavailable is sent. *)
Refused(s) ==
  [s EXCEPT !.pc = "listening", !.attempt = 1, !.asked = 0, !.online = FALSE]

(* Fault: one attempt is made. *)
GotAtOnce(s, v) == IF v = 0 THEN Refused(s) ELSE Answered(s, v)

(* get: the event of one attempt is returned if it is the one announced,   *)
(* if no version was, or if this was the second attempt.                   *)
Got(s, v) ==
  IF v = 0 THEN Refused(s)
  ELSE IF s.asked \in {0, v} \/ s.attempt = 2 THEN Answered(s, v)
  ELSE [s EXCEPT !.pc = "again", !.attempt = 2]

(* Fault: a notification is handled with the first event, whatever it is. *)
HandlesAny(s, v) == s.asked # 0 /\ v # 0

(* The notification a connection marks as handled with an event v, if any. *)
Handles(s, v) == s.asked # 0 /\ v # 0 /\ (s.asked = v \/ s.attempt = 2)

Cached(d, v) ==
  IF v = 0 THEN cache
  ELSE [cache EXCEPT ![d] = [version |-> v, fresh |-> TRUE]]

(* Fault: a periodic check takes the cached event however old it is. *)
HitAtAnyAge(d, n) == cache[d].version # 0 /\ (n = 0 \/ n \in {handled[d], cache[d].version})

(* _get_once: the cached event serves a notification already handled, the  *)
(* version it announces, or a periodic check within max_age_seconds.       *)
Hit(d, n) ==
  /\ cache[d].version # 0
  /\ IF n = 0 THEN cache[d].fresh ELSE n \in {handled[d], cache[d].version}

(* Connection c in state s goes through _get_once up to its await: a hit,  *)
(* a task to wait for, or a finished task, whose result is taken at once.  *)
GetOnce(c, s) ==
  LET d == s.day
  IN \/ /\ Hit(d, s.asked)
        /\ client' = [client EXCEPT ![c] = Answered(s, cache[d].version)]
        /\ handled' = IF s.asked = 0 THEN handled ELSE [handled EXCEPT ![d] = s.asked]
        /\ UNCHANGED <<cache, task>>
     \/ /\ ~Hit(d, s.asked)
        /\ task[d].phase # "done"
        /\ client' = [client EXCEPT ![c] = [s EXCEPT !.pc = "waiting"]]
        /\ task' = IF task[d].phase = "none"
                   THEN [task EXCEPT ![d].phase = "queued"] ELSE task
        /\ UNCHANGED <<cache, handled>>
     \/ /\ ~Hit(d, s.asked)
        /\ task[d].phase = "done"
        /\ client' = [client EXCEPT ![c] = Got(s, task[d].version)]
        /\ cache' = Cached(d, task[d].version)
        /\ handled' = IF Handles(s, task[d].version)
                      THEN [handled EXCEPT ![d] = s.asked] ELSE handled
        /\ task' = [task EXCEPT ![d] = NoTask]

-----------------------------------------------------------------------------
(* The loop of a connection *)

(* A page opens the stream, or its EventSource reconnects. *)
Connect(c) ==
  /\ client[c].pc = "off"
  /\ client' = [client EXCEPT ![c] = [NoClient EXCEPT !.pc = "ready", !.day = today,
                                                      !.page = client[c].page, !.online = TRUE]]
  /\ UNCHANGED <<today, generated, current, refresh, cache, handled, task, queue, faults>>

(* A connection in state s at the date check of the loop. *)
AtToday(s) == IF s.day = today THEN s ELSE [s EXCEPT !.day = today, !.seen = 0]

Ask(c, n) ==
  GetOnce(c, [AtToday(client[c]) EXCEPT !.asked = n])

FirstRead(c) ==
  /\ client[c].pc = "ready"
  /\ Ask(c, 0)
  /\ UNCHANGED <<today, generated, current, refresh, queue, faults>>

(* No notification for a heartbeat: the periodic check. *)
PeriodicCheck(c) ==
  /\ client[c].pc = "listening" /\ queue[c] = NoNews
  /\ Ask(c, 0)
  /\ UNCHANGED <<today, generated, current, refresh, queue, faults>>

(* A notification of another date is skipped. *)
TakeNotification(c) ==
  /\ client[c].pc = "listening" /\ queue[c] # NoNews
  /\ queue' = [queue EXCEPT ![c] = NoNews]
  /\ IF queue[c].day = today THEN Ask(c, queue[c].version)
     ELSE /\ client' = [client EXCEPT ![c] = [AtToday(@) EXCEPT !.asked = 0]]
          /\ UNCHANGED <<cache, handled, task>>
  /\ UNCHANGED <<today, generated, current, refresh, faults>>

SecondAttempt(c) ==
  /\ client[c].pc = "again"
  /\ GetOnce(c, client[c])
  /\ UNCHANGED <<today, generated, current, refresh, queue, faults>>

Left(c) ==
  /\ client' = [client EXCEPT ![c] = [NoClient EXCEPT !.page = client[c].page,
                                                      !.online = client[c].online]]
  /\ queue' = [queue EXCEPT ![c] = NoNews]
  /\ UNCHANGED <<today, generated, current, refresh, cache, handled, task>>

(* Fault: connections have no lease. *)
LeaseNeverEnds(c) == FALSE

(* The lease of the connection ends. *)
LeaseEnds(c) == client[c].pc = "listening" /\ Left(c) /\ UNCHANGED faults

(* Fault: whoever stops waiting takes the build off the table. *)
DisconnectDropsBuild(c) ==
  /\ client[c].pc \in {"ready", "waiting"}
  /\ client' = [client EXCEPT ![c] = NoClient]
  /\ queue' = [queue EXCEPT ![c] = NoNews]
  /\ task' = [task EXCEPT ![client[c].day] = NoTask]
  /\ UNCHANGED <<today, generated, current, refresh, cache, handled>>
  /\ Fault

(* The page is closed; a build the connection waits for goes on. *)
Disconnect(c) == client[c].pc \in {"ready", "waiting"} /\ Left(c) /\ Fault

-----------------------------------------------------------------------------
(* The builds *)

(* Fault: the retained previous version is read when Redis fails. *)
ReadPrevious(d) ==
  /\ task[d].phase = "queued"
  /\ \/ /\ task' = [task EXCEPT ![d].phase = "read", ![d].version = current[d]]
        /\ UNCHANGED faults
     \/ /\ current[d] > 1 /\ Fault
        /\ task' = [task EXCEPT ![d].phase = "read", ![d].version = current[d] - 1]
  /\ UNCHANGED <<today, generated, current, refresh, cache, handled, queue, client>>

(* The build has its permit and reads the store: the current version, or   *)
(* none if nothing is published or Redis fails.                            *)
Read(d) ==
  /\ task[d].phase = "queued"
  /\ \/ /\ task' = [task EXCEPT ![d].phase = "read", ![d].version = current[d]]
        /\ UNCHANGED faults
     \/ /\ Fault
        /\ task' = [task EXCEPT ![d].phase = "read"]
  /\ UNCHANGED <<today, generated, current, refresh, cache, handled, queue, client>>

Waiters(d) == {c \in Clients : client[c].pc = "waiting" /\ client[c].day = d}

(* The build ends and wakes its waiters in turn: the first takes the task  *)
(* off the table, each stores the event.  Without a waiter it stays there. *)
FinishBuild(d) ==
  /\ task[d].phase = "read"
  /\ LET v     == task[d].version
         marks == {client[c].asked : c \in {b \in Waiters(d) : Handles(client[b], v)}}
     IN IF Waiters(d) = {}
        THEN /\ task' = [task EXCEPT ![d].phase = "done"]
             /\ UNCHANGED <<cache, handled, client>>
        ELSE /\ task' = [task EXCEPT ![d] = NoTask]
             /\ cache' = Cached(d, v)
             /\ client' = [c \in Clients |-> IF c \in Waiters(d) THEN Got(client[c], v)
                                             ELSE client[c]]
             /\ \/ marks = {} /\ UNCHANGED handled
                \/ \E n \in marks : handled' = [handled EXCEPT ![d] = n]
  /\ UNCHANGED <<today, generated, current, refresh, queue, faults>>

(* max_age_seconds pass since an event was cached. *)
CacheAges(d) ==
  /\ cache[d].fresh
  /\ cache' = [cache EXCEPT ![d].fresh = FALSE]
  /\ UNCHANGED <<today, generated, current, refresh, handled, task, queue, client, faults>>

(* Events of other keys push this one out of the cache. *)
Evict(d) ==
  /\ cache[d] # NoEvent
  /\ cache' = [cache EXCEPT ![d] = NoEvent]
  /\ handled' = [handled EXCEPT ![d] = 0]
  /\ UNCHANGED <<today, generated, current, refresh, task, queue, client, faults>>

ClientStep(c) ==
  FirstRead(c) \/ PeriodicCheck(c) \/ TakeNotification(c) \/ SecondAttempt(c)

Next ==
  \/ Midnight \/ BuildSnapshot
  \/ \E d \in Days : \/ Publish(d) \/ Announce(d) \/ GiveUp(d)
                     \/ Read(d) \/ FinishBuild(d)
                     \/ CacheAges(d) \/ Evict(d)
  \/ \E c \in Clients : ClientStep(c) \/ Connect(c) \/ LeaseEnds(c) \/ Disconnect(c)

Spec == Init /\ [][Next]_vars

(* The event loop runs what is ready, builds end, time passes; a lease     *)
(* that has run out ends at the next turn of the loop, and the browser     *)
(* reconnects.  Nothing is promised of publishing and of Pub/Sub.          *)
Fairness ==
  /\ \A c \in Clients : WF_vars(ClientStep(c)) /\ WF_vars(Connect(c)) /\ SF_vars(LeaseEnds(c))
  /\ \A d \in Days : WF_vars(Read(d)) /\ WF_vars(FinishBuild(d)) /\ WF_vars(CacheAges(d))

FairSpec == Spec /\ Fairness

-----------------------------------------------------------------------------
(* Properties *)

ClientState == [pc : {"off", "ready", "listening", "waiting", "again"},
                day : Days, seen : Versions, asked : Versions, attempt : {1, 2},
                page : Versions, online : BOOLEAN]
Event == [version : Versions, fresh : BOOLEAN]
Build == [phase : {"none", "queued", "read", "done"}, version : Versions]

TypeOK ==
  /\ today \in Days /\ generated \in Versions /\ current \in [Days -> Versions]
  /\ refresh \in [Days -> [phase : {"idle", "built", "announce"}, version : Versions]]
  /\ cache \in [Days -> Event]
  /\ handled \in [Days -> Versions]
  /\ task \in [Days -> Build]
  /\ queue \in [Clients -> [day : 0..MaxDay, version : Versions]]
  /\ client \in [Clients -> ClientState]
  /\ faults \in 0..MaxFaults

(* Two attempts are enough: a connection woken for a version has sent that *)
(* one or a newer one when it listens again, whatever build it joined      *)
(* (sse_events.py:278-294).                                                *)
NotifiedIsServed ==
  \A c \in Clients : client[c].pc = "listening" => client[c].seen >= client[c].asked

(* A notification is never marked handled over a cached event that is      *)
(* older than it, so a connection served from the cache loses nothing      *)
(* (sse_events.py:289-293, 324-338).                                       *)
HandledIsCached ==
  \A d \in Days : cache[d].version # 0 => cache[d].version >= handled[d]

(* Whoever waits, waits for a build that is on its way: a connection that  *)
(* goes away takes no build with it (sse_events.py:341-346).               *)
WaitersHaveBuild ==
  \A c \in Clients :
    client[c].pc = "waiting" => task[client[c].day].phase \in {"queued", "read"}

(* Within a connection and a business date the stream never goes back to   *)
(* an older snapshot (api_views.py:1614-1626).                             *)
StreamMovesForward ==
  [][\A c \in Clients :
       client[c].pc # "off" /\ client'[c].pc # "off" /\ client'[c].day = client[c].day
         => client'[c].seen >= client[c].seen]_vars

(* Lost notifications, evictions, reconnections and failing reads or not,  *)
(* a page ends up showing the snapshot that is current                     *)
(* (api_views.py:1586-1626, sse_events.py:317-338).                        *)
PageConverges ==
  \A c \in Clients : <>[](current[today] # 0 => client[c].page = current[today])

(* A page told that data is unavailable does not say so for ever once a    *)
(* snapshot can be read, even if no newer one comes (api_views.py:1627).   *)
UnavailableIsRevoked ==
  \A c \in Clients : <>[](current[today] # 0 => client[c].online)
=============================================================================
