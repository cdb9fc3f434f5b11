------------------------ MODULE DashboardStreamProofs ------------------------
(***************************************************************************)
(* Proofs about DashboardStream, for any set of connections and any number *)
(* of dates, snapshots and faults.  The reads of one date are ordered: a   *)
(* connection has seen at most what is cached, the cache holds at most     *)
(* what the build under way has read, and that is at most the current      *)
(* version; a second attempt meets only builds begun after its             *)
(* notification.                                                           *)
(***************************************************************************)
EXTENDS DashboardStream, TLAPS

(* The versions of a date, from the refresh task to the cache. *)
DateInOrder(d) ==
  /\ current[d] <= generated
  /\ refresh[d].version <= generated
  /\ refresh[d].phase = "built" => current[d] <= refresh[d].version
  /\ refresh[d].phase = "announce" => refresh[d].version <= current[d]
  /\ task[d].phase \in {"none", "queued"} => task[d].version = 0
  /\ task[d].version <= current[d]
  /\ cache[d].version <= current[d]
  /\ task[d].version # 0 => cache[d].version <= task[d].version
  /\ handled[d] <= cache[d].version

NewsInOrder(c) == queue[c].day \in Days => queue[c].version <= current[queue[c].day]

(* What a connection in state s has seen and asks for, against its date. *)
InOrder(s) ==
  /\ s.asked <= current[s.day]
  /\ s.seen <= current[s.day]
  /\ cache[s.day].version # 0 => s.seen <= cache[s.day].version
  /\ task[s.day].version # 0 => s.seen <= task[s.day].version
  /\ s.attempt = 2 /\ task[s.day].version # 0 => s.asked <= task[s.day].version

Settled(s) ==
  /\ s.pc = "waiting" => task[s.day].phase \in {"queued", "read"}
  /\ s.pc = "listening" => s.asked <= s.seen
  /\ s.pc \notin {"again", "waiting"} => s.attempt = 1

OrderInv ==
  /\ \A d \in Days : DateInOrder(d)
  /\ \A c \in Clients : NewsInOrder(c) /\ InOrder(client[c]) /\ Settled(client[c])

IInv == TypeOK /\ OrderInv

-----------------------------------------------------------------------------
(* What the outcome of a read makes of a connection *)

LEMMA Constants == /\ 1 \in Days /\ Versions \subseteq Nat /\ Days \subseteq Nat
                   /\ 0 \in Versions
  BY StreamAssumption DEF Days, Versions

(* A connection has a new state after Got; what changes in it. *)
LEMMA GotFacts ==
  ASSUME NEW s \in ClientState, NEW v \in Versions
  PROVE  /\ Got(s, v) \in ClientState
         /\ Got(s, v).day = s.day
         /\ \/ /\ v # 0 /\ Got(s, v).pc = "listening" /\ Got(s, v).attempt = 1
               /\ Got(s, v).seen = v /\ Got(s, v).asked = s.asked
               /\ s.asked \in {0, v} \/ s.attempt = 2
            \/ /\ v = 0 /\ Got(s, v).pc = "listening" /\ Got(s, v).attempt = 1
               /\ Got(s, v).seen = s.seen /\ Got(s, v).asked = 0
            \/ /\ v # 0 /\ Got(s, v).pc = "again" /\ Got(s, v).attempt = 2
               /\ Got(s, v).seen = s.seen /\ Got(s, v).asked = s.asked
  <1>1. CASE v = 0
    BY <1>1, Constants DEF Got, Refused, ClientState
  <1>2. CASE v # 0 /\ (s.asked \in {0, v} \/ s.attempt = 2)
    BY <1>2 DEF Got, Answered, ClientState
  <1>3. CASE v # 0 /\ ~(s.asked \in {0, v} \/ s.attempt = 2)
    BY <1>3 DEF Got, ClientState
  <1> QED BY <1>1, <1>2, <1>3

LEMMA AnsweredFacts ==
  ASSUME NEW s \in ClientState, NEW v \in Versions
  PROVE  /\ Answered(s, v) \in ClientState
         /\ Answered(s, v).day = s.day /\ Answered(s, v).pc = "listening"
         /\ Answered(s, v).attempt = 1 /\ Answered(s, v).seen = v
         /\ Answered(s, v).asked = s.asked
  BY DEF Answered, ClientState

LEMMA CachedType ==
  ASSUME TypeOK, NEW d \in Days, NEW v \in Versions
  PROVE  /\ Cached(d, v) \in [Days -> Event]
         /\ \A e \in Days : Cached(d, v)[e].version
                            = IF e = d /\ v # 0 THEN v ELSE cache[e].version
  BY DEF TypeOK, Cached, Event

(* The state a connection takes into a read. *)
LEMMA AtTodayFacts ==
  ASSUME TypeOK, NEW s \in ClientState, NEW n \in Versions
  PROVE  LET a == [AtToday(s) EXCEPT !.asked = n]
         IN /\ a \in ClientState /\ a.day = today /\ a.asked = n
            /\ a.attempt = s.attempt /\ a.pc = s.pc
            /\ a.seen = IF s.day = today THEN s.seen ELSE 0
  BY Constants DEF TypeOK, AtToday, ClientState

-----------------------------------------------------------------------------
(* Type correctness *)

LEMMA GetOnceType ==
  ASSUME TypeOK, NEW c \in Clients, NEW s \in ClientState, GetOnce(c, s)
  PROVE  /\ client' \in [Clients -> ClientState]
         /\ cache' \in [Days -> Event]
         /\ handled' \in [Days -> Versions]
         /\ task' \in [Days -> Build]
  <1> DEFINE d == s.day
  <1>0. d \in Days /\ s.asked \in Versions /\ cache[d].version \in Versions
        /\ task[d].version \in Versions
    BY DEF TypeOK, ClientState, Event, Build
  <1>1. CASE /\ Hit(d, s.asked)
             /\ client' = [client EXCEPT ![c] = Answered(s, cache[d].version)]
             /\ handled' = IF s.asked = 0 THEN handled ELSE [handled EXCEPT ![d] = s.asked]
             /\ UNCHANGED <<cache, task>>
    BY <1>0, <1>1, AnsweredFacts DEF TypeOK
  <1>2. CASE /\ ~Hit(d, s.asked)
             /\ task[d].phase # "done"
             /\ client' = [client EXCEPT ![c] = [s EXCEPT !.pc = "waiting"]]
             /\ task' = IF task[d].phase = "none"
                        THEN [task EXCEPT ![d].phase = "queued"] ELSE task
             /\ UNCHANGED <<cache, handled>>
    <2>1. [s EXCEPT !.pc = "waiting"] \in ClientState
      BY DEF ClientState
    <2>2. [task EXCEPT ![d].phase = "queued"] \in [Days -> Build]
      BY <1>0 DEF TypeOK, Build
    <2> QED BY <1>2, <2>1, <2>2 DEF TypeOK
  <1>3. CASE /\ ~Hit(d, s.asked)
             /\ task[d].phase = "done"
             /\ client' = [client EXCEPT ![c] = Got(s, task[d].version)]
             /\ cache' = Cached(d, task[d].version)
             /\ handled' = IF Handles(s, task[d].version)
                           THEN [handled EXCEPT ![d] = s.asked] ELSE handled
             /\ task' = [task EXCEPT ![d] = NoTask]
    <2>1. Got(s, task[d].version) \in ClientState
      BY <1>0, GotFacts
    <2>2. Cached(d, task[d].version) \in [Days -> Event]
      BY <1>0, CachedType
    <2>3. NoTask \in Build
      BY Constants DEF NoTask, Build
    <2> QED BY <1>0, <1>3, <2>1, <2>2, <2>3 DEF TypeOK
  <1> QED BY <1>1, <1>2, <1>3 DEF GetOnce

LEMMA ClientStepType ==
  ASSUME TypeOK, NEW c \in Clients, ClientStep(c)
  PROVE  TypeOK'
  <1>1. client[c] \in ClientState /\ 0 \in Versions
        /\ NoNews \in [day : 0..MaxDay, version : Versions]
    <2>1. client[c] \in ClientState
      BY DEF TypeOK
    <2>2. NoNews \in [day : 0..MaxDay, version : Versions]
      BY Constants, StreamAssumption DEF NoNews
    <2> QED BY <2>1, <2>2, Constants
  <1>2. CASE FirstRead(c)
    <2>1. [AtToday(client[c]) EXCEPT !.asked = 0] \in ClientState
      BY <1>1, AtTodayFacts
    <2> QED BY <1>2, <2>1, GetOnceType DEF FirstRead, Ask, TypeOK
  <1>3. CASE PeriodicCheck(c)
    <2>1. [AtToday(client[c]) EXCEPT !.asked = 0] \in ClientState
      BY <1>1, AtTodayFacts
    <2> QED BY <1>3, <2>1, GetOnceType DEF PeriodicCheck, Ask, TypeOK
  <1>4. CASE TakeNotification(c)
    <2>1. queue' \in [Clients -> [day : 0..MaxDay, version : Versions]]
      BY <1>1, <1>4 DEF TakeNotification, TypeOK
    <2>2. CASE Ask(c, queue[c].version)
      <3>1. queue[c].version \in Versions
        BY DEF TypeOK
      <3>2. [AtToday(client[c]) EXCEPT !.asked = queue[c].version] \in ClientState
        BY <1>1, <3>1, AtTodayFacts
      <3> QED BY <1>4, <2>1, <2>2, <3>2, GetOnceType DEF TakeNotification, Ask, TypeOK
    <2>3. CASE /\ client' = [client EXCEPT ![c] = [AtToday(@) EXCEPT !.asked = 0]]
               /\ UNCHANGED <<cache, handled, task>>
      <3>1. [AtToday(client[c]) EXCEPT !.asked = 0] \in ClientState
        BY <1>1, AtTodayFacts
      <3> QED BY <1>4, <2>1, <2>3, <3>1 DEF TakeNotification, TypeOK
    <2> QED BY <1>4, <2>2, <2>3 DEF TakeNotification
  <1>5. CASE SecondAttempt(c)
    BY <1>1, <1>5, GetOnceType DEF SecondAttempt, TypeOK
  <1> QED BY <1>2, <1>3, <1>4, <1>5 DEF ClientStep

LEMMA FinishBuildType ==
  ASSUME TypeOK, NEW d \in Days, FinishBuild(d)
  PROVE  TypeOK'
  <1>1. task[d].version \in Versions /\ NoTask \in Build
    BY Constants DEF TypeOK, Build, NoTask
  <1>2. CASE Waiters(d) = {}
    <2>1. task' = [task EXCEPT ![d].phase = "done"]
          /\ UNCHANGED <<cache, handled, client>>
      BY <1>2 DEF FinishBuild
    <2>2. task' \in [Days -> Build]
      BY <2>1 DEF TypeOK, Build
    <2> QED BY <2>1, <2>2 DEF FinishBuild, TypeOK
  <1>3. CASE Waiters(d) # {}
    <2>1. /\ task' = [task EXCEPT ![d] = NoTask]
          /\ cache' = Cached(d, task[d].version)
          /\ client' = [c \in Clients |-> IF c \in Waiters(d) THEN Got(client[c], task[d].version)
                                         ELSE client[c]]
      BY <1>3 DEF FinishBuild
    <2>6. \/ UNCHANGED handled
          \/ \E n \in {client[c].asked : c \in {b \in Waiters(d) : Handles(client[b], task[d].version)}} :
               handled' = [handled EXCEPT ![d] = n]
      BY <1>3 DEF FinishBuild
    <2>2. task' \in [Days -> Build]
      BY <1>1, <2>1 DEF TypeOK
    <2>3. cache' \in [Days -> Event]
      BY <1>1, <2>1, CachedType
    <2>4. client' \in [Clients -> ClientState]
      <3>1. \A c \in Clients : Got(client[c], task[d].version) \in ClientState
        BY <1>1, GotFacts DEF TypeOK
      <3> QED BY <2>1, <3>1 DEF TypeOK
    <2>5. handled' \in [Days -> Versions]
      <3>1. \A c \in Waiters(d) : client[c].asked \in Versions
        BY DEF Waiters, TypeOK, ClientState
      <3> QED BY <2>6, <3>1 DEF TypeOK
    <2> QED BY <2>2, <2>3, <2>4, <2>5 DEF FinishBuild, TypeOK
  <1> QED BY <1>2, <1>3

LEMMA InitType == Init => TypeOK
  <1> SUFFICES ASSUME Init PROVE TypeOK
    OBVIOUS
  <1> USE Constants, StreamAssumption
  <1>1. NoEvent \in Event /\ NoTask \in Build /\ NoClient \in ClientState
        /\ NoNews \in [day : 0..MaxDay, version : Versions]
    BY DEF NoEvent, Event, NoTask, Build, NoClient, ClientState, NoNews
  <1> QED BY <1>1 DEF Init, TypeOK

LEMMA NextType == TypeOK /\ [Next]_vars => TypeOK'
  <1> SUFFICES ASSUME TypeOK, [Next]_vars PROVE TypeOK'
    OBVIOUS
  <1>0. /\ NoEvent \in Event /\ NoTask \in Build /\ NoClient \in ClientState
        /\ NoNews \in [day : 0..MaxDay, version : Versions] /\ 0 \in Versions
    BY Constants, StreamAssumption DEF NoEvent, Event, NoTask, Build, NoClient, ClientState, NoNews
  <1>1. CASE Midnight
    BY <1>1, StreamAssumption DEF Midnight, TypeOK, Days, loop
  <1>2. CASE BuildSnapshot
    <2>1. generated + 1 \in Versions
      BY <1>2, StreamAssumption DEF BuildSnapshot, TypeOK, Versions
    <2> QED BY <1>2, <2>1 DEF BuildSnapshot, TypeOK, loop
  <1>3. ASSUME NEW d \in Days, Publish(d) PROVE TypeOK'
    BY <1>3 DEF Publish, TypeOK, loop
  <1>4. ASSUME NEW d \in Days, GiveUp(d) PROVE TypeOK'
    BY <1>0, <1>4 DEF GiveUp, TypeOK, loop
  <1>5. ASSUME NEW d \in Days, Announce(d) PROVE TypeOK'
    <2>1. [day |-> d, version |-> refresh[d].version] \in [day : 0..MaxDay, version : Versions]
      BY StreamAssumption DEF TypeOK, Days
    <2> QED BY <1>0, <1>5, <2>1 DEF Announce, TypeOK
  <1>6. ASSUME NEW d \in Days, Read(d) PROVE TypeOK'
    <2>1. faults' \in 0..MaxFaults
      BY <1>6, StreamAssumption DEF Read, Fault, TypeOK
    <2>2. task' \in [Days -> Build]
      <3>1. task[d] \in Build /\ current[d] \in Versions
        BY DEF TypeOK
      <3>2. [task[d] EXCEPT !.phase = "read", !.version = current[d]] \in Build
        BY <3>1 DEF Build
      <3>3. [task[d] EXCEPT !.phase = "read"] \in Build
        BY <3>1 DEF Build
      <3>4. \/ task' = [task EXCEPT ![d] = [task[d] EXCEPT !.phase = "read", !.version = current[d]]]
            \/ task' = [task EXCEPT ![d] = [task[d] EXCEPT !.phase = "read"]]
        BY <1>6 DEF Read, TypeOK
      <3> QED BY <3>2, <3>3, <3>4 DEF TypeOK
    <2> QED BY <1>6, <2>1, <2>2 DEF Read, TypeOK
  <1>7. ASSUME NEW d \in Days, CacheAges(d) PROVE TypeOK'
    BY <1>7 DEF CacheAges, TypeOK, Event
  <1>9. ASSUME NEW d \in Days, Evict(d) PROVE TypeOK'
    BY <1>0, <1>9 DEF Evict, TypeOK
  <1>10. ASSUME NEW c \in Clients, Connect(c) PROVE TypeOK'
    <2>1. [NoClient EXCEPT !.pc = "ready", !.day = today, !.page = client[c].page,
                           !.online = TRUE] \in ClientState
      BY <1>0 DEF NoClient, ClientState, TypeOK
    <2> QED BY <1>10, <2>1 DEF Connect, TypeOK
  <1>11. ASSUME NEW c \in Clients, Left(c), faults' \in 0..MaxFaults PROVE TypeOK'
    <2>1. [NoClient EXCEPT !.page = client[c].page, !.online = client[c].online] \in ClientState
      BY <1>0 DEF NoClient, ClientState, TypeOK
    <2> QED BY <1>0, <1>11, <2>1 DEF Left, TypeOK
  <1>12. ASSUME NEW c \in Clients, LeaseEnds(c) \/ Disconnect(c) PROVE TypeOK'
    BY <1>11, <1>12, StreamAssumption DEF LeaseEnds, Disconnect, Fault, TypeOK
  <1>13. CASE UNCHANGED vars
    BY <1>13 DEF vars, loop, TypeOK
  <1> QED
    BY <1>1, <1>2, <1>3, <1>4, <1>5, <1>6, <1>7, <1>9, <1>10, <1>12, <1>13,
       ClientStepType, FinishBuildType DEF Next

(* Type correctness, for every number of connections, dates and snapshots: *)
(* what dashboard_stream and its payload cache hold stays well formed, and *)
(* no connection makes a third attempt.                                    *)
THEOREM TypeCorrect == Spec => []TypeOK
  <1> QED BY InitType, NextType, PTL DEF Spec

-----------------------------------------------------------------------------
(* The order of versions *)

(* A connection that leaves a read in state a is in order against what the *)
(* read left in the cache and the task table.                              *)
LEMMA GetOnceOrder ==
  ASSUME TypeOK, OrderInv, NEW c \in Clients, NEW s \in ClientState, InOrder(s),
         GetOnce(c, s), UNCHANGED <<generated, current, refresh>>
  PROVE  /\ \A e \in Days : DateInOrder(e)'
         /\ \A b \in Clients : InOrder(client[b])' /\ Settled(client[b])'
         /\ client'[c].day = s.day
         /\ client'[c].seen >= s.seen
  <1> DEFINE d == s.day
             t == task[d].version
             k == cache[d].version
  <1>0. /\ d \in Days /\ s.asked \in Nat /\ s.seen \in Nat /\ t \in Nat /\ k \in Nat
        /\ s.asked \in Versions /\ t \in Versions /\ k \in Versions
        /\ 0 \in Versions
        /\ \A e \in Days : /\ handled[e] \in Nat /\ cache[e].version \in Nat
                           /\ task[e].version \in Nat /\ current[e] \in Nat
    BY Constants DEF TypeOK, ClientState, Event, Build
  <1>1. /\ s.asked <= current[d] /\ s.seen <= current[d]
        /\ k # 0 => s.seen <= k
        /\ t # 0 => s.seen <= t
        /\ s.attempt = 2 /\ t # 0 => s.asked <= t
    BY DEF InOrder
  <1>2. DateInOrder(d)
    BY <1>0 DEF OrderInv
  <1>3. \A b \in Clients : InOrder(client[b]) /\ Settled(client[b]) /\ client[b] \in ClientState
    BY DEF OrderInv, TypeOK
  <1>4. CASE /\ Hit(d, s.asked)
             /\ client' = [client EXCEPT ![c] = Answered(s, k)]
             /\ handled' = IF s.asked = 0 THEN handled ELSE [handled EXCEPT ![d] = s.asked]
             /\ UNCHANGED <<cache, task>>
    <2>1. /\ client'[c].day = d /\ client'[c].pc = "listening" /\ client'[c].attempt = 1
          /\ client'[c].seen = k /\ client'[c].asked = s.asked
      BY <1>0, <1>4, AnsweredFacts DEF TypeOK
    <2>2. k # 0 /\ s.asked <= k
      BY <1>0, <1>2, <1>4 DEF Hit, DateInOrder
    <2>3. \A e \in Days : DateInOrder(e)'
      <3>1. \A e \in Days : handled'[e] = IF e = d /\ s.asked # 0 THEN s.asked ELSE handled[e]
        BY <1>0, <1>4 DEF TypeOK
      <3> QED BY <1>0, <1>4, <2>2, <3>1 DEF OrderInv, DateInOrder
    <2>4. InOrder(client[c])' /\ Settled(client[c])'
      BY <1>0, <1>1, <1>2, <1>4, <2>1, <2>2 DEF InOrder, Settled, DateInOrder
    <2>5. \A b \in Clients \ {c} : client'[b] = client[b]
      BY <1>4 DEF TypeOK
    <2>6. \A b \in Clients \ {c} : InOrder(client[b])' /\ Settled(client[b])'
      BY <1>3, <1>4, <2>5 DEF InOrder, Settled
    <2> QED BY <1>0, <1>1, <2>1, <2>2, <2>3, <2>4, <2>5, <2>6 DEF InOrder, Settled
  <1>5. CASE /\ ~Hit(d, s.asked)
             /\ task[d].phase # "done"
             /\ client' = [client EXCEPT ![c] = [s EXCEPT !.pc = "waiting"]]
             /\ task' = IF task[d].phase = "none"
                        THEN [task EXCEPT ![d].phase = "queued"] ELSE task
             /\ UNCHANGED <<cache, handled>>
    <2>1. /\ client'[c].day = d /\ client'[c].pc = "waiting" /\ client'[c].attempt = s.attempt
          /\ client'[c].seen = s.seen /\ client'[c].asked = s.asked
      BY <1>5 DEF ClientState, TypeOK
    <2>2. \A e \in Days : /\ task'[e].version = task[e].version
                          /\ task'[e].phase = IF e = d /\ task[d].phase = "none"
                                              THEN "queued" ELSE task[e].phase
      BY <1>0, <1>5 DEF TypeOK, Build
    <2>3. \A e \in Days : DateInOrder(e)'
      BY <1>5, <2>2 DEF OrderInv, DateInOrder
    <2>4. \A b \in Clients \ {c} : client'[b] = client[b]
      BY <1>5 DEF TypeOK
    <2>5. task'[d].phase \in {"queued", "read"}
      BY <1>0, <1>5, <2>2 DEF TypeOK, Build
    <2>6. InOrder(client[c])' /\ Settled(client[c])'
      BY <1>0, <1>1, <1>5, <2>1, <2>2, <2>5 DEF InOrder, Settled
    <2>7. \A b \in Clients \ {c} : InOrder(client[b])' /\ Settled(client[b])'
      BY <1>3, <1>5, <2>2, <2>4 DEF InOrder, Settled, ClientState
    <2> QED BY <1>0, <2>1, <2>3, <2>4, <2>6, <2>7 DEF InOrder, Settled
  <1>6. CASE /\ ~Hit(d, s.asked)
             /\ task[d].phase = "done"
             /\ client' = [client EXCEPT ![c] = Got(s, t)]
             /\ cache' = Cached(d, t)
             /\ handled' = IF Handles(s, t) THEN [handled EXCEPT ![d] = s.asked] ELSE handled
             /\ task' = [task EXCEPT ![d] = NoTask]
    <2> DEFINE a == client'[c]
    <2>1. \A e \in Days : cache'[e].version = IF e = d /\ t # 0 THEN t ELSE cache[e].version
      BY <1>0, <1>6, CachedType
    <2>2. /\ task'[d].version = 0 /\ task'[d].phase = "none"
          /\ \A e \in Days \ {d} : task'[e] = task[e]
      BY <1>0, <1>6 DEF TypeOK, NoTask
    <2>3. \A e \in Days : handled'[e] <= IF e = d /\ t # 0 THEN t ELSE cache[e].version
      <3>1. \A e \in Days : handled'[e] = IF e = d /\ Handles(s, t) THEN s.asked ELSE handled[e]
        BY <1>0, <1>6 DEF TypeOK
      <3>2. Handles(s, t) => t # 0 /\ s.asked <= t
        BY <1>0, <1>1 DEF Handles
      <3> QED BY <1>0, <1>2, <3>1, <3>2 DEF OrderInv, DateInOrder
    <2>4. \A e \in Days : DateInOrder(e)'
      BY <1>0, <1>6, <2>1, <2>2, <2>3 DEF OrderInv, DateInOrder
    <2>5. \A b \in Clients \ {c} : client'[b] = client[b]
      BY <1>6 DEF TypeOK
    <2>6. a.day = d /\ InOrder(client[c])' /\ Settled(client[c])' /\ a.seen >= s.seen
      <3>1. t <= current[d]
        BY <1>2 DEF DateInOrder
      <3>2. a = Got(s, t)
        BY <1>6 DEF TypeOK
      <3>7. /\ Got(s, t).day = s.day
            /\ \/ /\ t # 0 /\ Got(s, t).pc = "listening" /\ Got(s, t).attempt = 1
                  /\ Got(s, t).seen = t /\ Got(s, t).asked = s.asked
                  /\ s.asked \in {0, t} \/ s.attempt = 2
               \/ /\ t = 0 /\ Got(s, t).pc = "listening" /\ Got(s, t).attempt = 1
                  /\ Got(s, t).seen = s.seen /\ Got(s, t).asked = 0
               \/ /\ t # 0 /\ Got(s, t).pc = "again" /\ Got(s, t).attempt = 2
                  /\ Got(s, t).seen = s.seen /\ Got(s, t).asked = s.asked
        BY <1>0, GotFacts
      <3>6. a.day = d
        BY <3>2, <3>7
      <3>3. CASE /\ t # 0 /\ a.pc = "listening" /\ a.attempt = 1 /\ a.seen = t
                 /\ a.asked = s.asked /\ (s.asked \in {0, t} \/ s.attempt = 2)
        BY <1>0, <1>1, <1>6, <2>1, <2>2, <3>1, <3>6, <3>3 DEF InOrder, Settled
      <3>4. CASE t = 0 /\ a.pc = "listening" /\ a.attempt = 1 /\ a.seen = s.seen /\ a.asked = 0
        BY <1>0, <1>1, <1>6, <2>1, <2>2, <3>6, <3>4 DEF InOrder, Settled
      <3>5. CASE /\ t # 0 /\ a.pc = "again" /\ a.attempt = 2 /\ a.seen = s.seen
                 /\ a.asked = s.asked
        BY <1>0, <1>1, <1>6, <2>1, <2>2, <3>6, <3>5 DEF InOrder, Settled
      <3> QED BY <3>2, <3>3, <3>4, <3>5, <3>6, <3>7, <1>0, <1>1
    <2>7. \A b \in Clients \ {c} : InOrder(client[b])' /\ Settled(client[b])'
      <3> SUFFICES ASSUME NEW b \in Clients \ {c}
                   PROVE  InOrder(client[b])' /\ Settled(client[b])'
        OBVIOUS
      <3>1. client'[b] = client[b] /\ InOrder(client[b]) /\ Settled(client[b])
            /\ client[b] \in ClientState
        BY <1>3, <2>5
      <3>2. client[b].day \in Days /\ client[b].seen \in Nat
        BY <3>1, Constants DEF ClientState
      <3>3. CASE client[b].day = d
        BY <1>0, <1>6, <2>1, <2>2, <3>1, <3>2, <3>3 DEF InOrder, Settled
      <3>4. CASE client[b].day # d
        BY <1>0, <2>1, <2>2, <3>1, <3>2, <3>4 DEF InOrder, Settled
      <3> QED BY <3>3, <3>4
    <2> QED BY <1>0, <2>4, <2>5, <2>6, <2>7 DEF InOrder, Settled
  <1> QED BY <1>4, <1>5, <1>6 DEF GetOnce

Forward ==
  \A c \in Clients :
    client[c].pc # "off" /\ client'[c].pc # "off" /\ client'[c].day = client[c].day
      => client'[c].seen >= client[c].seen

LEMMA AskInOrder ==
  ASSUME TypeOK, OrderInv, NEW c \in Clients, NEW n \in Versions, n <= current[today],
         client[c].pc \in {"ready", "listening"}
  PROVE  LET a == [AtToday(client[c]) EXCEPT !.asked = n]
         IN /\ a \in ClientState /\ InOrder(a) /\ a.day = today /\ a.attempt = 1
            /\ a.pc = client[c].pc
            /\ a.day = client[c].day => a.seen = client[c].seen
  <1> DEFINE a == [AtToday(client[c]) EXCEPT !.asked = n]
  <1>1. client[c] \in ClientState /\ InOrder(client[c]) /\ client[c].attempt = 1
    BY DEF TypeOK, OrderInv, Settled
  <1>2. /\ a \in ClientState /\ a.day = today /\ a.asked = n /\ a.attempt = 1
        /\ a.pc = client[c].pc /\ a.seen = IF client[c].day = today THEN client[c].seen ELSE 0
    BY <1>1, AtTodayFacts
  <1>3. /\ today \in Days /\ current[today] \in Nat /\ cache[today].version \in Nat
        /\ task[today].version \in Nat
    BY Constants DEF TypeOK, Event, Build
  <1>4. InOrder(a)
    BY <1>1, <1>2, <1>3 DEF InOrder
  <1> QED BY <1>2, <1>4

LEMMA QueueKept ==
  ASSUME TypeOK, OrderInv, UNCHANGED current,
         \A c \in Clients : queue'[c] \in {queue[c], NoNews}
  PROVE  \A c \in Clients : NewsInOrder(c)'
  BY Constants DEF OrderInv, NewsInOrder, NoNews, Days

LEMMA ClientStepOrder ==
  ASSUME TypeOK, OrderInv, NEW c \in Clients, ClientStep(c)
  PROVE  OrderInv' /\ Forward
  <1>1. client[c] \in ClientState /\ InOrder(client[c])
        /\ \A b \in Clients : client[b].seen \in Nat
    BY Constants DEF TypeOK, OrderInv, ClientState
  <1>2. UNCHANGED <<generated, current, refresh>>
        /\ \A b \in Clients : queue'[b] \in {queue[b], NoNews}
    BY DEF ClientStep, FirstRead, PeriodicCheck, TakeNotification, SecondAttempt, TypeOK
  <1>3. \A b \in Clients : NewsInOrder(b)'
    BY <1>2, QueueKept
  <1>4. ASSUME NEW s \in ClientState, InOrder(s), GetOnce(c, s),
               s.day = client[c].day => s.seen = client[c].seen
        PROVE  OrderInv' /\ Forward
    <2>1. \A b \in Clients \ {c} : client'[b] = client[b]
      BY <1>4 DEF GetOnce, TypeOK
    <2>2. /\ \A e \in Days : DateInOrder(e)'
          /\ \A b \in Clients : InOrder(client[b])' /\ Settled(client[b])'
          /\ client'[c].day = s.day /\ client'[c].seen >= s.seen
      BY <1>2, <1>4, GetOnceOrder
    <2>3. Forward
      BY <1>1, <1>4, <2>1, <2>2 DEF Forward
    <2> QED BY <1>3, <2>2, <2>3 DEF OrderInv
  <1>5. ASSUME NEW n \in Versions, n <= current[today], Ask(c, n),
               client[c].pc \in {"ready", "listening"}
        PROVE  OrderInv' /\ Forward
    BY <1>4, <1>5, AskInOrder DEF Ask
  <1>6. 0 \in Versions /\ 0 <= current[today]
    <2>1. current[today] \in Versions
      BY DEF TypeOK
    <2>2. current[today] \in Nat
      BY <2>1, Constants
    <2> QED BY <2>2, Constants
  <1>7. CASE FirstRead(c) \/ PeriodicCheck(c)
    BY <1>5, <1>6, <1>7 DEF FirstRead, PeriodicCheck
  <1>8. CASE TakeNotification(c)
    <2>1. CASE queue[c].day = today
      <3>1. queue[c].version \in Versions /\ queue[c].version <= current[today]
        BY <2>1 DEF TypeOK, OrderInv, NewsInOrder
      <3> QED BY <1>5, <1>8, <2>1, <3>1 DEF TakeNotification
    <2>2. CASE queue[c].day # today
      <3> DEFINE a == [AtToday(client[c]) EXCEPT !.asked = 0]
      <3>1. /\ client[c].pc = "listening" /\ client' = [client EXCEPT ![c] = a]
            /\ UNCHANGED <<cache, handled, task>>
        BY <1>8, <2>2 DEF TakeNotification
      <3>2. /\ a \in ClientState /\ InOrder(a) /\ a.attempt = 1 /\ a.pc = "listening"
            /\ a.day = client[c].day => a.seen = client[c].seen
        BY <1>6, <3>1, AskInOrder
      <3>3. a.asked = 0
        BY <1>1 DEF AtToday, ClientState
      <3>4. client'[c] = a /\ \A b \in Clients \ {c} : client'[b] = client[b]
        BY <3>1 DEF TypeOK
      <3> HIDE DEF a
      <3>5. \A e \in Days : DateInOrder(e)'
        BY <1>2, <3>1 DEF OrderInv, DateInOrder
      <3>6. \A b \in Clients : InOrder(client[b])'
        BY <1>2, <3>1, <3>2, <3>4 DEF OrderInv, InOrder
      <3>7. \A b \in Clients : Settled(client[b])'
        <4>1. a.seen \in Nat
          BY <3>2, Constants DEF ClientState
        <4>2. Settled(client[c])'
          BY <3>2, <3>3, <3>4, <4>1 DEF Settled
        <4> QED BY <3>1, <3>4, <4>2 DEF OrderInv, Settled
      <3>8. Forward
        BY <1>1, <3>2, <3>4 DEF Forward
      <3> QED BY <1>3, <3>5, <3>6, <3>7, <3>8 DEF OrderInv
    <2> QED BY <2>1, <2>2
  <1>9. CASE SecondAttempt(c)
    BY <1>1, <1>4, <1>9 DEF SecondAttempt
  <1> QED BY <1>7, <1>8, <1>9 DEF ClientStep

LEMMA FinishBuildOrder ==
  ASSUME TypeOK, OrderInv, NEW d \in Days, FinishBuild(d)
  PROVE  OrderInv' /\ Forward
  <1> DEFINE t == task[d].version
  <1>0. /\ t \in Versions /\ t \in Nat /\ task[d].phase = "read"
        /\ UNCHANGED <<generated, current, refresh, queue>>
        /\ \A e \in Days : /\ handled[e] \in Nat /\ cache[e].version \in Nat
                           /\ task[e].version \in Nat /\ current[e] \in Nat
        /\ \A c \in Clients : /\ client[c] \in ClientState /\ client[c].seen \in Nat
                              /\ client[c].asked \in Nat /\ client[c].day \in Days
                              /\ InOrder(client[c]) /\ Settled(client[c])
    BY Constants DEF TypeOK, OrderInv, FinishBuild, Build, Event, ClientState
  <1>1. DateInOrder(d)
    BY DEF OrderInv
  <1>2. \A c \in Clients : NewsInOrder(c)'
    BY <1>0 DEF OrderInv, NewsInOrder
  <1>3. CASE Waiters(d) = {}
    <2>1. /\ task' = [task EXCEPT ![d].phase = "done"]
          /\ UNCHANGED <<cache, handled, client>>
      BY <1>3 DEF FinishBuild
    <2>2. \A e \in Days : /\ task'[e].version = task[e].version
                          /\ task'[e].phase = IF e = d THEN "done" ELSE task[e].phase
      BY <2>1 DEF TypeOK, Build
    <2>3. \A e \in Days : DateInOrder(e)'
      <3> SUFFICES ASSUME NEW e \in Days PROVE DateInOrder(e)'
        OBVIOUS
      <3>1. DateInOrder(e) /\ cache'[e] = cache[e] /\ handled'[e] = handled[e]
            /\ current'[e] = current[e] /\ refresh'[e] = refresh[e] /\ generated' = generated
        BY <1>0, <2>1 DEF OrderInv
      <3> QED BY <1>0, <2>2, <3>1 DEF DateInOrder
    <2>4. \A c \in Clients : InOrder(client[c])'
      BY <1>0, <2>1, <2>2 DEF InOrder
    <2>5. \A c \in Clients : Settled(client[c])'
      <3> SUFFICES ASSUME NEW c \in Clients PROVE Settled(client[c])'
        OBVIOUS
      <3>1. client'[c] = client[c] /\ client[c].day \in Days /\ Settled(client[c])
        BY <1>0, <2>1
      <3>2. client[c].pc = "waiting" => client[c].day # d
        BY <1>3 DEF Waiters
      <3> QED BY <2>2, <3>1, <3>2 DEF Settled
    <2>6. Forward
      BY <1>0, <2>1 DEF Forward
    <2> QED BY <1>2, <2>3, <2>4, <2>5, <2>6 DEF OrderInv
  <1>4. CASE Waiters(d) # {}
    <2>1. /\ task' = [task EXCEPT ![d] = NoTask]
          /\ cache' = Cached(d, t)
          /\ client' = [c \in Clients |-> IF c \in Waiters(d) THEN Got(client[c], t) ELSE client[c]]
      BY <1>4 DEF FinishBuild
    <2>2. \/ UNCHANGED handled
          \/ \E n \in {client[c].asked : c \in {b \in Waiters(d) : Handles(client[b], t)}} :
               handled' = [handled EXCEPT ![d] = n]
      BY <1>4 DEF FinishBuild
    <2>3. \A e \in Days : cache'[e].version = IF e = d /\ t # 0 THEN t ELSE cache[e].version
      BY <1>0, <2>1, CachedType
    <2>4. /\ task'[d].version = 0 /\ task'[d].phase = "none"
          /\ \A e \in Days \ {d} : task'[e] = task[e]
      BY <2>1 DEF TypeOK, NoTask
    <2>5. \A e \in Days : handled'[e] <= IF e = d /\ t # 0 THEN t ELSE cache[e].version
      <3>1. handled[d] <= cache[d].version /\ (t # 0 => cache[d].version <= t)
        BY <1>1 DEF DateInOrder
      <3>2. CASE UNCHANGED handled
        BY <1>0, <3>1, <3>2 DEF OrderInv, DateInOrder
      <3>3. ASSUME NEW c \in Waiters(d), Handles(client[c], t),
                   handled' = [handled EXCEPT ![d] = client[c].asked]
            PROVE  \A e \in Days : handled'[e] <= IF e = d /\ t # 0 THEN t ELSE cache[e].version
        <4>1. t # 0 /\ client[c].asked <= t
          BY <1>0, <3>3 DEF Handles, Waiters, InOrder
        <4>2. \A e \in Days : handled'[e] = IF e = d THEN client[c].asked ELSE handled[e]
          BY <3>3 DEF TypeOK
        <4>3. \A e \in Days : handled[e] <= cache[e].version
          BY DEF OrderInv, DateInOrder
        <4> QED BY <4>1, <4>2, <4>3
      <3> QED BY <2>2, <3>2, <3>3
    <2>6. \A e \in Days : DateInOrder(e)'
      <3> SUFFICES ASSUME NEW e \in Days PROVE DateInOrder(e)'
        OBVIOUS
      <3>1. DateInOrder(e)
        BY DEF OrderInv
      <3>2. CASE e = d
        BY <1>0, <1>1, <2>3, <2>4, <2>5, <3>2 DEF DateInOrder
      <3>3. CASE e # d
        BY <1>0, <2>3, <2>4, <2>5, <3>1, <3>3 DEF DateInOrder
      <3> QED BY <3>2, <3>3
    <2>7. ASSUME NEW c \in Clients
          PROVE  /\ InOrder(client[c])' /\ Settled(client[c])'
                 /\ client'[c].seen >= client[c].seen
      <3> DEFINE s == client[c]
      <3>1. /\ s \in ClientState /\ s.seen \in Nat /\ s.asked \in Nat /\ s.day \in Days
            /\ InOrder(s) /\ Settled(s)
        BY <1>0
      <3>2. CASE c \in Waiters(d)
        <4>1. client'[c] = Got(s, t) /\ s.day = d
          BY <2>1, <3>2 DEF Waiters
        <4>2. /\ Got(s, t).day = s.day
              /\ \/ /\ t # 0 /\ Got(s, t).pc = "listening" /\ Got(s, t).attempt = 1
                    /\ Got(s, t).seen = t /\ Got(s, t).asked = s.asked
                    /\ s.asked \in {0, t} \/ s.attempt = 2
                 \/ /\ t = 0 /\ Got(s, t).pc = "listening" /\ Got(s, t).attempt = 1
                    /\ Got(s, t).seen = s.seen /\ Got(s, t).asked = 0
                 \/ /\ t # 0 /\ Got(s, t).pc = "again" /\ Got(s, t).attempt = 2
                    /\ Got(s, t).seen = s.seen /\ Got(s, t).asked = s.asked
          BY <1>0, <3>1, GotFacts
        <4>3. t <= current[d]
          BY <1>1 DEF DateInOrder
        <4> QED BY <1>0, <2>3, <2>4, <3>1, <4>1, <4>2, <4>3 DEF InOrder, Settled
      <3>3. CASE c \notin Waiters(d) /\ s.day = d
        <4>1. client'[c] = s /\ s.pc # "waiting"
          BY <2>1, <3>3 DEF Waiters
        <4> QED BY <1>0, <2>3, <2>4, <3>1, <3>3, <4>1 DEF InOrder, Settled
      <3>4. CASE s.day # d
        <4>1. client'[c] = s
          BY <2>1, <3>4 DEF Waiters
        <4> QED BY <1>0, <2>3, <2>4, <3>1, <3>4, <4>1 DEF InOrder, Settled
      <3> QED BY <3>2, <3>3, <3>4
    <2> QED BY <1>2, <2>6, <2>7 DEF OrderInv, Forward
  <1> QED BY <1>3, <1>4

(* The refresh task: current versions only grow, and clients stand still. *)
LEMMA RefreshOrder ==
  ASSUME TypeOK, OrderInv,
         \/ Midnight \/ BuildSnapshot
         \/ \E d \in Days : Publish(d) \/ GiveUp(d) \/ Announce(d)
  PROVE  OrderInv' /\ Forward
  <1>0. /\ generated \in Nat /\ 0 \in Versions
        /\ \A e \in Days : /\ current[e] \in Nat /\ refresh[e].version \in Nat
                           /\ handled[e] \in Nat /\ cache[e].version \in Nat
                           /\ task[e].version \in Nat
        /\ \A c \in Clients : /\ client[c].seen \in Nat /\ client[c].asked \in Nat
                              /\ client[c].day \in Days /\ queue[c].version \in Nat
    BY Constants DEF TypeOK, Build, Event, ClientState
  <1>1. UNCHANGED <<cache, handled, task, client>>
    BY DEF Midnight, BuildSnapshot, Publish, GiveUp, Announce, loop
  <1> DEFINE Grown(e) ==
        /\ current'[e] \in Nat /\ current[e] <= current'[e]
        /\ current'[e] <= generated' /\ refresh'[e].version <= generated'
        /\ refresh'[e].phase = "built" => current'[e] <= refresh'[e].version
        /\ refresh'[e].phase = "announce" => refresh'[e].version <= current'[e]
  <1>2. \A e \in Days : Grown(e)
    <2>0. \A e \in Days : DateInOrder(e)
      BY DEF OrderInv
    <2>1. CASE Midnight
      BY <1>0, <2>0, <2>1 DEF Midnight, DateInOrder
    <2>2. CASE BuildSnapshot
      <3>1. \A e \in Days : refresh'[e] = IF e = today THEN [phase |-> "built", version |-> generated + 1]
                                          ELSE refresh[e]
        BY <2>2 DEF BuildSnapshot, TypeOK
      <3>2. generated' = generated + 1 /\ UNCHANGED current
        BY <2>2 DEF BuildSnapshot
      <3> QED BY <1>0, <2>0, <3>1, <3>2 DEF DateInOrder
    <2>3. ASSUME NEW d \in Days, Publish(d)
          PROVE  \A e \in Days : Grown(e)
      <3>1. \A e \in Days : /\ current'[e] = IF e = d THEN refresh[d].version ELSE current[e]
                            /\ refresh'[e].version = refresh[e].version
                            /\ refresh'[e].phase = IF e = d THEN "announce" ELSE refresh[e].phase
        BY <2>3 DEF Publish, TypeOK
      <3>2. generated' = generated /\ refresh[d].phase = "built"
        BY <2>3 DEF Publish
      <3> QED BY <1>0, <2>0, <3>1, <3>2 DEF DateInOrder
    <2>4. ASSUME NEW d \in Days, GiveUp(d) \/ Announce(d)
          PROVE  \A e \in Days : Grown(e)
      <3>1. \A e \in Days : refresh'[e] = IF e = d THEN [phase |-> "idle", version |-> 0]
                                          ELSE refresh[e]
        BY <2>4 DEF GiveUp, Announce, TypeOK
      <3>2. generated' = generated /\ UNCHANGED current
        BY <2>4 DEF GiveUp, Announce
      <3> QED BY <1>0, <2>0, <3>1, <3>2 DEF DateInOrder
    <2> HIDE DEF Grown
    <2> QED BY <2>1, <2>2, <2>3, <2>4
  <1>3. \A c \in Clients : NewsInOrder(c)'
    <2>1. \A c \in Clients : NewsInOrder(c)
      BY DEF OrderInv
    <2>2. CASE UNCHANGED queue
      BY <1>0, <1>2, <2>1, <2>2 DEF NewsInOrder
    <2>3. ASSUME NEW d \in Days, Announce(d) PROVE \A c \in Clients : NewsInOrder(c)'
      <3>1. /\ refresh[d].version <= current[d] /\ UNCHANGED current
            /\ \A c \in Clients : \/ queue'[c] = queue[c]
                                  \/ queue'[c] = [day |-> d, version |-> refresh[d].version]
        BY <2>3 DEF Announce, OrderInv, DateInOrder
      <3> QED BY <2>1, <3>1 DEF NewsInOrder
    <2> QED BY <2>2, <2>3 DEF Midnight, BuildSnapshot, Publish, GiveUp, loop
  <1>4. \A e \in Days : DateInOrder(e)'
    <2> SUFFICES ASSUME NEW e \in Days PROVE DateInOrder(e)'
      OBVIOUS
    <2>1. DateInOrder(e) /\ cache'[e] = cache[e] /\ handled'[e] = handled[e] /\ task'[e] = task[e]
      BY <1>1 DEF OrderInv
    <2> QED BY <1>0, <1>2, <2>1 DEF DateInOrder
  <1>5. \A c \in Clients : InOrder(client[c])' /\ Settled(client[c])'
    <2> SUFFICES ASSUME NEW c \in Clients PROVE InOrder(client[c])' /\ Settled(client[c])'
      OBVIOUS
    <2>1. InOrder(client[c]) /\ Settled(client[c])
      BY DEF OrderInv
    <2> QED BY <1>0, <1>1, <1>2, <2>1 DEF InOrder, Settled
  <1>6. Forward
    BY <1>0, <1>1 DEF Forward
  <1> QED BY <1>3, <1>4, <1>5, <1>6 DEF OrderInv

(* The builds and the cache between the steps of the connections. *)
LEMMA CacheOrder ==
  ASSUME TypeOK, OrderInv, NEW d \in Days,
         Read(d) \/ CacheAges(d) \/ Evict(d)
  PROVE  OrderInv' /\ Forward
  <1>0. /\ 0 \in Versions
        /\ \A e \in Days : /\ current[e] \in Nat /\ handled[e] \in Nat
                           /\ cache[e].version \in Nat /\ task[e].version \in Nat
        /\ \A c \in Clients : /\ client[c].seen \in Nat /\ client[c].asked \in Nat
                              /\ client[c].day \in Days
                              /\ InOrder(client[c]) /\ Settled(client[c])
        /\ \A e \in Days : DateInOrder(e)
    BY Constants DEF TypeOK, OrderInv, Build, Event, ClientState
  <1>1. UNCHANGED <<generated, current, refresh, queue, client>>
    BY DEF Read, CacheAges, Evict
  <1> DEFINE
        CacheKept(e) == \/ handled'[e] = handled[e] /\ cache'[e].version = cache[e].version
                        \/ handled'[e] = 0 /\ cache'[e].version = 0
        TaskKept(e)  == \/ task'[e].version = task[e].version /\ task'[e].phase = task[e].phase
                        \/ /\ task'[e].version \in {current[e], task[e].version}
                           /\ task[e].phase = "queued" /\ task'[e].phase = "read"
  <1>2. \A e \in Days : CacheKept(e) /\ TaskKept(e)
    <2> SUFFICES ASSUME NEW e \in Days PROVE CacheKept(e) /\ TaskKept(e)
      OBVIOUS
    <2>1. CASE Read(d)
      <3>1. UNCHANGED <<cache, handled>> /\ task[d].phase = "queued"
        BY <2>1 DEF Read
      <3>2. CASE task' = [task EXCEPT ![d].phase = "read", ![d].version = current[d]]
        BY <3>1, <3>2 DEF TypeOK, Build
      <3>3. CASE task' = [task EXCEPT ![d].phase = "read"]
        BY <3>1, <3>3 DEF TypeOK, Build
      <3> QED BY <2>1, <3>2, <3>3 DEF Read
    <2>2. CASE CacheAges(d)
      <3>1. UNCHANGED <<task, handled>>
        BY <2>2 DEF CacheAges
      <3>2. cache'[e].version = cache[e].version
        BY <2>2 DEF CacheAges, TypeOK, Event
      <3> QED BY <3>1, <3>2
    <2>4. CASE Evict(d)
      <3>1. UNCHANGED task
        BY <2>4 DEF Evict
      <3>2. CASE e = d
        BY <2>4, <3>1, <3>2 DEF Evict, TypeOK, NoEvent
      <3>3. CASE e # d
        BY <2>4, <3>1, <3>3 DEF Evict, TypeOK
      <3> QED BY <3>2, <3>3
    <2> QED BY <2>1, <2>2, <2>4
  <1>3. \A e \in Days : DateInOrder(e)'
    BY <1>0, <1>1, <1>2 DEF DateInOrder
  <1>4. \A c \in Clients : NewsInOrder(c)'
    BY <1>1 DEF OrderInv, NewsInOrder
  <1>5. \A c \in Clients : InOrder(client[c])' /\ Settled(client[c])'
    <2> SUFFICES ASSUME NEW c \in Clients PROVE InOrder(client[c])' /\ Settled(client[c])'
      OBVIOUS
    <2>1. /\ client'[c] = client[c] /\ InOrder(client[c]) /\ Settled(client[c])
          /\ client[c].day \in Days /\ DateInOrder(client[c].day)
      BY <1>0, <1>1
    <2> QED BY <1>0, <1>1, <1>2, <2>1 DEF InOrder, Settled, DateInOrder
  <1>6. Forward
    BY <1>0, <1>1 DEF Forward
  <1> QED BY <1>3, <1>4, <1>5, <1>6 DEF OrderInv

LEMMA ConnectionOrder ==
  ASSUME TypeOK, OrderInv, NEW c \in Clients, Connect(c) \/ Left(c)
  PROVE  OrderInv' /\ Forward
  <1>0. /\ \A e \in Days : /\ current[e] \in Nat /\ cache[e].version \in Nat
                           /\ task[e].version \in Nat
        /\ \A b \in Clients : /\ client[b].seen \in Nat /\ InOrder(client[b])
                              /\ Settled(client[b])
        /\ 1 \in Days /\ today \in Days
    BY Constants DEF TypeOK, OrderInv, Build, Event, ClientState
  <1>1. UNCHANGED <<generated, current, refresh, cache, handled, task>>
        /\ \A b \in Clients : queue'[b] \in {queue[b], NoNews}
    BY DEF Connect, Left, TypeOK
  <1>2. /\ client'[c].pc \in {"off", "ready"} /\ client'[c].day \in Days
        /\ client'[c].seen = 0 /\ client'[c].asked = 0 /\ client'[c].attempt = 1
        /\ client[c].pc = "off" \/ client'[c].pc = "off"
        /\ \A b \in Clients \ {c} : client'[b] = client[b]
    <2>1. CASE Connect(c)
      <3>1. client'[c] = [NoClient EXCEPT !.pc = "ready", !.day = today,
                                          !.page = client[c].page, !.online = TRUE]
            /\ client[c].pc = "off" /\ \A b \in Clients \ {c} : client'[b] = client[b]
        BY <2>1 DEF Connect, TypeOK
      <3> QED BY <1>0, <3>1 DEF NoClient
    <2>2. CASE Left(c)
      <3>1. client'[c] = [NoClient EXCEPT !.page = client[c].page, !.online = client[c].online]
            /\ \A b \in Clients \ {c} : client'[b] = client[b]
        BY <2>2 DEF Left, TypeOK
      <3> QED BY <1>0, <3>1 DEF NoClient
    <2> QED BY <2>1, <2>2
  <1>3. \A e \in Days : DateInOrder(e)'
    BY <1>1 DEF OrderInv, DateInOrder
  <1>4. \A b \in Clients : NewsInOrder(b)'
    BY <1>1, QueueKept
  <1>5. InOrder(client[c])' /\ Settled(client[c])'
    BY <1>0, <1>1, <1>2 DEF InOrder, Settled
  <1>6. \A b \in Clients \ {c} : InOrder(client[b])' /\ Settled(client[b])'
    BY <1>0, <1>1, <1>2 DEF InOrder, Settled
  <1>7. Forward
    BY <1>0, <1>2 DEF Forward
  <1> QED BY <1>3, <1>4, <1>5, <1>6, <1>7 DEF OrderInv

-----------------------------------------------------------------------------
(* The theorems *)

LEMMA InitOrder == Init => OrderInv
  <1> SUFFICES ASSUME Init PROVE OrderInv
    OBVIOUS
  <1>1. /\ generated = 0 /\ 1 \in Days /\ 0 \notin Days
        /\ \A d \in Days : /\ current[d] = 0 /\ handled[d] = 0 /\ cache[d] = NoEvent
                           /\ task[d] = NoTask /\ refresh[d] = [phase |-> "idle", version |-> 0]
        /\ \A c \in Clients : queue[c] = NoNews /\ client[c] = NoClient
    BY Constants DEF Init, Days
  <1>2. \A d \in Days : DateInOrder(d)
    BY <1>1 DEF DateInOrder, NoEvent, NoTask
  <1>3. \A c \in Clients : NewsInOrder(c)
    BY <1>1 DEF NewsInOrder, NoNews
  <1>4. \A c \in Clients : InOrder(client[c]) /\ Settled(client[c])
    <2> SUFFICES ASSUME NEW c \in Clients PROVE InOrder(client[c]) /\ Settled(client[c])
      OBVIOUS
    <2>1. /\ client[c].day = 1 /\ client[c].seen = 0 /\ client[c].asked = 0
          /\ client[c].attempt = 1 /\ client[c].pc = "off"
      BY <1>1 DEF NoClient
    <2> QED BY <1>1, <2>1 DEF InOrder, Settled, NoEvent, NoTask
  <1> QED BY <1>2, <1>3, <1>4 DEF OrderInv

LEMMA NextOrder == TypeOK /\ OrderInv /\ [Next]_vars => OrderInv' /\ Forward
  <1> SUFFICES ASSUME TypeOK, OrderInv, [Next]_vars PROVE OrderInv' /\ Forward
    OBVIOUS
  <1>1. CASE UNCHANGED vars
    <2>1. OrderInv'
      BY <1>1 DEF vars, loop, OrderInv, DateInOrder, NewsInOrder, InOrder, Settled
    <2>2. \A c \in Clients : client'[c] = client[c] /\ client[c].seen \in Nat
      BY <1>1, Constants DEF vars, loop, TypeOK, ClientState
    <2> QED BY <2>1, <2>2 DEF Forward
  <1>2. ASSUME NEW c \in Clients, LeaseEnds(c) \/ Disconnect(c) PROVE OrderInv' /\ Forward
    BY <1>2, ConnectionOrder DEF LeaseEnds, Disconnect
  <1> QED
    BY <1>1, <1>2, RefreshOrder, CacheOrder, FinishBuildOrder, ClientStepOrder,
       ConnectionOrder DEF Next

(* The order of versions from the refresh task over the shared build and   *)
(* the cache to every connection is an inductive invariant.                *)
THEOREM Invariance == Spec => []IInv
  <1>1. Init => IInv
    BY InitType, InitOrder DEF IInv
  <1>2. IInv /\ [Next]_vars => IInv'
    BY NextType, NextOrder DEF IInv
  <1> QED BY <1>1, <1>2, PTL DEF Spec

(* Two attempts are enough: a connection woken for a version has sent that *)
(* one or a newer one by the time it listens again (sse_events.py:278-294).*)
THEOREM NotificationsAreServed == Spec => []NotifiedIsServed
  <1>1. IInv => NotifiedIsServed
    BY Constants DEF IInv, TypeOK, ClientState, OrderInv, Settled, NotifiedIsServed
  <1> QED BY <1>1, Invariance, PTL

(* A notification marked handled never lets through a cached event older   *)
(* than itself (sse_events.py:317-338).                                    *)
THEOREM HandledNotificationsAreCached == Spec => []HandledIsCached
  <1>1. IInv => HandledIsCached
    BY Constants DEF IInv, TypeOK, Event, OrderInv, DateInOrder, HandledIsCached
  <1> QED BY <1>1, Invariance, PTL

(* Whoever waits, waits for a build that is on its way, whichever of the   *)
(* connections sharing it has gone (sse_events.py:337-346).                *)
THEOREM WaitersAreServed == Spec => []WaitersHaveBuild
  <1>1. IInv => WaitersHaveBuild
    BY DEF IInv, OrderInv, Settled, WaitersHaveBuild
  <1> QED BY <1>1, Invariance, PTL

(* Within a connection and a date the stream never sends an older snapshot *)
(* after a newer one (api_views.py:1614-1626).                             *)
THEOREM StreamsMoveForward == Spec => StreamMovesForward
  <1>1. IInv /\ [Next]_vars
          => [\A c \in Clients :
                client[c].pc # "off" /\ client'[c].pc # "off" /\ client'[c].day = client[c].day
                  => client'[c].seen >= client[c].seen]_vars
    BY NextOrder DEF IInv, Forward
  <1> QED BY <1>1, Invariance, PTL DEF Spec, StreamMovesForward
=============================================================================
