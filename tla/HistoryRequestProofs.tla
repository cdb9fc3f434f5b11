------------------------ MODULE HistoryRequestProofs ------------------------
(***************************************************************************)
(* The request lock protects an accepted request, for any number of        *)
(* browsers, workers, tokens and faults.                                   *)
(***************************************************************************)
EXTENDS HistoryRequest, TLAPS

WebSteps    == {"idle", "claim", "shorten", "check", "submit", "stop", "promote", "giveUp"}
WorkerSteps == {"idle", "own", "build", "building", "retry", "republish", "release", "ack"}

LocksTyped ==
  /\ reqLock \in Tokens \cup {None} /\ ttl \in {"short", "full"}
  /\ buildLock \in Workers \cup {"other", "dead", None}
  /\ done \in BOOLEAN
WebTyped ==
  /\ pc \in [Webs -> WebSteps]
  /\ token \in [Webs -> Tokens \cup {None}]
  /\ lost \in [Webs -> BOOLEAN]
  /\ accepted \subseteq Tokens
WorkerTyped ==
  /\ queue \subseteq Tasks
  /\ kpc \in [Workers -> WorkerSteps]
  /\ task \in [Workers -> Tasks \cup {NoTask}]
FaultsTyped == faults \in Nat /\ met \subseteq FaultKinds

TypeOK == LocksTyped /\ WebTyped /\ WorkerTyped /\ FaultsTyped

(* A worker that is not idle holds a task; one that will publish it again  *)
(* may still do so.                                                        *)
HoldsTask ==
  \A k \in Workers :
    /\ kpc[k] # "idle" => task[k] \in Tasks
    /\ kpc[k] = "republish" => task[k].retries < MaxRetries

(* Tokens of live requests are distinct, and nobody has accepted them yet. *)
OwnsToken ==
  \A w \in Webs :
    /\ pc[w] \in {"idle", "claim"} <=> token[w] = None
    /\ token[w] \notin accepted
    /\ \A v \in Webs \ {w} : token[v] = token[w] => token[w] = None

(* Until the web process submits, no task carries its token; a web process *)
(* that gives up has submitted only if the broker misled it.               *)
SubmitsLast ==
  \A w \in Webs :
    /\ pc[w] \in {"shorten", "check", "submit"} => token[w] \notin Pending
    /\ pc[w] = "giveUp" /\ "ambiguous" \notin met => token[w] \notin Pending

(* While no process dies, one task carries a token: its worker puts the    *)
(* next attempt in the queue only when it is through.                      *)
OneTaskPerToken ==
  "crash" \notin met =>
    /\ \A m, n \in queue : m.token = n.token => m = n
    /\ \A k \in Workers : kpc[k] \notin {"idle", "ack"} =>
         /\ \A m \in queue : m.token # task[k].token
         /\ \A j \in Workers \ {k} :
              kpc[j] \notin {"idle", "ack"} => task[j].token # task[k].token

(* A worker past its check has the full lease, if it has the lock.         *)
WorkerLease ==
  \A k \in Workers :
    kpc[k] \in {"build", "building"} /\ reqLock = task[k].token => ttl = "full"

(* Protected as in AcceptedIsProtected, while the next attempt is          *)
(* published too.                                                          *)
Due == queue \cup {task[k] : k \in {j \in Workers : kpc[j] \notin {"idle", "release", "ack"}}}
Protected ==
  met \cap {"crash", "lapse"} = {} =>
    \A m \in Due : m.token \in accepted => reqLock = m.token /\ ttl = "full"

(* Between its check and its build a worker keeps the lock, unless it      *)
(* lapsed, an error misled its web process, or another worker has the same *)
(* task from a crash.                                                      *)
KeepsLockToBuild ==
  \A k \in Workers : kpc[k] = "build" =>
    \/ reqLock = task[k].token
    \/ met \cap {"ambiguous", "lapse"} # {}
    \/ "crash" \in met /\ ~OneWorker

IInv ==
  /\ TypeOK /\ HoldsTask
  /\ OwnsToken /\ SubmitsLast /\ OneTaskPerToken
  /\ WorkerLease /\ Protected /\ KeepsLockToBuild

-----------------------------------------------------------------------------
(* Types *)

Moves(w) == Ask(w) \/ WebStep(w) \/ RenewLease(w) \/ CrashWeb(w)
Works(k) == WorkerStep(k) \/ FailBuild(k) \/ CrashWorker(k)
Passes   == OtherBuildBegins \/ OtherBuildEnds \/ ExpireBuildLock \/ ExpireRequest \/ LapseRequest

LEMMA FaultStep ==
  ASSUME FaultsTyped, UNCHANGED fault \/ \E kind \in FaultKinds : Fault(kind)
  PROVE  FaultsTyped' /\ met \subseteq met'
BY DEF FaultsTyped, Fault, fault

LEMMA MovesTyped ==
  ASSUME TypeOK, OwnsToken, NEW w \in Webs, Moves(w)
  PROVE  WebTyped'
<1>0. WebTyped /\ reqLock \in Tokens \cup {None}
  BY DEF TypeOK, LocksTyped
<1>1. ASSUME NEW s \in WebSteps, Goto(w, s), UNCHANGED token, UNCHANGED accepted,
             lost' \in {lost, [lost EXCEPT ![w] = TRUE]}
      PROVE  WebTyped'
  BY <1>0, <1>1 DEF WebTyped, Goto
<1>2. ASSUME Answer(w), accepted' \in {accepted, accepted \cup {token[w]}},
             accepted' # accepted => token[w] # None
      PROVE  WebTyped'
  BY <1>0, <1>2 DEF WebTyped, Answer, Goto, WebSteps
<1>3. CASE Ask(w)
  BY <1>3, <1>1 DEF Ask, WebSteps
<1>4. CASE Claim(w)
  BY <1>4, <1>0, <1>2 DEF Claim, Unused, WebTyped, Goto, WebSteps
<1>5. CASE Shorten(w)
  BY <1>5, <1>1 DEF Shorten, WebSteps
<1>6. CASE CheckBuild(w)
  BY <1>6, <1>1 DEF CheckBuild, WebSteps
<1>7. CASE Submit(w)
  BY <1>7, <1>1 DEF Submit, WebSteps
<1>8. CASE StopLease(w)
  BY <1>8, <1>1, <1>2 DEF StopLease, WebSteps
<1>9. CASE Promote(w)
  BY <1>9, <1>2 DEF Promote, OwnsToken
<1>10. CASE GiveUp(w)
  BY <1>10, <1>2 DEF GiveUp
<1>11. CASE RenewLease(w)
  BY <1>11, <1>0 DEF RenewLease, WebTyped
<1>12. CASE CrashWeb(w)
  BY <1>12, <1>2 DEF CrashWeb
<1> QED
  BY <1>3, <1>4, <1>5, <1>6, <1>7, <1>8, <1>9, <1>10, <1>11, <1>12 DEF Moves, WebStep

LEMMA WorksTyped ==
  ASSUME TypeOK, HoldsTask, NEW k \in Workers, Works(k)
  PROVE  WorkerTyped' /\ HoldsTask'
<1>0. WorkerTyped
  BY DEF TypeOK
<1>1. ASSUME NEW s \in WorkerSteps \ {"republish"}, KGoto(k, s), kpc[k] # "idle",
             UNCHANGED task, UNCHANGED queue
      PROVE  WorkerTyped' /\ HoldsTask'
  BY <1>0, <1>1 DEF WorkerTyped, HoldsTask, KGoto
<1>2. ASSUME Forget(k), queue' \in {queue, queue \cup {task[k]}}, kpc[k] # "idle"
      PROVE  WorkerTyped' /\ HoldsTask'
  BY <1>0, <1>2 DEF WorkerTyped, HoldsTask, KGoto, Forget, WorkerSteps
<1>3. CASE Take(k)
  BY <1>3, <1>0 DEF Take, WorkerTyped, HoldsTask, KGoto, WorkerSteps
<1>4. CASE Own(k)
  BY <1>4, <1>1 DEF Own, WorkerSteps
<1>5. CASE BeginBuild(k)
  BY <1>5, <1>1 DEF BeginBuild, WorkerSteps
<1>6. CASE Succeed(k)
  BY <1>6, <1>1 DEF Succeed, WorkerSteps
<1>7. CASE Retry(k)
  <2>1. CASE task[k].retries < MaxRetries /\ KGoto(k, "republish")
    BY <2>1, <1>7, <1>0 DEF Retry, WorkerTyped, HoldsTask, KGoto, WorkerSteps
  <2>2. CASE KGoto(k, "release")
    BY <2>2, <1>7, <1>1 DEF Retry, WorkerSteps
  <2> QED
    BY <2>1, <2>2, <1>7 DEF Retry
<1>8. CASE Republish(k)
  <2>1. [task[k] EXCEPT !.retries = @ + 1] \in Tasks
    BY <1>8, RequestAssumption DEF Republish, HoldsTask, Tasks
  <2>2. queue' \subseteq Tasks
    BY <2>1, <1>8, <1>0 DEF Republish, WorkerTyped
  <2>3. kpc[k] # "idle" /\ KGoto(k, "ack") /\ UNCHANGED task
    BY <1>8 DEF Republish, worker
  <2> QED
    BY <2>2, <2>3, <1>0 DEF WorkerTyped, HoldsTask, KGoto, WorkerSteps
<1>9. CASE Release(k)
  BY <1>9, <1>1 DEF Release, WorkerSteps
<1>10. CASE Ack(k)
  BY <1>10, <1>2 DEF Ack
<1>11. CASE FailBuild(k)
  BY <1>11, <1>1 DEF FailBuild, WorkerSteps
<1>12. CASE CrashWorker(k)
  BY <1>12, <1>2 DEF CrashWorker
<1> QED
  BY <1>3, <1>4, <1>5, <1>6, <1>7, <1>8, <1>9, <1>10, <1>11, <1>12 DEF Works, WorkerStep

LEMMA MovesKeepWorkers ==
  ASSUME TypeOK, HoldsTask, OwnsToken, NEW w \in Webs, Moves(w)
  PROVE  /\ WorkerTyped' /\ HoldsTask' /\ UNCHANGED <<kpc, task, buildLock, done>>
         /\ pc[w] = "submit" \/ UNCHANGED queue
<1>1. UNCHANGED worker
  BY DEF Moves, WebStep, Ask, Claim, Shorten, CheckBuild, Submit, StopLease, Promote, GiveUp,
         RenewLease, CrashWeb
<1>2. queue' \subseteq Tasks /\ (pc[w] = "submit" \/ UNCHANGED queue)
  <2>1. CASE Submit(w)
    <3>1. token[w] \in Tokens
      BY <2>1 DEF Submit, OwnsToken, TypeOK, WebTyped
    <3>2. [token |-> token[w], retries |-> 0] \in Tasks
      BY <3>1, RequestAssumption DEF Tasks
    <3> QED
      BY <2>1, <3>2 DEF Submit, TypeOK, WorkerTyped
  <2>2. CASE ~Submit(w)
    BY <2>2 DEF Moves, WebStep, Ask, Claim, Shorten, CheckBuild, StopLease, Promote, GiveUp,
         RenewLease, CrashWeb, TypeOK, WorkerTyped
  <2> QED
    BY <2>1, <2>2
<1>3. UNCHANGED <<buildLock, done>>
  BY DEF Moves, WebStep, Ask, Claim, Shorten, CheckBuild, Submit, StopLease, Promote, GiveUp,
         RenewLease, CrashWeb, locks, ReleaseRequest
<1> QED
  BY <1>1, <1>2, <1>3 DEF worker, WorkerTyped, HoldsTask, TypeOK

LEMMA LocksStay ==
  ASSUME TypeOK, [Next]_vars
  PROVE  LocksTyped'
<1> SUFFICES ASSUME Next PROVE LocksTyped'
  BY DEF vars, locks, TypeOK, LocksTyped
<1>0. LocksTyped /\ \A w \in Webs : token[w] \in Tokens \cup {None}
  BY DEF TypeOK, WebTyped
<1>1. ASSUME NEW w \in Webs, Moves(w) PROVE LocksTyped'
  BY <1>0, <1>1 DEF Moves, WebStep, Ask, Claim, Shorten, CheckBuild, Submit, StopLease, Promote,
     GiveUp, RenewLease, CrashWeb, locks, LocksTyped, ReleaseRequest, Unused
<1>2. ASSUME NEW k \in Workers, Works(k) PROVE LocksTyped'
  BY <1>0, <1>2 DEF Works, WorkerStep, Take, Own, BeginBuild, Succeed, Retry, Republish, Release,
     Ack, FailBuild, CrashWorker, locks, LocksTyped, ReleaseRequest
<1>3. ASSUME Passes PROVE LocksTyped'
  BY <1>0, <1>3 DEF Passes, OtherBuildBegins, OtherBuildEnds, ExpireBuildLock, ExpireRequest,
     LapseRequest, LocksTyped
<1> QED
  BY <1>1, <1>2, <1>3 DEF Next, Moves, Works, Passes

LEMMA FaultsStay ==
  ASSUME FaultsTyped, [Next]_vars
  PROVE  FaultsTyped' /\ met \subseteq met'
<1>1. ASSUME NEW w \in Webs, Moves(w) PROVE UNCHANGED fault \/ \E kind \in FaultKinds : Fault(kind)
  BY <1>1 DEF Moves, WebStep, Ask, Claim, Shorten, CheckBuild, Submit, StopLease, Promote,
     GiveUp, RenewLease, CrashWeb, FaultKinds
<1>2. ASSUME NEW k \in Workers, Works(k) PROVE UNCHANGED fault \/ \E kind \in FaultKinds : Fault(kind)
  BY <1>2 DEF Works, WorkerStep, Take, Own, BeginBuild, Succeed, Retry, Republish, Release,
     Ack, FailBuild, CrashWorker, FaultKinds
<1>3. ASSUME Passes PROVE UNCHANGED fault \/ \E kind \in FaultKinds : Fault(kind)
  BY <1>3 DEF Passes, OtherBuildBegins, OtherBuildEnds, ExpireBuildLock, ExpireRequest,
     LapseRequest, FaultKinds
<1>4. CASE UNCHANGED vars
  BY <1>4, FaultStep DEF vars
<1> QED
  BY <1>1, <1>2, <1>3, <1>4, FaultStep DEF Next, Moves, Works, Passes

-----------------------------------------------------------------------------
(* Tokens *)

\* A token is pending when a task in the queue or at a worker carries it.
LEMMA PendingIs ==
  ASSUME NEW t
  PROVE  t \in Pending <=> \/ \E m \in queue : m.token = t
                          \/ \E k \in Workers : kpc[k] # "idle" /\ task[k].token = t
BY DEF Pending, Taken

LEMMA PendingPrimeIs ==
  ASSUME NEW t
  PROVE  t \in Pending' <=> \/ \E m \in queue' : m.token = t
                           \/ \E k \in Workers : kpc'[k] # "idle" /\ task'[k].token = t
BY DEF Pending, Taken

\* No step of a worker makes a token pending that was not.
LEMMA WorksPending ==
  ASSUME TypeOK, HoldsTask, NEW k \in Workers, Works(k), NEW t \in Pending'
  PROVE  t \in Pending
<1>0. /\ kpc \in [Workers -> WorkerSteps] /\ task \in [Workers -> Tasks \cup {NoTask}]
      /\ kpc[k] # "idle" => task[k] \in Tasks
  BY DEF TypeOK, WorkerTyped, HoldsTask
<1>1. ASSUME NEW s, KGoto(k, s), UNCHANGED task, kpc[k] # "idle",
             \A m \in queue' : m \in queue \/ m.token = task[k].token
      PROVE  t \in Pending
  BY <1>0, <1>1, PendingIs, PendingPrimeIs DEF KGoto
<1>2. ASSUME Forget(k), queue' \in {queue, queue \cup {task[k]}}, kpc[k] # "idle"
      PROVE  t \in Pending
  BY <1>0, <1>2, PendingIs, PendingPrimeIs DEF KGoto, Forget
<1>3. CASE Take(k)
  BY <1>3, <1>0, PendingIs, PendingPrimeIs DEF Take, KGoto
<1>4. CASE Republish(k)
  <2>1. [task[k] EXCEPT !.retries = @ + 1].token = task[k].token
    BY <1>4, <1>0 DEF Republish, Tasks
  <2> QED
    BY <2>1, <1>4, <1>1 DEF Republish, worker
<1>5. CASE Own(k) \/ BeginBuild(k) \/ Succeed(k) \/ FailBuild(k) \/ Retry(k) \/ Release(k)
  BY <1>5, <1>1 DEF Own, BeginBuild, Succeed, FailBuild, Retry, Release
<1>6. CASE Ack(k)
  BY <1>6, <1>2 DEF Ack
<1>7. CASE CrashWorker(k)
  BY <1>7, <1>2 DEF CrashWorker
<1> QED
  BY <1>3, <1>4, <1>5, <1>6, <1>7 DEF Works, WorkerStep

LEMMA MovesOwn ==
  ASSUME TypeOK, OwnsToken, NEW w \in Webs, Moves(w)
  PROVE  OwnsToken'
<1>0. WebTyped /\ None \notin Tokens
  BY RequestAssumption DEF TypeOK
<1>1. ASSUME NEW s, Goto(w, s), UNCHANGED token, UNCHANGED accepted,
             s \in {"idle", "claim"} <=> pc[w] \in {"idle", "claim"}
      PROVE  OwnsToken'
  BY <1>0, <1>1 DEF OwnsToken, WebTyped, Goto
<1>2. ASSUME Answer(w), accepted' \in {accepted, accepted \cup {token[w]}},
             accepted' # accepted => token[w] # None
      PROVE  OwnsToken'
  BY <1>0, <1>2 DEF OwnsToken, WebTyped, Answer, Goto
<1>3. CASE Ask(w)
  BY <1>3, <1>1 DEF Ask
<1>4. CASE Claim(w)
  <2>1. ASSUME NEW t \in Unused, token' = [token EXCEPT ![w] = t], Goto(w, "shorten"),
               UNCHANGED accepted
        PROVE  OwnsToken'
    <3>1. t \in Tokens /\ t \notin accepted /\ \A v \in Webs : token[v] # t
      BY <2>1 DEF Unused
    <3> QED
      BY <3>1, <2>1, <1>0 DEF OwnsToken, WebTyped, Goto
  <2> QED
    BY <2>1, <1>4, <1>2 DEF Claim
<1>5. CASE Shorten(w) \/ CheckBuild(w) \/ Submit(w)
  BY <1>5, <1>1 DEF Shorten, CheckBuild, Submit
<1>8. CASE StopLease(w)
  BY <1>8, <1>1, <1>2 DEF StopLease
<1>9. CASE Promote(w)
  BY <1>9, <1>2 DEF Promote, OwnsToken
<1>10. CASE GiveUp(w) \/ CrashWeb(w)
  BY <1>10, <1>2 DEF GiveUp, CrashWeb
<1>11. CASE RenewLease(w)
  BY <1>11, <1>0 DEF RenewLease, OwnsToken
<1> QED
  BY <1>3, <1>4, <1>5, <1>8, <1>9, <1>10, <1>11 DEF Moves, WebStep

LEMMA WorksOwn ==
  ASSUME TypeOK, OwnsToken, NEW k \in Workers, Works(k)
  PROVE  OwnsToken' /\ WebTyped'
<1>1. UNCHANGED <<pc, token, lost>> /\ accepted' \subseteq accepted
  BY DEF Works, WorkerStep, Take, Own, BeginBuild, Succeed, Retry, Republish, Release,
     Ack, FailBuild, CrashWorker, web
<1> QED
  BY <1>1 DEF OwnsToken, TypeOK, WebTyped

LEMMA MovesSubmit ==
  ASSUME TypeOK, HoldsTask, OwnsToken, SubmitsLast, NEW w \in Webs, Moves(w), met \subseteq met'
  PROVE  SubmitsLast'
<1>0. WebTyped /\ UNCHANGED <<kpc, task>>
  BY MovesKeepWorkers DEF TypeOK
<1>1. ASSUME UNCHANGED queue,
             \A v \in Webs : \/ pc'[v] \notin {"shorten", "check", "submit", "giveUp"}
                             \/ /\ pc[v] \in {"shorten", "check", "submit"}
                                /\ token'[v] = token[v]
                             \/ pc'[v] = pc[v] /\ token'[v] = token[v]
                             \/ token'[v] \notin Pending
      PROVE  SubmitsLast'
  <2>1. Pending' = Pending
    BY <1>0, <1>1 DEF Pending, Taken
  <2> QED
    BY <2>1, <1>1 DEF SubmitsLast
<1>2. ASSUME Answer(w), UNCHANGED queue PROVE SubmitsLast'
  <2>1. pc'[w] = "idle" /\ \A v \in Webs \ {w} : pc'[v] = pc[v] /\ token'[v] = token[v]
    BY <1>0, <1>2 DEF Answer, Goto, WebTyped
  <2> QED
    BY <2>1, <1>1, <1>2
<1>3. CASE Ask(w) \/ Shorten(w) \/ CheckBuild(w)
  BY <1>3, <1>0, <1>1 DEF Ask, Shorten, CheckBuild, Goto, WebTyped
<1>4. CASE Claim(w)
  BY <1>4, <1>0, <1>1, <1>2 DEF Claim, Unused, Goto, WebTyped
<1>5. CASE Submit(w)
  <2>1. ASSUME UNCHANGED queue, Goto(w, "giveUp") PROVE SubmitsLast'
    BY <2>1, <1>5, <1>0, <1>1 DEF Submit, Goto, WebTyped
  <2>2. ASSUME queue' = queue \cup {[token |-> token[w], retries |-> 0]},
               Goto(w, "stop") \/ (Goto(w, "giveUp") /\ "ambiguous" \in met')
        PROVE  SubmitsLast'
    <3>1. ASSUME NEW v \in Webs \ {w}, pc[v] \in {"shorten", "check", "submit", "giveUp"}
          PROVE  token[v] \in Pending' => token[v] \in Pending
      <4>1. token[v] # token[w]
        BY <3>1 DEF OwnsToken
      <4> QED
        BY <4>1, <2>2, <1>0, PendingIs, PendingPrimeIs
    <3> QED
      BY <3>1, <2>2, <1>5, <1>0 DEF Submit, SubmitsLast, Goto, WebTyped
  <2>3. \/ UNCHANGED queue /\ Goto(w, "giveUp")
        \/ /\ queue' = queue \cup {[token |-> token[w], retries |-> 0]}
           /\ Goto(w, "stop") \/ (Goto(w, "giveUp") /\ Fault("ambiguous"))
    BY <1>5 DEF Submit
  <2>4. Fault("ambiguous") => "ambiguous" \in met'
    BY DEF Fault
  <2> QED
    BY <2>1, <2>2, <2>3, <2>4
<1>6. CASE StopLease(w)
  BY <1>6, <1>0, <1>1, <1>2 DEF StopLease, Goto, WebTyped
<1>7. CASE Promote(w) \/ GiveUp(w) \/ CrashWeb(w)
  BY <1>7, <1>2 DEF Promote, GiveUp, CrashWeb
<1>8. CASE RenewLease(w)
  BY <1>8, <1>1 DEF RenewLease
<1> QED
  BY <1>3, <1>4, <1>5, <1>6, <1>7, <1>8 DEF Moves, WebStep

LEMMA WorksSubmit ==
  ASSUME TypeOK, HoldsTask, SubmitsLast, NEW k \in Workers, Works(k), met \subseteq met'
  PROVE  SubmitsLast'
<1>1. UNCHANGED <<pc, token>>
  BY DEF Works, WorkerStep, Take, Own, BeginBuild, Succeed, Retry, Republish, Release,
     Ack, FailBuild, CrashWorker, web
<1> QED
  BY <1>1, WorksPending DEF SubmitsLast

LEMMA MovesOneTask ==
  ASSUME TypeOK, HoldsTask, OwnsToken, SubmitsLast, OneTaskPerToken, NEW w \in Webs, Moves(w),
         met \subseteq met'
  PROVE  OneTaskPerToken'
<1>0. UNCHANGED <<kpc, task>>
  BY MovesKeepWorkers
<1>1. CASE UNCHANGED queue
  BY <1>0, <1>1 DEF OneTaskPerToken
<1>2. CASE Submit(w) /\ ~UNCHANGED queue
  <2> DEFINE n == [token |-> token[w], retries |-> 0]
  <2>1. queue' = queue \cup {n} /\ n.token = token[w] /\ token[w] \notin Pending
    BY <1>2 DEF Submit, SubmitsLast
  <2>2. /\ \A m \in queue : m.token # n.token
        /\ \A k \in Workers : kpc[k] # "idle" => task[k].token # n.token
    BY <2>1, PendingIs
  <2> HIDE DEF n
  <2> QED
    BY <2>1, <2>2, <1>0 DEF OneTaskPerToken
<1> QED
  BY <1>1, <1>2, MovesKeepWorkers DEF Moves, WebStep, Ask, Claim, Shorten, CheckBuild, StopLease,
     Promote, GiveUp, RenewLease, CrashWeb

LEMMA WorksOneTask ==
  ASSUME TypeOK, HoldsTask, OneTaskPerToken, NEW k \in Workers, Works(k), met \subseteq met'
  PROVE  OneTaskPerToken'
<1>0. /\ kpc \in [Workers -> WorkerSteps] /\ task \in [Workers -> Tasks \cup {NoTask}]
      /\ kpc[k] # "idle" => task[k] \in Tasks
  BY DEF TypeOK, WorkerTyped, HoldsTask
<1>1. ASSUME NEW s \in WorkerSteps, KGoto(k, s), UNCHANGED task, UNCHANGED queue,
             kpc[k] \notin {"idle", "ack"}
      PROVE  OneTaskPerToken'
  BY <1>0, <1>1 DEF OneTaskPerToken, KGoto
<1>2. CASE Take(k)
  <2>1. PICK m \in queue : task' = [task EXCEPT ![k] = m] /\ queue' = queue \ {m}
    BY <1>2 DEF Take
  <2>2. kpc[k] = "idle" /\ kpc' = [kpc EXCEPT ![k] = "own"]
    BY <1>2 DEF Take, KGoto
  <2>3. /\ task'[k] = m /\ kpc'[k] = "own"
        /\ \A j \in Workers \ {k} : task'[j] = task[j] /\ kpc'[j] = kpc[j]
    BY <2>1, <2>2, <1>0
  <2>4. ASSUME "crash" \notin met
        PROVE  /\ \A n \in queue' : n.token # m.token
               /\ \A j \in Workers : kpc[j] \notin {"idle", "ack"} => task[j].token # m.token
    BY <2>1, <2>4 DEF OneTaskPerToken
  <2> QED
    BY <2>1, <2>3, <2>4 DEF OneTaskPerToken
<1>3. CASE Republish(k)
  <2> DEFINE n == [task[k] EXCEPT !.retries = @ + 1]
  <2>1. n.token = task[k].token
    BY <1>3, <1>0 DEF Republish, Tasks
  <2>2. /\ queue' \in {queue, queue \cup {n}} /\ kpc[k] = "republish"
        /\ kpc' = [kpc EXCEPT ![k] = "ack"] /\ task' = task
    BY <1>3 DEF Republish, KGoto
  <2> HIDE DEF n
  <2>3. kpc'[k] = "ack" /\ \A j \in Workers \ {k} : kpc'[j] = kpc[j]
    BY <2>2, <1>0
  <2>4. ASSUME "crash" \notin met
        PROVE  /\ \A m \in queue : m.token # n.token
               /\ \A j \in Workers \ {k} : kpc[j] \notin {"idle", "ack"} => task[j].token # n.token
    BY <2>1, <2>2, <2>4 DEF OneTaskPerToken
  <2>5. ASSUME "crash" \notin met
        PROVE  \A m, o \in queue' : m.token = o.token => m = o
    BY <2>2, <2>4, <2>5 DEF OneTaskPerToken
  <2> QED
    BY <2>2, <2>3, <2>4, <2>5 DEF OneTaskPerToken
<1>4. CASE Own(k) \/ BeginBuild(k) \/ Succeed(k) \/ FailBuild(k) \/ Retry(k) \/ Release(k)
  BY <1>4, <1>1 DEF Own, BeginBuild, Succeed, FailBuild, Retry, Release, WorkerSteps
<1>5. CASE Ack(k)
  <2>1. kpc' = [kpc EXCEPT ![k] = "idle"] /\ queue' = queue /\ task' = [task EXCEPT ![k] = NoTask]
    BY <1>5 DEF Ack, Forget, KGoto
  <2> QED
    BY <2>1, <1>0 DEF OneTaskPerToken
<1>6. CASE CrashWorker(k)
  BY <1>6 DEF CrashWorker, Fault, OneTaskPerToken
<1> QED
  BY <1>2, <1>3, <1>4, <1>5, <1>6 DEF Works, WorkerStep

-----------------------------------------------------------------------------
(* The lock *)
LEMMA WorkerLeaseKept ==
  ASSUME IInv, Next
  PROVE  WorkerLease'
<1>0. /\ kpc \in [Workers -> WorkerSteps] /\ task \in [Workers -> Tasks \cup {NoTask}]
      /\ pc \in [Webs -> WebSteps] /\ token \in [Webs -> Tokens \cup {None}]
  BY DEF IInv, TypeOK, WorkerTyped, WebTyped
<1>1. ASSUME UNCHANGED <<kpc, task>>, ttl' = "full" \/ (ttl' = ttl /\ reqLock' \in {reqLock, None})
      PROVE  WorkerLease'
  <2>1. \A k \in Workers : kpc[k] # "idle" => task[k].token # None
    BY RequestAssumption DEF IInv, HoldsTask, Tasks
  <2> QED
    BY <1>1, <2>1 DEF IInv, WorkerLease
<1>2. ASSUME NEW w \in Webs, Moves(w) PROVE WorkerLease'
  <2>1. UNCHANGED <<kpc, task>>
    BY <1>2, MovesKeepWorkers DEF IInv
  <2>2. CASE Shorten(w) /\ reqLock = token[w]
    <3>1. \A k \in Workers : kpc[k] # "idle" => task[k].token # reqLock
      BY <2>2, PendingIs DEF Shorten, IInv, SubmitsLast
    <3> QED
      BY <3>1, <2>1, <2>2 DEF Shorten, WorkerLease
  <2>3. CASE ~(Shorten(w) /\ reqLock = token[w])
    <3>1. ttl' = "full" \/ (ttl' = ttl /\ reqLock' \in {reqLock, None})
      BY <2>3, <1>2 DEF Moves, WebStep, Ask, Claim, Shorten, CheckBuild, Submit, StopLease,
         Promote, GiveUp, RenewLease, CrashWeb, locks, ReleaseRequest
    <3> QED
      BY <3>1, <2>1, <1>1
  <2> QED
    BY <2>2, <2>3
<1>3. ASSUME NEW k \in Workers, Works(k) PROVE WorkerLease'
  <2>1. /\ ttl' = "full" \/ ttl' = ttl
        /\ reqLock' = reqLock \/ reqLock' = None
    BY <1>3 DEF Works, WorkerStep, Take, Own, BeginBuild, Succeed, Retry, Republish, Release,
       Ack, FailBuild, CrashWorker, locks, ReleaseRequest
  <2>2. /\ \A j \in Workers \ {k} : kpc'[j] = kpc[j] /\ task'[j] = task[j]
        /\ kpc'[k] = "build" => ttl' = "full"
        /\ kpc'[k] = "building" => kpc[k] \in {"build", "building"} /\ task'[k] = task[k]
    BY <1>3, <1>0 DEF Works, WorkerStep, Take, Own, BeginBuild, Succeed, Retry, Republish, Release,
       Ack, FailBuild, CrashWorker, KGoto, Forget
  <2>3. \A j \in Workers : kpc[j] # "idle" => task[j].token # None
    BY RequestAssumption DEF IInv, HoldsTask, Tasks
  <2> QED
    BY <2>1, <2>2, <2>3 DEF IInv, WorkerLease
<1>4. ASSUME Passes PROVE WorkerLease'
  BY <1>4, <1>1 DEF Passes, OtherBuildBegins, OtherBuildEnds, ExpireBuildLock, ExpireRequest,
     LapseRequest, worker
<1> QED
  BY <1>2, <1>3, <1>4 DEF Next, Moves, Works, Passes

LEMMA MovesProtected ==
  ASSUME IInv, NEW w \in Webs, Moves(w), met \subseteq met'
  PROVE  Protected'
<1> SUFFICES ASSUME met \cap {"crash", "lapse"} = {}, NEW m \in Due', m.token \in accepted'
             PROVE  reqLock' = m.token /\ ttl' = "full"
  BY DEF Protected
<1>0. UNCHANGED <<kpc, task>> /\ token[w] \notin accepted
  BY MovesKeepWorkers DEF IInv, OwnsToken
<1>1. ASSUME m \in Due, m.token \in accepted PROVE reqLock = m.token /\ ttl = "full"
  BY <1>1 DEF IInv, Protected
<1>2. CASE Submit(w)
  <2>1. m \in Due \/ m.token = token[w]
    BY <1>2, <1>0 DEF Submit, Due
  <2> QED
    BY <2>1, <1>0, <1>1, <1>2 DEF Submit, locks
<1>3. ASSUME UNCHANGED queue PROVE m \in Due
  BY <1>3, <1>0 DEF Due
<1>4. CASE Claim(w)
  <2>1. m.token # None
    <3>1. m.token \in Pending
      BY <1>4, <1>3, PendingIs DEF Claim, Due
    <3> QED
      BY <3>1, PendingIs, RequestAssumption DEF IInv, TypeOK, WorkerTyped, HoldsTask, Tasks
  <2> QED
    BY <2>1, <1>4, <1>1, <1>3 DEF Claim
<1>5. CASE Shorten(w)
  BY <1>5, <1>0, <1>1, <1>3 DEF Shorten
<1>6. CASE Promote(w)
  BY <1>6, <1>1, <1>3 DEF Promote
<1>7. CASE GiveUp(w)
  BY <1>7, <1>0, <1>1, <1>3 DEF GiveUp, ReleaseRequest, locks
<1>8. CASE Ask(w) \/ CheckBuild(w) \/ StopLease(w) \/ RenewLease(w) \/ CrashWeb(w)
  BY <1>8, <1>1, <1>3 DEF Ask, CheckBuild, StopLease, RenewLease, CrashWeb, locks
<1> QED
  BY <1>2, <1>4, <1>5, <1>6, <1>7, <1>8 DEF Moves, WebStep

LEMMA WorksProtected ==
  ASSUME IInv, NEW k \in Workers, Works(k), met \subseteq met'
  PROVE  Protected'
<1> SUFFICES ASSUME met \cap {"crash", "lapse"} = {}, met' \cap {"crash", "lapse"} = {},
                    NEW m \in Due', m.token \in accepted'
             PROVE  reqLock' = m.token /\ ttl' = "full"
  BY DEF Protected
<1>0. /\ kpc \in [Workers -> WorkerSteps] /\ task \in [Workers -> Tasks \cup {NoTask}]
      /\ \A j \in Workers : kpc[j] # "idle" => task[j] \in Tasks
  BY DEF IInv, TypeOK, WorkerTyped, HoldsTask
<1>1. m.token \in accepted
  BY DEF Works, WorkerStep, Take, Own, BeginBuild, Succeed, Retry, Republish, Release,
     Ack, FailBuild, CrashWorker, web
<1>2. ~CrashWorker(k)
  BY DEF CrashWorker, Fault
<1>3. \E n \in Due : n.token = m.token
  <2>1. ASSUME NEW s, KGoto(k, s), UNCHANGED task, UNCHANGED queue,
               s \in {"release", "ack"} \/ kpc[k] \notin {"idle", "release", "ack"}
        PROVE  m \in Due
    BY <2>1, <1>0 DEF Due, KGoto
  <2>2. CASE Take(k)
    BY <2>2, <1>0 DEF Take, KGoto, Due
  <2>3. CASE Republish(k)
    <3>1. [task[k] EXCEPT !.retries = @ + 1].token = task[k].token
      BY <2>3, <1>0 DEF Republish, Tasks
    <3>2. task[k] \in Due
      BY <2>3 DEF Republish, Due
    <3>3. m \in Due \/ m = [task[k] EXCEPT !.retries = @ + 1]
      BY <2>3, <1>0 DEF Republish, worker, KGoto, Due
    <3> QED
      BY <3>1, <3>2, <3>3
  <2>4. CASE Own(k) \/ BeginBuild(k) \/ Succeed(k) \/ FailBuild(k) \/ Retry(k) \/ Release(k)
    BY <2>4, <2>1 DEF Own, BeginBuild, Succeed, FailBuild, Retry, Release
  <2>5. CASE Ack(k)
    BY <2>5, <1>0 DEF Ack, Forget, KGoto, Due
  <2> QED
    BY <1>2, <2>2, <2>3, <2>4, <2>5 DEF Works, WorkerStep
<1>4. reqLock = m.token /\ ttl = "full"
  BY <1>1, <1>3 DEF IInv, Protected
<1>5. ASSUME Release(k) PROVE task[k].token # m.token
  <2>1. kpc[k] = "release" /\ UNCHANGED <<queue, task>> /\ kpc' = [kpc EXCEPT ![k] = "ack"]
    BY <1>5 DEF Release, KGoto
  <2>2. m \in queue \/ \E j \in Workers \ {k} : kpc[j] \notin {"idle", "ack"} /\ task[j] = m
    BY <2>1, <1>0 DEF Due
  <2> QED
    BY <2>1, <2>2 DEF IInv, OneTaskPerToken
<1> QED
  BY <1>2, <1>4, <1>5 DEF Works, WorkerStep, Take, Own, BeginBuild, Succeed, Retry, Republish,
     Release, Ack, FailBuild, locks, ReleaseRequest

LEMMA PassesProtected ==
  ASSUME IInv, Passes, met \subseteq met'
  PROVE  Protected'
<1> SUFFICES ASSUME met \cap {"crash", "lapse"} = {}, met' \cap {"crash", "lapse"} = {},
                    NEW m \in Due', m.token \in accepted'
             PROVE  reqLock' = m.token /\ ttl' = "full"
  BY DEF Protected
<1>1. UNCHANGED <<queue, kpc, task, accepted>>
  BY DEF Passes, OtherBuildBegins, OtherBuildEnds, ExpireBuildLock, ExpireRequest, LapseRequest,
     web, worker
<1>2. m \in Due /\ m.token \in Pending
  BY <1>1, PendingIs DEF Due
<1>3. reqLock = m.token /\ ttl = "full"
  BY <1>1, <1>2 DEF IInv, Protected
<1>4. ~LapseRequest /\ ~ExpireRequest
  BY <1>2, <1>3 DEF LapseRequest, Fault, ExpireRequest, Kept
<1> QED
  BY <1>3, <1>4 DEF Passes, OtherBuildBegins, OtherBuildEnds, ExpireBuildLock

LEMMA LockKeptToBuild ==
  ASSUME IInv, Next, met \subseteq met'
  PROVE  KeepsLockToBuild'
<1> SUFFICES ASSUME NEW k \in Workers, kpc'[k] = "build",
                    met' \cap {"ambiguous", "lapse"} = {}, "crash" \notin met' \/ OneWorker
             PROVE  reqLock' = task'[k].token
  BY DEF KeepsLockToBuild, OneWorker
<1>0. /\ kpc \in [Workers -> WorkerSteps] /\ task \in [Workers -> Tasks \cup {NoTask}]
      /\ \A j \in Workers : kpc[j] # "idle" => task[j] \in Tasks
  BY DEF IInv, TypeOK, WorkerTyped, HoldsTask
<1>1. ASSUME kpc[k] = "build"
      PROVE  reqLock = task[k].token /\ task[k].token \in Pending /\ task[k].token # None
  BY <1>0, <1>1, PendingIs, RequestAssumption DEF IInv, KeepsLockToBuild, Tasks
<1>2. ASSUME NEW w \in Webs, Moves(w) PROVE reqLock' = task'[k].token
  <2>1. kpc[k] = "build" /\ task'[k] = task[k]
    BY <1>2, MovesKeepWorkers DEF IInv
  <2>2. GiveUp(w) => token[w] # task[k].token
    BY <2>1, <1>1 DEF GiveUp, IInv, SubmitsLast
  <2> QED
    BY <2>1, <2>2, <1>1, <1>2 DEF Moves, WebStep, Ask, Claim, Shorten, CheckBuild, Submit, StopLease,
       Promote, GiveUp, RenewLease, CrashWeb, locks, ReleaseRequest
<1>3. ASSUME NEW j \in Workers, Works(j) PROVE reqLock' = task'[k].token
  <2>1. CASE j = k
    BY <2>1, <1>0, <1>3 DEF Works, WorkerStep, Take, Own, BeginBuild, Succeed, Retry, Republish,
       Release, Ack, FailBuild, CrashWorker, KGoto, Forget
  <2>2. CASE j # k
    <3>1. kpc[k] = "build" /\ task'[k] = task[k]
      BY <2>2, <1>0, <1>3 DEF Works, WorkerStep, Take, Own, BeginBuild, Succeed, Retry, Republish,
         Release, Ack, FailBuild, CrashWorker, KGoto, Forget, worker
    <3>2. "crash" \notin met
      BY <2>2 DEF OneWorker
    <3>3. ASSUME Release(j) PROVE task[j].token # task[k].token
      BY <3>1, <3>2, <3>3, <2>2 DEF Release, IInv, OneTaskPerToken
    <3> QED
      BY <3>1, <3>3, <1>1, <1>3 DEF Works, WorkerStep, Take, Own, BeginBuild, Succeed, Retry,
         Republish, Release, Ack, FailBuild, CrashWorker, locks, ReleaseRequest
  <2> QED
    BY <2>1, <2>2
<1>4. ASSUME Passes PROVE reqLock' = task'[k].token
  <2>1. kpc[k] = "build" /\ task'[k] = task[k]
    BY <1>4 DEF Passes, OtherBuildBegins, OtherBuildEnds, ExpireBuildLock, ExpireRequest,
       LapseRequest, worker
  <2>2. ttl = "full"
    BY <2>1, <1>1 DEF IInv, WorkerLease
  <2>3. ~LapseRequest /\ ~ExpireRequest
    BY <2>1, <2>2, <1>1 DEF LapseRequest, Fault, ExpireRequest, Kept
  <2> QED
    BY <2>1, <2>3, <1>1, <1>4 DEF Passes, OtherBuildBegins, OtherBuildEnds, ExpireBuildLock
<1> QED
  BY <1>2, <1>3, <1>4 DEF Next, Moves, Works, Passes

-----------------------------------------------------------------------------
(* Theorems *)

LEMMA Initial == Init => IInv
<1> SUFFICES ASSUME Init PROVE IInv
  OBVIOUS
<1>1. TypeOK
  BY DEF Init, TypeOK, LocksTyped, WebTyped, WorkerTyped, FaultsTyped, WebSteps, WorkerSteps
<1>2. Pending = {} /\ Due = {}
  BY DEF Init, Pending, Taken, Due
<1> QED
  BY <1>1, <1>2 DEF Init, IInv, HoldsTask, OwnsToken, SubmitsLast, OneTaskPerToken, WorkerLease,
     Protected, KeepsLockToBuild

LEMMA Inductive == IInv /\ [Next]_vars => IInv'
<1> SUFFICES ASSUME IInv, [Next]_vars PROVE IInv'
  OBVIOUS
<1>0. TypeOK /\ HoldsTask /\ OwnsToken /\ SubmitsLast /\ OneTaskPerToken
  BY DEF IInv
<1>1. LocksTyped' /\ FaultsTyped' /\ met \subseteq met'
  BY <1>0, LocksStay, FaultsStay DEF TypeOK
<1>2. ASSUME NEW w \in Webs, Moves(w)
      PROVE  TypeOK' /\ HoldsTask' /\ OwnsToken' /\ SubmitsLast' /\ OneTaskPerToken' /\ Protected'
  BY <1>0, <1>1, <1>2, MovesTyped, MovesKeepWorkers, MovesOwn, MovesSubmit, MovesOneTask,
     MovesProtected DEF TypeOK
<1>3. ASSUME NEW k \in Workers, Works(k)
      PROVE  TypeOK' /\ HoldsTask' /\ OwnsToken' /\ SubmitsLast' /\ OneTaskPerToken' /\ Protected'
  BY <1>0, <1>1, <1>3, WorksTyped, WorksOwn, WorksSubmit, WorksOneTask, WorksProtected DEF TypeOK
<1>4. ASSUME Passes
      PROVE  TypeOK' /\ HoldsTask' /\ OwnsToken' /\ SubmitsLast' /\ OneTaskPerToken' /\ Protected'
  <2>1. UNCHANGED <<queue, pc, token, lost, accepted, kpc, task>>
    BY <1>4 DEF Passes, OtherBuildBegins, OtherBuildEnds, ExpireBuildLock, ExpireRequest,
       LapseRequest, web, worker
  <2>2. Pending' = Pending
    BY <2>1 DEF Pending, Taken
  <2> QED
    BY <2>1, <2>2, <1>0, <1>1, <1>4, PassesProtected
    DEF TypeOK, WebTyped, WorkerTyped, HoldsTask, OwnsToken, SubmitsLast, OneTaskPerToken
<1>5. CASE Next
  BY <1>1, <1>2, <1>3, <1>4, <1>5, WorkerLeaseKept, LockKeptToBuild DEF Next, Moves, Works, Passes, IInv
<1>6. CASE UNCHANGED vars
  <2>1. UNCHANGED <<reqLock, ttl, buildLock, done, queue, pc, token, lost, accepted, kpc, task,
                    faults, met>>
    BY <1>6 DEF vars, locks, web, worker, fault
  <2>2. Pending' = Pending /\ Due' = Due
    BY <2>1 DEF Pending, Taken, Due
  <2> QED
    BY <2>1, <2>2 DEF IInv, TypeOK, LocksTyped, WebTyped, WorkerTyped, FaultsTyped, HoldsTask,
       OwnsToken, SubmitsLast, OneTaskPerToken, WorkerLease, Protected, KeepsLockToBuild
<1> QED
  BY <1>5, <1>6

\* The invariant holds in every behaviour of the request protocol.
LEMMA Invariant == Spec => []IInv
<1> QED
  BY Initial, Inductive, PTL DEF Spec

\* Every variable keeps its type: a task is never retried beyond MaxRetries.
THEOREM TypeCorrect == Spec => []TypeOK
<1>1. IInv => TypeOK
  BY DEF IInv
<1> QED
  BY <1>1, Invariant, PTL

\* A request answered 202 stays protected until its task has done its work
\* (api_views_local.py ensure_snapshot, tasks.py build_history_snapshot).
THEOREM AcceptedStaysProtected == Spec => []AcceptedIsProtected
<1>1. IInv => AcceptedIsProtected
  <2>1. Unfinished \subseteq Due
    BY DEF Unfinished, Due
  <2> QED
    BY <2>1 DEF IInv, Protected, AcceptedIsProtected
<1> QED
  BY <1>1, Invariant, PTL

\* No renewal shortens the lease under a running build
\* (snapshot_request_lock.py, the cap script).
THEOREM BuildsKeepFullLease == Spec => []BuildKeepsFullLease
<1>1. IInv => BuildKeepsFullLease
  BY DEF IInv, WorkerLease, BuildKeepsFullLease
<1> QED
  BY <1>1, Invariant, PTL

\* A superseded task begins no build (tasks.py build_history_snapshot).
THEOREM SupersededBuildsNothing == Spec => SupersededBeginsNoBuild
<1> DEFINE Step == \A k \in Workers :
       \/ met \cap {"ambiguous", "lapse"} # {}
       \/ "crash" \in met /\ ~OneWorker
       \/ kpc[k] # "building" /\ kpc'[k] = "building" => reqLock = task[k].token
<1>1. IInv /\ [Next]_vars => [Step]_vars
  <2> SUFFICES ASSUME IInv, Next, NEW k \in Workers, kpc[k] # "building", kpc'[k] = "building"
               PROVE  kpc[k] = "build"
    BY DEF IInv, KeepsLockToBuild
  <2>0. kpc \in [Workers -> WorkerSteps]
    BY DEF IInv, TypeOK, WorkerTyped
  <2>1. ASSUME NEW w \in Webs, Moves(w) PROVE FALSE
    BY <2>1, MovesKeepWorkers DEF IInv
  <2>2. ASSUME NEW j \in Workers, Works(j) PROVE kpc[k] = "build"
    BY <2>0, <2>2 DEF Works, WorkerStep, Take, Own, BeginBuild, Succeed, Retry, Republish,
       Release, Ack, FailBuild, CrashWorker, KGoto, Forget
  <2>3. ASSUME Passes PROVE FALSE
    BY <2>3 DEF Passes, OtherBuildBegins, OtherBuildEnds, ExpireBuildLock, ExpireRequest,
       LapseRequest, worker
  <2> QED
    BY <2>1, <2>2, <2>3 DEF Next, Moves, Works, Passes
<1>2. Spec => [][Step]_vars
  BY <1>1, Invariant, PTL DEF Spec
<1> QED
  BY <1>2 DEF SupersededBeginsNoBuild
=============================================================================
