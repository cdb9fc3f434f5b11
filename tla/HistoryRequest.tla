--------------------------- MODULE HistoryRequest ---------------------------
(***************************************************************************)
(* How a browser gets a historical date built: ensure_snapshot of          *)
(* iwork/api_views_local.py takes a Redis request lock under a fresh token *)
(* and submits the Celery task build_history_snapshot (iwork/tasks.py),    *)
(* which carries the token, takes the build lock and builds.  The lock     *)
(* keeps polling browsers from submitting the date again; its lease is     *)
(* short while the submission is pending and long once a task is known to  *)
(* exist.  The build itself is HistoryBuild; here it succeeds or fails.    *)
(*                                                                         *)
(* Tokens are uuid4 values: a token nobody holds any more stands for a     *)
(* fresh one.  Bounds: Tokens, MaxRetries (2 in the code) and MaxFaults,   *)
(* the number of faults a behaviour may meet.                              *)
(***************************************************************************)
EXTENDS Naturals

CONSTANTS
  Webs,       (* processes that answer ensure requests       *)
  Workers,    (* Celery workers (one, -P solo, in production) *)
  Tokens, MaxRetries, MaxFaults

None == "none"
FaultKinds == {"redis", "broker", "ambiguous", "build", "crash", "lapse", "other build"}

ASSUME RequestAssumption ==
  /\ MaxRetries \in Nat /\ MaxFaults \in Nat
  /\ None \notin Tokens /\ {"other", "dead", None} \cap Workers = {}

VARIABLES
  reqLock, ttl,     (* Redis: token in the request lock, its lease          *)
  buildLock,        (* Redis: worker that builds, "other" process, "dead"   *)
                    (* one, or None                                         *)
  done,             (* MySQL: the date has a successful snapshot            *)
  queue,            (* broker: tasks not taken by a worker                  *)
  pc, token, lost,  (* per web: step, its token, the lease_lost event       *)
  kpc, task,        (* per worker: step, the task it has not acknowledged   *)
  accepted,         (* tokens whose request was answered 202 "submitted"    *)
  faults,           (* faults met so far                                    *)
  met               (* history: the kinds of those faults                   *)

locks  == <<reqLock, ttl, buildLock>>
web    == <<pc, token, lost, accepted>>
worker == <<kpc, task>>
fault  == <<faults, met>>
vars   == <<locks, done, queue, web, worker, fault>>

Tasks  == [token : Tokens, retries : 0..MaxRetries]
NoTask == [token |-> None, retries |-> 0]

Init ==
  /\ reqLock = None /\ ttl = "short" /\ buildLock = None
  /\ done = FALSE
  /\ queue = {}
  /\ pc = [w \in Webs |-> "idle"] /\ token = [w \in Webs |-> None]
  /\ lost = [w \in Webs |-> FALSE]
  /\ kpc = [k \in Workers |-> "idle"] /\ task = [k \in Workers |-> NoTask]
  /\ accepted = {}
  /\ faults = 0 /\ met = {}

Taken   == {task[k] : k \in {j \in Workers : kpc[j] # "idle"}}
Pending == {m.token : m \in queue \cup Taken}
Unused  == Tokens \ (Pending \cup {reqLock} \cup {token[w] : w \in Webs} \cup accepted)

Fault(kind) ==
  /\ faults < MaxFaults
  /\ faults' = faults + 1
  /\ met' = met \cup {kind}
Goto(w, s)  == pc' = [pc EXCEPT ![w] = s]
KGoto(k, s) == kpc' = [kpc EXCEPT ![k] = s]

(* Answer the browser: the web process forgets its request. *)
Answer(w) ==
  /\ Goto(w, "idle")
  /\ token' = [token EXCEPT ![w] = None]
  /\ lost' = [lost EXCEPT ![w] = FALSE]

(* Release by token: a foreign or missing lock is left alone. *)
ReleaseRequest(t) ==
  /\ reqLock' = IF reqLock = t THEN None ELSE reqLock
  /\ UNCHANGED <<ttl, buildLock>>

-----------------------------------------------------------------------------
(* The web process *)

(* A browser asks, or polls again; a finished date is answered at once. *)
Ask(w) ==
  /\ pc[w] = "idle"
  /\ ~done
  /\ Goto(w, "claim")
  /\ UNCHANGED <<locks, done, queue, token, lost, accepted, worker, fault>>

(* acquire_request_lock with the full lease; a lock that is taken means    *)
(* 202, keep polling.                                                      *)
Claim(w) ==
  /\ pc[w] = "claim"
  /\ \/ /\ reqLock = None
        /\ \E t \in Unused : reqLock' = t /\ token' = [token EXCEPT ![w] = t]
        /\ ttl' = "full"
        /\ Goto(w, "shorten")
        /\ UNCHANGED lost
     \/ /\ reqLock # None
        /\ Answer(w)
        /\ UNCHANGED <<reqLock, ttl>>
  /\ UNCHANGED <<buildLock, done, queue, accepted, worker, fault>>

(* RequestLockLease.start: reacquire with the pending lease. *)
Shorten(w) ==
  /\ pc[w] = "shorten"
  /\ \/ /\ reqLock = token[w]
        /\ ttl' = "short"
        /\ Goto(w, "check")
        /\ UNCHANGED <<lost, fault>>
     \/ /\ reqLock # token[w]
        /\ Goto(w, "giveUp")
        /\ lost' = [lost EXCEPT ![w] = TRUE]
        /\ UNCHANGED <<ttl, fault>>
     \/ /\ Fault("redis")
        /\ Goto(w, "giveUp")
        /\ lost' = [lost EXCEPT ![w] = TRUE]
        /\ UNCHANGED ttl
  /\ UNCHANGED <<reqLock, buildLock, done, queue, token, accepted, worker>>

(* Fault: the renewal sets the pending lease instead of capping it. *)
RenewLeaseShortens(w) ==
  /\ pc[w] \in {"check", "submit", "stop"}
  /\ reqLock = token[w]
  /\ ttl' = "short"
  /\ UNCHANGED <<reqLock, buildLock, done, queue, web, worker, fault>>

(* The renewal thread: the cap script tops a short lease up and leaves a   *)
(* long one alone, which changes nothing here; a foreign token or an error *)
(* sets lease_lost.                                                        *)
RenewLease(w) ==
  /\ pc[w] \in {"check", "submit", "stop"}
  /\ ~lost[w]
  /\ \/ reqLock # token[w] /\ UNCHANGED fault
     \/ Fault("redis")
  /\ lost' = [lost EXCEPT ![w] = TRUE]
  /\ UNCHANGED <<locks, done, queue, pc, token, accepted, worker>>

(* snapshot_build_in_progress: somebody builds already, so give the        *)
(* request up and answer 202.                                              *)
CheckBuild(w) ==
  /\ pc[w] = "check"
  /\ \/ buildLock = None /\ Goto(w, "submit") /\ UNCHANGED fault
     \/ buildLock # None /\ Goto(w, "giveUp") /\ UNCHANGED fault
     \/ Fault("redis") /\ Goto(w, "giveUp")
  /\ UNCHANGED <<locks, done, queue, token, lost, accepted, worker>>

(* build_history_snapshot.delay: the broker may refuse, or take the task   *)
(* although the web process sees an error.                                 *)
Submit(w) ==
  /\ pc[w] = "submit"
  /\ \/ /\ queue' = queue \cup {[token |-> token[w], retries |-> 0]}
        /\ \/ Goto(w, "stop") /\ UNCHANGED fault
           \/ Goto(w, "giveUp") /\ Fault("ambiguous")
     \/ Goto(w, "giveUp") /\ Fault("broker") /\ UNCHANGED queue
  /\ UNCHANGED <<locks, done, token, lost, accepted, worker>>

(* Stop the renewal; a lost lease is answered 200 or 503 and released by   *)
(* nobody.                                                                 *)
StopLease(w) ==
  /\ pc[w] = "stop"
  /\ \/ lost[w] /\ Answer(w)
     \/ ~lost[w] /\ Goto(w, "promote") /\ UNCHANGED <<token, lost>>
  /\ UNCHANGED <<locks, done, queue, accepted, worker, fault>>

(* Fault: the answer is 202 without the promotion. *)
PromoteNot(w) ==
  /\ pc[w] = "promote"
  /\ accepted' = accepted \cup {token[w]}
  /\ Answer(w)
  /\ UNCHANGED <<locks, done, queue, worker, fault>>

(* renew_request_lock with the full lease: 202 if it is confirmed, else    *)
(* 200 or 503.                                                             *)
Promote(w) ==
  /\ pc[w] = "promote"
  /\ \/ /\ reqLock = token[w]
        /\ ttl' = "full"
        /\ accepted' = accepted \cup {token[w]}
        /\ UNCHANGED fault
     \/ reqLock # token[w] /\ UNCHANGED <<ttl, accepted, fault>>
     \/ Fault("redis") /\ UNCHANGED <<ttl, accepted>>
  /\ Answer(w)
  /\ UNCHANGED <<reqLock, buildLock, done, queue, worker>>

(* The error paths and the build already running: release, if Redis lets   *)
(* us.                                                                     *)
GiveUp(w) ==
  /\ pc[w] = "giveUp"
  /\ \/ ReleaseRequest(token[w]) /\ UNCHANGED fault
     \/ Fault("redis") /\ UNCHANGED locks
  /\ Answer(w)
  /\ UNCHANGED <<done, queue, accepted, worker>>

CrashWeb(w) ==
  /\ pc[w] # "idle"
  /\ Fault("crash")
  /\ Answer(w)
  /\ UNCHANGED <<locks, done, queue, accepted, worker>>

-----------------------------------------------------------------------------
(* The worker: the task is acknowledged when it has ended (acks_late) *)

Take(k) ==
  /\ kpc[k] = "idle"
  /\ \E m \in queue :
       /\ task' = [task EXCEPT ![k] = m]
       /\ queue' = queue \ {m}
  /\ KGoto(k, "own")
  /\ UNCHANGED <<locks, done, web, fault>>

(* Fault: a task that lost its token builds all the same. *)
OwnNot(k) ==
  /\ kpc[k] = "own"
  /\ ttl' = "full"
  /\ KGoto(k, "build")
  /\ UNCHANGED <<reqLock, buildLock, done, queue, web, task, fault>>

(* restore_request_lock and renew_request_lock: a task whose token no      *)
(* longer holds the lock is superseded.                                    *)
Own(k) ==
  /\ kpc[k] = "own"
  /\ \/ reqLock = task[k].token /\ ttl' = "full" /\ KGoto(k, "build") /\ UNCHANGED fault
     \/ reqLock # task[k].token /\ UNCHANGED <<ttl, fault>> /\ KGoto(k, "release")
     \/ Fault("redis") /\ UNCHANGED ttl /\ KGoto(k, "release")
  /\ UNCHANGED <<reqLock, buildLock, done, queue, web, task>>

(* snapshot_history_date: a taken build lock ends the task. *)
BeginBuild(k) ==
  /\ kpc[k] = "build"
  /\ \/ buildLock = None /\ buildLock' = k /\ KGoto(k, "building") /\ UNCHANGED fault
     \/ buildLock # None /\ UNCHANGED <<buildLock, fault>> /\ KGoto(k, "release")
     \/ Fault("redis") /\ UNCHANGED buildLock /\ KGoto(k, "release")
  /\ UNCHANGED <<reqLock, ttl, done, queue, web, task>>

(* A build that published may still fail to release its lock. *)
Succeed(k) ==
  /\ kpc[k] = "building"
  /\ done' = TRUE
  /\ \/ buildLock' = None /\ UNCHANGED fault
     \/ buildLock' = "dead" /\ Fault("redis")
  /\ KGoto(k, "release")
  /\ UNCHANGED <<reqLock, ttl, queue, web, task>>

(* _is_retryable sends the failure to a retry; a data error or a lost      *)
(* build lease ends the task.                                              *)
FailBuild(k) ==
  /\ kpc[k] = "building"
  /\ Fault("build")
  /\ buildLock' = None
  /\ KGoto(k, "retry") \/ KGoto(k, "release")
  /\ UNCHANGED <<reqLock, ttl, done, queue, web, task>>

(* A retry keeps the request lock and renews it; the last one does not. *)
Retry(k) ==
  /\ kpc[k] = "retry"
  /\ \/ /\ task[k].retries < MaxRetries /\ reqLock = task[k].token
        /\ ttl' = "full"
        /\ KGoto(k, "republish")
        /\ UNCHANGED fault
     \/ /\ task[k].retries = MaxRetries \/ reqLock # task[k].token
        /\ KGoto(k, "release")
        /\ UNCHANGED <<ttl, fault>>
     \/ /\ task[k].retries < MaxRetries
        /\ Fault("redis")
        /\ KGoto(k, "release")
        /\ UNCHANGED ttl
  /\ UNCHANGED <<reqLock, buildLock, done, queue, web, task>>

(* self.retry queues the next attempt; if the broker refuses, the lock is  *)
(* kept with no task behind it.                                            *)
Republish(k) ==
  /\ kpc[k] = "republish"
  /\ \/ queue' = queue \cup {[task[k] EXCEPT !.retries = @ + 1]} /\ UNCHANGED fault
     \/ UNCHANGED queue /\ Fault("broker")
  /\ KGoto(k, "ack")
  /\ UNCHANGED <<locks, done, web, task>>

Release(k) ==
  /\ kpc[k] = "release"
  /\ \/ ReleaseRequest(task[k].token) /\ UNCHANGED fault
     \/ Fault("redis") /\ UNCHANGED locks
  /\ KGoto(k, "ack")
  /\ UNCHANGED <<done, queue, web, task>>

Forget(k) == KGoto(k, "idle") /\ task' = [task EXCEPT ![k] = NoTask]

Ack(k) ==
  /\ kpc[k] = "ack"
  /\ Forget(k)
  /\ UNCHANGED <<locks, done, queue, pc, token, lost, fault>>
  /\ accepted' = IF task[k].token \in Pending' THEN accepted
                 ELSE accepted \ {task[k].token}

(* A worker that dies has not acknowledged: the broker delivers again. *)
CrashWorker(k) ==
  /\ kpc[k] # "idle"
  /\ Fault("crash")
  /\ queue' = queue \cup {task[k]}
  /\ buildLock' = IF kpc[k] = "building" THEN "dead" ELSE buildLock
  /\ Forget(k)
  /\ UNCHANGED <<reqLock, ttl, done, web>>

-----------------------------------------------------------------------------
(* The environment: other builders of the date, and the leases *)

(* The nightly task or the management command builds the date. *)
OtherBuildBegins ==
  /\ buildLock = None
  /\ Fault("other build")
  /\ buildLock' = "other"
  /\ UNCHANGED <<reqLock, ttl, done, queue, web, worker>>

OtherBuildEnds ==
  /\ buildLock = "other"
  /\ buildLock' = None
  /\ done' \in {done, TRUE}
  /\ UNCHANGED <<reqLock, ttl, queue, web, worker, fault>>

ExpireBuildLock ==
  /\ buildLock = "dead"
  /\ buildLock' = None
  /\ UNCHANGED <<reqLock, ttl, done, queue, web, worker, fault>>

(* A live web process renews its lease; the full lease outlasts the wait   *)
(* in the queue and the build.                                             *)
Kept(t) == (\E w \in Webs : token[w] = t) \/ (ttl = "full" /\ t \in Pending)

(* Fault: the lock was set without an expiry. *)
ExpireNever == FALSE /\ UNCHANGED vars

ExpireRequest ==
  /\ reqLock # None
  /\ ~Kept(reqLock)
  /\ reqLock' = None
  /\ UNCHANGED <<ttl, buildLock, done, queue, web, worker, fault>>

(* A stalled process, a longer wait or a lost key ends a kept lease. *)
LapseRequest ==
  /\ reqLock # None
  /\ Fault("lapse")
  /\ reqLock' = None
  /\ UNCHANGED <<ttl, buildLock, done, queue, web, worker>>

WebStep(w) ==
  \/ Claim(w) \/ Shorten(w) \/ CheckBuild(w) \/ Submit(w) \/ StopLease(w) \/ Promote(w)
  \/ GiveUp(w)

WorkerStep(k) ==
  \/ Take(k) \/ Own(k) \/ BeginBuild(k) \/ Succeed(k) \/ Retry(k) \/ Republish(k)
  \/ Release(k) \/ Ack(k)

Next ==
  \/ \E w \in Webs : Ask(w) \/ WebStep(w) \/ RenewLease(w) \/ CrashWeb(w)
  \/ \E k \in Workers : WorkerStep(k) \/ FailBuild(k) \/ CrashWorker(k)
  \/ OtherBuildBegins \/ OtherBuildEnds
  \/ ExpireBuildLock \/ ExpireRequest \/ LapseRequest

Spec == Init /\ [][Next]_vars

(* Browsers keep polling, processes and the worker keep running, the other *)
(* build ends, and Redis expires leases nobody keeps.                      *)
Fairness ==
  /\ \A w \in Webs : WF_vars(Ask(w)) /\ WF_vars(WebStep(w))
  /\ \A k \in Workers : WF_vars(WorkerStep(k))
  /\ WF_vars(OtherBuildEnds) /\ WF_vars(ExpireBuildLock) /\ WF_vars(ExpireRequest)

FairSpec == Spec /\ Fairness

-----------------------------------------------------------------------------
(* Properties *)

(* The tasks that still have their work before them. *)
Unfinished ==
  queue \cup {task[k] : k \in {j \in Workers : kpc[j] \notin {"idle", "republish", "release", "ack"}}}

(* A request answered "submitted" is protected until its task has done its *)
(* work: the lock holds its token under the full lease, through retries    *)
(* too, so no poll submits the date again, unless a process has died or a  *)
(* live lease has lapsed (api_views_local.py:262-293, tasks.py:217-236).   *)
AcceptedIsProtected ==
  \A m \in Unfinished :
    \/ met \cap {"crash", "lapse"} # {}
    \/ m.token \in accepted => reqLock = m.token /\ ttl = "full"

(* A late renewal by the web process never shortens the lease a worker     *)
(* took for its build (snapshot_request_lock.py:12-23).                    *)
BuildKeepsFullLease ==
  \A k \in Workers : kpc[k] = "building" /\ reqLock = task[k].token => ttl = "full"

OneWorker == \A j, k \in Workers : j = k

(* A task whose token no longer holds the request lock begins no build,    *)
(* unless the lock went between its check and its build: a live lease has  *)
(* lapsed, or the web process was told of an error although the broker had *)
(* queued the task, and released it, or another worker, where there is     *)
(* one, took the same task after a crash (tasks.py:192-206).               *)
SupersededBeginsNoBuild ==
  [][\A k \in Workers :
       \/ met \cap {"ambiguous", "lapse"} # {}
       \/ "crash" \in met /\ ~OneWorker
       \/ kpc[k] # "building" /\ kpc'[k] = "building" => reqLock = task[k].token]_vars

(* However requests, workers, the broker and Redis fail, once the faults   *)
(* are over polling leads to a snapshot: no lock is left that keeps every  *)
(* later request out (snapshot_request_lock.py, api_views_local.py).       *)
PollingEndsWithSnapshot == <>done
=============================================================================
