------------------------------- MODULE Deployment -------------------------------
(***************************************************************************)
(* Deployments of iwork on the production host                             *)
(* (scripts/Invoke-IworkProductionDeployment.ps1): a preflight without any *)
(* lock records the containers it finds; a deployment under the mutexes    *)
(* and the lock file switches the two containers, validates them and moves *)
(* the pointer to the active release, or rolls back.  Processes die and    *)
(* steps fail; files and containers stay as they were left.                *)
(*                                                                         *)
(* Runs are iwork's deployments, each with its own preflight; Others are   *)
(* processes of other repositories, of which only the lock file is seen.   *)
(* Bound: MaxFaults failing steps, deaths and requests that are dispatched *)
(* again, together.                                                        *)
(***************************************************************************)
EXTENDS DeploymentLock, Naturals

CONSTANTS Runs, Others,
    Base,           \* the release that runs at first
    Candidate,      \* run -> the release it deploys
    Drills,         \* runs that only practise a rollback
    SameConfig,     \* runs whose configuration is the one of the host
    MaxFaults

ASSUME DeploymentAssumption ==
    /\ Processes = Runs \cup Others /\ Runs \cap Others = {}
    /\ Drills \subseteq Runs /\ SameConfig \subseteq Runs
    /\ MaxFaults \in Nat

VARIABLES
    pc,         \* where the deployment of each run is
    report,     \* per run, the status in its state file
    back,       \* per run, what it would go back to and what it has done
    mutex,      \* who owns the mutexes of the host: {} or {run}
    marker,     \* whether the maintenance marker is there
    pointer,    \* the pointer to the active release: {} or {release}
    running,    \* per container [release, id, healthy]
    preflight,  \* per run [step, web, alert]: its preflight and its receipt
    claimed,    \* requests that were consumed
    drilled,    \* the record of the drill exists
    faults,
    \* History: releases that were validated, times a run began to switch, the
    \* last run that did, runs that failed after they had reported success, and
    \* runs whose rollback could not remove the first pointer.
    validated, switches, last, overturned, leftover

host == <<mutex, marker, pointer, claimed, drilled>>
history == <<validated, switches, last, overturned, leftover>>
vars == <<lockVars, pc, report, back, host, running, preflight, faults, history>>

Containers == {"web", "alert"}
Nothing == [release |-> {}, pointer |-> {}, stated |-> FALSE, switched |-> FALSE,
            pointed |-> FALSE, marked |-> FALSE, unclean |-> FALSE]

Init ==
    /\ LockInit
    /\ pc = [r \in Runs |-> "idle"]
    /\ report = [r \in Runs |-> "none"]
    /\ back = [r \in Runs |-> Nothing]
    /\ mutex = {} /\ marker = FALSE /\ claimed = {} /\ drilled = FALSE
    /\ pointer \in {{}, {Base}}
    /\ running = [c \in Containers |-> [release |-> Base, id |-> 0, healthy |-> TRUE]]
    /\ preflight = [r \in Runs |-> [step |-> "idle", web |-> 0, alert |-> 0]]
    /\ faults = 0
    /\ validated = {Base} /\ switches = [r \in Runs |-> 0]
    /\ last = {} /\ overturned = {} /\ leftover = {}

-----------------------------------------------------------------------------
Healthy == \A c \in Containers : running[c].healthy
Run(release) == \A c \in Containers : running[c].release = release
Fault == faults < MaxFaults /\ faults' = faults + 1
Go(r, step) == pc' = [pc EXCEPT ![r] = step]

\* A step of a run that leaves everything else alone.
At(r, step) == pc[r] = step
Keep == UNCHANGED <<running, preflight, history>>

\* Where a run goes on when a step has failed.
Failure(r) ==
    IF back[r].switched THEN "undo web"
    ELSE IF back[r].stated THEN "give up" ELSE "unmark"

-----------------------------------------------------------------------------
(* Preflight *)
StartPreflight(r) ==
    /\ preflight[r].step = "idle" /\ ~marker /\ Healthy
    /\ preflight' = [preflight EXCEPT ![r].step = "web"]
    /\ UNCHANGED <<lockVars, pc, report, back, host, running, faults, history>>

\* The containers are read one after the other.
Observe(r) ==
    \E c \in Containers :
        /\ preflight[r].step = c /\ running[c].healthy
        /\ preflight' = [preflight EXCEPT ![r][c] = running[c].id,
                                          ![r].step = IF c = "web" THEN "alert" ELSE "receipt"]
        /\ UNCHANGED <<lockVars, pc, report, back, host, running, faults, history>>

-----------------------------------------------------------------------------
(* A deployment before it switches *)
Start(r) ==
    /\ pc[r] = "idle" /\ preflight[r].step = "receipt"
    /\ back' = [back EXCEPT ![r] = [Nothing EXCEPT !.release = back[r].release, !.pointer = back[r].pointer]]
    /\ Go(r, IF r \in Drills /\ drilled THEN "end" ELSE "mutex")
    /\ UNCHANGED <<lockVars, report, host, running, preflight, faults, history>>

\* An abandoned mutex is taken like a free one.
TakeMutex(r) ==
    /\ At(r, "mutex")
    /\ IF mutex = {} THEN mutex' = {r} /\ Go(r, "lock") ELSE Go(r, "end") /\ UNCHANGED mutex
    /\ UNCHANGED <<lockVars, report, back, marker, pointer, claimed, drilled, faults>> /\ Keep

TakeLock(r) ==
    /\ At(r, "lock")
    /\ Acquire(r)
    /\ Go(r, CASE lock'[r] = "held" -> "marker" [] lock'[r] = "failed" -> "unlock" [] OTHER -> "lock")
    /\ UNCHANGED <<report, back, host, faults>> /\ Keep

\* A marker left behind is moved away if its twenty minutes are over; else
\* it ends the attempt.
CheckMarker(r) ==
    /\ At(r, "marker")
    /\ \/ marker' = FALSE /\ Go(r, "claim")
       \/ marker /\ Go(r, "unmark") /\ UNCHANGED marker
    /\ UNCHANGED <<lockVars, report, back, mutex, pointer, claimed, drilled, faults>> /\ Keep

\* Every request is good for one attempt.
Claim(r) ==
    /\ At(r, "claim")
    /\ claimed' = claimed \cup {r}
    /\ Go(r, IF r \in claimed THEN "unmark" ELSE "inspect")
    /\ UNCHANGED <<lockVars, report, back, mutex, marker, pointer, drilled, faults>> /\ Keep

SameBaseline(r) == \A c \in Containers : running[c].id = preflight[r][c]
OneRelease == \E x \in {running[c].release : c \in Containers} : Run(x)
\* Fault: the pointer is read, and not compared with the containers.
PointerIsRead == Cardinality(pointer) <= 1

PointerAgrees == \A x \in pointer : Run(x)

\* The containers are those of the receipt, both of one release, the one the
\* pointer names; without a pointer the configuration must be the host's.
Inspect(r) ==
    /\ At(r, "inspect")
    /\ IF /\ Healthy /\ SameBaseline(r) /\ OneRelease /\ PointerAgrees
          /\ pointer = {} => r \in SameConfig
       THEN /\ back' = [back EXCEPT ![r].release = {running["web"].release}, ![r].pointer = pointer]
            /\ Go(r, "drill")
       ELSE Go(r, "unmark") /\ UNCHANGED back
    /\ UNCHANGED <<lockVars, report, host, faults>> /\ Keep

\* A drill is recorded before it begins, once and for all.
Record(r) ==
    /\ At(r, "drill")
    /\ drilled' = (drilled \/ r \in Drills)
    /\ IF r \in Drills /\ drilled THEN Go(r, "unmark") /\ UNCHANGED back
       ELSE back' = [back EXCEPT ![r].stated = TRUE] /\ Go(r, "state")
    /\ UNCHANGED <<lockVars, report, mutex, marker, pointer, claimed, faults>> /\ Keep

Declare(r) ==
    /\ At(r, "state")
    /\ report' = [report EXCEPT ![r] = "deploying"]
    /\ Go(r, "mark")
    /\ UNCHANGED <<lockVars, back, host, faults>> /\ Keep

Mark(r) ==
    /\ At(r, "mark")
    /\ marker' = TRUE
    /\ back' = [back EXCEPT ![r].marked = TRUE]
    /\ Go(r, "switch")
    /\ UNCHANGED <<lockVars, report, mutex, pointer, claimed, drilled, faults>> /\ Keep

-----------------------------------------------------------------------------
(* Switching, validation and the pointer *)

\* From here on a failure leads to a rollback.
BeginSwitch(r) ==
    /\ At(r, "switch")
    /\ back' = [back EXCEPT ![r].switched = TRUE]
    /\ switches' = [switches EXCEPT ![r] = @ + 1]
    /\ last' = {r}
    /\ Go(r, "web")
    /\ UNCHANGED <<lockVars, report, host, running, preflight, faults, validated, overturned, leftover>>

\* "compose up" makes a container anew when its release differs.
Up(c, release) ==
    \E healthy \in BOOLEAN :
        /\ running' = IF running[c].release = release THEN running
                      ELSE [running EXCEPT ![c] = [release |-> release, id |-> @.id + 1, healthy |-> healthy]]
        /\ IF running' # running /\ ~healthy THEN Fault ELSE UNCHANGED faults

SwitchUp(r) ==
    \E c \in Containers :
        /\ At(r, c)
        /\ Up(c, Candidate[r])
        /\ Go(r, IF c = "web" THEN "alert" ELSE "validate")
        /\ UNCHANGED <<lockVars, report, back, host, preflight, history>>

Validate(r) ==
    /\ At(r, "validate")
    /\ IF ~Healthy THEN Go(r, Failure(r)) /\ UNCHANGED validated
       ELSE /\ validated' = validated \cup {Candidate[r]}
            /\ Go(r, IF r \in Drills THEN Failure(r) ELSE "point")
    /\ UNCHANGED <<lockVars, report, back, host, running, preflight, faults, switches, last, overturned, leftover>>

Point(r) ==
    /\ At(r, "point")
    /\ pointer' = {Candidate[r]}
    /\ back' = [back EXCEPT ![r].pointed = TRUE]
    /\ Go(r, "report")
    /\ UNCHANGED <<lockVars, report, mutex, marker, claimed, drilled, faults>> /\ Keep

Report(r) ==
    /\ At(r, "report")
    /\ report' = [report EXCEPT ![r] = "deployed"]
    /\ Go(r, "complete")
    /\ UNCHANGED <<lockVars, back, host, faults>> /\ Keep

Complete(r) ==
    /\ At(r, "complete")
    /\ Go(r, "unmark")
    /\ UNCHANGED <<lockVars, report, back, host, faults>> /\ Keep

-----------------------------------------------------------------------------
(* Failure and rollback *)

\* A step fails: a file cannot be written, docker or the probe refuses.
StepFails(r) ==
    /\ pc[r] \in {"claim", "inspect", "drill", "state", "mark", "switch", "web", "alert", "validate",
                  "point", "report", "complete"}
    /\ Fault
    /\ Go(r, Failure(r))
    /\ overturned' = IF At(r, "complete") THEN overturned \cup {r} ELSE overturned
    /\ UNCHANGED <<lockVars, report, back, host, running, preflight,
                   validated, switches, last, leftover>>

UndoUp(r) ==
    \E c \in Containers, release \in back[r].release :
        /\ At(r, IF c = "web" THEN "undo web" ELSE "undo alert")
        /\ Up(c, release)
        /\ Go(r, IF c = "web" THEN "undo alert" ELSE "undo validate")
        /\ UNCHANGED <<lockVars, report, back, host, preflight, history>>

\* Fault: the pointer stays on the release that was given up.
UndoKeepsPointer(r) ==
    /\ At(r, "undo validate")
    /\ Go(r, IF ~Healthy THEN "rollback_failed" ELSE "rolled_back")
    /\ UNCHANGED <<lockVars, report, back, host, faults>> /\ Keep

\* The lock cannot be told of the failure: that counts as a failed cleanup.
PhaseFails(r) ==
    /\ pc[r] \in {"undo web", "give up"} /\ ~back[r].unclean
    /\ Fault
    /\ back' = [back EXCEPT ![r].unclean = TRUE]
    /\ UNCHANGED <<lockVars, pc, report, host>> /\ Keep

\* The old release runs: the pointer, if it was moved, goes back as well.
UndoValidate(r) ==
    /\ At(r, "undo validate")
    /\ Go(r, IF ~Healthy THEN "rollback_failed" ELSE IF back[r].pointed THEN "undo point" ELSE "rolled_back")
    /\ UNCHANGED <<lockVars, report, back, host, faults>> /\ Keep

UndoPoint(r) ==
    /\ At(r, "undo point")
    /\ pointer' = back[r].pointer
    /\ Go(r, "rolled_back")
    /\ UNCHANGED <<lockVars, report, back, mutex, marker, claimed, drilled, faults>> /\ Keep

\* Where there was no pointer it is removed, and a failure goes unnoticed.
PointerStays(r) ==
    /\ At(r, "undo point") /\ back[r].pointer = {}
    /\ Fault
    /\ leftover' = leftover \cup {r}
    /\ Go(r, "rolled_back")
    /\ UNCHANGED <<lockVars, report, back, host, running, preflight, validated, switches, last, overturned>>

UndoFails(r) ==
    /\ \/ pc[r] \in {"undo web", "undo alert", "undo validate"}
       \/ pc[r] = "undo point" /\ back[r].pointer # {}
    /\ Fault
    /\ Go(r, "rollback_failed")
    /\ UNCHANGED <<lockVars, report, back, host>> /\ Keep

\* The outcome is written into the state file, or cannot be.
Conclude(r) ==
    /\ pc[r] \in {"rolled_back", "rollback_failed", "give up"}
    /\ \/ /\ report' = [report EXCEPT ![r] = IF pc[r] = "give up" THEN "failed_before_switch" ELSE pc[r]]
          /\ UNCHANGED faults
       \/ Fault /\ UNCHANGED report
    /\ Go(r, "unmark")
    /\ UNCHANGED <<lockVars, back, host>> /\ Keep

-----------------------------------------------------------------------------
(* The end of every attempt *)
Unmark(r) ==
    /\ At(r, "unmark")
    /\ \/ marker' = (marker /\ ~back[r].marked) /\ UNCHANGED <<back, faults>>
       \/ Fault /\ back[r].marked /\ back' = [back EXCEPT ![r].unclean = TRUE] /\ UNCHANGED marker
    /\ Go(r, "leave")
    /\ UNCHANGED <<lockVars, report, mutex, pointer, claimed, drilled>> /\ Keep

LeaveLock(r) ==
    /\ At(r, "leave")
    /\ Release(r)
    /\ Go(r, IF lock'[r] \in {"left", "unclean"} THEN "unlock" ELSE "leave")
    /\ back' = [back EXCEPT ![r].unclean = @ \/ lock'[r] = "unclean"]
    /\ UNCHANGED <<report, host, faults>> /\ Keep

ReleaseMutex(r) ==
    /\ At(r, "unlock")
    /\ mutex' = {}
    /\ IF back[r].unclean /\ back[r].stated THEN Go(r, "cleanup") /\ UNCHANGED lockVars
       ELSE Go(r, "end") /\ Finish(r)
    /\ UNCHANGED <<report, back, marker, pointer, claimed, drilled, faults>> /\ Keep

\* Whatever the outcome was, a failed cleanup replaces it, if that can be
\* written; the mutexes may be somebody else's by then.
ReportCleanup(r) ==
    /\ At(r, "cleanup")
    /\ \/ report' = [report EXCEPT ![r] = "cleanup_failed"] /\ UNCHANGED faults
       \/ Fault /\ UNCHANGED report
    /\ Finish(r)
    /\ Go(r, "end")
    /\ UNCHANGED <<back, host>> /\ Keep

\* The same request is dispatched again.
Redispatch(r) ==
    /\ pc[r] \in {"end", "dead"}
    /\ Fault
    /\ Go(r, "idle")
    /\ UNCHANGED <<lockVars, report, back, host, running, preflight, history>>

\* The process dies: Windows gives up its mutexes and closes its files.
Dies(r) ==
    /\ pc[r] \notin {"idle", "mutex", "end", "dead"}
    /\ Fault
    /\ mutex' = mutex \ {r}
    /\ IF lock[r] = "out" THEN UNCHANGED lockVars ELSE Die(r)
    /\ Go(r, "dead")
    /\ UNCHANGED <<report, back, marker, pointer, claimed, drilled>> /\ Keep

-----------------------------------------------------------------------------
(* Other repositories *)
Other(p) ==
    /\ Acquire(p) \/ Release(p) \/ Finish(p) \/ Die(p)
    /\ UNCHANGED <<pc, report, back, host, running, preflight, faults, history>>

Deploy(r) ==
    \/ Start(r) \/ TakeMutex(r) \/ TakeLock(r) \/ CheckMarker(r) \/ Claim(r) \/ Inspect(r)
    \/ Record(r) \/ Declare(r) \/ Mark(r) \/ BeginSwitch(r) \/ SwitchUp(r) \/ Validate(r) \/ Point(r)
    \/ Report(r) \/ Complete(r) \/ StepFails(r) \/ PhaseFails(r)
    \/ UndoUp(r) \/ UndoValidate(r) \/ UndoPoint(r) \/ PointerStays(r) \/ UndoFails(r) \/ Conclude(r)
    \/ Unmark(r) \/ LeaveLock(r) \/ ReleaseMutex(r) \/ ReportCleanup(r)
    \/ Redispatch(r) \/ Dies(r)

Next ==
    \/ \E r \in Runs : StartPreflight(r) \/ Observe(r) \/ Deploy(r)
    \/ \E p \in Others : Other(p)

Spec == Init /\ [][Next]_vars

-----------------------------------------------------------------------------
\* Each container runs the release the run deploys or the one it found, and
\* the pointer leads to the former or is as it was.
NothingElse(r) ==
    /\ \A c \in Containers : running[c].release \in {Candidate[r]} \cup back[r].release
    /\ pointer \in {{Candidate[r]}, back[r].pointer}

Restored(r) == \A x \in back[r].release : Run(x)

(* What the state file of the last run that began to switch says is so,    *)
(* at every moment until another run switches:                             *)
(*  - "deployed": both containers run the candidate, healthy when they     *)
(*    were validated, and the pointer names it.  Excepted is a run that    *)
(*    failed after it had written this (overturned): the renewal of the    *)
(*    lock at 2592 fails, the rollback begins, and the file goes on saying *)
(*    "deployed" until the rollback has written its outcome, for ever if   *)
(*    it dies or cannot;                                                   *)
(*  - "rolled_back": both containers run what the run found, healthy when  *)
(*    they were validated, and the pointer is as it was.  Excepted is a    *)
(*    first pointer, where none was before, whose removal failed without   *)
(*    notice (leftover, 2662-2666): it goes on naming the candidate;       *)
(*  - "deploying", "rollback_failed", "cleanup_failed" (and "deployed" in  *)
(*    the exception) promise less: no container runs anything but the      *)
(*    candidate or what was found, and the pointer leads nowhere else.     *)
(* A run that switched says nothing but these five.                        *)
(* (Invoke-IworkProductionDeployment.ps1 2550-2825.)                       *)
ReportIsTrue ==
    \A r \in last :
        /\ report[r] \in {"deploying", "deployed", "rolled_back", "rollback_failed", "cleanup_failed"}
        /\ NothingElse(r)
        /\ report[r] = "deployed" /\ r \notin overturned =>
              Healthy /\ Run(Candidate[r]) /\ pointer = {Candidate[r]}
        /\ report[r] = "rolled_back" =>
              /\ Healthy /\ Restored(r)
              /\ pointer = back[r].pointer \/ (r \in leftover /\ back[r].pointer = {})

(* A deployment that begins to switch stands on known ground: nobody has   *)
(* touched the containers since its preflight, a rollback leads back to a  *)
(* release that was validated once, as far as a pointer says so, and its   *)
(* request was used for no other switch (Assert-PreflightReceipt,          *)
(* Claim-RequestId and the checks at 2398-2448).                           *)
StandsOnKnownGround ==
    \A r \in Runs :
        /\ switches[r] <= 1
        /\ pc[r] = "web" => SameBaseline(r)
        /\ back[r].switched /\ back[r].pointer # {} => back[r].release \subseteq validated
=============================================================================
