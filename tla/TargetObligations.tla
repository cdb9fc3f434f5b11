--------------------------- MODULE TargetObligations ---------------------------
(***************************************************************************)
(* The daily target of one production flow on one business date: who leads *)
(* the flow, the submitted target, and the obligation row that says        *)
(* whether the target is still owed (src/iwork/target_responsibility.py,   *)
(* with its callers in api_views_account.py, middleware.py, api_views.py   *)
(* and alerts/tasks.py).                                                   *)
(*                                                                         *)
(* Every web process and the alert worker run these functions against one  *)
(* MySQL database at READ COMMITTED.  An action is one committed read, one *)
(* blocking lock, or one commit: between two of them any other process may *)
(* commit.  Rows are read without locks by "ensure" and saved back in      *)
(* full, so what it writes is what it read earlier.                        *)
(*                                                                         *)
(* The obligation's deadline is frozen when the row is created.  Time is   *)
(* "due", the very instant of the deadline, which is the last one on time  *)
(* (every earlier one compares like it), or "late".  Flows of one date     *)
(* share nothing but the transaction, so one flow stands for each of them. *)
(***************************************************************************)
EXTENDS Naturals, FiniteSets

CONSTANTS
    Leaders,    \* the identities an administrator may put in charge
    Web,        \* the web requests in flight at once
    MaxFaults   \* how many calls may die half way (bound)

ASSUME FaultsAssumption == MaxFaults \in Nat

\* The minute task of the alert worker; there is one at a time.
Task == "task"

\* Nobody holds the obligation's row lock.
Free == "free"

ASSUME NamesAssumption == Task \notin Web /\ Free \notin Web

Calls == Web \cup {Task}

Instants == {"due", "late"}
Incomplete == {"PENDING", "OVERDUE"}
Complete == {"FULFILLED", "FULFILLED_LATE"}
Statuses == {"none", "WAIVED"} \cup Incomplete \cup Complete

VARIABLES
    phase,       \* where the clock stands against the frozen deadline
    assigned,    \* leaders with an assignment in force, as committed
    target,      \* when the stored target was submitted, or "none"
    obligation,  \* status of the obligation row, "none" before it exists
    lock,        \* the call holding the obligation's row lock
    call,        \* what each process is doing
    faults       \* calls lost so far

vars == <<phase, assigned, target, obligation, lock, call, faults>>
store == <<phase, assigned, target, obligation, lock, faults>>

\* A call in progress: what it read is kept until it is written back.
\*   instant  the moment the call captured to judge the deadline
\*   led      it read a leader in charge (waive: besides those it removes)
\*   known    the target it read
\*   steady   a gate's leader has kept the assignment since it was read
Idle == [op |-> "none", step |-> "idle", who |-> {}, instant |-> "due",
         led |-> FALSE, known |-> "none", steady |-> FALSE]

Steps == {"idle", "leaders", "flows", "target", "write", "others",
          "overdue", "status", "admitted", "waive", "removed"}

CallType ==
    [op : {"none", "ensure", "gate", "save", "remove"},
     step : Steps, who : SUBSET Leaders, instant : Instants,
     led : BOOLEAN, known : {"none"} \cup Instants, steady : BOOLEAN]

\* A lock is held by a removal between its check and its commit, and the row
\* stays pending as long as it is held.
TypeOK ==
    /\ phase \in Instants
    /\ assigned \subseteq Leaders
    /\ target \in {"none"} \cup Instants
    /\ obligation \in Statuses
    /\ lock \in {Free} \cup Web
    /\ call \in [Calls -> CallType]
    /\ faults \in 0..MaxFaults
    /\ lock # Free => call[lock].step = "removed" /\ obligation = "PENDING"

Init ==
    /\ phase = "due"
    /\ assigned \in SUBSET Leaders
    /\ target = "none"
    /\ obligation = "none"
    /\ lock = Free
    /\ call = [p \in Calls |-> Idle]
    /\ faults = 0

--------------------------------------------------------------------------------
\* target_submission_status: a submitted target is judged by the moment of its
\* submission (on time if <= the deadline), a missing one by the caller's instant
\* (overdue if > the deadline).
Done(t) == IF t = "due" THEN "FULFILLED" ELSE "FULFILLED_LATE"
Owed(t) == IF t = "late" THEN "OVERDUE" ELSE "PENDING"
Judge(c) == IF c.known # "none" THEN Done(c.known) ELSE Owed(c.instant)

\* Where a call goes once ensure has returned: a gate reads the status, the
\* others answer.
AfterEnsure(c) ==
    IF c.op = "gate"
    THEN [Idle EXCEPT !.op = "gate", !.step = "status", !.who = c.who, !.steady = c.steady]
    ELSE Idle

--------------------------------------------------------------------------------
\* ensure_daily_target_obligations

\* The active assignments are read first; `now` is captured with them.
LeadersRead(c) ==
    [c EXCEPT !.step = "flows", !.led = assigned # {}, !.instant = phase]

ReadLeaders(p) ==
    /\ call[p].step = "leaders"
    /\ call' = [call EXCEPT ![p] = LeadersRead(@)]
    /\ UNCHANGED store

\* Fault: only led flows are refreshed, those with just a target are not.
ReadLedFlows(p) ==
    /\ call[p].step = "flows"
    /\ call' = [call EXCEPT ![p] = [@ EXCEPT !.step =
                    IF call[p].led THEN "target" ELSE "others"]]
    /\ UNCHANGED store

\* Then the flows with a target: both decide whether this flow is refreshed or
\* is only one of the existing rows left over.
ReadFlows(p) ==
    /\ call[p].step = "flows"
    /\ call' = [call EXCEPT ![p] = [@ EXCEPT !.step =
                    IF call[p].led \/ target # "none" THEN "target" ELSE "others"]]
    /\ UNCHANGED store

\* get_or_create follows this read: a row it inserts is not visible to others
\* before the commit and is overwritten before it.
ReadTarget(p) ==
    /\ call[p].step = "target"
    /\ call' = [call EXCEPT ![p] = [@ EXCEPT !.step = "write", !.led = FALSE,
                                                !.known = target]]
    /\ UNCHANGED store

\* A write of the row with the given status, for the two faults that follow.
WriteAs(p, status) ==
    /\ call[p].step = "write" /\ call[p].op # "save"
    /\ lock = Free
    /\ obligation' = status
    /\ call' = [call EXCEPT ![p] = AfterEnsure(@)]
    /\ UNCHANGED <<phase, assigned, target, lock, faults>>

\* Fault: a waived obligation is not revived when the flow is led again.
WriteKeepsWaived(p) ==
    WriteAs(p, IF obligation = "WAIVED" /\ call[p].known = "none" THEN "WAIVED"
               ELSE Judge(call[p]))

\* Fault: without a target the status stays what it was when the row was created.
WriteOnceCreated(p) ==
    WriteAs(p, IF obligation = "none" \/ call[p].known # "none" THEN Judge(call[p])
               ELSE obligation)

\* The full save of the row, whatever it holds by now.
WriteObligation(p) ==
    /\ call[p].step = "write" /\ call[p].op # "save"
    /\ lock = Free
    /\ obligation' = Judge(call[p])
    /\ call' = [call EXCEPT ![p] = AfterEnsure(@)]
    /\ UNCHANGED <<phase, assigned, target, lock, faults>>

\* A row whose flow has neither leader nor target only turns overdue.
ReadOthers(p) ==
    /\ call[p].step = "others"
    /\ call' = [call EXCEPT ![p] =
                    IF obligation = "PENDING" /\ @.instant = "late"
                    THEN [@ EXCEPT !.step = "overdue"] ELSE AfterEnsure(@)]
    /\ UNCHANGED store

WriteOverdue(p) ==
    /\ call[p].step = "overdue"
    /\ lock = Free
    /\ obligation' = "OVERDUE"
    /\ call' = [call EXCEPT ![p] = AfterEnsure(@)]
    /\ UNCHANGED <<phase, assigned, target, lock, faults>>

Ensure(p) ==
    \/ ReadLeaders(p) \/ ReadFlows(p) \/ ReadTarget(p)
    \/ WriteObligation(p) \/ ReadOthers(p) \/ WriteOverdue(p)

\* reconcile_target_obligations_task; pages that list obligations call ensure
\* in the same way.
StartReconcile(p) ==
    /\ call[p].step = "idle"
    /\ call' = [call EXCEPT ![p] = LeadersRead([Idle EXCEPT !.op = "ensure"])]
    /\ UNCHANGED store

--------------------------------------------------------------------------------
\* save_group_target: the permission is checked and the moment of submission
\* taken before the transaction.  An administrator (who = {}) needs no assignment.
StartSave(w, who) ==
    /\ call[w].step = "idle"
    /\ who \subseteq assigned /\ Cardinality(who) <= 1
    /\ call' = [call EXCEPT ![w] = [Idle EXCEPT !.op = "save", !.step = "write",
                                                !.instant = phase]]
    /\ UNCHANGED store

\* The transaction begins with ensure, whose row is locked from then on and replaced
\* before anyone sees it: only the target and status it ends with are committed.
CommitSave(w) ==
    /\ call[w].step = "write" /\ call[w].op = "save"
    /\ lock = Free
    /\ target' = call[w].instant
    /\ obligation' = Done(call[w].instant)
    /\ call' = [call EXCEPT ![w] = Idle]
    /\ UNCHANGED <<phase, assigned, lock, faults>>

--------------------------------------------------------------------------------
\* flow_assignments PUT: the assignment is committed, ensure follows on its own.
Assign(w, l) ==
    /\ call[w].step = "idle"
    /\ assigned' = assigned \cup {l}
    /\ call' = [call EXCEPT ![w] = [Idle EXCEPT !.op = "ensure", !.step = "leaders"]]
    /\ UNCHANGED <<phase, target, obligation, lock, faults>>

\* DELETE of an assignment, a PUT that moves one to another flow, or the clean-up
\* of deleted principals: the rows go and waive_unfinished_obligations runs in
\* the same transaction.
StartRemove(w, S) ==
    /\ call[w].step = "idle"
    /\ S \subseteq assigned /\ S # {}
    /\ call' = [call EXCEPT ![w] = [Idle EXCEPT !.op = "remove", !.step = "waive",
                                                !.who = S, !.instant = phase]]
    /\ UNCHANGED store

\* select_for_update of the pending row, then the check for leaders left: it
\* sees this transaction's deletions and what others have committed.
LockPending(w) ==
    /\ call[w].step = "waive"
    /\ lock = Free
    /\ lock' = IF obligation = "PENDING" THEN w ELSE Free
    /\ call' = [call EXCEPT ![w] = [@ EXCEPT !.step = "removed",
                                                !.led = assigned \ call[w].who # {}]]
    /\ UNCHANGED <<phase, assigned, target, obligation, faults>>

\* The status a removal leaves: a flow still led keeps its obligation, one
\* nobody leads is excused before the deadline and overdue after it.
Excused(c) ==
    IF c.led THEN obligation
    ELSE IF c.instant = "late" THEN "OVERDUE" ELSE "WAIVED"

CommitRemove(w) ==
    /\ call[w].step = "removed"
    /\ assigned' = assigned \ call[w].who
    /\ obligation' = IF lock = w THEN Excused(call[w]) ELSE obligation
    /\ lock' = IF lock = w THEN Free ELSE lock
    /\ call' = [p \in Calls |->
                  IF p = w THEN Idle
                  ELSE [call[p] EXCEPT !.steady = @ /\ call[p].who \cap call[w].who = {}]]
    /\ UNCHANGED <<phase, target, faults>>

--------------------------------------------------------------------------------
\* TargetSubmissionGateMiddleware: a leader's request first reads the flows of
\* the leader, then refreshes the obligations, then reads the status.  Whoever
\* leads no flow passes without touching anything and is left out.
StartGate(w, l) ==
    /\ call[w].step = "idle"
    /\ l \in assigned
    /\ call' = [call EXCEPT ![w] = [Idle EXCEPT !.op = "gate", !.step = "leaders",
                                                !.who = {l}, !.steady = TRUE]]
    /\ UNCHANGED store

\* An obligation still owed redirects the page, or answers an API call with 403.
DecideGate(w) ==
    /\ call[w].step = "status"
    /\ call' = [call EXCEPT ![w] = IF obligation \in Incomplete THEN Idle
                                   ELSE [@ EXCEPT !.step = "admitted"]]
    /\ UNCHANGED store

\* The rest of the request runs.
Respond(w) ==
    /\ call[w].step = "admitted"
    /\ call' = [call EXCEPT ![w] = Idle]
    /\ UNCHANGED store

--------------------------------------------------------------------------------
\* A call fails: its process dies, the connection is lost, or it adds the same
\* leader to the obligation's snapshot as another call just did and violates the
\* unique link.  Its transaction is rolled back; the request is not answered
\* with "admitted".
Fail(p) ==
    /\ call[p].step # "idle"
    /\ faults < MaxFaults
    /\ faults' = faults + 1
    /\ lock' = IF lock = p THEN Free ELSE lock
    /\ call' = [call EXCEPT ![p] = Idle]
    /\ UNCHANGED <<phase, assigned, target, obligation>>

DeadlinePasses ==
    /\ phase = "due"
    /\ phase' = "late"
    /\ UNCHANGED <<assigned, target, obligation, lock, call, faults>>

\* What a process does of its own accord once it is in a call.
Continue(w) ==
    \/ CommitSave(w) \/ LockPending(w) \/ CommitRemove(w)
    \/ DecideGate(w) \/ Respond(w)

Request(w) ==
    \/ \E l \in Leaders : Assign(w, l) \/ StartGate(w, l)
    \/ \E S \in SUBSET Leaders : StartSave(w, S) \/ StartRemove(w, S)

Next ==
    \/ StartReconcile(Task)
    \/ \E p \in Calls : Ensure(p) \/ Fail(p)
    \/ \E w \in Web : Request(w) \/ Continue(w)
    \/ DeadlinePasses

Spec == Init /\ [][Next]_vars

\* The beat starts the task every minute, a call that has begun runs on, and the
\* task's refresh gets the row lock in its turn: InnoDB queues the waiters.
Fairness ==
    /\ WF_vars(StartReconcile(Task)) /\ SF_vars(Ensure(Task))
    /\ \A w \in Web : WF_vars(Ensure(w)) /\ WF_vars(Continue(w))

FairSpec == Spec /\ Fairness

--------------------------------------------------------------------------------
\* A leader whose assignment has stood since the request arrived is let through
\* the gate only once the target is submitted: no refresh by another process
\* and no removal of another leader slips an excused status in between the
\* gate's own refresh and its read.
GateHolds ==
    \A w \in Web :
        call[w].op = "gate" /\ call[w].step = "admitted" /\ call[w].steady
            => target # "none"

\* A status that counts as done is backed by a stored target, whatever stale row a
\* call saves back.
FulfilledIsSubmitted == obligation \in Complete => target # "none"

\* Violated.  Removing the last leader before the deadline excuses the open
\* obligation (docs/changelogs/2026-08-19-iwork-flow-multiassign-immediate-effect.md,
\* line 25): when nothing is in progress, a flow without leader is not owed a target.
LastRemovalExcuses ==
    (\A p \in Calls : call[p] = Idle) /\ phase = "due" /\ assigned = {}
        => obligation # "PENDING"

\* Once a target is stored, the obligation eventually shows it as done, and stays
\* so: every stale write is repaired.  It is on time if submitted up to and at the
\* instant of the deadline, late if submitted after it.
SubmittedIsSettled ==
    (target # "none")
        ~> [](obligation = IF target = "late" THEN "FULFILLED_LATE" ELSE "FULFILLED")

\* A flow that stays led past its deadline without a target ends up overdue for
\* good, even when it had been excused or a stale refresh says pending; but at the
\* instant of the deadline itself, and before, nothing is overdue.
LedFlowIsOverdue ==
    /\ <>[](phase = "late" /\ assigned # {} /\ target = "none")
           => <>[](obligation = "OVERDUE")
    /\ [](obligation = "OVERDUE" => phase = "late")
================================================================================
