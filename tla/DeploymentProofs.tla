---------------------------- MODULE DeploymentProofs ----------------------------
(***************************************************************************)
(* The lock file excludes, for any number of processes: owning the file    *)
(* is not inductive, what keeps it there is that it is open.  And what a   *)
(* deployment switches from, comes back to and reports is known and true,  *)
(* for any number of runs and faults.                                      *)
(***************************************************************************)
EXTENDS Deployment, TLAPS

HeldOpen(p) == \E f \in file : file = {f} /\ f.owner = p /\ f.open

LockInv ==
    /\ LockTypeOK
    /\ \A p \in Processes : lock[p] \in {"write", "held"} => HeldOpen(p)

\* q changes at most its own file, and a file stays a file.
AmendsOwn(q) ==
    /\ file' = {} \/ \E f \in Files : file' = {f}
    /\ \A f \in file : f.owner # q => file' = file

LEMMA AmendedOwn ==
    ASSUME NEW q \in Processes, NEW f \in Files, NEW g \in Files,
           file = {f}, file' = {IF f.owner = q THEN g ELSE f}
    PROVE  AmendsOwn(q)
BY DEF AmendsOwn

\* An open file is neither moved nor removed.
LEMMA OpenIsFirm == \A p : HeldOpen(p) => ~Loose /\ file # {}
BY DEF HeldOpen, Loose

\* A step of q to s keeps the invariant if it leaves a file behind, if q has
\* the file where s says so, and if it takes nobody else's away.
LEMMA StepTo ==
    ASSUME LockInv, NEW q \in Processes, NEW s \in LockSteps, Goto(q, s),
           file' = {} \/ \E f \in Files : file' = {f},
           s \in {"write", "held"} => HeldOpen(q)',
           \A p \in Processes \ {q} : HeldOpen(p) => HeldOpen(p)'
    PROVE  LockInv'
<1>1. lock' = [lock EXCEPT ![q] = s] /\ lock \in [Processes -> LockSteps]
  BY DEF Goto, LockInv, LockTypeOK
<1>2. LockTypeOK'
  BY <1>1 DEF LockTypeOK
<1>3. ASSUME NEW p \in Processes, lock'[p] \in {"write", "held"} PROVE HeldOpen(p)'
  <2>1. CASE p = q
    BY <2>1, <1>1, <1>3
  <2>2. CASE p # q
    BY <2>2, <1>1, <1>3 DEF LockInv
  <2> QED
    BY <2>1, <2>2
<1> QED
  BY <1>2, <1>3 DEF LockInv

LEMMA LockInitial == LockInit => LockInv
BY DEF LockInit, LockInv, LockTypeOK, LockSteps

\* Every step a process takes with the lock keeps the invariant.
LEMMA LockStep ==
    ASSUME LockInv, NEW q \in Processes, Acquire(q) \/ Release(q) \/ Finish(q) \/ Die(q)
    PROVE  LockInv'
<1>0. file = {} \/ \E f \in Files : file = {f}
  BY DEF LockInv, LockTypeOK
<1>1. ASSUME NEW s \in LockSteps \ {"write", "held"}, Goto(q, s), UNCHANGED file PROVE LockInv'
  <2>1. \A p \in Processes : HeldOpen(p) => HeldOpen(p)'
    BY <1>1 DEF HeldOpen
  <2> QED
    BY <2>1, <1>0, <1>1, StepTo
<1>2. ASSUME NEW s \in LockSteps \ {"write", "held"}, Goto(q, s), Loose, file' = {} PROVE LockInv'
  <2>1. \A p \in Processes : ~HeldOpen(p)
    BY <1>2, OpenIsFirm
  <2> QED
    BY <2>1, <1>2, StepTo
<1>3. ASSUME NEW s \in LockSteps \ {"write", "held"}, Goto(q, s), AmendsOwn(q) PROVE LockInv'
  <2>1. \A p \in Processes \ {q} : HeldOpen(p) => HeldOpen(p)'
    BY <1>3 DEF HeldOpen, AmendsOwn
  <2> QED
    BY <2>1, <1>3, StepTo DEF AmendsOwn
<1>4. ASSUME Enter(q) \/ CheckStale(q) \/ Verify(q) PROVE LockInv'
  BY <1>4, <1>1 DEF Enter, CheckStale, Verify, LockSteps
<1>5. ASSUME MoveStale(q) PROVE LockInv'
  BY <1>5, <1>1, <1>2 DEF MoveStale, LockSteps
<1>6. ASSUME Undo(q) \/ Remove(q) PROVE LockInv'
  BY <1>6, <1>1, <1>2 DEF Undo, Remove, LockSteps
<1>7. ASSUME Create(q) PROVE LockInv'
  <2>1. CASE file = {}
    <3> DEFINE new == [owner |-> q, open |-> TRUE, full |-> FALSE, orphan |-> FALSE]
    <3>1. file' = {new} /\ Goto(q, "write")
      BY <2>1, <1>7 DEF Create
    <3>2. new \in Files /\ new.owner = q /\ new.open
      BY DEF Files
    <3>3. HeldOpen(q)'
      BY <3>1, <3>2 DEF HeldOpen
    <3>4. \A p \in Processes : ~HeldOpen(p)
      BY <2>1, OpenIsFirm
    <3> HIDE DEF new
    <3> QED
      BY <3>1, <3>2, <3>3, <3>4, StepTo DEF LockSteps
  <2>2. CASE file # {}
    BY <2>2, <1>7, <1>1 DEF Create, LockSteps
  <2> QED
    BY <2>1, <2>2
<1>8. ASSUME Write(q) PROVE LockInv'
  <2> DEFINE Filled(f) == [f EXCEPT !.full = TRUE]
  <2>1. Amend(q, Filled) /\ Goto(q, "held") /\ lock[q] = "write"
    BY <1>8 DEF Write, Amend
  <2>2. \A f \in Files : Filled(f) \in Files
    BY DEF Files
  <2>3. HeldOpen(q)
    BY <2>1 DEF LockInv
  <2>4. PICK f \in Files : file = {f} /\ f.owner = q /\ f.open
    BY <2>3, <1>0 DEF HeldOpen
  <2>5. file' = {Filled(f)} /\ Filled(f).owner = q /\ Filled(f).open
    BY <2>1, <2>4 DEF Amend, Files
  <2>6. HeldOpen(q)'
    BY <2>5 DEF HeldOpen
  <2>7. \A p \in Processes \ {q} : ~HeldOpen(p)
    BY <2>4 DEF HeldOpen
  <2> HIDE DEF Filled
  <2> QED
    BY <2>1, <2>2, <2>4, <2>5, <2>6, <2>7, StepTo DEF LockSteps
<1>9. ASSUME WriteFails(q) PROVE LockInv'
  <2>1. AmendsOwn(q)
    <3>1. CASE file = {}
      BY <3>1, <1>9 DEF WriteFails, Amend, AmendsOwn
    <3>2. ASSUME NEW f \in Files, file = {f} PROVE AmendsOwn(q)
      <4>1. PICK full \in BOOLEAN : file' = {IF f.owner = q THEN [f EXCEPT !.open = FALSE, !.full = full] ELSE f}
        BY <3>2, <1>9 DEF WriteFails, Amend
      <4>2. [f EXCEPT !.open = FALSE, !.full = full] \in Files
        BY DEF Files
      <4> QED
        BY <4>1, <4>2, <3>2, AmendedOwn
    <3> QED
      BY <3>1, <3>2, <1>0
  <2> QED
    BY <2>1, <1>9, <1>3 DEF WriteFails, LockSteps
<1>10. ASSUME Dispose(q) PROVE LockInv'
  <2>1. AmendsOwn(q)
    <3>1. CASE file = {}
      BY <3>1, <1>10 DEF Dispose, Amend, AmendsOwn
    <3>2. ASSUME NEW f \in Files, file = {f} PROVE AmendsOwn(q)
      <4>1. file' = {IF f.owner = q THEN [f EXCEPT !.open = FALSE] ELSE f}
        BY <3>2, <1>10 DEF Dispose, Amend
      <4>2. [f EXCEPT !.open = FALSE] \in Files
        BY DEF Files
      <4> QED
        BY <4>1, <4>2, <3>2, AmendedOwn
    <3> QED
      BY <3>1, <3>2, <1>0
  <2> QED
    BY <2>1, <1>10, <1>3 DEF Dispose, LockSteps
<1>11. ASSUME Finish(q) PROVE LockInv'
  <2>1. AmendsOwn(q)
    <3>1. CASE file = {}
      BY <3>1, <1>11 DEF Finish, Amend, AmendsOwn
    <3>2. ASSUME NEW f \in Files, file = {f} PROVE AmendsOwn(q)
      <4>1. file' = {IF f.owner = q THEN Orphaned(f) ELSE f}
        BY <3>2, <1>11 DEF Finish, Amend
      <4>2. Orphaned(f) \in Files
        BY DEF Orphaned, Files
      <4> QED
        BY <4>1, <4>2, <3>2, AmendedOwn
    <3> QED
      BY <3>1, <3>2, <1>0
  <2> QED
    BY <2>1, <1>11, <1>3 DEF Finish, LockSteps
<1>12. ASSUME Die(q) PROVE LockInv'
  <2>1. AmendsOwn(q)
    <3>1. CASE file = {}
      BY <3>1, <1>12 DEF Die, Amend, AmendsOwn
    <3>2. ASSUME NEW f \in Files, file = {f} PROVE AmendsOwn(q)
      <4>1. \/ file' = {IF f.owner = q THEN Orphaned(f) ELSE f}
            \/ file' = {IF f.owner = q THEN [Orphaned(f) EXCEPT !.full = FALSE] ELSE f}
        BY <3>2, <1>12 DEF Die, Amend
      <4>2. Orphaned(f) \in Files /\ [Orphaned(f) EXCEPT !.full = FALSE] \in Files
        BY DEF Orphaned, Files
      <4> QED
        BY <4>1, <4>2, <3>2, AmendedOwn
    <3> QED
      BY <3>1, <3>2, <1>0
  <2> QED
    BY <2>1, <1>12, <1>3 DEF Die, LockSteps
<1> QED
  BY <1>4, <1>5, <1>6, <1>7, <1>8, <1>9, <1>10, <1>11, <1>12 DEF Acquire, Release
-----------------------------------------------------------------------------

\* Whatever a deployment does, with the lock it does a step of the lock or none.
LEMMA DeploymentStep == ASSUME DeploymentAssumption, [Next]_vars PROVE [LockNext]_lockVars
<1>1. ASSUME NEW r \in Runs, StartPreflight(r) \/ Observe(r) PROVE UNCHANGED lockVars
  BY <1>1 DEF StartPreflight, Observe, lockVars
<1>2. ASSUME NEW r \in Runs, Deploy(r) PROVE [LockNext]_lockVars
  <2>0. r \in Processes
    BY DEF DeploymentAssumption
  <2>1. ASSUME TakeLock(r) PROVE LockNext
    BY <2>0, <2>1 DEF TakeLock, LockNext
  <2>2. ASSUME LeaveLock(r) PROVE LockNext
    BY <2>0, <2>2 DEF LeaveLock, LockNext
  <2>3. ASSUME ReleaseMutex(r) \/ ReportCleanup(r) PROVE [LockNext]_lockVars
    BY <2>0, <2>3 DEF ReleaseMutex, ReportCleanup, LockNext
  <2>4. ASSUME Dies(r) PROVE [LockNext]_lockVars
    BY <2>0, <2>4 DEF Dies, LockNext
  <2>5. ASSUME Start(r) \/ TakeMutex(r) \/ CheckMarker(r) \/ Claim(r) \/ Inspect(r) \/ Record(r)
               \/ Declare(r) \/ Mark(r) \/ BeginSwitch(r) \/ SwitchUp(r) \/ Validate(r)
        PROVE  UNCHANGED lockVars
    BY <2>5 DEF Start, TakeMutex, CheckMarker, Claim, Inspect, Record, Declare, Mark, BeginSwitch,
                SwitchUp, Validate
  <2>6. ASSUME Point(r) \/ Report(r) \/ Complete(r) \/ StepFails(r) \/ PhaseFails(r) \/ UndoUp(r) \/ UndoValidate(r)
               \/ UndoPoint(r) \/ PointerStays(r) \/ UndoFails(r) \/ Conclude(r) \/ Unmark(r)
               \/ Redispatch(r)
        PROVE  UNCHANGED lockVars
    BY <2>6 DEF Point, Report, Complete, StepFails, PhaseFails, UndoUp, UndoValidate, UndoPoint, PointerStays,
                UndoFails, Conclude, Unmark, Redispatch
  <2> QED
    BY <1>2, <2>1, <2>2, <2>3, <2>4, <2>5, <2>6 DEF Deploy
<1>3. ASSUME NEW p \in Others, Other(p) PROVE LockNext
  BY <1>3 DEF Other, LockNext, DeploymentAssumption
<1>4. ASSUME UNCHANGED vars PROVE UNCHANGED lockVars
  BY <1>4 DEF vars
<1> QED
  BY <1>1, <1>2, <1>3, <1>4 DEF Next

LEMMA LockInductive == ASSUME LockInv, [LockNext]_lockVars PROVE LockInv'
<1>1. ASSUME UNCHANGED lockVars PROVE LockInv'
  BY <1>1 DEF lockVars, LockInv, LockTypeOK, HeldOpen
<1>2. ASSUME LockNext PROVE LockInv'
  BY <1>2, LockStep DEF LockNext
<1> QED
  BY <1>1, <1>2

(* Deployments and the processes of other repositories use the lock file   *)
(* only as ProductionCoordination.psm1 lets them: the deployment           *)
(* implements the specification of the lock.                               *)
THEOREM DeploymentUsesLock == Spec => LockSpec
<1>1. Init => LockInit
  BY DEF Init
<1>2. [Next]_vars => [LockNext]_lockVars
  BY DeploymentAssumption, DeploymentStep
<1> QED
  BY <1>1, <1>2, PTL DEF Spec, LockSpec

(* Nobody ever takes the lock file of a process that is at work, for any   *)
(* number of deployments and of other repositories, whichever of them die. *)
THEOREM LockExcludes == Spec => []HolderHasFile
<1>1. LockInv => HolderHasFile
  BY DEF LockInv, HolderHasFile, HeldOpen
<1> QED
  BY <1>1, LockInitial, LockInductive, DeploymentUsesLock, PTL DEF LockSpec

-----------------------------------------------------------------------------
(* What a deployment may rely on, and what its report says.                *)

Steps == {"idle", "mutex", "lock", "marker", "claim", "inspect", "drill", "state", "mark", "switch",
          "web", "alert", "validate", "point", "report", "complete", "undo web", "undo alert",
          "undo validate", "undo point", "rolled_back", "rollback_failed", "give up", "unmark",
          "leave", "unlock", "cleanup", "end", "dead"}
Reports == {"none", "deploying", "deployed", "rolled_back", "rollback_failed",
            "failed_before_switch", "cleanup_failed"}
Releases == {Base} \cup {Candidate[r] : r \in Runs}
Backs == [release : SUBSET Releases, pointer : SUBSET Releases, stated : BOOLEAN, switched : BOOLEAN,
          pointed : BOOLEAN, marked : BOOLEAN, unclean : BOOLEAN]
Boxes == [release : Releases, id : Nat, healthy : BOOLEAN]
Receipts == [step : {"idle", "web", "alert", "receipt"}, web : Nat, alert : Nat]

RunsTyped ==
    /\ pc \in [Runs -> Steps] /\ report \in [Runs -> Reports] /\ back \in [Runs -> Backs]
    /\ preflight \in [Runs -> Receipts]
HostTyped ==
    /\ mutex \subseteq Runs /\ marker \in BOOLEAN /\ pointer \subseteq Releases
    /\ claimed \subseteq Runs /\ drilled \in BOOLEAN
    /\ running \in [Containers -> Boxes] /\ faults \in Nat
HistoryTyped ==
    /\ validated \subseteq Releases /\ switches \in [Runs -> Nat] /\ last \subseteq Runs
    /\ overturned \subseteq Runs /\ leftover \subseteq Runs
TypeOK == RunsTyped /\ HostTyped /\ HistoryTyped

\* The steps of an attempt: before it claims its request, before it switches,
\* while it switches, while it rolls back.
Early    == {"mutex", "lock", "marker", "claim"}
Before   == {"inspect", "drill", "state", "mark", "switch"}
Forward  == {"web", "alert", "validate", "point", "report", "complete"}
Backward == {"undo web", "undo alert", "undo validate", "undo point", "rolled_back",
             "rollback_failed"}

\* A deployment at work owns the mutexes, and so is the only one; when it has
\* given them up it writes its own state file only.
AtWork(r) == pc[r] \notin {"idle", "mutex", "cleanup", "end", "dead"}
Exclusive == \A r \in Runs : AtWork(r) => mutex = {r}

\* A request is claimed before its one switch.
Once(r) ==
    /\ switches[r] \in {0, 1} /\ (switches[r] = 1 => r \in claimed)
    /\ pc[r] \in Before => r \in claimed
    /\ pc[r] \in Before \cup {"give up"} => switches[r] = 0
    /\ pc[r] \in Early \cup Before \cup {"give up"} => ~back[r].switched /\ ~back[r].pointed
    /\ pc[r] \in Early => ~back[r].stated
    /\ pc[r] \in Forward \cup Backward => back[r].switched /\ r \in last
    /\ back[r].switched => switches[r] = 1
    /\ r \in last => last = {r} /\ switches[r] = 1

\* The run goes back to one release, the one it found, and to the pointer.
Ground(r) ==
    /\ pc[r] # "idle" => preflight[r].step = "receipt"
    /\ pc[r] \in {"drill", "state", "mark", "switch", "web"} => SameBaseline(r) /\ Restored(r)
    /\ pc[r] \in {"drill", "state", "mark", "switch"} \cup Forward \cup Backward =>
           \E x \in Releases : back[r].release = {x}
    /\ pc[r] \in {"drill", "state", "mark", "switch", "web", "alert", "validate", "point"} =>
           pointer = back[r].pointer /\ ~back[r].pointed

\* A pointer names a release that was validated.
Sound ==
    /\ pointer \subseteq validated
    /\ \A r \in Runs :
        /\ back[r].pointer \subseteq validated
        /\ back[r].pointer # {} => back[r].release \subseteq validated
        /\ pc[r] = "point" => Candidate[r] \in validated

\* The pointer is as the run found it, or a first one that could not be removed.
PointerIsBack(r) == pointer = back[r].pointer \/ (r \in leftover /\ back[r].pointer = {})

\* What each step of switching and of rolling back has brought about.
Stage(r) ==
    /\ pc[r] = "alert" => running["web"].release = Candidate[r]
    /\ pc[r] \in {"validate", "point", "report", "complete"} => Run(Candidate[r])
    /\ pc[r] \in {"point", "report", "complete", "undo point", "rolled_back"} => Healthy
    /\ pc[r] \in {"report", "complete"} => pointer = {Candidate[r]} /\ back[r].pointed
    /\ pc[r] \in {"undo web", "undo alert", "undo validate"} /\ ~back[r].pointed =>
           pointer = back[r].pointer
    /\ pc[r] = "undo alert" => \A x \in back[r].release : running["web"].release = x
    /\ pc[r] \in {"undo validate", "undo point", "rolled_back"} => Restored(r)
    /\ pc[r] = "rolled_back" => PointerIsBack(r)

\* What the state file says at each step.
Says(r) ==
    /\ pc[r] \in {"mark", "switch", "web", "alert", "validate", "point", "report"} =>
           report[r] = "deploying"
    /\ pc[r] = "complete" => report[r] = "deployed"
    /\ pc[r] \in Backward =>
           report[r] = "deploying" \/ (report[r] = "deployed" /\ r \in overturned)

\* The state file of the last deployment that switched is true at every step.
Truthful(r) ==
    /\ report[r] \in {"deploying", "deployed", "rolled_back", "rollback_failed", "cleanup_failed"}
    /\ NothingElse(r)
    /\ report[r] = "deployed" /\ r \notin overturned =>
          Healthy /\ Run(Candidate[r]) /\ pointer = {Candidate[r]}
    /\ report[r] = "rolled_back" => Healthy /\ Restored(r) /\ PointerIsBack(r)

IInv ==
    /\ TypeOK /\ Exclusive /\ Sound
    /\ \A r \in Runs : Once(r) /\ Ground(r) /\ Stage(r) /\ Says(r)
    /\ \A r \in last : Truthful(r)

-----------------------------------------------------------------------------
(* Types.  Quiet steps leave alone what is in the back variable, Amending   *)
(* steps write there.                                                      *)

Quiet(q) ==
    \/ TakeMutex(q) \/ TakeLock(q) \/ CheckMarker(q) \/ Claim(q) \/ Declare(q) \/ SwitchUp(q)
    \/ Validate(q) \/ Report(q) \/ Complete(q) \/ StepFails(q) \/ UndoUp(q) \/ UndoValidate(q)
    \/ UndoPoint(q) \/ PointerStays(q) \/ UndoFails(q) \/ Conclude(q) \/ ReleaseMutex(q)
    \/ ReportCleanup(q) \/ Redispatch(q) \/ Dies(q)
Amending(q) ==
    \/ Start(q) \/ Inspect(q) \/ Record(q) \/ Mark(q) \/ BeginSwitch(q) \/ Point(q) \/ PhaseFails(q)
    \/ Unmark(q) \/ LeaveLock(q)

LEMMA QuietOrAmending == ASSUME NEW q, Deploy(q) PROVE Quiet(q) \/ Amending(q)
BY DEF Deploy, Quiet, Amending

LEMMA QuietBack == ASSUME NEW q \in Runs, Quiet(q) PROVE back' = back
BY DEF Quiet, TakeMutex, TakeLock, CheckMarker, Claim, Declare, SwitchUp, Validate, Report, Complete,
       StepFails, UndoUp, UndoValidate, UndoPoint, PointerStays, UndoFails, Conclude, ReleaseMutex,
       ReportCleanup, Redispatch, Dies

LEMMA AmendedBack ==
    ASSUME TypeOK, NEW q \in Runs, Amending(q)
    PROVE  back' \in [Runs -> Backs] /\ \A r \in Runs \ {q} : back'[r] = back[r]
<1>0. back \in [Runs -> Backs] /\ pointer \subseteq Releases /\ running["web"].release \in Releases
  BY DEF TypeOK, RunsTyped, HostTyped, Containers, Boxes
<1>1. ASSUME NEW b \in Backs, back' = [back EXCEPT ![q] = b]
      PROVE  back' \in [Runs -> Backs] /\ \A r \in Runs \ {q} : back'[r] = back[r]
  BY <1>0, <1>1
<1>2. CASE Start(q)
  BY <1>0, <1>1, <1>2 DEF Start, Nothing, Backs
<1>3. CASE Inspect(q)
  BY <1>0, <1>1, <1>3 DEF Inspect, Backs
<1>4. CASE Record(q)
  BY <1>0, <1>1, <1>4 DEF Record, Backs
<1>5. CASE Mark(q)
  BY <1>0, <1>1, <1>5 DEF Mark, Backs
<1>6. CASE BeginSwitch(q)
  BY <1>0, <1>1, <1>6 DEF BeginSwitch, Backs
<1>7. CASE Point(q)
  BY <1>0, <1>1, <1>7 DEF Point, Backs
<1>8. CASE PhaseFails(q)
  BY <1>0, <1>1, <1>8 DEF PhaseFails, Backs
<1>9. CASE Unmark(q)
  BY <1>0, <1>1, <1>9 DEF Unmark, Backs
<1>10. CASE LeaveLock(q)
  BY <1>0, <1>1, <1>10 DEF LeaveLock, Backs
<1> QED
  BY <1>2, <1>3, <1>4, <1>5, <1>6, <1>7, <1>8, <1>9, <1>10 DEF Amending

LEMMA FailureLeads ==
    ASSUME NEW q \in Runs, back \in [Runs -> Backs]
    PROVE  /\ back[q].switched => Failure(q) = "undo web"
           /\ ~back[q].switched => Failure(q) = IF back[q].stated THEN "give up" ELSE "unmark"
BY DEF Failure

LEMMA DeployPc ==
    ASSUME TypeOK, NEW q \in Runs, Deploy(q)
    PROVE  pc' \in [Runs -> Steps] /\ \A r \in Runs \ {q} : pc'[r] = pc[r]
<1>0. pc \in [Runs -> Steps]
  BY DEF TypeOK, RunsTyped
<1>1. ASSUME NEW s \in Steps, Go(q, s)
      PROVE  pc' \in [Runs -> Steps] /\ \A r \in Runs \ {q} : pc'[r] = pc[r]
  BY <1>0, <1>1 DEF Go
<1>2. Failure(q) \in Steps
  BY DEF Failure, Steps
<1>3. CASE Start(q) \/ TakeMutex(q) \/ TakeLock(q) \/ CheckMarker(q) \/ Claim(q) \/ Inspect(q)
  BY <1>1, <1>3 DEF Start, TakeMutex, TakeLock, CheckMarker, Claim, Inspect, Steps
<1>4. CASE Record(q) \/ Declare(q) \/ Mark(q) \/ BeginSwitch(q) \/ SwitchUp(q) \/ Point(q)
  BY <1>1, <1>4 DEF Record, Declare, Mark, BeginSwitch, SwitchUp, Point, Steps
<1>5. CASE Validate(q) \/ Report(q) \/ Complete(q) \/ StepFails(q)
  BY <1>1, <1>2, <1>5 DEF Validate, Report, Complete, StepFails, Steps
<1>6. CASE UndoUp(q) \/ UndoValidate(q) \/ UndoPoint(q) \/ PointerStays(q) \/ UndoFails(q)
  BY <1>1, <1>6 DEF UndoUp, UndoValidate, UndoPoint, PointerStays, UndoFails, Steps
<1>7. CASE PhaseFails(q)
  BY <1>0, <1>7 DEF PhaseFails
<1>8. CASE Conclude(q) \/ Unmark(q) \/ LeaveLock(q) \/ ReleaseMutex(q)
           \/ ReportCleanup(q) \/ Redispatch(q) \/ Dies(q)
  BY <1>1, <1>8 DEF Conclude, Unmark, LeaveLock, ReleaseMutex, ReportCleanup, Redispatch, Dies, Steps
<1> QED
  BY <1>3, <1>4, <1>5, <1>6, <1>7, <1>8 DEF Deploy

LEMMA DeployReport ==
    ASSUME TypeOK, NEW q \in Runs, Deploy(q)
    PROVE  report' \in [Runs -> Reports] /\ \A r \in Runs \ {q} : report'[r] = report[r]
<1>0. report \in [Runs -> Reports]
  BY DEF TypeOK, RunsTyped
<1>1. ASSUME NEW s \in Reports, report' = [report EXCEPT ![q] = s]
      PROVE  report' \in [Runs -> Reports] /\ \A r \in Runs \ {q} : report'[r] = report[r]
  BY <1>0, <1>1
<1>2. CASE Declare(q) \/ Report(q) \/ Conclude(q) \/ ReportCleanup(q)
  BY <1>0, <1>1, <1>2 DEF Declare, Report, Conclude, ReportCleanup, Reports
<1>3. CASE ~(Declare(q) \/ Report(q) \/ Conclude(q) \/ ReportCleanup(q))
  <2>1. UNCHANGED report
    BY <1>3 DEF Deploy, Start, TakeMutex, TakeLock, CheckMarker, Claim, Inspect, Record, Mark,
       BeginSwitch, SwitchUp, Validate, Point, Complete, StepFails, PhaseFails, UndoUp, UndoValidate,
       UndoPoint, PointerStays, UndoFails, Unmark, LeaveLock, ReleaseMutex, Redispatch, Dies
  <2> QED
    BY <1>0, <2>1
<1> QED
  BY <1>2, <1>3

\* Only a switch and a rollback touch the containers, and only the pointer's
\* steps the pointer.
LEMMA DeployHost ==
    ASSUME NEW q \in Runs, Deploy(q)
    PROVE  /\ SwitchUp(q) \/ UndoUp(q) \/ running' = running
           /\ Point(q) \/ UndoPoint(q) \/ pointer' = pointer
           /\ Validate(q) \/ validated' = validated
           /\ BeginSwitch(q) \/ (switches' = switches /\ last' = last)
           /\ StepFails(q) \/ overturned' = overturned
           /\ PointerStays(q) \/ leftover' = leftover
           /\ Claim(q) \/ claimed' = claimed
           /\ TakeMutex(q) \/ ReleaseMutex(q) \/ Dies(q) \/ mutex' = mutex
           /\ preflight' = preflight
<1>1. CASE Start(q) \/ TakeMutex(q) \/ TakeLock(q) \/ CheckMarker(q) \/ Claim(q) \/ Inspect(q)
  BY <1>1 DEF Start, TakeMutex, TakeLock, CheckMarker, Claim, Inspect, Keep, host, history
<1>2. CASE Record(q) \/ Declare(q) \/ Mark(q) \/ BeginSwitch(q) \/ SwitchUp(q) \/ Point(q)
  BY <1>2 DEF Record, Declare, Mark, BeginSwitch, SwitchUp, Point, Keep, host, history
<1>3. CASE Validate(q) \/ Report(q) \/ Complete(q) \/ StepFails(q) \/ PhaseFails(q)
  BY <1>3 DEF Validate, Report, Complete, StepFails, PhaseFails, Keep, host, history
<1>4. CASE UndoUp(q) \/ UndoValidate(q) \/ UndoPoint(q) \/ PointerStays(q) \/ UndoFails(q)
  BY <1>4 DEF UndoUp, UndoValidate, UndoPoint, PointerStays, UndoFails, Keep, host, history
<1>5. CASE Conclude(q) \/ Unmark(q) \/ LeaveLock(q) \/ ReleaseMutex(q)
           \/ ReportCleanup(q) \/ Redispatch(q) \/ Dies(q)
  BY <1>5 DEF Conclude, Unmark, LeaveLock, ReleaseMutex, ReportCleanup, Redispatch, Dies, Keep, host, history
<1> QED
  BY <1>1, <1>2, <1>3, <1>4, <1>5 DEF Deploy

\* A container made anew runs the release it was made for.
LEMMA UpMakes ==
    ASSUME TypeOK, NEW c \in Containers, NEW x \in Releases, Up(c, x)
    PROVE  /\ running' \in [Containers -> Boxes] /\ faults' \in Nat
           /\ running'[c].release = x
           /\ \A d \in Containers \ {c} : running'[d] = running[d]
<1>0. running \in [Containers -> Boxes] /\ faults \in Nat
  BY DEF TypeOK, HostTyped
<1>1. PICK healthy \in BOOLEAN :
        /\ running' = IF running[c].release = x THEN running
                      ELSE [running EXCEPT ![c] = [release |-> x, id |-> @.id + 1, healthy |-> healthy]]
        /\ IF running' # running /\ ~healthy THEN Fault ELSE UNCHANGED faults
  BY DEF Up
<1>2. faults' \in Nat
  BY <1>0, <1>1 DEF Fault
<1>3. CASE running[c].release = x
  BY <1>0, <1>1, <1>2, <1>3
<1>4. CASE running[c].release # x
  <2>1. [release |-> x, id |-> running[c].id + 1, healthy |-> healthy] \in Boxes
    BY <1>0 DEF Boxes
  <2> QED
    BY <1>0, <1>1, <1>2, <1>4, <2>1
<1> QED
  BY <1>3, <1>4

LEMMA DeployTyped ==
    ASSUME TypeOK, NEW q \in Runs, Deploy(q), \A r \in Runs : Once(r)
    PROVE  TypeOK'
<1>0. /\ switches \in [Runs -> Nat] /\ back \in [Runs -> Backs] /\ Candidate[q] \in Releases
      /\ HostTyped /\ HistoryTyped
  BY DEF TypeOK, RunsTyped, HistoryTyped, Releases
<1>1. RunsTyped'
  <2>1. back' \in [Runs -> Backs]
    BY <1>0, QuietOrAmending, QuietBack, AmendedBack
  <2> QED
    BY <2>1, DeployPc, DeployReport, DeployHost DEF TypeOK, RunsTyped
<1>2. running' \in [Containers -> Boxes] /\ faults' \in Nat
  <2>1. CASE SwitchUp(q)
    BY <2>1, <1>0, UpMakes DEF SwitchUp
  <2>2. CASE UndoUp(q)
    <3>1. back[q].release \subseteq Releases
      BY <1>0 DEF Backs
    <3> QED
      BY <2>2, <3>1, UpMakes DEF UndoUp
  <2>3. CASE ~(SwitchUp(q) \/ UndoUp(q))
    <3>1. running' = running
      BY <2>3, DeployHost
    <3>2. faults' = faults \/ Fault
      BY <2>3 DEF Deploy, Start, TakeMutex, TakeLock, CheckMarker, Claim, Inspect, Record, Declare,
         Mark, BeginSwitch, Validate, Point, Report, Complete, StepFails, PhaseFails, UndoValidate,
         UndoPoint, PointerStays, UndoFails, Conclude, Unmark, LeaveLock, ReleaseMutex, ReportCleanup, Redispatch, Dies
    <3> QED
      BY <3>1, <3>2, <1>0 DEF HostTyped, Fault
  <2> QED
    BY <2>1, <2>2, <2>3
<1>3. mutex' \subseteq Runs /\ claimed' \subseteq Runs
  BY <1>0, DeployHost DEF TakeMutex, ReleaseMutex, Dies, Claim, HostTyped
<1>4. pointer' \subseteq Releases
  <2>1. back[q].pointer \subseteq Releases
    BY <1>0 DEF Backs
  <2> QED
    BY <1>0, <2>1, DeployHost DEF Point, UndoPoint, HostTyped
<1>5. marker' \in BOOLEAN /\ drilled' \in BOOLEAN
  <2>1. CASE CheckMarker(q) \/ Mark(q) \/ Unmark(q) \/ Record(q)
    BY <2>1, <1>0 DEF CheckMarker, Mark, Unmark, Record, HostTyped
  <2>2. CASE ~(CheckMarker(q) \/ Mark(q) \/ Unmark(q) \/ Record(q))
    <3>1. marker' = marker /\ drilled' = drilled
      BY <2>2 DEF Deploy, Start, TakeMutex, TakeLock, Claim, Inspect, Declare, BeginSwitch, SwitchUp,
         Validate, Point, Report, Complete, StepFails, PhaseFails, UndoUp, UndoValidate, UndoPoint,
         PointerStays, UndoFails, Conclude, LeaveLock, ReleaseMutex, ReportCleanup, Redispatch, Dies, host
    <3> QED
      BY <3>1, <1>0 DEF HostTyped
  <2> QED
    BY <2>1, <2>2
<1>6. HistoryTyped'
  <2>1. /\ switches' \in [Runs -> Nat] /\ last' \subseteq Runs
    BY <1>0, DeployHost DEF BeginSwitch, HistoryTyped
  <2>2. validated' \subseteq Releases /\ overturned' \subseteq Runs /\ leftover' \subseteq Runs
    BY <1>0, DeployHost DEF Validate, StepFails, PointerStays, HistoryTyped
  <2> QED
    BY <2>1, <2>2 DEF HistoryTyped
<1> QED
  BY <1>1, <1>2, <1>3, <1>4, <1>5, <1>6 DEF TypeOK, HostTyped

-----------------------------------------------------------------------------
(* A run leaves the ground of the others alone. *)

LEMMA Alone ==
    ASSUME Exclusive, NEW q \in Runs, AtWork(q), NEW r \in Runs \ {q}
    PROVE  ~AtWork(r)
BY DEF Exclusive

LEMMA OthersStay ==
    ASSUME TypeOK, NEW q \in Runs, Deploy(q), NEW r \in Runs \ {q}
    PROVE  /\ pc'[r] = pc[r] /\ report'[r] = report[r] /\ back'[r] = back[r]
           /\ switches'[r] = switches[r] /\ preflight' = preflight
<1>1. back'[r] = back[r]
  BY QuietOrAmending, QuietBack, AmendedBack
<1>2. switches'[r] = switches[r]
  BY DeployHost DEF BeginSwitch, TypeOK, HistoryTyped
<1> QED
  BY <1>1, <1>2, DeployPc, DeployReport, DeployHost

\* Nothing but a run at work touches what the invariant speaks of.
LEMMA TouchedAtWork ==
    ASSUME NEW q \in Runs, Deploy(q), ~AtWork(q)
    PROVE  UNCHANGED <<running, pointer, validated, switches, last, overturned, leftover, claimed>>
BY DeployHost DEF SwitchUp, UndoUp, Point, UndoPoint, Validate, BeginSwitch, StepFails, PointerStays,
   Claim, At, AtWork, Containers

LEMMA ExclusiveKept ==
    ASSUME TypeOK, Exclusive, NEW q \in Runs, Deploy(q)
    PROVE  Exclusive'
<1> SUFFICES ASSUME NEW r \in Runs, AtWork(r)' PROVE mutex' = {r}
  BY DEF Exclusive
<1>0. pc \in [Runs -> Steps]
  BY DEF TypeOK, RunsTyped
<1>1. CASE r # q
  <2>1. AtWork(r) /\ mutex = {r} /\ ~AtWork(q)
    BY <1>1, OthersStay DEF AtWork, Exclusive
  <2>2. ~TakeMutex(q) \/ mutex' = mutex
    BY <2>1 DEF TakeMutex
  <2>3. ~ReleaseMutex(q) /\ (Dies(q) => mutex' = mutex)
    BY <1>1, <2>1 DEF ReleaseMutex, Dies, At, AtWork
  <2> QED
    BY <2>1, <2>2, <2>3, DeployHost
<1>2. CASE r = q
  <2>1. CASE TakeMutex(q)
    BY <2>1, <1>0, <1>2 DEF TakeMutex, Go, AtWork
  <2>2. CASE ReleaseMutex(q) \/ ReportCleanup(q) \/ Dies(q) \/ Redispatch(q) \/ Start(q)
    BY <2>2, <1>0, <1>2 DEF ReleaseMutex, ReportCleanup, Dies, Redispatch, Start, Go, AtWork
  <2>3. CASE ~(TakeMutex(q) \/ ReleaseMutex(q) \/ ReportCleanup(q) \/ Dies(q) \/ Redispatch(q) \/ Start(q))
    <3>1. AtWork(q)
      BY <2>3 DEF Deploy, TakeLock, CheckMarker, Claim, Inspect, Record, Declare, Mark, BeginSwitch,
         SwitchUp, Validate, Point, Report, Complete, StepFails, PhaseFails, UndoUp, UndoValidate,
         UndoPoint, PointerStays, UndoFails, Conclude, Unmark, LeaveLock, At, AtWork, Containers
    <3> QED
      BY <3>1, <2>3, <1>2, DeployHost DEF Exclusive
  <2> QED
    BY <2>1, <2>2, <2>3
<1> QED
  BY <1>1, <1>2

\* The other runs: their part of the invariant stays.
LEMMA OthersKept ==
    ASSUME IInv, NEW q \in Runs, Deploy(q), NEW r \in Runs \ {q}
    PROVE  (Once(r) /\ Ground(r) /\ Stage(r) /\ Says(r))'
<1>0. Once(r) /\ Ground(r) /\ Stage(r) /\ Says(r) /\ TypeOK /\ Exclusive
  BY DEF IInv
<1>1. /\ pc'[r] = pc[r] /\ report'[r] = report[r] /\ back'[r] = back[r]
      /\ switches'[r] = switches[r] /\ preflight' = preflight
  BY <1>0, OthersStay
<1>2. claimed \subseteq claimed'
  BY DeployHost DEF Claim
<1>3. CASE AtWork(q)
  <2>1. pc[r] \in {"idle", "mutex", "cleanup", "end", "dead"}
    BY <1>0, <1>3, Alone DEF AtWork
  <2>2. r \in last' => last' = {r} /\ switches[r] = 1
    BY <1>0, DeployHost DEF BeginSwitch, Once
  <2>3. Once(r)'
    BY <1>0, <1>1, <1>2, <2>1, <2>2 DEF Once, Early, Before, Forward, Backward
  <2> QED
    BY <1>0, <1>1, <2>1, <2>3 DEF Ground, Stage, Says, Before, Forward, Backward
<1>4. CASE ~AtWork(q)
  <2>1. UNCHANGED <<running, pointer, validated, switches, last, overturned, leftover, claimed>>
    BY <1>4, TouchedAtWork
  <2>2. Once(r)' /\ Says(r)'
    BY <1>0, <1>1, <2>1 DEF Once, Says
  <2>3. Ground(r)'
    BY <1>0, <1>1, <2>1 DEF Ground, SameBaseline, Restored, Run
  <2>4. Stage(r)'
    BY <1>0, <1>1, <2>1 DEF Stage, PointerIsBack, Healthy, Restored, Run
  <2> QED
    BY <2>2, <2>3, <2>4
<1> QED
  BY <1>3, <1>4

-----------------------------------------------------------------------------
(* The run that moves: its own part of the invariant. *)

LEMMA OnceKept ==
    ASSUME IInv, NEW q \in Runs, Deploy(q)
    PROVE  Once(q)'
<1>0. /\ pc \in [Runs -> Steps] /\ back \in [Runs -> Backs] /\ switches \in [Runs -> Nat]
      /\ Once(q)
  BY DEF IInv, TypeOK, RunsTyped, HistoryTyped
<1>1. CASE Start(q)
  <2>1. ~back'[q].switched /\ ~back'[q].pointed /\ ~back'[q].stated
    BY <1>0, <1>1 DEF Start, Nothing
  <2>2. pc'[q] \in {"end", "mutex"}
    BY <1>0, <1>1 DEF Start, Go
  <2>3. UNCHANGED <<switches, last, claimed>>
    BY <1>1, DeployHost DEF Start, BeginSwitch, Claim, At
  <2> QED
    BY <1>0, <2>1, <2>2, <2>3 DEF Once, Early, Before, Forward, Backward
<1>2. CASE Claim(q)
  <2>1. UNCHANGED <<back, switches, last>> /\ claimed' = claimed \cup {q} /\ pc[q] = "claim"
    BY <1>2, DeployHost, QuietBack DEF Claim, BeginSwitch, At, Quiet
  <2>2. pc'[q] = IF q \in claimed THEN "unmark" ELSE "inspect"
    BY <1>0, <1>2 DEF Claim, Go
  <2> QED
    BY <1>0, <2>1, <2>2 DEF Once, Early, Before, Forward, Backward
<1>3. CASE BeginSwitch(q)
  <2>1. /\ switches'[q] = switches[q] + 1 /\ last' = {q} /\ claimed' = claimed /\ pc[q] = "switch"
        /\ pc'[q] = "web" /\ back'[q].switched
    BY <1>0, <1>3 DEF BeginSwitch, At, Go, Backs, host
  <2> QED
    BY <1>0, <2>1 DEF Once, Early, Before, Forward, Backward
<1>4. CASE TakeMutex(q) \/ TakeLock(q) \/ CheckMarker(q) \/ Redispatch(q) \/ Dies(q) \/ Unmark(q)
           \/ LeaveLock(q) \/ ReleaseMutex(q) \/ ReportCleanup(q) \/ Conclude(q) \/ Complete(q)
  <2>1. /\ UNCHANGED <<switches, last, claimed>>
        /\ back'[q].switched = back[q].switched /\ back'[q].pointed = back[q].pointed
        /\ back'[q].stated = back[q].stated
    BY <1>0, <1>4 DEF TakeMutex, TakeLock, CheckMarker, Redispatch, Dies, Unmark, LeaveLock,
       ReleaseMutex, ReportCleanup, Conclude, Complete, Keep, host, history, Backs
  <2>2. \/ pc[q] = "mutex" /\ pc'[q] \in {"lock", "end"}
        \/ pc[q] = "lock" /\ pc'[q] \in {"marker", "unlock", "lock"}
        \/ pc[q] = "marker" /\ pc'[q] \in {"claim", "unmark"}
        \/ pc'[q] \in {"idle", "dead", "unmark", "leave", "unlock", "cleanup", "end"}
    BY <1>0, <1>4 DEF TakeMutex, TakeLock, CheckMarker, Redispatch, Dies, Unmark, LeaveLock,
       ReleaseMutex, ReportCleanup, Conclude, Complete, At, Go
  <2> QED
    BY <1>0, <2>1, <2>2 DEF Once, Early, Before, Forward, Backward
<1>5. CASE Inspect(q) \/ Record(q) \/ Declare(q) \/ Mark(q)
  <2>1. UNCHANGED <<switches, last, claimed>>
    BY <1>5 DEF Inspect, Record, Declare, Mark, Keep, host, history
  <2>2. back'[q].switched = back[q].switched /\ back'[q].pointed = back[q].pointed
    BY <1>0, <1>5 DEF Inspect, Record, Declare, Mark, Backs
  <2>3. pc[q] \in Before /\ pc'[q] \in Before \cup {"unmark"}
    BY <1>0, <1>5 DEF Inspect, Record, Declare, Mark, At, Go, Before
  <2> QED
    BY <1>0, <2>1, <2>2, <2>3 DEF Once, Early, Before, Forward, Backward
<1>6. CASE SwitchUp(q) \/ Validate(q) \/ Point(q) \/ Report(q) \/ UndoUp(q) \/ UndoValidate(q)
           \/ UndoPoint(q) \/ PointerStays(q) \/ UndoFails(q)
  <2>1. UNCHANGED <<switches, last, claimed>>
    BY <1>6 DEF SwitchUp, Validate, Point, Report, UndoUp, UndoValidate, UndoPoint, PointerStays,
       UndoFails, Keep, host, history
  <2>2. back'[q].switched = back[q].switched
    BY <1>0, <1>6 DEF SwitchUp, Validate, Point, Report, UndoUp, UndoValidate, UndoPoint,
       PointerStays, UndoFails, Backs
  <2>3. pc[q] \in Forward \cup Backward
    BY <1>6 DEF SwitchUp, Validate, Point, Report, UndoUp, UndoValidate, UndoPoint, PointerStays,
       UndoFails, At, Forward, Backward, Containers
  <2>4. pc'[q] \in Forward \cup Backward
    <3>1. back[q].switched
      BY <1>0, <2>3 DEF Once
    <3> QED
      BY <1>0, <1>6, <3>1, FailureLeads DEF SwitchUp, Validate, Point, Report, UndoUp, UndoValidate,
         UndoPoint, PointerStays, UndoFails, Go, Forward, Backward
  <2> QED
    BY <1>0, <2>1, <2>2, <2>3, <2>4 DEF Once, Early, Before, Forward, Backward
<1>7. CASE StepFails(q)
  <2>1. UNCHANGED <<back, switches, last, claimed>> /\ pc'[q] = Failure(q)
    BY <1>0, <1>7 DEF StepFails, Go, host
  <2>2. pc[q] \in {"claim"} \cup Before \cup Forward
    BY <1>7 DEF StepFails, Before, Forward
  <2>3. CASE back[q].switched
    <3>1. pc[q] \in Forward /\ pc'[q] = "undo web"
      BY <1>0, <2>1, <2>2, <2>3, FailureLeads DEF Once, Early
    <3> QED
      BY <1>0, <2>1, <3>1 DEF Once, Early, Before, Forward, Backward
  <2>4. CASE ~back[q].switched
    <3>1. pc[q] \in {"claim"} \cup Before
      BY <1>0, <2>2, <2>4 DEF Once
    <3>2. pc'[q] \in {"give up", "unmark"} /\ (pc[q] = "claim" => pc'[q] = "unmark")
      BY <1>0, <2>1, <2>4, FailureLeads DEF Once, Early
    <3> QED
      BY <1>0, <2>1, <3>1, <3>2 DEF Once, Early, Before, Forward, Backward
  <2> QED
    BY <2>3, <2>4
<1>8. CASE PhaseFails(q)
  <2>1. UNCHANGED <<pc, switches, last, claimed>> /\ back'[q] = [back[q] EXCEPT !.unclean = TRUE]
    BY <1>0, <1>8 DEF PhaseFails, Keep, host, history
  <2>2. /\ back'[q].switched = back[q].switched /\ back'[q].pointed = back[q].pointed
        /\ back'[q].stated = back[q].stated
    BY <1>0, <2>1 DEF Backs
  <2> QED
    BY <1>0, <2>1, <2>2 DEF Once
<1> QED
  BY <1>1, <1>2, <1>3, <1>4, <1>5, <1>6, <1>7, <1>8 DEF Deploy

LEMMA SaysKept ==
    ASSUME IInv, NEW q \in Runs, Deploy(q)
    PROVE  Says(q)'
<1>0. /\ pc \in [Runs -> Steps] /\ report \in [Runs -> Reports] /\ back \in [Runs -> Backs]
      /\ Says(q) /\ Once(q)
  BY DEF IInv, TypeOK, RunsTyped
<1>1. CASE Start(q) \/ TakeMutex(q) \/ TakeLock(q) \/ CheckMarker(q) \/ Claim(q) \/ Inspect(q)
           \/ Record(q) \/ Complete(q) \/ Conclude(q) \/ Unmark(q) \/ LeaveLock(q) \/ ReleaseMutex(q)
           \/ ReportCleanup(q) \/ Redispatch(q) \/ Dies(q)
  <2>1. pc'[q] \in Early \cup {"inspect", "drill", "state", "idle", "dead", "unmark", "leave", "unlock",
                              "cleanup", "end"}
    BY <1>0, <1>1 DEF Start, TakeMutex, TakeLock, CheckMarker, Claim, Inspect, Record, Complete,
       Conclude, Unmark, LeaveLock, ReleaseMutex, ReportCleanup, Redispatch, Dies, Go, Early
  <2> QED
    BY <2>1 DEF Says, Early, Backward
<1>2. CASE Declare(q)
  BY <1>0, <1>2 DEF Declare, Says, Go, Backward
<1>3. CASE Mark(q) \/ BeginSwitch(q) \/ SwitchUp(q) \/ Point(q)
  <2>1. /\ report' = report /\ pc[q] \in {"mark", "switch", "web", "alert", "point"}
        /\ pc'[q] \in {"switch", "web", "alert", "validate", "report"}
    BY <1>0, <1>3 DEF Mark, BeginSwitch, SwitchUp, Point, At, Go, Containers
  <2> QED
    BY <1>0, <2>1 DEF Says, Backward
<1>4. CASE Report(q)
  BY <1>0, <1>4 DEF Report, Says, Go, Backward
<1>5. CASE Validate(q) \/ StepFails(q)
  <2>1. /\ report' = report
        /\ (pc[q] = "validate" /\ pc'[q] = "point") \/ pc'[q] = Failure(q)
        /\ pc[q] \in {"claim"} \cup Before \cup Forward
        /\ pc[q] = "complete" => q \in overturned'
    BY <1>0, <1>5 DEF Validate, StepFails, At, Go, Before, Forward
  <2>2. CASE pc'[q] = "point"
    <3>1. pc[q] = "validate"
      BY <1>0, <2>1, <2>2, FailureLeads DEF Once
    <3> QED
      BY <1>0, <2>1, <2>2, <3>1 DEF Says, Backward
  <2>3. CASE pc'[q] = "undo web"
    <3>1. back[q].switched
      BY <1>0, <2>1, <2>3, FailureLeads
    <3>2. pc[q] \in Forward
      BY <1>0, <2>1, <3>1 DEF Once, Early
    <3> QED
      BY <1>0, <2>1, <2>3, <3>2 DEF Says, Forward
  <2>4. CASE pc'[q] \in {"give up", "unmark"}
    BY <2>4 DEF Says, Backward
  <2> QED
    BY <1>0, <2>1, <2>2, <2>3, <2>4, FailureLeads
<1>6. CASE UndoUp(q) \/ UndoValidate(q) \/ UndoPoint(q) \/ PointerStays(q) \/ UndoFails(q)
  <2>1. report' = report /\ overturned' = overturned /\ pc[q] \in Backward /\ pc'[q] \in Backward
    BY <1>0, <1>6 DEF UndoUp, UndoValidate, UndoPoint, PointerStays, UndoFails, At, Go, Backward, Keep,
       history, Containers
  <2> QED
    BY <1>0, <2>1 DEF Says, Backward
<1>7. CASE PhaseFails(q)
  BY <1>0, <1>7 DEF PhaseFails, Says, Keep, history
<1> QED
  BY <1>1, <1>2, <1>3, <1>4, <1>5, <1>6, <1>7 DEF Deploy

\* Both containers run what the release of the web container is, if they run one.
LEMMA OneReleaseIs ==
    ASSUME OneRelease
    PROVE  Run(running["web"].release)
BY DEF OneRelease, Run, Containers

LEMMA ReceiptKept ==
    ASSUME IInv, NEW q \in Runs, Deploy(q), pc'[q] # "idle"
    PROVE  preflight'[q].step = "receipt"
<1>1. CASE Start(q)
  BY <1>1 DEF Start
<1>2. CASE ~Start(q)
  <2>1. pc[q] # "idle"
    BY <1>2 DEF Deploy, TakeMutex, TakeLock, CheckMarker, Claim, Inspect, Record, Declare, Mark,
       BeginSwitch, SwitchUp, Validate, Point, Report, Complete, StepFails, PhaseFails, UndoUp,
       UndoValidate, UndoPoint, PointerStays, UndoFails, Conclude, Unmark, LeaveLock, ReleaseMutex,
       ReportCleanup, Redispatch, Dies, At, Containers
  <2> QED
    BY <2>1, DeployHost DEF IInv, Ground
<1> QED
  BY <1>1, <1>2

LEMMA GroundStageKept ==
    ASSUME IInv, NEW q \in Runs, Deploy(q)
    PROVE  Ground(q)' /\ Stage(q)'
<1>0. /\ pc \in [Runs -> Steps] /\ back \in [Runs -> Backs] /\ running \in [Containers -> Boxes]
      /\ pointer \subseteq Releases /\ preflight' = preflight
      /\ Once(q) /\ Ground(q) /\ Stage(q)
      /\ pc'[q] # "idle" => preflight'[q].step = "receipt"
  BY ReceiptKept, DeployHost DEF IInv, TypeOK, RunsTyped, HostTyped
<1>1. ASSUME pc'[q] \in Early \cup {"inspect", "give up", "idle", "dead", "unmark", "leave", "unlock", "cleanup", "end"}
      PROVE  Ground(q)' /\ Stage(q)'
  BY <1>0, <1>1 DEF Ground, Stage, Early, Forward, Backward
\* Steps that stay on the ground they found: nothing moves but the step.
<1>2. ASSUME running' = running, pointer' = pointer,
             back'[q].release = back[q].release, back'[q].pointer = back[q].pointer,
             back'[q].pointed = back[q].pointed
      PROVE  /\ Restored(q)' = Restored(q) /\ SameBaseline(q)' = SameBaseline(q)
             /\ Healthy' = Healthy /\ \A x : Run(x)' = Run(x)
  BY <1>0, <1>2 DEF Restored, SameBaseline, Run, Healthy
<1>3. CASE Start(q) \/ TakeMutex(q) \/ TakeLock(q) \/ CheckMarker(q) \/ Claim(q) \/ Complete(q)
           \/ Conclude(q) \/ Unmark(q) \/ LeaveLock(q) \/ ReleaseMutex(q)
           \/ ReportCleanup(q) \/ Redispatch(q) \/ Dies(q)
  BY <1>0, <1>1, <1>3 DEF Start, TakeMutex, TakeLock, CheckMarker, Claim, Complete, Conclude, Unmark,
     LeaveLock, ReleaseMutex, ReportCleanup, Redispatch, Dies, Go, Early
<1>4. CASE Inspect(q)
  <2>1. CASE pc'[q] = "unmark"
    BY <2>1, <1>1
  <2>2. CASE pc'[q] # "unmark"
    <3>1. /\ pc'[q] = "drill" /\ running' = running /\ pointer' = pointer
          /\ SameBaseline(q) /\ OneRelease /\ pc[q] = "inspect"
          /\ back' = [back EXCEPT ![q].release = {running["web"].release}, ![q].pointer = pointer]
      BY <1>0, <1>4, <2>2 DEF Inspect, At, Go, Keep, host
    <3>2. back'[q].release = {running["web"].release} /\ back'[q].pointer = pointer
          /\ back'[q].pointed = back[q].pointed
      BY <1>0, <3>1 DEF Backs
    <3>3. ~back[q].pointed /\ running["web"].release \in Releases
      BY <1>0, <3>1 DEF Once, Before, Containers, Boxes
    <3>4. Restored(q)'
      BY <3>1, <3>2, OneReleaseIs DEF Restored, Run
    <3>5. SameBaseline(q)'
      BY <1>0, <3>1 DEF SameBaseline
    <3> QED
      BY <1>0, <3>1, <3>2, <3>3, <3>4, <3>5 DEF Ground, Stage
  <2> QED
    BY <2>1, <2>2
<1>5. CASE Record(q) \/ Declare(q) \/ Mark(q) \/ BeginSwitch(q)
  <2>1. CASE pc'[q] = "unmark"
    BY <2>1, <1>1
  <2>2. CASE pc'[q] # "unmark"
    <3>1. /\ running' = running /\ pointer' = pointer
          /\ pc[q] \in {"drill", "state", "mark", "switch"}
          /\ pc'[q] \in {"state", "mark", "switch", "web"}
      BY <1>0, <1>5, <2>2 DEF Record, Declare, Mark, BeginSwitch, At, Go, Keep, host
    <3>2. /\ back'[q].release = back[q].release /\ back'[q].pointer = back[q].pointer
          /\ back'[q].pointed = back[q].pointed
      BY <1>0, <1>5 DEF Record, Declare, Mark, BeginSwitch, Backs
    <3> QED
      BY <1>0, <1>2, <3>1, <3>2 DEF Ground, Stage
  <2> QED
    BY <2>1, <2>2
<1>6. CASE SwitchUp(q)
  <2>0. Candidate[q] \in Releases /\ pointer' = pointer /\ back' = back
    BY <1>6 DEF Releases, SwitchUp, host
  <2>1. CASE At(q, "web")
    <3>1. running'["web"].release = Candidate[q] /\ pc'[q] = "alert" /\ pc[q] = "web"
      BY <1>0, <1>6, <2>0, <2>1, UpMakes DEF SwitchUp, At, Go, IInv
    <3> QED
      BY <1>0, <2>0, <3>1 DEF Ground, Stage, Forward
  <2>2. CASE At(q, "alert")
    <3>1. /\ pc'[q] = "validate" /\ pc[q] = "alert" /\ running'["alert"].release = Candidate[q]
          /\ running'["web"] = running["web"]
      BY <1>0, <1>6, <2>0, <2>2, UpMakes DEF SwitchUp, At, Go, Containers, IInv
    <3>2. Run(Candidate[q])'
      BY <1>0, <3>1 DEF Stage, Run, Containers
    <3> QED
      BY <1>0, <2>0, <3>1, <3>2 DEF Ground, Stage, Forward
  <2> QED
    BY <2>1, <2>2, <1>6 DEF SwitchUp, Containers
<1>7. CASE Validate(q) \/ StepFails(q)
  <2>1. running' = running /\ pointer' = pointer /\ back' = back
    BY <1>7 DEF Validate, StepFails, host
  <2>2. /\ pc'[q] = Failure(q) \/ (pc'[q] = "point" /\ pc[q] = "validate")
        /\ pc[q] \in {"claim"} \cup Before \cup Forward
    BY <1>0, <1>7 DEF Validate, StepFails, At, Go, Before, Forward
  <2>3. CASE ~back[q].switched
    <3>1. pc'[q] \in {"give up", "unmark"}
      BY <1>0, <2>2, <2>3, FailureLeads DEF Once, Forward
    <3> QED
      BY <1>1, <3>1
  <2>4. CASE back[q].switched
    <3>1. pc[q] \in Forward /\ pc'[q] \in {"undo web", "point"} /\ (pc'[q] = "point" => pc[q] = "validate")
      BY <1>0, <2>2, <2>4, FailureLeads DEF Once, Early
    <3>2. CASE pc'[q] = "point"
      <4>1. Healthy
        BY <1>0, <1>7, <3>1, <3>2, <2>4, FailureLeads DEF Validate, StepFails, Go
      <4> QED
        BY <1>0, <1>2, <2>1, <3>1, <3>2, <4>1 DEF Ground, Stage, Forward
    <3>3. CASE pc'[q] = "undo web"
      <4>1. ~back[q].pointed => pointer = back[q].pointer
        BY <1>0, <3>1 DEF Ground, Stage, Forward
      <4> QED
        BY <1>0, <2>1, <3>1, <3>3, <4>1 DEF Ground, Stage, Forward, Backward
    <3> QED
      BY <3>1, <3>2, <3>3
  <2> QED
    BY <2>3, <2>4
<1>8. CASE Point(q)
  <2>1. /\ pc[q] = "point" /\ pc'[q] = "report" /\ running' = running /\ pointer' = {Candidate[q]}
        /\ back'[q].pointed /\ back'[q].release = back[q].release
    BY <1>0, <1>8 DEF Point, At, Go, Keep, Backs
  <2>2. Run(Candidate[q])' /\ Healthy'
    BY <1>0, <2>1 DEF Stage, Run, Healthy
  <2> QED
    BY <1>0, <2>1, <2>2 DEF Ground, Stage, Forward
<1>9. CASE Report(q)
  <2>1. /\ pc[q] = "report" /\ pc'[q] = "complete" /\ running' = running /\ pointer' = pointer
        /\ back' = back
    BY <1>0, <1>9 DEF Report, At, Go, Keep, host
  <2> QED
    BY <1>0, <1>2, <2>1 DEF Ground, Stage, Forward
<1>10. CASE PhaseFails(q)
  <2>1. /\ pc' = pc /\ running' = running /\ pointer' = pointer
        /\ back'[q].release = back[q].release /\ back'[q].pointer = back[q].pointer
        /\ back'[q].pointed = back[q].pointed /\ leftover' = leftover /\ preflight' = preflight
    BY <1>0, <1>10 DEF PhaseFails, Keep, host, history, Backs
  <2>2. /\ Restored(q)' <=> Restored(q)
        /\ Healthy' <=> Healthy
        /\ SameBaseline(q)' <=> SameBaseline(q)
        /\ Run(Candidate[q])' <=> Run(Candidate[q])
        /\ PointerIsBack(q)' <=> PointerIsBack(q)
    BY <2>1 DEF Restored, Healthy, SameBaseline, Run, PointerIsBack
  <2> QED
    BY <1>0, <1>2, <2>1, <2>2 DEF Ground, Stage
<1>11. CASE UndoUp(q)
  <2>0. pointer' = pointer /\ back' = back /\ back[q].release \subseteq Releases
    BY <1>0, <1>11 DEF UndoUp, host, Backs
  <2>1. PICK c \in Containers, release \in back[q].release :
          /\ At(q, IF c = "web" THEN "undo web" ELSE "undo alert")
          /\ Up(c, release)
          /\ Go(q, IF c = "web" THEN "undo alert" ELSE "undo validate")
    BY <1>11 DEF UndoUp
  <2>2. back[q].release = {release}
    BY <1>0, <2>1 DEF Ground, At, Backward
  <2>3. /\ running'[c].release = release
        /\ \A d \in Containers \ {c} : running'[d] = running[d]
    BY <2>0, <2>1, UpMakes DEF IInv
  <2>4. CASE c = "web"
    <3>1. pc[q] = "undo web" /\ pc'[q] = "undo alert"
      BY <1>0, <2>1, <2>4 DEF At, Go
    <3> QED
      BY <1>0, <2>0, <2>2, <2>3, <2>4, <3>1 DEF Ground, Stage, Backward
  <2>5. CASE c = "alert"
    <3>1. pc[q] = "undo alert" /\ pc'[q] = "undo validate"
      BY <1>0, <2>1, <2>5 DEF At, Go
    <3>2. running'["web"].release = release
      BY <1>0, <2>2, <2>3, <2>5, <3>1 DEF Stage, Containers
    <3>3. Restored(q)'
      BY <2>0, <2>2, <2>3, <2>5, <3>2 DEF Restored, Run, Containers
    <3> QED
      BY <1>0, <2>0, <3>1, <3>3 DEF Ground, Stage, Backward
  <2> QED
    BY <2>4, <2>5 DEF Containers
<1>12. CASE UndoValidate(q) \/ PointerStays(q) \/ UndoFails(q)
  <2>1. running' = running /\ pointer' = pointer /\ back' = back
    BY <1>12 DEF UndoValidate, PointerStays, UndoFails, Keep, host
  <2>2. \/ pc'[q] = "rollback_failed"
        \/ pc[q] = "undo validate" /\ Healthy /\ back[q].pointed /\ pc'[q] = "undo point"
        \/ pc[q] = "undo validate" /\ Healthy /\ ~back[q].pointed /\ pc'[q] = "rolled_back"
        \/ pc[q] = "undo point" /\ q \in leftover' /\ back[q].pointer = {} /\ pc'[q] = "rolled_back"
    BY <1>0, <1>12 DEF UndoValidate, PointerStays, UndoFails, At, Go
  <2>3. pc[q] \in Backward
    BY <1>12 DEF UndoValidate, PointerStays, UndoFails, At, Backward
  <2> QED
    BY <1>0, <1>2, <2>1, <2>2, <2>3 DEF Ground, Stage, PointerIsBack, Forward, Backward
<1>13. CASE UndoPoint(q)
  <2>1. /\ pc[q] = "undo point" /\ pc'[q] = "rolled_back" /\ running' = running
        /\ pointer' = back[q].pointer /\ back' = back
    BY <1>0, <1>13 DEF UndoPoint, At, Go, Keep
  <2>2. Restored(q)' /\ Healthy'
    BY <1>0, <2>1 DEF Stage, Restored, Run, Healthy
  <2> QED
    BY <1>0, <2>1, <2>2 DEF Ground, Stage, PointerIsBack, Forward, Backward
<1> QED
  BY <1>3, <1>4, <1>5, <1>6, <1>7, <1>8, <1>9, <1>10, <1>11, <1>12, <1>13 DEF Deploy

\* Only Inspect writes down what a rollback goes back to.
LEMMA BackKeeps ==
    ASSUME TypeOK, NEW q \in Runs, Deploy(q), ~Inspect(q), NEW r \in Runs
    PROVE  back'[r].release = back[r].release /\ back'[r].pointer = back[r].pointer
<1>0. back \in [Runs -> Backs]
  BY DEF TypeOK, RunsTyped
<1>1. CASE Start(q)
  BY <1>0, <1>1 DEF Start, Nothing
<1>2. CASE Record(q) \/ Mark(q) \/ BeginSwitch(q) \/ Point(q)
  BY <1>0, <1>2 DEF Record, Mark, BeginSwitch, Point, Backs
<1>3. CASE PhaseFails(q) \/ Unmark(q) \/ LeaveLock(q)
  <2>1. \A u \in BOOLEAN : LET b == [back[q] EXCEPT !.unclean = u]
                          IN  b.release = back[q].release /\ b.pointer = back[q].pointer
    BY <1>0 DEF Backs
  <2>2. back' = back \/ \E u : back' = [back EXCEPT ![q] = [back[q] EXCEPT !.unclean = u]]
    BY <1>3 DEF PhaseFails, Unmark, LeaveLock
  <2> QED
    BY <1>0, <2>1, <2>2 DEF Backs
<1>4. CASE Quiet(q)
  BY <1>4, QuietBack
<1> QED
  BY <1>1, <1>2, <1>3, <1>4, QuietOrAmending DEF Amending

LEMMA SoundKept ==
    ASSUME IInv, NEW q \in Runs, Deploy(q)
    PROVE  Sound'
<1>0. /\ pc \in [Runs -> Steps] /\ back \in [Runs -> Backs] /\ TypeOK /\ Sound /\ Ground(q)
      /\ running \in [Containers -> Boxes]
  BY DEF IInv, TypeOK, RunsTyped, HostTyped
<1>1. validated \subseteq validated'
  BY DeployHost DEF Validate
<1>2. pointer' \subseteq validated
  BY <1>0, DeployHost DEF Point, UndoPoint, At, Sound
<1>3. ASSUME NEW r \in Runs
      PROVE  /\ back'[r].pointer \subseteq validated
             /\ back'[r].pointer # {} => back'[r].release \subseteq validated
  <2>1. CASE ~Inspect(q)
    BY <1>0, <1>3, <2>1, BackKeeps DEF Sound
  <2>2. CASE Inspect(q) /\ back' # back /\ r = q
    <3>1. /\ PointerAgrees
          /\ back' = [back EXCEPT ![q].release = {running["web"].release}, ![q].pointer = pointer]
      BY <2>2 DEF Inspect
    <3>2. back'[q].release = {running["web"].release} /\ back'[q].pointer = pointer
      BY <1>0, <3>1 DEF Backs
    <3>3. \A x \in pointer : x = running["web"].release
      BY <3>1 DEF PointerAgrees, Run, Containers
    <3> QED
      BY <1>0, <2>2, <3>2, <3>3 DEF Sound
  <2>3. CASE Inspect(q) /\ (back' = back \/ r # q)
    BY <1>0, <1>3, <2>3, OthersStay DEF Sound
  <2> QED
    BY <2>1, <2>2, <2>3
<1>4. ASSUME NEW r \in Runs, pc'[r] = "point" PROVE Candidate[r] \in validated'
  <2>1. CASE r # q
    BY <1>0, <1>1, <1>4, <2>1, OthersStay DEF Sound
  <2>2. CASE r = q
    <3>1. Validate(q) \/ PhaseFails(q)
      BY <1>0, <1>4, <2>2, FailureLeads DEF Deploy, Start, TakeMutex, TakeLock, CheckMarker, Claim,
         Inspect, Record, Declare, Mark, BeginSwitch, SwitchUp, Point, Report, Complete, StepFails,
         UndoUp, UndoValidate, UndoPoint, PointerStays, UndoFails, Conclude, Unmark, LeaveLock,
         ReleaseMutex, ReportCleanup, Redispatch, Dies, Go
    <3>2. ~PhaseFails(q)
      BY <1>4, <2>2 DEF PhaseFails
    <3> QED
      BY <1>0, <1>4, <2>2, <3>1, <3>2, FailureLeads DEF Validate, Go
  <2> QED
    BY <2>1, <2>2
<1> QED
  BY <1>1, <1>2, <1>3, <1>4 DEF Sound

LEMMA LastHasSwitched ==
    ASSUME NEW q \in last, Once(q)
    PROVE  pc[q] \notin Before /\ pc[q] # "give up"
<1>1. switches[q] = 1
  BY DEF Once
<1>2. pc[q] \in Before \cup {"give up"} => switches[q] = 0
  BY DEF Once
<1>3. 0 # 1
  OBVIOUS
<1>4. switches[q] # 0
  BY <1>1, <1>3
<1>5. pc[q] \notin Before \cup {"give up"}
  BY <1>2, <1>4
<1> QED
  BY <1>5

\* What a run has switched or brought back is the candidate or what it found.
LEMMA NothingElseKept ==
    ASSUME IInv, NEW q \in Runs, Deploy(q), NEW r \in last'
    PROVE  NothingElse(r)'
<1>0. /\ pc \in [Runs -> Steps] /\ back \in [Runs -> Backs] /\ TypeOK /\ last \subseteq Runs
      /\ Once(q) /\ Ground(q) /\ \A p \in last : NothingElse(p)
  BY DEF IInv, TypeOK, RunsTyped, HistoryTyped, Truthful
<1>1. CASE BeginSwitch(q)
  <2>1. /\ r = q /\ running' = running /\ pointer' = pointer /\ pc[q] = "switch"
    BY <1>1 DEF BeginSwitch, At, host
  <2>2. back'[q].release = back[q].release /\ back'[q].pointer = back[q].pointer
    BY <1>0, <1>1, BackKeeps DEF BeginSwitch, Inspect, At
  <2>3. PICK x \in Releases : back[q].release = {x}
    BY <1>0, <2>1 DEF Ground
  <2>4. Run(x) /\ pointer = back[q].pointer
    BY <1>0, <2>1, <2>3 DEF Ground, Restored
  <2> QED
    BY <2>1, <2>2, <2>3, <2>4 DEF NothingElse, Run
<1>2. CASE ~BeginSwitch(q)
  <2>0. r \in last /\ r \in Runs /\ NothingElse(r)
    BY <1>0, <1>2, DeployHost
  <2>1. back'[r].release = back[r].release /\ back'[r].pointer = back[r].pointer
    <3>1. CASE Inspect(q)
      <4>1. q # r
        BY <1>0, <2>0, <3>1, LastHasSwitched DEF Inspect, At, Before
      <4> QED
        BY <1>0, <2>0, <4>1, OthersStay
    <3> QED
      BY <1>0, <2>0, <3>1, BackKeeps
  <2>2. ASSUME pc[q] \in Forward \cup Backward PROVE q = r
    BY <1>0, <2>0, <2>2 DEF Once
  <2>3. CASE SwitchUp(q)
    <3>1. PICK c \in Containers : Up(c, Candidate[q]) /\ At(q, c)
      BY <2>3 DEF SwitchUp
    <3>2. Candidate[q] \in Releases /\ q = r /\ pointer' = pointer
      BY <2>2, <2>3, <3>1 DEF Releases, At, Forward, Containers, SwitchUp, host
    <3>3. running'[c].release = Candidate[q] /\ \A d \in Containers \ {c} : running'[d] = running[d]
      BY <1>0, <3>1, <3>2, UpMakes
    <3> QED
      BY <2>0, <2>1, <3>2, <3>3 DEF NothingElse
  <2>4. CASE UndoUp(q)
    <3>1. PICK c \in Containers, x \in back[q].release :
            Up(c, x) /\ At(q, IF c = "web" THEN "undo web" ELSE "undo alert")
      BY <2>4 DEF UndoUp
    <3>2. x \in Releases /\ q = r /\ pointer' = pointer
      BY <1>0, <2>2, <2>4, <3>1 DEF Backs, At, Backward, UndoUp, host
    <3>3. running'[c].release = x /\ \A d \in Containers \ {c} : running'[d] = running[d]
      BY <1>0, <3>1, <3>2, UpMakes
    <3> QED
      BY <2>0, <2>1, <3>1, <3>2, <3>3 DEF NothingElse
  <2>5. CASE Point(q) \/ UndoPoint(q)
    <3>1. q = r /\ running' = running
      BY <2>2, <2>5 DEF Point, UndoPoint, At, Forward, Backward, Keep
    <3>2. pointer' \in {{Candidate[q]}, back[q].pointer}
      BY <2>5 DEF Point, UndoPoint
    <3> QED
      BY <2>0, <2>1, <3>1, <3>2 DEF NothingElse
  <2>6. CASE ~(SwitchUp(q) \/ UndoUp(q) \/ Point(q) \/ UndoPoint(q))
    <3>1. running' = running /\ pointer' = pointer
      BY <2>6, DeployHost
    <3> QED
      BY <2>0, <2>1, <3>1 DEF NothingElse
  <2> QED
    BY <2>3, <2>4, <2>5, <2>6
<1> QED
  BY <1>1, <1>2

LEMMA TruthfulKept ==
    ASSUME IInv, NEW q \in Runs, Deploy(q), NEW r \in last'
    PROVE  Truthful(r)'
<1>0. /\ pc \in [Runs -> Steps] /\ report \in [Runs -> Reports] /\ TypeOK /\ last \subseteq Runs
      /\ Once(q) /\ Ground(q) /\ Stage(q) /\ Says(q)
  BY DEF IInv, TypeOK, RunsTyped, HistoryTyped
<1>1. overturned \subseteq overturned' /\ leftover \subseteq leftover'
  BY DeployHost DEF StepFails, PointerStays
<1>n. NothingElse(r)'
  BY NothingElseKept
\* As long as the run reports nothing but what always holds.
<1>2. ASSUME \/ report'[r] \in {"deploying", "rollback_failed", "cleanup_failed"}
             \/ report'[r] = "deployed" /\ r \in overturned'
      PROVE  Truthful(r)'
  BY <1>n, <1>2 DEF Truthful
<1>3. CASE BeginSwitch(q)
  BY <1>0, <1>2, <1>3 DEF BeginSwitch, At, Says
<1>4. CASE ~BeginSwitch(q)
  <2>0. r \in last /\ r \in Runs /\ Truthful(r)
    BY <1>0, <1>4, DeployHost DEF IInv
  \* As long as nothing of what Truthful speaks of changes.
  <2>1. ASSUME running' = running, pointer' = pointer, report'[r] = report[r],
               back'[r].release = back[r].release, back'[r].pointer = back[r].pointer
        PROVE  Truthful(r)'
    <3>1. /\ Restored(r)' = Restored(r) /\ Healthy' = Healthy /\ Run(Candidate[r])' = Run(Candidate[r])
          /\ PointerIsBack(r) => PointerIsBack(r)'
      BY <1>1, <2>1 DEF Restored, Healthy, Run, PointerIsBack
    <3> QED
      BY <1>1, <1>n, <2>0, <2>1, <3>1 DEF Truthful
  <2>2. ASSUME q \in last PROVE q = r
    BY <1>0, <2>0, <2>2 DEF Once
  <2>3. CASE SwitchUp(q) \/ Point(q)
    <3>1. pc[q] \in Forward /\ pc[q] \in {"web", "alert", "point"} /\ report' = report
      BY <2>3 DEF SwitchUp, Point, At, Forward, Containers
    <3>2. q = r /\ report'[r] = "deploying"
      BY <1>0, <2>2, <3>1 DEF Once, Says
    <3> QED
      BY <1>2, <3>2
  <2>4. CASE UndoUp(q) \/ UndoPoint(q)
    <3>1. pc[q] \in Backward /\ report' = report
      BY <2>4 DEF UndoUp, UndoPoint, At, Backward, Containers
    <3>2. q = r /\ (report'[r] = "deploying" \/ (report'[r] = "deployed" /\ r \in overturned))
      BY <1>0, <2>2, <3>1 DEF Once, Says
    <3> QED
      BY <1>1, <1>2, <3>2
  <2>5. CASE Inspect(q) \/ Declare(q)
    <3>1. q # r
      <4>1. pc[q] \in Before
        BY <2>5 DEF Inspect, Declare, At, Before
      <4> QED
        BY <1>0, <2>0, <4>1, LastHasSwitched
    <3>2. running' = running /\ pointer' = pointer /\ report'[r] = report[r] /\ back'[r] = back[r]
      BY <1>0, <2>0, <2>5, <3>1, OthersStay DEF Inspect, Declare, Keep, host
    <3> QED
      BY <2>1, <3>2
  <2>6. CASE Report(q)
    <3>1. pc[q] = "report" /\ running' = running /\ pointer' = pointer
          /\ report' = [report EXCEPT ![q] = "deployed"]
      BY <2>6 DEF Report, At, Keep, host
    <3>2. q = r /\ report'[r] = "deployed"
      BY <1>0, <2>2, <3>1 DEF Once, Forward
    <3>3. Healthy' /\ Run(Candidate[q])' /\ pointer' = {Candidate[q]}
      BY <1>0, <3>1 DEF Stage, Healthy, Run
    <3> QED
      BY <1>n, <3>2, <3>3 DEF Truthful
  <2>7. CASE Conclude(q) /\ q = r
    <3>1. pc[q] # "give up"
      BY <1>0, <2>0, <2>7, LastHasSwitched
    <3>2. running' = running /\ pointer' = pointer /\ back' = back /\ leftover' = leftover
      BY <2>7 DEF Conclude, Keep, host, history
    <3>3. CASE report' = report
      BY <2>1, <3>2, <3>3
    <3>4. CASE report' # report
      <4>1. report'[q] = pc[q] /\ pc[q] \in {"rolled_back", "rollback_failed"}
        BY <1>0, <2>7, <3>1, <3>4 DEF Conclude
      <4>2. pc[q] = "rolled_back" => (Healthy /\ Restored(q) /\ PointerIsBack(q))'
        BY <1>0, <3>2 DEF Stage, Healthy, Restored, Run, PointerIsBack
      <4> QED
        BY <1>n, <2>7, <4>1, <4>2 DEF Truthful
    <3> QED
      BY <3>3, <3>4
  <2>8. CASE ReportCleanup(q) /\ q = r
    <3>1. running' = running /\ pointer' = pointer /\ back' = back
          /\ (report'[q] = "cleanup_failed" \/ report' = report)
      BY <1>0, <2>8 DEF ReportCleanup, Keep, host
    <3> QED
      BY <1>2, <2>1, <2>8, <3>1
  <2>9. CASE ~(SwitchUp(q) \/ Point(q) \/ UndoUp(q) \/ UndoPoint(q) \/ Inspect(q) \/ Declare(q) \/ Report(q))
             /\ (q # r \/ ~(Conclude(q) \/ ReportCleanup(q)))
    <3>1. running' = running /\ pointer' = pointer
      BY <2>9, DeployHost
    <3>2. report'[r] = report[r]
      <4>1. CASE q # r
        BY <1>0, <2>0, <4>1, OthersStay
      <4>2. CASE q = r
        BY <2>9, <4>2 DEF Deploy, Start, TakeMutex, TakeLock, CheckMarker, Claim, Record, Mark,
           BeginSwitch, Validate, Complete, StepFails, PhaseFails, UndoValidate, PointerStays,
           UndoFails, Unmark, LeaveLock, ReleaseMutex, Redispatch, Dies
      <4> QED
        BY <4>1, <4>2
    <3>3. back'[r].release = back[r].release /\ back'[r].pointer = back[r].pointer
      BY <1>0, <2>0, <2>9, BackKeeps
    <3> QED
      BY <2>1, <3>1, <3>2, <3>3
  <2> QED
    BY <2>3, <2>4, <2>5, <2>6, <2>7, <2>8, <2>9
<1> QED
  BY <1>3, <1>4

LEMMA DeployKept ==
    ASSUME IInv, NEW q \in Runs, Deploy(q)
    PROVE  IInv'
<1>1. TypeOK' /\ Exclusive' /\ Sound'
  BY DeployTyped, ExclusiveKept, SoundKept DEF IInv
<1>2. ASSUME NEW r \in Runs PROVE (Once(r) /\ Ground(r) /\ Stage(r) /\ Says(r))'
  <2>1. CASE r = q
    BY <2>1, OnceKept, GroundStageKept, SaysKept
  <2>2. CASE r # q
    BY <2>2, OthersKept
  <2> QED
    BY <2>1, <2>2
<1>3. ASSUME NEW r \in last' PROVE Truthful(r)'
  BY <1>3, TruthfulKept
<1> QED
  BY <1>1, <1>2, <1>3 DEF IInv

\* A preflight writes only its own receipt, before its deployment begins.
LEMMA PreflightKept ==
    ASSUME IInv, NEW q \in Runs, StartPreflight(q) \/ Observe(q)
    PROVE  IInv'
<1>0. /\ preflight \in [Runs -> Receipts] /\ running \in [Containers -> Boxes]
      /\ TypeOK /\ \A r \in Runs : Ground(r)
  BY DEF IInv, TypeOK, RunsTyped, HostTyped
<1>1. UNCHANGED <<pc, report, back, mutex, marker, pointer, claimed, drilled, running, faults,
                  validated, switches, last, overturned, leftover>>
  BY DEF StartPreflight, Observe, host, history
<1>2. /\ preflight' \in [Runs -> Receipts] /\ \A r \in Runs \ {q} : preflight'[r] = preflight[r]
      /\ preflight[q].step # "receipt"
  <2>1. ASSUME NEW p \in Receipts, preflight' = [preflight EXCEPT ![q] = p]
        PROVE  preflight' \in [Runs -> Receipts] /\ \A r \in Runs \ {q} : preflight'[r] = preflight[r]
    BY <1>0, <2>1
  <2>2. CASE StartPreflight(q)
    BY <1>0, <2>1, <2>2 DEF StartPreflight, Receipts
  <2>3. CASE Observe(q)
    <3>1. PICK c \in Containers :
            /\ preflight[q].step = c
            /\ preflight' = [preflight EXCEPT ![q][c] = running[c].id,
                                              ![q].step = IF c = "web" THEN "alert" ELSE "receipt"]
      BY <2>3 DEF Observe
    <3>2. running[c].id \in Nat
      BY <1>0 DEF Boxes
    <3>3. CASE c = "web"
      <4> DEFINE new == [preflight[q] EXCEPT !.web = running[c].id, !.step = "alert"]
      <4>1. preflight' = [preflight EXCEPT ![q] = new]
        BY <1>0, <3>1, <3>3
      <4>2. new \in Receipts
        BY <1>0, <3>2 DEF Receipts
      <4> HIDE DEF new
      <4>3. preflight[q].step # "receipt"
        BY <3>1, <3>3
      <4> QED
        BY <2>1, <4>1, <4>2, <4>3
    <3>4. CASE c = "alert"
      <4> DEFINE new == [preflight[q] EXCEPT !.alert = running[c].id, !.step = "receipt"]
      <4>1. preflight' = [preflight EXCEPT ![q] = new]
        BY <1>0, <3>1, <3>4
      <4>2. new \in Receipts
        BY <1>0, <3>2 DEF Receipts
      <4> HIDE DEF new
      <4>3. preflight[q].step # "receipt"
        BY <3>1, <3>4
      <4> QED
        BY <2>1, <4>1, <4>2, <4>3
    <3> QED
      BY <3>3, <3>4 DEF Containers
  <2> QED
    BY <2>2, <2>3
<1>3. TypeOK' /\ Exclusive' /\ Sound'
  BY <1>0, <1>1, <1>2 DEF IInv, TypeOK, RunsTyped, HostTyped, HistoryTyped, Exclusive, AtWork, Sound
<1>4. ASSUME NEW r \in Runs PROVE Ground(r)'
  <2>1. CASE r # q
    BY <1>0, <1>1, <1>2, <2>1 DEF Ground, SameBaseline, Restored, Run
  <2>2. CASE r = q
    <3>1. pc'[r] = "idle"
      BY <1>0, <1>1, <1>2, <2>2 DEF Ground
    <3> QED
      BY <3>1 DEF Ground, Forward, Backward
  <2> QED
    BY <2>1, <2>2
<1>5. ASSUME NEW r \in Runs PROVE (Once(r) /\ Stage(r) /\ Says(r))'
  <2>1. Once(r)' /\ Says(r)'
    BY <1>1 DEF IInv, Once, Says
  <2>2. Stage(r)'
    BY <1>1 DEF IInv, Stage, PointerIsBack, Healthy, Restored, Run
  <2> QED
    BY <2>1, <2>2
<1>6. ASSUME NEW r \in last' PROVE Truthful(r)'
  <2>1. Truthful(r)
    BY <1>1, <1>6 DEF IInv
  <2> QED
    BY <1>1, <2>1 DEF Truthful, NothingElse, PointerIsBack, Healthy, Restored, Run
<1> QED
  BY <1>3, <1>4, <1>5, <1>6 DEF IInv

LEMMA DeploymentInitial == Init => IInv
<1> SUFFICES ASSUME Init PROVE IInv
  OBVIOUS
<1>1. TypeOK
  BY DEF Init, TypeOK, RunsTyped, HostTyped, HistoryTyped, Steps, Reports, Backs, Boxes, Receipts,
     Releases, Nothing
<1>2. Exclusive /\ Sound
  BY DEF Init, Exclusive, AtWork, Sound, Nothing
<1>3. ASSUME NEW r \in Runs PROVE Once(r) /\ Ground(r) /\ Stage(r) /\ Says(r)
  BY DEF Init, Once, Ground, Stage, Says, Nothing, Early, Before, Forward, Backward
<1> QED
  BY <1>1, <1>2, <1>3 DEF Init, IInv

LEMMA DeploymentInductive == IInv /\ [Next]_vars => IInv'
<1> SUFFICES ASSUME IInv, [Next]_vars PROVE IInv'
  OBVIOUS
<1>1. ASSUME UNCHANGED <<pc, report, back, host, running, preflight, faults, history>> PROVE IInv'
  <2>1. UNCHANGED <<pc, report, back, mutex, marker, pointer, claimed, drilled, running, preflight,
                    faults, validated, switches, last, overturned, leftover>>
    BY <1>1 DEF host, history
  <2>2. TypeOK' /\ Exclusive' /\ Sound'
    BY <2>1 DEF IInv, TypeOK, RunsTyped, HostTyped, HistoryTyped, Exclusive, AtWork, Sound
  <2>3. \A r \in Runs : Once(r)' /\ Says(r)'
    BY <2>1 DEF IInv, Once, Says
  <2>4. ASSUME NEW r \in Runs PROVE Ground(r)' /\ Stage(r)'
    <3>1. Ground(r) /\ Stage(r)
      BY DEF IInv
    <3>2. Ground(r)'
      BY <2>1, <3>1 DEF Ground, SameBaseline, Restored, Run
    <3>3. Stage(r)'
      BY <2>1, <3>1 DEF Stage, PointerIsBack, Healthy, Restored, Run
    <3> QED
      BY <3>2, <3>3
  <2>5. \A r \in last' : Truthful(r)'
    BY <2>1 DEF IInv, Truthful, NothingElse, PointerIsBack, Healthy, Restored, Run
  <2> QED
    BY <2>2, <2>3, <2>4, <2>5 DEF IInv
<1>2. CASE UNCHANGED vars
  BY <1>1, <1>2 DEF vars
<1>3. ASSUME NEW p \in Others, Other(p) PROVE IInv'
  BY <1>1, <1>3 DEF Other
<1> QED
  BY <1>2, <1>3, DeployKept, PreflightKept DEF Next

\* The invariant holds in every behaviour of the deployments.
LEMMA DeploymentInvariant == Spec => []IInv
<1> QED
  BY DeploymentInitial, DeploymentInductive, PTL DEF Spec

\* A deployment that switches stands on known ground, for any number of runs,
\* faults and requests (Assert-PreflightReceipt, Claim-RequestId).
THEOREM GroundIsKnown == Spec => []StandsOnKnownGround
<1>1. IInv => StandsOnKnownGround
  <2> SUFFICES ASSUME IInv, NEW r \in Runs
               PROVE  /\ switches[r] <= 1
                      /\ pc[r] = "web" => SameBaseline(r)
                      /\ back[r].pointer # {} => back[r].release \subseteq validated
    BY DEF StandsOnKnownGround
  <2>1. Once(r) /\ Ground(r) /\ Sound
    BY DEF IInv
  <2>2. switches[r] <= 1
    <3>1. switches[r] \in {0, 1}
      BY <2>1 DEF Once
    <3> QED
      BY <3>1
  <2> QED
    BY <2>1, <2>2 DEF Ground, Sound
<1> QED
  BY <1>1, DeploymentInvariant, PTL

\* For any number of runs and faults, the state file of the last deployment that
\* began to switch promises no more than is so, at every moment, with the two
\* exceptions ReportIsTrue names: a run overturned after it had reported
\* "deployed", and a first pointer left over after "rolled_back"
\* (Invoke-IworkProductionDeployment.ps1 2550-2825).
THEOREM ReportsAreTrue == Spec => []ReportIsTrue
<1>1. IInv => ReportIsTrue
  BY DEF IInv, ReportIsTrue, Truthful, PointerIsBack
<1> QED
  BY <1>1, DeploymentInvariant, PTL

\* Only one deployment is past its mutexes at any time, and no variable of the
\* deployments leaves its type.
THEOREM DeploymentsExclude == Spec => [](TypeOK /\ Exclusive)
<1>1. IInv => TypeOK /\ Exclusive
  BY DEF IInv
<1> QED
  BY <1>1, DeploymentInvariant, PTL
=============================================================================
