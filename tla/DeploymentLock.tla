----------------------------- MODULE DeploymentLock -----------------------------
(***************************************************************************)
(* The lock file by which deployments of several repositories keep out of  *)
(* each other's way (scripts/ProductionCoordination.psm1).  Whoever holds  *)
(* the lock keeps the file open; Windows then lets nobody move or remove   *)
(* it.  A process that died leaves the file behind, closed: another may    *)
(* move it away once the lease is over, the process gone and its workflow  *)
(* run completed.  An action is one access to the file.  Of the lease only *)
(* this is kept: to whoever looks it may be over or not, so that renewing  *)
(* it is no step of its own.                                               *)
(***************************************************************************)
EXTENDS FiniteSets, TLC

CONSTANT Processes

VARIABLES
    file,   \* {} or one record: whose it is, whether it is open, has contents, is orphaned
    lock    \* where each process is in entering or leaving the lock

lockVars == <<file, lock>>

LockSteps == {"out", "check", "move", "create", "write", "held", "undo",
              "remove", "verify", "left", "failed", "unclean"}
Files == [owner : Processes, open : BOOLEAN, full : BOOLEAN, orphan : BOOLEAN]

LockInit ==
    /\ file = {}
    /\ lock = [p \in Processes |-> "out"]

Goto(p, step) == lock' = [lock EXCEPT ![p] = step]

\* Nobody has the file open: it may be moved or removed, whoever made it.
Loose == file # {} /\ \A f \in file : ~f.open

\* What becomes of the file of a process: f is its record.
Amend(p, Change(_)) == file' = {IF f.owner = p THEN Change(f) ELSE f : f \in file}

-----------------------------------------------------------------------------
(* Enter-ProductionCoordinationLock *)
Enter(p) ==
    /\ lock[p] = "out"
    /\ Goto(p, IF file = {} THEN "create" ELSE "check")
    /\ UNCHANGED file

\* Read and judged: a file without contents, a lease that runs, an owner that
\* lives or a workflow run that goes on end the attempt.
CheckStale(p) ==
    /\ lock[p] = "check"
    /\ \/ /\ \E f \in file : f.full /\ f.orphan
          /\ Goto(p, "move")
       \/ Goto(p, "failed")
    /\ UNCHANGED file

\* The file moved is the one now at the path, not the one that was judged.  The
\* attempt ends where the move, or the audit event after it, fails.
MoveStale(p) ==
    /\ lock[p] = "move"
    /\ \/ Loose /\ file' = {} /\ \E step \in {"create", "failed"} : Goto(p, step)
       \/ ~Loose /\ Goto(p, "failed") /\ UNCHANGED file

Create(p) ==
    /\ lock[p] = "create"
    /\ IF file = {}
       THEN /\ file' = {[owner |-> p, open |-> TRUE, full |-> FALSE, orphan |-> FALSE]}
            /\ Goto(p, "write")
       ELSE Goto(p, "failed") /\ UNCHANGED file

\* Fault: the file is written and closed; that it exists is thought to be enough.
WriteAndClose(p) ==
    /\ lock[p] = "write"
    /\ Amend(p, LAMBDA f : [f EXCEPT !.full = TRUE, !.open = FALSE])
    /\ Goto(p, "held")

Write(p) ==
    /\ lock[p] = "write"
    /\ Amend(p, LAMBDA f : [f EXCEPT !.full = TRUE])
    /\ Goto(p, "held")

\* The write or its audit event fails: the file is closed, then removed if
\* that can be done.
WriteFails(p) ==
    /\ lock[p] = "write"
    /\ \E full \in BOOLEAN : Amend(p, LAMBDA f : [f EXCEPT !.open = FALSE, !.full = full])
    /\ Goto(p, "undo")

Undo(p) ==
    /\ lock[p] = "undo"
    /\ file' = IF Loose THEN {} ELSE file
    /\ Goto(p, "failed")

-----------------------------------------------------------------------------
(* Exit-ProductionCoordinationLock *)
Dispose(p) ==
    /\ lock[p] = "held"
    /\ Amend(p, LAMBDA f : [f EXCEPT !.open = FALSE])
    /\ Goto(p, "remove")

Remove(p) ==
    /\ lock[p] = "remove"
    /\ IF Loose THEN file' = {} /\ Goto(p, "verify")
       ELSE Goto(p, "unclean") /\ UNCHANGED file

\* A file at the path, be it somebody else's, counts as one not removed; so does
\* an audit event that cannot be written.
Verify(p) ==
    /\ lock[p] = "verify"
    /\ (file = {} /\ Goto(p, "left")) \/ Goto(p, "unclean")
    /\ UNCHANGED file

-----------------------------------------------------------------------------
\* The process ends: Windows closes its file, which has no owner any more.
Orphaned(f) == [f EXCEPT !.open = FALSE, !.orphan = TRUE]

Finish(p) ==
    /\ lock[p] \in {"failed", "left", "unclean"}
    /\ Amend(p, Orphaned)
    /\ Goto(p, "out")

\* It dies, perhaps while the lease was being rewritten: then the file is empty.
Die(p) ==
    /\ lock[p] # "out"
    /\ \/ Amend(p, Orphaned)
       \/ lock[p] = "held" /\ Amend(p, LAMBDA f : [Orphaned(f) EXCEPT !.full = FALSE])
    /\ Goto(p, "out")

Acquire(p) ==
    \/ Enter(p) \/ CheckStale(p) \/ MoveStale(p) \/ Create(p)
    \/ Write(p) \/ WriteFails(p) \/ Undo(p)

Release(p) == Dispose(p) \/ Remove(p) \/ Verify(p)

LockNext ==
    \E p \in Processes : Acquire(p) \/ Release(p) \/ Finish(p) \/ Die(p)

LockSpec == LockInit /\ [][LockNext]_lockVars

-----------------------------------------------------------------------------
LockTypeOK ==
    /\ file = {} \/ \E f \in Files : file = {f}
    /\ lock \in [Processes -> LockSteps]

(* Between entering and leaving the lock a process finds its own file at   *)
(* the path: nobody else has the lock, whatever stale file somebody had    *)
(* judged, moved or removed by its path before                             *)
(* (ProductionCoordination.psm1 253-362, 517-576 and 605-642).             *)
HolderHasFile ==
    \A p \in Processes : lock[p] \in {"write", "held"} =>
        \E f \in file : file = {f} /\ f.owner = p
=============================================================================
