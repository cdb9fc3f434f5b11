---------------------------- MODULE HistoryBuild ----------------------------
(***************************************************************************)
(* snapshot_history_date of iwork/history_store.py for one business date:  *)
(* the Celery task, the nightly task and the management command may all    *)
(* build the same date in processes of their own.  A build holds a Redis   *)
(* lock whose lease a daemon thread renews, reads the date's               *)
(* HistoricalSyncState row, loads and validates the remote facts, and      *)
(* replaces facts and row in one MySQL transaction.                        *)
(*                                                                         *)
(* A payload is abstracted to the token of the build that loaded it; the   *)
(* row's counters are the payload they describe.  Bound: MaxBuilds builds. *)
(***************************************************************************)
EXTENDS Naturals

CONSTANTS
  Builders,       (* processes that may run snapshot_history_date          *)
  MaxBuilds       (* bound: builds that obtain the lock                    *)

ASSUME BuildAssumption == MaxBuilds \in Nat

VARIABLES
  lock,      (* Redis: token of the build that holds the date, 0 if free   *)
  row,       (* MySQL: the HistoricalSyncState row of the date             *)
  facts,     (* MySQL: payload whose facts and metadata are stored, 0 none *)
  rowLock,   (* MySQL: token of the build that holds the row lock, 0 none  *)
  nextToken, (* the next build's lock token                                *)
  pc, token, leaseLost, seen, (* per process: step, token, lease_lost      *)
                              (* event and the row as first read           *)
  lapsed     (* history: the lease of a live build has run out             *)

mysql == <<row, facts, rowLock>>
local == <<pc, token, leaseLost, seen>>
vars  == <<lock, mysql, nextToken, local, lapsed>>

Tokens == 0..MaxBuilds
Status == {"absent", "running", "failed", "success"}
Row    == [status : Status, version : Nat, payload : Tokens]
Absent == [status |-> "absent", version |-> 0, payload |-> 0]
Steps  == {"idle", "check", "readRow", "markRunning", "load", "recheck",
           "lockRow", "recheckInside", "save", "fail", "release"}

Init ==
  /\ lock = 0
  /\ row = Absent /\ facts = 0 /\ rowLock = 0
  /\ nextToken = 1
  /\ pc = [b \in Builders |-> "idle"]
  /\ token = [b \in Builders |-> 0]
  /\ leaseLost = [b \in Builders |-> FALSE]
  /\ seen = [b \in Builders |-> Absent]
  /\ lapsed = FALSE

Live(b)    == pc[b] # "idle"
Goto(b, s) == pc' = [pc EXCEPT ![b] = s]
Owned(b)   == ~leaseLost[b] /\ lock = token[b]
SucceededBefore(b) == seen[b].status = "success"

Leave(b) ==
  /\ Goto(b, "idle")
  /\ token' = [token EXCEPT ![b] = 0]
  /\ leaseLost' = [leaseLost EXCEPT ![b] = FALSE]
  /\ seen' = [seen EXCEPT ![b] = Absent]

(* A call that finds the lock taken raises SnapshotBuildInProgressError    *)
(* and changes nothing.                                                    *)
Begin(b) ==
  /\ ~Live(b)
  /\ lock = 0
  /\ nextToken <= MaxBuilds
  /\ lock' = nextToken
  /\ nextToken' = nextToken + 1
  /\ token' = [token EXCEPT ![b] = nextToken]
  /\ Goto(b, "check")
  /\ UNCHANGED <<mysql, leaseLost, seen, lapsed>>

(* The first ensure_lock_owned stands before the try block: an error up to *)
(* there leaves no trace in the row.                                       *)
CheckBeforeRow(b) ==
  /\ pc[b] = "check"
  /\ \/ Owned(b) /\ Goto(b, "readRow")
     \/ Goto(b, "release")
  /\ UNCHANGED <<lock, mysql, nextToken, token, leaseLost, seen, lapsed>>

ReadRow(b) ==
  /\ pc[b] = "readRow"
  /\ seen' = [seen EXCEPT ![b] = row]
  /\ Goto(b, "markRunning")
  /\ UNCHANGED <<lock, mysql, nextToken, token, leaseLost, lapsed>>

(* Fault: a date that succeeded before is marked running too. *)
MarkAnyRunning(b) ==
  /\ pc[b] = "markRunning"
  /\ rowLock = 0
  /\ row' = [seen[b] EXCEPT !.status = "running", !.version = IF @ = 0 THEN 1 ELSE @]
  /\ Goto(b, "load")
  /\ UNCHANGED <<lock, facts, rowLock, nextToken, token, leaseLost, seen, lapsed>>

(* A missing row is created, a row that never succeeded is saved whole as  *)
(* it was read, a successful one is left alone while the build runs.       *)
MarkRunning(b) ==
  /\ pc[b] = "markRunning"
  /\ \/ /\ SucceededBefore(b)
        /\ UNCHANGED row
        /\ Goto(b, "load")
     \/ /\ seen[b].status \in {"running", "failed"}
        /\ rowLock = 0
        /\ row' = [seen[b] EXCEPT !.status = "running"]
        /\ Goto(b, "load")
     \/ /\ seen[b] = Absent
        /\ row = Absent
        /\ row' = [status |-> "running", version |-> 1, payload |-> 0]
        /\ Goto(b, "load")
     \/ /\ UNCHANGED row  \* database error, or the unique date exists by now
        /\ Goto(b, "release")
  /\ UNCHANGED <<lock, facts, rowLock, nextToken, token, leaseLost, seen, lapsed>>

(* The remote load or _validate_payload may refuse. *)
Load(b) ==
  /\ pc[b] = "load"
  /\ \/ Goto(b, "recheck")
     \/ Goto(b, "fail")
  /\ UNCHANGED <<lock, mysql, nextToken, token, leaseLost, seen, lapsed>>

RecheckAfterLoad(b) ==
  /\ pc[b] = "recheck"
  /\ \/ Owned(b) /\ Goto(b, "lockRow")
     \/ Goto(b, "fail")
  /\ UNCHANGED <<lock, mysql, nextToken, token, leaseLost, seen, lapsed>>

(* select_for_update waits for the row; the ownership check follows. *)
LockRow(b) ==
  /\ pc[b] = "lockRow"
  /\ rowLock = 0
  /\ \/ Owned(b) /\ rowLock' = token[b] /\ Goto(b, "recheckInside")
     \/ UNCHANGED rowLock /\ Goto(b, "fail")
  /\ UNCHANGED <<lock, row, facts, nextToken, token, leaseLost, seen, lapsed>>

(* Facts are deleted and rewritten inside the transaction; the last        *)
(* ownership check, or any database error, still rolls all of it back.     *)
RecheckInside(b) ==
  /\ pc[b] = "recheckInside"
  /\ \/ Owned(b) /\ UNCHANGED rowLock /\ Goto(b, "save")
     \/ rowLock' = 0 /\ Goto(b, "fail")
  /\ UNCHANGED <<lock, row, facts, nextToken, token, leaseLost, seen, lapsed>>

(* Save and commit: facts and row change together.  The version advances   *)
(* when the locked row already carries a success.                          *)
Save(b) ==
  /\ pc[b] = "save"
  /\ row' = [status  |-> "success",
             version |-> IF row.status = "success" THEN row.version + 1 ELSE row.version,
             payload |-> token[b]]
  /\ facts' = token[b]
  /\ rowLock' = 0
  /\ Goto(b, "release")
  /\ UNCHANGED <<lock, nextToken, token, leaseLost, seen, lapsed>>

(* Fault: the failure path saves the row object it read at the beginning. *)
FailSavesOldRow(b) ==
  /\ pc[b] = "fail"
  /\ rowLock = 0
  /\ row' = IF SucceededBefore(b) THEN seen[b] ELSE [row EXCEPT !.status = "failed"]
  /\ Goto(b, "release")
  /\ UNCHANGED <<lock, facts, rowLock, nextToken, token, leaseLost, seen, lapsed>>

(* The except branch updates the row by primary key, whoever wrote it      *)
(* last: it records the error and, unless the date had succeeded when this *)
(* build first read it, the failure.  The update itself may fail.          *)
Fail(b) ==
  /\ pc[b] = "fail"
  /\ rowLock = 0
  /\ \/ ~SucceededBefore(b) /\ row' = [row EXCEPT !.status = "failed"]
     \/ UNCHANGED row
  /\ Goto(b, "release")
  /\ UNCHANGED <<lock, facts, rowLock, nextToken, token, leaseLost, seen, lapsed>>

(* The token decides what release may free; it may also fail. *)
Release(b) ==
  /\ pc[b] = "release"
  /\ \/ lock = token[b] /\ lock' = 0
     \/ UNCHANGED lock
  /\ Leave(b)
  /\ UNCHANGED <<mysql, nextToken, lapsed>>

(* The renewal thread meets an error or a foreign token and gives up. *)
RenewalFails(b) ==
  /\ Live(b)
  /\ leaseLost' = [leaseLost EXCEPT ![b] = TRUE]
  /\ UNCHANGED <<lock, mysql, nextToken, pc, token, seen, lapsed>>

(* The building process is killed; MySQL rolls its transaction back. *)
Crash(b) ==
  /\ Live(b)
  /\ rowLock' = IF rowLock = token[b] THEN 0 ELSE rowLock
  /\ Leave(b)
  /\ UNCHANGED <<lock, row, facts, nextToken, lapsed>>

(* The lease runs out: its build is gone, or its renewal failed long ago,  *)
(* it was paused, or Redis lost the key.                                   *)
ExpireLease ==
  /\ lock # 0
  /\ lock' = 0
  /\ lapsed' = (lapsed \/ \E b \in Builders : Live(b) /\ token[b] = lock)
  /\ UNCHANGED <<mysql, nextToken, local>>

BuildStep(b) ==
  \/ CheckBeforeRow(b) \/ ReadRow(b) \/ MarkRunning(b) \/ Load(b) \/ RecheckAfterLoad(b)
  \/ LockRow(b) \/ RecheckInside(b) \/ Save(b) \/ Fail(b) \/ Release(b)

Next ==
  \/ \E b \in Builders : Begin(b) \/ BuildStep(b) \/ RenewalFails(b) \/ Crash(b)
  \/ ExpireLease

Spec == Init /\ [][Next]_vars

-----------------------------------------------------------------------------
(* Properties *)

(* Types of the row, the lock and the build's locals; the row lock is held *)
(* exactly by the build that is between select_for_update and commit.      *)
TypeOK ==
  /\ lock \in Tokens /\ facts \in Tokens /\ rowLock \in Tokens
  /\ row \in Row
  /\ nextToken \in 1..(MaxBuilds + 1)
  /\ pc \in [Builders -> Steps]
  /\ token \in [Builders -> Tokens]
  /\ leaseLost \in [Builders -> BOOLEAN]
  /\ seen \in [Builders -> Row]
  /\ lapsed \in BOOLEAN
  /\ \A b \in Builders :
       pc[b] \in {"recheckInside", "save"} <=> token[b] # 0 /\ rowLock = token[b]

(* A row that says success describes exactly the facts that are stored,    *)
(* even when leases lapse and builds overlap (history_store.py:305-341).   *)
SuccessDescribesFacts == row.status = "success" => facts # 0 /\ facts = row.payload

(* Once a date has been published it stays published: a later build that   *)
(* is refused, fails or dies leaves the success in place, unless a lease   *)
(* has lapsed under a live build: then the failure of the older build      *)
(* marks the newer success failed (history_store.py:264-275, 342-352).     *)
SuccessIsKept == [][lapsed \/ (row.status = "success" => row'.status = "success")]_vars

(* A republication carries a higher version than the facts it replaces,    *)
(* unless a lease has lapsed under a live build (history_store.py:311-315).*)
VersionGrowsWithFacts ==
  [][lapsed \/ (facts' # facts /\ facts # 0 => row'.version > row.version)]_vars
=============================================================================
