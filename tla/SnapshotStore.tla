--------------------------- MODULE SnapshotStore ----------------------------
(***************************************************************************)
(* The Redis read model of one business date: SnapshotStore.publish and    *)
(* SnapshotStore.read_many of iwork/read_model/store.py, one action per    *)
(* Redis command, with any number of publishing and reading processes.     *)
(*                                                                         *)
(* A publication writes the metadata and the views of its version, reads   *)
(* them back, remembers the current version as the previous one, switches  *)
(* the current pointer and deletes the version before the previous one,    *)
(* all under a publish lock that Redis drops after 60 seconds.  Every      *)
(* command may fail, before or after it took effect; a publisher may die   *)
(* between any two commands.                                               *)
(*                                                                         *)
(* Bounds: MaxVersion publications.  Snapshot contents are abstracted to   *)
(* the set of keys present per version; each publication carries a fresh   *)
(* version (builder.py draws a new one per build), so store.py's refusal   *)
(* of the version that is already current never applies.                   *)
(***************************************************************************)
EXTENDS Naturals, FiniteSets

CONSTANTS
  Publishers,          (* processes that may call publish                  *)
  Readers,             (* processes that may call read_many                *)
  Parts,               (* the keys of one snapshot: metadata and the views *)
  Meta,                (* the metadata key, written and read first         *)
  MaxVersion,          (* bound: number of publish calls                   *)
  SwitchReplyMayBeLost (* the SET of the current pointer may take effect   *)
                       (* although the client sees an error                *)

ASSUME StoreAssumption ==
  /\ Meta \in Parts
  /\ MaxVersion \in Nat
  /\ SwitchReplyMayBeLost \in BOOLEAN

VARIABLES
  keys,        (* Redis: the parts of each version that are stored         *)
  current,     (* Redis: the current pointer, 0 when absent                *)
  previous,    (* Redis: the previous pointer, 0 when absent               *)
  lock,        (* Redis: version of the publish call that holds the lock   *)
  nextVersion, (* the version the next build will carry                    *)
  pc, ver, oldCurrent, oldPrevious, written,  (* locals of publish         *)
  pin, got, overtaken, outcome,               (* locals of read_many       *)
  overrun      (* history: a live publisher has outlasted its lock         *)

redis      == <<keys, current, previous, lock>>
publishing == <<pc, ver, oldCurrent, oldPrevious, written>>
reading    == <<pin, got, overtaken, outcome>>
vars == <<redis, nextVersion, publishing, reading, overrun>>

Versions  == 1..MaxVersion
Pointer   == 0..MaxVersion
BodySteps == {"readCurrent", "write", "verify", "readPrevious", "setPrevious", "switch"}
Steps     == BodySteps \cup {"idle", "retire", "cleanup", "release"}
Outcomes  == {"none", "complete", "incomplete", "empty", "unavailable"}

Init ==
  /\ keys = [v \in Versions |-> {}]
  /\ current = 0 /\ previous = 0 /\ lock = 0
  /\ nextVersion = 1
  /\ pc = [p \in Publishers |-> "idle"]
  /\ ver = [p \in Publishers |-> 0]
  /\ oldCurrent = [p \in Publishers |-> 0]
  /\ oldPrevious = [p \in Publishers |-> 0]
  /\ written = [p \in Publishers |-> {}]
  /\ pin = [r \in Readers |-> 0]
  /\ got = [r \in Readers |-> {}]
  /\ overtaken = [r \in Readers |-> 0]
  /\ outcome = [r \in Readers |-> [kind |-> "none", version |-> 0]]
  /\ overrun = FALSE

Live(p)    == pc[p] # "idle"
Goto(p, s) == pc' = [pc EXCEPT ![p] = s]
NextParts(done) == IF Meta \in done THEN Parts \ done ELSE {Meta}

(* The call is over and its locals are gone. *)
LeavePublish(p) ==
  /\ Goto(p, "idle")
  /\ ver' = [ver EXCEPT ![p] = 0]
  /\ oldCurrent' = [oldCurrent EXCEPT ![p] = 0]
  /\ oldPrevious' = [oldPrevious EXCEPT ![p] = 0]
  /\ written' = [written EXCEPT ![p] = {}]

-----------------------------------------------------------------------------
(* publish *)

(* A publish call takes the next version and tries the lock once; when it  *)
(* is taken the call raises SnapshotPublishInProgressError.  A lost reply  *)
(* leaves the lock to its timeout.                                         *)
BeginPublish(p) ==
  /\ ~Live(p)
  /\ nextVersion <= MaxVersion
  /\ nextVersion' = nextVersion + 1
  /\ \/ /\ lock = 0
        /\ lock' = nextVersion
        /\ Goto(p, "readCurrent")
        /\ ver' = [ver EXCEPT ![p] = nextVersion]
     \/ /\ lock = 0
        /\ lock' = nextVersion
        /\ UNCHANGED <<pc, ver>>
     \/ /\ lock # 0
        /\ UNCHANGED <<lock, pc, ver>>
  /\ UNCHANGED <<keys, current, previous, oldCurrent, oldPrevious, written, reading, overrun>>

ReadCurrent(p) ==
  /\ pc[p] = "readCurrent"
  /\ oldCurrent' = [oldCurrent EXCEPT ![p] = current]
  /\ Goto(p, "write")
  /\ UNCHANGED <<redis, nextVersion, ver, oldPrevious, written, reading, overrun>>

WritePart(p) ==
  /\ pc[p] = "write"
  /\ \E k \in NextParts(written[p]) :
       /\ keys' = [keys EXCEPT ![ver[p]] = @ \cup {k}]
       /\ written' = [written EXCEPT ![p] = @ \cup {k}]
       /\ Goto(p, IF Parts \subseteq written[p] \cup {k} THEN "verify" ELSE "write")
  /\ UNCHANGED <<current, previous, lock, nextVersion, ver, oldCurrent, oldPrevious, reading, overrun>>

(* A missing part raises ConnectionError: Fail takes the call from here.   *)
Verify(p) ==
  /\ pc[p] = "verify"
  /\ keys[ver[p]] = Parts
  /\ Goto(p, "readPrevious")
  /\ UNCHANGED <<redis, nextVersion, ver, oldCurrent, oldPrevious, written, reading, overrun>>

ReadPrevious(p) ==
  /\ pc[p] = "readPrevious"
  /\ oldPrevious' = [oldPrevious EXCEPT ![p] = previous]
  /\ Goto(p, IF oldCurrent[p] # 0 THEN "setPrevious" ELSE "switch")
  /\ UNCHANGED <<redis, nextVersion, ver, oldCurrent, written, reading, overrun>>

SetPrevious(p) ==
  /\ pc[p] = "setPrevious"
  /\ previous' = oldCurrent[p]
  /\ Goto(p, "switch")
  /\ UNCHANGED <<keys, current, lock, nextVersion, ver, oldCurrent, oldPrevious, written, reading, overrun>>

(* The pointer moves to the new version; every read under way is overtaken *)
(* once more.                                                              *)
MoveCurrent(p) ==
  /\ current' = ver[p]
  /\ overtaken' = [r \in Readers |->
                     IF pin[r] = 0 \/ overtaken[r] = 2
                       THEN overtaken[r] ELSE overtaken[r] + 1]
  /\ UNCHANGED <<pin, got, outcome>>

(* Fault: the previous version is not protected from deletion. *)
SwitchForgetsPrevious(p) ==
  /\ pc[p] = "switch"
  /\ MoveCurrent(p)
  /\ Goto(p, IF oldPrevious[p] \notin {0, ver[p]} THEN "retire" ELSE "release")
  /\ UNCHANGED <<keys, previous, lock, nextVersion, ver, oldCurrent, oldPrevious, written, overrun>>

Switch(p) ==
  /\ pc[p] = "switch"
  /\ MoveCurrent(p)
  /\ Goto(p, IF oldPrevious[p] \notin {0, oldCurrent[p], ver[p]} THEN "retire" ELSE "release")
  /\ UNCHANGED <<keys, previous, lock, nextVersion, ver, oldCurrent, oldPrevious, written, overrun>>

(* Fault: a failed deletion runs the rollback of a failed publication. *)
RetireRollsBack(p) ==
  /\ pc[p] = "retire"
  /\ \/ keys' = [keys EXCEPT ![oldPrevious[p]] = {}] /\ Goto(p, "release")
     \/ UNCHANGED keys /\ Goto(p, "cleanup")
  /\ UNCHANGED <<current, previous, lock, nextVersion, ver, oldCurrent, oldPrevious, written, reading, overrun>>

(* Deleting the version before the previous one is best effort. *)
Retire(p) ==
  /\ pc[p] = "retire"
  /\ \/ keys' = [keys EXCEPT ![oldPrevious[p]] = {}]
     \/ UNCHANGED keys
  /\ Goto(p, "release")
  /\ UNCHANGED <<current, previous, lock, nextVersion, ver, oldCurrent, oldPrevious, written, reading, overrun>>

(* A command of the body fails without effect. *)
Fail(p) ==
  /\ pc[p] \in BodySteps
  /\ Goto(p, "cleanup")
  /\ UNCHANGED <<redis, nextVersion, ver, oldCurrent, oldPrevious, written, reading, overrun>>

(* A command of the body takes effect but its reply is lost: the client    *)
(* sees an error all the same.                                             *)
LoseReply(p) ==
  /\ \/ /\ pc[p] = "write"
        /\ \E k \in NextParts(written[p]) : keys' = [keys EXCEPT ![ver[p]] = @ \cup {k}]
        /\ UNCHANGED <<current, previous, reading>>
     \/ /\ pc[p] = "setPrevious"
        /\ previous' = oldCurrent[p]
        /\ UNCHANGED <<keys, current, reading>>
     \/ /\ pc[p] = "switch"
        /\ SwitchReplyMayBeLost
        /\ MoveCurrent(p)
        /\ UNCHANGED <<keys, previous>>
  /\ Goto(p, "cleanup")
  /\ UNCHANGED <<lock, nextVersion, ver, oldCurrent, oldPrevious, written, overrun>>

(* The except branch deletes what the call knows it wrote, best effort. *)
Cleanup(p) ==
  /\ pc[p] = "cleanup"
  /\ \/ keys' = [keys EXCEPT ![ver[p]] = @ \ written[p]]
     \/ UNCHANGED keys
  /\ Goto(p, "release")
  /\ UNCHANGED <<current, previous, lock, nextVersion, ver, oldCurrent, oldPrevious, written, reading, overrun>>

(* The finally branch: only the token that holds the lock frees it; a      *)
(* failed release leaves it to its timeout.                                *)
Release(p) ==
  /\ pc[p] = "release"
  /\ \/ lock = ver[p] /\ lock' = 0
     \/ UNCHANGED lock
  /\ LeavePublish(p)
  /\ UNCHANGED <<keys, current, previous, nextVersion, reading, overrun>>

(* The publishing process is killed. *)
Crash(p) ==
  /\ Live(p)
  /\ LeavePublish(p)
  /\ UNCHANGED <<redis, nextVersion, reading, overrun>>

(* Fault: the lock is taken without a timeout. *)
ExpireNever ==
  /\ FALSE
  /\ UNCHANGED vars

(* Redis drops the lock after its timeout, whether its publisher is gone   *)
(* or has been stalled for 60 seconds.                                     *)
ExpireLock ==
  /\ lock # 0
  /\ lock' = 0
  /\ overrun' = (overrun \/ \E p \in Publishers : Live(p) /\ ver[p] = lock)
  /\ UNCHANGED <<keys, current, previous, nextVersion, publishing, reading>>

-----------------------------------------------------------------------------
(* read_many: pin the current version, then fetch its parts *)

(* Only a complete answer carries a version; the others are exceptions. *)
Answer(r, kind) == IF kind = "complete" THEN pin[r] ELSE 0

EndRead(r, kind) ==
  /\ pin' = [pin EXCEPT ![r] = 0]
  /\ got' = [got EXCEPT ![r] = {}]
  /\ overtaken' = [overtaken EXCEPT ![r] = 0]
  /\ outcome' = [outcome EXCEPT ![r] = [kind |-> kind, version |-> Answer(r, kind)]]

PinCurrent(r) ==
  /\ pin[r] = 0
  /\ \/ /\ current # 0
        /\ pin' = [pin EXCEPT ![r] = current]
        /\ outcome' = [outcome EXCEPT ![r] = [kind |-> "none", version |-> 0]]
        /\ UNCHANGED <<got, overtaken>>
     \/ current = 0 /\ EndRead(r, "empty")
  /\ UNCHANGED <<redis, nextVersion, publishing, overrun>>

FetchPart(r) ==
  /\ pin[r] # 0
  /\ \E k \in NextParts(got[r]) :
       \/ /\ k \in keys[pin[r]]
          /\ got' = [got EXCEPT ![r] = @ \cup {k}]
          /\ UNCHANGED <<pin, overtaken, outcome>>
       \/ /\ k \notin keys[pin[r]]
          /\ EndRead(r, "incomplete")
  /\ UNCHANGED <<redis, nextVersion, publishing, overrun>>

ReturnSnapshot(r) ==
  /\ pin[r] # 0
  /\ got[r] = Parts
  /\ EndRead(r, "complete")
  /\ UNCHANGED <<redis, nextVersion, publishing, overrun>>

(* _safe_get turns any Redis failure into ReadModelNotReadyError. *)
CacheUnavailable(r) ==
  /\ EndRead(r, "unavailable")
  /\ UNCHANGED <<redis, nextVersion, publishing, overrun>>

-----------------------------------------------------------------------------
PublishStep(p) ==
  \/ ReadCurrent(p) \/ WritePart(p) \/ Verify(p) \/ ReadPrevious(p) \/ SetPrevious(p)
  \/ Switch(p) \/ Retire(p) \/ Fail(p) \/ LoseReply(p) \/ Cleanup(p) \/ Release(p)

ReadStep(r) == FetchPart(r) \/ ReturnSnapshot(r)

Next ==
  \/ \E p \in Publishers : BeginPublish(p) \/ PublishStep(p) \/ Crash(p)
  \/ ExpireLock
  \/ \E r \in Readers : PinCurrent(r) \/ ReadStep(r) \/ CacheUnavailable(r)

Spec == Init /\ [][Next]_vars

(* A process that is inside publish or read_many keeps issuing commands,   *)
(* and Redis enforces the lock's timeout.                                  *)
Fairness ==
  /\ \A p \in Publishers : WF_vars(PublishStep(p))
  /\ \A r \in Readers : WF_vars(ReadStep(r))
  /\ WF_vars(ExpireLock)

FairSpec == Spec /\ Fairness

-----------------------------------------------------------------------------
(* Properties *)

(* Every variable keeps its type, and publish names an existing version    *)
(* whenever it writes the previous pointer or deletes a version            *)
(* (store.py:110, 117 test for an absent pointer first).                   *)
TypeOK ==
  /\ keys \in [Versions -> SUBSET Parts]
  /\ current \in Pointer /\ previous \in Pointer /\ lock \in Pointer
  /\ nextVersion \in 1..(MaxVersion + 1)
  /\ pc \in [Publishers -> Steps]
  /\ ver \in [Publishers -> Pointer]
  /\ oldCurrent \in [Publishers -> Pointer]
  /\ oldPrevious \in [Publishers -> Pointer]
  /\ written \in [Publishers -> SUBSET Parts]
  /\ pin \in [Readers -> Pointer]
  /\ got \in [Readers -> SUBSET Parts]
  /\ overtaken \in [Readers -> 0..2]
  /\ outcome \in [Readers -> [kind : Outcomes, version : Pointer]]
  /\ overrun \in BOOLEAN
  /\ \A p \in Publishers :
       /\ pc[p] = "setPrevious" => oldCurrent[p] # 0
       /\ pc[p] = "retire" => oldPrevious[p] # 0

(* The current pointer always leads to a whole snapshot, whatever fails or *)
(* dies in the middle of a publication and even when the publish lock      *)
(* runs out under a live publisher (store.py:106-127 and the changelog's   *)
(* "write the version, read it back, then switch once").                   *)
CurrentComplete == current # 0 => keys[current] = Parts

(* The previous pointer leads to a whole snapshot too, so a reader that    *)
(* pinned the version just replaced can still finish, unless a publisher   *)
(* has outlasted its lock (store.py:109-117).                              *)
PreviousComplete == overrun \/ (previous # 0 => keys[previous] = Parts)

(* Readers never go back in time: the current pointer only moves to newer  *)
(* versions, unless a publisher has outlasted its lock (store.py:79-85,    *)
(* the lock that serialises publications).                                 *)
CurrentNeverRegresses == [][overrun \/ current' > current]_current

(* A read that finds its version torn has been overtaken by two complete   *)
(* publications; one is never enough, unless a publisher has outlasted its *)
(* lock (store.py:109-119).                                                *)
TornOnlyAfterTwoSwitches ==
  [][\A r \in Readers :
       \/ overrun
       \/ outcome'[r] # outcome[r] /\ outcome'[r].kind = "incomplete" => overtaken[r] = 2]_vars

(* No publish call, finished, failed or killed, keeps the date locked for  *)
(* ever (store.py:79-83 timeout and 137-143 release).                      *)
EveryHoldEnds == \A v \in Versions : lock = v ~> lock # v

(* The detailed store implements the atomic register for as long as no     *)
(* publisher outlasts its lock: after that a stalled publisher may set     *)
(* current back to the older version it carries.                           *)
Register == INSTANCE SnapshotRegister
  WITH Readers <- Readers, MaxVersion <- MaxVersion,
       current <- current, pin <- pin, overtaken <- overtaken, outcome <- outcome
RegisterSpec == Register!Init /\ [][overrun \/ Register!Next]_(Register!vars)
=============================================================================
