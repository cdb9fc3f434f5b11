-------------------------- MODULE SnapshotRegister --------------------------
(***************************************************************************)
(* What iwork/read_model/store.py promises its callers, without keys,      *)
(* locks or Redis: a register that holds one complete snapshot of a        *)
(* business date.  A publication replaces the whole snapshot at once by a  *)
(* newer one.  A read answers with the version that was current when it    *)
(* began, whole; it may come back empty-handed for "incomplete" only after *)
(* two newer snapshots have been published since it began (the previous    *)
(* snapshot is kept for readers that are under way), or when the cache     *)
(* itself is unreachable.                                                  *)
(***************************************************************************)
EXTENDS Naturals

CONSTANTS
  Readers,    (* concurrent readers of one business date                   *)
  MaxVersion  (* snapshots are numbered 1..MaxVersion in publication order *)

VARIABLES
  current,    (* the published snapshot, 0 when there is none              *)
  pin,        (* the version each reader is reading, 0 when it is idle     *)
  overtaken,  (* publications since that read began, counted up to 2       *)
  outcome     (* how each reader's last read ended, Idle while it reads     *)

vars == <<current, pin, overtaken, outcome>>

Idle == [kind |-> "none", version |-> 0]

Init ==
  /\ current = 0
  /\ pin = [r \in Readers |-> 0]
  /\ overtaken = [r \in Readers |-> 0]
  /\ outcome = [r \in Readers |-> Idle]

(* A newer snapshot replaces the current one in a single step. *)
Publish(v) ==
  /\ v > current
  /\ current' = v
  /\ overtaken' = [r \in Readers |->
                     IF pin[r] = 0 \/ overtaken[r] = 2
                       THEN overtaken[r] ELSE overtaken[r] + 1]
  /\ UNCHANGED <<pin, outcome>>

(* A read begins on the snapshot that is current at that moment. *)
Begin(r) ==
  /\ pin[r] = 0
  /\ current # 0
  /\ pin' = [pin EXCEPT ![r] = current]
  /\ outcome' = [outcome EXCEPT ![r] = Idle]
  /\ UNCHANGED <<current, overtaken>>

(* Only a whole snapshot has a version; the other endings are exceptions. *)
Answer(r, kind) == IF kind = "complete" THEN pin[r] ELSE 0

(* A read ends: the reader lets go of its version and learns how it went. *)
End(r, kind) ==
  /\ pin' = [pin EXCEPT ![r] = 0]
  /\ overtaken' = [overtaken EXCEPT ![r] = 0]
  /\ outcome' = [outcome EXCEPT ![r] = [kind |-> kind, version |-> Answer(r, kind)]]
  /\ UNCHANGED current

Complete(r)    == pin[r] # 0 /\ End(r, "complete")
Incomplete(r)  == pin[r] # 0 /\ overtaken[r] = 2 /\ End(r, "incomplete")
Empty(r)       == pin[r] = 0 /\ current = 0 /\ End(r, "empty")
Unavailable(r) == End(r, "unavailable")

Next ==
  \/ \E v \in 1..MaxVersion : Publish(v)
  \/ \E r \in Readers :
       \/ Begin(r) \/ Complete(r) \/ Incomplete(r) \/ Empty(r) \/ Unavailable(r)

Spec == Init /\ [][Next]_vars
=============================================================================
