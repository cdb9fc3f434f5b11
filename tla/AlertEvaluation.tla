-------------------------- MODULE AlertEvaluation --------------------------
(***************************************************************************)
(* The evaluation of a published snapshot (iwork/alerts/service.py):       *)
(* detectors look at the snapshot, every candidate they find becomes an    *)
(* event with a delivery to each mandatory role, and one row per snapshot  *)
(* records that this has been done.  The task of the publication and the   *)
(* five minute reconciliation both evaluate the current snapshot, on any   *)
(* worker of the alerts queue.                                             *)
(*                                                                         *)
(* One snapshot that stays current.  Its candidates are a parameter: the   *)
(* service takes its detectors as an argument, and no detector is          *)
(* installed so far.  Bound: MaxFaults faults.                             *)
(***************************************************************************)
EXTENDS Naturals

CONSTANTS
  Evaluators,   (* Celery workers of the alerts queue                      *)
  Candidates,   (* what the detectors find in the snapshot                 *)
  Mandatory,    (* per event, the mandatory roles of its rule              *)
  MaxFaults

ASSUME EvaluationAssumption == MaxFaults \in Nat /\ "idle" \notin Candidates

VARIABLES
  evaluation,   (* MySQL: the AlertEvaluationRun row and whether it was    *)
                (* created more than five minutes ago                      *)
  revision,     (* MySQL: per event its revision, 0 before it is created   *)
  due,          (* MySQL: the deliveries <<event, role>> that wait         *)
  sent,         (* MySQL: the deliveries that were sent                    *)
  left,         (* per worker: candidates to materialise, or Idle          *)
  faults

evaluationVars == <<evaluation, left>>

Idle == {"idle"}

Deliveries(e) == {e} \X Mandatory[e]

EvaluationInit ==
  /\ evaluation = [status |-> "absent", aged |-> FALSE]
  /\ left = [w \in Evaluators |-> Idle]

Fault == faults < MaxFaults /\ faults' = faults + 1

Busy(w) == left[w] # Idle

(* Fault: a run that is under way counts as under way for ever. *)
ClaimableUnlessRunning == evaluation.status \in {"absent", "failed"}

Claimable ==
  \/ evaluation.status \in {"absent", "failed"}
  \/ evaluation.status = "running" /\ evaluation.aged

(* The row is locked, judged and set to running in one transaction; its    *)
(* moment of creation stays.                                               *)
Claim(w) ==
  /\ ~Busy(w)
  /\ Claimable
  /\ evaluation' = [evaluation EXCEPT !.status = "running"]
  /\ left' = [left EXCEPT ![w] = Candidates]
  /\ UNCHANGED <<revision, due, sent, faults>>

(* A call that finds the row completed or under way ends at once. *)
TurnAway(w) ==
  /\ ~Busy(w)
  /\ ~Claimable
  /\ UNCHANGED <<evaluation, revision, due, sent, left, faults>>

(* Fault: a candidate that cannot be stored is skipped. *)
MaterializeOrSkip(w) ==
  \E c \in left[w] \ Idle :
    /\ left' = [left EXCEPT ![w] = @ \ {c}]
    /\ \/ Fault /\ UNCHANGED <<revision, due>>
       \/ /\ revision' = [revision EXCEPT ![c] = IF @ = 0 THEN 1 ELSE @]
          /\ due' = due \union (Deliveries(c) \ sent)
          /\ UNCHANGED faults
    /\ UNCHANGED <<evaluation, sent>>

(* The event and its missing deliveries, in one transaction; an event that *)
(* exists keeps its revision.                                              *)
Materialize(w) ==
  \E c \in left[w] \ Idle :
    /\ left' = [left EXCEPT ![w] = @ \ {c}]
    /\ revision' = [revision EXCEPT ![c] = IF @ = 0 THEN 1 ELSE @]
    /\ due' = due \union (Deliveries(c) \ sent)
    /\ UNCHANGED <<evaluation, sent, faults>>

Complete(w) ==
  /\ left[w] = {}
  /\ evaluation' = [evaluation EXCEPT !.status = "completed"]
  /\ left' = [left EXCEPT ![w] = Idle]
  /\ UNCHANGED <<revision, due, sent, faults>>

(* An exception of a detector or of the database: the row is saved as      *)
(* failed whatever another worker has made of it since.                    *)
Fail(w) ==
  /\ Busy(w)
  /\ Fault
  /\ evaluation' = [evaluation EXCEPT !.status = "failed"]
  /\ left' = [left EXCEPT ![w] = Idle]
  /\ UNCHANGED <<revision, due, sent>>

Crash(w) ==
  /\ Busy(w)
  /\ Fault
  /\ left' = [left EXCEPT ![w] = Idle]
  /\ UNCHANGED <<evaluation, revision, due, sent>>

FiveMinutesPass ==
  /\ evaluation.status # "absent" /\ ~evaluation.aged
  /\ evaluation' = [evaluation EXCEPT !.aged = TRUE]
  /\ UNCHANGED <<revision, due, sent, left, faults>>

EvaluationNext ==
  \/ \E w \in Evaluators :
       Claim(w) \/ TurnAway(w) \/ Materialize(w) \/ Complete(w) \/ Fail(w) \/ Crash(w)
  \/ FiveMinutesPass
=============================================================================
