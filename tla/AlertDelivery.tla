--------------------------- MODULE AlertDelivery ---------------------------
(***************************************************************************)
(* How an alert reaches people: the Celery workers of the alerts queue     *)
(* evaluate the target obligations once a minute (iwork/alerts/service.py) *)
(* and every five minutes send the deliveries that wait (alerts/tasks.py). *)
(* An event is opened, recovered and reopened under growing revisions;     *)
(* every mandatory role has one delivery row per event.                    *)
(*                                                                         *)
(* Each rule has one dimension here (one flow, or the daily summary), so   *)
(* one event.  A wakeup carries no content: whoever gets it reads the      *)
(* events, so sending announces the revision current at that moment.       *)
(* Bounds: MaxFlips changes of the obligations, MaxFaults faults.          *)
(***************************************************************************)
EXTENDS Naturals

CONSTANTS
  Workers,        (* Celery workers of the alerts queue                    *)
  Rules, Roles,   (* built-in rules, mandatory roles                       *)
  MaxFlips, MaxFaults

ASSUME DeliveryAssumption == MaxFlips \in Nat /\ MaxFaults \in Nat

VARIABLES
  abnormal,   (* MySQL: per rule, whether obligations are unfilled now     *)
  event,      (* MySQL: per rule, the AlertEvent row                       *)
  delivery,   (* MySQL: per rule and role, the NotificationDelivery row    *)
  told,       (* per rule and role, the last revision announced            *)
  pc,         (* per worker: idle, commit (evaluating), send or save       *)
  seen,       (* per worker: the rule it evaluates and what it read        *)
  batch,      (* per worker: revision of each delivery it claimed, else 0  *)
  sending,    (* per worker: the delivery being sent and its outcome       *)
  overlapped, (* history: two workers have been at work at once            *)
  flips, faults

rows  == <<abnormal, event, delivery, told>>
local == <<pc, seen, batch, sending>>
vars  == <<rows, local, overlapped, flips, faults>>

Deliveries == Rules \X Roles
Nothing    == "nothing"
EmptyBatch == [d \in Deliveries |-> 0]
Unread     == [rule |-> Nothing, abnormal |-> FALSE]
Unsending  == [delivery |-> <<Nothing, Nothing>>, ok |-> FALSE]

(* Obligations are unfilled at first: before that an evaluation does       *)
(* nothing, for there is no event to recover.                              *)
Init ==
  /\ abnormal = [r \in Rules |-> TRUE]
  /\ event = [r \in Rules |-> [status |-> "absent", revision |-> 0]]
  /\ delivery = [d \in Deliveries |-> [status |-> "absent", revision |-> 0, due |-> FALSE]]
  /\ told = EmptyBatch
  /\ pc = [w \in Workers |-> "idle"]
  /\ seen = [w \in Workers |-> Unread]
  /\ batch = [w \in Workers |-> EmptyBatch]
  /\ sending = [w \in Workers |-> Unsending]
  /\ overlapped = FALSE
  /\ flips = 0 /\ faults = 0

Fault      == faults < MaxFaults /\ faults' = faults + 1
Goto(w, s) == pc' = [pc EXCEPT ![w] = s]

(* A worker starts a task, perhaps while another one is busy. *)
Start(w, s) ==
  /\ pc[w] = "idle"
  /\ Goto(w, s)
  /\ overlapped' = (overlapped \/ \E v \in Workers \ {w} : pc[v] # "idle")

Claimed(w) == {d \in Deliveries : batch[w][d] # 0}

(* A target is saved or waived, a deadline passes, a leader is assigned. *)
ChangeObligations(r) ==
  /\ flips < MaxFlips
  /\ flips' = flips + 1
  /\ abnormal' = [abnormal EXCEPT ![r] = ~@]
  /\ UNCHANGED <<event, delivery, told, local, faults, overlapped>>

-----------------------------------------------------------------------------
(* reconcile_target_obligations_task *)

(* The obligations are read before the transaction, without locks. *)
ReadObligations(w, r) ==
  /\ Start(w, "commit")
  /\ seen' = [seen EXCEPT ![w] = [rule |-> r, abnormal |-> abnormal[r]]]
  /\ UNCHANGED <<rows, batch, sending, flips, faults>>

(* Fault: an event never recovers. *)
EvaluatedStaysOpen(e, ab) ==
  IF ab /\ e.status # "open" THEN [status |-> "open", revision |-> e.revision + 1] ELSE e

(* The event after an evaluation that read ab. *)
Evaluated(e, ab) ==
  IF ab = (e.status = "open") \/ (~ab /\ e.status = "absent") THEN e
  ELSE [status |-> IF ab THEN "open" ELSE "recovered", revision |-> e.revision + 1]

(* Fault: a row for an older revision is left alone. *)
EnsuredOnReset(d, e, reset) ==
  IF d.status = "absent" \/ reset
  THEN [status |-> "pending", revision |-> e.revision, due |-> FALSE]
  ELSE d

(* _ensure_role_delivery: create the row, or make it pending again if it   *)
(* is for another revision or the event has just recovered.                *)
Ensured(d, e, reset) ==
  IF d.status = "absent" \/ reset \/ d.revision # e.revision
  THEN [status |-> "pending", revision |-> e.revision, due |-> FALSE]
  ELSE d

(* Fault: a recovery does not reset the deliveries. *)
CommitKeepsDelivery(w) ==
  /\ pc[w] = "commit"
  /\ LET r == seen[w].rule
         e == Evaluated(event[r], seen[w].abnormal)
     IN /\ event' = [event EXCEPT ![r] = e]
        /\ delivery' = [d \in Deliveries |->
                          IF d[1] = r /\ seen[w].abnormal
                          THEN Ensured(delivery[d], e, FALSE) ELSE delivery[d]]
  /\ seen' = [seen EXCEPT ![w] = Unread]
  /\ Goto(w, "idle")
  /\ UNCHANGED <<abnormal, told, batch, sending, flips, faults, overlapped>>

(* One transaction updates the event and its deliveries: an open event     *)
(* every time, a recovered one only when it recovers.  A database error    *)
(* rolls it back.                                                          *)
CommitEvaluation(w) ==
  /\ pc[w] = "commit"
  /\ \/ LET r == seen[w].rule
            e == Evaluated(event[r], seen[w].abnormal)
            recovers == e # event[r] /\ e.status = "recovered"
        IN /\ event' = [event EXCEPT ![r] = e]
           /\ delivery' = [d \in Deliveries |->
                             IF d[1] = r /\ (seen[w].abnormal \/ recovers)
                             THEN Ensured(delivery[d], e, recovers) ELSE delivery[d]]
           /\ UNCHANGED faults
     \/ Fault /\ UNCHANGED <<event, delivery>>
  /\ seen' = [seen EXCEPT ![w] = Unread]
  /\ Goto(w, "idle")
  /\ UNCHANGED <<abnormal, told, batch, sending, flips, overlapped>>

-----------------------------------------------------------------------------
(* reconcile_alerts_task *)

Retryable(d) ==
  delivery[d].status = "pending" \/ (delivery[d].status \in {"failed", "sending"} /\ delivery[d].due)

(* One transaction claims every retryable delivery under a lease. *)
Claim(w) ==
  LET ready == {d \in Deliveries : Retryable(d)}
  IN /\ ready # {}
     /\ Start(w, "send")
     /\ delivery' = [d \in Deliveries |->
                       IF d \in ready THEN [delivery[d] EXCEPT !.status = "sending", !.due = FALSE]
                       ELSE delivery[d]]
     /\ batch' = [batch EXCEPT ![w] =
                    [d \in Deliveries |-> IF d \in ready THEN delivery[d].revision ELSE 0]]
     /\ UNCHANGED <<abnormal, event, told, seen, sending, flips, faults>>

(* The wakeup is published, or the publication fails. *)
Send(w) ==
  /\ pc[w] = "send"
  /\ \E d \in Claimed(w) :
       \/ /\ told' = [told EXCEPT ![d] = event[d[1]].revision]
          /\ sending' = [sending EXCEPT ![w] = [delivery |-> d, ok |-> TRUE]]
          /\ UNCHANGED faults
       \/ /\ Fault
          /\ sending' = [sending EXCEPT ![w] = [delivery |-> d, ok |-> FALSE]]
          /\ UNCHANGED told
  /\ Goto(w, "save")
  /\ UNCHANGED <<abnormal, event, delivery, seen, batch, flips, overlapped>>

(* Fault: a failed publication is saved as sent. *)
SaveAlwaysSent(w) ==
  LET d == sending[w].delivery
  IN /\ pc[w] = "save"
     /\ delivery' = [delivery EXCEPT ![d] =
                       [status |-> "sent", revision |-> batch[w][d], due |-> FALSE]]
     /\ sending' = [sending EXCEPT ![w] = Unsending]
     /\ batch' = [batch EXCEPT ![w][d] = 0]
     /\ Goto(w, IF Claimed(w) = {d} THEN "idle" ELSE "send")
     /\ UNCHANGED <<abnormal, event, told, seen, flips, faults, overlapped>>

(* The whole row is saved as it was claimed, with the outcome. *)
Save(w) ==
  LET d == sending[w].delivery
  IN /\ pc[w] = "save"
     /\ delivery' = [delivery EXCEPT ![d] =
                       [status   |-> IF sending[w].ok THEN "sent" ELSE "failed",
                        revision |-> batch[w][d], due |-> FALSE]]
     /\ sending' = [sending EXCEPT ![w] = Unsending]
     /\ batch' = [batch EXCEPT ![w][d] = 0]
     /\ Goto(w, IF Claimed(w) = {d} THEN "idle" ELSE "send")
     /\ UNCHANGED <<abnormal, event, told, seen, flips, faults, overlapped>>

(* A worker dies: its transaction is rolled back, its claims stay.  The    *)
(* beat schedule brings the task again.                                    *)
Crash(w) ==
  /\ pc[w] # "idle"
  /\ Fault
  /\ batch' = [batch EXCEPT ![w] = EmptyBatch]
  /\ seen' = [seen EXCEPT ![w] = Unread]
  /\ sending' = [sending EXCEPT ![w] = Unsending]
  /\ Goto(w, "idle")
  /\ UNCHANGED <<rows, flips, overlapped>>

(* next_retry_at passes: the back-off of a failure, the lease of a claim   *)
(* that a dead worker left or a live one has not sent in five minutes.     *)
RetryTimeComes(d) ==
  /\ ~delivery[d].due
  /\ delivery[d].status \in {"failed", "sending"}
  /\ delivery' = [delivery EXCEPT ![d].due = TRUE]
  /\ UNCHANGED <<abnormal, event, told, local, flips, faults, overlapped>>

Next ==
  \/ \E r \in Rules : ChangeObligations(r) \/ \E w \in Workers : ReadObligations(w, r)
  \/ \E w \in Workers : CommitEvaluation(w) \/ Claim(w) \/ Send(w) \/ Save(w) \/ Crash(w)
  \/ \E d \in Deliveries : RetryTimeComes(d)

Spec == Init /\ [][Next]_vars

(* Beat queues both tasks for ever and a worker takes its queue in order,  *)
(* so each gets its turn (strong fairness: a busy worker cannot start      *)
(* one); started work goes on and retry times come.                        *)
Fairness ==
  /\ \A r \in Rules : SF_vars(\E w \in Workers : ReadObligations(w, r))
  /\ SF_vars(\E w \in Workers : Claim(w))
  /\ \A w \in Workers : WF_vars(CommitEvaluation(w) \/ Send(w) \/ Save(w))
  /\ \A d \in Deliveries : WF_vars(RetryTimeComes(d))

FairSpec == Spec /\ Fairness

-----------------------------------------------------------------------------
(* Properties *)

(* As long as the workers take turns, as the one solo worker of production *)
(* does, a delivery that counts as sent has announced the event as it is:  *)
(* a revision nobody was told of still waits to be sent                    *)
(* (alerts/tasks.py:27-57, 146-159).                                       *)
UnannouncedIsUnsent ==
  \A d \in Deliveries :
    ~overlapped /\ told[d] < event[d[1]].revision => delivery[d].status # "sent"

(* However sends fail and workers die, once the obligations rest every     *)
(* event's last revision, a recovery included, is announced to every role, *)
(* if the workers have taken turns.                                        *)
LastRevisionIsAnnounced ==
  \A d \in Deliveries : <>[](overlapped \/ told[d] = event[d[1]].revision)

(* Even with several workers an event that stays open is announced: every  *)
(* evaluation makes a delivery pending that is for an older revision.      *)
OpenIsAnnounced ==
  \A d \in Deliveries : <>[](event[d[1]].status = "open" => told[d] = event[d[1]].revision)

(* Evaluations that act on stale reads are corrected: events end up open   *)
(* exactly for the rules whose obligations are unfilled.                   *)
EventFollowsObligations ==
  \A r \in Rules : <>[](event[r].status = "open" <=> abnormal[r])
=============================================================================
