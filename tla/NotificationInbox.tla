------------------------- MODULE NotificationInbox -------------------------
(***************************************************************************)
(* From an alert to the bell on a page.  Evaluations create and revise     *)
(* events; the reconciliation publishes a wake-up without content on a     *)
(* Redis channel; the listener of a web process puts it into the queue of  *)
(* each connection of the role (iwork/alerts/notification_events.py); the  *)
(* page then loads its list (iwork/alerts/api.py, notifications.js).       *)
(* Reading is recorded as the revision that was current at the click.      *)
(*                                                                         *)
(* One page of one account; the requests it has under way form a sequence  *)
(* in the order they began, so their answers may come in any order.        *)
(* Bounds: MaxRevision, MaxCalls requests under way, MaxFaults faults.     *)
(***************************************************************************)
EXTENDS AlertEvaluation, Sequences, SequencesExt

CONSTANTS
  Overdue,    (* events of the obligations: opened, recovered, reopened    *)
  Role,       (* role of the account                                       *)
  MaxRevision, MaxCalls,
  Apart       (* bound: the page is used after the evaluation has ended    *)

ASSUME InboxAssumption ==
  /\ Overdue \intersect Candidates = {}
  /\ MaxRevision \in Nat /\ MaxCalls \in Nat
  /\ Apart \in BOOLEAN

VARIABLES
  receipt,    (* MySQL: per event, the read_revision of the account        *)
  listening,  (* the process is subscribed to the channel                  *)
  connected,  (* the page's event stream is open                           *)
  queued,     (* a wake-up waits in the queue of the connection            *)
  calls,      (* the page's requests under way, oldest first               *)
  shown,      (* per event, what the page shows: nothing, unread, read     *)
  marked,     (* history: per event, the last revision a mark has read     *)
  crossed,    (* history: events last marked by one of two marks at once   *)
  behind      (* history: something was lost since the page's last load    *)

stream    == <<listening, connected, queued>>
page      == <<calls, shown, behind>>
marks     == <<receipt, marked, crossed>>
alertVars == <<revision, due, sent, faults>>
inbox     == <<stream, page, marks>>
vars      == <<evaluationVars, alertVars, inbox>>

Events     == Overdue \union Candidates
(* What the account may see: the events whose rule has its role. *)
Visible    == {e \in Events : Role \in Mandatory[e]}
Unmarked   == [e \in Visible |-> 0]
Nothing    == [e \in Visible |-> "nothing"]

(* Requests: the list or a mark of some events.  Each is sent, has read    *)
(* the revisions, has its answer; a list is late once a list that began    *)
(* after it is on the page.                                                *)
List    == [kind |-> "list", events |-> {}, step |-> "sent", read |-> Unmarked,
            answer |-> Nothing, late |-> FALSE]
Mark(E) == [List EXCEPT !.kind = "mark", !.events = E]

Init ==
  /\ EvaluationInit
  /\ revision = [e \in Events |-> 0]
  /\ due = {} /\ sent = {} /\ faults = 0
  /\ receipt = Unmarked /\ marked = Unmarked /\ crossed = {}
  /\ listening = FALSE /\ connected = FALSE /\ queued = FALSE
  /\ calls = <<List>>
  /\ shown = Nothing
  /\ behind = FALSE

Begin(c) == Len(calls) < MaxCalls /\ calls' = Append(calls, c)

-----------------------------------------------------------------------------
(* The alerts workers *)

(* Obligations open, recover or reopen the event; its deliveries wait.     *)
Revise(e) ==
  /\ revision[e] < MaxRevision
  /\ revision' = [revision EXCEPT ![e] = @ + 1]
  /\ due' = due \union Deliveries(e)
  /\ sent' = sent \ Deliveries(e)
  /\ UNCHANGED <<evaluationVars, faults, stream, page, marks>>

Reaches(d) == d[2] = Role /\ listening /\ connected

(* A wake-up is published and the delivery is sent.  Whoever is not        *)
(* subscribed at that moment does not hear of it.                          *)
Announce(d) ==
  /\ d \in due
  /\ due' = due \ {d}
  /\ sent' = sent \union {d}
  /\ queued' = (queued \/ Reaches(d))
  /\ behind' = (behind \/ (d[2] = Role /\ ~Reaches(d)))
  /\ UNCHANGED <<evaluationVars, revision, faults, listening, connected, calls, shown, marks>>

-----------------------------------------------------------------------------
(* The web process *)

(* The listener subscribes while there are connections. *)
Listen ==
  /\ connected /\ ~listening
  /\ listening' = TRUE
  /\ UNCHANGED <<evaluationVars, alertVars, connected, queued, page, marks>>

Unlisten ==
  /\ listening
  /\ Fault
  /\ listening' = FALSE
  /\ UNCHANGED <<evaluationVars, revision, due, sent, connected, queued, page, marks>>

Connect ==
  /\ ~connected
  /\ connected' = TRUE
  /\ UNCHANGED <<evaluationVars, alertVars, listening, queued, page, marks>>

(* The lease of sixty seconds ends, a wake-up in the queue with it; the    *)
(* listener stops with the last connection.                                *)
Disconnect ==
  /\ connected
  /\ connected' = FALSE /\ listening' = FALSE /\ queued' = FALSE
  /\ behind' = (behind \/ queued)
  /\ UNCHANGED <<evaluationVars, alertVars, calls, shown, marks>>

(* Fault: a page that is loading its list already ignores the wake-up. *)
DeliverUnlessLoading ==
  /\ connected /\ queued
  /\ queued' = FALSE
  /\ \/ Begin(List) /\ \A i \in DOMAIN calls : calls[i].kind # "list"
     \/ UNCHANGED calls /\ \E i \in DOMAIN calls : calls[i].kind = "list"
  /\ behind' = FALSE
  /\ UNCHANGED <<evaluationVars, alertVars, listening, connected, shown, marks>>

(* The connection sends the wake-up and the page begins a list. *)
Deliver ==
  /\ connected /\ queued
  /\ queued' = FALSE
  /\ Begin(List)
  /\ behind' = FALSE
  /\ UNCHANGED <<evaluationVars, alertVars, listening, connected, shown, marks>>

-----------------------------------------------------------------------------
(* The page and its requests *)

(* The drawer is opened. *)
OpenDrawer ==
  /\ Begin(List)
  /\ behind' = FALSE
  /\ UNCHANGED <<evaluationVars, alertVars, stream, shown, marks>>

(* A click on one unread event, or on "read all". *)
ClickMark ==
  /\ \E E \in {{e} : e \in {e \in Visible : shown[e] = "unread"}} \union {Visible} : Begin(Mark(E))
  /\ UNCHANGED <<evaluationVars, alertVars, stream, shown, behind, marks>>

Step(i, k, s) == i \in DOMAIN calls /\ calls[i].kind = k /\ calls[i].step = s

(* Fault: a receipt of any revision counts. *)
AnswerByReceipt(revisions) ==
  [e \in Visible |-> IF revisions[e] = 0 THEN "nothing"
                     ELSE IF receipt[e] > 0 THEN "read" ELSE "unread"]

(* The answer of a list: the events, read then, with the receipts of now.  *)
Answer(revisions) ==
  [e \in Visible |-> IF revisions[e] = 0 THEN "nothing"
                    ELSE IF receipt[e] >= revisions[e] THEN "read" ELSE "unread"]

ReadEvents(i) ==
  /\ Step(i, "list", "sent")
  /\ calls' = [calls EXCEPT ![i].step = "read", ![i].read = [e \in Visible |-> revision[e]]]
  /\ UNCHANGED <<evaluationVars, alertVars, stream, shown, behind, marks>>

ReadReceipts(i) ==
  /\ Step(i, "list", "read")
  /\ calls' = [calls EXCEPT ![i].step = "answered", ![i].read = Unmarked,
                            ![i].answer = Answer(calls[i].read)]
  /\ UNCHANGED <<evaluationVars, alertVars, stream, shown, behind, marks>>

(* Lists are rendered as their answers come, in whatever order. *)
Render(i) ==
  /\ Step(i, "list", "answered")
  /\ shown' = calls[i].answer
  /\ behind' = (behind \/ calls[i].late)
  /\ calls' = RemoveAt([j \in DOMAIN calls |->
                IF j < i THEN [calls[j] EXCEPT !.late = @ \/ calls[j].kind = "list"] ELSE calls[j]], i)
  /\ UNCHANGED <<evaluationVars, alertVars, stream, marks>>

(* Another mark of the same event that has read but not written yet. *)
Crossing(i, j) ==
  /\ i # j /\ calls[j].kind = "mark" /\ calls[j].step = "read"
  /\ calls[i].events \intersect calls[j].events # {}

(* The mark reads the revisions of its events as they are now. *)
ReadRevision(i) ==
  /\ Step(i, "mark", "sent")
  /\ calls' = [j \in DOMAIN calls |->
       IF j = i THEN [calls[j] EXCEPT !.step = "read",
                       !.read = [e \in Visible |-> IF e \in calls[i].events THEN revision[e] ELSE 0],
                       !.late = \E k \in DOMAIN calls : Crossing(i, k)]
       ELSE [calls[j] EXCEPT !.late = @ \/ Crossing(i, j)]]
  /\ UNCHANGED <<evaluationVars, alertVars, stream, shown, behind, marks>>

(* ... and stores them; then the page begins a list. *)
CommitMark(i) ==
  LET mark == calls[i]
      Stored == {e \in mark.events : mark.read[e] # 0}
  IN /\ Step(i, "mark", "read")
     /\ receipt' = [e \in Visible |-> IF e \in Stored THEN mark.read[e] ELSE receipt[e]]
     /\ marked' = [e \in Visible |-> IF mark.read[e] > marked[e] THEN mark.read[e] ELSE marked[e]]
     /\ crossed' = IF mark.late THEN crossed \union Stored ELSE crossed \ Stored
     /\ calls' = Append(RemoveAt(calls, i), List)
     /\ behind' = FALSE
     /\ UNCHANGED <<evaluationVars, alertVars, stream, shown>>

(* A request or its answer is lost: the page logs it and stays as it is. *)
Lose(i) ==
  /\ i \in DOMAIN calls
  /\ Fault
  /\ calls' = RemoveAt(calls, i)
  /\ behind' = TRUE
  /\ UNCHANGED <<evaluationVars, revision, due, sent, stream, shown, marks>>

-----------------------------------------------------------------------------
Proceed(i) ==
  ReadEvents(i) \/ ReadReceipts(i) \/ Render(i) \/ ReadRevision(i) \/ CommitMark(i)

InboxNext ==
  \/ \E e \in Overdue : Revise(e)
  \/ \E d \in UNION {Deliveries(e) : e \in Events} : Announce(d)
  \/ Listen \/ Unlisten \/ Connect \/ Disconnect \/ Deliver
  \/ OpenDrawer \/ ClickMark
  \/ \E i \in 1..MaxCalls : Proceed(i) \/ Lose(i)

Settled       == evaluation.status = "completed" /\ \A w \in Evaluators : ~Busy(w)
Evaluating(A) == (Apart => ~Settled) /\ A /\ UNCHANGED inbox
Using(A)      == (Apart => Settled) /\ A

Next == Evaluating(EvaluationNext) \/ Using(InboxNext)

(* The reconciliation runs every five minutes and clocks go on; a worker   *)
(* finishes what it does; answers come; the stream reconnects and its      *)
(* loop sends what is queued.  Nobody has to open the drawer or to click.  *)
Fairness ==
  /\ WF_vars(Evaluating(\E w \in Evaluators : Claim(w)))
  /\ WF_vars(Evaluating(FiveMinutesPass))
  /\ \A w \in Evaluators : WF_vars(Evaluating(Materialize(w) \/ Complete(w)))
  /\ \A d \in UNION {Deliveries(e) : e \in Events} : WF_vars(Using(Announce(d)))
  /\ WF_vars(Using(Listen)) /\ WF_vars(Using(Connect)) /\ WF_vars(Using(Deliver))
  /\ \A i \in 1..MaxCalls : WF_vars(Using(Proceed(i)))

Spec == Init /\ [][Next]_vars /\ Fairness

-----------------------------------------------------------------------------
(* The row of a snapshot says "completed" only when each candidate has     *)
(* become an event that waits for, or was sent to, each mandatory role,    *)
(* whichever workers shared the work, failed or died (service.py:143).     *)
CompletedIsMaterialised ==
  evaluation.status = "completed" =>
    \A c \in Candidates : revision[c] > 0 /\ Deliveries(c) \subseteq due \union sent

(* The current snapshot is evaluated in the end: a worker that died leaves *)
(* a running row, which is taken over after five minutes (service.py:117). *)
SnapshotIsEvaluated == <>[](evaluation.status = "completed")

(* An event reads as read exactly when a mark of the account has read the  *)
(* revision it has now.  Only two marks of one event at once may take      *)
(* that back, until the next mark: the later commit may hold the older     *)
(* revision (api.py:346).                                                  *)
MarksHold ==
  \A e \in Visible :
    /\ Answer(revision)[e] = "read" => marked[e] = revision[e]
    /\ (marked[e] = revision[e] /\ revision[e] > 0 /\ e \notin crossed) => Answer(revision)[e] = "read"

(* The page shows what is true at last, unless a wake-up, a request or the *)
(* order of two answers was lost after its last load (notifications.js).   *)
PageCatchesUp == <>[](behind \/ shown = Answer(revision))
=============================================================================
