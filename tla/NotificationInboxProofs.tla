----------------------- MODULE NotificationInboxProofs -----------------------
(***************************************************************************)
(* A completed evaluation has made every event, and a mark holds for the   *)
(* revision it has read: for any number of workers, events, faults and     *)
(* requests under way, whether or not the page is used meanwhile.          *)
(***************************************************************************)
EXTENDS NotificationInbox, TLAPS

Statuses == {"absent", "running", "completed", "failed"}
Looks    == [Visible -> {"nothing", "unread", "read"}]
Calls    == [kind : {"list", "mark"}, events : SUBSET Visible,
             step : {"sent", "read", "answered"}, read : [Visible -> Nat],
             answer : Looks, late : BOOLEAN]

EvaluationTyped ==
  /\ evaluation \in [status : Statuses, aged : BOOLEAN]
  /\ left \in [Evaluators -> (SUBSET Candidates) \cup {Idle}]
  /\ revision \in [Events -> Nat]
  /\ faults \in Nat
MarksTyped ==
  /\ calls \in Seq(Calls)
  /\ receipt \in [Visible -> Nat] /\ marked \in [Visible -> Nat]
  /\ crossed \subseteq Visible

(* What a worker no longer has to materialise, and what all of them had to *)
(* when the row says "completed", is there.                                *)
Materialised(c) == revision[c] > 0 /\ Deliveries(c) \subseteq due \cup sent
Worked ==
  /\ \A w \in Evaluators : Busy(w) => \A c \in Candidates \ left[w] : Materialised(c)
  /\ evaluation.status = "completed" => \A c \in Candidates : Materialised(c)

(* A mark never reads or stores a revision that does not exist yet, and    *)
(* the receipt is the last revision marked, unless marks have crossed.     *)
Recorded ==
  \A e \in Visible :
    /\ receipt[e] <= marked[e] /\ marked[e] <= revision[e]
    /\ e \notin crossed => receipt[e] = marked[e]

Marking(c) == c.kind = "mark" /\ c.step = "read"

(* A mark that has read and nobody crossed since will store the newest     *)
(* revision that was marked.                                               *)
Fresh(c, now, newest) ==
  Marking(c) => /\ \A e \in Visible : c.read[e] <= now[e] /\ (c.read[e] # 0 => e \in c.events)
                /\ ~c.late => \A e \in c.events : newest[e] <= c.read[e]
Meet(c, d) ==
  (Marking(c) /\ Marking(d) /\ c.events \cap d.events # {}) => c.late /\ d.late

(* Over a sequence of requests, so that lemmas can speak of the next one.  *)
Reads(s, now, newest) ==
  /\ \A i \in DOMAIN s : Fresh(s[i], now, newest)
  /\ \A i, j \in DOMAIN s : i # j => Meet(s[i], s[j])
Read == Reads(calls, revision, marked)

IInv == EvaluationTyped /\ MarksTyped /\ Worked /\ Recorded /\ Read

-----------------------------------------------------------------------------
(* Sequences of requests *)

(* Where an element of a sequence stood before the i-th was removed. *)
Origin(i, j) == IF j < i THEN j ELSE j + 1

LEMMA Removal ==
  ASSUME NEW S, NEW s \in Seq(S), NEW i \in DOMAIN s
  PROVE  /\ RemoveAt(s, i) \in Seq(S)
         /\ \A j \in DOMAIN RemoveAt(s, i) :
              /\ Origin(i, j) \in DOMAIN s
              /\ RemoveAt(s, i)[j] = s[Origin(i, j)]
<1> DEFINE a == SubSeq(s, 1, i - 1)
           b == SubSeq(s, i + 1, Len(s))
<1>1. i \in 1..Len(s) /\ Len(s) \in Nat
  OBVIOUS
<1>2. /\ a \in Seq(S) /\ Len(a) = i - 1
      /\ \A j \in 1..(i - 1) : a[j] = s[j]
  BY <1>1
<1>3. /\ b \in Seq(S) /\ Len(b) = Len(s) - i
      /\ \A j \in 1..(Len(s) - i) : b[j] = s[i + j]
  BY <1>1
<1>4. RemoveAt(s, i) = a \o b
  BY DEF RemoveAt
<1> HIDE DEF a, b
<1>5. a \o b \in Seq(S) /\ Len(a \o b) = Len(s) - 1
  BY <1>1, <1>2, <1>3
<1>6. ASSUME NEW j \in DOMAIN (a \o b)
      PROVE  Origin(i, j) \in DOMAIN s /\ (a \o b)[j] = s[Origin(i, j)]
  <2>1. j \in 1..(Len(s) - 1)
    BY <1>5, <1>6
  <2>2. CASE j < i
    BY <1>1, <1>2, <1>3, <2>1, <2>2 DEF Origin
  <2>3. CASE ~(j < i)
    <3>1. (a \o b)[j] = b[j - (i - 1)]
      BY <1>1, <1>2, <1>3, <2>1, <2>3
    <3>2. b[j - (i - 1)] = s[i + (j - (i - 1))]
      BY <1>1, <1>3, <2>1, <2>3
    <3> QED
      BY <1>1, <2>1, <2>3, <3>1, <3>2 DEF Origin
  <2> QED
    BY <2>2, <2>3
<1> QED
  BY <1>4, <1>5, <1>6

(* A request that goes leaves the others as they were. *)
LEMMA ReadsWithout ==
  ASSUME NEW s \in Seq(Calls), NEW i \in DOMAIN s, NEW now, NEW newest,
         Reads(s, now, newest)
  PROVE  /\ RemoveAt(s, i) \in Seq(Calls)
         /\ Reads(RemoveAt(s, i), now, newest)
<1> DEFINE t == RemoveAt(s, i)
<1>1. /\ t \in Seq(Calls)
      /\ \A j \in DOMAIN t : Origin(i, j) \in DOMAIN s /\ t[j] = s[Origin(i, j)]
  BY Removal
<1> HIDE DEF t
<1>2. \A j \in DOMAIN t : Fresh(t[j], now, newest)
  BY <1>1 DEF Reads
<1>3. ASSUME NEW j \in DOMAIN t, NEW k \in DOMAIN t, j # k
      PROVE  Meet(t[j], t[k])
  <2>1. i \in Nat /\ j \in Nat /\ k \in Nat
    BY <1>1, <1>3
  <2>2. Origin(i, j) # Origin(i, k)
    BY <1>3, <2>1 DEF Origin
  <2> QED
    BY <1>1, <2>2 DEF Reads
<1>4. Reads(t, now, newest)
  BY <1>2, <1>3 DEF Reads
<1> QED
  BY <1>1, <1>4 DEF t

(* A request that begins has read nothing yet. *)
LEMMA ReadsWith ==
  ASSUME NEW s \in Seq(Calls), NEW c \in Calls, ~Marking(c), NEW now, NEW newest,
         Reads(s, now, newest)
  PROVE  /\ Append(s, c) \in Seq(Calls)
         /\ Reads(Append(s, c), now, newest)
<1> DEFINE t == Append(s, c)
<1>1. /\ t \in Seq(Calls)
      /\ \A j \in DOMAIN t : (j \in DOMAIN s /\ t[j] = s[j]) \/ t[j] = c
  OBVIOUS
<1> HIDE DEF t
<1>2. \A j \in DOMAIN t : Fresh(t[j], now, newest)
  BY <1>1 DEF Reads, Fresh
<1>3. \A j, k \in DOMAIN t : j # k => Meet(t[j], t[k])
  BY <1>1 DEF Reads, Meet
<1> QED
  BY <1>1, <1>2, <1>3 DEF Reads, t

(* Requests that change in what is no mark keep their order and number. *)
LEMMA ReadsAlike ==
  ASSUME NEW s \in Seq(Calls), NEW t \in Seq(Calls), Len(t) = Len(s), NEW now, NEW newest,
         \A j \in DOMAIN s : Marking(t[j]) => t[j] = s[j],
         Reads(s, now, newest)
  PROVE  Reads(t, now, newest)
<1>1. DOMAIN t = DOMAIN s
  OBVIOUS
<1>2. \A j \in DOMAIN t : Fresh(t[j], now, newest)
  BY <1>1 DEF Reads, Fresh
<1>3. \A j, k \in DOMAIN t : j # k => Meet(t[j], t[k])
  BY <1>1 DEF Reads, Meet
<1> QED
  BY <1>2, <1>3 DEF Reads

(* What was read stays in time while revisions grow. *)
LEMMA ReadsLater ==
  ASSUME NEW s \in Seq(Calls), NEW newest,
         NEW now \in [Events -> Nat], NEW then \in [Events -> Nat],
         \A e \in Events : now[e] <= then[e],
         Reads(s, now, newest)
  PROVE  Reads(s, then, newest)
<1>1. ASSUME NEW i \in DOMAIN s
      PROVE  Fresh(s[i], then, newest)
  <2>0. s[i] \in Calls
    OBVIOUS
  <2>1. s[i].read \in [Visible -> Nat]
    BY <2>0 DEF Calls
  <2>2. Fresh(s[i], now, newest)
    BY DEF Reads
  <2> QED
    BY <2>1, <2>2 DEF Fresh, Visible
<1> QED
  BY <1>1 DEF Reads

-----------------------------------------------------------------------------
(* The evaluations *)

LEMMA Apartness ==
  /\ "idle" \notin Candidates /\ MaxFaults \in Nat
  /\ Overdue \cap Candidates = {} /\ MaxRevision \in Nat /\ MaxCalls \in Nat
  /\ {} # Idle /\ Candidates # Idle
BY EvaluationAssumption, InboxAssumption DEF Idle

(* As the alerts workers move, revisions grow and nothing of the page's    *)
(* marks changes.                                                          *)
LEMMA MarksRest ==
  ASSUME MarksTyped, Recorded, Read, revision \in [Events -> Nat],
         revision' \in [Events -> Nat], \A e \in Events : revision[e] <= revision'[e],
         calls' = calls, UNCHANGED marks
  PROVE  MarksTyped' /\ Recorded' /\ Read'
<1>1. UNCHANGED <<calls, receipt, marked, crossed>>
  BY DEF marks
<1>2. MarksTyped'
  BY <1>1 DEF MarksTyped
<1>3. Recorded'
  BY <1>1 DEF Recorded, MarksTyped, Visible
<1>4. calls \in Seq(Calls)
  BY DEF MarksTyped
<1>5. Reads(calls, revision', marked)
  BY <1>4, ReadsLater DEF Read
<1>6. Read'
  BY <1>1, <1>5 DEF Read
<1> QED
  BY <1>2, <1>3, <1>6

LEMMA EvaluationMoves ==
  ASSUME EvaluationTyped, Worked, EvaluationNext
  PROVE  EvaluationTyped' /\ Worked' /\ \A e \in Events : revision[e] <= revision'[e]
<1> USE Apartness
<1>0. \A e \in Candidates : e \in Events
  BY DEF Events
<1>1. ASSUME NEW w \in Evaluators, Claim(w)
      PROVE  EvaluationTyped' /\ Worked' /\ UNCHANGED revision
  <2>1. EvaluationTyped'
    BY <1>1 DEF Claim, EvaluationTyped, Statuses
  <2>2. Worked'
    BY <1>1 DEF Claim, EvaluationTyped, Worked, Materialised, Busy, Statuses
  <2> QED
    BY <1>1, <2>1, <2>2 DEF Claim
<1>2. ASSUME NEW w \in Evaluators, TurnAway(w)
      PROVE  EvaluationTyped' /\ Worked' /\ UNCHANGED revision
  BY <1>2 DEF TurnAway, EvaluationTyped, Worked, Materialised, Busy
<1>3. ASSUME NEW w \in Evaluators, Materialize(w)
      PROVE  /\ EvaluationTyped' /\ Worked'
             /\ \A e \in Events : revision[e] <= revision'[e]
  <2>1. PICK c \in left[w] \ Idle :
          /\ left' = [left EXCEPT ![w] = @ \ {c}]
          /\ revision' = [revision EXCEPT ![c] = IF @ = 0 THEN 1 ELSE @]
          /\ due' = due \union (Deliveries(c) \ sent)
    BY <1>3 DEF Materialize
  <2>2. UNCHANGED <<evaluation, sent, faults>>
    BY <1>3 DEF Materialize
  <2>3. /\ left[w] # Idle /\ left[w] \subseteq Candidates
        /\ c \in Candidates /\ c \in Events
    BY <1>0, <2>1 DEF EvaluationTyped, Idle
  <2>4. /\ left[w] \ {c} \subseteq Candidates
        /\ left' \in [Evaluators -> (SUBSET Candidates) \cup {Idle}]
    BY <2>1, <2>3 DEF EvaluationTyped
  <2>5. /\ revision' \in [Events -> Nat] /\ \A e \in Events : revision[e] <= revision'[e]
        /\ revision'[c] > 0
    BY <2>1, <2>3 DEF EvaluationTyped
  <2>6. EvaluationTyped'
    BY <2>2, <2>4, <2>5 DEF EvaluationTyped
  <2>7. \A d \in Candidates : Materialised(d) => Materialised(d)'
    BY <1>0, <2>1, <2>2, <2>5 DEF Materialised, EvaluationTyped
  <2>8. Materialised(c)'
    BY <2>1, <2>2, <2>5 DEF Materialised
  <2>9. ASSUME NEW v \in Evaluators, Busy(v)', NEW d \in Candidates \ left'[v]
        PROVE  Materialised(d)'
    <3>1. CASE v = w
      <4>1. left'[w] = left[w] \ {c} /\ Busy(w)
        BY <2>1, <2>3 DEF EvaluationTyped, Busy
      <4> QED
        BY <2>7, <2>8, <2>9, <3>1, <4>1 DEF Worked
    <3>2. CASE v # w
      <4>1. left'[v] = left[v] /\ Busy(v)
        BY <2>1, <2>9, <3>2 DEF EvaluationTyped, Busy
      <4> QED
        BY <2>7, <2>9, <4>1 DEF Worked
    <3> QED
      BY <3>1, <3>2
  <2>10. Worked'
    BY <2>2, <2>7, <2>9 DEF Worked
  <2> QED
    BY <2>5, <2>6, <2>10
<1>4. ASSUME NEW w \in Evaluators, Complete(w)
      PROVE  EvaluationTyped' /\ Worked' /\ UNCHANGED revision
  <2>1. EvaluationTyped'
    BY <1>4 DEF Complete, EvaluationTyped, Statuses
  <2>2. \A d \in Candidates : Materialised(d)
    BY <1>4 DEF Complete, Worked, Busy
  <2>3. Worked'
    BY <1>4, <2>2 DEF Complete, Worked, Materialised
  <2> QED
    BY <1>4, <2>1, <2>3 DEF Complete
<1>5. ASSUME NEW w \in Evaluators, Fail(w) \/ Crash(w)
      PROVE  EvaluationTyped' /\ Worked' /\ UNCHANGED revision
  <2>1. EvaluationTyped'
    BY <1>5 DEF Fail, Crash, Fault, EvaluationTyped, Statuses
  <2>2. Worked'
    BY <1>5 DEF Fail, Crash, EvaluationTyped, Worked, Materialised, Busy, Statuses
  <2> QED
    BY <1>5, <2>1, <2>2 DEF Fail, Crash
<1>6. ASSUME FiveMinutesPass
      PROVE  EvaluationTyped' /\ Worked' /\ UNCHANGED revision
  BY <1>6 DEF FiveMinutesPass, EvaluationTyped, Statuses, Worked, Materialised, Busy
<1>7. UNCHANGED revision => \A e \in Events : revision[e] <= revision'[e]
  BY DEF EvaluationTyped
<1> QED
  BY <1>1, <1>2, <1>3, <1>4, <1>5, <1>6, <1>7 DEF EvaluationNext

LEMMA EvaluationKeeps ==
  ASSUME IInv, EvaluationNext, UNCHANGED inbox
  PROVE  IInv'
<1>1. EvaluationTyped' /\ Worked' /\ \A e \in Events : revision[e] <= revision'[e]
  BY EvaluationMoves DEF IInv
<1>2. calls' = calls /\ UNCHANGED marks
  BY DEF inbox, page, marks
<1>3. revision \in [Events -> Nat] /\ revision' \in [Events -> Nat]
  BY <1>1 DEF IInv, EvaluationTyped
<1>4. MarksTyped' /\ Recorded' /\ Read'
  BY <1>1, <1>2, <1>3, MarksRest DEF IInv
<1> QED
  BY <1>1, <1>4 DEF IInv

(* The obligations revise their own events, and what is sent was due.      *)
LEMMA ReviseKeeps ==
  ASSUME IInv, NEW e \in Overdue, Revise(e)
  PROVE  IInv'
<1>1. /\ revision' = [revision EXCEPT ![e] = @ + 1]
      /\ due' = due \union Deliveries(e)
      /\ sent' = sent \ Deliveries(e)
      /\ UNCHANGED <<evaluation, left, faults, calls>> /\ UNCHANGED marks
  BY DEF Revise, evaluationVars, page
<1>2. /\ revision \in [Events -> Nat] /\ revision' \in [Events -> Nat]
      /\ \A f \in Events : revision[f] <= revision'[f]
      /\ \A f \in Events : f # e => revision'[f] = revision[f]
  BY <1>1 DEF IInv, EvaluationTyped, Events
<1>3. EvaluationTyped'
  BY <1>1, <1>2 DEF IInv, EvaluationTyped
<1>4. ASSUME NEW c \in Candidates, Materialised(c)
      PROVE  Materialised(c)'
  <2>1. c # e /\ c \in Events
    BY Apartness DEF Events
  <2>2. Deliveries(c) \cap Deliveries(e) = {}
    BY <2>1 DEF Deliveries
  <2> QED
    BY <1>1, <1>2, <1>4, <2>1, <2>2 DEF Materialised
<1>5. Worked'
  BY <1>1, <1>4 DEF IInv, Worked, Busy
<1>6. MarksTyped' /\ Recorded' /\ Read'
  BY <1>1, <1>2, MarksRest DEF IInv
<1> QED
  BY <1>3, <1>5, <1>6 DEF IInv

(* Steps that leave the events and their deliveries' union alone.          *)
LEMMA WorkRests ==
  ASSUME IInv, UNCHANGED <<evaluation, left, revision>>, faults' \in Nat,
         due' \cup sent' = due \cup sent
  PROVE  EvaluationTyped' /\ Worked'
<1>1. EvaluationTyped'
  BY DEF IInv, EvaluationTyped
<1>2. \A c \in Candidates : Materialised(c)' = Materialised(c)
  BY DEF Materialised
<1>3. Worked'
  BY <1>2 DEF IInv, Worked, Busy
<1> QED
  BY <1>1, <1>3

(* Steps of the page that change no mark: only requests under way.         *)
LEMMA RequestsMove ==
  ASSUME IInv, UNCHANGED <<evaluation, left, revision>>, faults' \in Nat,
         due' \cup sent' = due \cup sent, UNCHANGED marks,
         calls' \in Seq(Calls), Reads(calls', revision, marked)
  PROVE  IInv'
<1>1. EvaluationTyped' /\ Worked'
  BY WorkRests
<1>2. MarksTyped' /\ Recorded'
  BY DEF IInv, MarksTyped, Recorded, marks
<1>3. Read'
  BY DEF Read, marks
<1> QED
  BY <1>1, <1>2, <1>3 DEF IInv

-----------------------------------------------------------------------------
(* The page *)

LEMMA BeginKeeps ==
  ASSUME IInv, NEW c \in Calls, ~Marking(c), Begin(c)
  PROVE  calls' \in Seq(Calls) /\ Reads(calls', revision, marked)
BY ReadsWith DEF Begin, IInv, MarksTyped, Read

LEMMA NewRequests ==
  /\ List \in Calls /\ ~Marking(List)
  /\ \A E \in SUBSET Visible : Mark(E) \in Calls /\ ~Marking(Mark(E))
BY DEF List, Mark, Calls, Looks, Unmarked, Nothing, Marking

LEMMA ListKeeps ==
  ASSUME IInv, NEW i \in DOMAIN calls, ~Marking(calls[i]), NEW c \in Calls, ~Marking(c)
  PROVE  /\ [calls EXCEPT ![i] = c] \in Seq(Calls)
         /\ Reads([calls EXCEPT ![i] = c], revision, marked)
<1>1. calls \in Seq(Calls) /\ Reads(calls, revision, marked)
  BY DEF IInv, MarksTyped, Read
<1>2. [calls EXCEPT ![i] = c] \in Seq(Calls) /\ Len([calls EXCEPT ![i] = c]) = Len(calls)
  BY <1>1
<1>3. \A j \in DOMAIN calls :
        Marking([calls EXCEPT ![i] = c][j]) => [calls EXCEPT ![i] = c][j] = calls[j]
  BY <1>1
<1> QED
  BY <1>1, <1>2, <1>3, ReadsAlike

(* What a list answers is what the page can show. *)
LEMMA Answers ==
  ASSUME NEW revisions \in [Visible -> Nat]
  PROVE  Answer(revisions) \in Looks
BY DEF Answer, Looks

LEMMA ListsKeep ==
  ASSUME IInv, NEW i \in 1..MaxCalls, ReadEvents(i) \/ ReadReceipts(i)
  PROVE  IInv'
<1>0. calls \in Seq(Calls) /\ i \in DOMAIN calls /\ ~Marking(calls[i]) /\ calls[i] \in Calls
  BY DEF IInv, MarksTyped, ReadEvents, ReadReceipts, Step, Marking
<1>1. PICK c \in Calls : ~Marking(c) /\ calls' = [calls EXCEPT ![i] = c]
  <2>1. CASE ReadEvents(i)
    <3> DEFINE c == [calls[i] EXCEPT !.step = "read", !.read = [e \in Visible |-> revision[e]]]
    <3>1. calls' = [calls EXCEPT ![i] = c]
      BY <2>1 DEF ReadEvents
    <3>2. [e \in Visible |-> revision[e]] \in [Visible -> Nat]
      BY DEF IInv, EvaluationTyped, Visible
    <3>3. c \in Calls /\ c.kind = "list"
      BY <1>0, <2>1, <3>2 DEF Calls, ReadEvents, Step
    <3> QED
      BY <3>1, <3>3 DEF Marking
  <2>2. CASE ReadReceipts(i)
    <3> DEFINE c == [calls[i] EXCEPT !.step = "answered", !.read = Unmarked,
                                     !.answer = Answer(calls[i].read)]
    <3>1. calls' = [calls EXCEPT ![i] = c]
      BY <2>2 DEF ReadReceipts
    <3>2. Answer(calls[i].read) \in Looks /\ Unmarked \in [Visible -> Nat]
      BY <1>0, Answers DEF Calls, Unmarked
    <3>3. c \in Calls /\ c.kind = "list"
      BY <1>0, <2>2, <3>2 DEF Calls, ReadReceipts, Step
    <3> QED
      BY <3>1, <3>3 DEF Marking
  <2> QED
    BY <2>1, <2>2
<1>2. calls' \in Seq(Calls) /\ Reads(calls', revision, marked)
  BY <1>0, <1>1, ListKeeps
<1>3. /\ UNCHANGED <<evaluation, left, revision, due, sent, faults>> /\ UNCHANGED marks
  BY DEF ReadEvents, ReadReceipts, evaluationVars, alertVars
<1>4. faults' \in Nat
  BY <1>3 DEF IInv, EvaluationTyped
<1> QED
  BY <1>2, <1>3, <1>4, RequestsMove

LEMMA RenderKeeps ==
  ASSUME IInv, NEW i \in 1..MaxCalls, Render(i)
  PROVE  IInv'
<1> DEFINE s == [j \in DOMAIN calls |->
                   IF j < i THEN [calls[j] EXCEPT !.late = @ \/ calls[j].kind = "list"] ELSE calls[j]]
<1>0. calls \in Seq(Calls) /\ i \in DOMAIN calls /\ Reads(calls, revision, marked)
  BY DEF IInv, MarksTyped, Render, Step, Read
<1>1. \A j \in DOMAIN calls : calls[j] \in Calls /\ calls[j].late \in BOOLEAN
  <2>1. \A j \in DOMAIN calls : calls[j] \in Calls
    BY <1>0
  <2> QED
    BY <2>1 DEF Calls
<1>2. \A j \in DOMAIN calls : s[j] \in Calls /\ (Marking(s[j]) => s[j] = calls[j])
  BY <1>1 DEF Calls, Marking
<1>3. s \in Seq(Calls) /\ Len(s) = Len(calls) /\ DOMAIN s = DOMAIN calls
  BY <1>0, <1>2
<1>4. calls' = RemoveAt(s, i)
  BY DEF Render
<1> HIDE DEF s
<1>5. Reads(s, revision, marked)
  BY <1>0, <1>2, <1>3, ReadsAlike
<1>6. calls' \in Seq(Calls) /\ Reads(calls', revision, marked)
  BY <1>0, <1>3, <1>4, <1>5, ReadsWithout
<1>7. /\ UNCHANGED <<evaluation, left, revision, due, sent, faults>> /\ UNCHANGED marks
  BY DEF Render, evaluationVars, alertVars
<1>8. faults' \in Nat
  BY <1>7 DEF IInv, EvaluationTyped
<1> QED
  BY <1>6, <1>7, <1>8, RequestsMove

LEMMA LoseKeeps ==
  ASSUME IInv, NEW i \in 1..MaxCalls, Lose(i)
  PROVE  IInv'
<1>1. calls \in Seq(Calls) /\ i \in DOMAIN calls /\ Reads(calls, revision, marked)
  BY DEF IInv, MarksTyped, Lose, Read
<1>2. calls' \in Seq(Calls) /\ Reads(calls', revision, marked)
  BY <1>1, ReadsWithout DEF Lose
<1>3. /\ UNCHANGED <<evaluation, left, revision, due, sent>> /\ UNCHANGED marks
  BY DEF Lose, evaluationVars
<1>4. faults' \in Nat
  BY DEF Lose, Fault, IInv, EvaluationTyped
<1> QED
  BY <1>2, <1>3, <1>4, RequestsMove

(* The connection, the drawer and the clicks: at most one request begins.  *)
LEMMA PageKeeps ==
  ASSUME IInv,
         (Listen \/ Unlisten \/ Connect \/ Disconnect) \/ (Deliver \/ OpenDrawer \/ ClickMark)
  PROVE  IInv'
<1>1. /\ UNCHANGED <<evaluation, left, revision, due, sent>> /\ UNCHANGED marks
  BY DEF Listen, Unlisten, Connect, Disconnect, Deliver, OpenDrawer, ClickMark,
         evaluationVars, alertVars
<1>2. faults' \in Nat
  BY DEF Listen, Unlisten, Connect, Disconnect, Deliver, OpenDrawer, ClickMark,
         alertVars, Fault, IInv, EvaluationTyped
<1>3. calls' \in Seq(Calls) /\ Reads(calls', revision, marked)
  <2>1. CASE Listen \/ Unlisten \/ Connect \/ Disconnect
    <3>1. UNCHANGED calls
      BY <2>1 DEF Listen, Unlisten, Connect, Disconnect, page
    <3> QED
      BY <3>1 DEF IInv, MarksTyped, Read
  <2>2. CASE Deliver \/ OpenDrawer
    <3>1. Begin(List)
      BY <2>2 DEF Deliver, OpenDrawer
    <3> QED
      BY <3>1, NewRequests, BeginKeeps
  <2>3. CASE ClickMark
    <3>1. PICK E \in {{e} : e \in {e \in Visible : shown[e] = "unread"}} \union {Visible} :
            Begin(Mark(E))
      BY <2>3 DEF ClickMark
    <3>2. E \in SUBSET Visible
      OBVIOUS
    <3> QED
      BY <3>1, <3>2, NewRequests, BeginKeeps
  <2> QED
    BY <2>1, <2>2, <2>3
<1> QED
  BY <1>1, <1>2, <1>3, RequestsMove

LEMMA AnnounceKeeps ==
  ASSUME IInv, NEW d, Announce(d)
  PROVE  IInv'
<1>1. /\ UNCHANGED <<evaluation, left, revision, faults, calls>> /\ UNCHANGED marks
      /\ due' \cup sent' = due \cup sent
  BY DEF Announce, evaluationVars, marks
<1>2. faults' \in Nat
  BY <1>1 DEF IInv, EvaluationTyped
<1>3. calls' \in Seq(Calls) /\ Reads(calls', revision, marked)
  BY <1>1 DEF IInv, MarksTyped, Read
<1> QED
  BY <1>1, <1>2, <1>3, RequestsMove

-----------------------------------------------------------------------------
(* The marks *)

(* A mark that reads now reads what is newest; whoever has read the same   *)
(* event and not written yet is late from now on, and so is this one.      *)
LEMMA ReadRevisionKeeps ==
  ASSUME IInv, NEW i \in 1..MaxCalls, ReadRevision(i)
  PROVE  IInv'
<1>0. /\ calls \in Seq(Calls) /\ i \in DOMAIN calls /\ Reads(calls, revision, marked)
      /\ \A j \in DOMAIN calls : calls[j] \in Calls
      /\ calls[i].kind = "mark"
  <2>1. calls \in Seq(Calls)
    BY DEF IInv, MarksTyped
  <2>2. \A j \in DOMAIN calls : calls[j] \in Calls
    BY <2>1
  <2> QED
    BY <2>1, <2>2 DEF IInv, ReadRevision, Step, Read
<1> DEFINE now == [e \in Visible |-> IF e \in calls[i].events THEN revision[e] ELSE 0]
           c == [calls[i] EXCEPT !.step = "read", !.read = now,
                                 !.late = \E k \in DOMAIN calls : Crossing(i, k)]
           d(j) == [calls[j] EXCEPT !.late = @ \/ Crossing(i, j)]
<1>1. calls' = [j \in DOMAIN calls |-> IF j = i THEN c ELSE d(j)]
  <2>1. \A j \in DOMAIN calls : j = i => [calls[j] EXCEPT !.step = "read", !.read = now,
                                 !.late = \E k \in DOMAIN calls : Crossing(i, k)] = c
    OBVIOUS
  <2> QED
    BY <2>1 DEF ReadRevision
<1>2. now \in [Visible -> Nat]
  BY DEF IInv, EvaluationTyped, Visible
<1>3. /\ c \in Calls /\ c.kind = "mark" /\ c.step = "read" /\ c.read = now
      /\ c.events = calls[i].events
      /\ c.late = (\E k \in DOMAIN calls : Crossing(i, k))
  <2> HIDE DEF now
  <2> DEFINE l == \E k \in DOMAIN calls : Crossing(i, k)
  <2>1. l \in BOOLEAN
    OBVIOUS
  <2> HIDE DEF l
  <2>2. c = [calls[i] EXCEPT !.step = "read", !.read = now, !.late = l]
    BY DEF l
  <2> HIDE DEF c
  <2>3. c \in Calls /\ c.kind = "mark" /\ c.step = "read" /\ c.read = now
        /\ c.events = calls[i].events /\ c.late = l
    BY <1>0, <1>2, <2>1, <2>2 DEF Calls
  <2> QED
    BY <2>3 DEF l
<1>4. ASSUME NEW j \in DOMAIN calls
      PROVE  /\ d(j) \in Calls /\ d(j).kind = calls[j].kind /\ d(j).step = calls[j].step
             /\ d(j).read = calls[j].read /\ d(j).events = calls[j].events
             /\ d(j).late <=> (calls[j].late \/ Crossing(i, j))
  <2>1. calls[j] \in Calls /\ calls[j].late \in BOOLEAN
    BY <1>0 DEF Calls
  <2>2. (calls[j].late \/ Crossing(i, j)) \in BOOLEAN
    OBVIOUS
  <2> DEFINE l == calls[j].late \/ Crossing(i, j)
  <2>3. d(j) = [calls[j] EXCEPT !.late = l]
    OBVIOUS
  <2> HIDE DEF l
  <2>4. l \in BOOLEAN
    BY <2>2 DEF l
  <2>5. /\ d(j) \in Calls /\ d(j).kind = calls[j].kind /\ d(j).step = calls[j].step
        /\ d(j).read = calls[j].read /\ d(j).events = calls[j].events
        /\ d(j).late = l
    BY <2>1, <2>3, <2>4 DEF Calls
  <2> QED
    BY <2>5 DEF l
<1>5. /\ calls' \in Seq(Calls) /\ DOMAIN calls' = DOMAIN calls /\ calls'[i] = c
      /\ \A j \in DOMAIN calls : j # i => calls'[j] = d(j)
  <2> HIDE DEF c, d
  <2>1. \A j \in DOMAIN calls : c \in Calls /\ (IF j = i THEN c ELSE d(j)) \in Calls
    BY <1>3, <1>4
  <2> QED
    BY <1>0, <1>1, <2>1
<1> HIDE DEF now, c, d
<1>6. Fresh(c, revision, marked)
  <2>1. \A e \in Visible : e \in Events /\ marked[e] <= revision[e] /\ revision[e] \in Nat
    BY DEF IInv, Recorded, EvaluationTyped, Visible
  <2>2. c.events \subseteq Visible
    BY <1>3 DEF Calls
  <2> QED
    BY <1>3, <2>1, <2>2 DEF Fresh, now
<1>7. ASSUME NEW j \in DOMAIN calls, j # i
      PROVE  Fresh(d(j), revision, marked) /\ Meet(c, d(j)) /\ Meet(d(j), c)
  <2>1. Fresh(calls[j], revision, marked)
    BY <1>0 DEF Reads
  <2>2. Fresh(d(j), revision, marked)
    BY <1>4, <2>1 DEF Fresh, Marking
  <2>3. Marking(d(j)) /\ c.events \cap d(j).events # {} => Crossing(i, j)
    BY <1>3, <1>4, <1>7 DEF Crossing, Marking
  <2>4. Crossing(i, j) => c.late /\ d(j).late
    BY <1>3, <1>4
  <2> QED
    BY <2>2, <2>3, <2>4 DEF Meet
<1>8. ASSUME NEW j \in DOMAIN calls, NEW k \in DOMAIN calls, j # k, j # i, k # i
      PROVE  Meet(d(j), d(k))
  <2>1. Meet(calls[j], calls[k])
    BY <1>0, <1>8 DEF Reads
  <2> QED
    BY <1>4, <2>1 DEF Meet, Marking
<1>9. Reads(calls', revision, marked)
  BY <1>5, <1>6, <1>7, <1>8 DEF Reads
<1>10. /\ UNCHANGED <<evaluation, left, revision, due, sent, faults>> /\ UNCHANGED marks
  BY DEF ReadRevision, evaluationVars, alertVars
<1>11. faults' \in Nat
  BY <1>10 DEF IInv, EvaluationTyped
<1> QED
  BY <1>5, <1>9, <1>10, <1>11, RequestsMove

(* The commit stores what was read: the newest, or the marks had crossed.  *)
LEMMA CommitKeeps ==
  ASSUME IInv, NEW i \in 1..MaxCalls, CommitMark(i)
  PROVE  IInv'
<1> DEFINE mark   == calls[i]
           stored == {e \in mark.events : mark.read[e] # 0}
<1>1. calls \in Seq(Calls) /\ i \in DOMAIN calls /\ Reads(calls, revision, marked)
  BY DEF IInv, MarksTyped, CommitMark, Step, Read
<1>2. \A j \in DOMAIN calls : calls[j] \in Calls
  BY <1>1
<1>3. /\ mark \in Calls /\ Marking(mark) /\ Fresh(mark, revision, marked)
      /\ mark.events \subseteq Visible /\ mark.read \in [Visible -> Nat] /\ mark.late \in BOOLEAN
  <2>1. Marking(mark)
    BY DEF CommitMark, Step, Marking
  <2>2. mark \in Calls /\ Fresh(mark, revision, marked)
    BY <1>1, <1>2 DEF Reads
  <2> QED
    BY <2>1, <2>2 DEF Calls
<1>4. /\ receipt' = [e \in Visible |-> IF e \in stored THEN mark.read[e] ELSE receipt[e]]
      /\ marked' = [e \in Visible |-> IF mark.read[e] > marked[e] THEN mark.read[e] ELSE marked[e]]
      /\ crossed' = IF mark.late THEN crossed \union stored ELSE crossed \ stored
      /\ calls' = Append(RemoveAt(calls, i), List)
      /\ UNCHANGED <<evaluation, left, revision, due, sent, faults>>
  BY DEF CommitMark, evaluationVars, alertVars
<1> HIDE DEF mark
<1>5. /\ receipt \in [Visible -> Nat] /\ marked \in [Visible -> Nat] /\ crossed \subseteq Visible
      /\ revision \in [Events -> Nat] /\ Visible \subseteq Events /\ Recorded
  BY DEF IInv, MarksTyped, EvaluationTyped, Visible
<1>6. /\ receipt' \in [Visible -> Nat] /\ marked' \in [Visible -> Nat] /\ crossed' \subseteq Visible
  BY <1>3, <1>4, <1>5
<1>7. \A e \in Visible :
        /\ mark.read[e] <= revision[e]
        /\ mark.read[e] # 0 <=> e \in stored
        /\ (~mark.late /\ e \in stored) => marked[e] <= mark.read[e]
  BY <1>3, <1>5 DEF Fresh
<1>8. ASSUME NEW e \in Visible
      PROVE  /\ receipt'[e] <= marked'[e] /\ marked'[e] <= revision[e]
             /\ e \notin crossed' => receipt'[e] = marked'[e]
             /\ e \notin mark.events => marked'[e] = marked[e]
  <2> HIDE DEF stored
  <2>1. /\ receipt[e] <= marked[e] /\ marked[e] <= revision[e]
        /\ e \notin crossed => receipt[e] = marked[e]
        /\ receipt[e] \in Nat /\ marked[e] \in Nat /\ revision[e] \in Nat /\ mark.read[e] \in Nat
    BY <1>3, <1>5 DEF Recorded
  <2>2. /\ receipt'[e] = IF e \in stored THEN mark.read[e] ELSE receipt[e]
        /\ marked'[e] = IF mark.read[e] > marked[e] THEN mark.read[e] ELSE marked[e]
        /\ e \notin crossed' => (e \notin crossed \/ (e \in stored /\ ~mark.late))
        /\ e \notin crossed' => (e \notin stored \/ ~mark.late)
    BY <1>3, <1>4
  <2>3. e \in stored => e \in mark.events
    BY DEF stored
  <2>4. CASE e \in stored
    BY <1>7, <2>1, <2>2, <2>3, <2>4
  <2>5. CASE e \notin stored
    BY <1>7, <2>1, <2>2, <2>3, <2>5
  <2> QED
    BY <2>4, <2>5
<1>9. Recorded'
  BY <1>4, <1>8 DEF Recorded
<1>10. /\ RemoveAt(calls, i) \in Seq(Calls)
       /\ \A j \in DOMAIN RemoveAt(calls, i) :
            /\ Origin(i, j) \in DOMAIN calls /\ RemoveAt(calls, i)[j] = calls[Origin(i, j)]
            /\ Origin(i, j) # i
       /\ Reads(RemoveAt(calls, i), revision, marked)
  <2>1. /\ RemoveAt(calls, i) \in Seq(Calls)
        /\ \A j \in DOMAIN RemoveAt(calls, i) :
             Origin(i, j) \in DOMAIN calls /\ RemoveAt(calls, i)[j] = calls[Origin(i, j)]
    BY <1>1, Removal
  <2>2. \A j \in DOMAIN RemoveAt(calls, i) : j \in Nat /\ i \in Nat
    BY <1>1, <2>1
  <2> QED
    BY <1>1, <2>1, <2>2, ReadsWithout DEF Origin
<1>11. Reads(RemoveAt(calls, i), revision, marked')
  <2>1. ASSUME NEW j \in DOMAIN RemoveAt(calls, i)
        PROVE  Fresh(RemoveAt(calls, i)[j], revision, marked')
    <3> DEFINE c == calls[Origin(i, j)]
    <3>1. c \in Calls /\ RemoveAt(calls, i)[j] = c /\ Meet(mark, c) /\ Fresh(c, revision, marked)
      BY <1>1, <1>2, <1>10 DEF Reads, mark
    <3> HIDE DEF c
    <3>2. c.events \subseteq Visible
      BY <3>1 DEF Calls
    <3>3. (Marking(c) /\ ~c.late) => \A e \in c.events : marked'[e] = marked[e]
      BY <1>3, <1>8, <3>1, <3>2 DEF Meet
    <3>4. Fresh(c, revision, marked')
      BY <3>1, <3>3 DEF Fresh
    <3> QED
      BY <3>1, <3>4
  <2> QED
    BY <1>10, <2>1 DEF Reads
<1>12. calls' \in Seq(Calls) /\ Reads(calls', revision, marked')
  BY <1>4, <1>10, <1>11, NewRequests, ReadsWith
<1>13. MarksTyped' /\ Read'
  BY <1>4, <1>6, <1>12 DEF MarksTyped, Read
<1>14. EvaluationTyped' /\ Worked'
  <2>1. faults' \in Nat
    BY <1>4 DEF IInv, EvaluationTyped
  <2> QED
    BY <1>4, <2>1, WorkRests
<1> QED
  BY <1>9, <1>13, <1>14 DEF IInv

-----------------------------------------------------------------------------
(* The specification *)

LEMMA Initially == Init => IInv
<1> SUFFICES ASSUME Init PROVE IInv
  OBVIOUS
<1> USE Apartness
<1>1. EvaluationTyped
  BY DEF Init, EvaluationInit, EvaluationTyped, Statuses
<1>2. Worked
  BY DEF Init, EvaluationInit, Worked, Busy
<1>3. calls = <<List>> /\ List \in Calls /\ ~Marking(List)
  BY NewRequests DEF Init
<1>4. calls \in Seq(Calls) /\ \A i \in DOMAIN calls : calls[i] = List
  BY <1>3
<1>5. MarksTyped /\ Recorded
  BY <1>4 DEF Init, MarksTyped, Recorded, Unmarked, Visible
<1>6. Read
  BY <1>3, <1>4 DEF Read, Reads, Fresh, Meet
<1> QED
  BY <1>1, <1>2, <1>5, <1>6 DEF IInv

LEMMA Inductive == IInv /\ [Next]_vars => IInv'
<1> SUFFICES ASSUME IInv, [Next]_vars PROVE IInv'
  OBVIOUS
<1>1. CASE Evaluating(EvaluationNext)
  BY <1>1, EvaluationKeeps DEF Evaluating
<1>2. CASE Using(InboxNext)
  <2> SUFFICES ASSUME InboxNext PROVE IInv'
    BY <1>2 DEF Using
  <2>1. CASE \E e \in Overdue : Revise(e)
    BY <2>1, ReviseKeeps
  <2>2. CASE \E d \in UNION {Deliveries(e) : e \in Events} : Announce(d)
    BY <2>2, AnnounceKeeps
  <2>3. CASE (Listen \/ Unlisten \/ Connect \/ Disconnect) \/ (Deliver \/ OpenDrawer \/ ClickMark)
    BY <2>3, PageKeeps
  <2>4. CASE \E i \in 1..MaxCalls : Proceed(i) \/ Lose(i)
    BY <2>4, ListsKeep, RenderKeeps, ReadRevisionKeeps, CommitKeeps, LoseKeeps DEF Proceed
  <2> QED
    BY <2>1, <2>2, <2>3, <2>4 DEF InboxNext
<1>3. CASE UNCHANGED vars
  <2>1. /\ UNCHANGED <<evaluation, left, revision, due, sent, faults, calls>>
        /\ UNCHANGED marks
    BY <1>3 DEF vars, evaluationVars, alertVars, inbox, page
  <2>2. faults' \in Nat /\ calls' \in Seq(Calls) /\ Reads(calls', revision, marked)
    BY <2>1 DEF IInv, EvaluationTyped, MarksTyped, Read
  <2> QED
    BY <2>1, <2>2, RequestsMove
<1> QED
  BY <1>1, <1>2, <1>3 DEF Next

(* Whichever workers share the evaluation of a snapshot, fail or die: its  *)
(* row says "completed" only when every candidate has become an event      *)
(* whose deliveries wait or were sent (service.py:143).                    *)
THEOREM CompletedHasEvents == Spec => []CompletedIsMaterialised
<1>1. IInv => CompletedIsMaterialised
  BY DEF IInv, Worked, Materialised, CompletedIsMaterialised
<1> QED
  BY Initially, Inductive, <1>1, PTL DEF Spec

(* However requests overlap, are lost or answered out of order: an event   *)
(* reads as read exactly when its current revision was marked, but for the *)
(* events whose last mark crossed another one (api.py:346).                *)
THEOREM MarksAreTrue == Spec => []MarksHold
<1>1. IInv => MarksHold
  <2> SUFFICES ASSUME IInv, NEW e \in Visible
               PROVE  /\ Answer(revision)[e] = "read" => marked[e] = revision[e]
                      /\ (marked[e] = revision[e] /\ revision[e] > 0 /\ e \notin crossed)
                           => Answer(revision)[e] = "read"
    BY DEF MarksHold
  <2>1. /\ receipt[e] \in Nat /\ marked[e] \in Nat /\ revision[e] \in Nat
        /\ receipt[e] <= marked[e] /\ marked[e] <= revision[e]
        /\ e \notin crossed => receipt[e] = marked[e]
    BY DEF IInv, MarksTyped, EvaluationTyped, Recorded, Visible
  <2>2. /\ Answer(revision)[e] = "read" => receipt[e] >= revision[e]
        /\ (revision[e] > 0 /\ receipt[e] >= revision[e]) => Answer(revision)[e] = "read"
    BY <2>1 DEF Answer
  <2> QED
    BY <2>1, <2>2
<1> QED
  BY Initially, Inductive, <1>1, PTL DEF Spec
=============================================================================
