------------------------ MODULE AlertDeliveryProofs ------------------------
(***************************************************************************)
(* While the workers take turns, what counts as sent has been announced:   *)
(* for any number of workers, rules, roles, changes and faults.            *)
(***************************************************************************)
EXTENDS AlertDelivery, TLAPS

Events   == [status : {"absent", "open", "recovered"}, revision : Nat]
Rows     == [status : {"absent", "pending", "sending", "sent", "failed"},
             revision : Nat, due : BOOLEAN]
Readings == [rule : Rules \cup {Nothing}, abnormal : BOOLEAN]
Outcomes == [delivery : Deliveries \cup {<<Nothing, Nothing>>}, ok : BOOLEAN]

Typed ==
  /\ abnormal \in [Rules -> BOOLEAN]
  /\ event \in [Rules -> Events]
  /\ delivery \in [Deliveries -> Rows]
  /\ told \in [Deliveries -> Nat]
  /\ pc \in [Workers -> {"idle", "commit", "send", "save"}]
  /\ seen \in [Workers -> Readings]
  /\ batch \in [Workers -> [Deliveries -> Nat]]
  /\ sending \in [Workers -> Outcomes]
  /\ overlapped \in BOOLEAN

(* Who evaluates has read a rule, who saves has sent a delivery.           *)
AtWork ==
  \A w \in Workers :
    /\ pc[w] = "commit" => seen[w].rule \in Rules
    /\ pc[w] = "save" => sending[w].delivery \in Deliveries

(* Neither a row nor a claim is for a revision that does not exist yet,    *)
(* so a new revision always finds its deliveries out of date.              *)
NotAhead ==
  \A d \in Deliveries :
    /\ delivery[d].revision <= event[d[1]].revision
    /\ \A w \in Workers : batch[w][d] <= event[d[1]].revision

Turns == ~overlapped => \A v, w \in Workers : pc[v] # "idle" /\ pc[w] # "idle" => v = w

Current(d) == told[d] >= event[d[1]].revision

(* What was sent stays current until it is saved as sent and after.        *)
Announced ==
  ~overlapped =>
    /\ \A d \in Deliveries : delivery[d].status = "sent" => Current(d)
    /\ \A w \in Workers : (pc[w] = "save" /\ sending[w].ok) => Current(sending[w].delivery)

IInv == Typed /\ AtWork /\ NotAhead /\ Turns /\ Announced

-----------------------------------------------------------------------------
(* An evaluation *)

LEMMA EvaluatedTyped ==
  ASSUME NEW e \in Events, NEW ab \in BOOLEAN
  PROVE  /\ Evaluated(e, ab) \in Events
         /\ Evaluated(e, ab).revision >= e.revision
         /\ Evaluated(e, ab) # e => /\ Evaluated(e, ab).revision > e.revision
                                    /\ ~ab => Evaluated(e, ab).status = "recovered"
<1>1. e.revision \in Nat /\ e.status \in {"absent", "open", "recovered"}
  BY DEF Events
<1>2. CASE ab = (e.status = "open") \/ (~ab /\ e.status = "absent")
  BY <1>1, <1>2 DEF Evaluated
<1>3. CASE ~(ab = (e.status = "open") \/ (~ab /\ e.status = "absent"))
  <2>1. Evaluated(e, ab) = [status |-> IF ab THEN "open" ELSE "recovered", revision |-> e.revision + 1]
    BY <1>3 DEF Evaluated
  <2> QED
    BY <1>1, <2>1 DEF Events
<1> QED
  BY <1>2, <1>3

(* A delivery is as it was, for an event of the same revision, or waits to *)
(* be sent for the revision of now.                                        *)
LEMMA CommitResets ==
  ASSUME Typed, AtWork, NotAhead, NEW w \in Workers, CommitEvaluation(w)
  PROVE  /\ event' \in [Rules -> Events] /\ delivery' \in [Deliveries -> Rows]
         /\ \A r \in Rules : event'[r].revision >= event[r].revision
         /\ \A d \in Deliveries :
              \/ /\ delivery'[d] = delivery[d]
                 /\ event'[d[1]].revision = event[d[1]].revision
              \/ delivery'[d] = [status |-> "pending", revision |-> event'[d[1]].revision, due |-> FALSE]
<1>0. /\ \A r \in Rules : event[r] \in Events /\ event[r].revision \in Nat
      /\ \A d \in Deliveries : d[1] \in Rules /\ delivery[d] \in Rows
      /\ \A d \in Deliveries : delivery[d].revision \in Nat
  BY DEF Typed, Events, Rows, Deliveries
<1>1. CASE UNCHANGED <<event, delivery>>
  BY <1>0, <1>1 DEF Typed
<1>2. CASE ~UNCHANGED <<event, delivery>>
  <2> DEFINE r == seen[w].rule
             ab == seen[w].abnormal
             e == Evaluated(event[r], ab)
             recovers == e # event[r] /\ e.status = "recovered"
  <2>1. r \in Rules /\ ab \in BOOLEAN
    BY DEF Typed, AtWork, Readings, CommitEvaluation
  <2>2. /\ event' = [event EXCEPT ![r] = e]
        /\ delivery' = [d \in Deliveries |->
                          IF d[1] = r /\ (ab \/ recovers)
                          THEN Ensured(delivery[d], e, recovers) ELSE delivery[d]]
    BY <1>2 DEF CommitEvaluation
  <2> HIDE DEF r, ab
  <2>3. /\ e \in Events /\ e.revision >= event[r].revision
        /\ e # event[r] => /\ e.revision > event[r].revision
                           /\ ~ab => recovers
    BY <1>0, <2>1, EvaluatedTyped
  <2> HIDE DEF e
  <2>4. /\ event' \in [Rules -> Events]
        /\ event'[r] = e /\ \A q \in Rules : q # r => event'[q] = event[q]
    BY <2>1, <2>2, <2>3 DEF Typed
  <2>5. \A q \in Rules : event'[q].revision >= event[q].revision
    BY <1>0, <2>3, <2>4
  <2>6. ASSUME NEW d \in Deliveries
        PROVE  \/ /\ delivery'[d] = delivery[d]
                  /\ event'[d[1]].revision = event[d[1]].revision
               \/ delivery'[d] = [status |-> "pending", revision |-> event'[d[1]].revision, due |-> FALSE]
    <3>1. CASE d[1] # r
      BY <1>0, <2>2, <2>4, <3>1
    <3>2. CASE d[1] = r /\ e = event[r]
      <4>1. delivery'[d] = Ensured(delivery[d], e, FALSE) \/ delivery'[d] = delivery[d]
        BY <2>2, <3>2
      <4> QED
        BY <1>0, <2>4, <3>2, <4>1 DEF Ensured
    <3>3. CASE d[1] = r /\ e # event[r]
      <4>1. delivery'[d] = Ensured(delivery[d], e, recovers)
        BY <2>2, <2>3, <3>3
      <4>2. delivery[d].revision # e.revision
        BY <1>0, <2>1, <2>3, <3>3 DEF NotAhead, Events
      <4> QED
        BY <2>4, <3>3, <4>1, <4>2 DEF Ensured
    <3> QED
      BY <3>1, <3>2, <3>3
  <2>7. delivery' \in [Deliveries -> Rows]
    <3>1. \A q \in Rules : event'[q].revision \in Nat
      BY <2>4 DEF Events
    <3>2. ASSUME NEW d \in Deliveries
          PROVE  delivery'[d] \in Rows
      <4>1. [status |-> "pending", revision |-> event'[d[1]].revision, due |-> FALSE] \in Rows
        BY <1>0, <3>1 DEF Rows
      <4> QED
        BY <1>0, <2>6, <4>1
    <3> QED
      BY <2>2, <3>2
  <2> QED
    BY <2>4, <2>5, <2>6, <2>7
<1> QED
  BY <1>1, <1>2

LEMMA CommitKeeps ==
  ASSUME IInv, NEW w \in Workers, CommitEvaluation(w)
  PROVE  IInv'
<1>1. /\ event' \in [Rules -> Events] /\ delivery' \in [Deliveries -> Rows]
      /\ \A r \in Rules : event'[r].revision >= event[r].revision
      /\ \A d \in Deliveries :
           \/ delivery'[d] = delivery[d] /\ event'[d[1]].revision = event[d[1]].revision
           \/ delivery'[d] = [status |-> "pending", revision |-> event'[d[1]].revision, due |-> FALSE]
  BY CommitResets DEF IInv
<1>2. /\ pc[w] = "commit" /\ pc' = [pc EXCEPT ![w] = "idle"]
      /\ seen' = [seen EXCEPT ![w] = Unread]
      /\ UNCHANGED <<abnormal, told, batch, sending, overlapped>>
  BY DEF CommitEvaluation, Goto
<1>3. /\ Unread \in Readings
      /\ pc' \in [Workers -> {"idle", "commit", "send", "save"}] /\ seen' \in [Workers -> Readings]
      /\ pc'[w] = "idle" /\ \A v \in Workers : v # w => pc'[v] = pc[v] /\ seen'[v] = seen[v]
  BY <1>2 DEF IInv, Typed, Readings, Unread
<1>4. Typed'
  BY <1>1, <1>2, <1>3 DEF IInv, Typed
<1>5. AtWork'
  BY <1>2, <1>3 DEF IInv, AtWork
<1>6. NotAhead'
  <2>1. ASSUME NEW d \in Deliveries
        PROVE  /\ delivery'[d].revision <= event'[d[1]].revision
               /\ \A v \in Workers : batch'[v][d] <= event'[d[1]].revision
    <3>1. d[1] \in Rules /\ event[d[1]].revision \in Nat /\ event'[d[1]].revision \in Nat
      BY <1>1 DEF IInv, Typed, Deliveries, Events
    <3>2. /\ delivery[d].revision <= event[d[1]].revision
          /\ \A v \in Workers : batch[v][d] <= event[d[1]].revision /\ batch[v][d] \in Nat
      BY DEF IInv, Typed, NotAhead
    <3>3. event'[d[1]].revision >= event[d[1]].revision
      BY <1>1, <3>1
    <3> QED
      BY <1>1, <1>2, <3>1, <3>2, <3>3
  <2> QED
    BY <2>1 DEF NotAhead
<1>7. Turns'
  BY <1>2, <1>3 DEF IInv, Turns
<1>8. Announced'
  <2> SUFFICES ASSUME ~overlapped
               PROVE  /\ \A d \in Deliveries : delivery'[d].status = "sent" => Current(d)'
                      /\ \A v \in Workers : pc'[v] # "save"
    BY <1>2 DEF Announced
  <2>1. ASSUME NEW d \in Deliveries, delivery'[d].status = "sent"
        PROVE  Current(d)'
    BY <1>1, <1>2, <2>1 DEF IInv, Announced, Current
  <2>2. \A v \in Workers : pc'[v] # "save"
    BY <1>2, <1>3 DEF IInv, Turns
  <2> QED
    BY <2>1, <2>2
<1> QED
  BY <1>4, <1>5, <1>6, <1>7, <1>8 DEF IInv

(* Who starts has nobody else at work, or the workers overlap from now on. *)
LEMMA StartKeepsTurns ==
  ASSUME Typed, Turns, NEW w \in Workers, NEW s, Start(w, s)
  PROVE  /\ Turns'
         /\ overlapped' \in BOOLEAN
         /\ ~overlapped' => ~overlapped /\ \A v \in Workers \ {w} : pc[v] = "idle"
BY DEF Typed, Turns, Start, Goto

LEMMA ReadKeeps ==
  ASSUME IInv, NEW w \in Workers, NEW r \in Rules, ReadObligations(w, r)
  PROVE  IInv'
<1>1. /\ pc[w] = "idle" /\ pc' = [pc EXCEPT ![w] = "commit"]
      /\ seen' = [seen EXCEPT ![w] = [rule |-> r, abnormal |-> abnormal[r]]]
      /\ UNCHANGED <<abnormal, event, delivery, told, batch, sending>>
  BY DEF ReadObligations, Start, Goto, rows
<1>2. Turns' /\ overlapped' \in BOOLEAN /\ (~overlapped' => ~overlapped)
  BY StartKeepsTurns DEF IInv, ReadObligations
<1>3. [rule |-> r, abnormal |-> abnormal[r]] \in Readings
  BY DEF IInv, Typed, Readings
<1>4. Typed'
  BY <1>1, <1>2, <1>3 DEF IInv, Typed
<1>5. AtWork'
  BY <1>1 DEF IInv, Typed, AtWork
<1>6. NotAhead'
  BY <1>1 DEF IInv, NotAhead
<1>7. Announced'
  BY <1>1, <1>2 DEF IInv, Typed, Announced, Current
<1> QED
  BY <1>2, <1>4, <1>5, <1>6, <1>7 DEF IInv

-----------------------------------------------------------------------------
(* The deliveries *)

LEMMA ClaimKeeps ==
  ASSUME IInv, NEW w \in Workers, Claim(w)
  PROVE  IInv'
<1>1. PICK ready \in SUBSET Deliveries :
        /\ delivery' = [d \in Deliveries |->
                          IF d \in ready THEN [delivery[d] EXCEPT !.status = "sending", !.due = FALSE]
                          ELSE delivery[d]]
        /\ batch' = [batch EXCEPT ![w] =
                       [d \in Deliveries |-> IF d \in ready THEN delivery[d].revision ELSE 0]]
  <2>1. {d \in Deliveries : Retryable(d)} \in SUBSET Deliveries
    OBVIOUS
  <2> QED
    BY <2>1 DEF Claim
<1>2. /\ pc[w] = "idle" /\ pc' = [pc EXCEPT ![w] = "send"]
      /\ UNCHANGED <<abnormal, event, told, seen, sending>>
  BY DEF Claim, Start, Goto
<1>3. Turns' /\ overlapped' \in BOOLEAN /\ (~overlapped' => ~overlapped)
  BY StartKeepsTurns DEF IInv, Claim
<1>4. ASSUME NEW d \in Deliveries
      PROVE  /\ delivery'[d] \in Rows /\ delivery'[d].revision = delivery[d].revision
             /\ delivery'[d].status = "sent" => delivery[d].status = "sent"
  <2>1. delivery[d] \in Rows
    BY DEF IInv, Typed
  <2>2. delivery'[d] = delivery[d] \/ delivery'[d] = [delivery[d] EXCEPT !.status = "sending", !.due = FALSE]
    BY <1>1
  <2> QED
    BY <2>1, <2>2 DEF Rows
<1>5. \A d \in Deliveries : delivery[d].revision \in Nat /\ d[1] \in Rules
                            /\ event[d[1]].revision \in Nat
  BY DEF IInv, Typed, Rows, Events, Deliveries
<1>6. /\ batch' \in [Workers -> [Deliveries -> Nat]]
      /\ \A v \in Workers : v # w => batch'[v] = batch[v]
      /\ batch'[w] = [d \in Deliveries |-> IF d \in ready THEN delivery[d].revision ELSE 0]
  BY <1>1, <1>5 DEF IInv, Typed
<1>7. Typed'
  <2>1. delivery' \in [Deliveries -> Rows]
    BY <1>1, <1>4
  <2> QED
    BY <1>2, <1>3, <1>6, <2>1 DEF IInv, Typed
<1>8. AtWork'
  BY <1>2 DEF IInv, Typed, AtWork
<1>9. NotAhead'
  <2>1. ASSUME NEW d \in Deliveries
        PROVE  /\ delivery'[d].revision <= event'[d[1]].revision
               /\ \A v \in Workers : batch'[v][d] <= event'[d[1]].revision
    <3>1. /\ delivery[d].revision <= event[d[1]].revision
          /\ \A v \in Workers : batch[v][d] <= event[d[1]].revision
      BY DEF IInv, NotAhead
    <3> QED
      BY <1>2, <1>4, <1>5, <1>6, <3>1
  <2> QED
    BY <2>1 DEF NotAhead
<1>10. Announced'
  BY <1>2, <1>3, <1>4 DEF IInv, Typed, Announced, Current
<1> QED
  BY <1>3, <1>7, <1>8, <1>9, <1>10 DEF IInv

LEMMA SendKeeps ==
  ASSUME IInv, NEW w \in Workers, Send(w)
  PROVE  IInv'
<1>1. PICK d \in Deliveries, ok \in BOOLEAN :
        /\ sending' = [sending EXCEPT ![w] = [delivery |-> d, ok |-> ok]]
        /\ told' = IF ok THEN [told EXCEPT ![d] = event[d[1]].revision] ELSE told
  BY DEF Send, Claimed
<1>2. /\ pc[w] = "send" /\ pc' = [pc EXCEPT ![w] = "save"]
      /\ UNCHANGED <<abnormal, event, delivery, seen, batch, overlapped>>
  BY DEF Send, Goto
<1>3. /\ \A c \in Deliveries : c[1] \in Rules /\ event[c[1]].revision \in Nat
      /\ told \in [Deliveries -> Nat]
  BY DEF IInv, Typed, Events, Deliveries
<1>4. /\ told' \in [Deliveries -> Nat] /\ (ok => Current(d)')
      /\ \A c \in Deliveries : Current(c) => Current(c)'
  BY <1>1, <1>2, <1>3 DEF Current
<1>5. [delivery |-> d, ok |-> ok] \in Outcomes
  BY DEF Outcomes
<1>6. /\ sending' \in [Workers -> Outcomes]
      /\ sending'[w].delivery = d /\ sending'[w].ok = ok
      /\ \A v \in Workers : v # w => sending'[v] = sending[v] /\ pc'[v] = pc[v]
  BY <1>1, <1>2, <1>5 DEF IInv, Typed
<1>7. Typed'
  BY <1>2, <1>4, <1>6 DEF IInv, Typed
<1>8. AtWork'
  BY <1>2, <1>6 DEF IInv, Typed, AtWork
<1>9. NotAhead'
  BY <1>2 DEF IInv, NotAhead
<1>10. Turns'
  BY <1>2 DEF IInv, Typed, Turns
<1>11. Announced'
  <2> SUFFICES ASSUME ~overlapped
               PROVE  /\ \A c \in Deliveries : delivery'[c].status = "sent" => Current(c)'
                      /\ \A v \in Workers :
                           (pc'[v] = "save" /\ sending'[v].ok) => Current(sending[v].delivery)'
    BY <1>2 DEF Announced, Current
  <2>1. \A c \in Deliveries : delivery'[c].status = "sent" => Current(c)'
    BY <1>2, <1>4 DEF IInv, Announced
  <2>2. ASSUME NEW v \in Workers, pc'[v] = "save", sending'[v].ok
        PROVE  Current(sending[v].delivery)'
    <3>1. v = w
      BY <1>2, <1>6, <2>2 DEF IInv, Turns
    <3> QED
      BY <1>4, <1>6, <2>2, <3>1 DEF Current
  <2> QED
    BY <2>1, <2>2
<1> QED
  BY <1>7, <1>8, <1>9, <1>10, <1>11 DEF IInv

LEMMA SaveKeeps ==
  ASSUME IInv, NEW w \in Workers, Save(w)
  PROVE  IInv'
<1> DEFINE d   == sending[w].delivery
           row == [status   |-> IF sending[w].ok THEN "sent" ELSE "failed",
                   revision |-> batch[w][d], due |-> FALSE]
<1>1. /\ pc[w] = "save" /\ d \in Deliveries /\ sending[w].ok \in BOOLEAN
      /\ delivery' = [delivery EXCEPT ![d] = row]
      /\ sending' = [sending EXCEPT ![w] = Unsending]
      /\ batch' = [batch EXCEPT ![w][d] = 0]
      /\ UNCHANGED <<abnormal, event, told, seen, overlapped>>
  BY DEF Save, IInv, Typed, AtWork, Outcomes
<1>2. PICK s \in {"idle", "send"} : pc' = [pc EXCEPT ![w] = s]
  BY DEF Save, Goto
<1>3. \A c \in Deliveries : c[1] \in Rules /\ event[c[1]].revision \in Nat
  BY DEF IInv, Typed, Events, Deliveries
<1>4. /\ row \in Rows /\ row.revision <= event[d[1]].revision
      /\ row.status = "sent" => sending[w].ok
  <2>1. batch[w][d] \in Nat /\ batch[w][d] <= event[d[1]].revision
    BY <1>1 DEF IInv, Typed, NotAhead
  <2> QED
    BY <1>1, <2>1 DEF Rows
<1> HIDE DEF d, row
<1>5. /\ delivery' \in [Deliveries -> Rows] /\ delivery'[d] = row
      /\ \A c \in Deliveries : c # d => delivery'[c] = delivery[c]
  BY <1>1, <1>4 DEF IInv, Typed
<1>6. /\ batch' \in [Workers -> [Deliveries -> Nat]]
      /\ \A v \in Workers, c \in Deliveries : batch'[v][c] = batch[v][c] \/ batch'[v][c] = 0
  BY <1>1 DEF IInv, Typed
<1>7. Unsending \in Outcomes
  BY DEF Unsending, Outcomes
<1>8. Typed'
  BY <1>1, <1>2, <1>5, <1>6, <1>7 DEF IInv, Typed
<1>9. AtWork'
  BY <1>1, <1>2 DEF IInv, Typed, AtWork
<1>10. NotAhead'
  BY <1>1, <1>3, <1>4, <1>5, <1>6 DEF IInv, NotAhead
<1>11. Turns'
  BY <1>1, <1>2 DEF IInv, Typed, Turns
<1>12. Announced'
  <2> SUFFICES ASSUME ~overlapped
               PROVE  /\ \A c \in Deliveries : delivery'[c].status = "sent" => Current(c)'
                      /\ \A v \in Workers :
                           (pc'[v] = "save" /\ sending'[v].ok) => Current(sending[v].delivery)'
    BY <1>1 DEF Announced, Current
  <2>1. \A c \in Deliveries : Current(c)' = Current(c)
    BY <1>1 DEF Current
  <2>2. delivery'[d].status = "sent" => Current(d)
    BY <1>1, <1>4, <1>5 DEF IInv, Announced, d
  <2>3. \A c \in Deliveries : delivery'[c].status = "sent" => Current(c)'
    BY <1>5, <2>1, <2>2 DEF IInv, Announced
  <2>4. \A v \in Workers : pc'[v] # "save"
    BY <1>1, <1>2 DEF IInv, Typed, Turns
  <2> QED
    BY <2>3, <2>4
<1> QED
  BY <1>8, <1>9, <1>10, <1>11, <1>12 DEF IInv

(* A claim of a worker that died is forgotten; the row keeps its lease.    *)
LEMMA CrashKeeps ==
  ASSUME IInv, NEW w \in Workers, Crash(w)
  PROVE  IInv'
<1>1. /\ pc' = [pc EXCEPT ![w] = "idle"]
      /\ batch' = [batch EXCEPT ![w] = EmptyBatch]
      /\ seen' = [seen EXCEPT ![w] = Unread]
      /\ sending' = [sending EXCEPT ![w] = Unsending]
      /\ UNCHANGED <<abnormal, event, delivery, told, overlapped>>
  BY DEF Crash, Goto, rows
<1>2. EmptyBatch \in [Deliveries -> Nat] /\ Unread \in Readings /\ Unsending \in Outcomes
  BY DEF EmptyBatch, Unread, Unsending, Readings, Outcomes
<1>3. Typed'
  BY <1>1, <1>2 DEF IInv, Typed
<1>4. AtWork'
  BY <1>1 DEF IInv, Typed, AtWork
<1>5. NotAhead'
  <2>1. \A d \in Deliveries : event[d[1]].revision \in Nat
    BY DEF IInv, Typed, Events, Deliveries
  <2>2. \A v \in Workers, d \in Deliveries : batch'[v][d] = batch[v][d] \/ batch'[v][d] = 0
    BY <1>1 DEF IInv, Typed, EmptyBatch
  <2> QED
    BY <1>1, <2>1, <2>2 DEF IInv, NotAhead
<1>6. Turns'
  BY <1>1 DEF IInv, Typed, Turns
<1>7. Announced'
  BY <1>1 DEF IInv, Typed, Announced, Current
<1> QED
  BY <1>3, <1>4, <1>5, <1>6, <1>7 DEF IInv

LEMMA RetryKeeps ==
  ASSUME IInv, NEW d \in Deliveries, RetryTimeComes(d)
  PROVE  IInv'
<1>1. /\ delivery' = [delivery EXCEPT ![d].due = TRUE]
      /\ UNCHANGED <<abnormal, event, told, pc, seen, batch, sending, overlapped>>
  BY DEF RetryTimeComes, local
<1>2. ASSUME NEW c \in Deliveries
      PROVE  /\ delivery'[c] \in Rows /\ delivery'[c].status = delivery[c].status
             /\ delivery'[c].revision = delivery[c].revision
  BY <1>1 DEF IInv, Typed, Rows
<1>3. Typed'
  BY <1>1, <1>2 DEF IInv, Typed
<1>4. NotAhead'
  BY <1>1, <1>2 DEF IInv, NotAhead
<1>5. AtWork' /\ Turns'
  BY <1>1 DEF IInv, AtWork, Turns
<1>6. Announced'
  BY <1>1, <1>2 DEF IInv, Announced, Current
<1> QED
  BY <1>3, <1>4, <1>5, <1>6 DEF IInv

LEMMA ChangeKeeps ==
  ASSUME IInv, NEW r \in Rules, ChangeObligations(r)
  PROVE  IInv'
<1>1. /\ abnormal' = [abnormal EXCEPT ![r] = ~@]
      /\ UNCHANGED <<event, delivery, told, pc, seen, batch, sending, overlapped>>
  BY DEF ChangeObligations, local
<1>2. abnormal' \in [Rules -> BOOLEAN]
  BY <1>1 DEF IInv, Typed
<1> QED
  BY <1>1, <1>2 DEF IInv, Typed, AtWork, NotAhead, Turns, Announced, Current

-----------------------------------------------------------------------------
(* The specification *)

LEMMA Initially == Init => IInv
<1> SUFFICES ASSUME Init PROVE IInv
  OBVIOUS
<1>1. /\ Unread \in Readings /\ Unsending \in Outcomes /\ EmptyBatch \in [Deliveries -> Nat]
      /\ \A d \in Deliveries : d[1] \in Rules
  BY DEF Unread, Unsending, EmptyBatch, Readings, Outcomes, Deliveries
<1>2. Typed
  BY <1>1 DEF Init, Typed, Events, Rows
<1>3. AtWork /\ NotAhead /\ Turns
  BY <1>1 DEF Init, AtWork, NotAhead, Turns, EmptyBatch
<1>4. Announced
  BY DEF Init, Announced
<1> QED
  BY <1>2, <1>3, <1>4 DEF IInv

LEMMA Inductive == IInv /\ [Next]_vars => IInv'
<1> SUFFICES ASSUME IInv, [Next]_vars PROVE IInv'
  OBVIOUS
<1>1. CASE \E r \in Rules : ChangeObligations(r) \/ \E w \in Workers : ReadObligations(w, r)
  BY <1>1, ChangeKeeps, ReadKeeps
<1>2. CASE \E w \in Workers : CommitEvaluation(w) \/ Claim(w) \/ Send(w) \/ Save(w) \/ Crash(w)
  BY <1>2, CommitKeeps, ClaimKeeps, SendKeeps, SaveKeeps, CrashKeeps
<1>3. CASE \E d \in Deliveries : RetryTimeComes(d)
  BY <1>3, RetryKeeps
<1>4. CASE UNCHANGED vars
  BY <1>4 DEF vars, rows, local, IInv, Typed, AtWork, NotAhead, Turns, Announced, Current
<1> QED
  BY <1>1, <1>2, <1>3, <1>4 DEF Next

(* However sends fail, workers die and obligations change: as long as no   *)
(* two workers have been at work at once, a delivery whose role was not    *)
(* told of the event's revision does not count as sent                     *)
(* (alerts/tasks.py:27-57, 146-159).                                       *)
THEOREM SentIsAnnounced == Spec => []UnannouncedIsUnsent
<1>1. IInv => UnannouncedIsUnsent
  <2> SUFFICES ASSUME IInv, NEW d \in Deliveries, ~overlapped, told[d] < event[d[1]].revision
               PROVE  delivery[d].status # "sent"
    BY DEF UnannouncedIsUnsent
  <2>1. told[d] \in Nat /\ event[d[1]].revision \in Nat
    BY DEF IInv, Typed, Events, Deliveries
  <2> QED
    BY <2>1 DEF IInv, Announced, Current
<1> QED
  BY Initially, Inductive, <1>1, PTL DEF Spec
=============================================================================
