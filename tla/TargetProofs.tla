------------------------------ MODULE TargetProofs ------------------------------
(***************************************************************************)
(* TargetObligations is well typed, no status counts as done without a     *)
(* target, and the gate holds; in TargetPages a page shows what is stored  *)
(* unless a copy was left behind -- for any number of leaders, requests    *)
(* and days.                                                               *)
(***************************************************************************)
EXTENDS TargetObligations, TargetPages, TLAPS

\* What a refresh believes of the target was true when it read it, and targets
\* are never withdrawn.
KnownInv == \A p \in Calls : call[p].known # "none" => target # "none"

\* The removal that holds the row lock; without one, a record that excuses nobody.
Holder == IF lock = Free THEN [Idle EXCEPT !.led = TRUE] ELSE call[lock]

\* A gate c whose leader has kept the assignment, against the leaders a, the target
\* t, the status o and the lock's holder h: its refresh goes the way of a led flow,
\* what it leaves is owed or submitted, and a removal that has found the row pending
\* since then knows of the leader unless it removes that leader itself.
GateOk(c, a, t, o, h) ==
    c.op = "gate" /\ c.steady =>
        /\ c.who # {} /\ c.who \subseteq a
        /\ c.step = "flows" => c.led
        /\ c.step \notin {"others", "overdue"}
        /\ c.step = "status" => t # "none" \/ o \in Incomplete
        /\ c.step = "status" /\ ~ h.led => c.who \subseteq h.who
        /\ c.step = "admitted" => t # "none"

GateInv == \A w \in Web : GateOk(call[w], assigned, target, obligation, Holder)

IInv == TypeOK /\ FulfilledIsSubmitted /\ KnownInv /\ GateInv

--------------------------------------------------------------------------------
LEMMA IdleType ==
    Idle \in CallType /\ Idle.step = "idle" /\ Idle.op = "none" /\ Idle.known = "none"
BY DEF Idle, CallType, Steps, Instants

LEMMA CallsFacts ==
    /\ Web \subseteq Calls /\ Task \in Calls
    /\ Task \notin Web /\ Free \notin Web
BY NamesAssumption DEF Calls

LEMMA JudgeType ==
    ASSUME NEW c \in CallType
    PROVE  /\ Judge(c) \in Incomplete \cup Complete
           /\ c.known = "none" => Judge(c) \in Incomplete
BY DEF Judge, Done, Owed, CallType, Instants, Incomplete, Complete

LEMMA AfterEnsureType ==
    ASSUME NEW c \in CallType
    PROVE  /\ AfterEnsure(c) \in CallType
           /\ AfterEnsure(c).step \in {"status", "idle"}
           /\ AfterEnsure(c).known = "none"
           /\ AfterEnsure(c).op = "gate" =>
                c.op = "gate" /\ AfterEnsure(c).who = c.who
                              /\ AfterEnsure(c).steady = c.steady
BY IdleType DEF AfterEnsure, Idle, CallType, Steps, Instants

LEMMA LeadersReadType ==
    ASSUME NEW c \in CallType, phase \in Instants
    PROVE  /\ LeadersRead(c) \in CallType
           /\ LeadersRead(c).op = c.op /\ LeadersRead(c).step = "flows"
           /\ LeadersRead(c).who = c.who /\ LeadersRead(c).steady = c.steady
           /\ LeadersRead(c).known = c.known /\ LeadersRead(c).led = (assigned # {})
BY DEF LeadersRead, CallType, Steps, Instants

LEMMA GateOkKept ==
    ASSUME NEW c, NEW a, NEW a2, NEW t, NEW t2, NEW o, NEW o2, NEW h, NEW h2,
           GateOk(c, a, t, o, h),
           c.who \subseteq a => c.who \subseteq a2,
           t # "none" => t2 # "none",
           o \in Incomplete => o2 \in Incomplete \/ t2 # "none",
           h2 = h \/ h2.led
    PROVE  GateOk(c, a2, t2, o2, h2)
BY DEF GateOk

\* An action of p that leaves the lock alone or frees it, takes away no leader and
\* excuses nobody keeps the invariant if it does so for p.
LEMMA Moves ==
    ASSUME IInv, NEW p \in Calls, NEW c \in CallType,
           call' = [call EXCEPT ![p] = c],
           phase' \in Instants, faults' \in 0..MaxFaults,
           assigned \subseteq assigned', assigned' \subseteq Leaders,
           target' \in {"none"} \cup Instants,
           target # "none" => target' # "none",
           obligation' \in Statuses,
           obligation \in Incomplete => obligation' \in Incomplete \/ target' # "none",
           obligation' \in Complete => target' # "none",
           \/ lock' = Free
           \/ lock' = lock /\ lock # p /\ obligation' = obligation,
           c.known # "none" => target' # "none",
           p \in Web => GateOk(c, assigned', target', obligation', Holder')
    PROVE  IInv'
<1> USE CallsFacts
<1>1. /\ call \in [Calls -> CallType] /\ lock \in {Free} \cup Web
      /\ lock # Free => call[lock].step = "removed" /\ obligation = "PENDING"
  BY DEF IInv, TypeOK
<1>2. /\ call' \in [Calls -> CallType] /\ call'[p] = c
      /\ \A q \in Calls \ {p} : call'[q] = call[q]
  BY <1>1
<1>3. TypeOK'
  <2>1. lock' # Free => call'[lock'].step = "removed" /\ obligation' = "PENDING"
    BY <1>1, <1>2
  <2>2. lock' \in {Free} \cup Web
    BY <1>1
  <2> QED BY <1>2, <2>1, <2>2 DEF TypeOK, Statuses
<1>4. KnownInv'
  BY <1>2 DEF IInv, KnownInv
<1>5. GateInv'
  <2> SUFFICES ASSUME NEW w \in Web
               PROVE  GateOk(call'[w], assigned', target', obligation', Holder')
    BY DEF GateInv
  <2>1. CASE w = p
    BY <2>1, <1>2
  <2>2. CASE w # p
    <3>1. call'[w] = call[w]
      BY <2>2, <1>2
    <3>2. GateOk(call[w], assigned, target, obligation, Holder)
      BY DEF IInv, GateInv
    <3>3. Holder' = Holder \/ Holder'.led
      <4>1. CASE lock' = Free
        <5>1. Holder' = [Idle EXCEPT !.led = TRUE]
          BY <4>1 DEF Holder
        <5> QED BY <5>1 DEF Idle
      <4>2. CASE lock' = lock /\ lock # p /\ lock # Free
        <5>1. call'[lock'] = call[lock]
          BY <4>2, <1>1, <1>2
        <5> QED BY <4>2, <5>1 DEF Holder
      <4> QED BY <4>1, <4>2
    <3>4. GateOk(call[w], assigned', target', obligation', Holder')
      BY <3>2, <3>3, GateOkKept
    <3> QED BY <3>1, <3>4
  <2> QED BY <2>1, <2>2
<1>6. FulfilledIsSubmitted'
  BY DEF FulfilledIsSubmitted
<1> QED BY <1>3, <1>4, <1>5, <1>6 DEF IInv

\* A read changes nothing but what p knows.
LEMMA Reads ==
    ASSUME IInv, NEW p \in Calls, NEW c \in CallType,
           call' = [call EXCEPT ![p] = c], UNCHANGED store,
           call[p].step # "removed",
           c.known # "none" => target # "none",
           p \in Web => GateOk(c, assigned, target, obligation, Holder)
    PROVE  IInv'
<1>1. /\ call \in [Calls -> CallType] /\ lock \in {Free} \cup Web
      /\ lock # Free => call[lock].step = "removed"
      /\ phase \in Instants /\ faults \in 0..MaxFaults /\ assigned \subseteq Leaders
      /\ target \in {"none"} \cup Instants /\ obligation \in Statuses
      /\ obligation \in Complete => target # "none"
  BY DEF IInv, TypeOK, FulfilledIsSubmitted
<1>2. lock' = Free \/ (lock' = lock /\ lock # p /\ obligation' = obligation)
  BY <1>1 DEF store
<1>3. Holder' = Holder
  <2>1. CASE lock = Free
    BY <2>1 DEF Holder, store
  <2>2. CASE lock # Free
    <3>1. lock \in Calls /\ lock # p
      BY <1>1, <2>2, CallsFacts
    <3>2. call'[lock] = call[lock]
      BY <1>1, <3>1
    <3> QED BY <2>2, <3>2 DEF Holder, store
  <2> QED BY <2>1, <2>2
<1>4. p \in Web => GateOk(c, assigned', target', obligation', Holder')
  <2> QED BY <1>3 DEF store
<1> QED BY <1>1, <1>2, <1>4, Moves DEF store

--------------------------------------------------------------------------------
LEMMA ReadLeadersStep ==
    ASSUME IInv, NEW p \in Calls, ReadLeaders(p)
    PROVE  IInv'
<1> DEFINE c == LeadersRead(call[p])
<1>1. /\ call[p] \in CallType /\ phase \in Instants
      /\ call[p].known # "none" => target # "none"
      /\ p \in Web => GateOk(call[p], assigned, target, obligation, Holder)
  BY DEF IInv, TypeOK, KnownInv, GateInv
<1>2. /\ c \in CallType /\ c.op = call[p].op /\ c.step = "flows"
      /\ c.who = call[p].who /\ c.steady = call[p].steady
      /\ c.known = call[p].known /\ c.led = (assigned # {})
  BY <1>1, LeadersReadType
<1>3. /\ call[p].step = "leaders" /\ call' = [call EXCEPT ![p] = c]
      /\ UNCHANGED store
  BY DEF ReadLeaders
<1> HIDE DEF c
<1>4. p \in Web => GateOk(c, assigned, target, obligation, Holder)
  BY <1>1, <1>2, <1>3 DEF GateOk
<1> QED BY <1>1, <1>2, <1>3, <1>4, Reads

LEMMA ReadFlowsStep ==
    ASSUME IInv, NEW p \in Calls, ReadFlows(p)
    PROVE  IInv'
<1> DEFINE c == [call[p] EXCEPT !.step =
                    IF call[p].led \/ target # "none" THEN "target" ELSE "others"]
<1>1. /\ call[p] \in CallType
      /\ call[p].known # "none" => target # "none"
      /\ p \in Web => GateOk(call[p], assigned, target, obligation, Holder)
  BY DEF IInv, TypeOK, KnownInv, GateInv
<1>2. /\ c \in CallType /\ c.op = call[p].op
      /\ c.step \in {"target", "others"} /\ (call[p].led => c.step = "target")
      /\ c.who = call[p].who /\ c.steady = call[p].steady
      /\ c.known = call[p].known
  BY <1>1 DEF CallType, Steps
<1>3. /\ call[p].step = "flows" /\ call' = [call EXCEPT ![p] = c]
      /\ UNCHANGED store
  BY DEF ReadFlows
<1> HIDE DEF c
<1>4. p \in Web => GateOk(c, assigned, target, obligation, Holder)
  BY <1>1, <1>2, <1>3 DEF GateOk
<1> QED BY <1>1, <1>2, <1>3, <1>4, Reads

LEMMA ReadTargetStep ==
    ASSUME IInv, NEW p \in Calls, ReadTarget(p)
    PROVE  IInv'
<1> DEFINE c == [call[p] EXCEPT !.step = "write", !.led = FALSE, !.known = target]
<1>1. /\ call[p] \in CallType /\ target \in {"none"} \cup Instants
      /\ p \in Web => GateOk(call[p], assigned, target, obligation, Holder)
  BY DEF IInv, TypeOK, GateInv
<1>2. /\ c \in CallType /\ c.op = call[p].op /\ c.step = "write"
      /\ c.who = call[p].who /\ c.steady = call[p].steady
      /\ c.known = target
  BY <1>1 DEF CallType, Steps
<1>3. /\ call[p].step = "target" /\ call' = [call EXCEPT ![p] = c]
      /\ UNCHANGED store
  BY DEF ReadTarget
<1> HIDE DEF c
<1>4. p \in Web => GateOk(c, assigned, target, obligation, Holder)
  BY <1>1, <1>2, <1>3 DEF GateOk
<1> QED BY <1>1, <1>2, <1>3, <1>4, Reads

LEMMA WriteObligationStep ==
    ASSUME IInv, NEW p \in Calls, WriteObligation(p)
    PROVE  IInv'
<1> DEFINE c == AfterEnsure(call[p])
<1>1. /\ call[p] \in CallType /\ phase \in Instants /\ faults \in 0..MaxFaults
      /\ assigned \subseteq Leaders /\ target \in {"none"} \cup Instants
      /\ call[p].known # "none" => target # "none"
      /\ p \in Web => GateOk(call[p], assigned, target, obligation, Holder)
  BY DEF IInv, TypeOK, KnownInv, GateInv
<1>2. /\ c \in CallType /\ c.step \in {"status", "idle"} /\ c.known = "none"
      /\ c.op = "gate" => /\ call[p].op = "gate" /\ c.who = call[p].who
                          /\ c.steady = call[p].steady
  BY <1>1, AfterEnsureType
<1>3. /\ call' = [call EXCEPT ![p] = c] /\ lock = Free
      /\ obligation' = Judge(call[p])
      /\ UNCHANGED <<phase, assigned, target, lock, faults>>
  BY DEF WriteObligation
<1> HIDE DEF c
<1>4. /\ obligation' \in Incomplete \cup Complete
      /\ obligation' \in Incomplete \/ target' # "none"
  BY <1>1, <1>3, JudgeType
<1>5. Holder'.led
  <2>1. Holder' = [Idle EXCEPT !.led = TRUE]
    BY <1>3 DEF Holder
  <2> QED BY <2>1 DEF Idle
<1>6. p \in Web => GateOk(c, assigned', target', obligation', Holder')
  BY <1>1, <1>2, <1>3, <1>4, <1>5 DEF GateOk
<1>7. obligation' \in Statuses /\ (obligation' \in Complete => target' # "none")
  BY <1>4 DEF Statuses, Incomplete, Complete
<1> QED BY <1>1, <1>2, <1>3, <1>4, <1>6, <1>7, Moves

LEMMA ReadOthersStep ==
    ASSUME IInv, NEW p \in Calls, ReadOthers(p)
    PROVE  IInv'
<1>1. /\ call[p] \in CallType
      /\ call[p].known # "none" => target # "none"
      /\ p \in Web => GateOk(call[p], assigned, target, obligation, Holder)
      /\ call[p].step = "others" /\ UNCHANGED store
  BY DEF IInv, TypeOK, KnownInv, GateInv, ReadOthers
<1>2. CASE obligation = "PENDING" /\ call[p].instant = "late"
  <2> DEFINE c == [call[p] EXCEPT !.step = "overdue"]
  <2>1. /\ c \in CallType /\ c.op = call[p].op /\ c.step = "overdue"
        /\ c.steady = call[p].steady /\ c.known = call[p].known
    BY <1>1 DEF CallType, Steps
  <2>2. call' = [call EXCEPT ![p] = c]
    BY <1>2 DEF ReadOthers
  <2> HIDE DEF c
  <2>3. p \in Web => GateOk(c, assigned, target, obligation, Holder)
    BY <1>1, <2>1 DEF GateOk
  <2> QED BY <1>1, <2>1, <2>2, <2>3, Reads
<1>3. CASE ~ (obligation = "PENDING" /\ call[p].instant = "late")
  <2> DEFINE c == AfterEnsure(call[p])
  <2>1. /\ c \in CallType /\ c.known = "none"
        /\ c.op = "gate" => call[p].op = "gate" /\ c.steady = call[p].steady
    BY <1>1, AfterEnsureType
  <2>2. call' = [call EXCEPT ![p] = c]
    BY <1>3 DEF ReadOthers
  <2> HIDE DEF c
  <2>3. p \in Web => GateOk(c, assigned, target, obligation, Holder)
    BY <1>1, <2>1 DEF GateOk
  <2> QED BY <1>1, <2>1, <2>2, <2>3, Reads
<1> QED BY <1>2, <1>3

LEMMA WriteOverdueStep ==
    ASSUME IInv, NEW p \in Calls, WriteOverdue(p)
    PROVE  IInv'
<1> DEFINE c == AfterEnsure(call[p])
<1>1. /\ call[p] \in CallType /\ phase \in Instants /\ faults \in 0..MaxFaults
      /\ assigned \subseteq Leaders /\ target \in {"none"} \cup Instants
      /\ p \in Web => GateOk(call[p], assigned, target, obligation, Holder)
  BY DEF IInv, TypeOK, GateInv
<1>2. /\ c \in CallType /\ c.known = "none"
      /\ c.op = "gate" => call[p].op = "gate" /\ c.steady = call[p].steady
  BY <1>1, AfterEnsureType
<1>3. /\ call[p].step = "overdue" /\ call' = [call EXCEPT ![p] = c] /\ lock = Free
      /\ obligation' = "OVERDUE"
      /\ UNCHANGED <<phase, assigned, target, lock, faults>>
  BY DEF WriteOverdue
<1> HIDE DEF c
<1>4. /\ obligation' \in Incomplete /\ obligation' \in Statuses
      /\ obligation' \notin Complete
  BY <1>3 DEF Statuses, Incomplete, Complete
<1>5. p \in Web => GateOk(c, assigned', target', obligation', Holder')
  BY <1>1, <1>2, <1>3 DEF GateOk
<1> QED BY <1>1, <1>2, <1>3, <1>4, <1>5, Moves

--------------------------------------------------------------------------------
\* A call that is idle starts as anything but a gate.
LEMMA StartReconcileStep ==
    ASSUME IInv, NEW p \in Calls, StartReconcile(p)
    PROVE  IInv'
<1> DEFINE b == [Idle EXCEPT !.op = "ensure"]
           c == LeadersRead(b)
<1>1. phase \in Instants
  BY DEF IInv, TypeOK
<1>2. b \in CallType /\ b.op = "ensure" /\ b.known = "none"
  BY DEF Idle, CallType, Steps, Instants
<1> HIDE DEF b
<1>3. c \in CallType /\ c.op = "ensure" /\ c.known = "none"
  BY <1>1, <1>2, LeadersReadType
<1>4. /\ call[p].step = "idle" /\ call' = [call EXCEPT ![p] = c] /\ UNCHANGED store
  BY DEF StartReconcile, b
<1> HIDE DEF c
<1>5. GateOk(c, assigned, target, obligation, Holder)
  BY <1>3 DEF GateOk
<1> QED BY <1>3, <1>4, <1>5, Reads

LEMMA StartSaveStep ==
    ASSUME IInv, NEW w \in Web, NEW S \in SUBSET Leaders, StartSave(w, S)
    PROVE  IInv'
<1> DEFINE c == [Idle EXCEPT !.op = "save", !.step = "write", !.instant = phase]
<1>1. phase \in Instants /\ w \in Calls
  BY CallsFacts DEF IInv, TypeOK
<1>2. c \in CallType /\ c.op = "save" /\ c.known = "none"
  BY <1>1 DEF Idle, CallType, Steps, Instants
<1>3. /\ call[w].step = "idle" /\ call' = [call EXCEPT ![w] = c] /\ UNCHANGED store
  BY DEF StartSave
<1> HIDE DEF c
<1>4. GateOk(c, assigned, target, obligation, Holder)
  BY <1>2 DEF GateOk
<1> QED BY <1>1, <1>2, <1>3, <1>4, Reads

LEMMA StartRemoveStep ==
    ASSUME IInv, NEW w \in Web, NEW S \in SUBSET Leaders, StartRemove(w, S)
    PROVE  IInv'
<1> DEFINE c == [Idle EXCEPT !.op = "remove", !.step = "waive", !.who = S,
                             !.instant = phase]
<1>1. phase \in Instants /\ w \in Calls
  BY CallsFacts DEF IInv, TypeOK
<1>2. c \in CallType /\ c.op = "remove" /\ c.known = "none"
  BY <1>1 DEF Idle, CallType, Steps, Instants
<1>3. /\ call[w].step = "idle" /\ call' = [call EXCEPT ![w] = c] /\ UNCHANGED store
  BY DEF StartRemove
<1> HIDE DEF c
<1>4. GateOk(c, assigned, target, obligation, Holder)
  BY <1>2 DEF GateOk
<1> QED BY <1>1, <1>2, <1>3, <1>4, Reads

LEMMA StartGateStep ==
    ASSUME IInv, NEW w \in Web, NEW l \in Leaders, StartGate(w, l)
    PROVE  IInv'
<1> DEFINE c == [Idle EXCEPT !.op = "gate", !.step = "leaders", !.who = {l},
                             !.steady = TRUE]
<1>1. w \in Calls
  BY CallsFacts
<1>2. /\ c \in CallType /\ c.step = "leaders" /\ c.who = {l} /\ c.known = "none"
  BY DEF Idle, CallType, Steps, Instants
<1>3. /\ call[w].step = "idle" /\ l \in assigned
      /\ call' = [call EXCEPT ![w] = c] /\ UNCHANGED store
  BY DEF StartGate
<1> HIDE DEF c
<1>4. GateOk(c, assigned, target, obligation, Holder)
  BY <1>2, <1>3 DEF GateOk
<1> QED BY <1>1, <1>2, <1>3, <1>4, Reads

\* The gate admits only on a status that is not owed, and GateInv says that such a
\* status means a target.
LEMMA DecideGateStep ==
    ASSUME IInv, NEW w \in Web, DecideGate(w)
    PROVE  IInv'
<1>1. /\ w \in Calls /\ call[w] \in CallType
      /\ call[w].known # "none" => target # "none"
      /\ GateOk(call[w], assigned, target, obligation, Holder)
      /\ call[w].step = "status" /\ UNCHANGED store
  BY CallsFacts DEF IInv, TypeOK, KnownInv, GateInv, DecideGate
<1>2. CASE obligation \in Incomplete
  <2>1. call' = [call EXCEPT ![w] = Idle]
    BY <1>2 DEF DecideGate
  <2>2. GateOk(Idle, assigned, target, obligation, Holder)
    BY IdleType DEF GateOk
  <2> QED BY <1>1, <2>1, <2>2, IdleType, Reads
<1>3. CASE obligation \notin Incomplete
  <2> DEFINE c == [call[w] EXCEPT !.step = "admitted"]
  <2>1. /\ c \in CallType /\ c.op = call[w].op /\ c.step = "admitted"
        /\ c.who = call[w].who /\ c.steady = call[w].steady
        /\ c.known = call[w].known
    BY <1>1 DEF CallType, Steps
  <2>2. call' = [call EXCEPT ![w] = c]
    BY <1>3 DEF DecideGate
  <2> HIDE DEF c
  <2>3. GateOk(c, assigned, target, obligation, Holder)
    BY <1>1, <1>3, <2>1 DEF GateOk
  <2> QED BY <1>1, <2>1, <2>2, <2>3, Reads
<1> QED BY <1>2, <1>3

LEMMA RespondStep ==
    ASSUME IInv, NEW w \in Web, Respond(w)
    PROVE  IInv'
<1>1. GateOk(Idle, assigned, target, obligation, Holder)
  BY IdleType DEF GateOk
<1>2. w \in Calls /\ call[w].step # "removed"
      /\ call' = [call EXCEPT ![w] = Idle] /\ UNCHANGED store
  BY CallsFacts DEF Respond
<1> QED BY <1>1, <1>2, IdleType, Reads

--------------------------------------------------------------------------------
LEMMA CommitSaveStep ==
    ASSUME IInv, NEW w \in Web, CommitSave(w)
    PROVE  IInv'
<1>1. /\ w \in Calls /\ call[w] \in CallType /\ phase \in Instants
      /\ faults \in 0..MaxFaults /\ assigned \subseteq Leaders
  BY CallsFacts DEF IInv, TypeOK
<1>2. /\ call' = [call EXCEPT ![w] = Idle] /\ lock = Free
      /\ target' = call[w].instant /\ obligation' = Done(call[w].instant)
      /\ UNCHANGED <<phase, assigned, lock, faults>>
  BY DEF CommitSave
<1>3. target' \in {"none"} \cup Instants /\ target' # "none"
  BY <1>1, <1>2 DEF CallType, Instants
<1>4. obligation' \in Statuses
  BY <1>2 DEF Done, Statuses, Complete
<1>5. GateOk(Idle, assigned', target', obligation', Holder')
  BY IdleType DEF GateOk
<1> QED BY <1>1, <1>2, <1>3, <1>4, <1>5, IdleType, Moves

LEMMA AssignStep ==
    ASSUME IInv, NEW w \in Web, NEW l \in Leaders, Assign(w, l)
    PROVE  IInv'
<1> DEFINE c == [Idle EXCEPT !.op = "ensure", !.step = "leaders"]
<1>1. /\ w \in Calls /\ phase \in Instants /\ faults \in 0..MaxFaults
      /\ assigned \subseteq Leaders /\ target \in {"none"} \cup Instants
      /\ obligation \in Statuses /\ (obligation \in Complete => target # "none")
      /\ lock # Free => call[lock].step = "removed"
  BY CallsFacts DEF IInv, TypeOK, FulfilledIsSubmitted
<1>2. c \in CallType /\ c.op = "ensure" /\ c.known = "none"
  BY DEF Idle, CallType, Steps, Instants
<1>3. /\ call[w].step = "idle" /\ call' = [call EXCEPT ![w] = c]
      /\ assigned' = assigned \cup {l}
      /\ UNCHANGED <<phase, target, obligation, lock, faults>>
  BY DEF Assign
<1> HIDE DEF c
<1>4. GateOk(c, assigned', target', obligation', Holder')
  BY <1>2 DEF GateOk
<1>5. lock' = Free \/ (lock' = lock /\ lock # w /\ obligation' = obligation)
  BY <1>1, <1>3
<1> QED BY <1>1, <1>2, <1>3, <1>4, <1>5, Moves

LEMMA FailStep ==
    ASSUME IInv, NEW p \in Calls, Fail(p)
    PROVE  IInv'
<1>1. /\ phase \in Instants /\ faults \in 0..MaxFaults
      /\ assigned \subseteq Leaders /\ target \in {"none"} \cup Instants
      /\ obligation \in Statuses /\ (obligation \in Complete => target # "none")
  BY DEF IInv, TypeOK, FulfilledIsSubmitted
<1>2. /\ call' = [call EXCEPT ![p] = Idle] /\ faults < MaxFaults /\ faults' = faults + 1
      /\ lock' = IF lock = p THEN Free ELSE lock
      /\ UNCHANGED <<phase, assigned, target, obligation>>
  BY DEF Fail
<1>3. faults' \in 0..MaxFaults
  BY <1>1, <1>2, FaultsAssumption
<1>4. GateOk(Idle, assigned', target', obligation', Holder')
  BY IdleType DEF GateOk
<1>5. lock' = Free \/ (lock' = lock /\ lock # p /\ obligation' = obligation)
  BY <1>2
<1> QED BY <1>1, <1>2, <1>3, <1>4, <1>5, IdleType, Moves

\* The removal takes the lock and counts the leaders left: a gate's leader is one of
\* them, unless it is among those removed.
LEMMA LockPendingStep ==
    ASSUME IInv, NEW w \in Web, LockPending(w)
    PROVE  IInv'
<1> DEFINE c == [call[w] EXCEPT !.step = "removed", !.led = assigned \ call[w].who # {}]
<1> USE CallsFacts
<1>1. /\ w \in Calls /\ call \in [Calls -> CallType] /\ call[w] \in CallType
      /\ call[w].known # "none" => target # "none"
      /\ GateOk(call[w], assigned, target, obligation, Holder)
  BY DEF IInv, TypeOK, KnownInv, GateInv
<1>2. /\ c \in CallType /\ c.op = call[w].op /\ c.step = "removed"
      /\ c.led = (assigned \ call[w].who # {}) /\ c.who = call[w].who
      /\ c.steady = call[w].steady /\ c.known = call[w].known
  BY <1>1 DEF CallType, Steps
<1>3. /\ call' = [call EXCEPT ![w] = c] /\ call[w].step = "waive" /\ lock = Free
      /\ lock' = IF obligation = "PENDING" THEN w ELSE Free
      /\ UNCHANGED <<phase, assigned, target, obligation, faults>>
  BY DEF LockPending
<1> HIDE DEF c
<1>4. /\ call' \in [Calls -> CallType] /\ call'[w] = c
      /\ \A q \in Calls \ {w} : call'[q] = call[q]
  BY <1>1, <1>2, <1>3
<1>5. TypeOK'
  <2>1. lock' # Free => call'[lock'].step = "removed" /\ obligation' = "PENDING"
    BY <1>2, <1>3, <1>4
  <2>2. lock' \in {Free} \cup Web
    BY <1>3
  <2> QED BY <1>3, <1>4, <2>1, <2>2 DEF IInv, TypeOK
<1>6. FulfilledIsSubmitted' /\ KnownInv'
  BY <1>1, <1>2, <1>3, <1>4 DEF IInv, FulfilledIsSubmitted, KnownInv
<1>7. GateInv'
  <2> SUFFICES ASSUME NEW v \in Web
               PROVE  GateOk(call'[v], assigned', target', obligation', Holder')
    BY DEF GateInv
  <2>1. CASE v = w
    BY <1>1, <1>2, <1>3, <1>4, <2>1 DEF GateOk
  <2>2. CASE v # w
    <3>1. call'[v] = call[v] /\ GateOk(call[v], assigned, target, obligation, Holder)
      BY <1>4, <2>2 DEF IInv, GateInv
    <3>2. CASE lock' = Free
      <4>1. Holder' = Holder
        BY <1>3, <3>2 DEF Holder
      <4> QED BY <1>3, <3>1, <4>1
    <3>3. CASE lock' = w
      <4>1. Holder' = c
        BY <1>4, <3>3 DEF Holder
      <4> QED BY <1>2, <1>3, <3>1, <4>1 DEF GateOk
    <3> QED BY <1>3, <3>2, <3>3
  <2> QED BY <2>1, <2>2
<1> QED BY <1>5, <1>6, <1>7 DEF IInv

\* The removal commits: where it excuses, it has found no leader besides those it
\* removes, so no gate of a leader that stays is under way past its own refresh.
LEMMA CommitRemoveStep ==
    ASSUME IInv, NEW w \in Web, CommitRemove(w)
    PROVE  IInv'
<1> USE CallsFacts
<1>1. /\ w \in Calls /\ call \in [Calls -> CallType] /\ call[w] \in CallType
      /\ lock \in {Free} \cup Web /\ obligation \in Statuses
      /\ lock # Free => call[lock].step = "removed" /\ obligation = "PENDING"
  BY DEF IInv, TypeOK
<1>2. /\ call[w].step = "removed" /\ assigned' = assigned \ call[w].who
      /\ obligation' = IF lock = w THEN Excused(call[w]) ELSE obligation
      /\ lock' = IF lock = w THEN Free ELSE lock
      /\ call' = [p \in Calls |->
                    IF p = w THEN Idle
                    ELSE [call[p] EXCEPT !.steady = @ /\ call[p].who \cap call[w].who = {}]]
      /\ UNCHANGED <<phase, target, faults>>
  BY DEF CommitRemove
<1>3. call'[w] = Idle
  BY <1>1, <1>2
<1>4. ASSUME NEW p \in Calls \ {w}
      PROVE  /\ call'[p] \in CallType /\ call'[p].op = call[p].op
             /\ call'[p].step = call[p].step /\ call'[p].who = call[p].who
             /\ call'[p].led = call[p].led /\ call'[p].known = call[p].known
             /\ call'[p].steady => call[p].steady /\ call[p].who \cap call[w].who = {}
  <2> DEFINE b == call[p].steady /\ call[p].who \cap call[w].who = {}
             c == [call[p] EXCEPT !.steady = b]
  <2>1. call'[p] = c
    BY <1>2
  <2>2. b \in BOOLEAN /\ call[p] \in CallType
    BY <1>1
  <2>3. b => call[p].steady /\ call[p].who \cap call[w].who = {}
    OBVIOUS
  <2> HIDE DEF b
  <2>4. /\ c \in CallType /\ c.op = call[p].op /\ c.step = call[p].step
        /\ c.who = call[p].who /\ c.led = call[p].led /\ c.known = call[p].known
        /\ c.steady = b
    BY <2>2 DEF CallType
  <2> HIDE DEF c
  <2> QED BY <2>1, <2>3, <2>4
<1>5. call' \in [Calls -> CallType]
  <2>1. \A p \in Calls : call'[p] \in CallType
    BY <1>3, <1>4, IdleType
  <2>2. call' = [p \in Calls |-> call'[p]]
    BY <1>2
  <2> QED BY <2>1, <2>2
<1>6. /\ obligation' \in Statuses
      /\ obligation' \in Complete => obligation' = obligation
      /\ lock = w => obligation' \in Incomplete \/ (~ call[w].led /\ obligation' = "WAIVED")
      /\ lock # w => obligation' = obligation
  BY <1>1, <1>2 DEF Excused, Statuses, Incomplete, Complete
<1>7. TypeOK'
  <2>1. lock' # Free => call'[lock'].step = "removed" /\ obligation' = "PENDING"
    <3> SUFFICES ASSUME lock' # Free
                 PROVE  call'[lock'].step = "removed" /\ obligation' = "PENDING"
      OBVIOUS
    <3>1. lock' = lock /\ lock # w /\ lock # Free
      BY <1>2
    <3>2. lock \in Calls \ {w}
      BY <1>1, <3>1
    <3>3. call'[lock].step = call[lock].step
      BY <1>4, <3>2
    <3> QED BY <1>1, <1>6, <3>1, <3>3
  <2>2. lock' \in {Free} \cup Web
    BY <1>1, <1>2
  <2>3. assigned' \subseteq Leaders
    BY <1>2 DEF IInv, TypeOK
  <2> QED BY <1>2, <1>5, <1>6, <2>1, <2>2, <2>3 DEF IInv, TypeOK
<1>8. FulfilledIsSubmitted'
  BY <1>2, <1>6 DEF IInv, FulfilledIsSubmitted
<1>9. KnownInv'
  <2> SUFFICES ASSUME NEW p \in Calls, call'[p].known # "none"
               PROVE  target' # "none"
    BY DEF KnownInv
  <2>1. p # w
    BY <1>3, IdleType
  <2>2. call'[p].known = call[p].known
    BY <1>4, <2>1
  <2> QED BY <1>2, <2>2 DEF IInv, KnownInv
<1>10. GateInv'
  <2> SUFFICES ASSUME NEW v \in Web
               PROVE  GateOk(call'[v], assigned', target', obligation', Holder')
    BY DEF GateInv
  <2>1. CASE v = w
    BY <1>3, <2>1, IdleType DEF GateOk
  <2>2. CASE v # w
    <3>1. /\ GateOk(call[v], assigned, target, obligation, Holder)
          /\ call'[v].op = call[v].op /\ call'[v].step = call[v].step
          /\ call'[v].who = call[v].who /\ call'[v].led = call[v].led
          /\ call'[v].steady => call[v].steady /\ call[v].who \cap call[w].who = {}
      BY <1>4, <2>2 DEF IInv, GateInv
    <3>2. CASE lock = w
      <4>1. Holder = call[w] /\ Holder' = [Idle EXCEPT !.led = TRUE]
        BY <1>1, <1>2, <3>2 DEF Holder
      <4>2. Holder'.led
        BY <4>1 DEF Idle
      <4> QED BY <1>2, <1>6, <3>1, <3>2, <4>1, <4>2 DEF GateOk
    <3>3. CASE lock # w
      <4>1. lock' = lock /\ obligation' = obligation
        BY <1>2, <1>6, <3>3
      <4>2. Holder'.led = Holder.led /\ Holder'.who = Holder.who
        <5>1. CASE lock = Free
          BY <4>1, <5>1 DEF Holder
        <5>2. CASE lock # Free
          <6>1. lock \in Calls \ {w}
            BY <1>1, <3>3, <5>2
          <6>2. call'[lock].led = call[lock].led /\ call'[lock].who = call[lock].who
            BY <1>4, <6>1
          <6> QED BY <4>1, <5>2, <6>2 DEF Holder
        <5> QED BY <5>1, <5>2
      <4> QED BY <1>2, <3>1, <4>1, <4>2 DEF GateOk
    <3> QED BY <3>2, <3>3
  <2> QED BY <2>1, <2>2
<1> QED BY <1>7, <1>8, <1>9, <1>10 DEF IInv

LEMMA DeadlineStep ==
    ASSUME IInv, DeadlinePasses
    PROVE  IInv'
<1>1. /\ phase' = "late"
      /\ UNCHANGED <<assigned, target, obligation, lock, call, faults>>
  BY DEF DeadlinePasses
<1> QED BY <1>1 DEF IInv, TypeOK, Instants, FulfilledIsSubmitted, KnownInv, GateInv, Holder

--------------------------------------------------------------------------------
LEMMA InitHolds == Init => IInv
<1> SUFFICES ASSUME Init PROVE IInv
  OBVIOUS
<1>1. /\ phase = "due" /\ assigned \in SUBSET Leaders /\ target = "none"
      /\ obligation = "none" /\ lock = Free /\ faults = 0
      /\ call = [p \in Calls |-> Idle]
  BY DEF Init
<1>2. \A p \in Calls : call[p] = Idle
  BY <1>1
<1>3. TypeOK
  BY <1>1, IdleType, FaultsAssumption DEF TypeOK, Instants, Statuses
<1>4. FulfilledIsSubmitted /\ KnownInv
  BY <1>1, <1>2, IdleType DEF FulfilledIsSubmitted, KnownInv, Complete
<1>5. GateInv
  BY <1>2, IdleType, CallsFacts DEF GateInv, GateOk
<1> QED BY <1>3, <1>4, <1>5 DEF IInv

LEMMA StepHolds == IInv /\ [Next]_vars => IInv'
<1> SUFFICES ASSUME IInv, [Next]_vars PROVE IInv'
  OBVIOUS
<1>1. CASE StartReconcile(Task)
  BY <1>1, StartReconcileStep, CallsFacts
<1>2. ASSUME NEW p \in Calls, Ensure(p) PROVE IInv'
  BY <1>2, ReadLeadersStep, ReadFlowsStep, ReadTargetStep, WriteObligationStep,
     ReadOthersStep, WriteOverdueStep DEF Ensure
<1>3. ASSUME NEW p \in Calls, Fail(p) PROVE IInv'
  BY <1>3, FailStep
<1>4. ASSUME NEW w \in Web, Request(w) PROVE IInv'
  BY <1>4, AssignStep, StartGateStep, StartSaveStep, StartRemoveStep DEF Request
<1>5. ASSUME NEW w \in Web, Continue(w) PROVE IInv'
  BY <1>5, CommitSaveStep, LockPendingStep, CommitRemoveStep, DecideGateStep,
     RespondStep DEF Continue
<1>6. CASE DeadlinePasses
  BY <1>6, DeadlineStep
<1>7. CASE UNCHANGED vars
  BY <1>7 DEF vars, IInv, TypeOK, FulfilledIsSubmitted, KnownInv, GateInv, Holder
<1> QED BY <1>1, <1>2, <1>3, <1>4, <1>5, <1>6, <1>7 DEF Next

LEMMA Invariance == Spec => []IInv
BY InitHolds, StepHolds, PTL DEF Spec

\* Every call in progress stays well formed, and the row that a removal has locked
\* stays pending until the removal commits or is rolled back.
THEOREM TypeCorrect == Spec => []TypeOK
<1>1. IInv => TypeOK
  BY DEF IInv
<1> QED BY <1>1, Invariance, PTL

\* No stale row saved back ever counts as done without a stored target.
THEOREM DoneHasTarget == Spec => []FulfilledIsSubmitted
<1>1. IInv => FulfilledIsSubmitted
  BY DEF IInv
<1> QED BY <1>1, Invariance, PTL

\* The gate lets a leader who keeps the assignment through only with a target.
THEOREM GateIsSafe == Spec => []GateHolds
<1>1. IInv => GateHolds
  BY DEF IInv, GateInv, GateOk, GateHolds
<1> QED BY <1>1, Invariance, PTL


--------------------------------------------------------------------------------
\* The pages and saves of TargetPages.

\* Every entry of v is the entry of p of that name.
Within(v, p) == DOMAIN v \subseteq DOMAIN p /\ \A e \in DOMAIN v : v[e] = p[e]

\* A value for a key agrees with the row and the personal targets of a day.
Agrees(value, row, entries, key) ==
    IF key = "group" THEN value = {r.target : r \in row}
    ELSE IF key = "minutes" THEN value = UNION {r.planned : r \in row}
    ELSE \A v \in value : Within(v, entries[key])

\* The keys a save that has come to a key has still to write, and what it writes.
Rest(key) == IF key = "group" THEN {"group", "minutes"}
             ELSE IF key = "targets" THEN {"targets", "orders"} ELSE {key}
SavedAs(c, key) == Saved([c EXCEPT !.key = key])
Renews(c, day, key) ==
    c.step = "refresh" /\ c.day = day /\ key \in Rest(c.key) /\ SavedAs(c, key) # {}

Paging(c) == c.step \in {"lookup", "read", "fill", "shown"}

\* What a page has read so far, against the row and the personal targets of its day.
SeenOk(c, row, entries) ==
    /\ c.key # "group" \/ c.step \in {"fill", "shown"} =>
          c.seen.group = {r.target : r \in row}
    /\ c.key \in {"targets", "orders"} \/ (c.key = "minutes" /\ c.step = "fill")
          \/ c.step = "shown" => c.seen.minutes = UNION {r.planned : r \in row}
    /\ Within(c.seen.targets, entries.targets)
    /\ Within(c.seen.orders, entries.orders)

\* What a request will write to Redis is what is stored, and so is what a page
\* has read that no save has overlapped.
Fits(c, row, entries) ==
    /\ c.step = "refresh" =>
          \A k \in Rest(c.key) :
              SavedAs(c, k) = {} \/ Agrees(SavedAs(c, k), row, entries, k)
    /\ c.step = "fill" => Agrees(Copied(c), row, entries, c.key)
    /\ Paging(c) /\ c.alone => SeenOk(c, row, entries)

RequestOk(c) ==
    /\ c = [step |-> c.step, day |-> c.day, past |-> c.past, key |-> c.key,
            seen |-> c.seen, row |-> c.row, form |-> c.form, alone |-> c.alone]
    /\ c.seen = [group |-> c.seen.group, minutes |-> c.seen.minutes,
                 targets |-> c.seen.targets, orders |-> c.seen.orders]
    /\ c.step \in {"idle", "lookup", "read", "fill", "shown", "commit", "refresh"}
    /\ c.key \in Keys
    /\ c.step # "idle" => c.day \in Days
    /\ c.row # {} => /\ c.form = Nothing
                     /\ \E t, p : c.row = {[target |-> t, planned |-> {p}]}
    /\ c.step = "refresh" => (c.row = {} <=> c.key \in {"targets", "orders"})

PagesTypeOK ==
    /\ today \in Days
    /\ DOMAIN submitted = Days /\ DOMAIN personal = Days /\ DOMAIN cache = Days
    /\ \A d \in Days : DOMAIN cache[d] = Keys
    /\ DOMAIN request = Requests /\ \A w \in Requests : RequestOk(request[w])
    /\ stale \in [Days -> BOOLEAN]

\* Unless it was left behind, a copy is what is stored or is about to be renewed.
CopiesAgree ==
    \A d \in Days : ~ stale[d] =>
        \A k \in Keys :
            \/ cache[d][k] = {}
            \/ Agrees(cache[d][k], submitted[d], personal[d], k)
            \/ \E w \in Requests : Renews(request[w], d, k)

RequestsFit ==
    \A w \in Requests : request[w].step # "idle" /\ ~ stale[request[w].day] =>
        Fits(request[w], submitted[request[w].day], personal[request[w].day])

\* No save of a page's day is writing its copies while the page counts as alone.
AloneIsAlone ==
    \A w, o \in Requests :
        Paging(request[w]) /\ request[w].alone /\ request[o].step = "refresh" =>
            request[o].day # request[w].day

PagesInv == PagesTypeOK /\ CopiesAgree /\ RequestsFit /\ AloneIsAlone

LEMMA WithinNothing == ASSUME NEW p PROVE Within(NoEntries, p)
BY DEF Within, NoEntries

LEMMA WithinUpdated ==
    ASSUME NEW old, NEW new
    PROVE  /\ Within(new, Updated(old, new))
           /\ new = NoEntries => \A v : Within(v, old) => Within(v, Updated(old, new))
<1>1. Within(new, Updated(old, new))
  BY DEF Within, Updated
<1>2. ASSUME NEW v, Within(v, old), new = NoEntries PROVE Within(v, Updated(old, new))
  BY <1>2 DEF Within, Updated, NoEntries
<1>. QED  BY <1>1, <1>2

\* What a page keeps of what it has found under the key it is at.
LEMMA SeeKeeps ==
    ASSUME NEW c, RequestOk(c), NEW found
    PROVE  LET seen == See(c.seen, c.key, found)
           IN  /\ seen = [group |-> seen.group, minutes |-> seen.minutes,
                          targets |-> seen.targets, orders |-> seen.orders]
               /\ seen.group = IF c.key = "group" THEN found ELSE c.seen.group
               /\ seen.minutes = IF c.key = "minutes" THEN found ELSE c.seen.minutes
               /\ IF c.key = "targets" THEN IF found = {} THEN seen.targets = NoEntries
                                                          ELSE seen.targets \in found
                                       ELSE seen.targets = c.seen.targets
               /\ IF c.key = "orders" THEN IF found = {} THEN seen.orders = NoEntries
                                                         ELSE seen.orders \in found
                                      ELSE seen.orders = c.seen.orders
<1>. DEFINE seen == See(c.seen, c.key, found)
            value == IF c.key \in {"group", "minutes"} THEN found
                     ELSE IF found = {} THEN NoEntries ELSE CHOOSE v \in found : TRUE
<1>0. /\ c.seen = [group |-> c.seen.group, minutes |-> c.seen.minutes,
                   targets |-> c.seen.targets, orders |-> c.seen.orders]
      /\ c.key \in {"group", "minutes", "targets", "orders"}
  BY DEF RequestOk, Keys
<1>1. seen = [c.seen EXCEPT ![c.key] = value]
  BY DEF See
<1>2. /\ c.key \in {"group", "minutes"} => value = found
      /\ c.key \notin {"group", "minutes"} =>
            IF found = {} THEN value = NoEntries ELSE value \in found
  <2>1. found # {} => (CHOOSE v \in found : TRUE) \in found
    OBVIOUS
  <2>. QED  BY <2>1
<1>. HIDE DEF seen, value
<1>3. CASE c.key = "group"
  BY <1>0, <1>1, <1>2, <1>3 DEF seen
<1>4. CASE c.key = "minutes"
  BY <1>0, <1>1, <1>2, <1>4 DEF seen
<1>5. CASE c.key = "targets"
  BY <1>0, <1>1, <1>2, <1>5 DEF seen
<1>6. CASE c.key = "orders"
  BY <1>0, <1>1, <1>2, <1>6 DEF seen
<1>. QED  BY <1>0, <1>3, <1>4, <1>5, <1>6

\* Going on after a read leaves the request well formed, and knowing what is stored
\* if what it read and what was found are.
LEMMA SeenStep ==
    ASSUME NEW c, RequestOk(c), Paging(c), c.step # "shown", NEW found
    PROVE  /\ RequestOk(Seen(c, found))
           /\ Seen(c, found).step \in {"lookup", "shown"}
           /\ Seen(c, found).day = c.day /\ Seen(c, found).alone = c.alone
           /\ \A row, entries :
                SeenOk(c, row, entries) /\ Agrees(found, row, entries, c.key) =>
                    SeenOk(Seen(c, found), row, entries)
<1>. DEFINE seen == See(c.seen, c.key, found)
            key == After(c.key, seen)
            next == Seen(c, found)
            step == IF key = "done" THEN "shown" ELSE "lookup"
<1>0. c = [step |-> c.step, day |-> c.day, past |-> c.past, key |-> c.key,
           seen |-> c.seen, row |-> c.row, form |-> c.form, alone |-> c.alone]
      /\ c.seen = [group |-> c.seen.group, minutes |-> c.seen.minutes,
                 targets |-> c.seen.targets, orders |-> c.seen.orders]
      /\ c.key \in Keys
  BY DEF RequestOk
<1>1. /\ seen = [group |-> seen.group, minutes |-> seen.minutes,
                 targets |-> seen.targets, orders |-> seen.orders]
      /\ seen.group = IF c.key = "group" THEN found ELSE c.seen.group
      /\ seen.minutes = IF c.key = "minutes" THEN found ELSE c.seen.minutes
      /\ IF c.key = "targets" THEN IF found = {} THEN seen.targets = NoEntries
                                                 ELSE seen.targets \in found
                              ELSE seen.targets = c.seen.targets
      /\ IF c.key = "orders" THEN IF found = {} THEN seen.orders = NoEntries
                                                ELSE seen.orders \in found
                             ELSE seen.orders = c.seen.orders
  BY SeeKeeps
<1>2. /\ key \in Keys \cup {"done"}
      /\ c.key = "group" => key = "minutes"
      /\ c.key = "minutes" => key \in {"done", "targets"}
      /\ c.key = "targets" => key = "orders"
      /\ c.key = "orders" => key = "done"
  BY <1>0 DEF After, Keys
<1>3. next = [step |-> step, day |-> c.day, past |-> c.past,
              key |-> IF key = "done" THEN c.key ELSE key,
              seen |-> seen, row |-> c.row, form |-> c.form, alone |-> c.alone]
  <2>. HIDE DEF seen, key
  <2>1. next = IF key = "done" THEN [c EXCEPT !.step = "shown", !.seen = seen]
               ELSE [c EXCEPT !.step = "lookup", !.seen = seen, !.key = key]
    BY DEF seen, key, Seen
  <2>. QED  BY <2>1, <1>0
<1>. HIDE DEF seen, key, next
<1>4. RequestOk(next)
  BY <1>0, <1>1, <1>2, <1>3 DEF RequestOk, Keys, Paging
<1>5. /\ next.step \in {"lookup", "shown"} /\ next.day = c.day /\ next.alone = c.alone
  BY <1>3
<1>6. ASSUME NEW row, NEW entries, SeenOk(c, row, entries), Agrees(found, row, entries, c.key)
      PROVE  SeenOk(next, row, entries)
  <2>1. /\ next.step = step /\ next.seen = seen
        /\ next.key = IF key = "done" THEN c.key ELSE key
    BY <1>3
  <2>2. next.key # "group" \/ next.step \in {"fill", "shown"} =>
            next.seen.group = {r.target : r \in row}
    BY <1>6, <1>0, <1>1, <1>2, <2>1 DEF SeenOk, Agrees, Keys
  <2>3. next.key \in {"targets", "orders"} \/ (next.key = "minutes" /\ next.step = "fill")
            \/ next.step = "shown" => next.seen.minutes = UNION {r.planned : r \in row}
    BY <1>6, <1>0, <1>1, <1>2, <2>1 DEF SeenOk, Agrees, Keys
  <2>4. Within(next.seen.targets, entries.targets)
    BY <1>6, <1>0, <1>1, <2>1, WithinNothing DEF SeenOk, Agrees
  <2>5. Within(next.seen.orders, entries.orders)
    BY <1>6, <1>0, <1>1, <2>1, WithinNothing DEF SeenOk, Agrees
  <2>. QED  BY <2>2, <2>3, <2>4, <2>5 DEF SeenOk
<1>. QED  BY <1>4, <1>5, <1>6 DEF next

\* A step of one request that neither is nor becomes a save writing its copies, and
\* after which every changed copy is what is stored.
LEMMA OneRequest ==
    ASSUME PagesInv, NEW w \in Requests, NEW next,
           request' = [request EXCEPT ![w] = next],
           UNCHANGED <<today, submitted, personal, stale>>,
           RequestOk(next), request[w].step # "refresh", next.step # "refresh",
           next.step # "idle" /\ ~ stale[next.day] =>
               Fits(next, submitted[next.day], personal[next.day]),
           Paging(next) /\ next.alone =>
               \A o \in Requests : request[o].step = "refresh" => request[o].day # next.day,
           DOMAIN cache' = Days, \A d \in Days : DOMAIN cache'[d] = Keys,
           \A d \in Days : ~ stale[d] => \A k \in Keys :
               \/ cache'[d][k] = cache[d][k]
               \/ Agrees(cache'[d][k], submitted[d], personal[d], k)
    PROVE  PagesInv'
<1>1. request'[w] = next /\ \A o \in Requests \ {w} : request'[o] = request[o]
  BY DEF PagesInv, PagesTypeOK
<1>2. PagesTypeOK'
  <2>1. \A o \in Requests : RequestOk(request'[o])
    BY <1>1 DEF PagesInv, PagesTypeOK
  <2>2. \A o \in Requests : RequestOk(request[o])'
    BY <2>1 DEF RequestOk, Keys, Days, Nothing, NoEntries
  <2>. QED  BY <2>2 DEF PagesInv, PagesTypeOK
<1>3. CopiesAgree'
  <2>. SUFFICES ASSUME NEW d \in Days, ~ stale[d], NEW k \in Keys
                PROVE  \/ cache'[d][k] = {}
                       \/ Agrees(cache'[d][k], submitted[d], personal[d], k)
                       \/ \E o \in Requests : Renews(request'[o], d, k)
    BY DEF CopiesAgree
  <2>1. CASE \E o \in Requests : Renews(request[o], d, k)
    <3>1. PICK o \in Requests : Renews(request[o], d, k)
      BY <2>1
    <3>2. o # w
      BY <3>1 DEF Renews
    <3>. QED  BY <3>1, <3>2, <1>1
  <2>2. CASE ~ \E o \in Requests : Renews(request[o], d, k)
    BY <2>2 DEF PagesInv, CopiesAgree
  <2>. QED  BY <2>1, <2>2
<1>4. RequestsFit'
  <2>. SUFFICES ASSUME NEW o \in Requests,
                       request'[o].step # "idle", ~ stale[request'[o].day]
                PROVE  Fits(request'[o], submitted[request'[o].day], personal[request'[o].day])
    BY DEF RequestsFit, Fits
  <2>. QED  BY <1>1 DEF PagesInv, RequestsFit
<1>5. AloneIsAlone'
  <2>. SUFFICES ASSUME NEW v \in Requests, NEW o \in Requests, Paging(request'[v]),
                       request'[v].alone, request'[o].step = "refresh"
                PROVE  request'[o].day # request'[v].day
    BY DEF AloneIsAlone, Paging
  <2>. QED  BY <1>1 DEF PagesInv, AloneIsAlone
<1>. QED  BY <1>2, <1>3, <1>4, <1>5 DEF PagesInv

LEMMA NoRequestOk == RequestOk(NoRequest) /\ NoRequest.step = "idle"
BY DEF RequestOk, NoRequest, Nothing, Keys

\* A page knows what its day allows it to know.
LEMMA PageKnows ==
    ASSUME PagesInv, NEW w \in Requests, Paging(request[w])
    PROVE  /\ RequestOk(request[w]) /\ request[w].day \in Days /\ request[w].key \in Keys
           /\ ~ stale[request[w].day] =>
                Fits(request[w], submitted[request[w].day], personal[request[w].day])
           /\ request[w].alone => \A o \in Requests :
                request[o].step = "refresh" => request[o].day # request[w].day
BY DEF PagesInv, PagesTypeOK, RequestOk, Paging, RequestsFit, AloneIsAlone

LEMMA StartPageStep ==
    ASSUME PagesInv, NEW w \in Requests, NEW day \in Days, StartPage(w, day) PROVE PagesInv'
<1>. DEFINE alone == \A o \in Requests : Saving(request[o]) => request[o].day # day
            past == day < today
            next == [NoRequest EXCEPT !.step = "lookup", !.day = day, !.past = past,
                                      !.alone = alone]
<1>1. /\ request' = [request EXCEPT ![w] = next] /\ request[w].step = "idle"
      /\ UNCHANGED <<today, submitted, personal, cache, stale>>
  BY DEF StartPage
<1>2. alone => \A o \in Requests : request[o].step = "refresh" => request[o].day # day
  BY DEF Saving
<1>. HIDE DEF alone, past, next
<1>3. next = [step |-> "lookup", day |-> day, past |-> past, key |-> "group",
              seen |-> Nothing, row |-> {}, form |-> Nothing, alone |-> alone]
  <2>1. next = [NoRequest EXCEPT !.step = "lookup", !.day = day, !.past = past,
                                 !.alone = alone]
    BY DEF next
  <2>. QED  BY <2>1 DEF NoRequest
<1>4. RequestOk(next)
  BY <1>3 DEF RequestOk, Nothing, Keys
<1>5. \A row, entries : Fits(next, row, entries)
  BY <1>3, WithinNothing DEF Fits, SeenOk, Nothing
<1>6. DOMAIN cache = Days /\ \A d \in Days : DOMAIN cache[d] = Keys
  BY DEF PagesInv, PagesTypeOK
<1>. QED  BY <1>1, <1>2, <1>3, <1>4, <1>5, <1>6, OneRequest

LEMMA LookupStep ==
    ASSUME PagesInv, NEW w \in Requests, Lookup(w) PROVE PagesInv'
<1>. DEFINE c == request[w]
            copy == cache[c.day][c.key]
            next == IF copy # {} THEN Seen(c, copy) ELSE [c EXCEPT !.step = "read"]
<1>1. /\ request' = [request EXCEPT ![w] = next] /\ c.step = "lookup" /\ Paging(c)
      /\ UNCHANGED <<today, submitted, personal, cache, stale>>
  BY DEF Lookup, Paging
<1>2. /\ RequestOk(c) /\ c.day \in Days /\ c.key \in Keys
      /\ ~ stale[c.day] => Fits(c, submitted[c.day], personal[c.day])
      /\ c.alone => \A o \in Requests : request[o].step = "refresh" => request[o].day # c.day
  BY <1>1, PageKnows
<1>3. copy # {} /\ ~ stale[c.day] /\ c.alone =>
          Agrees(copy, submitted[c.day], personal[c.day], c.key)
  BY <1>2 DEF PagesInv, CopiesAgree, Renews
<1>. HIDE DEF c, copy
<1>4. CASE copy # {}
  <2>1. next = Seen(c, copy)
    BY <1>4
  <2>. HIDE DEF next
  <2>2. /\ RequestOk(next) /\ next.step \in {"lookup", "shown"}
        /\ next.day = c.day /\ next.alone = c.alone
    BY <2>1, <1>1, <1>2, SeenStep
  <2>3. ~ stale[c.day] /\ c.alone => SeenOk(next, submitted[c.day], personal[c.day])
    BY <2>1, <1>1, <1>2, <1>3, <1>4, SeenStep DEF Fits
  <2>4. ~ stale[next.day] => Fits(next, submitted[next.day], personal[next.day])
    BY <2>2, <2>3 DEF Fits
  <2>5. DOMAIN cache = Days /\ \A d \in Days : DOMAIN cache[d] = Keys
    BY DEF PagesInv, PagesTypeOK
  <2>. QED  BY <1>1, <1>2, <2>2, <2>4, <2>5, OneRequest DEF c
<1>5. CASE copy = {}
  <2>1. next = [step |-> "read", day |-> c.day, past |-> c.past, key |-> c.key,
                seen |-> c.seen, row |-> c.row, form |-> c.form, alone |-> c.alone]
    BY <1>5, <1>2 DEF RequestOk
  <2>. HIDE DEF next
  <2>2. RequestOk(next)
    BY <2>1, <1>2 DEF RequestOk
  <2>3. ~ stale[next.day] => Fits(next, submitted[next.day], personal[next.day])
    BY <2>1, <1>1, <1>2 DEF Fits, SeenOk, Paging
  <2>4. DOMAIN cache = Days /\ \A d \in Days : DOMAIN cache[d] = Keys
    BY DEF PagesInv, PagesTypeOK
  <2>. QED  BY <1>1, <1>2, <2>1, <2>2, <2>3, <2>4, OneRequest DEF c
<1>. QED  BY <1>4, <1>5

\* What the database holds agrees with itself.
LEMMA StoredAgrees ==
    ASSUME NEW day, NEW key \in Keys
    PROVE  Agrees(Stored(day, key), submitted[day], personal[day], key)
BY DEF Agrees, Stored, Keys, Within

LEMMA ReadRowStep ==
    ASSUME PagesInv, NEW w \in Requests, ReadRow(w) PROVE PagesInv'
<1>. DEFINE c == request[w]
            found == Stored(c.day, c.key)
            filling == [c EXCEPT !.step = "fill", !.seen = See(c.seen, c.key, found)]
            next == IF found = {} THEN Seen(c, {}) ELSE filling
<1>1. /\ request' = [request EXCEPT ![w] = next] /\ c.step = "read" /\ Paging(c)
      /\ UNCHANGED <<today, submitted, personal, cache, stale>>
  BY DEF ReadRow, Paging
<1>2. /\ RequestOk(c) /\ c.day \in Days /\ c.key \in Keys
      /\ ~ stale[c.day] => Fits(c, submitted[c.day], personal[c.day])
      /\ c.alone => \A o \in Requests : request[o].step = "refresh" => request[o].day # c.day
  BY <1>1, PageKnows
<1>3. Agrees(found, submitted[c.day], personal[c.day], c.key)
  BY <1>2, StoredAgrees
<1>4. DOMAIN cache = Days /\ \A d \in Days : DOMAIN cache[d] = Keys
  BY DEF PagesInv, PagesTypeOK
<1>. HIDE DEF c, found
<1>5. CASE found = {}
  <2>1. next = Seen(c, {})
    BY <1>5
  <2>. HIDE DEF next
  <2>2. /\ RequestOk(next) /\ next.step \in {"lookup", "shown"}
        /\ next.day = c.day /\ next.alone = c.alone
    BY <2>1, <1>1, <1>2, SeenStep
  <2>3. ~ stale[c.day] /\ c.alone => SeenOk(next, submitted[c.day], personal[c.day])
    BY <2>1, <1>1, <1>2, <1>3, <1>5, SeenStep DEF Fits
  <2>4. ~ stale[next.day] => Fits(next, submitted[next.day], personal[next.day])
    BY <2>2, <2>3 DEF Fits
  <2>. QED  BY <1>1, <1>2, <1>4, <2>2, <2>4, OneRequest DEF c
<1>6. CASE found # {}
  <2>. DEFINE seen == See(c.seen, c.key, found)
  <2>0. c.key \in {"group", "minutes", "targets", "orders"}
    BY <1>2 DEF Keys
  <2>1. next = [step |-> "fill", day |-> c.day, past |-> c.past, key |-> c.key,
                seen |-> seen, row |-> c.row, form |-> c.form, alone |-> c.alone]
    <3>1. next = [c EXCEPT !.step = "fill", !.seen = seen]
      BY <1>6
    <3>. HIDE DEF next, seen
    <3>. QED  BY <3>1, <1>2 DEF RequestOk
  <2>2. /\ seen = [group |-> seen.group, minutes |-> seen.minutes,
                   targets |-> seen.targets, orders |-> seen.orders]
        /\ seen.group = IF c.key = "group" THEN found ELSE c.seen.group
        /\ seen.minutes = IF c.key = "minutes" THEN found ELSE c.seen.minutes
        /\ IF c.key = "targets" THEN seen.targets \in found ELSE seen.targets = c.seen.targets
        /\ IF c.key = "orders" THEN seen.orders \in found ELSE seen.orders = c.seen.orders
    BY <1>2, <1>6, SeeKeeps
  <2>. HIDE DEF next, seen
  <2>3. RequestOk(next)
    BY <2>1, <2>2, <1>2 DEF RequestOk
  <2>4. Agrees(Copied(next), submitted[c.day], personal[c.day], c.key)
    <3>1. Copied(next) = IF c.key = "group" THEN seen.group
                         ELSE IF c.key = "minutes" THEN seen.minutes
                         ELSE IF c.key = "targets" THEN {seen.targets} ELSE {seen.orders}
      BY <2>0, <2>1 DEF Copied
    <3>. QED  BY <3>1, <2>0, <2>2, <1>3 DEF Agrees
  <2>5. ~ stale[c.day] /\ c.alone => SeenOk(next, submitted[c.day], personal[c.day])
    <3>. SUFFICES ASSUME ~ stale[c.day], c.alone
                  PROVE  SeenOk(next, submitted[c.day], personal[c.day])
      OBVIOUS
    <3>1. SeenOk(c, submitted[c.day], personal[c.day])
      BY <1>1, <1>2 DEF Fits
    <3>. QED  BY <3>1, <2>0, <2>1, <2>2, <1>3, <1>1 DEF SeenOk, Agrees
  <2>6. ~ stale[next.day] => Fits(next, submitted[next.day], personal[next.day])
    BY <2>1, <2>4, <2>5 DEF Fits
  <2>. QED  BY <1>1, <1>2, <1>4, <2>1, <2>3, <2>6, OneRequest DEF c
<1>. QED  BY <1>5, <1>6

LEMMA FillStep ==
    ASSUME PagesInv, NEW w \in Requests, Fill(w) PROVE PagesInv'
<1>. DEFINE c == request[w]
            next == Seen(c, Copied(c))
<1>1. /\ request' = [request EXCEPT ![w] = next] /\ c.step = "fill" /\ Paging(c)
      /\ cache' = [cache EXCEPT ![c.day][c.key] = Copied(c)]
      /\ UNCHANGED <<today, submitted, personal, stale>>
  BY DEF Fill, Paging
<1>2. /\ RequestOk(c) /\ c.day \in Days /\ c.key \in Keys
      /\ ~ stale[c.day] => Fits(c, submitted[c.day], personal[c.day])
      /\ c.alone => \A o \in Requests : request[o].step = "refresh" => request[o].day # c.day
  BY <1>1, PageKnows
<1>3. ~ stale[c.day] => Agrees(Copied(c), submitted[c.day], personal[c.day], c.key)
  BY <1>1, <1>2 DEF Fits
<1>4. DOMAIN cache = Days /\ \A d \in Days : DOMAIN cache[d] = Keys
  BY DEF PagesInv, PagesTypeOK
<1>. HIDE DEF c
<1>5. /\ DOMAIN cache' = Days /\ \A d \in Days : DOMAIN cache'[d] = Keys
      /\ \A d \in Days : \A k \in Keys :
            cache'[d][k] = IF d = c.day /\ k = c.key THEN Copied(c) ELSE cache[d][k]
  BY <1>1, <1>2, <1>4
<1>. HIDE DEF next
<1>6. /\ RequestOk(next) /\ next.step \in {"lookup", "shown"}
      /\ next.day = c.day /\ next.alone = c.alone
  BY <1>1, <1>2, SeenStep DEF next
<1>7. ~ stale[c.day] /\ c.alone => SeenOk(next, submitted[c.day], personal[c.day])
  BY <1>1, <1>2, <1>3, SeenStep DEF Fits, next
<1>8. ~ stale[next.day] => Fits(next, submitted[next.day], personal[next.day])
  BY <1>6, <1>7 DEF Fits
<1>9. \A d \in Days : ~ stale[d] => \A k \in Keys :
          \/ cache'[d][k] = cache[d][k]
          \/ Agrees(cache'[d][k], submitted[d], personal[d], k)
  BY <1>3, <1>5
<1>10. DOMAIN cache' = Days /\ \A d \in Days : DOMAIN cache'[d] = Keys
  BY <1>5
<1>11. /\ request[w].step # "refresh" /\ next.step # "refresh"
       /\ Paging(next) /\ next.alone =>
            \A o \in Requests : request[o].step = "refresh" => request[o].day # next.day
  BY <1>1, <1>2, <1>6 DEF c
<1>. QED  BY <1>1, <1>6, <1>8, <1>9, <1>10, <1>11, OneRequest

LEMMA FillRefusedStep ==
    ASSUME PagesInv, NEW w \in Requests, FillRefused(w) PROVE PagesInv'
<1>. DEFINE c == request[w]
            seen == Seen(c, {})
            next == [seen EXCEPT !.alone = FALSE]
<1>1. /\ request' = [request EXCEPT ![w] = next] /\ c.step = "fill" /\ Paging(c)
      /\ UNCHANGED <<today, submitted, personal, cache, stale>>
  BY DEF FillRefused, Paging
<1>2. RequestOk(c)
  BY <1>1, PageKnows
<1>. HIDE DEF c
<1>3. RequestOk(seen) /\ seen.step \in {"lookup", "shown"}
  BY <1>1, <1>2, SeenStep
<1>. HIDE DEF seen, next
<1>4. next = [step |-> seen.step, day |-> seen.day, past |-> seen.past, key |-> seen.key,
              seen |-> seen.seen, row |-> seen.row, form |-> seen.form, alone |-> FALSE]
  <2>1. next = [seen EXCEPT !.alone = FALSE]
    BY DEF next
  <2>. QED  BY <2>1, <1>3 DEF RequestOk
<1>5. RequestOk(next)
  BY <1>3, <1>4 DEF RequestOk
<1>6. ~ next.alone /\ next.step \in {"lookup", "shown"}
  BY <1>3, <1>4
<1>7. \A row, entries : Fits(next, row, entries)
  BY <1>6 DEF Fits
<1>8. DOMAIN cache = Days /\ \A d \in Days : DOMAIN cache[d] = Keys
  BY DEF PagesInv, PagesTypeOK
<1>. QED  BY <1>1, <1>5, <1>6, <1>7, <1>8, OneRequest DEF c

LEMMA LeaveStep ==
    ASSUME PagesInv, NEW w \in Requests, Leave(w) PROVE PagesInv'
<1>1. DOMAIN cache = Days /\ \A d \in Days : DOMAIN cache[d] = Keys
  BY DEF PagesInv, PagesTypeOK
<1>2. ~ Paging(NoRequest)
  BY NoRequestOk DEF Paging
<1>. QED  BY <1>1, <1>2, NoRequestOk, OneRequest DEF Leave

\* A save that has been let through has read nothing and waits for its commit.
LEMMA Starting ==
    ASSUME PagesInv, NEW w \in Requests, request[w].step = "idle", NEW next,
           request' = [request EXCEPT ![w] = next], RequestOk(next), next.step = "commit",
           UNCHANGED <<today, submitted, personal, cache, stale>>
    PROVE  PagesInv'
<1>1. DOMAIN cache = Days /\ \A d \in Days : DOMAIN cache[d] = Keys
  BY DEF PagesInv, PagesTypeOK
<1>2. ~ Paging(next) /\ \A row, entries : Fits(next, row, entries)
  BY DEF Paging, Fits
<1>. QED  BY <1>1, <1>2, OneRequest

LEMMA StartGroupSaveStep ==
    ASSUME PagesInv, NEW w \in Requests, NEW anyDay \in BOOLEAN, NEW day \in Days,
           NEW goal \in Goals, StartGroupSave(w, anyDay, day, goal)
    PROVE  PagesInv'
<1>. DEFINE row == {[target |-> goal.target, planned |-> {goal.planned}]}
            next == [NoRequest EXCEPT !.step = "commit", !.day = day, !.row = row]
<1>1. /\ request' = [request EXCEPT ![w] = next] /\ request[w].step = "idle"
      /\ UNCHANGED <<today, submitted, personal, cache, stale>>
  BY DEF StartGroupSave
<1>2. \E t, p : row = {[target |-> t, planned |-> {p}]}
  OBVIOUS
<1>. HIDE DEF row, next
<1>3. next = [step |-> "commit", day |-> day, past |-> FALSE, key |-> "group",
              seen |-> Nothing, row |-> row, form |-> Nothing, alone |-> TRUE]
  <2>1. next = [NoRequest EXCEPT !.step = "commit", !.day = day, !.row = row]
    BY DEF next
  <2>. QED  BY <2>1 DEF NoRequest
<1>4. RequestOk(next)
  BY <1>2, <1>3 DEF RequestOk, Nothing, Keys
<1>5. next.step = "commit"
  BY <1>3
<1>. QED  BY <1>1, <1>4, <1>5, Starting

LEMMA StartLegacyStep ==
    ASSUME PagesInv, NEW w \in Requests, NEW form \in Forms, StartLegacy(w, form)
    PROVE  PagesInv'
<1>. DEFINE whole == Normalized(form) @@ [group |-> {}, minutes |-> {}]
            next == [NoRequest EXCEPT !.step = "commit", !.day = today, !.form = whole]
<1>1. /\ request' = [request EXCEPT ![w] = next] /\ request[w].step = "idle"
      /\ UNCHANGED <<today, submitted, personal, cache, stale>>
  BY DEF StartLegacy
<1>2. today \in Days
  BY DEF PagesInv, PagesTypeOK
<1>. HIDE DEF whole, next
<1>3. next = [step |-> "commit", day |-> today, past |-> FALSE, key |-> "group",
              seen |-> Nothing, row |-> {}, form |-> whole, alone |-> TRUE]
  <2>1. next = [NoRequest EXCEPT !.step = "commit", !.day = today, !.form = whole]
    BY DEF next
  <2>. QED  BY <2>1 DEF NoRequest
<1>4. RequestOk(next)
  BY <1>2, <1>3 DEF RequestOk, Nothing, Keys
<1>5. next.step = "commit"
  BY <1>3
<1>. QED  BY <1>1, <1>4, <1>5, Starting

LEMMA MidnightStep ==
    ASSUME PagesInv, Midnight PROVE PagesInv'
<1>1. /\ today' \in Days
      /\ cache' = [d \in Days |-> Uncopied]
      /\ stale' = [d \in Days |-> /\ stale[d]
                                  /\ \E w \in Requests :
                                        /\ request[w].day = d
                                        /\ request[w].step \in {"fill", "refresh"}]
      /\ request' = [w \in Requests |-> IF request[w].day \in Days /\ stale[request[w].day]
                                        THEN [request[w] EXCEPT !.alone = FALSE]
                                        ELSE request[w]]
      /\ UNCHANGED <<submitted, personal>>
  BY DEF Midnight
<1>2. ASSUME NEW w \in Requests
      PROVE  /\ RequestOk(request'[w])
             /\ request'[w].step = request[w].step /\ request'[w].day = request[w].day
             /\ IF request[w].day \in Days /\ stale[request[w].day]
                THEN ~ request'[w].alone ELSE request'[w] = request[w]
  <2>. DEFINE c == request[w]  next == [c EXCEPT !.alone = FALSE]
  <2>1. RequestOk(c)
    BY DEF PagesInv, PagesTypeOK
  <2>2. request'[w] = IF c.day \in Days /\ stale[c.day] THEN next ELSE c
    BY <1>1
  <2>. HIDE DEF c, next
  <2>3. next = [step |-> c.step, day |-> c.day, past |-> c.past, key |-> c.key,
                seen |-> c.seen, row |-> c.row, form |-> c.form, alone |-> FALSE]
    <3>1. next = [c EXCEPT !.alone = FALSE]
      BY DEF next
    <3>. QED  BY <3>1, <2>1 DEF RequestOk
  <2>4. RequestOk(next) /\ ~ next.alone
    BY <2>1, <2>3 DEF RequestOk
  <2>. QED  BY <2>1, <2>2, <2>3, <2>4 DEF c
<1>3. PagesTypeOK'
  <2>1. \A w \in Requests : RequestOk(request[w])'
    BY <1>2
  <2>2. \A d \in Days : DOMAIN cache'[d] = Keys
    BY <1>1 DEF Uncopied
  <2>3. stale' \in [Days -> BOOLEAN]
    BY <1>1
  <2>. QED  BY <1>1, <2>1, <2>2, <2>3 DEF PagesInv, PagesTypeOK
<1>4. CopiesAgree'
  BY <1>1 DEF CopiesAgree, Uncopied
<1>5. RequestsFit'
  <2>. SUFFICES ASSUME NEW w \in Requests,
                       request'[w].step # "idle", ~ stale'[request'[w].day]
                PROVE  Fits(request'[w], submitted[request'[w].day], personal[request'[w].day])
    BY <1>1 DEF RequestsFit
  <2>1. request[w].day \in Days /\ request'[w].day = request[w].day
    BY <1>2 DEF PagesInv, PagesTypeOK, RequestOk
  <2>2. CASE ~ stale[request[w].day]
    BY <2>1, <2>2, <1>2 DEF PagesInv, RequestsFit
  <2>3. CASE stale[request[w].day]
    <3>1. ~ request'[w].alone /\ request'[w].step \notin {"fill", "refresh"}
      BY <2>1, <2>3, <1>1, <1>2
    <3>. QED  BY <3>1 DEF Fits
  <2>. QED  BY <2>2, <2>3
<1>6. AloneIsAlone'
  <2>. SUFFICES ASSUME NEW v \in Requests, NEW o \in Requests, Paging(request'[v]),
                       request'[v].alone, request'[o].step = "refresh"
                PROVE  request'[o].day # request'[v].day
    BY DEF AloneIsAlone
  <2>. QED  BY <1>2 DEF PagesInv, AloneIsAlone, Paging
<1>. QED  BY <1>3, <1>4, <1>5, <1>6 DEF PagesInv

\* What a save writes depends on the key and on what it was asked to save only.
LEMMA SavedAsIs ==
    ASSUME NEW c, RequestOk(c)
    PROVE  /\ Saved(c) = SavedAs(c, c.key)
           /\ \A key \in Keys : SavedAs(c, key) =
                IF key = "group" THEN {r.target : r \in c.row}
                ELSE IF key = "minutes" THEN UNION {r.planned : r \in c.row}
                ELSE IF key = "targets" THEN {c.form.targets} \ {NoEntries}
                ELSE {c.form.orders} \ {NoEntries}
<1>1. c = [step |-> c.step, day |-> c.day, past |-> c.past, key |-> c.key,
           seen |-> c.seen, row |-> c.row, form |-> c.form, alone |-> c.alone]
      /\ c.key \in Keys
  BY DEF RequestOk
<1>2. ASSUME NEW key \in Keys
      PROVE  SavedAs(c, key) =
                IF key = "group" THEN {r.target : r \in c.row}
                ELSE IF key = "minutes" THEN UNION {r.planned : r \in c.row}
                ELSE IF key = "targets" THEN {c.form.targets} \ {NoEntries}
                ELSE {c.form.orders} \ {NoEntries}
  <2>. DEFINE n == [c EXCEPT !.key = key]
  <2>1. n.key = key /\ n.row = c.row /\ n.form = c.form
    BY <1>1
  <2>2. SavedAs(c, key) = Saved(n)
    BY DEF SavedAs
  <2>. HIDE DEF n
  <2>. QED  BY <2>1, <2>2 DEF Saved, Keys
<1>3. Saved(c) = SavedAs(c, c.key)
  BY <1>1, <1>2 DEF Saved, Keys
<1>. QED  BY <1>2, <1>3

LEMMA RefreshStep ==
    ASSUME PagesInv, NEW w \in Requests, Refresh(w) PROVE PagesInv'
<1>. DEFINE c == request[w]
            going == c.key \notin {"minutes", "orders"}
            after == IF c.key = "group" THEN "minutes" ELSE "orders"
            moved == [c EXCEPT !.key = after]
            next == IF c.key \in {"minutes", "orders"} THEN NoRequest ELSE moved
<1>1. /\ c.step = "refresh"
      /\ request' = [request EXCEPT ![w] = next]
      /\ cache' = IF Saved(c) = {} THEN cache ELSE [cache EXCEPT ![c.day][c.key] = Saved(c)]
      /\ UNCHANGED <<today, submitted, personal, stale>>
  <2>1. request' = [request EXCEPT ![w] = next]
    BY DEF Refresh
  <2>2. /\ c.step = "refresh"
        /\ UNCHANGED <<today, submitted, personal, stale>>
    BY DEF Refresh
  <2>3. cache' = IF Saved(c) = {} THEN cache ELSE [cache EXCEPT ![c.day][c.key] = Saved(c)]
    BY DEF Refresh
  <2>. HIDE DEF c, next
  <2>. QED  BY <2>1, <2>2, <2>3
<1>2. /\ RequestOk(c) /\ c.day \in Days /\ c.key \in Keys
      /\ ~ stale[c.day] => Fits(c, submitted[c.day], personal[c.day])
  BY <1>1 DEF PagesInv, PagesTypeOK, RequestsFit, RequestOk
<1>3. /\ DOMAIN cache = Days /\ \A d \in Days : DOMAIN cache[d] = Keys
      /\ DOMAIN request = Requests
  BY DEF PagesInv, PagesTypeOK
<1>4. request'[w] = next /\ \A o \in Requests \ {w} : request'[o] = request[o]
  BY <1>1, <1>3
<1>. HIDE DEF c, next
<1>5. /\ DOMAIN cache' = Days /\ \A d \in Days : DOMAIN cache'[d] = Keys
      /\ \A d \in Days : \A k \in Keys :
            cache'[d][k] = IF d = c.day /\ k = c.key /\ Saved(c) # {}
                           THEN Saved(c) ELSE cache[d][k]
  BY <1>1, <1>2, <1>3
<1>6. /\ RequestOk(next)
      /\ going => /\ next.step = "refresh" /\ next.day = c.day /\ next.key = after
                  /\ next.row = c.row /\ next.form = c.form
      /\ ~ going => next.step = "idle"
  <2>1. CASE going
    <3>. DEFINE n == moved
    <3>0. next = moved
      BY <2>1 DEF next
    <3>1. next = [step |-> c.step, day |-> c.day, past |-> c.past, key |-> after,
                  seen |-> c.seen, row |-> c.row, form |-> c.form, alone |-> c.alone]
      BY <3>0, <1>2 DEF RequestOk
    <3>. QED  BY <2>1, <3>1, <1>1, <1>2 DEF RequestOk, Keys
  <2>2. CASE ~ going
    BY <2>2, NoRequestOk DEF next
  <2>. QED  BY <2>1, <2>2
<1>7. going => \A k \in Keys : SavedAs(next, k) = SavedAs(c, k)
  BY <1>2, <1>6, SavedAsIs
<1>8. Saved(c) = SavedAs(c, c.key) /\ c.key \in Rest(c.key) /\ Rest(c.key) \subseteq Keys
  BY <1>2, SavedAsIs DEF Rest, Keys
<1>9. \A k \in Rest(c.key) : k = c.key \/ (going /\ k = after)
  BY <1>2 DEF Rest, Keys
<1>10. going => Rest(after) = {after} /\ after \in Rest(c.key)
  BY <1>2 DEF Rest, Keys
<1>. HIDE DEF going, after
<1>11. PagesTypeOK'
  <2>1. \A o \in Requests : RequestOk(request[o])'
    BY <1>4, <1>6 DEF PagesInv, PagesTypeOK
  <2>. QED  BY <1>1, <1>3, <1>5, <2>1 DEF PagesInv, PagesTypeOK
<1>12. CopiesAgree'
  <2>. SUFFICES ASSUME NEW d \in Days, ~ stale[d], NEW k \in Keys
                PROVE  \/ cache'[d][k] = {}
                       \/ Agrees(cache'[d][k], submitted[d], personal[d], k)
                       \/ \E o \in Requests : Renews(request'[o], d, k)
    BY <1>1 DEF CopiesAgree
  <2>1. CASE d = c.day /\ k = c.key /\ Saved(c) # {}
    BY <2>1, <1>1, <1>2, <1>5, <1>8 DEF Fits
  <2>2. CASE ~ (d = c.day /\ k = c.key /\ Saved(c) # {})
    <3>1. cache'[d][k] = cache[d][k]
      BY <2>2, <1>5
    <3>2. \/ cache[d][k] = {} \/ Agrees(cache[d][k], submitted[d], personal[d], k)
          \/ \E o \in Requests : Renews(request[o], d, k)
      BY DEF PagesInv, CopiesAgree
    <3>3. CASE \E o \in Requests : Renews(request[o], d, k)
      <4>1. PICK o \in Requests : Renews(request[o], d, k)
        BY <3>3
      <4>2. CASE o # w
        BY <4>1, <4>2, <1>4
      <4>3. CASE o = w
        <5>1. d = c.day /\ k \in Rest(c.key) /\ SavedAs(c, k) # {}
          BY <4>1, <4>3 DEF Renews, c
        <5>2. going /\ k = after
          BY <5>1, <2>2, <1>8, <1>9
        <5>3. Renews(next, d, k)
          BY <5>1, <5>2, <1>6, <1>7, <1>10 DEF Renews
        <5>. QED  BY <5>3, <1>4
      <4>. QED  BY <4>2, <4>3
    <3>. QED  BY <3>1, <3>2, <3>3
  <2>. QED  BY <2>1, <2>2
<1>13. RequestsFit'
  <2>. SUFFICES ASSUME NEW o \in Requests,
                       request'[o].step # "idle", ~ stale[request'[o].day]
                PROVE  Fits(request'[o], submitted[request'[o].day], personal[request'[o].day])
    BY <1>1 DEF RequestsFit
  <2>1. CASE o # w
    BY <2>1, <1>4 DEF PagesInv, RequestsFit
  <2>2. CASE o = w
    <3>1. going /\ request'[o] = next /\ next.step = "refresh" /\ next.day = c.day
      BY <2>2, <1>4, <1>6
    <3>2. \A k \in Rest(next.key) :
              \/ SavedAs(next, k) = {}
              \/ Agrees(SavedAs(next, k), submitted[c.day], personal[c.day], k)
      BY <3>1, <1>1, <1>2, <1>6, <1>7, <1>8, <1>10 DEF Fits
    <3>. QED  BY <3>1, <3>2 DEF Fits, Paging
  <2>. QED  BY <2>1, <2>2
<1>14. AloneIsAlone'
  <2>. SUFFICES ASSUME NEW v \in Requests, NEW o \in Requests, Paging(request'[v]),
                       request'[v].alone, request'[o].step = "refresh"
                PROVE  request'[o].day # request'[v].day
    BY DEF AloneIsAlone
  <2>1. v # w
    BY <1>4, <1>6 DEF Paging
  <2>2. request[o].step = "refresh" /\ request'[o].day = request[o].day
    BY <1>1, <1>4, <1>6 DEF c
  <2>. QED  BY <2>1, <2>2, <1>4 DEF PagesInv, AloneIsAlone
<1>. QED  BY <1>11, <1>12, <1>13, <1>14 DEF PagesInv

LEMMA RefreshRefusedStep ==
    ASSUME PagesInv, NEW w \in Requests, RefreshRefused(w) PROVE PagesInv'
<1>. DEFINE c == request[w]
<1>1. /\ c.step = "refresh"
      /\ request' = [request EXCEPT ![w] = NoRequest]
      /\ stale' = [stale EXCEPT ![c.day] = TRUE]
      /\ UNCHANGED <<today, submitted, personal, cache>>
  BY DEF RefreshRefused
<1>2. c.day \in Days
  BY <1>1 DEF PagesInv, PagesTypeOK, RequestOk
<1>3. /\ request'[w] = NoRequest /\ \A o \in Requests \ {w} : request'[o] = request[o]
      /\ DOMAIN request' = Requests
  BY <1>1 DEF PagesInv, PagesTypeOK
<1>4. /\ stale' \in [Days -> BOOLEAN]
      /\ \A d \in Days : ~ stale'[d] => ~ stale[d] /\ d # c.day
  BY <1>1, <1>2 DEF PagesInv, PagesTypeOK
<1>5. PagesTypeOK'
  <2>1. \A o \in Requests : RequestOk(request[o])'
    BY <1>3, NoRequestOk DEF PagesInv, PagesTypeOK
  <2>. QED  BY <1>1, <1>3, <1>4, <2>1 DEF PagesInv, PagesTypeOK
<1>6. CopiesAgree'
  <2>. SUFFICES ASSUME NEW d \in Days, ~ stale'[d], NEW k \in Keys
                PROVE  \/ cache[d][k] = {}
                       \/ Agrees(cache[d][k], submitted[d], personal[d], k)
                       \/ \E o \in Requests : Renews(request'[o], d, k)
    BY <1>1 DEF CopiesAgree
  <2>1. ~ stale[d] /\ d # c.day
    BY <1>4
  <2>2. ASSUME NEW o \in Requests, Renews(request[o], d, k) PROVE Renews(request'[o], d, k)
    <3>1. o # w
      BY <2>1, <2>2 DEF Renews
    <3>. QED  BY <2>2, <3>1, <1>3
  <2>. QED  BY <2>1, <2>2 DEF PagesInv, CopiesAgree
<1>7. RequestsFit'
  <2>. SUFFICES ASSUME NEW o \in Requests,
                       request'[o].step # "idle", ~ stale'[request'[o].day]
                PROVE  Fits(request'[o], submitted[request'[o].day], personal[request'[o].day])
    BY <1>1 DEF RequestsFit
  <2>1. o # w /\ request'[o] = request[o]
    BY <1>3, NoRequestOk
  <2>2. request[o].day \in Days
    BY <2>1 DEF PagesInv, PagesTypeOK, RequestOk
  <2>. QED  BY <2>1, <2>2, <1>4 DEF PagesInv, RequestsFit
<1>8. AloneIsAlone'
  <2>. SUFFICES ASSUME NEW v \in Requests, NEW o \in Requests, Paging(request'[v]),
                       request'[v].alone, request'[o].step = "refresh"
                PROVE  request'[o].day # request'[v].day
    BY DEF AloneIsAlone
  <2>1. v # w /\ o # w
    BY <1>3, NoRequestOk DEF Paging
  <2>. QED  BY <2>1, <1>3 DEF PagesInv, AloneIsAlone
<1>. QED  BY <1>5, <1>6, <1>7, <1>8 DEF PagesInv

LEMMA CommitStep ==
    ASSUME PagesInv, NEW w \in Requests, Commit(w) PROVE PagesInv'
<1>. DEFINE c == request[w]
            d == c.day
            grouped == c.row # {}
            start == IF grouped THEN "group" ELSE "targets"
            next == request'[w]
<1>0. /\ c.step = "commit" /\ RequestOk(c) /\ d \in Days
      /\ DOMAIN submitted = Days /\ DOMAIN personal = Days
      /\ DOMAIN request = Requests /\ stale \in [Days -> BOOLEAN]
      /\ \A o \in Requests : RequestOk(request[o])
  BY DEF Commit, PagesInv, PagesTypeOK, RequestOk
<1>1. /\ submitted' = IF grouped THEN [submitted EXCEPT ![d] = c.row] ELSE submitted
      /\ personal' = [personal EXCEPT ![d] =
                        [targets |-> Updated(personal[d].targets, c.form.targets),
                         orders |-> Updated(personal[d].orders, c.form.orders)]]
      /\ stale' = [stale EXCEPT ![d] = stale[d] \/ Crossed(w)]
      /\ request' = [Overlapped(w) EXCEPT ![w].step = "refresh", ![w].key = start]
      /\ UNCHANGED <<today, cache>>
  BY <1>0 DEF Commit
<1>2. /\ DOMAIN submitted' = Days /\ DOMAIN personal' = Days
      /\ submitted'[d] = IF grouped THEN c.row ELSE submitted[d]
      /\ personal'[d].targets = Updated(personal[d].targets, c.form.targets)
      /\ personal'[d].orders = Updated(personal[d].orders, c.form.orders)
      /\ \A e \in Days \ {d} : submitted'[e] = submitted[e] /\ personal'[e] = personal[e]
  BY <1>0, <1>1
<1>3. /\ stale' \in [Days -> BOOLEAN]
      /\ \A e \in Days : ~ stale'[e] => ~ stale[e]
      /\ ~ stale'[d] => ~ Crossed(w)
  BY <1>0, <1>1
<1>4. ASSUME NEW o \in Requests, o # w
      PROVE  /\ RequestOk(request'[o])
             /\ request'[o].step = request[o].step /\ request'[o].day = request[o].day
             /\ IF request[o].day = d THEN ~ request'[o].alone ELSE request'[o] = request[o]
             /\ \A day : \A k \in Keys : Renews(request[o], day, k) => Renews(request'[o], day, k)
  <2>. DEFINE b == request[o]  less == [b EXCEPT !.alone = FALSE]
  <2>1. request'[o] = IF b.day = d THEN less ELSE b
    BY <1>1, <1>4 DEF Overlapped
  <2>2. RequestOk(b)
    BY <1>0
  <2>. HIDE DEF b, less
  <2>3. less = [step |-> b.step, day |-> b.day, past |-> b.past, key |-> b.key,
                seen |-> b.seen, row |-> b.row, form |-> b.form, alone |-> FALSE]
    <3>1. less = [b EXCEPT !.alone = FALSE]
      BY DEF less
    <3>. QED  BY <3>1, <2>2 DEF RequestOk
  <2>4. RequestOk(less) /\ ~ less.alone
    BY <2>2, <2>3 DEF RequestOk
  <2>5. \A k \in Keys : SavedAs(less, k) = SavedAs(b, k)
    BY <2>2, <2>3, <2>4, SavedAsIs
  <2>6. \A day : \A k \in Keys : Renews(b, day, k) => Renews(less, day, k)
    BY <2>3, <2>5 DEF Renews
  <2>7. CASE b.day = d
    <3>1. request'[o] = less /\ less.step = b.step /\ less.day = b.day
      BY <2>1, <2>3, <2>7
    <3>. HIDE DEF d
    <3>. QED  BY <3>1, <2>4, <2>6, <2>7 DEF b
  <2>8. CASE b.day # d
    <3>1. request'[o] = b
      BY <2>1, <2>8
    <3>. HIDE DEF d
    <3>. QED  BY <3>1, <2>2, <2>8 DEF b
  <2>. QED  BY <2>7, <2>8
<1>. HIDE DEF c
<1>5. /\ RequestOk(next)
      /\ next.step = "refresh" /\ next.day = d /\ next.key = start
      /\ next.row = c.row /\ next.form = c.form
  <2>. DEFINE n == [c EXCEPT !.alone = FALSE, !.step = "refresh", !.key = start]
  <2>1. next = n
    BY <1>0, <1>1 DEF Overlapped, c
  <2>. HIDE DEF next, start
  <2>2. next = [step |-> "refresh", day |-> c.day, past |-> c.past, key |-> start,
                seen |-> c.seen, row |-> c.row, form |-> c.form, alone |-> FALSE]
    BY <2>1, <1>0 DEF RequestOk
  <2>. QED  BY <2>2, <1>0 DEF RequestOk, Keys, start
<1>. HIDE DEF next, d
<1>6. \A k \in Keys : SavedAs(next, k) =
                IF k = "group" THEN {r.target : r \in c.row}
                ELSE IF k = "minutes" THEN UNION {r.planned : r \in c.row}
                ELSE IF k = "targets" THEN {c.form.targets} \ {NoEntries}
                ELSE {c.form.orders} \ {NoEntries}
  BY <1>5, SavedAsIs
<1>7. grouped => /\ c.form.targets = NoEntries /\ c.form.orders = NoEntries
                 /\ \E t, p : c.row = {[target |-> t, planned |-> {p}]}
  <2>1. grouped => c.form = Nothing /\ \E t, p : c.row = {[target |-> t, planned |-> {p}]}
    BY <1>0 DEF RequestOk
  <2>2. Nothing.targets = NoEntries /\ Nothing.orders = NoEntries
    BY DEF Nothing
  <2>. QED  BY <2>1, <2>2
<1>8. ~ stale'[d] => \A o \in Requests : request[o].day = d =>
                         o = w \/ request[o].step \notin {"fill", "refresh"}
  BY <1>3 DEF Crossed, c, d
<1>9. /\ Within(c.form.targets, personal'[d].targets)
      /\ Within(c.form.orders, personal'[d].orders)
      /\ \A v : c.form.targets = NoEntries /\ Within(v, personal[d].targets) =>
                    Within(v, personal'[d].targets)
      /\ \A v : c.form.orders = NoEntries /\ Within(v, personal[d].orders) =>
                    Within(v, personal'[d].orders)
  BY <1>2, WithinUpdated
<1>10. PagesTypeOK'
  <2>1. \A o \in Requests : RequestOk(request[o])'
    BY <1>4, <1>5 DEF next
  <2>2. DOMAIN request' = Requests
    BY <1>1 DEF Overlapped
  <2>. QED  BY <1>1, <1>2, <1>3, <2>1, <2>2 DEF PagesInv, PagesTypeOK
<1>11. CopiesAgree'
  <2>. SUFFICES ASSUME NEW e \in Days, ~ stale'[e], NEW k \in Keys, cache[e][k] # {}
                PROVE  \/ Agrees(cache[e][k], submitted'[e], personal'[e], k)
                       \/ \E o \in Requests : Renews(request'[o], e, k)
    BY <1>1 DEF CopiesAgree
  <2>1. \/ Agrees(cache[e][k], submitted[e], personal[e], k)
        \/ \E o \in Requests : Renews(request[o], e, k)
    BY <1>3 DEF PagesInv, CopiesAgree
  <2>2. CASE e # d
    <3>1. ASSUME NEW o \in Requests, Renews(request[o], e, k) PROVE Renews(request'[o], e, k)
      <4>1. o # w
        BY <2>2, <3>1 DEF Renews, d, c
      <4>. QED  BY <3>1, <4>1, <1>4
    <3>. QED  BY <2>1, <2>2, <3>1, <1>2
  <2>3. CASE e = d
    <3>1. ~ \E o \in Requests : Renews(request[o], e, k)
      BY <2>3, <1>0, <1>8 DEF Renews, c
    <3>2. Agrees(cache[e][k], submitted[d], personal[d], k)
      BY <2>1, <2>3, <3>1
    <3>3. SavedAs(next, k) # {} /\ k \in Rest(start) => Renews(request'[w], e, k)
      BY <2>3, <1>5 DEF Renews, next
    <3>4. CASE grouped
      <4>1. CASE k \in {"group", "minutes"}
        <5>1. SavedAs(next, k) # {} /\ k \in Rest(start)
          BY <4>1, <3>4, <1>6, <1>7 DEF Rest
        <5>. QED  BY <3>3, <5>1
      <4>2. CASE k \in {"targets", "orders"}
        BY <4>2, <3>2, <3>4, <2>3, <1>7, <1>9 DEF Agrees
      <4>. QED  BY <4>1, <4>2 DEF Keys
    <3>5. CASE ~ grouped
      <4>1. CASE k \in {"group", "minutes"}
        BY <4>1, <3>2, <3>5, <2>3, <1>2 DEF Agrees
      <4>2. CASE k = "targets"
        <5>1. CASE c.form.targets = NoEntries
          BY <4>2, <5>1, <3>2, <2>3, <1>9 DEF Agrees
        <5>2. CASE c.form.targets # NoEntries
          BY <4>2, <5>2, <3>3, <3>5, <1>6 DEF Rest
        <5>. QED  BY <5>1, <5>2
      <4>3. CASE k = "orders"
        <5>1. CASE c.form.orders = NoEntries
          BY <4>3, <5>1, <3>2, <2>3, <1>9 DEF Agrees
        <5>2. CASE c.form.orders # NoEntries
          BY <4>3, <5>2, <3>3, <3>5, <1>6 DEF Rest
        <5>. QED  BY <5>1, <5>2
      <4>. QED  BY <4>1, <4>2, <4>3 DEF Keys
    <3>. QED  BY <3>4, <3>5
  <2>. QED  BY <2>2, <2>3
<1>12. RequestsFit'
  <2>. SUFFICES ASSUME NEW o \in Requests,
                       request'[o].step # "idle", ~ stale'[request'[o].day]
                PROVE  Fits(request'[o], submitted'[request'[o].day], personal'[request'[o].day])
    BY DEF RequestsFit
  <2>1. CASE o # w
    <3>1. /\ request'[o].step = request[o].step /\ request'[o].day = request[o].day
          /\ request[o].day \in Days
      BY <2>1, <1>4, <1>0 DEF RequestOk
    <3>2. CASE request[o].day = d
      <4>1. ~ request'[o].alone /\ request'[o].step \notin {"fill", "refresh"}
        BY <2>1, <3>1, <3>2, <1>4, <1>8
      <4>. QED  BY <4>1 DEF Fits
    <3>3. CASE request[o].day # d
      BY <2>1, <3>1, <3>3, <1>2, <1>3, <1>4 DEF PagesInv, RequestsFit
    <3>. QED  BY <3>2, <3>3
  <2>2. CASE o = w
    <3>1. request'[o] = next
      BY <2>2 DEF next
    <3>2. ASSUME NEW k \in Rest(start)
          PROVE  \/ SavedAs(next, k) = {}
                 \/ Agrees(SavedAs(next, k), submitted'[d], personal'[d], k)
      <4>1. CASE grouped
        <5>1. k \in {"group", "minutes"}
          BY <4>1, <3>2 DEF Rest
        <5>. QED  BY <5>1, <4>1, <1>2, <1>6 DEF Agrees, Keys
      <4>2. CASE ~ grouped
        <5>1. k \in {"targets", "orders"}
          BY <4>2, <3>2 DEF Rest
        <5>. QED  BY <5>1, <1>6, <1>9 DEF Agrees, Keys
      <4>. QED  BY <4>1, <4>2
    <3>3. Fits(next, submitted'[d], personal'[d])
      <4>. HIDE DEF start
      <4>. QED  BY <3>2, <1>5 DEF Fits, Paging
    <3>. QED  BY <3>1, <3>3, <1>5
  <2>. QED  BY <2>1, <2>2
<1>13. AloneIsAlone'
  <2>. SUFFICES ASSUME NEW v \in Requests, NEW o \in Requests, Paging(request'[v]),
                       request'[v].alone, request'[o].step = "refresh"
                PROVE  request'[o].day # request'[v].day
    BY DEF AloneIsAlone
  <2>1. v # w
    BY <1>5 DEF Paging, next
  <2>2. request[v].day # d /\ request'[v] = request[v]
    BY <2>1, <1>4
  <2>3. CASE o = w
    BY <2>2, <2>3, <1>5 DEF next
  <2>4. CASE o # w
    <3>1. request'[o].step = request[o].step /\ request'[o].day = request[o].day
      BY <2>4, <1>4
    <3>. QED  BY <3>1, <2>2 DEF PagesInv, AloneIsAlone
  <2>. QED  BY <2>3, <2>4
<1>. QED  BY <1>10, <1>11, <1>12, <1>13 DEF PagesInv

LEMMA PagesInitHolds == PagesInit => PagesInv
<1>. SUFFICES ASSUME PagesInit PROVE PagesInv
  OBVIOUS
<1>1. /\ today = 1 /\ request = [w \in Requests |-> NoRequest]
      /\ DOMAIN submitted = Days /\ DOMAIN personal = Days
      /\ cache = [d \in Days |-> Uncopied] /\ stale = [d \in Days |-> FALSE]
  BY DEF PagesInit
<1>2. today \in Days
  BY <1>1, TargetPagesAssumption DEF Days
<1>3. \A w \in Requests : request[w] = NoRequest /\ request[w].step = "idle"
  BY <1>1, NoRequestOk
<1>4. PagesTypeOK
  BY <1>1, <1>2, <1>3, NoRequestOk DEF PagesTypeOK, Uncopied
<1>5. CopiesAgree
  BY <1>1 DEF CopiesAgree, Uncopied
<1>6. RequestsFit /\ AloneIsAlone
  BY <1>3 DEF RequestsFit, AloneIsAlone
<1>. QED  BY <1>4, <1>5, <1>6 DEF PagesInv

LEMMA PagesStepHolds == PagesInv /\ [PagesNext]_pagesVars => PagesInv'
<1>. SUFFICES ASSUME PagesInv, [PagesNext]_pagesVars PROVE PagesInv'
  OBVIOUS
<1>1. ASSUME NEW w \in Requests, Page(w) PROVE PagesInv'
  BY <1>1, StartPageStep, LookupStep, ReadRowStep, FillStep, FillRefusedStep, LeaveStep
     DEF Page
<1>2. ASSUME NEW w \in Requests, Save(w) PROVE PagesInv'
  BY <1>2, StartGroupSaveStep, StartLegacyStep, CommitStep, RefreshStep, RefreshRefusedStep
     DEF Save
<1>3. CASE Midnight
  BY <1>3, MidnightStep
<1>4. CASE UNCHANGED pagesVars
  <2>1. UNCHANGED <<today, submitted, personal, cache, request, stale>>
    BY <1>4 DEF pagesVars
  <2>2. PagesTypeOK' /\ RequestsFit' /\ AloneIsAlone'
    BY <2>1 DEF PagesInv, PagesTypeOK, RequestsFit, AloneIsAlone
  <2>3. CopiesAgree'
    BY <2>1 DEF PagesInv, CopiesAgree
  <2>. QED  BY <2>2, <2>3 DEF PagesInv
<1>. QED  BY <1>1, <1>2, <1>3, <1>4 DEF PagesNext

LEMMA PagesInvariance == PagesSpec => []PagesInv
BY PagesInitHolds, PagesStepHolds, PTL DEF PagesSpec

LEMMA PagesInvShows == PagesInv => PageShowsWhatIsStored
<1>. SUFFICES ASSUME PagesInv, NEW w \in Requests, request[w].step = "shown",
                     request[w].alone, ~ stale[request[w].day]
              PROVE  LET c == request[w]
                     IN  /\ c.seen.group = Stored(c.day, "group")
                         /\ c.seen.minutes = Stored(c.day, "minutes")
                         /\ \A e \in DOMAIN c.seen.targets :
                              c.seen.targets[e] = personal[c.day].targets[e]
                         /\ \A k \in DOMAIN c.seen.orders :
                              c.seen.orders[k] = personal[c.day].orders[k]
  BY DEF PageShowsWhatIsStored, Shown
<1>1. SeenOk(request[w], submitted[request[w].day], personal[request[w].day])
  BY PageKnows DEF Fits, Paging
<1>. QED  BY <1>1 DEF SeenOk, Within, Stored

(* Whatever requests, days, targets and forms there are: a page that no    *)
(* save of its day overlapped shows what the database holds, unless a copy *)
(* was left behind, and what is left behind is gone at midnight (the       *)
(* readers "with fallback" and set_targets in api_views.py).               *)
THEOREM PagesShowWhatIsStored == PagesSpec => []PageShowsWhatIsStored
BY PagesInvariance, PagesInvShows, PTL

(* A copy in Redis that was not left behind is what is stored, or a save   *)
(* that has committed is still about to replace it (set_targets).          *)
THEOREM CopiesAreRenewed == PagesSpec => []CopiesAgree
BY PagesInvariance, PTL DEF PagesInv
================================================================================
