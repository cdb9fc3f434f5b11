------------------------- MODULE HistoryBuildProofs -------------------------
(***************************************************************************)
(* Theorems about HistoryBuild, for any set of building processes and any  *)
(* bound on the builds.                                                    *)
(***************************************************************************)
EXTENDS HistoryBuild, TLAPS

(* The lock tokens of live builds were drawn for them alone. *)
TokensDrawn ==
  /\ rowLock < nextToken
  /\ \A b \in Builders : token[b] < nextToken /\ (Live(b) <=> token[b] # 0)
  /\ \A b, c \in Builders : token[b] = token[c] /\ token[b] # 0 => b = c
TypeInv == TypeOK /\ TokensDrawn

(* The steps of a build that has read the row. *)
AfterRead == {"markRunning", "load", "recheck", "lockRow", "recheckInside", "save", "fail"}

(* What the build lock gives while no lease lapses: a live build holds the *)
(* lock, so it is alone; a success it can meet is the one it read; and a   *)
(* date with facts stays a success.                                        *)
BuildsAlone == \A b \in Builders : Live(b) => token[b] = lock
ReadIsCurrent ==
  \A b \in Builders :
    pc[b] \in AfterRead /\ row.status = "success" => SucceededBefore(b)
FactsArePublished == facts # 0 => row.status = "success"
ExclusiveInv == BuildsAlone /\ ReadIsCurrent /\ FactsArePublished
UnlessLapsed == ~lapsed => ExclusiveInv

-----------------------------------------------------------------------------

LEMMA TypeInit == Init => TypeInv
<1> SUFFICES ASSUME Init PROVE TypeInv
  OBVIOUS
<1>1. Absent \in Row /\ 0 \in Tokens
  BY BuildAssumption DEF Absent, Row, Status, Tokens
<1>2. TypeOK
  <2>0. lapsed \in BOOLEAN
    BY Zenon DEF Init
  <2>1. /\ lock \in Tokens /\ facts \in Tokens /\ rowLock \in Tokens /\ row \in Row
        /\ nextToken \in 1..(MaxBuilds + 1)
    BY <1>1, BuildAssumption DEF Init
  <2>2. /\ pc \in [Builders -> Steps] /\ token \in [Builders -> Tokens]
        /\ leaseLost \in [Builders -> BOOLEAN] /\ seen \in [Builders -> Row]
    BY <1>1 DEF Init, Steps
  <2>3. \A b \in Builders : pc[b] = "idle" /\ token[b] = 0
    BY DEF Init
  <2>4. QED
    BY <1>1, <2>0, <2>1, <2>2, <2>3 DEF TypeOK
<1>3. TokensDrawn
  BY DEF Init, TokensDrawn, Live
<1>4. QED
  BY <1>2, <1>3 DEF TypeInv

(* Leaving the function keeps every local in its type. *)
LEMMA LeaveType ==
  ASSUME TypeOK, NEW b \in Builders, Leave(b)
  PROVE  /\ pc' \in [Builders -> Steps] /\ token' \in [Builders -> Tokens]
         /\ leaseLost' \in [Builders -> BOOLEAN] /\ seen' \in [Builders -> Row]
         /\ pc' = [pc EXCEPT ![b] = "idle"] /\ token' = [token EXCEPT ![b] = 0]
BY BuildAssumption DEF TypeOK, Leave, Goto, Tokens, Row, Status, Absent, Steps

(* Every step keeps the types; the row lock's part follows because a step  *)
(* that enters or leaves the transaction takes or frees it.                *)
LEMMA TypeStep == TypeInv /\ [Next]_vars => TypeInv'
<1> SUFFICES ASSUME TypeInv, [Next]_vars PROVE TypeInv'
  OBVIOUS
<1> USE BuildAssumption DEF TypeInv, TokensDrawn, TypeOK, Live, Goto, mysql, Steps
<1>1. ASSUME NEW b \in Builders, Begin(b) PROVE TypeInv'
  BY <1>1 DEF Begin, Tokens
<1>2. ASSUME NEW b \in Builders, CheckBeforeRow(b) PROVE TypeInv'
  BY <1>2 DEF CheckBeforeRow
<1>3. ASSUME NEW b \in Builders, ReadRow(b) PROVE TypeInv'
  BY <1>3 DEF ReadRow
<1>4. ASSUME NEW b \in Builders, MarkRunning(b) PROVE TypeInv'
  <2>1. row' \in Row
    BY <1>4 DEF MarkRunning, Row, Status, Tokens
  <2>2. pc' = [pc EXCEPT ![b] = "load"] \/ pc' = [pc EXCEPT ![b] = "release"]
    BY <1>4 DEF MarkRunning
  <2>3. QED
    BY <1>4, <2>1, <2>2 DEF MarkRunning
<1>5. ASSUME NEW b \in Builders, Load(b) PROVE TypeInv'
  BY <1>5 DEF Load
<1>6. ASSUME NEW b \in Builders, RecheckAfterLoad(b) PROVE TypeInv'
  BY <1>6 DEF RecheckAfterLoad
<1>7. ASSUME NEW b \in Builders, LockRow(b) PROVE TypeInv'
  BY <1>7 DEF LockRow
<1>8. ASSUME NEW b \in Builders, RecheckInside(b) PROVE TypeInv'
  BY <1>8 DEF RecheckInside, Tokens
<1>9. ASSUME NEW b \in Builders, Save(b) PROVE TypeInv'
  <2>1. row' \in Row
    BY <1>9 DEF Save, Row, Status
  <2>2. QED
    BY <1>9, <2>1 DEF Save, Tokens
<1>10. ASSUME NEW b \in Builders, Fail(b) PROVE TypeInv'
  <2>1. row' \in Row
    BY <1>10 DEF Fail, Row, Status
  <2>2. pc' = [pc EXCEPT ![b] = "release"] /\ UNCHANGED <<lock, facts, rowLock, nextToken>>
    BY <1>10 DEF Fail
  <2>3. UNCHANGED <<token, leaseLost, seen, lapsed>>
    BY <1>10 DEF Fail
  <2>4. QED
    BY <1>10, <2>1, <2>2, <2>3 DEF Fail
<1>11. ASSUME NEW b \in Builders, Release(b) PROVE TypeInv'
  <2>1. Leave(b) /\ pc[b] = "release" /\ UNCHANGED <<row, facts, rowLock, nextToken, lapsed>>
    BY <1>11 DEF Release
  <2>2. lock' \in Tokens
    BY <1>11 DEF Release, Tokens
  <2>3. QED
    BY <2>1, <2>2, LeaveType
<1>12. ASSUME NEW b \in Builders, RenewalFails(b) PROVE TypeInv'
  BY <1>12 DEF RenewalFails
<1>13. ASSUME NEW b \in Builders, Crash(b) PROVE TypeInv'
  <2>1. Leave(b) /\ UNCHANGED <<lock, row, facts, nextToken, lapsed>>
    BY <1>13 DEF Crash
  <2>2. rowLock' = IF rowLock = token[b] THEN 0 ELSE rowLock
    BY <1>13 DEF Crash
  <2>3. rowLock' \in Tokens /\ rowLock' < nextToken
    BY <2>2 DEF Tokens
  <2>4. QED
    BY <1>13, <2>1, <2>2, <2>3, LeaveType DEF Crash
<1>14. CASE ExpireLease
  BY <1>14 DEF ExpireLease, local, Tokens
<1>15. CASE UNCHANGED vars
  BY <1>15 DEF vars, local
<1>16. QED
  BY <1>1, <1>2, <1>3, <1>4, <1>5, <1>6, <1>7, <1>8, <1>9, <1>10, <1>11, <1>12,
     <1>13, <1>14, <1>15 DEF Next, BuildStep

(* Every reachable state of the builds is well typed, and the row lock is  *)
(* held exactly by the build that is inside its transaction.               *)
THEOREM TypeCorrect == Spec => []TypeOK
<1>1. TypeInv => TypeOK
  BY DEF TypeInv
<1>2. QED
  BY <1>1, TypeInit, TypeStep, PTL DEF Spec

(* A stored success describes exactly the stored facts, even when leases   *)
(* lapse and builds of one date overlap: only the commit writes either.    *)
THEOREM SuccessIsConsistent == Spec => []SuccessDescribesFacts
<1>1. Init => SuccessDescribesFacts
  BY DEF Init, Absent, SuccessDescribesFacts
<1>2. ASSUME TypeInv, SuccessDescribesFacts, [Next]_vars PROVE SuccessDescribesFacts'
  <2> USE <1>2 DEF SuccessDescribesFacts
  <2>1. ASSUME NEW b \in Builders, MarkRunning(b) PROVE SuccessDescribesFacts'
    BY <2>1 DEF MarkRunning, TypeInv, TypeOK, Row
  <2>2. ASSUME NEW b \in Builders, Save(b) PROVE SuccessDescribesFacts'
    BY <2>2 DEF Save, TypeInv, TypeOK
  <2>3. ASSUME NEW b \in Builders, Fail(b) PROVE SuccessDescribesFacts'
    BY <2>3 DEF Fail, TypeInv, TypeOK, Row
  <2>4. CASE UNCHANGED <<row, facts>>
    BY <2>4
  <2>5. QED
    BY <2>1, <2>2, <2>3, <2>4
       DEF Next, BuildStep, Begin, CheckBeforeRow, ReadRow, Load, RecheckAfterLoad, LockRow,
           RecheckInside, Release, RenewalFails, Crash, ExpireLease, mysql, vars
<1>3. QED
  BY <1>1, <1>2, TypeInit, TypeStep, PTL DEF Spec

-----------------------------------------------------------------------------

LEMMA ExclusiveInit == Init => UnlessLapsed
BY DEF Init, Absent, UnlessLapsed, ExclusiveInv, BuildsAlone, ReadIsCurrent, FactsArePublished, Live, AfterRead

(* While no lease lapses the lock is freed only by the build that holds it *)
(* or when no live build does, so live builds stay alone.                  *)
LEMMA AloneStep ==
  ASSUME TypeInv, BuildsAlone, [Next]_vars, ~lapsed'
  PROVE  BuildsAlone'
<1> USE DEF TypeInv, TypeOK, TokensDrawn, BuildsAlone, Live, Goto, Steps
<1>1. ASSUME NEW b \in Builders, Begin(b) PROVE BuildsAlone'
  BY <1>1 DEF Begin
<1>2. ASSUME NEW b \in Builders, BuildStep(b) \/ RenewalFails(b), ~Release(b) PROVE BuildsAlone'
  <2>1. UNCHANGED <<lock, token>> /\ \A c \in Builders : pc'[c] # "idle" => pc[c] # "idle"
    BY <1>2 DEF BuildStep, CheckBeforeRow, ReadRow, MarkRunning, Load, RecheckAfterLoad, LockRow,
                RecheckInside, Save, Fail, RenewalFails
  <2>2. QED
    BY <2>1
<1>3. ASSUME NEW b \in Builders, Release(b) PROVE BuildsAlone'
  BY <1>3 DEF Release, Leave
<1>4. ASSUME NEW b \in Builders, Crash(b) PROVE BuildsAlone'
  BY <1>4 DEF Crash, Leave
<1>5. CASE ExpireLease
  BY <1>5 DEF ExpireLease, local
<1>6. CASE UNCHANGED vars
  BY <1>6 DEF vars, local
<1>7. QED
  BY <1>1, <1>2, <1>3, <1>4, <1>5, <1>6 DEF Next

(* Alone, a build meets no success but the one it read, and a date with    *)
(* facts is not marked running or failed.                                  *)
LEMMA CurrentStep ==
  ASSUME TypeInv, ExclusiveInv, [Next]_vars
  PROVE  ReadIsCurrent' /\ FactsArePublished'
<1> USE DEF ExclusiveInv, BuildsAlone, ReadIsCurrent, FactsArePublished, TypeInv, TypeOK,
            TokensDrawn, Live, Goto, Steps, AfterRead, SucceededBefore
<1>1. ASSUME NEW b \in Builders, ReadRow(b) PROVE ReadIsCurrent' /\ FactsArePublished'
  BY <1>1 DEF ReadRow, mysql
<1>2. ASSUME NEW b \in Builders, MarkRunning(b) PROVE ReadIsCurrent' /\ FactsArePublished'
  <2>1. seen' = seen /\ facts' = facts /\ \A c \in Builders \ {b} : pc[c] \notin AfterRead
    BY <1>2 DEF MarkRunning
  <2>2. row'.status = "success" => row.status = "success"
    BY <1>2 DEF MarkRunning, Row
  <2>3. row.status = "success" => SucceededBefore(b) /\ row' = row
    BY <1>2 DEF MarkRunning, Absent
  <2>4. \A c \in Builders \ {b} : pc'[c] = pc[c]
    BY <1>2 DEF MarkRunning
  <2>5. ReadIsCurrent'
    BY <2>1, <2>2, <2>3, <2>4
  <2>6. QED
    BY <2>1, <2>3, <2>5
<1>3. ASSUME NEW b \in Builders, Save(b) PROVE ReadIsCurrent' /\ FactsArePublished'
  BY <1>3 DEF Save
<1>4. ASSUME NEW b \in Builders, Fail(b) PROVE ReadIsCurrent' /\ FactsArePublished'
  BY <1>4 DEF Fail, Row
<1>5. ASSUME NEW b \in Builders, Begin(b) PROVE ReadIsCurrent' /\ FactsArePublished'
  BY <1>5 DEF Begin, mysql
<1>6. ASSUME NEW b \in Builders,
             CheckBeforeRow(b) \/ Load(b) \/ RecheckAfterLoad(b) \/ LockRow(b)
               \/ RecheckInside(b) \/ RenewalFails(b)
      PROVE ReadIsCurrent' /\ FactsArePublished'
  BY <1>6 DEF CheckBeforeRow, Load, RecheckAfterLoad, LockRow, RecheckInside, RenewalFails, mysql
<1>7. ASSUME NEW b \in Builders, Release(b) \/ Crash(b)
      PROVE ReadIsCurrent' /\ FactsArePublished'
  BY <1>7 DEF Release, Crash, Leave, mysql
<1>8. CASE ExpireLease \/ UNCHANGED vars
  BY <1>8 DEF ExpireLease, vars, mysql, local
<1>9. QED
  BY <1>1, <1>2, <1>3, <1>4, <1>5, <1>6, <1>7, <1>8 DEF Next, BuildStep

(* A lapse is never forgotten. *)
LEMMA LapsedStays == ASSUME [Next]_vars, lapsed PROVE lapsed'
BY DEF Next, BuildStep, Begin, CheckBeforeRow, ReadRow, MarkRunning, Load, RecheckAfterLoad,
       LockRow, RecheckInside, Save, Fail, Release, RenewalFails, Crash, ExpireLease, vars

LEMMA ExclusiveStep == TypeInv /\ UnlessLapsed /\ [Next]_vars => UnlessLapsed'
<1> SUFFICES ASSUME TypeInv, UnlessLapsed, [Next]_vars, ~lapsed' PROVE ExclusiveInv'
  BY DEF UnlessLapsed
<1>1. ExclusiveInv
  BY LapsedStays DEF UnlessLapsed
<1>2. QED
  BY <1>1, AloneStep, CurrentStep DEF ExclusiveInv

(* While no lease lapses a published date stays published, whatever later  *)
(* builds of it are refused, fail or die.                                  *)
THEOREM PublishedStays == Spec => SuccessIsKept
<1>1. ASSUME TypeInv, ExclusiveInv, [Next]_vars
      PROVE  row.status = "success" => row'.status = "success"
  <2> SUFFICES ASSUME row.status = "success" PROVE row'.status = "success"
    OBVIOUS
  <2> USE <1>1 DEF ExclusiveInv, ReadIsCurrent, AfterRead, SucceededBefore, TypeInv, TypeOK
  <2>1. ASSUME NEW b \in Builders, MarkRunning(b) PROVE row'.status = "success"
    BY <2>1 DEF MarkRunning, Absent
  <2>2. ASSUME NEW b \in Builders, Save(b) PROVE row'.status = "success"
    BY <2>2 DEF Save
  <2>3. ASSUME NEW b \in Builders, Fail(b) PROVE row'.status = "success"
    BY <2>3 DEF Fail
  <2>4. CASE UNCHANGED row
    BY <2>4
  <2>5. QED
    BY <2>1, <2>2, <2>3, <2>4
       DEF Next, BuildStep, Begin, CheckBeforeRow, ReadRow, Load, RecheckAfterLoad, LockRow,
           RecheckInside, Release, RenewalFails, Crash, ExpireLease, mysql, vars
<1>2. TypeInv /\ UnlessLapsed /\ [Next]_vars
        => [lapsed \/ (row.status = "success" => row'.status = "success")]_vars
  BY <1>1 DEF UnlessLapsed
<1>3. QED
  BY <1>2, TypeInit, TypeStep, ExclusiveInit, ExclusiveStep, PTL DEF Spec, SuccessIsKept

(* While no lease lapses, facts are only ever replaced under a higher      *)
(* version than the one they were published with.                          *)
THEOREM VersionsGrow == Spec => VersionGrowsWithFacts
<1>1. ASSUME TypeInv, ExclusiveInv, [Next]_vars, facts' # facts, facts # 0
      PROVE  row'.version > row.version
  <2>1. PICK b \in Builders : Save(b)
    BY <1>1
       DEF Next, BuildStep, Begin, CheckBeforeRow, ReadRow, MarkRunning, Load, RecheckAfterLoad,
           LockRow, RecheckInside, Fail, Release, RenewalFails, Crash, ExpireLease, mysql, vars
  <2>2. row.status = "success" /\ row.version \in Nat
    BY <1>1 DEF ExclusiveInv, FactsArePublished, TypeInv, TypeOK, Row
  <2>3. QED
    BY <2>1, <2>2 DEF Save
<1>2. TypeInv /\ UnlessLapsed /\ [Next]_vars
        => [lapsed \/ (facts' # facts /\ facts # 0 => row'.version > row.version)]_vars
  BY <1>1 DEF UnlessLapsed
<1>3. QED
  BY <1>2, TypeInit, TypeStep, ExclusiveInit, ExclusiveStep, PTL DEF Spec, VersionGrowsWithFacts
=============================================================================
