--------------------------- MODULE ReadModelProofs ---------------------------
(***************************************************************************)
(* The read model: what SnapshotStore guarantees for every number of       *)
(* publishers, readers, versions and snapshot parts, and what              *)
(* ReadModelRefresh publishes for every table of rows and every change.    *)
(***************************************************************************)
EXTENDS SnapshotStore, ReadModelRefresh, TLAPS

USE DEF Versions, Pointer, Steps, BodySteps, Outcomes

(* Moving the pointer keeps it, and the overtaking counters, in range. *)
LEMMA MoveCurrentType ==
  ASSUME TypeOK, NEW p \in Publishers, MoveCurrent(p)
  PROVE  /\ current' \in Pointer
         /\ overtaken' \in [Readers -> 0..2]
         /\ UNCHANGED <<pin, got, outcome>>
<1>1. \A r \in Readers : overtaken'[r] \in 0..2
  BY DEF TypeOK, MoveCurrent
<1>2. overtaken' = [r \in Readers |-> overtaken'[r]]
  BY DEF MoveCurrent
<1>3. QED
  BY <1>1, <1>2 DEF TypeOK, MoveCurrent

(* The end of a read keeps its locals in their types. *)
LEMMA EndReadType ==
  ASSUME TypeOK, NEW r \in Readers, NEW kind \in Outcomes, EndRead(r, kind)
  PROVE  /\ pin' \in [Readers -> Pointer]
         /\ got' \in [Readers -> SUBSET Parts]
         /\ overtaken' \in [Readers -> 0..2]
         /\ outcome' \in [Readers -> [kind : Outcomes, version : Pointer]]
<1>1. Answer(r, kind) \in Pointer
  BY StoreAssumption DEF TypeOK, Answer
<1>2. QED
  BY <1>1, StoreAssumption DEF TypeOK, EndRead

(* Every step keeps every variable in its type. *)
LEMMA TypeStep == TypeOK /\ [Next]_vars => TypeOK'
<1> USE StoreAssumption
<1> SUFFICES ASSUME TypeOK, [Next]_vars PROVE TypeOK'
  OBVIOUS
<1> USE DEF TypeOK, redis, publishing, reading, Goto, Live, LeavePublish, NextParts
<1>1. ASSUME NEW p \in Publishers, BeginPublish(p) PROVE TypeOK'
  <2> USE <1>1 DEF BeginPublish
  <2>1. nextVersion \in 1..MaxVersion /\ nextVersion' \in 1..(MaxVersion + 1)
    OBVIOUS
  <2>2. lock' \in Pointer
    BY <2>1
  <2>3. pc' \in [Publishers -> Steps] /\ ver' \in [Publishers -> Pointer]
    <3>1. CASE Goto(p, "readCurrent") /\ ver' = [ver EXCEPT ![p] = nextVersion]
      BY <2>1, <3>1
    <3>2. CASE UNCHANGED <<pc, ver>>
      BY <3>2
    <3>3. QED
      BY <3>1, <3>2
  <2>4. \A q \in Publishers : pc'[q] \in {"setPrevious", "retire"} => pc'[q] = pc[q]
    OBVIOUS
  <2>5. QED
    BY <2>1, <2>2, <2>3, <2>4
<1>2. ASSUME NEW p \in Publishers, ReadCurrent(p) PROVE TypeOK'
  BY <1>2 DEF ReadCurrent
<1>3. ASSUME NEW p \in Publishers, WritePart(p) PROVE TypeOK'
  <2>1. PICK k \in NextParts(written[p]) :
           /\ keys' = [keys EXCEPT ![ver[p]] = @ \cup {k}]
           /\ written' = [written EXCEPT ![p] = @ \cup {k}]
           /\ Goto(p, IF Parts \subseteq written[p] \cup {k} THEN "verify" ELSE "write")
    BY <1>3 DEF WritePart
  <2>2. k \in Parts
    OBVIOUS
  <2>3. keys' \in [Versions -> SUBSET Parts] /\ written' \in [Publishers -> SUBSET Parts]
    BY <2>1, <2>2
  <2>4. pc' \in [Publishers -> Steps]
    BY <2>1
  <2>5. \A q \in Publishers : pc'[q] \in {"setPrevious", "retire"} => pc'[q] = pc[q]
    BY <2>1
  <2>6. QED
    BY <1>3, <2>3, <2>4, <2>5 DEF WritePart
<1>4. ASSUME NEW p \in Publishers, Verify(p) PROVE TypeOK'
  BY <1>4 DEF Verify
<1>5. ASSUME NEW p \in Publishers, ReadPrevious(p) PROVE TypeOK'
  BY <1>5 DEF ReadPrevious
<1>6. ASSUME NEW p \in Publishers, SetPrevious(p) PROVE TypeOK'
  BY <1>6 DEF SetPrevious
<1>7. ASSUME NEW p \in Publishers, Switch(p) PROVE TypeOK'
  BY <1>7, MoveCurrentType DEF Switch
<1>8. ASSUME NEW p \in Publishers, Retire(p) PROVE TypeOK'
  BY <1>8 DEF Retire
<1>9. ASSUME NEW p \in Publishers, Fail(p) PROVE TypeOK'
  BY <1>9 DEF Fail
<1>10. ASSUME NEW p \in Publishers, LoseReply(p) PROVE TypeOK'
  <2> HIDE DEF NextParts, LeavePublish
  <2>1. NextParts(written[p]) \subseteq Parts
    BY DEF NextParts
  <2>2. CASE \E k \in NextParts(written[p]) :
               keys' = [keys EXCEPT ![ver[p]] = @ \cup {k}] /\ UNCHANGED <<current, previous, reading>>
    <3>1. PICK k \in NextParts(written[p]) : keys' = [keys EXCEPT ![ver[p]] = @ \cup {k}]
      BY <2>2
    <3>2. keys' \in [Versions -> SUBSET Parts]
      BY <2>1, <3>1
    <3>3. QED
      BY <1>10, <2>2, <3>2 DEF LoseReply
  <2>3. CASE previous' = oldCurrent[p] /\ UNCHANGED <<keys, current, reading>>
    BY <1>10, <2>3 DEF LoseReply
  <2>4. CASE MoveCurrent(p) /\ UNCHANGED <<keys, previous>>
    BY <1>10, <2>4, MoveCurrentType DEF LoseReply
  <2>5. QED
    BY <1>10, <2>2, <2>3, <2>4 DEF LoseReply
<1>11. ASSUME NEW p \in Publishers, Cleanup(p) PROVE TypeOK'
  BY <1>11 DEF Cleanup
<1>12. ASSUME NEW p \in Publishers, Release(p) PROVE TypeOK'
  BY <1>12 DEF Release
<1>13. ASSUME NEW p \in Publishers, Crash(p) PROVE TypeOK'
  BY <1>13 DEF Crash
<1>14. CASE ExpireLock
  BY <1>14 DEF ExpireLock
<1>15. ASSUME NEW r \in Readers, PinCurrent(r) PROVE TypeOK'
  <2>1. CASE current # 0
    <3>1. /\ pin' = [pin EXCEPT ![r] = current]
          /\ outcome' = [outcome EXCEPT ![r] = [kind |-> "none", version |-> 0]]
          /\ UNCHANGED <<redis, nextVersion, publishing, got, overtaken, overrun>>
      BY <1>15, <2>1 DEF PinCurrent
    <3>2. outcome' \in [Readers -> [kind : Outcomes, version : Pointer]]
      BY <3>1
    <3>3. QED
      BY <3>1, <3>2
  <2>2. CASE EndRead(r, "empty")
    BY <1>15, <2>2, EndReadType DEF PinCurrent
  <2>3. QED
    BY <1>15, <2>1, <2>2 DEF PinCurrent
<1>16. ASSUME NEW r \in Readers, FetchPart(r) PROVE TypeOK'
  <2>1. PICK k \in NextParts(got[r]) :
           \/ /\ k \in keys[pin[r]]
              /\ got' = [got EXCEPT ![r] = @ \cup {k}]
              /\ UNCHANGED <<pin, overtaken, outcome>>
           \/ EndRead(r, "incomplete")
    BY <1>16 DEF FetchPart
  <2>2. k \in Parts
    OBVIOUS
  <2>3. CASE UNCHANGED <<pin, overtaken, outcome>> /\ got' = [got EXCEPT ![r] = @ \cup {k}]
    BY <1>16, <2>2, <2>3 DEF FetchPart
  <2>4. CASE EndRead(r, "incomplete")
    BY <1>16, <2>4, EndReadType DEF FetchPart
  <2>5. QED
    BY <2>1, <2>3, <2>4
<1>17. ASSUME NEW r \in Readers, ReturnSnapshot(r) PROVE TypeOK'
  BY <1>17, EndReadType DEF ReturnSnapshot
<1>18. ASSUME NEW r \in Readers, CacheUnavailable(r) PROVE TypeOK'
  BY <1>18, EndReadType DEF CacheUnavailable
<1>19. CASE UNCHANGED vars
  BY <1>19 DEF vars
<1>20. QED
  BY <1>1, <1>2, <1>3, <1>4, <1>5, <1>6, <1>7, <1>8, <1>9, <1>10, <1>11, <1>12,
     <1>13, <1>14, <1>15, <1>16, <1>17, <1>18, <1>19 DEF Next, PublishStep, ReadStep

(* The types of SnapshotStore hold in every reachable state. *)
THEOREM TypeCorrect == Spec => []TypeOK
<1>1. ASSUME Init PROVE TypeOK
  <2>1. overrun \in BOOLEAN
    BY <1>1 DEF Init
  <2>2. outcome \in [Readers -> [kind : Outcomes, version : Pointer]]
    BY <1>1, StoreAssumption DEF Init
  <2>3. QED
    BY <1>1, <2>1, <2>2, StoreAssumption DEF Init, TypeOK
<1>2. QED
  BY <1>1, TypeStep, PTL DEF Spec

-----------------------------------------------------------------------------
(* Frames: what the steps of a reader, the beginning of a publication and  *)
(* its end leave alone.                                                    *)

ReaderStep(r) == PinCurrent(r) \/ ReadStep(r) \/ CacheUnavailable(r)

LEMMA ReaderFrame ==
  ASSUME NEW r \in Readers, ReaderStep(r)
  PROVE  UNCHANGED <<keys, current, previous, lock, nextVersion,
                     pc, ver, oldCurrent, oldPrevious, written, overrun>>
BY DEF ReaderStep, ReadStep, PinCurrent, FetchPart, ReturnSnapshot, CacheUnavailable,
       redis, publishing

(* A reader's step keeps its pin, drops it, or pins what is current. *)
LEMMA ReadPins ==
  ASSUME TypeOK, NEW r \in Readers, ReaderStep(r)
  PROVE  \A q \in Readers : pin'[q] \in {pin[q], current, 0}
<1>1. pin' = pin \/ pin' = [pin EXCEPT ![r] = current] \/ pin' = [pin EXCEPT ![r] = 0]
  BY DEF ReaderStep, ReadStep, PinCurrent, FetchPart, ReturnSnapshot, CacheUnavailable, EndRead
<1>2. QED
  BY <1>1 DEF TypeOK

LEMMA BeginFrame ==
  ASSUME TypeOK, NEW p \in Publishers, BeginPublish(p)
  PROVE  /\ pc[p] = "idle" /\ nextVersion \in Versions /\ nextVersion' = nextVersion + 1
         /\ UNCHANGED <<keys, current, previous, oldCurrent, oldPrevious, written,
                        pin, got, overtaken, outcome, overrun>>
         /\ \A q \in Publishers \ {p} : pc'[q] = pc[q] /\ ver'[q] = ver[q]
         /\ \/ pc'[p] = "idle" /\ ver'[p] = ver[p]
            \/ pc'[p] = "readCurrent" /\ ver'[p] = nextVersion
         /\ \/ lock' = lock /\ pc'[p] = "idle"
            \/ lock = 0 /\ lock' = nextVersion
BY StoreAssumption DEF TypeOK, BeginPublish, Live, Goto, reading

LEMMA EndFrame ==
  ASSUME TypeOK, NEW p \in Publishers, Release(p) \/ Crash(p)
  PROVE  /\ pc[p] # "idle"
         /\ UNCHANGED <<keys, current, previous, nextVersion, pin, got, overtaken,
                        outcome, overrun>>
         /\ \A q \in Publishers \ {p} :
              /\ pc'[q] = pc[q] /\ ver'[q] = ver[q]
              /\ oldCurrent'[q] = oldCurrent[q] /\ oldPrevious'[q] = oldPrevious[q]
         /\ pc'[p] = "idle" /\ ver'[p] = 0 /\ oldCurrent'[p] = 0 /\ oldPrevious'[p] = 0
         /\ lock' = lock \/ (lock = ver[p] /\ lock' = 0)
<1>1. CASE Release(p)
  BY <1>1 DEF TypeOK, Release, LeavePublish, Goto, reading
<1>2. CASE Crash(p)
  BY <1>2 DEF TypeOK, Crash, LeavePublish, Goto, Live, redis, reading
<1>3. QED
  BY <1>1, <1>2

(* Every other step of a publisher moves its own pc and nobody's version.  *)
LEMMA BodyFrame ==
  ASSUME TypeOK, NEW p \in Publishers, PublishStep(p), ~Release(p)
  PROVE  /\ pc[p] # "idle" /\ pc'[p] # "idle"
         /\ \A q \in Publishers \ {p} : pc'[q] = pc[q]
         /\ UNCHANGED <<lock, nextVersion, ver, overrun, pin, outcome>>
BY DEF TypeOK, PublishStep, ReadCurrent, WritePart, Verify, ReadPrevious, SetPrevious, Switch,
       Retire, Fail, LoseReply, Cleanup, MoveCurrent, Goto, redis, reading

-----------------------------------------------------------------------------
(* The pointers and the locals only ever name versions drawn before, and   *)
(* no two live publish calls carry the same version.                       *)
Drawn ==
  /\ current < nextVersion /\ previous < nextVersion
  /\ \A r \in Readers : pin[r] < nextVersion
  /\ \A p \in Publishers :
       /\ oldCurrent[p] < nextVersion /\ oldPrevious[p] < nextVersion
       /\ Live(p) => ver[p] \in Versions /\ ver[p] < nextVersion
  /\ \A p, q \in Publishers : Live(p) /\ Live(q) /\ p # q => ver[p] # ver[q]

LEMMA DrawnStep == TypeOK /\ Drawn /\ [Next]_vars => Drawn'
<1> SUFFICES ASSUME TypeOK, Drawn, [Next]_vars PROVE Drawn'
  OBVIOUS
<1> USE StoreAssumption DEF TypeOK, Drawn, Live
<1>0. TypeOK'
  BY TypeStep
<1>1. ASSUME NEW p \in Publishers, BeginPublish(p) PROVE Drawn'
  <2>1. \A q \in Publishers : Live(q)' => ver'[q] \in Versions /\ ver'[q] < nextVersion'
    BY <1>1, BeginFrame
  <2>2. \A q, s \in Publishers : Live(q)' /\ Live(s)' /\ q # s => ver'[q] # ver'[s]
    <3> SUFFICES ASSUME NEW q \in Publishers, NEW s \in Publishers,
                        Live(q)', Live(s)', q # s, q # p
                 PROVE  ver'[q] # ver'[s]
      BY <1>1
    <3>1. Live(q) /\ ver'[q] = ver[q] /\ ver[q] < nextVersion
      BY <1>1, BeginFrame
    <3>2. CASE s = p
      BY <1>1, <3>1, <3>2, BeginFrame
    <3>3. CASE s # p
      BY <1>1, <3>1, <3>3, BeginFrame
    <3>4. QED
      BY <3>2, <3>3
  <2>3. QED
    BY <1>1, BeginFrame, <2>1, <2>2
<1>2. ASSUME NEW p \in Publishers, PublishStep(p), ~Release(p) PROVE Drawn'
  <2>1. /\ \A q, s \in Publishers : Live(q)' /\ Live(s)' /\ q # s => ver'[q] # ver'[s]
        /\ \A q \in Publishers : Live(q)' => ver'[q] \in Versions /\ ver'[q] < nextVersion'
        /\ nextVersion' = nextVersion /\ pin' = pin
    BY <1>2, BodyFrame
  <2>2. current' < nextVersion /\ previous' < nextVersion
    BY <1>2 DEF PublishStep, ReadCurrent, WritePart, Verify, ReadPrevious, SetPrevious, Switch,
                Retire, Fail, LoseReply, Cleanup, MoveCurrent, redis
  <2>3. \A q \in Publishers : oldCurrent'[q] < nextVersion /\ oldPrevious'[q] < nextVersion
    BY <1>2 DEF PublishStep, ReadCurrent, WritePart, Verify, ReadPrevious, SetPrevious, Switch,
                Retire, Fail, LoseReply, Cleanup
  <2>4. QED
    BY <2>1, <2>2, <2>3
<1>3. ASSUME NEW p \in Publishers, Release(p) \/ Crash(p) PROVE Drawn'
  <2>1. /\ nextVersion' = nextVersion /\ current' = current /\ previous' = previous /\ pin' = pin
        /\ \A q \in Publishers : Live(q)' => q # p /\ Live(q) /\ ver'[q] = ver[q]
    BY <1>3, EndFrame
  <2>2. \A q \in Publishers : /\ oldCurrent'[q] \in {oldCurrent[q], 0}
                              /\ oldPrevious'[q] \in {oldPrevious[q], 0}
    BY <1>3, EndFrame
  <2>3. QED
    <3>1. 0 < nextVersion
      OBVIOUS
    <3>2. QED
      BY <2>1, <2>2, <3>1
<1>4. CASE ExpireLock
  BY <1>4 DEF ExpireLock, publishing, reading
<1>5. ASSUME NEW r \in Readers, ReaderStep(r) PROVE Drawn'
  <2>1. \A q \in Readers : pin'[q] \in {pin[q], current, 0}
    BY <1>5, ReadPins
  <2>2. \A q \in Readers : pin'[q] < nextVersion
    <3> SUFFICES ASSUME NEW q \in Readers PROVE pin'[q] < nextVersion
      OBVIOUS
    <3>1. pin[q] < nextVersion /\ current < nextVersion /\ 0 < nextVersion
      OBVIOUS
    <3>2. QED
      BY <2>1, <3>1
  <2>3. QED
    BY <1>5, <2>2, ReaderFrame
<1>6. CASE UNCHANGED vars
  BY <1>6 DEF vars, redis, publishing, reading
<1>7. QED
  BY <1>1, <1>2, <1>3, <1>4, <1>5, <1>6 DEF Next, ReaderStep

(* While no publisher has outlasted its lock, the live one holds it, so it *)
(* is alone, and what it will switch to is newer than what is current.     *)
Alone == ~overrun => \A p \in Publishers : Live(p) => ver[p] = lock
Newer == ~overrun => \A p \in Publishers : pc[p] \in BodySteps => current < ver[p]
SerialInv == Drawn /\ Alone /\ Newer

LEMMA OnlyOne ==
  ASSUME SerialInv, ~overrun, NEW p \in Publishers, NEW q \in Publishers, Live(p), Live(q)
  PROVE  p = q
BY DEF SerialInv, Drawn, Alone

LEMMA SerialStep == TypeOK /\ SerialInv /\ [Next]_vars => SerialInv'
<1> SUFFICES ASSUME TypeOK, SerialInv, [Next]_vars PROVE SerialInv'
  OBVIOUS
<1>0. Drawn'
  BY DrawnStep DEF SerialInv
<1> SUFFICES ASSUME ~overrun' PROVE Alone' /\ Newer'
  BY <1>0 DEF SerialInv, Alone, Newer
<1>a. Drawn /\ Alone /\ Newer
  BY DEF SerialInv
<1> USE DEF Alone, Newer, Live
<1>1. ASSUME NEW p \in Publishers, BeginPublish(p) PROVE Alone' /\ Newer'
  <2>1. ~overrun
    BY <1>1, BeginFrame
  <2>2. Alone'
    <3>1. CASE lock' = lock /\ pc'[p] = "idle"
      BY <1>1, <1>a, <2>1, <3>1, BeginFrame
    <3>2. CASE lock = 0 /\ lock' = nextVersion
      <4>1. \A q \in Publishers : ~Live(q)
        BY <1>a, <2>1, <3>2, StoreAssumption DEF Drawn
      <4>2. QED
        BY <1>1, <4>1, <3>2, BeginFrame
    <3>3. QED
      BY <1>1, <3>1, <3>2, BeginFrame
  <2>3. Newer'
    BY <1>1, <1>a, <2>1, BeginFrame DEF Drawn
  <2>4. QED
    BY <2>2, <2>3
<1>2. ASSUME NEW p \in Publishers, PublishStep(p), ~Release(p) PROVE Alone' /\ Newer'
  <2>1. ~overrun
    BY <1>2, BodyFrame
  <2>2. Alone'
    BY <1>2, <1>a, <2>1, BodyFrame
  <2>3. \A q \in Publishers : Live(q) => q = p
    BY <1>2, <2>1, OnlyOne, BodyFrame
  <2>4. pc'[p] \in BodySteps => current' = current /\ pc[p] \in BodySteps
    BY <1>2 DEF TypeOK, PublishStep, ReadCurrent, WritePart, Verify, ReadPrevious, SetPrevious,
                Switch, Retire, Fail, LoseReply, Cleanup, Goto, redis
  <2>5. Newer'
    <3> SUFFICES ASSUME NEW q \in Publishers, pc'[q] \in BodySteps PROVE current' < ver'[q]
      OBVIOUS
    <3>1. q = p
      BY <1>2, <2>3, BodyFrame
    <3>2. QED
      BY <1>2, <1>a, <2>1, <2>4, <3>1, BodyFrame
  <2>6. QED
    BY <2>2, <2>5
<1>3. ASSUME NEW p \in Publishers, Release(p) \/ Crash(p) PROVE Alone' /\ Newer'
  <2>1. ~overrun
    BY <1>3, EndFrame
  <2>2. \A q \in Publishers : ~Live(q)'
    BY <1>3, <2>1, OnlyOne, EndFrame
  <2>3. QED
    BY <2>2
<1>4. CASE ExpireLock
  <2>1. ~overrun /\ \A p \in Publishers : Live(p) => ver[p] # lock
    BY <1>4 DEF ExpireLock
  <2>2. \A p \in Publishers : ~Live(p)
    BY <1>a, <2>1
  <2>3. QED
    BY <1>4, <2>2 DEF ExpireLock, publishing
<1>5. ASSUME NEW r \in Readers, ReaderStep(r) PROVE Alone' /\ Newer'
  BY <1>5, <1>a, ReaderFrame
<1>6. CASE UNCHANGED vars
  BY <1>6, <1>a DEF vars, redis, publishing, reading
<1>7. QED
  BY <1>1, <1>2, <1>3, <1>4, <1>5, <1>6 DEF Next, ReaderStep

LEMMA SerialInit == Init => SerialInv
BY StoreAssumption DEF Init, SerialInv, Drawn, Alone, Newer, Live

(* As long as no publisher outlasts its lock, current only moves forward.  *)
THEOREM CurrentMovesForward == Spec => CurrentNeverRegresses
<1>1. ASSUME TypeOK, SerialInv, [Next]_vars, current' # current PROVE overrun \/ current' > current
  <2>1. PICK p \in Publishers : PublishStep(p) /\ ~Release(p)
    BY <1>1, EndFrame, BeginFrame, ReaderFrame
       DEF Next, ReaderStep, ExpireLock, vars, redis
  <2>2. pc[p] = "switch" /\ current' = ver[p]
    BY <1>1, <2>1 DEF PublishStep, ReadCurrent, WritePart, Verify, ReadPrevious, SetPrevious,
       Switch, Retire, Fail, LoseReply, Cleanup, MoveCurrent, redis
  <2>3. QED
    BY <1>1, <2>2 DEF SerialInv, Newer, TypeOK
<1>2. TypeOK /\ SerialInv /\ [Next]_vars => [overrun \/ current' > current]_current
  BY <1>1
<1>3. Spec => []SerialInv
  BY SerialInit, SerialStep, TypeCorrect, PTL DEF Spec
<1>4. QED
  BY <1>2, <1>3, TypeCorrect, PTL DEF Spec, CurrentNeverRegresses

-----------------------------------------------------------------------------
(* Until a call has switched the pointer, nobody but itself knows its      *)
(* version, so nobody else can delete it; once it has read all parts back  *)
(* they stay; and what a call retires has been replaced for good.          *)
Unswitched(p) == pc[p] \in BodySteps \cup {"cleanup"}

Private(p) ==
  /\ ver[p] # current /\ ver[p] # previous
  /\ \A q \in Publishers : ver[p] # oldCurrent[q] /\ ver[p] # oldPrevious[q]
  /\ \A r \in Readers : ver[p] # pin[r]

UnswitchedIsPrivate == \A p \in Publishers : Unswitched(p) => Private(p)
VerifiedStaysWhole ==
  \A p \in Publishers :
    pc[p] \in {"readPrevious", "setPrevious", "switch"} => keys[ver[p]] = Parts
RetiredIsReplaced ==
  \A p \in Publishers : pc[p] = "retire" => oldPrevious[p] # current

CompleteInv ==
  UnswitchedIsPrivate /\ VerifiedStaysWhole /\ RetiredIsReplaced /\ CurrentComplete

LEMMA PrivateStep ==
  ASSUME ~SwitchReplyMayBeLost, TypeOK, Drawn, UnswitchedIsPrivate, [Next]_vars
  PROVE  UnswitchedIsPrivate'
<1> SUFFICES ASSUME NEW p \in Publishers, Unswitched(p)' PROVE Private(p)'
  BY DEF UnswitchedIsPrivate
<1> USE StoreAssumption DEF Unswitched, UnswitchedIsPrivate
<1>1. ASSUME NEW q \in Publishers, BeginPublish(q) PROVE Private(p)'
  <2>1. CASE p = q
    <3>1. ver'[p] = nextVersion
      BY <1>1, <2>1, BeginFrame
    <3>2. /\ current # nextVersion /\ previous # nextVersion
          /\ \A s \in Publishers : oldCurrent[s] # nextVersion /\ oldPrevious[s] # nextVersion
          /\ \A r \in Readers : pin[r] # nextVersion
      BY DEF Drawn, TypeOK
    <3>3. QED
      BY <1>1, <3>1, <3>2, BeginFrame DEF Private
  <2>2. CASE p # q
    BY <1>1, <2>2, BeginFrame DEF Private
  <2>3. QED
    BY <2>1, <2>2
<1>2. ASSUME NEW q \in Publishers, PublishStep(q), ~Release(q) PROVE Private(p)'
  <2>1. Unswitched(p)
    BY <1>2, BodyFrame DEF TypeOK, PublishStep, ReadCurrent, WritePart, Verify, ReadPrevious,
       SetPrevious, Switch, Retire, Fail, LoseReply, Cleanup, Goto
  <2>2. Private(p) /\ ver' = ver /\ pin' = pin
    BY <1>2, <2>1, BodyFrame
  <2>3. ver[p] # current'
    <3>1. CASE Switch(q)
      <4>1. p # q
        BY <3>1 DEF Switch, Goto, TypeOK
      <4>2. QED
        BY <3>1, <2>1, <4>1 DEF Switch, MoveCurrent, Drawn, Live
    <3>2. CASE ~Switch(q)
      <4>1. current' = current
        BY <1>2, <3>2 DEF PublishStep, ReadCurrent, WritePart, Verify, ReadPrevious, SetPrevious,
           Retire, Fail, LoseReply, Cleanup, redis
      <4>2. QED
        BY <2>2, <4>1 DEF Private
    <3>3. QED
      BY <3>1, <3>2
  <2>4. previous' \in {previous, oldCurrent[q]}
    BY <1>2 DEF PublishStep, ReadCurrent, WritePart, Verify, ReadPrevious, SetPrevious, Switch,
       Retire, Fail, LoseReply, Cleanup, redis
  <2>5. \A s \in Publishers : /\ oldCurrent'[s] \in {oldCurrent[s], current}
                              /\ oldPrevious'[s] \in {oldPrevious[s], previous}
    BY <1>2 DEF TypeOK, PublishStep, ReadCurrent, WritePart, Verify, ReadPrevious, SetPrevious,
       Switch, Retire, Fail, LoseReply, Cleanup
  <2>6. QED
    BY <2>2, <2>3, <2>4, <2>5 DEF Private
<1>3. ASSUME NEW q \in Publishers, Release(q) \/ Crash(q) PROVE Private(p)'
  <2>1. p # q /\ Unswitched(p) /\ ver'[p] = ver[p]
    BY <1>3, EndFrame
  <2>2. \A s \in Publishers : /\ oldCurrent'[s] \in {oldCurrent[s], 0}
                              /\ oldPrevious'[s] \in {oldPrevious[s], 0}
    BY <1>3, EndFrame
  <2>3. ver[p] # 0
    BY <2>1 DEF Drawn, Live
  <2>4. QED
    BY <1>3, <2>1, <2>2, <2>3, EndFrame DEF Private
<1>4. CASE ExpireLock
  BY <1>4 DEF ExpireLock, publishing, reading, Private
<1>5. ASSUME NEW r \in Readers, ReaderStep(r) PROVE Private(p)'
  <2>1. Private(p) /\ ver[p] # 0
    BY <1>5, ReaderFrame DEF Drawn, Live
  <2>2. \A q \in Readers : pin'[q] \in {pin[q], current, 0}
    BY <1>5, ReadPins
  <2>3. QED
    BY <1>5, <2>1, <2>2, ReaderFrame DEF Private
<1>6. CASE UNCHANGED vars
  BY <1>6 DEF vars, redis, publishing, reading, Private
<1>7. QED
  BY <1>1, <1>2, <1>3, <1>4, <1>5, <1>6 DEF Next, ReaderStep

(* What one step of publish may do to the stored parts. *)
LEMMA KeysStep ==
  ASSUME TypeOK, Drawn, NEW p \in Publishers, PublishStep(p), ~Release(p), NEW v \in Versions
  PROVE  \/ keys[v] \subseteq keys'[v]
         \/ pc[p] = "retire" /\ v = oldPrevious[p]
         \/ pc[p] = "cleanup" /\ v = ver[p]
<1> USE DEF TypeOK
<1>1. CASE WritePart(p) \/ LoseReply(p)
  <2>1. \/ UNCHANGED keys
        \/ \E k \in Parts : keys' = [keys EXCEPT ![ver[p]] = @ \cup {k}]
    BY <1>1, StoreAssumption DEF WritePart, LoseReply, NextParts
  <2>2. QED
    BY <2>1
<1>2. CASE Retire(p)
  BY <1>2 DEF Retire
<1>3. CASE Cleanup(p)
  BY <1>3 DEF Cleanup
<1>4. CASE UNCHANGED keys
  BY <1>4
<1>5. QED
  BY <1>1, <1>2, <1>3, <1>4 DEF PublishStep, ReadCurrent, Verify, ReadPrevious, SetPrevious,
     Switch, Fail, redis

LEMMA CompleteStep ==
  ASSUME ~SwitchReplyMayBeLost, TypeOK, Drawn, CompleteInv, [Next]_vars
  PROVE  CompleteInv'
<1> USE StoreAssumption DEF VerifiedStaysWhole, RetiredIsReplaced, CurrentComplete
<1>0. TypeOK' /\ UnswitchedIsPrivate'
  BY TypeStep, PrivateStep DEF CompleteInv
<1> SUFFICES VerifiedStaysWhole' /\ RetiredIsReplaced' /\ CurrentComplete'
  BY <1>0 DEF CompleteInv
<1>a. UnswitchedIsPrivate /\ VerifiedStaysWhole /\ RetiredIsReplaced /\ CurrentComplete
  BY DEF CompleteInv
<1>1. ASSUME NEW p \in Publishers, BeginPublish(p)
      PROVE  VerifiedStaysWhole' /\ RetiredIsReplaced' /\ CurrentComplete'
  BY <1>1, <1>a, BeginFrame
<1>2. ASSUME NEW p \in Publishers, PublishStep(p), ~Release(p)
      PROVE  VerifiedStaysWhole' /\ RetiredIsReplaced' /\ CurrentComplete'
  <2>a. \A v \in Versions : keys'[v] \subseteq Parts
    BY <1>0 DEF TypeOK
  <2>b. /\ UNCHANGED ver /\ \A q \in Publishers \ {p} : pc'[q] = pc[q]
        /\ \A q \in Publishers : Live(q) => ver[q] \in Versions
    BY <1>2, BodyFrame DEF Drawn
  <2>1. VerifiedStaysWhole'
    <3> SUFFICES ASSUME NEW q \in Publishers, pc'[q] \in {"readPrevious", "setPrevious", "switch"}
                 PROVE  keys'[ver[q]] = Parts
      BY <2>b
    <3>1. CASE q = p
      BY <1>2, <1>a, <3>1 DEF TypeOK, PublishStep, ReadCurrent, WritePart, Verify, ReadPrevious,
         SetPrevious, Switch, Retire, Fail, LoseReply, Cleanup, Goto, redis
    <3>2. CASE q # p
      <4>1. keys[ver[q]] = Parts /\ ver[q] \in Versions /\ Private(q)
        BY <1>a, <2>b, <3>2 DEF UnswitchedIsPrivate, Unswitched, Live
      <4>2. ver[q] # ver[p]
        BY <1>2, <2>b, <3>2, BodyFrame DEF Drawn, Live
      <4>3. QED
        BY <1>2, <2>a, <4>1, <4>2, KeysStep DEF Private
    <3>3. QED
      BY <3>1, <3>2
  <2>2. RetiredIsReplaced'
    <3> SUFFICES ASSUME NEW q \in Publishers, pc'[q] = "retire" PROVE oldPrevious'[q] # current'
      OBVIOUS
    <3>1. CASE Switch(p)
      <4>1. Private(p) /\ oldPrevious' = oldPrevious /\ current' = ver[p]
        BY <1>a, <3>1 DEF Switch, MoveCurrent, UnswitchedIsPrivate, Unswitched
      <4>2. QED
        BY <4>1 DEF Private
    <3>2. CASE ~Switch(p)
      <4>1. /\ current' = current /\ pc[q] = "retire"
            /\ oldPrevious'[q] = oldPrevious[q]
        BY <1>2, <2>b, <3>2 DEF TypeOK, PublishStep, ReadCurrent, WritePart, Verify, ReadPrevious,
           SetPrevious, Retire, Fail, LoseReply, Cleanup, Goto, redis
      <4>2. QED
        BY <1>a, <4>1
    <3>3. QED
      BY <3>1, <3>2
  <2>3. CurrentComplete'
    <3>1. CASE Switch(p)
      BY <1>a, <3>1 DEF Switch, MoveCurrent
    <3>2. CASE ~Switch(p)
      <4>1. current' = current
        BY <1>2, <3>2 DEF PublishStep, ReadCurrent, WritePart, Verify, ReadPrevious,
           SetPrevious, Retire, Fail, LoseReply, Cleanup, redis
      <4>2. CASE current # 0
        <5>1. current \in Versions /\ keys[current] = Parts
          BY <1>a, <4>2 DEF TypeOK
        <5>2. /\ pc[p] = "retire" => oldPrevious[p] # current
              /\ pc[p] = "cleanup" => ver[p] # current
          BY <1>a DEF UnswitchedIsPrivate, Unswitched, Private
        <5>3. QED
          BY <1>2, <2>a, <4>1, <5>1, <5>2, KeysStep
      <4>3. QED
        BY <4>1, <4>2
    <3>3. QED
      BY <3>1, <3>2
  <2>4. QED
    BY <2>1, <2>2, <2>3
<1>3. ASSUME NEW p \in Publishers, Release(p) \/ Crash(p)
      PROVE  VerifiedStaysWhole' /\ RetiredIsReplaced' /\ CurrentComplete'
  <2>1. /\ UNCHANGED <<keys, current>>
        /\ \A q \in Publishers : pc'[q] # "idle" =>
             pc'[q] = pc[q] /\ ver'[q] = ver[q] /\ oldPrevious'[q] = oldPrevious[q]
    BY <1>3, EndFrame
  <2>2. QED
    BY <1>a, <2>1
<1>4. CASE ExpireLock
  BY <1>4, <1>a DEF ExpireLock, publishing
<1>5. ASSUME NEW r \in Readers, ReaderStep(r)
      PROVE  VerifiedStaysWhole' /\ RetiredIsReplaced' /\ CurrentComplete'
  BY <1>5, <1>a, ReaderFrame
<1>6. CASE UNCHANGED vars
  BY <1>6, <1>a DEF vars, redis, publishing
<1>7. QED
  BY <1>1, <1>2, <1>3, <1>4, <1>5, <1>6 DEF Next, ReaderStep

LEMMA CompleteInit == Init => CompleteInv
BY DEF Init, CompleteInv, UnswitchedIsPrivate, Unswitched, VerifiedStaysWhole,
   RetiredIsReplaced, CurrentComplete

(* Whatever fails, dies or outlasts its lock, the current pointer leads to *)
(* a whole snapshot -- as long as a SET that took effect is reported so.   *)
THEOREM CurrentIsComplete ==
  ASSUME ~SwitchReplyMayBeLost
  PROVE  Spec => []CurrentComplete
<1>1. TypeOK /\ SerialInv /\ CompleteInv /\ [Next]_vars => CompleteInv'
  BY CompleteStep DEF SerialInv
<1>2. CompleteInv => CurrentComplete
  BY DEF CompleteInv
<1>3. QED
  BY <1>1, <1>2, CompleteInit, SerialInit, SerialStep, TypeCorrect, PTL DEF Spec

-----------------------------------------------------------------------------
(* While no publisher has outlasted its lock: what the live publisher has  *)
(* read is still so, the previous pointer leads to a whole snapshot, and   *)
(* what a reader pinned stays whole until two publications have passed.    *)
PointersAsRead(p) ==
  /\ pc[p] \in {"write", "verify", "readPrevious", "setPrevious", "switch"}
       => oldCurrent[p] = current
  /\ pc[p] \in {"setPrevious", "switch"} /\ oldCurrent[p] = 0 => oldPrevious[p] = 0
  /\ pc[p] = "switch" /\ oldCurrent[p] # 0 => previous = oldCurrent[p]
  /\ pc[p] = "retire" => oldPrevious[p] # previous

PinnedStaysWhole(r) ==
  /\ pin[r] # 0 /\ overtaken[r] = 0 => pin[r] = current
  /\ pin[r] # 0 /\ overtaken[r] < 2 =>
       /\ keys[pin[r]] = Parts
       /\ \A p \in Publishers : pc[p] = "retire" => oldPrevious[p] # pin[r]

RegisterInv ==
  ~overrun =>
    /\ current = 0 => previous = 0
    /\ previous # 0 => keys[previous] = Parts
    /\ \A p \in Publishers : PointersAsRead(p)
    /\ \A r \in Readers : PinnedStaysWhole(r)

(* A step of the only live publisher. *)
LEMMA RegisterPublishStep ==
  ASSUME ~SwitchReplyMayBeLost, TypeOK, SerialInv, CompleteInv, RegisterInv, ~overrun,
         NEW p \in Publishers, PublishStep(p), ~Release(p)
  PROVE  RegisterInv'
<1> USE StoreAssumption
<1>a. /\ current = 0 => previous = 0
      /\ previous # 0 => keys[previous] = Parts
      /\ PointersAsRead(p)
      /\ \A r \in Readers : PinnedStaysWhole(r)
  BY DEF RegisterInv
<1>b. /\ \A q \in Publishers \ {p} : pc[q] = "idle" /\ pc'[q] = "idle"
      /\ UNCHANGED <<pin, ver>> /\ pc[p] # "idle"
  BY BodyFrame, OnlyOne DEF Live
<1>c. \A v \in Versions : keys'[v] \subseteq Parts
  BY TypeStep DEF TypeOK, Next
<1>d. \A v \in Versions :
        keys[v] = Parts /\ (pc[p] = "retire" => v # oldPrevious[p]) /\ (pc[p] = "cleanup" => v # ver[p])
          => keys'[v] = Parts
  BY <1>c, KeysStep DEF SerialInv
<1>e. Switch(p) \/ (UNCHANGED <<current, overtaken>> /\ (pc'[p] = "retire" => FALSE))
  BY DEF TypeOK, PublishStep, ReadCurrent, WritePart, Verify, ReadPrevious, SetPrevious,
     Retire, Fail, LoseReply, Cleanup, Goto, redis, reading
<1>f. Drawn /\ (Unswitched(p) => Private(p))
  BY DEF SerialInv, CompleteInv, UnswitchedIsPrivate
<1>1. PointersAsRead(p)'
  <2>1. CASE Switch(p)
    BY <2>1, <1>a DEF TypeOK, PointersAsRead, Switch, MoveCurrent, Goto
  <2>2. CASE ReadCurrent(p)
    BY <2>2 DEF TypeOK, PointersAsRead, ReadCurrent, Goto, redis
  <2>3. CASE ReadPrevious(p)
    BY <2>3, <1>a DEF TypeOK, PointersAsRead, ReadPrevious, Goto, redis
  <2>4. CASE SetPrevious(p)
    BY <2>4, <1>a DEF TypeOK, PointersAsRead, SetPrevious, Goto
  <2>5. CASE WritePart(p)
    BY <2>5, <1>a DEF TypeOK, PointersAsRead, WritePart, Goto
  <2>6. CASE Verify(p) \/ Retire(p) \/ Fail(p) \/ LoseReply(p) \/ Cleanup(p)
    BY <2>6, <1>a DEF TypeOK, PointersAsRead, Verify, Retire, Fail, LoseReply, Cleanup, Goto, redis
  <2>7. QED
    BY <2>1, <2>2, <2>3, <2>4, <2>5, <2>6 DEF PublishStep
<1>2. \A q \in Publishers : PointersAsRead(q)'
  BY <1>1, <1>b DEF PointersAsRead
<1>3. current' = 0 => previous' = 0
  BY <1>a, <1>e, <1>f
     DEF TypeOK, PublishStep, ReadCurrent, WritePart, Verify, ReadPrevious, SetPrevious, Switch,
         MoveCurrent, Retire, Fail, LoseReply, Cleanup, PointersAsRead, redis, Drawn, Live
<1>4. previous' # 0 => keys'[previous'] = Parts
  <2>1. CASE UNCHANGED previous
    <3> SUFFICES ASSUME previous # 0 PROVE keys'[previous] = Parts
      BY <2>1
    <3>1. previous \in Versions /\ keys[previous] = Parts
      BY <1>a DEF TypeOK
    <3>2. (pc[p] = "retire" => previous # oldPrevious[p]) /\ (pc[p] = "cleanup" => previous # ver[p])
      BY <1>a, <1>f DEF PointersAsRead, Unswitched, Private
    <3>3. QED
      BY <1>d, <3>1, <3>2
  <2>2. CASE pc[p] = "setPrevious" /\ previous' = oldCurrent[p]
    <3>1. oldCurrent[p] = current /\ current # 0 /\ current \in Versions
      BY <1>a, <2>2 DEF PointersAsRead, TypeOK
    <3>2. keys[current] = Parts
      BY <3>1 DEF CompleteInv, CurrentComplete
    <3>3. QED
      BY <1>d, <2>2, <3>1, <3>2
  <2>3. QED
    BY <2>1, <2>2
       DEF PublishStep, ReadCurrent, WritePart, Verify, ReadPrevious, SetPrevious, Switch,
           MoveCurrent, Retire, Fail, LoseReply, Cleanup, redis
<1>5. ASSUME NEW r \in Readers PROVE PinnedStaysWhole(r)'
  <2>1. PinnedStaysWhole(r) /\ pin[r] \in 0..MaxVersion /\ overtaken[r] \in 0..2
    BY <1>a DEF TypeOK
  <2>2. ASSUME pin[r] # 0, overtaken'[r] < 2 PROVE keys'[pin[r]] = Parts
    <3>1. overtaken[r] < 2
      BY <2>1, <2>2, <1>e DEF Switch, MoveCurrent
    <3>2. /\ pin[r] \in Versions /\ keys[pin[r]] = Parts
          /\ pc[p] = "retire" => oldPrevious[p] # pin[r]
      BY <2>1, <2>2, <3>1 DEF PinnedStaysWhole
    <3>3. pc[p] = "cleanup" => pin[r] # ver[p]
      BY <1>f DEF Unswitched, Private
    <3>4. QED
      BY <1>d, <3>2, <3>3
  <2>3. CASE Switch(p)
    <3>1. /\ overtaken'[r] = (IF pin[r] = 0 \/ overtaken[r] = 2 THEN overtaken[r] ELSE overtaken[r] + 1)
          /\ pin'[r] = pin[r] /\ UNCHANGED oldPrevious
      BY <2>3, <1>b DEF Switch, MoveCurrent
    <3>2. ASSUME pin[r] # 0, overtaken'[r] < 2, pc'[p] = "retire" PROVE oldPrevious[p] # pin[r]
      <4>1. overtaken[r] = 0 /\ pin[r] = current /\ oldCurrent[p] = current
        BY <3>1, <3>2, <2>1, <2>3, <1>a DEF PinnedStaysWhole, PointersAsRead, Switch
      <4>2. oldPrevious[p] # oldCurrent[p]
        BY <2>3, <3>2 DEF Switch, Goto, TypeOK
      <4>3. QED
        BY <4>1, <4>2
    <3>3. pin[r] # 0 => overtaken'[r] # 0
      BY <3>1, <2>1
    <3>4. QED
      BY <1>b, <2>2, <3>1, <3>2, <3>3 DEF PinnedStaysWhole
  <2>4. CASE UNCHANGED <<current, overtaken>> /\ ~(pc'[p] = "retire")
    BY <1>b, <2>1, <2>2, <2>4 DEF PinnedStaysWhole
  <2>5. QED
    BY <2>3, <2>4, <1>e
<1>6. QED
  BY <1>2, <1>3, <1>4, <1>5, BodyFrame DEF RegisterInv

LEMMA RegisterStep ==
  ASSUME ~SwitchReplyMayBeLost, TypeOK, SerialInv, CompleteInv, RegisterInv, [Next]_vars
  PROVE  RegisterInv'
<1> USE StoreAssumption
<1> SUFFICES ASSUME ~overrun' PROVE RegisterInv'
  BY DEF RegisterInv
<1>0. ~overrun
  BY BeginFrame, BodyFrame, EndFrame, ReaderFrame
     DEF Next, ReaderStep, ExpireLock, vars
<1>a. /\ current = 0 => previous = 0
      /\ previous # 0 => keys[previous] = Parts
      /\ \A p \in Publishers : PointersAsRead(p)
      /\ \A r \in Readers : PinnedStaysWhole(r)
  BY <1>0 DEF RegisterInv
<1>1. ASSUME NEW p \in Publishers, BeginPublish(p) PROVE RegisterInv'
  <2>1. /\ UNCHANGED <<keys, current, previous, oldCurrent, oldPrevious, pin, overtaken>>
        /\ \A q \in Publishers : pc'[q] = pc[q] \/ pc'[q] \in {"idle", "readCurrent"}
    BY <1>1, BeginFrame
  <2>2. QED
    BY <1>a, <2>1 DEF RegisterInv, PointersAsRead, PinnedStaysWhole
<1>2. ASSUME NEW p \in Publishers, PublishStep(p), ~Release(p) PROVE RegisterInv'
  BY <1>0, <1>2, RegisterPublishStep
<1>3. ASSUME NEW p \in Publishers, Release(p) \/ Crash(p) PROVE RegisterInv'
  <2>1. /\ UNCHANGED <<keys, current, previous, pin, overtaken>>
        /\ \A q \in Publishers : pc'[q] # "idle" =>
             /\ pc'[q] = pc[q]
             /\ oldCurrent'[q] = oldCurrent[q] /\ oldPrevious'[q] = oldPrevious[q]
    BY <1>3, EndFrame
  <2>2. QED
    BY <1>a, <2>1 DEF RegisterInv, PointersAsRead, PinnedStaysWhole
<1>4. CASE ExpireLock
  BY <1>4, <1>a DEF ExpireLock, publishing, reading, RegisterInv, PointersAsRead, PinnedStaysWhole
<1>5. ASSUME NEW r \in Readers, ReaderStep(r) PROVE RegisterInv'
  <2>1. ASSUME NEW q \in Readers PROVE PinnedStaysWhole(q)'
    <3>1. \/ UNCHANGED <<pin, overtaken>>
          \/ /\ current # 0 /\ pin[r] = 0
             /\ pin' = [pin EXCEPT ![r] = current] /\ UNCHANGED overtaken
          \/ pin' = [pin EXCEPT ![r] = 0] /\ overtaken' = [overtaken EXCEPT ![r] = 0]
      BY <1>5 DEF ReaderStep, ReadStep, PinCurrent, FetchPart, ReturnSnapshot, CacheUnavailable,
         EndRead
    <3>2. /\ current # 0 => keys[current] = Parts
          /\ \A p \in Publishers : pc[p] = "retire" => oldPrevious[p] # current
      BY DEF CompleteInv, CurrentComplete, RetiredIsReplaced
    <3>3. UNCHANGED <<keys, current, pc, oldPrevious>>
      BY <1>5, ReaderFrame
    <3>4. PinnedStaysWhole(q)
      BY <1>a
    <3>5. QED
      BY <3>1, <3>2, <3>3, <3>4 DEF PinnedStaysWhole, TypeOK
  <2>2. QED
    BY <1>5, <1>a, <2>1, ReaderFrame DEF RegisterInv, PointersAsRead
<1>6. CASE UNCHANGED vars
  BY <1>6, <1>a DEF vars, redis, publishing, reading, RegisterInv, PointersAsRead, PinnedStaysWhole
<1>7. QED
  BY <1>1, <1>2, <1>3, <1>4, <1>5, <1>6 DEF Next, ReaderStep

LEMMA RegisterInit == Init => RegisterInv
BY DEF Init, RegisterInv, PointersAsRead, PinnedStaysWhole

IInv == TypeOK /\ SerialInv /\ CompleteInv /\ RegisterInv

LEMMA StoreInvariant == ASSUME ~SwitchReplyMayBeLost PROVE Spec => []IInv
<1>1. TypeOK /\ SerialInv /\ CompleteInv /\ [Next]_vars => CompleteInv'
  BY CompleteStep DEF SerialInv
<1>2. TypeOK /\ SerialInv /\ CompleteInv /\ RegisterInv /\ [Next]_vars => RegisterInv'
  BY RegisterStep
<1>3. QED
  BY <1>1, <1>2, CompleteInit, SerialInit, RegisterInit, SerialStep, TypeCorrect, PTL
     DEF Spec, IInv

(* The previous pointer leads to a whole snapshot, unless a publisher has  *)
(* outlasted its lock.                                                     *)
THEOREM PreviousIsComplete ==
  ASSUME ~SwitchReplyMayBeLost
  PROVE  Spec => []PreviousComplete
<1>1. IInv => PreviousComplete
  BY DEF IInv, RegisterInv, PreviousComplete
<1>2. QED
  BY <1>1, StoreInvariant, PTL

(* A version that misses a part was replaced twice since it was pinned. *)
LEMMA MissingPart ==
  ASSUME IInv, ~overrun, NEW r \in Readers, pin[r] # 0, NEW k \in Parts, k \notin keys[pin[r]]
  PROVE  overtaken[r] = 2
<1>1. PinnedStaysWhole(r)
  BY DEF IInv, RegisterInv
<1>2. ~(overtaken[r] < 2)
  BY <1>1 DEF PinnedStaysWhole
<1>3. overtaken[r] \in 0..2
  BY DEF IInv, TypeOK
<1>4. QED
  BY <1>2, <1>3

(* A read that ends torn was overtaken twice. *)
LEMMA TornStep ==
  ASSUME IInv, [Next]_vars, ~overrun, NEW r \in Readers,
         outcome'[r] # outcome[r], outcome'[r].kind = "incomplete"
  PROVE  FetchPart(r) /\ pin[r] # 0 /\ overtaken[r] = 2 /\ EndRead(r, "incomplete")
<1> USE StoreAssumption DEF IInv, TypeOK
<1>1. PICK s \in Readers : ReaderStep(s)
  BY BeginFrame, BodyFrame, EndFrame DEF Next, ReaderStep, ExpireLock, vars, reading
<1>2. s = r /\ FetchPart(r)
  <2>1. \/ FetchPart(s)
        \/ \E kind \in {"none", "complete", "empty", "unavailable"}, v \in Nat :
             outcome' = [outcome EXCEPT ![s] = [kind |-> kind, version |-> v]]
    <3>1. \A kind \in Outcomes : Answer(s, kind) \in Nat
      BY DEF Answer
    <3>2. CASE PinCurrent(s)
      BY <3>1, <3>2 DEF PinCurrent, EndRead
    <3>3. CASE ReturnSnapshot(s) \/ CacheUnavailable(s)
      BY <3>1, <3>3 DEF ReturnSnapshot, CacheUnavailable, EndRead
    <3>4. QED
      BY <1>1, <3>2, <3>3 DEF ReaderStep, ReadStep
  <2>2. FetchPart(s)
    BY <2>1
  <2>3. \A q \in Readers \ {s} : outcome'[q] = outcome[q]
    BY <2>2 DEF FetchPart, EndRead
  <2>4. QED
    BY <2>2, <2>3
<1>3. PICK k \in NextParts(got[r]) : k \notin keys[pin[r]] /\ EndRead(r, "incomplete")
  BY <1>2 DEF FetchPart
<1>4. pin[r] # 0 /\ k \in Parts
  BY <1>2, <1>3 DEF FetchPart, NextParts
<1>5. overtaken[r] = 2
  BY <1>3, <1>4, MissingPart
<1>6. QED
  BY <1>2, <1>3, <1>4, <1>5

(* A reader finds its version torn only after two publications have passed *)
(* it by, unless a publisher has outlasted its lock.                       *)
THEOREM TornReadsAreOvertaken ==
  ASSUME ~SwitchReplyMayBeLost
  PROVE  Spec => TornOnlyAfterTwoSwitches
<1>1. IInv /\ [Next]_vars =>
        [\A r \in Readers :
           \/ overrun
           \/ outcome'[r] # outcome[r] /\ outcome'[r].kind = "incomplete" => overtaken[r] = 2]_vars
  BY TornStep
<1>2. QED
  BY <1>1, StoreInvariant, PTL DEF Spec, TornOnlyAfterTwoSwitches

(* Every step of the store is a step of the register or leaves it alone,   *)
(* for as long as no publisher has outlasted its lock.                     *)
LEMMA RegisterNext ==
  ASSUME ~SwitchReplyMayBeLost, IInv, [Next]_vars, ~overrun
  PROVE  Register!Next \/ UNCHANGED Register!vars
<1> USE StoreAssumption DEF Register!vars
<1>1. ASSUME NEW p \in Publishers, PublishStep(p), ~Release(p)
      PROVE  Register!Next \/ UNCHANGED Register!vars
  <2>1. CASE Switch(p)
    <3>1. ver[p] > current /\ ver[p] \in 1..MaxVersion
      BY <2>1 DEF IInv, TypeOK, SerialInv, Newer, Drawn, Live, Switch
    <3>2. Register!Publish(ver[p])
      BY <2>1, <3>1 DEF Register!Publish, Switch, MoveCurrent
    <3>3. QED
      BY <3>1, <3>2 DEF Register!Next
  <2>2. CASE ~Switch(p)
    BY <1>1, <2>2 DEF PublishStep, ReadCurrent, WritePart, Verify, ReadPrevious, SetPrevious,
       Retire, Fail, LoseReply, Cleanup, redis, reading
  <2>3. QED
    BY <2>1, <2>2
<1>2. ASSUME NEW p \in Publishers, BeginPublish(p) \/ Release(p) \/ Crash(p)
      PROVE  UNCHANGED Register!vars
  BY <1>2, BeginFrame, EndFrame DEF IInv
<1>3. ASSUME NEW r \in Readers, NEW kind \in Outcomes, EndRead(r, kind), current' = current
      PROVE  Register!End(r, kind)
  BY <1>3 DEF EndRead, Answer, Register!End, Register!Answer
<1>4. ASSUME NEW r \in Readers, PinCurrent(r) PROVE Register!Next
  <2>1. current' = current
    BY <1>4, ReaderFrame DEF ReaderStep
  <2>2. CASE current # 0
    <3>1. Register!Begin(r)
      BY <1>4, <2>1, <2>2 DEF PinCurrent, Register!Begin, Register!Idle
    <3>2. QED
      BY <3>1 DEF Register!Next
  <2>3. CASE current = 0
    <3>1. Register!Empty(r)
      BY <1>3, <1>4, <2>1, <2>3 DEF PinCurrent, Register!Empty
    <3>2. QED
      BY <3>1 DEF Register!Next
  <2>4. QED
    BY <2>2, <2>3
<1>5. ASSUME NEW r \in Readers, FetchPart(r) PROVE Register!Next \/ UNCHANGED Register!vars
  <2>1. current' = current
    BY <1>5, ReaderFrame DEF ReaderStep, ReadStep
  <2>2. PICK k \in NextParts(got[r]) :
          \/ UNCHANGED <<pin, overtaken, outcome>>
          \/ k \notin keys[pin[r]] /\ EndRead(r, "incomplete")
    BY <1>5 DEF FetchPart
  <2>3. CASE k \notin keys[pin[r]] /\ EndRead(r, "incomplete")
    <3>1. pin[r] # 0 /\ k \in Parts
      BY <1>5, <2>2 DEF FetchPart, NextParts
    <3>2. overtaken[r] = 2
      BY <2>3, <3>1, MissingPart
    <3>3. Register!Incomplete(r)
      BY <1>3, <2>1, <2>3, <3>1, <3>2 DEF Register!Incomplete
    <3>4. QED
      BY <3>3 DEF Register!Next
  <2>4. QED
    BY <2>1, <2>2, <2>3
<1>6. ASSUME NEW r \in Readers, ReturnSnapshot(r) PROVE Register!Next
  <2>1. Register!Complete(r)
    BY <1>3, <1>6, ReaderFrame DEF ReturnSnapshot, ReaderStep, ReadStep, Register!Complete
  <2>2. QED
    BY <2>1 DEF Register!Next
<1>7. ASSUME NEW r \in Readers, CacheUnavailable(r) PROVE Register!Next
  <2>1. Register!Unavailable(r)
    BY <1>3, <1>7, ReaderFrame DEF CacheUnavailable, ReaderStep, Register!Unavailable
  <2>2. QED
    BY <2>1 DEF Register!Next
<1>8. CASE ExpireLock \/ UNCHANGED vars
  BY <1>8 DEF ExpireLock, vars, redis, reading
<1>9. QED
  BY <1>1, <1>2, <1>4, <1>5, <1>6, <1>7, <1>8 DEF Next, ReadStep

(* The store implements the atomic register of SnapshotRegister for as     *)
(* long as no publisher has outlasted its lock.                            *)
THEOREM StoreImplementsRegister ==
  ASSUME ~SwitchReplyMayBeLost
  PROVE  Spec => RegisterSpec
<1>1. Init => Register!Init
  BY DEF Init, Register!Init, Register!Idle
<1>2. IInv /\ [Next]_vars => [overrun \/ Register!Next]_(Register!vars)
  BY RegisterNext
<1>3. QED
  BY <1>1, <1>2, StoreInvariant, PTL DEF Spec, RegisterSpec

--------------------------------------------------------------------------------
(* From the rows of the remote table to what is published, in              *)
(* ReadModelRefresh: whatever the factory changes between two reads, a     *)
(* collection is a function of the rows of its first read.                 *)

\* What a collection has read of the given rows: the facts, then everything.
FirstRead(rows, date) ==
    [date |-> date, facts |-> FactRows(rows, date), remarks |-> EmployeeRemarkMap(People, rows)]
CollectedFrom(rows, date) == Completed(FirstRead(rows, date), rows)

NoneAfter(rows, day) == \A r \in rows : r.day <= day

\* No row is of a day that has not begun.
TableInv ==
    /\ today \in Int /\ FirstDay <= today
    /\ table \subseteq Candidates /\ NoneAfter(table, today)

\* The progress of a collection is determined by the rows it began with.
CollectionOk(c) ==
    \/ c = Idle
    \/ \E date \in Int : \E rows \in SUBSET Candidates :
          /\ date <= today /\ NoneAfter(rows, date)
          /\ \/ c = [phase |-> "facts", date |-> date, view |-> rows,
                     source |-> FirstRead(rows, date)]
             \/ c = [phase |-> "collected", date |-> date, view |-> rows,
                     source |-> CollectedFrom(rows, date)]

\* What is published of a day is what was collected from rows none of which is of a
\* later day, and it has passed validation.
PublishedAtOnce ==
    \A d \in Days : \A p \in published[d] :
        /\ p.rows \subseteq Candidates /\ NoneAfter(p.rows, d) /\ d <= today
        /\ p.source = CollectedFrom(p.rows, d)
        /\ ValidSnapshot(SnapshotOf(p))

\* The history of a day is copied from the rows of one instant after the day.
CopiedAtOnce ==
    \A d \in Days : \A copy \in copies[d] :
        /\ d < today
        /\ copy.facts = LoadFacts(copy.rows, d, People)
        /\ Covered(copy.facts, FactRows(copy.rows, d))

\* The facts of a snapshot's employees with a number of their own, with that number.
Numbered(source) ==
    {f @@ [remark |-> source.remarks[f.emp]]
       : f \in {x \in source.facts : x.emp \in DOMAIN source.remarks}}

\* The history of a day holds just these facts of the snapshot published of the same
\* rows, and covers the snapshot.
HistoryCoversTheDay ==
    \A d \in Days : \A pub \in published[d], copy \in copies[d] :
        copy.rows = pub.rows =>
            /\ copy.facts = Numbered(pub.source)
            /\ Covered(copy.facts, pub.source.facts)

RefreshInv ==
    /\ TableInv /\ CollectionOk(collection)
    /\ DOMAIN published = Days /\ PublishedAtOnce
    /\ DOMAIN copies = Days /\ CopiedAtOnce

LEMMA RefreshInitHolds == RefreshInit => RefreshInv
<1>. SUFFICES ASSUME RefreshInit PROVE RefreshInv
  OBVIOUS
<1>1. /\ today = FirstDay /\ table \in Opening /\ collection = Idle
      /\ published = [d \in Days |-> {}] /\ copies = [d \in Days |-> {}]
  BY DEF RefreshInit
<1>2. TableInv
  BY <1>1, OpeningAssumption DEF TableInv, NoneAfter
<1>3. /\ CollectionOk(collection) /\ PublishedAtOnce /\ CopiedAtOnce
  BY <1>1 DEF CollectionOk, PublishedAtOnce, CopiedAtOnce
<1>. QED  BY <1>1, <1>2, <1>3 DEF RefreshInv

\* A step of the factory or the clock leaves the collection and its results alone.
LEMMA FactoryStep ==
    ASSUME RefreshInv, TableInv', today <= today',
           UNCHANGED <<collection, published, copies>>
    PROVE  RefreshInv'
<1>1. today \in Int /\ today' \in Int
  BY DEF RefreshInv, TableInv
<1>2. CollectionOk(collection)'
  <2>1. CASE collection = Idle
    BY <2>1 DEF CollectionOk, Idle
  <2>2. CASE collection # Idle
    <3>1. PICK date \in Int, rows \in SUBSET Candidates :
            /\ date <= today /\ NoneAfter(rows, date)
            /\ \/ collection = [phase |-> "facts", date |-> date, view |-> rows,
                                source |-> FirstRead(rows, date)]
               \/ collection = [phase |-> "collected", date |-> date, view |-> rows,
                                source |-> CollectedFrom(rows, date)]
      BY <2>2 DEF RefreshInv, CollectionOk
    <3>2. date <= today'
      BY <3>1, <1>1
    <3>. QED  BY <3>1, <3>2 DEF CollectionOk
  <2>. QED  BY <2>1, <2>2
<1>3. PublishedAtOnce'
  <2>. SUFFICES ASSUME NEW d \in Days, NEW p \in published[d]
                PROVE  /\ p.rows \subseteq Candidates /\ NoneAfter(p.rows, d) /\ d <= today'
                       /\ p.source = CollectedFrom(p.rows, d)
                       /\ ValidSnapshot(SnapshotOf(p))
    BY DEF PublishedAtOnce
  <2>1. d <= today /\ d \in Int
    BY OpeningAssumption DEF RefreshInv, PublishedAtOnce, Days
  <2>. QED  BY <2>1, <1>1 DEF RefreshInv, PublishedAtOnce
<1>4. CopiedAtOnce'
  <2>. SUFFICES ASSUME NEW d \in Days, NEW copy \in copies[d]
                PROVE  /\ d < today'
                       /\ copy.facts = LoadFacts(copy.rows, d, People)
                       /\ Covered(copy.facts, FactRows(copy.rows, d))
    BY DEF CopiedAtOnce
  <2>1. d < today /\ d \in Int
    BY OpeningAssumption DEF RefreshInv, CopiedAtOnce, Days
  <2>. QED  BY <2>1, <1>1 DEF RefreshInv, CopiedAtOnce
<1>. QED  BY <1>2, <1>3, <1>4 DEF RefreshInv

LEMMA RegisterRowStep ==
    ASSUME RefreshInv, NEW r \in Candidates, RegisterRow(r) PROVE RefreshInv'
<1>1. TableInv' /\ today <= today'
  BY DEF RefreshInv, TableInv, RegisterRow, NoneAfter
<1>. QED  BY <1>1, FactoryStep DEF RegisterRow

LEMMA WithdrawRowStep ==
    ASSUME RefreshInv, NEW r \in Candidates, WithdrawRow(r) PROVE RefreshInv'
<1>1. TableInv' /\ today <= today'
  BY DEF RefreshInv, TableInv, WithdrawRow, NoneAfter
<1>. QED  BY <1>1, FactoryStep DEF WithdrawRow

LEMMA MidnightStep == ASSUME RefreshInv, Midnight PROVE RefreshInv'
<1>1. TableInv' /\ today <= today'
  <2>1. \A r \in table : r.day \in Int
    BY OpeningAssumption DEF RefreshInv, TableInv
  <2>. QED  BY <2>1, OpeningAssumption DEF RefreshInv, TableInv, Midnight, NoneAfter
<1>. QED  BY <1>1, FactoryStep DEF Midnight

\* A step of the task that publishes nothing.
LEMMA CollectingStep ==
    ASSUME RefreshInv, CollectionOk(collection'),
           UNCHANGED <<table, today, published, copies>>
    PROVE  RefreshInv'
BY DEF RefreshInv, TableInv, CollectionOk, PublishedAtOnce, CopiedAtOnce

LEMMA ReadFactsStep == ASSUME RefreshInv, ReadFacts PROVE RefreshInv'
<1>1. collection' = [phase |-> "facts", date |-> today, view |-> table,
                     source |-> FirstRead(table, today)]
  BY DEF ReadFacts, FirstRead
<1>2. /\ today \in Int /\ today <= today /\ table \in SUBSET Candidates
      /\ NoneAfter(table, today)
  BY DEF RefreshInv, TableInv
<1>3. CollectionOk(collection')
  BY <1>1, <1>2 DEF CollectionOk
<1>. QED  BY <1>3, CollectingStep DEF ReadFacts

LEMMA ReadCumulativeStep == ASSUME RefreshInv, ReadCumulative PROVE RefreshInv'
<1>1. /\ collection.phase = "facts"
      /\ collection' = [collection EXCEPT !.phase = "collected",
                           !.source = Completed(collection.source, collection.view)]
      /\ UNCHANGED <<table, today, published, copies>>
  BY DEF ReadCumulative
<1>2. collection # Idle
  BY <1>1 DEF Idle
<1>3. PICK date \in Int, rows \in SUBSET Candidates :
        /\ date <= today /\ NoneAfter(rows, date)
        /\ \/ collection = [phase |-> "facts", date |-> date, view |-> rows,
                            source |-> FirstRead(rows, date)]
           \/ collection = [phase |-> "collected", date |-> date, view |-> rows,
                            source |-> CollectedFrom(rows, date)]
  BY <1>2 DEF RefreshInv, CollectionOk
<1>4. collection = [phase |-> "facts", date |-> date, view |-> rows,
                    source |-> FirstRead(rows, date)]
  BY <1>1, <1>3
<1>5. collection' = [phase |-> "collected", date |-> date, view |-> rows,
                     source |-> CollectedFrom(rows, date)]
  <2>1. Completed(collection.source, collection.view) = CollectedFrom(rows, date)
    BY <1>4 DEF CollectedFrom
  <2>. QED  BY <1>1, <1>4, <2>1
<1>6. CollectionOk(collection')
  BY <1>3, <1>5 DEF CollectionOk
<1>. QED  BY <1>1, <1>6, CollectingStep

LEMMA AbortCollectionStep == ASSUME RefreshInv, AbortCollection PROVE RefreshInv'
<1>1. CollectionOk(collection')
  BY DEF AbortCollection, CollectionOk
<1>. QED  BY <1>1, CollectingStep DEF AbortCollection

LEMMA BuildAndPublishStep == ASSUME RefreshInv, BuildAndPublish PROVE RefreshInv'
<1>. DEFINE date == collection.date
            month == MonthlyStats(collection.source, table, monthly[date], MonthStart)
            built == [rows |-> collection.view, source |-> collection.source,
                      monthly |-> month]
<1>1. /\ collection.phase = "collected" /\ collection' = Idle
      /\ published' = IF ValidSnapshot(SnapshotOf(built)) /\ today = date
                      THEN [published EXCEPT ![date] = {built}] ELSE published
      /\ UNCHANGED <<table, today, copies>>
  <2>1. /\ refused' = {} <=> ValidSnapshot(SnapshotOf(built))
        /\ published' = IF refused' = {} /\ today = date
                        THEN [published EXCEPT ![date] = {built}] ELSE published
    BY DEF BuildAndPublish
  <2>. QED  BY <2>1 DEF BuildAndPublish
<1>2. collection # Idle
  BY <1>1 DEF Idle
<1>3. PICK day \in Int, rows \in SUBSET Candidates :
        /\ day <= today /\ NoneAfter(rows, day)
        /\ \/ collection = [phase |-> "facts", date |-> day, view |-> rows,
                            source |-> FirstRead(rows, day)]
           \/ collection = [phase |-> "collected", date |-> day, view |-> rows,
                            source |-> CollectedFrom(rows, day)]
  BY <1>2 DEF RefreshInv, CollectionOk
<1>. HIDE DEF month
<1>4. /\ collection.date = day /\ collection.view = rows
      /\ collection.source = CollectedFrom(rows, day)
  BY <1>1, <1>3
<1>5. built = [rows |-> rows, source |-> CollectedFrom(rows, day), monthly |-> month]
  BY <1>4
<1>. HIDE DEF built
<1>6. built.rows = rows /\ built.source = CollectedFrom(rows, day)
  BY <1>4, <1>5
<1>. HIDE DEF date
<1>7. TableInv' /\ CollectionOk(collection)'
  BY <1>1 DEF RefreshInv, TableInv, CollectionOk
<1>8. DOMAIN published' = Days /\ PublishedAtOnce'
  <2>1. DOMAIN published' = Days
    BY <1>1 DEF RefreshInv
  <2>. SUFFICES ASSUME NEW d \in Days, NEW p \in published'[d]
                PROVE  /\ p.rows \subseteq Candidates /\ NoneAfter(p.rows, d) /\ d <= today
                       /\ p.source = CollectedFrom(p.rows, d)
                       /\ ValidSnapshot(SnapshotOf(p))
    BY <1>1, <2>1 DEF PublishedAtOnce
  <2>2. CASE p \in published[d]
    BY <2>2 DEF RefreshInv, PublishedAtOnce
  <2>3. CASE p \notin published[d]
    <3>1. p = built /\ d = date /\ ValidSnapshot(SnapshotOf(built))
      BY <1>1, <2>3 DEF RefreshInv
    <3>2. d = day
      BY <3>1, <1>4 DEF date
    <3>. QED  BY <3>1, <3>2, <1>3, <1>6
  <2>. QED  BY <2>2, <2>3
<1>9. DOMAIN copies' = Days /\ CopiedAtOnce'
  <2>1. UNCHANGED <<today, copies>>
    BY <1>1
  <2>. QED  BY <2>1 DEF RefreshInv, CopiedAtOnce
<1>. QED  BY <1>7, <1>8, <1>9 DEF RefreshInv

LEMMA CopyDayStep == ASSUME RefreshInv, NEW day \in Days, CopyDay(day) PROVE RefreshInv'
<1>. DEFINE facts == LoadFacts(table, day, People)
            meta == LoadMetadata(facts, StepTable, Styles, Catalog)
            new == [rows |-> table, facts |-> facts, snapshots |-> meta]
<1>1. /\ day < today /\ Covered(facts, FactRows(table, day))
      /\ copies' = [copies EXCEPT ![day] = {new}]
      /\ UNCHANGED <<table, today, collection, published>>
  BY DEF CopyDay
<1>. HIDE DEF meta
<1>2. new.rows = table /\ new.facts = facts
  OBVIOUS
<1>. HIDE DEF new
<1>3. TableInv' /\ CollectionOk(collection)' /\ PublishedAtOnce'
  BY <1>1 DEF RefreshInv, TableInv, CollectionOk, PublishedAtOnce
<1>4. DOMAIN copies' = Days /\ DOMAIN published' = Days
  BY <1>1 DEF RefreshInv
<1>5. CopiedAtOnce'
  <2>. SUFFICES ASSUME NEW d \in Days, NEW copy \in copies'[d]
                PROVE  /\ d < today
                       /\ copy.facts = LoadFacts(copy.rows, d, People)
                       /\ Covered(copy.facts, FactRows(copy.rows, d))
    BY <1>1 DEF CopiedAtOnce
  <2>1. CASE copy \in copies[d]
    BY <2>1 DEF RefreshInv, CopiedAtOnce
  <2>2. CASE copy \notin copies[d]
    <3>1. d = day /\ copy = new
      BY <1>1, <2>2 DEF RefreshInv
    <3>. QED  BY <3>1, <1>1, <1>2
  <2>. QED  BY <2>1, <2>2
<1>. QED  BY <1>3, <1>4, <1>5 DEF RefreshInv

LEMMA RefreshStepHolds == RefreshInv /\ [RefreshNext]_refreshVars => RefreshInv'
<1>. SUFFICES ASSUME RefreshInv, [RefreshNext]_refreshVars PROVE RefreshInv'
  OBVIOUS
<1>1. CASE UNCHANGED refreshVars
  <2>1. /\ UNCHANGED <<table, today, published, copies>>
        /\ collection' = collection
    BY <1>1 DEF refreshVars
  <2>2. CollectionOk(collection')
    BY <2>1 DEF RefreshInv
  <2>. QED  BY <2>1, <2>2, CollectingStep
<1>. QED  BY <1>1, RegisterRowStep, WithdrawRowStep, MidnightStep, ReadFactsStep,
             ReadCumulativeStep, AbortCollectionStep, BuildAndPublishStep, CopyDayStep
          DEF RefreshNext

LEMMA RefreshInvariance == RefreshSpec => []RefreshInv
BY RefreshInitHolds, RefreshStepHolds, PTL DEF RefreshSpec

(* However the factory changes its rows between the reads of a collection, *)
(* what is published of a day is one function of the rows of one instant,  *)
(* none of them of a later day, and has passed validation (the transaction *)
(* in ReadModelFactSource.collect and sync_dashboard_stats).               *)
THEOREM PublishedIsOneInstant == RefreshSpec => []PublishedAtOnce
BY RefreshInvariance, PTL DEF RefreshInv

(* The history of a day that was copied of the rows its last snapshot was  *)
(* published of holds the facts of that snapshot, each with the number     *)
(* that the snapshot gives its employee, but for employees without a       *)
(* number; these are few enough for what validation asks.  Two programs    *)
(* read the facts, hours apart (ReadModelFactSource.collect, and           *)
(* RemoteHistorySource.load in history_store.py).                          *)
THEOREM HistoryCoversPublished == RefreshSpec => []HistoryCoversTheDay
<1>1. RefreshInv => HistoryCoversTheDay
  <2>. SUFFICES ASSUME RefreshInv, NEW d \in Days, NEW pub \in published[d],
                       NEW copy \in copies[d], copy.rows = pub.rows
                PROVE  /\ copy.facts = Numbered(pub.source)
                       /\ Covered(copy.facts, pub.source.facts)
    BY DEF HistoryCoversTheDay
  <2>1. pub.source = CollectedFrom(pub.rows, d)
    BY DEF RefreshInv, PublishedAtOnce
  <2>2. /\ pub.source.facts = FactRows(pub.rows, d)
        /\ pub.source.remarks = EmployeeRemarkMap(People, pub.rows)
    BY <2>1 DEF CollectedFrom, Completed, FirstRead
  <2>3. /\ copy.facts = LoadFacts(pub.rows, d, People)
        /\ Covered(copy.facts, FactRows(pub.rows, d))
    BY DEF RefreshInv, CopiedAtOnce
  <2>4. copy.facts = Numbered(pub.source)
    BY <2>2, <2>3 DEF Numbered, LoadFacts
  <2>. QED  BY <2>2, <2>3, <2>4
<1>. QED  BY <1>1, RefreshInvariance, PTL
=============================================================================
