------------------------ MODULE AnniversaryJobProofs ------------------------
(***************************************************************************)
(* Theorems about AnniversaryJob for any runs, events, types, tokens and   *)
(* days.  A run at work holds the lock, unless the lock of a run of its    *)
(* day dropped (WorkersHold); while it does, nobody else writes the log,   *)
(* so that what its dedup SELECT found still holds when it pushes          *)
(* (DedupHolds).                                                           *)
(***************************************************************************)
EXTENDS AnniversaryJob, TLAPS

\* A lock held by a run that is at work, and by no other.
WorkersHold == \A r \in Runs : Working(r) => lock = r \/ today[r] \in dropped

DedupHolds ==
    \A r \in Runs : AtItem(r) /\ today[r] \notin dropped => Key(r) \notin log

\* The row of e as it is now.
Row(e) == [id |-> e, event |-> events[e]]

\* What becomes of a due row that nobody has edited since run r began to read.
Followed(r, e) ==
    \/ Row(e) \in todo[r]
    \/ item[r] = Row(e)
    \/ KeyOf(Row(e), today[r]) \in log \cup failed[r]

NothingDueIsMissed ==
    \A r \in Runs, e \in Events :
        /\ e \notin touched[r]
        /\ IsDue(events[e], today[r])
        => /\ pc[r] = "lunar" /\ events[e].calendar = "solar" => Row(e) \in todo[r]
           /\ pc[r] \in {"next", "push", "record"} => Followed(r, e)

IInv ==
    /\ TypeOK
    /\ LockNeverLeaks
    /\ WorkersHold
    /\ DedupHolds
    /\ PushIsAccounted
    /\ NothingDueIsMissed

-----------------------------------------------------------------------------
LEMMA InitInv == Init => IInv
BY AnniversaryAssumption
   DEF Init, IInv, TypeOK, Labels, Days, LockNeverLeaks, WorkersHold, DedupHolds, Working, AtItem,
       PushIsAccounted, NothingDueIsMissed

-----------------------------------------------------------------------------
(* Types *)

\* A row read on a day of the clock has a key.
LEMMA KeysOfItems ==
    ASSUME NEW i \in Item, NEW d \in Days
    PROVE  KeyOf(i, d) \in Keys
BY DEF KeyOf, Item, Event, Keys

LEMMA TypeStep == TypeOK /\ [Next]_vars => TypeOK'
<1> SUFFICES ASSUME TypeOK, [Next]_vars PROVE TypeOK'
  OBVIOUS
<1> USE DEF TypeOK, world, local, history, Labels, Fault, Unlock, Forget
<1>1. ASSUME NEW r \in Runs, AtItem(r)
      PROVE  item[r] \in Item /\ Key(r) \in Keys
  BY <1>1, KeysOfItems DEF AtItem, Key
<1>2. 1 \in Days
  BY AnniversaryAssumption DEF Days
<1>3. ASSUME NEW r \in Runs
      PROVE  Unrecorded(r) \subseteq Keys
  BY <1>1 DEF Unrecorded, AtItem
<1>4. ASSUME NEW r \in Runs, NEW calendars
      PROVE  Read(r, calendars) \subseteq Item
  BY DEF Read
<1>5. ASSUME NEW r \in Runs, Begin(r) PROVE TypeOK'
  BY <1>5 DEF Begin
<1>6. ASSUME NEW r \in Runs, TryLock(r) PROVE TypeOK'
  BY <1>2, <1>6 DEF TryLock
<1>7. ASSUME NEW r \in Runs, ReadSolar(r) PROVE TypeOK'
  BY <1>4, <1>7 DEF ReadSolar
<1>8. ASSUME NEW r \in Runs, ReadLunar(r) PROVE TypeOK'
  BY <1>4, <1>8 DEF ReadLunar
<1>9. ASSUME NEW r \in Runs, NEW i \in todo[r], Raise(r, i) PROVE TypeOK'
  BY <1>9 DEF Raise
<1>10. ASSUME NEW r \in Runs, NEW i \in todo[r], Take(r, i) PROVE TypeOK'
  BY <1>10, AnniversaryAssumption DEF Take
<1>11. ASSUME NEW r \in Runs, Push(r) PROVE TypeOK'
  <2>1. Key(r) \in Keys
    BY <1>1, <1>11 DEF Push, AtItem
  <2> QED
    BY <2>1, <1>11 DEF Push
<1>12. ASSUME NEW r \in Runs, Record(r) PROVE TypeOK'
  <2>1. Key(r) \in Keys
    BY <1>1, <1>12 DEF Record, AtItem
  <2> QED
    BY <2>1, <1>12 DEF Record
<1>13. ASSUME NEW r \in Runs, Fail(r) PROVE TypeOK'
  <2>1. faults' \in 0..MaxFaults
    BY <1>13, AnniversaryAssumption DEF Fail
  <2> QED
    BY <2>1, <1>1, <1>3, <1>13 DEF Fail
<1>14. ASSUME NEW r \in Runs, End(r) PROVE TypeOK'
  BY <1>2, <1>14 DEF End
<1>15. ASSUME NEW r \in Runs, Die(r) PROVE TypeOK'
  <2>1. faults' \in 0..MaxFaults
    BY <1>15, AnniversaryAssumption DEF Die
  <2> QED
    BY <2>1, <1>2, <1>3, <1>15 DEF Die
<1>16. ASSUME NEW r \in Runs, DropLock(r) PROVE TypeOK'
  <2>1. faults' \in 0..MaxFaults
    BY <1>16, AnniversaryAssumption DEF DropLock
  <2> QED
    BY <2>1, <1>16 DEF DropLock
<1>17. ASSUME NEW e \in Events, NEW v \in Event, Edit(e, v) PROVE TypeOK'
  <2>1. edits' \in 0..MaxEdits
    BY <1>17, AnniversaryAssumption DEF Edit
  <2> QED
    BY <2>1, <1>17 DEF Edit
<1>18. ASSUME NextDay PROVE TypeOK'
  BY <1>18, AnniversaryAssumption DEF NextDay, Days
<1>19. CASE UNCHANGED vars
  BY <1>19 DEF vars
<1> QED
  BY <1>5, <1>6, <1>7, <1>8, <1>9, <1>10, <1>11, <1>12, <1>13, <1>14, <1>15, <1>16, <1>17, <1>18, <1>19 DEF Next, Work

-----------------------------------------------------------------------------
(* The lock and the log *)

LEMMA LockStep == IInv /\ [Next]_vars => LockNeverLeaks' /\ WorkersHold'
<1> SUFFICES ASSUME IInv, [Next]_vars PROVE LockNeverLeaks' /\ WorkersHold'
  OBVIOUS
<1> USE AnniversaryAssumption
    DEF IInv, TypeOK, LockNeverLeaks, WorkersHold, Working, Labels, world, local, history, Unlock,
        Forget
<1>1. ASSUME NEW r \in Runs, Begin(r) PROVE LockNeverLeaks' /\ WorkersHold'
  BY <1>1 DEF Begin
<1>2. ASSUME NEW r \in Runs, TryLock(r) PROVE LockNeverLeaks' /\ WorkersHold'
  BY <1>2 DEF TryLock
<1>3. ASSUME NEW r \in Runs, ReadSolar(r) \/ ReadLunar(r) PROVE LockNeverLeaks' /\ WorkersHold'
  BY <1>3 DEF ReadSolar, ReadLunar
<1>4. ASSUME NEW r \in Runs, NEW i \in todo[r], Raise(r, i) \/ Take(r, i)
      PROVE  LockNeverLeaks' /\ WorkersHold'
  BY <1>4 DEF Raise, Take
<1>5. ASSUME NEW r \in Runs, Push(r) \/ Record(r) \/ Fail(r) PROVE LockNeverLeaks' /\ WorkersHold'
  BY <1>5 DEF Push, Record, Fail, AtItem
<1>6. ASSUME NEW r \in Runs, End(r) \/ Die(r) PROVE LockNeverLeaks' /\ WorkersHold'
  BY <1>6 DEF End, Die
<1>7. ASSUME NEW r \in Runs, DropLock(r) PROVE LockNeverLeaks' /\ WorkersHold'
  BY <1>7 DEF DropLock
<1>8. ASSUME NEW e \in Events, NEW v \in Event, Edit(e, v) PROVE LockNeverLeaks' /\ WorkersHold'
  BY <1>8 DEF Edit
<1>9. CASE NextDay
  BY <1>9 DEF NextDay
<1>10. CASE UNCHANGED vars
  BY <1>10 DEF vars
<1> QED
  BY <1>1, <1>2, <1>3, <1>4, <1>5, <1>6, <1>7, <1>8, <1>9, <1>10 DEF Next, Work

\* Two runs of one day are at work only when the lock of one of that day dropped.
LEMMA OneAtWork ==
    ASSUME WorkersHold,
           NEW q \in Runs, Working(q),
           NEW r \in Runs, Working(r),
           today[q] = today[r], today[r] \notin dropped
    PROVE  q = r
BY DEF WorkersHold

\* The key of a run names its day.
LEMMA KeyNamesDay ==
    ASSUME NEW q \in Runs, NEW r \in Runs, Key(q) = Key(r)
    PROVE  today[q] = today[r]
BY DEF Key, KeyOf

LEMMA DedupStep == IInv /\ [Next]_vars => DedupHolds'
<1> SUFFICES ASSUME IInv, [Next]_vars PROVE DedupHolds'
  OBVIOUS
<1> USE AnniversaryAssumption
    DEF IInv, TypeOK, DedupHolds, AtItem, Labels, world, local, history, Unlock, Forget, Key, KeyOf
<1>1. ASSUME NEW r \in Runs, Begin(r) \/ TryLock(r) \/ ReadSolar(r) \/ ReadLunar(r)
      PROVE  DedupHolds'
  BY <1>1 DEF Begin, TryLock, ReadSolar, ReadLunar
<1>2. ASSUME NEW r \in Runs, NEW i \in todo[r], Raise(r, i) \/ Take(r, i)
      PROVE  DedupHolds'
  BY <1>2 DEF Raise, Take
<1>3. ASSUME NEW r \in Runs, Push(r) \/ Fail(r) PROVE DedupHolds'
  BY <1>3 DEF Push, Fail
<1>4. ASSUME NEW r \in Runs, Record(r) PROVE DedupHolds'
  <2>1. ASSUME NEW q \in Runs, AtItem(q)', today'[q] \notin dropped'
        PROVE  Key(q)' \notin log'
    <3>1. q # r /\ AtItem(q) /\ today[q] \notin dropped /\ Key(q)' = Key(q)
      BY <1>4, <2>1 DEF Record
    <3>2. Key(q) # Key(r)
      BY <1>4, <3>1, OneAtWork, KeyNamesDay DEF Record, Working
    <3> QED
      BY <1>4, <3>1, <3>2 DEF Record
  <2> QED
    BY <2>1
<1>5. ASSUME NEW r \in Runs, End(r) \/ Die(r) \/ DropLock(r) PROVE DedupHolds'
  BY <1>5 DEF End, Die, DropLock
<1>6. ASSUME NEW e \in Events, NEW v \in Event, Edit(e, v) PROVE DedupHolds'
  BY <1>6 DEF Edit
<1>7. CASE NextDay \/ UNCHANGED vars
  BY <1>7 DEF NextDay, vars
<1> QED
  BY <1>1, <1>2, <1>3, <1>4, <1>5, <1>6, <1>7 DEF Next, Work

LEMMA PushStep == IInv /\ [Next]_vars => PushIsAccounted'
<1> SUFFICES ASSUME IInv, [Next]_vars, NEW k \in pushed'
             PROVE  \/ k \in log'
                    \/ k \in lost'
                    \/ \E r \in Runs : pc'[r] = "record" /\ Key(r)' = k
  BY DEF PushIsAccounted
<1> USE AnniversaryAssumption
    DEF IInv, TypeOK, PushIsAccounted, Labels, world, local, history, Unlock, Forget
<1> DEFINE Goal == \/ k \in log'
                   \/ k \in lost'
                   \/ \E r \in Runs : pc'[r] = "record" /\ Key(r)' = k
<1>1. ASSUME NEW r \in Runs, Begin(r) \/ TryLock(r) \/ ReadSolar(r) \/ ReadLunar(r)
      PROVE  Goal
  BY <1>1 DEF Begin, TryLock, ReadSolar, ReadLunar, Key, KeyOf
<1>2. ASSUME NEW r \in Runs, NEW i \in todo[r], Raise(r, i) \/ Take(r, i)
      PROVE  Goal
  BY <1>2 DEF Raise, Take, Key, KeyOf
<1>3. ASSUME NEW r \in Runs, Push(r) PROVE Goal
  <2>1. \A q \in Runs : Key(q)' = Key(q)
    BY <1>3 DEF Push, Key, KeyOf
  <2>2. k \in pushed \/ k = Key(r)
    BY <1>3 DEF Push
  <2> QED
    BY <1>3, <2>1, <2>2 DEF Push
<1>4. ASSUME NEW r \in Runs, Record(r) \/ Fail(r) \/ End(r) \/ Die(r) PROVE Goal
  <2>1. k \in pushed /\ log \subseteq log' /\ lost \subseteq lost'
    BY <1>4 DEF Record, Fail, End, Die
  <2>2. \A q \in Runs \ {r} : pc'[q] = pc[q] /\ Key(q)' = Key(q)
    BY <1>4 DEF Record, Fail, End, Die, Key, KeyOf
  <2>3. pc[r] = "record" /\ Key(r) \in pushed => Key(r) \in log' \/ Key(r) \in lost'
    BY <1>4 DEF Record, Fail, End, Die, Unrecorded
  <2> QED
    BY <2>1, <2>2, <2>3
<1>5. ASSUME NEW r \in Runs, DropLock(r) PROVE Goal
  BY <1>5 DEF DropLock, Key, KeyOf
<1>6. ASSUME NEW e \in Events, NEW v \in Event, Edit(e, v) PROVE Goal
  BY <1>6 DEF Edit, Key, KeyOf
<1>7. CASE NextDay \/ UNCHANGED vars
  BY <1>7 DEF NextDay, vars, Key, KeyOf
<1> QED
  BY <1>1, <1>2, <1>3, <1>4, <1>5, <1>6, <1>7 DEF Next, Work

-----------------------------------------------------------------------------
(* What a run reads it works through *)

LEMMA Rows ==
    ASSUME TypeOK, NEW e \in Events
    PROVE  Row(e) \in Item /\ Row(e).id = e /\ Row(e).event = events[e] /\ events[e] \in Event
BY DEF TypeOK, Row, Item

LEMMA MissedStep == IInv /\ [Next]_vars => NothingDueIsMissed'
<1> SUFFICES ASSUME IInv, [Next]_vars,
                    NEW q \in Runs, NEW e \in Events,
                    e \notin touched'[q], IsDue(events'[e], today'[q])
             PROVE  /\ pc'[q] = "lunar" /\ events'[e].calendar = "solar" => Row(e)' \in todo'[q]
                    /\ pc'[q] \in {"next", "push", "record"} => Followed(q, e)'
  BY DEF NothingDueIsMissed, IsDue
<1> DEFINE Goal == /\ pc'[q] = "lunar" /\ events'[e].calendar = "solar" => Row(e)' \in todo'[q]
                   /\ pc'[q] \in {"next", "push", "record"} => Followed(q, e)'
<1> USE DEF IInv, TypeOK, NothingDueIsMissed, Labels, world, local, history, Unlock, Forget
<1>1. /\ Row(e) \in Item
      /\ Row(e).id = e
      /\ Row(e).event = events[e]
      /\ events[e] \in Event
  BY Rows
<1>2. ASSUME NEW r \in Runs, Begin(r) \/ TryLock(r) PROVE Goal
  BY <1>2 DEF Begin, TryLock, Row, Followed, KeyOf, IsDue
<1>3. ASSUME NEW r \in Runs, ReadSolar(r) PROVE Goal
  <2>1. CASE q = r
    BY <1>1, <1>3, <2>1 DEF ReadSolar, Read, Row, IsDue
  <2>2. CASE q # r
    BY <1>3, <2>2 DEF ReadSolar, Row, Followed, KeyOf, IsDue
  <2> QED
    BY <2>1, <2>2
<1>4. ASSUME NEW r \in Runs, ReadLunar(r) PROVE Goal
  <2>1. CASE q = r
    <3>1. Row(e)' = Row(e) /\ IsDue(events[e], today[r]) /\ e \notin touched[r]
      BY <1>4, <2>1 DEF ReadLunar, Row
    <3>2. events[e].calendar = "solar" => Row(e) \in todo[r]
      BY <1>4, <3>1 DEF ReadLunar
    <3>3. events[e].calendar = "lunar" => Row(e) \in Read(r, {"lunar", "broken"})
      BY <1>1, <3>1 DEF Read
    <3>4. events[e].calendar \in {"solar", "lunar"}
      BY <1>1, <3>1 DEF IsDue, Event
    <3> QED
      BY <1>4, <2>1, <3>1, <3>2, <3>3, <3>4 DEF ReadLunar, Followed
  <2>2. CASE q # r
    BY <1>4, <2>2 DEF ReadLunar, Row, Followed, KeyOf, IsDue
  <2> QED
    BY <2>1, <2>2
<1>5. ASSUME NEW r \in Runs, NEW i \in todo[r], Raise(r, i) PROVE Goal
  <2>1. Row(e)' = Row(e) /\ IsDue(events[e], today[q]) /\ e \notin touched[q]
    BY <1>5 DEF Raise, Row
  <2>2. i # Row(e)
    BY <1>1, <1>5, <2>1 DEF Raise, IsDue
  <2> QED
    BY <1>5, <2>1, <2>2 DEF Raise, Followed, KeyOf
<1>6. ASSUME NEW r \in Runs, NEW i \in todo[r], Take(r, i) PROVE Goal
  <2>1. /\ Row(e)' = Row(e)
        /\ IsDue(events[e], today[q])
        /\ e \notin touched[q]
        /\ KeyOf(Row(e), today[q])' = KeyOf(Row(e), today[q])
    BY <1>6 DEF Take, Row, KeyOf
  <2>2. CASE q = r
    <3>1. pc[r] = "next" /\ Followed(r, e) /\ item[r] = NoItem
      BY <1>6, <2>1, <2>2 DEF Take
    <3>2. item[r] # Row(e)
      BY <1>1, <3>1, AnniversaryAssumption
    <3>3. CASE i = Row(e)
      BY <1>6, <2>1, <2>2, <3>3 DEF Take, Followed
    <3>4. CASE i # Row(e)
      BY <1>6, <2>1, <2>2, <3>1, <3>2, <3>4 DEF Take, Followed
    <3> QED
      BY <3>3, <3>4
  <2>3. CASE q # r
    BY <1>6, <2>1, <2>3 DEF Take, Followed
  <2> QED
    BY <2>2, <2>3
<1>7. ASSUME NEW r \in Runs, Push(r) PROVE Goal
  BY <1>7 DEF Push, Row, Followed, KeyOf
<1>8. ASSUME NEW r \in Runs, Record(r) \/ Fail(r) PROVE Goal
  <2>1. /\ Row(e)' = Row(e)
        /\ IsDue(events[e], today[q])
        /\ e \notin touched[q]
        /\ KeyOf(Row(e), today[q])' = KeyOf(Row(e), today[q])
    BY <1>8 DEF Record, Fail, Row, KeyOf
  <2>2. /\ log \subseteq log'
        /\ failed[q] \subseteq failed'[q]
        /\ todo' = todo
        /\ events' = events
        /\ \A p \in Runs \ {r} : pc'[p] = pc[p] /\ item'[p] = item[p]
        /\ Key(r) \in log' \cup failed'[r]
    BY <1>8 DEF Record, Fail
  <2>3. CASE q = r
    <3>1. Followed(r, e)
      BY <1>8, <2>1, <2>3 DEF Record, Fail, AtItem
    <3>2. item[r] = Row(e) => Key(r) = KeyOf(Row(e), today[r])
      BY DEF Key
    <3>3. pc'[r] = "next"
      BY <1>8 DEF Record, Fail
    <3>4. CASE Row(e) \in todo[r]
      BY <2>1, <2>2, <2>3, <3>3, <3>4 DEF Followed
    <3>5. CASE item[r] = Row(e)
      <4>1. KeyOf(Row(e), today[q])' \in log' \cup failed'[q]
        BY <2>1, <2>2, <2>3, <3>2, <3>5
      <4> QED
        BY <2>3, <3>3, <4>1 DEF Followed
    <3>6. CASE KeyOf(Row(e), today[r]) \in log \cup failed[r]
      <4>1. KeyOf(Row(e), today[q])' \in log' \cup failed'[q]
        BY <2>1, <2>2, <2>3, <3>6
      <4> QED
        BY <2>3, <3>3, <4>1 DEF Followed
    <3>7. \/ Row(e) \in todo[r]
          \/ item[r] = Row(e)
          \/ KeyOf(Row(e), today[r]) \in log \cup failed[r]
      BY <3>1 DEF Followed
    <3> HIDE DEF Goal
    <3> QED
      BY <3>4, <3>5, <3>6, <3>7
  <2>4. CASE q # r
    <3>1. pc'[q] \in {"next", "push", "record"} => Followed(q, e)
      BY <2>1, <2>2, <2>4
    <3>2. Followed(q, e) => Followed(q, e)'
      BY <2>1, <2>2, <2>4 DEF Followed
    <3>3. pc'[q] = "lunar" /\ events'[e].calendar = "solar" => Row(e)' \in todo'[q]
      BY <2>1, <2>2, <2>4
    <3> QED
      BY <3>1, <3>2, <3>3
  <2> QED
    BY <2>3, <2>4
<1>9. ASSUME NEW r \in Runs, End(r) \/ Die(r) PROVE Goal
  BY <1>9 DEF End, Die, Row, Followed, KeyOf
<1>10. ASSUME NEW r \in Runs, DropLock(r) PROVE Goal
  BY <1>10 DEF DropLock, Row, Followed, KeyOf
<1>11. ASSUME NEW f \in Events, NEW v \in Event, Edit(f, v) PROVE Goal
  <2>1. CASE pc'[q] \in {"lunar", "next", "push", "record"}
    <3>1. e # f /\ e \notin touched[q]
      BY <1>11, <2>1 DEF Edit, Working
    <3> QED
      BY <1>11, <3>1 DEF Edit, Row, Followed, KeyOf
  <2>2. CASE pc'[q] \notin {"lunar", "next", "push", "record"}
    BY <2>2
  <2> QED
    BY <2>1, <2>2
<1>12. CASE NextDay \/ UNCHANGED vars
  BY <1>12 DEF NextDay, vars, Row, Followed, KeyOf
<1> QED
  BY <1>2, <1>3, <1>4, <1>5, <1>6, <1>7, <1>8, <1>9, <1>10, <1>11, <1>12 DEF Next, Work

LEMMA Step == IInv /\ [Next]_vars => IInv'
BY TypeStep, LockStep, DedupStep, PushStep, MissedStep DEF IInv

-----------------------------------------------------------------------------
(* Theorems *)

\* The invariant is inductive for any runs, events, types and tokens.
THEOREM Inductive == Spec => []IInv
<1> QED
  BY InitInv, Step, PTL DEF Spec

\* Every variable keeps its type, and a run is at a row exactly while it pushes
\* and records it.
THEOREM TypesHold == Spec => []TypeOK
<1>1. IInv => TypeOK
  BY DEF IInv
<1> QED
  BY <1>1, Inductive, PTL

\* Whoever has the lock is at work: no death and no lost connection leaves it
\* behind.
THEOREM NoLeak == Spec => []LockNeverLeaks
<1>1. IInv => LockNeverLeaks
  BY DEF IInv
<1> QED
  BY <1>1, Inductive, PTL

\* What was pushed is in the log, about to be, or was lost with a run or an event
\* that failed.
THEOREM PushesAreAccounted == Spec => []PushIsAccounted
<1>1. IInv => PushIsAccounted
  BY DEF IInv
<1> QED
  BY <1>1, Inductive, PTL

\* No event is announced twice on one day, unless a record was lost or the lock of
\* a run of that day dropped.
THEOREM OncePerDay == Spec => NoSecondPush
<1> DEFINE P == \A r \in Runs :
                  /\ pc[r] = "push" /\ pc'[r] = "record"
                  /\ Key(r) \in pushed
                  /\ today[r] \notin dropped
                  => Key(r) \in lost
<1>1. IInv => P
  <2> SUFFICES ASSUME IInv,
                      NEW r \in Runs, pc[r] = "push", Key(r) \in pushed, today[r] \notin dropped
               PROVE  Key(r) \in lost
    OBVIOUS
  <2>1. Key(r) \notin log
    BY DEF IInv, DedupHolds, AtItem
  <2>2. ASSUME NEW q \in Runs, pc[q] = "record", Key(q) = Key(r)
        PROVE  FALSE
    BY <2>2, OneAtWork, KeyNamesDay DEF IInv, Working
  <2> QED
    BY <2>1, <2>2 DEF IInv, PushIsAccounted
<1>2. IInv /\ [Next]_vars => [P]_vars
  BY <1>1
<1> QED
  BY <1>2, Inductive, PTL DEF Spec, NoSecondPush

\* A run that ends has recorded every event that was due and unedited, but for
\* those that failed themselves.
THEOREM EndsComplete == Spec => EndLeavesNothingDue
<1> DEFINE P == \A r \in Runs : End(r) =>
                  \A e \in Events \ touched[r] :
                      LET k == <<e, events[e].type, today[r]>> IN
                      IsDue(events[e], today[r]) => k \in log \/ k \in failed[r]
<1>1. IInv => P
  <2> SUFFICES ASSUME IInv,
                      NEW r \in Runs, End(r),
                      NEW e \in Events \ touched[r], IsDue(events[e], today[r])
               PROVE  <<e, events[e].type, today[r]>> \in log \cup failed[r]
    OBVIOUS
  <2>1. pc[r] = "next" /\ todo[r] = {}
    BY DEF End
  <2>2. Followed(r, e)
    BY <2>1 DEF IInv, NothingDueIsMissed
  <2>3. item[r] # Row(e)
    BY <2>1, Rows, AnniversaryAssumption DEF IInv, TypeOK
  <2>4. KeyOf(Row(e), today[r]) = <<e, events[e].type, today[r]>>
    BY DEF KeyOf, Row
  <2> QED
    BY <2>1, <2>2, <2>3, <2>4 DEF Followed
<1>2. IInv /\ [Next]_vars => [P]_vars
  BY <1>1
<1> QED
  BY <1>2, Inductive, PTL DEF Spec, EndLeavesNothingDue
=============================================================================
