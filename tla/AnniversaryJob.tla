--------------------------- MODULE AnniversaryJob ---------------------------
(***************************************************************************)
(* The daily job that announces anniversaries: runs of                     *)
(* send_anniversary_notifications, started by the scheduler of each        *)
(* instance or by a cron call that may come twice, over the events, the    *)
(* device tokens and the notification log of one clan.                     *)
(*                                                                         *)
(* A run holds an advisory lock in a transaction of a connection of its    *)
(* own and works, event by event, on another one.  A push cannot be taken  *)
(* back; its record in the log is what keeps the next run from repeating   *)
(* it.  A process may die between the two, and the connection that holds   *)
(* the lock may drop while the work goes on.                               *)
(*                                                                         *)
(* The log is its dedup key; the status and the text of a record are       *)
(* written and never read.  The members of the clan are left out.          *)
(***************************************************************************)
EXTENDS Naturals

CONSTANTS
    Runs,     \* processes that may run the job
    NoRun,
    Events,   \* ids of events
    Types,    \* values of event_type
    NoItem,
    Tokens,   \* device tokens
    MaxDay,   \* the clock stops there
    MaxEdits, \* edits of events, in all
    MaxFaults \* failed statements, deaths and lost connections, in all

Days == 1..MaxDay

\* What the job reads of an event: its type, its calendar ("broken" stands for a
\* lunar date that next_lunar_anniversary raises on) and the day from which the
\* next occurrence is notify_days_before away: 0, none the clock comes to, also
\* for an event that is deleted, does not recur, has no exact date or whose person
\* is deleted.
Event == [type     : Types,
          calendar : {"solar", "lunar", "broken"},
          due      : 0..MaxDay]

Item == [id : Events, event : Event]

ASSUME AnniversaryAssumption ==
    /\ MaxDay \in Nat \ {0}
    /\ MaxEdits \in Nat
    /\ MaxFaults \in Nat
    /\ NoRun \notin Runs
    /\ NoItem \notin Item

VARIABLES
    day,      \* the date in SCHEDULER_TIMEZONE
    events,
    edits,
    faults,
    tokens,   \* rows of user_fcm_tokens
    log,      \* (event_id, notification_type, sent_on) of notification_log
    lock,     \* the run that holds _JOB_LOCK_KEY
    \* one run
    pc,
    today,
    todo,     \* the rows it has read and not come to yet
    item,     \* the row it is at
    gone,     \* the tokens its open transaction has deleted
    \* history
    pushed,   \* keys of which a device has got a message
    lost,     \* those of them whose record was not written
    dropped,  \* days of the runs whose lock ended before them
    touched,  \* events edited since the run began to read
    failed    \* keys of the events that failed in the run

world   == <<day, events, edits>>
local   == <<today, todo, item, gone>>
history == <<pushed, lost, dropped, touched, failed>>

vars == <<world, faults, tokens, log, lock, pc, local, history>>

-----------------------------------------------------------------------------
(* Types *)

Keys == Events \X Types \X Days

Labels == {"idle", "lock", "solar", "lunar", "next", "push", "record"}

TypeOK ==
    /\ day \in Days
    /\ events \in [Events -> Event]
    /\ edits \in 0..MaxEdits
    /\ faults \in 0..MaxFaults
    /\ tokens \subseteq Tokens
    /\ log \subseteq Keys
    /\ lock \in Runs \cup {NoRun}
    /\ pc \in [Runs -> Labels]
    /\ today \in [Runs -> Days]
    /\ todo \in [Runs -> SUBSET Item]
    /\ item \in [Runs -> Item \cup {NoItem}]
    /\ gone \in [Runs -> SUBSET Tokens]
    /\ pushed \subseteq Keys
    /\ lost \subseteq Keys
    /\ dropped \subseteq Days
    /\ touched \in [Runs -> SUBSET Events]
    /\ failed \in [Runs -> SUBSET Keys]
    /\ \A r \in Runs : item[r] # NoItem <=> pc[r] \in {"push", "record"}

Init ==
    /\ day = 1
    /\ events \in [Events -> Event]
    /\ edits = 0
    /\ faults = 0
    /\ tokens \in SUBSET Tokens
    /\ log = {}
    /\ lock = NoRun
    /\ pc = [r \in Runs |-> "idle"]
    /\ today = [r \in Runs |-> 1]
    /\ todo = [r \in Runs |-> {}]
    /\ item = [r \in Runs |-> NoItem]
    /\ gone = [r \in Runs |-> {}]
    /\ pushed = {}
    /\ lost = {}
    /\ dropped = {}
    /\ touched = [r \in Runs |-> {}]
    /\ failed = [r \in Runs |-> {}]

-----------------------------------------------------------------------------
(* Helpers *)

\* The run has the lock, or had it when it began.
Working(r) == pc[r] \notin {"idle", "lock"}

AtItem(r) == pc[r] \in {"push", "record"}

\* The dedup key of a row on a day, and the one that run r is at.
KeyOf(i, d) == <<i.id, i.event.type, d>>
Key(r) == KeyOf(item[r], today[r])

IsDue(v, d) == v.calendar # "broken" /\ v.due = d

\* The events of these calendars that run r will not pass over, as the statement
\* of now sees them.
Read(r, calendars) ==
    {i \in Item : /\ i.event = events[i.id]
                  /\ i.event.calendar \in calendars
                  /\ i.event.calendar = "broken" \/ IsDue(i.event, today[r])}

\* The run gives its lock up, if it still has it.
Unlock(r) == lock' = IF lock = r THEN NoRun ELSE lock

Forget(r) ==
    /\ pc' = [pc EXCEPT ![r] = "idle"]
    /\ today' = [today EXCEPT ![r] = 1]
    /\ todo' = [todo EXCEPT ![r] = {}]
    /\ item' = [item EXCEPT ![r] = NoItem]
    /\ gone' = [gone EXCEPT ![r] = {}]
    /\ touched' = [touched EXCEPT ![r] = {}]
    /\ failed' = [failed EXCEPT ![r] = {}]

\* One fault more.
Fault == faults < MaxFaults /\ faults' = faults + 1

\* The keys of pushes that are undone by rolling the transaction of r back.
Unrecorded(r) == IF pc[r] = "record" THEN {Key(r)} \cap pushed ELSE {}

-----------------------------------------------------------------------------
(* A run *)

\* "today" is read once, before the lock is asked for.
Begin(r) ==
    /\ pc[r] = "idle"
    /\ pc' = [pc EXCEPT ![r] = "lock"]
    /\ today' = [today EXCEPT ![r] = day]
    /\ UNCHANGED <<world, faults, tokens, log, lock, todo, item, gone, history>>

\* pg_try_advisory_xact_lock does not wait: a run that does not get it is over.
TryLock(r) ==
    /\ pc[r] = "lock"
    /\ \/ /\ lock = NoRun
          /\ lock' = r
          /\ pc' = [pc EXCEPT ![r] = "solar"]
          /\ UNCHANGED today
       \/ /\ lock # NoRun
          /\ pc' = [pc EXCEPT ![r] = "idle"]
          /\ today' = [today EXCEPT ![r] = 1]
          /\ UNCHANGED lock
    /\ UNCHANGED <<world, faults, tokens, log, todo, item, gone, history>>

\* The solar and the lunar events are two statements at READ COMMITTED.
ReadSolar(r) ==
    /\ pc[r] = "solar"
    /\ pc' = [pc EXCEPT ![r] = "lunar"]
    /\ todo' = [todo EXCEPT ![r] = Read(r, {"solar"})]
    /\ UNCHANGED <<world, faults, tokens, log, lock, today, item, gone, history>>

ReadLunar(r) ==
    /\ pc[r] = "lunar"
    /\ pc' = [pc EXCEPT ![r] = "next"]
    /\ todo' = [todo EXCEPT ![r] = @ \cup Read(r, {"lunar", "broken"})]
    /\ UNCHANGED <<world, faults, tokens, log, lock, today, item, gone, history>>

\* The date of the event cannot be computed: rollback and continue.
Raise(r, i) ==
    /\ pc[r] = "next"
    /\ i \in todo[r]
    /\ i.event.calendar = "broken"
    /\ todo' = [todo EXCEPT ![r] = @ \ {i}]
    /\ UNCHANGED <<world, faults, tokens, log, lock, pc, today, item, gone, history>>

\* Mutant: without the dedup SELECT.
TakeUnchecked(r, i) ==
    /\ pc[r] = "next"
    /\ i \in todo[r]
    /\ i.event.calendar # "broken"
    /\ todo' = [todo EXCEPT ![r] = @ \ {i}]
    /\ pc' = [pc EXCEPT ![r] = "push"]
    /\ item' = [item EXCEPT ![r] = i]
    /\ UNCHANGED <<world, faults, tokens, log, lock, today, gone, history>>

\* The dedup SELECT decides whether to announce it.
Take(r, i) ==
    /\ pc[r] = "next"
    /\ i \in todo[r]
    /\ i.event.calendar # "broken"
    /\ todo' = [todo EXCEPT ![r] = @ \ {i}]
    /\ \/ /\ KeyOf(i, today[r]) \in log
          /\ UNCHANGED <<pc, item>>
       \/ /\ KeyOf(i, today[r]) \notin log
          /\ pc' = [pc EXCEPT ![r] = "push"]
          /\ item' = [item EXCEPT ![r] = i]
    /\ UNCHANGED <<world, faults, tokens, log, lock, today, gone, history>>

\* send_to_clan: the message reaches the devices D.  The rows of the tokens U that
\* FCM no longer knows are deleted in the transaction of this event.
Push(r) ==
    /\ pc[r] = "push"
    /\ pc' = [pc EXCEPT ![r] = "record"]
    /\ \E D \in SUBSET tokens :
         /\ pushed' = IF D = {} THEN pushed ELSE pushed \cup {Key(r)}
         /\ \E U \in SUBSET (tokens \ D) : gone' = [gone EXCEPT ![r] = U]
    /\ UNCHANGED <<world, faults, tokens, log, lock, today, todo, item, lost, dropped, touched, failed>>

\* Mutant: the loop goes on without the COMMIT.
RecordUncommitted(r) ==
    /\ pc[r] = "record"
    /\ Key(r) \notin log
    /\ gone' = [gone EXCEPT ![r] = {}]
    /\ item' = [item EXCEPT ![r] = NoItem]
    /\ pc' = [pc EXCEPT ![r] = "next"]
    /\ UNCHANGED <<world, faults, tokens, log, lock, today, todo, history>>

\* The INSERT, which idx_notification_log_dedup refuses for a key already there,
\* and the COMMIT of this event.
Record(r) ==
    /\ pc[r] = "record"
    /\ Key(r) \notin log
    /\ log' = log \cup {Key(r)}
    /\ tokens' = tokens \ gone[r]
    /\ gone' = [gone EXCEPT ![r] = {}]
    /\ item' = [item EXCEPT ![r] = NoItem]
    /\ pc' = [pc EXCEPT ![r] = "next"]
    /\ UNCHANGED <<world, faults, lock, today, todo, history>>

\* Any statement for this event may fail, and the INSERT does on a key that is
\* there: rollback and continue with the next.
Fail(r) ==
    /\ AtItem(r)
    /\ \/ Fault
       \/ pc[r] = "record" /\ Key(r) \in log /\ UNCHANGED faults
    /\ lost' = lost \cup Unrecorded(r)
    /\ failed' = [failed EXCEPT ![r] = @ \cup {Key(r)}]
    /\ gone' = [gone EXCEPT ![r] = {}]
    /\ item' = [item EXCEPT ![r] = NoItem]
    /\ pc' = [pc EXCEPT ![r] = "next"]
    /\ UNCHANGED <<world, tokens, log, lock, today, todo, pushed, dropped, touched>>

End(r) ==
    /\ pc[r] = "next"
    /\ todo[r] = {}
    /\ Unlock(r)
    /\ Forget(r)
    /\ UNCHANGED <<world, faults, tokens, log, pushed, lost, dropped>>

\* The process dies, or one of the two SELECTs or a rollback raises: the server or
\* the finally ends both transactions.
Die(r) ==
    /\ Working(r)
    /\ Fault
    /\ lost' = lost \cup Unrecorded(r)
    /\ Unlock(r)
    /\ Forget(r)
    /\ UNCHANGED <<world, tokens, log, pushed, dropped>>

\* The connection that holds the lock drops and its transaction ends; the run does
\* not notice, because it runs no other statement there.
DropLock(r) ==
    /\ lock = r
    /\ Fault
    /\ lock' = NoRun
    /\ dropped' = dropped \cup {today[r]}
    /\ UNCHANGED <<world, tokens, log, pc, local, pushed, lost, touched, failed>>

-----------------------------------------------------------------------------
(* The others *)

\* PATCH, delete and restore of an event.
Edit(e, v) ==
    /\ edits < MaxEdits
    /\ edits' = edits + 1
    /\ v # events[e]
    /\ events' = [events EXCEPT ![e] = v]
    /\ touched' = [r \in Runs |-> IF Working(r) /\ pc[r] # "solar"
                                  THEN touched[r] \cup {e} ELSE touched[r]]
    /\ UNCHANGED <<day, faults, tokens, log, lock, pc, local, pushed, lost, dropped, failed>>

NextDay ==
    /\ day < MaxDay
    /\ day' = day + 1
    /\ UNCHANGED <<events, edits, faults, tokens, log, lock, pc, local, history>>

-----------------------------------------------------------------------------
Work(r) ==
    \/ TryLock(r) \/ ReadSolar(r) \/ ReadLunar(r)
    \/ \E i \in todo[r] : Raise(r, i) \/ Take(r, i)
    \/ Push(r) \/ Record(r) \/ Fail(r) \/ End(r)

Next ==
    \/ \E r \in Runs : Begin(r) \/ Work(r) \/ Die(r) \/ DropLock(r)
    \/ \E e \in Events, v \in Event : Edit(e, v)
    \/ NextDay

Spec == Init /\ [][Next]_vars

-----------------------------------------------------------------------------
(* Properties *)

\* No push goes unrecorded in silence: its key is in the log, or a run is about
\* to write it, or a run failed or died on the way.
PushIsAccounted ==
    \A k \in pushed :
        \/ k \in log
        \/ k \in lost
        \/ \E r \in Runs : pc[r] = "record" /\ Key(r) = k

\* A clan gets the announcement of an event a second time on one day only if the
\* record of the first was lost, or a run of that day was without its lock: the
\* lock, the dedup and the commit of each event keep every other run from it.
NoSecondPush ==
    [][\A r \in Runs :
         /\ pc[r] = "push" /\ pc'[r] = "record"
         /\ Key(r) \in pushed
         /\ today[r] \notin dropped
         => Key(r) \in lost]_vars

\* A run that comes to its end has recorded every event that nobody edited
\* meanwhile and that is due on its day, but for those that failed themselves:
\* no bad event takes another one with it.
EndLeavesNothingDue ==
    [][\A r \in Runs : End(r) =>
         \A e \in Events \ touched[r] :
             LET k == <<e, events[e].type, today[r]>> IN
             IsDue(events[e], today[r]) => k \in log \/ k \in failed[r]]_vars

\* The lock never stays behind: whoever has it is at work, so that a later run
\* does not skip for want of it.
LockNeverLeaks == \A r \in Runs : lock = r => Working(r)
=============================================================================
