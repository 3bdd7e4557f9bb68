------------------------------- MODULE RateLimit -------------------------------
(***************************************************************************)
(* The rate limit of one client: RateLimitMiddleware over a log that all   *)
(* instances share (an atomic script in Redis) and a log in the memory of  *)
(* each instance, which decides when the shared one does not answer.       *)
(*                                                                         *)
(* A hit carries the time its request was dispatched at.  The script may   *)
(* run later, in another order, or after the deadline, when the request    *)
(* has been decided in memory.  Other clients have logs of their own and   *)
(* only set off the sweep of a memory; the paths that are counted are left *)
(* out.                                                                    *)
(* PEXPIRE drops the whole key a window after its last hit, when no hit is *)
(* in the window any more.                                                 *)
(***************************************************************************)
EXTENDS Integers, Sequences, FiniteSets

CONSTANTS
    Instances,
    Requests,   \* in flight at once
    Max,        \* the budget
    Window,     \* in ticks; two ticks are a second
    Deadline,   \* how long a request waits for the shared log
    MaxTime     \* bound on the clock

VARIABLES
    time,
    shared,    \* the hits of the shared log: how many at each time
    local,     \* the log of each instance, in the order it was written
    lastSweep, \* of each instance
    request,   \* the requests in flight
    admitted,  \* by each log: how many requests of each time
    retry      \* by each log: when it has told the last client it refused to come back

vars == <<time, shared, local, lastSweep, request, admitted, retry>>

Times == 0..MaxTime

Never == 2 * MaxTime + Window

SharedLog == "shared"

Logs == Instances \cup {SharedLog}

\* sent: the script is on its way; unread: it ran, and the instance is to decide;
\* stray: the instance has decided, and the script may still run.
Request == [state : {"none", "sent", "unread", "stray"}, now : Times, at : Instances]

TypeOK ==
    /\ time \in Times
    /\ shared \in [Times -> Nat]
    /\ local \in [Instances -> Seq(Times)]
    /\ lastSweep \in [Instances -> {-1} \cup Times]
    /\ request \in [Requests -> Request]
    /\ admitted \in [Logs -> [Times -> Nat]]
    /\ retry \in [Logs -> Nat]

Nobody == [t \in Times |-> 0]

Init ==
    /\ time = 0
    /\ shared = Nobody
    /\ local = [i \in Instances |-> <<>>]
    /\ lastSweep = [i \in Instances |-> -1]
    /\ request = [q \in Requests |-> [state |-> "none", now |-> 0, at |-> CHOOSE i \in Instances : TRUE]]
    /\ admitted = [l \in Logs |-> Nobody]
    /\ retry = [l \in Logs |-> Never]

-----------------------------------------------------------------------------
(* Deciding *)

\* The hits of some times, told apart by a number.
Hits(count, times) == UNION {{t} \X (1..count[t]) : t \in times \cap Times}

Total(count, times) == Cardinality(Hits(count, times))

\* Mutant of RetryAfter: rounded down.
RetryAfterExact(oldest, cutoff) == 2 * ((oldest - cutoff) \div 2)

\* retry_after_seconds, in ticks: whole seconds, past the hit that leaves.
RetryAfter(oldest, cutoff) == 2 * ((oldest - cutoff) \div 2 + 1)

\* The clients of a log are told; a hit of somebody else spends what they were
\* told to come back for.
Admits(l, now) ==
    /\ admitted' = [admitted EXCEPT ![l][now] = @ + 1]
    /\ retry' = [retry EXCEPT ![l] = Never]

Refuses(l, now, oldest) ==
    /\ retry' = [retry EXCEPT ![l] = now + RetryAfter(oldest, now - Window)]
    /\ UNCHANGED admitted

\* The hits that the script leaves in the log.
InWindow(now) == [t \in Times |-> IF t > now - Window THEN shared[t] ELSE 0]

Recorded(now) == [InWindow(now) EXCEPT ![now] = @ + 1]

\* Mutant of SpentShared: the budget is compared the other way.
SpentSharedPast(now) == Total(InWindow(now), Times) > Max

SpentShared(now) == Total(InWindow(now), Times) >= Max

\* The script, read by the request that sent it.
HitShared(now) ==
    \/ /\ SpentShared(now)
       /\ shared' = InWindow(now)
       /\ \E oldest \in Times :
            /\ InWindow(now)[oldest] > 0
            /\ \A t \in 0..(oldest - 1) : InWindow(now)[t] = 0
            /\ Refuses(SharedLog, now, oldest)
    \/ /\ ~SpentShared(now)
       /\ shared' = Recorded(now)
       /\ Admits(SharedLog, now)

\* _maybe_sweep: at most once a window, the logs whose last hit is out of it go.
SweepDue(i, now) == lastSweep[i] # -1 /\ now - lastSweep[i] >= Window

Swept(i, now) ==
    LET log == local[i]
    IN  IF SweepDue(i, now) /\ log # <<>> /\ log[Len(log)] <= now - Window THEN <<>> ELSE log

Sweeps(i, now) ==
    lastSweep' = [lastSweep EXCEPT ![i] = IF @ = -1 \/ SweepDue(i, now) THEN now ELSE @]

\* The hits of a log that are newer, in the order they were written.
Newer(log, cutoff) ==
    LET upTo[n \in 0..Len(log)] ==
            IF n = 0 THEN <<>>
            ELSE IF log[n] > cutoff THEN Append(upTo[n - 1], log[n]) ELSE upTo[n - 1]
    IN  upTo[Len(log)]

Pruned(i, now) == Newer(Swept(i, now), now - Window)

\* The log in memory decides; the oldest hit it tells of is the first written.
HitLocal(i, now) ==
    /\ Sweeps(i, now)
    /\ \/ /\ Len(Pruned(i, now)) >= Max
          /\ local' = [local EXCEPT ![i] = Pruned(i, now)]
          /\ Refuses(i, now, Pruned(i, now)[1])
       \/ /\ Len(Pruned(i, now)) < Max
          /\ local' = [local EXCEPT ![i] = Append(Pruned(i, now), now)]
          /\ Admits(i, now)

-----------------------------------------------------------------------------
(* Requests *)

\* A request waits for the shared log no longer than the deadline.
Tick ==
    /\ time < MaxTime
    /\ \A q \in Requests :
         request[q].state \in {"sent", "unread"} => time - request[q].now < Deadline
    /\ time' = time + 1
    /\ UNCHANGED <<shared, local, lastSweep, request, admitted, retry>>

Dispatch(q, i) ==
    /\ request[q].state = "none"
    /\ request' = [request EXCEPT ![q] = [state |-> "sent", now |-> time, at |-> i]]
    /\ UNCHANGED <<time, shared, local, lastSweep, admitted, retry>>

Becomes(q, state) == request' = [request EXCEPT ![q].state = state]

\* The script ran and its answer came.
Decide(q) ==
    /\ request[q].state = "sent"
    /\ HitShared(request[q].now)
    /\ Becomes(q, "none")
    /\ UNCHANGED <<time, local, lastSweep>>

\* A hit that no client was admitted for.
RunUnread(now) ==
    /\ shared' = IF SpentShared(now) THEN InWindow(now) ELSE Recorded(now)
    /\ retry' = [retry EXCEPT ![SharedLog] = Never]
    /\ UNCHANGED <<time, local, lastSweep, admitted>>

\* The script ran and its answer was lost, or could not be read.
DecideUnread(q) ==
    /\ request[q].state = "sent"
    /\ RunUnread(request[q].now)
    /\ Becomes(q, "unread")

\* The store has not answered: this instance decides.
FallBack(q) ==
    /\ \/ request[q].state = "sent" /\ Becomes(q, "stray")
       \/ request[q].state = "unread" /\ Becomes(q, "none")
    /\ HitLocal(request[q].at, request[q].now)
    /\ UNCHANGED <<time, shared>>

RunStray(q) ==
    /\ request[q].state = "stray"
    /\ RunUnread(request[q].now)
    /\ Becomes(q, "none")

LoseStray(q) ==
    /\ request[q].state = "stray"
    /\ Becomes(q, "none")
    /\ UNCHANGED <<time, shared, local, lastSweep, admitted, retry>>

\* A hit of another client in the same memory.
HitByOther(i, now) ==
    /\ now <= time /\ time - now <= Deadline
    /\ lastSweep[i] = -1 \/ SweepDue(i, now)
    /\ Sweeps(i, now)
    /\ local' = [local EXCEPT ![i] = Swept(i, now)]
    /\ UNCHANGED <<time, shared, request, admitted, retry>>

\* The scripts that the instance sent are still on their way.
Restart(i) ==
    /\ local' = [local EXCEPT ![i] = <<>>]
    /\ lastSweep' = [lastSweep EXCEPT ![i] = -1]
    /\ admitted' = [admitted EXCEPT ![i] = Nobody]
    /\ retry' = [retry EXCEPT ![i] = Never]
    /\ request' = [q \in Requests |->
                     [request[q] EXCEPT !.state = IF request[q].at # i THEN @
                                                  ELSE IF @ = "unread" THEN "none"
                                                  ELSE IF @ = "sent" THEN "stray"
                                                  ELSE @]]
    /\ UNCHANGED <<time, shared>>

Next ==
    \/ Tick
    \/ \E q \in Requests :
         \/ \E i \in Instances : Dispatch(q, i)
         \/ Decide(q) \/ DecideUnread(q) \/ FallBack(q) \/ RunStray(q) \/ LoseStray(q)
    \/ \E i \in Instances : Restart(i) \/ \E now \in Times : HitByOther(i, now)

Spec == Init /\ [][Next]_vars

-----------------------------------------------------------------------------
(* Properties *)

\* No log admits more than the budget in a window less the deadline, by which its
\* hits may come out of order; a log in memory less two of them, because a hit that
\* came late may be the last one written, and the sweep looks at that one alone.
BudgetHolds ==
    \A from \in Times :
        /\ Total(admitted[SharedLog], from..(from + Window - Deadline - 1)) <= Max
        /\ \A i \in Instances :
             Total(admitted[i], from..(from + Window - 2 * Deadline - 1)) <= Max

Spent(l) ==
    IF l = SharedLog THEN SpentShared(time) ELSE Len(Pruned(l, time)) >= Max

\* A client that comes back when it was told to is admitted by the log that told
\* it, unless another request of it was recorded there.
RetryIsAdmitted == \A l \in Logs : time >= retry[l] => ~Spent(l)
=============================================================================
