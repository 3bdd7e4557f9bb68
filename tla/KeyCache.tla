------------------------------- MODULE KeyCache -------------------------------
(***************************************************************************)
(* The cache of the keys that tokens are verified with (JWKS), in one      *)
(* process: get_supabase_jwks with its lock and its two checks.            *)
(*                                                                         *)
(* The identity provider publishes one set of keys at a time, a version,   *)
(* and replaces it when it likes.  The lock is first come, first served:   *)
(* the head of the queue holds it.                                         *)
(***************************************************************************)
EXTENDS Integers, Sequences, FiniteSets

CONSTANTS
    Tokens,     \* requests with a token to verify
    TTL,        \* how long keys are served from the cache
    Timeout,    \* how long each phase of a fetch may last
    Phases,     \* the phases of a fetch: to connect, to send, and each read of the answer
    MaxTime,    \* bound on the clock
    MaxKeys     \* bound on the versions published

VARIABLES
    time,       \* the monotonic clock
    published,  \* the version the provider serves
    retired,    \* when it stopped serving each version
    cache,      \* the version in the cache, 0 when there is none
    cachedAt,   \* _jwks_cache_time
    queue,      \* requests at the lock
    fetch,      \* the fetch of the head of the queue
    used        \* versions tokens were verified with, and when; the last of each request

vars == <<time, published, retired, cache, cachedAt, queue, fetch, used>>

Versions == 1..MaxKeys

Never == MaxTime + 1

\* keys: what the provider has answered, 0 before it has; since: when its phase began.
NoFetch == [open |-> FALSE, began |-> 0, phase |-> 1, since |-> 0, keys |-> 0]

None == [keys |-> 0, at |-> 0]

TypeOK ==
    /\ time \in 0..MaxTime
    /\ published \in Versions
    /\ retired \in [Versions -> 0..Never]
    /\ cache \in 0..MaxKeys
    /\ cachedAt \in 0..MaxTime
    /\ queue \in Seq(Tokens)
    /\ fetch \in [open : BOOLEAN, began : 0..MaxTime, phase : 1..Phases, since : 0..MaxTime,
                  keys : 0..MaxKeys]
    /\ used \in [Tokens -> [keys : 0..MaxKeys, at : 0..MaxTime]]

Init ==
    /\ time = 0
    /\ published = 1
    /\ retired = [v \in Versions |-> Never]
    /\ cache = 0
    /\ cachedAt = 0
    /\ queue = <<>>
    /\ fetch = NoFetch
    /\ used = [r \in Tokens |-> None]

-----------------------------------------------------------------------------
(* The world *)

\* No phase of a fetch outlasts the timeout, which httpx gives to each of them.
Tick ==
    /\ time < MaxTime
    /\ fetch.open => time - fetch.since < Timeout
    /\ time' = time + 1
    /\ UNCHANGED <<published, retired, cache, cachedAt, queue, fetch, used>>

Rotate ==
    /\ published < MaxKeys
    /\ published' = published + 1
    /\ retired' = [retired EXCEPT ![published] = time]
    /\ UNCHANGED <<time, cache, cachedAt, queue, fetch, used>>

-----------------------------------------------------------------------------
(* get_supabase_jwks *)

Fresh == cache # 0 /\ time - cachedAt < TTL

Waiting == {queue[i] : i \in 1..Len(queue)}

Use(r, keys) == used' = [used EXCEPT ![r] = [keys |-> keys, at |-> time]]

\* The check without the lock.
Arrive(r) ==
    /\ r \notin Waiting
    /\ IF Fresh THEN Use(r, cache) /\ UNCHANGED queue
                ELSE queue' = Append(queue, r) /\ UNCHANGED used
    /\ UNCHANGED <<time, published, retired, cache, cachedAt, fetch>>

\* The lock is had; the second check.
Locked ==
    /\ queue # <<>>
    /\ ~fetch.open
    /\ IF Fresh
       THEN /\ Use(Head(queue), cache)
            /\ queue' = Tail(queue)
            /\ UNCHANGED fetch
       ELSE /\ fetch' = [open |-> TRUE, began |-> time, phase |-> 1, since |-> time, keys |-> 0]
            /\ UNCHANGED <<queue, used>>
    /\ UNCHANGED <<time, published, retired, cache, cachedAt>>

\* The connection, or some of the answer, has come in time.
Proceed ==
    /\ fetch.open
    /\ fetch.phase < Phases
    /\ fetch' = [fetch EXCEPT !.phase = @ + 1, !.since = time]
    /\ UNCHANGED <<time, published, retired, cache, cachedAt, queue, used>>

\* The provider reads the keys it answers with.
Serve ==
    /\ fetch.open
    /\ fetch.keys = 0
    /\ fetch' = [fetch EXCEPT !.keys = published]
    /\ UNCHANGED <<time, published, retired, cache, cachedAt, queue, used>>

\* Mutant of Stamp: the time at which the answer has come.
StampOnArrival == time

\* The time the lock was had at, before the fetch.
Stamp == fetch.began

Fetched ==
    /\ fetch.keys # 0
    /\ cache' = fetch.keys
    /\ cachedAt' = Stamp
    /\ Use(Head(queue), fetch.keys)
    /\ queue' = Tail(queue)
    /\ fetch' = NoFetch
    /\ UNCHANGED <<time, published, retired>>

\* Mutant of Released: the lock is given up only by a fetch that went well.
ReleasedOnSuccess == queue

Released == Tail(queue)

\* An error status, a body that is not JSON, or the timeout: 503, and the next
\* request at the lock fetches again.
Failed ==
    /\ fetch.open
    /\ queue' = Released
    /\ fetch' = NoFetch
    /\ UNCHANGED <<time, published, retired, cache, cachedAt, used>>

\* A request that waits at the lock is cancelled.
Leave(r) ==
    /\ r \in Waiting
    /\ r # Head(queue)
    /\ queue' = SelectSeq(queue, LAMBDA q : q # r)
    /\ UNCHANGED <<time, published, retired, cache, cachedAt, fetch, used>>

Next ==
    \/ Tick \/ Rotate
    \/ Locked \/ Proceed \/ Serve \/ Fetched \/ Failed
    \/ \E r \in Tokens : Arrive(r) \/ Leave(r)

\* The event loop runs whoever has the lock, and a fetch ends, at the latest by the
\* timeout of its last phase.
Fairness ==
    /\ WF_vars(Locked)
    /\ WF_vars(Fetched \/ Failed)

Spec == Init /\ [][Next]_vars /\ Fairness

-----------------------------------------------------------------------------
(* Properties *)

\* No token is verified with keys that the provider stopped serving TTL or more
\* ago, however long the fetch took and whoever waited at the lock meanwhile.
KeysAreFresh ==
    \A r \in Tokens : used[r].keys # 0 => used[r].at - retired[used[r].keys] < TTL

\* Every request at the lock leaves it, with keys or with an error, also when the
\* provider fails each time.
EveryTokenIsDecided == \A r \in Tokens : []<>(r \notin Waiting)
=============================================================================
