# FamilyRoots: formal models of the backend

FamilyRoots keeps the family trees of Vietnamese clans. A FastAPI backend
(`src/backend/app`) over PostgreSQL and Supabase serves a Next.js web application and a
Flutter one. This directory models what can go wrong there when several people
and processes act at once, and the algorithms whose answers people rely on: TLA+ modules
translated from the code, TLC configurations that check them on small instances, and proofs
of the same properties for every instance.

Run everything here: `tlc -workers 2 -config X.cfg M` checks a module, `tlapm M.tla` its
proofs. `PROJECT.json` lists components, runs, mutants, the lines behind each definition,
findings, hazards and theorems.

## 1. The system

All state that outlives a request is in PostgreSQL, except the objects of Supabase Storage
and the accounts of Supabase Auth. A request authenticates (JWT), gets its clan context and
the caller's role once (`core/permissions.py`), and runs one transaction at READ COMMITTED
(`infrastructure/unit_of_work.py`). Domain events are dispatched before the COMMIT, so that
audit rows are in the same transaction. Handlers read rows into entities, run the rules of
the domain on them and write them back; rules that must hold across requests rest on row
locks (`FOR UPDATE`), conditional `UPDATE`s, version predicates, unique indexes, triggers
with advisory locks, or on nothing.

| Component | State | Operations | Talks to | Hard because | Correct when |
|---|---|---|---|---|---|
| Clan membership | `user_clan_roles`, audit | approve, reject, change_role, remove; join, invitation and claim as other writers | audit log, invitations, claims | role read before locks; row locks taken in two places | a clan keeps an admin, no decision is lost or audited twice, nobody waits for ever |
| Identity claims | `identity_claims`, `user_profiles.person_id` | submit, cancel, approve, reject, unlink, prelink | membership | guards on loaded objects; one lock for two unique facts | a person has one user, a user one person, links have a decided claim |
| Person records | `persons` | create, PATCH, delete, restore, avatar | change requests, documents | whole-row writes, some without a version | no edit is undone unasked |
| Change requests | `change_requests`, audit | submit, approve, reject | person records | three-way merge on a read that ages | approval loses no edit, decisions are audited |
| Invitations | `clan_invitations`, `user_clan_roles`, audit | create, accept, revoke, lazy expiry | membership, mail | two clocks, accept against revoke, a join request beside it | one outcome, audited once; one membership |
| Parent-child links | `parent_child` | create, PATCH, delete | persons, tree | rules about the whole graph, each checked before a concurrent write | acyclic, bounded parents, one link for two people |
| Documents | `documents`, Storage, signed URLs | sign, confirm, delete, restore, avatar, purge, sweep | persons, Storage, cron | two stores and no common transaction; crashes; time | rows have blobs, blobs have rows, nothing live is destroyed |
| Marriages | `marriages` | create, PATCH, delete | persons | two indexes, one of them one-sided, behind a two-sided check | one active marriage of a pair, distinct orders but for a race |
| Anniversary job | `notification_log`, `user_fcm_tokens`, an advisory lock | daily run | events, lunar calendar, FCM | a push cannot be rolled back; several processes run it; the lock is on another connection | one announcement a day, one bad event harms no other, no lock stays behind |
| Family events | `events`, audit | create, PATCH, delete, restore, upcoming | unit of work, calendar, job | every write puts back a whole copy; two readers must agree on what is due | the audit log replays; what the page shows is announced |
| Unit of work, audit log | the session, `audit_logs` | track, flush, collect, dispatch, COMMIT | every handler | events are raised before the write is known to match | the log tells what was committed |
| Clan record, founder | `clans`, `clan_memberships` | update, suspend, reactivate, designate founder | persons, platform admin | a loaded copy is written back; two statements under a unique index | a suspension stays, the audit names who was displaced |
| Tree, kinship, export | none | full tree, subtree, focus, ancestors, path, GEDCOM | all tables | algorithms, over several snapshots | nobody is lost, right generation, shortest way, true terms, every link exported |
| Lunar calendar | none | conversion, next anniversary | events | leap months, short months, two new years | the first day on which it is kept |
| Lists | none; a cursor at the client | a page | most tables | rows come, go and are renamed meanwhile | each row once |
| Registration, sessions | Supabase Auth, `user_profiles`, `clans` | register, onboard, first request, bootstrap script | identity provider | saga with compensation; tokens outlive accounts | no account without profile, an address with its live account |
| Access | memory, pool, `app.clan_id` | JWKS, dependencies of a request, row policies | everything | a COMMIT ends what it scoped; a request may hold two connections | work in its clan and for its role; every request ends; keys are fresh |
| Rate limit | Redis, memory | a hit | every request | two logs, a deadline between them, late scripts | the budget holds, Retry-After is true |
| Release | `alembic_version`, Vercel | migrate, deploy, health, rollback | start-up gate | the old code serves on the new schema | what is routed to can boot |
| Branches, me | `branches` | create, update, delete; reads | | little | |
| Web, mobile | session in the client | screens, session refresh | API | a shared refresh | one refresh for many 401s |

`PROJECT.json` says for each whether it is modelled, and why not if not.

## 2. Modules

| Module | Models | Proofs |
|---|---|---|
| `ClanMembership` | the admin requests of `application/clan/handlers.py`, statement by statement | `ClanMembershipProofs` |
| `IdentityClaims` | `application/person/claim_handlers.py` | `AccountsProofs` |
| `PersonEdits` | `application/person/handlers.py`, `application/change_request/handlers.py` and `set_avatar`, on one record | `PersonEditsProofs` |
| `Invitations` | `application/invitation/handlers.py` | `InvitationsProofs` |
| `ParentChild` | the parent-child handler, the validator and migrations 007, 021 and 022 | `ParentChildProofs` |
| `FamilyGraph` | the abstract specification of `ParentChild`: one editor, whole edits | |
| `Documents` | `application/document/*`, `services/document_purge.py`, the Storage adapter | `DocumentsProofs` |
| `AnniversaryJob` | `services/scheduler.py`, `send_to_clan` of `services/notification.py` | `AnniversaryJobProofs` |
| `Marriages` | the marriage handler, the validator and the indexes of migrations 015 and 022 | `PartsProofs` |
| `ClanRecord` | update_clan, suspend, reactivate, designate_founder | `PartsProofs` |
| `FamilyEvents` | the event handler, `SqlAlchemyUnitOfWork`, the dispatcher and the audit handler | `PartsProofs` |
| `LunarCalendar`, `Anniversaries` | `services/lunar_calendar.py`, the date SQL; get_upcoming against the job | `PartsProofs` |
| `Pages` | `core/pagination.py` and the lists that use it | `PartsProofs` |
| `TreeBuilder`, `Kinship`, `GedcomExport` | the functions of `services/tree_builder.py`, the SQL walks, `relationship_descriptor.py` and `gedcom_export.py`, as operators | |
| `FamilyReads` | the statements of each of these reads, with editors between them | `PartsProofs` |
| `Accounts` | `application/auth/handlers.py`, the profile repository, the bootstrap script | `AccountsProofs` |
| `RateLimit` | the middleware, both stores, the Redis script | `AccountsProofs` |
| `RequestPath` | the dependencies of routes, `core/rls.py`, the pool, the row policies | `PartsProofs` |
| `KeyCache` | `get_supabase_jwks` | `PartsProofs` |
| `Release` | `release.yml`, `readiness.py`, `/health` | `PartsProofs` |

`MC<Module>` adds the symmetry sets for TLC. `FamilyGraph` is instantiated in `ParentChild`
(`Graph`), with the live links as its edges. `TreeBuilder` is used by `Kinship`,
`GedcomExport` and `FamilyReads`, `LunarCalendar` by `Anniversaries`. `MCRecords`,
`MCAccounts` and `MCAccess` are sums: they instantiate six, two and two modules that share
no state, the initial state chooses one (`record`, `accounts`, `access`) and only that one
takes steps. A sum checks each of its modules alone; it claims nothing about them together.
The two modules of proofs extend the sums, so that what they prove is what the runs check.

### How code becomes actions

* `pc[r]` is the statement that request slot `r` runs next, `job[r]` what it was asked and
  has read. A read and the write that follows are different steps whenever another
  transaction may commit between them. The last write of a request and its COMMIT are one
  step: the row is locked from the one to the other, so nobody can tell them apart, and a
  writer that meets the locked row waits and then tests its predicate on the new row.
  `FamilyEvents` is about the unit of work itself and keeps the write, the dispatch and the
  COMMIT apart.
* `SELECT ... FOR UPDATE` is a step that waits until no other request holds the row; the
  locks go when the request ends. Where the order of locks matters (`lock_admin_count`) the
  rows are locked one by one.
* A request may fail or be refused at any statement: `Abort` (in `ClanMembership` the
  refusals are actions of their own). What an error is called
  is left out.
* Mutants, named in a comment above them, are the definitions with the bug a property is
  there to catch. They are in no specification.

### The modules, one by one

**ClanMembership.** `Begin` is `require_role` (with the self-removal guard of remove_user),
`Read` is `get_user_clan_role`, `CountStart`/`LockRow`/`CountEnd` are `lock_admin_count`
with PostgreSQL's re-evaluation of each locked row, `Write`/`WriteLost`/`Resolve` the
conditional write, its loss and the second read that chooses the answer. `AddMembership`
and `PromoteIfPending` are the other writers of the table. `DeadlockAbort` is PostgreSQL's
deadlock detector: the order of ids covers the rows that `lock_admin_count` locks, not the
row of the write that follows, so that two requests can wait for each other and it does
happen. Ids are numbers because `lock_admin_count` orders by them.

**IdentityClaims.** Guards run on objects that the session loaded earlier (`seen`), the
lock is on the person, the ORM writes by primary key. An approval rejects the other pending
claims of the person and adds a membership. Left out: audit rows, reviewer columns.
The profile of an admin who decides on a claim of his own is already in the session's
identity map, which the model treats as read by the guard.

**PersonEdits.** One record with its columns and version. PATCH carries the client's
version, approve the version it has just read, delete, restore and set_avatar none. Every
save writes all columns as they were read. `Conflicts` is `detect_conflicts`. The
unconditional saves are deliberate in ADR-017; the model shows what follows from them.
Nothing in the UPDATE of a change request tests its old status: two reviewers who both
loaded it as pending may both write, the last one decides what it shows, and both decisions
are in the audit log. `ReviewIsAudited` is what remains true.

**Invitations.** Two clocks: accept uses the time of the call, create the start of its
transaction. `ExpireStale` is the lazy expiry of create. Held rows (`held`) make an
UPDATE wait while reads see the old status.

**ParentChild.** `Validate` is the validator, which only spares the user an error; `Lock`
the BEFORE trigger's advisory lock on the clan; `Guard` the AFTER trigger; `CommitCreate`
the unique index and the COMMIT; `Find` the version predicate and the row lock of a PATCH;
`Delete` takes no clan lock. `Ancestors` is the least set closed under parents, which is
what the recursive SQL walk with `UNION` returns. Left out: the age rule (a read of birth
dates and a warning or refusal, no write), the guard's row locks on persons, other clans
over the same people.

**FamilyGraph.** The rules of `RelationshipDomainValidator` kept by one editor alone.

**Documents.** `Sign`, `Put` (the browser), `BeginConfirm`/`Stat`/`Discard`/`Move`/
`Insert`/`Cleanup` are the upload; `Publish`/`Clear`/`Find`/`Update`/`Reinsert` are
set_avatar, delete and restore, ending in `DocumentRepository.save`, which SELECTs and then
UPDATEs or INSERTs; `BeginPurge`/`Claim`/`Erase`/`CommitPurge`/`ListStaged`/`SweepOne` are
the daily job. `Die` and `EndPurge` are dying processes, `EraseFails`, the second branches
of `Move`, `Publish` and `Cleanup` are failed calls of Storage or answers that were lost.
`lost` and `erased` are history. Assumptions, all in the module: a COMMIT that raised has
committed nothing; the advisory lock admits one purge; timing (`Expire`, `Age`, `Lapse`): a
signed URL lapses before a staged object is stale, and nobody is still at work on a document
30 days after its deletion. One clan, one person; a path is the file's uuid; checks of size,
type and path only refuse and are the free choice of `Stat`. set_avatar can undo a deletion
that committed while it published, and two calls can leave two avatars: the model has both,
no document of the repository rules them out, so no property is about them.

**AnniversaryJob.** `send_anniversary_notifications` on its two connections: `Begin` reads
the date, `TryLock` is `pg_try_advisory_xact_lock` on the connection of the lock, the rest
runs on the other one. `ReadSolar` and `ReadLunar` are the two SELECTs; a row that is not
due is passed over without a further statement, so it is left out when it is read. For each
row that remains, `Take` is the dedup SELECT, `Push` `send_to_clan`, `Record` the INSERT and
the COMMIT, `Raise` a lunar date that cannot be computed, `Fail` the rollback after any other
exception (of the dedup SELECT too: `Take`, then `Fail`). The order of the rows is free;
the code takes the solar ones first. `End` is the `finally`. Around the job: `Die` (a dead
process), `DropLock` (the connection of the lock is lost and the run does not notice),
`Edit` (an event is changed, deleted or restored), `NextDay`. `pushed`, `lost`, `dropped`,
`touched` and `failed` are history. Left out: which members are sent to and in which
language, registration of tokens, the status of a log row, which nothing reads.

**Marriages.** A request runs its checks one by one (`CheckPair`, `CheckOrder`), each a
statement that reads what is committed, and then writes (`Insert`, `Update` under the version
its client has seen, `Delete` under none). `IndexesAdmit` are the two partial unique indexes.
`check_spouse_order` reads the marriages of both spouses, the index stands on the first column
alone: two racing editors can give two wives of the second column's person one order, and the
property says that nothing but such a race does. Left out: dates, place, notes, and an
expected version older than the row's, which never writes.

**ClanRecord.** A PATCH, a suspension and a reactivation each load the row, change the copy and
let the session update the columns that differ (`Save`). A swap of the founder is `Look`,
`Clear` and `Cleared` (the UPDATE that finds a row, waits for it and reads it again), `Set`
under the unique index, `Commit`. `told` is the last audit row.

**FamilyEvents.** A handler loads an aggregate and runs its method, which raises an event
(`Create`, `Patch`, `Delete`, `Restore`); `Save` flushes the whole copy under the version
predicate, or `StaleWrite` refuses; `Dispatch` collects the events of the tracked aggregates
and adds their audit rows to the session; `Commit` makes row and audit visible together.
The audit row of a create names no column: `EventCreated` has no `new_value`. So the log alone does
not tell what the INSERT wrote; `inserted` is the history of it, and `Replayed` starts from there.
`overtaken` names the events whose delete or restore has written back an older copy, the only
case in which the log tells wrong columns. `track` compares aggregates by the equality of
dataclasses; a handler tracks one, so the model has one.

**LunarCalendar, Anniversaries.** The numbering of months from new moons and solar terms, over
a table that is a constant (`Moons`, `NewMoon`, `Section`); the run has the real ones from August
2031 to March 2037, with leap months and months of both lengths.
`NextLunarAnniversary` and `NextSolarAnniversary` are the functions of the code and of the SQL;
`Kept` is what they should compute, read off the calendar day by day. `Anniversaries` puts the
flags of a row beside them and compares the page with the job on every day. `Upcoming` is the set of
pages that get_upcoming may answer with: the SQL part sorted and cut by `LIMIT :lim` (`FirstOf`), the
lunar rows that Python computes, and the merged list sorted and cut again; among rows of one day the
database chooses. The calendar of a clan (`events`) does not change while the days go by.

**Pages.** A client follows `next_cursor` through a list, with the key and the id of the last
row as cursor, while rows are inserted (and commit later), removed and renamed. A row that
commits late with an older `created_at` can be skipped; the property is about rows that were
in the list from the first page on.

**TreeBuilder, Kinship, GedcomExport, FamilyReads.** The algorithms are operators over sets
of links; where the SQL leaves an order open (which row of a person reached twice comes first,
which marriage of a pair), the model chooses freely. The pairing of parents in
`build_gedcom` is greedy: rounds of `OneMore`, each of which marries the first pair that is
left. `FamilyReads` runs each read statement by
statement: `ReadFounder`, `ReadMap`, `ReadRows`, `ReadSpouses`, `ReadMore` for the trees,
`ReadChain` for ancestors and the breadcrumb, one `ReadRound` for each round of the path
search (the function is VOLATILE, so that each round has its own snapshot), the statements of
the export. `Edit` is what may commit between them. Reference definitions are beside the
properties: `Ways` enumerates ways, `Means` says a term without a path. A torn tree read can
lose people without an error (`LostOnlyByRemoval` names when); `GenerationFollowsFather`
assumes one male parent, because of two the code takes the first by type and id.

**Accounts.** `Register` and `Bootstrap` ask the provider (`CreateUser`, `CreateExists`,
`CreateFails`, `CreateLost`), then run `Assign`, `Release` (the UPDATE that frees an address
held by the row of another profile) and `Write`; `Compensate` deletes the account. `WriteLost`
is a COMMIT whose answer is lost, `Die` the end of the process. Tokens outlive accounts
(`DeleteAccount`), which is why `Authenticated` may run for an account that is gone.

**RateLimit.** `Dispatch` sends the script with the time of the request; `Decide` runs it and
answers; `DecideUnread` runs it and loses the answer; `FallBack` decides in the memory of the
instance after the deadline, while the script may still run (`RunStray`) or not (`LoseStray`).
`HitByOther` is a request of another client, which touches this log only by the sweep it sets
off; `Newer` is the prune. `admitted` and `retry` are history. A tick is half a second, because Retry-After counts whole
ones.

**RequestPath.** `Dependencies` lists the dependencies of nine kinds of route in the order
FastAPI resolves them (`submitting` is submit_identity_claim, which asks for the role of a viewer and
then for the system session; `claiming` the routes of claims that ask for none). A session takes a connection at its first statement (`Connect`) and
gives it back at COMMIT; `after_begin` scopes each transaction anew (`Begins`). `had` is the
history of what was true since the request came. `Admits` are the row policies.

**KeyCache.** The two checks around the lock, the fetch between them, rotation at the provider
and requests that leave the queue. `Stamp` is the time at which the lock was had. httpx gives its
timeout to each phase of a fetch, not to the whole: to connect, to send and to each read of the answer.
`Proceed` ends a phase, and `Phases` bounds them; a provider that sends its answer in ever more pieces
is not bounded by the code.

**Release.** `Head(k)` is the migration that release `k` carries. `Publish` and `Start` are the
concurrency group of the workflow (one waiting run, the last), `ReadHealth` one of its reads,
answered by either deployment that the host may route to. `RollBack` and `Promote` are the
operator's.

## 3. Runs

| Run | Instance | Distinct states | Shows |
|---|---|---|---|
| `membership` | 3 users, 2 roles, 2 requests, 3 row ids | 1,822,863 | audit replays the table; locks ascend; the last admin leaves only by a stale removal |
| `membership_last_admin` | as `membership` | | violation, the finding |
| `claims` | 2 users, 2 persons, 3 claims, 2 requests | 1,881,821 | the lock on the person suffices for the person; links come from decided claims |
| `edits` | 2 columns, 2 values, 2 proposals, 2 requests, 3 writes | 3,471,952 | reviews are audited; approvals lose no edit; a column changes unasked only by an unconditional save |
| `invitations` | 1 user, 3 invitations, 2 rows, 2 roles, 2 requests, TTL 1, time up to 2 | 1,671,922 | one audited outcome; what blocks is in time; acceptance makes one member |
| `parent_child` | 3 people, 3 links, 2 types, limit 1, 2 requests, 2 versions | 344,111 | acyclic, and `FamilyGraph` is implemented |
| `documents` | 2 files, 2 requests, the purge | 1,877,411 | rows have blobs, blobs have rows, no live document destroyed |
| `anniversary` | 2 processes, 2 events, 1 type, 1 token, 2 days, 1 edit, 1 fault | 3,380,761 | pushes are accounted for; none is repeated unless a record or a lock was lost |
| `reads` | every acyclic graph of 2 to 4 links on 4 people, some families of 5; up to 2 edits during a read | 774,327 | who may be lost, generations, shortest ways, true terms, whole exports |
| `records` | a sum of six, see below | 511,131 | suspensions, founders, pages, calendar and what is announced, marriages, events, releases |
| `accounts` | a sum: 2 accounts, 1 address, 2 clans, 2 requests; 1 instance, 2 requests in flight, budget 1, window 4 ticks, 6 moments | 1,007,510 | registrations are whole; addresses stay; the budget holds and Retry-After is true |
| `access` | a sum: 2 clans, 2 requests, 2 connections, 1 change; 3 tokens, TTL 3, fetches of 2 phases of 1, 2 sets of keys | 362,049 | work in its clan and for its role; fresh keys; every request ends |

The parts of `records`: 3 persons, 2 admins, 2 names (`ClanRecord`, 100,140 states); 3 ids, 2
moments, pages of 1 or 2 (`Pages`, 39,436); 12 calendars of 2 or 4 events on each of 368 days, and a page of
2 (`Anniversaries`, 4,416); 3 persons, 2 marriages, 2 editors, 1 order, PATCHes until one is
committed (`Marriages`, 263,853); 1 event, 2 columns, 3 requests (`FamilyEvents`, 94,170); 3 releases of
which the second carries a migration (`Release`, 9,116).

**Why the bounds are enough to be interesting.** Two requests are enough for every race
of a pair of handlers, and the other writers and the purge are a third actor. Three rows
let two admins and a third member change places; three claims let an approval reject
another one while a third waits; three links over three people close a cycle of three,
and the limit of biological parents is 1 there (2 in the code) so that a third link can
exceed it; three writes of a record let a save overtake a save; three invitations of one
address let an expired, a pending and a new one meet, with a clock that passes the
deadline. Two files are one that a race is about and one that the avatar moves to. Two
processes on two days meet in the lock and in the log of one day; one fault suffices to
break either safeguard, one edit to move an event between the two SELECTs. Four people
have every small shape, the families of five add cousins and in-laws; of two edits one comes
before the map and one after it. Two marriages of one person are what an order is about, and one divorce or
remarriage moves them (two, when both editors ask before either commits). A calendar of four events in
two days does not fit on a page of two. Three requests on one event let a delete read before two others
have written. On a pool of two connections two requests that need two each hold it all. Three
tokens are one that fetches and two that queue. The theorems have none of these bounds except
those that are constants of the model (`MaxId`, `MaxVersion`, `MaxTime`, `MaxDay`, `MaxEdits`,
`MaxFaults`, `MaxAttempts`), and they hold for every value of them.

**Bounds in guards.** `MaxId` row ids, `Links`, `Claims`, `Invitations`, `Rows`, `Proposals`,
`Unions`, `Ids`, `Subs` are handed out and never reused; `MaxVersion` caps the writes of a
record or link; `MaxTime`, `MaxDay`, `LastDay` and `Times` stop the clock; `MaxEdits`,
`MaxFaults`, `MaxChanges`, `MaxKeys` and the budget of a family cap what happens from outside.
In `FamilyEvents` each request is sent once. A larger `RateLimit` (budget 2, 2.4 million states)
was checked once and is not kept as a run.

**Deadlock** is checked in `documents` and `anniversary`. The others have finite ids, versions
or time, so a behaviour may use them up and stop: `CHECK_DEADLOCK FALSE`. A cycle of row locks
is not a stuck state, because PostgreSQL aborts one of the requests: that is the action
`DeadlockAbort`. A cycle of connections is broken by the timeout of the pool: `TimeOut`.

**Fairness** is assumed in `access` alone. `RequestsEnd` needs weak fairness of each request:
the event loop runs what can run, and waiting for a connection ends with one or with
`pool_timeout`, so that a request always has a step. `EveryTokenIsDecided` needs it of whoever
holds the lock: a fetch ends, at the latest by the timeout of its last phase, 5 s for each. Nothing is assumed of how
either ends, and no request has to begin. Liveness stays with TLC.

**Mutants.** Each property of a passing run has one: a dropped guard, an off-by-one, a
missing lock, an unordered lock, a forgotten write, that TLC finds under the same
configuration (`PROJECT.json`, "mutants").

## 4. Findings

`ClanKeepsAnAdmin`, run `membership_last_admin`: remove_user counts the admins only if the role
it read was admin, then deletes by id. A member promoted in between may be the last admin
(`application/clan/handlers.py:149` and 200). `LastAdminLeavesOnlyByStaleRemoval` is what
remains true.

Other places where code and words differ, or where the code does what a reader may not expect.
No run states them as violated; where a property names the exception it is given.

* ADR-017 lets delete, restore and set_avatar save whole rows without a version: they undo a
  PATCH that committed after they read (`ColumnsChangeOnlyIfAsked`). So do delete and restore
  of events (`EventAuditReplays`) and of marriages. A double delete leaves two audit rows.
* Two requests that link one user to two persons lock two rows and pass one guard
  (`claim_handlers.py:124-148`). A pending claim cancelled by a request that loaded it earlier
  overwrites an approval.
* A restore can succeed on a document whose blob the purge has erased (`RowHasBlob`).
* `upload.py:158` deletes the blob when the COMMIT raises, also when it was carried out: the
  models take a raised COMMIT as one that committed nothing.
* Two wives get one order by a race on the side that no index covers (`SharedOrderOnlyByRace`).
* Suspending a clan that was read as suspended emits no UPDATE, so a reactivation that commits
  meanwhile stays, with an audit row that says "suspended". Two swaps to one founder at once
  audit that nobody was displaced.
* A registration whose COMMIT is carried out and not answered deletes the account: the clan it
  founded has an admin without one. A lost answer of the provider leaves an account that
  nobody deletes (`RegisterIsWhole`, its faults). The bootstrap script undoes nothing when its
  INSERT fails, and two runs of it can make two super admins.
* Login shows a pending member his `clan_id`, `/auth/me` does not.
* A request to review, claim, accept or operate holds a connection while it waits for a second; a pool
  full of them empties by the timeout only (`RequestsEnd`). `k` requests at the lock of the
  keys wait for `k` timeouts while the provider hangs.
* The log in memory takes hits in the order they are written, not in the order of their times,
  in its sweep and in Retry-After. The sweep of `_maybe_sweep` looks at the "newest hit" and reads
  the one written last, which may be older than others by the deadline. So the shared log keeps
  the budget in a window less the deadline, a log in memory in a window less two (`BudgetHolds`).
  That came out of the proof: the bound of one deadline, which the run had not refuted, was not
  inductive, and TLC refutes it with a budget of 2 and two requests in flight.
* The audit row of a created event has NULL in `new_value` (`domain/event/events.py:12`), where those of
  updates name the columns: the log alone does not restore a column that no update has named, and
  `EventAuditReplays` starts from what the INSERT wrote.
* The docstring of `get_upcoming` says that it "shows exactly what will be notified"
  (`event_repository.py:95`). The page is cut to 50 rows, in SQL and again after the merge with the
  lunar rows, and the job has no limit: of more than 50 events in the window those on the latest days
  are announced and not shown. An event that does not recur is shown and never announced.
  `UpcomingIsAnnounced` is about those that recur and exempts an event when the page is full of events
  that are no later.
* An event is created with `notify_days_before` 0 stored as 7. `audit_logs.created_at` is the
  start of the transaction: sorted by it, the log need not be in the order of COMMIT.
* The spouses query gives a marriage between two people of the tree to the first of them only.
  The GEDCOM pointer of a pair that divorced and married again depends on an unordered SELECT,
  and so does the row that is kept of a person with two ways of one length. `PathIsShortest` compares
  the ids of the way, not the kinds of its steps: which of two edges between the same two people is
  shown is not claimed. In `LostOnlyByRemoval` a divorce between the two snapshots counts as a removal.
* "Only `current` shows the new deployment serving" (`docs/ops/deployment.md`, `main.py`,
  `release.yml`) holds for releases that carry a migration; for one without, or after a
  rollback, the deployment before it answers `current` as well. `ReleaseKeepsServing` claims
  the migrations, not the release.

## 5. Proofs

Every theorem is `Spec => []Inv`, `Spec => [][A]_vars` or a refinement, for every value of the
constants under named assumptions. Of the properties that the runs check, all 27
invariants and every action property and refinement are stated by a theorem. The argument is the same
everywhere: an inductive invariant, one step per action, then each property from it.

| Module | Strengthening that makes it inductive |
|---|---|
| `ClanMembershipProofs` | a lock has one holder; counted rows are locked; who passed the count still has two; a seen row existed |
| `PersonEditsProofs` | what was read is never newer than the row; a PATCH reads after its client did; an approval checked the merge on what it read |
| `InvitationsProofs` | held rows are pending in the table; what a request holds follows from its statement; one row for each member |
| `ParentChildProofs` | one writer for each row, one in the clan past its lock; what the guard found holds until COMMIT because only deletes run meanwhile; a new parent who does not descend from the child closes no cycle |
| `DocumentsProofs` | who has moved a blob is alone and its row does not exist; past the retention nobody uploads to the path again |
| `AnniversaryJobProofs` | a run at work holds the lock unless one of its day dropped (`WorkersHold`); then nobody else writes the log, and what the dedup SELECT found holds until the push (`DedupHolds`); a due, unedited row is still to come, at hand, recorded or failed (`NothingDueIsMissed`) |
| `AccountsProofs` | |
| – `IInv`, claims | a person lock has one holder; whoever is past the guard holds it and the person is free |
| – `AccountsIInv`, registration | an account is registered by one request (`OneRegisters`) and an address has one live account (`OneHolder`), what nobody has signed in to has nothing in the database (`NothingYet`); what a request asks fits the state of its account (`AskingFor`) |
| – `LimitIInv`, rate limit | the shared log holds what it admitted in the window (`SharedCounts`); a log in memory has an entry of its own for each hit younger than the window less a deadline, and none is newer than the last by more than that (`LogCounts`); scripts are in time (`InTime`) |
| `PartsProofs` | |
| – `ReleaseIInv` | past its migration a job has the database at its head, and the deployments routed to are no newer than what the database has seen; so is the web |
| – `ClanIInv` | the swap about to commit has cleared the founder that there is, unless it flags him (`ClearedIsFounder`); it is the only one, and no other has cleared anyone (`OneSwap`) |
| – `DiaryIInv` | the log of an event, replayed, gives its row (`LogTells`); a request that has raised an event has a copy that is the row with what the event tells, unless the row is newer (`RequestsTell`); one request holds the row (`RowLocked`). A replay starts from the columns that the INSERT wrote, since the row of a create names none |
| – `DaysIInv` | the event and the day are of their sets; the rest is a fact of the two calendars (`OccurrenceIsKept`): the months of either lie end to end (`NextCivilDay`, `NextLunarDay`), so a day is kept only in the month of its year that the code looks at, and of this year's anniversary and the next one is the first from today. That a page misses an announced event only when it is full: what a LIMIT leaves out is no sooner than what it keeps (`LimitKeepsFirst`), through both cuts (`PageIsFull`) |
| – `KeyIInv` | what is cached was retired no earlier than the stamp, what a fetch brings no earlier than it began; a fetch in phase `n` began at most `n` timeouts ago |
| – `PathIInv` | each check that a request has passed held at a moment since it came, and its open transaction is scoped to its clan context (`Sound`); no dependency comes after one that needs it (`RoutesAreOrdered`) |
| – `WeddingsIInv` | who is about to write and was not outrun has checked the marriages as they are (`CheckHolds`) |
| – `PagesIInv` | of the rows that stay, those up to the cursor were shown once and no other (`ShownUpToCursor`); where keys do not change nothing beyond it was shown (`NoneShownAhead`) |
| – `SearchIInv` | ways are simple and made of steps of the graph, whom they meet is visited, rounds are whole (`WaysAreVisited`, `ByRounds`); the term is that of the way |
| – `ShortestIInv` | whoever a walk of so many steps reaches is visited, by a way that is shorter or no later in the order of the ids (`LeastFirst`); the frontier is what is as long as the round (`FrontierIsLast`) |
| – `ExportIInv` | a pair is linked once, whatever is committed; what two statements read makes a whole document (`DocumentsAreWhole`, from `MarriedAreCouples` on the greedy pairing and `UnitsPartition`) |
| – `TreesIInv` | the links number the people so that a parent comes before each child, whatever is committed (`Numbered`, `EditsStayNumbered`); the map is that of the links until something is committed, and its canonical parents are parents until something is removed (`Follows`, `NamesParents`); then everyone of the rows but the root hangs from one of a lower number, and so from the root (`AttachedIsBelow`, `EveryoneHangs`) |

`ParentChildProofs!Refinement` proves that `ParentChild` implements `FamilyGraph`: every
COMMIT is one edit the rules allow. It needs `LinkedOnce` (a live link is one edge) and
bounds the parents of the abstract graph by the links that the trigger counts.

**Assumptions.** Most only say that null values are not in the sets they extend, that bounds
and times are numbers, and that named roles and types exist. The ones that say something of the
program, each evaluated by TLC on its run:

* `FamiliesAreLinkedOnce`: a pair has one live link and nobody is his own parent (migration 022
  and the check of `parent_child`); `SearchesAreBounded`: the people of a clan are finite, and
  the search has a maximum of rounds. `FamiliesAreAcyclic`: nobody descends from himself to begin with
  (the trigger of migrations 021 and 022; the edits then keep it so, which is proved), and
  `FamiliesAreTyped`: links are between people, types and genders are those that the checks of
  migration 001 allow. `ParentChildAssumption` has finitely many link ids.
* `FetchesAreShort`: the phases of a fetch together last less than the TTL (5 s each, an hour). The code
  bounds each phase but not how many reads an answer takes, so this is an assumption about the provider.
* `EventsAreDated`: an event is told at most as many days ahead as the page reaches; a clan has finitely
  many events, and the page shows one at least.
* `MoonsAreSpaced`: a new moon follows the last by 29 or 30 days. `LunarYearsAreKnown`: the table
  reaches around the years of the events and the days, and a lunar year has twelve months, or
  thirteen of which one has the sun stand still. Both were computed once from the astronomy of
  `lunar_calendar.py` itself for every year the code supports, 1910 to 2199, and hold; TLC
  evaluates them on the table of its run.
* `ReleasesOnMain`: releases are numbered along main and migrations only grow along it, which is
  what `verify-ref` of the workflow is for.
* `UnionsAreNamed`, `PagesAreNumbered`, `DiaryIsNotEmpty`, `MarkersAreNoAddresses`,
  `LimitsAreNumbers`, `FirstsAreTyped`: markers, numbers, and sets that are not empty.

**What the proofs found.** `BudgetHolds` was not inductive as it stood (section 4). `AgeRank` of
`Kinship` was a CASE with branches that overlap, which TLC resolves by order and the logic does
not; it is nested conditions now, as in the code. `Married` of `GedcomExport` was a fold, of
which nothing can be proved without induction over a sequence; it is now the rounds of the
loop, and TLC found both equal on four people. `LunarDatesConvertBack`, the round trip that the docstring of
`lunar_to_solar` states, needs that no twelfth month is a leap one: a leap month is told by its
offset less 2, which is 0 there and 12 in the date. No supported year has such a month, and
`next_lunar_anniversary` never asks for a leap one, so nothing comes of it.

**Induction.** The library's induction theorems cannot be used here, so what
needs induction is stated on sets of numbers and proved once: a set of numbers has a least and,
bounded, a greatest element (`LeastNumber`, `GreatestNumber`), a set that has 0 and each
successor has them all (`NumbersUpTo`), a finite number of steps has a sequence (`StepsExist`),
a finite set has a least element of an order (`LeastOfAnOrder`), a recursion up a chain that ends
has a solution (`ChainsCount`), moons a month apart go up (`MoonsApart`). The folds over logs, the rounds of the searches, the pairing, the
generations and the levels of a tree rest on these; that a walk down comes to everyone below is
`ReachableIsClosed`.

Proved without being a property of a run, because a run says it already in other words or its
claim is small: types, `LostApprovals`, `CountedAdminsStay`, `RejectSparesApproved`,
`DecidedClaimsMove`, `VersionSuffices`, `DecisionsStay`, `BioParentsAreBounded`, `OneLinkForTwo`,
`DeletedForGood`, `OneOwner`, `AvatarsArePublished`, `StagedUploadsSurvive`, `NoLeak`,
`EndsComplete`, `CurrentIsOwn`, `OneFounder`, `LunarDatesConvertBack`. All of them were checked by
TLC before they were proved.

Only model-checked: `RequestsEnd` and `EveryTokenIsDecided`, which are liveness under fairness.
`ClanKeepsAnAdmin` is violated: that is TLC's counterexample.

## 6. Not modelled, and the plan

Not modelled: schemas, locale, logging, metrics and the middleware but for the rate limit,
which have no state that a property is about; the JSON archive and the text of GEDCOM; the
screens of the clients; configuration. Branches are single-row writes; a cycle of branches is a
limitation their handler states. `me` reads. Creation of a person inserts a new row and its
membership; it is `CreatePerson` in `ClanRecord` and nothing else depends on it. Of migrations
the constraints, triggers, functions and policies are modelled where they act; the NullPool of
an external pooler (`DB_EXTERNAL_POOLER`) takes the pool of `RequestPath` away and with it the
cycle that `TimeOut` breaks; with row security switched off `WorkStaysInItsClan` says nothing.

Hazards known and without a property: writers of different clans over the same people may
deadlock in the guard of migration 022 (each holds KEY SHARE and wants FOR UPDATE), which
PostgreSQL breaks; the refresh that a burst of 401s shares in the mobile client
(`token_refresher.dart`); set_avatar, which can undo a deletion that commits while it publishes.

Next, in this order:

1. The session refresh of the mobile and web clients.
2. Composition of `ClanMembership` with `Invitations` and `IdentityClaims` over one
   `user_clan_roles`, whose writers now appear in each other as environment actions.
