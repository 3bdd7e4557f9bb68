------------------------------ MODULE PartsProofs ------------------------------
(***************************************************************************)
(* The components that MCRecords and MCAccess check side by side, and the  *)
(* reads of the family, for every value of their constants.                *)
(*                                                                         *)
(* In the first two a behavior is one of the component that its initial    *)
(* state chooses; each section first says that a step of the whole is a    *)
(* step of the component, or leaves it alone.                              *)
(***************************************************************************)
EXTENDS MCRecords, MCAccess, FamilyReads, FiniteSetTheorems, SequenceTheorems,
        WellFoundedInduction, TLAPS

-----------------------------------------------------------------------------
(* Numbers *)

\* A set of natural numbers has a least one: induction, as a statement on sets.
LEMMA LeastNumber ==
    ASSUME NEW T \in SUBSET Nat, T # {}
    PROVE  \E x \in T : \A y \in T : x <= y
<1>1. IsWellFoundedOn(OpToRel(<, Nat), Nat)
  BY NatLessThanWellFounded
<1>2. PICK x \in T : \A y \in T : ~(<<y, x>> \in OpToRel(<, Nat))
  BY <1>1, WFMin
<1>3. \A y \in T : ~(y < x)
  BY <1>2 DEF OpToRel
<1> QED
  BY <1>3

\* A bounded one has a greatest.
LEMMA GreatestNumber ==
    ASSUME NEW n \in Nat, NEW T \in SUBSET (0..n), T # {}
    PROVE  \E x \in T : \A y \in T : y <= x
<1> DEFINE U == {n - y : y \in T}
<1>1. U \in SUBSET Nat /\ U # {}
  <2>1. \A y \in T : n - y \in U /\ n - y \in Nat
    OBVIOUS
  <2> QED
    BY <2>1
<1>2. PICK u \in U : \A v \in U : u <= v
  BY <1>1, LeastNumber
<1>3. PICK x \in T : u = n - x
  OBVIOUS
<1>4. ASSUME NEW y \in T PROVE y <= x
  <2>1. n - y \in U
    OBVIOUS
  <2> QED
    BY <1>2, <1>3, <2>1
<1> QED
  BY <1>4

\* Induction, as a statement on sets.
LEMMA NumbersUpTo ==
    ASSUME NEW m \in Nat, NEW T, 0 \in T, \A n \in 0..m : n < m /\ n \in T => n + 1 \in T
    PROVE  \A n \in 0..m : n \in T
<1> DEFINE U == {n \in 0..m : n \notin T}
<1> SUFFICES ASSUME U # {} PROVE FALSE
  OBVIOUS
<1>1. U \in SUBSET Nat
  OBVIOUS
<1>2. PICK x \in U : \A y \in U : x <= y
  BY <1>1, LeastNumber
<1>3. x # 0 /\ x - 1 \in 0..m /\ x - 1 < m
  OBVIOUS
<1>4. x - 1 \in T
  BY <1>2, <1>3
<1> QED
  BY <1>3, <1>4

Steps(f, m, next) == \A n \in 1..m : f[n] = next[<<n, f[n - 1]>>]

\* A recursion on numbers has a solution.
LEMMA StepsExist ==
    ASSUME NEW m \in Nat, NEW S, NEW first \in S, NEW next \in [(1..m) \X S -> S]
    PROVE  \E f \in [0..m -> S] : f[0] = first /\ Steps(f, m, next)
<1> DEFINE Goes(x, f) == f[0] = first /\ \A n \in 1..x : f[n] = next[<<n, f[n - 1]>>]
           T == {x \in 0..m : \E f \in [0..x -> S] : Goes(x, f)}
<1>1. 0 \in T
  <2> DEFINE f == [n \in 0..0 |-> first]
  <2>1. f \in [0..0 -> S] /\ f[0] = first
    OBVIOUS
  <2> HIDE DEF f
  <2>2. Goes(0, f)
    BY <2>1
  <2> QED
    BY <2>1, <2>2
<1>2. ASSUME NEW x \in 0..m, x < m, x \in T PROVE x + 1 \in T
  <2>1. PICK f \in [0..x -> S] : Goes(x, f)
    BY <1>2
  <2> DEFINE g == [n \in 0..(x + 1) |-> IF n = x + 1 THEN next[<<x + 1, f[x]>>] ELSE f[n]]
  <2>2. g \in [0..(x + 1) -> S]
    BY <1>2
  <2>3. /\ g[0] = f[0] /\ \A n \in 1..x : g[n] = f[n] /\ g[n - 1] = f[n - 1]
        /\ g[x + 1] = next[<<x + 1, f[x]>>] /\ g[x] = f[x]
    BY <1>2
  <2> HIDE DEF g
  <2>4. Goes(x + 1, g)
    <3>1. ASSUME NEW n \in 1..(x + 1) PROVE g[n] = next[<<n, g[n - 1]>>]
      <4>1. CASE n = x + 1
        BY <1>2, <2>3, <4>1
      <4>2. CASE n # x + 1
        BY <1>2, <2>1, <2>3, <4>2
      <4> QED
        BY <4>1, <4>2
    <3> QED
      BY <2>1, <2>3, <3>1
  <2> QED
    BY <1>2, <2>2, <2>4
<1> HIDE DEF T
<1>3. m \in T
  BY <1>1, <1>2, NumbersUpTo
<1> QED
  BY <1>3 DEF T, Steps

-----------------------------------------------------------------------------
(* Releases *)

\* Between its migration and its end, no other job moves the database away from the
\* revision that a job has left, so that "current" means the head of its release.
JobOwnsDatabase ==
    /\ job.step \in {"api", "health"} => database = LastMigration(job.release)
    /\ job.step = "web" => LastMigration(job.answered) = LastMigration(job.release)

\* The database has every migration of the code that a request can reach.
Migrated == LastMigration(live) <= database /\ LastMigration(previous) <= database

ReleaseIInv ==
    /\ Rollout!TypeOK
    /\ JobOwnsDatabase
    /\ Migrated
    /\ LastMigration(web.answered) = LastMigration(web.release)

-----------------------------------------------------------------------------

\* Code serves exactly on a database that has its migrations (readiness.py, read_migrations).
LEMMA ServesMigrated ==
    ASSUME NEW k \in Releases, database \in {LastMigration(j) : j \in Releases}
    PROVE  Rollout!Serves(k) <=> LastMigration(k) <= database
<1>1. PICK j \in Releases : database = LastMigration(j)
  OBVIOUS
<1>2. LastMigration(j) \in Nat /\ LastMigration(k) \in Nat /\ j \in Nat /\ k \in Nat
  BY ReleasesOnMain
<1>3. CASE database = LastMigration(k)
  BY <1>2, <1>3 DEF Rollout!Serves, Rollout!Servable, Rollout!Status
<1>4. CASE database # LastMigration(k) /\ database \in Rollout!Revisions(k)
  <2>1. PICK i \in Releases : i <= k /\ database = LastMigration(i)
    BY <1>4 DEF Rollout!Revisions
  <2>2. LastMigration(i) <= LastMigration(k)
    BY <2>1, ReleasesOnMain
  <2>3. ~(LastMigration(k) <= database)
    BY <1>1, <1>2, <1>4, <2>1, <2>2
  <2>4. Rollout!Status(k) = "behind"
    BY <1>4 DEF Rollout!Status
  <2> QED
    BY <2>3, <2>4 DEF Rollout!Serves, Rollout!Servable
<1>5. CASE database # LastMigration(k) /\ database \notin Rollout!Revisions(k)
  <2>1. ~(j <= k)
    BY <1>1, <1>5 DEF Rollout!Revisions
  <2>2. LastMigration(k) <= database
    BY <1>1, <1>2, <2>1, ReleasesOnMain
  <2>3. Rollout!Status(k) = "ahead"
    BY <1>5 DEF Rollout!Status
  <2> QED
    BY <2>2, <2>3 DEF Rollout!Serves, Rollout!Servable
<1> QED
  BY <1>3, <1>4, <1>5

LEMMA InitReleaseIInv == Rollout!Init => ReleaseIInv
  BY ReleasesOnMain DEF Rollout!Init, ReleaseIInv, Rollout!TypeOK, JobOwnsDatabase, Migrated

\* A migration moves the database forward only.
LEMMA MigratesForward ==
    ASSUME Rollout!TypeOK, Rollout!Migrate
    PROVE  database' = LastMigration(job.release) /\ database <= database'
<1>1. PICK i \in Releases : i <= job.release /\ database = LastMigration(i)
  BY DEF Rollout!Migrate, Rollout!Revisions
<1> QED
  BY <1>1, ReleasesOnMain DEF Rollout!Migrate, Rollout!TypeOK

LEMMA NextReleaseIInv == ASSUME ReleaseIInv, [Rollout!Next]_releaseVars PROVE ReleaseIInv'
<1> USE DEF ReleaseIInv
<1>0. /\ LastMigration(live) \in Nat /\ LastMigration(previous) \in Nat
      /\ database \in Nat /\ LastMigration(job.release) \in Nat
  BY ReleasesOnMain DEF Rollout!TypeOK
<1>1. ASSUME NEW k \in Releases, Rollout!Publish(k) PROVE ReleaseIInv'
  BY <1>1 DEF Rollout!Publish, Rollout!TypeOK, JobOwnsDatabase, Migrated
<1>2. CASE Rollout!Start
  <2>1. waiting \in Releases
    BY <1>2 DEF Rollout!Start, Rollout!TypeOK
  <2>2. 0 \in 0..MaxAttempts
    BY ReleasesOnMain
  <2>3. job' = [job EXCEPT !.step = "migrate", !.release = waiting, !.attempts = 0]
    BY <1>2 DEF Rollout!Start
  <2>4. job' \in [step : {"none", "migrate", "api", "health", "web"}, release : Releases,
                  attempts : 0..MaxAttempts, answered : Releases] /\ job'.step = "migrate"
    BY <2>1, <2>2, <2>3 DEF Rollout!TypeOK
  <2> QED
    BY <1>2, <2>4 DEF Rollout!Start, Rollout!TypeOK, JobOwnsDatabase, Migrated
<1>3. CASE Rollout!Migrate
  <2>1. database' = LastMigration(job.release) /\ database <= database'
    BY <1>3, MigratesForward
  <2>2. Rollout!TypeOK'
    BY <1>3 DEF Rollout!Migrate, Rollout!TypeOK
  <2>3. JobOwnsDatabase'
    BY <1>3, <2>1 DEF Rollout!Migrate, Rollout!TypeOK, JobOwnsDatabase
  <2>4. Migrated'
    BY <1>3, <1>0, <2>1 DEF Rollout!Migrate, Migrated
  <2> QED
    BY <1>3, <2>2, <2>3, <2>4 DEF Rollout!Migrate
<1>4. CASE Rollout!DeployApi
  BY <1>4, <1>0 DEF Rollout!DeployApi, Rollout!TypeOK, JobOwnsDatabase, Migrated
<1>5. CASE Rollout!ReadHealth
  <2>1. ASSUME NEW k \in {live, previous}, Rollout!Passes(k),
               job' = [job EXCEPT !.step = "web", !.answered = k],
               UNCHANGED <<database, live, previous, assigned, web, waiting>>
        PROVE  ReleaseIInv'
    <3>1. k \in Releases /\ job.step \in {"api", "health"}
      BY <1>5 DEF Rollout!ReadHealth, Rollout!TypeOK
    <3>2. LastMigration(k) = database
      BY <2>1, <3>1 DEF Rollout!Passes, Rollout!Status
    <3> QED
      BY <1>5, <2>1, <3>1, <3>2 DEF Rollout!TypeOK, JobOwnsDatabase, Migrated
  <2>2. ASSUME job' = [job EXCEPT !.attempts = @ + 1],
               UNCHANGED <<database, live, previous, assigned, web, waiting>>
        PROVE  ReleaseIInv'
    BY <1>5, <2>2, ReleasesOnMain DEF Rollout!ReadHealth, Rollout!TypeOK, JobOwnsDatabase, Migrated
  <2> QED
    BY <1>5, <2>1, <2>2 DEF Rollout!ReadHealth
<1>6. CASE Rollout!DeployWeb
  BY <1>6 DEF Rollout!DeployWeb, Rollout!TypeOK, JobOwnsDatabase, Migrated
<1>7. CASE Rollout!Fail
  BY <1>7 DEF Rollout!Fail, Rollout!TypeOK, JobOwnsDatabase, Migrated
<1>8. CASE Rollout!RollBack
  BY <1>8 DEF Rollout!RollBack, Rollout!TypeOK, JobOwnsDatabase, Migrated
<1>9. CASE Rollout!Promote
  BY <1>9 DEF Rollout!Promote, Rollout!TypeOK, JobOwnsDatabase, Migrated
<1>10. CASE UNCHANGED releaseVars
  BY <1>10 DEF releaseVars, Rollout!TypeOK, JobOwnsDatabase, Migrated
<1> QED
  BY <1>1, <1>2, <1>3, <1>4, <1>5, <1>6, <1>7, <1>8, <1>9, <1>10 DEF Rollout!Next

LEMMA ReleaseStep ==
    ASSUME record = "release", [RecordsNext]_recordVars
    PROVE  record' = record /\ [Rollout!Next]_releaseVars
  BY DEF RecordsNext, recordVars, releaseVars

\* The invariant in a behavior of the release.
LEMMA ReleaseInvariant == RecordsSpec => [](record = "release" => ReleaseIInv)
<1>1. RecordsInit => (record = "release" => ReleaseIInv)
  BY InitReleaseIInv DEF RecordsInit
<1>2. (record = "release" => ReleaseIInv) /\ [RecordsNext]_recordVars
        => (record = "release" => ReleaseIInv)'
  <2> SUFFICES ASSUME record = "release" => ReleaseIInv, [RecordsNext]_recordVars, record' = "release"
               PROVE  ReleaseIInv'
    OBVIOUS
  <2>1. record = "release"
    BY DEF RecordsNext, recordVars
  <2> QED
    BY <2>1, ReleaseStep, NextReleaseIInv
<1> QED
  BY <1>1, <1>2, PTL DEF RecordsSpec

\* No release or rollback makes a request reach code that does not boot, and the web
\* never goes out on the answer of an API with other migrations (release.yml, readiness.py).
THEOREM KeepsServing == RecordsSpec => []ReleaseKeepsServing
<1>1. (record = "release" => ReleaseIInv) => ReleaseKeepsServing
  BY ServesMigrated
     DEF ReleaseIInv, Rollout!TypeOK, Migrated, ReleaseKeepsServing, Rollout!ReleaseKeepsServing
<1> QED
  BY <1>1, ReleaseInvariant, PTL

\* A job reads "current" only from code with the migrations it has just applied.
THEOREM CurrentIsOwn == RecordsSpec => [](record = "release" => JobOwnsDatabase)
<1>1. (record = "release" => ReleaseIInv) => (record = "release" => JobOwnsDatabase)
  BY DEF ReleaseIInv
<1> QED
  BY <1>1, ReleaseInvariant, PTL

-----------------------------------------------------------------------------
(* The record of a clan *)

\* The person a request flags is a member of the clan, which only grows.
FlagsMembers ==
    \A r \in Admins :
        at[r] \in {"look", "clear", "wait", "set", "commit", "note"} => work[r].person \in members

\* What a request has cleared is the founder, and the request about to commit has
\* cleared the founder that there is, unless it is the person it flags.
ClearedIsFounder ==
    /\ \A p, q \in founders : p = q
    /\ \A r \in Admins : at[r] \in {"set", "commit"} => work[r].found \subseteq founders
    /\ \A r \in Admins : at[r] = "commit" => founders \subseteq work[r].found \cup {work[r].person}

\* One request at a time is about to commit a founder, and no other has cleared one.
OneSwap ==
    \A r, s \in Admins :
        at[r] = "commit" /\ r # s => at[s] # "commit" /\ (at[s] = "set" => work[s].found = {})

ClanIInv == Clan!TypeOK /\ FlagsMembers /\ ClearedIsFounder /\ OneSwap

LEMMA InitClanIInv == Clan!Init => ClanIInv
  BY DEF Clan!Init, ClanIInv, Clan!TypeOK, Clan!AnyWork, Clan!Work,
         FlagsMembers, ClearedIsFounder, OneSwap

\* A request that ends holds nothing and flags nobody.
LEMMA EndsIdle ==
    ASSUME Clan!TypeOK, NEW r \in Admins, Clan!End(r)
    PROVE  /\ at' \in [Admins -> {"idle", "save", "look", "clear", "wait", "set", "commit", "note"}]
           /\ work' \in [Admins -> Clan!Work]
           /\ at'[r] = "idle"
           /\ \A s \in Admins \ {r} : at'[s] = at[s] /\ work'[s] = work[s]
<1>1. work[r] \in Clan!Work
  BY DEF Clan!TypeOK
<1>2. [work[r] EXCEPT !.person = NoPerson, !.read = {}, !.found = {}] \in Clan!Work
  BY <1>1 DEF Clan!Work
<1> QED
  BY <1>2 DEF Clan!End, Clan!Goto, Clan!TypeOK

\* A request that begins has read the row as it is.
LEMMA BeginsTyped ==
    ASSUME Clan!TypeOK, NEW r \in Admins, NEW statement \in {"save", "look"}, NEW w \in Clan!Work,
           Clan!Begin(r, statement, w), statement = "look" => w.person \in members,
           FlagsMembers, ClearedIsFounder, OneSwap
    PROVE  ClanIInv'
  BY DEF Clan!Begin, Clan!TypeOK, ClanIInv, FlagsMembers, ClearedIsFounder, OneSwap

LEMMA NextClanIInv == ASSUME ClanIInv, [Clan!Next]_clanVars PROVE ClanIInv'
<1> USE DEF ClanIInv
<1>0. Clan!AnyWork \in Clan!Work
  BY DEF Clan!TypeOK, Clan!AnyWork, Clan!Work
<1>1. ASSUME NEW r \in Admins, NEW n \in Names, Clan!BeginProfile(r, n) PROVE ClanIInv'
  <2>1. [Clan!AnyWork EXCEPT !.set.name = n] \in Clan!Work
    BY <1>0 DEF Clan!Work
  <2> QED
    BY <1>1, <2>1, BeginsTyped DEF Clan!BeginProfile
<1>2. ASSUME NEW r \in Admins, NEW f \in BOOLEAN, Clan!BeginFlag(r, f) PROVE ClanIInv'
  <2>1. [Clan!AnyWork EXCEPT !.set.flag = f] \in Clan!Work
    BY <1>0 DEF Clan!Work
  <2> QED
    BY <1>2, <2>1, BeginsTyped DEF Clan!BeginFlag
<1>3. ASSUME NEW r \in Admins, NEW p \in Relatives, Clan!BeginFounder(r, p) PROVE ClanIInv'
  <2> DEFINE w == [Clan!AnyWork EXCEPT !.person = p]
  <2>1. w \in Clan!Work /\ w.person = p
    BY <1>0 DEF Clan!Work
  <2>2. p \in members /\ Clan!Begin(r, "look", w)
    BY <1>3 DEF Clan!BeginFounder
  <2> HIDE DEF w
  <2> QED
    BY <2>1, <2>2, BeginsTyped
<1>4. ASSUME NEW r \in Admins, Clan!Save(r) PROVE ClanIInv'
  <2>1. profile' \in Names /\ active' \in BOOLEAN
    <3>1. work[r].set \in [name : Names, flag : BOOLEAN]
      BY DEF Clan!TypeOK, Clan!Work
    <3> QED
      BY <1>4, <3>1 DEF Clan!Save, Clan!TypeOK
  <2>2. Clan!End(r) /\ UNCHANGED <<members, founders, told>>
    BY <1>4 DEF Clan!Save
  <2> QED
    BY <2>1, <2>2, EndsIdle DEF Clan!TypeOK, FlagsMembers, ClearedIsFounder, OneSwap
<1>5. ASSUME NEW r \in Admins, Clan!Look(r) PROVE ClanIInv'
  BY <1>5 DEF Clan!Look, Clan!Goto, Clan!TypeOK, Clan!Work, FlagsMembers, ClearedIsFounder, OneSwap
<1>6. ASSUME NEW r \in Admins, Clan!Clear(r) PROVE ClanIInv'
  BY <1>6 DEF Clan!Clear, Clan!Goto, Clan!TypeOK, Clan!Work, FlagsMembers, ClearedIsFounder, OneSwap
<1>7. ASSUME NEW r \in Admins, Clan!Cleared(r) PROVE ClanIInv'
  <2>1. Clan!TypeOK' /\ FlagsMembers'
    BY <1>7 DEF Clan!Cleared, Clan!Goto, Clan!TypeOK, Clan!Work, FlagsMembers
  <2>2. /\ at'[r] = "set" /\ work'[r].found = work[r].found \cap founders
        /\ \A s \in Admins \ {r} : at'[s] = at[s] /\ work'[s] = work[s]
        /\ founders' = founders
    BY <1>7 DEF Clan!Cleared, Clan!Goto, Clan!TypeOK, Clan!Work
  <2>3. ClearedIsFounder'
    BY <2>2 DEF ClearedIsFounder
  <2>4. \A s \in Admins \ {r} : at[s] = "commit" => work[r].found \cap founders = {}
    BY <1>7 DEF Clan!Cleared, Clan!Unlocked, Clan!Held, ClearedIsFounder
  <2>5. OneSwap'
    BY <2>2, <2>4 DEF OneSwap
  <2> QED
    BY <2>1, <2>3, <2>5
<1>8. ASSUME NEW r \in Admins, Clan!Set(r) PROVE ClanIInv'
  <2>1. Clan!TypeOK' /\ FlagsMembers'
    BY <1>8 DEF Clan!Set, Clan!Goto, Clan!TypeOK, FlagsMembers
  <2>2. /\ at'[r] = "commit" /\ work' = work /\ founders' = founders
        /\ \A s \in Admins \ {r} : at'[s] = at[s] /\ at[s] # "commit"
        /\ founders \subseteq work[r].found \cup {work[r].person}
        /\ at[r] = "set"
    BY <1>8 DEF Clan!Set, Clan!Goto, Clan!TypeOK
  <2>3. ClearedIsFounder'
    BY <2>2 DEF ClearedIsFounder
  <2>4. \A s \in Admins \ {r} : at[s] = "set" => work[s].found = {}
    BY <1>8 DEF Clan!Set, Clan!Unlocked, Clan!Held, ClearedIsFounder
  <2>5. OneSwap'
    BY <2>2, <2>4 DEF OneSwap
  <2> QED
    BY <2>1, <2>3, <2>5
<1>9. ASSUME NEW r \in Admins, Clan!Commit(r) PROVE ClanIInv'
  <2>1. /\ at[r] = "commit" /\ work[r].person \in members
        /\ founders' = {work[r].person}
        /\ Clan!End(r) /\ UNCHANGED <<profile, active, members>>
    BY <1>9 DEF Clan!Commit, FlagsMembers, ClearedIsFounder
  <2>2. told' \in [person : Relatives \cup {NoPerson}, displaced : SUBSET Relatives]
    BY <1>9 DEF Clan!Commit, Clan!Designated, Clan!Displaced, Clan!TypeOK, Clan!Work
  <2>3. Clan!TypeOK' /\ FlagsMembers'
    BY <2>1, <2>2, EndsIdle DEF Clan!TypeOK, FlagsMembers
  <2>4. ClearedIsFounder' /\ OneSwap'
    BY <2>1, EndsIdle DEF ClearedIsFounder, OneSwap
  <2> QED
    BY <2>3, <2>4
<1>10. ASSUME NEW r \in Admins, Clan!Note(r) PROVE ClanIInv'
  <2>1. told' \in [person : Relatives \cup {NoPerson}, displaced : SUBSET Relatives]
    BY <1>10 DEF Clan!Note, Clan!Designated, Clan!TypeOK, Clan!Work
  <2>2. Clan!End(r) /\ UNCHANGED <<profile, active, members, founders>>
    BY <1>10 DEF Clan!Note
  <2> QED
    BY <2>1, <2>2, EndsIdle DEF Clan!TypeOK, FlagsMembers, ClearedIsFounder, OneSwap
<1>11. ASSUME NEW p \in Relatives, NEW f \in BOOLEAN, Clan!CreatePerson(p, f) PROVE ClanIInv'
  <2>1. Clan!TypeOK' /\ FlagsMembers'
    BY <1>11 DEF Clan!CreatePerson, Clan!TypeOK, FlagsMembers
  <2>2. CASE f
    <3>1. founders = {} /\ founders' = {p} /\ UNCHANGED <<at, work>>
      BY <1>11, <2>2 DEF Clan!CreatePerson
    <3>2. \A r \in Admins : at[r] # "commit"
      BY <1>11, <2>2 DEF Clan!CreatePerson, Clan!Held
    <3> QED
      BY <2>1, <3>1, <3>2 DEF ClearedIsFounder, OneSwap
  <2>3. CASE ~f
    BY <1>11, <2>1, <2>3 DEF Clan!CreatePerson, ClearedIsFounder, OneSwap
  <2> QED
    BY <2>2, <2>3
<1>12. ASSUME NEW r \in Admins, Clan!Abort(r) PROVE ClanIInv'
  <2>1. Clan!End(r) /\ UNCHANGED <<profile, active, members, founders, told>>
    BY <1>12 DEF Clan!Abort
  <2> QED
    BY <2>1, EndsIdle DEF Clan!TypeOK, FlagsMembers, ClearedIsFounder, OneSwap
<1>13. CASE UNCHANGED clanVars
  BY <1>13 DEF clanVars, Clan!TypeOK, FlagsMembers, ClearedIsFounder, OneSwap
<1> QED
  BY <1>1, <1>2, <1>3, <1>4, <1>5, <1>6, <1>7, <1>8, <1>9, <1>10, <1>11, <1>12, <1>13 DEF Clan!Next

LEMMA ClanStep ==
    ASSUME [RecordsNext]_recordVars
    PROVE  [Clan!Next]_clanVars
  BY DEF RecordsNext, recordVars, clanVars

LEMMA ClanInvariant == RecordsSpec => []ClanIInv
<1>1. RecordsInit => ClanIInv
  BY InitClanIInv DEF RecordsInit
<1>2. ClanIInv /\ [RecordsNext]_recordVars => ClanIInv'
  BY ClanStep, NextClanIInv
<1> QED
  BY <1>1, <1>2, PTL DEF RecordsSpec

\* No request that read the clan before it was suspended writes it active again,
\* however many admins and operators write at once (clan_repository.py, save_clan).
THEOREM SuspensionSticksAlways == RecordsSpec => SuspensionSticks
<1> DEFINE Sticks == ~active /\ active' => \E r \in Admins : at[r] = "save" /\ ~work[r].flag
<1>1. ClanIInv /\ [RecordsNext]_recordVars => [Sticks]_(Clan!vars)
  <2> SUFFICES ASSUME ClanIInv, [RecordsNext]_recordVars, ~active, active' = TRUE
               PROVE  \E r \in Admins : at[r] = "save" /\ ~work[r].flag
    BY DEF ClanIInv, Clan!TypeOK
  <2>1. PICK r \in Admins : Clan!Save(r)
    BY ClanStep DEF Clan!Next, clanVars, Clan!BeginProfile, Clan!BeginFlag, Clan!BeginFounder, Clan!Begin,
                    Clan!Look, Clan!Clear, Clan!Cleared, Clan!Set, Clan!Commit, Clan!Note,
                    Clan!Abort, Clan!CreatePerson
  <2>2. work[r].set.flag # work[r].flag /\ work[r].set.flag = TRUE
    BY <2>1 DEF Clan!Save
  <2> QED
    BY <2>1, <2>2 DEF Clan!Save, ClanIInv, Clan!TypeOK, Clan!Work
<1> QED
  BY <1>1, ClanInvariant, PTL DEF RecordsSpec, SuspensionSticks, Clan!SuspensionSticks

\* Whatever swaps overlap, the audit row of each names the founder it has displaced
\* (clan_repository.py, swap_founder; clan/handlers.py, designate_founder).
THEOREM FounderIsToldAlways == RecordsSpec => FounderIsTold
<1> DEFINE Told == \A r \in Admins : at[r] = "commit" /\ at'[r] = "idle" /\ founders' # founders =>
                      told' = [person |-> work[r].person, displaced |-> founders]
<1>1. ClanIInv /\ [RecordsNext]_recordVars => [Told]_(Clan!vars)
  <2> SUFFICES ASSUME ClanIInv, [RecordsNext]_recordVars, NEW r \in Admins,
                      at[r] = "commit", at'[r] = "idle", founders' # founders
               PROVE  told' = [person |-> work[r].person, displaced |-> founders]
    OBVIOUS
  <2>1. ~(\E p \in Relatives, f \in BOOLEAN : Clan!CreatePerson(p, f))
    BY DEF Clan!CreatePerson
  <2>2. PICK s \in Admins : Clan!Commit(s)
    BY <2>1, ClanStep
       DEF Clan!Next, clanVars, Clan!BeginProfile, Clan!BeginFlag, Clan!BeginFounder, Clan!Begin,
           Clan!Save, Clan!Look, Clan!Clear, Clan!Cleared, Clan!Set, Clan!Note, Clan!Abort
  <2>3. s = r
    BY <2>2 DEF ClanIInv, OneSwap, Clan!Commit
  <2>4. work[r].found = founders
    BY <2>2, <2>3 DEF ClanIInv, ClearedIsFounder, Clan!Commit
  <2> QED
    BY <2>2, <2>3, <2>4 DEF Clan!Commit, Clan!Designated, Clan!Displaced
<1> QED
  BY <1>1, ClanInvariant, PTL DEF RecordsSpec, FounderIsTold, Clan!FounderIsTold

\* The clan has one founder at most, and the founder is a member (migration 023).
THEOREM OneFounder == RecordsSpec => [](\A p, q \in founders : p = q /\ p \in members)
<1>1. ClanIInv => \A p, q \in founders : p = q /\ p \in members
  BY DEF ClanIInv, ClearedIsFounder, Clan!TypeOK
<1> QED
  BY <1>1, ClanInvariant, PTL

-----------------------------------------------------------------------------
(* Events and their audit log *)

Entries == Seq(Diary!Raised)

\* One more row of audit_logs changes nothing of what the rows before it tell.
LEMMA PrefixTold ==
    ASSUME NEW b, NEW s \in Entries, NEW t \in Entries, Len(s) <= Len(t), \A k \in 1..Len(s) : t[k] = s[k],
           NEW n \in 0..Len(s)
    PROVE  Diary!Replayed(b, t, n) = Diary!Replayed(b, s, n)
<1>0. Len(s) \in Nat
  BY DEF Entries
<1>1. ASSUME NEW f \in Fields PROVE Diary!Told(b, t, n, f) = Diary!Told(b, s, n, f)
  <2>1. Diary!Naming(t, n, f) = Diary!Naming(s, n, f)
    BY <1>0 DEF Diary!Naming
  <2>2. CASE Diary!Naming(s, n, f) = {}
    BY <2>1, <2>2 DEF Diary!Told
  <2>3. CASE Diary!Naming(s, n, f) # {}
    <3>1. Diary!Naming(s, n, f) \in SUBSET (0..Len(s))
      BY <1>0 DEF Diary!Naming
    <3>2. \E k \in Diary!Naming(s, n, f) : \A j \in Diary!Naming(s, n, f) : j <= k
      BY <1>0, <2>3, <3>1, GreatestNumber
    <3>3. Diary!Latest(Diary!Naming(s, n, f)) \in Diary!Naming(s, n, f)
      BY <3>2 DEF Diary!Latest
    <3>4. Diary!Latest(Diary!Naming(s, n, f)) \in 1..Len(s)
      BY <1>0, <3>3 DEF Diary!Naming
    <3> QED
      BY <2>1, <2>3, <3>4 DEF Diary!Told
  <2> QED
    BY <2>2, <2>3
<1>2. [f \in Fields |-> Diary!Told(b, t, n, f)] = [f \in Fields |-> Diary!Told(b, s, n, f)]
  BY <1>1
<1>3. n # 0 => t[n] = s[n]
  BY <1>0
<1> QED
  BY <1>2, <1>3 DEF Diary!Replayed

\* It replaces the columns it names.
Appends(b, s, x, t) ==
    /\ t \in Entries /\ Len(t) = Len(s) + 1 /\ t[Len(t)] = x
    /\ \A k \in 1..Len(s) : t[k] = s[k]
    /\ \A n \in 0..Len(s) : Diary!Replayed(b, t, n) = Diary!Replayed(b, s, n)
    /\ Diary!Replayed(b, t, Len(t)) =
         [state |-> IF x.action = "delete" THEN "deleted" ELSE "live",
          columns |-> Diary!Over(x.new, Diary!Replayed(b, s, Len(s)).columns),
          version |-> Len(s) + 1]

LEMMA ReplayAppends ==
    ASSUME NEW b, NEW s \in Entries, NEW x \in Diary!Raised, NEW t, t = s \o <<x>>
    PROVE  Appends(b, s, x, t)
<1>1. /\ t \in Entries /\ Len(t) = Len(s) + 1 /\ t[Len(t)] = x
      /\ \A k \in 1..Len(s) : t[k] = s[k]
      /\ Len(s) \in Nat /\ Len(t) \in Nat
  BY DEF Entries
<1>2. ASSUME NEW n \in 0..Len(s) PROVE Diary!Replayed(b, t, n) = Diary!Replayed(b, s, n)
  <2>1. Len(s) <= Len(t)
    BY <1>1
  <2> QED
    BY <1>1, <2>1, PrefixTold
<1>3. ASSUME NEW f \in Fields
      PROVE  Diary!Told(b, t, Len(t), f) =
                IF f \in DOMAIN x.new THEN x.new[f] ELSE Diary!Replayed(b, s, Len(s)).columns[f]
  <2>1. CASE f \in DOMAIN x.new
    <3> DEFINE N == Diary!Naming(t, Len(t), f)
    <3>1. Len(t) \in N /\ \A j \in N : j \in Nat /\ j <= Len(t)
      BY <1>1, <2>1 DEF Diary!Naming
    <3> HIDE DEF N
    <3>2. Diary!Latest(N) \in N /\ \A j \in N : j <= Diary!Latest(N)
      BY <3>1 DEF Diary!Latest
    <3>3. Diary!Latest(N) = Len(t)
      BY <3>1, <3>2, <1>1
    <3> QED
      BY <1>1, <2>1, <3>1, <3>3 DEF Diary!Told, N
  <2>2. CASE f \notin DOMAIN x.new
    <3>1. Diary!Naming(t, Len(t), f) = Diary!Naming(t, Len(s), f)
      BY <1>1, <2>2 DEF Diary!Naming
    <3>2. Diary!Told(b, t, Len(t), f) = Diary!Told(b, t, Len(s), f)
      BY <3>1 DEF Diary!Told
    <3>3. Diary!Told(b, t, Len(s), f) = Diary!Replayed(b, t, Len(s)).columns[f]
      BY DEF Diary!Replayed
    <3>4. Diary!Replayed(b, t, Len(s)) = Diary!Replayed(b, s, Len(s))
      BY <1>1, <1>2
    <3> QED
      BY <2>2, <3>2, <3>3, <3>4
  <2> QED
    BY <2>1, <2>2
<1>4. [f \in Fields |-> Diary!Told(b, t, Len(t), f)] = Diary!Over(x.new, Diary!Replayed(b, s, Len(s)).columns)
  BY <1>3 DEF Diary!Over
<1>5. Diary!Replayed(b, t, Len(t)) =
         [state |-> IF x.action = "delete" THEN "deleted" ELSE "live",
          columns |-> [f \in Fields |-> Diary!Told(b, t, Len(t), f)],
          version |-> Len(s) + 1]
  <2>1. Len(t) # 0 /\ t[Len(t)].action = x.action
    BY <1>1
  <2> QED
    BY <1>1, <2>1 DEF Diary!Replayed
<1> QED
  BY <1>1, <1>2, <1>4, <1>5 DEF Appends

\* A request holds one domain event from the method of its aggregate to its row of
\* audit_logs; a copy that is not stale is the row with what the event tells, and
\* under the lock of the row a PATCH holds such a copy.
RaisedBy(r) == IF requests[r].pc = "dispatched" THEN requests[r].added[1] ELSE requests[r].aggregate[1]

Under(r) == requests[r].pc \in {"raised", "saved", "dispatched"}

Locks(r) == requests[r].pc \in {"saved", "dispatched"}

HoldsOne(r) ==
    /\ RaisedBy(r) \in Diary!Raised
    /\ requests[r].pc = "dispatched" => requests[r].added = <<RaisedBy(r)>>
    /\ requests[r].pc # "dispatched" => requests[r].aggregate = <<RaisedBy(r)>>

TellsOld(x, columns) == x.old = [f \in DOMAIN x.old |-> columns[f]]

TellsTheCopy(r) ==
    LET copy == requests[r].copy
        row == diary[requests[r].event]
    IN  /\ copy.state = IF RaisedBy(r).action = "delete" THEN "deleted" ELSE "live"
        /\ requests[r].expected <= copy.version /\ copy.version <= row.version
        /\ RaisedBy(r).action = "create" <=> copy.version = 0
        /\ copy.version = 0 =>
             RaisedBy(r).new = Diary!NoColumns /\ RaisedBy(r).old = Diary!NoColumns
        /\ copy.version = row.version /\ copy.version # 0 =>
             /\ copy.columns = Diary!Over(RaisedBy(r).new, row.columns)
             /\ TellsOld(RaisedBy(r), row.columns)

RequestsTell ==
    \A r \in Relatives : Under(r) =>
        /\ HoldsOne(r) /\ TellsTheCopy(r)
        /\ Locks(r) => requests[r].expected \in {0, diary[requests[r].event].version}

RowLocked ==
    \A q, r \in Relatives :
        Locks(q) /\ Locks(r) /\ requests[q].event = requests[r].event => q = r

\* EventAuditReplays, of one event.
OldTold(first, entries, n) == TellsOld(entries[n], Diary!Replayed(first, entries, n - 1).columns)

LogTells(e) ==
    LET row == Diary!Replayed(inserted[e], audit[e], Len(audit[e])) IN
    /\ diary[e].state = row.state /\ diary[e].version = row.version
    /\ e \notin overtaken =>
          /\ diary[e].columns = row.columns
          /\ \A n \in DOMAIN audit[e] : OldTold(inserted[e], audit[e], n)

DiaryIInv ==
    /\ Diary!TypeOK
    /\ \A e \in EventIds : LogTells(e)
    /\ RequestsTell
    /\ RowLocked

LEMMA OverTyped ==
    ASSUME NEW new \in Diary!Changes, NEW c \in Diary!Columns
    PROVE  Diary!Over(new, c) \in Diary!Columns
  BY DEF Diary!Over, Diary!Changes, Diary!Columns

LEMMA ColumnsExist == Diary!Unwritten.columns \in Diary!Columns
<1>1. PICK v \in Values : TRUE
  BY DiaryIsNotEmpty
<1>2. [f \in Fields |-> v] \in Diary!Columns
  BY DEF Diary!Columns
<1> QED
  BY <1>2 DEF Diary!Unwritten

LEMMA ColumnsAreChanges ==
    /\ Diary!Columns \subseteq Diary!Changes
    /\ Diary!NoColumns \in Diary!Changes
    /\ DOMAIN Diary!NoColumns = {}
    /\ \A c : Diary!NoColumns = [f \in DOMAIN Diary!NoColumns |-> c[f]]
    /\ \A c, d \in Diary!Columns : Diary!Over(c, d) = c
    /\ \A c \in Diary!Columns : Diary!Over(Diary!NoColumns, c) = c
<1>1. Diary!NoColumns \in [{} -> Values] /\ DOMAIN Diary!NoColumns = {}
  BY DEF Diary!NoColumns
<1>2. Diary!NoColumns \in Diary!Changes /\ Diary!Columns \subseteq Diary!Changes
  BY <1>1 DEF Diary!Changes, Diary!Columns
<1>3. \A c : Diary!NoColumns = [f \in DOMAIN Diary!NoColumns |-> c[f]]
  BY <1>1 DEF Diary!NoColumns
<1>4. \A c, d \in Diary!Columns : Diary!Over(c, d) = c
  BY DEF Diary!Over, Diary!Columns
<1>5. \A c \in Diary!Columns : Diary!Over(Diary!NoColumns, c) = c
  BY <1>1 DEF Diary!Over, Diary!Columns
<1> QED
  BY <1>1, <1>2, <1>3, <1>4, <1>5

LEMMA ReplayTyped ==
    ASSUME NEW b \in Diary!Columns, NEW s \in Entries, NEW n \in 0..Len(s)
    PROVE  Diary!Replayed(b, s, n) \in Diary!Row
<1>0. Len(s) \in Nat /\ \A k \in 1..Len(s) : s[k] \in Diary!Raised
  BY DEF Entries
<1>1. ASSUME NEW f \in Fields PROVE Diary!Told(b, s, n, f) \in Values
  <2>1. CASE Diary!Naming(s, n, f) = {}
    BY <2>1 DEF Diary!Told, Diary!Columns
  <2>2. CASE Diary!Naming(s, n, f) # {}
    <3>1. Diary!Naming(s, n, f) \in SUBSET (0..Len(s))
      BY <1>0 DEF Diary!Naming
    <3>2. \E k \in Diary!Naming(s, n, f) : \A j \in Diary!Naming(s, n, f) : j <= k
      BY <1>0, <2>2, <3>1, GreatestNumber
    <3> DEFINE k == Diary!Latest(Diary!Naming(s, n, f))
    <3>3. k \in Diary!Naming(s, n, f)
      BY <3>2 DEF Diary!Latest
    <3>4. k \in 1..Len(s) /\ f \in DOMAIN s[k].new
      BY <1>0, <3>3 DEF Diary!Naming
    <3>5. s[k].new \in Diary!Changes
      BY <1>0, <3>4 DEF Diary!Raised
    <3>6. s[k].new[f] \in Values
      BY <3>4, <3>5 DEF Diary!Changes
    <3> QED
      BY <2>2, <3>6 DEF Diary!Told
  <2> QED
    BY <2>1, <2>2
<1>2. [f \in Fields |-> Diary!Told(b, s, n, f)] \in Diary!Columns
  BY <1>1 DEF Diary!Columns
<1>3. n \in Nat
  BY <1>0
<1> QED
  BY <1>2, <1>3 DEF Diary!Replayed, Diary!Row

LEMMA InitDiaryIInv == Diary!Init => DiaryIInv
<1> SUFFICES ASSUME Diary!Init PROVE DiaryIInv
  OBVIOUS
<1> DEFINE created == [action |-> "create", old |-> Diary!NoColumns, new |-> Diary!NoColumns]
           deleted == [action |-> "delete", old |-> Diary!NoColumns, new |-> Diary!NoColumns]
<1>1. created \in Diary!Raised /\ deleted \in Diary!Raised
  BY ColumnsExist, ColumnsAreChanges DEF Diary!Raised
<1>2. ASSUME NEW e \in EventIds
      PROVE  audit[e] \in Entries /\ \A n \in DOMAIN audit[e] : audit[e][n].old = Diary!NoColumns
  <2> HIDE DEF created, deleted
  <2>1. created.old = Diary!NoColumns /\ deleted.old = Diary!NoColumns
    BY DEF created, deleted
  <2>2. audit[e] \in {<<>>, <<created>>, <<created, deleted>>}
    BY DEF Diary!Init, created, deleted
  <2>3. CASE audit[e] = <<>>
    BY <2>3 DEF Entries
  <2>4. CASE audit[e] = <<created>>
    BY <1>1, <2>1, <2>4 DEF Entries
  <2>5. CASE audit[e] = <<created, deleted>>
    BY <1>1, <2>1, <2>5 DEF Entries
  <2> QED
    BY <2>2, <2>3, <2>4, <2>5
<1>3. audit \in [EventIds -> Entries]
  BY <1>2 DEF Diary!Init
<1>4. diary = [e \in EventIds |-> Diary!Replayed(inserted[e], audit[e], Len(audit[e]))]
  BY DEF Diary!Init
<1>5. inserted \in [EventIds -> Diary!Columns] /\ \A e \in EventIds : diary[e] \in Diary!Row
  <2>1. \A e \in EventIds : Len(audit[e]) \in 0..Len(audit[e])
    BY <1>3 DEF Entries
  <2>2. inserted \in [EventIds -> Diary!Columns]
    BY ColumnsExist DEF Diary!Init
  <2> QED
    BY <1>3, <1>4, <2>1, <2>2, ReplayTyped
<1>6. Diary!TypeOK
  <2>1. Diary!Unwritten \in Diary!Row
    BY ColumnsExist DEF Diary!Unwritten, Diary!Row
  <2>2. (CHOOSE e \in EventIds : TRUE) \in EventIds
    BY DiaryIsNotEmpty
  <2>3. requests \in [Relatives -> Diary!Request] /\ overtaken = {}
    BY <2>1, <2>2 DEF Diary!Init, Diary!Request
  <2>4. diary \in [EventIds -> Diary!Row]
    BY <1>4, <1>5
  <2> QED
    BY <1>3, <1>5, <2>3, <2>4 DEF Diary!TypeOK, Entries
<1>7. ASSUME NEW e \in EventIds PROVE LogTells(e)
  <2>1. diary[e] = Diary!Replayed(inserted[e], audit[e], Len(audit[e]))
    BY <1>4
  <2>2. \A n \in DOMAIN audit[e] : OldTold(inserted[e], audit[e], n)
    BY <1>2, ColumnsAreChanges DEF OldTold, TellsOld
  <2> QED
    BY <2>1, <2>2 DEF LogTells
<1>8. \A r \in Relatives : requests[r].pc = "idle"
  BY DEF Diary!Init
<1> QED
  BY <1>6, <1>7, <1>8 DEF DiaryIInv, RequestsTell, RowLocked, Under, Locks

LEMMA LogStays ==
    ASSUME UNCHANGED <<diary, audit, inserted, overtaken>>, NEW e \in EventIds, LogTells(e)
    PROVE  LogTells(e)'
  BY DEF LogTells, OldTold

\* A request that begins holds the event of the copy it has read.
LEMMA HoldsKeeps ==
    ASSUME DiaryIInv, NEW r \in Relatives, NEW e \in EventIds, NEW copy \in Diary!Row,
           NEW x \in Diary!Raised, NEW expected \in Nat,
           requests[r].pc = "idle",
           requests' = [requests EXCEPT ![r] =
              [@ EXCEPT !.pc = "raised", !.event = e, !.copy = copy,
                        !.expected = expected, !.aggregate = <<x>>]],
           UNCHANGED <<diary, audit, inserted, overtaken>>,
           copy.state = IF x.action = "delete" THEN "deleted" ELSE "live",
           expected <= copy.version, copy.version = diary[e].version,
           x.action = "create" <=> copy.version = 0,
           copy.version = 0 => x.new = Diary!NoColumns /\ x.old = Diary!NoColumns,
           copy.version # 0 =>
              copy.columns = Diary!Over(x.new, diary[e].columns) /\ TellsOld(x, diary[e].columns)
    PROVE  DiaryIInv'
<1> DEFINE q == [requests[r] EXCEPT !.pc = "raised", !.event = e, !.copy = copy,
                                    !.expected = expected, !.aggregate = <<x>>]
<1>1. /\ q \in Diary!Request
      /\ q.pc = "raised" /\ q.event = e /\ q.copy = copy /\ q.expected = expected /\ q.aggregate = <<x>>
  <2>1. requests[r] \in Diary!Request
    BY DEF DiaryIInv, Diary!TypeOK
  <2>2. <<x>> \in Seq(Diary!Raised)
    OBVIOUS
  <2> QED
    BY <2>1, <2>2 DEF Diary!Request
<1>2. requests' = [requests EXCEPT ![r] = q]
  OBVIOUS
<1> HIDE DEF q
<1>3. /\ requests' \in [Relatives -> Diary!Request] /\ requests'[r] = q
      /\ \A s \in Relatives \ {r} : requests'[s] = requests[s]
  BY <1>1, <1>2 DEF DiaryIInv, Diary!TypeOK
<1>4. Diary!TypeOK' /\ \A d \in EventIds : LogTells(d)'
  BY <1>3, LogStays DEF DiaryIInv, Diary!TypeOK
<1>5. RequestsTell'
  <2> SUFFICES ASSUME NEW s \in Relatives, Under(s)'
               PROVE  /\ HoldsOne(s)' /\ TellsTheCopy(s)'
                      /\ Locks(s)' => (requests[s].expected \in {0, diary[requests[s].event].version})'
    BY DEF RequestsTell
  <2>1. CASE s = r
    <3>1. RaisedBy(s)' = x
      BY <2>1, <1>1, <1>3 DEF RaisedBy
    <3>2. HoldsOne(s)' /\ ~Locks(s)'
      BY <2>1, <3>1, <1>1, <1>3 DEF HoldsOne, Locks
    <3>3. TellsTheCopy(s)'
      BY <2>1, <3>1, <1>1, <1>3 DEF TellsTheCopy, DiaryIInv, Diary!TypeOK, Diary!Row
    <3> QED
      BY <3>2, <3>3
  <2>2. CASE s # r
    BY <2>2, <1>3 DEF DiaryIInv, RequestsTell, Under, HoldsOne, TellsTheCopy, RaisedBy, Locks
  <2> QED
    BY <2>1, <2>2
<1>6. RowLocked'
  BY <1>1, <1>3 DEF DiaryIInv, RowLocked, Locks
<1> QED
  BY <1>4, <1>5, <1>6 DEF DiaryIInv

\* A request that goes on without COMMIT keeps what it holds, or ends.
LEMMA GoesOn ==
    ASSUME DiaryIInv, NEW r \in Relatives, NEW q \in Diary!Request,
           requests' = [requests EXCEPT ![r] = q], UNCHANGED <<diary, audit, inserted, overtaken>>,
           q.event = requests[r].event,
           q.pc # "ended" =>
             /\ Under(r) /\ q.pc \in {"raised", "saved", "dispatched"}
             /\ q.copy = requests[r].copy /\ q.expected = requests[r].expected
             /\ q.pc = "dispatched" => q.added = <<RaisedBy(r)>>
             /\ q.pc # "dispatched" => q.aggregate = <<RaisedBy(r)>>
             /\ q.pc \in {"saved", "dispatched"} =>
                  /\ q.expected \in {0, diary[q.event].version}
                  /\ \A s \in Relatives \ {r} : Locks(s) => requests[s].event # q.event
    PROVE  DiaryIInv'
<1>1. /\ requests' \in [Relatives -> Diary!Request] /\ requests'[r] = q
      /\ \A s \in Relatives \ {r} : requests'[s] = requests[s]
  BY DEF DiaryIInv, Diary!TypeOK
<1>2. Diary!TypeOK' /\ \A d \in EventIds : LogTells(d)'
  BY <1>1, LogStays DEF DiaryIInv, Diary!TypeOK
<1>3. RequestsTell'
  <2> SUFFICES ASSUME NEW s \in Relatives, Under(s)'
               PROVE  /\ HoldsOne(s)' /\ TellsTheCopy(s)'
                      /\ Locks(s)' => (requests[s].expected \in {0, diary[requests[s].event].version})'
    BY DEF RequestsTell
  <2>1. CASE s = r
    <3>1. q.pc # "ended" /\ HoldsOne(r) /\ TellsTheCopy(r)
      BY <2>1, <1>1 DEF Under, DiaryIInv, RequestsTell
    <3>2. RaisedBy(s)' = RaisedBy(r)
      BY <2>1, <3>1, <1>1 DEF RaisedBy
    <3> QED
      BY <2>1, <3>1, <3>2, <1>1 DEF HoldsOne, TellsTheCopy, Locks
  <2>2. CASE s # r
    BY <2>2, <1>1 DEF DiaryIInv, RequestsTell, Under, HoldsOne, TellsTheCopy, RaisedBy, Locks
  <2> QED
    BY <2>1, <2>2
<1>4. RowLocked'
  BY <1>1 DEF DiaryIInv, RowLocked, Locks
<1> QED
  BY <1>2, <1>3, <1>4 DEF DiaryIInv

\* What a copy c writes, of which x tells, is the first columns b of the row or is over them.
WritesTold(e, b, x, c) ==
    \/ /\ b = inserted[e]
       /\ c.columns = Diary!Over(x.new, diary[e].columns)
       /\ TellsOld(x, diary[e].columns)
    \/ /\ diary[e].version = 0 /\ b = c.columns
       /\ x.new = Diary!NoColumns /\ x.old = Diary!NoColumns

\* COMMIT moves the row and its log together: x is the row of audit_logs, c the copy.
LEMMA CommitTells ==
    ASSUME NEW e \in EventIds, LogTells(e), diary[e] \in Diary!Row,
           NEW s \in Entries, s = audit[e], NEW x \in Diary!Raised,
           NEW t, t = s \o <<x>>, audit'[e] = t,
           NEW c \in Diary!Row,
           diary'[e] = [c EXCEPT !.version = diary[e].version + 1],
           NEW b \in Diary!Columns, inserted'[e] = b,
           c.state = IF x.action = "delete" THEN "deleted" ELSE "live",
           e \notin overtaken' => e \notin overtaken /\ WritesTold(e, b, x, c)
    PROVE  LogTells(e)'
<1>1. Appends(b, s, x, t)
  BY ReplayAppends
<1>2. /\ Len(s) \in Nat /\ DOMAIN s = 1..Len(s) /\ DOMAIN t = 1..(Len(s) + 1)
      /\ Len(t) = Len(s) + 1 /\ t[Len(s) + 1] = x /\ \A k \in 1..Len(s) : t[k] = s[k]
  BY <1>1 DEF Appends, Entries
<1>3. /\ diary'[e].state = c.state /\ diary'[e].columns = c.columns
      /\ diary'[e].version = diary[e].version + 1
  BY DEF Diary!Row
<1>4. diary[e].version = Len(s)
  BY DEF LogTells, Diary!Replayed
<1>5. /\ diary'[e].state = Diary!Replayed(b, t, Len(t)).state
      /\ diary'[e].version = Diary!Replayed(b, t, Len(t)).version
  BY <1>1, <1>3, <1>4 DEF Appends
<1>6. ASSUME e \notin overtaken'
      PROVE  diary'[e].columns = Diary!Replayed(b, t, Len(t)).columns /\ \A n \in DOMAIN t : OldTold(b, t, n)
  <2>1. CASE /\ b = inserted[e]
             /\ c.columns = Diary!Over(x.new, diary[e].columns)
             /\ TellsOld(x, diary[e].columns)
    <3>1. diary[e].columns = Diary!Replayed(b, s, Len(s)).columns /\ \A n \in DOMAIN s : OldTold(b, s, n)
      BY <1>6, <2>1 DEF LogTells
    <3>2. diary'[e].columns = Diary!Replayed(b, t, Len(t)).columns
      BY <1>1, <1>3, <2>1, <3>1 DEF Appends
    <3>3. ASSUME NEW n \in 1..Len(s) PROVE OldTold(b, t, n)
      <4>1. n - 1 \in 0..Len(s) /\ t[n] = s[n] /\ OldTold(b, s, n)
        BY <1>2, <3>1
      <4>2. Diary!Replayed(b, t, n - 1) = Diary!Replayed(b, s, n - 1)
        BY <1>1, <4>1 DEF Appends
      <4> QED
        BY <4>1, <4>2 DEF OldTold
    <3>4. OldTold(b, t, Len(s) + 1)
      <4>1. (Len(s) + 1) - 1 = Len(s) /\ Len(s) \in 0..Len(s) /\ t[Len(s) + 1] = x
        BY <1>2
      <4>2. Diary!Replayed(b, t, Len(s)).columns = diary[e].columns
        BY <1>1, <3>1, <4>1 DEF Appends
      <4> QED
        BY <2>1, <4>1, <4>2 DEF OldTold
    <3>5. \A n \in DOMAIN t : n \in 1..Len(s) \/ n = Len(s) + 1
      BY <1>2
    <3> QED
      BY <3>2, <3>3, <3>4, <3>5
  <2>2. CASE /\ diary[e].version = 0 /\ b = c.columns
             /\ x.new = Diary!NoColumns /\ x.old = Diary!NoColumns
    <3>1. Len(s) = 0 /\ DOMAIN t = 1..1 /\ t[1] = x
      BY <1>2, <1>4, <2>2
    <3>2. Diary!Replayed(b, s, 0).columns = b
      <4>1. \A f \in Fields : Diary!Told(b, s, 0, f) = b[f]
        BY DEF Diary!Told, Diary!Naming
      <4>2. [f \in Fields |-> Diary!Told(b, s, 0, f)] = b
        BY <4>1 DEF Diary!Columns
      <4> QED
        BY <4>2 DEF Diary!Replayed
    <3>3. Diary!Replayed(b, t, Len(t)).columns = b
      BY <1>1, <2>2, <3>1, <3>2, ColumnsAreChanges DEF Appends
    <3>4. OldTold(b, t, 1)
      BY <2>2, <3>1, ColumnsAreChanges DEF OldTold, TellsOld
    <3> QED
      BY <1>3, <2>2, <3>1, <3>3, <3>4
  <2> QED
    BY <1>6, <2>1, <2>2 DEF WritesTold
<1> QED
  BY <1>5, <1>6 DEF LogTells

LEMMA CommitKeeps == ASSUME DiaryIInv, NEW r \in Relatives, Diary!Commit(r) PROVE DiaryIInv'
<1>0. PICK e \in EventIds, c \in Diary!Row, x \in Diary!Raised :
         e = requests[r].event /\ c = requests[r].copy /\ x = RaisedBy(r)
  <2>1. Under(r)
    BY DEF Diary!Commit, Under
  <2> QED
    BY <2>1 DEF DiaryIInv, Diary!TypeOK, Diary!Request, RequestsTell, HoldsOne
<1>1. /\ requests[r].pc = "dispatched" /\ requests[r].added = <<x>>
      /\ requests[r].expected \in {0, diary[e].version} /\ requests[r].expected \in Nat
      /\ requests[r].expected <= c.version /\ c.version <= diary[e].version
      /\ c.state = IF x.action = "delete" THEN "deleted" ELSE "live"
      /\ c.version = 0 => x.new = Diary!NoColumns /\ x.old = Diary!NoColumns
      /\ c.version = diary[e].version /\ c.version # 0 =>
           /\ c.columns = Diary!Over(x.new, diary[e].columns)
           /\ TellsOld(x, diary[e].columns)
      /\ c.version \in Nat /\ diary[e].version \in Nat
      /\ diary[e] \in Diary!Row /\ audit[e] \in Entries
  <2>1. requests[r].pc = "dispatched" /\ Under(r) /\ Locks(r)
    BY DEF Diary!Commit, Under, Locks
  <2>2. HoldsOne(r) /\ TellsTheCopy(r) /\ requests[r].expected \in {0, diary[e].version}
    BY <1>0, <2>1 DEF DiaryIInv, RequestsTell
  <2>3. /\ requests[r].expected \in Nat /\ c.version \in Nat /\ diary[e].version \in Nat
        /\ diary[e] \in Diary!Row /\ audit[e] \in Entries
    BY <1>0 DEF DiaryIInv, Diary!TypeOK, Diary!Request, Diary!Row, Entries
  <2> QED
    BY <1>0, <2>1, <2>2, <2>3 DEF HoldsOne, TellsTheCopy
<1>2. /\ diary' = [diary EXCEPT ![e] = [c EXCEPT !.version = diary[e].version + 1]]
      /\ audit' = [audit EXCEPT ![e] = audit[e] \o <<x>>]
      /\ overtaken' = IF requests[r].expected = 0 /\ c.version # diary[e].version
                      THEN overtaken \cup {e} ELSE overtaken
      /\ inserted' = IF diary[e].state = "none" THEN [inserted EXCEPT ![e] = c.columns] ELSE inserted
      /\ requests' = [requests EXCEPT ![r].pc = "ended"]
  BY <1>0, <1>1 DEF Diary!Commit
<1>3. PICK w \in Diary!Row : w = [c EXCEPT !.version = diary[e].version + 1]
  <2>1. diary[e].version + 1 \in Nat
    BY <1>1
  <2> QED
    BY <2>1 DEF Diary!Row
<1>4. PICK t \in Entries : t = audit[e] \o <<x>>
  BY <1>1, ReplayAppends DEF Appends
<1>5. /\ audit'[e] = t /\ diary'[e] = w
      /\ \A d \in EventIds \ {e} : audit'[d] = audit[d] /\ diary'[d] = diary[d]
      /\ \A s \in Relatives \ {r} : requests'[s] = requests[s]
      /\ requests'[r].pc = "ended"
      /\ w.version = diary[e].version + 1
      /\ \A d \in EventIds \ {e} : inserted'[d] = inserted[d]
      /\ inserted'[e] = IF diary[e].version = 0 THEN c.columns ELSE inserted[e]
      /\ inserted' \in [EventIds -> Diary!Columns]
  <2>1. \A s \in Relatives \ {r} : requests'[s] = requests[s]
    BY <1>2 DEF DiaryIInv, Diary!TypeOK
  <2>2. requests'[r].pc = "ended"
    BY <1>2 DEF DiaryIInv, Diary!TypeOK, Diary!Request
  <2>3. w.version = diary[e].version + 1
    BY <1>3 DEF Diary!Row
  <2>4. /\ \A d \in EventIds \ {e} : inserted'[d] = inserted[d]
        /\ inserted'[e] = IF diary[e].state = "none" THEN c.columns ELSE inserted[e]
        /\ inserted' \in [EventIds -> Diary!Columns]
    BY <1>2 DEF DiaryIInv, Diary!TypeOK, Diary!Row
  <2>5. diary[e].state = "none" <=> diary[e].version = 0
    <3>1. LogTells(e)
      BY DEF DiaryIInv
    <3> QED
      BY <3>1 DEF LogTells, Diary!Replayed
  <2> QED
    BY <1>2, <1>3, <1>4, <2>1, <2>2, <2>3, <2>4, <2>5 DEF DiaryIInv, Diary!TypeOK
<1>6. Diary!TypeOK'
  <2>1. requests' \in [Relatives -> Diary!Request]
    BY <1>2 DEF DiaryIInv, Diary!TypeOK, Diary!Request
  <2>2. diary' \in [EventIds -> Diary!Row]
    BY <1>2, <1>3 DEF DiaryIInv, Diary!TypeOK
  <2>3. audit' \in [EventIds -> Seq(Diary!Raised)]
    BY <1>2, <1>4 DEF DiaryIInv, Diary!TypeOK, Entries
  <2>4. overtaken' \subseteq EventIds
    BY <1>2 DEF DiaryIInv, Diary!TypeOK
  <2> QED
    BY <1>5, <2>1, <2>2, <2>3, <2>4 DEF Diary!TypeOK
<1>7. LogTells(e)'
  <2>1. LogTells(e)
    BY DEF DiaryIInv
  <2>2. e \notin overtaken' => e \notin overtaken /\ c.version = diary[e].version
    BY <1>1, <1>2
  <2>3. PICK b \in Diary!Columns : inserted'[e] = b
    BY <1>5
  <2>4. e \notin overtaken' => e \notin overtaken /\ WritesTold(e, b, x, c)
    BY <1>1, <1>5, <2>2, <2>3 DEF WritesTold
  <2>5. diary'[e] = [c EXCEPT !.version = diary[e].version + 1]
    BY <1>3, <1>5
  <2>6. /\ diary[e] \in Diary!Row /\ audit[e] \in Entries /\ audit'[e] = t
        /\ c.state = IF x.action = "delete" THEN "deleted" ELSE "live"
    BY <1>1, <1>5
  <2> QED
    BY <1>4, <2>1, <2>3, <2>4, <2>5, <2>6, CommitTells
<1>8. ASSUME NEW d \in EventIds \ {e} PROVE LogTells(d)'
  <2>1. d \in overtaken' <=> d \in overtaken
    BY <1>2
  <2>2. audit'[d] = audit[d] /\ diary'[d] = diary[d] /\ inserted'[d] = inserted[d] /\ LogTells(d)
    BY <1>5 DEF DiaryIInv
  <2> QED
    BY <2>1, <2>2 DEF LogTells, OldTold
<1>9. RequestsTell'
  <2> SUFFICES ASSUME NEW s \in Relatives, Under(s)'
               PROVE  /\ HoldsOne(s)' /\ TellsTheCopy(s)'
                      /\ Locks(s)' => (requests[s].expected \in {0, diary[requests[s].event].version})'
    BY DEF RequestsTell
  <2>1. s # r /\ requests'[s] = requests[s] /\ Under(s)
    BY <1>5 DEF Under
  <2>2. /\ HoldsOne(s) /\ TellsTheCopy(s) /\ requests[s].event \in EventIds
        /\ requests[s].copy.version \in Nat /\ requests[s].expected \in Nat
        /\ Locks(s) => requests[s].expected \in {0, diary[requests[s].event].version}
    BY <2>1 DEF DiaryIInv, RequestsTell, Diary!TypeOK, Diary!Request, Diary!Row
  <2>3. HoldsOne(s)' /\ RaisedBy(s)' = RaisedBy(s)
    BY <2>1, <2>2 DEF HoldsOne, RaisedBy
  <2>4. CASE requests[s].event = e
    <3>1. ~Locks(s) /\ ~Locks(s)'
      BY <1>0, <1>1, <2>1, <2>4 DEF DiaryIInv, RowLocked, Locks
    <3>2. /\ diary'[e].version = diary[e].version + 1
          /\ requests[s].copy.version <= diary[e].version
      BY <1>5, <2>2, <2>4 DEF TellsTheCopy
    <3>3. requests[s].copy.version # diary'[e].version /\ requests[s].copy.version <= diary'[e].version
      BY <1>1, <2>2, <3>2
    <3>4. TellsTheCopy(s)'
      BY <2>1, <2>2, <2>3, <2>4, <3>3 DEF TellsTheCopy
    <3> QED
      BY <2>3, <3>1, <3>4
  <2>5. CASE requests[s].event # e
    <3>1. diary'[requests[s].event] = diary[requests[s].event]
      BY <1>5, <2>2, <2>5
    <3> QED
      BY <2>1, <2>2, <2>3, <3>1 DEF TellsTheCopy, Locks
  <2> QED
    BY <2>4, <2>5
<1>10. RowLocked'
  BY <1>5 DEF DiaryIInv, RowLocked, Locks
<1> QED
  BY <1>6, <1>7, <1>8, <1>9, <1>10 DEF DiaryIInv

\* A PATCH raises what it changes, with what that held.
LEMMA RaisedTyped ==
    /\ \A c \in Diary!Columns : Diary!Created(c).raised \in Diary!Raised
    /\ \A row \in Diary!Row, ch \in Diary!Changes : Diary!Updated(row, ch).raised \in Diary!Raised
    /\ \A row \in Diary!Row : Diary!Deleted(row).raised \in Diary!Raised
    /\ \A row \in Diary!Row : Diary!Restored(row).raised \in Diary!Raised
<1>1. ASSUME NEW row \in Diary!Row, NEW ch \in Diary!Changes
      PROVE  [f \in DOMAIN ch |-> row.columns[f]] \in Diary!Changes
  <2>1. PICK fs \in SUBSET Fields : ch \in [fs -> Values]
    BY DEF Diary!Changes
  <2>2. [f \in DOMAIN ch |-> row.columns[f]] \in [fs -> Values]
    BY <2>1 DEF Diary!Row, Diary!Columns
  <2> QED
    BY <2>2 DEF Diary!Changes
<1> QED
  BY <1>1, ColumnsAreChanges DEF Diary!Created, Diary!Updated, Diary!Deleted, Diary!Restored, Diary!Raised

\* A row that has not been written has no log; every other has a copy to read.
LEMMA BeginsKeep ==
    ASSUME DiaryIInv, NEW r \in Relatives, NEW e \in EventIds,
           Diary!Create(r, e) \/ Diary!Patch(r, e) \/ Diary!Delete(r, e) \/ Diary!Restore(r, e)
    PROVE  DiaryIInv'
<1>1. /\ diary[e] \in Diary!Row /\ diary[e].version \in Nat /\ diary[e].columns \in Diary!Columns
      /\ audit[e] \in Entries /\ LogTells(e)
      /\ diary[e].state # "none" => diary[e].version # 0
  <2>1. LogTells(e)
    BY DEF DiaryIInv
  <2>2. /\ diary[e] \in Diary!Row /\ diary[e].version \in Nat /\ diary[e].columns \in Diary!Columns
        /\ audit[e] \in Entries
    BY DEF DiaryIInv, Diary!TypeOK, Diary!Row, Entries
  <2>3. diary[e].state # "none" => diary[e].version # 0
    BY <2>1 DEF LogTells, Diary!Replayed
  <2> QED
    BY <2>1, <2>2, <2>3
<1>2. CASE Diary!Create(r, e)
  <2>1. PICK columns \in Diary!Columns : diary[e].state = "none" /\ Diary!Holds(r, e, Diary!Created(columns), 0)
    BY <1>2 DEF Diary!Create
  <2>2. PICK c \in Diary!Row : c = Diary!Created(columns).copy
    BY DEF Diary!Created, Diary!Row
  <2>3. PICK x \in Diary!Raised : x = Diary!Created(columns).raised
    BY RaisedTyped
  <2>4. diary[e].version = 0
    <3>1. Len(audit[e]) = 0
      BY <1>1, <2>1 DEF LogTells, Diary!Replayed, Entries
    <3> QED
      BY <1>1, <3>1 DEF LogTells, Diary!Replayed
  <2>5. /\ c.state = "live" /\ c.version = 0 /\ c.columns = columns
        /\ x.action = "create" /\ x.new = Diary!NoColumns /\ x.old = Diary!NoColumns
    BY <2>2, <2>3 DEF Diary!Created
  <2>6. c.version = 0 /\ x.action = "create"
    BY <2>5
  <2>7. /\ requests[r].pc = "idle" /\ UNCHANGED <<diary, audit, inserted, overtaken>>
        /\ requests' = [requests EXCEPT ![r] =
              [@ EXCEPT !.pc = "raised", !.event = e, !.copy = c, !.expected = 0, !.aggregate = <<x>>]]
    BY <2>1, <2>2, <2>3 DEF Diary!Holds
  <2>8. /\ 0 \in Nat /\ 0 <= c.version /\ c.version = diary[e].version
        /\ c.state = IF x.action = "delete" THEN "deleted" ELSE "live"
    BY <2>4, <2>5
  <2> QED
    BY <2>5, <2>6, <2>7, <2>8, HoldsKeeps
<1>3. CASE Diary!Patch(r, e)
  <2>1. PICK ch \in Diary!Changes, seen \in 1..diary[e].version :
            diary[e].state = "live" /\ Diary!Holds(r, e, Diary!Updated(diary[e], ch), seen)
    BY <1>3 DEF Diary!Patch
  <2>2. Diary!Over(ch, diary[e].columns) \in Diary!Columns
    BY <1>1, OverTyped
  <2>3. PICK c \in Diary!Row : c = Diary!Updated(diary[e], ch).copy
    BY <1>1, <2>2 DEF Diary!Updated, Diary!Row
  <2>4. PICK x \in Diary!Raised : x = Diary!Updated(diary[e], ch).raised
    BY <1>1, RaisedTyped
  <2>5. /\ c.state = "live" /\ c.version = diary[e].version /\ c.columns = Diary!Over(ch, diary[e].columns)
        /\ x.action = "update" /\ x.new = ch /\ c.version # 0
    BY <1>1, <2>1, <2>3, <2>4 DEF Diary!Updated, Diary!Row
  <2>6. TellsOld(x, diary[e].columns)
    BY <2>4 DEF TellsOld, Diary!Updated
  <2>7. /\ requests[r].pc = "idle" /\ UNCHANGED <<diary, audit, inserted, overtaken>>
        /\ requests' = [requests EXCEPT ![r] =
              [@ EXCEPT !.pc = "raised", !.event = e, !.copy = c, !.expected = seen, !.aggregate = <<x>>]]
    BY <2>1, <2>3, <2>4 DEF Diary!Holds
  <2>8. seen \in Nat /\ seen <= c.version
    BY <1>1, <2>5
  <2> QED
    BY <2>5, <2>6, <2>7, <2>8, HoldsKeeps
<1>4. CASE Diary!Delete(r, e)
  <2>1. diary[e].state = "live" /\ Diary!Holds(r, e, Diary!Deleted(diary[e]), 0)
    BY <1>4 DEF Diary!Delete
  <2>2. PICK c \in Diary!Row : c = Diary!Deleted(diary[e]).copy
    BY <1>1 DEF Diary!Deleted, Diary!Row
  <2>3. PICK x \in Diary!Raised : x = Diary!Deleted(diary[e]).raised
    BY <1>1, RaisedTyped
  <2>4. /\ c.state = "deleted" /\ c.version = diary[e].version /\ c.columns = diary[e].columns
        /\ x.action = "delete" /\ x.new = Diary!NoColumns /\ x.old = Diary!NoColumns /\ c.version # 0
    BY <1>1, <2>1, <2>2, <2>3 DEF Diary!Deleted, Diary!Row
  <2>5. c.columns = Diary!Over(x.new, diary[e].columns) /\ TellsOld(x, diary[e].columns)
    BY <1>1, <2>4, ColumnsAreChanges DEF TellsOld
  <2>6. /\ requests[r].pc = "idle" /\ UNCHANGED <<diary, audit, inserted, overtaken>>
        /\ requests' = [requests EXCEPT ![r] =
              [@ EXCEPT !.pc = "raised", !.event = e, !.copy = c, !.expected = 0, !.aggregate = <<x>>]]
    BY <2>1, <2>2, <2>3 DEF Diary!Holds
  <2>7. /\ 0 \in Nat /\ 0 <= c.version /\ c.version = diary[e].version
        /\ c.state = IF x.action = "delete" THEN "deleted" ELSE "live"
    BY <1>1, <2>4
  <2> QED
    BY <2>4, <2>5, <2>6, <2>7, HoldsKeeps
<1>5. CASE Diary!Restore(r, e)
  <2>1. diary[e].state = "deleted" /\ Diary!Holds(r, e, Diary!Restored(diary[e]), 0)
    BY <1>5 DEF Diary!Restore
  <2>2. PICK c \in Diary!Row : c = Diary!Restored(diary[e]).copy
    BY <1>1 DEF Diary!Restored, Diary!Row
  <2>3. PICK x \in Diary!Raised : x = Diary!Restored(diary[e]).raised
    BY <1>1, RaisedTyped
  <2>4. /\ c.state = "live" /\ c.version = diary[e].version /\ c.columns = diary[e].columns
        /\ x.action = "restore" /\ x.new = Diary!NoColumns /\ x.old = Diary!NoColumns /\ c.version # 0
    BY <1>1, <2>1, <2>2, <2>3 DEF Diary!Restored, Diary!Row
  <2>5. c.columns = Diary!Over(x.new, diary[e].columns) /\ TellsOld(x, diary[e].columns)
    BY <1>1, <2>4, ColumnsAreChanges DEF TellsOld
  <2>6. /\ requests[r].pc = "idle" /\ UNCHANGED <<diary, audit, inserted, overtaken>>
        /\ requests' = [requests EXCEPT ![r] =
              [@ EXCEPT !.pc = "raised", !.event = e, !.copy = c, !.expected = 0, !.aggregate = <<x>>]]
    BY <2>1, <2>2, <2>3 DEF Diary!Holds
  <2>7. /\ 0 \in Nat /\ 0 <= c.version /\ c.version = diary[e].version
        /\ c.state = IF x.action = "delete" THEN "deleted" ELSE "live"
    BY <1>1, <2>4
  <2> QED
    BY <2>4, <2>5, <2>6, <2>7, HoldsKeeps
<1> QED
  BY <1>2, <1>3, <1>4, <1>5

LEMMA NextDiaryIInv == ASSUME DiaryIInv, [Diary!Next]_diaryVars PROVE DiaryIInv'
<1>1. ASSUME NEW r \in Relatives, NEW e \in EventIds,
             Diary!Create(r, e) \/ Diary!Patch(r, e) \/ Diary!Delete(r, e) \/ Diary!Restore(r, e)
      PROVE  DiaryIInv'
  BY <1>1, BeginsKeep
<1>2. \A r \in Relatives : requests[r] \in Diary!Request
  BY DEF DiaryIInv, Diary!TypeOK
<1>3. ASSUME NEW r \in Relatives, Diary!Save(r) PROVE DiaryIInv'
  <2>1. PICK q \in Diary!Request : q = [requests[r] EXCEPT !.pc = "saved"]
    BY <1>2 DEF Diary!Request
  <2>2. /\ requests' = [requests EXCEPT ![r] = q] /\ UNCHANGED <<diary, audit, inserted, overtaken>>
        /\ q.event = requests[r].event /\ q.pc = "saved"
        /\ q.copy = requests[r].copy /\ q.expected = requests[r].expected
        /\ q.aggregate = requests[r].aggregate
    BY <1>2, <1>3, <2>1 DEF Diary!Save, Diary!Request
  <2>3. Under(r) /\ requests[r].pc = "raised" /\ q.expected \in {0, diary[q.event].version}
    BY <1>3, <2>2 DEF Under, Diary!Save, Diary!Matches
  <2>4. \A s \in Relatives \ {r} : Locks(s) => requests[s].event # q.event
    BY <1>3, <2>2 DEF Diary!Save, Diary!Unlocked, Locks
  <2>5. q.aggregate = <<RaisedBy(r)>>
    BY <2>2, <2>3 DEF DiaryIInv, RequestsTell, HoldsOne
  <2> QED
    BY <2>2, <2>3, <2>4, <2>5, GoesOn
<1>4. ASSUME NEW r \in Relatives, Diary!StaleWrite(r) \/ Diary!Abort(r) PROVE DiaryIInv'
  <2>1. PICK q \in Diary!Request : q = [requests[r] EXCEPT !.pc = "ended"]
    BY <1>2 DEF Diary!Request
  <2>2. /\ requests' = [requests EXCEPT ![r] = q] /\ UNCHANGED <<diary, audit, inserted, overtaken>>
        /\ q.event = requests[r].event /\ q.pc = "ended"
    BY <1>2, <1>4, <2>1 DEF Diary!StaleWrite, Diary!Abort, Diary!Request
  <2> QED
    BY <2>2, GoesOn
<1>5. ASSUME NEW r \in Relatives, Diary!Dispatch(r) PROVE DiaryIInv'
  <2>1. PICK q \in Diary!Request :
            q = [requests[r] EXCEPT !.pc = "dispatched", !.added = requests[r].aggregate, !.aggregate = <<>>]
    <3>1. requests[r].aggregate \in Seq(Diary!Raised) /\ <<>> \in Seq(Diary!Raised)
      BY <1>2 DEF Diary!Request
    <3> QED
      BY <1>2, <3>1 DEF Diary!Request
  <2>2. /\ requests' = [requests EXCEPT ![r] = q] /\ UNCHANGED <<diary, audit, inserted, overtaken>>
        /\ q.event = requests[r].event /\ q.pc = "dispatched"
        /\ q.copy = requests[r].copy /\ q.expected = requests[r].expected
        /\ q.added = requests[r].aggregate
    BY <1>2, <1>5, <2>1 DEF Diary!Dispatch, Diary!Request
  <2>3. Under(r) /\ Locks(r) /\ requests[r].pc = "saved"
    BY <1>5 DEF Under, Locks, Diary!Dispatch
  <2>4. q.expected \in {0, diary[q.event].version} /\ q.added = <<RaisedBy(r)>>
    BY <2>2, <2>3 DEF DiaryIInv, RequestsTell, HoldsOne
  <2>5. \A s \in Relatives \ {r} : Locks(s) => requests[s].event # q.event
    BY <2>2, <2>3 DEF DiaryIInv, RowLocked
  <2> QED
    BY <2>2, <2>3, <2>4, <2>5, GoesOn
<1>6. ASSUME NEW r \in Relatives, Diary!Commit(r) PROVE DiaryIInv'
  BY <1>6, CommitKeeps
<1>7. CASE UNCHANGED diaryVars
  BY <1>7, LogStays DEF diaryVars, DiaryIInv, Diary!TypeOK, RequestsTell, RowLocked, Under, HoldsOne,
                        TellsTheCopy, RaisedBy, Locks
<1> QED
  BY <1>1, <1>3, <1>4, <1>5, <1>6, <1>7 DEF Diary!Next

LEMMA DiaryStep ==
    ASSUME record = "diary", [RecordsNext]_recordVars PROVE record' = record /\ [Diary!Next]_diaryVars
  BY DEF RecordsNext, recordVars, diaryVars, releaseVars, clanVars, pageVars, eventVars, unionVars

LEMMA DiaryInvariant == RecordsSpec => [](record = "diary" => DiaryIInv)
<1>1. RecordsInit => (record = "diary" => DiaryIInv)
  BY InitDiaryIInv DEF RecordsInit
<1>2. (record = "diary" => DiaryIInv) /\ [RecordsNext]_recordVars => (record = "diary" => DiaryIInv)'
  <2> SUFFICES ASSUME record = "diary" => DiaryIInv, [RecordsNext]_recordVars, record' = "diary" PROVE DiaryIInv'
    OBVIOUS
  <2>1. record = "diary"
    BY DEF RecordsNext, recordVars
  <2> QED
    BY <2>1, DiaryStep, NextDiaryIInv
<1> QED
  BY <1>1, <1>2, PTL DEF RecordsSpec

\* The audit log of an event, replayed in the order of COMMIT on the columns that its INSERT
\* wrote, gives the row, its version and what each change has replaced, unless a delete or
\* restore was overtaken (event_repository.py, save; unit_of_work.py, commit): the one event a
\* request raises tells of the copy it writes, but for a create, whose row of audit_logs names
\* no column; and only an unconditional save writes an older copy.
THEOREM AuditReplaysAlways == RecordsSpec => []EventAuditReplays
<1>1. (record = "diary" => DiaryIInv) => EventAuditReplays
  BY DEF EventAuditReplays, Diary!EventAuditReplays, DiaryIInv, LogTells, OldTold, TellsOld
<1> QED
  BY <1>1, DiaryInvariant, PTL
-----------------------------------------------------------------------------
(* The days of an event *)

DaysIInv == record = "events" => events \in Calendars /\ today \in FirstDay..LastDay

LEMMA DaysInvariant == RecordsSpec => []DaysIInv
<1>1. RecordsInit => DaysIInv
  BY EventsAreDated DEF RecordsInit, DaysIInv, Events!Init
<1>2. DaysIInv /\ [RecordsNext]_recordVars => DaysIInv'
  <2> SUFFICES ASSUME DaysIInv, [RecordsNext]_recordVars, record' = "events" PROVE DaysIInv'
    BY DEF DaysIInv
  <2>1. record = "events" /\ [Events!Next]_eventVars
    BY DEF RecordsNext, recordVars, eventVars
  <2>2. events \in Calendars /\ today \in FirstDay..LastDay
    BY <2>1 DEF DaysIInv
  <2>3. CASE UNCHANGED eventVars
    BY <2>2, <2>3 DEF DaysIInv, eventVars
  <2>4. CASE Events!Next
    <3>1. events' = events /\ today' = today + 1 /\ today < LastDay
      BY <2>4 DEF Events!Next, Events!Tomorrow
    <3>2. today' \in FirstDay..LastDay
      BY <2>2, <3>1, EventsAreDated
    <3> QED
      BY <2>2, <3>1, <3>2 DEF DaysIInv
  <2> QED
    BY <2>1, <2>3, <2>4
<1> QED
  BY <1>1, <1>2, PTL DEF RecordsSpec

-----------------------------------------------------------------------------
(* Civil dates: the numbering of days, months of it end to end *)

FirstOfMonth(y, m) == Events!JdFromDate(1, m, y)

FirstOfNext(y, m) == IF m = 12 THEN FirstOfMonth(y + 1, 1) ELSE FirstOfMonth(y, m + 1)

LEMMA DaysAreNumbers ==
    ASSUME NEW y \in Int, NEW m \in 1..12
    PROVE  FirstOfMonth(y, m) \in Int /\ FirstOfNext(y, m) \in Int
BY DEF FirstOfMonth, FirstOfNext, Events!JdFromDate

\* The months of a year that begins on 1 March, by the days before them.
BeforeMonth(m) == (153 * m + 2) \div 5

LEMMA MonthsFromMarch ==
    ASSUME NEW y \in Int, NEW m \in 0..9
    PROVE  /\ FirstOfMonth(y, m + 3) = FirstOfMonth(y, 3) + BeforeMonth(m)
           /\ FirstOfNext(y, m + 3) = FirstOfMonth(y, 3) + BeforeMonth(m + 1)
<1>1. FirstOfMonth(y, m + 3) = FirstOfMonth(y, 3) + BeforeMonth(m)
  BY DEF FirstOfMonth, BeforeMonth, Events!JdFromDate
<1>2. CASE m = 9
  BY <1>1, <1>2 DEF FirstOfMonth, FirstOfNext, BeforeMonth, Events!JdFromDate
<1>3. CASE m < 9
  BY <1>1, <1>3 DEF FirstOfMonth, FirstOfNext, BeforeMonth, Events!JdFromDate
<1> QED
  BY <1>1, <1>2, <1>3

LEMMA MonthsBeforeMarch ==
    ASSUME NEW y \in Int
    PROVE  /\ FirstOfMonth(y + 1, 1) = FirstOfMonth(y, 3) + BeforeMonth(10)
           /\ FirstOfMonth(y + 1, 2) = FirstOfMonth(y, 3) + BeforeMonth(11)
           /\ FirstOfNext(y + 1, 1) = FirstOfMonth(y, 3) + BeforeMonth(11)
           /\ FirstOfNext(y + 1, 2) = FirstOfMonth(y + 1, 3)
BY DEF FirstOfMonth, FirstOfNext, BeforeMonth, Events!JdFromDate

\* The date of a day: its century, the year in it and the month, counted from March.
Century(a) == (4 * a + 3) \div 146097
DayOfCentury(a) == a - (Century(a) * 146097) \div 4
YearOfCentury(c) == (4 * c + 3) \div 1461
DayOfYear(c) == c - (1461 * YearOfCentury(c)) \div 4
MonthOfYear(e) == (5 * e + 2) \div 153

LEMMA MonthOfDay ==
    ASSUME NEW e \in Nat, e <= 365
    PROVE  /\ MonthOfYear(e) \in 0..11 /\ BeforeMonth(MonthOfYear(e)) \in Int
           /\ BeforeMonth(MonthOfYear(e)) <= e
           /\ MonthOfYear(e) < 11 => e < BeforeMonth(MonthOfYear(e) + 1)
<1> DEFINE m == MonthOfYear(e)
<1>1. m \in 0..11 /\ 153 * m <= 5 * e + 2 /\ 5 * e + 2 < 153 * m + 153
  BY DEF MonthOfYear
<1> HIDE DEF m
<1>2. BeforeMonth(m) <= e /\ BeforeMonth(m) \in Int
  BY <1>1 DEF BeforeMonth
<1>3. e < BeforeMonth(m + 1)
  BY <1>1 DEF BeforeMonth
<1> QED
  BY <1>1, <1>2, <1>3 DEF m

LEMMA YearOfDay ==
    ASSUME NEW c \in Nat, c <= 36524
    PROVE  YearOfCentury(c) \in Nat /\ YearOfCentury(c) <= 99 /\ DayOfYear(c) \in Nat /\ DayOfYear(c) <= 365
<1> DEFINE d == YearOfCentury(c)
<1>1. d \in Nat /\ d <= 99 /\ 1461 * d <= 4 * c + 3 /\ 4 * c + 3 < 1461 * d + 1461
  BY DEF YearOfCentury
<1> HIDE DEF d
<1> DEFINE k == (1461 * d) \div 4
<1>2. k \in Int /\ 4 * k <= 1461 * d /\ 1461 * d < 4 * k + 4
  BY <1>1
<1> HIDE DEF k
<1>3. c - k \in Nat /\ c - k <= 365
  BY <1>1, <1>2
<1>4. DayOfYear(c) = c - k
  BY DEF DayOfYear, d, k
<1> QED
  BY <1>1, <1>3, <1>4 DEF d

LEMMA CenturyOfDay ==
    ASSUME NEW a \in Int
    PROVE  Century(a) \in Int /\ DayOfCentury(a) \in Nat /\ DayOfCentury(a) <= 36524
<1> DEFINE b == Century(a)
<1>1. b \in Int /\ 146097 * b <= 4 * a + 3 /\ 4 * a + 3 < 146097 * b + 146097
  BY DEF Century
<1> HIDE DEF b
<1> DEFINE k == (b * 146097) \div 4
<1>2. k \in Int /\ 4 * k <= 146097 * b /\ 146097 * b < 4 * k + 4
  BY <1>1
<1> HIDE DEF k
<1>3. a - k \in Nat /\ a - k <= 36524
  BY <1>1, <1>2
<1>4. DayOfCentury(a) = a - k
  BY DEF DayOfCentury, b, k
<1> QED
  BY <1>1, <1>3, <1>4 DEF b

LEMMA DateOfDay ==
    ASSUME NEW day, NEW a, a = day + 32044, NEW c, c = DayOfCentury(a),
           NEW e, e = DayOfYear(c), NEW m, m = MonthOfYear(e)
    PROVE  Events!JdToDate(day) =
               [day   |-> e - BeforeMonth(m) + 1,
                month |-> m + 3 - 12 * (m \div 10),
                year  |-> Century(a) * 100 + YearOfCentury(c) - 4800 + m \div 10]
BY DEF Events!JdToDate, Century, DayOfCentury, YearOfCentury, DayOfYear, MonthOfYear, BeforeMonth

\* The centuries and the years of one: where a year begins.
LEMMA YearBegins ==
    ASSUME NEW b \in Int, NEW d \in Nat, d <= 99
    PROVE  FirstOfMonth(b * 100 + d - 4800, 3) = (b * 146097) \div 4 + (1461 * d) \div 4 - 32044
BY DEF FirstOfMonth, Events!JdFromDate

LEMMA CenturyBegins ==
    ASSUME NEW b \in Int
    PROVE  FirstOfMonth(b * 100 - 4800, 3) = (b * 146097) \div 4 - 32044
BY DEF FirstOfMonth, Events!JdFromDate

LEMMA CenturyEnds ==
    ASSUME NEW a \in Int
    PROVE  DayOfCentury(a) + (Century(a) * 146097) \div 4 < ((Century(a) + 1) * 146097) \div 4
<1> DEFINE b == Century(a)
<1>1. b \in Int /\ 4 * a + 3 < 146097 * b + 146097
  BY DEF Century
<1> HIDE DEF b
<1>2. a < ((b + 1) * 146097) \div 4
  BY <1>1
<1>3. DayOfCentury(a) + (b * 146097) \div 4 = a
  BY <1>1 DEF DayOfCentury, b
<1> QED
  BY <1>2, <1>3 DEF b

LEMMA YearEnds ==
    ASSUME NEW c \in Nat, c <= 36524
    PROVE  c < (1461 * (YearOfCentury(c) + 1)) \div 4
<1> DEFINE d == YearOfCentury(c)
<1>1. d \in Int /\ 4 * c + 3 < 1461 * d + 1461
  BY DEF YearOfCentury
<1> HIDE DEF d
<1>2. c < (1461 * (d + 1)) \div 4
  BY <1>1
<1> QED
  BY <1>2 DEF d

\* A date is a month and a day of it.
LEMMA CivilDate ==
    ASSUME NEW day \in Int
    PROVE  LET date == Events!JdToDate(day)
           IN  /\ date.year \in Int /\ date.month \in 1..12 /\ date.day \in Nat \ {0}
               /\ day = FirstOfMonth(date.year, date.month) + date.day - 1
               /\ day < FirstOfNext(date.year, date.month)
<1> DEFINE a == day + 32044
           b == Century(a)
           c == DayOfCentury(a)
           d == YearOfCentury(c)
           e == DayOfYear(c)
           m == MonthOfYear(e)
           y == b * 100 + d - 4800
<1>1. a = day + 32044 /\ a \in Int
  OBVIOUS
<1> HIDE DEF a
<1>2. b \in Int /\ c \in Nat /\ c <= 36524
  BY <1>1, CenturyOfDay
<1>3. c = a - (b * 146097) \div 4 /\ c + (b * 146097) \div 4 < ((b + 1) * 146097) \div 4
  BY <1>1, CenturyEnds DEF DayOfCentury
<1>4. c = DayOfCentury(a) /\ b = Century(a)
  OBVIOUS
<1> HIDE DEF b, c
<1>5. d \in Nat /\ d <= 99 /\ e \in Nat /\ e <= 365
  BY <1>2, YearOfDay
<1>6. e = c - (1461 * d) \div 4 /\ c < (1461 * (d + 1)) \div 4
  BY <1>2, YearEnds DEF DayOfYear
<1>7. e = DayOfYear(c) /\ d = YearOfCentury(c)
  OBVIOUS
<1> HIDE DEF d, e
<1>8. /\ m \in 0..11 /\ BeforeMonth(m) \in Int /\ BeforeMonth(m) <= e
      /\ m < 11 => e < BeforeMonth(m + 1)
  BY <1>5, MonthOfDay
<1>9. Events!JdToDate(day) = [day |-> e - BeforeMonth(m) + 1,
                              month |-> m + 3 - 12 * (m \div 10),
                              year |-> y + m \div 10]
  BY <1>1, <1>4, <1>7, DateOfDay
<1> HIDE DEF m
<1>10. y \in Int
  BY <1>2, <1>5
<1>11. FirstOfMonth(y, 3) + e = day
  BY <1>1, <1>2, <1>3, <1>5, <1>6, YearBegins
<1>12. day < FirstOfMonth(y + 1, 3)
  <2>1. CASE d < 99
    <3>1. FirstOfMonth(b * 100 + (d + 1) - 4800, 3)
            = (b * 146097) \div 4 + (1461 * (d + 1)) \div 4 - 32044
      <4>1. d + 1 \in Nat /\ d + 1 <= 99
        BY <1>5, <2>1
      <4> DEFINE z == d + 1
      <4> HIDE DEF z
      <4>2. FirstOfMonth(b * 100 + z - 4800, 3) = (b * 146097) \div 4 + (1461 * z) \div 4 - 32044
        BY <1>2, <4>1, YearBegins DEF z
      <4> QED
        BY <4>2 DEF z
    <3>2. b * 100 + (d + 1) - 4800 = y + 1
      BY <1>2, <1>5
    <3> QED
      BY <1>1, <1>2, <1>3, <1>5, <1>6, <3>1, <3>2
  <2>2. CASE d = 99
    <3>1. FirstOfMonth((b + 1) * 100 - 4800, 3)
            = ((b + 1) * 146097) \div 4 - 32044
      <4> DEFINE z == b + 1
      <4>1. z \in Int
        BY <1>2
      <4> HIDE DEF z
      <4>2. FirstOfMonth(z * 100 - 4800, 3) = (z * 146097) \div 4 - 32044
        BY <4>1, CenturyBegins
      <4> QED
        BY <4>2 DEF z
    <3>2. (b + 1) * 100 - 4800 = y + 1
      BY <1>2, <2>2
    <3> QED
      BY <1>1, <1>2, <1>3, <3>1, <3>2
  <2> QED
    BY <1>5, <2>1, <2>2
<1> HIDE DEF y
<1>13. FirstOfMonth(y, 3) \in Int
  BY <1>10, DaysAreNumbers
<1>14. CASE m < 10
  <2>1. m \div 10 = 0
    BY <1>8, <1>14
  <2>2. /\ FirstOfMonth(y, m + 3) = FirstOfMonth(y, 3) + BeforeMonth(m)
        /\ FirstOfNext(y, m + 3) = FirstOfMonth(y, 3) + BeforeMonth(m + 1)
    BY <1>8, <1>10, <1>14, MonthsFromMarch
  <2>3. BeforeMonth(m + 1) \in Int
    BY <1>8 DEF BeforeMonth
  <2> QED
    BY <1>5, <1>8, <1>9, <1>10, <1>11, <1>13, <1>14, <2>1, <2>2, <2>3
<1>15. CASE m = 10
  <2>1. m \div 10 = 1
    BY <1>15
  <2>2. BeforeMonth(11) \in Int
    BY DEF BeforeMonth
  <2> QED
    BY <1>5, <1>8, <1>9, <1>10, <1>11, <1>13, <1>15, <2>1, <2>2, MonthsBeforeMarch
<1>16. CASE m = 11
  <2>1. m \div 10 = 1
    BY <1>16
  <2> QED
    BY <1>5, <1>8, <1>9, <1>10, <1>11, <1>12, <1>13, <1>16, <2>1, MonthsBeforeMarch
<1> QED
  BY <1>8, <1>14, <1>15, <1>16

\* The months follow each other and are of 28 days at least.
LEMMA MonthsFollow ==
    ASSUME NEW y \in Int, NEW m \in 1..12, NEW z \in Int, NEW n \in 1..12, y < z \/ (y = z /\ m < n)
    PROVE  FirstOfNext(y, m) <= FirstOfMonth(z, n)
BY DEF FirstOfNext, FirstOfMonth, Events!JdFromDate

LEMMA MonthsLast ==
    ASSUME NEW y \in Int, NEW m \in 1..12
    PROVE  FirstOfNext(y, m) >= FirstOfMonth(y, m) + 28
BY DEF FirstOfNext, FirstOfMonth, Events!JdFromDate

LEMMA MonthsDiffer ==
    ASSUME NEW y \in Int, NEW m \in 1..12, NEW z \in Int, NEW n \in 1..12, NEW day \in Int,
           FirstOfMonth(y, m) <= day, day < FirstOfNext(y, m),
           FirstOfMonth(z, n) <= day, day < FirstOfNext(z, n)
    PROVE  y = z /\ m = n
<1>1. /\ FirstOfMonth(y, m) \in Int /\ FirstOfNext(y, m) \in Int
      /\ FirstOfMonth(z, n) \in Int /\ FirstOfNext(z, n) \in Int
  BY DaysAreNumbers
<1>2. y < z \/ (y = z /\ m < n) => FirstOfNext(y, m) <= FirstOfMonth(z, n)
  BY MonthsFollow
<1>3. z < y \/ (z = y /\ n < m) => FirstOfNext(z, n) <= FirstOfMonth(y, m)
  BY MonthsFollow
<1> QED
  BY <1>1, <1>2, <1>3

\* The day after a day is the first of a month when it begins the next one, and when it is of
\* another year it begins that.
LEMMA NextCivilDay ==
    ASSUME NEW day \in Int
    PROVE  LET date == Events!JdToDate(day)
               next == Events!JdToDate(day + 1)
           IN  /\ next.day = 1 <=> day + 1 = FirstOfNext(date.year, date.month)
               /\ next.year = date.year
                    \/ (next.year = date.year + 1 /\ day + 1 = FirstOfMonth(date.year + 1, 1))
<1> DEFINE date == Events!JdToDate(day)
           next == Events!JdToDate(day + 1)
           y == date.year
           m == date.month
           z == next.year
           n == next.month
<1>1. /\ y \in Int /\ m \in 1..12 /\ date.day \in Nat \ {0}
      /\ day = FirstOfMonth(y, m) + date.day - 1 /\ day < FirstOfNext(y, m)
  BY CivilDate
<1>2. day + 1 \in Int
  OBVIOUS
<1>3. /\ z \in Int /\ n \in 1..12 /\ next.day \in Nat \ {0}
      /\ day + 1 = FirstOfMonth(z, n) + next.day - 1 /\ day + 1 < FirstOfNext(z, n)
  BY <1>2, CivilDate
<1> HIDE DEF date, next, y, m, z, n
<1>4. /\ FirstOfMonth(y, m) \in Int /\ FirstOfNext(y, m) \in Int
      /\ FirstOfMonth(z, n) \in Int /\ FirstOfNext(z, n) \in Int
  BY <1>1, <1>3, DaysAreNumbers
<1>5. y < z \/ (y = z /\ m < n) => FirstOfNext(y, m) <= FirstOfMonth(z, n)
  BY <1>1, <1>3, MonthsFollow
<1>6. z < y \/ (z = y /\ n < m) => FirstOfNext(z, n) <= FirstOfMonth(y, m)
  BY <1>1, <1>3, MonthsFollow
<1>7. next.day = 1 <=> day + 1 = FirstOfNext(y, m)
  BY <1>1, <1>3, <1>4, <1>5, <1>6
<1>8. ASSUME y < z PROVE z = y + 1 /\ day + 1 = FirstOfMonth(y + 1, 1)
  <2> DEFINE w == y + 1
  <2>1. w \in Int /\ w = y + 1 /\ 1 \in 1..12
    BY <1>1
  <2> HIDE DEF w
  <2>2. /\ FirstOfMonth(w, 1) \in Int /\ FirstOfNext(w, 1) \in Int
        /\ FirstOfNext(w, 1) >= FirstOfMonth(w, 1) + 28
    BY <2>1, DaysAreNumbers, MonthsLast
  <2>3. FirstOfNext(y, m) <= FirstOfMonth(w, 1)
    BY <1>1, <2>1, MonthsFollow
  <2>4. w < z \/ (w = z /\ 1 < n) => FirstOfNext(w, 1) <= FirstOfMonth(z, n)
    BY <1>3, <2>1, MonthsFollow
  <2>5. z = w /\ n = 1
    BY <1>1, <1>3, <1>4, <1>8, <2>1, <2>2, <2>3, <2>4
  <2>6. day + 1 = FirstOfMonth(w, 1)
    BY <1>1, <1>3, <1>4, <1>5, <1>8, <2>5
  <2> QED
    BY <2>1, <2>5, <2>6 DEF w
<1>9. ~(z < y)
  BY <1>1, <1>3, <1>4, <1>6
<1>10. y = z \/ (z = y + 1 /\ day + 1 = FirstOfMonth(y + 1, 1))
  BY <1>1, <1>3, <1>8, <1>9
<1> QED
  BY <1>7, <1>10 DEF date, next, y, m, z, n

\* The three parts of the property from where the two years' anniversaries lie: this year's in a
\* month that is over when the year is, next year's past today.
LEMMA TurnOfYear ==
    ASSUME NEW day \in Int, NEW this \in Int, NEW that \in Int, NEW later, that > day,
           NEW next, next = IF this >= day THEN this ELSE that,
           NEW after, \/ after = IF this >= day + 1 THEN this ELSE that
                      \/ this <= day /\ after = IF that >= day + 1 THEN that ELSE later
    PROVE  next >= day /\ (next = day <=> this = day) /\ (next # day => after = next)
OBVIOUS

\* A solar anniversary is in the month of the event, on its day or the last of the month.
LEMMA SolarAnniversaryIs ==
    ASSUME NEW born \in Int, NEW y \in Int
    PROVE  LET date == Events!JdToDate(born)
               n == date.month
               this == Events!SolarAnniversary(y, born)
           IN  /\ this = IF FirstOfMonth(y, n) + date.day <= FirstOfNext(y, n)
                         THEN FirstOfMonth(y, n) + date.day - 1 ELSE FirstOfNext(y, n) - 1
               /\ FirstOfMonth(y, n) <= this /\ this < FirstOfNext(y, n) /\ this \in Int
<1> DEFINE date == Events!JdToDate(born)
           n == date.month
           first == FirstOfMonth(y, n)
           next == FirstOfNext(y, n)
           this == Events!SolarAnniversary(y, born)
<1>1. n \in 1..12 /\ date.day \in Nat \ {0}
  BY CivilDate
<1>2. this = IF first + date.day - 1 <= next - 1 THEN first + date.day - 1 ELSE next - 1
  BY DEF Events!SolarAnniversary, Events!Least, FirstOfMonth, FirstOfNext
<1> HIDE DEF date, n
<1>3. first \in Int /\ next \in Int /\ next >= first + 28
  BY <1>1, DaysAreNumbers, MonthsLast
<1> HIDE DEF first, next, this
<1>4. /\ this = IF first + date.day <= next THEN first + date.day - 1 ELSE next - 1
      /\ first <= this /\ this < next /\ this \in Int
  BY <1>1, <1>2, <1>3
<1> QED
  BY <1>4 DEF first, next, this, n, date


\* The solar half, for every date and every day.
SolarKept(born, day) ==
    LET was == Events!JdToDate(born)
        date == Events!JdToDate(day)
    IN  /\ date.month = was.month
        /\ date.day = was.day \/ (date.day < was.day /\ Events!JdToDate(day + 1).day = 1)

SolarIsFirstKept(born, day) ==
    LET next == Events!NextSolarAnniversary(born, day)
    IN  /\ next >= day
        /\ next = day <=> SolarKept(born, day)
        /\ next # day => Events!NextSolarAnniversary(born, day + 1) = next

LEMMA SolarIsKept ==
    ASSUME NEW born \in Int, NEW day \in Int
    PROVE  SolarIsFirstKept(born, day)
<1> DEFINE was == Events!JdToDate(born)
           date == Events!JdToDate(day)
           morrow == Events!JdToDate(day + 1)
           y == date.year
           m == date.month
           n == was.month
           this == Events!SolarAnniversary(y, born)
           that == Events!SolarAnniversary(y + 1, born)
           later == Events!SolarAnniversary(y + 1 + 1, born)
           next == Events!NextSolarAnniversary(born, day)
           after == Events!NextSolarAnniversary(born, day + 1)
<1>1. /\ y \in Int /\ m \in 1..12 /\ date.day \in Nat \ {0}
      /\ day = FirstOfMonth(y, m) + date.day - 1 /\ day < FirstOfNext(y, m)
  BY CivilDate
<1>2. n \in 1..12 /\ was.day \in Nat \ {0}
  BY CivilDate
<1>3. /\ morrow.day = 1 <=> day + 1 = FirstOfNext(y, m)
      /\ morrow.year = y \/ (morrow.year = y + 1 /\ day + 1 = FirstOfMonth(y + 1, 1))
  BY NextCivilDay
<1>4. next = IF this >= day THEN this ELSE that
  BY DEF Events!NextSolarAnniversary
<1>5. morrow.year = y => after = IF this >= day + 1 THEN this ELSE that
  BY DEF Events!NextSolarAnniversary
<1>6. morrow.year = y + 1 => after = IF that >= day + 1 THEN that ELSE later
  BY DEF Events!NextSolarAnniversary
<1>7. y + 1 \in Int
  BY <1>1
<1>8. /\ this = IF FirstOfMonth(y, n) + was.day <= FirstOfNext(y, n)
                THEN FirstOfMonth(y, n) + was.day - 1 ELSE FirstOfNext(y, n) - 1
      /\ FirstOfMonth(y, n) <= this /\ this < FirstOfNext(y, n) /\ this \in Int
  BY <1>1, SolarAnniversaryIs
<1>9. FirstOfMonth(y + 1, n) <= that /\ that \in Int
  BY <1>7, SolarAnniversaryIs
<1>10. SolarKept(born, day) <=> m = n /\ (date.day = was.day \/ (date.day < was.day /\ morrow.day = 1))
  BY DEF SolarKept
<1>11. SolarIsFirstKept(born, day) <=> /\ next >= day /\ (next = day <=> SolarKept(born, day))
                                      /\ (next # day => after = next)
  BY DEF SolarIsFirstKept
<1> HIDE DEF this, that, later, next, after, y, m, n, was, date, morrow
<1>12. /\ FirstOfMonth(y, m) \in Int /\ FirstOfNext(y, m) \in Int
       /\ FirstOfMonth(y, n) \in Int /\ FirstOfNext(y, n) \in Int
       /\ FirstOfMonth(y + 1, n) \in Int /\ FirstOfMonth(y + 1, 1) \in Int
  <2> DEFINE z == y + 1
  <2>1. z \in Int /\ 1 \in 1..12
    BY <1>7
  <2> HIDE DEF z
  <2>2. FirstOfMonth(z, n) \in Int /\ FirstOfMonth(z, 1) \in Int
    BY <1>2, <2>1, DaysAreNumbers
  <2> QED
    BY <1>1, <1>2, <2>2, DaysAreNumbers DEF z
<1>13. FirstOfNext(y, m) <= FirstOfMonth(y + 1, n)
  <2> DEFINE z == y + 1
  <2>1. z \in Int /\ y < z
    BY <1>1
  <2> HIDE DEF z
  <2>2. FirstOfNext(y, m) <= FirstOfMonth(z, n)
    BY <1>1, <1>2, <2>1, MonthsFollow
  <2> QED
    BY <2>2 DEF z
<1>14. FirstOfNext(y, n) <= FirstOfMonth(y + 1, 1)
  <2> DEFINE z == y + 1
  <2>1. z \in Int /\ y < z /\ 1 \in 1..12
    BY <1>1
  <2> HIDE DEF z
  <2>2. FirstOfNext(y, n) <= FirstOfMonth(z, 1)
    BY <1>1, <1>2, <2>1, MonthsFollow
  <2> QED
    BY <2>2 DEF z
<1>15. that > day
  BY <1>1, <1>9, <1>12, <1>13
<1>16. \/ after = IF this >= day + 1 THEN this ELSE that
       \/ this <= day /\ after = IF that >= day + 1 THEN that ELSE later
  <2>1. CASE morrow.year = y
    BY <1>5, <2>1
  <2>2. CASE morrow.year # y
    <3>1. this <= day
      BY <1>1, <1>3, <1>8, <1>12, <1>14, <2>2
    <3> QED
      BY <1>3, <1>6, <2>2, <3>1
  <2> QED
    BY <2>1, <2>2
<1>17. next >= day /\ (next = day <=> this = day) /\ (next # day => after = next)
  BY <1>4, <1>8, <1>9, <1>15, <1>16, TurnOfYear
<1>18. ASSUME SolarKept(born, day) PROVE this = day
  BY <1>1, <1>2, <1>3, <1>8, <1>10, <1>12, <1>18
<1>19. ASSUME this = day PROVE SolarKept(born, day)
  <2>1. m = n
    <3>1. /\ FirstOfMonth(y, m) <= day /\ FirstOfMonth(y, n) <= day /\ day < FirstOfNext(y, n)
      BY <1>1, <1>8, <1>12, <1>19
    <3> QED
      BY <1>1, <1>2, <3>1, MonthsDiffer
  <2>2. date.day = was.day \/ (date.day < was.day /\ day + 1 = FirstOfNext(y, m))
    BY <1>1, <1>2, <1>8, <1>12, <1>19, <2>1
  <2> QED
    BY <1>3, <1>10, <2>1, <2>2
<1> QED
  BY <1>11, <1>17, <1>18, <1>19

-----------------------------------------------------------------------------
(* Lunar dates: the months of the lunar years, end to end *)

LEMMA MoonsAreNumbers ==
    ASSUME NEW j \in Moons, NEW k \in Moons, NEW i \in Int, j <= i, i <= k
    PROVE  i \in Moons /\ i \in Nat /\ NewMoon[i] \in Int
<1>1. j \in Int /\ k \in Int /\ i \in j..k
  BY MoonsAreSpaced
<1>2. i \in Moons
  BY <1>1, MoonsAreSpaced
<1> QED
  BY <1>2, MoonsAreSpaced

\* By so many days are moons apart that are so many months apart.
LEMMA MoonsApart ==
    ASSUME NEW j \in Moons, NEW k \in Moons, j <= k
    PROVE  29 * (k - j) <= NewMoon[k] - NewMoon[j] /\ NewMoon[k] - NewMoon[j] <= 30 * (k - j)
<1> DEFINE n == k - j
           T == {i \in 0..n : 29 * i <= NewMoon[j + i] - NewMoon[j] /\ NewMoon[j + i] - NewMoon[j] <= 30 * i}
<1>1. j \in Nat /\ k \in Nat /\ n \in Nat /\ NewMoon[j] \in Int /\ j + 0 = j /\ j + n = k
  BY MoonsAreSpaced
<1>2. 0 \in T
  BY <1>1
<1>3. ASSUME NEW i \in 0..n, i < n, i \in T PROVE i + 1 \in T
  <2>1. j + i \in Moons /\ NewMoon[j + i] \in Int
    BY <1>1, <1>3, MoonsAreNumbers
  <2>2. j + (i + 1) \in Moons /\ NewMoon[j + (i + 1)] \in Int /\ (j + i) + 1 = j + (i + 1)
    BY <1>1, <1>3, MoonsAreNumbers
  <2>3. NewMoon[j + (i + 1)] - NewMoon[j + i] \in {29, 30}
    BY <2>1, <2>2, MoonsAreSpaced
  <2> QED
    BY <1>1, <1>3, <2>1, <2>2, <2>3
<1> HIDE DEF n, T
<1>4. \A i \in 0..n : i \in T
  BY <1>1, <1>2, <1>3, NumbersUpTo
<1>5. n \in T
  BY <1>1, <1>4
<1> QED
  BY <1>1, <1>5 DEF n, T

\* Moon k is the moon of the day.
InMoon(k, day) == k \in Moons /\ k + 1 \in Moons /\ NewMoon[k] <= day /\ day < NewMoon[k + 1]

LEMMA MoonIs ==
    ASSUME NEW k, NEW day \in Int, InMoon(k, day)
    PROVE  Events!MoonOf(day) = k
<1>1. ASSUME NEW i \in Moons, InMoon(i, day) PROVE i = k
  <2>1. /\ i \in Nat /\ k \in Nat /\ NewMoon[i] \in Int /\ NewMoon[k] \in Int
        /\ NewMoon[i + 1] \in Int /\ NewMoon[k + 1] \in Int
    BY <1>1, MoonsAreSpaced DEF InMoon
  <2>2. ~(i < k)
    <3>1. i < k => NewMoon[i + 1] <= NewMoon[k]
      BY <1>1, <2>1, MoonsApart DEF InMoon
    <3> QED
      BY <1>1, <2>1, <3>1 DEF InMoon
  <2>3. ~(k < i)
    <3>1. k < i => NewMoon[k + 1] <= NewMoon[i]
      BY <1>1, <2>1, MoonsApart DEF InMoon
    <3> QED
      BY <1>1, <2>1, <3>1 DEF InMoon
  <2> QED
    BY <2>1, <2>2, <2>3
<1>2. k \in Moons /\ k + 1 \in Moons /\ NewMoon[k] <= day /\ day < NewMoon[k + 1]
  BY DEF InMoon
<1>3. \A i \in Moons : i + 1 \in Moons /\ NewMoon[i] <= day /\ day < NewMoon[i + 1] => i = k
  BY <1>1 DEF InMoon
<1> QED
  BY <1>2, <1>3 DEF Events!MoonOf

\* A day between two moons has one.
LEMMA MoonExists ==
    ASSUME NEW j \in Moons, NEW k \in Moons, NEW day \in Int, NewMoon[j] <= day, day < NewMoon[k]
    PROVE  /\ InMoon(Events!MoonOf(day), day)
           /\ j <= Events!MoonOf(day) /\ Events!MoonOf(day) < k
<1> DEFINE T == {i \in 0..k : j <= i /\ NewMoon[i] <= day}
<1>1. j \in Nat /\ k \in Nat /\ NewMoon[j] \in Int /\ NewMoon[k] \in Int
  BY MoonsAreSpaced
<1>2. j < k
  <2>1. k <= j => NewMoon[k] <= NewMoon[j]
    BY <1>1, MoonsApart
  <2> QED
    BY <1>1, <2>1
<1>3. T \in SUBSET (0..k) /\ j \in T
  BY <1>1, <1>2
<1>4. PICK i \in T : \A x \in T : x <= i
  <2> HIDE DEF T
  <2> QED
    BY <1>1, <1>3, GreatestNumber
<1>5. i \in Nat /\ j <= i /\ i < k /\ NewMoon[i] <= day
  BY <1>1, <1>4
<1>6. i + 1 \in 0..k /\ i + 1 \notin T /\ j <= i + 1
  BY <1>1, <1>4, <1>5
<1>7. i \in Moons /\ i + 1 \in Moons /\ NewMoon[i + 1] \in Int
  BY <1>1, <1>5, <1>6, MoonsAreNumbers
<1>8. InMoon(i, day)
  BY <1>5, <1>6, <1>7 DEF InMoon
<1>9. Events!MoonOf(day) = i
  BY <1>8, MoonIs
<1> QED
  BY <1>5, <1>8, <1>9

LastOfYear(y) == Events!JdFromDate(31, 12, y)

LEMMA LastOfYearIs ==
    ASSUME NEW y \in Int
    PROVE  LastOfYear(y) + 1 = FirstOfMonth(y + 1, 1) /\ LastOfYear(y) \in Int
BY DEF LastOfYear, FirstOfMonth, Events!JdFromDate

\* The eleventh month is the one of 31 December, or the one before.
LEMMA EleventhMonth ==
    ASSUME NEW y \in Int, HasMoons(LastOfYear(y))
    PROVE  LET k == Events!MoonOf(LastOfYear(y))
               a == Events!LunarMonth11(y)
           IN  /\ InMoon(k, LastOfYear(y)) /\ k \in Nat
               /\ a \in Moons /\ a \in Nat /\ (a = k \/ a = k - 1)
<1> DEFINE day == LastOfYear(y)
           a == Events!LunarMonth11(y)
<1>1. day \in Int
  BY LastOfYearIs
<1>2. PICK k \in Moons : {k - 1, k + 1} \subseteq Moons /\ NewMoon[k] <= day /\ day < NewMoon[k + 1]
  BY DEF HasMoons
<1>3. InMoon(k, day) /\ Events!MoonOf(day) = k
  <2>1. InMoon(k, day)
    BY <1>2 DEF InMoon
  <2> QED
    BY <1>1, <2>1, MoonIs
<1>4. a = IF Section[k] >= 9 THEN k - 1 ELSE k
  BY <1>3 DEF Events!LunarMonth11, LastOfYear
<1> HIDE DEF a, day
<1>5. k \in Nat /\ k - 1 \in Moons /\ a \in Moons /\ a \in Nat /\ (a = k \/ a = k - 1)
  BY <1>2, <1>4, MoonsAreSpaced
<1> QED
  BY <1>3, <1>5 DEF a, day

FirstMoon(y) == Events!LunarYear(y).first
LeapAfter(y) == Events!LunarYear(y).leap

\* A lunar year has twelve regular months, and a thirteenth that is a leap month.
LEMMA LunarYearIs ==
    ASSUME NEW y \in Int, IsLunarYear(y)
    PROVE  /\ FirstMoon(y) = Events!LunarMonth11(y)
           /\ \/ Events!LunarMonth11(y + 1) = FirstMoon(y) + 12 /\ LeapAfter(y) = 99
              \/ Events!LunarMonth11(y + 1) = FirstMoon(y) + 13 /\ LeapAfter(y) \in 1..12
<1> DEFINE a == Events!LunarMonth11(y)
           b == Events!LunarMonth11(y + 1)
           still == {i \in 2..13 : Section[a + i] = Section[a + i - 1]}
<1>1. Events!LunarYear(y) = [first |-> a,
                             leap |-> IF NewMoon[b] - NewMoon[a] > 365
                                      THEN Events!LeapMonthOffset(a) ELSE 99]
  BY DEF Events!LunarYear, Events!HasLeap, Events!NoLeap
<1>2. Events!LeapMonthOffset(a)
        = IF still = {} THEN 13 ELSE (CHOOSE i \in still : \A j \in still : i <= j) - 1
  BY DEF Events!LeapMonthOffset
<1>3. /\ HasMoons(LastOfYear(y)) /\ HasMoons(LastOfYear(y + 1))
      /\ b = a + 12 \/ (b = a + 13 /\ \E i \in 2..13 : Section[a + i] = Section[a + i - 1])
  BY DEF IsLunarYear, LastOfYear
<1>4. y + 1 \in Int
  OBVIOUS
<1>5. a \in Moons /\ a \in Nat /\ b \in Moons /\ b \in Nat
  <2> DEFINE z == y + 1
  <2>1. HasMoons(LastOfYear(z)) /\ z \in Int
    BY <1>3, <1>4
  <2> HIDE DEF z
  <2>2. Events!LunarMonth11(z) \in Moons /\ Events!LunarMonth11(z) \in Nat
    BY <2>1, EleventhMonth
  <2> QED
    BY <1>3, <2>2, EleventhMonth DEF z
<1>6. ASSUME b = a + 13 PROVE still # {}
  <2> HIDE DEF a, b
  <2>1. b # a + 12
    BY <1>5, <1>6
  <2>2. PICK i \in 2..13 : Section[a + i] = Section[a + i - 1]
    BY <1>3, <2>1
  <2>3. i \in still
    BY <2>2
  <2> QED
    BY <2>3
<1>7. still \in SUBSET Nat /\ still \subseteq 2..13
  OBVIOUS
<1> HIDE DEF a, b, still
<1>8. NewMoon[b] - NewMoon[a] > 365 <=> b = a + 13
  <2>1. /\ NewMoon[a] \in Int /\ NewMoon[b] \in Int
        /\ 29 * (b - a) <= NewMoon[b] - NewMoon[a] /\ NewMoon[b] - NewMoon[a] <= 30 * (b - a)
    BY <1>3, <1>5, MoonsApart, MoonsAreSpaced
  <2> QED
    BY <1>3, <1>5, <2>1
<1>9. b = a + 13 => Events!LeapMonthOffset(a) \in 1..12
  <2> SUFFICES ASSUME b = a + 13 PROVE Events!LeapMonthOffset(a) \in 1..12
    OBVIOUS
  <2>1. \E i \in still : \A j \in still : i <= j
    BY <1>6, <1>7, LeastNumber
  <2> DEFINE least == CHOOSE i \in still : \A j \in still : i <= j
  <2>2. least \in still
    BY <2>1
  <2>3. Events!LeapMonthOffset(a) = least - 1
    BY <1>2, <1>6
  <2> HIDE DEF least
  <2> QED
    BY <1>7, <2>2, <2>3
<1>10. FirstMoon(y) = a /\ LeapAfter(y) = IF b = a + 13 THEN Events!LeapMonthOffset(a) ELSE 99
  BY <1>1, <1>8 DEF FirstMoon, LeapAfter
<1> QED
  BY <1>3, <1>5, <1>9, <1>10 DEF a, b

\* The regular months, by the months before them from the eleventh.
MoonAt(y, o) == FirstMoon(y) + o + (IF o >= LeapAfter(y) THEN 1 ELSE 0)

LEMMA MoonsOfYear ==
    ASSUME NEW y \in Int, IsLunarYear(y)
    PROVE  LET a == FirstMoon(y)
               b == Events!LunarMonth11(y + 1)
           IN  /\ a \in Nat /\ a \in Moons /\ b \in Nat /\ b \in Moons
               /\ \A o \in 0..11 : /\ MoonAt(y, o) \in a..(b - 1)
                                   /\ MoonAt(y, o) \in Moons /\ MoonAt(y, o) + 1 \in Moons
               /\ \A o \in 0..11, p \in 0..11 : o < p => MoonAt(y, o) < MoonAt(y, p)
               /\ \A o \in 0..11 : MoonAt(y, o) # a + LeapAfter(y)
<1> DEFINE a == FirstMoon(y)
           b == Events!LunarMonth11(y + 1)
           leap == LeapAfter(y)
<1>1. a = Events!LunarMonth11(y) /\ ((b = a + 12 /\ leap = 99) \/ (b = a + 13 /\ leap \in 1..12))
  BY LunarYearIs
<1>2. HasMoons(LastOfYear(y)) /\ HasMoons(LastOfYear(y + 1)) /\ y + 1 \in Int
  BY DEF IsLunarYear, LastOfYear
<1>3. a \in Nat /\ a \in Moons /\ b \in Nat /\ b \in Moons
  <2> DEFINE z == y + 1
  <2>1. HasMoons(LastOfYear(z)) /\ z \in Int
    BY <1>2
  <2> HIDE DEF z
  <2>2. Events!LunarMonth11(z) \in Moons /\ Events!LunarMonth11(z) \in Nat
    BY <2>1, EleventhMonth
  <2> QED
    BY <1>1, <1>2, <2>2, EleventhMonth DEF z
<1>4. \A o : MoonAt(y, o) = a + o + (IF o >= leap THEN 1 ELSE 0)
  BY DEF MoonAt
<1> HIDE DEF a, b, leap
<1>5. ASSUME NEW o \in 0..11
      PROVE  MoonAt(y, o) \in a..(b - 1) /\ MoonAt(y, o) \in Moons /\ MoonAt(y, o) + 1 \in Moons
  <2>1. MoonAt(y, o) \in Int /\ a <= MoonAt(y, o) /\ MoonAt(y, o) <= b - 1
    BY <1>1, <1>3, <1>4
  <2>2. MoonAt(y, o) \in Moons /\ MoonAt(y, o) + 1 \in Moons
    BY <1>3, <2>1, MoonsAreNumbers
  <2> QED
    BY <1>3, <2>1, <2>2
<1>6. ASSUME NEW o \in 0..11, NEW p \in 0..11, o < p PROVE MoonAt(y, o) < MoonAt(y, p)
  BY <1>1, <1>3, <1>4, <1>6
<1>7. ASSUME NEW o \in 0..11 PROVE MoonAt(y, o) # a + leap
  BY <1>1, <1>3, <1>4
<1> QED
  BY <1>3, <1>5, <1>6, <1>7 DEF a, b, leap

\* A lunar date by the lunar year it is in, of those from eleventh month to eleventh month, and
\* the regular months before it.
YearFrom(t) == IF t.month < 11 THEN t.year - 1 ELSE t.year
MonthsBefore(t) == IF t.month < 11 THEN t.month + 1 ELSE t.month - 11

LEMMA RegularMonth ==
    ASSUME NEW y \in Int, NEW n \in 1..12
    PROVE  Events!MoonOfMonth(y, n, FALSE) = IF n < 11 THEN MoonAt(y - 1, n + 1) ELSE MoonAt(y, n - 11)
BY DEF Events!MoonOfMonth, MoonAt, FirstMoon, LeapAfter

\* Such a date in the year that ends in the civil year z, diff moons after the first.
DateIn(t, z, diff, leap) ==
    /\ t.year \in Int /\ t.month \in 1..12 /\ t.leap \in BOOLEAN
    /\ YearFrom(t) = z - 1
    /\ IF t.leap THEN diff = leap /\ MonthsBefore(t) + 1 = leap
       ELSE diff = MonthsBefore(t) + (IF MonthsBefore(t) >= leap THEN 1 ELSE 0)

LEMMA LunarDateIs ==
    ASSUME NEW day, NEW k, NEW z \in Int, NEW diff \in 0..12, NEW leap,
           leap \in 1..12 \/ (leap = 99 /\ diff <= 11)
    PROVE  DateIn(Events!LunarDate(day, k, z, diff, leap), z, diff, leap)
<1> DEFINE count == diff + (IF diff >= leap THEN 10 ELSE 11)
           month == IF count > 12 THEN count - 12 ELSE count
           year == z - (IF month >= 11 /\ diff < 4 THEN 1 ELSE 0)
           t == Events!LunarDate(day, k, z, diff, leap)
<1>1. t.year = year /\ t.month = month /\ t.leap \in BOOLEAN /\ (t.leap <=> diff = leap)
  BY DEF Events!LunarDate
<1>2. month \in 1..12 /\ year \in Int
  OBVIOUS
<1> HIDE DEF t
<1>3. YearFrom(t) = IF month < 11 THEN year - 1 ELSE year
  BY <1>1 DEF YearFrom
<1>4. MonthsBefore(t) = IF month < 11 THEN month + 1 ELSE month - 11
  BY <1>1 DEF MonthsBefore
<1>5. YearFrom(t) = z - 1
  <2>1. month >= 11 => diff < 4
    OBVIOUS
  <2> QED
    BY <1>3, <2>1
<1>6. IF diff = leap THEN MonthsBefore(t) + 1 = leap
      ELSE diff = MonthsBefore(t) + (IF MonthsBefore(t) >= leap THEN 1 ELSE 0)
  <2>1. MonthsBefore(t) = IF diff >= leap THEN diff - 1 ELSE diff
    BY <1>4
  <2> QED
    BY <2>1
<1> QED
  BY <1>1, <1>2, <1>5, <1>6 DEF t, DateIn

\* The eleventh month of the year after.
LEMMA LunarDateAtEnd ==
    ASSUME NEW day, NEW k, NEW y \in Int, NEW diff, NEW leap,
           (diff = 12 /\ leap = 99) \/ (diff = 13 /\ leap \in 1..12)
    PROVE  LET t == Events!LunarDate(day, k, y, diff, leap)
           IN  t.year = y /\ t.month = 11 /\ ~t.leap /\ YearFrom(t) = y /\ MonthsBefore(t) = 0
<1> DEFINE count == diff + (IF diff >= leap THEN 10 ELSE 11)
           month == IF count > 12 THEN count - 12 ELSE count
           t == Events!LunarDate(day, k, y, diff, leap)
<1>1. /\ t.year = y - (IF month >= 11 /\ diff < 4 THEN 1 ELSE 0)
      /\ t.month = month /\ (t.leap <=> diff = leap)
  BY DEF Events!LunarDate
<1> HIDE DEF t
<1>2. month = 11 /\ ~(diff < 4) /\ diff # leap
  OBVIOUS
<1> HIDE DEF month
<1>3. t.year = y /\ t.month = 11 /\ ~t.leap
  BY <1>1, <1>2
<1>4. YearFrom(t) = y /\ MonthsBefore(t) = 0
  BY <1>3 DEF YearFrom, MonthsBefore
<1> QED
  BY <1>3, <1>4 DEF t

\* Months are counted from days.
LEMMA MonthsCount ==
    ASSUME NEW j \in Moons, NEW k \in Moons, j <= k, k - j <= 13
    PROVE  (NewMoon[k] - NewMoon[j]) \div 29 = k - j
<1> DEFINE n == k - j
           d == NewMoon[k] - NewMoon[j]
<1>1. n \in Nat /\ n <= 13 /\ d \in Int /\ 29 * n <= d /\ d <= 30 * n
  BY MoonsApart, MoonsAreSpaced
<1> HIDE DEF n, d
<1>2. d \div 29 = n
  BY <1>1
<1> QED
  BY <1>2 DEF n, d

LEMMA MoonsInOrder ==
    ASSUME NEW j \in Moons, NEW k \in Moons
    PROVE  NewMoon[j] <= NewMoon[k] <=> j <= k
<1>1. j \in Nat /\ k \in Nat /\ NewMoon[j] \in Int /\ NewMoon[k] \in Int
  BY MoonsAreSpaced
<1>2. j <= k => 29 * (k - j) <= NewMoon[k] - NewMoon[j]
  BY MoonsApart
<1>3. k <= j => 29 * (j - k) <= NewMoon[j] - NewMoon[k]
  BY MoonsApart
<1> QED
  BY <1>1, <1>2, <1>3


\* The lunar date of a day: the regular month it names is the moon of the day, or a leap month
\* the one after it.
LunarDateHolds(day) ==
    LET k == Events!MoonOf(day)
        t == Events!SolarToLunar(day)
        y == YearFrom(t)
        o == MonthsBefore(t)
    IN  /\ InMoon(k, day) /\ k \in Nat
        /\ t.day = day - NewMoon[k] + 1
        /\ t.year \in Int /\ t.month \in 1..12 /\ t.leap \in BOOLEAN
        /\ FirstMoon(y) <= k /\ k < Events!LunarMonth11(y + 1)
        /\ IF t.leap THEN o + 1 = LeapAfter(y) /\ k = FirstMoon(y) + LeapAfter(y)
           ELSE MoonAt(y, o) = k

LEMMA DayInYear ==
    ASSUME NEW day \in Int, NEW y, y = Events!JdToDate(day).year
    PROVE  y \in Int /\ LastOfYear(y - 1) < day /\ day <= LastOfYear(y)
<1> DEFINE date == Events!JdToDate(day)
           m == date.month
           w == y - 1
           z == y + 1
<1>1. /\ y \in Int /\ m \in 1..12 /\ date.day \in Nat \ {0}
      /\ day = FirstOfMonth(y, m) + date.day - 1 /\ day < FirstOfNext(y, m)
  BY CivilDate
<1>2. w \in Int /\ w < y /\ z \in Int /\ y < z /\ w + 1 = y /\ z = y + 1
  BY <1>1
<1> HIDE DEF date, m, w, z
<1>3. FirstOfNext(w, 12) <= FirstOfMonth(y, m) /\ FirstOfNext(y, m) <= FirstOfMonth(z, 1)
  BY <1>1, <1>2, MonthsFollow
<1>4. FirstOfNext(w, 12) = FirstOfMonth(y, 1)
  BY <1>2 DEF FirstOfNext
<1>5. /\ FirstOfMonth(y, 1) \in Int /\ FirstOfMonth(y, m) \in Int /\ FirstOfNext(y, m) \in Int
      /\ FirstOfMonth(z, 1) \in Int
  <2>1. 1 \in 1..12
    OBVIOUS
  <2> QED
    BY <1>1, <1>2, <2>1, DaysAreNumbers
<1>6. LastOfYear(w) + 1 = FirstOfMonth(y, 1) /\ LastOfYear(w) \in Int
  BY <1>2, LastOfYearIs
<1>7. LastOfYear(y) + 1 = FirstOfMonth(z, 1) /\ LastOfYear(y) \in Int
  BY <1>1, <1>2, LastOfYearIs
<1>8. LastOfYear(w) < day /\ day <= LastOfYear(y)
  BY <1>1, <1>3, <1>4, <1>5, <1>6, <1>7
<1> QED
  BY <1>1, <1>8 DEF w

LEMMA LunarDateOfDay ==
    ASSUME NEW day \in Int, NEW y, y = Events!JdToDate(day).year, IsLunarYear(y - 1), IsLunarYear(y)
    PROVE  LET t == Events!SolarToLunar(day)
           IN  LunarDateHolds(day) /\ (YearFrom(t) = y - 1 \/ (YearFrom(t) = y /\ t.month >= 11))
<1> DEFINE w == y - 1
           k == Events!MoonOf(day)
           t == Events!SolarToLunar(day)
           a == FirstMoon(w)
           b == FirstMoon(y)
           diff == (NewMoon[k] - NewMoon[a]) \div 29
           diff2 == (NewMoon[k] - NewMoon[b]) \div 29
<1>1. y \in Int /\ w \in Int /\ w + 1 = y /\ IsLunarYear(w)
  <2>1. y \in Int
    BY CivilDate
  <2> QED
    BY <2>1
<1>2. /\ a = Events!LunarMonth11(w) /\ b = Events!LunarMonth11(y)
      /\ (b = a + 12 /\ LeapAfter(w) = 99) \/ (b = a + 13 /\ LeapAfter(w) \in 1..12)
  BY <1>1, LunarYearIs
<1>3. /\ a \in Nat /\ a \in Moons /\ b \in Nat /\ b \in Moons
      /\ Events!LunarMonth11(y + 1) \in Nat
      /\ (Events!LunarMonth11(y + 1) = b + 12 /\ LeapAfter(y) = 99)
           \/ (Events!LunarMonth11(y + 1) = b + 13 /\ LeapAfter(y) \in 1..12)
  BY <1>1, LunarYearIs, MoonsOfYear
<1>4. t = IF NewMoon[Events!LunarMonth11(y)] >= NewMoon[k]
          THEN Events!LunarDate(day, k, y,
                   (NewMoon[k] - NewMoon[Events!LunarYear(w).first]) \div 29, Events!LunarYear(w).leap)
          ELSE Events!LunarDate(day, k, y + 1,
                   (NewMoon[k] - NewMoon[Events!LunarYear(y).first]) \div 29, Events!LunarYear(y).leap)
  BY DEF Events!SolarToLunar
<1>5. t = IF NewMoon[b] >= NewMoon[k] THEN Events!LunarDate(day, k, y, diff, LeapAfter(w))
          ELSE Events!LunarDate(day, k, y + 1, diff2, LeapAfter(y))
  BY <1>2, <1>4 DEF FirstMoon, LeapAfter
<1>6. InMoon(k, day) /\ k \in Nat /\ k \in Moons /\ a <= k /\ k <= b + 1
  <2> DEFINE k0 == Events!MoonOf(LastOfYear(w))
             k1 == Events!MoonOf(LastOfYear(y))
  <2>1. HasMoons(LastOfYear(w)) /\ HasMoons(LastOfYear(y))
    BY <1>1 DEF IsLunarYear, LastOfYear
  <2>2. InMoon(k0, LastOfYear(w)) /\ k0 \in Nat /\ (a = k0 \/ a = k0 - 1)
    BY <1>1, <1>2, <2>1, EleventhMonth
  <2>3. InMoon(k1, LastOfYear(y)) /\ k1 \in Nat /\ (b = k1 \/ b = k1 - 1)
    BY <1>1, <1>2, <2>1, EleventhMonth
  <2>4. LastOfYear(w) < day /\ day <= LastOfYear(y) /\ LastOfYear(w) \in Int /\ LastOfYear(y) \in Int
    BY <1>1, DayInYear, LastOfYearIs
  <2> HIDE DEF k0, k1, k, a, b, w
  <2>5. /\ k0 \in Moons /\ k1 + 1 \in Moons /\ NewMoon[k0] \in Int /\ NewMoon[k1 + 1] \in Int
        /\ NewMoon[k0] <= day /\ day < NewMoon[k1 + 1]
    BY <2>2, <2>3, <2>4, MoonsAreSpaced DEF InMoon
  <2>6. InMoon(k, day) /\ k0 <= k /\ k < k1 + 1
    BY <2>5, MoonExists DEF k
  <2>7. k \in Nat /\ k \in Moons
    BY <2>6, MoonsAreSpaced DEF InMoon
  <2> QED
    BY <1>3, <2>2, <2>3, <2>6, <2>7
<1> HIDE DEF k, a, b, w, t
<1>7. NewMoon[b] >= NewMoon[k] <=> k <= b
  <2>1. NewMoon[b] \in Int /\ NewMoon[k] \in Int
    BY <1>3, <1>6, MoonsAreSpaced
  <2>2. NewMoon[k] <= NewMoon[b] <=> k <= b
    BY <1>3, <1>6, MoonsInOrder
  <2> QED
    BY <2>1, <2>2
<1>8. CASE k < b
  <2>1. diff = k - a /\ diff \in 0..12 /\ (LeapAfter(w) \in 1..12 \/ (LeapAfter(w) = 99 /\ diff <= 11))
    <3>1. k - a <= 13
      BY <1>2, <1>3, <1>6, <1>8
    <3>2. diff = k - a
      BY <1>3, <1>6, <3>1, MonthsCount
    <3> QED
      BY <1>2, <1>3, <1>6, <1>8, <3>2
  <2> HIDE DEF diff
  <2>2. t = Events!LunarDate(day, k, y, diff, LeapAfter(w))
    BY <1>1, <1>3, <1>5, <1>6, <1>7, <1>8
  <2>3. DateIn(t, y, diff, LeapAfter(w)) /\ w = y - 1
    BY <1>1, <2>1, <2>2, LunarDateIs DEF w
  <2>4. t.day = day - NewMoon[k] + 1
    BY <2>2 DEF Events!LunarDate
  <2>5. MonthsBefore(t) \in Int
    BY <2>3 DEF DateIn, MonthsBefore
  <2>6. IF t.leap THEN MonthsBefore(t) + 1 = LeapAfter(w) /\ k = a + LeapAfter(w)
        ELSE MoonAt(w, MonthsBefore(t)) = k
    BY <1>2, <1>3, <1>6, <2>1, <2>3, <2>5 DEF DateIn, MoonAt, a
  <2>7. a <= k /\ k < Events!LunarMonth11(w + 1)
    BY <1>1, <1>2, <1>6, <1>8
  <2> QED
    BY <1>6, <2>3, <2>4, <2>6, <2>7 DEF LunarDateHolds, DateIn, k, t, a, w
<1>9. CASE k = b
  <2>1. (diff = 12 /\ LeapAfter(w) = 99) \/ (diff = 13 /\ LeapAfter(w) \in 1..12)
    <3>1. k - a <= 13
      BY <1>2, <1>3, <1>6, <1>9
    <3>2. diff = k - a
      BY <1>3, <1>6, <3>1, MonthsCount
    <3> QED
      BY <1>2, <1>3, <1>6, <1>9, <3>2
  <2> HIDE DEF diff
  <2>2. t = Events!LunarDate(day, k, y, diff, LeapAfter(w))
    BY <1>3, <1>5, <1>6, <1>7, <1>9
  <2>3. t.year = y /\ t.month = 11 /\ ~t.leap /\ YearFrom(t) = y /\ MonthsBefore(t) = 0
    BY <1>1, <2>1, <2>2, LunarDateAtEnd
  <2>4. t.day = day - NewMoon[k] + 1 /\ t.leap \in BOOLEAN
    BY <2>2 DEF Events!LunarDate
  <2>5. MoonAt(y, 0) = k
    BY <1>3, <1>9 DEF MoonAt, b
  <2>6. b <= k /\ k < Events!LunarMonth11(y + 1)
    BY <1>3, <1>9
  <2>7. t.year \in Int /\ t.month \in 1..12
    BY <1>1, <2>3
  <2> QED
    BY <1>6, <2>3, <2>4, <2>5, <2>6, <2>7 DEF LunarDateHolds, k, t, b
<1>10. CASE k = b + 1
  <2>1. diff2 = 1 /\ LeapAfter(y) \in 1..12 \cup {99}
    <3>1. k - b <= 13 /\ b <= k /\ k - b = 1
      BY <1>3, <1>10
    <3>2. diff2 = k - b
      BY <1>3, <1>6, <3>1, MonthsCount
    <3> QED
      BY <1>3, <3>1, <3>2
  <2> HIDE DEF diff2
  <2>2. t = Events!LunarDate(day, k, y + 1, diff2, LeapAfter(y))
    BY <1>3, <1>5, <1>6, <1>7, <1>10
  <2>3. DateIn(t, y + 1, diff2, LeapAfter(y)) /\ (y + 1) - 1 = y
    <3>1. diff2 \in 0..12 /\ (LeapAfter(y) \in 1..12 \/ (LeapAfter(y) = 99 /\ diff2 <= 11)) /\ y + 1 \in Int
      BY <1>1, <2>1
    <3>2. DateIn(t, y + 1, diff2, LeapAfter(y))
      BY <2>2, <3>1, LunarDateIs
    <3> QED
      BY <1>1, <3>2
  <2>4. t.day = day - NewMoon[k] + 1
    BY <2>2 DEF Events!LunarDate
  <2>5. MonthsBefore(t) \in Int
    BY <2>3 DEF DateIn, MonthsBefore
  <2>6. IF t.leap THEN MonthsBefore(t) + 1 = LeapAfter(y) /\ k = b + LeapAfter(y)
        ELSE MoonAt(y, MonthsBefore(t)) = k
    BY <1>3, <1>6, <1>10, <2>1, <2>3, <2>5 DEF DateIn, MoonAt, b
  <2>7. b <= k /\ k < Events!LunarMonth11(y + 1)
    BY <1>3, <1>10
  <2>8. t.month >= 11
    BY <2>1, <2>3 DEF DateIn, MonthsBefore
  <2> QED
    BY <1>6, <2>3, <2>4, <2>6, <2>7, <2>8 DEF LunarDateHolds, DateIn, k, t, b
<1> QED
  BY <1>3, <1>6, <1>8, <1>9, <1>10


\* The first month of a lunar year.
FirstMonth(y) == Events!MoonOfMonth(y, 1, FALSE)

LEMMA FirstMonthIs ==
    ASSUME NEW y \in Int
    PROVE  FirstMonth(y) = MoonAt(y - 1, 2)
BY DEF FirstMonth, Events!MoonOfMonth, MoonAt, FirstMoon, LeapAfter

\* Where a day is among the months of the year that its lunar date names.
LunarDayHolds(day) ==
    LET k == Events!MoonOf(day)
        t == Events!SolarToLunar(day)
    IN  /\ FirstMonth(t.year) <= k /\ k < FirstMonth(t.year + 1)
        /\ \A n \in 1..12 : Events!MoonOfMonth(t.year, n, FALSE) = k <=> n = t.month /\ ~t.leap

\* The months of a year, and where they lie between its first and that of the next.
LunarMonthsHold(y) ==
    /\ FirstMonth(y) \in Nat /\ FirstMonth(y + 1) \in Nat
    /\ FirstMonth(y) < FirstMonth(y + 1)
    /\ \A n \in 1..12 : LET k == Events!MoonOfMonth(y, n, FALSE)
                        IN  /\ k \in Nat /\ k \in Moons /\ k + 1 \in Moons
                            /\ FirstMonth(y) <= k /\ k < FirstMonth(y + 1)

LEMMA MonthsOfLunarYear ==
    ASSUME NEW y \in Int, IsLunarYear(y - 1), IsLunarYear(y)
    PROVE  LunarMonthsHold(y)
<1> DEFINE w == y - 1
           Month(n) == Events!MoonOfMonth(y, n, FALSE)
           a == FirstMoon(w)
           b == FirstMoon(y)
<1>1. w \in Int /\ IsLunarYear(w) /\ w + 1 = y /\ y + 1 \in Int
  OBVIOUS
<1>2. b = Events!LunarMonth11(y)
  BY LunarYearIs
<1>3. \A n \in 1..12 : Month(n) = IF n < 11 THEN MoonAt(w, n + 1) ELSE MoonAt(y, n - 11)
  BY RegularMonth
<1>4. FirstMonth(y) = MoonAt(w, 2) /\ FirstMonth(y + 1) = MoonAt(y, 2)
  <2> DEFINE z == y + 1
  <2>1. z \in Int /\ z - 1 = y
    BY <1>1
  <2> HIDE DEF z
  <2> QED
    BY <2>1, FirstMonthIs DEF z
<1> HIDE DEF w, Month, a, b
<1>5. /\ b \in Nat /\ a \in Nat
      /\ \A o \in 0..11 : MoonAt(w, o) \in a..(b - 1) /\ MoonAt(w, o) \in Moons /\ MoonAt(w, o) + 1 \in Moons
      /\ \A o \in 0..11, p \in 0..11 : o < p => MoonAt(w, o) < MoonAt(w, p)
  BY <1>1, <1>2, MoonsOfYear DEF a
<1>6. /\ \A o \in 0..11 : b <= MoonAt(y, o) /\ MoonAt(y, o) \in Nat
      /\ \A o \in 0..11 : MoonAt(y, o) \in Moons /\ MoonAt(y, o) + 1 \in Moons
      /\ \A o \in 0..11, p \in 0..11 : o < p => MoonAt(y, o) < MoonAt(y, p)
  <2>1. /\ b \in Nat /\ Events!LunarMonth11(y + 1) \in Nat
        /\ \A o \in 0..11 : MoonAt(y, o) \in b..(Events!LunarMonth11(y + 1) - 1)
                            /\ MoonAt(y, o) \in Moons /\ MoonAt(y, o) + 1 \in Moons
        /\ \A o \in 0..11, p \in 0..11 : o < p => MoonAt(y, o) < MoonAt(y, p)
    BY MoonsOfYear DEF b
  <2> QED
    BY <2>1
<1>7. /\ MoonAt(w, 2) \in Nat /\ MoonAt(w, 2) < b /\ MoonAt(y, 2) \in Nat /\ b <= MoonAt(y, 2)
  <2>1. 2 \in 0..11
    OBVIOUS
  <2> QED
    BY <1>5, <1>6, <2>1
<1>8. ASSUME NEW n \in 1..12
      PROVE  /\ Month(n) \in Nat /\ Month(n) \in Moons /\ Month(n) + 1 \in Moons
             /\ MoonAt(w, 2) <= Month(n) /\ Month(n) < MoonAt(y, 2)
  <2>1. CASE n < 11
    <3>1. n + 1 \in 0..11 /\ 2 \in 0..11 /\ (n + 1 = 2 \/ 2 < n + 1)
      BY <2>1
    <3>2. /\ MoonAt(w, n + 1) \in a..(b - 1) /\ MoonAt(w, n + 1) \in Moons /\ MoonAt(w, n + 1) + 1 \in Moons
          /\ MoonAt(w, 2) <= MoonAt(w, n + 1)
      BY <1>5, <1>7, <3>1
    <3>3. Month(n) = MoonAt(w, n + 1)
      BY <1>3, <2>1
    <3> QED
      BY <1>5, <1>7, <3>2, <3>3
  <2>2. CASE n >= 11
    <3>1. n - 11 \in 0..11 /\ 2 \in 0..11 /\ n - 11 < 2
      BY <2>2
    <3>2. /\ b <= MoonAt(y, n - 11) /\ MoonAt(y, n - 11) \in Nat
          /\ MoonAt(y, n - 11) \in Moons /\ MoonAt(y, n - 11) + 1 \in Moons
          /\ MoonAt(y, n - 11) < MoonAt(y, 2)
      BY <1>6, <3>1
    <3>3. Month(n) = MoonAt(y, n - 11)
      BY <1>3, <2>2
    <3> QED
      BY <1>5, <1>7, <3>2, <3>3
  <2> QED
    BY <2>1, <2>2
<1>9. /\ FirstMonth(y) \in Nat /\ FirstMonth(y + 1) \in Nat
      /\ FirstMonth(y) < FirstMonth(y + 1)
  BY <1>4, <1>5, <1>7
<1>10. ASSUME NEW n \in 1..12
       PROVE  /\ Month(n) \in Nat /\ Month(n) \in Moons /\ Month(n) + 1 \in Moons
              /\ FirstMonth(y) <= Month(n) /\ Month(n) < FirstMonth(y + 1)
  BY <1>4, <1>8
<1> QED
  BY <1>9, <1>10 DEF LunarMonthsHold, Month


\* In its lunar year, the moon of a month that is named is no other regular month's, and that of
\* a leap month is no regular month's.
LEMMA MonthInYear ==
    ASSUME NEW w \in Int, IsLunarYear(w), NEW o \in 0..11, NEW k \in Nat, NEW leap \in BOOLEAN,
           IF leap THEN o + 1 = LeapAfter(w) /\ k = FirstMoon(w) + LeapAfter(w) ELSE MoonAt(w, o) = k
    PROVE  /\ \A p \in 0..11 : MoonAt(w, p) = k <=> p = o /\ ~leap
           /\ o >= 2 => MoonAt(w, 2) <= k
           /\ o < 2 => k < MoonAt(w, 2)
<1> DEFINE a == FirstMoon(w)
<1>1. /\ a \in Nat
      /\ \A p \in 0..11, q \in 0..11 : p < q => MoonAt(w, p) < MoonAt(w, q)
      /\ \A p \in 0..11 : MoonAt(w, p) # a + LeapAfter(w)
      /\ \A p \in 0..11 : MoonAt(w, p) \in Nat
  <2>1. /\ a \in Nat /\ Events!LunarMonth11(w + 1) \in Nat
        /\ \A p \in 0..11 : MoonAt(w, p) \in a..(Events!LunarMonth11(w + 1) - 1)
        /\ \A p \in 0..11, q \in 0..11 : p < q => MoonAt(w, p) < MoonAt(w, q)
        /\ \A p \in 0..11 : MoonAt(w, p) # a + LeapAfter(w)
    BY MoonsOfYear
  <2> QED
    BY <2>1
<1>2. \A p : MoonAt(w, p) = a + p + (IF p >= LeapAfter(w) THEN 1 ELSE 0)
  BY DEF MoonAt
<1> HIDE DEF a
<1>3. CASE leap
  <2>1. o + 1 = LeapAfter(w) /\ k = a + LeapAfter(w)
    BY <1>3 DEF a
  <2>2. MoonAt(w, 2) = a + 2 + (IF 2 >= LeapAfter(w) THEN 1 ELSE 0)
    BY <1>2
  <2>3. (o >= 2 => MoonAt(w, 2) <= k) /\ (o < 2 => k < MoonAt(w, 2))
    BY <1>1, <2>1, <2>2
  <2> QED
    BY <1>1, <1>3, <2>1, <2>3
<1>4. CASE ~leap
  <2>1. MoonAt(w, o) = k
    BY <1>4
  <2>2. 2 \in 0..11 /\ MoonAt(w, 2) \in Nat
    BY <1>1
  <2>3. (o >= 2 => MoonAt(w, 2) <= k) /\ (o < 2 => k < MoonAt(w, 2))
    BY <1>1, <2>1, <2>2
  <2>4. ASSUME NEW p \in 0..11 PROVE MoonAt(w, p) = k <=> p = o
    BY <1>1, <2>1
  <2> QED
    BY <1>4, <2>3, <2>4
<1> QED
  BY <1>3, <1>4

LEMMA LunarDayOfYear ==
    ASSUME NEW day \in Int, NEW y, y = Events!JdToDate(day).year,
           IsLunarYear(y - 2), IsLunarYear(y - 1), IsLunarYear(y)
    PROVE  LET t == Events!SolarToLunar(day)
           IN  LunarDateHolds(day) /\ LunarDayHolds(day) /\ (t.year = y - 1 \/ t.year = y)
<1> DEFINE k == Events!MoonOf(day)
           t == Events!SolarToLunar(day)
           w == YearFrom(t)
           o == MonthsBefore(t)
           Month(n) == Events!MoonOfMonth(t.year, n, FALSE)
<1>1. y \in Int /\ LunarDateHolds(day) /\ (w = y - 1 \/ (w = y /\ t.month >= 11))
  <2>1. y \in Int
    BY CivilDate
  <2> QED
    BY <2>1, LunarDateOfDay
<1>2. /\ InMoon(k, day) /\ k \in Nat
      /\ t.year \in Int /\ t.month \in 1..12 /\ t.leap \in BOOLEAN
      /\ FirstMoon(w) <= k /\ k < Events!LunarMonth11(w + 1)
      /\ IF t.leap THEN o + 1 = LeapAfter(w) /\ k = FirstMoon(w) + LeapAfter(w) ELSE MoonAt(w, o) = k
  BY <1>1 DEF LunarDateHolds
<1>3. /\ w = IF t.month < 11 THEN t.year - 1 ELSE t.year
      /\ o = IF t.month < 11 THEN t.month + 1 ELSE t.month - 11
  BY DEF YearFrom, MonthsBefore
<1>4. /\ FirstMonth(t.year) = MoonAt(t.year - 1, 2)
      /\ FirstMonth(t.year + 1) = MoonAt(t.year + 1 - 1, 2)
      /\ t.year + 1 - 1 = t.year
  <2>1. t.year + 1 \in Int /\ t.year + 1 - 1 = t.year
    BY <1>2
  <2> QED
    BY <1>2, <2>1, FirstMonthIs
<1>5. \A n \in 1..12 : Month(n) = IF n < 11 THEN MoonAt(t.year - 1, n + 1) ELSE MoonAt(t.year, n - 11)
  BY <1>2, RegularMonth
<1>6. LunarDayHolds(day) <=> /\ FirstMonth(t.year) <= k /\ k < FirstMonth(t.year + 1)
                             /\ \A n \in 1..12 : Month(n) = k <=> n = t.month /\ ~t.leap
  BY DEF LunarDayHolds
<1> HIDE DEF k, t, w, o, Month
<1>7. w \in Int /\ IsLunarYear(w) /\ o \in 0..11
  <2>1. w = y - 1 \/ w = y
    BY <1>1
  <2> QED
    BY <1>1, <1>2, <1>3, <2>1
<1>8. /\ \A p \in 0..11 : MoonAt(w, p) = k <=> p = o /\ ~t.leap
      /\ o >= 2 => MoonAt(w, 2) <= k
      /\ o < 2 => k < MoonAt(w, 2)
  BY <1>2, <1>7, MonthInYear
<1>9. CASE t.month < 11
  <2>1. w = y - 1 /\ t.year = y /\ o = t.month + 1 /\ t.year - 1 = w /\ w + 1 = y
    BY <1>1, <1>2, <1>3, <1>9
  <2>2. /\ FirstMoon(y) = Events!LunarMonth11(y) /\ FirstMoon(y) \in Nat
        /\ \A p \in 0..11 : MoonAt(y, p) \in Nat /\ FirstMoon(y) <= MoonAt(y, p)
    <3>1. /\ FirstMoon(y) = Events!LunarMonth11(y) /\ FirstMoon(y) \in Nat /\ Events!LunarMonth11(y + 1) \in Nat
          /\ \A p \in 0..11 : MoonAt(y, p) \in FirstMoon(y)..(Events!LunarMonth11(y + 1) - 1)
      BY <1>1, LunarYearIs, MoonsOfYear
    <3> QED
      BY <3>1
  <2>3. \A p \in 0..11 : MoonAt(y, p) \in Nat /\ k < MoonAt(y, p)
    BY <1>2, <2>1, <2>2
  <2>4. MoonAt(w, 2) <= k /\ k < MoonAt(y, 2)
    <3>1. 2 \in 0..11 /\ o >= 2
      BY <1>2, <2>1
    <3> QED
      BY <1>8, <2>3, <3>1
  <2>5. ASSUME NEW n \in 1..12 PROVE Month(n) = k <=> n = t.month /\ ~t.leap
    <3>1. CASE n < 11
      <4>1. n + 1 \in 0..11 /\ (n + 1 = o <=> n = t.month)
        BY <1>2, <2>1, <3>1
      <4>2. Month(n) = MoonAt(w, n + 1)
        BY <1>5, <2>1, <3>1
      <4> QED
        BY <1>8, <4>1, <4>2
    <3>2. CASE n >= 11
      <4>1. n - 11 \in 0..11 /\ n # t.month
        BY <1>2, <1>9, <3>2
      <4>2. Month(n) = MoonAt(y, n - 11)
        BY <1>5, <2>1, <3>2
      <4>3. Month(n) # k
        BY <1>2, <2>3, <4>1, <4>2
      <4> QED
        BY <4>1, <4>3
    <3> QED
      BY <3>1, <3>2
  <2> QED
    BY <1>1, <1>4, <1>6, <2>1, <2>4, <2>5 DEF t
<1>10. CASE t.month >= 11
  <2> DEFINE v == w - 1
  <2>1. w = t.year /\ o = t.month - 11 /\ t.year - 1 = v /\ v + 1 = w /\ v \in Int
    BY <1>2, <1>3, <1>7, <1>10
  <2>2. IsLunarYear(v)
    <3>1. v = y - 1 \/ v = y - 2
      BY <1>1
    <3> QED
      BY <3>1
  <2> HIDE DEF v
  <2>3. /\ FirstMoon(w) = Events!LunarMonth11(w) /\ FirstMoon(w) \in Nat
        /\ \A p \in 0..11 : MoonAt(v, p) \in Nat /\ MoonAt(v, p) < FirstMoon(w)
    <3>1. FirstMoon(w) = Events!LunarMonth11(w) /\ FirstMoon(w) \in Nat
      BY <1>7, LunarYearIs, MoonsOfYear
    <3>2. /\ FirstMoon(v) \in Nat
          /\ \A p \in 0..11 : MoonAt(v, p) \in FirstMoon(v)..(Events!LunarMonth11(v + 1) - 1)
      BY <2>1, <2>2, MoonsOfYear
    <3> QED
      BY <2>1, <3>1, <3>2
  <2>4. MoonAt(v, 2) <= k /\ k < MoonAt(w, 2)
    <3>1. 2 \in 0..11 /\ o < 2
      BY <1>2, <2>1
    <3> QED
      BY <1>2, <1>8, <2>3, <3>1
  <2>5. ASSUME NEW n \in 1..12 PROVE Month(n) = k <=> n = t.month /\ ~t.leap
    <3>1. CASE n < 11
      <4>1. n + 1 \in 0..11 /\ n # t.month
        BY <1>2, <1>10, <3>1
      <4>2. Month(n) = MoonAt(v, n + 1)
        BY <1>5, <2>1, <3>1
      <4>3. Month(n) # k
        BY <1>2, <2>3, <4>1, <4>2
      <4> QED
        BY <4>1, <4>3
    <3>2. CASE n >= 11
      <4>1. n - 11 \in 0..11 /\ (n - 11 = o <=> n = t.month)
        BY <1>2, <2>1, <3>2
      <4>2. Month(n) = MoonAt(w, n - 11)
        BY <1>5, <2>1, <3>2
      <4> QED
        BY <1>8, <4>1, <4>2
    <3> QED
      BY <3>1, <3>2
  <2> QED
    BY <1>1, <1>4, <1>6, <2>1, <2>4, <2>5 DEF t
<1> QED
  BY <1>2, <1>9, <1>10

\* The day after a day is the first of a lunar month when the next moon is new.
LEMMA NextLunarDay ==
    ASSUME NEW day \in Int, LunarDateHolds(day), LunarDateHolds(day + 1)
    PROVE  LET k == Events!MoonOf(day)
               next == Events!MoonOf(day + 1)
           IN  /\ Events!SolarToLunar(day + 1).day = 1 <=> day + 1 = NewMoon[k + 1]
               /\ IF day + 1 = NewMoon[k + 1] THEN next = k + 1 ELSE next = k
<1> DEFINE k == Events!MoonOf(day)
           next == Events!MoonOf(day + 1)
           t == Events!SolarToLunar(day + 1)
<1>1. InMoon(k, day) /\ InMoon(next, day + 1) /\ t.day = (day + 1) - NewMoon[next] + 1
  <2>1. InMoon(k, day)
    BY DEF LunarDateHolds
  <2>2. InMoon(next, day + 1)
    BY DEF LunarDateHolds
  <2>3. t.day = (day + 1) - NewMoon[next] + 1
    BY DEF LunarDateHolds
  <2> QED
    BY <2>1, <2>2, <2>3
<1> HIDE DEF k, t
<1>2. /\ k \in Nat /\ k \in Moons /\ k + 1 \in Moons
      /\ NewMoon[k] \in Int /\ NewMoon[k + 1] \in Int /\ NewMoon[k] <= day /\ day < NewMoon[k + 1]
  BY <1>1, MoonsAreSpaced DEF InMoon
<1>3. CASE day + 1 < NewMoon[k + 1]
  <2>1. InMoon(k, day + 1)
    BY <1>2, <1>3 DEF InMoon
  <2>2. next = k
    BY <2>1, MoonIs
  <2>3. t.day # 1
    BY <1>1, <1>2, <2>2
  <2> QED
    BY <1>2, <1>3, <2>2, <2>3 DEF k, t
<1>4. CASE day + 1 = NewMoon[k + 1]
  <2> HIDE DEF next
  <2>1. /\ next \in Nat /\ next \in Moons /\ next + 1 \in Moons /\ NewMoon[next] \in Int
        /\ NewMoon[next + 1] \in Int /\ NewMoon[next] <= NewMoon[k + 1] /\ NewMoon[k + 1] < NewMoon[next + 1]
    BY <1>1, <1>4, MoonsAreSpaced DEF InMoon
  <2>2. next <= k + 1
    BY <1>2, <2>1, MoonsInOrder
  <2>3. ~(next + 1 <= k + 1)
    <3>1. next + 1 <= k + 1 <=> NewMoon[next + 1] <= NewMoon[k + 1]
      BY <1>2, <2>1, MoonsInOrder
    <3> QED
      BY <1>2, <2>1, <3>1
  <2>4. next = k + 1
    BY <1>2, <2>1, <2>2, <2>3
  <2>5. t.day = 1
    BY <1>1, <1>2, <1>4, <2>4
  <2> QED
    BY <1>4, <2>4, <2>5 DEF k, t, next
<1> QED
  BY <1>2, <1>3, <1>4

\* A lunar anniversary is in the regular month, on its day or the last of the month.
LEMMA LunarAnniversaryIs ==
    ASSUME NEW y \in Int, LunarMonthsHold(y), NEW was, was.month \in 1..12, was.day \in Nat \ {0}
    PROVE  LET k == Events!MoonOfMonth(y, was.month, FALSE)
               this == Events!LunarAnniversary(y, was)
           IN  /\ this = IF NewMoon[k] + was.day <= NewMoon[k + 1]
                         THEN NewMoon[k] + was.day - 1 ELSE NewMoon[k + 1] - 1
               /\ this \in Int /\ NewMoon[k] <= this /\ this < NewMoon[k + 1]
               /\ k \in Nat /\ k \in Moons /\ k + 1 \in Moons
               /\ FirstMonth(y) <= k /\ k < FirstMonth(y + 1)
               /\ NewMoon[k] \in Int /\ NewMoon[k + 1] \in Int
<1> DEFINE k == Events!MoonOfMonth(y, was.month, FALSE)
           this == Events!LunarAnniversary(y, was)
           first == NewMoon[k]
           next == NewMoon[k + 1]
<1>1. this = first + (IF was.day <= next - first THEN was.day ELSE next - first) - 1
  BY DEF Events!LunarAnniversary, Events!LunarToSolar, Events!DaysInLunarMonth, Events!DaysOf, Events!Least
<1>2. /\ k \in Nat /\ k \in Moons /\ k + 1 \in Moons
      /\ FirstMonth(y) <= k /\ k < FirstMonth(y + 1)
  BY DEF LunarMonthsHold
<1> HIDE DEF k, this
<1>3. first \in Int /\ next \in Int /\ next - first \in {29, 30}
  BY <1>2, MoonsAreSpaced
<1> HIDE DEF first, next
<1>4. /\ this = IF first + was.day <= next THEN first + was.day - 1 ELSE next - 1
      /\ this \in Int /\ first <= this /\ this < next
  BY <1>1, <1>3
<1> QED
  BY <1>2, <1>3, <1>4 DEF k, this, first, next

LunarKept(born, day) ==
    LET was == Events!SolarToLunar(born)
        is  == Events!SolarToLunar(day)
    IN  /\ is.month = was.month /\ ~is.leap
        /\ is.day = was.day \/ (is.day < was.day /\ Events!SolarToLunar(day + 1).day = 1)

LunarIsFirstKept(born, day) ==
    LET next == Events!NextLunarAnniversary(born, day)
    IN  /\ next \in Int /\ next >= day
        /\ next = day <=> LunarKept(born, day)
        /\ next # day => Events!NextLunarAnniversary(born, day + 1) = next

\* The years of the days and of the dates are in the data.
YearsAround(y) == IsLunarYear(y - 2) /\ IsLunarYear(y - 1) /\ IsLunarYear(y) /\ IsLunarYear(y + 1)

\* Tomorrow is in the same lunar year, or the first day of the next.
LEMMA NextLunarYear ==
    ASSUME NEW day \in Int, NEW y, y = Events!JdToDate(day).year, YearsAround(y)
    PROVE  LET t == Events!SolarToLunar(day)
               morrow == Events!SolarToLunar(day + 1)
           IN  /\ LunarDateHolds(day) /\ LunarDayHolds(day) /\ (t.year = y - 1 \/ t.year = y)
               /\ LunarDateHolds(day + 1)
               /\ \/ morrow.year = t.year
                  \/ /\ morrow.year = t.year + 1
                     /\ day + 1 = NewMoon[FirstMonth(t.year + 1)]
<1> DEFINE t == Events!SolarToLunar(day)
           morrow == Events!SolarToLunar(day + 1)
           z == Events!JdToDate(day + 1).year
           k == Events!MoonOf(day)
           next == Events!MoonOf(day + 1)
<1>1. y \in Int /\ day + 1 \in Int
  <2>1. y \in Int
    BY CivilDate
  <2> QED
    BY <2>1
<1>2. z = y \/ z = y + 1
  BY NextCivilDay
<1>3. LunarDateHolds(day) /\ LunarDayHolds(day) /\ (t.year = y - 1 \/ t.year = y)
  BY LunarDayOfYear DEF YearsAround
<1>4. LunarDateHolds(day + 1) /\ LunarDayHolds(day + 1) /\ (morrow.year = z - 1 \/ morrow.year = z)
  <2>1. IsLunarYear(z - 2) /\ IsLunarYear(z - 1) /\ IsLunarYear(z)
    <3>1. CASE z = y
      BY <3>1 DEF YearsAround
    <3>2. CASE z = y + 1
      <4>1. z - 2 = y - 1 /\ z - 1 = y
        BY <1>1, <3>2
      <4> QED
        BY <3>2, <4>1 DEF YearsAround
    <3> QED
      BY <1>2, <3>1, <3>2
  <2> DEFINE d == day + 1
  <2>2. d \in Int /\ z = Events!JdToDate(d).year
    BY <1>1
  <2> HIDE DEF z, d
  <2>3. LET u == Events!SolarToLunar(d)
        IN  LunarDateHolds(d) /\ LunarDayHolds(d) /\ (u.year = z - 1 \/ u.year = z)
    BY <2>1, <2>2, LunarDayOfYear
  <2> QED
    BY <2>3 DEF d
<1>5. FirstMonth(t.year) <= k /\ k < FirstMonth(t.year + 1)
  BY <1>3 DEF LunarDayHolds
<1>6. FirstMonth(morrow.year) <= next /\ next < FirstMonth(morrow.year + 1)
  BY <1>4 DEF LunarDayHolds
<1>7. k \in Nat /\ (IF day + 1 = NewMoon[k + 1] THEN next = k + 1 ELSE next = k)
  BY <1>3, <1>4, NextLunarDay DEF LunarDateHolds
<1> HIDE DEF t, morrow, z, k, next
<1>8. LunarMonthsHold(y - 1) /\ LunarMonthsHold(y) /\ LunarMonthsHold(y + 1)
  <2>1. y - 1 \in Int /\ y - 1 - 1 = y - 2 /\ y + 1 \in Int /\ y + 1 - 1 = y
    BY <1>1
  <2> DEFINE v == y - 1
             x == y + 1
  <2>2. v \in Int /\ IsLunarYear(v - 1) /\ IsLunarYear(v)
    BY <1>1, <2>1 DEF YearsAround
  <2>3. x \in Int /\ IsLunarYear(x - 1) /\ IsLunarYear(x)
    BY <1>1, <2>1 DEF YearsAround
  <2> HIDE DEF v, x
  <2>4. LunarMonthsHold(v) /\ LunarMonthsHold(x)
    BY <2>2, <2>3, MonthsOfLunarYear
  <2>5. LunarMonthsHold(y)
    BY <1>1, MonthsOfLunarYear DEF YearsAround
  <2> QED
    BY <2>4, <2>5 DEF v, x
<1>9. /\ FirstMonth(y - 1) \in Nat /\ FirstMonth(y) \in Nat /\ FirstMonth(y + 1) \in Nat
      /\ FirstMonth(y + 1 + 1) \in Nat
      /\ FirstMonth(y - 1) < FirstMonth(y) /\ FirstMonth(y) < FirstMonth(y + 1)
      /\ FirstMonth(y + 1) < FirstMonth(y + 1 + 1)
  <2>1. y - 1 + 1 = y
    BY <1>1
  <2> QED
    BY <1>8, <2>1 DEF LunarMonthsHold
<1>10. morrow.year = y - 1 \/ morrow.year = y \/ morrow.year = y + 1
  BY <1>1, <1>2, <1>4
<1>11. y - 1 + 1 = y
  BY <1>1
<1>12. CASE t.year = y - 1
  <2>1. FirstMonth(y - 1) <= k /\ k < FirstMonth(y)
    BY <1>5, <1>11, <1>12
  <2>2. morrow.year # y + 1
    BY <1>6, <1>7, <1>9, <2>1
  <2>3. morrow.year = y => next = k + 1 /\ FirstMonth(y) = k + 1 /\ day + 1 = NewMoon[k + 1]
    BY <1>6, <1>7, <1>9, <2>1
  <2> QED
    BY <1>3, <1>4, <1>10, <1>11, <1>12, <2>2, <2>3 DEF t, morrow
<1>13. CASE t.year = y
  <2>1. FirstMonth(y) <= k /\ k < FirstMonth(y + 1)
    BY <1>5, <1>13
  <2>2. morrow.year # y - 1
    BY <1>6, <1>7, <1>9, <1>11, <2>1
  <2>3. morrow.year = y + 1 => next = k + 1 /\ FirstMonth(y + 1) = k + 1 /\ day + 1 = NewMoon[k + 1]
    BY <1>6, <1>7, <1>9, <2>1
  <2> QED
    BY <1>3, <1>4, <1>10, <1>13, <2>2, <2>3 DEF t, morrow
<1> QED
  BY <1>3, <1>12, <1>13


\* The lunar half, for every date and every day whose years are in the data.
LEMMA LunarIsKept ==
    ASSUME NEW born \in Int, NEW x, x = Events!JdToDate(born).year, IsLunarYear(x - 1), IsLunarYear(x),
           NEW day \in Int, NEW y, y = Events!JdToDate(day).year, YearsAround(y)
    PROVE  LunarIsFirstKept(born, day)
<1> DEFINE was == Events!SolarToLunar(born)
           is == Events!SolarToLunar(day)
           morrow == Events!SolarToLunar(day + 1)
           k == Events!MoonOf(day)
           Y == is.year
           r == Events!MoonOfMonth(Y, was.month, FALSE)
           q == Events!MoonOfMonth(Y + 1, was.month, FALSE)
           this == Events!LunarAnniversary(Y, was)
           that == Events!LunarAnniversary(Y + 1, was)
           later == Events!LunarAnniversary(Y + 1 + 1, was)
           next == Events!NextLunarAnniversary(born, day)
           after == Events!NextLunarAnniversary(born, day + 1)
<1>1. was.month \in 1..12 /\ was.day \in Nat \ {0}
  <2> DEFINE j == Events!MoonOf(born)
  <2>1. LunarDateHolds(born)
    BY LunarDateOfDay
  <2>2. was.month \in 1..12 /\ InMoon(j, born) /\ was.day = born - NewMoon[j] + 1
    BY <2>1 DEF LunarDateHolds
  <2> HIDE DEF was, j
  <2>3. NewMoon[j] \in Int /\ NewMoon[j] <= born
    BY <2>2, MoonsAreSpaced DEF InMoon
  <2> QED
    BY <2>2, <2>3
<1>2. /\ LunarDateHolds(day) /\ LunarDayHolds(day) /\ (Y = y - 1 \/ Y = y)
      /\ LunarDateHolds(day + 1)
      /\ morrow.year = Y \/ (morrow.year = Y + 1 /\ day + 1 = NewMoon[FirstMonth(Y + 1)])
  BY NextLunarYear
<1>3. /\ InMoon(k, day) /\ k \in Nat /\ is.day = day - NewMoon[k] + 1
      /\ is.month \in 1..12 /\ is.leap \in BOOLEAN /\ Y \in Int
  BY <1>2 DEF LunarDateHolds
<1>4. /\ FirstMonth(Y) <= k /\ k < FirstMonth(Y + 1)
      /\ r = k <=> was.month = is.month /\ ~is.leap
  BY <1>1, <1>2 DEF LunarDayHolds
<1>5. morrow.day = 1 <=> day + 1 = NewMoon[k + 1]
  BY <1>2, NextLunarDay
<1>6. next = IF this >= day THEN this ELSE that
  BY DEF Events!NextLunarAnniversary
<1>7. /\ morrow.year = Y => after = IF this >= day + 1 THEN this ELSE that
      /\ morrow.year = Y + 1 => after = IF that >= day + 1 THEN that ELSE later
  BY DEF Events!NextLunarAnniversary
<1>8. y \in Int
  BY CivilDate
<1>9. LunarMonthsHold(Y) /\ LunarMonthsHold(Y + 1)
  <2> HIDE DEF Y
  <2>1. IsLunarYear(Y - 1) /\ IsLunarYear(Y) /\ IsLunarYear(Y + 1) /\ (Y + 1) - 1 = Y /\ Y + 1 \in Int
    <3>1. CASE Y = y
      BY <1>8, <3>1 DEF YearsAround
    <3>2. CASE Y = y - 1
      <4>1. Y - 1 = y - 2 /\ Y + 1 = y
        BY <1>8, <3>2
      <4> QED
        BY <1>8, <3>2, <4>1 DEF YearsAround
    <3> QED
      BY <1>2, <3>1, <3>2
  <2>2. LunarMonthsHold(Y)
    BY <1>3, <2>1, MonthsOfLunarYear
  <2> DEFINE z == Y + 1
  <2>3. z \in Int /\ IsLunarYear(z - 1) /\ IsLunarYear(z)
    BY <2>1
  <2> HIDE DEF z
  <2>4. LunarMonthsHold(z)
    BY <2>3, MonthsOfLunarYear
  <2> QED
    BY <2>2, <2>4 DEF z
<1>10. LunarKept(born, day)
         <=> /\ is.month = was.month /\ ~is.leap
             /\ is.day = was.day \/ (is.day < was.day /\ morrow.day = 1)
  BY DEF LunarKept
<1>11. LunarIsFirstKept(born, day) <=> /\ next \in Int /\ next >= day /\ (next = day <=> LunarKept(born, day))
                                      /\ (next # day => after = next)
  BY DEF LunarIsFirstKept
<1>12. /\ this = IF NewMoon[r] + was.day <= NewMoon[r + 1]
                 THEN NewMoon[r] + was.day - 1 ELSE NewMoon[r + 1] - 1
       /\ this \in Int /\ NewMoon[r] <= this /\ this < NewMoon[r + 1]
       /\ r \in Nat /\ r \in Moons /\ r + 1 \in Moons
       /\ FirstMonth(Y) <= r /\ r < FirstMonth(Y + 1)
       /\ NewMoon[r] \in Int /\ NewMoon[r + 1] \in Int
  BY <1>1, <1>3, <1>9, LunarAnniversaryIs
<1>13. /\ that \in Int /\ NewMoon[q] <= that
       /\ q \in Nat /\ q \in Moons /\ FirstMonth(Y + 1) <= q /\ NewMoon[q] \in Int
  <2> HIDE DEF was, Y
  <2> DEFINE z == Y + 1
  <2>1. z \in Int /\ LunarMonthsHold(z)
    BY <1>3, <1>9
  <2> HIDE DEF z
  <2>2. LET l == Events!MoonOfMonth(z, was.month, FALSE)
            kept == Events!LunarAnniversary(z, was)
        IN  /\ kept \in Int /\ NewMoon[l] <= kept /\ l \in Nat /\ l \in Moons
            /\ FirstMonth(z) <= l /\ NewMoon[l] \in Int
    BY <1>1, <2>1, LunarAnniversaryIs
  <2> QED
    BY <2>2 DEF z
<1> HIDE DEF was, is, morrow, k, Y, r, q, this, that, later, next, after
<1>14. FirstMonth(Y) \in Nat /\ FirstMonth(Y + 1) \in Nat
  BY <1>9 DEF LunarMonthsHold
<1>15. /\ k \in Moons /\ k + 1 \in Moons /\ NewMoon[k] \in Int /\ NewMoon[k + 1] \in Int
       /\ NewMoon[k] <= day /\ day < NewMoon[k + 1]
  BY <1>3, MoonsAreSpaced DEF InMoon
<1>16. that > day
  <2>1. NewMoon[k + 1] <= NewMoon[q]
    <3>1. k + 1 <= q
      BY <1>3, <1>4, <1>13, <1>14
    <3> QED
      BY <1>13, <1>15, <3>1, MoonsInOrder
  <2> QED
    BY <1>13, <1>15, <2>1
<1>17. \/ after = IF this >= day + 1 THEN this ELSE that
       \/ this <= day /\ after = IF that >= day + 1 THEN that ELSE later
  <2>1. CASE morrow.year = Y
    BY <1>7, <2>1
  <2>2. CASE morrow.year = Y + 1 /\ day + 1 = NewMoon[FirstMonth(Y + 1)]
    <3>1. FirstMonth(Y + 1) = k + 1
      <4> DEFINE f == FirstMonth(Y + 1)
      <4>1. f \in Moons /\ f = Events!MoonOfMonth(Y + 1, 1, FALSE)
        <5>1. 1 \in 1..12
          OBVIOUS
        <5> QED
          BY <1>9, <5>1 DEF LunarMonthsHold, FirstMonth
      <4> HIDE DEF f
      <4>2. f \in Nat /\ NewMoon[f] \in Int
        BY <4>1, MoonsAreSpaced
      <4>3. NewMoon[f] <= NewMoon[k + 1] /\ k < f
        BY <1>4, <1>15, <2>2, <4>2 DEF f
      <4>4. f <= k + 1
        BY <1>15, <4>1, <4>3, MoonsInOrder
      <4> QED
        BY <1>3, <4>2, <4>3, <4>4 DEF f
    <3>2. r + 1 <= k + 1
      BY <1>3, <1>12, <3>1
    <3>3. NewMoon[r + 1] <= NewMoon[k + 1]
      BY <1>12, <1>15, <3>2, MoonsInOrder
    <3>4. this <= day
      BY <1>12, <1>15, <2>2, <3>1, <3>3
    <3> QED
      BY <1>7, <2>2, <3>4
  <2> QED
    BY <1>2, <2>1, <2>2
<1>18. next >= day /\ (next = day <=> this = day) /\ (next # day => after = next) /\ next \in Int
  <2>1. next \in Int
    BY <1>6, <1>12, <1>13
  <2> QED
    BY <1>6, <1>12, <1>13, <1>16, <1>17, <2>1, TurnOfYear
<1>19. ASSUME LunarKept(born, day) PROVE this = day
  <2>1. r = k
    BY <1>4, <1>10, <1>19
  <2>2. is.day = was.day \/ (is.day < was.day /\ day + 1 = NewMoon[k + 1])
    BY <1>5, <1>10, <1>19
  <2> QED
    BY <1>1, <1>3, <1>12, <1>15, <2>1, <2>2
<1>20. ASSUME this = day PROVE LunarKept(born, day)
  <2>1. InMoon(r, day)
    BY <1>12, <1>20 DEF InMoon
  <2>2. r = k
    BY <2>1, MoonIs DEF k
  <2>3. is.day = was.day \/ (is.day < was.day /\ day + 1 = NewMoon[k + 1])
    <3>1. day = IF NewMoon[k] + was.day <= NewMoon[k + 1]
                THEN NewMoon[k] + was.day - 1 ELSE NewMoon[k + 1] - 1
      BY <1>12, <1>20, <2>2
    <3>2. CASE NewMoon[k] + was.day <= NewMoon[k + 1]
      BY <1>1, <1>3, <1>15, <3>1, <3>2
    <3>3. CASE NewMoon[k] + was.day > NewMoon[k + 1]
      BY <1>1, <1>3, <1>15, <3>1, <3>3
    <3> QED
      BY <1>1, <1>15, <3>2, <3>3
  <2> QED
    BY <1>4, <1>5, <1>10, <2>2, <2>3
<1> QED
  BY <1>11, <1>18, <1>19, <1>20


\* The civil years follow each other.
LEMMA YearsFollow ==
    ASSUME NEW c \in Int, NEW d \in Int, c <= d
    PROVE  Events!JdToDate(c).year \in Int /\ Events!JdToDate(c).year <= Events!JdToDate(d).year
<1> DEFINE y == Events!JdToDate(c).year
           z == Events!JdToDate(d).year
           m == Events!JdToDate(c).month
           n == Events!JdToDate(d).month
<1>1. y \in Int /\ m \in 1..12 /\ FirstOfMonth(y, m) <= c
  <2>1. /\ y \in Int /\ m \in 1..12 /\ Events!JdToDate(c).day \in Nat \ {0}
        /\ c = FirstOfMonth(y, m) + Events!JdToDate(c).day - 1
    BY CivilDate
  <2> DEFINE dd == Events!JdToDate(c).day
  <2>2. dd \in Nat \ {0} /\ c = FirstOfMonth(y, m) + dd - 1
    BY <2>1
  <2> HIDE DEF y, m, dd
  <2>3. FirstOfMonth(y, m) \in Int
    BY <2>1, DaysAreNumbers
  <2> QED
    BY <2>1, <2>2, <2>3
<1>2. z \in Int /\ n \in 1..12 /\ d < FirstOfNext(z, n)
  BY CivilDate
<1> HIDE DEF y, z, m, n
<1>3. FirstOfMonth(y, m) \in Int /\ FirstOfNext(z, n) \in Int
  BY <1>1, <1>2, DaysAreNumbers
<1>4. z < y => FirstOfNext(z, n) <= FirstOfMonth(y, m)
  BY <1>1, <1>2, MonthsFollow
<1>5. y <= z
  BY <1>1, <1>2, <1>3, <1>4
<1> QED
  BY <1>1, <1>5 DEF y, z

LEMMA DaysAreCovered ==
    ASSUME NEW e \in EventRows, NEW day \in FirstDay..LastDay
    PROVE  /\ LET x == Events!JdToDate(e.date).year IN IsLunarYear(x - 1) /\ IsLunarYear(x)
           /\ YearsAround(Events!JdToDate(day).year)
<1> DEFINE Year(d) == Events!JdToDate(d).year
           x == Year(e.date)
           y == Year(day)
           first == Year(FirstDay)
           last == Year(LastDay)
<1>1. e.date \in Int /\ FirstDay \in Int /\ LastDay \in Int /\ day \in Int /\ FirstDay <= day /\ day <= LastDay
  BY EventsAreDated
<1>2. x \in Int
  BY <1>1, CivilDate
<1>3. first \in Int /\ y \in Int /\ first <= y
  BY <1>1, YearsFollow
<1>4. last \in Int /\ y <= last
  <2>1. last \in Int
    BY <1>1, CivilDate
  <2> QED
    BY <1>1, <2>1, YearsFollow
<1>5. LunarYears = ((first - 2)..(last + 1)) \cup UNION {(Year(r.date) - 1)..Year(r.date) : r \in EventRows}
  BY DEF LunarYears
<1>6. x \in LunarYears /\ x - 1 \in LunarYears
  <2> DEFINE years == {(Year(r.date) - 1)..Year(r.date) : r \in EventRows}
  <2>1. (x - 1)..x \in years
    OBVIOUS
  <2> HIDE DEF x, years, first, last
  <2>2. x \in (x - 1)..x /\ x - 1 \in (x - 1)..x
    BY <1>2
  <2>3. x \in UNION years /\ x - 1 \in UNION years
    BY <2>1, <2>2
  <2> QED
    BY <1>5, <2>3 DEF years
<1> HIDE DEF Year, x, y, first, last
<1>7. y - 2 \in LunarYears /\ y - 1 \in LunarYears /\ y \in LunarYears /\ y + 1 \in LunarYears
  <2>1. \A z \in (first - 2)..(last + 1) : z \in LunarYears
    BY <1>5
  <2>2. /\ y - 2 \in (first - 2)..(last + 1) /\ y - 1 \in (first - 2)..(last + 1)
        /\ y \in (first - 2)..(last + 1) /\ y + 1 \in (first - 2)..(last + 1)
    BY <1>3, <1>4
  <2> QED
    BY <2>1, <2>2
<1>8. IsLunarYear(x - 1) /\ IsLunarYear(x)
  BY <1>6, LunarYearsAreKnown
<1>9. YearsAround(y)
  BY <1>7, LunarYearsAreKnown DEF YearsAround
<1> QED
  BY <1>8, <1>9 DEF x, y, Year

LEMMA OccurrenceIsKept ==
    ASSUME NEW e \in EventRows, NEW day \in FirstDay..LastDay
    PROVE  IF e.lunar THEN LunarIsFirstKept(e.date, day) ELSE SolarIsFirstKept(e.date, day)
<1>1. e.date \in Int /\ day \in Int
  BY EventsAreDated
<1>2. SolarIsFirstKept(e.date, day)
  BY <1>1, SolarIsKept
<1>3. LunarIsFirstKept(e.date, day)
  BY <1>1, DaysAreCovered, LunarIsKept
<1> QED
  BY <1>2, <1>3

\* Whatever the date of an event and its calendar, the next anniversary is the first day from
\* today on which it is kept: in leap months, months of 29 days, on 29 February and at the turn
\* of the lunar year (lunar_calendar.py, next_lunar_anniversary; sql_dates.py,
\* next_anniversary_sql).
THEOREM NextIsAlwaysFirstKept == RecordsSpec => []NextIsFirstKept
<1>1. ASSUME DaysIInv PROVE NextIsFirstKept
  <2> SUFFICES ASSUME record = "events", NEW e \in events
               PROVE  LET next == Events!NextOccurrence(e, today)
                      IN  /\ next >= today
                          /\ next = today <=> Events!Kept(e, today)
                          /\ next # today => Events!NextOccurrence(e, today + 1) = next
    BY DEF NextIsFirstKept, Events!NextIsFirstKept
  <2> DEFINE next == Events!NextOccurrence(e, today)
             after == Events!NextOccurrence(e, today + 1)
  <2>1. e \in EventRows /\ today \in FirstDay..LastDay
    BY <1>1 DEF DaysIInv, EventRows
  <2>2. IF e.lunar THEN LunarIsFirstKept(e.date, today) ELSE SolarIsFirstKept(e.date, today)
    BY <2>1, OccurrenceIsKept
  <2>3. Events!Kept(e, today) <=> IF e.lunar THEN LunarKept(e.date, today) ELSE SolarKept(e.date, today)
    BY DEF Events!Kept, LunarKept, SolarKept
  <2>4. next >= today /\ (next = today <=> Events!Kept(e, today)) /\ (next # today => after = next)
    <3>1. CASE e.lunar
      <4>1. /\ next = Events!NextLunarAnniversary(e.date, today)
            /\ after = Events!NextLunarAnniversary(e.date, today + 1)
        BY <3>1 DEF Events!NextOccurrence
      <4>2. LunarIsFirstKept(e.date, today) /\ (Events!Kept(e, today) <=> LunarKept(e.date, today))
        BY <2>2, <2>3, <3>1
      <4> HIDE DEF next, after
      <4> QED
        BY <4>1, <4>2 DEF LunarIsFirstKept
    <3>2. CASE ~e.lunar
      <4>1. /\ next = Events!NextSolarAnniversary(e.date, today)
            /\ after = Events!NextSolarAnniversary(e.date, today + 1)
        BY <3>2 DEF Events!NextOccurrence
      <4>2. SolarIsFirstKept(e.date, today) /\ (Events!Kept(e, today) <=> SolarKept(e.date, today))
        BY <2>2, <2>3, <3>2
      <4> HIDE DEF next, after
      <4> QED
        BY <4>1, <4>2 DEF SolarIsFirstKept
    <3> QED
      BY <3>1, <3>2
  <2> QED
    BY <2>4
<1> QED
  BY <1>1, DaysInvariant, PTL

LEMMA OccurrenceIsNumber ==
    ASSUME NEW e \in EventRows, NEW day \in FirstDay..LastDay
    PROVE  Events!NextOccurrence(e, day) \in Int
<1>1. e.date \in Int /\ day \in Int
  BY EventsAreDated
<1>2. CASE e.lunar
  BY <1>2, OccurrenceIsKept DEF LunarIsFirstKept, Events!NextOccurrence
<1>3. CASE ~e.lunar
  <2>1. Events!JdToDate(day).year \in Int /\ Events!JdToDate(day).year + 1 \in Int
    <3>1. Events!JdToDate(day).year \in Int
      BY <1>1, CivilDate
    <3> QED
      BY <3>1
  <2>2. /\ Events!SolarAnniversary(Events!JdToDate(day).year, e.date) \in Int
        /\ Events!SolarAnniversary(Events!JdToDate(day).year + 1, e.date) \in Int
    BY <1>1, <2>1, SolarAnniversaryIs
  <2> QED
    BY <1>3, <2>2 DEF Events!NextOccurrence, Events!NextSolarAnniversary
<1> QED
  BY <1>2, <1>3

\* What a LIMIT keeps of S that is without a row is full of rows that are no later.
LEMMA LimitKeepsFirst ==
    ASSUME NEW S, IsFiniteSet(S), \A e \in S : Events!Occurrence(e) \in Int,
           NEW T \in Events!FirstOf(S)
    PROVE  /\ T \subseteq S /\ IsFiniteSet(T) /\ Cardinality(T) <= PageLimit
           /\ \A e \in S \ T : /\ Cardinality(T) = PageLimit
                              /\ \A a \in T : Events!Occurrence(a) <= Events!Occurrence(e)
<1>1. T \subseteq S /\ IsFiniteSet(T)
  <2>1. T \subseteq S
    BY DEF Events!FirstOf
  <2> QED
    BY <2>1, FS_Subset
<1>2. Cardinality(T) = PageLimit \/ (T = S /\ Cardinality(S) <= PageLimit)
  <2>1. \A X : Events!Cardinality(X) = Cardinality(X)
    BY DEF Events!Cardinality, Cardinality
  <2> QED
    BY <2>1 DEF Events!FirstOf
<1>3. ASSUME NEW e \in S \ T, NEW a \in T PROVE Events!Occurrence(a) <= Events!Occurrence(e)
  <2>1. ~Events!Sooner(e, a)
    BY DEF Events!FirstOf
  <2>2. Events!Occurrence(a) \in Int /\ Events!Occurrence(e) \in Int
    BY <1>1
  <2> QED
    BY <2>1, <2>2 DEF Events!Sooner
<1>4. Cardinality(T) <= PageLimit
  BY <1>2, EventsAreDated
<1> QED
  BY <1>1, <1>2, <1>3, <1>4

\* An event that falls in the window and is not on the page finds it full of events that
\* are no later: those which the LIMIT of the SQL part has put before it, and any event
\* sooner than one of these, stay on the page before a later one.
LEMMA PageIsFull ==
    ASSUME IsFiniteSet(Events!Due), \A e \in Events!Due : Events!Occurrence(e) \in Int,
           NEW page \in Events!Upcoming, NEW e \in Events!Due, e \notin page
    PROVE  Cardinality(page) = PageLimit /\ \A p \in page : Events!Occurrence(p) <= Events!Occurrence(e)
<1> DEFINE D == Events!Due
           C == {d \in D : Events!Computed(d)}
<1>1. PICK T \in Events!FirstOf(D \ C) : page \in Events!FirstOf(T \cup C)
  BY DEF Events!Upcoming
<1>2. IsFiniteSet(D) /\ C \subseteq D /\ e \in D /\ \A d \in D : Events!Occurrence(d) \in Int
  OBVIOUS
<1> HIDE DEF D, C
<1>3. IsFiniteSet(D \ C) /\ \A d \in D \ C : Events!Occurrence(d) \in Int
  BY <1>2, FS_Subset
<1>4. /\ T \subseteq D \ C /\ IsFiniteSet(T) /\ Cardinality(T) <= PageLimit
      /\ \A d \in (D \ C) \ T : /\ Cardinality(T) = PageLimit
                              /\ \A t \in T : Events!Occurrence(t) <= Events!Occurrence(d)
  BY <1>1, <1>3, LimitKeepsFirst
<1>5. IsFiniteSet(T \cup C) /\ T \cup C \subseteq D /\ \A d \in T \cup C : Events!Occurrence(d) \in Int
  <2>1. T \cup C \subseteq D
    BY <1>2, <1>4
  <2> QED
    BY <1>2, <2>1, FS_Subset
<1>6. /\ page \subseteq T \cup C /\ IsFiniteSet(page) /\ Cardinality(page) <= PageLimit
      /\ \A d \in (T \cup C) \ page : /\ Cardinality(page) = PageLimit
                                   /\ \A p \in page : Events!Occurrence(p) <= Events!Occurrence(d)
  BY <1>1, <1>5, LimitKeepsFirst
<1>7. CASE e \in T \cup C
  BY <1>6, <1>7
<1>8. CASE e \notin T \cup C
  <2>1. e \in (D \ C) \ T
    BY <1>2, <1>8
  <2>2. Cardinality(T) = PageLimit /\ \A t \in T : Events!Occurrence(t) <= Events!Occurrence(e)
    BY <1>4, <2>1
  <2>3. PageLimit \in Nat
    BY EventsAreDated
  <2>4. CASE T \subseteq page
    <3>1. Cardinality(T) <= Cardinality(page) /\ (Cardinality(T) = Cardinality(page) => T = page)
      BY <1>6, <2>4, FS_Subset
    <3>2. Cardinality(page) \in Nat
      BY <1>6, FS_CardinalityType
    <3>3. T = page
      BY <1>6, <2>2, <2>3, <3>1, <3>2
    <3> QED
      BY <2>2, <3>3
  <2>5. CASE ~(T \subseteq page)
    <3>1. PICK t \in T : t \notin page
      BY <2>5
    <3>2. Cardinality(page) = PageLimit /\ \A p \in page : Events!Occurrence(p) <= Events!Occurrence(t)
      BY <1>6, <3>1
    <3>3. Events!Occurrence(t) <= Events!Occurrence(e)
      BY <2>2, <3>1
    <3>4. \A d \in {e, t} \cup page : Events!Occurrence(d) \in Int
      BY <1>2, <1>5, <1>6, <3>1
    <3> QED
      BY <3>2, <3>3, <3>4
  <2> QED
    BY <2>4, <2>5
<1> QED
  BY <1>7, <1>8

LEMMA OccurrencesAreDays ==
    ASSUME DaysIInv, record = "events"
    PROVE  /\ today \in Int /\ PageDays \in Nat
           /\ IsFiniteSet(events) /\ events \subseteq EventRows
           /\ \A e \in events : Events!Occurrence(e) \in Int /\ e.notify \in 0..PageDays
<1>1. /\ events \in Calendars /\ events \subseteq EventRows /\ today \in FirstDay..LastDay
      /\ today \in Int /\ PageDays \in Nat /\ IsFiniteSet(events)
  BY EventsAreDated DEF DaysIInv, EventRows
<1>2. ASSUME NEW e \in events PROVE Events!Occurrence(e) \in Int /\ e.notify \in 0..PageDays
  <2>1. e \in EventRows /\ e.date \in Int /\ e.notify \in 0..PageDays
    BY <1>1, EventsAreDated
  <2>2. Events!NextOccurrence(e, today) \in Int
    BY <1>1, <2>1, OccurrenceIsNumber
  <2> QED
    BY <2>1, <2>2 DEF Events!Occurrence
<1> QED
  BY <1>1, <1>2

\* Whatever the calendar, a recurring event that the page of a day shows as many days ahead as
\* it is to be told is announced on that day, and one that is announced is on the page, unless
\* the page is full of events that are no later (event_repository.py, get_upcoming;
\* scheduler.py).
THEOREM UpcomingAlwaysAnnounced == RecordsSpec => []UpcomingIsAnnounced
<1>1. ASSUME DaysIInv PROVE UpcomingIsAnnounced
  <2> SUFFICES ASSUME record = "events" PROVE Events!UpcomingIsAnnounced
    BY DEF UpcomingIsAnnounced
  <2> SUFFICES ASSUME NEW page \in Events!Upcoming, NEW e \in events, e.recurring
               PROVE  LET seen == e \in page /\ Events!Occurrence(e) - today = e.notify
                          full == /\ Cardinality(page) = PageLimit
                                  /\ \A p \in page : Events!Occurrence(p) <= Events!Occurrence(e)
                      IN  (seen => Events!Announces(e)) /\ (Events!Announces(e) => seen \/ full)
    <3>1. \A X : Events!Cardinality(X) = Cardinality(X)
      BY DEF Events!Cardinality, Cardinality
    <3> QED
      BY <3>1 DEF Events!UpcomingIsAnnounced
  <2> DEFINE next == Events!Occurrence(e)
             ahead == e.notify
             plain == e.exact /\ ~e.deleted /\ ~e.orphan
  <2>1. next \in Int /\ today \in Int /\ ahead \in 0..PageDays /\ PageDays \in Nat
    BY <1>1, OccurrencesAreDays
  <2>2. Events!Announces(e) <=> plain /\ next - today = ahead
    BY DEF Events!Announces, Events!Occurrence
  <2>3. e \in Events!Due <=> plain /\ next - today \in 0..PageDays
    BY DEF Events!Due
  <2>4. /\ Events!Due \subseteq events /\ IsFiniteSet(Events!Due)
        /\ \A d \in Events!Due : Events!Occurrence(d) \in Int
    <3>1. Events!Due \subseteq events
      BY DEF Events!Due
    <3> QED
      BY <1>1, <3>1, OccurrencesAreDays, FS_Subset
  <2>5. page \subseteq Events!Due
    <3>1. PICK T \in SUBSET Events!Due : page \in Events!FirstOf(T \cup {d \in Events!Due : Events!Computed(d)})
      BY DEF Events!Upcoming, Events!FirstOf
    <3> QED
      BY <3>1 DEF Events!FirstOf
  <2>6. e \in Events!Due => e \in page \/ (/\ Cardinality(page) = PageLimit
                                        /\ \A p \in page : Events!Occurrence(p) <= Events!Occurrence(e))
    BY <2>4, PageIsFull
  <2> HIDE DEF next, ahead, plain
  <2>7. e \in page /\ next - today = ahead => Events!Announces(e)
    BY <2>2, <2>3, <2>5
  <2>8. Events!Announces(e) => e \in Events!Due /\ next - today = ahead
    BY <2>1, <2>2, <2>3
  <2> QED
    BY <2>6, <2>7, <2>8 DEF next, ahead
<1> QED
  BY <1>1, DaysInvariant, PTL

\* A lunar date is that of one day: it converts back to it. A leap twelfth month would not, for
\* the code tells a leap month by a number that wraps to 0 there; the supported years have none
\* (lunar_calendar.py, lunar_to_solar, "lunar_to_solar(*solar_to_lunar(d)) == d").
THEOREM LunarDatesConvertBack ==
    ASSUME NEW day \in Int, NEW y, y = Events!JdToDate(day).year, IsLunarYear(y - 1), IsLunarYear(y),
           NEW t, t = Events!SolarToLunar(day), ~(t.leap /\ t.month = 12)
    PROVE  Events!LunarToSolar(t.year, t.month, t.day, t.leap) = day
<1> DEFINE k == Events!MoonOf(day)
           w == YearFrom(t)
           o == MonthsBefore(t)
           leap == LeapAfter(w)
           named == IF leap < 2 THEN leap + 10 ELSE leap - 2
           moon == Events!MoonOfMonth(t.year, t.month, t.leap)
<1>1. LunarDateHolds(day) /\ y \in Int /\ (w = y - 1 \/ w = y)
  <2>1. y \in Int
    BY CivilDate
  <2> QED
    BY <2>1, LunarDateOfDay
<1>2. /\ InMoon(k, day) /\ k \in Nat /\ t.day = day - NewMoon[k] + 1
      /\ t.year \in Int /\ t.month \in 1..12 /\ t.leap \in BOOLEAN
      /\ IF t.leap THEN o + 1 = leap /\ k = FirstMoon(w) + leap ELSE MoonAt(w, o) = k
  BY <1>1 DEF LunarDateHolds
<1>3. w \in Int /\ IsLunarYear(w)
  BY <1>1
<1>4. FirstMoon(w) \in Nat /\ (leap \in 1..12 \/ leap = 99)
  BY <1>3, LunarYearIs, MoonsOfYear
<1>5. o = IF t.month < 11 THEN t.month + 1 ELSE t.month - 11
  BY DEF MonthsBefore
<1>6. moon = FirstMoon(w) + o + (IF (t.leap /\ leap # 99 /\ t.month = named) \/ o >= leap THEN 1 ELSE 0)
  BY DEF Events!MoonOfMonth, Events!NoLeap, YearFrom, MonthsBefore, FirstMoon, LeapAfter
<1>7. MoonAt(w, o) = FirstMoon(w) + o + (IF o >= leap THEN 1 ELSE 0)
  BY DEF MoonAt
<1>8. Events!LunarToSolar(t.year, t.month, t.day, t.leap) = NewMoon[moon] + t.day - 1
  BY DEF Events!LunarToSolar
<1> HIDE DEF k, w, o, leap, moon
<1>9. moon = k
  <2>1. CASE t.leap
    <3>1. o + 1 = leap /\ k = FirstMoon(w) + leap /\ t.month # 12 /\ leap # 99
      BY <1>2, <1>5, <2>1
    <3>2. t.month = named
      BY <1>2, <1>4, <1>5, <3>1
    <3> QED
      BY <1>2, <1>4, <1>5, <1>6, <2>1, <3>1, <3>2
  <2>2. CASE ~t.leap
    BY <1>2, <1>6, <1>7, <2>2
  <2> QED
    BY <2>1, <2>2
<1>10. NewMoon[k] \in Int
  BY <1>2, MoonsAreSpaced DEF InMoon
<1> QED
  BY <1>2, <1>8, <1>9, <1>10

-----------------------------------------------------------------------------
(* The cache of the keys *)

Fetches == [open : BOOLEAN, began : Nat, phase : 1..Phases, since : Nat, keys : 0..MaxKeys]

KeyTypes ==
    /\ time \in Nat
    /\ published \in Keys!Versions
    /\ retired \in [Keys!Versions -> Nat]
    /\ cache \in 0..MaxKeys /\ cachedAt \in Nat /\ cachedAt <= time
    /\ fetch \in Fetches
    /\ used \in [Tokens -> [keys : 0..MaxKeys, at : Nat]]

\* No phase of a fetch that is open has outlasted its timeout, nor the ones before theirs.
LastsTo(f, now) ==
    /\ f.began <= f.since /\ f.since <= now /\ now - f.since <= Timeout
    /\ f.since - f.began <= (f.phase - 1) * Timeout

\* The version that is published has not been retired; a version in the cache was
\* retired no earlier than the stamp of the cache, and one that a fetch has been
\* answered with no earlier than it began.
KeyIInv ==
    /\ KeyTypes
    /\ time <= MaxTime
    /\ \A v \in Keys!Versions : v >= published => retired[v] = Keys!Never
    /\ cache # 0 => cachedAt <= retired[cache]
    /\ fetch.open => LastsTo(fetch, time)
    /\ fetch.keys # 0 => fetch.open /\ fetch.began <= retired[fetch.keys]
    /\ \A r \in Tokens : used[r].keys # 0 =>
          used[r].at <= time /\ used[r].at - retired[used[r].keys] < TTL

\* All the phases of a fetch are shorter than TTL.
LEMMA FetchIsShort ==
    ASSUME NEW f \in Fetches, NEW now \in Nat, LastsTo(f, now)
    PROVE  now - f.began < TTL
<1>1. /\ f.began \in Nat /\ f.since \in Nat /\ f.phase \in Nat /\ 1 <= f.phase /\ f.phase <= Phases
      /\ Timeout \in Nat /\ Phases \in Nat /\ TTL \in Nat /\ Phases * Timeout < TTL
  BY FetchesAreShort DEF Fetches
<1> DEFINE p == f.phase
           before == (p - 1) * Timeout
           all == Phases * Timeout
<1>2. before \in Int /\ all \in Int /\ before + Timeout <= all
  <2>1. before + Timeout = p * Timeout
    BY <1>1
  <2>2. p * Timeout <= Phases * Timeout
    BY <1>1
  <2> QED
    BY <1>1, <2>1, <2>2
<1>3. f.since - f.began <= before /\ now - f.since <= Timeout /\ all < TTL
  BY <1>1 DEF LastsTo
<1> HIDE DEF p, before, all
<1> QED
  BY <1>1, <1>2, <1>3

LEMMA InitKeyIInv == Keys!Init => KeyIInv
  BY FetchesAreShort
     DEF Keys!Init, KeyIInv, KeyTypes, Fetches, Keys!Versions, Keys!Never, Keys!NoFetch, Keys!None

\* Keys that are served until less than TTL ago may be used.
LEMMA UseKeeps ==
    ASSUME KeyIInv, NEW r, NEW keys \in Keys!Versions, Keys!Use(r, keys), time - retired[keys] < TTL,
           UNCHANGED <<time, published, retired>>,
           cache' \in 0..MaxKeys, cachedAt' \in Nat, cachedAt' <= time,
           fetch' \in Fetches,
           cache' # 0 => cachedAt' <= retired[cache'],
           fetch'.open => LastsTo(fetch', time),
           fetch'.keys # 0 => fetch'.open /\ fetch'.began <= retired[fetch'.keys]
    PROVE  KeyIInv'
<1>1. used' \in [Tokens -> [keys : 0..MaxKeys, at : Nat]]
  <2>1. [keys |-> keys, at |-> time] \in [keys : 0..MaxKeys, at : Nat]
    BY DEF KeyIInv, KeyTypes, Keys!Versions
  <2> QED
    BY <2>1 DEF Keys!Use, KeyIInv, KeyTypes
<1>2. \A s \in Tokens : used'[s] = used[s] \/ used'[s] = [keys |-> keys, at |-> time]
  BY DEF Keys!Use, KeyIInv, KeyTypes
<1>3. \A s \in Tokens : used'[s].keys # 0 =>
         used'[s].at <= time /\ used'[s].at - retired[used'[s].keys] < TTL
  BY <1>2 DEF KeyIInv, KeyTypes
<1> QED
  BY <1>1, <1>3 DEF KeyIInv, KeyTypes

LEMMA NextKeyIInv == ASSUME KeyIInv, [Keys!Next]_keyVars PROVE KeyIInv'
<1> USE FetchesAreShort
<1>1. CASE Keys!Tick
  <2>1. fetch.open => LastsTo(fetch', time')
    BY <1>1 DEF Keys!Tick, KeyIInv, KeyTypes, LastsTo, Fetches
  <2> QED
    BY <1>1, <2>1 DEF Keys!Tick, KeyIInv, KeyTypes, Keys!Versions
<1>2. CASE Keys!Rotate
  <2>1. retired' \in [Keys!Versions -> Nat] /\ published' \in Keys!Versions
    BY <1>2 DEF Keys!Rotate, KeyIInv, KeyTypes, Keys!Versions
  <2>2. \A v \in Keys!Versions : retired'[v] = retired[v] \/ (v = published /\ retired'[v] = time)
    BY <1>2 DEF Keys!Rotate, KeyIInv, KeyTypes
  <2>3. \A v \in Keys!Versions : v >= published' => retired'[v] = Keys!Never
    BY <1>2, <2>2 DEF Keys!Rotate, KeyIInv, KeyTypes, Keys!Versions
  <2>4. cache \in Keys!Versions => (cachedAt <= retired'[cache])
    BY <2>2 DEF KeyIInv, KeyTypes, Keys!Versions
  <2>5. fetch.keys # 0 => fetch.open /\ fetch.began <= retired'[fetch.keys]
    <3>1. fetch \in Fetches /\ (fetch.open => fetch.began <= time)
      BY DEF KeyIInv, KeyTypes, LastsTo, Fetches
    <3>2. fetch.keys # 0 => fetch.keys \in Keys!Versions /\ fetch.open /\ fetch.began <= retired[fetch.keys]
      BY <3>1 DEF KeyIInv, Fetches, Keys!Versions
    <3> QED
      BY <2>2, <3>1, <3>2
  <2>6. ASSUME NEW r \in Tokens, used[r].keys # 0
        PROVE  used[r].at <= time /\ used[r].at - retired'[used[r].keys] < TTL
    <3>1. used[r].keys \in Keys!Versions /\ used[r].at \in Nat
      BY <2>6 DEF KeyIInv, KeyTypes, Keys!Versions
    <3> QED
      BY <2>2, <2>6, <3>1 DEF KeyIInv, KeyTypes
  <2> QED
    BY <1>2, <2>1, <2>3, <2>4, <2>5, <2>6 DEF Keys!Rotate, KeyIInv, KeyTypes, Keys!Versions
<1>3. ASSUME NEW r \in Tokens, Keys!Arrive(r) PROVE KeyIInv'
  <2>1. CASE Keys!Fresh
    <3>1. cache \in Keys!Versions /\ time - retired[cache] < TTL
      BY <2>1 DEF Keys!Fresh, KeyIInv, KeyTypes, Keys!Versions
    <3>2. Keys!Use(r, cache) /\ UNCHANGED <<time, published, retired, cache, cachedAt, fetch>>
      BY <1>3, <2>1 DEF Keys!Arrive
    <3> QED
      BY <3>1, <3>2, UseKeeps DEF KeyIInv, KeyTypes
  <2>2. CASE ~Keys!Fresh
    BY <1>3, <2>2 DEF Keys!Arrive, KeyIInv, KeyTypes
  <2> QED
    BY <2>1, <2>2
<1>4. CASE Keys!Locked
  <2>1. CASE Keys!Fresh
    <3>1. cache \in Keys!Versions /\ time - retired[cache] < TTL
      BY <2>1 DEF Keys!Fresh, KeyIInv, KeyTypes, Keys!Versions
    <3>2. Keys!Use(Head(queue), cache) /\ UNCHANGED <<time, published, retired, cache, cachedAt, fetch>>
      BY <1>4, <2>1 DEF Keys!Locked
    <3> QED
      BY <3>1, <3>2, UseKeeps DEF KeyIInv, KeyTypes
  <2>2. CASE ~Keys!Fresh
    <3>1. /\ fetch' = [open |-> TRUE, began |-> time, phase |-> 1, since |-> time, keys |-> 0]
          /\ UNCHANGED <<time, published, retired, cache, cachedAt, queue, used>>
      BY <1>4, <2>2 DEF Keys!Locked
    <3>2. fetch' \in Fetches
      BY <3>1 DEF KeyIInv, KeyTypes, Fetches
    <3>3. fetch'.open /\ fetch'.keys = 0 /\ LastsTo(fetch', time')
      <4>1. (1 - 1) * Timeout = 0 /\ time - time = 0
        BY DEF KeyIInv, KeyTypes
      <4> QED
        BY <3>1, <4>1 DEF KeyIInv, KeyTypes, LastsTo
    <3> QED
      BY <3>1, <3>2, <3>3 DEF KeyIInv, KeyTypes
  <2> QED
    BY <2>1, <2>2
<1>5. CASE Keys!Serve
  <2>1. /\ fetch' = [fetch EXCEPT !.keys = published] /\ fetch.open
        /\ UNCHANGED <<time, published, retired, cache, cachedAt, queue, used>>
    BY <1>5 DEF Keys!Serve
  <2>2. /\ fetch' \in Fetches
        /\ fetch'.open /\ fetch'.began = fetch.began /\ fetch'.keys = published
        /\ fetch'.since = fetch.since /\ fetch'.phase = fetch.phase
    <3>1. fetch \in Fetches /\ published \in 0..MaxKeys
      BY DEF KeyIInv, KeyTypes, Keys!Versions
    <3> QED
      BY <2>1, <3>1 DEF Fetches
  <2>3. fetch.began <= retired[published]
    <3>1. /\ retired[published] = Keys!Never /\ fetch.began <= fetch.since /\ fetch.since <= time
          /\ time <= MaxTime /\ time \in Nat
      BY <2>1 DEF KeyIInv, KeyTypes, LastsTo, Keys!Versions
    <3>2. fetch.began \in Nat /\ fetch.since \in Nat
      BY DEF KeyIInv, KeyTypes, Fetches
    <3> QED
      BY <3>1, <3>2 DEF Keys!Never
  <2>4. LastsTo(fetch', time')
    BY <2>1, <2>2 DEF KeyIInv, LastsTo
  <2> QED
    BY <2>1, <2>2, <2>3, <2>4 DEF KeyIInv, KeyTypes
<1>6. CASE Keys!Fetched
  <2>1. /\ fetch.keys \in Keys!Versions /\ fetch.began \in Nat
        /\ fetch.began <= retired[fetch.keys] /\ retired[fetch.keys] \in Nat
        /\ fetch.began <= time /\ time - fetch.began < TTL
    <3>1. fetch \in Fetches /\ time \in Nat /\ LastsTo(fetch, time)
      BY <1>6 DEF Keys!Fetched, KeyIInv, KeyTypes
    <3>2. time - fetch.began < TTL
      BY <3>1, FetchIsShort
    <3>3. fetch.keys \in Keys!Versions /\ fetch.began \in Nat /\ fetch.since \in Nat
      BY <1>6, <3>1 DEF Keys!Fetched, Fetches, Keys!Versions
    <3>4. fetch.began <= retired[fetch.keys] /\ retired[fetch.keys] \in Nat
      BY <1>6, <3>3 DEF Keys!Fetched, KeyIInv, KeyTypes
    <3>5. fetch.began <= time
      BY <3>1, <3>3 DEF LastsTo
    <3> QED
      BY <3>2, <3>3, <3>4, <3>5
  <2>2. time - retired[fetch.keys] < TTL
    BY <2>1 DEF KeyIInv, KeyTypes
  <2>3. /\ Keys!Use(Head(queue), fetch.keys) /\ UNCHANGED <<time, published, retired>>
        /\ cache' = fetch.keys /\ cachedAt' = fetch.began /\ fetch' = Keys!NoFetch
    BY <1>6 DEF Keys!Fetched, Keys!Stamp
  <2>4. /\ fetch' \in Fetches
        /\ ~fetch'.open /\ fetch'.keys = 0
    BY <2>3 DEF Keys!NoFetch, Fetches
  <2>5. cache' \in 0..MaxKeys /\ cachedAt' \in Nat /\ cachedAt' <= time /\ cachedAt' <= retired[cache']
    BY <2>1, <2>3 DEF Keys!Versions
  <2> QED
    BY <2>1, <2>2, <2>3, <2>4, <2>5, UseKeeps
<1>7. CASE Keys!Failed
  BY <1>7 DEF Keys!Failed, KeyIInv, KeyTypes, Fetches, Keys!NoFetch
<1>8. ASSUME NEW r \in Tokens, Keys!Leave(r) PROVE KeyIInv'
  BY <1>8 DEF Keys!Leave, KeyIInv, KeyTypes
<1>9. CASE UNCHANGED keyVars
  BY <1>9 DEF keyVars, KeyIInv, KeyTypes
<1>10. CASE Keys!Proceed
  <2>1. /\ fetch' = [fetch EXCEPT !.phase = @ + 1, !.since = time] /\ fetch.open /\ fetch.phase < Phases
        /\ UNCHANGED <<time, published, retired, cache, cachedAt, queue, used>>
    BY <1>10 DEF Keys!Proceed
  <2>2. fetch \in Fetches /\ time \in Nat /\ LastsTo(fetch, time) /\ fetch.phase + 1 \in 1..Phases
    BY <2>1 DEF KeyIInv, KeyTypes, Fetches
  <2>3. /\ fetch' \in Fetches
        /\ fetch'.open /\ fetch'.began = fetch.began /\ fetch'.keys = fetch.keys
        /\ fetch'.since = time /\ fetch'.phase = fetch.phase + 1
    BY <2>1, <2>2 DEF Fetches
  <2>4. LastsTo(fetch', time')
    <3> DEFINE p == fetch.phase
               before == (p - 1) * Timeout
               to == p * Timeout
    <3>1. p \in Nat /\ fetch.began \in Nat /\ fetch.since \in Nat /\ Timeout \in Nat
      BY <2>2 DEF Fetches
    <3>2. before \in Int /\ to \in Int /\ before + Timeout = to
      BY <3>1
    <3>3. /\ fetch.began <= fetch.since /\ fetch.since <= time /\ time - fetch.since <= Timeout
          /\ fetch.since - fetch.began <= before
      BY <2>2 DEF LastsTo
    <3>4. (fetch'.phase - 1) * Timeout = to
      BY <2>3, <3>1
    <3> HIDE DEF p, before, to
    <3>5. /\ fetch.began <= time /\ time <= time /\ time - time <= Timeout /\ time - fetch.began <= to
      BY <2>2, <3>1, <3>2, <3>3
    <3> QED
      BY <2>1, <2>3, <3>4, <3>5 DEF LastsTo
  <2> QED
    BY <2>1, <2>3, <2>4 DEF KeyIInv, KeyTypes
<1> QED
  BY <1>1, <1>2, <1>3, <1>4, <1>5, <1>6, <1>7, <1>8, <1>9, <1>10 DEF Keys!Next

LEMMA KeyStep == [AccessNext]_accessVars => [Keys!Next]_keyVars
  BY DEF AccessNext, OfPath, OfKeys, accessVars, keyVars

LEMMA KeyInvariant == AccessSpec => []KeyIInv
<1>1. AccessInit => KeyIInv
  BY InitKeyIInv DEF AccessInit
<1>2. KeyIInv /\ [AccessNext]_accessVars => KeyIInv'
  BY KeyStep, NextKeyIInv
<1> QED
  BY <1>1, <1>2, PTL DEF AccessSpec

\* No token is verified with keys that the provider stopped serving a TTL ago, however
\* long the phases of a fetch last and whoever waits at the lock (core/security.py, get_supabase_jwks).
THEOREM KeysAlwaysFresh == AccessSpec => []KeysAreFresh
<1>1. KeyIInv => KeysAreFresh
  BY DEF KeyIInv, KeysAreFresh, Keys!KeysAreFresh
<1> QED
  BY <1>1, KeyInvariant, PTL
-----------------------------------------------------------------------------
(* The way of a request *)

Needs(route) == Path!Dependencies[route]

\* A request has passed a dependency of its route.
Past(q, d) == \E i \in 1..(q.step - 1) : Needs(q.route)[i] = d

InClan == {"viewing", "inviting", "founding", "reviewing", "submitting"}

\* What the dependencies that a request has passed have made so.
Sound(q) ==
    /\ q.step <= Len(Needs(q.route))
    /\ q.open => q.scope = q.context
    /\ Past(q, "user") => <<Path!NoClan, "active">> \in q.had
    /\ q.route = "operating" /\ Past(q, "profile") => <<Path!NoClan, "super_admin">> \in q.had
    /\ IF Past(q, "clan") THEN q.clan \in Clans ELSE q.clan = Path!NoClan
    /\ Past(q, "active") => q.context = q.clan /\ <<q.clan, "active">> \in q.had
    /\ ~Past(q, "active") => q.context = Path!NoClan
    /\ Past(q, "role") => \E a \in Path!Asks(q.route) : <<q.clan, a>> \in q.had

FactsNow == Path!Facts(role, allowed, standing)

PathIInv ==
    /\ Path!TypeOK
    /\ \A r \in Requests : Sound(request[r])
    /\ \A r \in Requests : request[r].step > 0 => FactsNow \subseteq request[r].had

LEMMA RoutesAre ==
    Path!Routes = {"viewing", "inviting", "founding", "reviewing", "submitting", "claiming",
                   "accepting", "operating", "onboarding"}
  BY DEF Path!Routes, Path!Dependencies

\* The order of the dependencies: the account comes first of all, the clan before
\* its check and before the role, and all of them before the work.
Ordered(route) ==
    \A i \in 1..Len(Needs(route)) :
        LET past(d) == \E j \in 1..(i - 1) : Needs(route)[j] = d
            now == Needs(route)[i]
        IN  /\ now = "clan" => ~past("active") /\ ~past("role")
            /\ now \in {"active", "role"} => past("clan") /\ ~past(now)
            /\ now \notin {"again", "system"} => i < Len(Needs(route))
            /\ now \in {"work", "again", "system"} =>
                 /\ past("user")
                 /\ route = "operating" => past("profile")
                 /\ route \in InClan => past("clan") /\ past("active") /\ past("role")
            /\ now \in {"work", "again"} /\ route \notin InClan => ~past("clan") /\ ~past("active")

LEMMA RoutesAreOrdered ==
    \A route \in Path!Routes : Ordered(route) /\ Len(Needs(route)) \in 1..7
<1>1. ASSUME NEW route, route = "viewing" PROVE Ordered(route) /\ Len(Needs(route)) \in 1..7
  <2>1. Needs(route) = <<"user", "clan", "active", "role", "work", "again">>
    BY <1>1 DEF Needs, Path!Dependencies
  <2>2. /\ Len(Needs(route)) = 6
        /\ Needs(route)[1] = "user" /\ Needs(route)[2] = "clan" /\ Needs(route)[3] = "active"
        /\ Needs(route)[4] = "role" /\ Needs(route)[5] = "work" /\ Needs(route)[6] = "again"
    BY <2>1
  <2> QED
    BY <1>1, <2>2 DEF Ordered, InClan
<1>2. ASSUME NEW route, route = "inviting" PROVE Ordered(route) /\ Len(Needs(route)) \in 1..7
  <2>1. Needs(route) = <<"user", "profile", "clan", "active", "role", "work", "again">>
    BY <1>2 DEF Needs, Path!Dependencies
  <2>2. /\ Len(Needs(route)) = 7
        /\ Needs(route)[1] = "user" /\ Needs(route)[2] = "profile" /\ Needs(route)[3] = "clan"
        /\ Needs(route)[4] = "active" /\ Needs(route)[5] = "role" /\ Needs(route)[6] = "work" /\ Needs(route)[7] = "again"
    BY <2>1
  <2> QED
    BY <1>2, <2>2 DEF Ordered, InClan
<1>3. ASSUME NEW route, route = "founding" PROVE Ordered(route) /\ Len(Needs(route)) \in 1..7
  <2>1. Needs(route) = <<"user", "clan", "active", "profile", "role", "work", "again">>
    BY <1>3 DEF Needs, Path!Dependencies
  <2>2. /\ Len(Needs(route)) = 7
        /\ Needs(route)[1] = "user" /\ Needs(route)[2] = "clan" /\ Needs(route)[3] = "active"
        /\ Needs(route)[4] = "profile" /\ Needs(route)[5] = "role" /\ Needs(route)[6] = "work" /\ Needs(route)[7] = "again"
    BY <2>1
  <2> QED
    BY <1>3, <2>2 DEF Ordered, InClan
<1>4. ASSUME NEW route, route = "reviewing" PROVE Ordered(route) /\ Len(Needs(route)) \in 1..7
  <2>1. Needs(route) = <<"user", "profile", "clan", "active", "role", "system">>
    BY <1>4 DEF Needs, Path!Dependencies
  <2>2. /\ Len(Needs(route)) = 6
        /\ Needs(route)[1] = "user" /\ Needs(route)[2] = "profile" /\ Needs(route)[3] = "clan"
        /\ Needs(route)[4] = "active" /\ Needs(route)[5] = "role" /\ Needs(route)[6] = "system"
    BY <2>1
  <2> QED
    BY <1>4, <2>2 DEF Ordered, InClan
<1>5. ASSUME NEW route, route = "claiming" PROVE Ordered(route) /\ Len(Needs(route)) \in 1..7
  <2>1. Needs(route) = <<"user", "profile", "system">>
    BY <1>5 DEF Needs, Path!Dependencies
  <2>2. /\ Len(Needs(route)) = 3
        /\ Needs(route)[1] = "user" /\ Needs(route)[2] = "profile" /\ Needs(route)[3] = "system"
    BY <2>1
  <2> QED
    BY <1>5, <2>2 DEF Ordered, InClan
<1>6. ASSUME NEW route, route = "accepting" PROVE Ordered(route) /\ Len(Needs(route)) \in 1..7
  <2>1. Needs(route) = <<"user", "system">>
    BY <1>6 DEF Needs, Path!Dependencies
  <2>2. /\ Len(Needs(route)) = 2
        /\ Needs(route)[1] = "user" /\ Needs(route)[2] = "system"
    BY <2>1
  <2> QED
    <3>1. \A i \in 1..Len(Needs(route)) : i = 1 \/ i = 2
      BY <2>2
    <3>2. \A i \in 1..Len(Needs(route)) : Needs(route)[i] \in {"user", "system"}
      BY <2>2, <3>1
    <3>3. \A i \in 1..Len(Needs(route)) : Needs(route)[i] = "system" => 1 \in 1..(i - 1)
      BY <2>2, <3>1
    <3>4. \A i \in 1..Len(Needs(route)) : Needs(route)[i] = "user" => i < Len(Needs(route))
      BY <2>2, <3>1
    <3> QED
      BY <1>6, <2>2, <3>2, <3>3, <3>4 DEF Ordered, InClan
<1>7. ASSUME NEW route, route = "operating" PROVE Ordered(route) /\ Len(Needs(route)) \in 1..7
  <2>1. Needs(route) = <<"user", "profile", "system">>
    BY <1>7 DEF Needs, Path!Dependencies
  <2>2. /\ Len(Needs(route)) = 3
        /\ Needs(route)[1] = "user" /\ Needs(route)[2] = "profile" /\ Needs(route)[3] = "system"
    BY <2>1
  <2> QED
    BY <1>7, <2>2 DEF Ordered, InClan
<1>8. ASSUME NEW route, route = "onboarding" PROVE Ordered(route) /\ Len(Needs(route)) \in 1..7
  <2>1. Needs(route) = <<"user", "work", "again">>
    BY <1>8 DEF Needs, Path!Dependencies
  <2>2. /\ Len(Needs(route)) = 3
        /\ Needs(route)[1] = "user" /\ Needs(route)[2] = "work" /\ Needs(route)[3] = "again"
    BY <2>1
  <2> QED
    <3>1. \A i \in 1..Len(Needs(route)) : i = 1 \/ i = 2 \/ i = 3
      BY <2>2
    <3>2. \A i \in 1..Len(Needs(route)) : Needs(route)[i] \in {"user", "work", "again"}
      BY <2>2, <3>1
    <3>3. \A i \in 1..Len(Needs(route)) : Needs(route)[i] # "user" => 1 \in 1..(i - 1)
      BY <2>2, <3>1
    <3>4. \A i \in 1..Len(Needs(route)) : Needs(route)[i] # "again" => i < Len(Needs(route))
      BY <2>2, <3>1
    <3>5. \A i \in 1..Len(Needs(route)) : 1..(i - 1) \subseteq 1..Len(Needs(route))
      BY <2>2
    <3> QED
      BY <1>8, <2>2, <3>2, <3>3, <3>4, <3>5 DEF Ordered, InClan
<1>9. ASSUME NEW route, route = "submitting" PROVE Ordered(route) /\ Len(Needs(route)) \in 1..7
  <2>1. Needs(route) = <<"user", "clan", "active", "role", "system">>
    BY <1>9 DEF Needs, Path!Dependencies
  <2>2. /\ Len(Needs(route)) = 5
        /\ Needs(route)[1] = "user" /\ Needs(route)[2] = "clan" /\ Needs(route)[3] = "active"
        /\ Needs(route)[4] = "role" /\ Needs(route)[5] = "system"
    BY <2>1
  <2> QED
    BY <1>9, <2>2 DEF Ordered, InClan
<1> QED
  BY <1>1, <1>2, <1>3, <1>4, <1>5, <1>6, <1>7, <1>8, <1>9, RoutesAre

\* A step passes one dependency.
LEMMA Passes ==
    ASSUME NEW q \in Path!Request, q.step > 0, NEW w \in Path!Request,
           w.route = q.route, w.step = q.step + 1, NEW d
    PROVE  Past(w, d) <=> Past(q, d) \/ Needs(q.route)[q.step] = d
<1>1. q.step \in Nat /\ \A i \in 1..(w.step - 1) : i \in 1..(q.step - 1) \/ i = q.step
  BY DEF Path!Request
<1>2. q.step \in 1..(w.step - 1) /\ 1..(q.step - 1) \subseteq 1..(w.step - 1)
  BY <1>1
<1> QED
  BY <1>1, <1>2 DEF Past

LEMMA IdleIsSound == Path!Idle \in Path!Request /\ Sound(Path!Idle)
<1>1. Path!Idle \in Path!Request
  BY RoutesAre DEF Path!Idle, Path!Request, Path!MaybeClan
<1>2. \A d : ~Past(Path!Idle, d)
  BY DEF Past, Path!Idle
<1>3. Len(Needs("viewing")) \in 1..7
  BY RoutesAre, RoutesAreOrdered
<1>4. /\ Path!Idle.step = 0 /\ Path!Idle.route = "viewing" /\ ~Path!Idle.open
      /\ Path!Idle.clan = Path!NoClan /\ Path!Idle.context = Path!NoClan
  BY DEF Path!Idle
<1>5. Path!Idle.step <= Len(Needs(Path!Idle.route))
  BY <1>3, <1>4
<1>6. Sound(Path!Idle)
  BY <1>2, <1>4, <1>5 DEF Sound
<1> QED
  BY <1>1, <1>6

\* What the account, the clans and the roles are, in the terms of had.
LEMMA FactsTyped ==
    ASSUME NEW ro, NEW clans \in SUBSET Clans, NEW acc \in SUBSET Path!Standings
    PROVE  Path!Facts(ro, clans, acc) \subseteq
              (Path!MaybeClan \X {"active", "super_admin", "viewer", "admin"})
<1> DEFINE said == {"active", "super_admin", "viewer", "admin"}
           given == {<<c, ro[c]>> : c \in {d \in Clans : ro[d] \in {"viewer", "admin"}}}
<1>1. {Path!NoClan} \X acc \subseteq Path!MaybeClan \X said
  BY DEF Path!MaybeClan, Path!Standings
<1>2. clans \X {"active"} \subseteq Path!MaybeClan \X said
  BY DEF Path!MaybeClan
<1>3. given \subseteq Path!MaybeClan \X said
  BY DEF Path!MaybeClan
<1>4. Path!Facts(ro, clans, acc) = {Path!NoClan} \X acc \cup clans \X {"active"} \cup given
  BY DEF Path!Facts
<1> HIDE DEF said, given
<1> QED
  BY <1>1, <1>2, <1>3, <1>4 DEF said

LEMMA InitPathIInv == Path!Init => PathIInv
<1> SUFFICES ASSUME Path!Init PROVE PathIInv
  OBVIOUS
<1>1. Path!TypeOK
  BY FirstsAreTyped, IdleIsSound DEF Path!Init, Path!TypeOK
<1>2. \A r \in Requests : request[r] = Path!Idle
  BY DEF Path!Init
<1> QED
  BY <1>1, <1>2, IdleIsSound DEF PathIInv, Path!Idle

\* A step of one request.
LEMMA OneMoves ==
    ASSUME PathIInv, NEW r \in Requests, NEW q \in Path!Request, Sound(q),
           request' = [request EXCEPT ![r] = q], UNCHANGED Path!World,
           q.step > 0 => FactsNow \subseteq q.had
    PROVE  PathIInv'
<1>1. /\ request' \in [Requests -> Path!Request]
      /\ request'[r] = q /\ \A s \in Requests \ {r} : request'[s] = request[s]
  BY DEF PathIInv, Path!TypeOK
<1>2. Path!TypeOK'
  BY <1>1 DEF PathIInv, Path!TypeOK, Path!World
<1>3. FactsNow' = FactsNow
  BY DEF FactsNow, Path!Facts, Path!World
<1> QED
  BY <1>1, <1>2, <1>3 DEF PathIInv

LEMMA OneEnds ==
    ASSUME PathIInv, NEW r \in Requests, request' = [request EXCEPT ![r] = Path!Idle], UNCHANGED Path!World
    PROVE  PathIInv'
<1>1. PICK q \in Path!Request : q = Path!Idle /\ Sound(q) /\ ~(q.step > 0)
  BY IdleIsSound DEF Path!Idle
<1> QED
  BY <1>1, OneMoves

\* Nothing of what a request has passed depends on its connections.
LEMMA StaysSound ==
    ASSUME NEW q \in Path!Request, Sound(q), NEW w \in Path!Request,
           w.route = q.route, w.step = q.step, w.clan = q.clan, w.context = q.context, w.had = q.had,
           w.open => w.scope = w.context
    PROVE  Sound(w)
<1>1. \A d : Past(w, d) <=> Past(q, d)
  BY DEF Past
<1> QED
  BY <1>1 DEF Sound

\* A dependency that is run, with what it leaves.
LEMMA ChecksKeep ==
    ASSUME PathIInv, NEW r \in Requests, NEW d, Path!Runs(r, d), NEW ok \in BOOLEAN,
           NEW q \in Path!Request, Path!Checks(r, ok, q),
           q.route = request[r].route, q.step = request[r].step, q.had = request[r].had,
           d \notin {"again", "system"},
           ok => \A w \in Path!Request :
                   /\ w.route = q.route /\ w.clan = q.clan /\ w.context = q.context
                   /\ w.open = q.open /\ w.scope = q.scope /\ w.had = q.had
                   /\ w.step = q.step + 1 /\ w.step <= Len(Needs(w.route))
                   /\ \A e : Past(w, e) <=> Past(request[r], e) \/ e = d
                   => Sound(w)
    PROVE  PathIInv'
<1>1. /\ request[r] \in Path!Request /\ request[r].step > 0 /\ Needs(request[r].route)[request[r].step] = d
      /\ Sound(request[r]) /\ UNCHANGED Path!World
  BY DEF Path!Runs, Path!At, Needs, PathIInv, Path!TypeOK, Path!Checks
<1>2. CASE ~ok
  BY <1>1, <1>2, OneEnds DEF Path!Checks, Path!Ended
<1>3. CASE ok
  <2>1. request[r].step < Len(Needs(request[r].route)) /\ Len(Needs(request[r].route)) \in 1..7
    <3>1. request[r].route \in Path!Routes /\ request[r].step \in Nat
      BY <1>1 DEF Path!Request
    <3>2. Ordered(request[r].route) /\ Len(Needs(request[r].route)) \in 1..7
      BY <3>1, RoutesAreOrdered
    <3>3. request[r].step \in 1..Len(Needs(request[r].route))
      BY <1>1, <3>1, <3>2 DEF Sound
    <3> QED
      BY <1>1, <3>2, <3>3 DEF Ordered
  <2>2. PICK w \in Path!Request : w = [q EXCEPT !.step = q.step + 1]
    <3>1. request[r].step \in Nat /\ q.step = request[r].step
      BY <1>1 DEF Path!Request
    <3>2. PICK n \in 1..7 : n = Len(Needs(request[r].route))
      BY <2>1
    <3>3. request[r].step < n
      BY <2>1, <3>2
    <3>4. q.step + 1 \in 0..7
      BY <3>1, <3>3
    <3> QED
      BY <3>4 DEF Path!Request
  <2>3. /\ w.route = q.route /\ w.clan = q.clan /\ w.context = q.context
        /\ w.open = q.open /\ w.scope = q.scope /\ w.had = q.had /\ w.step = q.step + 1
    BY <2>2 DEF Path!Request
  <2>4. \A e : Past(w, e) <=> Past(request[r], e) \/ e = d
    BY <1>1, <2>3, Passes
  <2>5. w.step <= Len(Needs(w.route))
    BY <1>1, <2>1, <2>3 DEF Path!Request
  <2>6. Sound(w)
    BY <1>3, <2>3, <2>4, <2>5
  <2>7. FactsNow \subseteq w.had
    BY <1>1, <2>3 DEF PathIInv
  <2>8. request' = [request EXCEPT ![r] = w]
    BY <1>3, <2>2 DEF Path!Checks
  <2> QED
    BY <1>1, <2>6, <2>7, <2>8, OneMoves
<1> QED
  BY <1>2, <1>3

\* What comes before the dependency that a request is at.
LEMMA PastBy ==
    ASSUME PathIInv, NEW r \in Requests, NEW d, Path!At(r, d)
    PROVE  LET q == request[r] IN
           /\ d = "clan" => ~Past(q, "active") /\ ~Past(q, "role")
           /\ d \in {"active", "role"} => Past(q, "clan") /\ ~Past(q, d)
           /\ d \in {"work", "again", "system"} =>
                /\ Past(q, "user")
                /\ q.route = "operating" => Past(q, "profile")
                /\ q.route \in InClan => Past(q, "clan") /\ Past(q, "active") /\ Past(q, "role")
           /\ d \in {"work", "again"} /\ q.route \notin InClan => ~Past(q, "clan") /\ ~Past(q, "active")
<1>1. /\ request[r] \in Path!Request /\ request[r].step > 0 /\ Needs(request[r].route)[request[r].step] = d
      /\ Sound(request[r])
  BY DEF Path!At, Needs, PathIInv, Path!TypeOK
<1>2. request[r].route \in Path!Routes /\ request[r].step \in Nat
  BY <1>1 DEF Path!Request
<1>3. Ordered(request[r].route) /\ Len(Needs(request[r].route)) \in 1..7
  BY <1>2, RoutesAreOrdered
<1>4. request[r].step \in 1..Len(Needs(request[r].route))
  BY <1>1, <1>2, <1>3 DEF Sound
<1> QED
  BY <1>1, <1>3, <1>4 DEF Ordered, Past

LEMMA NobodyCounts == Path!Cardinality({}) = 0
<1>1. \A S : Path!Cardinality(S) = Cardinality(S)
  BY DEF Path!Cardinality, Cardinality
<1> QED
  BY <1>1, FS_EmptySet

LEMMA NextPathIInv == ASSUME PathIInv, [Path!Next]_pathVars PROVE PathIInv'
<1>0. ASSUME NEW r \in Requests
      PROVE  request[r] \in Path!Request /\ Sound(request[r]) /\ (request[r].step > 0 => FactsNow \subseteq request[r].had)
  BY DEF PathIInv, Path!TypeOK
<1>1. CASE Path!Change
  <2>1. role' \in [Clans -> Path!Roles] /\ allowed' \subseteq Clans /\ standing' \subseteq Path!Standings
    BY <1>1 DEF Path!Change, PathIInv, Path!TypeOK
  <2>2. changes' \in 0..MaxChanges
    BY <1>1, FirstsAreTyped DEF Path!Change, PathIInv, Path!TypeOK
  <2>3. FactsNow' \subseteq (Path!MaybeClan \X {"active", "super_admin", "viewer", "admin"})
    BY <2>1, FactsTyped DEF FactsNow
  <2>4. request' = [r \in Requests |->
                      IF request[r].step = 0 THEN request[r]
                      ELSE [request[r] EXCEPT !.had = @ \cup FactsNow']]
    BY <1>1 DEF Path!Change, FactsNow
  <2>5. ASSUME NEW r \in Requests
        PROVE  /\ request'[r] \in Path!Request /\ Sound(request'[r])
               /\ request'[r].step > 0 => FactsNow' \subseteq request'[r].had
    <3>1. CASE request[r].step = 0
      BY <1>0, <2>4, <3>1
    <3>2. CASE request[r].step # 0
      <4>1. request[r].had \cup FactsNow' \in
               SUBSET (Path!MaybeClan \X {"active", "super_admin", "viewer", "admin"})
        BY <1>0, <2>3 DEF Path!Request
      <4>2. PICK w \in Path!Request : w = [request[r] EXCEPT !.had = request[r].had \cup FactsNow']
        BY <1>0, <4>1 DEF Path!Request
      <4>3. /\ w.route = request[r].route /\ w.step = request[r].step /\ w.clan = request[r].clan
            /\ w.context = request[r].context /\ w.open = request[r].open /\ w.scope = request[r].scope
            /\ w.had = request[r].had \cup FactsNow'
        BY <1>0, <4>2 DEF Path!Request
      <4>4. \A d : Past(w, d) <=> Past(request[r], d)
        BY <4>3 DEF Past
      <4>5. Sound(w)
        BY <1>0, <4>3, <4>4 DEF Sound
      <4> QED
        BY <2>4, <3>2, <4>2, <4>3, <4>5
    <3> QED
      BY <3>1, <3>2
  <2>6. request' \in [Requests -> Path!Request]
    BY <2>4, <2>5
  <2> QED
    BY <2>1, <2>2, <2>5, <2>6 DEF PathIInv, Path!TypeOK
<1>2. ASSUME NEW r \in Requests, NEW route \in Path!Routes, Path!Begin(r, route) PROVE PathIInv'
  <2>1. FactsNow \in SUBSET (Path!MaybeClan \X {"active", "super_admin", "viewer", "admin"})
    BY FactsTyped DEF FactsNow, PathIInv, Path!TypeOK
  <2>2. PICK w \in Path!Request : w = [Path!Idle EXCEPT !.route = route, !.step = 1, !.had = FactsNow]
    <3>1. 1 \in 0..7
      OBVIOUS
    <3>2. [Path!Idle EXCEPT !.route = route, !.step = 1, !.had = FactsNow] \in Path!Request
      BY <2>1, <3>1, IdleIsSound DEF Path!Request
    <3> QED
      BY <3>2
  <2>3. /\ w.route = route /\ w.step = 1 /\ w.had = FactsNow /\ w.clan = Path!NoClan
        /\ w.context = Path!NoClan /\ ~w.open
    BY <2>2 DEF Path!Idle
  <2>4. \A d : ~Past(w, d)
    BY <2>3 DEF Past
  <2>5. Sound(w)
    <3>1. PICK n \in 1..7 : n = Len(Needs(route))
      BY RoutesAreOrdered
    <3>2. w.step <= Len(Needs(w.route))
      <4>1. 1 <= n
        OBVIOUS
      <4> QED
        BY <2>3, <3>1, <4>1
    <3> QED
      BY <2>3, <2>4, <3>2 DEF Sound
  <2> QED
    BY <1>2, <2>2, <2>3, <2>5, OneMoves DEF Path!Begin, FactsNow
<1>3. ASSUME NEW r \in Requests, Path!Connect(r) PROVE PathIInv'
  <2>1. CASE Path!At(r, "system")
    <3>1. PICK w \in Path!Request : w = [request[r] EXCEPT !.system = TRUE]
      BY <1>0 DEF Path!Request
    <3>2. /\ w.route = request[r].route /\ w.step = request[r].step /\ w.clan = request[r].clan
          /\ w.context = request[r].context /\ w.open = request[r].open /\ w.scope = request[r].scope
          /\ w.had = request[r].had
      BY <1>0, <3>1 DEF Path!Request
    <3>3. Sound(w)
      <4>1. Sound(request[r]) /\ request[r] \in Path!Request
        BY <1>0
      <4>2. w.open => w.scope = w.context
        BY <3>2, <4>1 DEF Sound
      <4> QED
        BY <3>1, <3>2, <4>1, <4>2, StaysSound
    <3> QED
      BY <1>0, <1>3, <2>1, <3>1, <3>2, <3>3, OneMoves DEF Path!Connect
  <2>2. CASE ~Path!At(r, "system")
    <3>1. PICK w \in Path!Request : w = [request[r] EXCEPT !.open = TRUE, !.scope = request[r].context]
      BY <1>0 DEF Path!Request
    <3>2. /\ w.route = request[r].route /\ w.step = request[r].step /\ w.clan = request[r].clan
          /\ w.context = request[r].context /\ w.scope = w.context /\ w.had = request[r].had
      BY <1>0, <3>1 DEF Path!Request
    <3>3. Sound(w)
      BY <1>0, <3>2, StaysSound
    <3> QED
      BY <1>0, <1>3, <2>2, <3>1, <3>2, <3>3, OneMoves DEF Path!Connect, Path!Begins
  <2> QED
    BY <2>1, <2>2
<1>4. ASSUME NEW r \in Requests, Path!TimeOut(r) \/ Path!Abort(r) PROVE PathIInv'
  BY <1>4, OneEnds DEF Path!TimeOut, Path!Abort, Path!Ended
<1>5. ASSUME NEW r \in Requests, Path!User(r) PROVE PathIInv'
  <2> DEFINE ok == "active" \in standing
  <2>1. Path!Runs(r, "user") /\ Path!Checks(r, ok, request[r])
    BY <1>5 DEF Path!User
  <2>2. ok => <<Path!NoClan, "active">> \in request[r].had
    <3>1. request[r].step > 0
      BY <2>1 DEF Path!Runs, Path!At
    <3> QED
      BY <1>0, <3>1 DEF FactsNow, Path!Facts
  <2> HIDE DEF ok
  <2>3. ASSUME ok, NEW w \in Path!Request,
               w.route = request[r].route, w.clan = request[r].clan, w.context = request[r].context,
               w.open = request[r].open, w.scope = request[r].scope, w.had = request[r].had,
               w.step <= Len(Needs(w.route)), \A e : Past(w, e) <=> Past(request[r], e) \/ e = "user"
        PROVE  Sound(w)
    BY <1>0, <2>2, <2>3 DEF Sound
  <2>4. ok \in BOOLEAN
    BY DEF ok
  <2>5. PICK q \in Path!Request : q = request[r]
    BY <1>0
  <2>6. /\ q.route = request[r].route /\ q.step = request[r].step /\ q.had = request[r].had
        /\ Path!Checks(r, ok, q) /\ Path!Runs(r, "user")
    BY <2>1, <2>5
  <2>7. ASSUME ok, NEW w \in Path!Request,
               w.route = q.route, w.clan = q.clan, w.context = q.context,
               w.open = q.open, w.scope = q.scope, w.had = q.had,
               w.step <= Len(Needs(w.route)), \A e : Past(w, e) <=> Past(request[r], e) \/ e = "user"
        PROVE  Sound(w)
    BY <2>3, <2>5, <2>7
  <2> QED
    BY <2>4, <2>6, <2>7, ChecksKeep
<1>6. ASSUME NEW r \in Requests, Path!Profile(r) PROVE PathIInv'
  <2>1. Path!Runs(r, "profile") /\ request[r].step > 0
    BY <1>6 DEF Path!Profile, Path!Runs, Path!At
  <2>2. PICK writes \in BOOLEAN :
           Path!Checks(r, request[r].route = "operating" => "super_admin" \in standing,
                       [request[r] EXCEPT !.open = ~writes, !.scope = IF writes THEN Path!NoClan ELSE request[r].scope])
    BY <1>0, <1>6 DEF Path!Profile, Path!Request
  <2> DEFINE ok == request[r].route = "operating" => "super_admin" \in standing
  <2>3. PICK q \in Path!Request :
           q = [request[r] EXCEPT !.open = ~writes, !.scope = IF writes THEN Path!NoClan ELSE request[r].scope]
    BY <1>0 DEF Path!Request, Path!MaybeClan
  <2>4. /\ q.route = request[r].route /\ q.step = request[r].step /\ q.had = request[r].had
        /\ q.clan = request[r].clan /\ q.context = request[r].context
        /\ q.open => q.scope = request[r].scope
    BY <1>0, <2>3 DEF Path!Request
  <2>5. q.open => q.scope = q.context
    BY <1>0, <2>1, <2>4 DEF Sound, Path!Runs
  <2>6. ok /\ q.route = "operating" => <<Path!NoClan, "super_admin">> \in q.had
    BY <1>0, <2>1, <2>4 DEF FactsNow, Path!Facts
  <2>7. Path!Checks(r, ok, q)
    BY <2>2, <2>3
  <2>8. ok \in BOOLEAN
    BY DEF ok
  <2> HIDE DEF ok
  <2>9. ASSUME ok, NEW w \in Path!Request,
               w.route = q.route, w.clan = q.clan, w.context = q.context,
               w.open = q.open, w.scope = q.scope, w.had = q.had,
               w.step <= Len(Needs(w.route)), \A e : Past(w, e) <=> Past(request[r], e) \/ e = "profile"
        PROVE  Sound(w)
    BY <1>0, <2>4, <2>5, <2>6, <2>9 DEF Sound
  <2> QED
    BY <1>0, <2>1, <2>4, <2>7, <2>8, <2>9, ChecksKeep
<1>7. ASSUME NEW r \in Requests, NEW header \in Path!MaybeClan, Path!Clan(r, header) PROVE PathIInv'
  <2> DEFINE mine == {c \in Clans : Path!ApprovedIn(c)}
             ok   == IF header = Path!NoClan THEN Path!Cardinality(mine) = 1 ELSE header \in mine
             clan == IF ok /\ header = Path!NoClan THEN CHOOSE c \in mine : TRUE ELSE header
  <2>1. Path!Runs(r, "clan") /\ Path!Checks(r, ok, [request[r] EXCEPT !.clan = clan])
    BY <1>7 DEF Path!Clan
  <2>2. ok => clan \in Clans
    <3>1. Path!Cardinality({}) = 0
      BY NobodyCounts
    <3>2. ok /\ header = Path!NoClan => mine # {}
      BY <3>1
    <3> QED
      BY <3>2
  <2>3. clan \in Path!MaybeClan /\ ok \in BOOLEAN
    <3>1. ok \in BOOLEAN
      <4>1. CASE header = Path!NoClan
        BY <4>1
      <4>2. CASE header # Path!NoClan
        BY <4>2
      <4> QED
        BY <4>1, <4>2
    <3> HIDE DEF ok
    <3>2. ~ok => clan = header
      OBVIOUS
    <3> HIDE DEF clan
    <3> QED
      BY <2>2, <3>1, <3>2 DEF Path!MaybeClan
  <2> HIDE DEF ok, clan
  <2>4. PICK q \in Path!Request : q = [request[r] EXCEPT !.clan = clan]
    BY <1>0, <2>3 DEF Path!Request
  <2>5. /\ q.route = request[r].route /\ q.step = request[r].step /\ q.had = request[r].had
        /\ q.clan = clan /\ q.context = request[r].context
        /\ q.open = request[r].open /\ q.scope = request[r].scope
    BY <1>0, <2>4 DEF Path!Request
  <2>6. ~Past(request[r], "active") /\ ~Past(request[r], "role")
    BY <2>1, PastBy DEF Path!Runs
  <2>7. ASSUME ok, NEW w \in Path!Request,
               w.route = q.route, w.clan = q.clan, w.context = q.context,
               w.open = q.open, w.scope = q.scope, w.had = q.had,
               w.step <= Len(Needs(w.route)), \A e : Past(w, e) <=> Past(request[r], e) \/ e = "clan"
        PROVE  Sound(w)
    BY <1>0, <2>2, <2>5, <2>6, <2>7 DEF Sound
  <2>8. Path!Checks(r, ok, q)
    BY <2>1, <2>4
  <2> QED
    BY <2>1, <2>3, <2>5, <2>7, <2>8, ChecksKeep
<1>8. ASSUME NEW r \in Requests, Path!Active(r) PROVE PathIInv'
  <2> DEFINE ok == request[r].clan \in allowed
  <2>1. Path!Runs(r, "active") /\ request[r].step > 0 /\ Path!Checks(r, ok, Path!Scoped(request[r]))
    BY <1>8 DEF Path!Active, Path!Runs, Path!At
  <2>2. PICK q \in Path!Request : q = Path!Scoped(request[r])
    BY <1>0 DEF Path!Request, Path!Scoped
  <2>3. /\ q.route = request[r].route /\ q.step = request[r].step /\ q.had = request[r].had
        /\ q.clan = request[r].clan /\ q.context = q.clan /\ q.scope = q.clan
    BY <1>0, <2>2 DEF Path!Request, Path!Scoped
  <2>4. Past(request[r], "clan")
    BY <2>1, PastBy DEF Path!Runs
  <2>5. ok => <<q.clan, "active">> \in q.had
    BY <1>0, <2>1, <2>3 DEF FactsNow, Path!Facts
  <2>6. Path!Checks(r, ok, q) /\ ok \in BOOLEAN
    BY <2>1, <2>2
  <2> HIDE DEF ok
  <2>7. ASSUME ok, NEW w \in Path!Request,
               w.route = q.route, w.clan = q.clan, w.context = q.context,
               w.open = q.open, w.scope = q.scope, w.had = q.had,
               w.step <= Len(Needs(w.route)), \A e : Past(w, e) <=> Past(request[r], e) \/ e = "active"
        PROVE  Sound(w)
    BY <1>0, <2>3, <2>4, <2>5, <2>7 DEF Sound
  <2> QED
    BY <2>1, <2>3, <2>6, <2>7, ChecksKeep
<1>9. ASSUME NEW r \in Requests, Path!Role(r) PROVE PathIInv'
  <2> DEFINE ok == role[request[r].clan] \in Path!Asks(request[r].route)
  <2>1. Path!Runs(r, "role") /\ request[r].step > 0 /\ Path!Checks(r, ok, request[r])
    BY <1>9 DEF Path!Role, Path!RoleOf, Path!Runs, Path!At
  <2>2. request[r].clan \in Clans
    BY <1>0, <2>1, PastBy DEF Path!Runs, Sound
  <2>3. ok => \E a \in Path!Asks(request[r].route) : <<request[r].clan, a>> \in request[r].had
    BY <1>0, <2>1, <2>2 DEF FactsNow, Path!Facts, Path!Asks
  <2>4. ok \in BOOLEAN
    OBVIOUS
  <2> HIDE DEF ok
  <2>5. ASSUME ok, NEW w \in Path!Request,
               w.route = request[r].route, w.clan = request[r].clan, w.context = request[r].context,
               w.open = request[r].open, w.scope = request[r].scope, w.had = request[r].had,
               w.step <= Len(Needs(w.route)), \A e : Past(w, e) <=> Past(request[r], e) \/ e = "role"
        PROVE  Sound(w)
    BY <1>0, <2>3, <2>5 DEF Sound
  <2> QED
    BY <1>0, <2>1, <2>4, <2>5, ChecksKeep
<1>10. ASSUME NEW r \in Requests, Path!Work(r) PROVE PathIInv'
  <2>1. CASE request' = [request EXCEPT ![r] = Path!Ended] /\ UNCHANGED Path!World
    BY <2>1, OneEnds DEF Path!Ended
  <2>2. CASE /\ Path!Runs(r, "work") /\ UNCHANGED Path!World
             /\ request' = [request EXCEPT ![r] =
                               [request[r] EXCEPT !.step = @ + 1, !.open = FALSE, !.scope = Path!NoClan]]
    <3>1. PICK q \in Path!Request : q = [request[r] EXCEPT !.open = FALSE, !.scope = Path!NoClan]
      BY <1>0 DEF Path!Request, Path!MaybeClan
    <3>2. /\ q.route = request[r].route /\ q.step = request[r].step /\ q.had = request[r].had
          /\ q.clan = request[r].clan /\ q.context = request[r].context /\ ~q.open
      BY <1>0, <3>1 DEF Path!Request
    <3>3. PICK ok \in BOOLEAN : ok /\ Path!Checks(r, ok, q)
      <4>1. [q EXCEPT !.step = @ + 1] =
               [request[r] EXCEPT !.step = @ + 1, !.open = FALSE, !.scope = Path!NoClan]
        BY <1>0, <3>1 DEF Path!Request
      <4> QED
        BY <2>2, <4>1 DEF Path!Checks
    <3>4. ASSUME ok, NEW w \in Path!Request,
                 w.route = q.route, w.clan = q.clan, w.context = q.context,
                 w.open = q.open, w.scope = q.scope, w.had = q.had,
                 w.step <= Len(Needs(w.route)), \A e : Past(w, e) <=> Past(request[r], e) \/ e = "work"
          PROVE  Sound(w)
      BY <1>0, <3>2, <3>4 DEF Sound
    <3>5. Path!Runs(r, "work") /\ Path!Checks(r, ok, q)
      BY <2>2, <3>3
    <3> QED
      BY <3>2, <3>4, <3>5, ChecksKeep
  <2> QED
    BY <1>10, <2>1, <2>2 DEF Path!Work
<1>11. CASE UNCHANGED pathVars
  BY <1>11 DEF pathVars, PathIInv, Path!TypeOK, FactsNow, Path!Facts
<1> QED
  BY <1>1, <1>2, <1>3, <1>4, <1>5, <1>6, <1>7, <1>8, <1>9, <1>10, <1>11 DEF Path!Next, Path!Step

LEMMA PathStep == [AccessNext]_accessVars => [Path!Next]_pathVars
  BY DEF AccessNext, OfPath, OfKeys, accessVars, pathVars

LEMMA PathInvariant == AccessSpec => []PathIInv
<1>1. AccessInit => PathIInv
  BY InitPathIInv DEF AccessInit
<1>2. PathIInv /\ [AccessNext]_accessVars => PathIInv'
  BY PathStep, NextPathIInv
<1> QED
  BY <1>1, <1>2, PTL DEF AccessSpec

\* Work is done only for a user that had the account, the active clan and the role it
\* asks at some time since the request came, whatever others change on the way
\* (core/security.py, core/permissions.py, the dependencies of the routes).
THEOREM WorkAlwaysAllowed == AccessSpec => []WorkWasAllowed
<1>1. PathIInv => WorkWasAllowed
  <2> SUFFICES ASSUME PathIInv, NEW r \in Requests, NEW d \in {"work", "again", "system"}, Path!At(r, d)
               PROVE  /\ <<Path!NoClan, "active">> \in request[r].had
                      /\ request[r].route = "operating" => <<Path!NoClan, "super_admin">> \in request[r].had
                      /\ request[r].route \in InClan =>
                           /\ <<request[r].clan, "active">> \in request[r].had
                           /\ \E a \in Path!Asks(request[r].route) : <<request[r].clan, a>> \in request[r].had
    BY DEF WorkWasAllowed, Path!WorkWasAllowed, InClan
  <2> QED
    BY PastBy DEF PathIInv, Sound
<1> QED
  BY <1>1, PathInvariant, PTL

\* Whatever a request commits on its way, its work runs under the clan that its role
\* was checked in, or under none on a route without a clan (core/rls.py, core/security.py,
\* the policies of the migrations).
THEOREM WorkAlwaysInItsClan == AccessSpec => []WorkStaysInItsClan
<1>1. PathIInv => WorkStaysInItsClan
  <2> SUFFICES ASSUME PathIInv, NEW r \in Requests, NEW d \in {"work", "again"}, Path!Runs(r, d)
               PROVE  /\ \A s \in Path!Within :
                            Path!Admits(s[1], s[2], request[r].scope) = Path!Keyed(request[r].clan)
                      /\ \A s \in Path!Elsewhere : Path!Admits(s[1], s[2], request[r].scope) = Clans
    BY DEF WorkStaysInItsClan, Path!WorkStaysInItsClan
  <2>1. request[r].scope = request[r].clan
    BY PastBy DEF PathIInv, Sound, Path!Runs
  <2>2. \A s \in Path!Within : Path!Admits(s[1], s[2], request[r].scope) = Path!Keyed(request[r].scope)
    <3> SUFFICES ASSUME NEW s \in Path!Within
                 PROVE  Path!Admits(s[1], s[2], request[r].scope) = Path!Keyed(request[r].scope)
      OBVIOUS
    <3>1. \/ s[1] \in {"keyed", "persons"}
          \/ s[1] = "user_clan_roles" /\ s[2] \in {"update", "delete"}
          \/ s[1] = "audit_logs" /\ s[2] = "select"
      BY DEF Path!Within, Path!Elsewhere, Path!Commands
    <3>2. CASE s[1] \in {"keyed", "persons"}
      BY <3>2 DEF Path!Admits, Path!OutsideLayer2
    <3>3. CASE s[1] = "user_clan_roles" /\ s[2] \in {"update", "delete"}
      BY <3>3 DEF Path!Admits, Path!OutsideLayer2
    <3>4. CASE s[1] = "audit_logs" /\ s[2] = "select"
      BY <3>4 DEF Path!Admits, Path!OutsideLayer2
    <3> QED
      BY <3>1, <3>2, <3>3, <3>4
  <2>3. \A s \in Path!Elsewhere : Path!Admits(s[1], s[2], request[r].scope) = Clans
    BY DEF Path!Elsewhere, Path!Admits
  <2> QED
    BY <2>1, <2>2, <2>3
<1> QED
  BY <1>1, PathInvariant, PTL

-----------------------------------------------------------------------------
(* Marriages *)

\* Whoever was outrun is still about to write.
LateOnesWrite == outrun \subseteq {r \in Admins : edit[r] = "write"}

\* The marriage already is what e makes of it.
Already(e) ==
    /\ e.id \in Unions
    /\ unions[e.id].state = "live"
    /\ unions[e.id].one = e.one
    /\ unions[e.id].two = e.two
    /\ unions[e.id].status = e.status
    /\ unions[e.id].order = e.order

\* What a request that nobody outran is about to write gives no wife an order that
\* another has: its check has read the marriages as they are, or it has none since it
\* changes neither the status nor the order.
CheckHolds ==
    \A r \in Admins :
        edit[r] = "write" /\ r \notin outrun =>
          \/ asked[r].status = "divorced"
          \/ asked[r].order = NoOrder
          \/ ~Weddings!OrderTaken(asked[r].one, asked[r].two, asked[r].order, asked[r].id)
          \/ Already(asked[r])

WeddingsIInv == Weddings!TypeOK /\ LateOnesWrite /\ CheckHolds

LEMMA WeddingsStep ==
    ASSUME [RecordsNext]_recordVars
    PROVE  [Weddings!Next]_unionVars
  BY DEF RecordsNext, recordVars, unionVars

LEMMA InitWeddingsIInv == Weddings!Init => WeddingsIInv
  BY UnionsAreNamed
  DEF Weddings!Init, WeddingsIInv, Weddings!TypeOK, Weddings!Union, Weddings!Edit, Weddings!Couple,
      Weddings!Gone, Weddings!NoEdit, LateOnesWrite, CheckHolds

\* What a request that begins or is checked does, which writes no marriage.
LEMMA Proceeds ==
    ASSUME WeddingsIInv, NEW r \in Admins, NEW s \in {"pair", "order", "write", "delete"},
           NEW e \in Weddings!Edit, edit[r] # "write",
           edit' = [edit EXCEPT ![r] = s], asked' = [asked EXCEPT ![r] = e],
           unions' = unions, outrun' = outrun,
           s = "write" => \/ e.status = "divorced"
                          \/ e.order = NoOrder
                          \/ ~Weddings!OrderTaken(e.one, e.two, e.order, e.id)
                          \/ Already(e)
    PROVE  WeddingsIInv'
  BY DEF WeddingsIInv, Weddings!TypeOK, LateOnesWrite, CheckHolds, Weddings!OrderTaken,
         Weddings!Active, Weddings!Spouses, Already

\* What a request that ends does: those that are about to write are outrun, when it wrote.
LEMMA Finishes ==
    ASSUME WeddingsIInv, NEW r \in Admins, Weddings!End(r),
           unions' \in [Unions -> Weddings!Union],
           \/ outrun' = (outrun \cup {s \in Admins : edit[s] = "write"}) \ {r}
           \/ outrun' = outrun \ {r} /\ unions' = unions
    PROVE  WeddingsIInv'
<1>1. Weddings!NoEdit \in Weddings!Edit
  BY UnionsAreNamed DEF Weddings!NoEdit, Weddings!Edit, Weddings!Couple
<1>2. Weddings!TypeOK' /\ LateOnesWrite'
  BY <1>1 DEF WeddingsIInv, Weddings!TypeOK, Weddings!End, LateOnesWrite
<1>3. \A s \in Admins \ {r} : edit'[s] = edit[s] /\ asked'[s] = asked[s]
  BY DEF WeddingsIInv, Weddings!TypeOK, Weddings!End
<1>4. edit'[r] = "idle"
  BY DEF WeddingsIInv, Weddings!TypeOK, Weddings!End
<1>5. CheckHolds'
  BY <1>3, <1>4 DEF WeddingsIInv, CheckHolds, Weddings!OrderTaken, Weddings!Active, Weddings!Spouses, Already
<1> QED
  BY <1>2, <1>5 DEF WeddingsIInv

LEMMA RowsAreUnions ==
    ASSUME NEW e \in Weddings!Edit
    PROVE  Weddings!Row(e) \in Weddings!Union
  BY DEF Weddings!Row, Weddings!Edit, Weddings!Union

LEMMA NextWeddingsIInv == ASSUME WeddingsIInv, [Weddings!Next]_unionVars PROVE WeddingsIInv'
<1> USE DEF WeddingsIInv
<1>0. \A r \in Admins : asked[r] \in Weddings!Edit
  BY DEF Weddings!TypeOK
<1>1. ASSUME NEW r \in Admins, NEW p \in Relatives, NEW q \in Relatives, NEW s \in Statuses,
             NEW o \in Orders \cup {NoOrder}, Weddings!BeginCreate(r, p, q, s, o)
      PROVE  WeddingsIInv'
  <2> DEFINE e == [id |-> NoUnion, one |-> p, two |-> q, status |-> s, order |-> o, expected |-> 0]
  <2>1. e \in Weddings!Edit /\ e.status = s /\ e.order = o
    BY DEF Weddings!Edit, Weddings!Couple
  <2>2. PICK t \in {"order", "write"} :
          /\ t = (IF s # "divorced" /\ o # NoOrder THEN "order" ELSE "write")
          /\ Weddings!Begin(r, t, e)
    BY <1>1 DEF Weddings!BeginCreate
  <2> HIDE DEF e
  <2> QED
    BY <2>1, <2>2, Proceeds DEF Weddings!Begin
<1>2. ASSUME NEW r \in Admins, NEW u \in Unions, NEW f \in SUBSET {"status", "order"},
             NEW s \in Statuses, NEW o \in Orders \cup {NoOrder}, Weddings!BeginPatch(r, u, f, s, o)
      PROVE  WeddingsIInv'
  <2> DEFINE w == unions[u]
             e == [id |-> u, one |-> w.one, two |-> w.two, status |-> s, order |-> o,
                   expected |-> w.version]
             remarried == w.status = "divorced" /\ s # "divorced"
  <2>0. w \in Weddings!Union
    BY DEF Weddings!TypeOK
  <2>1. e \in Weddings!Edit /\ e.status = s /\ e.order = o /\ e.id = u /\ e.one = w.one /\ e.two = w.two
    BY <2>0 DEF Weddings!Edit, Weddings!Union
  <2>2. Weddings!Begin(r, IF remarried THEN "pair" ELSE Weddings!OrderNext(f, e), e)
    BY <1>2 DEF Weddings!BeginPatch
  <2>3. PICK t \in {"pair", "order", "write"} :
          /\ t = IF remarried THEN "pair" ELSE Weddings!OrderNext(f, e)
          /\ Weddings!Begin(r, t, e)
    BY <2>2 DEF Weddings!OrderNext
  <2>4. t = "write" => e.status = "divorced" \/ e.order = NoOrder \/ f = {}
    BY <2>3 DEF Weddings!OrderNext
  <2>5. f = {} => Already(e)
    BY <1>2, <2>1 DEF Weddings!BeginPatch, Already
  <2> HIDE DEF e, w, remarried
  <2> QED
    BY <2>1, <2>3, <2>4, <2>5, Proceeds DEF Weddings!Begin
<1>3. ASSUME NEW r \in Admins, NEW u \in Unions, Weddings!BeginDelete(r, u) PROVE WeddingsIInv'
  <2> DEFINE e == [Weddings!NoEdit EXCEPT !.id = u]
  <2>1. e \in Weddings!Edit
    BY UnionsAreNamed DEF Weddings!NoEdit, Weddings!Edit, Weddings!Couple
  <2>2. Weddings!Begin(r, "delete", e)
    BY <1>3 DEF Weddings!BeginDelete
  <2> HIDE DEF e
  <2> QED
    BY <2>1, <2>2, Proceeds DEF Weddings!Begin
<1>4. ASSUME NEW r \in Admins, Weddings!CheckPair(r) PROVE WeddingsIInv'
  <2>1. PICK t \in {"order", "write"} :
          /\ t = Weddings!OrderNext({"status"}, asked[r])
          /\ edit' = [edit EXCEPT ![r] = t]
    BY <1>4 DEF Weddings!CheckPair, Weddings!OrderNext
  <2>2. t = "write" => asked[r].status = "divorced" \/ asked[r].order = NoOrder
    BY <2>1 DEF Weddings!OrderNext
  <2>3. edit[r] # "write" /\ asked' = [asked EXCEPT ![r] = asked[r]] /\ unions' = unions /\ outrun' = outrun
    BY <1>4 DEF Weddings!CheckPair, Weddings!TypeOK
  <2> QED
    BY <1>0, <2>1, <2>2, <2>3, Proceeds
<1>5. ASSUME NEW r \in Admins, Weddings!CheckOrder(r) PROVE WeddingsIInv'
  <2>1. /\ edit[r] # "write" /\ asked' = [asked EXCEPT ![r] = asked[r]] /\ unions' = unions
        /\ outrun' = outrun /\ edit' = [edit EXCEPT ![r] = "write"]
        /\ ~Weddings!OrderTaken(asked[r].one, asked[r].two, asked[r].order, asked[r].id)
    BY <1>5 DEF Weddings!CheckOrder, Weddings!TypeOK
  <2> QED
    BY <1>0, <2>1, Proceeds
<1>6. ASSUME NEW r \in Admins, Weddings!Insert(r) PROVE WeddingsIInv'
  <2>1. unions' \in [Unions -> Weddings!Union]
    BY <1>0, <1>6, RowsAreUnions DEF Weddings!Insert, Weddings!TypeOK
  <2> QED
    BY <1>6, <2>1, Finishes DEF Weddings!Insert, Weddings!Commit
<1>7. ASSUME NEW r \in Admins, Weddings!Update(r) PROVE WeddingsIInv'
  <2>1. unions' \in [Unions -> Weddings!Union]
    BY <1>0, <1>7, RowsAreUnions DEF Weddings!Update, Weddings!TypeOK
  <2> QED
    BY <1>7, <2>1, Finishes DEF Weddings!Update, Weddings!Commit
<1>8. ASSUME NEW r \in Admins, Weddings!Delete(r) PROVE WeddingsIInv'
  <2>1. Weddings!Gone("deleted") \in Weddings!Union
    BY UnionsAreNamed DEF Weddings!Gone, Weddings!Union, Weddings!Couple
  <2>2. unions' \in [Unions -> Weddings!Union]
    BY <1>8, <2>1 DEF Weddings!Delete, Weddings!TypeOK
  <2> QED
    BY <1>8, <2>2, Finishes DEF Weddings!Delete, Weddings!Commit
<1>9. ASSUME NEW r \in Admins, Weddings!Abort(r) PROVE WeddingsIInv'
  <2>1. Weddings!End(r) /\ outrun' = outrun \ {r} /\ unions' = unions
    BY <1>9 DEF Weddings!Abort
  <2> QED
    BY <2>1, Finishes DEF Weddings!TypeOK
<1>10. CASE UNCHANGED unionVars
  BY <1>10 DEF unionVars, Weddings!TypeOK, LateOnesWrite, CheckHolds, Weddings!OrderTaken,
               Weddings!Active, Weddings!Spouses, Already
<1> QED
  BY <1>1, <1>2, <1>3, <1>4, <1>5, <1>6, <1>7, <1>8, <1>9, <1>10 DEF Weddings!Next

LEMMA WeddingsInvariant == RecordsSpec => []WeddingsIInv
<1>1. RecordsInit => WeddingsIInv
  BY InitWeddingsIInv DEF RecordsInit
<1>2. WeddingsIInv /\ [RecordsNext]_recordVars => WeddingsIInv'
  BY WeddingsStep, NextWeddingsIInv
<1> QED
  BY <1>1, <1>2, PTL DEF RecordsSpec

\* The row that a request writes shares its order with none that does not already
\* share it, when nobody outran the request.
LEMMA WritesNoConflict ==
    ASSUME WeddingsIInv, NEW r \in Admins, edit[r] = "write", r \notin outrun,
           NEW u \in Unions, unions' = [unions EXCEPT ![u] = Weddings!Row(asked[r])],
           \/ asked[r].id = u
           \/ asked[r].id = NoUnion /\ unions[u].state = "unused"
    PROVE  Weddings!SameOrder' \subseteq Weddings!SameOrder
<1> DEFINE e == asked[r]
           new == Weddings!Row(e)
<1>1. e \in Weddings!Edit /\ unions \in [Unions -> Weddings!Union]
  BY DEF WeddingsIInv, Weddings!TypeOK
<1>2. /\ unions'[u] = new
      /\ \A v \in Unions \ {u} : unions'[v] = unions[v]
  BY <1>1
<1>3. /\ new.state = "live" /\ new.one = e.one /\ new.two = e.two
      /\ new.status = e.status /\ new.order = e.order
  BY DEF Weddings!Row
<1> HIDE DEF new, e
<1>4. CASE e.status = "divorced" \/ e.order = NoOrder
  BY <1>2, <1>3, <1>4 DEF Weddings!SameOrder, Weddings!Active, Weddings!Spouses
<1>5. CASE ~Weddings!OrderTaken(e.one, e.two, e.order, e.id)
  <2>1. \A v \in Weddings!Active : v # u => v # e.id
    BY <1>1, UnionsAreNamed DEF Weddings!Active, e
  <2>2. \A v \in Weddings!Active \ {u} :
          unions[v].order # e.order \/ Weddings!Spouses(v) \cap {e.one, e.two} = {}
    BY <1>5, <2>1 DEF Weddings!OrderTaken
  <2>3. \A v \in Unions \ {u} : unions'[v].state = "live" /\ unions'[v].status # "divorced" => v \in Weddings!Active
    BY <1>2 DEF Weddings!Active
  <2> QED
    BY <1>2, <1>3, <2>2, <2>3 DEF Weddings!SameOrder, Weddings!Active, Weddings!Spouses
<1>6. CASE Already(e)
  <2>1. e.id = u
    BY <1>6, UnionsAreNamed DEF Already, e
  <2> QED
    BY <1>2, <1>3, <1>6, <2>1 DEF Already, Weddings!SameOrder, Weddings!Active, Weddings!Spouses
<1> QED
  BY <1>4, <1>5, <1>6 DEF WeddingsIInv, CheckHolds, e

\* Two active marriages of one person come to share an order by a race alone, whatever
\* edits, divorces and remarriages came before (relationship/validator.py,
\* check_spouse_order; migration 012).
THEOREM SharedOrderTakesRace == RecordsSpec => SharedOrderOnlyByRace
<1> DEFINE Raced == \/ Weddings!SameOrder' \subseteq Weddings!SameOrder
                    \/ \E r \in outrun : r \notin outrun' /\ edit[r] = "write"
<1>1. WeddingsIInv /\ [RecordsNext]_recordVars => [Raced]_unions
  <2> SUFFICES ASSUME WeddingsIInv, [RecordsNext]_recordVars, unions' # unions
               PROVE  Raced
    OBVIOUS
  <2>0. ASSUME NEW r \in Admins
        PROVE  /\ \A p, q \in Relatives, s \in Statuses, o \in Orders \cup {NoOrder} :
                    ~Weddings!BeginCreate(r, p, q, s, o)
               /\ \A u \in Unions, f \in SUBSET {"status", "order"}, s \in Statuses,
                     o \in Orders \cup {NoOrder} : ~Weddings!BeginPatch(r, u, f, s, o)
               /\ \A u \in Unions : ~Weddings!BeginDelete(r, u)
               /\ ~Weddings!CheckPair(r) /\ ~Weddings!CheckOrder(r) /\ ~Weddings!Abort(r)
    <3>1. \A p, q \in Relatives, s \in Statuses, o \in Orders \cup {NoOrder} :
            ~Weddings!BeginCreate(r, p, q, s, o)
      BY DEF Weddings!BeginCreate, Weddings!Begin
    <3>2. \A u \in Unions, f \in SUBSET {"status", "order"}, s \in Statuses,
             o \in Orders \cup {NoOrder} : ~Weddings!BeginPatch(r, u, f, s, o)
      BY DEF Weddings!BeginPatch, Weddings!Begin
    <3>3. \A u \in Unions : ~Weddings!BeginDelete(r, u)
      BY DEF Weddings!BeginDelete, Weddings!Begin
    <3> QED
      BY <3>1, <3>2, <3>3 DEF Weddings!CheckPair, Weddings!CheckOrder, Weddings!Abort
  <2>1. PICK r \in Admins : Weddings!Insert(r) \/ Weddings!Update(r) \/ Weddings!Delete(r)
    BY <2>0, WeddingsStep DEF Weddings!Next, unionVars
  <2>2. CASE r \in outrun
    BY <2>1, <2>2 DEF WeddingsIInv, LateOnesWrite, Weddings!Insert, Weddings!Update, Weddings!Delete,
                      Weddings!Commit
  <2>3. CASE Weddings!Insert(r) /\ r \notin outrun
    BY <2>3, WritesNoConflict DEF Weddings!Insert
  <2>4. CASE Weddings!Update(r) /\ r \notin outrun
    <3>1. asked[r].id \in Unions
      BY <2>4 DEF Weddings!Update, WeddingsIInv, Weddings!TypeOK, Weddings!Edit
    <3> QED
      BY <2>4, <3>1, WritesNoConflict DEF Weddings!Update
  <2>5. CASE Weddings!Delete(r)
    <3>1. unions' = [unions EXCEPT ![asked[r].id] = Weddings!Gone("deleted")]
      BY <2>5 DEF Weddings!Delete
    <3>2. Weddings!Gone("deleted").state # "live"
      BY DEF Weddings!Gone
    <3> QED
      BY <3>1, <3>2 DEF WeddingsIInv, Weddings!TypeOK, Weddings!SameOrder, Weddings!Active, Weddings!Spouses
  <2> QED
    BY <2>1, <2>2, <2>3, <2>4, <2>5
<1> QED
  BY <1>1, WeddingsInvariant, PTL DEF RecordsSpec, SharedOrderOnlyByRace, Weddings!SharedOrderOnlyByRace

-----------------------------------------------------------------------------
(* Pages *)

\* The page that a client reads next starts after the rows it was shown: of the rows
\* that stay, it was shown once those up to the cursor, and none of the others.
ShownUpToCursor ==
    \A r \in staying :
        IF ~more THEN shown[r] = 1
        ELSE IF Paging!After(Paging!Place(r)) THEN shown[r] = 0 ELSE shown[r] = 1

\* Where keys never change, no row after the cursor was shown, and none is shown before
\* its transaction commits.
NoneShownAhead ==
    /\ \A r \in Ids : rows[r].state \in {"none", "open"} => shown[r] = 0
    /\ list # "names" =>
         \A r \in Ids :
            /\ shown[r] <= 1
            /\ more /\ Paging!After(Paging!Place(r)) => shown[r] = 0

PagesIInv == Paging!TypeOK /\ ShownUpToCursor /\ NoneShownAhead

LEMMA PagesStep ==
    ASSUME [RecordsNext]_recordVars
    PROVE  record' = record /\ (record = "pages" => [Paging!Next]_pageVars)
  BY DEF RecordsNext, recordVars, pageVars

LEMMA InitPagesIInv == Paging!Init => PagesIInv
  BY PagesAreNumbered
  DEF Paging!Init, PagesIInv, Paging!TypeOK, Paging!Row, Paging!Live, ShownUpToCursor, NoneShownAhead

LEMMA IdsAndKeys ==
    /\ \A r \in Ids : r \in Int
    /\ \A key \in PageTimes : key \in Int /\ key # 0
<1>1. Ids \subseteq Nat /\ PageTimes \subseteq Nat \ {0}
  BY PagesAreNumbered
<1> QED
  BY <1>1

LEMMA PlacesAreNumbers ==
    ASSUME Paging!TypeOK, NEW r \in Ids
    PROVE  /\ r \in Int /\ rows[r].key \in Int
           /\ Paging!Place(r).key = rows[r].key /\ Paging!Place(r).id = r
           /\ Paging!Place(r) \in [key : PageTimes, id : Ids]
           /\ Paging!Place(r) # Paging!Start
<1>1. rows[r].key \in PageTimes
  BY DEF Paging!TypeOK, Paging!Row
<1>2. rows[r].key \in Int /\ r \in Int /\ rows[r].key # 0
  BY <1>1, IdsAndKeys
<1> QED
  BY <1>1, <1>2 DEF Paging!Place, Paging!Start

LEMMA CursorsAreNumbers ==
    ASSUME Paging!TypeOK, cursor # Paging!Start
    PROVE  cursor.key \in Int /\ cursor.id \in Int
<1>1. cursor.key \in PageTimes /\ cursor.id \in Ids
  BY DEF Paging!TypeOK
<1> QED
  BY <1>1, IdsAndKeys

\* The order of a list is total, and the cursor cuts it.
LEMMA ListIsOrdered ==
    ASSUME Paging!TypeOK, NEW r \in Ids, NEW s \in Ids
    PROVE  /\ ~Paging!InOrder(r, r)
           /\ Paging!InOrder(r, s) => ~Paging!InOrder(s, r)
           /\ r # s => Paging!InOrder(r, s) \/ Paging!InOrder(s, r)
           /\ \A t \in Ids : Paging!InOrder(r, s) /\ Paging!InOrder(s, t) => Paging!InOrder(r, t)
  BY PlacesAreNumbers DEF Paging!InOrder, Paging!Precedes

\* What follows a row that is after the cursor is after the cursor.
LEMMA AfterIsClosed ==
    ASSUME Paging!TypeOK, NEW r \in Ids, NEW s \in Ids,
           Paging!After(Paging!Place(r)), Paging!InOrder(r, s)
    PROVE  Paging!After(Paging!Place(s))
  BY PlacesAreNumbers, CursorsAreNumbers DEF Paging!InOrder, Paging!Precedes, Paging!After

\* The rows ahead of a row are finitely many, and fewer than the rows there are.
LEMMA RanksAreCounted ==
    ASSUME Paging!TypeOK, NEW rest \in SUBSET Ids, NEW r \in rest
    PROVE  /\ Paging!Rank(r, rest) \in Nat
           /\ Paging!Cardinality(rest) \in Nat
           /\ Paging!Rank(r, rest) < Paging!Cardinality(rest)
<1> DEFINE ahead == {s \in rest : Paging!InOrder(s, r)}
<1>1. IsFiniteSet(rest) /\ IsFiniteSet(ahead)
  BY PagesAreNumbered, FS_Subset
<1>2. r \notin ahead
  BY ListIsOrdered
<1>3. ahead \cup {r} \subseteq rest
  OBVIOUS
<1>4. Cardinality(ahead \cup {r}) = Cardinality(ahead) + 1 /\ IsFiniteSet(ahead \cup {r})
  BY <1>1, <1>2, FS_AddElement
<1>5. Cardinality(ahead \cup {r}) <= Cardinality(rest)
  BY <1>1, <1>3, FS_Subset
<1>6. Cardinality(ahead) \in Nat /\ Cardinality(rest) \in Nat
  BY <1>1, FS_CardinalityType
<1>7. Paging!Rank(r, rest) = Cardinality(ahead) /\ Paging!Cardinality(rest) = Cardinality(rest)
  BY DEF Paging!Rank, Paging!Cardinality, Cardinality
<1> QED
  BY <1>4, <1>5, <1>6, <1>7

\* A row has a higher rank than those ahead of it.
LEMMA RanksFollowOrder ==
    ASSUME Paging!TypeOK, NEW rest \in SUBSET Ids, NEW r \in rest, NEW s \in rest,
           Paging!InOrder(r, s)
    PROVE  Paging!Rank(r, rest) < Paging!Rank(s, rest)
<1> DEFINE ahead(t) == {u \in rest : Paging!InOrder(u, t)}
<1>1. IsFiniteSet(ahead(r)) /\ IsFiniteSet(ahead(s))
  BY PagesAreNumbered, FS_Subset
<1>2. r \notin ahead(r)
  BY ListIsOrdered
<1>3. ahead(r) \cup {r} \subseteq ahead(s)
  BY ListIsOrdered
<1>4. Cardinality(ahead(r) \cup {r}) = Cardinality(ahead(r)) + 1
  BY <1>1, <1>2, FS_AddElement
<1>5. Cardinality(ahead(r) \cup {r}) <= Cardinality(ahead(s))
  BY <1>1, <1>3, FS_Subset
<1>6. Cardinality(ahead(r)) \in Nat /\ Cardinality(ahead(s)) \in Nat
  BY <1>1, FS_CardinalityType
<1>7. Paging!Rank(r, rest) = Cardinality(ahead(r)) /\ Paging!Rank(s, rest) = Cardinality(ahead(s))
  BY DEF Paging!Rank, Paging!Cardinality, Cardinality
<1> HIDE DEF ahead
<1> QED
  BY <1>4, <1>5, <1>6, <1>7

\* A page shows what the old cursor lets pass and the new one, if any, does not.
LEMMA ReadsAPage ==
    ASSUME PagesIInv, NEW limit \in Limits, Paging!ReadPage(limit)
    PROVE  PagesIInv'
<1> DEFINE rest == {r \in Paging!Live : Paging!After(Paging!Place(r))}
           page == {r \in rest : Paging!Rank(r, rest) < limit}
           over == Paging!Cardinality(rest) > limit
<1>0. Paging!TypeOK /\ limit \in Nat \ {0}
  BY PagesAreNumbered DEF PagesIInv
<1>1. /\ more = TRUE
      /\ more' = over
      /\ shown' = [r \in Ids |-> shown[r] + (IF r \in page THEN 1 ELSE 0)]
      /\ \/ ~over /\ cursor' = cursor
         \/ over /\ \E r \in page : Paging!Rank(r, rest) = limit - 1 /\ cursor' = Paging!Place(r)
      /\ UNCHANGED <<list, rows, clock, staying>>
  BY <1>0 DEF Paging!ReadPage, Paging!TypeOK
<1>2. /\ rest \in SUBSET Ids /\ page \subseteq rest
      /\ \A r \in Ids : r \in rest <=> r \in Paging!Live /\ Paging!After(Paging!Place(r))
      /\ \A r \in rest : r \in page <=> Paging!Rank(r, rest) < limit
  BY DEF Paging!Live
<1>3. \A r \in Ids : Paging!Place(r)' = Paging!Place(r)
  BY <1>1 DEF Paging!Place
<1>4. Paging!Live' = Paging!Live
  BY <1>1 DEF Paging!Live
<1> HIDE DEF rest, page
<1>5. \A r \in Ids : shown'[r] = shown[r] + (IF r \in page THEN 1 ELSE 0)
  BY <1>1
<1>6. Paging!TypeOK'
  <2>1. shown' \in [Ids -> Nat]
    BY <1>0, <1>1 DEF Paging!TypeOK
  <2>2. \A r \in Ids : Paging!Place(r) \in [key : PageTimes, id : Ids]
    BY <1>0, PlacesAreNumbers
  <2>3. cursor' \in {Paging!Start} \cup [key : PageTimes, id : Ids]
    BY <1>0, <1>1, <1>2, <2>2 DEF Paging!TypeOK
  <2>4. more' \in BOOLEAN
    BY <1>1
  <2> QED
    BY <1>0, <1>1, <1>4, <2>1, <2>3, <2>4 DEF Paging!TypeOK
<1>7. CASE ~over
  <2>1. page = rest
    <3>1. \A r \in rest : Paging!Rank(r, rest) < limit
      BY <1>0, <1>2, <1>7, RanksAreCounted
    <3> QED
      BY <1>2, <3>1
  <2>2. more' = FALSE /\ cursor' = cursor
    <3>1. IsFiniteSet(rest) /\ Paging!Cardinality(rest) = Cardinality(rest)
      BY <1>2, PagesAreNumbered, FS_Subset DEF Paging!Cardinality, Cardinality
    <3>2. Paging!Cardinality(rest) \in Nat
      BY <3>1, FS_CardinalityType
    <3>3. over \in BOOLEAN
      BY <1>0, <3>2
    <3>4. ~over /\ more' = over /\ cursor' = cursor
      BY <1>1, <1>7
    <3> HIDE DEF over
    <3> QED
      BY <3>3, <3>4
  <2>3. \A r \in Ids : r \in Paging!Live => (r \in page <=> Paging!After(Paging!Place(r)))
    BY <1>2, <2>1
  <2>4. ShownUpToCursor'
    BY <1>0, <1>1, <1>5, <2>2, <2>3 DEF PagesIInv, ShownUpToCursor, Paging!TypeOK, Paging!Live
  <2>5. NoneShownAhead'
    BY <1>0, <1>1, <1>2, <1>5, <2>2, <2>3 DEF PagesIInv, NoneShownAhead, Paging!TypeOK, Paging!Live
  <2> QED
    BY <1>6, <2>4, <2>5 DEF PagesIInv
<1>8. CASE over
  <2>1. PICK last \in page : Paging!Rank(last, rest) = limit - 1 /\ cursor' = Paging!Place(last)
    BY <1>1, <1>8
  <2>2. last \in rest /\ last \in Ids /\ Paging!After(Paging!Place(last))
    BY <1>2, <2>1
  <2>3. cursor' # Paging!Start
    BY <1>0, <2>1, <2>2, PlacesAreNumbers
  <2>4. \A r \in Ids : Paging!After(Paging!Place(r))' <=> Paging!InOrder(last, r)
    BY <1>1, <1>3, <2>1, <2>3 DEF Paging!After, Paging!InOrder, Paging!Start
  <2>5. \A r \in rest : r \in page <=> ~Paging!InOrder(last, r)
    <3> SUFFICES ASSUME NEW r \in rest PROVE r \in page <=> ~Paging!InOrder(last, r)
      OBVIOUS
    <3>1. Paging!Rank(r, rest) \in Nat
      BY <1>0, <1>2, RanksAreCounted
    <3>2. CASE Paging!InOrder(last, r)
      <4>1. Paging!Rank(last, rest) < Paging!Rank(r, rest)
        BY <1>0, <1>2, <2>2, <3>2, RanksFollowOrder
      <4> QED
        BY <1>0, <1>2, <2>1, <3>1, <3>2, <4>1
    <3>3. CASE Paging!InOrder(r, last)
      <4>1. Paging!Rank(r, rest) < Paging!Rank(last, rest)
        BY <1>0, <1>2, <2>2, <3>3, RanksFollowOrder
      <4>2. ~Paging!InOrder(last, r)
        BY <1>0, <1>2, <2>2, <3>3, ListIsOrdered
      <4> QED
        BY <1>0, <1>2, <2>1, <3>1, <4>1, <4>2
    <3>4. CASE r = last
      BY <1>0, <1>2, <2>1, <2>2, <3>4, ListIsOrdered
    <3> QED
      BY <1>0, <1>2, <2>2, <3>2, <3>3, <3>4, ListIsOrdered
  <2>6. \A r \in Ids : Paging!InOrder(last, r) => Paging!After(Paging!Place(r))
    BY <1>0, <2>2, AfterIsClosed
  <2>7. more' = TRUE
    BY <1>1, <1>8
  <2>8. \A r \in Ids : r \in page => Paging!After(Paging!Place(r)) /\ ~Paging!InOrder(last, r) /\ r \in Paging!Live
    BY <1>2, <2>5
  <2>9. \A r \in Paging!Live : Paging!After(Paging!Place(r)) /\ r \notin page => Paging!InOrder(last, r)
    BY <1>2, <2>5 DEF Paging!Live
  <2>10. ShownUpToCursor'
    <3> SUFFICES ASSUME NEW r \in staying
                 PROVE  shown'[r] = IF Paging!After(Paging!Place(r))' THEN 0 ELSE 1
      BY <1>1, <2>7 DEF ShownUpToCursor
    <3>1. r \in Paging!Live /\ r \in Ids
      BY <1>0 DEF Paging!TypeOK, Paging!Live
    <3>2. shown[r] = IF Paging!After(Paging!Place(r)) THEN 0 ELSE 1
      BY <1>1 DEF PagesIInv, ShownUpToCursor
    <3> QED
      BY <1>5, <2>4, <2>6, <2>8, <2>9, <3>1, <3>2
  <2>11. NoneShownAhead'
    <3>1. \A r \in Ids : rows'[r].state \in {"none", "open"} => shown'[r] = 0
      BY <1>0, <1>1, <1>2, <1>5 DEF PagesIInv, NoneShownAhead, Paging!TypeOK, Paging!Live
    <3>2. ASSUME list # "names", NEW r \in Ids
          PROVE  shown'[r] <= 1 /\ (Paging!After(Paging!Place(r))' => shown'[r] = 0)
      <4>1. shown[r] \in Nat /\ shown[r] <= 1 /\ (Paging!After(Paging!Place(r)) => shown[r] = 0)
        BY <1>0, <1>1, <3>2 DEF PagesIInv, NoneShownAhead, Paging!TypeOK
      <4> QED
        BY <1>5, <2>4, <2>6, <2>8, <4>1
    <3> QED
      BY <1>1, <2>7, <3>1, <3>2 DEF NoneShownAhead
  <2> QED
    BY <1>6, <2>10, <2>11 DEF PagesIInv
<1> QED
  BY <1>7, <1>8

LEMMA NextPagesIInv == ASSUME PagesIInv, [Paging!Next]_pageVars PROVE PagesIInv'
<1> USE DEF PagesIInv
<1>1. CASE Paging!Tick
  BY <1>1 DEF Paging!Tick, Paging!Reader, Paging!TypeOK, Paging!Live, ShownUpToCursor, NoneShownAhead,
              Paging!After, Paging!Place
<1>2. ASSUME NEW r \in Ids, NEW key \in PageTimes, Paging!Insert(r, key) PROVE PagesIInv'
  <2>1. /\ rows' = [rows EXCEPT ![r] = [state |-> "open", key |-> key]]
        /\ rows[r].state = "none"
        /\ UNCHANGED <<list, clock, cursor, more, shown, staying>>
    BY <1>2 DEF Paging!Insert, Paging!Reader
  <2>2. r \notin staying
    BY <2>1 DEF Paging!TypeOK, Paging!Live
  <2>3. \A s \in Ids \ {r} : rows'[s] = rows[s] /\ Paging!Place(s)' = Paging!Place(s)
    BY <2>1 DEF Paging!TypeOK, Paging!Place
  <2>4. \A place : Paging!After(place)' <=> Paging!After(place)
    BY <2>1 DEF Paging!After
  <2>5. Paging!TypeOK'
    BY <2>1, <2>2 DEF Paging!TypeOK, Paging!Row, Paging!Live
  <2>6. \A s \in Ids \ {r} : Paging!After(Paging!Place(s))' <=> Paging!After(Paging!Place(s))
    BY <2>1, <2>3 DEF Paging!After
  <2>7. shown[r] = 0
    BY <2>1 DEF NoneShownAhead
  <2> QED
    BY <2>1, <2>2, <2>3, <2>5, <2>6, <2>7 DEF ShownUpToCursor, NoneShownAhead, Paging!TypeOK, Paging!Live
<1>3. ASSUME NEW r \in Ids, NEW key \in PageTimes, Paging!Rename(r, key) PROVE PagesIInv'
  <2>1. /\ rows' = [rows EXCEPT ![r].key = key]
        /\ list = "names" /\ rows[r].state = "live"
        /\ staying' = IF Paging!Unread THEN staying ELSE staying \ {r}
        /\ UNCHANGED <<list, clock, cursor, more, shown>>
    BY <1>3 DEF Paging!Rename, Paging!Reader, Paging!Live
  <2>2. /\ \A s \in Ids \ {r} : rows'[s] = rows[s]
        /\ rows'[r].state = "live"
        /\ rows' \in [Ids -> Paging!Row]
    BY <2>1 DEF Paging!TypeOK, Paging!Row
  <2>3. Paging!TypeOK'
    BY <2>1, <2>2 DEF Paging!TypeOK, Paging!Live
  <2>4. \A s \in Ids \ {r} : Paging!After(Paging!Place(s))' <=> Paging!After(Paging!Place(s))
    BY <2>1, <2>2 DEF Paging!After, Paging!Place
  <2>5. Paging!Unread => \A s \in Ids : Paging!After(Paging!Place(s))' /\ Paging!After(Paging!Place(s))
    BY <2>1 DEF Paging!Unread, Paging!After
  <2>6. ShownUpToCursor'
    BY <2>1, <2>3, <2>4, <2>5 DEF ShownUpToCursor, Paging!TypeOK, Paging!Live, Paging!Unread
  <2> QED
    BY <2>1, <2>2, <2>3, <2>6 DEF NoneShownAhead
<1>4. ASSUME NEW r \in Ids, Paging!Commit(r) PROVE PagesIInv'
  <2>1. /\ rows' = [rows EXCEPT ![r].state = "live"]
        /\ rows[r].state = "open"
        /\ staying' = IF Paging!Unread THEN staying \cup {r} ELSE staying
        /\ UNCHANGED <<list, clock, cursor, more, shown>>
    BY <1>4 DEF Paging!Commit, Paging!Reader
  <2>2. /\ \A s \in Ids \ {r} : rows'[s] = rows[s]
        /\ rows'[r].state = "live" /\ rows'[r].key = rows[r].key
        /\ rows' \in [Ids -> Paging!Row]
    BY <2>1 DEF Paging!TypeOK, Paging!Row
  <2>3. Paging!TypeOK'
    BY <2>1, <2>2 DEF Paging!TypeOK, Paging!Live
  <2>4. \A s \in Ids : Paging!After(Paging!Place(s))' <=> Paging!After(Paging!Place(s))
    BY <2>1, <2>2 DEF Paging!After, Paging!Place
  <2>5. Paging!Unread => \A s \in Ids : Paging!After(Paging!Place(s)) /\ more
    BY DEF Paging!Unread, Paging!After
  <2>6. shown[r] = 0
    BY <2>1 DEF NoneShownAhead
  <2>7. ShownUpToCursor'
    BY <2>1, <2>3, <2>4, <2>5, <2>6 DEF ShownUpToCursor, Paging!TypeOK, Paging!Live
  <2> QED
    BY <2>1, <2>2, <2>3, <2>4, <2>7 DEF NoneShownAhead
<1>5. ASSUME NEW r \in Ids, Paging!Remove(r) PROVE PagesIInv'
  <2>1. /\ rows' = [rows EXCEPT ![r].state = "gone"]
        /\ rows[r].state = "live"
        /\ staying' = staying \ {r}
        /\ UNCHANGED <<list, clock, cursor, more, shown>>
    BY <1>5 DEF Paging!Remove, Paging!Reader, Paging!Live
  <2>2. /\ \A s \in Ids \ {r} : rows'[s] = rows[s]
        /\ rows'[r].state = "gone" /\ rows'[r].key = rows[r].key
        /\ rows' \in [Ids -> Paging!Row]
    BY <2>1 DEF Paging!TypeOK, Paging!Row
  <2>3. Paging!TypeOK'
    BY <2>1, <2>2 DEF Paging!TypeOK, Paging!Live
  <2>4. \A s \in Ids : Paging!After(Paging!Place(s))' <=> Paging!After(Paging!Place(s))
    BY <2>1, <2>2 DEF Paging!After, Paging!Place
  <2>5. ShownUpToCursor'
    BY <2>1, <2>3, <2>4 DEF ShownUpToCursor, Paging!TypeOK, Paging!Live
  <2> QED
    BY <2>1, <2>2, <2>3, <2>4, <2>5 DEF NoneShownAhead
<1>6. ASSUME NEW limit \in Limits, Paging!ReadPage(limit) PROVE PagesIInv'
  BY <1>6, ReadsAPage
<1>7. CASE UNCHANGED pageVars
  BY <1>7 DEF pageVars, Paging!TypeOK, Paging!Live, ShownUpToCursor, NoneShownAhead, Paging!After, Paging!Place
<1> QED
  BY <1>1, <1>2, <1>3, <1>4, <1>5, <1>6, <1>7 DEF Paging!Next

LEMMA PagesInvariant == RecordsSpec => [](record = "pages" => PagesIInv)
<1>1. RecordsInit => (record = "pages" => PagesIInv)
  BY InitPagesIInv DEF RecordsInit
<1>2. (record = "pages" => PagesIInv) /\ [RecordsNext]_recordVars => (record = "pages" => PagesIInv)'
  BY PagesStep, NextPagesIInv
<1> QED
  BY <1>1, <1>2, PTL DEF RecordsSpec

\* Whatever rows come, go and are renamed between the pages, a row that stays in the list
\* under its key is shown once, and one that was not renamed never twice, under any
\* limits and any number of equal keys (core/pagination.py).
THEOREM ListedOnceAlways == RecordsSpec => []ListedOnce
<1>1. (record = "pages" => PagesIInv) => ListedOnce
  <2> SUFFICES ASSUME PagesIInv PROVE Paging!ListedOnce
    BY DEF ListedOnce
  <2> QED
    BY DEF PagesIInv, NoneShownAhead, ShownUpToCursor, Paging!ListedOnce
<1> QED
  BY <1>1, PagesInvariant, PTL

-----------------------------------------------------------------------------
(* The path between two people and its term *)

\* Who is a step away from p, and how.
Around(p) == Neighbours(links, marriages, alive, p)

\* A way of the search: its steps are in the graph and it meets nobody twice.
WayFrom(p, w) ==
    /\ w = [ids |-> w.ids, edges |-> w.edges]
    /\ w.ids \in Seq(Persons) /\ w.edges \in Seq(DOMAIN EdgeRank)
    /\ Len(w.ids) = Len(w.edges) + 1
    /\ w.ids[1] = p
    /\ \A i \in 1..Len(w.edges) : <<w.ids[i + 1], w.edges[i]>> \in Around(w.ids[i])
    /\ \A i, j \in 1..Len(w.ids) : w.ids[i] = w.ids[j] => i = j

Visited == {EndOf(w) : w \in got.visited}

\* The people on the ways are those at their ends; who is a step away from the first is
\* at the end of a way of one step.
WaysAreVisited ==
    \A w \in got.visited :
        /\ WayFrom(read.from, w)
        /\ \A i \in 1..Len(w.ids) : w.ids[i] \in Visited
        /\ Len(w.ids) >= 3 => \A e \in DOMAIN EdgeRank : <<EndOf(w), e>> \notin Around(read.from)

\* The search goes by whole rounds.
ByRounds ==
    /\ got.round \in Nat
    /\ got.frontier \subseteq got.visited
    /\ got.round = 0 => got.visited = {Origin(read.from)} /\ got.frontier = {Origin(read.from)}
    /\ got.round > 0 =>
         /\ \A w \in got.frontier : Len(w.ids) >= 2
         /\ \A n \in Around(read.from) : n[1] \in Visited

TermIsOfTheWay ==
    \/ read.at = "round"
    \/ read.at = "done" /\ got.term = IF Found THEN Describe(TheWay, Gender, Born) ELSE <<>>

SearchIInv ==
    /\ alive \subseteq Persons
    /\ \A p \in Persons : Born[p] \in Nat
    /\ DOMAIN read = DOMAIN Idle /\ DOMAIN got = DOMAIN Nothing
    /\ read.kind = "path" => read.at \in {"round", "done"}
    /\ read.kind = "path" /\ sinceMap = {} =>
         read.from \in Persons /\ WaysAreVisited /\ ByRounds /\ TermIsOfTheWay

LEMMA AStepIsAPair ==
    ASSUME NEW p, NEW n \in Around(p)
    PROVE  /\ n = <<n[1], n[2]>> /\ n[1] \in alive /\ n[2] \in DOMAIN EdgeRank
           /\ \E q \in alive, e \in DOMAIN EdgeRank : n = <<q, e>> /\ n[1] = q /\ n[2] = e
<1>1. n \in alive \X DOMAIN EdgeRank
  BY DEF Around, Neighbours
<1> QED
  BY <1>1

LEMMA OriginIsAWay ==
    ASSUME NEW p \in Persons
    PROVE  WayFrom(p, Origin(p)) /\ EndOf(Origin(p)) = p /\ Len(Origin(p).ids) = 1
           /\ Origin(p).ids[1] = p
<1>1. Origin(p).ids = <<p>> /\ Origin(p).edges = <<>>
  BY DEF Origin
<1>2. Len(<<p>>) = 1 /\ <<p>>[1] = p /\ <<p>> \in Seq(Persons) /\ Len(<<>>) = 0 /\ <<>> \in Seq(DOMAIN EdgeRank)
  OBVIOUS
<1> QED
  BY <1>1, <1>2 DEF Origin, WayFrom, EndOf

\* A way with a step more, to somebody whom it has not met.
Longer(w, n) == [ids |-> Append(w.ids, n[1]), edges |-> Append(w.edges, n[2])]

LEMMA LongerEnds ==
    ASSUME NEW w, w.ids \in Seq(Persons), NEW n, n[1] \in Persons
    PROVE  EndOf(Longer(w, n)) = n[1]
  BY DEF Longer, EndOf

LEMMA WaysGrow ==
    ASSUME alive \subseteq Persons, NEW p, NEW w, WayFrom(p, w), NEW n \in Around(EndOf(w)),
           \A i \in 1..Len(w.ids) : w.ids[i] # n[1]
    PROVE  /\ WayFrom(p, Longer(w, n))
           /\ EndOf(Longer(w, n)) = n[1]
           /\ Len(Longer(w, n).ids) = Len(w.ids) + 1
           /\ \A i \in 1..Len(w.ids) : Longer(w, n).ids[i] = w.ids[i]
<1> DEFINE ids == Append(w.ids, n[1])
           edges == Append(w.edges, n[2])
<1>1. w.ids \in Seq(Persons) /\ w.edges \in Seq(DOMAIN EdgeRank) /\ Len(w.ids) = Len(w.edges) + 1
  BY DEF WayFrom
<1>2. n = <<n[1], n[2]>> /\ n[1] \in Persons /\ n[2] \in DOMAIN EdgeRank
  BY AStepIsAPair
<1>3. /\ ids \in Seq(Persons) /\ Len(ids) = Len(w.ids) + 1 /\ ids[Len(ids)] = n[1]
      /\ \A i \in 1..Len(w.ids) : ids[i] = w.ids[i]
  BY <1>1, <1>2
<1>4. /\ edges \in Seq(DOMAIN EdgeRank) /\ Len(edges) = Len(w.edges) + 1 /\ edges[Len(edges)] = n[2]
      /\ \A i \in 1..Len(w.edges) : edges[i] = w.edges[i]
  BY <1>1, <1>2
<1>5. Len(w.ids) \in Nat /\ Len(w.edges) \in Nat
  BY <1>1
<1>6. Longer(w, n).ids = ids /\ Longer(w, n).edges = edges /\ Longer(w, n) = [ids |-> ids, edges |-> edges]
  BY DEF Longer
<1> HIDE DEF ids, edges
<1>0. PICK q \in Persons, e \in DOMAIN EdgeRank : n = <<q, e>> /\ n[1] = q /\ n[2] = e
  BY AStepIsAPair
<1>7. \A i \in 1..Len(edges) : <<ids[i + 1], edges[i]>> \in Around(ids[i])
  <2>1. ASSUME NEW i \in 1..Len(w.edges) PROVE <<ids[i + 1], edges[i]>> \in Around(ids[i])
    <3>1. i \in 1..Len(w.ids) /\ i + 1 \in 1..Len(w.ids)
      BY <1>1, <1>5
    <3> QED
      BY <1>3, <1>4, <3>1 DEF WayFrom
  <2>2. <<ids[Len(edges) + 1], edges[Len(edges)]>> \in Around(ids[Len(edges)])
    <3>1. Len(edges) = Len(w.ids) /\ Len(edges) + 1 = Len(ids) /\ Len(w.ids) \in 1..Len(w.ids)
      BY <1>1, <1>3, <1>4, <1>5
    <3>2. ids[Len(edges)] = EndOf(w)
      BY <1>3, <3>1 DEF EndOf
    <3>3. ids[Len(edges) + 1] = q /\ edges[Len(edges)] = e
      BY <1>0, <1>3, <1>4, <3>1
    <3>4. <<q, e>> \in Around(EndOf(w))
      BY <1>0
    <3> QED
      BY <3>2, <3>3, <3>4
  <2>3. \A i \in 1..Len(edges) : i \in 1..Len(w.edges) \/ i = Len(edges)
    BY <1>4, <1>5
  <2> QED
    BY <2>1, <2>2, <2>3
<1>8. \A i, j \in 1..Len(ids) : ids[i] = ids[j] => i = j
  <2>1. \A i \in 1..Len(ids) : i \in 1..Len(w.ids) \/ i = Len(ids)
    BY <1>3, <1>5
  <2>2. \A i, j \in 1..Len(w.ids) : ids[i] = ids[j] => i = j
    BY <1>3 DEF WayFrom
  <2>3. \A i \in 1..Len(w.ids) : ids[i] # ids[Len(ids)]
    BY <1>3
  <2> QED
    BY <2>1, <2>2, <2>3
<1>9. ids[1] = p
  <2>1. 1 \in 1..Len(w.ids) /\ w.ids[1] = p
    BY <1>1, <1>5 DEF WayFrom
  <2> QED
    BY <1>3, <2>1
<1> QED
  BY <1>1, <1>3, <1>4, <1>5, <1>6, <1>7, <1>8, <1>9 DEF WayFrom, EndOf

LEMMA OneStep ==
    ASSUME NEW p, NEW n
    PROVE  Longer(Origin(p), n).ids = <<p, n[1]>> /\ Longer(Origin(p), n).edges = <<n[2]>>
<1> DEFINE S == {p, n[1]}
           s == Append(<<p>>, n[1])
           t == <<p, n[1]>>
<1>1. <<p>> \in Seq(S) /\ n[1] \in S /\ Len(<<p>>) = 1 /\ <<p>>[1] = p
  OBVIOUS
<1>2. s \in Seq(S) /\ Len(s) = 2 /\ s[1] = p /\ s[2] = n[1]
  BY <1>1, AppendProperties
<1>3. t \in Seq(S) /\ Len(t) = 2 /\ t[1] = p /\ t[2] = n[1]
  OBVIOUS
<1>4. s = t
  <2> HIDE DEF s, t, S
  <2>1. \A i \in 1..Len(s) : s[i] = t[i]
    BY <1>2, <1>3
  <2> QED
    BY <1>2, <1>3, <2>1, SeqEqual
<1>5. Append(<<>>, n[2]) = <<n[2]>>
  OBVIOUS
<1> QED
  BY <1>4, <1>5 DEF Longer, Origin

\* Who is reached in a round, and who is not.
Round == NextFrontier(got.frontier, got.visited, links, marriages, alive)

LEMMA RoundsReach ==
    /\ \A v \in Round : /\ EndOf(v) \notin Visited
                        /\ \E w \in got.frontier : \E n \in Around(EndOf(w)) : v = Longer(w, n)
    /\ \A v : /\ \E w \in got.frontier : \E n \in Around(EndOf(w)) : v = Longer(w, n)
              /\ EndOf(v) \notin Visited
              /\ \A w \in got.frontier : \A n \in Around(EndOf(w)) :
                    EndOf(Longer(w, n)) = EndOf(v) => Longer(w, n) = v \/ WayLess(v, Longer(w, n))
              => v \in Round
<1> DEFINE ways == UNION {{Longer(w, n) : n \in Around(EndOf(w))} : w \in got.frontier}
           new  == {w \in ways : EndOf(w) \notin Visited}
<1>1. Round = {w \in new : \A v \in new : EndOf(v) = EndOf(w) => v = w \/ WayLess(w, v)}
  BY DEF Round, NextFrontier, Visited, Around, Longer
<1>2. \A v : v \in ways <=> \E w \in got.frontier : \E n \in Around(EndOf(w)) : v = Longer(w, n)
  OBVIOUS
<1>3. \A v : v \in new <=> v \in ways /\ EndOf(v) \notin Visited
  OBVIOUS
<1> HIDE DEF ways, new
<1> QED
  BY <1>1, <1>2, <1>3

\* The first round reaches everybody at one step.
LEMMA FirstRound ==
    ASSUME alive \subseteq Persons, NEW p \in Persons, got.frontier = {Origin(p)}, got.visited = {Origin(p)},
           NEW n \in Around(p)
    PROVE  \E w \in got.visited \cup Round : EndOf(w) = n[1]
<1>1. CASE n[1] = p
  BY <1>1, OriginIsAWay
<1>2. CASE n[1] # p
  <2>1. Visited = {p}
    BY OriginIsAWay DEF Visited
  <2>2. ASSUME NEW m \in Around(p), m[1] # p
        PROVE  /\ EndOf(Longer(Origin(p), m)) = m[1]
               /\ Longer(Origin(p), m).ids = <<p, m[1]>> /\ Longer(Origin(p), m).edges = <<m[2]>>
               /\ m = <<m[1], m[2]>> /\ m[2] \in DOMAIN EdgeRank
    <3>1. \A i \in 1..Len(Origin(p).ids) : Origin(p).ids[i] # m[1]
      BY <2>2, OriginIsAWay
    <3>2. EndOf(Longer(Origin(p), m)) = m[1]
      BY <2>2, <3>1, OriginIsAWay, WaysGrow
    <3>3. Longer(Origin(p), m).ids = <<p, m[1]>> /\ Longer(Origin(p), m).edges = <<m[2]>>
      BY OneStep
    <3> QED
      BY <3>2, <3>3, AStepIsAPair
  <2>3. PICK m \in Around(p) :
          /\ m[1] = n[1]
          /\ \A k \in Around(p) : k[1] = n[1] => k[2] = m[2] \/ EdgeRank[m[2]] < EdgeRank[k[2]]
    <3>1. \A k \in Around(p) : k = <<k[1], k[2]>> /\ k[2] \in {"child", "parent", "spouse"}
      BY AStepIsAPair DEF EdgeRank
    <3>2. CASE <<n[1], "child">> \in Around(p)
      BY <3>1, <3>2 DEF EdgeRank
    <3>3. CASE <<n[1], "child">> \notin Around(p) /\ <<n[1], "parent">> \in Around(p)
      BY <3>1, <3>3 DEF EdgeRank
    <3>4. CASE <<n[1], "child">> \notin Around(p) /\ <<n[1], "parent">> \notin Around(p)
      BY <3>1, <3>4 DEF EdgeRank
    <3> QED
      BY <3>2, <3>3, <3>4
  <2> DEFINE v == Longer(Origin(p), m)
  <2>4. EndOf(v) = n[1] /\ v.ids = <<p, n[1]>> /\ v.edges = <<m[2]>> /\ m[2] \in DOMAIN EdgeRank
    BY <1>2, <2>2, <2>3
  <2>5. ASSUME NEW k \in Around(p), EndOf(Longer(Origin(p), k)) = n[1]
        PROVE  Longer(Origin(p), k) = v \/ WayLess(v, Longer(Origin(p), k))
    <3>1. k[1] # p
      <4> SUFFICES ASSUME k[1] = p PROVE FALSE
        OBVIOUS
      <4>1. Longer(Origin(p), k).ids = <<p, k[1]>>
        BY OneStep
      <4> QED
        BY <1>2, <2>5, <4>1 DEF EndOf
    <3>2. /\ Longer(Origin(p), k).ids = <<p, n[1]>> /\ Longer(Origin(p), k).edges = <<k[2]>>
          /\ k[1] = n[1] /\ k = <<k[1], k[2]>> /\ k[2] \in DOMAIN EdgeRank
      BY <2>2, <2>5, <3>1
    <3>3. CASE k[2] = m[2]
      <4>1. k = m
        BY <2>2, <2>3, <1>2, <3>2, <3>3
      <4> QED
        BY <4>1
    <3>4. CASE EdgeRank[m[2]] < EdgeRank[k[2]]
      <4> DEFINE one == [i \in DOMAIN <<m[2]>> |-> EdgeRank[<<m[2]>>[i]]]
                 two == [i \in DOMAIN <<k[2]>> |-> EdgeRank[<<k[2]>>[i]]]
      <4>1. 1 \in DOMAIN <<m[2]>> /\ 1 \in DOMAIN <<k[2]>> /\ <<m[2]>>[1] = m[2] /\ <<k[2]>>[1] = k[2]
        OBVIOUS
      <4>2. 1 \in DOMAIN one \cap DOMAIN two /\ one[1] = EdgeRank[m[2]] /\ two[1] = EdgeRank[k[2]]
        BY <4>1
      <4> HIDE DEF one, two
      <4>3. LexLess(one, two)
        BY <3>4, <4>2 DEF LexLess
      <4> QED
        BY <2>4, <3>2, <4>3 DEF WayLess, one, two
    <3> QED
      BY <2>3, <3>2, <3>3, <3>4
  <2>6. Origin(p) \in got.frontier /\ EndOf(Origin(p)) = p
    BY OriginIsAWay
  <2>7. v \in Round
    <3>1. \E w \in got.frontier : \E k \in Around(EndOf(w)) : v = Longer(w, k)
      BY <2>6
    <3>2. EndOf(v) \notin Visited
      BY <1>2, <2>1, <2>4
    <3>3. \A w \in got.frontier : \A k \in Around(EndOf(w)) :
            EndOf(Longer(w, k)) = EndOf(v) => Longer(w, k) = v \/ WayLess(v, Longer(w, k))
      BY <2>4, <2>5, <2>6
    <3> HIDE DEF v
    <3> QED
      BY <3>1, <3>2, <3>3, RoundsReach
  <2> QED
    BY <2>4, <2>7
<1> QED
  BY <1>1, <1>2

\* Nothing in the search changes but by its own statements, unless an editor commits.
LEMMA EditsAreSeen ==
    ASSUME Edit, SearchIInv
    PROVE  sinceMap' # {} /\ read' = read /\ got' = got /\ person' = person /\ alive' \subseteq Persons
<1>1. \A change : Commit(change) => sinceMap' # {} /\ read' = read /\ got' = got /\ person' = person
  BY DEF Commit
<1>2. CASE \E p, q \in Persons : (\E t \in Types : AddLink(p, q, t)) \/ Marry(p, q)
  BY <1>1, <1>2 DEF AddLink, Marry, SearchIInv
<1>3. CASE \E l \in links : RemoveLink(l) \/ \E t \in Types : RetypeLink(l, t)
  BY <1>1, <1>3 DEF RemoveLink, RetypeLink, SearchIInv
<1>4. CASE \E p \in Persons : DeletePerson(p) \/ RestorePerson(p) \/ Designate(p)
  BY <1>1, <1>4 DEF DeletePerson, RestorePerson, Designate, SearchIInv
<1>5. CASE \E m \in marriages : Divorce(m)
  BY <1>1, <1>5 DEF Divorce, SearchIInv
<1> QED
  BY <1>2, <1>3, <1>4, <1>5 DEF Edit

LEMMA AnswersKeepTheRead ==
    ASSUME NEW step, NEW pieces, Answer(step, pieces), DOMAIN read = DOMAIN Idle
    PROVE  /\ read'.kind = read.kind /\ read'.from = read.from /\ read'.to = read.to /\ read'.at = step
           /\ DOMAIN read' = DOMAIN Idle /\ got' = pieces
  BY DEF Answer, Idle

LEMMA SearchKeeps ==
    ASSUME SearchIInv, UNCHANGED <<person, alive, links, marriages>>,
           read'.kind # "path", DOMAIN read' = DOMAIN Idle, DOMAIN got' = DOMAIN Nothing
    PROVE  SearchIInv'
  BY DEF SearchIInv, Born

LEMMA OtherReadsKeep ==
    ASSUME SearchIInv,
           ReadChain \/ ReadFounder \/ ReadMap \/ ReadRows \/ ReadSpouses \/ ReadMore
             \/ ReadExportPersons \/ ReadExportMarriages \/ ReadExportLinks
    PROVE  SearchIInv' /\ read'.kind # "path"
<1>1. read.kind # "path"
  BY DEF SearchIInv, ReadChain, ReadFounder, ReadMap, ReadRows, ReadSpouses, ReadMore,
         ReadExportPersons, ReadExportMarriages, ReadExportLinks, At
<1>2. UNCHANGED <<person, alive, links, marriages>>
  BY DEF Stay, graph, ReadChain, ReadFounder, ReadMap, ReadRows, ReadSpouses, ReadMore,
         ReadExportPersons, ReadExportMarriages, ReadExportLinks
<1>3. DOMAIN read = DOMAIN Idle /\ DOMAIN got = DOMAIN Nothing
  BY DEF SearchIInv
<1>4. read'.kind = read.kind /\ DOMAIN read' = DOMAIN Idle
  <2>1. CASE ReadFounder /\ read.kind = "full"
    BY <1>3, <2>1 DEF ReadFounder, Idle
  <2>2. CASE ~(ReadFounder /\ read.kind = "full")
    <3>1. \E step, pieces : Answer(step, pieces)
      BY <2>2 DEF ReadChain, ReadFounder, ReadMap, ReadRows, ReadSpouses, ReadMore,
             ReadExportPersons, ReadExportMarriages, ReadExportLinks
    <3> QED
      BY <1>3, <3>1, AnswersKeepTheRead
  <2> QED
    BY <2>1, <2>2
<1>5. DOMAIN got' = DOMAIN Nothing
  <2>1. CASE ReadChain
    BY <1>3, <2>1 DEF ReadChain, Answer
  <2>2. CASE ReadFounder
    BY <1>3, <2>2 DEF ReadFounder, Answer
  <2>3. CASE ReadMap
    BY <1>3, <2>3 DEF ReadMap, Answer
  <2>4. CASE ReadRows
    BY <1>3, <2>4 DEF ReadRows, Answer
  <2>5. CASE ReadSpouses \/ ReadMore
    BY <1>3, <2>5 DEF ReadSpouses, ReadMore, Answer
  <2>6. CASE ReadExportPersons \/ ReadExportMarriages \/ ReadExportLinks
    BY <1>3, <2>6 DEF ReadExportPersons, ReadExportMarriages, ReadExportLinks, Answer
  <2> QED
    BY <2>1, <2>2, <2>3, <2>4, <2>5, <2>6
<1> QED
  BY <1>1, <1>2, <1>4, <1>5, SearchKeeps

LEMMA BeginsTheSearch ==
    ASSUME SearchIInv, NEW kind \in Kinds, NEW p \in Persons \cup {None}, NEW q \in Persons \cup {None},
           Begin(kind, p, q)
    PROVE  SearchIInv'
<1>1. /\ read' = [kind |-> kind, at |-> FirstOf(kind), from |-> p, to |-> q]
      /\ UNCHANGED <<person, alive, links, marriages>> /\ alive \subseteq Persons
      /\ DOMAIN read' = DOMAIN Idle /\ DOMAIN got' = DOMAIN Nothing
      /\ read'.kind = kind
  BY DEF Begin, Stay, graph, SearchIInv, Idle
<1>2. CASE kind # "path"
  BY <1>1, <1>2, SearchKeeps
<1>3. CASE kind = "path"
  <2>1. p \in Persons /\ read'.from = p /\ read'.at = "round"
    BY <1>1, <1>3 DEF Begin, FirstOf
  <2>2. got'.visited = {Origin(p)} /\ got'.frontier = {Origin(p)} /\ got'.round = 0
    BY <1>3 DEF Begin, Nothing
  <2>3. WayFrom(p, Origin(p))'
    BY <1>1, <2>1, OriginIsAWay DEF WayFrom, Around
  <2>4. WaysAreVisited'
    <3>1. Visited' = {p}
      BY <2>1, <2>2, OriginIsAWay DEF Visited
    <3>2. \A i \in 1..Len(Origin(p).ids) : Origin(p).ids[i] \in Visited'
      <4>1. Len(Origin(p).ids) = 1 /\ Origin(p).ids[1] = p
        BY <2>1, OriginIsAWay
      <4>2. \A i \in 1..1 : i = 1
        OBVIOUS
      <4> QED
        BY <3>1, <4>1, <4>2
    <3>3. ~(Len(Origin(p).ids) >= 3)
      <4>1. Len(Origin(p).ids) = 1
        BY <2>1, OriginIsAWay
      <4> QED
        BY <4>1
    <3> QED
      BY <2>1, <2>2, <2>3, <3>2, <3>3 DEF WaysAreVisited
  <2>5. ByRounds' /\ TermIsOfTheWay'
    BY <2>1, <2>2 DEF ByRounds, TermIsOfTheWay
  <2> QED
    BY <1>1, <2>1, <2>4, <2>5 DEF SearchIInv, Born
<1> QED
  BY <1>2, <1>3

\* A round adds ways of one step more to people who were not reached before.
LEMMA RoundKeeps == ASSUME SearchIInv, ReadRound PROVE SearchIInv'
<1>1. /\ UNCHANGED <<person, alive, links, marriages, read, sinceMap>> /\ read.at = "round"
      /\ got' = [got EXCEPT !.frontier = Round, !.visited = @ \cup Round, !.round = @ + 1]
  BY DEF ReadRound, Stay, graph, At, Round
<1>2. DOMAIN got' = DOMAIN Nothing
  BY <1>1 DEF SearchIInv
<1>3. got'.frontier = Round /\ got'.visited = got.visited \cup Round /\ got'.round = got.round + 1
  BY <1>1 DEF SearchIInv, Nothing
<1>4. alive \subseteq Persons
  BY DEF SearchIInv
<1>5. CASE read.kind # "path" \/ sinceMap # {}
  BY <1>1, <1>2, <1>5 DEF SearchIInv, Born
<1>6. CASE read.kind = "path" /\ sinceMap = {}
  <2>0. read.from \in Persons /\ WaysAreVisited /\ ByRounds
    BY <1>6 DEF SearchIInv
  <2> DEFINE from == read.from
  <2>1. \A p : Around(p)' = Around(p)
    BY <1>1 DEF Around
  <2>2. \A w : WayFrom(from, w)' <=> WayFrom(from, w)
    BY <1>1, <2>1 DEF WayFrom
  <2>3. Visited' = Visited \cup {EndOf(w) : w \in Round}
    BY <1>3 DEF Visited
  <2>4. ASSUME NEW v \in Round
        PROVE  /\ WayFrom(from, v)
               /\ \A i \in 1..Len(v.ids) : v.ids[i] \in Visited'
               /\ Len(v.ids) >= 2
               /\ Len(v.ids) >= 3 => \A e \in DOMAIN EdgeRank : <<EndOf(v), e>> \notin Around(from)
    <3>0. PICK w \in got.frontier : EndOf(v) \notin Visited /\ \E n \in Around(EndOf(w)) : v = Longer(w, n)
      BY RoundsReach
    <3>1. PICK n \in Around(EndOf(w)) : v = Longer(w, n) /\ EndOf(v) \notin Visited
      BY <3>0
    <3>2. w \in got.visited /\ WayFrom(from, w) /\ \A i \in 1..Len(w.ids) : w.ids[i] \in Visited
      BY <2>0, <3>1 DEF ByRounds, WaysAreVisited
    <3>3. EndOf(v) = n[1]
      BY <1>4, <3>1, <3>2, AStepIsAPair, LongerEnds DEF WayFrom
    <3>4. \A i \in 1..Len(w.ids) : w.ids[i] # n[1]
      BY <3>1, <3>2, <3>3
    <3>5. /\ WayFrom(from, v) /\ Len(v.ids) = Len(w.ids) + 1
          /\ \A i \in 1..Len(w.ids) : v.ids[i] = w.ids[i]
      BY <1>4, <3>1, <3>2, <3>4, WaysGrow
    <3>6. Len(w.ids) \in Nat /\ Len(w.ids) >= 1
      BY <3>2 DEF WayFrom
    <3>7. \A i \in 1..Len(v.ids) : v.ids[i] \in Visited'
      <4>1. v.ids[Len(v.ids)] \in Visited'
        BY <2>3 DEF EndOf
      <4>2. \A i \in 1..Len(v.ids) : i \in 1..Len(w.ids) \/ i = Len(v.ids)
        BY <3>5, <3>6
      <4> QED
        BY <2>3, <3>2, <3>5, <4>1, <4>2
    <3>8. ASSUME Len(v.ids) >= 3, NEW e \in DOMAIN EdgeRank PROVE <<EndOf(v), e>> \notin Around(from)
      <4>1. got.round > 0
        <5>1. Len(w.ids) # 1
          BY <3>5, <3>6, <3>8
        <5>2. w # Origin(from)
          BY <2>0, <5>1, OriginIsAWay
        <5> QED
          BY <2>0, <3>1, <5>2 DEF ByRounds
      <4>2. \A n2 \in Around(from) : n2[1] \in Visited
        BY <2>0, <4>1 DEF ByRounds
      <4> QED
        BY <3>1, <4>2
    <3> QED
      BY <3>5, <3>6, <3>7, <3>8
  <2>5. WaysAreVisited'
    <3> SUFFICES ASSUME NEW w \in got.visited \cup Round
                 PROVE  /\ WayFrom(from, w)
                        /\ \A i \in 1..Len(w.ids) : w.ids[i] \in Visited'
                        /\ Len(w.ids) >= 3 => \A e \in DOMAIN EdgeRank : <<EndOf(w), e>> \notin Around(from)
      BY <1>1, <1>3, <2>1, <2>2 DEF WaysAreVisited
    <3> QED
      BY <2>0, <2>3, <2>4 DEF WaysAreVisited
  <2>6. ByRounds'
    <3>1. got'.round \in Nat /\ got'.round > 0
      BY <1>3, <2>0 DEF ByRounds
    <3>2. \A n \in Around(from) : n[1] \in Visited'
      <4>1. CASE got.round > 0
        BY <2>0, <2>3, <4>1 DEF ByRounds
      <4>2. CASE got.round = 0
        <5>1. got.visited = {Origin(from)} /\ got.frontier = {Origin(from)}
          BY <2>0, <4>2 DEF ByRounds
        <5>2. \A n \in Around(from) : \E w \in got.visited \cup Round : EndOf(w) = n[1]
          BY <1>4, <2>0, <5>1, FirstRound
        <5> QED
          BY <1>3, <5>2 DEF Visited
      <4> QED
        BY <2>0, <4>1, <4>2 DEF ByRounds
    <3> QED
      BY <1>1, <1>3, <2>1, <2>4, <3>1, <3>2 DEF ByRounds
  <2>7. TermIsOfTheWay'
    BY <1>1 DEF TermIsOfTheWay
  <2> QED
    BY <1>1, <1>2, <2>0, <2>5, <2>6, <2>7 DEF SearchIInv, Born
<1> QED
  BY <1>5, <1>6

LEMMA PathsEnd == ASSUME SearchIInv, EndPath PROVE SearchIInv'
<1> DEFINE term == IF Found THEN Describe(TheWay, Gender, Born) ELSE <<>>
<1>1. /\ UNCHANGED <<person, alive, links, marriages, sinceMap>>
      /\ got' = [got EXCEPT !.term = term]
      /\ read'.kind = read.kind /\ read'.from = read.from /\ read'.to = read.to /\ read'.at = "done"
      /\ DOMAIN read' = DOMAIN Idle
  BY AnswersKeepTheRead DEF EndPath, Stay, graph, SearchIInv
<1> HIDE DEF term
<1>2. DOMAIN got' = DOMAIN Nothing
  BY <1>1 DEF SearchIInv
<1>3. /\ got'.visited = got.visited /\ got'.frontier = got.frontier /\ got'.round = got.round
      /\ got'.term = term
  BY <1>1 DEF SearchIInv, Nothing
<1>4. CASE read.kind # "path" \/ sinceMap # {}
  BY <1>1, <1>2, <1>4 DEF SearchIInv, Born
<1>5. CASE read.kind = "path" /\ sinceMap = {}
  <2>1. read.from \in Persons /\ WaysAreVisited /\ ByRounds
    BY <1>5 DEF SearchIInv
  <2>2. WaysAreVisited' /\ ByRounds'
    BY <1>1, <1>3, <2>1 DEF WaysAreVisited, ByRounds, WayFrom, Around, Visited
  <2>3. Found' = Found /\ TheWay' = TheWay /\ Gender' = Gender /\ Born' = Born
    BY <1>1, <1>3 DEF Found, TheWay, Gender, Born
  <2>4. got'.term = IF Found' THEN Describe(TheWay', Gender', Born') ELSE <<>>
    BY <1>3, <2>3 DEF term
  <2>5. TermIsOfTheWay'
    BY <1>1, <2>4 DEF TermIsOfTheWay
  <2> QED
    BY <1>1, <1>2, <2>1, <2>2, <2>5 DEF SearchIInv, Born
<1> QED
  BY <1>4, <1>5

LEMMA NextSearchIInv == ASSUME SearchIInv, [Next]_vars PROVE SearchIInv'
<1>1. CASE Edit
  <2>1. sinceMap' # {} /\ read' = read /\ got' = got /\ person' = person /\ alive' \subseteq Persons
    BY <1>1, EditsAreSeen
  <2> QED
    BY <2>1 DEF SearchIInv, Born
<1>2. CASE \E kind \in Kinds : \E p, q \in Persons \cup {None} : Begin(kind, p, q)
  BY <1>2, BeginsTheSearch
<1>3. CASE ReadRound
  BY <1>3, RoundKeeps
<1>4. CASE EndPath
  BY <1>4, PathsEnd
<1>5. CASE ReadChain \/ ReadFounder \/ ReadMap \/ ReadRows \/ ReadSpouses \/ ReadMore
             \/ ReadExportPersons \/ ReadExportMarriages \/ ReadExportLinks
  BY <1>5, OtherReadsKeep
<1>6. CASE UNCHANGED vars
  BY <1>6 DEF vars, graph, SearchIInv, Born, Gender, WaysAreVisited, ByRounds, TermIsOfTheWay, Found, TheWay,
              WayFrom, Around, Visited
<1> QED
  BY <1>1, <1>2, <1>3, <1>4, <1>5, <1>6 DEF Next, Read

LEMMA SearchInvariant == Spec => []SearchIInv
<1>1. Init => SearchIInv
  BY BirthsAreNumbers DEF Init, SearchIInv, Born, Idle
<1>2. SearchIInv /\ [Next]_vars => SearchIInv'
  BY NextSearchIInv
<1> QED
  BY <1>1, <1>2, PTL DEF Spec

LEMMA Ages ==
    ASSUME NEW p \in Persons, NEW q \in Persons, \A r \in Persons : Born[r] \in Nat,
           AgeRank(Born, p, q) # "unknown"
    PROVE  Older(AgeRank(Born, p, q), p, q)
<1>1. Born[p] \in Nat /\ Born[q] \in Nat
  OBVIOUS
<1>2. Born[p] # 0 /\ Born[q] # 0 /\ Born[p] # Born[q]
  <2>1. Born[p] = 0 \/ Born[q] = 0 \/ Born[p] = Born[q] => AgeRank(Born, p, q) = "unknown"
    BY DEF AgeRank
  <2> QED
    BY <2>1
<1>3. CASE Born[p] < Born[q]
  <2>1. AgeRank(Born, p, q) = "older"
    BY <1>2, <1>3 DEF AgeRank
  <2> QED
    BY <1>2, <1>3, <2>1 DEF Older
<1>4. CASE ~(Born[p] < Born[q])
  <2>1. AgeRank(Born, p, q) = "younger"
    BY <1>2, <1>4 DEF AgeRank
  <2>2. Born[p] > Born[q]
    BY <1>1, <1>2, <1>4
  <2> QED
    BY <1>2, <2>1, <2>2 DEF Older
<1> QED
  BY <1>3, <1>4

LEMMA Sides ==
    ASSUME NEW p, Side(Gender, p) # "unknown"
    PROVE  /\ Through(Side(Gender, p), p)
           /\ Side(Gender, p) = "paternal" \/ Side(Gender, p) = "maternal"
  BY DEF Side, Through, Is

\* What a step of a way says.
LEMMA StepsMean ==
    ASSUME NEW p, NEW w, WayFrom(p, w), NEW i \in 1..Len(w.edges), alive \subseteq Persons
    PROVE  /\ w.ids[i + 1] \in Persons /\ w.ids[i] \in Persons /\ w.ids[i + 1] \in alive
           /\ w.edges[i] = "parent" => ParentOf(w.ids[i + 1], w.ids[i])
           /\ w.edges[i] = "child" => ParentOf(w.ids[i], w.ids[i + 1])
           /\ w.edges[i] = "spouse" => Wed(w.ids[i], w.ids[i + 1])
<1>1. <<w.ids[i + 1], w.edges[i]>> \in Around(w.ids[i])
  BY DEF WayFrom
<1>2. w.ids[i + 1] \in Persons /\ w.ids[i] \in Persons
  BY DEF WayFrom
<1> QED
  BY <1>1, <1>2, AStepIsAPair DEF Around, Neighbours, ParentOf, Wed, Pair, Kids, Elders

LEMMA ParentsAreAround ==
    ASSUME NEW p, NEW q \in alive, ParentOf(q, p)
    PROVE  <<q, "parent">> \in Around(p)
  BY DEF Around, Neighbours, ParentOf, EdgeRank

\* Every term the path gets is the kind of one of these ways.
LEMMA TermMeans ==
    ASSUME alive \subseteq Persons, \A r \in Persons : Born[r] \in Nat,
           NEW s \in Persons, NEW w, WayFrom(s, w),
           Len(w.ids) >= 3 => \A e \in DOMAIN EdgeRank : <<EndOf(w), e>> \notin Around(s),
           "gender" \in DOMAIN Describe(w, Gender, Born)
    PROVE  Means(Describe(w, Gender, Born), s, EndOf(w))
<1> DEFINE k == SpecificKey(w, Gender, Born)
           t == EndOf(w)
           p == w.ids[2]
           Key(kind, sd, age) == [kind |-> kind, gender |-> Gender[t], side |-> sd, age |-> age]
<1>1. Describe(w, Gender, Born) = k /\ Specific(k)
  BY DEF Describe
<1>2. k.kind # "none" /\ k.side # "unknown" /\ k.age # "unknown"
  BY <1>1 DEF Specific
<1>3. w.ids \in Seq(Persons) /\ w.edges \in Seq(DOMAIN EdgeRank) /\ Len(w.ids) = Len(w.edges) + 1 /\ w.ids[1] = s
      /\ t = w.ids[Len(w.ids)]
      /\ \A i, j \in 1..Len(w.ids) : w.ids[i] = w.ids[j] => i = j
  BY DEF WayFrom, EndOf
<1>4. CASE w.edges = <<"parent">>
  <2>1. /\ Len(w.edges) = 1
        /\ w.edges[1] = "parent"
        /\ 1 \in 1..Len(w.edges)
    BY <1>4
  <2>2. t = w.ids[2] /\ 1 \in 1..Len(w.ids) /\ 2 \in 1..Len(w.ids)
    BY <1>3, <2>1
  <2>3. /\ ParentOf(t, s)
        /\ t \in Persons
    BY <1>3, <2>1, <2>2, StepsMean
  <2>5. k = Key("parent", "any", "any")
    BY <1>4 DEF SpecificKey
  <2> QED
    BY <1>1, <2>3, <2>5 DEF Means
<1>5. CASE w.edges = <<"child">>
  <2>1. /\ Len(w.edges) = 1
        /\ w.edges[1] = "child"
        /\ 1 \in 1..Len(w.edges)
    BY <1>5
  <2>2. t = w.ids[2] /\ 1 \in 1..Len(w.ids) /\ 2 \in 1..Len(w.ids)
    BY <1>3, <2>1
  <2>3. /\ ParentOf(s, t)
        /\ t \in Persons
    BY <1>3, <2>1, <2>2, StepsMean
  <2>5. k = Key("child", "any", "any")
    BY <1>5 DEF SpecificKey
  <2> QED
    BY <1>1, <2>3, <2>5 DEF Means
<1>6. CASE w.edges = <<"spouse">>
  <2>1. /\ Len(w.edges) = 1
        /\ w.edges[1] = "spouse"
        /\ 1 \in 1..Len(w.edges)
    BY <1>6
  <2>2. t = w.ids[2] /\ 1 \in 1..Len(w.ids) /\ 2 \in 1..Len(w.ids)
    BY <1>3, <2>1
  <2>3. /\ Wed(s, t)
        /\ t \in Persons
    BY <1>3, <2>1, <2>2, StepsMean
  <2>5. k = Key("spouse", "any", "any")
    BY <1>6 DEF SpecificKey
  <2> QED
    BY <1>1, <2>3, <2>5 DEF Means
<1>7. CASE w.edges = <<"parent", "child">>
  <2>1. /\ Len(w.edges) = 2
        /\ w.edges[1] = "parent" /\ w.edges[2] = "child"
        /\ 1 \in 1..Len(w.edges) /\ 2 \in 1..Len(w.edges)
    BY <1>7
  <2>2. t = w.ids[3] /\ 1 \in 1..Len(w.ids) /\ 2 \in 1..Len(w.ids) /\ 3 \in 1..Len(w.ids)
    BY <1>3, <2>1
  <2>3. /\ ParentOf(p, s) /\ ParentOf(p, t)
        /\ p \in Persons /\ t \in Persons
    <3>1. ParentOf(p, s) /\ p \in Persons
      BY <1>3, <2>1, <2>2, StepsMean
    <3>2. ParentOf(p, t) /\ t \in Persons
      BY <1>3, <2>1, <2>2, StepsMean
    <3> QED
      BY <3>1, <3>2
  <2>4. t # s
    BY <1>3, <2>2
  <2>5. k = Key("sibling", "any", AgeRank(Born, t, s))
    BY <1>3, <1>7 DEF SpecificKey
  <2> HIDE DEF k
  <2>6. k.kind = "sibling" /\ k.age = AgeRank(Born, t, s)
    BY <2>5
  <2>7. Older(k.age, t, s)
    BY <1>2, <2>3, <2>6, Ages
  <2> QED
    BY <1>1, <2>3, <2>4, <2>6, <2>7 DEF Means, SiblingOf
<1>8. CASE w.edges = <<"child", "child">>
  <2>1. /\ Len(w.edges) = 2
        /\ w.edges[1] = "child" /\ w.edges[2] = "child"
        /\ 1 \in 1..Len(w.edges) /\ 2 \in 1..Len(w.edges)
    BY <1>8
  <2>2. t = w.ids[3] /\ 1 \in 1..Len(w.ids) /\ 2 \in 1..Len(w.ids) /\ 3 \in 1..Len(w.ids)
    BY <1>3, <2>1
  <2>3. /\ ParentOf(s, p) /\ ParentOf(p, t)
        /\ p \in Persons /\ t \in Persons
    <3>1. ParentOf(s, p) /\ p \in Persons
      BY <1>3, <2>1, <2>2, StepsMean
    <3>2. ParentOf(p, t) /\ t \in Persons
      BY <1>3, <2>1, <2>2, StepsMean
    <3> QED
      BY <3>1, <3>2
  <2>5. k = Key("grandchild", "any", "any")
    BY <1>8 DEF SpecificKey
  <2> QED
    BY <1>1, <2>3, <2>5 DEF Means
<1>9. CASE w.edges = <<"parent", "parent">>
  <2>1. /\ Len(w.edges) = 2
        /\ w.edges[1] = "parent" /\ w.edges[2] = "parent"
        /\ 1 \in 1..Len(w.edges) /\ 2 \in 1..Len(w.edges)
    BY <1>9
  <2>2. t = w.ids[3] /\ 1 \in 1..Len(w.ids) /\ 2 \in 1..Len(w.ids) /\ 3 \in 1..Len(w.ids)
    BY <1>3, <2>1
  <2>3. /\ ParentOf(p, s) /\ ParentOf(t, p)
        /\ p \in Persons /\ t \in Persons
    <3>1. ParentOf(p, s) /\ p \in Persons
      BY <1>3, <2>1, <2>2, StepsMean
    <3>2. ParentOf(t, p) /\ t \in Persons
      BY <1>3, <2>1, <2>2, StepsMean
    <3> QED
      BY <3>1, <3>2
  <2>5. k = Key("grandparent", Side(Gender, p), "any")
    BY <1>9 DEF SpecificKey
  <2> HIDE DEF k
  <2>6. k.kind = "grandparent" /\ k.side = Side(Gender, p)
    BY <2>5
  <2>7. Through(k.side, p)
    BY <1>2, <2>6, Sides
  <2> QED
    BY <1>1, <2>3, <2>6, <2>7 DEF Means
<1>10. CASE w.edges = <<"parent", "parent", "child">>
  <2>1. /\ Len(w.edges) = 3
        /\ w.edges[1] = "parent" /\ w.edges[2] = "parent" /\ w.edges[3] = "child"
        /\ 1 \in 1..Len(w.edges) /\ 2 \in 1..Len(w.edges) /\ 3 \in 1..Len(w.edges)
    BY <1>10
  <2>2. t = w.ids[4] /\ 1 \in 1..Len(w.ids) /\ 2 \in 1..Len(w.ids) /\ 3 \in 1..Len(w.ids) /\ 4 \in 1..Len(w.ids)
    BY <1>3, <2>1
  <2>3. /\ ParentOf(p, s) /\ ParentOf(w.ids[3], p) /\ ParentOf(w.ids[3], t)
        /\ p \in Persons /\ w.ids[3] \in Persons /\ t \in Persons
    <3>1. ParentOf(p, s) /\ p \in Persons
      BY <1>3, <2>1, <2>2, StepsMean
    <3>2. ParentOf(w.ids[3], p) /\ w.ids[3] \in Persons
      BY <1>3, <2>1, <2>2, StepsMean
    <3>3. ParentOf(w.ids[3], t) /\ t \in Persons
      <4>1. t = w.ids[3 + 1] /\ 3 \in 1..Len(w.edges) /\ w.edges[3] = "child"
        BY <2>1, <2>2
      <4> QED
        BY <4>1, StepsMean
    <3> QED
      BY <3>1, <3>2, <3>3
  <2>4. t # p
    BY <1>3, <2>2
  <2>5. k = Key("uncle_aunt", Side(Gender, p), IF Side(Gender, p) = "paternal" THEN AgeRank(Born, t, p) ELSE "any")
    BY <1>10 DEF SpecificKey
  <2> HIDE DEF k
  <2>6. k.kind = "uncle_aunt" /\ k.side = Side(Gender, p) /\ (k.side = "paternal" => k.age = AgeRank(Born, t, p))
    BY <2>5
  <2>7. Through(k.side, p) /\ (k.side = "paternal" => Older(k.age, t, p))
    BY <1>2, <2>3, <2>6, Sides, Ages
  <2> QED
    BY <1>1, <2>3, <2>4, <2>6, <2>7 DEF Means, SiblingOf
<1>11. CASE w.edges = <<"parent", "parent", "child", "child">>
  <2>1. /\ Len(w.edges) = 4
        /\ w.edges[1] = "parent" /\ w.edges[2] = "parent" /\ w.edges[3] = "child" /\ w.edges[4] = "child"
        /\ 1 \in 1..Len(w.edges) /\ 2 \in 1..Len(w.edges) /\ 3 \in 1..Len(w.edges) /\ 4 \in 1..Len(w.edges)
    BY <1>11
  <2>2. t = w.ids[5] /\ 1 \in 1..Len(w.ids) /\ 2 \in 1..Len(w.ids) /\ 3 \in 1..Len(w.ids) /\ 4 \in 1..Len(w.ids) /\ 5 \in 1..Len(w.ids)
    BY <1>3, <2>1
  <2>3. /\ ParentOf(p, s) /\ ParentOf(w.ids[3], p) /\ ParentOf(w.ids[3], w.ids[4]) /\ ParentOf(w.ids[4], t)
        /\ p \in Persons /\ w.ids[3] \in Persons /\ w.ids[4] \in Persons /\ t \in Persons
    <3>1. ParentOf(p, s) /\ p \in Persons
      BY <1>3, <2>1, <2>2, StepsMean
    <3>2. ParentOf(w.ids[3], p) /\ w.ids[3] \in Persons
      BY <1>3, <2>1, <2>2, StepsMean
    <3>3. ParentOf(w.ids[3], w.ids[4]) /\ w.ids[4] \in Persons
      <4>1. w.ids[4] = w.ids[3 + 1] /\ 3 \in 1..Len(w.edges) /\ w.edges[3] = "child"
        BY <2>1, <2>2
      <4> QED
        BY <4>1, StepsMean
    <3>4. ParentOf(w.ids[4], t) /\ t \in Persons
      <4>1. t = w.ids[4 + 1] /\ 4 \in 1..Len(w.edges) /\ w.edges[4] = "child"
        BY <2>1, <2>2
      <4> QED
        BY <4>1, StepsMean
    <3> QED
      BY <3>1, <3>2, <3>3, <3>4
  <2>4. w.ids[4] # p
    BY <1>3, <2>2
  <2>5. k = Key("cousin", "any", AgeRank(Born, t, s))
    BY <1>3, <1>11 DEF SpecificKey
  <2> HIDE DEF k
  <2>6. k.kind = "cousin" /\ k.age = AgeRank(Born, t, s)
    BY <2>5
  <2>7. Older(k.age, t, s)
    BY <1>2, <2>3, <2>6, Ages
  <2> QED
    BY <1>1, <2>3, <2>4, <2>6, <2>7 DEF Means, SiblingOf
<1>12. CASE w.edges = <<"parent", "parent", "parent">>
  <2>1. /\ Len(w.edges) = 3
        /\ w.edges[1] = "parent" /\ w.edges[2] = "parent" /\ w.edges[3] = "parent"
        /\ 1 \in 1..Len(w.edges) /\ 2 \in 1..Len(w.edges) /\ 3 \in 1..Len(w.edges)
    BY <1>12
  <2>2. t = w.ids[4] /\ 1 \in 1..Len(w.ids) /\ 2 \in 1..Len(w.ids) /\ 3 \in 1..Len(w.ids) /\ 4 \in 1..Len(w.ids)
    BY <1>3, <2>1
  <2>3. /\ ParentOf(p, s) /\ ParentOf(w.ids[3], p) /\ ParentOf(t, w.ids[3])
        /\ p \in Persons /\ w.ids[3] \in Persons /\ t \in Persons
    <3>1. ParentOf(p, s) /\ p \in Persons
      BY <1>3, <2>1, <2>2, StepsMean
    <3>2. ParentOf(w.ids[3], p) /\ w.ids[3] \in Persons
      BY <1>3, <2>1, <2>2, StepsMean
    <3>3. ParentOf(t, w.ids[3]) /\ t \in Persons
      <4>1. t = w.ids[3 + 1] /\ 3 \in 1..Len(w.edges) /\ w.edges[3] = "parent"
        BY <2>1, <2>2
      <4> QED
        BY <4>1, StepsMean
    <3> QED
      BY <3>1, <3>2, <3>3
  <2>5. k = Key("great_grandparent", Side(Gender, p), "any")
    BY <1>12 DEF SpecificKey
  <2> HIDE DEF k
  <2>6. k.kind = "great_grandparent" /\ k.side = Side(Gender, p)
    BY <2>5
  <2>7. Through(k.side, p)
    BY <1>2, <2>6, Sides
  <2> QED
    BY <1>1, <2>3, <2>6, <2>7 DEF Means
<1>13. CASE w.edges = <<"parent", "spouse">>
  <2>1. /\ Len(w.edges) = 2
        /\ w.edges[1] = "parent" /\ w.edges[2] = "spouse"
        /\ 1 \in 1..Len(w.edges) /\ 2 \in 1..Len(w.edges)
    BY <1>13
  <2>2. t = w.ids[3] /\ 1 \in 1..Len(w.ids) /\ 2 \in 1..Len(w.ids) /\ 3 \in 1..Len(w.ids)
    BY <1>3, <2>1
  <2>3. /\ ParentOf(p, s) /\ Wed(p, t)
        /\ p \in Persons /\ t \in Persons
    <3>1. ParentOf(p, s) /\ p \in Persons
      BY <1>3, <2>1, <2>2, StepsMean
    <3>2. Wed(p, t) /\ t \in Persons
      BY <1>3, <2>1, <2>2, StepsMean
    <3> QED
      BY <3>1, <3>2
  <2>5. k = Key("step_parent", "any", "any")
    BY <1>13 DEF SpecificKey
  <2>6. ~ParentOf(t, s)
    <3>1. 3 = 2 + 1
      OBVIOUS
    <3>2. t \in alive
      BY <2>1, <2>2, <3>1, StepsMean
    <3>3. <<t, "parent">> \notin Around(s)
      <4>1. Len(w.ids) >= 3 /\ "parent" \in DOMAIN EdgeRank
        BY <1>3, <2>1 DEF EdgeRank
      <4> QED
        BY <4>1
    <3> QED
      BY <3>2, <3>3, ParentsAreAround
  <2> QED
    BY <1>1, <2>3, <2>5, <2>6 DEF Means
<1>14. CASE w.edges = <<"spouse", "parent">>
  <2>1. /\ Len(w.edges) = 2
        /\ w.edges[1] = "spouse" /\ w.edges[2] = "parent"
        /\ 1 \in 1..Len(w.edges) /\ 2 \in 1..Len(w.edges)
    BY <1>14
  <2>2. t = w.ids[3] /\ 1 \in 1..Len(w.ids) /\ 2 \in 1..Len(w.ids) /\ 3 \in 1..Len(w.ids)
    BY <1>3, <2>1
  <2>3. /\ Wed(s, p) /\ ParentOf(t, p)
        /\ p \in Persons /\ t \in Persons
    <3>1. Wed(s, p) /\ p \in Persons
      BY <1>3, <2>1, <2>2, StepsMean
    <3>2. ParentOf(t, p) /\ t \in Persons
      BY <1>3, <2>1, <2>2, StepsMean
    <3> QED
      BY <3>1, <3>2
  <2>5. k = Key("parent_in_law", Side(Gender, p), "any")
    BY <1>14 DEF SpecificKey
  <2> HIDE DEF k
  <2>6. k.kind = "parent_in_law" /\ k.side = Side(Gender, p)
    BY <2>5
  <2>7. Through(k.side, p)
    BY <1>2, <2>6, Sides
  <2> QED
    BY <1>1, <2>3, <2>6, <2>7 DEF Means
<1>15. CASE w.edges = <<"child", "spouse">>
  <2>1. /\ Len(w.edges) = 2
        /\ w.edges[1] = "child" /\ w.edges[2] = "spouse"
        /\ 1 \in 1..Len(w.edges) /\ 2 \in 1..Len(w.edges)
    BY <1>15
  <2>2. t = w.ids[3] /\ 1 \in 1..Len(w.ids) /\ 2 \in 1..Len(w.ids) /\ 3 \in 1..Len(w.ids)
    BY <1>3, <2>1
  <2>3. /\ ParentOf(s, p) /\ Wed(p, t)
        /\ p \in Persons /\ t \in Persons
    <3>1. ParentOf(s, p) /\ p \in Persons
      BY <1>3, <2>1, <2>2, StepsMean
    <3>2. Wed(p, t) /\ t \in Persons
      BY <1>3, <2>1, <2>2, StepsMean
    <3> QED
      BY <3>1, <3>2
  <2>5. k = IF {Gender[p], Gender[t]} = {"male", "female"} THEN Key("child_in_law", "any", "any")
             ELSE Key("none", "any", "any")
    BY <1>15 DEF SpecificKey
  <2>6. Key("none", "any", "any").kind = "none" /\ Key("child_in_law", "any", "any").kind = "child_in_law"
    OBVIOUS
  <2> HIDE DEF k, Key
  <2>7. {Gender[p], Gender[t]} = {"male", "female"}
    BY <1>2, <2>5, <2>6
  <2>8. k.kind = "child_in_law" /\ Gender[p] # Gender[t]
    BY <2>5, <2>6, <2>7
  <2> QED
    BY <1>1, <2>3, <2>8 DEF Means
<1>16. CASE w.edges = <<"parent", "parent", "child", "spouse">>
  <2>1. /\ Len(w.edges) = 4
        /\ w.edges[1] = "parent" /\ w.edges[2] = "parent" /\ w.edges[3] = "child" /\ w.edges[4] = "spouse"
        /\ 1 \in 1..Len(w.edges) /\ 2 \in 1..Len(w.edges) /\ 3 \in 1..Len(w.edges) /\ 4 \in 1..Len(w.edges)
    BY <1>16
  <2>2. t = w.ids[5] /\ 1 \in 1..Len(w.ids) /\ 2 \in 1..Len(w.ids) /\ 3 \in 1..Len(w.ids) /\ 4 \in 1..Len(w.ids) /\ 5 \in 1..Len(w.ids)
    BY <1>3, <2>1
  <2>3. /\ ParentOf(p, s) /\ ParentOf(w.ids[3], p) /\ ParentOf(w.ids[3], w.ids[4]) /\ Wed(w.ids[4], t)
        /\ p \in Persons /\ w.ids[3] \in Persons /\ w.ids[4] \in Persons /\ t \in Persons
    <3>1. ParentOf(p, s) /\ p \in Persons
      BY <1>3, <2>1, <2>2, StepsMean
    <3>2. ParentOf(w.ids[3], p) /\ w.ids[3] \in Persons
      BY <1>3, <2>1, <2>2, StepsMean
    <3>3. ParentOf(w.ids[3], w.ids[4]) /\ w.ids[4] \in Persons
      <4>1. w.ids[4] = w.ids[3 + 1] /\ 3 \in 1..Len(w.edges) /\ w.edges[3] = "child"
        BY <2>1, <2>2
      <4> QED
        BY <4>1, StepsMean
    <3>4. Wed(w.ids[4], t) /\ t \in Persons
      <4>1. t = w.ids[4 + 1] /\ 4 \in 1..Len(w.edges) /\ w.edges[4] = "spouse"
        BY <2>1, <2>2
      <4> QED
        BY <4>1, StepsMean
    <3> QED
      BY <3>1, <3>2, <3>3, <3>4
  <2>4. w.ids[4] # p
    BY <1>3, <2>2
  <2>5. k = IF {Gender[w.ids[4]], Gender[t]} # {"male", "female"} THEN Key("none", "any", "any")
             ELSE IF Gender[t] = "male" THEN Key("uncle_in_law", Side(Gender, p), "any")
             ELSE Key("aunt_in_law", Side(Gender, p),
                      IF Side(Gender, p) = "paternal" THEN AgeRank(Born, w.ids[4], p) ELSE "any")
    BY <1>16 DEF SpecificKey
  <2> HIDE DEF k
  <2>6. /\ k.kind \in {"uncle_in_law", "aunt_in_law"} /\ k.side = Side(Gender, p)
        /\ k.kind = "aunt_in_law" /\ k.side = "paternal" => k.age = AgeRank(Born, w.ids[4], p)
    BY <1>2, <2>5
  <2>7. Through(k.side, p) /\ (k.kind = "aunt_in_law" /\ k.side = "paternal" => Older(k.age, w.ids[4], p))
    BY <1>2, <2>3, <2>6, Sides, Ages
  <2> QED
    BY <1>1, <2>3, <2>4, <2>6, <2>7 DEF Means, SiblingOf
<1>17. CASE w.edges \notin
         {<<"parent">>,
          <<"child">>,
          <<"spouse">>,
          <<"parent", "child">>,
          <<"child", "child">>,
          <<"parent", "parent">>,
          <<"parent", "parent", "child">>,
          <<"parent", "parent", "child", "child">>,
          <<"parent", "parent", "parent">>,
          <<"parent", "spouse">>,
          <<"spouse", "parent">>,
          <<"child", "spouse">>,
          <<"parent", "parent", "child", "spouse">>}
  <2>1. k = Key("none", "any", "any")
    BY <1>17 DEF SpecificKey
  <2> QED
    BY <1>2, <2>1
<1> QED
  BY <1>4, <1>5, <1>6, <1>7, <1>8, <1>9, <1>10, <1>11, <1>12, <1>13, <1>14, <1>15, <1>16, <1>17

\* "Never wrong, only less specific": what a specific term of an undisturbed search says
\* holds in the graph, whatever the graph, the sides, the ages and the ways in it are
\* (relationship_descriptor.py; find_relationship_path of migration 024).
THEOREM TermAlwaysHolds == Spec => []TermHolds
<1>1. SearchIInv => TermHolds
  <2> SUFFICES ASSUME SearchIInv, read.kind = "path", read.at = "done", sinceMap = {}, Found,
                      "gender" \in DOMAIN got.term
               PROVE  Means(got.term, read.from, read.to)
    BY DEF TermHolds
  <2>1. got.term = Describe(TheWay, Gender, Born) /\ WaysAreVisited /\ read.from \in Persons
        /\ alive \subseteq Persons /\ \A p \in Persons : Born[p] \in Nat
    BY DEF SearchIInv, TermIsOfTheWay
  <2>2. TheWay \in got.visited /\ EndOf(TheWay) = read.to
    BY DEF Found, TheWay
  <2>3. WayFrom(read.from, TheWay)
        /\ (Len(TheWay.ids) >= 3 => \A e \in DOMAIN EdgeRank : <<EndOf(TheWay), e>> \notin Around(read.from))
    BY <2>1, <2>2 DEF WaysAreVisited
  <2> QED
    BY <2>1, <2>2, <2>3, TermMeans
<1> QED
  BY <1>1, SearchInvariant, PTL
-----------------------------------------------------------------------------
(* The path is the first of the shortest *)

\* A walk goes from person to person and may meet one twice.
Walk(p, ids) ==
    /\ ids \in Seq(Persons) /\ Len(ids) >= 1 /\ ids[1] = p
    /\ \A i \in 1..(Len(ids) - 1) : \E e \in DOMAIN EdgeRank : <<ids[i + 1], e>> \in Around(ids[i])

\* Nothing that the search has reached is reached sooner, or by lower ids.
LeastFirst ==
    \A ids : Walk(read.from, ids) /\ Len(ids) <= got.round + 1 =>
        /\ ids[Len(ids)] \in Visited
        /\ \A w \in got.visited : EndOf(w) = ids[Len(ids)] =>
              \/ Len(w.ids) < Len(ids)
              \/ Len(w.ids) = Len(ids) /\ ~LexLess(ids, w.ids)

\* The frontier is what the last round has reached; whoever is next to the others is reached.
FrontierIsLast ==
    /\ IsFiniteSet(got.frontier)
    /\ got.round <= MaxPath
    /\ \A w \in got.visited : Len(w.ids) <= got.round + 1
    /\ \A w \in got.frontier : Len(w.ids) = got.round + 1
    /\ \A w \in got.visited \ got.frontier : \A n \in Around(EndOf(w)) : n[1] \in Visited

ShortestIInv ==
    read.kind = "path" /\ sinceMap = {} =>
        /\ read.to \in Persons /\ read.to # read.from
        /\ LeastFirst /\ FrontierIsLast
        /\ read.at = "done" => ~Searching

\* The order of tuples of one length

LEMMA LexOfOneLength ==
    ASSUME NEW a \in Seq(Nat), NEW b \in Seq(Nat), Len(a) = Len(b)
    PROVE  LexLess(a, b) <=> \E i \in 1..Len(a) : a[i] < b[i] /\ \A j \in 1..(i - 1) : a[j] = b[j]
<1>1. DOMAIN a = 1..Len(a) /\ DOMAIN b = 1..Len(a)
  OBVIOUS
<1> QED
  BY <1>1 DEF LexLess

LEMMA LexIsTotal ==
    ASSUME NEW a \in Seq(Nat), NEW b \in Seq(Nat), Len(a) = Len(b), a # b
    PROVE  LexLess(a, b) \/ LexLess(b, a)
<1> DEFINE D == {i \in 1..Len(a) : a[i] # b[i]}
<1>1. Len(a) \in Nat /\ \A i \in 1..Len(a) : a[i] \in Nat /\ b[i] \in Nat
  OBVIOUS
<1>2. D \in SUBSET Nat /\ D # {}
  <2>1. \E i \in 1..Len(a) : a[i] # b[i]
    BY SeqEqual
  <2>2. D # {}
    BY <2>1
  <2>3. \A i \in 1..Len(a) : i \in Nat
    OBVIOUS
  <2> QED
    BY <2>2, <2>3
<1>3. PICK i \in D : \A j \in D : i <= j
  BY <1>2, LeastNumber
<1>4. \A j \in 1..(i - 1) : a[j] = b[j]
  <2> SUFFICES ASSUME NEW j \in 1..(i - 1) PROVE a[j] = b[j]
    OBVIOUS
  <2>1. j \in 1..Len(a) /\ ~(i <= j)
    BY <1>1, <1>3
  <2> QED
    BY <1>3, <2>1
<1>5. a[i] < b[i] \/ b[i] < a[i]
  BY <1>1, <1>3
<1> QED
  BY <1>3, <1>4, <1>5, LexOfOneLength

LEMMA LexIsStrict ==
    ASSUME NEW a \in Seq(Nat)
    PROVE  ~LexLess(a, a)
<1>1. \A i \in 1..Len(a) : a[i] \in Nat
  OBVIOUS
<1> QED
  BY <1>1, LexOfOneLength

LEMMA LexIsTransitive ==
    ASSUME NEW a \in Seq(Nat), NEW b \in Seq(Nat), NEW c \in Seq(Nat), Len(a) = Len(b), Len(b) = Len(c),
           LexLess(a, b), LexLess(b, c)
    PROVE  LexLess(a, c)
<1>1. PICK i \in 1..Len(a) : a[i] < b[i] /\ \A j \in 1..(i - 1) : a[j] = b[j]
  BY LexOfOneLength
<1>2. PICK k \in 1..Len(a) : b[k] < c[k] /\ \A j \in 1..(k - 1) : b[j] = c[j]
  BY LexOfOneLength
<1>3. Len(a) \in Nat /\ \A j \in 1..Len(a) : a[j] \in Nat /\ b[j] \in Nat /\ c[j] \in Nat
  <2>1. Len(a) \in Nat /\ \A j \in 1..Len(a) : a[j] \in Nat
    BY ElementOfSeq, LenProperties
  <2>2. \A j \in 1..Len(b) : b[j] \in Nat
    BY ElementOfSeq
  <2>3. \A j \in 1..Len(c) : c[j] \in Nat
    BY ElementOfSeq
  <2> QED
    BY <2>1, <2>2, <2>3
<1>4. CASE i <= k
  <2>1. a[i] < c[i]
    <3>1. CASE i = k
      BY <1>1, <1>2, <1>3, <3>1
    <3>2. CASE i < k
      <4>1. i \in 1..(k - 1)
        BY <1>1, <1>2, <3>2
      <4> QED
        BY <1>1, <1>2, <4>1
    <3> QED
      BY <1>4, <3>1, <3>2
  <2>2. \A j \in 1..(i - 1) : j \in 1..(k - 1)
    BY <1>4
  <2>3. \A j \in 1..(i - 1) : a[j] = c[j]
    BY <1>1, <1>2, <2>2
  <2> QED
    BY <2>1, <2>3, LexOfOneLength
<1>5. CASE k < i
  <2>1. k \in 1..(i - 1)
    BY <1>5
  <2>2. a[k] < c[k]
    BY <1>1, <1>2, <2>1
  <2>3. \A j \in 1..(k - 1) : j \in 1..(i - 1)
    BY <1>5
  <2>4. \A j \in 1..(k - 1) : a[j] = c[j]
    BY <1>1, <1>2, <2>3
  <2> QED
    BY <2>2, <2>4, LexOfOneLength
<1> QED
  BY <1>4, <1>5

\* A last number that they share tells nothing.
LEMMA LexOfAppend ==
    ASSUME NEW a \in Seq(Nat), NEW b \in Seq(Nat), Len(a) = Len(b), NEW n \in Nat,
           LexLess(Append(a, n), Append(b, n))
    PROVE  LexLess(a, b)
<1> DEFINE x == Append(a, n)
           y == Append(b, n)
<1>1. /\ x \in Seq(Nat) /\ Len(x) = Len(a) + 1 /\ x[Len(a) + 1] = n /\ \A i \in 1..Len(a) : x[i] = a[i]
      /\ y \in Seq(Nat) /\ Len(y) = Len(a) + 1 /\ y[Len(a) + 1] = n /\ \A i \in 1..Len(a) : y[i] = b[i]
  BY AppendProperties
<1> HIDE DEF x, y
<1>2. PICK i \in 1..Len(x) : x[i] < y[i] /\ \A j \in 1..(i - 1) : x[j] = y[j]
  BY <1>1, LexOfOneLength DEF x, y
<1>3. Len(a) \in Nat
  OBVIOUS
<1>4. i \in 1..Len(a)
  <2>1. i # Len(a) + 1
    BY <1>1, <1>2
  <2> QED
    BY <1>1, <1>2, <1>3, <2>1
<1>5. a[i] < b[i]
  BY <1>1, <1>2, <1>4
<1>6. \A j \in 1..(i - 1) : a[j] = b[j]
  <2>1. \A j \in 1..(i - 1) : j \in 1..Len(a)
    BY <1>3, <1>4
  <2> QED
    BY <1>1, <1>2, <2>1
<1> QED
  BY <1>4, <1>5, <1>6, LexOfOneLength

\* A finite order has a least element.
LEMMA LeastOfAnOrder ==
    ASSUME NEW T, IsFiniteSet(T), T # {}, NEW R,
           \A x \in T : <<x, x>> \notin R,
           \A x, y, z \in T : <<x, y>> \in R /\ <<y, z>> \in R => <<x, z>> \in R
    PROVE  \E x \in T : \A y \in T : <<y, x>> \notin R
<1> DEFINE D(x) == {y \in T : <<y, x>> \in R}
           S == {Cardinality(D(x)) : x \in T}
<1>1. \A x \in T : IsFiniteSet(D(x)) /\ Cardinality(D(x)) \in Nat
  <2> SUFFICES ASSUME NEW x \in T PROVE IsFiniteSet(D(x)) /\ Cardinality(D(x)) \in Nat
    OBVIOUS
  <2>1. D(x) \in SUBSET T
    OBVIOUS
  <2>2. IsFiniteSet(D(x))
    BY <2>1, FS_Subset
  <2> QED
    BY <2>2, FS_CardinalityType
<1>2. S \in SUBSET Nat /\ S # {}
  <2> HIDE DEF D
  <2> QED
    BY <1>1
<1>3. PICK m \in S : \A k \in S : m <= k
  BY <1>2, LeastNumber
<1>4. PICK x \in T : m = Cardinality(D(x))
  BY <1>3
<1>5. ASSUME NEW y \in T, <<y, x>> \in R PROVE FALSE
  <2>1. D(y) \in SUBSET D(x) /\ y \in D(x) /\ y \notin D(y)
    BY <1>5
  <2>2. Cardinality(D(y)) \in S
    OBVIOUS
  <2> HIDE DEF D, S
  <2>3. Cardinality(D(y)) <= Cardinality(D(x)) /\ Cardinality(D(y)) # Cardinality(D(x))
    BY <1>1, <2>1, FS_Subset
  <2>4. Cardinality(D(x)) <= Cardinality(D(y))
    BY <1>3, <1>4, <2>2
  <2> QED
    BY <1>1, <2>3, <2>4
<1> QED
  BY <1>5

LEMMA IdsAreNumbers ==
    ASSUME NEW ids \in Seq(Persons)
    PROVE  ids \in Seq(Nat)
<1> DEFINE m == Len(ids)
<1>1. m \in Nat /\ ids = [i \in 1..m |-> ids[i]] /\ \A i \in 1..m : ids[i] \in Persons
  OBVIOUS
<1>2. Persons \subseteq Nat
  BY PersonsAreNumbers
<1> HIDE DEF m
<1>3. ids \in [1..m -> Nat]
  BY <1>1, <1>2
<1> QED
  BY <1>1, <1>3

\* Of the ways of a round to one person one is least

\* The kinds of the steps of a way, as numbers.
Ranks(w) == [i \in DOMAIN w.edges |-> EdgeRank[w.edges[i]]]

LEMMA RanksAre ==
    ASSUME NEW w, w.edges \in Seq(DOMAIN EdgeRank)
    PROVE  /\ Ranks(w) \in Seq(Nat) /\ Len(Ranks(w)) = Len(w.edges)
           /\ \A i \in 1..Len(w.edges) : Ranks(w)[i] = EdgeRank[w.edges[i]]
<1> DEFINE s == w.edges
           r == [i \in 1..Len(s) |-> EdgeRank[s[i]]]
<1>1. s \in Seq(DOMAIN EdgeRank) /\ Len(s) \in Nat /\ DOMAIN s = 1..Len(s)
  OBVIOUS
<1>2. Ranks(w) = r
  BY <1>1 DEF Ranks
<1>3. \A e \in DOMAIN EdgeRank : EdgeRank[e] \in Nat
  BY DEF EdgeRank
<1> HIDE DEF s
<1>4. \A i \in 1..Len(s) : EdgeRank[s[i]] \in Nat
  BY <1>1, <1>3, ElementOfSeq
<1>5. r \in Seq(Nat) /\ Len(r) = Len(s)
  <2> DEFINE m == Len(s)
  <2>1. m \in Nat /\ r = [i \in 1..m |-> EdgeRank[s[i]]] /\ \A i \in 1..m : EdgeRank[s[i]] \in Nat
    BY <1>1, <1>4
  <2> HIDE DEF m, r
  <2>2. r \in [1..m -> Nat]
    BY <2>1
  <2> QED
    BY <2>1, <2>2 DEF m
<1> QED
  BY <1>2, <1>5 DEF s

\* A way of so many steps.
OfLength(w, m) ==
    /\ w = [ids |-> w.ids, edges |-> w.edges]
    /\ w.ids \in Seq(Persons) /\ w.edges \in Seq(DOMAIN EdgeRank)
    /\ Len(w.ids) = m + 1 /\ Len(w.edges) = m

LEMMA WaysAreOrdered ==
    ASSUME NEW m \in Nat, NEW W, \A w \in W : OfLength(w, m)
    PROVE  /\ \A w \in W : ~WayLess(w, w)
           /\ \A v, w \in W : v = w \/ WayLess(v, w) \/ WayLess(w, v)
           /\ \A u, v, w \in W : WayLess(u, v) /\ WayLess(v, w) => WayLess(u, w)
<1>1. ASSUME NEW w \in W
      PROVE  /\ w.ids \in Seq(Nat) /\ Len(w.ids) = m + 1
             /\ Ranks(w) \in Seq(Nat) /\ Len(Ranks(w)) = m
  <2>1. OfLength(w, m)
    OBVIOUS
  <2>2. w.ids \in Seq(Nat)
    BY <2>1, IdsAreNumbers DEF OfLength
  <2> QED
    BY <2>1, <2>2, RanksAre DEF OfLength
<1>2. \A v, w : WayLess(v, w) <=> LexLess(v.ids, w.ids) \/ (v.ids = w.ids /\ LexLess(Ranks(v), Ranks(w)))
  BY DEF WayLess, Ranks
<1>3. \A w \in W : ~WayLess(w, w)
  BY <1>1, <1>2, LexIsStrict
<1>4. ASSUME NEW v \in W, NEW w \in W, v # w PROVE WayLess(v, w) \/ WayLess(w, v)
  <2>0. OfLength(v, m) /\ OfLength(w, m)
    OBVIOUS
  <2>1. CASE v.ids # w.ids
    <3>1. /\ v.ids \in Seq(Nat) /\ w.ids \in Seq(Nat) /\ Len(v.ids) = Len(w.ids)
      BY <1>1
    <3>2. LexLess(v.ids, w.ids) \/ LexLess(w.ids, v.ids)
      BY <2>1, <3>1, LexIsTotal
    <3> QED
      BY <1>2, <3>2
  <2>2. CASE v.ids = w.ids
    <3>1. v.edges # w.edges
      BY <1>4, <2>0, <2>2 DEF OfLength
    <3>2. /\ v.edges \in Seq(DOMAIN EdgeRank) /\ w.edges \in Seq(DOMAIN EdgeRank)
          /\ Len(v.edges) = m /\ Len(w.edges) = m
      BY <2>0 DEF OfLength
    <3>3. PICK i \in 1..m : v.edges[i] # w.edges[i]
      BY <3>1, <3>2, SeqEqual
    <3>4. v.edges[i] \in DOMAIN EdgeRank /\ w.edges[i] \in DOMAIN EdgeRank
      BY <3>2, ElementOfSeq
    <3>5. EdgeRank[v.edges[i]] # EdgeRank[w.edges[i]]
      BY <3>3, <3>4 DEF EdgeRank
    <3>6. Ranks(v)[i] = EdgeRank[v.edges[i]] /\ Ranks(w)[i] = EdgeRank[w.edges[i]]
      BY <3>2, RanksAre
    <3>7. Ranks(v) # Ranks(w)
      BY <3>5, <3>6
    <3>8. Ranks(v) \in Seq(Nat) /\ Ranks(w) \in Seq(Nat) /\ Len(Ranks(v)) = Len(Ranks(w))
      BY <1>1
    <3>9. LexLess(Ranks(v), Ranks(w)) \/ LexLess(Ranks(w), Ranks(v))
      BY <3>7, <3>8, LexIsTotal
    <3> QED
      BY <1>2, <2>2, <3>9
  <2> QED
    BY <2>1, <2>2
<1>5. ASSUME NEW u \in W, NEW v \in W, NEW w \in W, WayLess(u, v), WayLess(v, w) PROVE WayLess(u, w)
  <2>1. /\ u.ids \in Seq(Nat) /\ v.ids \in Seq(Nat) /\ w.ids \in Seq(Nat)
        /\ Len(u.ids) = Len(v.ids) /\ Len(v.ids) = Len(w.ids)
        /\ Ranks(u) \in Seq(Nat) /\ Ranks(v) \in Seq(Nat) /\ Ranks(w) \in Seq(Nat)
        /\ Len(Ranks(u)) = Len(Ranks(v)) /\ Len(Ranks(v)) = Len(Ranks(w))
    BY <1>1
  <2>2. CASE LexLess(u.ids, v.ids) /\ LexLess(v.ids, w.ids)
    BY <1>2, <2>1, <2>2, LexIsTransitive
  <2>3. CASE u.ids = v.ids \/ v.ids = w.ids
    <3>1. CASE u.ids = v.ids /\ v.ids = w.ids
      <4>1. LexLess(Ranks(u), Ranks(v)) /\ LexLess(Ranks(v), Ranks(w))
        BY <1>2, <1>5, <2>1, <3>1, LexIsStrict
      <4>2. LexLess(Ranks(u), Ranks(w))
        BY <2>1, <4>1, LexIsTransitive
      <4> QED
        BY <1>2, <3>1, <4>2
    <3>2. CASE u.ids # v.ids \/ v.ids # w.ids
      BY <1>2, <1>5, <2>3, <3>2
    <3> QED
      BY <3>1, <3>2
  <2> QED
    BY <1>2, <1>5, <2>2, <2>3
<1> QED
  BY <1>3, <1>4, <1>5


\* The ways with a step more are finitely many, and of one length.
LongerWays == {Longer(x[1], x[2]) : x \in got.frontier \X (alive \X DOMAIN EdgeRank)}

LEMMA LongerWaysAreFew ==
    ASSUME alive \subseteq Persons, IsFiniteSet(got.frontier)
    PROVE  IsFiniteSet(LongerWays)
<1> DEFINE S == got.frontier \X (alive \X DOMAIN EdgeRank)
           f == [x \in S |-> Longer(x[1], x[2])]
<1>1. IsFiniteSet(alive)
  BY SearchesAreBounded, FS_Subset
<1>2. IsFiniteSet(DOMAIN EdgeRank)
  <2>1. DOMAIN EdgeRank = (({} \cup {"child"}) \cup {"parent"}) \cup {"spouse"}
    BY DEF EdgeRank
  <2>2. IsFiniteSet({} \cup {"child"})
    BY FS_EmptySet, FS_AddElement
  <2>3. IsFiniteSet(({} \cup {"child"}) \cup {"parent"})
    BY <2>2, FS_AddElement
  <2> QED
    BY <2>1, <2>3, FS_AddElement
<1>3. IsFiniteSet(alive \X DOMAIN EdgeRank)
  BY <1>1, <1>2, FS_Product
<1>4. IsFiniteSet(S)
  BY <1>3, FS_Product
<1> HIDE DEF S
<1>5. f \in Surjection(S, LongerWays)
  <2>1. LongerWays = {Longer(x[1], x[2]) : x \in S}
    BY DEF LongerWays, S
  <2>2. f \in [S -> LongerWays] /\ \A t \in LongerWays : \E x \in S : f[x] = t
    BY <2>1
  <2> HIDE DEF f
  <2> QED
    BY <2>2 DEF Surjection
<1> QED
  BY <1>4, <1>5, FS_Surjection

LEMMA LongerIsLonger ==
    ASSUME alive \subseteq Persons, NEW m \in Nat, NEW w \in got.frontier, OfLength(w, m), NEW n \in Around(EndOf(w))
    PROVE  /\ Longer(w, n) \in LongerWays /\ OfLength(Longer(w, n), m + 1)
           /\ EndOf(Longer(w, n)) = n[1] /\ Longer(w, n).ids = Append(w.ids, n[1])
<1>1. n \in alive \X DOMAIN EdgeRank
  BY DEF Around, Neighbours
<1>2. n[1] \in Persons /\ n[2] \in DOMAIN EdgeRank
  BY <1>1
<1>3. Longer(w, n) \in LongerWays
  <2> DEFINE x == <<w, n>>
  <2>1. x \in got.frontier \X (alive \X DOMAIN EdgeRank) /\ x[1] = w /\ x[2] = n
    BY <1>1
  <2> HIDE DEF x
  <2> QED
    BY <2>1 DEF LongerWays
<1>4. w.ids \in Seq(Persons) /\ w.edges \in Seq(DOMAIN EdgeRank) /\ Len(w.ids) = m + 1 /\ Len(w.edges) = m
  BY DEF OfLength
<1>5. /\ Append(w.ids, n[1]) \in Seq(Persons) /\ Len(Append(w.ids, n[1])) = m + 2
      /\ Append(w.edges, n[2]) \in Seq(DOMAIN EdgeRank) /\ Len(Append(w.edges, n[2])) = m + 1
  BY <1>2, <1>4, AppendProperties
<1>6. OfLength(Longer(w, n), m + 1)
  BY <1>5 DEF Longer, OfLength
<1> QED
  BY <1>2, <1>3, <1>4, <1>6, LongerEnds DEF Longer

\* Whoever is next to the frontier is reached in the round, if he was not before.
LEMMA RoundReachesAll ==
    ASSUME alive \subseteq Persons, IsFiniteSet(got.frontier),
           NEW m \in Nat, \A w \in got.frontier : OfLength(w, m),
           NEW u \in got.frontier, NEW k \in Around(EndOf(u)), k[1] \notin Visited
    PROVE  \E v \in Round : EndOf(v) = k[1]
<1> DEFINE T == {v \in LongerWays : /\ EndOf(v) = k[1]
                                    /\ \E w \in got.frontier : \E n \in Around(EndOf(w)) : v = Longer(w, n)}
           R == {x \in T \X T : WayLess(x[1], x[2])}
<1>1. \A v \in T : OfLength(v, m + 1)
  BY LongerIsLonger
<1>2. IsFiniteSet(T)
  <2>1. T \in SUBSET LongerWays
    OBVIOUS
  <2> QED
    BY <2>1, LongerWaysAreFew, FS_Subset
<1>3. Longer(u, k) \in T
  BY LongerIsLonger
<1>4. \A w \in got.frontier : \A n \in Around(EndOf(w)) : EndOf(Longer(w, n)) = k[1] => Longer(w, n) \in T
  BY LongerIsLonger
<1>5. \A v \in T : EndOf(v) = k[1] /\ \E w \in got.frontier : \E n \in Around(EndOf(w)) : v = Longer(w, n)
  OBVIOUS
<1> HIDE DEF T
<1>6. \A x, y \in T : <<x, y>> \in R <=> WayLess(x, y)
  OBVIOUS
<1> HIDE DEF R
<1>7. /\ \A v \in T : ~WayLess(v, v)
      /\ \A v, w \in T : v = w \/ WayLess(v, w) \/ WayLess(w, v)
      /\ \A x, y, z \in T : WayLess(x, y) /\ WayLess(y, z) => WayLess(x, z)
  BY <1>1, WaysAreOrdered
<1>8. PICK v \in T : \A y \in T : <<y, v>> \notin R
  <2>1. \A x \in T : <<x, x>> \notin R
    BY <1>6, <1>7
  <2>2. \A x, y, z \in T : <<x, y>> \in R /\ <<y, z>> \in R => <<x, z>> \in R
    BY <1>6, <1>7
  <2> QED
    BY <1>2, <1>3, <2>1, <2>2, LeastOfAnOrder
<1>9. \A y \in T : y = v \/ WayLess(v, y)
  BY <1>6, <1>7, <1>8
<1>10. v \in Round
  BY <1>4, <1>5, <1>9, RoundsReach
<1> QED
  BY <1>5, <1>10

LEMMA RoundIsLeast ==
    ASSUME NEW v \in Round, NEW w \in got.frontier, NEW n \in Around(EndOf(w)), EndOf(Longer(w, n)) = EndOf(v)
    PROVE  Longer(w, n) = v \/ WayLess(v, Longer(w, n))
<1> DEFINE ways == UNION {{Longer(x, k) : k \in Around(EndOf(x))} : x \in got.frontier}
           new  == {x \in ways : EndOf(x) \notin Visited}
<1>1. Round = {x \in new : \A y \in new : EndOf(y) = EndOf(x) => y = x \/ WayLess(x, y)}
  BY DEF Round, NextFrontier, Visited, Around, Longer
<1>2. Longer(w, n) \in ways
  OBVIOUS
<1>3. \A y : y \in new <=> y \in ways /\ EndOf(y) \notin Visited
  OBVIOUS
<1> HIDE DEF ways, new
<1>4. Longer(w, n) \in new
  BY <1>1, <1>2, <1>3
<1> QED
  BY <1>1, <1>4

\* A walk is one of a step less, and a step.
LEMMA WalkSplits ==
    ASSUME NEW p, NEW ids, Walk(p, ids), NEW m \in Nat, m >= 1, Len(ids) = m + 1
    PROVE  \E a : /\ Walk(p, a) /\ Len(a) = m /\ ids = Append(a, ids[m + 1])
                  /\ \E e \in DOMAIN EdgeRank : <<ids[m + 1], e>> \in Around(a[m])
<1> DEFINE a == [i \in 1..m |-> ids[i]]
<1>1. ids \in Seq(Persons) /\ \A i \in 1..(m + 1) : ids[i] \in Persons
  <2>1. ids \in Seq(Persons)
    BY DEF Walk
  <2> QED
    BY <2>1, ElementOfSeq
<1>2. a \in [1..m -> Persons] /\ \A i \in 1..m : a[i] = ids[i]
  BY <1>1
<1> HIDE DEF a
<1>3. a \in Seq(Persons) /\ Len(a) = m
  BY <1>2
<1>4. ids = Append(a, ids[m + 1])
  <2> DEFINE b == Append(a, ids[m + 1])
  <2>1. /\ b \in Seq(Persons) /\ Len(b) = m + 1 /\ b[m + 1] = ids[m + 1]
        /\ \A i \in 1..m : b[i] = a[i]
    BY <1>1, <1>3, AppendProperties
  <2> HIDE DEF b
  <2>2. \A i \in 1..Len(ids) : ids[i] = b[i]
    BY <1>2, <2>1
  <2>3. ids = b
    BY <1>1, <2>1, <2>2, SeqEqual
  <2> QED
    BY <2>3 DEF b
<1>5. Walk(p, a)
  <2>1. a[1] = p
    BY <1>2 DEF Walk
  <2>2. ASSUME NEW i \in 1..(m - 1) PROVE \E e \in DOMAIN EdgeRank : <<a[i + 1], e>> \in Around(a[i])
    <3>1. i \in 1..(Len(ids) - 1) /\ i \in 1..m /\ i + 1 \in 1..m
      OBVIOUS
    <3> QED
      BY <1>2, <3>1 DEF Walk
  <2> QED
    BY <1>3, <2>1, <2>2 DEF Walk
<1>6. \E e \in DOMAIN EdgeRank : <<ids[m + 1], e>> \in Around(a[m])
  <2>1. m \in 1..(Len(ids) - 1) /\ m \in 1..m
    OBVIOUS
  <2> QED
    BY <1>2, <2>1 DEF Walk
<1> QED
  BY <1>3, <1>4, <1>5, <1>6

\* The search that has not been disturbed
Undisturbed == read.kind = "path" /\ sinceMap = {}

LEMMA WaysOfTheSearch ==
    ASSUME SearchIInv, Undisturbed
    PROVE  /\ read.from \in Persons /\ alive \subseteq Persons /\ got.round \in Nat
           /\ got.frontier \subseteq got.visited
           /\ \A w \in got.visited :
                 /\ WayFrom(read.from, w) /\ Len(w.ids) \in Nat /\ Len(w.ids) >= 1 /\ w.ids \in Seq(Persons)
                 /\ EndOf(w) \in Visited
<1>1. /\ read.from \in Persons /\ alive \subseteq Persons /\ got.round \in Nat /\ WaysAreVisited
      /\ got.frontier \subseteq got.visited
  BY DEF SearchIInv, Undisturbed, ByRounds
<1>2. ASSUME NEW w \in got.visited
      PROVE  /\ WayFrom(read.from, w) /\ Len(w.ids) \in Nat /\ Len(w.ids) >= 1 /\ w.ids \in Seq(Persons)
             /\ EndOf(w) \in Visited
  <2>1. WayFrom(read.from, w)
    BY <1>1 DEF WaysAreVisited
  <2>2. w.ids \in Seq(Persons) /\ w.edges \in Seq(DOMAIN EdgeRank) /\ Len(w.ids) = Len(w.edges) + 1
    BY <2>1 DEF WayFrom
  <2>3. Len(w.edges) \in Nat
    BY <2>2
  <2> QED
    BY <2>1, <2>2, <2>3 DEF Visited
<1> QED
  BY <1>1, <1>2

LEMMA FrontierHasOneLength ==
    ASSUME SearchIInv, Undisturbed, FrontierIsLast
    PROVE  \A w \in got.frontier : OfLength(w, got.round)
<1> SUFFICES ASSUME NEW w \in got.frontier PROVE OfLength(w, got.round)
  OBVIOUS
<1>1. WayFrom(read.from, w) /\ Len(w.ids) = got.round + 1 /\ got.round \in Nat
  BY WaysOfTheSearch DEF FrontierIsLast
<1>2. w.edges \in Seq(DOMAIN EdgeRank) /\ Len(w.ids) = Len(w.edges) + 1
  BY <1>1 DEF WayFrom
<1>3. Len(w.edges) = got.round
  BY <1>1, <1>2
<1> QED
  BY <1>1, <1>3 DEF WayFrom, OfLength

\* What a round adds
LEMMA RoundIs ==
    ASSUME SearchIInv, ReadRound
    PROVE  /\ UNCHANGED <<person, alive, links, marriages, read, sinceMap>>
           /\ got'.frontier = Round /\ got'.visited = got.visited \cup Round /\ got'.round = got.round + 1
           /\ read.at = "round" /\ Searching
           /\ \A p : Around(p)' = Around(p)
           /\ \A p, ids : Walk(p, ids)' <=> Walk(p, ids)
           /\ Visited' = Visited \cup {EndOf(w) : w \in Round}
<1>1. /\ UNCHANGED <<person, alive, links, marriages, read, sinceMap>> /\ read.at = "round" /\ Searching
      /\ got' = [got EXCEPT !.frontier = Round, !.visited = @ \cup Round, !.round = @ + 1]
  BY DEF ReadRound, Stay, graph, At, Round
<1>2. got'.frontier = Round /\ got'.visited = got.visited \cup Round /\ got'.round = got.round + 1
  BY <1>1 DEF SearchIInv, Nothing
<1>3. \A p : Around(p)' = Around(p)
  BY <1>1 DEF Around
<1>4. \A p, ids : Walk(p, ids)' <=> Walk(p, ids)
  BY <1>3 DEF Walk
<1>5. Visited' = Visited \cup {EndOf(w) : w \in Round}
  BY <1>2 DEF Visited
<1> QED
  BY <1>1, <1>2, <1>3, <1>4, <1>5

LEMMA NewWays ==
    ASSUME SearchIInv, Undisturbed, FrontierIsLast
    PROVE  \A v \in Round : /\ v \in LongerWays /\ OfLength(v, got.round + 1)
                            /\ Len(v.ids) = got.round + 2 /\ EndOf(v) \notin Visited
                            /\ v.ids \in Seq(Persons)
<1> SUFFICES ASSUME NEW v \in Round
             PROVE  /\ v \in LongerWays /\ OfLength(v, got.round + 1)
                    /\ Len(v.ids) = got.round + 2 /\ EndOf(v) \notin Visited
                    /\ v.ids \in Seq(Persons)
  OBVIOUS
<1>1. EndOf(v) \notin Visited /\ \E w \in got.frontier : \E n \in Around(EndOf(w)) : v = Longer(w, n)
  BY RoundsReach
<1>2. PICK w \in got.frontier : \E n \in Around(EndOf(w)) : v = Longer(w, n)
  BY <1>1
<1>3. PICK n \in Around(EndOf(w)) : v = Longer(w, n)
  BY <1>2
<1>4. alive \subseteq Persons /\ got.round \in Nat /\ OfLength(w, got.round)
  BY WaysOfTheSearch, FrontierHasOneLength
<1>5. v \in LongerWays /\ OfLength(v, got.round + 1)
  BY <1>3, <1>4, LongerIsLonger
<1> QED
  BY <1>1, <1>4, <1>5 DEF OfLength

\* Whoever is next to a person who was reached is reached after the round.
LEMMA NeighboursAreReached ==
    ASSUME SearchIInv, Undisturbed, FrontierIsLast,
           NEW w \in got.visited, NEW n \in Around(EndOf(w))
    PROVE  /\ n[1] \in Visited \cup {EndOf(v) : v \in Round}
           /\ w \notin got.frontier => n[1] \in Visited
<1>1. CASE w \notin got.frontier
  BY <1>1 DEF FrontierIsLast
<1>2. CASE w \in got.frontier /\ n[1] \notin Visited
  <2>1. alive \subseteq Persons /\ got.round \in Nat /\ IsFiniteSet(got.frontier)
    BY WaysOfTheSearch DEF FrontierIsLast
  <2>2. \E v \in Round : EndOf(v) = n[1]
    BY <1>2, <2>1, FrontierHasOneLength, RoundReachesAll
  <2> QED
    BY <1>2, <2>2
<1> QED
  BY <1>1, <1>2

LEMMA RoundKeepsFrontier ==
    ASSUME SearchIInv, Undisturbed, FrontierIsLast, ReadRound
    PROVE  FrontierIsLast'
<1>1. /\ got'.frontier = Round /\ got'.visited = got.visited \cup Round /\ got'.round = got.round + 1
      /\ Searching /\ \A p : Around(p)' = Around(p)
      /\ Visited' = Visited \cup {EndOf(w) : w \in Round}
  BY RoundIs
<1>2. got.round \in Nat /\ alive \subseteq Persons /\ MaxPath \in Nat /\ IsFiniteSet(got.frontier)
  BY WaysOfTheSearch, SearchesAreBounded DEF FrontierIsLast
<1>3. IsFiniteSet(Round)
  <2>1. Round \in SUBSET LongerWays
    BY NewWays
  <2> QED
    BY <1>2, <2>1, LongerWaysAreFew, FS_Subset
<1>4. got'.round <= MaxPath
  BY <1>1, <1>2 DEF Searching
<1>5. \A w \in Round : Len(w.ids) = got'.round + 1
  BY <1>1, <1>2, NewWays
<1>6. \A w \in got'.visited : Len(w.ids) <= got'.round + 1
  <2>1. \A w \in got.visited : Len(w.ids) \in Nat /\ Len(w.ids) <= got.round + 1
    BY WaysOfTheSearch DEF FrontierIsLast
  <2>2. \A w \in got.visited : Len(w.ids) <= got'.round + 1
    BY <1>1, <1>2, <2>1
  <2>3. \A w \in Round : Len(w.ids) <= got'.round + 1
    BY <1>1, <1>2, <1>5
  <2> QED
    BY <1>1, <2>2, <2>3
<1>7. \A w \in got'.visited \ got'.frontier : \A n \in Around(EndOf(w))' : n[1] \in Visited'
  <2> SUFFICES ASSUME NEW w \in got.visited, NEW n \in Around(EndOf(w)) PROVE n[1] \in Visited'
    BY <1>1
  <2> QED
    BY <1>1, NeighboursAreReached
<1> QED
  BY <1>1, <1>3, <1>4, <1>5, <1>6, <1>7 DEF FrontierIsLast

LEMMA RoundKeepsLeast ==
    ASSUME SearchIInv, Undisturbed, FrontierIsLast, LeastFirst, ReadRound
    PROVE  LeastFirst'
<1>1. /\ UNCHANGED read
      /\ got'.frontier = Round /\ got'.visited = got.visited \cup Round /\ got'.round = got.round + 1
      /\ \A p, ids : Walk(p, ids)' <=> Walk(p, ids)
      /\ Visited' = Visited \cup {EndOf(w) : w \in Round}
  BY RoundIs
<1>2. got.round \in Nat /\ alive \subseteq Persons
  BY WaysOfTheSearch
<1> SUFFICES ASSUME NEW ids, Walk(read.from, ids), Len(ids) <= got.round + 2
             PROVE  /\ ids[Len(ids)] \in Visited'
                    /\ \A w \in got.visited \cup Round : EndOf(w) = ids[Len(ids)] =>
                          \/ Len(w.ids) < Len(ids)
                          \/ Len(w.ids) = Len(ids) /\ ~LexLess(ids, w.ids)
  BY <1>1, <1>2 DEF LeastFirst
<1>3. ids \in Seq(Persons) /\ Len(ids) \in Nat /\ Len(ids) >= 1
  BY DEF Walk
<1>4. CASE Len(ids) <= got.round + 1
  <2>1. ids[Len(ids)] \in Visited
    BY <1>4 DEF LeastFirst
  <2>2. \A w \in Round : EndOf(w) # ids[Len(ids)]
    BY <2>1, NewWays
  <2> QED
    BY <1>1, <1>4, <2>1, <2>2 DEF LeastFirst
<1>5. CASE Len(ids) = got.round + 2
  <2> DEFINE m == got.round + 1
             t == ids[m + 1]
  <2>1. m \in Nat /\ m >= 1 /\ Len(ids) = m + 1 /\ m <= got.round + 1
    BY <1>2, <1>5
  <2>2. t \in Persons /\ ids[Len(ids)] = t
    BY <1>3, <2>1, ElementOfSeq
  <2> HIDE DEF m
  <2>3. PICK a : /\ Walk(read.from, a) /\ Len(a) = m /\ ids = Append(a, t)
                 /\ \E e \in DOMAIN EdgeRank : <<t, e>> \in Around(a[m])
    BY <2>1, WalkSplits
  <2>4. a[m] \in Visited
    BY <2>1, <2>3 DEF LeastFirst
  <2>5. PICK v \in got.visited : EndOf(v) = a[m]
    BY <2>4 DEF Visited
  <2>6. PICK e \in DOMAIN EdgeRank : <<t, e>> \in Around(EndOf(v))
    BY <2>3, <2>5
  <2> DEFINE n == <<t, e>>
  <2>7. n \in Around(EndOf(v)) /\ n[1] = t
    BY <2>6
  <2> HIDE DEF n, t
  <2>8. t \in Visited'
    BY <1>1, <2>7, NeighboursAreReached
  <2>9. ASSUME NEW w \in got.visited, EndOf(w) = t PROVE Len(w.ids) < Len(ids)
    <3>1. Len(w.ids) \in Nat /\ Len(w.ids) <= got.round + 1
      BY WaysOfTheSearch DEF FrontierIsLast
    <3> QED
      BY <1>2, <1>5, <3>1
  <2>10. ASSUME NEW w \in Round, EndOf(w) = t PROVE Len(w.ids) = Len(ids) /\ ~LexLess(ids, w.ids)
    <3>1. Len(w.ids) = Len(ids) /\ t \notin Visited /\ w.ids \in Seq(Persons)
      BY <1>2, <1>5, <2>10, NewWays
    <3>2. v \in got.frontier
      BY <2>7, <3>1, NeighboursAreReached
    <3>3. Len(v.ids) = m /\ v.ids \in Seq(Persons) /\ OfLength(v, got.round)
      BY <1>2, <3>2, WaysOfTheSearch, FrontierHasOneLength DEF FrontierIsLast, m
    <3>4. ~LexLess(a, v.ids)
      BY <2>1, <2>3, <2>5, <3>3 DEF LeastFirst
    <3>5. EndOf(Longer(v, n)) = t /\ Longer(v, n).ids = Append(v.ids, t)
      BY <1>2, <2>7, <3>2, <3>3, LongerIsLonger
    <3>6. Longer(v, n) = w \/ WayLess(w, Longer(v, n))
      BY <2>7, <2>10, <3>2, <3>5, RoundIsLeast
    <3>7. w.ids = Append(v.ids, t) \/ LexLess(w.ids, Append(v.ids, t))
      BY <3>5, <3>6 DEF WayLess
    <3>8. /\ a \in Seq(Nat) /\ v.ids \in Seq(Nat) /\ ids \in Seq(Nat) /\ w.ids \in Seq(Nat) /\ t \in Nat
          /\ Append(v.ids, t) \in Seq(Nat) /\ Len(Append(v.ids, t)) = Len(ids)
      <4>1. a \in Seq(Persons)
        BY <2>3 DEF Walk
      <4>2. a \in Seq(Nat) /\ v.ids \in Seq(Nat) /\ ids \in Seq(Nat) /\ w.ids \in Seq(Nat) /\ t \in Nat
        BY <1>3, <2>2, <3>1, <3>3, <4>1, IdsAreNumbers, PersonsAreNumbers DEF t
      <4> QED
        BY <2>1, <3>3, <4>2, AppendProperties
    <3>9. ASSUME LexLess(ids, w.ids) PROVE FALSE
      <4>1. LexLess(ids, Append(v.ids, t))
        BY <3>1, <3>7, <3>8, <3>9, LexIsTransitive
      <4>2. LexLess(a, v.ids)
        BY <2>3, <3>3, <3>8, <4>1, LexOfAppend
      <4> QED
        BY <3>4, <4>2
    <3> QED
      BY <3>1, <3>9
  <2> QED
    BY <2>2, <2>8, <2>9, <2>10 DEF t
<1> QED
  BY <1>2, <1>3, <1>4, <1>5

\* The search begins with the person himself.
LEMMA BeginsShortest ==
    ASSUME SearchIInv, NEW kind \in Kinds, NEW p \in Persons \cup {None}, NEW q \in Persons \cup {None},
           Begin(kind, p, q)
    PROVE  ShortestIInv'
<1>1. read' = [kind |-> kind, at |-> FirstOf(kind), from |-> p, to |-> q] /\ read'.kind = kind
  BY DEF Begin
<1>2. CASE kind # "path"
  BY <1>1, <1>2 DEF ShortestIInv
<1>3. CASE kind = "path"
  <2>1. p \in Persons /\ q \in Persons /\ p # q /\ read'.from = p /\ read'.to = q /\ read'.at = "round"
    BY <1>1, <1>3 DEF Begin, FirstOf
  <2>2. got'.visited = {Origin(p)} /\ got'.frontier = {Origin(p)} /\ got'.round = 0
    BY <1>3 DEF Begin, Nothing
  <2>3. EndOf(Origin(p)) = p /\ Len(Origin(p).ids) = 1 /\ Origin(p).ids = <<p>>
    BY <2>1, OriginIsAWay DEF Origin
  <2>4. Visited' = {p}
    BY <2>2, <2>3 DEF Visited
  <2>5. FrontierIsLast'
    <3>1. IsFiniteSet({Origin(p)})
      BY FS_Singleton
    <3>2. IsFiniteSet(got'.frontier) /\ got'.round <= MaxPath
      BY <2>2, <3>1, SearchesAreBounded
    <3>3. /\ \A w \in got'.visited : Len(w.ids) <= got'.round + 1
          /\ \A w \in got'.frontier : Len(w.ids) = got'.round + 1
      <4> DEFINE k == got'.round + 1
      <4>1. \A w \in got'.visited \cup got'.frontier : Len(w.ids) = 1
        BY <2>2, <2>3
      <4>2. k = 1 /\ 1 <= 1
        BY <2>2
      <4> HIDE DEF k
      <4>3. /\ \A w \in got'.visited : Len(w.ids) <= k
            /\ \A w \in got'.frontier : Len(w.ids) = k
        BY <4>1, <4>2, Zenon
      <4> QED
        BY <4>3 DEF k
    <3>4. got'.visited \ got'.frontier = {}
      BY <2>2
    <3> QED
      BY <3>2, <3>3, <3>4 DEF FrontierIsLast
  <2>6. ASSUME NEW ids, ids \in Seq(Persons), Len(ids) >= 1, ids[1] = p, Len(ids) <= 1
        PROVE  ids[Len(ids)] = p /\ Len(ids) = 1 /\ ~LexLess(ids, <<p>>)
    <3>1. Len(ids) = 1
      BY <2>6
    <3>2. ids \in Seq(Nat) /\ <<p>> \in Seq(Nat) /\ Len(<<p>>) = 1 /\ <<p>>[1] = p /\ p \in Nat
      BY <2>1, <2>6, IdsAreNumbers, PersonsAreNumbers
    <3>3. ~LexLess(ids, <<p>>)
      <4>1. \A i \in 1..1 : ~(ids[i] < <<p>>[i])
        BY <2>6, <3>2
      <4> QED
        BY <3>1, <3>2, <4>1, LexOfOneLength
    <3> QED
      BY <2>6, <3>1, <3>3
  <2>7. LeastFirst'
    <3> SUFFICES ASSUME NEW ids, Walk(p, ids)', Len(ids) <= 1
                 PROVE  ids[Len(ids)] = p /\ Len(ids) = 1 /\ ~LexLess(ids, <<p>>)
      BY <2>1, <2>2, <2>3, <2>4 DEF LeastFirst
    <3> QED
      BY <2>6 DEF Walk
  <2> QED
    BY <2>1, <2>5, <2>7 DEF ShortestIInv
<1> QED
  BY <1>2, <1>3

LEMMA PathsEndShortest == ASSUME SearchIInv, ShortestIInv, EndPath PROVE ShortestIInv'
<1> DEFINE term == IF Found THEN Describe(TheWay, Gender, Born) ELSE <<>>
<1>1. /\ UNCHANGED <<person, alive, links, marriages, sinceMap>>
      /\ got' = [got EXCEPT !.term = term] /\ ~Searching
      /\ read'.kind = read.kind /\ read'.from = read.from /\ read'.to = read.to /\ read'.at = "done"
  BY AnswersKeepTheRead DEF EndPath, Stay, graph, SearchIInv
<1> HIDE DEF term
<1>2. got'.visited = got.visited /\ got'.frontier = got.frontier /\ got'.round = got.round
  BY <1>1 DEF SearchIInv, Nothing
<1>3. Searching' = Searching
  BY <1>1, <1>2 DEF Searching, Found
<1>4. LeastFirst' <=> LeastFirst
  BY <1>1, <1>2 DEF LeastFirst, Walk, Around, Visited
<1>5. FrontierIsLast' <=> FrontierIsLast
  BY <1>1, <1>2 DEF FrontierIsLast, Around, Visited
<1> QED
  BY <1>1, <1>3, <1>4, <1>5 DEF ShortestIInv

LEMMA RoundKeepsShortest == ASSUME SearchIInv, ShortestIInv, ReadRound PROVE ShortestIInv'
<1>1. UNCHANGED <<read, sinceMap>> /\ read.at = "round"
  BY RoundIs
<1>2. CASE ~Undisturbed
  BY <1>1, <1>2 DEF ShortestIInv, Undisturbed
<1>3. CASE Undisturbed
  <2>1. LeastFirst /\ FrontierIsLast /\ read.to \in Persons /\ read.to # read.from
    BY <1>3 DEF ShortestIInv, Undisturbed
  <2>2. LeastFirst' /\ FrontierIsLast'
    BY <1>3, <2>1, RoundKeepsLeast, RoundKeepsFrontier
  <2> QED
    BY <1>1, <2>1, <2>2 DEF ShortestIInv
<1> QED
  BY <1>2, <1>3

LEMMA NextShortestIInv == ASSUME SearchIInv, ShortestIInv, [Next]_vars PROVE ShortestIInv'
<1>1. CASE Edit
  BY <1>1, EditsAreSeen DEF ShortestIInv
<1>2. CASE \E kind \in Kinds : \E p, q \in Persons \cup {None} : Begin(kind, p, q)
  BY <1>2, BeginsShortest
<1>3. CASE ReadRound
  BY <1>3, RoundKeepsShortest
<1>4. CASE EndPath
  BY <1>4, PathsEndShortest
<1>5. CASE ReadChain \/ ReadFounder \/ ReadMap \/ ReadRows \/ ReadSpouses \/ ReadMore
             \/ ReadExportPersons \/ ReadExportMarriages \/ ReadExportLinks
  <2>1. read'.kind # "path"
    BY <1>5, OtherReadsKeep
  <2> QED
    BY <2>1 DEF ShortestIInv
<1>6. CASE UNCHANGED vars
  BY <1>6 DEF vars, graph, ShortestIInv, LeastFirst, FrontierIsLast, Walk, Around, Visited, Searching, Found
<1> QED
  BY <1>1, <1>2, <1>3, <1>4, <1>5, <1>6 DEF Next, Read

\* The ways of the property are the walks.
LEMMA WaysAreWalks ==
    ASSUME NEW p, NEW q, NEW ids
    PROVE  ids \in Ways(p, q, MaxPath) <=>
             Walk(p, ids) /\ Len(ids) >= 2 /\ Len(ids) <= MaxPath + 1 /\ ids[Len(ids)] = q
<1> DEFINE All == UNION {[1..(i + 1) -> Persons] : i \in 1..MaxPath}
<1>1. ids \in All <=> ids \in Seq(Persons) /\ Len(ids) >= 2 /\ Len(ids) <= MaxPath + 1
  <2>1. ASSUME ids \in All PROVE ids \in Seq(Persons) /\ Len(ids) >= 2 /\ Len(ids) <= MaxPath + 1
    <3>1. PICK i \in 1..MaxPath : ids \in [1..(i + 1) -> Persons]
      BY <2>1
    <3>2. ids \in Seq(Persons) /\ Len(ids) = i + 1
      BY <3>1, SearchesAreBounded
    <3> QED
      BY <3>2, SearchesAreBounded
  <2>2. ASSUME ids \in Seq(Persons), Len(ids) >= 2, Len(ids) <= MaxPath + 1 PROVE ids \in All
    <3> DEFINE i == Len(ids) - 1
    <3>1. i \in 1..MaxPath /\ ids \in [1..(i + 1) -> Persons]
      BY <2>2, SearchesAreBounded
    <3> QED
      BY <3>1
  <2> QED
    BY <2>1, <2>2
<1> HIDE DEF All
<1>2. ids \in Ways(p, q, MaxPath) <=>
        /\ ids \in All /\ ids[1] = p /\ ids[Len(ids)] = q
        /\ \A i \in 1..(Len(ids) - 1) : \E e \in DOMAIN EdgeRank : <<ids[i + 1], e>> \in Around(ids[i])
  BY DEF Ways, Around, All
<1> DEFINE Linked == \A i \in 1..(Len(ids) - 1) : \E e \in DOMAIN EdgeRank : <<ids[i + 1], e>> \in Around(ids[i])
<1>3. Walk(p, ids) <=> ids \in Seq(Persons) /\ Len(ids) >= 1 /\ ids[1] = p /\ Linked
  BY DEF Walk
<1>4. ids \in Ways(p, q, MaxPath) <=> ids \in All /\ ids[1] = p /\ ids[Len(ids)] = q /\ Linked
  BY <1>2
<1> HIDE DEF Linked
<1>5. ids \in Seq(Persons) /\ Len(ids) >= 2 => Len(ids) >= 1
  <2>1. ids \in Seq(Persons) => Len(ids) \in Nat
    OBVIOUS
  <2> QED
    BY <2>1
<1> QED
  BY <1>1, <1>3, <1>4, <1>5

LEMMA WaysWalk ==
    ASSUME NEW p, NEW w, WayFrom(p, w)
    PROVE  Walk(p, w.ids)
<1>1. /\ w.ids \in Seq(Persons) /\ w.edges \in Seq(DOMAIN EdgeRank) /\ Len(w.ids) = Len(w.edges) + 1
      /\ w.ids[1] = p
  BY DEF WayFrom
<1>2. Len(w.edges) \in Nat /\ Len(w.ids) - 1 = Len(w.edges) /\ Len(w.ids) >= 1
  BY <1>1
<1>3. \A i \in 1..(Len(w.ids) - 1) : \E e \in DOMAIN EdgeRank : <<w.ids[i + 1], e>> \in Around(w.ids[i])
  <2> SUFFICES ASSUME NEW i \in 1..Len(w.edges)
               PROVE  \E e \in DOMAIN EdgeRank : <<w.ids[i + 1], e>> \in Around(w.ids[i])
    BY <1>2
  <2>1. <<w.ids[i + 1], w.edges[i]>> \in Around(w.ids[i])
    BY DEF WayFrom
  <2>2. w.edges[i] \in DOMAIN EdgeRank
    BY <1>1, ElementOfSeq
  <2> QED
    BY <2>1, <2>2
<1> QED
  BY <1>1, <1>2, <1>3 DEF Walk

LEMMA TheFirstIsShortest == ASSUME SearchIInv, ShortestIInv PROVE PathIsShortest
<1> DEFINE ways == Ways(read.from, read.to, MaxPath)
<1> SUFFICES ASSUME read.kind = "path", read.at = "done", sinceMap = {}
             PROVE  IF Found
                    THEN /\ TheWay.ids \in ways
                         /\ \A w \in ways : \/ Len(w) > Len(TheWay.ids)
                                            \/ Len(w) = Len(TheWay.ids) /\ ~LexLess(w, TheWay.ids)
                    ELSE ways = {}
  BY DEF PathIsShortest
<1>1. /\ LeastFirst /\ FrontierIsLast /\ ~Searching /\ Undisturbed
      /\ read.to \in Persons /\ read.to # read.from /\ got.round \in Nat /\ MaxPath \in Nat
      /\ got.round <= MaxPath
  BY WaysOfTheSearch, SearchesAreBounded DEF ShortestIInv, Undisturbed, FrontierIsLast
<1>2. \A w \in ways : /\ Walk(read.from, w) /\ w \in Seq(Persons) /\ Len(w) \in Nat
                      /\ Len(w) >= 2 /\ Len(w) <= MaxPath + 1 /\ w[Len(w)] = read.to /\ w[1] = read.from
  <2> SUFFICES ASSUME NEW w \in ways
               PROVE  /\ Walk(read.from, w) /\ w \in Seq(Persons) /\ Len(w) \in Nat
                      /\ Len(w) >= 2 /\ Len(w) <= MaxPath + 1 /\ w[Len(w)] = read.to /\ w[1] = read.from
    OBVIOUS
  <2>1. /\ Walk(read.from, w) /\ Len(w) >= 2 /\ Len(w) <= MaxPath + 1 /\ w[Len(w)] = read.to
    BY WaysAreWalks
  <2>2. w \in Seq(Persons) /\ w[1] = read.from
    BY <2>1 DEF Walk
  <2>3. Len(w) \in Nat
    BY <2>2
  <2> QED
    BY <2>1, <2>2, <2>3
<1>3. CASE Found
  <2>1. PICK v \in got.visited : v = TheWay /\ EndOf(v) = read.to
    BY <1>3 DEF Found, TheWay
  <2>2. WayFrom(read.from, v) /\ Len(v.ids) \in Nat /\ Len(v.ids) >= 1 /\ Len(v.ids) <= got.round + 1
    BY <1>1, <2>1, WaysOfTheSearch DEF FrontierIsLast
  <2>3. Len(v.ids) # 1
    BY <1>1, <2>1, <2>2 DEF WayFrom, EndOf
  <2>4. v.ids \in ways
    <3>1. Walk(read.from, v.ids)
      BY <2>2, WaysWalk
    <3>2. v.ids[Len(v.ids)] = read.to
      BY <2>1 DEF EndOf
    <3>3. Len(v.ids) >= 2
      <4> DEFINE k == Len(v.ids)
      <4>1. k \in Nat /\ k >= 1 /\ k # 1
        BY <2>2, <2>3
      <4> HIDE DEF k
      <4>2. k >= 2
        BY <4>1
      <4> QED
        BY <4>2 DEF k
    <3>4. Len(v.ids) <= MaxPath + 1
      BY <1>1, <2>2
    <3> QED
      BY <3>1, <3>2, <3>3, <3>4, WaysAreWalks
  <2>5. ASSUME NEW w \in ways
        PROVE  Len(w) > Len(v.ids) \/ (Len(w) = Len(v.ids) /\ ~LexLess(w, v.ids))
    <3>1. CASE Len(w) > Len(v.ids)
      BY <3>1
    <3>2. CASE Len(w) <= Len(v.ids)
      <4>1. Len(w) <= got.round + 1
        BY <1>1, <1>2, <2>2, <3>2
      <4>2. Len(v.ids) < Len(w) \/ (Len(v.ids) = Len(w) /\ ~LexLess(w, v.ids))
        BY <1>1, <1>2, <2>1, <4>1 DEF LeastFirst
      <4> QED
        BY <1>2, <2>2, <3>2, <4>2
    <3> QED
      BY <1>2, <2>2, <3>1, <3>2
  <2> QED
    BY <1>3, <2>1, <2>4, <2>5
<1>4. CASE ~Found
  <2>1. read.to \notin Visited
    BY <1>4 DEF Found, Visited
  <2>2. ASSUME NEW w \in ways PROVE FALSE
    <3>1. CASE got.round = MaxPath
      <4>1. Len(w) <= got.round + 1
        BY <1>2, <3>1
      <4> QED
        BY <1>1, <1>2, <2>1, <4>1 DEF LeastFirst
    <3>2. CASE got.round # MaxPath
      <4>1. got.frontier = {}
        BY <1>1, <1>4, <3>2 DEF Searching
      <4> DEFINE D == {i \in 1..Len(w) : w[i] \notin Visited}
      <4>2. D \in SUBSET Nat /\ Len(w) \in D
        BY <1>2, <2>1
      <4>3. PICK i \in D : \A j \in D : i <= j
        BY <4>2, LeastNumber
      <4>4. w[1] \in Visited
        <5>1. read.from \in Persons
          BY <1>1, WaysOfTheSearch
        <5>2. Walk(read.from, <<read.from>>) /\ Len(<<read.from>>) <= got.round + 1
              /\ <<read.from>>[Len(<<read.from>>)] = read.from
          BY <1>1, <5>1 DEF Walk
        <5>3. read.from \in Visited
          BY <1>1, <5>2 DEF LeastFirst
        <5> QED
          BY <1>2, <5>3
      <4>5. i \in 1..Len(w) /\ i # 1 /\ w[i] \notin Visited
        BY <4>3, <4>4
      <4> DEFINE j == i - 1
      <4>6. j \in 1..(Len(w) - 1) /\ j \in 1..Len(w) /\ i = j + 1 /\ ~(i <= j)
        BY <1>2, <4>5
      <4>7. w[j] \in Visited
        BY <4>3, <4>6
      <4> HIDE DEF j
      <4>8. PICK v \in got.visited : EndOf(v) = w[j]
        BY <4>7 DEF Visited
      <4>9. PICK e \in DOMAIN EdgeRank : <<w[j + 1], e>> \in Around(w[j])
        BY <1>2, <4>6 DEF Walk
      <4> DEFINE n == <<w[j + 1], e>>
      <4>10. n \in Around(EndOf(v)) /\ n[1] = w[i]
        BY <4>6, <4>8, <4>9
      <4>11. n[1] \in Visited
        BY <1>1, <4>1, <4>8, <4>10 DEF FrontierIsLast
      <4> QED
        BY <4>5, <4>10, <4>11
    <3> QED
      BY <3>1, <3>2
  <2> QED
    BY <1>4, <2>2
<1> QED
  BY <1>3, <1>4

\* The path of an undisturbed search is the first of the shortest that there are, for any
\* clan and any bound on the rounds (find_relationship_path, migration 024).
THEOREM PathAlwaysShortest == Spec => []PathIsShortest
<1>1. Init => ShortestIInv
  BY DEF Init, ShortestIInv, Idle
<1>2. SearchIInv /\ ShortestIInv /\ [Next]_vars => ShortestIInv'
  BY NextShortestIInv
<1>3. SearchIInv /\ ShortestIInv => PathIsShortest
  BY TheFirstIsShortest
<1> QED
  BY <1>1, <1>2, <1>3, SearchInvariant, PTL DEF Spec

-----------------------------------------------------------------------------
(* The export *)

\* Pairs of ids are ordered, so that a set of them has a first one.
LEMMA FirstPairIs ==
    ASSUME NEW T, IsFiniteSet(T), T # {}, \A x \in T : x \in Nat \X Nat
    PROVE  FirstPair(T) \in T
<1> DEFINE R == {x \in T \X T : LexLess(x[1], x[2])}
<1>1. \A x \in T : x = <<x[1], x[2]>> /\ x[1] \in Nat /\ x[2] \in Nat
  OBVIOUS
<1>2. ASSUME NEW x \in T PROVE x \in Seq(Nat) /\ Len(x) = 2
  <2> DEFINE a == x[1]
             b == x[2]
  <2>1. a \in Nat /\ b \in Nat /\ x = <<a, b>>
    BY <1>1
  <2> HIDE DEF a, b
  <2>2. <<a, b>> \in Seq(Nat) /\ Len(<<a, b>>) = 2
    BY <2>1
  <2> QED
    BY <2>1, <2>2
<1>3. \A x, y \in T : <<x, y>> \in R <=> LexLess(x, y)
  OBVIOUS
<1> HIDE DEF R
<1>4. \A x \in T : ~LexLess(x, x)
  BY <1>2, LexIsStrict
<1>5. \A x, y, z \in T : LexLess(x, y) /\ LexLess(y, z) => LexLess(x, z)
  <2> SUFFICES ASSUME NEW x \in T, NEW y \in T, NEW z \in T, LexLess(x, y), LexLess(y, z)
               PROVE  LexLess(x, z)
    OBVIOUS
  <2>1. /\ x \in Seq(Nat) /\ y \in Seq(Nat) /\ z \in Seq(Nat) /\ Len(x) = Len(y) /\ Len(y) = Len(z)
    BY <1>2
  <2> QED
    BY <2>1, LexIsTransitive
<1>6. PICK x \in T : \A y \in T : <<y, x>> \notin R
  BY <1>3, <1>4, <1>5, LeastOfAnOrder
<1>7. ASSUME NEW y \in T PROVE x = y \/ LexLess(x, y)
  <2>1. x \in Seq(Nat) /\ y \in Seq(Nat) /\ Len(x) = Len(y) /\ ~LexLess(y, x)
    BY <1>2, <1>3, <1>6
  <2> QED
    BY <2>1, LexIsTotal
<1> QED
  BY <1>7 DEF FirstPair

\* Couples of the parents, none of whom is in two.
Couples(parents) ==
    {C \in SUBSET SUBSET parents :
        /\ \A u \in C : \E a, b \in parents : a # b /\ u = {a, b}
        /\ \A u, v \in C : u = v \/ u \cap v = {}}

LEMMA OneMoreCouple ==
    ASSUME NEW parents, IsFiniteSet(parents), parents \subseteq Nat, NEW lead, NEW C \in Couples(parents)
    PROVE  OneMore(parents, lead, C) \in Couples(parents)
<1> DEFINE free == Unpaired(parents, lead, C)
           ab == FirstPair(free)
<1>1. CASE free = {}
  BY <1>1 DEF OneMore
<1>2. CASE free # {}
  <2>1. free \in SUBSET (parents \X parents) /\ \A x \in free : x \in Nat \X Nat
    BY DEF Unpaired
  <2>2. IsFiniteSet(free)
    <3>1. IsFiniteSet(parents \X parents)
      BY FS_Product
    <3> QED
      BY <2>1, <3>1, FS_Subset
  <2>3. ab \in free
    BY <1>2, <2>1, <2>2, FirstPairIs
  <2>4. ab[1] \in parents /\ ab[2] \in parents /\ ab[1] < ab[2] /\ {ab[1], ab[2]} \cap UNION C = {}
    BY <2>3 DEF Unpaired
  <2> HIDE DEF free, ab
  <2> DEFINE a == ab[1]
             b == ab[2]
             D == C \cup {{a, b}}
  <2>5. OneMore(parents, lead, C) = D
    BY <1>2 DEF OneMore, free, ab
  <2>6. a \in parents /\ b \in parents /\ a # b /\ {a, b} \cap UNION C = {}
    <3>0. ab[1] \in Nat /\ ab[2] \in Nat
      BY <2>4
    <3>1. a # b
      BY <2>4, <3>0
    <3> QED
      BY <2>4, <3>1
  <2> HIDE DEF a, b
  <2>7. \A u \in C : u \cap {a, b} = {}
    BY <2>6
  <2>8. /\ C \in SUBSET SUBSET parents
        /\ \A u \in C : \E x, y \in parents : x # y /\ u = {x, y}
        /\ \A u, v \in C : u = v \/ u \cap v = {}
    BY DEF Couples
  <2>9. D \in SUBSET SUBSET parents
    BY <2>6, <2>8
  <2>10. \A u \in D : \E x, y \in parents : x # y /\ u = {x, y}
    BY <2>6, <2>8
  <2>11. \A u, v \in D : u = v \/ u \cap v = {}
    <3> SUFFICES ASSUME NEW u \in D, NEW v \in D PROVE u = v \/ u \cap v = {}
      OBVIOUS
    <3>1. CASE u \in C /\ v \in C
      BY <2>8, <3>1
    <3>2. CASE u \in C /\ v = {a, b}
      BY <2>7, <3>2
    <3>3. CASE u = {a, b} /\ v \in C
      BY <2>7, <3>3
    <3> QED
      BY <3>1, <3>2, <3>3
  <2> HIDE DEF D
  <2> QED
    BY <2>5, <2>9, <2>10, <2>11 DEF Couples
<1> QED
  BY <1>1, <1>2

LEMMA MarriedAreCouples ==
    ASSUME NEW parents, IsFiniteSet(parents), parents \subseteq Nat, NEW lead
    PROVE  Married(parents, lead) \in Couples(parents)
<1> DEFINE S == Couples(parents)
           m == Cardinality(parents)
           none == {}
           next == [x \in (1..m) \X S |-> OneMore(parents, lead, x[2])]
           Solves(u) == u = [n \in 0..m |-> IF n = 0 THEN {} ELSE OneMore(parents, lead, u[n - 1])]
<1>1. m \in Nat /\ none \in S
  BY FS_CardinalityType DEF Couples
<1>2. next \in [(1..m) \X S -> S]
  BY OneMoreCouple
<1> HIDE DEF S, m, none, next, Solves
<1>3. PICK f \in [0..m -> S] : f[0] = none /\ Steps(f, m, next)
  BY <1>1, <1>2, StepsExist
<1>4. Solves(f)
  <2>1. ASSUME NEW n \in 0..m
        PROVE  f[n] = IF n = 0 THEN {} ELSE OneMore(parents, lead, f[n - 1])
    <3>1. CASE n = 0
      BY <1>3, <3>1 DEF none
    <3>2. CASE n # 0
      <4>1. n \in 1..m /\ f[n - 1] \in S
        BY <1>1, <1>3, <3>2
      <4>2. next[<<n, f[n - 1]>>] = OneMore(parents, lead, f[n - 1])
        BY <4>1 DEF next
      <4> QED
        BY <1>3, <3>2, <4>1, <4>2 DEF Steps
    <3> QED
      BY <3>1, <3>2
  <2> QED
    BY <1>3, <2>1 DEF Solves
<1> DEFINE u == CHOOSE u : Solves(u)
<1>5. Solves(u)
  BY <1>4
<1>6. Married(parents, lead) = u[m]
  BY DEF Married, Solves, m
<1> HIDE DEF u
<1>7. \A n \in 0..m : u[n] = IF n = 0 THEN {} ELSE OneMore(parents, lead, u[n - 1])
  BY <1>5 DEF Solves
<1> DEFINE T == {n \in 0..m : u[n] \in S}
<1>8. 0 \in T
  BY <1>1, <1>7 DEF none
<1>9. ASSUME NEW n \in 0..m, n < m, n \in T PROVE n + 1 \in T
  <2>1. n + 1 \in 0..m /\ n + 1 # 0 /\ (n + 1) - 1 = n /\ u[n] \in S
    BY <1>1, <1>9
  <2>2. u[n + 1] = OneMore(parents, lead, u[n])
    BY <1>7, <2>1
  <2>3. u[n + 1] \in S
    BY <2>1, <2>2, OneMoreCouple DEF S
  <2> QED
    BY <2>1, <2>3
<1> HIDE DEF T
<1>10. \A n \in 0..m : n \in T
  BY <1>1, <1>8, <1>9, NumbersUpTo
<1>11. m \in T
  BY <1>1, <1>10
<1> QED
  BY <1>6, <1>11 DEF T, S

\* Each parent is in one family, of one or two.
LEMMA UnitsPartition ==
    ASSUME NEW parents, IsFiniteSet(parents), parents \subseteq Nat, NEW lead
    PROVE  /\ \A u \in Units(parents, lead) : u \subseteq parents /\ Cardinality(u) \in {1, 2}
           /\ \A p \in parents : \E u \in Units(parents, lead) : p \in u
           /\ \A u, v \in Units(parents, lead) : u = v \/ u \cap v = {}
<1> DEFINE C == Married(parents, lead)
           left == parents \ UNION C
           rest == IF Cardinality(left) = 2 THEN {left} ELSE {{p} : p \in left}
<1>1. Units(parents, lead) = C \cup rest
  BY DEF Units
<1>2. /\ C \in SUBSET SUBSET parents
      /\ \A u \in C : \E a, b \in parents : a # b /\ u = {a, b}
      /\ \A u, v \in C : u = v \/ u \cap v = {}
  <2>1. C \in Couples(parents)
    BY MarriedAreCouples
  <2> HIDE DEF C
  <2> QED
    BY <2>1 DEF Couples
<1> HIDE DEF C
<1>3. \A u \in C : Cardinality(u) = 2
  <2> SUFFICES ASSUME NEW u \in C PROVE Cardinality(u) = 2
    OBVIOUS
  <2>1. PICK a, b \in parents : a # b /\ u = {a, b}
    BY <1>2
  <2>2. IsFiniteSet({a}) /\ Cardinality({a}) = 1
    BY FS_Singleton
  <2>3. {a, b} = {a} \cup {b}
    OBVIOUS
  <2>4. b \notin {a}
    BY <2>1
  <2>5. Cardinality({a} \cup {b}) = 1 + 1
    BY <2>2, <2>4, FS_AddElement
  <2> QED
    BY <2>1, <2>3, <2>5
<1>4. left \subseteq parents /\ \A u \in C : u \cap left = {}
  OBVIOUS
<1>5. \A p \in parents : p \in left \/ \E u \in C : p \in u
  OBVIOUS
<1> HIDE DEF left
<1>6. /\ \A u \in rest : u \subseteq left /\ Cardinality(u) \in {1, 2}
      /\ \A p \in left : \E u \in rest : p \in u
      /\ \A u, v \in rest : u = v \/ u \cap v = {}
  <2>1. CASE Cardinality(left) = 2
    BY <2>1
  <2>2. CASE Cardinality(left) # 2
    <3>1. \A p : Cardinality({p}) = 1
      BY FS_Singleton
    <3>2. rest = {{p} : p \in left}
      BY <2>2
    <3> HIDE DEF rest
    <3> QED
      BY <3>1, <3>2
  <2> QED
    BY <2>1, <2>2
<1> HIDE DEF rest
<1>7. \A u \in C \cup rest : u \subseteq parents /\ Cardinality(u) \in {1, 2}
  BY <1>2, <1>3, <1>4, <1>6
<1>8. \A p \in parents : \E u \in C \cup rest : p \in u
  BY <1>5, <1>6
<1>9. \A u, v \in C \cup rest : u = v \/ u \cap v = {}
  <2> SUFFICES ASSUME NEW u \in C \cup rest, NEW v \in C \cup rest PROVE u = v \/ u \cap v = {}
    OBVIOUS
  <2>1. CASE u \in C /\ v \in C
    BY <1>2, <2>1
  <2>2. CASE u \in rest /\ v \in rest
    BY <1>6, <2>2
  <2>3. CASE u \in C /\ v \in rest
    BY <1>4, <1>6, <2>3
  <2>4. CASE u \in rest /\ v \in C
    BY <1>4, <1>6, <2>4
  <2> QED
    BY <2>1, <2>2, <2>3, <2>4
<1> QED
  BY <1>1, <1>7, <1>8, <1>9

\* What EveryLinkExported says of a document.
Whole(d, edges) ==
    /\ \A f \in d.fam : f.spouses \subseteq d.indi /\ Cardinality(f.spouses) \in {1, 2}
    /\ \A k \in d.famc : k.family \in d.fam /\ k.child \in d.indi /\ k.child \notin k.family.spouses
    /\ \A l \in edges : Cardinality({k \in d.famc : k.child = l.child /\ l.parent \in k.family.spouses}) = 1
    /\ \A k \in d.famc : \A p \in k.family.spouses :
           [parent |-> p, child |-> k.child, type |-> k.pedi] \in edges

\* The parents of one type that some links give a child.
OfType(edges, c, t) == {l.parent : l \in {k \in edges : k.child = c /\ k.type = t}}
FamilyOf(u, lead) == [spouses |-> u, marriage |-> IF u \in DOMAIN lead THEN lead[u] ELSE NoMarriage]

LEMMA OfTypeIs ==
    ASSUME NEW edges, \A l \in edges : l = [parent |-> l.parent, child |-> l.child, type |-> l.type],
           NEW p, NEW c, NEW t
    PROVE  p \in OfType(edges, c, t) <=> [parent |-> p, child |-> c, type |-> t] \in edges
  BY DEF OfType

LEMMA ChildLinksAre ==
    ASSUME NEW edges, NEW lead
    PROVE  \A k : k \in ChildLinks(edges, lead) <=>
             \E c \in {l.child : l \in edges} : \E t \in {l.type : l \in edges} :
                \E u \in Units(OfType(edges, c, t), lead) :
                   k = [child |-> c, pedi |-> t, family |-> FamilyOf(u, lead)]
<1> DEFINE Of(c, t) == {[child |-> c, pedi |-> t, family |-> FamilyOf(u, lead)] : u \in Units(OfType(edges, c, t), lead)}
<1>1. ChildLinks(edges, lead) =
        UNION {UNION {Of(c, t) : t \in {l.type : l \in edges}} : c \in {l.child : l \in edges}}
  BY DEF ChildLinks, OfType, FamilyOf
<1> HIDE DEF Of
<1>2. \A k : k \in ChildLinks(edges, lead) <=>
               \E c \in {l.child : l \in edges} : \E t \in {l.type : l \in edges} : k \in Of(c, t)
  <2> DEFINE types == {l.type : l \in edges}
             kids == {l.child : l \in edges}
             All(c) == UNION {Of(c, t) : t \in types}
  <2>1. \A c, k : k \in All(c) <=> \E t \in types : k \in Of(c, t)
    OBVIOUS
  <2>2. \A k : k \in ChildLinks(edges, lead) <=> \E c \in kids : k \in All(c)
    BY <1>1
  <2> HIDE DEF types, kids, All
  <2>3. \A k : k \in ChildLinks(edges, lead) <=> \E c \in kids : \E t \in types : k \in Of(c, t)
    BY <2>1, <2>2
  <2> QED
    BY <2>3 DEF types, kids
<1>3. \A k, c, t : k \in Of(c, t) <=> \E u \in Units(OfType(edges, c, t), lead) :
                                        k = [child |-> c, pedi |-> t, family |-> FamilyOf(u, lead)]
  BY DEF Of
<1> QED
  BY <1>2, <1>3

LEMMA DocumentsAreWhole ==
    ASSUME NEW persons \in SUBSET Persons, NEW wedlocks, NEW ls, LinkedOnce(ls), NEW lead
    PROVE  Whole(Gedcom(persons, wedlocks, ls, lead), LiveEdges(persons, ls))
<1> DEFINE edges == LiveEdges(persons, ls)
           famc == ChildLinks(edges, lead)
           fam == MarriageFamilies(LiveMarriages(persons, wedlocks)) \cup {k.family : k \in famc}
           d == Gedcom(persons, wedlocks, ls, lead)
<1>1. d.indi = persons /\ d.famc = famc /\ d.fam = fam
  BY DEF Gedcom
<1>2. /\ edges \subseteq ls
      /\ \A l \in edges : /\ l = [parent |-> l.parent, child |-> l.child, type |-> l.type]
                          /\ l.parent # l.child /\ l.parent \in persons /\ l.child \in persons
                          /\ \A k \in edges : k.parent = l.parent /\ k.child = l.child => k = l
  BY DEF LiveEdges, LinkedOnce
<1> HIDE DEF edges
<1>3. \A c, t : OfType(edges, c, t) \subseteq Nat /\ IsFiniteSet(OfType(edges, c, t))
                /\ OfType(edges, c, t) \subseteq persons
  <2> SUFFICES ASSUME NEW c, NEW t
               PROVE  OfType(edges, c, t) \subseteq Nat /\ IsFiniteSet(OfType(edges, c, t))
                      /\ OfType(edges, c, t) \subseteq persons
    OBVIOUS
  <2>1. OfType(edges, c, t) \subseteq persons
    BY <1>2 DEF OfType
  <2>2. OfType(edges, c, t) \in SUBSET Persons /\ Persons \subseteq Nat
    BY <2>1, PersonsAreNumbers
  <2> QED
    BY <2>1, <2>2, SearchesAreBounded, FS_Subset
<1>4. \A c, t : /\ \A u \in Units(OfType(edges, c, t), lead) : u \subseteq OfType(edges, c, t) /\ Cardinality(u) \in {1, 2}
                /\ \A p \in OfType(edges, c, t) : \E u \in Units(OfType(edges, c, t), lead) : p \in u
                /\ \A u, v \in Units(OfType(edges, c, t), lead) : u = v \/ u \cap v = {}
  BY <1>3, UnitsPartition
<1>5. \A p, c, t : p \in OfType(edges, c, t) <=> [parent |-> p, child |-> c, type |-> t] \in edges
  BY <1>2, OfTypeIs
<1> HIDE DEF famc
<1>6. ASSUME NEW k \in famc
      PROVE  \E u : /\ k = [child |-> k.child, pedi |-> k.pedi, family |-> FamilyOf(u, lead)]
                    /\ k.family.spouses = u /\ u \in Units(OfType(edges, k.child, k.pedi), lead)
                    /\ k.child \in {l.child : l \in edges}
  <2>1. PICK c \in {l.child : l \in edges}, t \in {l.type : l \in edges} :
           \E u \in Units(OfType(edges, c, t), lead) :
              k = [child |-> c, pedi |-> t, family |-> FamilyOf(u, lead)]
    BY ChildLinksAre DEF famc
  <2>2. PICK u \in Units(OfType(edges, c, t), lead) : k = [child |-> c, pedi |-> t, family |-> FamilyOf(u, lead)]
    BY <2>1
  <2>3. k.child = c /\ k.pedi = t /\ k.family = FamilyOf(u, lead) /\ FamilyOf(u, lead).spouses = u
    BY <2>2 DEF FamilyOf
  <2> QED
    BY <2>2, <2>3
<1>7. ASSUME NEW k \in famc
      PROVE  /\ k.family.spouses \subseteq OfType(edges, k.child, k.pedi)
             /\ k.family.spouses \subseteq persons /\ Cardinality(k.family.spouses) \in {1, 2}
             /\ k.child \in persons /\ k.child \notin k.family.spouses
  <2>1. PICK u : /\ k.family.spouses = u /\ u \in Units(OfType(edges, k.child, k.pedi), lead)
                 /\ k.child \in {l.child : l \in edges}
    BY <1>6
  <2>2. u \subseteq OfType(edges, k.child, k.pedi) /\ Cardinality(u) \in {1, 2}
    BY <1>4, <2>1
  <2>3. u \subseteq persons
    BY <1>3, <2>2
  <2>4. k.child \in persons
    BY <1>2, <2>1
  <2>5. k.child \notin u
    <3> SUFFICES ASSUME k.child \in u PROVE FALSE
      OBVIOUS
    <3> DEFINE l == [parent |-> k.child, child |-> k.child, type |-> k.pedi]
    <3>1. l \in edges /\ l.parent = l.child
      BY <1>5, <2>2
    <3> QED
      BY <1>2, <3>1
  <2> QED
    BY <2>1, <2>2, <2>3, <2>4, <2>5
<1>8. \A f \in fam : f.spouses \subseteq persons /\ Cardinality(f.spouses) \in {1, 2}
  <2>1. ASSUME NEW f \in MarriageFamilies(LiveMarriages(persons, wedlocks))
        PROVE  f.spouses \subseteq persons /\ Cardinality(f.spouses) \in {1, 2}
    <3>1. PICK m \in LiveMarriages(persons, wedlocks) : f = [spouses |-> Pair(m), marriage |-> m]
      BY DEF MarriageFamilies
    <3>2. f.spouses = {m.p1, m.p2} /\ {m.p1, m.p2} \subseteq persons
      BY <3>1 DEF LiveMarriages, Pair
    <3> DEFINE a == m.p1
               b == m.p2
    <3>3. IsFiniteSet({a}) /\ Cardinality({a}) = 1 /\ {a, b} = {a} \cup {b}
      BY FS_Singleton
    <3> HIDE DEF a, b
    <3>4. Cardinality({a} \cup {b}) = IF b \in {a} THEN 1 ELSE 1 + 1
      BY <3>3, FS_AddElement
    <3>5. Cardinality({a, b}) \in {1, 2}
      BY <3>3, <3>4
    <3> QED
      BY <3>2, <3>5 DEF a, b
  <2>2. ASSUME NEW f \in {k.family : k \in famc}
        PROVE  f.spouses \subseteq persons /\ Cardinality(f.spouses) \in {1, 2}
    BY <1>7
  <2> QED
    BY <2>1, <2>2
<1>9. \A k \in famc : k.family \in fam
  OBVIOUS
<1>10. ASSUME NEW l \in edges
       PROVE  Cardinality({k \in famc : k.child = l.child /\ l.parent \in k.family.spouses}) = 1
  <2> DEFINE p == l.parent
             c == l.child
             t == l.type
             K == {k \in famc : k.child = c /\ p \in k.family.spouses}
  <2>1. l = [parent |-> p, child |-> c, type |-> t] /\ c \in {e.child : e \in edges} /\ t \in {e.type : e \in edges}
    BY <1>2
  <2>2. p \in OfType(edges, c, t)
    BY <1>5, <2>1
  <2>3. PICK u \in Units(OfType(edges, c, t), lead) : p \in u
    BY <1>4, <2>2
  <2> DEFINE k0 == [child |-> c, pedi |-> t, family |-> FamilyOf(u, lead)]
  <2>4. k0 \in famc
    BY <2>1, ChildLinksAre DEF famc
  <2>5. k0.child = c /\ k0.family.spouses = u
    BY DEF FamilyOf
  <2>6. k0 \in K
    BY <2>3, <2>4, <2>5
  <2>7. ASSUME NEW k \in K PROVE k = k0
    <3>1. PICK v : /\ k = [child |-> k.child, pedi |-> k.pedi, family |-> FamilyOf(v, lead)]
                   /\ k.family.spouses = v /\ v \in Units(OfType(edges, k.child, k.pedi), lead)
      BY <1>6
    <3>2. k.child = c /\ p \in v
      BY <3>1
    <3>3. p \in OfType(edges, c, k.pedi)
      BY <1>4, <3>1, <3>2
    <3> DEFINE e == [parent |-> p, child |-> c, type |-> k.pedi]
    <3>4. e \in edges /\ e.parent = l.parent /\ e.child = l.child /\ e.type = k.pedi
      BY <1>5, <3>3
    <3>5. k.pedi = t
      BY <1>2, <3>4
    <3>6. v = u
      BY <1>4, <2>3, <3>1, <3>2, <3>5
    <3> QED
      BY <3>1, <3>2, <3>5, <3>6
  <2> HIDE DEF k0, K
  <2>8. K = {k0}
    BY <2>6, <2>7
  <2>9. Cardinality(K) = 1
    BY <2>8, FS_Singleton
  <2> QED
    BY <2>9 DEF K
<1>11. ASSUME NEW k \in famc, NEW p \in k.family.spouses
       PROVE  [parent |-> p, child |-> k.child, type |-> k.pedi] \in edges
  BY <1>5, <1>7
<1> HIDE DEF fam, d
<1>12. Whole(d, edges)
  BY <1>1, <1>7, <1>8, <1>9, <1>10, <1>11 DEF Whole
<1> QED
  BY <1>12 DEF d, edges

\* The links are linked once, and the document is made of what two statements have read.
ExportIInv ==
    /\ LinkedOnce(links)
    /\ read.kind = "export" =>
         /\ read.at \in {"persons", "marriages", "links", "founder", "map", "done"}
         /\ read.at \in {"marriages", "links"} => got.persons \subseteq Persons
         /\ read.at \in {"founder", "map", "done"} => Whole(got.document, got.edges)

LEMMA EditsLinkOnce ==
    ASSUME Edit, LinkedOnce(links)
    PROVE  LinkedOnce(links')
<1>1. CASE \E p, q \in Persons : \E t \in Types : AddLink(p, q, t)
  <2>1. PICK p \in Persons, q \in Persons, t \in Types : AddLink(p, q, t)
    BY <1>1
  <2> DEFINE n == [parent |-> p, child |-> q, type |-> t]
  <2>2. links' = links \cup {n} /\ p # q /\ p \notin Elders(links, q)
    BY <2>1 DEF AddLink
  <2>3. n.parent = p /\ n.child = q /\ n = [parent |-> n.parent, child |-> n.child, type |-> n.type]
    OBVIOUS
  <2>4. \A k \in links : ~(k.parent = p /\ k.child = q)
    BY <2>2 DEF Elders
  <2> HIDE DEF n
  <2> QED
    BY <2>2, <2>3, <2>4 DEF LinkedOnce
<1>2. CASE \E l \in links : \E t \in Types : RetypeLink(l, t)
  <2>1. PICK l \in links, t \in Types : RetypeLink(l, t)
    BY <1>2
  <2> DEFINE n == [l EXCEPT !.type = t]
  <2>2. links' = (links \ {l}) \cup {n}
    BY <2>1 DEF RetypeLink
  <2>3. /\ l = [parent |-> l.parent, child |-> l.child, type |-> l.type] /\ l.parent # l.child
        /\ \A k \in links : k.parent = l.parent /\ k.child = l.child => k = l
    BY DEF LinkedOnce
  <2>4. n.parent = l.parent /\ n.child = l.child /\ n = [parent |-> n.parent, child |-> n.child, type |-> n.type]
    BY <2>3
  <2> HIDE DEF n
  <2> QED
    BY <2>2, <2>3, <2>4 DEF LinkedOnce
<1>3. CASE \E l \in links : RemoveLink(l)
  BY <1>3 DEF RemoveLink, LinkedOnce
<1>4. CASE UNCHANGED links
  BY <1>4
<1>5. \/ \E p, q \in Persons : \E t \in Types : AddLink(p, q, t)
      \/ \E l \in links : \E t \in Types : RetypeLink(l, t)
      \/ \E l \in links : RemoveLink(l)
      \/ UNCHANGED links
  BY DEF Edit, Marry, DeletePerson, RestorePerson, Designate, Divorce
<1> QED
  BY <1>1, <1>2, <1>3, <1>4, <1>5

\* A statement of a read changes no link.
LEMMA ReadsKeepLinks ==
    ASSUME Read
    PROVE  UNCHANGED links
  BY DEF Read, Begin, ReadChain, ReadFounder, ReadMap, ReadRows, ReadSpouses, ReadMore, ReadRound, EndPath,
         ReadExportPersons, ReadExportMarriages, ReadExportLinks, Stay, graph

\* The statements of the export, one after the other
LEMMA ExportGoesOn ==
    ASSUME SearchIInv, ExportIInv, read.kind = "export",
           ReadChain \/ ReadFounder \/ ReadMap \/ ReadRows \/ ReadSpouses \/ ReadMore \/ ReadRound \/ EndPath
             \/ ReadExportPersons \/ ReadExportMarriages \/ ReadExportLinks
    PROVE  ExportIInv'
<1>0. LinkedOnce(links)'
  <2>1. UNCHANGED links
    BY ReadsKeepLinks DEF Read
  <2> QED
    BY <2>1 DEF ExportIInv
<1>1. DOMAIN read = DOMAIN Idle /\ DOMAIN got = DOMAIN Nothing /\ alive \subseteq Persons
  BY DEF SearchIInv
<1>2. /\ LinkedOnce(links)
      /\ read.at \in {"persons", "marriages", "links", "founder", "map", "done"}
      /\ read.at \in {"marriages", "links"} => got.persons \subseteq Persons
      /\ read.at \in {"founder", "map", "done"} => Whole(got.document, got.edges)
  BY DEF ExportIInv
<1>3. ReadFounder \/ ReadMap \/ ReadExportPersons \/ ReadExportMarriages \/ ReadExportLinks
  BY <1>2 DEF ReadChain, ReadRows, ReadSpouses, ReadMore, ReadRound, EndPath, At
<1>4. CASE ReadExportPersons
  <2>1. Answer("marriages", [got EXCEPT !.persons = alive])
    BY <1>4 DEF ReadExportPersons
  <2>2. read'.at = "marriages" /\ got' = [got EXCEPT !.persons = alive]
    BY <1>1, <2>1, AnswersKeepTheRead
  <2>3. got'.persons = alive
    BY <1>1, <2>2 DEF Nothing
  <2> QED
    BY <1>0, <1>1, <2>2, <2>3 DEF ExportIInv
<1>5. CASE ReadExportMarriages
  <2>1. Answer("links", [got EXCEPT !.marriages = marriages]) /\ read.at = "marriages"
    BY <1>5 DEF ReadExportMarriages, At
  <2>2. read'.at = "links" /\ got' = [got EXCEPT !.marriages = marriages]
    BY <1>1, <2>1, AnswersKeepTheRead
  <2>3. got'.persons = got.persons
    BY <1>1, <2>2 DEF Nothing
  <2> QED
    BY <1>0, <1>2, <2>1, <2>2, <2>3 DEF ExportIInv
<1>6. CASE ReadExportLinks
  <2>0. read.at = "links"
    BY <1>6 DEF ReadExportLinks, At
  <2>1. PICK lead : Answer("founder", [got EXCEPT !.document = Gedcom(got.persons, got.marriages, links, lead),
                                                  !.edges = LiveEdges(got.persons, links)])
    BY <1>6 DEF ReadExportLinks
  <2> DEFINE d == Gedcom(got.persons, got.marriages, links, lead)
             edges == LiveEdges(got.persons, links)
  <2>2. Whole(d, edges)
    BY <1>2, <2>0, DocumentsAreWhole
  <2> HIDE DEF d, edges
  <2>3. read'.at = "founder" /\ got' = [got EXCEPT !.document = d, !.edges = edges]
    BY <1>1, <2>1, AnswersKeepTheRead DEF d, edges
  <2>4. got'.document = d /\ got'.edges = edges
    BY <1>1, <2>3 DEF Nothing
  <2> QED
    BY <1>0, <2>2, <2>3, <2>4 DEF ExportIInv
<1>7. CASE ReadFounder \/ ReadMap
  <2>1. Whole(got.document, got.edges)
    BY <1>2, <1>7 DEF ReadFounder, ReadMap, At
  <2>2. PICK f, g : \/ Answer("map", [got EXCEPT !.founder = f])
                    \/ Answer("done", [got EXCEPT !.doi = g])
    BY <1>7 DEF ReadFounder, ReadMap
  <2>3. read'.at \in {"map", "done"} /\ (got' = [got EXCEPT !.founder = f] \/ got' = [got EXCEPT !.doi = g])
    BY <1>1, <2>2, AnswersKeepTheRead
  <2>4. got'.document = got.document /\ got'.edges = got.edges
    BY <1>1, <2>3 DEF Nothing
  <2>5. read'.at \notin {"marriages", "links"} /\ read'.at \in {"persons", "marriages", "links", "founder", "map", "done"}
    BY <2>3
  <2> QED
    BY <1>0, <2>1, <2>4, <2>5 DEF ExportIInv
<1> QED
  BY <1>3, <1>4, <1>5, <1>6, <1>7

LEMMA NextExportIInv == ASSUME SearchIInv, ExportIInv, [Next]_vars PROVE ExportIInv'
<1>1. CASE Edit
  <2>1. read' = read /\ got' = got
    BY <1>1, EditsAreSeen
  <2>2. LinkedOnce(links)'
    BY <1>1, EditsLinkOnce DEF ExportIInv, LinkedOnce
  <2> QED
    BY <2>1, <2>2 DEF ExportIInv
<1>2. CASE \E kind \in Kinds : \E p, q \in Persons \cup {None} : Begin(kind, p, q)
  <2>1. PICK kind, p, q : read' = [kind |-> kind, at |-> FirstOf(kind), from |-> p, to |-> q]
    BY <1>2 DEF Begin
  <2>2. read'.kind = kind /\ read'.at = FirstOf(kind)
    BY <2>1
  <2>3. kind = "export" => read'.at = "persons"
    BY <2>2 DEF FirstOf
  <2>4. UNCHANGED links
    BY <1>2, ReadsKeepLinks DEF Read
  <2> QED
    BY <2>2, <2>3, <2>4 DEF ExportIInv
<1>3. CASE ReadChain \/ ReadFounder \/ ReadMap \/ ReadRows \/ ReadSpouses \/ ReadMore \/ ReadRound \/ EndPath
             \/ ReadExportPersons \/ ReadExportMarriages \/ ReadExportLinks
  <2>1. CASE read.kind = "export"
    BY <1>3, <2>1, ExportGoesOn
  <2>2. CASE read.kind # "export"
    <3>1. read'.kind # "export"
      <4>0. DOMAIN read = DOMAIN Idle
        BY DEF SearchIInv
      <4>1. CASE ReadFounder /\ read.kind = "full"
        <5>1. read'.kind = read.kind
          BY <4>0, <4>1 DEF ReadFounder, Idle
        <5> QED
          BY <2>2, <5>1
      <4>2. CASE ReadRound
        BY <2>2, <4>2 DEF ReadRound
      <4>3. CASE ~(ReadFounder /\ read.kind = "full") /\ ~ReadRound
        <5>1. \E step, pieces : Answer(step, pieces)
          BY <1>3, <4>3 DEF ReadChain, ReadFounder, ReadMap, ReadRows, ReadSpouses, ReadMore, EndPath,
                 ReadExportPersons, ReadExportMarriages, ReadExportLinks
        <5> QED
          BY <2>2, <4>0, <5>1, AnswersKeepTheRead
      <4> QED
        BY <4>1, <4>2, <4>3
    <3>2. UNCHANGED links
      BY <1>3, ReadsKeepLinks DEF Read
    <3> QED
      BY <3>1, <3>2 DEF ExportIInv
  <2> QED
    BY <2>1, <2>2
<1>4. CASE UNCHANGED vars
  BY <1>4 DEF vars, graph, ExportIInv
<1> QED
  BY <1>1, <1>2, <1>3, <1>4 DEF Next, Read

\* Whatever editors commit between the statements of an export, its document is whole
\* (gedcom_export.py, build_gedcom; export_query_port.py).
THEOREM EveryLinkAlwaysExported == Spec => []EveryLinkExported
<1>1. Init => ExportIInv
  BY FamiliesAreLinkedOnce DEF Init, ExportIInv, Idle
<1>2. SearchIInv /\ ExportIInv /\ [Next]_vars => ExportIInv'
  BY NextExportIInv
<1>3. ExportIInv => EveryLinkExported
  BY DEF ExportIInv, EveryLinkExported, Whole
<1> QED
  BY <1>1, <1>2, <1>3, SearchInvariant, PTL DEF Spec

-----------------------------------------------------------------------------
(* The trees *)

\* Who is one step further.
Onward(steps, P) == {s[2] : s \in {t \in steps : t[1] \in P}}

StepsWithin(S, steps) == \A P : Onward(steps, P) \in SUBSET S

\* What the rounds of a walk are: the recursion has a solution.
LEMMA RoundsAre ==
    ASSUME NEW S, NEW steps, StepsWithin(S, steps),
           NEW p \in S, NEW n \in Nat, NEW lv, lv = Rounds(steps, p, n)
    PROVE  /\ lv \in [0..n -> SUBSET S]
           /\ lv[0] = {p}
           /\ \A i \in 1..n : lv[i] = Onward(steps, lv[i - 1])
<1> DEFINE next == [x \in (1..n) \X SUBSET S |-> Onward(steps, x[2])]
           Solves(u) == u = [i \in 0..n |-> IF i = 0 THEN {p} ELSE Onward(steps, u[i - 1])]
<1>1. \A P : Onward(steps, P) \in SUBSET S
  BY DEF StepsWithin
<1>2. next \in [(1..n) \X SUBSET S -> SUBSET S] /\ {p} \in SUBSET S
  BY <1>1
<1>3. \A i \in 1..n : \A P \in SUBSET S : next[<<i, P>>] = Onward(steps, P)
  OBVIOUS
<1> HIDE DEF next
<1>4. PICK f \in [0..n -> SUBSET S] : f[0] = {p} /\ Steps(f, n, next)
  BY <1>2, StepsExist
<1>5. Solves(f)
  <2>1. ASSUME NEW i \in 0..n
        PROVE  f[i] = IF i = 0 THEN {p} ELSE Onward(steps, f[i - 1])
    <3>1. CASE i = 0
      BY <1>4, <3>1
    <3>2. CASE i # 0
      <4>1. i \in 1..n /\ f[i - 1] \in SUBSET S
        BY <1>4, <3>2
      <4> QED
        BY <1>3, <1>4, <3>2, <4>1 DEF Steps
    <3> QED
      BY <3>1, <3>2
  <2> QED
    BY <1>4, <2>1
<1> DEFINE u == CHOOSE u : Solves(u)
<1>6. Solves(u)
  BY <1>5
<1>7. lv = u
  BY DEF Rounds, Onward
<1> HIDE DEF u
<1>8. \A i \in 0..n : lv[i] = IF i = 0 THEN {p} ELSE Onward(steps, lv[i - 1])
  BY <1>6, <1>7
<1>9. DOMAIN lv = 0..n /\ lv = [i \in 0..n |-> lv[i]]
  BY <1>6, <1>7
<1>10. lv[0] = {p} /\ \A i \in 1..n : lv[i] = Onward(steps, lv[i - 1])
  BY <1>8
<1>11. ASSUME NEW i \in 0..n PROVE lv[i] \in SUBSET S
  BY <1>1, <1>8
<1> QED
  BY <1>9, <1>10, <1>11

\* What a person has below him.
LEMMA StepsAreDown ==
    ASSUME NEW ls, Typed(ls)
    PROVE  /\ StepsWithin(Persons, Down(ls))
           /\ \A P : Onward(Down(ls), P) = {l.child : l \in {k \in ls : k.parent \in P}}
<1>1. StepsWithin(Persons, Down(ls))
  <2>1. \A s \in Down(ls) : s[2] \in Persons
    BY DEF Down, Typed
  <2> QED
    BY <2>1 DEF Onward, StepsWithin
<1>2. ASSUME NEW P PROVE Onward(Down(ls), P) = {l.child : l \in {k \in ls : k.parent \in P}}
  <2>1. ASSUME NEW x \in Onward(Down(ls), P) PROVE \E l \in ls : l.parent \in P /\ x = l.child
    <3>1. PICK s \in Down(ls) : s[1] \in P /\ x = s[2]
      BY DEF Onward
    <3> QED
      BY <3>1 DEF Down
  <2>2. ASSUME NEW l \in ls, l.parent \in P PROVE l.child \in Onward(Down(ls), P)
    <3>1. <<l.parent, l.child>> \in Down(ls)
      BY DEF Down
    <3> QED
      BY <2>2, <3>1 DEF Onward
  <2> QED
    BY <2>1, <2>2
<1> QED
  BY <1>1, <1>2

\* The links lead from the set into it.
Closed(ls, C) == \A l \in ls : l.parent \in C => l.child \in C

LEMMA ReachableIsLeast ==
    ASSUME NEW ls, Typed(ls), NEW p \in Persons
    PROVE  /\ p \in Reachable(ls, p)
           /\ Reachable(ls, p) \subseteq Persons
           /\ \A C : p \in C /\ Closed(ls, C) => Reachable(ls, p) \subseteq C
           /\ \A x \in Reachable(ls, p) : x = p \/ \E l \in ls : l.child = x /\ l.parent \in Reachable(ls, p)
<1> DEFINE n == Longest(ls)
           lv == Rounds(Down(ls), p, n)
<1>0. n \in Nat
  <2>1. {l.child : l \in ls} \in SUBSET Persons
    BY DEF Typed
  <2> QED
    BY <2>1, SearchesAreBounded, FS_Subset, FS_CardinalityType DEF Longest
<1>1. Reachable(ls, p) = UNION {lv[i] : i \in 0..n}
  BY DEF Reachable
<1>2. /\ lv \in [0..n -> SUBSET Persons] /\ lv[0] = {p}
      /\ \A i \in 1..n : lv[i] = Onward(Down(ls), lv[i - 1])
  <2>1. StepsWithin(Persons, Down(ls)) /\ lv = Rounds(Down(ls), p, n)
    BY StepsAreDown
  <2> HIDE DEF n, lv
  <2> QED
    BY <1>0, <2>1, RoundsAre
<1>3. \A i \in 1..n : lv[i] = {l.child : l \in {k \in ls : k.parent \in lv[i - 1]}}
  BY <1>2, StepsAreDown
<1> HIDE DEF n, lv
<1>4. ASSUME NEW C, p \in C, Closed(ls, C) PROVE Reachable(ls, p) \subseteq C
  <2> DEFINE T == {i \in 0..n : lv[i] \subseteq C}
  <2>1. 0 \in T
    BY <1>0, <1>2, <1>4
  <2>2. ASSUME NEW i \in 0..n, i < n, i \in T PROVE i + 1 \in T
    <3>1. i + 1 \in 1..n /\ (i + 1) - 1 = i
      BY <1>0, <2>2
    <3>2. lv[i + 1] = {l.child : l \in {k \in ls : k.parent \in lv[i]}}
      BY <1>3, <3>1
    <3> QED
      BY <1>4, <2>2, <3>1, <3>2 DEF Closed
  <2> HIDE DEF T
  <2>3. \A i \in 0..n : i \in T
    BY <1>0, <2>1, <2>2, NumbersUpTo
  <2> QED
    BY <1>1, <2>3 DEF T
<1>5. ASSUME NEW x \in Reachable(ls, p), x # p PROVE \E l \in ls : l.child = x /\ l.parent \in Reachable(ls, p)
  <2>1. PICK i \in 0..n : x \in lv[i]
    BY <1>1
  <2>2. i \in 1..n /\ i - 1 \in 0..n
    BY <1>0, <1>2, <1>5, <2>1
  <2> QED
    BY <1>1, <1>3, <2>1, <2>2
<1>6. p \in Reachable(ls, p)
  BY <1>0, <1>1, <1>2
<1>7. Reachable(ls, p) \subseteq Persons
  BY <1>1, <1>2
<1> QED
  BY <1>4, <1>5, <1>6, <1>7

\* The walk goes for as many rounds as there are children, and comes to everyone below:
\* a round that adds nobody is the last to add any, and each of the others adds one.
LEMMA ReachableIsClosed ==
    ASSUME NEW ls, Typed(ls), NEW p \in Persons
    PROVE  Closed(ls, Reachable(ls, p))
<1> DEFINE K == {l.child : l \in ls}
           n == Longest(ls)
           lv == Rounds(Down(ls), p, n)
           V(i) == UNION {lv[j] : j \in 0..i}
<1>1. K \in SUBSET Persons /\ n = Cardinality(K)
  BY DEF Typed, Longest
<1>2. IsFiniteSet(K) /\ n \in Nat
  BY <1>1, SearchesAreBounded, FS_Subset, FS_CardinalityType
<1>3. Reachable(ls, p) = V(n)
  BY DEF Reachable
<1>4. /\ lv \in [0..n -> SUBSET Persons] /\ lv[0] = {p}
      /\ \A i \in 1..n : lv[i] = {l.child : l \in {k \in ls : k.parent \in lv[i - 1]}}
  <2>1. StepsWithin(Persons, Down(ls)) /\ lv = Rounds(Down(ls), p, n)
    BY StepsAreDown
  <2> HIDE DEF n, lv, K
  <2>2. /\ lv \in [0..n -> SUBSET Persons] /\ lv[0] = {p}
        /\ \A i \in 1..n : lv[i] = Onward(Down(ls), lv[i - 1])
    BY <1>2, <2>1, RoundsAre
  <2> QED
    BY <2>2, StepsAreDown
<1> HIDE DEF n, lv, K
<1>5. ASSUME NEW i \in 0..n PROVE V(i) \in SUBSET (K \cup {p}) /\ p \in V(i)
  <2>1. \A j \in 1..n : lv[j] \subseteq K
    BY <1>4 DEF K
  <2>2. \A j \in 0..i : j = 0 \/ j \in 1..n
    BY <1>2
  <2>3. 0 \in 0..i
    BY <1>2
  <2> QED
    BY <1>4, <2>1, <2>2, <2>3
<1>6. ASSUME NEW i \in 0..n, i < n
      PROVE  i + 1 \in 0..n /\ V(i) \subseteq V(i + 1)
             /\ \A l \in ls : l.parent \in V(i) => l.child \in V(i + 1)
  <2>1. i + 1 \in 0..n /\ \A j \in 0..i : j \in 0..(i + 1) /\ j + 1 \in 0..(i + 1)
    BY <1>2, <1>6
  <2>2. ASSUME NEW l \in ls, l.parent \in V(i) PROVE l.child \in V(i + 1)
    <3>1. PICK j \in 0..i : l.parent \in lv[j]
      BY <2>2
    <3>2. j + 1 \in 1..n /\ (j + 1) - 1 = j
      BY <1>2, <1>6
    <3>3. l.child \in lv[j + 1]
      BY <1>4, <3>1, <3>2
    <3> QED
      BY <2>1, <3>3
  <2> QED
    BY <2>1, <2>2
<1>7. ASSUME NEW i \in 0..n, Closed(ls, V(i)) PROVE V(n) = V(i)
  <2> DEFINE T == {j \in 0..n : lv[j] \subseteq V(i)}
  <2>1. 0 \in T
    BY <1>2, <1>4, <1>5
  <2>2. ASSUME NEW j \in 0..n, j < n, j \in T PROVE j + 1 \in T
    <3>1. j + 1 \in 1..n /\ (j + 1) - 1 = j
      BY <1>2, <2>2
    <3>2. lv[j + 1] = {l.child : l \in {k \in ls : k.parent \in lv[j]}}
      BY <1>4, <3>1
    <3> QED
      BY <1>7, <2>2, <3>1, <3>2 DEF Closed
  <2> HIDE DEF T
  <2>3. \A j \in 0..n : j \in T
    BY <1>2, <2>1, <2>2, NumbersUpTo
  <2>4. \A j \in 0..i : j \in 0..n
    BY <1>2
  <2> QED
    BY <2>3, <2>4 DEF T
<1> HIDE DEF V
<1>8. \E i \in 0..n : Closed(ls, V(i))
  <2> SUFFICES ASSUME \A i \in 0..n : ~Closed(ls, V(i)) PROVE FALSE
    OBVIOUS
  <2>1. IsFiniteSet(K \cup {p}) /\ Cardinality(K \cup {p}) \in Nat /\ Cardinality(K \cup {p}) <= n + 1
    <3>1. IsFiniteSet(K \cup {p}) /\ (Cardinality(K \cup {p}) = Cardinality(K) \/ Cardinality(K \cup {p}) = Cardinality(K) + 1)
      BY <1>2, FS_AddElement
    <3> QED
      BY <1>1, <1>2, <3>1
  <2>2. \A i \in 0..n : IsFiniteSet(V(i)) /\ Cardinality(V(i)) \in Nat
    BY <1>5, <2>1, FS_Subset, FS_CardinalityType
  <2>3. ASSUME NEW i \in 0..n PROVE \E x \in K : x \notin V(i) /\ (i < n => x \in V(i + 1))
    <3>1. PICK l \in ls : l.parent \in V(i) /\ l.child \notin V(i)
      BY DEF Closed
    <3> QED
      BY <1>6, <3>1 DEF K
  <2> DEFINE T == {i \in 0..n : Cardinality(V(i)) >= i + 1}
  <2>4. 0 \in T
    <3>1. p \in V(0) /\ 0 \in 0..n
      BY <1>2, <1>5
    <3>2. Cardinality(V(0)) # 0
      BY <2>2, <3>1, FS_EmptySet
    <3> QED
      BY <2>2, <3>1, <3>2
  <2>5. ASSUME NEW i \in 0..n, i < n, i \in T PROVE i + 1 \in T
    <3>1. V(i) \subseteq V(i + 1) /\ V(i) # V(i + 1) /\ i + 1 \in 0..n
      BY <1>6, <2>3, <2>5
    <3>2. Cardinality(V(i)) <= Cardinality(V(i + 1)) /\ Cardinality(V(i)) # Cardinality(V(i + 1))
      BY <2>2, <3>1, FS_Subset
    <3> QED
      BY <2>2, <2>5, <3>1, <3>2
  <2> HIDE DEF T
  <2>6. n \in T
    BY <1>2, <2>4, <2>5, NumbersUpTo
  <2>7. PICK x \in K : x \notin V(n)
    BY <1>2, <2>3
  <2>8. V(n) \subseteq K \cup {p} /\ V(n) # K \cup {p}
    BY <1>2, <1>5, <2>7
  <2>9. Cardinality(V(n)) <= Cardinality(K \cup {p}) /\ Cardinality(V(n)) # Cardinality(K \cup {p})
    BY <2>1, <2>8, FS_Subset
  <2> QED
    BY <1>2, <2>1, <2>2, <2>6, <2>9 DEF T
<1> QED
  BY <1>3, <1>7, <1>8

\* Everyone has a number that is larger than those of his parents.
Numbering(ls, m, rank) ==
    /\ rank \in [Persons -> 0..m]
    /\ \A l \in ls : rank[l.parent] < rank[l.child]

Numbered(ls) == \E m \in Nat : \E rank : Numbering(ls, m, rank)

\* Without a cycle, how many people one descends from is such a number.
LEMMA AcyclicIsNumbered ==
    ASSUME NEW ls, Typed(ls), Acyclic(ls)
    PROVE  Numbered(ls)
<1> DEFINE Over(p) == {q \in Persons : p \in Reachable(ls, q)}
           rank == [p \in Persons |-> Cardinality(Over(p))]
           m == Cardinality(Persons)
<1>1. \A p \in Persons : IsFiniteSet(Over(p)) /\ Cardinality(Over(p)) \in Nat /\ Cardinality(Over(p)) <= m
  <2> SUFFICES ASSUME NEW p \in Persons
               PROVE  IsFiniteSet(Over(p)) /\ Cardinality(Over(p)) \in Nat /\ Cardinality(Over(p)) <= m
    OBVIOUS
  <2>1. Over(p) \in SUBSET Persons
    OBVIOUS
  <2> HIDE DEF Over
  <2> QED
    BY <2>1, SearchesAreBounded, FS_Subset, FS_CardinalityType
<1>2. m \in Nat
  BY SearchesAreBounded, FS_CardinalityType
<1>3. rank \in [Persons -> 0..m] /\ \A p \in Persons : rank[p] = Cardinality(Over(p))
  <2> HIDE DEF Over, m
  <2> QED
    BY <1>1, <1>2
<1>4. ASSUME NEW l \in ls PROVE rank[l.parent] < rank[l.child]
  <2>1. l.parent \in Persons /\ l.child \in Persons
    BY DEF Typed
  <2>2. Over(l.parent) \subseteq Over(l.child)
    BY <2>1, ReachableIsClosed DEF Closed
  <2>3. l.child \in Over(l.child) /\ l.child \notin Over(l.parent)
    BY <2>1, ReachableIsLeast DEF Acyclic
  <2> HIDE DEF Over
  <2>4. Cardinality(Over(l.parent)) <= Cardinality(Over(l.child))
        /\ Cardinality(Over(l.parent)) # Cardinality(Over(l.child))
    BY <1>1, <2>1, <2>2, <2>3, FS_Subset
  <2> HIDE DEF rank
  <2> QED
    BY <1>1, <1>3, <2>1, <2>4
<1> HIDE DEF rank, m
<1> QED
  BY <1>2, <1>3, <1>4 DEF Numbered, Numbering

\* A link from one who does not descend from the child closes no cycle: those below the child
\* move up past the parent.
LEMMA LinkStaysNumbered ==
    ASSUME NEW ls, Typed(ls), Numbered(ls), NEW p \in Persons, NEW c \in Persons,
           p \notin Reachable(ls, c), NEW n, n.parent = p, n.child = c
    PROVE  Numbered(ls \cup {n})
<1>0. PICK m \in Nat : \E rank : Numbering(ls, m, rank)
  BY DEF Numbered
<1>1. PICK rank : Numbering(ls, m, rank)
  BY <1>0
<1> DEFINE B == Reachable(ls, c)
           up == [x \in Persons |-> IF x \in B THEN rank[x] + rank[p] + 1 ELSE rank[x]]
           k == m + m + 1
<1>2. \A x \in Persons : rank[x] \in 0..m
  BY <1>1 DEF Numbering
<1>3. p \notin B /\ c \in B /\ \A l \in ls : l.parent \in B => l.child \in B
  BY ReachableIsLeast, ReachableIsClosed DEF Closed
<1>4. \A l \in ls : l.parent \in Persons /\ l.child \in Persons /\ rank[l.parent] < rank[l.child]
  BY <1>1 DEF Typed, Numbering
<1> HIDE DEF B
<1>5. up \in [Persons -> 0..k]
  BY <1>2
<1>6. \A x \in Persons : up[x] = IF x \in B THEN rank[x] + rank[p] + 1 ELSE rank[x]
  OBVIOUS
<1> HIDE DEF up
<1>7. ASSUME NEW l \in ls PROVE up[l.parent] < up[l.child]
  BY <1>2, <1>3, <1>4, <1>6
<1>8. up[n.parent] < up[n.child]
  BY <1>2, <1>3, <1>6
<1>9. k \in Nat /\ Numbering(ls \cup {n}, k, up)
  BY <1>5, <1>7, <1>8 DEF Numbering
<1> QED
  BY <1>9 DEF Numbered

LEMMA FewerAreNumbered ==
    ASSUME NEW ls, NEW ks \in SUBSET ls, Typed(ls), Numbered(ls)
    PROVE  Typed(ks) /\ Numbered(ks)
  BY DEF Typed, Numbered, Numbering

\* What editors commit keeps the graph so.
LEMMA EditsStayNumbered ==
    ASSUME Edit, LinkedOnce(links), Typed(links), Numbered(links)
    PROVE  Typed(links') /\ Numbered(links')
<1>1. CASE \E p, q \in Persons : \E t \in Types : AddLink(p, q, t)
  <2>1. PICK p \in Persons, q \in Persons, t \in Types : AddLink(p, q, t)
    BY <1>1
  <2> DEFINE n == [parent |-> p, child |-> q, type |-> t]
  <2>2. links' = links \cup {n} /\ p \notin Reachable(links, q)
    BY <2>1 DEF AddLink
  <2>3. n.parent = p /\ n.child = q /\ n.type = t
    OBVIOUS
  <2> HIDE DEF n
  <2>4. Numbered(links \cup {n})
    BY <2>2, <2>3, LinkStaysNumbered
  <2>5. Typed(links \cup {n})
    BY <2>3, FamiliesAreTyped DEF Typed
  <2> QED
    BY <2>2, <2>4, <2>5
<1>2. CASE \E l \in links : \E t \in Types : RetypeLink(l, t)
  <2>1. PICK l \in links, t \in Types : RetypeLink(l, t)
    BY <1>2
  <2> DEFINE n == [l EXCEPT !.type = t]
  <2>2. links' = (links \ {l}) \cup {n}
    BY <2>1 DEF RetypeLink
  <2>3. l = [parent |-> l.parent, child |-> l.child, type |-> l.type]
    BY DEF LinkedOnce
  <2>4. n.parent = l.parent /\ n.child = l.child /\ n.type = t
    BY <2>3
  <2> HIDE DEF n
  <2>5. Typed(links')
    BY <2>2, <2>4, FamiliesAreTyped DEF Typed
  <2>6. Numbered(links')
    BY <2>2, <2>4 DEF Numbered, Numbering
  <2> QED
    BY <2>5, <2>6
<1>3. CASE \E l \in links : RemoveLink(l)
  <2>1. links' \in SUBSET links
    BY <1>3 DEF RemoveLink
  <2> QED
    BY <2>1, FewerAreNumbered
<1>4. CASE UNCHANGED links
  BY <1>4
<1>5. \/ \E p, q \in Persons : \E t \in Types : AddLink(p, q, t)
      \/ \E l \in links : \E t \in Types : RetypeLink(l, t)
      \/ \E l \in links : RemoveLink(l)
      \/ UNCHANGED links
  BY DEF Edit, Marry, DeletePerson, RestorePerson, Designate, Divorce
<1> QED
  BY <1>1, <1>2, <1>3, <1>4, <1>5

\* Everyone but the top has one above him who ranks lower, and counts one more than he does.
Climbs(S, top, up, rank) == \A p \in S : p # top => up[p] \in S /\ rank[up[p]] < rank[p]
Counts(S, top, up, f) == f = [p \in S |-> IF p = top THEN 1 ELSE f[up[p]] + 1]

\* A recursion up a chain that ends at the top has a solution.
LEMMA ChainsCount ==
    ASSUME NEW S, NEW top, NEW up, NEW m \in Nat, NEW rank \in [S -> 0..m], Climbs(S, top, up, rank)
    PROVE  \E f : Counts(S, top, up, f)
<1>0. \A p \in S : p # top => up[p] \in S /\ rank[up[p]] < rank[p]
  BY DEF Climbs
<1> DEFINE F == [S -> Nat]
           Turn(g) == [p \in S |-> IF p = top THEN 1 ELSE g[up[p]] + 1]
           ones == [p \in S |-> 1]
           next == [x \in (1..(m + 1)) \X F |-> Turn(x[2])]
<1>1. \A g \in F : Turn(g) \in F
  <2> SUFFICES ASSUME NEW g \in F PROVE Turn(g) \in F
    OBVIOUS
  <2>1. \A p \in S : p # top => g[up[p]] \in Nat
    BY <1>0
  <2> QED
    BY <2>1
<1>2. ones \in F
  OBVIOUS
<1>3. \A g : \A p \in S : Turn(g)[p] = IF p = top THEN 1 ELSE g[up[p]] + 1
  OBVIOUS
<1>4. \A g \in F : g = [p \in S |-> g[p]]
  OBVIOUS
<1> HIDE DEF F, Turn, ones
<1>5. next \in [(1..(m + 1)) \X F -> F] /\ \A i \in 1..(m + 1) : \A g \in F : next[<<i, g>>] = Turn(g)
  BY <1>1
<1> HIDE DEF next
<1>6. PICK g \in [0..(m + 1) -> F] : g[0] = ones /\ Steps(g, m + 1, next)
  <2>1. m + 1 \in Nat
    OBVIOUS
  <2> QED
    BY <1>2, <1>5, <2>1, StepsExist
<1>7. \A i \in 0..m : g[i] \in F /\ g[i + 1] \in F /\ g[i + 1] = Turn(g[i])
  <2> SUFFICES ASSUME NEW i \in 0..m PROVE g[i] \in F /\ g[i + 1] \in F /\ g[i + 1] = Turn(g[i])
    OBVIOUS
  <2>1. i \in 0..(m + 1) /\ i + 1 \in 1..(m + 1) /\ i + 1 \in 0..(m + 1) /\ (i + 1) - 1 = i
    OBVIOUS
  <2>2. g[i + 1] = next[<<i + 1, g[i]>>]
    BY <1>6, <2>1 DEF Steps
  <2> QED
    BY <1>5, <1>6, <2>1, <2>2
<1>8. \A p \in S : rank[p] \in 0..m
  OBVIOUS
\* After i turns those of rank i and less stay as they are.
<1> DEFINE T == {i \in 0..m : \A p \in S : rank[p] <= i => g[i + 1][p] = g[i][p]}
<1>9. 0 \in T
  <2>1. ASSUME NEW p \in S, rank[p] <= 0 PROVE g[0 + 1][p] = g[0][p]
    <3>1. p = top
      <4>1. p # top => up[p] \in S /\ rank[up[p]] < rank[p]
        BY <1>0
      <4>2. rank[p] \in 0..m /\ (up[p] \in S => rank[up[p]] \in 0..m)
        BY <1>8
      <4> QED
        BY <2>1, <4>1, <4>2
    <3>2. g[0 + 1] = Turn(g[0]) /\ g[0] = ones
      BY <1>6, <1>7
    <3> QED
      BY <1>3, <3>1, <3>2 DEF ones
  <2> QED
    BY <2>1
<1>10. ASSUME NEW i \in 0..m, i < m, i \in T PROVE i + 1 \in T
  <2>1. i + 1 \in 0..m
    BY <1>10
  <2>2. ASSUME NEW p \in S, rank[p] <= i + 1 PROVE g[(i + 1) + 1][p] = g[i + 1][p]
    <3>1. /\ g[(i + 1) + 1][p] = IF p = top THEN 1 ELSE g[i + 1][up[p]] + 1
          /\ g[i + 1][p] = IF p = top THEN 1 ELSE g[i][up[p]] + 1
      BY <1>3, <1>7, <2>1
    <3>2. p # top => up[p] \in S /\ rank[up[p]] <= i
      BY <1>0, <1>8, <2>2
    <3>3. p # top => g[i + 1][up[p]] = g[i][up[p]]
      BY <1>10, <3>2
    <3> QED
      BY <3>1, <3>3
  <2> QED
    BY <2>1, <2>2
<1> HIDE DEF T
<1>11. m \in T
  <2>1. \A i \in 0..m : i \in T
    BY <1>9, <1>10, NumbersUpTo
  <2> QED
    BY <2>1
<1>12. \A p \in S : g[m + 1][p] = g[m][p]
  BY <1>8, <1>11 DEF T
<1>13. m \in 0..m
  OBVIOUS
<1>14. g[m + 1] = g[m]
  <2>1. g[m] \in F /\ g[m + 1] \in F
    BY <1>7, <1>13
  <2> DEFINE a == g[m]
             b == g[m + 1]
  <2>2. a \in F /\ b \in F /\ \A p \in S : b[p] = a[p]
    BY <1>12, <2>1
  <2> HIDE DEF a, b
  <2>3. a = b
    BY <2>2 DEF F
  <2> QED
    BY <2>3 DEF a, b
<1>15. g[m] = Turn(g[m])
  BY <1>7, <1>13, <1>14
<1> QED
  BY <1>15 DEF Turn, Counts

\* The links to a child from people of a set.
Above(ls, within, c) == {l \in ls : l.child = c /\ l.parent \in within}

\* The canonical parent is one of the parents, and the father if there is one.
LEMMA CanonicalIsAParent ==
    ASSUME NEW ls, Typed(ls), LinkedOnce(ls), NEW gender, \A p \in Persons : gender[p] \in DOMAIN GenderRank,
           NEW within, NEW c, Above(ls, within, c) # {}
    PROVE  /\ \E l \in Above(ls, within, c) : l.parent = Canonical(ls, gender, within, c)
           /\ \A l \in Above(ls, within, c) :
                 /\ gender[l.parent] = "male"
                 /\ \A k \in Above(ls, within, c) : gender[k.parent] = "male" => k = l
                 => l.parent = Canonical(ls, gender, within, c)
<1> DEFINE T == Above(ls, within, c)
           Key(l) == <<GenderRank[gender[l.parent]], TypeRank[l.type], l.parent>>
           R == {x \in T \X T : LexLess(Key(x[1]), Key(x[2]))}
<1>1. \A l \in T : l \in ls /\ l.child = c /\ l.parent \in Persons /\ l.type \in DOMAIN TypeRank
  BY DEF Typed, Above
<1>2. \A k, l \in T : k.parent = l.parent => k = l
  BY <1>1 DEF LinkedOnce
<1>3. IsFiniteSet(T)
  <2> DEFINE f == [l \in T |-> l.parent]
  <2>1. f \in Injection(T, Persons)
    BY <1>1, <1>2 DEF Injection, IsInjective
  <2> HIDE DEF T, f
  <2> QED
    BY <2>1, SearchesAreBounded, FS_Injection
<1>4. ASSUME NEW l \in T
      PROVE  /\ Key(l) \in Seq(Nat) /\ Len(Key(l)) = 3
             /\ Key(l)[1] = GenderRank[gender[l.parent]] /\ Key(l)[3] = l.parent
  <2> DEFINE x == GenderRank[gender[l.parent]]
             y == TypeRank[l.type]
             z == l.parent
  <2>1. x \in Nat
    BY <1>1 DEF GenderRank
  <2>2. y \in Nat
    BY <1>1 DEF TypeRank
  <2>3. z \in Nat
    BY <1>1, PersonsAreNumbers
  <2> HIDE DEF x, y, z
  <2>4. <<x, y, z>> \in Seq(Nat) /\ Len(<<x, y, z>>) = 3 /\ <<x, y, z>>[1] = x /\ <<x, y, z>>[3] = z
    BY <2>1, <2>2, <2>3
  <2> QED
    BY <2>4 DEF x, y, z
<1>5. \A k, l \in T : <<k, l>> \in R <=> LexLess(Key(k), Key(l))
  OBVIOUS
<1>6. \A k, l \in T : Key(k) = Key(l) => k = l
  BY <1>2, <1>4
<1> HIDE DEF T, Key, R
<1>7. \A l \in T : ~LexLess(Key(l), Key(l))
  BY <1>4, LexIsStrict
<1>8. \A x, y, z \in T : LexLess(Key(x), Key(y)) /\ LexLess(Key(y), Key(z)) => LexLess(Key(x), Key(z))
  <2> SUFFICES ASSUME NEW x \in T, NEW y \in T, NEW z \in T, LexLess(Key(x), Key(y)), LexLess(Key(y), Key(z))
               PROVE  LexLess(Key(x), Key(z))
    OBVIOUS
  <2>1. /\ Key(x) \in Seq(Nat) /\ Key(y) \in Seq(Nat) /\ Key(z) \in Seq(Nat)
        /\ Len(Key(x)) = Len(Key(y)) /\ Len(Key(y)) = Len(Key(z))
    BY <1>4
  <2> QED
    BY <2>1, LexIsTransitive
<1>9. \E x \in T : \A y \in T : <<y, x>> \notin R
  <2>1. T # {}
    BY DEF T
  <2> QED
    BY <1>3, <1>5, <1>7, <1>8, <2>1, LeastOfAnOrder
<1>10. PICK x \in T : \A y \in T : <<y, x>> \notin R
  BY <1>9
<1>11. ASSUME NEW k \in T, k # x PROVE LexLess(Key(x), Key(k))
  <2>1. /\ Key(x) \in Seq(Nat) /\ Key(k) \in Seq(Nat) /\ Len(Key(x)) = Len(Key(k)) /\ Key(x) # Key(k)
        /\ ~LexLess(Key(k), Key(x))
    BY <1>4, <1>5, <1>6, <1>10, <1>11
  <2> QED
    BY <2>1, LexIsTotal
<1> DEFINE IsLeast(l) == \A k \in T \ {l} : LexLess(Key(l), Key(k))
           least == CHOOSE l \in T : IsLeast(l)
<1>12. IsLeast(x)
  BY <1>11
<1>13. least \in T /\ IsLeast(least)
  BY <1>12
<1>14. Canonical(ls, gender, within, c) = least.parent
  BY DEF Canonical, T, Key, Above
<1> HIDE DEF IsLeast, least
<1>15. ASSUME NEW l \in T, gender[l.parent] = "male", \A k \in T : gender[k.parent] = "male" => k = l
       PROVE  l = least
  <2> SUFFICES ASSUME l # least PROVE FALSE
    OBVIOUS
  <2>1. LexLess(Key(least), Key(l))
    BY <1>13 DEF IsLeast
  <2>2. gender[least.parent] # "male" /\ gender[least.parent] \in DOMAIN GenderRank
    BY <1>1, <1>13, <1>15 DEF T
  <2>3. Key(l)[1] = 0 /\ Key(least)[1] \in {1, 2}
    BY <1>4, <1>13, <1>15, <2>2 DEF GenderRank
  <2>4. Key(least) \in Seq(Nat) /\ Key(l) \in Seq(Nat) /\ Len(Key(least)) = Len(Key(l)) /\ Len(Key(least)) = 3
    BY <1>4, <1>13
  <2>5. PICK i \in 1..3 : Key(least)[i] < Key(l)[i] /\ \A j \in 1..(i - 1) : Key(least)[j] = Key(l)[j]
    BY <2>1, <2>4, LexOfOneLength
  <2>6. i # 1
    BY <2>3, <2>5
  <2>7. 1 \in 1..(i - 1)
    BY <2>5, <2>6
  <2> QED
    BY <2>3, <2>5, <2>7
<1> QED
  BY <1>13, <1>14, <1>15 DEF T

\* Who is below a person has a number that is no smaller.
LEMMA BelowIsNoLower ==
    ASSUME NEW ls, Typed(ls), NEW m \in Nat, NEW rank, Numbering(ls, m, rank), NEW p \in Persons
    PROVE  \A x \in Reachable(ls, p) : x \in Persons /\ rank[x] >= rank[p]
<1> DEFINE C == {x \in Persons : rank[x] >= rank[p]}
<1>1. \A x \in Persons : rank[x] \in 0..m
  BY DEF Numbering
<1>2. p \in C
  BY <1>1
<1>3. Closed(ls, C)
  <2>1. ASSUME NEW l \in ls, l.parent \in C PROVE l.child \in C
    <3>1. l.child \in Persons /\ rank[l.parent] < rank[l.child]
      BY DEF Typed, Numbering
    <3> QED
      BY <1>1, <2>1, <3>1
  <2> HIDE DEF C
  <2> QED
    BY <2>1 DEF Closed
<1> HIDE DEF C
<1>4. Reachable(ls, p) \subseteq C
  BY <1>2, <1>3, ReachableIsLeast
<1> QED
  BY <1>4 DEF C

\* GenerationFollowsFather, of a map and the links that it was made of.
Follows(doi, ls, gender) ==
    \A l \in ls :
        {l.parent, l.child} \subseteq DOMAIN doi /\ gender[l.parent] = "male"
          /\ (\A k \in ls : k.child = l.child /\ gender[k.parent] = "male" => k = l)
        => doi[l.child].generation = doi[l.parent].generation + 1

\* Whom a map makes the parent of another is.
NamesParents(doi, ls) ==
    \A p \in DOMAIN doi : doi[p].parent = None \/ \E l \in ls : l.parent = doi[p].parent /\ l.child = p

LEMMA GenerationsFollow ==
    ASSUME NEW ls, Typed(ls), LinkedOnce(ls), Numbered(ls),
           NEW gender, \A p \in Persons : gender[p] \in DOMAIN GenderRank,
           NEW root \in Persons \cup {None}, NEW doi, doi = GenerationMap(ls, gender, root)
    PROVE  Follows(doi, ls, gender) /\ NamesParents(doi, ls)
<1>1. CASE root = None
  <2>1. doi = [p \in {} |-> 0]
    BY <1>1 DEF GenerationMap
  <2>2. DOMAIN doi = {}
    BY <2>1
  <2> QED
    BY <2>2 DEF Follows, NamesParents
<1>2. CASE root # None
  <2> DEFINE within == Reachable(ls, root)
             canon == [p \in within |-> IF p = root THEN None ELSE Canonical(ls, gender, within, p)]
             generation == CHOOSE g : Counts(within, root, canon, g)
  <2>1. doi = [p \in within |-> [generation |-> generation[p], parent |-> canon[p]]]
    BY <1>2 DEF GenerationMap, Counts
  <2>2. root \in Persons
    BY <1>2
  <2>3. \A p \in within : canon[p] = IF p = root THEN None ELSE Canonical(ls, gender, within, p)
    OBVIOUS
  <2>5. /\ root \in within /\ within \subseteq Persons
        /\ \A x \in within : x = root \/ \E l \in ls : l.child = x /\ l.parent \in within
    BY <2>2, ReachableIsLeast
  <2> HIDE DEF within, canon, generation
  <2>4. DOMAIN doi = within
        /\ \A p \in within : doi[p].generation = generation[p] /\ doi[p].parent = canon[p]
    BY <2>1
  <2>6. ASSUME NEW p \in within, p # root PROVE \E l \in Above(ls, within, p) : l.parent = canon[p]
    <3>1. Above(ls, within, p) # {}
      BY <2>5, <2>6 DEF Above
    <3>2. canon[p] = Canonical(ls, gender, within, p)
      BY <2>3, <2>6
    <3> QED
      BY <3>1, <3>2, CanonicalIsAParent
  <2>7. PICK m \in Nat : \E rank : Numbering(ls, m, rank)
    BY DEF Numbered
  <2>8. PICK rank : Numbering(ls, m, rank)
    BY <2>7
  <2> DEFINE order == [p \in within |-> rank[p]]
  <2>9. order \in [within -> 0..m]
    BY <2>5, <2>8 DEF Numbering
  <2>10. Climbs(within, root, canon, order)
    <3> SUFFICES ASSUME NEW p \in within, p # root PROVE canon[p] \in within /\ order[canon[p]] < order[p]
      BY DEF Climbs
    <3>1. PICK l \in Above(ls, within, p) : l.parent = canon[p]
      BY <2>6
    <3>2. l \in ls /\ l.child = p /\ l.parent \in within /\ rank[l.parent] < rank[p]
      BY <2>8 DEF Above, Numbering
    <3> QED
      BY <3>1, <3>2
  <2> HIDE DEF order
  <2>11. \E g : Counts(within, root, canon, g)
    BY <2>9, <2>10, ChainsCount
  <2>12. Counts(within, root, canon, generation)
    BY <2>11 DEF generation
  <2>13. \A p \in within : p # root => generation[p] = generation[canon[p]] + 1
    BY <2>12 DEF Counts
  <2>14. ASSUME NEW l \in ls, {l.parent, l.child} \subseteq within, gender[l.parent] = "male",
                \A k \in ls : k.child = l.child /\ gender[k.parent] = "male" => k = l
         PROVE  generation[l.child] = generation[l.parent] + 1
    <3>1. rank[l.parent] < rank[l.child] /\ rank[l.parent] >= rank[root]
      BY <2>2, <2>8, <2>14, BelowIsNoLower DEF Numbering, within
    <3>2. l.child # root
      <4>1. \A x \in Persons : rank[x] \in 0..m
        BY <2>8 DEF Numbering
      <4> QED
        BY <2>5, <2>14, <3>1, <4>1
    <3>3. l \in Above(ls, within, l.child)
          /\ \A k \in Above(ls, within, l.child) : gender[k.parent] = "male" => k = l
      BY <2>14 DEF Above
    <3>4. l.parent = Canonical(ls, gender, within, l.child)
      BY <2>14, <3>3, CanonicalIsAParent
    <3> QED
      BY <2>3, <2>13, <2>14, <3>2, <3>4
  <2>15. Follows(doi, ls, gender)
    BY <2>4, <2>14 DEF Follows
  <2>16. NamesParents(doi, ls)
    <3> SUFFICES ASSUME NEW p \in within
                 PROVE  canon[p] = None \/ \E l \in ls : l.parent = canon[p] /\ l.child = p
      BY <2>4 DEF NamesParents
    <3>1. CASE p = root
      BY <2>3, <3>1
    <3>2. CASE p # root
      BY <2>6, <3>2 DEF Above
    <3> QED
      BY <3>1, <3>2
  <2> QED
    BY <2>15, <2>16
<1> QED
  BY <1>1, <1>2

\* The rounds of a walk down stay among those below.
LEMMA RoundsAreBelow ==
    ASSUME NEW ls, Typed(ls), NEW root \in Persons, NEW n \in Nat, NEW lv, lv = Rounds(Down(ls), root, n)
    PROVE  /\ \A i \in 0..n : lv[i] \subseteq Reachable(ls, root)
           /\ lv[0] = {root}
           /\ \A i \in 1..n : lv[i] = {l.child : l \in {k \in ls : k.parent \in lv[i - 1]}}
<1>1. /\ lv \in [0..n -> SUBSET Persons] /\ lv[0] = {root}
      /\ \A i \in 1..n : lv[i] = Onward(Down(ls), lv[i - 1])
  <2>1. StepsWithin(Persons, Down(ls))
    BY StepsAreDown
  <2> QED
    BY <2>1, RoundsAre
<1>2. \A i \in 1..n : lv[i] = {l.child : l \in {k \in ls : k.parent \in lv[i - 1]}}
  BY <1>1, StepsAreDown
<1> DEFINE T == {i \in 0..n : lv[i] \subseteq Reachable(ls, root)}
<1>3. 0 \in T
  BY <1>1, ReachableIsLeast
<1>4. ASSUME NEW i \in 0..n, i < n, i \in T PROVE i + 1 \in T
  <2>1. i + 1 \in 0..n /\ i + 1 \in 1..n /\ (i + 1) - 1 = i
    BY <1>4
  <2>2. lv[i + 1] = {l.child : l \in {k \in ls : k.parent \in lv[i]}}
    BY <1>2, <2>1
  <2>3. \A l \in ls : l.parent \in Reachable(ls, root) => l.child \in Reachable(ls, root)
    BY ReachableIsClosed DEF Closed
  <2> QED
    BY <1>4, <2>1, <2>2, <2>3
<1> HIDE DEF T
<1>5. \A i \in 0..n : i \in T
  BY <1>3, <1>4, NumbersUpTo
<1> QED
  BY <1>1, <1>2, <1>5 DEF T

\* A row is the one of the root, or of a link from another node.
OfTheRoot(r, root) == r.person = root /\ r.parent = None
LEMMA RowsAre ==
    ASSUME NEW ls, Typed(ls), NEW root \in Persons, NEW max \in Nat, NEW flat, flat = FlatRows(ls, root, max)
    PROVE  /\ root \in Nodes(flat) /\ Nodes(flat) \subseteq Reachable(ls, root)
           /\ \A r \in flat : \/ OfTheRoot(r, root)
                              \/ r.parent \in Nodes(flat) /\ \E l \in ls : l.parent = r.parent /\ l.child = r.person
<1> DEFINE lv == Rounds(Down(ls), root, max)
           Top == [person |-> root, parent |-> None, depth |-> 0]
           Row(l, i) == [person |-> l.child, parent |-> l.parent, depth |-> i + 1]
           Below(i) == {Row(l, i) : l \in {k \in ls : k.parent \in lv[i]}}
<1>1. flat = {Top} \cup UNION {Below(i) : i \in 0..(max - 1)}
  BY DEF FlatRows
<1>2. /\ \A i \in 0..max : lv[i] \subseteq Reachable(ls, root)
      /\ lv[0] = {root}
      /\ \A i \in 1..max : lv[i] = {l.child : l \in {k \in ls : k.parent \in lv[i - 1]}}
  <2>1. \E x : x = lv
    OBVIOUS
  <2> HIDE DEF lv
  <2>2. ASSUME NEW x, x = Rounds(Down(ls), root, max)
        PROVE  /\ \A i \in 0..max : x[i] \subseteq Reachable(ls, root)
               /\ x[0] = {root}
               /\ \A i \in 1..max : x[i] = {l.child : l \in {k \in ls : k.parent \in x[i - 1]}}
    BY <2>2, RoundsAreBelow
  <2> QED
    BY <2>2 DEF lv
<1> HIDE DEF lv
<1>3. Top \in flat /\ Top.person = root /\ Top.parent = None
  BY <1>1
<1>4. \A i \in 0..(max - 1) : \A l \in ls : l.parent \in lv[i] =>
         Row(l, i) \in flat /\ Row(l, i).person = l.child /\ Row(l, i).parent = l.parent
  <2> SUFFICES ASSUME NEW i \in 0..(max - 1), NEW l \in ls, l.parent \in lv[i]
               PROVE  Row(l, i) \in flat
    OBVIOUS
  <2>1. Row(l, i) \in Below(i)
    OBVIOUS
  <2> HIDE DEF Below
  <2> QED
    BY <1>1, <2>1
<1>5. ASSUME NEW r \in flat, r # Top
      PROVE  \E i \in 0..(max - 1) : \E l \in ls : l.parent \in lv[i] /\ l.parent = r.parent /\ l.child = r.person
  <2>1. PICK i \in 0..(max - 1) : r \in Below(i)
    BY <1>1, <1>5
  <2>2. PICK l \in ls : l.parent \in lv[i] /\ r = Row(l, i)
    BY <2>1
  <2>3. r.person = l.child /\ r.parent = l.parent
    BY <2>2
  <2> QED
    BY <2>2, <2>3
<1> HIDE DEF Top, Row, Below
<1>6. root \in Nodes(flat)
  BY <1>3 DEF Nodes
<1>7. ASSUME NEW i \in 0..(max - 1) PROVE lv[i] \subseteq Nodes(flat)
  <2>1. CASE i = 0
    BY <1>2, <1>6, <2>1
  <2>2. CASE i # 0
    <3>1. i \in 1..max /\ i - 1 \in 0..(max - 1)
      BY <2>2
    <3>2. \A x \in lv[i] : \E l \in ls : l.parent \in lv[i - 1] /\ x = l.child
      BY <1>2, <3>1
    <3>3. \A x \in lv[i] : \E r \in flat : r.person = x
      BY <1>4, <3>1, <3>2
    <3> QED
      BY <3>3 DEF Nodes
  <2> QED
    BY <2>1, <2>2
<1>8. ASSUME NEW r \in flat
      PROVE  /\ r.person \in Reachable(ls, root)
             /\ \/ OfTheRoot(r, root)
                \/ r.parent \in Nodes(flat) /\ \E l \in ls : l.parent = r.parent /\ l.child = r.person
  <2>1. CASE r = Top
    BY <1>3, <2>1, ReachableIsLeast DEF OfTheRoot
  <2>2. CASE r # Top
    <3>1. PICK i \in 0..(max - 1) : \E l \in ls : l.parent \in lv[i] /\ l.parent = r.parent /\ l.child = r.person
      BY <1>5, <2>2
    <3>2. PICK l \in ls : l.parent \in lv[i] /\ l.parent = r.parent /\ l.child = r.person
      BY <3>1
    <3>3. l.parent \in Nodes(flat)
      BY <1>7, <3>2
    <3>4. l.parent \in Reachable(ls, root)
      <4>1. i \in 0..max
        OBVIOUS
      <4> QED
        BY <1>2, <3>2, <4>1
    <3>5. l.child \in Reachable(ls, root)
      BY <3>4, ReachableIsClosed DEF Closed
    <3> QED
      BY <3>2, <3>3, <3>5
  <2> QED
    BY <2>1, <2>2
<1> QED
  BY <1>6, <1>8 DEF Nodes

\* Where the people of a tree hang: the root from nobody, the others from one of them who
\* ranks lower.
LEMMA AttachedIsBelow ==
    ASSUME NEW ls, Typed(ls), NEW m \in Nat, NEW rank, Numbering(ls, m, rank),
           NEW root \in Persons, NEW max \in Nat, NEW flat, flat = FlatRows(ls, root, max),
           NEW doi, NamesParents(doi, ls), NEW first \in FirstParents(flat),
           NEW hangs, hangs = AttachOf(flat, doi, first)
    PROVE  /\ hangs[root] = None
           /\ Climbs(Nodes(flat), root, hangs, rank)
<1> DEFINE N == Nodes(flat)
<1>1. /\ root \in N /\ N \subseteq Reachable(ls, root)
      /\ \A r \in flat : \/ OfTheRoot(r, root)
                         \/ r.parent \in N /\ \E l \in ls : l.parent = r.parent /\ l.child = r.person
  BY RowsAre
<1>2. \A x \in N : x \in Persons /\ rank[x] >= rank[root]
  BY <1>1, BelowIsNoLower
<1>3. \A x \in Persons : rank[x] \in 0..m
  BY DEF Numbering
<1>4. None \notin N
  BY <1>2, PersonsAreNumbers
<1>5. \A p \in N : [person |-> p, parent |-> first[p], depth |-> DepthIn(flat, p)] \in flat
  BY DEF FirstParents
<1>6. \A p \in N : hangs[p] = IF p \in DOMAIN doi /\ doi[p].parent \in N THEN doi[p].parent ELSE first[p]
  BY DEF AttachOf
<1> HIDE DEF N
<1>7. ASSUME NEW p \in N
      PROVE  \/ p = root /\ hangs[p] = None
             \/ hangs[p] \in N /\ \E l \in ls : l.parent = hangs[p] /\ l.child = p
  <2>1. CASE p \in DOMAIN doi /\ doi[p].parent \in N
    <3>1. hangs[p] = doi[p].parent /\ hangs[p] # None
      BY <1>4, <1>6, <2>1
    <3>2. \E l \in ls : l.parent = doi[p].parent /\ l.child = p
      BY <2>1, <3>1 DEF NamesParents
    <3> QED
      BY <2>1, <3>1, <3>2
  <2>2. CASE ~(p \in DOMAIN doi /\ doi[p].parent \in N)
    <3> DEFINE r == [person |-> p, parent |-> first[p], depth |-> DepthIn(flat, p)]
    <3>1. r \in flat /\ r.person = p /\ r.parent = first[p] /\ hangs[p] = first[p]
      BY <1>5, <1>6, <2>2
    <3> HIDE DEF r
    <3> QED
      BY <1>1, <3>1 DEF OfTheRoot
  <2> QED
    BY <2>1, <2>2
<1>8. ASSUME NEW p \in N, p # root PROVE hangs[p] \in N /\ rank[hangs[p]] < rank[p]
  <2>1. PICK l \in ls : hangs[p] \in N /\ l.parent = hangs[p] /\ l.child = p
    BY <1>7, <1>8
  <2> QED
    BY <2>1 DEF Numbering
<1>9. hangs[root] = None
  <2> SUFFICES ASSUME hangs[root] # None PROVE FALSE
    OBVIOUS
  <2>1. PICK l \in ls : hangs[root] \in N /\ l.parent = hangs[root] /\ l.child = root
    BY <1>1, <1>7
  <2>2. rank[hangs[root]] < rank[root] /\ rank[hangs[root]] >= rank[root]
    BY <1>2, <2>1 DEF Numbering
  <2>3. rank[hangs[root]] \in 0..m /\ rank[root] \in 0..m
    BY <1>2, <1>3, <2>1
  <2> QED
    BY <2>2, <2>3
<1> QED
  BY <1>8, <1>9 DEF Climbs, N

\* The levels of what is rendered: the recursion has a solution.
Tops(hangs) == {p \in DOMAIN hangs : hangs[p] = None}
HangingFrom(hangs, P) == {p \in DOMAIN hangs : hangs[p] \in P}

LEMMA LevelsAre ==
    ASSUME NEW hangs, DOMAIN hangs \in SUBSET Persons, NEW lv, lv = Rendered(hangs)
    PROVE  LET n == Cardinality(DOMAIN hangs)
           IN  /\ n \in Nat
               /\ lv \in [0..n -> SUBSET DOMAIN hangs]
               /\ lv[0] = Tops(hangs)
               /\ \A i \in 1..n : lv[i] = HangingFrom(hangs, lv[i - 1])
<1> DEFINE N == DOMAIN hangs
           n == Cardinality(N)
           tops == Tops(hangs)
           next == [x \in (1..n) \X SUBSET N |-> HangingFrom(hangs, x[2])]
           Solves(u) == u = [i \in 0..n |-> IF i = 0 THEN tops ELSE HangingFrom(hangs, u[i - 1])]
<1>0. n \in Nat
  BY SearchesAreBounded, FS_Subset, FS_CardinalityType
<1>1. \A P : HangingFrom(hangs, P) \in SUBSET N
  BY DEF HangingFrom
<1>2. tops \in SUBSET N
  BY DEF Tops
<1>3. next \in [(1..n) \X SUBSET N -> SUBSET N]
  BY <1>1
<1>4. \A i \in 1..n : \A P \in SUBSET N : next[<<i, P>>] = HangingFrom(hangs, P)
  OBVIOUS
<1>5. lv = LET u == CHOOSE u : Solves(u) IN u
  BY DEF Rendered, Tops, HangingFrom
<1> HIDE DEF next, n, N, tops
<1>6. PICK f \in [0..n -> SUBSET N] : f[0] = tops /\ Steps(f, n, next)
  BY <1>0, <1>2, <1>3, StepsExist
<1>7. Solves(f)
  <2>1. ASSUME NEW i \in 0..n
        PROVE  f[i] = IF i = 0 THEN tops ELSE HangingFrom(hangs, f[i - 1])
    <3>1. CASE i = 0
      BY <1>6, <3>1
    <3>2. CASE i # 0
      <4>1. i \in 1..n /\ f[i - 1] \in SUBSET N
        BY <1>0, <1>6, <3>2
      <4> QED
        BY <1>4, <1>6, <3>2, <4>1 DEF Steps
    <3> QED
      BY <3>1, <3>2
  <2> QED
    BY <1>6, <2>1
<1> DEFINE u == CHOOSE u : Solves(u)
<1>8. Solves(u)
  BY <1>7
<1>9. lv = u
  BY <1>5
<1> HIDE DEF u
<1>10. \A i \in 0..n : lv[i] = IF i = 0 THEN tops ELSE HangingFrom(hangs, lv[i - 1])
  BY <1>8, <1>9
<1>11. DOMAIN lv = 0..n /\ lv = [i \in 0..n |-> lv[i]]
  BY <1>8, <1>9
<1>12. lv[0] = tops /\ \A i \in 1..n : lv[i] = HangingFrom(hangs, lv[i - 1])
  BY <1>0, <1>10
<1>13. ASSUME NEW i \in 0..n PROVE lv[i] \in SUBSET N
  BY <1>1, <1>2, <1>10
<1>14. lv \in [0..n -> SUBSET N]
  BY <1>11, <1>13
<1> QED
  BY <1>0, <1>12, <1>14 DEF n, N, tops

\* If everyone else hangs from one who ranks lower, everyone is rendered: a walk down from
\* the root comes to all of them, and takes no more rounds than there are levels.
LEMMA EveryoneHangs ==
    ASSUME NEW N \in SUBSET Persons, NEW hangs, DOMAIN hangs = N, NEW root \in N, hangs[root] = None,
           NEW m \in Nat, NEW rank \in [Persons -> 0..m], Climbs(N, root, hangs, rank)
    PROVE  People(Rendered(hangs)) = N
<1> DEFINE ls == {[parent |-> hangs[p], child |-> p, type |-> "biological"] : p \in N \ {root}}
           lv == Rendered(hangs)
           n == Cardinality(N)
           k == Longest(ls)
           walk == Rounds(Down(ls), root, k)
<1>1. \A l \in ls : l.child \in N /\ l.child # root /\ l.parent = hangs[l.child] /\ l.type = "biological"
  OBVIOUS
<1>2. \A p \in N \ {root} : \E l \in ls : l.child = p
  <2> SUFFICES ASSUME NEW p \in N \ {root} PROVE \E l \in ls : l.child = p
    OBVIOUS
  <2> DEFINE l == [parent |-> hangs[p], child |-> p, type |-> "biological"]
  <2>1. l \in ls /\ l.child = p
    OBVIOUS
  <2> QED
    BY <2>1
<1> HIDE DEF ls
<1>3. \A p \in N : p # root => hangs[p] \in N /\ rank[hangs[p]] < rank[p]
  BY DEF Climbs
<1>4. Typed(ls)
  BY <1>1, <1>3 DEF Typed, TypeRank
<1>5. n \in Nat /\ k \in Nat /\ k <= n
  <2>1. {l.child : l \in ls} \subseteq N
    BY <1>1
  <2>2. IsFiniteSet(N)
    BY SearchesAreBounded, FS_Subset
  <2> QED
    BY <2>1, <2>2, FS_Subset, FS_CardinalityType DEF Longest
<1>6. /\ lv \in [0..n -> SUBSET N]
      /\ lv[0] = Tops(hangs)
      /\ \A i \in 1..n : lv[i] = HangingFrom(hangs, lv[i - 1])
  BY LevelsAre
<1>7. /\ walk[0] = {root}
      /\ \A i \in 1..k : walk[i] = {l.child : l \in {j \in ls : j.parent \in walk[i - 1]}}
  <2>1. \A x : x = Rounds(Down(ls), root, k) =>
          /\ x[0] = {root}
          /\ \A i \in 1..k : x[i] = {l.child : l \in {j \in ls : j.parent \in x[i - 1]}}
    <3> HIDE DEF k
    <3> QED
      BY <1>4, <1>5, RoundsAreBelow
  <2> QED
    BY <2>1
<1>8. Reachable(ls, root) = UNION {walk[i] : i \in 0..k}
  BY DEF Reachable
<1>9. People(lv) = UNION {lv[i] : i \in 0..n}
  BY <1>6 DEF People
<1> HIDE DEF lv, n, k, walk
<1> DEFINE T == {i \in 0..k : walk[i] \subseteq lv[i]}
<1>10. 0 \in T
  BY <1>5, <1>6, <1>7 DEF Tops
<1>11. ASSUME NEW i \in 0..k, i < k, i \in T PROVE i + 1 \in T
  <2>1. i + 1 \in 0..k /\ i + 1 \in 1..k /\ i + 1 \in 1..n /\ (i + 1) - 1 = i
    BY <1>5, <1>11
  <2>2. walk[i + 1] = {l.child : l \in {j \in ls : j.parent \in walk[i]}} /\ lv[i + 1] = HangingFrom(hangs, lv[i])
    BY <1>6, <1>7, <2>1
  <2>3. walk[i + 1] \subseteq lv[i + 1]
    BY <1>1, <1>11, <2>2 DEF HangingFrom
  <2> QED
    BY <2>1, <2>3
<1> HIDE DEF T
<1>12. \A i \in 0..k : i \in T
  BY <1>5, <1>10, <1>11, NumbersUpTo
<1>13. Reachable(ls, root) \subseteq People(lv)
  <2>1. \A i \in 0..k : walk[i] \subseteq lv[i] /\ i \in 0..n
    BY <1>5, <1>12 DEF T
  <2> QED
    BY <1>8, <1>9, <2>1
<1>14. N \subseteq Reachable(ls, root)
  <2>0. root \in Reachable(ls, root) /\ \A l \in ls : l.parent \in Reachable(ls, root) => l.child \in Reachable(ls, root)
    BY <1>4, ReachableIsLeast, ReachableIsClosed DEF Closed
  <2> DEFINE U == {i \in 0..m : \A p \in N : rank[p] <= i => p \in Reachable(ls, root)}
  <2>1. \A p \in N : rank[p] \in 0..m
    OBVIOUS
  <2>2. 0 \in U
    <3>1. ASSUME NEW p \in N, rank[p] <= 0 PROVE p = root
      <4> SUFFICES ASSUME p # root PROVE FALSE
        OBVIOUS
      <4>1. rank[hangs[p]] < rank[p] /\ rank[hangs[p]] \in 0..m /\ rank[p] \in 0..m
        BY <1>3, <2>1
      <4> QED
        BY <3>1, <4>1
    <3> QED
      BY <2>0, <3>1
  <2>3. ASSUME NEW i \in 0..m, i < m, i \in U PROVE i + 1 \in U
    <3>1. ASSUME NEW p \in N, rank[p] <= i + 1, p # root PROVE p \in Reachable(ls, root)
      <4>1. hangs[p] \in N /\ rank[hangs[p]] < rank[p] /\ rank[hangs[p]] \in 0..m /\ rank[p] \in 0..m
        BY <1>3, <2>1, <3>1
      <4>2. rank[hangs[p]] <= i
        BY <3>1, <4>1
      <4>3. hangs[p] \in Reachable(ls, root)
        BY <2>3, <4>1, <4>2
      <4>4. PICK l \in ls : l.child = p
        BY <1>2, <3>1
      <4> QED
        BY <1>1, <2>0, <4>3, <4>4
    <3> QED
      BY <2>0, <2>3, <3>1
  <2> HIDE DEF U
  <2>4. \A i \in 0..m : i \in U
    BY <2>2, <2>3, NumbersUpTo
  <2> QED
    BY <2>1, <2>4 DEF U
<1>15. People(lv) \subseteq N
  BY <1>6, <1>9
<1> QED
  BY <1>13, <1>14, <1>15 DEF lv

\* Whatever hangs from whatever, nobody is on two levels.
LEMMA NobodyIsTwice ==
    ASSUME NEW hangs, DOMAIN hangs \in SUBSET Persons, NEW p
    PROVE  Cardinality({i \in DOMAIN Rendered(hangs) : p \in Rendered(hangs)[i]}) <= 1
<1> DEFINE lv == Rendered(hangs)
           N == DOMAIN hangs
           n == Cardinality(N)
<1>1. /\ n \in Nat /\ lv \in [0..n -> SUBSET N]
      /\ lv[0] = Tops(hangs)
      /\ \A i \in 1..n : lv[i] = HangingFrom(hangs, lv[i - 1])
  BY LevelsAre
<1>2. None \notin N
  BY PersonsAreNumbers
<1> HIDE DEF lv, n
<1> DEFINE T == {i \in 0..n : \A j \in 0..n : lv[i] \cap lv[j] # {} /\ i <= j => i = j}
<1>3. 0 \in T
  <2>1. ASSUME NEW j \in 0..n, NEW x \in lv[0], x \in lv[j], j # 0 PROVE FALSE
    <3>1. j \in 1..n /\ j - 1 \in 0..n
      BY <1>1, <2>1
    <3>2. hangs[x] \in lv[j - 1] /\ lv[j - 1] \subseteq N
      BY <1>1, <2>1, <3>1 DEF HangingFrom
    <3>3. hangs[x] = None
      BY <1>1, <2>1 DEF Tops
    <3> QED
      BY <1>2, <3>2, <3>3
  <2> QED
    BY <1>1, <2>1
<1>4. ASSUME NEW i \in 0..n, i < n, i \in T PROVE i + 1 \in T
  <2>1. i + 1 \in 0..n /\ i + 1 \in 1..n /\ (i + 1) - 1 = i
    BY <1>1, <1>4
  <2>2. ASSUME NEW j \in 0..n, NEW x \in lv[i + 1], x \in lv[j], i + 1 <= j PROVE i + 1 = j
    <3>1. j \in 1..n /\ j - 1 \in 0..n /\ i <= j - 1
      BY <1>1, <2>1, <2>2
    <3>2. hangs[x] \in lv[i] /\ hangs[x] \in lv[j - 1]
      BY <1>1, <2>1, <2>2, <3>1 DEF HangingFrom
    <3>3. i = j - 1
      BY <1>4, <3>1, <3>2
    <3> QED
      BY <3>1, <3>3
  <2> QED
    BY <2>1, <2>2
<1> HIDE DEF T
<1>5. \A i \in 0..n : i \in T
  BY <1>1, <1>3, <1>4, NumbersUpTo
<1>6. \A i, j \in 0..n : p \in lv[i] /\ p \in lv[j] => i = j
  <2> SUFFICES ASSUME NEW i \in 0..n, NEW j \in 0..n, p \in lv[i], p \in lv[j] PROVE i = j
    OBVIOUS
  <2>1. i \in T /\ j \in T
    BY <1>5
  <2>2. i <= j \/ j <= i
    BY <1>1
  <2> QED
    BY <2>1, <2>2 DEF T
<1> DEFINE L == {i \in DOMAIN lv : p \in lv[i]}
<1>7. \A i, j \in L : i = j
  BY <1>1, <1>6
<1> HIDE DEF L
<1>8. ASSUME L # {} PROVE \E i : L = {i}
  <2>1. PICK i : i \in L
    BY <1>8
  <2>2. L = {i}
    BY <1>7, <2>1
  <2> QED
    BY <2>2
<1>9. Cardinality(L) <= 1
  <2>1. CASE L = {}
    BY <2>1, FS_EmptySet
  <2>2. CASE L # {}
    <3>1. PICK i : L = {i}
      BY <1>8, <2>2
    <3>2. Cardinality({i}) = 1
      BY FS_Singleton
    <3>3. Cardinality(L) = 1
      BY <3>1, <3>2
    <3> QED
      BY <3>3
  <2> QED
    BY <2>1, <2>2
<1> QED
  BY <1>9 DEF L, lv

\* The links are between people and lead down; the map and the rows, when there are any,
\* are those of the links that were there, as far as nothing has been committed since.
TreesIInv ==
    /\ Typed(links) /\ Numbered(links)
    /\ \A p \in Persons : Gender[p] \in DOMAIN GenderRank
    /\ got.founder \in Persons \cup {None}
    /\ got.rows # {} => read.at \in {"spouses", "more", "done"}
    /\ (read.at = "rows" \/ got.rows # {}) /\ sinceMap = {} => Follows(got.doi, LiveLinks, Gender)
    /\ read.at = "rows" /\ "removed" \notin sinceMap => NamesParents(got.doi, LiveLinks)
    /\ got.rows # {} =>
         /\ Nodes(got.rows) \in SUBSET Persons /\ DOMAIN got.attach = Nodes(got.rows)
         /\ "removed" \notin sinceMap => People(Hung) = Nodes(got.rows)

\* A link that is live stays one, whatever its type, until something is removed.
LEMMA PairsStay ==
    ASSUME Edit, LinkedOnce(links)
    PROVE  /\ sinceMap \subseteq sinceMap'
           /\ "removed" \notin sinceMap' =>
                \A l \in LiveLinks : \E k \in LiveLinks' : k.parent = l.parent /\ k.child = l.child
<1>1. CASE \E p, q \in Persons : (\E t \in Types : AddLink(p, q, t)) \/ Marry(p, q)
  <2>1. alive' = alive /\ links \subseteq links' /\ sinceMap \subseteq sinceMap'
    BY <1>1 DEF AddLink, Marry, Commit
  <2> QED
    BY <2>1 DEF LiveLinks
<1>2. CASE \E l \in links : RemoveLink(l)
  BY <1>2 DEF RemoveLink, Commit
<1>3. CASE \E l \in links : \E t \in Types : RetypeLink(l, t)
  <2>1. PICK l \in links : \E t \in Types : RetypeLink(l, t)
    BY <1>3
  <2>2. PICK t \in Types : RetypeLink(l, t)
    BY <2>1
  <2> DEFINE n == [l EXCEPT !.type = t]
  <2>3. links' = (links \ {l}) \cup {n} /\ alive' = alive /\ sinceMap \subseteq sinceMap'
    BY <2>2 DEF RetypeLink, Commit
  <2>4. l = [parent |-> l.parent, child |-> l.child, type |-> l.type]
    BY DEF LinkedOnce
  <2>5. n.parent = l.parent /\ n.child = l.child
    BY <2>4
  <2> HIDE DEF n
  <2>6. ASSUME NEW k \in LiveLinks PROVE \E j \in LiveLinks' : j.parent = k.parent /\ j.child = k.child
    <3>1. CASE k = l
      BY <2>3, <2>5, <2>6, <3>1 DEF LiveLinks
    <3>2. CASE k # l
      BY <2>3, <2>6, <3>2 DEF LiveLinks
    <3> QED
      BY <3>1, <3>2
  <2> QED
    BY <2>3, <2>6
<1>4. CASE \E p \in Persons : DeletePerson(p)
  BY <1>4 DEF DeletePerson, Commit
<1>5. CASE \E p \in Persons : RestorePerson(p)
  <2>1. alive \subseteq alive' /\ links' = links /\ sinceMap \subseteq sinceMap'
    BY <1>5 DEF RestorePerson, Commit
  <2> QED
    BY <2>1 DEF LiveLinks
<1>6. CASE (\E p \in Persons : Designate(p)) \/ (\E m \in marriages : Divorce(m))
  <2>1. alive' = alive /\ links' = links /\ sinceMap \subseteq sinceMap'
    BY <1>6 DEF Designate, Divorce, Commit
  <2> QED
    BY <2>1 DEF LiveLinks
<1> QED
  BY <1>1, <1>2, <1>3, <1>4, <1>5, <1>6 DEF Edit

LEMMA EditsKeepTrees == ASSUME Edit, SearchIInv, ExportIInv, TreesIInv PROVE TreesIInv'
<1>1. sinceMap' # {} /\ read' = read /\ got' = got /\ person' = person
  BY EditsAreSeen
<1>2. LinkedOnce(links)
  BY DEF ExportIInv
<1>3. Typed(links') /\ Numbered(links')
  BY <1>2, EditsStayNumbered DEF TreesIInv
<1>4. /\ sinceMap \subseteq sinceMap'
      /\ "removed" \notin sinceMap' =>
            \A l \in LiveLinks : \E k \in LiveLinks' : k.parent = l.parent /\ k.child = l.child
  BY <1>2, PairsStay
<1>5. ASSUME read.at = "rows", "removed" \notin sinceMap' PROVE NamesParents(got.doi, LiveLinks')
  <2>1. NamesParents(got.doi, LiveLinks)
    BY <1>4, <1>5 DEF TreesIInv
  <2> QED
    BY <1>4, <1>5, <2>1 DEF NamesParents
<1>6. Typed(links)' /\ Numbered(links)'
  BY <1>3 DEF Typed, Numbered, Numbering
<1>7. (\A p \in Persons : Gender[p] \in DOMAIN GenderRank)'
  BY <1>1 DEF TreesIInv, Gender
<1>8. (read.at = "rows" /\ "removed" \notin sinceMap => NamesParents(got.doi, LiveLinks))'
  BY <1>1, <1>5 DEF NamesParents
<1>9. ((read.at = "rows" \/ got.rows # {}) /\ sinceMap = {} => Follows(got.doi, LiveLinks, Gender))'
  BY <1>1
<1>10. /\ (got.founder \in Persons \cup {None})'
       /\ (got.rows # {} => read.at \in {"spouses", "more", "done"})'
       /\ (got.rows # {} =>
             /\ Nodes(got.rows) \in SUBSET Persons /\ DOMAIN got.attach = Nodes(got.rows)
             /\ "removed" \notin sinceMap => People(Hung) = Nodes(got.rows))'
  BY <1>1, <1>4 DEF TreesIInv, Hung
<1> QED
  BY <1>6, <1>7, <1>8, <1>9, <1>10 DEF TreesIInv

LEMMA InitTrees == ASSUME Init PROVE TreesIInv
<1>1. PICK f \in Families : links = f.links /\ person = f.person
  BY DEF Init
<1>2. got = Nothing /\ read = Idle /\ sinceMap = {}
  BY DEF Init
<1>3. Typed(links) /\ Acyclic(links)
  BY <1>1, FamiliesAreTyped, FamiliesAreAcyclic
<1>4. Numbered(links)
  BY <1>3, AcyclicIsNumbered
<1>5. \A p \in Persons : Gender[p] \in DOMAIN GenderRank
  BY <1>1, FamiliesAreTyped DEF Gender
<1>6. got.founder = None /\ got.rows = {} /\ read.at = "done"
  BY <1>2 DEF Nothing, Idle
<1> QED
  BY <1>3, <1>4, <1>5, <1>6 DEF TreesIInv

\* The statements of a read but the map and the rows
LEMMA OthersKeepTrees ==
    ASSUME SearchIInv, TreesIInv,
           ReadChain \/ ReadFounder \/ ReadSpouses \/ ReadMore \/ ReadRound \/ EndPath
             \/ ReadExportPersons \/ ReadExportMarriages \/ ReadExportLinks
    PROVE  /\ UNCHANGED <<graph, sinceMap>>
           /\ got'.founder \in Persons \cup {None} /\ got'.rows = got.rows /\ got'.attach = got.attach /\ got'.doi = got.doi
           /\ read'.at # "rows"
           /\ got.rows # {} => read'.at \in {"more", "done"}
<1>1. DOMAIN read = DOMAIN Idle /\ DOMAIN got = DOMAIN Nothing /\ alive \subseteq Persons
  BY DEF SearchIInv
<1>2. got.founder \in Persons \cup {None} /\ (got.rows # {} => read.at \in {"spouses", "more", "done"})
  BY DEF TreesIInv
<1>3. CASE ReadChain
  <2>1. PICK x, step : Answer(step, [got EXCEPT !.chain = x]) /\ step \in {"founder", "done"}
    BY <1>3 DEF ReadChain
  <2>2. read'.at = step /\ got' = [got EXCEPT !.chain = x]
    BY <1>1, <2>1, AnswersKeepTheRead
  <2>3. got'.founder = got.founder /\ got'.rows = got.rows /\ got'.attach = got.attach /\ got'.doi = got.doi
    BY <1>1, <2>2 DEF Nothing
  <2> QED
    BY <1>2, <1>3, <2>1, <2>2, <2>3 DEF ReadChain, At, Stay, graph
<1>4. CASE ReadFounder
  <2>1. PICK f \in Persons \cup {None} : got' = [got EXCEPT !.founder = f]
    BY <1>1, <1>4 DEF ReadFounder, Answer
  <2>2. read'.at \in {"map", "done"}
    BY <1>1, <1>4 DEF ReadFounder, Answer, Idle
  <2>3. got'.founder = f /\ got'.rows = got.rows /\ got'.attach = got.attach /\ got'.doi = got.doi
    BY <1>1, <2>1 DEF Nothing
  <2> QED
    BY <1>2, <1>4, <2>1, <2>2, <2>3 DEF ReadFounder, At, Stay, graph
<1>5. CASE ReadSpouses
  <2>1. PICK x, step : Answer(step, [got EXCEPT !.spouses = x]) /\ step \in {"more", "done"}
    BY <1>5 DEF ReadSpouses
  <2>2. read'.at = step /\ got' = [got EXCEPT !.spouses = x]
    BY <1>1, <2>1, AnswersKeepTheRead
  <2>3. got'.founder = got.founder /\ got'.rows = got.rows /\ got'.attach = got.attach /\ got'.doi = got.doi
    BY <1>1, <2>2 DEF Nothing
  <2> QED
    BY <1>2, <1>5, <2>1, <2>2, <2>3 DEF ReadSpouses, Stay, graph
<1>6. CASE ReadMore
  <2>1. PICK x : Answer("done", [got EXCEPT !.more = x])
    BY <1>6 DEF ReadMore
  <2>2. read'.at = "done" /\ got' = [got EXCEPT !.more = x]
    BY <1>1, <2>1, AnswersKeepTheRead
  <2>3. got'.founder = got.founder /\ got'.rows = got.rows /\ got'.attach = got.attach /\ got'.doi = got.doi
    BY <1>1, <2>2 DEF Nothing
  <2> QED
    BY <1>2, <1>6, <2>1, <2>2, <2>3 DEF ReadMore, Stay, graph
<1>7. CASE ReadRound
  <2>1. PICK x, y, z : got' = [got EXCEPT !.frontier = x, !.visited = y, !.round = z]
    BY <1>7 DEF ReadRound
  <2>2. read' = read /\ read.at = "round"
    BY <1>7 DEF ReadRound, At
  <2>3. got'.founder = got.founder /\ got'.rows = got.rows /\ got'.attach = got.attach /\ got'.doi = got.doi
    BY <1>1, <2>1 DEF Nothing
  <2> QED
    BY <1>2, <1>7, <2>2, <2>3 DEF ReadRound, Stay, graph
<1>8. CASE EndPath
  <2>1. PICK x : Answer("done", [got EXCEPT !.term = x])
    BY <1>8 DEF EndPath
  <2>2. read'.at = "done" /\ got' = [got EXCEPT !.term = x]
    BY <1>1, <2>1, AnswersKeepTheRead
  <2>3. got'.founder = got.founder /\ got'.rows = got.rows /\ got'.attach = got.attach /\ got'.doi = got.doi
    BY <1>1, <2>2 DEF Nothing
  <2> QED
    BY <1>2, <1>8, <2>1, <2>2, <2>3 DEF EndPath, Stay, graph
<1>9. CASE ReadExportPersons \/ ReadExportMarriages \/ ReadExportLinks
  <2>1. PICK x, y, step : /\ step \in {"marriages", "links", "founder"}
                          /\ \/ Answer(step, [got EXCEPT !.persons = x])
                             \/ Answer(step, [got EXCEPT !.marriages = x])
                             \/ Answer(step, [got EXCEPT !.document = x, !.edges = y])
    BY <1>9 DEF ReadExportPersons, ReadExportMarriages, ReadExportLinks
  <2>2. /\ read'.at = step
        /\ \/ got' = [got EXCEPT !.persons = x]
           \/ got' = [got EXCEPT !.marriages = x]
           \/ got' = [got EXCEPT !.document = x, !.edges = y]
    BY <1>1, <2>1, AnswersKeepTheRead
  <2>3. got'.founder = got.founder /\ got'.rows = got.rows /\ got'.attach = got.attach /\ got'.doi = got.doi
    BY <1>1, <2>2 DEF Nothing
  <2> QED
    BY <1>2, <1>9, <2>1, <2>2, <2>3
       DEF ReadExportPersons, ReadExportMarriages, ReadExportLinks, At, Stay, graph
<1> QED
  BY <1>3, <1>4, <1>5, <1>6, <1>7, <1>8, <1>9

\* The map is made of the links of its moment.
LEMMA MapKeepsTrees == ASSUME SearchIInv, ExportIInv, TreesIInv, ReadMap PROVE TreesIInv'
<1>1. DOMAIN read = DOMAIN Idle /\ DOMAIN got = DOMAIN Nothing /\ read.at = "map" /\ got.rows = {}
  BY DEF SearchIInv, TreesIInv, ReadMap, At
<1> DEFINE doi == GenerationMap(LiveLinks, Gender, got.founder)
<1>2. PICK step : Answer(step, [got EXCEPT !.doi = doi])
  BY DEF ReadMap
<1>3. UNCHANGED graph /\ sinceMap' = {}
  BY DEF ReadMap, Stay
<1>4. /\ Typed(links) /\ Numbered(links) /\ LinkedOnce(links)
      /\ \A p \in Persons : Gender[p] \in DOMAIN GenderRank
      /\ got.founder \in Persons \cup {None}
  BY DEF TreesIInv, ExportIInv
<1>5. Typed(LiveLinks) /\ Numbered(LiveLinks) /\ LinkedOnce(LiveLinks)
  <2>1. LiveLinks \in SUBSET links
    BY DEF LiveLinks
  <2> QED
    BY <1>4, <2>1, FewerAreNumbered DEF LinkedOnce
<1>6. Follows(doi, LiveLinks, Gender) /\ NamesParents(doi, LiveLinks)
  BY <1>4, <1>5, GenerationsFollow
<1> HIDE DEF doi
<1>7. read'.at = step /\ got' = [got EXCEPT !.doi = doi]
  BY <1>1, <1>2, AnswersKeepTheRead
<1>8. got'.founder = got.founder /\ got'.rows = {} /\ got'.doi = doi
  BY <1>1, <1>7 DEF Nothing
<1>9. links' = links /\ LiveLinks' = LiveLinks /\ Gender' = Gender
  BY <1>3 DEF graph, LiveLinks, Gender
<1>10. Typed(links)' /\ Numbered(links)' /\ (\A p \in Persons : Gender[p] \in DOMAIN GenderRank)'
  BY <1>4, <1>9 DEF Typed, Numbered, Numbering
<1>11. Follows(got.doi, LiveLinks, Gender)' /\ NamesParents(got.doi, LiveLinks)'
  BY <1>6, <1>8, <1>9 DEF Follows, NamesParents
<1> QED
  BY <1>4, <1>8, <1>10, <1>11 DEF TreesIInv

\* Nothing was removed since the map, so everyone of the rows hangs from the root.
LEMMA RowsKeepTrees == ASSUME SearchIInv, ExportIInv, TreesIInv, ReadRows PROVE TreesIInv'
<1>1. DOMAIN read = DOMAIN Idle /\ DOMAIN got = DOMAIN Nothing /\ read.at = "rows" /\ got.rows = {} /\ alive \subseteq Persons
  BY DEF SearchIInv, TreesIInv, ReadRows, At
<1>2. UNCHANGED <<graph, sinceMap>>
  BY DEF ReadRows, Stay
<1>3. /\ Typed(links) /\ Numbered(links)
      /\ \A p \in Persons : Gender[p] \in DOMAIN GenderRank
      /\ got.founder \in Persons \cup {None}
      /\ sinceMap = {} => Follows(got.doi, LiveLinks, Gender)
      /\ "removed" \notin sinceMap => NamesParents(got.doi, LiveLinks)
  BY <1>1 DEF TreesIInv
<1>4. links' = links /\ sinceMap' = sinceMap /\ LiveLinks' = LiveLinks /\ Gender' = Gender
  BY <1>2 DEF graph, LiveLinks, Gender
<1>5. Typed(links)' /\ Numbered(links)' /\ (\A p \in Persons : Gender[p] \in DOMAIN GenderRank)'
  BY <1>3, <1>4 DEF Typed, Numbered, Numbering
<1>6. CASE read.from \notin alive
  <2>1. read'.at = "done" /\ got' = got
    BY <1>1, <1>6, AnswersKeepTheRead DEF ReadRows
  <2> QED
    BY <1>1, <1>3, <1>5, <2>1 DEF TreesIInv
<1>7. CASE read.from \in alive
  <2> DEFINE flat == FlatRows(LiveLinks, read.from, MaxGenerations)
             hangs(f) == AttachOf(flat, got.doi, f)
  <2>1. PICK f \in FirstParents(flat) : Answer("spouses", [got EXCEPT !.rows = flat, !.attach = hangs(f)])
    BY <1>7 DEF ReadRows
  <2>2. Typed(LiveLinks) /\ Numbered(LiveLinks)
    <3>1. LiveLinks \in SUBSET links
      BY DEF LiveLinks
    <3> QED
      BY <1>3, <3>1, FewerAreNumbered
  <2>3. PICK m \in Nat : \E rank : Numbering(LiveLinks, m, rank)
    BY <2>2 DEF Numbered
  <2>4. PICK rank : Numbering(LiveLinks, m, rank)
    BY <2>3
  <2>5. read.from \in Persons /\ MaxGenerations \in Nat /\ rank \in [Persons -> 0..m]
    BY <1>1, <1>7, <2>4, FamiliesAreTyped DEF Numbering
  <2>6. read.from \in Nodes(flat) /\ Nodes(flat) \in SUBSET Persons
    <3>1. read.from \in Nodes(flat) /\ Nodes(flat) \subseteq Reachable(LiveLinks, read.from)
      BY <2>2, <2>5, RowsAre
    <3> QED
      BY <2>2, <2>5, <3>1, ReachableIsLeast
  <2>7. DOMAIN hangs(f) = Nodes(flat)
    BY DEF AttachOf
  <2>8. ASSUME "removed" \notin sinceMap PROVE People(Rendered(hangs(f))) = Nodes(flat)
    <3>1. NamesParents(got.doi, LiveLinks)
      BY <1>3, <2>8
    <3>2. hangs(f)[read.from] = None /\ Climbs(Nodes(flat), read.from, hangs(f), rank)
      BY <2>1, <2>2, <2>4, <2>5, <3>1, AttachedIsBelow
    <3> HIDE DEF flat, hangs
    <3> QED
      BY <2>5, <2>6, <2>7, <3>2, EveryoneHangs
  <2> HIDE DEF flat, hangs
  <2>9. read'.at = "spouses" /\ got' = [got EXCEPT !.rows = flat, !.attach = hangs(f)]
    BY <1>1, <2>1, AnswersKeepTheRead
  <2>10. got'.rows = flat /\ got'.attach = hangs(f) /\ got'.founder = got.founder /\ got'.doi = got.doi
    BY <1>1, <2>9 DEF Nothing
  <2>11. (\/ read.at = "rows" \/ got.rows # {})' /\ sinceMap' = {} => Follows(got.doi, LiveLinks, Gender)'
    BY <1>3, <1>4, <2>10 DEF Follows
  <2>12. Hung' = Rendered(hangs(f))
    BY <2>10 DEF Hung
  <2>13. /\ (got.rows # {} => read.at \in {"spouses", "more", "done"})' /\ (got.founder \in Persons \cup {None})'
         /\ read'.at # "rows"
    BY <1>3, <2>9, <2>10
  <2>14. (got.rows # {} =>
           /\ Nodes(got.rows) \in SUBSET Persons /\ DOMAIN got.attach = Nodes(got.rows)
           /\ "removed" \notin sinceMap => People(Hung) = Nodes(got.rows))'
    BY <1>4, <2>6, <2>7, <2>8, <2>10, <2>12
  <2> QED
    BY <1>5, <2>11, <2>13, <2>14 DEF TreesIInv
<1> QED
  BY <1>6, <1>7

LEMMA NextTrees == ASSUME SearchIInv, ExportIInv, TreesIInv, [Next]_vars PROVE TreesIInv'
<1>1. CASE Edit
  BY <1>1, EditsKeepTrees
<1>2. CASE ReadMap
  BY <1>2, MapKeepsTrees
<1>3. CASE ReadRows
  BY <1>3, RowsKeepTrees
<1>4. CASE \E kind \in Kinds : \E p, q \in Persons \cup {None} : Begin(kind, p, q)
  <2>1. PICK kind, u, v : /\ read' = [kind |-> kind, at |-> FirstOf(kind), from |-> u, to |-> v]
                          /\ \/ got' = [Nothing EXCEPT !.visited = {Origin(u)}, !.frontier = {Origin(u)}]
                             \/ got' = Nothing
                          /\ UNCHANGED graph
    BY <1>4 DEF Begin, Stay
  <2>2. read'.at # "rows"
    <3>1. read'.at = FirstOf(kind)
      BY <2>1
    <3>2. FirstOf(kind) \in {"chain", "round", "persons", "founder"}
      BY DEF FirstOf
    <3> QED
      BY <3>1, <3>2
  <2>3. got'.founder = None /\ got'.rows = {}
    <3>1. Nothing.founder = None /\ Nothing.rows = {} /\ {"founder", "rows"} \subseteq DOMAIN Nothing
      BY DEF Nothing
    <3>2. PICK x, y : got' = [Nothing EXCEPT !.visited = x, !.frontier = y] \/ got' = Nothing
      BY <2>1
    <3> HIDE DEF Nothing
    <3> QED
      BY <3>1, <3>2
  <2>4. links' = links /\ Gender' = Gender
    BY <2>1 DEF graph, Gender
  <2>5. Typed(links)' /\ Numbered(links)' /\ (\A p \in Persons : Gender[p] \in DOMAIN GenderRank)'
    BY <2>4 DEF TreesIInv, Typed, Numbered, Numbering
  <2> QED
    BY <2>2, <2>3, <2>5 DEF TreesIInv
<1>5. CASE ReadChain \/ ReadFounder \/ ReadSpouses \/ ReadMore \/ ReadRound \/ EndPath
             \/ ReadExportPersons \/ ReadExportMarriages \/ ReadExportLinks
  <2>1. /\ UNCHANGED <<graph, sinceMap>>
        /\ got'.founder \in Persons \cup {None} /\ got'.rows = got.rows /\ got'.attach = got.attach /\ got'.doi = got.doi
        /\ read'.at # "rows"
        /\ got.rows # {} => read'.at \in {"more", "done"}
    BY <1>5, OthersKeepTrees
  <2>2. links' = links /\ sinceMap' = sinceMap /\ LiveLinks' = LiveLinks /\ Gender' = Gender /\ Hung' = Hung
    BY <2>1 DEF graph, LiveLinks, Gender, Hung
  <2>3. Typed(links)' /\ Numbered(links)' /\ (\A p \in Persons : Gender[p] \in DOMAIN GenderRank)'
    BY <2>2 DEF TreesIInv, Typed, Numbered, Numbering
  <2>4. ((read.at = "rows" \/ got.rows # {}) /\ sinceMap = {} => Follows(got.doi, LiveLinks, Gender))'
    BY <2>1, <2>2 DEF TreesIInv, Follows
  <2>5. (got.rows # {} =>
           /\ Nodes(got.rows) \in SUBSET Persons /\ DOMAIN got.attach = Nodes(got.rows)
           /\ "removed" \notin sinceMap => People(Hung) = Nodes(got.rows))'
    BY <2>1, <2>2 DEF TreesIInv
  <2> QED
    BY <2>1, <2>3, <2>4, <2>5 DEF TreesIInv
<1>6. CASE UNCHANGED vars
  BY <1>6 DEF vars, graph, TreesIInv, Gender, LiveLinks, Hung, Typed, Numbered, Numbering, Follows, NamesParents
<1> QED
  BY <1>1, <1>2, <1>3, <1>4, <1>5, <1>6 DEF Next, Read

LEMMA TreesInvariant == Spec => []TreesIInv
<1>1. Init => TreesIInv
  BY InitTrees
<1>2. Init => ExportIInv
  BY FamiliesAreLinkedOnce DEF Init, ExportIInv, Idle
<1>3. SearchIInv /\ ExportIInv /\ [Next]_vars => ExportIInv'
  BY NextExportIInv
<1>4. SearchIInv /\ ExportIInv /\ TreesIInv /\ [Next]_vars => TreesIInv'
  BY NextTrees
<1> QED
  BY <1>1, <1>2, <1>3, <1>4, SearchInvariant, PTL DEF Spec

\* The generation of a child is one more than that of his father, whatever the root, the
\* depth and the other parents (tree_builder.py, compute_generation_map).
THEOREM GenerationAlwaysFollows == Spec => []GenerationFollowsFather
<1>1. TreesIInv => GenerationFollowsFather
  BY DEF TreesIInv, GenerationFollowsFather, Assembled, Follows
<1> QED
  BY <1>1, TreesInvariant, PTL

\* Nobody is left out of an assembled tree but by a removal between its map and its rows, and
\* nobody is in it twice (tree_builder.py, build_descendants_tree).
THEOREM LostAlwaysByRemoval == Spec => []LostOnlyByRemoval
<1>1. TreesIInv => LostOnlyByRemoval
  <2> SUFFICES ASSUME TreesIInv, got.rows # {}
               PROVE  /\ "removed" \notin sinceMap => CountNodes(Hung) = Cardinality(Nodes(got.rows))
                      /\ \A p \in Nodes(got.rows) : Cardinality({i \in DOMAIN Hung : p \in Hung[i]}) <= 1
    BY DEF LostOnlyByRemoval, Assembled
  <2>1. DOMAIN got.attach \in SUBSET Persons
    BY DEF TreesIInv
  <2>2. \A p : Cardinality({i \in DOMAIN Hung : p \in Hung[i]}) <= 1
    BY <2>1, NobodyIsTwice DEF Hung
  <2>3. "removed" \notin sinceMap => CountNodes(Hung) = Cardinality(Nodes(got.rows))
    BY DEF TreesIInv, CountNodes
  <2> QED
    BY <2>2, <2>3
<1> QED
  BY <1>1, TreesInvariant, PTL
=============================================================================
