---------------------------- MODULE AccountsProofs ----------------------------
(***************************************************************************)
(* Who an account is: theorems about the claims on a person (any users,    *)
(* persons, claims and concurrent requests) and about what MCAccounts      *)
(* checks, accounts with their registration and the limits on requests,    *)
(* whichever of the two its initial state chooses.                         *)
(***************************************************************************)
EXTENDS IdentityClaims, MCAccounts, FiniteSetTheorems, SequenceTheorems,
        WellFoundedInduction, TLAPS

-----------------------------------------------------------------------------
(* Numbers *)

\* A set of natural numbers has a least one: induction, as a statement on sets.
LEMMA LeastNumber ==
    ASSUME NEW T \in SUBSET Nat, T # {}
    PROVE  \E x \in T : \A y \in T : x <= y
<1>1. IsWellFoundedOn(OpToRel(<, Nat), Nat)
  BY NatLessThanWellFounded
<1>2. PICK x \in T : \A y \in T : ~(<<y, x>> \in OpToRel(<, Nat))
  BY <1>1, WFMin
<1>3. \A y \in T : ~(y < x)
  BY <1>2 DEF OpToRel
<1> QED
  BY <1>3

\* Induction, as a statement on sets.
LEMMA NumbersUpTo ==
    ASSUME NEW m \in Nat, NEW T, 0 \in T, \A n \in 0..m : n < m /\ n \in T => n + 1 \in T
    PROVE  \A n \in 0..m : n \in T
<1> DEFINE U == {n \in 0..m : n \notin T}
<1> SUFFICES ASSUME U # {} PROVE FALSE
  OBVIOUS
<1>1. U \in SUBSET Nat
  OBVIOUS
<1>2. PICK x \in U : \A y \in U : x <= y
  BY <1>1, LeastNumber
<1>3. x # 0 /\ x - 1 \in 0..m /\ x - 1 < m
  OBVIOUS
<1>4. x - 1 \in T
  BY <1>2, <1>3
<1> QED
  BY <1>3, <1>4

Steps(f, m, next) == \A n \in 1..m : f[n] = next[<<n, f[n - 1]>>]

\* A recursion on numbers has a solution.
LEMMA StepsExist ==
    ASSUME NEW m \in Nat, NEW S, NEW first \in S, NEW next \in [(1..m) \X S -> S]
    PROVE  \E f \in [0..m -> S] : f[0] = first /\ Steps(f, m, next)
<1> DEFINE Goes(x, f) == f[0] = first /\ \A n \in 1..x : f[n] = next[<<n, f[n - 1]>>]
           T == {x \in 0..m : \E f \in [0..x -> S] : Goes(x, f)}
<1>1. 0 \in T
  <2> DEFINE f == [n \in 0..0 |-> first]
  <2>1. f \in [0..0 -> S] /\ f[0] = first
    OBVIOUS
  <2> HIDE DEF f
  <2>2. Goes(0, f)
    BY <2>1
  <2> QED
    BY <2>1, <2>2
<1>2. ASSUME NEW x \in 0..m, x < m, x \in T PROVE x + 1 \in T
  <2>1. PICK f \in [0..x -> S] : Goes(x, f)
    BY <1>2
  <2> DEFINE g == [n \in 0..(x + 1) |-> IF n = x + 1 THEN next[<<x + 1, f[x]>>] ELSE f[n]]
  <2>2. g \in [0..(x + 1) -> S]
    BY <1>2
  <2>3. /\ g[0] = f[0] /\ \A n \in 1..x : g[n] = f[n] /\ g[n - 1] = f[n - 1]
        /\ g[x + 1] = next[<<x + 1, f[x]>>] /\ g[x] = f[x]
    BY <1>2
  <2> HIDE DEF g
  <2>4. Goes(x + 1, g)
    <3>1. ASSUME NEW n \in 1..(x + 1) PROVE g[n] = next[<<n, g[n - 1]>>]
      <4>1. CASE n = x + 1
        BY <1>2, <2>3, <4>1
      <4>2. CASE n # x + 1
        BY <1>2, <2>1, <2>3, <4>2
      <4> QED
        BY <4>1, <4>2
    <3> QED
      BY <2>1, <2>3, <3>1
  <2> QED
    BY <1>2, <2>2, <2>4
<1> HIDE DEF T
<1>3. m \in T
  BY <1>1, <1>2, NumbersUpTo
<1> QED
  BY <1>3 DEF T, Steps


-----------------------------------------------------------------------------
(* Claims: the lock on the persons row is what makes the answer of        *)
(* is_person_linked hold until the request writes; JobInv says what a      *)
(* request has established by the time it gets to each statement.          *)

\* A persons row is locked by one request.
LocksExclusive ==
    \A r, s \in Requests : r # s /\ lock[r] = lock[s] => lock[r] = None

\* A claim that exists has its user and its person.
ClaimsOwned ==
    \A c \in Claims : claims[c].status # "none" =>
        claims[c].user \in Users /\ claims[c].person \in Persons

JobInv ==
    \A r \in Requests : pc[r] # "idle" =>
        /\ job[r].user \in Users
        /\ job[r].person \in Persons \/ (job[r].op = "unlink" /\ pc[r] = "user")
        /\ job[r].op \in OnClaim =>
             /\ job[r].claim \in Claims
             /\ claims[job[r].claim].status # "none"
             /\ claims[job[r].claim].user = job[r].user
             /\ claims[job[r].claim].person = job[r].person
             /\ pc[r] = "write" => seen[r] = "PENDING"
        /\ pc[r] = "user" => job[r].op \notin {"cancel", "reject"}
        /\ pc[r] = "linked" => job[r].op \in Linking \cup {"submit"}
        /\ pc[r] = "lock" => job[r].op \in Linking
        /\ pc[r] = "role" => job[r].op = "prelink"
        /\ pc[r] = "pending" => job[r].op = "submit"

\* From lock_person on a linking request holds the row.
LockHeld ==
    \A r \in Requests :
        \/ pc[r] \in {"linked", "role", "write"} /\ job[r].op \in Linking
        \/ pc[r] = "user" /\ job[r].op = "approve"
        => lock[r] = job[r].person

\* And once it has asked, the person is free.
AskedPersonIsFree ==
    \A r \in Requests :
        pc[r] \in {"role", "write"} /\ job[r].op \in Linking => ~Linked(job[r].person)

IInv ==
    /\ TypeOK
    /\ LocksExclusive
    /\ ClaimsOwned
    /\ JobInv
    /\ LockHeld
    /\ AskedPersonIsFree
    /\ LinkHasDecidedClaim

-----------------------------------------------------------------------------

\* Types are kept by every step.
LEMMA TypeStep == TypeOK /\ JobInv /\ [Next]_vars => TypeOK'
<1> SUFFICES ASSUME TypeOK, JobInv, [Next]_vars PROVE TypeOK'
  OBVIOUS
<1> USE ClaimsAssumption
<1>0. NoJob \in Job
  BY DEF NoJob, Job, Ops
<1>1. ASSUME NEW r \in Requests, End(r)
      PROVE  /\ pc' \in [Requests -> {"idle", "claim", "user", "lock", "linked",
                                      "pending", "role", "write"}]
             /\ job' \in [Requests -> Job]
             /\ seen' \in [Requests -> Statuses \cup {"none"}]
             /\ lock' \in [Requests -> Persons \cup {None}]
  BY <1>0, <1>1 DEF End, TypeOK
<1>2. ASSUME NEW c, NEW st \in Statuses \cup {"none"}, NEW S
      PROVE  Decided(c, st, S) \in [Claims -> Claim]
  BY DEF Decided, TypeOK, Claim, Statuses
<1>3. ASSUME NEW u \in Users, NEW p \in Persons, NEW st \in Statuses
      PROVE  [status |-> st, user |-> u, person |-> p] \in Claim
  BY DEF Claim
<1>4. CASE \E r \in Requests, o \in Ops, u \in Users, p \in Persons \cup {None} :
             BeginOnUser(r, o, u, p)
  <2> PICK r \in Requests, o \in Ops, u \in Users, p \in Persons \cup {None} :
        BeginOnUser(r, o, u, p)
    BY <1>4
  <2> [op |-> o, claim |-> None, user |-> u, person |-> p] \in Job
    BY DEF Job
  <2> QED
    BY DEF BeginOnUser, Goto, tables, TypeOK
<1>5. CASE \E r \in Requests, o \in Ops, c \in Claims : BeginOnClaim(r, o, c)
  <2> PICK r \in Requests, o \in Ops, c \in Claims : BeginOnClaim(r, o, c)
    BY <1>5
  <2>1. claims[c] \in Claim
    BY DEF TypeOK
  <2>2. [op |-> o, claim |-> c, user |-> claims[c].user, person |-> claims[c].person] \in Job
    BY <2>1 DEF Job, Claim
  <2>3. claims[c].status \in Statuses \cup {"none"}
    BY <2>1 DEF Claim
  <2> QED
    BY <2>2, <2>3 DEF BeginOnClaim, Goto, tables, TypeOK
<1>6. CASE \E r \in Requests : Step(r)
  <2> PICK r \in Requests : Step(r)
    BY <1>6
  <2>0. job[r] \in Job
    BY DEF TypeOK
  <2>1. CASE LockPerson(r)
    BY <2>0, <2>1 DEF LockPerson, Goto, tables, TypeOK, Job
  <2>2. CASE ReadUser(r)
    BY <2>2 DEF ReadUser, Goto, tables, TypeOK
  <2>3. CASE ReadUserToUnlink(r)
    <3>1. job[r].user \in Users
      BY <2>3 DEF ReadUserToUnlink, JobInv
    <3>2. link[job[r].user] \in Persons \cup {None}
      BY <3>1 DEF TypeOK
    <3>3. [job[r] EXCEPT !.person = link[job[r].user]] \in Job
      BY <2>0, <3>2 DEF Job
    <3> QED
      BY <2>3, <3>3 DEF ReadUserToUnlink, Goto, tables, TypeOK
  <2>4. CASE ReadLinked(r)
    BY <2>4 DEF ReadLinked, Goto, tables, TypeOK
  <2>5. CASE ReadPending(r)
    BY <2>5 DEF ReadPending, Goto, tables, TypeOK
  <2>6. CASE ReadRole(r)
    BY <2>6 DEF ReadRole, Goto, tables, TypeOK
  <2>7. CASE Submit(r)
    <3>1. [status |-> "PENDING", user |-> job[r].user, person |-> job[r].person] \in Claim
      BY <2>7 DEF Submit, Writing, JobInv, Claim, Statuses
    <3> QED
      BY <2>7, <1>1, <3>1 DEF Submit, TypeOK
  <2>8. CASE CancelOrReject(r)
    <3>1. ASSUME NEW st \in Statuses, NEW c \in Claims
          PROVE  [claims EXCEPT ![c].status = st] \in [Claims -> Claim]
      BY DEF TypeOK, Claim
    <3>2. job[r].claim \in Claims
      BY <2>8 DEF CancelOrReject, Writing, JobInv, OnClaim
    <3>3. claims' \in [Claims -> Claim]
      BY <2>8, <3>1, <3>2 DEF CancelOrReject, Statuses
    <3> QED
      BY <2>8, <1>1, <3>3 DEF CancelOrReject, TypeOK
  <2>9. CASE Approve(r)
    <3>1. job[r].user \in Users /\ job[r].person \in Persons
      BY <2>9 DEF Approve, Writing, JobInv
    <3>2. claims' \in [Claims -> Claim]
      BY <2>9, <1>2 DEF Approve, Statuses
    <3> QED
      BY <2>9, <1>1, <3>1, <3>2 DEF Approve, TypeOK
  <2>10. CASE Prelink(r)
    <3>1. job[r].user \in Users /\ job[r].person \in Persons
      BY <2>10 DEF Prelink, Writing, JobInv
    <3>2. [status |-> "APPROVED", user |-> job[r].user, person |-> job[r].person] \in Claim
      BY <3>1, <1>3 DEF Statuses
    <3>3. claims' \in [Claims -> Claim]
      BY <2>10, <1>2, <3>2 DEF Prelink, Statuses
    <3> QED
      BY <2>10, <1>1, <3>1, <3>3 DEF Prelink, TypeOK
  <2>11. CASE Unlink(r)
    <3>1. claims' \in [Claims -> Claim]
      BY <2>11, <1>2 DEF Unlink, Statuses
    <3> QED
      BY <2>11, <1>1, <3>1 DEF Unlink, TypeOK
  <2>12. CASE Abort(r)
    BY <2>12, <1>1 DEF Abort, tables, TypeOK
  <2> QED
    BY <2>1, <2>2, <2>3, <2>4, <2>5, <2>6, <2>7, <2>8, <2>9, <2>10, <2>11, <2>12 DEF Step
<1>7. CASE \E u \in Users : MembersChange(u)
  BY <1>7 DEF MembersChange, TypeOK
<1>8. CASE UNCHANGED vars
  BY <1>8 DEF vars, tables, TypeOK
<1> QED
  BY <1>4, <1>5, <1>6, <1>7, <1>8 DEF Next

\* A claim keeps its user and its person and stays inserted, and what was
\* decided is never pending again.
ClaimsMoveOn ==
    \A c \in Claims : claims[c].status # "none" =>
        /\ claims'[c].user = claims[c].user
        /\ claims'[c].person = claims[c].person
        /\ claims'[c].status # "none"
        /\ claims[c].status # "PENDING" => claims'[c].status # "PENDING"

LEMMA ClaimsStep == TypeOK /\ JobInv /\ [Next]_vars => ClaimsMoveOn
<1> SUFFICES ASSUME TypeOK, JobInv, [Next]_vars PROVE ClaimsMoveOn
  OBVIOUS
<1> USE ClaimsAssumption
<1>1. CASE UNCHANGED claims
  BY <1>1 DEF ClaimsMoveOn
<1>2. ASSUME NEW r \in Requests, Submit(r) PROVE ClaimsMoveOn
  BY <1>2 DEF Submit, TypeOK, NoClaim, ClaimsMoveOn
<1>3. ASSUME NEW r \in Requests, CancelOrReject(r) PROVE ClaimsMoveOn
  BY <1>3 DEF CancelOrReject, TypeOK, Claim, ClaimsMoveOn
<1>4. ASSUME NEW c, NEW st \in Statuses \ {"PENDING"}, NEW S, claims' = Decided(c, st, S)
      PROVE  ClaimsMoveOn
  BY <1>4 DEF Decided, TypeOK, Claim, Statuses, Pending, ClaimsMoveOn
<1>5. ASSUME NEW r \in Requests, Approve(r) PROVE ClaimsMoveOn
  BY <1>4, <1>5 DEF Approve, Statuses
<1>6. ASSUME NEW r \in Requests, Prelink(r) PROVE ClaimsMoveOn
  BY <1>6 DEF Prelink, Decided, NoClaim, TypeOK, Claim, Statuses, Pending, ClaimsMoveOn
<1>7. ASSUME NEW r \in Requests, Unlink(r) PROVE ClaimsMoveOn
  <2>1. CASE claims' = Decided(None, "none",
                                ClaimsOnUserOrPerson(job[r].user, job[r].person))
    BY <2>1 DEF Decided, TypeOK, Claim, Statuses, Pending, ClaimsMoveOn
  <2> QED
    BY <1>4, <1>7, <2>1 DEF Unlink, Statuses
<1> QED
  BY <1>1, <1>2, <1>3, <1>5, <1>6, <1>7
     DEF Next, vars, tables, Step, BeginOnUser, BeginOnClaim, LockPerson, ReadUser,
         ReadUserToUnlink, ReadLinked, ReadPending, ReadRole, Abort, MembersChange, Goto

\* A claim that is inserted has its owner.
LEMMA OwnedStep == TypeOK /\ JobInv /\ ClaimsOwned /\ [Next]_vars => ClaimsOwned'
<1> SUFFICES ASSUME TypeOK, JobInv, ClaimsOwned, [Next]_vars PROVE ClaimsOwned'
  OBVIOUS
<1> USE ClaimsAssumption
<1>1. CASE UNCHANGED claims
  BY <1>1 DEF ClaimsOwned
<1>2. ASSUME NEW r \in Requests, Submit(r) PROVE ClaimsOwned'
  BY <1>2 DEF Submit, Writing, JobInv, TypeOK, ClaimsOwned
<1>3. ASSUME NEW r \in Requests, CancelOrReject(r) PROVE ClaimsOwned'
  <2>1. job[r].claim \in Claims /\ claims[job[r].claim].status # "none"
    BY <1>3 DEF CancelOrReject, Writing, JobInv, OnClaim
  <2> QED
    BY <1>3, <2>1 DEF CancelOrReject, TypeOK, Claim, ClaimsOwned
<1>4. ASSUME NEW c, NEW st, NEW S,
             c \in Claims => claims[c].status # "none"
      PROVE  \A d \in Claims : Decided(c, st, S)[d].status # "none" =>
               /\ Decided(c, st, S)[d].user \in Users
               /\ Decided(c, st, S)[d].person \in Persons
  BY <1>4 DEF Decided, TypeOK, Claim, Pending, ClaimsOwned
<1>5. ASSUME NEW r \in Requests, Approve(r) PROVE ClaimsOwned'
  <2>1. job[r].claim \in Claims /\ claims[job[r].claim].status # "none"
    BY <1>5 DEF Approve, Writing, JobInv, OnClaim
  <2> QED
    BY <1>4, <1>5, <2>1 DEF Approve, ClaimsOwned
<1>6. ASSUME NEW r \in Requests, Prelink(r) PROVE ClaimsOwned'
  <2>1. job[r].user \in Users /\ job[r].person \in Persons
    BY <1>6 DEF Prelink, Writing, JobInv
  <2> QED
    BY <1>6, <2>1 DEF Prelink, Decided, TypeOK, Claim, Pending, ClaimsOwned
<1>7. ASSUME NEW r \in Requests, Unlink(r) PROVE ClaimsOwned'
  BY <1>4, <1>7 DEF Unlink, ApprovedFor, ClaimsOwned
<1> QED
  BY <1>1, <1>2, <1>3, <1>5, <1>6, <1>7
     DEF Next, vars, tables, Step, BeginOnUser, BeginOnClaim, LockPerson, ReadUser,
         ReadUserToUnlink, ReadLinked, ReadPending, ReadRole, Abort, MembersChange, Goto

\* What a request has established is kept, its own steps and those of others.
LEMMA JobStep == TypeOK /\ ClaimsOwned /\ JobInv /\ [Next]_vars => JobInv'
<1> SUFFICES ASSUME TypeOK, ClaimsOwned, JobInv, [Next]_vars,
                    NEW s \in Requests, pc'[s] # "idle"
             PROVE  JobInv!(s)'
  BY DEF JobInv
<1> USE ClaimsAssumption
<1>1. ClaimsMoveOn
  BY ClaimsStep
<1>2. CASE pc[s] # "idle" /\ pc'[s] = pc[s] /\ job'[s] = job[s] /\ seen'[s] = seen[s]
  BY <1>1, <1>2 DEF JobInv, ClaimsMoveOn
<1>3. CASE \E o \in Ops, u \in Users, p \in Persons \cup {None} : BeginOnUser(s, o, u, p)
  BY <1>3 DEF BeginOnUser, Goto, tables, TypeOK, Ops, OnClaim, Linking
<1>4. CASE \E o \in Ops, c \in Claims : BeginOnClaim(s, o, c)
  <2> PICK o \in Ops, c \in Claims : BeginOnClaim(s, o, c)
    BY <1>4
  <2>1. /\ pc'[s] = IF o = "approve" THEN "lock" ELSE "write"
        /\ job'[s] = [op |-> o, claim |-> c, user |-> claims[c].user,
                      person |-> claims[c].person]
        /\ seen'[s] = claims[c].status
        /\ claims' = claims
    BY DEF BeginOnClaim, Goto, tables, TypeOK
  <2>2. claims[c].status # "none" /\ (o # "approve" => Pending(c)) /\ o \in OnClaim
    BY DEF BeginOnClaim
  <2> QED
    BY <2>1, <2>2 DEF ClaimsOwned, OnClaim, Linking, Pending
<1>5. CASE LockPerson(s)
  BY <1>5 DEF LockPerson, Goto, tables, JobInv, TypeOK, OnClaim, Linking
<1>6. CASE ReadUser(s)
  BY <1>6 DEF ReadUser, Goto, tables, JobInv, TypeOK, Job, Ops, OnClaim, Linking
<1>7. CASE ReadUserToUnlink(s)
  <2>1. job[s].user \in Users
    BY <1>7 DEF ReadUserToUnlink, JobInv
  <2>2. link[job[s].user] \in Persons
    BY <1>7, <2>1 DEF ReadUserToUnlink, TypeOK
  <2>3. job[s] \in Job /\ job'[s] = [job[s] EXCEPT !.person = link[job[s].user]]
    BY <1>7 DEF ReadUserToUnlink, TypeOK
  <2>4. job'[s].op = "unlink" /\ job'[s].user = job[s].user /\ job'[s].person \in Persons
    BY <1>7, <2>2, <2>3 DEF ReadUserToUnlink, Job
  <2>5. pc'[s] = "write"
    BY <1>7 DEF ReadUserToUnlink, Goto, TypeOK
  <2> QED
    BY <2>1, <2>4, <2>5 DEF OnClaim
<1>8. CASE ReadLinked(s)
  BY <1>8 DEF ReadLinked, Goto, tables, JobInv, TypeOK, OnClaim, Linking
<1>9. CASE ReadPending(s)
  BY <1>9 DEF ReadPending, Goto, tables, JobInv, TypeOK, OnClaim, Linking
<1>10. CASE ReadRole(s)
  BY <1>10 DEF ReadRole, Goto, tables, JobInv, TypeOK, OnClaim, Linking
<1>11. ASSUME NEW r \in Requests, End(r)
       PROVE  r # s /\ pc[s] # "idle" /\ pc'[s] = pc[s] /\ job'[s] = job[s]
                    /\ seen'[s] = seen[s]
  BY <1>11 DEF End, TypeOK
<1>12. CASE \E u \in Users : MembersChange(u)
  BY <1>2, <1>12 DEF MembersChange
<1>13. CASE UNCHANGED vars
  BY <1>2, <1>13 DEF vars
<1>14. CASE \E r \in Requests, o \in Ops, u \in Users, p \in Persons \cup {None} :
              BeginOnUser(r, o, u, p)
  BY <1>2, <1>3, <1>14 DEF BeginOnUser, Goto, TypeOK
<1>15. CASE \E r \in Requests, o \in Ops, c \in Claims : BeginOnClaim(r, o, c)
  BY <1>2, <1>4, <1>15 DEF BeginOnClaim, Goto, TypeOK
<1>16. CASE \E r \in Requests : Step(r)
  <2> PICK r \in Requests : Step(r)
    BY <1>16
  <2>1. CASE End(r)
    BY <1>2, <1>11, <2>1
  <2>2. CASE ~End(r)
    <3>1. LockPerson(r) \/ ReadUser(r) \/ ReadUserToUnlink(r) \/ ReadLinked(r)
            \/ ReadPending(r) \/ ReadRole(r)
      BY <2>2 DEF Step, Submit, CancelOrReject, Approve, Prelink, Unlink, Abort
    <3>2. CASE r = s
      BY <1>5, <1>6, <1>7, <1>8, <1>9, <1>10, <3>1, <3>2
    <3>3. CASE r # s
      BY <1>2, <3>1, <3>3 DEF LockPerson, ReadUser, ReadUserToUnlink, ReadLinked,
                              ReadPending, ReadRole, Goto, TypeOK
    <3> QED
      BY <3>2, <3>3
  <2> QED
    BY <2>1, <2>2
<1> QED
  BY <1>12, <1>13, <1>14, <1>15, <1>16 DEF Next

\* The lock is the request's own, and it is the lock of the person it links.
LEMMA LockStep == TypeOK /\ JobInv /\ LocksExclusive /\ LockHeld /\ [Next]_vars
                    => LocksExclusive' /\ LockHeld'
<1> SUFFICES ASSUME TypeOK, JobInv, LocksExclusive, LockHeld, [Next]_vars
             PROVE  LocksExclusive' /\ LockHeld'
  OBVIOUS
<1> USE ClaimsAssumption
<1>1. ASSUME NEW r \in Requests, NEW o \in Ops, NEW u \in Users, NEW p,
             BeginOnUser(r, o, u, p)
      PROVE  LocksExclusive' /\ LockHeld'
  BY <1>1 DEF BeginOnUser, Goto, TypeOK, LocksExclusive, LockHeld, OnClaim, Ops
<1>2. ASSUME NEW r \in Requests, NEW o \in Ops, NEW c \in Claims, BeginOnClaim(r, o, c)
      PROVE  LocksExclusive' /\ LockHeld'
  BY <1>2 DEF BeginOnClaim, Goto, TypeOK, LocksExclusive, LockHeld, OnClaim, Linking
<1>3. ASSUME NEW r \in Requests, Step(r) PROVE LocksExclusive' /\ LockHeld'
  <2>1. CASE End(r)
    BY <2>1 DEF End, TypeOK, LocksExclusive, LockHeld
  <2>2. CASE LockPerson(r)
    BY <2>2 DEF LockPerson, Free, Goto, TypeOK, JobInv, LocksExclusive, LockHeld
  <2>3. CASE ReadUser(r)
    BY <2>3 DEF ReadUser, Goto, TypeOK, JobInv, LocksExclusive, LockHeld, Linking
  <2>4. CASE ReadUserToUnlink(r)
    <3>1. job'[r].op = "unlink"
      BY <2>4 DEF ReadUserToUnlink, TypeOK, Job
    <3> QED
      BY <2>4, <3>1 DEF ReadUserToUnlink, Goto, TypeOK, LocksExclusive, LockHeld, Linking
  <2>5. CASE ReadLinked(r)
    BY <2>5 DEF ReadLinked, Goto, TypeOK, LocksExclusive, LockHeld, Linking
  <2>6. CASE ReadPending(r)
    BY <2>6 DEF ReadPending, Goto, TypeOK, JobInv, LocksExclusive, LockHeld, Linking
  <2>7. CASE ReadRole(r)
    BY <2>7 DEF ReadRole, Goto, TypeOK, JobInv, LocksExclusive, LockHeld, Linking
  <2> QED
    BY <1>3, <2>1, <2>2, <2>3, <2>4, <2>5, <2>6, <2>7
       DEF Step, Submit, CancelOrReject, Approve, Prelink, Unlink, Abort
<1>4. CASE \E u \in Users : MembersChange(u)
  BY <1>4 DEF MembersChange, LocksExclusive, LockHeld
<1>5. CASE UNCHANGED vars
  BY <1>5 DEF vars, LocksExclusive, LockHeld
<1> QED
  BY <1>1, <1>2, <1>3, <1>4, <1>5 DEF Next

\* A person found free stays free: only a request that holds its row links it.
LEMMA AskedStep == TypeOK /\ JobInv /\ LocksExclusive /\ LockHeld
                     /\ AskedPersonIsFree /\ [Next]_vars => AskedPersonIsFree'
<1> SUFFICES ASSUME TypeOK, JobInv, LocksExclusive, LockHeld, AskedPersonIsFree,
                    [Next]_vars,
                    NEW s \in Requests, pc'[s] \in {"role", "write"},
                    job'[s].op \in Linking
             PROVE  ~\E u \in Users : link'[u] = job'[s].person
  BY DEF AskedPersonIsFree, Linked
<1> USE ClaimsAssumption
<1>1. CASE /\ pc[s] \in {"role", "write"} /\ job'[s] = job[s]
           /\ \A u \in Users : link'[u] \in {None, link[u]}
  BY <1>1 DEF AskedPersonIsFree, Linked, JobInv, Linking
<1>2. CASE \E r \in Requests, o \in Ops, u \in Users, p \in Persons \cup {None} :
             BeginOnUser(r, o, u, p)
  BY <1>1, <1>2 DEF BeginOnUser, Goto, tables, TypeOK
<1>3. CASE \E r \in Requests, o \in Ops, c \in Claims : BeginOnClaim(r, o, c)
  BY <1>1, <1>3 DEF BeginOnClaim, Goto, tables, TypeOK, OnClaim, Linking
<1>4. ASSUME NEW r \in Requests, Step(r)
      PROVE  ~\E u \in Users : link'[u] = job'[s].person
  <2>1. ASSUME LockPerson(r) \/ ReadUser(r) \/ ReadPending(r) \/ Submit(r)
                 \/ CancelOrReject(r) \/ Abort(r) \/ ReadRole(r)
        PROVE  /\ pc[s] \in {"role", "write"} /\ job'[s] = job[s]
               /\ link' = link
    BY <2>1 DEF LockPerson, ReadUser, ReadPending, Submit, CancelOrReject, Abort, ReadRole,
                Goto, tables, End, TypeOK, JobInv, Linking
  <2>2. CASE ReadUserToUnlink(r)
    <3>1. r # s
      BY <2>2 DEF ReadUserToUnlink, TypeOK, Job, Linking
    <3> QED
      BY <1>1, <2>2, <3>1 DEF ReadUserToUnlink, Goto, tables, TypeOK
  <2>3. CASE ReadLinked(r)
    <3>1. CASE r = s
      BY <2>3, <3>1 DEF ReadLinked, Goto, tables, TypeOK, Linked
    <3>2. CASE r # s
      BY <1>1, <2>3, <3>2 DEF ReadLinked, Goto, tables, TypeOK
    <3> QED
      BY <3>1, <3>2
  <2>4. CASE Unlink(r)
    <3>1. r # s /\ pc[s] \in {"role", "write"} /\ job'[s] = job[s]
      BY <2>4 DEF Unlink, End, TypeOK
    <3>2. link' = [link EXCEPT ![job[r].user] = None]
      BY <2>4 DEF Unlink
    <3> QED
      BY <1>1, <3>1, <3>2 DEF TypeOK
  <2>5. CASE Approve(r) \/ Prelink(r)
    <3>1. r # s /\ pc[s] \in {"role", "write"} /\ job'[s] = job[s]
      BY <2>5 DEF Approve, Prelink, End, TypeOK
    <3>2. job[r].person = lock[r] /\ job[s].person = lock[s] /\ job[s].person \in Persons
      BY <2>5, <3>1 DEF Approve, Prelink, Writing, LockHeld, JobInv, Linking
    <3>3. job[r].person # job[s].person
      BY <3>1, <3>2 DEF LocksExclusive
    <3>4. link' = [link EXCEPT ![job[r].user] = job[r].person]
      BY <2>5 DEF Approve, Prelink
    <3> QED
      BY <3>1, <3>3, <3>4 DEF AskedPersonIsFree, Linked, TypeOK
  <2> QED
    BY <1>1, <1>4, <2>1, <2>2, <2>3, <2>4, <2>5 DEF Step
<1>5. CASE \E u \in Users : MembersChange(u)
  BY <1>1, <1>5 DEF MembersChange
<1>6. CASE UNCHANGED vars
  BY <1>1, <1>6 DEF vars, tables
<1> QED
  BY <1>2, <1>3, <1>4, <1>5, <1>6 DEF Next

\* The claim behind a link is there from the step that makes the link on.
LEMMA LinkStep == TypeOK /\ JobInv /\ LinkHasDecidedClaim /\ [Next]_vars
                    => LinkHasDecidedClaim'
<1> SUFFICES ASSUME TypeOK, JobInv, LinkHasDecidedClaim, [Next]_vars,
                    NEW u \in Users, link'[u] # None
             PROVE  \E c \in Claims : /\ claims'[c].user = u
                                      /\ claims'[c].person = link'[u]
                                      /\ claims'[c].status \notin {"none", "PENDING"}
  BY DEF LinkHasDecidedClaim
<1> USE ClaimsAssumption
<1>1. CASE link'[u] = link[u]
  <2>1. PICK c \in Claims : /\ claims[c].user = u
                            /\ claims[c].person = link[u]
                            /\ claims[c].status \notin {"none", "PENDING"}
    BY <1>1 DEF LinkHasDecidedClaim
  <2>2. ClaimsMoveOn
    BY ClaimsStep
  <2> QED
    BY <1>1, <2>1, <2>2 DEF ClaimsMoveOn
<1>2. ASSUME NEW r \in Requests, Approve(r), link'[u] # link[u]
      PROVE  \E c \in Claims : /\ claims'[c].user = u
                               /\ claims'[c].person = link'[u]
                               /\ claims'[c].status \notin {"none", "PENDING"}
  <2>1. u = job[r].user /\ link'[u] = job[r].person
    BY <1>2 DEF Approve, TypeOK
  <2>2. /\ job[r].claim \in Claims
        /\ claims[job[r].claim].user = job[r].user
        /\ claims[job[r].claim].person = job[r].person
    BY <1>2 DEF Approve, Writing, JobInv, OnClaim
  <2>3. claims'[job[r].claim] = [claims[job[r].claim] EXCEPT !.status = "APPROVED"]
    BY <1>2, <2>2 DEF Approve, Decided
  <2>4. claims[job[r].claim] \in Claim
    BY <2>2 DEF TypeOK
  <2>5. /\ claims'[job[r].claim].status = "APPROVED"
        /\ claims'[job[r].claim].user = job[r].user
        /\ claims'[job[r].claim].person = job[r].person
    BY <2>2, <2>3, <2>4 DEF Claim
  <2> QED
    BY <2>1, <2>2, <2>5
<1>3. ASSUME NEW r \in Requests, Prelink(r), link'[u] # link[u]
      PROVE  \E c \in Claims : /\ claims'[c].user = u
                               /\ claims'[c].person = link'[u]
                               /\ claims'[c].status \notin {"none", "PENDING"}
  <2>1. u = job[r].user /\ link'[u] = job[r].person
    BY <1>3 DEF Prelink, TypeOK
  <2>2. PICK c \in Claims :
          claims' = [Decided(c, "APPROVED", ClaimsOnUserOrPerson(job[r].user, job[r].person))
                       EXCEPT ![c] = [status |-> "APPROVED", user |-> job[r].user,
                                      person |-> job[r].person]]
    BY <1>3 DEF Prelink
  <2>3. claims'[c] = [status |-> "APPROVED", user |-> job[r].user, person |-> job[r].person]
    BY <2>2 DEF Decided
  <2> QED
    BY <2>1, <2>3
<1>4. ASSUME NEW r \in Requests, Unlink(r) PROVE link'[u] = link[u]
  <2>1. link' = [link EXCEPT ![job[r].user] = None]
    BY <1>4 DEF Unlink
  <2> QED
    BY <2>1 DEF TypeOK
<1> QED
  BY <1>1, <1>2, <1>3, <1>4
     DEF Next, vars, tables, Step, BeginOnUser, BeginOnClaim, LockPerson, ReadUser,
         ReadUserToUnlink, ReadLinked, ReadPending, ReadRole, Submit, CancelOrReject,
         Abort, MembersChange, Goto

\* IInv is an inductive invariant.
LEMMA Inductive == Spec => []IInv
<1>1. Init => IInv
  BY ClaimsAssumption
     DEF Init, IInv, TypeOK, NoClaim, NoJob, Claim, Job, Ops, LocksExclusive, ClaimsOwned,
         JobInv, LockHeld, AskedPersonIsFree, LinkHasDecidedClaim
<1>2. IInv /\ [Next]_vars => IInv'
  BY TypeStep, OwnedStep, JobStep, LockStep, AskedStep, LinkStep DEF IInv
<1> QED
  BY <1>1, <1>2, PTL DEF Spec

\* The tables and the requests keep their types.
THEOREM ClaimTypes == Spec => []TypeOK
BY Inductive, PTL DEF IInv

\* A person whom approve_claim or prelink_identity is about to link is linked
\* to nobody: the unique index on user_profiles.person_id is never hit.
THEOREM PersonLockSuffices == Spec => []LinkingPersonIsFree
<1>1. IInv => LinkingPersonIsFree
  BY DEF IInv, AskedPersonIsFree, LinkingPersonIsFree
<1> QED
  BY <1>1, Inductive, PTL

\* Every link goes back to a decided claim of that user on that person.
THEOREM LinksComeFromClaims == Spec => []LinkHasDecidedClaim
BY Inductive, PTL DEF IInv

\* Without a request that loaded it as pending, and without an unlink, a
\* decided claim does not change.
THEOREM DecidedClaimsMove == Spec => DecidedMovesOnlyByStaleReview
<1> DEFINE Stale(c) == \E r \in Requests :
                         /\ pc[r] = "write" /\ pc'[r] = "idle"
                         /\ \/ job[r].claim = c /\ seen[r] = "PENDING"
                            \/ job[r].op = "unlink" /\ claims[c].status = "APPROVED"
           Moves == \A c \in Claims :
                      claims[c].status \in Statuses \ {"PENDING"} /\ claims'[c] # claims[c]
                         => Stale(c)
<1>1. IInv /\ [Next]_vars => [Moves]_vars
  <2> SUFFICES ASSUME IInv, [Next]_vars, NEW c \in Claims,
                      claims[c].status \in Statuses \ {"PENDING"}, claims'[c] # claims[c]
               PROVE  Stale(c)
    OBVIOUS
  <2> TypeOK /\ JobInv
    BY DEF IInv
  <2>1. PICK r \in Requests : Submit(r) \/ CancelOrReject(r) \/ Approve(r) \/ Prelink(r)
                                \/ Unlink(r)
    BY DEF Next, vars, tables, Step, BeginOnUser, BeginOnClaim, LockPerson, ReadUser,
                ReadUserToUnlink, ReadLinked, ReadPending, ReadRole, Abort, MembersChange,
                Goto
  <2>2. pc[r] = "write" /\ pc'[r] = "idle"
    BY <2>1 DEF Submit, CancelOrReject, Approve, Prelink, Unlink, Writing, End, TypeOK
  <2>3. ASSUME job[r].op \in OnClaim PROVE seen[r] = "PENDING"
    BY <2>2, <2>3 DEF JobInv
  <2>4. CASE Submit(r)
    BY <2>4 DEF Submit, NoClaim, TypeOK, Statuses
  <2>5. CASE CancelOrReject(r)
    <3>1. job[r].claim = c
      BY <2>5 DEF CancelOrReject, TypeOK
    <3> QED
      BY <2>2, <2>3, <2>5, <3>1 DEF CancelOrReject, Writing, OnClaim
  <2>6. CASE Approve(r)
    <3>1. job[r].claim = c
      BY <2>6 DEF Approve, Decided, Pending, TypeOK
    <3> QED
      BY <2>2, <2>3, <2>6, <3>1 DEF Approve, Writing, OnClaim
  <2>7. CASE Prelink(r)
    BY <2>7 DEF Prelink, Decided, Pending, NoClaim, TypeOK, Statuses
  <2>8. CASE Unlink(r)
    <3>1. claims[c].status = "APPROVED"
      BY <2>8, ClaimsAssumption
         DEF Unlink, Decided, Pending, ApprovedFor, TypeOK, Statuses
    <3> QED
      BY <2>2, <2>8, <3>1 DEF Unlink, Writing
  <2> QED
    BY <2>1, <2>4, <2>5, <2>6, <2>7, <2>8
<1> QED
  BY <1>1, Inductive, PTL DEF Spec, DecidedMovesOnlyByStaleReview

-----------------------------------------------------------------------------
(* Accounts *)

\* The database has nothing of an account.
Bare(s) == address[s] = Registry!NoRow /\ \A c \in Codes : <<s, c>> \notin roles /\ foundedBy[c] # s

Registers(q) == q.kind = "register" /\ q.sub # NoSub

\* A request has an account from the provider's answer, or from its token, on. One
\* that registers has it alone, and its outcome is open until it writes or fails.
AskingFor(q) ==
    /\ q.sub = NoSub <=> q.pc \in {"idle", "create"}
    /\ q.pc = "compensate" => q.kind = "register"
    /\ q.pc = "create" => q.kind \in {"register", "bootstrap"} /\ q.released = {}
    /\ q.sub # NoSub =>
         /\ account[q.sub].state # "none" /\ account[q.sub].email = q.email
         /\ q.kind \in {"first", "onboard"} => q.sub \in signedIn
         /\ q.kind = "bootstrap" => saga[q.sub] = "none"
         /\ q.kind = "register" =>
              IF q.pc = "compensate" THEN saga[q.sub] \in {"failed", "fault"} ELSE saga[q.sub] = "open"
    /\ q.released # {} => q.email # NoEmail /\ q.sub \notin q.released

OneRegisters ==
    \A q, r \in Callers :
        Registers(asking[q]) /\ Registers(asking[r]) /\ asking[q].sub = asking[r].sub => q = r

\* Two live accounts have not one address.
OneHolder ==
    \A s, t \in Subs :
        /\ account[s].state = "live" /\ account[t].state = "live"
        /\ account[s].email = account[t].email /\ account[s].email # NoEmail
        => s = t

\* What has not been made has nothing; neither has what nobody has signed in to, while
\* its registration is open or has failed.
NothingYet ==
    \A s \in Subs :
        /\ account[s].state = "none" => s \notin signedIn /\ saga[s] = "none" /\ Bare(s)
        /\ s \notin signedIn /\ saga[s] \in {"open", "failed"} => Bare(s)

FailedIsUndone ==
    \A s \in Subs : saga[s] = "failed" =>
        \/ account[s].state = "deleted"
        \/ \E r \in Callers : asking[r].sub = s /\ asking[r].pc = "compensate"

AccountsIInv ==
    /\ Registry!TypeOK
    /\ \A r \in Callers : AskingFor(asking[r])
    /\ OneRegisters
    /\ OneHolder
    /\ NothingYet
    /\ FailedIsUndone

LEMMA IdleAsksNothing == Registry!Idle \in Registry!Request
  BY DEF Registry!Idle, Registry!Request, Registry!Kinds, Registry!Addresses, Registry!Wishes, Registry!NoClan

LEMMA InitAccountsIInv == Registry!Init => AccountsIInv
<1> SUFFICES ASSUME Registry!Init PROVE AccountsIInv
  OBVIOUS
<1>1. /\ \A s \in Subs : account[s].state = "none" /\ account[s].email = NoEmail
      /\ \A r \in Callers : asking[r] = Registry!Idle
      /\ \A s \in Subs : saga[s] = "none" /\ Bare(s) /\ s \notin signedIn
  BY MarkersAreNoAddresses DEF Registry!Init, Bare
<1>2. Registry!TypeOK
  BY IdleAsksNothing DEF Registry!Init, Registry!TypeOK, Registry!Addresses
<1>3. \A r \in Callers : AskingFor(asking[r]) /\ ~Registers(asking[r])
  BY <1>1 DEF AskingFor, Registers, Registry!Idle
<1> QED
  BY <1>1, <1>2, <1>3 DEF AccountsIInv, OneRegisters, OneHolder, NothingYet, FailedIsUndone

\* A step that only moves a request on, which registers no more than it did.
LEMMA AsksOn ==
    ASSUME AccountsIInv, NEW r \in Callers, NEW q \in Registry!Request,
           asking' = [asking EXCEPT ![r] = q],
           UNCHANGED <<account, signedIn, address, superAdmins, foundedBy, roles, saga>>,
           AskingFor(q), Registers(q) => Registers(asking[r]) /\ q.sub = asking[r].sub,
           asking[r].pc # "compensate"
    PROVE  AccountsIInv'
<1>1. /\ asking' \in [Callers -> Registry!Request]
      /\ asking'[r] = q /\ \A t \in Callers \ {r} : asking'[t] = asking[t]
  BY DEF AccountsIInv, Registry!TypeOK
<1>2. Registry!TypeOK' /\ OneHolder' /\ NothingYet'
  BY <1>1 DEF AccountsIInv, Registry!TypeOK, OneHolder, NothingYet, Bare
<1>3. \A t \in Callers : AskingFor(asking[t])'
  BY <1>1 DEF AccountsIInv, AskingFor
<1>4. OneRegisters'
  BY <1>1 DEF AccountsIInv, OneRegisters, Registers
<1>5. FailedIsUndone'
  BY <1>1 DEF AccountsIInv, FailedIsUndone
<1> QED
  BY <1>2, <1>3, <1>4, <1>5 DEF AccountsIInv

\* A step in which a request ends what it has begun, or is to undo it: the database
\* has had nothing of another account, nor of one whose registration has failed.
LEMMA Settles ==
    ASSUME AccountsIInv, NEW r \in Callers, asking[r].sub # NoSub, NEW w \in Registry!Request,
           asking' = [asking EXCEPT ![r] = w],
           \/ w = Registry!Idle
           \/ w = [asking[r] EXCEPT !.pc = "compensate"] /\ asking[r].kind = "register",
           NEW outcome \in {"ok", "failed", "fault"}, Registry!SagaBecomes(asking[r], outcome),
           outcome = "failed" => w.pc = "compensate" \/ asking[r].kind # "register",
           outcome = "failed" => asking[r].pc # "compensate",
           outcome # "ok" \/ w = Registry!Idle,
           UNCHANGED <<account, signedIn>>,
           address' \in [Subs -> Registry!Addresses \cup {Registry!NoRow, Registry!Released}],
           superAdmins' \subseteq Subs, foundedBy' \in [Codes -> Subs \cup {NoSub}], roles' \subseteq Subs \X Codes,
           \A s \in Subs : Bare(s) /\ (s = asking[r].sub => outcome = "failed") => Bare(s)'
    PROVE  AccountsIInv'
<1>1. PICK q \in Registry!Request : q = asking[r]
  BY DEF AccountsIInv, Registry!TypeOK
<1>2. /\ q.sub \in Subs /\ q.pc \notin {"idle", "create"} /\ AskingFor(q)
      /\ q.pc = "compensate" => q.kind = "register"
  BY <1>1 DEF AccountsIInv, AskingFor, Registry!Request
<1>3. /\ asking'[r] = w /\ \A t \in Callers \ {r} : asking'[t] = asking[t]
      /\ asking' \in [Callers -> Registry!Request]
  BY DEF AccountsIInv, Registry!TypeOK
<1>4. /\ saga' \in [Subs -> {"none", "open", "ok", "failed", "fault"}]
      /\ \A s \in Subs : saga'[s] = IF s = q.sub /\ q.kind = "register" THEN outcome ELSE saga[s]
  BY <1>1, <1>2 DEF Registry!SagaBecomes, AccountsIInv, Registry!TypeOK
<1>5. \/ w.sub = NoSub /\ w.pc = "idle" /\ w.released = {} /\ ~Registers(w) /\ w = Registry!Idle
      \/ /\ w.sub = q.sub /\ w.pc = "compensate" /\ w.kind = "register" /\ q.kind = "register"
         /\ w.email = q.email /\ w.released = q.released /\ Registers(q)
  <2>1. CASE w = Registry!Idle
    BY <2>1 DEF Registry!Idle, Registers
  <2>2. CASE w = [q EXCEPT !.pc = "compensate"] /\ q.kind = "register"
    BY <1>2, <2>2, MarkersAreNoAddresses DEF Registry!Request, Registers
  <2> QED
    BY <1>1, <2>1, <2>2
<1>6. Registry!TypeOK'
  BY <1>3, <1>4 DEF AccountsIInv, Registry!TypeOK
<1>7. AskingFor(asking[r])'
  <2>1. CASE w.sub = NoSub
    BY <1>3, <1>5, <2>1, <1>2, MarkersAreNoAddresses DEF AskingFor
  <2>2. CASE w.sub # NoSub
    <3>1. /\ w.sub = q.sub /\ w.pc = "compensate" /\ w.kind = "register" /\ q.kind = "register"
          /\ w.email = q.email /\ w.released = q.released /\ outcome \in {"failed", "fault"}
      BY <1>5, <2>2 DEF Registry!Idle
    <3>2. saga'[q.sub] \in {"failed", "fault"}
      BY <1>2, <1>4, <3>1
    <3>3. account[q.sub].state # "none" /\ account[q.sub].email = q.email
          /\ (q.released # {} => q.email # NoEmail /\ q.sub \notin q.released)
      BY <1>2, <2>2, <3>1 DEF AskingFor
    <3> QED
      BY <1>3, <2>2, <3>1, <3>2, <3>3 DEF AskingFor
  <2> QED
    BY <2>1, <2>2
<1>8. ASSUME NEW t \in Callers \ {r} PROVE AskingFor(asking[t])'
  <2>1. AskingFor(asking[t]) /\ asking'[t] = asking[t] /\ asking[t].sub \in Subs \cup {NoSub}
    BY <1>3 DEF AccountsIInv, Registry!TypeOK, Registry!Request
  <2>2. CASE asking[t].sub = q.sub /\ q.kind = "register"
    <3>1. asking[t].kind # "register"
      BY <1>1, <1>2, <2>2, MarkersAreNoAddresses DEF AccountsIInv, OneRegisters, Registers
    <3>2. saga[q.sub] # "none"
      BY <1>2, <2>2, MarkersAreNoAddresses DEF AskingFor
    <3>3. asking[t].kind # "bootstrap"
      BY <1>2, <2>1, <2>2, <3>2, MarkersAreNoAddresses DEF AskingFor
    <3> QED
      BY <2>1, <3>1, <3>3 DEF AskingFor
  <2>3. CASE asking[t].sub # NoSub /\ ~(asking[t].sub = q.sub /\ q.kind = "register")
    <3>1. saga'[asking[t].sub] = saga[asking[t].sub]
      BY <1>4, <2>1, <2>3
    <3> QED
      BY <2>1, <3>1 DEF AskingFor
  <2>4. CASE asking[t].sub = NoSub
    BY <2>1, <2>4 DEF AskingFor
  <2> QED
    BY <2>2, <2>3, <2>4
<1>9. OneRegisters'
  <2>1. Registers(w) => Registers(q) /\ w.sub = q.sub
    BY <1>5
  <2> QED
    BY <1>1, <1>3, <2>1 DEF AccountsIInv, OneRegisters, Registers
<1>10. OneHolder'
  BY DEF AccountsIInv, OneHolder
<1>11. NothingYet'
  <2> SUFFICES ASSUME NEW s \in Subs
               PROVE  /\ account[s].state = "none" => s \notin signedIn /\ saga'[s] = "none" /\ Bare(s)'
                      /\ s \notin signedIn /\ saga'[s] \in {"open", "failed"} => Bare(s)'
    BY DEF NothingYet
  <2>1. /\ account[s].state = "none" => s \notin signedIn /\ saga[s] = "none" /\ Bare(s)
        /\ s \notin signedIn /\ saga[s] \in {"open", "failed"} => Bare(s)
    BY DEF AccountsIInv, NothingYet
  <2>2. CASE s # q.sub
    BY <1>1, <1>4, <2>1, <2>2
  <2>3. CASE s = q.sub
    <3>1. account[s].state # "none"
      BY <1>2, <2>3, MarkersAreNoAddresses DEF AskingFor
    <3>2. ASSUME s \notin signedIn, saga'[s] \in {"open", "failed"} PROVE Bare(s)'
      <4>1. q.kind \in {"register", "bootstrap"}
        BY <1>2, <2>3, <3>2, MarkersAreNoAddresses DEF AskingFor, Registry!Request, Registry!Kinds
      <4>2. q.kind # "bootstrap"
        BY <1>2, <1>4, <2>3, <3>2, MarkersAreNoAddresses DEF AskingFor
      <4>3. outcome = "failed" /\ saga'[s] = outcome /\ q.kind = "register"
        BY <1>4, <2>3, <3>2, <4>1, <4>2
      <4>4. saga[s] = "open"
        BY <1>1, <1>2, <2>3, <4>3, MarkersAreNoAddresses DEF AskingFor
      <4> QED
        BY <1>1, <2>1, <2>3, <3>2, <4>3, <4>4
    <3> QED
      BY <3>1, <3>2
  <2> QED
    BY <2>2, <2>3
<1>12. FailedIsUndone'
  <2> SUFFICES ASSUME NEW s \in Subs, saga'[s] = "failed"
               PROVE  \/ account[s].state = "deleted"
                      \/ \E t \in Callers : asking'[t].sub = s /\ asking'[t].pc = "compensate"
    BY DEF FailedIsUndone
  <2>1. CASE s = q.sub /\ q.kind = "register"
    <3>1. outcome = "failed"
      BY <1>4, <2>1
    <3>2. w.pc = "compensate"
      BY <1>1, <2>1, <3>1
    <3>3. w.sub = q.sub
      BY <1>5, <3>2
    <3> QED
      BY <1>3, <2>1, <3>2, <3>3
  <2>2. CASE ~(s = q.sub /\ q.kind = "register")
    <3>1. saga[s] = "failed"
      BY <1>4, <2>2
    <3>2. CASE account[s].state = "deleted"
      BY <3>2
    <3>3. CASE \E t \in Callers : asking[t].sub = s /\ asking[t].pc = "compensate"
      <4>1. PICK t \in Callers : asking[t].sub = s /\ asking[t].pc = "compensate"
        BY <3>3
      <4>2. t # r
        BY <1>1, <1>2, <2>2, <4>1
      <4> QED
        BY <1>3, <4>1, <4>2
    <3> QED
      BY <3>1, <3>2, <3>3 DEF AccountsIInv, FailedIsUndone
  <2> QED
    BY <2>1, <2>2
<1> QED
  BY <1>6, <1>7, <1>8, <1>9, <1>10, <1>11, <1>12 DEF AccountsIInv

\* An account that the provider makes: nothing was about it.
LEMMA Made ==
    ASSUME AccountsIInv, NEW s \in Subs, NEW e \in Registry!Addresses,
           Registry!CanCreate(e), Registry!Creates(s, e)
    PROVE  /\ account' \in [Subs -> [state : {"none", "live", "deleted"}, email : Registry!Addresses]]
           /\ account'[s].state = "live" /\ account'[s].email = e /\ account[s].state = "none"
           /\ \A t \in Subs \ {s} : account'[t] = account[t]
           /\ \A r \in Callers : asking[r].sub # s
           /\ s \notin signedIn /\ saga[s] = "none" /\ Bare(s)
           /\ OneHolder'
<1>1. account \in [Subs -> [state : {"none", "live", "deleted"}, email : Registry!Addresses]]
  BY DEF AccountsIInv, Registry!TypeOK
<1>2. account[s].state = "none" /\ account' = [account EXCEPT ![s] = [state |-> "live", email |-> e]]
  BY DEF Registry!Creates
<1>3. /\ account' \in [Subs -> [state : {"none", "live", "deleted"}, email : Registry!Addresses]]
      /\ account'[s].state = "live" /\ account'[s].email = e
      /\ \A t \in Subs \ {s} : account'[t] = account[t]
  BY <1>1, <1>2
<1>4. \A r \in Callers : asking[r].sub # s
  BY <1>2, MarkersAreNoAddresses DEF AccountsIInv, AskingFor
<1>5. s \notin signedIn /\ saga[s] = "none" /\ Bare(s)
  BY <1>2 DEF AccountsIInv, NothingYet
<1>6. ASSUME NEW t \in Subs, account[t].state = "live", account[t].email = e, e # NoEmail PROVE FALSE
  <2>1. account[t] = [state |-> "live", email |-> e]
    BY <1>1, <1>6
  <2> QED
    BY <1>6, <2>1 DEF Registry!CanCreate, Registry!Holder
<1>7. OneHolder'
  <2> SUFFICES ASSUME NEW t \in Subs, NEW u \in Subs,
                      account'[t].state = "live", account'[u].state = "live",
                      account'[t].email = account'[u].email, account'[t].email # NoEmail
               PROVE  t = u
    BY DEF OneHolder
  <2>1. CASE t # s /\ u # s
    BY <1>3, <2>1 DEF AccountsIInv, OneHolder
  <2>2. CASE t = s /\ u # s
    BY <1>3, <1>6, <2>2
  <2>3. CASE t # s /\ u = s
    BY <1>3, <1>6, <2>3
  <2> QED
    BY <2>1, <2>2, <2>3
<1> QED
  BY <1>2, <1>3, <1>4, <1>5, <1>7

LEMMA ProviderKeeps ==
    ASSUME AccountsIInv, NEW s \in Subs, Registry!SignIn(s) \/ Registry!DeleteAccount(s) PROVE AccountsIInv'
<1>1. CASE account[s].state = "live" /\ UNCHANGED account /\ Registry!SignIn(s)
  BY <1>1 DEF Registry!SignIn, AccountsIInv, Registry!TypeOK, AskingFor, OneRegisters, OneHolder, NothingYet,
              Bare, FailedIsUndone
<1>2. ASSUME NEW e \in Registry!Addresses, Registry!CanCreate(e), Registry!Creates(s, e), Registry!SignIn(s)
      PROVE  AccountsIInv'
  <2>1. /\ signedIn' = signedIn \cup {s}
        /\ UNCHANGED <<address, superAdmins, foundedBy, roles, asking, saga>>
    BY <1>2 DEF Registry!SignIn
  <2>2. /\ account' \in [Subs -> [state : {"none", "live", "deleted"}, email : Registry!Addresses]]
        /\ account'[s].state = "live" /\ account[s].state = "none"
        /\ \A t \in Subs \ {s} : account'[t] = account[t]
        /\ \A r \in Callers : asking[r].sub # s
        /\ saga[s] = "none" /\ OneHolder'
    BY <1>2, Made
  <2>3. \A r \in Callers : AskingFor(asking[r])'
    BY <2>1, <2>2 DEF AccountsIInv, AskingFor, Registry!TypeOK, Registry!Request
  <2>4. Registry!TypeOK' /\ OneRegisters' /\ NothingYet' /\ FailedIsUndone'
    BY <2>1, <2>2 DEF AccountsIInv, Registry!TypeOK, OneRegisters, NothingYet, Bare, FailedIsUndone
  <2> QED
    BY <2>2, <2>3, <2>4 DEF AccountsIInv
<1>3. CASE Registry!DeleteAccount(s)
  <2>1. /\ account' \in [Subs -> [state : {"none", "live", "deleted"}, email : Registry!Addresses]]
        /\ account'[s].state = "deleted" /\ account[s].state = "live"
        /\ \A t \in Subs : account'[t].email = account[t].email
        /\ \A t \in Subs \ {s} : account'[t] = account[t]
        /\ UNCHANGED <<signedIn, address, superAdmins, foundedBy, roles, asking, saga>>
    BY <1>3 DEF Registry!DeleteAccount, AccountsIInv, Registry!TypeOK
  <2>2. \A r \in Callers : AskingFor(asking[r])'
    BY <2>1 DEF AccountsIInv, AskingFor, Registry!TypeOK, Registry!Request
  <2>3. \A t \in Subs : account'[t].state = "live" => account[t].state = "live" /\ t # s
    BY <2>1
  <2>4. Registry!TypeOK' /\ OneRegisters' /\ OneHolder'
    BY <2>1, <2>3 DEF AccountsIInv, Registry!TypeOK, OneRegisters, OneHolder
  <2>5. NothingYet' /\ FailedIsUndone'
    <3>1. \A t \in Subs : account'[t].state = "none" => account[t].state = "none"
      BY <2>1
    <3>2. \A t \in Subs : account[t].state = "deleted" => account'[t].state = "deleted"
      BY <2>1
    <3> QED
      BY <2>1, <3>1, <3>2 DEF AccountsIInv, NothingYet, Bare, FailedIsUndone
  <2> QED
    BY <2>2, <2>4, <2>5 DEF AccountsIInv
<1> QED
  BY <1>1, <1>2, <1>3 DEF Registry!SignIn

LEMMA CreateKeeps ==
    ASSUME AccountsIInv, NEW r \in Callers, NEW s \in Subs, Registry!CreateUser(r, s) \/ Registry!CreateLost(r, s)
    PROVE  AccountsIInv'
<1>1. PICK q \in Registry!Request : q = asking[r]
  BY DEF AccountsIInv, Registry!TypeOK
<1>2. /\ q.pc = "create" /\ q.sub = NoSub /\ q.kind \in {"register", "bootstrap"} /\ q.released = {}
      /\ q.email \in Registry!Addresses /\ Registry!CanCreate(q.email) /\ Registry!Creates(s, q.email)
      /\ UNCHANGED <<signedIn, address, superAdmins, foundedBy, roles>>
  BY <1>1 DEF Registry!CreateUser, Registry!CreateLost, AccountsIInv, AskingFor, Registry!Request
<1>3. /\ account' \in [Subs -> [state : {"none", "live", "deleted"}, email : Registry!Addresses]]
      /\ account'[s].state = "live" /\ account'[s].email = q.email /\ account[s].state = "none"
      /\ \A t \in Subs \ {s} : account'[t] = account[t]
      /\ \A t \in Callers : asking[t].sub # s
      /\ s \notin signedIn /\ saga[s] = "none" /\ Bare(s)
      /\ OneHolder'
  BY <1>2, Made
<1>4. PICK w \in Registry!Request, outcome \in {"open", "fault"} :
         /\ asking' = [asking EXCEPT ![r] = w]
         /\ saga' = [saga EXCEPT ![s] = IF q.kind = "register" THEN outcome ELSE @]
         /\ \/ w = Registry!Idle
            \/ /\ w.sub = s /\ w.kind = q.kind /\ w.email = q.email /\ w.released = {}
               /\ w.pc \in {"assign", "release", "write"} /\ outcome = "open"
  <2>1. CASE Registry!CreateUser(r, s)
    <3> DEFINE step == CASE q.kind = "bootstrap" -> "write"
                       [] q.wish.action = "none" -> "release"
                       [] OTHER -> "assign"
    <3>1. asking' = [asking EXCEPT ![r].sub = s, ![r].pc = step]
      BY <1>1, <2>1 DEF Registry!CreateUser
    <3>2. step \in {"assign", "release", "write"}
      OBVIOUS
    <3> HIDE DEF step
    <3>3. PICK w \in Registry!Request : w = [q EXCEPT !.sub = s, !.pc = step]
      BY <3>2 DEF Registry!Request
    <3>4. w.sub = s /\ w.kind = q.kind /\ w.email = q.email /\ w.released = {} /\ w.pc = step
      BY <1>2, <3>3 DEF Registry!Request
    <3>5. asking' = [asking EXCEPT ![r] = w]
      BY <1>1, <3>1, <3>3 DEF AccountsIInv, Registry!TypeOK, Registry!Request
    <3>6. saga' = [saga EXCEPT ![s] = IF q.kind = "register" THEN "open" ELSE @]
      BY <1>1, <2>1 DEF Registry!CreateUser
    <3> QED
      BY <3>2, <3>4, <3>5, <3>6
  <2>2. CASE Registry!CreateLost(r, s)
    BY <1>1, <2>2, IdleAsksNothing DEF Registry!CreateLost, Registry!Ends
  <2> QED
    BY <2>1, <2>2
<1>5. /\ asking' \in [Callers -> Registry!Request] /\ asking'[r] = w
      /\ \A t \in Callers \ {r} : asking'[t] = asking[t]
      /\ saga' \in [Subs -> {"none", "open", "ok", "failed", "fault"}]
      /\ saga'[s] = IF q.kind = "register" THEN outcome ELSE "none"
      /\ \A t \in Subs \ {s} : saga'[t] = saga[t]
  BY <1>3, <1>4 DEF AccountsIInv, Registry!TypeOK
<1>6. AskingFor(asking[r])'
  <2>1. CASE w = Registry!Idle
    BY <1>5, <2>1 DEF AskingFor, Registry!Idle
  <2>2. CASE /\ w.sub = s /\ w.kind = q.kind /\ w.email = q.email /\ w.released = {}
             /\ w.pc \in {"assign", "release", "write"} /\ outcome = "open"
    BY <1>2, <1>3, <1>5, <2>2, MarkersAreNoAddresses DEF AskingFor
  <2> QED
    BY <1>4, <2>1, <2>2
<1>7. \A t \in Callers \ {r} : AskingFor(asking[t])'
  BY <1>2, <1>3, <1>5 DEF AccountsIInv, AskingFor, Registry!TypeOK, Registry!Request
<1>8. OneRegisters'
  <2>1. w.sub = s \/ ~Registers(w)
    BY <1>4 DEF Registers, Registry!Idle
  <2> QED
    BY <1>3, <1>5, <2>1 DEF AccountsIInv, OneRegisters, Registers
<1>9. Registry!TypeOK'
  BY <1>2, <1>3, <1>5 DEF AccountsIInv, Registry!TypeOK
<1>10. NothingYet'
  BY <1>2, <1>3, <1>5 DEF AccountsIInv, NothingYet, Bare
<1>11. FailedIsUndone'
  BY <1>1, <1>2, <1>3, <1>5 DEF AccountsIInv, FailedIsUndone
<1> QED
  BY <1>3, <1>6, <1>7, <1>8, <1>9, <1>10, <1>11 DEF AccountsIInv

\* What COMMIT leaves of the rows of every account: it frees addresses and adds its own row.
LEMMA CommitsTo ==
    ASSUME AccountsIInv, NEW q \in Registry!Request, q.sub \in Subs, AskingFor(q), Registry!Commits(q)
    PROVE  /\ address' \in [Subs -> Registry!Addresses \cup {Registry!NoRow, Registry!Released}]
           /\ superAdmins' \subseteq Subs /\ foundedBy' \in [Codes -> Subs \cup {NoSub}]
           /\ roles' \subseteq Subs \X Codes
           /\ \A s \in Subs \ {q.sub} : Bare(s) => Bare(s)'
           /\ \A s \in Subs : address[s] # Registry!NoRow /\ address'[s] # address[s] =>
                 address[s] = q.email /\ s # q.sub /\ q.email # NoEmail
<1>1. address \in [Subs -> Registry!Addresses \cup {Registry!NoRow, Registry!Released}]
  BY DEF AccountsIInv, Registry!TypeOK
<1>2. q.email \in Registry!Addresses /\ q.email # Registry!NoRow
      /\ q.released \in SUBSET Subs /\ (q.released # {} => q.email # NoEmail /\ q.sub \notin q.released)
  BY MarkersAreNoAddresses DEF Registry!Request, AskingFor
<1>3. /\ Registry!Freed(q) \in [Subs -> Registry!Addresses \cup {Registry!NoRow, Registry!Released}]
      /\ \A s \in Subs : Registry!Freed(q)[s] =
            IF s \in q.released /\ address[s] = q.email THEN Registry!Released ELSE address[s]
  BY <1>1 DEF Registry!Freed
<1>4. /\ address' \in [Subs -> Registry!Addresses \cup {Registry!NoRow, Registry!Released}]
      /\ \A s \in Subs \ {q.sub} : address'[s] = Registry!Freed(q)[s]
      /\ address'[q.sub] = IF Registry!Freed(q)[q.sub] = Registry!NoRow THEN q.email ELSE Registry!Freed(q)[q.sub]
  BY <1>2, <1>3 DEF Registry!Commits, Registry!Provisioned
<1>5. superAdmins' \subseteq Subs
  BY DEF Registry!Commits, AccountsIInv, Registry!TypeOK
<1>6. q.wish.action # "none" => q.wish.clan \in Codes
  BY DEF Registry!Request, Registry!Wishes
<1>7. foundedBy' \in [Codes -> Subs \cup {NoSub}] /\ \A c \in Codes : foundedBy'[c] \in {foundedBy[c], q.sub}
  BY DEF Registry!Commits, AccountsIInv, Registry!TypeOK
<1>8. roles' \subseteq Subs \X Codes /\ \A s \in Subs, c \in Codes : <<s, c>> \in roles' => <<s, c>> \in roles \/ s = q.sub
  BY <1>6 DEF Registry!Commits, Registry!NewMembership, AccountsIInv, Registry!TypeOK
<1>9. ASSUME NEW s \in Subs \ {q.sub}, Bare(s) PROVE Bare(s)'
  <2>1. address'[s] = Registry!NoRow
    BY <1>2, <1>3, <1>4, <1>9 DEF Bare
  <2> QED
    BY <1>7, <1>8, <1>9, <2>1 DEF Bare
<1>10. ASSUME NEW s \in Subs, address[s] # Registry!NoRow, address'[s] # address[s]
       PROVE  address[s] = q.email /\ s # q.sub /\ q.email # NoEmail
  <2>1. CASE s = q.sub
    <3>1. s \notin q.released
      BY <1>2, <2>1
    <3>2. Registry!Freed(q)[s] = address[s]
      BY <1>3, <3>1
    <3> QED
      BY <1>4, <1>10, <2>1, <3>2
  <2>2. CASE s # q.sub
    BY <1>2, <1>3, <1>4, <1>10, <2>2
  <2> QED
    BY <2>1, <2>2
<1> QED
  BY <1>4, <1>5, <1>7, <1>8, <1>9, <1>10

\* An attempt that fails is undone, or just ends.
LEMMA FailsSettles ==
    ASSUME AccountsIInv, NEW r \in Callers, asking[r].sub # NoSub, asking[r].pc # "compensate",
           Registry!Fails(r), NEW outcome \in {"failed", "fault"}, Registry!SagaBecomes(asking[r], outcome),
           UNCHANGED <<account, signedIn>>,
           address' \in [Subs -> Registry!Addresses \cup {Registry!NoRow, Registry!Released}],
           superAdmins' \subseteq Subs, foundedBy' \in [Codes -> Subs \cup {NoSub}], roles' \subseteq Subs \X Codes,
           \A s \in Subs : Bare(s) /\ (s = asking[r].sub => outcome = "failed") => Bare(s)'
    PROVE  AccountsIInv'
<1>1. PICK q \in Registry!Request : q = asking[r]
  BY DEF AccountsIInv, Registry!TypeOK
<1>2. CASE q.kind = "register"
  <2>1. PICK w \in Registry!Request : w = [q EXCEPT !.pc = "compensate"]
    BY DEF Registry!Request
  <2>2. w.pc = "compensate" /\ asking' = [asking EXCEPT ![r] = w]
    BY <1>1, <1>2, <2>1 DEF Registry!Fails, Registry!Undoes, Registry!Becomes, Registry!Request
  <2>3. w = [asking[r] EXCEPT !.pc = "compensate"] /\ asking[r].kind = "register"
    BY <1>1, <1>2, <2>1
  <2>4. outcome \in {"ok", "failed", "fault"} /\ outcome # "ok"
    OBVIOUS
  <2> QED
    BY <2>2, <2>3, <2>4, Settles
<1>3. CASE q.kind # "register"
  <2>1. PICK w \in Registry!Request : w = Registry!Idle /\ asking' = [asking EXCEPT ![r] = w]
    BY <1>1, <1>3, IdleAsksNothing DEF Registry!Fails, Registry!Undoes, Registry!Ends
  <2>2. outcome \in {"ok", "failed", "fault"} /\ asking[r].kind # "register"
    BY <1>1, <1>3
  <2> QED
    BY <2>1, <2>2, Settles
<1> QED
  BY <1>2, <1>3

LEMMA BeginsKeepAccounts ==
    ASSUME AccountsIInv, NEW r \in Callers,
           \/ \E e \in Emails : Registry!Bootstrap(r, e) \/ \E w \in Registry!Wishes : Registry!Register(r, e, w)
           \/ \E s \in Subs, k \in {"first", "onboard"}, w \in Registry!Wishes : Registry!Authenticated(r, s, k, w)
           \/ Registry!CreateExists(r) \/ Registry!CreateFails(r)
    PROVE  AccountsIInv'
<1>1. Registry!Idle = [kind |-> "first", pc |-> "idle", sub |-> NoSub, email |-> NoEmail,
                       wish |-> [action |-> "none", clan |-> Registry!NoClan], released |-> {}]
  BY DEF Registry!Idle
<1>2. ASSUME NEW e \in Emails, Registry!Bootstrap(r, e) PROVE AccountsIInv'
  <2>1. PICK q \in Registry!Request : q = [Registry!Idle EXCEPT !.kind = "bootstrap", !.pc = "create", !.email = e]
    BY IdleAsksNothing DEF Registry!Request, Registry!Kinds, Registry!Addresses
  <2>2. q.sub = NoSub /\ q.pc = "create" /\ q.kind = "bootstrap" /\ q.released = {}
    BY <1>1, <2>1
  <2>3. AskingFor(q) /\ ~Registers(q)
    BY <2>2 DEF AskingFor, Registers
  <2> QED
    BY <1>2, <2>1, <2>3, AsksOn DEF Registry!Bootstrap
<1>3. ASSUME NEW e \in Emails, NEW w \in Registry!Wishes, Registry!Register(r, e, w) PROVE AccountsIInv'
  <2>1. PICK q \in Registry!Request :
           q = [Registry!Idle EXCEPT !.kind = "register", !.pc = "create", !.email = e, !.wish = w]
    BY IdleAsksNothing DEF Registry!Request, Registry!Kinds, Registry!Addresses
  <2>2. q.sub = NoSub /\ q.pc = "create" /\ q.kind = "register" /\ q.released = {}
    BY <1>1, <2>1
  <2>3. AskingFor(q) /\ ~Registers(q)
    BY <2>2 DEF AskingFor, Registers
  <2> QED
    BY <1>3, <2>1, <2>3, AsksOn DEF Registry!Register
<1>4. ASSUME NEW s \in Subs, NEW k \in {"first", "onboard"}, NEW w \in Registry!Wishes,
             Registry!Authenticated(r, s, k, w)
      PROVE  AccountsIInv'
  <2> DEFINE step == IF k = "first" THEN "release" ELSE "assign"
  <2>1. s \in signedIn /\ account[s].email \in Registry!Addresses /\ account[s].state # "none"
    BY <1>4 DEF Registry!Authenticated, AccountsIInv, Registry!TypeOK, NothingYet
  <2>2. PICK q \in Registry!Request :
           q = [Registry!Idle EXCEPT !.kind = k, !.pc = step, !.sub = s, !.email = account[s].email, !.wish = w]
    BY <2>1, IdleAsksNothing DEF Registry!Request, Registry!Kinds
  <2>3. q.sub = s /\ q.pc = step /\ q.kind = k /\ q.released = {} /\ q.email = account[s].email
    BY <1>1, <2>2
  <2>4. step \in {"release", "assign"}
    OBVIOUS
  <2>5. AskingFor(q) /\ ~Registers(q)
    BY <2>1, <2>3, <2>4, MarkersAreNoAddresses DEF AskingFor, Registers
  <2>6. asking' = [asking EXCEPT ![r] = q] /\ asking[r].pc = "idle"
    BY <1>4, <2>2 DEF Registry!Authenticated
  <2> QED
    BY <1>4, <2>5, <2>6, AsksOn DEF Registry!Authenticated
<1>5. CASE Registry!CreateExists(r) \/ Registry!CreateFails(r)
  <2>1. PICK q \in Registry!Request : q = Registry!Idle
    BY IdleAsksNothing
  <2>2. AskingFor(q) /\ ~Registers(q)
    BY <1>1, <2>1 DEF AskingFor, Registers
  <2> QED
    BY <1>5, <2>1, <2>2, AsksOn DEF Registry!CreateExists, Registry!CreateFails, Registry!Ends
<1> QED
  BY <1>2, <1>3, <1>4, <1>5

LEMMA GoesOnAccounts ==
    ASSUME AccountsIInv, NEW r \in Callers, Registry!Assign(r) \/ Registry!Release(r) PROVE AccountsIInv'
<1>1. PICK q \in Registry!Request : q = asking[r]
  BY DEF AccountsIInv, Registry!TypeOK
<1>2. q.sub \in Subs /\ q.sub # NoSub /\ AskingFor(q) /\ q.pc \in {"assign", "release"}
  BY <1>1, MarkersAreNoAddresses
     DEF AccountsIInv, AskingFor, Registry!Request, Registry!Assign, Registry!Release
<1>3. CASE Registry!Assign(r) /\ Registry!CanAssign(q)
  <2>1. PICK w \in Registry!Request : w = [q EXCEPT !.pc = "release"]
    BY DEF Registry!Request
  <2>2. w.sub = q.sub /\ w.kind = q.kind /\ w.email = q.email /\ w.released = q.released /\ w.pc = "release"
    BY <2>1 DEF Registry!Request
  <2>3. AskingFor(w) /\ (Registers(w) => Registers(q))
    BY <1>2, <2>2 DEF AskingFor, Registers
  <2>4. asking' = [asking EXCEPT ![r] = w]
    BY <1>1, <1>3, <2>1 DEF Registry!Assign, Registry!Becomes, Registry!Request
  <2>5. UNCHANGED <<account, signedIn, address, superAdmins, foundedBy, roles, saga>>
    BY <1>1, <1>3 DEF Registry!Assign
  <2> QED
    BY <1>1, <1>2, <2>2, <2>3, <2>4, <2>5, AsksOn
<1>4. CASE Registry!Assign(r) /\ ~Registry!CanAssign(q)
  <2>1. /\ Registry!Fails(r) /\ Registry!SagaBecomes(asking[r], "failed")
        /\ UNCHANGED <<account, signedIn, address, superAdmins, foundedBy, roles>>
    BY <1>1, <1>4 DEF Registry!Assign
  <2>2. \A s \in Subs : Bare(s) => Bare(s)'
    BY <2>1 DEF Bare
  <2>3. /\ address' \in [Subs -> Registry!Addresses \cup {Registry!NoRow, Registry!Released}]
        /\ superAdmins' \subseteq Subs /\ foundedBy' \in [Codes -> Subs \cup {NoSub}] /\ roles' \subseteq Subs \X Codes
    BY <2>1 DEF AccountsIInv, Registry!TypeOK
  <2>4. asking[r].sub # NoSub /\ asking[r].pc # "compensate" /\ "failed" \in {"failed", "fault"}
    BY <1>1, <1>2
  <2> QED
    BY <2>1, <2>2, <2>3, <2>4, FailsSettles
<1>5. CASE Registry!Release(r)
  <2> DEFINE S == Registry!Stale(q.sub, q.email)
  <2>1. S \in SUBSET Subs /\ q.sub \notin S /\ (S # {} => q.email # NoEmail)
    BY DEF Registry!Stale
  <2>2. asking' = [asking EXCEPT ![r].pc = "write", ![r].released = S]
    BY <1>1, <1>5 DEF Registry!Release
  <2> HIDE DEF S
  <2>3. PICK w \in Registry!Request : w = [q EXCEPT !.pc = "write", !.released = S]
    BY <2>1 DEF Registry!Request
  <2>4. w.sub = q.sub /\ w.kind = q.kind /\ w.email = q.email /\ w.released = S /\ w.pc = "write"
    BY <2>3 DEF Registry!Request
  <2>5. AskingFor(w) /\ (Registers(w) => Registers(q))
    BY <1>2, <2>1, <2>4 DEF AskingFor, Registers
  <2>6. asking' = [asking EXCEPT ![r] = w]
    BY <1>1, <2>2, <2>3 DEF AccountsIInv, Registry!TypeOK, Registry!Request
  <2>7. UNCHANGED <<account, signedIn, address, superAdmins, foundedBy, roles, saga>>
    BY <1>5 DEF Registry!Release
  <2> QED
    BY <1>1, <1>2, <2>4, <2>5, <2>6, <2>7, AsksOn
<1> QED
  BY <1>1, <1>3, <1>4, <1>5

LEMMA WritesKeep ==
    ASSUME AccountsIInv, NEW r \in Callers,
           Registry!Write(r) \/ Registry!WriteLost(r) \/ Registry!WriteFails(r)
    PROVE  AccountsIInv'
<1>1. PICK q \in Registry!Request : q = asking[r]
  BY DEF AccountsIInv, Registry!TypeOK
<1>2. q.sub \in Subs /\ q.sub # NoSub /\ AskingFor(q) /\ q.pc = "write"
  BY <1>1, MarkersAreNoAddresses
     DEF AccountsIInv, AskingFor, Registry!Request, Registry!Write, Registry!WriteLost, Registry!WriteFails
<1>3. asking[r].sub # NoSub /\ asking[r].pc # "compensate"
  BY <1>1, <1>2
<1>4. Registry!Commits(q) =>
        /\ UNCHANGED <<account, signedIn>>
        /\ address' \in [Subs -> Registry!Addresses \cup {Registry!NoRow, Registry!Released}]
        /\ superAdmins' \subseteq Subs /\ foundedBy' \in [Codes -> Subs \cup {NoSub}] /\ roles' \subseteq Subs \X Codes
        /\ \A s \in Subs : Bare(s) /\ s # asking[r].sub => Bare(s)'
  BY <1>1, <1>2, CommitsTo DEF Registry!Commits
<1>5. CASE Registry!Write(r)
  <2>1. PICK w \in Registry!Request, outcome \in {"ok", "failed", "fault"} :
            /\ w = Registry!Idle /\ asking' = [asking EXCEPT ![r] = w]
            /\ outcome = "ok" /\ Registry!SagaBecomes(asking[r], outcome)
    BY <1>5, IdleAsksNothing DEF Registry!Write, Registry!Ends
  <2>2. \A s \in Subs : Bare(s) /\ (s = asking[r].sub => outcome = "failed") => Bare(s)'
    BY <1>1, <1>4, <1>5, <2>1 DEF Registry!Write
  <2>3. Registry!Commits(q)
    BY <1>1, <1>5 DEF Registry!Write
  <2> QED
    BY <1>3, <1>4, <2>1, <2>2, <2>3, Settles
<1>6. CASE Registry!WriteLost(r)
  <2>1. PICK outcome \in {"failed", "fault"} :
            outcome = "fault" /\ Registry!Fails(r) /\ Registry!SagaBecomes(asking[r], outcome)
    BY <1>6 DEF Registry!WriteLost
  <2>2. Registry!Commits(q)
    BY <1>1, <1>6 DEF Registry!WriteLost
  <2>3. \A s \in Subs : Bare(s) /\ (s = asking[r].sub => outcome = "failed") => Bare(s)'
    BY <1>4, <2>1, <2>2
  <2> QED
    BY <1>3, <1>4, <2>1, <2>2, <2>3, FailsSettles
<1>7. CASE Registry!WriteFails(r)
  <2>1. /\ Registry!Fails(r) /\ Registry!SagaBecomes(asking[r], "failed")
        /\ UNCHANGED <<account, signedIn, address, superAdmins, foundedBy, roles>>
    BY <1>7 DEF Registry!WriteFails
  <2>2. \A s \in Subs : Bare(s) => Bare(s)'
    BY <2>1 DEF Bare
  <2>3. /\ address' \in [Subs -> Registry!Addresses \cup {Registry!NoRow, Registry!Released}]
        /\ superAdmins' \subseteq Subs /\ foundedBy' \in [Codes -> Subs \cup {NoSub}] /\ roles' \subseteq Subs \X Codes
    BY <2>1 DEF AccountsIInv, Registry!TypeOK
  <2>4. "failed" \in {"failed", "fault"}
    OBVIOUS
  <2> QED
    BY <1>3, <2>1, <2>2, <2>3, <2>4, FailsSettles
<1> QED
  BY <1>5, <1>6, <1>7

\* A registration is undone, or what it has made is left.
LEMMA EndsKeep ==
    ASSUME AccountsIInv, NEW r \in Callers,
           Registry!Compensate(r) \/ Registry!CompensateFails(r) \/ Registry!Die(r)
    PROVE  AccountsIInv'
<1>1. PICK q \in Registry!Request : q = asking[r]
  BY DEF AccountsIInv, Registry!TypeOK
<1>2. q.sub \in Subs /\ q.sub # NoSub /\ AskingFor(q)
  BY <1>1, MarkersAreNoAddresses
     DEF AccountsIInv, AskingFor, Registry!Request, Registry!Compensate, Registry!CompensateFails, Registry!Die
<1>3. CASE Registry!CompensateFails(r) \/ Registry!Die(r)
  <2>1. PICK w \in Registry!Request, outcome \in {"ok", "failed", "fault"} :
            /\ w = Registry!Idle /\ asking' = [asking EXCEPT ![r] = w]
            /\ outcome = "fault" /\ Registry!SagaBecomes(asking[r], outcome)
    BY <1>3, IdleAsksNothing DEF Registry!CompensateFails, Registry!Die, Registry!Ends
  <2>2. UNCHANGED <<account, signedIn, address, superAdmins, foundedBy, roles>>
    BY <1>3 DEF Registry!CompensateFails, Registry!Die
  <2>3. \A s \in Subs : Bare(s) => Bare(s)'
    BY <2>2 DEF Bare
  <2>4. /\ address' \in [Subs -> Registry!Addresses \cup {Registry!NoRow, Registry!Released}]
        /\ superAdmins' \subseteq Subs /\ foundedBy' \in [Codes -> Subs \cup {NoSub}] /\ roles' \subseteq Subs \X Codes
    BY <2>2 DEF AccountsIInv, Registry!TypeOK
  <2>5. asking[r].sub # NoSub
    BY <1>1, <1>2
  <2> QED
    BY <2>1, <2>2, <2>3, <2>4, <2>5, Settles
<1>4. CASE Registry!Compensate(r)
  <2>1. /\ q.pc = "compensate"
        /\ account' = [account EXCEPT ![q.sub].state = "deleted"]
        /\ asking' = [asking EXCEPT ![r] = Registry!Idle]
        /\ UNCHANGED <<saga, signedIn, address, superAdmins, foundedBy, roles>>
    BY <1>1, <1>4 DEF Registry!Compensate, Registry!Ends
  <2>2. /\ account' \in [Subs -> [state : {"none", "live", "deleted"}, email : Registry!Addresses]]
        /\ account'[q.sub].state = "deleted" /\ account[q.sub].state # "none"
        /\ \A t \in Subs : account'[t].email = account[t].email
        /\ \A t \in Subs \ {q.sub} : account'[t] = account[t]
    BY <1>2, <2>1 DEF AccountsIInv, Registry!TypeOK, AskingFor
  <2>3. /\ asking' \in [Callers -> Registry!Request] /\ asking'[r] = Registry!Idle
        /\ \A t \in Callers \ {r} : asking'[t] = asking[t]
    BY <2>1, IdleAsksNothing DEF AccountsIInv, Registry!TypeOK
  <2>4. AskingFor(Registry!Idle)' /\ ~Registers(Registry!Idle)
    BY DEF AskingFor, Registers, Registry!Idle
  <2>5. \A t \in Callers \ {r} : AskingFor(asking[t])'
    BY <2>1, <2>2, <2>3 DEF AccountsIInv, AskingFor, Registry!TypeOK, Registry!Request
  <2>6. \A t \in Subs : account'[t].state = "live" => account[t].state = "live" /\ t # q.sub
    BY <2>2
  <2>7. Registry!TypeOK' /\ OneRegisters' /\ OneHolder'
    BY <2>1, <2>2, <2>3, <2>4, <2>6 DEF AccountsIInv, Registry!TypeOK, OneRegisters, OneHolder, Registers
  <2>8. NothingYet'
    <3>1. \A t \in Subs : account'[t].state = "none" => account[t].state = "none"
      BY <2>2
    <3> QED
      BY <2>1, <3>1 DEF AccountsIInv, NothingYet, Bare
  <2>9. FailedIsUndone'
    <3>1. \A t \in Subs : account[t].state = "deleted" => account'[t].state = "deleted"
      BY <2>2
    <3> QED
      BY <1>1, <2>1, <2>2, <2>3, <3>1 DEF AccountsIInv, FailedIsUndone
  <2>10. AskingFor(asking[r])'
    BY <2>3 DEF AskingFor, Registry!Idle
  <2> QED
    BY <2>5, <2>7, <2>8, <2>9, <2>10 DEF AccountsIInv
<1> QED
  BY <1>3, <1>4

LEMMA NextAccountsIInv == ASSUME AccountsIInv, [Registry!Next]_accountVars PROVE AccountsIInv'
<1>1. CASE UNCHANGED accountVars
  BY <1>1 DEF accountVars, AccountsIInv, Registry!TypeOK, AskingFor, OneRegisters, Registers, OneHolder,
              NothingYet, Bare, FailedIsUndone
<1> QED
  BY <1>1, ProviderKeeps, BeginsKeepAccounts, CreateKeeps, GoesOnAccounts, WritesKeep, EndsKeep DEF Registry!Next

LEMMA AccountsStep == [AccountsNext]_accountsVars => [Registry!Next]_accountVars
  BY DEF AccountsNext, accountsVars, accountVars

LEMMA AccountsInvariant == AccountsSpec => []AccountsIInv
<1>1. AccountsInit => AccountsIInv
  BY InitAccountsIInv DEF AccountsInit
<1>2. AccountsIInv /\ [AccountsNext]_accountsVars => AccountsIInv'
  BY AccountsStep, NextAccountsIInv
<1> QED
  BY <1>1, <1>2, PTL DEF AccountsSpec

\* A registration that failed and has been undone leaves no account, and nothing in the
\* database that its account did not write itself (auth/handlers.py, register).
THEOREM RegistrationIsWhole == AccountsSpec => []RegisterIsWhole
<1>1. AccountsIInv => RegisterIsWhole
  BY DEF AccountsIInv, FailedIsUndone, NothingYet, Bare, RegisterIsWhole, Registry!RegisterIsWhole, Registry!HasRole
<1> QED
  BY <1>1, AccountsInvariant, PTL

\* Only the token of an account that is gone takes an address off the row of a live
\* account (persistence/_profile.py): the account that writes has that address, and two
\* live accounts do not.
THEOREM AddressOutlivesLiveTokens == AccountsSpec => EmailTakenOnlyByStaleToken
<1>1. AccountsIInv /\ [AccountsNext]_accountsVars =>
        [\A s \in Subs :
           /\ account[s].state = "live"
           /\ address[s] = account[s].email
           /\ address'[s] # address[s]
           => \E r \in Callers :
                asking[r].sub \in Subs /\ account[asking[r].sub].state = "deleted"]_(Registry!vars)
  <2> SUFFICES ASSUME AccountsIInv, [Registry!Next]_accountVars, NEW s \in Subs, account[s].state = "live",
                      address[s] = account[s].email, address'[s] # address[s]
               PROVE  \E r \in Callers : asking[r].sub \in Subs /\ account[asking[r].sub].state = "deleted"
    BY AccountsStep DEF Registry!vars
  <2>1. PICK r \in Callers : Registry!Write(r) \/ Registry!WriteLost(r)
    BY DEF Registry!Next, accountVars, Registry!SignIn, Registry!DeleteAccount, Registry!Bootstrap,
           Registry!Register, Registry!Authenticated, Registry!CreateExists, Registry!CreateFails,
           Registry!CreateUser, Registry!CreateLost, Registry!Assign, Registry!Release, Registry!WriteFails,
           Registry!Compensate, Registry!CompensateFails, Registry!Die
  <2>2. PICK q \in Registry!Request : q = asking[r]
    BY DEF AccountsIInv, Registry!TypeOK
  <2>3. q.sub \in Subs /\ q.sub # NoSub /\ AskingFor(q) /\ Registry!Commits(q)
    BY <2>1, <2>2, MarkersAreNoAddresses
       DEF AccountsIInv, AskingFor, Registry!Request, Registry!Write, Registry!WriteLost
  <2>4. account[s].email \in Registry!Addresses
    BY DEF AccountsIInv, Registry!TypeOK
  <2>5. address[s] = q.email /\ s # q.sub /\ q.email # NoEmail
    BY <2>3, <2>4, CommitsTo, MarkersAreNoAddresses
  <2>6. account[q.sub].state # "live"
    BY <2>3, <2>5 DEF AccountsIInv, OneHolder, AskingFor
  <2>7. account[q.sub].state = "deleted"
    BY <2>3, <2>6 DEF AccountsIInv, AskingFor, Registry!TypeOK
  <2> QED
    BY <2>2, <2>3, <2>7
<1> QED
  BY <1>1, AccountsInvariant, PTL DEF AccountsSpec, EmailTakenOnlyByStaleToken, Registry!EmailTakenOnlyByStaleToken
-----------------------------------------------------------------------------
(* Rate limit *)

\* A script answers or its instance decides before the deadline is over.
InTime ==
    \A r \in Callers :
        /\ hit[r].now <= tick
        /\ hit[r].state \in {"sent", "unread"} => tick - hit[r].now <= Deadline

\* The shared log holds what it has admitted in the last window, and has promised a place
\* for when one of its hits leaves.
SharedCounts ==
    /\ Limit!Total(shared, Limit!Times) <= Quota
    /\ \A t \in Limit!Times : t > tick - LimitWindow => admitted[Limit!SharedLog][t] <= shared[t]
    /\ retry[Limit!SharedLog] # Limit!Never =>
         \E t \in Limit!Times : shared[t] > 0 /\ t + LimitWindow < retry[Limit!SharedLog]

\* The times whose hits neither a prune nor a sweep has taken from a log in memory.
Kept == {t \in Limit!Times : t > tick - LimitWindow + Deadline}

\* Each hit of some times has an entry of its own in a log.
Backed(count, times, log) ==
    \E f \in [Limit!Hits(count, times) -> 1..Len(log)] :
        /\ \A g, h \in Limit!Hits(count, times) : f[g] = f[h] => g = h
        /\ \A h \in Limit!Hits(count, times) : log[f[h]] = h[1]

\* The entries of a log in memory are hardly newer than the last one.
LastIsLate(log) ==
    \A k \in 1..Len(log) : log[k] <= tick /\ log[k] <= log[Len(log)] + Deadline

LogCounts(i) ==
    /\ Len(local[i]) <= Quota
    /\ LastIsLate(local[i])
    /\ Backed(admitted[i], Kept, local[i])
    /\ retry[i] = Limit!Never \/ local[i] = <<>> \/ local[i][1] + LimitWindow < retry[i]

LimitIInv ==
    /\ Limit!TypeOK
    /\ InTime
    /\ SharedCounts
    /\ \A i \in Instances : LogCounts(i)
    /\ BudgetHolds

\* Hits, counted

LEMMA HitsAre ==
    ASSUME NEW count \in [Limit!Times -> Nat], NEW times
    PROVE  /\ \A t \in times \cap Limit!Times : \A n \in 1..count[t] : <<t, n>> \in Limit!Hits(count, times)
           /\ \A h \in Limit!Hits(count, times) :
                 /\ h[1] \in times \cap Limit!Times /\ h[2] \in 1..count[h[1]]
                 /\ h = <<h[1], h[2]>>
  BY DEF Limit!Hits

LEMMA HitsAreFinite ==
    ASSUME NEW count \in [Limit!Times -> Nat], NEW times
    PROVE  IsFiniteSet(Limit!Hits(count, times))
<1> DEFINE T == times \cap Limit!Times
           f == [t \in T |-> {t} \X (1..count[t])]
           R == {f[t] : t \in T}
<1>1. IsFiniteSet(T)
  <2>1. IsFiniteSet(Limit!Times)
    BY LimitsAreNumbers, FS_Interval DEF Limit!Times
  <2> QED
    BY <2>1, FS_Subset
<1>2. IsFiniteSet(R)
  <2>1. f \in Surjection(T, R)
    BY DEF Surjection
  <2> QED
    BY <1>1, <2>1, FS_Surjection
<1>3. ASSUME NEW s \in R PROVE IsFiniteSet(s)
  <2>1. PICK t \in T : s = {t} \X (1..count[t])
    OBVIOUS
  <2>2. IsFiniteSet({t})
    BY FS_Singleton
  <2> DEFINE n == count[t]
  <2>3. n \in Int
    OBVIOUS
  <2> HIDE DEF n
  <2>4. IsFiniteSet(1..n)
    BY <2>3, FS_Interval
  <2> QED
    BY <2>1, <2>2, <2>4, FS_Product DEF n
<1>4. Limit!Hits(count, times) = UNION R
  BY DEF Limit!Hits
<1> QED
  BY <1>2, <1>3, <1>4, FS_UNION

LEMMA TotalIs ==
    ASSUME NEW count \in [Limit!Times -> Nat], NEW times
    PROVE  /\ Limit!Total(count, times) = Cardinality(Limit!Hits(count, times))
           /\ Limit!Total(count, times) \in Nat
<1>1. Limit!Total(count, times) = Cardinality(Limit!Hits(count, times))
  BY DEF Limit!Total, Limit!Cardinality, Cardinality
<1> QED
  BY <1>1, HitsAreFinite, FS_CardinalityType

\* More hits at more times are more.
LEMMA TotalGrows ==
    ASSUME NEW less \in [Limit!Times -> Nat], NEW many \in [Limit!Times -> Nat],
           NEW some, NEW all,
           \A t \in some \cap Limit!Times : t \in all /\ less[t] <= many[t]
    PROVE  Limit!Total(less, some) <= Limit!Total(many, all)
<1>1. Limit!Hits(less, some) \in SUBSET Limit!Hits(many, all)
  <2> SUFFICES ASSUME NEW h \in Limit!Hits(less, some) PROVE h \in Limit!Hits(many, all)
    OBVIOUS
  <2>1. h[1] \in some \cap Limit!Times /\ h[2] \in 1..less[h[1]] /\ h = <<h[1], h[2]>>
    BY HitsAre
  <2>2. h[1] \in all \cap Limit!Times /\ h[2] \in 1..many[h[1]]
    BY <2>1
  <2> QED
    BY <2>1, <2>2, HitsAre
<1> QED
  BY <1>1, HitsAreFinite, TotalIs, FS_Subset

\* A time that has lost its hits makes them fewer.
LEMMA TotalShrinks ==
    ASSUME NEW less \in [Limit!Times -> Nat], NEW many \in [Limit!Times -> Nat],
           \A t \in Limit!Times : less[t] <= many[t],
           NEW gone \in Limit!Times, less[gone] = 0, many[gone] > 0
    PROVE  Limit!Total(less, Limit!Times) < Limit!Total(many, Limit!Times)
<1>1. Limit!Total(less, Limit!Times) <= Limit!Total(many, Limit!Times)
  BY TotalGrows
<1>2. Limit!Hits(less, Limit!Times) \in SUBSET Limit!Hits(many, Limit!Times)
  <2> SUFFICES ASSUME NEW h \in Limit!Hits(less, Limit!Times) PROVE h \in Limit!Hits(many, Limit!Times)
    OBVIOUS
  <2>1. h[1] \in Limit!Times /\ h[2] \in 1..less[h[1]] /\ h = <<h[1], h[2]>>
    BY HitsAre
  <2> QED
    BY <2>1, HitsAre
<1>3. <<gone, 1>> \in Limit!Hits(many, Limit!Times)
  BY HitsAre
<1>4. <<gone, 1>> \notin Limit!Hits(less, Limit!Times)
  <2> SUFFICES ASSUME <<gone, 1>> \in Limit!Hits(less, Limit!Times) PROVE FALSE
    OBVIOUS
  <2>1. <<gone, 1>>[2] \in 1..less[<<gone, 1>>[1]]
    BY HitsAre
  <2> QED
    BY <2>1
<1>5. Limit!Total(less, Limit!Times) # Limit!Total(many, Limit!Times)
  BY <1>2, <1>3, <1>4, HitsAreFinite, TotalIs, FS_Subset
<1> QED
  BY <1>1, <1>5, TotalIs

\* One hit more makes one more, at most.
LEMMA OneHitMore ==
    ASSUME NEW count \in [Limit!Times -> Nat], NEW now \in Limit!Times, NEW times
    PROVE  /\ [count EXCEPT ![now] = @ + 1] \in [Limit!Times -> Nat]
           /\ Limit!Total([count EXCEPT ![now] = @ + 1], times) <= Limit!Total(count, times) + 1
<1> DEFINE after == [count EXCEPT ![now] = @ + 1]
           one == <<now, count[now] + 1>>
<1>1. after \in [Limit!Times -> Nat] /\ after[now] = count[now] + 1 /\ \A t \in Limit!Times \ {now} : after[t] = count[t]
  OBVIOUS
<1> HIDE DEF after
<1>2. Limit!Hits(after, times) \in SUBSET (Limit!Hits(count, times) \cup {one})
  <2> SUFFICES ASSUME NEW h \in Limit!Hits(after, times), h # one PROVE h \in Limit!Hits(count, times)
    OBVIOUS
  <2>1. h[1] \in times \cap Limit!Times /\ h[2] \in 1..after[h[1]] /\ h = <<h[1], h[2]>>
    BY <1>1, HitsAre
  <2>2. h[2] \in 1..count[h[1]]
    <3>1. CASE h[1] = now
      BY <1>1, <2>1, <3>1
    <3>2. CASE h[1] # now
      BY <1>1, <2>1, <3>2
    <3> QED
      BY <3>1, <3>2
  <2> QED
    BY <2>1, <2>2, HitsAre
<1>3. /\ IsFiniteSet(Limit!Hits(count, times) \cup {one})
      /\ Cardinality(Limit!Hits(count, times) \cup {one}) <= Cardinality(Limit!Hits(count, times)) + 1
  <2> DEFINE H == Limit!Hits(count, times)
  <2>1. IsFiniteSet(H)
    BY HitsAreFinite
  <2> HIDE DEF H, one
  <2>2. Cardinality(H) \in Nat
    BY <2>1, FS_CardinalityType
  <2>3. IsFiniteSet(H \cup {one}) /\ Cardinality(H \cup {one}) \in {Cardinality(H), Cardinality(H) + 1}
    BY <2>1, FS_AddElement
  <2>4. IsFiniteSet(H \cup {one}) /\ Cardinality(H \cup {one}) <= Cardinality(H) + 1
    BY <2>2, <2>3
  <2> QED
    BY <2>4 DEF H
<1>4. Cardinality(Limit!Hits(after, times)) <= Cardinality(Limit!Hits(count, times) \cup {one})
  BY <1>2, <1>3, FS_Subset
<1>5. Limit!Total(after, times) <= Limit!Total(count, times) + 1
  <2>1. /\ Cardinality(Limit!Hits(count, times) \cup {one}) \in Nat
        /\ Cardinality(Limit!Hits(count, times)) \in Nat /\ Cardinality(Limit!Hits(after, times)) \in Nat
    BY <1>1, <1>3, HitsAreFinite, FS_CardinalityType
  <2>2. /\ Limit!Total(after, times) = Cardinality(Limit!Hits(after, times))
        /\ Limit!Total(count, times) = Cardinality(Limit!Hits(count, times))
    BY <1>1, TotalIs
  <2> QED
    BY <1>3, <1>4, <2>1, <2>2
<1> QED
  BY <1>1, <1>5 DEF after

\* The hits that a log keeps

\* One more entry is looked at.
Looked(log, cutoff, n, before) == IF log[n] > cutoff THEN Append(before, log[n]) ELSE before

LEMMA NewerIsBuilt ==
    ASSUME NEW log \in Seq(Limit!Times), NEW cutoff \in Int
    PROVE  \E upTo : /\ upTo[0] = <<>>
                     /\ \A n \in 1..Len(log) : upTo[n] = Looked(log, cutoff, n, upTo[n - 1])
                     /\ Limit!Newer(log, cutoff) = upTo[Len(log)]
<1> DEFINE S == Seq(Limit!Times)
           m == Len(log)
           none == <<>>
           next == [x \in (1..m) \X S |-> Looked(log, cutoff, x[1], x[2])]
           Solves(u) == u = [n \in 0..m |-> IF n = 0 THEN <<>>
                                        ELSE IF log[n] > cutoff THEN Append(u[n - 1], log[n]) ELSE u[n - 1]]
<1>1. m \in Nat /\ none \in S
  BY EmptySeq
<1>2. next \in [(1..m) \X S -> S]
  <2>1. ASSUME NEW n \in 1..m, NEW s \in S PROVE Looked(log, cutoff, n, s) \in S
    <3>1. log[n] \in Limit!Times
      BY ElementOfSeq
    <3> QED
      BY <3>1, AppendProperties DEF Looked
  <2> QED
    BY <2>1
<1> HIDE DEF S, m, none, next, Solves
<1>3. PICK f \in [0..m -> S] : f[0] = none /\ Steps(f, m, next)
  BY <1>1, <1>2, StepsExist
<1>4. \A n \in 1..m : f[n] = Looked(log, cutoff, n, f[n - 1])
  <2> SUFFICES ASSUME NEW n \in 1..m PROVE f[n] = Looked(log, cutoff, n, f[n - 1])
    OBVIOUS
  <2>1. f[n - 1] \in S
    BY <1>1, <1>3
  <2>2. next[<<n, f[n - 1]>>] = Looked(log, cutoff, n, f[n - 1])
    BY <2>1 DEF next
  <2> QED
    BY <1>3, <2>2 DEF Steps
<1>5. Solves(f)
  <2>1. ASSUME NEW n \in 0..m
        PROVE  f[n] = IF n = 0 THEN <<>>
                      ELSE IF log[n] > cutoff THEN Append(f[n - 1], log[n]) ELSE f[n - 1]
    <3>1. CASE n = 0
      BY <1>3, <3>1 DEF none
    <3>2. CASE n # 0
      <4>1. n \in 1..m
        BY <1>1, <3>2
      <4>2. f[n] = Looked(log, cutoff, n, f[n - 1])
        BY <1>4, <4>1
      <4> QED
        BY <3>2, <4>2 DEF Looked
    <3> QED
      BY <3>1, <3>2
  <2> QED
    BY <1>3, <2>1 DEF Solves
<1> DEFINE u == CHOOSE u : Solves(u)
<1>6. Solves(u)
  BY <1>5
<1>7. Limit!Newer(log, cutoff) = u[m]
  BY DEF Limit!Newer, Solves, m
<1> HIDE DEF u
<1>8. /\ u[0] = <<>>
      /\ \A n \in 1..m : u[n] = Looked(log, cutoff, n, u[n - 1])
  <2>1. \A n \in 0..m : u[n] = IF n = 0 THEN <<>>
                               ELSE IF log[n] > cutoff THEN Append(u[n - 1], log[n]) ELSE u[n - 1]
    BY <1>6 DEF Solves
  <2>2. 0 \in 0..m
    BY <1>1
  <2>3. ASSUME NEW n \in 1..m PROVE u[n] = Looked(log, cutoff, n, u[n - 1])
    <3>1. n \in 0..m /\ n # 0
      BY <1>1
    <3>2. u[n] = IF log[n] > cutoff THEN Append(u[n - 1], log[n]) ELSE u[n - 1]
      BY <2>1, <3>1
    <3> QED
      BY <3>2 DEF Looked
  <2> QED
    BY <2>1, <2>2, <2>3
<1> QED
  BY <1>7, <1>8 DEF m

\* What is kept of the first n entries.
KeptOf(log, cutoff, n, s) ==
    /\ s \in Seq(Limit!Times) /\ Len(s) <= n
    /\ \A j \in 1..Len(s) : s[j] > cutoff /\ \E k \in 1..n : s[j] = log[k]
    /\ n >= 1 /\ log[1] <= cutoff => Len(s) < n
    /\ n >= 1 /\ log[n] > cutoff => Len(s) >= 1 /\ s[Len(s)] = log[n]

\* Each of them that is newer has a place of its own.
Placed(log, cutoff, n, s) ==
    \E g \in [{k \in 1..n : log[k] > cutoff} -> 1..Len(s)] :
        /\ \A j, k \in 1..n : log[j] > cutoff /\ log[k] > cutoff /\ g[j] = g[k] => j = k
        /\ \A k \in 1..n : log[k] > cutoff => s[g[k]] = log[k]

LEMMA LookedKeeps ==
    ASSUME NEW log \in Seq(Limit!Times), NEW cutoff \in Int, NEW n \in 1..Len(log), NEW s,
           KeptOf(log, cutoff, n - 1, s)
    PROVE  KeptOf(log, cutoff, n, Looked(log, cutoff, n, s))
<1>0. log[n] \in Limit!Times /\ n \in Nat /\ s \in Seq(Limit!Times) /\ Len(s) \in Nat
  BY ElementOfSeq DEF KeptOf
<1>1. CASE ~(log[n] > cutoff)
  BY <1>0, <1>1 DEF Looked, KeptOf
<1>2. CASE log[n] > cutoff
  <2> DEFINE r == Append(s, log[n])
  <2>1. /\ r \in Seq(Limit!Times) /\ Len(r) = Len(s) + 1 /\ r[Len(s) + 1] = log[n]
        /\ \A j \in 1..Len(s) : r[j] = s[j]
    BY <1>0, AppendProperties
  <2>2. Looked(log, cutoff, n, s) = r
    BY <1>2 DEF Looked
  <2> HIDE DEF r
  <2>3. ASSUME NEW j \in 1..Len(r) PROVE r[j] > cutoff /\ \E k \in 1..n : r[j] = log[k]
    <3>1. CASE j = Len(s) + 1
      BY <1>0, <1>2, <2>1, <3>1
    <3>2. CASE j # Len(s) + 1
      <4>1. j \in 1..Len(s) /\ r[j] = s[j]
        BY <1>0, <2>1, <3>2
      <4>2. s[j] > cutoff /\ \E k \in 1..(n - 1) : s[j] = log[k]
        BY <4>1 DEF KeptOf
      <4> QED
        BY <1>0, <4>1, <4>2
    <3> QED
      BY <3>1, <3>2
  <2>4. log[1] <= cutoff => Len(r) < n
    <3> SUFFICES ASSUME log[1] <= cutoff PROVE Len(r) < n
      OBVIOUS
    <3>1. n # 1
      <4>1. n = 1 => log[1] \in Int
        BY <1>0 DEF Limit!Times
      <4> QED
        BY <1>2, <4>1
    <3> QED
      BY <1>0, <2>1, <3>1 DEF KeptOf
  <2>5. Len(r) <= n
    BY <1>0, <2>1 DEF KeptOf
  <2> QED
    BY <1>0, <2>1, <2>2, <2>3, <2>4, <2>5 DEF KeptOf
<1> QED
  BY <1>1, <1>2

LEMMA LookedPlaces ==
    ASSUME NEW log \in Seq(Limit!Times), NEW cutoff \in Int, NEW n \in 1..Len(log), NEW s \in Seq(Limit!Times),
           Placed(log, cutoff, n - 1, s)
    PROVE  Placed(log, cutoff, n, Looked(log, cutoff, n, s))
<1>0. log[n] \in Limit!Times /\ n \in Nat /\ Len(s) \in Nat
  BY ElementOfSeq
<1>1. PICK g \in [{k \in 1..(n - 1) : log[k] > cutoff} -> 1..Len(s)] :
         /\ \A j, k \in 1..(n - 1) : log[j] > cutoff /\ log[k] > cutoff /\ g[j] = g[k] => j = k
         /\ \A k \in 1..(n - 1) : log[k] > cutoff => s[g[k]] = log[k]
  BY DEF Placed
<1>2. CASE ~(log[n] > cutoff)
  <2>1. {k \in 1..n : log[k] > cutoff} = {k \in 1..(n - 1) : log[k] > cutoff}
    BY <1>0, <1>2
  <2>2. \A k \in 1..n : log[k] > cutoff => k \in 1..(n - 1)
    BY <1>0, <1>2
  <2>3. Looked(log, cutoff, n, s) = s
    BY <1>2 DEF Looked
  <2> QED
    BY <1>1, <2>1, <2>2, <2>3 DEF Placed
<1>3. CASE log[n] > cutoff
  <2> DEFINE r == Append(s, log[n])
             h == [k \in {k \in 1..n : log[k] > cutoff} |-> IF k = n THEN Len(s) + 1 ELSE g[k]]
  <2>1. /\ Len(r) = Len(s) + 1 /\ r[Len(s) + 1] = log[n]
        /\ \A j \in 1..Len(s) : r[j] = s[j]
    BY <1>0, AppendProperties
  <2>2. Looked(log, cutoff, n, s) = r
    BY <1>3 DEF Looked
  <2>3. \A k \in 1..n : k # n => k \in 1..(n - 1)
    BY <1>0
  <2>4. ASSUME NEW k \in 1..n, log[k] > cutoff, k # n
        PROVE  h[k] = g[k] /\ g[k] \in 1..Len(s)
    BY <1>1, <2>3, <2>4
  <2>5. h[n] = Len(s) + 1
    BY <1>0, <1>3
  <2>6. h \in [{k \in 1..n : log[k] > cutoff} -> 1..Len(r)]
    <3> HIDE DEF r
    <3>1. ASSUME NEW k \in 1..n, log[k] > cutoff
          PROVE  (IF k = n THEN Len(s) + 1 ELSE g[k]) \in 1..Len(r)
      <4>1. k # n => g[k] \in 1..Len(s)
        BY <2>4, <3>1
      <4> QED
        BY <1>0, <2>1, <4>1
    <3> QED
      BY <3>1
  <2> HIDE DEF h, r
  <2>7. ASSUME NEW j \in 1..n, NEW k \in 1..n, log[j] > cutoff, log[k] > cutoff, h[j] = h[k]
        PROVE  j = k
    <3>1. CASE j = n \/ k = n
      BY <1>0, <2>4, <2>5, <2>7, <3>1
    <3>2. CASE j # n /\ k # n
      BY <1>1, <2>3, <2>4, <2>7, <3>2
    <3> QED
      BY <3>1, <3>2
  <2>8. ASSUME NEW k \in 1..n, log[k] > cutoff PROVE r[h[k]] = log[k]
    <3>1. CASE k = n
      BY <2>1, <2>5, <3>1
    <3>2. CASE k # n
      BY <1>1, <2>1, <2>3, <2>4, <2>8, <3>2
    <3> QED
      BY <3>1, <3>2
  <2> QED
    BY <2>2, <2>6, <2>7, <2>8 DEF Placed
<1> QED
  BY <1>2, <1>3

LEMMA NewerKeeps ==
    ASSUME NEW log \in Seq(Limit!Times), NEW cutoff \in Int
    PROVE  /\ KeptOf(log, cutoff, Len(log), Limit!Newer(log, cutoff))
           /\ Placed(log, cutoff, Len(log), Limit!Newer(log, cutoff))
<1>1. PICK upTo : /\ upTo[0] = <<>>
                  /\ \A n \in 1..Len(log) : upTo[n] = Looked(log, cutoff, n, upTo[n - 1])
                  /\ Limit!Newer(log, cutoff) = upTo[Len(log)]
  BY NewerIsBuilt
<1>2. Len(log) \in Nat
  OBVIOUS
<1> DEFINE m == Len(log)
           Good(n) == KeptOf(log, cutoff, n, upTo[n]) /\ Placed(log, cutoff, n, upTo[n])
           T == {n \in 0..m : Good(n)}
<1>3. Good(0)
  <2>1. KeptOf(log, cutoff, 0, <<>>)
    BY EmptySeq DEF KeptOf
  <2>2. Placed(log, cutoff, 0, <<>>)
    <3>1. {k \in 1..0 : log[k] > cutoff} = {}
      OBVIOUS
    <3>2. [k \in {} |-> 0] \in [{k \in 1..0 : log[k] > cutoff} -> 1..Len(<<>>)]
      BY <3>1
    <3> QED
      BY <3>2 DEF Placed
  <2> QED
    BY <1>1, <2>1, <2>2
<1>4. ASSUME NEW n \in 0..m, n < m, Good(n) PROVE Good(n + 1)
  <2>1. n + 1 \in 1..Len(log) /\ (n + 1) - 1 = n
    BY <1>2, <1>4
  <2>2. upTo[n + 1] = Looked(log, cutoff, n + 1, upTo[n])
    BY <1>1, <2>1
  <2>3. upTo[n] \in Seq(Limit!Times)
    BY <1>4 DEF KeptOf
  <2> DEFINE k == n + 1
  <2>4. k \in 1..Len(log) /\ KeptOf(log, cutoff, k - 1, upTo[n]) /\ Placed(log, cutoff, k - 1, upTo[n])
    BY <1>4, <2>1
  <2> HIDE DEF k
  <2>5. KeptOf(log, cutoff, k, Looked(log, cutoff, k, upTo[n])) /\ Placed(log, cutoff, k, Looked(log, cutoff, k, upTo[n]))
    BY <2>3, <2>4, LookedKeeps, LookedPlaces
  <2> QED
    BY <2>2, <2>5 DEF k
<1> HIDE DEF Good
<1>5. \A n \in 0..m : n \in T
  <2>1. 0 \in T /\ \A n \in 0..m : n < m /\ n \in T => n + 1 \in T
    BY <1>2, <1>3, <1>4
  <2> HIDE DEF T, m
  <2> QED
    BY <1>2, <2>1, NumbersUpTo DEF m
<1>6. Good(m)
  BY <1>2, <1>5
<1> QED
  BY <1>1, <1>6 DEF Good

LEMMA BackedAtFewer ==
    ASSUME NEW count \in [Limit!Times -> Nat], NEW log, NEW times, NEW some, some \subseteq times,
           Backed(count, times, log)
    PROVE  Backed(count, some, log)
<1> DEFINE H == Limit!Hits(count, times)
           G == Limit!Hits(count, some)
<1>1. PICK f \in [H -> 1..Len(log)] :
         /\ \A g, h \in H : f[g] = f[h] => g = h
         /\ \A h \in H : log[f[h]] = h[1]
  BY DEF Backed
<1>2. G \subseteq H
  BY DEF Limit!Hits
<1> DEFINE e == [h \in G |-> f[h]]
<1> HIDE DEF G, H
<1>3. e \in [G -> 1..Len(log)] /\ \A h \in G : e[h] = f[h]
  BY <1>2
<1> HIDE DEF e
<1>4. (\A g, h \in G : e[g] = e[h] => g = h) /\ (\A h \in G : log[e[h]] = h[1])
  BY <1>1, <1>2, <1>3
<1> QED
  BY <1>3, <1>4 DEF Backed, G

LEMMA BackedIsCounted ==
    ASSUME NEW count \in [Limit!Times -> Nat], NEW times, NEW log \in Seq(Limit!Times),
           Backed(count, times, log)
    PROVE  Limit!Total(count, times) <= Len(log)
<1> DEFINE H == Limit!Hits(count, times)
<1>1. PICK f \in [H -> 1..Len(log)] : \A g, h \in H : f[g] = f[h] => g = h
  BY DEF Backed
<1>2. IsFiniteSet(1..Len(log)) /\ Cardinality(1..Len(log)) = Len(log)
  <2> DEFINE m == Len(log)
  <2>1. m \in Nat
    OBVIOUS
  <2> HIDE DEF m
  <2>2. IsFiniteSet(1..m) /\ Cardinality(1..m) = m
    BY <2>1, FS_Interval
  <2> QED
    BY <2>2 DEF m
<1> HIDE DEF H
<1>3. f \in Injection(H, 1..Len(log))
  BY <1>1 DEF Injection, IsInjective
<1>4. Cardinality(H) <= Len(log)
  BY <1>2, <1>3, FS_Injection
<1> QED
  BY <1>4, TotalIs DEF H

LEMMA PruneBacks ==
    ASSUME NEW count \in [Limit!Times -> Nat], NEW times, NEW log \in Seq(Limit!Times), NEW cutoff \in Int,
           \A t \in times : t > cutoff, Backed(count, times, log)
    PROVE  Backed(count, times, Limit!Newer(log, cutoff))
<1> DEFINE H == Limit!Hits(count, times)
           r == Limit!Newer(log, cutoff)
           K == {k \in 1..Len(log) : log[k] > cutoff}
<1>1. PICK f \in [H -> 1..Len(log)] :
         /\ \A g, h \in H : f[g] = f[h] => g = h
         /\ \A h \in H : log[f[h]] = h[1]
  BY DEF Backed
<1>2. PICK g \in [K -> 1..Len(r)] :
         /\ \A j, k \in 1..Len(log) : log[j] > cutoff /\ log[k] > cutoff /\ g[j] = g[k] => j = k
         /\ \A k \in 1..Len(log) : log[k] > cutoff => r[g[k]] = log[k]
  BY NewerKeeps DEF Placed
<1>3. \A h \in H : h[1] \in times
  BY HitsAre
<1> HIDE DEF H, r
<1>4. \A h \in H : f[h] \in 1..Len(log) /\ log[f[h]] > cutoff
  BY <1>1, <1>3
<1> DEFINE e == [h \in H |-> g[f[h]]]
<1>5. e \in [H -> 1..Len(r)]
  BY <1>2, <1>4
<1>6. \A h \in H : e[h] = g[f[h]]
  OBVIOUS
<1> HIDE DEF e
<1>7. \A h, j \in H : e[h] = e[j] => h = j
  BY <1>1, <1>2, <1>4, <1>6
<1>8. \A h \in H : r[e[h]] = h[1]
  BY <1>1, <1>2, <1>4, <1>6
<1> QED
  BY <1>5, <1>7, <1>8 DEF Backed, H, r

LEMMA AppendBacks ==
    ASSUME NEW count \in [Limit!Times -> Nat], NEW times, NEW log \in Seq(Limit!Times),
           NEW now \in Limit!Times, Backed(count, times, log)
    PROVE  Backed([count EXCEPT ![now] = @ + 1], times, Append(log, now))
<1> DEFINE after == [count EXCEPT ![now] = @ + 1]
           H == Limit!Hits(count, times)
           G == Limit!Hits(after, times)
           one == <<now, count[now] + 1>>
           r == Append(log, now)
           m == Len(log)
<1>1. PICK f \in [H -> 1..m] :
         /\ \A g, h \in H : f[g] = f[h] => g = h
         /\ \A h \in H : log[f[h]] = h[1]
  BY DEF Backed
<1>2. /\ m \in Nat /\ Len(r) = m + 1 /\ r[m + 1] = now
      /\ \A j \in 1..m : r[j] = log[j]
  BY AppendProperties
<1>3. after \in [Limit!Times -> Nat] /\ after[now] = count[now] + 1 /\ \A t \in Limit!Times \ {now} : after[t] = count[t]
  OBVIOUS
<1> HIDE DEF after, r, m
<1>4. ASSUME NEW h \in G, h # one PROVE h \in H
  <2>1. h[1] \in times \cap Limit!Times /\ h[2] \in 1..after[h[1]] /\ h = <<h[1], h[2]>>
    BY <1>3, HitsAre
  <2>2. h[2] \in 1..count[h[1]]
    <3>1. CASE h[1] = now
      BY <1>3, <1>4, <2>1, <3>1
    <3>2. CASE h[1] # now
      BY <1>3, <2>1, <3>2
    <3> QED
      BY <3>1, <3>2
  <2> QED
    BY <2>1, <2>2, HitsAre
<1>5. one[1] = now
  OBVIOUS
<1> HIDE DEF G, H, one
<1> DEFINE e == [h \in G |-> IF h = one THEN m + 1 ELSE f[h]]
<1>6. \A h \in G : h # one => e[h] = f[h] /\ f[h] \in 1..m
  BY <1>1, <1>4
<1>7. \A h \in G : h = one => e[h] = m + 1
  OBVIOUS
<1>8. e \in [G -> 1..Len(r)]
  <2>1. \A h \in G : (IF h = one THEN m + 1 ELSE f[h]) \in 1..Len(r)
    BY <1>1, <1>2, <1>4
  <2> QED
    BY <2>1
<1> HIDE DEF e
<1>9. ASSUME NEW g \in G, NEW h \in G, e[g] = e[h] PROVE g = h
  <2>1. CASE g = one \/ h = one
    BY <1>2, <1>6, <1>7, <1>9, <2>1
  <2>2. CASE g # one /\ h # one
    BY <1>1, <1>4, <1>6, <1>9, <2>2
  <2> QED
    BY <2>1, <2>2
<1>10. ASSUME NEW h \in G PROVE r[e[h]] = h[1]
  <2>1. CASE h = one
    BY <1>2, <1>5, <1>7, <2>1
  <2>2. CASE h # one
    BY <1>1, <1>2, <1>4, <1>6, <2>2
  <2> QED
    BY <2>1, <2>2
<1> QED
  BY <1>8, <1>9, <1>10 DEF Backed, G, after, r

\* What a script leaves in the shared log

LogTypes ==
    /\ tick \in Limit!Times
    /\ shared \in [Limit!Times -> Nat]
    /\ local \in [Instances -> Seq(Limit!Times)]
    /\ lastSweep \in [Instances -> {-1} \cup Limit!Times]
    /\ admitted \in [Limit!Logs -> [Limit!Times -> Nat]]
    /\ retry \in [Limit!Logs -> Nat]

LogsKeep ==
    /\ LogTypes
    /\ SharedCounts
    /\ \A i \in Instances : LogCounts(i)
    /\ BudgetHolds

LEMMA LogsAreApart == Limit!TypeOK <=> LogTypes /\ hit \in [Callers -> Limit!Request]
  BY DEF Limit!TypeOK, LogTypes

LEMMA ScriptLeaves ==
    ASSUME LogTypes, SharedCounts, NEW now \in Limit!Times, now <= tick
    PROVE  /\ Limit!InWindow(now) \in [Limit!Times -> Nat]
           /\ \A t \in Limit!Times : t > now - LimitWindow => Limit!InWindow(now)[t] = shared[t]
           /\ \A t \in Limit!Times : ~(t > now - LimitWindow) => Limit!InWindow(now)[t] = 0
           /\ Limit!Total(Limit!InWindow(now), Limit!Times) <= Quota
           /\ Limit!Total(Limit!InWindow(now), Limit!Times) \in Nat
           /\ Limit!Recorded(now) \in [Limit!Times -> Nat]
           /\ \A t \in Limit!Times : t > tick - LimitWindow => shared[t] <= Limit!Recorded(now)[t]
           /\ Limit!Recorded(now)[now] = shared[now] + 1
           /\ ~Limit!SpentShared(now) => Limit!Total(Limit!Recorded(now), Limit!Times) <= Quota
<1> DEFINE left == Limit!InWindow(now)
<1>1. /\ left \in [Limit!Times -> Nat]
      /\ \A t \in Limit!Times : left[t] = IF t > now - LimitWindow THEN shared[t] ELSE 0
  BY DEF Limit!InWindow, LogTypes
<1>2. now \in Int /\ tick \in Int /\ LimitWindow \in Nat /\ LimitWindow > 0 /\ Quota \in Nat /\ Limit!Times \subseteq Int
  BY LimitsAreNumbers DEF LogTypes, Limit!Times
<1>3. Limit!Recorded(now) = [left EXCEPT ![now] = @ + 1]
  BY DEF Limit!Recorded
<1>4. ~Limit!SpentShared(now) <=> ~(Limit!Total(left, Limit!Times) >= Quota)
  BY DEF Limit!SpentShared
<1> HIDE DEF left
<1>5. \A t \in Limit!Times : left[t] <= shared[t]
  <2>1. \A t \in Limit!Times : shared[t] \in Nat
    BY DEF LogTypes
  <2> QED
    BY <1>1, <2>1
<1>6. Limit!Total(left, Limit!Times) <= Quota /\ Limit!Total(left, Limit!Times) \in Nat
  <2>1. shared \in [Limit!Times -> Nat]
    BY DEF LogTypes
  <2>2. Limit!Total(left, Limit!Times) <= Limit!Total(shared, Limit!Times)
    BY <1>1, <1>5, <2>1, TotalGrows
  <2>3. Limit!Total(left, Limit!Times) \in Nat /\ Limit!Total(shared, Limit!Times) \in Nat
    BY <1>1, <2>1, TotalIs
  <2> QED
    BY <1>2, <2>2, <2>3 DEF SharedCounts
<1>7. /\ Limit!Recorded(now) \in [Limit!Times -> Nat]
      /\ Limit!Total(Limit!Recorded(now), Limit!Times) <= Limit!Total(left, Limit!Times) + 1
  <2>1. /\ [left EXCEPT ![now] = @ + 1] \in [Limit!Times -> Nat]
        /\ Limit!Total([left EXCEPT ![now] = @ + 1], Limit!Times) <= Limit!Total(left, Limit!Times) + 1
    BY <1>1, OneHitMore
  <2> QED
    BY <1>3, <2>1
<1>8. /\ Limit!Recorded(now)[now] = left[now] + 1
      /\ \A t \in Limit!Times \ {now} : Limit!Recorded(now)[t] = left[t]
  BY <1>1, <1>3
<1>9. left[now] = shared[now]
  BY <1>1, <1>2
<1>10. \A t \in Limit!Times : t > tick - LimitWindow => shared[t] <= Limit!Recorded(now)[t]
  <2> SUFFICES ASSUME NEW t \in Limit!Times, t > tick - LimitWindow PROVE shared[t] <= Limit!Recorded(now)[t]
    OBVIOUS
  <2>1. left[t] = shared[t] /\ shared[t] \in Nat
    BY <1>1, <1>2 DEF LogTypes
  <2> QED
    BY <1>8, <2>1
<1>11. ~Limit!SpentShared(now) => Limit!Total(Limit!Recorded(now), Limit!Times) <= Quota
  <2>1. Limit!Total(Limit!Recorded(now), Limit!Times) \in Nat
    BY <1>7, TotalIs
  <2> QED
    BY <1>2, <1>4, <1>6, <1>7, <2>1
<1> QED
  BY <1>1, <1>6, <1>7, <1>8, <1>9, <1>10, <1>11 DEF left

\* One more is admitted: the windows that hold it had room.
LEMMA BudgetGrows ==
    ASSUME NEW count \in [Limit!Times -> Nat], NEW now \in Limit!Times, NEW times,
           Limit!Total(count, times) <= Quota, now \in times => Limit!Total(count, times) < Quota
    PROVE  Limit!Total([count EXCEPT ![now] = @ + 1], times) <= Quota
<1> DEFINE after == [count EXCEPT ![now] = @ + 1]
<1>1. /\ after \in [Limit!Times -> Nat] /\ \A t \in Limit!Times \ {now} : after[t] = count[t]
      /\ Limit!Total(after, times) <= Limit!Total(count, times) + 1
  BY OneHitMore
<1> HIDE DEF after
<1>2. Limit!Total(after, times) \in Nat /\ Limit!Total(count, times) \in Nat /\ Quota \in Nat
  BY <1>1, TotalIs, LimitsAreNumbers
<1>3. CASE now \in times
  BY <1>1, <1>2, <1>3 DEF after
<1>4. CASE now \notin times
  <2>1. \A t \in times \cap Limit!Times : after[t] <= count[t]
    BY <1>1, <1>4
  <2>2. Limit!Total(after, times) <= Limit!Total(count, times)
    BY <1>1, <2>1, TotalGrows
  <2> QED
    BY <1>2, <2>2 DEF after
<1> QED
  BY <1>3, <1>4

\* A client is told to come back when the hit it waits for has left the window.
LEMMA RetryIsLater ==
    ASSUME NEW now \in Limit!Times, NEW oldest \in Limit!Times, oldest > now - LimitWindow
    PROVE  /\ now + Limit!RetryAfter(oldest, now - LimitWindow) \in Nat
           /\ oldest + LimitWindow < now + Limit!RetryAfter(oldest, now - LimitWindow)
<1> DEFINE x == oldest - (now - LimitWindow)
           half == x \div 2
<1>1. now \in Nat /\ oldest \in Nat /\ LimitWindow \in Nat
  BY LimitsAreNumbers DEF Limit!Times
<1>2. x \in Nat
  BY <1>1
<1>3. half \in Nat /\ 2 * (half + 1) > x
  BY <1>2
<1>4. Limit!RetryAfter(oldest, now - LimitWindow) = 2 * (half + 1)
  BY DEF Limit!RetryAfter
<1> HIDE DEF half
<1> QED
  BY <1>1, <1>3, <1>4

\* Steps on the shared log

\* The logs in memory do not see what happens to the shared one.
LEMMA SharedOnly ==
    ASSUME LogsKeep, UNCHANGED <<tick, local, lastSweep>>,
           shared' \in [Limit!Times -> Nat], SharedCounts',
           admitted' \in [Limit!Logs -> [Limit!Times -> Nat]], retry' \in [Limit!Logs -> Nat],
           \A i \in Instances : admitted'[i] = admitted[i] /\ retry'[i] = retry[i],
           \A from \in Limit!Times :
               Limit!Total(admitted'[Limit!SharedLog], from..(from + LimitWindow - Deadline - 1)) <= Quota
    PROVE  LogsKeep'
<1>1. LogTypes'
  BY DEF LogsKeep, LogTypes
<1>2. \A i \in Instances : LogCounts(i)'
  BY DEF LogsKeep, LogCounts, Kept, LastIsLate
<1>3. BudgetHolds'
  BY DEF LogsKeep, BudgetHolds, Limit!BudgetHolds
<1> QED
  BY <1>1, <1>2, <1>3 DEF LogsKeep

LEMMA SharedLogIsOne ==
    /\ Limit!SharedLog \in Limit!Logs
    /\ \A i \in Instances : i \in Limit!Logs /\ i # Limit!SharedLog
  BY LimitsAreNumbers DEF Limit!Logs

LEMMA HitSharedKeeps ==
    ASSUME LogsKeep, NEW now \in Limit!Times, now <= tick, tick - now <= Deadline,
           Limit!HitShared(now), UNCHANGED <<tick, local, lastSweep>>
    PROVE  LogsKeep'
<1> DEFINE S == Limit!SharedLog
           left == Limit!InWindow(now)
<1>0. /\ LogTypes /\ SharedCounts /\ BudgetHolds
      /\ tick \in Nat /\ now \in Nat /\ LimitWindow \in Nat /\ Deadline \in Nat /\ Quota \in Nat
      /\ Limit!Times \subseteq Nat
  BY LimitsAreNumbers DEF LogsKeep, LogTypes, Limit!Times
<1>1. /\ left \in [Limit!Times -> Nat]
      /\ \A t \in Limit!Times : t > now - LimitWindow => left[t] = shared[t]
      /\ \A t \in Limit!Times : ~(t > now - LimitWindow) => left[t] = 0
      /\ Limit!Total(left, Limit!Times) <= Quota /\ Limit!Total(left, Limit!Times) \in Nat
      /\ Limit!Recorded(now) \in [Limit!Times -> Nat]
      /\ \A t \in Limit!Times : t > tick - LimitWindow => shared[t] <= Limit!Recorded(now)[t]
      /\ Limit!Recorded(now)[now] = shared[now] + 1
      /\ ~Limit!SpentShared(now) => Limit!Total(Limit!Recorded(now), Limit!Times) <= Quota
  BY <1>0, ScriptLeaves
<1> HIDE DEF left, S
<1>2. \A t \in Limit!Times : t > tick - LimitWindow => admitted[S][t] <= shared[t]
  BY <1>0 DEF SharedCounts, S
<1>3. \A from \in Limit!Times :
         Limit!Total(admitted[S], from..(from + LimitWindow - Deadline - 1)) <= Quota
  BY <1>0 DEF BudgetHolds, Limit!BudgetHolds, S
<1>4. S \in Limit!Logs /\ admitted[S] \in [Limit!Times -> Nat] /\ \A i \in Instances : i \in Limit!Logs /\ i # S
  BY <1>0, SharedLogIsOne DEF LogTypes, S
<1>5. CASE Limit!SpentShared(now) /\ shared' = left /\ \E oldest \in Limit!Times :
             left[oldest] > 0 /\ Limit!Refuses(S, now, oldest)
  <2>1. PICK oldest \in Limit!Times : left[oldest] > 0 /\ Limit!Refuses(S, now, oldest)
    BY <1>5
  <2> DEFINE back == now + Limit!RetryAfter(oldest, now - LimitWindow)
  <2>2. oldest > now - LimitWindow
    BY <1>1, <2>1
  <2>3. back \in Nat /\ oldest + LimitWindow < back
    BY <2>2, RetryIsLater
  <2>4. retry' = [retry EXCEPT ![S] = back] /\ admitted' = admitted
    BY <2>1 DEF Limit!Refuses
  <2> HIDE DEF back
  <2>5. retry' \in [Limit!Logs -> Nat] /\ retry'[S] = back /\ \A i \in Instances : retry'[i] = retry[i]
    BY <1>0, <1>4, <2>3, <2>4 DEF LogTypes
  <2>6. SharedCounts'
    <3>1. ASSUME NEW t \in Limit!Times, t > tick - LimitWindow PROVE admitted[S][t] <= left[t]
      <4>1. t > now - LimitWindow
        BY <1>0, <3>1
      <4> QED
        BY <1>1, <1>2, <3>1, <4>1
    <3> QED
      BY <1>1, <1>5, <2>1, <2>3, <2>4, <2>5, <3>1 DEF SharedCounts, S
  <2> QED
    BY <1>0, <1>1, <1>3, <1>5, <2>4, <2>5, <2>6, SharedOnly DEF LogTypes, S
<1>6. CASE ~Limit!SpentShared(now) /\ shared' = Limit!Recorded(now) /\ Limit!Admits(S, now)
  <2> DEFINE after == [admitted[S] EXCEPT ![now] = @ + 1]
  <2>1. /\ after \in [Limit!Times -> Nat] /\ after[now] = admitted[S][now] + 1
        /\ \A t \in Limit!Times \ {now} : after[t] = admitted[S][t]
    BY <1>4
  <2>2. /\ admitted' \in [Limit!Logs -> [Limit!Times -> Nat]] /\ admitted'[S] = after
        /\ \A i \in Instances : admitted'[i] = admitted[i]
    BY <1>0, <1>4, <1>6, <2>1 DEF Limit!Admits, LogTypes
  <2>3. Limit!Never \in Nat
    BY LimitsAreNumbers DEF Limit!Never
  <2>4. retry' \in [Limit!Logs -> Nat] /\ retry'[S] = Limit!Never /\ \A i \in Instances : retry'[i] = retry[i]
    BY <1>0, <1>4, <1>6, <2>3 DEF Limit!Admits, LogTypes
  <2>5. SharedCounts'
    <3>1. ASSUME NEW t \in Limit!Times, t > tick - LimitWindow
          PROVE  after[t] <= Limit!Recorded(now)[t]
      <4>1. /\ admitted[S][t] <= shared[t] /\ admitted[S][t] \in Nat /\ shared[t] \in Nat
            /\ shared[t] <= Limit!Recorded(now)[t] /\ Limit!Recorded(now)[t] \in Nat
        BY <1>0, <1>1, <1>2, <1>4, <3>1 DEF LogTypes
      <4>2. CASE t = now
        BY <1>1, <2>1, <4>1, <4>2
      <4>3. CASE t # now
        BY <2>1, <4>1, <4>3
      <4> QED
        BY <4>2, <4>3
    <3>2. Limit!Total(shared', Limit!Times) <= Quota
      BY <1>1, <1>6
    <3>3. \A t \in Limit!Times : t > tick - LimitWindow => admitted'[S][t] <= shared'[t]
      BY <1>6, <2>2, <3>1
    <3> QED
      BY <2>4, <3>2, <3>3 DEF SharedCounts, S
  <2>6. ASSUME NEW from \in Limit!Times
        PROVE  Limit!Total(after, from..(from + LimitWindow - Deadline - 1)) <= Quota
    <3> DEFINE times == from..(from + LimitWindow - Deadline - 1)
    <3>1. now \in times => \A t \in times \cap Limit!Times : t \in Limit!Times /\ admitted[S][t] <= left[t]
      <4> SUFFICES ASSUME now \in times, NEW t \in times \cap Limit!Times PROVE admitted[S][t] <= left[t]
        OBVIOUS
      <4>1. t > tick - LimitWindow /\ t > now - LimitWindow
        BY <1>0
      <4> QED
        BY <1>1, <1>2, <4>1
    <3> HIDE DEF times
    <3>2. now \in times => Limit!Total(admitted[S], times) <= Limit!Total(left, Limit!Times)
      BY <1>1, <1>4, <3>1, TotalGrows
    <3>3. Limit!Total(left, Limit!Times) < Quota
      BY <1>0, <1>1, <1>6 DEF Limit!SpentShared, left
    <3>4. now \in times => Limit!Total(admitted[S], times) < Quota
      <4>1. Limit!Total(admitted[S], times) \in Nat
        BY <1>4, TotalIs
      <4> QED
        BY <1>0, <1>1, <3>2, <3>3, <4>1
    <3>5. Limit!Total(admitted[S], times) <= Quota
      BY <1>3 DEF times
    <3>6. Limit!Total(after, times) <= Quota
      BY <1>4, <3>4, <3>5, BudgetGrows
    <3> QED
      BY <3>6 DEF times
  <2> HIDE DEF after
  <2> QED
    BY <1>1, <1>6, <2>2, <2>4, <2>5, <2>6, SharedOnly DEF S
<1> QED
  BY <1>5, <1>6 DEF Limit!HitShared, S, left

LEMMA RunUnreadKeeps ==
    ASSUME LogsKeep, NEW now \in Limit!Times, now <= tick, Limit!RunUnread(now)
    PROVE  LogsKeep'
<1> DEFINE S == Limit!SharedLog
           left == Limit!InWindow(now)
<1>0. /\ LogTypes /\ SharedCounts /\ BudgetHolds
      /\ tick \in Nat /\ now \in Nat /\ LimitWindow \in Nat /\ Limit!Times \subseteq Nat
  BY LimitsAreNumbers DEF LogsKeep, LogTypes, Limit!Times
<1>1. /\ left \in [Limit!Times -> Nat]
      /\ \A t \in Limit!Times : t > now - LimitWindow => left[t] = shared[t]
      /\ Limit!Total(left, Limit!Times) <= Quota
      /\ Limit!Recorded(now) \in [Limit!Times -> Nat]
      /\ \A t \in Limit!Times : t > tick - LimitWindow => shared[t] <= Limit!Recorded(now)[t]
      /\ ~Limit!SpentShared(now) => Limit!Total(Limit!Recorded(now), Limit!Times) <= Quota
  BY <1>0, ScriptLeaves
<1>2. /\ shared' = (IF Limit!SpentShared(now) THEN left ELSE Limit!Recorded(now))
      /\ retry' = [retry EXCEPT ![S] = Limit!Never] /\ UNCHANGED <<tick, local, lastSweep, admitted>>
  BY DEF Limit!RunUnread
<1> HIDE DEF left, S
<1>3. /\ shared' \in [Limit!Times -> Nat] /\ Limit!Total(shared', Limit!Times) <= Quota
      /\ \A t \in Limit!Times : t > tick - LimitWindow => shared[t] <= shared'[t]
  <2>1. \A t \in Limit!Times : t > tick - LimitWindow => left[t] = shared[t] /\ shared[t] \in Nat
    BY <1>0, <1>1 DEF LogTypes
  <2>2. CASE Limit!SpentShared(now)
    BY <1>1, <1>2, <2>1, <2>2
  <2>3. CASE ~Limit!SpentShared(now)
    BY <1>1, <1>2, <2>3
  <2> QED
    BY <2>2, <2>3
<1>4. S \in Limit!Logs /\ Limit!Never \in Nat /\ \A i \in Instances : i \in Limit!Logs /\ i # S
  BY SharedLogIsOne, LimitsAreNumbers DEF S, Limit!Never
<1>5. retry' \in [Limit!Logs -> Nat] /\ retry'[S] = Limit!Never /\ \A i \in Instances : retry'[i] = retry[i]
  BY <1>0, <1>2, <1>4 DEF LogTypes
<1>6. SharedCounts'
  <2>1. ASSUME NEW t \in Limit!Times, t > tick - LimitWindow PROVE admitted[S][t] <= shared'[t]
    <3>1. admitted[S][t] \in Nat /\ shared[t] \in Nat /\ shared'[t] \in Nat
      BY <1>0, <1>3, <1>4 DEF LogTypes
    <3>2. admitted[S][t] <= shared[t] /\ shared[t] <= shared'[t]
      BY <1>0, <1>3, <2>1 DEF SharedCounts, S
    <3> QED
      BY <3>1, <3>2
  <2> QED
    BY <1>2, <1>3, <1>5, <2>1 DEF SharedCounts, S
<1> QED
  BY <1>0, <1>2, <1>3, <1>5, <1>6, SharedOnly DEF LogTypes, BudgetHolds, Limit!BudgetHolds, S

\* Steps on the logs in memory

\* The other instances and the shared log do not see what happens to one.
LEMMA MemoryOnly ==
    ASSUME LogsKeep, NEW i \in Instances, UNCHANGED <<tick, shared>>,
           NEW log \in Seq(Limit!Times), local' = [local EXCEPT ![i] = log],
           lastSweep' \in [Instances -> {-1} \cup Limit!Times],
           admitted' \in [Limit!Logs -> [Limit!Times -> Nat]], retry' \in [Limit!Logs -> Nat],
           \A l \in Limit!Logs \ {i} : admitted'[l] = admitted[l] /\ retry'[l] = retry[l],
           Len(log) <= Quota, LastIsLate(log), Backed(admitted'[i], Kept, log),
           retry'[i] = Limit!Never \/ log = <<>> \/ log[1] + LimitWindow < retry'[i],
           \A from \in Limit!Times :
               Limit!Total(admitted'[i], from..(from + LimitWindow - 2 * Deadline - 1)) <= Quota
    PROVE  LogsKeep'
<1>0. i \in Limit!Logs /\ Limit!SharedLog \in Limit!Logs \ {i} /\ \A j \in Instances \ {i} : j \in Limit!Logs \ {i}
  BY SharedLogIsOne
<1>1. local' \in [Instances -> Seq(Limit!Times)] /\ local'[i] = log /\ \A j \in Instances \ {i} : local'[j] = local[j]
  BY DEF LogsKeep, LogTypes
<1>2. LogTypes'
  BY <1>1 DEF LogsKeep, LogTypes
<1>3. SharedCounts'
  BY <1>0 DEF LogsKeep, SharedCounts
<1>4. Kept' = Kept /\ \A s : LastIsLate(s) => LastIsLate(s)'
  BY DEF Kept, LastIsLate
<1>5. LogCounts(i)'
  BY <1>1, <1>4 DEF LogCounts, LastIsLate
<1>6. ASSUME NEW j \in Instances \ {i} PROVE LogCounts(j)'
  <2>1. local'[j] = local[j] /\ admitted'[j] = admitted[j] /\ retry'[j] = retry[j]
    BY <1>0, <1>1
  <2>2. LogCounts(j)
    BY DEF LogsKeep
  <2> QED
    BY <1>4, <2>1, <2>2 DEF LogCounts, LastIsLate
<1>7. BudgetHolds'
  <2>1. ASSUME NEW from \in Limit!Times, NEW j \in Instances
        PROVE  Limit!Total(admitted'[j], from..(from + LimitWindow - 2 * Deadline - 1)) <= Quota
    <3>1. CASE j = i
      BY <3>1
    <3>2. CASE j # i
      <4>1. admitted'[j] = admitted[j]
        BY <1>0, <3>2
      <4> QED
        BY <4>1 DEF LogsKeep, BudgetHolds, Limit!BudgetHolds
    <3> QED
      BY <3>1, <3>2
  <2>2. ASSUME NEW from \in Limit!Times
        PROVE  Limit!Total(admitted'[Limit!SharedLog], from..(from + LimitWindow - Deadline - 1)) <= Quota
    BY <1>0 DEF LogsKeep, BudgetHolds, Limit!BudgetHolds
  <2> QED
    BY <2>1, <2>2 DEF BudgetHolds, Limit!BudgetHolds
<1> QED
  BY <1>2, <1>3, <1>5, <1>6, <1>7 DEF LogsKeep

\* A sweep takes a log whose hits are all out of date, but for the deadline.
LEMMA SweepLeaves ==
    ASSUME LogsKeep, NEW i \in Instances, NEW now \in Limit!Times, now <= tick
    PROVE  /\ Limit!Swept(i, now) \in Seq(Limit!Times)
           /\ Limit!Swept(i, now) \in {local[i], <<>>}
           /\ Len(Limit!Swept(i, now)) <= Quota
           /\ LastIsLate(Limit!Swept(i, now))
           /\ Backed(admitted[i], Kept, Limit!Swept(i, now))
<1>0. /\ local[i] \in Seq(Limit!Times) /\ LogCounts(i) /\ admitted[i] \in [Limit!Times -> Nat]
      /\ tick \in Nat /\ now \in Nat /\ LimitWindow \in Nat /\ Deadline \in Nat /\ Quota \in Nat
      /\ Limit!Times \subseteq Nat
  BY SharedLogIsOne, LimitsAreNumbers DEF LogsKeep, LogTypes, Limit!Times
<1>1. CASE Limit!Swept(i, now) = local[i]
  BY <1>0, <1>1 DEF LogCounts
<1>2. CASE /\ Limit!Swept(i, now) = <<>> /\ local[i] # <<>>
           /\ local[i][Len(local[i])] <= now - LimitWindow
  <2> DEFINE log == local[i]
             H == Limit!Hits(admitted[i], Kept)
  <2>1. log \in Seq(Limit!Times) /\ Len(log) \in Nat /\ Len(log) \in 1..Len(log)
    BY <1>0, <1>2
  <2>2. log[Len(log)] \in Nat
    BY <1>0, <2>1, ElementOfSeq
  <2>3. ASSUME NEW k \in 1..Len(log) PROVE log[k] \notin Kept
    <3>1. log[k] \in Nat /\ log[k] <= log[Len(log)] + Deadline
      BY <1>0, <2>1, ElementOfSeq DEF LogCounts, LastIsLate
    <3>2. log[k] <= tick - LimitWindow + Deadline
      BY <1>0, <1>2, <2>2, <3>1
    <3> QED
      BY <1>0, <3>1, <3>2 DEF Kept
  <2>4. PICK f \in [H -> 1..Len(log)] : \A h \in H : log[f[h]] = h[1]
    BY <1>0 DEF LogCounts, Backed
  <2>5. \A h \in H : h[1] \in Kept
    BY <1>0, HitsAre
  <2> HIDE DEF H, log
  <2>6. H = {}
    BY <2>3, <2>4, <2>5
  <2>7. Backed(admitted[i], Kept, <<>>)
    <3>1. [h \in {} |-> 0] \in [H -> 1..Len(<<>>)]
      BY <2>6
    <3> QED
      BY <2>6, <3>1 DEF Backed, H
  <2> QED
    BY <1>0, <1>2, <2>7, EmptySeq DEF LastIsLate
<1> QED
  BY <1>1, <1>2 DEF Limit!Swept

\* What a prune leaves of a log.
LEMMA PruneLeaves ==
    ASSUME LogsKeep, NEW i \in Instances, NEW now \in Limit!Times, now <= tick
    PROVE  /\ Limit!Pruned(i, now) \in Seq(Limit!Times)
           /\ Len(Limit!Pruned(i, now)) <= Quota
           /\ LastIsLate(Limit!Pruned(i, now))
           /\ \A k \in 1..Len(Limit!Pruned(i, now)) : Limit!Pruned(i, now)[k] > now - LimitWindow
           /\ Backed(admitted[i], Kept, Limit!Pruned(i, now))
<1> DEFINE log == Limit!Swept(i, now)
           cutoff == now - LimitWindow
           r == Limit!Newer(log, cutoff)
<1>0. /\ tick \in Nat /\ now \in Nat /\ LimitWindow \in Nat /\ Deadline \in Nat /\ Quota \in Nat
      /\ Limit!Times \subseteq Nat /\ admitted[i] \in [Limit!Times -> Nat] /\ cutoff \in Int
  BY SharedLogIsOne, LimitsAreNumbers DEF LogsKeep, LogTypes, Limit!Times
<1>1. /\ log \in Seq(Limit!Times) /\ Len(log) <= Quota /\ LastIsLate(log) /\ Len(log) \in Nat
      /\ Backed(admitted[i], Kept, log)
  BY SweepLeaves
<1>2. Limit!Pruned(i, now) = r
  BY DEF Limit!Pruned
<1> HIDE DEF log
<1>3. KeptOf(log, cutoff, Len(log), r)
  BY <1>0, <1>1, NewerKeeps
<1>4. r \in Seq(Limit!Times) /\ Len(r) <= Quota /\ Len(r) \in Nat
  BY <1>0, <1>1, <1>3 DEF KeptOf
<1>5. ASSUME NEW t \in Kept PROVE t > cutoff
  <2>1. t \in Nat /\ t > tick - LimitWindow + Deadline
    BY <1>0 DEF Kept
  <2> QED
    BY <1>0, <2>1
<1> HIDE DEF cutoff
<1>6. Backed(admitted[i], Kept, r)
  BY <1>0, <1>1, <1>5, PruneBacks
<1>7. \A k \in 1..Len(r) : r[k] > cutoff /\ r[k] \in Nat
  BY <1>0, <1>3, <1>4, ElementOfSeq DEF KeptOf
<1>8. LastIsLate(r)
  <2> SUFFICES ASSUME NEW j \in 1..Len(r) PROVE r[j] <= tick /\ r[j] <= r[Len(r)] + Deadline
    BY DEF LastIsLate
  <2>1. PICK k \in 1..Len(log) : r[j] = log[k]
    BY <1>3 DEF KeptOf
  <2>2. r[j] <= tick /\ r[j] <= log[Len(log)] + Deadline
    BY <1>1, <2>1 DEF LastIsLate
  <2>3. Len(log) \in 1..Len(log) /\ Len(r) \in 1..Len(r)
    BY <1>1, <1>4, <2>1
  <2>4. log[Len(log)] \in Nat /\ r[Len(r)] \in Nat /\ r[Len(r)] > cutoff /\ r[j] \in Nat
    BY <1>0, <1>1, <1>7, <2>3, ElementOfSeq
  <2>5. CASE log[Len(log)] > cutoff
    <3>1. r[Len(r)] = log[Len(log)]
      BY <1>3, <2>3, <2>5 DEF KeptOf
    <3> QED
      BY <2>2, <3>1
  <2>6. CASE ~(log[Len(log)] > cutoff)
    BY <1>0, <2>2, <2>4, <2>6
  <2> QED
    BY <2>5, <2>6
<1> QED
  BY <1>2, <1>4, <1>6, <1>7, <1>8 DEF cutoff

\* The windows less two deadlines that hold a hit hold only hits that have been kept.
LEMMA WindowIsKept ==
    ASSUME LogsKeep, NEW now \in Limit!Times, now <= tick, tick - now <= Deadline,
           NEW from \in Limit!Times, now \in from..(from + LimitWindow - 2 * Deadline - 1)
    PROVE  \A t \in (from..(from + LimitWindow - 2 * Deadline - 1)) \cap Limit!Times : t \in Kept
<1>1. /\ tick \in Nat /\ now \in Nat /\ from \in Nat /\ LimitWindow \in Nat /\ Deadline \in Nat
      /\ Limit!Times \subseteq Nat
  BY LimitsAreNumbers DEF LogsKeep, LogTypes, Limit!Times
<1> SUFFICES ASSUME NEW t \in (from..(from + LimitWindow - 2 * Deadline - 1)) \cap Limit!Times
             PROVE  t > tick - LimitWindow + Deadline
  BY DEF Kept
<1> QED
  BY <1>1

LEMMA HitLocalKeeps ==
    ASSUME LogsKeep, NEW i \in Instances, NEW now \in Limit!Times, now <= tick, tick - now <= Deadline,
           Limit!HitLocal(i, now), UNCHANGED <<tick, shared>>
    PROVE  LogsKeep'
<1> DEFINE log == Limit!Pruned(i, now)
<1>0. /\ LogTypes /\ BudgetHolds /\ i \in Limit!Logs
      /\ tick \in Nat /\ now \in Nat /\ LimitWindow \in Nat /\ Deadline \in Nat /\ Quota \in Nat \ {0}
      /\ Limit!Times \subseteq Nat /\ admitted[i] \in [Limit!Times -> Nat] /\ retry[i] \in Nat
  <2>1. /\ LogTypes /\ BudgetHolds /\ i \in Limit!Logs
        /\ tick \in Limit!Times /\ admitted[i] \in [Limit!Times -> Nat] /\ retry[i] \in Nat
    BY SharedLogIsOne DEF LogsKeep, LogTypes
  <2>2. Limit!Times \subseteq Nat
    BY LimitsAreNumbers DEF Limit!Times
  <2> QED
    BY <2>1, <2>2, LimitsAreNumbers
<1>1. /\ log \in Seq(Limit!Times) /\ Len(log) <= Quota /\ LastIsLate(log) /\ Len(log) \in Nat
      /\ \A k \in 1..Len(log) : log[k] > now - LimitWindow
      /\ Backed(admitted[i], Kept, log)
  BY PruneLeaves
<1>2. lastSweep' \in [Instances -> {-1} \cup Limit!Times]
  BY <1>0 DEF Limit!HitLocal, Limit!Sweeps, LogTypes
<1>3. \A from \in Limit!Times :
         Limit!Total(admitted[i], from..(from + LimitWindow - 2 * Deadline - 1)) <= Quota
  BY <1>0 DEF BudgetHolds, Limit!BudgetHolds
<1>4. \/ Len(log) >= Quota /\ local' = [local EXCEPT ![i] = log] /\ Limit!Refuses(i, now, log[1])
      \/ Len(log) < Quota /\ local' = [local EXCEPT ![i] = Append(log, now)] /\ Limit!Admits(i, now)
  BY DEF Limit!HitLocal
<1> HIDE DEF log
<1>5. CASE Len(log) >= Quota /\ local' = [local EXCEPT ![i] = log] /\ Limit!Refuses(i, now, log[1])
  <2> DEFINE back == now + Limit!RetryAfter(log[1], now - LimitWindow)
  <2>1. 1 \in 1..Len(log) /\ log[1] \in Limit!Times /\ log[1] > now - LimitWindow
    <3>1. 1 \in 1..Len(log)
      BY <1>0, <1>1, <1>5
    <3> QED
      BY <1>1, <3>1, ElementOfSeq
  <2>2. back \in Nat /\ log[1] + LimitWindow < back
    BY <2>1, RetryIsLater
  <2>3. retry' = [retry EXCEPT ![i] = back] /\ admitted' = admitted
    BY <1>5 DEF Limit!Refuses
  <2> HIDE DEF back
  <2>4. /\ retry' \in [Limit!Logs -> Nat] /\ retry'[i] = back
        /\ \A l \in Limit!Logs \ {i} : admitted'[l] = admitted[l] /\ retry'[l] = retry[l]
    BY <1>0, <2>2, <2>3 DEF LogTypes
  <2> QED
    BY <1>0, <1>1, <1>2, <1>3, <1>5, <2>2, <2>3, <2>4, MemoryOnly DEF LogTypes
<1>6. CASE Len(log) < Quota /\ local' = [local EXCEPT ![i] = Append(log, now)] /\ Limit!Admits(i, now)
  <2> DEFINE after == [admitted[i] EXCEPT ![now] = @ + 1]
             r == Append(log, now)
  <2>1. /\ r \in Seq(Limit!Times) /\ Len(r) = Len(log) + 1 /\ r[Len(log) + 1] = now
        /\ \A k \in 1..Len(log) : r[k] = log[k]
    BY <1>1, AppendProperties
  <2>2. after \in [Limit!Times -> Nat] /\ Backed(after, Kept, r)
    BY <1>0, <1>1, AppendBacks, OneHitMore
  <2>3. ASSUME NEW from \in Limit!Times
        PROVE  Limit!Total(after, from..(from + LimitWindow - 2 * Deadline - 1)) <= Quota
    <3> DEFINE times == from..(from + LimitWindow - 2 * Deadline - 1)
    <3>1. now \in times => \A t \in times \cap Limit!Times : t \in Kept
      BY WindowIsKept
    <3>2. Limit!Total(admitted[i], times) <= Quota
      BY <1>3
    <3> HIDE DEF times
    <3>3. now \in times => Limit!Total(admitted[i], times) <= Limit!Total(admitted[i], Kept)
      <4> SUFFICES ASSUME now \in times
                   PROVE  Limit!Total(admitted[i], times) <= Limit!Total(admitted[i], Kept)
        OBVIOUS
      <4>1. \A t \in times \cap Limit!Times : t \in Kept /\ admitted[i][t] <= admitted[i][t]
        BY <1>0, <3>1
      <4> QED
        BY <1>0, <4>1, TotalGrows
    <3>4. Limit!Total(admitted[i], Kept) <= Len(log)
      BY <1>0, <1>1, BackedIsCounted
    <3>5. now \in times => Limit!Total(admitted[i], times) < Quota
      <4>1. Limit!Total(admitted[i], times) \in Nat /\ Limit!Total(admitted[i], Kept) \in Nat
        BY <1>0, TotalIs
      <4> QED
        BY <1>0, <1>1, <1>6, <3>3, <3>4, <4>1
    <3>6. Limit!Total(after, times) <= Quota
      BY <1>0, <3>2, <3>5, BudgetGrows
    <3> QED
      BY <3>6 DEF times
  <2>4. Limit!Never \in Nat
    BY LimitsAreNumbers DEF Limit!Never
  <2>5. /\ admitted' = [admitted EXCEPT ![i] = after]
        /\ retry' = [retry EXCEPT ![i] = Limit!Never]
    BY <1>6 DEF Limit!Admits
  <2>6. /\ admitted' \in [Limit!Logs -> [Limit!Times -> Nat]] /\ admitted'[i] = after
        /\ retry' \in [Limit!Logs -> Nat] /\ retry'[i] = Limit!Never
        /\ \A l \in Limit!Logs \ {i} : admitted'[l] = admitted[l] /\ retry'[l] = retry[l]
    BY <1>0, <2>2, <2>4, <2>5 DEF LogTypes
  <2> HIDE DEF r, after
  <2>7. LastIsLate(r)
    <3> SUFFICES ASSUME NEW k \in 1..Len(r) PROVE r[k] <= tick /\ r[k] <= r[Len(r)] + Deadline
      BY DEF LastIsLate
    <3>1. r[Len(r)] = now
      BY <2>1
    <3>2. CASE k = Len(log) + 1
      BY <1>0, <2>1, <3>1, <3>2
    <3>3. CASE k # Len(log) + 1
      <4>1. k \in 1..Len(log)
        BY <1>1, <2>1, <3>3
      <4>2. r[k] = log[k] /\ log[k] \in Nat /\ log[k] <= tick
        BY <1>0, <1>1, <2>1, <4>1, ElementOfSeq DEF LastIsLate
      <4> QED
        BY <1>0, <3>1, <4>2
    <3> QED
      BY <3>2, <3>3
  <2>8. Len(r) <= Quota
    BY <1>0, <1>1, <1>6, <2>1
  <2>9. local' = [local EXCEPT ![i] = r]
    BY <1>6 DEF r
  <2> QED
    BY <1>2, <2>1, <2>2, <2>3, <2>6, <2>7, <2>8, <2>9, MemoryOnly
<1> QED
  BY <1>4, <1>5, <1>6

LEMMA HitByOtherKeeps ==
    ASSUME LogsKeep, NEW i \in Instances, NEW now \in Limit!Times, Limit!HitByOther(i, now)
    PROVE  LogsKeep'
<1> DEFINE log == Limit!Swept(i, now)
<1>0. LogTypes /\ BudgetHolds /\ LogCounts(i) /\ i \in Limit!Logs /\ now <= tick
  BY SharedLogIsOne DEF LogsKeep, Limit!HitByOther
<1>1. /\ log \in Seq(Limit!Times) /\ Len(log) <= Quota /\ LastIsLate(log) /\ log \in {local[i], <<>>}
      /\ Backed(admitted[i], Kept, log)
  BY <1>0, SweepLeaves
<1>2. lastSweep' \in [Instances -> {-1} \cup Limit!Times]
  BY <1>0 DEF Limit!HitByOther, Limit!Sweeps, LogTypes
<1>3. /\ local' = [local EXCEPT ![i] = log] /\ UNCHANGED <<tick, shared, admitted, retry>>
  BY DEF Limit!HitByOther
<1> HIDE DEF log
<1>4. retry[i] = Limit!Never \/ log = <<>> \/ log[1] + LimitWindow < retry[i]
  BY <1>0, <1>1 DEF LogCounts
<1>5. \A from \in Limit!Times :
         Limit!Total(admitted[i], from..(from + LimitWindow - 2 * Deadline - 1)) <= Quota
  BY <1>0 DEF BudgetHolds, Limit!BudgetHolds
<1> QED
  BY <1>0, <1>1, <1>2, <1>3, <1>4, <1>5, MemoryOnly DEF LogTypes

\* A log that nobody is in.
LEMMA NobodyIsCounted ==
    /\ Limit!Nobody \in [Limit!Times -> Nat]
    /\ \A times : Limit!Total(Limit!Nobody, times) <= Quota /\ Backed(Limit!Nobody, times, <<>>)
    /\ <<>> \in Seq(Limit!Times) /\ Len(<<>>) <= Quota /\ LastIsLate(<<>>)
<1>1. Limit!Nobody \in [Limit!Times -> Nat]
  BY DEF Limit!Nobody
<1>2. ASSUME NEW times
      PROVE  Limit!Total(Limit!Nobody, times) <= Quota /\ Backed(Limit!Nobody, times, <<>>)
  <2> DEFINE H == Limit!Hits(Limit!Nobody, times)
  <2>1. H = {}
    <3> SUFFICES ASSUME NEW h \in H PROVE FALSE
      OBVIOUS
    <3>1. h[1] \in Limit!Times /\ h[2] \in 1..Limit!Nobody[h[1]]
      BY <1>1, HitsAre
    <3>2. Limit!Nobody[h[1]] = 0
      BY <3>1 DEF Limit!Nobody
    <3> QED
      BY <3>1, <3>2
  <2>2. Limit!Total(Limit!Nobody, times) = 0
    BY <1>1, <2>1, TotalIs, FS_EmptySet
  <2>3. Backed(Limit!Nobody, times, <<>>)
    <3>1. [h \in {} |-> 0] \in [H -> 1..Len(<<>>)]
      BY <2>1
    <3> HIDE DEF H
    <3> QED
      BY <2>1, <3>1 DEF Backed, H
  <2> QED
    BY <2>2, <2>3, LimitsAreNumbers
<1>3. <<>> \in Seq(Limit!Times) /\ Len(<<>>) <= Quota /\ LastIsLate(<<>>)
  BY EmptySeq, LimitsAreNumbers DEF LastIsLate
<1> QED
  BY <1>1, <1>2, <1>3

LEMMA RestartKeeps ==
    ASSUME LogsKeep, NEW i \in Instances, Limit!Restart(i)
    PROVE  LogsKeep'
<1>0. LogTypes /\ i \in Limit!Logs /\ Limit!Never \in Nat
  BY SharedLogIsOne, LimitsAreNumbers DEF LogsKeep, Limit!Never
<1>1. /\ local' = [local EXCEPT ![i] = <<>>] /\ lastSweep' = [lastSweep EXCEPT ![i] = -1]
      /\ admitted' = [admitted EXCEPT ![i] = Limit!Nobody] /\ retry' = [retry EXCEPT ![i] = Limit!Never]
      /\ UNCHANGED <<tick, shared>>
  BY DEF Limit!Restart
<1>2. /\ admitted' \in [Limit!Logs -> [Limit!Times -> Nat]] /\ admitted'[i] = Limit!Nobody
      /\ retry' \in [Limit!Logs -> Nat] /\ retry'[i] = Limit!Never
      /\ \A l \in Limit!Logs \ {i} : admitted'[l] = admitted[l] /\ retry'[l] = retry[l]
  BY <1>0, <1>1, NobodyIsCounted DEF LogTypes
<1>3. lastSweep' \in [Instances -> {-1} \cup Limit!Times]
  BY <1>0, <1>1 DEF LogTypes
<1>4. /\ Len(<<>>) <= Quota /\ LastIsLate(<<>>) /\ <<>> \in Seq(Limit!Times)
      /\ Backed(admitted'[i], Kept, <<>>)
      /\ \A from \in Limit!Times :
           Limit!Total(admitted'[i], from..(from + LimitWindow - 2 * Deadline - 1)) <= Quota
  BY <1>2, NobodyIsCounted
<1> QED
  BY <1>1, <1>2, <1>3, <1>4, MemoryOnly

LEMMA TickKeeps ==
    ASSUME LogsKeep, Limit!Tick
    PROVE  LogsKeep'
<1>0. /\ LogTypes /\ SharedCounts /\ BudgetHolds
      /\ tick \in Nat /\ LimitWindow \in Nat /\ Deadline \in Nat /\ LastTick \in Nat
      /\ Limit!Times \subseteq Nat
  BY LimitsAreNumbers DEF LogsKeep, LogTypes, Limit!Times
<1>1. tick' = tick + 1 /\ tick < LastTick /\ UNCHANGED <<shared, local, lastSweep, admitted, retry>>
  BY DEF Limit!Tick
<1>2. LogTypes'
  <2>1. tick' \in Limit!Times
    BY <1>0, <1>1 DEF Limit!Times
  <2> QED
    BY <1>0, <1>1, <2>1 DEF LogTypes
<1>3. SharedCounts'
  <2>1. ASSUME NEW t \in Limit!Times, t > tick' - LimitWindow PROVE t > tick - LimitWindow
    BY <1>0, <1>1, <2>1
  <2> QED
    BY <1>0, <1>1, <2>1 DEF SharedCounts
<1>4. ASSUME NEW i \in Instances PROVE LogCounts(i)'
  <2>1. local[i] \in Seq(Limit!Times) /\ admitted[i] \in [Limit!Times -> Nat] /\ LogCounts(i)
    BY <1>0, SharedLogIsOne DEF LogsKeep, LogTypes
  <2>2. Kept' \subseteq Kept
    <3> SUFFICES ASSUME NEW t \in Limit!Times, t > tick' - LimitWindow + Deadline
                 PROVE  t > tick - LimitWindow + Deadline
      BY DEF Kept
    <3> QED
      BY <1>0, <1>1
  <2>3. Backed(admitted[i], Kept', local[i])
    BY <2>1, <2>2, BackedAtFewer DEF LogCounts
  <2>4. ASSUME NEW k \in 1..Len(local[i])
        PROVE  local[i][k] <= tick' /\ local[i][k] <= local[i][Len(local[i])] + Deadline
    <3>1. local[i][k] \in Nat
      BY <1>0, <2>1, ElementOfSeq
    <3> QED
      BY <1>0, <1>1, <2>1, <3>1 DEF LogCounts, LastIsLate
  <2> QED
    BY <1>1, <2>1, <2>3, <2>4 DEF LogCounts, LastIsLate
<1>5. BudgetHolds'
  BY <1>0, <1>1 DEF BudgetHolds, Limit!BudgetHolds
<1> QED
  BY <1>2, <1>3, <1>4, <1>5 DEF LogsKeep

\* Every step

LEMMA RequestsKeep ==
    ASSUME InTime, hit \in [Callers -> Limit!Request], tick \in Limit!Times, UNCHANGED tick,
           hit' \in [Callers -> Limit!Request],
           \A r \in Callers :
               \/ hit'[r].now = tick
               \/ /\ hit'[r].now = hit[r].now
                  /\ hit'[r].state \in {"sent", "unread"} => hit[r].state \in {"sent", "unread"}
    PROVE  InTime'
<1>1. tick \in Nat /\ Deadline \in Nat
  BY LimitsAreNumbers DEF Limit!Times
<1> SUFFICES ASSUME NEW r \in Callers
             PROVE  /\ hit'[r].now <= tick
                    /\ hit'[r].state \in {"sent", "unread"} => tick - hit'[r].now <= Deadline
  BY DEF InTime
<1> QED
  BY <1>1 DEF InTime

LEMMA LogsUnseen ==
    ASSUME LogsKeep, UNCHANGED <<tick, shared, local, lastSweep, admitted, retry>>
    PROVE  LogsKeep'
  BY DEF LogsKeep, LogTypes, SharedCounts, LogCounts, Kept, LastIsLate, BudgetHolds, Limit!BudgetHolds

LEMMA LimitParts == LimitIInv <=> LogsKeep /\ InTime /\ hit \in [Callers -> Limit!Request]
  BY LogsAreApart DEF LimitIInv, LogsKeep

LEMMA BecomesKeeps ==
    ASSUME LimitIInv, UNCHANGED tick, NEW q \in Callers, hit[q].state # "none",
           NEW state \in {"none", "sent", "unread", "stray"},
           state \in {"sent", "unread"} => hit[q].state \in {"sent", "unread"}, Limit!Becomes(q, state)
    PROVE  InTime' /\ hit' \in [Callers -> Limit!Request]
<1>1. hit \in [Callers -> Limit!Request] /\ InTime /\ tick \in Limit!Times
  BY LimitParts DEF LogsKeep, LogTypes
<1>2. hit' = [hit EXCEPT ![q].state = state]
  BY DEF Limit!Becomes
<1>3. hit' \in [Callers -> Limit!Request]
  BY <1>1, <1>2 DEF Limit!Request
<1>4. ASSUME NEW r \in Callers
      PROVE  /\ hit'[r].now = hit[r].now
             /\ hit'[r].state \in {"sent", "unread"} => hit[r].state \in {"sent", "unread"}
  BY <1>1, <1>2 DEF Limit!Request
<1> QED
  BY <1>1, <1>3, <1>4, RequestsKeep

LEMMA NextLimitIInv == ASSUME LimitIInv, [Limit!Next]_limitVars PROVE LimitIInv'
<1>0. LogsKeep /\ InTime /\ hit \in [Callers -> Limit!Request] /\ tick \in Limit!Times
  BY LimitParts DEF LogsKeep, LogTypes
<1>1. \A r \in Callers : hit[r].now \in Limit!Times /\ hit[r].at \in Instances /\ hit[r].now <= tick
  BY <1>0 DEF InTime, Limit!Request
<1>2. CASE UNCHANGED limitVars
  <2>1. LogsKeep'
    BY <1>0, <1>2, LogsUnseen DEF limitVars
  <2>2. InTime' /\ hit' \in [Callers -> Limit!Request]
    BY <1>0, <1>2 DEF limitVars, InTime
  <2> QED
    BY <2>1, <2>2, LogsAreApart DEF LimitIInv, LogsKeep, Limit!TypeOK, LogTypes
<1>3. CASE Limit!Tick
  <2>1. LogsKeep'
    BY <1>0, <1>3, TickKeeps
  <2>2. InTime' /\ hit' \in [Callers -> Limit!Request]
    <3>1. tick' = tick + 1 /\ hit' = hit /\ tick \in Nat /\ Deadline \in Nat
      BY <1>0, <1>3, LimitsAreNumbers DEF Limit!Tick, Limit!Times
    <3>2. \A r \in Callers : hit[r].now \in Nat
      BY <1>1, LimitsAreNumbers DEF Limit!Times
    <3> QED
      BY <1>0, <1>3, <3>1, <3>2 DEF Limit!Tick, InTime
  <2> QED
    BY <2>1, <2>2 DEF LimitIInv, LogsKeep, Limit!TypeOK, LogTypes
<1>4. ASSUME NEW q \in Callers, NEW i \in Instances, Limit!Dispatch(q, i) PROVE LimitIInv'
  <2>1. LogsKeep' /\ UNCHANGED tick
    BY <1>0, <1>4, LogsUnseen DEF Limit!Dispatch
  <2>2. hit' = [hit EXCEPT ![q] = [state |-> "sent", now |-> tick, at |-> i]]
    BY <1>4 DEF Limit!Dispatch
  <2>3. hit' \in [Callers -> Limit!Request]
    BY <1>0, <2>2 DEF Limit!Request
  <2>4. InTime'
    <3>1. hit'[q].now = tick /\ \A r \in Callers \ {q} : hit'[r] = hit[r]
      BY <1>0, <2>2
    <3> QED
      BY <1>0, <2>1, <2>3, <3>1, RequestsKeep
  <2> QED
    BY <2>1, <2>3, <2>4 DEF LimitIInv, LogsKeep, Limit!TypeOK, LogTypes
<1>5. ASSUME NEW q \in Callers, Limit!Decide(q) PROVE LimitIInv'
  <2>1. tick - hit[q].now <= Deadline
    BY <1>0, <1>5 DEF InTime, Limit!Decide
  <2>2. LogsKeep'
    BY <1>0, <1>1, <1>5, <2>1, HitSharedKeeps DEF Limit!Decide
  <2>3. InTime' /\ hit' \in [Callers -> Limit!Request]
    BY <1>5, BecomesKeeps DEF Limit!Decide
  <2> QED
    BY <2>2, <2>3 DEF LimitIInv, LogsKeep, Limit!TypeOK, LogTypes
<1>6. ASSUME NEW q \in Callers, Limit!DecideUnread(q) \/ Limit!RunStray(q) PROVE LimitIInv'
  <2>1. LogsKeep'
    BY <1>0, <1>1, <1>6, RunUnreadKeeps DEF Limit!DecideUnread, Limit!RunStray
  <2>2. InTime' /\ hit' \in [Callers -> Limit!Request]
    BY <1>6, BecomesKeeps DEF Limit!DecideUnread, Limit!RunStray, Limit!RunUnread
  <2> QED
    BY <2>1, <2>2 DEF LimitIInv, LogsKeep, Limit!TypeOK, LogTypes
<1>7. ASSUME NEW q \in Callers, Limit!FallBack(q) PROVE LimitIInv'
  <2>1. tick - hit[q].now <= Deadline
    BY <1>0, <1>7 DEF InTime, Limit!FallBack
  <2>2. LogsKeep'
    BY <1>0, <1>1, <1>7, <2>1, HitLocalKeeps DEF Limit!FallBack
  <2>3. InTime' /\ hit' \in [Callers -> Limit!Request]
    BY <1>7, BecomesKeeps DEF Limit!FallBack
  <2> QED
    BY <2>2, <2>3 DEF LimitIInv, LogsKeep, Limit!TypeOK, LogTypes
<1>8. ASSUME NEW q \in Callers, Limit!LoseStray(q) PROVE LimitIInv'
  <2>1. LogsKeep'
    BY <1>0, <1>8, LogsUnseen DEF Limit!LoseStray
  <2>2. InTime' /\ hit' \in [Callers -> Limit!Request]
    BY <1>8, BecomesKeeps DEF Limit!LoseStray
  <2> QED
    BY <2>1, <2>2 DEF LimitIInv, LogsKeep, Limit!TypeOK, LogTypes
<1>9. ASSUME NEW i \in Instances, Limit!Restart(i) PROVE LimitIInv'
  <2>1. LogsKeep' /\ UNCHANGED tick
    BY <1>0, <1>9, RestartKeeps DEF Limit!Restart
  <2>2. ASSUME NEW r \in Callers
        PROVE  hit'[r] = [hit[r] EXCEPT !.state = IF hit[r].at # i THEN @
                                                  ELSE IF @ = "unread" THEN "none"
                                                  ELSE IF @ = "sent" THEN "stray"
                                                  ELSE @]
    BY <1>9 DEF Limit!Restart
  <2>3. ASSUME NEW r \in Callers
        PROVE  /\ hit'[r] \in Limit!Request /\ hit'[r].now = hit[r].now
               /\ hit'[r].state \in {"sent", "unread"} => hit[r].state \in {"sent", "unread"}
    <3>1. hit[r] \in Limit!Request
      BY <1>0
    <3> QED
      BY <2>2, <3>1 DEF Limit!Request
  <2>4. hit' \in [Callers -> Limit!Request]
    <3>1. \E f : hit' = [r \in Callers |-> f[r]]
      <4>1. hit' = [r \in Callers |-> hit'[r]]
        BY <1>9 DEF Limit!Restart
      <4> QED
        BY <4>1
    <3> QED
      BY <2>3, <3>1
  <2>5. InTime'
    BY <1>0, <2>1, <2>3, <2>4, RequestsKeep
  <2> QED
    BY <2>1, <2>4, <2>5 DEF LimitIInv, LogsKeep, Limit!TypeOK, LogTypes
<1>10. ASSUME NEW i \in Instances, NEW now \in Limit!Times, Limit!HitByOther(i, now) PROVE LimitIInv'
  <2>1. LogsKeep'
    BY <1>0, <1>10, HitByOtherKeeps
  <2>2. InTime' /\ hit' \in [Callers -> Limit!Request]
    BY <1>0, <1>10 DEF Limit!HitByOther, InTime
  <2> QED
    BY <2>1, <2>2 DEF LimitIInv, LogsKeep, Limit!TypeOK, LogTypes
<1> QED
  BY <1>2, <1>3, <1>4, <1>5, <1>6, <1>7, <1>8, <1>9, <1>10 DEF Limit!Next

LEMMA InitLimitIInv == Limit!Init => LimitIInv
<1> SUFFICES ASSUME Limit!Init PROVE LimitIInv
  OBVIOUS
<1>1. /\ 0 \in Limit!Times /\ Limit!Never \in Nat /\ Deadline \in Nat
      /\ (CHOOSE i \in Instances : TRUE) \in Instances
  BY LimitsAreNumbers DEF Limit!Never, Limit!Times
<1>2. LogTypes /\ hit \in [Callers -> Limit!Request] /\ InTime
  BY <1>1, NobodyIsCounted DEF Limit!Init, LogTypes, Limit!Request, InTime
<1>3. \A l \in Limit!Logs : admitted[l] = Limit!Nobody /\ retry[l] = Limit!Never
  BY DEF Limit!Init
<1>4. SharedCounts
  <2>1. shared = Limit!Nobody /\ \A t \in Limit!Times : Limit!Nobody[t] = 0
    BY DEF Limit!Init, Limit!Nobody
  <2> QED
    BY <1>3, <2>1, SharedLogIsOne, NobodyIsCounted DEF SharedCounts
<1>5. ASSUME NEW i \in Instances PROVE LogCounts(i)
  <2>1. local[i] = <<>> /\ admitted[i] = Limit!Nobody
    BY <1>3, SharedLogIsOne DEF Limit!Init
  <2> QED
    BY <2>1, NobodyIsCounted DEF LogCounts
<1>6. BudgetHolds
  BY <1>3, SharedLogIsOne, NobodyIsCounted DEF BudgetHolds, Limit!BudgetHolds
<1> QED
  BY <1>2, <1>4, <1>5, <1>6, LogsAreApart DEF LimitIInv

LEMMA LimitStep == [AccountsNext]_accountsVars => [Limit!Next]_limitVars
  BY DEF AccountsNext, accountsVars, limitVars

LEMMA LimitInvariant == AccountsSpec => []LimitIInv
<1>1. AccountsInit => LimitIInv
  BY InitLimitIInv DEF AccountsInit
<1>2. LimitIInv /\ [AccountsNext]_accountsVars => LimitIInv'
  BY LimitStep, NextLimitIInv
<1> QED
  BY <1>1, <1>2, PTL DEF AccountsSpec

\* However scripts and answers are late, lost or out of order, and however often an
\* instance restarts, no log admits more than the budget in a window less the deadline,
\* nor one in memory in a window less two (core/rate_limit.py,
\* upstash_rate_limit_store.py).
THEOREM BudgetAlwaysHolds == AccountsSpec => []BudgetHolds
<1>1. LimitIInv => BudgetHolds
  BY DEF LimitIInv
<1> QED
  BY <1>1, LimitInvariant, PTL

\* A client that comes back when it was told to finds that a hit has left the log that told
\* it (core/rate_limit.py, retry_after_seconds).
THEOREM RetryAlwaysAdmitted == AccountsSpec => []RetryIsAdmitted
<1>1. ASSUME LimitIInv PROVE RetryIsAdmitted
  <2>0. /\ LogTypes /\ SharedCounts /\ LogsKeep
        /\ tick \in Nat /\ tick <= LastTick /\ LastTick \in Nat /\ LimitWindow \in Nat \ {0} /\ Quota \in Nat \ {0}
        /\ Limit!Times \subseteq Nat
    <3>1. LogTypes /\ SharedCounts /\ LogsKeep /\ tick \in Limit!Times
      BY <1>1, LimitParts DEF LogsKeep, LogTypes
    <3>2. Limit!Times \subseteq Nat /\ tick <= LastTick
      BY <3>1, LimitsAreNumbers DEF Limit!Times
    <3> QED
      BY <3>1, <3>2, LimitsAreNumbers
  <2>1. Limit!Never > tick
    BY <2>0 DEF Limit!Never
  <2> SUFFICES ASSUME NEW l \in Limit!Logs, tick >= retry[l] PROVE ~Limit!Spent(l)
    BY DEF RetryIsAdmitted, Limit!RetryIsAdmitted
  <2>2. retry[l] \in Nat /\ retry[l] # Limit!Never
    BY <2>0, <2>1 DEF LogTypes
  <2>3. CASE l = Limit!SharedLog
    <3>1. PICK gone \in Limit!Times : shared[gone] > 0 /\ gone + LimitWindow < retry[l]
      BY <2>0, <2>2, <2>3 DEF SharedCounts
    <3> DEFINE left == Limit!InWindow(tick)
    <3>2. /\ left \in [Limit!Times -> Nat]
          /\ \A t \in Limit!Times : left[t] = IF t > tick - LimitWindow THEN shared[t] ELSE 0
      BY <2>0 DEF Limit!InWindow, LogTypes
    <3>3. Limit!Spent(l) <=> Limit!Total(left, Limit!Times) >= Quota
      BY <2>3 DEF Limit!Spent, Limit!SpentShared
    <3> HIDE DEF left
    <3>4. \A t \in Limit!Times : left[t] <= shared[t]
      <4>1. \A t \in Limit!Times : shared[t] \in Nat
        BY <2>0 DEF LogTypes
      <4> QED
        BY <3>2, <4>1
    <3>5. left[gone] = 0
      <4>1. gone \in Nat
        BY <2>0
      <4> QED
        BY <2>0, <2>2, <3>1, <3>2, <4>1
    <3>6. shared \in [Limit!Times -> Nat]
      BY <2>0 DEF LogTypes
    <3>7. Limit!Total(left, Limit!Times) < Limit!Total(shared, Limit!Times)
      BY <3>1, <3>2, <3>4, <3>5, <3>6, TotalShrinks
    <3>8. Limit!Total(left, Limit!Times) \in Nat /\ Limit!Total(shared, Limit!Times) \in Nat
      BY <3>2, <3>6, TotalIs
    <3> QED
      BY <2>0, <3>3, <3>7, <3>8 DEF SharedCounts
  <2>4. CASE l # Limit!SharedLog
    <3>1. l \in Instances
      BY <2>4 DEF Limit!Logs
    <3> DEFINE log == Limit!Swept(l, tick)
               cutoff == tick - LimitWindow
    <3>2. Limit!Spent(l) <=> Len(Limit!Newer(log, cutoff)) >= Quota
      BY <2>4 DEF Limit!Spent, Limit!Pruned
    <3>3. log \in Seq(Limit!Times) /\ Len(log) <= Quota /\ log \in {local[l], <<>>} /\ cutoff \in Int
      BY <2>0, <3>1, SweepLeaves DEF LogTypes
    <3>4. log = <<>> \/ log[1] + LimitWindow < retry[l]
      BY <2>0, <2>2, <3>1, <3>3 DEF LogsKeep, LogCounts
    <3>5. cutoff = tick - LimitWindow
      OBVIOUS
    <3> HIDE DEF log, cutoff
    <3>6. KeptOf(log, cutoff, Len(log), Limit!Newer(log, cutoff))
      BY <3>3, NewerKeeps
    <3>7. Len(log) \in Nat /\ Len(Limit!Newer(log, cutoff)) \in Nat
      BY <3>3, <3>6 DEF KeptOf
    <3>8. CASE log = <<>>
      <4>1. Len(log) = 0
        BY <3>8, EmptySeq
      <4>2. Len(Limit!Newer(log, cutoff)) <= 0
        BY <3>6, <4>1 DEF KeptOf
      <4> QED
        BY <2>0, <3>2, <3>7, <4>2
    <3>9. CASE log # <<>>
      <4>1. Len(log) >= 1 /\ log[1] \in Nat
        <5>1. Len(log) # 0
          BY <3>3, <3>9, EmptySeq
        <5>2. 1 \in 1..Len(log)
          BY <3>7, <5>1
        <5>3. log[1] \in Limit!Times
          BY <3>3, <5>2, ElementOfSeq
        <5>4. Len(log) >= 1
          BY <3>7, <5>1
        <5>5. log[1] \in Nat
          BY <2>0, <5>3
        <5> QED
          BY <5>4, <5>5
      <4>2. log[1] <= cutoff
        BY <2>0, <2>2, <3>4, <3>5, <3>9, <4>1
      <4>3. Len(Limit!Newer(log, cutoff)) < Len(log)
        BY <3>6, <4>1, <4>2 DEF KeptOf
      <4> QED
        BY <2>0, <3>2, <3>3, <3>7, <4>3
    <3> QED
      BY <3>8, <3>9
  <2> QED
    BY <2>3, <2>4
<1> QED
  BY <1>1, LimitInvariant, PTL
=============================================================================
