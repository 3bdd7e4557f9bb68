-------------------------- MODULE ParentChildProofs --------------------------
(***************************************************************************)
(* Theorems about ParentChild for any persons, links and concurrent        *)
(* editors.  Two facts carry the proof: what the guard has found stays     *)
(* true until the COMMIT, because only deletes run meanwhile, and a link   *)
(* to a parent who does not descend from the child closes no cycle.        *)
(***************************************************************************)
EXTENDS ParentChild, FiniteSetTheorems, TLAPS

Writing == {"lock", "guard", "commit"}

\* A live link is between two members of the clan and was read with a version.
LiveLinks ==
    \A l \in Links :
        /\ links[l].state = "live" =>
             links[l].parent \in Persons /\ links[l].child \in Persons
        /\ links[l].state # "live" => links[l].version = 0

\* What a request knows of the link it writes.
JobKnows(r) ==
    /\ pc[r] \in {"validate", "find"} \cup Writing =>
         job[r].parent \in Persons /\ job[r].child \in Persons
    /\ pc[r] = "find" => job[r].id # NoLink
    /\ pc[r] \in {"validate", "find"} \cup Writing /\ job[r].id # NoLink =>
         /\ job[r].expected >= 1
         /\ links[job[r].id].state = "live" =>
              /\ links[job[r].id].parent = job[r].parent
              /\ links[job[r].id].child = job[r].child
    /\ pc[r] # "idle" /\ job[r].id # NoLink => links[job[r].id].state # "unused"
    /\ pc[r] \in Writing /\ job[r].id # NoLink => links[job[r].id].state = "live"
    /\ pc[r] = "delete" => job[r].id # NoLink

JobsKnow == \A r \in Requests : JobKnows(r)

\* One writer for each row, and one in the clan past its lock.
LocksExclude ==
    \A r, s \in Requests : r # s =>
        /\ ~(pc[r] \in {"guard", "commit"} /\ pc[s] \in {"guard", "commit"})
        /\ pc[r] \in Writing /\ pc[s] \in Writing /\ job[r].id # NoLink => job[r].id # job[s].id

\* What the guard found holds until the COMMIT.
GuardHolds == \A r \in Requests : pc[r] = "commit" => Sound(r)

IInv ==
    /\ TypeOK
    /\ LiveLinks
    /\ JobsKnow
    /\ LocksExclude
    /\ GuardHolds
    /\ Acyclic
    /\ BioParentsBounded
    /\ LinkedOnce

-----------------------------------------------------------------------------
(* Ancestors *)

LEMMA ParentsType ==
    ASSUME LiveLinks, NEW p
    PROVE  Parents(p) \subseteq Persons
BY DEF LiveLinks, Parents, Live

\* The ancestors of p are a set with his parents and theirs, and the least one.
LEMMA AncestorsClosed ==
    ASSUME LiveLinks, NEW p \in Persons
    PROVE  /\ Ancestors(p) \subseteq Persons
           /\ Parents(p) \subseteq Ancestors(p)
           /\ \A q \in Ancestors(p) : Parents(q) \subseteq Ancestors(p)
<1>1. Ancestors(p) \subseteq Persons
  BY DEF Ancestors
<1>2. ASSUME NEW a \in Parents(p) PROVE a \in Ancestors(p)
  BY ParentsType, <1>2 DEF Ancestors
<1>3. ASSUME NEW q \in Ancestors(p), NEW a \in Parents(q) PROVE a \in Ancestors(p)
  <2>1. q \in Persons /\ a \in Persons
    BY <1>1, ParentsType
  <2>2. ASSUME NEW S \in SUBSET Persons, Parents(p) \subseteq S,
               \A x \in S : Parents(x) \subseteq S
        PROVE  a \in S
    <3>1. q \in S
      BY <2>2, <1>3 DEF Ancestors
    <3> QED
      BY <2>2, <3>1
  <2> QED
    BY <2>1, <2>2 DEF Ancestors
<1> QED
  BY <1>1, <1>2, <1>3

LEMMA AncestorsLeast ==
    ASSUME NEW p \in Persons, NEW S \in SUBSET Persons, Parents(p) \subseteq S,
           \A x \in S : Parents(x) \subseteq S
    PROVE  Ancestors(p) \subseteq S
BY DEF Ancestors

LEMMA AncestorsTransitive ==
    ASSUME LiveLinks, NEW p \in Persons, NEW q \in Ancestors(p)
    PROVE  Ancestors(q) \subseteq Ancestors(p)
<1>1. /\ Ancestors(p) \in SUBSET Persons /\ q \in Persons
      /\ Parents(q) \subseteq Ancestors(p)
      /\ \A x \in Ancestors(p) : Parents(x) \subseteq Ancestors(p)
  BY AncestorsClosed
<1> QED
  BY <1>1, AncestorsLeast

\* The same graph or a smaller one has no new ancestors.
LEMMA FewerLinksFewerAncestors ==
    ASSUME LiveLinks, NEW p \in Persons,
           \A q \in Persons : Parents(q)' \subseteq Parents(q)
    PROVE  Ancestors(p)' \subseteq Ancestors(p)
<1>1. ASSUME NEW a \in Ancestors(p)' PROVE a \in Ancestors(p)
  <2>1. /\ Ancestors(p) \in SUBSET Persons
        /\ Parents(p)' \subseteq Ancestors(p)
        /\ \A x \in Ancestors(p) : Parents(x)' \subseteq Ancestors(p)
    BY AncestorsClosed
  <2>2. \A S \in SUBSET Persons :
          Parents(p)' \subseteq S /\ (\A q \in S : Parents(q)' \subseteq S) => a \in S
    BY <1>1 DEF Ancestors
  <2> QED
    BY <2>1, <2>2
<1> QED
  BY <1>1

\* A new parent a of c, who does not descend from c, closes no cycle.
LEMMA NewLinkClosesNoCycle ==
    ASSUME LiveLinks, Acyclic, NEW a \in Persons, NEW c \in Persons,
           a # c, c \notin Ancestors(a),
           \A q \in Persons \ {c} : Parents(q)' \subseteq Parents(q),
           Parents(c)' \subseteq Parents(c) \cup {a}
    PROVE  Acyclic'
<1> SUFFICES ASSUME NEW p \in Persons PROVE p \notin Ancestors(p)'
  BY DEF Acyclic
<1>0. p \notin Ancestors(p)
  BY DEF Acyclic
<1>1. ASSUME NEW S \in SUBSET Persons, Parents(p)' \subseteq S,
             \A q \in S : Parents(q)' \subseteq S, p \notin S
      PROVE  p \notin Ancestors(p)'
  BY <1>1 DEF Ancestors
<1> DEFINE up == Ancestors(p) \cup {a} \cup Ancestors(a)
<1>2. /\ Ancestors(p) \in SUBSET Persons /\ Ancestors(a) \in SUBSET Persons
      /\ Parents(p) \subseteq Ancestors(p) /\ Parents(a) \subseteq Ancestors(a)
      /\ \A q \in Ancestors(p) : Parents(q) \subseteq Ancestors(p)
      /\ \A q \in Ancestors(a) : Parents(q) \subseteq Ancestors(a)
  BY AncestorsClosed
<1>3. CASE p # c /\ c \notin Ancestors(p)
  BY <1>0, <1>1, <1>2, <1>3
<1>4. CASE p = c \/ c \in Ancestors(p)
  <2>1. p # a
    BY <1>4
  <2>2. p \notin Ancestors(a)
    BY <1>4, AncestorsTransitive
  <2>3. up \in SUBSET Persons /\ p \notin up
    BY <1>0, <1>2, <2>1, <2>2
  <2>4. Parents(p)' \subseteq up
    BY <1>2
  <2>5. ASSUME NEW q \in up PROVE Parents(q)' \subseteq up
    BY <1>2, <2>3
  <2> QED
    BY <1>1, <2>3, <2>4, <2>5
<1> QED
  BY <1>3, <1>4

-----------------------------------------------------------------------------
(* Steps that change no link *)

Quiet(r) ==
    \/ \E p, c \in Persons, t \in Types : BeginCreate(r, p, c, t)
    \/ \E l \in Live, t \in Types : \E v \in 1..links[l].version : BeginPatch(r, l, t, v)
    \/ \E l \in Live : BeginDelete(r, l)
    \/ Validate(r) \/ Find(r) \/ Lock(r) \/ Guard(r) \/ Abort(r)

LEMMA NoJobType == NoJob \in Job
BY ParentChildAssumption DEF NoJob, Job

LEMMA EndType ==
    ASSUME TypeOK, NEW r \in Requests, End(r)
    PROVE  /\ pc' \in [Requests -> {"idle", "validate", "find", "lock", "guard", "commit",
                                    "delete"}]
           /\ job' \in [Requests -> Job]
           /\ pc'[r] = "idle" /\ job'[r] = NoJob
           /\ \A s \in Requests \ {r} : pc'[s] = pc[s] /\ job'[s] = job[s]
BY NoJobType DEF End, Goto, TypeOK

\* A quiet step touches one request, keeps the types, and leaves it with what
\* it must know and with locks that were free.
LEMMA QuietEffect ==
    ASSUME IInv, NEW r \in Requests, Quiet(r)
    PROVE  /\ links' = links
           /\ TypeOK'
           /\ \A s \in Requests \ {r} : pc'[s] = pc[s] /\ job'[s] = job[s]
           /\ JobKnows(r)'
           /\ pc'[r] \in {"guard", "commit"} => ClanFree(r)
           /\ pc'[r] \in Writing /\ job'[r].id # NoLink => RowFree(r, job'[r].id)
           /\ pc'[r] = "commit" => Sound(r) /\ job'[r] = job[r]
<1> USE DEF IInv, TypeOK, Goto, Writing
<1>0. JobKnows(r)
  BY DEF JobsKnow
<1>a. pc[r] \in {"guard", "commit"} => ClanFree(r)
  BY DEF LocksExclude, ClanFree
<1>b. pc[r] \in Writing /\ job[r].id # NoLink => RowFree(r, job[r].id)
  BY DEF LocksExclude, RowFree
<1>1. CASE \E p, c \in Persons, t \in Types : BeginCreate(r, p, c, t)
  <2> PICK p \in Persons, c \in Persons, t \in Types : BeginCreate(r, p, c, t)
    BY <1>1
  <2> DEFINE j == [id |-> NoLink, parent |-> p, child |-> c, type |-> t, expected |-> 0]
  <2>1. j \in Job
    BY DEF Job
  <2>2. /\ links' = links /\ pc' = [pc EXCEPT ![r] = "validate"]
        /\ job' = [job EXCEPT ![r] = j]
    BY DEF BeginCreate, Start
  <2> QED
    BY <2>1, <2>2 DEF JobKnows
<1>2. CASE \E l \in Live, t \in Types : \E v \in 1..links[l].version : BeginPatch(r, l, t, v)
  <2> PICK l \in Live, t \in Types : \E v \in 1..links[l].version : BeginPatch(r, l, t, v)
    BY <1>2
  <2> PICK v \in 1..links[l].version : BeginPatch(r, l, t, v)
    OBVIOUS
  <2> DEFINE j == [id |-> l, parent |-> links[l].parent, child |-> links[l].child,
                   type |-> t, expected |-> v]
             at == IF t = links[l].type THEN "find" ELSE "validate"
  <2>1. /\ l \in Links /\ links[l] \in Link /\ links[l].state = "live"
        /\ links[l].parent \in Persons /\ links[l].child \in Persons
        /\ v \in Nat /\ v >= 1
    BY DEF Live, LiveLinks, Link
  <2>2. j \in Job
    BY <2>1 DEF Job
  <2>3. links' = links /\ pc' = [pc EXCEPT ![r] = at] /\ job' = [job EXCEPT ![r] = j]
    BY DEF BeginPatch, Start
  <2> QED
    BY <2>1, <2>2, <2>3, ParentChildAssumption DEF JobKnows
<1>3. CASE \E l \in Live : BeginDelete(r, l)
  <2> PICK l \in Live : BeginDelete(r, l)
    BY <1>3
  <2>1. l \in Links /\ links[l].state = "live"
    BY DEF Live
  <2>2. [NoJob EXCEPT !.id = l] \in Job /\ [NoJob EXCEPT !.id = l].id = l
    BY <2>1, NoJobType DEF Job
  <2>3. /\ links' = links /\ pc' = [pc EXCEPT ![r] = "delete"]
        /\ job' = [job EXCEPT ![r] = [NoJob EXCEPT !.id = l]]
    BY DEF BeginDelete, Start
  <2> QED
    BY <2>1, <2>2, <2>3, ParentChildAssumption DEF JobKnows
<1>4. CASE Validate(r)
  BY <1>0, <1>4 DEF Validate, JobKnows
<1>5. CASE Find(r)
  <2>1. job[r].id \in Links /\ links[job[r].id].state = "live"
    BY <1>0, <1>5 DEF Find, JobKnows, LiveLinks, Job
  <2> QED
    BY <1>0, <1>5, <2>1 DEF Find, JobKnows
<1>6. CASE Lock(r)
  BY <1>0, <1>b, <1>6 DEF Lock, JobKnows
<1>7. CASE Guard(r)
  BY <1>0, <1>a, <1>b, <1>7 DEF Guard, JobKnows
<1>8. CASE Abort(r)
  <2>1. pc'[r] = "idle"
    BY <1>8, EndType DEF Abort
  <2> QED
    BY <1>8, <2>1, EndType DEF Abort, JobKnows, NoJob
<1> QED
  BY <1>1, <1>2, <1>3, <1>4, <1>5, <1>6, <1>7, <1>8 DEF Quiet

LEMMA QuietKeeps ==
    ASSUME IInv, NEW r \in Requests, Quiet(r)
    PROVE  IInv'
<1> USE QuietEffect DEF IInv
<1>1. TypeOK' /\ LiveLinks'
  BY DEF LiveLinks
<1>2. \A p : Parents(p)' = Parents(p)
  BY DEF Parents, Live
<1>3. \A p : Ancestors(p)' = Ancestors(p)
  BY <1>2 DEF Ancestors
<1>b. \A p, x : BioLinks(p, x)' = BioLinks(p, x)
  BY DEF BioLinks, Live
<1>4. Acyclic' /\ BioParentsBounded' /\ LinkedOnce'
  <2>1. Acyclic'
    BY <1>3 DEF Acyclic
  <2>2. BioParentsBounded'
    BY <1>b DEF BioParentsBounded
  <2>3. LinkedOnce'
    <3>1. Live' = Live /\ links' = links
      BY DEF Live
    <3> QED
      BY <3>1 DEF LinkedOnce
  <2> QED
    BY <2>1, <2>2, <2>3
<1>5. JobsKnow'
  <2>1. ASSUME NEW s \in Requests, s # r PROVE JobKnows(s)'
    BY <2>1 DEF JobsKnow, JobKnows
  <2> QED
    BY <2>1 DEF JobsKnow
<1>6. LocksExclude'
  BY DEF LocksExclude, ClanFree, RowFree, Writing
<1>7. GuardHolds'
  <2>1. ASSUME NEW s \in Requests, pc'[s] = "commit" PROVE Sound(s)'
    <3>1. Sound(s) /\ job'[s] = job[s]
      BY <2>1 DEF GuardHolds
    <3>2. BioLinks(job[s].child, job[s].id)' = BioLinks(job[s].child, job[s].id)
      BY <3>1 DEF BioLinks, Live
    <3>3. Ancestors(job[s].parent)' = Ancestors(job[s].parent)
      BY <1>2, <3>1 DEF Ancestors
    <3> QED
      BY <3>1, <3>2, <3>3 DEF Sound
  <2> QED
    BY <2>1 DEF GuardHolds
<1> QED
  BY <1>1, <1>4, <1>5, <1>6, <1>7

-----------------------------------------------------------------------------
(* Steps that write link l *)

\* The requests that do not write keep what they know, when the one that
\* writes held the row, or nobody did.
LEMMA WriteKeepsJobs ==
    ASSUME IInv, NEW r \in Requests, End(r), NEW l \in Links, NEW row \in Link,
           links' = [links EXCEPT ![l] = row],
           links[l].state = "unused" \/ RowFree(r, l),
           row.state # "unused",
           row.state = "live" /\ links[l].state # "unused" =>
             row.parent = links[l].parent /\ row.child = links[l].child /\ links[l].state = "live"
    PROVE  TypeOK' /\ JobsKnow' /\ LocksExclude'
<1> USE EndType DEF IInv
<1>1. TypeOK'
  BY DEF TypeOK
<1>2. LocksExclude'
  BY DEF LocksExclude, Writing
<1>3. ASSUME NEW s \in Requests PROVE JobKnows(s)'
  <2>1. CASE s = r
    BY <2>1 DEF JobKnows, NoJob, Writing
  <2>2. CASE s # r
    <3>1. JobKnows(s) /\ job'[s] = job[s] /\ pc'[s] = pc[s]
      BY <2>2 DEF JobsKnow
    <3>2. CASE job[s].id = l
      BY <2>2, <3>1, <3>2 DEF JobKnows, TypeOK, RowFree, Writing
    <3>3. CASE job[s].id # l
      <4>1. job[s].id \in Links => links'[job[s].id] = links[job[s].id]
        BY <3>3 DEF TypeOK
      <4>2. job[s].id \in Links \cup {NoLink}
        BY DEF TypeOK, Job
      <4> QED
        BY <3>1, <4>1, <4>2 DEF JobKnows
    <3> QED
      BY <3>2, <3>3
  <2> QED
    BY <2>1, <2>2
<1> QED
  BY <1>1, <1>2, <1>3 DEF JobsKnow

\* A live row for what the guard of r has found sound.
WritesLive(r, l) ==
    /\ links' = [links EXCEPT ![l] = [state |-> "live", parent |-> job[r].parent,
         child |-> job[r].child, type |-> job[r].type,
         version |-> IF job[r].id = NoLink THEN 1 ELSE job[r].expected + 1]]
    /\ \/ job[r].id = NoLink /\ links[l].state = "unused"
          /\ ~Linked(job[r].parent, job[r].child)
       \/ job[r].id = l /\ l # NoLink

LEMMA CommitWritesLive ==
    ASSUME IInv, NEW r \in Requests, CommitCreate(r) \/ CommitPatch(r)
    PROVE  End(r) /\ pc[r] = "commit" /\ \E l \in Links : WritesLive(r, l)
<1>1. CASE CommitCreate(r)
  BY <1>1 DEF CommitCreate, WritesLive
<1>2. CASE CommitPatch(r)
  <2>1. job[r].id \in Links
    BY <1>2 DEF CommitPatch, IInv, TypeOK, Job
  <2> QED
    BY <1>2, <2>1, ParentChildAssumption DEF CommitPatch, WritesLive
<1> QED
  BY <1>1, <1>2

LEMMA CommitKeeps ==
    ASSUME IInv, NEW r \in Requests, End(r), pc[r] = "commit",
           NEW l \in Links, WritesLive(r, l)
    PROVE  IInv'
<1> USE DEF IInv
<1>0. /\ job[r].parent \in Persons /\ job[r].child \in Persons
      /\ job[r].type \in Types /\ job[r].expected \in Nat
  BY DEF JobsKnow, JobKnows, Writing, TypeOK, Job
<1> PICK a \in Persons, c \in Persons, t \in Types, v \in Nat :
      /\ a = job[r].parent /\ c = job[r].child /\ t = job[r].type
      /\ v = IF job[r].id = NoLink THEN 1 ELSE job[r].expected + 1
  BY <1>0
<1> DEFINE row == [state |-> "live", parent |-> a, child |-> c, type |-> t, version |-> v]
<1>1. /\ job[r].id = l => /\ links[l].state = "live"
                         /\ links[l].parent = a /\ links[l].child = c
  BY ParentChildAssumption DEF JobsKnow, JobKnows, Writing, TypeOK, Job
<1>2. row \in Link /\ links' = [links EXCEPT ![l] = row]
  BY <1>1 DEF Link, WritesLive
<1>3. Sound(r)
  BY DEF GuardHolds
<1>4. links[l].state = "unused" \/ RowFree(r, l)
  BY ParentChildAssumption DEF WritesLive, LocksExclude, RowFree, Writing
<1>5. TypeOK' /\ JobsKnow' /\ LocksExclude'
  <2>1. row.state = "live" /\ row.parent = a /\ row.child = c
    OBVIOUS
  <2>2. links[l].state # "unused" => job[r].id = l
    BY DEF WritesLive
  <2>3. row.state = "live" /\ links[l].state # "unused" =>
          /\ row.parent = links[l].parent /\ row.child = links[l].child
          /\ links[l].state = "live"
    BY <1>1, <2>1, <2>2
  <2> HIDE DEF row
  <2> QED
    BY <1>2, <1>4, <2>1, <2>3, WriteKeepsJobs
<1>6. LiveLinks'
  BY <1>1, <1>2 DEF LiveLinks, TypeOK
<1>7. Acyclic'
  <2>1. \A k \in Links \ {l} : links'[k] = links[k]
    BY <1>2 DEF TypeOK
  <2>2. links'[l] = row
    BY <1>2 DEF TypeOK
  <2>3. \A q \in Persons \ {c} : Parents(q)' \subseteq Parents(q)
    BY <2>1, <2>2 DEF Parents, Live
  <2>4. Parents(c)' \subseteq Parents(c) \cup {a}
    BY <2>1, <2>2 DEF Parents, Live
  <2> QED
    BY <1>1, <1>3, <2>3, <2>4, NewLinkClosesNoCycle DEF Sound
<1>8. BioParentsBounded'
  <2> SUFFICES ASSUME NEW p \in Persons
               PROVE  Cardinality(BioLinks(p, NoLink)') <= MaxBioParents
    BY DEF BioParentsBounded
  <2>1. /\ \A k \in Links \ {l} : links'[k] = links[k]
        /\ links'[l] = row
    BY <1>2 DEF TypeOK
  <2>2. IsFiniteSet(Live) /\ IsFiniteSet(BioLinks(p, NoLink)) /\ IsFiniteSet(BioLinks(p, job[r].id))
    <3>1. Live \subseteq Links
      BY DEF Live
    <3>2. BioLinks(p, NoLink) \subseteq Links /\ BioLinks(p, job[r].id) \subseteq Links
      BY DEF BioLinks, Live
    <3> QED
      BY <3>1, <3>2, FS_Subset, ParentChildAssumption
  <2>3. CASE p = c /\ t = "biological"
    <3>1. BioLinks(p, NoLink)' = BioLinks(p, job[r].id) \cup {l}
      BY <2>1, <2>3, ParentChildAssumption DEF BioLinks, Live, WritesLive
    <3>2. l \notin BioLinks(p, job[r].id)
      BY DEF BioLinks, Live, WritesLive
    <3>3. Cardinality(BioLinks(p, job[r].id) \cup {l}) = Cardinality(BioLinks(p, job[r].id)) + 1
      BY <2>2, <3>2, FS_AddElement
    <3> QED
      BY <1>3, <2>3, <3>1, <3>3 DEF Sound
  <2>4. CASE ~(p = c /\ t = "biological")
    <3>1. BioLinks(p, NoLink)' \subseteq BioLinks(p, NoLink)
      BY <2>1, <2>4 DEF BioLinks, Live
    <3>2. Cardinality(BioLinks(p, NoLink)') <= Cardinality(BioLinks(p, NoLink))
      BY <2>2, <3>1, FS_Subset
    <3>3. IsFiniteSet(BioLinks(p, NoLink)')
      BY <2>2, <3>1, FS_Subset
    <3> QED
      BY <2>2, <3>2, <3>3, FS_CardinalityType, ParentChildAssumption DEF BioParentsBounded
  <2> QED
    BY <2>3, <2>4
<1>9. LinkedOnce'
  <2>1. /\ \A k \in Links \ {l} : links'[k] = links[k]
        /\ links'[l] = row
    BY <1>2 DEF TypeOK
  <2>2. ASSUME NEW k \in Live \ {l} PROVE {links[k].parent, links[k].child} # {a, c}
    <3>1. CASE job[r].id = l
      <4>1. l \in Live
        BY <1>1, <3>1 DEF Live
      <4> QED
        BY <1>1, <3>1, <4>1 DEF LinkedOnce
    <3>2. CASE job[r].id = NoLink
      <4>1. ~(links[k].parent = a /\ links[k].child = c)
        BY <3>2, ParentChildAssumption DEF WritesLive, Linked
      <4>2. ~(links[k].parent = c /\ links[k].child = a)
        <5>1. c \notin Parents(a)
          BY <1>1, <1>3, AncestorsClosed DEF Sound
        <5> QED
          BY <5>1 DEF Parents
      <4> QED
        BY <4>1, <4>2
    <3> QED
      BY <3>1, <3>2 DEF WritesLive
  <2>3. \A k \in Live' : k = l \/ (k \in Live \ {l} /\ links'[k] = links[k])
    BY <2>1 DEF Live
  <2> SUFFICES ASSUME NEW k \in Live', NEW m \in Live',
                      {links'[k].parent, links'[k].child} = {links'[m].parent, links'[m].child}
               PROVE  k = m
    BY DEF LinkedOnce
  <2>4. CASE k = l \/ m = l
    <3>1. {links'[l].parent, links'[l].child} = {a, c}
      BY <2>1
    <3>2. ASSUME NEW x \in Live', x # l
          PROVE  {links'[x].parent, links'[x].child} # {a, c}
      <4>1. x \in Live \ {l} /\ links'[x] = links[x]
        BY <2>3, <3>2
      <4> QED
        BY <2>2, <4>1
    <3> QED
      BY <2>4, <3>1, <3>2
  <2>5. CASE k # l /\ m # l
    BY <2>3, <2>5 DEF LinkedOnce
  <2> QED
    BY <2>4, <2>5
<1>10. GuardHolds'
  BY EndType DEF GuardHolds, LocksExclude
<1> QED
  BY <1>5, <1>6, <1>7, <1>8, <1>9, <1>10

LEMMA BlankType ==
    ASSUME NEW state \in {"unused", "live", "deleted"}
    PROVE  Blank(state) \in Link
BY ParentChildAssumption DEF Blank, Link

LEMMA DeleteKeeps ==
    ASSUME IInv, NEW r \in Requests, Delete(r)
    PROVE  IInv'
<1> USE DEF IInv
<1> PICK l \in Links : l = job[r].id
  BY DEF Delete, JobsKnow, JobKnows, TypeOK, Job
<1>1. /\ End(r) /\ RowFree(r, l) /\ links' = [links EXCEPT ![l] = Blank("deleted")]
      /\ Blank("deleted") \in Link /\ Blank("deleted").state = "deleted"
      /\ Blank("deleted").version = 0
  BY BlankType DEF Delete, Blank
<1>2. TypeOK' /\ JobsKnow' /\ LocksExclude'
  BY <1>1, WriteKeepsJobs
<1>3. /\ \A k \in Links \ {l} : links'[k] = links[k]
      /\ links'[l].state = "deleted" /\ links'[l].version = 0
  BY <1>1 DEF TypeOK
<1>4. LiveLinks'
  BY <1>3 DEF LiveLinks
<1>5. Live' \subseteq Live /\ \A k \in Live' : links'[k] = links[k]
  BY <1>3 DEF Live
<1>6. \A p \in Persons : Ancestors(p)' \subseteq Ancestors(p)
  <2>1. \A q \in Persons : Parents(q)' \subseteq Parents(q)
    BY <1>5 DEF Parents
  <2> QED
    BY <2>1, FewerLinksFewerAncestors
<1>7. ASSUME NEW p, NEW x
      PROVE  /\ Cardinality(BioLinks(p, x)') <= Cardinality(BioLinks(p, x))
             /\ Cardinality(BioLinks(p, x)') \in Nat /\ Cardinality(BioLinks(p, x)) \in Nat
  <2>1. BioLinks(p, x)' \subseteq BioLinks(p, x) /\ BioLinks(p, x) \subseteq Links
    BY <1>5 DEF BioLinks, Live
  <2>2. IsFiniteSet(BioLinks(p, x)) /\ IsFiniteSet(BioLinks(p, x)')
    BY <2>1, FS_Subset, ParentChildAssumption
  <2> QED
    BY <2>1, <2>2, FS_Subset, FS_CardinalityType
<1>8. Acyclic' /\ BioParentsBounded' /\ LinkedOnce'
  <2>1. Acyclic'
    BY <1>6 DEF Acyclic
  <2>2. BioParentsBounded'
    BY <1>7, ParentChildAssumption DEF BioParentsBounded
  <2>3. LinkedOnce'
    BY <1>5 DEF LinkedOnce
  <2> QED
    BY <2>1, <2>2, <2>3
<1>9. GuardHolds'
  <2>1. ASSUME NEW s \in Requests, pc'[s] = "commit" PROVE Sound(s)'
    <3>1. s # r /\ pc[s] = "commit" /\ job'[s] = job[s]
      BY <1>1, <2>1, EndType
    <3>2. /\ Sound(s) /\ job[s].parent \in Persons /\ job[s].child \in Persons
          /\ job[s].id \in Links \cup {NoLink}
      BY <3>1 DEF GuardHolds, JobsKnow, JobKnows, Writing, TypeOK, Job
    <3> PICK c \in Persons, p \in Persons, i \in Links \cup {NoLink} :
          c = job[s].child /\ i = job[s].id /\ p = job[s].parent
      BY <3>2
    <3>3. /\ Cardinality(BioLinks(c, i)') <= Cardinality(BioLinks(c, i))
          /\ Cardinality(BioLinks(c, i)') \in Nat /\ Cardinality(BioLinks(c, i)) \in Nat
      BY <1>7
    <3>4. BioLinks(job[s].child, job[s].id)' = BioLinks(c, i)'
      BY <3>1
    <3>5. Ancestors(job[s].parent)' = Ancestors(p)'
      BY <3>1
    <3> QED
      BY <1>6, <3>1, <3>2, <3>3, <3>4, <3>5, ParentChildAssumption DEF Sound
  <2> QED
    BY <2>1 DEF GuardHolds
<1> QED
  BY <1>2, <1>4, <1>8, <1>9

-----------------------------------------------------------------------------

LEMMA InitInv == Init => IInv
<1> SUFFICES ASSUME Init PROVE IInv
  OBVIOUS
<1> USE DEF Init
<1>1. TypeOK
  BY BlankType, NoJobType DEF TypeOK
<1>2. Live = {} /\ LiveLinks
  BY DEF Live, LiveLinks, Blank
<1>3. JobsKnow /\ LocksExclude /\ GuardHolds
  BY DEF JobsKnow, JobKnows, LocksExclude, GuardHolds, Writing
<1>4. ASSUME NEW p \in Persons PROVE p \notin Ancestors(p)
  <2>1. Parents(p) \subseteq {} /\ {} \in SUBSET Persons
    BY <1>2 DEF Parents
  <2> QED
    BY <2>1 DEF Ancestors
<1>5. ASSUME NEW p \in Persons PROVE Cardinality(BioLinks(p, NoLink)) <= MaxBioParents
  <2>1. BioLinks(p, NoLink) = {}
    BY <1>2 DEF BioLinks
  <2> QED
    BY <2>1, FS_EmptySet, ParentChildAssumption
<1>6. LinkedOnce
  BY <1>2 DEF LinkedOnce
<1> QED
  BY <1>1, <1>2, <1>3, <1>4, <1>5, <1>6 DEF IInv, Acyclic, BioParentsBounded

LEMMA StepCases ==
    ASSUME Next
    PROVE  \E r \in Requests : Quiet(r) \/ CommitCreate(r) \/ CommitPatch(r) \/ Delete(r)
BY DEF Next, Quiet

LEMMA StutterKeeps == ASSUME IInv, UNCHANGED vars PROVE IInv'
<1> USE DEF IInv, vars
<1>1. TypeOK' /\ LiveLinks' /\ JobsKnow' /\ LocksExclude'
  BY DEF TypeOK, LiveLinks, JobsKnow, JobKnows, LocksExclude
<1>2. Live' = Live
  BY DEF Live
<1>3. (\A p : Ancestors(p)' = Ancestors(p)) /\ \A p, x : BioLinks(p, x)' = BioLinks(p, x)
  <2>1. \A p : Parents(p)' = Parents(p)
    BY <1>2 DEF Parents
  <2> QED
    BY <1>2, <2>1 DEF Ancestors, BioLinks
<1>4. Acyclic' /\ BioParentsBounded' /\ LinkedOnce'
  <2>1. Acyclic' /\ BioParentsBounded'
    BY <1>3 DEF Acyclic, BioParentsBounded
  <2>2. LinkedOnce'
    BY <1>2 DEF LinkedOnce
  <2> QED
    BY <2>1, <2>2
<1>5. GuardHolds'
  <2>1. ASSUME NEW s \in Requests, pc'[s] = "commit" PROVE Sound(s)'
    <3>1. Sound(s) /\ job' = job
      BY <2>1 DEF GuardHolds
    <3>2. BioLinks(job[s].child, job[s].id)' = BioLinks(job[s].child, job[s].id)
      BY <1>2 DEF BioLinks
    <3>3. Ancestors(job[s].parent)' = Ancestors(job[s].parent)
      BY <1>3, <3>1
    <3> QED
      BY <3>1, <3>2, <3>3 DEF Sound
  <2> QED
    BY <2>1 DEF GuardHolds
<1> QED
  BY <1>1, <1>4, <1>5

\* The invariant of the theorems below: rows and clan are locked by one writer,
\* and what its guard has found is still so when it commits.
THEOREM Inductive == Spec => []IInv
<1>1. IInv /\ [Next]_vars => IInv'
  BY QuietKeeps, CommitWritesLive, CommitKeeps, DeleteKeeps, StutterKeeps, StepCases
<1> QED
  BY <1>1, InitInv, PTL DEF Spec

\* Links and requests keep their types.
THEOREM LinkTypes == Spec => []TypeOK
BY Inductive, PTL DEF IInv

\* The lock of the clan and the trigger make every graph that is committed
\* acyclic, whoever adds links at once.
THEOREM NobodyIsHisAncestor == Spec => []Acyclic
BY Inductive, PTL DEF IInv

\* No child gets more than the biological parents allowed.
THEOREM BioParentsAreBounded == Spec => []BioParentsBounded
BY Inductive, PTL DEF IInv

\* Two people are linked at most once, in one direction.
THEOREM OneLinkForTwo == Spec => []LinkedOnce
BY Inductive, PTL DEF IInv

\* No PATCH revives a link or moves it to other people.
THEOREM DeletedForGood == Spec => DeletedStaysDeleted
<1> DEFINE P == \A l \in Links :
         /\ links[l].state = "deleted" => links'[l].state = "deleted"
         /\ links[l].state = "live" /\ links'[l].state = "live" =>
              /\ links'[l].parent = links[l].parent
              /\ links'[l].child = links[l].child
<1>1. IInv /\ [Next]_vars => [P]_vars
  <2> SUFFICES ASSUME IInv, [Next]_vars PROVE P
    OBVIOUS
  <2> USE DEF IInv
  <2>1. ASSUME NEW r \in Requests, Quiet(r) PROVE P
    BY <2>1, QuietEffect
  <2>2. ASSUME NEW r \in Requests, Delete(r) PROVE P
    BY <2>2 DEF Delete, Blank, TypeOK
  <2>3. ASSUME NEW r \in Requests, CommitCreate(r) \/ CommitPatch(r) PROVE P
    <3>1. PICK l \in Links : WritesLive(r, l)
      BY <2>3, CommitWritesLive
    <3>2. pc[r] = "commit"
      BY <2>3, CommitWritesLive
    <3>3. job[r].id = l => /\ links[l].state = "live"
                           /\ links[l].parent = job[r].parent
                           /\ links[l].child = job[r].child
      BY <3>2, ParentChildAssumption DEF JobsKnow, JobKnows, Writing
    <3> QED
      BY <3>1, <3>3 DEF WritesLive, TypeOK
  <2>4. CASE UNCHANGED vars
    BY <2>4 DEF vars
  <2> QED
    BY <2>1, <2>2, <2>3, <2>4, StepCases
<1> QED
  BY <1>1, Inductive, PTL DEF Spec, DeletedStaysDeleted
-----------------------------------------------------------------------------
(* Racing editors implement the editor of FamilyGraph *)

Edge(l) == [parent |-> links[l].parent, child |-> links[l].child, type |-> links[l].type]

\* The walk meets the same people in both graphs.
LEMMA SameAncestors ==
    ASSUME NEW p
    PROVE  Graph!Parents(p) = Parents(p) /\ Graph!Ancestors(p) = Ancestors(p)
<1>1. ASSUME NEW q PROVE Graph!Parents(q) = Parents(q)
  <2>1. LiveEdges = {Edge(l) : l \in Live}
    BY DEF LiveEdges, Edge
  <2>2. \A l : Edge(l).parent = links[l].parent /\ Edge(l).child = links[l].child
    BY DEF Edge
  <2> QED
    BY <2>1, <2>2 DEF Graph!Parents, Parents
<1>2. Graph!Ancestors(p) = Ancestors(p)
  BY <1>1 DEF Graph!Ancestors, Ancestors
<1> QED
  BY <1>1, <1>2

LEMMA SameCardinality == \A S : Graph!Cardinality(S) = Cardinality(S)
BY DEF Graph!Cardinality, Cardinality

\* What the guard counts leaves room for the parent it lets in.
LEMMA GuardLeavesRoom ==
    ASSUME TypeOK, NEW p, NEW c, NEW t, NEW i,
           t = "biological" => Cardinality(BioLinks(c, i)) + 1 <= MaxBioParents,
           i \in Live => links[i].parent = p
    PROVE  Graph!Room(p, c, t)
<1> SUFFICES ASSUME t = "biological" PROVE Cardinality(Graph!BioParents(c) \ {p}) < MaxBioParents
  BY SameCardinality DEF Graph!Room
<1> DEFINE S == BioLinks(c, i)
           T == {links[l].parent : l \in S}
           f == [l \in S |-> links[l].parent]
<1>1. IsFiniteSet(S)
  <2>1. S \subseteq Links
    BY DEF BioLinks, Live
  <2> QED
    BY <2>1, FS_Subset, ParentChildAssumption
<1>2. f \in Surjection(S, T)
  BY DEF Surjection
<1>3. IsFiniteSet(T) /\ Cardinality(T) <= Cardinality(S)
  <2> HIDE DEF S, T, f
  <2> QED
    BY <1>1, <1>2, FS_Surjection
<1>4. Graph!BioParents(c) \ {p} \in SUBSET T
  <2> SUFFICES ASSUME NEW q \in Graph!BioParents(c), q # p PROVE q \in T
    OBVIOUS
  <2>1. PICK l \in Live : /\ links[l].parent = q /\ links[l].child = c
                          /\ links[l].type = "biological"
    BY DEF Graph!BioParents, LiveEdges
  <2>2. l \in S
    BY <2>1 DEF BioLinks
  <2> QED
    BY <2>1, <2>2
<1>5. /\ Cardinality(Graph!BioParents(c) \ {p}) <= Cardinality(T)
      /\ IsFiniteSet(Graph!BioParents(c) \ {p})
  BY <1>3, <1>4, FS_Subset
<1>6. /\ Cardinality(Graph!BioParents(c) \ {p}) \in Nat
      /\ Cardinality(T) \in Nat /\ Cardinality(S) \in Nat
  BY <1>1, <1>3, <1>5, FS_CardinalityType
<1> QED
  BY <1>3, <1>5, <1>6, ParentChildAssumption

\* The COMMIT of a new link adds an edge, that of a PATCH changes its type.
LEMMA CommitEdits ==
    ASSUME IInv, NEW r \in Requests, pc[r] = "commit", NEW l \in Links, WritesLive(r, l)
    PROVE  Graph!Next
<1> USE DEF IInv
<1>1. /\ job[r].parent \in Persons /\ job[r].child \in Persons /\ job[r].type \in Types
      /\ Sound(r)
  BY DEF JobsKnow, JobKnows, Writing, GuardHolds, TypeOK, Job
<1> PICK a \in Persons, c \in Persons, t \in Types :
      a = job[r].parent /\ c = job[r].child /\ t = job[r].type
  BY <1>1
<1>2. /\ a # c /\ c \notin Ancestors(a)
      /\ t = "biological" => Cardinality(BioLinks(c, job[r].id)) + 1 <= MaxBioParents
  BY <1>1 DEF Sound
<1>3. /\ \A k \in Links \ {l} : links'[k] = links[k]
      /\ links'[l].state = "live" /\ links'[l].parent = a
      /\ links'[l].child = c /\ links'[l].type = t
  BY DEF WritesLive, TypeOK
<1>4. Live' = Live \cup {l} /\ \A k \in Live \ {l} : links'[k] = links[k]
  BY <1>3 DEF Live
<1> DEFINE new == [parent |-> a, child |-> c, type |-> t]
<1>5. LiveEdges' = {Edge(k) : k \in Live \ {l}} \cup {new}
  <2>1. LiveEdges' = {Edge(k)' : k \in Live'}
    BY DEF LiveEdges, Edge
  <2>2. Edge(l)' = new /\ \A k \in Live \ {l} : Edge(k)' = Edge(k)
    BY <1>3, <1>4 DEF Edge
  <2> QED
    BY <1>4, <2>1, <2>2
<1>6. LiveEdges = {Edge(k) : k \in Live}
  BY DEF LiveEdges, Edge
<1>7. CASE job[r].id = NoLink
  <2>1. l \notin Live /\ ~Linked(a, c)
    BY <1>7, ParentChildAssumption DEF WritesLive, Live
  <2>2. LiveEdges' = LiveEdges \cup {new}
    BY <1>5, <1>6, <2>1
  <2>3. a \notin Graph!Parents(c)
    BY <2>1, SameAncestors DEF Linked, Parents
  <2>4. Graph!Room(a, c, t)
    BY <1>2, <1>7, ParentChildAssumption, GuardLeavesRoom DEF Live
  <2>5. Graph!Add(a, c, t)
    BY <1>2, <2>2, <2>3, <2>4, SameAncestors DEF Graph!Add
  <2> QED
    BY <2>5 DEF Graph!Next
<1>8. CASE job[r].id = l /\ l # NoLink
  <2>1. l \in Live /\ links[l].parent = a /\ links[l].child = c
    BY <1>8 DEF JobsKnow, JobKnows, Writing, Live
  <2>2. Edge(l) \in LiveEdges /\ Edge(l).parent = a /\ Edge(l).child = c
    BY <1>6, <2>1 DEF Edge
  <2>3. [Edge(l) EXCEPT !.type = t] = new
    BY <2>1 DEF Edge
  <2>4. \A k \in Live \ {l} : Edge(k) # Edge(l)
    BY <2>1 DEF LinkedOnce, Edge
  <2>5. LiveEdges' = (LiveEdges \ {Edge(l)}) \cup {new}
    BY <1>5, <1>6, <2>1, <2>4
  <2>6. Graph!Room(a, c, t)
    BY <1>2, <1>8, <2>1, GuardLeavesRoom
  <2> HIDE DEF new
  <2>7. Graph!Retype(Edge(l), t)
    BY <2>2, <2>3, <2>5, <2>6 DEF Graph!Retype
  <2> QED
    BY <2>2, <2>7 DEF Graph!Next
<1> QED
  BY <1>7, <1>8 DEF WritesLive

\* A soft delete removes an edge, once.
LEMMA DeleteEdits ==
    ASSUME IInv, NEW r \in Requests, Delete(r)
    PROVE  Graph!Next \/ UNCHANGED LiveEdges
<1> USE DEF IInv
<1> PICK l \in Links : l = job[r].id
  BY DEF Delete, JobsKnow, JobKnows, TypeOK, Job
<1>1. /\ \A k \in Links \ {l} : links'[k] = links[k]
      /\ links'[l].state = "deleted"
  BY DEF Delete, Blank, TypeOK
<1>2. Live' = Live \ {l}
  BY <1>1 DEF Live
<1>3. LiveEdges' = {Edge(k) : k \in Live \ {l}}
  <2>1. LiveEdges' = {Edge(k)' : k \in Live \ {l}}
    BY <1>2 DEF LiveEdges, Edge
  <2>2. \A k \in Live \ {l} : Edge(k)' = Edge(k)
    BY <1>1 DEF Edge, Live
  <2> QED
    BY <2>1, <2>2
<1>4. LiveEdges = {Edge(k) : k \in Live}
  BY DEF LiveEdges, Edge
<1>5. CASE l \in Live
  <2>1. \A k \in Live \ {l} : Edge(k) # Edge(l)
    BY <1>5 DEF LinkedOnce, Edge
  <2>2. Edge(l) \in LiveEdges /\ LiveEdges' = LiveEdges \ {Edge(l)}
    BY <1>3, <1>4, <1>5, <2>1
  <2> QED
    BY <2>2 DEF Graph!Next, Graph!Remove
<1>6. CASE l \notin Live
  BY <1>3, <1>4, <1>6
<1> QED
  BY <1>5, <1>6

\* Whatever editors do at once, the committed links move from one graph that the
\* rules allow to the next by one edit that the rules allow.
THEOREM Refinement == Spec => ImplementsFamilyGraph
<1>1. Init => Graph!Init
  BY DEF Init, Graph!Init, LiveEdges, Live, Blank
<1>2. IInv /\ [Next]_vars => [Graph!Next]_LiveEdges
  <2> SUFFICES ASSUME IInv, [Next]_vars PROVE Graph!Next \/ UNCHANGED LiveEdges
    OBVIOUS
  <2>1. ASSUME NEW r \in Requests, Quiet(r) PROVE UNCHANGED LiveEdges
    <3>1. links' = links
      BY <2>1, QuietEffect
    <3> QED
      BY <3>1 DEF LiveEdges, Live
  <2>2. ASSUME NEW r \in Requests, CommitCreate(r) \/ CommitPatch(r) PROVE Graph!Next
    BY <2>2, CommitWritesLive, CommitEdits
  <2>3. ASSUME NEW r \in Requests, Delete(r) PROVE Graph!Next \/ UNCHANGED LiveEdges
    BY <2>3, DeleteEdits
  <2>4. CASE UNCHANGED vars
    BY <2>4 DEF vars, LiveEdges, Live
  <2> QED
    BY <2>1, <2>2, <2>3, <2>4, StepCases
<1> QED
  BY <1>1, <1>2, Inductive, PTL DEF Spec, ImplementsFamilyGraph, Graph!Spec

=============================================================================
