----------------------------- MODULE ParentChild -----------------------------
(***************************************************************************)
(* The parent-child links of one clan: create, update and delete of        *)
(* ParentChildCommandHandler against the two triggers and the unique index *)
(* of the parent_child table.                                              *)
(*                                                                         *)
(* The validator reads before the write and only spares the user an error  *)
(* of the database.  The write of a live link first takes the advisory     *)
(* lock of the clan (BEFORE trigger), then checks the graph it finds       *)
(* committed (AFTER trigger), and keeps the lock until the COMMIT.  A      *)
(* soft delete takes no clan lock.  The row an UPDATE has found stays      *)
(* locked until its transaction ends.                                      *)
(*                                                                         *)
(* Persons are the members of the clan; birth dates, and the rule on the   *)
(* age of a parent that reads them, are left out.                          *)
(***************************************************************************)
EXTENDS Integers, FiniteSets

CONSTANTS
    Persons,
    NoPerson,
    Links,         \* ids of links, used in this order
    NoLink,
    Types,         \* "biological" and any other type
    MaxBioParents, \* 2 in the code
    Requests,
    MaxVersion     \* bound on the PATCHes of one link

ASSUME ParentChildAssumption ==
    /\ IsFiniteSet(Links)
    /\ NoLink \notin Links
    /\ NoPerson \notin Persons
    /\ "biological" \in Types
    /\ MaxBioParents \in Nat
    /\ MaxVersion \in Nat

VARIABLES
    links,  \* parent_child by id
    pc,     \* the statement each request runs next
    job     \* the link it writes

vars == <<links, pc, job>>

-----------------------------------------------------------------------------
(* Types *)

Link == [state   : {"unused", "live", "deleted"},
         parent  : Persons \cup {NoPerson},
         child   : Persons \cup {NoPerson},
         type    : Types,
         version : Nat]

\* id is NoLink in a request that creates a link.
Job == [id       : Links \cup {NoLink},
        parent   : Persons \cup {NoPerson},
        child    : Persons \cup {NoPerson},
        type     : Types,
        expected : Nat]

TypeOK ==
    /\ links \in [Links -> Link]
    /\ pc \in [Requests -> {"idle", "validate", "find", "lock", "guard", "commit", "delete"}]
    /\ job \in [Requests -> Job]

\* A deleted link keeps nothing that is read again; its version is past every
\* version that was read of it.
Blank(state) == [state |-> state, parent |-> NoPerson, child |-> NoPerson,
                 type |-> "biological", version |-> 0]

NoJob == [id |-> NoLink, parent |-> NoPerson, child |-> NoPerson,
          type |-> "biological", expected |-> 0]

-----------------------------------------------------------------------------
(* The graph of live links *)

Live == {l \in Links : links[l].state = "live"}

Parents(p) == {links[l].parent : l \in {k \in Live : links[k].child = p}}

\* The walk up the live links of is_ancestor and of the trigger.
Ancestors(p) ==
    {a \in Persons :
        \A S \in SUBSET Persons :
            Parents(p) \subseteq S /\ (\A q \in S : Parents(q) \subseteq S) => a \in S}

\* count_bio_parents: what is excluded is the link that is written.
BioLinks(child, excluded) ==
    {l \in Live \ {excluded} : links[l].child = child /\ links[l].type = "biological"}

\* has_parent_child_link, and the unique index on live (parent, child).
Linked(parent, child) == \E l \in Live : links[l].parent = parent /\ links[l].child = child

-----------------------------------------------------------------------------
(* Locks *)

\* The row that the UPDATE of request r has found.
RowFree(r, l) ==
    \A s \in Requests \ {r} : ~(pc[s] \in {"lock", "guard", "commit"} /\ job[s].id = l)

\* Mutant of ClanFree: without the BEFORE trigger.
ClanFreeAlways(r) == r \in Requests

\* pg_advisory_xact_lock(728116, clan) of the BEFORE trigger.
ClanFree(r) == \A s \in Requests \ {r} : pc[s] \notin {"guard", "commit"}

-----------------------------------------------------------------------------
(* Requests *)

Init ==
    /\ links = [l \in Links |-> Blank("unused")]
    /\ pc = [r \in Requests |-> "idle"]
    /\ job = [r \in Requests |-> NoJob]

Goto(r, next) == pc' = [pc EXCEPT ![r] = next]

End(r) ==
    /\ Goto(r, "idle")
    /\ job' = [job EXCEPT ![r] = NoJob]

Start(r, statement, j) ==
    /\ pc[r] = "idle"
    /\ Goto(r, statement)
    /\ job' = [job EXCEPT ![r] = j]
    /\ UNCHANGED links

BeginCreate(r, parent, child, type) ==
    /\ ~Linked(parent, child)
    /\ Start(r, "validate", [id |-> NoLink, parent |-> parent, child |-> child,
                             type |-> type, expected |-> 0])

\* get_by_id; the client presents a version it has read.  Only a change of the
\* type is validated again.
BeginPatch(r, l, type, expected) ==
    /\ l \in Live
    /\ Start(r, IF type = links[l].type THEN "find" ELSE "validate",
             [id |-> l, parent |-> links[l].parent, child |-> links[l].child,
              type |-> type, expected |-> expected])

BeginDelete(r, l) ==
    /\ l \in Live
    /\ Start(r, "delete", [NoJob EXCEPT !.id = l])

\* validate_parent_child; parent and child of a link do not change, so a PATCH
\* makes no cycle.
Validate(r) ==
    /\ pc[r] = "validate"
    /\ job[r].parent # job[r].child
    /\ job[r].type = "biological" =>
         Cardinality(BioLinks(job[r].child, job[r].id)) < MaxBioParents
    /\ \/ job[r].id = NoLink /\ job[r].child \notin Ancestors(job[r].parent) /\ Goto(r, "lock")
       \/ job[r].id # NoLink /\ Goto(r, "find")
    /\ UNCHANGED <<links, job>>

\* UPDATE ... WHERE id AND version = expected.
Find(r) ==
    /\ pc[r] = "find"
    /\ RowFree(r, job[r].id)
    /\ links[job[r].id].version = job[r].expected
    /\ Goto(r, "lock")
    /\ UNCHANGED <<links, job>>

\* parent_child_clan_lock.
Lock(r) ==
    /\ pc[r] = "lock"
    /\ ClanFree(r)
    /\ Goto(r, "guard")
    /\ UNCHANGED <<links, job>>

\* Mutant of Sound: the AFTER trigger is on INSERT only.
SoundOnInsert(r) ==
    job[r].id = NoLink =>
      /\ job[r].parent # job[r].child
      /\ job[r].type = "biological" =>
           Cardinality(BioLinks(job[r].child, NoLink)) + 1 <= MaxBioParents
      /\ job[r].child \notin Ancestors(job[r].parent)

\* What parent_child_integrity_guard finds with the new row in the table.
Sound(r) ==
    /\ job[r].parent # job[r].child
    /\ job[r].type = "biological" =>
         Cardinality(BioLinks(job[r].child, job[r].id)) + 1 <= MaxBioParents
    /\ job[r].child \notin Ancestors(job[r].parent)

\* parent_child_integrity_guard.
Guard(r) ==
    /\ pc[r] = "guard"
    /\ Sound(r)
    /\ Goto(r, "commit")
    /\ UNCHANGED <<links, job>>

\* COMMIT of an INSERT that the unique index has let pass.
CommitCreate(r) ==
    /\ pc[r] = "commit"
    /\ job[r].id = NoLink
    /\ ~Linked(job[r].parent, job[r].child)
    /\ \E l \in Links :
         /\ links[l].state = "unused"
         /\ links' = [links EXCEPT ![l] = [state |-> "live", parent |-> job[r].parent,
              child |-> job[r].child, type |-> job[r].type, version |-> 1]]
    /\ End(r)

CommitPatch(r) ==
    /\ pc[r] = "commit"
    /\ job[r].id # NoLink
    /\ job[r].expected < MaxVersion
    /\ links' = [links EXCEPT ![job[r].id] = [state |-> "live", parent |-> job[r].parent,
         child |-> job[r].child, type |-> job[r].type, version |-> job[r].expected + 1]]
    /\ End(r)

\* save without an expected version.
Delete(r) ==
    /\ pc[r] = "delete"
    /\ RowFree(r, job[r].id)
    /\ links' = [links EXCEPT ![job[r].id] = Blank("deleted")]
    /\ End(r)

\* A rule is broken, a trigger or the index refuses, the UPDATE finds nothing,
\* or the connection fails.
Abort(r) ==
    /\ pc[r] # "idle"
    /\ End(r)
    /\ UNCHANGED links

Next == \E r \in Requests :
    \/ \E p, c \in Persons, t \in Types : BeginCreate(r, p, c, t)
    \/ \E l \in Live, t \in Types : \E v \in 1..links[l].version : BeginPatch(r, l, t, v)
    \/ \E l \in Live : BeginDelete(r, l)
    \/ Validate(r) \/ Find(r) \/ Lock(r) \/ Guard(r)
    \/ CommitCreate(r) \/ CommitPatch(r) \/ Delete(r)
    \/ Abort(r)

Spec == Init /\ [][Next]_vars

-----------------------------------------------------------------------------
(* Properties *)

\* Nobody is his own ancestor, whatever links two editors add at once.
Acyclic == \A p \in Persons : p \notin Ancestors(p)

\* A child has at most so many live biological parents, be they added or
\* changed from another type.
BioParentsBounded ==
    \A c \in Persons : Cardinality(BioLinks(c, NoLink)) <= MaxBioParents

\* Two people are linked once, in one direction.
LinkedOnce ==
    \A k, l \in Live :
        {links[k].parent, links[k].child} = {links[l].parent, links[l].child} => k = l

\* A deleted link stays deleted: no PATCH that read it before brings it back.
\* A live one stays about the same people.
DeletedStaysDeleted ==
    [][\A l \in Links :
         /\ links[l].state = "deleted" => links'[l].state = "deleted"
         /\ links[l].state = "live" /\ links'[l].state = "live" =>
              /\ links'[l].parent = links[l].parent
              /\ links'[l].child = links[l].child]_vars

\* To a reader of the committed links, racing editors are one editor who keeps
\* the rules at every edit: FamilyGraph.
LiveEdges == {[parent |-> links[l].parent, child |-> links[l].child, type |-> links[l].type] :
                 l \in Live}

Graph == INSTANCE FamilyGraph WITH edges <- LiveEdges

ImplementsFamilyGraph == Graph!Spec
=============================================================================
