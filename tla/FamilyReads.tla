----------------------------- MODULE FamilyReads -----------------------------
(***************************************************************************)
(* The reads of the family graph: the tree and the focus view              *)
(* (application/tree), the path between two people with its kinship term,  *)
(* and the export.  Each is several statements of one READ COMMITTED       *)
(* session, and every statement sees what editors committed before it, so  *)
(* the pieces of one answer may come of different graphs.                  *)
(***************************************************************************)
EXTENDS Kinship, GedcomExport

CONSTANTS
    Persons,      \* ids, numbers
    Types,        \* of links
    Families,     \* what to begin with: links, marriages, person, founder, and
                  \* a budget: how many commits of editors the read meets
    Kinds,        \* the reads that are asked for
    MaxGenerations, MaxPath   \* p_max_generations, p_max_depth

ASSUME PersonsAreNumbers == Persons \subseteq Nat /\ None \notin Persons

\* The clan has so many people, and a search takes so many rounds.
ASSUME SearchesAreBounded == IsFiniteSet(Persons) /\ MaxPath \in Nat

\* A pair is linked once (migration 022), and nobody is his own parent.
LinkedOnce(ls) ==
    \A l \in ls : /\ l = [parent |-> l.parent, child |-> l.child, type |-> l.type]
                  /\ l.parent # l.child
                  /\ \A k \in ls : k.parent = l.parent /\ k.child = l.child => k = l
ASSUME FamiliesAreLinkedOnce == \A f \in Families : LinkedOnce(f.links)

\* Nobody descends from himself (the trigger of migration 021).
Acyclic(ls) == \A l \in ls : l.parent \notin Reachable(ls, l.child)
ASSUME FamiliesAreAcyclic == \A f \in Families : Acyclic(f.links)

\* Links are between people; genders and types are those that have a rank (the checks of
\* migration 001).
Typed(ls) == \A l \in ls : {l.parent, l.child} \subseteq Persons /\ l.type \in DOMAIN TypeRank
ASSUME FamiliesAreTyped ==
    /\ Types \subseteq DOMAIN TypeRank /\ MaxGenerations \in Nat
    /\ \A f \in Families : /\ Typed(f.links)
                          /\ \A p \in Persons : f.person[p].gender \in DOMAIN GenderRank

\* A birth date is a number.
ASSUME BirthsAreNumbers == \A f \in Families : \A p \in Persons : f.person[p].born \in Nat

VARIABLES
    person,     \* person[p]: gender and birth date
    alive,      \* the people who are not deleted
    links,      \* the links that are not deleted
    marriages,  \* the marriages that are not deleted
    founder,    \* whose membership has is_founder
    budget,     \* commits that may still happen
    read,       \* the read in progress and its next statement
    got,        \* what its statements have returned
    sinceMap,   \* what was committed since the first statement on links,
    sinceRows   \* and since the flat rows: "added", "removed"

graph == <<person, alive, links, marriages, founder>>
vars == <<graph, budget, read, got, sinceMap, sinceRows>>

Gender == [p \in Persons |-> person[p].gender]
Born == [p \in Persons |-> person[p].born]
LiveLinks == {l \in links : {l.parent, l.child} \subseteq alive}

Idle == [kind |-> "none", at |-> "done", from |-> None, to |-> None]
Nothing == [founder |-> None, doi |-> <<>>, rows |-> {}, attach |-> <<>>, spouses |-> {},
            more |-> {}, chain |-> {}, visited |-> {}, frontier |-> {}, round |-> 0, term |-> <<>>,
            persons |-> {}, marriages |-> {}, edges |-> {}, document |-> <<>>]

Init ==
    /\ \E f \in Families : /\ links = f.links /\ marriages = f.marriages
                           /\ person = f.person /\ founder = f.founder
                           /\ budget = f.budget
    /\ alive = Persons
    /\ read = Idle /\ got = Nothing
    /\ sinceMap = {} /\ sinceRows = {}

----------------------------------------------------------------------------
(* The editors: what a statement can find changed since the one before.    *)

Commit(change) ==
    /\ budget > 0
    /\ read.at # "done"        \* before and after the read nothing depends on it
    /\ budget' = budget - 1
    /\ sinceMap' = sinceMap \cup {change}
    /\ sinceRows' = sinceRows \cup {change}
    /\ UNCHANGED <<person, read, got>>

\* The triggers keep the graph acyclic and a pair linked once (ParentChild).
AddLink(p, c, t) ==
    /\ Commit("added")
    /\ p # c /\ c \notin Elders(links, p) /\ p \notin Elders(links, c)
    /\ p \notin Reachable(links, c)
    /\ {p, c} \subseteq alive
    /\ links' = links \cup {[parent |-> p, child |-> c, type |-> t]}
    /\ UNCHANGED <<alive, marriages, founder>>

RemoveLink(l) ==
    /\ Commit("removed")
    /\ links' = links \ {l}
    /\ UNCHANGED <<alive, marriages, founder>>

RetypeLink(l, t) ==
    /\ Commit("retyped")
    /\ t # l.type
    /\ links' = (links \ {l}) \cup {[l EXCEPT !.type = t]}
    /\ UNCHANGED <<alive, marriages, founder>>

\* A deleted person keeps his links; the statements leave him out.
DeletePerson(p) ==
    /\ Commit("removed")
    /\ p \in alive /\ alive' = alive \ {p}
    /\ UNCHANGED <<links, marriages, founder>>

RestorePerson(p) ==
    /\ Commit("added")
    /\ p \notin alive /\ alive' = alive \cup {p}
    /\ UNCHANGED <<links, marriages, founder>>

\* At most one marriage of a pair is not divorced (migration 022).
Marry(p, q) ==
    /\ Commit("added")
    /\ {p, q} \subseteq alive /\ p < q
    /\ \A m \in marriages : Pair(m) = {p, q} => m.status = "divorced"
    /\ marriages' = marriages \cup {[p1 |-> p, p2 |-> q, status |-> "married"]}
    /\ UNCHANGED <<alive, links, founder>>

Divorce(m) ==
    /\ Commit("removed")
    /\ m.status # "divorced"
    /\ marriages' = (marriages \ {m}) \cup {[m EXCEPT !.status = "divorced"]}
    /\ UNCHANGED <<alive, links, founder>>

Designate(p) ==
    /\ Commit("added")
    /\ p \in alive /\ p # founder /\ founder' = p
    /\ UNCHANGED <<alive, links, marriages>>

Edit ==
    \/ \E p, q \in Persons : (\E t \in Types : AddLink(p, q, t)) \/ Marry(p, q)
    \/ \E l \in links : RemoveLink(l) \/ \E t \in Types : RetypeLink(l, t)
    \/ \E p \in Persons : DeletePerson(p) \/ RestorePerson(p) \/ Designate(p)
    \/ \E m \in marriages : Divorce(m)

----------------------------------------------------------------------------
(* The reads. *)

Stay == UNCHANGED <<graph, budget>>
FirstOf(kind) == CASE kind = "focus" -> "chain" [] kind = "path" -> "round"
                   [] kind = "export" -> "persons" [] OTHER -> "founder"

\* person_in_clan answers for the people a request names; the full tree, whose
\* root is the founder, names none.
Begin(kind, p, q) ==
    /\ read = Idle /\ kind \in Kinds     \* a read leaves nothing for the next
    /\ kind \in {"full", "export"} <=> p = None
    /\ kind = "path" <=> q # None
    /\ ({p, q} \ {None}) \subseteq alive /\ (p # None => p # q)
    /\ read' = [kind |-> kind, at |-> FirstOf(kind), from |-> p, to |-> q]
    /\ got' = IF kind = "path"
              THEN [Nothing EXCEPT !.visited = {Origin(p)}, !.frontier = {Origin(p)}] ELSE Nothing
    /\ sinceMap' = {} /\ sinceRows' = {} /\ Stay

At(step) == read.at = step
Answer(step, pieces) == read' = [read EXCEPT !.at = step] /\ got' = pieces

\* get_ancestors_flat: the list of the ancestors, or the breadcrumb of the focus
\* view, which leaves out the person itself.
ReadChain ==
    /\ At("chain")
    /\ LET chain == IF read.from \notin alive THEN {}
                    ELSE AncestorRows(LiveLinks, read.from, MaxGenerations)
       IN  IF read.kind = "focus"
           THEN Answer("founder", [got EXCEPT !.chain = {a \in chain : a[2] >= 1}])
           ELSE Answer("done", [got EXCEPT !.chain = chain])
    /\ Stay /\ UNCHANGED <<sinceMap, sinceRows>>

\* find_clan_founder; the full tree has no root without him.
ReadFounder ==
    /\ At("founder")
    /\ LET f == IF founder \in alive THEN founder ELSE None
       IN  IF read.kind = "full"
           THEN /\ read' = [read EXCEPT !.at = IF f = None THEN "done" ELSE "map", !.from = f]
                /\ got' = [got EXCEPT !.founder = f]
           ELSE Answer("map", [got EXCEPT !.founder = f])
    /\ Stay /\ UNCHANGED <<sinceMap, sinceRows>>

\* compute_generation_map: every link of the clan in one statement.  The
\* founder was read before, and may have been deleted since.
ReadMap ==
    /\ At("map")
    /\ Answer(CASE read.kind = "ancestors" -> "chain" [] read.kind = "export" -> "done"
                [] OTHER -> "rows", [got EXCEPT !.doi = GenerationMap(LiveLinks, Gender, got.founder)])
    /\ sinceMap' = {} /\ Stay /\ UNCHANGED sinceRows

\* The flat rows.  Without any the answer is 404 (tree_empty).
ReadRows ==
    /\ At("rows")
    /\ IF read.from \notin alive THEN Answer("done", got)
       ELSE LET rows == FlatRows(LiveLinks, read.from, MaxGenerations)
            IN  \E first \in FirstParents(rows) :
                    Answer("spouses", [got EXCEPT !.rows = rows,
                                                  !.attach = AttachOf(rows, got.doi, first)])
    /\ sinceRows' = {} /\ Stay /\ UNCHANGED sinceMap

ReadSpouses ==
    /\ At("spouses")
    /\ Answer(IF read.kind = "focus" THEN "more" ELSE "done",
              [got EXCEPT !.spouses = SpouseRows(marriages, alive, Nodes(got.rows))])
    /\ Stay /\ UNCHANGED <<sinceMap, sinceRows>>

\* build_focus_view: of the people at the last depth, those who have children.
ReadMore ==
    /\ At("more")
    /\ Answer("done", [got EXCEPT !.more =
                         {p \in People(Rendered(got.attach)) :
                            DepthIn(got.rows, p) = MaxGenerations /\ Kids(LiveLinks, p) # {}}])
    /\ Stay /\ UNCHANGED <<sinceMap, sinceRows>>

\* find_relationship_path is VOLATILE: each round of its search is a statement
\* with a snapshot of its own.  It ends when the target is visited, the frontier
\* is empty, or the depth is reached.
Found == \E w \in got.visited : EndOf(w) = read.to
TheWay == CHOOSE w \in got.visited : EndOf(w) = read.to
Searching == ~Found /\ got.frontier # {} /\ got.round < MaxPath

ReadRound ==
    /\ At("round") /\ Searching
    /\ LET next == NextFrontier(got.frontier, got.visited, links, marriages, alive)
       IN  got' = [got EXCEPT !.frontier = next, !.visited = @ \cup next, !.round = @ + 1]
    /\ Stay /\ UNCHANGED <<read, sinceMap, sinceRows>>

\* describe_relationship
EndPath ==
    /\ At("round") /\ ~Searching
    /\ Answer("done", [got EXCEPT !.term = IF Found THEN Describe(TheWay, Gender, Born) ELSE <<>>])
    /\ Stay /\ UNCHANGED <<sinceMap, sinceRows>>

\* export_clan: people, branches, marriages, links, then the generation map.
ReadExportPersons ==
    /\ At("persons") /\ Answer("marriages", [got EXCEPT !.persons = alive])
    /\ Stay /\ UNCHANGED <<sinceMap, sinceRows>>

ReadExportMarriages ==
    /\ At("marriages") /\ Answer("links", [got EXCEPT !.marriages = marriages])
    /\ Stay /\ UNCHANGED <<sinceMap, sinceRows>>

ReadExportLinks ==
    /\ At("links")
    /\ \E lead \in Leads(LiveMarriages(got.persons, got.marriages)) :
           Answer("founder", [got EXCEPT !.document = Gedcom(got.persons, got.marriages, links, lead),
                                      !.edges = LiveEdges(got.persons, links)])
    /\ Stay /\ UNCHANGED <<sinceMap, sinceRows>>

Read ==
    \/ \E kind \in Kinds : \E p, q \in Persons \cup {None} : Begin(kind, p, q)
    \/ ReadChain \/ ReadFounder \/ ReadMap \/ ReadRows \/ ReadSpouses \/ ReadMore
    \/ ReadRound \/ EndPath
    \/ ReadExportPersons \/ ReadExportMarriages \/ ReadExportLinks

Next == Edit \/ Read
Spec == Init /\ [][Next]_vars

----------------------------------------------------------------------------
(* Properties. *)

Assembled == read.kind \in {"full", "subtree", "focus"} /\ got.rows # {}
Hung == Rendered(got.attach)

\* Nobody whom the rows contain is left out of the tree, and the live root is
\* not answered with 404, unless a person or link was removed, or a couple divorced,
\* between the generation map and the rows: then people may hang from each other, or from
\* nobody, and vanish without an error.
LostOnlyByRemoval ==
    /\ Assembled /\ "removed" \notin sinceMap => CountNodes(Hung) = Cardinality(Nodes(got.rows))
    /\ Assembled => \A p \in Nodes(got.rows) : Cardinality({i \in DOMAIN Hung : p \in Hung[i]}) <= 1

\* The generation is the same whatever the root and the depth of the view: one
\* more than that of the father, if he descends from the founder.
GenerationFollowsFather ==
    Assembled /\ sinceMap = {} =>
        \A l \in LiveLinks :
            {l.parent, l.child} \subseteq DOMAIN got.doi /\ Gender[l.parent] = "male"
              /\ (\A k \in LiveLinks : k.child = l.child /\ Gender[k.parent] = "male" => k = l)
            => got.doi[l.child].generation = got.doi[l.parent].generation + 1

\* The persons on the way of an undisturbed search are, in the order of the ids, the
\* first of the shortest ways that there are; none is found only if none is short
\* enough.  (Which of several edges between the same two persons is told is not said.)
Ways(p, q, n) ==
    {ids \in UNION {[1..(i + 1) -> Persons] : i \in 1..n} :
        /\ ids[1] = p /\ ids[Len(ids)] = q
        /\ \A i \in 1..(Len(ids) - 1) :
               \E e \in DOMAIN EdgeRank : <<ids[i + 1], e>> \in Neighbours(links, marriages, alive, ids[i])}
PathIsShortest ==
    read.kind = "path" /\ read.at = "done" /\ sinceMap = {} =>
        LET ways == Ways(read.from, read.to, MaxPath)
        IN  IF Found
            THEN /\ TheWay.ids \in ways
                 /\ \A w \in ways : \/ Len(w) > Len(TheWay.ids)
                                    \/ Len(w) = Len(TheWay.ids) /\ ~LexLess(w, TheWay.ids)
            ELSE ways = {}

\* The relations the specific terms stand for, said without a path.
Wed(p, q) == \E m \in marriages : Pair(m) = {p, q} /\ m.status # "divorced"
Is(p, g) == Gender[p] = g
ParentOf(p, c) == p \in Elders(links, c)
SiblingOf(p, q) == p # q /\ \E r \in Persons : ParentOf(r, p) /\ ParentOf(r, q)
Through(side, r) == Is(r, CASE side = "paternal" -> "male" [] side = "maternal" -> "female")
Older(age, p, q) == 0 \notin {Born[p], Born[q]} /\ (CASE age = "older" -> Born[p] < Born[q]
                                                      [] age = "younger" -> Born[p] > Born[q])
Means(k, s, t) ==
    CASE k.kind = "parent" -> ParentOf(t, s)
      [] k.kind = "child" -> ParentOf(s, t)
      [] k.kind = "spouse" -> Wed(s, t)
      [] k.kind = "sibling" -> SiblingOf(t, s) /\ Older(k.age, t, s)
      [] k.kind = "grandchild" -> \E c \in Persons : ParentOf(s, c) /\ ParentOf(c, t)
      [] k.kind = "grandparent" ->
             \E r \in Persons : ParentOf(r, s) /\ ParentOf(t, r) /\ Through(k.side, r)
      [] k.kind = "great_grandparent" ->
             \E r, u \in Persons : ParentOf(r, s) /\ ParentOf(u, r) /\ ParentOf(t, u) /\ Through(k.side, r)
      [] k.kind = "uncle_aunt" ->
             \E r \in Persons : /\ ParentOf(r, s) /\ SiblingOf(t, r) /\ Through(k.side, r)
                                /\ k.side = "paternal" => Older(k.age, t, r)
      [] k.kind = "cousin" ->
             /\ \E r, u \in Persons : ParentOf(r, s) /\ SiblingOf(u, r) /\ ParentOf(u, t)
             /\ Older(k.age, t, s)
      [] k.kind \in {"aunt_in_law", "uncle_in_law"} ->
             \E r, u \in Persons : /\ ParentOf(r, s) /\ SiblingOf(u, r) /\ Wed(u, t) /\ Through(k.side, r)
                                   /\ k.kind = "aunt_in_law" /\ k.side = "paternal" => Older(k.age, u, r)
      [] k.kind = "step_parent" -> ~ParentOf(t, s) /\ \E r \in Persons : ParentOf(r, s) /\ Wed(r, t)
      [] k.kind = "child_in_law" -> \E c \in Persons : ParentOf(s, c) /\ Wed(c, t) /\ Gender[c] # Gender[t]
      [] k.kind = "parent_in_law" -> \E r \in Persons : Wed(s, r) /\ ParentOf(t, r) /\ Through(k.side, r)

\* "Never wrong, only less specific": a specific term of an undisturbed search
\* says what the people are to each other.
TermHolds ==
    read.kind = "path" /\ read.at = "done" /\ sinceMap = {} /\ Found /\ "gender" \in DOMAIN got.term =>
        Means(got.term, read.from, read.to)

\* Whatever was committed between its statements, the document names no family
\* or person it does not define, and every link it read makes its child, once,
\* a child of a family with that parent and no parent of another type.
EveryLinkExported ==
    read.kind = "export" /\ read.at = "done" =>
        LET d == got.document
        IN  /\ \A f \in d.fam : f.spouses \subseteq d.indi /\ Cardinality(f.spouses) \in {1, 2}
            /\ \A k \in d.famc : k.family \in d.fam /\ k.child \in d.indi /\ k.child \notin k.family.spouses
            /\ \A l \in got.edges :
                   Cardinality({k \in d.famc : k.child = l.child /\ l.parent \in k.family.spouses}) = 1
            /\ \A k \in d.famc : \A p \in k.family.spouses :
                   [parent |-> p, child |-> k.child, type |-> k.pedi] \in got.edges
=============================================================================
