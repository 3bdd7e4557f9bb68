----------------------------- MODULE TreeBuilder -----------------------------
(***************************************************************************)
(* services/tree_builder.py and the two walks of migration 013, over the   *)
(* links that one statement returned: the generation (doi) of every        *)
(* descendant of the founder, the flat rows of a subtree, and the nested   *)
(* tree they are assembled into.  A person is his id, a number; a link is  *)
(* a parent, a child and a type; names, dates and the other columns stay   *)
(* out.  Every set of links here comes from one snapshot and is acyclic    *)
(* (ParentChild), so the visited guards of the walks never fire.           *)
(***************************************************************************)
EXTENDS Naturals, FiniteSets

CONSTANT None   \* no person

GenderRank == [male |-> 0, female |-> 1, unknown |-> 2]
TypeRank == [biological |-> 0, adopted |-> 1, step |-> 2, foster |-> 3]

\* Tuples in the order in which Python and PostgreSQL sort them.
LexLess(a, b) ==
    \/ \E i \in DOMAIN a \cap DOMAIN b : a[i] < b[i] /\ \A j \in 1..(i - 1) : a[j] = b[j]
    \/ /\ DOMAIN a # DOMAIN b /\ DOMAIN a \subseteq DOMAIN b
       /\ \A i \in DOMAIN a : a[i] = b[i]

Kids(links, p) == {l.child : l \in {k \in links : k.parent = p}}
Elders(links, c) == {l.parent : l \in {k \in links : k.child = c}}

Down(links) == {<<l.parent, l.child>> : l \in links}
Up(links) == {<<l.child, l.parent>> : l \in links}

\* The people at 0 to n steps from p, one breadth-first round at a time.
Rounds(steps, p, n) ==
    LET at[i \in 0..n] == IF i = 0 THEN {p} ELSE {s[2] : s \in {t \in steps : t[1] \in at[i - 1]}}
    IN  at

Longest(links) == Cardinality({l.child : l \in links})   \* no path has more steps

Reachable(links, p) ==
    UNION {Rounds(Down(links), p, Longest(links))[i] : i \in 0..Longest(links)}

----------------------------------------------------------------------------
(* The generation map. *)

\* Mutant of Canonical: the first of the parents by type and id, father or not.
CanonicalByType(links, gender, within, c) ==
    LET above == {l \in links : l.child = c /\ l.parent \in within}
        Key(l) == <<TypeRank[l.type], l.parent>>
    IN  (CHOOSE l \in above : \A k \in above \ {l} : LexLess(Key(l), Key(k))).parent

\* Of the parents who descend from the founder: the father first, then by type,
\* then by id.
Canonical(links, gender, within, c) ==
    LET above == {l \in links : l.child = c /\ l.parent \in within}
        Key(l) == <<GenderRank[gender[l.parent]], TypeRank[l.type], l.parent>>
    IN  (CHOOSE l \in above : \A k \in above \ {l} : LexLess(Key(l), Key(k))).parent

\* The generation of a child is the one of its canonical parent plus one.
GenerationMap(links, gender, founder) ==
    IF founder = None THEN [p \in {} |-> 0]
    ELSE LET within == Reachable(links, founder)
             canon == [p \in within |-> IF p = founder THEN None
                                        ELSE Canonical(links, gender, within, p)]
             generation[p \in within] == IF p = founder THEN 1 ELSE generation[canon[p]] + 1
         IN  [p \in within |-> [generation |-> generation[p], parent |-> canon[p]]]

----------------------------------------------------------------------------
(* The flat rows and the tree. *)

\* get_family_tree_flat: a row for every way down to a person, not deeper than max.
FlatRows(links, root, max) ==
    LET at == Rounds(Down(links), root, max)
    IN  {[person |-> root, parent |-> None, depth |-> 0]} \cup
        UNION {{[person |-> l.child, parent |-> l.parent, depth |-> i + 1] :
                    l \in {k \in links : k.parent \in at[i]}} : i \in 0..(max - 1)}

Nodes(rows) == {r.person : r \in rows}
DepthIn(rows, p) ==
    CHOOSE d \in {r.depth : r \in rows} :
        /\ \E r \in rows : r.person = p /\ r.depth = d
        /\ \A r \in rows : r.person = p => r.depth >= d

\* The row that is kept of a person is the first: least deep, and otherwise in
\* no order that the query states.
FirstParents(rows) ==
    {f \in [Nodes(rows) -> {r.parent : r \in rows}] :
        \A p \in Nodes(rows) : [person |-> p, parent |-> f[p], depth |-> DepthIn(rows, p)] \in rows}

\* Mutant of AttachOf: the canonical parent, among the rows or not.
AttachAnywhere(rows, doi, first) ==
    [p \in Nodes(rows) |-> IF p \in DOMAIN doi /\ doi[p].parent # None THEN doi[p].parent ELSE first[p]]

\* Where a person hangs: under the canonical parent if that is among the rows,
\* otherwise under the parent of the row that was kept.
AttachOf(rows, doi, first) ==
    [p \in Nodes(rows) |->
        IF p \in DOMAIN doi /\ doi[p].parent \in Nodes(rows) THEN doi[p].parent ELSE first[p]]

\* The people who hang from the root, by their distance from it: what is
\* serialized.  Without a node at the top nothing is.
Rendered(attach) ==
    LET tops == {p \in DOMAIN attach : attach[p] = None}
        below[i \in 0..Cardinality(DOMAIN attach)] ==
            IF i = 0 THEN tops ELSE {p \in DOMAIN attach : attach[p] \in below[i - 1]}
    IN  below
People(below) == UNION {below[i] : i \in DOMAIN below}

\* The spouses query: one row for a marriage, for person1 if he is a node, else
\* for person2; a deleted spouse is not shown.
SpouseRows(marriages, alive, nodes) ==
    {[for |-> IF m.p1 \in nodes THEN m.p1 ELSE m.p2,
      spouse |-> IF m.p1 \in nodes THEN m.p2 ELSE m.p1, status |-> m.status] :
        m \in {n \in marriages : /\ n.p1 \in nodes \/ n.p2 \in nodes
                                 /\ (IF n.p1 \in nodes THEN n.p2 ELSE n.p1) \in alive}}

\* get_ancestors_flat, with the first row of each person kept: his least distance.
AncestorRows(links, p, max) ==
    LET at == Rounds(Up(links), p, max)
    IN  {ai \in (UNION {at[j] : j \in 0..max}) \X (0..max) :
            ai[1] \in at[ai[2]] /\ \A j \in 0..(ai[2] - 1) : ai[1] \notin at[j]}

\* _count_nodes: stubs are not counted.
CountNodes(below) == Cardinality(People(below))
=============================================================================
