----------------------------- MODULE FamilyGraph -----------------------------
(***************************************************************************)
(* What the parent-child links of a clan promise to the readers of the     *)
(* tree: the rules of RelationshipDomainValidator, kept by an editor who   *)
(* is alone with the graph, one whole edit at a time.  ParentChild, with   *)
(* its racing requests, triggers and locks, implements this.               *)
(***************************************************************************)
EXTENDS Naturals, FiniteSets

CONSTANTS Persons, Types, MaxBioParents

VARIABLE edges   \* the live links, each a parent, a child and a type

Parents(p) == {e.parent : e \in {d \in edges : d.child = p}}

\* The people met on the walk up: in every set that holds the parents of p and
\* of its own members.
Ancestors(p) ==
    {a \in Persons :
        \A S \in SUBSET Persons :
            Parents(p) \subseteq S /\ (\A q \in S : Parents(q) \subseteq S) => a \in S}

BioParents(c) == {e.parent : e \in {d \in edges : d.child = c /\ d.type = "biological"}}

\* p may be a parent of type t of c, next to the parents that c has.
Room(p, c, t) == t = "biological" => Cardinality(BioParents(c) \ {p}) < MaxBioParents

Init == edges = {}

\* The new graph is named first: few edits match a step.
Add(p, c, t) ==
    /\ edges' = edges \cup {[parent |-> p, child |-> c, type |-> t]}
    /\ p # c
    /\ p \notin Parents(c)
    /\ c \notin Ancestors(p)
    /\ Room(p, c, t)

Retype(e, t) ==
    /\ edges' = (edges \ {e}) \cup {[e EXCEPT !.type = t]}
    /\ Room(e.parent, e.child, t)

Remove(e) == edges' = edges \ {e}

Next ==
    \/ \E p, c \in Persons, t \in Types : Add(p, c, t)
    \/ \E e \in edges : Remove(e) \/ \E t \in Types : Retype(e, t)

Spec == Init /\ [][Next]_edges
=============================================================================
