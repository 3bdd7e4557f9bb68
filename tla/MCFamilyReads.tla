---------------------------- MODULE MCFamilyReads ----------------------------
(* Small instances of FamilyReads: every small graph, read undisturbed, and a
   few larger ones that editors change while they are read. *)
EXTENDS FamilyReads, FiniteSetsExt, TLC

MCPersons == 1..5

\* Genders and birth dates: brothers of unequal age, a date that is missing.
P(g, b) == [gender |-> g, born |-> b]
Elder == <<P("male", 1), P("female", 1), P("male", 2), P("male", 3), P("female", 4)>>
Mixed == <<P("female", 2), P("male", 0), P("unknown", 1), P("male", 3), P("female", 3)>>

L(p, c, t) == [parent |-> p, child |-> c, type |-> t]
M(p, q, s) == [p1 |-> p, p2 |-> q, status |-> s]
Family(ls, ms, who, f, n) ==
    [links |-> ls, marriages |-> ms, person |-> who, founder |-> f, budget |-> n]

\* Every acyclic graph of at most four links on the first four people, with
\* links of two types.
Linked(e) == L(e[1], e[2], IF e[2] = 3 /\ e[1] \in {1, 4} THEN "adopted" ELSE "biological")
Pairs == {e \in (1..4) \X (1..4) : e[1] # e[2]}
Graphs == {ls \in {{Linked(e) : e \in s} : s \in UNION {kSubset(n, Pairs) : n \in 2..4}} : Acyclic(ls)}
Quiet == {Family(ls, {M(1, 2, "married"), M(3, 4, "divorced")}, Elder, 1, 0) : ls \in Graphs}
    \cup {Family(ls, {M(1, 2, "divorced"), M(1, 2, "married")}, Mixed, 2, 0) : ls \in Graphs}
    \* cousins, and the wife or husband of an uncle or aunt
    \cup {Family({L(1, 3, "biological"), L(1, 4, "biological"), L(3, 2, "biological"), L(4, 5, "biological")},
                 {}, who, 1, 0) : who \in {Elder, Mixed}}
    \cup {Family({L(2, 1, "biological"), L(2, 5, "biological"), L(1, 3, "biological")},
                 {M(4, 5, "married")}, who, 2, 0) : who \in {Elder, Mixed}}

\* A mother who married in, whose subtree an edit turns over; a lineage of four
\* generations; two brothers with a wife and a son; a person with two ways up.
InLaw == {L(1, 2, "biological"), L(2, 4, "biological"), L(3, 4, "biological")}
Lineage == {L(1, 3, "biological"), L(3, 4, "biological"), L(4, 5, "biological")}
Brothers == {L(1, 3, "biological"), L(1, 4, "biological"), L(4, 5, "biological")}
Collapse == {L(1, 2, "biological"), L(1, 3, "biological"), L(2, 4, "biological"),
             L(3, 4, "biological"), L(4, 5, "biological")}
Restless == {Family(InLaw, {}, Elder, 1, 2),
             Family(Lineage, {M(1, 2, "married")}, Elder, 1, 1),
             Family(Brothers, {M(2, 3, "married")}, Elder, 1, 1),
             Family(Collapse, {M(2, 3, "married")}, Mixed, 1, 1)}

MCFamilies == Quiet \cup Restless
=============================================================================
