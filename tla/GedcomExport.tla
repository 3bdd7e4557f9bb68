---------------------------- MODULE GedcomExport ----------------------------
(***************************************************************************)
(* The families that services/gedcom_export.py builds of the rows the      *)
(* export read, each table in a statement of its own.  A family is its     *)
(* spouses and the marriage behind it, if any; text, xrefs, dates and      *)
(* folding stay out.                                                       *)
(***************************************************************************)
EXTENDS TreeBuilder, FiniteSets

CONSTANT NoMarriage

LiveMarriages(persons, marriages) == {m \in marriages : {m.p1, m.p2} \subseteq persons}

\* Mutant of LiveEdges: the links are taken as they were read, whoever is exported.
LiveEdgesAll(persons, links) == links

LiveEdges(persons, links) == {l \in links : {l.parent, l.child} \subseteq persons}

Pair(m) == {m.p1, m.p2}
MarriageFamilies(marriages) == {[spouses |-> Pair(m), marriage |-> m] : m \in marriages}

\* family_by_pair: the last marriage of the pair in the order of the rows, which
\* the query does not state.
Leads(marriages) ==
    {f \in [{Pair(m) : m \in marriages} -> marriages] : \A d \in DOMAIN f : Pair(f[d]) = d}

\* The first in the order of the ids.
FirstPair(pairs) == CHOOSE ab \in pairs : \A cd \in pairs : ab = cd \/ LexLess(ab, cd)

\* The parents of one type are paired in the order of their ids, those who are
\* married to each other first, one pair after the other; two that are left make
\* a couple, any other number of them a family each.
Unpaired(parents, lead, taken) ==
    {ab \in parents \X parents : /\ ab[1] < ab[2] /\ {ab[1], ab[2]} \in DOMAIN lead
                                 /\ {ab[1], ab[2]} \cap UNION taken = {}}
OneMore(parents, lead, taken) ==
    LET free == Unpaired(parents, lead, taken)
    IN  IF free = {} THEN taken ELSE taken \cup {{FirstPair(free)[1], FirstPair(free)[2]}}
Married(parents, lead) ==
    LET taken[n \in 0..Cardinality(parents)] ==
            IF n = 0 THEN {} ELSE OneMore(parents, lead, taken[n - 1])
    IN  taken[Cardinality(parents)]

Units(parents, lead) ==
    LET couples == Married(parents, lead)
        left == parents \ UNION couples
    IN  couples \cup (IF Cardinality(left) = 2 THEN {left} ELSE {{p} : p \in left})

\* _link_children: a child has one FAMC for each unit of its parents of one type.
ChildLinks(edges, lead) ==
    LET types == {l.type : l \in edges}
        ParentsOf(c, t) == {l.parent : l \in {k \in edges : k.child = c /\ k.type = t}}
    IN  UNION {UNION {{[child |-> c, pedi |-> t,
                        family |-> [spouses |-> u,
                                    marriage |-> IF u \in DOMAIN lead THEN lead[u] ELSE NoMarriage]] :
                           u \in Units(ParentsOf(c, t), lead)} :
                      t \in types} : c \in {l.child : l \in edges}}

\* The document: people, families with their children, and the pointers back.
Gedcom(persons, marriages, links, lead) ==
    LET famc == ChildLinks(LiveEdges(persons, links), lead)
        families == MarriageFamilies(LiveMarriages(persons, marriages)) \cup {k.family : k \in famc}
    IN  [indi |-> persons,
         fam |-> families,
         famc |-> famc,
         chil |-> {<<k.family, k.child>> : k \in famc},
         fams |-> UNION {{<<p, f>> : p \in f.spouses} : f \in families}]
=============================================================================
