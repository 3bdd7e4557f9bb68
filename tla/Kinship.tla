------------------------------- MODULE Kinship -------------------------------
(***************************************************************************)
(* The search for the path between two people (find_relationship_path,     *)
(* migration 024) one round at a time, and the Vietnamese term that        *)
(* services/relationship_descriptor.py gives to the path.  A way is a pair *)
(* of the ids on it and the kinds of its steps; a birth date is a number,  *)
(* 0 when it is missing or not exact.                                      *)
(***************************************************************************)
EXTENDS TreeBuilder, Sequences

EdgeRank == [child |-> 1, parent |-> 2, spouse |-> 3]   \* the order of the strings

\* The neighbours of p in one snapshot: no deleted person, no divorced marriage.
Neighbours(links, marriages, alive, p) ==
    {n \in alive \X DOMAIN EdgeRank :
        \/ n[2] = "parent" /\ n[1] \in Elders(links, p)
        \/ n[2] = "child" /\ n[1] \in Kids(links, p)
        \/ /\ n[2] = "spouse"
           /\ \E m \in marriages : {m.p1, m.p2} = {p, n[1]} /\ p # n[1] /\ m.status # "divorced"}

WayLess(v, w) ==
    \/ LexLess(v.ids, w.ids)
    \/ v.ids = w.ids /\ LexLess([i \in DOMAIN v.edges |-> EdgeRank[v.edges[i]]],
                                [i \in DOMAIN w.edges |-> EdgeRank[w.edges[i]]])

Origin(p) == [ids |-> <<p>>, edges |-> <<>>]
EndOf(w) == w.ids[Len(w.ids)]

\* Mutant of NextFrontier: of several ways to a person the largest.
NextFrontierLargest(frontier, visited, links, marriages, alive) ==
    LET ways == UNION {{[ids |-> Append(w.ids, n[1]), edges |-> Append(w.edges, n[2])] :
                            n \in Neighbours(links, marriages, alive, EndOf(w))} : w \in frontier}
        new == {w \in ways : EndOf(w) \notin {EndOf(v) : v \in visited}}
    IN  {w \in new : \A v \in new : EndOf(v) = EndOf(w) => v = w \/ WayLess(v, w)}

\* One round: every person who was not visited and has a neighbour on the
\* frontier is reached by the smallest way to him.
NextFrontier(frontier, visited, links, marriages, alive) ==
    LET ways == UNION {{[ids |-> Append(w.ids, n[1]), edges |-> Append(w.edges, n[2])] :
                            n \in Neighbours(links, marriages, alive, EndOf(w))} : w \in frontier}
        new == {w \in ways : EndOf(w) \notin {EndOf(v) : v \in visited}}
    IN  {w \in new : \A v \in new : EndOf(v) = EndOf(w) => v = w \/ WayLess(w, v)}

----------------------------------------------------------------------------
(* The term. *)

Side(gender, p) == CASE gender[p] = "male" -> "paternal"
                     [] gender[p] = "female" -> "maternal"
                     [] OTHER -> "unknown"

\* Mutant of AgeRank: a date that is not known is the earliest.
AgeRankGuess(born, p, q) == IF born[p] < born[q] THEN "older" ELSE "younger"

\* Whether p was born before q, as far as it can be asserted.
AgeRank(born, p, q) ==
    IF 0 \in {born[p], born[q]} \/ born[p] = born[q] THEN "unknown"
    ELSE IF born[p] < born[q] THEN "older" ELSE "younger"

Generic ==
    {<<"child">>, <<"parent">>, <<"spouse">>, <<"parent", "child">>, <<"parent", "spouse">>,
     <<"spouse", "child">>, <<"child", "child">>, <<"parent", "parent">>,
     <<"parent", "parent", "child">>, <<"parent", "parent", "child", "child">>,
     <<"child", "spouse">>, <<"spouse", "parent">>, <<"parent", "parent", "parent">>,
     <<"child", "child", "child">>, <<"parent", "parent", "child", "spouse">>}

\* _specific_key: a term is the kind of the relation with what tells its words
\* apart, the gender of the target, the side and the age; "unknown" in one of
\* them that the kind needs leaves the generic term.
SpecificKey(w, gender, born) ==
    LET s == w.ids[1]
        t == EndOf(w)
        g == gender[t]
        p == w.ids[2]                    \* the first step: a parent, child or spouse
        side == Side(gender, p)
        Key(kind, sd, age) == [kind |-> kind, gender |-> g, side |-> sd, age |-> age]
    IN  CASE w.edges = <<"parent">> -> Key("parent", "any", "any")
          [] w.edges = <<"child">> -> Key("child", "any", "any")
          [] w.edges = <<"spouse">> -> Key("spouse", "any", "any")
          [] w.edges = <<"parent", "child">> -> Key("sibling", "any", AgeRank(born, t, s))
          [] w.edges = <<"child", "child">> -> Key("grandchild", "any", "any")
          [] w.edges = <<"parent", "parent">> -> Key("grandparent", side, "any")
          [] w.edges = <<"parent", "parent", "child">> ->
                 Key("uncle_aunt", side, IF side = "paternal" THEN AgeRank(born, t, p) ELSE "any")
          [] w.edges = <<"parent", "parent", "child", "child">> ->
                 Key("cousin", "any", AgeRank(born, t, s))
          [] w.edges = <<"parent", "parent", "parent">> -> Key("great_grandparent", side, "any")
          [] w.edges = <<"parent", "parent", "child", "spouse">> ->
                 LET sib == w.ids[4]
                 IN  IF {gender[sib], g} # {"male", "female"} THEN Key("none", "any", "any")
                     ELSE IF g = "male" THEN Key("uncle_in_law", side, "any")
                     ELSE Key("aunt_in_law", side,
                              IF side = "paternal" THEN AgeRank(born, sib, p) ELSE "any")
          [] w.edges = <<"parent", "spouse">> -> Key("step_parent", "any", "any")
          [] w.edges = <<"child", "spouse">> ->
                 IF {gender[p], g} = {"male", "female"} THEN Key("child_in_law", "any", "any")
                 ELSE Key("none", "any", "any")
          [] w.edges = <<"spouse", "parent">> -> Key("parent_in_law", side, "any")
          [] OTHER -> Key("none", "any", "any")

Specific(k) == /\ k.kind # "none" /\ k.side # "unknown" /\ k.age # "unknown"
               /\ \/ k.gender # "unknown"
                  \/ k.kind = "cousin" /\ k.age = "younger"   \* the word has no gender

Describe(w, gender, born) ==
    LET k == SpecificKey(w, gender, born)
    IN  IF Specific(k) THEN k
        ELSE [kind |-> IF w.edges \in Generic THEN "generic" ELSE "distant",
              edges |-> w.edges]
=============================================================================
