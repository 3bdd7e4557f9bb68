------------------------------ MODULE Marriages ------------------------------
(***************************************************************************)
(* The marriages of one clan: create, update and delete of                 *)
(* MarriageCommandHandler against the two partial unique indexes of the    *)
(* marriages table.                                                        *)
(*                                                                         *)
(* The rules on a pair and on the order of wives (spouse_order) are read   *)
(* by the validator in statements of their own, before the write.  The     *)
(* database holds the rule on a pair on its own; of the rule on the order  *)
(* it holds half, for the spouse that stands in the first column.          *)
(*                                                                         *)
(* Persons are the members of the clan.  Dates, their precision, the place *)
(* and the notes are left out, and with them the rule that a divorce       *)
(* follows the marriage, which reads the written row alone.                *)
(***************************************************************************)
EXTENDS Integers, FiniteSets

CONSTANTS
    Persons,
    NoPerson,
    Unions,        \* ids of marriages
    NoUnion,
    Statuses,      \* "married", "divorced" and others
    Orders,        \* values of spouse_order
    NoOrder,
    Editors,       \* requests that write marriages
    MaxEdits       \* bound on the marriages that have been PATCHed when a PATCH begins

VARIABLES
    unions,  \* marriages by id
    at,      \* the statement each request runs next
    asked,   \* what it is to write
    outrun   \* requests that passed the check on the order before another committed

vars == <<unions, at, asked, outrun>>

-----------------------------------------------------------------------------
(* Rows *)

Couple == Persons \cup {NoPerson}

Union == [state   : {"unused", "live", "deleted"},
          one     : Couple,
          two     : Couple,
          status  : Statuses,
          order   : Orders \cup {NoOrder},
          version : Nat]

\* id is NoUnion in a request that creates a marriage.
Edit == [id       : Unions \cup {NoUnion},
         one      : Couple,
         two      : Couple,
         status   : Statuses,
         order    : Orders \cup {NoOrder},
         expected : Nat]

TypeOK ==
    /\ unions \in [Unions -> Union]
    /\ at \in [Editors -> {"idle", "pair", "order", "write", "delete"}]
    /\ asked \in [Editors -> Edit]
    /\ outrun \subseteq Editors

Gone(state) == [state |-> state, one |-> NoPerson, two |-> NoPerson, status |-> "divorced",
                order |-> NoOrder, version |-> 0]

NoEdit == [id |-> NoUnion, one |-> NoPerson, two |-> NoPerson, status |-> "divorced",
           order |-> NoOrder, expected |-> 0]

-----------------------------------------------------------------------------
(* What the validator and the indexes read *)

\* A widowed or separated marriage is as active as any.
Active == {u \in Unions : unions[u].state = "live" /\ unions[u].status # "divorced"}

Spouses(u) == {unions[u].one, unions[u].two}

\* has_active_marriage, whichever of the two is named first.
Married(p, q, excluded) == \E u \in Active \ {excluded} : Spouses(u) = {p, q}

\* Mutant of OrderTaken: the order is read from the first column alone.
OrderTakenByFirst(p, q, order, excluded) ==
    \E u \in Active \ {excluded} : unions[u].order = order /\ unions[u].one \in {p, q}

\* has_spouse_order_conflict: a marriage of either spouse has the order.
OrderTaken(p, q, order, excluded) ==
    \E u \in Active \ {excluded} : unions[u].order = order /\ Spouses(u) \cap {p, q} # {}

\* idx_marriages_unique_pair and uq_marriages_spouse_order let the row pass.
IndexesAdmit(e) ==
    e.status # "divorced" =>
      /\ ~Married(e.one, e.two, e.id)
      /\ e.order # NoOrder =>
           \A u \in Active \ {e.id} : unions[u].one = e.one => unions[u].order # e.order

-----------------------------------------------------------------------------
(* Requests *)

Init ==
    /\ unions = [u \in Unions |-> Gone("unused")]
    /\ at = [r \in Editors |-> "idle"]
    /\ asked = [r \in Editors |-> NoEdit]
    /\ outrun = {}

Begin(r, statement, e) ==
    /\ at[r] = "idle"
    /\ at' = [at EXCEPT ![r] = statement]
    /\ asked' = [asked EXCEPT ![r] = e]
    /\ UNCHANGED <<unions, outrun>>

\* A new marriage that comes divorced takes part in no order.
BeginCreate(r, p, q, status, order) ==
    /\ p # q
    /\ ~Married(p, q, NoUnion)
    /\ Begin(r, IF status # "divorced" /\ order # NoOrder THEN "order" ELSE "write",
             [id |-> NoUnion, one |-> p, two |-> q, status |-> status, order |-> order,
              expected |-> 0])

\* The checks that a PATCH of the columns in fields, to e, has ahead of it.
OrderNext(fields, e) ==
    IF e.status # "divorced" /\ fields # {} /\ e.order # NoOrder THEN "order" ELSE "write"

\* get_by_id; the client presents a version it has read.  An older one than the row
\* has writes nothing, since versions rise, and is left out.  fields are the columns
\* the PATCH names, of status and order; none when it is about the others.
BeginPatch(r, u, fields, status, order) ==
    /\ unions[u].state = "live"
    /\ Cardinality({w \in Unions : unions[w].version > 1}) < MaxEdits
    /\ "status" \in fields \/ status = unions[u].status
    /\ "order" \in fields \/ order = unions[u].order
    /\ LET e == [id |-> u, one |-> unions[u].one, two |-> unions[u].two, status |-> status,
                 order |-> order, expected |-> unions[u].version]
           remarried == unions[u].status = "divorced" /\ status # "divorced"
       IN  Begin(r, IF remarried THEN "pair" ELSE OrderNext(fields, e), e)

BeginDelete(r, u) ==
    /\ unions[u].state = "live"
    /\ Begin(r, "delete", [NoEdit EXCEPT !.id = u])

\* check_duplicate_marriage of a PATCH that makes a divorced pair active again.
\* Such a PATCH names the status.
CheckPair(r) ==
    /\ at[r] = "pair"
    /\ ~Married(asked[r].one, asked[r].two, asked[r].id)
    /\ at' = [at EXCEPT ![r] = OrderNext({"status"}, asked[r])]
    /\ UNCHANGED <<unions, asked, outrun>>

\* check_spouse_order.
CheckOrder(r) ==
    /\ at[r] = "order"
    /\ ~OrderTaken(asked[r].one, asked[r].two, asked[r].order, asked[r].id)
    /\ at' = [at EXCEPT ![r] = "write"]
    /\ UNCHANGED <<unions, asked, outrun>>

End(r) ==
    /\ at' = [at EXCEPT ![r] = "idle"]
    /\ asked' = [asked EXCEPT ![r] = NoEdit]

\* A commit of r outruns the requests that are about to write.
Commit(r) ==
    /\ outrun' = (outrun \cup {s \in Editors : at[s] = "write"}) \ {r}
    /\ End(r)

Row(e) == [state |-> "live", one |-> e.one, two |-> e.two, status |-> e.status,
           order |-> e.order, version |-> e.expected + 1]

\* INSERT and COMMIT.
Insert(r) ==
    /\ at[r] = "write"
    /\ asked[r].id = NoUnion
    /\ IndexesAdmit(asked[r])
    /\ \E u \in Unions :
         /\ unions[u].state = "unused"
         /\ unions' = [unions EXCEPT ![u] = Row(asked[r])]
    /\ Commit(r)

\* UPDATE ... WHERE id AND version = expected, and COMMIT.  Every column is
\* written, the deletion mark included.
Update(r) ==
    /\ at[r] = "write"
    /\ asked[r].id # NoUnion
    /\ unions[asked[r].id].version = asked[r].expected
    /\ IndexesAdmit(asked[r])
    /\ unions' = [unions EXCEPT ![asked[r].id] = Row(asked[r])]
    /\ Commit(r)

\* The UPDATE of a deletion has no expected version; it raises the version past
\* every one that was read.
Delete(r) ==
    /\ at[r] = "delete"
    /\ unions' = [unions EXCEPT ![asked[r].id] = Gone("deleted")]
    /\ Commit(r)

\* A check or an index refuses, the UPDATE finds nothing, or the request dies.
Abort(r) ==
    /\ at[r] # "idle"
    /\ End(r)
    /\ outrun' = outrun \ {r}
    /\ UNCHANGED unions

Next == \E r \in Editors :
    \/ \E p, q \in Persons, s \in Statuses, o \in Orders \cup {NoOrder} :
         BeginCreate(r, p, q, s, o)
    \/ \E u \in Unions, f \in SUBSET {"status", "order"}, s \in Statuses,
          o \in Orders \cup {NoOrder} :
         BeginPatch(r, u, f, s, o)
    \/ \E u \in Unions : BeginDelete(r, u)
    \/ CheckPair(r) \/ CheckOrder(r)
    \/ Insert(r) \/ Update(r) \/ Delete(r)
    \/ Abort(r)

Spec == Init /\ [][Next]_vars

-----------------------------------------------------------------------------
(* Properties *)

SameOrder ==
    {uw \in Active \X Active :
        /\ uw[1] # uw[2]
        /\ Spouses(uw[1]) \cap Spouses(uw[2]) # {}
        /\ unions[uw[1]].order = unions[uw[2]].order
        /\ unions[uw[1]].order # NoOrder}

\* Two active marriages of one person come to the same order only by a write
\* whose check ran before another request committed: no sequence of edits, one
\* after the other, gets there, through a divorce and a remarriage or the order
\* of the couple.  (check_spouse_order reads both spouses' marriages, the index
\* behind it covers the first column alone.)
SharedOrderOnlyByRace ==
    [][SameOrder' \subseteq SameOrder \/ \E r \in outrun : r \notin outrun' /\ at[r] = "write"]_unions
=============================================================================
