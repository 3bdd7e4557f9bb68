--------------------------------- MODULE Pages ---------------------------------
(***************************************************************************)
(* A client reads a list page by page while other requests insert, rename  *)
(* and delete rows of it.                                                  *)
(*                                                                         *)
(* A page starts after a cursor, the key and the id of the last row of the *)
(* page before; the server keeps nothing between two pages.  The key is    *)
(* created_at in the lists of the clan and in the audit log, which is read *)
(* from the newest; it is full_name in the list of persons, where a PATCH  *)
(* may change it.  created_at is the time at which the inserting           *)
(* transaction began.                                                      *)
(***************************************************************************)
EXTENDS Integers, FiniteSets

CONSTANTS
    Ids,      \* ids of rows: numbers, handed out in no order
    Times,    \* values of the key: 1..n
    Limits    \* limits a client asks for

VARIABLES
    list,    \* which list is read
    rows,    \* the rows of it, by id
    clock,   \* the time of the database
    cursor,  \* where the next page starts
    more,    \* has_more of the last page
    shown,   \* how many times each row was shown
    staying  \* rows in the list, under one key, since the first page

vars == <<list, rows, clock, cursor, more, shown, staying>>

-----------------------------------------------------------------------------

\* open: inserted by a transaction that has not committed.
Row == [state : {"none", "open", "live", "gone"}, key : Times]

\* Of no page yet.
Start == [key |-> 0, id |-> 0]

Live == {r \in Ids : rows[r].state = "live"}

TypeOK ==
    /\ list \in {"created", "recent", "names"}
    /\ rows \in [Ids -> Row]
    /\ clock \in Times
    /\ cursor \in {Start} \cup [key : Times, id : Ids]
    /\ more \in BOOLEAN
    /\ shown \in [Ids -> Nat]
    /\ staying \subseteq Live

Init ==
    /\ list \in {"created", "recent", "names"}
    /\ rows = [r \in Ids |-> [state |-> "none", key |-> 1]]
    /\ clock = 1
    /\ cursor = Start
    /\ more = TRUE
    /\ shown = [r \in Ids |-> 0]
    /\ staying = {}

-----------------------------------------------------------------------------
(* The rows *)

Reader == <<cursor, more, shown>>

\* No page has been read.
Unread == cursor = Start /\ more

Tick ==
    /\ clock + 1 \in Times
    /\ clock' = clock + 1
    /\ UNCHANGED <<list, rows, Reader, staying>>

\* A request begins and inserts a row.
Insert(r, key) ==
    /\ rows[r].state = "none"
    /\ list = "names" \/ key = clock
    /\ rows' = [rows EXCEPT ![r] = [state |-> "open", key |-> key]]
    /\ UNCHANGED <<list, clock, Reader, staying>>

Commit(r) ==
    /\ rows[r].state = "open"
    /\ rows' = [rows EXCEPT ![r].state = "live"]
    /\ staying' = IF Unread THEN staying \cup {r} ELSE staying
    /\ UNCHANGED <<list, clock, Reader>>

\* A deletion, or a change that takes the row out of the filter of the list.
Remove(r) ==
    /\ r \in Live
    /\ rows' = [rows EXCEPT ![r].state = "gone"]
    /\ staying' = staying \ {r}
    /\ UNCHANGED <<list, clock, Reader>>

Rename(r, key) ==
    /\ list = "names"
    /\ r \in Live
    /\ key # rows[r].key
    /\ rows' = [rows EXCEPT ![r].key = key]
    /\ staying' = IF Unread THEN staying ELSE staying \ {r}
    /\ UNCHANGED <<list, clock, Reader>>

-----------------------------------------------------------------------------
(* The pages *)

Precedes(a, b) == a.key < b.key \/ (a.key = b.key /\ a.id < b.id)

Place(r) == [key |-> rows[r].key, id |-> r]

\* Mutant of After: rows of one key count as one.
AfterKey(place) ==
    cursor = Start \/ IF list = "recent" THEN place.key < cursor.key ELSE cursor.key < place.key

\* The filter of the cursor.
After(place) ==
    cursor = Start \/ IF list = "recent" THEN Precedes(place, cursor) ELSE Precedes(cursor, place)

InOrder(r, s) ==
    IF list = "recent" THEN Precedes(Place(s), Place(r)) ELSE Precedes(Place(r), Place(s))

Rank(r, rest) == Cardinality({s \in rest : InOrder(s, r)})

\* limit + 1 rows are fetched to see whether a page follows; the page is the
\* first limit of them, and its last row is the next cursor.
ReadPage(limit) ==
    /\ more
    /\ LET rest == {r \in Live : After(Place(r))}
           page == {r \in rest : Rank(r, rest) < limit}
           over == Cardinality(rest) > limit
       IN  /\ more' = over
           /\ shown' = [r \in Ids |-> shown[r] + (IF r \in page THEN 1 ELSE 0)]
           /\ \/ ~over /\ cursor' = cursor
              \/ /\ over
                 /\ \E r \in page : Rank(r, rest) = limit - 1 /\ cursor' = Place(r)
    /\ UNCHANGED <<list, rows, clock, staying>>

Next ==
    \/ Tick
    \/ \E r \in Ids :
         \/ \E key \in Times : Insert(r, key) \/ Rename(r, key)
         \/ Commit(r) \/ Remove(r)
    \/ \E limit \in Limits : ReadPage(limit)

Spec == Init /\ [][Next]_vars

-----------------------------------------------------------------------------
(* Properties *)

\* A row is shown twice only if it is renamed between two pages, and a row that
\* was in the list under one key from the first page to the last is shown, also
\* when other rows come and go, with the same key, at the cursor itself, or with
\* another limit.  (A row that commits late with an older created_at may be
\* skipped: it was not in the list at the first page.)
ListedOnce ==
    /\ list # "names" => \A r \in Ids : shown[r] <= 1
    /\ \A r \in staying : shown[r] <= 1 /\ (~more => shown[r] = 1)
=============================================================================
