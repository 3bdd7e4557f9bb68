----------------------------- MODULE Anniversaries -----------------------------
(***************************************************************************)
(* The events of a clan as the days go by: what GET /events/upcoming shows *)
(* and what the anniversary job announces, which are two queries, each     *)
(* with a part in SQL for solar dates and a part in Python for lunar ones. *)
(* The page is the first of the two parts by date, and no longer than a    *)
(* LIMIT; the job has none.                                                *)
(*                                                                         *)
(* An event is a row of the columns that the queries read.  Rows do not    *)
(* change here; both the page and the job read what is committed.          *)
(***************************************************************************)
EXTENDS LunarCalendar, FiniteSets

CONSTANTS
    Calendars,  \* the sets of events that the clan may have: see Row
    FirstDay,
    LastDay,
    Window,     \* days ahead that the page shows
    Limit       \* rows that it shows (50)

VARIABLES
    events, \* of the clan
    today   \* in the zone of the platform

vars == <<events, today>>

\* orphan: the person of the event is soft-deleted.
Row == [id : Nat, date : Nat, lunar : BOOLEAN, recurring : BOOLEAN, exact : BOOLEAN,
        deleted : BOOLEAN, orphan : BOOLEAN, notify : 0..30]

TypeOK ==
    /\ events \in Calendars
    /\ events \subseteq Row
    /\ today \in FirstDay..LastDay

Init ==
    /\ events \in Calendars
    /\ today = FirstDay

Tomorrow ==
    /\ today < LastDay
    /\ today' = today + 1
    /\ UNCHANGED events

Next == Tomorrow

Spec == Init /\ [][Next]_vars

-----------------------------------------------------------------------------
(* The two readers *)

NextOccurrence(e, day) ==
    IF e.lunar THEN NextLunarAnniversary(e.date, day) ELSE NextSolarAnniversary(e.date, day)

\* An event that does not recur is on its own day.
Occurrence(e) == IF e.recurring THEN NextOccurrence(e, today) ELSE e.date

\* The events in the window of the page: those that do not recur whatever their
\* calendar and precision, of those that recur the exact ones.
Due == {e \in events :
    /\ ~e.deleted /\ ~e.orphan
    /\ e.recurring => e.exact
    /\ Occurrence(e) - today \in 0..Window}

\* Those whose date Python computes.
Computed(e) == e.recurring /\ e.lunar

\* ORDER BY next_occurrence; the sort of the merged list is stable, and it starts with
\* the rows of the SQL part.
Sooner(a, b) ==
    \/ Occurrence(a) < Occurrence(b)
    \/ Occurrence(a) = Occurrence(b) /\ ~Computed(a) /\ Computed(b)

\* What a LIMIT may keep of S; among rows of one day the database chooses.
FirstOf(S) == {T \in SUBSET S :
    /\ Cardinality(T) = Limit \/ (T = S /\ Cardinality(S) <= Limit)
    /\ \A a \in T, b \in S \ T : ~Sooner(b, a)}

\* get_upcoming: the LIMIT of the SQL part, and that of the merged list.
Upcoming ==
    LET due      == Due
        computed == {e \in due : Computed(e)}
    IN  UNION {FirstOf(T \cup computed) : T \in FirstOf(due \ computed)}

\* Mutant of Announces: the job takes an estimated date for an exact one.
AnnouncesEstimates(e) ==
    /\ e.recurring
    /\ ~e.deleted
    /\ ~e.orphan
    /\ NextOccurrence(e, today) - today = e.notify

\* send_anniversary_notifications.
Announces(e) ==
    /\ e.recurring
    /\ ~e.deleted
    /\ e.exact
    /\ ~e.orphan
    /\ NextOccurrence(e, today) - today = e.notify

-----------------------------------------------------------------------------
(* Properties *)

\* The days on which an anniversary is kept, read off the calendar day by day: the
\* day of the regular month, or its last day when it lacks that day.
Kept(e, day) ==
    LET was  == SolarToLunar(e.date)
        is   == SolarToLunar(day)
        born == JdToDate(e.date)
        date == JdToDate(day)
    IN  IF e.lunar
        THEN /\ is.month = was.month /\ ~is.leap
             /\ is.day = was.day \/ (is.day < was.day /\ SolarToLunar(day + 1).day = 1)
        ELSE /\ date.month = born.month
             /\ date.day = born.day \/ (date.day < born.day /\ JdToDate(day + 1).day = 1)

\* The next anniversary is the first day from today on which it is kept, across
\* leap months, months of 29 days, 29 February, and the turn of the lunar year
\* that falls in another month of the civil year: today is it exactly when it is
\* kept today, and it moves on only when it is over.  (The code computes it from
\* the year of today; nothing searches the days.)
NextIsFirstKept == \A e \in events :
    LET next == NextOccurrence(e, today)
    IN  /\ next >= today
        /\ next = today <=> Kept(e, today)
        /\ next # today => NextOccurrence(e, today + 1) = next

\* The page shows what the job announces: a recurring event that the page shows as
\* many days ahead as it is to be told is announced that day, and one that is announced
\* is on the page, unless the page is full of events that are no later.  (get_upcoming
\* mirrors the filter of the job in four separate queries, but the job has no LIMIT.)
UpcomingIsAnnounced == \A page \in Upcoming, e \in events : e.recurring =>
    LET shown == e \in page /\ Occurrence(e) - today = e.notify
        full  == Cardinality(page) = Limit /\ \A p \in page : Occurrence(p) <= Occurrence(e)
    IN  /\ shown => Announces(e)
        /\ Announces(e) => shown \/ full
=============================================================================
