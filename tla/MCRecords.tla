------------------------------- MODULE MCRecords -------------------------------
(***************************************************************************)
(* Six small components that share no state, each checked on its own: the  *)
(* initial states choose one, and only it takes steps.                     *)
(***************************************************************************)
EXTENDS Integers, FiniteSets, TLC

CONSTANTS
    Relatives, NoPerson, Admins, Names,                     \* ClanRecord
    Ids, PageTimes, Limits,                                 \* Pages
    Moons, NewMoon, Section,                                \* LunarCalendar
    Calendars, FirstDay, LastDay, PageDays, PageLimit,      \* Anniversaries
    Unions, NoUnion, Statuses, Orders, NoOrder, MaxEdits,   \* Marriages
    EventIds, Fields, Values,                               \* FamilyEvents
    Releases, LastMigration(_), MaxAttempts                 \* Release

VARIABLES
    record,                                                           \* the component
    profile, active, members, founders, at, work, told,              \* ClanRecord
    list, rows, clock, cursor, more, shown, staying,                  \* Pages
    events, today,                                                    \* Anniversaries
    unions, edit, asked, outrun,                                      \* Marriages
    diary, audit, requests, inserted, overtaken,                      \* FamilyEvents
    database, live, previous, assigned, web, job, waiting             \* Release

clanVars == <<profile, active, members, founders, at, work, told>>
pageVars == <<list, rows, clock, cursor, more, shown, staying>>
eventVars == <<events, today>>
unionVars == <<unions, edit, asked, outrun>>
diaryVars == <<diary, audit, requests, inserted, overtaken>>
releaseVars == <<database, live, previous, assigned, web, job, waiting>>
recordVars == <<record, clanVars, pageVars, eventVars, unionVars, diaryVars, releaseVars>>

-----------------------------------------------------------------------------
(* The moons from 18 August 2031: 2033 has a leap eleventh month, 2036 a     *)
(* leap sixth, and two months of 2033 and 2034 have the sun in the section   *)
(* of a third.                                                               *)

MCMoons == 1..70

MCNewMoon == <<
  2463097, 2463127, 2463156, 2463186, 2463215, 2463245, 2463274, 2463303, 2463333, 2463362,
  2463392, 2463421, 2463451, 2463481, 2463510, 2463540, 2463570, 2463599, 2463629, 2463658,
  2463688, 2463717, 2463746, 2463776, 2463805, 2463835, 2463864, 2463894, 2463924, 2463954,
  2463983, 2464013, 2464042, 2464072, 2464101, 2464130, 2464160, 2464189, 2464218, 2464248,
  2464278, 2464308, 2464337, 2464367, 2464397, 2464426, 2464456, 2464485, 2464514, 2464544,
  2464573, 2464602, 2464632, 2464662, 2464691, 2464721, 2464751, 2464781, 2464810, 2464840,
  2464869, 2464898, 2464928, 2464957, 2464986, 2465016, 2465045, 2465075, 2465105, 2465135>>

MCSection == <<
  4, 5, 6, 7, 8, 9, 10, 11, 0, 1, 2, 3, 4, 5, 6, 7, 8, 9, 10, 11,
  0, 1, 2, 3, 4, 5, 6, 6, 7, 9, 9, 11, 11, 0, 1, 2, 3, 4, 5, 6,
  7, 8, 9, 10, 11, 0, 1, 2, 3, 4, 5, 6, 7, 8, 9, 10, 11, 0, 1, 2,
  3, 4, 4, 5, 6, 7, 8, 9, 10, 11>>

Clan == INSTANCE ClanRecord WITH Persons <- Relatives

Weddings == INSTANCE Marriages WITH
                Persons <- Relatives,
                at <- edit,
                Editors <- Admins

Diary == INSTANCE FamilyEvents WITH
             rows <- diary,
             Events <- EventIds,
             Requests <- Relatives

Events == INSTANCE Anniversaries WITH
              Window <- PageDays,
              Limit <- PageLimit

Rollout == INSTANCE Release WITH Head <- LastMigration

\* Ids and times are numbers from one, and no client asks for a page of nothing.
ASSUME PagesAreNumbered ==
    /\ IsFiniteSet(Ids) /\ Ids \subseteq Nat
    /\ 1 \in PageTimes /\ PageTimes \subseteq Nat \ {0}
    /\ Limits \subseteq Nat \ {0}

\* No marriage has the id of none, and a marriage may be divorced.
ASSUME UnionsAreNamed == NoUnion \notin Unions /\ "divorced" \in Statuses

EventRows == UNION Calendars

\* The page reaches as far ahead as any event is told and shows some, a clan has finitely
\* many events, and an event is kept on days.
ASSUME EventsAreDated ==
    /\ PageDays \in Nat /\ PageLimit \in Nat \ {0}
    /\ \A c \in Calendars : IsFiniteSet(c)
    /\ FirstDay \in Int /\ LastDay \in Int /\ FirstDay <= LastDay
    /\ \A e \in EventRows : e.date \in Int /\ e.notify \in 0..PageDays

\* The moons follow each other by 29 or 30 days.
ASSUME MoonsAreSpaced ==
    /\ Moons \subseteq Nat
    /\ \A j, k \in Moons : j..k \subseteq Moons
    /\ \A k \in Moons : NewMoon[k] \in Int
    /\ \A k \in Moons : k + 1 \in Moons => NewMoon[k + 1] - NewMoon[k] \in {29, 30}

\* The moon of a day is known, with the one before and the one after.
HasMoons(day) ==
    \E k \in Moons : {k - 1, k + 1} \subseteq Moons /\ NewMoon[k] <= day /\ day < NewMoon[k + 1]

\* The lunar year from the eleventh month of y has twelve months, or thirteen, and then
\* the sun stands in one section through one of them.
IsLunarYear(y) ==
    LET a11 == Events!LunarMonth11(y)
        b11 == Events!LunarMonth11(y + 1)
    IN  /\ HasMoons(Events!JdFromDate(31, 12, y))
        /\ HasMoons(Events!JdFromDate(31, 12, y + 1))
        /\ b11 = a11 + 12 \/ (b11 = a11 + 13 /\ \E i \in 2..13 : Section[a11 + i] = Section[a11 + i - 1])

\* The years of the dates of events, and of the days from two before to one after.
LunarYears ==
    LET Year(day) == Events!JdToDate(day).year
    IN  (Year(FirstDay) - 2)..(Year(LastDay) + 1)
          \cup UNION {(Year(e.date) - 1)..Year(e.date) : e \in EventRows}

ASSUME LunarYearsAreKnown == \A y \in LunarYears : IsLunarYear(y)

\* There is an event, and a column holds something.
ASSUME DiaryIsNotEmpty == EventIds # {} /\ Values # {}

\* The tags are numbered along main, and no tag takes a migration away.
ASSUME ReleasesOnMain ==
    /\ Releases \subseteq Nat \ {0}
    /\ MaxAttempts \in Nat
    /\ \A k \in Releases : LastMigration(k) \in Nat
    /\ \A j, k \in Releases : j <= k => LastMigration(j) <= LastMigration(k)

\* Three releases: the second carries a migration, the third none.
MCReleases == 1..3
MCLastMigration(k) == k \div 2

Paging == INSTANCE Pages WITH Times <- PageTimes

-----------------------------------------------------------------------------
(* Events: a death on 29 February, in the twelfth lunar month (in the next   *)
(* civil year), in a leap month and on the thirtieth of a month, kept by     *)
(* both calendars and told seven days ahead; events of New Year's Eve with   *)
(* each of the flags that keep them from being told; and more events of one  *)
(* day, and of the day after, than the page shows.                           *)

Calendar == INSTANCE LunarCalendar

Dates == {Calendar!JdFromDate(29, 2, 2032), Calendar!JdFromDate(31, 1, 2033),
          Calendar!JdFromDate(2, 3, 2033), Calendar!JdFromDate(25, 12, 2033),
          Calendar!JdFromDate(20, 1, 2034)}

Flags == {"none", "once", "about", "deleted", "orphan"}

Event(id, date, lunar, flag, notify) ==
    [id |-> id, date |-> date, lunar |-> lunar, recurring |-> flag # "once", exact |-> flag # "about",
     deleted |-> flag = "deleted", orphan |-> flag = "orphan", notify |-> notify]

Eve == Calendar!JdFromDate(31, 12, 2033)
June1 == Calendar!JdFromDate(1, 6, 2034)

MCCalendars ==
    {{Event(1, d, l, "none", 7) : l \in BOOLEAN} : d \in Dates}
      \cup {{Event(1, Eve, l, f, 0) : l \in BOOLEAN} : f \in Flags}
      \cup {{Event(1, June1, FALSE, "once", 0), Event(2, June1, FALSE, "none", 0),
              Event(3, June1, TRUE, "none", 7), Event(4, June1 + 1, l, "none", 7)} : l \in BOOLEAN}

MCFirstDay == Calendar!JdFromDate(29, 12, 2033)
MCLastDay == Calendar!JdFromDate(31, 12, 2034)

-----------------------------------------------------------------------------

Off(variable) == variable = "off"

\* A component that is not chosen has no state, or starts in one state and stays there.
RecordsInit ==
    /\ record \in {"clan", "pages", "events", "marriages", "diary", "release"}
    /\ Clan!Init /\ (record # "clan" => members = {} /\ profile = (CHOOSE n \in Names : TRUE))
    /\ Weddings!Init
    /\ IF record = "pages" THEN Paging!Init
       ELSE /\ Off(list) /\ Off(rows) /\ Off(clock) /\ Off(cursor)
            /\ Off(more) /\ Off(shown) /\ Off(staying)
    /\ IF record = "events" THEN Events!Init
       ELSE Off(events) /\ Off(today)
    /\ IF record = "diary" THEN Diary!Init
       ELSE Off(diary) /\ Off(audit) /\ Off(requests) /\ Off(inserted) /\ Off(overtaken)
    /\ IF record = "release" THEN Rollout!Init
       ELSE /\ Off(database) /\ Off(live) /\ Off(previous) /\ Off(assigned)
            /\ Off(web) /\ Off(job) /\ Off(waiting)

RecordsNext ==
    /\ UNCHANGED record
    /\ \/ record = "clan" /\ Clan!Next /\ UNCHANGED <<pageVars, eventVars, unionVars, diaryVars, releaseVars>>
       \/ record = "pages" /\ Paging!Next /\ UNCHANGED <<clanVars, eventVars, unionVars, diaryVars, releaseVars>>
       \/ record = "events" /\ Events!Next /\ UNCHANGED <<clanVars, pageVars, unionVars, diaryVars, releaseVars>>
       \/ record = "marriages" /\ Weddings!Next /\ UNCHANGED <<clanVars, pageVars, eventVars, diaryVars, releaseVars>>
       \/ record = "diary" /\ Diary!Next /\ UNCHANGED <<clanVars, pageVars, eventVars, unionVars, releaseVars>>
       \/ record = "release" /\ Rollout!Next /\ UNCHANGED <<clanVars, pageVars, eventVars, unionVars, diaryVars>>

RecordsSpec == RecordsInit /\ [][RecordsNext]_recordVars

RecordsSymmetry == Permutations(Relatives) \cup Permutations(Admins) \cup Permutations(Unions)

-----------------------------------------------------------------------------
(* Properties *)

\* Every component keeps its types.
RecordsTypeOK ==
    /\ Clan!TypeOK
    /\ Weddings!TypeOK
    /\ record = "pages" => Paging!TypeOK
    /\ record = "events" => Events!TypeOK
    /\ record = "diary" => Diary!TypeOK
    /\ record = "release" => Rollout!TypeOK

\* A suspension ends only by a request that has read the clan as suspended
\* (clan_repository.py, save_clan).
SuspensionSticks == Clan!SuspensionSticks

\* The audit row of a swap names the founder that the swap has displaced
\* (clan_repository.py, swap_founder).
FounderIsTold == Clan!FounderIsTold

\* A row is shown twice only if it is renamed, and a row that stays in the list is
\* shown once, whatever rows come and go between two pages (core/pagination.py).
ListedOnce == record = "pages" => Paging!ListedOnce

\* The next anniversary is the first day from today on which it is kept, across
\* leap months, short months, 29 February and the turn of the lunar year
\* (lunar_calendar.py, next_lunar_anniversary; sql_dates.py).
NextIsFirstKept == record = "events" => Events!NextIsFirstKept

\* A recurring event is announced on a day exactly when the page of that day shows it
\* that many days ahead, unless the page is full of events that are no later
\* (event_repository.py, get_upcoming; scheduler.py).
UpcomingIsAnnounced == record = "events" => Events!UpcomingIsAnnounced

\* Two active wives of one person have the same order only when two editors raced
\* (relationship/validator.py, check_spouse_order).
SharedOrderOnlyByRace == Weddings!SharedOrderOnlyByRace

\* The audit log of an event, replayed in the order of COMMIT on the columns that its INSERT
\* wrote, gives the row, its version and what each change has replaced, unless a delete or
\* restore was overtaken; the log itself does not tell the columns of a create
\* (event_repository.py, save; unit_of_work.py, commit).
EventAuditReplays == record = "diary" => Diary!EventAuditReplays

\* The database never stops the code that a request can reach from booting, and the web
\* is deployed only on the answer of an API with its migrations (readiness.py; main.py).
ReleaseKeepsServing == record = "release" => Rollout!ReleaseKeepsServing
=============================================================================
