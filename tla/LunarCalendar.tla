----------------------------- MODULE LunarCalendar -----------------------------
(***************************************************************************)
(* The Vietnamese lunar calendar and the two kinds of anniversary that     *)
(* events have, solar and lunar.                                           *)
(*                                                                         *)
(* Days are Julian day numbers.  The astronomy is data: the day of each    *)
(* new moon and the section of the ecliptic (of 30 degrees, from the       *)
(* spring equinox) the sun stands in on that day.  What is modelled is the *)
(* numbering of the months from them.  The code finds the new moon of a    *)
(* day by an estimate that it corrects; here it is the last one not after  *)
(* the day, so the few days where the estimate fails and the code raises   *)
(* an error are left out, as are years outside the supported range.        *)
(***************************************************************************)
EXTENDS Integers, FiniteSets

CONSTANTS
    Moons,     \* consecutive numbers of new moons
    NewMoon,   \* the day of each
    Section    \* the section, 0..11, the sun stands in on that day

-----------------------------------------------------------------------------
(* Civil dates *)

JdFromDate(dd, mm, yy) ==
    LET a == (14 - mm) \div 12
        y == yy + 4800 - a
        m == mm + 12 * a - 3
    IN  dd + (153 * m + 2) \div 5 + 365 * y + y \div 4 - y \div 100 + y \div 400 - 32045

JdToDate(jd) ==
    LET a           == jd + 32044
        b           == (4 * a + 3) \div 146097
        InYear(d, e, m) ==
            [day   |-> e - (153 * m + 2) \div 5 + 1,
             month |-> m + 3 - 12 * (m \div 10),
             year  |-> b * 100 + d - 4800 + m \div 10]
        Days(d, e)  == InYear(d, e, (5 * e + 2) \div 153)
        Century(c)  == LET d == (4 * c + 3) \div 1461 IN Days(d, c - (1461 * d) \div 4)
    IN  Century(a - (b * 146097) \div 4)

-----------------------------------------------------------------------------
(* Lunar months *)

\* The lunar month a day is in, as the number of its new moon.
MoonOf(day) ==
    CHOOSE k \in Moons : k + 1 \in Moons /\ NewMoon[k] <= day /\ day < NewMoon[k + 1]

\* The eleventh month of a year: the one with the winter solstice.
LunarMonth11(yy) ==
    LET k == MoonOf(JdFromDate(31, 12, yy)) IN IF Section[k] >= 9 THEN k - 1 ELSE k

\* A lunar year of thirteen months, from one eleventh month to the next.
HasLeap(a11, b11) == NewMoon[b11] - NewMoon[a11] > 365

\* The month after a11 in which the sun does not change its section.
LeapMonthOffset(a11) ==
    LET still == {i \in 2..13 : Section[a11 + i] = Section[a11 + i - 1]}
    IN  IF still = {} THEN 13 ELSE (CHOOSE i \in still : \A j \in still : i <= j) - 1

NoLeap == 99

\* The months from the eleventh of yy: the number of the first, and how many
\* precede the leap month.
LunarYear(yy) ==
    LET From(a11, b11) ==
            [first |-> a11, leap |-> IF HasLeap(a11, b11) THEN LeapMonthOffset(a11) ELSE NoLeap]
    IN  From(LunarMonth11(yy), LunarMonth11(yy + 1))

\* The lunar date of a day in month k, diff months into a year whose months from
\* the first on are those of lunar year yy.
LunarDate(day, k, yy, diff, leap) ==
    LET count == diff + (IF diff >= leap THEN 10 ELSE 11)
        month == IF count > 12 THEN count - 12 ELSE count
    IN  [year  |-> yy - (IF month >= 11 /\ diff < 4 THEN 1 ELSE 0),
         month |-> month,
         day   |-> day - NewMoon[k] + 1,
         leap  |-> diff = leap]

SolarToLunar(day) ==
    LET In(k, yy, y) == LunarDate(day, k, yy, (NewMoon[k] - NewMoon[y.first]) \div 29, y.leap)
        Of(k, yy) == IF NewMoon[LunarMonth11(yy)] >= NewMoon[k]
                     THEN In(k, yy, LunarYear(yy - 1))
                     ELSE In(k, yy + 1, LunarYear(yy))
    IN  Of(MoonOf(day), JdToDate(day).year)

\* The month of a lunar year.  A leap month that the year does not have is the
\* regular one.
MoonOfMonth(year, month, leap) ==
    LET off     == IF month < 11 THEN month + 1 ELSE month - 11
        In(y)   == LET named  == IF y.leap < 2 THEN y.leap + 10 ELSE y.leap - 2
                       isLeap == leap /\ y.leap # NoLeap /\ month = named
                   IN  y.first + off + (IF isLeap \/ off >= y.leap THEN 1 ELSE 0)
    IN  In(LunarYear(IF month < 11 THEN year - 1 ELSE year))

DaysOf(k) == NewMoon[k + 1] - NewMoon[k]

DaysInLunarMonth(year, month) == DaysOf(MoonOfMonth(year, month, FALSE))

LunarToSolar(year, month, day, leap) == NewMoon[MoonOfMonth(year, month, leap)] + day - 1

-----------------------------------------------------------------------------
(* Anniversaries *)

Least(a, b) == IF a <= b THEN a ELSE b

\* The anniversary of a lunar date in a lunar year: always in the regular month,
\* on its last day if it has no thirtieth.
LunarAnniversary(year, lunar) ==
    LunarToSolar(year, lunar.month, Least(lunar.day, DaysInLunarMonth(year, lunar.month)), FALSE)

\* Mutant of NextLunarAnniversary: the search starts in the civil year.
NextLunarFromCivilYear(eventDate, today) ==
    LET lunar == SolarToLunar(eventDate)
        year  == JdToDate(today).year
        this  == LunarAnniversary(year, lunar)
    IN  IF this >= today THEN this ELSE LunarAnniversary(year + 1, lunar)

\* Two years are enough: the next year's anniversary is past every day of this
\* one.
NextLunarAnniversary(eventDate, today) ==
    LET lunar == SolarToLunar(eventDate)
        year  == SolarToLunar(today).year
        this  == LunarAnniversary(year, lunar)
    IN  IF this >= today THEN this ELSE LunarAnniversary(year + 1, lunar)

\* next_anniversary_sql: the day and month in a year, on the last day of a month
\* that is shorter.
SolarAnniversary(year, eventDate) ==
    LET date  == JdToDate(eventDate)
        first == JdFromDate(1, date.month, year)
        last  == (IF date.month = 12 THEN JdFromDate(1, 1, year + 1)
                  ELSE JdFromDate(1, date.month + 1, year)) - 1
    IN  Least(first + date.day - 1, last)

NextSolarAnniversary(eventDate, today) ==
    LET year == JdToDate(today).year
        this == SolarAnniversary(year, eventDate)
    IN  IF this >= today THEN this ELSE SolarAnniversary(year + 1, eventDate)
=============================================================================
