--------------------------- MODULE MarketCalendar ---------------------------
(***************************************************************************)
(* The US equity market calendar and the horizon rules built on it: which  *)
(* sessions exist, which one should have data by now, how far behind a     *)
(* symbol is, and when a prediction's horizon completes.                   *)
(*                                                                         *)
(* A date is its proleptic Gregorian ordinal (day 1 is a Monday).  The     *)
(* conversion of a clock reading to New York time is outside: a moment is  *)
(* a New York date and whether its publication boundary has passed.  One   *)
(* step of the module moves to the next year.                              *)
(***************************************************************************)
EXTENDS Integers, FiniteSets, FiniteSetsExt

CONSTANTS FirstYear, LastYear   \* the years examined

VARIABLE year

Leap(y) == y % 4 = 0 /\ (y % 100 = 0 => y % 400 = 0)
MonthStart == <<0, 31, 59, 90, 120, 151, 181, 212, 243, 273, 304, 334>>

Date(y, m, d) ==
  365 * (y - 1) + ((y - 1) \div 4) - ((y - 1) \div 100) + ((y - 1) \div 400)
    + MonthStart[m] + d + (IF m > 2 /\ Leap(y) THEN 1 ELSE 0)

YearOf(day) == LET y == (day * 400) \div 146097
               IN  CHOOSE z \in {y, y + 1} : Date(z, 1, 1) <= day /\ day < Date(z + 1, 1, 1)

(* Monday is 0, as in the code.                                             *)
Weekday(day) == (day + 6) % 7

NthWeekday(y, m, weekday, n) ==
  LET first == Date(y, m, 1) IN first + ((weekday - Weekday(first)) % 7) + 7 * (n - 1)

LastWeekday(y, m, weekday) ==
  LET last == (IF m = 12 THEN Date(y + 1, 1, 1) ELSE Date(y, m + 1, 1)) - 1
  IN  last - ((Weekday(last) - weekday) % 7)

(* The Meeus/Jones/Butcher computation.                                     *)
EasterSunday(y) ==
  LET a == y % 19          b == y \div 100       c == y % 100
      d == b \div 4        e == b % 4            f == (b + 8) \div 25
      g == (b - f + 1) \div 3
      h == (19 * a + b - d - g + 15) % 30
      i == c \div 4        k == c % 4
      ell == (32 + 2 * e + 2 * i - h - k) % 7
      m == (a + 11 * h + 22 * ell) \div 451
      n == h + ell - 7 * m + 114
  IN  Date(y, n \div 31, (n % 31) + 1)

Observed(day) == CASE Weekday(day) = 5 -> day - 1 [] Weekday(day) = 6 -> day + 1 [] OTHER -> day

Holidays(y) ==
  {Observed(d) : d \in {x \in {Date(y, 1, 1)} : Weekday(x) # 5}}
  \cup {Observed(d) : d \in {x \in {Date(y, 6, 19)} : y >= 2022}}
  \cup {NthWeekday(y, 1, 0, 3), NthWeekday(y, 2, 0, 3), EasterSunday(y) - 2, LastWeekday(y, 5, 0),
        Observed(Date(y, 7, 4)), NthWeekday(y, 9, 0, 1), NthWeekday(y, 11, 3, 4),
        Observed(Date(y, 12, 25))}

IsSessionDay(day) == Weekday(day) < 5 /\ day \notin Holidays(YearOf(day))

(* Both searches give up after 400 days.                                    *)
PreviousSession(day) ==
  LET back[k \in 1..400] == IF IsSessionDay(day - k) THEN day - k ELSE back[k + 1] IN back[1]

NextSession(day) ==
  LET ahead[k \in 1..400] == IF IsSessionDay(day + k) THEN day + k ELSE ahead[k + 1] IN ahead[1]

SessionsInRange(first, last) == {d \in first..last : IsSessionDay(d)}

(* Expected sessions after the last one seen, up to the expected one.       *)
SessionsBehind(seen, expected) ==
  IF seen >= expected THEN 0 ELSE Cardinality(SessionsInRange(seen + 1, expected))

(* Mutant: the weekday-only rule this calendar replaced.                     *)
ExpectedWeekday(day, published) ==
  IF Weekday(day) < 5 /\ published THEN day
  ELSE Max({d \in (day - 4)..(day - 1) : Weekday(d) < 5})

(* The session whose end-of-day data should exist by now.                   *)
ExpectedLatestSession(day, published) ==
  IF IsSessionDay(day) /\ published THEN day ELSE PreviousSession(day)

-----------------------------------------------------------------------------
(* validation.horizons.                                                     *)
HorizonSessions == {21, 63, 126, 252}

EntrySessionFor(asOf) == NextSession(asOf)

(* The horizon-th session after the entry; it is found within two years.    *)
RequiredExitSession(entry, horizon) ==
  LET after == SessionsInRange(entry + 1, entry + 2 * horizon + 20)
  IN  CHOOSE s \in after : s >= entry + horizon /\ Cardinality({t \in after : t <= s}) = horizon

SessionHorizonDueDate(asOf, horizon) == RequiredExitSession(EntrySessionFor(asOf), horizon)

(* as_of + round(horizon / (252 / 365.25)) days.                            *)
LegacyAdvisoryDueDate(asOf, horizon) == asOf + (((2 * horizon * 36525) + 25200) \div 50400)

-----------------------------------------------------------------------------
CalendarInit == year = FirstYear

NextYear == year < LastYear /\ year' = year + 1

CalendarSpec == CalendarInit /\ [][NextYear]_year

-----------------------------------------------------------------------------
(* Easter by Oudin's form of the computus, the reference for EasterSunday.  *)
ReferenceEaster(y) ==
  LET g == y % 19   c == y \div 100
      h == (c - (c \div 4) - ((8 * c + 13) \div 25) + 19 * g + 15) % 30
      i == h - (h \div 28) * (1 - ((29 \div (h + 1)) * ((21 - g) \div 11)))
      j == (y + (y \div 4) + i + 2 - c + (c \div 4)) % 7
      ell == i - j
      m == 3 + ((ell + 40) \div 44)
  IN  Date(y, m, ell + 28 - 31 * (m \div 4))

Year(y) == Date(y, 1, 1)..Date(y, 12, 31)

(* market_calendar.py:18, "the single authority for which session should    *)
(* exist", is regular: Good Friday is found by an independent computus, a   *)
(* year has 249 to 253 sessions and never more than four days between two,  *)
(* and at every moment the expected session is the newest whose data was    *)
(* due, so that a symbol at it is not behind and one at the session before  *)
(* is one behind.                                                           *)
CalendarIsRegular ==
  LET sessions == {d \in (Date(year, 1, 1) - 10)..Date(year, 12, 31) : IsSessionDay(d)}
      Due(d, published) == {s \in sessions : s >= d - 10 /\ (s < d \/ (s = d /\ published))}
  IN  /\ EasterSunday(year) = ReferenceEaster(year)
      /\ Cardinality(sessions \cap Year(year)) \in 249..253
      /\ \A d \in Year(year), published \in BOOLEAN :
           LET expected == ExpectedLatestSession(d, published)
           IN  /\ expected = Max(Due(d, published))
               /\ d - expected <= 5
               /\ SessionsBehind(expected, expected) = 0
               /\ SessionsBehind(PreviousSession(expected), expected) = 1

(* horizons.py:114: the calendar approximation frozen into old rows and the *)
(* session count written now "agree within a few sessions": four.           *)
HorizonsAgree ==
  \A month \in {1, 4, 7, 10}, h \in HorizonSessions :
    LET asOf == Date(year, month, 15)
        due == SessionHorizonDueDate(asOf, h)
        legacy == LegacyAdvisoryDueDate(asOf, h)
    IN  Cardinality(SessionsInRange(Min({due, legacy}) + 1, Max({due, legacy}))) <= 4

(* Both, for the year at hand.                                              *)
CalendarHolds == CalendarIsRegular /\ HorizonsAgree
=============================================================================
