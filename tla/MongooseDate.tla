---------------------------- MODULE MongooseDate ----------------------------
(***************************************************************************)
(* parse_date_string and num_leap_years of mongoose.c: the days of a date  *)
(* since 1970, against a calendar that is turned day by day.  Times of day *)
(* are added to both alike and left out.  The code multiplies the days out *)
(* in an int of 32 bits: the calendar ends before they overflow it.        *)
(***************************************************************************)
EXTENDS Integers, Sequences

CONSTANTS FirstYear, LastYear   \* bounds of the calendar

ASSUME YearAssumption == FirstYear = 1970 /\ LastYear \in FirstYear..2037

VARIABLES year, month, day, days
calendar == <<year, month, day, days>>

DaysBeforeMonth == <<0, 31, 59, 90, 120, 151, 181, 212, 243, 273, 304, 334>>

\* Fault: no century is a leap year.
FaultyNumLeapYears(y) == y \div 4 - y \div 100

NumLeapYears(y) == y \div 4 - y \div 100 + y \div 400

\* The day of the result; years up to 1970 give 0.
ParseDate(y, m, d) ==
  IF y > 1970 THEN (y - 1970) * 365 + DaysBeforeMonth[m] + (d - 1) + NumLeapYears(y) - NumLeapYears(1970)
  ELSE 0

-----------------------------------------------------------------------------
(* The calendar. *)

IsLeap(y) == y % 4 = 0 /\ (y % 100 # 0 \/ y % 400 = 0)

MonthLen(y, m) == CASE m = 2 -> IF IsLeap(y) THEN 29 ELSE 28
                    [] m \in {4, 6, 9, 11} -> 30
                    [] OTHER -> 31

CalendarInit == year = FirstYear /\ month = 1 /\ day = 1 /\ days = 0

NextDay ==
  /\ year <= LastYear
  /\ days' = days + 1
  /\ \/ day < MonthLen(year, month) /\ day' = day + 1 /\ UNCHANGED <<year, month>>
     \/ day = MonthLen(year, month) /\ month < 12 /\ day' = 1 /\ month' = month + 1 /\ UNCHANGED year
     \/ day = MonthLen(year, month) /\ month = 12 /\ day' = 1 /\ month' = 1 /\ year' = year + 1

\* Behind the leap day of a leap year and in all other years the days are counted right.
DateRight == year > 1970 /\ ~(IsLeap(year) /\ month <= 2) => ParseDate(year, month, day) = days
=============================================================================
