------------------------------ MODULE Calendar ------------------------------
(***************************************************************************)
(* Timestamps (time.rs): the text GitHub sends, the seconds since 1970 the *)
(* program computes with, and the canonical text the archive sorts by.     *)
(* A text is its six fields and what its other characters amount to; the   *)
(* canonical text is its fields, compared from the year down, which is how *)
(* twenty characters of fixed width compare.  Integers are unbounded here: *)
(* every epoch in the band keeps the program's 64-bit sums far from their  *)
(* limits, and a subtraction that would leave them leaves the band too.    *)
(***************************************************************************)
EXTENDS Integers

CONSTANTS
  Starts,  \* instants the clock may show
  Spans    \* seconds subtracted from one: the overlap, the tiers

ASSUME CalendarAssumption == Starts \subseteq Int /\ Spans \subseteq Nat

VARIABLES
  now,     \* Rfc3339Utc.epoch
  cutoff   \* the last subtraction's result

calendarVars == <<now, cutoff>>

Day == 86400
\* The representable band, from the year 1 to the year 9999.
MinEpoch == -719162 * Day
MaxEpoch == 2932896 * Day + 86399
\* The years four digits write.
Years == 1 .. 9999

-----------------------------------------------------------------------------
(* The civil calendar.                                                     *)

\* Division as the machine does it, towards zero.
Quot(a, b) == IF a >= 0 THEN a \div b ELSE -((-a) \div b)

\* The era of n years or days that a number falls in: the machine's division
\* corrected for what comes before era 0.
EraOf(a, n) == Quot(IF a >= 0 THEN a ELSE a - (n - 1), n)

IsLeap(year) == (year % 4 = 0 /\ year % 100 # 0) \/ year % 400 = 0

DaysInMonth(year, month) ==
  IF month \in {1, 3, 5, 7, 8, 10, 12} THEN 31
  ELSE IF month \in {4, 6, 9, 11} THEN 30
  ELSE IF month # 2 THEN 0
  ELSE IF IsLeap(year) THEN 29 ELSE 28

\* days_from_civil: years begin in March, so that the leap day comes last.
DaysFromCivil(year, month, day) ==
  LET y == IF month <= 2 THEN year - 1 ELSE year
      era == EraOf(y, 400)
      yoe == y - era * 400
      mp == IF month > 2 THEN month - 3 ELSE month + 9
      doy == (153 * mp + 2) \div 5 + day - 1
      doe == yoe * 365 + yoe \div 4 - yoe \div 100 + doy
  IN era * 146097 + doe - 719468

\* Mutant: the last day of an era, 29 February of its last year, is forgotten.
YearOfEraShort(doe) == (doe - doe \div 1460 + doe \div 36524) \div 365

YearOfEra(doe) == (doe - doe \div 1460 + doe \div 36524 - doe \div 146096) \div 365
DayOfYear(doe, yoe) == doe - (365 * yoe + yoe \div 4 - yoe \div 100)

Civil(yoe, era, doy) ==
  LET mp == (5 * doy + 2) \div 153
      month == IF mp < 10 THEN mp + 3 ELSE mp - 9
      year == yoe + era * 400
  IN [year |-> IF month <= 2 THEN year + 1 ELSE year,
      month |-> month,
      day |-> doy - (153 * mp + 2) \div 5 + 1]

CivilFromDays(days) ==
  LET z == days + 719468
      era == EraOf(z, 146097)
      doe == z - era * 146097
      yoe == YearOfEra(doe)
  IN Civil(yoe, era, DayOfYear(doe, yoe))

-----------------------------------------------------------------------------
(* Timestamps.                                                             *)

Timestamp(date, sod) ==
  [year |-> date.year, month |-> date.month, day |-> date.day,
   hour |-> sod \div 3600, minute |-> (sod % 3600) \div 60, second |-> sod % 60]

\* format_epoch, with div_euclid and rem_euclid.
FormatEpoch(epoch) == Timestamp(CivilFromDays(epoch \div Day), epoch % Day)

Refused(error) == [error |-> error, epoch |-> 0]
Accepted(epoch) == [error |-> "none", epoch |-> epoch]

\* from_epoch: the year keeps its four digits.
FromEpoch(secs) ==
  IF CivilFromDays(secs \div Day).year \in Years THEN Accepted(secs)
  ELSE Refused("OutOfRange")

InRange(t) ==
  /\ t.year \in Years /\ t.month \in 1 .. 12
  /\ t.day >= 1 /\ t.day <= DaysInMonth(t.year, t.month)
  /\ t.hour <= 23 /\ t.minute <= 59 /\ t.second <= 59

\* parse: `shape` is what separators, digits and tail amount to.
Parse(shape, t) ==
  IF shape # "Zulu" THEN Refused(shape)
  ELSE IF ~InRange(t) THEN Refused("OutOfRange")
  ELSE Accepted(DaysFromCivil(t.year, t.month, t.day) * Day
                  + (t.hour * 3600 + t.minute * 60 + t.second))

-----------------------------------------------------------------------------
\* now(): a clock outside the band reads as 1970.
Now(clock) == IF FromEpoch(clock).error = "none" THEN clock ELSE 0

CalendarInit ==
  /\ \E clock \in Starts : now = Now(clock)
  /\ cutoff = Refused("none yet")

\* checked_sub_secs and checked_sub_days.
CheckedSub(secs) == cutoff' = FromEpoch(now - secs) /\ UNCHANGED now

CalendarNext == \E secs \in Spans : CheckedSub(secs)

CalendarSpec == CalendarInit /\ [][CalendarNext]_calendarVars

-----------------------------------------------------------------------------
EarlierDate(c, d) ==
  \/ c.year < d.year
  \/ c.year = d.year /\ c.month < d.month
  \/ c.year = d.year /\ c.month = d.month /\ c.day < d.day

\* The order of the canonical texts.
SortsBefore(s, t) ==
  \/ EarlierDate(s, t)
  \/ /\ s.year = t.year /\ s.month = t.month /\ s.day = t.day
     /\ \/ s.hour < t.hour
        \/ s.hour = t.hour /\ s.minute < t.minute
        \/ s.hour = t.hour /\ s.minute = t.minute /\ s.second < t.second

\* Every instant the program holds is written as a text that reads back as the
\* same instant, and a cutoff sorts before the instant it was taken from: the
\* archive's ORDER BY on text is the order in time, and a stored watermark is
\* the watermark (time.rs: "lexicographic order == chronological order").
CalendarIsExact ==
  /\ Parse("Zulu", FormatEpoch(now)) = Accepted(now)
  /\ cutoff.error = "none" =>
       /\ Parse("Zulu", FormatEpoch(cutoff.epoch)) = cutoff
       /\ cutoff.epoch < now => SortsBefore(FormatEpoch(cutoff.epoch), FormatEpoch(now))
=============================================================================
