------------------------------ MODULE Calendar ------------------------------
(* src/src/time.c: seconds to a calendar date (gmtime), back (mktime), and  *)
(* the fields of strftime that are computed; peripheral.c's 12-hour clock.  *)
(* time_t is an unsigned 32-bit count; the years checked stay below 2^31.   *)
EXTENDS Integers, Sequences, FiniteSets, LibraryCall

Day == 86400
LEAPOCH == 978307200              \* 2001-01-01
DAYS_PER_400Y == 365 * 400 + 97
DAYS_PER_100Y == 365 * 100 + 24
DAYS_PER_4Y == 365 * 4 + 1
days_in_month == <<31, 28, 31, 30, 31, 30, 31, 31, 30, 31, 30, 31>>

Leap(y) == y % 400 = 0 \/ (y % 100 # 0 /\ y % 4 = 0)

(* C's division and remainder, towards zero.                                *)
Quot(a, b) == IF a >= 0 THEN a \div b ELSE -((-a) \div b)
Rem(a, b) == a - b * Quot(a, b)

(* Line 102; n, the month's real length, is computed and not used.  The     *)
(* slip corrected uses it.                                                  *)
StaysWithin(ld, m, leap) == ld < IF m = 2 /\ leap THEN 29 ELSE days_in_month[m]
Stays(ld, m, leap) == ld <= days_in_month[m]

(* Line 104.                                                                *)
DaysPassed(m, leap) == days_in_month[m]

(* Lines 95-108: tm_mon + 1 and the days left.                              *)
MonthLoop(days, leap) ==
  LET f[p \in (1 .. 13) \X Int] ==
        LET m == p[1]
            ld == p[2]
        IN IF m = 13 \/ Stays(ld, m, leap) THEN p ELSE f[<<m + 1, ld - DaysPassed(m, leap)>>]
  IN f[<<1, days>>]

Gmtime(t) ==
  LET ld == t \div Day - LEAPOCH \div Day
      in400 == Rem(ld, DAYS_PER_400Y)
      in100 == Rem(in400, DAYS_PER_100Y)
      in4 == Rem(in100, DAYS_PER_4Y)
      y == 2001 + 400 * Quot(ld, DAYS_PER_400Y) + 100 * Quot(in400, DAYS_PER_100Y)
             + 4 * Quot(in100, DAYS_PER_4Y) + Quot(in4, 365)
      md == MonthLoop(Rem(in4, 365), Leap(y))
  IN [sec |-> t % 60, min |-> (t \div 60) % 60, hour |-> (t \div 3600) % 24,
      wday |-> Rem(ld + 1, 7), year |-> y, yday |-> Rem(in4, 365),
      mon |-> md[1], mday |-> md[2] + 1]

(* The days of the months before tm_mon, lines 126-131.  The table is of as *)
(* many months as are read, so past its end it is what is in memory there.  *)
MonthsOf(table, y, mon) ==
  LET d[m \in 0 .. Len(table)] == IF m = 0 THEN 0
        ELSE d[m - 1] + table[m] + (IF table[m] = 28 /\ Leap(y) THEN 1 ELSE 0)
  IN IF mon <= 1 THEN 0 ELSE d[mon - 1]
MonthsBefore(y, mon) == MonthsOf(days_in_month, y, mon)

(* Lines 132-149: days between 2001-01-01 and the year, whichever is first. *)
Years(y) ==
  LET dy == IF y >= 2001 THEN y - 2001 ELSE 2001 - y
      dd == (dy \div 400) * DAYS_PER_400Y + ((dy % 400) \div 100) * DAYS_PER_100Y
              + ((dy % 100) \div 4) * DAYS_PER_4Y + (dy % 4) * 365
  IN IF y > 2000 THEN dd ELSE -dd

MktimeReading(table, tm) ==
  tm.sec + tm.min * 60 + tm.hour * 3600
    + (tm.mday - 1 + MonthsOf(table, tm.year, tm.mon) + Years(tm.year)) * Day + LEAPOCH
Mktime(tm) == MktimeReading(days_in_month, tm)

(* cmos_get_time_raw, peripheral.c lines 41-51, of an hour register that    *)
(* has been converted from BCD.                                             *)
Hours(h, isPm, twentyFour) == IF ~twentyFour /\ isPm THEN (h + 12) % 24 ELSE h

TwelveHour(hour) == Rem(hour - 1, 12) + 1
WeekdayU(wday) == Rem(wday - 1, 7) + 1

(* The computed fields of strftime, lines 241-398.                          *)
Strftime(tm) ==
  [I |-> TwelveHour(tm.hour), u |-> WeekdayU(tm.wday),
   y |-> tm.year - 1900, j |-> tm.yday, p |-> tm.hour >= 12]

(* A conversion that stands for several is put in a buffer by strftime      *)
(* itself, which ends nothing with a zero: what the buffer held follows.    *)
Composite(text, left) == text \o left

CallGmtime == Return("gmtime", Gmtime(arg.t))
CallMktime == Return("mktime", Mktime(arg.tm))
CallBoth == Return("mktime(gmtime)", Mktime(Gmtime(arg.t)))
CallHours == Return("hours", Hours(arg.h, arg.pm, arg.h24))
CallStrftime == Return("strftime", Strftime(arg.tm))
CallMonth == Return("mktime(month)", MktimeReading(days_in_month \o arg.beyond, arg.tm))
CallComposite == Return("strftime(composite)", Composite(arg.text, arg.left))
CalendarNext == CallMonth \/ CallComposite \/ CallGmtime \/ CallMktime \/ CallBoth \/ CallHours \/ CallStrftime

-----------------------------------------------------------------------------
(* The reference calendar: a date is a record of year, month, day of month. *)
LeapsBefore(y) == Cardinality({z \in 1970 .. y - 1 : Leap(z)})
DaysSince1970(y, m, d) ==
  365 * (y - 1970) + LeapsBefore(y) + MonthsBefore(y, m) + d - 1
MonthLength(y, m) == IF m = 2 /\ Leap(y) THEN 29 ELSE days_in_month[m]

(* arg for the second tod of a date.                                        *)
Moment(y, m, d, tod) ==
  [y |-> y, m |-> m, d |-> d, tod |-> tod, t |-> DaysSince1970(y, m, d) * Day + tod,
   tm |-> [sec |-> tod % 60, min |-> (tod \div 60) % 60, hour |-> tod \div 3600,
           wday |-> (DaysSince1970(y, m, d) + 4) % 7, year |-> y, mon |-> m, mday |-> d,
           yday |-> DaysSince1970(y, m, d) - DaysSince1970(y, 1, 1)]]

(* The moments of some years; a call from a state in which nothing has been *)
(* returned.  Up to 2069 mktime's days, in seconds, fit an int; time_t ends *)
(* in 2106.                                                                 *)
OfYears(x, years) == \E y \in years, m \in 1 .. 12, d \in 1 .. 31, tod \in 0 .. Day - 1 :
                       x = Moment(y, m, d, tod) /\ d <= MonthLength(y, m)
OfAnHour(x) == \E hour \in 0 .. 23, h24 \in BOOLEAN :
  x = [hour |-> hour, h24 |-> h24, pm |-> ~h24 /\ hour >= 12,
       h |-> IF h24 THEN hour ELSE ((hour + 11) % 12) + 1]
Byte == -128 .. 127
MonthArg(x, y, mon, mday, beyond) ==
  /\ y \in 2001 .. 2069 /\ mday \in 1 .. 31 /\ mon <= 24 /\ mon - 13 <= Len(beyond)
  /\ x = [tm |-> [sec |-> 0, min |-> 0, hour |-> 0, mday |-> mday, mon |-> mon, year |-> y], beyond |-> beyond]
OfAMonth(x) == \E y, mon, mday \in Int, beyond \in Seq(Byte) : MonthArg(x, y, mon, mday, beyond)
CalendarCalls ==
  \/ fn \in {"gmtime", "strftime"} /\ OfYears(arg, 1970 .. 2105)
  \/ fn \in {"mktime", "mktime(gmtime)"} /\ OfYears(arg, 1970 .. 2069)
  \/ fn = "hours" /\ OfAnHour(arg)
  \/ fn = "mktime(month)" /\ OfAMonth(arg)
  \/ fn = "strftime(composite)" /\ arg \in [text : Seq(STRING), left : Seq(STRING)]
CalendarInit == ret = <<>> /\ CalendarCalls
CalendarSpec == CalendarInit /\ [][CalendarNext]_callVars

LateInLeapYear == Leap(arg.y) /\ arg.m > 2
LastOfLeapYear == Leap(arg.y) /\ arg.m = 12 /\ arg.d = 31
AfterMonthEnd == arg.d = 1 /\ arg.m > 1 /\ (~Leap(arg.y) \/ arg.m = 2)

(* gmtime (time.c:102) gives the right date from 2001 on except on three    *)
(* kinds of days: the first of a month, shown as the day after the last of  *)
(* the one before; every day after February of a leap year, a day late; and *)
(* the last of a leap year, shown as the next New Year.  The time of day    *)
(* and the day of the week are right.  Before 2001 the date is right on the *)
(* New Year every fourth year before 2001 and on no other day.              *)
GmtimeRightExcept ==
  Returned("gmtime") =>
    LET r == Result
        date == r.year = arg.y /\ r.mon = arg.m /\ r.mday = arg.d
    IN /\ 3600 * r.hour + 60 * r.min + r.sec = arg.tod
       /\ arg.y > 2000 => r.wday = arg.tm.wday
       /\ date <=> IF arg.y > 2000 THEN ~AfterMonthEnd /\ ~LateInLeapYear
                   ELSE arg.m = 1 /\ arg.d = 1 /\ (2001 - arg.y) % 4 = 0

(* mktime (time.c:132) is right for every year from 2001 on; the truncating *)
(* count of leap days makes it a day late in every earlier year but each    *)
(* fourth one.                                                              *)
MktimeRightExcept ==
  Returned("mktime") =>
    Result = arg.t + (IF arg.y <= 2000 /\ (2001 - arg.y) % 4 # 0 THEN Day ELSE 0)

(* A time sent through os.date("*t") and os.time comes back as it was,      *)
(* except that a leap year's days from March on come back a day later: what *)
(* gmtime writes as 32 January mktime reads as 1 February.                  *)
RoundTrip ==
  Returned("mktime(gmtime)") /\ arg.y > 2000 =>
    Result = arg.t + (IF LateInLeapYear THEN Day ELSE 0)

(* The hour is the clock's, in 12-hour mode except at noon and midnight,    *)
(* which are exchanged (peripheral.c:50, "possibly fix it").                *)
HoursRightExcept ==
  Returned("hours") => (Result = arg.hour <=> arg.h24 \/ arg.hour \notin {0, 12})

(* strftime's computed fields: %I is 0 for midnight's hour, %u is 0 on      *)
(* Sunday, %y has three digits from 2000 on and %j counts from 0.           *)
StrftimeRightExcept ==
  Returned("strftime") =>
    /\ Result.I = ((arg.tm.hour + 11) % 12) + 1 <=> arg.tm.hour # 0
    /\ Result.u = ((arg.tm.wday + 6) % 7) + 1 <=> arg.tm.wday # 0
    /\ Result.y = arg.y % 100 <=> arg.y < 2000
    /\ Result.j # arg.tm.yday + 1

(* os.time may be given any month.  One after the next January is right     *)
(* only if the bytes after the table (time.c:128) are the months that       *)
(* follow; one before January is taken for January.                         *)
MonthsNormalised ==
  Returned("mktime(month)") =>
    LET y == arg.tm.year + (arg.tm.mon - 1) \div 12
        m == ((arg.tm.mon - 1) % 12) + 1
        normal == DaysSince1970(y, m, arg.tm.mday) * Day
        read == SubSeq(arg.beyond, 1, arg.tm.mon - 13)
    IN Result = normal <=> \/ arg.tm.mon \in 1 .. 13
                           \/ arg.tm.mon > 13 /\ MonthsOf(read, arg.tm.year, Len(read) + 1) = MonthsBefore(y, m)

(* os.date's own format, "%c", is right only if the buffer held a zero      *)
(* where the text ends.                                                     *)
CompositeEnds ==
  Returned("strftime(composite)") => SubSeq(Result, 1, Len(arg.text)) = arg.text /\ (Result = arg.text <=> arg.left = <<>>)

(* The calendar is right but for the days and hours named above.            *)
CalendarRight == GmtimeRightExcept /\ MktimeRightExcept /\ RoundTrip /\ HoursRightExcept /\ StrftimeRightExcept
                   /\ MonthsNormalised /\ CompositeEnds
=============================================================================
