-------------------------------- MODULE Instant --------------------------------
(***************************************************************************)
(* The moments of the contracts. What has a time is written, compared,     *)
(* hashed and stored as text, in one canonical form: UTC, three digits of  *)
(* a second. Arithmetic is done on milliseconds since 1970. The other      *)
(* modules count moments as numbers, which is right if the two tell the    *)
(* same story. One text need not be canonical: parseInstant returns a valid*)
(* text as it was written, and `world tick --until` compares it like that; *)
(* of such texts nothing is said here, nor in the other modules.           *)
(*                                                                         *)
(* A text is [year, month, day, hour, minute, second, fraction, offset]    *)
(* with numbers for its groups of digits, whose width the pattern fixes;   *)
(* the fraction keeps its digits, and an offset is Z (UTC) or a sign with  *)
(* hours and minutes.                                                      *)
(***************************************************************************)
EXTENDS Integers, Sequences

MsPerDay == 86400000
MsPerMinute == 60000

(* MILLISECOND_UNIT: the years 0000 to 9999.                               *)
Moments == {ms \in Int : -62167219200000 <= ms /\ ms <= 253402300799999}

-----------------------------------------------------------------------------
(* Dates and days since 1970.                                              *)
IsLeapYear(year) == (year % 4 = 0 /\ year % 100 # 0) \/ year % 400 = 0

DaysInMonth(year, month) ==
  IF month = 2 /\ IsLeapYear(year) THEN 29
  ELSE <<31, 28, 31, 30, 31, 30, 31, 31, 30, 31, 30, 31>>[month]

(* A year that begins in March is month 0 .. 11 of it and a number of days.*)
MonthPrime(month) == IF month > 2 THEN month - 3 ELSE month + 9
MonthStart(prime) == (153 * prime + 2) \div 5
YearStart(year) == year * 365 + year \div 4 - year \div 100

DaysFromCivil(year, month, day) ==
  LET shifted == IF month <= 2 THEN year - 1 ELSE year
      era == shifted \div 400
      dayOfYear == MonthStart(MonthPrime(month)) + day - 1
  IN era * 146097 + YearStart(shifted - era * 400) + dayOfYear - 719468

YearOfEra(dayOfEra) ==
  (dayOfEra - dayOfEra \div 1460 + dayOfEra \div 36524 - dayOfEra \div 146096) \div 365

(* The date of a day of such a year.                                       *)
CivilOf(year, dayOfYear) ==
  LET prime == (5 * dayOfYear + 2) \div 153
      month == IF prime < 10 THEN prime + 3 ELSE prime - 9
  IN [year |-> year + (IF month <= 2 THEN 1 ELSE 0),
      month |-> month,
      day |-> dayOfYear - MonthStart(prime) + 1]

CivilFromDays(days) ==
  LET era == (days + 719468) \div 146097
      dayOfEra == days + 719468 - era * 146097
      yearOfEra == YearOfEra(dayOfEra)
  IN CivilOf(era * 400 + yearOfEra, dayOfEra - YearStart(yearOfEra))

-----------------------------------------------------------------------------
UpTo(most) == {n \in Nat : n <= most}

UTC == [sign |-> 0, hours |-> 0, minutes |-> 0]
Offsets == {UTC} \cup [sign : {1, -1}, hours : UpTo(99), minutes : UpTo(99)]

(* STRICT_ISO_8601_INSTANT_PATTERN, any number of digits in the fraction.  *)
Texts == [year : UpTo(9999), month : UpTo(99), day : UpTo(99),
          hour : UpTo(99), minute : UpTo(99), second : UpTo(99),
          fraction : Seq(UpTo(9)), offset : Offsets]

(* parseInstant refuses what has no moment, or one it would have to round. *)
RealDate(year, month, day) == month \in 1 .. 12 /\ day \in 1 .. DaysInMonth(year, month)

Valid(t) ==
  /\ Len(t.fraction) <= 3
  /\ RealDate(t.year, t.month, t.day)
  /\ t.hour <= 23 /\ t.minute <= 59 /\ t.second <= 59
  /\ t.offset.hours <= 23 /\ t.offset.minutes <= 59

(* Digits that are not written are zeros.                                  *)
Digit(fraction, i) == IF i <= Len(fraction) THEN fraction[i] ELSE 0
Milliseconds(fraction) ==
  100 * Digit(fraction, 1) + 10 * Digit(fraction, 2) + Digit(fraction, 3)

OffsetMinutes(o) == o.sign * (o.hours * 60 + o.minutes)

MomentOf(days, hour, minute, second, ms) ==
  days * MsPerDay + hour * 3600000 + minute * 60000 + second * 1000 + ms

(* The moment a valid text names.                                          *)
EpochMs(t) ==
  MomentOf(DaysFromCivil(t.year, t.month, t.day), t.hour, t.minute, t.second,
           Milliseconds(t.fraction))
    - OffsetMinutes(t.offset) * MsPerMinute

ThreeDigits(ms) == <<ms \div 100, (ms \div 10) % 10, ms % 10>>

(* formatCanonicalInstant, for what is in Moments.                         *)
Canonical(ms) ==
  LET days == ms \div MsPerDay
      msOfDay == ms - days * MsPerDay
      date == CivilFromDays(days)
  IN [year |-> date.year, month |-> date.month, day |-> date.day,
      hour |-> msOfDay \div 3600000, minute |-> (msOfDay % 3600000) \div 60000,
      second |-> (msOfDay % 60000) \div 1000,
      fraction |-> ThreeDigits(msOfDay % 1000),
      offset |-> UTC]

(* isCanonicalInstant: the pattern, a valid text, and nothing else to say. *)
IsCanonical(t) ==
  /\ t.offset = UTC /\ Len(t.fraction) = 3
  /\ Valid(t) /\ Canonical(EpochMs(t)) = t

(* addMinutes: where it may lead.                                          *)
CanAddMinutes(ms, minutes) == ms + minutes * MsPerMinute \in Moments
AddMinutes(ms, minutes) == Canonical(ms + minutes * MsPerMinute)

(* compareByCodePoint on two texts of the same form: the first place in    *)
(* which they differ decides.                                              *)
Groups(t) == <<t.year, t.month, t.day, t.hour, t.minute, t.second,
               t.fraction[1], t.fraction[2], t.fraction[3]>>

Precedes(t, u) ==
  \E i \in 1 .. 9 :
    /\ Groups(t)[i] < Groups(u)[i]
    /\ \A j \in 1 .. i - 1 : Groups(t)[j] = Groups(u)[j]
=============================================================================
