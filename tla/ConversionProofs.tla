---------------------------- MODULE ConversionProofs ---------------------------
(***************************************************************************)
(* The canonical text of a moment: it names the moment, it is the only one *)
(* that does, and the order of texts is the order of moments. Then what the*)
(* rounding modes promise, for every decimal with a tail: the decimal is   *)
(* Parts(d) parts of which Whole(d) make one minor unit.                   *)
(***************************************************************************)
EXTENDS Instant, Numeric, SequenceTheorems, TLAPS

-----------------------------------------------------------------------------
(* An era of 400 years is centuries, spans of four years and years; the    *)
(* last day of a leap year is day 365 of one that began in March.          *)
LeapDay(a, b, c) == c = 3 /\ (b # 24 \/ a = 3)

LEMMA YearInEra ==
  ASSUME NEW y \in UpTo(399)
  PROVE  \E a \in UpTo(3), b \in UpTo(24), c \in UpTo(3) : y = 100 * a + 4 * b + c
<1> DEFINE a == y \div 100
           b == (y - 100 * a) \div 4
           c == y - 100 * a - 4 * b
<1>1. a \in UpTo(3) /\ b \in UpTo(24) /\ c \in UpTo(3) /\ y = 100 * a + 4 * b + c
  BY SMT DEF UpTo
<1>2. QED
  BY SMT, <1>1 DEF UpTo

LEMMA YearStarts ==
  ASSUME NEW a \in UpTo(3), NEW b \in UpTo(24), NEW c \in UpTo(3)
  PROVE  YearStart(100 * a + 4 * b + c) = 36524 * a + 1461 * b + 365 * c
<1> DEFINE y == 100 * a + 4 * b + c
<1>1. y \div 4 = 25 * a + b
  BY SMT DEF UpTo
<1>2. y \div 100 = a
  BY SMT DEF UpTo
<1>3. QED
  BY SMT, <1>1, <1>2 DEF YearStart, UpTo

(* The year a day of an era lies in.                                       *)
LEMMA YearOfDay ==
  ASSUME NEW a \in UpTo(3), NEW b \in UpTo(24), NEW c \in UpTo(3),
         NEW n \in UpTo(365), n = 365 => LeapDay(a, b, c)
  PROVE  YearOfEra(36524 * a + 1461 * b + 365 * c + n) = 100 * a + 4 * b + c
<1> USE DEF LeapDay
<1>1. PICK d \in UpTo(146096) : d = 36524 * a + 1461 * b + 365 * c + n
  BY SMT DEF UpTo
<1>2. PICK last \in {0, 1} : d = 146096 <=> last = 1
  BY SMT DEF UpTo
<1>3. PICK over \in {0, 1} : 24 * a + b + 365 * c + n >= 1460 <=> over = 1
  BY SMT DEF UpTo
<1>4. d \div 36524 = a + last /\ d \div 146096 = last
  BY SMT, <1>1, <1>2 DEF UpTo
<1>5. d \div 1460 = 25 * a + b + over
  BY SMT, <1>1, <1>3 DEF UpTo
<1>6. n - over \in UpTo(364)
  BY SMT, <1>3 DEF UpTo
<1>7. d - d \div 1460 + d \div 36524 - d \div 146096 = 365 * (100 * a + 4 * b + c) + (n - over)
  BY SMT, <1>1, <1>4, <1>5 DEF UpTo
<1>8. (365 * (100 * a + 4 * b + c) + (n - over)) \div 365 = 100 * a + 4 * b + c
  BY SMT, <1>6 DEF UpTo
<1>9. QED
  BY SMT, <1>1, <1>7, <1>8 DEF YearOfEra, UpTo

(* Days of an era, of a century and of four years.                         *)
LEMMA CenturyOf ==
  ASSUME NEW d \in UpTo(146095)
  PROVE  \E a \in UpTo(3), r \in UpTo(36523) : d = 36524 * a + r
<1>1. d \div 36524 \in UpTo(3) /\ d % 36524 \in UpTo(36523) /\ d = 36524 * (d \div 36524) + (d % 36524)
  BY SMT DEF UpTo
<1>2. QED
  BY SMT, <1>1 DEF UpTo

LEMMA SpanOf ==
  ASSUME NEW r \in UpTo(36523)
  PROVE  \E b \in UpTo(24), s \in UpTo(1460) : r = 1461 * b + s /\ (b = 24 => s < 1460)
<1>1. r \div 1461 \in UpTo(24) /\ r % 1461 \in UpTo(1460) /\ r = 1461 * (r \div 1461) + (r % 1461)
  BY SMT DEF UpTo
<1>2. r \div 1461 = 24 => r % 1461 < 1460
  BY SMT, <1>1 DEF UpTo
<1>3. QED
  BY SMT, <1>1, <1>2 DEF UpTo

LEMMA YearOf ==
  ASSUME NEW s \in UpTo(1460)
  PROVE  \E c \in UpTo(3), n \in UpTo(365) : s = 365 * c + n /\ (n = 365 => c = 3 /\ s = 1460)
<1>1. CASE s = 1460
  BY SMT, <1>1 DEF UpTo
<1>2. CASE s # 1460
  <2>1. s \div 365 \in UpTo(3) /\ s % 365 \in UpTo(364) /\ s = 365 * (s \div 365) + (s % 365)
    BY SMT, <1>2 DEF UpTo
  <2>2. QED
    BY SMT, <2>1 DEF UpTo
<1>3. QED
  BY SMT, <1>1, <1>2 DEF UpTo

(* Every day of an era lies in a year.                                     *)
LEMMA DayInEra ==
  ASSUME NEW d \in UpTo(146096)
  PROVE  \E a \in UpTo(3), b \in UpTo(24), c \in UpTo(3), n \in UpTo(365) :
           /\ d = 36524 * a + 1461 * b + 365 * c + n
           /\ n = 365 => LeapDay(a, b, c)
<1>1. CASE d = 146096
  <2>1. /\ 3 \in UpTo(3) /\ 24 \in UpTo(24) /\ 365 \in UpTo(365) /\ LeapDay(3, 24, 3)
        /\ d = 36524 * 3 + 1461 * 24 + 365 * 3 + 365
    BY SMT, <1>1 DEF LeapDay, UpTo
  <2>2. QED
    BY SMT, <2>1 DEF UpTo
<1>2. CASE d # 146096
  <2>0. d \in UpTo(146095)
    BY SMT, <1>2 DEF UpTo
  <2>1. PICK a \in UpTo(3), r \in UpTo(36523) : d = 36524 * a + r
    BY SMT, <2>0, CenturyOf
  <2>2. PICK b \in UpTo(24), s \in UpTo(1460) : r = 1461 * b + s /\ (b = 24 => s < 1460)
    BY SMT, SpanOf
  <2>3. PICK c \in UpTo(3), n \in UpTo(365) : s = 365 * c + n /\ (n = 365 => c = 3 /\ s = 1460)
    BY SMT, YearOf
  <2>4. d = 36524 * a + 1461 * b + 365 * c + n
    BY SMT, <2>1, <2>2, <2>3 DEF UpTo
  <2>5. n = 365 => LeapDay(a, b, c)
    BY SMT, <2>2, <2>3 DEF LeapDay, UpTo
  <2>6. QED
    BY SMT, <2>4, <2>5 DEF UpTo
<1>3. QED
  BY SMT, <1>1, <1>2 DEF UpTo

(* A year that begins in March has 366 days if the next one is a leap year.*)
LEMMA LeapInEra ==
  ASSUME NEW a \in UpTo(3), NEW b \in UpTo(24), NEW c \in UpTo(3), NEW era \in Int
  PROVE  LeapDay(a, b, c) <=> IsLeapYear(era * 400 + (100 * a + 4 * b + c) + 1)
<1> DEFINE y == era * 400 + (100 * a + 4 * b + c) + 1
<1>1. (y % 4 = 0) <=> c = 3
  BY SMT DEF UpTo
<1>2. (y % 100 = 0) <=> c = 3 /\ b = 24
  BY SMT DEF UpTo
<1>3. (y % 400 = 0) <=> c = 3 /\ b = 24 /\ a = 3
  BY SMT DEF UpTo
<1> HIDE DEF y
<1>4. LeapDay(a, b, c) <=> IsLeapYear(y)
  BY SMT, <1>1, <1>2, <1>3 DEF LeapDay, IsLeapYear, UpTo
<1>5. QED
  BY SMT, <1>4 DEF y, UpTo

LEMMA EraAndBack ==
  ASSUME NEW y \in UpTo(399), NEW n \in UpTo(365), NEW era \in Int,
         n = 365 => IsLeapYear(era * 400 + y + 1)
  PROVE  YearStart(y) + n \in UpTo(146096) /\ YearOfEra(YearStart(y) + n) = y
<1>1. PICK a \in UpTo(3), b \in UpTo(24), c \in UpTo(3) : y = 100 * a + 4 * b + c
  BY SMT, YearInEra
<1>2. YearStart(y) = 36524 * a + 1461 * b + 365 * c
  <2>1. YearStart(100 * a + 4 * b + c) = 36524 * a + 1461 * b + 365 * c
    BY SMT, YearStarts
  <2>2. QED
    BY SMT, <1>1, <2>1
<1>3. n = 365 => LeapDay(a, b, c)
  <2>1. LeapDay(a, b, c) <=> IsLeapYear(era * 400 + (100 * a + 4 * b + c) + 1)
    BY SMT, LeapInEra
  <2>2. QED
    BY SMT, <1>1, <2>1
<1>4. YearOfEra(36524 * a + 1461 * b + 365 * c + n) = y
  <2>1. YearOfEra(36524 * a + 1461 * b + 365 * c + n) = 100 * a + 4 * b + c
    BY SMT, <1>3, YearOfDay
  <2>2. QED
    BY SMT, <1>1, <2>1
<1>5. 36524 * a + 1461 * b + 365 * c + n \in UpTo(146096)
  BY SMT, <1>3 DEF LeapDay, UpTo
<1>6. QED
  BY SMT, <1>2, <1>4, <1>5 DEF UpTo

LEMMA DayAndBack ==
  ASSUME NEW d \in UpTo(146096), NEW era \in Int
  PROVE  \E y \in UpTo(399), n \in UpTo(365) :
           /\ YearOfEra(d) = y /\ d = YearStart(y) + n
           /\ n = 365 => IsLeapYear(era * 400 + y + 1)
<1>1. PICK a \in UpTo(3), b \in UpTo(24), c \in UpTo(3), n \in UpTo(365) :
        /\ d = 36524 * a + 1461 * b + 365 * c + n
        /\ n = 365 => LeapDay(a, b, c)
  BY SMT, DayInEra
<1> DEFINE y == 100 * a + 4 * b + c
<1>2. YearOfEra(d) = y
  BY SMT, <1>1, YearOfDay
<1>3. d = YearStart(y) + n
  BY SMT, <1>1, YearStarts
<1>4. n = 365 => IsLeapYear(era * 400 + y + 1)
  BY SMT, <1>1, LeapInEra
<1>5. y \in UpTo(399)
  BY SMT DEF UpTo
<1>6. QED
  BY SMT, <1>2, <1>3, <1>4, <1>5 DEF UpTo

-----------------------------------------------------------------------------
(* The months of a year that begins in March.                              *)
MonthLength(prime) == <<31, 30, 31, 30, 31, 31, 30, 31, 30, 31, 31, 29>>[prime + 1]

LEMMA MonthOfDay ==
  ASSUME NEW n \in UpTo(365)
  PROVE  \E prime \in UpTo(11) :
           /\ (5 * n + 2) \div 153 = prime
           /\ n - MonthStart(prime) \in UpTo(MonthLength(prime) - 1)
<1>1. (5 * n + 2) \div 153 \in UpTo(11)
  BY SMT DEF UpTo
<1>2. n - MonthStart((5 * n + 2) \div 153) \in UpTo(MonthLength((5 * n + 2) \div 153) - 1)
  BY SMT, <1>1 DEF MonthStart, MonthLength, UpTo
<1>3. QED
  BY SMT, <1>1, <1>2 DEF UpTo

LEMMA DayOfMonth ==
  ASSUME NEW prime \in UpTo(11), NEW k \in UpTo(MonthLength(prime) - 1)
  PROVE  MonthStart(prime) + k \in UpTo(365) /\ (5 * (MonthStart(prime) + k) + 2) \div 153 = prime
  BY SMT DEF MonthStart, MonthLength, UpTo

(* The last day of a long year is the only one that asks for a leap year.  *)
LEMMA LastDay ==
  ASSUME NEW prime \in UpTo(11), NEW k \in UpTo(MonthLength(prime) - 1)
  PROVE  MonthStart(prime) + k = 365 <=> prime = 11 /\ k = 28
  BY SMT DEF MonthStart, MonthLength, UpTo

Shifted(year, month) == IF month <= 2 THEN year - 1 ELSE year

LEMMA DatesFromMarch ==
  ASSUME NEW year \in Int, NEW month \in 1 .. 12, NEW day \in Int
  PROVE  /\ MonthPrime(month) \in UpTo(11)
         /\ RealDate(year, month, day) <=>
              /\ day - 1 \in UpTo(MonthLength(MonthPrime(month)) - 1)
              /\ MonthPrime(month) = 11 /\ day - 1 = 28 => IsLeapYear(Shifted(year, month) + 1)
<1>1. MonthPrime(month) \in UpTo(11)
  BY SMT DEF MonthPrime, UpTo
<1>2. MonthPrime(month) = 11 <=> month = 2
  BY SMT DEF MonthPrime
<1>3. month = 2 => Shifted(year, month) + 1 = year
  BY SMT DEF Shifted
<1>4. CASE month = 2
  <2>1. DaysInMonth(year, month) = IF IsLeapYear(year) THEN 29 ELSE 28
    BY SMT, <1>4 DEF DaysInMonth
  <2>2. MonthLength(MonthPrime(month)) = 29
    BY SMT, <1>2, <1>4 DEF MonthLength
  <2>3. QED
    BY SMT, <1>1, <1>2, <1>3, <1>4, <2>1, <2>2 DEF RealDate, UpTo
<1>5. CASE month # 2
  <2>1. DaysInMonth(year, month) = MonthLength(MonthPrime(month))
    BY SMT, <1>5 DEF DaysInMonth, MonthLength, MonthPrime
  <2>2. MonthLength(MonthPrime(month)) \in Nat
    BY SMT, <1>1 DEF MonthLength, UpTo
  <2>3. QED
    BY SMT, <1>1, <1>2, <1>5, <2>1, <2>2 DEF RealDate, UpTo
<1>6. QED
  BY SMT, <1>1, <1>4, <1>5

(* daysFromCivil and civilFromDays are written from different formulas;    *)
(* each undoes the other, for every date of the calendar.                  *)
THEOREM DateOfItsDay ==
  ASSUME NEW year \in Int, NEW month \in Int, NEW day \in Int, RealDate(year, month, day)
  PROVE  /\ DaysFromCivil(year, month, day) \in Int
         /\ CivilFromDays(DaysFromCivil(year, month, day)) =
              [year |-> year, month |-> month, day |-> day]
<1> DEFINE shifted == Shifted(year, month)
           era == shifted \div 400
           y == shifted - era * 400
           prime == MonthPrime(month)
           k == day - 1
           n == MonthStart(prime) + k
           days == DaysFromCivil(year, month, day)
<1>1. month \in 1 .. 12
  BY SMT DEF RealDate
<1>2. era \in Int /\ y \in UpTo(399) /\ shifted = era * 400 + y
  BY SMT DEF Shifted, UpTo
<1>3. prime \in UpTo(11) /\ k \in UpTo(MonthLength(prime) - 1)
  BY SMT, <1>1, DatesFromMarch
<1>4. prime = 11 /\ k = 28 => IsLeapYear(shifted + 1)
  BY SMT, <1>1, DatesFromMarch
<1>5. n \in UpTo(365) /\ (5 * n + 2) \div 153 = prime
  BY SMT, <1>3, DayOfMonth
<1>6. n = 365 => IsLeapYear(era * 400 + y + 1)
  <2>1. n = 365 <=> prime = 11 /\ k = 28
    BY SMT, <1>3, LastDay
  <2>2. QED
    BY SMT, <1>2, <1>4, <2>1
<1>7. YearStart(y) + n \in UpTo(146096) /\ YearOfEra(YearStart(y) + n) = y
  BY SMT, <1>2, <1>5, <1>6, EraAndBack
<1>8. YearStart(y) \in Int /\ n \in Int /\ k \in Int
  BY SMT, <1>2, <1>5 DEF YearStart, UpTo
<1>9. days = era * 146097 + YearStart(y) + n - 719468
  BY SMT DEF DaysFromCivil, Shifted
<1> HIDE DEF era, y, n, prime, k, days
<1>10. days \in Int /\ (days + 719468) \div 146097 = era
       /\ days + 719468 - era * 146097 = YearStart(y) + n
  BY SMT, <1>2, <1>7, <1>8, <1>9 DEF UpTo
<1>11. CivilFromDays(days) = CivilOf(era * 400 + y, n)
  <2>1. YearStart(y) + n - YearStart(y) = n
    BY SMT, <1>8
  <2>2. QED
    BY SMT, <1>2, <1>7, <1>8, <1>10, <2>1 DEF CivilFromDays, UpTo
<1>12. (IF prime < 10 THEN prime + 3 ELSE prime - 9) = month
  BY SMT, <1>1 DEF prime, MonthPrime
<1>13. era * 400 + y + (IF month <= 2 THEN 1 ELSE 0) = year
  BY SMT, <1>1, <1>2 DEF Shifted
<1>14. n - MonthStart(prime) + 1 = day
  BY SMT, <1>3, <1>8 DEF n, k, MonthStart, UpTo
<1>15. CivilOf(era * 400 + y, n) = [year |-> year, month |-> month, day |-> day]
  BY SMT, <1>5, <1>12, <1>13, <1>14 DEF CivilOf
<1>16. QED
  BY SMT, <1>10, <1>11, <1>15 DEF days

(* And for every number of days, before and after 1970.                    *)
THEOREM DayOfItsDate ==
  ASSUME NEW days \in Int
  PROVE  LET date == CivilFromDays(days)
         IN /\ date.year \in Int /\ RealDate(date.year, date.month, date.day)
            /\ DaysFromCivil(date.year, date.month, date.day) = days
<1> DEFINE era == (days + 719468) \div 146097
           d == days + 719468 - era * 146097
<1>1. era \in Int /\ d \in UpTo(146096) /\ days + 719468 = era * 146097 + d
  BY SMT DEF UpTo
<1> HIDE DEF era, d
<1>2. PICK y \in UpTo(399), n \in UpTo(365) :
        /\ YearOfEra(d) = y /\ d = YearStart(y) + n
        /\ n = 365 => IsLeapYear(era * 400 + y + 1)
  BY SMT, <1>1, DayAndBack
<1>3. PICK prime \in UpTo(11) :
        /\ (5 * n + 2) \div 153 = prime
        /\ n - MonthStart(prime) \in UpTo(MonthLength(prime) - 1)
  BY SMT, <1>2, MonthOfDay
<1> DEFINE k == n - MonthStart(prime)
           month == IF prime < 10 THEN prime + 3 ELSE prime - 9
           year == era * 400 + y + (IF month <= 2 THEN 1 ELSE 0)
<1>4. n \in Int /\ y \in Int /\ YearStart(y) \in Int /\ MonthStart(prime) \in Int
  BY SMT DEF YearStart, MonthStart, UpTo
<1>5. CivilFromDays(days) = CivilOf(era * 400 + y, n)
  <2>1. YearStart(y) + n - YearStart(y) = n
    BY SMT, <1>4
  <2>2. CivilFromDays(days) = CivilOf(era * 400 + YearOfEra(d), d - YearStart(YearOfEra(d)))
    BY SMT DEF CivilFromDays, era, d
  <2>3. QED
    BY SMT, <1>2, <1>4, <2>1, <2>2
<1>6. CivilOf(era * 400 + y, n) = [year |-> year, month |-> month, day |-> k + 1]
  BY SMT, <1>3 DEF CivilOf
<1>7. month \in 1 .. 12 /\ MonthPrime(month) = prime
  BY SMT DEF MonthPrime, UpTo
<1>8. year \in Int /\ Shifted(year, month) = era * 400 + y
  BY SMT, <1>1, <1>4, <1>7 DEF Shifted
<1>9. k \in UpTo(MonthLength(prime) - 1) /\ k \in Int /\ MonthStart(prime) + k = n
  BY SMT, <1>3, <1>4
<1> HIDE DEF k, month, year
<1>10. prime = 11 /\ k = 28 => IsLeapYear(era * 400 + y + 1)
  BY SMT, <1>2, <1>9, LastDay
<1>11. RealDate(year, month, k + 1)
  <2>1. (k + 1) - 1 = k /\ k + 1 \in Int
    BY SMT, <1>9
  <2>2. QED
    BY SMT, <1>7, <1>8, <1>9, <1>10, <2>1, DatesFromMarch
<1>12. DaysFromCivil(year, month, k + 1) = days
  <2>1. (era * 400 + y) \div 400 = era /\ (era * 400 + y) - era * 400 = y
    BY SMT, <1>1, <1>4 DEF UpTo
  <2>2. DaysFromCivil(year, month, k + 1) =
          era * 146097 + YearStart(y) + (MonthStart(prime) + (k + 1) - 1) - 719468
    BY SMT, <1>1, <1>4, <1>7, <1>8, <1>9, <2>1 DEF DaysFromCivil, Shifted
  <2>3. MonthStart(prime) + (k + 1) - 1 = n
    BY SMT, <1>4, <1>9
  <2>4. DaysFromCivil(year, month, k + 1) = era * 146097 + YearStart(y) + n - 719468
    BY SMT, <2>2, <2>3
  <2>5. QED
    BY SMT, <1>1, <1>2, <1>4, <2>4
<1>13. QED
  BY SMT, <1>5, <1>6, <1>8, <1>11, <1>12

-----------------------------------------------------------------------------
(* Later dates are later days.                                             *)
MarchOf(year) == year * 365 + year \div 4 - year \div 100 + year \div 400

LEMMA DaysFromMarch ==
  ASSUME NEW year \in Int, NEW month \in Int, NEW day \in Int
  PROVE  DaysFromCivil(year, month, day) =
           MarchOf(Shifted(year, month)) + (MonthStart(MonthPrime(month)) + day - 1) - 719468
<1>1. PICK shifted \in Int : shifted = Shifted(year, month)
  BY SMT DEF Shifted
<1> DEFINE era == shifted \div 400
           y == shifted - era * 400
<1>2. era \in Int /\ y \in UpTo(399) /\ shifted = era * 400 + y
  BY SMT DEF UpTo
<1>3. DaysFromCivil(year, month, day) =
        era * 146097 + YearStart(y) + (MonthStart(MonthPrime(month)) + day - 1) - 719468
  BY SMT, <1>1 DEF DaysFromCivil, Shifted
<1>4. shifted \div 400 = era
  BY SMT
<1> HIDE DEF era, y
<1>5. shifted \div 4 = era * 100 + y \div 4 /\ shifted \div 100 = era * 4 + y \div 100
  BY SMT, <1>2 DEF UpTo
<1>6. era * 146097 + YearStart(y) = MarchOf(shifted)
  BY SMT, <1>2, <1>4, <1>5 DEF YearStart, MarchOf, UpTo
<1>7. MonthStart(MonthPrime(month)) \in Int /\ YearStart(y) \in Int
  BY SMT, <1>2 DEF MonthStart, MonthPrime, YearStart, UpTo
<1>8. QED
  BY SMT, <1>1, <1>2, <1>3, <1>6, <1>7

LEMMA LongerYears ==
  ASSUME NEW year \in Int
  PROVE  MarchOf(year + 1) = MarchOf(year) + (IF IsLeapYear(year + 1) THEN 366 ELSE 365)
<1>1. (year + 1) \div 4 = (year \div 4) + (IF (year + 1) % 4 = 0 THEN 1 ELSE 0)
  BY SMT
<1>2. (year + 1) \div 100 = (year \div 100) + (IF (year + 1) % 100 = 0 THEN 1 ELSE 0)
  BY SMT
<1>3. (year + 1) \div 400 = (year \div 400) + (IF (year + 1) % 400 = 0 THEN 1 ELSE 0)
  BY SMT
<1>4. ((year + 1) % 100 = 0 => (year + 1) % 4 = 0) /\ ((year + 1) % 400 = 0 => (year + 1) % 100 = 0)
  BY SMT
<1>5. QED
  BY SMT, <1>1, <1>2, <1>3, <1>4 DEF MarchOf, IsLeapYear

LEMMA LaterMarches ==
  ASSUME NEW year \in Int, NEW later \in Int, year <= later
  PROVE  MarchOf(year) <= MarchOf(later)
<1>1. (year \div 4) - (year \div 100) <= (later \div 4) - (later \div 100)
  <2>1. year \div 100 = (year \div 4) \div 25 /\ later \div 100 = (later \div 4) \div 25
    BY SMT
  <2>2. year \div 4 <= later \div 4
    BY SMT
  <2>3. QED
    BY SMT, <2>1, <2>2
<1>2. year \div 400 <= later \div 400
  BY SMT
<1>3. QED
  BY SMT, <1>1, <1>2 DEF MarchOf

(* A date lies between the first of January and the last of December.      *)
LEMMA DaysOfYear ==
  ASSUME NEW year \in Int, NEW month \in Int, NEW day \in Int, RealDate(year, month, day)
  PROVE  LET days == DaysFromCivil(year, month, day) + 719468
         IN /\ MarchOf(year - 1) + 306 <= days /\ days <= MarchOf(year) + 305
            /\ month <= 2 <=> days < MarchOf(year)
<1> DEFINE prime == MonthPrime(month)
           k == day - 1
           n == MonthStart(prime) + k
           days == DaysFromCivil(year, month, day) + 719468
<1>1. month \in 1 .. 12
  BY SMT DEF RealDate
<1>2. /\ prime \in UpTo(11) /\ k \in UpTo(MonthLength(prime) - 1)
      /\ prime = 11 /\ k = 28 => IsLeapYear(Shifted(year, month) + 1)
  BY SMT, <1>1, DatesFromMarch
<1>3. n = 365 <=> prime = 11 /\ k = 28
  BY SMT, <1>2, LastDay
<1>4. n \in UpTo(365)
  BY SMT, <1>2, DayOfMonth
<1>5. MonthStart(prime) \in Int /\ MarchOf(year) \in Int /\ MarchOf(year - 1) \in Int
  BY SMT, <1>2 DEF MonthStart, MarchOf, UpTo
<1>6. DaysFromCivil(year, month, day) = MarchOf(Shifted(year, month)) + (MonthStart(prime) + day - 1) - 719468
  BY SMT, DaysFromMarch
<1>7. days = MarchOf(Shifted(year, month)) + n
  <2>1. MarchOf(Shifted(year, month)) \in Int
    BY SMT DEF MarchOf, Shifted
  <2>2. QED
    BY SMT, <1>5, <1>6, <2>1
<1>8. MarchOf((year - 1) + 1) = MarchOf(year - 1) + (IF IsLeapYear((year - 1) + 1) THEN 366 ELSE 365)
  BY SMT, LongerYears
<1>9. (year - 1) + 1 = year
  BY SMT
<1>10. CASE month <= 2
  <2>1. Shifted(year, month) = year - 1 /\ MonthStart(prime) >= 306
    BY SMT, <1>1, <1>10 DEF Shifted, MonthPrime, MonthStart
  <2>2. n >= 306 /\ (n = 365 => IsLeapYear(year))
    BY SMT, <1>2, <1>3, <1>5, <1>9, <2>1 DEF UpTo
  <2> HIDE DEF n, days
  <2>3. QED
    BY SMT, <1>4, <1>5, <1>7, <1>8, <1>9, <1>10, <2>1, <2>2 DEF days, UpTo
<1>11. CASE ~(month <= 2)
  <2>1. Shifted(year, month) = year /\ prime <= 9
    BY SMT, <1>1, <1>11 DEF Shifted, MonthPrime
  <2>2. n >= 0 /\ n <= 305
    BY SMT, <1>2, <2>1 DEF MonthStart, MonthLength, UpTo
  <2> HIDE DEF n, days
  <2>3. QED
    BY SMT, <1>4, <1>5, <1>7, <1>8, <1>9, <1>11, <2>1, <2>2 DEF days, UpTo
<1>12. QED
  BY SMT, <1>1, <1>10, <1>11

EarlierDate(y1, m1, d1, y2, m2, d2) ==
  \/ y1 < y2
  \/ y1 = y2 /\ m1 < m2
  \/ y1 = y2 /\ m1 = m2 /\ d1 < d2

LEMMA LaterDates ==
  ASSUME NEW y1 \in Int, NEW m1 \in Int, NEW d1 \in Int, RealDate(y1, m1, d1),
         NEW y2 \in Int, NEW m2 \in Int, NEW d2 \in Int, RealDate(y2, m2, d2),
         EarlierDate(y1, m1, d1, y2, m2, d2)
  PROVE  DaysFromCivil(y1, m1, d1) < DaysFromCivil(y2, m2, d2)
<1> DEFINE days1 == DaysFromCivil(y1, m1, d1)
           days2 == DaysFromCivil(y2, m2, d2)
<1>1. /\ MarchOf(y1 - 1) + 306 <= days1 + 719468 /\ days1 + 719468 <= MarchOf(y1) + 305
      /\ m1 <= 2 <=> days1 + 719468 < MarchOf(y1)
  BY SMT, DaysOfYear
<1>2. /\ MarchOf(y2 - 1) + 306 <= days2 + 719468 /\ days2 + 719468 <= MarchOf(y2) + 305
      /\ m2 <= 2 <=> days2 + 719468 < MarchOf(y2)
  BY SMT, DaysOfYear
<1>3. days1 \in Int /\ days2 \in Int
  BY SMT, DateOfItsDay
<1>4. /\ days1 = MarchOf(Shifted(y1, m1)) + (MonthStart(MonthPrime(m1)) + d1 - 1) - 719468
      /\ days2 = MarchOf(Shifted(y2, m2)) + (MonthStart(MonthPrime(m2)) + d2 - 1) - 719468
  BY SMT, DaysFromMarch
<1>5. m1 \in 1 .. 12 /\ m2 \in 1 .. 12
  BY SMT DEF RealDate
<1>6. /\ MarchOf(y1) \in Int /\ MarchOf(y2) \in Int /\ MarchOf(y2 - 1) \in Int
      /\ MarchOf(Shifted(y1, m1)) \in Int
  BY SMT DEF MarchOf, Shifted
<1> HIDE DEF days1, days2
<1>7. CASE y1 < y2
  <2>1. MarchOf(y1) <= MarchOf(y2 - 1)
    BY SMT, <1>7, LaterMarches
  <2>2. QED
    BY SMT, <1>1, <1>2, <1>3, <1>6, <2>1 DEF days1, days2
<1>8. CASE y1 = y2 /\ m1 < m2 /\ m1 <= 2 /\ ~(m2 <= 2)
  BY SMT, <1>1, <1>2, <1>3, <1>6, <1>8 DEF days1, days2
<1>9. CASE y1 = y2 /\ m1 < m2 /\ (m1 <= 2 <=> m2 <= 2)
  <2>1. Shifted(y1, m1) = Shifted(y2, m2)
    BY SMT, <1>9 DEF Shifted
  <2>2. d1 - 1 \in UpTo(MonthLength(MonthPrime(m1)) - 1) /\ d2 - 1 \in UpTo(MonthLength(MonthPrime(m2)) - 1)
    BY SMT, <1>5, DatesFromMarch
  <2>3. MonthStart(MonthPrime(m1)) + d1 - 1 < MonthStart(MonthPrime(m2))
    BY SMT, <1>5, <1>9, <2>2 DEF MonthStart, MonthPrime, MonthLength, UpTo
  <2>4. MonthStart(MonthPrime(m1)) \in Int /\ MonthStart(MonthPrime(m2)) \in Int /\ d2 >= 1
    BY SMT, <1>5, <2>2 DEF MonthStart, MonthPrime, UpTo
  <2>5. QED
    BY SMT, <1>3, <1>4, <1>6, <2>1, <2>3, <2>4 DEF days1, days2
<1>10. CASE y1 = y2 /\ m1 = m2 /\ d1 < d2
  <2>1. MonthStart(MonthPrime(m1)) \in Int
    BY SMT, <1>5 DEF MonthStart, MonthPrime
  <2>2. QED
    BY SMT, <1>3, <1>4, <1>6, <1>10, <2>1 DEF days1, days2
<1>11. QED
  BY SMT, <1>5, <1>7, <1>8, <1>9, <1>10 DEF EarlierDate

-----------------------------------------------------------------------------
(* The time of day, and its digits.                                        *)
LEMMA ClockOf ==
  ASSUME NEW m \in UpTo(86399999)
  PROVE  /\ m \div 3600000 \in UpTo(23) /\ (m % 3600000) \div 60000 \in UpTo(59)
         /\ (m % 60000) \div 1000 \in UpTo(59) /\ m % 1000 \in UpTo(999)
         /\ m = (m \div 3600000) * 3600000 + ((m % 3600000) \div 60000) * 60000
                  + ((m % 60000) \div 1000) * 1000 + (m % 1000)
<1>1. PICK h \in UpTo(23), r \in UpTo(3599999) : m = h * 3600000 + r
  <2>1. m \div 3600000 \in UpTo(23) /\ m % 3600000 \in UpTo(3599999)
    BY SMT DEF UpTo
  <2>2. m = (m \div 3600000) * 3600000 + (m % 3600000)
    BY SMT DEF UpTo
  <2>3. QED
    BY SMT, <2>1, <2>2
<1>2. PICK i \in UpTo(59), q \in UpTo(59999) : r = i * 60000 + q
  <2>1. r \div 60000 \in UpTo(59) /\ r % 60000 \in UpTo(59999)
    BY SMT DEF UpTo
  <2>2. r = (r \div 60000) * 60000 + (r % 60000)
    BY SMT DEF UpTo
  <2>3. QED
    BY SMT, <2>1, <2>2
<1>3. PICK s \in UpTo(59), f \in UpTo(999) : q = s * 1000 + f
  <2>1. q \div 1000 \in UpTo(59) /\ q % 1000 \in UpTo(999)
    BY SMT DEF UpTo
  <2>2. q = (q \div 1000) * 1000 + (q % 1000)
    BY SMT DEF UpTo
  <2>3. QED
    BY SMT, <2>1, <2>2
<1>4. m \div 3600000 = h /\ m % 3600000 = r
  BY SMT, <1>1 DEF UpTo
<1>5. r \div 60000 = i /\ m % 60000 = q
  BY SMT, <1>1, <1>2 DEF UpTo
<1>6. q \div 1000 = s /\ m % 1000 = f
  BY SMT, <1>1, <1>2, <1>3 DEF UpTo
<1>7. m = h * 3600000 + i * 60000 + s * 1000 + f
  BY SMT, <1>1, <1>2, <1>3 DEF UpTo
<1>8. QED
  BY SMT, <1>4, <1>5, <1>6, <1>7 DEF UpTo

LEMMA ClockAndBack ==
  ASSUME NEW h \in UpTo(23), NEW i \in UpTo(59), NEW s \in UpTo(59), NEW f \in UpTo(999),
         NEW m \in Int, m = h * 3600000 + i * 60000 + s * 1000 + f
  PROVE  /\ m \in UpTo(86399999) /\ m \div 3600000 = h /\ (m % 3600000) \div 60000 = i
         /\ (m % 60000) \div 1000 = s /\ m % 1000 = f
<1>1. m \in UpTo(86399999)
  BY SMT DEF UpTo
<1>2. m \div 3600000 = h /\ m % 3600000 = i * 60000 + s * 1000 + f
  BY SMT DEF UpTo
<1>3. m % 60000 = s * 1000 + f /\ m % 1000 = f
  BY SMT DEF UpTo
<1>4. (i * 60000 + s * 1000 + f) \div 60000 = i /\ (s * 1000 + f) \div 1000 = s
  BY SMT DEF UpTo
<1>5. QED
  BY SMT, <1>1, <1>2, <1>3, <1>4

LEMMA DigitsOf ==
  ASSUME NEW f \in UpTo(999)
  PROVE  /\ ThreeDigits(f) \in Seq(UpTo(9)) /\ Len(ThreeDigits(f)) = 3
         /\ Milliseconds(ThreeDigits(f)) = f
<1>1. f \div 100 \in UpTo(9) /\ (f \div 10) % 10 \in UpTo(9) /\ f % 10 \in UpTo(9)
  BY SMT DEF UpTo
<1>2. 100 * (f \div 100) + 10 * ((f \div 10) % 10) + (f % 10) = f
  <2>1. f = 10 * (f \div 10) + (f % 10) /\ f \div 10 = 10 * ((f \div 10) \div 10) + ((f \div 10) % 10)
    BY SMT DEF UpTo
  <2>2. (f \div 10) \div 10 = f \div 100
    BY SMT DEF UpTo
  <2>3. QED
    BY SMT, <2>1, <2>2 DEF UpTo
<1>3. QED
  BY SMT, <1>1, <1>2 DEF ThreeDigits, Milliseconds, Digit

LEMMA DigitsAndBack ==
  ASSUME NEW d \in Seq(UpTo(9)), Len(d) = 3
  PROVE  /\ d[1] \in UpTo(9) /\ d[2] \in UpTo(9) /\ d[3] \in UpTo(9)
         /\ Milliseconds(d) = 100 * d[1] + 10 * d[2] + d[3]
         /\ Milliseconds(d) \in UpTo(999) /\ ThreeDigits(Milliseconds(d)) = d
<1>1. d[1] \in UpTo(9) /\ d[2] \in UpTo(9) /\ d[3] \in UpTo(9)
  <2>1. 1 \in 1 .. Len(d) /\ 2 \in 1 .. Len(d) /\ 3 \in 1 .. Len(d)
    BY SMT
  <2>2. \A j \in 1 .. Len(d) : d[j] \in UpTo(9)
    BY ElementOfSeq
  <2>3. QED
    BY SMT, <2>1, <2>2
<1>2. Milliseconds(d) = 100 * d[1] + 10 * d[2] + d[3]
  BY SMT DEF Milliseconds, Digit
<1>3. PICK a \in UpTo(9), b \in UpTo(9), c \in UpTo(9) : a = d[1] /\ b = d[2] /\ c = d[3]
  BY SMT, <1>1
<1> DEFINE f == 100 * a + 10 * b + c
<1>4. f \in UpTo(999) /\ f \div 100 = a /\ (f \div 10) % 10 = b /\ f % 10 = c
  <2>1. f \in UpTo(999) /\ f \div 100 = a /\ f \div 10 = 10 * a + b /\ f % 10 = c
    BY SMT DEF UpTo
  <2>2. (10 * a + b) % 10 = b
    BY SMT DEF UpTo
  <2>3. QED
    BY SMT, <2>1, <2>2
<1> HIDE DEF f
<1>5. ThreeDigits(f) = <<d[1], d[2], d[3]>>
  BY SMT, <1>3, <1>4 DEF ThreeDigits
<1>6. <<d[1], d[2], d[3]>> = d
  BY SMT
<1>7. Milliseconds(d) = f
  BY SMT, <1>2, <1>3 DEF f
<1>8. QED
  BY SMT, <1>1, <1>2, <1>4, <1>5, <1>6, <1>7

-----------------------------------------------------------------------------
LEMMA DayAndClock ==
  ASSUME NEW ms \in Int
  PROVE  /\ ms \div MsPerDay \in Int /\ ms - (ms \div MsPerDay) * MsPerDay \in UpTo(86399999)
         /\ ms = (ms \div MsPerDay) * MsPerDay + (ms - (ms \div MsPerDay) * MsPerDay)
  BY SMT DEF MsPerDay, UpTo

LEMMA FirstDay == DaysFromCivil(0, 1, 1) = -719528
<1>1. PICK y \in Int : -1 < y /\ y < 1
  BY SMT
<1>2. (y - 1) \div 400 = y - 1 /\ (y - 1) - (y - 1) * 400 = 399 /\ y = 0
  BY SMT, <1>1
<1>3. YearStart(399) = 145731 /\ MonthStart(MonthPrime(1)) = 306
  BY SMT DEF YearStart, MonthStart, MonthPrime
<1>4. DaysFromCivil(y, 1, 1) = (y - 1) * 146097 + YearStart(399) + (MonthStart(MonthPrime(1)) + 1 - 1) - 719468
  <2>1. YearStart((y - 1) - (y - 1) * 400) = YearStart(399)
    BY SMT, <1>2
  <2>2. DaysFromCivil(y, 1, 1) = ((y - 1) \div 400) * 146097 + YearStart((y - 1) - ((y - 1) \div 400) * 400)
                                  + (MonthStart(MonthPrime(1)) + 1 - 1) - 719468
    BY SMT DEF DaysFromCivil
  <2>3. QED
    BY SMT, <1>2, <2>1, <2>2
<1>5. QED
  BY SMT, <1>2, <1>3, <1>4

(* The years of Moments are written with four digits.                      *)
LEMMA FourDigits ==
  ASSUME NEW days \in Int, -719528 <= days, days <= 2932896
  PROVE  CivilFromDays(days).year \in UpTo(9999)
<1> DEFINE date == CivilFromDays(days)
<1>1. date.year \in Int /\ RealDate(date.year, date.month, date.day)
      /\ DaysFromCivil(date.year, date.month, date.day) = days
  BY SMT, DayOfItsDate
<1>2. date.month \in Int /\ date.day \in Int
  BY SMT, <1>1 DEF RealDate
<1>3. RealDate(0, 1, 1) /\ RealDate(9999, 12, 31)
  BY SMT DEF RealDate, DaysInMonth
<1>4. DaysFromCivil(0, 1, 1) = -719528
  BY FirstDay
<1>5. DaysFromCivil(9999, 12, 31) = 2932896
  BY SMT DEF DaysFromCivil, YearStart, MonthStart, MonthPrime
<1> HIDE DEF date
<1>6. ~(date.year < 0)
  <2>1. date.year < 0 => EarlierDate(date.year, date.month, date.day, 0, 1, 1)
    BY SMT DEF EarlierDate
  <2>2. EarlierDate(date.year, date.month, date.day, 0, 1, 1) => days < -719528
    BY SMT, <1>1, <1>2, <1>3, <1>4, LaterDates
  <2>3. QED
    BY SMT, <2>1, <2>2
<1>7. ~(9999 < date.year)
  <2>1. 9999 < date.year => EarlierDate(9999, 12, 31, date.year, date.month, date.day)
    BY SMT DEF EarlierDate
  <2>2. EarlierDate(9999, 12, 31, date.year, date.month, date.day) => 2932896 < days
    BY SMT, <1>1, <1>2, <1>3, <1>5, LaterDates
  <2>3. QED
    BY SMT, <2>1, <2>2
<1>8. QED
  BY SMT, <1>1, <1>6, <1>7 DEF date, UpTo

LEMMA DatesHaveTwoDigits ==
  ASSUME NEW year \in Int, NEW month, NEW day, RealDate(year, month, day)
  PROVE  month \in UpTo(99) /\ day \in UpTo(99)
<1>1. month \in 1 .. 12
  BY SMT DEF RealDate
<1>2. DaysInMonth(year, month) \in UpTo(31)
  BY SMT, <1>1 DEF DaysInMonth, UpTo
<1>3. QED
  BY SMT, <1>1, <1>2 DEF RealDate, UpTo

LEMMA SumsAreInt ==
  ASSUME NEW d \in Int, NEW h \in Int, NEW i \in Int, NEW s \in Int, NEW f \in Int
  PROVE  MomentOf(d, h, i, s, f) \in Int
BY SMT DEF MomentOf, MsPerDay

(* Every moment has a text, and the text names the moment it was made from:*)
(* what is written to a row, an event or a snapshot is read back unchanged.*)
THEOREM TextNamesItsMoment ==
  ASSUME NEW ms \in Moments
  PROVE  /\ Canonical(ms) \in Texts /\ IsCanonical(Canonical(ms))
         /\ EpochMs(Canonical(ms)) = ms
<1> DEFINE days == ms \div MsPerDay
           m == ms - days * MsPerDay
           date == CivilFromDays(days)
           t == Canonical(ms)
<1>1. ms \in Int /\ -62167219200000 <= ms /\ ms <= 253402300799999
  BY SMT DEF Moments
<1>2. days \in Int /\ m \in UpTo(86399999) /\ ms = days * MsPerDay + m
  BY SMT, <1>1, DayAndClock
<1>3. -719528 <= days /\ days <= 2932896
  BY SMT, <1>1 DEF MsPerDay
<1>4. /\ t.year = date.year /\ t.month = date.month /\ t.day = date.day
      /\ t.hour = m \div 3600000 /\ t.minute = (m % 3600000) \div 60000
      /\ t.second = (m % 60000) \div 1000 /\ t.fraction = ThreeDigits(m % 1000) /\ t.offset = UTC
      /\ t = [year |-> t.year, month |-> t.month, day |-> t.day, hour |-> t.hour,
              minute |-> t.minute, second |-> t.second, fraction |-> t.fraction, offset |-> t.offset]
  BY SMT DEF Canonical
<1> HIDE DEF m, date, days, t
<1>5. /\ t.year \in UpTo(9999) /\ t.year \in Int /\ RealDate(t.year, t.month, t.day)
      /\ DaysFromCivil(t.year, t.month, t.day) = days
  <2>1. date.year \in UpTo(9999)
    BY SMT, <1>2, <1>3, FourDigits DEF date
  <2>2. date.year \in Int /\ RealDate(date.year, date.month, date.day)
        /\ DaysFromCivil(date.year, date.month, date.day) = days
    BY SMT, <1>2, DayOfItsDate DEF date
  <2>3. QED
    BY SMT, <1>4, <2>1, <2>2
<1>6. t.month \in UpTo(99) /\ t.day \in UpTo(99)
  BY SMT, <1>5, DatesHaveTwoDigits
<1>7. /\ t.hour \in UpTo(23) /\ t.minute \in UpTo(59) /\ t.second \in UpTo(59)
      /\ m % 1000 \in UpTo(999)
      /\ m = t.hour * 3600000 + t.minute * 60000 + t.second * 1000 + (m % 1000)
  BY SMT, <1>2, <1>4, ClockOf
<1>8. /\ t.fraction \in Seq(UpTo(9)) /\ Len(t.fraction) = 3
      /\ Milliseconds(t.fraction) = m % 1000
  BY SMT, <1>4, <1>7, DigitsOf
<1>9. t \in Texts
  <2>1. t.hour \in UpTo(99) /\ t.minute \in UpTo(99) /\ t.second \in UpTo(99) /\ t.offset \in Offsets
    BY SMT, <1>4, <1>7 DEF Offsets, UpTo
  <2>2. QED
    BY SMT, <1>4, <1>5, <1>6, <1>8, <2>1 DEF Texts
<1>10. Valid(t)
  <2>1. t.offset.hours = 0 /\ t.offset.minutes = 0
    BY SMT, <1>4 DEF UTC
  <2>2. t.hour <= 23 /\ t.minute <= 59 /\ t.second <= 59
    BY SMT, <1>7 DEF UpTo
  <2>3. QED
    BY SMT, <1>5, <1>8, <2>1, <2>2 DEF Valid
<1>11. EpochMs(t) = ms
  <2>1. OffsetMinutes(t.offset) = 0
    BY SMT, <1>4 DEF OffsetMinutes, UTC
  <2>2. EpochMs(t) = days * MsPerDay + t.hour * 3600000 + t.minute * 60000 + t.second * 1000 + (m % 1000)
    <3> DEFINE f == m % 1000
    <3>1. EpochMs(t) = MomentOf(days, t.hour, t.minute, t.second, f) - 0 * MsPerMinute
      BY SMT, <1>5, <1>8, <2>1 DEF EpochMs
    <3>2. t.hour \in Int /\ t.minute \in Int /\ t.second \in Int /\ f \in Int
          /\ days \in Int
      BY SMT, <1>2, <1>7 DEF UpTo
    <3> HIDE DEF f
    <3>3. MomentOf(days, t.hour, t.minute, t.second, f) \in Int
      BY Zenon, <3>2, SumsAreInt
    <3>4. EpochMs(t) = MomentOf(days, t.hour, t.minute, t.second, f)
      BY SMT, <3>1, <3>3 DEF MsPerMinute
    <3>5. QED
      BY SMT, <3>4 DEF MomentOf, f
  <2>3. days * MsPerDay \in Int /\ t.hour * 3600000 \in Int /\ t.minute * 60000 \in Int
        /\ t.second * 1000 \in Int /\ m % 1000 \in Int /\ m \in Int
    BY SMT, <1>2, <1>7 DEF MsPerDay, UpTo
  <2>4. QED
    BY SMT, <1>2, <1>7, <2>2, <2>3
<1>12. QED
  BY SMT, <1>4, <1>8, <1>9, <1>10, <1>11 DEF IsCanonical, t

LEMMA TextFields ==
  ASSUME NEW t \in Texts
  PROVE  /\ t.year \in Int /\ t.month \in Int /\ t.day \in Int
         /\ t.hour \in Nat /\ t.minute \in Nat /\ t.second \in Nat /\ t.fraction \in Seq(UpTo(9))
         /\ t = [year |-> t.year, month |-> t.month, day |-> t.day, hour |-> t.hour,
                 minute |-> t.minute, second |-> t.second, fraction |-> t.fraction, offset |-> t.offset]
<1>1. /\ t.year \in UpTo(9999) /\ t.month \in UpTo(99) /\ t.day \in UpTo(99)
      /\ t.hour \in UpTo(99) /\ t.minute \in UpTo(99) /\ t.second \in UpTo(99)
      /\ t.fraction \in Seq(UpTo(9))
      /\ t = [year |-> t.year, month |-> t.month, day |-> t.day, hour |-> t.hour,
              minute |-> t.minute, second |-> t.second, fraction |-> t.fraction, offset |-> t.offset]
  BY SMT DEF Texts
<1>2. QED
  BY SMT, <1>1 DEF UpTo

(* A valid text in UTC with three digits is the only one of its moment:    *)
(* the last conjunct of IsCanonical is never what refuses a text, and equal*)
(* moments have equal checksums.                                           *)
THEOREM OneTextForAMoment ==
  ASSUME NEW t \in Texts, Valid(t), t.offset = UTC, Len(t.fraction) = 3
  PROVE  Canonical(EpochMs(t)) = t
<1> DEFINE days == DaysFromCivil(t.year, t.month, t.day)
           f == Milliseconds(t.fraction)
           m == t.hour * 3600000 + t.minute * 60000 + t.second * 1000 + f
           ms == EpochMs(t)
<1>1. /\ t.year \in Int /\ t.month \in Int /\ t.day \in Int /\ t.fraction \in Seq(UpTo(9))
      /\ t = [year |-> t.year, month |-> t.month, day |-> t.day, hour |-> t.hour,
              minute |-> t.minute, second |-> t.second, fraction |-> t.fraction, offset |-> t.offset]
  BY SMT, TextFields
<1>2. t.hour \in UpTo(23) /\ t.minute \in UpTo(59) /\ t.second \in UpTo(59)
  <2>1. t.hour \in Nat /\ t.minute \in Nat /\ t.second \in Nat
    BY SMT, TextFields
  <2>2. QED
    BY SMT, <2>1 DEF Valid, UpTo
<1>3. RealDate(t.year, t.month, t.day)
  BY SMT DEF Valid
<1>4. days \in Int /\ CivilFromDays(days) = [year |-> t.year, month |-> t.month, day |-> t.day]
  BY SMT, <1>1, <1>3, DateOfItsDay
<1>5. f \in UpTo(999) /\ ThreeDigits(f) = t.fraction
  BY SMT, <1>1, DigitsAndBack
<1>6. m \in Int
  BY SMT, <1>2, <1>5 DEF UpTo
<1>7. /\ m \in UpTo(86399999) /\ m \div 3600000 = t.hour /\ (m % 3600000) \div 60000 = t.minute
      /\ (m % 60000) \div 1000 = t.second /\ m % 1000 = f
  BY SMT, <1>2, <1>5, <1>6, ClockAndBack
<1>8. ms = days * MsPerDay + m
  <2>1. OffsetMinutes(t.offset) = 0
    BY SMT DEF OffsetMinutes, UTC
  <2>2. t.hour \in Int /\ t.minute \in Int /\ t.second \in Int /\ f \in Int
    BY SMT, <1>2, <1>5 DEF UpTo
  <2>3. QED
    BY SMT, <1>4, <2>1, <2>2 DEF EpochMs, MomentOf, MsPerDay, MsPerMinute
<1> HIDE DEF days, f, m, ms
<1>9. ms \in Int /\ ms \div MsPerDay = days /\ ms - days * MsPerDay = m
  BY SMT, <1>4, <1>6, <1>7, <1>8 DEF MsPerDay, UpTo
<1>10. Canonical(ms) = [year |-> t.year, month |-> t.month, day |-> t.day,
         hour |-> m \div 3600000, minute |-> (m % 3600000) \div 60000,
         second |-> (m % 60000) \div 1000, fraction |-> ThreeDigits(m % 1000), offset |-> UTC]
  BY SMT, <1>4, <1>9 DEF Canonical
<1>11. QED
  BY SMT, <1>1, <1>5, <1>7, <1>10 DEF ms

(* What a text of a moment says, group by group.                           *)
LEMMA GroupsOf ==
  ASSUME NEW t
  PROVE  /\ Groups(t)[1] = t.year /\ Groups(t)[2] = t.month /\ Groups(t)[3] = t.day
         /\ Groups(t)[4] = t.hour /\ Groups(t)[5] = t.minute /\ Groups(t)[6] = t.second
         /\ Groups(t)[7] = t.fraction[1] /\ Groups(t)[8] = t.fraction[2]
         /\ Groups(t)[9] = t.fraction[3]
BY SMT DEF Groups

LEMMA GroupsOfMoment ==
  ASSUME NEW ms \in Moments, NEW t, t = Canonical(ms)
  PROVE  /\ t.year \in Int /\ t.month \in Int /\ t.day \in Int
         /\ RealDate(t.year, t.month, t.day)
         /\ t.hour \in UpTo(23) /\ t.minute \in UpTo(59) /\ t.second \in UpTo(59)
         /\ t.fraction[1] \in UpTo(9) /\ t.fraction[2] \in UpTo(9) /\ t.fraction[3] \in UpTo(9)
         /\ ms = MomentOf(DaysFromCivil(t.year, t.month, t.day), t.hour, t.minute, t.second,
                          Milliseconds(t.fraction))
         /\ Milliseconds(t.fraction) = 100 * t.fraction[1] + 10 * t.fraction[2] + t.fraction[3]
<1>1. t \in Texts /\ Valid(t) /\ t.offset = UTC /\ Len(t.fraction) = 3 /\ EpochMs(t) = ms
  BY SMT, TextNamesItsMoment DEF IsCanonical
<1>2. /\ t.year \in Int /\ t.month \in Int /\ t.day \in Int
      /\ t.hour \in Nat /\ t.minute \in Nat /\ t.second \in Nat /\ t.fraction \in Seq(UpTo(9))
  BY SMT, <1>1, TextFields
<1>3. RealDate(t.year, t.month, t.day)
  BY SMT, <1>1 DEF Valid
<1>4. t.hour \in UpTo(23) /\ t.minute \in UpTo(59) /\ t.second \in UpTo(59)
  BY SMT, <1>1, <1>2 DEF Valid, UpTo
<1>5. t.fraction[1] \in UpTo(9) /\ t.fraction[2] \in UpTo(9) /\ t.fraction[3] \in UpTo(9)
  BY SMT, <1>1, <1>2, DigitsAndBack
<1>6. Milliseconds(t.fraction) = 100 * t.fraction[1] + 10 * t.fraction[2] + t.fraction[3]
  BY SMT, <1>1, <1>2, DigitsAndBack
<1>7. OffsetMinutes(t.offset) = 0
  BY SMT, <1>1 DEF OffsetMinutes, UTC
<1>8. DaysFromCivil(t.year, t.month, t.day) \in Int
  BY SMT, <1>2, <1>3, DateOfItsDay
<1>9. QED
  <2>1. /\ t.fraction[1] \in Int /\ t.fraction[2] \in Int /\ t.fraction[3] \in Int
    BY SMT, <1>5 DEF UpTo
  <2>2. EpochMs(t) = MomentOf(DaysFromCivil(t.year, t.month, t.day), t.hour, t.minute, t.second,
                              Milliseconds(t.fraction))
                     - OffsetMinutes(t.offset) * MsPerMinute
    BY DEF EpochMs
  <2>3. Milliseconds(t.fraction) \in Int
    BY SMT, <1>6, <2>1
  <2>4. MomentOf(DaysFromCivil(t.year, t.month, t.day), t.hour, t.minute, t.second,
                 Milliseconds(t.fraction)) \in Int
    <3>1. t.hour \in Int /\ t.minute \in Int /\ t.second \in Int
      BY SMT, <1>2
    <3>2. QED
      BY Zenon, <1>8, <2>3, <3>1, SumsAreInt
  <2>5. ms = MomentOf(DaysFromCivil(t.year, t.month, t.day), t.hour, t.minute, t.second,
                      Milliseconds(t.fraction))
    BY SMT, <1>1, <1>7, <2>2, <2>4 DEF MsPerMinute
  <2>6. QED
    BY Zenon, <1>2, <1>3, <1>4, <1>5, <1>6, <2>5

(* The later moment is the one whose first different part is greater.      *)
Clock(h, i, s, f) == h \in UpTo(23) /\ i \in UpTo(59) /\ s \in UpTo(59) /\ f \in UpTo(999)

LEMMA LaterSums ==
  ASSUME NEW d \in Int, NEW h, NEW i, NEW s, NEW f, Clock(h, i, s, f),
         NEW D \in Int, NEW H, NEW I, NEW S, NEW F, Clock(H, I, S, F),
         \/ d < D
         \/ d = D /\ h < H
         \/ d = D /\ h = H /\ i < I
         \/ d = D /\ h = H /\ i = I /\ s < S
         \/ d = D /\ h = H /\ i = I /\ s = S /\ f < F
  PROVE  MomentOf(d, h, i, s, f) < MomentOf(D, H, I, S, F)
BY SMT DEF Clock, MomentOf, MsPerDay, UpTo

(* The digits of a fraction, the first place that differs first.           *)
LEMMA LaterFractions ==
  ASSUME NEW p \in UpTo(9), NEW q \in UpTo(9), NEW r \in UpTo(9),
         NEW P \in UpTo(9), NEW Q \in UpTo(9), NEW R \in UpTo(9)
  PROVE  /\ 100 * p + 10 * q + r \in UpTo(999)
         /\ (p < P \/ (p = P /\ q < Q) \/ (p = P /\ q = Q /\ r < R))
              => 100 * p + 10 * q + r < 100 * P + 10 * Q + R
BY SMT DEF UpTo

LEMMA LaterTexts ==
  ASSUME NEW a \in Moments, NEW b \in Moments, Precedes(Canonical(a), Canonical(b))
  PROVE  a < b
<1> DEFINE t == Canonical(a)
           u == Canonical(b)
           s == DaysFromCivil(t.year, t.month, t.day)
           e == DaysFromCivil(u.year, u.month, u.day)
<1>1. PICK i \in 1 .. 9 :
        /\ Groups(t)[i] < Groups(u)[i]
        /\ \A j \in 1 .. i - 1 : Groups(t)[j] = Groups(u)[j]
  BY SMT DEF Precedes
<1> HIDE DEF t, u
<1>2. /\ t.year \in Int /\ t.month \in Int /\ t.day \in Int
      /\ RealDate(t.year, t.month, t.day)
      /\ t.hour \in UpTo(23) /\ t.minute \in UpTo(59) /\ t.second \in UpTo(59)
      /\ t.fraction[1] \in UpTo(9) /\ t.fraction[2] \in UpTo(9) /\ t.fraction[3] \in UpTo(9)
      /\ a = MomentOf(s, t.hour, t.minute, t.second, Milliseconds(t.fraction))
      /\ Milliseconds(t.fraction) = 100 * t.fraction[1] + 10 * t.fraction[2] + t.fraction[3]
  BY SMT, GroupsOfMoment DEF t
<1>3. /\ u.year \in Int /\ u.month \in Int /\ u.day \in Int
      /\ RealDate(u.year, u.month, u.day)
      /\ u.hour \in UpTo(23) /\ u.minute \in UpTo(59) /\ u.second \in UpTo(59)
      /\ u.fraction[1] \in UpTo(9) /\ u.fraction[2] \in UpTo(9) /\ u.fraction[3] \in UpTo(9)
      /\ b = MomentOf(e, u.hour, u.minute, u.second, Milliseconds(u.fraction))
      /\ Milliseconds(u.fraction) = 100 * u.fraction[1] + 10 * u.fraction[2] + u.fraction[3]
  BY SMT, GroupsOfMoment DEF u
<1>4. s \in Int /\ e \in Int
  BY SMT, <1>2, <1>3, DateOfItsDay
<1>5. EarlierDate(t.year, t.month, t.day, u.year, u.month, u.day) => s < e
  BY SMT, <1>2, <1>3, LaterDates
<1>6. (t.year = u.year /\ t.month = u.month /\ t.day = u.day) => s = e
  OBVIOUS
<1>7. /\ Groups(t)[1] = t.year /\ Groups(t)[2] = t.month /\ Groups(t)[3] = t.day
      /\ Groups(t)[4] = t.hour /\ Groups(t)[5] = t.minute /\ Groups(t)[6] = t.second
      /\ Groups(t)[7] = t.fraction[1] /\ Groups(t)[8] = t.fraction[2] /\ Groups(t)[9] = t.fraction[3]
  BY SMT, GroupsOf
<1>8. /\ Groups(u)[1] = u.year /\ Groups(u)[2] = u.month /\ Groups(u)[3] = u.day
      /\ Groups(u)[4] = u.hour /\ Groups(u)[5] = u.minute /\ Groups(u)[6] = u.second
      /\ Groups(u)[7] = u.fraction[1] /\ Groups(u)[8] = u.fraction[2] /\ Groups(u)[9] = u.fraction[3]
  BY SMT, GroupsOf
<1> HIDE DEF s, e
<1>9. \/ s < e
      \/ s = e /\ t.hour < u.hour
      \/ s = e /\ t.hour = u.hour /\ t.minute < u.minute
      \/ s = e /\ t.hour = u.hour /\ t.minute = u.minute /\ t.second < u.second
      \/ /\ s = e /\ t.hour = u.hour /\ t.minute = u.minute /\ t.second = u.second
         /\ \/ t.fraction[1] < u.fraction[1]
            \/ t.fraction[1] = u.fraction[1] /\ t.fraction[2] < u.fraction[2]
            \/ /\ t.fraction[1] = u.fraction[1] /\ t.fraction[2] = u.fraction[2]
               /\ t.fraction[3] < u.fraction[3]
  <2>1. CASE i \in {1, 2, 3}
    <3>1. EarlierDate(t.year, t.month, t.day, u.year, u.month, u.day)
      BY SMT, <1>1, <1>7, <1>8, <2>1 DEF EarlierDate
    <3>2. QED
      BY SMT, <1>5, <3>1
  <2>2. CASE i \in {4, 5, 6}
    BY SMT, <1>1, <1>6, <1>7, <1>8, <2>2
  <2>3. CASE i \in {7, 8, 9}
    BY SMT, <1>1, <1>6, <1>7, <1>8, <2>3
  <2>4. QED
    BY SMT, <2>1, <2>2, <2>3
<1>10. /\ Milliseconds(t.fraction) \in UpTo(999) /\ Milliseconds(u.fraction) \in UpTo(999)
       /\ (\/ t.fraction[1] < u.fraction[1]
           \/ t.fraction[1] = u.fraction[1] /\ t.fraction[2] < u.fraction[2]
           \/ /\ t.fraction[1] = u.fraction[1] /\ t.fraction[2] = u.fraction[2]
              /\ t.fraction[3] < u.fraction[3])
            => Milliseconds(t.fraction) < Milliseconds(u.fraction)
  <2> DEFINE p == t.fraction[1]
             q == t.fraction[2]
             r == t.fraction[3]
             P == u.fraction[1]
             Q == u.fraction[2]
             R == u.fraction[3]
  <2>1. /\ p \in UpTo(9) /\ q \in UpTo(9) /\ r \in UpTo(9)
        /\ P \in UpTo(9) /\ Q \in UpTo(9) /\ R \in UpTo(9)
        /\ Milliseconds(t.fraction) = 100 * p + 10 * q + r
        /\ Milliseconds(u.fraction) = 100 * P + 10 * Q + R
    BY Zenon, <1>2, <1>3
  <2> HIDE DEF p, q, r, P, Q, R
  <2>2. /\ 100 * p + 10 * q + r \in UpTo(999) /\ 100 * P + 10 * Q + R \in UpTo(999)
        /\ (p < P \/ (p = P /\ q < Q) \/ (p = P /\ q = Q /\ r < R))
             => 100 * p + 10 * q + r < 100 * P + 10 * Q + R
    BY SMT, <2>1, LaterFractions
  <2>3. QED
    BY SMT, <2>1, <2>2 DEF p, q, r, P, Q, R
<1>11. MomentOf(s, t.hour, t.minute, t.second, Milliseconds(t.fraction))
         < MomentOf(e, u.hour, u.minute, u.second, Milliseconds(u.fraction))
  <2>1. \/ s < e
        \/ s = e /\ t.hour < u.hour
        \/ s = e /\ t.hour = u.hour /\ t.minute < u.minute
        \/ s = e /\ t.hour = u.hour /\ t.minute = u.minute /\ t.second < u.second
        \/ /\ s = e /\ t.hour = u.hour /\ t.minute = u.minute /\ t.second = u.second
           /\ Milliseconds(t.fraction) < Milliseconds(u.fraction)
    BY Zenon, <1>9, <1>10
  <2>2. QED
    <3>1. /\ Clock(t.hour, t.minute, t.second, Milliseconds(t.fraction))
          /\ Clock(u.hour, u.minute, u.second, Milliseconds(u.fraction))
      BY SMT, <1>2, <1>3, <1>10 DEF Clock
    <3>2. QED
      BY Zenon, <1>4, <2>1, <3>1, LaterSums
<1>12. QED
  BY Zenon, <1>2, <1>3, <1>11

(* The order of canonical texts is that of their moments. They are compared*)
(* as text, by code points in the scheduler and the command handler and by *)
(* the database in its queries: what is due first is first in time.        *)
THEOREM TextsInOrder ==
  ASSUME NEW a \in Moments, NEW b \in Moments
  PROVE  a < b <=> Precedes(Canonical(a), Canonical(b))
<1> DEFINE t == Canonical(a)
           u == Canonical(b)
           G(k) == Groups(t)[k]
           H(k) == Groups(u)[k]
<1>1. a \in Int /\ b \in Int
  BY SMT DEF Moments
<1>2. SUFFICES ASSUME a < b, ~ Precedes(t, u)
               PROVE  FALSE
  BY SMT, LaterTexts
<1>3. ~ Precedes(u, t)
  BY SMT, <1>1, <1>2, LaterTexts
<1>4. \A k \in 1 .. 9 : G(k) \in Int /\ H(k) \in Int
  <2> HIDE DEF t, u
  <2>1. /\ t.year \in Int /\ t.month \in Int /\ t.day \in Int
        /\ t.hour \in UpTo(23) /\ t.minute \in UpTo(59) /\ t.second \in UpTo(59)
        /\ t.fraction[1] \in UpTo(9) /\ t.fraction[2] \in UpTo(9) /\ t.fraction[3] \in UpTo(9)
    BY SMT, GroupsOfMoment DEF t
  <2>2. /\ u.year \in Int /\ u.month \in Int /\ u.day \in Int
        /\ u.hour \in UpTo(23) /\ u.minute \in UpTo(59) /\ u.second \in UpTo(59)
        /\ u.fraction[1] \in UpTo(9) /\ u.fraction[2] \in UpTo(9) /\ u.fraction[3] \in UpTo(9)
    BY SMT, GroupsOfMoment DEF u
  <2>3. QED
    BY SMT, <2>1, <2>2 DEF Groups, UpTo
<1>5. \A i \in 1 .. 9 : (\A j \in 1 .. i - 1 : G(j) = H(j)) => G(i) = H(i)
  BY SMT, <1>2, <1>3, <1>4 DEF Precedes
<1> HIDE DEF t, u
<1>6. G(1) = H(1) /\ G(2) = H(2) /\ G(3) = H(3)
  BY SMT, <1>5
<1>7. G(4) = H(4) /\ G(5) = H(5) /\ G(6) = H(6)
  BY SMT, <1>5, <1>6
<1>8. G(7) = H(7) /\ G(8) = H(8) /\ G(9) = H(9)
  BY SMT, <1>5, <1>6, <1>7
<1>9. a = b
  <2>1. a = MomentOf(DaysFromCivil(t.year, t.month, t.day), t.hour, t.minute, t.second,
                      Milliseconds(t.fraction))
        /\ Milliseconds(t.fraction) = 100 * t.fraction[1] + 10 * t.fraction[2] + t.fraction[3]
    BY SMT, GroupsOfMoment DEF t
  <2>2. b = MomentOf(DaysFromCivil(u.year, u.month, u.day), u.hour, u.minute, u.second,
                      Milliseconds(u.fraction))
        /\ Milliseconds(u.fraction) = 100 * u.fraction[1] + 10 * u.fraction[2] + u.fraction[3]
    BY SMT, GroupsOfMoment DEF u
  <2>3. /\ t.year = u.year /\ t.month = u.month /\ t.day = u.day
        /\ t.hour = u.hour /\ t.minute = u.minute /\ t.second = u.second
        /\ t.fraction[1] = u.fraction[1] /\ t.fraction[2] = u.fraction[2]
        /\ t.fraction[3] = u.fraction[3]
    BY SMT, <1>6, <1>7, <1>8, GroupsOf
  <2>4. QED
    BY Zenon, <2>1, <2>2, <2>3
<1>10. QED
  BY SMT, <1>1, <1>2, <1>9

-----------------------------------------------------------------------------
(* addMinutes moves a moment by exactly so many minutes, or refuses: the   *)
(* tick of the world's clock and the ends of journeys are sums of minutes. *)
THEOREM MinutesAddUp ==
  ASSUME NEW ms \in Moments, NEW minutes \in Int, CanAddMinutes(ms, minutes)
  PROVE  /\ IsCanonical(AddMinutes(ms, minutes))
         /\ EpochMs(AddMinutes(ms, minutes)) = ms + minutes * MsPerMinute
BY TextNamesItsMoment DEF CanAddMinutes, AddMinutes

(* Not every valid text has a canonical form: an offset carries the first  *)
(* minute of the year 0000 out of Moments, which parseInstant accepts and  *)
(* formatCanonicalInstant refuses.                                         *)
THEOREM SomeTextLeavesTheMoments == \E t \in Texts : Valid(t) /\ EpochMs(t) \notin Moments
<1> DEFINE east == [sign |-> 1, hours |-> 0, minutes |-> 1]
           t == [year |-> 0, month |-> 1, day |-> 1, hour |-> 0, minute |-> 0, second |-> 0,
                 fraction |-> << >>, offset |-> east]
<1>1. t \in Texts
  <2>1. east \in Offsets
    BY SMT DEF Offsets, UpTo
  <2>2. << >> \in Seq(UpTo(9))
    BY SMT
  <2> HIDE DEF east
  <2>3. QED
    BY SMT, <2>1, <2>2 DEF Texts, UpTo
<1>2. Valid(t)
  BY SMT DEF Valid, RealDate, DaysInMonth
<1>3. OffsetMinutes(t.offset) = 1
  BY SMT DEF OffsetMinutes
<1>4. Milliseconds(t.fraction) = 0
  BY SMT DEF Milliseconds, Digit
<1>5. DaysFromCivil(t.year, t.month, t.day) = -719528
  BY SMT, FirstDay
<1>6. EpochMs(t) = MomentOf(-719528, 0, 0, 0, 0) - 1 * MsPerMinute
  BY SMT, <1>3, <1>4, <1>5 DEF EpochMs
<1>7. EpochMs(t) \notin Moments
  BY SMT, <1>6 DEF MomentOf, MsPerDay, MsPerMinute, Moments
<1>8. QED
  BY SMT, <1>1, <1>2, <1>7

-----------------------------------------------------------------------------
Dropped(d) == d.tail.first * d.tail.step + d.tail.rest
Whole(d) == 10 * d.tail.step
Parts(d) == Signed(d.negative, d.magnitude * Whole(d) + Dropped(d))

Distance(a, b) == IF a <= b THEN b - a ELSE a - b

(* What a mode promises of r minor units, for a number of parts of which   *)
(* `whole' make one.                                                       *)
Promise(parts, whole, mode, r) ==
  LET off == Distance(r * whole, parts)
  IN /\ mode = "floor" => r * whole <= parts /\ parts < (r + 1) * whole
     /\ mode = "ceil" => (r - 1) * whole < parts /\ parts <= r * whole
     /\ mode = "half-even" => 2 * off <= whole /\ (2 * off = whole => r % 2 = 0)
     /\ mode = "half-away-from-zero" =>
          2 * off <= whole /\ (2 * off = whole => IF parts < 0 THEN r * whole < parts
                                                              ELSE parts < r * whole)

-----------------------------------------------------------------------------
(* The tail of a decimal is less than one minor unit, and compareToHalf    *)
(* compares it with half of one.                                           *)
LEMMA TailOf ==
  ASSUME NEW tail \in Tails, tail # NoTail
  PROVE  LET parts == tail.first * tail.step + tail.rest
             whole == 10 * tail.step
         IN /\ parts \in Nat /\ whole \in Nat /\ parts < whole
            /\ Nothing(tail) <=> parts = 0
            /\ AgainstHalf(tail) > 0 <=> 2 * parts > whole
            /\ AgainstHalf(tail) = 0 <=> 2 * parts = whole
            /\ AgainstHalf(tail) >= 0 <=> 2 * parts >= whole
<1>1. PICK f \in 0 .. 9, r \in Nat, s \in Nat :
        tail.first = f /\ tail.rest = r /\ tail.step = s /\ r < s
  BY SMT DEF Tails
<1>2. f * s = IF f = 0 THEN 0 ELSE IF f = 1 THEN s ELSE IF f = 2 THEN 2 * s
              ELSE IF f = 3 THEN 3 * s ELSE IF f = 4 THEN 4 * s ELSE IF f = 5 THEN 5 * s
              ELSE IF f = 6 THEN 6 * s ELSE IF f = 7 THEN 7 * s ELSE IF f = 8 THEN 8 * s ELSE 9 * s
  BY SMT
<1>3. QED
  BY SMT, <1>1, <1>2 DEF Nothing, AgainstHalf

(* The same for a magnitude and what is left of it, with the sign apart.   *)
LEMMA RoundedParts ==
  ASSUME NEW m \in Nat, NEW p \in Nat, NEW w \in Nat, p < w, NEW mode \in Modes,
         NEW negative \in BOOLEAN, NEW up \in BOOLEAN,
         up <=> /\ p # 0
                /\ \/ mode = "floor" /\ negative
                   \/ mode = "ceil" /\ ~negative
                   \/ mode = "half-away-from-zero" /\ 2 * p >= w
                   \/ mode = "half-even" /\ (2 * p > w \/ (2 * p = w /\ m % 2 # 0))
  PROVE  Promise(Signed(negative, m * w + p), w, mode, Signed(negative, IF up THEN m + 1 ELSE m))
<1>1. PICK q \in Nat : q = m * w
  BY SMT
<1>2. CASE negative /\ up
  <2>1. PICK r \in Int : r = -(m + 1)
    BY SMT
  <2>2. r * w = -q - w /\ (r + 1) * w = -q /\ (r - 1) * w = -q - 2 * w /\ (r % 2 = 0 <=> m % 2 # 0)
    BY SMT, <1>1, <2>1
  <2>3. PICK n \in Int : n = -(q + p)
    BY SMT
  <2>4. Distance(r * w, n) = w - p
    BY SMT, <2>2, <2>3 DEF Distance
  <2>5. Promise(n, w, mode, r)
    BY SMT, <1>1, <1>2, <2>2, <2>3, <2>4 DEF Promise, Modes
  <2>6. QED
    BY <1>1, <1>2, <2>1, <2>3, <2>5 DEF Signed
<1>3. CASE negative /\ ~up
  <2>1. PICK r \in Int : r = -m
    BY SMT
  <2>2. r * w = -q /\ (r + 1) * w = w - q /\ (r - 1) * w = -q - w /\ (r % 2 = 0 <=> m % 2 = 0)
    BY SMT, <1>1, <2>1
  <2>3. PICK n \in Int : n = -(q + p)
    BY SMT
  <2>4. Distance(r * w, n) = p
    BY SMT, <2>2, <2>3 DEF Distance
  <2>5. Promise(n, w, mode, r)
    BY SMT, <1>1, <1>3, <2>2, <2>3, <2>4 DEF Promise, Modes
  <2>6. QED
    BY <1>1, <1>3, <2>1, <2>3, <2>5 DEF Signed
<1>4. CASE ~negative /\ up
  <2>1. PICK r \in Int : r = m + 1
    BY SMT
  <2>2. r * w = q + w /\ (r + 1) * w = q + 2 * w /\ (r - 1) * w = q /\ (r % 2 = 0 <=> m % 2 # 0)
    BY SMT, <1>1, <2>1
  <2>3. PICK n \in Int : n = q + p
    BY SMT
  <2>4. Distance(r * w, n) = w - p
    BY SMT, <2>2, <2>3 DEF Distance
  <2>5. Promise(n, w, mode, r)
    BY SMT, <1>1, <1>4, <2>2, <2>3, <2>4 DEF Promise, Modes
  <2>6. QED
    BY <1>1, <1>4, <2>1, <2>3, <2>5 DEF Signed
<1>5. CASE ~negative /\ ~up
  <2>1. PICK r \in Int : r = m
    BY SMT
  <2>2. r * w = q /\ (r + 1) * w = q + w /\ (r - 1) * w = q - w /\ (r % 2 = 0 <=> m % 2 = 0)
    BY SMT, <1>1, <2>1
  <2>3. PICK n \in Int : n = q + p
    BY SMT
  <2>4. Distance(r * w, n) = p
    BY SMT, <2>2, <2>3 DEF Distance
  <2>5. Promise(n, w, mode, r)
    BY SMT, <1>1, <1>5, <2>2, <2>3, <2>4 DEF Promise, Modes
  <2>6. QED
    BY <1>1, <1>5, <2>1, <2>3, <2>5 DEF Signed
<1>6. QED
  BY <1>2, <1>3, <1>4, <1>5

(* Each mode gives the integer it names: floor the greatest that is not    *)
(* above the number, ceil the least that is not below it, the others the   *)
(* nearest, and of two the even one or the one away from zero. This is for *)
(* roundToMinorUnits with any number of digits dropped, of either sign.    *)
THEOREM RoundingKeepsItsPromise ==
  ASSUME NEW d \in Decimals, d.tail # NoTail, NEW mode \in Modes
  PROVE  Promise(Parts(d), Whole(d), mode, Rounded(d, mode))
<1>1. d.magnitude \in Nat /\ d.negative \in BOOLEAN /\ d.tail \in Tails
  BY DEF Decimals
<1>2. Dropped(d) \in Nat /\ Whole(d) \in Nat /\ Dropped(d) < Whole(d)
  BY SMT, <1>1, TailOf DEF Whole, Dropped
<1>3. /\ Nothing(d.tail) <=> Dropped(d) = 0
      /\ AgainstHalf(d.tail) > 0 <=> 2 * Dropped(d) > Whole(d)
      /\ AgainstHalf(d.tail) = 0 <=> 2 * Dropped(d) = Whole(d)
      /\ AgainstHalf(d.tail) >= 0 <=> 2 * Dropped(d) >= Whole(d)
  BY SMT, <1>1, TailOf DEF Whole, Dropped
<1> DEFINE up == ~Nothing(d.tail) /\ Away(d.magnitude, d.tail, mode, d.negative)
<1>4. up <=> /\ Dropped(d) # 0
             /\ \/ mode = "floor" /\ d.negative
                \/ mode = "ceil" /\ ~d.negative
                \/ mode = "half-away-from-zero" /\ 2 * Dropped(d) >= Whole(d)
                \/ /\ mode = "half-even"
                   /\ \/ 2 * Dropped(d) > Whole(d)
                      \/ 2 * Dropped(d) = Whole(d) /\ d.magnitude % 2 # 0
  BY Zenon, <1>3 DEF Away
<1>5. Rounded(d, mode) = Signed(d.negative, IF up THEN d.magnitude + 1 ELSE d.magnitude)
  BY Zenon DEF Rounded
<1>6. up \in BOOLEAN
  BY Zenon
<1> HIDE DEF up
<1>7. Promise(Signed(d.negative, d.magnitude * Whole(d) + Dropped(d)), Whole(d), mode,
              Signed(d.negative, IF up THEN d.magnitude + 1 ELSE d.magnitude))
  BY Zenon, <1>1, <1>2, <1>4, <1>6, RoundedParts
<1>8. QED
  BY Zenon, <1>5, <1>7 DEF Parts

(* A promise leaves no choice that could cross another.                    *)
LEMMA PromisesInOrder ==
  ASSUME NEW w \in Nat, 0 < w, NEW a \in Int, NEW b \in Int, a <= b,
         NEW r \in Int, NEW s \in Int, NEW mode \in Modes,
         Promise(a, w, mode, r), Promise(b, w, mode, s)
  PROVE  r <= s
<1> SUFFICES ASSUME s + 1 <= r PROVE FALSE
  BY SMT
<1>1. PICK x \in Int, y \in Int : x = r * w /\ y = s * w
  BY SMT
<1>2. /\ (r + 1) * w = x + w /\ (r - 1) * w = x - w
      /\ (s + 1) * w = y + w /\ (s - 1) * w = y - w
  BY SMT, <1>1
<1>3. y + w <= x
  <2>1. PICK k \in Nat : r = s + 1 + k
    BY SMT
  <2>2. PICK z \in Nat : z = k * w
    BY SMT
  <2>3. QED
    BY SMT, <1>1, <2>1, <2>2
<1>4. CASE mode \in {"floor", "ceil"}
  BY SMT, <1>1, <1>2, <1>3, <1>4 DEF Promise
<1>5. CASE mode \in {"half-even", "half-away-from-zero"}
  <2>1. /\ 2 * Distance(x, a) <= w /\ 2 * Distance(y, b) <= w
        /\ Distance(x, a) \in Nat /\ Distance(y, b) \in Nat
    BY SMT, <1>1, <1>5 DEF Promise, Distance
  <2>2. a = b /\ 2 * Distance(x, a) = w /\ 2 * Distance(y, b) = w /\ x = y + w /\ y < a /\ a < x
    BY SMT, <1>3, <2>1 DEF Distance
  <2>3. r = s + 1
    <3>1. r # s + 1 => y + w + w <= x
      <4>1. SUFFICES ASSUME r # s + 1 PROVE y + w + w <= x
        OBVIOUS
      <4>2. PICK k \in Nat : r = s + 2 + k
        BY SMT, <4>1
      <4>3. PICK z \in Nat : z = k * w
        BY SMT
      <4>4. QED
        BY SMT, <1>1, <4>2, <4>3
    <3>2. QED
      BY SMT, <2>2, <3>1
  <2>4. CASE mode = "half-even"
    <3>1. r % 2 = 0 /\ s % 2 = 0
      BY SMT, <1>1, <2>2, <2>4 DEF Promise
    <3>2. QED
      BY SMT, <2>3, <3>1
  <2>5. CASE mode = "half-away-from-zero"
    BY SMT, <1>1, <2>2, <2>5 DEF Promise
  <2>6. QED
    BY <1>5, <2>4, <2>5
<1>6. QED
  BY SMT, <1>4, <1>5 DEF Modes

(* Rounding keeps the order: of two decimals cut at the same places the    *)
(* greater is not rounded to less, also where the sign changes and where   *)
(* both lie on halves.                                                     *)
THEOREM RoundingGrows ==
  ASSUME NEW d \in Decimals, d.tail # NoTail, NEW e \in Decimals, e.tail # NoTail,
         d.tail.step = e.tail.step, Parts(d) <= Parts(e), NEW mode \in Modes
  PROVE  Rounded(d, mode) <= Rounded(e, mode)
<1>1. ASSUME NEW c \in Decimals, c.tail # NoTail
      PROVE  /\ Parts(c) \in Int /\ Rounded(c, mode) \in Int
             /\ Whole(c) \in Nat /\ 0 < Whole(c)
  <2>1. c.magnitude \in Nat /\ c.negative \in BOOLEAN /\ c.tail \in Tails
    BY DEF Decimals
  <2>2. Dropped(c) \in Nat /\ Whole(c) \in Nat /\ Dropped(c) < Whole(c)
    BY SMT, <1>1, <2>1, TailOf DEF Whole, Dropped
  <2>3. c.magnitude * Whole(c) \in Nat
    BY SMT, <2>1, <2>2
  <2>4. Parts(c) \in Int
    BY SMT, <2>2, <2>3 DEF Parts, Signed
  <2>5. Rounded(c, mode) \in Int
    BY SMT, <2>1 DEF Rounded, Signed
  <2>6. QED
    BY SMT, <2>2, <2>4, <2>5
<1>2. Whole(d) = Whole(e)
  BY DEF Whole
<1>3. Promise(Parts(d), Whole(d), mode, Rounded(d, mode))
  BY RoundingKeepsItsPromise
<1>4. Promise(Parts(e), Whole(d), mode, Rounded(e, mode))
  BY <1>2, RoundingKeepsItsPromise
<1>5. QED
  BY <1>1, <1>3, <1>4, PromisesInOrder

(* What parseDecimalMinorUnits takes is not rounded by any mode, and the   *)
(* one that is added to a safe magnitude is still an exact double, which   *)
(* checkMinorUnits sees before it refuses it.                              *)
THEOREM ParsedIsNotRounded ==
  ASSUME NEW d \in Decimals, NEW unit \in Units, NEW mode \in Modes
  PROVE  /\ Parses(d, unit) => /\ Rounds(d, unit, mode)
                               /\ Rounded(d, mode) = Signed(d.negative, d.magnitude)
         /\ d.magnitude <= MaxSafe => /\ -MaxSafe - 1 <= Rounded(d, mode)
                                      /\ Rounded(d, mode) <= MaxSafe + 1
<1>1. d.magnitude \in Nat /\ d.negative \in BOOLEAN
  BY DEF Decimals
<1>2. Parses(d, unit) => Rounded(d, mode) = Signed(d.negative, d.magnitude)
  BY DEF Parses, Rounded, Nothing, NoTail
<1>3. d.magnitude <= MaxSafe => /\ -MaxSafe - 1 <= Rounded(d, mode)
                               /\ Rounded(d, mode) <= MaxSafe + 1
  BY SMT, <1>1 DEF Rounded, Signed, MaxSafe
<1>4. QED
  BY <1>2, <1>3 DEF Parses, Rounds
=============================================================================
