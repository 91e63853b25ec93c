---------------------------- MODULE UnitsProofs -----------------------------
(***************************************************************************)
(* Theorems about Units, for units with any enumerations, memory and       *)
(* texts: a word, a switching programme as it is typed, or a time, that a  *)
(* set command has set is what the next get command shows, for every date  *)
(* of the calendar, whenever the host's clocks are changed.                *)
(***************************************************************************)
EXTENDS Units, WellFoundedInduction, NaturalsInduction, SequenceTheorems, TLAPS

-----------------------------------------------------------------------------
(* The calendar: an hour added and an hour taken cancel each other.        *)

LEMMA DaysAre ==
  ASSUME NEW y, NEW m
  PROVE  Days(y, m) \in 28..31 /\ Days(y, 12) = 31
BY DEF Days

LEMMA DateFields ==
  ASSUME NEW d \in DateTime
  PROVE  /\ d.year \in Int /\ d.month \in Int /\ d.day \in Int
         /\ d.hour \in Int /\ d.min \in Int /\ d.sec \in Int
BY DEF DateTime

LEMMA SameDate ==
  ASSUME NEW d \in DateTime, NEW c \in DateTime,
         c.year = d.year, c.month = d.month, c.day = d.day,
         c.hour = d.hour, c.min = d.min, c.sec = d.sec
  PROVE  c = d
BY DEF DateTime

LEMMA OnDayIs ==
  ASSUME NEW d \in DateTime, NEW y \in Int, NEW mo \in Int, NEW day \in Int,
         NEW c, c = OnDay(d, y, mo, day)
  PROVE  /\ c \in DateTime /\ c.year = y /\ c.month = mo /\ c.day = day
         /\ c.hour = d.hour /\ c.min = d.min /\ c.sec = d.sec
BY DEF OnDay, DateTime

LEMMA WithHour ==
  ASSUME NEW d \in DateTime, NEW h \in Int, NEW c, c = AtHour(d, h)
  PROVE  /\ c \in DateTime /\ c.year = d.year /\ c.month = d.month /\ c.day = d.day
         /\ c.hour = h /\ c.min = d.min /\ c.sec = d.sec
BY DEF AtHour, DateTime

\* The day after a date and the day before it, by their fields.
After(c, d) ==
  \/ d.day < Days(d.year, d.month) /\ c.day = d.day + 1 /\ c.month = d.month /\ c.year = d.year
  \/ d.day = Days(d.year, d.month) /\ d.month < 12 /\ c.day = 1
     /\ c.month = d.month + 1 /\ c.year = d.year
  \/ d.day = 31 /\ d.month = 12 /\ c.day = 1 /\ c.month = 1 /\ c.year = d.year + 1

Before(c, d) ==
  \/ d.day > 1 /\ c.day = d.day - 1 /\ c.month = d.month /\ c.year = d.year
  \/ d.day = 1 /\ d.month > 1 /\ c.day = Days(c.year, c.month)
     /\ c.month = d.month - 1 /\ c.year = d.year
  \/ d.day = 1 /\ d.month = 1 /\ c.day = 31 /\ c.month = 12 /\ c.year = d.year - 1

SameClock(c, d) == c.hour = d.hour /\ c.min = d.min /\ c.sec = d.sec

LEMMA NextDayIs ==
  ASSUME NEW d \in DateTime, IsDate(d), NEW c, c = NextDay(d)
  PROVE  c \in DateTime /\ IsDate(c) /\ SameClock(c, d) /\ After(c, d)
<1>1. PICK n \in 28..31 : n = Days(d.year, d.month)
  BY DaysAre
<1>2. /\ d.month \in 1..12 /\ d.day \in 1..n /\ d.year \in Int
      /\ d.hour \in 0..23 /\ d.min \in 0..59 /\ d.sec \in 0..59
  BY <1>1, DateFields DEF IsDate
<1>3. CASE d.day < n
  <2>1. c = OnDay(d, d.year, d.month, d.day + 1)
    BY <1>1, <1>3 DEF NextDay
  <2>2. /\ c \in DateTime /\ c.year = d.year /\ c.month = d.month /\ c.day = d.day + 1
        /\ c.hour = d.hour /\ c.min = d.min /\ c.sec = d.sec
    BY <1>2, <2>1, OnDayIs
  <2>3. c.day \in 1..Days(c.year, c.month)
    BY <1>1, <1>2, <1>3, <2>2
  <2> QED
    BY <1>1, <1>2, <1>3, <2>2, <2>3 DEF IsDate, After, SameClock
<1>4. CASE ~(d.day < n) /\ d.month < 12
  <2>1. c = OnDay(d, d.year, d.month + 1, 1)
    BY <1>1, <1>4 DEF NextDay
  <2>2. /\ c \in DateTime /\ c.year = d.year /\ c.month = d.month + 1 /\ c.day = 1
        /\ c.hour = d.hour /\ c.min = d.min /\ c.sec = d.sec
    BY <1>2, <2>1, OnDayIs
  <2>3. c.day \in 1..Days(c.year, c.month)
    BY <2>2, DaysAre
  <2> QED
    BY <1>1, <1>2, <1>4, <2>2, <2>3 DEF IsDate, After, SameClock
<1>5. CASE ~(d.day < n) /\ ~(d.month < 12)
  <2>1. c = OnDay(d, d.year + 1, 1, 1)
    BY <1>1, <1>5 DEF NextDay
  <2>2. /\ c \in DateTime /\ c.year = d.year + 1 /\ c.month = 1 /\ c.day = 1
        /\ c.hour = d.hour /\ c.min = d.min /\ c.sec = d.sec
    BY <1>2, <2>1, OnDayIs
  <2>3. c.day \in 1..Days(c.year, c.month)
    BY <2>2, DaysAre
  <2>4. n = 31 /\ d.month = 12
    BY <1>1, <1>2, <1>5, DaysAre
  <2> QED
    BY <1>1, <1>2, <1>5, <2>2, <2>3, <2>4 DEF IsDate, After, SameClock
<1> QED
  BY <1>3, <1>4, <1>5

LEMMA DayBeforeIs ==
  ASSUME NEW d \in DateTime, IsDate(d), NEW c, c = DayBefore(d)
  PROVE  c \in DateTime /\ IsDate(c) /\ SameClock(c, d) /\ Before(c, d)
<1>1. PICK n \in 28..31 : n = Days(d.year, d.month)
  BY DaysAre
<1>2. /\ d.month \in 1..12 /\ d.day \in 1..n /\ d.year \in Int
      /\ d.hour \in 0..23 /\ d.min \in 0..59 /\ d.sec \in 0..59
  BY <1>1, DateFields DEF IsDate
<1>3. CASE d.day > 1
  <2>1. c = OnDay(d, d.year, d.month, d.day - 1)
    BY <1>3 DEF DayBefore
  <2>2. /\ c \in DateTime /\ c.year = d.year /\ c.month = d.month /\ c.day = d.day - 1
        /\ c.hour = d.hour /\ c.min = d.min /\ c.sec = d.sec
    BY <1>2, <2>1, OnDayIs
  <2>3. c.day \in 1..Days(c.year, c.month)
    BY <1>1, <1>2, <1>3, <2>2
  <2> QED
    BY <1>2, <1>3, <2>2, <2>3 DEF IsDate, Before, SameClock
<1>4. CASE ~(d.day > 1) /\ d.month > 1
  <2>1. PICK k \in 28..31 : k = Days(d.year, d.month - 1)
    BY DaysAre
  <2>2. c = OnDay(d, d.year, d.month - 1, k)
    BY <1>4, <2>1 DEF DayBefore
  <2>3. /\ c \in DateTime /\ c.year = d.year /\ c.month = d.month - 1 /\ c.day = k
        /\ c.hour = d.hour /\ c.min = d.min /\ c.sec = d.sec
    BY <1>2, <2>2, OnDayIs
  <2>4. c.day \in 1..Days(c.year, c.month) /\ c.day = Days(c.year, c.month)
    BY <2>1, <2>3
  <2> QED
    BY <1>2, <1>4, <2>3, <2>4 DEF IsDate, Before, SameClock
<1>5. CASE ~(d.day > 1) /\ ~(d.month > 1)
  <2>1. c = OnDay(d, d.year - 1, 12, 31)
    BY <1>5 DEF DayBefore
  <2>2. /\ c \in DateTime /\ c.year = d.year - 1 /\ c.month = 12 /\ c.day = 31
        /\ c.hour = d.hour /\ c.min = d.min /\ c.sec = d.sec
    BY <1>2, <2>1, OnDayIs
  <2>3. c.day \in 1..Days(c.year, c.month)
    BY <2>2, DaysAre
  <2> QED
    BY <1>2, <1>5, <2>2, <2>3 DEF IsDate, Before, SameClock
<1> QED
  BY <1>3, <1>4, <1>5

\* The number of days does not depend on the hour.
LEMMA SameDayAtHour ==
  ASSUME NEW d \in DateTime, IsDate(d), NEW h \in 0..23, NEW c, c = AtHour(d, h)
  PROVE  c \in DateTime /\ IsDate(c)
<1>1. /\ c \in DateTime /\ c.year = d.year /\ c.month = d.month /\ c.day = d.day
      /\ c.hour = h /\ c.min = d.min /\ c.sec = d.sec
  BY WithHour
<1> QED
  BY <1>1 DEF IsDate

\* Across the ends of months and years, leap years or not.
LEMMA NextDayBefore ==
  ASSUME NEW d \in DateTime, IsDate(d), NEW c, c = NextDay(d), NEW h \in 0..23,
         NEW e, e = AtHour(c, h), NEW b, b = DayBefore(e)
  PROVE  /\ b \in DateTime /\ b.year = d.year /\ b.month = d.month /\ b.day = d.day
         /\ b.hour = h /\ b.min = d.min /\ b.sec = d.sec
<1>1. PICK n \in 28..31 : n = Days(d.year, d.month)
  BY DaysAre
<1>2. d.month \in 1..12 /\ d.day \in 1..n /\ d.year \in Int
  BY <1>1, DateFields DEF IsDate
<1>3. c \in DateTime /\ IsDate(c) /\ SameClock(c, d) /\ After(c, d)
  BY NextDayIs
<1>4. /\ e \in DateTime /\ e.year = c.year /\ e.month = c.month /\ e.day = c.day
      /\ e.hour = h /\ e.min = c.min /\ e.sec = c.sec
  BY <1>3, WithHour
<1>5. IsDate(e)
  BY <1>3, SameDayAtHour
<1>6. b \in DateTime /\ SameClock(b, e) /\ Before(b, e)
  BY <1>4, <1>5, DayBeforeIs
<1>7. b.hour = h /\ b.min = d.min /\ b.sec = d.sec
  BY <1>3, <1>4, <1>6 DEF SameClock
<1>8. b.year = d.year /\ b.month = d.month /\ b.day = d.day
  BY <1>1, <1>2, <1>3, <1>4, <1>6 DEF After, Before
<1> QED
  BY <1>6, <1>7, <1>8

LEMMA DayBeforeNext ==
  ASSUME NEW d \in DateTime, IsDate(d), NEW c, c = DayBefore(d), NEW h \in 0..23,
         NEW e, e = AtHour(c, h), NEW b, b = NextDay(e)
  PROVE  /\ b \in DateTime /\ b.year = d.year /\ b.month = d.month /\ b.day = d.day
         /\ b.hour = h /\ b.min = d.min /\ b.sec = d.sec
<1>1. PICK n \in 28..31 : n = Days(d.year, d.month)
  BY DaysAre
<1>2. d.month \in 1..12 /\ d.day \in 1..n /\ d.year \in Int
  BY <1>1, DateFields DEF IsDate
<1>3. c \in DateTime /\ IsDate(c) /\ SameClock(c, d) /\ Before(c, d)
  BY DayBeforeIs
<1>4. /\ e \in DateTime /\ e.year = c.year /\ e.month = c.month /\ e.day = c.day
      /\ e.hour = h /\ e.min = c.min /\ e.sec = c.sec
  BY <1>3, WithHour
<1>5. IsDate(e)
  BY <1>3, SameDayAtHour
<1>6. b \in DateTime /\ SameClock(b, e) /\ After(b, e)
  BY <1>4, <1>5, NextDayIs
<1>7. b.hour = h /\ b.min = d.min /\ b.sec = d.sec
  BY <1>3, <1>4, <1>6 DEF SameClock
<1>8. PICK k \in 28..31 : k = Days(e.year, e.month)
  BY DaysAre
<1>9. e.month = 12 => k = 31
  BY <1>8, DaysAre
<1>10. b.year = d.year /\ b.month = d.month /\ b.day = d.day
  BY <1>1, <1>2, <1>3, <1>4, <1>6, <1>8, <1>9 DEF After, Before
<1> QED
  BY <1>6, <1>7, <1>10

\* Hours added within a day and over midnight.
LEMMA WithinDay ==
  ASSUME NEW d, NEW h \in 0..23, d.hour = h
  PROVE  /\ h < 23 => AddHours(d, 1) = AtHour(d, h + 1)
         /\ h > 0 => AddHours(d, -1) = AtHour(d, h + (-1))
<1>1. ASSUME h < 23 PROVE AddHours(d, 1) = AtHour(d, h + 1)
  <2>1. ~(h + 1 > 23) /\ ~(h + 1 < 0) /\ (h + 1 + 24) % 24 = h + 1
    BY <1>1
  <2>2. ~(d.hour + 1 > 23) /\ ~(d.hour + 1 < 0) /\ (d.hour + 1 + 24) % 24 = h + 1
    BY <2>1
  <2> QED
    BY <2>2 DEF AddHours
<1>2. ASSUME h > 0 PROVE AddHours(d, -1) = AtHour(d, h + (-1))
  <2>1. ~(h + (-1) > 23) /\ ~(h + (-1) < 0) /\ (h + (-1) + 24) % 24 = h + (-1)
    BY <1>2
  <2>2. /\ ~(d.hour + (-1) > 23) /\ ~(d.hour + (-1) < 0)
        /\ (d.hour + (-1) + 24) % 24 = h + (-1)
    BY <2>1
  <2> QED
    BY <2>2 DEF AddHours
<1> QED
  BY <1>1, <1>2

LEMMA OverMidnight ==
  ASSUME NEW d
  PROVE  /\ d.hour = 23 => AddHours(d, 1) = AtHour(NextDay(d), 0)
         /\ d.hour = 0 => AddHours(d, -1) = AtHour(DayBefore(d), 23)
<1>1. ASSUME d.hour = 23 PROVE AddHours(d, 1) = AtHour(NextDay(d), 0)
  <2>1. d.hour + 1 > 23 /\ (d.hour + 1 + 24) % 24 = 0
    BY <1>1
  <2> QED
    BY <1>1, <2>1 DEF AddHours
<1>2. ASSUME d.hour = 0 PROVE AddHours(d, -1) = AtHour(DayBefore(d), 23)
  <2>1. ~(d.hour + (-1) > 23) /\ d.hour + (-1) < 0 /\ (d.hour + (-1) + 24) % 24 = 23
    BY <1>2
  <2> QED
    BY <1>2, <2>1 DEF AddHours
<1> QED
  BY <1>1, <1>2

LEMMA HourAdded ==
  ASSUME NEW d \in DateTime, IsDate(d), NEW n \in -23..23
  PROVE  AddHours(d, n) \in DateTime /\ IsDate(AddHours(d, n))
<1>1. (d.hour + n + 24) % 24 \in 0..23
  <2>1. PICK x \in 0..23 : x = d.hour
    BY DEF IsDate
  <2>2. PICK k \in Nat : k = x + n + 24
    OBVIOUS
  <2>3. k % 24 \in 0..23
    OBVIOUS
  <2> QED
    BY <2>1, <2>2, <2>3
<1>2. PICK h \in 0..23 : h = (d.hour + n + 24) % 24
  BY <1>1
<1>3. PICK c : c \in {NextDay(d), DayBefore(d), d} /\ AddHours(d, n) = AtHour(c, h)
  BY <1>1, <1>2 DEF AddHours
<1>4. c \in DateTime /\ IsDate(c)
  BY <1>3, NextDayIs, DayBeforeIs
<1> QED
  BY <1>3, <1>4, SameDayAtHour

LEMMA NoHourAdded ==
  ASSUME NEW d \in DateTime, IsDate(d)
  PROVE  AddHours(d, 0) = d
<1>1. d.hour \in 0..23 /\ (d.hour + 0 + 24) % 24 = d.hour
  BY DEF IsDate
<1>2. AddHours(d, 0) = AtHour(d, d.hour)
  BY <1>1 DEF AddHours
<1>3. PICK h \in Int : h = d.hour
  BY DateFields
<1>4. PICK c : c = AtHour(d, h)
  OBVIOUS
<1>5. /\ c \in DateTime /\ c.year = d.year /\ c.month = d.month /\ c.day = d.day
      /\ c.hour = h /\ c.min = d.min /\ c.sec = d.sec
  BY <1>4, WithHour
<1>6. c = d
  BY <1>3, <1>5, SameDate
<1> QED
  BY <1>2, <1>3, <1>4, <1>6

LEMMA HourForthAndBack ==
  ASSUME NEW d \in DateTime, IsDate(d)
  PROVE  AddHours(AddHours(d, 1), -1) = d
<1>1. d.hour \in 0..23
  BY DEF IsDate
<1>2. PICK e : e = AddHours(d, 1)
  OBVIOUS
<1>3. PICK f : f = AddHours(e, -1)
  OBVIOUS
<1>4. CASE d.hour < 23
  <2>1. PICK x \in 0..23 : x = d.hour
    BY <1>1
  <2>2. PICK h \in 1..23 : h = x + 1 /\ x = h + (-1)
    BY <1>4, <2>1
  <2>3. e = AtHour(d, h)
    BY <1>2, <1>4, <2>1, <2>2, WithinDay
  <2>4. /\ e \in DateTime /\ e.year = d.year /\ e.month = d.month /\ e.day = d.day
        /\ e.hour = h /\ e.min = d.min /\ e.sec = d.sec
    BY <2>3, WithHour
  <2>5. f = AtHour(e, x)
    BY <1>3, <2>2, <2>4, WithinDay
  <2>6. /\ f \in DateTime /\ f.year = e.year /\ f.month = e.month /\ f.day = e.day
        /\ f.hour = x /\ f.min = e.min /\ f.sec = e.sec
    <3>1. e \in DateTime /\ x \in Int
      BY <2>4
    <3> QED
      BY ONLY <2>5, <3>1, WithHour
  <2> QED
    BY <1>2, <1>3, <2>1, <2>4, <2>6, SameDate
<1>5. CASE d.hour = 23
  <2>1. PICK c : c = NextDay(d)
    OBVIOUS
  <2>2. e = AtHour(c, 0)
    BY <1>2, <1>5, <2>1, OverMidnight
  <2>3. e \in DateTime /\ e.hour = 0
    BY <2>1, <2>2, NextDayIs, WithHour
  <2>4. PICK b : b = DayBefore(e)
    OBVIOUS
  <2>5. f = AtHour(b, 23)
    BY <1>3, <2>3, <2>4, OverMidnight
  <2>6. /\ b \in DateTime /\ b.year = d.year /\ b.month = d.month /\ b.day = d.day
        /\ b.min = d.min /\ b.sec = d.sec
    BY <2>1, <2>2, <2>4, NextDayBefore
  <2>7. /\ f \in DateTime /\ f.year = b.year /\ f.month = b.month /\ f.day = b.day
        /\ f.hour = 23 /\ f.min = b.min /\ f.sec = b.sec
    BY <2>5, <2>6, WithHour
  <2> QED
    BY <1>2, <1>3, <1>5, <2>6, <2>7, SameDate
<1> QED
  BY <1>1, <1>4, <1>5

LEMMA HourBackAndForth ==
  ASSUME NEW d \in DateTime, IsDate(d)
  PROVE  AddHours(AddHours(d, -1), 1) = d
<1>1. d.hour \in 0..23
  BY DEF IsDate
<1>2. PICK e : e = AddHours(d, -1)
  OBVIOUS
<1>3. PICK f : f = AddHours(e, 1)
  OBVIOUS
<1>4. CASE d.hour > 0
  <2>1. PICK x \in 0..23 : x = d.hour
    BY <1>1
  <2>2. PICK h \in 0..22 : h = x + (-1) /\ x = h + 1
    BY <1>4, <2>1
  <2>3. e = AtHour(d, h)
    BY <1>2, <1>4, <2>1, <2>2, WithinDay
  <2>4. /\ e \in DateTime /\ e.year = d.year /\ e.month = d.month /\ e.day = d.day
        /\ e.hour = h /\ e.min = d.min /\ e.sec = d.sec
    BY <2>3, WithHour
  <2>5. f = AtHour(e, x)
    BY <1>3, <2>2, <2>4, WithinDay
  <2>6. /\ f \in DateTime /\ f.year = e.year /\ f.month = e.month /\ f.day = e.day
        /\ f.hour = x /\ f.min = e.min /\ f.sec = e.sec
    <3>1. e \in DateTime /\ x \in Int
      BY <2>4
    <3> QED
      BY ONLY <2>5, <3>1, WithHour
  <2> QED
    BY <1>2, <1>3, <2>1, <2>4, <2>6, SameDate
<1>5. CASE d.hour = 0
  <2>1. PICK c : c = DayBefore(d)
    OBVIOUS
  <2>2. e = AtHour(c, 23)
    BY <1>2, <1>5, <2>1, OverMidnight
  <2>3. e \in DateTime /\ e.hour = 23
    BY <2>1, <2>2, DayBeforeIs, WithHour
  <2>4. PICK b : b = NextDay(e)
    OBVIOUS
  <2>5. f = AtHour(b, 0)
    BY <1>3, <2>3, <2>4, OverMidnight
  <2>6. /\ b \in DateTime /\ b.year = d.year /\ b.month = d.month /\ b.day = d.day
        /\ b.min = d.min /\ b.sec = d.sec
    BY <2>1, <2>2, <2>4, DayBeforeNext
  <2>7. /\ f \in DateTime /\ f.year = b.year /\ f.month = b.month /\ f.day = b.day
        /\ f.hour = 0 /\ f.min = b.min /\ f.sec = b.sec
    BY <2>5, <2>6, WithHour
  <2> QED
    BY <1>2, <1>3, <1>5, <2>6, <2>7, SameDate
<1> QED
  BY <1>1, <1>4, <1>5

-----------------------------------------------------------------------------
(* The system time that is set is the one that is read.                    *)

LEMMA BcdKept ==
  ASSUME NEW n \in 0..79
  PROVE  bcd2dec(dec2bcd(n)) = n
<1>1. PICK t \in 0..7, o \in 0..9 : t = n \div 10 /\ o = n % 10 /\ n = 10 * t + o
  OBVIOUS
<1>2. PICK b \in 0..127 : b = t * 16 + o
  OBVIOUS
<1>3. dec2bcd(n) = b
  BY <1>1, <1>2 DEF dec2bcd
<1>4. Signed8(b) = b
  BY DEF Signed8
<1>5. b \div 16 = t
  BY <1>2
<1>6. Quotient(b, 16) = t
  BY <1>5 DEF Quotient, Abs
<1>7. b - t * 6 = n
  BY <1>1, <1>2
<1> QED
  BY <1>3, <1>4, <1>6, <1>7 DEF bcd2dec

LEMMA YearParts ==
  ASSUME NEW y, Readable(y)
  PROVE  /\ y \div 100 \in 0..79 /\ y % 100 \in 0..79
         /\ (y \div 100) * 100 + (y % 100) = y
<1>1. y \in 0..7999 /\ y % 100 < 80
  BY DEF Readable
<1>2. PICK c \in 0..79, r \in 0..99 : y = c * 100 + r
  BY <1>1
<1>3. y \div 100 = c
  BY ONLY <1>2
<1>4. y % 100 = r
  BY ONLY <1>2
<1> QED
  BY <1>1, <1>2, <1>3, <1>4

LEMMA TimeBytesAre ==
  ASSUME NEW d
  PROVE  /\ Len(TimeBytes(d)) = 8
         /\ TimeBytes(d)[1] = dec2bcd(d.year \div 100)
         /\ TimeBytes(d)[2] = dec2bcd(d.year % 100)
         /\ TimeBytes(d)[3] = dec2bcd(d.month) /\ TimeBytes(d)[4] = dec2bcd(d.day)
         /\ TimeBytes(d)[6] = dec2bcd(d.hour) /\ TimeBytes(d)[7] = dec2bcd(d.min)
         /\ TimeBytes(d)[8] = dec2bcd(d.sec)
BY DEF TimeBytes

\* The date in eight bytes.
DateIn(bytes) ==
  [year |-> bcd2dec(bytes[1]) * 100 + bcd2dec(bytes[2]),
   month |-> bcd2dec(bytes[3]), day |-> bcd2dec(bytes[4]),
   hour |-> bcd2dec(bytes[6]), min |-> bcd2dec(bytes[7]), sec |-> bcd2dec(bytes[8])]

LEMMA DateRead ==
  ASSUME NEW bytes, Len(bytes) = 8
  PROVE  getSysTime(bytes) = [kind |-> "time", at |-> DateIn(bytes), offset |-> Offset(season)]
BY DEF getSysTime, DateIn

LEMMA DateKept ==
  ASSUME NEW d \in DateTime, IsDate(d), Readable(d.year)
  PROVE  DateIn(TimeBytes(d)) = d
<1>1. /\ d.month \in 0..79 /\ d.day \in 0..79
      /\ d.hour \in 0..79 /\ d.min \in 0..79 /\ d.sec \in 0..79
  <2>1. PICK n \in 28..31 : n = Days(d.year, d.month)
    BY DaysAre
  <2> QED
    BY <2>1 DEF IsDate
<1>2. PICK y : y = d.year
  OBVIOUS
<1>3. PICK c \in 0..79, r \in 0..79 : c = y \div 100 /\ r = y % 100 /\ c * 100 + r = y
  <2>1. Readable(y)
    BY <1>2
  <2>2. /\ y \div 100 \in 0..79 /\ y % 100 \in 0..79
        /\ (y \div 100) * 100 + (y % 100) = y
    BY <2>1, YearParts
  <2> QED
    BY ONLY <2>2
<1>4. bcd2dec(dec2bcd(c)) = c /\ bcd2dec(dec2bcd(r)) = r
  BY BcdKept
<1>5. /\ bcd2dec(dec2bcd(d.month)) = d.month /\ bcd2dec(dec2bcd(d.day)) = d.day
      /\ bcd2dec(dec2bcd(d.hour)) = d.hour /\ bcd2dec(dec2bcd(d.min)) = d.min
      /\ bcd2dec(dec2bcd(d.sec)) = d.sec
  BY <1>1, BcdKept
<1>6. PICK b : b = TimeBytes(d)
  OBVIOUS
<1>7. /\ bcd2dec(b[1]) = c /\ bcd2dec(b[2]) = r /\ bcd2dec(b[3]) = d.month
      /\ bcd2dec(b[4]) = d.day /\ bcd2dec(b[6]) = d.hour /\ bcd2dec(b[7]) = d.min
      /\ bcd2dec(b[8]) = d.sec
  <2>1. /\ b[1] = dec2bcd(d.year \div 100) /\ b[2] = dec2bcd(d.year % 100)
        /\ b[3] = dec2bcd(d.month) /\ b[4] = dec2bcd(d.day) /\ b[6] = dec2bcd(d.hour)
        /\ b[7] = dec2bcd(d.min) /\ b[8] = dec2bcd(d.sec)
    BY <1>6, TimeBytesAre
  <2>2. b[1] = dec2bcd(c) /\ b[2] = dec2bcd(r)
    BY <1>2, <1>3, <2>1
  <2> QED
    BY <1>4, <1>5, <2>1, <2>2
<1>8. PICK e : e = DateIn(b)
  OBVIOUS
<1>9. d.month \in Int /\ d.day \in Int /\ d.hour \in Int /\ d.min \in Int /\ d.sec \in Int
  BY DateFields
<1>10. /\ e \in DateTime /\ e.year = c * 100 + r /\ e.month = d.month /\ e.day = d.day
      /\ e.hour = d.hour /\ e.min = d.min /\ e.sec = d.sec
  <2>1. PICK x \in Int : x = c * 100 + r
    OBVIOUS
  <2>2. bcd2dec(b[1]) * 100 + bcd2dec(b[2]) = x
    BY <1>7, <2>1
  <2>3. e = [year |-> x, month |-> d.month, day |-> d.day,
             hour |-> d.hour, min |-> d.min, sec |-> d.sec]
    BY <1>7, <1>8, <2>2 DEF DateIn
  <2>4. e \in DateTime
    BY ONLY <1>9, <2>1, <2>3 DEF DateTime
  <2> QED
    BY ONLY <2>1, <2>3, <2>4
<1>11. e.year = d.year
  BY ONLY <1>2, <1>3, <1>10
<1>12. e = d
  BY ONLY d \in DateTime, <1>10, <1>11, SameDate
<1> QED
  BY ONLY <1>6, <1>8, <1>12

\* A day beyond the end of its month belongs to the next one; others stay.
LEMMA NormalizedIs ==
  ASSUME NEW d \in DateTime, Parsed(d), NEW c, c = Normalized(d)
  PROVE  c \in DateTime /\ IsDate(c) /\ (IsDate(d) => c = d)
<1>1. PICK n \in 28..31 : n = Days(d.year, d.month)
  BY DaysAre
<1>2. CASE d.day > n
  <2>1. PICK mo \in Int, day \in Int : mo = d.month + 1 /\ day = d.day - n
    BY DateFields
  <2>2. c = OnDay(d, d.year, mo, day)
    BY <1>1, <1>2, <2>1 DEF Normalized
  <2>3. /\ c \in DateTime /\ c.year = d.year /\ c.month = mo /\ c.day = day
        /\ c.hour = d.hour /\ c.min = d.min /\ c.sec = d.sec
    BY <2>2, DateFields, OnDayIs
  <2>4. d.month # 12
    <3>1. d.day \in 1..31 /\ Days(d.year, 12) = 31
      BY DaysAre DEF Parsed
    <3> QED
      BY <1>1, <1>2, <3>1
  <2>5. mo \in 1..12 /\ day \in 1..3
    BY <1>1, <1>2, <2>1, <2>4, DateFields DEF Parsed
  <2>6. PICK k \in 28..31 : k = Days(c.year, c.month)
    BY DaysAre
  <2>7. IsDate(c)
    BY <2>3, <2>5, <2>6 DEF IsDate, Parsed
  <2>8. ~IsDate(d)
    BY <1>1, <1>2, DateFields DEF IsDate
  <2> QED
    BY <2>3, <2>7, <2>8
<1>3. CASE ~(d.day > n)
  <2>1. c = d
    BY <1>1, <1>3 DEF Normalized
  <2>2. IsDate(d)
    BY <1>1, <1>3, DateFields DEF Parsed, IsDate
  <2> QED
    BY <2>1, <2>2
<1> QED
  BY <1>2, <1>3

LEMMA DatesAreParsed ==
  ASSUME NEW d \in DateTime, IsDate(d)
  PROVE  Parsed(d) /\ Normalized(d) = d
<1>1. PICK n \in 28..31 : n = Days(d.year, d.month)
  BY DaysAre
<1>2. Parsed(d)
  BY <1>1, DateFields DEF IsDate, Parsed
<1> QED
  BY <1>2, NormalizedIs

\* The two moves of the time given, by the host's present offset and by that of the
\* season which the moment belongs to, end where they began.
LEMMA SeasonKept ==
  ASSUME NEW text, text.at \in DateTime, IsDate(text.at), OfItsSeason(text), text.kind = "time"
  PROVE  setSysTime(text) = TimeBytes(text.at)
<1>1. PICK d \in DateTime : d = text.at /\ IsDate(d)
  OBVIOUS
<1>2. \A s : Offset(s) \in {1, 2}
  BY DEF Offset
<1>3. PICK S \in {1, 2} : S = Offset(season)
  BY <1>2
<1>4. PICK O \in {1, 2} : O = text.offset
  BY <1>2 DEF OfItsSeason
<1>5. PICK W : W = AddHours(d, 1 - O) /\ O = Offset(SeasonOf(W))
  BY <1>1, <1>4 DEF OfItsSeason, Offset
<1>6. PICK moved : moved = AddHours(d, S - O)
  OBVIOUS
<1>7. PICK moment : moment = AddHours(moved, 1 - S)
  OBVIOUS
<1>8. PICK E \in {1, 2} : E = Offset(SeasonOf(moment))
  BY <1>2
<1>9. setSysTime(text) = TimeBytes(AddHours(moved, E - S))
  <2>1. Offset("winter") = 1
    BY DEF Offset
  <2>2. Parsed(text.at) /\ Normalized(text.at) = text.at
    BY <1>1, DatesAreParsed
  <2> QED
    BY <2>2, <1>1, <1>3, <1>4, <1>6, <1>7, <1>8, <2>1 DEF setSysTime
<1>10. AddHours(moved, E - S) = d
  <2>1. PICK p, q, r, u :
          p = S - O /\ q = 1 - S /\ r = E - S /\ u = 1 - O
    OBVIOUS
  <2>2. /\ moved = AddHours(d, p) /\ moment = AddHours(moved, q) /\ W = AddHours(d, u)
        /\ AddHours(moved, E - S) = AddHours(moved, r)
    BY <1>5, <1>6, <1>7, <2>1
  <2>3. AddHours(d, 0) = d
    BY <1>1, NoHourAdded
  <2>4. CASE S = O
    <3>1. p = 0 /\ q = u
      BY <2>1, <2>4
    <3>2. E = O
      BY <1>5, <1>8, <2>2, <2>3, <3>1
    <3>3. r = 0
      BY <2>1, <2>4, <3>2
    <3> QED
      BY <2>2, <2>3, <3>1, <3>3
  <2>5. CASE S = 2 /\ O = 1
    <3>1. p = 1 /\ q = -1 /\ u = 0
      BY <2>1, <2>5
    <3>2. AddHours(moved, -1) = d
      BY <1>1, <2>2, <3>1, HourForthAndBack
    <3>3. E = O
      BY <1>5, <1>8, <2>2, <2>3, <3>1, <3>2
    <3>4. r = -1
      BY <2>1, <2>5, <3>3
    <3> QED
      BY <2>2, <3>2, <3>4
  <2>6. CASE S = 1 /\ O = 2
    <3>1. p = -1 /\ q = 0 /\ u = -1
      BY <2>1, <2>6
    <3>2. moved \in DateTime /\ IsDate(moved)
      BY <1>1, <2>2, <3>1, HourAdded
    <3>3. moment = moved
      BY <2>2, <3>1, <3>2, NoHourAdded
    <3>4. E = O
      BY <1>5, <1>8, <2>2, <3>1, <3>3
    <3>5. r = 1
      BY <2>1, <2>6, <3>4
    <3> QED
      BY <1>1, <2>2, <3>1, <3>5, HourBackAndForth
  <2> QED
    BY <2>4, <2>5, <2>6
<1> QED
  BY <1>1, <1>9, <1>10


-----------------------------------------------------------------------------
(* The entry of an enumeration that is found for the bytes of another one  *)
(* has its word.                                                           *)

\* The least-number principle, on sets.
LEMMA LeastOf ==
  ASSUME NEW T, T \subseteq Nat, T # {}
  PROVE  \E x \in T : \A y \in T : x <= y
<1> DEFINE R == {ss \in Nat \X Nat : ss[1] < ss[2]}
<1>1. IsWellFoundedOn(R, Nat)
  BY NatLessThanWellFounded DEF OpToRel
<1>2. \A x, y \in Nat : y < x => <<y, x>> \in R
  OBVIOUS
<1> HIDE DEF R
<1>3. PICK x \in T : \A y \in T : ~ (<<y, x>> \in R)
  BY <1>1, WFMin
<1>4. ASSUME NEW y \in T PROVE x <= y
  <2>1. x \in Nat /\ y \in Nat
    OBVIOUS
  <2>2. ~ (y < x)
    BY <1>2, <1>3, <2>1
  <2> QED
    BY <2>1, <2>2
<1> QED
  BY <1>4

LEMMA MinOf ==
  ASSUME NEW S, S \subseteq Nat, S # {}
  PROVE  Min(S) \in S
<1>1. PICK x \in S : \A y \in S : x <= y
  BY LeastOf
<1> QED
  BY <1>1 DEF Min

LEMMA WordFound ==
  ASSUME NEW enums, Len(enums) \in Nat, NEW word, ByText(enums, word) # 0
  PROVE  ByText(enums, word) \in 1..Len(enums) /\ enums[ByText(enums, word)].word = word
<1> DEFINE I == {i \in 1..Len(enums) : enums[i].word = word}
<1>1. ByText(enums, word) = IF I # {} THEN Min(I) ELSE 0
  BY DEF ByText, SelectInSeq
<1>2. I \subseteq Nat
  OBVIOUS
<1>3. ByText(enums, word) \in I
  <2> HIDE DEF I
  <2> QED
    BY <1>1, <1>2, MinOf
<1> QED
  BY <1>3

LEMMA BytesFound ==
  ASSUME NEW enums, Len(enums) \in Nat, NEW bytes
  PROVE  /\ ByBytes(enums, bytes) # 0 =>
              /\ ByBytes(enums, bytes) \in 1..Len(enums)
              /\ IsPrefix(bytes, enums[ByBytes(enums, bytes)].bytes)
         /\ \A i \in 1..Len(enums) :
              enums[i].bytes # <<>> /\ IsPrefix(bytes, enums[i].bytes)
              => ByBytes(enums, bytes) # 0
<1> DEFINE I == {i \in 1..Len(enums) :
                   enums[i].bytes # <<>> /\ IsPrefix(bytes, enums[i].bytes)}
<1>1. ByBytes(enums, bytes) = IF I # {} THEN Min(I) ELSE 0
  BY DEF ByBytes, SelectInSeq
<1>2. I \subseteq Nat
  OBVIOUS
<1>3. I # {} => ByBytes(enums, bytes) \in I
  <2> HIDE DEF I
  <2> QED
    BY <1>1, <1>2, MinOf
<1>4. 0 \notin I
  OBVIOUS
<1>5. ByBytes(enums, bytes) # 0 => ByBytes(enums, bytes) \in I
  <2> HIDE DEF I
  <2> QED
    BY <1>1, <1>3
<1>6. I # {} => ByBytes(enums, bytes) # 0
  <2> HIDE DEF I
  <2> QED
    BY <1>3, <1>4
<1> QED
  BY <1>5, <1>6

LEMMA DefaultFound ==
  ASSUME NEW enums, Len(enums) \in Nat, ByDefault(enums) # 0
  PROVE  ByDefault(enums) \in 1..Len(enums)
<1> DEFINE I == {i \in 1..Len(enums) : enums[i].bytes = <<>>}
<1>1. ByDefault(enums) = IF I # {} THEN Min(I) ELSE 0
  BY DEF ByDefault, SelectInSeq
<1>2. I \subseteq Nat
  OBVIOUS
<1>3. ByDefault(enums) \in I
  <2> HIDE DEF I
  <2> QED
    BY <1>1, <1>2, MinOf
<1> QED
  BY <1>3

Entry == [bytes : Seq(0..255), word : STRING]

LEMMA EntryFound ==
  ASSUME NEW enums \in Seq(Entry), NEW bytes, bytes2Enum(enums, bytes) # 0
  PROVE  enums[bytes2Enum(enums, bytes)].word \in STRING
<1>1. Len(enums) \in Nat /\ \A i \in 1..Len(enums) : enums[i] \in Entry
  OBVIOUS
<1>2. bytes2Enum(enums, bytes) \in 1..Len(enums)
  BY <1>1, BytesFound, DefaultFound DEF bytes2Enum
<1> QED
  BY <1>1, <1>2 DEF Entry

\* A word that is set is the one that is shown.
LEMMA WordKept ==
  ASSUME NEW u \in Unit, NEW text \in [kind : {"word"}, word : STRING],
         text2Enum(u.enums, text) # <<>>
  PROVE  /\ bytes2Enum(u.enums, text2Enum(u.enums, text)) # 0
         /\ Text(u.enums[bytes2Enum(u.enums, text2Enum(u.enums, text))].word) = text
<1>1. PICK enums : enums = u.enums
  OBVIOUS
<1>2. /\ enums \in Seq(Entry)
      /\ \A e, f \in Range(enums) :
           e.bytes # <<>> /\ IsPrefix(e.bytes, f.bytes) => e.word = f.word
  BY <1>1, EnumAssumption DEF Entry
<1>3. /\ Len(enums) \in Nat /\ DOMAIN enums = 1..Len(enums)
      /\ \A i \in 1..Len(enums) : enums[i] \in Entry
  BY <1>2
<1>4. PICK k : k = ByText(enums, text.word)
  OBVIOUS
<1>5. k # 0 /\ text2Enum(enums, text) = enums[k].bytes
  BY <1>1, <1>4 DEF text2Enum
<1>6. k \in 1..Len(enums) /\ enums[k].word = text.word
  BY <1>3, <1>4, <1>5, WordFound
<1>7. PICK b \in Seq(0..255) : b = enums[k].bytes /\ b # <<>>
  BY <1>1, <1>3, <1>5, <1>6 DEF Entry
<1>8. IsPrefix(b, b)
  BY <1>7 DEF IsPrefix
<1>9. PICK j : j = ByBytes(enums, b)
  OBVIOUS
<1>10. j # 0
  BY <1>3, <1>6, <1>7, <1>8, <1>9, BytesFound
<1>11. j \in 1..Len(enums) /\ IsPrefix(b, enums[j].bytes)
  BY <1>3, <1>9, <1>10, BytesFound
<1>12. enums[j] \in Range(enums) /\ enums[k] \in Range(enums)
  BY <1>3, <1>6, <1>11 DEF Range
<1>13. enums[j].word = text.word
  BY <1>2, <1>6, <1>7, <1>11, <1>12
<1>14. bytes2Enum(enums, b) = j
  BY <1>9, <1>10 DEF bytes2Enum
<1>15. Text(text.word) = text
  BY DEF Text
<1> QED
  BY <1>1, <1>5, <1>7, <1>10, <1>13, <1>14, <1>15

-----------------------------------------------------------------------------
(* The loop over the points of a switching programme.                      *)

LEMMA MaxOf ==
  ASSUME NEW n \in Nat, NEW S, S \subseteq 1..n, S # {}
  PROVE  Max(S) \in S /\ \A y \in S : y <= Max(S)
<1> DEFINE T == {k \in 0..n : n - k \in S}
<1>1. PICK s : s \in S
  OBVIOUS
<1>2. T \subseteq Nat /\ n - s \in T
  BY <1>1
<1>3. PICK k \in T : \A j \in T : k <= j
  BY <1>2, LeastOf
<1>4. n - k \in S /\ k \in 0..n
  BY <1>3
<1>5. \A y \in S : n - k >= y
  <2> TAKE y \in S
  <2>1. n - y \in T
    OBVIOUS
  <2> QED
    BY <1>3, <1>4, <2>1
<1>6. Max(S) \in S /\ \A y \in S : Max(S) >= y
  BY <1>4, <1>5 DEF Max
<1> QED
  BY <1>6

\* What FoldLeft() computes, for every set of places.
FoldsTo(g, base, seq, S) ==
  g = [s \in SUBSET S |->
         IF s = {} THEN base ELSE NextPoint(g[s \ {Max(s)}], seq[Max(s)])]

LEMMA FoldExists ==
  ASSUME NEW base, NEW seq, NEW n \in Nat
  PROVE  \E g : FoldsTo(g, base, seq, 1..n)
<1> DEFINE T == {k \in Nat : ~ \E g : FoldsTo(g, base, seq, 1..k)}
<1> SUFFICES ASSUME T # {} PROVE FALSE
  OBVIOUS
<1>1. PICK k \in T : \A j \in T : k <= j
  BY LeastOf
<1>2. k \in Nat /\ ~ \E g : FoldsTo(g, base, seq, 1..k)
  BY <1>1
<1>3. CASE k = 0
  <2> DEFINE g == [s \in {{}} |-> base]
  <2>1. 1..k = {} /\ SUBSET {} = {{}}
    BY <1>3
  <2>2. FoldsTo(g, base, seq, {})
    BY <2>1 DEF FoldsTo
  <2> QED
    BY <1>2, <2>1, <2>2
<1>4. CASE k # 0
  <2>1. k - 1 \in Nat /\ k - 1 \notin T
    BY <1>1, <1>2, <1>4
  <2>2. PICK h : FoldsTo(h, base, seq, 1..(k - 1))
    BY <2>1
  <2> DEFINE g == [s \in SUBSET (1..k) |->
                     IF k \in s THEN NextPoint(h[s \ {k}], seq[k]) ELSE h[s]]
             e(s) == IF s = {} THEN base ELSE NextPoint(g[s \ {Max(s)}], seq[Max(s)])
  <2>3. ASSUME NEW s \in SUBSET (1..k) PROVE g[s] = e(s)
    <3>1. s \ {k} \in SUBSET (1..(k - 1))
      BY <1>2, <1>4
    <3>2. CASE k \in s
      <4>1. Max(s) = k
        <5>1. PICK x : x = Max(s)
          OBVIOUS
        <5>2. x \in s /\ k <= x
          BY <1>2, <3>2, <5>1, MaxOf
        <5>3. x \in Nat /\ x <= k
          BY <1>2, <5>2
        <5> QED
          BY <1>2, <5>1, <5>2, <5>3
      <4>2. s \ {k} \in SUBSET (1..k) /\ k \notin s \ {k}
        BY <3>1
      <4>3. g[s \ {k}] = h[s \ {k}]
        BY <4>2
      <4>4. g[s] = NextPoint(h[s \ {k}], seq[k])
        BY <3>2
      <4> QED
        BY <3>2, <4>1, <4>3, <4>4
    <3>3. CASE k \notin s /\ s # {}
      <4>1. s \subseteq 1..(k - 1)
        BY <3>1, <3>3
      <4>2. Max(s) \in s
        BY <2>1, <3>3, <4>1, MaxOf
      <4>3. s \ {Max(s)} \in SUBSET (1..(k - 1)) /\ s \ {Max(s)} \in SUBSET (1..k)
            /\ k \notin s \ {Max(s)}
        BY <3>3, <4>1
      <4>4. g[s \ {Max(s)}] = h[s \ {Max(s)}] /\ g[s] = h[s]
        BY <3>3, <4>3
      <4>5. h[s] = NextPoint(h[s \ {Max(s)}], seq[Max(s)])
        BY <2>2, <3>3, <4>1 DEF FoldsTo
      <4> QED
        BY <3>3, <4>4, <4>5
    <3>4. CASE s = {}
      <4>1. g[s] = h[s] /\ s \in SUBSET (1..(k - 1))
        BY <3>1, <3>4
      <4>2. h[s] = base
        BY <2>2, <3>4, <4>1 DEF FoldsTo
      <4> QED
        BY <3>4, <4>1, <4>2
    <3> QED
      BY <3>2, <3>3, <3>4
  <2>4. g = [s \in SUBSET (1..k) |-> e(s)]
    <3> HIDE DEF e
    <3>1. g = [s \in SUBSET (1..k) |-> g[s]]
      OBVIOUS
    <3> HIDE DEF g
    <3> QED
      BY <2>3, <3>1
  <2>5. FoldsTo(g, base, seq, 1..k)
    BY <2>4 DEF FoldsTo
  <2> QED
    BY <1>2, <2>5
<1> QED
  BY <1>3, <1>4

\* The loop over the points.
Loop(m, base, seq, n) ==
  /\ m[0] = base
  /\ \A k \in 1..n : m[k] = NextPoint(m[k - 1], seq[k])
  /\ FoldLeft(NextPoint, base, seq) = m[n]

LEMMA LoopSteps ==
  ASSUME NEW base, NEW seq, NEW n \in Nat, DOMAIN seq = 1..n
  PROVE  \E m : Loop(m, base, seq, n)
<1>1. PICK g : /\ FoldsTo(g, base, seq, 1..n)
               /\ FoldLeft(NextPoint, base, seq) = g[1..n]
  <2> DEFINE g == CHOOSE g : FoldsTo(g, base, seq, 1..n)
  <2>1. FoldsTo(g, base, seq, 1..n)
    BY FoldExists
  <2>2. FoldLeft(NextPoint, base, seq) = g[1..n]
    BY DEF FoldLeft, MapThenFoldSet, FoldsTo
  <2> QED
    BY <2>1, <2>2
<1> DEFINE m == [k \in 0..n |-> g[1..k]]
<1>2. m[0] = base
  <2>1. 1..0 = {} /\ {} \in SUBSET (1..n)
    OBVIOUS
  <2>2. g[{}] = base
    BY <1>1, <2>1 DEF FoldsTo
  <2> QED
    BY <2>1, <2>2
<1>3. ASSUME NEW k \in 1..n PROVE m[k] = NextPoint(m[k - 1], seq[k])
  <2>1. 1..k \in SUBSET (1..n) /\ 1..k # {} /\ k \in Nat /\ k - 1 \in 0..n
    <3>1. k \in Nat /\ k >= 1 /\ k <= n /\ k \in 1..k
      OBVIOUS
    <3>2. 1..k \subseteq 1..n
      BY <3>1
    <3>3. k - 1 \in 0..n
      BY <3>1
    <3>4. 1..k # {}
      BY <3>1
    <3> QED
      BY <3>1, <3>2, <3>3, <3>4
  <2>2. Max(1..k) = k
    <3>1. Max(1..k) \in 1..k /\ \A y \in 1..k : y <= Max(1..k)
      BY <2>1, MaxOf
    <3> QED
      BY <2>1, <3>1
  <2>3. (1..k) \ {k} = 1..(k - 1)
    BY <2>1
  <2>4. g[1..k] = NextPoint(g[1..(k - 1)], seq[k])
    BY <1>1, <2>1, <2>2, <2>3 DEF FoldsTo
  <2> QED
    BY <2>1, <2>4
<1>4. FoldLeft(NextPoint, base, seq) = m[n]
  BY <1>1
<1> HIDE DEF m
<1> QED
  BY <1>2, <1>3, <1>4 DEF Loop

\* The times that a byte can hold.
Times == [h : 0..31, m : 0..79]

WellTimed(points) ==
  /\ points \in Seq(Times \cup {NoPoint}) /\ Paired(points)
  /\ \A i \in DOMAIN points : i % 2 = 1 /\ points[i] # NoPoint => ByteOf(points[i]) # 255

LEMMA TimesAre ==
  ASSUME NEW p \in Times
  PROVE  /\ p.h \in 0..31 /\ p.m \in 0..79 /\ p # NoPoint
         /\ ByteOf(p) \in 0..255 /\ ByteOf(p) = 8 * p.h + p.m \div 10
         /\ Point(ByteOf(p)) = [p EXCEPT !.m = @ - (@ % 10)]
<1>1. PICK h \in 0..31, m \in 0..79 : h = p.h /\ m = p.m /\ p = [h |-> h, m |-> m]
  BY DEF Times
<1>2. PICK t \in 0..7, o \in 0..9 : m = 10 * t + o /\ m \div 10 = t /\ m % 10 = o
  <2>1. PICK t \in 0..7, o \in 0..9 : m = 10 * t + o
    OBVIOUS
  <2> QED
    BY <2>1
<1>3. PICK b \in 0..255 : b = 8 * h + t
  BY <1>2
<1>4. b % 256 = b /\ b \div 8 = h /\ b % 8 = t
  BY <1>2, <1>3
<1>5. ByteOf(p) = b
  BY <1>1, <1>2, <1>3, <1>4 DEF ByteOf
<1>6. Point(b) = [h |-> h, m |-> t * 10]
  BY <1>4 DEF Point
<1>7. t * 10 = m - o
  BY <1>2
<1>8. [p EXCEPT !.m = @ - (@ % 10)] = [h |-> h, m |-> m - o]
  BY <1>1, <1>2
<1>9. p # NoPoint
  BY <1>1 DEF NoPoint
<1> QED
  BY <1>1, <1>2, <1>3, <1>5, <1>6, <1>7, <1>8, <1>9

\* The byte at a place after k points.
Cell(points, k, i) == IF i <= k /\ points[i] # NoPoint THEN ByteOf(points[i]) ELSE 255

LEMMA CellAfter ==
  ASSUME NEW points, NEW k \in Nat, NEW i \in Nat
  PROVE  /\ i # k \/ points[k] = NoPoint => Cell(points, k, i) = Cell(points, k - 1, i)
         /\ points[k] # NoPoint => Cell(points, k, k) = ByteOf(points[k])
<1>1. i # k => (i <= k <=> i <= k - 1)
  OBVIOUS
<1> QED
  BY <1>1 DEF Cell

\* A "--" at an odd place stands for the next point as well.
Skipping(points, k) == k % 2 = 1 /\ points[k] = NoPoint

LEMMA SkippingAt ==
  ASSUME NEW points, WellTimed(points), NEW k \in 1..Len(points)
  PROVE  /\ Skipping(points, k - 1) => points[k] = NoPoint /\ ~Skipping(points, k)
         /\ ~Skipping(points, k - 1) /\ points[k] = NoPoint => Skipping(points, k)
         /\ points[k] # NoPoint => ~Skipping(points, k)
<1>1. PICK n \in Nat : n = Len(points) /\ DOMAIN points = 1..n
  BY DEF WellTimed
<1>2. Paired(points) /\ k \in 1..n
  BY <1>1 DEF WellTimed
<1>3. CASE k % 2 = 0
  <2>1. k - 1 \in 1..n /\ (k - 1) % 2 = 1
    BY <1>2, <1>3
  <2>2. points[k] = NoPoint <=> points[k - 1] = NoPoint
    BY <1>1, <1>2, <1>3, <2>1 DEF Paired
  <2> QED
    BY <1>3, <2>1, <2>2 DEF Skipping
<1>4. CASE k % 2 = 1
  <2>1. (k - 1) % 2 = 0
    BY <1>4
  <2> QED
    BY <1>4, <2>1 DEF Skipping
<1> QED
  BY <1>2, <1>3, <1>4

\* The buffer after k points: a "--" at an odd place has already been counted twice.
Filling(st, points, k) ==
  /\ st \in [buf : [1..8 -> 0..255], count : Nat, skip : BOOLEAN]
  /\ st.skip <=> Skipping(points, k)
  /\ st.skip => st.count = k + 1
  /\ ~st.skip => st.count = k
  /\ \A i \in 1..8 : st.buf[i] = Cell(points, k, i)

LEMMA FillingTurn ==
  ASSUME NEW points, WellTimed(points), NEW k \in 1..Len(points), NEW st,
         Filling(st, points, k - 1)
  PROVE  Filling(NextPoint(st, points[k]), points, k)
<1>1. k \in Nat /\ k - 1 \in Nat
  BY DEF WellTimed
<1>2. PICK point \in Times \cup {NoPoint} : point = points[k]
  BY ElementOfSeq DEF WellTimed
<1>3. PICK buf \in [1..8 -> 0..255], count \in Nat, skip \in BOOLEAN :
        /\ st = [buf |-> buf, count |-> count, skip |-> skip]
        /\ st.buf = buf /\ st.count = count /\ st.skip = skip
  BY DEF Filling
<1>4. /\ skip <=> Skipping(points, k - 1)
      /\ skip => count = k - 1 + 1
      /\ ~skip => count = k - 1
      /\ \A i \in 1..8 : buf[i] = Cell(points, k - 1, i)
  BY <1>3 DEF Filling
<1>5. PICK new : new = NextPoint(st, point)
  OBVIOUS
<1>6. ASSUME point = NoPoint, NEW i \in 1..8 PROVE buf[i] = Cell(points, k, i)
  <2>1. points[k] = NoPoint /\ i \in Nat
    BY ONLY <1>2, <1>6, i \in 1..8
  <2>2. Cell(points, k, i) = Cell(points, k - 1, i)
    BY ONLY <1>1, <2>1, CellAfter
  <2> QED
    BY <1>4, <2>2
<1>7. CASE skip
  <2>1. new = [buf |-> buf, count |-> count, skip |-> FALSE]
    BY <1>3, <1>5, <1>7 DEF NextPoint
  <2>2. /\ new \in [buf : [1..8 -> 0..255], count : Nat, skip : BOOLEAN]
        /\ new.buf = buf /\ new.count = count /\ new.skip = FALSE
    BY <2>1
  <2>3. point = NoPoint /\ ~Skipping(points, k)
    BY <1>2, <1>4, <1>7, SkippingAt
  <2>4. count = k
    BY <1>1, <1>4, <1>7
  <2> QED
    BY <1>2, <1>5, <1>6, <2>2, <2>3, <2>4 DEF Filling
<1>8. CASE ~skip /\ point = NoPoint
  <2>1. new = [buf |-> buf, count |-> count + 2, skip |-> TRUE]
    BY <1>3, <1>5, <1>8 DEF NextPoint
  <2>2. /\ new \in [buf : [1..8 -> 0..255], count : Nat, skip : BOOLEAN]
        /\ new.buf = buf /\ new.count = count + 2 /\ new.skip = TRUE
    BY <2>1
  <2>3. Skipping(points, k)
    BY <1>2, <1>4, <1>8, SkippingAt
  <2>4. count + 2 = k + 1
    BY <1>1, <1>4, <1>8
  <2> QED
    BY <1>2, <1>5, <1>6, <1>8, <2>2, <2>3, <2>4 DEF Filling
<1>9. CASE ~skip /\ point # NoPoint
  <2>1. PICK b \in 0..255 : b = ByteOf(point)
    BY <1>2, <1>9, TimesAre
  <2>2. PICK filled : filled = [buf EXCEPT ![k] = b]
    OBVIOUS
  <2>3. count = k - 1 /\ count + 1 = k
    BY <1>1, <1>4, <1>9
  <2>4. new = [buf |-> filled, count |-> k, skip |-> FALSE]
    BY <1>3, <1>5, <1>9, <2>1, <2>2, <2>3 DEF NextPoint
  <2>5. filled \in [1..8 -> 0..255] /\ \A i \in 1..8 : filled[i] = IF i = k THEN b ELSE buf[i]
    BY <2>2
  <2>6. ASSUME NEW i \in 1..8 PROVE filled[i] = Cell(points, k, i)
    <3>1. CASE i = k
      <4>1. filled[i] = b
        BY <2>5, <3>1
      <4>2. Cell(points, k, k) = ByteOf(point)
        BY <1>1, <1>2, <1>9, CellAfter
      <4> QED
        BY <2>1, <3>1, <4>1, <4>2
    <3>2. CASE i # k
      <4>1. filled[i] = buf[i]
        BY <2>5, <3>2
      <4>2. i \in Nat
        OBVIOUS
      <4>3. Cell(points, k, i) = Cell(points, k - 1, i)
        BY ONLY <1>1, <3>2, <4>2, CellAfter
      <4> QED
        BY <1>4, <4>1, <4>3
    <3> QED
      BY <3>1, <3>2
  <2>7. /\ new \in [buf : [1..8 -> 0..255], count : Nat, skip : BOOLEAN]
        /\ new.buf = filled /\ new.count = k /\ new.skip = FALSE
    BY <1>1, <2>4, <2>5
  <2>8. ~Skipping(points, k)
    BY <1>2, <1>9, SkippingAt
  <2> QED
    BY <1>2, <1>5, <2>6, <2>7, <2>8 DEF Filling
<1> QED
  BY <1>7, <1>8, <1>9

LEMMA AllFilled ==
  ASSUME NEW points, WellTimed(points)
  PROVE  Filling(FoldLeft(NextPoint, NoPoints, points), points, Len(points))
<1>1. PICK n \in Nat : n = Len(points) /\ DOMAIN points = 1..n
  BY DEF WellTimed
<1>2. PICK m : Loop(m, NoPoints, points, n)
  BY <1>1, LoopSteps
<1>3. Filling(NoPoints, points, 0)
  <2>1. /\ NoPoints \in [buf : [1..8 -> 0..255], count : Nat, skip : BOOLEAN]
        /\ NoPoints.count = 0 /\ NoPoints.skip = FALSE /\ \A i \in 1..8 : NoPoints.buf[i] = 255
    BY DEF NoPoints
  <2>2. ~Skipping(points, 0) /\ \A i \in 1..8 : Cell(points, 0, i) = 255
    BY DEF Cell, Skipping
  <2> QED
    BY <2>1, <2>2 DEF Filling
<1> DEFINE T == {k \in 0..n : ~Filling(m[k], points, k)}
<1>4. T = {}
  <2> SUFFICES ASSUME T # {} PROVE FALSE
    OBVIOUS
  <2>1. T \subseteq Nat
    OBVIOUS
  <2>2. PICK k \in T : \A j \in T : k <= j
    BY <2>1, LeastOf
  <2>3. k # 0
    BY <1>2, <1>3, <2>2 DEF Loop
  <2>4. k \in 1..n /\ k - 1 \in 0..n /\ k - 1 \notin T
    BY <2>2, <2>3
  <2>5. Filling(m[k - 1], points, k - 1)
    BY <2>4
  <2>6. m[k] = NextPoint(m[k - 1], points[k])
    BY <1>2, <2>4 DEF Loop
  <2>7. Filling(NextPoint(m[k - 1], points[k]), points, k)
    BY <1>1, <2>4, <2>5, FillingTurn
  <2> QED
    BY <2>2, <2>6, <2>7
<1>5. Filling(m[n], points, n)
  BY <1>1, <1>4
<1> QED
  BY <1>1, <1>2, <1>5 DEF Loop

\* The eight bytes for the points.
Buffer(points) == Filled(FoldLeft(NextPoint, NoPoints, points))

LEMMA BytesOfPoints ==
  ASSUME NEW points, WellTimed(points)
  PROVE  /\ Buffer(points) \in [1..8 -> 0..255]
         /\ \A i \in 1..8 : Buffer(points)[i] = Cell(points, 2 * (Len(points) \div 2), i)
<1> SUFFICES ASSUME NEW bytes, bytes = Buffer(points),
                    NEW pairs, pairs = 2 * (Len(points) \div 2)
             PROVE  /\ bytes \in [1..8 -> 0..255]
                    /\ \A i \in 1..8 : bytes[i] = Cell(points, pairs, i)
  OBVIOUS
<1>1. PICK n \in Nat : n = Len(points) /\ DOMAIN points = 1..n
  BY DEF WellTimed
<1>2. PICK st : st = FoldLeft(NextPoint, NoPoints, points)
  OBVIOUS
<1>3. Filling(st, points, n)
  BY <1>1, <1>2, AllFilled
<1>4. PICK buf \in [1..8 -> 0..255], count \in Nat :
        /\ buf = st.buf /\ count = st.count
        /\ Skipping(points, n) => count = n + 1
        /\ ~Skipping(points, n) => count = n
        /\ \A i \in 1..8 : buf[i] = Cell(points, n, i)
  BY <1>3 DEF Filling
<1>5. PICK none \in 0..255 : none = 255
  OBVIOUS
<1>6. bytes = IF count % 2 = 0 THEN buf ELSE [buf EXCEPT ![count] = none]
  BY <1>2, <1>4, <1>5 DEF Filled, Buffer
<1>7. CASE n % 2 = 0
  <2>1. pairs = n /\ ~Skipping(points, n)
    BY <1>1, <1>7 DEF Skipping
  <2>2. bytes = buf
    BY <1>4, <1>6, <1>7, <2>1
  <2> QED
    BY <1>4, <2>1, <2>2
<1>8. CASE Skipping(points, n)
  <2>1. n % 2 = 1 /\ points[n] = NoPoint
    BY <1>8 DEF Skipping
  <2>2. pairs = n - 1 /\ (n + 1) % 2 = 0
    <3>1. PICK j \in Nat : n = 2 * j + 1 /\ n \div 2 = j
      BY <2>1
    <3> QED
      BY <1>1, <3>1
  <2>3. bytes = buf
    BY <1>4, <1>6, <1>8, <2>2
  <2>4. ASSUME NEW i \in 1..8 PROVE Cell(points, n, i) = Cell(points, pairs, i)
    BY <2>1, <2>2, CellAfter
  <2> QED
    BY <1>4, <2>3, <2>4
<1>9. CASE n % 2 = 1 /\ ~Skipping(points, n)
  <2>1. pairs = n - 1 /\ count = n
    <3>1. PICK j \in Nat : n = 2 * j + 1 /\ n \div 2 = j
      BY <1>9
    <3> QED
      BY <1>1, <1>4, <1>9, <3>1
  <2>2. bytes = [buf EXCEPT ![count] = none]
    BY <1>6, <1>9, <2>1
  <2>3. PICK cleared : cleared = [buf EXCEPT ![count] = none]
    OBVIOUS
  <2>4. /\ cleared \in [1..8 -> 0..255]
        /\ \A i \in 1..8 : cleared[i] = IF i = count THEN none ELSE buf[i]
    BY ONLY <2>3
  <2>5. bytes = cleared
    BY ONLY <2>2, <2>3
  <2>6. ASSUME NEW i \in 1..8 PROVE cleared[i] = Cell(points, pairs, i)
    <3>1. CASE i = n
      <4>1. Cell(points, pairs, i) = 255
        BY <2>1, <3>1 DEF Cell
      <4>2. cleared[i] = none
        BY ONLY <2>1, <2>4, <3>1, i \in 1..8
      <4> QED
        BY ONLY <1>5, <4>1, <4>2
    <3>2. CASE i # n
      <4>1. i \in Nat
        OBVIOUS
      <4>2. Cell(points, n - 1, i) = Cell(points, n, i)
        BY ONLY n \in Nat, <3>2, <4>1, CellAfter
      <4>3. cleared[i] = buf[i] /\ buf[i] = Cell(points, n, i)
        BY <1>4, <2>1, <2>4, <3>2
      <4> QED
        BY ONLY <2>1, <4>2, <4>3
    <3> QED
      BY <3>1, <3>2
  <2> QED
    BY ONLY <2>4, <2>5, <2>6
<1>10. n % 2 = 0 \/ n % 2 = 1
  BY ONLY n \in Nat
<1> QED
  BY ONLY <1>7, <1>8, <1>9, <1>10 DEF Skipping

\* The place of the "on" that belongs to a place.
OnOf(i) == IF i % 2 = 1 THEN i ELSE i - 1

LEMMA OnOfIs ==
  ASSUME NEW i \in 1..8, NEW k \in Nat, NEW pairs, pairs = 2 * k
  PROVE  OnOf(i) \in 1..8 /\ OnOf(i) % 2 = 1 /\ (OnOf(i) <= pairs <=> i <= pairs)
<1>1. CASE i % 2 = 1
  BY <1>1 DEF OnOf
<1>2. CASE i % 2 = 0
  <2>1. PICK j \in 1..4 : i = 2 * j
    BY <1>2
  <2>2. OnOf(i) = 2 * j - 1
    BY <1>2, <2>1 DEF OnOf
  <2> QED
    BY <2>1, <2>2
<1> QED
  BY <1>1, <1>2

\* A switching programme that is set is the one that is shown, completed.
LEMMA PointsKept ==
  ASSUME NEW points, WellTimed(points), NEW bytes,
         bytes = Buffer(points),
         NEW i \in 1..8
  PROVE  (IF bytes[OnOf(i)] = 255 THEN NoPoint ELSE Point(bytes[i])) = Completed(points)[i]
<1>1. PICK n \in Nat : n = Len(points) /\ DOMAIN points = 1..n
  BY DEF WellTimed
<1>2. PICK k \in Nat, pairs \in Nat : k = n \div 2 /\ pairs = 2 * k /\ pairs <= n
  <2>1. PICK k \in Nat : k = n \div 2
    OBVIOUS
  <2>2. 2 * k \in Nat /\ 2 * k <= n
    BY <2>1
  <2> QED
    BY <2>1, <2>2
<1>3. \A j \in 1..8 : bytes[j] = Cell(points, pairs, j)
  <2>1. pairs = 2 * (Len(points) \div 2)
    BY <1>1, <1>2
  <2> QED
    BY <2>1, BytesOfPoints
<1>4. PICK o \in 1..8 : o = OnOf(i) /\ o % 2 = 1 /\ (o <= pairs <=> i <= pairs)
  BY <1>2, OnOfIs
<1>5. Completed(points)[i] =
        IF i > pairs \/ points[i] = NoPoint THEN NoPoint
        ELSE [points[i] EXCEPT !.m = @ - (@ % 10)]
  BY <1>1, <1>2 DEF Completed
<1>6. CASE i > pairs
  <2>1. bytes[o] = Cell(points, pairs, o) /\ ~(o <= pairs)
    BY <1>2, <1>3, <1>4, <1>6
  <2>2. bytes[o] = 255
    BY <2>1 DEF Cell
  <2> QED
    BY <1>4, <1>5, <1>6, <2>2
<1>7. CASE ~(i > pairs)
  <2>1. i <= pairs /\ o <= pairs /\ i \in DOMAIN points /\ o \in DOMAIN points
    BY <1>1, <1>2, <1>4, <1>7
  <2>2. points[o] = NoPoint <=> points[i] = NoPoint
    <3>1. CASE i % 2 = 1
      BY <1>4, <3>1 DEF OnOf
    <3>2. CASE i % 2 = 0
      <4>1. o = i - 1
        BY <1>4, <3>2 DEF OnOf
      <4>2. Paired(points)
        BY DEF WellTimed
      <4> QED
        BY <2>1, <3>2, <4>1, <4>2 DEF Paired
    <3> QED
      BY <3>1, <3>2
  <2>3. CASE points[i] = NoPoint
    <3>1. bytes[o] = 255
      BY <1>3, <2>2, <2>3 DEF Cell
    <3> QED
      BY <1>4, <1>5, <2>3, <3>1
  <2>4. CASE points[i] # NoPoint
    <3>1. points[i] \in Times /\ points[o] # NoPoint
      BY <2>1, <2>2, <2>4 DEF WellTimed
    <3>2. bytes[o] # 255
      <4>1. bytes[o] = ByteOf(points[o])
        BY <1>3, <2>1, <3>1 DEF Cell
      <4>2. ByteOf(points[o]) # 255
        BY <1>4, <2>1, <3>1 DEF WellTimed
      <4> QED
        BY <4>1, <4>2
    <3>3. bytes[i] = ByteOf(points[i])
      BY <1>3, <2>1, <2>4 DEF Cell
    <3>4. Point(bytes[i]) = [points[i] EXCEPT !.m = @ - (@ % 10)]
      BY <3>1, <3>3, TimesAre
    <3> QED
      BY <1>4, <1>5, <1>7, <2>4, <3>2, <3>4
  <2> QED
    BY <2>3, <2>4
<1> QED
  BY <1>6, <1>7

IsCycle(text) == /\ text \in [kind : {"cycle"}, points : Seq(Times \cup {NoPoint})]
                 /\ WellTimed(text.points)

LEMMA CycleKept ==
  ASSUME NEW text, IsCycle(text), NEW min, setCycleTime(text, min) # <<>>
  PROVE  getCycleTime(setCycleTime(text, min))
           = [kind |-> "programme", points |-> Completed(text.points)]
<1>1. PICK points : /\ text = [kind |-> "cycle", points |-> points] /\ text.points = points
                    /\ text.kind = "cycle" /\ WellTimed(points)
  BY DEF IsCycle
<1>2. PICK bytes : bytes = Buffer(points)
  OBVIOUS
<1>3. setCycleTime(text, min) = bytes
  <2>1. Scanned(text, min) = points
    BY <1>1 DEF Scanned
  <2>2. points # <<>>
    BY <1>1, <2>1 DEF setCycleTime
  <2> QED
    BY <1>1, <1>2, <2>1, <2>2 DEF setCycleTime, Buffer
<1>4. bytes \in [1..8 -> 0..255]
  BY <1>1, <1>2, BytesOfPoints
<1>5. Len(bytes) = 8 /\ DOMAIN bytes = 1..8
  BY <1>4
<1>6. getCycleTime(bytes) =
        [kind |-> "programme",
         points |-> [i \in 1..8 |-> IF bytes[OnOf(i)] = 255 THEN NoPoint ELSE Point(bytes[i])]]
  BY <1>5 DEF getCycleTime, OnOf
<1>7. [i \in 1..8 |-> IF bytes[OnOf(i)] = 255 THEN NoPoint ELSE Point(bytes[i])]
        = [i \in 1..8 |-> Completed(points)[i]]
  BY <1>1, <1>2, PointsKept
<1>8. [i \in 1..8 |-> Completed(points)[i]] = Completed(points)
  BY DEF Completed
<1> QED
  BY <1>1, <1>3, <1>6, <1>7, <1>8

\* What somebody types: times of a day.
LEMMA CycleTyped ==
  ASSUME NEW u \in Unit, NEW text \in Typed(u), text.kind = "cycle"
  PROVE  IsCycle(text)
<1>1. /\ text \in [kind : {"cycle"}, points : Seq([h : 0..24, m : 0..59] \cup {NoPoint})]
      /\ Paired(text.points)
  BY TextAssumption
<1>2. PICK points \in Seq([h : 0..24, m : 0..59] \cup {NoPoint}) :
        /\ text = [kind |-> "cycle", points |-> points] /\ text.points = points
        /\ Paired(points)
  BY <1>1
<1>3. ASSUME NEW p \in [h : 0..24, m : 0..59]
      PROVE  p \in Times /\ ByteOf(p) # 255
  <2>1. p \in Times /\ p.h \in 0..24 /\ p.m \in 0..59
    BY DEF Times
  <2>2. 8 * p.h + p.m \div 10 # 255
    <3>1. PICK h \in 0..24, m \in 0..59 : h = p.h /\ m = p.m
      BY <2>1
    <3>2. m \div 10 \in 0..5
      OBVIOUS
    <3>3. 8 * h + m \div 10 # 255
      BY <3>2
    <3> QED
      BY <3>1, <3>3
  <2> QED
    BY <2>1, <2>2, TimesAre
<1>4. points \in Seq(Times \cup {NoPoint})
  BY <1>3
<1>5. \A i \in DOMAIN points : points[i] # NoPoint => ByteOf(points[i]) # 255
  BY <1>3
<1> QED
  BY <1>2, <1>4, <1>5 DEF IsCycle, WellTimed

-----------------------------------------------------------------------------
(* The invariant.                                                          *)

IsNumber(u) == u.type \notin {"enum", "cycletime", "systime", "errstate"}

\* Texts that are typed and texts that are shown; of a programme shown nothing is needed.
Fits(text) ==
  /\ text.kind = "word"  => text \in [kind : {"word"}, word : STRING]
  /\ text.kind = "cycle" => IsCycle(text)
  /\ text.kind = "time"  => text.at \in DateTime /\ text.offset \in -12..14

\* Bytes that a time can be read from.
Holds(u, bytes) ==
  u.type = "systime" /\ Len(bytes) = 8 => DateIn(bytes) \in DateTime

\* The text that the bytes were made from is the one that they show.
Comes(text, u, bytes) ==
  /\ u.type # "errstate"
  /\ u.type = "enum" =>
       /\ text.kind \in {"word", "empty"}
       /\ text.kind = "word" => /\ bytes2Enum(u.enums, bytes) # 0
                                /\ Text(u.enums[bytes2Enum(u.enums, bytes)].word) = text
  /\ u.type = "cycletime" =>
       /\ text.kind \in {"cycle", "programme"}
       /\ text.kind = "cycle" =>
            getCycleTime(bytes) = [kind |-> "programme", points |-> Completed(text.points)]
  /\ u.type = "systime" =>
       /\ text.kind \in {"time", "empty"}
       /\ text.kind = "time" /\ TimeIsOwed(text) =>
            Len(bytes) = 8 /\ DateIn(bytes) = text.at

IInv ==
  /\ unit \in Unit
  /\ ~IsNumber(unit) =>
       /\ Fits(shown) /\ Holds(unit, memory)
       /\ written # None => Comes(written.text, unit, memory)

LEMMA BytesAre ==
  ASSUME NEW n \in Nat, NEW bytes \in [1..n -> 0..255]
  PROVE  bytes \in Seq(0..255) /\ Len(bytes) = n
OBVIOUS

LEMMA BcdIsInt ==
  ASSUME NEW b \in Int
  PROVE  bcd2dec(b) \in Int /\ dec2bcd(b) \in Int
<1>1. PICK s \in Int : s = Signed8(b)
  BY DEF Signed8
<1>2. s \div 16 \in Int /\ (-s) \div 16 \in Int
  OBVIOUS
<1>3. PICK q \in Int : q = Quotient(s, 16)
  BY <1>2 DEF Quotient, Abs
<1>4. s - q * 6 \in Int
  OBVIOUS
<1>5. bcd2dec(b) = s - q * 6
  BY <1>1, <1>3 DEF bcd2dec
<1>6. b \div 10 \in Int /\ b % 10 \in Int
  OBVIOUS
<1>7. (b \div 10) * 16 + (b % 10) \in Int
  BY <1>6
<1> QED
  BY <1>4, <1>5, <1>7 DEF dec2bcd

LEMMA DateInIs ==
  ASSUME NEW bytes, \A i \in 1..8 \ {5} : bytes[i] \in Int
  PROVE  DateIn(bytes) \in DateTime
<1>1. \A i \in 1..8 \ {5} : bcd2dec(bytes[i]) \in Int
  BY BcdIsInt
<1>2. /\ bcd2dec(bytes[1]) \in Int /\ bcd2dec(bytes[2]) \in Int /\ bcd2dec(bytes[3]) \in Int
      /\ bcd2dec(bytes[4]) \in Int /\ bcd2dec(bytes[6]) \in Int /\ bcd2dec(bytes[7]) \in Int
      /\ bcd2dec(bytes[8]) \in Int
  BY <1>1
<1>3. bcd2dec(bytes[1]) * 100 + bcd2dec(bytes[2]) \in Int
  BY <1>2
<1> QED
  BY <1>2, <1>3 DEF DateIn, DateTime

LEMMA TimeHolds ==
  ASSUME NEW d \in DateTime
  PROVE  Len(TimeBytes(d)) = 8 /\ DateIn(TimeBytes(d)) \in DateTime
<1>1. /\ d.year \div 100 \in Int /\ d.year % 100 \in Int /\ d.month \in Int /\ d.day \in Int
      /\ d.hour \in Int /\ d.min \in Int /\ d.sec \in Int
  BY DateFields
<1>2. PICK b : b = TimeBytes(d)
  OBVIOUS
<1>3. /\ b[1] \in Int /\ b[2] \in Int /\ b[3] \in Int /\ b[4] \in Int
      /\ b[6] \in Int /\ b[7] \in Int /\ b[8] \in Int
  BY <1>1, <1>2, TimeBytesAre, BcdIsInt
<1>4. \A i \in 1..8 \ {5} : b[i] \in Int
  BY <1>3
<1> QED
  BY <1>2, <1>4, DateInIs, TimeBytesAre

\* Whatever time is given, and whatever season it is.
LEMMA SetTimeHolds ==
  ASSUME NEW text, Fits(text), setSysTime(text) # <<>>
  PROVE  /\ text.kind \in {"time", "empty"}
         /\ Len(setSysTime(text)) = 8 /\ DateIn(setSysTime(text)) \in DateTime
<1>1. CASE text.kind = "empty"
  <2>1. setSysTime(text) = TimeBytes(HostTime)
    BY <1>1 DEF setSysTime
  <2>2. HostTime \in DateTime
    BY DEF HostTime, DateTime
  <2> QED
    BY <1>1, <2>1, <2>2, TimeHolds
<1>2. CASE text.kind = "time" /\ Parsed(text.at)
  <2>1. PICK d \in DateTime, O \in -12..14 :
          d = Normalized(text.at) /\ O = text.offset /\ IsDate(d)
    <3>1. text.at \in DateTime /\ text.offset \in -12..14
      BY <1>2 DEF Fits
    <3> QED
      BY <1>2, <3>1, NormalizedIs
  <2>2. \A s : Offset(s) \in {1, 2}
    BY DEF Offset
  <2>3. PICK S \in {1, 2}, W \in {1, 2} : S = Offset(season) /\ W = Offset("winter")
    BY <2>2
  <2>4. PICK moved : moved = AddHours(d, S - O)
    OBVIOUS
  <2>5. moved \in DateTime /\ IsDate(moved)
    <3>1. PICK n \in -23..23 : n = S - O
      OBVIOUS
    <3> QED
      BY <2>1, <2>4, <3>1, HourAdded
  <2>6. PICK E \in {1, 2} : E = Offset(SeasonOf(AddHours(moved, W - S)))
    BY <2>2
  <2>7. AddHours(moved, E - S) \in DateTime
    <3>1. PICK n \in -23..23 : n = E - S
      OBVIOUS
    <3> QED
      BY <2>5, <3>1, HourAdded
  <2>8. setSysTime(text) = TimeBytes(AddHours(moved, E - S))
    BY <1>2, <2>1, <2>3, <2>4, <2>6 DEF setSysTime
  <2> QED
    BY <1>2, <2>7, <2>8, TimeHolds
<1> QED
  BY <1>1, <1>2 DEF setSysTime

LEMMA TimeKept ==
  ASSUME NEW text, Fits(text), text.kind = "time", setSysTime(text) # <<>>,
         TimeIsOwed(text)
  PROVE  DateIn(setSysTime(text)) = text.at
<1>1. /\ text.at \in DateTime
      /\ IsDate(text.at) /\ OfItsSeason(text) /\ Readable(text.at.year)
  BY DEF Fits, TimeIsOwed
<1> QED
  BY <1>1, SeasonKept, DateKept

\* A set command: the bytes show the text that they were made from.
LEMMA SetComes ==
  ASSUME NEW u \in Unit, NEW text, Fits(text), ~IsNumber(u), NEW bytes, bytes # <<>>,
         NEW pbytes, NEW min, bytes = procSetUnit(u, text, pbytes, min)
  PROVE  Comes(text, u, bytes) /\ Holds(u, bytes)
<1>1. CASE u.type = "enum"
  <2>1. bytes = text2Enum(u.enums, text)
    BY <1>1 DEF procSetUnit
  <2>2. text \in [kind : {"word"}, word : STRING]
    BY <2>1 DEF text2Enum, Fits
  <2>3. text.kind = "word"
    BY <2>2
  <2>4. /\ bytes2Enum(u.enums, bytes) # 0
        /\ Text(u.enums[bytes2Enum(u.enums, bytes)].word) = text
    BY <2>1, <2>2, WordKept
  <2> QED
    BY <1>1, <2>3, <2>4 DEF Comes, Holds
<1>2. CASE u.type = "cycletime"
  <2>1. bytes = setCycleTime(text, min)
    BY <1>2 DEF procSetUnit
  <2>2. text.kind \in {"cycle", "programme"}
    BY <2>1 DEF setCycleTime
  <2>3. text.kind = "cycle" =>
          getCycleTime(bytes) = [kind |-> "programme", points |-> Completed(text.points)]
    BY <2>1, CycleKept DEF Fits
  <2> QED
    BY <1>2, <2>2, <2>3 DEF Comes, Holds
<1>3. CASE u.type = "systime"
  <2>1. bytes = setSysTime(text)
    BY <1>3 DEF procSetUnit
  <2>2. text.kind \in {"time", "empty"} /\ Len(bytes) = 8 /\ DateIn(bytes) \in DateTime
    BY <2>1, SetTimeHolds
  <2>3. text.kind = "time" /\ TimeIsOwed(text) => DateIn(bytes) = text.at
    BY <2>1, TimeKept
  <2> QED
    BY <1>3, <2>2, <2>3 DEF Comes, Holds
<1>4. CASE u.type = "errstate"
  <2>1. bytes = <<>>
    BY <1>4 DEF procSetUnit
  <2> QED
    BY <2>1
<1> QED
  BY <1>1, <1>2, <1>3, <1>4 DEF IsNumber

\* What a get command shows of it.
LEMMA ComesBack ==
  ASSUME unit \in Unit, ~IsNumber(unit), NEW text, Comes(text, unit, memory)
  PROVE  ReadBack(text, procGetUnit(unit, memory))
<1>1. PICK now : now = procGetUnit(unit, memory)
  OBVIOUS
<1>2. CASE unit.type = "enum"
  <2>1. text.kind = "word" => now = text
    BY <1>1, <1>2 DEF Comes, procGetUnit
  <2>2. text.kind \in {"word", "empty"}
    BY <1>2 DEF Comes
  <2> QED
    BY <1>1, <2>1, <2>2 DEF ReadBack
<1>3. CASE unit.type = "cycletime"
  <2>1. now = getCycleTime(memory)
    BY <1>1, <1>3 DEF procGetUnit
  <2>2. /\ text.kind \in {"cycle", "programme"}
        /\ text.kind = "cycle" =>
             now = [kind |-> "programme", points |-> Completed(text.points)]
    BY <1>3, <2>1 DEF Comes
  <2> QED
    BY <1>1, <2>2 DEF ReadBack
<1>4. CASE unit.type = "systime"
  <2>1. now = getSysTime(memory)
    BY <1>1, <1>4 DEF procGetUnit
  <2>2. /\ text.kind \in {"time", "empty"}
        /\ text.kind = "time" /\ TimeIsOwed(text) =>
             Len(memory) = 8 /\ DateIn(memory) = text.at
    BY <1>4 DEF Comes
  <2>3. Len(memory) = 8 => now.at = DateIn(memory)
    BY <2>1, DateRead
  <2> QED
    BY <1>1, <2>2, <2>3 DEF ReadBack
<1> QED
  BY <1>2, <1>3, <1>4 DEF Comes, IsNumber

\* What a get command shows can be typed.
LEMMA ShownFits ==
  ASSUME unit \in Unit, ~IsNumber(unit), Holds(unit, memory)
  PROVE  Fits(procGetUnit(unit, memory))
<1>1. PICK now : now = procGetUnit(unit, memory)
  OBVIOUS
<1>2. ASSUME now.kind \in {"refused", "errors", "programme"} PROVE Fits(now)
  BY <1>2 DEF Fits
<1>3. CASE unit.type = "enum"
  <2>1. CASE bytes2Enum(unit.enums, memory) = 0
    BY <1>1, <1>2, <1>3, <2>1 DEF procGetUnit, Refused
  <2>2. CASE bytes2Enum(unit.enums, memory) # 0
    <3>1. unit.enums \in Seq(Entry)
      BY EnumAssumption DEF Entry
    <3>2. PICK word \in STRING : word = unit.enums[bytes2Enum(unit.enums, memory)].word
      BY <2>2, <3>1, EntryFound
    <3>3. now = [kind |-> "word", word |-> word]
      BY <1>1, <1>3, <2>2, <3>2 DEF procGetUnit, Text
    <3>4. now \in [kind : {"word"}, word : STRING] /\ now.kind = "word"
      BY <3>3
    <3> QED
      BY <1>1, <3>4 DEF Fits
  <2> QED
    BY <2>1, <2>2
<1>4. CASE unit.type = "cycletime"
  <2>1. now = getCycleTime(memory)
    BY <1>1, <1>4 DEF procGetUnit
  <2>2. now.kind \in {"refused", "programme"}
    BY <2>1 DEF getCycleTime, Refused
  <2> QED
    BY <1>1, <1>2, <2>2
<1>5. CASE unit.type = "systime"
  <2>1. now = getSysTime(memory) /\ (Len(memory) = 8 => DateIn(memory) \in DateTime)
    BY <1>1, <1>5 DEF procGetUnit, Holds
  <2>2. CASE Len(memory) = 8
    <3>1. now = [kind |-> "time", at |-> DateIn(memory), offset |-> Offset(season)]
      BY <2>1, <2>2, DateRead
    <3>2. Offset(season) \in -12..14
      BY DEF Offset
    <3>3. now.kind = "time" /\ now.at \in DateTime /\ now.offset \in -12..14
      BY <2>1, <2>2, <3>1, <3>2
    <3> QED
      BY <1>1, <3>3 DEF Fits
  <2>3. CASE Len(memory) # 8
    BY <1>1, <1>2, <2>1, <2>3 DEF getSysTime, Refused
  <2> QED
    BY <2>2, <2>3
<1>6. CASE unit.type = "errstate"
  <2>1. now = getErrState(unit.enums, memory)
    BY <1>1, <1>6 DEF procGetUnit
  <2>2. now.kind \in {"refused", "errors"}
    BY <2>1 DEF getErrState, Refused
  <2> QED
    BY <1>1, <1>2, <2>2
<1> QED
  BY <1>3, <1>4, <1>5, <1>6 DEF IsNumber

LEMMA TypedFits ==
  ASSUME NEW u \in Unit, NEW text \in Typed(u)
  PROVE  Fits(text)
<1>1. text.kind = "time" => text.at \in DateTime /\ text.offset \in -12..14
  BY TextAssumption
<1>2. text.kind = "word" => text \in [kind : {"word"}, word : STRING]
  BY TextAssumption
<1> QED
  BY <1>1, <1>2, CycleTyped DEF Fits

LEMMA InitIInv == Init => IInv
<1> SUFFICES ASSUME Init PROVE IInv
  OBVIOUS
<1>1. unit \in Unit /\ memory \in Memory(unit) /\ shown = None /\ written = None
  BY DEF Init
<1>2. PICK n \in 1..16 : n = unit.len /\ memory \in [1..n -> 0..255]
  <2>1. unit.len \in 1..16
    BY <1>1, UnitAssumption
  <2>2. memory \in [1..unit.len -> 0..255]
    BY <1>1, MemoryAssumption
  <2> QED
    BY <2>1, <2>2
<1>3. memory \in Seq(0..255) /\ Len(memory) = n /\ \A i \in 1..n : memory[i] \in 0..255
  <2>1. n \in Nat
    OBVIOUS
  <2>2. memory \in Seq(0..255) /\ Len(memory) = n
    BY <1>2, <2>1, BytesAre
  <2> QED
    BY <1>2, <2>2
<1>4. Len(memory) = 8 => DateIn(memory) \in DateTime
  <2> SUFFICES ASSUME n = 8 PROVE DateIn(memory) \in DateTime
    BY <1>3
  <2>1. ASSUME NEW i \in 1..8 \ {5} PROVE memory[i] \in Int
    <3>1. i \in 1..n
      OBVIOUS
    <3>2. memory[i] \in 0..255
      BY <1>3, <3>1
    <3> QED
      BY <3>2
  <2> QED
    BY <2>1, DateInIs
<1>5. Fits(shown)
  BY <1>1 DEF Fits, None
<1> QED
  BY <1>1, <1>3, <1>4, <1>5 DEF IInv, Holds

LEMMA NextIInv == IInv /\ [Next]_vars => IInv'
<1> SUFFICES ASSUME IInv, [Next]_vars PROVE IInv'
  OBVIOUS
<1> SUFFICES ASSUME ~IsNumber(unit), unit' = unit
             PROVE  /\ Fits(shown') /\ Holds(unit, memory')
                    /\ written' # None => Comes(written'.text, unit, memory')
  <2>1. unit \in Unit
    BY DEF IInv
  <2>2. unit' = unit
    BY DEF Next, Get, Set, SeasonChanges, vars
  <2> QED
    BY <2>1, <2>2 DEF IInv
<1>1. /\ unit \in Unit /\ Fits(shown) /\ Holds(unit, memory)
      /\ written # None => Comes(written.text, unit, memory)
  BY DEF IInv
<1>2. CASE Get
  <2>1. Fits(shown')
    BY <1>1, <1>2, ShownFits DEF Get
  <2> QED
    BY <1>1, <1>2, <2>1 DEF Get
<1>3. CASE SeasonChanges
  BY <1>1, <1>3 DEF SeasonChanges
<1>4. ASSUME NEW text \in Typed(unit) \cup {shown}, Set(text)
      PROVE  /\ Fits(shown') /\ Holds(unit, memory')
             /\ written' # None => Comes(written'.text, unit, memory')
  <2>1. Fits(text)
    BY <1>1, TypedFits
  <2>2. Fits(Parameter(text))
    <3>1. Fits(Blank)
      BY DEF Fits, Blank
    <3> QED
      BY <2>1, <3>1 DEF Parameter
  <2>3. PICK pbytes, min : /\ memory' = procSetUnit(unit, Parameter(text), pbytes, min)
                           /\ Len(memory') = unit.len
    BY <1>4 DEF Set
  <2>4. memory' # <<>>
    <3>1. unit.len # 0
      BY <1>1, UnitAssumption
    <3> QED
      BY <2>3, <3>1
  <2>5. Comes(Parameter(text), unit, memory') /\ Holds(unit, memory')
    BY <1>1, <2>2, <2>3, <2>4, SetComes
  <2>6. Comes(text, unit, memory')
    <3>1. CASE Parameter(text) = text
      BY <2>5, <3>1
    <3>2. CASE Parameter(text) = Blank /\ text = Empty
      <4>1. text.kind = "empty" /\ Parameter(text).kind = "blank"
        BY <3>2 DEF Empty, Blank
      <4> QED
        BY <2>5, <4>1 DEF Comes
    <3> QED
      BY <3>1, <3>2 DEF Parameter
  <2>7. written'.text = text /\ shown' = shown
    BY <1>4 DEF Set
  <2> QED
    BY <1>1, <2>5, <2>6, <2>7
<1>5. CASE UNCHANGED vars
  BY <1>1, <1>5 DEF vars
<1> QED
  BY <1>2, <1>3, <1>4, <1>5 DEF Next

\* The words, the switching programmes that are typed and the times: a get command shows what
\* a set command of the same unit has set - procSetUnit() and procGetUnit() undo each other.
THEOREM TextsAreReadBack == Spec => [](~IsNumber(unit) => SetIsReadBack)
<1>1. IInv => (~IsNumber(unit) => SetIsReadBack)
  BY ComesBack DEF IInv, SetIsReadBack
<1> QED
  BY <1>1, InitIInv, NextIInv, PTL DEF Spec

=============================================================================
