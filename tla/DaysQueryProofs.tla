---------------------------- MODULE DaysQueryProofs ----------------------------
(***************************************************************************)
(* TypeOK and HistoryExact of DaysQuery, for any dates the clock starts at, *)
(* any spans of up to four weeks, and any number of rows and queries.  The  *)
(* date difference of Server/utilities.c is compared with a number that     *)
(* counts the days of the calendar.                                         *)
(***************************************************************************)
EXTENDS DaysQuery, TLAPS

(* The days before a year, before a month of a year, and up to a date. *)
YearStart(y) == 365 * y + (y - 1) \div 4 - (y - 1) \div 100 + (y - 1) \div 400

MonthStart(m, y) ==
  (IF m = 1 THEN 0 ELSE IF m = 2 THEN 31 ELSE IF m = 3 THEN 59 ELSE IF m = 4 THEN 90
   ELSE IF m = 5 THEN 120 ELSE IF m = 6 THEN 151 ELSE IF m = 7 THEN 181 ELSE IF m = 8 THEN 212
   ELSE IF m = 9 THEN 243 ELSE IF m = 10 THEN 273 ELSE IF m = 11 THEN 304 ELSE 334)
  + IF m > 2 /\ IsLeap(y) THEN 1 ELSE 0

DayCount(k, m, y) == YearStart(y) + MonthStart(m, y) + k

DayNumber(d) == DayCount(d.day, d.mon, d.year)

Date(k, m, y) == [day |-> k, mon |-> m, year |-> y]

Years == 1800 .. 10000

(* The dates of the calendar, the first of year 10000 included. *)
CalendarDates ==
  {d \in [day : 1 .. 31, mon : 1 .. 12, year : Years] : d.day <= LastDay(d.mon, d.year)}

(* Those that valid_date knows. *)
EarlyDates == {d \in CalendarDates : d.year <= 9999}

-------------------------------------------------------------------------------
LEMMA NextYear ==
  ASSUME NEW y \in Nat, NEW z \in Nat, z = y + 1
  PROVE  YearStart(z) = YearStart(y) + IF IsLeap(y) THEN 366 ELSE 365
<1>1. y \div 4 = (y - 1) \div 4 + IF y % 4 = 0 THEN 1 ELSE 0
  OBVIOUS
<1>2. y \div 100 = (y - 1) \div 100 + IF y % 100 = 0 THEN 1 ELSE 0
  OBVIOUS
<1>3. y \div 400 = (y - 1) \div 400 + IF y % 400 = 0 THEN 1 ELSE 0
  OBVIOUS
<1>4. (y % 400 = 0 => y % 100 = 0) /\ (y % 100 = 0 => y % 4 = 0)
  OBVIOUS
<1>. QED BY <1>1, <1>2, <1>3, <1>4 DEF YearStart, IsLeap

LEMMA YearNumber ==
  ASSUME NEW y \in Nat
  PROVE  YearStart(y) \in Int
BY DEF YearStart

(* Years are long, whichever of them are leap years. *)
LEMMA LongYears ==
  ASSUME NEW y \in Nat, NEW z \in Nat, y <= z
  PROVE  YearStart(z) - YearStart(y) >= 365 * (z - y) - 2
BY DEF YearStart

LEMMA MonthBounds ==
  ASSUME NEW m \in 1 .. 12, NEW y \in Nat
  PROVE  MonthStart(m, y) \in 0 .. 335 /\ LastDay(m, y) \in 28 .. 31
BY DEF MonthStart, LastDay

LEMMA NextMonth ==
  ASSUME NEW m \in 1 .. 12, NEW n \in 1 .. 12, NEW y \in Nat, n = m + 1
  PROVE  MonthStart(n, y) = MonthStart(m, y) + LastDay(m, y)
BY DEF MonthStart, LastDay

LEMMA December ==
  ASSUME NEW y \in Nat
  PROVE  /\ MonthStart(1, y) = 0
         /\ MonthStart(12, y) + 31 = IF IsLeap(y) THEN 366 ELSE 365
BY DEF MonthStart

(* The months of a year follow each other. *)
LEMMA LaterMonth ==
  ASSUME NEW m \in 1 .. 12, NEW n \in 1 .. 12, NEW y \in Nat, m < n
  PROVE  /\ MonthStart(n, y) >= MonthStart(m, y) + LastDay(m, y)
         /\ m + 1 < n => MonthStart(n, y) >= MonthStart(m, y) + LastDay(m, y) + 28
BY DEF MonthStart, LastDay

LEMMA CountInt ==
  ASSUME NEW k \in Int, NEW m \in 1 .. 12, NEW y \in Nat
  PROVE  DayCount(k, m, y) \in Int
<1>1. YearStart(y) \in Int
  BY YearNumber
<1>2. MonthStart(m, y) \in 0 .. 335
  BY MonthBounds
<1>. QED BY <1>1, <1>2 DEF DayCount

IsDate(k, m, y) == k \in 1 .. 31 /\ m \in 1 .. 12 /\ y \in Nat /\ k <= LastDay(m, y)

(* The date n days after another has a number that is n greater. *)
CountedAfter(k, m, y, n) ==
  \E k2, m2, y2 :
    /\ After(Date(k, m, y), n) = Date(k2, m2, y2)
    /\ IsDate(k2, m2, y2) /\ y2 \in {y, y + 1}
    /\ DayCount(k2, m2, y2) = DayCount(k, m, y) + n

LEMMA AfterCount ==
  ASSUME NEW k, NEW m, NEW y, IsDate(k, m, y), NEW n \in 1 .. 28
  PROVE  CountedAfter(k, m, y, n)
<1>. k \in 1 .. 31 /\ m \in 1 .. 12 /\ y \in Nat /\ k <= LastDay(m, y)
  BY DEF IsDate
<1>. DEFINE u == After(Date(k, m, y), n)
            l == LastDay(m, y)
            s == MonthStart(m, y)
<1>1. l \in 28 .. 31 /\ s \in Int /\ YearStart(y) \in Int /\ k <= l
  <2>1. l \in 28 .. 31 /\ s \in 0 .. 335
    BY MonthBounds
  <2>. QED BY <2>1, YearNumber
<1>2. u = IF k + n <= l THEN Date(k + n, m, y)
          ELSE Date(k + n - l, IF m = 12 THEN 1 ELSE m + 1, IF m = 12 THEN y + 1 ELSE y)
  BY DEF After, Date
<1>. HIDE DEF u, l, s
<1>3. CASE k + n <= l
  <2>1. u = Date(k + n, m, y) /\ k + n \in 1 .. 31
    BY <1>1, <1>2, <1>3
  <2>2. DayCount(k + n, m, y) = DayCount(k, m, y) + n
    <3>1. \A j : DayCount(j, m, y) = YearStart(y) + s + j
      BY DEF DayCount, s
    <3>. QED BY <1>1, <3>1
  <2>. QED BY <1>3, <2>1, <2>2 DEF CountedAfter, IsDate, u, l
<1>4. CASE k + n > l /\ m < 12
  <2>. DEFINE j == k + n - l
              o == m + 1
  <2>1. j \in 1 .. 28 /\ o \in 1 .. 12
    BY <1>1, <1>4
  <2>2. u = Date(j, o, y)
    BY <1>1, <1>2, <1>4
  <2>3. MonthStart(o, y) = s + l
    <3>. o = m + 1
      OBVIOUS
    <3>. HIDE DEF o
    <3>. QED BY <2>1, NextMonth DEF s, l
  <2>4. DayCount(j, o, y) = YearStart(y) + (s + l) + j /\ DayCount(k, m, y) = YearStart(y) + s + k
    BY <2>3 DEF DayCount, s
  <2>5. DayCount(j, o, y) = DayCount(k, m, y) + n
    BY <1>1, <2>4
  <2>. HIDE DEF j, o
  <2>6. IsDate(j, o, y)
    <3>1. LastDay(o, y) \in 28 .. 31
      BY <2>1, MonthBounds
    <3>. QED BY <2>1, <3>1 DEF IsDate
  <2>. QED BY <2>1, <2>2, <2>5, <2>6 DEF CountedAfter, u
<1>5. CASE k + n > l /\ m = 12
  <2>. DEFINE j == k + n - l
              z == y + 1
  <2>1. j \in 1 .. 28 /\ z \in Nat /\ z = y + 1
    BY <1>1, <1>5
  <2>2. u = Date(j, 1, z)
    BY <1>1, <1>2, <1>5
  <2>. HIDE DEF z
  <2>3. l = 31
    BY <1>5 DEF LastDay, l
  <2>4. YearStart(z) + MonthStart(1, z) = YearStart(y) + s + l
    <3>1. YearStart(z) = YearStart(y) + IF IsLeap(y) THEN 366 ELSE 365
      BY <2>1, NextYear
    <3>2. MonthStart(1, z) = 0 /\ s + 31 = IF IsLeap(y) THEN 366 ELSE 365
      BY <1>5, <2>1, December DEF s
    <3>. QED BY <1>1, <2>3, <3>1, <3>2
  <2>5. DayCount(j, 1, z) = YearStart(z) + MonthStart(1, z) + j /\ DayCount(k, m, y) = YearStart(y) + s + k
    BY DEF DayCount, s
  <2>6. DayCount(j, 1, z) = DayCount(k, m, y) + n
    BY <1>1, <2>4, <2>5
  <2>. HIDE DEF j
  <2>7. IsDate(j, 1, z)
    BY <2>1 DEF LastDay, IsDate
  <2>. QED BY <2>1, <2>2, <2>6, <2>7 DEF CountedAfter, u
<1>. QED BY <1>1, <1>3, <1>4, <1>5

(* The same date of the next year. *)
LEMMA YearCount ==
  ASSUME NEW k, NEW m, NEW y, IsDate(k, m, y), NEW z \in Nat, z = y + 1, ~(m = 2 /\ k = 29)
  PROVE  /\ k <= LastDay(m, z)
         /\ DayCount(k, m, z) = DayCount(k, m, y) + IF IsLeap(IF m <= 2 THEN y ELSE z) THEN 366 ELSE 365
<1>. k \in 1 .. 31 /\ m \in 1 .. 12 /\ y \in Nat /\ k <= LastDay(m, y)
  BY DEF IsDate
<1>1. k <= LastDay(m, z)
  BY DEF LastDay
<1>2. YearStart(y) \in Int /\ YearStart(z) = YearStart(y) + IF IsLeap(y) THEN 366 ELSE 365
  BY YearNumber, NextYear
<1>3. /\ MonthStart(m, z) = MonthStart(m, y) + (IF m > 2 /\ IsLeap(z) THEN 1 ELSE 0)
                                           - (IF m > 2 /\ IsLeap(y) THEN 1 ELSE 0)
      /\ MonthStart(m, y) \in Int
  BY DEF MonthStart
<1>4. CASE m <= 2
  BY <1>1, <1>2, <1>3, <1>4 DEF DayCount
<1>5. CASE m > 2
  BY <1>1, <1>2, <1>3, <1>5 DEF DayCount
<1>. QED BY <1>4, <1>5

(* The condition on the date difference is the one on the numbers of the days. *)
LEMMA DifferenceCounts ==
  ASSUME NEW d1 \in 1 .. 31, NEW m1 \in 1 .. 12, NEW y1 \in Nat, d1 <= LastDay(m1, y1),
         NEW d2 \in 1 .. 31, NEW m2 \in 1 .. 12, NEW y2 \in Nat, d2 <= LastDay(m2, y2)
  PROVE  InLast14Days(Date(d1, m1, y1), Date(d2, m2, y2)) <=>
           DayCount(d2, m2, y2) - DayCount(d1, m1, y1) \in 0 .. 14
<1>. DEFINE l1 == LastDay(m1, y1)
            l2 == LastDay(m2, y2)
            s1 == MonthStart(m1, y1)
            s2 == MonthStart(m2, y2)
            long1 == IF IsLeap(y1) THEN 366 ELSE 365
            long2 == IF IsLeap(y2) THEN 366 ELSE 365
            n == DayCount(d2, m2, y2) - DayCount(d1, m1, y1)
            b == Borrowed(Date(d2, m2, y2))
            mon == IF d2 < d1 THEN m2 - 1 ELSE m2
            near == InLast14Days(Date(d1, m1, y1), Date(d2, m2, y2))
<1>1. /\ s1 \in 0 .. 335 /\ l1 \in 28 .. 31 /\ s2 \in 0 .. 335 /\ l2 \in 28 .. 31
      /\ YearStart(y1) \in Int /\ YearStart(y2) \in Int
  <2>1. s1 \in 0 .. 335 /\ l1 \in 28 .. 31
    BY MonthBounds
  <2>2. s2 \in 0 .. 335 /\ l2 \in 28 .. 31
    BY MonthBounds
  <2>. QED BY <2>1, <2>2, YearNumber
<1>2. near <=> /\ (IF d2 < d1 THEN d2 + b ELSE d2) - d1 <= 14
               /\ (IF mon < m1 THEN mon + 12 ELSE mon) - m1 = 0
               /\ (IF mon < m1 THEN y2 - 1 ELSE y2) - y1 = 0
  <2>. HIDE DEF b
  <2>1. /\ Date(d1, m1, y1).day = d1 /\ Date(d1, m1, y1).mon = m1 /\ Date(d1, m1, y1).year = y1
        /\ Date(d2, m2, y2).day = d2 /\ Date(d2, m2, y2).mon = m2 /\ Date(d2, m2, y2).year = y2
    BY DEF Date
  <2>. QED BY <2>1 DEF InLast14Days, DateDifference, b
<1>3. b = IF m2 = 3 THEN IF IsLeap(y2) THEN 29 ELSE 28 ELSE IF m2 \in {5, 7, 10, 12} THEN 30 ELSE 31
  BY DEF Borrowed, Date
<1>4. /\ s1 + l1 <= long1 /\ s2 + l2 <= long2 /\ long1 \in Int /\ long2 \in Int
      /\ m1 < 12 => s1 + l1 + 31 <= long1
      /\ m1 = 12 => s1 + 31 = long1
      /\ IF m2 = 1 THEN s2 = 0 ELSE s2 >= 31
  BY DEF MonthStart, LastDay
<1>5. m1 + 1 = m2 /\ y1 = y2 => b = l1 /\ s2 = s1 + l1
  <2>1. m1 + 1 = m2 /\ y1 = y2 => b = l1
    BY <1>3 DEF LastDay
  <2>. QED BY <2>1, NextMonth
<1>6. y1 = y2 => /\ m1 + 1 < m2 => s2 >= s1 + l1 + 28
                 /\ m2 < m1 => s1 >= s2 + l2
  BY LaterMonth
<1>7. /\ y2 = y1 + 1 => YearStart(y2) - YearStart(y1) = long1
      /\ y1 = y2 + 1 => YearStart(y1) - YearStart(y2) = long2
  BY <1>1, NextYear
<1>8. /\ y1 + 2 <= y2 => YearStart(y2) - YearStart(y1) >= 728
      /\ y2 + 2 <= y1 => YearStart(y1) - YearStart(y2) >= 728
  <2>1. CASE y1 + 2 <= y2
    <3>1. YearStart(y2) - YearStart(y1) >= 365 * (y2 - y1) - 2
      BY <2>1, LongYears
    <3>. QED BY <1>1, <2>1, <3>1
  <2>2. CASE y2 + 2 <= y1
    <3>1. YearStart(y1) - YearStart(y2) >= 365 * (y1 - y2) - 2
      BY <2>2, LongYears
    <3>. QED BY <1>1, <2>2, <3>1
  <2>. QED BY <2>1, <2>2
<1>9. n = (YearStart(y2) - YearStart(y1)) + (s2 - s1) + (d2 - d1)
  <2>. HIDE DEF s1, s2
  <2>1. DayCount(d2, m2, y2) = YearStart(y2) + s2 + d2 /\ DayCount(d1, m1, y1) = YearStart(y1) + s1 + d1
    BY DEF DayCount, s1, s2
  <2>. QED BY <1>1, <2>1
<1>10. d1 <= l1 /\ d2 <= l2
  OBVIOUS
<1>. HIDE DEF l1, l2, s1, s2, long1, long2, n, b, near
<1>11. CASE y1 = y2 /\ m1 = m2
  <2>1. s1 = s2
    BY <1>11 DEF s1, s2
  <2>. QED BY <1>1, <1>2, <1>9, <1>11, <2>1 DEF near, n
<1>12. CASE y1 = y2 /\ m1 + 1 = m2
  <2>1. n = l1 + d2 - d1
    BY <1>1, <1>5, <1>9, <1>12
  <2>. QED BY <1>1, <1>2, <1>5, <1>10, <1>12, <2>1 DEF near, n
<1>13. CASE y1 = y2 /\ m1 + 1 < m2
  <2>1. n > 14
    BY <1>1, <1>6, <1>9, <1>10, <1>13
  <2>2. ~near
    BY <1>2, <1>13
  <2>. QED BY <1>1, <1>9, <2>1, <2>2 DEF near, n
<1>14. CASE y1 = y2 /\ m2 < m1
  <2>1. n < 0
    BY <1>1, <1>6, <1>9, <1>10, <1>14
  <2>2. ~near
    BY <1>2, <1>14
  <2>. QED BY <1>1, <1>9, <2>1, <2>2 DEF near, n
<1>15. CASE y2 = y1 + 1 /\ m1 = 12 /\ m2 = 1
  <2>1. n = 31 + d2 - d1 /\ b = 31 /\ l1 = 31
    <3>1. l1 = 31
      BY <1>15 DEF l1, LastDay
    <3>. QED BY <1>1, <1>3, <1>4, <1>7, <1>9, <1>15, <3>1
  <2>. QED BY <1>1, <1>2, <1>10, <1>15, <2>1 DEF near, n
<1>16. CASE y2 = y1 + 1 /\ ~(m1 = 12 /\ m2 = 1)
  <2>1. n > 14
    BY <1>1, <1>4, <1>7, <1>9, <1>10, <1>16
  <2>2. ~near
    BY <1>2, <1>16
  <2>. QED BY <1>1, <1>9, <2>1, <2>2 DEF near, n
<1>17. CASE y1 + 2 <= y2
  <2>1. n > 14
    BY <1>1, <1>8, <1>9, <1>17
  <2>2. ~near
    BY <1>2, <1>17
  <2>. QED BY <1>1, <1>9, <2>1, <2>2 DEF near, n
<1>18. CASE y1 = y2 + 1
  <2>1. n < 0
    BY <1>1, <1>4, <1>7, <1>9, <1>10, <1>18
  <2>2. ~near
    BY <1>2, <1>18
  <2>. QED BY <1>1, <1>9, <2>1, <2>2 DEF near, n
<1>19. CASE y2 + 2 <= y1
  <2>1. n < 0
    BY <1>1, <1>8, <1>9, <1>19
  <2>2. ~near
    BY <1>2, <1>19
  <2>. QED BY <1>1, <1>9, <2>1, <2>2 DEF near, n
<1>. QED BY <1>11, <1>12, <1>13, <1>14, <1>15, <1>16, <1>17, <1>18, <1>19
-------------------------------------------------------------------------------
(* The same about the dates of the model. *)

LEMMA DateFields ==
  ASSUME NEW d \in CalendarDates
  PROVE  /\ d.day \in 1 .. 31 /\ d.mon \in 1 .. 12 /\ d.year \in Years /\ d.year \in Nat
         /\ d.day <= LastDay(d.mon, d.year) /\ d = Date(d.day, d.mon, d.year)
         /\ IsDate(d.day, d.mon, d.year) /\ DayNumber(d) \in Int
<1>1. d \in [day : 1 .. 31, mon : 1 .. 12, year : Years] /\ d.day <= LastDay(d.mon, d.year)
  BY DEF CalendarDates
<1>2. d.day \in 1 .. 31 /\ d.mon \in 1 .. 12 /\ d.year \in Years
  BY <1>1
<1>3. d = [day |-> d.day, mon |-> d.mon, year |-> d.year]
  BY <1>1
<1>4. d.year \in Nat /\ d.day \in Int
  <2>. DEFINE k == d.day
              y == d.year
  <2>1. k \in 1 .. 31 /\ y \in Years
    BY <1>2
  <2>. HIDE DEF k, y
  <2>2. y \in Nat
    BY <2>1 DEF Years
  <2>3. k \in Int
    BY <2>1
  <2>. QED BY <2>2, <2>3 DEF k, y
<1>5. IsDate(d.day, d.mon, d.year)
  BY <1>1, <1>2, <1>4 DEF IsDate
<1>6. DayNumber(d) \in Int
  <2>. DEFINE k == d.day
              m == d.mon
              y == d.year
  <2>1. k \in Int /\ m \in 1 .. 12 /\ y \in Nat
    BY <1>2, <1>4
  <2>. HIDE DEF k, m, y
  <2>2. DayCount(k, m, y) \in Int
    BY <2>1, CountInt
  <2>. QED BY <2>2 DEF DayNumber, k, m, y
<1>7. d = Date(d.day, d.mon, d.year)
  BY <1>3 DEF Date
<1>. QED BY <1>1, <1>2, <1>4, <1>5, <1>6, <1>7

LEMMA CalendarDate ==
  ASSUME NEW k, NEW m, NEW y, IsDate(k, m, y), y \in Years
  PROVE  Date(k, m, y) \in CalendarDates /\ DayNumber(Date(k, m, y)) = DayCount(k, m, y)
BY DEF IsDate, Years, CalendarDates, Date, DayNumber

LEMMA AfterDate ==
  ASSUME NEW d \in EarlyDates, NEW n \in 1 .. 28
  PROVE  /\ After(d, n) \in CalendarDates /\ DayNumber(After(d, n)) = DayNumber(d) + n
         /\ After(d, n).year \in {d.year, d.year + 1}
<1>. DEFINE k == d.day
            m == d.mon
            y == d.year
<1>1. IsDate(k, m, y) /\ d = Date(k, m, y) /\ y \in Years /\ y <= 9999
  BY DateFields DEF EarlyDates
<1>2. DayNumber(d) = DayCount(k, m, y)
  BY DEF DayNumber
<1>. HIDE DEF k, m, y
<1>3. CountedAfter(k, m, y, n)
  BY <1>1, AfterCount
<1>4. PICK k2, m2, y2 :
           /\ After(Date(k, m, y), n) = Date(k2, m2, y2)
           /\ IsDate(k2, m2, y2) /\ y2 \in {y, y + 1}
           /\ DayCount(k2, m2, y2) = DayCount(k, m, y) + n
  BY <1>3 DEF CountedAfter
<1>5. y2 \in 1800 .. 10000
  <2>1. y \in 1800 .. 10000 /\ y <= 9999
    BY <1>1 DEF Years
  <2>2. y + 1 \in 1800 .. 10000
    BY <2>1
  <2>3. CASE y2 = y
    BY <2>1, <2>3
  <2>4. CASE y2 = y + 1
    BY <2>2, <2>4
  <2>. QED BY <1>4, <2>3, <2>4
<1>6. IsDate(k2, m2, y2) /\ y2 \in Years
  BY <1>4, <1>5 DEF Years
<1>7. Date(k2, m2, y2) \in CalendarDates /\ DayNumber(Date(k2, m2, y2)) = DayCount(k2, m2, y2)
  BY <1>6, CalendarDate
<1>8. Date(k2, m2, y2).year = y2
  BY DEF Date
<1>. QED BY <1>1, <1>2, <1>4, <1>7, <1>8 DEF y

LEMMA YearDate ==
  ASSUME NEW d \in EarlyDates, ~(d.mon = 2 /\ d.day = 29)
  PROVE  LET u == [d EXCEPT !.year = @ + 1]
         IN  /\ u \in CalendarDates /\ u.year = d.year + 1
             /\ DayNumber(u) = DayNumber(d) +
                  IF IsLeap(IF d.mon <= 2 THEN d.year ELSE d.year + 1) THEN 366 ELSE 365
<1>. DEFINE k == d.day
            m == d.mon
            y == d.year
            z == d.year + 1
<1>1. /\ IsDate(k, m, y) /\ d = Date(k, m, y) /\ y \in Years /\ y <= 9999
      /\ ~(m = 2 /\ k = 29)
  BY DateFields DEF EarlyDates
<1>2. DayNumber(d) = DayCount(k, m, y)
  BY DEF DayNumber
<1>3. z = y + 1 /\ z \in Years /\ z \in Nat
  <2>1. z = y + 1
    OBVIOUS
  <2>2. y \in Years /\ y <= 9999
    BY <1>1
  <2>. HIDE DEF y, z
  <2>3. z \in Years
    BY <2>1, <2>2 DEF Years
  <2>4. z \in Nat
    BY <2>1, <2>2 DEF Years
  <2>. QED BY <2>1, <2>3, <2>4
<1>4. [d EXCEPT !.year = @ + 1] = Date(k, m, z) /\ Date(k, m, z).year = z
  <2>1. Date(k, m, y) = [day |-> k, mon |-> m, year |-> y]
    BY DEF Date
  <2>. HIDE DEF k, m, y, z
  <2>2. [Date(k, m, y) EXCEPT !.year = z] = [day |-> k, mon |-> m, year |-> z]
    BY <2>1
  <2>3. [d EXCEPT !.year = z] = Date(k, m, z)
    BY <1>1, <2>2 DEF Date
  <2>. QED BY <2>3 DEF Date, z
<1>. HIDE DEF k, m, y, z
<1>5. /\ k <= LastDay(m, z)
      /\ DayCount(k, m, z) = DayCount(k, m, y) + IF IsLeap(IF m <= 2 THEN y ELSE z) THEN 366 ELSE 365
  BY <1>1, <1>3, YearCount
<1>6. IsDate(k, m, z) /\ z \in Years
  BY <1>1, <1>3, <1>5 DEF IsDate, Years
<1>7. Date(k, m, z) \in CalendarDates /\ DayNumber(Date(k, m, z)) = DayCount(k, m, z)
  BY <1>6, CalendarDate
<1>. QED BY <1>2, <1>4, <1>5, <1>7 DEF m, y, z

LEMMA NearDates ==
  ASSUME NEW a \in CalendarDates, NEW b \in CalendarDates
  PROVE  InLast14Days(a, b) <=> DayNumber(b) - DayNumber(a) \in 0 .. 14
<1>. DEFINE d1 == a.day
            m1 == a.mon
            y1 == a.year
            d2 == b.day
            m2 == b.mon
            y2 == b.year
<1>1. /\ d1 \in 1 .. 31 /\ m1 \in 1 .. 12 /\ y1 \in Nat /\ d1 <= LastDay(m1, y1)
      /\ a = Date(d1, m1, y1) /\ DayNumber(a) = DayCount(d1, m1, y1)
  BY DateFields DEF DayNumber
<1>2. /\ d2 \in 1 .. 31 /\ m2 \in 1 .. 12 /\ y2 \in Nat /\ d2 <= LastDay(m2, y2)
      /\ b = Date(d2, m2, y2) /\ DayNumber(b) = DayCount(d2, m2, y2)
  BY DateFields DEF DayNumber
<1>. HIDE DEF d1, m1, y1, d2, m2, y2
<1>. QED BY <1>1, <1>2, DifferenceCounts

-------------------------------------------------------------------------------
(* The day of a row is the one its stamp names, if that is a date. *)
Rows == [stamp : CalendarDates \cup InvalidDates, day : Int]

RowCounted(r, base) ==
  ValidDate(r.stamp) => r.stamp \in CalendarDates /\ r.day = DayNumber(r.stamp) - base

RowsCounted(rs, base) == \A i \in 1 .. Len(rs) : RowCounted(rs[i], base)

IsRecent(r, day) == r.day <= day /\ day - r.day <= 14

(* The list holds the recent ones of the first n rows, in their order. *)
ListOf(list, rs, n, day) ==
  \E index \in [1 .. Len(list) -> 1 .. n] :
    /\ \A j, k \in 1 .. Len(list) : j < k => index[j] < index[k]
    /\ \A k \in 1 .. Len(list) : list[k] = rs[index[k]]
    /\ \A i \in 1 .. n : (\E k \in 1 .. Len(list) : index[k] = i) <=> IsRecent(rs[i], day)

(* The clock counts the days from the start. *)
Counted(base) ==
  /\ clock = DayNumber(today) - base /\ asked = DayNumber(date) - base
  /\ RowsCounted(rows, base) /\ RowsCounted(result, base)

CalendarInv ==
  /\ today \in EarlyDates /\ date \in EarlyDates
  /\ spans \in 0 .. MaxSpans /\ today.year + (MaxSpans - spans) <= 9999
  /\ clock \in Nat /\ asked \in 0 .. clock
  /\ rows \in Seq(Rows) /\ Len(rows) <= MaxRows
  /\ result \in Seq(Rows) /\ Len(result) <= MaxRows

CountInv == \E base \in Int : Counted(base)

ListInv ==
  /\ pc \in {"idle", "execute", "fetch"}
  /\ answer \in {"none", "null", "json", "unassigned"}
  /\ pc # "idle" => answer = "none"
  /\ row \in 1 .. Len(result) + 1
  /\ json \in Seq(Rows)
  /\ pc = "fetch" => Len(json) < row /\ ListOf(json, result, row - 1, asked)
  /\ answer = "json" => ListOf(json, result, row - 1, asked)

HistoryInv == CalendarInv /\ CountInv /\ ListInv

-------------------------------------------------------------------------------
(* The lists *)

LEMMA NothingListed ==
  ASSUME NEW rs, NEW day, NEW list, list = << >>
  PROVE  ListOf(list, rs, 0, day)
<1>. DEFINE index == [k \in 1 .. 0 |-> 1]
<1>1. Len(list) = 0 /\ 1 .. 0 = {}
  OBVIOUS
<1>2. index \in [1 .. Len(list) -> 1 .. 0]
  BY <1>1
<1>. QED BY <1>1, <1>2 DEF ListOf

LEMMA RowKept ==
  ASSUME NEW list \in Seq(Rows), NEW rs \in Seq(Rows), NEW n \in 1 .. Len(rs), NEW day,
         ListOf(list, rs, n - 1, day), IsRecent(rs[n], day)
  PROVE  ListOf(Append(list, rs[n]), rs, n, day)
<1>. DEFINE more == Append(list, rs[n])
            last == Len(list) + 1
<1>1. PICK index \in [1 .. Len(list) -> 1 .. n - 1] :
           /\ \A j, k \in 1 .. Len(list) : j < k => index[j] < index[k]
           /\ \A k \in 1 .. Len(list) : list[k] = rs[index[k]]
           /\ \A i \in 1 .. n - 1 :
                (\E k \in 1 .. Len(list) : index[k] = i) <=> IsRecent(rs[i], day)
  BY DEF ListOf
<1>. DEFINE longer == [k \in 1 .. last |-> IF k = last THEN n ELSE index[k]]
<1>2. /\ Len(more) = last /\ last \in Nat /\ more[last] = rs[n]
      /\ \A k \in 1 .. Len(list) : more[k] = list[k]
      /\ Len(list) \in Nat /\ \A k \in 1 .. last : k = last \/ k \in 1 .. Len(list)
      /\ \A k \in 1 .. Len(list) : k \in 1 .. last /\ k # last
  OBVIOUS
<1>3. longer[last] = n /\ \A k \in 1 .. Len(list) : longer[k] = index[k]
  BY <1>2
<1>4. \A k \in 1 .. Len(list) : index[k] \in 1 .. n - 1 /\ index[k] < n
  OBVIOUS
<1>5. longer \in [1 .. Len(more) -> 1 .. n]
  BY <1>2, <1>4
<1>. HIDE DEF longer, more
<1>6. ASSUME NEW j \in 1 .. Len(more), NEW k \in 1 .. Len(more), j < k
      PROVE  longer[j] < longer[k]
  <2>1. j \in 1 .. Len(list)
    BY <1>2, <1>6
  <2>2. CASE k = last
    BY <1>3, <1>4, <2>1, <2>2
  <2>3. CASE k \in 1 .. Len(list)
    BY <1>1, <1>3, <1>6, <2>1, <2>3
  <2>. QED BY <1>2, <2>2, <2>3
<1>7. ASSUME NEW k \in 1 .. Len(more)
      PROVE  more[k] = rs[longer[k]]
  BY <1>1, <1>2, <1>3
<1>8. ASSUME NEW i \in 1 .. n
      PROVE  (\E k \in 1 .. Len(more) : longer[k] = i) <=> IsRecent(rs[i], day)
  <2>1. CASE i = n
    BY <1>2, <1>3, <2>1
  <2>2. CASE i \in 1 .. n - 1
    <3>1. i # n
      BY <2>2
    <3>2. (\E k \in 1 .. Len(more) : longer[k] = i) <=> \E k \in 1 .. Len(list) : index[k] = i
      BY <1>2, <1>3, <3>1
    <3>. QED BY <1>1, <2>2, <3>2
  <2>. QED BY <2>1, <2>2
<1>9. ListOf(more, rs, n, day)
  BY <1>5, <1>6, <1>7, <1>8, Zenon DEF ListOf
<1>. QED BY <1>9 DEF more

LEMMA RowDropped ==
  ASSUME NEW list \in Seq(Rows), NEW rs \in Seq(Rows), NEW n \in 1 .. Len(rs), NEW day,
         ListOf(list, rs, n - 1, day), ~IsRecent(rs[n], day)
  PROVE  ListOf(list, rs, n, day)
<1>1. PICK index \in [1 .. Len(list) -> 1 .. n - 1] :
           /\ \A j, k \in 1 .. Len(list) : j < k => index[j] < index[k]
           /\ \A k \in 1 .. Len(list) : list[k] = rs[index[k]]
           /\ \A i \in 1 .. n - 1 :
                (\E k \in 1 .. Len(list) : index[k] = i) <=> IsRecent(rs[i], day)
  BY DEF ListOf
<1>2. \A k \in 1 .. Len(list) : index[k] \in 1 .. n - 1 /\ index[k] # n
  OBVIOUS
<1>3. index \in [1 .. Len(list) -> 1 .. n]
  BY <1>2
<1>4. ASSUME NEW i \in 1 .. n
      PROVE  (\E k \in 1 .. Len(list) : index[k] = i) <=> IsRecent(rs[i], day)
  <2>1. CASE i = n
    BY <1>2, <2>1
  <2>2. CASE i \in 1 .. n - 1
    BY <1>1, <2>2
  <2>. QED BY <2>1, <2>2
<1>. QED BY <1>1, <1>3, <1>4 DEF ListOf

(* What the date arithmetic says of a row is what its day says. *)
LEMMA RowTells ==
  ASSUME NEW r \in Rows, NEW d \in CalendarDates, NEW base \in Int, NEW day \in Int,
         day = DayNumber(d) - base, ValidDate(r.stamp), RowCounted(r, base)
  PROVE  InLast14Days(r.stamp, d) <=> IsRecent(r, day)
<1>. DEFINE stamp == r.stamp
            number == DayNumber(stamp)
            today0 == DayNumber(d)
            age == r.day
<1>1. stamp \in CalendarDates /\ age = number - base
  BY DEF RowCounted
<1>2. InLast14Days(stamp, d) <=> today0 - number \in 0 .. 14
  BY <1>1, NearDates
<1>3. number \in Int /\ today0 \in Int
  BY <1>1, DateFields
<1>4. IsRecent(r, day) <=> age <= day /\ day - age <= 14
  BY DEF IsRecent
<1>5. day = today0 - base
  OBVIOUS
<1>. HIDE DEF stamp, number, today0, age
<1>. QED BY <1>1, <1>2, <1>3, <1>4, <1>5 DEF stamp
-------------------------------------------------------------------------------
(* The steps *)

LEMMA HistoryStart == Init => HistoryInv
<1>. SUFFICES ASSUME Init PROVE HistoryInv
  OBVIOUS
<1>1. today \in EarlyDates /\ today.year + MaxSpans <= 9999
  <2>1. /\ today \in [day : 1 .. 31, mon : 1 .. 12, year : 1800 .. 9999 - MaxSpans]
        /\ ValidDate(today)
    BY DaysQueryAssumption DEF Init
  <2>2. today.day <= LastDay(today.mon, today.year)
    BY <2>1 DEF ValidDate
  <2>. DEFINE y == today.year
  <2>3. y \in 1800 .. 9999 - MaxSpans /\ MaxSpans \in Nat
    BY <2>1, DaysQueryAssumption
  <2>. HIDE DEF y
  <2>4. y \in 1800 .. 10000
    BY <2>3
  <2>5. y <= 9999 /\ y + MaxSpans <= 9999
    BY <2>3
  <2>6. today \in [day : 1 .. 31, mon : 1 .. 12, year : 1800 .. 10000]
    BY <2>1, <2>4 DEF y
  <2>. QED BY <2>2, <2>5, <2>6 DEF y, EarlyDates, CalendarDates, Years
<1>2. CalendarInv
  BY <1>1, DaysQueryAssumption DEF Init, CalendarInv
<1>3. CountInv
  <2>. DEFINE base == DayNumber(today)
  <2>1. base \in Int
    BY <1>1, DateFields DEF EarlyDates
  <2>2. base - base = 0
    BY <2>1
  <2>3. Counted(base)
    BY <2>2 DEF Init, Counted, RowsCounted
  <2>. QED BY <2>1, <2>3 DEF CountInv
<1>4. ListInv
  BY DEF Init, ListInv
<1>. QED BY <1>2, <1>3, <1>4 DEF HistoryInv

(* The date advances by the days that the clock does. *)
LEMMA Advance ==
  ASSUME HistoryInv, NEW n \in Nat,
         today' \in CalendarDates, today'.year \in {today.year, today.year + 1},
         DayNumber(today') = DayNumber(today) + n, clock' = clock + n,
         spans < MaxSpans, spans' = spans + 1,
         UNCHANGED <<rows, requestVars, pc, result, row, json, answer>>
  PROVE  HistoryInv'
<1>1. today' \in EarlyDates /\ spans' \in 0 .. MaxSpans /\ today'.year + (MaxSpans - spans') <= 9999
  <2>. DEFINE y == today.year
              z == today'.year
  <2>1. y \in Nat /\ z \in Nat
    <3>1. today \in CalendarDates
      BY DEF HistoryInv, CalendarInv, EarlyDates
    <3>. QED BY <3>1, DateFields
  <2>2. z = y \/ z = y + 1
    OBVIOUS
  <2>3. /\ spans \in 0 .. MaxSpans /\ y + (MaxSpans - spans) <= 9999
        /\ spans < MaxSpans /\ spans' = spans + 1 /\ MaxSpans \in Nat
    BY DaysQueryAssumption DEF HistoryInv, CalendarInv
  <2>. HIDE DEF y, z
  <2>4. spans' \in 0 .. MaxSpans /\ z + (MaxSpans - spans') <= 9999
    BY <2>1, <2>2, <2>3
  <2>5. z <= 9999
    BY <2>1, <2>3, <2>4
  <2>. QED BY <2>4, <2>5 DEF z, EarlyDates
<1>2. CalendarInv'
  <2>1. clock' \in Nat /\ asked' \in 0 .. clock'
    BY DEF HistoryInv, CalendarInv, requestVars
  <2>. QED BY <1>1, <2>1 DEF HistoryInv, CalendarInv, requestVars
<1>3. CountInv'
  <2>1. PICK base \in Int : Counted(base)
    BY DEF HistoryInv, CountInv
  <2>2. DayNumber(today) \in Int /\ clock \in Int
    BY DateFields DEF HistoryInv, CalendarInv, EarlyDates
  <2>3. clock' = DayNumber(today') - base
    BY <2>1, <2>2 DEF Counted
  <2>4. Counted(base)'
    BY <2>1, <2>3 DEF Counted, requestVars
  <2>. QED BY <2>4 DEF CountInv
<1>4. ListInv'
  BY DEF HistoryInv, ListInv, requestVars
<1>. QED BY <1>2, <1>3, <1>4 DEF HistoryInv

LEMMA DaysPassStep ==
  ASSUME HistoryInv, NEW n \in Spans, DaysPass(n)
  PROVE  HistoryInv'
<1>1. n \in 1 .. 28 /\ today \in EarlyDates
  BY DaysQueryAssumption DEF HistoryInv, CalendarInv
<1>2. /\ After(today, n) \in CalendarDates /\ DayNumber(After(today, n)) = DayNumber(today) + n
      /\ After(today, n).year \in {today.year, today.year + 1}
  BY <1>1, AfterDate
<1>3. n \in Nat
  BY <1>1
<1>. QED BY <1>2, <1>3, Advance DEF DaysPass

LEMMA YearPassesStep ==
  ASSUME HistoryInv, YearPasses
  PROVE  HistoryInv'
<1>. DEFINE n == IF IsLeap(IF today.mon <= 2 THEN today.year ELSE today.year + 1) THEN 366 ELSE 365
<1>1. today \in EarlyDates
  BY DEF HistoryInv, CalendarInv
<1>2. /\ today' \in CalendarDates /\ today'.year = today.year + 1
      /\ DayNumber(today') = DayNumber(today) + n
  BY <1>1, YearDate DEF YearPasses
<1>3. n \in Nat
  OBVIOUS
<1>4. clock' = clock + n
  BY DEF YearPasses
<1>. HIDE DEF n
<1>. QED BY <1>2, <1>3, <1>4, Advance DEF YearPasses

(* A row whose day is that of its stamp. *)
LEMMA RowAdded ==
  ASSUME HistoryInv, NEW stamp \in CalendarDates \cup InvalidDates, NEW day \in Int, AddRow(stamp, day),
         \A base \in Int : Counted(base) => RowCounted([stamp |-> stamp, day |-> day], base)
  PROVE  HistoryInv'
<1>. DEFINE r == [stamp |-> stamp, day |-> day]
<1>1. r \in Rows
  BY DEF Rows
<1>2. /\ rows' = Append(rows, r) /\ Len(rows) < MaxRows
      /\ UNCHANGED <<clock, today, spans, requestVars, pc, result, row, json, answer>>
  BY DEF AddRow
<1>3. rows \in Seq(Rows) /\ Len(rows) \in Nat /\ MaxRows \in Nat
  BY DaysQueryAssumption DEF HistoryInv, CalendarInv
<1>4. \A base \in Int : Counted(base) => RowCounted(r, base)
  OBVIOUS
<1>. HIDE DEF r
<1>5. rows' \in Seq(Rows) /\ Len(rows') = Len(rows) + 1 /\ Len(rows') <= MaxRows
  BY <1>1, <1>2, <1>3
<1>6. CalendarInv'
  BY <1>2, <1>5 DEF HistoryInv, CalendarInv, requestVars
<1>7. CountInv'
  <2>1. PICK base \in Int : Counted(base)
    BY DEF HistoryInv, CountInv
  <2>2. RowsCounted(rows', base)
    <3>. SUFFICES ASSUME NEW i \in 1 .. Len(rows') PROVE RowCounted(rows'[i], base)
      BY DEF RowsCounted
    <3>1. CASE i = Len(rows) + 1
      <4>1. rows'[i] = r
        BY <1>2, <1>3, <3>1
      <4>. QED BY <1>4, <2>1, <4>1
    <3>2. CASE i \in 1 .. Len(rows)
      <4>1. rows'[i] = rows[i]
        BY <1>2, <1>3, <3>2
      <4>. QED BY <2>1, <3>2, <4>1 DEF Counted, RowsCounted
    <3>. QED BY <1>3, <1>5, <3>1, <3>2
  <2>3. Counted(base)'
    BY <1>2, <2>1, <2>2 DEF Counted, RowsCounted, requestVars
  <2>. QED BY <2>3 DEF CountInv
<1>8. ListInv'
  BY <1>2 DEF HistoryInv, ListInv, requestVars
<1>. QED BY <1>6, <1>7, <1>8 DEF HistoryInv

LEMMA ReportStep ==
  ASSUME HistoryInv, Report
  PROVE  HistoryInv'
<1>1. today \in EarlyDates /\ today \in CalendarDates /\ clock \in Int
  BY DEF HistoryInv, CalendarInv, EarlyDates
<1>2. DayNumber(today) \in Int
  BY <1>1, DateFields
<1>3. CASE AddRow(today, clock)
  <2>1. \A base \in Int : Counted(base) => RowCounted([stamp |-> today, day |-> clock], base)
    BY <1>1 DEF Counted, RowCounted
  <2>. QED BY <1>1, <1>3, <2>1, RowAdded
<1>4. CASE AddRow(After(today, 1), clock + 1)
  <2>1. After(today, 1) \in CalendarDates /\ DayNumber(After(today, 1)) = DayNumber(today) + 1
    BY <1>1, AfterDate
  <2>. DEFINE stamp == After(today, 1)
              day == clock + 1
  <2>2. stamp \in CalendarDates \cup InvalidDates /\ day \in Int /\ AddRow(stamp, day)
    BY <1>1, <1>4, <2>1
  <2>3. \A base \in Int : Counted(base) => RowCounted([stamp |-> stamp, day |-> day], base)
    <3>. SUFFICES ASSUME NEW base \in Int, Counted(base)
                  PROVE  stamp \in CalendarDates /\ day = DayNumber(stamp) - base
      BY DEF RowCounted
    <3>1. clock = DayNumber(today) - base
      BY DEF Counted
    <3>. QED BY <1>1, <1>2, <2>1, <3>1
  <2>. HIDE DEF stamp, day
  <2>. QED BY <2>2, <2>3, RowAdded
<1>. QED BY <1>3, <1>4 DEF Report

LEMMA ReportInvalidStep ==
  ASSUME HistoryInv, ReportInvalid
  PROVE  HistoryInv'
<1>1. PICK d \in InvalidDates : AddRow(d, clock)
  BY DEF ReportInvalid
<1>2. ~ValidDate(d) /\ clock \in Int
  BY DaysQueryAssumption DEF HistoryInv, CalendarInv
<1>3. \A base \in Int : Counted(base) => RowCounted([stamp |-> d, day |-> clock], base)
  BY <1>2 DEF RowCounted
<1>. QED BY <1>1, <1>2, <1>3, RowAdded

LEMMA QueryBegins ==
  ASSUME HistoryInv, Query
  PROVE  HistoryInv'
<1>1. CalendarInv'
  BY DEF HistoryInv, CalendarInv, Query, databaseVars
<1>2. CountInv'
  <2>1. PICK base \in Int : Counted(base)
    BY DEF HistoryInv, CountInv
  <2>2. Counted(base)'
    BY <2>1 DEF Counted, Query, databaseVars
  <2>. QED BY <2>2 DEF CountInv
<1>3. ListInv'
  BY DEF HistoryInv, ListInv, Query
<1>. QED BY <1>1, <1>2, <1>3 DEF HistoryInv

(* The steps that change neither the database nor the request. *)
LEMMA SameCount ==
  ASSUME HistoryInv, UNCHANGED <<databaseVars, requestVars, result>>
  PROVE  CalendarInv' /\ CountInv'
<1>1. CalendarInv'
  BY DEF HistoryInv, CalendarInv, databaseVars, requestVars
<1>2. PICK base \in Int : Counted(base)
  BY DEF HistoryInv, CountInv
<1>3. Counted(base)'
  BY <1>2 DEF Counted, databaseVars, requestVars
<1>. QED BY <1>1, <1>3 DEF CountInv

LEMMA ExecuteStep ==
  ASSUME HistoryInv, Execute
  PROVE  HistoryInv'
<1>1. CalendarInv'
  BY DEF HistoryInv, CalendarInv, Execute, databaseVars, requestVars
<1>2. CountInv'
  <2>1. PICK base \in Int : Counted(base)
    BY DEF HistoryInv, CountInv
  <2>2. Counted(base)'
    BY <2>1 DEF Counted, Execute, databaseVars, requestVars
  <2>. QED BY <2>2 DEF CountInv
<1>3. json' = << >> /\ row' = 1 /\ pc' = "fetch" /\ answer' = "none" /\ result' \in Seq(Rows)
  BY DEF HistoryInv, CalendarInv, ListInv, Execute
<1>4. ListOf(json', result', 0, asked')
  BY <1>3, NothingListed
<1>5. json' \in Seq(Rows) /\ Len(json') = 0 /\ row' - 1 = 0 /\ row' \in 1 .. Len(result') + 1
  BY <1>3
<1>6. ListInv'
  BY <1>3, <1>4, <1>5 DEF ListInv
<1>. QED BY <1>1, <1>2, <1>6 DEF HistoryInv

(* The row to fetch is of a date, and so the day of the row decides. *)
LEMMA FetchedTells ==
  ASSUME HistoryInv, FetchedDate, ValidDate(result[row].stamp)
  PROVE  /\ row \in 1 .. Len(result) /\ result[row] \in Rows
         /\ InLast14Days(result[row].stamp, date) <=> IsRecent(result[row], asked)
<1>1. row \in 1 .. Len(result) /\ result[row] \in Rows
  BY DEF HistoryInv, CalendarInv, ListInv, FetchedDate
<1>2. PICK base \in Int : Counted(base)
  BY DEF HistoryInv, CountInv
<1>3. RowCounted(result[row], base) /\ asked = DayNumber(date) - base
  BY <1>1, <1>2 DEF Counted, RowsCounted
<1>4. date \in CalendarDates /\ asked \in Int
  BY DEF HistoryInv, CalendarInv, EarlyDates
<1>. DEFINE r == result[row]
<1>5. r \in Rows /\ ValidDate(r.stamp) /\ RowCounted(r, base)
  BY <1>1, <1>3
<1>. HIDE DEF r
<1>6. InLast14Days(r.stamp, date) <=> IsRecent(r, asked)
  BY <1>3, <1>4, <1>5, RowTells
<1>. QED BY <1>1, <1>6 DEF r

LEMMA KeepRowStep ==
  ASSUME HistoryInv, KeepRow
  PROVE  HistoryInv'
<1>1. CalendarInv' /\ CountInv'
  BY SameCount DEF KeepRow
<1>2. /\ row \in 1 .. Len(result) /\ result[row] \in Rows /\ IsRecent(result[row], asked)
      /\ pc = "fetch" /\ row' = row + 1
  BY FetchedTells DEF KeepRow, FetchedDate
<1>3. /\ json \in Seq(Rows) /\ result \in Seq(Rows) /\ Len(json) < row
      /\ ListOf(json, result, row - 1, asked) /\ answer = "none"
  BY <1>2 DEF HistoryInv, CalendarInv, ListInv
<1>4. ListOf(Append(json, result[row]), result, row, asked)
  BY <1>2, <1>3, RowKept
<1>5. /\ json' = Append(json, result[row]) /\ pc' = pc /\ result' = result /\ answer' = answer
      /\ asked' = asked
  BY DEF KeepRow, requestVars
<1>6. ListOf(json', result', row, asked')
  BY <1>4, <1>5
<1>7. row' - 1 = row /\ row' \in 1 .. Len(result') + 1 /\ Len(json') < row' /\ json' \in Seq(Rows)
  BY <1>2, <1>3, <1>5
<1>8. ListOf(json', result', row' - 1, asked')
  BY <1>6, <1>7
<1>9. ListInv'
  BY <1>2, <1>3, <1>5, <1>7, <1>8 DEF ListInv
<1>. QED BY <1>1, <1>9 DEF HistoryInv

LEMMA DropRowStep ==
  ASSUME HistoryInv, DropRow
  PROVE  HistoryInv'
<1>1. CalendarInv' /\ CountInv'
  BY SameCount DEF DropRow
<1>2. /\ row \in 1 .. Len(result) /\ ~IsRecent(result[row], asked) /\ pc = "fetch" /\ row' = row + 1
  BY FetchedTells DEF DropRow, FetchedDate
<1>3. /\ json \in Seq(Rows) /\ result \in Seq(Rows) /\ Len(json) < row
      /\ ListOf(json, result, row - 1, asked) /\ answer = "none"
  BY <1>2 DEF HistoryInv, CalendarInv, ListInv
<1>4. ListOf(json, result, row, asked)
  BY <1>2, <1>3, RowDropped
<1>5. json' = json /\ pc' = pc /\ result' = result /\ answer' = answer /\ asked' = asked
  BY DEF DropRow, requestVars
<1>6. ListOf(json', result', row, asked')
  BY <1>4, <1>5
<1>7. row' - 1 = row /\ row' \in 1 .. Len(result') + 1 /\ Len(json') < row' /\ json' \in Seq(Rows)
  BY <1>2, <1>3, <1>5
<1>8. ListOf(json', result', row' - 1, asked')
  BY <1>6, <1>7
<1>9. ListInv'
  BY <1>2, <1>3, <1>5, <1>7, <1>8 DEF ListInv
<1>. QED BY <1>1, <1>9 DEF HistoryInv

LEMMA PrintListStep ==
  ASSUME HistoryInv, PrintList
  PROVE  HistoryInv'
<1>1. CalendarInv' /\ CountInv'
  BY SameCount DEF PrintList
<1>2. ListOf(json, result, row - 1, asked)
  BY DEF HistoryInv, ListInv, PrintList
<1>3. ListInv'
  BY <1>2 DEF HistoryInv, ListInv, PrintList, Return, requestVars
<1>. QED BY <1>1, <1>3 DEF HistoryInv

(* The requests that end without a list. *)
LEMMA FailingStep ==
  ASSUME HistoryInv, DatabaseFails \/ FetchInvalidRow
  PROVE  HistoryInv'
<1>1. CalendarInv' /\ CountInv'
  BY SameCount DEF DatabaseFails, FetchInvalidRow
<1>2. CASE DatabaseFails
  <2>1. ListInv'
    BY <1>2 DEF HistoryInv, ListInv, DatabaseFails, Return
  <2>. QED BY <1>1, <2>1 DEF HistoryInv
<1>3. CASE FetchInvalidRow
  <2>1. row' \in 1 .. Len(result) + 1
    BY <1>3 DEF HistoryInv, CalendarInv, ListInv, FetchInvalidRow, FetchedDate
  <2>2. ListInv'
    BY <1>3, <2>1 DEF HistoryInv, ListInv, FetchInvalidRow, Return
  <2>. QED BY <1>1, <2>2 DEF HistoryInv
<1>. QED BY <1>2, <1>3

LEMMA HistoryStep == HistoryInv /\ [Next]_vars => HistoryInv'
<1>. SUFFICES ASSUME HistoryInv, [Next]_vars PROVE HistoryInv'
  OBVIOUS
<1>1. CASE \E n \in Spans : DaysPass(n)
  BY <1>1, DaysPassStep
<1>2. CASE YearPasses
  BY <1>2, YearPassesStep
<1>3. CASE Report
  BY <1>3, ReportStep
<1>4. CASE ReportInvalid
  BY <1>4, ReportInvalidStep
<1>5. CASE Query
  BY <1>5, QueryBegins
<1>6. CASE Execute
  BY <1>6, ExecuteStep
<1>7. CASE KeepRow
  BY <1>7, KeepRowStep
<1>8. CASE DropRow
  BY <1>8, DropRowStep
<1>9. CASE PrintList
  BY <1>9, PrintListStep
<1>10. CASE DatabaseFails \/ FetchInvalidRow
  BY <1>10, FailingStep
<1>11. CASE UNCHANGED vars
  <2>1. CalendarInv' /\ CountInv'
    BY <1>11, SameCount DEF vars
  <2>2. ListInv'
    BY <1>11 DEF HistoryInv, ListInv, vars, requestVars
  <2>. QED BY <2>1, <2>2 DEF HistoryInv
<1>. QED BY <1>1, <1>2, <1>3, <1>4, <1>5, <1>6, <1>7, <1>8, <1>9, <1>10, <1>11 DEF Next, QueryStep

-------------------------------------------------------------------------------
(* The theorems *)

(* The clock counts the days of the calendar, the day of every stored row is
   the one its stamp names, and the list of a running query holds the recent
   ones of the rows fetched so far, in their order.                           *)
THEOREM HistoryInvariant == Spec => []HistoryInv
BY HistoryStart, HistoryStep, PTL DEF Spec

(* A date that passes the three tests of valid_date is one it accepts. *)
LEMMA DateIsValid ==
  ASSUME NEW d, d.year \in 1800 .. 9999, d.mon \in 1 .. 12,
         d.day <= LastDay(d.mon, d.year)
  PROVE  ValidDate(d)
BY DEF ValidDate

(* A history of the right type, with a date that valid_date accepts. *)
THEOREM HistoryTypeCorrect == Spec => []TypeOK
<1>1. HistoryInv => TypeOK
  <2>. SUFFICES ASSUME HistoryInv PROVE TypeOK
    OBVIOUS
  <2>1. ValidDate(today) /\ today.day >= 1
    <3>. DEFINE k == today.day
                y == today.year
    <3>1. /\ k \in 1 .. 31 /\ y \in Years /\ y <= 9999
          /\ today.mon \in 1 .. 12 /\ k <= LastDay(today.mon, y)
      BY DateFields DEF HistoryInv, CalendarInv, EarlyDates
    <3>. HIDE DEF k, y
    <3>2. y \in 1800 .. 9999
      BY <3>1 DEF Years
    <3>3. k >= 1
      BY <3>1
    <3>4. today.year \in 1800 .. 9999
      BY <3>2 DEF y
    <3>5. today.mon \in 1 .. 12 /\ today.day <= LastDay(today.mon, today.year) /\ today.day >= 1
      BY <3>1, <3>3 DEF k, y
    <3>6. ValidDate(today)
      BY <3>4, <3>5, DateIsValid
    <3>. QED BY <3>5, <3>6
  <2>2. row \in 1 .. MaxRows + 1
    <3>1. Len(result) \in Nat /\ Len(result) <= MaxRows /\ MaxRows \in Nat /\ row \in 1 .. Len(result) + 1
      BY DaysQueryAssumption DEF HistoryInv, CalendarInv, ListInv
    <3>. QED BY <3>1
  <2>. QED BY <2>1, <2>2 DEF HistoryInv, CalendarInv, ListInv, TypeOK
<1>. QED BY <1>1, HistoryInvariant, PTL

(* The history answered to a client is the rows that could be fetched and are of
   the day of the client's date or of the 14 days before, all of them and in the
   database's order: the borrowing of getDateDifference agrees with the calendar on
   every pair of dates that the rule can accept.                              *)
THEOREM HistoryIsExact == Spec => []HistoryExact
<1>1. HistoryInv => HistoryExact
  <2>. SUFFICES ASSUME HistoryInv, answer = "json"
                PROVE  \E index \in [1 .. Len(json) -> Fetched] :
      /\ \A j, k \in 1 .. Len(json) : j < k => index[j] < index[k]
      /\ \A k \in 1 .. Len(json) : json[k] = result[index[k]]
      /\ \A i \in Fetched :
           (\E k \in 1 .. Len(json) : index[k] = i) <=> Recent(result[i])
    BY DEF HistoryExact
  <2>1. ListOf(json, result, row - 1, asked)
    BY DEF HistoryInv, ListInv
  <2>2. \A r : IsRecent(r, asked) <=> Recent(r)
    BY DEF IsRecent, Recent
  <2>. QED BY <2>1, <2>2, Zenon DEF ListOf, Fetched
<1>. QED BY <1>1, HistoryInvariant, PTL
===============================================================================
