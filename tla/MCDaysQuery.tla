------------------------------ MODULE MCDaysQuery ------------------------------
(* DaysQuery for TLC: days in the middle and at the end of months around two
   ends of February, one of a leap year, and two ends of a year, with spans that
   lead to both sides of 14 days and of a month.                              *)
EXTENDS DaysQuery

MCStartDates ==
  {d \in [day : {1, 15, 28, 29, 31}, mon : {1, 2, 3, 11, 12}, year : {2019, 2020}]
       \cup [day : {30}, mon : {4, 6, 8, 9, 10}, year : {2020}] : ValidDate(d)}
MCInvalidDates == {[day |-> 0, mon |-> 0, year |-> 0]}

===============================================================================
