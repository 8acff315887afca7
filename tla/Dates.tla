--------------------------------- MODULE Dates ---------------------------------
(***************************************************************************)
(* The date arithmetic of Server/utilities.c and the condition of          *)
(* Server/logic.c that decides which reports a user's history shows.       *)
(* A date is what atoi makes of the three fields of dd/MM/yyyy.            *)
(***************************************************************************)
EXTENDS Integers

IsLeap(year) == (year % 4 = 0 /\ year % 100 # 0) \/ year % 400 = 0

(* The longest valid_date lets a day be; a day has no lower bound there. *)
LastDay(mon, year) ==
  CASE mon = 2 -> IF IsLeap(year) THEN 29 ELSE 28
    [] mon \in {4, 6, 9, 11} -> 30
    [] OTHER -> 31

ValidDate(d) ==
  /\ d.year \in 1800 .. 9999
  /\ d.mon \in 1 .. 12
  /\ d.day <= LastDay(d.mon, d.year)

(* Mutant of Borrowed: the days of the date's own month. *)
BorrowedFromOwnMonth(d) == LastDay(d.mon, d.year)

(* The days a date borrows: those of the month before its own. *)
Borrowed(d) ==
  CASE d.mon = 3 -> IF IsLeap(d.year) THEN 29 ELSE 28
    [] d.mon \in {5, 7, 10, 12} -> 30
    [] OTHER -> 31

(* The difference from d1 to d2, both valid, as days, months and years. *)
DateDifference(d1, d2) ==
  LET borrow == d2.day < d1.day
      day == IF borrow THEN d2.day + Borrowed(d2) ELSE d2.day
      mon == IF borrow THEN d2.mon - 1 ELSE d2.mon
      wrap == mon < d1.mon
  IN  [days  |-> day - d1.day,
       mons  |-> (IF wrap THEN mon + 12 ELSE mon) - d1.mon,
       years |-> (IF wrap THEN d2.year - 1 ELSE d2.year) - d1.year]

(* Reported in the last 14 days. *)
InLast14Days(stamp, date) ==
  LET diff == DateDifference(stamp, date)
  IN  diff.days <= 14 /\ diff.mons = 0 /\ diff.years = 0

===============================================================================
