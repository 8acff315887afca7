------------------------------- MODULE DaysQuery -------------------------------
(***************************************************************************)
(* A user's history: getUserPotholesBy14DaysJson of Server/logic.c over    *)
(* the rows of one user, which phones add as the days pass.  The database, *)
(* the calendar and the phones are external.  Days are also counted, in    *)
(* clock, so that the age of a row can be told without any date arithmetic.*)
(***************************************************************************)
EXTENDS Dates, Sequences

CONSTANTS
  StartDates,     (* the dates on which the clock may start                *)
  Spans,          (* the numbers of days, up to 28, that may pass at once  *)
  MaxSpans,       (* bound: how often such a number, or a year, passes,
                     within the years that valid_date knows                *)
  MaxRows,        (* bound: rows of the user                               *)
  InvalidDates,   (* stamps that are no dates, from other clients          *)
  MaxQueries      (* bound: queries of the user                            *)

ASSUME DaysQueryAssumption ==
  /\ StartDates \subseteq {d \in [day : 1 .. 31, mon : 1 .. 12, year : 1800 .. 9999 - MaxSpans] :
                              ValidDate(d)}
  /\ \A d \in InvalidDates : ~ValidDate(d)
  /\ Spans \subseteq 1 .. 28
  /\ MaxSpans \in Nat /\ MaxRows \in Nat /\ MaxQueries \in Nat

VARIABLES
  clock, today,   (* days since the start, and the date                    *)
  spans,          (* how often days have passed                            *)
  rows,           (* the rows of the user                                  *)
  pc, queries,
  date, asked,    (* the date the client sent, and the clock at that time  *)
  result, row,    (* the rows the database selected, and the one to fetch  *)
  json,           (* the rows in the list so far                           *)
  answer          (* what the caller is left with: nothing yet, NULL, the
                     text of json, or a pointer nothing was assigned to    *)

databaseVars == <<clock, today, spans, rows>>
requestVars == <<queries, date, asked>>
vars == <<databaseVars, requestVars, pc, result, row, json, answer>>

Init ==
  /\ clock = 0 /\ today \in StartDates /\ spans = 0
  /\ rows = <<>>
  /\ pc = "idle" /\ queries = 0 /\ date = today /\ asked = 0
  /\ result = <<>> /\ row = 1 /\ json = <<>> /\ answer = "none"

-------------------------------------------------------------------------------
(* The calendar and the phones *)

(* The date n days, at most a month, after d. *)
After(d, n) ==
  IF d.day + n <= LastDay(d.mon, d.year) THEN [d EXCEPT !.day = @ + n]
  ELSE [day  |-> d.day + n - LastDay(d.mon, d.year),
        mon  |-> IF d.mon = 12 THEN 1 ELSE d.mon + 1,
        year |-> IF d.mon = 12 THEN d.year + 1 ELSE d.year]

DaysPass(n) ==
  /\ spans < MaxSpans
  /\ spans' = spans + 1
  /\ clock' = clock + n /\ today' = After(today, n)
  /\ UNCHANGED <<rows, requestVars, pc, result, row, json, answer>>

(* A year passes, with a leap day in it or not. *)
YearPasses ==
  /\ spans < MaxSpans
  /\ ~(today.mon = 2 /\ today.day = 29)
  /\ spans' = spans + 1
  /\ today' = [today EXCEPT !.year = @ + 1]
  /\ clock' = clock + IF IsLeap(IF today.mon <= 2 THEN today.year ELSE today.year + 1)
                        THEN 366 ELSE 365
  /\ UNCHANGED <<rows, requestVars, pc, result, row, json, answer>>

AddRow(stamp, day) ==
  /\ Len(rows) < MaxRows
  /\ rows' = Append(rows, [stamp |-> stamp, day |-> day])
  /\ UNCHANGED <<clock, today, spans, requestVars, pc, result, row, json,
                 answer>>

(* A report of today, or from a phone whose date is a day ahead. *)
Report == AddRow(today, clock) \/ AddRow(After(today, 1), clock + 1)

(* reportPothole stores any stamp it is given. *)
ReportInvalid == \E d \in InvalidDates : AddRow(d, clock)

-------------------------------------------------------------------------------
(* The query *)

Query ==
  /\ pc = "idle" /\ queries < MaxQueries
  /\ queries' = queries + 1
  /\ date' = today /\ asked' = clock
  /\ answer' = "none"
  /\ pc' = "execute"
  /\ UNCHANGED <<databaseVars, result, row, json>>

Return(value) == pc' = "idle" /\ answer' = value

(* The connection, or one of the calls that prepare and execute the statement,
   fails.                                                                      *)
DatabaseFails ==
  /\ pc = "execute"
  /\ Return("null")
  /\ UNCHANGED <<databaseVars, requestVars, result, row, json>>

(* Mutant of Execute: the list of the last query is kept. *)
ExecuteKeepingList ==
  /\ pc = "execute"
  /\ result' = rows /\ row' = 1
  /\ pc' = "fetch"
  /\ UNCHANGED <<databaseVars, requestVars, json, answer>>

(* The statement selects the rows there are at this time. *)
Execute ==
  /\ pc = "execute"
  /\ result' = rows /\ row' = 1 /\ json' = <<>>
  /\ pc' = "fetch"
  /\ UNCHANGED <<databaseVars, requestVars, answer>>

(* mysql_stmt_fetch returns 0: there is a row, and it fits its buffers. *)
FetchedDate == pc = "fetch" /\ row <= Len(result) /\ row' = row + 1

KeepRow ==
  /\ FetchedDate
  /\ ValidDate(result[row].stamp) /\ ValidDate(date)
  /\ InLast14Days(result[row].stamp, date)
  /\ json' = Append(json, result[row])
  /\ UNCHANGED <<databaseVars, requestVars, pc, result, answer>>

DropRow ==
  /\ FetchedDate
  /\ ValidDate(result[row].stamp) /\ ValidDate(date)
  /\ ~InLast14Days(result[row].stamp, date)
  /\ UNCHANGED <<databaseVars, requestVars, pc, result, json, answer>>

(* An invalid date jumps over the assignment of json_string. *)
FetchInvalidRow ==
  /\ FetchedDate
  /\ ~(ValidDate(result[row].stamp) /\ ValidDate(date))
  /\ Return("unassigned")
  /\ UNCHANGED <<databaseVars, requestVars, result, json>>

(* mysql_stmt_fetch returns something else, which ends the loop: no row is left,
   or the next one cannot be fetched or is longer than its buffer
   (MYSQL_DATA_TRUNCATED).  The list so far is printed in each case.           *)
PrintList ==
  /\ pc = "fetch"
  /\ Return("json")
  /\ UNCHANGED <<databaseVars, requestVars, result, row, json>>

-------------------------------------------------------------------------------

QueryStep ==
  Query \/ DatabaseFails \/ Execute \/ KeepRow \/ DropRow \/ FetchInvalidRow
        \/ PrintList
Next ==
  (\E n \in Spans : DaysPass(n)) \/ YearPasses \/ Report \/ ReportInvalid \/ QueryStep

Spec == Init /\ [][Next]_vars

-------------------------------------------------------------------------------
(* Properties *)

TypeOK ==
  /\ pc \in {"idle", "execute", "fetch"}
  /\ answer \in {"none", "null", "json", "unassigned"}
  /\ row \in 1 .. MaxRows + 1
  /\ Len(rows) <= MaxRows /\ Len(result) <= MaxRows /\ (pc = "fetch" => Len(json) < row)
  /\ clock \in Nat /\ asked \in 0 .. clock
  /\ ValidDate(today) /\ today.day >= 1

Recent(r) == r.day <= asked /\ asked - r.day <= 14

(* The rows that were fetched for the answer: all of the result, or its beginning
   up to a row whose fetch failed.                                             *)
Fetched == 1 .. row - 1

(* The answer to a query is the rows of the last 14 days before the client's
   date among those that were fetched, all of these and of no other day, in the
   order of the result, whatever months, leap days and years the borrowing has to
   cross, and whatever is reported or however the date changes while the query
   runs.  A failed fetch cuts the list short, and only there.                  *)
HistoryExact ==
  answer = "json" =>
    \E index \in [1 .. Len(json) -> Fetched] :
      /\ \A j, k \in 1 .. Len(json) : j < k => index[j] < index[k]
      /\ \A k \in 1 .. Len(json) : json[k] = result[index[k]]
      /\ \A i \in Fetched :
           (\E k \in 1 .. Len(json) : index[k] = i) <=> Recent(result[i])

===============================================================================
