---------------------------- MODULE AttendanceDesk ----------------------------
(***************************************************************************)
(* The attendance page of an administrator over the attendance rows: it    *)
(* lists all rows page by page, newest id first, while punches and other   *)
(* administrators go on writing them; it previews the pay of the month     *)
(* from its list, and the preview is posted as the salary record.          *)
(* All rows are of one employee and one month.                             *)
(***************************************************************************)
EXTENDS Attendance, FiniteSets, Sequences

CONSTANT PageLimit  \* ATTENDANCE_PAGE_LIMIT

ASSUME PageLimitAssumption == PageLimit \in Nat \ {0}

VARIABLES list,     \* the rows the page has, as the last complete fetch gave them
          fetch,    \* the fetch under way: the next page, and what has come
          preview,  \* the rows of the preview
          posted,   \* the rows of the settlement under way
          monthly   \* the month's salary record: its attendance snapshot

deskVars == <<list, fetch, preview, posted, monthly>>

NoFetch == [page |-> 0, got |-> <<>>]

DeskInit ==
  /\ list = <<>> /\ fetch = [NoFetch EXCEPT !.page = 1] /\ preview = <<>>
  /\ posted = [at |-> "none", rows |-> <<>>] /\ monthly = <<>>

-----------------------------------------------------------------------------
(* Listing.                                                                *)

\* getTemporaryAttendancePage: order by id, newest first, offset and limit.  The
\* rows and the count are read at one instant; the code reads them side by side.
Newest ==
  CHOOSE q \in [1 .. Cardinality(rows) -> rows] : \A i, j \in DOMAIN q : i < j => q[i].id > q[j].id
PageOf(n) ==
  LET last == IF n * PageLimit < Cardinality(rows) THEN n * PageLimit ELSE Cardinality(rows)
  IN  SubSeq(Newest, (n - 1) * PageLimit + 1, last)
PagesNow == (Cardinality(rows) + PageLimit - 1) \div PageLimit

\* fetchAllAttendancePages goes on while page <= pages, as told by the last answer.
LastPage(n) == n >= PagesNow

\* The 30 s interval, or an invalidation after a write or a scan in this window:
\* what has come of a fetch under way is thrown away.
Restart ==
  /\ fetch' = [NoFetch EXCEPT !.page = 1]
  /\ UNCHANGED <<attendanceVars, list, preview, posted, monthly>>

FetchPage ==
  /\ fetch.page > 0
  /\ LET got == fetch.got \o PageOf(fetch.page) IN
     IF LastPage(fetch.page)
     THEN list' = got /\ fetch' = NoFetch
     ELSE fetch' = [fetch EXCEPT !.page = @ + 1, !.got = got] /\ UNCHANGED list
  /\ UNCHANGED <<attendanceVars, preview, posted, monthly>>

\* The list stays; the badge says so.
FetchFailed ==
  /\ fetch.page > 0 /\ fetch' = NoFetch
  /\ UNCHANGED <<attendanceVars, list, preview, posted, monthly>>

\* A punch, or a row added, edited or deleted on this page or another.
AttendanceWritten ==
  /\ AttendanceNext
  /\ UNCHANGED <<list, fetch, preview, posted, monthly>>

-----------------------------------------------------------------------------
(* Settling the month.                                                     *)

\* handleCalculateSalary: what the page lists; a finalized month is not listed.
CalculateSalary ==
  /\ list # <<>> /\ monthly = <<>> /\ preview' = list
  /\ UNCHANGED <<attendanceVars, list, fetch, posted, monthly>>

\* finalizeAndSave posts the preview once at a time.
FinalizeAndSave ==
  /\ preview # <<>> /\ posted.at = "none"
  /\ posted' = [at |-> "sent", rows |-> preview]
  /\ UNCHANGED <<attendanceVars, list, fetch, preview, monthly>>

Completed(r) == r.out # NoTime /\ r.in # r.out
End(r) == IF r.out < r.in THEN r.out + DayTicks ELSE r.out

ApartByStart(r, s) == r.in <= s.in \/ s.in <= r.in    \* mutant body: starts compared only
Apart(r, s) == End(r) <= s.in \/ End(s) <= r.in

\* createSalarySchema: rows of one date must be completed and not overlap.
ShiftsApart(snapshot) ==
  \A i, j \in DOMAIN snapshot :
    i < j /\ snapshot[i].date = snapshot[j].date =>
      /\ Completed(snapshot[i]) /\ Completed(snapshot[j])
      /\ Apart(snapshot[i], snapshot[j])

\* POST /api/salary-records: the snapshot is checked by itself, never against the
\* rows; the month takes one record.
ServeSettlement ==
  /\ posted.at = "sent"
  /\ IF ShiftsApart(posted.rows) /\ monthly = <<>>
     THEN monthly' = posted.rows /\ posted' = [posted EXCEPT !.at = "ok"]
     ELSE posted' = [posted EXCEPT !.at = "error"] /\ UNCHANGED monthly
  /\ UNCHANGED <<attendanceVars, list, fetch, preview>>

\* The request or its answer is lost.
SettlementLost ==
  /\ posted.at \in {"sent", "ok"} /\ posted' = [posted EXCEPT !.at = "error"]
  /\ UNCHANGED <<attendanceVars, list, fetch, preview, monthly>>

SettlementAnswered ==
  /\ posted.at \in {"ok", "error"}
  /\ posted' = [at |-> "none", rows |-> <<>>]
  /\ preview' = IF posted.at = "ok" THEN <<>> ELSE preview
  /\ UNCHANGED <<attendanceVars, list, fetch, monthly>>

\* The record is deleted in the history: the month is open again.
ReopenMonth ==
  /\ monthly # <<>> /\ monthly' = <<>>
  /\ UNCHANGED <<attendanceVars, list, fetch, preview, posted>>

DeskNext ==
  \/ Restart \/ FetchPage \/ FetchFailed \/ AttendanceWritten
  \/ CalculateSalary \/ FinalizeAndSave \/ ServeSettlement \/ SettlementLost
  \/ SettlementAnswered \/ ReopenMonth

-----------------------------------------------------------------------------
(* Properties.                                                             *)

DeskTypeOK ==
  /\ AttendanceTypeOK
  /\ \A s \in {list, preview, monthly} : s \in Seq(Row)
  /\ fetch \in [page : Nat, got : Seq(Row)]
  /\ posted \in [at : {"none", "sent", "ok", "error"}, rows : Seq(Row)]

\* No salary record counts a row twice.  A punch that arrives between two page
\* requests moves a row to the next page, so the page's list, and the preview made
\* from it, can hold it twice; the overlap check of the route must catch that for
\* open rows, empty shifts and overnight shifts alike.
NoRowPaidTwice ==
  \A i, j \in DOMAIN monthly : i # j => monthly[i] # monthly[j]
=============================================================================
