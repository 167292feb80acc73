------------------------------- MODULE ImportDesk -------------------------------
(***************************************************************************)
(* The CSV import dialog: a file of attendance rows, stored one statement  *)
(* per line, or the file of one settled month of one employee.  All salary *)
(* files are of one month.  A request whose answer is lost runs on in the  *)
(* server while the administrator imports again.                           *)
(***************************************************************************)
EXTENDS Integers, FiniteSets

CONSTANTS Staff,          \* the employees a salary file can be imported for
          ImportRequests, \* bound: requests under way at once
          MaxLines,       \* bound: lines of an attendance file
          MaxImports      \* bound: imports sent

ASSUME ImportAssumption ==
  MaxLines \in Nat /\ MaxImports \in Nat /\ IsFiniteSet(ImportRequests)

VARIABLES modal,   \* the dialog: its file, the employee chosen, the request awaited
          job,     \* request -> how far the server is with it
          copies,  \* attendance file -> line -> the rows stored from it
          records, \* the month's salary records: whose, and the file each came from
          told,    \* history: the attendance files reported as imported
          sent     \* bound: imports sent

importVars == <<modal, job, copies, records, told, sent>>

None == "none"  \* no employee or request
NoFile == [kind |-> "none"]

\* A line is one that parses or one that does not.
AttendanceFiles == [kind : {"attendance"}, lines : UNION {[1 .. n -> BOOLEAN] : n \in 1 .. MaxLines}]

\* A settled month names its employee, or nobody in the older format; one that was
\* corrected carries its revision.
SalaryFiles == [kind : {"salary"}, names : Staff \cup {None}, revised : BOOLEAN]

Closed == [file |-> NoFile, target |-> None, awaits |-> None]
IdleJob == [at |-> "idle"]

ImportInit ==
  /\ modal = Closed /\ job = [r \in ImportRequests |-> IdleJob]
  /\ copies = [f \in AttendanceFiles |-> [i \in DOMAIN f.lines |-> 0]]
  /\ records = {} /\ told = {} /\ sent = 0

-----------------------------------------------------------------------------
(* The dialog (CsvImportModal).                                            *)

\* The file's header passed; switching tabs empties the dialog first.
ChooseFile(f) ==
  /\ modal.awaits = None
  /\ modal.file.kind \in {"none", f.kind}
  /\ f.kind = "attendance" => modal.target = None
  /\ modal' = [modal EXCEPT !.file = f]
  /\ UNCHANGED <<job, copies, records, told, sent>>

ChooseTarget(p) ==
  /\ modal.awaits = None /\ modal.file.kind # "attendance"
  /\ modal' = [modal EXCEPT !.target = p]
  /\ UNCHANGED <<job, copies, records, told, sent>>

\* resetState, on closing or on another tab.
ResetState ==
  /\ modal.awaits = None /\ modal' = Closed
  /\ UNCHANGED <<job, copies, records, told, sent>>

\* parseAttendanceImportCsv: the lines that parse; they are stored in the order of
\* the file.
Parsed(f) == {i \in DOMAIN f.lines : f.lines[i]}
FirstLine(S) == CHOOSE i \in S : \A j \in S : i <= j

\* handleImport, one at a time; a salary file needs its employee.
HandleImport(r) ==
  /\ modal.file # NoFile /\ modal.awaits = None
  /\ modal.file.kind = "salary" => modal.target # None
  /\ job[r] = IdleJob /\ sent < MaxImports /\ sent' = sent + 1
  /\ modal' = [modal EXCEPT !.awaits = r]
  /\ job' = [job EXCEPT ![r] =
       IF modal.file.kind = "attendance"
       THEN [at |-> "store", file |-> modal.file, left |-> Parsed(modal.file)]
       ELSE [at |-> "check", file |-> modal.file, target |-> modal.target]]
  /\ UNCHANGED <<copies, records, told>>

\* The request or its answer is lost, or the page is loaded anew: the dialog
\* reports a failure and keeps its file; what reached the server runs on.
ImportLost ==
  /\ modal.awaits # None
  /\ \/ modal' = [modal EXCEPT !.awaits = None]
     \/ modal' = Closed
  /\ \/ UNCHANGED job
     \/ job' = [job EXCEPT ![modal.awaits] = IdleJob]
  /\ UNCHANGED <<copies, records, told, sent>>

\* An import that succeeded closes the dialog, one that failed keeps its file.
ImportAnswered ==
  LET r == modal.awaits IN
  /\ r # None /\ job[r].at \in {"ok", "error"}
  /\ job' = [job EXCEPT ![r] = IdleJob]
  /\ modal' = IF job[r].at = "ok" THEN Closed ELSE [modal EXCEPT !.awaits = None]
  /\ told' = IF job[r].at = "ok" /\ modal.file.kind = "attendance"
             THEN told \cup {modal.file} ELSE told
  /\ UNCHANGED <<copies, records, sent>>

-----------------------------------------------------------------------------
(* The server.                                                             *)

\* The request is over; its answer waits, or has nobody to take it.
Over(r, at) ==
  job' = [job EXCEPT ![r] = IF modal.awaits = r THEN [at |-> at] ELSE IdleJob]

InServer(r) == job[r].at \in {"store", "check", "create"}

\* Mutant: the loop logs a line that is not stored and goes on.
StopSkips(r) ==
  IF job[r].at = "store" /\ job[r].left # {}
  THEN job' = [job EXCEPT ![r].left = @ \ {FirstLine(@)}]
  ELSE InServer(r) /\ Over(r, "error")
Stop(r) == InServer(r) /\ Over(r, "error")

\* POST /api/admin/import/attendance: one insert after another, no transaction.
StoreLine(r) ==
  /\ job[r].at = "store"
  /\ IF job[r].left = {} THEN Over(r, "ok") /\ UNCHANGED copies
     ELSE LET i == FirstLine(job[r].left) IN
          /\ copies' = [copies EXCEPT ![job[r].file][i] = @ + 1]
          /\ job' = [job EXCEPT ![r].left = @ \ {i}]
  /\ UNCHANGED <<modal, records, told, sent>>

\* A statement fails or the server dies: what is stored stays.
StatementFails(r) ==
  /\ Stop(r)
  /\ UNCHANGED <<modal, copies, records, told, sent>>

Settled(p) == \E rec \in records : rec.of = p

\* POST /api/admin/import/salary-record: a corrected month, another employee's
\* month, and a month that is settled are refused.
CheckTarget(r) ==
  LET f == job[r].file p == job[r].target IN
  /\ job[r].at = "check"
  /\ IF f.revised \/ f.names \notin {None, p} \/ Settled(p)
     THEN Over(r, "error")
     ELSE job' = [job EXCEPT ![r].at = "create"]
  /\ UNCHANGED <<modal, copies, records, told, sent>>

\* The unique index of year, month and employee.
Unique(p) == ~Settled(p)

\* createSalaryRecord inserts, later than the check.
CreateImported(r) ==
  LET rec == [of |-> job[r].target, file |-> job[r].file] IN
  /\ job[r].at = "create"
  /\ IF Unique(rec.of)
     THEN records' = records \cup {rec} /\ Over(r, "ok")
     ELSE Over(r, "error") /\ UNCHANGED records
  /\ UNCHANGED <<modal, copies, told, sent>>

\* The month is settled in the ordinary way.
SettleMonth(p) ==
  /\ Unique(p) /\ records' = records \cup {[of |-> p, file |-> NoFile]}
  /\ UNCHANGED <<modal, job, copies, told, sent>>

ImportNext ==
  \/ \E f \in AttendanceFiles \cup SalaryFiles : ChooseFile(f)
  \/ \E p \in Staff : ChooseTarget(p) \/ SettleMonth(p)
  \/ ResetState \/ ImportLost \/ ImportAnswered
  \/ \E r \in ImportRequests :
       \/ HandleImport(r) \/ StoreLine(r) \/ StatementFails(r)
       \/ CheckTarget(r) \/ CreateImported(r)

-----------------------------------------------------------------------------
(* Properties.                                                             *)

ImportTypeOK ==
  /\ modal \in [file : AttendanceFiles \cup SalaryFiles \cup {NoFile},
                target : Staff \cup {None}, awaits : ImportRequests \cup {None}]
  /\ \A r \in ImportRequests :
       job[r].at \in {"idle", "store", "check", "create", "ok", "error"}
  /\ \A f \in AttendanceFiles : copies[f] \in [DOMAIN f.lines -> Nat]
  /\ told \subseteq AttendanceFiles /\ sent \in 0 .. MaxImports

\* A file reported as imported has every line that parses stored, and however
\* often an import broke off and was repeated, also beside one that ran on, no
\* line has more rows than a line before it: what an import that failed left
\* behind is a head of the file, never a file with a gap.
ImportedWhole ==
  \A f \in AttendanceFiles : \A i \in DOMAIN f.lines :
    f.lines[i] =>
      /\ f \in told => copies[f][i] > 0
      /\ \A j \in 1 .. i : f.lines[j] => copies[f][j] >= copies[f][i]

\* An employee's month has one salary record, and an imported one comes from a
\* file of that employee that was never corrected: the check is made before the
\* record is inserted, and another import or the settlement can come between.
OneRecordAMonth ==
  \A rec \in records :
    /\ \A other \in records : rec.of = other.of => rec = other
    /\ rec.file # NoFile => ~rec.file.revised /\ rec.file.names \in {None, rec.of}
=============================================================================
