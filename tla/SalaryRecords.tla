--------------------------- MODULE SalaryRecords ---------------------------
(***************************************************************************)
(* The salary_records rows of one month, the append-only salary_corrections *)
(* journal, and everything that writes them except the monthly automation:  *)
(* manual settlement and CSV import, the two audited correction dialogs,    *)
(* deletion, and the retention rules for employees who left.                *)
(*                                                                          *)
(* A dialog may send its request several times (retry after an unknown      *)
(* outcome, another login) and a copy may arrive at any later time: `sent`  *)
(* keeps every request and the server may serve each any number of times.   *)
(*                                                                          *)
(* What a record says (amounts, attendance snapshot, name) is one stamp,    *)
(* new with each write that changes it.  While payroll writes are paused    *)
(* the server serves nothing of this module.                                *)
(***************************************************************************)
EXTENDS Integers

CONSTANTS
    Emps,      \* employees, as numbers in the order of their names
    Editors,   \* correction dialogs open at the same time
    AdminWrites,  \* which of "create" and "delete" administrators do by hand
    MaxStamp,  \* bound: writes of salary records explored
    MaxKeys    \* bound: dialogs opened

ASSUME EmpsAssumption == Emps \subseteq Nat \ {0}
ASSUME AdminWritesAssumption == AdminWrites \subseteq {"create", "delete"}
ASSUME SalaryBoundsAssumption == MaxStamp \in Nat /\ MaxKeys \in Nat

VARIABLES
    records,      \* salary_records of the month
    corrections,  \* salary_corrections
    stamp,        \* last stamp given to a record id or content
    sent,         \* correction requests sent so far
    expired,      \* keys whose preview token is older than ten minutes
    edit,         \* per dialog: its request and the answer it has
    lastKey       \* crypto.randomUUID, as a counter

recordVars == <<records, corrections, stamp>>
editVars == <<sent, expired, edit, lastKey>>
salaryVars == <<recordVars, editVars>>

NoEmp == 0   \* employee_id is null: the record has been anonymized
AnonymousContent == 0   \* what such a record says

(* `retained`: anonymized_at and retention_until are set.                   *)
SalaryRecord == [id : Nat, emp : Emps \cup {NoEmp}, rev : Nat, val : Nat, retained : BOOLEAN]
NewRecord(id, e) == [id |-> id, emp |-> e, rev |-> 0, val |-> id, retained |-> FALSE]

(* A correction request: the record and revision the dialog showed and what *)
(* it said, the key, the change asked for, the login it is sent under and   *)
(* the login its preview token was issued to.                               *)
Logins == {1, 2}
Changes == {1, 2}
Requests == [kind : {"holiday", "manual"}, rec : Nat, rev : Nat, seen : Nat, key : Nat,
             change : Changes, actor : Logins, previewer : Logins]
Request(kind, r, key) ==
    [kind |-> kind, rec |-> r.id, rev |-> r.rev, seen |-> r.val, key |-> key,
     change |-> 1, actor |-> 1, previewer |-> 1]
UnderNewLogin(q, change) ==
    [kind |-> q.kind, rec |-> q.rec, rev |-> q.rev, seen |-> q.seen, key |-> q.key,
     change |-> change, actor |-> 2, previewer |-> q.previewer]

Corrections == [request : Requests, rec : Nat, rev : Nat, before : Nat, after : Nat]

Answers == {"none", "saved", "stale", "keyConflict", "gone"}
NoRequest == [kind |-> "manual", rec |-> 0, rev |-> 0, seen |-> 0, key |-> 0,
              change |-> 1, actor |-> 1, previewer |-> 1]
Dialogs == [at : {"closed", "open", "waiting"}, request : Requests, answer : Answers]
Dialog(at, q, answer) == [at |-> at, request |-> q, answer |-> answer]

Corrected(id) == \E c \in corrections : c.rec = id
HasRecord(e) == \E r \in records : r.emp = e

-----------------------------------------------------------------------------
(* POST /api/salary-records and the CSV import: a new record, unless the    *)
(* employee has one (salary_records_year_month_emp_idx, or the import's own *)
(* check).                                                                  *)
CreateRecord ==
    /\ "create" \in AdminWrites /\ stamp < MaxStamp
    /\ \E e \in Emps :
          /\ ~HasRecord(e)
          /\ records' = records \cup {NewRecord(stamp + 1, e)}
    /\ stamp' = stamp + 1
    /\ UNCHANGED <<corrections, editVars>>

(* DELETE /api/salary-records/:id, refused for a corrected record.          *)
DeleteRecordUnprotected ==   \* mutant body: the journal is not consulted
    /\ "delete" \in AdminWrites
    /\ \E r \in records : records' = records \ {r}
    /\ UNCHANGED <<corrections, stamp, editVars>>

DeleteRecord ==
    /\ "delete" \in AdminWrites
    /\ \E r \in records : ~Corrected(r.id) /\ records' = records \ {r}
    /\ UNCHANGED <<corrections, stamp, editVars>>

(* anonymizeRetainedSalaryRecordsForEmployee: what the record says changes, *)
(* its revision does not.                                                   *)
Anonymized(e) ==
    {r \in records : r.emp # e} \cup
    {[id |-> r.id, emp |-> NoEmp, rev |-> r.rev, val |-> AnonymousContent, retained |-> TRUE] :
        r \in {x \in records : x.emp = e}}

(* purgeExpiredRetainedSalaryRecords: retention of an anonymized record is  *)
(* over.                                                                    *)
PurgeRetained ==
    /\ \E r \in records : r.retained /\ records' = records \ {r}
    /\ UNCHANGED <<corrections, stamp, editVars>>

-----------------------------------------------------------------------------
(* The dialogs.  Opening one reads the record (the holiday dialog also asks *)
(* for a preview and its token) and draws a fresh key.                      *)
OpenDialog(d) ==
    /\ edit[d].at = "closed" /\ lastKey < MaxKeys
    /\ \E r \in records, kind \in {"holiday", "manual"} :
          /\ kind = "holiday" => ~r.retained
          /\ edit' = [edit EXCEPT ![d] = Dialog("open", Request(kind, r, lastKey + 1), "none")]
    /\ lastKey' = lastKey + 1
    /\ UNCHANGED <<recordVars, sent, expired>>

(* save / handleSave.                                                       *)
Save(d) ==
    /\ edit[d].at = "open"
    /\ sent' = sent \cup {edit[d].request}
    /\ edit' = [edit EXCEPT ![d] = Dialog("waiting", edit[d].request, "none")]
    /\ UNCHANGED <<recordVars, expired, lastKey>>

(* The session ended while the outcome was unknown; the administrator logs  *)
(* in again and saves with the same key.  The manual dialog, which takes a  *)
(* 401 for definite, also lets the change be edited.                        *)
SaveAfterLogin(d) ==
    /\ edit[d].at = "waiting" /\ edit[d].answer = "none" /\ edit[d].request.actor = 1
    /\ \E change \in IF edit[d].request.kind = "manual" THEN Changes ELSE {edit[d].request.change} :
          LET q == UnderNewLogin(edit[d].request, change)
          IN  /\ sent' = sent \cup {q}
              /\ edit' = [edit EXCEPT ![d] = Dialog("waiting", q, "none")]
    /\ UNCHANGED <<recordVars, expired, lastKey>>

CloseDialog(d) ==
    /\ edit[d].at # "closed"
    /\ edit' = [edit EXCEPT ![d] = Dialog("closed", NoRequest, "none")]
    /\ UNCHANGED <<recordVars, sent, expired, lastKey>>

(* Ten minutes pass for a preview token still in use.                       *)
ExpirePreview ==
    /\ \E q \in sent \cup {edit[d].request : d \in Editors} :
          q.kind = "holiday" /\ q.key \notin expired /\ expired' = expired \cup {q.key}
    /\ UNCHANGED <<recordVars, sent, edit, lastKey>>

-----------------------------------------------------------------------------
(* commitSalaryCorrection, one transaction under the record's row lock.     *)
Prior(q) == {c \in corrections : c.rec = q.rec /\ c.request.key = q.key}

(* Mutant body: a manual edit does not compare revisions.                   *)
ApplicableAnyRevision(q, r) ==
    /\ ~r.retained
    /\ q.kind = "holiday" =>
          r.rev = q.rev /\ r.val = q.seen /\ q.previewer = q.actor /\ q.key \notin expired

(* verifyPayrollPreviewToken, or the revision check of the manual edit;     *)
(* neither applies to an anonymized record.                                 *)
Applicable(q, r) ==
    /\ r.rev = q.rev
    /\ ~r.retained
    /\ q.kind = "holiday" => r.val = q.seen /\ q.previewer = q.actor /\ q.key \notin expired

(* The answer reaches the dialog that still waits for this key, or is lost. *)
Tell(q, answer) ==
    \E reached \in BOOLEAN :
        edit' = [d \in Editors |->
            IF reached /\ edit[d].at = "waiting" /\ edit[d].request = q
            THEN Dialog("waiting", q, answer) ELSE edit[d]]

CommitMissing(q) ==
    /\ ~ \E r \in records : r.id = q.rec
    /\ Tell(q, "gone")
    /\ UNCHANGED recordVars

CommitReplayed(q) ==
    /\ \E r \in records : r.id = q.rec
    /\ \E c \in Prior(q) : Tell(q, IF c.request = q THEN "saved" ELSE "keyConflict")
    /\ UNCHANGED recordVars

CommitStaleFirst(q) ==   \* mutant body: checked before the key is looked up
    /\ \E r \in records : r.id = q.rec /\ ~Applicable(q, r)
    /\ Tell(q, "stale")
    /\ UNCHANGED recordVars

CommitStale(q) ==
    /\ Prior(q) = {}
    /\ \E r \in records : r.id = q.rec /\ ~Applicable(q, r)
    /\ Tell(q, "stale")
    /\ UNCHANGED recordVars

(* The journal keeps what the record said before and says after; a snapshot *)
(* without names (payrollAuditSnapshot), it survives an anonymization.      *)
Correction(q, r) ==
    [request |-> q, rec |-> r.id, rev |-> r.rev + 1, before |-> r.val, after |-> stamp + 1]

CommitWritten(q) ==
    /\ Prior(q) = {} /\ stamp < MaxStamp
    /\ \E r \in records :
          /\ r.id = q.rec /\ Applicable(q, r)
          /\ records' = (records \ {r}) \cup
                {[r EXCEPT !.rev = r.rev + 1, !.val = stamp + 1]}
          /\ corrections' = corrections \cup
                {Correction(q, r)}
    /\ stamp' = stamp + 1
    /\ Tell(q, "saved")

Commit ==
    /\ \E q \in sent : CommitMissing(q) \/ CommitReplayed(q) \/ CommitStale(q) \/ CommitWritten(q)
    /\ UNCHANGED <<sent, expired, lastKey>>

-----------------------------------------------------------------------------
SalaryInit ==
    /\ records = {} /\ corrections = {} /\ stamp = 0
    /\ sent = {} /\ expired = {} /\ lastKey = 0
    /\ edit = [d \in Editors |-> Dialog("closed", NoRequest, "none")]

SalaryNext ==
    \/ CreateRecord \/ DeleteRecord \/ PurgeRetained \/ Commit \/ ExpirePreview
    \/ \E d \in Editors : OpenDialog(d) \/ Save(d) \/ SaveAfterLogin(d) \/ CloseDialog(d)

SalaryTypeOK ==
    /\ records \subseteq SalaryRecord
    /\ corrections \subseteq Corrections
    /\ stamp \in Nat /\ lastKey \in Nat
    /\ sent \subseteq Requests
    /\ expired \subseteq Nat
    /\ edit \in [Editors -> Dialogs]
=============================================================================
