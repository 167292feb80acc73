----------------------------- MODULE MonthlyRun -----------------------------
(***************************************************************************)
(* The monthly salary automation (runMonthlySalaryAutomation) for one       *)
(* month: the monthly_salary_runs row that admits one runner, the reads it  *)
(* plans from, the atomic batch write, the PDF, and the report mail through *)
(* Resend with its idempotency key.  Runners are the scheduler tick and the *)
(* administrator's POST /api/salary-automation/run, possibly in different   *)
(* processes; any of their steps may fail, and a process may crash.         *)
(*                                                                          *)
(* Resend is external and modelled by how salaryEmail.ts uses it: a key is  *)
(* remembered for a day; repeated with the same body it returns the first   *)
(* result, repeated with another PDF it is refused as                       *)
(* invalid_idempotent_request.  Neither sends a second mail and the code    *)
(* takes both for sent, so bodies are not told apart.  The SMTP transport,  *)
(* which has no key, is left out.                                           *)
(***************************************************************************)
EXTENDS SalaryRecords, FiniteSets

CONSTANTS
    Runners,
    Mails,       \* the sendEmail options runs are started with
    MayForce,    \* whether the administrator may force a rerun
    MayCrash,    \* whether a run may end without a trace (see Crash)
    CloudRun,    \* APP_DEPLOYMENT_MODE = cloudrun: the PDF name has a random part
    Manages,     \* what changes while the month is settled: "attendance", "staff"
    MaxFiles,    \* bound: random PDF names drawn
    MaxDays      \* bound: days of Resend's memory explored

ASSUME EmpsFiniteAssumption == IsFiniteSet(Emps)
ASSUME RunFlagsAssumption ==
    MayForce \in BOOLEAN /\ MayCrash \in BOOLEAN /\ CloudRun \in BOOLEAN
ASSUME MailsAssumption == Mails \subseteq BOOLEAN
ASSUME ManagesAssumption == Manages \subseteq {"attendance", "staff"}
ASSUME RunBoundsAssumption == MaxFiles \in Nat /\ MaxDays \in Nat

VARIABLES
    run,         \* the month's monthly_salary_runs row
    runner,      \* per runner: where it is and what it has read
    staff,       \* per employee: active, inactive (trashed too) or purged
    due,         \* employees with attendance or special leave in the month
    known,       \* keys Resend remembers
    deliveries,  \* report mails Resend accepted
    lastFile,    \* random PDF names drawn so far
    day

runVars == <<run, runner, staff, due, known, deliveries, lastFile, day>>
vars == <<salaryVars, runVars>>

Statuses == {"none", "running", "succeeded", "failed", "skipped"}

(* A report lists records with their revision; `row` is the place in it.    *)
ReportRows == [id : Nat, rev : Nat, row : Nat]
Content(report) == {<<x.id, x.rev>> : x \in report}

(* buildMonthlyReportIdempotencyKey: the rows in order, and the file name.  *)
ReportKey(report, file) == [report |-> report, file |-> file]

Stages == {"idle", "employees", "records", "attendance", "save", "pdf", "mail", "finish"}
RunnerStates ==
    [at : Stages, force : BOOLEAN, mail : BOOLEAN, active : SUBSET Emps,
     existing : SUBSET SalaryRecord, due : SUBSET Emps, report : SUBSET ReportRows,
     file : Nat, tries : 0 .. 1]
IdleRunner ==
    [at |-> "idle", force |-> FALSE, mail |-> FALSE, active |-> {}, existing |-> {}, due |-> {},
     report |-> {}, file |-> 0, tries |-> 0]

(* The run row: its status and, when succeeded, the report and whether it   *)
(* was mailed (email_to is not empty).                                      *)
Runs == [status : Statuses, report : SUBSET ReportRows, mailed : BOOLEAN]
RunRow(status) == [status |-> status, report |-> {}, mailed |-> FALSE]

Goes(w, state) == runner' = [runner EXCEPT ![w] = state]

-----------------------------------------------------------------------------
(* acquireRun: one INSERT ... ON CONFLICT DO UPDATE.  A running month is    *)
(* never taken over, a succeeded one only by force.                         *)
Acquire(w) ==
    /\ runner[w].at = "idle"
    /\ run.status # "running"
    /\ \E force \in {FALSE, MayForce}, mail \in Mails :
          /\ ~force => run.status # "succeeded"
          /\ Goes(w, [IdleRunner EXCEPT !.at = "employees", !.force = force, !.mail = mail])
    /\ run' = RunRow("running")
    /\ UNCHANGED <<salaryVars, staff, due, known, deliveries, lastFile, day>>

(* The reads the plan is made from, one query after the other.              *)
ReadEmployees(w) ==
    /\ runner[w].at = "employees"
    /\ Goes(w, [runner[w] EXCEPT !.at = "records", !.active = {e \in Emps : staff[e] = "active"}])
    /\ UNCHANGED <<salaryVars, run, staff, due, known, deliveries, lastFile, day>>

ReadRecords(w) ==
    /\ runner[w].at = "records"
    /\ Goes(w, [runner[w] EXCEPT !.at = "attendance", !.existing = {r \in records : r.emp # NoEmp}])
    /\ UNCHANGED <<salaryVars, run, staff, due, known, deliveries, lastFile, day>>

ReadAttendance(w) ==
    /\ runner[w].at = "attendance"
    /\ Goes(w, [runner[w] EXCEPT !.at = "save", !.due = due])
    /\ UNCHANGED <<salaryVars, run, staff, due, known, deliveries, lastFile, day>>

(* The loop over the employees: which existing records the report keeps,    *)
(* which employees are settled anew.                                        *)
Kept(s) == IF s.force THEN {} ELSE {r \in s.existing : r.emp \in s.active}
Planned(s) ==
    {e \in s.active \cap s.due : s.force \/ ~ \E r \in s.existing : r.emp = e}
Replaced(s) == {r \in s.existing : r.emp \in Planned(s)}

(* Mutant body: a corrected record is settled anew like any other.          *)
BatchFitsCorrected(s) ==
    /\ \A r \in Replaced(s) : \E c \in records : c.id = r.id /\ c.rev = r.rev
    /\ \A e \in Planned(s) : (~ \E r \in Replaced(s) : r.emp = e) => ~HasRecord(e)

(* saveSalaryRecordsAtomically: every item must go through, or none does.   *)
BatchFits(s) ==
    /\ \A r \in Replaced(s) :
          /\ ~Corrected(r.id)
          /\ \E c \in records : c.id = r.id /\ c.rev = r.rev
    /\ \A e \in Planned(s) : (~ \E r \in Replaced(s) : r.emp = e) => ~HasRecord(e)

(* The record an employee's item leaves.  Ids and contents of a batch are   *)
(* stamped in the order of the items.                                       *)
Place(e, S) == Cardinality({x \in S : x < e})
Written(e, s) ==
    LET n == stamp + 1 + Place(e, Planned(s))
    IN  IF \E r \in Replaced(s) : r.emp = e
        THEN LET r == CHOOSE x \in Replaced(s) : x.emp = e
             IN  [id |-> r.id, emp |-> e, rev |-> r.rev + 1, val |-> n,
                  retained |-> \E c \in records : c.id = r.id /\ c.retained]
        ELSE NewRecord(n, e)

(* persistedRecords: the kept ones in name order, then the written ones.    *)
Report(s) ==
    LET kept == {r.emp : r \in Kept(s)}
    IN  {[id |-> r.id, rev |-> r.rev, row |-> Place(r.emp, kept)] : r \in Kept(s)} \cup
        {[id |-> Written(e, s).id, rev |-> Written(e, s).rev,
          row |-> Cardinality(kept) + Place(e, Planned(s))] : e \in Planned(s)}

SaveBatch(w) ==
    LET s == runner[w]
    IN  /\ s.at = "save"
        /\ BatchFits(s) /\ stamp + Cardinality(Planned(s)) <= MaxStamp
        /\ records' = {c \in records : \A r \in Replaced(s) : r.id # c.id}
                        \cup {Written(e, s) : e \in Planned(s)}
        /\ stamp' = stamp + Cardinality(Planned(s))
        /\ IF Report(s) = {}
           THEN run' = RunRow("skipped") /\ Goes(w, IdleRunner)
           ELSE run' = run /\ Goes(w, [s EXCEPT !.at = "pdf", !.report = Report(s)])
        /\ UNCHANGED <<corrections, editVars, staff, due, known, deliveries, lastFile, day>>

(* generateMonthlySalaryPdf: the page prints the records by id and fails    *)
(* when one is gone.                                                        *)
RenderPdf(w) ==
    /\ runner[w].at = "pdf" /\ (CloudRun => lastFile < MaxFiles)
    /\ \A x \in runner[w].report : \E r \in records : r.id = x.id
    /\ lastFile' = IF CloudRun THEN lastFile + 1 ELSE 0
    /\ Goes(w, [runner[w] EXCEPT !.at = IF runner[w].mail THEN "mail" ELSE "finish",
                                 !.file = lastFile'])
    /\ UNCHANGED <<salaryVars, run, staff, due, known, deliveries, day>>

-----------------------------------------------------------------------------
(* One POST to Resend.                                                      *)
MailKey(w) == ReportKey(runner[w].report, runner[w].file)

(* The answer to a POST: accepted, or nothing (timeout, connection, 5xx);   *)
(* then it is tried once more, and after that the run fails.                *)
Sent(w) == Goes(w, [runner[w] EXCEPT !.at = "finish"]) /\ run' = run
Unanswered(w) ==
    \/ /\ runner[w].tries = 0
       /\ Goes(w, [runner[w] EXCEPT !.tries = 1]) /\ run' = run
    \/ /\ runner[w].tries = 1
       /\ Goes(w, IdleRunner) /\ run' = RunRow("failed")

PostNew(w) ==
    /\ runner[w].at = "mail" /\ MailKey(w) \notin known
    /\ known' = known \cup {MailKey(w)}
    /\ deliveries' = deliveries \cup
          {[n |-> Cardinality(deliveries), day |-> day, content |-> Content(runner[w].report)]}
    /\ Sent(w) \/ Unanswered(w)
    /\ UNCHANGED <<salaryVars, staff, due, lastFile, day>>

(* A key Resend knows: the first result again, or invalid_idempotent_request, *)
(* which sendMonthlySalaryEmail takes for sent (duplicateSuppressed).       *)
PostRemembered(w) ==
    /\ runner[w].at = "mail" /\ MailKey(w) \in known
    /\ Sent(w) \/ Unanswered(w)
    /\ UNCHANGED <<salaryVars, staff, due, known, deliveries, lastFile, day>>

PostLostTakenForSent(w) ==   \* mutant body: the last timeout counts as sent
    /\ runner[w].at = "mail"
    /\ IF runner[w].tries = 0 THEN Unanswered(w) ELSE Sent(w)
    /\ UNCHANGED <<salaryVars, staff, due, known, deliveries, lastFile, day>>

PostLost(w) ==
    /\ runner[w].at = "mail"
    /\ Unanswered(w)
    /\ UNCHANGED <<salaryVars, staff, due, known, deliveries, lastFile, day>>

Succeed(w) ==
    /\ runner[w].at = "finish"
    /\ run' = [status |-> "succeeded", report |-> runner[w].report, mailed |-> runner[w].mail]
    /\ Goes(w, IdleRunner)
    /\ UNCHANGED <<salaryVars, staff, due, known, deliveries, lastFile, day>>

(* The catch block: any step may throw.                                     *)
FailUnmarked(w) ==   \* mutant body: the failure is not recorded
    /\ runner[w].at # "idle"
    /\ Goes(w, IdleRunner)
    /\ UNCHANGED <<salaryVars, run, staff, due, known, deliveries, lastFile, day>>

Fail(w) ==
    /\ runner[w].at # "idle"
    /\ run' = RunRow("failed")
    /\ Goes(w, IdleRunner)
    /\ UNCHANGED <<salaryVars, staff, due, known, deliveries, lastFile, day>>

(* The process dies, or acquireRun's answer or markRunFailed itself is lost: *)
(* nobody touches the row again.                                            *)
Crash(w) ==
    /\ MayCrash /\ runner[w].at # "idle"
    /\ Goes(w, IdleRunner)
    /\ UNCHANGED <<salaryVars, run, staff, due, known, deliveries, lastFile, day>>

-----------------------------------------------------------------------------
(* Attendance or special leave of the month appears, or is removed.         *)
ChangeDue ==
    /\ "attendance" \in Manages
    /\ \E e \in Emps : staff[e] # "purged" /\ due' = (IF e \in due THEN due \ {e} ELSE due \cup {e})
    /\ UNCHANGED <<salaryVars, run, runner, staff, known, deliveries, lastFile, day>>

(* An employee is deactivated or trashed, or comes back.                    *)
ChangeStaff ==
    /\ "staff" \in Manages
    /\ \E e \in Emps :
          /\ staff[e] # "purged"
          /\ staff' = [staff EXCEPT ![e] = IF staff[e] = "active" THEN "inactive" ELSE "active"]
    /\ UNCHANGED <<salaryVars, run, runner, due, known, deliveries, lastFile, day>>

(* purgeEmployee: salary records are anonymized, attendance is deleted.     *)
PurgeEmployee ==
    /\ "staff" \in Manages
    /\ \E e \in Emps :
          /\ staff[e] = "inactive"
          /\ staff' = [staff EXCEPT ![e] = "purged"]
          /\ due' = due \ {e}
          /\ records' = Anonymized(e)
    /\ UNCHANGED <<corrections, stamp, editVars, run, runner, known, deliveries, lastFile, day>>

(* Resend forgets its keys after 24 hours.                                  *)
NextDay ==
    /\ day < MaxDays
    /\ \A w \in Runners : runner[w].at # "mail"
    /\ day' = day + 1 /\ known' = {}
    /\ UNCHANGED <<salaryVars, run, runner, staff, due, deliveries, lastFile>>

-----------------------------------------------------------------------------
RunInit ==
    /\ run = RunRow("none")
    /\ runner = [w \in Runners |-> IdleRunner]
    /\ staff = [e \in Emps |-> "active"]
    /\ due = Emps
    /\ known = {} /\ deliveries = {} /\ lastFile = 0 /\ day = 0

Step(w) ==
    \/ Acquire(w) \/ ReadEmployees(w) \/ ReadRecords(w) \/ ReadAttendance(w) \/ SaveBatch(w)
    \/ RenderPdf(w) \/ PostNew(w) \/ PostRemembered(w) \/ PostLost(w) \/ Succeed(w)
    \/ Fail(w) \/ Crash(w)

Init == SalaryInit /\ RunInit
Next ==
    \/ SalaryNext /\ UNCHANGED runVars
    \/ \E w \in Runners : Step(w)
    \/ ChangeDue \/ ChangeStaff \/ PurgeEmployee \/ NextDay

Spec == Init /\ [][Next]_vars

(* The scheduler ticks until the month is settled, a started step ends, and *)
(* a step that can succeed does not fail every time.                        *)
FairSpec ==
    /\ Spec
    /\ \A w \in Runners :
          /\ WF_vars(Acquire(w))
          /\ WF_vars(Step(w) /\ runner[w].at # "idle")
          /\ SF_vars(ReadEmployees(w)) /\ SF_vars(ReadRecords(w)) /\ SF_vars(ReadAttendance(w))
          /\ SF_vars(SaveBatch(w)) /\ SF_vars(RenderPdf(w)) /\ SF_vars(Succeed(w))
          /\ SF_vars((PostNew(w) \/ PostRemembered(w)) /\ runner'[w].at = "finish")

-----------------------------------------------------------------------------
(* Every variable keeps its type; in particular a mail is posted at most    *)
(* twice (sendWithResend's maxAttempts).                                    *)
TypeOK ==
    /\ SalaryTypeOK
    /\ run \in Runs
    /\ runner \in [Runners -> RunnerStates]
    /\ staff \in [Emps -> {"active", "inactive", "purged"}]
    /\ due \subseteq Emps
    /\ \A k \in known : k.report \subseteq ReportRows /\ k.file \in Nat
    /\ \A x \in deliveries : x.n \in Nat /\ x.day \in Nat
    /\ lastFile \in Nat /\ day \in Nat

(* From its first correction on, a record changes only through the journal: *)
(* each later revision has exactly one correction, each starts from what    *)
(* the one before it left, and the last one says what the record says now   *)
(* (commitSalaryCorrection, saveSalaryRecordsAtomically).  Anonymization is *)
(* the one change that leaves no correction.                                *)
AuditTrailComplete ==
    /\ \A c, d \in corrections : c.rec = d.rec /\ c.rev = d.rev => c = d
    /\ \A c \in corrections, r \in records :
          r.id = c.rec =>
              /\ c.rev <= r.rev
              /\ c.rev = r.rev /\ ~r.retained => r.val = c.after
              /\ c.rev < r.rev =>
                    \E d \in corrections : d.rec = c.rec /\ d.rev = c.rev + 1 /\ d.before = c.after

(* A correction is applied to the content its dialog showed, whatever other *)
(* dialogs, forced runs, retries or delayed copies did in between.          *)
NoLostUpdate ==
    \A c \in corrections : c.before = c.request.seen

(* A request a dialog was told is refused (stale) was not applied and no    *)
(* delayed copy of it is applied later: the prior-key lookup of             *)
(* commitSalaryCorrection comes before the checks that refuse.              *)
RefusedNeverApplied ==
    \A d \in Editors, c \in corrections :
        edit[d].answer = "stale" => c.request # edit[d].request

(* A corrected record of an employee is never deleted, and never rewritten  *)
(* without a new entry in the journal, except by anonymization.             *)
CorrectedKept ==
    [][\A r \in records :
          Corrected(r.id) /\ ~r.retained =>
              \E x \in records' :
                  /\ x.id = r.id
                  /\ x = r \/ x.retained \/ corrections' # corrections]_vars

(* acquireRun admits one runner per month, by force or not, and while one   *)
(* works the row says so.                                                   *)
OneRunner ==
    \A w, v \in Runners :
        runner[w].at # "idle" => run.status = "running" /\ (runner[v].at # "idle" => v = w)

(* A run recorded as succeeded with recipients: Resend accepted a mail with *)
(* the records and revisions of the run, although every answer may be lost. *)
ReportDelivered ==
    run.status = "succeeded" /\ run.mailed =>
        \E x \in deliveries : x.content = Content(run.report)

(* A run that started, or failed, is followed by one that ends the month as *)
(* succeeded or skipped.                                                    *)
RunSettles ==
    run.status \in {"running", "failed"} ~> run.status \in {"succeeded", "skipped"}

(* Settling a month is sound: one runner at a time, every variable typed,   *)
(* and the journal of corrections complete whatever runs, dialogs, forced   *)
(* runs, crashes and anonymizations came in between.                        *)
SettlementSound == TypeOK /\ OneRunner /\ AuditTrailComplete
=============================================================================
