--------------------------- MODULE PayrollBooks ----------------------------
(***************************************************************************)
(* The payroll of one employee and one month, from the attendance table    *)
(* and the settings through the preview on the attendance page, the        *)
(* settlement by the page or by the monthly run, the holiday corrections   *)
(* and manual edits of the settled record, to its CSV export and import;   *)
(* and the special calculation rules, which live in the database and, once *)
(* loaded, in the memory of the process.                                   *)
(*                                                                         *)
(* Conflicts between administrators on one record (revisions, receipts)    *)
(* are SalaryRecords' subject: here a correction is one step.              *)
(***************************************************************************)
EXTENDS SalaryMath, Functions

CONSTANTS Days,         \* days of the month
          Shifts,       \* attendance as it is entered: [in, out, type, flag]
          Tariffs,      \* settings: [base, rate, welfare, fee]
          FirstTariff,  \* the settings of the start
          CashDays,     \* days of special leave cashed this month
          CorrTypes,    \* types a holiday correction uses
          Fees,         \* custom deductions a manual edit may enter
          Rules,        \* special rules that may be stored
          Requests,     \* requests that change the rules
          MaxRows,      \* attendance rows
          MaxWork       \* entries of administrators (rows, settings, rules, changes)
                        \* and restarts of the process

ASSUME BooksAssumption ==
    /\ Weekend \subseteq Days
    /\ Calendar \in [Days -> HolidayTypes \cup {"none"}]
    /\ CashDays \in Nat /\ FirstTariff \in Tariffs
    /\ MaxRows \in Nat /\ MaxWork \in Nat
    /\ Shifts \subseteq [in : Int, out : Int, type : HolidayTypes \cup {"none"},
                         flag : BOOLEAN]
    /\ CorrTypes \subseteq HolidayTypes

(* Amounts are not entered below zero: salary.routes.ts refuses one, while  *)
(* the settings and the rules take any number.                              *)
ASSUME AmountsAssumption ==
    /\ Tariffs \subseteq [base : Nat, rate : Nat, welfare : Nat, fee : Nat]
    /\ Fees \subseteq Nat
    /\ Rules \subseteq [base : Nat, h1 : Nat, h2 : Nat, otPay : Nat, gross : Int, net : Int]

VARIABLES
    rows,        \* temporary_attendance of the month, by row id
    tariff,      \* the settings row
    preview,     \* salaryResult of the attendance page
    record,      \* the settled salary record
    file,        \* an exported CSV file
    dbRules,     \* active rows of calculation_rules
    rules,       \* specialRules, in the memory of the process
    reload,      \* the progress of each request that changed a rule
    doubtful,    \* TRUE when a reload overlapped another or failed
    work         \* entries made so far (bounds the model)

deskVars == <<rows, preview>>
bookVars == <<record, file>>
ruleVars == <<dbRules, rules, reload, doubtful>>
vars == <<deskVars, bookVars, ruleVars, tariff, work>>

NoPreview == [none |-> TRUE]
NoRecord == [none |-> TRUE]
NoFile == [none |-> TRUE]
Idle == [at |-> "idle"]

Row == [day : Days, in : Int, out : Int, type : HolidayTypes \cup {"none"}, flag : BOOLEAN]
Settled == record # NoRecord

---------------------------------------------------------------------------
(* The attendance table and the settings form.                              *)

Enters == work < MaxWork /\ work' = work + 1

AddAttendance(d, s) ==
    /\ Enters
    /\ \E i \in (1 .. MaxRows) \ DOMAIN rows :
          /\ \A j \in (1 .. MaxRows) \ DOMAIN rows : i <= j
          /\ rows' = [j \in DOMAIN rows \cup {i} |->
                        IF j = i THEN [day |-> d, in |-> s.in, out |-> s.out,
                                       type |-> s.type, flag |-> s.flag]
                        ELSE rows[j]]
    /\ UNCHANGED <<preview, bookVars, ruleVars, tariff>>

(* handleHolidayTypeChange: the flag follows the type.                      *)
UpdateHolidayType(i, type) ==
    /\ Enters
    /\ rows' = [rows EXCEPT ![i].type = type, ![i].flag = type # "none"]
    /\ UNCHANGED <<preview, bookVars, ruleVars, tariff>>

DeleteAttendance(i) ==
    /\ Enters
    /\ rows' = Restrict(rows, DOMAIN rows \ {i})
    /\ UNCHANGED <<preview, bookVars, ruleVars, tariff>>

(* POST /api/settings: the whole form, also when only a switch was flipped. *)
SaveSettings(t) ==
    /\ Enters /\ t # tariff
    /\ tariff' = t
    /\ UNCHANGED <<deskVars, bookVars, ruleVars>>

---------------------------------------------------------------------------
(* The preview.                                                             *)

Cash(t) == CashDays * RoundDiv(t.base, 30)

PageResult(rs, t) ==
    LET leave == PageLeaveItems(rs, t.base)
        worked == Cardinality(HolidayWork(rs))
        ot == PageOvertimePay(rs, t.rate)
        gross == GrossSalary(t.base, ot, worked * CeilDiv(t.base, 30), t.welfare) + Cash(t)
    IN  [by |-> "desk", att |-> rs, tariff |-> t, base |-> t.base, welfare |-> t.welfare, cash |-> Cash(t),
         h1 |-> Hours1(rs), h2 |-> Hours2(rs), holidayDays |-> worked,
         holidayPay |-> worked * CeilDiv(t.base, 30),
         custom |-> t.fee, leave |-> leave,
         gross |-> gross, net |-> gross - t.fee - Total(leave)]

CalculateSalary ==
    /\ rows # << >>
    /\ preview' = PageResult(rows, tariff)
    /\ UNCHANGED <<rows, bookVars, ruleVars, tariff, work>>

(* Another employee or month is chosen: the result is hidden.               *)
ClosePreview ==
    /\ preview # NoPreview
    /\ preview' = NoPreview
    /\ UNCHANGED <<rows, bookVars, ruleVars, tariff, work>>

---------------------------------------------------------------------------
(* The settlement.                                                          *)

(* createSalarySchema: several rows of one day are distinct, completed,     *)
(* normal shifts that do not overlap.                                       *)
End(r) == IF r.out < r.in THEN r.out + 1440 ELSE r.out
NormalShift(r) == ~r.flag /\ r.type = "none" /\ Timed(r) /\ r.in # r.out
Acceptable(rs) ==
    \A i, j \in DOMAIN rs : i # j /\ rs[i].day = rs[j].day =>
        /\ NormalShift(rs[i]) /\ NormalShift(rs[j])
        /\ End(rs[i]) <= rs[j].in \/ End(rs[j]) <= rs[i].in

(* Mutant body: the page's leave items stay.                                *)
MergeDeductionsAll(items, adjusted) == items \cup adjusted

(* mergeSalaryDeductions: what the page calls leave is dropped, the         *)
(* server's own items are added.                                            *)
MergeDeductions(items, adjusted) ==
    {x \in items : x.name[1] \notin {"page", "server"}} \cup adjusted

(* Mutant body: worked holidays are added to a total that has them.         *)
HolidayPayAdded(draft, rs, base) == draft.holidayPay + WorkedHolidayPay(rs, base)

(* deriveHolidayPayBase: the page's total includes worked holidays, the     *)
(* run's draft (zero) does not.                                             *)
HolidayPay(draft, rs, base) ==
    IF draft.by = "desk" THEN draft.holidayPay
    ELSE draft.holidayPay + WorkedHolidayPay(rs, base)

RuleMatches(rule, draft) ==
    rule.base = draft.base /\ rule.h1 = draft.h1 /\ rule.h2 = draft.h2

(* buildCalculatedSalaryRecord with the settings and, for a rule that       *)
(* matches, the amounts of the rule.                                        *)
Calculated(draft, t, special) ==
    LET leave == MergeDeductions(draft.leave, LeaveItems(draft.att, draft.base))
        holidayPay == HolidayPay(draft, draft.att, draft.base)
        total == draft.custom + Total(leave)
        plain == OvertimePay(draft.h1, draft.h2, t.rate)
        gross == GrossSalary(draft.base, plain, holidayPay, draft.welfare)
        ruled == special # {}
        rule == CHOOSE r \in special : TRUE
    IN  [base |-> draft.base, basis |-> draft.base, welfare |-> draft.welfare,
         cash |-> draft.cash, h1 |-> draft.h1, h2 |-> draft.h2,
         otPay |-> IF ruled THEN rule.otPay ELSE plain,
         holidayDays |-> draft.holidayDays, holidayPay |-> holidayPay,
         custom |-> draft.custom, leave |-> leave, totalDeductions |-> total,
         gross |-> draft.cash + (IF ruled THEN rule.gross ELSE gross),
         net |-> draft.cash + (IF ruled THEN rule.net ELSE gross - total),
         att |-> draft.att, revision |-> 0, corrected |-> FALSE,
         \* history: how the record came about
         by |-> draft.by, ruled |-> ruled, touched |-> FALSE,
         settledAtt |-> draft.att, settledPay |-> holidayPay]

(* checkSpecialCase takes the first rule that matches.                      *)
Special(draft) ==
    LET fit == {r \in rules : RuleMatches(r, draft)}
    IN  IF fit = {} THEN {{}} ELSE {{r} : r \in fit}

(* finalizeAndSave and POST /api/salary-records.  The unique index lets one *)
(* record of a month in.                                                    *)
Finalize ==
    /\ preview # NoPreview /\ ~Settled
    /\ Acceptable(preview.att)
    /\ \E s \in Special(preview) :
          record' = Calculated(preview, tariff, s)
    /\ preview' = NoPreview
    /\ UNCHANGED <<rows, file, ruleVars, tariff, work>>

(* The draft the monthly run builds from the rows and the settings as they  *)
(* are: worked days are the rows of that type, and nothing is validated.    *)
RunDraft ==
    [by |-> "run", att |-> rows, base |-> tariff.base, welfare |-> tariff.welfare,
     cash |-> Cash(tariff), h1 |-> Hours1(rows), h2 |-> Hours2(rows),
     holidayDays |-> WorkedDays(rows), holidayPay |-> 0, custom |-> tariff.fee, leave |-> {}]

RunSettles ==
    /\ rows # << >> /\ ~Settled
    /\ \E s \in Special(RunDraft) : record' = Calculated(RunDraft, tariff, s)
    /\ UNCHANGED <<deskVars, file, ruleVars, tariff, work>>

(* A forced run settles an uncorrected record anew.                         *)
RunResettles ==
    /\ rows # << >> /\ Settled /\ ~record.corrected
    /\ Enters
    /\ \E s \in Special(RunDraft) :
          record' = [Calculated(RunDraft, tariff, s) EXCEPT !.revision = record.revision + 1]
    /\ UNCHANGED <<deskVars, file, ruleVars, tariff>>

---------------------------------------------------------------------------
(* The settled record is corrected, edited, deleted.                        *)

(* assertFinancialSnapshot (the types of the fields aside).                 *)
Consistent(r) ==
    /\ r.custom + Total(r.leave) = r.totalDeductions
    /\ r.gross - r.net = r.totalDeductions

(* The checks of the stored attendance: one row a day, the flag and the     *)
(* type agree, a worked holiday has clock times after 08:00.                *)
Classified(att) ==
    /\ \A i \in DOMAIN att :
          /\ att[i].flag = (att[i].type # "none")
          /\ att[i].type = "worked" => ~FullDay(att[i])
    /\ \A i, j \in DOMAIN att : att[i].day = att[j].day => i = j

(* INCONSISTENT_HOLIDAY_PAY_SNAPSHOT.                                       *)
PayCovers(r) ==
    /\ r.holidayPay >= WorkedHolidayPay(r.att, r.basis)
    /\ r.holidayDays >= WorkedDays(r.att)

(* The snapshot with one holiday added, or one row given another type.      *)
Added(att, d, type) ==
    LET i == Min({0} \cup DOMAIN att) - 1
    IN  [j \in DOMAIN att \cup {i} |->
           IF j = i THEN [day |-> d, in |-> NoTime, out |-> NoTime, type |-> type, flag |-> TRUE]
           ELSE att[j]]
Replaced(att, i, type) == [att EXCEPT ![i].type = type, ![i].flag = TRUE]

(* reconcileAutoDeductions: every item the old snapshot gives is found once *)
(* and unchanged, and no leave item is left over.                           *)
Reconcilable(r) ==
    /\ \A x \in LeaveItems(r.att, r.basis) :
          \E y \in r.leave : /\ {z \in r.leave : z.name = x.name} = {y}
                            /\ y.amount = x.amount
    /\ Cardinality(r.leave) = Cardinality(LeaveItems(r.att, r.basis))

(* Neither the deduction details nor the holiday pay change.                *)
SameAdjustments(r, att) ==
    /\ LeaveItems(att, r.basis) = LeaveItems(r.att, r.basis)
    /\ WorkedHolidayPay(att, r.basis) = WorkedHolidayPay(r.att, r.basis)

(* Mutant body: the adjustments use the base salary as it is now.           *)
CorrectedOnBase(r, att) ==
    LET leave == LeaveItems(att, r.base)
        pay == WorkedHolidayPay(att, r.base) - WorkedHolidayPay(r.att, r.base)
        less == Total(leave) - Total(LeaveItems(r.att, r.base))
    IN  [r EXCEPT !.att = att, !.leave = leave,
           !.holidayDays = @ + WorkedDays(att) - WorkedDays(r.att),
           !.holidayPay = @ + pay, !.totalDeductions = @ + less,
           !.gross = @ + pay, !.net = @ + pay - less]

(* buildPayrollHolidayCorrection: the differences between the adjustments   *)
(* of the two snapshots, on the basis the record was settled with.          *)
CorrectedTo(r, att) ==
    LET leave == LeaveItems(att, r.basis)
        pay == WorkedHolidayPay(att, r.basis) - WorkedHolidayPay(r.att, r.basis)
        less == Total(leave) - Total(LeaveItems(r.att, r.basis))
    IN  [r EXCEPT !.att = att, !.leave = IF SameAdjustments(r, att) THEN @ ELSE leave,
           !.holidayDays = @ + WorkedDays(att) - WorkedDays(r.att),
           !.holidayPay = @ + pay, !.totalDeductions = @ + less,
           !.gross = @ + pay, !.net = @ + pay - less]

Correct(att) ==
    LET after == CorrectedTo(record, att)
    IN  /\ Enters
        /\ Consistent(record) /\ Classified(record.att) /\ PayCovers(record)
        /\ ~SameAdjustments(record, att) => Reconcilable(record)
        /\ Consistent(after)
        /\ record' = [after EXCEPT !.revision = @ + 1, !.corrected = TRUE]
        /\ UNCHANGED <<deskVars, file, ruleVars, tariff>>

AddHoliday(d, type) ==
    /\ Settled /\ type # "worked"
    /\ \A i \in DOMAIN record.att : record.att[i].day # d
    /\ Correct(Added(record.att, d, type))

ReplaceHoliday(i, type) ==
    /\ type = "worked" => ~FullDay(record.att[i])
    /\ Correct(Replaced(record.att, i, type))

(* Mutant body: the total of the deductions is the old one.                 *)
EditedKeepsTotal(r) ==
    LET gross == GrossSalary(r.base, r.otPay, r.holidayPay, r.welfare) + r.cash
    IN  [r EXCEPT !.gross = gross, !.net = gross - r.totalDeductions, !.ruled = FALSE]

(* buildHistorySalaryEdit: the totals follow from the entries; overtime and *)
(* holiday pay stay as they were settled.                                   *)
EditedTotals(r) ==
    LET gross == GrossSalary(r.base, r.otPay, r.holidayPay, r.welfare) + r.cash
        total == r.custom + Total(r.leave)
    IN  [r EXCEPT !.totalDeductions = total, !.gross = gross, !.net = gross - total,
                  !.ruled = FALSE]

(* PATCH: base salary, allowances, deductions or one leave item by hand.    *)
Edits ==
    {[record EXCEPT !.base = t.base] : t \in Tariffs}
      \cup {[record EXCEPT !.welfare = t.welfare] : t \in Tariffs}
      \cup {[record EXCEPT !.custom = f] : f \in Fees}
      \cup {[record EXCEPT !.leave = @ \ {x}, !.touched = TRUE] : x \in record.leave}

EditRecord ==
    /\ Settled /\ Enters
    /\ \E r \in Edits :
          record' = [EditedTotals(r) EXCEPT !.revision = @ + 1, !.corrected = TRUE]
    /\ UNCHANGED <<deskVars, file, ruleVars, tariff>>

DeleteRecord ==
    /\ Settled /\ ~record.corrected
    /\ record' = NoRecord
    /\ UNCHANGED <<deskVars, file, ruleVars, tariff, work>>

---------------------------------------------------------------------------
(* The CSV file of a record.                                                *)

ExportRecord ==
    /\ Settled /\ Enters
    /\ file' = record
    /\ UNCHANGED <<deskVars, record, ruleVars, tariff>>

(* parseSalarySnapshotRows: one row a day, clock times or an absence on a   *)
(* holiday, and a type only on a holiday.                                   *)
Readable(att) ==
    /\ \A i \in DOMAIN att :
          /\ att[i].type # "none" => att[i].flag
          /\ Timed(att[i]) \/ (/\ att[i].flag /\ att[i].type # "worked"
                               /\ att[i].in = NoTime /\ att[i].out = NoTime)
    /\ \A i, j \in DOMAIN att : att[i].day = att[j].day => i = j

ImportRecord ==
    /\ file # NoFile /\ file.revision = 0
    /\ Readable(file.att)
    /\ ~Settled
    /\ record' = file
    /\ UNCHANGED <<deskVars, file, ruleVars, tariff, work>>

---------------------------------------------------------------------------
(* The special rules.                                                       *)

SameCase(r, x) == r.base = x.base /\ r.h1 = x.h1 /\ r.h2 = x.h2

(* POST, PUT or DELETE stores a rule, changes or deletes one; the reload    *)
(* follows.  At most one active rule for a case.                            *)
ChangeRule(q, S) ==
    /\ Enters /\ reload[q] = Idle
    /\ S # dbRules /\ Cardinality(dbRules \ S) <= 1 /\ Cardinality(S \ dbRules) <= 1
    /\ \A r, x \in S : SameCase(r, x) => r = x
    /\ dbRules' = S
    /\ reload' = [reload EXCEPT ![q] = [at |-> "clear"]]
    /\ UNCHANGED <<rules, doubtful, deskVars, bookVars, tariff>>

(* clearAllSpecialRules, then the query goes out.                           *)
ClearRules(q) ==
    /\ reload[q].at = "clear"
    /\ rules' = {}
    /\ reload' = [reload EXCEPT ![q] = [at |-> "fetch"]]
    /\ doubtful' = \E p \in Requests \ {q} : reload[p].at \in {"fetch", "register"}
    /\ UNCHANGED <<dbRules, deskVars, bookVars, tariff, work>>

FetchRules(q) ==
    /\ reload[q].at = "fetch"
    /\ reload' = [reload EXCEPT ![q] = [at |-> "register", found |-> dbRules]]
    /\ UNCHANGED <<dbRules, rules, doubtful, deskVars, bookVars, tariff, work>>

FetchRulesFails(q) ==
    /\ reload[q].at = "fetch"
    /\ reload' = [reload EXCEPT ![q] = Idle]
    /\ doubtful' = TRUE
    /\ UNCHANGED <<dbRules, rules, deskVars, bookVars, tariff, work>>

(* registerSpecialRule: a rule for the same hours and base is replaced.     *)
RegisterRules(q) ==
    /\ reload[q].at = "register"
    /\ rules' = {r \in rules : ~ \E x \in reload[q].found : SameCase(r, x)}
                   \cup reload[q].found
    /\ reload' = [reload EXCEPT ![q] = Idle]
    /\ UNCHANGED <<dbRules, doubtful, deskVars, bookVars, tariff, work>>

(* loadCalculationRulesFromDb at the start of a new process; a failure is   *)
(* logged and the server starts without rules.                              *)
Restart(loaded) ==
    /\ Enters
    /\ rules' = IF loaded THEN dbRules ELSE {}
    /\ doubtful' = ~loaded
    /\ reload' = [q \in Requests |-> Idle]
    /\ UNCHANGED <<dbRules, deskVars, bookVars, tariff>>

---------------------------------------------------------------------------
Init ==
    /\ rows = << >> /\ preview = NoPreview /\ record = NoRecord /\ file = NoFile
    /\ tariff = FirstTariff
    /\ dbRules = {} /\ rules = {}
    /\ reload = [q \in Requests |-> Idle] /\ doubtful = FALSE
    /\ work = 0

Next ==
    \/ \E d \in Days, s \in Shifts : AddAttendance(d, s)
    \/ \E i \in DOMAIN rows :
          \/ DeleteAttendance(i)
          \/ \E type \in CorrTypes : UpdateHolidayType(i, type)
    \/ \E t \in Tariffs : SaveSettings(t)
    \/ CalculateSalary \/ ClosePreview \/ Finalize \/ RunSettles \/ RunResettles
    \/ \E type \in CorrTypes :
          \/ \E d \in Days : AddHoliday(d, type)
          \/ Settled /\ \E i \in DOMAIN record.att : ReplaceHoliday(i, type)
    \/ EditRecord \/ DeleteRecord \/ ExportRecord \/ ImportRecord
    \/ \E q \in Requests :
          \/ \E S \in SUBSET Rules : ChangeRule(q, S)
          \/ ClearRules(q) \/ FetchRules(q) \/ FetchRulesFails(q) \/ RegisterRules(q)
    \/ \E loaded \in BOOLEAN : Restart(loaded)

Spec == Init /\ [][Next]_vars

---------------------------------------------------------------------------
(* Properties.                                                              *)

(* Amounts that are never negative (the net may be) and the snapshot of a   *)
(* record: what assertFinancialSnapshot demands of every stored record.     *)
TypeOK ==
    /\ \A i \in DOMAIN rows : rows[i] \in Row
    /\ tariff \in Tariffs /\ dbRules \subseteq Rules /\ rules \subseteq Rules
    /\ Settled =>
          /\ {record.base, record.basis, record.otPay, record.holidayPay, record.holidayDays,
              record.welfare, record.cash, record.custom, record.totalDeductions,
              record.revision} \subseteq Nat
          /\ \A i \in DOMAIN record.att : record.att[i] \in Row

(* The books balance whatever the order of settlements, corrections, edits  *)
(* and imports: the deductions add up to their total and, unless a special  *)
(* rule set the amounts, gross is the sum of its parts and net is gross     *)
(* less the deductions (buildCalculatedSalaryRecord,                        *)
(* buildPayrollHolidayCorrection and buildHistorySalaryEdit each compute    *)
(* the totals in a way of their own).                                       *)
BooksBalance ==
    Settled =>
        /\ record.custom + Total(record.leave) = record.totalDeductions
        /\ ~record.ruled =>
              /\ record.gross = GrossSalary(record.base, record.otPay, record.holidayPay,
                                            record.welfare) + record.cash
              /\ record.net = record.gross - record.totalDeductions

(* A leave is deducted exactly once and at the rate of the settlement: the  *)
(* leave items of a record no one edited are those of its snapshot on its   *)
(* original basis, even after a raise of the base salary; and a settlement  *)
(* at the desk never deducts one day twice (the page's own items, the       *)
(* server's, a correction's and two rows of one day all meet here).         *)
LeaveAccounted ==
    Settled /\ ~record.touched =>
        /\ record.leave = LeaveItems(record.att, record.basis)
        /\ record.by = "desk" =>
              \A x, y \in record.leave : x.name[3] = y.name[3] => x = y

(* Corrections are differences, and the path does not matter: however often *)
(* days were re-marked and the base edited in between, the holiday pay is   *)
(* the settled one plus the worked days of the present snapshot less those  *)
(* of the settled one, on the settled basis.                                *)
PathIndependent ==
    Settled => record.holidayPay - record.settledPay
                 = WorkedHolidayPay(record.att, record.basis)
                     - WorkedHolidayPay(record.settledAtt, record.basis)

(* What the administrator confirmed is what is stored: unless the settings  *)
(* changed after the preview, a special rule applies or a leave covers part *)
(* of a day, the net of a settlement at the desk differs from the net of    *)
(* the preview by rounding only, at most one unit a row.                    *)
PartDay(att) ==
    \E i \in DOMAIN att : att[i].type \in {"sick_leave", "personal_leave"}
                            /\ Timed(att[i])
SettledAsPreviewed ==
    [][Finalize /\ preview.tariff = tariff /\ ~record'.ruled /\ ~PartDay(preview.att)
         => LET d == record'.net - preview.net
            IN  Max({d, -d}) <= Cardinality(DOMAIN preview.att)]_vars

(* A changed rule takes effect without a restart: when every reload has     *)
(* ended, none of them failed and no two overlapped, the rules in memory    *)
(* are the active rules of the database (reloadCalculationRulesFromDb).     *)
RulesInEffect ==
    (\A q \in Requests : reload[q] = Idle) /\ ~doubtful => rules = dbRules

(* The books are sound: every stored record passes the financial snapshot   *)
(* check, adds up along each of the three paths that compute its totals,    *)
(* and the rules applied next are the ones in the database.                 *)
BooksSound == TypeOK /\ RulesInEffect /\ BooksBalance
============================================================================
