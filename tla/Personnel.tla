------------------------------ MODULE Personnel ------------------------------
(***************************************************************************)
(* The employees table and what hangs on it: the recycle bin, restore,     *)
(* permanent purge, the retention cycle, LINE binding requests and their   *)
(* review, and the handlers that insert attendance and salary rows for an  *)
(* employee they have read before.                                         *)
(*                                                                         *)
(* Every handler that awaits between a read and a write keeps what it read *)
(* in req[r]; PostgreSQL runs the transactions at READ COMMITTED, so the   *)
(* rows may change in between.  The statements of one transaction after    *)
(* its last read become visible together, at the commit.                   *)
(***************************************************************************)
EXTENDS LineLogin

CONSTANTS Employees, BindingIds, Requests, MaxRequests

ASSUME PersonnelAssumption ==
  MaxRequests \in Nat /\ Nobody \notin Employees \cup BindingIds

VARIABLES emp,          \* employees: state, active flag, bound account, retention over
          binding,      \* pending_line_bindings: who, which account, status
          attendance,   \* employees with rows in temporary_attendance
          salary,       \* employee -> salary_records: "none", "named", "anonymous"
          req,          \* request slot -> the handler being run
          paused,       \* the payroll write pause
          served,       \* handlers begun so far, at most MaxRequests
          granted,      \* history: accounts approved since the employee was last binned
          late          \* history: employees written to by a handler that outlived them

tables == <<emp, binding, attendance, salary>>
personnelVars == <<emp, binding, attendance, salary, req, paused, served, granted, late>>
vars == <<loginVars, personnelVars>>

Idle == [op |-> "idle", e |-> Nobody, a |-> Nobody, b |-> Nobody, todo |-> {}]
NoBinding == [e |-> Nobody, a |-> Nobody, status |-> "unused"]
Hired == [state |-> "current", active |-> TRUE, line |-> Nobody, due |-> FALSE]

TypeOK ==
  /\ LoginTypeOK
  /\ emp \in [Employees -> [state : {"current", "trashed", "purged"}, active : BOOLEAN,
                            line : Accounts \cup {Nobody}, due : BOOLEAN]]
  /\ binding \in [BindingIds -> [e : Employees \cup {Nobody}, a : Accounts \cup {Nobody},
                   status : {"unused", "pending", "approved", "rejected", "gone"}]]
  /\ \A b \in BindingIds : binding[b].status # "unused" => binding[b].a \in Accounts
  /\ attendance \subseteq Employees
  /\ salary \in [Employees -> {"none", "named", "anonymous"}]
  /\ req \in [Requests ->
       [op : {"idle", "bind1", "bind2", "bind3", "approve", "purge", "cycle",
              "scan", "payroll", "update"},
        e : Employees \cup {Nobody}, a : Accounts \cup {Nobody},
        b : BindingIds \cup {Nobody}, todo : SUBSET Employees]]
  /\ paused \in BOOLEAN /\ served \in 0 .. MaxRequests
  /\ granted \subseteq Employees \X Accounts /\ late \subseteq Employees

Init ==
  /\ LoginInit
  /\ emp = [e \in Employees |-> Hired]
  /\ binding = [b \in BindingIds |-> NoBinding]
  /\ attendance = {} /\ salary = [e \in Employees |-> "none"]
  /\ req = [r \in Requests |-> Idle] /\ paused = FALSE /\ served = 0
  /\ granted = {} /\ late = {}

Current(e) == emp[e].state = "current"
\* getEmployeeByLineUserId: a binned employee is not found.
BoundTo(a) == {e \in Employees : Current(e) /\ emp[e].line = a}
OpenBinding(a) == \E b \in BindingIds : binding[b].a = a /\ binding[b].status = "pending"

Begin(r, record) ==
  /\ req[r] = Idle /\ served < MaxRequests
  /\ req' = [req EXCEPT ![r] = record]
  /\ served' = served + 1
End(r) == req' = [req EXCEPT ![r] = Idle] /\ UNCHANGED served
Go(r, op) == req' = [req EXCEPT ![r].op = op] /\ UNCHANGED served
Once == served < MaxRequests /\ served' = served + 1 /\ UNCHANGED req

NoTable == UNCHANGED <<tables, paused, granted, late>>

-----------------------------------------------------------------------------
(* POST /api/line/bind: four statements, each awaited.                     *)

BindRequest(r, br, e) ==
  /\ session[br].line # Nobody
  /\ BoundTo(session[br].line) = {}
  /\ Begin(r, [Idle EXCEPT !.op = "bind1", !.e = e, !.a = session[br].line])
  /\ NoTable

BindEmployee(r) ==
  /\ req[r].op = "bind1"
  /\ IF Current(req[r].e) /\ emp[req[r].e].active THEN Go(r, "bind2") ELSE End(r)
  /\ NoTable

BindExisting(r) ==
  /\ req[r].op = "bind2"
  /\ IF OpenBinding(req[r].a) THEN End(r) ELSE Go(r, "bind3")
  /\ NoTable

\* createPendingBinding; the foreign key refuses an employee that is gone.
CreatePendingBinding(r) ==
  /\ req[r].op = "bind3"
  /\ End(r)
  /\ IF emp[req[r].e].state = "purged"
       THEN UNCHANGED binding
       ELSE \E b \in BindingIds :
              /\ binding[b].status = "unused"
              /\ binding' = [binding EXCEPT ![b] =
                   [e |-> req[r].e, a |-> req[r].a, status |-> "pending"]]
  /\ UNCHANGED <<emp, attendance, salary, paused, granted, late>>

-----------------------------------------------------------------------------
(* Review of a binding request by an administrator.                        *)

\* approvePendingBinding, the two SELECTs.
ApproveRead(r, b) ==
  /\ binding[b].status = "pending" /\ Current(binding[b].e)
  /\ Begin(r, [Idle EXCEPT !.op = "approve", !.e = binding[b].e,
                           !.a = binding[b].a, !.b = b])
  /\ NoTable

\* ... and the two UPDATEs, by id alone.
ApproveWrite(r) ==
  /\ req[r].op = "approve"
  /\ End(r)
  /\ LET q == req[r] IN
       /\ IF emp[q.e].state = "purged"
            THEN UNCHANGED <<emp, granted>>
            ELSE /\ emp' = [emp EXCEPT ![q.e].line = q.a]
                 /\ granted' = granted \cup {<<q.e, q.a>>}
       /\ binding' = [binding EXCEPT ![q.b].status =
                        IF @ = "gone" THEN "gone" ELSE "approved"]
  /\ UNCHANGED <<attendance, salary, paused, late>>

\* rejectPendingBinding: one UPDATE by id, whatever the status.
RejectBinding(b) ==
  /\ binding[b].status \in {"pending", "approved"} /\ Once
  /\ binding' = [binding EXCEPT ![b].status = "rejected"]
  /\ UNCHANGED <<emp, attendance, salary, paused, granted, late>>

DeletePendingBinding(b) ==
  /\ binding[b].status \in {"pending", "approved", "rejected"} /\ Once
  /\ binding' = [binding EXCEPT ![b].status = "gone"]
  /\ UNCHANGED <<emp, attendance, salary, paused, granted, late>>

-----------------------------------------------------------------------------
(* The employee's life cycle.                                              *)

\* The rows of e in pending_line_bindings are deleted.
WithoutBindings(e) ==
  [b \in BindingIds |-> IF binding[b].e = e /\ binding[b].status # "unused"
                          THEN [binding[b] EXCEPT !.status = "gone"] ELSE binding[b]]

\* PUT/PATCH: updateEmployee reads the current row, then updates by id.
UpdateRead(r, e) ==
  /\ Current(e)
  /\ Begin(r, [Idle EXCEPT !.op = "update", !.e = e]) /\ NoTable

UpdateWrite(r) ==
  /\ req[r].op = "update" /\ End(r)
  /\ emp' = IF emp[req[r].e].state = "purged" THEN emp
            ELSE [emp EXCEPT ![req[r].e].active = ~@]
  /\ UNCHANGED <<binding, attendance, salary, paused, granted, late>>

\* Mutant: the account stays with the binned employee.
TrashEmployeeBound(e) ==
  /\ Current(e) /\ Once
  /\ binding' = WithoutBindings(e)
  /\ emp' = [emp EXCEPT ![e] = [@ EXCEPT !.state = "trashed", !.due = FALSE]]
  /\ granted' = {g \in granted : g[1] # e}
  /\ UNCHANGED <<attendance, salary, paused, late>>

\* deleteEmployee: trashEmployee's transaction.
TrashEmployee(e) ==
  /\ Current(e) /\ Once
  /\ binding' = WithoutBindings(e)
  /\ emp' = [emp EXCEPT ![e] = [@ EXCEPT !.state = "trashed", !.line = Nobody, !.due = FALSE]]
  /\ granted' = {g \in granted : g[1] # e}
  /\ UNCHANGED <<attendance, salary, paused, late>>

RestoreEmployee(e) ==
  /\ emp[e].state = "trashed" /\ Once
  /\ emp' = [emp EXCEPT ![e] = [@ EXCEPT !.state = "current", !.due = FALSE]]
  /\ UNCHANGED <<binding, attendance, salary, paused, granted, late>>

\* Thirty days pass: purgeAfterAt is reached.
RetentionOver(e) ==
  /\ emp[e].state = "trashed" /\ ~emp[e].due
  /\ emp' = [emp EXCEPT ![e].due = TRUE]
  /\ UNCHANGED <<binding, attendance, salary, req, paused, served, granted, late>>

\* The confirmed purge of the recycle bin: purgeEmployee selects the row ...
PurgeSelect(r, e) ==
  /\ ~paused /\ emp[e].state = "trashed"
  /\ Begin(r, [Idle EXCEPT !.op = "purge", !.e = e]) /\ NoTable

\* Mutant: the cycle runs only right after start-up, before any request.
RetentionCycleOnce(r) ==
  LET expired == {e \in Employees : emp[e].state = "trashed" /\ emp[e].due} IN
  /\ ~paused /\ expired # {} /\ req[r] = Idle /\ served = 0
  /\ req' = [req EXCEPT ![r] = [Idle EXCEPT !.op = "cycle", !.todo = expired]]
  /\ UNCHANGED served /\ NoTable

\* The retention cycle: the expired rows are listed, then purged one by one.
RetentionCycle(r) ==
  LET expired == {e \in Employees : emp[e].state = "trashed" /\ emp[e].due} IN
  /\ ~paused /\ expired # {} /\ req[r] = Idle
  /\ req' = [req EXCEPT ![r] = [Idle EXCEPT !.op = "cycle", !.todo = expired]]
  /\ UNCHANGED served /\ NoTable

CyclePurge(r, e) ==
  /\ req[r].op = "cycle" /\ e \in req[r].todo
  /\ UNCHANGED served /\ NoTable
  /\ IF paused
       THEN req' = [req EXCEPT ![r] = Idle]      \* assertPayrollWritesEnabled throws
       ELSE IF emp[e].state # "trashed"
       THEN req' = [req EXCEPT ![r] = IF req[r].todo = {e} THEN Idle
                                      ELSE [req[r] EXCEPT !.todo = @ \ {e}]]
       ELSE req' = [req EXCEPT ![r].op = "purge", ![r].e = e, ![r].todo = @ \ {e}]

\* Mutant: the purge forgets the attendance rows.
PurgeWriteKeepsRows(r) ==
  /\ req[r].op = "purge"
  /\ LET e == req[r].e IN
       /\ req' = [req EXCEPT ![r] = IF req[r].todo = {} THEN Idle
                   ELSE [Idle EXCEPT !.op = "cycle", !.todo = req[r].todo]]
       /\ emp' = [emp EXCEPT ![e] = [@ EXCEPT !.state = "purged", !.line = Nobody]]
       /\ salary' = [salary EXCEPT ![e] = IF @ = "named" THEN "anonymous" ELSE @]
       /\ binding' = WithoutBindings(e)
       /\ granted' = {g \in granted : g[1] # e}
  /\ UNCHANGED <<attendance, served, paused, late>>

\* ... then anonymises, deletes and removes the row by id.
PurgeWrite(r) ==
  /\ req[r].op = "purge"
  /\ LET e == req[r].e IN
       /\ req' = [req EXCEPT ![r] = IF req[r].todo = {} THEN Idle
                   ELSE [Idle EXCEPT !.op = "cycle", !.todo = req[r].todo]]
       /\ emp' = [emp EXCEPT ![e] = [@ EXCEPT !.state = "purged", !.line = Nobody]]
       /\ salary' = [salary EXCEPT ![e] = IF @ = "named" THEN "anonymous" ELSE @]
       /\ binding' = WithoutBindings(e)
       /\ attendance' = attendance \ {e}
       /\ granted' = {g \in granted : g[1] # e}
  /\ UNCHANGED <<served, paused, late>>

-----------------------------------------------------------------------------
(* Handlers that look the employee up and insert a row for it later.       *)

EmployeeRead(r, e, op) ==
  /\ op \in {"scan", "payroll"} /\ Current(e)
  /\ Begin(r, [Idle EXCEPT !.op = op, !.e = e]) /\ NoTable

\* temporary_attendance and salary_records have no foreign key to employees.
RowInsert(r) ==
  /\ req[r].op \in {"scan", "payroll"} /\ End(r)
  /\ LET e == req[r].e IN
       /\ attendance' = IF req[r].op = "scan" THEN attendance \cup {e} ELSE attendance
       /\ salary' = IF req[r].op = "payroll" THEN [salary EXCEPT ![e] = "named"] ELSE salary
       /\ late' = IF emp[e].state = "purged" THEN late \cup {e} ELSE late
  /\ UNCHANGED <<emp, binding, paused, granted>>

\* PAYROLL_WRITES_PAUSED, switched by an operator.
PauseWrites ==
  /\ ~paused /\ Once /\ paused' = TRUE
  /\ UNCHANGED <<tables, granted, late>>
ResumeWrites ==
  /\ paused /\ paused' = FALSE
  /\ UNCHANGED <<tables, req, served, granted, late>>

-----------------------------------------------------------------------------
BindNext ==
  \/ \E r \in Requests, br \in Browsers, e \in Employees : BindRequest(r, br, e)
  \/ \E r \in Requests, b \in BindingIds : ApproveRead(r, b)
  \/ \E b \in BindingIds : RejectBinding(b) \/ DeletePendingBinding(b)
  \/ \E r \in Requests : \/ BindEmployee(r) \/ BindExisting(r)
                         \/ CreatePendingBinding(r) \/ ApproveWrite(r)

CycleStep == \E r \in Requests : RetentionCycle(r)
FinishPurge == \E r \in Requests : PurgeWrite(r) \/ \E e \in Employees : CyclePurge(r, e)

LifeNext ==
  \/ \E r \in Requests, e \in Employees : \/ UpdateRead(r, e) \/ PurgeSelect(r, e)
                                          \/ \E op \in {"scan", "payroll"} : EmployeeRead(r, e, op)
  \/ \E e \in Employees : TrashEmployee(e) \/ RestoreEmployee(e) \/ RetentionOver(e)
  \/ \E r \in Requests : UpdateWrite(r) \/ RowInsert(r)
  \/ CycleStep \/ FinishPurge \/ PauseWrites \/ ResumeWrites

Next == \/ LoginNext /\ UNCHANGED personnelVars
        \/ (BindNext \/ LifeNext) /\ UNCHANGED loginVars

Spec == Init /\ [][Next]_vars

\* A handler that has begun runs to its end, the retention scheduler keeps
\* starting cycles, and a pause of the writes is lifted some day.
HandlerStep ==
  \E r \in Requests : \/ BindEmployee(r) \/ BindExisting(r) \/ CreatePendingBinding(r)
                       \/ ApproveWrite(r) \/ UpdateWrite(r) \/ RowInsert(r)
FairSpec == /\ Spec
            /\ WF_vars(HandlerStep /\ UNCHANGED loginVars)
            /\ WF_vars(CycleStep /\ UNCHANGED loginVars)
            /\ WF_vars(FinishPurge /\ UNCHANGED loginVars)
            /\ WF_vars(ResumeWrites /\ UNCHANGED loginVars)

-----------------------------------------------------------------------------
(* Properties.                                                             *)

\* A session carries an account only if LINE vouched for that account in this
\* very browser: by a LIFF token, or by the callback of a login that this
\* browser began.  A callback address opened elsewhere, twice, or after its
\* state expired logs nobody in (auth.routes.ts callback, consumeOAuthState).
SessionOwnLogin ==
  \A b \in Browsers : session[b].line # Nobody =>
    \/ <<b, session[b].line>> \in liff
    \/ \E s \in States : login[s].by = b /\ login[s].account = session[b].line

\* However often and concurrently its callback is opened, a state of
\* oauth_states logs in at most once (DELETE ... RETURNING).
LoginOnce == \A s \in States : login[s].times <= 1

\* An employee carries an account only if an administrator approved that very
\* account for them and they were not moved to the recycle bin after that
\* approval was written: binning clears the account, deletes the open requests,
\* and restoring brings neither back (trashEmployee, approvePendingBinding).
BoundByReview ==
  \A e \in Employees : emp[e].line # Nobody => <<e, emp[e].line>> \in granted

\* A purged employee leaves no binding, no attendance and no salary record in
\* their name, except what a handler that had read the employee before the
\* purge inserts afterwards (purgeEmployee).
PurgeErases ==
  \A e \in Employees : emp[e].state = "purged" =>
    /\ \A b \in BindingIds : binding[b].e = e => binding[b].status = "gone"
    /\ e \notin late => e \notin attendance /\ salary[e] # "named"

\* An employee whose retention is over is purged some day, or restored.
ExpiredPurged == \A e \in Employees : emp[e].due ~> ~emp[e].due \/ emp[e].state # "trashed"

\* Logging in is sound: typed, one login a state, and a session of a browser comes
\* from a login of that browser, however callbacks are copied or repeated.
LoginSound == TypeOK /\ SessionOwnLogin /\ LoginOnce
=============================================================================
