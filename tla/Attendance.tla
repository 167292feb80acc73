----------------------------- MODULE Attendance -----------------------------
(***************************************************************************)
(* The temporary_attendance table of one employee, the clock the server     *)
(* stamps punches with, and the administrator's attendance routes.          *)
(*                                                                          *)
(* Both punch channels (LINE, kiosk) serialize on an advisory lock keyed by *)
(* the employee, and every row, event and journal belongs to one employee,  *)
(* so one employee is modelled.  A clock value is a tick; the wall clock    *)
(* "HH:MM" a row stores is the tick within its day.                         *)
(***************************************************************************)
EXTENDS Integers

CONSTANTS
    DayTicks,   \* ticks between two midnights (Asia/Taipei)
    MaxTime,    \* bound: the last tick explored
    MaxWrites,  \* bound: attendance writes explored
    AdminOps    \* which administrator routes take part in this instance

ASSUME DayTicksAssumption == DayTicks \in Nat \ {0}
ASSUME AttendanceBoundsAssumption == MaxTime \in Nat /\ MaxWrites \in Nat
ASSUME AdminOpsAssumption == AdminOps \subseteq {"create", "update", "delete", "account"}

VARIABLES
    now,   \* the server's clock
    rows,  \* the employee's temporary_attendance rows
    xid,   \* last value given out for row ids and row versions (xmin)
    account  \* the employees row: active, inactive, without LINE binding, or trashed

attendanceVars == <<now, rows, xid, account>>

NoTime == -1    \* an empty clock_out column

Accounts == {"active", "inactive", "unbound", "trashed"}
Dates == Int
TimesOfDay == 0 .. (DayTicks - 1)

(* A row: its serial id, its date, clock_in, clock_out and its xmin.        *)
Row == [id : Nat, date : Dates, in : TimesOfDay,
        out : TimesOfDay \cup {NoTime}, rev : Nat]

(* getTaiwanDateTimeParts: a tick becomes a date and a wall-clock time, and *)
(* the time no longer tells which day it was.                               *)
DateOf(t) == t \div DayTicks
TimeOf(t) == t % DayTicks

RowsOn(d) == {r \in rows : r.date = d}

IncompleteAny(R) == R    \* mutant body: closed rows are not filtered out
Incomplete(R) == {r \in R : r.out = NoTime}

(* compareAttendanceByLatestEvent on incomplete rows: the later clock-in    *)
(* first, then the row created last (creation order is id order).           *)
AtLeastAsLate(r, s) == r.in > s.in \/ (r.in = s.in /\ r.id >= s.id)

LatestIncomplete(R) ==
    CHOOSE r \in Incomplete(R) : \A s \in Incomplete(R) : AtLeastAsLate(r, s)

PendingAction(R) == IF Incomplete(R) = {} THEN "clockIn" ELSE "clockOut"

ClosedRow(r, time) ==
    [id |-> r.id, date |-> r.date, in |-> r.in, out |-> time, rev |-> xid + 1]

(* The punch both channels perform once they hold the employee's lock:      *)
(* close the latest open row of the day, or open a new one.                 *)
PunchedRow(R, d, time) ==
    IF Incomplete(R) = {}
    THEN [id |-> xid + 1, date |-> d, in |-> time, out |-> NoTime, rev |-> xid + 1]
    ELSE ClosedRow(LatestIncomplete(R), time)

(* Mutant body: the punch replaces the day's rows.                          *)
AfterPunchByDate(R, d, time) ==
    {r \in rows : r.date # d} \cup {PunchedRow(R, d, time)}

AfterPunch(R, d, time) ==
    {r \in rows : r.id # PunchedRow(R, d, time).id} \cup {PunchedRow(R, d, time)}

-----------------------------------------------------------------------------
AttendanceInit == now = 0 /\ rows = {} /\ xid = 0 /\ account = "active"

Tick == now < MaxTime /\ now' = now + 1 /\ UNCHANGED <<rows, xid, account>>

(* The rows as the statements behind the routes leave them: an inserted row,*)
(* an updated one, and the table after one row or all of them are deleted.  *)
AddedRow(d, i, o) == [id |-> xid + 1, date |-> d, in |-> i, out |-> o, rev |-> xid + 1]
RewrittenRow(r, d, i, o) == [id |-> r.id, date |-> d, in |-> i, out |-> o, rev |-> xid + 1]
RowsAfterDelete == {rows \ {r} : r \in rows} \cup {{}}

(* POST /api/attendance: the administrator adds any row.                    *)
AdminCreate ==
    /\ "create" \in AdminOps /\ xid < MaxWrites
    /\ \E d \in 0 .. DateOf(MaxTime), i \in TimesOfDay, o \in TimesOfDay \cup {NoTime} :
          rows' = rows \cup {AddedRow(d, i, o)}
    /\ xid' = xid + 1
    /\ UNCHANGED <<now, account>>

(* PUT /api/attendance/:id: any of the columns may change.                  *)
AdminUpdate ==
    /\ "update" \in AdminOps /\ xid < MaxWrites
    /\ \E r \in rows, d \in 0 .. DateOf(MaxTime), i \in TimesOfDay, o \in TimesOfDay \cup {NoTime} :
          rows' = (rows \ {r}) \cup {RewrittenRow(r, d, i, o)}
    /\ xid' = xid + 1
    /\ UNCHANGED <<now, account>>

(* DELETE /api/attendance/:id removes one row; DELETE /api/attendance and   *)
(* DELETE /api/attendance/employee/:id remove them all.                     *)
AdminDelete ==
    /\ "delete" \in AdminOps /\ rows # {}
    /\ rows' \in RowsAfterDelete
    /\ UNCHANGED <<now, xid, account>>

(* The administrator deactivates, unbinds, trashes or restores the          *)
(* employee; trashing drops the LINE binding.                               *)
SetAccount ==
    /\ "account" \in AdminOps
    /\ account' \in Accounts \ {account}
    /\ account = "trashed" => account' = "unbound"
    /\ UNCHANGED <<now, rows, xid>>

AttendanceNext == Tick \/ AdminCreate \/ AdminUpdate \/ AdminDelete \/ SetAccount

AttendanceTypeOK ==
    /\ now \in Nat /\ xid \in Nat /\ rows \subseteq Row /\ account \in Accounts

(* Ids and versions are values handed out so far, and an id names one row.  *)
RowsKeyed ==
    /\ \A r \in rows : r.id <= xid /\ r.rev <= xid
    /\ \A r, s \in rows : r.id = s.id => r = s
=============================================================================
