------------------------------- MODULE LeaveDesk -------------------------------
(***************************************************************************)
(* The special leave of one employee is kept twice: as the list of the     *)
(* employee row and as special_leave holidays.  Saving the list and        *)
(* deleting a holiday each bring the other in line, one statement at a     *)
(* time, without a transaction and swallowing errors.  The attendance rows *)
(* made for holidays do not bear on either; module Backup has them.        *)
(***************************************************************************)
EXTENDS Integers, FiniteSets

CONSTANTS LeaveDays,     \* the dates in play
          LeaveRequests, \* bound: requests under way at once
          MaxHolidayId   \* bound: holidays created

ASSUME LeaveAssumption == LeaveDays \subseteq Nat /\ MaxHolidayId \in Nat

VARIABLES leaveList, \* employees.special_leave_used_dates
          holidays,  \* the employee's holidays, special ones and others
          holidayId, \* the last id given to a holiday
          form,      \* the dates the special leave card shows
          asked,     \* request -> how far the server is with it
          torn       \* history: a step failed, holidays were cleared, or a removal met another request

leaveVars == <<leaveList, holidays, holidayId, form, asked, torn>>

\* A holiday of the employee, told apart by its date and by special_leave.
Holiday == [id : Nat, day : LeaveDays, special : BOOLEAN]

Idle == [at |-> "idle"]

\* The order of a loop over dates, and over the holidays of one date.
Next1(S) == CHOOSE x \in S : \A y \in S : x <= y
NextHoliday(H) == CHOOSE h \in H : \A g \in H : h.id <= g.id

LeaveInit ==
  /\ leaveList = {} /\ holidays = {} /\ holidayId = 0 /\ form = {}
  /\ asked = [r \in LeaveRequests |-> Idle] /\ torn = FALSE

Goes(r, step) == asked' = [asked EXCEPT ![r] = step]

Started == {r \in LeaveRequests : asked[r].at \notin {"idle", "sent"}}

\* History: a request that removes dates runs beside another one on the list.
Meets(r, removed) ==
  torn' = (torn \/ \E s \in Started \ {r} : removed # {} \/ asked[s].removed # {})

-----------------------------------------------------------------------------
(* The card (SpecialLeaveCounter).  Nothing stops a second save while one  *)
(* is under way, and each carries the whole list as the card shows it.     *)

\* The effect on the employee's leave data.
CardLoads ==
  /\ form' = leaveList
  /\ UNCHANGED <<leaveList, holidays, holidayId, asked, torn>>

\* handleAddLeaveDate, handleRemoveLeaveDate and handleSave.
SaveUsedDates(r, dates) ==
  /\ asked[r] = Idle
  /\ \/ dates = form
     \/ \E d \in LeaveDays : dates = form \cup {d} \/ dates = form \ {d}
  /\ form' = dates
  /\ Goes(r, [at |-> "sent", dates |-> dates, removed |-> {}])
  /\ UNCHANGED <<leaveList, holidays, holidayId, torn>>

-----------------------------------------------------------------------------
(* PATCH /api/employees/:id.                                               *)

\* getEmployeeById and diffSpecialLeaveDates.
ReadList(r) ==
  /\ asked[r].at = "sent"
  /\ LET removed == leaveList \ asked[r].dates IN
     /\ Goes(r, [at |-> "diff", dates |-> asked[r].dates,
                 added |-> asked[r].dates \ leaveList, removed |-> removed])
     /\ Meets(r, removed)
  /\ UNCHANGED <<leaveList, holidays, holidayId, form>>

\* getAllHolidays: one copy for the whole synchronisation.
ReadHolidays(r) ==
  LET step == asked[r] IN
  /\ step.at = "diff"
  /\ Goes(r, IF step.added \cup step.removed = {}
             THEN [at |-> "save", dates |-> step.dates, removed |-> {}]
             ELSE [at |-> "sync", dates |-> step.dates, added |-> step.added,
                   removed |-> step.removed, left |-> step.removed,
                   all |-> {h \in holidays : h.special}])
  /\ UNCHANGED <<leaveList, holidays, holidayId, form, torn>>

\* storage.createHoliday.
Created(d, special) ==
  /\ holidayId < MaxHolidayId /\ holidayId' = holidayId + 1
  /\ holidays' = holidays \cup {[id |-> holidayId + 1, day |-> d, special |-> special]}

\* Mutant: any holiday on the date will do.
ListedHoliday(all, d) == \E h \in holidays : h.day = d
SpecialHoliday(all, d) == \E h \in all : h.day = d

\* createHoliday for the next added date, unless the copy has one.
AddDate(r) ==
  LET step == asked[r] IN
  /\ step.at = "sync" /\ step.added # {}
  /\ LET d == Next1(step.added) IN
     /\ Goes(r, [step EXCEPT !.added = @ \ {d}])
     /\ IF SpecialHoliday(step.all, d) THEN UNCHANGED <<holidays, holidayId>>
        ELSE Created(d, TRUE)
  /\ UNCHANGED <<leaveList, form, torn>>

\* The special holidays of the next removed date go, one after another.
RemoveDate(r) ==
  LET step == asked[r] IN
  /\ step.at = "sync" /\ step.added = {} /\ step.left # {}
  /\ LET d == Next1(step.left)
         gone == {h \in step.all : h.day = d}
     IN  IF gone = {}
         THEN Goes(r, [step EXCEPT !.left = @ \ {d}]) /\ UNCHANGED holidays
         ELSE /\ holidays' = holidays \ {NextHoliday(gone)}
              /\ Goes(r, [step EXCEPT !.all = @ \ {NextHoliday(gone)}])
  /\ UNCHANGED <<leaveList, holidayId, form, torn>>

\* A failed statement is logged; the loop goes on with the next date.
DateFails(r) ==
  LET step == asked[r] IN
  /\ step.at = "sync" /\ step.added \cup step.left # {}
  /\ Goes(r, IF step.added # {}
             THEN [step EXCEPT !.added = @ \ {Next1(@)}]
             ELSE [step EXCEPT !.left = @ \ {Next1(@)}])
  /\ torn' = TRUE
  /\ UNCHANGED <<leaveList, holidays, holidayId, form>>

\* updateEmployee stores the list of the request, whatever it is by now.
SaveList(r) ==
  LET step == asked[r] IN
  /\ \/ step.at = "save"
     \/ step.at = "sync" /\ step.added \cup step.left = {}
  /\ leaveList' = step.dates /\ Goes(r, Idle)
  /\ UNCHANGED <<holidays, holidayId, form, torn>>

-----------------------------------------------------------------------------
(* The holiday routes.                                                     *)

\* POST /api/holidays.
CreateHoliday(d, special) ==
  Created(d, special) /\ UNCHANGED <<leaveList, form, asked, torn>>

\* DELETE /api/holidays/:id reads the holiday.
ReadHoliday(r, h) ==
  /\ asked[r] = Idle /\ h \in holidays
  /\ LET removed == IF h.special THEN {h.day} ELSE {} IN
     /\ Goes(r, [at |-> IF h.special THEN "unlist" ELSE "drop",
                 holiday |-> h, removed |-> removed])
     /\ Meets(r, removed)
  /\ UNCHANGED <<leaveList, holidays, holidayId, form>>

\* syncDeletedSpecialLeaveHoliday: the list is read, and written in the next step
\* if the date is on it.
ReadListForHoliday(r) ==
  LET step == asked[r] IN
  /\ step.at = "unlist"
  /\ IF step.holiday.day \in leaveList
     THEN Goes(r, [at |-> "unlisted", holiday |-> step.holiday, removed |-> step.removed,
                   dates |-> leaveList \ {step.holiday.day}])
     ELSE Goes(r, [step EXCEPT !.at = "drop"])
  /\ UNCHANGED <<leaveList, holidays, holidayId, form, torn>>

UnlistHoliday(r) ==
  LET step == asked[r] IN
  /\ step.at = "unlisted"
  /\ Goes(r, [at |-> "drop", holiday |-> step.holiday, removed |-> step.removed])
  /\ \/ leaveList' = step.dates /\ UNCHANGED torn
     \/ UNCHANGED leaveList /\ torn' = TRUE
  /\ UNCHANGED <<holidays, holidayId, form>>

DropHoliday(r) ==
  /\ asked[r].at = "drop"
  /\ holidays' = holidays \ {asked[r].holiday} /\ Goes(r, Idle)
  /\ UNCHANGED <<leaveList, holidayId, form, torn>>

\* DELETE /api/holidays touches neither the list nor the rows.
ClearHolidays ==
  /\ holidays # {} /\ holidays' = {} /\ torn' = TRUE
  /\ UNCHANGED <<leaveList, holidayId, form, asked>>

\* The server dies, or the statement that ends the request fails.
RequestDies(r) ==
  /\ asked[r] # Idle /\ Goes(r, Idle)
  /\ torn' = (torn \/ asked[r].at # "sent")
  /\ UNCHANGED <<leaveList, holidays, holidayId, form>>

LeaveNext ==
  \/ CardLoads \/ ClearHolidays
  \/ \E d \in LeaveDays, special \in BOOLEAN : CreateHoliday(d, special)
  \/ \E r \in LeaveRequests :
       \/ \E dates \in SUBSET LeaveDays : SaveUsedDates(r, dates)
       \/ ReadList(r) \/ ReadHolidays(r) \/ AddDate(r)
       \/ RemoveDate(r) \/ DateFails(r) \/ SaveList(r)
       \/ \E h \in holidays : ReadHoliday(r, h)
       \/ ReadListForHoliday(r) \/ UnlistHoliday(r)
       \/ DropHoliday(r) \/ RequestDies(r)

-----------------------------------------------------------------------------
(* Properties.                                                             *)

LeaveTypeOK ==
  /\ leaveList \subseteq LeaveDays /\ form \subseteq LeaveDays
  /\ holidays \subseteq Holiday /\ (\A h \in holidays : h.id \in 1 .. holidayId)
  /\ holidayId \in 0 .. MaxHolidayId /\ torn \in BOOLEAN
  /\ \A r \in LeaveRequests :
       asked[r].at \in {"idle", "sent", "diff", "sync", "save", "unlist", "unlisted", "drop"}

\* With no request under way, every date on the employee's list has its
\* special_leave holiday, however many additions overlapped, from however old a
\* card, and whichever holiday of which type was added or deleted meanwhile.  It
\* is not kept by a failed or killed step, by clearing all holidays, or by a
\* removal that runs beside another request: nothing heals those.
LeaveBacked ==
  (\A r \in LeaveRequests : asked[r] = Idle) /\ ~torn =>
    \A d \in leaveList : \E h \in holidays : h.special /\ h.day = d
=============================================================================
