-------------------------------- MODULE RunDesk --------------------------------
(***************************************************************************)
(* The panel from which an administrator settles the previous month and    *)
(* mails its report, beside the scheduler that does the same by the clock. *)
(* Module MonthlyRun has what a run does; here a run only ends, and months *)
(* go by while panels stay open.  Mail is configured.                      *)
(***************************************************************************)
EXTENDS Integers

CONSTANTS Panels,      \* the panels open
          RunRequests, \* bound: requests under way at once
          MaxMonth     \* bound: the last month on the calendar

ASSUME RunDeskAssumption == MaxMonth \in Nat /\ MaxMonth >= 2

VARIABLES month,     \* the server's local month
          hourCome,  \* the hour of the first of the month has come (shouldRun)
          panel,     \* panel -> the month it shows, the one it asks about, its request, its word
          order,     \* request -> how far the server is with it
          scheduled, \* the month the scheduler is running, 0 if none
          runStatus, \* month -> status of monthly_salary_runs
          mailed,    \* the months whose report went out
          forced,    \* history: the months run on request
          confirmed  \* history: the months an administrator confirmed

runDeskVars == <<month, hourCome, panel, order, scheduled, runStatus, mailed, forced, confirmed>>

Months == 1 .. MaxMonth
NoneAwaited == "none"
Quiet == [what |-> "nothing", month |-> 0]
NewPanel == [shown |-> 0, asks |-> 0, awaits |-> NoneAwaited, last |-> 0, says |-> Quiet]
NoOrder == [at |-> "none", month |-> 0]

RunDeskInit ==
  /\ month = 2 /\ hourCome = FALSE /\ scheduled = 0
  /\ panel = [g \in Panels |-> NewPanel] /\ order = [r \in RunRequests |-> NoOrder]
  /\ runStatus = [m \in Months |-> "none"]
  /\ mailed = {} /\ forced = {} /\ confirmed = {}

-----------------------------------------------------------------------------
(* The panel (SalaryAutomationPanel).                                      *)

\* getPreviousSalaryMonthTarget, with the calendar counted on from year to year.
PreviousMonth == month - 1

\* The page is loaded; loadConfig fetches the month to offer, and may fail.
LoadConfig(g) ==
  /\ \E m \in {0, PreviousMonth} : panel' = [panel EXCEPT ![g] = [NewPanel EXCEPT !.shown = m]]
  /\ UNCHANGED <<month, hourCome, order, scheduled, runStatus, mailed, forced, confirmed>>

\* The dialog keeps the month it was opened for ...
OpenConfirmation(g) ==
  /\ panel[g].shown # 0 /\ panel[g].awaits = NoneAwaited
  /\ panel' = [panel EXCEPT ![g].asks = panel[g].shown]
  /\ UNCHANGED <<month, hourCome, order, scheduled, runStatus, mailed, forced, confirmed>>

\* ... until it is cancelled or closed, which it cannot be while a run is under way.
CancelConfirmation(g) ==
  /\ panel[g].asks # 0 /\ panel[g].awaits = NoneAwaited
  /\ panel' = [panel EXCEPT ![g].asks = 0]
  /\ UNCHANGED <<month, hourCome, order, scheduled, runStatus, mailed, forced, confirmed>>

\* handleRun; settings not saved yet hold it back.
HandleRun(g, r) ==
  LET m == panel[g].asks IN
  /\ m # 0 /\ panel[g].awaits = NoneAwaited /\ order[r] = NoOrder
  /\ panel' = [panel EXCEPT ![g].awaits = r, ![g].last = m, ![g].says = Quiet]
  /\ order' = [order EXCEPT ![r] = [at |-> "sent", month |-> m]]
  /\ confirmed' = confirmed \cup {m}
  /\ UNCHANGED <<month, hourCome, scheduled, runStatus, mailed, forced>>

\* apiRequest sends once more what it has no answer to; the first may have arrived.
RequestRepeated(g, r) ==
  /\ panel[g].awaits # NoneAwaited /\ order[r] = NoOrder
  /\ order' = [order EXCEPT ![r] = [at |-> "sent", month |-> panel[g].last]]
  /\ panel' = [panel EXCEPT ![g].awaits = r]
  /\ UNCHANGED <<month, hourCome, scheduled, runStatus, mailed, forced, confirmed>>

\* The panel shows the month the answer names and closes the dialog; without a
\* result, or with a failure, it leaves the outcome open and the dialog too.
RunAnswered(g) ==
  LET r == panel[g].awaits
      q == order[r]
      word == [what |-> q.at, month |-> q.month]
  IN
  /\ r # NoneAwaited
  /\ \/ /\ q.at \in {"succeeded", "skipped"}
        /\ panel' = [panel EXCEPT ![g].awaits = NoneAwaited, ![g].asks = 0, ![g].says = word]
     \/ panel' = [panel EXCEPT ![g].awaits = NoneAwaited]
  /\ order' = [order EXCEPT ![r] = IF q.at \in {"sent", "running"} THEN q ELSE NoOrder]
  /\ UNCHANGED <<month, hourCome, scheduled, runStatus, mailed, forced, confirmed>>

-----------------------------------------------------------------------------
(* The server.                                                             *)

Free(m, force) == runStatus[m] # "running" /\ (force \/ runStatus[m] # "succeeded")

Awaited(r) == \E g \in Panels : panel[g].awaits = r

\* The month of a request: the one it names.
RunTargetNow(q) == PreviousMonth    \* mutant body: the previous month on arrival
RunTarget(q) == q.month

\* POST /api/salary-automation/run; a month that is running, or writes that are
\* paused, skip it.
ServeRun(r) ==
  LET m == RunTarget(order[r]) IN
  /\ order[r].at = "sent"
  /\ \/ /\ Free(m, TRUE) /\ forced' = forced \cup {m}
        /\ order' = [order EXCEPT ![r] = [at |-> "running", month |-> m]]
        /\ runStatus' = [runStatus EXCEPT ![m] = "running"]
     \/ /\ order' = [order EXCEPT ![r] = [at |-> "skipped", month |-> m]]
        /\ UNCHANGED <<runStatus, forced>>
  /\ UNCHANGED <<month, hourCome, panel, scheduled, mailed, confirmed>>

\* How a run of m ends: mailed, without records, or with an error before or after
\* its report went out.
Ends(m, end) ==
  /\ runStatus' = [runStatus EXCEPT ![m] = end]
  /\ \/ end # "skipped" /\ mailed' = mailed \cup {m}
     \/ end # "succeeded" /\ UNCHANGED mailed

RunEnds(r, end) ==
  /\ order[r].at = "running" /\ Ends(order[r].month, end)
  /\ order' = [order EXCEPT ![r].at = end]
  /\ UNCHANGED <<month, hourCome, panel, scheduled, forced, confirmed>>

\* Nobody waits for the answer any more.
AnswerDropped(r) ==
  /\ ~Awaited(r) /\ order[r].at \in {"succeeded", "skipped", "failed"}
  /\ order' = [order EXCEPT ![r] = NoOrder]
  /\ UNCHANGED <<month, hourCome, panel, scheduled, runStatus, mailed, forced, confirmed>>

\* The scheduler's tick, one run at a time, from the hour of the first on.
SchedulerTick ==
  /\ hourCome /\ scheduled = 0 /\ Free(PreviousMonth, FALSE)
  /\ scheduled' = PreviousMonth
  /\ runStatus' = [runStatus EXCEPT ![PreviousMonth] = "running"]
  /\ UNCHANGED <<month, hourCome, panel, order, mailed, forced, confirmed>>

ScheduledEnds(end) ==
  /\ scheduled # 0 /\ Ends(scheduled, end) /\ scheduled' = 0
  /\ UNCHANGED <<month, hourCome, panel, order, forced, confirmed>>

\* The process dies: its runs stay "running".
ServerDies ==
  /\ order' = [r \in RunRequests |-> NoOrder] /\ scheduled' = 0
  /\ panel' = [g \in Panels |-> [panel[g] EXCEPT !.awaits = NoneAwaited]]
  /\ UNCHANGED <<month, hourCome, runStatus, mailed, forced, confirmed>>

TimePasses ==
  /\ \/ ~hourCome /\ hourCome' = TRUE /\ UNCHANGED month
     \/ month < MaxMonth /\ month' = month + 1 /\ hourCome' = FALSE
  /\ UNCHANGED <<panel, order, scheduled, runStatus, mailed, forced, confirmed>>

RunDeskNext ==
  \/ \E g \in Panels :
       \/ LoadConfig(g) \/ OpenConfirmation(g) \/ CancelConfirmation(g) \/ RunAnswered(g)
       \/ \E r \in RunRequests : HandleRun(g, r) \/ RequestRepeated(g, r)
  \/ \E r \in RunRequests :
       \/ ServeRun(r) \/ AnswerDropped(r)
       \/ \E end \in {"succeeded", "skipped", "failed"} : RunEnds(r, end)
  \/ \E end \in {"succeeded", "skipped", "failed"} : ScheduledEnds(end)
  \/ SchedulerTick \/ ServerDies \/ TimePasses

-----------------------------------------------------------------------------
(* Properties.                                                             *)

RunDeskTypeOK ==
  /\ month \in Months /\ hourCome \in BOOLEAN /\ scheduled \in Months \cup {0}
  /\ \A g \in Panels : /\ panel[g].shown \in 0 .. MaxMonth /\ panel[g].asks \in 0 .. MaxMonth
                       /\ panel[g].awaits \in RunRequests \cup {NoneAwaited}
  /\ \A m \in Months :
       runStatus[m] \in {"none", "running", "succeeded", "failed", "skipped"}
  /\ mailed \cup forced \cup confirmed \subseteq Months

\* A settled month is settled anew, and its report mailed again, only when an
\* administrator was shown that month and confirmed it, however long ago the panel
\* was loaded, whatever month it has become and however often the request was
\* sent; and a panel that reports success names the month confirmed there, whose
\* report did go out.
ConfirmedMonth ==
  /\ forced \subseteq confirmed
  /\ \A g \in Panels :
       panel[g].says.what = "succeeded" =>
         panel[g].says.month = panel[g].last /\ panel[g].last \in mailed
=============================================================================
