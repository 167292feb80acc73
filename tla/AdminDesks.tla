----------------------------- MODULE AdminDesks -----------------------------
(***************************************************************************)
(* Five desks of the administration client at which pages hold copies of   *)
(* what the server stores or send it what they hold: the settings pages,   *)
(* the special leave card with the holiday list, the attendance page, the  *)
(* CSV import and the panel that runs a month.  They share no state that   *)
(* their properties read, so a behaviour follows one of them.              *)
(***************************************************************************)
EXTENDS SettingsDesk, LeaveDesk, AttendanceDesk, ImportDesk, RunDesk

VARIABLE desk  \* the desk this behaviour follows

attendanceDeskVars == <<attendanceVars, deskVars>>
vars == <<settingsVars, leaveVars, attendanceDeskVars, importVars, runDeskVars, desk>>

Init ==
  /\ desk \in {"settings", "leave", "attendance", "import", "run"}
  /\ SettingsInit /\ LeaveInit /\ AttendanceInit /\ DeskInit /\ ImportInit /\ RunDeskInit

Next ==
  /\ \/ /\ desk = "settings" /\ SettingsNext
        /\ UNCHANGED <<leaveVars, attendanceDeskVars, importVars, runDeskVars>>
     \/ /\ desk = "leave" /\ LeaveNext
        /\ UNCHANGED <<settingsVars, attendanceDeskVars, importVars, runDeskVars>>
     \/ /\ desk = "attendance" /\ DeskNext
        /\ UNCHANGED <<settingsVars, leaveVars, importVars, runDeskVars>>
     \/ /\ desk = "import" /\ ImportNext
        /\ UNCHANGED <<settingsVars, leaveVars, attendanceDeskVars, runDeskVars>>
     \/ /\ desk = "run" /\ RunDeskNext
        /\ UNCHANGED <<settingsVars, leaveVars, attendanceDeskVars, importVars>>
  /\ UNCHANGED desk

Spec == Init /\ [][Next]_vars

\* Every desk keeps its types: no settings page shows a row newer than the one
\* stored, and its save button is offered only while a figure differs from the
\* page's copy (setHasUnsavedChanges).
TypeOK == SettingsTypeOK /\ LeaveTypeOK /\ DeskTypeOK /\ ImportTypeOK /\ RunDeskTypeOK

\* The desks are sound: typed, an import that reported no error holds every line of
\* its file, and no employee has two records of one month.
DesksSound == TypeOK /\ ImportedWhole /\ OneRecordAMonth
=============================================================================
