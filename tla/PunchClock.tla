----------------------------- MODULE PunchClock -----------------------------
(***************************************************************************)
(* The two punch channels of one employee at work on the same attendance    *)
(* rows: LINE clock-in (LineClock), barcode scans (KioskScan), and the      *)
(* administrator's attendance routes (Attendance).                          *)
(***************************************************************************)
EXTENDS LineClock, KioskScan, FiniteSets

vars == <<attendanceVars, lineVars, kioskVars>>

Init == AttendanceInit /\ LineInit /\ KioskInit

Next ==
    \/ AttendanceNext /\ UNCHANGED <<lineVars, kioskVars>>
    \/ LineNext /\ UNCHANGED kioskVars
    \/ KioskNext /\ UNCHANGED lineVars

Spec == Init /\ [][Next]_vars

-----------------------------------------------------------------------------
(* Every variable keeps its type; a stored time is a time of day.           *)
TypeOK == AttendanceTypeOK /\ LineTypeOK /\ KioskTypeOK

(* What the employee confirmed is what was recorded: a receipt's action is  *)
(* the one the page showed for the state the tap was made against, on the   *)
(* date of that state.  Retries, late copies, other tabs, the kiosk and     *)
(* midnight never turn a confirmed clock-in into a clock-out.               *)
ConfirmedAction ==
    \A l \in ledger :
        l.action = PendingAction(l.version.rows) /\ DateOf(l.ts) = l.version.date

(* A page that shows success, and a journal entry settled as confirmed, is  *)
(* backed by a receipt with exactly the attempt's event, version and time.  *)
ConfirmedHasReceipt ==
    /\ \A d \in Devices : journal[d].phase = "confirmed" =>
          \E l \in ledger : SamePayload(l, journal[d])
    /\ \A t \in Tabs : tab[t].page = "success" => Recorded(tab[t].att.ev)

(* An attempt the page was told is not written ("這次打卡未寫入") is never   *)
(* written, not even by a copy of the request that arrives later.           *)
RejectedNeverRecorded ==
    \A d \in Devices : journal[d].phase = "rejected" => ~Recorded(journal[d].ev)

(* No more than one row per day is open, whichever channels opened rows.    *)
OneOpenShift ==
    \A r, s \in rows : r.date = s.date /\ r.out = NoTime /\ s.out = NoTime => r = s

(* A recorded LINE punch stays in the attendance table as it was receipted: *)
(* no later punch of any channel overwrites it.                             *)
RecordedPunchStays ==
    \A l \in ledger : \E r \in rows :
        /\ r.id = l.row /\ r.date = DateOf(l.ts)
        /\ l.time = IF l.action = "clockIn" THEN r.in ELSE r.out

(* Every filled clock_in or clock_out cell is one punch: as many cells as   *)
(* receipts and accepted scans.  No retry or double scan is counted twice,  *)
(* and none overwrites another.                                             *)
PunchesAccounted ==
    Cardinality(rows) + Cardinality({r \in rows : r.out # NoTime})
        = Cardinality(ledger) + punched

(* The journal gives up a pending attempt only when that attempt settles:   *)
(* no other tab, late answer or reload replaces it.                         *)
PendingKept ==
    [][\A d \in Devices : journal[d].phase = "pending" =>
          journal'[d] \in {journal[d], Settled(journal[d], "confirmed"),
                                       Settled(journal[d], "rejected")}]_vars

(* A settled attempt is never settled the other way by a late answer.       *)
SettledOnce ==
    [][\A d \in Devices :
          journal[d].phase \in {"confirmed", "rejected"} /\ journal'[d].ev = journal[d].ev
             => journal'[d].phase = journal[d].phase]_vars

-----------------------------------------------------------------------------
(* Fairness.  The page's own steps run (the event loop), a request is       *)
(* answered or times out, and an employee left with an open question comes  *)
(* back to the page.  Connection and storage are not always broken: a       *)
(* receipt asked for again and again is at some time delivered and saved.   *)
AtRest(t) == tab[t].page \in Pages \ ({"recover"} \cup WaitingPages)

ReceiptSettles(t) == GotReceipt(t) /\ journal' # journal

Fairness == \A t \in Tabs :
    /\ WF_vars(PageStep(t) /\ UNCHANGED kioskVars)
    /\ WF_vars((ServerStep(t) \/ Timeout(t)) /\ UNCHANGED kioskVars)
    /\ WF_vars(AtRest(t) /\ Open(t) /\ UNCHANGED kioskVars)
    /\ SF_vars(ServeReceipt(t) /\ UNCHANGED kioskVars)
    /\ SF_vars(RecoverOriginal(t) /\ tab'[t].page = "getReceipt" /\ UNCHANGED kioskVars)
    /\ SF_vars(ReceiptSettles(t) /\ UNCHANGED kioskVars)

FairSpec == Spec /\ Fairness

(* A punch that was recorded while its answer was lost is found again: the  *)
(* journal's pending attempt is eventually confirmed, however late, and     *)
(* with no second punch.                                                    *)
LostAnswerRecovered ==
    \A d \in Devices, e \in 1 .. MaxEvents :
        (journal[d].ev = e /\ journal[d].phase = "pending" /\ Recorded(e))
            ~> (journal[d].ev = e /\ journal[d].phase = "confirmed")
=============================================================================
