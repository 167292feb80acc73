------------------------------ MODULE LineClock ------------------------------
(***************************************************************************)
(* LINE clock-in of one employee: the page (ClockInPage.tsx) in several     *)
(* tabs, the attempt journal each device keeps in localStorage, the         *)
(* requests between page and server, and the server's three handlers with   *)
(* the durable receipt ledger line_clock_requests.                          *)
(*                                                                          *)
(* A tab waits for at most one request.  A request may be lost, its answer  *)
(* may be lost, and a clock-in request the tab gave up on (15 s abort,      *)
(* reload) may still reach the server later: it moves to `late`.  A set is  *)
(* enough for `late`, since a refused copy changes nothing and a copy of a  *)
(* recorded event is only replayed.                                         *)
(*                                                                          *)
(* stateVersion is a SHA-256 over the date and the day's rows with their    *)
(* xmin; it is modelled as that value itself (no collisions).               *)
(***************************************************************************)
EXTENDS Attendance

CONSTANTS
    Tabs, Devices,
    DeviceOf,     \* the device, hence the journal, of each tab
    Window,       \* five minutes: how long an attempt may still be recorded
    Skews,        \* error of the page's clock against the server's
    MayPause,     \* whether payroll writes are paused during the instance
    MaxEvents     \* bound: clock-in attempts explored

ASSUME DeviceOfAssumption == DeviceOf \in [Tabs -> Devices]
ASSUME WindowAssumption == Window \in Nat /\ MaxEvents \in Nat
ASSUME SkewsAssumption == Skews \subseteq Int
ASSUME MayPauseAssumption == MayPause \in BOOLEAN

VARIABLES
    ledger,    \* line_clock_requests: one receipt per recorded event
    journal,   \* per device: the last attempt, saved before it is sent
    tab,       \* per tab: what the page shows and waits for
    reply,     \* per tab: the answer on its way to the page
    late,      \* clock-in requests nobody waits for any more
    lastEvent, \* crypto.randomUUID, as a counter
    paused     \* PAYROLL_WRITES_PAUSED

clientVars == <<journal, tab, reply, late, lastEvent>>
serverVars == <<ledger, paused>>
lineVars == <<clientVars, serverVars>>

Versions == [date : Int, rows : SUBSET Row]
NoVersion == [date |-> 0, rows |-> {}]

Attempts == [ev : Nat, version : Versions, ts : Int,
             phase : {"none", "pending", "confirmed", "rejected"}]
NoAttempt == [ev |-> 0, version |-> NoVersion, ts |-> 0, phase |-> "none"]

Receipts == [ev : Nat, version : Versions, ts : Int,
             action : {"clockIn", "clockOut"}, time : TimesOfDay, row : Nat]

ReplyKinds == {"none", "state", "receipt", "notFound", "rejected", "failed"}
Replies == [k : ReplyKinds, version : Versions, at : Int]
Answer(kind) == [k |-> kind, version |-> NoVersion, at |-> 0]

WaitingPages == {"getReceipt", "getResend", "getState", "posting"}
Pages == {"closed", "recover", "ready", "success", "error", "unconfirmed"} \cup WaitingPages

(* `via` tells who called recoverOriginal or sendOriginal: prepareClockIn,  *)
(* the "confirm original result" button, or performClockIn.                 *)
TabStates == [page : Pages, att : Attempts, via : {"prepare", "button", "perform"},
              canNext : BOOLEAN, version : Versions, lag : Int]

(* A page at rest; one that has just shown a receipt; one whose handler is  *)
(* at work on an attempt; one that offers the punch for a known state.      *)
Resting(page, canNext) ==
    [page |-> page, att |-> NoAttempt, via |-> "prepare",
     canNext |-> canNext, version |-> NoVersion, lag |-> 0]
Succeeded(a, canNext) ==
    [page |-> "success", att |-> a, via |-> "prepare",
     canNext |-> canNext, version |-> NoVersion, lag |-> 0]
Working(page, a, via) ==
    [page |-> page, att |-> a, via |-> via,
     canNext |-> FALSE, version |-> NoVersion, lag |-> 0]
Ready(version, lag) ==
    [page |-> "ready", att |-> NoAttempt, via |-> "prepare",
     canNext |-> FALSE, version |-> version, lag |-> lag]

-----------------------------------------------------------------------------
(* Server: DatabaseLineClockInRepository.                                   *)

StateVersion(d) == [date |-> d, rows |-> RowsOn(d)]

Recorded(e) == \E l \in ledger : l.ev = e

(* entry.payloadHash === payloadHash                                        *)
SamePayload(l, a) == l.ev = a.ev /\ l.version = a.version /\ l.ts = a.ts

InWindow(a, t) == 0 <= t - a.ts /\ t - a.ts <= Window

(* The clock-in row being closed is not later than the punch.               *)
InTimeOrder(R, time) == Incomplete(R) # {} => LatestIncomplete(R).in <= time

(* Mutant body: the confirmed state is not compared with the current one.   *)
AcceptableAnyVersion(a) ==
    InWindow(a, now) /\ InTimeOrder(RowsOn(DateOf(a.ts)), TimeOf(a.ts))

(* The checks of submit between the ledger lookup and the write.            *)
Acceptable(a) ==
    /\ InWindow(a, now)
    /\ a.version = StateVersion(DateOf(a.ts))
    /\ InTimeOrder(RowsOn(DateOf(a.ts)), TimeOf(a.ts))

ReceiptFor(a) ==
    LET R == RowsOn(DateOf(a.ts))
        time == TimeOf(a.ts)
    IN  [ev |-> a.ev, version |-> a.version, ts |-> a.ts, action |-> PendingAction(R),
         time |-> time, row |-> PunchedRow(R, DateOf(a.ts), time).id]

(* POST /api/line/clock-in: one transaction under the event lock and the    *)
(* employee lock.  `kind` is the answer it gives.                           *)
SubmitRefused(a, kind) ==
    /\ \/ account # "active" /\ kind = "failed"
       \/ /\ account = "active" /\ Recorded(a.ev)
          /\ kind = IF \E l \in ledger : SamePayload(l, a) THEN "receipt" ELSE "failed"
       \/ account = "active" /\ ~Recorded(a.ev) /\ paused /\ kind = "failed"
       \/ account = "active" /\ ~Recorded(a.ev) /\ ~paused /\ ~Acceptable(a) /\ kind = "rejected"
    /\ UNCHANGED <<rows, xid, ledger>>

SubmitWritten(a, kind) ==
    /\ account = "active" /\ ~Recorded(a.ev) /\ ~paused /\ Acceptable(a) /\ kind = "receipt"
    /\ xid < MaxWrites
    /\ rows' = AfterPunch(RowsOn(DateOf(a.ts)), DateOf(a.ts), TimeOf(a.ts))
    /\ xid' = xid + 1
    /\ ledger' = ledger \cup {ReceiptFor(a)}

Submit(a, kind) == SubmitRefused(a, kind) \/ SubmitWritten(a, kind)

Waiting(t, p) == tab[t].page = p /\ reply[t].k = "none"

ServePost(t) ==
    /\ Waiting(t, "posting")
    /\ \E kind \in ReplyKinds :
          Submit(tab[t].att, kind) /\ reply' = [reply EXCEPT ![t] = Answer(kind)]
    /\ UNCHANGED <<now, journal, tab, late, lastEvent, account, paused>>

(* A copy nobody waits for reaches the server; its answer goes nowhere.     *)
ServeLate ==
    /\ \E a \in late : late' = late \ {a} /\ \E kind \in ReplyKinds : Submit(a, kind)
    /\ UNCHANGED <<now, journal, tab, reply, lastEvent, account, paused>>

(* GET /api/line/clock-in/requests/:eventId.  An unbound account is a 404   *)
(* too, which the page cannot tell from a missing receipt.                  *)
ServeReceipt(t) ==
    /\ Waiting(t, "getReceipt")
    /\ reply' = [reply EXCEPT ![t] = Answer(
          CASE account = "inactive" -> "failed"
            [] account \in {"unbound", "trashed"} -> "notFound"
            [] OTHER -> IF Recorded(tab[t].att.ev) THEN "receipt" ELSE "notFound")]
    /\ UNCHANGED <<attendanceVars, serverVars, journal, tab, late, lastEvent>>

(* GET /api/line/clock-in/state.                                            *)
ServeState(t) ==
    /\ Waiting(t, "getResend") \/ Waiting(t, "getState")
    /\ reply' = [reply EXCEPT ![t] =
          IF account = "active"
          THEN [k |-> "state", version |-> StateVersion(DateOf(now)), at |-> now]
          ELSE Answer("failed")]
    /\ UNCHANGED <<attendanceVars, serverVars, journal, tab, late, lastEvent>>

-----------------------------------------------------------------------------
(* The page.                                                                *)

SavedAttempt(t) == journal[DeviceOf[t]]

Become(t, state) == tab' = [tab EXCEPT ![t] = state]

(* The page comes to rest; the handler's locals go out of scope.            *)
Show(t, page, canNext) == Become(t, Resting(page, canNext))

(* An exception out of recoverOriginal or sendOriginal: the caller's catch. *)
Escape(t) == Show(t, IF tab[t].via = "button" THEN "unconfirmed" ELSE "error", FALSE)

TakeReply(t) == reply' = [reply EXCEPT ![t] = Answer("none")]

(* When a tab stops waiting, an unanswered clock-in request may be lost or  *)
(* may still be on its way.                                                 *)
Abandon(t) ==
    late' \in IF Waiting(t, "posting") THEN {late, late \cup {tab[t].att}} ELSE {late}

(* prepareClockIn(userId, next): recover the saved attempt, or ask for the  *)
(* state a new attempt would be confirmed against.                          *)
Prepare(t, next) ==
    LET saved == SavedAttempt(t)
        read == IF saved.phase # "none" /\ (~next \/ saved.phase = "pending")
                THEN "recover" ELSE "getState"
    IN  \E page \in {read, "error"} :   \* "error": localStorage cannot be read
          Show(t, page, FALSE)

(* Opening or reloading the page, from any state of it.                     *)
Open(t) ==
    /\ Prepare(t, FALSE)
    /\ TakeReply(t)
    /\ Abandon(t)
    /\ UNCHANGED <<attendanceVars, serverVars, journal, lastEvent>>

(* The "prepare next" / "check the latest state" button.                    *)
PressNext(t) ==
    /\ tab[t].page \in {"success", "error", "unconfirmed"} /\ tab[t].canNext
    /\ Prepare(t, TRUE)
    /\ UNCHANGED <<attendanceVars, serverVars, journal, reply, late, lastEvent>>

(* The "confirm original result" button.                                    *)
PressConfirm(t) ==
    /\ tab[t].page = "unconfirmed"
    /\ Become(t, Working("recover", NoAttempt, "button"))
    /\ UNCHANGED <<attendanceVars, serverVars, journal, reply, late, lastEvent>>

(* Mutant body: an attempt too old to be resent is not looked up either.    *)
RecoverOriginalRecent(t) ==
    /\ tab[t].page = "recover"
    /\ IF InWindow(SavedAttempt(t), now)
       THEN Become(t, Working("getReceipt", SavedAttempt(t), tab[t].via))
       ELSE Show(t, "unconfirmed", FALSE)
    /\ UNCHANGED <<attendanceVars, serverVars, journal, reply, late, lastEvent>>

(* recoverOriginal up to its first request.  It reads the journal again, so *)
(* it may see what another tab wrote since the caller looked.               *)
RecoverOriginal(t) ==
    /\ tab[t].page = "recover"
    /\ \/ SavedAttempt(t).phase = "rejected" /\ Show(t, "error", TRUE)
       \/ /\ SavedAttempt(t).phase # "rejected"
          /\ Become(t, Working("getReceipt", SavedAttempt(t), tab[t].via))
       \/ Escape(t)
    /\ UNCHANGED <<attendanceVars, serverVars, journal, reply, late, lastEvent>>

NewAttempt(t, skew) ==
    [ev |-> lastEvent + 1, version |-> tab[t].version,
     ts |-> now - tab[t].lag + skew, phase |-> "pending"]

PerformClockInUnreserved(t) ==   \* mutant body: the journal is not read again
    /\ tab[t].page = "ready"
    /\ lastEvent < MaxEvents
    /\ lastEvent' = lastEvent + 1
    /\ \E skew \in Skews :
          /\ journal' = [journal EXCEPT ![DeviceOf[t]] = NewAttempt(t, skew)]
          /\ Become(t, Working("posting", NewAttempt(t, skew), "perform"))
    /\ UNCHANGED <<attendanceVars, serverVars, reply, late>>

(* performClockIn, the tap on "confirm": reserve the attempt in the journal *)
(* under the Web Lock, then send it.  A pending attempt is recovered        *)
(* instead.  A storage error stops before sending; the attempt may or may   *)
(* not have been saved.                                                     *)
PerformClockIn(t) ==
    /\ tab[t].page = "ready"
    /\ SavedAttempt(t).phase # "pending"
    /\ lastEvent < MaxEvents
    /\ lastEvent' = lastEvent + 1
    /\ \E skew \in Skews :
          LET a == NewAttempt(t, skew)
          IN  \/ /\ journal' = [journal EXCEPT ![DeviceOf[t]] = a]
                 /\ Become(t, Working("posting", a, "perform"))
              \/ /\ journal' \in {journal, [journal EXCEPT ![DeviceOf[t]] = a]}
                 /\ Show(t, "error", FALSE)
    /\ UNCHANGED <<attendanceVars, serverVars, reply, late>>

PerformRecover(t) ==
    /\ tab[t].page = "ready"
    /\ SavedAttempt(t).phase = "pending"
    /\ Become(t, Working("recover", NoAttempt, "perform"))
    /\ UNCHANGED <<attendanceVars, serverVars, journal, reply, late, lastEvent>>

Settled(a, phase) == [ev |-> a.ev, version |-> a.version, ts |-> a.ts, phase |-> phase]

(* finishClockAttempt: only the attempt the journal still holds is settled. *)
StillCurrent(t) ==
    LET saved == SavedAttempt(t)
        a == tab[t].att
    IN  saved.ev = a.ev /\ saved.version = a.version /\ saved.ts = a.ts

(* Mutant body: a late answer settles whatever the journal holds.           *)
FinishAlways(t, phase) ==
    journal' = [journal EXCEPT ![DeviceOf[t]] = Settled(SavedAttempt(t), phase)]

Finish(t, phase) ==
    journal' = IF StillCurrent(t)
               THEN [journal EXCEPT ![DeviceOf[t]] = Settled(SavedAttempt(t), phase)]
               ELSE journal

(* showReceipt: settle the attempt; on a storage error the page still shows *)
(* the receipt but offers no next punch.                                    *)
ShowReceipt(t) ==
    \/ /\ Finish(t, "confirmed")
       /\ IF StillCurrent(t) THEN Become(t, Succeeded(tab[t].att, TRUE)) ELSE Show(t, "unconfirmed", FALSE)
    \/ /\ journal' = journal \/ Finish(t, "confirmed")
       /\ Become(t, Succeeded(tab[t].att, FALSE))

Answered(t, p) == tab[t].page = p /\ reply[t].k # "none"

(* recoverOriginal after the receipt request.                               *)
GotReceipt(t) ==
    /\ Answered(t, "getReceipt")
    /\ TakeReply(t)
    /\ CASE reply[t].k = "receipt" -> ShowReceipt(t)
         [] reply[t].k = "notFound" /\ tab[t].via # "prepare" /\ tab[t].att.phase = "pending" ->
              Become(t, Working("getResend", tab[t].att, tab[t].via)) /\ UNCHANGED journal
         [] OTHER -> Show(t, "unconfirmed", FALSE) /\ UNCHANGED journal
    /\ UNCHANGED <<attendanceVars, serverVars, late, lastEvent>>

(* canResendClockAttempt against the server's time, then sendOriginal.      *)
GotResendState(t) ==
    /\ Answered(t, "getResend")
    /\ TakeReply(t)
    /\ CASE reply[t].k = "state" /\ InWindow(tab[t].att, reply[t].at) ->
              Become(t, Working("posting", tab[t].att, tab[t].via))
         [] reply[t].k = "state" /\ ~InWindow(tab[t].att, reply[t].at) ->
              Show(t, "unconfirmed", FALSE)
         [] OTHER -> Escape(t)
    /\ UNCHANGED <<attendanceVars, serverVars, journal, late, lastEvent>>

(* prepareClockIn after the state request: remember the version the tap     *)
(* confirms and how far the page's clock is behind the server's.            *)
GotState(t) ==
    /\ Answered(t, "getState")
    /\ TakeReply(t)
    /\ IF reply[t].k = "state"
       THEN Become(t, Ready(reply[t].version, now - reply[t].at))
       ELSE Show(t, "error", FALSE)
    /\ UNCHANGED <<attendanceVars, serverVars, journal, late, lastEvent>>

GotPostSettlesFailure(t) ==   \* mutant body: an unknown outcome counts as a refusal
    /\ Answered(t, "posting")
    /\ TakeReply(t)
    /\ IF reply[t].k = "receipt" THEN ShowReceipt(t)
       ELSE Finish(t, "rejected") /\ Show(t, "error", TRUE)
    /\ UNCHANGED <<attendanceVars, serverVars, late, lastEvent>>

(* sendOriginal after the clock-in request.  Only a refusal known to        *)
(* precede the write settles the attempt as rejected.                       *)
GotPost(t) ==
    /\ Answered(t, "posting")
    /\ TakeReply(t)
    /\ CASE reply[t].k = "receipt" -> ShowReceipt(t)
         [] reply[t].k = "rejected" ->
              \/ /\ Finish(t, "rejected")
                 /\ IF StillCurrent(t) THEN Show(t, "error", TRUE) ELSE Show(t, "unconfirmed", FALSE)
              \/ (journal' = journal \/ Finish(t, "rejected")) /\ Escape(t)
         [] OTHER -> Show(t, "unconfirmed", FALSE) /\ UNCHANGED journal
    /\ UNCHANGED <<attendanceVars, serverVars, late, lastEvent>>

(* The 15 s abort of clockRequest, or a broken connection.                  *)
Timeout(t) ==
    /\ tab[t].page \in WaitingPages /\ reply[t].k # "failed"
    /\ reply' = [reply EXCEPT ![t] = Answer("failed")]
    /\ Abandon(t)
    /\ UNCHANGED <<attendanceVars, serverVars, journal, tab, lastEvent>>

-----------------------------------------------------------------------------
(* The operator restarts the service with payroll writes paused or enabled. *)
SetPaused ==
    /\ MayPause
    /\ paused' = ~paused
    /\ UNCHANGED <<attendanceVars, clientVars, ledger>>

LineInit ==
    /\ ledger = {} /\ late = {} /\ lastEvent = 0
    /\ journal = [d \in Devices |-> NoAttempt]
    /\ tab = [t \in Tabs |-> Resting("closed", FALSE)]
    /\ reply = [t \in Tabs |-> Answer("none")]
    /\ paused = FALSE

UserStep(t) == Open(t) \/ PressNext(t) \/ PressConfirm(t) \/ PerformClockIn(t) \/ PerformRecover(t)

PageStep(t) ==
    RecoverOriginal(t) \/ GotReceipt(t) \/ GotResendState(t) \/ GotState(t) \/ GotPost(t)

ServerStep(t) == ServePost(t) \/ ServeReceipt(t) \/ ServeState(t)

LineNext ==
    \/ \E t \in Tabs : UserStep(t) \/ PageStep(t) \/ ServerStep(t) \/ Timeout(t)
    \/ ServeLate \/ SetPaused

LineTypeOK ==
    /\ ledger \subseteq Receipts
    /\ journal \in [Devices -> Attempts]
    /\ tab \in [Tabs -> TabStates]
    /\ reply \in [Tabs -> Replies]
    /\ late \subseteq Attempts
    /\ lastEvent \in Nat
    /\ paused \in BOOLEAN
=============================================================================
