-------------------------- MODULE PunchClockProofs --------------------------
(***************************************************************************)
(* Proofs about PunchClock for every number of tabs, devices, scans and     *)
(* attempts, every window and every use of the administrator's routes.      *)
(***************************************************************************)
EXTENDS PunchClock, FiniteSetTheorems, WellFoundedInduction, TLAPS

-----------------------------------------------------------------------------
(* The attendance table.                                                    *)

(* A nonempty set of naturals has a least element.                          *)
LEMMA LeastNatural ==
  ASSUME NEW S, S \subseteq Nat, S # {}
  PROVE  \E n \in S : \A m \in S : n <= m
<1> DEFINE Less == OpToRel(<, Nat)
<1>1. IsWellFoundedOn(Less, Nat)
  BY NatLessThanWellFounded
<1>2. \A x, y \in Nat : <<y, x>> \in Less <=> y < x
  BY DEF OpToRel
<1> HIDE DEF Less
<1>3. PICK x \in S : \A y \in S : ~ (<<y, x>> \in Less)
  BY <1>1, WFMin
<1>4. ASSUME NEW y \in S PROVE x <= y
  <2>1. x \in Nat /\ y \in Nat /\ ~ (<<y, x>> \in Less)
    BY <1>3
  <2>2. ~ (y < x)
    BY <1>2, <2>1
  <2> QED BY <2>1, <2>2
<1> QED BY <1>4

(* A tick has a date and a time of day.                                     *)
LEMMA DateAndTimeType ==
  ASSUME NEW t \in Int
  PROVE  DateOf(t) \in Dates /\ TimeOf(t) \in TimesOfDay
BY DayTicksAssumption, SMTT(30) DEF DateOf, TimeOf, TimesOfDay, Dates

(* getLatestIncompleteAttendanceRecord finds a row whenever one is open:    *)
(* the order it sorts by has a greatest element among rows with bounded ids.*)
LEMMA LatestIncompleteExists ==
  ASSUME NEW R, R \subseteq Row, Incomplete(R) # {},
         NEW b \in Nat, \A r \in R : r.id <= b
  PROVE  /\ LatestIncomplete(R) \in Incomplete(R)
         /\ \A s \in Incomplete(R) : AtLeastAsLate(LatestIncomplete(R), s)
<1> DEFINE T == Incomplete(R)
           Early == {DayTicks - 1 - r.in : r \in T}
<1>1. T \subseteq Row /\ T # {} /\ \A r \in T : r.id <= b
  BY DEF Incomplete
<1>2. \A r \in T : r.in \in 0 .. (DayTicks - 1) /\ r.id \in Nat
  BY <1>1 DEF Row, TimesOfDay
<1> HIDE DEF T
<1>3. Early \subseteq Nat /\ Early # {}
  BY <1>1, <1>2, DayTicksAssumption
<1>4. PICK m \in Early : \A n \in Early : m <= n
  <2> HIDE DEF Early
  <2> QED BY <1>3, LeastNatural
<1> DEFINE T2 == {r \in T : DayTicks - 1 - r.in = m}
           Old == {b - r.id : r \in T2}
<1>5. T2 # {} /\ T2 \subseteq T
  BY <1>4
<1>6. Old \subseteq Nat /\ Old # {}
  BY <1>1, <1>2, <1>5
<1>7. PICK k \in Old : \A n \in Old : k <= n
  <2> HIDE DEF Old
  <2> QED BY <1>6, LeastNatural
<1>8. PICK r \in T2 : b - r.id = k
  BY <1>7
<1>9. \A s \in T : AtLeastAsLate(r, s)
  <2> TAKE s \in T
  <2>1. r \in T /\ DayTicks - 1 - r.in = m /\ m <= DayTicks - 1 - s.in
    BY <1>4, <1>8
  <2>2. CASE r.in = s.in
    <3>1. s \in T2
      BY <2>1, <2>2
    <3>2. b - r.id <= b - s.id
      BY <1>7, <1>8, <3>1
    <3> QED BY <1>2, <2>1, <2>2, <3>2 DEF AtLeastAsLate
  <2>3. CASE r.in # s.in
    BY <1>2, <2>1, <2>3, DayTicksAssumption DEF AtLeastAsLate
  <2> QED BY <2>2, <2>3
<1>10. \E x \in T : \A s \in T : AtLeastAsLate(x, s)
  BY <1>8, <1>9
<1> QED BY <1>10 DEF LatestIncomplete, T

(* A punch writes one well-formed row: a new one, or the latest open row of *)
(* the day with its clock-out filled in.                                    *)
LEMMA PunchedRowFacts ==
  ASSUME AttendanceTypeOK, RowsKeyed, NEW d \in Dates, NEW time \in TimesOfDay
  PROVE  LET p == PunchedRow(RowsOn(d), d, time)
         IN  /\ p \in Row /\ p.rev = xid + 1 /\ p.date = d /\ p.id <= xid + 1
             /\ \/ /\ Incomplete(RowsOn(d)) = {}
                   /\ p = [id |-> xid + 1, date |-> d, in |-> time, out |-> NoTime,
                           rev |-> xid + 1]
                \/ \E r \in rows : /\ r \in Incomplete(RowsOn(d))
                                   /\ p = ClosedRow(r, time)
<1>1. CASE Incomplete(RowsOn(d)) = {}
  BY <1>1 DEF PunchedRow, AttendanceTypeOK, Row, Dates
<1>2. CASE Incomplete(RowsOn(d)) # {}
  <2> DEFINE r == LatestIncomplete(RowsOn(d))
  <2>1. r \in Incomplete(RowsOn(d))
    <3>1. RowsOn(d) \subseteq Row /\ xid \in Nat /\ \A s \in RowsOn(d) : s.id <= xid
      BY DEF RowsOn, AttendanceTypeOK, RowsKeyed
    <3> QED BY <1>2, <3>1, LatestIncompleteExists
  <2>2. r \in rows /\ r.date = d /\ r \in Row /\ r.id <= xid
    BY <2>1 DEF RowsOn, Incomplete, AttendanceTypeOK, RowsKeyed
  <2>3. PunchedRow(RowsOn(d), d, time) = ClosedRow(r, time)
    BY <1>2 DEF PunchedRow
  <2> HIDE DEF r
  <2>4. ClosedRow(r, time) \in Row
    BY <2>2 DEF AttendanceTypeOK, ClosedRow, Row
  <2>5. LET p == ClosedRow(r, time)
        IN  p.rev = xid + 1 /\ p.date = d /\ p.id <= xid + 1
    BY <2>2 DEF AttendanceTypeOK, ClosedRow, Row
  <2> QED BY <2>1, <2>2, <2>3, <2>4, <2>5
<1> QED BY <1>1, <1>2

(* A punch keeps the table well formed and keyed.                           *)
LEMMA PunchKeepsTable ==
  ASSUME AttendanceTypeOK, RowsKeyed, NEW d \in Dates, NEW time \in TimesOfDay,
         rows' = AfterPunch(RowsOn(d), d, time), xid' = xid + 1
  PROVE  rows' \subseteq Row /\ xid' \in Nat /\ RowsKeyed'
<1> DEFINE p == PunchedRow(RowsOn(d), d, time)
<1>1. p \in Row /\ p.rev = xid + 1 /\ p.id <= xid + 1
  BY PunchedRowFacts
<1>2. rows' = {r \in rows : r.id # p.id} \cup {p}
  BY DEF AfterPunch
<1> HIDE DEF p
<1> QED BY <1>1, <1>2 DEF AttendanceTypeOK, RowsKeyed, Row

(* The administrator's routes and the clock keep it so too.                 *)
LEMMA AttendanceStepKeepsTable ==
  ASSUME AttendanceTypeOK, RowsKeyed, AttendanceNext
  PROVE  AttendanceTypeOK' /\ RowsKeyed'
<1>0. DateOf(MaxTime) \in Int
  BY DateAndTimeType, AttendanceBoundsAssumption DEF Dates
<1>1. CASE Tick
  BY <1>1 DEF Tick, AttendanceTypeOK, RowsKeyed
<1>2. CASE AdminCreate
  <2>1. PICK d \in 0 .. DateOf(MaxTime), i \in TimesOfDay, o \in TimesOfDay \cup {NoTime} :
          rows' = rows \cup {[id |-> xid + 1, date |-> d, in |-> i, out |-> o, rev |-> xid + 1]}
    BY <1>2 DEF AdminCreate, AddedRow
  <2>2. d \in Dates
    BY <1>0 DEF Dates
  <2> QED BY <1>2, <2>1, <2>2 DEF AdminCreate, AttendanceTypeOK, RowsKeyed, Row, Dates
<1>3. CASE AdminUpdate
  <2>1. PICK r \in rows, d \in 0 .. DateOf(MaxTime), i \in TimesOfDay,
             o \in TimesOfDay \cup {NoTime} :
          rows' = (rows \ {r}) \cup
                  {[id |-> r.id, date |-> d, in |-> i, out |-> o, rev |-> xid + 1]}
    BY <1>3 DEF AdminUpdate, RewrittenRow
  <2>2. d \in Dates /\ r \in Row
    BY <1>0 DEF AttendanceTypeOK, Dates
  <2> QED BY <1>3, <2>1, <2>2 DEF AdminUpdate, AttendanceTypeOK, RowsKeyed, Row, Dates
<1>4. CASE AdminDelete
  BY <1>4 DEF AdminDelete, RowsAfterDelete, AttendanceTypeOK, RowsKeyed
<1>5. CASE SetAccount
  BY <1>5 DEF SetAccount, AttendanceTypeOK, RowsKeyed
<1> QED BY <1>1, <1>2, <1>3, <1>4, <1>5 DEF AttendanceNext

-----------------------------------------------------------------------------
(* What requests and answers carry.                                         *)

(* What a clock-in request carries, wherever a copy of it is kept.          *)
Payload(a) == <<a.ev, a.version, a.ts>>

Sent == {Payload(NoAttempt)}
        \cup {Payload(journal[d]) : d \in Devices}
        \cup {Payload(tab[t].att) : t \in Tabs}
        \cup {Payload(a) : a \in late}
        \cup {Payload(l) : l \in ledger}

(* All copies of one event carry the same payload, so the server never sees *)
(* LINE_CLOCK_EVENT_CONFLICT from this page and a receipt speaks for every  *)
(* copy.                                                                    *)
AgreedPayloads ==
    /\ \A p \in Sent : p[1] <= lastEvent
    /\ \A p, q \in Sent : p[1] = q[1] => p = q

(* An answer on its way belongs to a waiting page, and a receipt on its way *)
(* is in the ledger.                                                        *)
RepliesTrue ==
    \A t \in Tabs :
        /\ reply[t].k # "none" => tab[t].page \in WaitingPages
        /\ reply[t].k = "receipt" => /\ tab[t].page \in {"posting", "getReceipt"}
                                     /\ Recorded(tab[t].att.ev)

ConfirmedRecorded ==
    /\ \A d \in Devices : journal[d].phase = "confirmed" => Recorded(journal[d].ev)
    /\ \A t \in Tabs : tab[t].page = "success" => Recorded(tab[t].att.ev)

Inv == /\ TypeOK /\ RowsKeyed /\ ConfirmedAction
       /\ AgreedPayloads /\ RepliesTrue /\ ConfirmedRecorded

-----------------------------------------------------------------------------
(* Every place that keeps a copy of a request contributes to Sent.          *)
LEMMA SentMembers ==
  /\ Payload(NoAttempt) \in Sent
  /\ \A d \in Devices : Payload(journal[d]) \in Sent
  /\ \A t \in Tabs : Payload(tab[t].att) \in Sent
  /\ \A a \in late : Payload(a) \in Sent
  /\ \A l \in ledger : Payload(l) \in Sent
BY DEF Sent

(* Sent after a step is bounded by any set that covers those places.        *)
LEMMA SentBound ==
  ASSUME NEW S,
         Payload(NoAttempt) \in S,
         \A d \in Devices : Payload(journal'[d]) \in S,
         \A t \in Tabs : Payload(tab'[t].att) \in S,
         \A a \in late' : Payload(a) \in S,
         \A l \in ledger' : Payload(l) \in S
  PROVE  Sent' \subseteq S
BY DEF Sent, Payload, NoAttempt, NoVersion

(* The values the page's handlers put into a tab are well formed.           *)
LEMMA TabStateTypes ==
  /\ NoVersion \in Versions
  /\ NoAttempt \in Attempts
  /\ \A page \in Pages, n \in BOOLEAN : Resting(page, n) \in TabStates
  /\ \A a \in Attempts, n \in BOOLEAN : Succeeded(a, n) \in TabStates
  /\ \A page \in Pages, a \in Attempts, via \in {"prepare", "button", "perform"} :
        Working(page, a, via) \in TabStates
  /\ \A v \in Versions, lag \in Int : Ready(v, lag) \in TabStates
  /\ \A k \in ReplyKinds : Answer(k) \in Replies /\ Answer(k).k = k
  /\ \A a \in Attempts, phase \in {"confirmed", "rejected"} : Settled(a, phase) \in Attempts
<1>1. NoVersion \in Versions
  BY DEF NoVersion, Versions
<1>2. NoAttempt \in Attempts
  BY <1>1 DEF NoAttempt, Attempts
<1>3. \A page \in Pages, n \in BOOLEAN : Resting(page, n) \in TabStates
  BY <1>1, <1>2 DEF Resting, TabStates
<1>4. \A a \in Attempts, n \in BOOLEAN : Succeeded(a, n) \in TabStates
  BY <1>1 DEF Succeeded, TabStates, Pages
<1>5. \A page \in Pages, a \in Attempts, via \in {"prepare", "button", "perform"} :
        Working(page, a, via) \in TabStates
  BY <1>1 DEF Working, TabStates
<1>6. \A v \in Versions, lag \in Int : Ready(v, lag) \in TabStates
  BY <1>2 DEF Ready, TabStates, Pages
<1>7. \A k \in ReplyKinds : Answer(k) \in Replies /\ Answer(k).k = k
  BY <1>1 DEF Answer, Replies
<1>8. \A a \in Attempts, phase \in {"confirmed", "rejected"} : Settled(a, phase) \in Attempts
  BY DEF Settled, Attempts
<1> QED BY <1>1, <1>2, <1>3, <1>4, <1>5, <1>6, <1>7, <1>8

(* A step of the page of tab t: the tab becomes s, its device's journal     *)
(* entry becomes j, it has no answer left to take, and a request it gave up *)
(* may stay behind.  If s and j tell the truth, the invariant is kept.      *)
LEMMA PageStepKeepsInv ==
  ASSUME Inv, NEW t \in Tabs, NEW s \in TabStates, NEW j \in Attempts, NEW r \in Replies,
         tab' = [tab EXCEPT ![t] = s],
         journal' = [journal EXCEPT ![DeviceOf[t]] = j],
         reply' = [reply EXCEPT ![t] = r], r.k = "none",
         \A a \in late' : a \in late \/ a = tab[t].att,
         UNCHANGED <<attendanceVars, serverVars, kioskVars, lastEvent>>,
         Payload(s.att) \in Sent, Payload(j) \in Sent,
         s.page = "success" => Recorded(s.att.ev),
         j.phase = "confirmed" => Recorded(j.ev)
  PROVE  Inv'
<1>1. TypeOK' /\ RowsKeyed'
  BY DEF Inv, TypeOK, AttendanceTypeOK, LineTypeOK, KioskTypeOK, RowsKeyed,
         attendanceVars, serverVars, kioskVars, TabStates
<1>2. ConfirmedAction'
  BY DEF Inv, ConfirmedAction, serverVars
<1>3. \A e : Recorded(e) <=> Recorded(e)'
  BY DEF Recorded, serverVars
<1>4. Sent' \subseteq Sent
  <2>1. \A d \in Devices : Payload(journal'[d]) \in Sent
    BY SentMembers DEF Inv, TypeOK, LineTypeOK
  <2>2. \A u \in Tabs : Payload(tab'[u].att) \in Sent
    BY SentMembers DEF Inv, TypeOK, LineTypeOK
  <2>3. \A a \in late' : Payload(a) \in Sent
    BY SentMembers
  <2>4. \A l \in ledger' : Payload(l) \in Sent
    BY SentMembers DEF serverVars
  <2> QED BY <2>1, <2>2, <2>3, <2>4, SentMembers, SentBound
<1>5. AgreedPayloads'
  BY <1>4 DEF Inv, AgreedPayloads
<1>6. RepliesTrue'
  BY <1>3 DEF Inv, RepliesTrue, TypeOK, LineTypeOK
<1>7. ConfirmedRecorded'
  <2>1. \A d \in Devices : journal'[d] = IF d = DeviceOf[t] THEN j ELSE journal[d]
    BY DEF Inv, TypeOK, LineTypeOK
  <2>2. \A u \in Tabs : tab'[u] = IF u = t THEN s ELSE tab[u]
    BY DEF Inv, TypeOK, LineTypeOK
  <2> QED BY <1>3, <2>1, <2>2 DEF Inv, ConfirmedRecorded
<1> QED BY <1>1, <1>2, <1>5, <1>6, <1>7 DEF Inv

-----------------------------------------------------------------------------
(* Facts of a page step that every action of the page uses.                 *)
LEMMA PageFacts ==
  ASSUME Inv, NEW t \in Tabs
  PROVE  /\ tab[t] \in TabStates /\ tab[t].att \in Attempts
         /\ tab[t].via \in {"prepare", "button", "perform"}
         /\ DeviceOf[t] \in Devices /\ SavedAttempt(t) \in Attempts
         /\ reply[t] \in Replies
         /\ journal = [journal EXCEPT ![DeviceOf[t]] = SavedAttempt(t)]
         /\ reply = [reply EXCEPT ![t] = reply[t]]
         /\ Payload(tab[t].att) \in Sent /\ Payload(SavedAttempt(t)) \in Sent
         /\ Payload(NoAttempt) \in Sent
         /\ SavedAttempt(t).phase = "confirmed" => Recorded(SavedAttempt(t).ev)
         /\ Answer("none") \in Replies /\ Answer("none").k = "none"
<1>1. tab[t] \in TabStates /\ reply[t] \in Replies
  BY DEF Inv, TypeOK, LineTypeOK
<1>2. tab[t].att \in Attempts /\ tab[t].via \in {"prepare", "button", "perform"}
  BY <1>1 DEF TabStates
<1>3. DeviceOf[t] \in Devices
  BY DeviceOfAssumption
<1>4. SavedAttempt(t) \in Attempts
  BY <1>3 DEF SavedAttempt, Inv, TypeOK, LineTypeOK
<1>5. journal = [journal EXCEPT ![DeviceOf[t]] = SavedAttempt(t)]
  BY <1>3 DEF SavedAttempt, Inv, TypeOK, LineTypeOK
<1>6. reply = [reply EXCEPT ![t] = reply[t]]
  BY DEF Inv, TypeOK, LineTypeOK
<1>7. Payload(tab[t].att) \in Sent /\ Payload(SavedAttempt(t)) \in Sent /\ Payload(NoAttempt) \in Sent
  BY <1>3, SentMembers DEF SavedAttempt
<1>8. SavedAttempt(t).phase = "confirmed" => Recorded(SavedAttempt(t).ev)
  BY <1>3 DEF SavedAttempt, Inv, ConfirmedRecorded
<1>9. Answer("none") \in Replies /\ Answer("none").k = "none"
  BY TabStateTypes DEF ReplyKinds
<1> QED BY <1>1, <1>2, <1>3, <1>4, <1>5, <1>6, <1>7, <1>8, <1>9

(* A step that only moves the page.                                         *)
LEMMA MovePage ==
  ASSUME Inv, NEW t \in Tabs, NEW s \in TabStates, Become(t, s),
         Payload(s.att) \in Sent, s.page # "success",
         UNCHANGED <<attendanceVars, serverVars, kioskVars, journal, late, lastEvent>>,
         TakeReply(t) \/ (UNCHANGED reply /\ reply[t].k = "none")
  PROVE  Inv'
<1>1. \E r \in Replies : reply' = [reply EXCEPT ![t] = r] /\ r.k = "none"
  BY PageFacts DEF TakeReply
<1>2. journal' = [journal EXCEPT ![DeviceOf[t]] = SavedAttempt(t)]
  BY PageFacts
<1> QED BY <1>1, <1>2, PageFacts, PageStepKeepsInv DEF Become

(* Coming to rest is such a step.                                           *)
LEMMA ComeToRest ==
  ASSUME Inv, NEW t \in Tabs, NEW page \in Pages \ {"success"}, NEW n \in BOOLEAN,
         Show(t, page, n),
         UNCHANGED <<attendanceVars, serverVars, kioskVars, journal, late, lastEvent>>,
         TakeReply(t) \/ (UNCHANGED reply /\ reply[t].k = "none")
  PROVE  Inv'
<1>1. Resting(page, n) \in TabStates /\ Resting(page, n).att = NoAttempt
      /\ Resting(page, n).page = page
  BY TabStateTypes DEF Resting
<1> QED BY <1>1, PageFacts, MovePage DEF Show

(* So is handing an attempt on to the next request.                         *)
LEMMA WorkOn ==
  ASSUME Inv, NEW t \in Tabs, NEW page \in Pages \ {"success"}, NEW a \in Attempts,
         NEW via \in {"prepare", "button", "perform"},
         Become(t, Working(page, a, via)), Payload(a) \in Sent,
         UNCHANGED <<attendanceVars, serverVars, kioskVars, journal, late, lastEvent>>,
         TakeReply(t) \/ (UNCHANGED reply /\ reply[t].k = "none")
  PROVE  Inv'
<1>1. Working(page, a, via) \in TabStates /\ Working(page, a, via).att = a
      /\ Working(page, a, via).page = page
  BY TabStateTypes DEF Working
<1> QED BY <1>1, MovePage

-----------------------------------------------------------------------------
(* One lemma per action of the page.                                        *)
LEMMA OpenKeepsInv ==
  ASSUME Inv, NEW t \in Tabs, Open(t), UNCHANGED kioskVars
  PROVE  Inv'
<1>1. PICK page \in {"recover", "getState", "error"} : Show(t, page, FALSE)
  BY DEF Open, Prepare
<1>2. Resting(page, FALSE) \in TabStates /\ Resting(page, FALSE).att = NoAttempt
      /\ Resting(page, FALSE).page # "success"
  BY TabStateTypes DEF Resting, Pages, WaitingPages
<1>3. \A a \in late' : a \in late \/ a = tab[t].att
  BY DEF Open, Abandon
<1>4. journal' = [journal EXCEPT ![DeviceOf[t]] = SavedAttempt(t)]
  BY PageFacts DEF Open
<1> QED BY <1>1, <1>2, <1>3, <1>4, PageFacts, PageStepKeepsInv DEF Open, TakeReply, Show, Become

(* The "prepare next" button keeps the invariant.                           *)
LEMMA PressNextKeepsInv ==
  ASSUME Inv, NEW t \in Tabs, PressNext(t), UNCHANGED kioskVars
  PROVE  Inv'
<1>1. PICK page \in {"recover", "getState", "error"} : Show(t, page, FALSE)
  BY DEF PressNext, Prepare
<1>2. page \in Pages \ {"success"}
  BY DEF Pages, WaitingPages
<1>3. reply[t].k = "none"
  BY DEF PressNext, Inv, RepliesTrue, WaitingPages
<1> QED BY <1>1, <1>2, <1>3, ComeToRest DEF PressNext

(* The "confirm original result" button keeps it.                           *)
LEMMA PressConfirmKeepsInv ==
  ASSUME Inv, NEW t \in Tabs, PressConfirm(t), UNCHANGED kioskVars
  PROVE  Inv'
<1>1. reply[t].k = "none"
  BY DEF PressConfirm, Inv, RepliesTrue, WaitingPages
<1> QED BY <1>1, WorkOn, PageFacts, TabStateTypes DEF PressConfirm, Pages

(* A tap that finds a pending attempt and recovers it keeps it.             *)
LEMMA PerformRecoverKeepsInv ==
  ASSUME Inv, NEW t \in Tabs, PerformRecover(t), UNCHANGED kioskVars
  PROVE  Inv'
<1>1. reply[t].k = "none"
  BY DEF PerformRecover, Inv, RepliesTrue, WaitingPages
<1> QED BY <1>1, WorkOn, PageFacts, TabStateTypes DEF PerformRecover, Pages

(* Starting to recover the saved attempt keeps it.                          *)
LEMMA RecoverOriginalKeepsInv ==
  ASSUME Inv, NEW t \in Tabs, RecoverOriginal(t), UNCHANGED kioskVars
  PROVE  Inv'
<1>1. reply[t].k = "none"
  BY DEF RecoverOriginal, Inv, RepliesTrue, WaitingPages
<1>2. CASE Show(t, "error", TRUE)
  BY <1>1, <1>2, ComeToRest DEF RecoverOriginal, Pages
<1>3. CASE Become(t, Working("getReceipt", SavedAttempt(t), tab[t].via))
  BY <1>1, <1>3, WorkOn, PageFacts DEF RecoverOriginal, Pages, WaitingPages
<1>4. CASE Escape(t)
  BY <1>1, <1>4, ComeToRest DEF RecoverOriginal, Escape, Pages
<1> QED BY <1>2, <1>3, <1>4 DEF RecoverOriginal

(* A new attempt gets an event nobody has used.                             *)
LEMMA PerformClockInKeepsInv ==
  ASSUME Inv, NEW t \in Tabs, PerformClockIn(t), UNCHANGED kioskVars
  PROVE  Inv'
<1> DEFINE D == DeviceOf[t]
<1>1. PICK skew \in Skews :
        LET a == NewAttempt(t, skew)
        IN  \/ /\ journal' = [journal EXCEPT ![D] = a]
               /\ Become(t, Working("posting", a, "perform"))
            \/ /\ journal' \in {journal, [journal EXCEPT ![D] = a]}
               /\ Show(t, "error", FALSE)
  BY DEF PerformClockIn
<1> DEFINE a == NewAttempt(t, skew)
<1>2. tab[t].version \in Versions /\ tab[t].lag \in Int /\ lastEvent \in Nat /\ now \in Int
      /\ skew \in Int
  BY PageFacts, SkewsAssumption DEF TabStates, Inv, TypeOK, LineTypeOK, AttendanceTypeOK
<1>3. a \in Attempts /\ a.ev = lastEvent + 1 /\ a.phase = "pending"
  BY <1>2 DEF NewAttempt, Attempts
<1>4. reply[t].k = "none" /\ UNCHANGED <<attendanceVars, serverVars, kioskVars, reply, late>>
      /\ lastEvent' = lastEvent + 1
  BY DEF PerformClockIn, Inv, RepliesTrue, WaitingPages
<1> HIDE DEF a
<1>5. PICK s \in TabStates : tab' = [tab EXCEPT ![t] = s] /\ s.att \in {a, NoAttempt}
                               /\ s.page \in {"posting", "error"}
  <2>1. Working("posting", a, "perform") \in TabStates
        /\ Working("posting", a, "perform").att = a
        /\ Working("posting", a, "perform").page = "posting"
    BY <1>3, TabStateTypes DEF Working, Pages, WaitingPages
  <2>2. Resting("error", FALSE) \in TabStates /\ Resting("error", FALSE).att = NoAttempt
        /\ Resting("error", FALSE).page = "error"
    BY TabStateTypes DEF Resting, Pages
  <2> QED BY <1>1, <2>1, <2>2 DEF Become, Show, a
<1>6. PICK j \in {SavedAttempt(t), a} : journal' = [journal EXCEPT ![D] = j]
  BY <1>1, PageFacts DEF a
<1>7. TypeOK' /\ RowsKeyed' /\ ConfirmedAction'
  BY <1>2, <1>3, <1>4, <1>5, <1>6, PageFacts
     DEF Inv, TypeOK, AttendanceTypeOK, LineTypeOK, KioskTypeOK, RowsKeyed, ConfirmedAction,
         attendanceVars, serverVars, kioskVars
<1>8. \A e : Recorded(e) <=> Recorded(e)'
  BY <1>4 DEF Recorded, serverVars
<1>9. Sent' \subseteq Sent \cup {Payload(a)}
  <2>1. \A d \in Devices : Payload(journal'[d]) \in Sent \cup {Payload(a)}
    BY <1>6, SentMembers, PageFacts DEF Inv, TypeOK, LineTypeOK
  <2>2. \A u \in Tabs : Payload(tab'[u].att) \in Sent \cup {Payload(a)}
    BY <1>5, SentMembers DEF Inv, TypeOK, LineTypeOK
  <2>3. /\ \A x \in late' : Payload(x) \in Sent \cup {Payload(a)}
        /\ \A l \in ledger' : Payload(l) \in Sent \cup {Payload(a)}
    BY <1>4, SentMembers DEF serverVars
  <2> QED BY <2>1, <2>2, <2>3, SentMembers, SentBound
<1>10. AgreedPayloads'
  <2>1. \A p \in Sent : p[1] <= lastEvent /\ p[1] \in Int
    <3>1. \A p \in Sent : p[1] \in Int
      BY DEF Sent, Payload, Inv, TypeOK, LineTypeOK, Attempts, Receipts, TabStates, NoAttempt
    <3> QED BY <3>1 DEF Inv, AgreedPayloads
  <2>2. Payload(a)[1] = lastEvent + 1
    BY <1>3 DEF Payload
  <2> QED BY <1>2, <1>4, <1>9, <2>1, <2>2 DEF Inv, AgreedPayloads
<1>11. RepliesTrue'
  BY <1>4, <1>5, <1>8 DEF Inv, RepliesTrue, TypeOK, LineTypeOK
<1>12. ConfirmedRecorded'
  <2>1. \A d \in Devices : journal'[d] = IF d = D THEN j ELSE journal[d]
    BY <1>6 DEF Inv, TypeOK, LineTypeOK
  <2>2. \A u \in Tabs : tab'[u] = IF u = t THEN s ELSE tab[u]
    BY <1>5 DEF Inv, TypeOK, LineTypeOK
  <2>3. j.phase = "confirmed" => Recorded(j.ev)
    BY <1>3, PageFacts
  <2> QED BY <1>5, <1>8, <2>1, <2>2, <2>3 DEF Inv, ConfirmedRecorded
<1> QED BY <1>7, <1>10, <1>11, <1>12 DEF Inv

(* Settling changes the phase of an attempt and nothing else.               *)
LEMMA SettledFacts ==
  ASSUME NEW a \in Attempts, NEW phase \in {"confirmed", "rejected"}
  PROVE  /\ Settled(a, phase) \in Attempts /\ Payload(Settled(a, phase)) = Payload(a)
         /\ Settled(a, phase).ev = a.ev /\ Settled(a, phase).phase = phase
BY TabStateTypes DEF Settled, Payload

(* Settling leaves the journal alone or settles the attempt it holds.       *)
LEMMA FinishFacts ==
  ASSUME Inv, NEW t \in Tabs, NEW phase \in {"confirmed", "rejected"},
         Finish(t, phase) \/ journal' = journal
  PROVE  \E j \in Attempts :
            /\ journal' = [journal EXCEPT ![DeviceOf[t]] = j]
            /\ Payload(j) \in Sent
            /\ \/ j = SavedAttempt(t)
               \/ j.ev = tab[t].att.ev /\ j.phase = phase
<1>1. CASE journal' = journal
  BY <1>1, PageFacts
<1>2. CASE Finish(t, phase) /\ journal' # journal
  <2> DEFINE j == Settled(SavedAttempt(t), phase)
  <2>1. StillCurrent(t) /\ journal' = [journal EXCEPT ![DeviceOf[t]] = j]
    BY <1>2 DEF Finish
  <2>2. j \in Attempts /\ Payload(j) \in Sent /\ j.phase = phase /\ j.ev = SavedAttempt(t).ev
    BY PageFacts, SettledFacts
  <2>3. SavedAttempt(t).ev = tab[t].att.ev
    BY <2>1 DEF StillCurrent
  <2> QED BY <2>1, <2>2, <2>3
<1> QED BY <1>1, <1>2

(* showReceipt only ever runs on an attempt whose receipt exists.           *)
LEMMA ShowReceiptKeepsInv ==
  ASSUME Inv, NEW t \in Tabs, ShowReceipt(t), reply[t].k = "receipt", TakeReply(t),
         UNCHANGED <<attendanceVars, serverVars, kioskVars, late, lastEvent>>
  PROVE  Inv'
<1>1. Recorded(tab[t].att.ev)
  BY DEF Inv, RepliesTrue
<1>2. PICK j \in Attempts :
        /\ journal' = [journal EXCEPT ![DeviceOf[t]] = j]
        /\ Payload(j) \in Sent
        /\ j = SavedAttempt(t) \/ (j.ev = tab[t].att.ev /\ j.phase = "confirmed")
  BY FinishFacts DEF ShowReceipt
<1>3. j.phase = "confirmed" => Recorded(j.ev)
  BY <1>1, <1>2, PageFacts
<1>4. PICK s \in TabStates : tab' = [tab EXCEPT ![t] = s]
        /\ s.att \in {tab[t].att, NoAttempt} /\ (s.page = "success" => s.att = tab[t].att)
  <2>1. \A n \in BOOLEAN : /\ Succeeded(tab[t].att, n) \in TabStates
                           /\ Succeeded(tab[t].att, n).att = tab[t].att
    BY PageFacts, TabStateTypes DEF Succeeded
  <2>2. Resting("unconfirmed", FALSE) \in TabStates /\ Resting("unconfirmed", FALSE).att = NoAttempt
        /\ Resting("unconfirmed", FALSE).page = "unconfirmed"
    BY TabStateTypes DEF Resting, Pages
  <2> QED BY <2>1, <2>2 DEF ShowReceipt, Show, Become
<1> QED BY <1>1, <1>2, <1>3, <1>4, PageFacts, PageStepKeepsInv DEF TakeReply

(* The answer to the receipt request keeps the invariant.                   *)
LEMMA GotReceiptKeepsInv ==
  ASSUME Inv, NEW t \in Tabs, GotReceipt(t), UNCHANGED kioskVars
  PROVE  Inv'
<1>1. CASE reply[t].k = "receipt"
  BY <1>1, ShowReceiptKeepsInv DEF GotReceipt
<1>2. CASE reply[t].k # "receipt"
  <2>1. \/ Become(t, Working("getResend", tab[t].att, tab[t].via)) /\ UNCHANGED journal
        \/ Show(t, "unconfirmed", FALSE) /\ UNCHANGED journal
    BY <1>2 DEF GotReceipt
  <2>2. "getResend" \in Pages \ {"success"} /\ "unconfirmed" \in Pages \ {"success"}
    BY DEF Pages, WaitingPages
  <2> QED BY <2>1, <2>2, ComeToRest, WorkOn, PageFacts DEF GotReceipt
<1> QED BY <1>1, <1>2

(* The answer to the state request before a resend keeps it.                *)
LEMMA GotResendStateKeepsInv ==
  ASSUME Inv, NEW t \in Tabs, GotResendState(t), UNCHANGED kioskVars
  PROVE  Inv'
<1>1. \/ Become(t, Working("posting", tab[t].att, tab[t].via))
      \/ \E page \in {"unconfirmed", "error"} : Show(t, page, FALSE)
  BY DEF GotResendState, Escape
<1>2. {"posting", "unconfirmed", "error"} \subseteq Pages \ {"success"}
  BY DEF Pages, WaitingPages
<1> QED BY <1>1, <1>2, ComeToRest, WorkOn, PageFacts DEF GotResendState

(* The answer to the state request of prepareClockIn keeps it.              *)
LEMMA GotStateKeepsInv ==
  ASSUME Inv, NEW t \in Tabs, GotState(t), UNCHANGED kioskVars
  PROVE  Inv'
<1>1. CASE Show(t, "error", FALSE)
  BY <1>1, ComeToRest DEF GotState, Pages
<1>2. CASE Become(t, Ready(reply[t].version, now - reply[t].at))
  <2>1. reply[t].version \in Versions /\ now - reply[t].at \in Int
    BY PageFacts DEF Replies, Inv, TypeOK, AttendanceTypeOK
  <2> DEFINE s == Ready(reply[t].version, now - reply[t].at)
  <2>2. s \in TabStates /\ s.att = NoAttempt /\ s.page # "success"
    BY <2>1, TabStateTypes DEF Ready
  <2> QED BY <1>2, <2>2, MovePage, PageFacts DEF GotState
<1> QED BY <1>1, <1>2 DEF GotState

(* The answer to the clock-in request keeps it.                             *)
LEMMA GotPostKeepsInv ==
  ASSUME Inv, NEW t \in Tabs, GotPost(t), UNCHANGED kioskVars
  PROVE  Inv'
<1>1. CASE reply[t].k = "receipt"
  BY <1>1, ShowReceiptKeepsInv DEF GotPost
<1>2. CASE reply[t].k # "receipt"
  <2>1. (Finish(t, "rejected") \/ journal' = journal)
        /\ \E page \in {"unconfirmed", "error"}, n \in BOOLEAN : Show(t, page, n)
    BY <1>2 DEF GotPost, Escape
  <2>2. PICK page \in {"unconfirmed", "error"}, n \in BOOLEAN : Show(t, page, n)
    BY <2>1
  <2>3. PICK j \in Attempts :
          /\ journal' = [journal EXCEPT ![DeviceOf[t]] = j]
          /\ Payload(j) \in Sent
          /\ j = SavedAttempt(t) \/ (j.ev = tab[t].att.ev /\ j.phase = "rejected")
    BY <2>1, FinishFacts
  <2>4. j.phase = "confirmed" => Recorded(j.ev)
    BY <2>3, PageFacts
  <2>5. Resting(page, n) \in TabStates /\ Resting(page, n).att = NoAttempt
        /\ Resting(page, n).page # "success"
    BY <2>2, TabStateTypes DEF Resting, Pages
  <2> QED BY <2>2, <2>3, <2>4, <2>5, PageFacts, PageStepKeepsInv
          DEF GotPost, TakeReply, Show, Become
<1> QED BY <1>1, <1>2

-----------------------------------------------------------------------------
(* Steps that leave every page and every journal alone.                     *)
LEMMA QuietStepKeepsInv ==
  ASSUME Inv, UNCHANGED <<journal, tab, lastEvent>>,
         TypeOK', RowsKeyed', ConfirmedAction', RepliesTrue',
         ledger \subseteq ledger',
         \A a \in late' : Payload(a) \in Sent,
         \A l \in ledger' : Payload(l) \in Sent
  PROVE  Inv'
<1>1. Sent' \subseteq Sent
  <2>1. /\ \A d \in Devices : Payload(journal'[d]) \in Sent
        /\ \A t \in Tabs : Payload(tab'[t].att) \in Sent
    BY SentMembers
  <2> QED BY <2>1, SentMembers, SentBound
<1>2. AgreedPayloads'
  BY <1>1 DEF Inv, AgreedPayloads
<1>3. \A e : Recorded(e) => Recorded(e)'
  BY DEF Recorded
<1>4. ConfirmedRecorded'
  BY <1>3 DEF Inv, ConfirmedRecorded
<1> QED BY <1>2, <1>4 DEF Inv

(* An answer given to a waiting page keeps the invariant if a receipt in it *)
(* is in the ledger.                                                        *)
LEMMA AnswerIsTrue ==
  ASSUME Inv, NEW t \in Tabs, NEW r \in Replies, reply' = [reply EXCEPT ![t] = r],
         UNCHANGED tab, ledger \subseteq ledger',
         tab[t].page \in WaitingPages,
         r.k = "receipt" => /\ tab[t].page \in {"posting", "getReceipt"}
                            /\ Recorded(tab[t].att.ev)'
  PROVE  reply' \in [Tabs -> Replies] /\ RepliesTrue'
<1>1. \A e : Recorded(e) => Recorded(e)'
  BY DEF Recorded
<1>2. \A u \in Tabs : reply'[u] = IF u = t THEN r ELSE reply[u]
  BY DEF Inv, TypeOK, LineTypeOK
<1>3. reply' \in [Tabs -> Replies]
  BY DEF Inv, TypeOK, LineTypeOK
<1>4. RepliesTrue'
  BY <1>1, <1>2 DEF Inv, RepliesTrue
<1> QED BY <1>3, <1>4

(* The 15 s abort keeps the invariant.                                      *)
LEMMA TimeoutKeepsInv ==
  ASSUME Inv, NEW t \in Tabs, Timeout(t), UNCHANGED kioskVars
  PROVE  Inv'
<1>1. Answer("failed") \in Replies /\ Answer("failed").k = "failed"
  BY TabStateTypes DEF ReplyKinds
<1>2. UNCHANGED <<attendanceVars, serverVars, journal, tab, lastEvent, kioskVars>>
      /\ reply' = [reply EXCEPT ![t] = Answer("failed")] /\ tab[t].page \in WaitingPages
  BY DEF Timeout
<1>3. \A a \in late' : a \in late \/ a = tab[t].att
  BY DEF Timeout, Abandon
<1>4. reply' \in [Tabs -> Replies] /\ RepliesTrue'
  BY <1>1, <1>2, AnswerIsTrue DEF serverVars
<1>5. TypeOK' /\ RowsKeyed' /\ ConfirmedAction'
  BY <1>2, <1>3, <1>4, PageFacts
     DEF Inv, TypeOK, AttendanceTypeOK, LineTypeOK, KioskTypeOK, RowsKeyed, ConfirmedAction,
         attendanceVars, serverVars, kioskVars
<1>6. /\ \A a \in late' : Payload(a) \in Sent
      /\ \A l \in ledger' : Payload(l) \in Sent
  BY <1>2, <1>3, SentMembers DEF serverVars
<1> QED BY <1>2, <1>4, <1>5, <1>6, QuietStepKeepsInv DEF serverVars

(* submit: whatever it answers, table and ledger stay well formed, nothing  *)
(* leaves the ledger, a new receipt carries the submitted payload and the   *)
(* action of the confirmed state, and "receipt" means there is one.         *)
LEMMA SubmitFacts ==
  ASSUME Inv, NEW a \in Attempts, Payload(a) \in Sent, NEW kind, Submit(a, kind),
         UNCHANGED <<now, account>>
  PROVE  /\ AttendanceTypeOK' /\ RowsKeyed'
         /\ ledger' \subseteq Receipts /\ ledger \subseteq ledger'
         /\ \A l \in ledger' : Payload(l) \in Sent
         /\ ConfirmedAction'
         /\ kind = "receipt" => Recorded(a.ev)'
<1>1. CASE SubmitRefused(a, kind)
  <2>1. UNCHANGED <<rows, xid, ledger>> /\ (kind = "receipt" => Recorded(a.ev))
    BY <1>1 DEF SubmitRefused
  <2>2. AttendanceTypeOK' /\ RowsKeyed' /\ ConfirmedAction'
    BY <2>1 DEF Inv, TypeOK, AttendanceTypeOK, RowsKeyed, ConfirmedAction
  <2>3. ledger' \subseteq Receipts /\ \A l \in ledger' : Payload(l) \in Sent
    BY <2>1, SentMembers DEF Inv, TypeOK, LineTypeOK
  <2> QED BY <2>1, <2>2, <2>3 DEF Recorded
<1>2. CASE SubmitWritten(a, kind)
  <2> DEFINE d == DateOf(a.ts)
             time == TimeOf(a.ts)
             l == ReceiptFor(a)
  <2>1. a.ts \in Int /\ a.ev \in Nat /\ a.version \in Versions
    BY DEF Attempts
  <2>2. d \in Dates /\ time \in TimesOfDay
    BY <2>1, DateAndTimeType
  <2>3. /\ a.version = StateVersion(d)
        /\ rows' = AfterPunch(RowsOn(d), d, time) /\ xid' = xid + 1
        /\ ledger' = ledger \cup {l}
    BY <1>2 DEF SubmitWritten, Acceptable
  <2>4. AttendanceTypeOK /\ RowsKeyed
    BY DEF Inv, TypeOK
  <2> HIDE DEF d, time
  <2>5. AttendanceTypeOK' /\ RowsKeyed'
    <3>1. rows' \subseteq Row /\ xid' \in Nat /\ RowsKeyed'
      BY <2>2, <2>3, <2>4, PunchKeepsTable
    <3> QED BY <3>1, <2>4 DEF AttendanceTypeOK
  <2>6. PunchedRow(RowsOn(d), d, time).id \in Nat
    <3>1. PunchedRow(RowsOn(d), d, time) \in Row
      BY <2>2, <2>4, PunchedRowFacts
    <3> QED BY <3>1 DEF Row
  <2>7. /\ l.ev = a.ev /\ l.version = a.version /\ l.ts = a.ts
        /\ l.action = PendingAction(RowsOn(d)) /\ l \in Receipts
    BY <2>1, <2>2, <2>6 DEF ReceiptFor, Receipts, PendingAction, d, time
  <2> HIDE DEF l
  <2>8. ledger' \subseteq Receipts
    BY <2>3, <2>7 DEF Inv, TypeOK, LineTypeOK
  <2>9. \A m \in ledger' : Payload(m) \in Sent
    BY <2>3, <2>7, SentMembers DEF Payload
  <2>10. l.action = PendingAction(l.version.rows) /\ DateOf(l.ts) = l.version.date
    BY <2>3, <2>7 DEF StateVersion, d
  <2>11. ConfirmedAction'
    BY <2>3, <2>10 DEF Inv, ConfirmedAction, PendingAction, Incomplete, DateOf
  <2>12. Recorded(a.ev)'
    BY <2>3, <2>7 DEF Recorded
  <2> QED BY <2>3, <2>5, <2>8, <2>9, <2>11, <2>12
<1> QED BY <1>1, <1>2 DEF Submit

(* Serving a clock-in request keeps the invariant.                          *)
LEMMA ServePostKeepsInv ==
  ASSUME Inv, NEW t \in Tabs, ServePost(t), UNCHANGED kioskVars
  PROVE  Inv'
<1>1. PICK kind \in ReplyKinds :
        Submit(tab[t].att, kind) /\ reply' = [reply EXCEPT ![t] = Answer(kind)]
  BY DEF ServePost
<1>2. UNCHANGED <<now, journal, tab, late, lastEvent, account, paused, kioskVars>>
      /\ tab[t].page = "posting"
  BY DEF ServePost, Waiting
<1>3. /\ AttendanceTypeOK' /\ RowsKeyed'
      /\ ledger' \subseteq Receipts /\ ledger \subseteq ledger'
      /\ \A l \in ledger' : Payload(l) \in Sent
      /\ ConfirmedAction'
      /\ kind = "receipt" => Recorded(tab[t].att.ev)'
  BY <1>1, <1>2, PageFacts, SubmitFacts DEF Recorded
<1>4. Answer(kind) \in Replies /\ Answer(kind).k = kind
  BY TabStateTypes
<1>5. reply' \in [Tabs -> Replies] /\ RepliesTrue'
  BY <1>1, <1>2, <1>3, <1>4, AnswerIsTrue DEF WaitingPages
<1>6. TypeOK'
  BY <1>2, <1>3, <1>5 DEF Inv, TypeOK, LineTypeOK, KioskTypeOK, kioskVars
<1>7. \A a \in late' : Payload(a) \in Sent
  BY <1>2, SentMembers
<1> QED BY <1>2, <1>3, <1>5, <1>6, <1>7, QuietStepKeepsInv

(* A copy that arrives late keeps it.                                       *)
LEMMA ServeLateKeepsInv ==
  ASSUME Inv, ServeLate, UNCHANGED kioskVars
  PROVE  Inv'
<1>1. PICK a \in late, kind \in ReplyKinds : late' = late \ {a} /\ Submit(a, kind)
  BY DEF ServeLate
<1>2. UNCHANGED <<now, journal, tab, reply, lastEvent, account, paused, kioskVars>>
  BY DEF ServeLate
<1>3. a \in Attempts /\ Payload(a) \in Sent
  BY SentMembers DEF Inv, TypeOK, LineTypeOK
<1>4. /\ AttendanceTypeOK' /\ RowsKeyed'
      /\ ledger' \subseteq Receipts /\ ledger \subseteq ledger'
      /\ \A l \in ledger' : Payload(l) \in Sent
      /\ ConfirmedAction'
  BY <1>1, <1>2, <1>3, SubmitFacts
<1>5. RepliesTrue'
  <2>1. \A e : Recorded(e) => Recorded(e)'
    BY <1>4 DEF Recorded
  <2> QED BY <1>2, <2>1 DEF Inv, RepliesTrue
<1>6. TypeOK'
  BY <1>1, <1>2, <1>4 DEF Inv, TypeOK, LineTypeOK, KioskTypeOK, kioskVars
<1>7. \A x \in late' : Payload(x) \in Sent
  BY <1>1, SentMembers
<1> QED BY <1>2, <1>4, <1>5, <1>6, <1>7, QuietStepKeepsInv

(* The two read-only handlers keep it.                                      *)
LEMMA ServeReadKeepsInv ==
  ASSUME Inv, NEW t \in Tabs, ServeReceipt(t) \/ ServeState(t), UNCHANGED kioskVars
  PROVE  Inv'
<1>1. UNCHANGED <<attendanceVars, serverVars, journal, tab, late, lastEvent, kioskVars>>
      /\ tab[t].page \in WaitingPages
  BY DEF ServeReceipt, ServeState, Waiting, WaitingPages
<1>2. \A e : Recorded(e) <=> Recorded(e)'
  BY <1>1 DEF Recorded, serverVars
<1>3. PICK r \in Replies : /\ reply' = [reply EXCEPT ![t] = r]
                           /\ r.k = "receipt" => /\ tab[t].page = "getReceipt"
                                                 /\ Recorded(tab[t].att.ev)
  <2>1. CASE ServeReceipt(t)
    <3>1. \E k \in ReplyKinds : /\ reply' = [reply EXCEPT ![t] = Answer(k)]
                                /\ k = "receipt" => Recorded(tab[t].att.ev)
      BY <2>1 DEF ServeReceipt, ReplyKinds
    <3> QED BY <2>1, <3>1, TabStateTypes DEF ServeReceipt, Waiting
  <2>2. CASE ServeState(t)
    <3>1. StateVersion(DateOf(now)) \in Versions /\ now \in Int
      BY DateAndTimeType DEF StateVersion, Versions, RowsOn, Inv, TypeOK, AttendanceTypeOK, Dates
    <3> DEFINE state == [k |-> "state", version |-> StateVersion(DateOf(now)), at |-> now]
    <3>2. state \in Replies /\ state.k # "receipt"
      BY <3>1 DEF Replies, ReplyKinds
    <3>3. Answer("failed") \in Replies /\ Answer("failed").k # "receipt"
      BY TabStateTypes DEF ReplyKinds
    <3>4. \/ reply' = [reply EXCEPT ![t] = state]
          \/ reply' = [reply EXCEPT ![t] = Answer("failed")]
      BY <2>2 DEF ServeState
    <3> QED BY <3>2, <3>3, <3>4
  <2> QED BY <2>1, <2>2
<1>4. reply' \in [Tabs -> Replies] /\ RepliesTrue'
  BY <1>1, <1>2, <1>3, AnswerIsTrue DEF serverVars
<1>5. TypeOK' /\ RowsKeyed' /\ ConfirmedAction'
  BY <1>1, <1>4
     DEF Inv, TypeOK, AttendanceTypeOK, LineTypeOK, KioskTypeOK, RowsKeyed, ConfirmedAction,
         attendanceVars, serverVars, kioskVars
<1>6. (\A a \in late' : Payload(a) \in Sent) /\ (\A l \in ledger' : Payload(l) \in Sent)
  BY <1>1, SentMembers DEF serverVars
<1> QED BY <1>1, <1>4, <1>5, <1>6, QuietStepKeepsInv DEF serverVars

-----------------------------------------------------------------------------
(* A barcode scan writes attendance like any punch and touches nothing of   *)
(* the LINE channel.                                                        *)
LEMMA KioskKeepsInv ==
  ASSUME Inv, KioskNext, UNCHANGED lineVars
  PROVE  Inv'
<1>1. AttendanceTypeOK /\ RowsKeyed /\ KioskTypeOK
  BY DEF Inv, TypeOK
<1>2. AttendanceTypeOK' /\ RowsKeyed' /\ KioskTypeOK'
  <2>1. IdleScan \in ScanStates
    BY DayTicksAssumption DEF IdleScan, ScanStates, Actions, Dates, TimesOfDay
  <2>2. ASSUME NEW k \in Scans, UNCHANGED <<attendanceVars, punched>>,
               NEW s \in ScanStates, scan' = [scan EXCEPT ![k] = s],
               lastScan' \in [Actions -> Nat \cup {NoScan}]
        PROVE  AttendanceTypeOK' /\ RowsKeyed' /\ KioskTypeOK'
    BY <1>1, <2>2 DEF AttendanceTypeOK, RowsKeyed, KioskTypeOK, attendanceVars
  <2>3. ASSUME NEW k \in Scans, ReadPending(k)
        PROVE  AttendanceTypeOK' /\ RowsKeyed' /\ KioskTypeOK'
    <3>1. PICK R : scan' = [scan EXCEPT ![k] = Decided(PendingAction(R))]
      BY <2>3 DEF ReadPending
    <3>2. Decided(PendingAction(R)) \in ScanStates
      BY DayTicksAssumption DEF Decided, PendingAction, ScanStates, Actions, Dates, TimesOfDay
    <3> QED BY <1>1, <2>2, <2>3, <3>1, <3>2 DEF ReadPending, KioskTypeOK
  <2>4. ASSUME NEW k \in Scans, RefuseTooSoon(k) \/ UpsertStale(k) \/ UpsertFails(k)
        PROVE  AttendanceTypeOK' /\ RowsKeyed' /\ KioskTypeOK'
    BY <1>1, <2>1, <2>2, <2>4 DEF RefuseTooSoon, UpsertStale, UpsertFails, KioskTypeOK
  <2>5. ASSUME NEW k \in Scans, AcquireAndStamp(k)
        PROVE  AttendanceTypeOK' /\ RowsKeyed' /\ KioskTypeOK'
    <3>1. Stamped(scan[k].expected, now) \in ScanStates
      <4>1. scan[k].expected \in Actions /\ now \in Int
        BY <1>1 DEF KioskTypeOK, ScanStates, AttendanceTypeOK
      <4> QED BY <4>1, DateAndTimeType DEF Stamped, ScanStates
    <3>2. lastScan' \in [Actions -> Nat \cup {NoScan}]
      BY <1>1, <2>5 DEF AcquireAndStamp, KioskTypeOK, AttendanceTypeOK
    <3> QED BY <2>2, <2>5, <3>1, <3>2 DEF AcquireAndStamp
  <2>6. ASSUME NEW k \in Scans, UpsertScan(k)
        PROVE  AttendanceTypeOK' /\ RowsKeyed' /\ KioskTypeOK'
    <3>1. scan[k].date \in Dates /\ scan[k].time \in TimesOfDay
      BY <1>1 DEF KioskTypeOK, ScanStates
    <3>2. rows' \subseteq Row /\ xid' \in Nat /\ RowsKeyed'
      BY <1>1, <2>6, <3>1, PunchKeepsTable DEF UpsertScan
    <3> QED BY <1>1, <2>1, <2>6, <3>2 DEF UpsertScan, AttendanceTypeOK, KioskTypeOK
  <2>7. CASE Restart
    BY <1>1, <2>1, <2>7 DEF Restart, AttendanceTypeOK, RowsKeyed, KioskTypeOK, attendanceVars
  <2> QED BY <2>3, <2>4, <2>5, <2>6, <2>7 DEF KioskNext
<1>3. TypeOK' /\ ConfirmedAction' /\ RepliesTrue'
  BY <1>2 DEF Inv, TypeOK, LineTypeOK, ConfirmedAction, RepliesTrue, Recorded,
              lineVars, clientVars, serverVars
<1>4. /\ \A a \in late' : Payload(a) \in Sent
      /\ \A l \in ledger' : Payload(l) \in Sent
  BY SentMembers DEF lineVars, clientVars, serverVars
<1> QED BY <1>2, <1>3, <1>4, QuietStepKeepsInv DEF lineVars, clientVars, serverVars

(* The clock and the administrator touch only the attendance state.         *)
LEMMA AttendanceKeepsInv ==
  ASSUME Inv, AttendanceNext, UNCHANGED <<lineVars, kioskVars>>
  PROVE  Inv'
<1>1. AttendanceTypeOK' /\ RowsKeyed'
  BY AttendanceStepKeepsTable DEF Inv, TypeOK
<1>2. TypeOK' /\ ConfirmedAction' /\ RepliesTrue'
  BY <1>1 DEF Inv, TypeOK, LineTypeOK, KioskTypeOK, ConfirmedAction, RepliesTrue, Recorded,
              lineVars, clientVars, serverVars, kioskVars
<1>3. /\ \A a \in late' : Payload(a) \in Sent
      /\ \A l \in ledger' : Payload(l) \in Sent
  BY SentMembers DEF lineVars, clientVars, serverVars
<1> QED BY <1>1, <1>2, <1>3, QuietStepKeepsInv DEF lineVars, clientVars, serverVars

(* So do pausing payroll writes, and a step that changes nothing.           *)
LEMMA PauseKeepsInv ==
  ASSUME Inv, (SetPaused /\ UNCHANGED kioskVars) \/ UNCHANGED vars
  PROVE  Inv'
<1>1. /\ UNCHANGED <<now, rows, xid, account, journal, tab, reply, late, lastEvent, ledger,
                     scan, lastScan, punched>>
      /\ paused' \in BOOLEAN
  BY DEF SetPaused, vars, attendanceVars, lineVars, clientVars, serverVars, kioskVars,
         Inv, TypeOK, LineTypeOK
<1>2. TypeOK' /\ RowsKeyed' /\ ConfirmedAction' /\ RepliesTrue'
  BY <1>1 DEF Inv, TypeOK, AttendanceTypeOK, LineTypeOK, KioskTypeOK, RowsKeyed,
              ConfirmedAction, RepliesTrue, Recorded
<1>3. /\ \A a \in late' : Payload(a) \in Sent
      /\ \A l \in ledger' : Payload(l) \in Sent
  BY <1>1, SentMembers
<1> QED BY <1>1, <1>2, <1>3, QuietStepKeepsInv

-----------------------------------------------------------------------------
(* The initial state satisfies the invariant.                               *)
LEMMA InitInv ==
  ASSUME Init
  PROVE  Inv
<1>1. /\ ledger = {} /\ late = {} /\ rows = {} /\ lastEvent = 0
      /\ journal = [d \in Devices |-> NoAttempt]
      /\ tab = [t \in Tabs |-> Resting("closed", FALSE)]
      /\ reply = [t \in Tabs |-> Answer("none")]
  BY DEF Init, AttendanceInit, LineInit
<1>2. /\ Resting("closed", FALSE) \in TabStates /\ Resting("closed", FALSE).att = NoAttempt
      /\ Resting("closed", FALSE).page = "closed"
      /\ Answer("none") \in Replies /\ Answer("none").k = "none"
      /\ NoAttempt \in Attempts /\ NoAttempt.phase = "none" /\ NoAttempt.ev = 0
  BY TabStateTypes DEF Resting, Pages, ReplyKinds, NoAttempt
<1>3. TypeOK
  <2>1. IdleScan \in ScanStates
    BY DayTicksAssumption DEF IdleScan, ScanStates, Actions, Dates, TimesOfDay
  <2>2. KioskTypeOK
    BY <2>1 DEF Init, KioskInit, KioskTypeOK
  <2>3. AttendanceTypeOK
    BY DEF Init, AttendanceInit, AttendanceTypeOK, Accounts
  <2>4. LineTypeOK
    <3>1. paused \in BOOLEAN
      BY Zenon DEF Init, LineInit
    <3> QED BY <1>1, <1>2, <3>1 DEF LineTypeOK
  <2> QED BY <2>2, <2>3, <2>4 DEF TypeOK
<1>4. RowsKeyed /\ ConfirmedAction
  BY <1>1 DEF RowsKeyed, ConfirmedAction
<1>5. Sent \subseteq {Payload(NoAttempt)}
  BY <1>1, <1>2 DEF Sent
<1>6. AgreedPayloads
  BY <1>1, <1>2, <1>5 DEF AgreedPayloads, Payload
<1>7. RepliesTrue /\ ConfirmedRecorded
  BY <1>1, <1>2 DEF RepliesTrue, ConfirmedRecorded
<1> QED BY <1>3, <1>4, <1>6, <1>7 DEF Inv

(* Every step of the punch clock keeps the invariant.                       *)
LEMMA NextInv ==
  ASSUME Inv, [Next]_vars
  PROVE  Inv'
<1>1. CASE AttendanceNext /\ UNCHANGED <<lineVars, kioskVars>>
  BY <1>1, AttendanceKeepsInv
<1>2. CASE LineNext /\ UNCHANGED kioskVars
  <2>1. ASSUME NEW t \in Tabs, UserStep(t) PROVE Inv'
    BY <1>2, <2>1, OpenKeepsInv, PressNextKeepsInv, PressConfirmKeepsInv,
       PerformClockInKeepsInv, PerformRecoverKeepsInv DEF UserStep
  <2>2. ASSUME NEW t \in Tabs, PageStep(t) PROVE Inv'
    BY <1>2, <2>2, RecoverOriginalKeepsInv, GotReceiptKeepsInv, GotResendStateKeepsInv,
       GotStateKeepsInv, GotPostKeepsInv DEF PageStep
  <2>3. ASSUME NEW t \in Tabs, ServerStep(t) PROVE Inv'
    BY <1>2, <2>3, ServePostKeepsInv, ServeReadKeepsInv DEF ServerStep
  <2>4. ASSUME NEW t \in Tabs, Timeout(t) PROVE Inv'
    BY <1>2, <2>4, TimeoutKeepsInv
  <2>5. CASE ServeLate \/ SetPaused
    BY <1>2, <2>5, ServeLateKeepsInv, PauseKeepsInv
  <2> QED BY <1>2, <2>1, <2>2, <2>3, <2>4, <2>5 DEF LineNext
<1>3. CASE KioskNext /\ UNCHANGED lineVars
  BY <1>3, KioskKeepsInv
<1>4. CASE UNCHANGED vars
  BY <1>4, PauseKeepsInv
<1> QED BY <1>1, <1>2, <1>3, <1>4 DEF Next

(* The inductive invariant holds throughout.                                *)
THEOREM Invariance == Spec => []Inv
BY InitInv, NextInv, PTL DEF Spec

(* Every variable keeps its type.                                           *)
THEOREM TypeCorrect == Spec => []TypeOK
<1>1. Inv => TypeOK
  BY DEF Inv
<1> QED BY <1>1, Invariance, PTL

(* However requests are retried, delayed or raced by other tabs, the kiosk  *)
(* and the administrator, a LINE punch is recorded as the action and on the *)
(* date the employee confirmed.                                             *)
THEOREM ActionConfirmed == Spec => []ConfirmedAction
<1>1. Inv => ConfirmedAction
  BY DEF Inv
<1> QED BY <1>1, Invariance, PTL

(* A success page and a confirmed journal entry are backed by a receipt for *)
(* that very attempt.                                                       *)
THEOREM ConfirmedBacked == Spec => []ConfirmedHasReceipt
<1>1. ASSUME Inv, NEW d \in Devices, journal[d].phase = "confirmed"
      PROVE  \E l \in ledger : SamePayload(l, journal[d])
  <2>1. PICK l \in ledger : l.ev = journal[d].ev
    BY <1>1 DEF Inv, ConfirmedRecorded, Recorded
  <2>2. Payload(l) \in Sent /\ Payload(journal[d]) \in Sent
    BY SentMembers
  <2>3. Payload(l)[1] = Payload(journal[d])[1]
    BY <2>1 DEF Payload
  <2>4. Payload(l) = Payload(journal[d])
    BY <1>1, <2>2, <2>3 DEF Inv, AgreedPayloads
  <2> QED BY <2>1, <2>4 DEF SamePayload, Payload
<1>2. Inv => ConfirmedHasReceipt
  BY <1>1 DEF ConfirmedHasReceipt, Inv, ConfirmedRecorded
<1> QED BY <1>2, Invariance, PTL

(* Only a tap on "confirm" and the answers about an attempt write a journal. *)
LEMMA JournalActions ==
  ASSUME Inv, [Next]_vars, journal' # journal
  PROVE  \E t \in Tabs : PerformClockIn(t) \/ GotReceipt(t) \/ GotPost(t)
<1>1. LineNext
  BY DEF Next, vars, lineVars, clientVars
<1>2. ~ (ServeLate \/ SetPaused)
  BY DEF ServeLate, SetPaused, clientVars
<1>3. PICK t \in Tabs : UserStep(t) \/ PageStep(t) \/ ServerStep(t) \/ Timeout(t)
  BY <1>1, <1>2 DEF LineNext
<1>4. ~ (ServerStep(t) \/ Timeout(t))
  BY DEF ServerStep, ServePost, ServeReceipt, ServeState, Timeout
<1>5. ~ (Open(t) \/ PressNext(t) \/ PressConfirm(t) \/ PerformRecover(t))
  BY DEF Open, PressNext, PressConfirm, PerformRecover
<1>6. ~ (RecoverOriginal(t) \/ GotResendState(t) \/ GotState(t))
  BY DEF RecoverOriginal, GotResendState, GotState
<1> QED BY <1>3, <1>4, <1>5, <1>6 DEF UserStep, PageStep

(* Only performClockIn and finishClockAttempt write a journal.              *)
LEMMA JournalWriters ==
  ASSUME Inv, [Next]_vars, journal' # journal
  PROVE  \E t \in Tabs : \/ PerformClockIn(t)
                         \/ \E phase \in {"confirmed", "rejected"} : Finish(t, phase)
<1>1. PICK t \in Tabs : PerformClockIn(t) \/ GotReceipt(t) \/ GotPost(t)
  BY JournalActions
<1>2. CASE GotReceipt(t)
  BY <1>2 DEF GotReceipt, ShowReceipt
<1>3. CASE GotPost(t)
  BY <1>3 DEF GotPost, ShowReceipt
<1> QED BY <1>1, <1>2, <1>3

(* A pending attempt leaves the journal only by being settled itself: a     *)
(* late answer, another tab or a reload never replaces it.                  *)
THEOREM PendingNeverLost == Spec => PendingKept
<1>1. ASSUME Inv, [Next]_vars, NEW d \in Devices, journal[d].phase = "pending"
      PROVE  journal'[d] \in {journal[d], Settled(journal[d], "confirmed"),
                                         Settled(journal[d], "rejected")}
  <2>1. CASE journal' = journal
    BY <2>1
  <2>2. CASE journal' # journal
    <3>1. journal \in [Devices -> Attempts]
      BY <1>1 DEF Inv, TypeOK, LineTypeOK
    <3>2. PICK t \in Tabs : \/ PerformClockIn(t)
                            \/ \E phase \in {"confirmed", "rejected"} : Finish(t, phase)
      BY <1>1, <2>2, JournalWriters
    <3>3. CASE PerformClockIn(t)
      <4>1. journal[DeviceOf[t]].phase # "pending"
        BY <3>3 DEF PerformClockIn, SavedAttempt
      <4>2. d # DeviceOf[t]
        BY <1>1, <4>1
      <4>3. \E a : journal' = [journal EXCEPT ![DeviceOf[t]] = a]
        BY <2>2, <3>3 DEF PerformClockIn
      <4> QED BY <3>1, <4>2, <4>3
    <3>4. ASSUME NEW phase \in {"confirmed", "rejected"}, Finish(t, phase)
          PROVE  journal'[d] \in {journal[d], Settled(journal[d], phase)}
      BY <2>2, <3>1, <3>4 DEF Finish, SavedAttempt
    <3> QED BY <3>2, <3>3, <3>4
  <2> QED BY <2>1, <2>2
<1>2. Inv /\ [Next]_vars =>
        [\A d \in Devices : journal[d].phase = "pending" =>
            journal'[d] \in {journal[d], Settled(journal[d], "confirmed"),
                                         Settled(journal[d], "rejected")}]_vars
  BY <1>1
<1> QED BY <1>2, Invariance, PTL DEF Spec, PendingKept

-----------------------------------------------------------------------------
(* What the punch channels guarantee about the attendance rows as long as   *)
(* the administrator's row routes (create, update, delete), which may write *)
(* anything, are not used.                                                  *)

(* No administrator writes attendance rows.                                 *)
RowsLeftToPunches == AdminOps \subseteq {"account"}

(* A step of any kind that changes the rows is one punch on some day: a     *)
(* counted scan, or a LINE punch that adds its receipt to the ledger.       *)
ScanPunch == ledger' = ledger /\ punched' = punched + 1
LinePunch(d, time) ==
    /\ punched' = punched
    /\ \E l \in Receipts :
          /\ ledger' = ledger \cup {l} /\ ~Recorded(l.ev) /\ Payload(l) \in Sent /\ Acceptable(l)
          /\ DateOf(l.ts) = d /\ l.time = time
          /\ l.action = PendingAction(RowsOn(d))
          /\ l.row = PunchedRow(RowsOn(d), d, time).id

LEMMA RowsChangeByPunch ==
  ASSUME Inv, [Next]_vars, RowsLeftToPunches
  PROVE  \/ UNCHANGED <<rows, xid, ledger, punched>>
         \/ \E d \in Dates, time \in TimesOfDay :
               /\ rows' = AfterPunch(RowsOn(d), d, time) /\ xid' = xid + 1
               /\ ScanPunch \/ LinePunch(d, time)
<1> DEFINE Punch(d, time) ==
             /\ rows' = AfterPunch(RowsOn(d), d, time) /\ xid' = xid + 1
             /\ ScanPunch \/ LinePunch(d, time)
           Quiet == UNCHANGED <<rows, xid, ledger, punched>>
<1> SUFFICES Quiet \/ \E d \in Dates, time \in TimesOfDay : Punch(d, time)
  OBVIOUS
<1>0. AttendanceTypeOK /\ RowsKeyed
  BY DEF Inv, TypeOK
<1>1. CASE AttendanceNext /\ UNCHANGED <<lineVars, kioskVars>>
  BY <1>1 DEF AttendanceNext, Tick, AdminCreate, AdminUpdate, AdminDelete, SetAccount,
              RowsLeftToPunches, lineVars, serverVars, kioskVars
<1>2. CASE LineNext /\ UNCHANGED kioskVars
  <2>0. punched' = punched
    BY <1>2 DEF kioskVars
  <2>1. ASSUME NEW a \in Attempts, NEW kind, Submit(a, kind), Payload(a) \in Sent
        PROVE  Quiet \/ \E d \in Dates, time \in TimesOfDay : Punch(d, time)
    <3>1. CASE SubmitRefused(a, kind)
      BY <2>0, <3>1 DEF SubmitRefused
    <3>2. CASE SubmitWritten(a, kind)
      <4> DEFINE d == DateOf(a.ts)
                 time == TimeOf(a.ts)
                 l == ReceiptFor(a)
      <4>1. a.ts \in Int /\ a.ev \in Nat /\ a.version \in Versions
        BY DEF Attempts
      <4>2. d \in Dates /\ time \in TimesOfDay
        BY <4>1, DateAndTimeType
      <4>3. PunchedRow(RowsOn(d), d, time).id \in Nat
        <5> HIDE DEF d, time
        <5>1. PunchedRow(RowsOn(d), d, time) \in Row
          BY <1>0, <4>2, PunchedRowFacts
        <5> QED BY <5>1 DEF Row
      <4>4. /\ l \in Receipts /\ DateOf(l.ts) = d /\ l.time = time
            /\ l.action = PendingAction(RowsOn(d))
            /\ l.row = PunchedRow(RowsOn(d), d, time).id
        BY <4>1, <4>2, <4>3 DEF ReceiptFor, Receipts, PendingAction
      <4>5. /\ rows' = AfterPunch(RowsOn(d), d, time) /\ xid' = xid + 1
            /\ ledger' = ledger \cup {l}
        BY <3>2 DEF SubmitWritten
      <4>6. ~Recorded(l.ev) /\ Payload(l) \in Sent /\ Acceptable(l)
        <5>1. l.ev = a.ev /\ l.version = a.version /\ l.ts = a.ts
          BY DEF ReceiptFor
        <5> HIDE DEF l
        <5>2. ~Recorded(l.ev)
          BY <3>2, <5>1 DEF SubmitWritten
        <5>3. Acceptable(l)
          BY <3>2, <5>1 DEF SubmitWritten, Acceptable, InWindow
        <5> QED BY <2>1, <5>1, <5>2, <5>3 DEF Payload
      <4> HIDE DEF d, time, l
      <4>7. LinePunch(d, time)
        BY <2>0, <4>4, <4>5, <4>6 DEF LinePunch
      <4> QED BY <4>2, <4>5, <4>7
    <3> QED BY <2>1, <3>1, <3>2 DEF Submit
  <2> HIDE DEF Punch, Quiet
  <2>2. ASSUME NEW t \in Tabs, ServePost(t)
        PROVE  Quiet \/ \E d \in Dates, time \in TimesOfDay : Punch(d, time)
    BY <2>1, <2>2, PageFacts DEF ServePost
  <2>3. CASE ServeLate
    <3>1. late \subseteq Attempts /\ \A a \in late : Payload(a) \in Sent
      BY SentMembers DEF Inv, TypeOK, LineTypeOK
    <3> QED BY <2>1, <2>3, <3>1 DEF ServeLate
  <2>4. CASE SetPaused
    BY <2>0, <2>4 DEF SetPaused, attendanceVars, Quiet
  <2>5. ASSUME NEW t \in Tabs,
               UserStep(t) \/ PageStep(t) \/ ServeReceipt(t) \/ ServeState(t) \/ Timeout(t)
        PROVE  Quiet
    BY <2>0, <2>5 DEF UserStep, PageStep, Open, PressNext, PressConfirm, PerformClockIn,
                PerformRecover, RecoverOriginal, GotReceipt, GotResendState, GotState, GotPost,
                ServeReceipt, ServeState, Timeout, attendanceVars, serverVars, Quiet
  <2> QED BY <1>2, <2>2, <2>3, <2>4, <2>5 DEF LineNext, ServerStep
<1>3. CASE KioskNext /\ UNCHANGED lineVars
  <2>1. ledger' = ledger
    BY <1>3 DEF lineVars, serverVars
  <2>2. ASSUME NEW k \in Scans, UpsertScan(k)
        PROVE  \E d \in Dates, time \in TimesOfDay : Punch(d, time)
    <3>1. scan[k].date \in Dates /\ scan[k].time \in TimesOfDay
      BY DEF Inv, TypeOK, KioskTypeOK, ScanStates
    <3> QED BY <2>1, <2>2, <3>1 DEF UpsertScan, ScanPunch
  <2>3. ASSUME NEW k \in Scans,
               ReadPending(k) \/ RefuseTooSoon(k) \/ AcquireAndStamp(k) \/ UpsertStale(k)
                  \/ UpsertFails(k)
        PROVE  Quiet
    BY <2>1, <2>3 DEF ReadPending, RefuseTooSoon, AcquireAndStamp, UpsertStale, UpsertFails,
                attendanceVars
  <2>4. CASE Restart
    BY <2>1, <2>4 DEF Restart, attendanceVars
  <2> HIDE DEF Punch, Quiet
  <2> QED BY <1>3, <2>2, <2>3, <2>4 DEF KioskNext
<1>4. CASE UNCHANGED vars
  BY <1>4 DEF vars, attendanceVars, lineVars, serverVars, kioskVars
<1> HIDE DEF Punch, Quiet
<1> QED BY <1>1, <1>2, <1>3, <1>4 DEF Next

(* LINE and kiosk together never leave two shifts of a day open: the row a  *)
(* punch opens is the only open one of its day.                             *)
THEOREM ShiftsOpenOneAtATime ==
  ASSUME RowsLeftToPunches
  PROVE  Spec => []OneOpenShift
<1>1. Init => OneOpenShift
  BY DEF Init, AttendanceInit, OneOpenShift
<1>2. ASSUME Inv, OneOpenShift, [Next]_vars
      PROVE  OneOpenShift'
  <2>1. CASE UNCHANGED <<rows, xid, ledger, punched>>
    BY <1>2, <2>1 DEF OneOpenShift
  <2>2. ASSUME NEW d \in Dates, NEW time \in TimesOfDay, rows' = AfterPunch(RowsOn(d), d, time)
        PROVE  OneOpenShift'
    <3> DEFINE p == PunchedRow(RowsOn(d), d, time)
    <3>1. rows' = {r \in rows : r.id # p.id} \cup {p}
      BY <2>2 DEF AfterPunch
    <3>2. p.date = d /\ (Incomplete(RowsOn(d)) = {} \/ p.out # NoTime)
      <4>1. time # NoTime
        BY DayTicksAssumption DEF TimesOfDay, NoTime
      <4> QED BY <1>2, <4>1, PunchedRowFacts DEF Inv, TypeOK, ClosedRow
    <3> HIDE DEF p
    <3> QED BY <1>2, <3>1, <3>2 DEF OneOpenShift, Incomplete, RowsOn
  <2> QED BY <1>2, <2>1, <2>2, RowsChangeByPunch
<1> QED BY <1>1, <1>2, Invariance, PTL DEF Spec

(* A recorded LINE punch is never overwritten: its row keeps the receipted  *)
(* time whatever LINE and the kiosk do afterwards.                          *)
THEOREM PunchStays ==
  ASSUME RowsLeftToPunches
  PROVE  Spec => []RecordedPunchStays
<1>1. Init => RecordedPunchStays
  BY DEF Init, LineInit, RecordedPunchStays
<1>2. ASSUME Inv, RecordedPunchStays, [Next]_vars
      PROVE  RecordedPunchStays'
  <2>1. CASE UNCHANGED <<rows, xid, ledger, punched>>
    BY <1>2, <2>1 DEF RecordedPunchStays, DateOf
  <2>2. CASE ~ UNCHANGED <<rows, xid, ledger, punched>>
    <3>1. PICK d \in Dates, time \in TimesOfDay :
            /\ rows' = AfterPunch(RowsOn(d), d, time)
            /\ \/ ledger' = ledger
               \/ \E l \in Receipts :
                     /\ ledger' = ledger \cup {l}
                     /\ DateOf(l.ts) = d /\ l.time = time
                     /\ l.action = PendingAction(RowsOn(d))
                     /\ l.row = PunchedRow(RowsOn(d), d, time).id
      BY <1>2, <2>2, RowsChangeByPunch DEF ScanPunch, LinePunch
    <3> DEFINE p == PunchedRow(RowsOn(d), d, time)
               Holds(l, r) == /\ r.id = l.row /\ r.date = DateOf(l.ts)
                              /\ l.time = IF l.action = "clockIn" THEN r.in ELSE r.out
    <3>2. rows' = {r \in rows : r.id # p.id} \cup {p}
      BY <3>1 DEF AfterPunch
    <3>3. /\ p.date = d
          /\ \/ /\ Incomplete(RowsOn(d)) = {} /\ p.id = xid + 1 /\ p.in = time
             \/ /\ Incomplete(RowsOn(d)) # {}
                /\ \E r \in rows : /\ r.out = NoTime /\ r.date = d /\ r.id = p.id
                                   /\ p.in = r.in /\ p.out = time
      <4>1. AttendanceTypeOK /\ RowsKeyed
        BY <1>2 DEF Inv, TypeOK
      <4>2. \/ /\ Incomplete(RowsOn(d)) = {}
               /\ p = [id |-> xid + 1, date |-> d, in |-> time, out |-> NoTime, rev |-> xid + 1]
            \/ \E r \in rows : r \in Incomplete(RowsOn(d)) /\ p = ClosedRow(r, time)
        BY <4>1, PunchedRowFacts
      <4>3. p.date = d
        BY <4>1, PunchedRowFacts
      <4> HIDE DEF p
      <4> QED BY <4>2, <4>3 DEF Incomplete, RowsOn, ClosedRow
    <3> HIDE DEF p
    <3>4. ASSUME NEW l \in ledger
          PROVE  \E r \in rows' : Holds(l, r)
      <4>1. PICK r \in rows : Holds(l, r)
        BY <1>2 DEF RecordedPunchStays
      <4>2. l.time \in TimesOfDay /\ l.time # NoTime
        BY <1>2, DayTicksAssumption DEF Inv, TypeOK, LineTypeOK, Receipts, TimesOfDay, NoTime
      <4>3. CASE r.id # p.id
        BY <3>2, <4>1, <4>3
      <4>4. CASE r.id = p.id
        <5>1. r.id <= xid /\ r.id \in Nat /\ xid \in Nat
          BY <1>2 DEF Inv, TypeOK, AttendanceTypeOK, RowsKeyed, Row
        <5>2. PICK s \in rows : /\ s.out = NoTime /\ s.date = d /\ s.id = p.id
                                /\ p.in = s.in
          BY <3>3, <4>4, <5>1
        <5>3. s = r
          BY <1>2, <4>4, <5>2 DEF Inv, RowsKeyed
        <5>4. l.action = "clockIn"
          BY <4>1, <4>2, <5>2, <5>3
        <5> QED BY <3>2, <3>3, <4>1, <4>4, <5>2, <5>3, <5>4
      <4> QED BY <4>3, <4>4
    <3>5. ASSUME NEW l \in Receipts, DateOf(l.ts) = d, l.time = time,
                 l.action = PendingAction(RowsOn(d)), l.row = p.id
          PROVE  Holds(l, p)
      BY <3>3, <3>5 DEF PendingAction
    <3>6. \A l \in ledger' : \E r \in rows' : Holds(l, r)
      <4>1. \A l \in ledger' : l \in ledger \/ Holds(l, p)
        BY <3>1, <3>5 DEF p
      <4> HIDE DEF Holds
      <4> QED BY <3>2, <3>4, <4>1
    <3> QED BY <3>6 DEF RecordedPunchStays, DateOf
  <2> QED BY <2>1, <2>2
<1> QED BY <1>1, <1>2, Invariance, PTL DEF Spec

(* No punch is counted twice and none is lost or overwritten: every punch   *)
(* fills one more clock_in or clock_out cell, for any number of scans,      *)
(* tabs, retries and late copies.                                           *)
THEOREM EveryPunchCounted ==
  ASSUME RowsLeftToPunches
  PROVE  Spec => []PunchesAccounted
<1> DEFINE Closed == {r \in rows : r.out # NoTime}
           Counted == IsFiniteSet(rows) /\ IsFiniteSet(ledger) /\ PunchesAccounted
<1>1. Init => Counted
  <2>1. Init => rows = {} /\ ledger = {} /\ punched = 0 /\ Closed = {}
    BY DEF Init, AttendanceInit, LineInit, KioskInit
  <2> HIDE DEF Closed
  <2>2. Init => IsFiniteSet(rows) /\ IsFiniteSet(ledger) /\ Cardinality(rows) = 0
                /\ Cardinality(Closed) = 0 /\ Cardinality(ledger) = 0 /\ punched = 0
    BY <2>1, FS_EmptySet
  <2> QED BY <2>2 DEF PunchesAccounted, Closed
<1>2. ASSUME Inv, Counted, [Next]_vars
      PROVE  Counted'
  <2>1. CASE UNCHANGED <<rows, xid, ledger, punched>>
    BY <1>2, <2>1 DEF PunchesAccounted
  <2>2. CASE ~ UNCHANGED <<rows, xid, ledger, punched>>
    <3>1. PICK d \in Dates, time \in TimesOfDay :
            rows' = AfterPunch(RowsOn(d), d, time) /\ (ScanPunch \/ LinePunch(d, time))
      BY <1>2, <2>2, RowsChangeByPunch
    <3>2. AttendanceTypeOK /\ RowsKeyed /\ punched \in Nat
      BY <1>2 DEF Inv, TypeOK, KioskTypeOK
    <3>3. PICK p : p = PunchedRow(RowsOn(d), d, time)
      OBVIOUS
    <3>4. rows' = {r \in rows : r.id # p.id} \cup {p}
      BY <3>1, <3>3 DEF AfterPunch
    <3>5. \/ p.id = xid + 1 /\ p.out = NoTime
          \/ \E r \in rows : r.out = NoTime /\ p.id = r.id /\ p.out = time
      <4>1. \/ p = [id |-> xid + 1, date |-> d, in |-> time, out |-> NoTime, rev |-> xid + 1]
            \/ \E r \in rows : r \in Incomplete(RowsOn(d)) /\ p = ClosedRow(r, time)
        BY <3>2, <3>3, PunchedRowFacts DEF Incomplete, RowsOn
      <4> QED BY <4>1 DEF ClosedRow, Incomplete
    <3>6. IsFiniteSet(Closed) /\ IsFiniteSet(rows) /\ IsFiniteSet(ledger)
      BY <1>2, FS_Subset
    <3> DEFINE C == {r \in rows' : r.out # NoTime}
    <3>7. /\ IsFiniteSet(rows')
          /\ Cardinality(rows') + Cardinality(C) = Cardinality(rows) + Cardinality(Closed) + 1
      <4>1. CASE p.id = xid + 1 /\ p.out = NoTime
        <5>1. p \notin rows /\ rows' = rows \cup {p}
          BY <3>2, <3>4, <4>1 DEF RowsKeyed, AttendanceTypeOK, Row
        <5>2. C = Closed
          BY <4>1, <5>1
        <5> HIDE DEF C, Closed
        <5>3. IsFiniteSet(rows') /\ Cardinality(rows') = Cardinality(rows) + 1
          BY <3>6, <5>1, FS_AddElement
        <5> QED BY <3>6, <5>2, <5>3, FS_CardinalityType
      <4>2. ASSUME NEW r \in rows, r.out = NoTime, p.id = r.id, p.out = time
            PROVE  /\ IsFiniteSet(rows')
                   /\ Cardinality(rows') + Cardinality(C) = Cardinality(rows) + Cardinality(Closed) + 1
        <5>1. time # NoTime
          BY DayTicksAssumption DEF TimesOfDay, NoTime
        <5>2. rows' = (rows \ {r}) \cup {p} /\ p \notin rows
          BY <3>2, <3>4, <4>2, <5>1 DEF RowsKeyed
        <5>3. C = Closed \cup {p} /\ p \notin Closed
          BY <4>2, <5>1, <5>2
        <5> HIDE DEF C, Closed
        <5>4. IsFiniteSet(rows \ {r}) /\ Cardinality(rows \ {r}) = Cardinality(rows) - 1
          BY <3>6, FS_RemoveElement
        <5>5. IsFiniteSet(rows') /\ Cardinality(rows') = Cardinality(rows \ {r}) + 1
          BY <5>2, <5>4, FS_AddElement
        <5>6. Cardinality(C) = Cardinality(Closed) + 1
          BY <3>6, <5>3, FS_AddElement
        <5> QED BY <3>6, <5>4, <5>5, <5>6, FS_CardinalityType
      <4> QED BY <3>5, <4>1, <4>2
    <3>8. /\ IsFiniteSet(ledger')
          /\ Cardinality(ledger') + punched' = Cardinality(ledger) + punched + 1
      <4>1. CASE ScanPunch
        BY <3>2, <3>6, <4>1, FS_CardinalityType DEF ScanPunch
      <4>2. CASE LinePunch(d, time)
        <5>1. PICK l : ledger' = ledger \cup {l} /\ ~Recorded(l.ev) /\ punched' = punched
          BY <4>2 DEF LinePunch
        <5>2. l \notin ledger
          BY <5>1 DEF Recorded
        <5>3. IsFiniteSet(ledger') /\ Cardinality(ledger') = Cardinality(ledger) + 1
          BY <3>6, <5>1, <5>2, FS_AddElement
        <5> QED BY <3>2, <3>6, <5>1, <5>3, FS_CardinalityType
      <4> QED BY <3>1, <4>1, <4>2
    <3>9. Cardinality(rows) + Cardinality(Closed) = Cardinality(ledger) + punched
      BY <1>2 DEF PunchesAccounted
    <3>10. /\ Cardinality(rows) \in Nat /\ Cardinality(Closed) \in Nat /\ Cardinality(ledger) \in Nat
           /\ Cardinality(rows') + Cardinality(C) = Cardinality(ledger') + punched'
      <4> HIDE DEF C, Closed
      <4> QED BY <3>2, <3>6, <3>7, <3>8, <3>9, FS_CardinalityType
    <3> QED BY <3>7, <3>8, <3>10 DEF PunchesAccounted
  <2> QED BY <2>1, <2>2
<1>3. Counted => PunchesAccounted
  OBVIOUS
<1> HIDE DEF Counted
<1> QED BY <1>1, <1>2, <1>3, Invariance, PTL DEF Spec

-----------------------------------------------------------------------------
(* A refusal is for good, as long as the rows are left to the punches and   *)
(* no page's clock is ahead of the server's.                                *)

(* The page measures the time since the server told it the time.            *)
NoClockAhead == \A skew \in Skews : skew <= 0

(* A state of a day that a later punch on that day has replaced: the punch  *)
(* left a row newer than all of that state's rows.                          *)
Outdated(V) == \E r \in rows : r.date = V.date /\ \A s \in V.rows : s.rev < r.rev

(* A state the page was given is the present one of its day or outdated.    *)
VersionSound(V) ==
    /\ \A s \in V.rows : s.rev <= xid
    /\ V = StateVersion(V.date) \/ Outdated(V)

AttemptSound(a) == a.ts <= now /\ VersionSound(a.version)

(* An attempt that is not recorded and that the server would refuse.        *)
Refused(a) == ~Recorded(a.ev) /\ ~Acceptable(a)

JournalPast(j) == AttemptSound(j) /\ (j.phase = "rejected" => Refused(j))
TabPast(s, r) ==
    /\ AttemptSound(s.att) /\ VersionSound(s.version) /\ s.lag >= 0
    /\ VersionSound(r.version) /\ r.at <= now
    /\ r.k = "rejected" => s.page = "posting" /\ Refused(s.att)

Past == /\ \A d \in Devices : \A j \in {journal[d]} : JournalPast(j)
        /\ \A t \in Tabs : \A s \in {tab[t]}, r \in {reply[t]} : TabPast(s, r)

(* Only the clock tells the time.                                           *)
LEMMA TimePasses ==
  ASSUME Inv, [Next]_vars
  PROVE  now \in Nat /\ now' \in {now, now + 1}
<1>0. now \in Nat
  BY DEF Inv, TypeOK, AttendanceTypeOK
<1>1. CASE AttendanceNext /\ UNCHANGED <<lineVars, kioskVars>>
  BY <1>0, <1>1 DEF AttendanceNext, Tick, AdminCreate, AdminUpdate, AdminDelete, SetAccount
<1>2. CASE LineNext /\ UNCHANGED kioskVars
  BY <1>0, <1>2 DEF LineNext, UserStep, PageStep, ServerStep, Open, PressNext, PressConfirm, PerformClockIn,
              PerformRecover, RecoverOriginal, GotReceipt, GotResendState, GotState, GotPost,
              ServePost, ServeReceipt, ServeState, Timeout, ServeLate, SetPaused, attendanceVars
<1>3. CASE KioskNext /\ UNCHANGED lineVars
  BY <1>0, <1>3 DEF KioskNext, ReadPending, RefuseTooSoon, AcquireAndStamp, UpsertStale, UpsertScan,
              UpsertFails, Restart, attendanceVars
<1>4. CASE UNCHANGED vars
  BY <1>0, <1>4 DEF vars, attendanceVars
<1> QED BY <1>1, <1>2, <1>3, <1>4 DEF Next

(* A day's state that was current or outdated is so after any step, and an  *)
(* outdated one is never current again.                                     *)
LEMMA VersionStays ==
  ASSUME Inv, [Next]_vars, RowsLeftToPunches, NEW V \in Versions, VersionSound(V)
  PROVE  /\ VersionSound(V)' /\ (Outdated(V) => Outdated(V)')
         /\ \/ Outdated(V)'
            \/ \A e : e = V.date => {r \in rows' : r.date = e} = {r \in rows : r.date = e}
<1>1. CASE UNCHANGED <<rows, xid, ledger, punched>>
  BY <1>1 DEF VersionSound, Outdated, StateVersion, RowsOn
<1>2. CASE ~ UNCHANGED <<rows, xid, ledger, punched>>
  <2>1. PICK d \in Dates, time \in TimesOfDay :
          rows' = AfterPunch(RowsOn(d), d, time) /\ xid' = xid + 1
    BY <1>2, RowsChangeByPunch
  <2>2. AttendanceTypeOK /\ RowsKeyed /\ xid \in Nat
    BY DEF Inv, TypeOK, AttendanceTypeOK
  <2>3. PICK p : p = PunchedRow(RowsOn(d), d, time)
    OBVIOUS
  <2>4. rows' = {r \in rows : r.id # p.id} \cup {p} /\ p \in rows'
    BY <2>1, <2>3 DEF AfterPunch
  <2>5. p.date = d /\ p.rev = xid + 1
    BY <2>2, <2>3, PunchedRowFacts
  <2>6. \A r \in rows : r.id = p.id => r.date = d
    <3>1. \/ p = [id |-> xid + 1, date |-> d, in |-> time, out |-> NoTime, rev |-> xid + 1]
          \/ \E r \in rows : r \in Incomplete(RowsOn(d)) /\ p = ClosedRow(r, time)
      BY <2>2, <2>3, PunchedRowFacts DEF Incomplete, RowsOn
    <3>2. CASE p = [id |-> xid + 1, date |-> d, in |-> time, out |-> NoTime, rev |-> xid + 1]
      BY <2>2, <3>2 DEF RowsKeyed, AttendanceTypeOK, Row
    <3>3. ASSUME NEW r \in rows, r \in Incomplete(RowsOn(d)), p = ClosedRow(r, time)
          PROVE  \A s \in rows : s.id = p.id => s.date = d
      BY <2>2, <3>3 DEF ClosedRow, Incomplete, RowsOn, RowsKeyed
    <3> QED BY <3>1, <3>2, <3>3
  <2>7. \A s \in V.rows : s.rev \in Nat /\ s.rev <= xid
    BY DEF VersionSound, Versions, Row
  <2>8. \A s \in V.rows : s.rev <= xid'
    BY <2>1, <2>2, <2>7
  <2>9. CASE V.date = d
    <3>1. Outdated(V)'
      BY <2>2, <2>4, <2>5, <2>7, <2>9 DEF Outdated
    <3> QED BY <2>8, <3>1 DEF VersionSound
  <2>10. CASE V.date # d
    <3>1. {r \in rows' : r.date = V.date} = {r \in rows : r.date = V.date}
      BY <2>4, <2>5, <2>6, <2>10
    <3>2. Outdated(V) => Outdated(V)'
      BY <3>1 DEF Outdated
    <3>3. V = StateVersion(V.date) => (V = StateVersion(V.date))'
      BY <3>1 DEF StateVersion, RowsOn
    <3> QED BY <2>8, <3>1, <3>2, <3>3 DEF VersionSound
  <2> QED BY <2>9, <2>10
<1> QED BY <1>1, <1>2

(* What is sound of an attempt stays so, and what would be refused will be. *)
LEMMA AttemptStays ==
  ASSUME Inv, [Next]_vars, RowsLeftToPunches, NEW a \in Attempts, AttemptSound(a)
  PROVE  AttemptSound(a)' /\ (~Acceptable(a) => ~Acceptable(a)')
<1>1. a.ts \in Int /\ a.version \in Versions /\ now \in Nat /\ now <= now'
  BY TimePasses DEF Attempts
<1>2. AttemptSound(a)'
  BY <1>1, TimePasses, VersionStays DEF AttemptSound
<1>3. ASSUME Acceptable(a)' PROVE Acceptable(a)
  <2> DEFINE e == DateOf(a.ts)
             V == a.version
  <2>1. /\ 0 <= now' - a.ts /\ now' - a.ts <= Window
        /\ V = [date |-> e, rows |-> {r \in rows' : r.date = e}]
        /\ Incomplete({r \in rows' : r.date = e}) # {} =>
             LatestIncomplete({r \in rows' : r.date = e}).in <= TimeOf(a.ts)
    BY <1>3 DEF Acceptable, InWindow, InTimeOrder, StateVersion, RowsOn, DateOf, TimeOf,
                Incomplete, LatestIncomplete
  <2>2. V.date = e /\ V.rows = {r \in rows' : r.date = e}
    BY <2>1
  <2>3. ~Outdated(V)'
    <3>1. SUFFICES ASSUME NEW r \in rows', r.date = V.date, \A s \in V.rows : s.rev < r.rev PROVE FALSE
      BY DEF Outdated
    <3>2. r \in V.rows /\ r.rev \in Int
      BY <2>2, <3>1, <1>1 DEF Versions, Row
    <3> QED BY <3>1, <3>2
  <2>4. VersionSound(V) /\ ~Outdated(V) /\ {r \in rows' : r.date = e} = {r \in rows : r.date = e}
    BY <1>1, <2>2, <2>3, VersionStays DEF AttemptSound
  <2>5. V = StateVersion(e)
    BY <2>2, <2>4 DEF VersionSound
  <2>6. InWindow(a, now)
    BY <1>1, <2>1, TimePasses, WindowAssumption DEF InWindow, AttemptSound
  <2>7. InTimeOrder(RowsOn(e), TimeOf(a.ts))
    BY <2>1, <2>4 DEF InTimeOrder, RowsOn
  <2> QED BY <2>5, <2>6, <2>7 DEF Acceptable
<1> QED BY <1>2, <1>3

(* An attempt refused once is never recorded.                               *)
LEMMA RefusedStays ==
  ASSUME Inv, [Next]_vars, RowsLeftToPunches, NEW a \in Attempts, AttemptSound(a),
         Payload(a) \in Sent, Refused(a)
  PROVE  Refused(a)'
<1>1. ~Acceptable(a)'
  BY AttemptStays DEF Refused
<1>2. ~Recorded(a.ev)'
  <2>1. CASE UNCHANGED <<rows, xid, ledger, punched>> \/ ScanPunch
    BY <2>1 DEF Refused, Recorded, ScanPunch
  <2>2. ASSUME NEW d \in Dates, NEW time \in TimesOfDay, LinePunch(d, time) PROVE ~Recorded(a.ev)'
    <3>1. PICK l \in Receipts : ledger' = ledger \cup {l} /\ Payload(l) \in Sent /\ Acceptable(l)
      BY <2>2 DEF LinePunch
    <3>2. l.ev # a.ev
      <4>1. SUFFICES ASSUME l.ev = a.ev PROVE FALSE
        OBVIOUS
      <4>2. Payload(l) = Payload(a)
        BY <3>1, <4>1 DEF Inv, AgreedPayloads, Payload
      <4>3. l.ts = a.ts /\ l.version = a.version
        BY <4>2 DEF Payload
      <4> QED BY <3>1, <4>3 DEF Refused, Acceptable, InWindow
    <3> QED BY <3>1, <3>2 DEF Refused, Recorded
  <2> QED BY <2>1, <2>2, RowsChangeByPunch
<1> QED BY <1>1, <1>2 DEF Refused

(* What a journal entry or a tab holds stays past under any step.           *)
LEMMA PastStays ==
  ASSUME Inv, [Next]_vars, RowsLeftToPunches
  PROVE  /\ \A j \in Attempts : Payload(j) \in Sent /\ JournalPast(j) => JournalPast(j)'
         /\ \A s \in TabStates, r \in Replies :
               Payload(s.att) \in Sent /\ TabPast(s, r) => TabPast(s, r)'
<1>1. ASSUME NEW j \in Attempts, Payload(j) \in Sent, JournalPast(j) PROVE JournalPast(j)'
  BY <1>1, AttemptStays, RefusedStays DEF JournalPast
<1>2. ASSUME NEW s \in TabStates, NEW r \in Replies, Payload(s.att) \in Sent, TabPast(s, r)
      PROVE  TabPast(s, r)'
  <2>1. s.att \in Attempts /\ s.version \in Versions /\ r.version \in Versions /\ r.at \in Int
    BY DEF TabStates, Replies
  <2>2. AttemptSound(s.att)' /\ VersionSound(s.version)' /\ VersionSound(r.version)'
    BY <1>2, <2>1, AttemptStays, VersionStays DEF TabPast
  <2>3. r.at <= now'
    BY <1>2, <2>1, TimePasses DEF TabPast
  <2>4. Refused(s.att) => Refused(s.att)'
    BY <1>2, <2>1, RefusedStays DEF TabPast
  <2> QED BY <1>2, <2>2, <2>3, <2>4 DEF TabPast
<1> QED BY <1>1, <1>2

(* What must hold now of an entry, a page and an answer that a step writes. *)
GoodEntry(j) ==
    AttemptSound(j) /\ (j.phase = "rejected" => Payload(j) \in Sent /\ Refused(j))
GoodPage(s) == AttemptSound(s.att) /\ VersionSound(s.version) /\ s.lag >= 0
GoodReply(s, r) ==
    /\ VersionSound(r.version) /\ r.at <= now
    /\ r.k = "rejected" => s.page = "posting" /\ Payload(s.att) \in Sent /\ Refused(s.att)

LEMMA GoodBecomesPast ==
  ASSUME Inv, [Next]_vars, RowsLeftToPunches
  PROVE  /\ \A j \in Attempts : GoodEntry(j) => JournalPast(j)'
         /\ \A s \in TabStates, r \in Replies : GoodPage(s) /\ GoodReply(s, r) => TabPast(s, r)'
<1>1. ASSUME NEW j \in Attempts, GoodEntry(j) PROVE JournalPast(j)'
  BY <1>1, AttemptStays, RefusedStays DEF JournalPast, GoodEntry
<1>2. ASSUME NEW s \in TabStates, NEW r \in Replies, GoodPage(s), GoodReply(s, r)
      PROVE  TabPast(s, r)'
  <2>1. s.att \in Attempts /\ s.version \in Versions /\ r.version \in Versions /\ r.at \in Int
    BY DEF TabStates, Replies
  <2>2. AttemptSound(s.att)' /\ VersionSound(s.version)' /\ VersionSound(r.version)'
    BY <1>2, <2>1, AttemptStays, VersionStays DEF GoodPage, GoodReply
  <2>3. r.at <= now'
    BY <1>2, <2>1, TimePasses DEF GoodReply
  <2>4. r.k = "rejected" => Refused(s.att)'
    BY <1>2, <2>1, RefusedStays DEF GoodPage, GoodReply
  <2> QED BY <1>2, <2>2, <2>3, <2>4 DEF TabPast, GoodPage, GoodReply
<1> QED BY <1>1, <1>2

(* What the journals, pages and answers hold is good in that sense.         *)
LEMMA PastIsGood ==
  ASSUME Inv, Past
  PROVE  /\ \A d \in Devices : journal[d] \in Attempts /\ GoodEntry(journal[d])
         /\ \A t \in Tabs : /\ tab[t] \in TabStates /\ reply[t] \in Replies
                             /\ GoodPage(tab[t]) /\ GoodReply(tab[t], reply[t])
BY SentMembers
   DEF Past, JournalPast, TabPast, GoodEntry, GoodPage, GoodReply, Inv, TypeOK, LineTypeOK

(* A step that writes one journal entry, page and answer, all good.         *)
LEMMA StepKeepsPast ==
  ASSUME Inv, Past, [Next]_vars, RowsLeftToPunches,
         NEW t \in Tabs, NEW s \in TabStates, NEW j \in Attempts, NEW r \in Replies,
         tab' = [tab EXCEPT ![t] = s],
         journal' = [journal EXCEPT ![DeviceOf[t]] = j],
         reply' = [reply EXCEPT ![t] = r],
         GoodEntry(j), GoodPage(s), GoodReply(s, r)
  PROVE  Past'
<1>1. journal \in [Devices -> Attempts] /\ tab \in [Tabs -> TabStates] /\ reply \in [Tabs -> Replies]
  BY DEF Inv, TypeOK, LineTypeOK
<1>2. ASSUME NEW d \in Devices, NEW e, e = journal'[d] PROVE JournalPast(e)'
  <2>1. e \in Attempts /\ GoodEntry(e)
    BY <1>1, <1>2, PastIsGood
  <2> QED BY <2>1, GoodBecomesPast
<1>3. ASSUME NEW u \in Tabs, NEW x, NEW y, x = tab'[u], y = reply'[u] PROVE TabPast(x, y)'
  <2>1. x \in TabStates /\ y \in Replies /\ GoodPage(x) /\ GoodReply(x, y)
    BY <1>1, <1>3, PastIsGood
  <2> QED BY <2>1, GoodBecomesPast
<1> QED BY <1>2, <1>3 DEF Past

(* A step that leaves pages and journals alone.                             *)
LEMMA WorldKeepsPast ==
  ASSUME Inv, Past, [Next]_vars, RowsLeftToPunches, UNCHANGED <<journal, tab, reply>>
  PROVE  Past'
<1>1. ASSUME NEW d \in Devices, NEW e, e = journal'[d] PROVE JournalPast(e)'
  <2>1. e \in Attempts /\ GoodEntry(e)
    BY <1>1, PastIsGood
  <2> QED BY <2>1, GoodBecomesPast
<1>2. ASSUME NEW u \in Tabs, NEW x, NEW y, x = tab'[u], y = reply'[u] PROVE TabPast(x, y)'
  <2>1. x \in TabStates /\ y \in Replies /\ GoodPage(x) /\ GoodReply(x, y)
    BY <1>2, PastIsGood
  <2> QED BY <2>1, GoodBecomesPast
<1> QED BY <1>1, <1>2 DEF Past

(* Empty values are good: a page at rest, an attempt and an answer of none. *)
LEMMA BlanksAreGood ==
  ASSUME Inv
  PROVE  /\ VersionSound(NoVersion) /\ AttemptSound(NoAttempt)
         /\ \A k \in ReplyKinds \ {"rejected"} : \A s : GoodReply(s, Answer(k))
<1>1. now \in Nat
  BY DEF Inv, TypeOK, AttendanceTypeOK
<1>2. VersionSound(NoVersion)
  BY DEF VersionSound, NoVersion, StateVersion, Outdated, RowsOn
<1> QED BY <1>1, <1>2 DEF AttemptSound, NoAttempt, GoodReply, Answer

(* Where a handler may leave the page: at rest, or at work on an attempt.   *)
LEMMA HandlerPagesGood ==
  ASSUME Inv
  PROVE  /\ \A page \in Pages, n \in BOOLEAN : GoodPage(Resting(page, n))
         /\ \A a \in Attempts, n \in BOOLEAN : AttemptSound(a) => GoodPage(Succeeded(a, n))
         /\ \A page \in Pages, a \in Attempts : \A via :
               AttemptSound(a) => GoodPage(Working(page, a, via))
BY BlanksAreGood DEF GoodPage, Resting, Succeeded, Working

(* A step that moves one page, and takes its answer or had none.            *)
LEMMA MoveKeepsPast ==
  ASSUME Inv, Past, [Next]_vars, RowsLeftToPunches,
         NEW t \in Tabs, NEW s \in TabStates, GoodPage(s), Become(t, s), UNCHANGED journal,
         TakeReply(t) \/ (UNCHANGED reply /\ reply[t].k = "none")
  PROVE  Past'
<1>1. PICK r \in Replies : reply' = [reply EXCEPT ![t] = r] /\ GoodReply(s, r)
  <2>1. GoodReply(s, Answer("none"))
    BY BlanksAreGood DEF ReplyKinds
  <2>2. reply[t].k = "none" => GoodReply(s, reply[t])
    BY PastIsGood DEF GoodReply
  <2> QED BY <2>1, <2>2, PageFacts DEF TakeReply
<1>2. SavedAttempt(t) \in Attempts /\ GoodEntry(SavedAttempt(t))
      /\ journal' = [journal EXCEPT ![DeviceOf[t]] = SavedAttempt(t)]
  BY PageFacts, PastIsGood DEF SavedAttempt
<1> QED BY <1>1, <1>2, StepKeepsPast DEF Become

(* Coming to rest, and working on an attempt already known, are such steps. *)
LEMMA RestKeepsPast ==
  ASSUME Inv, Past, [Next]_vars, RowsLeftToPunches, NEW t \in Tabs, UNCHANGED journal,
         TakeReply(t) \/ (UNCHANGED reply /\ reply[t].k = "none")
  PROVE  /\ \A page \in Pages, n \in BOOLEAN : Show(t, page, n) => Past'
         /\ \A page \in Pages, a \in {NoAttempt, tab[t].att, SavedAttempt(t)},
               via \in {"prepare", "button", "perform"} :
               Become(t, Working(page, a, via)) => Past'
<1>1. ASSUME NEW page \in Pages, NEW n \in BOOLEAN, Show(t, page, n) PROVE Past'
  <2>1. Resting(page, n) \in TabStates
    BY TabStateTypes DEF Resting
  <2> QED BY <1>1, <2>1, HandlerPagesGood, MoveKeepsPast DEF Show
<1>2. ASSUME NEW page \in Pages, NEW a \in {NoAttempt, tab[t].att, SavedAttempt(t)},
             NEW via \in {"prepare", "button", "perform"}, Become(t, Working(page, a, via))
      PROVE  Past'
  <2>1. a \in Attempts /\ AttemptSound(a)
    BY PageFacts, PastIsGood, BlanksAreGood, TabStateTypes
       DEF SavedAttempt, GoodEntry, GoodPage
  <2>2. Working(page, a, via) \in TabStates
    BY <2>1, TabStateTypes DEF Working
  <2> QED BY <1>2, <2>1, <2>2, HandlerPagesGood, MoveKeepsPast
<1> QED BY <1>1, <1>2

(* What the user does to a page, short of the tap that records an attempt.  *)
LEMMA UserKeepsPast ==
  ASSUME Inv, Past, [Next]_vars, RowsLeftToPunches, NEW t \in Tabs,
         Open(t) \/ PressNext(t) \/ PressConfirm(t) \/ PerformRecover(t)
  PROVE  Past'
<1>1. {"recover", "getState", "error"} \subseteq Pages
  BY DEF Pages, WaitingPages
<1>2. CASE Open(t)
  <2>1. PICK page \in {"recover", "getState", "error"} : Show(t, page, FALSE)
    BY <1>2 DEF Open, Prepare
  <2> QED BY <1>1, <1>2, <2>1, RestKeepsPast DEF Open
<1>3. CASE PressNext(t)
  <2>1. PICK page \in {"recover", "getState", "error"} : Show(t, page, FALSE)
    BY <1>3 DEF PressNext, Prepare
  <2>2. reply[t].k = "none"
    BY <1>3 DEF PressNext, Inv, RepliesTrue, WaitingPages
  <2> QED BY <1>1, <1>3, <2>1, <2>2, RestKeepsPast DEF PressNext
<1>4. CASE PressConfirm(t)
  <2>1. reply[t].k = "none"
    BY <1>4 DEF PressConfirm, Inv, RepliesTrue, WaitingPages
  <2> QED BY <1>1, <1>4, <2>1, RestKeepsPast DEF PressConfirm
<1>5. CASE PerformRecover(t)
  <2>1. reply[t].k = "none"
    BY <1>5 DEF PerformRecover, Inv, RepliesTrue, WaitingPages
  <2> QED BY <1>1, <1>5, <2>1, RestKeepsPast DEF PerformRecover
<1> QED BY <1>2, <1>3, <1>4, <1>5

(* The page's own steps that do not settle an attempt.                      *)
LEMMA ReadingKeepsPast ==
  ASSUME Inv, Past, [Next]_vars, RowsLeftToPunches, NEW t \in Tabs,
         RecoverOriginal(t) \/ GotResendState(t) \/ GotState(t)
  PROVE  Past'
<1>1. {"getReceipt", "posting", "unconfirmed", "error"} \subseteq Pages
  BY DEF Pages, WaitingPages
<1>2. CASE RecoverOriginal(t)
  <2>1. reply[t].k = "none"
    BY <1>2 DEF RecoverOriginal, Inv, RepliesTrue, WaitingPages
  <2>2. \/ Become(t, Working("getReceipt", SavedAttempt(t), tab[t].via))
        \/ \E page \in {"unconfirmed", "error"}, n \in BOOLEAN : Show(t, page, n)
    BY <1>2 DEF RecoverOriginal, Escape
  <2> QED BY <1>1, <1>2, <2>1, <2>2, PageFacts, RestKeepsPast DEF RecoverOriginal
<1>3. CASE GotResendState(t)
  <2>1. \/ Become(t, Working("posting", tab[t].att, tab[t].via))
        \/ \E page \in {"unconfirmed", "error"} : Show(t, page, FALSE)
    BY <1>3 DEF GotResendState, Escape
  <2> QED BY <1>1, <1>3, <2>1, PageFacts, RestKeepsPast DEF GotResendState
<1>4. CASE GotState(t)
  <2>1. CASE Show(t, "error", FALSE)
    BY <1>1, <1>4, <2>1, RestKeepsPast DEF GotState
  <2>2. CASE Become(t, Ready(reply[t].version, now - reply[t].at))
    <3>1. /\ reply[t].version \in Versions /\ reply[t].at \in Int /\ now \in Nat
          /\ VersionSound(reply[t].version) /\ reply[t].at <= now
      BY PageFacts, PastIsGood DEF Replies, Inv, TypeOK, AttendanceTypeOK, GoodReply
    <3> DEFINE lag == now - reply[t].at
    <3>2. lag \in Int /\ lag >= 0
      BY <3>1
    <3> HIDE DEF lag
    <3>3. Ready(reply[t].version, lag) \in TabStates
      BY <3>1, <3>2, TabStateTypes DEF Ready
    <3>4. GoodPage(Ready(reply[t].version, lag))
      BY <3>1, <3>2, BlanksAreGood DEF GoodPage, Ready
    <3> QED BY <1>4, <2>2, <3>3, <3>4, MoveKeepsPast DEF GotState, lag
  <2> QED BY <1>4, <2>1, <2>2 DEF GotState
<1> QED BY <1>2, <1>3, <1>4

(* A new attempt is stamped no later than now, for the state the page got.  *)
LEMMA PerformClockInKeepsPast ==
  ASSUME Inv, Past, [Next]_vars, RowsLeftToPunches, NoClockAhead, NEW t \in Tabs, PerformClockIn(t)
  PROVE  Past'
<1> DEFINE D == DeviceOf[t]
<1>1. PICK skew \in Skews :
        LET a == NewAttempt(t, skew)
        IN  \/ /\ journal' = [journal EXCEPT ![D] = a]
               /\ Become(t, Working("posting", a, "perform"))
            \/ /\ journal' \in {journal, [journal EXCEPT ![D] = a]}
               /\ Show(t, "error", FALSE)
  BY DEF PerformClockIn
<1>2. /\ tab[t].version \in Versions /\ tab[t].lag \in Int /\ lastEvent \in Nat /\ now \in Int
      /\ skew \in Int /\ skew <= 0 /\ tab[t].lag >= 0 /\ VersionSound(tab[t].version)
  BY PageFacts, PastIsGood, SkewsAssumption
     DEF TabStates, Inv, TypeOK, LineTypeOK, AttendanceTypeOK, NoClockAhead, GoodPage
<1>3. PICK a : a = NewAttempt(t, skew)
  OBVIOUS
<1>4. a \in Attempts /\ AttemptSound(a) /\ a.phase = "pending"
  <2>1. a.ts = now - tab[t].lag + skew /\ a.version = tab[t].version /\ a.phase = "pending"
    BY <1>3 DEF NewAttempt
  <2>2. a \in Attempts
    BY <1>2, <1>3 DEF NewAttempt, Attempts
  <2>3. a.ts <= now
    BY <1>2, <2>1
  <2> QED BY <1>2, <2>1, <2>2, <2>3 DEF AttemptSound
<1>5. reply[t].k = "none" /\ reply' = reply
  BY DEF PerformClockIn, Inv, RepliesTrue, WaitingPages
<1>6. PICK s \in TabStates : tab' = [tab EXCEPT ![t] = s] /\ GoodPage(s)
  <2>1. "posting" \in Pages /\ "error" \in Pages
    BY DEF Pages, WaitingPages
  <2>2. Working("posting", a, "perform") \in TabStates /\ GoodPage(Working("posting", a, "perform"))
    BY <1>4, <2>1, TabStateTypes, HandlerPagesGood
  <2>3. Resting("error", FALSE) \in TabStates /\ GoodPage(Resting("error", FALSE))
    BY <2>1, TabStateTypes, HandlerPagesGood
  <2> QED BY <1>1, <1>3, <2>2, <2>3 DEF Become, Show
<1>7. PICK j \in Attempts : journal' = [journal EXCEPT ![D] = j] /\ GoodEntry(j)
  <2>1. GoodEntry(a)
    BY <1>4 DEF GoodEntry
  <2>2. GoodEntry(SavedAttempt(t))
    BY PageFacts, PastIsGood DEF SavedAttempt
  <2> QED BY <1>1, <1>3, <1>4, <2>1, <2>2, PageFacts
<1>8. reply[t] \in Replies /\ reply' = [reply EXCEPT ![t] = reply[t]] /\ GoodReply(s, reply[t])
  BY <1>5, PageFacts, PastIsGood DEF GoodReply
<1> QED BY <1>6, <1>7, <1>8, StepKeepsPast

(* Settling writes a good entry: a refused attempt is what was refused.     *)
LEMMA FinishIsGood ==
  ASSUME Inv, Past, NEW t \in Tabs, NEW phase \in {"confirmed", "rejected"},
         phase = "rejected" => Refused(tab[t].att),
         Finish(t, phase) \/ journal' = journal
  PROVE  \E j \in Attempts : journal' = [journal EXCEPT ![DeviceOf[t]] = j] /\ GoodEntry(j)
<1>1. SavedAttempt(t) \in Attempts /\ GoodEntry(SavedAttempt(t))
  BY PageFacts, PastIsGood DEF SavedAttempt
<1>2. CASE journal' = journal
  BY <1>1, <1>2, PageFacts
<1>3. CASE Finish(t, phase) /\ journal' # journal
  <2>1. PICK j : j = Settled(SavedAttempt(t), phase)
    OBVIOUS
  <2>2. StillCurrent(t) /\ journal' = [journal EXCEPT ![DeviceOf[t]] = j]
    BY <1>3, <2>1 DEF Finish
  <2>3. j \in Attempts /\ Payload(j) \in Sent
    BY <2>1, PageFacts, SettledFacts
  <2>4. /\ j.ev = SavedAttempt(t).ev /\ j.version = SavedAttempt(t).version
        /\ j.ts = SavedAttempt(t).ts /\ j.phase = phase
    BY <2>1 DEF Settled
  <2>5. j.ev = tab[t].att.ev /\ j.version = tab[t].att.version /\ j.ts = tab[t].att.ts
    BY <2>2, <2>4 DEF StillCurrent
  <2>6. AttemptSound(j)
    BY <1>1, <2>4 DEF GoodEntry, AttemptSound
  <2>7. phase = "rejected" => Refused(j)
    BY <2>5 DEF Refused, Acceptable, InWindow
  <2> QED BY <2>2, <2>3, <2>4, <2>6, <2>7 DEF GoodEntry
<1> QED BY <1>2, <1>3

(* The answers that may settle an attempt.                                  *)
LEMMA SettlingKeepsPast ==
  ASSUME Inv, Past, [Next]_vars, RowsLeftToPunches, NEW t \in Tabs, GotReceipt(t) \/ GotPost(t)
  PROVE  Past'
<1>1. {"getResend", "unconfirmed", "error"} \subseteq Pages
  BY DEF Pages, WaitingPages
<1>2. TakeReply(t)
  BY DEF GotReceipt, GotPost
<1>3. CASE UNCHANGED journal /\ \/ Become(t, Working("getResend", tab[t].att, tab[t].via))
                                \/ Show(t, "unconfirmed", FALSE)
  BY <1>1, <1>2, <1>3, PageFacts, RestKeepsPast
<1>4. ASSUME NEW phase \in {"confirmed", "rejected"},
             phase = "rejected" => Refused(tab[t].att),
             Finish(t, phase) \/ journal' = journal,
             \/ \E n \in BOOLEAN : Become(t, Succeeded(tab[t].att, n))
             \/ \E page \in {"unconfirmed", "error"}, n \in BOOLEAN : Show(t, page, n)
      PROVE  Past'
  <2>1. PICK j \in Attempts : journal' = [journal EXCEPT ![DeviceOf[t]] = j] /\ GoodEntry(j)
    BY <1>4, FinishIsGood
  <2>2. AttemptSound(tab[t].att)
    BY PastIsGood DEF GoodPage
  <2>3. PICK s \in TabStates : tab' = [tab EXCEPT ![t] = s] /\ GoodPage(s)
    BY <1>1, <1>4, <2>2, PageFacts, TabStateTypes, HandlerPagesGood DEF Become, Show
  <2>4. Answer("none") \in Replies /\ GoodReply(s, Answer("none"))
    BY PageFacts, BlanksAreGood DEF ReplyKinds
  <2> QED BY <1>2, <2>1, <2>3, <2>4, StepKeepsPast DEF TakeReply
<1>5. CASE reply[t].k = "receipt"
  <2>1. ShowReceipt(t)
    BY <1>5 DEF GotReceipt, GotPost
  <2> QED BY <1>4, <2>1 DEF ShowReceipt
<1>6. CASE reply[t].k # "receipt" /\ GotReceipt(t)
  BY <1>3, <1>6 DEF GotReceipt
<1>7. CASE reply[t].k = "rejected" /\ GotPost(t)
  <2>1. Refused(tab[t].att)
    BY <1>7, PastIsGood DEF GoodReply
  <2>2. (Finish(t, "rejected") \/ journal' = journal)
        /\ \E page \in {"unconfirmed", "error"}, n \in BOOLEAN : Show(t, page, n)
    BY <1>7 DEF GotPost, Escape
  <2> QED BY <1>4, <2>1, <2>2
<1>8. CASE reply[t].k \notin {"receipt", "rejected"} /\ GotPost(t)
  BY <1>3, <1>8 DEF GotPost
<1> QED BY <1>5, <1>6, <1>7, <1>8

(* What the server or the network answers.                                  *)
LEMMA AnsweringKeepsPast ==
  ASSUME Inv, Past, [Next]_vars, RowsLeftToPunches, NEW t \in Tabs,
         ServePost(t) \/ ServeReceipt(t) \/ ServeState(t) \/ Timeout(t)
  PROVE  Past'
<1>1. tab[t] \in TabStates /\ tab' = [tab EXCEPT ![t] = tab[t]] /\ GoodPage(tab[t])
  BY PageFacts, PastIsGood
     DEF ServePost, ServeReceipt, ServeState, Timeout, Inv, TypeOK, LineTypeOK
<1>2. SavedAttempt(t) \in Attempts /\ GoodEntry(SavedAttempt(t))
      /\ journal' = [journal EXCEPT ![DeviceOf[t]] = SavedAttempt(t)]
  BY PageFacts, PastIsGood DEF SavedAttempt, ServePost, ServeReceipt, ServeState, Timeout
<1>3. ASSUME NEW k \in ReplyKinds \ {"rejected"}, reply' = [reply EXCEPT ![t] = Answer(k)]
      PROVE  Past'
  <2>1. Answer(k) \in Replies /\ GoodReply(tab[t], Answer(k))
    BY TabStateTypes, BlanksAreGood
  <2> QED BY <1>1, <1>2, <1>3, <2>1, StepKeepsPast
<1>4. CASE ServePost(t)
  <2>1. PICK kind \in ReplyKinds :
          Submit(tab[t].att, kind) /\ reply' = [reply EXCEPT ![t] = Answer(kind)]
    BY <1>4 DEF ServePost
  <2>2. CASE kind = "rejected"
    <3>1. Refused(tab[t].att)
      BY <2>1, <2>2 DEF Submit, SubmitRefused, SubmitWritten, Refused
    <3>2. Answer(kind) \in Replies
      BY TabStateTypes
    <3>3. GoodReply(tab[t], Answer(kind))
      <4>1. now \in Nat /\ tab[t].page = "posting" /\ Payload(tab[t].att) \in Sent
        BY <1>4, PageFacts DEF ServePost, Waiting, Inv, TypeOK, AttendanceTypeOK
      <4> QED BY <3>1, <4>1, BlanksAreGood DEF GoodReply, Answer
    <3> QED BY <1>1, <1>2, <2>1, <3>2, <3>3, StepKeepsPast
  <2> QED BY <1>3, <2>1, <2>2
<1>5. CASE ServeReceipt(t)
  <2>1. PICK k \in {"failed", "notFound", "receipt"} : reply' = [reply EXCEPT ![t] = Answer(k)]
    <3>1. CASE account = "inactive"
      BY <1>5, <3>1 DEF ServeReceipt
    <3>2. CASE account \in {"unbound", "trashed"}
      BY <1>5, <3>2 DEF ServeReceipt
    <3>3. CASE account \notin {"inactive", "unbound", "trashed"}
      BY <1>5, <3>3 DEF ServeReceipt
    <3> QED BY <3>1, <3>2, <3>3
  <2> QED BY <1>3, <2>1 DEF ReplyKinds
<1>6. CASE ServeState(t)
  <2>1. CASE account # "active"
    BY <1>3, <1>6, <2>1 DEF ServeState, ReplyKinds
  <2>2. CASE account = "active"
    <3> DEFINE V == StateVersion(DateOf(now))
               r == [k |-> "state", version |-> V, at |-> now]
    <3>1. now \in Nat /\ DateOf(now) \in Int /\ rows \subseteq Row /\ xid \in Nat
      BY DateAndTimeType DEF Inv, TypeOK, AttendanceTypeOK, Dates
    <3>2. V \in Versions /\ V.date = DateOf(now) /\ V.rows = RowsOn(DateOf(now))
      BY <3>1 DEF StateVersion, Versions, RowsOn
    <3>3. VersionSound(V)
      BY <3>2 DEF VersionSound, RowsOn, Inv, RowsKeyed
    <3> HIDE DEF V
    <3>4. r \in Replies /\ GoodReply(tab[t], r)
      BY <3>1, <3>2, <3>3 DEF Replies, ReplyKinds, GoodReply
    <3>5. reply' = [reply EXCEPT ![t] = r]
      BY <1>6, <2>2 DEF ServeState, V
    <3> QED BY <1>1, <1>2, <3>4, <3>5, StepKeepsPast
  <2> QED BY <2>1, <2>2
<1>7. CASE Timeout(t)
  BY <1>3, <1>7 DEF Timeout, ReplyKinds
<1> QED BY <1>4, <1>5, <1>6, <1>7

(* Every step of the punch clock keeps what is past.                        *)
LEMMA NextPast ==
  ASSUME Inv, Past, [Next]_vars, RowsLeftToPunches, NoClockAhead
  PROVE  Past'
<1>1. CASE LineNext
  <2>1. CASE ServeLate \/ SetPaused
    BY <2>1, WorldKeepsPast DEF ServeLate, SetPaused, clientVars
  <2>2. ASSUME NEW t \in Tabs, UserStep(t) PROVE Past'
    BY <2>2, UserKeepsPast, PerformClockInKeepsPast DEF UserStep
  <2>3. ASSUME NEW t \in Tabs, PageStep(t) PROVE Past'
    BY <2>3, ReadingKeepsPast, SettlingKeepsPast DEF PageStep
  <2>4. ASSUME NEW t \in Tabs, ServerStep(t) \/ Timeout(t) PROVE Past'
    BY <2>4, AnsweringKeepsPast DEF ServerStep
  <2> QED BY <1>1, <2>1, <2>2, <2>3, <2>4 DEF LineNext
<1>2. CASE ~LineNext
  BY <1>2, WorldKeepsPast DEF Next, vars, lineVars, clientVars
<1> QED BY <1>1, <1>2

(* Nothing is past at first.                                                *)
LEMMA InitPast == Init => Past
<1>1. SUFFICES ASSUME Init PROVE Past
  OBVIOUS
<1>2. Inv
  BY <1>1, InitInv
<1>3. /\ \A d \in Devices : journal[d] = NoAttempt
      /\ \A t \in Tabs : tab[t] = Resting("closed", FALSE) /\ reply[t] = Answer("none")
  BY <1>1 DEF Init, LineInit
<1>4. JournalPast(NoAttempt)
  BY <1>2, BlanksAreGood DEF JournalPast, NoAttempt
<1>5. TabPast(Resting("closed", FALSE), Answer("none"))
  <2>1. GoodPage(Resting("closed", FALSE)) /\ GoodReply(Resting("closed", FALSE), Answer("none"))
    BY <1>2, BlanksAreGood, HandlerPagesGood DEF Pages, ReplyKinds
  <2> QED BY <2>1 DEF TabPast, GoodPage, GoodReply
<1> QED BY <1>3, <1>4, <1>5 DEF Past

(* As long as the rows are left to the punches and no page's clock is ahead *)
(* of the server's, an attempt the page was told is not written is never    *)
(* written: no later copy of the request is acceptable again, because its   *)
(* state is outdated, its window has passed or its time is before the       *)
(* clock-in it would close.                                                 *)
THEOREM RefusedForGood ==
  ASSUME RowsLeftToPunches, NoClockAhead
  PROVE  Spec => []RejectedNeverRecorded
<1>1. Init => Inv /\ Past
  BY InitInv, InitPast
<1>2. Inv /\ Past /\ [Next]_vars => (Inv /\ Past)'
  BY NextInv, NextPast
<1>3. Inv /\ Past => RejectedNeverRecorded
  BY DEF Past, JournalPast, Refused, RejectedNeverRecorded
<1> QED BY <1>1, <1>2, <1>3, PTL DEF Spec

(* Under the same hypotheses an attempt the journal holds as settled is     *)
(* never settled the other way by an answer that comes late.                *)
THEOREM SettledForGood ==
  ASSUME RowsLeftToPunches, NoClockAhead
  PROVE  Spec => SettledOnce
<1>1. ASSUME Inv, Past, [Next]_vars, NEW d \in Devices,
             journal[d].phase \in {"confirmed", "rejected"}, journal'[d].ev = journal[d].ev
      PROVE  journal'[d].phase = journal[d].phase
  <2>1. CASE journal'[d] = journal[d]
    BY <2>1
  <2>2. CASE journal'[d] # journal[d]
    <3>1. journal \in [Devices -> Attempts] /\ lastEvent \in Nat
      BY <1>1 DEF Inv, TypeOK, LineTypeOK
    <3>2. PICK t \in Tabs : PerformClockIn(t) \/ GotReceipt(t) \/ GotPost(t)
      BY <1>1, <2>2, JournalActions
    <3>3. CASE PerformClockIn(t)
      <4>1. PICK skew \in Skews : journal'[d] = NewAttempt(t, skew)
        BY <2>2, <3>1, <3>3 DEF PerformClockIn
      <4>2. journal'[d].ev = lastEvent + 1
        BY <4>1 DEF NewAttempt
      <4>3. journal[d].ev \in Nat /\ journal[d].ev <= lastEvent
        <5>1. Payload(journal[d]) \in Sent /\ Payload(journal[d])[1] = journal[d].ev
          BY SentMembers DEF Payload
        <5> QED BY <1>1, <3>1, <5>1 DEF Inv, AgreedPayloads, Attempts
      <4> QED BY <1>1, <3>1, <4>2, <4>3
    <3>4. ASSUME NEW phase \in {"confirmed", "rejected"}, Finish(t, phase),
                 phase = "confirmed" => Recorded(tab[t].att.ev),
                 phase = "rejected" => ~Recorded(tab[t].att.ev)
          PROVE  journal'[d].phase = journal[d].phase
      <4>1. d = DeviceOf[t] /\ StillCurrent(t) /\ journal'[d] = Settled(journal[d], phase)
        BY <2>2, <3>1, <3>4 DEF Finish, SavedAttempt
      <4>2. journal[d].ev = tab[t].att.ev /\ journal'[d].phase = phase
        BY <4>1 DEF StillCurrent, SavedAttempt, Settled
      <4>3. /\ journal[d].phase = "confirmed" => Recorded(journal[d].ev)
            /\ journal[d].phase = "rejected" => ~Recorded(journal[d].ev)
        BY <1>1 DEF Inv, ConfirmedRecorded, Past, JournalPast, Refused
      <4> QED BY <1>1, <3>4, <4>2, <4>3
    <3>5. CASE reply[t].k = "receipt" /\ (GotReceipt(t) \/ GotPost(t))
      <4>1. Recorded(tab[t].att.ev) /\ ShowReceipt(t)
        BY <1>1, <3>5 DEF GotReceipt, GotPost, Inv, RepliesTrue
      <4>2. Finish(t, "confirmed")
        BY <2>2, <4>1 DEF ShowReceipt
      <4> QED BY <3>4, <4>1, <4>2
    <3>6. CASE reply[t].k # "receipt" /\ (GotReceipt(t) \/ GotPost(t))
      <4>1. Finish(t, "rejected") /\ reply[t].k = "rejected"
        BY <2>2, <3>6 DEF GotReceipt, GotPost
      <4>2. ~Recorded(tab[t].att.ev)
        BY <1>1, <4>1, PastIsGood DEF GoodReply, Refused
      <4> QED BY <3>4, <4>1, <4>2
    <3> QED BY <3>2, <3>3, <3>5, <3>6
  <2> QED BY <2>1, <2>2
<1>2. Init => Inv /\ Past
  BY InitInv, InitPast
<1>3. Inv /\ Past /\ [Next]_vars => (Inv /\ Past)'
  BY NextInv, NextPast
<1>4. Inv /\ Past /\ [Next]_vars =>
        [\A d \in Devices :
           journal[d].phase \in {"confirmed", "rejected"} /\ journal'[d].ev = journal[d].ev
             => journal'[d].phase = journal[d].phase]_vars
  BY <1>1
<1> QED BY <1>2, <1>3, <1>4, PTL DEF Spec, SettledOnce
=============================================================================
