-------------------------- MODULE AdminDesksProofs --------------------------
(***************************************************************************)
(* Proofs about AdminDesks for any number of pages, requests, files, days, *)
(* months and rows: one inductive invariant per desk.                      *)
(***************************************************************************)
EXTENDS AdminDesks, FiniteSetTheorems, SequenceTheorems, WellFoundedInduction, TLAPS

-----------------------------------------------------------------------------
(* The attendance table.                                                   *)

(* A nonempty set of naturals has a least element.                          *)
LEMMA LeastNatural ==
  ASSUME NEW S, S \subseteq Nat, S # {}
  PROVE  \E n \in S : \A m \in S : n <= m
<1> DEFINE Less == OpToRel(<, Nat)
<1>1. IsWellFoundedOn(Less, Nat)
  BY NatLessThanWellFounded
<1>2. \A x, y \in Nat : <<y, x>> \in Less <=> y < x
  BY DEF OpToRel
<1> HIDE DEF Less
<1>3. PICK x \in S : \A y \in S : ~ (<<y, x>> \in Less)
  BY <1>1, WFMin
<1>4. ASSUME NEW y \in S PROVE x <= y
  <2>1. x \in Nat /\ y \in Nat /\ ~ (<<y, x>> \in Less)
    BY <1>3
  <2>2. ~ (y < x)
    BY <1>2, <2>1
  <2> QED BY <2>1, <2>2
<1> QED BY <1>4

(* A tick has a date and a time of day.                                     *)
LEMMA DateAndTimeType ==
  ASSUME NEW t \in Int
  PROVE  DateOf(t) \in Dates /\ TimeOf(t) \in TimesOfDay
BY DayTicksAssumption, SMTT(30) DEF DateOf, TimeOf, TimesOfDay, Dates

(* The administrator's routes and the clock keep the table well formed and  *)
(* keyed.                                                                   *)
LEMMA AttendanceStepKeepsTable ==
  ASSUME AttendanceTypeOK, RowsKeyed, AttendanceNext
  PROVE  AttendanceTypeOK' /\ RowsKeyed'
<1>0. DateOf(MaxTime) \in Int
  BY DateAndTimeType, AttendanceBoundsAssumption DEF Dates
<1>1. CASE Tick
  BY <1>1 DEF Tick, AttendanceTypeOK, RowsKeyed
<1>2. CASE AdminCreate
  <2>1. PICK d \in 0 .. DateOf(MaxTime), i \in TimesOfDay, o \in TimesOfDay \cup {NoTime} :
          rows' = rows \cup {[id |-> xid + 1, date |-> d, in |-> i, out |-> o, rev |-> xid + 1]}
    BY <1>2 DEF AdminCreate, AddedRow
  <2>2. d \in Dates
    BY <1>0 DEF Dates
  <2> QED BY <1>2, <2>1, <2>2 DEF AdminCreate, AttendanceTypeOK, RowsKeyed, Row, Dates
<1>3. CASE AdminUpdate
  <2>1. PICK r \in rows, d \in 0 .. DateOf(MaxTime), i \in TimesOfDay,
             o \in TimesOfDay \cup {NoTime} :
          rows' = (rows \ {r}) \cup
                  {[id |-> r.id, date |-> d, in |-> i, out |-> o, rev |-> xid + 1]}
    BY <1>3 DEF AdminUpdate, RewrittenRow
  <2>2. d \in Dates /\ r \in Row
    BY <1>0 DEF AttendanceTypeOK, Dates
  <2> QED BY <1>3, <2>1, <2>2 DEF AdminUpdate, AttendanceTypeOK, RowsKeyed, Row, Dates
<1>4. CASE AdminDelete
  BY <1>4 DEF AdminDelete, RowsAfterDelete, AttendanceTypeOK, RowsKeyed
<1>5. CASE SetAccount
  BY <1>5 DEF SetAccount, AttendanceTypeOK, RowsKeyed
<1> QED BY <1>1, <1>2, <1>3, <1>4, <1>5 DEF AttendanceNext

-----------------------------------------------------------------------------
(* The settings pages.                                                     *)

Figures == [pay : Nat, scan : BOOLEAN]
Fields == {"pay", "scan"}
SettingsRequest ==
  [at : {"none", "sent", "ok", "error"}, body : Figures, seen : SettingsRow,
   own : SUBSET Fields, rev : Nat]
SettingsPage ==
  [cached : SettingsRow, form : Figures, unsaved : BOOLEAN,
   fetch : [at : {"none", "asked", "answered"}, row : SettingsRow], failed : BOOLEAN,
   save : SettingsRequest, toggle : SettingsRequest, own : SUBSET Fields, wrote : Nat]

\* A field not changed by hand shows what the page's copy of the row has.
OwnOrSeen(own, shown, row) ==
  ("pay" \in own \/ shown.pay = row.pay) /\ ("scan" \in own \/ shown.scan = row.scan)

\* Nothing a page holds is newer than the row or was never typed; an answer under
\* way is as new as the page's own writes, and so is the copy of a page at rest.
RequestSound(q, row, top) ==
  q.body.pay <= top /\ q.rev <= row.rev /\ OwnOrSeen(q.own, q.body, q.seen)
PageSound(pg, row, top) ==
  /\ pg.unsaved => Unsaved(pg)
  /\ pg.cached.rev <= row.rev /\ pg.fetch.row.rev <= row.rev /\ pg.wrote <= row.rev
  /\ pg.form.pay <= top /\ pg.cached.pay <= top /\ pg.fetch.row.pay <= top
  /\ pg.fetch.at = "answered" => pg.fetch.row.rev >= 1 /\ pg.fetch.row.rev >= pg.wrote
  /\ pg.fetch.at = "none" /\ ~pg.failed => pg.cached.rev >= pg.wrote
  /\ OwnOrSeen(pg.own, pg.form, pg.cached)
  /\ RequestSound(pg.save, row, top) /\ RequestSound(pg.toggle, row, top)

SettingsInv ==
  /\ stored \in SettingsRow /\ typed \in Nat /\ stored.pay <= typed /\ stored.rev \in 1 .. MaxStores + 1
  /\ settings \in [SettingsPages -> SettingsPage]
  /\ \A p \in SettingsPages : PageSound(settings[p], stored, typed)

LEMMA SettingsInvWhole ==
  SettingsInv => SettingsTypeOK /\ OwnWriteShown
BY SettingsAssumption
   DEF SettingsInv, SettingsTypeOK, OwnWriteShown, PageSound, RequestSound, SettingsPage,
       SettingsRequest, Fields, Kinds

LEMMA NoRequestSound ==
  ASSUME typed \in Nat, stored.rev \in Nat
  PROVE  NoRequest \in SettingsRequest /\ RequestSound(NoRequest, stored, typed)
<1> Defaults \in SettingsRow /\ Defaults.pay = 0 /\ Form(Defaults) \in Figures
    /\ Form(Defaults).pay = 0 /\ Form(Defaults).scan = Defaults.scan
  BY DEF Defaults, SettingsRow, Form, Figures
<1> QED BY DEF NoRequest, SettingsRequest, RequestSound, OwnOrSeen, Fields

LEMMA FreshPageSound ==
  ASSUME typed \in Nat, stored.rev \in Nat
  PROVE  FreshPage \in SettingsPage /\ PageSound(FreshPage, stored, typed)
<1> Defaults \in SettingsRow /\ Defaults.pay = 0 /\ Defaults.rev = 0 /\ Form(Defaults) \in Figures
    /\ Form(Defaults).pay = 0 /\ Form(Defaults).scan = Defaults.scan
  BY DEF Defaults, SettingsRow, Form, Figures
<1> QED BY NoRequestSound DEF FreshPage, SettingsPage, PageSound, OwnOrSeen, Fields

LEMMA SettingsInvInit == SettingsInit => SettingsInv
BY FreshPageSound, SettingsAssumption
   DEF SettingsInit, SettingsInv, SettingsRow

\* The row only grows newer and figures only get more.
Onward ==
  /\ stored' \in SettingsRow /\ stored'.rev \in 1 .. MaxStores + 1 /\ stored.rev <= stored'.rev
  /\ typed' \in Nat /\ typed <= typed' /\ stored'.pay <= typed'

LEMMA PageTurns ==
  ASSUME SettingsInv, NEW p \in SettingsPages, NEW x \in SettingsPage, Becomes(p, x),
         Onward, PageSound(x, stored', typed')
  PROVE  SettingsInv'
<1>1. ASSUME NEW q \in SettingsPages PROVE PageSound(settings'[q], stored', typed')
  <2>1. CASE q = p
    BY <2>1 DEF SettingsInv, Becomes
  <2>2. CASE q # p
    <3>1. settings'[q] = settings[q] /\ settings[q] \in SettingsPage
          /\ PageSound(settings[q], stored, typed)
      BY <2>2 DEF SettingsInv, Becomes
    <3> QED BY <3>1 DEF Onward, SettingsInv, PageSound, RequestSound, SettingsPage, SettingsRequest,
                        SettingsRow, Figures, Unsaved
  <2> QED BY <2>1, <2>2
<1> QED BY <1>1 DEF SettingsInv, Becomes, Onward

LEMMA NoWrite ==
  ASSUME SettingsInv, UNCHANGED <<stored, typed>>
  PROVE  Onward
BY DEF SettingsInv, Onward, SettingsRow

LEMMA PageFields ==
  ASSUME SettingsInv, NEW p \in SettingsPages
  PROVE  settings[p] \in SettingsPage /\ PageSound(settings[p], stored, typed) /\ settings[p].cached \in SettingsRow
         /\ settings[p].fetch.row \in SettingsRow /\ settings[p].form \in Figures
         /\ settings[p].save \in SettingsRequest /\ settings[p].toggle \in SettingsRequest
BY DEF SettingsInv, SettingsPage

LEMMA ServeSettingsKeeps ==
  ASSUME SettingsInv, NEW p \in SettingsPages, ServeSettings(p)
  PROVE  SettingsInv'
<1> DEFINE x == [settings[p] EXCEPT !.fetch = [at |-> "answered", row |-> stored]]
<1>1. x \in SettingsPage /\ Becomes(p, x)
  BY PageFields DEF ServeSettings, SettingsPage, Becomes, SettingsInv
<1>2. PageSound(x, stored', typed')
  BY PageFields DEF ServeSettings, SettingsPage, PageSound, RequestSound, SettingsInv, Unsaved, SettingsRow
<1> HIDE DEF x
<1> QED BY <1>1, <1>2, PageTurns, NoWrite DEF ServeSettings

LEMMA FetchFailsKeeps ==
  ASSUME SettingsInv, NEW p \in SettingsPages, FetchFails(p)
  PROVE  SettingsInv'
<1> DEFINE x == [settings[p] EXCEPT !.fetch = [at |-> "none", row |-> Defaults], !.failed = TRUE]
<1>0. Defaults \in SettingsRow /\ Defaults.pay = 0 /\ Defaults.rev = 0
  BY DEF Defaults, SettingsRow
<1>1. x \in SettingsPage /\ Becomes(p, x)
  BY <1>0, PageFields DEF FetchFails, SettingsPage, Becomes, SettingsInv
<1>2. PageSound(x, stored', typed')
  BY <1>0, PageFields DEF FetchFails, SettingsPage, PageSound, RequestSound, SettingsInv, Unsaved, SettingsRow
<1> HIDE DEF x
<1> QED BY <1>1, <1>2, PageTurns, NoWrite DEF FetchFails

\* A refilled page shows the answer.
LEMMA FilledSound ==
  ASSUME SettingsInv, NEW p \in SettingsPages, NEW row \in SettingsRow,
         row.rev \in 1 .. stored.rev, row.pay <= typed, row.rev >= settings[p].wrote
  PROVE  LET x == [Filled(settings[p], row) EXCEPT
                     !.fetch = [at |-> "none", row |-> Defaults], !.failed = FALSE]
         IN  x \in SettingsPage /\ PageSound(x, stored, typed)
<1> DEFINE pg == settings[p]
<1>0. Defaults \in SettingsRow /\ Defaults.pay = 0 /\ Defaults.rev = 0
  BY DEF Defaults, SettingsRow
<1> DEFINE x == [Filled(pg, row) EXCEPT !.fetch = [at |-> "none", row |-> Defaults], !.failed = FALSE]
<1>1. CASE pg.cached.rev > 0 /\ Form(pg.cached) = Form(row)
  <2>1. pg.cached.pay = row.pay /\ pg.cached.scan = row.scan
    BY <1>1 DEF Form
  <2>2. x \in SettingsPage
    BY <1>0, <1>1, PageFields DEF Filled, SettingsPage
  <2>3. /\ x.cached = row /\ x.form = pg.form /\ x.unsaved = pg.unsaved /\ x.own = pg.own
        /\ x.fetch = [at |-> "none", row |-> Defaults] /\ x.wrote = pg.wrote
        /\ x.save = pg.save /\ x.toggle = pg.toggle
    BY <1>0, <1>1, PageFields DEF Filled, SettingsPage
  <2> HIDE DEF x
  <2>4. PageSound(x, stored, typed)
    BY <1>0, <1>1, <2>1, <2>3, PageFields DEF PageSound, OwnOrSeen, SettingsInv, Unsaved, SettingsRow
  <2> QED BY <2>2, <2>4 DEF x
<1>2. CASE ~(pg.cached.rev > 0 /\ Form(pg.cached) = Form(row))
  <2>1. Form(row) \in Figures /\ Form(row).pay = row.pay /\ Form(row).scan = row.scan
    BY DEF Form, Figures, SettingsRow
  <2>2. x \in SettingsPage
    BY <1>0, <1>2, <2>1, PageFields DEF Filled, SettingsPage
  <2>3. /\ x.cached = row /\ x.form = Form(row) /\ x.unsaved = FALSE
        /\ x.fetch = [at |-> "none", row |-> Defaults] /\ x.wrote = pg.wrote
        /\ x.save = pg.save /\ x.toggle = pg.toggle
    BY <1>0, <1>2, PageFields DEF Filled, SettingsPage
  <2> HIDE DEF x
  <2>4. PageSound(x, stored, typed)
    BY <1>0, <2>1, <2>3, PageFields DEF PageSound, OwnOrSeen, SettingsInv, SettingsRow
  <2> QED BY <2>2, <2>4 DEF x
<1> QED BY <1>1, <1>2

LEMMA SettingsArriveKeeps ==
  ASSUME SettingsInv, NEW p \in SettingsPages, SettingsArrive(p)
  PROVE  SettingsInv'
<1> DEFINE row == settings[p].fetch.row
           x == [Filled(settings[p], row) EXCEPT
                   !.fetch = [at |-> "none", row |-> Defaults], !.failed = FALSE]
<1>1. row \in SettingsRow /\ row.rev \in 1 .. stored.rev /\ row.pay <= typed
      /\ row.rev >= settings[p].wrote
  BY PageFields DEF SettingsArrive, PageSound, SettingsRow, SettingsInv
<1>2. x \in SettingsPage /\ PageSound(x, stored, typed)
  BY <1>1, FilledSound
<1>3. Becomes(p, x) /\ UNCHANGED <<stored, typed>>
  BY DEF SettingsArrive
<1> HIDE DEF x
<1>4. PageSound(x, stored', typed')
  BY <1>2, <1>3 DEF PageSound, RequestSound
<1> QED BY <1>2, <1>3, <1>4, PageTurns, NoWrite

LEMMA TypeFigureKeeps ==
  ASSUME SettingsInv, NEW p \in SettingsPages, TypeFigure(p)
  PROVE  SettingsInv'
<1> DEFINE y == [settings[p] EXCEPT !.form.pay = typed + 1, !.own = @ \cup {"pay"}]
           x == [y EXCEPT !.unsaved = Unsaved(y)]
<1>0. typed \in Nat /\ typed' = typed + 1 /\ stored' = stored /\ stored \in SettingsRow
  BY DEF TypeFigure, SettingsInv
<1>a. [settings[p].form EXCEPT !.pay = typed + 1] \in Figures
  BY <1>0, PageFields DEF Figures
<1>b. settings[p].own \cup {"pay"} \in SUBSET Fields
  BY PageFields DEF SettingsPage, Fields
<1>1. y \in SettingsPage
  BY <1>a, <1>b, PageFields DEF SettingsPage
<1>c. /\ y.form.pay = typed + 1 /\ y.form.scan = settings[p].form.scan
      /\ y.own = settings[p].own \cup {"pay"} /\ y.cached = settings[p].cached
      /\ y.fetch = settings[p].fetch /\ y.failed = settings[p].failed /\ y.wrote = settings[p].wrote
      /\ y.save = settings[p].save /\ y.toggle = settings[p].toggle
  BY <1>0, PageFields DEF SettingsPage, Figures
<1>2. Becomes(p, x)
  BY DEF TypeFigure
<1> HIDE DEF y
<1>3. x \in SettingsPage
  BY <1>1 DEF SettingsPage, Unsaved
<1>4. /\ x.unsaved = Unsaved(y) /\ x.form = y.form /\ x.own = y.own /\ x.cached = y.cached
      /\ x.fetch = y.fetch /\ x.failed = y.failed /\ x.wrote = y.wrote
      /\ x.save = y.save /\ x.toggle = y.toggle
  BY <1>1 DEF SettingsPage
<1> HIDE DEF x
<1>5. PageSound(x, stored', typed')
  <2>1. x.unsaved => Unsaved(x)
    BY <1>4 DEF Unsaved
  <2>2. OwnOrSeen(x.own, x.form, x.cached)
    BY <1>c, <1>4, PageFields DEF PageSound, OwnOrSeen
  <2>3. RequestSound(x.save, stored', typed') /\ RequestSound(x.toggle, stored', typed')
    BY <1>0, <1>c, <1>4, PageFields DEF PageSound, RequestSound, SettingsRequest, Figures
  <2> QED BY <1>0, <1>c, <1>4, <2>1, <2>2, <2>3, PageFields DEF PageSound, SettingsRow, Figures
<1>6. Onward
  BY <1>0 DEF Onward, SettingsInv, SettingsRow
<1> QED BY <1>2, <1>3, <1>5, <1>6, PageTurns

LEMMA RequestMade ==
  ASSUME SettingsInv, NEW p \in SettingsPages, NEW body \in Figures, NEW own \in SUBSET Fields,
         body.pay <= typed, OwnOrSeen(own, body, settings[p].cached)
  PROVE  LET q == Request(settings[p], body, own)
         IN  q \in SettingsRequest /\ RequestSound(q, stored, typed)
BY PageFields DEF Request, SettingsRequest, RequestSound, SettingsInv, SettingsRow

LEMMA RequestChanges ==
  ASSUME SettingsInv, NEW p \in SettingsPages, Onward, NEW q \in SettingsRequest,
         RequestSound(q, stored', typed'),
         \/ Becomes(p, [settings[p] EXCEPT !.save = q])
         \/ Becomes(p, [settings[p] EXCEPT !.toggle = q])
  PROVE  SettingsInv'
<1>1. PICK x : /\ Becomes(p, x)
               /\ \/ x = [settings[p] EXCEPT !.save = q]
                  \/ x = [settings[p] EXCEPT !.toggle = q]
  OBVIOUS
<1>2. x \in SettingsPage
  BY <1>1, PageFields DEF SettingsPage
<1>3. /\ x.cached = settings[p].cached /\ x.form = settings[p].form /\ x.own = settings[p].own
      /\ x.unsaved = settings[p].unsaved /\ x.fetch = settings[p].fetch
      /\ x.failed = settings[p].failed /\ x.wrote = settings[p].wrote
      /\ x.save \in {settings[p].save, q} /\ x.toggle \in {settings[p].toggle, q}
  BY <1>1, PageFields DEF SettingsPage
<1>4. PageSound(settings[p], stored', typed')
  BY PageFields DEF Onward, SettingsInv, PageSound, RequestSound, SettingsPage, SettingsRequest,
                    SettingsRow, Figures, Unsaved
<1>5. PageSound(x, stored', typed')
  BY <1>3, <1>4 DEF PageSound, Unsaved
<1> QED BY <1>1, <1>2, <1>5, PageTurns

LEMMA SaveSettingsKeeps ==
  ASSUME SettingsInv, NEW p \in SettingsPages, SaveSettings(p)
  PROVE  SettingsInv'
<1> DEFINE q == Request(settings[p], settings[p].form, settings[p].own)
<1>1. q \in SettingsRequest /\ RequestSound(q, stored, typed)
  BY PageFields, RequestMade DEF PageSound, SettingsPage
<1>2. Becomes(p, [settings[p] EXCEPT !.save = q]) /\ UNCHANGED <<stored, typed>>
  BY DEF SaveSettings
<1> HIDE DEF q
<1> QED BY <1>1, <1>2, RequestChanges, NoWrite

LEMMA ToggleBarcodeKeeps ==
  ASSUME SettingsInv, NEW p \in SettingsPages, ToggleBarcode(p)
  PROVE  SettingsInv'
<1> DEFINE body == [settings[p].form EXCEPT !.scan = ~@]
           own == settings[p].own \cup {"scan"}
           q == Request(settings[p], body, own)
<1>1. body \in Figures /\ body.pay = settings[p].form.pay
  BY PageFields DEF Figures
<1>2. own \in SUBSET Fields /\ OwnOrSeen(own, body, settings[p].cached)
  BY <1>1, PageFields DEF PageSound, SettingsPage, OwnOrSeen, Fields
<1>3. Becomes(p, [settings[p] EXCEPT !.toggle = q]) /\ UNCHANGED <<stored, typed>>
  BY DEF ToggleBarcode
<1> HIDE DEF body, own
<1>4. q \in SettingsRequest /\ RequestSound(q, stored, typed)
  BY <1>1, <1>2, PageFields, RequestMade DEF PageSound
<1> HIDE DEF q
<1> QED BY <1>3, <1>4, RequestChanges, NoWrite

LEMMA StoreSettingsKeeps ==
  ASSUME SettingsInv, NEW p \in SettingsPages, NEW kind \in Kinds, StoreSettings(p, kind)
  PROVE  SettingsInv'
<1>0. PICK answer \in {"ok", "error", "sent"} :
        settings' = [settings EXCEPT ![p][kind].at = answer, ![p][kind].rev = stored.rev + 1]
  BY DEF StoreSettings
<1>1. PICK old \in SettingsRequest : /\ old = settings[p][kind] /\ RequestSound(old, stored, typed)
                                     /\ old.body \in Figures
  BY PageFields DEF Kinds, PageSound, SettingsRequest
<1>2. PICK q : q = [old EXCEPT !.at = answer, !.rev = stored.rev + 1]
  OBVIOUS
<1>3. stored' = [pay |-> old.body.pay, scan |-> old.body.scan, rev |-> stored.rev + 1]
      /\ typed' = typed /\ stored.rev <= MaxStores
  BY <1>1 DEF StoreSettings, Written
<1>4. Onward
  BY <1>1, <1>3, SettingsAssumption DEF Onward, SettingsInv, SettingsRow, RequestSound, Figures
<1>5. q \in SettingsRequest
  <2>1. stored.rev + 1 \in Nat
    BY DEF SettingsInv, SettingsRow
  <2> QED BY <1>2, <2>1 DEF SettingsRequest
<1>6. q.body = old.body /\ q.own = old.own /\ q.seen = old.seen /\ q.rev = stored.rev + 1
  BY <1>2 DEF SettingsRequest
<1>7. RequestSound(q, stored', typed')
  BY <1>1, <1>3, <1>6 DEF RequestSound, SettingsInv, SettingsRow
<1>8. \/ Becomes(p, [settings[p] EXCEPT !.save = q])
      \/ Becomes(p, [settings[p] EXCEPT !.toggle = q])
  BY <1>0, <1>1, <1>2 DEF Kinds, Becomes, SettingsInv
<1> QED BY <1>4, <1>5, <1>7, <1>8, RequestChanges

LEMMA RequestFailsKeeps ==
  ASSUME SettingsInv, NEW p \in SettingsPages, NEW kind \in Kinds, RequestFails(p, kind)
  PROVE  SettingsInv'
<1>1. PICK old \in SettingsRequest : old = settings[p][kind] /\ RequestSound(old, stored, typed)
  BY PageFields DEF Kinds, PageSound
<1>2. PICK q : q = [old EXCEPT !.at = "error"]
  OBVIOUS
<1>3. q \in SettingsRequest /\ RequestSound(q, stored, typed)
  BY <1>1, <1>2 DEF SettingsRequest, RequestSound
<1>4. \/ Becomes(p, [settings[p] EXCEPT !.save = q])
      \/ Becomes(p, [settings[p] EXCEPT !.toggle = q])
  BY <1>1, <1>2 DEF RequestFails, Kinds, Becomes, SettingsInv
<1> QED BY <1>3, <1>4, RequestChanges, NoWrite DEF RequestFails

\* What an acknowledged write changes besides the request: the query starts over
\* and the page remembers the write, unless it joins the very first fetch.
LEMMA AcknowledgedSound ==
  ASSUME SettingsInv, NEW p \in SettingsPages, NEW rev \in Nat, rev <= stored.rev
  PROVE  LET x == Acknowledged(settings[p], rev) pg == settings[p] IN
         /\ x \in SettingsPage /\ PageSound(x, stored, typed)
         /\ x.cached = pg.cached /\ x.form = pg.form /\ x.unsaved = pg.unsaved
         /\ x.own = pg.own /\ x.save = pg.save /\ x.toggle = pg.toggle
<1> DEFINE pg == settings[p]
           x == Acknowledged(pg, rev)
<1>0. Defaults \in SettingsRow /\ Defaults.pay = 0 /\ Defaults.rev = 0
      /\ [at |-> "asked", row |-> Defaults] \in [at : {"none", "asked", "answered"}, row : SettingsRow]
  BY DEF Defaults, SettingsRow
<1>1. PICK y : y = Invalidated(pg)
  OBVIOUS
<1>2. y \in SettingsPage
  BY <1>0, <1>1, PageFields DEF Invalidated, SettingsPage
<1>3. /\ y.cached = pg.cached /\ y.form = pg.form /\ y.unsaved = pg.unsaved /\ y.own = pg.own
      /\ y.save = pg.save /\ y.toggle = pg.toggle /\ y.wrote = pg.wrote /\ y.failed = pg.failed
      /\ \/ y.fetch = [at |-> "asked", row |-> Defaults]
         \/ y.fetch = pg.fetch /\ pg.cached.rev = 0 /\ pg.fetch.at # "none"
  BY <1>0, <1>1, PageFields DEF Invalidated, SettingsPage
<1>4. PICK w \in Nat : w = IF pg.cached.rev > 0 /\ rev > y.wrote THEN rev ELSE y.wrote
  BY <1>2 DEF SettingsPage
<1>5. x = [y EXCEPT !.wrote = w]
  BY <1>1, <1>4 DEF Acknowledged
<1>6. x \in SettingsPage
  BY <1>2, <1>4, <1>5 DEF SettingsPage
<1>7. /\ x.cached = y.cached /\ x.form = y.form /\ x.unsaved = y.unsaved /\ x.own = y.own
      /\ x.save = y.save /\ x.toggle = y.toggle /\ x.wrote = w /\ x.failed = y.failed
      /\ x.fetch = y.fetch
  BY <1>2, <1>4, <1>5 DEF SettingsPage
<1> HIDE DEF x
<1>8. PageSound(x, stored, typed)
  BY <1>0, <1>3, <1>4, <1>7, PageFields
     DEF PageSound, Unsaved, SettingsInv, SettingsRow, SettingsPage
<1> QED BY <1>3, <1>6, <1>7, <1>8 DEF x

LEMMA SaveAnsweredKeeps ==
  ASSUME SettingsInv, NEW p \in SettingsPages, SaveAnswered(p)
  PROVE  SettingsInv'
<1>0. NoRequest \in SettingsRequest /\ RequestSound(NoRequest, stored, typed)
  BY NoRequestSound DEF SettingsInv, SettingsRow
<1>1. CASE settings[p].save.at = "error"
  <2>1. Becomes(p, [settings[p] EXCEPT !.save = NoRequest]) /\ UNCHANGED <<stored, typed>>
    BY <1>1 DEF SaveAnswered
  <2> QED BY <1>0, <2>1, RequestChanges, NoWrite
<1>2. CASE settings[p].save.at # "error"
  <2>1. settings[p].save.rev \in Nat /\ settings[p].save.rev <= stored.rev
    BY PageFields DEF PageSound, RequestSound, SettingsRequest
  <2>2. PICK y \in SettingsPage : /\ y = Acknowledged(settings[p], settings[p].save.rev)
                                  /\ PageSound(y, stored, typed)
    BY <2>1, AcknowledgedSound
  <2>3. PICK x : x = [y EXCEPT !.save = NoRequest, !.unsaved = FALSE]
    OBVIOUS
  <2>4. x \in SettingsPage
    BY <1>0, <2>3 DEF SettingsPage
  <2>5. /\ x.cached = y.cached /\ x.form = y.form /\ x.unsaved = FALSE /\ x.own = y.own
        /\ x.save = NoRequest /\ x.toggle = y.toggle /\ x.wrote = y.wrote /\ x.failed = y.failed
        /\ x.fetch = y.fetch
    BY <2>3 DEF SettingsPage
  <2>6. PageSound(x, stored, typed)
    BY <1>0, <2>2, <2>5 DEF PageSound
  <2>7. Becomes(p, x) /\ UNCHANGED <<stored, typed>>
    BY <1>2, <2>2, <2>3 DEF SaveAnswered
  <2> QED BY <2>4, <2>6, <2>7, PageTurns, NoWrite
<1> QED BY <1>1, <1>2

LEMMA ToggleAnsweredKeeps ==
  ASSUME SettingsInv, NEW p \in SettingsPages, ToggleAnswered(p)
  PROVE  SettingsInv'
<1>0. NoRequest \in SettingsRequest /\ RequestSound(NoRequest, stored, typed)
  BY NoRequestSound DEF SettingsInv, SettingsRow
<1>1. CASE settings[p].toggle.at = "error"
  <2>1. Becomes(p, [settings[p] EXCEPT !.toggle = NoRequest]) /\ UNCHANGED <<stored, typed>>
    BY <1>1 DEF ToggleAnswered
  <2> QED BY <1>0, <2>1, RequestChanges, NoWrite
<1>2. CASE settings[p].toggle.at # "error"
  <2>1. settings[p].toggle.rev \in Nat /\ settings[p].toggle.rev <= stored.rev
    BY PageFields DEF PageSound, RequestSound, SettingsRequest
  <2>2. PICK y \in SettingsPage : /\ y = Acknowledged(settings[p], settings[p].toggle.rev)
                                  /\ PageSound(y, stored, typed)
    BY <2>1, AcknowledgedSound
  <2>3. PICK scan \in BOOLEAN : scan = settings[p].toggle.body.scan
    BY PageFields DEF SettingsRequest, Figures
  <2>4. PICK x : x = [y EXCEPT !.toggle = NoRequest, !.form.scan = scan, !.own = @ \cup {"scan"}]
    OBVIOUS
  <2>5. PICK shown \in Figures : shown = [y.form EXCEPT !.scan = scan] /\ shown.pay = y.form.pay
    <3>1. y.form \in Figures
      BY <2>2 DEF SettingsPage
    <3>2. [y.form EXCEPT !.scan = scan] \in Figures
      BY <3>1 DEF Figures
    <3>3. [y.form EXCEPT !.scan = scan].pay = y.form.pay
      BY <3>1 DEF Figures
    <3> QED BY <3>2, <3>3
  <2>6. y.own \cup {"scan"} \in SUBSET Fields
    BY <2>2 DEF SettingsPage, Fields
  <2>7. x \in SettingsPage
    BY <1>0, <2>4, <2>5, <2>6 DEF SettingsPage
  <2>8. /\ x.cached = y.cached /\ x.form = shown /\ x.unsaved = y.unsaved
        /\ x.own = y.own \cup {"scan"} /\ x.save = y.save /\ x.toggle = NoRequest
        /\ x.wrote = y.wrote /\ x.failed = y.failed /\ x.fetch = y.fetch
    BY <2>4, <2>5 DEF SettingsPage
  <2>9. PageSound(x, stored, typed)
    BY <1>0, <2>2, <2>5, <2>8 DEF PageSound, Unsaved, OwnOrSeen
  <2>10. Becomes(p, x) /\ UNCHANGED <<stored, typed>>
    BY <1>2, <2>2, <2>3, <2>4 DEF ToggleAnswered
  <2> QED BY <2>7, <2>9, <2>10, PageTurns, NoWrite
<1> QED BY <1>1, <1>2

LEMMA SettingsInvStep == SettingsInv /\ [SettingsNext]_settingsVars => SettingsInv'
<1> SUFFICES ASSUME SettingsInv, [SettingsNext]_settingsVars PROVE SettingsInv'
  OBVIOUS
<1>1. CASE UNCHANGED settingsVars
  BY <1>1 DEF settingsVars, SettingsInv, PageSound, RequestSound, Unsaved
<1>2. ASSUME NEW p \in SettingsPages, ReopenSettings(p) PROVE SettingsInv'
  <2>1. FreshPage \in SettingsPage /\ PageSound(FreshPage, stored, typed)
    BY FreshPageSound DEF SettingsInv, SettingsRow
  <2> QED BY <1>2, <2>1, PageTurns, NoWrite DEF ReopenSettings
<1> QED
  BY <1>1, <1>2, ServeSettingsKeeps, SettingsArriveKeeps, FetchFailsKeeps, TypeFigureKeeps,
     SaveSettingsKeeps, ToggleBarcodeKeeps, SaveAnsweredKeeps, ToggleAnsweredKeeps,
     StoreSettingsKeeps, RequestFailsKeeps DEF SettingsNext

LEMMA NothingSeenUndone ==
  ASSUME SettingsInv, NEW p \in SettingsPages, NEW kind \in Kinds, NEW f \in {"pay", "scan"},
         settings[p][kind].body[f] # stored[f]
  PROVE  f \in settings[p][kind].own \/ settings[p][kind].seen[f] # stored[f]
BY PageFields DEF PageSound, RequestSound, OwnOrSeen, Kinds

-----------------------------------------------------------------------------
(* The panel that runs a month.                                            *)

\* A request names a month that was confirmed; a panel that waits for one has asked
\* for that month, and only one panel waits for it; success means the mail went out.
OrderSound(q, settled, posts) ==
  /\ q.at # "none" => q.month \in settled
  /\ q.at = "succeeded" => q.month \in posts
PanelSound(pn, runs, settled, posts) ==
  /\ pn.awaits # NoneAwaited =>
       /\ runs[pn.awaits].at # "none" /\ runs[pn.awaits].month = pn.last
       /\ pn.last \in settled
  /\ pn.says.what = "succeeded" => pn.says.month = pn.last /\ pn.last \in posts

Order == [at : {"none", "sent", "running", "succeeded", "skipped", "failed"}, month : 0 .. MaxMonth]
Panel ==
  [shown : 0 .. MaxMonth, asks : 0 .. MaxMonth, awaits : RunRequests \cup {NoneAwaited},
   last : 0 .. MaxMonth,
   says : [what : {"nothing", "succeeded", "skipped"}, month : 0 .. MaxMonth]]

RunInv ==
  /\ month \in 2 .. MaxMonth /\ hourCome \in BOOLEAN /\ scheduled \in 0 .. MaxMonth
  /\ panel \in [Panels -> Panel] /\ order \in [RunRequests -> Order]
  /\ runStatus \in [Months -> {"none", "running", "succeeded", "failed", "skipped"}]
  /\ mailed \subseteq Months /\ confirmed \subseteq Months /\ forced \subseteq confirmed
  /\ \A r \in RunRequests : OrderSound(order[r], confirmed, mailed)
  /\ \A g \in Panels : PanelSound(panel[g], order, confirmed, mailed)
  /\ \A g, h \in Panels :
       panel[g].awaits = panel[h].awaits /\ panel[g].awaits # NoneAwaited => g = h

LEMMA RunInvWhole == RunInv => RunDeskTypeOK /\ ConfirmedMonth
<1> SUFFICES ASSUME RunInv PROVE RunDeskTypeOK /\ ConfirmedMonth
  OBVIOUS
<1>1. \A g \in Panels : /\ panel[g].shown \in 0 .. MaxMonth /\ panel[g].asks \in 0 .. MaxMonth
                         /\ panel[g].awaits \in RunRequests \cup {NoneAwaited}
  BY DEF RunInv, Panel
<1>2. month \in Months /\ scheduled \in Months \cup {0}
  BY RunDeskAssumption DEF RunInv, Months
<1>3. hourCome \in BOOLEAN /\ mailed \cup forced \cup confirmed \subseteq Months
  BY DEF RunInv
<1>4. \A m \in Months :
         runStatus[m] \in {"none", "running", "succeeded", "failed", "skipped"}
  BY DEF RunInv
<1>5. RunDeskTypeOK
  BY <1>1, <1>2, <1>3, <1>4 DEF RunDeskTypeOK
<1>6. ConfirmedMonth
  BY DEF RunInv, ConfirmedMonth, PanelSound
<1> QED BY <1>5, <1>6

LEMMA NewPanelSound ==
  NewPanel \in Panel /\ NewPanel.awaits = NoneAwaited /\ NewPanel.says.what = "nothing"
  /\ NoOrder \in Order /\ NoOrder.at = "none"
BY RunDeskAssumption DEF NewPanel, NoOrder, Panel, Order, Quiet

LEMMA RunInvInit == RunDeskInit => RunInv
<1> SUFFICES ASSUME RunDeskInit PROVE RunInv
  OBVIOUS
<1>1. /\ panel = [g \in Panels |-> NewPanel] /\ order = [r \in RunRequests |-> NoOrder]
      /\ runStatus = [m \in Months |-> "none"] /\ month = 2 /\ hourCome = FALSE /\ scheduled = 0
      /\ mailed = {} /\ forced = {} /\ confirmed = {}
  BY DEF RunDeskInit
<1>2. month \in 2 .. MaxMonth /\ scheduled \in 0 .. MaxMonth
  BY <1>1, RunDeskAssumption
<1>3. \A r \in RunRequests : OrderSound(order[r], confirmed, mailed)
  BY <1>1, NewPanelSound DEF OrderSound
<1>4. \A g \in Panels : PanelSound(panel[g], order, confirmed, mailed) /\ panel[g].awaits = NoneAwaited
  BY <1>1, NewPanelSound DEF PanelSound
<1> QED BY <1>1, <1>2, <1>3, <1>4, NewPanelSound DEF RunInv

\* One panel and one request change; months are only added to the records.
LEMMA RunStep ==
  ASSUME RunInv,
         month' \in 2 .. MaxMonth, hourCome' \in BOOLEAN, scheduled' \in 0 .. MaxMonth,
         panel' \in [Panels -> Panel], order' \in [RunRequests -> Order],
         runStatus' \in [Months -> {"none", "running", "succeeded", "failed", "skipped"}],
         mailed \subseteq mailed', confirmed \subseteq confirmed',
         mailed' \subseteq Months, confirmed' \subseteq Months, forced' \subseteq confirmed',
         \A r \in RunRequests : OrderSound(order'[r], confirmed', mailed') \/ order'[r] = order[r],
         \A g \in Panels :
           \/ PanelSound(panel'[g], order', confirmed', mailed') /\ (panel'[g].awaits # NoneAwaited =>
                 \/ panel'[g].awaits = panel[g].awaits
                 \/ \A h \in Panels \ {g} : panel'[h].awaits # panel'[g].awaits)
           \/ /\ panel'[g] = panel[g]
              /\ panel[g].awaits # NoneAwaited =>
                    order'[panel[g].awaits].at # "none"
                    /\ order'[panel[g].awaits].month = order[panel[g].awaits].month
  PROVE  RunInv'
<1>1. \A r \in RunRequests : OrderSound(order'[r], confirmed', mailed')
  BY DEF RunInv, OrderSound
<1>2. \A g \in Panels : PanelSound(panel'[g], order', confirmed', mailed')
  BY DEF RunInv, PanelSound
<1>3. ASSUME NEW g \in Panels, NEW h \in Panels,
             panel'[g].awaits = panel'[h].awaits, panel'[g].awaits # NoneAwaited
      PROVE  g = h
  BY <1>3 DEF RunInv
<1> QED BY <1>1, <1>2, <1>3 DEF RunInv

LEMMA PanelFields ==
  ASSUME RunInv
  PROVE  /\ \A g \in Panels : panel[g] \in Panel /\ PanelSound(panel[g], order, confirmed, mailed)
         /\ \A r \in RunRequests : order[r] \in Order /\ OrderSound(order[r], confirmed, mailed)
         /\ \A g \in Panels : panel[g].awaits # NoneAwaited => panel[g].awaits \in RunRequests
BY DEF RunInv, Panel

LEMMA RunInvStep == RunInv /\ [RunDeskNext]_runDeskVars => RunInv'
<1> SUFFICES ASSUME RunInv, [RunDeskNext]_runDeskVars PROVE RunInv'
  OBVIOUS
<1>0. CASE UNCHANGED runDeskVars
  BY <1>0 DEF runDeskVars, RunInv, OrderSound, PanelSound
<1>1. ASSUME NEW g \in Panels, NEW x \in Panel, panel' = [panel EXCEPT ![g] = x],
             x.awaits = NoneAwaited, PanelSound(x, order, confirmed, mailed),
             UNCHANGED <<month, hourCome, order, scheduled, runStatus, mailed, forced, confirmed>>
      PROVE  RunInv'
  <2>1. panel'[g] = x /\ PanelSound(panel'[g], order', confirmed', mailed')
        /\ panel'[g].awaits = NoneAwaited /\ \A h \in Panels \ {g} : panel'[h] = panel[h]
    BY <1>1 DEF RunInv
  <2> QED BY <1>1, <2>1, RunStep, PanelFields DEF RunInv, PanelSound
<1>2. ASSUME NEW g \in Panels, LoadConfig(g) PROVE RunInv'
  <2>1. PICK m \in {0, PreviousMonth} : panel' = [panel EXCEPT ![g] = [NewPanel EXCEPT !.shown = m]]
    BY <1>2 DEF LoadConfig
  <2>2. PICK x : x = [NewPanel EXCEPT !.shown = m]
    OBVIOUS
  <2>3. m \in 0 .. MaxMonth
    BY RunDeskAssumption DEF RunInv, PreviousMonth
  <2>4. x \in Panel /\ x.awaits = NoneAwaited /\ x.says.what # "succeeded"
    BY <2>2, <2>3, NewPanelSound DEF Panel
  <2>5. PanelSound(x, order, confirmed, mailed)
    BY <2>4 DEF PanelSound
  <2> QED BY <1>1, <1>2, <2>1, <2>2, <2>4, <2>5 DEF LoadConfig
<1>3. ASSUME NEW g \in Panels, OpenConfirmation(g) \/ CancelConfirmation(g) PROVE RunInv'
  <2>1. PICK m \in 0 .. MaxMonth : panel' = [panel EXCEPT ![g].asks = m]
    BY <1>3, PanelFields, RunDeskAssumption DEF OpenConfirmation, CancelConfirmation, Panel
  <2>2. PICK x : x = [panel[g] EXCEPT !.asks = m]
    OBVIOUS
  <2>3. x \in Panel /\ x.awaits = panel[g].awaits /\ x.says = panel[g].says /\ x.last = panel[g].last
    BY <2>2, PanelFields DEF Panel
  <2>4. PanelSound(x, order, confirmed, mailed)
    BY <2>3, PanelFields DEF PanelSound
  <2> QED BY <1>1, <1>3, <2>1, <2>2, <2>3, <2>4 DEF OpenConfirmation, CancelConfirmation
<1>4. ASSUME NEW g \in Panels, NEW r \in RunRequests, HandleRun(g, r) \/ RequestRepeated(g, r)
      PROVE  RunInv'
  <2>1. PICK m \in Months, x \in Panel :
          /\ panel' = [panel EXCEPT ![g] = x] /\ x.awaits = r /\ x.last = m
          /\ PanelSound([x EXCEPT !.awaits = NoneAwaited], order, confirmed, mailed)
          /\ order' = [order EXCEPT ![r] = [at |-> "sent", month |-> m]]
          /\ confirmed' = confirmed \cup {m}
    <3>1. CASE HandleRun(g, r)
      <4> DEFINE m == panel[g].asks
                 x == [panel[g] EXCEPT !.awaits = r, !.last = m, !.says = Quiet]
      <4>1. m \in Months /\ m \in 0 .. MaxMonth
        BY <3>1, PanelFields, RunDeskAssumption DEF HandleRun, Panel, Months
      <4>2. x \in Panel /\ x.awaits = r /\ x.last = m /\ x.says = Quiet
        <5>1. Quiet \in [what : {"nothing", "succeeded", "skipped"}, month : 0 .. MaxMonth]
          BY RunDeskAssumption DEF Quiet
        <5>2. panel[g] \in Panel
          BY PanelFields
        <5> QED BY <4>1, <5>1, <5>2 DEF Panel
      <4>3. panel' = [panel EXCEPT ![g] = x]
        BY <3>1 DEF HandleRun
      <4> HIDE DEF x
      <4>4. PanelSound([x EXCEPT !.awaits = NoneAwaited], order, confirmed, mailed)
        BY <4>2 DEF PanelSound, Quiet, Panel
      <4> QED BY <3>1, <4>1, <4>2, <4>3, <4>4 DEF HandleRun
    <3>2. CASE RequestRepeated(g, r)
      <4> DEFINE m == panel[g].last
                 x == [panel[g] EXCEPT !.awaits = r]
      <4>1. m \in confirmed /\ m \in Months
        BY <3>2, PanelFields DEF RequestRepeated, PanelSound, RunInv
      <4>2. x \in Panel /\ x.awaits = r /\ x.last = m /\ x.says = panel[g].says
        BY PanelFields DEF Panel
      <4>3. panel' = [panel EXCEPT ![g] = x]
        BY <3>2 DEF RequestRepeated
      <4> HIDE DEF x
      <4>4. PanelSound([x EXCEPT !.awaits = NoneAwaited], order, confirmed, mailed)
        BY <4>2, PanelFields DEF PanelSound, Panel
      <4> QED BY <3>2, <4>1, <4>2, <4>3, <4>4 DEF RequestRepeated
    <3> QED BY <1>4, <3>1, <3>2
  <2>2. /\ order[r] = NoOrder
        /\ UNCHANGED <<month, hourCome, scheduled, runStatus, mailed, forced>>
    BY <1>4 DEF HandleRun, RequestRepeated
  <2>3. \A h \in Panels : panel[h].awaits # NoneAwaited => panel[h].awaits # r
    BY <2>2, PanelFields, NewPanelSound DEF PanelSound
  <2>4. order' \in [RunRequests -> Order] /\ order'[r] = [at |-> "sent", month |-> m]
        /\ \A q \in RunRequests \ {r} : order'[q] = order[q]
    BY <2>1, RunDeskAssumption DEF RunInv, Order, Months
  <2>5. panel' \in [Panels -> Panel] /\ panel'[g] = x /\ \A h \in Panels \ {g} : panel'[h] = panel[h]
    BY <2>1 DEF RunInv
  <2>6. PanelSound(x, order', confirmed', mailed')
    BY <2>1, <2>2, <2>4 DEF PanelSound, Panel
  <2>7. OrderSound(order'[r], confirmed', mailed')
    BY <2>1, <2>4 DEF OrderSound
  <2>8. ASSUME NEW h \in Panels \ {g}, panel[h].awaits # NoneAwaited
        PROVE  order'[panel[h].awaits] = order[panel[h].awaits] /\ order[panel[h].awaits].at # "none"
    BY <2>3, <2>4, <2>8, PanelFields DEF PanelSound
  <2>9. confirmed' \subseteq Months /\ confirmed \subseteq confirmed' /\ forced' \subseteq confirmed'
    BY <2>1, <2>2 DEF RunInv
  <2>10. \A q \in RunRequests :
            OrderSound(order'[q], confirmed', mailed') \/ order'[q] = order[q]
    BY <2>4, <2>7
  <2>11. r # NoneAwaited => \A h \in Panels \ {g} : panel'[h].awaits # r
    BY <2>3, <2>5
  <2>12. /\ month' \in 2 .. MaxMonth /\ hourCome' \in BOOLEAN /\ scheduled' \in 0 .. MaxMonth
         /\ runStatus' \in [Months -> {"none", "running", "succeeded", "failed", "skipped"}]
         /\ mailed \subseteq mailed' /\ mailed' \subseteq Months
    BY <2>2 DEF RunInv
  <2>13. \A h \in Panels :
           \/ PanelSound(panel'[h], order', confirmed', mailed') /\ (panel'[h].awaits # NoneAwaited =>
                 \/ panel'[h].awaits = panel[h].awaits
                 \/ \A k \in Panels \ {h} : panel'[k].awaits # panel'[h].awaits)
           \/ /\ panel'[h] = panel[h]
              /\ panel[h].awaits # NoneAwaited =>
                    order'[panel[h].awaits].at # "none"
                    /\ order'[panel[h].awaits].month = order[panel[h].awaits].month
    BY <2>1, <2>5, <2>6, <2>8, <2>11
  <2> QED BY <2>4, <2>5, <2>9, <2>10, <2>12, <2>13, RunStep
<1>5. ASSUME NEW g \in Panels, RunAnswered(g) PROVE RunInv'
  <2> DEFINE r == panel[g].awaits
             q == order[r]
  <2>1. r # NoneAwaited /\ r \in RunRequests /\ q \in Order /\ q.month = panel[g].last
        /\ OrderSound(q, confirmed, mailed)
    BY <1>5, PanelFields DEF RunAnswered, PanelSound
  <2>2. PICK x \in Panel : /\ panel' = [panel EXCEPT ![g] = x] /\ x.awaits = NoneAwaited
                           /\ PanelSound(x, order', confirmed, mailed)
    <3>1. CASE q.at \in {"succeeded", "skipped"} /\ panel' =
                 [panel EXCEPT ![g].awaits = NoneAwaited, ![g].asks = 0,
                               ![g].says = [what |-> q.at, month |-> q.month]]
      <4> DEFINE x == [panel[g] EXCEPT !.awaits = NoneAwaited, !.asks = 0,
                                       !.says = [what |-> q.at, month |-> q.month]]
      <4>1. [what |-> q.at, month |-> q.month] \in [what : {"nothing", "succeeded", "skipped"}, month : 0 .. MaxMonth]
        BY <2>1, <3>1 DEF Order
      <4>2. x \in Panel /\ x.awaits = NoneAwaited /\ x.last = panel[g].last
            /\ x.says.what = q.at /\ x.says.month = q.month
        <5>1. panel[g] \in Panel /\ 0 \in 0 .. MaxMonth
          BY PanelFields, RunDeskAssumption
        <5> QED BY <4>1, <5>1 DEF Panel
      <4>3. panel' = [panel EXCEPT ![g] = x]
        BY <3>1
      <4> HIDE DEF x
      <4>4. PanelSound(x, order', confirmed, mailed)
        BY <2>1, <4>2 DEF PanelSound, OrderSound
      <4> QED BY <4>2, <4>3, <4>4
    <3>2. CASE panel' = [panel EXCEPT ![g].awaits = NoneAwaited]
      <4> DEFINE x == [panel[g] EXCEPT !.awaits = NoneAwaited]
      <4>1. x \in Panel /\ x.awaits = NoneAwaited /\ x.last = panel[g].last /\ x.says = panel[g].says
        BY PanelFields DEF Panel
      <4>2. panel' = [panel EXCEPT ![g] = x]
        BY <3>2
      <4> HIDE DEF x
      <4>3. PanelSound(x, order', confirmed, mailed)
        BY <4>1, PanelFields DEF PanelSound
      <4> QED BY <4>1, <4>2, <4>3
    <3> QED BY <1>5, <3>1, <3>2 DEF RunAnswered
  <2>3. order' = [order EXCEPT ![r] = q] \/ order' = [order EXCEPT ![r] = NoOrder]
    BY <1>5 DEF RunAnswered
  <2>4. order' \in [RunRequests -> Order] /\ order'[r] \in {q, NoOrder}
        /\ \A o \in RunRequests \ {r} : order'[o] = order[o]
    BY <2>1, <2>3, NewPanelSound DEF RunInv
  <2>5. panel' \in [Panels -> Panel] /\ panel'[g] = x /\ \A h \in Panels \ {g} : panel'[h] = panel[h]
    BY <2>2 DEF RunInv
  <2>6. OrderSound(order'[r], confirmed, mailed)
    BY <2>1, <2>4, NewPanelSound DEF OrderSound
  <2>7. ASSUME NEW h \in Panels \ {g}, panel[h].awaits # NoneAwaited
        PROVE  order'[panel[h].awaits] = order[panel[h].awaits] /\ order[panel[h].awaits].at # "none"
    <3>1. panel[h].awaits # r
      BY <2>1, <2>7 DEF RunInv
    <3> QED BY <2>4, <2>7, <3>1, PanelFields DEF PanelSound
  <2>8. UNCHANGED <<month, hourCome, scheduled, runStatus, mailed, forced, confirmed>>
    BY <1>5 DEF RunAnswered
  <2> HIDE DEF r, q
  <2> QED BY <2>2, <2>4, <2>5, <2>6, <2>7, <2>8, RunStep DEF RunInv
<1>6. ASSUME NEW r \in RunRequests, NEW q \in Order, order' = [order EXCEPT ![r] = q], panel' = panel,
             OrderSound(q, confirmed, mailed'), q.month = order[r].month \/ ~Awaited(r),
             q.at = "none" => ~Awaited(r),
             runStatus' \in [Months -> {"none", "running", "succeeded", "failed", "skipped"}],
             mailed \subseteq mailed', mailed' \subseteq Months, forced' \subseteq confirmed,
             UNCHANGED <<month, hourCome, scheduled, confirmed>>
      PROVE  RunInv'
  <2>1. order' \in [RunRequests -> Order] /\ order'[r] = q /\ \A o \in RunRequests \ {r} : order'[o] = order[o]
    BY <1>6 DEF RunInv
  <2>2. ASSUME NEW h \in Panels, panel[h].awaits # NoneAwaited
        PROVE  order'[panel[h].awaits].month = order[panel[h].awaits].month
               /\ order'[panel[h].awaits].at # "none"
    BY <1>6, <2>1, <2>2, PanelFields DEF PanelSound, Awaited
  <2> QED BY <1>6, <2>1, <2>2, RunStep DEF RunInv
<1>7. ASSUME NEW r \in RunRequests, ServeRun(r) PROVE RunInv'
  <2> DEFINE m == order[r].month
  <2>1. m \in confirmed /\ m \in Months /\ m \in 0 .. MaxMonth
    BY <1>7, PanelFields DEF ServeRun, OrderSound, RunInv, Order
  <2>2. PICK at \in {"running", "skipped"} : order' = [order EXCEPT ![r] = [at |-> at, month |-> m]]
    BY <1>7 DEF ServeRun, RunTarget
  <2>3. PICK q : q = [at |-> at, month |-> m]
    OBVIOUS
  <2>4. q \in Order /\ q.at = at /\ q.month = m
    BY <2>1, <2>3 DEF Order
  <2>5. OrderSound(q, confirmed, mailed')
    BY <2>1, <2>4 DEF OrderSound
  <2>6. forced' \subseteq confirmed /\ UNCHANGED <<month, hourCome, panel, scheduled, mailed, confirmed>>
        /\ runStatus' \in [Months -> {"none", "running", "succeeded", "failed", "skipped"}]
    BY <1>7, <2>1 DEF ServeRun, RunTarget, RunInv
  <2> HIDE DEF m
  <2> QED BY <1>6, <2>2, <2>3, <2>4, <2>5, <2>6 DEF RunInv, m
<1>8. ASSUME NEW r \in RunRequests, NEW end \in {"succeeded", "skipped", "failed"}, RunEnds(r, end)
      PROVE  RunInv'
  <2>1. PICK q : q = [order[r] EXCEPT !.at = end]
    OBVIOUS
  <2>2. q \in Order /\ q.at = end /\ q.month = order[r].month /\ q.month \in confirmed /\ q.month \in Months
    BY <1>8, <2>1, PanelFields DEF RunEnds, OrderSound, RunInv, Order
  <2>3. /\ runStatus' \in [Months -> {"none", "running", "succeeded", "failed", "skipped"}]
        /\ mailed \subseteq mailed' /\ mailed' \subseteq Months
        /\ end = "succeeded" => q.month \in mailed'
    BY <1>8, <2>2 DEF RunEnds, Ends, RunInv
  <2>4. OrderSound(q, confirmed, mailed')
    BY <2>2, <2>3 DEF OrderSound
  <2> QED BY <1>6, <1>8, <2>1, <2>2, <2>3, <2>4 DEF RunEnds, RunInv
<1>9. ASSUME NEW r \in RunRequests, AnswerDropped(r) PROVE RunInv'
  <2>1. OrderSound(NoOrder, confirmed, mailed)
    BY NewPanelSound DEF OrderSound
  <2> QED BY <1>6, <1>9, <2>1, NewPanelSound DEF AnswerDropped, RunInv
<1>10. ASSUME panel' = panel, order' = order, UNCHANGED <<forced, confirmed>>,
              month' \in 2 .. MaxMonth, hourCome' \in BOOLEAN, scheduled' \in 0 .. MaxMonth,
              runStatus' \in [Months -> {"none", "running", "succeeded", "failed", "skipped"}],
              mailed \subseteq mailed', mailed' \subseteq Months
       PROVE  RunInv'
  BY <1>10, RunStep, PanelFields DEF RunInv, PanelSound
<1>11. ASSUME SchedulerTick \/ TimePasses PROVE RunInv'
  <2>1. PreviousMonth \in Months /\ PreviousMonth \in 0 .. MaxMonth
    BY RunDeskAssumption DEF RunInv, PreviousMonth, Months
  <2>2. month' \in 2 .. MaxMonth /\ hourCome' \in BOOLEAN
    <3>1. month' \in 2 .. MaxMonth
      <4>1. month \in 2 .. MaxMonth /\ MaxMonth \in Nat
        BY RunDeskAssumption DEF RunInv
      <4>2. month' = month \/ (month < MaxMonth /\ month' = month + 1)
        BY <1>11 DEF SchedulerTick, TimePasses
      <4> QED BY <4>1, <4>2
    <3>2. hourCome' \in BOOLEAN
      BY <1>11, Zenon DEF SchedulerTick, TimePasses, RunInv
    <3> QED BY <3>1, <3>2
  <2> QED BY <1>10, <1>11, <2>1, <2>2 DEF SchedulerTick, TimePasses, RunInv
<1>12. ASSUME NEW end \in {"succeeded", "skipped", "failed"}, ScheduledEnds(end) PROVE RunInv'
  <2>1. scheduled \in Months
    BY <1>12, RunDeskAssumption DEF ScheduledEnds, RunInv, Months
  <2>2. runStatus' \in [Months -> {"none", "running", "succeeded", "failed", "skipped"}]
    BY <1>12 DEF ScheduledEnds, Ends, RunInv
  <2>3. mailed \subseteq mailed' /\ mailed' \subseteq Months
    BY <1>12, <2>1 DEF ScheduledEnds, Ends, RunInv
  <2>4. UNCHANGED <<month, hourCome, panel, order, forced, confirmed>> /\ scheduled' = 0
    BY <1>12 DEF ScheduledEnds
  <2>5. month \in 2 .. MaxMonth /\ hourCome \in BOOLEAN /\ 0 \in 0 .. MaxMonth
    BY RunDeskAssumption DEF RunInv
  <2> QED BY <1>10, <2>2, <2>3, <2>4, <2>5
<1>13. ASSUME ServerDies PROVE RunInv'
  <2>1. ASSUME NEW g \in Panels
        PROVE  panel'[g] \in Panel /\ panel'[g].awaits = NoneAwaited
               /\ PanelSound(panel'[g], order', confirmed, mailed)
    <3>1. PICK x : x = [panel[g] EXCEPT !.awaits = NoneAwaited]
      OBVIOUS
    <3>2. x \in Panel /\ x.awaits = NoneAwaited /\ x.last = panel[g].last /\ x.says = panel[g].says
      BY <3>1, PanelFields DEF Panel
    <3>3. PanelSound(x, order', confirmed, mailed)
      BY <3>2, PanelFields DEF PanelSound
    <3> QED BY <1>13, <3>1, <3>2, <3>3 DEF ServerDies
  <2>2. panel' \in [Panels -> Panel]
    BY <1>13, <2>1 DEF ServerDies
  <2>3. order' = [r \in RunRequests |-> NoOrder]
    BY <1>13 DEF ServerDies
  <2>4. order' \in [RunRequests -> Order] /\ \A r \in RunRequests : OrderSound(order'[r], confirmed, mailed)
    BY <2>3, NewPanelSound DEF OrderSound
  <2> QED BY <1>13, <2>1, <2>2, <2>4, RunStep, RunDeskAssumption DEF ServerDies, RunInv
<1> QED
  BY <1>0, <1>2, <1>3, <1>4, <1>5, <1>7, <1>8, <1>9, <1>11, <1>12, <1>13 DEF RunDeskNext

-----------------------------------------------------------------------------
(* The attendance page.                                                    *)

DeskInv == DeskTypeOK /\ RowsKeyed /\ IsFiniteSet(rows) /\ NoRowPaidTwice

NewestFirst(q) == \A i, j \in DOMAIN q : i < j => q[i].id > q[j].id

\* Rows with ids of their own can be listed newest first: take out the oldest row,
\* and put it behind a listing of the others.
LEMMA ListingExists ==
  ASSUME NEW R \in SUBSET Row, IsFiniteSet(R), \A r, s \in R : r.id = s.id => r = s
  PROVE  \E q \in [1 .. Cardinality(R) -> R] : NewestFirst(q)
<1> DEFINE Unlisted(T) == ~ \E q \in [1 .. Cardinality(T) -> T] : NewestFirst(q)
           Bad == {n \in Nat : \E T \in SUBSET R : Cardinality(T) = n /\ Unlisted(T)}
<1>1. \A T \in SUBSET R : IsFiniteSet(T) /\ Cardinality(T) \in Nat
  BY FS_Subset, FS_CardinalityType
<1>2. SUFFICES ASSUME Unlisted(R) PROVE FALSE
  OBVIOUS
<1>3. Bad # {} /\ Bad \subseteq Nat
  BY <1>1, <1>2
<1>4. PICK n \in Bad : \A m \in Bad : n <= m
  BY <1>3, LeastNatural
<1>5. PICK T \in SUBSET R : Cardinality(T) = n /\ Unlisted(T)
  BY <1>4
<1>6. T # {}
  <2>1. SUFFICES ASSUME T = {} PROVE FALSE
    OBVIOUS
  <2>2. Cardinality(T) = 0
    BY <2>1, FS_EmptySet
  <2> DEFINE q == [i \in 1 .. 0 |-> 0]
  <2>3. q \in [1 .. Cardinality(T) -> T] /\ NewestFirst(q)
    BY <2>2 DEF NewestFirst
  <2> QED BY <1>5, <2>3
<1>7. PICK t \in T : \A r \in T : t.id <= r.id
  <2> DEFINE I == {r.id : r \in T}
  <2>1. I \subseteq Nat /\ I # {}
    BY <1>6 DEF Row
  <2>2. PICK least \in I : \A m \in I : least <= m
    BY <2>1, LeastNatural
  <2> QED BY <2>2
<1> DEFINE U == T \ {t}
<1>8. Cardinality(U) = n - 1 /\ n - 1 \in Nat /\ U \in SUBSET R
  BY <1>1, <1>5, <1>7, FS_RemoveElement
<1>9. ~Unlisted(U)
  <2>1. n - 1 \notin Bad
    BY <1>4, <1>8, <1>3
  <2> QED BY <1>8, <2>1
<1>10. PICK q \in [1 .. n - 1 -> U] : NewestFirst(q)
  BY <1>8, <1>9
<1> DEFINE p == [i \in 1 .. n |-> IF i = n THEN t ELSE q[i]]
<1>11. p \in [1 .. n -> T]
  BY <1>8, <1>10
<1>12. ASSUME NEW i \in 1 .. n, NEW j \in 1 .. n, i < j PROVE p[i].id > p[j].id
  <2>1. i \in 1 .. n - 1 /\ p[i] = q[i] /\ q[i] \in U
    BY <1>8, <1>10, <1>12
  <2>2. CASE j = n
    <3>1. t.id <= q[i].id /\ t.id # q[i].id /\ t.id \in Nat /\ q[i].id \in Nat
      BY <1>7, <2>1 DEF Row
    <3> QED BY <2>1, <2>2, <3>1
  <2>3. CASE j # n
    <3>1. j \in 1 .. n - 1 /\ p[j] = q[j]
      BY <1>8, <1>10, <2>3
    <3> QED BY <1>10, <1>12, <2>1, <3>1 DEF NewestFirst
  <2> QED BY <2>2, <2>3
<1>13. NewestFirst(p)
  BY <1>12 DEF NewestFirst
<1> HIDE DEF p
<1> QED BY <1>5, <1>11, <1>13

\* A page of the listing is a run of rows.
LEMMA PageOfRows ==
  ASSUME DeskInv, NEW n \in Nat \ {0}
  PROVE  PageOf(n) \in Seq(Row)
<1> DEFINE c == Cardinality(rows)
           last == IF n * PageLimit < c THEN n * PageLimit ELSE c
           first == (n - 1) * PageLimit + 1
<1>1. Newest \in [1 .. c -> rows]
  BY ListingExists DEF DeskInv, DeskTypeOK, AttendanceTypeOK, RowsKeyed, Newest, NewestFirst
<1>2. c \in Nat
  BY FS_CardinalityType DEF DeskInv
<1>3. last \in Int /\ last <= c /\ first \in Int /\ first >= 1
  <2>1. n * PageLimit \in Nat /\ (n - 1) * PageLimit \in Nat
    BY PageLimitAssumption
  <2> QED BY <1>2, <2>1
<1>4. \A i \in first .. last : Newest[i] \in Row
  <2> HIDE DEF c, first, last
  <2> QED BY <1>1, <1>2, <1>3 DEF DeskInv, DeskTypeOK, AttendanceTypeOK
<1>5. PageOf(n) = SubSeq(Newest, first, last)
  BY DEF PageOf
<1> HIDE DEF c, first, last
<1> QED BY <1>3, <1>4, <1>5, SubSeqProperties

\* A row does not end before it begins, so no row is apart from itself.
LEMMA NotApartFromItself ==
  ASSUME NEW r \in Row, Completed(r) PROVE ~Apart(r, r)
BY DayTicksAssumption DEF Completed, Apart, End, Row, TimesOfDay, NoTime

LEMMA RowsStayFinite ==
  ASSUME IsFiniteSet(rows), AttendanceNext PROVE IsFiniteSet(rows')
<1>1. CASE Tick \/ SetAccount
  BY <1>1 DEF Tick, SetAccount
<1>2. CASE AdminCreate
  <2>1. PICK x : rows' = rows \cup {x}
    BY <1>2 DEF AdminCreate
  <2> QED BY <2>1, FS_AddElement
<1>3. CASE AdminUpdate
  <2>1. PICK r, x : rows' = (rows \ {r}) \cup {x}
    BY <1>3 DEF AdminUpdate
  <2> QED BY <2>1, FS_AddElement, FS_RemoveElement
<1>4. CASE AdminDelete
  BY <1>4, FS_RemoveElement, FS_EmptySet DEF AdminDelete, RowsAfterDelete
<1> QED BY <1>1, <1>2, <1>3, <1>4 DEF AttendanceNext

Fetch == [page : Nat, got : Seq(Row)]
Posted == [at : {"none", "sent", "ok", "error"}, rows : Seq(Row)]

LEMMA EmptyFetch ==
  <<>> \in Seq(Row) /\ NoFetch \in Fetch /\ [NoFetch EXCEPT !.page = 1] \in Fetch
<1>1. <<>> \in Seq(Row)
  OBVIOUS
<1>2. NoFetch \in Fetch
  BY <1>1 DEF NoFetch, Fetch
<1> QED BY <1>1, <1>2 DEF Fetch

LEMMA DeskInvInit == AttendanceInit /\ DeskInit => DeskInv
<1> SUFFICES ASSUME AttendanceInit, DeskInit PROVE DeskInv
  OBVIOUS
<1>1. AttendanceTypeOK /\ RowsKeyed /\ IsFiniteSet(rows)
  BY FS_EmptySet DEF AttendanceInit, AttendanceTypeOK, RowsKeyed, Accounts
<1>2. fetch \in Fetch
  BY EmptyFetch DEF DeskInit
<1> QED BY <1>1, <1>2, EmptyFetch DEF DeskInit, DeskInv, DeskTypeOK, NoRowPaidTwice, Fetch

LEMMA DeskInvStep == DeskInv /\ [DeskNext]_attendanceDeskVars => DeskInv'
<1> SUFFICES ASSUME DeskInv, [DeskNext]_attendanceDeskVars PROVE DeskInv'
  OBVIOUS
<1> USE DEF DeskInv, DeskTypeOK
<1>a. <<>> \in Seq(Row) /\ fetch \in Fetch /\ posted \in Posted
      /\ list \in Seq(Row) /\ preview \in Seq(Row) /\ monthly \in Seq(Row)
  BY EmptyFetch DEF Fetch, Posted
<1>1. CASE UNCHANGED attendanceDeskVars
  BY <1>1 DEF attendanceDeskVars, attendanceVars, deskVars, AttendanceTypeOK, RowsKeyed, NoRowPaidTwice
<1>2. CASE AttendanceWritten
  BY <1>2, AttendanceStepKeepsTable, RowsStayFinite DEF AttendanceWritten, NoRowPaidTwice
<1>3. ASSUME UNCHANGED <<attendanceVars, monthly>>, list' \in Seq(Row), preview' \in Seq(Row),
             posted' \in Posted,
             fetch' \in Fetch
      PROVE  DeskInv'
  BY <1>3 DEF attendanceVars, AttendanceTypeOK, RowsKeyed, NoRowPaidTwice, Fetch, Posted
<1>4. CASE Restart \/ FetchFailed \/ CalculateSalary
  BY <1>3, <1>4, <1>a, EmptyFetch DEF Restart, FetchFailed, CalculateSalary
<1>5. CASE FetchPage
  <2>1. fetch.got \o PageOf(fetch.page) \in Seq(Row)
    <3>1. PageOf(fetch.page) \in Seq(Row)
      BY <1>5, PageOfRows DEF FetchPage
    <3> QED BY <3>1
  <2> DEFINE got == fetch.got \o PageOf(fetch.page)
  <2>2. CASE LastPage(fetch.page)
    <3>1. list' = got /\ fetch' = NoFetch /\ UNCHANGED <<attendanceVars, preview, posted, monthly>>
      BY <1>5, <2>2 DEF FetchPage
    <3> QED BY <1>3, <1>a, <2>1, <3>1, EmptyFetch
  <2>3. CASE ~LastPage(fetch.page)
    <3>0. got \in Seq(Row)
      BY <2>1
    <3> HIDE DEF got
    <3>1. fetch' = [fetch EXCEPT !.page = fetch.page + 1, !.got = got]
          /\ UNCHANGED <<attendanceVars, list, preview, posted, monthly>>
      BY <1>5, <2>3 DEF FetchPage, got
    <3>2. fetch' \in Fetch
      <4>1. fetch.page + 1 \in Nat
        BY <1>a DEF Fetch
      <4>2. [fetch EXCEPT !.page = fetch.page + 1, !.got = got] \in Fetch
        BY <1>a, <3>0, <4>1 DEF Fetch
      <4> QED BY <3>1, <4>2
    <3> QED BY <1>3, <1>a, <3>1, <3>2
  <2> QED BY <2>2, <2>3
<1>6. CASE FinalizeAndSave \/ SettlementLost \/ SettlementAnswered
  <2>1. posted' \in Posted
    <3>1. CASE FinalizeAndSave \/ SettlementAnswered
      <4>1. posted' = [at |-> "sent", rows |-> preview] \/ posted' = [at |-> "none", rows |-> <<>>]
        BY <3>1 DEF FinalizeAndSave, SettlementAnswered
      <4>2. PICK at \in {"sent", "none"}, v \in Seq(Row) : posted' = [at |-> at, rows |-> v]
        BY <1>a, <4>1
      <4> QED BY <4>2 DEF Posted
    <3>2. CASE SettlementLost
      BY <1>a, <3>2 DEF SettlementLost, Posted
    <3> QED BY <1>6, <3>1, <3>2
  <2>2. UNCHANGED <<attendanceVars, monthly, list, fetch>> /\ preview' \in Seq(Row)
    BY <1>6, <1>a DEF FinalizeAndSave, SettlementLost, SettlementAnswered
  <2> QED BY <1>3, <1>a, <2>1, <2>2
<1>7. CASE ServeSettlement
  <2>1. UNCHANGED <<attendanceVars, list, fetch, preview>>
    BY <1>7 DEF ServeSettlement
  <2>2. posted' \in Posted
    BY <1>7, <1>a DEF ServeSettlement, Posted
  <2>3. CASE ShiftsApart(posted.rows) /\ monthly' = posted.rows
    <3>1. ASSUME NEW i \in DOMAIN posted.rows, NEW j \in DOMAIN posted.rows, i < j
          PROVE  posted.rows[i] # posted.rows[j]
      <4>1. posted.rows[i] \in Row /\ posted.rows[j] \in Row
        OBVIOUS
      <4> QED BY <2>3, <3>1, <4>1, NotApartFromItself DEF ShiftsApart
    <3>2. \A i, j \in DOMAIN posted.rows : i \in Int /\ j \in Int /\ (i # j => i < j \/ j < i)
      OBVIOUS
    <3>3. NoRowPaidTwice'
      BY <2>3, <3>1, <3>2 DEF NoRowPaidTwice
    <3> QED BY <1>a, <2>1, <2>2, <2>3, <3>3 DEF Fetch, Posted, attendanceVars, AttendanceTypeOK, RowsKeyed
  <2>4. CASE UNCHANGED monthly
    BY <1>3, <1>a, <2>1, <2>2, <2>4
  <2> QED BY <1>7, <2>3, <2>4 DEF ServeSettlement
<1>8. CASE ReopenMonth
  BY <1>8, <1>a DEF ReopenMonth, Fetch, Posted, attendanceVars, AttendanceTypeOK, RowsKeyed, NoRowPaidTwice
<1> QED BY <1>1, <1>2, <1>4, <1>5, <1>6, <1>7, <1>8 DEF DeskNext

-----------------------------------------------------------------------------
(* The CSV import.                                                         *)

Jobs ==
  [at : {"idle", "ok", "error"}]
  \cup [at : {"store"}, file : AttendanceFiles, left : SUBSET Nat]
  \cup [at : {"check", "create"}, file : SalaryFiles, target : Staff \cup {None}]

\* The imports of f that have stored line j and not yet line i.
Between(jobs, f, j, i) ==
  {r \in ImportRequests : /\ jobs[r].at = "store" /\ jobs[r].file = f
                          /\ j \notin jobs[r].left /\ i \in jobs[r].left}

\* An import stores a head of its file, and an import under way accounts for each
\* row a line has more than a later one.
HeadStored ==
  \A r \in ImportRequests : job[r].at = "store" =>
    /\ job[r].left \subseteq Parsed(job[r].file)
    /\ \A i \in Parsed(job[r].file) \ job[r].left :
         copies[job[r].file][i] > 0 /\ \A j \in job[r].left : i < j
NoGap ==
  \A f \in AttendanceFiles : \A i, j \in Parsed(f) :
    j < i => copies[f][j] >= copies[f][i] + Cardinality(Between(job, f, j, i))

Whole(f) == \A i \in Parsed(f) : copies[f][i] > 0
AwaitedJob ==
  modal.awaits # None =>
    /\ job[modal.awaits].at # "idle"
    /\ modal.file \in AttendanceFiles =>
         /\ job[modal.awaits].at \in {"store", "ok", "error"}
         /\ job[modal.awaits].at = "store" => job[modal.awaits].file = modal.file
         /\ job[modal.awaits].at = "ok" => Whole(modal.file)
CheckedJobs ==
  \A r \in ImportRequests : job[r].at = "create" =>
    ~job[r].file.revised /\ job[r].file.names \in {None, job[r].target}

CopiesTyped ==
  /\ copies = [f \in AttendanceFiles |-> copies[f]]
  /\ \A f \in AttendanceFiles : copies[f] \in [DOMAIN f.lines -> Nat]

ImportInv ==
  /\ modal \in [file : AttendanceFiles \cup SalaryFiles \cup {NoFile},
                target : Staff \cup {None}, awaits : ImportRequests \cup {None}]
  /\ job \in [ImportRequests -> Jobs] /\ CopiesTyped
  /\ told \subseteq AttendanceFiles /\ (\A f \in told : Whole(f)) /\ sent \in 0 .. MaxImports
  /\ HeadStored /\ NoGap /\ AwaitedJob /\ CheckedJobs /\ OneRecordAMonth

LEMMA FileFacts ==
  ASSUME NEW f \in AttendanceFiles
  PROVE  /\ f.kind = "attendance" /\ DOMAIN f.lines \subseteq Nat /\ Parsed(f) \subseteq DOMAIN f.lines
         /\ \A i \in DOMAIN f.lines : \A j \in 1 .. i : j \in DOMAIN f.lines
         /\ \A i \in DOMAIN f.lines : f.lines[i] <=> i \in Parsed(f)
<1>1. PICK n \in 1 .. MaxLines : f.lines \in [1 .. n -> BOOLEAN]
  BY DEF AttendanceFiles
<1>2. f.kind = "attendance" /\ DOMAIN f.lines = 1 .. n /\ n \in Nat
  BY <1>1, ImportAssumption DEF AttendanceFiles
<1> QED BY <1>2 DEF Parsed

LEMMA JobFacts ==
  /\ \A q \in Jobs : q.at \in {"idle", "ok", "error", "store", "check", "create"}
  /\ \A q \in Jobs : q.at = "store" => /\ q.file \in AttendanceFiles /\ q.left \in SUBSET Nat
                                       /\ q \in [at : {"store"}, file : AttendanceFiles, left : SUBSET Nat]
  /\ \A q \in Jobs : q.at \in {"check", "create"} =>
       q \in [at : {"check", "create"}, file : SalaryFiles, target : Staff \cup {None}]
  /\ \A at \in {"idle", "ok", "error"} : [at |-> at] \in Jobs
  /\ IdleJob \in Jobs /\ IdleJob.at = "idle"
BY DEF Jobs, IdleJob

LEMMA BetweenFinite ==
  ASSUME NEW jobs, NEW f, NEW i, NEW j
  PROVE  IsFiniteSet(Between(jobs, f, j, i)) /\ Cardinality(Between(jobs, f, j, i)) \in Nat
<1>1. Between(jobs, f, j, i) \in SUBSET ImportRequests
  BY DEF Between
<1> QED BY <1>1, FS_Subset, FS_CardinalityType, ImportAssumption

LEMMA ImportInvWhole == ImportInv => ImportTypeOK /\ ImportedWhole /\ OneRecordAMonth
<1> SUFFICES ASSUME ImportInv PROVE ImportTypeOK /\ ImportedWhole /\ OneRecordAMonth
  OBVIOUS
<1>1. ImportTypeOK
  BY JobFacts DEF ImportInv, ImportTypeOK, CopiesTyped
<1>2. ASSUME NEW f \in AttendanceFiles, NEW i \in DOMAIN f.lines, f.lines[i],
             NEW j \in 1 .. i, f.lines[j]
      PROVE  copies[f][j] >= copies[f][i]
  <2>1. i \in Parsed(f) /\ j \in Parsed(f) /\ i \in Nat /\ j \in Nat
        /\ copies[f][i] \in Nat /\ copies[f][j] \in Nat
    BY <1>2, FileFacts DEF ImportInv, CopiesTyped
  <2>2. CASE j = i
    BY <2>1, <2>2
  <2>3. CASE j # i
    <3>1. j < i
      BY <2>1, <2>3
    <3>2. copies[f][j] >= copies[f][i] + Cardinality(Between(job, f, j, i))
      BY <2>1, <3>1 DEF ImportInv, NoGap
    <3> QED BY <2>1, <3>2, BetweenFinite
  <2> QED BY <2>2, <2>3
<1>3. ASSUME NEW f \in told, NEW i \in DOMAIN f.lines, f.lines[i] PROVE copies[f][i] > 0
  BY <1>3, FileFacts DEF ImportInv, Whole
<1> QED BY <1>1, <1>2, <1>3 DEF ImportInv, ImportedWhole

LEMMA ImportInvInit == ImportInit => ImportInv
<1> SUFFICES ASSUME ImportInit PROVE ImportInv
  OBVIOUS
<1>1. CopiesTyped /\ \A f \in AttendanceFiles : \A i \in Parsed(f) : copies[f][i] = 0
  BY FileFacts DEF ImportInit, CopiesTyped
<1>2. job \in [ImportRequests -> Jobs] /\ \A r \in ImportRequests : job[r].at = "idle"
  BY JobFacts DEF ImportInit
<1>3. NoGap
  <2>1. \A f, i, j : Between(job, f, j, i) = {}
    BY <1>2 DEF Between
  <2> QED BY <1>1, <2>1, FS_EmptySet DEF NoGap
<1> QED BY <1>1, <1>2, <1>3, ImportAssumption
        DEF ImportInit, ImportInv, Closed, HeadStored, AwaitedJob, CheckedJobs, OneRecordAMonth

\* A step that stores no line: one job begins, checks, ends or is dropped.
LEMMA JobMoves ==
  ASSUME ImportInv, copies' = copies, NEW r \in ImportRequests, NEW q \in Jobs,
         job' = [job EXCEPT ![r] = q],
         q.at = "store" => q.left = Parsed(q.file),
         q.at = "create" => ~q.file.revised /\ q.file.names \in {None, q.target}
  PROVE  /\ job' \in [ImportRequests -> Jobs] /\ job'[r] = q
         /\ \A o \in ImportRequests \ {r} : job'[o] = job[o]
         /\ HeadStored' /\ NoGap' /\ CheckedJobs' /\ CopiesTyped'
<1>1. job' \in [ImportRequests -> Jobs] /\ job'[r] = q
      /\ \A o \in ImportRequests \ {r} : job'[o] = job[o]
  BY DEF ImportInv
<1>2. HeadStored' /\ CheckedJobs' /\ CopiesTyped'
  BY <1>1 DEF ImportInv, HeadStored, CheckedJobs, CopiesTyped, Parsed
<1>3. ASSUME NEW f \in AttendanceFiles, NEW i \in Parsed(f), NEW j \in Parsed(f), j < i
      PROVE  copies'[f][j] >= copies'[f][i] + Cardinality(Between(job', f, j, i))
  <2>1. Between(job', f, j, i) \in SUBSET Between(job, f, j, i)
    BY <1>1, <1>3 DEF Between
  <2>2. Cardinality(Between(job', f, j, i)) <= Cardinality(Between(job, f, j, i))
    BY <2>1, BetweenFinite, FS_Subset
  <2>3. copies[f][j] >= copies[f][i] + Cardinality(Between(job, f, j, i))
    BY <1>3 DEF ImportInv, NoGap
  <2>4. copies[f][i] \in Nat /\ copies[f][j] \in Nat
    BY FileFacts DEF ImportInv, CopiesTyped
  <2> QED BY <2>2, <2>3, <2>4, BetweenFinite
<1>4. NoGap'
  BY <1>3 DEF NoGap, Parsed
<1> QED BY <1>1, <1>2, <1>4

\* The next line of a file is stored: its count may now equal that of the lines
\* before it and exceeds those after it by at least this import.
LEMMA LineStored ==
  ASSUME ImportInv, NEW r \in ImportRequests, job[r].at = "store", job[r].left # {},
         NEW i0, i0 = FirstLine(job[r].left),
         copies' = [copies EXCEPT ![job[r].file][i0] = @ + 1],
         job' = [job EXCEPT ![r].left = @ \ {i0}]
  PROVE  /\ job' \in [ImportRequests -> Jobs] /\ job'[r].at = "store" /\ job'[r].file = job[r].file
         /\ \A o \in ImportRequests \ {r} : job'[o] = job[o]
         /\ \A f \in AttendanceFiles : Whole(f) => Whole(f)'
         /\ HeadStored' /\ NoGap' /\ CheckedJobs' /\ CopiesTyped'
<1>0. /\ job[r] \in Jobs /\ job[r].file \in AttendanceFiles /\ job[r].left \in SUBSET Nat
      /\ job[r] \in [at : {"store"}, file : AttendanceFiles, left : SUBSET Nat]
      /\ job[r].left \subseteq Parsed(job[r].file)
  BY JobFacts DEF ImportInv, HeadStored
<1>1. PICK g \in AttendanceFiles, L \in SUBSET Nat : g = job[r].file /\ L = job[r].left
  BY <1>0
<1>2. i0 \in L /\ \A k \in L : i0 <= k
  <2>1. \E k \in L : \A m \in L : k <= m
    BY <1>1, LeastNatural
  <2> QED BY <1>1, <2>1 DEF FirstLine
<1>3. PICK q : q = [job[r] EXCEPT !.left = L \ {i0}]
  OBVIOUS
<1>4. q \in Jobs /\ q.at = "store" /\ q.file = g /\ q.left = L \ {i0}
  <2>1. q \in [at : {"store"}, file : AttendanceFiles, left : SUBSET Nat]
    BY <1>0, <1>3
  <2>2. q.at = "store" /\ q.file = g /\ q.left = L \ {i0}
    BY <1>0, <1>1, <1>3
  <2> QED BY <2>1, <2>2 DEF Jobs
<1>5. job' \in [ImportRequests -> Jobs] /\ job'[r] = q /\ \A o \in ImportRequests \ {r} : job'[o] = job[o]
  BY <1>1, <1>3, <1>4 DEF ImportInv
<1>6. i0 \in Parsed(g) /\ i0 \in DOMAIN g.lines /\ i0 \in Nat
  BY <1>0, <1>1, <1>2, FileFacts
<1>7. /\ CopiesTyped'
      /\ copies'[g][i0] = copies[g][i0] + 1
      /\ \A i \in DOMAIN g.lines \ {i0} : copies'[g][i] = copies[g][i]
      /\ \A f \in AttendanceFiles \ {g} : copies'[f] = copies[f]
  <2>1. copies' = [copies EXCEPT ![g] = [copies[g] EXCEPT ![i0] = copies[g][i0] + 1]]
    BY <1>1
  <2>2. copies = [f \in AttendanceFiles |-> copies[f]] /\ copies[g] \in [DOMAIN g.lines -> Nat]
    BY DEF ImportInv, CopiesTyped
  <2>3. copies'[g] = [copies[g] EXCEPT ![i0] = copies[g][i0] + 1]
    BY <2>1, <2>2
  <2>4. copies'[g] \in [DOMAIN g.lines -> Nat] /\ copies'[g][i0] = copies[g][i0] + 1
        /\ \A i \in DOMAIN g.lines \ {i0} : copies'[g][i] = copies[g][i]
    BY <1>6, <2>2, <2>3
  <2>5. \A f \in AttendanceFiles \ {g} : copies'[f] = copies[f]
    BY <2>1, <2>2
  <2>6. copies' = [f \in AttendanceFiles |-> copies'[f]]
    BY <2>1, <2>2
  <2> QED BY <2>4, <2>5, <2>6 DEF ImportInv, CopiesTyped
<1>8. \A f \in AttendanceFiles : \A i \in Parsed(f) :
         copies[f][i] \in Nat /\ copies'[f][i] \in Nat /\ copies'[f][i] >= copies[f][i]
  <2> TAKE f \in AttendanceFiles
  <2> TAKE i \in Parsed(f)
  <2>1. i \in DOMAIN f.lines /\ copies[f] \in [DOMAIN f.lines -> Nat]
    BY FileFacts DEF ImportInv, CopiesTyped
  <2>2. copies[f][i] \in Nat
    BY <2>1
  <2>3. copies'[f][i] = copies[f][i] \/ copies'[f][i] = copies[f][i] + 1
    BY <1>7, <2>1
  <2> QED BY <2>2, <2>3
<1>9. HeadStored'
  <2>1. ASSUME NEW o \in ImportRequests, job'[o].at = "store"
        PROVE  /\ job'[o].left \subseteq Parsed(job'[o].file)
               /\ \A i \in Parsed(job'[o].file) \ job'[o].left :
                    copies'[job'[o].file][i] > 0 /\ \A j \in job'[o].left : i < j
    <3>1. CASE o # r
      <4>1. job'[o] = job[o] /\ job[o].file \in AttendanceFiles
        BY <1>5, <2>1, <3>1, JobFacts DEF ImportInv
      <4>2. job[o].left \subseteq Parsed(job[o].file)
            /\ \A i \in Parsed(job[o].file) \ job[o].left :
                 copies[job[o].file][i] > 0 /\ \A j \in job[o].left : i < j
        BY <2>1, <4>1 DEF ImportInv, HeadStored
      <4>3. \A i \in Parsed(job[o].file) \ job[o].left : copies'[job[o].file][i] > 0
        BY <1>8, <4>1, <4>2
      <4> QED BY <4>1, <4>2, <4>3
    <3>2. CASE o = r
      <4>1. \A i \in Parsed(g) \ L : copies[g][i] > 0 /\ \A j \in L : i < j
        BY <1>1 DEF ImportInv, HeadStored
      <4>2. \A i \in Parsed(g) \ (L \ {i0}) : copies'[g][i] > 0
        <5>1. copies'[g][i0] > 0
          BY <1>6, <1>7, <1>8
        <5>2. \A i \in Parsed(g) \ L : copies'[g][i] > 0
          BY <1>8, <4>1
        <5> QED BY <5>1, <5>2
      <4>3. \A i \in Parsed(g) \ (L \ {i0}) : \A j \in L \ {i0} : i < j
        BY <1>1, <1>2, <1>6, <4>1
      <4> QED BY <1>0, <1>1, <1>4, <1>5, <3>2, <4>2, <4>3
    <3> QED BY <3>1, <3>2
  <2> QED BY <2>1 DEF HeadStored, Parsed
<1>10. ASSUME NEW f \in AttendanceFiles, NEW i \in Parsed(f), NEW j \in Parsed(f), j < i
       PROVE  copies'[f][j] >= copies'[f][i] + Cardinality(Between(job', f, j, i))
  <2>1. copies[f][j] >= copies[f][i] + Cardinality(Between(job, f, j, i))
    BY <1>10 DEF ImportInv, NoGap
  <2>2. \A o \in ImportRequests \ {r} : o \in Between(job', f, j, i) <=> o \in Between(job, f, j, i)
    BY <1>5 DEF Between
  <2>3. i \in Nat /\ j \in Nat /\ Cardinality(Between(job, f, j, i)) \in Nat
        /\ Cardinality(Between(job', f, j, i)) \in Nat
    BY FileFacts, BetweenFinite
  <2>4. CASE f = g /\ i = i0
    <3>1. r \in Between(job, f, j, i)
      BY <1>1, <1>2, <1>10, <2>3, <2>4 DEF Between
    <3>2. r \notin Between(job', f, j, i)
      BY <1>4, <1>5, <2>4 DEF Between
    <3>3. Between(job', f, j, i) = Between(job, f, j, i) \ {r}
      BY <2>2, <3>1, <3>2 DEF Between
    <3>4. Cardinality(Between(job', f, j, i)) = Cardinality(Between(job, f, j, i)) - 1
      <4>1. PICK S : S = Between(job, f, j, i)
        OBVIOUS
      <4>2. IsFiniteSet(S) /\ r \in S
        BY <3>1, <4>1, BetweenFinite
      <4>3. Cardinality(S \ {r}) = Cardinality(S) - 1
        BY <4>2, FS_RemoveElement
      <4> QED BY <3>3, <4>1, <4>3
    <3>5. copies'[f][j] = copies[f][j] /\ copies'[f][i] = copies[f][i] + 1
      BY <1>7, <1>10, <2>3, <2>4, FileFacts
    <3> QED BY <1>8, <2>1, <2>3, <3>4, <3>5
  <2>5. CASE f = g /\ j = i0
    <3>1. Between(job', f, j, i) \in SUBSET (Between(job, f, j, i) \cup {r})
      BY <2>2 DEF Between
    <3>2. IsFiniteSet(Between(job, f, j, i) \cup {r})
          /\ Cardinality(Between(job, f, j, i) \cup {r}) <= Cardinality(Between(job, f, j, i)) + 1
      <4>1. PICK S : S = Between(job, f, j, i)
        OBVIOUS
      <4>2. IsFiniteSet(S) /\ Cardinality(S) \in Nat
        BY <4>1, BetweenFinite
      <4>3. IsFiniteSet(S \cup {r})
        BY <4>2, FS_AddElement
      <4>4. Cardinality(S \cup {r}) = Cardinality(S) \/ Cardinality(S \cup {r}) = Cardinality(S) + 1
        BY <4>2, FS_AddElement
      <4>5. Cardinality(S \cup {r}) <= Cardinality(S) + 1
        BY <4>2, <4>4
      <4> QED BY <4>1, <4>3, <4>5
    <3>3. Cardinality(Between(job', f, j, i)) <= Cardinality(Between(job, f, j, i) \cup {r})
      BY <3>1, <3>2, FS_Subset
    <3>4. copies'[f][j] = copies[f][j] + 1 /\ copies'[f][i] = copies[f][i]
      BY <1>7, <1>10, <2>3, <2>5, FileFacts
    <3>5. Cardinality(Between(job, f, j, i) \cup {r}) \in Nat
      BY <3>2, FS_CardinalityType
    <3> QED BY <1>8, <2>1, <2>3, <3>2, <3>3, <3>4, <3>5
  <2>6. CASE f # g \/ (i # i0 /\ j # i0)
    <3>1. r \in Between(job', f, j, i) <=> r \in Between(job, f, j, i)
      BY <1>1, <1>4, <1>5, <2>6 DEF Between
    <3>2. Between(job', f, j, i) = Between(job, f, j, i)
      BY <2>2, <3>1 DEF Between
    <3>3. copies'[f][j] = copies[f][j] /\ copies'[f][i] = copies[f][i]
      BY <1>7, <2>6, FileFacts
    <3> QED BY <2>1, <3>2, <3>3
  <2> QED BY <2>4, <2>5, <2>6
<1>11. NoGap'
  BY <1>10 DEF NoGap, Parsed
<1>12. \A f \in AttendanceFiles : Whole(f) => Whole(f)'
  BY <1>8 DEF Whole, Parsed
<1>13. CheckedJobs'
  BY <1>4, <1>5 DEF ImportInv, CheckedJobs
<1> QED BY <1>1, <1>4, <1>5, <1>7, <1>9, <1>11, <1>12, <1>13

LEMMA OverMoves ==
  ASSUME ImportInv, copies' = copies, modal' = modal, NEW r \in ImportRequests,
         NEW at \in {"ok", "error"}, Over(r, at), job[r].at # "idle",
         at = "ok" /\ modal.file \in AttendanceFiles /\ modal.awaits = r /\ modal.awaits # None
           => Whole(modal.file)
  PROVE  /\ job' \in [ImportRequests -> Jobs] /\ AwaitedJob'
         /\ HeadStored' /\ NoGap' /\ CheckedJobs' /\ CopiesTyped'
<1>1. PICK q : q = IF modal.awaits = r THEN [at |-> at] ELSE IdleJob
  OBVIOUS
<1>2. q \in Jobs /\ q.at \in {"ok", "error", "idle"} /\ (modal.awaits = r => q.at = at)
  BY <1>1, JobFacts
<1>3. job' = [job EXCEPT ![r] = q]
  BY <1>1 DEF Over
<1>4. /\ job' \in [ImportRequests -> Jobs] /\ job'[r] = q
      /\ \A o \in ImportRequests \ {r} : job'[o] = job[o]
      /\ HeadStored' /\ NoGap' /\ CheckedJobs' /\ CopiesTyped'
  BY <1>2, <1>3, JobMoves
<1>5. AwaitedJob'
  BY <1>2, <1>4 DEF ImportInv, AwaitedJob, Whole, Parsed
<1> QED BY <1>4, <1>5

LEMMA ImportInvStep == ImportInv /\ [ImportNext]_importVars => ImportInv'
<1> SUFFICES ASSUME ImportInv, [ImportNext]_importVars PROVE ImportInv'
  OBVIOUS
<1> DEFINE Modal == [file : AttendanceFiles \cup SalaryFiles \cup {NoFile},
                     target : Staff \cup {None}, awaits : ImportRequests \cup {None}]
<1>0. modal \in Modal /\ (modal.awaits # None => modal.awaits \in ImportRequests)
  BY DEF ImportInv
<1>a. ASSUME UNCHANGED <<copies, records, told>>, modal' \in Modal, sent' \in 0 .. MaxImports,
             job' \in [ImportRequests -> Jobs], HeadStored', NoGap', CheckedJobs', CopiesTyped', AwaitedJob'
      PROVE  ImportInv'
  BY <1>a DEF ImportInv, Whole, Parsed, OneRecordAMonth
<1>1. CASE UNCHANGED importVars
  BY <1>1 DEF importVars, ImportInv, CopiesTyped, Whole, HeadStored, NoGap, AwaitedJob, CheckedJobs,
              OneRecordAMonth, Parsed
<1>b. UNCHANGED <<job, copies>> => /\ job' \in [ImportRequests -> Jobs] /\ HeadStored' /\ NoGap'
                                   /\ CheckedJobs' /\ CopiesTyped'
  BY DEF ImportInv, CopiesTyped, HeadStored, NoGap, CheckedJobs, Parsed
<1>2. ASSUME NEW f \in AttendanceFiles \cup SalaryFiles, ChooseFile(f) PROVE ImportInv'
  <2>1. modal' \in Modal /\ modal'.awaits = None
    BY <1>0, <1>2 DEF ChooseFile
  <2>2. AwaitedJob'
    BY <2>1 DEF AwaitedJob
  <2> QED BY <1>2, <1>a, <1>b, <2>1, <2>2 DEF ChooseFile, ImportInv
<1>3. ASSUME NEW p \in Staff, ChooseTarget(p) PROVE ImportInv'
  <2>1. modal' \in Modal /\ modal'.awaits = None
    BY <1>0, <1>3 DEF ChooseTarget
  <2>2. AwaitedJob'
    BY <2>1 DEF AwaitedJob
  <2> QED BY <1>3, <1>a, <1>b, <2>1, <2>2 DEF ChooseTarget, ImportInv
<1>4. CASE ResetState
  <2>1. modal' \in Modal /\ modal'.awaits = None
    BY <1>4 DEF ResetState, Closed
  <2>2. AwaitedJob'
    BY <2>1 DEF AwaitedJob
  <2> QED BY <1>4, <1>a, <1>b, <2>1, <2>2 DEF ResetState, ImportInv
<1>5. CASE ImportLost
  <2>1. modal' \in Modal /\ modal'.awaits = None
    BY <1>0, <1>5 DEF ImportLost, Closed
  <2>2. AwaitedJob'
    BY <2>1 DEF AwaitedJob
  <2>3. job' \in [ImportRequests -> Jobs] /\ HeadStored' /\ NoGap' /\ CheckedJobs' /\ CopiesTyped'
    <3>1. CASE UNCHANGED job
      BY <1>5, <1>b, <3>1 DEF ImportLost
    <3>2. CASE job' = [job EXCEPT ![modal.awaits] = IdleJob]
      BY <1>0, <1>5, <3>2, JobMoves, JobFacts DEF ImportLost
    <3> QED BY <1>5, <3>1, <3>2 DEF ImportLost
  <2> QED BY <1>5, <1>a, <2>1, <2>2, <2>3 DEF ImportLost, ImportInv
<1>6. CASE ImportAnswered
  <2>1. modal' \in Modal /\ modal'.awaits = None
    BY <1>0, <1>6 DEF ImportAnswered, Closed
  <2>2. AwaitedJob'
    BY <2>1 DEF AwaitedJob
  <2>3. job' \in [ImportRequests -> Jobs] /\ HeadStored' /\ NoGap' /\ CheckedJobs' /\ CopiesTyped'
    BY <1>0, <1>6, JobMoves, JobFacts DEF ImportAnswered
  <2>4. told' \subseteq AttendanceFiles /\ \A f \in told' : Whole(f)
    <3>1. modal.file.kind = "attendance" => modal.file \in AttendanceFiles
      BY <1>0 DEF AttendanceFiles, SalaryFiles, NoFile
    <3> QED BY <1>6, <3>1 DEF ImportAnswered, ImportInv, AwaitedJob
  <2>5. UNCHANGED <<copies, records, sent>>
    BY <1>6 DEF ImportAnswered
  <2> QED BY <2>1, <2>2, <2>3, <2>4, <2>5 DEF ImportInv, Whole, Parsed, OneRecordAMonth
<1>7. ASSUME NEW r \in ImportRequests, HandleImport(r) PROVE ImportInv'
  <2>0. /\ modal.awaits = None /\ job[r] = IdleJob /\ UNCHANGED <<copies, records, told>>
        /\ modal' = [modal EXCEPT !.awaits = r] /\ sent' \in 0 .. MaxImports
    BY <1>7, ImportAssumption DEF HandleImport, ImportInv
  <2>1. modal' \in Modal /\ modal'.awaits = r /\ modal'.file = modal.file
    BY <1>0, <2>0
  <2>2. CASE modal.file.kind = "attendance"
    <3>1. modal.file \in AttendanceFiles
      BY <1>0, <2>2 DEF AttendanceFiles, SalaryFiles, NoFile
    <3>2. PICK q : q = [at |-> "store", file |-> modal.file, left |-> Parsed(modal.file)]
      OBVIOUS
    <3>3. Parsed(modal.file) \in SUBSET Nat
      BY <3>1, FileFacts
    <3>4. q \in Jobs /\ q.at = "store" /\ q.file = modal.file /\ q.left = Parsed(q.file)
      BY <3>1, <3>2, <3>3 DEF Jobs
    <3>5. job' = [job EXCEPT ![r] = q]
      BY <1>7, <2>2, <3>2 DEF HandleImport
    <3>6. job' \in [ImportRequests -> Jobs] /\ job'[r] = q
          /\ HeadStored' /\ NoGap' /\ CheckedJobs' /\ CopiesTyped'
      BY <2>0, <3>4, <3>5, JobMoves
    <3>7. AwaitedJob'
      BY <2>1, <3>4, <3>6 DEF AwaitedJob
    <3> QED BY <1>a, <2>0, <2>1, <3>6, <3>7
  <2>3. CASE modal.file.kind # "attendance"
    <3>1. modal.file \in SalaryFiles /\ modal.file \notin AttendanceFiles
      BY <1>0, <1>7, <2>3 DEF HandleImport, AttendanceFiles
    <3>2. PICK q : q = [at |-> "check", file |-> modal.file, target |-> modal.target]
      OBVIOUS
    <3>3. q \in Jobs /\ q.at = "check"
      BY <1>0, <3>1, <3>2 DEF Jobs
    <3>4. job' = [job EXCEPT ![r] = q]
      BY <1>7, <2>3, <3>2 DEF HandleImport
    <3>5. job' \in [ImportRequests -> Jobs] /\ job'[r] = q
          /\ HeadStored' /\ NoGap' /\ CheckedJobs' /\ CopiesTyped'
      BY <2>0, <3>3, <3>4, JobMoves
    <3>6. AwaitedJob'
      BY <2>1, <3>1, <3>3, <3>5 DEF AwaitedJob
    <3> QED BY <1>a, <2>0, <2>1, <3>5, <3>6
  <2> QED BY <2>2, <2>3
<1>8. ASSUME NEW r \in ImportRequests, StatementFails(r) PROVE ImportInv'
  <2>1. Over(r, "error") /\ job[r].at # "idle" /\ UNCHANGED <<modal, copies, records, told, sent>>
    BY <1>8 DEF StatementFails, Stop, InServer
  <2> QED BY <1>0, <1>a, <2>1, OverMoves DEF ImportInv
<1>9. ASSUME NEW r \in ImportRequests, StoreLine(r) PROVE ImportInv'
  <2>0. job[r].at = "store" /\ UNCHANGED <<modal, records, told, sent>>
    BY <1>9 DEF StoreLine
  <2>1. CASE job[r].left = {}
    <3>1. Over(r, "ok") /\ copies' = copies
      BY <1>9, <2>1 DEF StoreLine
    <3>2. Whole(job[r].file)
      BY <2>0, <2>1 DEF ImportInv, HeadStored, Whole
    <3>3. modal.file \in AttendanceFiles /\ modal.awaits = r /\ modal.awaits # None => Whole(modal.file)
      BY <2>0, <3>2 DEF ImportInv, AwaitedJob
    <3> QED BY <1>0, <1>a, <2>0, <3>1, <3>3, OverMoves DEF ImportInv
  <2>2. CASE job[r].left # {}
    <3>1. PICK i0 : i0 = FirstLine(job[r].left)
      OBVIOUS
    <3>2. /\ copies' = [copies EXCEPT ![job[r].file][i0] = @ + 1]
          /\ job' = [job EXCEPT ![r].left = @ \ {i0}]
      BY <1>9, <2>2, <3>1 DEF StoreLine
    <3>3. /\ job' \in [ImportRequests -> Jobs] /\ job'[r].at = "store" /\ job'[r].file = job[r].file
          /\ \A o \in ImportRequests \ {r} : job'[o] = job[o]
          /\ \A f \in AttendanceFiles : Whole(f) => Whole(f)'
          /\ HeadStored' /\ NoGap' /\ CheckedJobs' /\ CopiesTyped'
      BY <2>0, <2>2, <3>1, <3>2, LineStored
    <3>4. AwaitedJob'
      BY <1>0, <2>0, <3>3 DEF ImportInv, AwaitedJob
    <3> QED BY <2>0, <3>3, <3>4 DEF ImportInv, OneRecordAMonth
  <2> QED BY <2>1, <2>2
<1>10. ASSUME NEW r \in ImportRequests, CheckTarget(r) PROVE ImportInv'
  <2>0. /\ job[r].at = "check" /\ UNCHANGED <<modal, copies, records, told, sent>>
        /\ job[r] \in [at : {"check", "create"}, file : SalaryFiles, target : Staff \cup {None}]
    BY <1>10, JobFacts DEF CheckTarget, ImportInv
  <2>1. CASE Over(r, "error")
    BY <1>0, <1>a, <2>0, <2>1, OverMoves DEF ImportInv
  <2>2. CASE /\ job' = [job EXCEPT ![r].at = "create"]
             /\ ~job[r].file.revised /\ job[r].file.names \in {None, job[r].target}
    <3>1. PICK q : q = [job[r] EXCEPT !.at = "create"]
      OBVIOUS
    <3>2. q \in [at : {"check", "create"}, file : SalaryFiles, target : Staff \cup {None}]
          /\ q.at = "create" /\ q.file = job[r].file /\ q.target = job[r].target
      BY <2>0, <3>1
    <3>3. q \in Jobs /\ job' = [job EXCEPT ![r] = q]
      BY <2>2, <3>1, <3>2 DEF Jobs
    <3>4. /\ job' \in [ImportRequests -> Jobs] /\ job'[r] = q
          /\ \A o \in ImportRequests \ {r} : job'[o] = job[o]
          /\ HeadStored' /\ NoGap' /\ CheckedJobs' /\ CopiesTyped'
      BY <2>0, <2>2, <3>2, <3>3, JobMoves
    <3>5. AwaitedJob'
      BY <1>0, <2>0, <3>2, <3>4 DEF ImportInv, AwaitedJob, Whole, Parsed
    <3> QED BY <1>0, <1>a, <2>0, <3>4, <3>5 DEF ImportInv
  <2> QED BY <1>10, <2>1, <2>2 DEF CheckTarget
<1>11. ASSUME NEW r \in ImportRequests, CreateImported(r) PROVE ImportInv'
  <2>0. /\ job[r].at = "create" /\ UNCHANGED <<modal, copies, told, sent>>
        /\ ~job[r].file.revised /\ job[r].file.names \in {None, job[r].target}
    BY <1>11 DEF CreateImported, ImportInv, CheckedJobs
  <2>1. modal.awaits = r /\ modal.awaits # None => modal.file \notin AttendanceFiles
    BY <2>0 DEF ImportInv, AwaitedJob
  <2>2. \A at \in {"ok", "error"} : Over(r, at) =>
          /\ job' \in [ImportRequests -> Jobs] /\ AwaitedJob'
          /\ HeadStored' /\ NoGap' /\ CheckedJobs' /\ CopiesTyped'
    BY <2>0, <2>1, OverMoves
  <2>3. OneRecordAMonth'
    <3> DEFINE rec == [of |-> job[r].target, file |-> job[r].file]
    <3>1. rec.of = job[r].target /\ rec.file = job[r].file
      OBVIOUS
    <3>2. records' = records \/ (Unique(rec.of) /\ records' = records \cup {rec})
      BY <1>11 DEF CreateImported
    <3> HIDE DEF rec
    <3> QED BY <2>0, <3>1, <3>2 DEF ImportInv, OneRecordAMonth, Unique, Settled
  <2> QED BY <1>11, <2>0, <2>2, <2>3 DEF CreateImported, ImportInv, Whole, Parsed
<1>12. ASSUME NEW p \in Staff, SettleMonth(p) PROVE ImportInv'
  <2> DEFINE rec == [of |-> p, file |-> NoFile]
  <2>1. rec.of = p /\ rec.file = NoFile /\ Unique(p) /\ records' = records \cup {rec}
    BY <1>12 DEF SettleMonth
  <2> HIDE DEF rec
  <2>2. OneRecordAMonth'
    BY <2>1 DEF ImportInv, OneRecordAMonth, Unique, Settled
  <2> QED BY <1>12, <1>b, <2>2 DEF SettleMonth, ImportInv, Whole, Parsed, AwaitedJob
<1> QED
  BY <1>1, <1>2, <1>3, <1>4, <1>5, <1>6, <1>7, <1>8, <1>9, <1>10, <1>11, <1>12 DEF ImportNext

-----------------------------------------------------------------------------
(* Special leave.                                                          *)

SentAsk == [at : {"sent"}, dates : SUBSET LeaveDays, removed : {{}}]
DiffAsk == [at : {"diff"}, dates : SUBSET LeaveDays, added : SUBSET LeaveDays, removed : SUBSET LeaveDays]
SaveAsk == [at : {"save"}, dates : SUBSET LeaveDays, removed : {{}}]
SyncAsk == [at : {"sync"}, dates : SUBSET LeaveDays, added : SUBSET LeaveDays,
            removed : SUBSET LeaveDays, left : SUBSET LeaveDays, all : SUBSET Holiday]
DropAsk == [at : {"unlist", "drop"}, holiday : Holiday, removed : SUBSET LeaveDays]
UnlistedAsk == [at : {"unlisted"}, holiday : Holiday, removed : SUBSET LeaveDays, dates : SUBSET LeaveDays]
Asks == {Idle} \cup SentAsk \cup DiffAsk \cup SaveAsk \cup SyncAsk \cup DropAsk \cup UnlistedAsk

LeaveTyped ==
  /\ leaveList \subseteq LeaveDays /\ form \subseteq LeaveDays
  /\ holidays \subseteq Holiday /\ (\A h \in holidays : h.id \in 1 .. holidayId)
  /\ holidayId \in 0 .. MaxHolidayId /\ torn \in BOOLEAN
  /\ asked \in [LeaveRequests -> Asks]

BackedIn(d, H) == \E h \in H : h.special /\ h.day = d
InStarted(a) == a.at \notin {"idle", "sent"}

\* A request that removes dates has no other one beside it.
RemovesAlone(asks) ==
  \A r, s \in LeaveRequests :
    r # s /\ InStarted(asks[r]) /\ InStarted(asks[s]) => asks[r].removed = {}

\* A date on the list has its holiday, or is about to leave the list.
ListBacked(asks, L, H) ==
  \A d \in L : BackedIn(d, H) \/ \E r \in LeaveRequests : asks[r].at = "sync" /\ d \in asks[r].removed

\* What a request will store is backed, but for the dates it has yet to add; the
\* holidays it copied are still there; the list it will write drops one date only.
StepSound(a, L, H) ==
  /\ a.at \in {"diff", "sync"} =>
       (\A d \in a.dates : d \in a.added \/ BackedIn(d, H)) /\ a.dates \cap a.removed = {}
  /\ a.at = "save" => \A d \in a.dates : BackedIn(d, H)
  /\ a.at = "sync" => a.left \subseteq a.removed /\ a.all \subseteq H /\ \A h \in a.all : h.special
  /\ a.at \in {"unlist", "unlisted", "drop"} => a.removed = IF a.holiday.special THEN {a.holiday.day} ELSE {}
  /\ a.at \in {"unlist", "unlisted"} => a.holiday.special
  /\ a.at = "unlisted" => a.dates = L \ {a.holiday.day}
  /\ a.at = "drop" /\ a.holiday.special => a.holiday.day \notin L

LeaveSound ==
  /\ RemovesAlone(asked) /\ ListBacked(asked, leaveList, holidays)
  /\ \A r \in LeaveRequests : StepSound(asked[r], leaveList, holidays)

LeaveInv == LeaveTyped /\ (torn \/ LeaveSound)

LEMMA AskFacts ==
  /\ \A a \in Asks : a.at \in {"idle", "sent", "diff", "save", "sync", "unlist", "drop", "unlisted"}
  /\ \A a \in Asks :
       /\ a.at = "sent" => a \in SentAsk
       /\ a.at = "diff" => a \in DiffAsk
       /\ a.at = "save" => a \in SaveAsk
       /\ a.at = "sync" => a \in SyncAsk
       /\ a.at \in {"unlist", "drop"} => a \in DropAsk
       /\ a.at = "unlisted" => a \in UnlistedAsk
  /\ Idle \in Asks /\ Idle.at = "idle"
BY DEF Asks, Idle, SentAsk, DiffAsk, SaveAsk, SyncAsk, DropAsk, UnlistedAsk

LEMMA LeaveInvWhole == LeaveInv => LeaveTypeOK /\ LeaveBacked
<1> SUFFICES ASSUME LeaveInv PROVE LeaveTypeOK /\ LeaveBacked
  OBVIOUS
<1>1. LeaveTypeOK
  BY AskFacts DEF LeaveInv, LeaveTyped, LeaveTypeOK
<1>2. LeaveBacked
  BY AskFacts DEF LeaveInv, LeaveBacked, LeaveSound, ListBacked, BackedIn
<1> QED BY <1>1, <1>2

LEMMA LeaveInvInit == LeaveInit => LeaveInv
<1> SUFFICES ASSUME LeaveInit PROVE LeaveInv
  OBVIOUS
<1>1. \A r \in LeaveRequests : asked[r] = Idle
  BY DEF LeaveInit
<1>2. LeaveTyped
  <2>1. asked = [r \in LeaveRequests |-> Idle] /\ leaveList = {} /\ form = {} /\ holidays = {}
        /\ holidayId = 0 /\ torn = FALSE /\ 0 \in 0 .. MaxHolidayId
    BY LeaveAssumption DEF LeaveInit
  <2> QED BY <2>1, AskFacts DEF LeaveTyped
<1>3. LeaveSound
  BY <1>1, AskFacts DEF LeaveInit, LeaveSound, RemovesAlone, ListBacked, StepSound, InStarted
<1> QED BY <1>2, <1>3 DEF LeaveInv

\* One request moves and the list or the holidays change: what to show of the step.
LEMMA LeaveMoves ==
  ASSUME LeaveInv, NEW r \in LeaveRequests, NEW q \in Asks, Goes(r, q),
         leaveList' \subseteq LeaveDays, form' \subseteq LeaveDays, torn' \in BOOLEAN,
         holidays' \subseteq Holiday, \A h \in holidays' : h.id \in 1 .. holidayId',
         holidayId' \in 0 .. MaxHolidayId,
         torn \/ ~LeaveSound => torn',
         ~torn' => /\ StepSound(q, leaveList', holidays')
                   /\ ListBacked(asked', leaveList', holidays')
                   /\ \A s \in LeaveRequests \ {r} :
                        /\ StepSound(asked[s], leaveList', holidays')
                        /\ InStarted(q) /\ InStarted(asked[s]) =>
                             q.removed = {} /\ asked[s].removed = {}
  PROVE  LeaveInv'
<1>1. asked' \in [LeaveRequests -> Asks] /\ asked'[r] = q
      /\ \A s \in LeaveRequests \ {r} : asked'[s] = asked[s]
  BY DEF LeaveInv, LeaveTyped, Goes
<1>2. LeaveTyped'
  BY <1>1 DEF LeaveTyped
<1>3. ASSUME ~torn' PROVE LeaveSound'
  <2>1. RemovesAlone(asked')
    BY <1>1, <1>3 DEF LeaveSound, RemovesAlone
  <2>2. \A s \in LeaveRequests : StepSound(asked'[s], leaveList', holidays')
    BY <1>1, <1>3
  <2> QED BY <1>3, <2>1, <2>2 DEF LeaveSound
<1> QED BY <1>2, <1>3 DEF LeaveInv

\* More holidays back no less.
LEMMA BackedMore ==
  ASSUME NEW H, NEW J, H \subseteq J, NEW a, NEW L, StepSound(a, L, H)
  PROVE  StepSound(a, L, J)
BY DEF StepSound, BackedIn

LEMMA AskOf ==
  ASSUME LeaveInv, NEW r \in LeaveRequests
  PROVE  asked[r] \in Asks /\ (~torn => StepSound(asked[r], leaveList, holidays))
BY DEF LeaveInv, LeaveTyped, LeaveSound

LEMMA CardSteps ==
  ASSUME LeaveInv, CardLoads \/ ClearHolidays \/ \E d \in LeaveDays, special \in BOOLEAN : CreateHoliday(d, special)
  PROVE  LeaveInv'
<1>1. CASE CardLoads
  BY <1>1 DEF CardLoads, LeaveInv, LeaveTyped, LeaveSound
<1>2. CASE ClearHolidays
  BY <1>2 DEF ClearHolidays, LeaveInv, LeaveTyped
<1>3. ASSUME NEW d \in LeaveDays, NEW special \in BOOLEAN, CreateHoliday(d, special) PROVE LeaveInv'
  <2>1. /\ holidayId \in Nat /\ holidayId' = holidayId + 1 /\ holidayId < MaxHolidayId
        /\ holidays' = holidays \cup {[id |-> holidayId + 1, day |-> d, special |-> special]}
        /\ UNCHANGED <<leaveList, form, asked, torn>>
    BY <1>3, LeaveAssumption DEF CreateHoliday, Created, LeaveInv, LeaveTyped
  <2>2. [id |-> holidayId + 1, day |-> d, special |-> special] \in Holiday
    BY <2>1 DEF Holiday
  <2>3. \A h \in holidays' : h.id \in 1 .. holidayId'
    BY <2>1 DEF LeaveInv, LeaveTyped
  <2>4. LeaveTyped'
    BY <2>1, <2>2, <2>3, LeaveAssumption DEF LeaveInv, LeaveTyped
  <2>5. LeaveSound => LeaveSound'
    <3>1. holidays \subseteq holidays'
      BY <2>1
    <3> QED BY <2>1, <3>1, BackedMore DEF LeaveSound, ListBacked, BackedIn
  <2> QED BY <2>1, <2>4, <2>5 DEF LeaveInv
<1> QED BY <1>1, <1>2, <1>3

LEMMA SaveUsedDatesKeeps ==
  ASSUME LeaveInv, NEW r \in LeaveRequests, NEW dates \in SUBSET LeaveDays, SaveUsedDates(r, dates)
  PROVE  LeaveInv'
<1>1. PICK q : q = [at |-> "sent", dates |-> dates, removed |-> {}]
  OBVIOUS
<1>2. q \in Asks /\ q.at = "sent"
  BY <1>1 DEF Asks, SentAsk
<1>3. Goes(r, q) /\ asked[r] = Idle /\ form' = dates /\ UNCHANGED <<leaveList, holidays, holidayId, torn>>
  BY <1>1 DEF SaveUsedDates
<1>4. asked'[r] = q /\ \A s \in LeaveRequests \ {r} : asked'[s] = asked[s]
  BY <1>3 DEF Goes, LeaveInv, LeaveTyped
<1>5. LeaveSound => ListBacked(asked', leaveList, holidays)
  BY <1>3, <1>4, AskFacts DEF LeaveSound, ListBacked
<1>6. StepSound(q, leaveList, holidays) /\ ~InStarted(q)
  BY <1>2 DEF StepSound, InStarted
<1> QED BY <1>2, <1>3, <1>5, <1>6, LeaveMoves DEF LeaveInv, LeaveTyped, LeaveSound

\* Nothing more is claimed once a step has failed.
LEMMA TornMoves ==
  ASSUME LeaveInv, NEW r \in LeaveRequests, NEW q \in Asks, Goes(r, q),
         UNCHANGED <<leaveList, holidays, holidayId, form>>, torn' = TRUE
  PROVE  LeaveInv'
BY LeaveMoves DEF LeaveInv, LeaveTyped

\* Of two requests that have read the list, neither removes a date.
LEMMA AloneStill ==
  ASSUME LeaveInv, ~torn, NEW r \in LeaveRequests, NEW s \in LeaveRequests, r # s,
         InStarted(asked[r]), InStarted(asked[s])
  PROVE  asked[r].removed = {} /\ asked[s].removed = {}
BY DEF LeaveInv, LeaveSound, RemovesAlone

\* A request goes on with the dates it removes, and no holiday is lost.
LEMMA RequestMoves ==
  ASSUME LeaveInv, NEW r \in LeaveRequests, NEW q \in Asks, Goes(r, q),
         InStarted(asked[r]), q.removed = asked[r].removed, asked[r].at = "sync" => q.at = "sync",
         UNCHANGED <<leaveList, form, torn>>, holidays \subseteq holidays', holidays' \subseteq Holiday,
         \A h \in holidays' : h.id \in 1 .. holidayId', holidayId' \in 0 .. MaxHolidayId,
         ~torn => StepSound(q, leaveList, holidays')
  PROVE  LeaveInv'
<1>1. asked'[r] = q /\ \A s \in LeaveRequests \ {r} : asked'[s] = asked[s]
  BY DEF LeaveInv, LeaveTyped, Goes
<1>2. ASSUME ~torn PROVE ListBacked(asked', leaveList, holidays')
  BY <1>1, <1>2 DEF LeaveInv, LeaveSound, ListBacked, BackedIn
<1>3. ASSUME ~torn, NEW s \in LeaveRequests \ {r}
      PROVE  /\ StepSound(asked[s], leaveList, holidays')
             /\ InStarted(q) /\ InStarted(asked[s]) => q.removed = {} /\ asked[s].removed = {}
  <2>1. StepSound(asked[s], leaveList, holidays')
    BY <1>3, AskOf, BackedMore
  <2> QED BY <1>3, <2>1, AloneStill
<1>4. leaveList' \subseteq LeaveDays /\ form' \subseteq LeaveDays /\ torn' \in BOOLEAN /\ (torn \/ ~LeaveSound => torn')
  BY DEF LeaveInv, LeaveTyped
<1> QED BY <1>2, <1>3, <1>4, LeaveMoves

LEMMA ReadListKeeps ==
  ASSUME LeaveInv, NEW r \in LeaveRequests, ReadList(r)
  PROVE  LeaveInv'
<1>1. PICK q : q = [at |-> "diff", dates |-> asked[r].dates, added |-> asked[r].dates \ leaveList,
                    removed |-> leaveList \ asked[r].dates]
  OBVIOUS
<1>2. asked[r] \in SentAsk /\ asked[r].at = "sent"
  BY AskFacts, AskOf DEF ReadList
<1>3. q \in Asks
  <2>1. q \in DiffAsk
    BY <1>1, <1>2 DEF SentAsk, DiffAsk, LeaveInv, LeaveTyped
  <2> QED BY <2>1 DEF Asks
<1>4. Goes(r, q) /\ UNCHANGED <<leaveList, holidays, holidayId, form>>
      /\ torn' = (torn \/ \E s \in Started \ {r} : q.removed # {} \/ asked[s].removed # {})
  BY <1>1 DEF ReadList, Meets
<1>5. asked'[r] = q /\ \A s \in LeaveRequests \ {r} : asked'[s] = asked[s]
  BY <1>4 DEF LeaveInv, LeaveTyped, Goes
<1>6. CASE torn \/ \E s \in Started \ {r} : q.removed # {} \/ asked[s].removed # {}
  BY <1>3, <1>4, <1>6, TornMoves
<1>7. CASE ~torn /\ \A s \in Started \ {r} : q.removed = {} /\ asked[s].removed = {}
  <2>1. torn' = FALSE /\ ~torn /\ LeaveSound
    <3>1. torn' \in BOOLEAN /\ ~torn'
      BY <1>4, <1>7
    <3> QED BY <1>7, <3>1 DEF LeaveInv
  <2>2. \A s \in LeaveRequests \ {r} : InStarted(asked[s]) => q.removed = {} /\ asked[s].removed = {}
    BY <1>7 DEF Started, InStarted
  <2>3. ASSUME NEW d \in leaveList PROVE BackedIn(d, holidays)
    <3>1. SUFFICES ASSUME NEW s \in LeaveRequests, asked[s].at = "sync", d \in asked[s].removed
                   PROVE  FALSE
      BY <2>1 DEF LeaveSound, ListBacked
    <3> QED BY <1>2, <2>2, <3>1 DEF InStarted
  <2>4. StepSound(q, leaveList, holidays)
    BY <1>1, <2>3 DEF StepSound
  <2>5. ListBacked(asked', leaveList, holidays)
    BY <2>3 DEF ListBacked
  <2>6. \A s \in LeaveRequests \ {r} : StepSound(asked[s], leaveList, holidays)
    BY <2>1 DEF LeaveSound
  <2> QED BY <1>3, <1>4, <2>1, <2>2, <2>4, <2>5, <2>6, LeaveMoves DEF LeaveInv, LeaveTyped
<1> QED BY <1>6, <1>7

LEMMA ReadHolidaysKeeps ==
  ASSUME LeaveInv, NEW r \in LeaveRequests, ReadHolidays(r)
  PROVE  LeaveInv'
<1> DEFINE step == asked[r]
<1>1. step \in DiffAsk /\ step.at = "diff"
  BY AskFacts, AskOf DEF ReadHolidays
<1>2. PICK q : q = IF step.added \cup step.removed = {}
                   THEN [at |-> "save", dates |-> step.dates, removed |-> {}]
                   ELSE [at |-> "sync", dates |-> step.dates, added |-> step.added,
                         removed |-> step.removed, left |-> step.removed,
                         all |-> {h \in holidays : h.special}]
  OBVIOUS
<1>3. q \in Asks /\ q.removed = step.removed
  <2>1. CASE step.added \cup step.removed = {}
    <3>1. q = [at |-> "save", dates |-> step.dates, removed |-> {}]
      BY <1>2, <2>1
    <3> QED BY <1>1, <2>1, <3>1 DEF DiffAsk, SaveAsk, Asks
  <2>2. CASE step.added \cup step.removed # {}
    <3>1. q = [at |-> "sync", dates |-> step.dates, added |-> step.added,
               removed |-> step.removed, left |-> step.removed, all |-> {h \in holidays : h.special}]
      BY <1>2, <2>2
    <3>2. {h \in holidays : h.special} \in SUBSET Holiday
      BY DEF LeaveInv, LeaveTyped
    <3> QED BY <1>1, <3>1, <3>2 DEF DiffAsk, SyncAsk, Asks
  <2> QED BY <2>1, <2>2
<1>4. Goes(r, q) /\ UNCHANGED <<leaveList, holidays, holidayId, form, torn>>
  BY <1>2 DEF ReadHolidays
<1>5. ASSUME ~torn PROVE StepSound(q, leaveList, holidays)
  <2>1. StepSound(step, leaveList, holidays)
    BY <1>5, AskOf
  <2> QED BY <1>1, <1>2, <2>1 DEF StepSound
<1>6. InStarted(step)
  BY <1>1 DEF InStarted
<1> QED BY <1>1, <1>3, <1>4, <1>5, <1>6, RequestMoves DEF LeaveInv, LeaveTyped

LEMMA NextDate ==
  ASSUME NEW S \in SUBSET LeaveDays, S # {}
  PROVE  Next1(S) \in S
<1>1. \E x \in S : \A y \in S : x <= y
  BY LeaveAssumption, LeastNatural
<1> QED BY <1>1 DEF Next1

LEMMA AddDateKeeps ==
  ASSUME LeaveInv, NEW r \in LeaveRequests, AddDate(r)
  PROVE  LeaveInv'
<1> DEFINE step == asked[r]
<1>1. step \in SyncAsk /\ step.at = "sync" /\ step.added # {}
  BY AskFacts, AskOf DEF AddDate
<1>2. PICK d : d = Next1(step.added)
  OBVIOUS
<1>3. d \in step.added /\ d \in LeaveDays
  BY <1>1, <1>2, NextDate DEF SyncAsk
<1>4. PICK q : q = [step EXCEPT !.added = @ \ {d}]
  OBVIOUS
<1>5. /\ q \in SyncAsk /\ q.at = "sync" /\ q.dates = step.dates /\ q.added = step.added \ {d}
      /\ q.removed = step.removed /\ q.left = step.left /\ q.all = step.all
  BY <1>1, <1>4 DEF SyncAsk
<1>6. /\ Goes(r, q) /\ UNCHANGED <<leaveList, form, torn>>
      /\ IF SpecialHoliday(step.all, d) THEN UNCHANGED <<holidays, holidayId>> ELSE Created(d, TRUE)
  BY <1>2, <1>4 DEF AddDate
<1>7. /\ holidays \subseteq holidays' /\ holidays' \subseteq Holiday
      /\ (\A h \in holidays' : h.id \in 1 .. holidayId') /\ holidayId' \in 0 .. MaxHolidayId
      /\ ~SpecialHoliday(step.all, d) => BackedIn(d, holidays')
  <2>1. CASE SpecialHoliday(step.all, d)
    BY <1>6, <2>1 DEF LeaveInv, LeaveTyped
  <2>2. CASE ~SpecialHoliday(step.all, d)
    <3>1. /\ holidayId \in Nat /\ holidayId < MaxHolidayId /\ holidayId' = holidayId + 1
          /\ holidays' = holidays \cup {[id |-> holidayId + 1, day |-> d, special |-> TRUE]}
      BY <1>6, <2>2, LeaveAssumption DEF Created, LeaveInv, LeaveTyped
    <3>2. [id |-> holidayId + 1, day |-> d, special |-> TRUE] \in Holiday
      BY <1>3, <3>1 DEF Holiday
    <3>3. \A h \in holidays' : h.id \in 1 .. holidayId'
      BY <3>1 DEF LeaveInv, LeaveTyped
    <3>4. holidayId + 1 \in 0 .. MaxHolidayId
      BY <3>1, LeaveAssumption
    <3>5. BackedIn(d, holidays')
      <4>1. PICK h : h = [id |-> holidayId + 1, day |-> d, special |-> TRUE]
        OBVIOUS
      <4>2. h \in holidays' /\ h.special /\ h.day = d
        BY <3>1, <4>1
      <4> QED BY <4>2 DEF BackedIn
    <3> QED BY <3>1, <3>2, <3>3, <3>4, <3>5 DEF LeaveInv, LeaveTyped
  <2> QED BY <2>1, <2>2
<1>8. ASSUME ~torn PROVE StepSound(q, leaveList, holidays')
  <2>1. StepSound(step, leaveList, holidays')
    BY <1>7, <1>8, AskOf, BackedMore
  <2>2. BackedIn(d, holidays')
    <3>1. SpecialHoliday(step.all, d) => BackedIn(d, holidays')
      BY <1>1, <2>1 DEF StepSound, SpecialHoliday, BackedIn
    <3> QED BY <1>7, <3>1
  <2> QED BY <1>1, <1>5, <2>1, <2>2 DEF StepSound
<1>9. q \in Asks /\ InStarted(step)
  BY <1>1, <1>5 DEF Asks, InStarted
<1> QED BY <1>1, <1>5, <1>6, <1>7, <1>8, <1>9, RequestMoves

\* A request that has not read the list, or has none, claims nothing.
LEMMA AtRest ==
  ASSUME NEW a, ~InStarted(a), NEW L, NEW H
  PROVE  StepSound(a, L, H)
BY DEF StepSound, InStarted

LEMMA RemoveDateKeeps ==
  ASSUME LeaveInv, NEW r \in LeaveRequests, RemoveDate(r)
  PROVE  LeaveInv'
<1> DEFINE step == asked[r]
<1>1. step \in SyncAsk /\ step.at = "sync" /\ step.added = {} /\ step.left # {} /\ InStarted(step)
  BY AskFacts, AskOf DEF RemoveDate, InStarted
<1>2. PICK d : d = Next1(step.left)
  OBVIOUS
<1>3. d \in step.left
  BY <1>1, <1>2, NextDate DEF SyncAsk
<1>4. PICK gone : gone = {h \in step.all : h.day = d}
  OBVIOUS
<1>5. CASE gone = {}
  <2>1. PICK q : q = [step EXCEPT !.left = @ \ {d}]
    OBVIOUS
  <2>2. /\ q \in SyncAsk /\ q.at = "sync" /\ q.dates = step.dates /\ q.added = step.added
        /\ q.removed = step.removed /\ q.left = step.left \ {d} /\ q.all = step.all
    BY <1>1, <2>1 DEF SyncAsk
  <2>3. Goes(r, q) /\ UNCHANGED <<leaveList, holidays, holidayId, form, torn>>
    BY <1>2, <1>4, <1>5, <2>1 DEF RemoveDate
  <2>4. ASSUME ~torn PROVE StepSound(q, leaveList, holidays')
    <3>1. StepSound(step, leaveList, holidays)
      BY <2>4, AskOf
    <3> QED BY <1>1, <2>2, <2>3, <3>1 DEF StepSound
  <2>5. q \in Asks
    BY <2>2 DEF Asks
  <2> QED BY <1>1, <2>2, <2>3, <2>4, <2>5, RequestMoves DEF LeaveInv, LeaveTyped
<1>6. CASE gone # {}
  <2>1. PICK g : g = NextHoliday(gone)
    OBVIOUS
  <2>2. g \in step.all /\ g.day = d
    <3>1. \A h \in gone : h.id \in Nat
      BY <1>1, <1>4 DEF SyncAsk, Holiday
    <3> DEFINE Ids == {h.id : h \in gone}
    <3>2. Ids \subseteq Nat /\ Ids # {}
      BY <1>6, <3>1
    <3>3. \E h \in gone : \A o \in gone : h.id <= o.id
      <4> HIDE DEF Ids
      <4>1. PICK n \in Ids : \A m \in Ids : n <= m
        BY <3>2, LeastNatural
      <4> QED BY <4>1 DEF Ids
    <3>4. g \in gone
      BY <2>1, <3>3 DEF NextHoliday
    <3> QED BY <1>4, <3>4
  <2>3. PICK q : q = [step EXCEPT !.all = @ \ {g}]
    OBVIOUS
  <2>4. /\ q \in SyncAsk /\ q.at = "sync" /\ q.dates = step.dates /\ q.added = step.added
        /\ q.removed = step.removed /\ q.left = step.left /\ q.all = step.all \ {g}
    BY <1>1, <2>3 DEF SyncAsk
  <2>5. Goes(r, q) /\ holidays' = holidays \ {g} /\ UNCHANGED <<leaveList, holidayId, form, torn>>
    BY <1>2, <1>4, <1>6, <2>1, <2>3 DEF RemoveDate
  <2>6. asked'[r] = q /\ \A s \in LeaveRequests \ {r} : asked'[s] = asked[s]
    BY <2>5 DEF LeaveInv, LeaveTyped, Goes
  <2>7. ASSUME ~torn
        PROVE  /\ StepSound(q, leaveList, holidays')
               /\ ListBacked(asked', leaveList, holidays')
               /\ \A s \in LeaveRequests \ {r} :
                    StepSound(asked[s], leaveList, holidays') /\ ~InStarted(asked[s])
    <3>1. StepSound(step, leaveList, holidays) /\ d \in step.removed
      <4>1. StepSound(step, leaveList, holidays)
        BY <2>7, AskOf
      <4> QED BY <1>1, <1>3, <4>1 DEF StepSound
    <3>2. \A x : x # d /\ BackedIn(x, holidays) => BackedIn(x, holidays')
      BY <2>2, <2>5 DEF BackedIn
    <3>3. StepSound(q, leaveList, holidays')
      BY <1>1, <2>4, <2>5, <3>1, <3>2 DEF StepSound
    <3>4. ListBacked(asked', leaveList, holidays')
      <4>1. SUFFICES ASSUME NEW x \in leaveList, ~BackedIn(x, holidays')
                     PROVE  \E s \in LeaveRequests : asked'[s].at = "sync" /\ x \in asked'[s].removed
        BY DEF ListBacked
      <4>2. CASE x = d
        BY <2>4, <2>6, <3>1, <4>2
      <4>3. CASE x # d
        <5>1. PICK s \in LeaveRequests : asked[s].at = "sync" /\ x \in asked[s].removed
          BY <2>7, <3>2, <4>1, <4>3 DEF LeaveInv, LeaveSound, ListBacked
        <5>2. asked'[s].at = "sync" /\ x \in asked'[s].removed
          BY <1>1, <2>4, <2>6, <5>1
        <5> QED BY <5>2
      <4> QED BY <4>2, <4>3
    <3>5. \A s \in LeaveRequests \ {r} : ~InStarted(asked[s])
      BY <1>1, <2>7, <3>1, AloneStill
    <3> QED BY <3>3, <3>4, <3>5, AtRest
  <2>8. q \in Asks
    BY <2>4 DEF Asks
  <2> QED BY <2>5, <2>7, <2>8, LeaveMoves DEF LeaveInv, LeaveTyped
<1> QED BY <1>5, <1>6

LEMMA DateFailsKeeps ==
  ASSUME LeaveInv, NEW r \in LeaveRequests, DateFails(r)
  PROVE  LeaveInv'
<1> DEFINE step == asked[r]
<1>1. step \in SyncAsk
  BY AskFacts, AskOf DEF DateFails
<1>2. PICK q : q = IF step.added # {}
                   THEN [step EXCEPT !.added = @ \ {Next1(@)}]
                   ELSE [step EXCEPT !.left = @ \ {Next1(@)}]
  OBVIOUS
<1>3. Goes(r, q) /\ torn' = TRUE /\ UNCHANGED <<leaveList, holidays, holidayId, form>>
  BY <1>2 DEF DateFails
<1>4. q \in SyncAsk
  <2>1. step.added \ {Next1(step.added)} \in SUBSET LeaveDays /\ step.left \ {Next1(step.left)} \in SUBSET LeaveDays
    BY <1>1 DEF SyncAsk
  <2>2. q = [step EXCEPT !.added = step.added \ {Next1(step.added)}]
        \/ q = [step EXCEPT !.left = step.left \ {Next1(step.left)}]
    BY <1>1, <1>2 DEF SyncAsk
  <2> QED BY <1>1, <2>1, <2>2 DEF SyncAsk
<1>5. q \in Asks
  BY <1>4 DEF Asks
<1> QED BY <1>3, <1>5, TornMoves

LEMMA SaveListKeeps ==
  ASSUME LeaveInv, NEW r \in LeaveRequests, SaveList(r)
  PROVE  LeaveInv'
<1> DEFINE step == asked[r]
<1>1. step \in SaveAsk \/ (step \in SyncAsk /\ step.added = {})
  <2>1. step.at = "save" \/ (step.at = "sync" /\ step.added \cup step.left = {})
    BY DEF SaveList
  <2>2. step \in Asks /\ (step.at = "save" => step \in SaveAsk) /\ (step.at = "sync" => step \in SyncAsk)
    BY AskFacts, AskOf
  <2> QED BY <2>1, <2>2
<1>2. InStarted(step) /\ step.dates \in SUBSET LeaveDays
  BY <1>1 DEF InStarted, SaveAsk, SyncAsk
<1>3. leaveList' = step.dates /\ Goes(r, Idle) /\ UNCHANGED <<holidays, holidayId, form, torn>>
  BY DEF SaveList
<1>4. ASSUME ~torn
      PROVE  /\ ListBacked(asked', leaveList', holidays)
             /\ \A s \in LeaveRequests \ {r} : StepSound(asked[s], leaveList', holidays)
  <2>1. StepSound(step, leaveList, holidays)
    BY <1>4, AskOf
  <2>2. \A d \in step.dates : BackedIn(d, holidays)
    BY <1>1, <2>1 DEF StepSound, SaveAsk, SyncAsk
  <2>3. ASSUME NEW s \in LeaveRequests \ {r} PROVE StepSound(asked[s], leaveList', holidays)
    <3>1. StepSound(asked[s], leaveList, holidays) /\ (InStarted(asked[s]) => asked[s].removed = {})
      BY <1>2, <1>4, AskOf, AloneStill
    <3>2. CASE InStarted(asked[s])
      <4>1. asked[s].at \in {"unlist", "unlisted", "drop"} => ~asked[s].holiday.special
        BY <3>1, <3>2 DEF StepSound
      <4> QED BY <3>1, <4>1 DEF StepSound
    <3> QED BY <3>2, AtRest
  <2> QED BY <1>3, <2>2, <2>3 DEF ListBacked
<1>5. StepSound(Idle, leaveList', holidays') /\ ~InStarted(Idle) /\ Idle \in Asks
  BY AskFacts DEF StepSound, InStarted
<1> QED BY <1>2, <1>3, <1>4, <1>5, LeaveMoves DEF LeaveInv, LeaveTyped

LEMMA ReadHolidayKeeps ==
  ASSUME LeaveInv, NEW r \in LeaveRequests, NEW h \in holidays, ReadHoliday(r, h)
  PROVE  LeaveInv'
<1>1. PICK removed : removed = IF h.special THEN {h.day} ELSE {}
  OBVIOUS
<1>2. PICK q : q = [at |-> IF h.special THEN "unlist" ELSE "drop", holiday |-> h, removed |-> removed]
  OBVIOUS
<1>3. Goes(r, q) /\ UNCHANGED <<leaveList, holidays, holidayId, form>> /\ asked[r] = Idle
      /\ torn' = (torn \/ \E s \in Started \ {r} : removed # {} \/ asked[s].removed # {})
  BY <1>1, <1>2 DEF ReadHoliday, Meets
<1>4. q \in Asks /\ q.removed = removed
  <2>1. h \in Holiday /\ h.day \in LeaveDays
    BY DEF LeaveInv, LeaveTyped, Holiday
  <2> QED BY <1>1, <1>2, <2>1 DEF Asks, DropAsk
<1>5. asked'[r] = q /\ \A s \in LeaveRequests \ {r} : asked'[s] = asked[s]
  BY <1>3 DEF LeaveInv, LeaveTyped, Goes
<1>6. CASE torn \/ \E s \in Started \ {r} : removed # {} \/ asked[s].removed # {}
  BY <1>3, <1>4, <1>6, TornMoves
<1>7. CASE ~torn /\ \A s \in Started \ {r} : removed = {} /\ asked[s].removed = {}
  <2>1. torn' = FALSE /\ ~torn /\ LeaveSound
    <3>1. torn' \in BOOLEAN /\ ~torn'
      BY <1>3, <1>7
    <3> QED BY <1>7, <3>1 DEF LeaveInv
  <2>2. \A s \in LeaveRequests \ {r} : InStarted(asked[s]) => q.removed = {} /\ asked[s].removed = {}
    BY <1>4, <1>7 DEF Started, InStarted
  <2>3. StepSound(q, leaveList, holidays)
    BY <1>1, <1>2 DEF StepSound
  <2>4. ListBacked(asked', leaveList, holidays)
    BY <1>3, <1>5, <2>1, AskFacts DEF LeaveSound, ListBacked
  <2> QED BY <1>3, <1>4, <2>1, <2>2, <2>3, <2>4, LeaveMoves DEF LeaveInv, LeaveTyped, LeaveSound
<1> QED BY <1>6, <1>7

LEMMA ReadListForHolidayKeeps ==
  ASSUME LeaveInv, NEW r \in LeaveRequests, ReadListForHoliday(r)
  PROVE  LeaveInv'
<1> DEFINE step == asked[r]
<1>1. step \in DropAsk /\ step.at = "unlist" /\ InStarted(step)
  BY AskFacts, AskOf DEF ReadListForHoliday, InStarted
<1>2. PICK q : q = IF step.holiday.day \in leaveList
                   THEN [at |-> "unlisted", holiday |-> step.holiday, removed |-> step.removed,
                         dates |-> leaveList \ {step.holiday.day}]
                   ELSE [step EXCEPT !.at = "drop"]
  OBVIOUS
<1>3. Goes(r, q) /\ UNCHANGED <<leaveList, holidays, holidayId, form, torn>>
  BY <1>2 DEF ReadListForHoliday
<1>4. /\ \/ q \in UnlistedAsk /\ q.dates = leaveList \ {step.holiday.day}
         \/ q \in DropAsk /\ q.at = "drop" /\ step.holiday.day \notin leaveList
      /\ q.removed = step.removed /\ q.holiday = step.holiday
  <2>1. leaveList \ {step.holiday.day} \in SUBSET LeaveDays
    BY DEF LeaveInv, LeaveTyped
  <2>2. CASE step.holiday.day \in leaveList
    <3>1. q = [at |-> "unlisted", holiday |-> step.holiday, removed |-> step.removed,
               dates |-> leaveList \ {step.holiday.day}]
      BY <1>2, <2>2
    <3> QED BY <1>1, <2>1, <3>1 DEF DropAsk, UnlistedAsk
  <2>3. CASE step.holiday.day \notin leaveList
    <3>1. q = [step EXCEPT !.at = "drop"]
      BY <1>2, <2>3
    <3> QED BY <1>1, <2>3, <3>1 DEF DropAsk
  <2> QED BY <2>2, <2>3
<1>5. ASSUME ~torn PROVE StepSound(q, leaveList, holidays)
  <2>1. StepSound(step, leaveList, holidays)
    BY <1>5, AskOf
  <2>2. step.holiday.special /\ step.removed = IF step.holiday.special THEN {step.holiday.day} ELSE {}
    BY <1>1, <2>1 DEF StepSound
  <2>3. CASE q \in UnlistedAsk /\ q.dates = leaveList \ {step.holiday.day}
    BY <1>4, <2>2, <2>3 DEF StepSound, UnlistedAsk
  <2>4. CASE q \in DropAsk /\ q.at = "drop" /\ step.holiday.day \notin leaveList
    BY <1>4, <2>2, <2>4 DEF StepSound
  <2> QED BY <1>4, <2>3, <2>4
<1>6. q \in Asks
  BY <1>4 DEF Asks
<1> QED BY <1>1, <1>3, <1>4, <1>5, <1>6, RequestMoves DEF LeaveInv, LeaveTyped

LEMMA UnlistHolidayKeeps ==
  ASSUME LeaveInv, NEW r \in LeaveRequests, UnlistHoliday(r)
  PROVE  LeaveInv'
<1> DEFINE step == asked[r]
<1>1. step \in UnlistedAsk /\ step.at = "unlisted" /\ InStarted(step)
  BY AskFacts, AskOf DEF UnlistHoliday, InStarted
<1>2. PICK q : q = [at |-> "drop", holiday |-> step.holiday, removed |-> step.removed]
  OBVIOUS
<1>3. q \in Asks
  BY <1>1, <1>2 DEF Asks, DropAsk, UnlistedAsk
<1>4. Goes(r, q) /\ UNCHANGED <<holidays, holidayId, form>>
  BY <1>2 DEF UnlistHoliday
<1>5. asked'[r] = q /\ \A s \in LeaveRequests \ {r} : asked'[s] = asked[s]
  BY <1>4 DEF LeaveInv, LeaveTyped, Goes
<1>6. CASE leaveList' = step.dates /\ torn' = torn
  <2>1. ASSUME ~torn
        PROVE  /\ StepSound(q, leaveList', holidays)
               /\ ListBacked(asked', leaveList', holidays)
               /\ \A s \in LeaveRequests \ {r} :
                    StepSound(asked[s], leaveList', holidays) /\ ~InStarted(asked[s])
    <3>1. StepSound(step, leaveList, holidays)
      BY <2>1, AskOf
    <3>2. /\ step.holiday.special /\ step.removed = {step.holiday.day}
          /\ step.dates = leaveList \ {step.holiday.day}
      BY <1>1, <3>1 DEF StepSound
    <3>3. StepSound(q, leaveList', holidays)
      BY <1>2, <1>6, <3>2 DEF StepSound
    <3>4. \A s \in LeaveRequests \ {r} : ~InStarted(asked[s])
      BY <1>1, <2>1, <3>2, AloneStill
    <3>5. ListBacked(asked', leaveList', holidays)
      <4>1. ASSUME NEW d \in leaveList PROVE BackedIn(d, holidays)
        <5>1. SUFFICES ASSUME NEW s \in LeaveRequests, asked[s].at = "sync" PROVE FALSE
          BY <2>1 DEF LeaveInv, LeaveSound, ListBacked
        <5> QED BY <1>1, <3>4, <5>1 DEF InStarted
      <4> QED BY <1>6, <3>2, <4>1 DEF ListBacked
    <3> QED BY <3>3, <3>4, <3>5, AtRest
  <2>2. leaveList' \subseteq LeaveDays
    BY <1>1, <1>6 DEF UnlistedAsk
  <2> QED BY <1>3, <1>4, <1>6, <2>1, <2>2, LeaveMoves DEF LeaveInv, LeaveTyped
<1>7. CASE leaveList' = leaveList /\ torn' = TRUE
  BY <1>3, <1>4, <1>7, TornMoves
<1> QED BY <1>6, <1>7 DEF UnlistHoliday

LEMMA DropHolidayKeeps ==
  ASSUME LeaveInv, NEW r \in LeaveRequests, DropHoliday(r)
  PROVE  LeaveInv'
<1> DEFINE step == asked[r]
           h    == asked[r].holiday
<1>1. step \in DropAsk /\ step.at = "drop" /\ InStarted(step)
  BY AskFacts, AskOf DEF DropHoliday, InStarted
<1>2. Goes(r, Idle) /\ holidays' = holidays \ {h} /\ UNCHANGED <<leaveList, holidayId, form, torn>>
  BY DEF DropHoliday
<1>3. asked'[r] = Idle /\ \A s \in LeaveRequests \ {r} : asked'[s] = asked[s]
  BY <1>2 DEF LeaveInv, LeaveTyped, Goes
<1>4. Idle \in Asks /\ ~InStarted(Idle)
  BY AskFacts DEF InStarted
<1>5. ASSUME ~torn
      PROVE  /\ ListBacked(asked', leaveList, holidays')
             /\ \A s \in LeaveRequests \ {r} : StepSound(asked[s], leaveList, holidays')
  <2>1. StepSound(step, leaveList, holidays) /\ ListBacked(asked, leaveList, holidays)
    BY <1>5, AskOf DEF LeaveInv, LeaveSound
  <2>2. CASE h.special
    <3>1. h.day \notin leaveList /\ step.removed # {}
      BY <1>1, <2>1, <2>2 DEF StepSound
    <3>2. \A s \in LeaveRequests \ {r} : ~InStarted(asked[s])
      BY <1>1, <1>5, <3>1, AloneStill
    <3>3. ASSUME NEW d \in leaveList PROVE BackedIn(d, holidays')
      <4>1. BackedIn(d, holidays)
        BY <1>1, <2>1, <3>2 DEF ListBacked, InStarted
      <4> QED BY <1>2, <3>1, <4>1 DEF BackedIn
    <3> QED BY <3>2, <3>3, AtRest DEF ListBacked
  <2>3. CASE ~h.special
    <3>1. \A d : BackedIn(d, holidays) => BackedIn(d, holidays')
      BY <1>2, <2>3 DEF BackedIn
    <3>2. ListBacked(asked', leaveList, holidays')
      BY <1>1, <1>3, <2>1, <3>1 DEF ListBacked
    <3>3. ASSUME NEW s \in LeaveRequests \ {r} PROVE StepSound(asked[s], leaveList, holidays')
      <4>1. StepSound(asked[s], leaveList, holidays)
        BY <1>5, AskOf
      <4> QED BY <1>2, <2>3, <3>1, <4>1 DEF StepSound
    <3> QED BY <3>2, <3>3
  <2> QED BY <2>2, <2>3
<1>6. \A x, y : StepSound(Idle, x, y)
  BY <1>4, AtRest
<1> QED BY <1>2, <1>4, <1>5, <1>6, LeaveMoves DEF LeaveInv, LeaveTyped

LEMMA RequestDiesKeeps ==
  ASSUME LeaveInv, NEW r \in LeaveRequests, RequestDies(r)
  PROVE  LeaveInv'
<1>1. Goes(r, Idle) /\ torn' = (torn \/ asked[r].at # "sent") /\ UNCHANGED <<leaveList, holidays, holidayId, form>>
  BY DEF RequestDies
<1>2. Idle \in Asks /\ ~InStarted(Idle)
  BY AskFacts DEF InStarted
<1>3. CASE torn \/ asked[r].at # "sent"
  BY <1>1, <1>2, <1>3, TornMoves
<1>4. CASE ~torn /\ asked[r].at = "sent"
  <2>1. torn' = FALSE /\ LeaveSound
    <3>1. torn' \in BOOLEAN /\ ~torn'
      BY <1>1, <1>4
    <3> QED BY <1>4, <3>1 DEF LeaveInv
  <2>2. asked'[r] = Idle /\ \A s \in LeaveRequests \ {r} : asked'[s] = asked[s]
    BY <1>1 DEF LeaveInv, LeaveTyped, Goes
  <2>3. ListBacked(asked', leaveList, holidays)
    BY <1>4, <2>1, <2>2 DEF LeaveSound, ListBacked
  <2>4. StepSound(Idle, leaveList, holidays)
    BY <1>2, AtRest
  <2> QED BY <1>1, <1>2, <2>1, <2>3, <2>4, LeaveMoves DEF LeaveInv, LeaveTyped, LeaveSound
<1> QED BY <1>3, <1>4

LEMMA LeaveInvStep == LeaveInv /\ [LeaveNext]_leaveVars => LeaveInv'
<1> SUFFICES ASSUME LeaveInv, [LeaveNext]_leaveVars PROVE LeaveInv'
  OBVIOUS
<1>1. CASE UNCHANGED leaveVars
  BY <1>1 DEF leaveVars, LeaveInv, LeaveTyped, LeaveSound
<1>2. CASE CardLoads \/ ClearHolidays \/ \E d \in LeaveDays, special \in BOOLEAN : CreateHoliday(d, special)
  BY <1>2, CardSteps
<1>3. ASSUME NEW r \in LeaveRequests,
             \/ \E dates \in SUBSET LeaveDays : SaveUsedDates(r, dates)
             \/ ReadList(r) \/ ReadHolidays(r) \/ AddDate(r)
             \/ RemoveDate(r) \/ DateFails(r) \/ SaveList(r)
             \/ \E h \in holidays : ReadHoliday(r, h)
             \/ ReadListForHoliday(r) \/ UnlistHoliday(r)
             \/ DropHoliday(r) \/ RequestDies(r)
      PROVE  LeaveInv'
  BY <1>3, SaveUsedDatesKeeps, ReadListKeeps, ReadHolidaysKeeps, AddDateKeeps, RemoveDateKeeps,
     DateFailsKeeps, SaveListKeeps, ReadHolidayKeeps, ReadListForHolidayKeeps, UnlistHolidayKeeps,
     DropHolidayKeeps, RequestDiesKeeps
<1> QED BY <1>1, <1>2, <1>3 DEF LeaveNext

-----------------------------------------------------------------------------
(* The five desks.                                                         *)

DesksInv == SettingsInv /\ LeaveInv /\ DeskInv /\ ImportInv /\ RunInv

LEMMA DesksInvWhole ==
  DesksInv => DesksSound /\ OwnWriteShown /\ LeaveBacked /\ NoRowPaidTwice /\ ConfirmedMonth
BY SettingsInvWhole, LeaveInvWhole, ImportInvWhole, RunInvWhole DEF DesksInv, DeskInv, DesksSound, TypeOK

LEMMA DesksInvInit == Init => DesksInv
BY SettingsInvInit, LeaveInvInit, DeskInvInit, ImportInvInit, RunInvInit DEF Init, DesksInv

\* A desk's step leaves the other four as they are.
LEMMA DesksInvStep == DesksInv /\ [Next]_vars => DesksInv'
<1> SUFFICES ASSUME DesksInv, [Next]_vars PROVE DesksInv'
  OBVIOUS
<1>1. /\ [SettingsNext]_settingsVars /\ [LeaveNext]_leaveVars /\ [DeskNext]_attendanceDeskVars
      /\ [ImportNext]_importVars /\ [RunDeskNext]_runDeskVars
  BY DEF Next, vars
<1> QED
  BY <1>1, SettingsInvStep, LeaveInvStep, DeskInvStep, ImportInvStep, RunInvStep DEF DesksInv

\* The inductive invariant of the five desks holds of every reachable state.
THEOREM DesksStaySound == Spec => []DesksInv
<1>1. Init => DesksInv
  BY DesksInvInit
<1>2. DesksInv /\ [Next]_vars => DesksInv'
  BY DesksInvStep
<1> QED BY <1>1, <1>2, PTL DEF Spec

\* Whatever pages, files and requests there are: every desk is well typed, an import
\* that reported no error stored every line of its file, however often it was sent
\* (POST /api/attendance/import), and no month of an employee is recorded twice.
THEOREM DesksAreSound == Spec => []DesksSound
<1>1. DesksInv => DesksSound
  BY DesksInvWhole
<1> QED BY <1>1, DesksStaySound, PTL

\* For any number of pages and writes, a settings page at rest shows the settings at
\* least as new as the last write it was told of, however its fetches and the answers
\* to its saves overtake each other (invalidateQueries of SettingsPage).
THEOREM SettingsShowOwnWrites == Spec => []OwnWriteShown
<1>1. DesksInv => OwnWriteShown
  BY DesksInvWhole
<1> QED BY <1>1, DesksStaySound, PTL

\* At rest, every date on the special leave list has its holiday, for any number of
\* cards, dates and overlapping requests, unless a step failed or a removal met
\* another request (syncSpecialLeaveHolidays, syncDeletedSpecialLeaveHoliday).
THEOREM ListedLeaveHasHoliday == Spec => []LeaveBacked
<1>1. DesksInv => LeaveBacked
  BY DesksInvWhole
<1> QED BY <1>1, DesksStaySound, PTL

\* No salary record pays an attendance row twice, for any rows and page size: however
\* punches move rows between the page requests, the server's overlap check refuses a
\* posted list that holds a row more than once.
THEOREM NoAttendanceRowPaidTwice == Spec => []NoRowPaidTwice
<1>1. DesksInv => NoRowPaidTwice
  BY DesksInvWhole DEF DesksInv, DeskInv
<1> QED BY <1>1, DesksStaySound, PTL

\* For any panels, months and request ids: a settled month is run anew only after an
\* administrator was shown that month and confirmed it, and a panel that reports
\* success names the month it asked for, whose report went out.
THEOREM RunIsConfirmedMonth == Spec => []ConfirmedMonth
<1>1. DesksInv => ConfirmedMonth
  BY DesksInvWhole
<1> QED BY <1>1, DesksStaySound, PTL

\* No settings page silently undoes a figure it had on display, for any pages and
\* figures: a write that changes a stored figure carries a value typed on that page,
\* or comes from a page that had not received the value it overwrites.
THEOREM SeenFiguresKept == Spec => SeenKept
<1>1. ASSUME DesksInv, NEW p \in SettingsPages, NEW kind \in Kinds, NEW f \in {"pay", "scan"},
             settings[p][kind].body[f] # stored[f]
      PROVE  f \in settings[p][kind].own \/ settings[p][kind].seen[f] # stored[f]
  BY <1>1, NothingSeenUndone DEF DesksInv
<1>2. DesksInv =>
        [\A p \in SettingsPages, kind \in Kinds :
           LET req == settings[p][kind] IN
           StoreSettings(p, kind) =>
             \A f \in {"pay", "scan"} :
               req.body[f] # stored[f] => f \in req.own \/ req.seen[f] # stored[f]]_settingsVars
  BY <1>1
<1> QED BY <1>2, DesksStaySound, PTL DEF SeenKept
=============================================================================
