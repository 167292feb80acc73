----------------------------- MODULE SettingsDesk -----------------------------
(***************************************************************************)
(* The settings row and the settings pages of several administrators.  A   *)
(* page fills one form from its cached copy of the row; saving the pay     *)
(* figures and switching the barcode scanner both post the whole form, and *)
(* the row keeps no revision.                                              *)
(***************************************************************************)
EXTENDS Integers

CONSTANTS SettingsPages,  \* the open settings pages
          MaxTyped,       \* bound: figures typed
          MaxStores       \* bound: writes of the row

ASSUME SettingsAssumption == MaxTyped \in Nat /\ MaxStores \in Nat

VARIABLES stored,   \* the settings row; rev numbers its writes
          settings, \* page -> its form, its query and its requests
          typed     \* the last figure typed: every figure typed is a new one

settingsVars == <<stored, settings, typed>>

\* The pay figures as one value, barcode_enabled, and the number of the write.
SettingsRow == [pay : Nat, scan : BOOLEAN, rev : Nat]

\* DEFAULT_CONFIG, which a page shows until the row has arrived.
Defaults == [pay |-> 0, scan |-> TRUE, rev |-> 0]
Form(row) == [pay |-> row.pay, scan |-> row.scan]

NoRequest == [at |-> "none", body |-> Form(Defaults), seen |-> Defaults, own |-> {}, rev |-> 0]

\* A mounted page asks for the row.  History: own are the fields changed by hand
\* since the form was filled, wrote the page's newest acknowledged write.
FreshPage ==
  [cached |-> Defaults, form |-> Form(Defaults), unsaved |-> FALSE,
   fetch |-> [at |-> "asked", row |-> Defaults], failed |-> FALSE,
   save |-> NoRequest, toggle |-> NoRequest, own |-> {}, wrote |-> 0]

SettingsInit ==
  /\ stored = [pay |-> 1, scan |-> TRUE, rev |-> 1] /\ typed = 1
  /\ settings = [p \in SettingsPages |-> FreshPage]

Becomes(p, page) == settings' = [settings EXCEPT ![p] = page]

-----------------------------------------------------------------------------
(* The query: TanStack keeps equal data, and with it the filled form.      *)

\* Mutant: the effect leaves the switch as it is.
FilledPayOnly(pg, row) ==
  [pg EXCEPT !.cached = row, !.form.pay = row.pay, !.unsaved = FALSE, !.own = {}]

\* The effect on [settings]: a changed answer refills the form.
Filled(pg, row) ==
  IF pg.cached.rev > 0 /\ Form(pg.cached) = Form(row) THEN [pg EXCEPT !.cached = row]
  ELSE [pg EXCEPT !.cached = row, !.form = Form(row), !.unsaved = FALSE, !.own = {}]

\* GET /api/settings/admin.
ServeSettings(p) ==
  /\ settings[p].fetch.at = "asked"
  /\ settings' = [settings EXCEPT ![p].fetch = [at |-> "answered", row |-> stored]]
  /\ UNCHANGED <<stored, typed>>

SettingsArrive(p) ==
  /\ settings[p].fetch.at = "answered"
  /\ Becomes(p, [Filled(settings[p], settings[p].fetch.row) EXCEPT
                   !.fetch = [at |-> "none", row |-> Defaults], !.failed = FALSE])
  /\ UNCHANGED <<stored, typed>>

\* retry is off: the page keeps what it has.
FetchFails(p) ==
  /\ settings[p].fetch.at = "asked"
  /\ settings' = [settings EXCEPT ![p].fetch = [at |-> "none", row |-> Defaults], ![p].failed = TRUE]
  /\ UNCHANGED <<stored, typed>>

\* Mutant: a fetch under way is joined although the page has data.
InvalidatedJoins(pg) ==
  IF pg.fetch.at # "none" THEN pg
  ELSE [pg EXCEPT !.fetch = [at |-> "asked", row |-> Defaults]]

\* invalidateQueries starts over, but joins the very first fetch.
Invalidated(pg) ==
  IF pg.fetch.at # "none" /\ pg.cached.rev = 0 THEN pg
  ELSE [pg EXCEPT !.fetch = [at |-> "asked", row |-> Defaults]]

-----------------------------------------------------------------------------
(* The page.                                                               *)

Unsaved(pg) == pg.cached.rev > 0 /\ pg.form.pay # pg.cached.pay

TypeFigure(p) ==
  /\ typed < MaxTyped + 1 /\ typed' = typed + 1
  /\ LET pg == [settings[p] EXCEPT !.form.pay = typed + 1, !.own = @ \cup {"pay"}]
     IN  Becomes(p, [pg EXCEPT !.unsaved = Unsaved(pg)])
  /\ UNCHANGED stored

Request(pg, body, own) ==
  [at |-> "sent", body |-> body, seen |-> pg.cached, own |-> own, rev |-> 0]

\* handleSaveSettings, whose button wants unsaved changes.
SaveSettings(p) ==
  LET pg == settings[p] IN
  /\ pg.unsaved /\ pg.save.at = "none"
  /\ Becomes(p, [pg EXCEPT !.save = Request(pg, pg.form, pg.own)])
  /\ UNCHANGED <<stored, typed>>

\* handleDisableBarcode and handleEnableBarcode, offered before any answer has come.
ToggleBarcode(p) ==
  LET pg == settings[p] IN
  /\ pg.toggle.at = "none"
  /\ Becomes(p, [pg EXCEPT !.toggle =
                   Request(pg, [pg.form EXCEPT !.scan = ~@], pg.own \cup {"scan"})])
  /\ UNCHANGED <<stored, typed>>

Kinds == {"save", "toggle"}

\* createOrUpdateSettings: every column of the row.
Written(body) == [pay |-> body.pay, scan |-> body.scan, rev |-> stored.rev + 1]

\* POST /api/settings: one UPDATE of every column.  The answer is an error if the
\* encryption that follows a switch-off fails, or if it is lost; a browser that was
\* offline posts the form again (apiRequest).
StoreSettings(p, kind) ==
  LET req == settings[p][kind] IN
  /\ req.at = "sent" /\ stored.rev <= MaxStores
  /\ stored' = Written(req.body)
  /\ \E answer \in {"ok", "error", "sent"} :
       settings' = [settings EXCEPT ![p][kind].at = answer, ![p][kind].rev = stored.rev + 1]
  /\ UNCHANGED typed

RequestFails(p, kind) ==
  /\ settings[p][kind].at = "sent"
  /\ settings' = [settings EXCEPT ![p][kind].at = "error"]
  /\ UNCHANGED <<stored, typed>>

\* What an acknowledged write leaves: the query is invalidated either way.
Acknowledged(pg, rev) ==
  [Invalidated(pg) EXCEPT !.wrote = IF pg.cached.rev > 0 /\ rev > @ THEN rev ELSE @]

SaveAnswered(p) ==
  LET pg == settings[p] IN
  /\ pg.save.at \in {"ok", "error"}
  /\ Becomes(p, IF pg.save.at = "error" THEN [pg EXCEPT !.save = NoRequest]
                ELSE [Acknowledged(pg, pg.save.rev) EXCEPT
                        !.save = NoRequest, !.unsaved = FALSE])
  /\ UNCHANGED <<stored, typed>>

ToggleAnswered(p) ==
  LET pg == settings[p] IN
  /\ pg.toggle.at \in {"ok", "error"}
  /\ Becomes(p, IF pg.toggle.at = "error" THEN [pg EXCEPT !.toggle = NoRequest]
                ELSE [Acknowledged(pg, pg.toggle.rev) EXCEPT !.toggle = NoRequest,
                        !.form.scan = pg.toggle.body.scan, !.own = @ \cup {"scan"}])
  /\ UNCHANGED <<stored, typed>>

\* The page is left and opened again with nothing under way.
ReopenSettings(p) ==
  /\ settings[p].save.at = "none" /\ settings[p].toggle.at = "none"
  /\ Becomes(p, FreshPage) /\ UNCHANGED <<stored, typed>>

SettingsNext ==
  \E p \in SettingsPages :
    \/ ServeSettings(p) \/ SettingsArrive(p) \/ FetchFails(p)
    \/ TypeFigure(p) \/ SaveSettings(p) \/ ToggleBarcode(p)
    \/ SaveAnswered(p) \/ ToggleAnswered(p) \/ ReopenSettings(p)
    \/ \E kind \in Kinds : StoreSettings(p, kind) \/ RequestFails(p, kind)

-----------------------------------------------------------------------------
(* Properties.                                                             *)

SettingsTypeOK ==
  /\ stored \in SettingsRow /\ stored.pay <= typed /\ stored.rev \in 1 .. MaxStores + 1
  /\ \A p \in SettingsPages :
       /\ settings[p].unsaved \in BOOLEAN /\ (settings[p].unsaved => Unsaved(settings[p]))
       /\ settings[p].own \subseteq {"pay", "scan"}
       /\ settings[p].cached.rev <= stored.rev /\ settings[p].wrote <= stored.rev
       /\ \A kind \in Kinds : settings[p][kind].at \in {"none", "sent", "ok", "error"}

\* A page at rest shows the row at least as new as the last write it was told of,
\* whichever fetch was under way when the answer came: the invalidation after a
\* save or a switch never leaves an older copy behind.  Writes acknowledged before
\* the page had loaded anything are not covered: they join the first fetch.
OwnWriteShown ==
  \A p \in SettingsPages :
    settings[p].fetch.at = "none" /\ ~settings[p].failed
      => settings[p].cached.rev >= settings[p].wrote

\* A page never silently undoes a figure it had on display: a write that changes
\* the stored pay figures or the switch carries a value changed by hand on that
\* page since the form was filled, or comes from a page that had not received the
\* value it overwrites.  Switching the scanner posts the pay figures too.
SeenKept ==
  [][\A p \in SettingsPages, kind \in Kinds :
       LET req == settings[p][kind] IN
       StoreSettings(p, kind) =>
         \A f \in {"pay", "scan"} :
           req.body[f] # stored[f] => f \in req.own \/ req.seen[f] # stored[f]]_settingsVars
=============================================================================
