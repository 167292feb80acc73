---------------------------- MODULE ScanStations ----------------------------
(***************************************************************************)
(* The two barcode stations in front of one server: the Raspberry Pi       *)
(* terminal (PiScanner) and the kiosk page (useBarcodeScanner), which may  *)
(* post scans while its browser session holds an administrator login or a  *)
(* scan access opened with a one-time unlock token.  Unlock requests may   *)
(* be delivered again.  The kiosk runs in production, where access is      *)
(* required; an unlock request carries its page's own challenge.  The      *)
(* stations share only the setting that enables them, so a behaviour       *)
(* follows one of them.                                                    *)
(***************************************************************************)
EXTENDS PiScanner

CONSTANTS TokenTicks,    \* SCAN_UNLOCK_TOKEN_TTL_MS
          AccessTicks,   \* getScanAccessTimeoutMs
          MaxTokens,     \* bound: tokens issued
          MaxClock       \* bound: the clock

ASSUME KioskAssumption == {TokenTicks, AccessTicks, MaxTokens, MaxClock} \subseteq Nat

VARIABLES
  station,   \* the station that the behaviour follows
  clock,
  admin,     \* the browser session holds an administrator login
  access,    \* scanAccess.expiresAt of the browser session, 0 = none
  isAdmin,   \* useAdmin: what the page believes of the login
  used,      \* usedScanUnlockTokenNonces, with each token's expiry
  posted,    \* unlock requests sent; the network may deliver one again
  issued,    \* tokens issued so far
  page,      \* the kiosk page
  opened     \* history: token -> accesses it opened in this life of the server

kioskVars == <<station, clock, admin, access, isAdmin, used, posted, issued, page, opened>>
vars == <<piVars, kioskVars>>

Tokens == [nonce : 1 .. MaxTokens, expires : Nat]
\* What scanSession says, the scan being submitted, the unlock being tried.
PageStates == [view : {"none", "locked", "open"}, dialog : BOOLEAN,
               scan : {"none", "sent", "locked", "answered"},
               unlock : {"none", "token", "unlock"}]

TypeOK ==
  /\ PiTypeOK /\ station \in {"pi", "kiosk"}
  /\ clock \in 0 .. MaxClock /\ admin \in BOOLEAN /\ access \in Nat /\ isAdmin \in BOOLEAN
  /\ used \subseteq Tokens /\ posted \subseteq Tokens /\ issued \in 0 .. MaxTokens
  /\ page \in PageStates /\ opened \in [1 .. MaxTokens -> 0 .. 2]

\* hasUnlockedBrowserScanAccess.
Unlocked == access > clock \/ admin
\* buildScanSessionPayload.
Shown == IF Unlocked THEN "open" ELSE "locked"

-----------------------------------------------------------------------------
(* A scan at the kiosk.                                                    *)

\* handleSubmit; a page that knows it is locked opens the dialog instead.
SubmitScan ==
  /\ page.scan = "none"
  /\ page' = IF page.view = "locked" THEN [page EXCEPT !.dialog = TRUE]
             ELSE [page EXCEPT !.scan = "sent"]
  /\ UNCHANGED <<piVars, station, clock, admin, access, isAdmin, used, posted, issued, opened>>

\* POST /api/barcode-scan: 401 without access, else any other answer.
ServeScan ==
  /\ page.scan = "sent"
  /\ page' = [page EXCEPT !.scan = IF enabled /\ ~Unlocked THEN "locked" ELSE "answered"]
  /\ UNCHANGED <<piVars, station, clock, admin, access, isAdmin, used, posted, issued, opened>>

\* refreshScanSession; an error of any kind forgets the session.
Refreshed == {"none"} \cup IF enabled THEN {Shown} ELSE {}

\* 401 with x-scan-session-required: refresh, then ask for the PIN.
ScanRefused ==
  /\ page.scan = "locked"
  /\ \E v \in Refreshed : page' = [page EXCEPT !.scan = "none", !.view = v, !.dialog = TRUE]
  /\ UNCHANGED <<piVars, station, clock, admin, access, isAdmin, used, posted, issued, opened>>

\* Any other answer, or none, is shown and the page takes the next scan.
ScanEnds ==
  /\ page.scan \in {"sent", "answered"} /\ page' = [page EXCEPT !.scan = "none"]
  /\ UNCHANGED <<piVars, station, clock, admin, access, isAdmin, used, posted, issued, opened>>

\* The page is loaded anew and asks for its session and its login.
LoadPage ==
  /\ \E v \in Refreshed :
       page' = [view |-> v, dialog |-> FALSE, scan |-> "none", unlock |-> "none"]
  /\ isAdmin' = admin
  /\ UNCHANGED <<piVars, station, clock, admin, access, used, posted, issued, opened>>

-----------------------------------------------------------------------------
(* Unlocking.                                                              *)

\* unlockScanSession: a page that believes it is logged in skips the PIN.  The
\* login regenerates the session, which loses an old scan access.
EnterPin ==
  /\ page.dialog /\ page.unlock = "none"
  /\ page' = [page EXCEPT !.unlock = "token"]
  /\ IF isAdmin THEN UNCHANGED <<admin, access, isAdmin>>
     ELSE admin' = TRUE /\ isAdmin' = TRUE /\ access' = 0
  /\ UNCHANGED <<piVars, station, clock, used, posted, issued, opened>>

\* POST /api/scan/session/token, and the unlock request with the token.
RequestToken ==
  /\ page.unlock = "token" /\ enabled /\ admin /\ issued < MaxTokens
  /\ issued' = issued + 1
  /\ posted' = posted \cup {[nonce |-> issued', expires |-> clock + TokenTicks]}
  /\ page' = [page EXCEPT !.unlock = "unlock"]
  /\ UNCHANGED <<piVars, station, clock, admin, access, isAdmin, used, opened>>

\* The wrong PIN, no login, no token, or no unlock: a toast, the dialog stays.
UnlockFails ==
  /\ page.unlock # "none" /\ page' = [page EXCEPT !.unlock = "none"]
  /\ UNCHANGED <<piVars, station, clock, admin, access, isAdmin, used, posted, issued, opened>>

\* Mutant: a token is still good at the moment it expires.
ExpiredAfter(t) == t.expires < clock
Expired(t) == t.expires <= clock

\* consumeScanUnlockTokenNonce drops the expired nonces first.
CanConsume(t) == ~Expired(t) /\ t \notin {u \in used : u.expires > clock}

\* POST /api/scan/session/unlock: nothing to do for a browser with access.
ServeUnlock(t) ==
  /\ enabled
  /\ used' = IF Unlocked THEN used
             ELSE {u \in used : u.expires > clock} \cup IF CanConsume(t) THEN {t} ELSE {}
  /\ IF ~Unlocked /\ CanConsume(t)
       THEN /\ access' = clock + AccessTicks
            /\ opened' = [opened EXCEPT ![t.nonce] = IF @ = 2 THEN 2 ELSE @ + 1]
       ELSE UNCHANGED <<access, opened>>

\* The page hears the answer: a success closes the dialog.
UnlockAnswered ==
  /\ page.unlock = "unlock"
  /\ \E t \in posted :
       /\ t.nonce = issued /\ ServeUnlock(t)
       /\ page' = IF Unlocked \/ CanConsume(t)
            THEN [page EXCEPT !.unlock = "none", !.dialog = FALSE, !.view = "open"]
            ELSE [page EXCEPT !.unlock = "none"]
  /\ UNCHANGED <<piVars, station, clock, admin, isAdmin, posted, issued>>

\* A request is served whose answer nobody waits for: late, or delivered again.
UnlockAgain(t) ==
  /\ t \in posted /\ ServeUnlock(t)
  /\ UNCHANGED <<piVars, station, clock, admin, isAdmin, posted, issued, page>>

\* lockScanSession: the page shows what the answer says of the session.
ViewLocked == IF admin THEN "open" ELSE "locked"

\* POST /api/scan/session/lock; the button shows only with a scan access.
LockStation ==
  /\ page.view = "open" /\ access > clock /\ enabled
  /\ access' = 0
  /\ page' = [page EXCEPT !.view = ViewLocked]
  /\ UNCHANGED <<piVars, station, clock, admin, isAdmin, used, posted, issued, opened>>

CloseDialog ==
  /\ page.dialog /\ page' = [page EXCEPT !.dialog = FALSE]
  /\ UNCHANGED <<piVars, station, clock, admin, access, isAdmin, used, posted, issued, opened>>

-----------------------------------------------------------------------------
(* The rest of the browser session and of the server.                      *)

\* Logout in another tab, a restore, or the session row runs out.
SessionEnds ==
  /\ admin \/ access # 0
  /\ admin' = FALSE /\ access' = 0
  /\ UNCHANGED <<piVars, station, clock, isAdmin, used, posted, issued, page, opened>>

\* Mutant: the page keeps believing in its login.
AdminViewKept ==
  /\ isAdmin /\ ~admin /\ UNCHANGED vars

\* useAdmin's heartbeat or idle timer notices that the login is gone.
AdminViewEnds ==
  /\ isAdmin /\ ~admin /\ isAdmin' = FALSE
  /\ UNCHANGED <<piVars, station, clock, admin, access, used, posted, issued, page, opened>>

\* A new server process knows of no used nonce.
ServerRestart ==
  /\ used # {}
  /\ used' = {} /\ opened' = [n \in 1 .. MaxTokens |-> 0]
  /\ UNCHANGED <<piVars, station, clock, admin, access, isAdmin, posted, issued, page>>

Tick ==
  /\ clock < MaxClock /\ clock' = clock + 1
  /\ UNCHANGED <<piVars, station, admin, access, isAdmin, used, posted, issued, page, opened>>

Init ==
  /\ PiInit /\ station \in {"pi", "kiosk"}
  /\ clock = 0 /\ admin = FALSE /\ access = 0 /\ isAdmin = FALSE
  /\ used = {} /\ posted = {} /\ issued = 0 /\ opened = [n \in 1 .. MaxTokens |-> 0]
  /\ page = [view |-> "locked", dialog |-> FALSE, scan |-> "none", unlock |-> "none"]

KioskNext ==
  \/ SubmitScan \/ ServeScan \/ ScanRefused \/ ScanEnds \/ LoadPage
  \/ EnterPin \/ RequestToken \/ UnlockFails \/ UnlockAnswered \/ LockStation \/ CloseDialog
  \/ \E t \in posted : UnlockAgain(t)
  \/ SessionEnds \/ AdminViewEnds \/ ServerRestart \/ Tick

Next ==
  \/ station = "pi" /\ PiNext /\ UNCHANGED kioskVars
  \/ station = "kiosk" /\ KioskNext
  \/ ToggleBarcode /\ UNCHANGED kioskVars

Spec == Init /\ [][Next]_vars

PiDoes(A) == station = "pi" /\ A

(* The thread goes on, requests end, and a server that is asked for a swipe *)
(* of an active employee again and again sometimes records it and is heard. *)
PiFairness ==
  /\ WF_piVars(PiDoes(PiStep)) /\ WF_piVars(PiDoes(CachedAnswer \/ CachedFails))
  /\ WF_piVars(PiDoes(QueuedAnswer \/ QueuedFails))
  /\ \A s \in Known :
       /\ SF_piVars(PiDoes(ServerRecords(s)))
       /\ SF_piVars(PiDoes(CachedAnswer /\ post.swipe = s /\ post.at = "recorded"))

(* Requests end, the administrator at an open dialog tries again, and one   *)
(* who keeps trying gets an answer now and then; the login is looked at     *)
(* every minute.  A restart, a lock, a logout or a new scan need not happen. *)
KioskDoes(A) == station = "kiosk" /\ A
KioskFairness ==
  /\ WF_vars(KioskDoes(EnterPin)) /\ WF_vars(KioskDoes(UnlockFails))
  /\ WF_vars(KioskDoes(AdminViewEnds))
  /\ SF_vars(KioskDoes(RequestToken)) /\ SF_vars(KioskDoes(UnlockAnswered))

FairSpec == Spec /\ PiFairness /\ KioskFairness

-----------------------------------------------------------------------------
(* An unlock token opens at most one scan access in a life of the server:   *)
(* its nonce is forgotten no sooner than the token runs out, however often  *)
(* the request is delivered (consumeScanUnlockTokenNonce).                  *)
UnlockOnce == \A n \in 1 .. MaxTokens : opened[n] <= 1

(* While barcode punching stays enabled, an administrator who keeps trying  *)
(* unlocks the station in the end, or closes the dialog: a page that        *)
(* believes in a login that is gone does not skip the PIN for ever          *)
(* (unlockScanSession).                                                     *)
KioskUnlocks == <>[]enabled => (page.dialog ~> (~page.dialog \/ issued = MaxTokens))
=============================================================================
