---------------------------- MODULE AdminSession ----------------------------
(***************************************************************************)
(* Administrator sessions: login and PIN change against the PIN hash in    *)
(* the settings row, elevation to SUPER, the user_sessions table with the  *)
(* restore epoch, and what the administration page believes (useAdmin).    *)
(*                                                                         *)
(* express-session gives every request its own copy of the session and     *)
(* writes the copy back when the request ends; the store's write is an     *)
(* upsert, so it recreates a row that was deleted meanwhile.               *)
(***************************************************************************)
EXTENDS Naturals, FiniteSets, Sequences, SequencesExt

CONSTANTS Browsers,      \* browsers of administrators
          Pins,          \* PINs an administrator may choose
          Workers,       \* PIN derivations that run at a time
          QueueLimits,   \* how many may wait: each behaviour takes one of these
          MaxRequests,   \* bound: requests served
          MaxHashes      \* bound: hashes ever made (each has a fresh salt)

ASSUME SessionAssumption ==
  MaxRequests \in Nat /\ MaxHashes \in Nat /\ Pins # {} /\ Workers \in Nat \ {0} /\ QueueLimits \subseteq Nat

VARIABLES sess,          \* browser -> its row of user_sessions
          epoch,         \* payrollRestoreEpoch: the restores committed so far
          hash,          \* settings.adminPin
          salts,         \* salts used so far
          ask,           \* request -> the handler being run
          pool,          \* adminPinAuth: derivations running, requests waiting for one
          served,        \* requests begun so far
          shows,         \* browser -> what the page believes
          chosen         \* history: the PIN last chosen, or brought back by a restore

sessionVars == <<sess, epoch, hash, salts, ask, pool, served, shows, chosen>>

Requests == 1 .. MaxRequests
Hashes == [pin : Pins, weak : BOOLEAN, salt : 0 .. MaxHashes]
\* adminAuth; seen is history: the epoch in which the PIN was read.
Auth == [level : {"none", "admin", "super"}, epoch : Nat, seen : Nat]
NoAuth == [level |-> "none", epoch |-> 0, seen |-> 0]
NoAsk == [op |-> "none"]

SessionTypeOK ==
  /\ sess \in [Browsers -> Auth] /\ epoch \in Nat
  /\ hash \in Hashes /\ salts \in 0 .. MaxHashes /\ chosen \in Pins
  /\ \A r \in Requests : ask[r] = NoAsk \/
       ask[r] \in [op : {"login", "elevate", "pin", "work", "restore"},
                  at : {"start", "verify", "hash", "swap", "check", "save",
                        "load", "replace", "answer"},
                  b : Browsers, copy : Auth, epoch : Nat, seen : Nat, cred : Hashes, pin : Pins]
  /\ pool \in [active : 0 .. Workers, queued : Seq(Requests), limit : QueueLimits]
  /\ served \in 0 .. MaxRequests /\ shows \in [Browsers -> {"guest", "admin"}]

Idle(r) == ask[r].op = "none"
End(r) == ask' = [ask EXCEPT ![r] = NoAsk]
Go(r, at) == ask' = [ask EXCEPT ![r].at = at]

\* The restore-epoch middleware: a login of an older epoch is destroyed.
Outdated(b) == sess[b].level # "none" /\ sess[b].epoch # epoch
\* requireAdmin(level).
Allowed(a, level) == a.level = "super" \/ a.level = level
NeedsOf(op) == IF op \in {"pin", "restore"} THEN "super" ELSE "admin"

-----------------------------------------------------------------------------
(* A request arrives and passes, or does not pass, the two middlewares.    *)

Destroyed(b) == sess' = [sess EXCEPT ![b] = NoAuth]

\* 401 AUTH_RESTORE_CHANGED: no x-admin-session-required header, so the page
\* keeps believing it is logged in.
ArriveOutdated(b) ==
  /\ Outdated(b) /\ Destroyed(b)
  /\ UNCHANGED <<epoch, hash, salts, ask, served, shows, chosen, pool>>

\* requireAdmin answers 401 with the header, or 403: only the first clears the page.
ArriveRefused(b, op) ==
  /\ op # "login" /\ ~Outdated(b) /\ ~Allowed(sess[b], NeedsOf(op))
  /\ shows' = [shows EXCEPT ![b] = IF sess[b].level = "none" THEN "guest" ELSE @]
  /\ UNCHANGED <<sess, epoch, hash, salts, ask, served, chosen, pool>>

Arrive(r, b, op, pin) ==
  /\ r = served + 1 /\ served' = r
  /\ ~Outdated(b)
  /\ op = "login" \/ Allowed(sess[b], NeedsOf(op))
  /\ ask' = [ask EXCEPT ![r] = [op |-> op, at |-> "start", b |-> b, copy |-> sess[b],
                                epoch |-> epoch, seen |-> 0, cred |-> hash, pin |-> pin]]
  /\ UNCHANGED <<sess, epoch, hash, salts, shows, chosen, pool>>

-----------------------------------------------------------------------------
(* The pool of PIN derivations (derivePinAsync).                           *)

EmptyPool(limit) == [active |-> 0, queued |-> <<>>, limit |-> limit]
Deriving(r) == ~Idle(r) /\ ask[r].at \in {"verify", "hash"}
Runs(r) == Deriving(r) /\ ~Contains(pool.queued, r)

Full(p) == p.active >= Workers /\ Len(p.queued) >= p.limit
Entered(p, r) == IF p.active < Workers THEN [p EXCEPT !.active = @ + 1]
                                       ELSE [p EXCEPT !.queued = Append(@, r)]

\* Mutant: the place is given up, nobody waiting is started.
ReleasedAlone(p) == [p EXCEPT !.active = @ - 1]
\* release: the place passes to the first derivation that waits.
Released(p) == IF p.queued = <<>> THEN [p EXCEPT !.active = @ - 1]
                                  ELSE [p EXCEPT !.queued = Tail(@)]

\* AdminPinBusyError: 503, but a login whose PIN was right skips the upgrade.
Busy(r, at) == IF ask[r].op = "login" /\ at = "hash" THEN Go(r, "check") ELSE End(r)

\* Request r goes on, as a, with a derivation in pool p.
Derive(p, r, a) ==
  IF Full(p) THEN pool' = p /\ Busy(r, a.at)
             ELSE pool' = Entered(p, r) /\ ask' = [ask EXCEPT ![r] = a]

\* The settings row (for elevation: the environment) is read, the PIN derived.
ReadCredential(r) ==
  /\ ask[r].op \in {"login", "elevate", "pin"} /\ ask[r].at = "start"
  /\ \/ Derive(pool, r, [ask[r] EXCEPT !.at = "verify", !.cred = hash, !.seen = epoch])
     \/ End(r) /\ UNCHANGED pool
  /\ UNCHANGED <<sess, epoch, hash, salts, served, shows, chosen>>

\* The derived PIN is compared; a PIN change, or a weak hash, needs another one.
Verified(r) ==
  /\ Runs(r) /\ ask[r].at = "verify"
  /\ LET p == Released(pool)
         next == [ask[r] EXCEPT !.at = "hash"]
     IN  \/ /\ ask[r].op = "login" => ask[r].pin # ask[r].cred.pin
            /\ End(r) /\ pool' = p
         \/ /\ ask[r].op = "login" /\ ask[r].pin = ask[r].cred.pin
            /\ IF ask[r].cred.weak THEN Derive(p, r, next) ELSE Go(r, "check") /\ pool' = p
         \/ ask[r].op = "elevate" /\ Go(r, "check") /\ pool' = p
         \/ ask[r].op = "pin" /\ Derive(p, r, next)
  /\ UNCHANGED <<sess, epoch, hash, salts, served, shows, chosen>>

Hashed(r) ==
  /\ Runs(r) /\ ask[r].at = "hash"
  /\ pool' = Released(pool) /\ Go(r, "swap")
  /\ UNCHANGED <<sess, epoch, hash, salts, served, shows, chosen>>

\* The timer of a derivation that still waits.
WaitTimesOut(r) ==
  /\ \E i \in 1 .. Len(pool.queued) :
        pool.queued[i] = r /\ pool' = [pool EXCEPT !.queued = RemoveAt(@, i)]
  /\ Busy(r, ask[r].at)
  /\ UNCHANGED <<sess, epoch, hash, salts, served, shows, chosen>>

-----------------------------------------------------------------------------
(* POST /api/verify-admin.                                                 *)

FreshHash(pin) == [pin |-> pin, weak |-> FALSE, salt |-> salts + 1]

\* Mutant: the new hash is written whatever the row holds by now.
SwapPinBlind(expected, pin) ==
  /\ salts < MaxHashes /\ salts' = salts + 1
  /\ hash' = FreshHash(pin)

\* compareAndSwapAdminPin: UPDATE ... WHERE admin_pin = the hash that was read.
SwapPin(expected, pin) ==
  /\ salts < MaxHashes /\ salts' = salts + 1
  /\ hash' = IF hash = expected THEN FreshHash(pin) ELSE hash

\* A weak hash is upgraded: a changed PIN answers 409, a failing write is logged.
Rehash(r) ==
  /\ ask[r].op = "login" /\ ask[r].at = "swap"
  /\ \/ /\ SwapPin(ask[r].cred, ask[r].pin)
        /\ IF hash = ask[r].cred THEN Go(r, "check") ELSE End(r)
     \/ UNCHANGED <<hash, salts>> /\ Go(r, "check")
  /\ UNCHANGED <<sess, epoch, served, shows, chosen, pool>>

\* Mutant: the epoch read last is stored, not compared with the one on arrival.
CheckEpochAdopts(r) ==
  /\ ask[r].op = "login" /\ ask[r].at = "check"
  /\ ask' = [ask EXCEPT ![r].epoch = epoch, ![r].at = "save"]
  /\ UNCHANGED <<sess, epoch, hash, salts, served, shows, chosen, pool>>

\* createAdminSession reads the epoch again; another one than on arrival: 409.
CheckEpoch(r) ==
  /\ ask[r].op = "login" /\ ask[r].at = "check"
  /\ IF epoch = ask[r].epoch THEN Go(r, "save") ELSE End(r)
  /\ UNCHANGED <<sess, epoch, hash, salts, served, shows, chosen, pool>>

\* ... then regenerates and saves the session, and the page learns of it.
CreateAdminSession(r) ==
  /\ ask[r].op = "login" /\ ask[r].at = "save"
  /\ sess' = [sess EXCEPT ![ask[r].b] =
                [level |-> "admin", epoch |-> ask[r].epoch, seen |-> ask[r].seen]]
  /\ shows' = [shows EXCEPT ![ask[r].b] = "admin"]
  /\ End(r) /\ UNCHANGED <<epoch, hash, salts, served, chosen, pool>>

-----------------------------------------------------------------------------
(* Elevation, PIN change and ordinary administration requests.             *)

\* promoteAdminSession reads the epoch once more.
ElevateCheck(r) ==
  /\ ask[r].op = "elevate" /\ ask[r].at = "check"
  /\ IF ask[r].copy.epoch = epoch THEN Go(r, "save") ELSE End(r)
  /\ UNCHANGED <<sess, epoch, hash, salts, served, shows, chosen, pool>>

PromoteAdminSession(r) ==
  /\ ask[r].op = "elevate" /\ ask[r].at = "save"
  /\ sess' = [sess EXCEPT ![ask[r].b] = [ask[r].copy EXCEPT !.level = "super"]]
  /\ shows' = [shows EXCEPT ![ask[r].b] = "admin"]
  /\ End(r) /\ UNCHANGED <<epoch, hash, salts, served, chosen, pool>>

\* POST /api/update-admin-pin, once the old PIN is verified and the new one hashed.
PinSwap(r) ==
  /\ ask[r].op = "pin" /\ ask[r].at = "swap"
  /\ SwapPin(ask[r].cred, ask[r].pin)
  /\ chosen' = IF hash = ask[r].cred THEN ask[r].pin ELSE chosen
  /\ sess' = [sess EXCEPT ![ask[r].b] = ask[r].copy]
  /\ End(r) /\ UNCHANGED <<epoch, served, shows, pool>>

\* Any other request ends: touchAdminSession changed the copy, so it is saved.
WorkDone(r) ==
  /\ ask[r].op = "work"
  /\ sess' = [sess EXCEPT ![ask[r].b] = ask[r].copy]
  /\ End(r) /\ UNCHANGED <<epoch, hash, salts, served, shows, chosen, pool>>

-----------------------------------------------------------------------------
(* The page: heartbeat, logout, reload; expiry of a session row.           *)

\* refreshActiveSession: a refusal is only logged, "no administrator" clears.
Heartbeat(b) ==
  /\ shows[b] = "admin"
  /\ IF Outdated(b)
       THEN Destroyed(b) /\ UNCHANGED shows
       ELSE /\ UNCHANGED sess
            /\ shows' = [shows EXCEPT ![b] = IF sess[b].level = "none" THEN "guest" ELSE "admin"]
  /\ UNCHANGED <<epoch, hash, salts, ask, served, chosen, pool>>

\* logout, by hand or after idling; the page forgets even if the request fails.
Logout(b) ==
  /\ shows[b] = "admin"
  /\ shows' = [shows EXCEPT ![b] = "guest"]
  /\ Destroyed(b) \/ UNCHANGED sess
  /\ UNCHANGED <<epoch, hash, salts, ask, served, chosen, pool>>

\* syncAdminSession when the page loads; a refusal clears the page too.
Reload(b) ==
  /\ shows' = [shows EXCEPT ![b] =
                 IF Outdated(b) \/ sess[b].level = "none" THEN "guest" ELSE "admin"]
  /\ IF Outdated(b) THEN Destroyed(b) ELSE UNCHANGED sess
  /\ UNCHANGED <<epoch, hash, salts, ask, served, chosen, pool>>

SessionExpires(b) ==
  /\ sess[b].level # "none" /\ Destroyed(b)
  /\ UNCHANGED <<epoch, hash, salts, ask, served, shows, chosen, pool>>

Arrivals ==
  \E b \in Browsers :
    \/ ArriveOutdated(b)
    \/ \E op \in {"elevate", "pin", "work", "restore"} : ArriveRefused(b, op)
    \/ \E r \in Requests, p \in Pins : \/ Arrive(r, b, "login", p)
                                       \/ Arrive(r, b, "pin", p)
    \/ \E r \in Requests, op \in {"elevate", "work"} : Arrive(r, b, op, hash.pin)

Handlers ==
  \E r \in Requests :
    \/ ReadCredential(r) \/ Verified(r) \/ Hashed(r) \/ WaitTimesOut(r)
    \/ Rehash(r) \/ CheckEpoch(r) \/ CreateAdminSession(r)
    \/ ElevateCheck(r) \/ PromoteAdminSession(r) \/ PinSwap(r) \/ WorkDone(r)

Pages == \E b \in Browsers : Heartbeat(b) \/ Logout(b) \/ Reload(b) \/ SessionExpires(b)

SessionNext == Arrivals \/ Handlers \/ Pages
=============================================================================
