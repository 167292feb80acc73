------------------------------ MODULE KioskScan ------------------------------
(***************************************************************************)
(* The barcode channels POST /api/barcode-scan and POST /api/raspberry-scan *)
(* for one employee.  A scan request looks the employee up and reads which  *)
(* action is pending without a lock, then passes the two-second duplicate   *)
(* guard and takes the time, and only then writes under the employee's      *)
(* advisory lock.  Anything may happen in between, a restart included.      *)
(***************************************************************************)
EXTENDS Attendance

CONSTANTS
    Scans,        \* scan requests that may be in progress at the same time
    DedupTicks,   \* the guard's window
    MaxScans      \* bound: scans that reach the upsert

ASSUME ScanBoundsAssumption == DedupTicks \in Nat /\ MaxScans \in Nat

VARIABLES
    scan,       \* per request: where it is and what it has decided
    lastScan,   \* ScanDedupGuard.recentScans: time of the last scan per action
    punched     \* scans that wrote attendance so far

kioskVars == <<scan, lastScan, punched>>

Actions == {"clockIn", "clockOut"}
NoScan == -1

ScanStates == [at : {"idle", "decided", "stamped"}, expected : Actions,
               date : Dates, time : TimesOfDay]
IdleScan == [at |-> "idle", expected |-> "clockIn", date |-> 0, time |-> 0]
Decided(action) == [at |-> "decided", expected |-> action, date |-> 0, time |-> 0]
Stamped(action, t) ==
    [at |-> "stamped", expected |-> action, date |-> DateOf(t), time |-> TimeOf(t)]

(* findEmployee, the active check and getPendingAction.  A failed query of  *)
(* the day's rows is answered with no rows.                                 *)
ReadPending(k) ==
    /\ scan[k].at = "idle" /\ account \in {"active", "unbound"} /\ punched < MaxScans
    /\ \E R \in {RowsOn(DateOf(now)), {}} :
          scan' = [scan EXCEPT ![k] = Decided(PendingAction(R))]
    /\ UNCHANGED <<attendanceVars, lastScan, punched>>

(* ScanDedupGuard.tryAcquire refuses a second scan for the same action.     *)
TooSoon(action) == lastScan[action] # NoScan /\ now - lastScan[action] < DedupTicks

RefuseTooSoon(k) ==
    /\ scan[k].at = "decided" /\ TooSoon(scan[k].expected)
    /\ scan' = [scan EXCEPT ![k] = IdleScan]
    /\ UNCHANGED <<attendanceVars, lastScan, punched>>

(* The guard is taken, the scan is stamped with the current date and time,  *)
(* and expired guard entries are dropped.                                   *)
AcquireAndStamp(k) ==
    /\ scan[k].at = "decided" /\ ~TooSoon(scan[k].expected)
    /\ lastScan' = [a \in Actions |->
          IF a = scan[k].expected THEN now ELSE IF TooSoon(a) THEN lastScan[a] ELSE NoScan]
    /\ scan' = [scan EXCEPT ![k] = Stamped(scan[k].expected, now)]
    /\ UNCHANGED <<attendanceVars, punched>>

(* Mutant body: the action decided without the lock is carried out.         *)
UpsertScanUnlocked(k) ==
    /\ scan[k].at = "stamped" /\ xid < MaxWrites
    /\ rows' = AfterPunch(IF scan[k].expected = "clockIn" THEN {} ELSE RowsOn(scan[k].date),
                          scan[k].date, scan[k].time)
    /\ xid' = xid + 1
    /\ punched' = punched + 1
    /\ scan' = [scan EXCEPT ![k] = IdleScan]
    /\ UNCHANGED <<now, account, lastScan>>

(* upsertTemporaryAttendanceScan under the advisory lock: write only if the *)
(* action decided without the lock is still the pending one.                *)
UpsertStale(k) ==
    /\ scan[k].at = "stamped"
    /\ PendingAction(RowsOn(scan[k].date)) # scan[k].expected
    /\ scan' = [scan EXCEPT ![k] = IdleScan]
    /\ UNCHANGED <<attendanceVars, lastScan, punched>>

UpsertScan(k) ==
    /\ scan[k].at = "stamped" /\ xid < MaxWrites
    /\ PendingAction(RowsOn(scan[k].date)) = scan[k].expected
    /\ rows' = AfterPunch(RowsOn(scan[k].date), scan[k].date, scan[k].time)
    /\ xid' = xid + 1
    /\ punched' = punched + 1
    /\ scan' = [scan EXCEPT ![k] = IdleScan]
    /\ UNCHANGED <<now, account, lastScan>>

(* The upsert fails: the request ends, the guard entry stays.               *)
UpsertFails(k) ==
    /\ scan[k].at = "stamped"
    /\ scan' = [scan EXCEPT ![k] = IdleScan]
    /\ UNCHANGED <<attendanceVars, lastScan, punched>>

(* A restart ends every request in progress and empties the guard.          *)
Restart ==
    /\ scan' = [k \in Scans |-> IdleScan]
    /\ lastScan' = [a \in Actions |-> NoScan]
    /\ UNCHANGED <<attendanceVars, punched>>

KioskInit ==
    /\ scan = [k \in Scans |-> IdleScan]
    /\ lastScan = [a \in Actions |-> NoScan]
    /\ punched = 0

KioskNext ==
    \/ \E k \in Scans :
          \/ ReadPending(k) \/ RefuseTooSoon(k) \/ AcquireAndStamp(k)
          \/ UpsertStale(k) \/ UpsertScan(k) \/ UpsertFails(k)
    \/ Restart

KioskTypeOK ==
    /\ scan \in [Scans -> ScanStates]
    /\ lastScan \in [Actions -> Nat \cup {NoScan}]
    /\ punched \in Nat
=============================================================================
