------------------------------- MODULE Backup -------------------------------
(***************************************************************************)
(* Backup files and restore (db-monitoring.ts, dashboard-routes.ts) over   *)
(* the authoritative tables, composed with the administrator sessions that *)
(* a restore ends.                                                         *)
(*                                                                         *)
(* The tables are abstracted to one employee, one kind of row per check of *)
(* inspectNormalizedBackupPayload, and the ids of salary records, which    *)
(* the correction journal keeps after the record is gone.  A backup is a   *)
(* REPEATABLE READ snapshot and a restore locks every table it replaces,   *)
(* so both see and leave one state of the tables.                          *)
(***************************************************************************)
EXTENDS AdminSession

CONSTANTS MaxId,         \* bound: ids of salary records
          Events,        \* event ids of LINE punches
          CloudRun,      \* isCloudRunMode: no background services, no clean-up
          Keep,          \* MAX_BACKUPS_PER_CATEGORY
          MaxFiles,      \* bound: backup files ever written
          MaxWrites,     \* bound: writes by the rest of the program
          MaxAttempts    \* RESTORE_TRANSACTION_MAX_ATTEMPTS

ASSUME BackupAssumption ==
  /\ MaxId \in Nat /\ CloudRun \in BOOLEAN
  /\ Keep \in Nat \ {0} /\ MaxFiles \in Nat /\ MaxWrites \in Nat /\ MaxAttempts \in Nat \ {0}

VARIABLES data,          \* the authoritative tables, the PIN hash aside
          seq,           \* the serial sequence of salary_records
          files,         \* file number -> its kind and payload, or NoFile
          written,       \* number of the newest file
          due,           \* a daily backup is due
          job,           \* request slot -> the restore being run
          making,        \* a holiday is stored, its attendance row not yet
          paused,        \* PAYROLL_WRITES_PAUSED
          writes,        \* writes so far
          used,          \* history: ids salary records were created with
          torn           \* history: holiday rows were deleted under an attendance row

backupVars == <<data, seq, files, written, due, job, making, paused, writes, used, torn>>
vars == <<sessionVars, backupVars>>

Ids == 1 .. MaxId
Revisions == 0 .. MaxWrites
Tables == [emp : {"current", "binned", "purged"}, line : BOOLEAN, pending : BOOLEAN,
           holiday : BOOLEAN, leave : BOOLEAN, receipts : SUBSET Events,
           recs : SUBSET (Ids \X Revisions), journal : SUBSET (Ids \X Revisions)]
Payload == [tables : Tables, hash : Hashes]
NoFile == [kind |-> "none"]
FileIds == 1 .. MaxFiles
NoJob == [tries |-> 0]
Live == [tables |-> data, hash |-> hash]

TypeOK ==
  /\ SessionTypeOK
  /\ data \in Tables /\ seq \in Nat /\ written \in 0 .. MaxFiles
  /\ \A f \in FileIds : files[f] = NoFile \/
       /\ files[f].kind \in {"manual", "daily"} /\ files[f].payload \in Payload
  /\ due \in BOOLEAN /\ making \in BOOLEAN /\ paused \in BOOLEAN /\ torn \in BOOLEAN
  /\ writes \in 0 .. MaxWrites /\ used \subseteq Ids
  /\ \A r \in Requests : job[r] = NoJob \/ job[r].tries \in 0 .. MaxAttempts

-----------------------------------------------------------------------------
(* inspectNormalizedBackupPayload, one conjunct per check that the rows of *)
(* this model can fail.                                                    *)

LifecycleOK(t) == t.emp = "binned" => ~t.line /\ ~t.pending
ReferencesOK(t) ==
  /\ t.emp = "purged" => ~t.line /\ ~t.pending /\ ~t.holiday /\ ~t.leave /\ t.receipts = {}
  /\ t.leave => t.holiday
\* No id twice, and no correction newer than the record it corrects.
JournalOK(t) ==
  /\ \A p, q \in t.recs : p[1] = q[1] => p = q
  /\ \A c \in t.journal, p \in t.recs : c[1] = p[1] => c[2] <= p[2]
Inspect(t) == LifecycleOK(t) /\ ReferencesOK(t) /\ JournalOK(t)

\* restorePreflightForSnapshot: the receipts on file may not change or vanish ...
ReceiptsSafe(t, live) == live.receipts \subseteq t.receipts
\* ... and replaced corrections have to be confirmed.
NeedsConfirmation(t, live) == ~(live.journal \subseteq t.journal)
Token(f, payload, live) == [file |-> f, payload |-> payload, live |-> live]

-----------------------------------------------------------------------------
(* createDatabaseBackup and cleanupOldBackups.                             *)

OfKind(fs, k) == {f \in FileIds : fs[f] # NoFile /\ fs[f].kind = k}
\* The Keep newest files of the directory stay.
Cleaned(fs, k) ==
  [f \in FileIds |->
     IF f \in OfKind(fs, k) /\ Cardinality({g \in OfKind(fs, k) : g > f}) >= Keep
       THEN NoFile ELSE fs[f]]

CreateDatabaseBackup(k) ==
  /\ Inspect(data) /\ written < MaxFiles
  /\ LET added == [files EXCEPT ![written + 1] = [kind |-> k, payload |-> Live]]
     IN files' = IF CloudRun THEN added ELSE Cleaned(added, k)
  /\ written' = written + 1

\* runAutomaticBackupCycle: a failure is logged and tried again the next hour.
DailyBackup ==
  /\ ~CloudRun /\ due /\ CreateDatabaseBackup("daily") /\ due' = FALSE
  /\ UNCHANGED <<sessionVars, data, seq, job, making, paused, writes, used, torn>>
DayPasses ==
  /\ ~CloudRun /\ ~due /\ due' = TRUE /\ writes < MaxWrites /\ writes' = writes + 1
  /\ UNCHANGED <<sessionVars, data, seq, files, written, job, making, paused, used, torn>>

\* POST and DELETE /api/dashboard/backups, for SUPER sessions.
SuperNow(b) == sess[b].level = "super" /\ ~Outdated(b)
ManualBackup(b) ==
  /\ SuperNow(b) /\ CreateDatabaseBackup("manual")
  /\ UNCHANGED <<sessionVars, data, seq, due, job, making, paused, writes, used, torn>>
Unlinked(f) == [files EXCEPT ![f] = NoFile]
DeleteBackup(b, f) ==
  /\ SuperNow(b) /\ files[f] # NoFile /\ files' = Unlinked(f)
  /\ UNCHANGED <<sessionVars, data, seq, written, due, job, making, paused, writes, used, torn>>

-----------------------------------------------------------------------------
(* Preview and restore.                                                    *)

\* POST .../restore, in maintenance: the token the operator confirmed on the
\* preview must be the one a fresh preflight computes, so the preview showed this
\* file and these rows, and it is the preflight's token that goes on.
RestoreBegin(r, b, f, confirmed) ==
  /\ SuperNow(b) /\ paused /\ files[f] # NoFile
  /\ Arrive(r, b, "restore", hash.pin)
  /\ LET p == files[f].payload IN
       /\ Inspect(p.tables) /\ ReceiptsSafe(p.tables, data)
       /\ NeedsConfirmation(p.tables, data) => confirmed
       /\ job' = [job EXCEPT ![r] = [tries |-> 0, token |-> Token(f, p, Live),
                                    confirmed |-> confirmed]]
  /\ UNCHANGED <<data, seq, files, written, due, making, paused, writes, used, torn>>

Drop(r) == job' = [job EXCEPT ![r] = NoJob] /\ End(r)

\* The safeguard backup of the data about to be replaced.
Safeguard(r) ==
  /\ ask[r].op = "restore" /\ ask[r].at = "start"
  /\ \/ CreateDatabaseBackup("manual") /\ Go(r, "load") /\ UNCHANGED job
     \/ ~Inspect(data) /\ Drop(r) /\ UNCHANGED <<files, written>>
  /\ UNCHANGED <<sess, epoch, hash, salts, served, shows, chosen, pool>>
  /\ UNCHANGED <<data, seq, due, making, paused, writes, used, torn>>

\* restoreFromBackup reads and inspects the file, if it is still there.
LoadBackup(r) ==
  /\ ask[r].op = "restore" /\ ask[r].at = "load"
  /\ IF files[job[r].token.file] = NoFile THEN Drop(r) ELSE Go(r, "replace") /\ UNCHANGED job
  /\ UNCHANGED <<sess, epoch, hash, salts, served, shows, chosen, pool>>
  /\ UNCHANGED <<data, seq, files, written, due, making, paused, writes, used, torn>>

\* Mutant: the token is compared by the route only, not inside the transaction.
StillConfirmedByRoute(r) == TRUE

\* The token names the rows the transaction finds under its locks.
StillConfirmed(r) == job[r].token.live = Live

MaxOf(S) == CHOOSE m \in S : \A n \in S : n <= m
\* resetSerialSequence for salary_records.
ResetSequence(t) == MaxOf({seq} \cup {p[1] : p \in t.recs} \cup {c[1] : c \in t.journal})

\* The transaction: lock, preflight against what is there now, replace, end the
\* administrator sessions under a new epoch, reset the sequences.
RestoreCommit(r) ==
  /\ ask[r].op = "restore" /\ ask[r].at = "replace"
  /\ LET p == job[r].token.payload IN
       /\ StillConfirmed(r) /\ ReceiptsSafe(p.tables, data)
       /\ NeedsConfirmation(p.tables, data) => job[r].confirmed
       /\ data' = p.tables /\ hash' = p.hash /\ chosen' = p.hash.pin
       /\ seq' = ResetSequence(p.tables)
  /\ sess' = [b \in Browsers |-> NoAuth] /\ epoch' = epoch + 1
  /\ Go(r, "answer")
  /\ UNCHANGED <<salts, served, shows, pool>>
  /\ UNCHANGED <<files, written, due, job, making, paused, writes, used, torn>>

MayRetry(r) == job[r].tries + 1 < MaxAttempts

\* Preflight refuses, or the transaction fails: a retryable error is tried again.
RestoreAborts(r) ==
  /\ ask[r].op = "restore" /\ ask[r].at = "replace"
  /\ \/ job[r].token.live # Live /\ Drop(r)
     \/ MayRetry(r) /\ UNCHANGED ask
        /\ job' = [job EXCEPT ![r].tries = @ + 1]
     \/ Drop(r)
  /\ UNCHANGED <<sess, epoch, hash, salts, served, shows, chosen, pool>>
  /\ UNCHANGED <<data, seq, files, written, due, making, paused, writes, used, torn>>

\* clearAdminSession of the request that restored.
RestoreAnswer(r) ==
  /\ ask[r].op = "restore" /\ ask[r].at = "answer"
  /\ Destroyed(ask[r].b) /\ Drop(r)
  /\ UNCHANGED <<epoch, hash, salts, served, shows, chosen, pool>>
  /\ UNCHANGED <<data, seq, files, written, due, making, paused, writes, used, torn>>

\* The process is restarted, which is how an operator changes the pause.
Restart ==
  /\ ask' = [r \in Requests |-> NoAsk] /\ job' = [r \in Requests |-> NoJob]
  /\ pool' = EmptyPool(pool.limit) /\ making' = FALSE
  /\ paused' \in BOOLEAN
  /\ writes < MaxWrites /\ writes' = writes + 1
  /\ UNCHANGED <<sess, epoch, hash, salts, served, shows, chosen>>
  /\ UNCHANGED <<data, seq, files, written, due, used, torn>>

-----------------------------------------------------------------------------
(* The rest of the program, as far as it writes what a backup holds.       *)

Write ==
  /\ writes < MaxWrites /\ writes' = writes + 1
  /\ UNCHANGED <<sessionVars, files, written, due, job, paused>>
Store(t) == data' = t /\ UNCHANGED <<seq, making, used, torn>>

CreateRecord ==
  /\ ~paused /\ seq + 1 \in Ids /\ Write
  /\ data' = [data EXCEPT !.recs = @ \cup {<<seq + 1, 0>>}]
  /\ seq' = seq + 1 /\ used' = used \cup {seq + 1}
  /\ UNCHANGED <<making, torn>>
CorrectRecord(p) ==
  /\ ~paused /\ p \in data.recs /\ Write
  /\ LET q == <<p[1], p[2] + 1>>
     IN Store([data EXCEPT !.recs = (@ \ {p}) \cup {q}, !.journal = @ \cup {q}])
DeleteRecord(p) ==
  /\ ~paused /\ p \in data.recs /\ Write
  /\ Store([data EXCEPT !.recs = @ \ {p}])
Punch(ev) ==
  /\ ~paused /\ data.emp = "current" /\ data.line /\ ev \notin data.receipts /\ Write
  /\ Store([data EXCEPT !.receipts = @ \cup {ev}])
\* A request for the account and its approval; the request's row stays.
BindLine ==
  /\ data.emp = "current" /\ ~data.line /\ Write
  /\ Store([data EXCEPT !.line = TRUE, !.pending = TRUE])
\* Mutant: the open binding requests survive the recycle bin.
TrashEmployeeOnly ==
  /\ data.emp = "current" /\ Write
  /\ Store([data EXCEPT !.emp = "binned", !.line = FALSE])
TrashEmployee ==
  /\ data.emp = "current" /\ Write
  /\ Store([data EXCEPT !.emp = "binned", !.line = FALSE, !.pending = FALSE])
RestoreEmployee ==
  /\ data.emp = "binned" /\ Write
  /\ Store([data EXCEPT !.emp = "current"])
\* The receipts go with the employee: ON DELETE CASCADE.
PurgeEmployee ==
  /\ ~paused /\ data.emp = "binned" /\ Write
  /\ Store([data EXCEPT !.emp = "purged", !.pending = FALSE, !.holiday = FALSE,
                        !.leave = FALSE, !.receipts = {}])

\* POST /api/holidays stores the holiday, then its attendance row ...
HolidayStore ==
  /\ data.emp = "current" /\ ~data.holiday /\ ~making /\ Write
  /\ data' = [data EXCEPT !.holiday = TRUE] /\ making' = TRUE
  /\ UNCHANGED <<seq, used, torn>>
\* ... which no foreign key ties to the holiday or to the employee.
HolidayAttendance ==
  /\ making /\ making' = FALSE
  /\ data' = [data EXCEPT !.leave = TRUE]
  /\ torn' = (torn \/ ~data.holiday \/ data.emp = "purged")
  /\ UNCHANGED <<sessionVars, seq, files, written, due, job, paused, writes, used>>
\* DELETE /api/holidays/:id removes the attendance row first.
HolidayDelete ==
  /\ data.holiday /\ Write
  /\ Store([data EXCEPT !.holiday = FALSE, !.leave = FALSE])
DeleteAllHolidays ==
  /\ data.holiday /\ Write
  /\ data' = [data EXCEPT !.holiday = FALSE]
  /\ torn' = (torn \/ data.leave)
  /\ UNCHANGED <<seq, making, used>>

Writers ==
  \/ CreateRecord \/ BindLine
  \/ \E p \in data.recs : CorrectRecord(p) \/ DeleteRecord(p)
  \/ \E ev \in Events : Punch(ev)
  \/ TrashEmployee \/ RestoreEmployee \/ PurgeEmployee
  \/ HolidayStore \/ HolidayAttendance \/ HolidayDelete \/ DeleteAllHolidays

Restores ==
  \/ \E b \in Browsers, f \in FileIds : DeleteBackup(b, f)
  \/ \E b \in Browsers : ManualBackup(b)
  \/ \E r \in Requests, b \in Browsers, f \in FileIds, c \in BOOLEAN : RestoreBegin(r, b, f, c)
  \/ \E r \in Requests : \/ Safeguard(r) \/ LoadBackup(r) \/ RestoreCommit(r)
                         \/ RestoreAborts(r) \/ RestoreAnswer(r)

\* One employee at work, one administrator logged in as SUPER, no backup yet.
Init ==
  /\ hash \in {[pin |-> p, weak |-> w, salt |-> 0] : p \in Pins, w \in BOOLEAN}
  /\ sess \in {[c \in Browsers |-> IF c = b THEN [level |-> "super", epoch |-> 0, seen |-> 0]
                                   ELSE NoAuth] : b \in Browsers}
  /\ shows = [b \in Browsers |-> IF sess[b] = NoAuth THEN "guest" ELSE "admin"]
  /\ epoch = 0 /\ salts = 0 /\ served = 0 /\ chosen = hash.pin
  /\ ask = [r \in Requests |-> NoAsk] /\ pool \in {EmptyPool(n) : n \in QueueLimits}
  /\ data = [emp |-> "current", line |-> FALSE, pending |-> FALSE, holiday |-> FALSE,
             leave |-> FALSE, receipts |-> {}, recs |-> {}, journal |-> {}]
  /\ seq = 0 /\ files = [f \in FileIds |-> NoFile] /\ written = 0 /\ due = TRUE
  /\ job = [r \in Requests |-> NoJob]
  /\ making = FALSE /\ paused \in BOOLEAN /\ writes = 0 /\ used = {} /\ torn = FALSE

Next == \/ SessionNext /\ UNCHANGED backupVars
        \/ Restores \/ Writers \/ DailyBackup \/ DayPasses \/ Restart

Spec == Init /\ [][Next]_vars

-----------------------------------------------------------------------------
(* Properties.                                                             *)

\* A session that the next request will be let through with rests on a PIN that
\* was checked after the last restore: neither a login that was under way while
\* the data and the PIN were replaced, nor a row that a slow request writes back
\* after the restore deleted it, carries authority over (createAdminSession, the
\* epoch middleware, invalidateRestoredAdminSessions).
AuthorityFresh ==
  \A b \in Browsers : sess[b].level # "none" /\ ~Outdated(b) => sess[b].seen = epoch

\* The PIN in force is the one last chosen, or the one a restore brought back: a
\* login that upgrades the old hash never undoes a PIN change that overtook it
\* (compareAndSwapAdminPin in verify-admin and update-admin-pin).
PinAsChosen == hash.pin = chosen

\* No PIN derivation is lost: every place taken belongs to a request that is being
\* derived, at most the limit wait, and nobody waits while a place is free, whichever
\* requests ended, timed out or were refused (derivePinAsync).
PlacesAccounted ==
  /\ pool.active = Cardinality({r \in Requests : Runs(r)}) /\ Len(pool.queued) <= pool.limit
  /\ pool.queued # <<>> => pool.active = Workers

\* The tables can always be backed up, unless all holidays were deleted under
\* their attendance rows or a holiday vanished before its row was stored: every
\* other operation leaves what inspectNormalizedBackupPayload accepts.
Inspectable == ~torn => Inspect(data)

\* An id of a salary record is never given out again, restores included: the
\* correction journal may still name it (resetSerialSequence).
IdsRetired == \A i \in used : i <= seq

\* Whatever operations, backups and restores came before, the tables are typed, can
\* be backed up again, and give no id of a salary record out twice.
TablesSound == TypeOK /\ Inspectable /\ IdsRetired

RestoreAsConfirmed ==
  epoch' # epoch => \E r \in Requests : /\ ask[r].op = "restore"
                                       /\ job[r].token.live = Live
                                       /\ job[r].token.payload = Live'
ReceiptsStay == data.receipts \subseteq data'.receipts \/ data'.emp = "purged"

\* A restore replaces exactly the rows the confirmed preview showed, by exactly the
\* payload it showed (the token check inside the transaction), and no receipt of a
\* LINE punch is lost, by a restore or otherwise, except with its employee
\* (LINE_CLOCK_RECEIPT_REPLACEMENT_FORBIDDEN).
RestoreFaithful == [][RestoreAsConfirmed /\ ReceiptsStay]_vars
=============================================================================
