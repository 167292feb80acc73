---------------------------- MODULE AesMigration ----------------------------
(***************************************************************************)
(* scripts/migrate-to-aes.mjs, run by an operator beside the live server:  *)
(* every mode reads and classifies the rows, then writes a snapshot file,  *)
(* or the rows one UPDATE at a time.  The dry run and the rehearsal, whose *)
(* transaction always rolls back, leave nothing and are no action here.    *)
(* The process may be killed between two statements.                       *)
(***************************************************************************)
EXTENDS Identity, Sequences, SequencesExt

CONSTANT MaxFiles       \* bound: snapshot files

ASSUME AesAssumption == MaxFiles \in Nat

VARIABLES script,       \* the run of the script: its step and what is left to write
          files         \* the pre-aes-*.json files, oldest first

vars == <<identityVars, script, files>>
scriptVars == <<script, files>>

NoScript == [at |-> "idle", todo |-> {}]

-----------------------------------------------------------------------------
(* The classification, scripts/lib/aes-migration-audit.mjs.                *)

\* detectSourceFormat: an envelope with a 12-byte IV is not taken for AES.
SourceFormat(r) ==
  IF r.value.aes = "aes" THEN "aes"
  ELSE IF r.flag \/ (r.value.text.form = "caesar" /\ r.value.aes = "no") THEN "caesar"
  ELSE "plaintext"

\* getPlaintextIdentity: caesarDecrypt of anything else than a Caesar text ruins it,
\* and so does reading an envelope as if it were the text.
PlaintextIdentity(r) ==
  IF r.value = Clear([form |-> "caesar", id |-> r.value.text.id]) THEN Plain(r.value.text.id)
  ELSE IF SourceFormat(r) = "plaintext" /\ r.value.aes = "no" THEN r.value.text
  ELSE [form |-> "ruined", id |-> r.value.text.id]

\* analyzeEmployeesForAesMigration: the rows to migrate and their old values.
Candidates(scope) ==
  {[e |-> e, old |-> row[e].value, oldFlag |-> row[e].flag, text |-> PlaintextIdentity(row[e])] :
     e \in {f \in scope : Present(f) /\ SourceFormat(row[f]) # "aes"}}

TypeOK ==
  /\ IdentityTypeOK
  /\ script.at \in {"idle", "migrate", "rollback", "rolledback"}
  /\ files \in Seq(SUBSET [e : Employees, old : Stored, oldFlag : BOOLEAN, text : Text])
  /\ Len(files) <= MaxFiles

Init == IdentityInit /\ script = NoScript /\ files = <<>>

\* createSnapshotBackup: a file of the candidates' old values, if there are any.
Snapshot(scope) ==
  IF Candidates(scope) = {} THEN UNCHANGED <<files, since>>
  ELSE /\ Len(files) < MaxFiles
       /\ files' = Append(files, Candidates(scope)) /\ since' = {}

\* --snapshot.
TakeSnapshot(scope) ==
  /\ script.at \in {"idle", "rolledback"}
  /\ Snapshot(scope)
  /\ script' = NoScript
  /\ UNCHANGED <<row, useAes, cache, look, edit, bulk, edits, named, overwritten>>

\* Mutant: the rows are migrated first and the file written at the end.
ExecutePlanLateSnapshot(scope) ==
  /\ script.at \in {"idle", "rolledback"} /\ useAes /\ Candidates(scope) # {}
  /\ Len(files) < MaxFiles /\ UNCHANGED <<files, since>>
  /\ script' = [at |-> "migrate", todo |-> Candidates(scope)]
  /\ UNCHANGED <<row, useAes, cache, look, edit, bulk, edits, named, overwritten>>

\* --execute: refused while AES writes are off; the file comes before the rows.
ExecutePlan(scope) ==
  /\ script.at \in {"idle", "rolledback"} /\ useAes /\ Candidates(scope) # {}
  /\ Snapshot(scope)
  /\ script' = [at |-> "migrate", todo |-> Candidates(scope)]
  /\ UNCHANGED <<row, useAes, cache, look, edit, bulk, edits, named, overwritten>>

\* A statement of the script writes one row by its id, whatever it holds by now.
WriteRow(c, value, flag) ==
  /\ \A b \in script.todo : c.e <= b.e
  /\ row' = IF Present(c.e) THEN [row EXCEPT ![c.e].value = value, ![c.e].flag = flag] ELSE row
  /\ overwritten' = IF row[c.e].value.text.id # c.old.text.id
                    THEN overwritten \cup {c.e} ELSE overwritten
  /\ UNCHANGED <<useAes, cache, look, edit, bulk, edits, named, since, files>>

MigrateRow(c) ==
  /\ script.at = "migrate" /\ c \in script.todo
  /\ WriteRow(c, [aes |-> "aes", text |-> c.text], TRUE)
  /\ script' = IF script.todo = {c} THEN NoScript ELSE [script EXCEPT !.todo = @ \ {c}]

\* --rollback reads the newest file only.
RollbackRead ==
  /\ script.at \in {"idle", "rolledback"} /\ files # <<>>
  /\ script' = [at |-> "rollback", todo |-> Last(files)]
  /\ UNCHANGED <<identityVars, files>>

RollbackRow(c) ==
  /\ script.at = "rollback" /\ c \in script.todo
  /\ WriteRow(c, c.old, c.oldFlag)
  /\ script' = IF script.todo = {c} THEN [at |-> "rolledback", todo |-> {}]
               ELSE [script EXCEPT !.todo = @ \ {c}]

\* The process is killed, or a statement fails.
ScriptDies ==
  /\ script.at \in {"migrate", "rollback"} /\ script' = NoScript
  /\ UNCHANGED <<identityVars, files>>

Next ==
  \/ IdentityNext /\ UNCHANGED scriptVars
  \/ \E scope \in (SUBSET Employees) \ {{}} :
       ExecutePlan(scope) \/ TakeSnapshot(scope)
  \/ \E c \in script.todo : MigrateRow(c) \/ RollbackRow(c)
  \/ RollbackRead \/ ScriptDies

Spec == Init /\ [][Next]_vars

-----------------------------------------------------------------------------
(* Properties.                                                             *)

\* An identity the administrator typed is never lost for good: the row shows it,
\* or its Caesar form, or a snapshot file still holds a value it can be read from,
\* whatever the script, its death, the server's own encryption and a changed AES
\* switch did.  Only a write based on an older reading of the row can lose it.
IdentityRecoverable ==
  \A e \in Employees : Present(e) /\ e \notin overwritten =>
    \/ row[e].value.text \in {Plain(named[e]), [form |-> "caesar", id |-> named[e]]}
    \/ \E n \in 1 .. Len(files) : \E c \in files[n] :
         c.e = e /\ c.old.text.id = named[e] /\ c.old.text.form # "ruined"

\* A finished --rollback has put back every value its file lists, also after an
\* execute that died half way, unless the server has written the row since.
RollbackExact ==
  script.at = "rolledback" =>
    \A c \in Last(files) : c.e \notin since =>
      row[c.e].value = c.old /\ row[c.e].flag = c.oldFlag

\* A scan is answered with an employee only if, when the answer is made, that
\* employee is out of the recycle bin and shows the scanned identity, however old
\* the cache that pointed at the row.
LookupCurrent ==
  [][\A i \in Instances : look'[i].at = "found" /\ look[i].at # "found" =>
       Shows(look'[i].found, look'[i].id)]_vars

\* Migration, rollback, death of the script and the server's own writes together
\* keep every identity typed and recoverable, and a finished rollback exact.
IdentitiesKept == TypeOK /\ IdentityRecoverable /\ RollbackExact
=============================================================================
