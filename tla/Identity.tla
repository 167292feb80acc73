------------------------------ MODULE Identity ------------------------------
(***************************************************************************)
(* employees.id_number: how an identity is stored, shown and looked up.    *)
(*                                                                         *)
(* A stored value is a text, kept as it is or inside an AES envelope.  A   *)
(* text is an identity in the clear, its Caesar form (rows of before the   *)
(* AES migration) or a ruined text that stands for nobody.  The flag       *)
(* is_encrypted is a column of its own and may disagree with the value.    *)
(* A lookup of a server instance reads the table, then its cache, which    *)
(* another instance, a script or a slow query may have made stale, and     *)
(* then the row the cache points at.                                       *)
(***************************************************************************)
EXTENDS Naturals, FiniteSets

CONSTANTS Employees,    \* ids of employees rows, a subset of Nat
          Ids,          \* national identities
          Scans,        \* those among them scanned at the barcode reader
          Instances,    \* server processes
          MaxEdits,     \* bound: employee edits, encryptions and switch changes
          Nobody

ASSUME IdentityAssumption ==
  Employees \subseteq Nat /\ Scans \subseteq Ids /\ MaxEdits \in Nat
  /\ Nobody \notin Employees \cup Ids

VARIABLES row,          \* employee -> its columns id_number, is_encrypted, deleted_at
          useAes,       \* USE_AES_ENCRYPTION together with ENCRYPTION_KEY
          cache,        \* instance -> identityLookupCache
          look,         \* instance -> the lookup it is running
          edit,         \* the employee update being run, with the row it has read
          bulk,         \* the rows encryptAllPlaintextEmployees has read
          edits,        \* employee edits and switch changes so far
          named,        \* history: the identity the administrator last typed
          overwritten,  \* history: employees whose newer identity a stale write replaced
          since         \* history: employees written by the server since the newest snapshot

identityVars == <<row, useAes, cache, look, edit, bulk, edits, named, overwritten, since>>

Text == [form : {"plain", "caesar", "ruined"}, id : Ids]
Stored == [aes : {"no", "aes", "aes12"}, text : Text]
Row == [value : Stored, flag : BOOLEAN, state : {"absent", "current", "binned"}]
NoCache == <<>>
NotLooking == [at |-> "idle", id |-> Nobody, map |-> NoCache, found |-> Nobody]
NotEditing == [at |-> "idle", e |-> Nobody]

Plain(id) == [form |-> "plain", id |-> id]
Clear(text) == [aes |-> "no", text |-> text]
Present(e) == row[e].state # "absent"

\* getEmployeeDisplayId: an AES value is decrypted whatever the flag says.
Display(value) == value.text

\* encryptEmployeeIdentityForStorage: in the clear while AES writes are off.
EncryptForStorage(text, wanted) ==
  [aes |-> IF wanted /\ useAes THEN "aes" ELSE "no", text |-> text]

\* The unique index on id_number: two AES values never collide, two clear ones may.
Unique(e, value) ==
  value.aes = "no" => \A f \in Employees \ {e} : Present(f) => row[f].value # value

Invalidated(i) == cache' = [cache EXCEPT ![i] = NoCache]
Counted == edits < MaxEdits /\ edits' = edits + 1

IdentityTypeOK ==
  /\ row \in [Employees -> Row] /\ useAes \in BOOLEAN
  /\ cache \in [Instances -> [Ids -> Employees \cup {Nobody}] \cup {NoCache}]
  /\ \A i \in Instances :
       /\ look[i].at \in {"idle", "cache", "store", "reread", "found", "unknown"}
       /\ look[i].at = "found" => look[i].found \in Employees
  /\ edit = NotEditing \/ edit.e \in Employees
  /\ edits \in 0 .. MaxEdits /\ named \in [Employees -> Ids]
  /\ overwritten \subseteq Employees /\ since \subseteq Employees

IdentityInit ==
  /\ \E value \in [Employees -> {v \in Stored : v.text.form # "ruined"
                                 /\ (v.text.form = "caesar" => v.aes = "no")}],
        hired \in SUBSET Employees :
       /\ \A e \in Employees \ hired : value[e] = Clear(Plain(value[e].text.id))
       /\ row = [e \in Employees |->
                  [value |-> value[e], flag |-> value[e] # Clear(Plain(value[e].text.id)),
                   state |-> IF e \in hired THEN "current" ELSE "absent"]]
       /\ \A e, f \in Employees : e # f => value[e].text.id # value[f].text.id
       /\ named = [e \in Employees |-> value[e].text.id]
  /\ useAes \in BOOLEAN
  /\ cache = [i \in Instances |-> NoCache] /\ look = [i \in Instances |-> NotLooking]
  /\ edit = NotEditing /\ bulk = {} /\ edits = 0
  /\ overwritten = {} /\ since = {}

\* The operator restarts the server with another USE_AES_ENCRYPTION.
SwitchAes ==
  /\ Counted /\ useAes' = ~useAes
  /\ cache' = [i \in Instances |-> NoCache] /\ look' = [i \in Instances |-> NotLooking]
  /\ edit' = NotEditing /\ bulk' = {}
  /\ UNCHANGED <<row, named, overwritten, since>>

-----------------------------------------------------------------------------
(* Employee edits.                                                         *)

\* POST /api/employees and createEmployee, on a row id never used before.
CreateEmployee(i, e, id, wanted) ==
  LET value == EncryptForStorage(Plain(id), wanted) IN
  /\ row[e].state = "absent" /\ Unique(e, value) /\ Counted
  /\ row' = [row EXCEPT ![e] = [value |-> value, flag |-> wanted, state |-> "current"]]
  /\ named' = [named EXCEPT ![e] = id] /\ since' = since \cup {e}
  /\ Invalidated(i)
  /\ UNCHANGED <<useAes, look, edit, bulk, overwritten>>

\* PUT or PATCH /api/employees/:id: updateEmployee reads the row.
UpdateRead(e) ==
  /\ edit = NotEditing /\ row[e].state = "current" /\ Counted
  /\ edit' = [at |-> "read", e |-> e, value |-> row[e].value]
  /\ UNCHANGED <<row, useAes, cache, look, bulk, named, overwritten, since>>

\* prepareUpdatedEmployeeIdentityForStorage: an identity that reads as before
\* keeps its stored bytes, those of the row read earlier.
UpdatedValue(text, wanted) ==
  IF text = Display(edit.value) THEN edit.value ELSE EncryptForStorage(text, wanted)

\* ... and writes what the form holds: the text shown, or another identity.
UpdateWrite(i, text, wanted) ==
  LET e == edit.e  value == UpdatedValue(text, wanted) IN
  /\ edit.at = "read"
  /\ text \in {Display(edit.value)} \cup {Plain(id) : id \in Ids}
  /\ edit' = NotEditing
  /\ \/ /\ Unique(e, value) /\ Present(e)
        /\ row' = [row EXCEPT ![e].value = value, ![e].flag = wanted]
        /\ named' = IF text = Display(edit.value) THEN named
                    ELSE [named EXCEPT ![e] = text.id]
        /\ overwritten' = IF text # Display(edit.value) THEN overwritten \ {e}
                          ELSE overwritten \cup {f \in {e} : Display(row[f].value) # text}
        /\ since' = since \cup {e}
        /\ Invalidated(i)
     \/ /\ ~Unique(e, value)
        /\ UNCHANGED <<row, named, overwritten, since, cache>>
  /\ UNCHANGED <<useAes, look, bulk, edits>>

\* DELETE /api/employees/:id puts the row in the recycle bin, restore takes it out.
BinEmployee(i, e) ==
  /\ row[e].state = "current" /\ Counted
  /\ row' = [row EXCEPT ![e].state = "binned"]
  /\ Invalidated(i)
  /\ UNCHANGED <<useAes, look, edit, bulk, named, overwritten, since>>

RestoreEmployee(i, e) ==
  /\ row[e].state = "binned"
  /\ row' = [row EXCEPT ![e].state = "current"]
  /\ Invalidated(i)
  /\ UNCHANGED <<useAes, look, edit, bulk, edits, named, overwritten, since>>

\* POST /api/settings turns the barcode reader off: encryptAllPlaintextEmployees
\* reads every row, binned ones too ...
EncryptAllRead ==
  /\ bulk = {} /\ Counted
  /\ bulk' = {[e |-> e, value |-> row[e].value] : e \in {f \in Employees :
                Present(f) /\ row[f].value.aes = "no"}}
  /\ UNCHANGED <<row, useAes, cache, look, edit, named, overwritten, since>>

\* ... and writes those that are not AES values, in one transaction.
EncryptAllWrite(i) ==
  LET by(e) == CHOOSE b \in bulk : b.e = e
      hit == {e \in Employees : Present(e) /\ \E b \in bulk : b.e = e} IN
  /\ bulk # {} /\ bulk' = {}
  /\ row' = [e \in Employees |-> IF e \in hit
               THEN [row[e] EXCEPT !.value = EncryptForStorage(Display(by(e).value), TRUE),
                                   !.flag = TRUE]
               ELSE row[e]]
  /\ overwritten' = overwritten \cup
       {e \in hit : Display(row[e].value) # Display(by(e).value)}
  /\ since' = since \cup hit
  /\ Invalidated(i)
  /\ UNCHANGED <<useAes, look, edit, edits, named>>

-----------------------------------------------------------------------------
(* getEmployeeByIdNumber, with a scanned identity.                          *)

Shows(e, id) == row[e].state = "current" /\ Display(row[e].value) = Plain(id)

\* getIdentityLookupCache: of two employees with one identity the first is kept.
LookupMap ==
  [id \in Ids |-> LET holders == {e \in Employees : Shows(e, id)} IN
     IF holders = {} THEN Nobody ELSE CHOOSE e \in holders : \A f \in holders : e <= f]

\* The IN query over the stored values finds identities kept in the clear.
LookDirect(i, id) ==
  LET hits == {e \in Employees : Shows(e, id) /\ row[e].value.aes = "no"} IN
  /\ look[i].at = "idle"
  /\ \/ \E e \in hits : look' = [look EXCEPT ![i] =
            [NotLooking EXCEPT !.at = "found", !.id = id, !.found = e]]
     \/ hits = {} /\ look' = [look EXCEPT ![i] = [NotLooking EXCEPT !.at = "cache", !.id = id]]
  /\ UNCHANGED <<row, useAes, cache, edit, bulk, edits, named, overwritten, since>>

Located(i, map) ==
  look' = [look EXCEPT ![i].map = NoCache, ![i].found = map[look[i].id],
                       ![i].at = IF map[look[i].id] = Nobody THEN "unknown" ELSE "reread"]

\* The cache is used as it is, or rebuilt from a query of the whole table ...
LookCache(i) ==
  /\ look[i].at = "cache"
  /\ IF cache[i] # NoCache THEN Located(i, cache[i])
     ELSE look' = [look EXCEPT ![i].at = "store", ![i].map = LookupMap]
  /\ UNCHANGED <<row, useAes, cache, edit, bulk, edits, named, overwritten, since>>

\* ... whose answer becomes the cache when it arrives.
LookStore(i) ==
  /\ look[i].at = "store"
  /\ cache' = [cache EXCEPT ![i] = look[i].map]
  /\ Located(i, look[i].map)
  /\ UNCHANGED <<row, useAes, edit, bulk, edits, named, overwritten, since>>

\* Mutant: the cached employee is the answer.
LookRereadCached(i) ==
  /\ look[i].at = "reread"
  /\ look' = [look EXCEPT ![i].at = "found"]
  /\ UNCHANGED <<row, useAes, cache, edit, bulk, edits, named, overwritten, since>>

\* The row the cache points at is read again and must still carry the identity.
LookReread(i) ==
  /\ look[i].at = "reread"
  /\ IF Shows(look[i].found, look[i].id)
     THEN look' = [look EXCEPT ![i].at = "found"] /\ UNCHANGED cache
     ELSE look' = [look EXCEPT ![i].at = "unknown"] /\ Invalidated(i)
  /\ UNCHANGED <<row, useAes, edit, bulk, edits, named, overwritten, since>>

LookEnd(i) ==
  /\ look[i].at \in {"found", "unknown"}
  /\ look' = [look EXCEPT ![i] = NotLooking]
  /\ UNCHANGED <<row, useAes, cache, edit, bulk, edits, named, overwritten, since>>

IdentityNext ==
  \/ SwitchAes \/ EncryptAllRead
  \/ \E e \in Employees : UpdateRead(e)
  \/ \E i \in Instances :
       \/ \E e \in Employees, id \in Ids, w \in BOOLEAN : CreateEmployee(i, e, id, w)
       \/ \E text \in Text, w \in BOOLEAN : UpdateWrite(i, text, w)
       \/ \E e \in Employees : BinEmployee(i, e) \/ RestoreEmployee(i, e)
       \/ EncryptAllWrite(i)
       \/ \E id \in Scans : LookDirect(i, id)
       \/ LookCache(i) \/ LookStore(i) \/ LookReread(i) \/ LookEnd(i)
=============================================================================
