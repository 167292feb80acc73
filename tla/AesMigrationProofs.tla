------------------------- MODULE AesMigrationProofs -------------------------
(***************************************************************************)
(* Identity numbers and their migration, for any number of employees,      *)
(* identities, server processes, edits and snapshot files.                 *)
(***************************************************************************)
EXTENDS AesMigration, WellFoundedInduction, TLAPS

-----------------------------------------------------------------------------
(* The inductive invariant.                                                 *)

CacheMap == [Ids -> Employees \cup {Nobody}] \cup {NoCache}
LookType == [at : {"idle", "cache", "store", "reread", "found", "unknown"},
             id : Ids \cup {Nobody}, map : CacheMap, found : Employees \cup {Nobody}]

\* A lookup has the data its step works on.
LookReady(x) ==
  /\ x.at # "idle" => x.id \in Ids
  /\ x.at = "store" => x.map # NoCache
  /\ x.at \in {"reread", "found"} => x.found \in Employees

LooksTyped ==
  /\ cache \in [Instances -> CacheMap]
  /\ look \in [Instances -> LookType]
  /\ \A i \in Instances : LookReady(look[i])

Candidate == [e : Employees, old : Stored, oldFlag : BOOLEAN, text : Text]

RowsTyped ==
  /\ row \in [Employees -> Row] /\ useAes \in BOOLEAN
  /\ edit \in {NotEditing} \cup [at : {"read"}, e : Employees, value : Stored]
  /\ bulk \subseteq [e : Employees, value : Stored]
  /\ edits \in 0 .. MaxEdits /\ named \in [Employees -> Ids]
  /\ overwritten \subseteq Employees /\ since \subseteq Employees

ScriptTyped ==
  /\ script \in [at : {"idle", "migrate", "rollback", "rolledback"}, todo : SUBSET Candidate]
  /\ files \in Seq(SUBSET Candidate) /\ Len(files) <= MaxFiles

Typed == LooksTyped /\ RowsTyped /\ ScriptTyped

\* A file lists an employee once, who exists; decoding keeps whose identity it is.
FilesKeyed ==
  \A n \in 1 .. Len(files) :
    /\ \A c, d \in files[n] : c.e = d.e => c = d
    /\ \A c \in files[n] : Present(c.e) /\ c.text.id = c.old.text.id

\* What the script has left to write is in the newest file.
TodoFiled ==
  script.at # "idle" => files # <<>> /\ script.todo \subseteq files[Len(files)]

\* A file holds the identity in a form it can be read from.
Backed(e, id) ==
  \E n \in 1 .. Len(files) : \E c \in files[n] :
    c.e = e /\ c.old.text.id = id /\ c.old.text.form # "ruined"
Readable(e, text) == text.form = "ruined" => Backed(e, text.id)

\* A ruined text, wherever a handler or the script still holds it, has a snapshot.
RuinedBacked ==
  /\ \A e \in Employees : Readable(e, row[e].value.text)
  /\ edit.at = "read" => Readable(edit.e, edit.value.text)
  /\ \A b \in bulk : Readable(b.e, b.value.text)
  /\ \A n \in 1 .. Len(files) : \A c \in files[n] : Readable(c.e, c.old.text)

\* A row stands for the identity typed last, unless a stale write replaced it.
NamedShown ==
  \A e \in Employees : Present(e) /\ e \notin overwritten => row[e].value.text.id = named[e]

\* A row that the rollback has done is as its file says, until the server writes it.
WrittenBack ==
  script.at \in {"rollback", "rolledback"} =>
    \A c \in files[Len(files)] :
      \/ script.at = "rollback" /\ c \in script.todo
      \/ c.e \in since
      \/ row[c.e].value = c.old /\ row[c.e].flag = c.oldFlag

Inv == Typed /\ FilesKeyed /\ TodoFiled /\ RuinedBacked /\ NamedShown /\ WrittenBack

-----------------------------------------------------------------------------
(* Lookups.                                                                 *)

\* A nonempty set of naturals has a least element.
LEMMA LeastNatural ==
  ASSUME NEW S, S \subseteq Nat, S # {}
  PROVE  \E n \in S : \A m \in S : n <= m
<1> DEFINE Less == OpToRel(<, Nat)
<1>1. IsWellFoundedOn(Less, Nat)
  BY NatLessThanWellFounded
<1>2. \A x, y \in Nat : <<y, x>> \in Less <=> y < x
  BY DEF OpToRel
<1> HIDE DEF Less
<1>3. PICK x \in S : \A y \in S : ~ (<<y, x>> \in Less)
  BY <1>1, WFMin
<1>4. ASSUME NEW y \in S PROVE x <= y
  <2>1. x \in Nat /\ y \in Nat /\ ~ (<<y, x>> \in Less)
    BY <1>3
  <2>2. ~ (y < x)
    BY <1>2, <2>1
  <2> QED BY <2>1, <2>2
<1> QED BY <1>4

\* getIdentityLookupCache builds a map from identities to rows.
LEMMA LookupMapTyped ==
  LookupMap \in [Ids -> Employees \cup {Nobody}]
<1> DEFINE Holders(id) == {e \in Employees : Shows(e, id)}
<1>1. ASSUME NEW id \in Ids, Holders(id) # {}
      PROVE  (CHOOSE e \in Holders(id) : \A f \in Holders(id) : e <= f) \in Employees
  <2>1. Holders(id) \subseteq Nat /\ Holders(id) \subseteq Employees
    BY IdentityAssumption
  <2> HIDE DEF Holders
  <2>2. \E e \in Holders(id) : \A f \in Holders(id) : e <= f
    BY <1>1, <2>1, LeastNatural
  <2> QED BY <2>1, <2>2
<1> QED BY <1>1 DEF LookupMap

\* What a lookup takes from a map is a row to read again, or nobody.
LEMMA LocatedTyped ==
  ASSUME LooksTyped, NEW i \in Instances, NEW map \in [Ids -> Employees \cup {Nobody}],
         look[i].at # "idle", Located(i, map)
  PROVE  /\ look' \in [Instances -> LookType] /\ \A j \in Instances : LookReady(look'[j])
         /\ \A j \in Instances : look'[j].at = "found" => look'[j] = look[j]
<1>1. look[i] \in LookType /\ look[i].id \in Ids
  BY DEF LooksTyped, LookReady
<1>2. PICK f \in Employees \cup {Nobody} : f = map[look[i].id]
  BY <1>1
<1> DEFINE at == IF f = Nobody THEN "unknown" ELSE "reread"
           x == [look[i] EXCEPT !.map = NoCache, !.found = f, !.at = at]
<1>3. look' = [look EXCEPT ![i] = x]
  BY <1>2 DEF Located, LooksTyped
<1>4. x \in LookType /\ LookReady(x) /\ x.at # "found"
  BY <1>1 DEF LookType, LookReady, CacheMap
<1> HIDE DEF x
<1> QED BY <1>3, <1>4 DEF LooksTyped

Forgets(i) == cache' = [cache EXCEPT ![i] = NoCache]

\* A step that empties a cache, or none, and leaves the lookups alone.
LEMMA ForgetKeepsLooks ==
  ASSUME LooksTyped, look' = look, cache' = cache \/ \E i \in Instances : Forgets(i)
  PROVE  LooksTyped'
BY DEF LooksTyped, Forgets, CacheMap

FoundIsShown == \A i \in Instances :
  look'[i].at = "found" /\ look[i].at # "found" => Shows(look'[i].found, look'[i].id)

LookStep == \E i \in Instances :
  (\E id \in Scans : LookDirect(i, id)) \/ LookCache(i) \/ LookStore(i) \/ LookReread(i) \/ LookEnd(i)

\* A lookup takes its steps on the data it has, and finds only what it has just read.
LEMMA LookStepTyped ==
  ASSUME LooksTyped, LookStep
  PROVE  LooksTyped' /\ FoundIsShown
<1> USE DEF LooksTyped
<1>1. PICK i \in Instances :
        (\E id \in Scans : LookDirect(i, id)) \/ LookCache(i) \/ LookStore(i) \/ LookReread(i)
        \/ LookEnd(i)
  BY DEF LookStep
<1>2. look[i] \in LookType /\ LookReady(look[i])
  OBVIOUS
<1>3. ASSUME NEW x \in LookType, LookReady(x), look' = [look EXCEPT ![i] = x],
             cache' = cache \/ Forgets(i),
             x.at = "found" => Shows(x.found, x.id)
      PROVE  LooksTyped' /\ FoundIsShown
  BY <1>3 DEF Forgets, CacheMap, FoundIsShown
<1>4. ASSUME NEW id \in Scans, LookDirect(i, id) PROVE LooksTyped' /\ FoundIsShown
  <2>1. id \in Ids
    BY IdentityAssumption
  <2>2. ASSUME NEW e \in Employees, Shows(e, id),
               look' = [look EXCEPT ![i] = [NotLooking EXCEPT !.at = "found", !.id = id, !.found = e]]
        PROVE  LooksTyped' /\ FoundIsShown
    <3> DEFINE x == [NotLooking EXCEPT !.at = "found", !.id = id, !.found = e]
    <3>1. x \in LookType /\ LookReady(x) /\ x.found = e /\ x.id = id
      BY <2>1 DEF LookType, LookReady, NotLooking, CacheMap
    <3>2. look' = [look EXCEPT ![i] = x]
      BY <2>2
    <3> HIDE DEF x
    <3> QED BY <1>3, <1>4, <2>2, <3>1, <3>2 DEF LookDirect
  <2>3. ASSUME look' = [look EXCEPT ![i] = [NotLooking EXCEPT !.at = "cache", !.id = id]]
        PROVE  LooksTyped' /\ FoundIsShown
    <3> DEFINE x == [NotLooking EXCEPT !.at = "cache", !.id = id]
    <3>1. x \in LookType /\ LookReady(x) /\ x.at # "found"
      BY <2>1 DEF LookType, LookReady, NotLooking, CacheMap
    <3>2. look' = [look EXCEPT ![i] = x]
      BY <2>3
    <3> HIDE DEF x
    <3> QED BY <1>3, <1>4, <3>1, <3>2 DEF LookDirect
  <2> QED BY <1>4, <2>2, <2>3 DEF LookDirect
<1>5. CASE LookCache(i)
  <2>1. look[i].at = "cache" /\ cache' = cache
    BY <1>5 DEF LookCache
  <2>2. CASE cache[i] # NoCache
    <3>1. cache[i] \in [Ids -> Employees \cup {Nobody}] /\ Located(i, cache[i])
      BY <1>5, <2>2 DEF LookCache, CacheMap
    <3>2. /\ look' \in [Instances -> LookType] /\ \A j \in Instances : LookReady(look'[j])
          /\ \A j \in Instances : look'[j].at = "found" => look'[j] = look[j]
      BY <2>1, <3>1, LocatedTyped
    <3> QED BY <2>1, <3>2 DEF FoundIsShown
  <2>3. CASE cache[i] = NoCache
    <3>1. PICK m \in [Ids -> Employees \cup {Nobody}] : m = LookupMap
      BY LookupMapTyped
    <3> DEFINE x == [look[i] EXCEPT !.at = "store", !.map = m]
    <3>2. look' = [look EXCEPT ![i] = x]
      BY <1>5, <2>3, <3>1 DEF LookCache
    <3>3. m # NoCache
      BY <1>2, <2>1 DEF NoCache, LookReady
    <3>4. x \in LookType /\ LookReady(x) /\ x.at # "found"
      BY <1>2, <2>1, <3>3 DEF LookType, LookReady, CacheMap
    <3> HIDE DEF x
    <3> QED BY <1>3, <2>1, <3>2, <3>4
  <2> QED BY <2>2, <2>3
<1>6. CASE LookStore(i)
  <2>1. look[i].at = "store" /\ cache' = [cache EXCEPT ![i] = look[i].map] /\ Located(i, look[i].map)
    BY <1>6 DEF LookStore
  <2>2. look[i].map \in [Ids -> Employees \cup {Nobody}] /\ look[i].map \in CacheMap
    BY <1>2, <2>1 DEF LookType, LookReady, CacheMap
  <2>3. /\ look' \in [Instances -> LookType] /\ \A j \in Instances : LookReady(look'[j])
        /\ \A j \in Instances : look'[j].at = "found" => look'[j] = look[j]
    BY <2>1, <2>2, LocatedTyped
  <2> QED BY <2>1, <2>2, <2>3 DEF FoundIsShown
<1>7. CASE LookReread(i)
  <2>1. CASE Shows(look[i].found, look[i].id)
    <3> DEFINE x == [look[i] EXCEPT !.at = "found"]
    <3>1. look' = [look EXCEPT ![i] = x] /\ cache' = cache
      BY <1>7, <2>1 DEF LookReread
    <3>2. x \in LookType /\ LookReady(x) /\ x.found = look[i].found /\ x.id = look[i].id
      BY <1>2, <1>7 DEF LookType, LookReady, LookReread
    <3> HIDE DEF x
    <3> QED BY <1>3, <2>1, <3>1, <3>2
  <2>2. CASE ~Shows(look[i].found, look[i].id)
    <3> DEFINE x == [look[i] EXCEPT !.at = "unknown"]
    <3>1. look' = [look EXCEPT ![i] = x] /\ Forgets(i)
      BY <1>7, <2>2 DEF LookReread, Forgets, Invalidated
    <3>2. x \in LookType /\ LookReady(x) /\ x.at # "found"
      BY <1>2, <1>7 DEF LookType, LookReady, LookReread
    <3> HIDE DEF x
    <3> QED BY <1>3, <3>1, <3>2
  <2> QED BY <2>1, <2>2
<1>8. CASE LookEnd(i)
  <2>1. look' = [look EXCEPT ![i] = NotLooking] /\ cache' = cache
    BY <1>8 DEF LookEnd
  <2>2. NotLooking \in LookType /\ LookReady(NotLooking) /\ NotLooking.at # "found"
    BY DEF LookType, LookReady, NotLooking, CacheMap
  <2> QED BY <1>3, <2>1, <2>2
<1> QED BY <1>1, <1>4, <1>5, <1>6, <1>7, <1>8

-----------------------------------------------------------------------------
(* The server's own writes.                                                 *)

\* What a step of the server leaves of the script's promises: a row whose value or
\* flag it changes is noted, no row disappears, and what is not overwritten stays.
ServerStep ==
  /\ UNCHANGED scriptVars
  /\ RowsTyped'
  /\ since \subseteq since'
  /\ \A e \in Employees :
       /\ Present(e) => Present(e)'
       /\ e \notin since' => row'[e].value = row[e].value /\ row'[e].flag = row[e].flag
       /\ Readable(e, row'[e].value.text)
       /\ Present(e)' /\ e \notin overwritten' => row'[e].value.text.id = named'[e]
  /\ edit'.at = "read" => Readable(edit'.e, edit'.value.text)
  /\ \A b \in bulk' : Readable(b.e, b.value.text)

LEMMA ServerStepKeepsInv ==
  ASSUME Inv, LooksTyped', ServerStep
  PROVE  Inv'
<1>1. script' = script /\ files' = files /\ RowsTyped'
  BY DEF ServerStep, scriptVars
<1>2. \A n \in 1 .. Len(files) : \A c \in files[n] : c.e \in Employees
  BY DEF Inv, Typed, ScriptTyped, Candidate
<1>3. Typed'
  BY <1>1 DEF Inv, Typed, ScriptTyped
<1>4. FilesKeyed'
  BY <1>1, <1>2 DEF Inv, FilesKeyed, ServerStep
<1>5. TodoFiled'
  BY <1>1 DEF Inv, TodoFiled
<1>6. \A e, text : Readable(e, text)' <=> Readable(e, text)
  BY <1>1 DEF Readable, Backed
<1>7. RuinedBacked'
  BY <1>1, <1>6 DEF Inv, RuinedBacked, ServerStep
<1>8. NamedShown'
  BY DEF NamedShown, ServerStep
<1>9. WrittenBack'
  <2> SUFFICES ASSUME script.at \in {"rollback", "rolledback"}, NEW c \in files[Len(files)]
               PROVE  \/ script.at = "rollback" /\ c \in script.todo
                      \/ c.e \in since'
                      \/ row'[c.e].value = c.old /\ row'[c.e].flag = c.oldFlag
    BY <1>1 DEF WrittenBack
  <2>1. \/ script.at = "rollback" /\ c \in script.todo
        \/ c.e \in since
        \/ row[c.e].value = c.old /\ row[c.e].flag = c.oldFlag
    BY DEF Inv, WrittenBack
  <2>2. Len(files) \in 1 .. Len(files)
    BY DEF Inv, Typed, ScriptTyped, TodoFiled
  <2>3. c.e \in Employees
    BY <1>2, <2>2
  <2> QED BY <2>1, <2>3 DEF ServerStep
<1> QED BY <1>3, <1>4, <1>5, <1>7, <1>8, <1>9 DEF Inv

\* encryptEmployeeIdentityForStorage stores the text it is given.
LEMMA EncryptTyped ==
  ASSUME NEW text \in Text, NEW wanted
  PROVE  EncryptForStorage(text, wanted) \in Stored /\ EncryptForStorage(text, wanted).text = text
BY DEF EncryptForStorage, Stored

LEMMA PlainTyped ==
  ASSUME NEW id \in Ids
  PROVE  /\ Plain(id) \in Text /\ Plain(id).id = id
         /\ \A e : Readable(e, Plain(id))
BY DEF Plain, Text, Readable

LEMMA CreateEmployeeStep ==
  ASSUME Inv, NEW i \in Instances, NEW e \in Employees, NEW id \in Ids, NEW w \in BOOLEAN,
         CreateEmployee(i, e, id, w), UNCHANGED scriptVars
  PROVE  ServerStep
<1>1. RowsTyped
  BY DEF Inv, Typed
<1>2. PICK v \in Stored : v = EncryptForStorage(Plain(id), w) /\ v.text = Plain(id)
  BY EncryptTyped, PlainTyped
<1> DEFINE x == [value |-> v, flag |-> w, state |-> "current"]
<1>3. x \in Row /\ x.value.text = Plain(id) /\ x.state = "current"
  BY <1>2 DEF Row
<1>4. /\ row' = [row EXCEPT ![e] = x] /\ named' = [named EXCEPT ![e] = id]
      /\ since' = since \cup {e} /\ edits' \in 0 .. MaxEdits
      /\ UNCHANGED <<useAes, look, edit, bulk, overwritten>>
  BY <1>1, <1>2, IdentityAssumption DEF CreateEmployee, Counted, RowsTyped
<1> HIDE DEF x
<1>5. RowsTyped'
  BY <1>1, <1>3, <1>4 DEF RowsTyped
<1>6. \A f \in Employees : /\ f # e => row'[f] = row[f] /\ named'[f] = named[f]
                           /\ f = e => row'[f] = x /\ named'[f] = id
  BY <1>1, <1>4 DEF RowsTyped
<1>7. \A f \in Employees :
         /\ Present(f) => Present(f)'
         /\ f \notin since' => row'[f].value = row[f].value /\ row'[f].flag = row[f].flag
         /\ Readable(f, row'[f].value.text)
         /\ Present(f)' /\ f \notin overwritten' => row'[f].value.text.id = named'[f]
  BY <1>3, <1>4, <1>6, PlainTyped DEF Present, Inv, RuinedBacked, NamedShown
<1> QED BY <1>4, <1>5, <1>7 DEF ServerStep, Inv, RuinedBacked

\* A step of the server that leaves every value and flag, and what was typed, alone.
QuietStep ==
  /\ UNCHANGED scriptVars /\ RowsTyped'
  /\ \A e \in Employees : row'[e].value = row[e].value /\ row'[e].flag = row[e].flag
                          /\ (Present(e)' <=> Present(e))
  /\ edit'.at = "read" => Readable(edit'.e, edit'.value.text)
  /\ \A b \in bulk' : Readable(b.e, b.value.text)
  /\ UNCHANGED <<named, overwritten, since>>

LEMMA QuietIsServerStep ==
  ASSUME Inv, QuietStep
  PROVE  ServerStep
BY DEF Inv, QuietStep, ServerStep, RuinedBacked, NamedShown

LEMMA QuietSteps ==
  ASSUME Inv, UNCHANGED scriptVars, NEW e, NEW i,
         \/ SwitchAes \/ EncryptAllRead
         \/ e \in Employees /\ (UpdateRead(e) \/ BinEmployee(i, e) \/ RestoreEmployee(i, e))
  PROVE  QuietStep
<1>1. RowsTyped /\ RuinedBacked
  BY DEF Inv, Typed
<1>2. CASE SwitchAes
  <2>1. edits' \in 0 .. MaxEdits /\ useAes' \in BOOLEAN
    BY <1>1, <1>2, IdentityAssumption DEF SwitchAes, Counted, RowsTyped
  <2>2. /\ row' = row /\ edit' = NotEditing /\ bulk' = {}
        /\ UNCHANGED <<named, overwritten, since>>
    BY <1>2 DEF SwitchAes
  <2> QED BY <1>1, <2>1, <2>2 DEF QuietStep, RowsTyped, NotEditing, Present
<1>3. CASE EncryptAllRead
  <2>1. edits' \in 0 .. MaxEdits
    BY <1>1, <1>3, IdentityAssumption DEF EncryptAllRead, Counted, RowsTyped
  <2>2. UNCHANGED <<row, useAes, cache, look, edit, named, overwritten, since>>
    BY <1>3 DEF EncryptAllRead
  <2>3. \A b \in bulk' : \E f \in Employees : b = [e |-> f, value |-> row[f].value]
    BY <1>3 DEF EncryptAllRead
  <2>4. ASSUME NEW f \in Employees
        PROVE  [e |-> f, value |-> row[f].value] \in [e : Employees, value : Stored]
    BY <1>1 DEF RowsTyped, Row
  <2>5. RowsTyped'
    BY <1>1, <2>1, <2>2, <2>3, <2>4 DEF RowsTyped
  <2>6. \A b \in bulk' : Readable(b.e, b.value.text)
    BY <1>1, <2>3 DEF RuinedBacked
  <2>7. \A f \in Employees : row'[f].value = row[f].value /\ row'[f].flag = row[f].flag
                             /\ (Present(f)' <=> Present(f))
    BY <2>2 DEF Present
  <2>8. edit'.at = "read" => Readable(edit'.e, edit'.value.text)
    BY <1>1, <2>2 DEF RuinedBacked
  <2> QED BY <2>2, <2>5, <2>6, <2>7, <2>8 DEF QuietStep
<1>4. CASE e \in Employees /\ UpdateRead(e)
  <2>1. edits' \in 0 .. MaxEdits
    BY <1>1, <1>4, IdentityAssumption DEF UpdateRead, Counted, RowsTyped
  <2>2. row[e].value \in Stored
    BY <1>1, <1>4 DEF RowsTyped, Row
  <2>3. UNCHANGED <<row, useAes, cache, look, bulk, named, overwritten, since>>
    BY <1>4 DEF UpdateRead
  <2>4. edit' = [at |-> "read", e |-> e, value |-> row[e].value]
    BY <1>4 DEF UpdateRead
  <2>5. RowsTyped'
    BY <1>1, <1>4, <2>1, <2>2, <2>3, <2>4 DEF RowsTyped
  <2> QED BY <1>1, <1>4, <2>3, <2>4, <2>5 DEF QuietStep, RuinedBacked, Present
<1>5. CASE e \in Employees /\ (BinEmployee(i, e) \/ RestoreEmployee(i, e))
  <2>1. edits' \in 0 .. MaxEdits
    BY <1>1, <1>5, IdentityAssumption DEF BinEmployee, RestoreEmployee, Counted, RowsTyped
  <2>2. UNCHANGED <<useAes, edit, bulk, named, overwritten, since>>
    BY <1>5 DEF BinEmployee, RestoreEmployee
  <2>3. PICK s \in {"current", "binned"} : row' = [row EXCEPT ![e].state = s]
    BY <1>5 DEF BinEmployee, RestoreEmployee
  <2>4. row[e].state # "absent"
    BY <1>5 DEF BinEmployee, RestoreEmployee
  <2> DEFINE x == [row[e] EXCEPT !.state = s]
  <2>5. x \in Row /\ x.value = row[e].value /\ x.flag = row[e].flag /\ x.state = s
    BY <1>1, <1>5 DEF RowsTyped, Row
  <2>6. row' = [row EXCEPT ![e] = x]
    BY <2>3
  <2> HIDE DEF x
  <2>7. RowsTyped'
    BY <1>1, <2>1, <2>2, <2>5, <2>6 DEF RowsTyped
  <2>8. \A f \in Employees : row'[f].value = row[f].value /\ row'[f].flag = row[f].flag
                             /\ (Present(f)' <=> Present(f))
    BY <1>1, <2>4, <2>5, <2>6 DEF RowsTyped, Present
  <2> QED BY <1>1, <2>2, <2>7, <2>8 DEF QuietStep, RuinedBacked
<1> QED BY <1>2, <1>3, <1>4, <1>5

\* updateEmployee keeps the stored bytes of an identity that reads as before.
LEMMA UpdatedValueTyped ==
  ASSUME Inv, edit.at = "read", NEW text \in Text, NEW w \in BOOLEAN,
         text = Display(edit.value) \/ \E id \in Ids : text = Plain(id)
  PROVE  /\ edit.e \in Employees
         /\ UpdatedValue(text, w) \in Stored /\ UpdatedValue(text, w).text = text
         /\ Readable(edit.e, text)
<1>1. edit.e \in Employees /\ edit.value \in Stored /\ Readable(edit.e, edit.value.text)
  BY DEF Inv, Typed, RowsTyped, RuinedBacked, NotEditing
<1>2. EncryptForStorage(text, w) \in Stored /\ EncryptForStorage(text, w).text = text
  BY EncryptTyped
<1> QED BY <1>1, <1>2, PlainTyped DEF UpdatedValue, Display

LEMMA UpdateWriteStep ==
  ASSUME Inv, NEW i \in Instances, NEW text \in Text, NEW w \in BOOLEAN,
         UpdateWrite(i, text, w), UNCHANGED scriptVars
  PROVE  ServerStep
<1>0. RowsTyped /\ RuinedBacked /\ NamedShown
  BY DEF Inv, Typed
<1>1. edit.at = "read" /\ edit' = NotEditing /\ UNCHANGED <<useAes, look, bulk, edits>>
  BY DEF UpdateWrite
<1>2. text = Display(edit.value) \/ \E id \in Ids : text = Plain(id)
  BY DEF UpdateWrite
<1>3. PICK e \in Employees : e = edit.e
  BY <1>1, <1>2, UpdatedValueTyped
<1>4. PICK v \in Stored : v = UpdatedValue(text, w) /\ v.text = text /\ Readable(e, text)
  BY <1>1, <1>2, <1>3, UpdatedValueTyped
<1>5. /\ edit'.at = "read" => Readable(edit'.e, edit'.value.text)
      /\ \A b \in bulk' : Readable(b.e, b.value.text)
  BY <1>0, <1>1 DEF RuinedBacked, NotEditing
<1>6. CASE UNCHANGED <<row, named, overwritten, since, cache>>
  <2>1. QuietStep
    BY <1>0, <1>1, <1>5, <1>6 DEF QuietStep, RowsTyped, Present
  <2> QED BY <2>1, QuietIsServerStep
<1>7. ASSUME Present(e),
             row' = [row EXCEPT ![e].value = v, ![e].flag = w],
             named' = IF text = Display(edit.value) THEN named ELSE [named EXCEPT ![e] = text.id],
             overwritten' = IF text # Display(edit.value) THEN overwritten \ {e}
                            ELSE overwritten \cup {f \in {e} : Display(row[f].value) # text},
             since' = since \cup {e}
      PROVE  ServerStep
  <2> DEFINE x == [row[e] EXCEPT !.value = v, !.flag = w]
  <2>1. x \in Row /\ x.value = v /\ x.flag = w /\ x.state = row[e].state
    BY <1>0 DEF RowsTyped, Row
  <2>2. row' = [row EXCEPT ![e] = x]
    BY <1>0, <1>7 DEF RowsTyped
  <2> HIDE DEF x
  <2>3. text.id \in Ids
    BY DEF Text
  <2>4. RowsTyped'
    <3>1. row' \in [Employees -> Row]
      BY <1>0, <2>1, <2>2 DEF RowsTyped
    <3>2. named' \in [Employees -> Ids]
      BY <1>0, <1>7, <2>3 DEF RowsTyped
    <3>3. overwritten' \subseteq Employees /\ since' \subseteq Employees
      BY <1>0, <1>7 DEF RowsTyped
    <3> QED BY <1>0, <1>1, <3>1, <3>2, <3>3 DEF RowsTyped
  <2>5. /\ \A f \in Employees \ {e} : row'[f] = row[f] /\ named'[f] = named[f]
                                       /\ (f \in overwritten' <=> f \in overwritten)
        /\ row'[e] = x
    BY <1>0, <1>7, <2>2 DEF RowsTyped
  <2>6. e \notin overwritten' => text.id = named'[e]
    <3>1. CASE text # Display(edit.value)
      BY <1>0, <1>7, <3>1 DEF RowsTyped
    <3>2. CASE text = Display(edit.value)
      <4>1. e \notin overwritten' => e \notin overwritten /\ row[e].value.text = text
        BY <1>7, <3>2 DEF Display
      <4> QED BY <1>0, <1>7, <3>2, <4>1 DEF NamedShown
    <3> QED BY <3>1, <3>2
  <2>7. \A f \in Employees :
          /\ Present(f) => Present(f)'
          /\ f \notin since' => row'[f].value = row[f].value /\ row'[f].flag = row[f].flag
          /\ Readable(f, row'[f].value.text)
          /\ Present(f)' /\ f \notin overwritten' => row'[f].value.text.id = named'[f]
    <3>1. ASSUME NEW f \in Employees \ {e}
          PROVE  /\ Present(f) => Present(f)'
                 /\ f \notin since' => row'[f].value = row[f].value /\ row'[f].flag = row[f].flag
                 /\ Readable(f, row'[f].value.text)
                 /\ Present(f)' /\ f \notin overwritten' => row'[f].value.text.id = named'[f]
      BY <1>0, <2>5 DEF Present, RuinedBacked, NamedShown
    <3>2. Present(e)' /\ e \in since' /\ Readable(e, row'[e].value.text)
          /\ (e \notin overwritten' => row'[e].value.text.id = named'[e])
      BY <1>4, <1>7, <2>1, <2>5, <2>6 DEF Present
    <3> QED BY <3>1, <3>2
  <2> QED BY <1>5, <1>7, <2>4, <2>7 DEF ServerStep
<1>8. \/ UNCHANGED <<row, named, overwritten, since, cache>>
      \/ /\ Present(e)
         /\ row' = [row EXCEPT ![e].value = v, ![e].flag = w]
         /\ named' = IF text = Display(edit.value) THEN named ELSE [named EXCEPT ![e] = text.id]
         /\ overwritten' = IF text # Display(edit.value) THEN overwritten \ {e}
                           ELSE overwritten \cup {f \in {e} : Display(row[f].value) # text}
         /\ since' = since \cup {e}
  BY <1>3, <1>4 DEF UpdateWrite
<1> QED BY <1>6, <1>7, <1>8

LEMMA EncryptAllWriteStep ==
  ASSUME Inv, NEW i \in Instances, EncryptAllWrite(i), UNCHANGED scriptVars
  PROVE  ServerStep
<1>0. RowsTyped /\ RuinedBacked /\ NamedShown
  BY DEF Inv, Typed
<1> DEFINE by(e) == CHOOSE b \in bulk : b.e = e
           hit == {e \in Employees : Present(e) /\ \E b \in bulk : b.e = e}
           enc(e) == EncryptForStorage(Display(by(e).value), TRUE)
           x(e) == [row[e] EXCEPT !.value = enc(e), !.flag = TRUE]
<1>1. /\ bulk' = {} /\ row' = [e \in Employees |-> IF e \in hit THEN x(e) ELSE row[e]]
      /\ overwritten' = overwritten \cup {e \in hit : Display(row[e].value) # Display(by(e).value)}
      /\ since' = since \cup hit
      /\ UNCHANGED <<useAes, look, edit, edits, named>>
  BY DEF EncryptAllWrite
<1>2. ASSUME NEW e \in hit
      PROVE  /\ x(e) \in Row /\ x(e).value.text = Display(by(e).value)
             /\ x(e).state = row[e].state
             /\ Readable(e, x(e).value.text)
  <2>1. by(e) \in bulk /\ by(e).e = e
    OBVIOUS
  <2> HIDE DEF by
  <2>2. Display(by(e).value) \in Text /\ Readable(e, Display(by(e).value))
    BY <1>0, <2>1 DEF RowsTyped, RuinedBacked, Stored, Display
  <2>3. enc(e) \in Stored /\ enc(e).text = Display(by(e).value)
    BY <2>2, EncryptTyped
  <2> HIDE DEF enc
  <2> QED BY <1>0, <2>2, <2>3 DEF RowsTyped, Row
<1>3. hit \subseteq Employees
  OBVIOUS
<1>4. \A e \in hit : e \notin overwritten' => Display(by(e).value) = row[e].value.text
  BY <1>1 DEF Display
<1>5. \A e \in hit : row'[e] = x(e) /\ e \in since' /\ Present(e)
  BY <1>1
<1>6. \A e \in Employees \ hit : row'[e] = row[e]
  BY <1>1
<1>7. overwritten \subseteq overwritten' /\ since \subseteq since'
      /\ overwritten' \subseteq Employees /\ since' \subseteq Employees
  BY <1>0, <1>1 DEF RowsTyped
<1>8. row' \in [Employees -> Row]
  <2> HIDE DEF hit, x
  <2> QED BY <1>0, <1>1, <1>2, <1>3 DEF RowsTyped
<1> HIDE DEF hit, x, by
<1>9. RowsTyped'
  BY <1>0, <1>1, <1>7, <1>8 DEF RowsTyped
<1>10. \A f \in Employees :
         /\ Present(f) => Present(f)'
         /\ f \notin since' => row'[f].value = row[f].value /\ row'[f].flag = row[f].flag
         /\ Readable(f, row'[f].value.text)
         /\ Present(f)' /\ f \notin overwritten' => row'[f].value.text.id = named'[f]
  <2>1. ASSUME NEW f \in hit
        PROVE  /\ Present(f)' /\ f \in since' /\ Readable(f, row'[f].value.text)
               /\ f \notin overwritten' => row'[f].value.text.id = named'[f]
    BY <1>0, <1>1, <1>2, <1>3, <1>4, <1>5, <1>7, <2>1 DEF Present, NamedShown
  <2>2. ASSUME NEW f \in Employees \ hit
        PROVE  /\ Present(f) => Present(f)'
               /\ row'[f].value = row[f].value /\ row'[f].flag = row[f].flag
               /\ Readable(f, row'[f].value.text)
               /\ Present(f)' /\ f \notin overwritten' => row'[f].value.text.id = named'[f]
    BY <1>0, <1>1, <1>6, <1>7, <2>2 DEF Present, RuinedBacked, NamedShown
  <2> QED BY <2>1, <2>2
<1> QED BY <1>0, <1>1, <1>7, <1>9, <1>10 DEF ServerStep, RuinedBacked

-----------------------------------------------------------------------------
(* The script.                                                              *)

\* analyzeEmployeesForAesMigration lists each present row once, with its old value.
LEMMA CandidatesFacts ==
  ASSUME Inv, NEW scope \in SUBSET Employees
  PROVE  /\ Candidates(scope) \subseteq Candidate
         /\ \A c, d \in Candidates(scope) : c.e = d.e => c = d
         /\ \A c \in Candidates(scope) :
              Present(c.e) /\ c.text.id = c.old.text.id /\ Readable(c.e, c.old.text)
<1> DEFINE Of(e) == [e |-> e, old |-> row[e].value, oldFlag |-> row[e].flag,
                     text |-> PlaintextIdentity(row[e])]
<1>1. ASSUME NEW e \in Employees
      PROVE  /\ Of(e) \in Candidate /\ Of(e).e = e /\ Of(e).old = row[e].value
             /\ Of(e).text.id = Of(e).old.text.id /\ Readable(e, Of(e).old.text)
  <2>1. row[e] \in Row /\ Readable(e, row[e].value.text)
    BY DEF Inv, Typed, RowsTyped, RuinedBacked
  <2>2. PICK t \in Text : t = row[e].value.text
    BY <2>1 DEF Row, Stored
  <2>3. PlaintextIdentity(row[e]) \in Text /\ PlaintextIdentity(row[e]).id = t.id
    BY <2>2 DEF PlaintextIdentity, Plain, Text
  <2> QED BY <2>1, <2>2, <2>3 DEF Candidate, Row
<1>2. \A c \in Candidates(scope) : \E e \in Employees : Present(e) /\ c = Of(e)
  BY DEF Candidates
<1> HIDE DEF Of
<1> QED BY <1>1, <1>2

\* A snapshot adds a file, or finds nothing to put in one; old files stay.
LEMMA SnapshotKeeps ==
  ASSUME Inv, NEW scope \in SUBSET Employees, Snapshot(scope),
         UNCHANGED <<row, useAes, cache, look, edit, bulk, edits, named, overwritten>>
  PROVE  /\ LooksTyped' /\ RowsTyped' /\ FilesKeyed' /\ RuinedBacked' /\ NamedShown'
         /\ files' \in Seq(SUBSET Candidate) /\ Len(files') <= MaxFiles
         /\ Candidates(scope) # {} => files' # <<>> /\ files'[Len(files')] = Candidates(scope)
<1>0. LooksTyped /\ RowsTyped /\ FilesKeyed /\ RuinedBacked /\ NamedShown
      /\ files \in Seq(SUBSET Candidate) /\ Len(files) <= MaxFiles
  BY DEF Inv, Typed, ScriptTyped
<1>1. LooksTyped' /\ NamedShown' /\ (\A e : Present(e)' <=> Present(e))
  BY <1>0 DEF LooksTyped, NamedShown, Present
<1>2. CASE Candidates(scope) = {}
  <2>1. files' = files /\ since' = since
    BY <1>2 DEF Snapshot
  <2> QED BY <1>0, <1>1, <1>2, <2>1 DEF RowsTyped, FilesKeyed, RuinedBacked, Readable, Backed
<1>3. CASE Candidates(scope) # {}
  <2>1. PICK new \in SUBSET Candidate : new = Candidates(scope)
    BY CandidatesFacts
  <2>2. files' = Append(files, new) /\ since' = {} /\ Len(files) < MaxFiles
    BY <1>3, <2>1 DEF Snapshot
  <2>3. Len(files) \in Nat /\ MaxFiles \in Nat
    BY <1>0, AesAssumption
  <2>4. /\ files' \in Seq(SUBSET Candidate) /\ Len(files') = Len(files) + 1
        /\ \A n \in 1 .. Len(files) : files'[n] = files[n]
        /\ files'[Len(files) + 1] = new
    BY <1>0, <2>2
  <2>5. /\ \A c, d \in new : c.e = d.e => c = d
        /\ \A c \in new : Present(c.e) /\ c.text.id = c.old.text.id /\ Readable(c.e, c.old.text)
    BY <2>1, CandidatesFacts
  <2>6. \A n \in 1 .. Len(files') : n \in 1 .. Len(files) \/ n = Len(files) + 1
    BY <2>3, <2>4
  <2>7. 1 .. Len(files) \subseteq 1 .. Len(files')
    BY <2>3, <2>4
  <2>8. \A e, text : Readable(e, text) => Readable(e, text)'
    BY <2>4, <2>7 DEF Readable, Backed
  <2>9. FilesKeyed'
    BY <1>0, <1>1, <2>4, <2>5, <2>6 DEF FilesKeyed
  <2>10. RuinedBacked'
    BY <1>0, <2>4, <2>5, <2>6, <2>8 DEF RuinedBacked
  <2>11. RowsTyped'
    BY <1>0, <2>2 DEF RowsTyped
  <2>12. Len(files') <= MaxFiles /\ files' # <<>> /\ files'[Len(files')] = new
    BY <2>2, <2>3, <2>4
  <2> QED BY <1>1, <2>1, <2>4, <2>9, <2>10, <2>11, <2>12
<1> QED BY <1>2, <1>3

LEMMA SnapshotStepsKeepInv ==
  ASSUME Inv, NEW scope \in SUBSET Employees, ExecutePlan(scope) \/ TakeSnapshot(scope)
  PROVE  Inv'
<1>1. /\ Snapshot(scope)
      /\ UNCHANGED <<row, useAes, cache, look, edit, bulk, edits, named, overwritten>>
  BY DEF ExecutePlan, TakeSnapshot
<1>2. /\ LooksTyped' /\ RowsTyped' /\ FilesKeyed' /\ RuinedBacked' /\ NamedShown'
      /\ files' \in Seq(SUBSET Candidate) /\ Len(files') <= MaxFiles
      /\ Candidates(scope) # {} => files' # <<>> /\ files'[Len(files')] = Candidates(scope)
  BY <1>1, SnapshotKeeps
<1>3. \/ script' = [at |-> "idle", todo |-> {}]
      \/ script' = [at |-> "migrate", todo |-> Candidates(scope)] /\ Candidates(scope) # {}
  BY DEF ExecutePlan, TakeSnapshot, NoScript
<1>4. Candidates(scope) \subseteq Candidate
  BY CandidatesFacts
<1>5. ScriptTyped'
  BY <1>2, <1>3, <1>4 DEF ScriptTyped
<1>6. TodoFiled' /\ WrittenBack'
  BY <1>2, <1>3 DEF TodoFiled, WrittenBack
<1> QED BY <1>2, <1>5, <1>6 DEF Inv, Typed

LEMMA RollbackReadKeepsInv ==
  ASSUME Inv, RollbackRead
  PROVE  Inv'
<1>1. /\ files # <<>> /\ script' = [at |-> "rollback", todo |-> files[Len(files)]]
      /\ UNCHANGED <<identityVars, files>>
  BY DEF RollbackRead, Last
<1>2. Typed'
  <2>1. files[Len(files)] \in SUBSET Candidate
    BY <1>1 DEF Inv, Typed, ScriptTyped
  <2> QED BY <1>1, <2>1 DEF Inv, Typed, ScriptTyped, LooksTyped, RowsTyped, identityVars
<1> QED BY <1>1, <1>2 DEF Inv, FilesKeyed, TodoFiled, RuinedBacked, Readable, Backed, NamedShown,
           WrittenBack, Present, identityVars

LEMMA ScriptDiesKeepsInv ==
  ASSUME Inv, ScriptDies
  PROVE  Inv'
BY DEF ScriptDies, NoScript, Inv, Typed, ScriptTyped, LooksTyped, RowsTyped, FilesKeyed, TodoFiled,
       RuinedBacked, Readable, Backed, NamedShown, WrittenBack, Present, identityVars

\* A statement of the script writes a text with the identity its file lists.
LEMMA WriteRowKeeps ==
  ASSUME Inv, script.at \in {"migrate", "rollback"}, NEW c \in script.todo,
         NEW value \in Stored, NEW flag \in BOOLEAN,
         value.text.id = c.old.text.id, Readable(c.e, value.text), WriteRow(c, value, flag)
  PROVE  /\ LooksTyped' /\ RowsTyped' /\ FilesKeyed' /\ RuinedBacked' /\ NamedShown'
         /\ files' = files /\ since' = since
         /\ c.e \in Employees /\ row'[c.e].value = value /\ row'[c.e].flag = flag
         /\ \A e \in Employees : e # c.e => row'[e] = row[e]
<1>0. LooksTyped /\ RowsTyped /\ FilesKeyed /\ RuinedBacked /\ NamedShown
  BY DEF Inv, Typed
<1>1. PICK n \in 1 .. Len(files) : c \in files[n]
  BY DEF Inv, TodoFiled, Typed, ScriptTyped
<1>2. PICK e \in Employees : e = c.e
  BY <1>1 DEF Inv, Typed, ScriptTyped, Candidate
<1>3. Present(e)
  BY <1>0, <1>1, <1>2 DEF FilesKeyed
<1> DEFINE x == [row[e] EXCEPT !.value = value, !.flag = flag]
<1>4. x \in Row /\ x.value = value /\ x.flag = flag /\ x.state = row[e].state
  BY <1>0 DEF RowsTyped, Row
<1>5. row' = [row EXCEPT ![e] = x]
  BY <1>0, <1>2, <1>3 DEF WriteRow, RowsTyped
<1> HIDE DEF x
<1>6. /\ overwritten' = IF row[e].value.text.id # c.old.text.id
                        THEN overwritten \cup {e} ELSE overwritten
      /\ UNCHANGED <<useAes, cache, look, edit, bulk, edits, named, since, files>>
  BY <1>2 DEF WriteRow
<1>7. row'[e] = x /\ \A f \in Employees : f # e => row'[f] = row[f]
  BY <1>0, <1>5 DEF RowsTyped
<1>8. row' \in [Employees -> Row] /\ overwritten' \subseteq Employees
  BY <1>0, <1>4, <1>5, <1>6 DEF RowsTyped
<1>9. RowsTyped' /\ LooksTyped'
  BY <1>0, <1>6, <1>8 DEF RowsTyped, LooksTyped
<1>10. \A f \in Employees : Present(f)' <=> Present(f)
  BY <1>4, <1>7 DEF Present
<1>11. FilesKeyed'
  <2>1. \A m \in 1 .. Len(files) : \A d \in files[m] : d.e \in Employees
    BY DEF Inv, Typed, ScriptTyped, Candidate
  <2> QED BY <1>0, <1>6, <1>10, <2>1 DEF FilesKeyed
<1>12. \A f, text : Readable(f, text)' <=> Readable(f, text)
  BY <1>6 DEF Readable, Backed
<1>13. RuinedBacked'
  BY <1>0, <1>2, <1>4, <1>6, <1>7, <1>12 DEF RuinedBacked
<1>14. NamedShown'
  <2>1. e \notin overwritten' => row'[e].value.text.id = named[e]
    BY <1>0, <1>3, <1>4, <1>6, <1>7 DEF NamedShown
  <2> QED BY <1>0, <1>6, <1>7, <1>10, <2>1 DEF NamedShown
<1> QED BY <1>2, <1>4, <1>6, <1>7, <1>9, <1>11, <1>13, <1>14

LEMMA MigrateRowKeepsInv ==
  ASSUME Inv, NEW c \in script.todo, MigrateRow(c)
  PROVE  Inv'
<1>1. /\ script.at = "migrate" /\ WriteRow(c, [aes |-> "aes", text |-> c.text], TRUE)
      /\ script' = IF script.todo = {c} THEN NoScript ELSE [script EXCEPT !.todo = @ \ {c}]
  BY DEF MigrateRow
<1>2. PICK n \in 1 .. Len(files) : c \in files[n]
  BY <1>1 DEF Inv, TodoFiled, Typed, ScriptTyped
<1>3. c \in Candidate
  BY <1>2 DEF Inv, Typed, ScriptTyped
<1>4. c.text.id = c.old.text.id /\ Readable(c.e, c.old.text)
  BY <1>2 DEF Inv, FilesKeyed, RuinedBacked
<1> DEFINE value == [aes |-> "aes", text |-> c.text]
<1>5. value \in Stored /\ value.text = c.text
  BY <1>3 DEF Candidate, Stored
<1>6. Readable(c.e, c.text)
  BY <1>2, <1>4 DEF Readable, Backed
<1> HIDE DEF value
<1>7. WriteRow(c, value, TRUE)
  BY <1>1 DEF value
<1>8. /\ LooksTyped' /\ RowsTyped' /\ FilesKeyed' /\ RuinedBacked' /\ NamedShown' /\ files' = files
  BY <1>1, <1>4, <1>5, <1>6, <1>7, WriteRowKeeps
<1>9. \/ script' = [at |-> "idle", todo |-> {}]
      \/ script' = [at |-> "migrate", todo |-> script.todo \ {c}]
  BY <1>1 DEF NoScript, Inv, Typed, ScriptTyped
<1>10. ScriptTyped'
  BY <1>8, <1>9 DEF Inv, Typed, ScriptTyped
<1>11. TodoFiled' /\ WrittenBack'
  BY <1>1, <1>8, <1>9 DEF Inv, TodoFiled, WrittenBack
<1> QED BY <1>8, <1>10, <1>11 DEF Inv, Typed

LEMMA RollbackRowKeepsInv ==
  ASSUME Inv, NEW c \in script.todo, RollbackRow(c)
  PROVE  Inv'
<1>1. /\ script.at = "rollback" /\ WriteRow(c, c.old, c.oldFlag)
      /\ script' = IF script.todo = {c} THEN [at |-> "rolledback", todo |-> {}]
                   ELSE [script EXCEPT !.todo = @ \ {c}]
  BY DEF RollbackRow
<1>2. Len(files) \in 1 .. Len(files) /\ c \in files[Len(files)]
  BY <1>1 DEF Inv, TodoFiled, Typed, ScriptTyped
<1>3. c \in Candidate /\ c.old \in Stored /\ c.oldFlag \in BOOLEAN
  BY <1>2 DEF Inv, Typed, ScriptTyped, Candidate
<1>4. Readable(c.e, c.old.text)
  BY <1>2 DEF Inv, RuinedBacked
<1>5. /\ LooksTyped' /\ RowsTyped' /\ FilesKeyed' /\ RuinedBacked' /\ NamedShown'
      /\ files' = files /\ since' = since
      /\ c.e \in Employees /\ row'[c.e].value = c.old /\ row'[c.e].flag = c.oldFlag
      /\ \A e \in Employees : e # c.e => row'[e] = row[e]
  BY <1>1, <1>3, <1>4, WriteRowKeeps
<1>6. \/ script' = [at |-> "rolledback", todo |-> {}] /\ script.todo = {c}
      \/ script' = [at |-> "rollback", todo |-> script.todo \ {c}]
  BY <1>1 DEF Inv, Typed, ScriptTyped
<1>7. ScriptTyped'
  BY <1>5, <1>6 DEF Inv, Typed, ScriptTyped
<1>8. TodoFiled'
  BY <1>1, <1>5, <1>6 DEF Inv, TodoFiled
<1>9. WrittenBack'
  <2> SUFFICES ASSUME NEW d \in files[Len(files)]
               PROVE  \/ script'.at = "rollback" /\ d \in script'.todo
                      \/ d.e \in since
                      \/ row'[d.e].value = d.old /\ row'[d.e].flag = d.oldFlag
    BY <1>5 DEF WrittenBack
  <2>1. d.e \in Employees
    BY <1>2 DEF Inv, Typed, ScriptTyped, Candidate
  <2>2. d \in script.todo \/ d.e \in since \/ (row[d.e].value = d.old /\ row[d.e].flag = d.oldFlag)
    BY <1>1 DEF Inv, WrittenBack
  <2>3. CASE d.e = c.e
    <3>1. d = c
      BY <1>2, <2>3 DEF Inv, FilesKeyed
    <3> QED BY <1>5, <3>1
  <2>4. CASE d.e # c.e
    BY <1>5, <1>6, <2>1, <2>2, <2>4
  <2> QED BY <2>3, <2>4
<1> QED BY <1>5, <1>7, <1>8, <1>9 DEF Inv, Typed

-----------------------------------------------------------------------------
(* The specification.                                                       *)

LEMMA InitInv ==
  ASSUME Init
  PROVE  Inv
<1>1. script = [at |-> "idle", todo |-> {}] /\ files = <<>>
  BY DEF Init, NoScript
<1>2. /\ useAes \in BOOLEAN
      /\ cache = [i \in Instances |-> NoCache] /\ look = [i \in Instances |-> NotLooking]
      /\ edit = NotEditing /\ bulk = {} /\ edits = 0 /\ overwritten = {} /\ since = {}
  BY DEF Init, IdentityInit
<1>3. PICK value \in [Employees -> {v \in Stored : v.text.form # "ruined"
                                     /\ (v.text.form = "caesar" => v.aes = "no")}],
           hired \in SUBSET Employees :
        /\ row = [e \in Employees |->
                  [value |-> value[e], flag |-> value[e] # Clear(Plain(value[e].text.id)),
                   state |-> IF e \in hired THEN "current" ELSE "absent"]]
        /\ named = [e \in Employees |-> value[e].text.id]
  BY DEF Init, IdentityInit
<1>4. ASSUME NEW e \in Employees
      PROVE  /\ row[e] \in Row /\ named[e] \in Ids /\ row[e].value.text.id = named[e]
             /\ row[e].value.text.form # "ruined"
  <2>1. value[e] \in Stored /\ value[e].text.form # "ruined"
    BY <1>3
  <2>2. value[e].text.id \in Ids
    BY <2>1 DEF Stored, Text
  <2>3. /\ row[e] = [value |-> value[e], flag |-> value[e] # Clear(Plain(value[e].text.id)),
                     state |-> IF e \in hired THEN "current" ELSE "absent"]
        /\ named[e] = value[e].text.id
    BY <1>3
  <2> QED BY <2>1, <2>2, <2>3 DEF Row
<1>5. RowsTyped
  <2>1. row \in [Employees -> Row] /\ named \in [Employees -> Ids]
    BY <1>3, <1>4
  <2> QED BY <1>2, <2>1, IdentityAssumption DEF RowsTyped
<1>6. LooksTyped
  BY <1>2 DEF LooksTyped, LookType, LookReady, NotLooking, CacheMap
<1>7. ScriptTyped
  BY <1>1, AesAssumption DEF ScriptTyped
<1>8. FilesKeyed /\ TodoFiled /\ WrittenBack
  BY <1>1 DEF FilesKeyed, TodoFiled, WrittenBack
<1>9. RuinedBacked /\ NamedShown
  BY <1>1, <1>2, <1>4 DEF RuinedBacked, NamedShown, Readable, NotEditing
<1> QED BY <1>5, <1>6, <1>7, <1>8, <1>9 DEF Inv, Typed

\* A step of the server that is no step of a lookup.
ServerWrite ==
  \/ SwitchAes \/ EncryptAllRead
  \/ \E e \in Employees : UpdateRead(e)
  \/ \E i \in Instances :
       \/ \E e \in Employees, id \in Ids, w \in BOOLEAN : CreateEmployee(i, e, id, w)
       \/ \E text \in Text, w \in BOOLEAN : UpdateWrite(i, text, w)
       \/ \E e \in Employees : BinEmployee(i, e) \/ RestoreEmployee(i, e)
       \/ EncryptAllWrite(i)

LEMMA ServerWriteKeepsInv ==
  ASSUME Inv, ServerWrite, UNCHANGED scriptVars
  PROVE  Inv' /\ FoundIsShown
<1>1. LooksTyped
  BY DEF Inv, Typed
<1>2. LooksTyped' /\ FoundIsShown
  <2>1. CASE SwitchAes
    <3>1. cache' = [i \in Instances |-> NoCache] /\ look' = [i \in Instances |-> NotLooking]
      BY <2>1 DEF SwitchAes
    <3> QED BY <3>1 DEF LooksTyped, LookType, LookReady, NotLooking, CacheMap, FoundIsShown
  <2>2. ASSUME look' = look, cache' = cache \/ \E i \in Instances : Forgets(i)
        PROVE  LooksTyped' /\ FoundIsShown
    BY <1>1, <2>2, ForgetKeepsLooks DEF FoundIsShown
  <2>3. CASE EncryptAllRead \/ \E e \in Employees : UpdateRead(e)
    BY <2>2, <2>3 DEF EncryptAllRead, UpdateRead
  <2>4. ASSUME NEW i \in Instances, NEW e \in Employees,
               \/ \E id \in Ids, w \in BOOLEAN : CreateEmployee(i, e, id, w)
               \/ BinEmployee(i, e) \/ RestoreEmployee(i, e)
        PROVE  LooksTyped' /\ FoundIsShown
    BY <2>2, <2>4 DEF CreateEmployee, BinEmployee, RestoreEmployee, Invalidated, Forgets
  <2>5. ASSUME NEW i \in Instances, EncryptAllWrite(i)
        PROVE  LooksTyped' /\ FoundIsShown
    BY <2>2, <2>5 DEF EncryptAllWrite, Invalidated, Forgets
  <2>6. ASSUME NEW i \in Instances, NEW text \in Text, NEW w \in BOOLEAN, UpdateWrite(i, text, w)
        PROVE  LooksTyped' /\ FoundIsShown
    BY <2>2, <2>6 DEF UpdateWrite, Invalidated, Forgets
  <2> QED BY <2>1, <2>3, <2>4, <2>5, <2>6 DEF ServerWrite
<1>3. ServerStep
  <2>1. CASE SwitchAes \/ EncryptAllRead
    BY <2>1, QuietSteps, QuietIsServerStep
  <2>2. ASSUME NEW e \in Employees, UpdateRead(e)
        PROVE  ServerStep
    BY <2>2, QuietSteps, QuietIsServerStep
  <2>3. ASSUME NEW i \in Instances, NEW e \in Employees, BinEmployee(i, e) \/ RestoreEmployee(i, e)
        PROVE  ServerStep
    BY <2>3, QuietSteps, QuietIsServerStep
  <2> QED BY <2>1, <2>2, <2>3, CreateEmployeeStep, UpdateWriteStep, EncryptAllWriteStep DEF ServerWrite
<1> QED BY <1>2, <1>3, ServerStepKeepsInv

LEMMA LookStepKeepsInv ==
  ASSUME Inv, LookStep, UNCHANGED scriptVars
  PROVE  Inv' /\ FoundIsShown
<1>1. LooksTyped' /\ FoundIsShown
  BY LookStepTyped DEF Inv, Typed
<1>2. UNCHANGED <<row, useAes, edit, bulk, edits, named, overwritten, since>>
  BY DEF LookStep, LookDirect, LookCache, LookStore, LookReread, LookEnd
<1>3. QuietStep
  BY <1>2 DEF QuietStep, Inv, Typed, RowsTyped, RuinedBacked, Present
<1> QED BY <1>1, <1>3, QuietIsServerStep, ServerStepKeepsInv

\* The script leaves the lookups alone.
LEMMA ScriptStepKeepsInv ==
  ASSUME Inv,
         \/ \E scope \in (SUBSET Employees) \ {{}} : ExecutePlan(scope) \/ TakeSnapshot(scope)
         \/ \E c \in script.todo : MigrateRow(c) \/ RollbackRow(c)
         \/ RollbackRead \/ ScriptDies
  PROVE  Inv' /\ FoundIsShown
<1>1. Inv'
  BY SnapshotStepsKeepInv, MigrateRowKeepsInv, RollbackRowKeepsInv, RollbackReadKeepsInv,
     ScriptDiesKeepsInv
<1>2. look' = look
  BY DEF ExecutePlan, TakeSnapshot, MigrateRow, RollbackRow, WriteRow, RollbackRead, ScriptDies,
         identityVars
<1> QED BY <1>1, <1>2 DEF FoundIsShown

LEMMA NextKeepsInv ==
  ASSUME Inv, [Next]_vars
  PROVE  Inv' /\ FoundIsShown
<1>1. CASE IdentityNext /\ UNCHANGED scriptVars
  <2>1. ServerWrite \/ LookStep
    BY <1>1 DEF IdentityNext, ServerWrite, LookStep
  <2> QED BY <1>1, <2>1, ServerWriteKeepsInv, LookStepKeepsInv
<1>2. CASE UNCHANGED vars
  BY <1>2 DEF vars, identityVars, Inv, Typed, ScriptTyped, LooksTyped, RowsTyped, FilesKeyed,
     TodoFiled, RuinedBacked, Readable, Backed, NamedShown, WrittenBack, Present, FoundIsShown
<1> QED BY <1>1, <1>2, ScriptStepKeepsInv DEF Next

\* The inductive invariant holds of every reachable state: what handlers and the
\* script still hold can be read or restored, and files list rows as they were.
THEOREM Invariance == Spec => []Inv
<1>1. Init => Inv
  BY InitInv
<1>2. Inv /\ [Next]_vars => Inv'
  BY NextKeepsInv
<1> QED BY <1>1, <1>2, PTL DEF Spec

LEMMA InvKeepsIdentities ==
  ASSUME Inv
  PROVE  IdentitiesKept
<1>1. TypeOK
  BY DEF Inv, Typed, LooksTyped, RowsTyped, ScriptTyped, TypeOK, IdentityTypeOK, LookType, LookReady,
         CacheMap, NotEditing, Candidate
<1>2. IdentityRecoverable
  <2> SUFFICES ASSUME NEW e \in Employees, Present(e), e \notin overwritten
               PROVE  \/ row[e].value.text \in {Plain(named[e]), [form |-> "caesar", id |-> named[e]]}
                      \/ Backed(e, named[e])
    BY DEF IdentityRecoverable, Backed
  <2>1. PICK t \in Text : t = row[e].value.text
    BY DEF Inv, Typed, RowsTyped, Row, Stored
  <2>2. t.id = named[e] /\ Readable(e, t)
    BY <2>1 DEF Inv, NamedShown, RuinedBacked
  <2> QED BY <2>1, <2>2 DEF Text, Plain, Readable
<1>3. RollbackExact
  BY DEF Inv, WrittenBack, RollbackExact, Last
<1> QED BY <1>1, <1>2, <1>3 DEF IdentitiesKept

\* migrate-to-aes.mjs, its rollback, its death at any statement and the server's own
\* writes never lose an identity beyond what the snapshots hold, and a finished
\* rollback has put back every row the server left alone.
THEOREM IdentitiesAreKept == Spec => []IdentitiesKept
<1>1. Inv => IdentitiesKept
  BY InvKeepsIdentities
<1> QED BY <1>1, Invariance, PTL

\* getEmployeeByIdNumber answers a scan only with a current employee whose row shows
\* the scanned identity at that moment, however stale the cache was.
THEOREM LookupsAreCurrent == Spec => LookupCurrent
<1>1. Inv /\ [Next]_vars =>
        [\A i \in Instances : look'[i].at = "found" /\ look[i].at # "found" =>
           Shows(look'[i].found, look'[i].id)]_vars
  BY NextKeepsInv DEF FoundIsShown
<1> QED BY <1>1, Invariance, PTL DEF Spec, LookupCurrent
=============================================================================
