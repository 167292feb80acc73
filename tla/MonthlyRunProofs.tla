-------------------------- MODULE MonthlyRunProofs --------------------------
(***************************************************************************)
(* The salary records of a month and its automation, for any number of     *)
(* employees, dialogs, runners and writes: the correction journal, the     *)
(* requests of the dialogs, the single runner and the delivered report.    *)
(***************************************************************************)
EXTENDS MonthlyRun, FiniteSetTheorems, TLAPS

-----------------------------------------------------------------------------
(* The inductive invariant.                                                 *)

\* Ids of records were given out, and name one record each.
RecordsKeyed ==
    /\ \A r \in records : r.id \in 1 .. stamp
    /\ \A r, s \in records : r.id = s.id => r = s

\* A correction is of the record its request names.
CorrectionsKnown ==
    \A c \in corrections : c.rec \in 0 .. stamp /\ c.rec = c.request.rec

Asked == sent \cup {edit[d].request : d \in Editors}

\* A request is never ahead of its record; while the record still has the revision
\* the dialog showed, and is not anonymized, it still says what the dialog showed.
RequestsShown ==
    \A q \in Asked :
        /\ q.rec <= stamp
        /\ \A r \in records : r.id = q.rec =>
              /\ q.rev <= r.rev
              /\ q.rev = r.rev /\ ~r.retained => r.val = q.seen

\* What was refused as stale was not applied, and can never be applied again.
StaleStays ==
    \A d \in Editors : edit[d].answer = "stale" =>
        /\ \A c \in corrections : c.request # edit[d].request
        /\ \A r \in records : r.id = edit[d].request.rec => ~Applicable(edit[d].request, r)

\* What a runner read names one record by each id.
SnapshotsKeyed ==
    \A w \in Runners : \A r, s \in runner[w].existing :
        r.id <= stamp /\ (r.id = s.id => r = s)

JournalInv ==
    /\ RecordsKeyed /\ CorrectionsKnown /\ RequestsShown /\ StaleStays
    /\ AuditTrailComplete /\ NoLostUpdate

\* A key that Resend remembers, and a runner that takes its mail for sent, stand for
\* a delivered mail with that content.
MailInv ==
    /\ IsFiniteSet(deliveries)
    /\ \A k \in known : \E x \in deliveries : x.content = Content(k.report)
    /\ \A w \in Runners : runner[w].at = "finish" /\ runner[w].mail =>
          \E x \in deliveries : x.content = Content(runner[w].report)

Inv == TypeOK /\ JournalInv /\ SnapshotsKeyed /\ OneRunner /\ MailInv /\ ReportDelivered

-----------------------------------------------------------------------------
(* Places of employees in a batch.                                          *)

LEMMA PlaceType ==
  ASSUME NEW S \in SUBSET Emps, NEW e \in S
  PROVE  Place(e, S) \in Nat /\ Cardinality(S) \in Nat /\ Place(e, S) < Cardinality(S)
<1> DEFINE T == {x \in S : x < e}
<1>1. IsFiniteSet(S)
  BY FS_Subset, EmpsFiniteAssumption
<1>2. T \in SUBSET S /\ T # S
  BY EmpsAssumption
<1>3. Cardinality(T) <= Cardinality(S) /\ Cardinality(S) # Cardinality(T)
  BY <1>1, <1>2, FS_Subset
<1>4. Cardinality(T) \in Nat /\ Cardinality(S) \in Nat
  BY <1>1, <1>2, FS_Subset, FS_CardinalityType
<1> QED BY <1>3, <1>4 DEF Place

\* Two employees of a batch have two places.
LEMMA PlacesDiffer ==
  ASSUME NEW S \in SUBSET Emps, NEW e \in S, NEW f \in S, e < f
  PROVE  Place(e, S) # Place(f, S)
<1> DEFINE T == {x \in S : x < e}
           U == {x \in S : x < f}
<1>1. IsFiniteSet(U)
  BY FS_Subset, EmpsFiniteAssumption
<1>2. T \in SUBSET U /\ T # U
  <2>1. \A x \in S : x \in Nat
    BY EmpsAssumption
  <2>2. e \in U /\ e \notin T
    BY <2>1
  <2>3. T \subseteq U
    BY <2>1
  <2> QED BY <2>2, <2>3
<1>3. Cardinality(U) # Cardinality(T)
  BY <1>1, <1>2, FS_Subset
<1> QED BY <1>3 DEF Place

-----------------------------------------------------------------------------
(* What a step may do to the records.                                       *)

\* How a record becomes the one of the same id: its revision never falls, and it
\* stays anonymized; without a new revision it stays as it is or is anonymized.
Evolves(r, x) ==
    /\ x.id = r.id /\ r.rev <= x.rev
    /\ r.retained => x.retained
    /\ x.rev = r.rev => x = r \/ x.retained

\* Records changed without an entry in the journal: corrected ones only by
\* anonymization, and what is new has a new id.
JournalUntouched ==
    /\ corrections' = corrections
    /\ stamp' \in Nat /\ stamp <= stamp'
    /\ records' \subseteq SalaryRecord /\ RecordsKeyed'
    /\ \A x \in records' :
          \/ x.id > stamp
          \/ \E r \in records :
                /\ Evolves(r, x)
                /\ Corrected(r.id) => x.rev = r.rev

LEMMA UntouchedKeepsJournal ==
  ASSUME TypeOK, JournalInv, JournalUntouched, UNCHANGED editVars
  PROVE  JournalInv'
<1> USE DEF JournalInv
<1>1. CorrectionsKnown'
  BY DEF CorrectionsKnown, JournalUntouched, TypeOK, SalaryTypeOK, Corrections, Requests
<1>2. Asked' = Asked /\ sent' = sent /\ edit' = edit /\ expired' = expired
  BY DEF Asked, editVars
<1>3. \A q \in Asked : q \in Requests
  BY DEF Asked, TypeOK, SalaryTypeOK, Dialogs
<1>4. \A r \in records : r \in SalaryRecord
  BY DEF TypeOK, SalaryTypeOK
<1>5. \A x \in records' : x \in SalaryRecord
  BY DEF JournalUntouched
<1>6. RequestsShown'
  <2> SUFFICES ASSUME NEW q \in Asked
               PROVE  /\ q.rec <= stamp'
                      /\ \A x \in records' : x.id = q.rec =>
                            /\ q.rev <= x.rev
                            /\ q.rev = x.rev /\ ~x.retained => x.val = q.seen
    BY <1>2 DEF RequestsShown
  <2>1. q.rec <= stamp /\ q.rec \in Nat /\ q.rev \in Nat
    BY <1>3 DEF RequestsShown, Requests
  <2>2. stamp \in Nat /\ stamp' \in Nat /\ stamp <= stamp'
    BY DEF JournalUntouched, TypeOK, SalaryTypeOK
  <2>3. ASSUME NEW x \in records', x.id = q.rec
        PROVE  /\ q.rev <= x.rev
               /\ q.rev = x.rev /\ ~x.retained => x.val = q.seen
    <3>1. PICK r \in records : Evolves(r, x)
      BY <2>1, <2>2, <2>3, <1>5 DEF JournalUntouched, SalaryRecord
    <3>2. q.rev <= r.rev /\ (q.rev = r.rev /\ ~r.retained => r.val = q.seen)
      BY <2>3, <3>1 DEF RequestsShown, Evolves
    <3>3. r.rev \in Nat /\ x.rev \in Nat /\ r.rev <= x.rev
      BY <3>1, <1>4, <1>5 DEF SalaryRecord, Evolves
    <3> QED BY <2>1, <3>1, <3>2, <3>3 DEF Evolves
  <2> QED BY <2>1, <2>2, <2>3
<1>7. StaleStays'
  <2> SUFFICES ASSUME NEW d \in Editors, edit[d].answer = "stale",
                      NEW x \in records', x.id = edit[d].request.rec
               PROVE  ~Applicable(edit[d].request, x)'
    BY <1>2 DEF StaleStays, JournalUntouched
  <2> DEFINE q == edit[d].request
  <2>1. q \in Asked /\ q \in Requests
    BY <1>3 DEF Asked
  <2>2. q.rec <= stamp /\ q.rec \in Nat /\ stamp \in Nat
    BY <2>1 DEF RequestsShown, Requests, TypeOK, SalaryTypeOK
  <2>3. PICK r \in records : Evolves(r, x)
    BY <2>2, <1>5 DEF JournalUntouched, SalaryRecord
  <2>4. q.rev <= r.rev /\ r.rev <= x.rev /\ ~Applicable(q, r)
    BY <2>1, <2>3 DEF RequestsShown, StaleStays, Evolves
  <2>5. q.rev \in Nat /\ r.rev \in Nat /\ x.rev \in Nat
    BY <2>1, <1>4, <1>5 DEF Requests, SalaryRecord
  <2>6. Applicable(q, x) => Applicable(q, r)
    BY <2>3, <2>4, <2>5 DEF Evolves, Applicable
  <2> QED BY <2>4, <2>6, <1>2 DEF Applicable
<1>8. AuditTrailComplete'
  <2> SUFFICES ASSUME NEW c \in corrections, NEW x \in records', x.id = c.rec
               PROVE  /\ c.rev <= x.rev
                      /\ c.rev = x.rev /\ ~x.retained => x.val = c.after
                      /\ c.rev < x.rev =>
                           \E d \in corrections : d.rec = c.rec /\ d.rev = c.rev + 1 /\ d.before = c.after
    BY DEF AuditTrailComplete, JournalUntouched
  <2>1. c.rec <= stamp /\ c.rec \in Nat /\ stamp \in Nat
    BY DEF CorrectionsKnown, TypeOK, SalaryTypeOK
  <2>2. PICK r \in records : Evolves(r, x) /\ (Corrected(r.id) => x.rev = r.rev)
    BY <2>1, <1>5 DEF JournalUntouched, SalaryRecord
  <2>3. x.rev = r.rev /\ r.id = c.rec /\ (x = r \/ x.retained)
    BY <2>2 DEF Evolves, Corrected
  <2> QED BY <2>2, <2>3 DEF AuditTrailComplete, Evolves
<1>9. NoLostUpdate'
  BY DEF NoLostUpdate, JournalUntouched
<1> QED BY <1>1, <1>6, <1>7, <1>8, <1>9 DEF JournalUntouched

-----------------------------------------------------------------------------
(* The batch of a run.                                                      *)

\* What the batch writes for an employee: a record with a new id, or the next
\* revision of the record the runner read.
LEMMA WrittenRecord ==
  ASSUME TypeOK, NEW w \in Runners, NEW e \in Planned(runner[w])
  PROVE  LET s == runner[w]
             x == Written(e, s)
         IN  /\ Planned(s) \in SUBSET Emps
             /\ x \in SalaryRecord /\ x.emp = e
             /\ \/ /\ ~ \E r \in Replaced(s) : r.emp = e
                   /\ x = NewRecord(stamp + 1 + Place(e, Planned(s)), e)
                \/ \E r \in Replaced(s) :
                      /\ r.emp = e /\ r \in SalaryRecord
                      /\ x.id = r.id /\ x.rev = r.rev + 1
                      /\ x.retained = (\E c \in records : c.id = r.id /\ c.retained)
<1> DEFINE s == runner[w]
           n == stamp + 1 + Place(e, Planned(s))
<1>1. s.existing \subseteq SalaryRecord /\ s.active \subseteq Emps
  BY DEF TypeOK, RunnerStates
<1>2. Planned(s) \in SUBSET Emps /\ e \in Emps
  BY <1>1 DEF Planned
<1>3. n \in Nat
  BY <1>2, PlaceType DEF TypeOK, SalaryTypeOK
<1>4. CASE ~ \E r \in Replaced(s) : r.emp = e
  <2>1. Written(e, s) = NewRecord(n, e)
    BY <1>4 DEF Written
  <2> QED BY <1>2, <1>3, <1>4, <2>1 DEF NewRecord, SalaryRecord
<1>5. CASE \E r \in Replaced(s) : r.emp = e
  <2> DEFINE r == CHOOSE x \in Replaced(s) : x.emp = e
             held == \E c \in records : c.id = r.id /\ c.retained
  <2>1. r \in Replaced(s) /\ r.emp = e
    BY <1>5
  <2>2. r \in SalaryRecord
    BY <1>1, <2>1 DEF Replaced
  <2>3. Written(e, s) = [id |-> r.id, emp |-> e, rev |-> r.rev + 1, val |-> n, retained |-> held]
    BY <1>5 DEF Written
  <2>4. Written(e, s) \in SalaryRecord
    BY <1>2, <1>3, <2>2, <2>3 DEF SalaryRecord
  <2> HIDE DEF r
  <2> QED BY <1>2, <2>1, <2>2, <2>3, <2>4
<1> QED BY <1>4, <1>5

\* The batch leaves the journal alone: it rewrites no corrected record, and only at
\* the revision it was read at (saveSalaryRecordsAtomically).
LEMMA BatchKeepsJournal ==
  ASSUME TypeOK, JournalInv, SnapshotsKeyed, NEW w \in Runners, SaveBatch(w)
  PROVE  JournalUntouched
<1> DEFINE s == runner[w]
           P == Planned(s)
           R == Replaced(s)
           K == {c \in records : \A r \in R : r.id # c.id}
<1>1. /\ BatchFits(s) /\ corrections' = corrections
      /\ records' = K \cup {Written(e, s) : e \in P}
      /\ stamp' = stamp + Cardinality(P)
  BY DEF SaveBatch
<1>2. P \in SUBSET Emps /\ R \subseteq s.existing /\ s.existing \subseteq SalaryRecord
  BY DEF Planned, Replaced, TypeOK, RunnerStates
<1>3. Cardinality(P) \in Nat /\ stamp \in Nat
  <2>1. IsFiniteSet(P)
    BY <1>2, FS_Subset, EmpsFiniteAssumption
  <2> QED BY <2>1, FS_CardinalityType DEF TypeOK, SalaryTypeOK
<1>4. stamp' \in Nat /\ stamp <= stamp'
  BY <1>1, <1>3
<1> DEFINE New(e) == /\ Written(e, s).id = stamp + 1 + Place(e, P)
                     /\ Written(e, s).id \in stamp + 1 .. stamp'
           Old(e, r) == /\ r.emp = e /\ Written(e, s).id = r.id /\ Written(e, s).rev = r.rev + 1
                        /\ r.id \in 0 .. stamp /\ r.rev \in Nat
                        /\ Written(e, s).retained = (\E c \in records : c.id = r.id /\ c.retained)
<1>5. ASSUME NEW e \in P
      PROVE  /\ Written(e, s) \in SalaryRecord
             /\ New(e) \/ \E r \in R : Old(e, r)
  <2>1. Written(e, s) \in SalaryRecord
    BY WrittenRecord
  <2>2. Place(e, P) \in Nat /\ Place(e, P) < Cardinality(P)
    BY <1>2, PlaceType
  <2>3. CASE Written(e, s) = NewRecord(stamp + 1 + Place(e, P), e)
    <3> DEFINE p == Place(e, P)
    <3>1. Written(e, s).id = stamp + 1 + p
      BY <2>3 DEF NewRecord
    <3>2. p \in Nat /\ p < Cardinality(P)
      BY <2>2
    <3> HIDE DEF p
    <3>3. stamp + 1 + p \in stamp + 1 .. stamp'
      BY <1>1, <1>3, <3>2
    <3> QED BY <2>1, <3>1, <3>3 DEF p
  <2>4. ASSUME NEW r \in R, r.emp = e, r \in SalaryRecord,
               Written(e, s).id = r.id, Written(e, s).rev = r.rev + 1,
               Written(e, s).retained = (\E c \in records : c.id = r.id /\ c.retained)
        PROVE  Old(e, r)
    BY <1>2, <1>3, <2>4 DEF SnapshotsKeyed, SalaryRecord
  <2>5. \/ Written(e, s) = NewRecord(stamp + 1 + Place(e, P), e)
        \/ \E r \in R : /\ r.emp = e /\ r \in SalaryRecord
                        /\ Written(e, s).id = r.id /\ Written(e, s).rev = r.rev + 1
                        /\ Written(e, s).retained = (\E c \in records : c.id = r.id /\ c.retained)
    BY WrittenRecord
  <2> HIDE DEF New, Old, K, s, P, R
  <2> QED BY <2>1, <2>3, <2>4, <2>5
<1> HIDE DEF New, Old, K, s, P, R
<1>6. \A c \in records : c \in SalaryRecord /\ c.id \in 1 .. stamp
  BY DEF JournalInv, RecordsKeyed, TypeOK, SalaryTypeOK
<1>7. records' \subseteq SalaryRecord
  BY <1>1, <1>5, <1>6 DEF K
<1>8. \A r \in R : ~Corrected(r.id) /\ \E c \in records : c.id = r.id /\ c.rev = r.rev
  BY <1>1 DEF BatchFits, R
<1>9. \A x \in records' :
        \/ x.id > stamp
        \/ \E r \in records : Evolves(r, x) /\ (Corrected(r.id) => x.rev = r.rev)
  <2> SUFFICES ASSUME NEW x \in records'
               PROVE  \/ x.id > stamp
                      \/ \E r \in records : Evolves(r, x) /\ (Corrected(r.id) => x.rev = r.rev)
    OBVIOUS
  <2>1. CASE x \in K
    BY <1>6, <2>1 DEF Evolves, SalaryRecord, K
  <2>2. ASSUME NEW e \in P, x = Written(e, s), New(e) PROVE x.id > stamp
    BY <1>3, <2>2, <1>4 DEF New
  <2>3. ASSUME NEW e \in P, x = Written(e, s), NEW r \in R, Old(e, r)
        PROVE  \E c \in records : Evolves(c, x) /\ (Corrected(c.id) => x.rev = c.rev)
    <3>1. PICK c \in records : c.id = r.id /\ c.rev = r.rev
      BY <1>8
    <3>2. ~Corrected(c.id)
      BY <1>8, <3>1
    <3>3. Evolves(c, x)
      BY <1>1, <1>6, <2>3, <3>1 DEF Evolves, SalaryRecord, Old, JournalInv, RecordsKeyed
    <3> QED BY <3>2, <3>3
  <2> QED BY <1>1, <1>5, <2>1, <2>2, <2>3
<1>10. RecordsKeyed'
  <2>1. \A x \in records' : x.id \in 1 .. stamp'
    <3> SUFFICES ASSUME NEW x \in records' PROVE x.id \in 1 .. stamp'
      OBVIOUS
    <3>1. CASE x \in K
      BY <1>3, <1>4, <1>6, <3>1 DEF K
    <3>2. ASSUME NEW e \in P, x = Written(e, s), New(e) PROVE x.id \in 1 .. stamp'
      BY <1>3, <1>4, <3>2 DEF New
    <3>3. ASSUME NEW e \in P, x = Written(e, s), NEW r \in R, Old(e, r) PROVE x.id \in 1 .. stamp'
      <4>1. PICK c \in records : c.id = r.id
        BY <1>8
      <4> QED BY <1>3, <1>4, <1>6, <3>3, <4>1 DEF Old
    <3> QED BY <1>1, <1>5, <3>1, <3>2, <3>3
  <2>2. ASSUME NEW x \in K, NEW y \in K, x.id = y.id PROVE x = y
    BY <2>2 DEF JournalInv, RecordsKeyed, K
  <2>3. ASSUME NEW x \in K, NEW e \in P PROVE x.id # Written(e, s).id
    <3>1. x.id \in 1 .. stamp /\ \A r \in R : r.id # x.id
      BY <1>6 DEF K
    <3>2. CASE New(e)
      BY <1>3, <1>4, <3>1, <3>2 DEF New
    <3>3. ASSUME NEW r \in R, Old(e, r) PROVE x.id # Written(e, s).id
      BY <3>1, <3>3 DEF Old
    <3> QED BY <1>5, <3>2, <3>3
  <2>4. ASSUME NEW e \in P, NEW f \in P, Written(e, s).id = Written(f, s).id PROVE e = f
    <3>1. e \in Nat /\ f \in Nat
      BY <1>2, EmpsAssumption
    <3>2. CASE New(e) /\ New(f)
      <4>1. Place(e, P) \in Nat /\ Place(f, P) \in Nat
        BY <1>2, PlaceType
      <4>2. Place(e, P) = Place(f, P)
        <5> DEFINE p == Place(e, P)
                   q == Place(f, P)
        <5>1. stamp + 1 + p = stamp + 1 + q /\ p \in Nat /\ q \in Nat
          BY <2>4, <3>2, <4>1 DEF New
        <5> HIDE DEF p, q
        <5>2. p = q
          BY <1>3, <5>1
        <5> QED BY <5>2 DEF p, q
      <4> QED BY <1>2, <3>1, <4>2, PlacesDiffer DEF P
    <3>3. ASSUME NEW r \in R, Old(e, r), New(f) PROVE FALSE
      BY <1>3, <1>4, <2>4, <3>3 DEF New, Old
    <3>4. ASSUME NEW r \in R, Old(f, r), New(e) PROVE FALSE
      BY <1>3, <1>4, <2>4, <3>4 DEF New, Old
    <3>5. ASSUME NEW r \in R, Old(e, r), NEW q \in R, Old(f, q) PROVE e = f
      BY <1>2, <2>4, <3>5 DEF SnapshotsKeyed, Old, s
    <3> QED BY <1>5, <3>2, <3>3, <3>4, <3>5
  <2> QED BY <1>1, <2>1, <2>2, <2>3, <2>4 DEF RecordsKeyed
<1> QED BY <1>1, <1>4, <1>7, <1>9, <1>10 DEF JournalUntouched

-----------------------------------------------------------------------------
(* The other writes of records.                                             *)

LEMMA RecordTypes ==
  ASSUME TypeOK, JournalInv
  PROVE  /\ stamp \in Nat
         /\ \A r \in records : r \in SalaryRecord /\ r.rev \in Nat /\ r.id \in 1 .. stamp /\ Evolves(r, r)
BY DEF TypeOK, SalaryTypeOK, SalaryRecord, Evolves, JournalInv, RecordsKeyed

LEMMA CreateKeepsJournal ==
  ASSUME TypeOK, JournalInv, CreateRecord
  PROVE  JournalUntouched
<1>1. PICK e \in Emps : records' = records \cup {NewRecord(stamp + 1, e)}
  BY DEF CreateRecord
<1>2. stamp' = stamp + 1 /\ corrections' = corrections
  BY DEF CreateRecord
<1>3. NewRecord(stamp + 1, e) \in SalaryRecord /\ NewRecord(stamp + 1, e).id = stamp + 1
  BY RecordTypes DEF NewRecord, SalaryRecord
<1>4. RecordsKeyed'
  BY <1>1, <1>2, <1>3, RecordTypes DEF JournalInv, RecordsKeyed
<1> QED BY <1>1, <1>2, <1>3, <1>4, RecordTypes DEF JournalUntouched

LEMMA RemovalKeepsJournal ==
  ASSUME TypeOK, JournalInv, records' \subseteq records, UNCHANGED <<corrections, stamp>>
  PROVE  JournalUntouched
<1>1. RecordsKeyed'
  BY DEF JournalInv, RecordsKeyed
<1> QED BY <1>1, RecordTypes DEF JournalUntouched

LEMMA AnonymizingKeepsJournal ==
  ASSUME TypeOK, JournalInv, NEW e \in Emps, records' = Anonymized(e), UNCHANGED <<corrections, stamp>>
  PROVE  JournalUntouched
<1> DEFINE Anon(r) == [id |-> r.id, emp |-> NoEmp, rev |-> r.rev, val |-> AnonymousContent,
                       retained |-> TRUE]
<1>1. \A x \in records' : \E r \in records : x = r \/ x = Anon(r)
  BY DEF Anonymized
<1>2. \A r \in records : Anon(r) \in SalaryRecord /\ Anon(r).id = r.id
  BY RecordTypes DEF SalaryRecord, NoEmp, AnonymousContent
<1>3. \A r \in records : Evolves(r, Anon(r)) /\ Anon(r).rev = r.rev
  BY RecordTypes DEF Evolves
<1>4. RecordsKeyed'
  <2>1. \A x \in records' : x.id \in 1 .. stamp'
    BY <1>1, <1>2, RecordTypes
  <2>2. ASSUME NEW x \in records', NEW y \in records', x.id = y.id PROVE x = y
    <3>1. PICK r \in records : (r.emp # e /\ x = r) \/ (r.emp = e /\ x = Anon(r))
      BY DEF Anonymized
    <3>2. PICK s \in records : (s.emp # e /\ y = s) \/ (s.emp = e /\ y = Anon(s))
      BY DEF Anonymized
    <3>3. r = s
      BY <2>2, <3>1, <3>2, <1>2 DEF JournalInv, RecordsKeyed
    <3> QED BY <3>1, <3>2, <3>3
  <2> QED BY <2>1, <2>2 DEF RecordsKeyed
<1>5. \A x \in records' : \E r \in records : Evolves(r, x) /\ x.rev = r.rev
  BY <1>1, <1>3, RecordTypes
<1>6. records' \subseteq SalaryRecord
  BY <1>1, <1>2, RecordTypes
<1> QED BY <1>4, <1>5, <1>6, RecordTypes DEF JournalUntouched

-----------------------------------------------------------------------------
(* The dialogs.                                                             *)

\* A step of the dialogs: the records stay; what is asked was asked before, is asked
\* of a record as it is, or repeats an earlier request under another login; and
\* "stale" stays only where it was, on an unchanged request.
LEMMA DialogKeepsJournal ==
  ASSUME TypeOK, JournalInv, UNCHANGED recordVars,
         sent' \subseteq Requests, edit' \in [Editors -> Dialogs], expired \subseteq expired',
         \A q \in Asked' :
            \/ q = NoRequest
            \/ \E p \in Asked : q.rec = p.rec /\ q.rev = p.rev /\ q.seen = p.seen
            \/ \E r \in records : q.rec = r.id /\ q.rev = r.rev /\ q.seen = r.val,
         \A d \in Editors : edit'[d].answer = "stale" =>
            edit[d].answer = "stale" /\ edit'[d].request = edit[d].request
  PROVE  JournalInv'
<1> USE DEF JournalInv
<1>1. records' = records /\ corrections' = corrections /\ stamp' = stamp
  BY DEF recordVars
<1>2. RequestsShown'
  <2> SUFFICES ASSUME NEW q \in Asked'
               PROVE  /\ q.rec <= stamp
                      /\ \A r \in records : r.id = q.rec =>
                            /\ q.rev <= r.rev
                            /\ q.rev = r.rev /\ ~r.retained => r.val = q.seen
    BY <1>1 DEF RequestsShown
  <2>1. CASE q = NoRequest
    BY <2>1, RecordTypes DEF NoRequest
  <2>2. CASE \E p \in Asked : q.rec = p.rec /\ q.rev = p.rev /\ q.seen = p.seen
    BY <2>2 DEF RequestsShown
  <2>3. CASE \E r \in records : q.rec = r.id /\ q.rev = r.rev /\ q.seen = r.val
    BY <2>3, RecordTypes DEF RecordsKeyed
  <2> QED BY <2>1, <2>2, <2>3
<1>3. StaleStays'
  <2> SUFFICES ASSUME NEW d \in Editors, edit'[d].answer = "stale"
               PROVE  /\ \A c \in corrections : c.request # edit'[d].request
                      /\ \A r \in records : r.id = edit'[d].request.rec =>
                            ~Applicable(edit[d].request, r)'
    BY <1>1 DEF StaleStays
  <2>1. edit[d].answer = "stale" /\ edit'[d].request = edit[d].request
    OBVIOUS
  <2>2. \A r \in records : Applicable(edit[d].request, r)' => Applicable(edit[d].request, r)
    BY <2>1 DEF Applicable
  <2> QED BY <2>1, <2>2 DEF StaleStays
<1> QED
  BY <1>1, <1>2, <1>3
     DEF RecordsKeyed, CorrectionsKnown, AuditTrailComplete, NoLostUpdate

LEMMA RequestTypes ==
  /\ NoRequest \in Requests
  /\ \A kind \in {"holiday", "manual"}, r \in SalaryRecord, key \in Nat :
        /\ Request(kind, r, key) \in Requests
        /\ Request(kind, r, key).rec = r.id /\ Request(kind, r, key).rev = r.rev
        /\ Request(kind, r, key).seen = r.val
  /\ \A q \in Requests, change \in Changes :
        /\ UnderNewLogin(q, change) \in Requests
        /\ UnderNewLogin(q, change).rec = q.rec /\ UnderNewLogin(q, change).rev = q.rev
        /\ UnderNewLogin(q, change).seen = q.seen
BY DEF NoRequest, Requests, Request, UnderNewLogin, SalaryRecord, Logins, Changes

LEMMA DialogTypes ==
  /\ \A d \in Dialogs : d.request \in Requests /\ d.answer \in Answers
  /\ \A at \in {"closed", "open", "waiting"}, q \in Requests, a \in Answers :
        /\ Dialog(at, q, a) \in Dialogs
        /\ Dialog(at, q, a).request = q /\ Dialog(at, q, a).answer = a
BY DEF Dialogs, Dialog

\* An answer changes no request.
LEMMA TellKeeps ==
  ASSUME SalaryTypeOK, NEW q \in Requests, NEW a \in Answers, Tell(q, a)
  PROVE  /\ edit' \in [Editors -> Dialogs]
         /\ \A d \in Editors :
               /\ edit'[d].request = edit[d].request
               /\ edit'[d].answer # edit[d].answer => edit[d].request = q /\ edit'[d].answer = a
<1>1. edit \in [Editors -> Dialogs]
  BY DEF SalaryTypeOK
<1>2. PICK reached \in BOOLEAN :
        edit' = [d \in Editors |->
                   IF reached /\ edit[d].at = "waiting" /\ edit[d].request = q
                   THEN Dialog("waiting", q, a) ELSE edit[d]]
  BY DEF Tell
<1>3. Dialog("waiting", q, a) \in Dialogs /\ Dialog("waiting", q, a).request = q
      /\ Dialog("waiting", q, a).answer = a
  BY DialogTypes
<1> QED BY <1>1, <1>2, <1>3

LEMMA OpenKeepsJournal ==
  ASSUME TypeOK, JournalInv, NEW d \in Editors, OpenDialog(d)
  PROVE  JournalInv' /\ SalaryTypeOK'
<1>1. PICK r \in records, kind \in {"holiday", "manual"} :
        edit' = [edit EXCEPT ![d] = Dialog("open", Request(kind, r, lastKey + 1), "none")]
  BY DEF OpenDialog
<1> DEFINE q == Request(kind, r, lastKey + 1)
<1>2. /\ UNCHANGED recordVars /\ sent' = sent /\ expired' = expired /\ lastKey' = lastKey + 1
      /\ edit \in [Editors -> Dialogs] /\ lastKey + 1 \in Nat /\ sent \subseteq Requests
  BY DEF OpenDialog, TypeOK, SalaryTypeOK
<1>3. q \in Requests /\ q.rec = r.id /\ q.rev = r.rev /\ q.seen = r.val
  BY <1>2, RequestTypes, RecordTypes
<1> HIDE DEF q
<1>4. Dialog("open", q, "none") \in Dialogs /\ Dialog("open", q, "none").request = q
      /\ Dialog("open", q, "none").answer = "none"
  BY <1>3, DialogTypes DEF Answers
<1>5. edit' \in [Editors -> Dialogs] /\ edit'[d].request = q /\ edit'[d].answer = "none"
      /\ \A c \in Editors \ {d} : edit'[c] = edit[c]
  BY <1>1, <1>2, <1>4 DEF q
<1>6. \A p \in Asked' : p = q \/ p \in Asked
  BY <1>2, <1>5 DEF Asked
<1>7. \A c \in Editors : edit'[c].answer = "stale" =>
         edit[c].answer = "stale" /\ edit'[c].request = edit[c].request
  BY <1>5
<1>8. JournalInv'
  BY <1>2, <1>3, <1>5, <1>6, <1>7, DialogKeepsJournal
<1> QED BY <1>2, <1>5, <1>8 DEF TypeOK, SalaryTypeOK, recordVars

LEMMA SaveKeepsJournal ==
  ASSUME TypeOK, JournalInv, NEW d \in Editors, Save(d) \/ SaveAfterLogin(d) \/ CloseDialog(d)
  PROVE  JournalInv' /\ SalaryTypeOK'
<1>1. /\ UNCHANGED recordVars /\ expired' = expired /\ lastKey' = lastKey
      /\ edit \in [Editors -> Dialogs] /\ sent \subseteq Requests /\ edit[d] \in Dialogs
  BY DEF Save, SaveAfterLogin, CloseDialog, TypeOK, SalaryTypeOK
<1>2. edit[d].request \in Requests /\ edit[d].request \in Asked
  BY <1>1, DialogTypes DEF Asked
<1>3. \E q \in Requests, at \in {"closed", "waiting"} :
         /\ \/ q = NoRequest
            \/ \E p \in Asked : q.rec = p.rec /\ q.rev = p.rev /\ q.seen = p.seen
         /\ edit' = [edit EXCEPT ![d] = Dialog(at, q, "none")]
         /\ sent' = sent \/ sent' = sent \cup {q}
  <2>1. CASE Save(d)
    BY <1>2, <2>1 DEF Save
  <2>2. CASE SaveAfterLogin(d)
    <3>1. PICK change \in Changes :
            /\ sent' = sent \cup {UnderNewLogin(edit[d].request, change)}
            /\ edit' = [edit EXCEPT ![d] = Dialog("waiting", UnderNewLogin(edit[d].request, change), "none")]
      BY <1>2, <2>2 DEF SaveAfterLogin, Requests
    <3> QED BY <1>2, <3>1, RequestTypes
  <2>3. CASE CloseDialog(d)
    BY <2>3, RequestTypes DEF CloseDialog
  <2> QED BY <2>1, <2>2, <2>3
<1>4. PICK q \in Requests, at \in {"closed", "waiting"} :
         /\ \/ q = NoRequest
            \/ \E p \in Asked : q.rec = p.rec /\ q.rev = p.rev /\ q.seen = p.seen
         /\ edit' = [edit EXCEPT ![d] = Dialog(at, q, "none")]
         /\ sent' = sent \/ sent' = sent \cup {q}
  BY <1>3
<1>5. Dialog(at, q, "none") \in Dialogs /\ Dialog(at, q, "none").request = q
      /\ Dialog(at, q, "none").answer = "none"
  BY DialogTypes DEF Answers
<1>6. edit' \in [Editors -> Dialogs] /\ edit'[d].request = q /\ edit'[d].answer = "none"
      /\ \A c \in Editors \ {d} : edit'[c] = edit[c]
  BY <1>1, <1>4, <1>5
<1>7. \A p \in Asked' : p = q \/ p \in Asked
  BY <1>4, <1>6 DEF Asked
<1>8. \A c \in Editors : edit'[c].answer = "stale" =>
         edit[c].answer = "stale" /\ edit'[c].request = edit[c].request
  BY <1>6
<1>9. sent' \subseteq Requests
  BY <1>1, <1>4
<1>10. JournalInv'
  BY <1>1, <1>4, <1>6, <1>7, <1>8, <1>9, DialogKeepsJournal
<1> QED BY <1>1, <1>6, <1>9, <1>10 DEF TypeOK, SalaryTypeOK, recordVars

LEMMA ExpireKeepsJournal ==
  ASSUME TypeOK, JournalInv, ExpirePreview
  PROVE  JournalInv' /\ SalaryTypeOK'
<1>1. PICK q \in Asked : expired' = expired \cup {q.key}
  BY DEF ExpirePreview, Asked
<1>2. UNCHANGED recordVars /\ sent' = sent /\ edit' = edit /\ lastKey' = lastKey
  BY DEF ExpirePreview
<1>3. edit \in [Editors -> Dialogs] /\ sent \subseteq Requests
  BY DEF TypeOK, SalaryTypeOK
<1>4. q \in Requests /\ q.key \in Nat
  BY <1>3, DialogTypes DEF Asked, Requests
<1>5. Asked' = Asked
  BY <1>2 DEF Asked
<1>6. JournalInv'
  BY <1>1, <1>2, <1>3, <1>5, DialogKeepsJournal
<1> QED BY <1>1, <1>2, <1>4, <1>6 DEF TypeOK, SalaryTypeOK, recordVars

-----------------------------------------------------------------------------
(* commitSalaryCorrection.                                                  *)

LEMMA UnwrittenKeepsJournal ==
  ASSUME TypeOK, JournalInv, NEW q \in sent, UNCHANGED <<sent, expired, lastKey>>,
         CommitMissing(q) \/ CommitReplayed(q) \/ CommitStale(q)
  PROVE  JournalInv' /\ SalaryTypeOK'
<1>1. UNCHANGED recordVars
  BY DEF CommitMissing, CommitReplayed, CommitStale
<1>2. q \in Requests /\ SalaryTypeOK
  BY DEF TypeOK, SalaryTypeOK
<1>3. \E a \in Answers : Tell(q, a) /\ (a = "stale" => CommitStale(q))
  BY DEF CommitMissing, CommitReplayed, CommitStale, Answers
<1>4. PICK a \in Answers : Tell(q, a) /\ (a = "stale" => CommitStale(q))
  BY <1>3
<1>5. /\ edit' \in [Editors -> Dialogs]
      /\ \A d \in Editors :
            /\ edit'[d].request = edit[d].request
            /\ edit'[d].answer # edit[d].answer => edit[d].request = q /\ edit'[d].answer = a
  BY <1>2, <1>4, TellKeeps
<1>6. Asked' = Asked
  BY <1>5 DEF Asked
<1>7. SalaryTypeOK'
  BY <1>1, <1>2, <1>5 DEF SalaryTypeOK, recordVars
<1>8. CASE a # "stale"
  <2>1. \A d \in Editors : edit'[d].answer = "stale" =>
           edit[d].answer = "stale" /\ edit'[d].request = edit[d].request
    BY <1>5, <1>8
  <2>2. JournalInv'
    BY <1>1, <1>2, <1>5, <1>6, <2>1, DialogKeepsJournal DEF SalaryTypeOK
  <2> QED BY <1>7, <2>2
<1>9. CASE CommitStale(q)
  <2>1. records' = records /\ corrections' = corrections /\ stamp' = stamp
    BY <1>1 DEF recordVars
  <2>2. \A c \in corrections : c.request # q
    BY <1>9 DEF CommitStale, Prior, JournalInv, CorrectionsKnown
  <2>3. \A r \in records : r.id = q.rec => ~Applicable(q, r)
    BY <1>9 DEF CommitStale, JournalInv, RecordsKeyed
  <2>4. StaleStays'
    <3> SUFFICES ASSUME NEW d \in Editors, edit'[d].answer = "stale"
                 PROVE  /\ \A c \in corrections : c.request # edit'[d].request
                        /\ \A r \in records : r.id = edit'[d].request.rec =>
                              ~Applicable(edit'[d].request, r)
      BY <2>1 DEF StaleStays, Applicable
    <3>1. edit'[d].request = edit[d].request /\ (edit[d].answer = "stale" \/ edit[d].request = q)
      BY <1>5
    <3> QED BY <3>1, <2>2, <2>3 DEF JournalInv, StaleStays
  <2> QED
    BY <1>6, <1>7, <2>1, <2>4
       DEF JournalInv, RecordsKeyed, CorrectionsKnown, RequestsShown, AuditTrailComplete, NoLostUpdate
<1> QED BY <1>4, <1>8, <1>9

\* What an applied correction makes of a record.
Revised(r, rev, val) == [r EXCEPT !.rev = rev, !.val = val]

LEMMA RevisedRecord ==
  ASSUME NEW r \in SalaryRecord, NEW m \in Nat, NEW n \in Nat
  PROVE  /\ Revised(r, m, n) \in SalaryRecord
         /\ Revised(r, m, n).id = r.id /\ Revised(r, m, n).rev = m /\ Revised(r, m, n).val = n
         /\ Revised(r, m, n).retained = r.retained
BY DEF SalaryRecord, Revised

LEMMA WrittenKeepsJournal ==
  ASSUME TypeOK, JournalInv, NEW q \in sent, UNCHANGED <<sent, expired, lastKey>>, CommitWritten(q)
  PROVE  JournalInv' /\ SalaryTypeOK'
<1> USE DEF JournalInv
<1>1. q \in Requests /\ q \in Asked /\ SalaryTypeOK
  BY DEF TypeOK, SalaryTypeOK, Asked
<1>2. PICK r \in records :
        /\ r.id = q.rec /\ Applicable(q, r)
        /\ records' = (records \ {r}) \cup {[r EXCEPT !.rev = r.rev + 1, !.val = stamp + 1]}
        /\ corrections' = corrections \cup
              {[request |-> q, rec |-> r.id, rev |-> r.rev + 1, before |-> r.val, after |-> stamp + 1]}
  BY DEF CommitWritten, Correction
<1>3. stamp' = stamp + 1 /\ Prior(q) = {} /\ Tell(q, "saved")
  BY DEF CommitWritten, Correction
<1> DEFINE x == Revised(r, r.rev + 1, stamp + 1)
           new == [request |-> q, rec |-> r.id, rev |-> r.rev + 1, before |-> r.val, after |-> stamp + 1]
<1>4. r \in SalaryRecord /\ r.rev \in Nat /\ r.id \in 1 .. stamp /\ stamp \in Nat /\ ~r.retained
      /\ r.rev = q.rev
  BY <1>2, RecordTypes DEF Applicable
<1>5. x \in SalaryRecord /\ x.id = r.id /\ x.rev = r.rev + 1 /\ x.val = stamp + 1 /\ ~x.retained
  <2> DEFINE m == r.rev + 1
             n == stamp + 1
  <2>1. m \in Nat /\ n \in Nat
    BY <1>4
  <2>2. x = Revised(r, m, n)
    OBVIOUS
  <2> HIDE DEF m, n, x
  <2>3. x \in SalaryRecord /\ x.id = r.id /\ x.rev = m /\ x.val = n /\ x.retained = r.retained
    <3>1. r \in SalaryRecord
      BY <1>4
    <3>2. Revised(r, m, n) \in SalaryRecord
      BY <3>1, <2>1, RevisedRecord
    <3>3. Revised(r, m, n).id = r.id
      BY <3>1, <2>1, RevisedRecord
    <3>4. Revised(r, m, n).retained = r.retained
      BY <3>1, <2>1, RevisedRecord
    <3>5. Revised(r, m, n).rev = m /\ Revised(r, m, n).val = n
      BY <3>1, <2>1, RevisedRecord
    <3> QED BY <2>2, <3>2, <3>3, <3>4, <3>5
  <2>4. ~x.retained
    BY <1>4, <2>3
  <2> QED BY <2>3, <2>4 DEF m, n
<1>6. new \in Corrections /\ new.request = q /\ new.rec = r.id /\ new.rev = r.rev + 1
      /\ new.before = r.val /\ new.after = stamp + 1
  BY <1>1, <1>4 DEF Corrections, SalaryRecord
<1>7. records' = (records \ {r}) \cup {x} /\ corrections' = corrections \cup {new}
  BY <1>2 DEF Revised
<1> HIDE DEF x, new
<1>8. "saved" \in Answers /\ "saved" # "stale"
  BY DEF Answers
<1>9. /\ edit' \in [Editors -> Dialogs]
      /\ \A d \in Editors :
            /\ edit'[d].request = edit[d].request
            /\ edit'[d].answer # edit[d].answer => edit'[d].answer = "saved"
  BY <1>1, <1>3, <1>8, TellKeeps
<1>10. Asked' = Asked
  BY <1>9 DEF Asked
<1>11. SalaryTypeOK'
  BY <1>1, <1>3, <1>4, <1>5, <1>6, <1>7, <1>9 DEF SalaryTypeOK
<1>12. RecordsKeyed'
  BY <1>3, <1>4, <1>5, <1>7, RecordTypes DEF RecordsKeyed
<1>13. CorrectionsKnown'
  <2>1. \A c \in corrections : c.rec \in 0 .. stamp'
    BY <1>3, <1>4 DEF CorrectionsKnown
  <2> QED BY <1>2, <1>3, <1>4, <1>6, <1>7, <2>1 DEF CorrectionsKnown
<1>14. RequestsShown'
  <2> SUFFICES ASSUME NEW p \in Asked
               PROVE  /\ p.rec <= stamp'
                      /\ \A y \in records' : y.id = p.rec =>
                            /\ p.rev <= y.rev
                            /\ p.rev = y.rev /\ ~y.retained => y.val = p.seen
    BY <1>10 DEF RequestsShown
  <2>1. p.rec \in Nat /\ p.rev \in Nat
    BY DialogTypes DEF Asked, TypeOK, SalaryTypeOK, Requests
  <2>2. p.rec <= stamp'
    BY <1>3, <1>4, <2>1 DEF RequestsShown
  <2>3. x.id = p.rec => p.rev <= r.rev
    BY <1>5 DEF RequestsShown
  <2> QED BY <1>4, <1>5, <1>7, <2>1, <2>2, <2>3 DEF RequestsShown
<1>15. StaleStays'
  <2> SUFFICES ASSUME NEW d \in Editors, edit[d].answer = "stale"
               PROVE  /\ \A c \in corrections' : c.request # edit[d].request
                      /\ \A y \in records' : y.id = edit[d].request.rec =>
                            ~Applicable(edit[d].request, y)
    BY <1>8, <1>9 DEF StaleStays, Applicable
  <2> DEFINE p == edit[d].request
  <2>1. p \in Asked /\ p.rev \in Nat
    BY DialogTypes DEF Asked, TypeOK, SalaryTypeOK, Requests
  <2>2. p # q
    BY <1>2 DEF StaleStays
  <2>3. x.id = p.rec => ~Applicable(p, x)
    <3>1. x.id = p.rec => p.rev <= r.rev
      BY <1>5, <2>1 DEF RequestsShown
    <3> QED BY <1>4, <1>5, <2>1, <3>1 DEF Applicable
  <2> QED BY <1>6, <1>7, <2>2, <2>3 DEF StaleStays
<1>16. \A c \in corrections : c.rec = r.id => c.rev <= r.rev
  BY DEF AuditTrailComplete
<1>17. \A c \in corrections : c.rev \in Nat
  BY <1>1 DEF SalaryTypeOK, Corrections
<1>18. AuditTrailComplete'
  <2>1. \A c, d \in corrections' : c.rec = d.rec /\ c.rev = d.rev => c = d
    BY <1>4, <1>6, <1>7, <1>16, <1>17 DEF AuditTrailComplete
  <2>2. ASSUME NEW c \in corrections', NEW y \in records', y.id = c.rec
        PROVE  /\ c.rev <= y.rev
               /\ c.rev = y.rev /\ ~y.retained => y.val = c.after
               /\ c.rev < y.rev =>
                    \E d \in corrections' : d.rec = c.rec /\ d.rev = c.rev + 1 /\ d.before = c.after
    <3>1. CASE c \in corrections /\ y \in records \ {r}
      <4>1. c.rev < y.rev =>
               \E d \in corrections : d.rec = c.rec /\ d.rev = c.rev + 1 /\ d.before = c.after
        BY <2>2, <3>1 DEF AuditTrailComplete
      <4>2. corrections \subseteq corrections'
        BY <1>7
      <4> QED BY <2>2, <3>1, <4>1, <4>2 DEF AuditTrailComplete
    <3>2. CASE c \in corrections /\ y = x
      <4>1. c.rec = r.id /\ c.rev <= r.rev
        BY <1>5, <1>16, <2>2, <3>2
      <4>2. CASE c.rev < r.rev
        <5>1. \E d \in corrections : d.rec = c.rec /\ d.rev = c.rev + 1 /\ d.before = c.after
          BY <3>2, <4>1, <4>2 DEF AuditTrailComplete
        <5> QED BY <1>4, <1>5, <1>7, <1>17, <3>2, <4>1, <5>1
      <4>3. CASE c.rev = r.rev
        <5>1. c.after = r.val
          BY <1>4, <3>2, <4>1, <4>3 DEF AuditTrailComplete
        <5> QED BY <1>4, <1>5, <1>6, <1>7, <3>2, <4>1, <4>3, <5>1
      <4> QED BY <1>4, <1>17, <3>2, <4>1, <4>2, <4>3
    <3>3. CASE c = new
      <4>1. y = x
        BY <1>5, <1>6, <1>7, <2>2, <3>3 DEF RecordsKeyed
      <4> QED BY <1>4, <1>5, <1>6, <3>3, <4>1
    <3> QED BY <1>7, <2>2, <3>1, <3>2, <3>3
  <2> QED BY <2>1, <2>2 DEF AuditTrailComplete
<1>19. NoLostUpdate'
  <2>1. r.val = q.seen
    BY <1>1, <1>2, <1>4 DEF RequestsShown
  <2> QED BY <1>6, <1>7, <2>1 DEF NoLostUpdate
<1> QED BY <1>11, <1>12, <1>13, <1>14, <1>15, <1>18, <1>19

LEMMA CommitKeepsJournal ==
  ASSUME TypeOK, JournalInv, Commit
  PROVE  JournalInv' /\ SalaryTypeOK'
<1>1. PICK q \in sent : CommitMissing(q) \/ CommitReplayed(q) \/ CommitStale(q) \/ CommitWritten(q)
  BY DEF Commit
<1>2. UNCHANGED <<sent, expired, lastKey>>
  BY DEF Commit
<1> QED BY <1>1, <1>2, UnwrittenKeepsJournal, WrittenKeepsJournal

-----------------------------------------------------------------------------
(* Steps that touch no row of a run.                                        *)

LEMMA SalaryKeepsJournal ==
  ASSUME TypeOK, JournalInv, SalaryNext
  PROVE  JournalInv' /\ SalaryTypeOK'
<1>1. ASSUME JournalUntouched, UNCHANGED editVars PROVE JournalInv' /\ SalaryTypeOK'
  BY <1>1, UntouchedKeepsJournal DEF JournalUntouched, TypeOK, SalaryTypeOK, editVars
<1>2. CASE CreateRecord
  BY <1>1, <1>2, CreateKeepsJournal DEF CreateRecord
<1>3. CASE DeleteRecord \/ PurgeRetained
  <2>1. records' \subseteq records /\ UNCHANGED <<corrections, stamp, editVars>>
    BY <1>3 DEF DeleteRecord, PurgeRetained
  <2> QED BY <1>1, <2>1, RemovalKeepsJournal
<1> QED
  BY <1>2, <1>3, CommitKeepsJournal, ExpireKeepsJournal, OpenKeepsJournal, SaveKeepsJournal
     DEF SalaryNext

\* Ids are never given out again, so what a runner has read stays as good as it was.
LEMMA StampGrows ==
  ASSUME TypeOK, SalaryNext
  PROVE  stamp' \in Nat /\ stamp <= stamp'
<1>1. stamp \in Nat
  BY DEF TypeOK, SalaryTypeOK
<1>2. stamp' = stamp \/ stamp' = stamp + 1
  <2>1. CASE Commit
    BY <2>1 DEF Commit, CommitMissing, CommitReplayed, CommitStale, CommitWritten, recordVars
  <2>2. CASE CreateRecord \/ DeleteRecord \/ PurgeRetained \/ ExpirePreview
    BY <2>2 DEF CreateRecord, DeleteRecord, PurgeRetained, ExpirePreview, recordVars
  <2>3. CASE \E d \in Editors : OpenDialog(d) \/ Save(d) \/ SaveAfterLogin(d) \/ CloseDialog(d)
    BY <2>3 DEF OpenDialog, Save, SaveAfterLogin, CloseDialog, recordVars
  <2> QED BY <2>1, <2>2, <2>3 DEF SalaryNext
<1> QED BY <1>1, <1>2

LEMMA SnapshotsStay ==
  ASSUME TypeOK, SnapshotsKeyed, stamp' \in Nat, stamp <= stamp',
         \A w \in Runners : runner'[w].existing = runner[w].existing \/ runner'[w].existing = {}
  PROVE  SnapshotsKeyed'
<1>1. \A w \in Runners : \A r \in runner[w].existing : r.id \in Nat
  BY DEF TypeOK, RunnerStates, SalaryRecord
<1> QED BY <1>1 DEF SnapshotsKeyed, TypeOK, SalaryTypeOK

LEMMA SalaryKeepsInv ==
  ASSUME Inv, SalaryNext, UNCHANGED runVars
  PROVE  Inv'
<1>1. JournalInv' /\ SalaryTypeOK' /\ stamp' \in Nat /\ stamp <= stamp'
  BY SalaryKeepsJournal, StampGrows DEF Inv
<1>2. SnapshotsKeyed'
  BY <1>1, SnapshotsStay DEF Inv, runVars
<1> QED
  BY <1>1, <1>2 DEF Inv, TypeOK, OneRunner, MailInv, ReportDelivered, Content, runVars

LEMMA ManagingKeepsInv ==
  ASSUME Inv, ChangeDue \/ ChangeStaff \/ PurgeEmployee \/ NextDay
  PROVE  Inv'
<1> USE DEF Inv
<1>1. CASE PurgeEmployee
  <2>1. PICK e \in Emps : staff' = [staff EXCEPT ![e] = "purged"] /\ due' = due \ {e}
                          /\ records' = Anonymized(e)
    BY <1>1 DEF PurgeEmployee
  <2>2. UNCHANGED <<corrections, stamp, editVars, run, runner, known, deliveries, lastFile, day>>
    BY <1>1 DEF PurgeEmployee
  <2>3. JournalUntouched
    BY <2>1, <2>2, AnonymizingKeepsJournal
  <2>4. JournalInv'
    BY <2>2, <2>3, UntouchedKeepsJournal
  <2>5. TypeOK'
    BY <2>1, <2>2, <2>3 DEF TypeOK, SalaryTypeOK, JournalUntouched, editVars
  <2> QED
    BY <2>2, <2>4, <2>5
       DEF SnapshotsKeyed, OneRunner, MailInv, ReportDelivered, Content
<1>2. CASE ChangeDue \/ ChangeStaff \/ NextDay
  <2>1. UNCHANGED <<salaryVars, run, runner, deliveries, lastFile>>
    BY <1>2 DEF ChangeDue, ChangeStaff, NextDay
  <2>2. known' = known \/ known' = {}
    BY <1>2 DEF ChangeDue, ChangeStaff, NextDay
  <2>3. due' \subseteq Emps /\ staff' \in [Emps -> {"active", "inactive", "purged"}] /\ day' \in Nat
    BY <1>2 DEF ChangeDue, ChangeStaff, NextDay, TypeOK
  <2>4. TypeOK'
    BY <2>1, <2>2, <2>3 DEF TypeOK, SalaryTypeOK, salaryVars, recordVars, editVars
  <2>5. JournalInv'
    BY <2>1 DEF salaryVars, recordVars, editVars, JournalInv, RecordsKeyed, CorrectionsKnown,
                RequestsShown, Asked, StaleStays, Applicable, AuditTrailComplete, NoLostUpdate
  <2> QED
    BY <2>1, <2>2, <2>4, <2>5
       DEF SnapshotsKeyed, OneRunner, MailInv, ReportDelivered, Content, salaryVars, recordVars
<1> QED BY <1>1, <1>2

-----------------------------------------------------------------------------
(* The runner's steps.                                                      *)

\* Mails are never taken back, and every key Resend remembers stands for one.
MailsKept ==
    /\ deliveries \subseteq deliveries' /\ IsFiniteSet(deliveries')
    /\ \A x \in deliveries' : x.n \in Nat /\ x.day \in Nat
    /\ \A k \in known' :
          /\ k.report \subseteq ReportRows /\ k.file \in Nat
          /\ \E x \in deliveries' : x.content = Content(k.report)

\* A runner that is at work is the only one, and the row says that it runs.
LEMMA Alone ==
  ASSUME OneRunner, NEW w \in Runners, runner[w].at # "idle" \/ run.status # "running"
  PROVE  /\ \A v \in Runners : v # w => runner[v].at = "idle"
         /\ runner[w].at # "idle" => run.status = "running"
BY DEF OneRunner

\* What a step of the only runner has to keep: the journal, the mails, and a report
\* behind what it takes for sent and what it records as succeeded.
LEMMA RunnerStepKeepsInv ==
  ASSUME Inv, NEW w \in Runners, NEW z \in RunnerStates, Goes(w, z),
         \A v \in Runners : v # w => runner[v].at = "idle",
         run' \in Runs, z.at # "idle" => run'.status = "running",
         JournalInv', SalaryTypeOK', stamp <= stamp',
         UNCHANGED <<staff, due, day>>, lastFile' \in Nat, MailsKept,
         z.at = "finish" /\ z.mail => \E x \in deliveries' : x.content = Content(z.report),
         run' = run \/ ReportDelivered',
         \A r, q \in z.existing : r.id <= stamp /\ (r.id = q.id => r = q)
  PROVE  Inv'
<1>1. /\ runner' \in [Runners -> RunnerStates]
      /\ \A v \in Runners : runner'[v] = IF v = w THEN z ELSE runner[v]
  BY DEF Inv, TypeOK, Goes
<1>2. TypeOK'
  BY <1>1 DEF Inv, TypeOK, MailsKept
<1>3. OneRunner'
  BY <1>1 DEF OneRunner
<1>4. SnapshotsKeyed'
  <2>1. \A v \in Runners : \A r \in runner'[v].existing : r.id \in Nat
    BY <1>1 DEF RunnerStates, SalaryRecord
  <2>2. stamp \in Nat /\ stamp' \in Nat
    BY DEF Inv, TypeOK, SalaryTypeOK
  <2>3. \A v \in Runners : \A r, q \in runner'[v].existing :
            r.id <= stamp /\ (r.id = q.id => r = q)
    BY <1>1 DEF Inv, SnapshotsKeyed
  <2> QED BY <2>1, <2>2, <2>3 DEF SnapshotsKeyed
<1>5. MailInv'
  <2>1. \A v \in Runners : runner'[v].at = "finish" /\ runner'[v].mail =>
           \E x \in deliveries' : x.content = Content(runner'[v].report)
    BY <1>1
  <2> QED BY <2>1 DEF MailsKept, MailInv, Content
<1>6. ReportDelivered'
  BY DEF Inv, ReportDelivered, MailsKept, Content
<1> QED BY <1>2, <1>3, <1>4, <1>5, <1>6 DEF Inv

\* A step that touches no record and posts no mail.
LEMMA QuietStepKeepsInv ==
  ASSUME Inv, NEW w \in Runners, NEW z \in RunnerStates, Goes(w, z),
         runner[w].at # "idle" \/ run.status # "running",
         run' \in Runs, z.at # "idle" => run'.status = "running",
         UNCHANGED <<salaryVars, staff, due, known, deliveries, day>>, lastFile' \in Nat,
         z.at = "finish" /\ z.mail => \E x \in deliveries : x.content = Content(z.report),
         run' = run \/ ReportDelivered',
         z.existing \in {runner[w].existing, {}, {r \in records : r.emp # NoEmp}}
  PROVE  Inv'
<1>1. MailsKept
  BY DEF Inv, MailInv, TypeOK, MailsKept, Content
<1>2. JournalInv' /\ SalaryTypeOK' /\ stamp' = stamp
  BY DEF Inv, TypeOK, SalaryTypeOK, salaryVars, recordVars, editVars, JournalInv, RecordsKeyed,
         CorrectionsKnown, RequestsShown, Asked, StaleStays, Applicable, AuditTrailComplete, NoLostUpdate
<1>3. stamp <= stamp'
  BY <1>2 DEF Inv, TypeOK, SalaryTypeOK
<1>4. \A r, q \in z.existing : r.id <= stamp /\ (r.id = q.id => r = q)
  BY DEF Inv, SnapshotsKeyed, JournalInv, RecordsKeyed, TypeOK, SalaryTypeOK
<1>5. \A v \in Runners : v # w => runner[v].at = "idle"
  BY Alone DEF Inv
<1> QED BY <1>1, <1>2, <1>3, <1>4, <1>5, RunnerStepKeepsInv

LEMMA RunRowTypes ==
  /\ \A status \in Statuses : /\ RunRow(status) \in Runs /\ RunRow(status).status = status
                              /\ ~RunRow(status).mailed
  /\ IdleRunner \in RunnerStates /\ IdleRunner.at = "idle" /\ IdleRunner.existing = {}
BY DEF Runs, RunRow, IdleRunner, RunnerStates, Stages

\* Taking the month, reading, printing, recording the end, failing and crashing.
LEMMA QuietStepsKeepInv ==
  ASSUME Inv, NEW w \in Runners,
         \/ Acquire(w) \/ ReadEmployees(w) \/ ReadRecords(w) \/ ReadAttendance(w)
         \/ RenderPdf(w) \/ Succeed(w) \/ Fail(w) \/ Crash(w)
  PROVE  Inv'
<1> USE RunRowTypes DEF Statuses
<1> DEFINE s == runner[w]
<1>1. s \in RunnerStates /\ run \in Runs /\ lastFile \in Nat
  BY DEF Inv, TypeOK
<1>2. s.at # "idle" => run.status = "running"
  BY DEF Inv, OneRunner
<1>3. CASE Acquire(w)
  <2>1. PICK force \in BOOLEAN, mail \in BOOLEAN :
           Goes(w, [IdleRunner EXCEPT !.at = "employees", !.force = force, !.mail = mail])
    BY <1>3, RunFlagsAssumption, MailsAssumption DEF Acquire
  <2> DEFINE z == [IdleRunner EXCEPT !.at = "employees", !.force = force, !.mail = mail]
  <2>2. z \in RunnerStates /\ z.at = "employees" /\ z.existing = {}
    BY DEF IdleRunner, RunnerStates, Stages
  <2>3. run' = RunRow("running") /\ UNCHANGED <<salaryVars, staff, due, known, deliveries, lastFile, day>>
        /\ run.status # "running"
    BY <1>3 DEF Acquire
  <2>4. ReportDelivered'
    BY <2>3 DEF ReportDelivered
  <2> HIDE DEF z
  <2> QED BY <1>1, <2>1, <2>2, <2>3, <2>4, QuietStepKeepsInv DEF z
<1>4. CASE ReadEmployees(w)
  <2> DEFINE z == [s EXCEPT !.at = "records", !.active = {e \in Emps : staff[e] = "active"}]
  <2>1. z \in RunnerStates /\ z.at = "records" /\ z.existing = s.existing
    BY <1>1 DEF RunnerStates, Stages
  <2>2. /\ s.at = "employees" /\ Goes(w, z) /\ run' = run
        /\ UNCHANGED <<salaryVars, staff, due, known, deliveries, lastFile, day>>
    BY <1>4 DEF ReadEmployees
  <2> HIDE DEF z
  <2> QED BY <1>1, <1>2, <2>1, <2>2, QuietStepKeepsInv
<1>5. CASE ReadRecords(w)
  <2> DEFINE z == [s EXCEPT !.at = "attendance", !.existing = {r \in records : r.emp # NoEmp}]
  <2>1. z \in RunnerStates /\ z.at = "attendance" /\ z.existing = {r \in records : r.emp # NoEmp}
    BY <1>1 DEF RunnerStates, Stages, Inv, TypeOK, SalaryTypeOK
  <2>2. /\ s.at = "records" /\ Goes(w, z) /\ run' = run
        /\ UNCHANGED <<salaryVars, staff, due, known, deliveries, lastFile, day>>
    BY <1>5 DEF ReadRecords
  <2> HIDE DEF z
  <2> QED BY <1>1, <1>2, <2>1, <2>2, QuietStepKeepsInv
<1>6. CASE ReadAttendance(w)
  <2> DEFINE z == [s EXCEPT !.at = "save", !.due = due]
  <2>1. z \in RunnerStates /\ z.at = "save" /\ z.existing = s.existing
    BY <1>1 DEF RunnerStates, Stages, Inv, TypeOK
  <2>2. /\ s.at = "attendance" /\ Goes(w, z) /\ run' = run
        /\ UNCHANGED <<salaryVars, staff, due, known, deliveries, lastFile, day>>
    BY <1>6 DEF ReadAttendance
  <2> HIDE DEF z
  <2> QED BY <1>1, <1>2, <2>1, <2>2, QuietStepKeepsInv
<1>7. CASE RenderPdf(w)
  <2> DEFINE z == [s EXCEPT !.at = IF s.mail THEN "mail" ELSE "finish", !.file = lastFile']
  <2>1. /\ s.at = "pdf" /\ Goes(w, z) /\ run' = run
        /\ UNCHANGED <<salaryVars, staff, due, known, deliveries, day>>
        /\ lastFile' = IF CloudRun THEN lastFile + 1 ELSE 0
    BY <1>7 DEF RenderPdf
  <2>2. lastFile' \in Nat
    BY <1>1, <2>1
  <2>3. z \in RunnerStates /\ z.existing = s.existing /\ z.mail = s.mail
        /\ z.at = IF s.mail THEN "mail" ELSE "finish"
    BY <1>1, <2>2 DEF RunnerStates, Stages
  <2> HIDE DEF z
  <2>4. ~(z.at = "finish" /\ z.mail) /\ z.at # "idle"
    BY <2>3
  <2> QED BY <1>1, <1>2, <2>1, <2>2, <2>3, <2>4, QuietStepKeepsInv
<1>8. CASE Succeed(w)
  <2>1. /\ s.at = "finish" /\ Goes(w, IdleRunner)
        /\ run' = [status |-> "succeeded", report |-> s.report, mailed |-> s.mail]
        /\ UNCHANGED <<salaryVars, staff, due, known, deliveries, lastFile, day>>
    BY <1>8 DEF Succeed
  <2>2. run' \in Runs
    BY <1>1, <2>1 DEF Runs, RunnerStates
  <2>3. ReportDelivered'
    BY <2>1 DEF ReportDelivered, Inv, MailInv, Content
  <2> QED BY <1>1, <2>1, <2>2, <2>3, QuietStepKeepsInv
<1>9. CASE Fail(w)
  <2>1. /\ s.at # "idle" /\ Goes(w, IdleRunner) /\ run' = RunRow("failed")
        /\ UNCHANGED <<salaryVars, staff, due, known, deliveries, lastFile, day>>
    BY <1>9 DEF Fail
  <2>2. ReportDelivered'
    BY <2>1 DEF ReportDelivered
  <2> QED BY <1>1, <2>1, <2>2, QuietStepKeepsInv
<1>10. CASE Crash(w)
  BY <1>1, <1>10, QuietStepKeepsInv DEF Crash
<1> QED BY <1>3, <1>4, <1>5, <1>6, <1>7, <1>8, <1>9, <1>10

LEMMA ReportTypes ==
  ASSUME TypeOK, NEW w \in Runners
  PROVE  Report(runner[w]) \subseteq ReportRows
<1> DEFINE s == runner[w]
           P == Planned(s)
           kept == {r.emp : r \in Kept(s)}
<1>1. s.existing \subseteq SalaryRecord /\ s.active \subseteq Emps
  BY DEF TypeOK, RunnerStates
<1>2. kept \in SUBSET Emps /\ P \in SUBSET Emps
  BY <1>1 DEF Kept, Planned
<1>3. Cardinality(kept) \in Nat
  BY <1>2, FS_Subset, FS_CardinalityType, EmpsFiniteAssumption
<1>4. ASSUME NEW r \in Kept(s)
      PROVE  [id |-> r.id, rev |-> r.rev, row |-> Place(r.emp, kept)] \in ReportRows
  <2>1. r \in SalaryRecord /\ r.emp \in kept
    BY <1>1 DEF Kept
  <2>2. Place(r.emp, kept) \in Nat
    BY <1>2, <2>1, PlaceType
  <2> HIDE DEF kept
  <2> QED BY <2>1, <2>2 DEF ReportRows, SalaryRecord
<1>5. ASSUME NEW e \in P
      PROVE  [id |-> Written(e, s).id, rev |-> Written(e, s).rev,
              row |-> Cardinality(kept) + Place(e, P)] \in ReportRows
  <2>1. Written(e, s) \in SalaryRecord
    BY WrittenRecord
  <2>2. Place(e, P) \in Nat
    BY <1>2, PlaceType
  <2> HIDE DEF kept, P
  <2> QED BY <1>3, <2>1, <2>2 DEF ReportRows, SalaryRecord
<1> QED BY <1>4, <1>5 DEF Report

LEMMA SaveKeepsInv ==
  ASSUME Inv, NEW w \in Runners, SaveBatch(w)
  PROVE  Inv'
<1> USE RunRowTypes DEF Statuses
<1> DEFINE s == runner[w]
           z == [s EXCEPT !.at = "pdf", !.report = Report(s)]
<1>1. /\ s.at = "save" /\ UNCHANGED <<corrections, editVars, staff, due, known, deliveries, lastFile, day>>
      /\ \/ run' = RunRow("skipped") /\ Goes(w, IdleRunner)
         \/ run' = run /\ Goes(w, z)
  BY DEF SaveBatch
<1>2. JournalUntouched
  BY BatchKeepsJournal DEF Inv
<1>3. JournalInv' /\ SalaryTypeOK' /\ stamp <= stamp'
  BY <1>1, <1>2, UntouchedKeepsJournal DEF JournalUntouched, Inv, TypeOK, SalaryTypeOK, editVars
<1>4. z \in RunnerStates /\ z.at = "pdf" /\ z.existing = s.existing
  BY ReportTypes DEF Inv, TypeOK, RunnerStates, Stages
<1>5. MailsKept
  BY <1>1 DEF Inv, MailInv, TypeOK, MailsKept, Content
<1>6. /\ \A v \in Runners : v # w => runner[v].at = "idle"
      /\ run.status = "running" /\ run \in Runs
      /\ lastFile' \in Nat
  BY <1>1, Alone DEF Inv, TypeOK
<1>7. \A r, q \in s.existing : r.id <= stamp /\ (r.id = q.id => r = q)
  BY DEF Inv, SnapshotsKeyed
<1> HIDE DEF z
<1>8. CASE run' = RunRow("skipped") /\ Goes(w, IdleRunner)
  <2>1. ReportDelivered'
    BY <1>8 DEF ReportDelivered
  <2> QED BY <1>1, <1>3, <1>5, <1>6, <1>8, <2>1, RunnerStepKeepsInv
<1>9. CASE run' = run /\ Goes(w, z)
  BY <1>1, <1>3, <1>4, <1>5, <1>6, <1>7, <1>9, RunnerStepKeepsInv
<1> QED BY <1>1, <1>8, <1>9

\* An answer, or none: the report has been accepted before the mail counts as sent.
LEMMA PostKeepsInv ==
  ASSUME Inv, NEW w \in Runners, PostNew(w) \/ PostRemembered(w) \/ PostLost(w)
  PROVE  Inv'
<1> USE RunRowTypes DEF Statuses
<1> DEFINE s == runner[w]
           k == MailKey(w)
           x == [n |-> Cardinality(deliveries), day |-> day, content |-> Content(s.report)]
           sent1 == [s EXCEPT !.at = "finish"]
           again == [s EXCEPT !.tries = 1]
<1>1. s \in RunnerStates /\ run \in Runs /\ day \in Nat /\ lastFile \in Nat
  BY DEF Inv, TypeOK
<1>2. s.at = "mail" /\ UNCHANGED <<salaryVars, staff, due, lastFile, day>>
  BY DEF PostNew, PostRemembered, PostLost
<1>3. /\ \A v \in Runners : v # w => runner[v].at = "idle"
      /\ run.status = "running"
  BY <1>2, Alone DEF Inv
<1>4. JournalInv' /\ SalaryTypeOK' /\ stamp' = stamp
  BY <1>2 DEF Inv, TypeOK, SalaryTypeOK, salaryVars, recordVars, editVars, JournalInv, RecordsKeyed,
         CorrectionsKnown, RequestsShown, Asked, StaleStays, Applicable, AuditTrailComplete, NoLostUpdate
<1>5. stamp <= stamp'
  BY <1>4 DEF Inv, TypeOK, SalaryTypeOK
<1>6. k.report = s.report /\ k.file = s.file /\ s.report \subseteq ReportRows /\ s.file \in Nat
  BY <1>1 DEF MailKey, ReportKey, RunnerStates
<1>7. /\ MailsKept
      /\ PostLost(w) \/ \E y \in deliveries' : y.content = Content(s.report)
  <2>1. CASE PostNew(w)
    <3>1. known' = known \cup {k} /\ deliveries' = deliveries \cup {x}
      BY <2>1 DEF PostNew
    <3>2. IsFiniteSet(deliveries') /\ Cardinality(deliveries) \in Nat
      BY <3>1, FS_AddElement, FS_CardinalityType DEF Inv, MailInv
    <3>3. x.n \in Nat /\ x.day \in Nat /\ x.content = Content(s.report)
      BY <1>1, <3>2
    <3> HIDE DEF x, k
    <3> QED BY <1>6, <3>1, <3>2, <3>3 DEF MailsKept, Inv, TypeOK, MailInv
  <2>2. CASE PostRemembered(w)
    <3>1. UNCHANGED <<known, deliveries>> /\ k \in known
      BY <2>2 DEF PostRemembered
    <3> QED BY <1>6, <3>1 DEF MailsKept, Inv, TypeOK, MailInv
  <2>3. CASE PostLost(w)
    <3>1. UNCHANGED <<known, deliveries>>
      BY <2>3 DEF PostLost
    <3> QED BY <2>3, <3>1 DEF MailsKept, Inv, TypeOK, MailInv
  <2> QED BY <2>1, <2>2, <2>3
<1>8. /\ sent1 \in RunnerStates /\ sent1.existing = s.existing /\ sent1.report = s.report
      /\ again \in RunnerStates /\ again.existing = s.existing /\ again.at = "mail"
  BY <1>1, <1>2 DEF RunnerStates, Stages
<1>9. \A r, q \in s.existing : r.id <= stamp /\ (r.id = q.id => r = q)
  BY DEF Inv, SnapshotsKeyed
<1>10. \/ ~PostLost(w) /\ Goes(w, sent1) /\ run' = run
       \/ Goes(w, again) /\ run' = run
       \/ Goes(w, IdleRunner) /\ run' = RunRow("failed")
  BY <1>2 DEF PostNew, PostRemembered, PostLost, Sent, Unanswered
<1> HIDE DEF sent1, again, k, x
<1>11. CASE ~PostLost(w) /\ Goes(w, sent1) /\ run' = run
  BY <1>1, <1>2, <1>3, <1>4, <1>5, <1>7, <1>8, <1>9, <1>11, RunnerStepKeepsInv
<1>12. CASE Goes(w, again) /\ run' = run
  BY <1>1, <1>2, <1>3, <1>4, <1>5, <1>7, <1>8, <1>9, <1>12, RunnerStepKeepsInv
<1>13. CASE Goes(w, IdleRunner) /\ run' = RunRow("failed")
  <2>1. ReportDelivered'
    BY <1>13 DEF ReportDelivered
  <2> QED BY <1>1, <1>2, <1>3, <1>4, <1>5, <1>7, <1>13, <2>1, RunnerStepKeepsInv
<1> QED BY <1>10, <1>11, <1>12, <1>13

-----------------------------------------------------------------------------
(* What holds of every behaviour.                                           *)

LEMMA InitInv == Init => Inv
<1> SUFFICES ASSUME Init PROVE Inv
  OBVIOUS
<1> USE DEF Init, SalaryInit, RunInit
<1>1. TypeOK
  <2>1. SalaryTypeOK
    BY DEF SalaryTypeOK, Dialog, Dialogs, NoRequest, Requests, Answers, Changes, Logins
  <2> QED BY <2>1, RunRowTypes DEF TypeOK, Statuses
<1>2. JournalInv
  BY DEF JournalInv, RecordsKeyed, CorrectionsKnown, RequestsShown, Asked, StaleStays,
         AuditTrailComplete, NoLostUpdate, Dialog, NoRequest
<1>3. SnapshotsKeyed /\ OneRunner
  BY DEF SnapshotsKeyed, OneRunner, IdleRunner
<1>4. MailInv /\ ReportDelivered
  BY FS_EmptySet DEF MailInv, ReportDelivered, IdleRunner, RunRow
<1> QED BY <1>1, <1>2, <1>3, <1>4 DEF Inv

LEMMA NextKeepsInv == Inv /\ [Next]_vars => Inv'
<1> SUFFICES ASSUME Inv, [Next]_vars PROVE Inv'
  OBVIOUS
<1>1. CASE UNCHANGED vars
  BY <1>1
     DEF Inv, TypeOK, SalaryTypeOK, JournalInv, RecordsKeyed, CorrectionsKnown, RequestsShown, Asked,
         StaleStays, Applicable, AuditTrailComplete, NoLostUpdate, SnapshotsKeyed, OneRunner, MailInv,
         ReportDelivered, Content, vars, runVars, salaryVars, recordVars, editVars
<1>2. CASE SalaryNext /\ UNCHANGED runVars
  BY <1>2, SalaryKeepsInv
<1>3. ASSUME NEW w \in Runners, Step(w) PROVE Inv'
  BY <1>3, QuietStepsKeepInv, SaveKeepsInv, PostKeepsInv DEF Step
<1>4. CASE ChangeDue \/ ChangeStaff \/ PurgeEmployee \/ NextDay
  BY <1>4, ManagingKeepsInv
<1> QED BY <1>1, <1>2, <1>3, <1>4 DEF Next

\* The inductive invariant holds of every reachable state of a month's settlement.
THEOREM SettlementInvariance == Spec => []Inv
BY InitInv, NextKeepsInv, PTL DEF Spec

\* However many runs, forced or not, dialogs, delayed copies, crashes and purges meet
\* in a month: acquireRun admits one runner, every variable keeps its type, and the
\* journal of commitSalaryCorrection tells without a gap how each corrected record
\* came to say what it says.
THEOREM SettlementIsSound == Spec => []SettlementSound
<1>1. Inv => SettlementSound
  BY DEF Inv, JournalInv, SettlementSound
<1> QED BY <1>1, SettlementInvariance, PTL

\* Every correction was applied to exactly what its dialog had shown.
THEOREM CorrectionsLoseNothing == Spec => []NoLostUpdate
<1>1. Inv => NoLostUpdate
  BY DEF Inv, JournalInv
<1> QED BY <1>1, SettlementInvariance, PTL

\* A request refused as stale is never applied, neither before nor by a later copy.
THEOREM RefusalIsFinal == Spec => []RefusedNeverApplied
<1>1. Inv => RefusedNeverApplied
  BY DEF Inv, JournalInv, StaleStays, RefusedNeverApplied
<1> QED BY <1>1, SettlementInvariance, PTL

\* A month recorded as succeeded with recipients has a mail that Resend accepted with
\* the records and revisions of its report, whatever answers were lost.
THEOREM SuccessMeansDelivery == Spec => []ReportDelivered
<1>1. Inv => ReportDelivered
  BY DEF Inv
<1> QED BY <1>1, SettlementInvariance, PTL

\* No step deletes a corrected record of an employee, or changes it without an entry
\* in the journal, except to anonymize it.
THEOREM CorrectedRecordsStay == Spec => CorrectedKept
<1> DEFINE Stays(r) == \E x \in records' :
                          /\ x.id = r.id
                          /\ x = r \/ x.retained \/ corrections' # corrections
           Kept1 == \A r \in records : Corrected(r.id) /\ ~r.retained => Stays(r)
<1>1. ASSUME Inv, Next PROVE Kept1
  <2> SUFFICES ASSUME NEW r \in records, Corrected(r.id), ~r.retained PROVE Stays(r)
    OBVIOUS
  <2>1. CASE records' = records
    BY <2>1
  <2>2. CASE CreateRecord \/ DeleteRecord \/ PurgeRetained
    BY <2>2 DEF CreateRecord, DeleteRecord, PurgeRetained
  <2>3. CASE Commit
    <3>1. PICK q \in sent : CommitMissing(q) \/ CommitReplayed(q) \/ CommitStale(q) \/ CommitWritten(q)
      BY <2>3 DEF Commit
    <3>2. CASE CommitWritten(q)
      <4>1. PICK y \in records :
              /\ y.id = q.rec
              /\ records' = (records \ {y}) \cup {Revised(y, y.rev + 1, stamp + 1)}
              /\ corrections' = corrections \cup
                    {[request |-> q, rec |-> y.id, rev |-> y.rev + 1, before |-> y.val, after |-> stamp + 1]}
        BY <3>2 DEF CommitWritten, Correction, Revised
      <4>2. Revised(y, y.rev + 1, stamp + 1).id = y.id
        BY DEF Revised, Inv, TypeOK, SalaryTypeOK, SalaryRecord
      <4>3. \A c \in corrections : c.rec # q.rec \/ c.request.key # q.key
        BY <3>2 DEF CommitWritten, Correction, Prior
      <4>4. corrections' # corrections
        <5> DEFINE new == [request |-> q, rec |-> y.id, rev |-> y.rev + 1, before |-> y.val, after |-> stamp + 1]
        <5>1. new.rec = q.rec /\ new.request.key = q.key
          BY <4>1
        <5> HIDE DEF new
        <5>2. new \notin corrections
          BY <4>3, <5>1
        <5> QED BY <4>1, <5>2 DEF new
      <4> QED BY <4>1, <4>2, <4>4
    <3> QED BY <2>1, <3>1, <3>2 DEF CommitMissing, CommitReplayed, CommitStale, recordVars
  <2>4. CASE PurgeEmployee
    <3>1. PICK e \in Emps : records' = Anonymized(e)
      BY <2>4 DEF PurgeEmployee
    <3>2. CASE r.emp # e
      BY <3>1, <3>2 DEF Anonymized
    <3>3. CASE r.emp = e
      <4> DEFINE x == [id |-> r.id, emp |-> NoEmp, rev |-> r.rev, val |-> AnonymousContent, retained |-> TRUE]
      <4>1. x \in records'
        BY <3>1, <3>3 DEF Anonymized
      <4> QED BY <4>1
    <3> QED BY <3>2, <3>3
  <2>5. ASSUME NEW w \in Runners, Step(w) PROVE Stays(r)
    <3>1. CASE SaveBatch(w)
      BY <3>1 DEF SaveBatch, BatchFits
    <3>2. CASE ~SaveBatch(w)
      <4>1. records' = records
        BY <2>5, <3>2
           DEF Step, Acquire, ReadEmployees, ReadRecords, ReadAttendance, RenderPdf, PostNew,
               PostRemembered, PostLost, Succeed, Fail, Crash, salaryVars, recordVars
      <4> QED BY <2>1, <4>1
    <3> QED BY <3>1, <3>2
  <2>6. CASE ExpirePreview \/ \E d \in Editors : OpenDialog(d) \/ Save(d) \/ SaveAfterLogin(d) \/ CloseDialog(d)
    BY <2>1, <2>6 DEF ExpirePreview, OpenDialog, Save, SaveAfterLogin, CloseDialog, recordVars
  <2>7. CASE ChangeDue \/ ChangeStaff \/ NextDay
    BY <2>1, <2>7 DEF ChangeDue, ChangeStaff, NextDay, salaryVars, recordVars
  <2> QED BY <1>1, <2>2, <2>3, <2>4, <2>5, <2>6, <2>7 DEF Next, SalaryNext
<1>2. Inv /\ [Next]_vars => [Kept1]_vars
  BY <1>1
<1> QED BY <1>2, SettlementInvariance, PTL DEF Spec, CorrectedKept
=============================================================================
