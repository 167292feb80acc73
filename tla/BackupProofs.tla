---------------------------- MODULE BackupProofs ----------------------------
(***************************************************************************)
(* Administrator sessions, the pool of PIN derivations, backups and        *)
(* restores, for any number of browsers, requests, files and writes.       *)
(***************************************************************************)
EXTENDS Backup, SequenceTheorems, FiniteSetTheorems, WellFoundedInduction, TLAPS

-----------------------------------------------------------------------------
(* The inductive invariant: sessions.                                       *)

AskRecords ==
    [op : {"login", "elevate", "pin", "work", "restore"},
     at : {"start", "verify", "hash", "swap", "check", "save", "load", "replace", "answer"},
     b : Browsers, copy : Auth, epoch : Nat, seen : Nat, cred : Hashes, pin : Pins]
Pools == [active : 0 .. Workers, queued : Seq(Requests), limit : QueueLimits]

SessionTyped ==
    /\ sess \in [Browsers -> Auth] /\ epoch \in Nat
    /\ hash \in Hashes /\ salts \in 0 .. MaxHashes /\ chosen \in Pins
    /\ ask \in [Requests -> {NoAsk} \cup AskRecords]
    /\ served \in 0 .. MaxRequests /\ shows \in [Browsers -> {"guest", "admin"}]

\* What a request carries: only logins and PIN checks derive; a login read the PIN
\* between its arrival and now, saves only if no restore came in between, and upgrades
\* a hash to the PIN it was made from.
Honest(a) ==
    /\ a.epoch <= epoch /\ a.copy.seen = a.copy.epoch
    /\ a.op \in {"work", "restore"} => a.at \notin {"verify", "hash"}
    /\ a.op = "login" =>
          /\ a.at \in {"verify", "hash", "swap", "check"} => a.epoch <= a.seen /\ a.seen <= epoch
          /\ a.at = "save" => a.seen = a.epoch
          /\ a.at \in {"hash", "swap"} => a.pin = a.cred.pin

\* A session is stamped with the epoch in which its PIN was read.
SessionsHonest ==
    /\ \A b \in Browsers : sess[b].seen = sess[b].epoch
    /\ \A r \in Requests : ask[r] # NoAsk => Honest(ask[r]) /\ r <= served

\* The pool p while the requests in D are being derived or wait for it.
Waiting(q) == {q[i] : i \in 1 .. Len(q)}
PoolOK(p, D) ==
    /\ p \in Pools
    /\ Waiting(p.queued) \subseteq D
    /\ \A i, j \in 1 .. Len(p.queued) : p.queued[i] = p.queued[j] => i = j
    /\ p.active = Cardinality(D \ Waiting(p.queued))
    /\ Len(p.queued) <= p.limit
    /\ p.queued # <<>> => p.active = Workers

Derivers == {r \in Requests : Deriving(r)}

SessionInv == SessionTyped /\ SessionsHonest /\ PinAsChosen /\ PoolOK(pool, Derivers)

-----------------------------------------------------------------------------
(* The inductive invariant: tables, files and restores under way.           *)

Tokens == [file : FileIds, payload : Payload, live : Payload]
Jobs == [tries : 0 .. MaxAttempts, token : Tokens, confirmed : BOOLEAN]

BackupTyped ==
    /\ data \in Tables /\ seq \in Nat /\ written \in 0 .. MaxFiles
    /\ files \in [FileIds -> {NoFile} \cup [kind : {"manual", "daily"}, payload : Payload]]
    /\ due \in BOOLEAN /\ making \in BOOLEAN /\ paused \in BOOLEAN /\ torn \in BOOLEAN
    /\ writes \in 0 .. MaxWrites /\ used \subseteq Ids
    /\ job \in [Requests -> {NoJob} \cup Jobs]

\* Revisions count writes.
Counted(t) == \A p \in t.recs : p[2] <= writes

\* What a restore under way puts back was inspected.
JobsSound ==
    \A r \in Requests : ask[r].op = "restore" =>
        /\ job[r] \in Jobs
        /\ Inspect(job[r].token.payload.tables) /\ Counted(job[r].token.payload.tables)

TablesInv ==
    /\ Inspectable /\ IdsRetired /\ Counted(data)
    /\ \A p \in data.recs \cup data.journal : p[1] <= seq
    /\ \A f \in FileIds : files[f] # NoFile => Counted(files[f].payload.tables)

Inv == SessionInv /\ BackupTyped /\ JobsSound /\ TablesInv

-----------------------------------------------------------------------------
(* The pool of PIN derivations.                                             *)

LEMMA RequestsFinite ==
  ASSUME NEW D \in SUBSET Requests
  PROVE  IsFiniteSet(D) /\ Cardinality(D) \in Nat
<1>1. IsFiniteSet(Requests)
  BY FS_Interval, SessionAssumption DEF Requests
<1> QED BY <1>1, FS_Subset, FS_CardinalityType

LEMMA PoolEnters ==
  ASSUME NEW p, NEW D \in SUBSET Requests, PoolOK(p, D), NEW r \in Requests \ D, ~Full(p)
  PROVE  PoolOK(Entered(p, r), D \cup {r})
<1> USE SessionAssumption
<1> DEFINE q == p.queued
           W == Waiting(q)
<1>1. /\ q \in Seq(Requests) /\ p.active \in 0 .. Workers /\ p.limit \in QueueLimits
      /\ Len(q) \in Nat /\ p.limit \in Nat /\ Workers \in Nat /\ p.active \in Nat
  <2>1. q \in Seq(Requests) /\ p.active \in 0 .. Workers /\ p.limit \in QueueLimits
    BY DEF PoolOK, Pools
  <2>2. Len(q) \in Nat
    BY <2>1, LenProperties
  <2>3. Workers \in Nat
    BY SessionAssumption
  <2>4. p.limit \in Nat
    BY <2>1, SessionAssumption
  <2>5. p.active \in Nat
    BY <2>1, <2>3
  <2> QED BY <2>1, <2>2, <2>3, <2>4, <2>5
<1>2. CASE p.active < Workers
  <2>1. Entered(p, r) = [p EXCEPT !.active = @ + 1]
    BY <1>2 DEF Entered
  <2>2. /\ Entered(p, r).active = p.active + 1 /\ Entered(p, r).queued = q
        /\ Entered(p, r).limit = p.limit /\ Entered(p, r) \in Pools
    BY <1>1, <1>2, <2>1 DEF Pools, PoolOK
  <2>3. q = <<>> /\ W = {}
    BY <1>1, <1>2, EmptySeq DEF PoolOK, Waiting
  <2>4. Cardinality(D \cup {r}) = Cardinality(D) + 1
    BY RequestsFinite, FS_AddElement
  <2>5. (D \cup {r}) \ {} = D \cup {r} /\ D \ W = D
    BY <2>3
  <2> QED BY <1>1, <2>2, <2>3, <2>4, <2>5 DEF PoolOK
<1>3. CASE ~(p.active < Workers)
  <2>1. p.active = Workers /\ ~(Len(q) >= p.limit)
    BY <1>1, <1>3 DEF Full
  <2>2. Entered(p, r) = [p EXCEPT !.queued = Append(@, r)]
    BY <1>3 DEF Entered
  <2> DEFINE u == Append(q, r)
  <2>3. u \in Seq(Requests) /\ Len(u) = Len(q) + 1 /\ u[Len(q) + 1] = r
        /\ \A i \in 1 .. Len(q) : u[i] = q[i]
    BY <1>1, AppendProperties
  <2>4. /\ Entered(p, r).active = p.active /\ Entered(p, r).queued = u
        /\ Entered(p, r).limit = p.limit /\ Entered(p, r) \in Pools
    BY <1>1, <2>2, <2>3 DEF Pools, PoolOK
  <2> HIDE DEF u
  <2>5. Waiting(u) = W \cup {r}
    <3>1. \A i \in 1 .. Len(u) : i \in 1 .. Len(q) \/ i = Len(q) + 1
      BY <1>1, <2>3
    <3>2. \A i \in 1 .. Len(q) : i \in 1 .. Len(u)
      BY <1>1, <2>3
    <3>3. Len(q) + 1 \in 1 .. Len(u)
      BY <1>1, <2>3
    <3> QED BY <2>3, <3>1, <3>2, <3>3 DEF Waiting
  <2>6. (D \cup {r}) \ Waiting(u) = D \ W
    BY <2>5
  <2>7. \A i, j \in 1 .. Len(u) : u[i] = u[j] => i = j
    <3>1. \A i \in 1 .. Len(q) : q[i] # r
      BY DEF PoolOK, Waiting
    <3>2. \A i \in 1 .. Len(u) : i \in 1 .. Len(q) \/ i = Len(q) + 1
      BY <1>1, <2>3
    <3> QED BY <2>3, <3>1, <3>2 DEF PoolOK
  <2>8. Len(u) <= p.limit
    BY <1>1, <2>1, <2>3
  <2> QED BY <2>1, <2>4, <2>5, <2>6, <2>7, <2>8 DEF PoolOK
<1> QED BY <1>2, <1>3

LEMMA PoolReleases ==
  ASSUME NEW p, NEW D \in SUBSET Requests, PoolOK(p, D), NEW r \in D \ Waiting(p.queued)
  PROVE  PoolOK(Released(p), D \ {r})
<1> USE SessionAssumption
<1> DEFINE q == p.queued
           W == Waiting(q)
<1>1. /\ q \in Seq(Requests) /\ p.active \in 0 .. Workers /\ p.limit \in QueueLimits
      /\ Len(q) \in Nat /\ p.limit \in Nat /\ Workers \in Nat /\ p.active \in Nat
  <2>1. q \in Seq(Requests) /\ p.active \in 0 .. Workers /\ p.limit \in QueueLimits
    BY DEF PoolOK, Pools
  <2>2. Len(q) \in Nat
    BY <2>1, LenProperties
  <2>3. Workers \in Nat
    BY SessionAssumption
  <2>4. p.limit \in Nat
    BY <2>1, SessionAssumption
  <2>5. p.active \in Nat
    BY <2>1, <2>3
  <2> QED BY <2>1, <2>2, <2>3, <2>4, <2>5
<1>2. Cardinality((D \ W) \ {r}) = p.active - 1 /\ p.active >= 1
  <2>1. IsFiniteSet(D \ W) /\ D \ W # {}
    BY RequestsFinite
  <2>2. Cardinality((D \ W) \ {r}) = Cardinality(D \ W) - 1
    BY <2>1, FS_RemoveElement
  <2>3. Cardinality((D \ W) \ {r}) \in Nat
    BY RequestsFinite
  <2> QED BY <1>1, <2>2, <2>3 DEF PoolOK
<1>3. CASE q = <<>>
  <2>1. /\ Released(p).active = p.active - 1 /\ Released(p).queued = q
        /\ Released(p).limit = p.limit /\ Released(p) \in Pools
    BY <1>1, <1>2, <1>3 DEF Released, Pools, PoolOK
  <2>2. W = {}
    BY <1>3, EmptySeq DEF Waiting
  <2>3. (D \ {r}) \ W = (D \ W) \ {r}
    BY <2>2
  <2> QED BY <1>1, <1>2, <1>3, <2>1, <2>2, <2>3 DEF PoolOK
<1>4. CASE q # <<>>
  <2> DEFINE u == Tail(q)
  <2>1. u \in Seq(Requests) /\ Len(u) = Len(q) - 1 /\ \A i \in 1 .. Len(u) : u[i] = q[i + 1]
    BY <1>1, <1>4, HeadTailProperties
  <2>2. /\ Released(p).active = p.active /\ Released(p).queued = u
        /\ Released(p).limit = p.limit /\ Released(p) \in Pools
    BY <1>1, <1>4, <2>1 DEF Released, Pools, PoolOK
  <2> HIDE DEF u
  <2>3. Len(q) >= 1 /\ Len(u) \in Nat
    BY <1>1, <2>1, LenProperties
  <2>4. W = Waiting(u) \cup {q[1]}
    <3>1. \A i \in 1 .. Len(q) : i = 1 \/ (i - 1 \in 1 .. Len(u) /\ u[i - 1] = q[i])
      BY <1>1, <2>1, <2>3
    <3>2. \A i \in 1 .. Len(u) : i + 1 \in 1 .. Len(q) /\ u[i] = q[i + 1]
      BY <1>1, <2>1, <2>3
    <3>3. 1 \in 1 .. Len(q)
      BY <1>1, <2>3
    <3>4. W \subseteq Waiting(u) \cup {q[1]}
      BY <3>1 DEF Waiting
    <3>5. Waiting(u) \cup {q[1]} \subseteq W
      BY <3>2, <3>3 DEF Waiting
    <3> QED BY <3>4, <3>5
  <2>5. q[1] \notin Waiting(u)
    <3> SUFFICES ASSUME NEW i \in 1 .. Len(u), u[i] = q[1] PROVE FALSE
      BY DEF Waiting
    <3>1. i + 1 \in 1 .. Len(q) /\ 1 \in 1 .. Len(q) /\ q[i + 1] = q[1] /\ i + 1 # 1
      BY <1>1, <2>1, <2>3
    <3> QED BY <3>1 DEF PoolOK
  <2>6. (D \ {r}) \ Waiting(u) = ((D \ W) \ {r}) \cup {q[1]}
    <3>1. q[1] \in D /\ q[1] # r
      BY <2>4 DEF PoolOK
    <3> QED BY <2>4, <2>5, <3>1
  <2>7. Cardinality((D \ {r}) \ Waiting(u)) = p.active
    <3>1. q[1] \notin (D \ W) \ {r}
      BY <2>4
    <3>2. Cardinality(((D \ W) \ {r}) \cup {q[1]}) = Cardinality((D \ W) \ {r}) + 1
      BY <3>1, RequestsFinite, FS_AddElement
    <3>3. Cardinality((D \ {r}) \ Waiting(u)) = (p.active - 1) + 1
      BY <1>2, <2>6, <3>2
    <3> QED BY <1>1, <3>3
  <2>8. \A i, j \in 1 .. Len(u) : u[i] = u[j] => i = j
    <3> SUFFICES ASSUME NEW i \in 1 .. Len(u), NEW j \in 1 .. Len(u), u[i] = u[j] PROVE i = j
      OBVIOUS
    <3>1. i + 1 \in 1 .. Len(q) /\ j + 1 \in 1 .. Len(q) /\ q[i + 1] = q[j + 1]
      BY <1>1, <2>1, <2>3
    <3>2. i + 1 = j + 1
      BY <3>1 DEF PoolOK
    <3> QED BY <3>2
  <2>9. Len(u) <= p.limit /\ p.active = Workers
    BY <1>1, <1>4, <2>1 DEF PoolOK
  <2>10. Waiting(u) \subseteq D \ {r}
    BY <2>4 DEF PoolOK
  <2> QED BY <2>2, <2>7, <2>8, <2>9, <2>10 DEF PoolOK
<1> QED BY <1>3, <1>4

LEMMA WithoutOne ==
  ASSUME NEW q \in Seq(Requests), NEW i \in 1 .. Len(q)
  PROVE  LET u == RemoveAt(q, i)
         IN  /\ u \in Seq(Requests) /\ Len(u) = Len(q) - 1
             /\ \A k \in 1 .. Len(u) : u[k] = IF k < i THEN q[k] ELSE q[k + 1]
<1> DEFINE front == SubSeq(q, 1, i - 1)
           back == SubSeq(q, i + 1, Len(q))
<1>1. Len(q) \in Nat /\ i \in Nat /\ i >= 1 /\ i <= Len(q)
  BY LenProperties
<1>2. \A k \in 1 .. Len(q) : q[k] \in Requests
  BY ElementOfSeq
<1>3. /\ front \in Seq(Requests) /\ Len(front) = i - 1
      /\ \A k \in 1 .. i - 1 : front[k] = q[k]
  <2>1. 1 \in Int /\ i - 1 \in Int /\ \A k \in 1 .. i - 1 : q[k] \in Requests
    BY <1>1, <1>2
  <2>2. /\ SubSeq(q, 1, i - 1) \in Seq(Requests)
        /\ Len(SubSeq(q, 1, i - 1)) = IF 1 <= i - 1 THEN i - 1 - 1 + 1 ELSE 0
        /\ \A k \in 1 .. i - 1 - 1 + 1 : SubSeq(q, 1, i - 1)[k] = q[1 + k - 1]
    BY <2>1, SubSeqProperties
  <2>3. \A k \in 1 .. i - 1 : k \in 1 .. i - 1 - 1 + 1 /\ 1 + k - 1 = k
    BY <1>1
  <2> QED BY <1>1, <2>2, <2>3
<1>4. /\ back \in Seq(Requests) /\ Len(back) = Len(q) - i
      /\ \A k \in 1 .. Len(q) - i : back[k] = q[i + k]
  <2>1. i + 1 \in Int /\ Len(q) \in Int /\ \A k \in i + 1 .. Len(q) : q[k] \in Requests
    BY <1>1, <1>2
  <2>2. /\ SubSeq(q, i + 1, Len(q)) \in Seq(Requests)
        /\ Len(SubSeq(q, i + 1, Len(q))) = IF i + 1 <= Len(q) THEN Len(q) - (i + 1) + 1 ELSE 0
        /\ \A k \in 1 .. Len(q) - (i + 1) + 1 : SubSeq(q, i + 1, Len(q))[k] = q[(i + 1) + k - 1]
    BY <2>1, SubSeqProperties
  <2>3. \A k \in 1 .. Len(q) - i : k \in 1 .. Len(q) - (i + 1) + 1 /\ (i + 1) + k - 1 = i + k
    BY <1>1
  <2> QED BY <1>1, <2>2, <2>3
<1> HIDE DEF front, back
<1>5. /\ front \o back \in Seq(Requests) /\ Len(front \o back) = Len(front) + Len(back)
      /\ \A k \in 1 .. Len(front) + Len(back) :
            (front \o back)[k] = IF k <= Len(front) THEN front[k] ELSE back[k - Len(front)]
  BY <1>3, <1>4, ConcatProperties
<1>6. \A k \in 1 .. Len(q) - 1 : (front \o back)[k] = IF k < i THEN q[k] ELSE q[k + 1]
  <2> SUFFICES ASSUME NEW k \in 1 .. Len(q) - 1
               PROVE  (front \o back)[k] = IF k < i THEN q[k] ELSE q[k + 1]
    OBVIOUS
  <2>1. (front \o back)[k] = IF k <= i - 1 THEN front[k] ELSE back[k - (i - 1)]
    BY <1>1, <1>3, <1>4, <1>5
  <2>2. CASE k < i
    BY <1>1, <1>3, <2>1, <2>2
  <2>3. CASE ~(k < i)
    <3>1. k - (i - 1) \in 1 .. Len(q) - i /\ i + (k - (i - 1)) = k + 1
      BY <1>1, <2>3
    <3>2. back[k - (i - 1)] = q[k + 1]
      BY <1>4, <3>1
    <3> QED BY <1>1, <2>1, <2>3, <3>2
  <2> QED BY <2>2, <2>3
<1>7. Len(front \o back) = Len(q) - 1
  BY <1>1, <1>3, <1>4, <1>5
<1> QED BY <1>5, <1>6, <1>7 DEF RemoveAt, front, back

\* A derivation that waited long enough leaves the queue, whatever its place.
LEMMA PoolGivesUp ==
  ASSUME NEW p, NEW D \in SUBSET Requests, PoolOK(p, D), NEW i \in 1 .. Len(p.queued)
  PROVE  PoolOK([p EXCEPT !.queued = RemoveAt(@, i)], D \ {p.queued[i]})
<1> DEFINE q == p.queued
           W == Waiting(q)
           u == RemoveAt(q, i)
           v == [p EXCEPT !.queued = RemoveAt(@, i)]
<1>1. q \in Seq(Requests) /\ p.limit \in Nat /\ Len(q) \in Nat
  <2>1. q \in Seq(Requests) /\ p.limit \in QueueLimits
    BY DEF PoolOK, Pools
  <2>2. p.limit \in Nat
    BY <2>1, SessionAssumption
  <2> QED BY <2>1, <2>2, LenProperties
<1>2. /\ u \in Seq(Requests) /\ Len(u) = Len(q) - 1
      /\ \A k \in 1 .. Len(u) : u[k] = IF k < i THEN q[k] ELSE q[k + 1]
  BY <1>1, WithoutOne
<1>3. v.active = p.active /\ v.queued = u /\ v.limit = p.limit /\ v \in Pools
  BY <1>2 DEF Pools, PoolOK
<1> HIDE DEF u, v
<1>4. \A k \in 1 .. Len(u) : \E m \in 1 .. Len(q) : m # i /\ u[k] = q[m]
  <2> SUFFICES ASSUME NEW k \in 1 .. Len(u) PROVE \E m \in 1 .. Len(q) : m # i /\ u[k] = q[m]
    OBVIOUS
  <2>1. CASE k < i
    BY <1>1, <1>2, <2>1
  <2>2. CASE ~(k < i)
    BY <1>1, <1>2, <2>2
  <2> QED BY <2>1, <2>2
<1>5. \A m \in 1 .. Len(q) : m # i => \E k \in 1 .. Len(u) : u[k] = q[m]
  <2> SUFFICES ASSUME NEW m \in 1 .. Len(q), m # i PROVE \E k \in 1 .. Len(u) : u[k] = q[m]
    OBVIOUS
  <2>1. CASE m < i
    BY <1>1, <1>2, <2>1
  <2>2. CASE ~(m < i)
    <3>1. m - 1 \in 1 .. Len(u) /\ ~(m - 1 < i) /\ (m - 1) + 1 = m
      BY <1>1, <1>2, <2>2
    <3> QED BY <1>2, <3>1
  <2> QED BY <2>1, <2>2
<1>6. Waiting(u) = W \ {q[i]}
  <2>1. \A m \in 1 .. Len(q) : m # i => q[m] # q[i]
    BY DEF PoolOK
  <2>2. Waiting(u) \subseteq W \ {q[i]}
    BY <1>4, <2>1 DEF Waiting
  <2>3. W \ {q[i]} \subseteq Waiting(u)
    BY <1>5 DEF Waiting
  <2> QED BY <2>2, <2>3
<1>7. (D \ {q[i]}) \ Waiting(u) = D \ W
  <2>1. q[i] \in W
    BY DEF Waiting
  <2> QED BY <1>6, <2>1
<1>8. \A k, l \in 1 .. Len(u) : u[k] = u[l] => k = l
  <2> SUFFICES ASSUME NEW k \in 1 .. Len(u), NEW l \in 1 .. Len(u), u[k] = u[l] PROVE k = l
    OBVIOUS
  <2> DEFINE old(n) == IF n < i THEN n ELSE n + 1
  <2>1. old(k) \in 1 .. Len(q) /\ old(l) \in 1 .. Len(q) /\ (old(k) = old(l) => k = l)
    BY <1>1, <1>2
  <2>2. u[k] = q[old(k)] /\ u[l] = q[old(l)]
    BY <1>2
  <2> HIDE DEF old
  <2> QED BY <2>1, <2>2 DEF PoolOK
<1>9. Len(u) <= p.limit /\ (u # <<>> => q # <<>>)
  <2>1. Len(q) <= p.limit /\ q # <<>>
    BY <1>1, EmptySeq DEF PoolOK
  <2> QED BY <1>1, <1>2, <2>1
<1>10. Waiting(u) \subseteq D \ {q[i]}
  BY <1>6 DEF PoolOK
<1>11. PoolOK(v, D \ {q[i]})
  BY <1>3, <1>7, <1>8, <1>9, <1>10 DEF PoolOK
<1> QED BY <1>11 DEF v

-----------------------------------------------------------------------------
(* What a step of a request has to keep.                                    *)

Derives(a) == a # NoAsk /\ a.at \in {"verify", "hash"}

LEMMA RequestStepKeepsSessions ==
  ASSUME SessionInv, NEW r \in Requests, NEW a \in {NoAsk} \cup AskRecords,
         ask' = [ask EXCEPT ![r] = a], a # NoAsk => Honest(a) /\ r <= served', epoch' = epoch,
         hash' \in Hashes, salts' \in 0 .. MaxHashes, chosen' \in Pins, PinAsChosen',
         served' \in 0 .. MaxRequests, served <= served', shows' \in [Browsers -> {"guest", "admin"}],
         sess' \in [Browsers -> Auth], \A b \in Browsers : sess'[b].seen = sess'[b].epoch,
         PoolOK(pool', IF Derives(a) THEN Derivers \cup {r} ELSE Derivers \ {r})
  PROVE  SessionInv'
<1>1. /\ ask' \in [Requests -> {NoAsk} \cup AskRecords]
      /\ \A q \in Requests : ask'[q] = IF q = r THEN a ELSE ask[q]
  BY DEF SessionInv, SessionTyped
<1>2. SessionTyped'
  BY <1>1 DEF SessionInv, SessionTyped
<1>3. SessionsHonest'
  <2> SUFFICES ASSUME NEW q \in Requests, ask'[q] # NoAsk
               PROVE  Honest(ask[q])' /\ q <= served'
    BY DEF SessionsHonest
  <2>1. CASE q = r
    <3>1. ask'[q] = a
      BY <1>1, <2>1
    <3> QED BY <2>1, <3>1 DEF Honest
  <2>2. CASE q # r
    <3>1. ask'[q] = ask[q]
      BY <1>1, <2>2
    <3>2. Honest(ask[q]) /\ q <= served
      BY <3>1 DEF SessionInv, SessionsHonest
    <3>3. q \in Nat /\ served \in Nat /\ served' \in Nat
      BY DEF Requests, SessionInv, SessionTyped
    <3> QED BY <3>1, <3>2, <3>3 DEF Honest
  <2> QED BY <2>1, <2>2
<1>4. Derivers' = IF Derives(a) THEN Derivers \cup {r} ELSE Derivers \ {r}
  <2>1. \A q \in Requests : Deriving(q)' <=> IF q = r THEN Derives(a) ELSE Deriving(q)
    <3>1. Deriving(r)' <=> Derives(a)
      <4>1. ask'[r] = a
        BY <1>1
      <4> QED BY <4>1 DEF Deriving, Idle, Derives, NoAsk, AskRecords
    <3>2. \A q \in Requests : q # r => (Deriving(q)' <=> Deriving(q))
      BY <1>1 DEF Deriving, Idle
    <3> QED BY <3>1, <3>2
  <2> QED BY <2>1 DEF Derivers
<1> QED BY <1>2, <1>3, <1>4 DEF SessionInv

\* A request that is not being derived goes on to where it is not derived either.
LEMMA PlainStepKeepsSessions ==
  ASSUME SessionInv, NEW r \in Requests, NEW a \in {NoAsk} \cup AskRecords,
         ask' = [ask EXCEPT ![r] = a], a # NoAsk => Honest(a) /\ r <= served', epoch' = epoch,
         hash' \in Hashes, salts' \in 0 .. MaxHashes, chosen' \in Pins, PinAsChosen',
         served' \in 0 .. MaxRequests, served <= served', shows' \in [Browsers -> {"guest", "admin"}],
         sess' = sess \/ \E b \in Browsers, z \in Auth : z.seen = z.epoch /\ sess' = [sess EXCEPT ![b] = z],
         ~Deriving(r), ~Derives(a), pool' = pool
  PROVE  SessionInv'
<1>1. sess' \in [Browsers -> Auth] /\ \A b \in Browsers : sess'[b].seen = sess'[b].epoch
  BY DEF SessionInv, SessionTyped, SessionsHonest
<1>2. Derivers \ {r} = Derivers
  BY DEF Derivers
<1>3. PoolOK(pool', IF Derives(a) THEN Derivers \cup {r} ELSE Derivers \ {r})
  BY <1>2 DEF SessionInv
<1> QED BY <1>1, <1>3, RequestStepKeepsSessions

\* A request is known, and goes on unchanged but for its place.
LEMMA AskTypes ==
  ASSUME SessionInv, NEW r \in Requests, ask[r].op # "none"
  PROVE  ask[r] \in AskRecords /\ ask[r] # NoAsk /\ Honest(ask[r]) /\ r <= served
BY DEF SessionInv, SessionTyped, SessionsHonest, NoAsk

Ats == {"start", "verify", "hash", "swap", "check", "save", "load", "replace", "answer"}

LEMMA GoTypes ==
  ASSUME SessionInv, NEW r \in Requests, ask[r].op # "none", NEW at \in Ats
  PROVE  LET a == [ask[r] EXCEPT !.at = at]
         IN  /\ a \in AskRecords /\ a # NoAsk /\ a.at = at /\ a.op = ask[r].op /\ a.b = ask[r].b
             /\ a.copy = ask[r].copy /\ a.epoch = ask[r].epoch /\ a.seen = ask[r].seen
             /\ a.cred = ask[r].cred /\ a.pin = ask[r].pin
             /\ Go(r, at) => ask' = [ask EXCEPT ![r] = a]
<1>1. ask[r] \in AskRecords
  BY AskTypes
<1>2. Go(r, at) => ask' = [ask EXCEPT ![r] = [ask[r] EXCEPT !.at = at]]
  BY DEF Go
<1> DEFINE a == [ask[r] EXCEPT !.at = at]
<1>3. a \in AskRecords
  BY <1>1 DEF AskRecords, Ats
<1>4. a # NoAsk
  BY <1>3 DEF AskRecords, NoAsk
<1>5. /\ a.at = at /\ a.op = ask[r].op /\ a.b = ask[r].b /\ a.copy = ask[r].copy
      /\ a.epoch = ask[r].epoch /\ a.seen = ask[r].seen /\ a.cred = ask[r].cred /\ a.pin = ask[r].pin
  BY <1>1 DEF AskRecords
<1> QED BY <1>2, <1>3, <1>4, <1>5

LEMMA SessionTypes ==
  ASSUME SessionInv
  PROVE  /\ epoch \in Nat /\ hash \in Hashes /\ salts \in 0 .. MaxHashes /\ chosen \in Pins
         /\ hash.pin = chosen /\ served \in 0 .. MaxRequests /\ served <= served
         /\ shows \in [Browsers -> {"guest", "admin"}] /\ sess \in [Browsers -> Auth]
         /\ \A b \in Browsers : sess[b] \in Auth /\ sess[b].seen = sess[b].epoch
         /\ NoAuth \in Auth /\ NoAuth.seen = NoAuth.epoch
         /\ ~Derives(NoAsk) /\ NoAsk \in {NoAsk} \cup AskRecords
         /\ \A r \in Requests : ask[r].op = "none" \/ ask[r] \in AskRecords
BY DEF SessionInv, SessionTyped, SessionsHonest, PinAsChosen, NoAuth, Auth, Derives, NoAsk

-----------------------------------------------------------------------------
(* The steps of requests.                                                   *)

LEMMA ArriveKeepsSessions ==
  ASSUME SessionInv, NEW r \in Requests, NEW b \in Browsers, NEW op \in {"login", "elevate", "pin", "work", "restore"},
         NEW pin \in Pins, Arrive(r, b, op, pin)
  PROVE  SessionInv'
<1> DEFINE a == [op |-> op, at |-> "start", b |-> b, copy |-> sess[b],
                 epoch |-> epoch, seen |-> 0, cred |-> hash, pin |-> pin]
<1>1. /\ r = served + 1 /\ served' = r /\ ask' = [ask EXCEPT ![r] = a]
      /\ UNCHANGED <<sess, epoch, hash, salts, shows, chosen, pool>>
  BY DEF Arrive
<1>2. a \in AskRecords /\ a # NoAsk /\ a.at = "start" /\ a.epoch = epoch /\ a.copy = sess[b]
  BY SessionTypes DEF AskRecords, NoAsk
<1> HIDE DEF a
<1>3. Honest(a) /\ ~Derives(a)
  BY <1>2, SessionTypes DEF Honest, Derives
<1>4. served' \in 0 .. MaxRequests /\ served <= served' /\ r <= served'
  BY <1>1, SessionTypes DEF Requests
<1>5. ~Deriving(r)
  <2>1. ~(r <= served)
    BY <1>1, SessionTypes
  <2>2. ask[r] = NoAsk
    BY <2>1 DEF SessionInv, SessionsHonest
  <2> QED BY <2>2 DEF Deriving, Idle, NoAsk
<1>6. PinAsChosen'
  BY <1>1, SessionTypes DEF PinAsChosen
<1> QED BY <1>1, <1>2, <1>3, <1>4, <1>5, <1>6, SessionTypes, PlainStepKeepsSessions

\* A request leaves, or goes on, with everything else as it was.
LEMMA EndKeepsSessions ==
  ASSUME SessionInv, NEW r \in Requests, ask[r].op # "none", ~Deriving(r), End(r),
         UNCHANGED <<epoch, hash, salts, served, chosen, pool>>,
         shows' = shows \/ \E b \in Browsers : shows' = [shows EXCEPT ![b] = "admin"],
         sess' = sess \/ \E b \in Browsers, z \in Auth : z.seen = z.epoch /\ sess' = [sess EXCEPT ![b] = z]
  PROVE  SessionInv'
<1>1. ask' = [ask EXCEPT ![r] = NoAsk]
  BY DEF End
<1>2. PinAsChosen'
  BY SessionTypes DEF PinAsChosen
<1>3. shows' \in [Browsers -> {"guest", "admin"}]
  BY SessionTypes
<1> QED BY <1>1, <1>2, <1>3, SessionTypes, PlainStepKeepsSessions

LEMMA GoKeepsSessions ==
  ASSUME SessionInv, NEW r \in Requests, ask[r].op # "none", ~Deriving(r),
         NEW at \in Ats \ {"verify", "hash"}, Go(r, at),
         ask[r].op = "login" => Honest([ask[r] EXCEPT !.at = at]),
         UNCHANGED <<sess, epoch, hash, salts, served, shows, chosen, pool>>
  PROVE  SessionInv'
<1> DEFINE a == [ask[r] EXCEPT !.at = at]
<1>1. /\ a \in AskRecords /\ a # NoAsk /\ a.at = at /\ a.op = ask[r].op /\ a.copy = ask[r].copy
      /\ a.epoch = ask[r].epoch /\ ask' = [ask EXCEPT ![r] = a]
  BY GoTypes
<1> HIDE DEF a
<1>2. Honest(a) /\ r <= served
  <2>1. CASE ask[r].op = "login"
    BY <2>1, AskTypes DEF a
  <2>2. CASE ask[r].op # "login"
    BY <1>1, <2>2, AskTypes DEF Honest
  <2> QED BY <2>1, <2>2, AskTypes
<1>3. ~Derives(a)
  BY <1>1 DEF Derives
<1>4. PinAsChosen'
  BY SessionTypes DEF PinAsChosen
<1> QED BY <1>1, <1>2, <1>3, <1>4, SessionTypes, PlainStepKeepsSessions

\* A step in which only the pool and the request change.
LEMMA PoolStepKeepsSessions ==
  ASSUME SessionInv, NEW r \in Requests, NEW a \in {NoAsk} \cup AskRecords, ask[r].op # "none",
         ask' = [ask EXCEPT ![r] = a], a # NoAsk => Honest(a),
         UNCHANGED <<sess, epoch, hash, salts, served, shows, chosen>>,
         PoolOK(pool', IF Derives(a) THEN Derivers \cup {r} ELSE Derivers \ {r})
  PROVE  SessionInv'
<1>1. PinAsChosen' /\ r <= served'
  BY SessionTypes, AskTypes DEF PinAsChosen
<1> QED BY <1>1, SessionTypes, RequestStepKeepsSessions

\* A request that is not in the pool asks for a derivation, and waits, runs or is refused.
LEMMA DeriveKeepsSessions ==
  ASSUME SessionInv, NEW r \in Requests, NEW p, PoolOK(p, Derivers \ {r}), ask[r].op # "none",
         NEW a \in AskRecords, Derives(a), Honest(a), Derive(p, r, a),
         a.at = "hash" /\ ask[r].op = "login" => Honest([ask[r] EXCEPT !.at = "check"]),
         UNCHANGED <<sess, epoch, hash, salts, served, shows, chosen>>
  PROVE  SessionInv'
<1>1. Derivers \ {r} \in SUBSET Requests /\ r \notin Derivers \ {r}
  BY DEF Derivers
<1>2. CASE Full(p) /\ ~(ask[r].op = "login" /\ a.at = "hash")
  <2>1. ask' = [ask EXCEPT ![r] = NoAsk] /\ pool' = p
    BY <1>2 DEF Derive, Busy, End
  <2> QED BY <2>1, SessionTypes, PoolStepKeepsSessions
<1>3. CASE Full(p) /\ ask[r].op = "login" /\ a.at = "hash"
  <2> DEFINE c == [ask[r] EXCEPT !.at = "check"]
  <2>1. Go(r, "check") /\ pool' = p
    BY <1>3 DEF Derive, Busy
  <2>2. c \in AskRecords /\ c.at = "check" /\ ask' = [ask EXCEPT ![r] = c]
    BY <2>1, GoTypes DEF Ats
  <2>3. Honest(c)
    BY <1>3
  <2> HIDE DEF c
  <2>4. ~Derives(c)
    BY <2>2 DEF Derives
  <2> QED BY <2>1, <2>2, <2>3, <2>4, PoolStepKeepsSessions
<1>4. CASE ~Full(p)
  <2>1. ask' = [ask EXCEPT ![r] = a] /\ pool' = Entered(p, r)
    BY <1>4 DEF Derive
  <2>2. PoolOK(pool', (Derivers \ {r}) \cup {r})
    BY <1>1, <1>4, <2>1, PoolEnters
  <2>3. (Derivers \ {r}) \cup {r} = Derivers \cup {r}
    OBVIOUS
  <2> QED BY <2>1, <2>2, <2>3, PoolStepKeepsSessions
<1> QED BY <1>2, <1>3, <1>4

LEMMA ReadKeepsSessions ==
  ASSUME SessionInv, NEW r \in Requests, ReadCredential(r)
  PROVE  SessionInv'
<1>1. /\ ask[r].op \in {"login", "elevate", "pin"} /\ ask[r].op # "none"
      /\ ask[r].at = "start" /\ ask[r] \in AskRecords
      /\ UNCHANGED <<sess, epoch, hash, salts, served, shows, chosen>>
  BY SessionTypes DEF ReadCredential
<1>2. ~Deriving(r) /\ Derivers \ {r} = Derivers
  BY <1>1 DEF Deriving, Derivers
<1> DEFINE a == [ask[r] EXCEPT !.at = "verify", !.cred = hash, !.seen = epoch]
<1>3. CASE Derive(pool, r, a)
  <2>1. a \in AskRecords
    BY <1>1, SessionTypes DEF AskRecords
  <2>2. /\ a.at = "verify" /\ a.epoch = ask[r].epoch /\ a.seen = epoch /\ a.copy = ask[r].copy
        /\ a.op \notin {"work", "restore"}
    BY <1>1 DEF AskRecords
  <2>3. a # NoAsk
    BY <2>1 DEF AskRecords, NoAsk
  <2> HIDE DEF a
  <2>4. Derives(a) /\ Honest(a)
    BY <1>1, <2>2, <2>3, AskTypes, SessionTypes DEF Derives, Honest
  <2> QED BY <1>1, <1>2, <1>3, <2>1, <2>2, <2>4, DeriveKeepsSessions DEF SessionInv
<1>4. CASE End(r) /\ UNCHANGED pool
  BY <1>1, <1>2, <1>4, EndKeepsSessions
<1> QED BY <1>3, <1>4 DEF ReadCredential

\* What leaves the pool: a derivation that ends.
LEMMA RunsReleases ==
  ASSUME SessionInv, NEW r \in Requests, Runs(r)
  PROVE  ask[r] \in AskRecords /\ ask[r].op # "none" /\ PoolOK(Released(pool), Derivers \ {r})
<1>1. ask[r].op # "none" /\ r \in Derivers /\ r \notin Waiting(pool.queued)
  BY DEF Runs, Deriving, Idle, Derivers, Contains, Waiting
<1>2. Derivers \in SUBSET Requests
  BY DEF Derivers
<1> QED BY <1>1, <1>2, PoolReleases, AskTypes DEF SessionInv

LEMMA VerifiedKeepsSessions ==
  ASSUME SessionInv, NEW r \in Requests, Verified(r)
  PROVE  SessionInv'
<1> DEFINE p == Released(pool)
           next == [ask[r] EXCEPT !.at = "hash"]
           c == [ask[r] EXCEPT !.at = "check"]
<1>1. /\ ask[r] \in AskRecords /\ ask[r].op # "none" /\ PoolOK(p, Derivers \ {r})
      /\ ask[r].at = "verify" /\ UNCHANGED <<sess, epoch, hash, salts, served, shows, chosen>>
  BY RunsReleases DEF Verified
<1>2. /\ next \in AskRecords /\ next # NoAsk /\ next.at = "hash" /\ next.op = ask[r].op /\ next.copy = ask[r].copy
      /\ next.epoch = ask[r].epoch /\ next.seen = ask[r].seen /\ next.cred = ask[r].cred
      /\ next.pin = ask[r].pin
  BY <1>1, GoTypes DEF Ats
<1>3. /\ c \in AskRecords /\ c # NoAsk /\ c.at = "check" /\ c.op = ask[r].op /\ c.copy = ask[r].copy
      /\ c.epoch = ask[r].epoch /\ c.seen = ask[r].seen
      /\ Go(r, "check") => ask' = [ask EXCEPT ![r] = c]
  BY <1>1, GoTypes DEF Ats
<1>4. Honest(ask[r])
  BY <1>1, AskTypes
<1>5. \/ End(r) /\ pool' = p
      \/ Go(r, "check") /\ pool' = p
      \/ Derive(p, r, next) /\ (ask[r].op = "login" => ask[r].pin = ask[r].cred.pin)
  BY DEF Verified
<1> HIDE DEF p, next, c
<1>6. Honest(c) /\ ~Derives(c)
  BY <1>1, <1>3, <1>4 DEF Honest, Derives
<1>7. CASE End(r) /\ pool' = p
  <2>1. ask' = [ask EXCEPT ![r] = NoAsk]
    BY <1>7 DEF End
  <2> QED BY <1>1, <1>7, <2>1, SessionTypes, PoolStepKeepsSessions
<1>8. CASE Go(r, "check") /\ pool' = p
  BY <1>1, <1>3, <1>6, <1>8, PoolStepKeepsSessions
<1>9. CASE Derive(p, r, next) /\ (ask[r].op = "login" => ask[r].pin = ask[r].cred.pin)
  <2>1. Honest(next) /\ Derives(next)
    BY <1>1, <1>2, <1>4, <1>9 DEF Honest, Derives
  <2> QED BY <1>1, <1>2, <1>6, <1>9, <2>1, DeriveKeepsSessions DEF c
<1> QED BY <1>5, <1>7, <1>8, <1>9

LEMMA HashedKeepsSessions ==
  ASSUME SessionInv, NEW r \in Requests, Hashed(r)
  PROVE  SessionInv'
<1> DEFINE c == [ask[r] EXCEPT !.at = "swap"]
<1>1. /\ ask[r] \in AskRecords /\ ask[r].op # "none" /\ PoolOK(pool', Derivers \ {r})
      /\ ask[r].at = "hash" /\ Go(r, "swap")
      /\ UNCHANGED <<sess, epoch, hash, salts, served, shows, chosen>>
  BY RunsReleases DEF Hashed
<1>2. /\ c \in AskRecords /\ c # NoAsk /\ c.at = "swap" /\ c.op = ask[r].op /\ c.copy = ask[r].copy
      /\ c.epoch = ask[r].epoch /\ c.seen = ask[r].seen /\ c.cred = ask[r].cred /\ c.pin = ask[r].pin
      /\ ask' = [ask EXCEPT ![r] = c]
  BY <1>1, GoTypes DEF Ats
<1> HIDE DEF c
<1>3. Honest(c) /\ ~Derives(c)
  BY <1>1, <1>2, AskTypes DEF Honest, Derives
<1> QED BY <1>1, <1>2, <1>3, PoolStepKeepsSessions

LEMMA TimeoutKeepsSessions ==
  ASSUME SessionInv, NEW r \in Requests, WaitTimesOut(r)
  PROVE  SessionInv'
<1>1. PICK i \in 1 .. Len(pool.queued) :
        pool.queued[i] = r /\ pool' = [pool EXCEPT !.queued = RemoveAt(@, i)]
  BY DEF WaitTimesOut
<1>2. Busy(r, ask[r].at) /\ UNCHANGED <<sess, epoch, hash, salts, served, shows, chosen>>
  BY DEF WaitTimesOut
<1>3. PoolOK(pool', Derivers \ {r})
  <2>1. Derivers \in SUBSET Requests
    BY DEF Derivers
  <2> QED BY <1>1, <2>1, PoolGivesUp DEF SessionInv
<1>4. r \in Derivers
  BY <1>1 DEF SessionInv, PoolOK, Waiting
<1>5. ask[r].op # "none" /\ ask[r].at \in {"verify", "hash"}
  BY <1>4 DEF Derivers, Deriving, Idle
<1>6. CASE End(r)
  <2>1. ask' = [ask EXCEPT ![r] = NoAsk]
    BY <1>6 DEF End
  <2> QED BY <1>2, <1>3, <1>5, <2>1, SessionTypes, PoolStepKeepsSessions
<1>7. CASE Go(r, "check")
  <2> DEFINE c == [ask[r] EXCEPT !.at = "check"]
  <2>1. /\ c \in AskRecords /\ c # NoAsk /\ c.at = "check" /\ c.op = ask[r].op /\ c.copy = ask[r].copy
        /\ c.epoch = ask[r].epoch /\ c.seen = ask[r].seen
        /\ ask' = [ask EXCEPT ![r] = c]
    BY <1>5, <1>7, GoTypes DEF Ats
  <2> HIDE DEF c
  <2>2. Honest(c) /\ ~Derives(c)
    BY <1>5, <2>1, AskTypes DEF Honest, Derives
  <2> QED BY <1>2, <1>3, <1>5, <2>1, <2>2, PoolStepKeepsSessions
<1> QED BY <1>2, <1>6, <1>7 DEF Busy

-----------------------------------------------------------------------------
(* PIN change, and the ends of login, elevation and other requests.         *)

LEMMA SwapTypes ==
  ASSUME SessionInv, NEW expected \in Hashes, NEW pin \in Pins, SwapPin(expected, pin)
  PROVE  /\ hash' \in Hashes /\ salts' \in 0 .. MaxHashes
         /\ hash'.pin = IF hash = expected THEN pin ELSE chosen
<1>1. salts < MaxHashes /\ salts' = salts + 1 /\ salts \in 0 .. MaxHashes
      /\ hash' = IF hash = expected THEN FreshHash(pin) ELSE hash
  BY SessionTypes DEF SwapPin
<1>2. salts + 1 \in 0 .. MaxHashes
  BY <1>1, SessionAssumption
<1>3. FreshHash(pin) \in Hashes /\ FreshHash(pin).pin = pin
  BY <1>2 DEF FreshHash, Hashes
<1> QED BY <1>1, <1>2, <1>3, SessionTypes

LEMMA RehashKeepsSessions ==
  ASSUME SessionInv, NEW r \in Requests, Rehash(r)
  PROVE  SessionInv'
<1>1. /\ ask[r].op = "login" /\ ask[r].at = "swap"
      /\ UNCHANGED <<sess, epoch, served, shows, chosen, pool>>
  BY DEF Rehash
<1>2. ask[r] \in AskRecords /\ Honest(ask[r]) /\ r <= served /\ ~Deriving(r)
  BY <1>1, AskTypes DEF Deriving
<1> DEFINE c == [ask[r] EXCEPT !.at = "check"]
<1>3. /\ c \in AskRecords /\ c # NoAsk /\ c.at = "check" /\ c.op = "login" /\ c.copy = ask[r].copy
      /\ c.epoch = ask[r].epoch /\ c.seen = ask[r].seen
      /\ Go(r, "check") => ask' = [ask EXCEPT ![r] = c]
  BY <1>1, GoTypes DEF Ats
<1> HIDE DEF c
<1>4. Honest(c) /\ ~Derives(c)
  BY <1>1, <1>2, <1>3 DEF Honest, Derives
<1>5. hash' \in Hashes /\ salts' \in 0 .. MaxHashes /\ PinAsChosen'
  <2>1. CASE SwapPin(ask[r].cred, ask[r].pin)
    <3>1. ask[r].cred \in Hashes /\ ask[r].pin \in Pins /\ ask[r].pin = ask[r].cred.pin
      BY <1>1, <1>2 DEF AskRecords, Honest
    <3>2. hash'.pin = chosen
      BY <2>1, <3>1, SwapTypes, SessionTypes
    <3> QED BY <1>1, <2>1, <3>1, <3>2, SwapTypes DEF PinAsChosen
  <2>2. CASE UNCHANGED <<hash, salts>>
    BY <1>1, <2>2, SessionTypes DEF PinAsChosen
  <2> QED BY <2>1, <2>2 DEF Rehash
<1>6. Go(r, "check") \/ End(r)
  BY DEF Rehash
<1>7. PICK a \in {NoAsk, c} : ask' = [ask EXCEPT ![r] = a]
  BY <1>3, <1>6 DEF End
<1> QED BY <1>1, <1>2, <1>3, <1>4, <1>5, <1>7, SessionTypes, PlainStepKeepsSessions

LEMMA PinSwapKeepsSessions ==
  ASSUME SessionInv, NEW r \in Requests, PinSwap(r)
  PROVE  SessionInv'
<1>1. /\ ask[r].op = "pin" /\ ask[r].at = "swap" /\ SwapPin(ask[r].cred, ask[r].pin)
      /\ chosen' = IF hash = ask[r].cred THEN ask[r].pin ELSE chosen
      /\ sess' = [sess EXCEPT ![ask[r].b] = ask[r].copy]
      /\ ask' = [ask EXCEPT ![r] = NoAsk] /\ UNCHANGED <<epoch, served, shows, pool>>
  BY DEF PinSwap, End
<1>2. ask[r] \in AskRecords /\ Honest(ask[r]) /\ ~Deriving(r)
  BY <1>1, AskTypes DEF Deriving
<1>3. /\ ask[r].cred \in Hashes /\ ask[r].pin \in Pins /\ ask[r].b \in Browsers
      /\ ask[r].copy \in Auth /\ ask[r].copy.seen = ask[r].copy.epoch
  BY <1>2 DEF AskRecords, Honest
<1>4. hash' \in Hashes /\ salts' \in 0 .. MaxHashes /\ PinAsChosen' /\ chosen' \in Pins
  BY <1>1, <1>3, SwapTypes, SessionTypes DEF PinAsChosen
<1> QED BY <1>1, <1>2, <1>3, <1>4, SessionTypes, PlainStepKeepsSessions

LEMMA EndsKeepSessions ==
  ASSUME SessionInv, NEW r \in Requests,
         \/ CheckEpoch(r) \/ CreateAdminSession(r) \/ ElevateCheck(r) \/ PromoteAdminSession(r)
         \/ WorkDone(r)
  PROVE  SessionInv'
<1>1. ask[r].op # "none" /\ (ask[r].op = "work" \/ ask[r].at \in {"check", "save"})
  BY DEF CheckEpoch, CreateAdminSession, ElevateCheck, PromoteAdminSession, WorkDone
<1>2. ask[r] \in AskRecords /\ ask[r] # NoAsk /\ Honest(ask[r])
  BY <1>1, AskTypes
<1>3. /\ ask[r].b \in Browsers /\ ask[r].copy \in Auth /\ ask[r].copy.seen = ask[r].copy.epoch
      /\ ask[r].epoch \in Nat /\ ask[r].seen \in Nat
  BY <1>2 DEF AskRecords, Honest
<1>4. ~Deriving(r)
  BY <1>1, <1>2 DEF Deriving, Honest
<1>5. CASE (CheckEpoch(r) \/ ElevateCheck(r)) /\ End(r)
  <2>1. UNCHANGED <<sess, epoch, hash, salts, served, shows, chosen, pool>>
    BY <1>5 DEF CheckEpoch, ElevateCheck
  <2> QED BY <1>1, <1>4, <1>5, <2>1, EndKeepsSessions
<1>6. CASE (CheckEpoch(r) \/ ElevateCheck(r)) /\ Go(r, "save") /\ (CheckEpoch(r) => epoch = ask[r].epoch)
  <2>1. UNCHANGED <<sess, epoch, hash, salts, served, shows, chosen, pool>>
    BY <1>6 DEF CheckEpoch, ElevateCheck
  <2> DEFINE c == [ask[r] EXCEPT !.at = "save"]
  <2>2. /\ c \in AskRecords /\ c # NoAsk /\ c.at = "save" /\ c.op = ask[r].op /\ c.copy = ask[r].copy
        /\ c.epoch = ask[r].epoch /\ c.seen = ask[r].seen
    BY <1>1, GoTypes DEF Ats
  <2> HIDE DEF c
  <2>3. ask[r].op = "login" => Honest(c)
    <3> SUFFICES ASSUME ask[r].op = "login" PROVE Honest(c)
      OBVIOUS
    <3>1. epoch = ask[r].epoch /\ ask[r].at = "check"
      BY <1>6 DEF CheckEpoch, ElevateCheck
    <3>2. ask[r].seen = ask[r].epoch
      BY <1>2, <1>3, <3>1, SessionTypes DEF Honest
    <3> QED BY <1>2, <2>2, <3>2 DEF Honest
  <2> QED BY <1>1, <1>4, <1>6, <2>1, <2>3, GoKeepsSessions DEF Ats, c
<1>7. CASE CreateAdminSession(r)
  <2> DEFINE z == [level |-> "admin", epoch |-> ask[r].epoch, seen |-> ask[r].seen]
  <2>1. /\ ask[r].op = "login" /\ ask[r].at = "save" /\ sess' = [sess EXCEPT ![ask[r].b] = z]
        /\ shows' = [shows EXCEPT ![ask[r].b] = "admin"] /\ End(r)
        /\ UNCHANGED <<epoch, hash, salts, served, chosen, pool>>
    BY <1>7 DEF CreateAdminSession
  <2>2. z \in Auth /\ z.seen = z.epoch
    BY <1>2, <1>3, <2>1 DEF Auth, Honest
  <2> HIDE DEF z
  <2> QED BY <1>1, <1>3, <1>4, <2>1, <2>2, EndKeepsSessions
<1>8. CASE PromoteAdminSession(r)
  <2> DEFINE z == [ask[r].copy EXCEPT !.level = "super"]
  <2>1. /\ sess' = [sess EXCEPT ![ask[r].b] = z] /\ shows' = [shows EXCEPT ![ask[r].b] = "admin"]
        /\ End(r) /\ UNCHANGED <<epoch, hash, salts, served, chosen, pool>>
    BY <1>8 DEF PromoteAdminSession
  <2>2. z \in Auth /\ z.seen = z.epoch
    BY <1>3 DEF Auth
  <2> HIDE DEF z
  <2> QED BY <1>1, <1>3, <1>4, <2>1, <2>2, EndKeepsSessions
<1>9. CASE WorkDone(r)
  <2>1. /\ sess' = [sess EXCEPT ![ask[r].b] = ask[r].copy] /\ End(r)
        /\ UNCHANGED <<epoch, hash, salts, served, shows, chosen, pool>>
    BY <1>9 DEF WorkDone
  <2> QED BY <1>1, <1>3, <1>4, <2>1, EndKeepsSessions
<1> QED BY <1>5, <1>6, <1>7, <1>8, <1>9 DEF CheckEpoch, ElevateCheck

-----------------------------------------------------------------------------
(* The steps of pages and of the middleware, and all steps together.        *)

LEMMA PageStepKeepsSessions ==
  ASSUME SessionInv, UNCHANGED <<epoch, hash, salts, ask, served, chosen, pool>>,
         shows' = shows \/ \E b \in Browsers, v \in {"guest", "admin"} : shows' = [shows EXCEPT ![b] = v],
         sess' = sess \/ \E b \in Browsers : Destroyed(b)
  PROVE  SessionInv'
<1>1. sess' \in [Browsers -> Auth] /\ \A b \in Browsers : sess'[b].seen = sess'[b].epoch
  BY SessionTypes DEF Destroyed
<1>2. shows' \in [Browsers -> {"guest", "admin"}]
  BY SessionTypes
<1>3. Derivers' = Derivers
  BY DEF Derivers, Deriving, Idle
<1> QED
  BY <1>1, <1>2, <1>3 DEF SessionInv, SessionTyped, SessionsHonest, Honest, PinAsChosen

LEMMA SessionNextKeepsSessions ==
  ASSUME SessionInv, SessionNext
  PROVE  SessionInv'
<1>1. ASSUME NEW b \in Browsers, ArriveOutdated(b) PROVE SessionInv'
  BY <1>1, PageStepKeepsSessions DEF ArriveOutdated
<1>2. ASSUME NEW b \in Browsers, NEW op, ArriveRefused(b, op) PROVE SessionInv'
  <2>1. shows' = [shows EXCEPT ![b] = IF sess[b].level = "none" THEN "guest" ELSE @]
    BY <1>2 DEF ArriveRefused
  <2>2. shows' = shows \/ shows' = [shows EXCEPT ![b] = "guest"]
    BY <2>1, SessionTypes
  <2> QED BY <1>2, <2>2, PageStepKeepsSessions DEF ArriveRefused
<1>3. ASSUME NEW b \in Browsers, NEW r \in Requests, NEW p \in Pins,
             Arrive(r, b, "login", p) \/ Arrive(r, b, "pin", p)
      PROVE  SessionInv'
  BY <1>3, ArriveKeepsSessions
<1>4. ASSUME NEW b \in Browsers, NEW r \in Requests, NEW op \in {"elevate", "work"}, Arrive(r, b, op, hash.pin)
      PROVE  SessionInv'
  BY <1>4, ArriveKeepsSessions, SessionTypes DEF Hashes
<1>5. CASE Arrivals
  BY <1>1, <1>2, <1>3, <1>4, <1>5 DEF Arrivals
<1>6. CASE Handlers
  BY <1>6, ReadKeepsSessions, VerifiedKeepsSessions, HashedKeepsSessions, TimeoutKeepsSessions,
     RehashKeepsSessions, PinSwapKeepsSessions, EndsKeepSessions DEF Handlers
<1>7. CASE Pages
  <2>1. PICK b \in Browsers : Heartbeat(b) \/ Logout(b) \/ Reload(b) \/ SessionExpires(b)
    BY <1>7 DEF Pages
  <2>2. CASE Heartbeat(b)
    BY <2>2, PageStepKeepsSessions DEF Heartbeat
  <2>3. CASE Logout(b)
    BY <2>3, PageStepKeepsSessions DEF Logout
  <2>4. CASE Reload(b)
    BY <2>4, PageStepKeepsSessions DEF Reload
  <2>5. CASE SessionExpires(b)
    BY <2>5, PageStepKeepsSessions DEF SessionExpires
  <2> QED BY <2>1, <2>2, <2>3, <2>4, <2>5
<1> QED BY <1>5, <1>6, <1>7 DEF SessionNext

-----------------------------------------------------------------------------
(* Restores and the sessions.                                               *)

\* Steps that neither sessions nor requests notice.
LEMMA SessionsUntouched ==
  ASSUME SessionInv, UNCHANGED sessionVars
  PROVE  SessionInv'
<1>1. Derivers' = Derivers
  BY DEF Derivers, Deriving, Idle, sessionVars
<1> QED BY <1>1 DEF sessionVars, SessionInv, SessionTyped, SessionsHonest, Honest, PinAsChosen

\* The steps of a restore before and after its transaction.
LEMMA RestoreStepsKeepSessions ==
  ASSUME SessionInv, NEW r \in Requests,
         Safeguard(r) \/ LoadBackup(r) \/ RestoreAborts(r) \/ RestoreAnswer(r)
  PROVE  SessionInv'
<1>1. ask[r].op = "restore" /\ UNCHANGED <<epoch, hash, salts, served, shows, chosen, pool>>
  BY DEF Safeguard, LoadBackup, RestoreAborts, RestoreAnswer
<1>2. ask[r] \in AskRecords /\ Honest(ask[r]) /\ ask[r].op # "none" /\ ask[r].b \in Browsers
  BY <1>1, AskTypes DEF AskRecords
<1>3. ~Deriving(r)
  BY <1>1, <1>2 DEF Deriving, Honest
<1>4. sess' = sess \/ \E b \in Browsers, z \in Auth : z.seen = z.epoch /\ sess' = [sess EXCEPT ![b] = z]
  BY <1>2, SessionTypes DEF Safeguard, LoadBackup, RestoreAborts, RestoreAnswer, Destroyed
<1>5. \/ End(r)
      \/ ask' = ask /\ sess' = sess
      \/ (Go(r, "load") \/ Go(r, "replace")) /\ sess' = sess
  BY DEF Safeguard, LoadBackup, RestoreAborts, RestoreAnswer, Drop
<1>6. CASE End(r)
  BY <1>1, <1>2, <1>3, <1>4, <1>6, EndKeepsSessions
<1>7. CASE ask' = ask /\ sess' = sess
  BY <1>1, <1>7, SessionsUntouched DEF sessionVars
<1>8. CASE Go(r, "load") /\ sess' = sess
  BY <1>1, <1>2, <1>3, <1>8, GoKeepsSessions DEF Ats
<1>9. CASE Go(r, "replace") /\ sess' = sess
  BY <1>1, <1>2, <1>3, <1>9, GoKeepsSessions DEF Ats
<1> QED BY <1>5, <1>6, <1>7, <1>8, <1>9

\* The transaction ends every session and brings a PIN back.
LEMMA CommitKeepsSessions ==
  ASSUME SessionInv, NEW r \in Requests, RestoreCommit(r), job[r] \in Jobs
  PROVE  SessionInv'
<1> DEFINE a == [ask[r] EXCEPT !.at = "answer"]
<1>1. /\ ask[r].op = "restore" /\ ask[r].at = "replace" /\ ask[r].op # "none"
      /\ hash' = job[r].token.payload.hash /\ chosen' = hash'.pin
      /\ sess' = [b \in Browsers |-> NoAuth] /\ epoch' = epoch + 1 /\ Go(r, "answer")
      /\ UNCHANGED <<salts, served, shows, pool>>
  BY DEF RestoreCommit
<1>2. /\ a \in AskRecords /\ a # NoAsk /\ a.at = "answer" /\ a.op = "restore"
      /\ a.copy = ask[r].copy /\ a.epoch = ask[r].epoch /\ ask' = [ask EXCEPT ![r] = a]
  BY <1>1, GoTypes DEF Ats
<1> HIDE DEF a
<1>3. hash' \in Hashes /\ chosen' \in Pins
  BY <1>1 DEF Jobs, Tokens, Payload, Hashes
<1>4. /\ ask' \in [Requests -> {NoAsk} \cup AskRecords]
      /\ \A q \in Requests : ask'[q] = IF q = r THEN a ELSE ask[q]
  BY <1>2 DEF SessionInv, SessionTyped
<1>5. SessionTyped'
  BY <1>1, <1>3, <1>4, SessionTypes DEF SessionTyped
<1>6. SessionsHonest'
  <2>1. \A b \in Browsers : sess'[b].seen = sess'[b].epoch
    BY <1>1 DEF NoAuth
  <2>2. ASSUME NEW q \in Requests, ask'[q] # NoAsk PROVE Honest(ask[q])' /\ q <= served'
    <3>1. epoch' = epoch + 1 /\ epoch \in Nat /\ served' = served
      BY <1>1, SessionTypes
    <3>2. CASE q = r
      <4>1. ask'[q] = a /\ Honest(ask[r]) /\ r <= served /\ ask[r] \in AskRecords
        BY <1>1, <1>4, <3>2, AskTypes
      <4>2. ask[r].epoch \in Nat
        BY <4>1 DEF AskRecords
      <4> QED BY <1>2, <3>1, <3>2, <4>1, <4>2 DEF Honest
    <3>3. CASE q # r
      <4>1. ask'[q] = ask[q] /\ ask[q] \in AskRecords /\ Honest(ask[q]) /\ q <= served
        BY <1>4, <2>2, <3>3 DEF SessionInv, SessionTyped, SessionsHonest
      <4>2. ask[q].epoch \in Nat /\ ask[q].seen \in Nat
        BY <4>1 DEF AskRecords
      <4> QED BY <3>1, <4>1, <4>2 DEF Honest
    <3> QED BY <3>2, <3>3
  <2> QED BY <2>1, <2>2 DEF SessionsHonest
<1>7. Derivers' = Derivers
  <2>1. ~Deriving(r) /\ ~Deriving(r)'
    <3>1. ask'[r] = a
      BY <1>4
    <3> QED BY <1>1, <1>2, <3>1 DEF Deriving
  <2>2. \A q \in Requests : q # r => (Deriving(q)' <=> Deriving(q))
    BY <1>4 DEF Deriving, Idle
  <2> QED BY <2>1, <2>2 DEF Derivers
<1> QED BY <1>1, <1>5, <1>6, <1>7 DEF SessionInv, PinAsChosen

\* A restart empties the pool and forgets the requests.
LEMMA EmptyPoolOK ==
  ASSUME NEW n \in QueueLimits
  PROVE  PoolOK(EmptyPool(n), {})
<1>1. n \in Nat /\ Workers \in Nat
  BY SessionAssumption
<1>2. EmptyPool(n) \in Pools
  BY <1>1, EmptySeq DEF EmptyPool, Pools
<1>3. Waiting(<<>>) = {} /\ Len(<<>>) = 0
  BY EmptySeq DEF Waiting
<1>4. Cardinality({} \ {}) = 0
  BY FS_EmptySet
<1> QED BY <1>1, <1>2, <1>3, <1>4 DEF EmptyPool, PoolOK

LEMMA RestartKeepsSessions ==
  ASSUME SessionInv, Restart
  PROVE  SessionInv'
<1>1. /\ ask' = [r \in Requests |-> NoAsk] /\ pool' = EmptyPool(pool.limit)
      /\ UNCHANGED <<sess, epoch, hash, salts, served, shows, chosen>>
  BY DEF Restart
<1>2. Derivers' = {}
  BY <1>1 DEF Derivers, Deriving, Idle, NoAsk
<1>3. PoolOK(EmptyPool(pool.limit), {})
  BY EmptyPoolOK DEF SessionInv, PoolOK, Pools
<1>4. SessionTyped' /\ SessionsHonest' /\ PinAsChosen'
  BY <1>1, SessionTypes DEF SessionTyped, SessionsHonest, PinAsChosen
<1> QED BY <1>1, <1>2, <1>3, <1>4 DEF SessionInv

-----------------------------------------------------------------------------
(* The sequence of record ids.                                              *)

\* A set of naturals up to n that is not empty has a greatest element.
LEMMA GreatestExists ==
  ASSUME NEW n \in Nat, NEW S, S \subseteq 0 .. n, S # {}
  PROVE  MaxOf(S) \in S /\ \A m \in S : m <= MaxOf(S)
<1> DEFINE Less == OpToRel(<, Nat)
           T == {n - m : m \in S}
<1>1. IsWellFoundedOn(Less, Nat)
  BY NatLessThanWellFounded
<1>2. \A x, y \in Nat : <<y, x>> \in Less <=> y < x
  BY DEF OpToRel
<1>3. T \subseteq Nat /\ T # {}
  <2>1. \A m \in S : n - m \in Nat
    OBVIOUS
  <2>2. T # {}
    OBVIOUS
  <2> QED BY <2>1, <2>2
<1> HIDE DEF Less
<1>4. PICK x \in T : \A y \in T : ~ (<<y, x>> \in Less)
  BY <1>1, <1>3, WFMin
<1>5. PICK g \in S : x = n - g
  BY <1>4
<1>6. ASSUME NEW m \in S PROVE m <= g
  <2>1. n - m \in T /\ n - m \in Nat /\ x \in Nat
    BY <1>3, <1>4
  <2>2. ~(n - m < x)
    BY <1>2, <1>4, <2>1
  <2>3. m \in Int /\ g \in Int
    BY <1>5, <1>6
  <2> HIDE DEF T
  <2> QED BY <1>5, <2>2, <2>3
<1>7. \E q \in S : \A m \in S : m <= q
  BY <1>6
<1> QED BY <1>7 DEF MaxOf

\* After a restore the sequence is past every id it ever gave out, and past every id
\* of the rows that came back.
LEMMA SequenceReset ==
  ASSUME seq \in Nat, NEW t \in Tables
  PROVE  /\ ResetSequence(t) \in Nat /\ seq <= ResetSequence(t)
         /\ \A p \in t.recs \cup t.journal : p[1] <= ResetSequence(t)
<1> DEFINE S == {seq} \cup {p[1] : p \in t.recs} \cup {c[1] : c \in t.journal}
<1>1. t.recs \subseteq Ids \X Revisions /\ t.journal \subseteq Ids \X Revisions
  BY DEF Tables
<1>2. S \subseteq 0 .. seq + MaxId /\ seq + MaxId \in Nat
  <2>1. MaxId \in Nat
    BY BackupAssumption
  <2> QED BY <1>1, <2>1 DEF Ids
<1>3. S # {}
  OBVIOUS
<1> HIDE DEF S
<1>4. MaxOf(S) \in S /\ \A m \in S : m <= MaxOf(S)
  BY <1>2, <1>3, GreatestExists
<1>5. MaxOf(S) \in Nat
  <2>1. MaxOf(S) \in 0 .. seq + MaxId
    BY <1>2, <1>4
  <2> QED BY <1>2, <2>1
<1>6. seq \in S /\ \A p \in t.recs \cup t.journal : p[1] \in S
  BY DEF S
<1>7. ResetSequence(t) = MaxOf(S)
  BY DEF ResetSequence, S
<1> QED BY <1>4, <1>5, <1>6, <1>7

-----------------------------------------------------------------------------
(* Files.                                                                   *)

\* What a backup leaves on file: the payloads there were, and the rows there are.
LEMMA BackupWritten ==
  ASSUME BackupTyped, SessionInv, TablesInv, NEW k \in {"manual", "daily"}, CreateDatabaseBackup(k)
  PROVE  /\ files' \in [FileIds -> {NoFile} \cup [kind : {"manual", "daily"}, payload : Payload]]
         /\ written' \in 0 .. MaxFiles
         /\ \A f \in FileIds : files'[f] # NoFile => Counted(files'[f].payload.tables)
<1> DEFINE new == [kind |-> k, payload |-> Live]
           added == [files EXCEPT ![written + 1] = new]
           Files == {NoFile} \cup [kind : {"manual", "daily"}, payload : Payload]
<1>1. Live \in Payload /\ Live.tables = data
  BY SessionTypes DEF Live, Payload, BackupTyped
<1>2. written + 1 \in FileIds /\ written' = written + 1 /\ written' \in 0 .. MaxFiles
  BY BackupAssumption DEF CreateDatabaseBackup, BackupTyped, FileIds
<1>3. new \in Files /\ new.payload = Live
  BY <1>1
<1> HIDE DEF new
<1>4. added \in [FileIds -> Files] /\ \A f \in FileIds : added[f] = IF f = written + 1 THEN new ELSE files[f]
  BY <1>2, <1>3 DEF BackupTyped
<1>5. \A f \in FileIds : added[f] # NoFile => Counted(added[f].payload.tables)
  <2>1. Counted(new.payload.tables)
    BY <1>1, <1>3 DEF TablesInv
  <2> QED BY <1>4, <2>1 DEF TablesInv
<1> HIDE DEF added, Files
<1>6. /\ Cleaned(added, k) \in [FileIds -> Files]
      /\ \A f \in FileIds : Cleaned(added, k)[f] = NoFile \/ Cleaned(added, k)[f] = added[f]
  <2>1. NoFile \in Files
    BY DEF Files
  <2> QED BY <1>4, <2>1 DEF Cleaned
<1>7. files' = added \/ files' = Cleaned(added, k)
  BY DEF CreateDatabaseBackup, added, new
<1> QED BY <1>2, <1>4, <1>5, <1>6, <1>7 DEF Files

-----------------------------------------------------------------------------
(* The writes of the rest of the program.                                   *)

LEMMA BackupTypes ==
  ASSUME BackupTyped
  PROVE  /\ data \in Tables /\ seq \in Nat /\ writes \in Nat /\ writes <= MaxWrites /\ MaxWrites \in Nat
         /\ data.recs \subseteq Ids \X Revisions /\ data.journal \subseteq Ids \X Revisions
         /\ torn \in BOOLEAN /\ making \in BOOLEAN /\ used \subseteq Ids
BY BackupAssumption DEF BackupTyped, Tables

\* Payloads keep counting writes while writes are counted.
LEMMA CountedStays ==
  ASSUME BackupTyped, writes' \in Nat, writes <= writes', NEW t \in Tables, Counted(t)
  PROVE  \A p \in t.recs : p[2] <= writes'
<1>1. \A p \in t.recs : p \in Ids \X Revisions
  BY DEF Tables
<1>2. \A p \in t.recs : p[2] \in Nat
  BY <1>1 DEF Revisions
<1> QED BY <1>2, BackupTypes DEF Counted

LEMMA WriteKeepsInv ==
  ASSUME Inv, UNCHANGED <<sessionVars, files, written, due, job, paused>>,
         writes' \in 0 .. MaxWrites, writes <= writes',
         data' \in Tables, seq' \in Nat, making' \in BOOLEAN, torn' \in BOOLEAN,
         used' \subseteq Ids, IdsRetired', Inspectable', \A p \in data'.recs : p[2] <= writes',
         \A p \in data'.recs \cup data'.journal : p[1] <= seq'
  PROVE  Inv'
<1>1. SessionInv'
  BY SessionsUntouched DEF Inv
<1>2. BackupTyped'
  BY DEF Inv, BackupTyped
<1>3. writes' \in Nat
  OBVIOUS
<1>4. JobsSound'
  <2> SUFFICES ASSUME NEW r \in Requests, ask[r].op = "restore"
               PROVE  /\ job[r] \in Jobs /\ Inspect(job[r].token.payload.tables)
                      /\ \A p \in job[r].token.payload.tables.recs : p[2] <= writes'
    BY DEF JobsSound, sessionVars, Counted
  <2>1. /\ job[r] \in Jobs /\ Inspect(job[r].token.payload.tables)
        /\ Counted(job[r].token.payload.tables)
    BY DEF Inv, JobsSound
  <2>2. job[r].token.payload.tables \in Tables
    BY <2>1 DEF Jobs, Tokens, Payload
  <2> QED BY <1>3, <2>1, <2>2, CountedStays DEF Inv
<1>5. \A f \in FileIds : files[f] # NoFile => \A p \in files[f].payload.tables.recs : p[2] <= writes'
  <2> SUFFICES ASSUME NEW f \in FileIds, files[f] # NoFile
               PROVE  \A p \in files[f].payload.tables.recs : p[2] <= writes'
    OBVIOUS
  <2>1. files[f].payload.tables \in Tables /\ Counted(files[f].payload.tables)
    BY DEF Inv, BackupTyped, TablesInv, Payload
  <2> QED BY <1>3, <2>1, CountedStays DEF Inv
<1>6. TablesInv'
  BY <1>5 DEF TablesInv, Counted
<1> QED BY <1>1, <1>2, <1>4, <1>6 DEF Inv

\* A write that leaves salary records and corrections alone.
LEMMA OtherWriteKeepsInv ==
  ASSUME Inv, UNCHANGED <<sessionVars, files, written, due, job, paused, seq, used>>,
         writes' = writes \/ (writes < MaxWrites /\ writes' = writes + 1),
         data' \in Tables, data'.recs = data.recs, data'.journal = data.journal,
         making' \in BOOLEAN, torn' \in BOOLEAN,
         ~torn' => ~torn /\ LifecycleOK(data') /\ ReferencesOK(data')
  PROVE  Inv'
<1>1. writes' \in 0 .. MaxWrites /\ writes <= writes'
  BY BackupTypes DEF Inv
<1>2. Inspectable'
  BY DEF Inv, TablesInv, Inspectable, Inspect, JournalOK, LifecycleOK, ReferencesOK
<1>3. \A p \in data'.recs : p[2] <= writes'
  BY <1>1, CountedStays, BackupTypes DEF Inv, TablesInv
<1>4. IdsRetired' /\ \A p \in data'.recs \cup data'.journal : p[1] <= seq'
  BY DEF Inv, TablesInv, IdsRetired
<1> QED BY <1>1, <1>2, <1>3, <1>4, WriteKeepsInv, BackupTypes DEF Inv

LEMMA RecordWritesKeepInv ==
  ASSUME Inv, CreateRecord \/ \E p \in data.recs : CorrectRecord(p) \/ DeleteRecord(p)
  PROVE  Inv'
<1>1. /\ data \in Tables /\ seq \in Nat /\ writes \in Nat /\ writes <= MaxWrites /\ MaxWrites \in Nat
      /\ data.recs \subseteq Ids \X Revisions /\ data.journal \subseteq Ids \X Revisions
      /\ \A p \in data.recs : p[2] <= writes
      /\ \A p \in data.recs \cup data.journal : p[1] <= seq
      /\ torn \in BOOLEAN /\ making \in BOOLEAN /\ used \subseteq Ids
      /\ IdsRetired
  BY BackupTypes DEF Inv, TablesInv, Counted
<1>2. \A p \in Ids \X Revisions : p = <<p[1], p[2]>> /\ p[1] \in Ids /\ p[1] \in Nat /\ p[2] \in Nat
  BY DEF Ids, Revisions
<1>3. ~torn => LifecycleOK(data) /\ ReferencesOK(data) /\ JournalOK(data)
  BY DEF Inv, TablesInv, Inspectable, Inspect
<1>4. ASSUME CreateRecord PROVE Inv'
  <2> DEFINE new == <<seq + 1, 0>>
             t == [data EXCEPT !.recs = @ \cup {new}]
  <2>1. /\ seq + 1 \in Ids /\ writes < MaxWrites /\ writes' = writes + 1
        /\ UNCHANGED <<sessionVars, files, written, due, job, paused, making, torn>>
        /\ data' = t /\ seq' = seq + 1 /\ used' = used \cup {seq + 1}
    BY <1>4 DEF CreateRecord, Write
  <2>2. new \in Ids \X Revisions /\ new[1] = seq + 1 /\ new[2] = 0
    BY <1>1, <2>1 DEF Revisions
  <2> HIDE DEF new
  <2>3. /\ t \in Tables /\ t.recs = data.recs \cup {new} /\ t.journal = data.journal
        /\ t.emp = data.emp /\ t.line = data.line /\ t.pending = data.pending
        /\ t.holiday = data.holiday /\ t.leave = data.leave /\ t.receipts = data.receipts
    BY <1>1, <2>2 DEF Tables
  <2> HIDE DEF t
  <2>4. JournalOK(data) => JournalOK(t)
    <3>1. \A p \in data.recs \cup data.journal : p[1] # new[1]
      BY <1>1, <1>2, <2>2
    <3> QED BY <2>3, <3>1 DEF JournalOK
  <2>5. Inspectable'
    BY <1>3, <2>1, <2>3, <2>4 DEF Inspectable, Inspect, LifecycleOK, ReferencesOK
  <2>6. \A p \in data'.recs : p[2] <= writes'
    BY <1>1, <1>2, <2>1, <2>2, <2>3
  <2>7. \A p \in data'.recs \cup data'.journal : p[1] <= seq'
    BY <1>1, <1>2, <2>1, <2>2, <2>3
  <2>8. IdsRetired' /\ used' \subseteq Ids /\ seq' \in Nat
    BY <1>1, <2>1 DEF IdsRetired, Ids
  <2>9. writes' \in 0 .. MaxWrites /\ writes <= writes'
    BY <1>1, <2>1
  <2> QED BY <1>1, <2>1, <2>3, <2>5, <2>6, <2>7, <2>8, <2>9, WriteKeepsInv
<1>5. ASSUME NEW p \in data.recs, CorrectRecord(p) PROVE Inv'
  <2> DEFINE q == <<p[1], p[2] + 1>>
             t == [data EXCEPT !.recs = (@ \ {p}) \cup {q}, !.journal = @ \cup {q}]
  <2>1. /\ writes < MaxWrites /\ writes' = writes + 1 /\ data' = t
        /\ UNCHANGED <<sessionVars, files, written, due, job, paused, seq, making, used, torn>>
    BY <1>5 DEF CorrectRecord, Write, Store
  <2>2. p[1] \in Ids /\ p[1] \in Nat /\ p[2] \in Nat /\ p[2] <= writes /\ p[1] <= seq
    BY <1>1, <1>2
  <2>3. q \in Ids \X Revisions /\ q[1] = p[1] /\ q[2] = p[2] + 1
    BY <1>1, <2>1, <2>2 DEF Revisions
  <2> HIDE DEF q
  <2>4. /\ t \in Tables /\ t.recs = (data.recs \ {p}) \cup {q} /\ t.journal = data.journal \cup {q}
        /\ t.emp = data.emp /\ t.line = data.line /\ t.pending = data.pending
        /\ t.holiday = data.holiday /\ t.leave = data.leave /\ t.receipts = data.receipts
    BY <1>1, <2>3 DEF Tables
  <2> HIDE DEF t
  <2>5. JournalOK(data) => JournalOK(t)
    <3> SUFFICES ASSUME JournalOK(data) PROVE JournalOK(t)
      OBVIOUS
    <3>1. \A u \in data.recs : u[1] = q[1] => u = p
      BY <2>3 DEF JournalOK
    <3>2. \A c \in data.journal : c[1] = q[1] => c[2] <= p[2]
      BY <2>3 DEF JournalOK
    <3>3. \A c \in data.journal : c[2] \in Nat
      BY <1>1, <1>2
    <3>4. \A u, v \in t.recs : u[1] = v[1] => u = v
      BY <2>4, <3>1 DEF JournalOK
    <3>5. ASSUME NEW c \in t.journal, NEW u \in t.recs, c[1] = u[1] PROVE c[2] <= u[2]
      <4>1. CASE c \in data.journal /\ u \in data.recs
        BY <3>5, <4>1 DEF JournalOK
      <4>2. CASE c \in data.journal /\ u = q
        BY <2>2, <2>3, <3>2, <3>3, <3>5, <4>2
      <4>3. CASE c = q
        <5>1. u = q
          BY <2>4, <3>1, <3>5, <4>3
        <5> QED BY <2>2, <2>3, <4>3, <5>1
      <4> QED BY <2>4, <4>1, <4>2, <4>3
    <3> QED BY <3>4, <3>5 DEF JournalOK
  <2>6. Inspectable'
    BY <1>3, <2>1, <2>4, <2>5 DEF Inspectable, Inspect, LifecycleOK, ReferencesOK
  <2>7. \A u \in data'.recs : u[2] <= writes'
    BY <1>1, <1>2, <2>1, <2>2, <2>3, <2>4
  <2>8. \A u \in data'.recs \cup data'.journal : u[1] <= seq'
    BY <1>1, <2>1, <2>2, <2>3, <2>4
  <2>9. writes' \in 0 .. MaxWrites /\ writes <= writes' /\ IdsRetired'
    BY <1>1, <2>1 DEF IdsRetired
  <2> QED BY <1>1, <2>1, <2>4, <2>6, <2>7, <2>8, <2>9, WriteKeepsInv
<1>6. ASSUME NEW p \in data.recs, DeleteRecord(p) PROVE Inv'
  <2> DEFINE t == [data EXCEPT !.recs = @ \ {p}]
  <2>1. /\ writes < MaxWrites /\ writes' = writes + 1 /\ data' = t
        /\ UNCHANGED <<sessionVars, files, written, due, job, paused, seq, making, used, torn>>
    BY <1>6 DEF DeleteRecord, Write, Store
  <2>2. /\ t \in Tables /\ t.recs = data.recs \ {p} /\ t.journal = data.journal
        /\ t.emp = data.emp /\ t.line = data.line /\ t.pending = data.pending
        /\ t.holiday = data.holiday /\ t.leave = data.leave /\ t.receipts = data.receipts
    BY <1>1 DEF Tables
  <2> HIDE DEF t
  <2>3. Inspectable'
    BY <1>3, <2>1, <2>2 DEF Inspectable, Inspect, LifecycleOK, ReferencesOK, JournalOK
  <2>4. \A u \in data'.recs : u[2] <= writes'
    BY <1>1, <1>2, <2>1, <2>2
  <2>5. writes' \in 0 .. MaxWrites /\ writes <= writes' /\ IdsRetired'
    BY <1>1, <2>1 DEF IdsRetired
  <2> QED BY <1>1, <2>1, <2>2, <2>3, <2>4, <2>5, WriteKeepsInv
<1> QED BY <1>4, <1>5, <1>6

LEMMA OtherWritesKeepInv ==
  ASSUME Inv,
         \/ BindLine \/ TrashEmployee \/ RestoreEmployee \/ PurgeEmployee
         \/ HolidayStore \/ HolidayAttendance \/ HolidayDelete \/ DeleteAllHolidays
         \/ \E ev \in Events : Punch(ev)
  PROVE  Inv'
<1>1. data \in Tables /\ making \in BOOLEAN /\ torn \in BOOLEAN
  BY BackupTypes DEF Inv
<1>2. ~torn => LifecycleOK(data) /\ ReferencesOK(data)
  BY DEF Inv, TablesInv, Inspectable, Inspect
<1>3. CASE BindLine
  <2>1. data' = [data EXCEPT !.line = TRUE, !.pending = TRUE] /\ data.emp = "current"
    BY <1>3 DEF BindLine, Store
  <2>2. data' \in Tables /\ data'.recs = data.recs /\ data'.journal = data.journal
    BY <1>1, <2>1 DEF Tables
  <2>3. ~torn => LifecycleOK(data') /\ ReferencesOK(data')
    BY <1>1, <1>2, <2>1 DEF LifecycleOK, ReferencesOK, Tables
  <2> QED BY <1>1, <1>3, <2>2, <2>3, OtherWriteKeepsInv DEF BindLine, Store, Write
<1>4. CASE TrashEmployee
  <2>1. data' = [data EXCEPT !.emp = "binned", !.line = FALSE, !.pending = FALSE]
    BY <1>4 DEF TrashEmployee, Store
  <2>2. data' \in Tables /\ data'.recs = data.recs /\ data'.journal = data.journal
    BY <1>1, <2>1 DEF Tables
  <2>3. ~torn => LifecycleOK(data') /\ ReferencesOK(data')
    BY <1>1, <1>2, <2>1 DEF LifecycleOK, ReferencesOK, Tables
  <2> QED BY <1>1, <1>4, <2>2, <2>3, OtherWriteKeepsInv DEF TrashEmployee, Store, Write
<1>5. CASE RestoreEmployee
  <2>1. data' = [data EXCEPT !.emp = "current"]
    BY <1>5 DEF RestoreEmployee, Store
  <2>2. data' \in Tables /\ data'.recs = data.recs /\ data'.journal = data.journal
    BY <1>1, <2>1 DEF Tables
  <2>3. ~torn => LifecycleOK(data') /\ ReferencesOK(data')
    BY <1>1, <1>2, <2>1 DEF LifecycleOK, ReferencesOK, Tables
  <2> QED BY <1>1, <1>5, <2>2, <2>3, OtherWriteKeepsInv DEF RestoreEmployee, Store, Write
<1>6. CASE PurgeEmployee
  <2>1. /\ data.emp = "binned"
        /\ data' = [data EXCEPT !.emp = "purged", !.pending = FALSE, !.holiday = FALSE,
                                !.leave = FALSE, !.receipts = {}]
    BY <1>6 DEF PurgeEmployee, Store
  <2>2. data' \in Tables /\ data'.recs = data.recs /\ data'.journal = data.journal
    BY <1>1, <2>1 DEF Tables
  <2>3. ~torn => LifecycleOK(data') /\ ReferencesOK(data')
    BY <1>1, <1>2, <2>1 DEF LifecycleOK, ReferencesOK, Tables
  <2> QED BY <1>1, <1>6, <2>2, <2>3, OtherWriteKeepsInv DEF PurgeEmployee, Store, Write
<1>7. CASE HolidayStore
  <2>1. data' = [data EXCEPT !.holiday = TRUE] /\ data.emp = "current"
    BY <1>7 DEF HolidayStore
  <2>2. data' \in Tables /\ data'.recs = data.recs /\ data'.journal = data.journal
    BY <1>1, <2>1 DEF Tables
  <2>3. ~torn => LifecycleOK(data') /\ ReferencesOK(data')
    BY <1>1, <1>2, <2>1 DEF LifecycleOK, ReferencesOK, Tables
  <2> QED BY <1>1, <1>7, <2>2, <2>3, OtherWriteKeepsInv DEF HolidayStore, Write
<1>8. CASE HolidayAttendance
  <2>1. data' = [data EXCEPT !.leave = TRUE] /\ torn' = (torn \/ ~data.holiday \/ data.emp = "purged")
    BY <1>8 DEF HolidayAttendance
  <2>2. data' \in Tables /\ data'.recs = data.recs /\ data'.journal = data.journal
    BY <1>1, <2>1 DEF Tables
  <2>3. ~torn' => ~torn /\ LifecycleOK(data') /\ ReferencesOK(data')
    BY <1>1, <1>2, <2>1 DEF LifecycleOK, ReferencesOK, Tables
  <2>4. torn' \in BOOLEAN
    BY <2>1
  <2> QED BY <1>1, <1>8, <2>2, <2>3, <2>4, OtherWriteKeepsInv DEF HolidayAttendance
<1>9. CASE HolidayDelete
  <2>1. data' = [data EXCEPT !.holiday = FALSE, !.leave = FALSE]
    BY <1>9 DEF HolidayDelete, Store
  <2>2. data' \in Tables /\ data'.recs = data.recs /\ data'.journal = data.journal
    BY <1>1, <2>1 DEF Tables
  <2>3. ~torn => LifecycleOK(data') /\ ReferencesOK(data')
    BY <1>1, <1>2, <2>1 DEF LifecycleOK, ReferencesOK, Tables
  <2> QED BY <1>1, <1>9, <2>2, <2>3, OtherWriteKeepsInv DEF HolidayDelete, Store, Write
<1>10. CASE DeleteAllHolidays
  <2>1. data' = [data EXCEPT !.holiday = FALSE] /\ torn' = (torn \/ data.leave)
    BY <1>10 DEF DeleteAllHolidays
  <2>2. data' \in Tables /\ data'.recs = data.recs /\ data'.journal = data.journal
    BY <1>1, <2>1 DEF Tables
  <2>3. ~torn' => ~torn /\ LifecycleOK(data') /\ ReferencesOK(data')
    BY <1>1, <1>2, <2>1 DEF LifecycleOK, ReferencesOK, Tables
  <2>4. torn' \in BOOLEAN
    BY <2>1
  <2> QED BY <1>1, <1>10, <2>2, <2>3, <2>4, OtherWriteKeepsInv DEF DeleteAllHolidays, Write
<1>11. ASSUME NEW ev \in Events, Punch(ev) PROVE Inv'
  <2>1. data' = [data EXCEPT !.receipts = @ \cup {ev}] /\ data.emp = "current"
    BY <1>11 DEF Punch, Store
  <2>2. data' \in Tables /\ data'.recs = data.recs /\ data'.journal = data.journal
    BY <1>1, <2>1 DEF Tables
  <2>3. ~torn => LifecycleOK(data') /\ ReferencesOK(data')
    BY <1>1, <1>2, <2>1 DEF LifecycleOK, ReferencesOK, Tables
  <2> QED BY <1>1, <1>11, <2>2, <2>3, OtherWriteKeepsInv DEF Punch, Store, Write
<1> QED BY <1>3, <1>4, <1>5, <1>6, <1>7, <1>8, <1>9, <1>10, <1>11

-----------------------------------------------------------------------------
(* The steps of sessions and restores.                                      *)

\* No other request turns into a restore.
LEMMA SessionNextNoRestore ==
  ASSUME SessionInv, SessionNext
  PROVE  \A r \in Requests : ask'[r].op = "restore" => ask[r].op = "restore"
<1>1. ask' = ask \/ \E r \in Requests : \E a : /\ ask' = [ask EXCEPT ![r] = a]
                                               /\ a.op = "restore" => ask[r].op = "restore"
  <2>1. ASSUME NEW r \in Requests, End(r)
        PROVE  \E a : ask' = [ask EXCEPT ![r] = a] /\ (a.op = "restore" => ask[r].op = "restore")
    <3>1. ask' = [ask EXCEPT ![r] = NoAsk] /\ NoAsk.op = "none"
      BY <2>1 DEF End, NoAsk
    <3> WITNESS NoAsk
    <3> QED BY <3>1
  <2>2. ASSUME NEW r \in Requests, NEW at \in Ats, ask[r].op # "none", Go(r, at)
        PROVE  \E a : ask' = [ask EXCEPT ![r] = a] /\ (a.op = "restore" => ask[r].op = "restore")
    <3> DEFINE c == [ask[r] EXCEPT !.at = at]
    <3>1. ask' = [ask EXCEPT ![r] = c] /\ c.op = ask[r].op
      BY <2>2, GoTypes
    <3> HIDE DEF c
    <3> WITNESS c
    <3> QED BY <3>1
  <2>3. ASSUME NEW r \in Requests, NEW p, NEW a, ask[r].op # "none", Derive(p, r, a), a.op = ask[r].op
        PROVE  \E c : ask' = [ask EXCEPT ![r] = c] /\ (c.op = "restore" => ask[r].op = "restore")
    BY <2>1, <2>2, <2>3 DEF Derive, Busy, Ats
  <2>4. CASE Handlers
    <3>1. PICK r \in Requests :
            \/ ReadCredential(r) \/ Verified(r) \/ Hashed(r) \/ WaitTimesOut(r)
            \/ Rehash(r) \/ CheckEpoch(r) \/ CreateAdminSession(r)
            \/ ElevateCheck(r) \/ PromoteAdminSession(r) \/ PinSwap(r) \/ WorkDone(r)
      BY <2>4 DEF Handlers
    <3>2. CASE ReadCredential(r)
      <4>1. ask[r].op # "none" /\ ask[r] \in AskRecords
        BY <3>2, SessionTypes DEF ReadCredential
      <4>2. [ask[r] EXCEPT !.at = "verify", !.cred = hash, !.seen = epoch].op = ask[r].op
        BY <4>1 DEF AskRecords
      <4> QED BY <2>1, <2>3, <3>2, <4>1, <4>2 DEF ReadCredential
    <3>3. CASE Verified(r)
      <4>1. ask[r].op # "none" /\ ask[r] \in AskRecords
        BY <3>3, RunsReleases DEF Verified
      <4>2. [ask[r] EXCEPT !.at = "hash"].op = ask[r].op
        BY <4>1 DEF AskRecords
      <4> QED BY <2>1, <2>2, <2>3, <3>3, <4>1, <4>2 DEF Verified, Ats
    <3>4. CASE Hashed(r)
      <4>1. ask[r].op # "none"
        BY <3>4, RunsReleases DEF Hashed
      <4> QED BY <2>2, <3>4, <4>1 DEF Hashed, Ats
    <3>5. CASE WaitTimesOut(r)
      <4>1. r \in Derivers
        BY <3>5 DEF WaitTimesOut, SessionInv, PoolOK, Waiting
      <4>2. ask[r].op # "none"
        BY <4>1 DEF Derivers, Deriving, Idle
      <4> QED BY <2>1, <2>2, <3>5, <4>2 DEF WaitTimesOut, Busy, Ats
    <3>6. CASE Rehash(r) \/ CheckEpoch(r) \/ ElevateCheck(r)
      BY <2>1, <2>2, <3>6 DEF Rehash, CheckEpoch, ElevateCheck, Ats
    <3>7. CASE CreateAdminSession(r) \/ PromoteAdminSession(r) \/ PinSwap(r) \/ WorkDone(r)
      BY <2>1, <3>7 DEF CreateAdminSession, PromoteAdminSession, PinSwap, WorkDone
    <3> QED BY <3>1, <3>2, <3>3, <3>4, <3>5, <3>6, <3>7
  <2>5. CASE Arrivals
    <3>1. ASSUME NEW r \in Requests, NEW b \in Browsers, NEW op \in {"login", "elevate", "pin", "work"}, NEW pin,
                 Arrive(r, b, op, pin)
          PROVE  \E a : ask' = [ask EXCEPT ![r] = a] /\ (a.op = "restore" => ask[r].op = "restore")
      <4> DEFINE c == [op |-> op, at |-> "start", b |-> b, copy |-> sess[b],
                       epoch |-> epoch, seen |-> 0, cred |-> hash, pin |-> pin]
      <4>1. ask' = [ask EXCEPT ![r] = c] /\ c.op = op
        BY <3>1 DEF Arrive
      <4> HIDE DEF c
      <4> WITNESS c
      <4> QED BY <4>1
    <3> QED BY <2>5, <3>1 DEF Arrivals, ArriveOutdated, ArriveRefused
  <2>6. CASE Pages
    BY <2>6 DEF Pages, Heartbeat, Logout, Reload, SessionExpires
  <2> QED BY <2>4, <2>5, <2>6 DEF SessionNext
<1> QED BY <1>1 DEF SessionInv, SessionTyped

LEMMA SessionsKeepInv ==
  ASSUME Inv, SessionNext, UNCHANGED backupVars
  PROVE  Inv'
<1>1. SessionInv'
  BY SessionNextKeepsSessions DEF Inv
<1>2. JobsSound'
  BY SessionNextNoRestore DEF Inv, JobsSound, Counted, backupVars
<1> QED
  BY <1>1, <1>2 DEF Inv, BackupTyped, TablesInv, Inspectable, IdsRetired, Counted, backupVars

\* A job belongs to its request: other requests' jobs stay sound.
LEMMA JobStepKeepsInv ==
  ASSUME Inv, SessionInv', NEW r \in Requests, NEW j \in {NoJob} \cup Jobs,
         job' = job \/ job' = [job EXCEPT ![r] = j],
         \A q \in Requests : q # r /\ ask'[q].op = "restore" => ask[q].op = "restore",
         ask'[r].op = "restore" =>
            /\ job'[r] \in Jobs
            /\ Inspect(job'[r].token.payload.tables) /\ Counted(job'[r].token.payload.tables),
         UNCHANGED <<data, seq, due, making, paused, writes, used, torn>>,
         \/ UNCHANGED <<files, written>>
         \/ \E k \in {"manual", "daily"} : CreateDatabaseBackup(k)
  PROVE  Inv'
<1>1. /\ files' \in [FileIds -> {NoFile} \cup [kind : {"manual", "daily"}, payload : Payload]]
      /\ written' \in 0 .. MaxFiles
      /\ \A f \in FileIds : files'[f] # NoFile => Counted(files'[f].payload.tables)
  BY BackupWritten DEF Inv, BackupTyped, TablesInv
<1>2. BackupTyped'
  BY <1>1 DEF Inv, BackupTyped
<1>3. JobsSound'
  BY DEF Inv, JobsSound, Counted, BackupTyped
<1>4. TablesInv'
  BY <1>1 DEF Inv, TablesInv, Inspectable, IdsRetired, Counted
<1> QED BY <1>2, <1>3, <1>4 DEF Inv

LEMMA BeginKeepsInv ==
  ASSUME Inv, NEW r \in Requests, NEW b \in Browsers, NEW f \in FileIds, NEW c \in BOOLEAN,
         RestoreBegin(r, b, f, c)
  PROVE  Inv'
<1> DEFINE p == files[f].payload
           j == [tries |-> 0, token |-> Token(f, p, Live), confirmed |-> c]
           a == [op |-> "restore", at |-> "start", b |-> b, copy |-> sess[b],
                 epoch |-> epoch, seen |-> 0, cred |-> hash, pin |-> hash.pin]
<1>1. /\ files[f] # NoFile /\ Arrive(r, b, "restore", hash.pin) /\ Inspect(p.tables)
      /\ job' = [job EXCEPT ![r] = j]
      /\ UNCHANGED <<data, seq, files, written, due, making, paused, writes, used, torn>>
  BY DEF RestoreBegin
<1>2. hash.pin \in Pins
  BY SessionTypes DEF Inv, Hashes
<1>3. SessionInv'
  BY <1>1, <1>2, ArriveKeepsSessions DEF Inv
<1>4. p \in Payload /\ Counted(p.tables)
  BY <1>1 DEF Inv, BackupTyped, TablesInv
<1>5. j \in Jobs /\ j.token.payload = p
  <2>1. Live \in Payload
    BY SessionTypes DEF Inv, BackupTyped, Live, Payload
  <2>2. Token(f, p, Live) \in Tokens /\ Token(f, p, Live).payload = p
    BY <1>4, <2>1 DEF Token, Tokens
  <2>3. 0 \in 0 .. MaxAttempts
    BY BackupAssumption
  <2> QED BY <2>2, <2>3 DEF Jobs
<1>6. job'[r] = j
  BY <1>1 DEF Inv, BackupTyped
<1>7. ask' = [ask EXCEPT ![r] = a]
  BY <1>1 DEF Arrive
<1>8. \A q \in Requests : q # r /\ ask'[q].op = "restore" => ask[q].op = "restore"
  BY <1>7 DEF Inv, SessionInv, SessionTyped
<1> HIDE DEF j, p, a
<1>9. Inspect(p.tables)
  BY <1>1
<1> QED BY <1>1, <1>3, <1>4, <1>5, <1>6, <1>8, <1>9, JobStepKeepsInv

LEMMA RestoreStepsKeepInv ==
  ASSUME Inv, NEW r \in Requests,
         Safeguard(r) \/ LoadBackup(r) \/ RestoreAborts(r) \/ RestoreAnswer(r)
  PROVE  Inv'
<1>1. /\ ask[r].op = "restore" /\ UNCHANGED <<data, seq, due, making, paused, writes, used, torn>>
      /\ UNCHANGED <<files, written>> \/ \E k \in {"manual", "daily"} : CreateDatabaseBackup(k)
  BY DEF Safeguard, LoadBackup, RestoreAborts, RestoreAnswer
<1>2. SessionInv' /\ SessionInv /\ BackupTyped
  BY RestoreStepsKeepSessions DEF Inv
<1>3. /\ job[r] \in Jobs
      /\ Inspect(job[r].token.payload.tables) /\ Counted(job[r].token.payload.tables)
  BY <1>1 DEF Inv, JobsSound
<1> DEFINE again == [job[r] EXCEPT !.tries = @ + 1]
<1>4. \/ job' = [job EXCEPT ![r] = NoJob] /\ ask' = [ask EXCEPT ![r] = NoAsk]
      \/ job' = job /\ ask' = [ask EXCEPT ![r].at = "load"]
      \/ job' = job /\ ask' = [ask EXCEPT ![r].at = "replace"]
      \/ MayRetry(r) /\ job' = [job EXCEPT ![r] = again] /\ ask' = ask
  BY DEF Safeguard, LoadBackup, RestoreAborts, RestoreAnswer, Drop, End, Go
<1>5. \A q \in Requests : q # r /\ ask'[q].op = "restore" => ask[q].op = "restore"
  BY <1>2, <1>4 DEF SessionInv, SessionTyped
<1>6. CASE job' = [job EXCEPT ![r] = NoJob] /\ ask' = [ask EXCEPT ![r] = NoAsk]
  <2>1. ask'[r].op # "restore"
    BY <1>2, <1>6 DEF SessionInv, SessionTyped, NoAsk
  <2> QED BY <1>1, <1>2, <1>5, <1>6, <2>1, JobStepKeepsInv
<1>7. CASE job' = job
  BY <1>1, <1>2, <1>3, <1>5, <1>7, JobStepKeepsInv
<1>8. CASE MayRetry(r) /\ job' = [job EXCEPT ![r] = again]
  <2>1. job[r].tries + 1 \in 0 .. MaxAttempts
    BY <1>3, <1>8, BackupAssumption DEF MayRetry, Jobs
  <2>2. again \in Jobs /\ again.token = job[r].token
    BY <1>3, <2>1 DEF Jobs
  <2>3. job'[r] = again
    BY <1>2, <1>8 DEF BackupTyped
  <2> HIDE DEF again
  <2> QED BY <1>1, <1>2, <1>3, <1>5, <1>8, <2>2, <2>3, JobStepKeepsInv
<1> QED BY <1>4, <1>6, <1>7, <1>8

LEMMA CommitKeepsInv ==
  ASSUME Inv, NEW r \in Requests, RestoreCommit(r)
  PROVE  Inv'
<1> DEFINE p == job[r].token.payload
<1>1. ask[r].op = "restore" /\ data' = p.tables /\ seq' = ResetSequence(p.tables)
      /\ UNCHANGED <<files, written, due, job, making, paused, writes, used, torn>>
      /\ ask' = [ask EXCEPT ![r].at = "answer"]
  BY DEF RestoreCommit, Go
<1>2. job[r] \in Jobs /\ Inspect(p.tables) /\ Counted(p.tables)
  BY <1>1 DEF Inv, JobsSound
<1>3. p.tables \in Tables
  BY <1>2 DEF Jobs, Tokens, Payload
<1>4. SessionInv'
  BY <1>2, CommitKeepsSessions DEF Inv
<1> HIDE DEF p
<1>5. /\ seq' \in Nat /\ seq <= seq' /\ seq \in Nat
      /\ \A u \in data'.recs \cup data'.journal : u[1] <= seq'
  BY <1>1, <1>3, SequenceReset DEF Inv, BackupTyped
<1>6. BackupTyped'
  BY <1>1, <1>3, <1>5 DEF Inv, BackupTyped
<1>7. \A q \in Requests : ask'[q].op = "restore" => ask[q].op = "restore"
  BY <1>1 DEF Inv, SessionInv, SessionTyped
<1>8. JobsSound'
  BY <1>1, <1>7 DEF Inv, JobsSound, Counted
<1>9. IdsRetired'
  <2>1. \A i \in used : i \in Nat
    BY DEF Inv, BackupTyped, Ids
  <2> QED BY <1>1, <1>5, <2>1 DEF Inv, TablesInv, IdsRetired
<1>10. TablesInv'
  BY <1>1, <1>2, <1>5, <1>9 DEF Inv, TablesInv, Inspectable, Counted
<1> QED BY <1>4, <1>6, <1>8, <1>10 DEF Inv

LEMMA FilesKeepInv ==
  ASSUME Inv,
         \/ DailyBackup \/ DayPasses \/ Restart
         \/ \E b \in Browsers : ManualBackup(b)
         \/ \E b \in Browsers, f \in FileIds : DeleteBackup(b, f)
  PROVE  Inv'
<1>1. CASE DailyBackup \/ \E b \in Browsers : ManualBackup(b)
  <2>1. /\ UNCHANGED <<sessionVars, data, seq, job, making, paused, writes, used, torn>>
        /\ due' \in BOOLEAN /\ \E k \in {"manual", "daily"} : CreateDatabaseBackup(k)
    BY <1>1 DEF DailyBackup, ManualBackup, Inv, BackupTyped
  <2>2. SessionInv'
    BY <2>1, SessionsUntouched DEF Inv
  <2>3. /\ files' \in [FileIds -> {NoFile} \cup [kind : {"manual", "daily"}, payload : Payload]]
        /\ written' \in 0 .. MaxFiles
        /\ \A f \in FileIds : files'[f] # NoFile => Counted(files'[f].payload.tables)
    BY <2>1, BackupWritten DEF Inv
  <2> QED
    BY <2>1, <2>2, <2>3
       DEF Inv, BackupTyped, JobsSound, TablesInv, Inspectable, IdsRetired, Counted, sessionVars
<1>2. ASSUME NEW b \in Browsers, NEW f \in FileIds, DeleteBackup(b, f) PROVE Inv'
  <2>1. /\ UNCHANGED <<sessionVars, data, seq, written, due, job, making, paused, writes, used, torn>>
        /\ files' = [files EXCEPT ![f] = NoFile]
    BY <1>2 DEF DeleteBackup, Unlinked
  <2>2. SessionInv'
    BY <2>1, SessionsUntouched DEF Inv
  <2>3. BackupTyped' /\ \A g \in FileIds : files'[g] = NoFile \/ files'[g] = files[g]
    BY <2>1 DEF Inv, BackupTyped
  <2> QED
    BY <2>1, <2>2, <2>3 DEF Inv, JobsSound, TablesInv, Inspectable, IdsRetired, Counted, sessionVars
<1>3. CASE DayPasses
  <2>1. /\ UNCHANGED <<sessionVars, data, seq, files, written, job, making, paused, used, torn>>
        /\ writes < MaxWrites /\ writes' = writes + 1 /\ due' = TRUE
    BY <1>3 DEF DayPasses
  <2>2. SessionInv'
    BY <2>1, SessionsUntouched DEF Inv
  <2>3. writes' \in 0 .. MaxWrites /\ writes' \in Nat /\ writes <= writes'
    BY <2>1, BackupTypes DEF Inv
  <2>4. BackupTyped'
    BY <2>1, <2>3 DEF Inv, BackupTyped
  <2>5. \A t \in Tables : Counted(t) => \A u \in t.recs : u[2] <= writes'
    BY <2>3, CountedStays DEF Inv
  <2>6. JobsSound'
    <3> SUFFICES ASSUME NEW r \in Requests, ask[r].op = "restore"
                 PROVE  /\ job[r] \in Jobs /\ Inspect(job[r].token.payload.tables)
                        /\ \A u \in job[r].token.payload.tables.recs : u[2] <= writes'
      BY <2>1 DEF JobsSound, sessionVars, Counted
    <3>1. job[r].token.payload.tables \in Tables
      BY DEF Inv, JobsSound, Jobs, Tokens, Payload
    <3> QED BY <2>5, <3>1 DEF Inv, JobsSound
  <2>7. \A f \in FileIds : files[f] # NoFile => files[f].payload.tables \in Tables
    BY DEF Inv, BackupTyped, Payload
  <2>8. data \in Tables
    BY DEF Inv, BackupTyped
  <2>9. \A u \in data.recs : u[2] <= writes'
    BY <2>5, <2>8 DEF Inv, TablesInv
  <2>10. \A f \in FileIds : files[f] # NoFile => \A u \in files[f].payload.tables.recs : u[2] <= writes'
    BY <2>5, <2>7 DEF Inv, TablesInv
  <2>11. TablesInv'
    BY <2>1, <2>9, <2>10 DEF Inv, TablesInv, Inspectable, IdsRetired, Counted
  <2> QED BY <2>2, <2>4, <2>6, <2>11 DEF Inv
<1>4. CASE Restart
  <2>1. /\ UNCHANGED <<data, seq, files, written, due, used, torn>> /\ job' = [r \in Requests |-> NoJob]
        /\ making' = FALSE /\ paused' \in BOOLEAN /\ writes < MaxWrites /\ writes' = writes + 1
        /\ ask' = [r \in Requests |-> NoAsk]
    BY <1>4 DEF Restart
  <2>2. SessionInv'
    BY <1>4, RestartKeepsSessions DEF Inv
  <2>3. writes' \in 0 .. MaxWrites /\ writes' \in Nat /\ writes <= writes'
    BY <2>1, BackupTypes DEF Inv
  <2>4. BackupTyped'
    BY <2>1, <2>3 DEF Inv, BackupTyped
  <2>5. \A t \in Tables : Counted(t) => \A u \in t.recs : u[2] <= writes'
    BY <2>3, CountedStays DEF Inv
  <2>6. JobsSound'
    BY <2>1 DEF JobsSound, NoAsk
  <2>7. \A f \in FileIds : files[f] # NoFile => files[f].payload.tables \in Tables
    BY DEF Inv, BackupTyped, Payload
  <2>8. data \in Tables
    BY DEF Inv, BackupTyped
  <2>9. \A u \in data.recs : u[2] <= writes'
    BY <2>5, <2>8 DEF Inv, TablesInv
  <2>10. \A f \in FileIds : files[f] # NoFile => \A u \in files[f].payload.tables.recs : u[2] <= writes'
    BY <2>5, <2>7 DEF Inv, TablesInv
  <2>11. TablesInv'
    BY <2>1, <2>9, <2>10 DEF Inv, TablesInv, Inspectable, IdsRetired, Counted
  <2> QED BY <2>2, <2>4, <2>6, <2>11 DEF Inv
<1> QED BY <1>1, <1>2, <1>3, <1>4

-----------------------------------------------------------------------------
(* The specification.                                                       *)

LEMMA InitInv ==
  ASSUME Init
  PROVE  Inv
<1>1. PICK p \in Pins, w \in BOOLEAN : hash = [pin |-> p, weak |-> w, salt |-> 0]
  BY DEF Init
<1>2. PICK n \in QueueLimits : pool = EmptyPool(n)
  BY DEF Init
<1>3. PICK b \in Browsers :
         sess = [c \in Browsers |-> IF c = b THEN [level |-> "super", epoch |-> 0, seen |-> 0] ELSE NoAuth]
  BY DEF Init
<1>4. /\ shows = [c \in Browsers |-> IF sess[c] = NoAuth THEN "guest" ELSE "admin"]
      /\ epoch = 0 /\ salts = 0 /\ served = 0 /\ chosen = hash.pin
      /\ ask = [r \in Requests |-> NoAsk]
  BY DEF Init
<1>5. 0 \in 0 .. MaxHashes /\ 0 \in 0 .. MaxRequests
  BY SessionAssumption
<1>6. SessionInv
  <2>1. Derivers = {}
    BY <1>4 DEF Derivers, Deriving, Idle, NoAsk
  <2>2. PoolOK(pool, Derivers)
    BY <1>2, <2>1, EmptyPoolOK
  <2>3. sess \in [Browsers -> Auth] /\ \A c \in Browsers : sess[c].seen = sess[c].epoch
    BY <1>3 DEF Auth, NoAuth
  <2>4. hash \in Hashes /\ chosen \in Pins
    BY <1>1, <1>4, <1>5 DEF Hashes
  <2>5. SessionTyped
    BY <1>4, <1>5, <2>3, <2>4 DEF SessionTyped
  <2>6. SessionsHonest /\ PinAsChosen
    BY <1>4, <2>3 DEF SessionsHonest, PinAsChosen
  <2> QED BY <2>2, <2>5, <2>6 DEF SessionInv
<1>7. /\ data = [emp |-> "current", line |-> FALSE, pending |-> FALSE, holiday |-> FALSE,
                 leave |-> FALSE, receipts |-> {}, recs |-> {}, journal |-> {}]
      /\ seq = 0 /\ files = [f \in FileIds |-> NoFile] /\ written = 0 /\ due = TRUE
      /\ job = [r \in Requests |-> NoJob]
      /\ making = FALSE /\ paused \in BOOLEAN /\ writes = 0 /\ used = {} /\ torn = FALSE
  BY DEF Init
<1>8. BackupTyped
  <2>1. data \in Tables
    BY <1>7 DEF Tables
  <2>2. 0 \in 0 .. MaxFiles /\ 0 \in 0 .. MaxWrites
    BY BackupAssumption
  <2> QED BY <1>7, <2>1, <2>2 DEF BackupTyped
<1>9. JobsSound
  BY <1>4 DEF JobsSound, NoAsk
<1>10. TablesInv
  BY <1>7 DEF TablesInv, Inspectable, Inspect, LifecycleOK, ReferencesOK, JournalOK, IdsRetired, Counted
<1> QED BY <1>6, <1>8, <1>9, <1>10 DEF Inv

LEMMA NextKeepsInv ==
  ASSUME Inv, [Next]_vars
  PROVE  Inv'
<1>1. CASE SessionNext /\ UNCHANGED backupVars
  BY <1>1, SessionsKeepInv
<1>2. CASE Restores
  BY <1>2, FilesKeepInv, BeginKeepsInv, RestoreStepsKeepInv, CommitKeepsInv DEF Restores
<1>3. CASE Writers
  BY <1>3, RecordWritesKeepInv, OtherWritesKeepInv DEF Writers
<1>4. CASE DailyBackup \/ DayPasses \/ Restart
  BY <1>4, FilesKeepInv
<1>5. CASE UNCHANGED vars
  <2>1. UNCHANGED sessionVars /\ UNCHANGED backupVars
    BY <1>5 DEF vars
  <2>2. SessionInv'
    BY <2>1, SessionsUntouched DEF Inv
  <2> QED BY <2>1, <2>2
        DEF Inv, BackupTyped, JobsSound, TablesInv, Inspectable, IdsRetired, Counted,
            sessionVars, backupVars
<1> QED BY <1>1, <1>2, <1>3, <1>4, <1>5 DEF Next

\* Whatever logins, PIN changes, backups, restores, restarts and writes come between,
\* requests carry honest epochs, the pool counts its derivations, and every table and
\* file stays in the shape the next restore relies on.
THEOREM BackupInvariance == Spec => []Inv
BY InitInv, NextKeepsInv, PTL DEF Spec

\* A session the next request is let through with rests on a PIN that was read after
\* the last restore (createAdminSession, the restore-epoch middleware).
THEOREM AuthorityIsFresh == Spec => []AuthorityFresh
<1>1. Inv => AuthorityFresh
  BY DEF Inv, SessionInv, SessionsHonest, AuthorityFresh, Outdated
<1> QED BY <1>1, BackupInvariance, PTL

\* No upgrade of a hash undoes a PIN change that overtook it (compareAndSwapAdminPin).
THEOREM PinStaysAsChosen == Spec => []PinAsChosen
<1>1. Inv => PinAsChosen
  BY DEF Inv, SessionInv
<1> QED BY <1>1, BackupInvariance, PTL

\* derivePinAsync loses no place: what is active is derived by a request, and nobody
\* waits beside a free place, for any number of workers and any length of the queue.
THEOREM NoPlaceIsLost == Spec => []PlacesAccounted
<1>1. ASSUME Inv PROVE PlacesAccounted
  <2>1. PoolOK(pool, Derivers)
    BY <1>1 DEF Inv, SessionInv
  <2>2. pool.queued \in Seq(Requests)
    BY <2>1 DEF PoolOK, Pools
  <2>3. \A r \in Requests : Contains(pool.queued, r) <=> r \in Waiting(pool.queued)
    BY DEF Contains, Waiting
  <2>4. {r \in Requests : Runs(r)} = Derivers \ Waiting(pool.queued)
    BY <2>3 DEF Runs, Derivers
  <2> QED BY <2>1, <2>4 DEF PoolOK, PlacesAccounted
<1> QED BY <1>1, BackupInvariance, PTL

\* The tables stay typed, pass inspectNormalizedBackupPayload unless holidays were torn
\* from their rows, and give no id of a salary record out twice, restores included.
THEOREM TablesAreSound == Spec => []TablesSound
<1>1. ASSUME Inv PROVE TablesSound
  <2>1. SessionTypeOK
    <3>1. pool \in [active : 0 .. Workers, queued : Seq(Requests), limit : QueueLimits]
      BY <1>1 DEF Inv, SessionInv, PoolOK, Pools
    <3>2. \A r \in Requests : ask[r] = NoAsk \/ ask[r] \in AskRecords
      BY <1>1 DEF Inv, SessionInv, SessionTyped
    <3> QED BY <1>1, <3>1, <3>2 DEF Inv, SessionInv, SessionTyped, SessionTypeOK, AskRecords
  <2>2. \A f \in FileIds : files[f] = NoFile \/
          (files[f].kind \in {"manual", "daily"} /\ files[f].payload \in Payload)
    BY <1>1 DEF Inv, BackupTyped
  <2>3. \A r \in Requests : job[r] = NoJob \/ job[r].tries \in 0 .. MaxAttempts
    BY <1>1 DEF Inv, BackupTyped, Jobs
  <2>4. TypeOK
    BY <1>1, <2>1, <2>2, <2>3 DEF Inv, BackupTyped, TypeOK
  <2> QED BY <1>1, <2>4 DEF Inv, TablesInv, TablesSound
<1> QED BY <1>1, BackupInvariance, PTL

\* A restore replaces exactly the rows of the confirmed preview by exactly its payload,
\* and a receipt of a LINE punch is lost only with its employee.
THEOREM RestoresAreFaithful == Spec => RestoreFaithful
<1>1. ASSUME Inv, Next PROVE RestoreAsConfirmed /\ ReceiptsStay
  <2>1. data \in Tables
    BY <1>1 DEF Inv, BackupTyped
  <2>2. CASE \E r \in Requests : RestoreCommit(r)
    <3>1. PICK r \in Requests : RestoreCommit(r)
      BY <2>2
    <3> DEFINE p == job[r].token.payload
    <3>2. /\ ask[r].op = "restore" /\ job[r].token.live = Live
          /\ data' = p.tables /\ hash' = p.hash /\ ReceiptsSafe(p.tables, data)
      BY <3>1 DEF RestoreCommit, StillConfirmed
    <3>3. p \in Payload
      BY <1>1, <3>2 DEF Inv, JobsSound, Jobs, Tokens
    <3>4. p = Live'
      BY <3>2, <3>3 DEF Live, Payload
    <3> QED BY <3>2, <3>4 DEF ReceiptsSafe, RestoreAsConfirmed, ReceiptsStay
  <2>3. CASE SessionNext /\ UNCHANGED backupVars
    <3>1. epoch' = epoch
      BY <2>3 DEF SessionNext, Arrivals, ArriveOutdated, ArriveRefused, Arrive, Pages, Heartbeat, Logout,
         Reload, SessionExpires, Handlers, ReadCredential, Verified, Hashed, WaitTimesOut, Rehash,
         CheckEpoch, CreateAdminSession, ElevateCheck, PromoteAdminSession, PinSwap, WorkDone
    <3> QED BY <2>3, <3>1 DEF backupVars, RestoreAsConfirmed, ReceiptsStay
  <2>4. CASE \/ \E b \in Browsers, f \in FileIds : DeleteBackup(b, f)
             \/ \E b \in Browsers : ManualBackup(b)
             \/ \E r \in Requests, b \in Browsers, f \in FileIds, c \in BOOLEAN : RestoreBegin(r, b, f, c)
             \/ \E r \in Requests : Safeguard(r) \/ LoadBackup(r) \/ RestoreAborts(r) \/ RestoreAnswer(r)
             \/ DailyBackup \/ DayPasses \/ Restart
    BY <2>4 DEF DeleteBackup, Unlinked, ManualBackup, RestoreBegin, Arrive, Safeguard, LoadBackup, RestoreAborts,
                RestoreAnswer, DailyBackup, DayPasses, Restart, sessionVars,
                RestoreAsConfirmed, ReceiptsStay
  <2>5. CASE Writers
    <3>1. epoch' = epoch
      BY <2>5 DEF Writers, CreateRecord, BindLine, CorrectRecord, DeleteRecord, Punch, TrashEmployee,
         RestoreEmployee, PurgeEmployee, HolidayStore, HolidayAttendance, HolidayDelete,
         DeleteAllHolidays, Write, sessionVars
    <3>2. ReceiptsStay
      BY <2>1, <2>5 DEF Writers, CreateRecord, BindLine, CorrectRecord, DeleteRecord, Punch,
         TrashEmployee, RestoreEmployee, PurgeEmployee, HolidayStore, HolidayAttendance, HolidayDelete,
         DeleteAllHolidays, Store, Tables, ReceiptsStay
    <3> QED BY <3>1, <3>2 DEF RestoreAsConfirmed
  <2> QED BY <1>1, <2>2, <2>3, <2>4, <2>5 DEF Next, Restores
<1>2. Inv /\ [Next]_vars => [RestoreAsConfirmed /\ ReceiptsStay]_vars
  BY <1>1
<1> QED BY <1>2, BackupInvariance, PTL DEF Spec, RestoreFaithful
=============================================================================
