-------------------------- MODULE ScanStationsProofs ------------------------
(***************************************************************************)
(* The stations for any number of swipes, tokens and clock ticks: types,    *)
(* the outbox of the terminal, and the unlock tokens of the kiosk.          *)
(***************************************************************************)
EXTENDS ScanStations, TLAPS

-----------------------------------------------------------------------------
(* The terminal implements the outbox.  A step of the terminal maps to one  *)
(* step of Outbox or to a stutter, given that the queue, the cache and the  *)
(* outstanding request never hold a swipe in two roles at once.             *)

InInbox(s) == \E i \in DOMAIN inbox : inbox[i] = s
FromQueue == Busy /\ post.from = "queue"

\* A swipe waits in one place, and the terminal said the matching word of it.
InboxOnce == \A i, j \in DOMAIN inbox : inbox[i] = inbox[j] => i = j
InboxQueued == \A i \in DOMAIN inbox : told[inbox[i]] = "queued"
PostQueued == FromQueue => told[post.swipe] = "queued" /\ ~InInbox(post.swipe)
CacheTold == \A s \in cache : told[s] = "cached"
PostCached == Busy /\ post.from = "cache" => post.swipe \in cache
\* Only a swipe that was made is ever posted, late or counted.
RecordedTaken == post.at = "recorded" => taken[post.swipe] > 0
UnseenUntaken == \A s \in Swipes : told[s] = "nothing" => taken[s] = 0 /\ s \notin late

PiInv ==
  /\ PiTypeOK
  /\ InboxOnce /\ InboxQueued /\ PostQueued /\ CacheTold /\ PostCached
  /\ RecordedTaken /\ UnseenUntaken

LEMMA PiInvInit == PiInit => PiInv
<1> SUFFICES ASSUME PiInit PROVE PiInv
  OBVIOUS
<1>1. PiTypeOK
  BY PiAssumption DEF PiInit, PiTypeOK
<1>2. DOMAIN inbox = {} /\ ~Busy /\ post.at # "recorded"
  BY DEF PiInit, Busy, Idle
<1> QED
  BY <1>1, <1>2 DEF PiInit, PiInv, InboxOnce, InboxQueued, PostQueued, FromQueue, CacheTold,
                    PostCached, RecordedTaken, UnseenUntaken

\* Every way the post can be, for the provers.
LEMMA PostFacts ==
  ASSUME PiTypeOK
  PROVE  /\ Busy <=> post \in Posts
         /\ Busy => post.swipe \in Swipes /\ post.from \in {"queue", "cache"}
         /\ NoPost.at = "none" /\ Idle.at = "idle"
  BY DEF PiTypeOK, Busy, Posts, NoPost, Idle

LEMMA NewPost ==
  ASSUME NEW s \in Swipes, NEW from \in {"queue", "cache"}
  PROVE  /\ Post(s, from) \in Posts /\ Post(s, from).at = "sent"
         /\ Post(s, from).swipe = s /\ Post(s, from).from = from
  BY DEF Post, Posts

\* The barcode at the head of the queue and the rest of it.
LEMMA Taken ==
  ASSUME NEW q \in Seq(Swipes), q # <<>>
  PROVE  /\ Head(q) \in Swipes /\ Tail(q) \in Seq(Swipes)
         /\ 1 \in DOMAIN q /\ Head(q) = q[1]
         /\ \A i \in DOMAIN Tail(q) : i + 1 \in DOMAIN q /\ Tail(q)[i] = q[i + 1]
         /\ \A i \in DOMAIN q : i # 1 => i - 1 \in DOMAIN Tail(q) /\ Tail(q)[i - 1] = q[i]
  OBVIOUS

LEMMA Swiped ==
  ASSUME NEW q \in Seq(Swipes), NEW s \in Swipes
  PROVE  /\ Append(q, s) \in Seq(Swipes)
         /\ \A i \in DOMAIN q : i \in DOMAIN Append(q, s) /\ Append(q, s)[i] = q[i]
         /\ Len(q) + 1 \in DOMAIN Append(q, s) /\ Append(q, s)[Len(q) + 1] = s
         /\ \A i \in DOMAIN Append(q, s) : i \in DOMAIN q \/ i = Len(q) + 1
         /\ Len(q) + 1 \notin DOMAIN q
  OBVIOUS

-----------------------------------------------------------------------------
(* The invariant.                                                           *)

PiAny == PiNext \/ ToggleBarcode

LEMMA PiInvStep ==
  ASSUME PiInv, [PiAny]_piVars
  PROVE  PiInv'
<1> USE DEF PiInv
<1>0. PiTypeOK /\ inbox \in Seq(Swipes)
  BY DEF PiTypeOK
<1>1. ASSUME NEW s \in Swipes, Swipe(s)
      PROVE  PiInv'
  <2>1. PiTypeOK'
    BY <1>0, <1>1, Swiped DEF Swipe, Tell, PiTypeOK
  <2>2. ~InInbox(s) /\ s \notin cache /\ ~(FromQueue /\ post.swipe = s)
    BY <1>1 DEF Swipe, InboxQueued, CacheTold, PostQueued, InInbox
  <2>3. InboxOnce' /\ InboxQueued'
    BY <1>0, <1>1, <2>2, Swiped
       DEF Swipe, Tell, InboxOnce, InboxQueued, InInbox, PiTypeOK
  <2>4. PostQueued'
    BY <1>0, <1>1, <2>2, Swiped, PostFacts
       DEF Swipe, Tell, PostQueued, FromQueue, InInbox, Busy, PiTypeOK
  <2> QED
    BY <1>0, <1>1, <2>1, <2>2, <2>3, <2>4
       DEF Swipe, Tell, CacheTold, PostCached, RecordedTaken, UnseenUntaken, Busy, PiTypeOK
<1>2. CASE ListCache
  BY <1>0, <1>2, PostFacts
     DEF ListCache, PiTypeOK, InboxOnce, InboxQueued, PostQueued, FromQueue, InInbox, Busy,
         CacheTold, PostCached, RecordedTaken, UnseenUntaken
<1>3. ASSUME NEW s \in Swipes, SendCached(s)
      PROVE  PiInv'
  <2>1. s \in cache
    BY <1>0, <1>3 DEF SendCached, PiTypeOK
  <2> QED
    BY <1>0, <1>3, <2>1, NewPost
       DEF SendCached, PiTypeOK, InboxOnce, InboxQueued, PostQueued, FromQueue, InInbox, Busy,
           CacheTold, PostCached, RecordedTaken, UnseenUntaken
<1>4. CASE TakeBarcode
  <2>1. CASE inbox = <<>>
    BY <1>0, <1>4, <2>1, PostFacts
       DEF TakeBarcode, PiTypeOK, InboxOnce, InboxQueued, PostQueued, FromQueue, InInbox, Busy,
           CacheTold, PostCached, RecordedTaken, UnseenUntaken
  <2>2. CASE inbox # <<>>
    <3>1. /\ post' = Post(Head(inbox), "queue") /\ inbox' = Tail(inbox)
          /\ UNCHANGED <<cache, pass, late, told, taken, enabled, restarts>>
      BY <1>4, <2>2 DEF TakeBarcode
    <3>2. PiTypeOK'
      BY <1>0, <2>2, <3>1, Taken, NewPost DEF PiTypeOK
    <3>3. InboxOnce' /\ InboxQueued'
      BY <1>0, <2>2, <3>1, Taken DEF InboxOnce, InboxQueued
    <3>4. PostQueued'
      BY <1>0, <2>2, <3>1, Taken, NewPost
         DEF PostQueued, FromQueue, InInbox, InboxOnce, InboxQueued
    <3> QED
      BY <1>0, <2>2, <3>1, <3>2, <3>3, <3>4, Taken, NewPost
         DEF CacheTold, PostCached, RecordedTaken, UnseenUntaken
  <2> QED BY <2>1, <2>2
<1>5. ASSUME NEW s \in Swipes, ServerRecords(s)
      PROVE  PiInv'
  <2>1. post \in Posts /\ post' = [post EXCEPT !.at = "recorded"]
    BY <1>0, <1>5, PostFacts DEF ServerRecords, Busy
  <2>2. post'.at = "recorded" /\ post'.swipe = post.swipe /\ post'.from = post.from
    BY <2>1 DEF Posts
  <2>3. told[s] # "nothing"
    BY <1>5, <2>1 DEF ServerRecords, Busy, Posts, PostQueued, FromQueue, PostCached, CacheTold
  <2>4. PiTypeOK'
    BY <1>0, <1>5, <2>1 DEF ServerRecords, Record, PiTypeOK, Posts
  <2> QED
    BY <1>0, <1>5, <2>2, <2>3, <2>4
       DEF ServerRecords, Record, PiTypeOK, InboxOnce, InboxQueued, PostQueued, FromQueue,
           InInbox, Busy, CacheTold, PostCached, RecordedTaken, UnseenUntaken
<1>6. CASE ServerRefuses
  <2>1. post \in Posts /\ post' = [post EXCEPT !.at = "refused"]
    BY <1>0, <1>6, PostFacts DEF ServerRefuses, Busy
  <2>2. post'.at = "refused" /\ post'.swipe = post.swipe /\ post'.from = post.from
    BY <2>1 DEF Posts
  <2>3. PiTypeOK'
    BY <1>0, <1>6, <2>1 DEF ServerRefuses, PiTypeOK, Posts
  <2> QED
    BY <1>0, <1>6, <2>2, <2>3
       DEF ServerRefuses, InboxOnce, InboxQueued, PostQueued, FromQueue,
           InInbox, Busy, CacheTold, PostCached, RecordedTaken, UnseenUntaken
<1>7. ASSUME NEW s \in Swipes, ServerRecordsLate(s) \/ ServerDropsLate(s)
      PROVE  PiInv'
  BY <1>0, <1>7, PostFacts
     DEF ServerRecordsLate, ServerDropsLate, Record, PiTypeOK, InboxOnce, InboxQueued,
         PostQueued, FromQueue, InInbox, Busy, CacheTold, PostCached, RecordedTaken,
         UnseenUntaken
<1>8. CASE CachedAnswer
  BY <1>0, <1>8, PostFacts
     DEF CachedAnswer, PiTypeOK, InboxOnce, InboxQueued, PostQueued, FromQueue, InInbox, Busy,
         CacheTold, PostCached, RecordedTaken, UnseenUntaken
<1>9. CASE QueuedAnswer
  <2>1. FromQueue /\ post.swipe \in Swipes /\ post.swipe \notin cache
    BY <1>0, <1>9, PostFacts DEF QueuedAnswer, FromQueue, Busy, PostQueued, CacheTold
  <2>2. ~InInbox(post.swipe)
    BY <2>1 DEF PostQueued
  <2> QED
    BY <1>0, <1>9, <2>1, <2>2, PostFacts
       DEF QueuedAnswer, Tell, PiTypeOK, InboxOnce, InboxQueued, PostQueued, FromQueue, InInbox,
           Busy, CacheTold, PostCached, RecordedTaken, UnseenUntaken
<1>10. Busy => told[post.swipe] # "nothing"
  BY <1>0, PostFacts DEF FromQueue, PostQueued, CacheTold, PostCached
<1>11. CASE CachedFails
  BY <1>0, <1>10, <1>11, PostFacts
     DEF CachedFails, StillUnderWay, PiTypeOK, InboxOnce, InboxQueued, PostQueued, FromQueue,
         InInbox, Busy, CacheTold, PostCached, RecordedTaken, UnseenUntaken
<1>12. CASE QueuedFails
  <2>1. FromQueue /\ post.swipe \in Swipes /\ ~InInbox(post.swipe)
    BY <1>0, <1>12, PostFacts DEF QueuedFails, FromQueue, PostQueued
  <2>2. \A s \in cache : s # post.swipe
    BY <2>1 DEF PostQueued, CacheTold
  <2> QED
    BY <1>0, <1>10, <1>12, <2>1, <2>2, PostFacts
       DEF QueuedFails, StillUnderWay, Tell, PiTypeOK, InboxOnce, InboxQueued, PostQueued,
           FromQueue, InInbox, Busy, CacheTold, PostCached, RecordedTaken, UnseenUntaken
<1>13. CASE PiRestart
  BY <1>0, <1>10, <1>13, PostFacts, PiAssumption
     DEF PiRestart, StillUnderWay, PiTypeOK, InboxOnce, InboxQueued, PostQueued, FromQueue,
         InInbox, Busy, CacheTold, PostCached, RecordedTaken, UnseenUntaken
<1>14. CASE ToggleBarcode \/ UNCHANGED piVars
  BY <1>0, <1>14
     DEF ToggleBarcode, piVars, PiTypeOK, InboxOnce, InboxQueued, PostQueued, FromQueue,
         InInbox, Busy, CacheTold, PostCached, RecordedTaken, UnseenUntaken
<1> QED
  BY <1>1, <1>2, <1>3, <1>4, <1>5, <1>6, <1>7, <1>8, <1>9, <1>11, <1>12, <1>13, <1>14
     DEF PiAny, PiNext, PiStep

-----------------------------------------------------------------------------
(* The refinement.                                                          *)

fates == [s \in Swipes |-> FateOf(s)]

Waits(s) == InInbox(s) \/ (FromQueue /\ post.swipe = s)

\* FateOf with the cache invariant used.
Fate(s) ==
  IF taken[s] > 0 THEN "counted"
  ELSE IF s \in cache THEN "promised"
  ELSE IF Waits(s) THEN "waiting"
  ELSE IF told[s] = "nothing" THEN "unseen" ELSE "dropped"

LEMMA FateIs == ASSUME PiInv PROVE fates = [s \in Swipes |-> Fate(s)]
BY DEF fates, FateOf, Fate, Waits, InInbox, FromQueue, PiInv, CacheTold

LEMMA FateIsNext == ASSUME PiInv' PROVE fates' = [s \in Swipes |-> Fate(s)']
BY DEF fates, FateOf, Fate, Waits, InInbox, FromQueue, PiInv, CacheTold

\* An outbox step of one swipe, told from the fates themselves.
LEMMA OneMoves ==
  ASSUME PiInv, PiInv', NEW s \in Swipes,
         \A r \in Swipes \ {s} : Fate(r)' = Fate(r),
         \/ Fate(s)' = Fate(s)
         \/ Fate(s) = "unseen" /\ Fate(s)' = "waiting"
         \/ Fate(s) = "waiting" /\ Fate(s)' \in {"promised", "dropped"}
         \/ Fate(s) \in {"waiting", "promised", "dropped"} /\ Fate(s)' = "counted"
  PROVE  [Out!Next]_fates
<1>1. CASE Fate(s)' = Fate(s)
  BY <1>1, FateIs, FateIsNext
<1>2. CASE ~(Fate(s)' = Fate(s))
  <2>1. fates' = [fates EXCEPT ![s] = Fate(s)'] /\ fates[s] = Fate(s)
    BY FateIs, FateIsNext
  <2>2. CASE Fate(s) = "waiting" /\ Fate(s)' = "dropped"
    <3>1. Out!Drop({s})
      BY <2>1, <2>2, FateIs, FateIsNext DEF Out!Drop, fates
    <3> QED BY <3>1 DEF Out!Next
  <2>3. CASE ~(Fate(s) = "waiting" /\ Fate(s)' = "dropped")
    BY <1>2, <2>1, <2>3
       DEF Out!Next, Out!Submit, Out!Promise, Out!Count, Out!Move, fates
  <2> QED BY <2>2, <2>3
<1> QED BY <1>1, <1>2

\* A step that changes nothing a fate depends on.
LEMMA NoneMoves ==
  ASSUME PiInv, PiInv', \A r \in Swipes : Fate(r)' = Fate(r)
  PROVE  [Out!Next]_fates
BY FateIs, FateIsNext

LEMMA FatesInit == PiInit => Out!Init
<1> SUFFICES ASSUME PiInit PROVE Out!Init
  OBVIOUS
<1>1. \A s \in Swipes : FateOf(s) = "unseen"
  BY DEF PiInit, FateOf, Busy, Idle
<1> QED BY <1>1 DEF Out!Init

LEMMA FatesStep ==
  ASSUME PiInv, PiInv', [PiAny]_piVars
  PROVE  [Out!Next]_fates
<1> USE DEF PiInv
<1>0. PiTypeOK /\ inbox \in Seq(Swipes)
  BY DEF PiTypeOK
<1>1. ASSUME NEW s \in Swipes, Swipe(s)
      PROVE  [Out!Next]_fates
  <2>1. ~InInbox(s) /\ s \notin cache /\ ~(FromQueue /\ post.swipe = s) /\ taken[s] = 0
    BY <1>1 DEF Swipe, InboxQueued, CacheTold, PostQueued, InInbox, UnseenUntaken
  <2>2. \A r \in Swipes : InInbox(r)' <=> InInbox(r) \/ r = s
    BY <1>0, <1>1, Swiped DEF Swipe, InInbox
  <2>3. \A r \in Swipes : Waits(r)' <=> Waits(r) \/ r = s
    BY <1>1, <2>2 DEF Waits, FromQueue, Busy, Swipe
  <2> QED
    BY <1>0, <1>1, <2>1, <2>3, OneMoves DEF Swipe, Tell, Fate, Waits, PiTypeOK
<1>2. CASE ListCache
  <2>1. \A r \in Swipes : Waits(r)' <=> Waits(r)
    BY <1>0, <1>2, PostFacts DEF ListCache, Waits, InInbox, FromQueue, Busy
  <2> QED BY <1>2, <2>1, NoneMoves DEF ListCache, Fate
<1>3. ASSUME NEW s \in Swipes, SendCached(s)
      PROVE  [Out!Next]_fates
  <2>1. \A r \in Swipes : Waits(r)' <=> Waits(r)
    BY <1>0, <1>3, NewPost, PostFacts DEF SendCached, Waits, InInbox, FromQueue, Busy
  <2> QED BY <1>3, <2>1, NoneMoves DEF SendCached, Fate
<1>4. CASE TakeBarcode
  <2>1. \A r \in Swipes : Waits(r)' <=> Waits(r)
    <3>1. CASE inbox = <<>>
      BY <1>0, <1>4, <3>1, PostFacts DEF TakeBarcode, Waits, InInbox, FromQueue, Busy
    <3>2. CASE inbox # <<>>
      <4>1. /\ post' = Post(Head(inbox), "queue") /\ inbox' = Tail(inbox) /\ ~Busy
        BY <1>0, <1>4, <3>2, PostFacts DEF TakeBarcode, Busy
      <4>2. \A r \in Swipes : InInbox(r) <=> InInbox(r)' \/ r = Head(inbox)
        <5>1. ASSUME NEW r \in Swipes, InInbox(r), r # Head(inbox)
              PROVE  InInbox(r)'
          <6>1. PICK i \in DOMAIN inbox : inbox[i] = r
            BY <5>1 DEF InInbox
          <6>2. i # 1
            BY <1>0, <3>2, <5>1, <6>1, Taken
          <6>3. i - 1 \in DOMAIN Tail(inbox) /\ Tail(inbox)[i - 1] = r
            BY <1>0, <3>2, <6>1, <6>2, Taken
          <6> QED BY <4>1, <6>3 DEF InInbox
        <5>2. ASSUME NEW r \in Swipes, InInbox(r)'
              PROVE  InInbox(r)
          BY <1>0, <3>2, <4>1, <5>2, Taken DEF InInbox
        <5>3. InInbox(Head(inbox))
          BY <1>0, <3>2, Taken DEF InInbox
        <5> QED BY <5>1, <5>2, <5>3
      <4>3. FromQueue' /\ post'.swipe = Head(inbox)
        BY <1>0, <3>2, <4>1, Taken, NewPost DEF FromQueue, Busy
      <4> QED BY <4>1, <4>2, <4>3 DEF Waits, FromQueue
    <3> QED BY <3>1, <3>2
  <2> QED BY <1>4, <2>1, NoneMoves DEF TakeBarcode, Fate
<1>5. Busy => post \in Posts /\ post.swipe \in Swipes /\ Fate(post.swipe) # "unseen"
  <2>1. ASSUME Busy PROVE post \in Posts /\ post.swipe \in Swipes /\ told[post.swipe] # "nothing"
    BY <1>0, <2>1, PostFacts DEF FromQueue, PostQueued, CacheTold, PostCached
  <2> QED BY <2>1 DEF Fate
<1>6. ASSUME NEW s \in Swipes, ServerRecords(s)
      PROVE  [Out!Next]_fates
  <2>1. post \in Posts /\ post' = [post EXCEPT !.at = "recorded"] /\ post.swipe = s
    BY <1>0, <1>6, PostFacts DEF ServerRecords, Busy
  <2>2. post'.at = "recorded" /\ post'.swipe = post.swipe /\ post'.from = post.from
    BY <2>1 DEF Posts
  <2>3. \A r \in Swipes : Waits(r)' <=> Waits(r)
    BY <1>6, <2>2 DEF ServerRecords, Waits, InInbox, FromQueue, Busy
  <2>4. Fate(s) # "unseen"
    BY <1>5, <1>6 DEF ServerRecords, Busy
  <2>5. taken[s]' > 0 /\ \A r \in Swipes \ {s} : taken[r]' = taken[r]
    BY <1>0, <1>6 DEF ServerRecords, Record, PiTypeOK
  <2>6. \A r \in Swipes \ {s} : Fate(r)' = Fate(r)
    BY <1>6, <2>3, <2>5 DEF Fate, ServerRecords
  <2>7. Fate(s)' = "counted" /\ Fate(s) \in {"counted", "waiting", "promised", "dropped"}
    BY <2>4, <2>5 DEF Fate
  <2> QED BY <2>6, <2>7, OneMoves
<1>7. CASE ServerRefuses
  <2>1. post \in Posts /\ post' = [post EXCEPT !.at = "refused"]
    BY <1>0, <1>7, PostFacts DEF ServerRefuses, Busy
  <2>2. post'.at = "refused" /\ post'.swipe = post.swipe /\ post'.from = post.from
    BY <2>1 DEF Posts
  <2>3. \A r \in Swipes : Waits(r)' <=> Waits(r)
    BY <1>7, <2>2 DEF ServerRefuses, Waits, InInbox, FromQueue, Busy
  <2> QED BY <1>7, <2>3, NoneMoves DEF ServerRefuses, Fate
<1>8. ASSUME NEW s \in Swipes, ServerRecordsLate(s)
      PROVE  [Out!Next]_fates
  <2>1. \A r \in Swipes : Waits(r)' <=> Waits(r)
    BY <1>8 DEF ServerRecordsLate, Waits, InInbox, FromQueue, Busy
  <2>2. told[s] # "nothing"
    BY <1>8 DEF ServerRecordsLate, UnseenUntaken
  <2>3. taken[s]' > 0 /\ \A r \in Swipes \ {s} : taken[r]' = taken[r]
    BY <1>0, <1>8 DEF ServerRecordsLate, Record, PiTypeOK
  <2>4. \A r \in Swipes \ {s} : Fate(r)' = Fate(r)
    BY <1>8, <2>1, <2>3 DEF Fate, ServerRecordsLate
  <2>5. Fate(s)' = "counted" /\ Fate(s) \in {"counted", "waiting", "promised", "dropped"}
    BY <2>2, <2>3 DEF Fate
  <2> QED BY <2>4, <2>5, OneMoves
<1>9. ASSUME NEW s \in Swipes, ServerDropsLate(s)
      PROVE  [Out!Next]_fates
  BY <1>9, NoneMoves DEF ServerDropsLate, Fate, Waits, InInbox, FromQueue, Busy
<1>10. CASE CachedAnswer
  <2>1. \A r \in Swipes : Waits(r)' <=> Waits(r)
    BY <1>0, <1>10, PostFacts DEF CachedAnswer, Waits, InInbox, FromQueue, Busy
  <2>2. \A r \in Swipes : taken[r] > 0 \/ (r \in cache' <=> r \in cache)
    BY <1>10 DEF CachedAnswer, RecordedTaken
  <2> QED BY <1>10, <2>1, <2>2, NoneMoves DEF CachedAnswer, Fate
<1>11. CASE CachedFails
  <2>1. \A r \in Swipes : Waits(r)' <=> Waits(r)
    BY <1>0, <1>11, PostFacts DEF CachedFails, Waits, InInbox, FromQueue, Busy
  <2> QED BY <1>11, <2>1, NoneMoves DEF CachedFails, Fate
<1>12. CASE QueuedAnswer \/ QueuedFails
  <2>0. PICK s \in Swipes : s = post.swipe
    BY <1>0, <1>12, PostFacts DEF QueuedAnswer, QueuedFails, Busy
  <2>1. FromQueue /\ post.swipe = s /\ told[s] = "queued" /\ ~InInbox(s) /\ s \notin cache
    BY <1>0, <1>12, <2>0, PostFacts
       DEF QueuedAnswer, QueuedFails, FromQueue, Busy, PostQueued, CacheTold
  <2>2. \A r \in Swipes : Waits(r) <=> Waits(r)' \/ r = s
    BY <1>0, <1>12, <2>1, PostFacts
       DEF QueuedAnswer, QueuedFails, Waits, InInbox, FromQueue, Busy
  <2>3. ~Waits(s)'
    BY <1>0, <1>12, <2>1, PostFacts
       DEF QueuedAnswer, QueuedFails, Waits, InInbox, FromQueue, Busy
  <2>4. \A r \in Swipes \ {s} : Fate(r)' = Fate(r)
    BY <1>0, <1>12, <2>1, <2>2 DEF QueuedAnswer, QueuedFails, Tell, Fate, PiTypeOK
  <2>5. Fate(s) \in {"counted", "waiting"} /\ Fate(s)' \in {"counted", "promised", "dropped"}
    BY <1>0, <1>12, <2>1, <2>2, <2>3 DEF QueuedAnswer, QueuedFails, Tell, Fate, PiTypeOK
  <2>6. Fate(s)' = "counted" <=> Fate(s) = "counted"
    BY <1>12 DEF QueuedAnswer, QueuedFails, Fate
  <2> QED BY <2>4, <2>5, <2>6, OneMoves
<1>13. CASE PiRestart
  <2> DEFINE D == {r \in Swipes : Fate(r) = "waiting"}
  <2>1. \A r \in Swipes : ~Waits(r)'
    BY <1>13, PostFacts DEF PiRestart, Waits, InInbox, FromQueue, Busy
  <2>2. \A r \in Swipes : Waits(r) => told[r] = "queued"
    BY DEF Waits, InInbox, InboxQueued, PostQueued
  <2>3. \A r \in Swipes : Fate(r)' = IF r \in D THEN "dropped" ELSE Fate(r)
    BY <1>13, <2>1, <2>2 DEF PiRestart, Fate
  <2> HIDE DEF D
  <2>4. D \subseteq Swipes /\ (D # {} => Out!Drop(D)) /\ (D = {} => fates' = fates)
    BY <2>3, FateIs, FateIsNext DEF D, Out!Drop, fates
  <2> QED BY <2>4 DEF Out!Next
<1>14. CASE ToggleBarcode \/ UNCHANGED piVars
  BY <1>14, NoneMoves DEF ToggleBarcode, piVars, Fate, Waits, InInbox, FromQueue, Busy
<1> QED
  BY <1>1, <1>2, <1>3, <1>4, <1>6, <1>7, <1>8, <1>9, <1>10, <1>11, <1>12, <1>13, <1>14
     DEF PiAny, PiNext, PiStep

-----------------------------------------------------------------------------
(* The terminal.                                                            *)

LEMMA StepOfPi == [Next]_vars => [PiAny]_piVars
BY DEF Next, vars, KioskNext, PiAny, SubmitScan, ServeScan, ScanRefused, ScanEnds, LoadPage,
       EnterPin, RequestToken, UnlockFails, UnlockAnswered, LockStation, CloseDialog,
       UnlockAgain, SessionEnds, AdminViewEnds, ServerRestart, Tick

(* The queue, the cache and the outstanding request of the terminal never   *)
(* hold a swipe in two roles, and its words about a swipe match them.       *)
THEOREM PiInvariance == Spec => []PiInv
<1>1. Init => PiInv
  BY PiInvInit DEF Init
<1>2. PiInv /\ [Next]_vars => PiInv'
  BY PiInvStep, StepOfPi
<1> QED BY <1>1, <1>2, PTL DEF Spec

(* The terminal implements the outbox: a swipe it has announced as cached   *)
(* is forgotten only by being counted, whatever is refused, times out,      *)
(* arrives late or restarts.                                                *)
THEOREM TerminalKeepsItsWord == Spec => OutboxKept
<1>1. Init => Out!Init
  BY FatesInit DEF Init
<1>2. PiInv /\ PiInv' /\ [Next]_vars => [Out!Next]_fates
  BY FatesStep, StepOfPi
<1> QED BY <1>1, <1>2, PiInvariance, PTL DEF Spec, OutboxKept, Out!Spec, fates

-----------------------------------------------------------------------------
(* The kiosk.                                                               *)

\* The nonce names the token, and was issued.
NonceNamesToken ==
  \A t \in posted : t.nonce <= issued /\ \A u \in posted : t.nonce = u.nonce => t = u
UsedPosted == used \subseteq posted
\* A token that opened an access is remembered as long as it could be used.
OpenedRemembered ==
  \A t \in posted : opened[t.nonce] > 0 => t \in used \/ t.expires <= clock
OpenedIssued == \A n \in 1 .. MaxTokens : n > issued => opened[n] = 0

KioskInv == TypeOK /\ NonceNamesToken /\ UsedPosted /\ OpenedRemembered /\ OpenedIssued /\ UnlockOnce

LEMMA KioskInvInit == Init => KioskInv
<1> SUFFICES ASSUME Init PROVE KioskInv
  OBVIOUS
<1>1. PiTypeOK
  BY PiInvInit DEF Init, PiInv
<1>2. TypeOK
  <2>1. admin \in BOOLEAN /\ isAdmin \in BOOLEAN
    BY DEF Init
  <2>2. page \in PageStates
    BY DEF Init, PageStates
  <2>3. clock \in 0 .. MaxClock /\ access \in Nat /\ issued \in 0 .. MaxTokens
    BY KioskAssumption DEF Init
  <2>4. opened \in [1 .. MaxTokens -> 0 .. 2]
    BY DEF Init
  <2> QED BY <1>1, <2>1, <2>2, <2>3, <2>4 DEF Init, TypeOK
<1> QED
  BY <1>2, KioskAssumption
     DEF Init, KioskInv, NonceNamesToken, UsedPosted, OpenedRemembered, OpenedIssued, UnlockOnce

\* One delivery of an unlock request, answered or not.
LEMMA ServeUnlockKeeps ==
  ASSUME KioskInv, PiTypeOK', NEW t \in posted, ServeUnlock(t), page' \in PageStates,
         UNCHANGED <<station, clock, admin, isAdmin, posted, issued>>
  PROVE  KioskInv'
<1> USE DEF KioskInv
<1>1. t \in Tokens /\ t.nonce \in 1 .. MaxTokens /\ t.expires \in Nat
  BY DEF TypeOK, Tokens
<1>2. CASE UNCHANGED <<access, opened>>
  <2>1. used' \subseteq posted /\ \A u \in used : u \in used' \/ u.expires <= clock
    BY <1>2 DEF ServeUnlock, UsedPosted, TypeOK, Tokens
  <2>2. TypeOK'
    BY <1>2, <2>1 DEF TypeOK
  <2> QED
    BY <1>2, <2>1, <2>2
       DEF NonceNamesToken, UsedPosted, OpenedRemembered, OpenedIssued, UnlockOnce
<1>3. CASE ~Unlocked /\ CanConsume(t)
  <2>1. /\ used' = {u \in used : u.expires > clock} \cup {t}
        /\ access' = clock + AccessTicks
        /\ opened' = [opened EXCEPT ![t.nonce] = IF @ = 2 THEN 2 ELSE @ + 1]
    BY <1>3 DEF ServeUnlock
  <2>2. opened[t.nonce] = 0
    BY <1>1, <1>3 DEF CanConsume, Expired, OpenedRemembered, TypeOK
  <2>3. opened' = [opened EXCEPT ![t.nonce] = 1]
    BY <2>1, <2>2
  <2>4. TypeOK'
    BY <1>1, <2>1, <2>3, KioskAssumption DEF TypeOK
  <2>5. OpenedRemembered'
    <3> SUFFICES ASSUME NEW u \in posted, opened'[u.nonce] > 0
                 PROVE  u \in used' \/ u.expires <= clock
      BY DEF OpenedRemembered
    <3>1. u \in Tokens /\ u.nonce \in 1 .. MaxTokens /\ u.expires \in Nat
      BY DEF TypeOK, Tokens
    <3>2. CASE u.nonce = t.nonce
      BY <2>1, <3>2 DEF NonceNamesToken
    <3>3. CASE u.nonce # t.nonce
      BY <2>1, <2>3, <3>1, <3>3 DEF OpenedRemembered, TypeOK
    <3> QED BY <3>2, <3>3
  <2>6. OpenedIssued' /\ UnlockOnce'
    BY <1>1, <2>3 DEF OpenedIssued, UnlockOnce, NonceNamesToken, TypeOK
  <2>7. NonceNamesToken' /\ UsedPosted'
    BY <2>1 DEF NonceNamesToken, UsedPosted
  <2> QED BY <2>4, <2>5, <2>6, <2>7
<1> QED BY <1>2, <1>3 DEF ServeUnlock

\* What the page's actions do to it one field at a time.
LEMMA PageEdits ==
  ASSUME NEW p \in PageStates
  PROVE  /\ \A x \in {"none", "locked", "open"} : [p EXCEPT !.view = x] \in PageStates
         /\ \A x \in BOOLEAN : [p EXCEPT !.dialog = x] \in PageStates
         /\ \A x \in {"none", "sent", "locked", "answered"} : [p EXCEPT !.scan = x] \in PageStates
         /\ \A x \in {"none", "token", "unlock"} : [p EXCEPT !.unlock = x] \in PageStates
         /\ \A x \in {"none", "locked", "open"} :
              [p EXCEPT !.scan = "none", !.view = x, !.dialog = TRUE] \in PageStates
BY DEF PageStates

LEMMA KioskInvStep ==
  ASSUME KioskInv, PiTypeOK', [Next]_vars
  PROVE  KioskInv'
<1> USE DEF KioskInv
<1>1. CASE UNCHANGED kioskVars
  BY <1>1
     DEF kioskVars, TypeOK, NonceNamesToken, UsedPosted, OpenedRemembered, OpenedIssued,
         UnlockOnce
<1>2. ASSUME UNCHANGED <<station, clock, used, posted, issued, opened>>,
             admin' \in BOOLEAN, access' \in Nat, isAdmin' \in BOOLEAN, page' \in PageStates
      PROVE  KioskInv'
  BY <1>2
     DEF TypeOK, NonceNamesToken, UsedPosted, OpenedRemembered, OpenedIssued, UnlockOnce
<1>3. /\ page \in PageStates /\ \A v \in Refreshed : v \in {"none", "locked", "open"}
      /\ access \in Nat /\ admin \in BOOLEAN /\ isAdmin \in BOOLEAN
  BY DEF TypeOK, Refreshed, Shown
<1>4. CASE SubmitScan \/ ServeScan \/ ScanRefused \/ ScanEnds \/ LoadPage \/ EnterPin
             \/ UnlockFails \/ LockStation \/ CloseDialog \/ SessionEnds \/ AdminViewEnds
  <2>1. CASE SubmitScan \/ ServeScan \/ ScanEnds \/ UnlockFails \/ CloseDialog
    BY <1>2, <1>3, PageEdits, <2>1 DEF SubmitScan, ServeScan, ScanEnds, UnlockFails, CloseDialog
  <2>2. CASE ScanRefused
    BY <1>2, <1>3, PageEdits, <2>2 DEF ScanRefused
  <2>3. CASE LoadPage
    <3>1. PICK v \in Refreshed :
            page' = [view |-> v, dialog |-> FALSE, scan |-> "none", unlock |-> "none"]
      BY <2>3 DEF LoadPage
    <3>2. page' \in PageStates
      BY <1>3, <3>1 DEF PageStates
    <3>3. isAdmin' = admin
      BY <2>3 DEF LoadPage
    <3>4. UNCHANGED <<station, clock, admin, access, used, posted, issued, opened>>
      BY <2>3 DEF LoadPage
    <3> QED BY <1>2, <1>3, <3>2, <3>3, <3>4
  <2>4. CASE EnterPin
    <3>1. page' \in PageStates
      BY <1>3, <2>4, PageEdits DEF EnterPin
    <3>2. UNCHANGED <<station, clock, used, posted, issued, opened>>
      BY <2>4 DEF EnterPin
    <3>3. CASE isAdmin
      <4>1. UNCHANGED <<admin, access, isAdmin>>
        BY <2>4, <3>3, Zenon DEF EnterPin
      <4> QED BY <1>2, <1>3, <3>1, <3>2, <4>1
    <3>4. CASE ~isAdmin
      <4>1. admin' = TRUE /\ isAdmin' = TRUE /\ access' = 0
        BY <2>4, <3>4, Zenon DEF EnterPin
      <4> QED BY <1>2, <3>1, <3>2, <4>1
    <3> QED BY <3>3, <3>4
  <2>5. CASE LockStation
    BY <1>2, <1>3, PageEdits, <2>5 DEF LockStation, ViewLocked
  <2>6. CASE SessionEnds
    BY <1>2, <1>3, <2>6 DEF SessionEnds
  <2>7. CASE AdminViewEnds
    <3>1. isAdmin' = FALSE /\ UNCHANGED <<station, clock, admin, access, used, posted, issued, page, opened>>
      BY <2>7 DEF AdminViewEnds
    <3> QED BY <1>2, <1>3, <3>1
  <2> QED BY <1>4, <2>1, <2>2, <2>3, <2>4, <2>5, <2>6, <2>7
<1>5. CASE RequestToken
  <2> DEFINE t == [nonce |-> issued', expires |-> clock + TokenTicks]
  <2>1. /\ issued' = issued + 1 /\ issued' \in 1 .. MaxTokens /\ posted' = posted \cup {t}
        /\ UNCHANGED <<station, clock, admin, access, isAdmin, used, opened>>
    BY <1>5, KioskAssumption DEF RequestToken, TypeOK
  <2>2. t \in Tokens /\ page' \in PageStates
    BY <1>3, <1>5, <2>1, KioskAssumption DEF RequestToken, Tokens, PageStates, TypeOK
  <2>3. TypeOK'
    BY <2>1, <2>2 DEF TypeOK
  <2>4. opened[t.nonce] = 0 /\ \A u \in posted : u.nonce <= issued /\ u.nonce # t.nonce
    BY <2>1 DEF OpenedIssued, NonceNamesToken, TypeOK, Tokens
  <2>5. t.nonce = issued'
    OBVIOUS
  <2> HIDE DEF t
  <2>6. NonceNamesToken'
    BY <2>1, <2>4, <2>5 DEF NonceNamesToken, TypeOK, Tokens
  <2>7. UsedPosted' /\ OpenedRemembered' /\ OpenedIssued' /\ UnlockOnce'
    BY <2>1, <2>4 DEF UsedPosted, OpenedRemembered, OpenedIssued, UnlockOnce, TypeOK
  <2> QED BY <2>3, <2>6, <2>7
<1>6. CASE UnlockAnswered
  <2>1. PICK t \in posted : ServeUnlock(t)
    BY <1>6 DEF UnlockAnswered
  <2>2. page' \in PageStates /\ UNCHANGED <<station, clock, admin, isAdmin, posted, issued>>
    BY <1>3, <1>6 DEF UnlockAnswered, PageStates
  <2> QED BY <2>1, <2>2, ServeUnlockKeeps
<1>7. ASSUME NEW t \in posted, UnlockAgain(t)
      PROVE  KioskInv'
  BY <1>3, <1>7, ServeUnlockKeeps DEF UnlockAgain
<1>8. CASE ServerRestart
  <2>1. /\ used' = {} /\ opened' = [n \in 1 .. MaxTokens |-> 0]
        /\ UNCHANGED <<station, clock, admin, access, isAdmin, posted, issued, page>>
    BY <1>8 DEF ServerRestart
  <2>2. TypeOK'
    <3>1. opened' \in [1 .. MaxTokens -> 0 .. 2]
      BY <2>1
    <3>2. used' \subseteq Tokens /\ page' \in PageStates /\ issued' \in 0 .. MaxTokens
          /\ clock' \in 0 .. MaxClock /\ access' \in Nat /\ posted' \subseteq Tokens
          /\ station' \in {"pi", "kiosk"}
      BY <2>1 DEF TypeOK
    <3>3. admin' \in BOOLEAN /\ isAdmin' \in BOOLEAN
      BY <1>3, <2>1
    <3> HIDE DEF KioskInv
    <3> QED BY <3>1, <3>2, <3>3 DEF TypeOK
  <2>3. \A u \in posted' : opened'[u.nonce] = 0
    BY <2>1 DEF TypeOK, Tokens
  <2>4. NonceNamesToken' /\ UsedPosted'
    BY <2>1 DEF NonceNamesToken, UsedPosted
  <2>5. OpenedRemembered'
    BY <2>3 DEF OpenedRemembered
  <2>6. OpenedIssued' /\ UnlockOnce'
    BY <2>1 DEF OpenedIssued, UnlockOnce
  <2> HIDE DEF KioskInv
  <2> QED BY <2>2, <2>4, <2>5, <2>6 DEF KioskInv
<1>9. CASE Tick
  BY <1>9, KioskAssumption
     DEF Tick, TypeOK, Tokens, NonceNamesToken, UsedPosted, OpenedRemembered, OpenedIssued,
         UnlockOnce
<1> QED
  BY <1>1, <1>4, <1>5, <1>6, <1>7, <1>8, <1>9 DEF Next, KioskNext, vars

THEOREM KioskInvariance == Spec => []KioskInv
<1>1. PiInv' => PiTypeOK'
  BY DEF PiInv
<1>2. KioskInv /\ PiInv' /\ [Next]_vars => KioskInv'
  BY <1>1, KioskInvStep
<1> QED BY <1>2, KioskInvInit, PiInvariance, PTL DEF Spec

(* Types of both stations, for any number of swipes, restarts and tokens.   *)
THEOREM TypeCorrect == Spec => []TypeOK
<1>1. KioskInv => TypeOK
  BY DEF KioskInv
<1> QED BY <1>1, KioskInvariance, PTL

(* A token opens at most one access in a life of the server: the nonce of   *)
(* an opened token is remembered until the token has expired.               *)
THEOREM TokenOpensOnce == Spec => []UnlockOnce
<1>1. KioskInv => UnlockOnce
  BY DEF KioskInv
<1> QED BY <1>1, KioskInvariance, PTL

=============================================================================
