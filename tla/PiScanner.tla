----------------------------- MODULE PiScanner ------------------------------
(***************************************************************************)
(* The Raspberry Pi terminal: an input loop that queues barcodes in        *)
(* memory, and a processing thread that first resends every file of the    *)
(* offline cache, then posts one queued barcode, and caches the barcode    *)
(* when the post fails on the network.  The server's side of a post is     *)
(* KioskScan; here it records the swipe, refuses it, or is not reached.    *)
(* A request that the Pi gave up on may still reach the server.            *)
(***************************************************************************)
EXTENDS Naturals, Sequences, FiniteSets

CONSTANTS Swipes,       \* barcodes swiped at the terminal
          Known,        \* those of active employees; the others are refused
          MaxRestarts   \* bound: restarts of the terminal, and of the server

ASSUME PiAssumption == Known \subseteq Swipes /\ MaxRestarts \in Nat

VARIABLES
  inbox,      \* scan_queue
  cache,      \* the files of CACHE_DIR
  pass,       \* files the running send_cached_scans still has to send
  post,       \* the thread's outstanding request, if any
  late,       \* requests given up on that the server may still serve
  told,       \* swipe -> what the terminal last said about it
  taken,      \* history: swipe -> punches the server recorded for it, 2 = several
  enabled,    \* settings.barcodeEnabled
  restarts    \* restarts of the terminal so far

piVars == <<inbox, cache, pass, post, late, told, taken, enabled, restarts>>

NoPost == [at |-> "none"]
Idle == [at |-> "idle"]
Posts == [at : {"sent", "recorded", "refused"}, swipe : Swipes, from : {"queue", "cache"}]
Post(s, from) == [at |-> "sent", swipe |-> s, from |-> from]
Busy == post.at \in {"sent", "recorded", "refused"}

PiTypeOK ==
  /\ inbox \in Seq(Swipes) /\ cache \subseteq Swipes /\ pass \subseteq cache
  /\ post \in {NoPost, Idle} \cup Posts /\ late \subseteq Swipes
  /\ told \in [Swipes -> {"nothing", "queued", "success", "error", "cached"}]
  /\ taken \in [Swipes -> 0 .. 2] /\ enabled \in BOOLEAN
  /\ restarts \in 0 .. MaxRestarts

Tell(s, what) == told' = [told EXCEPT ![s] = what]

\* main: a newline or the input timeout submits the barcode typed so far.
Swipe(s) ==
  /\ told[s] = "nothing"
  /\ inbox' = Append(inbox, s) /\ Tell(s, "queued")
  /\ UNCHANGED <<cache, pass, post, late, taken, enabled, restarts>>

\* processing_thread starts over: send_cached_scans lists the directory.
ListCache ==
  /\ post = Idle /\ pass' = cache /\ post' = NoPost
  /\ UNCHANGED <<inbox, cache, late, told, taken, enabled, restarts>>

SendCached(s) ==
  /\ post = NoPost /\ s \in pass
  /\ post' = Post(s, "cache")
  /\ UNCHANGED <<inbox, cache, pass, late, told, taken, enabled, restarts>>

\* The pass is over: scan_queue.get, process_barcode; an empty queue times out.
TakeBarcode ==
  /\ post = NoPost /\ pass = {}
  /\ IF inbox = <<>>
       THEN post' = Idle /\ UNCHANGED inbox
       ELSE post' = Post(Head(inbox), "queue") /\ inbox' = Tail(inbox)
  /\ UNCHANGED <<cache, pass, late, told, taken, enabled, restarts>>

-----------------------------------------------------------------------------
(* The server.                                                             *)

Record(s) == taken' = [taken EXCEPT ![s] = IF @ = 2 THEN 2 ELSE @ + 1]

\* 200: the punch is recorded.
ServerRecords(s) ==
  /\ post.at = "sent" /\ post.swipe = s /\ enabled /\ s \in Known
  /\ Record(s) /\ post' = [post EXCEPT !.at = "recorded"]
  /\ UNCHANGED <<inbox, cache, pass, late, told, enabled, restarts>>

\* Disabled, no device token, unknown or inactive employee, duplicate, rate
\* limited, or an internal error.
ServerRefuses ==
  /\ post.at = "sent" /\ post' = [post EXCEPT !.at = "refused"]
  /\ UNCHANGED <<inbox, cache, pass, late, told, taken, enabled, restarts>>

ServerRecordsLate(s) ==
  /\ s \in late /\ enabled /\ s \in Known
  /\ Record(s) /\ late' = late \ {s}
  /\ UNCHANGED <<inbox, cache, pass, post, told, enabled, restarts>>

ServerDropsLate(s) ==
  /\ s \in late /\ late' = late \ {s}
  /\ UNCHANGED <<inbox, cache, pass, post, told, taken, enabled, restarts>>

-----------------------------------------------------------------------------
(* The answer, or none.                                                    *)

\* Mutant: the file is removed whatever the status of the answer.
CachedAnswerRemoves ==
  /\ post.at \in {"recorded", "refused"} /\ post.from = "cache"
  /\ cache' = cache \ {post.swipe}
  /\ pass' = pass \ {post.swipe} /\ post' = NoPost
  /\ UNCHANGED <<inbox, late, told, taken, enabled, restarts>>

\* send_cached_scans: only a 200 removes the file; the next file is tried anyway.
CachedAnswer ==
  /\ post.at \in {"recorded", "refused"} /\ post.from = "cache"
  /\ cache' = IF post.at = "recorded" THEN cache \ {post.swipe} ELSE cache
  /\ pass' = pass \ {post.swipe} /\ post' = NoPost
  /\ UNCHANGED <<inbox, late, told, taken, enabled, restarts>>

\* process_barcode: 200 is shown as a success, anything else as an error.
QueuedAnswer ==
  /\ post.at \in {"recorded", "refused"} /\ post.from = "queue"
  /\ Tell(post.swipe, IF post.at = "recorded" THEN "success" ELSE "error")
  /\ post' = Idle
  /\ UNCHANGED <<inbox, cache, pass, late, taken, enabled, restarts>>

StillUnderWay == late' = IF post.at = "sent" THEN late \cup {post.swipe} ELSE late

\* Mutant: an exception ends the pass.
CachedFailsStops ==
  /\ Busy /\ post.from = "cache"
  /\ pass' = {} /\ post' = NoPost /\ StillUnderWay
  /\ UNCHANGED <<inbox, cache, told, taken, enabled, restarts>>

\* No answer within five seconds, or no connection: the file stays.
CachedFails ==
  /\ Busy /\ post.from = "cache"
  /\ pass' = pass \ {post.swipe} /\ post' = NoPost /\ StillUnderWay
  /\ UNCHANGED <<inbox, cache, told, taken, enabled, restarts>>

\* ... of a queued barcode: cache_scan writes a file, unless the disk refuses.
QueuedFails ==
  /\ Busy /\ post.from = "queue"
  /\ \/ cache' = cache \cup {post.swipe} /\ Tell(post.swipe, "cached")
     \/ UNCHANGED cache /\ Tell(post.swipe, "error")
  /\ post' = Idle /\ StillUnderWay
  /\ UNCHANGED <<inbox, pass, taken, enabled, restarts>>

\* The process ends and is started again; the files are what is left.
PiRestart ==
  /\ restarts < MaxRestarts /\ restarts' = restarts + 1
  /\ inbox' = <<>> /\ pass' = {} /\ post' = Idle /\ StillUnderWay
  /\ UNCHANGED <<cache, told, taken, enabled>>

ToggleBarcode ==
  /\ enabled' = ~enabled
  /\ UNCHANGED <<inbox, cache, pass, post, late, told, taken, restarts>>

PiInit ==
  /\ inbox = <<>> /\ cache = {} /\ pass = {} /\ post = Idle /\ late = {}
  /\ told = [s \in Swipes |-> "nothing"] /\ taken = [s \in Swipes |-> 0] /\ enabled = TRUE
  /\ restarts = 0

PiStep == ListCache \/ (\E s \in Swipes : SendCached(s)) \/ TakeBarcode

PiNext ==
  \/ PiStep \/ ServerRefuses \/ CachedAnswer \/ QueuedAnswer \/ CachedFails \/ QueuedFails
  \/ \E s \in Swipes : Swipe(s) \/ ServerRecords(s) \/ ServerRecordsLate(s) \/ ServerDropsLate(s)
  \/ PiRestart

-----------------------------------------------------------------------------
FateOf(s) ==
  IF taken[s] > 0 THEN "counted"
  ELSE IF s \in cache /\ told[s] = "cached" THEN "promised"
  ELSE IF s \in {inbox[i] : i \in DOMAIN inbox} \/ (Busy /\ post.from = "queue" /\ post.swipe = s)
    THEN "waiting"
  ELSE IF told[s] = "nothing" THEN "unseen" ELSE "dropped"

Out == INSTANCE Outbox WITH fate <- [s \in Swipes |-> FateOf(s)]

(* The terminal implements the outbox: what it announced as cached is lost  *)
(* by no restart, refusal, timeout or repeated answer (cache_scan,          *)
(* send_cached_scans).                                                      *)
OutboxKept == Out!Spec

(* While barcode punching stays enabled, a cached swipe of an active        *)
(* employee is recorded in the end, whatever other files cannot be sent     *)
(* (send_cached_scans goes on after a failure).                             *)
CacheDrains == <>[]enabled => \A s \in Known : s \in cache ~> s \notin cache
=============================================================================
