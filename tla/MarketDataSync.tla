--------------------------- MODULE MarketDataSync ---------------------------
(***************************************************************************)
(* Historical candle ingestion over the shared Angel One client: the sync  *)
(* tasks of HistoricalDataService, the retrying historical-data client,    *)
(* the session cache behind its asyncio lock and the process-wide rate     *)
(* limiter with its cooldown.  A task is one symbol of one                 *)
(* sync_historical_data() call; every await is a step boundary.            *)
(*                                                                         *)
(* Abstractions.  A session is the serial number of the login that issued  *)
(* it, 0 for none, and the broker honours the newest one only.  The        *)
(* limiter's spacing and per-minute waits are part of the time a caller    *)
(* queues; its lock is fair, so waiting coroutines form a queue whose head *)
(* holds it.                                                               *)
(***************************************************************************)
EXTENDS Naturals, Sequences, FiniteSets, FiniteSetsExt

CONSTANTS
  Tasks,          \* the (call, symbol) pairs to sync
  SymbolOf,       \* the symbol of a task
  CallOf,         \* the sync_historical_data() call of a task
  Forced,         \* the tasks of a call with force_refetch=True
  Concurrency,    \* INGESTION_CONCURRENCY: tasks of a call that run at once
  LastDay,        \* trading days of the requested range are 1..LastDay
  Traded,         \* the days the broker has candles for (the others: holidays)
  Held,           \* the sets of days a symbol may hold before the run
  ChunkDays,      \* INTERVAL_MAX_DAYS: calendar days of one request
  MaxRetries,     \* _MAX_RETRIES
  MaxTroubles     \* bound: revocations, expiries, broker and database failures

ASSUME SyncAssumption ==
  /\ LastDay \in Nat \ {0} /\ ChunkDays \in Nat \ {0}
  /\ MaxRetries \in Nat \ {0} /\ Concurrency \in Nat \ {0} /\ MaxTroubles \in Nat
  /\ Traded \subseteq 1..LastDay /\ Held \subseteq SUBSET Traded /\ Forced \subseteq Tasks

Days    == 1..LastDay
Symbols == {SymbolOf[t] : t \in Tasks}

VARIABLES
  cached,     \* AngelOneAuth._session
  expiring,   \* the cached session is inside its refresh window
  authQ,      \* AngelOneAuth._lock: holder first, then the waiters
  limQ,       \* AngelOneRateLimiter._lock
  paused,     \* monotonic time is before _paused_until
  issued,     \* sessions the broker has issued to this process
  live,       \* the session the broker honours, 0 for another client's
  pc,         \* where each task stands
  sess,       \* the session object a task holds
  attempt,    \* attempt of the current chunk
  missing,    \* days the task found missing
  fetched,    \* days its chunks have covered
  stored,     \* day buckets of historical_candles
  log,        \* status of the task's MarketDataSyncLog
  troubles, outage, endings

auth    == <<cached, expiring, authQ>>
limiter == <<limQ, paused>>
broker  == <<issued, live>>
work    == <<attempt, missing, fetched>>
faults  == <<troubles, outage, endings>>
vars    == <<auth, limiter, broker, pc, sess, work, stored, log, faults>>

Status == {"none", "PENDING", "RUNNING", "SUCCESS", "FAILED", "SKIPPED"}

Active(t) == pc[t] \notin {"waiting", "done", "failed"}

Init ==
  /\ cached = 0 /\ expiring = FALSE /\ authQ = <<>> /\ limQ = <<>> /\ paused = FALSE
  /\ issued = 0 /\ live = 0
  /\ pc = [t \in Tasks |-> "waiting"] /\ sess = [t \in Tasks |-> 0]
  /\ attempt = [t \in Tasks |-> 1]
  /\ missing = [t \in Tasks |-> {}] /\ fetched = [t \in Tasks |-> {}]
  /\ stored \in [Symbols -> Held]
  /\ log = [t \in Tasks |-> "none"]
  /\ troubles = 0 /\ outage = {} /\ endings = 0

Goto(t, label) == pc' = [pc EXCEPT ![t] = label]
Trouble == troubles < MaxTroubles /\ troubles' = troubles + 1
Fault(kind) == Trouble /\ kind /\ UNCHANGED endings

(***************************************************************************)
(* The rate limiter.                                                       *)
(***************************************************************************)
Queue(t, label) == Goto(t, label) /\ limQ' = Append(limQ, t)

\* acquire(): the holder of the lock waits out the cooldown, then returns.
Acquire(t) == limQ # <<>> /\ Head(limQ) = t /\ ~paused /\ limQ' = Tail(limQ)

CooldownEnds ==
  /\ paused /\ paused' = FALSE
  /\ UNCHANGED <<auth, limQ, broker, pc, sess, work, stored, log, faults>>

(***************************************************************************)
(* One attempt of a chunk ends without candles.                            *)
(***************************************************************************)
\* the except branches of _fetch_chunk: sleep and retry, or give up.
Retry(t) ==
  IF attempt[t] < MaxRetries
  THEN Goto(t, "backoff") /\ attempt' = [attempt EXCEPT ![t] = @ + 1]
  ELSE Goto(t, "fail") /\ UNCHANGED attempt

AttemptFails(t) == Retry(t) /\ sess' = [sess EXCEPT ![t] = 0]

\* pause() takes its turn at the limiter's lock; then the attempt is retried
\* without a sleep of its own, the cooldown delays it.
Pause(t) ==
  /\ pc[t] = "pause" /\ limQ # <<>> /\ Head(limQ) = t
  /\ paused' = TRUE
  /\ IF attempt[t] < MaxRetries
     THEN /\ Goto(t, "slot") /\ limQ' = Append(Tail(limQ), t)
          /\ attempt' = [attempt EXCEPT ![t] = @ + 1]
     ELSE Goto(t, "fail") /\ limQ' = Tail(limQ) /\ UNCHANGED attempt
  /\ UNCHANGED <<auth, broker, sess, missing, fetched, stored, log, faults>>

\* asyncio.sleep between attempts.
Backoff(t) ==
  /\ pc[t] = "backoff" /\ Queue(t, "slot")
  /\ UNCHANGED <<auth, paused, broker, sess, work, stored, log, faults>>

(***************************************************************************)
(* The session cache.                                                      *)
(***************************************************************************)
SlotTaken(t) ==
  /\ pc[t] = "slot" /\ Acquire(t)
  /\ Goto(t, "session") /\ authQ' = Append(authQ, t)
  /\ UNCHANGED <<cached, expiring, paused, broker, sess, work, stored, log, faults>>

HoldsAuth(t) == authQ # <<>> /\ Head(authQ) = t

\* get_session(), on taking the lock: the cached session, a login or a refresh.
GetSession(t) ==
  /\ pc[t] = "session" /\ HoldsAuth(t)
  /\ \/ /\ cached # 0 /\ ~expiring
        /\ Goto(t, "call") /\ sess' = [sess EXCEPT ![t] = cached]
        /\ authQ' = Tail(authQ) /\ UNCHANGED limQ
     \/ cached = 0 /\ Queue(t, "loginSlot") /\ UNCHANGED <<sess, authQ>>
     \/ cached # 0 /\ expiring /\ Queue(t, "refreshSlot") /\ UNCHANGED <<sess, authQ>>
  /\ UNCHANGED <<cached, expiring, paused, broker, work, stored, log, faults>>

LoginSlot(t) ==
  /\ \/ pc[t] = "loginSlot" /\ Goto(t, "login")
     \/ pc[t] = "refreshSlot" /\ Goto(t, "refresh")
  /\ Acquire(t)
  /\ UNCHANGED <<auth, paused, broker, sess, work, stored, log, faults>>

\* The broker issues a session and stops honouring the older ones.
Issue(t) ==
  /\ issued' = issued + 1 /\ live' = issued + 1
  /\ cached' = issued + 1 /\ expiring' = FALSE
  /\ sess' = [sess EXCEPT ![t] = issued + 1]
  /\ Goto(t, "call") /\ authQ' = Tail(authQ)

\* _login(): a failure leaves the cache empty and fails the attempt.
Login(t) ==
  /\ pc[t] = "login"
  /\ \/ Issue(t) /\ UNCHANGED <<attempt, faults>>
     \/ /\ Trouble /\ UNCHANGED <<outage, endings>>
        /\ AttemptFails(t) /\ authQ' = Tail(authQ)
        /\ UNCHANGED <<cached, expiring, broker>>
  /\ UNCHANGED <<limiter, missing, fetched, stored, log>>

\* _refresh(): a refused or failed refresh drops the session and logs in.
Refresh(t) ==
  /\ pc[t] = "refresh"
  /\ \/ Issue(t) /\ UNCHANGED <<limQ, faults>>
     \/ /\ \/ cached # live /\ UNCHANGED faults
           \/ Trouble /\ UNCHANGED <<outage, endings>>
        /\ cached' = 0 /\ expiring' = FALSE /\ Queue(t, "loginSlot")
        /\ UNCHANGED <<authQ, broker, sess>>
  /\ UNCHANGED <<paused, work, stored, log>>

\* A mutant of Evicts: clear whatever session is cached.
EvictsAny(t) == cached # 0

\* A mutant of Evicts: a rejected session stays cached.
EvictsNone(t) == FALSE

\* invalidate_if_matches(): clears the cache only if it still holds this session.
Evicts(t) == cached = sess[t]

Evict(t) ==
  /\ pc[t] = "evict" /\ HoldsAuth(t)
  /\ authQ' = Tail(authQ)
  /\ IF Evicts(t) THEN cached' = 0 /\ expiring' = FALSE ELSE UNCHANGED <<cached, expiring>>
  /\ AttemptFails(t)
  /\ UNCHANGED <<limiter, broker, missing, fetched, stored, log, faults>>

(***************************************************************************)
(* The getCandleData request.                                              *)
(***************************************************************************)
\* split_date_range: the chunk that starts at the first day not yet covered.
ToFetch(t) == {d \in Days : d >= Min(missing[t]) /\ d <= Max(missing[t])} \ fetched[t]
Chunk(t) == {d \in ToFetch(t) : d < Min(ToFetch(t)) + ChunkDays}

\* A rejected session: HTTP 401/403, or 200 with "Invalid Token".
Rejected(t) ==
  /\ pc[t] = "call" /\ sess[t] # live
  /\ Goto(t, "evict") /\ authQ' = Append(authQ, t)
  /\ UNCHANGED <<cached, expiring, limiter, broker, sess, work, stored, log, faults>>

\* HTTP 429, or 403 with a rate-limit body: the session is kept.
RateLimited(t) ==
  /\ pc[t] = "call" /\ Trouble /\ UNCHANGED <<outage, endings>>
  /\ Queue(t, "pause") /\ sess' = [sess EXCEPT ![t] = 0]
  /\ UNCHANGED <<auth, paused, broker, work, stored, log>>

\* Timeouts, network errors and other error responses.
CallFails(t) ==
  /\ pc[t] = "call" /\ Trouble /\ UNCHANGED <<outage, endings>>
  /\ AttemptFails(t)
  /\ UNCHANGED <<auth, limiter, broker, missing, fetched, stored, log>>

\* Candles of the chunk; the next chunk starts over at attempt 1.
CallAnswers(t) ==
  /\ pc[t] = "call" /\ sess[t] = live
  /\ fetched' = [fetched EXCEPT ![t] = @ \cup Chunk(t)]
  /\ sess' = [sess EXCEPT ![t] = 0] /\ attempt' = [attempt EXCEPT ![t] = 1]
  /\ IF ToFetch(t) = Chunk(t)
     THEN Goto(t, "persist") /\ UNCHANGED limQ
     ELSE Queue(t, "slot")
  /\ UNCHANGED <<auth, paused, broker, missing, stored, log, faults>>

(***************************************************************************)
(* _sync_symbol.                                                           *)
(***************************************************************************)
Running(t) == {u \in Tasks : CallOf[u] = CallOf[t] /\ Active(u)}

\* Takes the semaphore and creates the log; create_log() is outside the try.
StartSync(t) ==
  /\ pc[t] = "waiting" /\ Cardinality(Running(t)) < Concurrency
  /\ \/ /\ log' = [log EXCEPT ![t] = "PENDING"] /\ Goto(t, "find") /\ UNCHANGED faults
     \/ /\ Goto(t, "failed") /\ Fault(outage' = outage \cup {t}) /\ UNCHANGED log
  /\ UNCHANGED <<auth, limiter, broker, sess, work, stored>>

\* A mutant of MissingDays: resume after the latest stored day.
MissingFromLatest(t) ==
  IF stored[SymbolOf[t]] = {} THEN Days ELSE {d \in Days : d > Max(stored[SymbolOf[t]])}

\* Days already in historical_candles are not fetched again.
MissingDays(t) == IF t \in Forced THEN Days ELSE Days \ stored[SymbolOf[t]]

\* mark_running(), then _find_missing_dates(); nothing missing: skipped.
FindMissing(t) ==
  /\ pc[t] = "find"
  /\ missing' = [missing EXCEPT ![t] = MissingDays(t)]
  /\ \/ /\ MissingDays(t) # {} /\ Queue(t, "slot") /\ log' = [log EXCEPT ![t] = "RUNNING"]
        /\ UNCHANGED faults
     \/ /\ MissingDays(t) = {} /\ Goto(t, "done") /\ log' = [log EXCEPT ![t] = "SKIPPED"]
        /\ UNCHANGED <<limQ, faults>>
     \/ Goto(t, "fail") /\ Fault(outage' = outage \cup {t}) /\ UNCHANGED <<limQ, log>>
  /\ UNCHANGED <<auth, paused, broker, sess, attempt, fetched, stored>>

\* Days the broker returned candles for and no bucket holds yet.
ToSave(t) == fetched[t] \cap Traded

\* _persist_candles_by_day: one upsert per day, in date order.
PersistDay(t) ==
  /\ pc[t] = "persist" /\ ToSave(t) # {}
  /\ \/ /\ stored' = [stored EXCEPT ![SymbolOf[t]] = @ \cup {Min(ToSave(t))}]
        /\ fetched' = [fetched EXCEPT ![t] = @ \ {Min(ToSave(t))}]
        /\ UNCHANGED <<pc, faults>>
     \/ Goto(t, "fail") /\ Fault(outage' = outage \cup {t}) /\ UNCHANGED <<stored, fetched>>
  /\ UNCHANGED <<auth, limiter, broker, sess, attempt, missing, log>>

\* mark_success() and update_log().
FinishSync(t) ==
  /\ pc[t] = "persist" /\ ToSave(t) = {}
  /\ \/ Goto(t, "done") /\ log' = [log EXCEPT ![t] = "SUCCESS"] /\ UNCHANGED faults
     \/ Goto(t, "fail") /\ Fault(outage' = outage \cup {t}) /\ UNCHANGED log
  /\ UNCHANGED <<auth, limiter, broker, sess, work, stored>>

\* The except branch: mark_failed() and update_log(), which may fail in turn.
FailSync(t) ==
  /\ pc[t] = "fail" /\ Goto(t, "failed")
  /\ \/ log' = [log EXCEPT ![t] = "FAILED"] /\ UNCHANGED faults
     \/ Fault(outage' = outage \cup {t}) /\ UNCHANGED log
  /\ UNCHANGED <<auth, limiter, broker, sess, work, stored>>

(***************************************************************************)
(* The world outside.                                                      *)
(***************************************************************************)
\* Another client logs in with the same credentials.
Revoke ==
  /\ live # 0 /\ live' = 0 /\ Trouble /\ endings' = endings + 1
  /\ UNCHANGED <<auth, limiter, issued, pc, sess, work, stored, log, outage>>

\* The cached token enters the window before its expiry.
Expire ==
  /\ cached # 0 /\ ~expiring /\ expiring' = TRUE /\ Trouble /\ endings' = endings + 1
  /\ UNCHANGED <<cached, authQ, limiter, broker, pc, sess, work, stored, log, outage>>

AllEnded == (\A t \in Tasks : ~Active(t) /\ pc[t] # "waiting") /\ UNCHANGED vars

TaskStep(t) ==
  \/ StartSync(t) \/ FindMissing(t) \/ SlotTaken(t) \/ GetSession(t) \/ LoginSlot(t)
  \/ Login(t) \/ Refresh(t) \/ Evict(t) \/ Pause(t) \/ Backoff(t)
  \/ Rejected(t) \/ RateLimited(t) \/ CallFails(t) \/ CallAnswers(t)
  \/ PersistDay(t) \/ FinishSync(t) \/ FailSync(t)

Next == (\E t \in Tasks : TaskStep(t)) \/ CooldownEnds \/ Revoke \/ Expire \/ AllEnded

Spec == Init /\ [][Next]_vars

(***************************************************************************)
(* Properties.                                                             *)
(***************************************************************************)
\* Fewer broker failures than one chunk has attempts never fail a sync: a
\* revoked or replaced session costs a task at most one attempt, however many
\* tasks see it rejected at once and in whatever order they evict and log in.
RevocationIsSurvived ==
  \A t \in Tasks : pc[t] \in {"fail", "failed"} => troubles >= MaxRetries \/ t \in outage

\* One login per session that ended: requests that were in flight with the old
\* session do not clobber the session another task has logged in meanwhile.
OneLoginPerEnding == issued <= 1 + endings

\* What the sync log and the returned outcome say is true of the candles: a sync
\* that succeeded or skipped leaves no gap, whatever other call wrote the same
\* symbol; one whose last write went through is logged as FAILED if it failed.
LogTellsTruth ==
  \A t \in Tasks :
    /\ log[t] \in {"SUCCESS", "SKIPPED"} => pc[t] = "done" /\ Traded \subseteq stored[SymbolOf[t]]
    /\ pc[t] = "failed" /\ t \notin outage => log[t] = "FAILED"
=============================================================================
