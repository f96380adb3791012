----------------------- MODULE MarketDataSync_proofs -----------------------
(***************************************************************************)
(* Promises of the historical sync, for any number of tasks, days, chunks, *)
(* attempts and troubles: the shared Angel One session logs in at most     *)
(* once more than sessions ended, a session that ends costs a task one     *)
(* attempt, and the sync log tells what is stored.                         *)
(***************************************************************************)
EXTENDS MarketDataSync, FiniteSetTheorems, WellFoundedInduction, TLAPS

Exclusive == {"loginSlot", "login", "refreshSlot", "refresh"}

Labels == {"waiting", "find", "slot", "session", "loginSlot", "login", "refreshSlot",
           "refresh", "call", "evict", "pause", "backoff", "persist", "fail",
           "done", "failed"}

SessionTypeOK ==
    /\ cached \in Nat /\ issued \in Nat /\ live \in Nat /\ endings \in Nat
    /\ authQ \in Seq(Tasks)
    /\ pc \in [Tasks -> Labels]
    /\ sess \in [Tasks -> Nat]

(* The lock of the cache is held across a login and a refresh. *)
LoginIsExclusive == \A t \in Tasks : pc[t] \in Exclusive => HoldsAuth(t)

(* A number that is cached, honoured or held by a task is one the broker     *)
(* issued, and only the newest one is cached or honoured.                    *)
SessionsAreIssued ==
    /\ cached \in {0, issued} /\ live \in {0, issued}
    /\ \A t \in Tasks : sess[t] <= issued

(* Every session issued has ended, the newest one included. *)
Spent == issued <= endings

(* What makes a new login legitimate, at each place that leads to one: the   *)
(* cached session is gone or expiring, or the broker stopped honouring it,   *)
(* or a task saw the newest session rejected.                                *)
Legitimate ==
    /\ issued <= 1 + endings
    /\ issued > 0 /\ (cached = 0 \/ expiring \/ live = 0) => Spent
    /\ \A t \in Tasks :
          /\ pc[t] \in {"loginSlot", "login"} => cached = 0
          /\ pc[t] \in {"refreshSlot", "refresh"} => Spent
          /\ pc[t] = "evict" /\ sess[t] = issued /\ issued > 0 => Spent

SyncInv == SessionTypeOK /\ LoginIsExclusive /\ SessionsAreIssued /\ Legitimate

LEMMA SyncInvInit == Init => SyncInv
<1> SUFFICES ASSUME Init PROVE SyncInv
  OBVIOUS
<1>1. SessionTypeOK
  BY DEF Init, SessionTypeOK, Labels
<1>2. \A t \in Tasks : pc[t] = "waiting" /\ sess[t] = 0
  BY DEF Init
<1>3. cached = 0 /\ ~expiring /\ issued = 0 /\ live = 0 /\ endings = 0
  BY DEF Init
<1> QED
  BY <1>1, <1>2, <1>3 DEF SyncInv, LoginIsExclusive, SessionsAreIssued, Legitimate,
     Exclusive, Spent

(* What a step of task t leaves alone in the other tasks. *)
OtherTasks(t) == \A u \in Tasks \ {t} : pc'[u] = pc[u] /\ sess'[u] = sess[u]

(* A step that neither takes the lock, nor logs in, nor ends a session. *)
Quiet(t) ==
    /\ UNCHANGED <<auth, broker, endings>>
    /\ pc[t] \notin Exclusive
    /\ \/ \E label \in Labels \ (Exclusive \cup {"evict"}) : Goto(t, label)
       \/ UNCHANGED pc /\ pc[t] # "evict"
    /\ \/ UNCHANGED sess
       \/ sess' = [sess EXCEPT ![t] = 0]

LEMMA QuietSteps ==
    ASSUME NEW t \in Tasks,
           \/ StartSync(t) \/ FindMissing(t) \/ Pause(t) \/ Backoff(t)
           \/ RateLimited(t) \/ CallFails(t) \/ CallAnswers(t)
           \/ PersistDay(t) \/ FinishSync(t) \/ FailSync(t)
    PROVE  Quiet(t)
<1> USE DEF Quiet, Labels, Fault, Trouble, Queue, Exclusive, auth, broker, work, faults
<1>1. CASE StartSync(t) \/ FindMissing(t)
  BY <1>1 DEF StartSync, FindMissing
<1>2. CASE Pause(t) \/ Backoff(t)
  BY <1>2 DEF Pause, Backoff
<1>3. CASE RateLimited(t) \/ CallAnswers(t)
  BY <1>3 DEF RateLimited, CallAnswers
<1>4. CASE CallFails(t)
  BY <1>4 DEF CallFails, AttemptFails, Retry
<1>5. CASE PersistDay(t)
  BY <1>5 DEF PersistDay
<1>6. CASE FinishSync(t) \/ FailSync(t)
  BY <1>6 DEF FinishSync, FailSync
<1> QED
  BY <1>1, <1>2, <1>3, <1>4, <1>5, <1>6

LEMMA QuietPreserves ==
    ASSUME SyncInv, NEW t \in Tasks, Quiet(t)
    PROVE  SyncInv'
<1>1. SessionTypeOK'
  BY DEF SyncInv, SessionTypeOK, Quiet, Goto, auth, broker, Labels
<1>2. /\ OtherTasks(t)
      /\ pc'[t] \notin Exclusive \cup {"evict"} /\ sess'[t] \in {0, sess[t]}
      /\ UNCHANGED <<cached, expiring, authQ, issued, live, endings>>
  BY DEF SyncInv, SessionTypeOK, OtherTasks, Quiet, Goto, auth, broker
<1>3. LoginIsExclusive'
  BY <1>2 DEF SyncInv, LoginIsExclusive, OtherTasks, HoldsAuth
<1>4. SessionsAreIssued'
  BY <1>2 DEF SyncInv, SessionTypeOK, SessionsAreIssued, OtherTasks
<1>5. Legitimate'
  BY <1>2 DEF SyncInv, Legitimate, OtherTasks, Spent, Exclusive
<1> QED
  BY <1>1, <1>3, <1>4, <1>5 DEF SyncInv

(* Waiting for the lock leaves its holder the holder. *)
LEMMA JoinKeepsHolder ==
    ASSUME SessionTypeOK, NEW t \in Tasks, authQ' = Append(authQ, t),
           NEW u \in Tasks, HoldsAuth(u)
    PROVE  HoldsAuth(u)'
<1>1. authQ \in Seq(Tasks) /\ authQ # <<>> /\ Head(authQ) = u
  BY DEF SessionTypeOK, HoldsAuth
<1>2. authQ[1] = u /\ Len(authQ) > 0 /\ Len(authQ) \in Nat
  BY <1>1
<1>3. authQ' \in Seq(Tasks) /\ Len(authQ') = Len(authQ) + 1 /\ authQ'[1] = authQ[1]
  BY <1>1, <1>2
<1>4. authQ' # <<>> /\ Head(authQ') = authQ'[1]
  BY <1>2, <1>3
<1> QED
  BY <1>2, <1>3, <1>4 DEF HoldsAuth

(* Releasing the lock is for its holder, so no other task was logging in. *)
LEMMA HolderIsUnique ==
    ASSUME LoginIsExclusive, NEW t \in Tasks, HoldsAuth(t), NEW u \in Tasks \ {t}
    PROVE  pc[u] \notin Exclusive
BY DEF LoginIsExclusive, HoldsAuth

(* acquire() has returned, or the broker rejected the session: the task      *)
(* queues for the lock.                                                      *)
LEMMA JoinPreserves ==
    ASSUME SyncInv, NEW t \in Tasks, SlotTaken(t) \/ Rejected(t)
    PROVE  SyncInv'
<1>1. /\ authQ' = Append(authQ, t) /\ pc[t] \in {"slot", "call"}
      /\ UNCHANGED <<cached, expiring, issued, live, sess, endings>>
      /\ \/ pc' = [pc EXCEPT ![t] = "session"]
         \/ pc' = [pc EXCEPT ![t] = "evict"] /\ sess[t] # live
  BY DEF SlotTaken, Rejected, Goto, broker, faults
<1>2. SessionTypeOK'
  <2>1. authQ' \in Seq(Tasks)
    BY <1>1 DEF SyncInv, SessionTypeOK
  <2>2. pc' \in [Tasks -> Labels]
    BY <1>1 DEF SyncInv, SessionTypeOK, Labels
  <2> QED
    BY <1>1, <2>1, <2>2 DEF SyncInv, SessionTypeOK
<1>3. OtherTasks(t) /\ pc'[t] \notin Exclusive
  BY <1>1 DEF SyncInv, SessionTypeOK, OtherTasks, Exclusive
<1>4. LoginIsExclusive'
  BY <1>1, <1>3, JoinKeepsHolder DEF SyncInv, LoginIsExclusive, OtherTasks
<1>5. SessionsAreIssued'
  BY <1>1 DEF SyncInv, SessionsAreIssued
<1>6. Legitimate'
  <2>1. ASSUME sess[t] # live, sess[t] = issued, issued > 0 PROVE Spent
    BY <2>1 DEF SyncInv, SessionsAreIssued, Legitimate
  <2> QED
    BY <1>1, <1>3, <2>1 DEF SyncInv, SessionTypeOK, Legitimate, OtherTasks, Spent,
       Exclusive
<1> QED
  BY <1>2, <1>4, <1>5, <1>6 DEF SyncInv

(* get_session() on taking the lock. *)
LEMMA GetSessionPreserves ==
    ASSUME SyncInv, NEW t \in Tasks, GetSession(t)
    PROVE  SyncInv'
<1>1. /\ UNCHANGED <<cached, expiring, issued, live, endings>>
      /\ HoldsAuth(t) /\ pc[t] = "session"
  BY DEF GetSession, broker, faults
<1>2. CASE /\ pc' = [pc EXCEPT ![t] = "call"] /\ sess' = [sess EXCEPT ![t] = cached]
           /\ authQ' = Tail(authQ)
  <2>1. SessionTypeOK'
    BY <1>1, <1>2 DEF SyncInv, SessionTypeOK, HoldsAuth, Labels
  <2>2. OtherTasks(t) /\ pc'[t] = "call" /\ sess'[t] = cached
    BY <1>2 DEF SyncInv, SessionTypeOK, OtherTasks
  <2>3. LoginIsExclusive'
    BY <1>1, <2>2, HolderIsUnique DEF SyncInv, LoginIsExclusive, OtherTasks, Exclusive
  <2>4. SessionsAreIssued'
    BY <1>1, <2>2 DEF SyncInv, SessionTypeOK, SessionsAreIssued, OtherTasks
  <2>5. Legitimate'
    BY <1>1, <2>2 DEF SyncInv, Legitimate, OtherTasks, Spent
  <2> QED
    BY <2>1, <2>3, <2>4, <2>5 DEF SyncInv
<1>3. CASE /\ UNCHANGED <<sess, authQ>>
           /\ \/ cached = 0 /\ pc' = [pc EXCEPT ![t] = "loginSlot"]
              \/ cached # 0 /\ expiring /\ pc' = [pc EXCEPT ![t] = "refreshSlot"]
  <2>1. SessionTypeOK'
    BY <1>1, <1>3 DEF SyncInv, SessionTypeOK, Labels
  <2>2. /\ OtherTasks(t)
        /\ \/ cached = 0 /\ pc'[t] = "loginSlot"
           \/ cached # 0 /\ expiring /\ pc'[t] = "refreshSlot"
    BY <1>3 DEF SyncInv, SessionTypeOK, OtherTasks
  <2>3. LoginIsExclusive'
    BY <1>1, <1>3, <2>2 DEF SyncInv, LoginIsExclusive, OtherTasks, HoldsAuth
  <2>4. SessionsAreIssued'
    BY <1>1, <1>3 DEF SyncInv, SessionsAreIssued
  <2>5. cached # 0 /\ expiring => Spent
    BY DEF SyncInv, SessionTypeOK, SessionsAreIssued, Legitimate
  <2>6. Legitimate'
    BY <1>1, <1>3, <2>2, <2>5 DEF SyncInv, Legitimate, OtherTasks, Spent
  <2> QED
    BY <2>1, <2>3, <2>4, <2>6 DEF SyncInv
<1> QED
  BY <1>2, <1>3 DEF GetSession, Goto, Queue

(* The wait for the limiter inside a login or a refresh. *)
LEMMA LoginSlotPreserves ==
    ASSUME SyncInv, NEW t \in Tasks, LoginSlot(t)
    PROVE  SyncInv'
<1>1. /\ UNCHANGED <<cached, expiring, authQ, issued, live, sess, endings>>
      /\ \/ pc[t] = "loginSlot" /\ pc' = [pc EXCEPT ![t] = "login"]
         \/ pc[t] = "refreshSlot" /\ pc' = [pc EXCEPT ![t] = "refresh"]
  BY DEF LoginSlot, Goto, auth, broker, faults
<1>2. SessionTypeOK'
  BY <1>1 DEF SyncInv, SessionTypeOK, Labels
<1>3. /\ OtherTasks(t)
      /\ \/ pc[t] = "loginSlot" /\ pc'[t] = "login"
         \/ pc[t] = "refreshSlot" /\ pc'[t] = "refresh"
  BY <1>1 DEF SyncInv, SessionTypeOK, OtherTasks
<1>4. LoginIsExclusive'
  BY <1>1, <1>3 DEF SyncInv, LoginIsExclusive, OtherTasks, HoldsAuth, Exclusive
<1>5. SessionsAreIssued'
  BY <1>1 DEF SyncInv, SessionsAreIssued
<1>6. Legitimate'
  BY <1>1, <1>3 DEF SyncInv, Legitimate, OtherTasks, Spent
<1> QED
  BY <1>2, <1>4, <1>5, <1>6 DEF SyncInv

(* A new session, when every one before it has ended. *)
LEMMA IssuePreserves ==
    ASSUME SyncInv, NEW t \in Tasks, Issue(t), pc[t] \in {"login", "refresh"},
           UNCHANGED endings, issued = 0 \/ Spent
    PROVE  SyncInv'
<1>1. HoldsAuth(t)
  BY DEF SyncInv, LoginIsExclusive, Exclusive
<1>2. SessionTypeOK'
  BY <1>1 DEF SyncInv, SessionTypeOK, Issue, Goto, HoldsAuth, Labels
<1>3. OtherTasks(t) /\ pc'[t] = "call" /\ sess'[t] = issued + 1
  BY DEF SyncInv, SessionTypeOK, OtherTasks, Issue, Goto
<1>4. LoginIsExclusive'
  BY <1>1, <1>3, HolderIsUnique DEF SyncInv, LoginIsExclusive, OtherTasks, Exclusive
<1>5. SessionsAreIssued'
  BY <1>3 DEF SyncInv, SessionTypeOK, SessionsAreIssued, OtherTasks, Issue
<1>6. Legitimate'
  <2>1. \A u \in Tasks \ {t} : pc'[u] \notin Exclusive /\ sess'[u] # issued'
    BY <1>1, <1>3, HolderIsUnique DEF SyncInv, SessionTypeOK, SessionsAreIssued,
       OtherTasks, Issue
  <2>2. issued' <= 1 + endings' /\ cached' # 0 /\ ~expiring' /\ live' # 0
    BY DEF SyncInv, SessionTypeOK, Issue, Spent
  <2> QED
    BY <1>3, <2>1, <2>2 DEF Legitimate, Exclusive
<1> QED
  BY <1>2, <1>4, <1>5, <1>6 DEF SyncInv

(* An attempt that gives up the lock without a session: a failed login, or   *)
(* invalidate_if_matches() after a rejection.                                *)
LEMMA ReleasePreserves ==
    ASSUME SyncInv, NEW t \in Tasks, HoldsAuth(t), pc[t] \in {"login", "evict"},
           AttemptFails(t), authQ' = Tail(authQ), UNCHANGED <<issued, live, endings>>,
           \/ UNCHANGED <<cached, expiring>>
           \/ cached' = 0 /\ expiring' = FALSE /\ (issued = 0 \/ Spent)
    PROVE  SyncInv'
<1>1. SessionTypeOK'
  <2>1. pc' \in [Tasks -> Labels] /\ sess' \in [Tasks -> Nat]
    BY DEF SyncInv, SessionTypeOK, AttemptFails, Retry, Goto, Labels
  <2>2. authQ' \in Seq(Tasks) /\ cached' \in Nat
    BY DEF SyncInv, SessionTypeOK, HoldsAuth
  <2> QED
    BY <2>1, <2>2 DEF SyncInv, SessionTypeOK
<1>2. OtherTasks(t) /\ pc'[t] \in {"backoff", "fail"} /\ sess'[t] = 0
  BY DEF SyncInv, SessionTypeOK, OtherTasks, AttemptFails, Retry, Goto
<1>3. \A u \in Tasks : pc'[u] \notin Exclusive
  BY <1>2, HolderIsUnique DEF SyncInv, OtherTasks, Exclusive
<1>4. LoginIsExclusive'
  BY <1>3 DEF LoginIsExclusive
<1>5. SessionsAreIssued'
  BY <1>2 DEF SyncInv, SessionTypeOK, SessionsAreIssued, OtherTasks
<1>6. Legitimate'
  BY <1>2, <1>3 DEF SyncInv, SessionTypeOK, Legitimate, OtherTasks, Spent, Exclusive
<1> QED
  BY <1>1, <1>4, <1>5, <1>6 DEF SyncInv

LEMMA LoginPreserves ==
    ASSUME SyncInv, NEW t \in Tasks, Login(t)
    PROVE  SyncInv'
<1>1. HoldsAuth(t) /\ cached = 0 /\ (issued = 0 \/ Spent) /\ pc[t] = "login"
  BY DEF SyncInv, SessionTypeOK, LoginIsExclusive, Legitimate, Exclusive, Login
<1>2. UNCHANGED endings
  BY DEF Login, faults
<1>3. CASE Issue(t)
  BY <1>1, <1>2, <1>3, IssuePreserves
<1>4. CASE /\ AttemptFails(t) /\ authQ' = Tail(authQ)
           /\ UNCHANGED <<cached, expiring, broker>>
  BY <1>1, <1>2, <1>4, ReleasePreserves DEF broker
<1> QED
  BY <1>3, <1>4 DEF Login

(* _refresh(): a new session, or none and the lock kept for a login. *)
LEMMA RefreshPreserves ==
    ASSUME SyncInv, NEW t \in Tasks, Refresh(t)
    PROVE  SyncInv'
<1>1. HoldsAuth(t) /\ Spent /\ pc[t] = "refresh"
  BY DEF SyncInv, LoginIsExclusive, Legitimate, Exclusive, Refresh
<1>2. UNCHANGED endings
  BY DEF Refresh, faults
<1>3. CASE Issue(t)
  BY <1>1, <1>2, <1>3, IssuePreserves
<1>4. CASE /\ cached' = 0 /\ expiring' = FALSE /\ pc' = [pc EXCEPT ![t] = "loginSlot"]
           /\ UNCHANGED <<authQ, issued, live, sess>>
  <2>1. SessionTypeOK'
    BY <1>2, <1>4 DEF SyncInv, SessionTypeOK, Labels
  <2>2. OtherTasks(t) /\ pc'[t] = "loginSlot"
    BY <1>4 DEF SyncInv, SessionTypeOK, OtherTasks
  <2>3. \A u \in Tasks \ {t} : pc'[u] \notin Exclusive
    BY <1>1, <2>2, HolderIsUnique DEF SyncInv, OtherTasks
  <2>4. LoginIsExclusive'
    BY <1>1, <1>4, <2>3 DEF LoginIsExclusive, HoldsAuth
  <2>5. SessionsAreIssued'
    BY <1>4 DEF SyncInv, SessionTypeOK, SessionsAreIssued
  <2>6. Legitimate'
    BY <1>1, <1>2, <1>4, <2>2, <2>3 DEF SyncInv, Legitimate, OtherTasks, Spent, Exclusive
  <2> QED
    BY <2>1, <2>4, <2>5, <2>6 DEF SyncInv
<1> QED
  BY <1>3, <1>4 DEF Refresh, Queue, Goto, broker

(* A rejected session is dropped only if it is still the cached one. *)
LEMMA EvictPreserves ==
    ASSUME SyncInv, NEW t \in Tasks, Evict(t)
    PROVE  SyncInv'
<1>1. cached = sess[t] => issued = 0 \/ Spent
  BY DEF SyncInv, SessionTypeOK, SessionsAreIssued, Legitimate, Evict
<1>2. UNCHANGED <<issued, live, endings>>
  BY DEF Evict, broker, faults
<1> QED
  BY <1>1, <1>2, ReleasePreserves DEF Evict, Evicts

(* A session ends: another client logs in, or the token nears its expiry. *)
LEMMA EndingPreserves ==
    ASSUME SyncInv, Revoke \/ Expire
    PROVE  SyncInv'
<1>1. /\ UNCHANGED <<cached, authQ, issued, pc, sess>>
      /\ endings' = endings + 1
      /\ \/ live' = 0 /\ UNCHANGED expiring
         \/ expiring' = TRUE /\ UNCHANGED live
  BY DEF Revoke, Expire, auth, broker
<1>2. SessionTypeOK'
  BY <1>1 DEF SyncInv, SessionTypeOK, Labels
<1>3. LoginIsExclusive'
  BY <1>1 DEF SyncInv, LoginIsExclusive, HoldsAuth
<1>4. SessionsAreIssued'
  BY <1>1 DEF SyncInv, SessionsAreIssued
<1>5. Spent'
  BY <1>1 DEF SyncInv, SessionTypeOK, Legitimate, Spent
<1>6. Legitimate'
  BY <1>1, <1>2, <1>5 DEF SyncInv, SessionTypeOK, Legitimate, Spent
<1> QED
  BY <1>2, <1>3, <1>4, <1>6 DEF SyncInv

LEMMA SyncInvStep == SyncInv /\ [Next]_vars => SyncInv'
<1> SUFFICES ASSUME SyncInv, [Next]_vars PROVE SyncInv'
  OBVIOUS
<1>1. ASSUME NEW t \in Tasks, TaskStep(t) PROVE SyncInv'
  BY <1>1, QuietSteps, QuietPreserves, JoinPreserves, GetSessionPreserves,
     LoginSlotPreserves, LoginPreserves, RefreshPreserves, EvictPreserves DEF TaskStep
<1>2. CASE CooldownEnds \/ AllEnded \/ UNCHANGED vars
  <2>1. UNCHANGED <<cached, expiring, authQ, issued, live, pc, sess, endings>>
    BY <1>2 DEF CooldownEnds, AllEnded, vars, auth, broker, faults
  <2> QED
    BY <2>1 DEF SyncInv, SessionTypeOK, LoginIsExclusive, SessionsAreIssued, Legitimate,
       Spent, HoldsAuth
<1>3. CASE Revoke \/ Expire
  BY <1>3, EndingPreserves
<1> QED
  BY <1>1, <1>2, <1>3 DEF Next

(* Every login under way is for a session that has ended, and the lock is    *)
(* held from the decision to the new session (auth.py: get_session).         *)
THEOREM SyncInvariant == Spec => []SyncInv
BY SyncInvInit, SyncInvStep, PTL DEF Spec

(* The client logs in at most once more than sessions ended, for any number  *)
(* of tasks that see them rejected (AngelOneAuth: get_session under its lock,*)
(* invalidate_if_matches).                                                   *)
THEOREM LoginsFollowEndings == Spec => []OneLoginPerEnding
<1>1. SyncInv => OneLoginPerEnding
  BY DEF SyncInv, Legitimate, OneLoginPerEnding
<1> QED
  BY <1>1, SyncInvariant, PTL

(* A login or a refresh is never interrupted by another task's: the lock is  *)
(* held from the decision to the new session.                                *)
THEOREM OneTaskLogsIn ==
    Spec => [](\A t, u \in Tasks : pc[t] \in Exclusive /\ pc[u] \in Exclusive => t = u)
<1>1. SyncInv => \A t, u \in Tasks : pc[t] \in Exclusive /\ pc[u] \in Exclusive => t = u
  BY DEF SyncInv, LoginIsExclusive, HoldsAuth
<1> QED
  BY <1>1, SyncInvariant, PTL

-----------------------------------------------------------------------------
(* The attempts of a task are paid for by troubles: what it has used, and    *)
(* the attempts it is bound to lose to sessions that have ended already.     *)

One(p) == IF p THEN 1 ELSE 0

(* The session the task holds was refused by the broker, or will be.         *)
Doomed(t) == sess[t] # 0 /\ (sess[t] # live \/ sess[t] # cached \/ expiring)
(* The session it would get next was.                                        *)
StaleCache(t) == cached # 0 /\ cached # live /\ cached # sess[t]
Cost(t) == attempt[t] + One(pc[t] = "pause") + One(Doomed(t)) + One(StaleCache(t))

Affordable(t) ==
    /\ (sess[t] # 0) <=> pc[t] \in {"call", "evict"}
    /\ pc[t] = "evict" => sess[t] # live
    /\ pc[t] \in {"refreshSlot", "refresh"} => expiring
    /\ Cost(t) <= 1 + troubles
    /\ pc[t] \in {"fail", "failed"} => troubles >= MaxRetries \/ t \in outage

CostInv ==
    /\ attempt \in [Tasks -> 1 .. MaxRetries] /\ troubles \in Nat
    /\ \A t \in Tasks : Affordable(t)

LEMMA CostInvInit == Init => CostInv
BY SyncAssumption DEF Init, CostInv, Affordable, Cost, One, Doomed, StaleCache

(* A step of t that keeps the session cache and the broker's session costs   *)
(* the other tasks nothing.                                                  *)
Local(t) ==
    /\ UNCHANGED <<cached, expiring, live>>
    /\ \A u \in Tasks \ {t} : pc'[u] = pc[u] /\ sess'[u] = sess[u]
    /\ attempt' \in [Tasks -> 1 .. MaxRetries]
    /\ \A u \in Tasks \ {t} : attempt'[u] = attempt[u]
    /\ troubles' \in {troubles, troubles + 1}
    /\ outage \subseteq outage'

LEMMA LocalPreserves ==
    ASSUME CostInv, NEW t \in Tasks, Local(t), Affordable(t)'
    PROVE  CostInv'
<1>1. ASSUME NEW u \in Tasks \ {t} PROVE Affordable(u)'
  <2>1. /\ UNCHANGED <<cached, expiring, live>>
        /\ pc'[u] = pc[u] /\ sess'[u] = sess[u] /\ attempt'[u] = attempt[u]
    BY DEF Local
  <2>2. Cost(u)' = Cost(u)
    BY <2>1 DEF Cost, One, Doomed, StaleCache
  <2>3. /\ Cost(u) <= 1 + troubles /\ Cost(u) \in Int
        /\ troubles \in Nat /\ troubles' \in {troubles, troubles + 1}
    BY DEF CostInv, Affordable, Local, Cost, One
  <2>4. Cost(u)' <= 1 + troubles'
    BY <2>2, <2>3
  <2>5. pc'[u] \in {"fail", "failed"} => troubles' >= MaxRetries \/ u \in outage'
    BY <2>1, <2>3, SyncAssumption DEF CostInv, Affordable, Local
  <2> QED
    BY <2>1, <2>4, <2>5 DEF CostInv, Affordable
<1> QED
  BY <1>1 DEF CostInv, Local

(* Steps that neither use an attempt nor touch a session. *)
LEMMA IdlePreserves ==
    ASSUME SyncInv, CostInv, NEW t \in Tasks,
           \/ StartSync(t) \/ FindMissing(t) \/ Backoff(t) \/ SlotTaken(t)
           \/ PersistDay(t) \/ FinishSync(t) \/ FailSync(t) \/ LoginSlot(t)
    PROVE  CostInv'
<1> USE DEF Fault, Trouble, Queue, Goto, auth, broker, work, faults
<1>1. /\ UNCHANGED <<cached, expiring, live, sess, attempt>>
      /\ troubles' \in {troubles, troubles + 1} /\ outage \subseteq outage'
      /\ \A u \in Tasks \ {t} : pc'[u] = pc[u]
      /\ pc[t] \notin {"call", "evict", "pause"} /\ pc'[t] \notin {"call", "evict", "pause"}
      /\ pc'[t] \in {"refreshSlot", "refresh"} => pc[t] \in {"refreshSlot", "refresh"}
      /\ pc'[t] \in {"fail", "failed"} => t \in outage' \/ pc[t] = "fail"
  <2> USE DEF SyncInv, SessionTypeOK
  <2>1. CASE StartSync(t)
    BY <2>1 DEF StartSync
  <2>2. CASE FindMissing(t)
    BY <2>2 DEF FindMissing
  <2>3. CASE Backoff(t) \/ SlotTaken(t) \/ LoginSlot(t)
    BY <2>3 DEF Backoff, SlotTaken, LoginSlot
  <2>4. CASE PersistDay(t)
    BY <2>4 DEF PersistDay
  <2>5. CASE FinishSync(t)
    BY <2>5 DEF FinishSync
  <2>6. CASE FailSync(t)
    BY <2>6 DEF FailSync
  <2> QED
    BY <2>1, <2>2, <2>3, <2>4, <2>5, <2>6
<1>2. Local(t)
  BY <1>1 DEF CostInv, Local
<1>3. Affordable(t)'
  <2>1. Cost(t)' = Cost(t)
    BY <1>1 DEF Cost, One, Doomed, StaleCache
  <2>2. /\ Cost(t)' <= 1 + troubles'
        /\ pc[t] = "fail" => troubles' >= MaxRetries \/ t \in outage'
    BY <1>1, <2>1, SyncAssumption DEF CostInv, Affordable, Cost, One
  <2> QED
    BY <1>1, <2>2 DEF CostInv, Affordable
<1> QED
  BY <1>2, <1>3, LocalPreserves

(* One attempt more, or none: within the range, and of t only. *)
LEMMA AttemptCounts ==
    ASSUME CostInv, NEW t \in Tasks,
           \/ attempt[t] < MaxRetries /\ attempt' = [attempt EXCEPT ![t] = @ + 1]
           \/ attempt' = attempt
    PROVE  /\ attempt' \in [Tasks -> 1 .. MaxRetries]
           /\ \A u \in Tasks \ {t} : attempt'[u] = attempt[u]
<1>1. attempt \in [Tasks -> 1 .. MaxRetries] /\ attempt[t] \in 1 .. MaxRetries
  BY DEF CostInv
<1>2. CASE attempt[t] < MaxRetries /\ attempt' = [attempt EXCEPT ![t] = @ + 1]
  <2>1. attempt[t] + 1 \in 1 .. MaxRetries
    BY <1>1, <1>2, SyncAssumption
  <2> QED
    BY <1>1, <1>2, <2>1
<1>3. CASE attempt' = attempt
  BY <1>1, <1>3
<1> QED
  BY <1>2, <1>3

(* An attempt is used: one of what it cost has been charged already.         *)
LEMMA AttemptIsPaid ==
    ASSUME SyncInv, CostInv, NEW t \in Tasks, AttemptFails(t),
           cached' \in {0, cached}, live' = live, troubles' \in {troubles, troubles + 1},
           attempt[t] + One(StaleCache(t)') <= troubles', outage' = outage
    PROVE  Affordable(t)'
<1>1. /\ sess'[t] = 0 /\ pc'[t] \in {"backoff", "fail"}
      /\ \/ attempt'[t] = attempt[t] + 1 /\ pc'[t] = "backoff"
         \/ attempt'[t] = attempt[t] /\ attempt[t] = MaxRetries /\ pc'[t] = "fail"
  BY SyncAssumption DEF SyncInv, SessionTypeOK, CostInv, AttemptFails, Retry, Goto
<1>2. Cost(t)' = attempt'[t] + One(StaleCache(t)')
  BY <1>1 DEF Cost, One, Doomed, CostInv
<1>3. attempt[t] \in Nat /\ troubles' \in Nat /\ One(StaleCache(t)') \in {0, 1}
  BY SyncAssumption DEF CostInv, One
<1> HIDE DEF One
<1> QED
  BY <1>1, <1>2, <1>3, SyncAssumption DEF Affordable

(* An answer of the broker, or none: what is charged is a trouble. *)
LEMMA CallPreserves ==
    ASSUME SyncInv, CostInv, NEW t \in Tasks,
           Pause(t) \/ RateLimited(t) \/ CallFails(t) \/ CallAnswers(t)
    PROVE  CostInv'
<1> USE DEF Trouble, Queue, Goto, auth, broker, work, faults, SyncInv, SessionTypeOK
<1>0. /\ attempt \in [Tasks -> 1 .. MaxRetries] /\ troubles \in Nat /\ Affordable(t)
      /\ attempt[t] \in 1 .. MaxRetries /\ MaxRetries \in Nat
  BY SyncAssumption DEF CostInv
<1>1. CASE Pause(t)
  <2>0. \/ attempt[t] < MaxRetries /\ attempt' = [attempt EXCEPT ![t] = @ + 1]
        \/ attempt' = attempt
    BY <1>1 DEF Pause
  <2>1. Local(t)
    BY <1>0, <1>1, <2>0, AttemptCounts DEF Local, Pause
  <2>2. /\ sess'[t] = 0 /\ StaleCache(t)' = StaleCache(t) /\ troubles' = troubles
        /\ pc[t] = "pause" /\ sess[t] = 0
    BY <1>0, <1>1 DEF Pause, StaleCache, Affordable
  <2>3. \/ attempt'[t] = attempt[t] + 1 /\ pc'[t] = "slot"
        \/ attempt'[t] = MaxRetries /\ attempt[t] = MaxRetries /\ pc'[t] = "fail"
    BY <1>0, <1>1 DEF Pause
  <2>4. Affordable(t)'
    BY <1>0, <2>2, <2>3 DEF Affordable, Cost, One, Doomed
  <2> QED
    BY <2>1, <2>4, LocalPreserves
<1>2. CASE RateLimited(t)
  <2>1. Local(t)
    BY <1>0, <1>2 DEF Local, RateLimited
  <2>2. /\ sess'[t] = 0 /\ pc'[t] = "pause" /\ attempt'[t] = attempt[t]
        /\ troubles' = troubles + 1 /\ pc[t] = "call"
        /\ UNCHANGED <<cached, live, expiring>>
    BY <1>2 DEF RateLimited
  <2>3. Affordable(t)'
    BY <1>0, <2>2 DEF Affordable, Cost, One, Doomed, StaleCache
  <2> QED
    BY <2>1, <2>3, LocalPreserves
<1>3. CASE CallFails(t)
  <2>0. \/ attempt[t] < MaxRetries /\ attempt' = [attempt EXCEPT ![t] = @ + 1]
        \/ attempt' = attempt
    BY <1>3 DEF CallFails, AttemptFails, Retry
  <2>1. Local(t)
    BY <1>0, <1>3, <2>0, AttemptCounts DEF Local, CallFails, AttemptFails, Retry
  <2>2. /\ AttemptFails(t) /\ pc[t] = "call" /\ troubles' = troubles + 1 /\ outage' = outage
        /\ UNCHANGED <<cached, live>> /\ sess'[t] = 0
    BY <1>3 DEF CallFails, AttemptFails
  <2>3. attempt[t] + One(StaleCache(t)') <= troubles'
    BY <1>0, <2>2 DEF Affordable, Cost, One, Doomed, StaleCache
  <2> QED
    BY <2>1, <2>2, <2>3, AttemptIsPaid, LocalPreserves
<1>4. CASE CallAnswers(t)
  <2>1. Local(t)
    BY <1>0, <1>4 DEF Local, CallAnswers
  <2>2. /\ sess'[t] = 0 /\ pc'[t] \in {"persist", "slot"} /\ attempt'[t] = 1
        /\ sess[t] = live /\ troubles' = troubles /\ UNCHANGED <<cached, live, expiring>>
    BY <1>0, <1>4 DEF CallAnswers
  <2>3. cached # 0 /\ cached # live => cached # sess[t]
    BY <2>2
  <2>4. ~Doomed(t)' /\ (StaleCache(t)' => StaleCache(t)) /\ Cost(t)' <= 1 + One(StaleCache(t))
    BY <2>2, <2>3 DEF Cost, One, Doomed, StaleCache
  <2>5. Cost(t) <= 1 + troubles /\ attempt[t] \in Nat \ {0} /\ Cost(t)' <= Cost(t)
    BY <1>0, <2>2, <2>4 DEF Affordable, Cost, One
  <2>6. Cost(t)' <= 1 + troubles'
    BY <1>0, <2>2, <2>4, <2>5 DEF Cost, One
  <2> QED
    BY <2>1, <2>2, <2>6, LocalPreserves DEF Affordable
<1> QED
  BY <1>1, <1>2, <1>3, <1>4

(* Taking the cached session, or seeing it refused, moves what is charged.   *)
LEMMA TakePreserves ==
    ASSUME SyncInv, CostInv, NEW t \in Tasks, GetSession(t) \/ Rejected(t)
    PROVE  CostInv'
<1> USE DEF Queue, Goto, auth, broker, work, faults, SyncInv, SessionTypeOK
<1>0. /\ attempt \in [Tasks -> 1 .. MaxRetries] /\ troubles \in Nat /\ Affordable(t)
      /\ attempt[t] \in 1 .. MaxRetries /\ MaxRetries \in Nat
  BY SyncAssumption DEF CostInv
<1>1. Local(t)
  BY <1>0 DEF Local, GetSession, Rejected
<1>2. CASE GetSession(t)
  <2>1. /\ pc[t] = "session" /\ UNCHANGED <<cached, live, expiring, troubles>>
        /\ attempt'[t] = attempt[t]
        /\ \/ cached # 0 /\ ~expiring /\ pc'[t] = "call" /\ sess'[t] = cached
           \/ pc'[t] = "loginSlot" /\ sess'[t] = sess[t]
           \/ expiring /\ pc'[t] = "refreshSlot" /\ sess'[t] = sess[t]
    BY <1>2 DEF GetSession
  <2>2. sess[t] = 0 /\ Cost(t) <= 1 + troubles
    BY <1>0, <2>1 DEF Affordable
  <2>3. Cost(t)' = Cost(t)
    <3>1. CASE cached # 0 /\ ~expiring /\ pc'[t] = "call" /\ sess'[t] = cached
      <4>1. ~Doomed(t) /\ ~StaleCache(t)' /\ (Doomed(t)' <=> StaleCache(t))
        BY <2>1, <2>2, <3>1 DEF Doomed, StaleCache
      <4>2. One(Doomed(t)) = 0 /\ One(StaleCache(t)') = 0
        BY <4>1 DEF One
      <4>3. One(Doomed(t)') = One(StaleCache(t)) /\ One(StaleCache(t)) \in Int
        BY <4>1 DEF One
      <4> QED
        BY <1>0, <2>1, <3>1, <4>2, <4>3 DEF Cost, One
    <3>2. CASE pc'[t] \in {"loginSlot", "refreshSlot"} /\ sess'[t] = sess[t]
      BY <2>1, <2>2, <3>2 DEF Cost, One, Doomed, StaleCache
    <3> QED
      BY <2>1, <3>1, <3>2
  <2>4. Affordable(t)'
    BY <1>0, <2>1, <2>2, <2>3 DEF Affordable
  <2> QED
    BY <1>1, <2>4, LocalPreserves
<1>3. CASE Rejected(t)
  <2>1. /\ pc[t] = "call" /\ pc'[t] = "evict" /\ sess[t] # live
        /\ UNCHANGED <<cached, live, expiring, troubles, sess, attempt>>
    BY <1>3 DEF Rejected
  <2> QED
    BY <1>0, <1>1, <2>1, LocalPreserves DEF Affordable, Cost, One, Doomed, StaleCache
<1> QED
  BY <1>2, <1>3

(* A new session: the ones the other tasks hold were doomed before it. *)
LEMMA IssueCosts ==
    ASSUME SyncInv, CostInv, NEW t \in Tasks, Issue(t),
           pc[t] \in {"login", "refresh"}, UNCHANGED <<attempt, troubles, outage>>
    PROVE  CostInv'
<1>1. cached = 0 \/ expiring
  BY DEF SyncInv, Legitimate, CostInv, Affordable
<1>2. issued \in Nat /\ live \in {0, issued} /\ cached \in {0, issued}
  BY DEF SyncInv, SessionTypeOK, SessionsAreIssued
<1>3. ASSUME NEW u \in Tasks PROVE Affordable(u)'
  <2>0. /\ Affordable(u) /\ attempt[u] \in Nat /\ troubles \in Nat /\ sess[u] \in Nat
        /\ sess[u] <= issued
    BY SyncAssumption DEF CostInv, SyncInv, SessionTypeOK, SessionsAreIssued
  <2>1. CASE u = t
    <3>1. /\ pc'[u] = "call" /\ sess'[u] = issued + 1
          /\ cached' = issued + 1 /\ live' = issued + 1 /\ ~expiring'
      BY <2>1 DEF Issue, Goto, SyncInv, SessionTypeOK
    <3> QED
      BY <1>2, <2>0, <3>1 DEF Affordable, Cost, One, Doomed, StaleCache
  <2>2. CASE u # t
    <3>1. /\ pc'[u] = pc[u] /\ sess'[u] = sess[u] /\ pc[u] \notin Exclusive
          /\ cached' = issued + 1 /\ live' = issued + 1 /\ ~expiring'
      <4>1. HoldsAuth(t)
        BY DEF SyncInv, LoginIsExclusive, Exclusive
      <4> QED
        BY <2>2, <4>1, HolderIsUnique DEF Issue, Goto, SyncInv, SessionTypeOK
    <3>2. Doomed(u)' => Doomed(u)
      BY <1>1, <2>0, <3>1 DEF Doomed
    <3>3. ~StaleCache(u)'
      BY <1>2, <3>1 DEF StaleCache
    <3>4. Cost(u)' <= 1 + troubles'
      BY <2>0, <3>1, <3>2, <3>3 DEF Affordable, Cost, One
    <3>5. pc'[u] = "evict" => sess'[u] # live'
      BY <1>2, <2>0, <3>1
    <3> QED
      BY <2>0, <3>1, <3>4, <3>5 DEF Affordable, Exclusive
  <2> QED
    BY <2>1, <2>2
<1> QED
  BY <1>3 DEF CostInv

(* The cache is emptied, of a session that was stale or expiring. *)
LEMMA EmptyingCosts ==
    ASSUME SyncInv, CostInv, NEW t \in Tasks, HoldsAuth(t),
           \A u \in Tasks \ {t} : /\ pc'[u] = pc[u] /\ sess'[u] = sess[u]
                                  /\ attempt'[u] = attempt[u],
           cached' = 0, expiring' = FALSE, live' = live, outage' = outage,
           troubles' \in {troubles, troubles + 1},
           cached = 0 \/ cached # live \/ expiring
    PROVE  \A u \in Tasks \ {t} : Affordable(u)'
<1>1. SUFFICES ASSUME NEW u \in Tasks \ {t} PROVE Affordable(u)'
  OBVIOUS
<1>2. /\ Affordable(u) /\ attempt[u] \in Nat /\ troubles \in Nat /\ sess[u] \in Nat
      /\ pc[u] \notin Exclusive
  BY SyncAssumption, HolderIsUnique DEF CostInv, SyncInv, SessionTypeOK
<1>3. Doomed(u)' => Doomed(u)
  BY <1>1, <1>2 DEF Doomed
<1>4. ~StaleCache(u)'
  BY DEF StaleCache
<1>5. Cost(u)' <= 1 + troubles'
  BY <1>2, <1>3, <1>4 DEF Affordable, Cost, One
<1> QED
  BY <1>2, <1>5, SyncAssumption DEF Affordable, Exclusive

LEMMA LoginCosts ==
    ASSUME SyncInv, CostInv, NEW t \in Tasks, Login(t)
    PROVE  CostInv'
<1> USE DEF Trouble, Goto, auth, broker, work, faults
<1>0. /\ attempt \in [Tasks -> 1 .. MaxRetries] /\ troubles \in Nat /\ Affordable(t)
      /\ attempt[t] \in 1 .. MaxRetries /\ MaxRetries \in Nat
  BY SyncAssumption DEF CostInv
<1>1. CASE Issue(t) /\ UNCHANGED <<attempt, faults>>
  BY <1>1, IssueCosts DEF Login
<1>2. CASE /\ AttemptFails(t) /\ Trouble /\ UNCHANGED <<outage, endings>>
           /\ UNCHANGED <<cached, expiring, broker>>
  <2>0. \/ attempt[t] < MaxRetries /\ attempt' = [attempt EXCEPT ![t] = @ + 1]
        \/ attempt' = attempt
    BY <1>2 DEF AttemptFails, Retry
  <2>1. Local(t)
    BY <1>0, <1>2, <2>0, AttemptCounts DEF Local, AttemptFails, Retry, SyncInv,
       SessionTypeOK
  <2>2. cached = 0 /\ cached' = 0 /\ pc[t] = "login"
    BY <1>2 DEF SyncInv, Legitimate, Login
  <2>3. attempt[t] + One(StaleCache(t)') <= troubles'
    BY <1>0, <1>2, <2>2 DEF Affordable, Cost, One, StaleCache
  <2> QED
    BY <1>2, <2>1, <2>3, AttemptIsPaid, LocalPreserves
<1> QED
  BY <1>1, <1>2 DEF Login

LEMMA RefreshCosts ==
    ASSUME SyncInv, CostInv, NEW t \in Tasks, Refresh(t)
    PROVE  CostInv'
<1> USE DEF Trouble, Queue, Goto, auth, broker, work, faults
<1>0. /\ attempt \in [Tasks -> 1 .. MaxRetries] /\ troubles \in Nat /\ Affordable(t)
      /\ attempt[t] \in 1 .. MaxRetries /\ MaxRetries \in Nat
  BY SyncAssumption DEF CostInv
<1>1. CASE Issue(t) /\ UNCHANGED faults
  BY <1>1, IssueCosts DEF Refresh
<1>2. CASE /\ cached' = 0 /\ expiring' = FALSE /\ pc' = [pc EXCEPT ![t] = "loginSlot"]
           /\ UNCHANGED <<live, sess, attempt, outage>>
           /\ troubles' \in {troubles, troubles + 1}
  <2>1. HoldsAuth(t) /\ expiring /\ pc[t] = "refresh"
    BY DEF SyncInv, LoginIsExclusive, Exclusive, CostInv, Affordable, Refresh
  <2>2. \A u \in Tasks \ {t} : Affordable(u)'
    BY <1>2, <2>1, EmptyingCosts DEF SyncInv, SessionTypeOK
  <2>3. /\ sess'[t] = 0 /\ sess[t] = 0 /\ pc'[t] = "loginSlot" /\ attempt'[t] = attempt[t]
    BY <1>0, <1>2, <2>1 DEF Affordable, SyncInv, SessionTypeOK
  <2>4. Affordable(t)'
    BY <1>0, <1>2, <2>1, <2>3 DEF Affordable, Cost, One, Doomed, StaleCache
  <2> QED
    BY <1>0, <1>2, <2>2, <2>4 DEF CostInv
<1> QED
  BY <1>1, <1>2 DEF Refresh

LEMMA EvictCosts ==
    ASSUME SyncInv, CostInv, NEW t \in Tasks, Evict(t)
    PROVE  CostInv'
<1> USE DEF Goto, auth, broker, work, faults
<1>0. /\ attempt \in [Tasks -> 1 .. MaxRetries] /\ troubles \in Nat /\ Affordable(t)
      /\ attempt[t] \in 1 .. MaxRetries /\ MaxRetries \in Nat
  BY SyncAssumption DEF CostInv
<1>4. \/ attempt[t] < MaxRetries /\ attempt' = [attempt EXCEPT ![t] = @ + 1]
      \/ attempt' = attempt
  BY DEF Evict, AttemptFails, Retry
<1>1. /\ pc[t] = "evict" /\ HoldsAuth(t) /\ AttemptFails(t) /\ sess'[t] = 0
      /\ UNCHANGED <<live, troubles, outage>>
      /\ \A u \in Tasks \ {t} : /\ pc'[u] = pc[u] /\ sess'[u] = sess[u]
                                /\ attempt'[u] = attempt[u]
      /\ attempt' \in [Tasks -> 1 .. MaxRetries]
  BY <1>0, <1>4, AttemptCounts DEF Evict, AttemptFails, Retry, SyncInv, SessionTypeOK
<1>2. CASE cached = sess[t]
  <2>1. cached' = 0 /\ expiring' = FALSE /\ cached # live
    BY <1>0, <1>1, <1>2 DEF Evict, Evicts, Affordable
  <2>2. attempt[t] + One(StaleCache(t)') <= troubles'
    BY <1>0, <1>1, <2>1 DEF Affordable, Cost, One, Doomed, StaleCache
  <2>3. Affordable(t)'
    BY <1>1, <2>1, <2>2, AttemptIsPaid
  <2>4. \A u \in Tasks \ {t} : Affordable(u)'
    BY <1>1, <2>1, EmptyingCosts
  <2> QED
    BY <1>0, <1>1, <2>3, <2>4 DEF CostInv
<1>3. CASE cached # sess[t]
  <2>1. UNCHANGED <<cached, expiring>>
    BY <1>3 DEF Evict, Evicts
  <2>2. Local(t)
    BY <1>0, <1>1, <2>1 DEF Local
  <2>3. attempt[t] + One(StaleCache(t)') <= troubles'
    BY <1>0, <1>1, <1>3, <2>1 DEF Affordable, Cost, One, Doomed, StaleCache
  <2> QED
    BY <1>1, <2>1, <2>2, <2>3, AttemptIsPaid, LocalPreserves
<1> QED
  BY <1>2, <1>3

(* A session that ends dooms it where it is held or cached, never both: the  *)
(* one trouble pays.                                                         *)
LEMMA EndingCosts ==
    ASSUME SyncInv, CostInv, Revoke \/ Expire
    PROVE  CostInv'
<1> USE DEF Trouble, auth, broker, work, faults
<1>1. /\ UNCHANGED <<cached, pc, sess, attempt, outage>> /\ troubles' = troubles + 1
      /\ \/ live' = 0 /\ live # 0 /\ UNCHANGED expiring
         \/ expiring' = TRUE /\ UNCHANGED live
  BY DEF Revoke, Expire
<1>2. ASSUME NEW u \in Tasks PROVE Affordable(u)'
  <2>1. Affordable(u) /\ attempt[u] \in Nat /\ troubles \in Nat
    BY SyncAssumption DEF CostInv
  <2>2. One(Doomed(u)') + One(StaleCache(u)') <= 1 + One(Doomed(u)) + One(StaleCache(u))
    BY <1>1 DEF One, Doomed, StaleCache, SyncInv, SessionsAreIssued
  <2>3. Cost(u)' <= 1 + troubles'
    BY <1>1, <2>1, <2>2 DEF Affordable, Cost, One
  <2> QED
    BY <1>1, <2>1, <2>3, SyncAssumption DEF Affordable
<1> QED
  BY <1>1, <1>2 DEF CostInv

LEMMA CostInvStep == SyncInv /\ CostInv /\ [Next]_vars => CostInv'
<1> SUFFICES ASSUME SyncInv, CostInv, [Next]_vars PROVE CostInv'
  OBVIOUS
<1>1. ASSUME NEW t \in Tasks, TaskStep(t) PROVE CostInv'
  BY <1>1, IdlePreserves, CallPreserves, TakePreserves, LoginCosts, RefreshCosts,
     EvictCosts DEF TaskStep
<1>2. CASE CooldownEnds \/ AllEnded \/ UNCHANGED vars
  <2>1. UNCHANGED <<cached, expiring, live, pc, sess, attempt, troubles, outage>>
    BY <1>2 DEF CooldownEnds, AllEnded, vars, auth, broker, work, faults
  <2> QED
    BY <2>1 DEF CostInv, Affordable, Cost, One, Doomed, StaleCache
<1>3. CASE Revoke \/ Expire
  BY <1>3, EndingCosts
<1> QED
  BY <1>1, <1>2, <1>3 DEF Next

(* What a task has lost and is bound to lose is paid for by the troubles so  *)
(* far (historical_data_service.py: _fetch_chunk).                           *)
THEOREM CostInvariant == Spec => []CostInv
<1>1. Init => SyncInv /\ CostInv
  BY SyncInvInit, CostInvInit
<1>2. (SyncInv /\ CostInv) /\ [Next]_vars => (SyncInv /\ CostInv)'
  BY SyncInvStep, CostInvStep
<1> QED
  BY <1>1, <1>2, PTL DEF Spec

(* A sync fails only after as many troubles as a chunk has attempts, or when *)
(* the database failed it, for any number of tasks, attempts and troubles:   *)
(* one revocation never costs a task two attempts (_fetch_chunk, get_session *)
(* and invalidate_if_matches).                                               *)
THEOREM SessionsSurviveRevocation == Spec => []RevocationIsSurvived
<1>1. CostInv => RevocationIsSurvived
  BY DEF CostInv, Affordable, RevocationIsSurvived
<1> QED
  BY <1>1, CostInvariant, PTL

-----------------------------------------------------------------------------
(* The chunks cover every missing day                                       *)

(* Induction over a finite set, stated with the set of the subsets that have *)
(* the property: the smallest subset without it would have a smaller one.    *)
LEMMA FiniteInduction ==
    ASSUME NEW S, IsFiniteSet(S), NEW G, {} \in G,
           \A T \in SUBSET S : \A x \in S \ T : T \in G => T \cup {x} \in G
    PROVE  S \in G
<1> DEFINE Bad == {T \in SUBSET S : T \notin G}
<1>1. SUFFICES ASSUME S \notin G PROVE FALSE
  OBVIOUS
<1>2. Bad \subseteq FiniteSubsetsOf(S) /\ Bad # {}
  BY <1>1, FS_Subset DEF FiniteSubsetsOf
<1>3. PICK U \in Bad : \A V \in Bad : ~(<<V, U>> \in StrictSubsetOrdering(S))
  <2> HIDE DEF Bad
  <2> QED
    BY <1>2, FS_StrictSubsetOrderingWellFounded, WFMin
<1>4. PICK x \in U : TRUE
  OBVIOUS
<1>5. U \ {x} \in G
  <2>1. <<U \ {x}, U>> \in StrictSubsetOrdering(S)
    BY <1>4 DEF StrictSubsetOrdering
  <2> QED
    BY <1>3, <2>1
<1>6. (U \ {x}) \cup {x} = U
  BY <1>4
<1> QED
  BY <1>4, <1>5, <1>6

(* Every missing day lies between the first and the last of them.            *)
LEMMA MissingIsBetween ==
    ASSUME NEW S \in SUBSET Days, NEW d \in S
    PROVE  Min(S) <= d /\ d <= Max(S)
<1> DEFINE Least    == {T \in SUBSET S : T = {} \/ \E x \in T : \A y \in T : x <= y}
           Greatest == {T \in SUBSET S : T = {} \/ \E x \in T : \A y \in T : x >= y}
<1>1. IsFiniteSet(S) /\ S \subseteq Nat
  <2>1. IsFiniteSet(1..LastDay)
    BY SyncAssumption, FS_Interval
  <2>2. IsFiniteSet(S)
    BY <2>1, FS_Subset DEF Days
  <2> QED
    BY <2>2, SyncAssumption DEF Days
<1>2. \A T \in SUBSET S : \A x \in S \ T : T \in Least => T \cup {x} \in Least
  BY <1>1
<1>3. \A T \in SUBSET S : \A x \in S \ T : T \in Greatest => T \cup {x} \in Greatest
  BY <1>1
<1>4. {} \in Least /\ {} \in Greatest
  OBVIOUS
<1>5. S \in Least /\ S \in Greatest
  <2> HIDE DEF Least, Greatest
  <2> QED
    BY <1>1, <1>2, <1>3, <1>4, FiniteInduction
<1>6. \E x \in S : \A y \in S : x <= y
  BY <1>5
<1>7. \E x \in S : \A y \in S : x >= y
  BY <1>5
<1> QED
  BY <1>6, <1>7 DEF Min, Max

Fetching == {"slot", "session", "loginSlot", "login", "refreshSlot", "refresh", "call",
             "evict", "pause", "backoff"}

(* A traded day that no bucket holds is missing while the task fetches, and  *)
(* in memory when it stores; the log is final in the places that end a sync. *)
GapInv(t) ==
    /\ pc[t] \in Fetching => Traded \ stored[SymbolOf[t]] \subseteq missing[t]
    /\ pc[t] = "persist" => Traded \subseteq stored[SymbolOf[t]] \cup fetched[t]
    /\ log[t] \in {"SUCCESS", "SKIPPED"} =>
          pc[t] = "done" /\ Traded \subseteq stored[SymbolOf[t]]
    /\ pc[t] = "failed" /\ t \notin outage => log[t] = "FAILED"

LogInv ==
    /\ DOMAIN stored = Symbols
    /\ missing \in [Tasks -> SUBSET Days] /\ DOMAIN fetched = Tasks
    /\ DOMAIN log = Tasks
    /\ \A t \in Tasks : GapInv(t)

LEMMA LogInvInit == Init => LogInv
BY DEF Init, LogInv, GapInv, Fetching

(* No bucket is ever removed: what a task stores never widens another's gap. *)
OtherLogs(t) ==
    /\ DOMAIN stored' = Symbols
    /\ \A s \in Symbols : stored[s] \subseteq stored'[s]
    /\ missing' \in [Tasks -> SUBSET Days] /\ DOMAIN fetched' = Tasks /\ DOMAIN log' = Tasks
    /\ outage \subseteq outage'
    /\ \A u \in Tasks \ {t} : /\ pc'[u] = pc[u] /\ missing'[u] = missing[u]
                              /\ fetched'[u] = fetched[u] /\ log'[u] = log[u]

LEMMA LogFrame ==
    ASSUME LogInv, NEW t \in Tasks, OtherLogs(t), GapInv(t)'
    PROVE  LogInv'
<1>1. ASSUME NEW u \in Tasks \ {t} PROVE GapInv(u)'
  <2>1. /\ GapInv(u) /\ stored[SymbolOf[u]] \subseteq stored'[SymbolOf[u]]
        /\ pc'[u] = pc[u] /\ missing'[u] = missing[u] /\ outage \subseteq outage'
        /\ fetched'[u] = fetched[u] /\ log'[u] = log[u]
    BY DEF LogInv, OtherLogs, Symbols
  <2> QED
    BY <2>1 DEF GapInv
<1> QED
  BY <1>1 DEF LogInv, OtherLogs

(* A step between two places of the fetch loop, or out of it to a failure.   *)
LEMMA FetchSteps ==
    ASSUME SyncInv, LogInv, NEW t \in Tasks, pc[t] \in Fetching,
           pc'[t] \in Fetching \cup {"fail"}, \A u \in Tasks \ {t} : pc'[u] = pc[u],
           UNCHANGED <<missing, stored, log, outage>>,
           DOMAIN fetched' = Tasks, \A u \in Tasks \ {t} : fetched'[u] = fetched[u]
    PROVE  LogInv'
<1>1. OtherLogs(t)
  BY DEF OtherLogs, LogInv
<1>2. GapInv(t)'
  BY DEF LogInv, GapInv, Fetching
<1> QED
  BY <1>1, <1>2, LogFrame

LEMMA FetchPreserves ==
    ASSUME SyncInv, LogInv, NEW t \in Tasks,
           \/ SlotTaken(t) \/ GetSession(t) \/ LoginSlot(t) \/ Login(t) \/ Refresh(t)
           \/ Evict(t) \/ Pause(t) \/ Backoff(t) \/ Rejected(t) \/ RateLimited(t)
           \/ CallFails(t)
    PROVE  LogInv'
<1>1. /\ pc[t] \in Fetching /\ pc'[t] \in Fetching \cup {"fail"}
      /\ \A u \in Tasks \ {t} : pc'[u] = pc[u]
      /\ UNCHANGED <<missing, fetched, stored, log, outage>>
  <2> USE DEF Fetching, Queue, Goto, work, faults, SyncInv, SessionTypeOK
  <2>1. CASE SlotTaken(t) \/ GetSession(t) \/ LoginSlot(t)
    BY <2>1 DEF SlotTaken, GetSession, LoginSlot
  <2>2. CASE Login(t)
    BY <2>2 DEF Login, Issue, AttemptFails, Retry
  <2>3. CASE Refresh(t)
    BY <2>3 DEF Refresh, Issue
  <2>4. CASE Evict(t) \/ CallFails(t)
    BY <2>4 DEF Evict, CallFails, AttemptFails, Retry
  <2>5. CASE Pause(t) \/ Backoff(t) \/ Rejected(t) \/ RateLimited(t)
    BY <2>5 DEF Pause, Backoff, Rejected, RateLimited
  <2> QED
    BY <2>1, <2>2, <2>3, <2>4, <2>5
<1> QED
  BY <1>1, FetchSteps DEF LogInv

(* The last chunk: with it every day from the first missing to the last has  *)
(* been asked for.                                                           *)
LEMMA CallAnswersKeepsLog ==
    ASSUME SyncInv, LogInv, NEW t \in Tasks, CallAnswers(t)
    PROVE  LogInv'
<1>1. /\ pc[t] = "call" /\ UNCHANGED <<missing, stored, log, outage>>
      /\ fetched' = [fetched EXCEPT ![t] = @ \cup Chunk(t)]
  BY DEF CallAnswers, faults
<1>2. CASE ToFetch(t) = Chunk(t)
  <2>1. /\ pc'[t] = "persist" /\ \A u \in Tasks \ {t} : pc'[u] = pc[u]
        /\ fetched'[t] = fetched[t] \cup ToFetch(t)
    BY <1>1, <1>2 DEF CallAnswers, Goto, SyncInv, SessionTypeOK, LogInv
  <2>2. OtherLogs(t)
    BY <1>1, <2>1 DEF OtherLogs, LogInv
  <2>3. ASSUME NEW d \in Traded \ stored[SymbolOf[t]]
        PROVE  d \in fetched'[t]
    <3>1. d \in missing[t] /\ missing[t] \in SUBSET Days
      BY <1>1, <2>3 DEF LogInv, GapInv, Fetching
    <3> QED
      BY <2>1, <3>1, MissingIsBetween DEF ToFetch
  <2>4. GapInv(t)'
    BY <1>1, <2>1, <2>3 DEF LogInv, GapInv, Fetching
  <2> QED
    BY <2>2, <2>4, LogFrame
<1>3. CASE ToFetch(t) # Chunk(t)
  <2>1. pc'[t] = "slot" /\ \A u \in Tasks \ {t} : pc'[u] = pc[u]
    BY <1>3 DEF CallAnswers, Queue, Goto, SyncInv, SessionTypeOK
  <2> QED
    BY <1>1, <2>1, FetchSteps DEF LogInv, Fetching
<1> QED
  BY <1>2, <1>3

LEMMA StartSyncKeepsLog ==
    ASSUME SyncInv, LogInv, NEW t \in Tasks, StartSync(t)
    PROVE  LogInv'
<1>1. /\ pc[t] = "waiting" /\ UNCHANGED <<missing, fetched, stored>>
      /\ \/ log' = [log EXCEPT ![t] = "PENDING"] /\ pc' = [pc EXCEPT ![t] = "find"]
            /\ UNCHANGED outage
         \/ pc' = [pc EXCEPT ![t] = "failed"] /\ outage' = outage \cup {t} /\ UNCHANGED log
  BY DEF StartSync, Goto, Fault, work, faults
<1>2. OtherLogs(t)
  BY <1>1 DEF OtherLogs, LogInv, SyncInv, SessionTypeOK
<1>3. GapInv(t)'
  BY <1>1 DEF LogInv, GapInv, Fetching, SyncInv, SessionTypeOK
<1> QED
  BY <1>2, <1>3, LogFrame

LEMMA FindMissingKeepsLog ==
    ASSUME SyncInv, LogInv, NEW t \in Tasks, FindMissing(t)
    PROVE  LogInv'
<1>1. /\ pc[t] = "find" /\ UNCHANGED <<fetched, stored>> /\ outage \subseteq outage'
      /\ missing' = [missing EXCEPT ![t] = MissingDays(t)]
      /\ \/ log' = [log EXCEPT ![t] = "RUNNING"] /\ pc' = [pc EXCEPT ![t] = "slot"]
         \/ /\ MissingDays(t) = {}
            /\ log' = [log EXCEPT ![t] = "SKIPPED"] /\ pc' = [pc EXCEPT ![t] = "done"]
         \/ UNCHANGED log /\ pc' = [pc EXCEPT ![t] = "fail"]
  BY DEF FindMissing, Queue, Goto, Fault, faults
<1>2. /\ MissingDays(t) \in SUBSET Days
      /\ Traded \ stored[SymbolOf[t]] \subseteq MissingDays(t)
  BY SyncAssumption DEF MissingDays, Days
<1>3. OtherLogs(t)
  BY <1>1, <1>2 DEF OtherLogs, LogInv, SyncInv, SessionTypeOK
<1>4. GapInv(t)'
  BY <1>1, <1>2 DEF LogInv, GapInv, Fetching, SyncInv, SessionTypeOK
<1> QED
  BY <1>3, <1>4, LogFrame

LEMMA PersistDayKeepsLog ==
    ASSUME SyncInv, LogInv, NEW t \in Tasks, PersistDay(t)
    PROVE  LogInv'
<1>1. /\ pc[t] = "persist" /\ UNCHANGED <<missing, log>> /\ outage \subseteq outage'
      /\ \/ /\ stored' = [stored EXCEPT ![SymbolOf[t]] = @ \cup {Min(ToSave(t))}]
            /\ fetched' = [fetched EXCEPT ![t] = @ \ {Min(ToSave(t))}]
            /\ UNCHANGED pc
         \/ pc' = [pc EXCEPT ![t] = "fail"] /\ UNCHANGED <<stored, fetched>>
  BY DEF PersistDay, Goto, Fault, faults
<1>2. OtherLogs(t)
  BY <1>1 DEF OtherLogs, LogInv, SyncInv, SessionTypeOK
<1>3. GapInv(t)'
  BY <1>1 DEF LogInv, GapInv, Fetching, SyncInv, SessionTypeOK, Symbols
<1> QED
  BY <1>2, <1>3, LogFrame

LEMMA EndKeepsLog ==
    ASSUME SyncInv, LogInv, NEW t \in Tasks, FinishSync(t) \/ FailSync(t)
    PROVE  LogInv'
<1>1. UNCHANGED <<missing, fetched, stored>> /\ outage \subseteq outage'
  BY DEF FinishSync, FailSync, Fault, work, faults
<1>2. CASE FinishSync(t)
  <2>1. /\ pc[t] = "persist" /\ fetched[t] \cap Traded = {}
        /\ \/ log' = [log EXCEPT ![t] = "SUCCESS"] /\ pc' = [pc EXCEPT ![t] = "done"]
           \/ UNCHANGED log /\ pc' = [pc EXCEPT ![t] = "fail"]
    BY <1>2 DEF FinishSync, ToSave, Goto
  <2>2. OtherLogs(t)
    BY <1>1, <2>1 DEF OtherLogs, LogInv, SyncInv, SessionTypeOK
  <2>3. GapInv(t)'
    BY <1>1, <2>1 DEF LogInv, GapInv, Fetching, SyncInv, SessionTypeOK
  <2> QED
    BY <2>2, <2>3, LogFrame
<1>3. CASE FailSync(t)
  <2>1. /\ pc[t] = "fail" /\ pc' = [pc EXCEPT ![t] = "failed"]
        /\ \/ log' = [log EXCEPT ![t] = "FAILED"]
           \/ outage' = outage \cup {t} /\ UNCHANGED log
    BY <1>3 DEF FailSync, Goto, Fault
  <2>2. OtherLogs(t)
    BY <1>1, <2>1 DEF OtherLogs, LogInv, SyncInv, SessionTypeOK
  <2>3. GapInv(t)'
    BY <1>1, <2>1 DEF LogInv, GapInv, Fetching, SyncInv, SessionTypeOK
  <2> QED
    BY <2>2, <2>3, LogFrame
<1> QED
  BY <1>2, <1>3

LEMMA LogInvStep == SyncInv /\ LogInv /\ [Next]_vars => LogInv'
<1> SUFFICES ASSUME SyncInv, LogInv, [Next]_vars PROVE LogInv'
  OBVIOUS
<1>1. ASSUME NEW t \in Tasks, TaskStep(t) PROVE LogInv'
  BY <1>1, FetchPreserves, CallAnswersKeepsLog, StartSyncKeepsLog, FindMissingKeepsLog,
     PersistDayKeepsLog, EndKeepsLog DEF TaskStep
<1>2. CASE CooldownEnds \/ AllEnded \/ Revoke \/ Expire \/ UNCHANGED vars
  <2>1. UNCHANGED <<pc, missing, fetched, stored, log, outage>>
    BY <1>2 DEF CooldownEnds, AllEnded, Revoke, Expire, vars, work, faults
  <2> QED
    BY <2>1 DEF LogInv, GapInv
<1> QED
  BY <1>1, <1>2 DEF Next

(* A sync that is logged as SUCCESS or SKIPPED leaves no traded day without  *)
(* candles, for any number of calls that write the same symbol at once; one  *)
(* that failed is logged as FAILED unless the database refused that too      *)
(* (historical_data_service.py: _sync_symbol, _find_missing_dates).          *)
THEOREM LogTellsTruthTheorem == Spec => []LogTellsTruth
<1>1. Init => SyncInv /\ LogInv
  BY SyncInvInit, LogInvInit
<1>2. (SyncInv /\ LogInv) /\ [Next]_vars => (SyncInv /\ LogInv)'
  BY SyncInvStep, LogInvStep
<1>3. LogInv => LogTellsTruth
  BY DEF LogInv, GapInv, LogTellsTruth
<1> QED
  BY <1>1, <1>2, <1>3, PTL DEF Spec
=============================================================================
