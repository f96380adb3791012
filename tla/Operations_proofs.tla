-------------------------- MODULE Operations_proofs --------------------------
(***************************************************************************)
(* Proofs about the components that watch over the others.  Incidents: a   *)
(* component has at most one open incident, for any number of components,  *)
(* slots and operators.  Broker reconciliation: a run that says COMPLETED  *)
(* has stored every discrepancy it found, and no run reopens a position    *)
(* that has closed, unless it closed between a read and its write, for any *)
(* number of orders, positions and callers.                                *)
(***************************************************************************)
EXTENDS Monitoring, BrokerReconciliation, FiniteSetTheorems, TLAPS
-----------------------------------------------------------------------------
(* Incidents. *)

Places ==
    {"idle", "persist", "count", "list", "get", "resolve", "find", "write", "escget",
     "escalate", "route", "dup", "insert", "send", "acknowledge"}

\* A client at one of these places is about to write the document it holds.
Writing == {"write", "resolve", "acknowledge", "escalate"}

TypeInv ==
    /\ incidents \in [Components -> [Slots -> {None} \union SystemIncident]]
    /\ pc \in [Clients -> Places]
    /\ DOMAIN doc = Clients

\* A document anywhere else is written to no collection.
Placed(d) == d.c \in Components /\ d.n \in Slots

AtMostOne(c) == \A n, m \in OpenOf(c) : n = m

(* create writes under the lock.                                             *)
LockInv(t) == pc[t] = "write" => ilock = t

(* A document that is about to be written is new only in create, and then no *)
(* incident of its component is open, unless a read of them failed.          *)
DocumentInv(t) ==
    pc[t] \in Writing /\ Placed(doc[t]) =>
        /\ doc[t].sev \in {"WARNING", "CRITICAL"}
        /\ doc[t].st \in {"NEW", "OPEN", "ACKNOWLEDGED", "RESOLVED"}
        /\ doc[t].st = "NEW" =>
              /\ pc[t] = "write"
              /\ doc[t].c \in spoiled \/ OpenOf(doc[t].c) = {}

IncidentInv ==
    /\ TypeInv
    /\ \A c \in Components \ spoiled : AtMostOne(c)
    /\ \A t \in Clients : LockInv(t) /\ DocumentInv(t)

LEMMA IncidentInvInit == Init => IncidentInv
<1> SUFFICES ASSUME Init PROVE IncidentInv
  OBVIOUS
<1>1. TypeInv
  BY DEF Init, IncidentsInit, TypeInv, Places
<1>2. \A c \in Components : OpenOf(c) = {}
  BY DEF Init, IncidentsInit, OpenOf, Exists
<1>3. \A t \in Clients : pc[t] = "idle"
  BY DEF Init
<1> QED
  BY <1>1, <1>2, <1>3 DEF IncidentInv, AtMostOne, LockInv, DocumentInv, Writing

-----------------------------------------------------------------------------
(* Steps that open no incident                                              *)

(* No component but the spoiled ones gets another open incident.             *)
NothingOpens ==
    /\ spoiled \subseteq spoiled'
    /\ \A c \in Components \ spoiled' : OpenOf(c)' \subseteq OpenOf(c)

OthersKept(t) == \A u \in Clients \ {t} : pc'[u] = pc[u] /\ doc'[u] = doc[u]

LEMMA OthersPreserve ==
    ASSUME IncidentInv, TypeInv', NothingOpens, NEW t \in Clients, OthersKept(t),
           LockInv(t)', DocumentInv(t)',
           \A u \in Clients \ {t} : pc[u] = "write" => ilock' = ilock
    PROVE  IncidentInv'
<1>1. \A c \in Components \ spoiled' : AtMostOne(c)'
  BY DEF IncidentInv, NothingOpens, AtMostOne
<1>2. ASSUME NEW u \in Clients \ {t}
      PROVE  LockInv(u)' /\ DocumentInv(u)'
  <2>1. pc'[u] = pc[u] /\ doc'[u] = doc[u] /\ LockInv(u) /\ DocumentInv(u)
    BY DEF IncidentInv, OthersKept
  <2>2. LockInv(u)'
    BY <2>1 DEF LockInv
  <2>3. DocumentInv(u)'
    BY <2>1 DEF DocumentInv, NothingOpens, Placed
  <2> QED
    BY <2>2, <2>3
<1> QED
  BY <1>1, <1>2 DEF IncidentInv

(* A step that leaves the incidents alone and writes nothing next.           *)
LEMMA QuietPreserves ==
    ASSUME IncidentInv, NEW t \in Clients, OthersKept(t), DOMAIN doc' = Clients,
           pc' \in [Clients -> Places], pc'[t] \notin Writing,
           UNCHANGED <<incidents, ilock, spoiled>>
    PROVE  IncidentInv'
<1>1. TypeInv'
  BY DEF IncidentInv, TypeInv
<1>2. NothingOpens
  BY DEF NothingOpens, OpenOf, Exists
<1>3. LockInv(t)' /\ DocumentInv(t)'
  BY DEF LockInv, DocumentInv, Writing
<1> QED
  BY <1>1, <1>2, <1>3, OthersPreserve

(* A client reads a document before it changes it.                           *)
LEMMA GetPreserves ==
    ASSUME IncidentInv, NEW t \in Clients, NEW c, NEW n, NEW ok, Get(t, c, n, ok),
           pc' \in [Clients -> Places], pc'[t] # "write",
           pc'[t] \in Writing => doc'[t] # None,
           \A u \in Clients \ {t} : pc'[u] = pc[u]
    PROVE  IncidentInv'
<1>1. TypeInv' /\ OthersKept(t) /\ UNCHANGED <<incidents, ilock, spoiled>>
  BY DEF IncidentInv, TypeInv, Get, OthersKept
<1>2. NothingOpens
  BY <1>1 DEF NothingOpens, OpenOf, Exists
<1>3. LockInv(t)'
  BY DEF LockInv
<1>4. DocumentInv(t)'
  <2> SUFFICES ASSUME doc'[t] # None, Placed(doc'[t])
               PROVE  /\ doc'[t].sev \in {"WARNING", "CRITICAL"}
                      /\ doc'[t].st \in {"OPEN", "ACKNOWLEDGED", "RESOLVED"}
    BY DEF DocumentInv
  <2>1. Exists(c, n) /\ doc'[t] = Copy(c, n)
    BY DEF Get, IncidentInv, TypeInv
  <2>2. c \in Components /\ n \in Slots
    BY <2>1 DEF Placed, Copy
  <2>3. incidents[c][n] \in SystemIncident
    BY <2>1, <2>2 DEF Exists, IncidentInv, TypeInv
  <2> QED
    BY <2>1, <2>3 DEF Copy, SystemIncident
<1> QED
  BY <1>1, <1>2, <1>3, <1>4, OthersPreserve

(* A client writes a document it has read, or one it made of it: a copy that *)
(* was up to date opens nothing, another one spoils its component.           *)
LEMMA UpsertOpensNothing ==
    ASSUME IncidentInv, NEW t \in Clients, NEW ok,
           NEW i \in SystemIncident, Upsert(t, i, ok), pc[t] \in Writing,
           Placed(doc[t]) => doc[t].st # "NEW",
           i.st = "OPEN" => doc[t].st = "OPEN"
    PROVE  NothingOpens /\ incidents' \in [Components -> [Slots -> {None} \union SystemIncident]]
<1> DEFINE c == doc[t].c
           n == doc[t].n
<1>1. CASE ~ok
  BY <1>1 DEF Upsert, NothingOpens, OpenOf, Exists, IncidentInv, TypeInv
<1>2. CASE ok
  <2>1. incidents' = [incidents EXCEPT ![c][n] = i]
    BY <1>2 DEF Upsert
  <2>2. incidents' \in [Components -> [Slots -> {None} \union SystemIncident]]
    BY <2>1 DEF IncidentInv, TypeInv
  <2>3. spoiled \subseteq spoiled'
    BY <1>2 DEF Upsert
  <2>4. ASSUME NEW d \in Components \ spoiled', NEW m \in OpenOf(d)'
        PROVE  m \in OpenOf(d)
    <3>1. m \in Slots /\ incidents'[d][m] # None /\ incidents'[d][m].st = "OPEN"
      BY <2>4 DEF OpenOf, Exists, OpenStatus
    <3>2. CASE d = c /\ m = n
      <4>1. Placed(doc[t])
        BY <3>1, <3>2 DEF Placed
      <4>2. incidents'[d][m] = i
        BY <2>1, <3>1, <3>2 DEF IncidentInv, TypeInv
      <4>3. doc[t].st = "OPEN"
        BY <3>1, <4>2
      <4>4. ~Outdated(doc[t])
        BY <1>2, <3>2 DEF Upsert
      <4>5. incidents[d][m] = Incident(doc[t].sev, "OPEN")
        BY <3>2, <4>3, <4>4 DEF Outdated
      <4>6. doc[t].sev \in {"WARNING", "CRITICAL"}
        BY <4>1 DEF IncidentInv, DocumentInv
      <4>7. incidents[d][m] # None /\ incidents[d][m].st = "OPEN"
        BY <4>5, <4>6, IncidentsAssumption DEF Incident, SystemIncident
      <4> QED
        BY <3>1, <4>7 DEF OpenOf, Exists, OpenStatus
    <3>3. CASE ~(d = c /\ m = n)
      <4>1. incidents'[d][m] = incidents[d][m]
        BY <2>1, <3>1, <3>3 DEF IncidentInv, TypeInv
      <4> QED
        BY <3>1, <4>1 DEF OpenOf, Exists, OpenStatus
    <3> QED
      BY <3>2, <3>3
  <2> QED
    BY <2>2, <2>3, <2>4 DEF NothingOpens
<1> QED
  BY <1>1, <1>2

LEMMA UpdatePreserves ==
    ASSUME IncidentInv, NEW t \in Clients, OthersKept(t), DOMAIN doc' = Clients,
           pc' \in [Clients -> Places], pc'[t] \notin Writing, UNCHANGED ilock,
           NothingOpens, incidents' \in [Components -> [Slots -> {None} \union SystemIncident]]
    PROVE  IncidentInv'
<1>1. TypeInv'
  BY DEF TypeInv
<1>2. LockInv(t)' /\ DocumentInv(t)'
  BY DEF LockInv, DocumentInv, Writing
<1> QED
  BY <1>1, <1>2, OthersPreserve

-----------------------------------------------------------------------------
(* The steps of the clients                                                 *)

LEMMA Ends ==
    ASSUME IncidentInv, NEW t \in Clients, NextResult(t) \/ AfterDispatch(t)
    PROVE  /\ pc' \in [Clients -> Places] /\ pc'[t] \notin Writing
           /\ \A u \in Clients \ {t} : pc'[u] = pc[u]
BY DEF NextResult, AfterDispatch, Goto, IncidentInv, TypeInv, Places, Writing

LEMMA QuietStep ==
    ASSUME IncidentInv, NEW t \in Clients,
           NextResult(t) \/ AfterDispatch(t) \/ \E l \in Places \ Writing : Goto(t, l),
           UNCHANGED incidentVars
    PROVE  IncidentInv'
<1>1. /\ pc' \in [Clients -> Places] /\ pc'[t] \notin Writing
      /\ \A u \in Clients \ {t} : pc'[u] = pc[u]
  BY Ends DEF Goto, IncidentInv, TypeInv
<1>2. OthersKept(t) /\ DOMAIN doc' = Clients
  BY <1>1 DEF OthersKept, incidentVars, IncidentInv, TypeInv
<1> QED
  BY <1>1, <1>2, QuietPreserves DEF incidentVars

LEMMA RunAllPreserves ==
    ASSUME IncidentInv, NEW r \in Runs, r \in Clients, RunAll(r)
    PROVE  IncidentInv'
BY QuietStep DEF RunAll, Places, Writing

LEMMA FindPreserves ==
    ASSUME IncidentInv, NEW r \in Runs, r \in Clients, FindIncident(r)
    PROVE  IncidentInv'
<1> DEFINE c == Head(results[r]).c
           sev == IF Head(results[r]).s = "unhealthy" THEN "CRITICAL" ELSE "WARNING"
<1>0. CreateFind(r, c, sev, DbUp) /\ Goto(r, "write") /\ sev \in {"WARNING", "CRITICAL"}
  BY DEF FindIncident
<1> HIDE DEF c, sev
<1>1. /\ UNCHANGED incidents /\ ilock = None /\ ilock' = r /\ spoiled \subseteq spoiled'
      /\ DOMAIN doc' = Clients /\ OthersKept(r) /\ pc'[r] = "write" /\ TypeInv'
  BY <1>0 DEF CreateFind, Goto, IncidentInv, TypeInv, OthersKept, Places
<1>2. NothingOpens
  BY <1>1 DEF NothingOpens, OpenOf, Exists
<1>3. \A u \in Clients : pc[u] # "write"
  BY <1>1, IncidentsAssumption DEF IncidentInv, LockInv
<1>4. ASSUME Placed(doc'[r])
      PROVE  /\ doc'[r].sev \in {"WARNING", "CRITICAL"}
             /\ doc'[r].st \in {"NEW", "OPEN", "ACKNOWLEDGED", "RESOLVED"}
             /\ doc'[r].st = "NEW" => doc'[r].c \in spoiled' \/ OpenOf(doc'[r].c) = {}
  <2>1. CASE \E n \in OpenOf(c) : doc' = [doc EXCEPT ![r] = Copy(c, n)]
    <3>1. PICK n \in OpenOf(c) : doc'[r] = Copy(c, n)
      BY <2>1 DEF IncidentInv, TypeInv
    <3>2. c \in Components /\ n \in Slots
      BY <1>4, <3>1 DEF Copy, Placed
    <3>3. incidents[c][n] \in SystemIncident /\ incidents[c][n].st = "OPEN"
      BY <3>1, <3>2 DEF OpenOf, Exists, OpenStatus, IncidentInv, TypeInv
    <3> QED
      BY <3>1, <3>3 DEF Copy, SystemIncident
  <2>2. CASE doc' = [doc EXCEPT ![r] = NewDoc(c, sev)] /\ (c \in spoiled' \/ OpenOf(c) = {})
    <3>1. doc'[r] = NewDoc(c, sev)
      BY <2>2 DEF IncidentInv, TypeInv
    <3> QED
      BY <1>0, <2>2, <3>1 DEF NewDoc
  <2> QED
    BY <1>0, <2>1, <2>2 DEF CreateFind
<1>5. OpenOf(doc'[r].c) = {} => OpenOf(doc[r].c)' = {}
  BY <1>1 DEF OpenOf, Exists
<1>6. LockInv(r)' /\ DocumentInv(r)'
  BY <1>1, <1>4, <1>5 DEF LockInv, DocumentInv
<1> QED
  BY <1>1, <1>2, <1>3, <1>6, OthersPreserve

LEMMA WritePreserves ==
    ASSUME IncidentInv, NEW r \in Runs, r \in Clients, WriteIncident(r)
    PROVE  IncidentInv'
<1> DEFINE st == IF doc[r].st = "NEW" THEN "OPEN" ELSE doc[r].st
           i == Incident(doc[r].sev, st)
<1>1. pc[r] = "write" /\ ilock = r /\ ilock' = None
  BY DEF WriteIncident, CreateWrite, IncidentInv, LockInv
<1>2. /\ OthersKept(r) /\ DOMAIN doc' = Clients
      /\ pc' \in [Clients -> Places] /\ pc'[r] \notin Writing
      /\ Upsert(r, i, DbUp)
  BY DEF WriteIncident, CreateWrite, Goto, IncidentInv, TypeInv, OthersKept, Places, Writing
<1>3. \A u \in Clients \ {r} : pc[u] # "write"
  BY <1>1 DEF IncidentInv, LockInv
<1>4. LockInv(r)' /\ DocumentInv(r)'
  BY <1>2 DEF LockInv, DocumentInv, Writing
<1>5. CASE ~Placed(doc[r]) \/ ~DbUp
  <2>1. UNCHANGED incidents /\ spoiled \subseteq spoiled'
    BY <1>2, <1>5 DEF Upsert, Placed, IncidentInv, TypeInv
  <2>2. TypeInv' /\ NothingOpens
    BY <1>2, <2>1 DEF TypeInv, IncidentInv, NothingOpens, OpenOf, Exists
  <2> QED
    BY <1>2, <1>3, <1>4, <2>2, OthersPreserve
<1>6. CASE Placed(doc[r]) /\ DbUp /\ doc[r].st # "NEW"
  <2>1. i \in SystemIncident /\ i.st = doc[r].st
    BY <1>1, <1>6 DEF IncidentInv, DocumentInv, Writing, Incident, SystemIncident
  <2>2. NothingOpens /\ incidents' \in [Components -> [Slots -> {None} \union SystemIncident]]
    BY <1>1, <1>2, <1>6, <2>1, UpsertOpensNothing DEF Writing
  <2>3. TypeInv'
    BY <1>2, <2>2 DEF TypeInv
  <2> QED
    BY <1>2, <1>3, <1>4, <2>2, <2>3, OthersPreserve
<1>7. CASE Placed(doc[r]) /\ DbUp /\ doc[r].st = "NEW"
  <2> DEFINE c == doc[r].c
             n == doc[r].n
  <2>1. c \in Components /\ n \in Slots /\ i \in SystemIncident
    BY <1>1, <1>7 DEF Placed, IncidentInv, DocumentInv, Writing, Incident, SystemIncident
  <2>2. incidents' = [incidents EXCEPT ![c][n] = i] /\ UNCHANGED spoiled
    BY <1>2, <1>7 DEF Upsert, Outdated
  <2>3. TypeInv'
    BY <1>2, <2>1, <2>2 DEF IncidentInv, TypeInv
  <2>4. c \in spoiled \/ OpenOf(c) = {}
    BY <1>1, <1>7 DEF IncidentInv, DocumentInv, Writing
  <2>5. ASSUME NEW d \in Components \ spoiled'
        PROVE  AtMostOne(d)'
    <3>1. CASE d = c
      <4>1. \A m \in OpenOf(d)' : m = n
        BY <2>1, <2>2, <2>4, <2>5, <3>1 DEF OpenOf, Exists, IncidentInv, TypeInv
      <4> QED
        BY <4>1 DEF AtMostOne
    <3>2. CASE d # c
      <4>1. OpenOf(d)' = OpenOf(d)
        BY <2>1, <2>2, <3>2 DEF OpenOf, Exists, IncidentInv, TypeInv
      <4> QED
        BY <2>2, <4>1 DEF AtMostOne, IncidentInv
    <3> QED
      BY <3>1, <3>2
  <2>6. ASSUME NEW u \in Clients \ {r}
        PROVE  LockInv(u)' /\ DocumentInv(u)'
    BY <1>2, <1>3, <2>2, <2>6 DEF LockInv, DocumentInv, Placed, OthersKept, IncidentInv
  <2> QED
    BY <1>4, <2>3, <2>5, <2>6 DEF IncidentInv
<1> QED
  BY <1>5, <1>6, <1>7

(* The writes outside the lock: resolve, acknowledge, escalate.              *)
LEMMA UnlockedWritePreserves ==
    ASSUME IncidentInv, NEW t \in Clients, NEW ok, NEW i,
           pc[t] \in Writing \ {"write"},
           Placed(doc[t]) => i \in SystemIncident /\ (i.st = "OPEN" => doc[t].st = "OPEN"),
           Upsert(t, i, ok), OthersKept(t), DOMAIN doc' = Clients, UNCHANGED ilock,
           pc' \in [Clients -> Places], pc'[t] \notin Writing
    PROVE  IncidentInv'
<1>1. Placed(doc[t]) => doc[t].st # "NEW"
  BY DEF IncidentInv, DocumentInv, Writing
<1>2. CASE Placed(doc[t])
  <2>1. NothingOpens /\ incidents' \in [Components -> [Slots -> {None} \union SystemIncident]]
    BY <1>1, <1>2, UpsertOpensNothing
  <2> QED
    BY <2>1, UpdatePreserves
<1>3. CASE ~Placed(doc[t])
  <2>1. UNCHANGED incidents /\ spoiled \subseteq spoiled'
    BY <1>3 DEF Upsert, Placed, IncidentInv, TypeInv
  <2>2. NothingOpens /\ incidents' \in [Components -> [Slots -> {None} \union SystemIncident]]
    BY <2>1 DEF NothingOpens, OpenOf, Exists, IncidentInv, TypeInv
  <2> QED
    BY <2>2, UpdatePreserves
<1> QED
  BY <1>2, <1>3

LEMMA ResolvePreserves ==
    ASSUME IncidentInv, NEW t \in Clients, pc[t] = "resolve", Resolve(t, DbUp),
           pc' \in [Clients -> Places], pc'[t] \notin Writing,
           \A u \in Clients \ {t} : pc'[u] = pc[u]
    PROVE  IncidentInv'
<1>1. OthersKept(t) /\ DOMAIN doc' = Clients
  BY DEF Resolve, Release, OthersKept, IncidentInv, TypeInv
<1>2. Resolved \in SystemIncident /\ Resolved.st # "OPEN"
  BY DEF Resolved, Incident, SystemIncident
<1> QED
  BY <1>1, <1>2, UnlockedWritePreserves DEF Resolve, Writing

LEMMA AcknowledgePreserves ==
    ASSUME IncidentInv, NEW t \in Clients, AcknowledgeIncident(t)
    PROVE  IncidentInv'
<1>1. /\ OthersKept(t) /\ DOMAIN doc' = Clients /\ UNCHANGED ilock
      /\ pc' \in [Clients -> Places] /\ pc'[t] \notin Writing
      /\ pc[t] \in Writing \ {"write"}
  BY DEF AcknowledgeIncident, Acknowledge, Release, Goto, OthersKept, IncidentInv, TypeInv,
     Places, Writing
<1>2. CASE UNCHANGED <<incidents, spoiled>>
  BY <1>1, <1>2, QuietPreserves
<1>3. CASE Upsert(t, Incident(doc[t].sev, "ACKNOWLEDGED"), DbUp)
  <2> DEFINE i == Incident(doc[t].sev, "ACKNOWLEDGED")
  <2>1. Placed(doc[t]) => i \in SystemIncident /\ i.st # "OPEN"
    BY <1>1 DEF IncidentInv, DocumentInv, Incident, SystemIncident
  <2> HIDE DEF i
  <2> QED
    BY <1>1, <1>3, <2>1, UnlockedWritePreserves DEF i
<1> QED
  BY <1>2, <1>3 DEF AcknowledgeIncident, Acknowledge

LEMMA EscalatePreserves ==
    ASSUME IncidentInv, NEW t \in Clients, EscalateIncident(t)
    PROVE  IncidentInv'
<1> DEFINE i == IF doc[t].st = "RESOLVED" THEN Resolved ELSE Incident("CRITICAL", doc[t].st)
<1>1. /\ OthersKept(t) /\ DOMAIN doc' = Clients /\ UNCHANGED ilock
      /\ pc' \in [Clients -> Places] /\ pc'[t] \notin Writing
      /\ pc[t] \in Writing \ {"write"}
  BY DEF EscalateIncident, Escalate, Release, Goto, OthersKept, IncidentInv, TypeInv,
     Places, Writing
<1>2. Placed(doc[t]) => i \in SystemIncident /\ (i.st = "OPEN" => doc[t].st = "OPEN")
  BY <1>1 DEF IncidentInv, DocumentInv, Resolved, Incident, SystemIncident
<1>3. Upsert(t, i, DbUp)
  BY DEF EscalateIncident, Escalate
<1> HIDE DEF i
<1> QED
  BY <1>1, <1>2, <1>3, UnlockedWritePreserves

LEMMA RunStepPreserves ==
    ASSUME IncidentInv, NEW r \in Runs, r \in Clients, RunStep(r)
    PROVE  IncidentInv'
<1>1. CASE PersistStatus(r)
  BY <1>1, QuietStep DEF PersistStatus, Places, Writing
<1>2. CASE ProcessResult(r)
  BY <1>2, QuietStep DEF ProcessResult, Places, Writing
<1>3. CASE ListOpen(r)
  BY <1>3, QuietStep DEF ListOpen, Places, Writing
<1>4. CASE GetListed(r)
  <2>1. /\ pc' \in [Clients -> Places] /\ pc'[r] # "write"
        /\ pc'[r] \in Writing => doc'[r] # None
        /\ \A u \in Clients \ {r} : pc'[u] = pc[u]
    <3>1. CASE doc'[r] # None /\ Goto(r, "resolve")
      BY <3>1 DEF Goto, IncidentInv, TypeInv, Places
    <3>2. CASE NextResult(r)
      BY <3>2, Ends DEF Writing
    <3>3. CASE UNCHANGED pc
      BY <1>4, <3>3 DEF GetListed, IncidentInv, TypeInv, Writing
    <3> QED
      BY <1>4, <3>1, <3>2, <3>3 DEF GetListed
  <2> QED
    BY <1>4, <2>1, GetPreserves DEF GetListed
<1>5. CASE ResolveListed(r)
  <2>1. /\ pc' \in [Clients -> Places] /\ pc'[r] \notin Writing
        /\ \A u \in Clients \ {r} : pc'[u] = pc[u]
    BY <1>5, Ends DEF ResolveListed, Goto, IncidentInv, TypeInv, Places, Writing
  <2> QED
    BY <1>5, <2>1, ResolvePreserves DEF ResolveListed
<1>6. CASE FindIncident(r)
  BY <1>6, FindPreserves
<1>7. CASE WriteIncident(r)
  BY <1>7, WritePreserves
<1>8. CASE RouteAlert(r)
  <2>1. /\ pc' \in [Clients -> Places] /\ pc'[r] \notin Writing
        /\ \A u \in Clients \ {r} : pc'[u] = pc[u]
    BY <1>8, Ends DEF RouteAlert, Goto, IncidentInv, TypeInv, Places, Writing
  <2>2. OthersKept(r) /\ DOMAIN doc' = Clients /\ UNCHANGED <<incidents, ilock, spoiled>>
    BY <1>8, <2>1 DEF RouteAlert, OthersKept, IncidentInv, TypeInv
  <2> QED
    BY <2>1, <2>2, QuietPreserves
<1> QED
  BY <1>1, <1>2, <1>3, <1>4, <1>5, <1>6, <1>7, <1>8 DEF RunStep

LEMMA ClientStepPreserves ==
    ASSUME IncidentInv, NEW t \in Clients, ClientStep(t)
    PROVE  IncidentInv'
<1>1. CASE GetToEscalate(t)
  <2>1. /\ pc' \in [Clients -> Places] /\ pc'[t] # "write"
        /\ pc'[t] \in Writing => doc'[t] # None
        /\ \A u \in Clients \ {t} : pc'[u] = pc[u]
    BY <1>1 DEF GetToEscalate, Goto, IncidentInv, TypeInv, Places, Writing
  <2> QED
    BY <1>1, <2>1, GetPreserves DEF GetToEscalate
<1>2. CASE EscalateIncident(t)
  BY <1>2, EscalatePreserves
<1>3. CASE IsDuplicate(t)
  BY <1>3, QuietStep DEF IsDuplicate, Places, Writing
<1>4. CASE PersistEvent(t)
  BY <1>4, QuietStep DEF PersistEvent, Places, Writing
<1>5. CASE SendAlert(t)
  BY <1>5, QuietStep DEF SendAlert
<1> QED
  BY <1>1, <1>2, <1>3, <1>4, <1>5 DEF ClientStep

LEMMA OperatorPreserves ==
    ASSUME IncidentInv, NEW o \in Operators, o \in Clients,
           \/ \E what \in {"acknowledge", "resolve", "escalate"} : CallRoute(o, what)
           \/ ResolveIncident(o) \/ AcknowledgeIncident(o)
    PROVE  IncidentInv'
<1>1. ASSUME NEW what \in {"acknowledge", "resolve", "escalate"}, CallRoute(o, what)
      PROVE  IncidentInv'
  <2>1. /\ pc' \in [Clients -> Places] /\ pc'[o] # "write"
        /\ pc'[o] \in Writing => doc'[o] # None
        /\ \A u \in Clients \ {o} : pc'[u] = pc[u]
    BY <1>1 DEF CallRoute, Goto, IncidentInv, TypeInv, Places, Writing
  <2> QED
    BY <1>1, <2>1, GetPreserves DEF CallRoute
<1>2. CASE ResolveIncident(o)
  <2>1. /\ pc' \in [Clients -> Places] /\ pc'[o] \notin Writing
        /\ \A u \in Clients \ {o} : pc'[u] = pc[u]
    BY <1>2 DEF ResolveIncident, Goto, IncidentInv, TypeInv, Places, Writing
  <2> QED
    BY <1>2, <2>1, ResolvePreserves DEF ResolveIncident
<1> QED
  BY <1>1, <1>2, AcknowledgePreserves

LEMMA RestartPreserves == IncidentInv /\ Restart => IncidentInv'
<1> SUFFICES ASSUME IncidentInv, Restart PROVE IncidentInv'
  OBVIOUS
<1>1. TypeInv' /\ \A t \in Clients : pc'[t] = "idle"
  BY DEF Restart, IncidentInv, TypeInv, Places
<1>2. \A c \in Components \ spoiled' : AtMostOne(c)'
  BY DEF Restart, IncidentInv, AtMostOne, OpenOf, Exists
<1> QED
  BY <1>1, <1>2 DEF IncidentInv, LockInv, DocumentInv, Writing

LEMMA Unchanged ==
    ASSUME IncidentInv, UNCHANGED <<incidentVars, pc>>
    PROVE  IncidentInv'
BY DEF incidentVars, IncidentInv, TypeInv, AtMostOne, LockInv, DocumentInv, OpenOf, Exists

LEMMA IncidentInvNext == IncidentInv /\ [Next]_vars => IncidentInv'
<1> SUFFICES ASSUME IncidentInv, [Next]_vars
             PROVE  IncidentInv'
  OBVIOUS
<1>1. Runs \subseteq Clients /\ Operators \subseteq Clients
  BY MonitoringAssumption DEF Runs
<1>2. CASE \E r \in Runs : RunAll(r) \/ RunStep(r)
  BY <1>1, <1>2, RunAllPreserves, RunStepPreserves
<1>3. CASE \E t \in Clients : ClientStep(t)
  BY <1>3, ClientStepPreserves
<1>4. CASE \E o \in Operators :
             \/ \E what \in {"acknowledge", "resolve", "escalate"} : CallRoute(o, what)
             \/ ResolveIncident(o) \/ AcknowledgeIncident(o)
  BY <1>1, <1>4, OperatorPreserves
<1>5. CASE \/ \E k \in recent : WindowEnds(k)
           \/ \E c \in Monitored : Change(c)
           \/ ChangeReach
           \/ UNCHANGED vars
  <2>1. UNCHANGED <<incidentVars, pc>>
    BY <1>5 DEF WindowEnds, Change, ChangeReach, vars
  <2> QED
    BY <2>1, Unchanged
<1>6. CASE Restart
  BY <1>6, RestartPreserves
<1> QED
  BY <1>2, <1>3, <1>4, <1>5, <1>6 DEF Next

-----------------------------------------------------------------------------
(* Theorems                                                                 *)

(* The inductive invariant holds in every reachable state. *)
THEOREM IncidentInvariant == Spec => []IncidentInv
BY IncidentInvInit, IncidentInvNext, PTL DEF Spec

(* Repeated failures are added to one incident: the lock of create suffices, *)
(* although every other operation reads and writes without it, as long as no *)
(* copy is written over a changed document and no read fails.                *)
THEOREM OneOpenIncidentAlways == Spec => []OneOpenIncident
<1>1. IncidentInv => OneOpenIncident
  <2> SUFFICES ASSUME IncidentInv, NEW c \in Components \ spoiled
               PROVE  Cardinality(OpenOf(c)) <= 1
    BY DEF OneOpenIncident
  <2>1. AtMostOne(c)
    BY DEF IncidentInv
  <2>2. CASE OpenOf(c) = {}
    BY <2>2, FS_EmptySet
  <2>3. CASE OpenOf(c) # {}
    <3>1. PICK n : OpenOf(c) = {n}
      BY <2>1, <2>3 DEF AtMostOne
    <3> QED
      <4>1. Cardinality({n}) = 1
        BY FS_Singleton
      <4> QED
        BY <3>1, <4>1
  <2> QED
    BY <2>2, <2>3
<1> QED
  BY <1>1, IncidentInvariant, PTL

(* At most one client is between the read and the write of create. *)
THEOREM CreateIsExclusive ==
    Spec => [](\A t, u \in Clients : pc[t] = "write" /\ pc[u] = "write" => t = u)
<1>1. IncidentInv => \A t, u \in Clients : pc[t] = "write" /\ pc[u] = "write" => t = u
  BY DEF IncidentInv, LockInv
<1> QED
  BY <1>1, IncidentInvariant, PTL
-----------------------------------------------------------------------------
(* Broker reconciliation. *)

Phases ==
    {"idle", "orders", "compare", "book", "stops", "persist", "resolve", "mark",
     "incidents", "write", "failed"}

\* A discrepancy as the comparisons make it: the broker's quantity of a
\* mismatch is a number.
Sound(d) ==
    /\ d = Discrepancy(d.type, d.x, d.val, d.st)
    /\ d.type = "quantity_mismatch" => d.val \in Qty \cup {0}

Position ==
    [st : {"NONE", "OPEN", "CLOSED"}, qty : Qty, stop : BOOLEAN, book : Qty \cup {0, None}]

\* No position has a quantity that is not positive, whatever a run corrects.
ReconTypeInv ==
    /\ order \in [Orders -> [st : OrderStatus, book : BrokerStatus]]
    /\ position \in [Positions -> Position]
    /\ phase \in Phases
    /\ run \in {None, "RUNNING", "FAILED", "COMPLETED"}
    /\ \A h \in held : h.p \in Positions
    /\ \A d \in found : Sound(d)

\* The service's lock is held exactly while a run is under way.
SerialRuns == rlock \in Clients \cup {None} /\ (rlock = None <=> phase = "idle")

Matched(d) == \E r \in rows : r.type = d.type /\ r.x = d.x

\* While the rows are written, what is not stored is still to do.
StoredInv ==
    /\ phase = "persist" => \A d \in found \ todo : Matched(d)
    /\ phase \in {"resolve", "mark", "incidents", "write"} => \A d \in found : Matched(d)

\* The discrepancy under treatment.
First == CHOOSE d \in todo : TRUE

(* The resolution treats mismatches the run has found.  The document it is  *)
(* about to write was open when it was read, and the quantity is positive.  *)
ResolutionInv ==
    /\ phase \in {"resolve", "mark"} =>
          \A d \in todo : d \in found /\ d.type = "quantity_mismatch"
    /\ phase = "mark" => todo # {}
    /\ pcopy # None =>
          phase = "resolve" /\ todo # {} /\ pcopy.st = "OPEN" /\ First.val # 0

ReconciliationInv == ReconTypeInv /\ SerialRuns /\ StoredInv /\ ResolutionInv

LEMMA ReconciliationInvInit == ReconInit => ReconciliationInv
<1> SUFFICES ASSUME ReconInit PROVE ReconciliationInv
  OBVIOUS
<1>1. ReconTypeInv
  <2>1. order \in [Orders -> [st : OrderStatus, book : BrokerStatus]]
    BY DEF ReconInit, OrderStatus, NonTerminal, BrokerStatus
  <2>2. position \in [Positions -> Position]
    BY DEF ReconInit, Position
  <2> QED
    BY <2>1, <2>2 DEF ReconInit, ReconTypeInv, Phases
<1> QED
  BY <1>1 DEF ReconInit, ReconciliationInv, SerialRuns, StoredInv, ResolutionInv

LEMMA FirstInTodo == todo # {} => First \in todo
BY DEF First

-----------------------------------------------------------------------------
(* The comparisons find sound discrepancies                                 *)

LEMMA FoundIsSound ==
    ASSUME NEW type, NEW x, NEW val, type = "quantity_mismatch" => val \in Qty \cup {0}
    PROVE  Sound(Found(type, x, val))
BY DEF Sound, Found, Discrepancy

LEMMA CompareOrderIsSound ==
    ASSUME NEW l, NEW ok, NEW d \in CompareOrder(l, ok)
    PROVE  Sound(d)
<1>1. \/ d = Found("stale_order", l.o, None)
      \/ d = Found("missing_order", l.o, None)
      \/ d = Found("rejected_order", l.o, None)
      \/ d = Found("status_mismatch", l.o, order[l.o].book)
  BY DEF CompareOrder
<1> QED
  BY <1>1, FoundIsSound

LEMMA ComparePositionsIsSound ==
    ASSUME ReconTypeInv, NEW drift, NEW d \in ComparePositions(drift)
    PROVE  Sound(d)
<1>1. CASE d \in MissingPositions
  BY <1>1, FoundIsSound DEF MissingPositions
<1>2. CASE d \in QuantityMismatches
  <2>1. PICK h \in held : /\ d = Found("quantity_mismatch", h.p, position[h.p].book)
                          /\ position[h.p].book # None
    BY <1>2 DEF QuantityMismatches
  <2>2. position[h.p].book \in Qty \cup {0}
    BY <2>1 DEF ReconTypeInv, Position
  <2> QED
    BY <2>1, <2>2, FoundIsSound
<1>3. CASE d \in PriceMismatches(drift)
  BY <1>3, FoundIsSound DEF PriceMismatches
<1>4. CASE d \in OrphanPositions
  BY <1>4, FoundIsSound DEF OrphanPositions
<1> QED
  BY <1>1, <1>2, <1>3, <1>4 DEF ComparePositions

-----------------------------------------------------------------------------
(* The steps of a run                                                       *)

LEMMA StartRunPreserves ==
    ASSUME ReconciliationInv, NEW t \in Clients, NEW b, StartRun(t, b)
    PROVE  ReconciliationInv'
<1>1. ReconTypeInv'
  BY DEF ReconciliationInv, ReconTypeInv, StartRun, worldVars, Phases
<1>2. SerialRuns'
  BY IncidentsAssumption DEF ReconciliationInv, SerialRuns, StartRun
<1>3. StoredInv' /\ ResolutionInv'
  BY DEF ReconciliationInv, SerialRuns, StoredInv, ResolutionInv, Matched, First, StartRun
<1> QED
  BY <1>1, <1>2, <1>3 DEF ReconciliationInv

(* The phases that only look for discrepancies.                              *)
LEMMA SearchPreserves ==
    ASSUME ReconciliationInv, phase \in {"orders", "compare", "book", "stops"},
           phase' \in {"compare", "book", "stops", "persist"},
           phase' = "persist" => todo' = found',
           UNCHANGED <<order, position, run, rlock, pcopy>>,
           \A h \in held' : h.p \in Positions,
           \A d \in found' : Sound(d)
    PROVE  ReconciliationInv'
<1>1. ReconTypeInv'
  BY DEF ReconciliationInv, ReconTypeInv, Phases
<1>2. SerialRuns' /\ StoredInv' /\ ResolutionInv'
  BY DEF ReconciliationInv, SerialRuns, StoredInv, ResolutionInv
<1> QED
  BY <1>1, <1>2 DEF ReconciliationInv

LEMMA ListOrdersPreserves ==
    ASSUME ReconciliationInv, ListOrders PROVE ReconciliationInv'
<1>1. \A d \in Duplicates(listed') : Sound(d)
  BY FoundIsSound DEF Duplicates
<1> QED
  BY <1>1, SearchPreserves DEF ListOrders, ReconciliationInv, ReconTypeInv, worldVars, dbVars

LEMMA ReconcileOrderPreserves ==
    ASSUME ReconciliationInv, ReconcileOrder PROVE ReconciliationInv'
<1>1. PICK l \in listed, ok \in BOOLEAN : found' = found \cup CompareOrder(l, ok)
  BY DEF ReconcileOrder
<1>2. \A d \in found' : Sound(d)
  BY <1>1, CompareOrderIsSound DEF ReconciliationInv, ReconTypeInv
<1> QED
  BY <1>2, SearchPreserves DEF ReconcileOrder, ReconciliationInv, ReconTypeInv, worldVars, dbVars

LEMMA ListPositionsPreserves ==
    ASSUME ReconciliationInv, ListPositions PROVE ReconciliationInv'
<1>1. \A h \in held' : h.p \in Positions
  BY DEF ListPositions
<1> QED
  BY <1>1, SearchPreserves DEF ListPositions, ReconciliationInv, ReconTypeInv, worldVars, dbVars

LEMMA ReconcilePositionsPreserves ==
    ASSUME ReconciliationInv, ReconcilePositions PROVE ReconciliationInv'
<1>1. PICK drift \in SUBSET Positions :
        found' = found \/ found' = found \cup ComparePositions(drift)
  BY DEF ReconcilePositions
<1>2. \A d \in found' : Sound(d)
  BY <1>1, ComparePositionsIsSound DEF ReconciliationInv, ReconTypeInv
<1> QED
  BY <1>2, SearchPreserves DEF ReconcilePositions, worldVars, dbVars

LEMMA ReconcileStopLossesPreserves ==
    ASSUME ReconciliationInv, ReconcileStopLosses PROVE ReconciliationInv'
<1>1. \A d \in MissingStopLosses : Sound(d)
  BY FoundIsSound DEF MissingStopLosses
<1>2. \A d \in found' : Sound(d)
  BY <1>1 DEF ReconcileStopLosses, ReconciliationInv, ReconTypeInv
<1> QED
  BY <1>2, SearchPreserves DEF ReconcileStopLosses, worldVars, dbVars

LEMMA PersistDiscrepancyPreserves ==
    ASSUME ReconciliationInv, PersistDiscrepancy PROVE ReconciliationInv'
<1>1. PICK ok \in BOOLEAN :
        /\ rows' = IF ok THEN rows \cup {First} ELSE rows
        /\ todo' = IF ok THEN todo \ {First} ELSE {}
        /\ phase' = IF ok THEN phase ELSE "failed"
  BY DEF PersistDiscrepancy, First
<1>2. /\ phase = "persist"
      /\ UNCHANGED <<order, position, rlock, held, found, pcopy, run>>
  BY DEF PersistDiscrepancy, worldVars
<1>3. ReconTypeInv' /\ SerialRuns'
  BY <1>1, <1>2 DEF ReconciliationInv, ReconTypeInv, SerialRuns, Phases
<1>4. ASSUME ok PROVE \A d \in found \ todo' : Matched(d)'
  <2> TAKE d \in found \ todo'
  <2>1. CASE d = First
    BY <1>1, <1>4, <2>1 DEF Matched
  <2>2. CASE d # First
    BY <1>1, <1>2, <1>4, <2>2 DEF ReconciliationInv, StoredInv, Matched
  <2> QED
    BY <2>1, <2>2
<1>5. StoredInv'
  BY <1>1, <1>2, <1>4 DEF StoredInv
<1>6. ResolutionInv'
  BY <1>1, <1>2 DEF ReconciliationInv, ResolutionInv
<1> QED
  BY <1>3, <1>5, <1>6 DEF ReconciliationInv

LEMMA BeginResolutionPreserves ==
    ASSUME ReconciliationInv, BeginResolution PROVE ReconciliationInv'
<1>1. /\ phase = "persist" /\ phase' = "resolve" /\ todo = {}
      /\ UNCHANGED <<order, position, rlock, held, found, pcopy, rows, run>>
      /\ \A d \in todo' : d \in found /\ d.type = "quantity_mismatch"
  BY DEF BeginResolution, worldVars, dbVars
<1>2. ReconTypeInv' /\ SerialRuns'
  BY <1>1 DEF ReconciliationInv, ReconTypeInv, SerialRuns, Phases
<1>3. StoredInv' /\ ResolutionInv'
  BY <1>1 DEF ReconciliationInv, StoredInv, ResolutionInv, Matched
<1> QED
  BY <1>2, <1>3 DEF ReconciliationInv

LEMMA ReadPositionPreserves ==
    ASSUME ReconciliationInv, ReadPosition PROVE ReconciliationInv'
<1>1. /\ phase = "resolve" /\ todo # {} /\ pcopy = None
      /\ UNCHANGED <<order, position, rlock, phase, held, found, rows, run>>
      /\ \/ /\ First.val # 0 /\ position[First.x].st = "OPEN"
            /\ pcopy' = [p |-> First.x, st |-> position[First.x].st,
                         qty |-> position[First.x].qty]
            /\ todo' = todo
         \/ pcopy' = pcopy /\ todo' = todo \ {First}
  BY DEF ReadPosition, First, worldVars, dbVars
<1>2. ReconTypeInv' /\ SerialRuns' /\ StoredInv'
  BY <1>1 DEF ReconciliationInv, ReconTypeInv, SerialRuns, StoredInv, Matched
<1>3. pcopy' # None => pcopy'.st = "OPEN" /\ todo' # {} /\ First' = First /\ First.val # 0
  BY <1>1 DEF First
<1>4. ResolutionInv'
  BY <1>1, <1>3 DEF ReconciliationInv, ResolutionInv
<1> QED
  BY <1>2, <1>4 DEF ReconciliationInv

LEMMA WritePositionPreserves ==
    ASSUME ReconciliationInv, WritePosition PROVE ReconciliationInv'
<1>1. /\ phase = "resolve" /\ pcopy # None /\ pcopy' = None
      /\ UNCHANGED <<order, rlock, held, found, rows, run>>
      /\ \/ /\ position' = [position EXCEPT ![First.x].st = pcopy.st, ![First.x].qty = First.val]
            /\ phase' = "mark" /\ todo' = todo
         \/ phase' = phase /\ position' = position /\ todo' = todo \ {First}
  BY DEF WritePosition, First, Corrected, dbVars
<1>2. todo # {} /\ pcopy.st = "OPEN" /\ First.val \in Qty
  <2>1. todo # {} /\ pcopy.st = "OPEN" /\ First.val # 0
    BY <1>1 DEF ReconciliationInv, ResolutionInv
  <2>2. First \in found /\ First.type = "quantity_mismatch"
    BY <1>1, <2>1, FirstInTodo DEF ReconciliationInv, ResolutionInv
  <2> QED
    BY <2>1, <2>2 DEF ReconciliationInv, ReconTypeInv, Sound
<1>3. position' \in [Positions -> Position]
  BY <1>1, <1>2 DEF ReconciliationInv, ReconTypeInv, Position
<1>4. ReconTypeInv' /\ SerialRuns' /\ StoredInv'
  BY <1>1, <1>3 DEF ReconciliationInv, ReconTypeInv, SerialRuns, StoredInv, Matched, Phases
<1>5. ResolutionInv'
  BY <1>1, <1>2 DEF ReconciliationInv, ResolutionInv
<1> QED
  BY <1>4, <1>5 DEF ReconciliationInv

LEMMA MarkResolvedPreserves ==
    ASSUME ReconciliationInv, MarkResolved PROVE ReconciliationInv'
<1> DEFINE e == [First EXCEPT !.st = "AUTO_RESOLVED"]
<1>1. PICK ok \in BOOLEAN :
        /\ phase = "mark" /\ phase' = "resolve"
        /\ found' = (found \ {First}) \cup {e}
        /\ rows' = IF ok THEN (rows \ {First}) \cup {e} ELSE rows
        /\ todo' = todo \ {First}
        /\ UNCHANGED <<order, position, rlock, held, pcopy, run>>
  BY DEF MarkResolved, First, worldVars
<1>2. First \in found /\ Sound(First) /\ Matched(First)
  BY <1>1, FirstInTodo DEF ReconciliationInv, ResolutionInv, ReconTypeInv, StoredInv
<1>3. e.type = First.type /\ e.x = First.x /\ Sound(e)
  BY <1>2 DEF Sound, Discrepancy
<1> HIDE DEF e
<1>4. ReconTypeInv' /\ SerialRuns'
  BY <1>1, <1>3 DEF ReconciliationInv, ReconTypeInv, SerialRuns, Phases
<1>5. ASSUME NEW d \in found' PROVE Matched(d)'
  <2>1. PICK r \in rows : r.type = d.type /\ r.x = d.x
    BY <1>1, <1>2, <1>3 DEF ReconciliationInv, StoredInv, Matched
  <2>2. CASE r \in rows'
    BY <2>1, <2>2 DEF Matched
  <2>3. CASE r \notin rows'
    BY <1>1, <1>3, <2>1, <2>3 DEF Matched
  <2> QED
    BY <2>2, <2>3
<1>6. StoredInv'
  BY <1>1, <1>5 DEF StoredInv
<1>7. ResolutionInv'
  BY <1>1 DEF ReconciliationInv, ResolutionInv
<1> QED
  BY <1>4, <1>6, <1>7 DEF ReconciliationInv

(* The phases after the resolution change no discrepancy and no row.         *)
LEMMA ReportPreserves ==
    ASSUME ReconciliationInv, phase \in {"resolve", "incidents", "write"},
           pcopy = None, phase' \in {"incidents", "write"},
           UNCHANGED <<order, position, rlock, held, found, pcopy, rows, run>>
    PROVE  ReconciliationInv'
BY DEF ReconciliationInv, ReconTypeInv, SerialRuns, StoredInv, ResolutionInv, Matched, Phases

LEMMA FinishRunPreserves ==
    ASSUME ReconciliationInv, FinishRun PROVE ReconciliationInv'
<1>1. ReconTypeInv' /\ SerialRuns'
  BY DEF FinishRun, ReconciliationInv, ReconTypeInv, SerialRuns, Phases, worldVars
<1>2. StoredInv' /\ ResolutionInv'
  BY DEF FinishRun, ReconciliationInv, StoredInv, ResolutionInv
<1> QED
  BY <1>1, <1>2 DEF ReconciliationInv

-----------------------------------------------------------------------------
(* The rest of the system                                                   *)

LEMMA ElsewherePreserves ==
    ASSUME ReconciliationInv, Elsewhere,
           order' \in [Orders -> [st : OrderStatus, book : BrokerStatus]],
           position' \in [Positions -> Position]
    PROVE  ReconciliationInv'
BY DEF Elsewhere, runVars, dbVars, ReconciliationInv, ReconTypeInv, SerialRuns, StoredInv,
       ResolutionInv, Matched, First

LEMMA OrderStepsPreserve ==
    ASSUME ReconciliationInv, NEW o \in Orders,
           \/ \E b \in BrokerTerminal : BrokerSettles(o, b)
           \/ AcknowledgeOrder(o) \/ SyncOrder(o) \/ Ages(o)
    PROVE  ReconciliationInv'
<1>1. order' \in [Orders -> [st : OrderStatus, book : BrokerStatus]] /\ Elsewhere /\ position' = position
  BY DEF ReconciliationInv, ReconTypeInv, BrokerSettles, AcknowledgeOrder, SyncOrder, Ages,
         BrokerTerminal, BrokerStatus, OrderStatus, NonTerminal, Internal
<1> QED
  BY <1>1, ElsewherePreserves DEF ReconciliationInv, ReconTypeInv

LEMMA PositionStepsPreserve ==
    ASSUME ReconciliationInv, NEW p \in Positions,
           \/ \E q \in Qty \cup {0} : BrokerTrades(p, q)
           \/ \E stop \in BOOLEAN : OpenPosition(p, stop)
           \/ ClosePosition(p)
    PROVE  ReconciliationInv'
<1>1. position' \in [Positions -> Position] /\ Elsewhere /\ order' = order
  BY DEF ReconciliationInv, ReconTypeInv, Position, BrokerTrades, OpenPosition, ClosePosition
<1> QED
  BY <1>1, ElsewherePreserves DEF ReconciliationInv, ReconTypeInv

LEMMA ReconRestartPreserves ==
    ASSUME ReconciliationInv, ReconRestart PROVE ReconciliationInv'
BY DEF ReconRestart, worldVars, dbVars, ReconciliationInv, ReconTypeInv, SerialRuns, StoredInv,
       ResolutionInv, Phases

LEMMA ReconciliationInvNext ==
    ReconciliationInv /\ [ReconNext]_reconVars => ReconciliationInv'
<1> SUFFICES ASSUME ReconciliationInv, [ReconNext]_reconVars PROVE ReconciliationInv'
  OBVIOUS
<1>1. ASSUME NEW t \in Clients, NEW b \in Brokers, StartRun(t, b) PROVE ReconciliationInv'
  BY <1>1, StartRunPreserves
<1>2. ASSUME ReconStep PROVE ReconciliationInv'
  <2>1. CASE BeginIncidents
    <3>1. /\ phase = "resolve" /\ todo = {} /\ phase' = "incidents"
          /\ UNCHANGED <<order, position, rlock, held, found, pcopy, rows, run>>
      BY <2>1 DEF BeginIncidents, worldVars, dbVars
    <3> QED
      BY <3>1, ReportPreserves DEF ReconciliationInv, ResolutionInv
  <2>2. CASE FindRunIncident
    <3>1. /\ phase = "incidents" /\ phase' = "write"
          /\ UNCHANGED <<order, position, rlock, held, found, pcopy, rows, run>>
      BY <2>2 DEF FindRunIncident, worldVars, dbVars
    <3> QED
      BY <3>1, ReportPreserves DEF ReconciliationInv, ResolutionInv
  <2>3. CASE WriteRunIncident
    <3>1. /\ phase = "write" /\ phase' = "incidents"
          /\ UNCHANGED <<order, position, rlock, held, found, pcopy, rows, run>>
      BY <2>3 DEF WriteRunIncident, worldVars, dbVars
    <3> QED
      BY <3>1, ReportPreserves DEF ReconciliationInv, ResolutionInv
  <2> QED
    BY <1>2, <2>1, <2>2, <2>3, ListOrdersPreserves, ReconcileOrderPreserves,
       ListPositionsPreserves, ReconcilePositionsPreserves, ReconcileStopLossesPreserves,
       PersistDiscrepancyPreserves, BeginResolutionPreserves, ReadPositionPreserves,
       WritePositionPreserves, MarkResolvedPreserves, FinishRunPreserves DEF ReconStep
<1>3. ASSUME UNCHANGED reconVars PROVE ReconciliationInv'
  BY <1>3, ElsewherePreserves
     DEF reconVars, worldVars, Elsewhere, ReconciliationInv, ReconTypeInv
<1> QED
  BY <1>1, <1>2, <1>3, OrderStepsPreserve, PositionStepsPreserve, ReconRestartPreserves DEF ReconNext

-----------------------------------------------------------------------------
(* The theorems                                                             *)

(* No run corrects a position to a quantity that is not positive, and runs   *)
(* are serial (broker_reconciliation_service.py: run_full_reconciliation,    *)
(* _resolve_quantity_mismatch).                                              *)
THEOREM ReconciliationInvariant == ReconSpec => []ReconciliationInv
<1> QED
  BY ReconciliationInvInit, ReconciliationInvNext, PTL DEF ReconSpec

(* Only the last step of a run that no failed write has ended marks it       *)
(* COMPLETED.                                                                *)
LEMMA CompletedByFinish ==
    ASSUME [ReconNext]_reconVars, run' = "COMPLETED", run # "COMPLETED"
    PROVE  phase = "incidents" /\ UNCHANGED rows
<1>1. ASSUME NEW t \in Clients, NEW b \in Brokers, StartRun(t, b) PROVE FALSE
  BY <1>1 DEF StartRun
<1>2. ASSUME ReconStep, ~FinishRun PROVE FALSE
  BY <1>2 DEF ReconStep, ListOrders, ReconcileOrder, ListPositions, ReconcilePositions,
              ReconcileStopLosses, PersistDiscrepancy, BeginResolution, ReadPosition,
              WritePosition, MarkResolved, BeginIncidents, FindRunIncident, WriteRunIncident, dbVars
<1>3. ASSUME NEW o \in Orders,
             \/ \E b \in BrokerTerminal : BrokerSettles(o, b)
             \/ AcknowledgeOrder(o) \/ SyncOrder(o) \/ Ages(o)
      PROVE  FALSE
  BY <1>3 DEF BrokerSettles, AcknowledgeOrder, SyncOrder, Ages, Elsewhere, dbVars
<1>4. ASSUME NEW p \in Positions,
             \/ \E q \in Qty \cup {0} : BrokerTrades(p, q)
             \/ \E stop \in BOOLEAN : OpenPosition(p, stop)
             \/ ClosePosition(p)
      PROVE  FALSE
  BY <1>4 DEF BrokerTrades, OpenPosition, ClosePosition, Elsewhere, dbVars
<1>5. ASSUME ReconRestart \/ UNCHANGED reconVars PROVE FALSE
  BY <1>5 DEF ReconRestart, reconVars, dbVars
<1>6. FinishRun
  BY <1>1, <1>2, <1>3, <1>4, <1>5 DEF ReconNext
<1> QED
  BY <1>6 DEF FinishRun

(* A run is marked COMPLETED only with a row for each discrepancy it found:  *)
(* a write that fails ends the run as FAILED.                                *)
THEOREM CompletedRunIsStoredTheorem == ReconSpec => CompletedRunIsStored
<1>1. ReconciliationInv /\ [ReconNext]_reconVars =>
        [run' = "COMPLETED" /\ run # "COMPLETED"
           => \A d \in found : \E r \in rows' : r.type = d.type /\ r.x = d.x]_reconVars
  BY CompletedByFinish DEF ReconciliationInv, StoredInv, Matched
<1> QED
  BY <1>1, ReconciliationInvariant, PTL DEF ReconSpec, CompletedRunIsStored

(* Only the resolution's write touches a closed position, and only with a    *)
(* document it had read while the position was open.                         *)
LEMMA ClosedKept ==
    ASSUME ReconciliationInv, [ReconNext]_reconVars, NEW p \in Positions,
           position[p].st = "CLOSED", ~raced'
    PROVE  position'[p].st = "CLOSED" /\ position'[p].qty = position[p].qty
<1>1. CASE position' = position
  BY <1>1
<1>2. CASE WritePosition
  <2>1. PICK ok \in BOOLEAN :
          IF ok
          THEN /\ position' = [position EXCEPT ![First.x].st = pcopy.st,
                                               ![First.x].qty = Corrected(First)]
               /\ raced' = (raced \/ position[First.x].st # pcopy.st
                                  \/ position[First.x].qty # pcopy.qty)
          ELSE position' = position
    BY <1>2 DEF WritePosition, First
  <2>2. pcopy.st = "OPEN"
    BY <1>2 DEF WritePosition, ReconciliationInv, ResolutionInv
  <2>3. CASE p = First.x
    BY <1>1, <2>1, <2>2, <2>3
  <2>4. CASE p # First.x
    BY <2>1, <2>4 DEF ReconciliationInv, ReconTypeInv
  <2> QED
    BY <2>3, <2>4
<1>3. ASSUME NEW u \in Positions, \E q \in Qty \cup {0} : BrokerTrades(u, q)
      PROVE  position'[p].st = "CLOSED" /\ position'[p].qty = position[p].qty
  BY <1>3 DEF BrokerTrades, ReconciliationInv, ReconTypeInv, Position
<1>4. ASSUME NEW u \in Positions, (\E stop \in BOOLEAN : OpenPosition(u, stop)) \/ ClosePosition(u)
      PROVE  position'[p].st = "CLOSED" /\ position'[p].qty = position[p].qty
  BY <1>4 DEF OpenPosition, ClosePosition, ReconciliationInv, ReconTypeInv, Position
<1>5. \/ position' = position \/ WritePosition
      \/ \E u \in Positions :
            \/ \E q \in Qty \cup {0} : BrokerTrades(u, q)
            \/ \E stop \in BOOLEAN : OpenPosition(u, stop)
            \/ ClosePosition(u)
  <2>1. ASSUME ReconStep PROVE position' = position \/ WritePosition
    BY <2>1 DEF ReconStep, ListOrders, ReconcileOrder, ListPositions, ReconcilePositions,
                ReconcileStopLosses, PersistDiscrepancy, BeginResolution, ReadPosition,
                MarkResolved, BeginIncidents, FindRunIncident, WriteRunIncident, FinishRun, worldVars
  <2>2. ASSUME NEW o \in Orders,
               \/ \E b \in BrokerTerminal : BrokerSettles(o, b)
               \/ AcknowledgeOrder(o) \/ SyncOrder(o) \/ Ages(o)
        PROVE  position' = position
    BY <2>2 DEF BrokerSettles, AcknowledgeOrder, SyncOrder, Ages
  <2>3. ASSUME ReconRestart \/ (\E t \in Clients, b \in Brokers : StartRun(t, b)) \/ UNCHANGED reconVars
        PROVE  position' = position
    BY <2>3 DEF ReconRestart, StartRun, reconVars, worldVars
  <2> QED
    BY <2>1, <2>2, <2>3 DEF ReconNext
<1> QED
  BY <1>1, <1>2, <1>3, <1>4, <1>5

(* No run changes or reopens a closed position, unless it closed between the *)
(* resolution's read and its write.                                          *)
THEOREM ClosedStaysClosedTheorem == ReconSpec => ClosedStaysClosed
<1>1. ReconciliationInv /\ [ReconNext]_reconVars =>
        [\A p \in Positions :
           position[p].st = "CLOSED" /\ ~raced'
             => position'[p].st = "CLOSED" /\ position'[p].qty = position[p].qty]_reconVars
  BY ClosedKept
<1> QED
  BY <1>1, ReconciliationInvariant, PTL DEF ReconSpec, ClosedStaysClosed
=============================================================================
