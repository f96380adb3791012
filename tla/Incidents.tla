------------------------------ MODULE Incidents ------------------------------
(***************************************************************************)
(* IncidentManager and the collection system_incidents.  Its clients are   *)
(* the health aggregator, the broker reconciliation and the operator       *)
(* routes.  create holds the manager's lock from its read to its write;    *)
(* acknowledge, resolve and escalate read the whole document, change it    *)
(* and write it back without the lock.  One operator here is one database  *)
(* call; the client's action says what comes before and after it.          *)
(***************************************************************************)
EXTENDS Integers, FiniteSets

CONSTANTS
    Components,       \* component names incidents are opened for
    Slots,            \* incidents a component may have at one time
    Clients,          \* tasks that call the manager
    None

\* SystemIncident.
SystemIncident ==
    [sev : {"WARNING", "CRITICAL"}, st : {"OPEN", "ACKNOWLEDGED", "RESOLVED"}]

ASSUME IncidentsAssumption == None \notin Clients \union SystemIncident

VARIABLES
    incidents,  \* system_incidents by component and slot
    ilock,      \* IncidentManager._lock
    doc,        \* the incident document a client has read or built
    spoiled     \* history: components with a write from an outdated copy, or a failed read

incidentVars == <<incidents, ilock, doc, spoiled>>

\* The statuses the find_open queries name; INVESTIGATING is assigned nowhere.
OpenStatus == {"OPEN"}

\* Nothing reads the severity of a resolved one.
Incident(sev, st) == [sev |-> sev, st |-> st]
Resolved == Incident("WARNING", "RESOLVED")

IncidentsInit ==
    /\ incidents = [c \in Components |-> [n \in Slots |-> None]]
    /\ ilock = None
    /\ doc = [t \in Clients |-> None]
    /\ spoiled = {}

Exists(c, n) == incidents[c][n] # None
OpenOf(c) == {n \in Slots : Exists(c, n) /\ incidents[c][n].st \in OpenStatus}
Held(c, n) == \E t \in Clients : doc[t] # None /\ doc[t].c = c /\ doc[t].n = n
\* A resolved incident nobody holds makes room for a new one.
FreeSlots(c) == {n \in Slots : (~Exists(c, n) \/ incidents[c][n].st = "RESOLVED") /\ ~Held(c, n)}

\* A document in memory; "NEW" is one that is not in the collection yet.
Copy(c, n) == [c |-> c, n |-> n, sev |-> incidents[c][n].sev, st |-> incidents[c][n].st]
NewDoc(c, sev) ==
    [c |-> c, n |-> CHOOSE n \in FreeSlots(c) : TRUE, sev |-> sev, st |-> "NEW"]
Outdated(d) == d.st # "NEW" /\ incidents[d.c][d.n] # Incident(d.sev, d.st)

\* _upsert of what client t holds, as document i; an error is logged and dropped.
Upsert(t, i, ok) ==
    IF ok
    THEN /\ incidents' = [incidents EXCEPT ![doc[t].c][doc[t].n] = i]
         /\ spoiled' = IF Outdated(doc[t]) THEN spoiled \cup {doc[t].c} ELSE spoiled
    ELSE UNCHANGED <<incidents, spoiled>>

Release(t) == doc' = [doc EXCEPT ![t] = None]

-----------------------------------------------------------------------------
\* A mutant of CreateFind: the lock is not taken.
CreateFindUnlocked(t, c, sev, ok) ==
    /\ ilock' = ilock
    /\ \/ /\ ok /\ \E n \in OpenOf(c) : doc' = [doc EXCEPT ![t] = Copy(c, n)]
          /\ UNCHANGED spoiled
       \/ /\ ~ok \/ OpenOf(c) = {}
          /\ FreeSlots(c) # {}
          /\ doc' = [doc EXCEPT ![t] = NewDoc(c, sev)]
          /\ spoiled' = IF ok THEN spoiled ELSE spoiled \cup {c}
    /\ UNCHANGED incidents

\* create takes the lock and looks for an open incident of the component, of
\* any severity; a read that fails counts as none.
CreateFind(t, c, sev, ok) ==
    /\ ilock = None /\ ilock' = t
    /\ \/ /\ ok /\ \E n \in OpenOf(c) : doc' = [doc EXCEPT ![t] = Copy(c, n)]
          /\ UNCHANGED spoiled
       \/ /\ ~ok \/ OpenOf(c) = {}
          /\ FreeSlots(c) # {}
          /\ doc' = [doc EXCEPT ![t] = NewDoc(c, sev)]
          /\ spoiled' = IF ok THEN spoiled ELSE spoiled \cup {c}
    /\ UNCHANGED incidents

\* It writes the document back, with one more timeline entry or newly opened,
\* and returns it, written or not.
CreateWrite(t, ok) ==
    LET st == IF doc[t].st = "NEW" THEN "OPEN" ELSE doc[t].st
    IN  /\ Upsert(t, Incident(doc[t].sev, st), ok)
        /\ doc' = [doc EXCEPT ![t].st = st]
        /\ ilock' = IF ilock = t THEN None ELSE ilock

\* _get: the document, or None when there is none or the read fails.
Get(t, c, n, ok) ==
    /\ doc' = [doc EXCEPT ![t] = IF ok /\ Exists(c, n) THEN Copy(c, n) ELSE None]
    /\ UNCHANGED <<incidents, ilock, spoiled>>

\* The writes of resolve, acknowledge and escalate.
Resolve(t, ok) == Upsert(t, Resolved, ok) /\ Release(t) /\ UNCHANGED ilock
Acknowledge(t, ok) ==
    /\ IF doc[t].st = "RESOLVED" THEN UNCHANGED <<incidents, spoiled>>
       ELSE Upsert(t, Incident(doc[t].sev, "ACKNOWLEDGED"), ok)
    /\ Release(t)
    /\ UNCHANGED ilock
Escalate(t, ok) ==
    /\ Upsert(t, IF doc[t].st = "RESOLVED" THEN Resolved ELSE Incident("CRITICAL", doc[t].st), ok)
    /\ UNCHANGED ilock

(* A component has at most one open incident: a repeated failure is added   *)
(* to the incident it belongs to, whatever the health job, a health request *)
(* and an operator do at the same time.  It may have more once a read of    *)
(* the collection has failed, or a client has written back a document it    *)
(* had read before another one changed it (incident_manager.py: only create *)
(* holds the lock).                                                         *)
OneOpenIncident == \A c \in Components \ spoiled : Cardinality(OpenOf(c)) <= 1
=============================================================================
