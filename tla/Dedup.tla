-------------------------------- MODULE Dedup --------------------------------
(***************************************************************************)
(* rca/pipeline.py: which error becomes a new incident.  Every trigger     *)
(* holds one process-wide asyncio.Lock over the fingerprint lookup and     *)
(* either the hit-count bump of the incident it maps to or the creation of *)
(* a new one.  The fingerprint key expires DEDUP_WINDOW_SECONDS after it   *)
(* was set; incidents are finished, reopened and cleared by others.        *)
(***************************************************************************)
EXTENDS Naturals, FiniteSets

CONSTANTS
    Triggers,       \* one call of trigger() or trigger_*() each
    Fingerprints,
    Fp,          \* trigger -> its fingerprint
    None

ASSUME DedupAssumption ==
    /\ Fp \in [Triggers -> Fingerprints]
    /\ None \notin Triggers

\* The incident a trigger creates has a fresh id: the trigger's own name.
Incidents == Triggers

VARIABLES
    table,      \* fingerprint -> incident id, or None
    status,     \* incident -> "absent", "live" or "final" (_TERMINAL_FOR_DEDUP)
    hits,       \* incident -> hit_count
    lock,       \* owner of _dedup_lock
    pc,         \* trigger -> where it is
    found,      \* trigger -> the id dedup_get returned
    count,      \* trigger -> the hit_count get_incident returned
    returned,   \* trigger -> the incident it returned, or None
    closed,     \* history: incidents that were finished or deleted once
    elapsed     \* history: incidents whose window is over

vars == <<table, status, hits, lock, pc, found, count, returned, closed, elapsed>>
local == <<pc, found, count, returned>>

Init ==
    /\ table = [f \in Fingerprints |-> None]
    /\ status = [i \in Incidents |-> "absent"]
    /\ hits = [i \in Incidents |-> 0]
    /\ lock = None
    /\ pc = [t \in Triggers |-> "idle"]
    /\ found = [t \in Triggers |-> None]
    /\ count = [t \in Triggers |-> 0]
    /\ returned = [t \in Triggers |-> None]
    /\ closed = {}
    /\ elapsed = {}

Goto(t, from, to) == pc[t] = from /\ pc' = [pc EXCEPT ![t] = to]

-----------------------------------------------------------------------------
Call(t) ==
    /\ Goto(t, "idle", "waiting")
    /\ UNCHANGED <<table, status, hits, lock, found, count, returned, closed, elapsed>>

\* Mutant: no lock.
AcquireAnyway(t) ==
    /\ Goto(t, "waiting", "lookup")
    /\ lock' = t
    /\ UNCHANGED <<table, status, hits, found, count, returned, closed, elapsed>>

Acquire(t) ==
    /\ Goto(t, "waiting", "lookup")
    /\ lock = None
    /\ lock' = t
    /\ UNCHANGED <<table, status, hits, found, count, returned, closed, elapsed>>

\* _dedup_bump: store.dedup_get ...
Lookup(t) ==
    /\ LET f == Fp[t] IN
        /\ Goto(t, "lookup", IF table[f] = None THEN "create" ELSE "inspect")
        /\ found' = [found EXCEPT ![t] = table[f]]
    /\ UNCHANGED <<table, status, hits, lock, count, returned, closed, elapsed>>

\* Mutant: the lock is released before the hit count is written.
InspectAndRelease(t) ==
    /\ Goto(t, "inspect", IF status[found[t]] = "live" THEN "bump" ELSE "create")
    /\ count' = [count EXCEPT ![t] = hits[found[t]]]
    /\ lock' = None
    /\ UNCHANGED <<table, status, hits, found, returned, closed, elapsed>>

\* ... get_incident and the status check ...
Inspect(t) ==
    /\ Goto(t, "inspect", IF status[found[t]] = "live" THEN "bump" ELSE "create")
    /\ count' = [count EXCEPT ![t] = hits[found[t]]]
    /\ UNCHANGED <<table, status, hits, lock, found, returned, closed, elapsed>>

\* ... and update_incident(hit_count = read + 1), which does nothing to an
\* incident deleted in between.  The trigger returns what it read.
Bump(t) ==
    /\ Goto(t, "bump", "done")
    /\ hits' = IF status[found[t]] = "absent" THEN hits
               ELSE [hits EXCEPT ![found[t]] = count[t] + 1]
    /\ returned' = [returned EXCEPT ![t] = found[t]]
    /\ lock' = None
    /\ UNCHANGED <<table, status, found, count, closed, elapsed>>

\* save_incident ...
Create(t) ==
    /\ Goto(t, "create", "register")
    /\ status' = [status EXCEPT ![t] = "live"]
    /\ hits' = [hits EXCEPT ![t] = 1]
    /\ UNCHANGED <<table, lock, found, count, returned, closed, elapsed>>

\* ... dedup_set, and the lock is released.
Register(t) ==
    /\ Goto(t, "register", "done")
    /\ table' = [table EXCEPT ![Fp[t]] = t]
    /\ returned' = [returned EXCEPT ![t] = t]
    /\ lock' = None
    /\ UNCHANGED <<status, hits, found, count, closed, elapsed>>

\* Mutant: an exception leaves the lock taken.
StoreErrorLocked(t) ==
    /\ pc[t] \in {"lookup", "inspect", "bump", "create", "register"}
    /\ pc' = [pc EXCEPT ![t] = "failed"]
    /\ UNCHANGED <<table, status, hits, lock, found, count, returned, closed, elapsed>>

\* Any of these store calls may raise: async with releases the lock, and an
\* incident that was saved but not registered stays behind.
StoreError(t) ==
    /\ pc[t] \in {"lookup", "inspect", "bump", "create", "register"}
    /\ pc' = [pc EXCEPT ![t] = "failed"]
    /\ lock' = None
    /\ UNCHANGED <<table, status, hits, found, count, returned, closed, elapsed>>

-----------------------------------------------------------------------------
\* Approved, dismissed or resolved by somebody else.
Finish(i) ==
    /\ status[i] = "live"
    /\ status' = [status EXCEPT ![i] = "final"]
    /\ closed' = closed \cup {i}
    /\ UNCHANGED <<table, hits, lock, local, elapsed>>

\* A late pipeline or PR step writes a live status over a final one.
Reopen(i) ==
    /\ status[i] = "final"
    /\ status' = [status EXCEPT ![i] = "live"]
    /\ UNCHANGED <<table, hits, lock, local, closed, elapsed>>

\* clear_all deletes incidents; the table is kept.
ClearAll ==
    /\ \E i \in Incidents : status[i] # "absent"
    /\ closed' = closed \cup {i \in Incidents : status[i] # "absent"}
    /\ status' = [i \in Incidents |-> "absent"]
    /\ UNCHANGED <<table, hits, lock, local, elapsed>>

\* The fingerprint key expires.
WindowOver(f) ==
    /\ table[f] # None
    /\ elapsed' = elapsed \cup {table[f]}
    /\ table' = [table EXCEPT ![f] = None]
    /\ UNCHANGED <<status, hits, lock, local, closed>>

TriggerStep(t) ==
    \/ Acquire(t)
    \/ Lookup(t)
    \/ Inspect(t)
    \/ Bump(t)
    \/ Create(t)
    \/ Register(t)

Next ==
    \/ \E t \in Triggers : Call(t) \/ TriggerStep(t) \/ StoreError(t)
    \/ \E i \in Incidents : Finish(i) \/ Reopen(i)
    \/ \E f \in Fingerprints : WindowOver(f)
    \/ ClearAll

Spec == Init /\ [][Next]_vars

\* asyncio.Lock wakes its waiters in FIFO order; a coroutine runs on.
Fairness ==
    \A t \in Triggers :
        /\ SF_vars(Acquire(t))
        /\ WF_vars(Lookup(t)) /\ WF_vars(Inspect(t)) /\ WF_vars(Bump(t))
        /\ WF_vars(Create(t)) /\ WF_vars(Register(t))

FairSpec == Spec /\ Fairness

-----------------------------------------------------------------------------
TypeOK ==
    /\ table \in [Fingerprints -> Incidents \cup {None}]
    /\ status \in [Incidents -> {"absent", "live", "final"}]
    /\ hits \in [Incidents -> Nat]
    /\ lock \in Triggers \cup {None}
    /\ pc \in [Triggers -> {"idle", "waiting", "lookup", "inspect", "bump",
                            "create", "register", "done", "failed"}]
    /\ found \in [Triggers -> Incidents \cup {None}]
    /\ count \in [Triggers -> Nat]
    /\ returned \in [Triggers -> Incidents \cup {None}]
    /\ closed \subseteq Incidents
    /\ elapsed \subseteq Incidents

\* The incidents whose creation went through and whose dedup window is open.
Current == {i \in Incidents : returned[i] = i} \ (closed \cup elapsed)

\* No twins: two incidents of one fingerprint inside the window exist only when
\* the first was finished or deleted (pipeline.py: "two concurrent triggers for
\* the same fingerprint can't both miss the table and create twin incidents").
NoTwins == \A i, j \in Current : Fp[i] = Fp[j] => i = j

\* No hit is lost or counted twice: hit_count is one plus the number of
\* triggers that were collapsed into the incident.
EveryHitCounted ==
    \A i \in Incidents \ closed :
        status[i] = "live" =>
            hits[i] = 1 + Cardinality({t \in Triggers \ {i} : returned[t] = i})

\* A trigger that is waiting for the lock gets its answer, whatever fails in
\* the ones before it.
TriggersReturn == \A t \in Triggers : pc[t] = "waiting" ~> pc[t] \in {"done", "failed"}

=============================================================================
