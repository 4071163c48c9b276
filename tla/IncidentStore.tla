---------------------------- MODULE IncidentStore ----------------------------
(***************************************************************************)
(* store.py: how one incident record is written.  update_incident and      *)
(* finalize_pr_open read the JSON, patch it and write it back, with awaits *)
(* in between, under the incident's asyncio.Lock; the Postgres mirror is   *)
(* written before the lock is released.  save_incident and clear_all do    *)
(* not take the lock.                                                      *)
(***************************************************************************)
EXTENDS Naturals

CONSTANTS
    Writers,            \* coroutines that call update_incident once
    Creator,            \* the coroutine that calls save_incident
    Fields, Values,     \* the fields of the record and what they may hold
    Default,            \* what every field holds in a new incident
    Absent,             \* no such key, no such row
    Free                \* the lock has no owner

ASSUME StoreAssumption ==
    /\ Creator \notin Writers
    /\ Free \notin Writers
    /\ Default \in Values
    /\ Absent \notin [Fields -> Values]

Records == [Fields -> Values]

VARIABLES
    rec,        \* the Redis key
    row,        \* the Postgres row
    lock,       \* owner of _incident_locks[incident_id]
    pc,         \* Writers and Creator: where each coroutine is
    patch,      \* writer -> the field and value it was called with
    read,       \* writer -> the record it read
    clearing,   \* clear_all has emptied Redis and not yet Postgres
    last,       \* history: per field, the value last written to Redis
    behind      \* history: a Postgres write failed or landed out of order

vars == <<rec, row, lock, pc, patch, read, clearing, last, behind>>

Fresh == [f \in Fields |-> Default]

Init ==
    /\ rec = Absent
    /\ row = Absent
    /\ lock = Free
    /\ pc = [p \in Writers \cup {Creator} |-> "idle"]
    /\ patch \in [Writers -> Fields \X Values]
    /\ read = [w \in Writers |-> Absent]
    /\ clearing = FALSE
    /\ last = Fresh
    /\ behind = FALSE

Step(p, from, to) == pc[p] = from /\ pc' = [pc EXCEPT ![p] = to]

-----------------------------------------------------------------------------
\* save_incident: the Redis pipeline, then the durable upsert of the same
\* model, best effort.
Save ==
    /\ Step(Creator, "idle", "saved")
    /\ rec' = Fresh
    /\ UNCHANGED <<row, lock, patch, read, clearing, last, behind>>

SaveUpsert(ok) ==
    /\ Step(Creator, "saved", "done")
    /\ row' = IF ok THEN Fresh ELSE row
    /\ behind' = (behind \/ ~ok \/ row \notin {Absent, Fresh})
    /\ UNCHANGED <<rec, lock, patch, read, clearing, last>>

\* update_incident: queue for the lock; GET; SET with keepttl; upsert and
\* release.
Call(w) ==
    /\ Step(w, "idle", "waiting")
    /\ rec # Absent         \* the caller has seen the incident
    /\ UNCHANGED <<rec, row, lock, patch, read, clearing, last, behind>>

\* Mutant: no lock.
AcquireAnyway(w) ==
    /\ Step(w, "waiting", "locked")
    /\ lock' = w
    /\ UNCHANGED <<rec, row, patch, read, clearing, last, behind>>

Acquire(w) ==
    /\ Step(w, "waiting", "locked")
    /\ lock = Free
    /\ lock' = w
    /\ UNCHANGED <<rec, row, patch, read, clearing, last, behind>>

Get(w) ==
    /\ IF rec = Absent
       THEN /\ Step(w, "locked", "done")
            /\ lock' = Free
            /\ UNCHANGED read
       ELSE /\ Step(w, "locked", "got")
            /\ read' = [read EXCEPT ![w] = rec]
            /\ UNCHANGED lock
    /\ UNCHANGED <<rec, row, patch, clearing, last, behind>>

Patched(w) == [read[w] EXCEPT ![patch[w][1]] = patch[w][2]]

\* Mutant: the lock is released before the mirror is written.
SetAndRelease(w) ==
    /\ Step(w, "got", "set")
    /\ rec' = Patched(w)
    /\ last' = [last EXCEPT ![patch[w][1]] = patch[w][2]]
    /\ lock' = Free
    /\ UNCHANGED <<row, patch, read, clearing, behind>>

Set(w) ==
    /\ Step(w, "got", "set")
    /\ rec' = Patched(w)
    /\ last' = [last EXCEPT ![patch[w][1]] = patch[w][2]]
    /\ UNCHANGED <<row, lock, patch, read, clearing, behind>>

\* Mutant: a failing mirror keeps the lock.
UpsertStuck(w, ok) ==
    /\ Step(w, "set", "done")
    /\ row' = IF ok THEN Patched(w) ELSE row
    /\ behind' = (behind \/ ~ok)
    /\ lock' = IF ok THEN Free ELSE lock
    /\ UNCHANGED <<rec, patch, read, clearing, last>>

Upsert(w, ok) ==
    /\ Step(w, "set", "done")
    /\ row' = IF ok THEN Patched(w) ELSE row
    /\ behind' = (behind \/ ~ok)
    /\ lock' = Free
    /\ UNCHANGED <<rec, patch, read, clearing, last>>

\* clear_all: Redis first, Postgres after; no lock is taken.
ClearRedis ==
    /\ rec # Absent
    /\ ~clearing
    /\ rec' = Absent
    /\ clearing' = TRUE
    /\ behind' = TRUE
    /\ UNCHANGED <<row, lock, pc, patch, read, last>>

ClearRows(ok) ==
    /\ clearing
    /\ row' = IF ok THEN Absent ELSE row
    /\ clearing' = FALSE
    /\ UNCHANGED <<rec, lock, pc, patch, read, last, behind>>

-----------------------------------------------------------------------------
Write ==
    \/ Save
    \/ \E ok \in BOOLEAN : SaveUpsert(ok)
    \/ \E w \in Writers :
        \/ Call(w)
        \/ Acquire(w)
        \/ Get(w)
        \/ Set(w)
        \/ \E ok \in BOOLEAN : Upsert(w, ok)

Clear == ClearRedis \/ \E ok \in BOOLEAN : ClearRows(ok)

Next == Write \/ Clear

Spec == Init /\ [][Next]_vars

\* Every coroutine that holds the lock goes on, and asyncio.Lock is FIFO.
Fairness ==
    \A w \in Writers :
        /\ SF_vars(Acquire(w))
        /\ WF_vars(Get(w))
        /\ WF_vars(Set(w))
        /\ WF_vars(Upsert(w, TRUE) \/ Upsert(w, FALSE))

FairSpec == Spec /\ Fairness

-----------------------------------------------------------------------------
TypeOK ==
    /\ rec \in Records \cup {Absent}
    /\ row \in Records \cup {Absent}
    /\ lock \in Writers \cup {Free}
    /\ pc \in [Writers \cup {Creator} ->
                {"idle", "saved", "waiting", "locked", "got", "set", "done"}]
    /\ patch \in [Writers -> Fields \X Values]
    /\ read \in [Writers -> Records \cup {Absent}]
    /\ clearing \in BOOLEAN
    /\ last \in Records
    /\ behind \in BOOLEAN

\* No lost update, resets included: whatever record is in Redis holds, in every
\* field, the value last written to that field by anyone (update_incident:
\* "concurrent updates cannot overwrite each other's fields").
NoLostUpdate == rec # Absent => \A f \in Fields : rec[f] = last[f]

\* The mirror keeps up: once no write is under way, Postgres holds what Redis
\* holds, unless a durable write failed, save_incident's upsert was overtaken
\* by an update, or the store was cleared.  The upsert inside the lock is what
\* keeps the mirror's writes in the order of the Redis writes.
RowMirrorsRecord ==
    (lock = Free /\ pc[Creator] = "done" /\ ~behind) => row = rec

\* The locked read-modify-write is an atomic patch of one record.
Atomic == INSTANCE AtomicIncident WITH record <- rec, content <- last
ImplementsAtomic == Atomic!Spec

\* Every update_incident call returns: each path releases the lock, so no
\* caller waits for it forever.
UpdatesReturn ==
    \A w \in Writers : pc[w] = "waiting" ~> pc[w] = "done"

=============================================================================
