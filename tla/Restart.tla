------------------------------- MODULE Restart -------------------------------
(***************************************************************************)
(* What survives a restart of the single-tenant backend.  Incidents live   *)
(* in Redis under the default workspace's prefix (orqis:t:default:), are   *)
(* mirrored to Postgres, and two boot steps bring data back: the copy of   *)
(* pre-tenant keys into the prefix (workspace_auth.py) and, after it, the  *)
(* rehydration from Postgres (durable.py), which writes the pre-tenant     *)
(* keys.                                                                   *)
(***************************************************************************)
EXTENDS Naturals

CONSTANT Incidents

Status == {"absent", "open", "pr_open", "resolved"}

VARIABLES
    phase,      \* "down", "migrate", "migrate_index", "rehydrate", "up"
    live,       \* orqis:t:default:incident:*
    timeline,   \* orqis:t:default:incidents:timeline
    index,      \* incidents with an orqis:t:default:pr:* entry
    legacy,     \* orqis:incident:*
    legacyTimeline, legacyIndex,
    rows,       \* Postgres
    unmirrored  \* history: a durable write was lost

redis == <<live, timeline, index>>
old == <<legacy, legacyTimeline, legacyIndex>>
restartVars == <<phase, live, timeline, index, legacy, legacyTimeline, legacyIndex,
                 rows, unmirrored>>

Nothing == [i \in Incidents |-> "absent"]
Stored(m) == {i \in Incidents : m[i] # "absent"}
WithPr(m) == {i \in Incidents : m[i] = "pr_open"}

\* The first start of this version: keys of the pre-tenant version, if any,
\* mirrored in Postgres if it already had a database.
RestartInit ==
    /\ phase = "down"
    /\ live = Nothing
    /\ timeline = {}
    /\ index = {}
    /\ legacy \in [Incidents -> Status]
    /\ legacyTimeline = Stored(legacy)
    /\ legacyIndex = WithPr(legacy)
    /\ rows \in {Nothing, legacy}
    /\ unmirrored = FALSE

-----------------------------------------------------------------------------
(* The server at work: the store's writes and their mirror.  ok = FALSE: the *)
(* mirror's write failed or the process died before it.                      *)

Mirror(m, ok) ==
    /\ rows' = IF ok THEN m ELSE rows
    /\ unmirrored' = (unmirrored \/ ~ok)

Create(i, ok) ==
    /\ phase = "up"
    /\ live[i] = "absent" /\ rows[i] = "absent" /\ legacy[i] = "absent"
    /\ live' = [live EXCEPT ![i] = "open"]
    /\ timeline' = timeline \cup {i}
    /\ Mirror([rows EXCEPT ![i] = "open"], ok)
    /\ UNCHANGED <<phase, index, old>>

OpenPr(i, ok) ==
    /\ phase = "up"
    /\ live[i] = "open"
    /\ live' = [live EXCEPT ![i] = "pr_open"]
    /\ index' = index \cup {i}
    /\ Mirror([rows EXCEPT ![i] = "pr_open"], ok)
    /\ UNCHANGED <<phase, timeline, old>>

\* Mutant: the mirror is sent the record as it was read.
ResolveMirrorsRead(i, ok) ==
    /\ phase = "up"
    /\ live[i] = "pr_open"
    /\ live' = [live EXCEPT ![i] = "resolved"]
    /\ index' = index \ {i}
    /\ Mirror(rows, ok)
    /\ UNCHANGED <<phase, timeline, old>>

Resolve(i, ok) ==
    /\ phase = "up"
    /\ live[i] = "pr_open"
    /\ live' = [live EXCEPT ![i] = "resolved"]
    /\ index' = index \ {i}
    /\ Mirror([rows EXCEPT ![i] = "resolved"], ok)
    /\ UNCHANGED <<phase, timeline, old>>

\* The TTL of an incident without an open PR runs out; its timeline entry stays.
Expire(i) ==
    /\ live[i] \in {"open", "resolved"}
    /\ live' = [live EXCEPT ![i] = "absent"]
    /\ UNCHANGED <<phase, timeline, index, old, rows, unmirrored>>

\* clear_all: the workspace's incidents and timeline, then the rows.
ClearAll(ok) ==
    /\ phase = "up"
    /\ live' = [i \in Incidents |-> IF i \in timeline THEN "absent" ELSE live[i]]
    /\ timeline' = {}
    /\ Mirror(Nothing, ok)
    /\ UNCHANGED <<phase, index, old>>

-----------------------------------------------------------------------------
(* Failures                                                                  *)

\* The process stops, anywhere in its start too.
Stop ==
    /\ phase # "down"
    /\ phase' = "down"
    /\ UNCHANGED <<redis, old, rows, unmirrored>>

\* Redis loses everything.
WipeRedis ==
    /\ live' = Nothing /\ timeline' = {} /\ index' = {}
    /\ legacy' = Nothing /\ legacyTimeline' = {} /\ legacyIndex' = {}
    /\ UNCHANGED <<phase, rows, unmirrored>>

-----------------------------------------------------------------------------
(* lifespan: migrate_legacy_keys_to_default_workspace, then rehydrate_redis  *)

Start ==
    /\ phase = "down"
    /\ phase' = "migrate"
    /\ UNCHANGED <<redis, old, rows, unmirrored>>

\* Nothing to copy, or the prefix has a timeline already.
SkipMigration ==
    /\ phase = "migrate"
    /\ legacyTimeline = {} \/ timeline # {}
    /\ phase' = "rehydrate"
    /\ UNCHANGED <<redis, old, rows, unmirrored>>

\* Mutant: the "already migrated" check is missing.
MigrateAgain ==
    /\ phase = "migrate"
    /\ legacyTimeline # {}
    /\ live' = [i \in Incidents |-> IF legacy[i] # "absent" THEN legacy[i] ELSE live[i]]
    /\ timeline' = timeline \cup legacyTimeline
    /\ phase' = "migrate_index"
    /\ UNCHANGED <<index, old, rows, unmirrored>>

\* The incidents and their timeline, in one pipeline ...
MigrateIncidents ==
    /\ phase = "migrate"
    /\ legacyTimeline # {}
    /\ timeline = {}
    /\ live' = [i \in Incidents |->
                 IF i \in legacyTimeline /\ legacy[i] # "absent" THEN legacy[i]
                                                                 ELSE live[i]]
    /\ timeline' = legacyTimeline
    /\ phase' = "migrate_index"
    /\ UNCHANGED <<index, old, rows, unmirrored>>

\* ... and later the PR index.
MigrateIndex ==
    /\ phase = "migrate_index"
    /\ index' = index \cup legacyIndex
    /\ phase' = "rehydrate"
    /\ UNCHANGED <<live, timeline, old, rows, unmirrored>>

\* Every row under the pre-tenant key names, without a TTL.
Rehydrate ==
    /\ phase = "rehydrate"
    /\ legacy' = [i \in Incidents |-> IF rows[i] = "absent" THEN legacy[i] ELSE rows[i]]
    /\ legacyTimeline' = legacyTimeline \cup Stored(rows)
    /\ legacyIndex' = legacyIndex \cup WithPr(rows)
    /\ phase' = "up"
    /\ UNCHANGED <<redis, rows, unmirrored>>

\* No database configured, or it does not answer at boot.
NoDatabase ==
    /\ phase = "rehydrate"
    /\ phase' = "up"
    /\ UNCHANGED <<redis, old, rows, unmirrored>>

Boot == Start \/ SkipMigration \/ MigrateIncidents \/ MigrateIndex \/ Rehydrate \/ NoDatabase

RestartNext ==
    \/ \E i \in Incidents, ok \in BOOLEAN : Create(i, ok) \/ OpenPr(i, ok) \/ Resolve(i, ok)
    \/ \E i \in Incidents : Expire(i)
    \/ \E ok \in BOOLEAN : ClearAll(ok)
    \/ Stop
    \/ WipeRedis
    \/ Boot

RestartSpec == RestartInit /\ [][RestartNext]_restartVars

-----------------------------------------------------------------------------
RestartTypeOK ==
    /\ phase \in {"down", "migrate", "migrate_index", "rehydrate", "up"}
    /\ live \in [Incidents -> Status]
    /\ legacy \in [Incidents -> Status]
    /\ rows \in [Incidents -> Status]
    /\ timeline \subseteq Incidents /\ legacyTimeline \subseteq Incidents
    /\ index \subseteq Incidents /\ legacyIndex \subseteq Incidents
    /\ unmirrored \in BOOLEAN

\* A restart never rolls an incident back: no boot step changes an incident the
\* workspace already holds (the "already migrated" check, the separate prefix).
BootKeepsLive ==
    [][Boot => \A i \in Incidents : live[i] # "absent" => live'[i] = live[i]]_restartVars

\* What Redis serves is never older than Postgres, unless a durable write was
\* lost: through wipes, restarts and migrations of a rehydrated copy.
NotOlderThanDurable ==
    ~unmirrored => \A i \in Incidents :
        (live[i] # "absent" /\ rows[i] # "absent") => live[i] = rows[i]

\* durable.py:12: "restart: rehydrate_redis() reloads the durable records from
\* Postgres back into Redis, so the dashboard and the merge-webhook index are
\* intact even though Redis lost everything."  The keys it writes are not the
\* keys the store reads.
RestartRestores ==
    [][Rehydrate => \A i \in Incidents :
          rows[i] = "pr_open" => live'[i] = "pr_open" /\ i \in index']_restartVars

=============================================================================
