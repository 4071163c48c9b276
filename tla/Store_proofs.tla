----------------------------- MODULE Store_proofs -----------------------------
(***************************************************************************)
(* The incident store for any number of writers, fields and values: the    *)
(* lock makes update_incident an atomic patch, and keeps the writes of the *)
(* Postgres mirror in the order of the Redis writes.  And what a restart   *)
(* may do to the incidents, for any set of them.                           *)
(***************************************************************************)
EXTENDS IncidentStore, Restart, TLAPS

Coroutines == Writers \cup {Creator}
Critical == {"locked", "got", "set"}

WriterStep(w) ==
    \/ Call(w)
    \/ Acquire(w)
    \/ Get(w)
    \/ Set(w)
    \/ \E ok \in BOOLEAN : Upsert(w, ok)

-----------------------------------------------------------------------------
(* Type correctness                                                        *)

\* A writer past its GET holds the record it read.
HasRead == \A w \in Writers : pc[w] \in {"got", "set"} => read[w] \in Records

TypeInv == TypeOK /\ HasRead

LEMMA PatchedType ==
    ASSUME NEW w \in Writers, TypeInv, pc[w] \in {"got", "set"}
    PROVE  Patched(w) \in Records
BY DEF TypeInv, TypeOK, HasRead, Patched, Records

LEMMA FreshType == Fresh \in Records
BY StoreAssumption DEF Fresh, Records

LEMMA TypeInit == Init => TypeInv
BY FreshType, StoreAssumption DEF Init, TypeInv, TypeOK, HasRead

LEMMA TypeWriter ==
    ASSUME NEW w \in Writers, TypeInv, WriterStep(w)
    PROVE  TypeInv'
<1> USE StoreAssumption DEF TypeInv, TypeOK, HasRead, Step
<1>1. CASE Call(w)
    BY <1>1 DEF Call
<1>2. CASE Acquire(w)
    BY <1>2 DEF Acquire
<1>3. CASE Get(w)
    BY <1>3 DEF Get
<1>4. CASE Set(w)
    <2>1. Patched(w) \in Records
        BY <1>4, PatchedType DEF Set
    <2>2. last' \in Records
        BY <1>4 DEF Set, Records
    <2> QED BY <1>4, <2>1, <2>2 DEF Set
<1>5. ASSUME NEW ok \in BOOLEAN, Upsert(w, ok) PROVE TypeInv'
    <2>1. Patched(w) \in Records
        BY <1>5, PatchedType DEF Upsert
    <2> QED BY <1>5, <2>1 DEF Upsert
<1> QED BY <1>1, <1>2, <1>3, <1>4, <1>5 DEF WriterStep

LEMMA TypeNext == TypeInv /\ [Next]_vars => TypeInv'
<1> SUFFICES ASSUME TypeInv, [Next]_vars PROVE TypeInv'
    OBVIOUS
<1> USE StoreAssumption DEF TypeInv, TypeOK, HasRead
<1>1. ASSUME NEW w \in Writers, WriterStep(w) PROVE TypeInv'
    BY <1>1, TypeWriter
<1>2. CASE Save
    BY <1>2, FreshType DEF Save, Step
<1>3. ASSUME NEW ok \in BOOLEAN, SaveUpsert(ok) PROVE TypeInv'
    BY <1>3, FreshType DEF SaveUpsert, Step
<1>4. CASE ClearRedis
    BY <1>4 DEF ClearRedis
<1>5. ASSUME NEW ok \in BOOLEAN, ClearRows(ok) PROVE TypeInv'
    BY <1>5 DEF ClearRows
<1>6. CASE UNCHANGED vars
    BY <1>6 DEF vars
<1> QED BY <1>1, <1>2, <1>3, <1>4, <1>5, <1>6 DEF Next, Write, Clear, WriterStep

LEMMA TypeInvariant == Spec => []TypeInv
BY TypeInit, TypeNext, PTL DEF Spec

\* Type correctness of the store.
THEOREM TypeCorrect == Spec => []TypeOK
BY TypeInvariant, PTL DEF TypeInv

-----------------------------------------------------------------------------
(* No lost update.  What a writer read under the lock is still, in every     *)
(* field, the value last written when it writes its patch: whoever else      *)
(* writes a field needs the lock.                                            *)

LockHeld == \A w \in Writers : pc[w] \in Critical => lock = w

\* Nothing is updated before save_incident.
Untouched ==
    pc[Creator] = "idle" => /\ rec = Absent
                            /\ last = Fresh
                            /\ \A w \in Writers : pc[w] = "idle"

ReadIsLast == \A w \in Writers : pc[w] = "got" => read[w] = last

RecIsLast == rec # Absent => rec = last

LockInv == LockHeld /\ Untouched /\ ReadIsLast /\ RecIsLast

LEMMA LockInit == Init => LockInv
BY DEF Init, LockInv, LockHeld, Untouched, ReadIsLast, RecIsLast, Critical

LEMMA LockWriter ==
    ASSUME NEW w \in Writers, TypeInv, LockInv, WriterStep(w)
    PROVE  LockInv'
<1> USE StoreAssumption
    DEF LockInv, LockHeld, Untouched, ReadIsLast, RecIsLast, Critical, TypeInv, TypeOK, Step
<1>1. CASE Call(w)
    BY <1>1 DEF Call
<1>2. CASE Acquire(w)
    BY <1>2 DEF Acquire
<1>3. CASE Get(w)
    BY <1>3 DEF Get
<1>4. CASE Set(w)
    <2>1. lock = w /\ rec' = last'
        BY <1>4 DEF Set, Patched
    <2>2. \A u \in Writers : pc'[u] \in Critical => u = w /\ pc'[u] = "set"
        BY <1>4, <2>1 DEF Set
    <2> QED BY <1>4, <2>1, <2>2 DEF Set
<1>5. ASSUME NEW ok \in BOOLEAN, Upsert(w, ok) PROVE LockInv'
    BY <1>5 DEF Upsert
<1> QED BY <1>1, <1>2, <1>3, <1>4, <1>5 DEF WriterStep

LEMMA LockNext == TypeInv /\ LockInv /\ [Next]_vars => LockInv'
<1> SUFFICES ASSUME TypeInv, LockInv, [Next]_vars PROVE LockInv'
    OBVIOUS
<1> USE StoreAssumption
    DEF LockInv, LockHeld, Untouched, ReadIsLast, RecIsLast, Critical, TypeInv, TypeOK
<1>1. ASSUME NEW w \in Writers, WriterStep(w) PROVE LockInv'
    BY <1>1, LockWriter
<1>2. CASE Save
    BY <1>2 DEF Save, Step
<1>3. ASSUME NEW ok \in BOOLEAN, SaveUpsert(ok) PROVE LockInv'
    BY <1>3 DEF SaveUpsert, Step
<1>4. CASE ClearRedis
    BY <1>4 DEF ClearRedis
<1>5. ASSUME NEW ok \in BOOLEAN, ClearRows(ok) PROVE LockInv'
    BY <1>5 DEF ClearRows
<1>6. CASE UNCHANGED vars
    BY <1>6 DEF vars
<1> QED BY <1>1, <1>2, <1>3, <1>4, <1>5, <1>6 DEF Next, Write, Clear, WriterStep

LEMMA LockInvariant == Spec => []LockInv
BY TypeInvariant, LockInit, LockNext, PTL DEF Spec

\* For any number of concurrent update_incident calls and resets, no call undoes
\* the field another one wrote.
THEOREM UpdatesAreKept == Spec => []NoLostUpdate
<1>1. LockInv => NoLostUpdate
    BY DEF LockInv, RecIsLast, NoLostUpdate
<1> QED BY <1>1, LockInvariant, PTL

-----------------------------------------------------------------------------
(* Refinement: the Redis write under the lock is the atomic patch, the first *)
(* write of save_incident the creation, everything else a stutter.           *)

LEMMA SetPatches ==
    ASSUME NEW w \in Writers, TypeInv, LockInv, Set(w)
    PROVE  Atomic!Patch(patch[w][1], patch[w][2])
<1>1. read[w] = last /\ rec \in {last, Absent}
    BY DEF Set, Step, LockInv, ReadIsLast, RecIsLast
<1> QED BY <1>1 DEF Set, Patched, Atomic!Patch

LEMMA StepRefines ==
    TypeInv /\ LockInv /\ [Next]_vars => [Atomic!Next]_(Atomic!vars)
<1> SUFFICES ASSUME TypeInv, LockInv, [Next]_vars
             PROVE  Atomic!Next \/ UNCHANGED Atomic!vars
    OBVIOUS
<1>1. CASE Save
    BY <1>1 DEF Save, Step, LockInv, Untouched, Fresh,
                Atomic!Next, Atomic!Create, Atomic!Fresh
<1>2. ASSUME NEW w \in Writers, Set(w) PROVE Atomic!Next
    <2>1. patch[w][1] \in Fields /\ patch[w][2] \in Values
        BY DEF TypeInv, TypeOK
    <2> QED BY <1>2, <2>1, SetPatches DEF Atomic!Next
<1>3. CASE ClearRedis
    BY <1>3 DEF ClearRedis, Atomic!Next, Atomic!Clear
<1>4. ASSUME NEW w \in Writers, WriterStep(w), ~Set(w) PROVE UNCHANGED Atomic!vars
    BY <1>4 DEF WriterStep, Call, Acquire, Get, Upsert, Atomic!vars
<1>5. ASSUME NEW ok \in BOOLEAN, SaveUpsert(ok) \/ ClearRows(ok)
      PROVE  UNCHANGED Atomic!vars
    BY <1>5 DEF SaveUpsert, ClearRows, Atomic!vars
<1>6. CASE UNCHANGED vars
    BY <1>6 DEF vars, Atomic!vars
<1> QED BY <1>1, <1>2, <1>3, <1>4, <1>5, <1>6 DEF Next, Write, Clear, WriterStep

\* update_incident with its lock, its awaits and resets that ignore the lock
\* implements the atomic record that IncidentLifecycle takes the store for.
THEOREM StoreIsAtomic == Spec => ImplementsAtomic
<1>1. Init => Atomic!Init
    BY DEF Init, Atomic!Init, Fresh, Atomic!Fresh
<1> QED BY <1>1, TypeInvariant, LockInvariant, StepRefines, PTL
        DEF Spec, ImplementsAtomic, Atomic!Spec

-----------------------------------------------------------------------------
(* The mirror.  While no durable write has failed or been overtaken and      *)
(* nothing was cleared, the row differs from the record only between the two *)
(* writes of one call.                                                       *)

NobodyWrites == \A w \in Writers : pc[w] # "set"

Mirrored ==
    /\ pc[Creator] = "idle" => row = Absent
    /\ pc[Creator] # "idle" => rec # Absent
    /\ \A w \in Writers : pc[w] = "set" => rec = Patched(w)
    /\ (pc[Creator] # "idle" /\ NobodyWrites) =>
          \/ row = rec
          \/ pc[Creator] = "saved" /\ row = Absent /\ rec = Fresh

MirrorInv ==
    /\ clearing => behind
    /\ ~behind => Mirrored

LEMMA MirrorInit == Init => MirrorInv
BY DEF Init, MirrorInv, Mirrored

LEMMA MirrorWriter ==
    ASSUME NEW w \in Writers, TypeInv, LockInv, MirrorInv, WriterStep(w)
    PROVE  MirrorInv'
<1> USE StoreAssumption
    DEF MirrorInv, Mirrored, NobodyWrites, TypeInv, TypeOK, Step
<1>1. CASE Call(w)
    BY <1>1 DEF Call, Patched
<1>2. CASE Acquire(w)
    BY <1>2 DEF Acquire, Patched
<1>3. CASE Get(w)
    BY <1>3 DEF Get, Patched
<1>4. CASE Set(w)
    <2>1. lock = w /\ pc[Creator] # "idle" /\ Patched(w) \in Records
        BY <1>4, PatchedType DEF Set, LockInv, LockHeld, Untouched, Critical
    <2>2. \A u \in Writers : pc'[u] = "set" => u = w
        BY <1>4, <2>1 DEF Set, LockInv, LockHeld, Critical
    <2>3. Patched(w)' = Patched(w) /\ rec' = Patched(w)
        BY <1>4 DEF Set, Patched
    <2>4. Patched(w) # Absent
        BY <2>1 DEF Records
    <2>5. pc'[w] = "set" /\ pc'[Creator] = pc[Creator]
        BY <1>4 DEF Set
    <2> QED BY <1>4, <2>1, <2>2, <2>3, <2>4, <2>5 DEF Set
<1>5. ASSUME NEW ok \in BOOLEAN, Upsert(w, ok) PROVE MirrorInv'
    <2>1. lock = w /\ pc[Creator] # "idle"
        BY <1>5 DEF Upsert, LockInv, LockHeld, Untouched, Critical
    <2>2. \A u \in Writers : pc'[u] # "set"
        BY <1>5, <2>1 DEF Upsert, LockInv, LockHeld, Critical
    <2> QED BY <1>5, <2>1, <2>2 DEF Upsert
<1> QED BY <1>1, <1>2, <1>3, <1>4, <1>5 DEF WriterStep

LEMMA MirrorNext == TypeInv /\ LockInv /\ MirrorInv /\ [Next]_vars => MirrorInv'
<1> SUFFICES ASSUME TypeInv, LockInv, MirrorInv, [Next]_vars PROVE MirrorInv'
    OBVIOUS
<1> USE StoreAssumption
    DEF MirrorInv, Mirrored, NobodyWrites, TypeInv, TypeOK, Patched
<1>1. ASSUME NEW w \in Writers, WriterStep(w) PROVE MirrorInv'
    BY <1>1, MirrorWriter
<1>2. CASE Save
    <2>1. Fresh # Absent
        BY FreshType DEF Records
    <2> QED BY <1>2, <2>1 DEF Save, Step, LockInv, Untouched
<1>3. ASSUME NEW ok \in BOOLEAN, SaveUpsert(ok) PROVE MirrorInv'
    BY <1>3 DEF SaveUpsert, Step
<1>4. CASE ClearRedis
    BY <1>4 DEF ClearRedis
<1>5. ASSUME NEW ok \in BOOLEAN, ClearRows(ok) PROVE MirrorInv'
    BY <1>5 DEF ClearRows
<1>6. CASE UNCHANGED vars
    BY <1>6 DEF vars
<1> QED BY <1>1, <1>2, <1>3, <1>4, <1>5, <1>6 DEF Next, Write, Clear, WriterStep

\* For any number of concurrent update_incident calls, Postgres holds what Redis
\* holds once no write is under way, the excused cases apart.
THEOREM MirrorKeepsUp == Spec => []RowMirrorsRecord
<1>1. TypeInv /\ LockInv /\ MirrorInv => RowMirrorsRecord
    <2> SUFFICES ASSUME TypeInv, LockInv, MirrorInv, lock = Free,
                        pc[Creator] = "done", ~behind
                 PROVE  row = rec
        BY DEF RowMirrorsRecord
    <2>1. NobodyWrites
        BY StoreAssumption DEF LockInv, LockHeld, Critical, NobodyWrites
    <2> QED BY <2>1 DEF MirrorInv, Mirrored
<1> QED BY <1>1, TypeInvariant, LockInvariant, MirrorInit, MirrorNext, PTL DEF Spec

-----------------------------------------------------------------------------
(* Restarts                                                                *)

\* A live incident is in the timeline; and as long as nothing has been brought
\* into the prefix, or a reset has emptied it, the pre-tenant copy is no older
\* than the rows, so that copying it does no harm.
RestartInv ==
    /\ RestartTypeOK
    /\ \A i \in Incidents : live[i] # "absent" => i \in timeline
    /\ ~unmirrored /\ timeline = {} =>
          \A i \in Incidents : legacy[i] # "absent" /\ rows[i] # "absent" => legacy[i] = rows[i]
    /\ NotOlderThanDurable

LEMMA RestartStarts == RestartInit => RestartInv
  <1> SUFFICES ASSUME RestartInit PROVE RestartInv
    OBVIOUS
  <1>1. RestartTypeOK
    BY DEF RestartInit, RestartTypeOK, Nothing, Stored, WithPr, Status
  <1>2. \A i \in Incidents : live[i] = "absent"
    BY DEF RestartInit, Nothing
  <1>3. \A i \in Incidents : rows[i] # "absent" => rows[i] = legacy[i]
    BY DEF RestartInit, Nothing
  <1> QED
    BY <1>1, <1>2, <1>3 DEF RestartInv, NotOlderThanDurable

\* One incident and its row are written, the row perhaps not.
LEMMA WriteKeepsInv ==
    ASSUME RestartInv, NEW i \in Incidents, NEW ok \in BOOLEAN,
           Create(i, ok) \/ OpenPr(i, ok) \/ Resolve(i, ok)
    PROVE  RestartInv'
  <1> USE DEF RestartInv, RestartTypeOK, Status, Mirror, old
  <1>1. CASE Create(i, ok)
    <2> USE <1>1 DEF Create
    <2>1. RestartTypeOK'
      OBVIOUS
    <2>2. \A j \in Incidents : live'[j] # "absent" => j \in timeline'
      OBVIOUS
    <2>3. timeline' # {}
      OBVIOUS
    <2>4. NotOlderThanDurable'
      BY DEF NotOlderThanDurable
    <2> QED
      BY <2>1, <2>2, <2>3, <2>4
  <1>2. CASE OpenPr(i, ok)
    <2> USE <1>2 DEF OpenPr
    <2>1. RestartTypeOK'
      OBVIOUS
    <2>2. \A j \in Incidents : live'[j] # "absent" => j \in timeline'
      OBVIOUS
    <2>3. timeline' # {}
      OBVIOUS
    <2>4. NotOlderThanDurable'
      BY DEF NotOlderThanDurable
    <2> QED
      BY <2>1, <2>2, <2>3, <2>4
  <1>3. CASE Resolve(i, ok)
    <2> USE <1>3 DEF Resolve
    <2>1. RestartTypeOK'
      OBVIOUS
    <2>2. \A j \in Incidents : live'[j] # "absent" => j \in timeline'
      OBVIOUS
    <2>3. timeline' # {}
      OBVIOUS
    <2>4. NotOlderThanDurable'
      BY DEF NotOlderThanDurable
    <2> QED
      BY <2>1, <2>2, <2>3, <2>4
  <1> QED
    BY <1>1, <1>2, <1>3

\* What takes incidents away: a TTL, a reset, the loss of Redis.
LEMMA LossKeepsInv ==
    ASSUME RestartInv,
           \/ \E i \in Incidents : Expire(i)
           \/ \E ok \in BOOLEAN : ClearAll(ok)
           \/ WipeRedis
    PROVE  RestartInv'
  <1> USE DEF RestartInv, RestartTypeOK, Status, old
  <1>1. ASSUME NEW i \in Incidents, Expire(i) PROVE RestartInv'
    BY <1>1 DEF Expire, NotOlderThanDurable
  <1>2. ASSUME NEW ok \in BOOLEAN, ClearAll(ok) PROVE RestartInv'
    <2> USE <1>2 DEF ClearAll, Mirror, Nothing
    <2>1. RestartTypeOK'
      OBVIOUS
    <2>2. \A j \in Incidents : live'[j] = "absent"
      OBVIOUS
    <2>3. ~unmirrored' => \A j \in Incidents : rows'[j] = "absent"
      OBVIOUS
    <2> QED
      BY <2>1, <2>2, <2>3 DEF NotOlderThanDurable
  <1>3. CASE WipeRedis
    <2>1. RestartTypeOK'
      BY <1>3 DEF WipeRedis, Nothing
    <2>2. \A j \in Incidents : live'[j] = "absent" /\ legacy'[j] = "absent"
      BY <1>3 DEF WipeRedis, Nothing
    <2> QED
      BY <2>1, <2>2 DEF NotOlderThanDurable
  <1> QED
    BY <1>1, <1>2, <1>3

\* The copy fills an empty prefix, and the rehydration does not touch it.
LEMMA BootKeepsInv ==
    ASSUME RestartInv, Boot \/ Stop
    PROVE  RestartInv'
  <1> USE DEF RestartInv, RestartTypeOK, Status, redis, old
  <1>1. CASE Start \/ SkipMigration \/ NoDatabase \/ Stop
    BY <1>1 DEF Start, SkipMigration, NoDatabase, Stop, NotOlderThanDurable
  <1>2. CASE MigrateIncidents
    <2> USE <1>2 DEF MigrateIncidents
    <2>1. RestartTypeOK'
      OBVIOUS
    <2>2. \A j \in Incidents : live[j] = "absent"
      OBVIOUS
    <2>3. \A j \in Incidents : live'[j] # "absent" => j \in timeline' /\ live'[j] = legacy[j]
      BY <2>2
    <2> QED
      BY <2>1, <2>3 DEF NotOlderThanDurable
  <1>3. CASE MigrateIndex
    BY <1>3 DEF MigrateIndex, NotOlderThanDurable
  <1>4. CASE Rehydrate
    <2> USE <1>4 DEF Rehydrate
    <2>1. RestartTypeOK'
      BY DEF Stored, WithPr
    <2>2. \A j \in Incidents : rows'[j] # "absent" => legacy'[j] = rows'[j]
      OBVIOUS
    <2> QED
      BY <2>1, <2>2 DEF NotOlderThanDurable
  <1> QED
    BY <1>1, <1>2, <1>3, <1>4 DEF Boot

LEMMA RestartKept == RestartInv /\ [RestartNext]_restartVars => RestartInv'
  <1> SUFFICES ASSUME RestartInv, [RestartNext]_restartVars PROVE RestartInv'
    OBVIOUS
  <1>1. CASE RestartNext
    BY <1>1, WriteKeepsInv, LossKeepsInv, BootKeepsInv DEF RestartNext
  <1>2. CASE UNCHANGED restartVars
    BY <1>2 DEF restartVars, RestartInv, RestartTypeOK, NotOlderThanDurable
  <1> QED
    BY <1>1, <1>2

LEMMA RestartInvariant == RestartSpec => []RestartInv
  BY RestartStarts, RestartKept, PTL DEF RestartSpec

\* Keys, rows and indexes of the boot sequence have their types (durable.py,
\* workspace_auth.py), for any set of incidents.
THEOREM RestartTypeCorrect == RestartSpec => []RestartTypeOK
  <1>1. RestartInv => RestartTypeOK
    BY DEF RestartInv
  <1> QED
    BY <1>1, RestartInvariant, PTL

\* Whatever was wiped, cut off or copied again, what Redis serves is not older
\* than the durable row, unless a write of that row was lost (durable.py).
THEOREM NeverOlder == RestartSpec => []NotOlderThanDurable
  <1>1. RestartInv => NotOlderThanDurable
    BY DEF RestartInv
  <1> QED
    BY <1>1, RestartInvariant, PTL

\* No step of the boot changes an incident the workspace holds (workspace_auth.py,
\* migrate_legacy_keys_to_default_workspace(); durable.py, rehydrate_redis()).
THEOREM BootIsHarmless == RestartSpec => BootKeepsLive
  <1>1. RestartInv /\ [RestartNext]_restartVars =>
          [Boot => \A i \in Incidents : live[i] # "absent" => live'[i] = live[i]]_restartVars
    <2> SUFFICES ASSUME RestartInv, Boot, NEW i \in Incidents, live[i] # "absent"
                 PROVE  live'[i] = live[i]
      OBVIOUS
    <2>1. timeline # {}
      BY DEF RestartInv
    <2> QED
      BY <2>1 DEF Boot, Start, SkipMigration, MigrateIncidents, MigrateIndex, Rehydrate, NoDatabase, redis
  <1> QED
    BY <1>1, RestartInvariant, PTL DEF RestartSpec, BootKeepsLive

===============================================================================
