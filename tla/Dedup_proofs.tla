---------------------------- MODULE Dedup_proofs ----------------------------
(***************************************************************************)
(* The dedup of triggers, for any number of triggers and fingerprints: the *)
(* lock excludes, and no fingerprint has two current incidents.            *)
(***************************************************************************)
EXTENDS Dedup, FiniteSetTheorems, TLAPS

Critical == {"lookup", "inspect", "bump", "create", "register"}

TriggerAction(t) == Call(t) \/ TriggerStep(t) \/ StoreError(t)
IncidentAction(i) == Finish(i) \/ Reopen(i)

-----------------------------------------------------------------------------
(* Type correctness                                                        *)

\* A trigger that found an incident holds its id.
HasFound == \A t \in Triggers : pc[t] \in {"inspect", "bump"} => found[t] \in Incidents

TypeInv == TypeOK /\ HasFound

LEMMA TypeInit == Init => TypeInv
BY DedupAssumption DEF Init, TypeInv, TypeOK, HasFound, Incidents

LEMMA TypeTrigger ==
    ASSUME NEW t \in Triggers, TypeInv, TriggerAction(t)
    PROVE  TypeInv'
<1> USE DedupAssumption DEF TypeInv, TypeOK, HasFound, Incidents, Goto
<1>1. CASE Call(t)
    BY <1>1 DEF Call
<1>2. CASE Acquire(t)
    BY <1>2 DEF Acquire
<1>3. CASE Lookup(t)
    BY <1>3 DEF Lookup
<1>4. CASE Inspect(t)
    BY <1>4 DEF Inspect
<1>5. CASE Bump(t)
    BY <1>5 DEF Bump
<1>6. CASE Create(t)
    BY <1>6 DEF Create
<1>7. CASE Register(t)
    BY <1>7 DEF Register
<1>8. CASE StoreError(t)
    BY <1>8 DEF StoreError
<1> QED BY <1>1, <1>2, <1>3, <1>4, <1>5, <1>6, <1>7, <1>8
        DEF TriggerAction, TriggerStep

LEMMA TypeNext == TypeInv /\ [Next]_vars => TypeInv'
<1> SUFFICES ASSUME TypeInv, [Next]_vars PROVE TypeInv'
    OBVIOUS
<1> USE DedupAssumption DEF TypeInv, TypeOK, HasFound, Incidents
<1>1. ASSUME NEW t \in Triggers, TriggerAction(t) PROVE TypeInv'
    BY <1>1, TypeTrigger
<1>2. ASSUME NEW i \in Incidents, IncidentAction(i) PROVE TypeInv'
    BY <1>2 DEF IncidentAction, Finish, Reopen, local
<1>3. ASSUME NEW f \in Fingerprints, WindowOver(f) PROVE TypeInv'
    BY <1>3 DEF WindowOver, local
<1>4. CASE ClearAll
    BY <1>4 DEF ClearAll, local
<1>5. CASE UNCHANGED vars
    BY <1>5 DEF vars
<1> QED BY <1>1, <1>2, <1>3, <1>4, <1>5 DEF Next, TriggerAction, IncidentAction

LEMMA TypeInvariant == Spec => []TypeInv
BY TypeInit, TypeNext, PTL DEF Spec

\* Type correctness of the dedup, whatever the triggers and the fingerprints.
THEOREM TypeCorrect == Spec => []TypeOK
BY TypeInvariant, PTL DEF TypeInv

-----------------------------------------------------------------------------
(* No twins.  What makes it true is that the lock is held from the lookup to *)
(* the registration, so what the lookup saw is still so: only the expiry of  *)
(* the key can change the entry of the fingerprint meanwhile.                *)

LockHeld == \A t \in Triggers : pc[t] \in Critical => lock = t

\* A registered incident was announced by its own trigger, under its fingerprint.
TableOK ==
    \A f \in Fingerprints :
        table[f] # None => /\ Fp[table[f]] = f
                           /\ returned[table[f]] = table[f]

\* An incident that exists and is not live was closed.
ClosedOK ==
    \A i \in Incidents :
        pc[i] = "register" \/ returned[i] = i => status[i] = "live" \/ i \in closed

\* A trigger returns when it is done and not before.
ReturnedOK == \A t \in Triggers : returned[t] # None => pc[t] = "done"

\* Every current incident is the one the table names.
CurrentOK == \A i \in Current : table[Fp[i]] = i

\* The entry a trigger inspects is the one it found, or has expired.
InspectOK ==
    \A t \in Triggers :
        /\ pc[t] = "inspect" => table[Fp[t]] \in {found[t], None}
        /\ pc[t] \in {"inspect", "bump"} => returned[found[t]] = found[t]

\* A trigger that creates an incident has no current one to collapse into.
CreateOK ==
    \A t \in Triggers : pc[t] \in {"create", "register"} =>
        \A i \in Current : Fp[i] # Fp[t]

DedupInv ==
    /\ LockHeld /\ TableOK /\ ClosedOK /\ ReturnedOK
    /\ CurrentOK /\ InspectOK /\ CreateOK

LEMMA DedupInit == Init => DedupInv
BY DedupAssumption
DEF Init, DedupInv, LockHeld, TableOK, ClosedOK, ReturnedOK, CurrentOK,
    InspectOK, CreateOK, Current, Incidents, Critical

LEMMA DedupTrigger ==
    ASSUME NEW t \in Triggers, TypeInv, DedupInv, TriggerAction(t)
    PROVE  DedupInv'
<1> USE DedupAssumption
    DEF DedupInv, LockHeld, TableOK, ClosedOK, ReturnedOK, CurrentOK, InspectOK,
        CreateOK, Current, Critical, TypeInv, TypeOK, HasFound, Incidents, Goto
<1>1. CASE Call(t)
    BY <1>1 DEF Call
<1>2. CASE Acquire(t)
    BY <1>2 DEF Acquire
<1>3. CASE Lookup(t)
    BY <1>3 DEF Lookup
<1>4. CASE Inspect(t)
    BY <1>4 DEF Inspect
<1>5. CASE Bump(t)
    BY <1>5 DEF Bump
<1>6. CASE Create(t)
    BY <1>6 DEF Create
<1>7. CASE Register(t)
    BY <1>7 DEF Register
<1>8. CASE StoreError(t)
    BY <1>8 DEF StoreError
<1> QED BY <1>1, <1>2, <1>3, <1>4, <1>5, <1>6, <1>7, <1>8
        DEF TriggerAction, TriggerStep

LEMMA DedupNext == TypeInv /\ DedupInv /\ [Next]_vars => DedupInv'
<1> SUFFICES ASSUME TypeInv, DedupInv, [Next]_vars PROVE DedupInv'
    OBVIOUS
<1> USE DedupAssumption
    DEF DedupInv, LockHeld, TableOK, ClosedOK, ReturnedOK, CurrentOK, InspectOK,
        CreateOK, Current, Critical, TypeInv, TypeOK, HasFound, Incidents
<1>1. ASSUME NEW t \in Triggers, TriggerAction(t) PROVE DedupInv'
    BY <1>1, DedupTrigger
<1>2. ASSUME NEW i \in Incidents, IncidentAction(i) PROVE DedupInv'
    BY <1>2 DEF IncidentAction, Finish, Reopen, local
<1>3. ASSUME NEW f \in Fingerprints, WindowOver(f) PROVE DedupInv'
    BY <1>3 DEF WindowOver, local
<1>4. CASE ClearAll
    BY <1>4 DEF ClearAll, local
<1>5. CASE UNCHANGED vars
    BY <1>5 DEF vars
<1> QED BY <1>1, <1>2, <1>3, <1>4, <1>5 DEF Next, TriggerAction, IncidentAction

\* For any number of triggers and fingerprints, two incidents of one fingerprint
\* exist inside the window only when the first was finished or deleted.
THEOREM NoTwinIncidents == Spec => []NoTwins
<1>1. TypeInv /\ DedupInv => NoTwins
    BY DEF DedupInv, CurrentOK, NoTwins
<1> QED BY <1>1, TypeInvariant, DedupInit, DedupNext, PTL DEF Spec

-----------------------------------------------------------------------------
(* Hits.  The count a trigger read is still the count when it writes it back, *)
(* because every other writer needs the lock, unless the incident was closed. *)

Returners == {t \in Triggers : returned[t] # None}
Collapsed(i) == {t \in Triggers \ {i} : returned[t] = i}

FinalOK == \A i \in Incidents : status[i] = "final" => i \in closed

CountOK ==
    \A t \in Triggers : pc[t] = "bump" /\ found[t] \notin closed =>
        status[found[t]] = "live" /\ count[t] = hits[found[t]]

\* Nobody returns an incident before its own trigger has.
AnnouncedOK == \A t \in Triggers : returned[t] # None => returned[returned[t]] = returned[t]

HitsInv ==
    /\ IsFiniteSet(Returners)
    /\ FinalOK /\ CountOK /\ AnnouncedOK
    /\ EveryHitCounted

\* A set of triggers that returned the same incident is finite.
LEMMA CollapsedFinite ==
    ASSUME NEW i \in Incidents, IsFiniteSet(Returners)
    PROVE  IsFiniteSet(Collapsed(i))
<1>1. Collapsed(i) \subseteq Returners
    BY DedupAssumption DEF Collapsed, Returners, Incidents
<1> QED BY <1>1, FS_Subset

LEMMA HitsInit == Init => HitsInv
<1> SUFFICES ASSUME Init PROVE HitsInv
    OBVIOUS
<1>1. Returners = {}
    BY DEF Init, Returners
<1>2. IsFiniteSet(Returners)
    BY <1>1, FS_EmptySet
<1> QED BY <1>2 DEF Init, HitsInv, FinalOK, CountOK, AnnouncedOK, EveryHitCounted

LEMMA BumpHits ==
    ASSUME NEW t \in Triggers, TypeInv, DedupInv, HitsInv, Bump(t)
    PROVE  HitsInv'
<1> DEFINE i == found[t]
<1>1. pc[t] = "bump" /\ i \in Incidents /\ returned[t] = None /\ returned[i] = i /\ lock = t
    BY DEF Bump, Goto, TypeInv, TypeOK, HasFound, DedupInv, ReturnedOK, InspectOK,
           LockHeld, Critical
<1>2. i # t
    BY <1>1, DedupAssumption DEF Incidents
<1>3. returned' = [returned EXCEPT ![t] = i]
    BY DEF Bump
<1>4. Returners' = Returners \cup {t}
    BY <1>1, <1>3, DedupAssumption DEF Returners, TypeInv, TypeOK, Incidents
<1>5. IsFiniteSet(Returners)'
    BY <1>4, FS_AddElement DEF HitsInv
<1>6. (FinalOK /\ AnnouncedOK)'
    BY <1>1, <1>2, <1>3, DedupAssumption
    DEF HitsInv, FinalOK, AnnouncedOK, Bump, TypeInv, TypeOK, Incidents
<1>7. CountOK'
    BY <1>1 DEF HitsInv, CountOK, Bump, Goto, TypeInv, TypeOK, DedupInv, LockHeld, Critical
<1>8. ASSUME NEW j \in Incidents \ closed, status[j] = "live"
      PROVE  hits'[j] = 1 + Cardinality(Collapsed(j)')
    <2>1. hits[j] = 1 + Cardinality(Collapsed(j))
        BY <1>8 DEF HitsInv, EveryHitCounted, Collapsed
    <2>2. IsFiniteSet(Collapsed(j))
        BY CollapsedFinite DEF HitsInv
    <2>3. CASE j = i
        <3>1. Collapsed(j)' = Collapsed(j) \cup {t} /\ t \notin Collapsed(j)
            BY <1>1, <1>2, <1>3, <2>3, DedupAssumption
            DEF Collapsed, TypeInv, TypeOK, Incidents
        <3>2. Cardinality(Collapsed(j)') = Cardinality(Collapsed(j)) + 1
            BY <2>2, <3>1, FS_AddElement
        <3>3. hits'[j] = hits[j] + 1
            BY <1>1, <1>8, <2>3 DEF Bump, HitsInv, CountOK, TypeInv, TypeOK
        <3>4. Cardinality(Collapsed(j)) \in Nat
            BY <2>2, FS_CardinalityType
        <3> QED BY <2>1, <3>2, <3>3, <3>4
    <2>4. CASE j # i
        <3>1. Collapsed(j)' = Collapsed(j)
            BY <1>1, <1>3, <2>4, DedupAssumption DEF Collapsed, TypeInv, TypeOK, Incidents
        <3>2. hits'[j] = hits[j]
            BY <1>1, <2>4 DEF Bump, TypeInv, TypeOK
        <3> QED BY <2>1, <3>1, <3>2
    <2> QED BY <2>3, <2>4
<1>9. closed' = closed /\ status' = status
    BY DEF Bump
<1>10. EveryHitCounted'
    BY <1>8, <1>9 DEF EveryHitCounted, Collapsed
<1> QED BY <1>5, <1>6, <1>7, <1>10 DEF HitsInv

LEMMA CreateHits ==
    ASSUME NEW t \in Triggers, TypeInv, DedupInv, HitsInv, Create(t)
    PROVE  HitsInv'
<1>1. pc[t] = "create" /\ returned[t] = None /\ lock = t /\ returned' = returned
    BY DEF Create, Goto, DedupInv, ReturnedOK, LockHeld, Critical, TypeInv, TypeOK
<1>2. Collapsed(t) = {}
    BY <1>1, DedupAssumption DEF Collapsed, HitsInv, AnnouncedOK
<1>3. IsFiniteSet(Returners)'
    BY <1>1 DEF HitsInv, Returners
<1>4. (FinalOK /\ CountOK /\ AnnouncedOK)'
    BY <1>1 DEF HitsInv, FinalOK, CountOK, AnnouncedOK, Create, Goto, TypeInv, TypeOK,
                DedupInv, LockHeld, Critical, Incidents
<1>5. ASSUME NEW j \in Incidents \ closed, status'[j] = "live"
      PROVE  hits'[j] = 1 + Cardinality(Collapsed(j))
    <2>1. CASE j = t
        <3>1. hits'[j] = 1
            BY <2>1, DedupAssumption DEF Create, TypeInv, TypeOK, Incidents
        <3>2. Cardinality(Collapsed(j)) = 0
            BY <1>2, <2>1, FS_EmptySet
        <3> QED BY <3>1, <3>2
    <2>2. CASE j # t
        <3>1. hits'[j] = hits[j] /\ status[j] = "live"
            BY <1>5, <2>2 DEF Create, TypeInv, TypeOK
        <3>2. hits[j] = 1 + Cardinality(Collapsed(j))
            BY <3>1 DEF HitsInv, EveryHitCounted, Collapsed
        <3> QED BY <3>1, <3>2
    <2> QED BY <2>1, <2>2
<1>6. EveryHitCounted'
    BY <1>1, <1>5 DEF EveryHitCounted, Collapsed, Create
<1> QED BY <1>3, <1>4, <1>6 DEF HitsInv

LEMMA RegisterHits ==
    ASSUME NEW t \in Triggers, TypeInv, DedupInv, HitsInv, Register(t)
    PROVE  HitsInv'
<1>1. pc[t] = "register" /\ returned[t] = None /\ lock = t
      /\ returned' = [returned EXCEPT ![t] = t]
    BY DEF Register, Goto, DedupInv, ReturnedOK, LockHeld, Critical, TypeInv, TypeOK
<1>2. Returners' = Returners \cup {t}
    BY <1>1, DedupAssumption DEF Returners, TypeInv, TypeOK, Incidents
<1>3. IsFiniteSet(Returners)'
    BY <1>2, FS_AddElement DEF HitsInv
<1>4. \A i \in Incidents : Collapsed(i)' = Collapsed(i)
    BY <1>1, DedupAssumption DEF Collapsed, Incidents, TypeInv, TypeOK
<1>5. (FinalOK /\ CountOK /\ AnnouncedOK)'
    BY <1>1, DedupAssumption
    DEF HitsInv, FinalOK, CountOK, AnnouncedOK, Register, Goto, TypeInv, TypeOK,
        DedupInv, LockHeld, Critical, Incidents
<1>6. EveryHitCounted'
    BY <1>4 DEF Register, HitsInv, EveryHitCounted, Collapsed
<1> QED BY <1>3, <1>5, <1>6 DEF HitsInv

\* The other steps return nothing and write no count.
Silent ==
    /\ UNCHANGED <<hits, returned>>
    /\ closed \subseteq closed'
    /\ \A i \in Incidents \ closed' : status'[i] = "live" => status[i] = "live"

LEMMA SilentHits ==
    ASSUME HitsInv, Silent, FinalOK', CountOK'
    PROVE  HitsInv'
<1>1. Returners' = Returners /\ AnnouncedOK'
    BY DEF Silent, Returners, HitsInv, AnnouncedOK
<1>2. EveryHitCounted'
    BY DEF Silent, HitsInv, EveryHitCounted
<1> QED BY <1>1, <1>2 DEF HitsInv

LEMMA HitsNext == TypeInv /\ DedupInv /\ HitsInv /\ [Next]_vars => HitsInv'
<1> SUFFICES ASSUME TypeInv, DedupInv, HitsInv, [Next]_vars PROVE HitsInv'
    OBVIOUS
<1>1. ASSUME NEW t \in Triggers, TriggerAction(t) PROVE HitsInv'
    <2>1. CASE Call(t) \/ Acquire(t) \/ Lookup(t) \/ StoreError(t)
        <3>1. Silent /\ FinalOK'
            BY <2>1 DEF Call, Acquire, Lookup, StoreError, Silent, HitsInv, FinalOK
        <3>2. CountOK'
            BY <2>1 DEF Call, Acquire, Lookup, StoreError, Goto, HitsInv, CountOK,
                        TypeInv, TypeOK
        <3> QED BY <3>1, <3>2, SilentHits
    <2>2. CASE Inspect(t)
        <3>1. Silent /\ FinalOK'
            BY <2>2 DEF Inspect, Silent, HitsInv, FinalOK
        <3>2. CountOK'
            BY <2>2 DEF Inspect, Goto, HitsInv, CountOK, TypeInv, TypeOK
        <3> QED BY <3>1, <3>2, SilentHits
    <2> QED BY <1>1, <2>1, <2>2, BumpHits, CreateHits, RegisterHits
            DEF TriggerAction, TriggerStep
<1>2. ASSUME NEW i \in Incidents, IncidentAction(i) PROVE HitsInv'
    <2>1. Silent /\ FinalOK' /\ CountOK'
        BY <1>2 DEF IncidentAction, Finish, Reopen, local, Silent, HitsInv, FinalOK,
                    CountOK, TypeInv, TypeOK, HasFound
    <2> QED BY <2>1, SilentHits
<1>3. ASSUME NEW f \in Fingerprints, WindowOver(f) PROVE HitsInv'
    <2>1. Silent /\ FinalOK' /\ CountOK'
        BY <1>3 DEF WindowOver, local, Silent, HitsInv, FinalOK, CountOK
    <2> QED BY <2>1, SilentHits
<1>4. CASE ClearAll
    <2>1. Silent /\ FinalOK' /\ CountOK'
        BY <1>4 DEF ClearAll, local, Silent, HitsInv, FinalOK, CountOK, TypeInv, TypeOK,
                    HasFound
    <2> QED BY <2>1, SilentHits
<1>5. CASE UNCHANGED vars
    <2>1. Silent /\ FinalOK' /\ CountOK'
        BY <1>5 DEF vars, Silent, HitsInv, FinalOK, CountOK
    <2> QED BY <2>1, SilentHits
<1> QED BY <1>1, <1>2, <1>3, <1>4, <1>5 DEF Next, TriggerAction, IncidentAction

\* For any number of triggers, the hit count of an incident that was never closed
\* is one plus the number of triggers collapsed into it.
THEOREM HitsAreCounted == Spec => []EveryHitCounted
<1>1. HitsInv => EveryHitCounted
    BY DEF HitsInv
<1> QED BY <1>1, TypeInvariant, DedupInit, DedupNext, HitsInit, HitsNext, PTL DEF Spec

=============================================================================
