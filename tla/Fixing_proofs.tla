---------------------------- MODULE Fixing_proofs ----------------------------
(***************************************************************************)
(* Proofs about what becomes of a detector's signal and of its fix, for    *)
(* any detections, any number of tasks, any file and any edits of it.      *)
(***************************************************************************)
EXTENDS MCFixing, FiniteSetTheorems, WellFoundedInduction, TLAPS

-----------------------------------------------------------------------------
(* 1. Keys, incidents and hit counts. *)

Pair(n) == <<Detection(n).source, Detection(n).class>>
Keys == {Key(n) : n \in Tasks}
Finders(h) == {n \in Tasks : found[n] = h}

\* The fingerprint table and the sites are functions of one domain.
Tables ==
    /\ case \in Cases
    /\ table \in [Keys -> Tasks \cup {None}]
    /\ DOMAIN sites = Pairs
    /\ \A p \in Pairs : IsFiniteSet(sites[p])

Ranges ==
    /\ pc \in [Tasks -> {"quiet", "spawned", "created", "located", "done", "raised"}]
    /\ found \in [Tasks -> Tasks \cup {None}]
    /\ status \in [Tasks -> {"absent", "open", "patched", "low", "final"}]
    /\ gone \in [Tasks -> BOOLEAN]
    /\ hits \in [Tasks -> Nat]
    /\ scope \in [Tasks -> {"guard", "structural", None}]
    /\ opened \subseteq Tasks /\ guards \subseteq Tasks /\ deleted \subseteq Tasks

\* A task has found nothing before it ran, the incident of a key is named
\* after a task of that key, and a task has found one of its own key.
KeysInv ==
    /\ \A n \in Tasks : pc[n] \in {"quiet", "spawned"} => found[n] = None
    /\ \A h \in Tasks, k \in Keys : table[k] = h => Key(h) = k
    /\ \A h, n \in Tasks : found[n] = h => Key(h) = Key(n)

\* An incident was hit at most once by each task that found it.
HitsInv == \A h \in Tasks : hits[h] <= Cardinality(Finders(h))

\* The code site of a fix that a guard was opened for is among the sites seen.
SitesInv == \A n \in guards : Detection(n).site \in sites[Pair(n)]

\* A detection, its key and its pair never change.
LEMMA DetectionStays ==
    ASSUME case' = case
    PROVE  /\ \A n : Detection(n)' = Detection(n)
           /\ \A n : Key(n)' = Key(n) /\ Home(n)' = Home(n) /\ Pair(n)' = Pair(n)
           /\ Keys' = Keys /\ Pairs' = Pairs
<1>1. \A n : Detection(n)' = Detection(n)
  BY DEF Detection
<1>2. \A n : Trigger(n)' = Trigger(n)
  BY <1>1 DEF Trigger
<1>3. \A n : Home(n)' = Home(n)
  BY <1>1 DEF Home
<1>4. \A n : Key(n)' = Key(n)
  BY <1>2, <1>3 DEF Key
<1>5. \A n : Pair(n)' = Pair(n)
  BY <1>1 DEF Pair
<1>6. Keys' = Keys
  BY <1>4 DEF Keys
<1>7. Pairs' = Pairs
  BY <1>1 DEF Pairs
<1> QED BY <1>1, <1>3, <1>4, <1>5, <1>6, <1>7

\* The steps of a task, and no other, touch the key table.
LEMMA NextCases ==
    ASSUME TriggersNext, NEW P,
           ASSUME NEW n \in Tasks, Spawn(n) PROVE P,
           ASSUME NEW n \in Tasks, Bump(n) PROVE P,
           ASSUME NEW n \in Tasks, Surface(n) PROVE P,
           ASSUME NEW n \in Tasks, NoFix(n) PROVE P,
           ASSUME NEW n \in Tasks, Locate(n) PROVE P,
           ASSUME NEW n \in Tasks, NEW m \in {"deterministic", "llm"}, NEW to \in {"patched", "low"},
                  FinalizePatch(n, m, to) PROVE P,
           ASSUME NEW n \in Tasks, Finish(n) PROVE P,
           ASSUME NEW w, DemoReset(w) PROVE P
    PROVE  P
<1> QED BY DEF TriggersNext, Step

\* What a table says is a task or nothing, and nobody's key is left out of it.
LEMMA RangesStay ==
    ASSUME Ranges, Tables, TriggersNext
    PROVE  Ranges'
<1> USE DEF Ranges
<1>1. ASSUME NEW n \in Tasks, Spawn(n) PROVE Ranges'
  BY <1>1 DEF Spawn, Goto, fixing
<1>2. ASSUME NEW n \in Tasks, Bump(n) PROVE Ranges'
  <2>1. Key(n) \in Keys
    BY DEF Keys
  <2>2. PICK k \in Tasks : k = table[Key(n)]
    BY <1>2, <2>1 DEF Bump, Tables
  <2>3. /\ pc' = [pc EXCEPT ![n] = "done"]
        /\ hits' = [hits EXCEPT ![k] = @ + 1]
        /\ found' = [found EXCEPT ![n] = k]
        /\ UNCHANGED <<status, gone, scope, opened, guards, deleted>>
    BY <1>2, <2>2 DEF Bump, Goto, fixing
  <2> QED BY <2>2, <2>3
<1>3. ASSUME NEW n \in Tasks, Surface(n) PROVE Ranges'
  BY <1>3 DEF Surface, Goto, fixing
<1>4. ASSUME NEW n \in Tasks, NoFix(n) PROVE Ranges'
  BY <1>4 DEF NoFix, Goto, fixing
<1>5. ASSUME NEW n \in Tasks, Locate(n) PROVE Ranges'
  <2>1. PICK b \in BOOLEAN : b = (status[n] = "absent")
    OBVIOUS
  <2>2. gone' = [gone EXCEPT ![n] = b]
    BY <1>5, <2>1 DEF Locate
  <2>3. pc' \in [Tasks -> {"quiet", "spawned", "created", "located", "done", "raised"}]
    BY <1>5 DEF Locate, Goto
  <2>4. UNCHANGED <<found, status, hits, scope, opened, guards, deleted>>
    BY <1>5 DEF Locate, fixing
  <2> QED BY <2>2, <2>3, <2>4
<1>6. ASSUME NEW n \in Tasks, NEW m \in {"deterministic", "llm"}, NEW to \in {"patched", "low"},
             FinalizePatch(n, m, to)
      PROVE  Ranges'
  <2>1. FixScope(n, m) \in {"guard", "structural"}
    BY DEF FixScope
  <2>2. pc' \in [Tasks -> {"quiet", "spawned", "created", "located", "done", "raised"}]
    BY <1>6 DEF FinalizePatch
  <2>3. status' \in [Tasks -> {"absent", "open", "patched", "low", "final"}]
    BY <1>6 DEF FinalizePatch
  <2>4. scope' \in [Tasks -> {"guard", "structural", None}]
    BY <1>6, <2>1 DEF FinalizePatch
  <2>5. opened' \subseteq Tasks /\ guards' \subseteq Tasks
    BY <1>6 DEF FinalizePatch
  <2> QED BY <1>6, <2>2, <2>3, <2>4, <2>5 DEF FinalizePatch
<1>7. ASSUME NEW n \in Tasks, Finish(n) PROVE Ranges'
  BY <1>7 DEF Finish, fixing
<1>8. ASSUME NEW w, DemoReset(w) PROVE Ranges'
  BY <1>8 DEF DemoReset
<1> HIDE DEF Ranges
<1> QED BY <1>1, <1>2, <1>3, <1>4, <1>5, <1>6, <1>7, <1>8, NextCases

LEMMA TablesStay ==
    ASSUME Tables, TriggersNext
    PROVE  Tables' /\ case' = case
<1> USE DEF Tables
<1>1. ASSUME NEW n \in Tasks, Spawn(n) PROVE UNCHANGED <<case, table, sites>>
  BY <1>1 DEF Spawn, fixing
<1>2. ASSUME NEW n \in Tasks, Bump(n) PROVE UNCHANGED <<case, table, sites>>
  BY <1>2 DEF Bump, fixing
<1>3. ASSUME NEW n \in Tasks, Surface(n)
      PROVE  case' = case /\ sites' = sites /\ table' \in [Keys -> Tasks \cup {None}]
  BY <1>3 DEF Surface, fixing
<1>4. ASSUME NEW n \in Tasks, NoFix(n) PROVE UNCHANGED <<case, table, sites>>
  BY <1>4 DEF NoFix, fixing
<1>5. ASSUME NEW n \in Tasks, Locate(n) PROVE UNCHANGED <<case, table, sites>>
  BY <1>5 DEF Locate, fixing
<1>6. ASSUME NEW n \in Tasks, NEW m \in {"deterministic", "llm"}, NEW to \in {"patched", "low"},
             FinalizePatch(n, m, to)
      PROVE  /\ case' = case /\ table' = table
             /\ DOMAIN sites' = Pairs /\ \A p \in Pairs : IsFiniteSet(sites'[p])
  <2>1. case' = case /\ table' = table /\ DOMAIN sites' = Pairs
    BY <1>6 DEF FinalizePatch
  <2>2. ASSUME NEW p \in Pairs
        PROVE  sites'[p] = sites[p] \/ sites'[p] = sites[p] \cup {Detection(n).site}
    BY <1>6 DEF FinalizePatch
  <2>3. ASSUME NEW p \in Pairs PROVE IsFiniteSet(sites'[p])
    <3>1. IsFiniteSet(sites[p])
      OBVIOUS
    <3>2. IsFiniteSet(sites[p] \cup {Detection(n).site})
      BY <3>1, FS_AddElement
    <3> QED BY <2>2, <3>1, <3>2
  <2> QED BY <2>1, <2>3
<1>7. ASSUME NEW n \in Tasks, Finish(n) PROVE UNCHANGED <<case, table, sites>>
  BY <1>7 DEF Finish, fixing
<1>8. ASSUME NEW w, DemoReset(w)
      PROVE  /\ case' = case /\ table' = table
             /\ DOMAIN sites' = Pairs /\ \A p \in Pairs : IsFiniteSet(sites'[p])
  BY <1>8, FS_EmptySet DEF DemoReset
<1> HIDE DEF Tables
<1>9. /\ case' = case
      /\ table' = table \/ table' \in [Keys -> Tasks \cup {None}]
      /\ \/ sites' = sites
         \/ DOMAIN sites' = Pairs /\ \A p \in Pairs : IsFiniteSet(sites'[p])
  BY <1>1, <1>2, <1>3, <1>4, <1>5, <1>6, <1>7, <1>8, NextCases
<1>10. Keys' = Keys /\ Pairs' = Pairs
  BY <1>9, DetectionStays
<1> QED BY <1>9, <1>10 DEF Tables

-----------------------------------------------------------------------------
(* 2. Who shares an incident. *)

\* Only Bump and Surface change what a task has found, and only for a task
\* that has not found anything yet.
Finds(n) ==
    /\ pc[n] = "spawned"
    /\ pc' \in {[pc EXCEPT ![n] = "done"], [pc EXCEPT ![n] = "created"]}
    /\ \/ /\ table[Key(n)] # None
          /\ found' = [found EXCEPT ![n] = table[Key(n)]]
          /\ hits' = [hits EXCEPT ![table[Key(n)]] = @ + 1]
          /\ table' = table
       \/ /\ found' = [found EXCEPT ![n] = n]
          /\ hits' = [hits EXCEPT ![n] = 1]
          /\ table' = [table EXCEPT ![Key(n)] = n]

FindsNothing ==
    /\ UNCHANGED <<found, hits, table>>
    /\ \A n \in Tasks : pc'[n] \in {"quiet", "spawned"} => pc[n] \in {"quiet", "spawned"}

LEMMA FindSteps ==
    ASSUME Ranges, TriggersNext
    PROVE  FindsNothing \/ \E n \in Tasks : Finds(n)
<1> DEFINE Goal == FindsNothing \/ \E n \in Tasks : Finds(n)
<1>0. pc \in [Tasks -> {"quiet", "spawned", "created", "located", "done", "raised"}]
  BY DEF Ranges
<1>1. ASSUME NEW n \in Tasks, Spawn(n) PROVE Goal
  BY <1>0, <1>1 DEF Spawn, Goto, FindsNothing
<1>2. ASSUME NEW n \in Tasks, Bump(n) PROVE Goal
  BY <1>2 DEF Bump, Goto, Finds
<1>3. ASSUME NEW n \in Tasks, Surface(n) PROVE Goal
  BY <1>3 DEF Surface, Goto, Finds
<1>4. ASSUME NEW n \in Tasks, NoFix(n) PROVE Goal
  BY <1>0, <1>4 DEF NoFix, Goto, FindsNothing
<1>5. ASSUME NEW n \in Tasks, Locate(n) PROVE Goal
  BY <1>0, <1>5 DEF Locate, Goto, FindsNothing
<1>6. ASSUME NEW n \in Tasks, NEW m \in {"deterministic", "llm"}, NEW to \in {"patched", "low"},
             FinalizePatch(n, m, to)
      PROVE  Goal
  BY <1>0, <1>6 DEF FinalizePatch, FindsNothing
<1>7. ASSUME NEW n \in Tasks, Finish(n) PROVE Goal
  BY <1>7 DEF Finish, FindsNothing
<1>8. ASSUME NEW w, DemoReset(w) PROVE Goal
  BY <1>8 DEF DemoReset, FindsNothing
<1> HIDE DEF Goal
<1>9. Goal
  BY <1>1, <1>2, <1>3, <1>4, <1>5, <1>6, <1>7, <1>8, NextCases
<1> QED BY <1>9 DEF Goal

LEMMA KeysStay ==
    ASSUME Ranges, Tables, KeysInv, TriggersNext
    PROVE  KeysInv'
<1>1. /\ case' = case
      /\ \A n : Key(n)' = Key(n)
      /\ Keys' = Keys
  BY TablesStay, DetectionStays
<1>2. /\ pc \in [Tasks -> {"quiet", "spawned", "created", "located", "done", "raised"}]
      /\ found \in [Tasks -> Tasks \cup {None}]
      /\ table \in [Keys -> Tasks \cup {None}]
  BY DEF Ranges, Tables
<1>3. None \notin Tasks
  BY TriggersAssumption
<1>4. CASE FindsNothing
  BY <1>1, <1>2, <1>4 DEF FindsNothing, KeysInv
<1>5. ASSUME NEW n \in Tasks, Finds(n) PROVE KeysInv'
  <2>1. Key(n) \in Keys
    BY DEF Keys
  <2>2. PICK h \in Tasks :
          /\ found' = [found EXCEPT ![n] = h]
          /\ Key(h) = Key(n)
          /\ table' = table \/ table' = [table EXCEPT ![Key(n)] = n]
    BY <1>2, <1>5, <2>1 DEF Finds, KeysInv
  <2>3. \A x \in Tasks : pc'[x] \in {"quiet", "spawned"} => found'[x] = None
    BY <1>2, <1>5, <2>2 DEF Finds, KeysInv
  <2>4. \A x \in Tasks, k \in Keys : table'[k] = x => Key(x) = k
    BY <1>2, <2>2 DEF KeysInv
  <2>5. \A y, x \in Tasks : found'[x] = y => Key(y) = Key(x)
    BY <1>2, <2>2 DEF KeysInv
  <2> QED BY <1>1, <2>3, <2>4, <2>5 DEF KeysInv
<1> QED BY <1>4, <1>5, FindSteps

LEMMA HitsStay ==
    ASSUME Ranges, Tables, KeysInv, HitsInv, TriggersNext
    PROVE  HitsInv'
<1>1. /\ pc \in [Tasks -> {"quiet", "spawned", "created", "located", "done", "raised"}]
      /\ found \in [Tasks -> Tasks \cup {None}]
      /\ table \in [Keys -> Tasks \cup {None}]
      /\ hits \in [Tasks -> Nat]
  BY DEF Ranges, Tables
<1>2. None \notin Tasks /\ IsFiniteSet(Tasks)
  BY TriggersAssumption
<1>3. CASE FindsNothing
  BY <1>3 DEF FindsNothing, HitsInv, Finders
<1>4. ASSUME NEW n \in Tasks, Finds(n) PROVE HitsInv'
  <2>1. Key(n) \in Keys
    BY DEF Keys
  <2>2. found[n] = None
    BY <1>4 DEF Finds, KeysInv
  <2>3. PICK k \in Tasks :
          /\ found' = [found EXCEPT ![n] = k]
          /\ hits' = [hits EXCEPT ![k] = @ + 1] \/ hits' = [hits EXCEPT ![k] = 1]
    BY <1>1, <1>4, <2>1 DEF Finds
  <2>4. \A x \in Tasks : IsFiniteSet(Finders(x)) /\ Cardinality(Finders(x)) \in Nat
    <3>1. \A x \in Tasks : Finders(x) \subseteq Tasks
      BY DEF Finders
    <3> QED BY <1>2, <3>1, FS_Subset, FS_CardinalityType
  <2>5. n \notin Finders(k) /\ Finders(k)' = Finders(k) \cup {n}
    BY <1>1, <1>2, <2>2, <2>3 DEF Finders
  <2>6. Cardinality(Finders(k)') = Cardinality(Finders(k)) + 1
    BY <2>4, <2>5, FS_AddElement
  <2>7. hits'[k] <= Cardinality(Finders(k)')
    <3>1. hits[k] <= Cardinality(Finders(k)) /\ hits[k] \in Nat
      BY <1>1 DEF HitsInv
    <3>2. hits'[k] = hits[k] + 1 \/ hits'[k] = 1
      BY <1>1, <2>3
    <3> QED BY <2>4, <2>6, <3>1, <3>2
  <2>8. ASSUME NEW x \in Tasks, x # k PROVE hits'[x] <= Cardinality(Finders(x)')
    <3>1. Finders(x)' = Finders(x)
      BY <1>1, <1>2, <2>2, <2>3, <2>8 DEF Finders
    <3>2. hits'[x] = hits[x]
      BY <1>1, <2>3, <2>8
    <3> QED BY <3>1, <3>2 DEF HitsInv
  <2> QED BY <2>7, <2>8 DEF HitsInv
<1> QED BY <1>3, <1>4, FindSteps

-----------------------------------------------------------------------------
(* 3. The sites of the guards. *)

\* A guard is only scoped when no other site of the failure was seen.
LEMMA GuardIsTheOnlySite ==
    ASSUME Tables, NEW n \in Tasks, NEW m, FixScope(n, m) = "guard",
           NEW t \in sites[Pair(n)]
    PROVE  t = Detection(n).site
<1> DEFINE s == Detection(n).site
           seen == sites[Pair(n)] \cup {s}
<1>1. IsFiniteSet(sites[Pair(n)])
  BY DEF Tables, Pair, Pairs
<1>2. IsFiniteSet(seen)
  BY <1>1, FS_AddElement
<1>3. ~ Cardinality(seen) > 1
  BY DEF FixScope, Pair
<1>4. SUFFICES ASSUME t # s PROVE FALSE
  OBVIOUS
<1>5. {t, s} \subseteq seen
  OBVIOUS
<1>6. IsFiniteSet({t, s}) /\ Cardinality({t, s}) = 2
  <2>1. IsFiniteSet({s}) /\ Cardinality({s}) = 1
    BY FS_Singleton
  <2>2. {t, s} = {s} \cup {t} /\ t \notin {s}
    BY <1>4
  <2> HIDE DEF s
  <2>3. /\ IsFiniteSet({s} \cup {t})
        /\ Cardinality({s} \cup {t}) = IF t \in {s} THEN Cardinality({s}) ELSE Cardinality({s}) + 1
    BY <2>1, FS_AddElement
  <2>4. Cardinality({s} \cup {t}) = 2
    BY <2>1, <2>2, <2>3
  <2> QED BY <2>2, <2>3, <2>4
<1>7. Cardinality({t, s}) <= Cardinality(seen) /\ Cardinality(seen) \in Nat
  BY <1>2, <1>5, FS_Subset, FS_CardinalityType
<1> QED BY <1>3, <1>6, <1>7

\* A guard is opened by _finalize_patch, and forgotten by a reset.
LEMMA GuardSteps ==
    ASSUME Tables, TriggersNext
    PROVE  \/ UNCHANGED <<guards, sites>>
           \/ guards' = {}
           \/ \E n \in Tasks :
                 /\ guards' = guards
                 /\ sites' = [sites EXCEPT ![Pair(n)] = @ \cup {Detection(n).site}]
           \/ \E n \in Tasks, m \in {"deterministic", "llm"} :
                 /\ guards' = guards \cup {n} /\ FixScope(n, m) = "guard"
                 /\ sites' = [sites EXCEPT ![Pair(n)] = @ \cup {Detection(n).site}]
<1> DEFINE Adds(n) == sites' = [sites EXCEPT ![Pair(n)] = @ \cup {Detection(n).site}]
           Goal == \/ UNCHANGED <<guards, sites>>
                   \/ guards' = {}
                   \/ \E n \in Tasks : guards' = guards /\ Adds(n)
                   \/ \E n \in Tasks, m \in {"deterministic", "llm"} :
                         guards' = guards \cup {n} /\ FixScope(n, m) = "guard" /\ Adds(n)
<1>1. ASSUME NEW n \in Tasks, Spawn(n) PROVE Goal
  BY <1>1 DEF Spawn, fixing
<1>2. ASSUME NEW n \in Tasks, Bump(n) PROVE Goal
  BY <1>2 DEF Bump, fixing
<1>3. ASSUME NEW n \in Tasks, Surface(n) PROVE Goal
  BY <1>3 DEF Surface, fixing
<1>4. ASSUME NEW n \in Tasks, NoFix(n) PROVE Goal
  BY <1>4 DEF NoFix, fixing
<1>5. ASSUME NEW n \in Tasks, Locate(n) PROVE Goal
  BY <1>5 DEF Locate, fixing
<1>6. ASSUME NEW n \in Tasks, NEW m \in {"deterministic", "llm"}, NEW to \in {"patched", "low"},
             FinalizePatch(n, m, to)
      PROVE  Goal
  <2>1. CASE gone[n]
    BY <1>6, <2>1 DEF FinalizePatch
  <2>2. CASE ~ gone[n]
    <3>1. Adds(n)
      BY <1>6, <2>2 DEF FinalizePatch, Pair
    <3>2. guards' = guards \/ (guards' = guards \cup {n} /\ FixScope(n, m) = "guard")
      BY <1>6 DEF FinalizePatch
    <3> QED BY <3>1, <3>2
  <2> QED BY <2>1, <2>2
<1>7. ASSUME NEW n \in Tasks, Finish(n) PROVE Goal
  BY <1>7 DEF Finish, fixing
<1>8. ASSUME NEW w, DemoReset(w) PROVE Goal
  BY <1>8 DEF DemoReset
<1> HIDE DEF Goal
<1>9. Goal
  BY <1>1, <1>2, <1>3, <1>4, <1>5, <1>6, <1>7, <1>8, NextCases
<1> QED BY <1>9 DEF Goal

LEMMA GuardsStay ==
    ASSUME Ranges, Tables, SitesInv, GuardsAreSingleSite, TriggersNext
    PROVE  SitesInv' /\ GuardsAreSingleSite'
<1>1. /\ \A n : Detection(n)' = Detection(n)
      /\ \A n : Pair(n)' = Pair(n)
  BY TablesStay, DetectionStays
<1>2. guards \subseteq Tasks /\ \A n \in Tasks : Pair(n) \in DOMAIN sites
  BY DEF Ranges, Tables, Pair, Pairs
<1>3. CASE UNCHANGED <<guards, sites>>
  BY <1>1, <1>3 DEF SitesInv, GuardsAreSingleSite
<1>4. CASE guards' = {}
  BY <1>4 DEF SitesInv, GuardsAreSingleSite
<1>5. ASSUME NEW n \in Tasks, guards' = guards \/ guards' = guards \cup {n},
             sites' = [sites EXCEPT ![Pair(n)] = @ \cup {Detection(n).site}]
      PROVE  SitesInv'
  <2>1. SUFFICES ASSUME NEW x \in guards' PROVE Detection(x).site \in sites'[Pair(x)]
    BY <1>1 DEF SitesInv
  <2>2. CASE x \in guards
    <3>1. Detection(x).site \in sites[Pair(x)] /\ Pair(x) \in DOMAIN sites
      BY <1>2, <2>2 DEF SitesInv
    <3> QED BY <1>5, <3>1
  <2>3. CASE x = n
    BY <1>2, <1>5, <2>3
  <2> QED BY <1>5, <2>2, <2>3
<1>6. ASSUME NEW n \in Tasks, NEW m, guards' = guards \cup {n}, FixScope(n, m) = "guard"
      PROVE  GuardsAreSingleSite'
  <2>1. \A x \in guards : Pair(x) = Pair(n) => Detection(x).site = Detection(n).site
    BY <1>2, <1>6, GuardIsTheOnlySite DEF SitesInv
  <2>2. \A x, y \in guards' : Pair(x) = Pair(y) => Detection(x).site = Detection(y).site
    BY <1>6, <2>1 DEF GuardsAreSingleSite, Pair
  <2> QED BY <1>1, <2>2 DEF GuardsAreSingleSite, Pair
<1>7. guards' = guards => GuardsAreSingleSite'
  BY <1>1 DEF GuardsAreSingleSite
<1> QED BY <1>3, <1>4, <1>5, <1>6, <1>7, GuardSteps

-----------------------------------------------------------------------------
(* 4. The invariant and the theorems. *)

FixingInv ==
    /\ Tables /\ Ranges /\ KeysInv /\ HitsInv
    /\ SitesInv /\ GuardsAreSingleSite

LEMMA FixingStarts == TriggersInit => FixingInv
<1> SUFFICES ASSUME TriggersInit PROVE FixingInv
  OBVIOUS
<1>1. Tables
  BY FS_EmptySet DEF TriggersInit, Tables, Keys
<1>2. Ranges
  BY DEF TriggersInit, Ranges
<1>3. KeysInv
  BY TriggersAssumption DEF TriggersInit, KeysInv, Keys
<1>4. HitsInv
  <2>1. \A h \in Tasks : Finders(h) = {}
    BY TriggersAssumption DEF TriggersInit, Finders
  <2> QED BY <2>1, FS_EmptySet DEF TriggersInit, HitsInv
<1>5. SitesInv /\ GuardsAreSingleSite
  BY DEF TriggersInit, SitesInv, GuardsAreSingleSite
<1> QED BY <1>1, <1>2, <1>3, <1>4, <1>5 DEF FixingInv

LEMMA FixingKept == FixingInv /\ [TriggersNext]_triggerVars => FixingInv'
<1>1. ASSUME FixingInv, TriggersNext PROVE FixingInv'
  BY <1>1, TablesStay, RangesStay, KeysStay, HitsStay, GuardsStay DEF FixingInv
<1>2. ASSUME FixingInv, UNCHANGED triggerVars PROVE FixingInv'
  <2>1. case' = case
    BY <1>2 DEF triggerVars
  <2>2. /\ \A n : Detection(n)' = Detection(n)
        /\ \A n : Key(n)' = Key(n) /\ Pair(n)' = Pair(n)
        /\ Keys' = Keys /\ Pairs' = Pairs
    BY <2>1, DetectionStays
  <2>3. Tables' /\ Ranges'
    BY <1>2, <2>2 DEF FixingInv, triggerVars, Tables, Ranges
  <2>4. KeysInv' /\ HitsInv'
    BY <1>2, <2>2 DEF FixingInv, triggerVars, KeysInv, HitsInv, Finders
  <2>5. SitesInv' /\ GuardsAreSingleSite'
    BY <1>2, <2>2 DEF FixingInv, triggerVars, SitesInv, GuardsAreSingleSite
  <2> QED BY <2>3, <2>4, <2>5 DEF FixingInv
<1> QED BY <1>1, <1>2

LEMMA FixingInvariant == TriggersSpec => []FixingInv
BY FixingStarts, FixingKept, PTL DEF TriggersSpec

\* Tasks of one key have detections that agree in what the key is made from.
LEMMA KeysTellApart ==
    ASSUME case \in Cases, NEW n \in Tasks, NEW m \in Tasks, Key(n) = Key(m)
    PROVE  LET s == Detection(n)
               t == Detection(m)
           IN  /\ s.class = t.class /\ Home(n) = Home(m)
               /\ \/ s.class \notin {"anomaly", "pingpong", "cascade"} /\ s.source = t.source
                  \/ s.class = "anomaly" /\ s.tool = t.tool
                  \/ s.class \in {"pingpong", "cascade"} /\ s.run = t.run
<1>1. Detection(n).class \in Classes /\ Detection(m).class \in Classes
  BY TriggersAssumption DEF Detection
<1>2. Home(n) = Home(m) /\ Trigger(n).fp = Trigger(m).fp
  BY DEF Key
<1> QED
  BY <1>1, <1>2, SMTT(60)
     DEF Classes, Trigger, TriggerAnomaly, TriggerCorruption, TriggerCostSpike, TriggerRetryStorm,
         TriggerBindingDrop, TriggerPingpong, TriggerOverflow, TriggerStuck, TriggerInjection,
         TriggerHallucination, TriggerWrongTool, TriggerCascade, TriggerGeneric

\* rca/pipeline.py, trigger_*(): whatever detections come and however their
\* tasks overtake each other, finish, fail or are reset, those that share an
\* incident are of one class and workspace and of one source, call or run.
THEOREM DetectionsKeptApart == TriggersSpec => []NoMixups
<1>1. FixingInv => NoMixups
  <2>1. SUFFICES ASSUME FixingInv, NEW n \in Tasks, NEW m \in Tasks,
                        found[n] # None, found[n] = found[m]
                 PROVE  Key(n) = Key(m) /\ case \in Cases
    BY KeysTellApart DEF NoMixups
  <2>2. PICK h \in Tasks : found[n] = h
    BY <2>1 DEF FixingInv, Ranges
  <2> QED BY <2>1, <2>2 DEF FixingInv, KeysInv, Tables
<1> QED BY <1>1, FixingInvariant, PTL

\* _fix_scope and _maybe_open_pr: the guards that were opened for one failure
\* of one source since the last reset are all at one code site.
THEOREM GuardsKeptApart == TriggersSpec => []GuardsAreSingleSite
<1>1. FixingInv => GuardsAreSingleSite
  BY DEF FixingInv
<1> QED BY <1>1, FixingInvariant, PTL

LEMMA TriggersTypeCorrect == TriggersSpec => []TriggersTypeOK
<1>1. FixingInv => TriggersTypeOK
  <2>1. SUFFICES ASSUME FixingInv PROVE TriggersTypeOK
    OBVIOUS
  <2>2. Tables /\ Ranges /\ HitsInv
    BY <2>1 DEF FixingInv
  <2>3. ASSUME NEW h \in Tasks PROVE hits[h] \in 0..Cardinality(Tasks)
    <3>1. Finders(h) \subseteq Tasks
      BY DEF Finders
    <3>2. /\ Cardinality(Finders(h)) <= Cardinality(Tasks)
          /\ Cardinality(Finders(h)) \in Nat /\ Cardinality(Tasks) \in Nat
      BY <3>1, TriggersAssumption, FS_Subset, FS_CardinalityType
    <3>3. hits[h] \in Nat /\ hits[h] <= Cardinality(Finders(h))
      BY <2>2 DEF Ranges, HitsInv
    <3> QED BY <3>2, <3>3
  <2>4. \A k \in DOMAIN table : table[k] \in Tasks \cup {None}
    BY <2>2 DEF Tables
  <2> QED BY <2>2, <2>3, <2>4 DEF TriggersTypeOK, Tables, Ranges
<1> QED BY <1>1, FixingInvariant, PTL

-----------------------------------------------------------------------------
(* 5. The states of a fix, and of both parts. *)

Ats == {"new", "read", "none", "patched", "low", "approved", "patch_stale", "pr_failed", "pr_open"}

\* A fix is delivered to the disk at most once by each approval that was read
\* before the first of them went through, and to a branch at most once.
FixInv ==
    /\ way \in {"disk", "repo"}
    /\ "at" \in DOMAIN fix /\ fix.at \in Ats
    /\ \E S : delivered \in Seq(S)
    /\ approving \in Nat /\ edits \in 0..MaxEdits
    /\ pull = {} \/ \E text : pull = {text}
    /\ way = "disk" =>
          /\ fix.at \in {"new", "read", "none", "patched", "low", "approved"}
          /\ pull = {} /\ Len(delivered) + approving <= MaxApprovals
    /\ way = "repo" => fix.at # "approved" /\ approving = 0 /\ Len(delivered) <= 1
    /\ fix.at \notin {"approved", "pr_open"} => Len(delivered) = 0
    /\ fix.at = "pr_open" => pull = {}

\* An entry more in the history.
LEMMA OneMore ==
    ASSUME NEW d, NEW S, d \in Seq(S), NEW x
    PROVE  /\ \E T : Append(d, x) \in Seq(T)
           /\ Len(Append(d, x)) = Len(d) + 1 /\ Len(d) \in Nat
<1> DEFINE T == S \cup {x}
<1>1. d \in Seq(T) /\ x \in T
  OBVIOUS
<1> QED BY <1>1

\* The steps before a fix is delivered.
LEMMA Preparing ==
    ASSUME FixInv, fix.at \in {"new", "read"},
           \E at \in {"read", "none", "patched", "low"} : fix'.at = at /\ "at" \in DOMAIN fix',
           UNCHANGED <<way, file, approving, pull, delivered, edits>>
    PROVE  FixInv'
BY DEF FixInv, Ats

LEMMA FixStarts == FixInit => FixInv
<1> SUFFICES ASSUME FixInit PROVE FixInv
  OBVIOUS
<1>1. \E S : delivered \in Seq(S)
  <2>1. delivered \in Seq({})
    BY DEF FixInit
  <2> QED BY <2>1
<1> QED BY <1>1, DeliveryAssumption DEF FixInit, FixInv, NoFixYet, Ats

LEMMA FixKept == FixInv /\ [FixNext]_fixVars => FixInv'
<1>0. SUFFICES ASSUME FixInv, [FixNext]_fixVars PROVE FixInv'
  OBVIOUS
<1>1. PICK S : delivered \in Seq(S)
  BY <1>0 DEF FixInv
<1>2. Len(delivered) \in Nat /\ MaxEdits \in Nat /\ MaxApprovals \in Nat \ {0}
  BY <1>1, DeliveryAssumption
<1>3. CASE Edit
  <2>1. edits' \in 0..MaxEdits /\ UNCHANGED <<way, fix, approving, pull, delivered>>
    BY <1>0, <1>2, <1>3 DEF Edit, FixInv
  <2> QED BY <1>0, <2>1 DEF FixInv
<1>4. CASE ReadSource
  BY <1>0, <1>4, Preparing DEF ReadSource, FixInv
<1>5. ASSUME NEW s, NEW m, fix.at = "read", Finalize(s, m),
             UNCHANGED <<way, file, approving, pull, delivered, edits>>
      PROVE  FixInv'
  <2>1. PICK at \in {"patched", "low"} :
             fix' = [fix EXCEPT !.at = at, !.hunks = UnifiedDiff(fix.shown, s),
                                !.goal = Rewritten(fix.shown, s)]
    BY <1>5, Zenon DEF Finalize
  <2>2. fix'.at = at /\ "at" \in DOMAIN fix'
    BY <1>0, <2>1 DEF FixInv
  <2> QED BY <1>0, <1>5, <2>2, Preparing
<1>6. CASE LlmRewrite
  BY <1>5, <1>6 DEF LlmRewrite
<1>7. CASE ByTemplate
  BY <1>5, <1>7 DEF ByTemplate
<1>8. CASE NothingGenerated
  BY <1>0, <1>8, Preparing DEF NothingGenerated, FixInv
<1>9. ASSUME NEW force \in BOOLEAN, ReadForApproval(force) PROVE FixInv'
  <2>1. /\ way = "disk" /\ fix.at \in {"patched", "low"}
        /\ approving < MaxApprovals /\ approving' = approving + 1
        /\ UNCHANGED <<way, file, fix, pull, delivered, edits>>
    BY <1>9 DEF ReadForApproval
  <2> QED BY <1>0, <1>2, <2>1 DEF FixInv
<1>10. ASSUME NEW how, ApplyToDisk(how) PROVE FixInv'
  <2>1. approving > 0 /\ approving' = approving - 1 /\ UNCHANGED <<way, pull, edits>>
    BY <1>10 DEF ApplyToDisk
  <2>2. way = "disk" /\ pull = {}
    BY <1>0, <2>1 DEF FixInv
  <2>3. CASE UNCHANGED <<file, fix, delivered>>
    BY <1>0, <1>2, <2>1, <2>2, <2>3 DEF FixInv
  <2>4. ASSUME NEW x, delivered' = Append(delivered, x), fix' = [fix EXCEPT !.at = "approved"]
        PROVE  FixInv'
    <3>1. (\E T : delivered' \in Seq(T)) /\ Len(delivered') = Len(delivered) + 1
      BY <1>1, <2>4, OneMore
    <3>2. fix'.at = "approved" /\ "at" \in DOMAIN fix'
      BY <1>0, <2>4 DEF FixInv
    <3> QED BY <1>0, <1>2, <2>1, <2>2, <3>1, <3>2 DEF FixInv, Ats
  <2> QED BY <1>10, <2>3, <2>4 DEF ApplyToDisk
<1>11. CASE FetchHead
  <2>1. /\ way = "repo" /\ fix.at \in {"patched", "low", "patch_stale", "pr_failed"}
        /\ pull' = {file}
        /\ UNCHANGED <<way, file, fix, approving, delivered, edits>>
    BY <1>11 DEF FetchHead
  <2> QED BY <1>0, <2>1 DEF FixInv
<1>12. CASE Commit
  <2>1. pull # {} /\ pull' = {} /\ UNCHANGED <<way, file, approving, edits>>
    BY <1>12 DEF Commit
  <2>2. way = "repo" /\ fix.at \notin {"approved", "pr_open"}
    BY <1>0, <2>1 DEF FixInv
  <2>3. ASSUME NEW at \in {"patch_stale", "pr_failed"},
               fix' = [fix EXCEPT !.at = at], delivered' = delivered
        PROVE  FixInv'
    <3>1. fix'.at = at /\ "at" \in DOMAIN fix'
      BY <1>0, <2>3 DEF FixInv
    <3> QED BY <1>0, <2>1, <2>2, <2>3, <3>1 DEF FixInv, Ats
  <2>4. ASSUME NEW x, delivered' = Append(delivered, x), fix' = [fix EXCEPT !.at = "pr_open"]
        PROVE  FixInv'
    <3>1. (\E T : delivered' \in Seq(T)) /\ Len(delivered') = Len(delivered) + 1
      BY <1>1, <2>4, OneMore
    <3>2. fix'.at = "pr_open" /\ "at" \in DOMAIN fix'
      BY <1>0, <2>4 DEF FixInv
    <3> QED BY <1>0, <1>2, <2>1, <2>2, <3>1, <3>2 DEF FixInv, Ats
  <2> QED BY <1>12, <2>3, <2>4 DEF Commit
<1>13. CASE UNCHANGED fixVars
  BY <1>0, <1>13 DEF FixInv, fixVars
<1> QED BY <1>0, <1>3, <1>4, <1>6, <1>7, <1>8, <1>9, <1>10, <1>11, <1>12, <1>13 DEF FixNext

LEMMA FixTypeCorrect == FixSpec => []FixTypeOK
<1>1. FixInv => FixTypeOK
  <2>1. SUFFICES ASSUME FixInv PROVE FixTypeOK
    OBVIOUS
  <2>2. Cardinality(pull) <= 1
    <3>1. CASE pull = {}
      BY <3>1, FS_EmptySet
    <3>2. ASSUME NEW text, pull = {text} PROVE Cardinality(pull) <= 1
      <4>1. Cardinality({text}) = 1
        BY FS_Singleton
      <4> QED BY <3>2, <4>1
    <3> QED BY <2>1, <3>1, <3>2 DEF FixInv
  <2>3. Len(delivered) <= MaxApprovals
    <3>1. PICK S : delivered \in Seq(S)
      BY <2>1 DEF FixInv
    <3>2. Len(delivered) \in Nat
      BY <3>1
    <3> QED BY <2>1, <3>2, DeliveryAssumption DEF FixInv
  <2> QED BY <2>1, <2>2, <2>3 DEF FixInv, FixTypeOK, Ats
<1> QED BY <1>1, FixStarts, FixKept, PTL DEF FixSpec

\* One behaviour runs either part, and the other one stands still.
LEMMA FixingImplements == FixingSpec => [](part \in {"triggers", "delivery"}) /\ TriggersSpec /\ FixSpec
<1>1. FixingInit => part \in {"triggers", "delivery"} /\ TriggersInit /\ FixInit
  BY DEF FixingInit
<1>2. [FixingNext]_fixingVars =>
         UNCHANGED part /\ [TriggersNext]_triggerVars /\ [FixNext]_fixVars
  BY DEF FixingNext, fixingVars
<1>3. part \in {"triggers", "delivery"} /\ UNCHANGED part => (part \in {"triggers", "delivery"})'
  OBVIOUS
<1>4. FixingSpec => FixingInit /\ [][FixingNext]_fixingVars
  BY DEF FixingSpec
<1> QED BY <1>1, <1>2, <1>3, <1>4, PTL DEF TriggersSpec, FixSpec

\* From a detection to a delivered fix, every state is one of those that the
\* properties of the run speak about: no more hits than tasks, no more
\* deliveries than approvals, and at most one pull in the air.
THEOREM FixingTypeCorrect == FixingSpec => []TypeOK
BY FixingImplements, TriggersTypeCorrect, FixTypeCorrect, PTL DEF TypeOK

-----------------------------------------------------------------------------
(* 6. Numbers: the least, the greatest, and recursion on the sets of them. *)

\* A set of numbers has a least one.
LEMMA Least == ASSUME NEW B \in SUBSET Nat, B # {} PROVE \E x \in B : \A y \in B : x <= y
<1> DEFINE R == OpToRel(<, Nat)
<1>1. IsWellFoundedOn(R, Nat)
  BY NatLessThanWellFounded, Zenon
<1>2. \A x, y \in Nat : <<y, x>> \in R <=> y < x
  BY DEF OpToRel
<1> HIDE DEF R
<1>3. PICK x \in B : \A y \in B : ~ (<<y, x>> \in R)
  BY <1>1, WFMin
<1>4. ASSUME NEW y \in B PROVE x <= y
  <2>1. x \in Nat /\ y \in Nat
    OBVIOUS
  <2>2. ~ (y < x)
    BY <1>2, <1>3, <2>1
  <2> QED BY <2>1, <2>2
<1> QED BY <1>4

\* Induction over the numbers, for a set of them.
LEMMA Induct == ASSUME NEW T, 0 \in T, \A n \in Nat : n \in T => n + 1 \in T PROVE Nat \subseteq T
<1> SUFFICES ASSUME NEW m \in Nat, m \notin T PROVE FALSE
  OBVIOUS
<1>1. PICK B : B = {n \in Nat : n \notin T}
  OBVIOUS
<1>2. B \in SUBSET Nat /\ B # {}
  BY <1>1
<1>3. PICK x \in B : \A y \in B : x <= y
  BY <1>2, Least
<1>4. x \in Nat /\ x # 0 /\ x - 1 \in Nat /\ x - 1 \notin B
  BY <1>1, <1>3
<1> QED BY <1>1, <1>3, <1>4

\* The greatest of the first k numbers, and of those among the first k + 1.
LEMMA MaxUpTo == ASSUME NEW k \in Nat, NEW s \in SUBSET (1..(k + 1)), k + 1 \in s
                 PROVE  Max(s) = k + 1 /\ s \ {k + 1} \in SUBSET (1..k)
<1>1. \A y \in s : k + 1 >= y
  OBVIOUS
<1>2. \A x \in s : (\A y \in s : x >= y) => x = k + 1
  BY <1>1
<1>3. Max(s) = k + 1
  BY <1>1, <1>2 DEF Max
<1> QED BY <1>3

\* Numbers with a bound have a greatest one.
LEMMA BoundedMax ==
    ASSUME NEW n \in Nat, NEW s \in SUBSET (1..n), s # {}
    PROVE  \E x \in s : \A y \in s : x >= y
<1> DEFINE T == {k \in Nat : \A r \in SUBSET (1..k) : r = {} \/ \E x \in r : \A y \in r : x >= y}
<1>1. 0 \in T
  OBVIOUS
<1>2. ASSUME NEW k \in Nat, k \in T PROVE k + 1 \in T
  <2>1. ASSUME NEW r \in SUBSET (1..(k + 1)), r # {} PROVE \E x \in r : \A y \in r : x >= y
    <3>1. CASE k + 1 \in r
      BY <3>1
    <3>2. CASE k + 1 \notin r
      <4>1. r \in SUBSET (1..k)
        BY <3>2
      <4> QED BY <1>2, <2>1, <4>1
    <3> QED BY <3>1, <3>2
  <2> QED BY <2>1
<1> HIDE DEF T
<1>3. n \in T
  BY <1>1, <1>2, Induct
<1> QED BY <1>3 DEF T

\* Max is that one.
LEMMA MaxIsIn ==
    ASSUME NEW n \in Nat, NEW s \in SUBSET (1..n), s # {}
    PROVE  Max(s) \in s /\ \A y \in s : Max(s) >= y
<1>1. \E x \in s : \A y \in s : x >= y
  BY BoundedMax
<1> QED BY <1>1 DEF Max

\* A fold over the numbers up to n is a function on the sets of them: one by
\* which FoldLeft goes exists.
Folds(g, n, base, step) ==
    g = [s \in SUBSET (1..n) |-> IF s = {} THEN base ELSE step[<<Max(s), g[s \ {Max(s)}]>>]]

\* There is such a function, in any set that the steps do not leave.
LEMMA Recursion ==
    ASSUME NEW n \in Nat, NEW A, NEW base \in A, NEW step \in [(1..n) \X A -> A]
    PROVE  \E g \in [SUBSET (1..n) -> A] : Folds(g, n, base, step)
<1> DEFINE Is(k, g) == \A s \in SUBSET (1..k) :
                          /\ s = {} => g[s] = base
                          /\ s # {} => g[s] = step[<<Max(s), g[s \ {Max(s)}]>>]
           Some(k) == \E g \in [SUBSET (1..k) -> A] : Is(k, g)
           T == {k \in Nat : k <= n => Some(k)}
<1>1. 0 \in T
  <2> DEFINE g == [s \in {{}} |-> base]
  <2>1. 1..0 = {}
    OBVIOUS
  <2>2. SUBSET (1..0) = {{}}
    BY <2>1
  <2>3. g[{}] = base
    OBVIOUS
  <2>4. g \in [{{}} -> A]
    OBVIOUS
  <2> HIDE DEF g
  <2>5. \E x \in [SUBSET (1..0) -> A] : Is(0, x)
    BY <2>2, <2>3, <2>4
  <2> QED BY <2>5
<1>2. ASSUME NEW k \in Nat, k \in T PROVE k + 1 \in T
  <2> HIDE DEF Some
  <2>1. SUFFICES ASSUME k + 1 <= n PROVE Some(k + 1)
    OBVIOUS
  <2>2. PICK g \in [SUBSET (1..k) -> A] : Is(k, g)
    <3>1. Some(k)
      BY <1>2, <2>1
    <3> QED BY <3>1 DEF Some
  <2> DEFINE h == [s \in SUBSET (1..(k + 1)) |-> IF k + 1 \in s THEN step[<<k + 1, g[s \ {k + 1}]>>] ELSE g[s]]
  <2> HIDE DEF T
  <2>3. ASSUME NEW s \in SUBSET (1..(k + 1)), k + 1 \in s
        PROVE  /\ Max(s) = k + 1 /\ h[s] = step[<<k + 1, g[s \ {k + 1}]>>] /\ h[s] \in A
               /\ h[s \ {k + 1}] = g[s \ {k + 1}]
    <3>1. Max(s) = k + 1 /\ s \ {k + 1} \in SUBSET (1..k)
      BY <2>3, MaxUpTo
    <3>2. g[s \ {k + 1}] \in A /\ k + 1 \in 1..n
      BY <3>1, <2>1
    <3>3. s \ {k + 1} \in SUBSET (1..(k + 1)) /\ k + 1 \notin s \ {k + 1}
      OBVIOUS
    <3> QED BY <2>3, <3>1, <3>2, <3>3
  <2>4. ASSUME NEW s \in SUBSET (1..(k + 1)), k + 1 \notin s
        PROVE  /\ s \in SUBSET (1..k) /\ h[s] = g[s] /\ h[s] \in A
               /\ h[s \ {Max(s)}] = g[s \ {Max(s)}]
    <3>1. PICK r : r = s \ {Max(s)}
      OBVIOUS
    <3>2. s \in SUBSET (1..k)
      <4>1. \A x \in s : x \in 1..(k + 1) /\ x # k + 1
        BY <2>4
      <4> QED BY <4>1
    <3>3. r \in SUBSET (1..(k + 1)) /\ k + 1 \notin r
      BY <2>4, <3>1
    <3> QED BY <2>4, <3>1, <3>2, <3>3
  <2>5. h \in [SUBSET (1..(k + 1)) -> A]
    <3>1. \A s \in SUBSET (1..(k + 1)) : h[s] \in A
      BY <2>3, <2>4
    <3> QED BY <3>1
  <2> HIDE DEF h
  <2>6. ASSUME NEW s \in SUBSET (1..(k + 1))
        PROVE  /\ s = {} => h[s] = base
               /\ s # {} => h[s] = step[<<Max(s), h[s \ {Max(s)}]>>]
    <3>1. CASE k + 1 \in s
      BY <2>3, <3>1
    <3>2. CASE k + 1 \notin s
      BY <2>2, <2>4, <3>2
    <3> QED BY <3>1, <3>2
  <2> QED BY <2>5, <2>6 DEF Some
<1> HIDE DEF T, Some
<1>3. n \in T
  BY <1>1, <1>2, Induct
<1>4. PICK g \in [SUBSET (1..n) -> A] : Is(n, g)
  <2>1. Some(n)
    BY <1>3 DEF T
  <2> QED BY <2>1 DEF Some
<1>5. Folds(g, n, base, step)
  BY <1>4 DEF Folds
<1> QED BY <1>5

-----------------------------------------------------------------------------
(* 7. The fold of a function over a sequence, by what it is after each element. *)

IsTrail(f, step, base, seq) ==
    f[0] = base /\ \A k \in 1..Len(seq) : f[k] = step[<<f[k - 1], seq[k]>>]
Fold(step, base, seq) == (CHOOSE f : IsTrail(f, step, base, seq))[Len(seq)]

\* What a fold is after each element is a function, in any set that the steps do not leave.
LEMMA TrailExists ==
    ASSUME NEW A, NEW X, NEW base \in A, NEW step \in [A \X X -> A], NEW seq \in Seq(X)
    PROVE  \E f \in [0..Len(seq) -> A] : IsTrail(f, step, base, seq)
<1> DEFINE Is(n, f) == f[0] = base /\ \A k \in 1..n : f[k] = step[<<f[k - 1], seq[k]>>]
           Some(n) == \E f \in [0..n -> A] : Is(n, f)
           T == {n \in Nat : n <= Len(seq) => Some(n)}
<1>0. Len(seq) \in Nat /\ \A k \in 1..Len(seq) : seq[k] \in X
  OBVIOUS
<1>1. 0 \in T
  <2> DEFINE f == [k \in 0..0 |-> base]
  <2>1. f \in [0..0 -> A] /\ Is(0, f)
    OBVIOUS
  <2> HIDE DEF f, Is
  <2> QED BY <2>1
<1>2. ASSUME NEW n \in Nat, n \in T PROVE n + 1 \in T
  <2>1. SUFFICES ASSUME n + 1 <= Len(seq) PROVE Some(n + 1)
    BY DEF T
  <2>2. Some(n)
    BY <1>0, <1>2, <2>1
  <2>3. PICK f \in [0..n -> A] : Is(n, f)
    BY <2>2
  <2>4. PICK v \in A : v = step[<<f[n], seq[n + 1]>>]
    BY <1>0, <2>1
  <2> DEFINE h == [k \in 0..(n + 1) |-> IF k = n + 1 THEN v ELSE f[k]]
  <2>5. h \in [0..(n + 1) -> A]
    OBVIOUS
  <2>6. h[0] = base /\ \A k \in 1..(n + 1) : h[k] = step[<<h[k - 1], seq[k]>>]
    <3>1. h[0] = base /\ h[n + 1] = v /\ \A k \in 0..n : h[k] = f[k]
      BY <2>3
    <3>2. ASSUME NEW k \in 1..(n + 1) PROVE h[k] = step[<<h[k - 1], seq[k]>>]
      <4> HIDE DEF h
      <4>1. CASE k = n + 1
        <5>1. k - 1 = n /\ h[n] = f[n]
          BY <3>1, <4>1
        <5>2. h[k] = step[<<f[n], seq[k]>>]
          BY <2>4, <3>1, <4>1
        <5> QED BY <5>1, <5>2
      <4>2. CASE k \in 1..n
        BY <2>3, <3>1, <4>2
      <4> QED BY <4>1, <4>2
    <3> QED BY <3>1, <3>2
  <2> HIDE DEF h
  <2> QED BY <2>5, <2>6
<1> HIDE DEF T, Some
<1>3. Nat \subseteq T
  BY <1>1, <1>2, Induct
<1>4. Some(Len(seq))
  BY <1>0, <1>3 DEF T
<1> QED BY <1>4 DEF Some, IsTrail

\* All of what a fold is on its way is in that set.
LEMMA TrailStays ==
    ASSUME NEW A, NEW X, NEW base \in A, NEW step \in [A \X X -> A], NEW seq \in Seq(X),
           NEW f, IsTrail(f, step, base, seq), NEW n \in 0..Len(seq)
    PROVE  f[n] \in A
<1> DEFINE T == {k \in Nat : k <= Len(seq) => f[k] \in A}
<1>1. 0 \in T
  BY DEF IsTrail
<1>2. ASSUME NEW k \in Nat, k \in T PROVE k + 1 \in T
  <2>1. SUFFICES ASSUME k + 1 <= Len(seq) PROVE f[k + 1] \in A
    OBVIOUS
  <2>2. f[k] \in A /\ seq[k + 1] \in X /\ k + 1 \in 1..Len(seq)
    BY <1>2, <2>1
  <2>3. f[k + 1] = step[<<f[k], seq[k + 1]>>]
    BY <2>2 DEF IsTrail
  <2> QED BY <2>2, <2>3
<1> HIDE DEF T
<1>3. Nat \subseteq T
  BY <1>1, <1>2, Induct
<1> QED BY <1>3 DEF T

\* Two folds agree as long as their sequences do.
LEMMA TrailsAgree ==
    ASSUME NEW base, NEW step, NEW seq, NEW seq2, NEW f, IsTrail(f, step, base, seq),
           NEW g, IsTrail(g, step, base, seq2), NEW n \in Nat,
           \A k \in 1..n : k \in 1..Len(seq) /\ k \in 1..Len(seq2) /\ seq[k] = seq2[k]
    PROVE  f[n] = g[n]
<1> DEFINE T == {k \in Nat : k <= n => f[k] = g[k]}
<1>1. 0 \in T
  BY DEF IsTrail
<1>2. ASSUME NEW k \in Nat, k \in T PROVE k + 1 \in T
  <2>1. SUFFICES ASSUME k + 1 <= n PROVE f[k + 1] = g[k + 1]
    OBVIOUS
  <2>2. f[k] = g[k] /\ k + 1 \in 1..n /\ (k + 1) - 1 = k
    BY <1>2, <2>1
  <2>3. seq[k + 1] = seq2[k + 1] /\ k + 1 \in 1..Len(seq) /\ k + 1 \in 1..Len(seq2)
    BY <2>2
  <2>4. f[k + 1] = step[<<f[(k + 1) - 1], seq[k + 1]>>] /\ g[k + 1] = step[<<g[(k + 1) - 1], seq2[k + 1]>>]
    BY <2>3 DEF IsTrail
  <2> QED BY <2>2, <2>3, <2>4
<1> HIDE DEF T
<1>3. Nat \subseteq T
  BY <1>1, <1>2, Induct
<1> QED BY <1>3 DEF T

\* Whatever goes along the sequence as the step does ends up at the fold.
LEMMA FoldIs ==
    ASSUME NEW base, NEW step, NEW seq, Len(seq) \in Nat, NEW f, IsTrail(f, step, base, seq)
    PROVE  Fold(step, base, seq) = f[Len(seq)]
<1> DEFINE g == CHOOSE g : IsTrail(g, step, base, seq)
<1>1. IsTrail(g, step, base, seq)
  OBVIOUS
<1>2. Fold(step, base, seq) = g[Len(seq)]
  BY DEF Fold
<1> HIDE DEF g
<1>3. PICK n \in Nat : n = Len(seq)
  OBVIOUS
<1>4. \A k \in 1..n : k \in 1..Len(seq) /\ seq[k] = seq[k]
  BY <1>3
<1>5. f[n] = g[n]
  BY <1>1, <1>4, TrailsAgree
<1> QED BY <1>2, <1>3, <1>5

\* A fold starts with its base, takes a step with each element and stays in the set.
LEMMA FoldFacts ==
    ASSUME NEW A, NEW X, NEW base \in A, NEW step \in [A \X X -> A]
    PROVE  /\ Fold(step, base, <<>>) = base
           /\ \A seq \in Seq(X), x \in X : Fold(step, base, Append(seq, x)) = step[<<Fold(step, base, seq), x>>]
           /\ \A seq \in Seq(X) : Fold(step, base, seq) \in A
<1>1. ASSUME NEW seq \in Seq(X) PROVE \E f : IsTrail(f, step, base, seq)
  BY TrailExists
<1>2. ASSUME NEW seq \in Seq(X) PROVE Fold(step, base, seq) \in A
  <2>1. PICK f : IsTrail(f, step, base, seq)
    BY <1>1
  <2>2. PICK n \in Nat : n = Len(seq)
    OBVIOUS
  <2>3. n \in 0..Len(seq)
    BY <2>2
  <2>4. f[n] \in A
    BY <2>1, <2>3, TrailStays
  <2> QED BY <2>1, <2>2, <2>4, FoldIs
<1>3. Fold(step, base, <<>>) = base
  <2>1. <<>> \in Seq(X) /\ Len(<<>>) = 0
    OBVIOUS
  <2>2. PICK f : IsTrail(f, step, base, <<>>)
    BY <1>1, <2>1
  <2>3. f[Len(<<>>)] = Fold(step, base, <<>>)
    BY <2>1, <2>2, FoldIs
  <2> QED BY <2>1, <2>2, <2>3 DEF IsTrail
<1>4. ASSUME NEW seq \in Seq(X), NEW x \in X
      PROVE  Fold(step, base, Append(seq, x)) = step[<<Fold(step, base, seq), x>>]
  <2>1. PICK n \in Nat : n = Len(seq)
    OBVIOUS
  <2>2. PICK more : more = Append(seq, x) /\ more \in Seq(X)
    <3>1. Append(seq, x) \in Seq(X)
      OBVIOUS
    <3> QED BY <3>1
  <2>3. Len(more) = n + 1 /\ more[n + 1] = x /\ \A k \in 1..n : more[k] = seq[k]
    BY <2>1, <2>2
  <2>4. PICK f : IsTrail(f, step, base, more)
    BY <1>1, <2>2
  <2>5. f[n + 1] = step[<<f[n], x>>] /\ f[n + 1] = Fold(step, base, more)
    <3>1. f[n + 1] = Fold(step, base, more)
      BY <2>1, <2>3, <2>4, FoldIs
    <3> QED BY <2>3, <2>4, <3>1 DEF IsTrail
  <2>6. IsTrail(f, step, base, seq)
    BY <2>1, <2>3, <2>4 DEF IsTrail
  <2>7. f[n] = Fold(step, base, seq)
    BY <2>1, <2>6, FoldIs
  <2> QED BY <2>2, <2>5, <2>7
<1> QED BY <1>2, <1>3, <1>4

\* What FoldLeft chooses is such a fold.
IsSetTrail(h, A, X, step, base, seq) ==
    /\ base \in A /\ step \in [A \X X -> A] /\ seq \in Seq(X)
    /\ h[{}] = base
    /\ \A s \in SUBSET (1..Len(seq)) :
          s # {} /\ h[s \ {Max(s)}] \in A => h[s] = step[<<h[s \ {Max(s)}], seq[Max(s)]>>]

\* A function that takes the steps on the sets of indices gives the fold of the sequence.
LEMMA SetFoldIs ==
    ASSUME NEW A, NEW X, NEW base, NEW step, NEW seq, NEW h, IsSetTrail(h, A, X, step, base, seq)
    PROVE  h[DOMAIN seq] = Fold(step, base, seq)
<1> USE DEF IsSetTrail
<1> DEFINE f == [k \in 0..Len(seq) |-> h[1..k]]
           T == {k \in Nat : k <= Len(seq) => f[k] \in A}
<1>0. Len(seq) \in Nat /\ \A k \in 1..Len(seq) : seq[k] \in X
  OBVIOUS
<1>1. f[0] = base
  <2>1. 1..0 = {}
    OBVIOUS
  <2> QED BY <1>0, <2>1
<1>2. ASSUME NEW k \in Nat, k + 1 <= Len(seq), f[k] \in A
      PROVE  f[k + 1] = step[<<f[k], seq[k + 1]>>] /\ f[k + 1] \in A
  <2>1. f[k] = h[1..k] /\ f[k + 1] = h[1..(k + 1)] /\ seq[k + 1] \in X
    BY <1>0, <1>2
  <2> HIDE DEF f
  <2>2. PICK s : s = 1..(k + 1)
    OBVIOUS
  <2>3. s \in SUBSET (1..Len(seq)) /\ s \in SUBSET (1..(k + 1)) /\ k + 1 \in s /\ s \ {k + 1} = 1..k
    BY <1>0, <1>2, <2>2
  <2>4. Max(s) = k + 1
    BY <2>3, MaxUpTo
  <2>5. h[s] = step[<<h[s \ {Max(s)}], seq[Max(s)]>>]
    BY <1>2, <2>1, <2>3, <2>4
  <2> QED BY <1>2, <2>1, <2>2, <2>3, <2>4, <2>5
<1> HIDE DEF f
<1>3. Nat \subseteq T
  <2>1. 0 \in T
    BY <1>1
  <2>2. ASSUME NEW k \in Nat, k \in T PROVE k + 1 \in T
    <3>1. SUFFICES ASSUME k + 1 <= Len(seq) PROVE f[k + 1] \in A
      OBVIOUS
    <3>2. f[k] \in A
      BY <1>0, <2>2, <3>1
    <3> QED BY <1>2, <3>1, <3>2
  <2> HIDE DEF T
  <2> QED BY <2>1, <2>2, Induct
<1>4. IsTrail(f, step, base, seq)
  <2>1. ASSUME NEW k \in 1..Len(seq) PROVE f[k] = step[<<f[k - 1], seq[k]>>]
    <3>1. PICK m \in Nat : m + 1 = k /\ k - 1 = m
      BY <1>0
    <3>2. f[m] \in A
      BY <1>0, <1>3, <3>1
    <3> QED BY <1>0, <1>2, <3>1, <3>2
  <2> QED BY <1>1, <2>1 DEF IsTrail
<1>5. f[Len(seq)] = h[DOMAIN seq]
  BY <1>0 DEF f
<1> QED BY <1>0, <1>4, <1>5, FoldIs

\* The function that FoldLeft chooses exists.
Steps(A, X, base, step) == base \in A /\ step \in [A \X X -> A]
IsSetFold(g, A, X, base, step, seq) ==
    /\ g = [s \in SUBSET (DOMAIN seq) |-> IF s = {} THEN base ELSE step[<<g[s \ {Max(s)}], seq[Max(s)]>>]]
    /\ \A s \in SUBSET (DOMAIN seq) : s # {} => g[s \ {Max(s)}] \in A /\ seq[Max(s)] \in X

\* Such a function exists.
LEMMA SetFoldExists ==
    ASSUME NEW A, NEW X, NEW base, NEW step, Steps(A, X, base, step), NEW seq \in Seq(X)
    PROVE  \E g : IsSetFold(g, A, X, base, step, seq)
<1>0. base \in A /\ step \in [A \X X -> A]
  BY DEF Steps
<1> DEFINE n == Len(seq)
           back == [q \in (1..n) \X A |-> step[<<q[2], seq[q[1]]>>]]
<1>1. n \in Nat /\ DOMAIN seq = 1..n /\ \A k \in 1..n : seq[k] \in X
  OBVIOUS
<1>2. back \in [(1..n) \X A -> A] /\ \A k \in 1..n, a \in A : back[<<k, a>>] = step[<<a, seq[k]>>]
  BY <1>0, <1>1
<1> HIDE DEF back, n
<1>3. PICK g \in [SUBSET (1..n) -> A] : Folds(g, n, base, back)
  BY <1>0, <1>1, <1>2, Recursion
<1>4. ASSUME NEW s \in SUBSET (1..n), s # {} PROVE Max(s) \in 1..n /\ s \ {Max(s)} \in SUBSET (1..n)
  BY <1>1, <1>4, MaxIsIn
<1>5. \A s \in SUBSET (1..n) : s # {} => g[s \ {Max(s)}] \in A /\ seq[Max(s)] \in X
  BY <1>1, <1>4
<1>6. g = [s \in SUBSET (1..n) |-> IF s = {} THEN base ELSE step[<<g[s \ {Max(s)}], seq[Max(s)]>>]]
  BY <1>1, <1>2, <1>3, <1>4, <1>5 DEF Folds
<1>7. IsSetFold(g, A, X, base, step, seq)
  BY <1>1, <1>5, <1>6 DEF IsSetFold
<1> QED BY <1>7

\* The facts about a fold, with the longer sequence named.
LEMMA FoldSteps ==
    ASSUME NEW A, NEW X, NEW base, NEW step, Steps(A, X, base, step)
    PROVE  /\ Fold(step, base, <<>>) = base
           /\ \A seq \in Seq(X) : Fold(step, base, seq) \in A
           /\ \A seq \in Seq(X), l \in X :
                 \E more \in Seq(X) :
                    more = Append(seq, l) /\ Fold(step, base, more) = step[<<Fold(step, base, seq), l>>]
<1>0. base \in A /\ step \in [A \X X -> A]
  BY DEF Steps
<1>1. /\ Fold(step, base, <<>>) = base
      /\ \A seq \in Seq(X), l \in X : Fold(step, base, Append(seq, l)) = step[<<Fold(step, base, seq), l>>]
      /\ \A seq \in Seq(X) : Fold(step, base, seq) \in A
  BY <1>0, FoldFacts
<1>2. ASSUME NEW seq \in Seq(X), NEW l \in X
      PROVE  \E more \in Seq(X) : more = Append(seq, l) /\ Fold(step, base, more) = step[<<Fold(step, base, seq), l>>]
  <2>1. Fold(step, base, Append(seq, l)) = step[<<Fold(step, base, seq), l>>]
    BY <1>1
  <2>2. Append(seq, l) \in Seq(X)
    OBVIOUS
  <2> QED BY <2>1, <2>2
<1> QED BY <1>1, <1>2

-----------------------------------------------------------------------------
(* 8. The folds of the module, by their steps. *)

LinesRun(src, base, body) == FoldLeft(LAMBDA a, l : ApplyLine(src, a, l), base, body)

LinesFollow(src, base, A, X) ==
    /\ LinesRun(src, base, <<>>) = base
    /\ \A seq \in Seq(X), l \in X :
          LinesRun(src, base, Append(seq, l)) = ApplyLine(src, LinesRun(src, base, seq), l)
    /\ \A seq \in Seq(X) : LinesRun(src, base, seq) \in A

\* The lines of a hunk are applied one after the other.
LEMMA LinesFold ==
    ASSUME NEW src, NEW A, NEW X, NEW base \in A, \A a \in A, l \in X : ApplyLine(src, a, l) \in A
    PROVE  LinesFollow(src, base, A, X)
<1> DEFINE step == [q \in A \X X |-> ApplyLine(src, q[1], q[2])]
<1>1. Steps(A, X, base, step) /\ \A a \in A, l \in X : step[<<a, l>>] = ApplyLine(src, a, l)
  BY DEF Steps
<1> HIDE DEF step
<1>2. ASSUME NEW seq \in Seq(X) PROVE LinesRun(src, base, seq) = Fold(step, base, seq)
  <2> DEFINE Is(g) == g = [s \in SUBSET (DOMAIN seq) |->
                              IF s = {} THEN base ELSE ApplyLine(src, g[s \ {Max(s)}], seq[Max(s)])]
             chosen == CHOOSE h : Is(h)
  <2>1. PICK g : IsSetFold(g, A, X, base, step, seq)
    BY <1>1, SetFoldExists
  <2>2. Is(g)
    BY <1>1, <2>1 DEF IsSetFold
  <2>3. Is(chosen)
    BY <2>2, Zenon
  <2>4. LinesRun(src, base, seq) = chosen[DOMAIN seq]
    BY Zenon DEF LinesRun, FoldLeft, MapThenFoldSet
  <2> HIDE DEF chosen, Is
  <2>5. PICK h : Is(h) /\ LinesRun(src, base, seq) = h[DOMAIN seq]
    BY <2>3, <2>4
  <2>6. h[{}] = base
    BY <2>5 DEF Is
  <2>7. ASSUME NEW s \in SUBSET (DOMAIN seq), s # {}, h[s \ {Max(s)}] \in A
        PROVE  h[s] = step[<<h[s \ {Max(s)}], seq[Max(s)]>>]
    <3>1. h[s] = ApplyLine(src, h[s \ {Max(s)}], seq[Max(s)])
      BY <2>5, <2>7 DEF Is
    <3>2. seq[Max(s)] \in X
      BY <2>1, <2>7 DEF IsSetFold
    <3> QED BY <1>1, <2>7, <3>1, <3>2
  <2>8. IsSetTrail(h, A, X, step, base, seq)
    <3>1. step \in [A \X X -> A] /\ base \in A /\ seq \in Seq(X) /\ DOMAIN seq = 1..Len(seq)
      BY <1>1 DEF Steps
    <3> QED BY <2>6, <2>7, <3>1 DEF IsSetTrail
  <2>9. h[DOMAIN seq] = Fold(step, base, seq)
    BY <2>8, SetFoldIs
  <2> QED BY <2>5, <2>9
<1>3. /\ Fold(step, base, <<>>) = base
      /\ \A seq \in Seq(X) : Fold(step, base, seq) \in A
      /\ \A seq \in Seq(X), l \in X :
            \E more \in Seq(X) : more = Append(seq, l) /\ Fold(step, base, more) = step[<<Fold(step, base, seq), l>>]
  BY <1>1, FoldSteps
<1>4. LinesRun(src, base, <<>>) = base /\ \A seq \in Seq(X) : LinesRun(src, base, seq) \in A
  <2>1. <<>> \in Seq(X)
    OBVIOUS
  <2> QED BY <1>2, <1>3, <2>1
<1>5. ASSUME NEW seq \in Seq(X), NEW l \in X
      PROVE  LinesRun(src, base, Append(seq, l)) = ApplyLine(src, LinesRun(src, base, seq), l)
  <2>1. PICK more \in Seq(X) : more = Append(seq, l) /\ Fold(step, base, more) = step[<<Fold(step, base, seq), l>>]
    BY <1>3
  <2>2. /\ LinesRun(src, base, more) = Fold(step, base, more) /\ LinesRun(src, base, seq) = Fold(step, base, seq)
        /\ Fold(step, base, seq) \in A
    BY <1>2, <1>3
  <2> HIDE <1>2, <1>3, <1>4
  <2>3. step[<<Fold(step, base, seq), l>>] = ApplyLine(src, Fold(step, base, seq), l)
    BY <1>1, <2>2
  <2> QED BY <2>1, <2>2, <2>3
<1> QED BY <1>4, <1>5 DEF LinesFollow

HunksRun(src, base, hunks) == FoldLeft(LAMBDA a, h : ApplyHunk(src, a, h), base, hunks)

HunksFollow(src, base, A, X) ==
    /\ HunksRun(src, base, <<>>) = base
    /\ \A seq \in Seq(X), l \in X :
          HunksRun(src, base, Append(seq, l)) = ApplyHunk(src, HunksRun(src, base, seq), l)
    /\ \A seq \in Seq(X) : HunksRun(src, base, seq) \in A

\* The hunks of a diff are applied one after the other.
LEMMA HunksFold ==
    ASSUME NEW src, NEW A, NEW X, NEW base \in A, \A a \in A, l \in X : ApplyHunk(src, a, l) \in A
    PROVE  HunksFollow(src, base, A, X)
<1> DEFINE step == [q \in A \X X |-> ApplyHunk(src, q[1], q[2])]
<1>1. Steps(A, X, base, step) /\ \A a \in A, l \in X : step[<<a, l>>] = ApplyHunk(src, a, l)
  BY DEF Steps
<1> HIDE DEF step
<1>2. ASSUME NEW seq \in Seq(X) PROVE HunksRun(src, base, seq) = Fold(step, base, seq)
  <2> DEFINE Is(g) == g = [s \in SUBSET (DOMAIN seq) |->
                              IF s = {} THEN base ELSE ApplyHunk(src, g[s \ {Max(s)}], seq[Max(s)])]
             chosen == CHOOSE h : Is(h)
  <2>1. PICK g : IsSetFold(g, A, X, base, step, seq)
    BY <1>1, SetFoldExists
  <2>2. Is(g)
    BY <1>1, <2>1 DEF IsSetFold
  <2>3. Is(chosen)
    BY <2>2, Zenon
  <2>4. HunksRun(src, base, seq) = chosen[DOMAIN seq]
    BY Zenon DEF HunksRun, FoldLeft, MapThenFoldSet
  <2> HIDE DEF chosen, Is
  <2>5. PICK h : Is(h) /\ HunksRun(src, base, seq) = h[DOMAIN seq]
    BY <2>3, <2>4
  <2>6. h[{}] = base
    BY <2>5 DEF Is
  <2>7. ASSUME NEW s \in SUBSET (DOMAIN seq), s # {}, h[s \ {Max(s)}] \in A
        PROVE  h[s] = step[<<h[s \ {Max(s)}], seq[Max(s)]>>]
    <3>1. h[s] = ApplyHunk(src, h[s \ {Max(s)}], seq[Max(s)])
      BY <2>5, <2>7 DEF Is
    <3>2. seq[Max(s)] \in X
      BY <2>1, <2>7 DEF IsSetFold
    <3> QED BY <1>1, <2>7, <3>1, <3>2
  <2>8. IsSetTrail(h, A, X, step, base, seq)
    <3>1. step \in [A \X X -> A] /\ base \in A /\ seq \in Seq(X) /\ DOMAIN seq = 1..Len(seq)
      BY <1>1 DEF Steps
    <3> QED BY <2>6, <2>7, <3>1 DEF IsSetTrail
  <2>9. h[DOMAIN seq] = Fold(step, base, seq)
    BY <2>8, SetFoldIs
  <2> QED BY <2>5, <2>9
<1>3. /\ Fold(step, base, <<>>) = base
      /\ \A seq \in Seq(X) : Fold(step, base, seq) \in A
      /\ \A seq \in Seq(X), l \in X :
            \E more \in Seq(X) : more = Append(seq, l) /\ Fold(step, base, more) = step[<<Fold(step, base, seq), l>>]
  BY <1>1, FoldSteps
<1>4. HunksRun(src, base, <<>>) = base /\ \A seq \in Seq(X) : HunksRun(src, base, seq) \in A
  <2>1. <<>> \in Seq(X)
    OBVIOUS
  <2> QED BY <1>2, <1>3, <2>1
<1>5. ASSUME NEW seq \in Seq(X), NEW l \in X
      PROVE  HunksRun(src, base, Append(seq, l)) = ApplyHunk(src, HunksRun(src, base, seq), l)
  <2>1. PICK more \in Seq(X) : more = Append(seq, l) /\ Fold(step, base, more) = step[<<Fold(step, base, seq), l>>]
    BY <1>3
  <2>2. /\ HunksRun(src, base, more) = Fold(step, base, more) /\ HunksRun(src, base, seq) = Fold(step, base, seq)
        /\ Fold(step, base, seq) \in A
    BY <1>2, <1>3
  <2> HIDE <1>2, <1>3, <1>4
  <2>3. step[<<Fold(step, base, seq), l>>] = ApplyHunk(src, Fold(step, base, seq), l)
    BY <1>1, <2>2
  <2> QED BY <2>1, <2>2, <2>3
<1> QED BY <1>4, <1>5 DEF HunksFollow

PatchRun(base, hunks) == FoldLeft(LAMBDA S, h : PatchHunk(S, h), base, hunks)

PatchesFollow(base, A, X) ==
    /\ PatchRun(base, <<>>) = base
    /\ \A seq \in Seq(X), l \in X :
          PatchRun(base, Append(seq, l)) = PatchHunk(PatchRun(base, seq), l)
    /\ \A seq \in Seq(X) : PatchRun(base, seq) \in A

\* The patch command applies one hunk after the other, too.
LEMMA PatchFold ==
    ASSUME NEW A, NEW X, NEW base \in A, \A a \in A, l \in X : PatchHunk(a, l) \in A
    PROVE  PatchesFollow(base, A, X)
<1> DEFINE step == [q \in A \X X |-> PatchHunk(q[1], q[2])]
<1>1. Steps(A, X, base, step) /\ \A a \in A, l \in X : step[<<a, l>>] = PatchHunk(a, l)
  BY DEF Steps
<1> HIDE DEF step
<1>2. ASSUME NEW seq \in Seq(X) PROVE PatchRun(base, seq) = Fold(step, base, seq)
  <2> DEFINE Is(g) == g = [s \in SUBSET (DOMAIN seq) |->
                              IF s = {} THEN base ELSE PatchHunk(g[s \ {Max(s)}], seq[Max(s)])]
             chosen == CHOOSE h : Is(h)
  <2>1. PICK g : IsSetFold(g, A, X, base, step, seq)
    BY <1>1, SetFoldExists
  <2>2. Is(g)
    BY <1>1, <2>1 DEF IsSetFold
  <2>3. Is(chosen)
    BY <2>2, Zenon
  <2>4. PatchRun(base, seq) = chosen[DOMAIN seq]
    BY Zenon DEF PatchRun, FoldLeft, MapThenFoldSet
  <2> HIDE DEF chosen, Is
  <2>5. PICK h : Is(h) /\ PatchRun(base, seq) = h[DOMAIN seq]
    BY <2>3, <2>4
  <2>6. h[{}] = base
    BY <2>5 DEF Is
  <2>7. ASSUME NEW s \in SUBSET (DOMAIN seq), s # {}, h[s \ {Max(s)}] \in A
        PROVE  h[s] = step[<<h[s \ {Max(s)}], seq[Max(s)]>>]
    <3>1. h[s] = PatchHunk(h[s \ {Max(s)}], seq[Max(s)])
      BY <2>5, <2>7 DEF Is
    <3>2. seq[Max(s)] \in X
      BY <2>1, <2>7 DEF IsSetFold
    <3> QED BY <1>1, <2>7, <3>1, <3>2
  <2>8. IsSetTrail(h, A, X, step, base, seq)
    <3>1. step \in [A \X X -> A] /\ base \in A /\ seq \in Seq(X) /\ DOMAIN seq = 1..Len(seq)
      BY <1>1 DEF Steps
    <3> QED BY <2>6, <2>7, <3>1 DEF IsSetTrail
  <2>9. h[DOMAIN seq] = Fold(step, base, seq)
    BY <2>8, SetFoldIs
  <2> QED BY <2>5, <2>9
<1>3. /\ Fold(step, base, <<>>) = base
      /\ \A seq \in Seq(X) : Fold(step, base, seq) \in A
      /\ \A seq \in Seq(X), l \in X :
            \E more \in Seq(X) : more = Append(seq, l) /\ Fold(step, base, more) = step[<<Fold(step, base, seq), l>>]
  BY <1>1, FoldSteps
<1>4. PatchRun(base, <<>>) = base /\ \A seq \in Seq(X) : PatchRun(base, seq) \in A
  <2>1. <<>> \in Seq(X)
    OBVIOUS
  <2> QED BY <1>2, <1>3, <2>1
<1>5. ASSUME NEW seq \in Seq(X), NEW l \in X
      PROVE  PatchRun(base, Append(seq, l)) = PatchHunk(PatchRun(base, seq), l)
  <2>1. PICK more \in Seq(X) : more = Append(seq, l) /\ Fold(step, base, more) = step[<<Fold(step, base, seq), l>>]
    BY <1>3
  <2>2. /\ PatchRun(base, more) = Fold(step, base, more) /\ PatchRun(base, seq) = Fold(step, base, seq)
        /\ Fold(step, base, seq) \in A
    BY <1>2, <1>3
  <2> HIDE <1>2, <1>3, <1>4
  <2>3. step[<<Fold(step, base, seq), l>>] = PatchHunk(Fold(step, base, seq), l)
    BY <1>1, <2>2
  <2> QED BY <2>1, <2>2, <2>3
<1> QED BY <1>4, <1>5 DEF PatchesFollow

WordOf(tag, o, l) == IF l.tag = tag THEN o ELSE Append(o, l.word)

WordsFollow(tag, A, X) ==
    /\ Without(tag, <<>>) = <<>>
    /\ \A seq \in Seq(X), l \in X :
          Without(tag, Append(seq, l)) = WordOf(tag, Without(tag, seq), l)
    /\ \A seq \in Seq(X) : Without(tag, seq) \in A

\* The lines without a tag are collected one by one.
LEMMA WithoutFold ==
    ASSUME NEW tag, NEW A, NEW X, <<>> \in A, \A a \in A, l \in X : WordOf(tag, a, l) \in A
    PROVE  WordsFollow(tag, A, X)
<1> DEFINE step == [q \in A \X X |-> WordOf(tag, q[1], q[2])]
<1>1. Steps(A, X, <<>>, step) /\ \A a \in A, l \in X : step[<<a, l>>] = WordOf(tag, a, l)
  BY DEF Steps
<1> HIDE DEF step
<1>2. ASSUME NEW seq \in Seq(X) PROVE Without(tag, seq) = Fold(step, <<>>, seq)
  <2> DEFINE Is(g) == g = [s \in SUBSET (DOMAIN seq) |->
                              IF s = {} THEN <<>> ELSE WordOf(tag, g[s \ {Max(s)}], seq[Max(s)])]
             chosen == CHOOSE h : Is(h)
  <2>1. PICK g : IsSetFold(g, A, X, <<>>, step, seq)
    BY <1>1, SetFoldExists
  <2>2. Is(g)
    BY <1>1, <2>1 DEF IsSetFold
  <2>3. Is(chosen)
    BY <2>2, Zenon
  <2>4. Without(tag, seq) = chosen[DOMAIN seq]
    BY Zenon DEF Without, WordOf, FoldLeft, MapThenFoldSet
  <2> HIDE DEF chosen, Is
  <2>5. PICK h : Is(h) /\ Without(tag, seq) = h[DOMAIN seq]
    BY <2>3, <2>4
  <2>6. h[{}] = <<>>
    BY <2>5 DEF Is
  <2>7. ASSUME NEW s \in SUBSET (DOMAIN seq), s # {}, h[s \ {Max(s)}] \in A
        PROVE  h[s] = step[<<h[s \ {Max(s)}], seq[Max(s)]>>]
    <3>1. h[s] = WordOf(tag, h[s \ {Max(s)}], seq[Max(s)])
      BY <2>5, <2>7 DEF Is
    <3>2. seq[Max(s)] \in X
      BY <2>1, <2>7 DEF IsSetFold
    <3> QED BY <1>1, <2>7, <3>1, <3>2
  <2>8. IsSetTrail(h, A, X, step, <<>>, seq)
    <3>1. step \in [A \X X -> A] /\ <<>> \in A /\ seq \in Seq(X) /\ DOMAIN seq = 1..Len(seq)
      BY <1>1 DEF Steps
    <3> QED BY <2>6, <2>7, <3>1 DEF IsSetTrail
  <2>9. h[DOMAIN seq] = Fold(step, <<>>, seq)
    BY <2>8, SetFoldIs
  <2> QED BY <2>5, <2>9
<1>3. /\ Fold(step, <<>>, <<>>) = <<>>
      /\ \A seq \in Seq(X) : Fold(step, <<>>, seq) \in A
      /\ \A seq \in Seq(X), l \in X :
            \E more \in Seq(X) : more = Append(seq, l) /\ Fold(step, <<>>, more) = step[<<Fold(step, <<>>, seq), l>>]
  BY <1>1, FoldSteps
<1>4. Without(tag, <<>>) = <<>> /\ \A seq \in Seq(X) : Without(tag, seq) \in A
  <2>1. <<>> \in Seq(X)
    OBVIOUS
  <2> QED BY <1>2, <1>3, <2>1
<1>5. ASSUME NEW seq \in Seq(X), NEW l \in X
      PROVE  Without(tag, Append(seq, l)) = WordOf(tag, Without(tag, seq), l)
  <2>1. PICK more \in Seq(X) : more = Append(seq, l) /\ Fold(step, <<>>, more) = step[<<Fold(step, <<>>, seq), l>>]
    BY <1>3
  <2>2. /\ Without(tag, more) = Fold(step, <<>>, more) /\ Without(tag, seq) = Fold(step, <<>>, seq)
        /\ Fold(step, <<>>, seq) \in A
    BY <1>2, <1>3
  <2> HIDE <1>2, <1>3, <1>4
  <2>3. step[<<Fold(step, <<>>, seq), l>>] = WordOf(tag, Fold(step, <<>>, seq), l)
    BY <1>1, <2>2
  <2> QED BY <2>1, <2>2, <2>3
<1> QED BY <1>4, <1>5 DEF WordsFollow

\* FlattenSeq() appends one sequence after the other.
LEMMA FlattenFold ==
    ASSUME NEW X
    PROVE  /\ FlattenSeq(<<>>) = <<>>
           /\ \A ss \in Seq(Seq(X)), t \in Seq(X) : FlattenSeq(Append(ss, t)) = FlattenSeq(ss) \o t
           /\ \A ss \in Seq(Seq(X)) : FlattenSeq(ss) \in Seq(X)
<1> DEFINE step == [q \in Seq(X) \X Seq(X) |-> q[1] \o q[2]]
<1>1. Steps(Seq(X), Seq(X), <<>>, step) /\ \A a, t \in Seq(X) : step[<<a, t>>] = a \o t
  <2>1. \A a, t \in Seq(X) : a \o t \in Seq(X)
    OBVIOUS
  <2>2. <<>> \in Seq(X) /\ step \in [Seq(X) \X Seq(X) -> Seq(X)]
    BY <2>1
  <2>3. \A a, t \in Seq(X) : step[<<a, t>>] = a \o t
    OBVIOUS
  <2> HIDE DEF step
  <2> QED BY <2>2, <2>3 DEF Steps
<1> HIDE DEF step
<1>2. FlattenSeq(<<>>) = <<>>
  BY DEF FlattenSeq
<1>3. /\ Fold(step, <<>>, <<>>) = <<>>
      /\ \A ss \in Seq(Seq(X)) : Fold(step, <<>>, ss) \in Seq(X)
      /\ \A ss \in Seq(Seq(X)), t \in Seq(X) :
            \E more \in Seq(Seq(X)) : more = Append(ss, t) /\ Fold(step, <<>>, more) = step[<<Fold(step, <<>>, ss), t>>]
  BY <1>1, FoldSteps
<1>4. ASSUME NEW ss \in Seq(Seq(X)) PROVE FlattenSeq(ss) = Fold(step, <<>>, ss)
  <2> DEFINE n == Len(ss)
             Is(f) == f = [i \in 1..n |-> IF i = 1 THEN ss[i] ELSE f[i - 1] \o ss[i]]
             chosen == CHOOSE f : Is(f)
  <2>1. n \in Nat /\ \A k \in 1..n : ss[k] \in Seq(X)
    OBVIOUS
  <2>2. CASE n = 0
    <3>1. ss = <<>>
      BY <2>2
    <3> QED BY <1>2, <1>3, <3>1
  <2>3. CASE n # 0
    <3>1. FlattenSeq(ss) = chosen[n]
      BY <2>3, Zenon DEF FlattenSeq
    <3> HIDE DEF n
    <3>2. PICK f \in [0..n -> Seq(X)] : IsTrail(f, step, <<>>, ss)
      <4>1. <<>> \in Seq(X) /\ step \in [Seq(X) \X Seq(X) -> Seq(X)]
        BY <1>1 DEF Steps
      <4> QED BY <4>1, TrailExists DEF n
    <3>3. ASSUME NEW k \in 1..n
          PROVE  k - 1 \in 0..n /\ f[k] = f[k - 1] \o ss[k] /\ (k = 1 => f[k] = ss[k])
      <4>1. k - 1 \in 0..n /\ f[k - 1] \in Seq(X) /\ ss[k] \in Seq(X) /\ f[k] = step[<<f[k - 1], ss[k]>>]
        BY <2>1, <3>2 DEF IsTrail, n
      <4>2. step[<<f[k - 1], ss[k]>>] = f[k - 1] \o ss[k]
        BY <1>1, <4>1
      <4>3. k = 1 => f[k - 1] = <<>>
        BY <3>2 DEF IsTrail
      <4>4. <<>> \o ss[k] = ss[k]
        BY <4>1
      <4> QED BY <4>1, <4>2, <4>3, <4>4
    <3> DEFINE g == [k \in 1..n |-> f[k]]
    <3>4. Is(g)
      <4>1. ASSUME NEW k \in 1..n PROVE g[k] = IF k = 1 THEN ss[k] ELSE g[k - 1] \o ss[k]
        <5>1. CASE k = 1
          BY <3>3, <5>1
        <5>2. CASE k # 1
          <6>1. k - 1 \in 1..n
            BY <2>1, <5>2
          <6> QED BY <3>3, <5>2, <6>1
        <5> QED BY <5>1, <5>2
      <4> HIDE DEF g
      <4>2. g = [k \in 1..n |-> g[k]]
        BY DEF g
      <4> QED BY <4>1, <4>2
    <3> HIDE DEF g
    <3>5. Is(chosen)
      BY <3>4, Zenon
    <3> HIDE DEF chosen
    <3> DEFINE T == {k \in Nat : k \in 1..n => chosen[k] = f[k]}
    <3>6. ASSUME NEW k \in Nat, k \in T PROVE k + 1 \in T
      <4> SUFFICES ASSUME k + 1 \in 1..n PROVE chosen[k + 1] = f[k + 1]
        OBVIOUS
      <4>1. PICK m : m = k + 1 /\ m - 1 = k
        OBVIOUS
      <4>2. chosen[m] = IF m = 1 THEN ss[m] ELSE chosen[k] \o ss[m]
        BY <3>5, <4>1
      <4>3. f[m] = f[k] \o ss[m] /\ (m = 1 => f[m] = ss[m])
        BY <3>3, <4>1
      <4>4. m # 1 => chosen[k] = f[k]
        <5> SUFFICES ASSUME m # 1 PROVE chosen[k] = f[k]
          OBVIOUS
        <5>1. k \in 1..n
          BY <2>1, <4>1
        <5> QED BY <3>6, <5>1
      <4> QED BY <4>1, <4>2, <4>3, <4>4
    <3>7. Nat \subseteq T
      <4>1. 0 \in T
        OBVIOUS
      <4> HIDE DEF T
      <4> QED BY <3>6, <4>1, Induct
    <3>8. chosen[n] = f[n]
      BY <2>1, <2>3, <3>7
    <3>9. f[n] = Fold(step, <<>>, ss)
      <4>1. Len(ss) \in Nat /\ n = Len(ss)
        BY DEF n
      <4> QED BY <3>2, <4>1, FoldIs
    <3> QED BY <3>1, <3>8, <3>9
  <2> QED BY <2>2, <2>3
<1>5. ASSUME NEW ss \in Seq(Seq(X)), NEW t \in Seq(X)
      PROVE  FlattenSeq(Append(ss, t)) = FlattenSeq(ss) \o t
  <2>1. PICK more \in Seq(Seq(X)) : more = Append(ss, t) /\ Fold(step, <<>>, more) = step[<<Fold(step, <<>>, ss), t>>]
    BY <1>3
  <2>2. /\ FlattenSeq(more) = Fold(step, <<>>, more) /\ FlattenSeq(ss) = Fold(step, <<>>, ss)
        /\ Fold(step, <<>>, ss) \in Seq(X)
    BY <1>3, <1>4
  <2> HIDE <1>3, <1>4
  <2>3. step[<<Fold(step, <<>>, ss), t>>] = Fold(step, <<>>, ss) \o t
    BY <1>1, <2>2
  <2> QED BY <2>1, <2>2, <2>3
<1> QED BY <1>2, <1>3, <1>4, <1>5

-----------------------------------------------------------------------------
(* 9. The lines of a diff. *)

Words == {Fixed} \cup Marks \cup UNION {ToSet(text) : text \in Texts}
Scripts(text) == [DOMAIN text -> [drop : BOOLEAN, add : {<<>>, <<Fixed>>}]]

\* What is shown of a text, or removed from it, is in it.
LinesOf(text) == {l \in [tag : {"-", "+", " "}, word : Words] : l.tag # "+" => l.word \in ToSet(text)}
HunksOf(text) == [start : Nat \ {0}, body : Seq(LinesOf(text))]

\* The last line of the run of lines near a change that begins at a line.
LEMMA EndIs ==
    ASSUME NEW text, NEW n \in Nat, DOMAIN text = 1..n, Len(text) = n, NEW s,
           NEW i \in 1..n, Near(text, s, i)
    PROVE  /\ End(text, s, i) \in i..n
           /\ \A j \in i..End(text, s, i) : Near(text, s, j)
           /\ End(text, s, i) = n \/ ~Near(text, s, End(text, s, i) + 1)
<1> DEFINE B == {k \in i..n : \A j \in i..k : Near(text, s, j)}
           last == Max(B)
           Is(k) == k >= i /\ (\A j \in i..k : Near(text, s, j)) /\ (k = Len(text) \/ ~Near(text, s, k + 1))
<1>1. B \in SUBSET (1..n) /\ i \in B
  <2>1. \A j \in i..i : j = i
    OBVIOUS
  <2> QED BY <2>1
<1> HIDE DEF B
<1>2. last \in B /\ \A k \in B : last >= k
  BY <1>1, MaxIsIn
<1> HIDE DEF last
<1>4. last \in i..n /\ \A j \in i..last : Near(text, s, j)
  BY <1>2 DEF B
<1>5. last # n => ~Near(text, s, last + 1)
  <2> SUFFICES ASSUME last # n, Near(text, s, last + 1) PROVE FALSE
    OBVIOUS
  <2>1. last + 1 \in i..n
    BY <1>4
  <2>2. \A j \in i..(last + 1) : j \in i..last \/ j = last + 1
    BY <1>4
  <2>3. last + 1 \in B
    BY <1>4, <2>1, <2>2 DEF B
  <2> QED BY <1>2, <1>4, <2>3
<1>6. last \in DOMAIN text /\ Is(last)
  BY <1>4, <1>5
<1>7. PICK e : e = End(text, s, i) /\ e \in DOMAIN text /\ Is(e)
  <2>1. (CHOOSE k \in DOMAIN text : Is(k)) \in DOMAIN text /\ Is(CHOOSE k \in DOMAIN text : Is(k))
    BY <1>6, Zenon
  <2> QED BY <2>1, Zenon DEF End
<1> QED BY <1>7

\* The k-th number of a set.
Nth(F, k) == CHOOSE i \in F : Cardinality({j \in F : j <= i}) = k

\* Numbers up to n are at most n.
LEMMA CountUpTo == ASSUME NEW n \in Nat, NEW F \in SUBSET (1..n) PROVE IsFiniteSet(F) /\ Cardinality(F) \in 0..n
<1>1. IsFiniteSet(1..n) /\ Cardinality(1..n) = n
  BY FS_Interval
<1>2. IsFiniteSet(F) /\ Cardinality(F) <= Cardinality(1..n)
  BY <1>1, FS_Subset
<1>3. Cardinality(F) \in Nat
  BY <1>2, FS_CardinalityType
<1> QED BY <1>1, <1>2, <1>3

\* A set of numbers has a k-th one for every k up to its size.
LEMMA NthIs ==
    ASSUME NEW n \in Nat, NEW F \in SUBSET (1..n), NEW k \in 1..Cardinality(F)
    PROVE  Nth(F, k) \in F /\ Cardinality({j \in F : j <= Nth(F, k)}) = k
<1> DEFINE Has(G, m) == \E i \in G : Cardinality({j \in G : j <= i}) = m
           T == {r \in Nat : \A G \in SUBSET (1..r) : \A m \in 1..Cardinality(G) : Has(G, m)}
<1>1. 0 \in T
  <2>1. ASSUME NEW G \in SUBSET (1..0) PROVE Cardinality(G) \in 0..0
    <3>1. 0 \in Nat
      OBVIOUS
    <3> QED BY <3>1, CountUpTo
  <2> QED BY <2>1
<1>2. ASSUME NEW r \in Nat, r \in T PROVE r + 1 \in T
  <2> SUFFICES ASSUME NEW G \in SUBSET (1..(r + 1)), NEW m \in 1..Cardinality(G) PROVE Has(G, m)
    OBVIOUS
  <2>1. CASE r + 1 \notin G
    <3>1. G \in SUBSET (1..r)
      BY <2>1
    <3> HIDE DEF Has
    <3> QED BY <1>2, <3>1
  <2>2. CASE r + 1 \in G
    <3>1. PICK H : H = G \ {r + 1}
      OBVIOUS
    <3>2. H \in SUBSET (1..r) /\ r + 1 \notin H /\ G = H \cup {r + 1}
      BY <2>2, <3>1
    <3>3. IsFiniteSet(H) /\ Cardinality(H) \in Nat /\ Cardinality(G) = Cardinality(H) + 1
      <4>1. IsFiniteSet(H) /\ Cardinality(H) \in Nat
        BY <3>2, CountUpTo
      <4> QED BY <3>2, <4>1, FS_AddElement
    <3>4. CASE m = Cardinality(G)
      <4>1. \A j \in G : j <= r + 1
        OBVIOUS
      <4>2. {j \in G : j <= r + 1} = G
        BY <4>1
      <4> QED BY <2>2, <3>4, <4>2
    <3>5. CASE m # Cardinality(G)
      <4>1. m \in 1..Cardinality(H)
        BY <3>3, <3>5
      <4>2. PICK i \in H : Cardinality({j \in H : j <= i}) = m
        BY <1>2, <3>2, <4>1
      <4>3. {j \in G : j <= i} = {j \in H : j <= i}
        BY <3>2
      <4> QED BY <3>2, <4>2, <4>3
    <3> QED BY <3>4, <3>5
  <2> QED BY <2>1, <2>2
<1> HIDE DEF Has, T
<1>3. n \in T
  BY <1>1, <1>2, Induct
<1>4. Has(F, k)
  BY <1>3 DEF T
<1> QED BY <1>4, Zenon DEF Has, Nth

\* The k-th hunk of a diff begins at the k-th of the lines where a run of lines near a change begins.
LEMMA DiffIs ==
    ASSUME NEW text \in Seq(Words), NEW s
    PROVE  /\ Firsts(text, s) \in SUBSET (1..Len(text))
           /\ Cardinality(Firsts(text, s)) \in Nat
           /\ DOMAIN UnifiedDiff(text, s) = 1..Cardinality(Firsts(text, s))
           /\ \A k \in 1..Cardinality(Firsts(text, s)) :
                 UnifiedDiff(text, s)[k] = Hunk(text, s, Nth(Firsts(text, s), k))
<1>1. Firsts(text, s) \in SUBSET (1..Len(text)) /\ Len(text) \in Nat
  BY DEF Firsts
<1>2. Cardinality(Firsts(text, s)) \in Nat
  BY <1>1, CountUpTo
<1>3. UnifiedDiff(text, s) = [k \in 1..Cardinality(Firsts(text, s)) |-> Hunk(text, s, Nth(Firsts(text, s), k))]
  BY Zenon DEF UnifiedDiff, Nth
<1> QED BY <1>1, <1>2, <1>3

\* A line of a text is shown by itself, with the line that is added after it.
LEMMA LinesTyped ==
    ASSUME NEW text \in Seq(Words), NEW s \in Scripts(text), NEW i \in 1..Len(text)
    PROVE  Lines(text, s, i) \in Seq(LinesOf(text))
<1>1. PICK l : l = [tag |-> IF s[i].drop THEN "-" ELSE " ", word |-> text[i]]
  OBVIOUS
<1>2. l \in LinesOf(text)
  <2>1. text[i] \in Words /\ text[i] \in ToSet(text)
    BY DEF ToSet
  <2>2. PICK tag \in {"-", "+", " "} : l = [tag |-> tag, word |-> text[i]]
    BY <1>1
  <2>3. l \in [tag : {"-", "+", " "}, word : Words]
    BY <2>1, <2>2
  <2>4. l.word \in ToSet(text)
    BY <2>1, <2>2
  <2> QED BY <2>3, <2>4 DEF LinesOf
<1>3. <<l>> \in Seq(LinesOf(text))
  BY <1>2
<1>4. s[i].add \in {<<>>, <<Fixed>>}
  BY DEF Scripts
<1>5. [k \in DOMAIN s[i].add |-> [tag |-> "+", word |-> s[i].add[k]]] \in Seq(LinesOf(text))
  <2>1. CASE s[i].add = <<>>
    <3>1. [k \in DOMAIN s[i].add |-> [tag |-> "+", word |-> s[i].add[k]]] = <<>>
      BY <2>1
    <3> QED BY <3>1
  <2>2. CASE s[i].add = <<Fixed>>
    <3>1. DOMAIN s[i].add = 1..1 /\ \A k \in 1..1 : s[i].add[k] = Fixed
      BY <2>2
    <3>2. [tag |-> "+", word |-> Fixed] \in LinesOf(text)
      <4>1. Fixed \in Words
        BY DEF Words
      <4> QED BY <4>1 DEF LinesOf
    <3>3. [k \in DOMAIN s[i].add |-> [tag |-> "+", word |-> s[i].add[k]]]
             = [k \in 1..1 |-> [tag |-> "+", word |-> Fixed]]
      BY <3>1
    <3> QED BY <3>2, <3>3
  <2> QED BY <1>4, <2>1, <2>2
<1>6. Lines(text, s, i) = <<l>> \o [k \in DOMAIN s[i].add |-> [tag |-> "+", word |-> s[i].add[k]]]
  BY <1>1 DEF Lines
<1> QED BY <1>3, <1>5, <1>6

\* A hunk shows and removes only lines of the text it was made for.
LEMMA HunkTyped ==
    ASSUME NEW text \in Seq(Words), NEW s \in Scripts(text), NEW i \in 1..Len(text), Near(text, s, i)
    PROVE  Hunk(text, s, i) \in HunksOf(text)
<1> DEFINE n == Len(text)
           last == End(text, s, i)
           all == [j \in 1..(last - i + 1) |-> Lines(text, s, i + j - 1)]
<1>1. n \in Nat /\ DOMAIN text = 1..n
  OBVIOUS
<1>2. last \in i..n
  <2>1. i \in 1..n /\ Len(text) = n
    OBVIOUS
  <2> HIDE DEF n
  <2> QED BY <1>1, <2>1, EndIs
<1> HIDE DEF last
<1>3. \A j \in 1..(last - i + 1) : i + j - 1 \in 1..Len(text)
  BY <1>1, <1>2
<1>4. last - i + 1 \in Nat
  BY <1>1, <1>2
<1>5. all \in Seq(Seq(LinesOf(text)))
  <2>1. \A j \in 1..(last - i + 1) : Lines(text, s, i + j - 1) \in Seq(LinesOf(text))
    BY <1>3, LinesTyped
  <2> QED BY <1>4, <2>1
<1>6. FlattenSeq(all) \in Seq(LinesOf(text))
  <2> HIDE DEF all
  <2> QED BY <1>5, FlattenFold
<1>7. Hunk(text, s, i) = [start |-> i, body |-> FlattenSeq(all)]
  BY DEF Hunk, last
<1> HIDE DEF all
<1> QED BY <1>1, <1>6, <1>7 DEF HunksOf

\* So does each hunk of a diff.
LEMMA DiffTyped ==
    ASSUME NEW text \in Seq(Words), NEW s \in Scripts(text)
    PROVE  UnifiedDiff(text, s) \in Seq(HunksOf(text))
<1> DEFINE F == Firsts(text, s)
<1>1. /\ F \in SUBSET (1..Len(text)) /\ Len(text) \in Nat /\ Cardinality(F) \in Nat
      /\ DOMAIN UnifiedDiff(text, s) = 1..Cardinality(F)
      /\ \A k \in 1..Cardinality(F) : UnifiedDiff(text, s)[k] = Hunk(text, s, Nth(F, k))
  BY DiffIs
<1>2. ASSUME NEW i \in F PROVE Hunk(text, s, i) \in HunksOf(text)
  <2>1. i \in 1..Len(text) /\ Near(text, s, i)
    BY <1>1 DEF Firsts
  <2> QED BY <2>1, HunkTyped
<1> HIDE DEF F
<1>3. \A k \in 1..Cardinality(F) : Nth(F, k) \in F
  BY <1>1, NthIs
<1>4. PICK m \in Nat : m = Cardinality(F)
  BY <1>1
<1>5. PICK d : d = UnifiedDiff(text, s)
  OBVIOUS
<1>6. d = [k \in 1..m |-> d[k]]
  BY <1>4, <1>5 DEF UnifiedDiff, F
<1>7. \A k \in 1..m : d[k] \in HunksOf(text)
  BY <1>1, <1>2, <1>3, <1>4, <1>5
<1> QED BY <1>5, <1>6, <1>7

\* And each hunk that is parsed.
LEMMA ParsedTyped ==
    ASSUME NEW text, NEW diff \in Seq(HunksOf(text))
    PROVE  /\ ParseHunks(diff) \in Seq(HunksOf(text)) /\ DOMAIN ParseHunks(diff) = DOMAIN diff
           /\ \A k \in DOMAIN diff : ParseHunks(diff)[k].start = diff[k].start
<1> DEFINE Kept(b) == {i \in DOMAIN b : \A j \in 1..i : ~Header(b[j])}
           Cut(h) == [h EXCEPT !.body = SubSeq(h.body, 1, Cardinality(Kept(h.body)))]
<1>1. ParseHunks(diff) = [k \in DOMAIN diff |-> Cut(diff[k])]
  BY DEF ParseHunks
<1>2. ASSUME NEW h \in HunksOf(text) PROVE Cut(h) \in HunksOf(text) /\ Cut(h).start = h.start
  <2>1. h \in [start : Nat \ {0}, body : Seq(LinesOf(text))]
    BY DEF HunksOf
  <2>2. Kept(h.body) \in SUBSET (1..Len(h.body)) /\ Len(h.body) \in Nat
    BY <2>1
  <2> HIDE DEF Kept
  <2>3. Cardinality(Kept(h.body)) \in 0..Len(h.body)
    BY <2>2, CountUpTo
  <2>4. SubSeq(h.body, 1, Cardinality(Kept(h.body))) \in Seq(LinesOf(text))
    BY <2>1, <2>3
  <2> QED BY <2>1, <2>4 DEF HunksOf
<1> HIDE DEF Cut
<1>3. PICK n \in Nat : DOMAIN diff = 1..n /\ \A k \in 1..n : diff[k] \in HunksOf(text)
  <2>1. Len(diff) \in Nat /\ DOMAIN diff = 1..Len(diff) /\ \A k \in 1..Len(diff) : diff[k] \in HunksOf(text)
    OBVIOUS
  <2> QED BY <2>1
<1>4. [k \in 1..n |-> Cut(diff[k])] \in Seq(HunksOf(text))
  BY <1>2, <1>3
<1> QED BY <1>1, <1>2, <1>3, <1>4

-----------------------------------------------------------------------------
(* 10. What a fix does not show it leaves alone. *)

Accs == [ok : BOOLEAN, idx : Nat, out : Seq(Words)]

\* What has been passed over is shown, or is still there.
Carries(src, text, acc) ==
    acc.ok => /\ acc.idx <= Len(src)
              /\ \A k \in 1..acc.idx : src[k] \in ToSet(text) \cup ToSet(acc.out)

\* The words of a text.
LEMMA ToSetIs == ASSUME NEW a \in Seq(Words) PROVE \A w : w \in ToSet(a) <=> \E i \in 1..Len(a) : w = a[i]
<1>1. DOMAIN a = 1..Len(a)
  OBVIOUS
<1> QED BY <1>1 DEF ToSet

\* The words of two texts, one after the other.
AreJoined(a, b, c) == c \in Seq(Words) /\ c = a \o b /\ ToSet(c) = ToSet(a) \cup ToSet(b)

\* They are those of its two parts.
LEMMA ToSetOfConcat == ASSUME NEW a \in Seq(Words), NEW b \in Seq(Words) PROVE AreJoined(a, b, a \o b)
<1>1. PICK c \in Seq(Words) : c = a \o b
  <2>1. a \o b \in Seq(Words)
    OBVIOUS
  <2> QED BY <2>1
<1>2. ASSUME NEW i \in 1..Len(c) PROVE c[i] \in ToSet(a) \cup ToSet(b)
  <2>1. CASE i <= Len(a)
    <3>1. i \in 1..Len(a) /\ c[i] = a[i]
      BY <1>1, <2>1
    <3> QED BY <3>1, ToSetIs
  <2>2. CASE i > Len(a)
    <3>1. i - Len(a) \in 1..Len(b) /\ c[i] = b[i - Len(a)]
      BY <1>1, <2>2
    <3> QED BY <3>1, ToSetIs
  <2> QED BY <2>1, <2>2
<1>3. ASSUME NEW i \in 1..Len(a) PROVE a[i] \in ToSet(c)
  <2>1. i \in 1..Len(c) /\ c[i] = a[i]
    BY <1>1
  <2> QED BY <1>1, <2>1, ToSetIs
<1>4. ASSUME NEW i \in 1..Len(b) PROVE b[i] \in ToSet(c)
  <2>1. Len(a) + i \in 1..Len(c) /\ c[Len(a) + i] = b[i]
    BY <1>1
  <2> QED BY <1>1, <2>1, ToSetIs
<1>5. ToSet(c) \subseteq ToSet(a) \cup ToSet(b)
  <2>1. \A w : w \in ToSet(c) <=> \E i \in 1..Len(c) : w = c[i]
    BY <1>1, ToSetIs
  <2> QED BY <1>1, <1>2, <2>1
<1>6. ToSet(a) \subseteq ToSet(c)
  <2>1. \A w : w \in ToSet(a) <=> \E i \in 1..Len(a) : w = a[i]
    BY ToSetIs
  <2> QED BY <1>3, <2>1
<1>7. ToSet(b) \subseteq ToSet(c)
  <2>1. \A w : w \in ToSet(b) <=> \E i \in 1..Len(b) : w = b[i]
    BY ToSetIs
  <2> QED BY <1>4, <2>1
<1> QED BY <1>1, <1>5, <1>6, <1>7 DEF AreJoined

IsLonger(a, w, c) == c \in Seq(Words) /\ c = Append(a, w) /\ ToSet(c) = ToSet(a) \cup {w}

\* The words of a text and of one more line.
LEMMA ToSetOfAppend == ASSUME NEW a \in Seq(Words), NEW w \in Words PROVE IsLonger(a, w, Append(a, w))
<1>1. PICK b \in Seq(Words) : b = <<w>> /\ ToSet(b) = {w}
  <2>1. <<w>> \in Seq(Words)
    OBVIOUS
  <2>2. ToSet(<<w>>) = {w}
    BY DEF ToSet
  <2> QED BY <2>1, <2>2
<1>2. a \o b = Append(a, w)
  BY <1>1
<1>3. AreJoined(a, b, a \o b)
  BY <1>1, ToSetOfConcat
<1> QED BY <1>1, <1>2, <1>3 DEF AreJoined, IsLonger

\* The lines of a text from one to another.
IsPart(s, m, n, b) == b \in Seq(Words) /\ Len(b) = n - m /\ \A k \in 1..(n - m) : b[k] = s[m + k]

\* Its length and its lines.
LEMMA PartIs ==
    ASSUME NEW s \in Seq(Words), NEW m \in Nat, NEW n \in Nat, m <= n, n <= Len(s), NEW b, b = SubSeq(s, m + 1, n)
    PROVE  IsPart(s, m, n, b)
<1>1. SubSeq(s, m + 1, n) \in Seq(Words)
  OBVIOUS
<1>2. Len(SubSeq(s, m + 1, n)) = n - m
  OBVIOUS
<1>3. \A k \in 1..(n - m) : SubSeq(s, m + 1, n)[k] = s[m + k]
  OBVIOUS
<1> QED BY <1>1, <1>2, <1>3 DEF IsPart

\* A line of a hunk passes over nothing that it does not keep or show.
LEMMA LineCarries ==
    ASSUME NEW src \in Seq(Words), NEW text, NEW acc \in Accs, Carries(src, text, acc), NEW l \in LinesOf(text)
    PROVE  ApplyLine(src, acc, l) \in Accs /\ Carries(src, text, ApplyLine(src, acc, l))
<1>1. l.tag \in {"-", "+", " "} /\ l.word \in Words /\ (l.tag # "+" => l.word \in ToSet(text))
  BY DEF LinesOf
<1>2. acc.ok \in BOOLEAN /\ acc.idx \in Nat /\ acc.out \in Seq(Words)
  BY DEF Accs
<1>3. CASE ~acc.ok \/ (l.tag # "+" /\ (acc.idx >= Len(src) \/ src[acc.idx + 1] # l.word))
  <2>1. ApplyLine(src, acc, l) = [acc EXCEPT !.ok = FALSE]
    BY <1>3 DEF ApplyLine
  <2>2. [acc EXCEPT !.ok = FALSE] \in Accs /\ ~[acc EXCEPT !.ok = FALSE].ok
    BY DEF Accs
  <2> QED BY <2>1, <2>2 DEF Carries
<1>4. CASE acc.ok /\ (l.tag # "+" => acc.idx < Len(src) /\ src[acc.idx + 1] = l.word)
  <2> DEFINE idx == IF l.tag = "+" THEN acc.idx ELSE acc.idx + 1
             out == IF l.tag = "-" THEN acc.out ELSE Append(acc.out, l.word)
             next == [acc EXCEPT !.idx = idx, !.out = out]
  <2>1. ~(~acc.ok \/ (l.tag # "+" /\ (acc.idx >= Len(src) \/ src[acc.idx + 1] # l.word)))
    BY <1>2, <1>4
  <2>2. ApplyLine(src, acc, l) = next
    BY <2>1, Zenon DEF ApplyLine
  <2>8. PICK longer \in Seq(Words) : longer = Append(acc.out, l.word) /\ ToSet(longer) = ToSet(acc.out) \cup {l.word}
    <3>1. PICK o \in Seq(Words), w \in Words : o = acc.out /\ w = l.word
      BY <1>1, <1>2
    <3>2. IsLonger(o, w, Append(o, w))
      BY <3>1, ToSetOfAppend
    <3> QED BY <3>1, <3>2 DEF IsLonger
  <2>3. idx \in Nat /\ out \in Seq(Words)
    BY <1>2, <2>8
  <2>4. next.ok = acc.ok /\ next.idx = idx /\ next.out = out /\ next \in Accs
    <3> HIDE DEF idx, out
    <3> QED BY <2>3 DEF Accs
  <2>5. ToSet(acc.out) \subseteq ToSet(out)
    BY <2>8
  <2>6. idx <= Len(src)
    BY <1>2, <1>4 DEF Carries
  <2>7. \A k \in 1..idx : src[k] \in ToSet(text) \cup ToSet(out)
    <3> SUFFICES ASSUME NEW k \in 1..idx PROVE src[k] \in ToSet(text) \cup ToSet(out)
      OBVIOUS
    <3>1. CASE k \in 1..acc.idx
      BY <1>4, <2>5, <3>1 DEF Carries
    <3>2. CASE k \notin 1..acc.idx
      <4>1. l.tag # "+" /\ k = acc.idx + 1
        BY <1>2, <3>2
      <4> QED BY <1>1, <1>4, <4>1
    <3> QED BY <3>1, <3>2
  <2> HIDE DEF next, idx, out
  <2> QED BY <2>2, <2>4, <2>6, <2>7 DEF Carries
<1> QED BY <1>2, <1>3, <1>4

\* A hunk that starts within the file is what the lines before it and its own make.
LEMMA ApplyHunkIs ==
    ASSUME NEW src, NEW acc, NEW h,
           acc.ok, ~(h.start - 1 < acc.idx), ~(h.start - 1 > Len(src))
    PROVE  ApplyHunk(src, acc, h)
             = LinesRun(src, [ok |-> TRUE, idx |-> h.start - 1,
                              out |-> acc.out \o SubSeq(src, acc.idx + 1, h.start - 1)], h.body)
  BY Zenon DEF ApplyHunk, LinesRun, FoldLeft, MapThenFoldSet

\* The hunks of a diff are applied from the first line of the file on.
LEMMA ApplyHunksIs ==
    ASSUME NEW src, NEW hunks
    PROVE  \E end : /\ end = HunksRun(src, [ok |-> TRUE, idx |-> 0, out |-> <<>>], hunks)
                    /\ ApplyHunks(src, hunks) = IF end.ok THEN {end.out \o SubSeq(src, end.idx + 1, Len(src))} ELSE {}
<1> DEFINE end == HunksRun(src, [ok |-> TRUE, idx |-> 0, out |-> <<>>], hunks)
<1>1. ApplyHunks(src, hunks) = IF end.ok THEN {end.out \o SubSeq(src, end.idx + 1, Len(src))} ELSE {}
  BY Zenon DEF ApplyHunks, HunksRun, FoldLeft, MapThenFoldSet
<1> QED BY <1>1

\* The patch command begins with the file as it is.
LEMMA PatchBinaryIs == ASSUME NEW src, NEW hunks PROVE PatchBinary(src, hunks) = PatchRun({src}, hunks)
  BY Zenon DEF PatchBinary, PatchRun, FoldLeft, MapThenFoldSet

\* The copied lines between two hunks are in what comes out.
LEMMA CopyCarries ==
    ASSUME NEW src \in Seq(Words), NEW text, NEW acc \in Accs, acc.ok, Carries(src, text, acc),
           NEW to \in Nat, acc.idx <= to, to <= Len(src)
    PROVE  LET out == acc.out \o SubSeq(src, acc.idx + 1, to)
           IN out \in Seq(Words) /\ \A k \in 1..to : src[k] \in ToSet(text) \cup ToSet(out)
<1>1. acc.idx \in Nat /\ acc.out \in Seq(Words) /\ Len(src) \in Nat
  BY DEF Accs
<1>2. PICK o \in Seq(Words), n \in Nat : o = acc.out /\ n = acc.idx
  BY <1>1
<1>3. PICK b : b = SubSeq(src, n + 1, to) /\ IsPart(src, n, to, b)
  <2>1. PICK b : b = SubSeq(src, n + 1, to)
    OBVIOUS
  <2> QED BY <1>2, <2>1, PartIs
<1>4. PICK c : c = o \o b /\ AreJoined(o, b, c)
  <2>1. AreJoined(o, b, o \o b)
    BY <1>2, <1>3, ToSetOfConcat DEF IsPart
  <2> QED BY <2>1
<1>5. c \in Seq(Words) /\ ToSet(c) = ToSet(o) \cup ToSet(b)
  BY <1>4 DEF AreJoined
<1>6. ASSUME NEW k \in 1..to PROVE src[k] \in ToSet(text) \cup ToSet(c)
  <2>1. CASE k \in 1..n
    BY <1>2, <1>5, <2>1 DEF Carries
  <2>2. CASE k \notin 1..n
    <3>1. k - n \in 1..(to - n) /\ n + (k - n) = k
      BY <1>2, <2>2
    <3>2. b[k - n] = src[k] /\ k - n \in 1..Len(b) /\ b \in Seq(Words)
      BY <1>3, <3>1 DEF IsPart
    <3>3. b[k - n] \in ToSet(b)
      BY <3>2, ToSetIs
    <3> QED BY <1>5, <3>2, <3>3
  <2> QED BY <2>1, <2>2
<1> QED BY <1>2, <1>3, <1>4, <1>5, <1>6

\* A hunk passes over nothing that it does not keep or show.
LEMMA HunkCarries ==
    ASSUME NEW src \in Seq(Words), NEW text, NEW acc \in Accs, Carries(src, text, acc), NEW h \in HunksOf(text)
    PROVE  ApplyHunk(src, acc, h) \in Accs /\ Carries(src, text, ApplyHunk(src, acc, h))
<1>1. h.start \in Nat \ {0} /\ h.body \in Seq(LinesOf(text)) /\ Len(src) \in Nat
  BY DEF HunksOf
<1>2. acc.ok \in BOOLEAN /\ acc.idx \in Nat /\ acc.out \in Seq(Words)
  BY DEF Accs
<1>3. CASE ~acc.ok \/ h.start - 1 < acc.idx \/ h.start - 1 > Len(src)
  <2>1. ApplyHunk(src, acc, h) = [acc EXCEPT !.ok = FALSE]
    BY <1>3, Zenon DEF ApplyHunk
  <2>2. [acc EXCEPT !.ok = FALSE] \in Accs /\ ~[acc EXCEPT !.ok = FALSE].ok
    BY DEF Accs
  <2> QED BY <2>1, <2>2 DEF Carries
<1>4. CASE acc.ok /\ ~(h.start - 1 < acc.idx) /\ ~(h.start - 1 > Len(src))
  <2> DEFINE to == h.start - 1
             out == acc.out \o SubSeq(src, acc.idx + 1, to)
             base == [ok |-> TRUE, idx |-> to, out |-> out]
             A == {a \in Accs : Carries(src, text, a)}
  <2>1. to \in Nat /\ acc.idx <= to /\ to <= Len(src)
    BY <1>1, <1>2, <1>4
  <2>2. ApplyHunk(src, acc, h) = LinesRun(src, base, h.body)
    BY <1>4, ApplyHunkIs
  <2> HIDE DEF to
  <2>3. out \in Seq(Words) /\ \A k \in 1..to : src[k] \in ToSet(text) \cup ToSet(out)
    BY <1>4, <2>1, CopyCarries
  <2> HIDE DEF out
  <2>4. base \in A
    <3>1. base \in Accs
      BY <2>1, <2>3 DEF Accs
    <3>2. Carries(src, text, base)
      BY <2>1, <2>3 DEF Carries
    <3> QED BY <3>1, <3>2
  <2>5. \A a \in A, l \in LinesOf(text) : ApplyLine(src, a, l) \in A
    BY LineCarries
  <2> HIDE DEF A, base
  <2>6. \A seq \in Seq(LinesOf(text)) : LinesRun(src, base, seq) \in A
    <3>1. LinesFollow(src, base, A, LinesOf(text))
      BY <2>4, <2>5, LinesFold
    <3> QED BY <3>1 DEF LinesFollow
  <2>7. LinesRun(src, base, h.body) \in A
    BY <1>1, <2>6
  <2> QED BY <2>2, <2>7 DEF A
<1> QED BY <1>2, <1>3, <1>4

\* apply_hunks() drops no word that the fix was not shown.
LEMMA ApplyCarries ==
    ASSUME NEW src \in Seq(Words), NEW text, NEW hunks \in Seq(HunksOf(text)), NEW after \in ApplyHunks(src, hunks)
    PROVE  after \in Seq(Words) /\ ToSet(src) \subseteq ToSet(text) \cup ToSet(after)
<1> DEFINE A == {a \in Accs : Carries(src, text, a)}
           base == [ok |-> TRUE, idx |-> 0, out |-> <<>>]
<1>1. PICK end : /\ end = HunksRun(src, base, hunks)
                 /\ ApplyHunks(src, hunks) = IF end.ok THEN {end.out \o SubSeq(src, end.idx + 1, Len(src))} ELSE {}
  BY ApplyHunksIs
<1>2. base \in A
  <2>1. base \in Accs
    BY DEF Accs
  <2>2. Carries(src, text, base)
    BY DEF Carries
  <2> QED BY <2>1, <2>2
<1>3. \A a \in A, h \in HunksOf(text) : ApplyHunk(src, a, h) \in A
  BY HunkCarries
<1> HIDE DEF A, base
<1>4. end \in A
  <2>1. \A seq \in Seq(HunksOf(text)) : HunksRun(src, base, seq) \in A
    <3>1. HunksFollow(src, base, A, HunksOf(text))
      BY <1>2, <1>3, HunksFold
    <3> QED BY <3>1 DEF HunksFollow
  <2> QED BY <1>1, <2>1
<1>5. end \in Accs /\ Carries(src, text, end) /\ end.ok /\ after = end.out \o SubSeq(src, end.idx + 1, Len(src))
  BY <1>1, <1>4 DEF A
<1>6. PICK n \in Nat : n = Len(src) /\ end.idx <= n
  BY <1>5 DEF Carries
<1>7. after \in Seq(Words) /\ \A k \in 1..n : src[k] \in ToSet(text) \cup ToSet(after)
  BY <1>5, <1>6, CopyCarries
<1> QED BY <1>6, <1>7, ToSetIs

\* The lines of a hunk without those of a tag, and what they show.
LEMMA WithoutTyped ==
    ASSUME NEW text, NEW h \in HunksOf(text)
    PROVE  Old(h) \in Seq(Words) /\ New(h) \in Seq(Words) /\ \A k \in 1..Len(Old(h)) : Old(h)[k] \in ToSet(text)
<1> DEFINE A == Seq(Words \cap ToSet(text))
<1>1. h.body \in Seq(LinesOf(text))
  BY DEF HunksOf
<1>2. ASSUME NEW o \in Seq(Words), NEW l \in LinesOf(text) PROVE WordOf("-", o, l) \in Seq(Words)
  <2>1. l.word \in Words
    BY DEF LinesOf
  <2>2. Append(o, l.word) \in Seq(Words)
    BY <2>1
  <2> QED BY <2>2 DEF WordOf
<1>3. <<>> \in Seq(Words) /\ <<>> \in A
  OBVIOUS
<1>4. ASSUME NEW o \in A, NEW l \in LinesOf(text) PROVE WordOf("+", o, l) \in A
  <2>1. l.tag # "+" => l.word \in Words \cap ToSet(text)
    BY DEF LinesOf
  <2>2. l.tag # "+" => Append(o, l.word) \in A
    BY <2>1
  <2> QED BY <2>2 DEF WordOf
<1>5. \A seq \in Seq(LinesOf(text)) : Without("-", seq) \in Seq(Words)
  <2>1. WordsFollow("-", Seq(Words), LinesOf(text))
    BY <1>2, <1>3, WithoutFold
  <2> QED BY <2>1 DEF WordsFollow
<1>6. Old(h) \in A
  <2> HIDE DEF A
  <2>1. \A seq \in Seq(LinesOf(text)) : Without("+", seq) \in A
    <3>1. WordsFollow("+", A, LinesOf(text))
      BY <1>3, <1>4, WithoutFold
    <3> QED BY <3>1 DEF WordsFollow
  <2> QED BY <1>1, <2>1 DEF Old
<1>7. Old(h) \in Seq(Words) /\ \A k \in 1..Len(Old(h)) : Old(h)[k] \in ToSet(text)
  BY <1>6
<1> QED BY <1>1, <1>5, <1>7 DEF New

\* A text in which all is still there that was in another and not shown.
Leaves(src, text, t) == t \in Seq(Words) /\ ToSet(src) \subseteq ToSet(text) \cup ToSet(t)

\* The patch command drops only lines that the hunk shows, wherever it places it.
LEMMA PlacedCarries ==
    ASSUME NEW src, NEW text, NEW t, Leaves(src, text, t), NEW h \in HunksOf(text),
           NEW f \in 0..2, NEW p \in 0..Len(t), Fits(t, h, f, p)
    PROVE  Leaves(src, text, Placed(t, h, f, p))
<1>1. PICK o \in Seq(Words), n \in Seq(Words) : /\ o = Old(h) /\ n = New(h)
                                                /\ \A k \in 1..Len(o) : o[k] \in ToSet(text)
  BY WithoutTyped
<1>2. t \in Seq(Words) /\ Len(t) \in Nat /\ Len(o) \in Nat /\ Len(n) \in Nat /\ f \in Nat /\ p \in Nat
  BY <1>1 DEF Leaves
<1>3. /\ 2 * f <= Len(o) /\ p + Len(o) <= Len(t)
      /\ \A k \in (f + 1)..(Len(o) - f) : t[p + k] = o[k]
  BY <1>1 DEF Fits
<1>4. PICK front \in Nat, from \in Nat : front = p + f /\ from = p + Len(o) - f /\ front <= from /\ from <= Len(t)
  <2>1. p + f \in Nat /\ p + Len(o) - f \in Nat /\ p + f <= p + Len(o) - f /\ p + Len(o) - f <= Len(t)
    BY <1>2, <1>3
  <2> QED BY <2>1
<1>5. PICK a : a = SubSeq(t, 1, front) /\ IsPart(t, 0, front, a)
  <2>1. PICK a : a = SubSeq(t, 1, front)
    OBVIOUS
  <2>2. a = SubSeq(t, 0 + 1, front) /\ 0 \in Nat /\ 0 <= front /\ front <= Len(t)
    BY <1>2, <1>4, <2>1
  <2> QED BY <1>2, <1>4, <2>1, <2>2, PartIs
<1>6. PICK c : c = SubSeq(t, from + 1, Len(t)) /\ IsPart(t, from, Len(t), c)
  <2>1. PICK c, m : m = Len(t) /\ c = SubSeq(t, from + 1, m)
    OBVIOUS
  <2>2. m \in Nat /\ from \in Nat /\ from <= m /\ m <= Len(t)
    BY <1>2, <1>4, <2>1
  <2>3. IsPart(t, from, m, c)
    BY <1>2, <2>1, <2>2, PartIs
  <2> QED BY <2>1, <2>3
<1>7. PICK b \in Seq(Words) : b = SubSeq(n, f + 1, Len(n) - f)
  <2>1. SubSeq(n, f + 1, Len(n) - f) \in Seq(Words)
    BY <1>1, <1>2
  <2> QED BY <2>1
<1>8. PICK d : d = a \o b /\ AreJoined(a, b, d)
  <2>1. AreJoined(a, b, a \o b)
    BY <1>5, <1>7, ToSetOfConcat DEF IsPart
  <2> QED BY <2>1
<1>9. PICK e : e = d \o c /\ AreJoined(d, c, e)
  <2>1. AreJoined(d, c, d \o c)
    BY <1>6, <1>8, ToSetOfConcat DEF IsPart, AreJoined
  <2> QED BY <2>1
<1>10. e = Placed(t, h, f, p)
  BY <1>1, <1>4, <1>5, <1>6, <1>7, <1>8, <1>9 DEF Placed
<1>11. e \in Seq(Words) /\ ToSet(e) = ToSet(a) \cup ToSet(b) \cup ToSet(c)
  BY <1>8, <1>9 DEF AreJoined
<1>12. ASSUME NEW k \in 1..Len(t) PROVE t[k] \in ToSet(text) \cup ToSet(e)
  <2>1. CASE k <= front
    <3>1. k \in 1..Len(a) /\ a[k] = t[k] /\ a \in Seq(Words)
      BY <1>4, <1>5, <2>1 DEF IsPart
    <3>2. a[k] \in ToSet(a)
      BY <3>1, ToSetIs
    <3> QED BY <1>11, <3>1, <3>2
  <2>2. CASE k > front /\ k <= from
    <3>1. PICK m : m = k - p /\ p + m = k /\ m \in (f + 1)..(Len(o) - f) /\ m \in 1..Len(o)
      <4>1. k - p \in (f + 1)..(Len(o) - f) /\ k - p \in 1..Len(o) /\ p + (k - p) = k
        BY <1>2, <1>4, <2>2
      <4> QED BY <4>1
    <3> QED BY <1>1, <1>3, <3>1
  <2>3. CASE k > from
    <3>1. PICK m : m = k - from /\ from + m = k /\ m \in 1..(Len(t) - from)
      <4>1. from + (k - from) = k /\ k - from \in 1..(Len(t) - from)
        BY <1>2, <1>4, <2>3
      <4> QED BY <4>1
    <3>2. m \in 1..Len(c) /\ c[m] = t[k] /\ c \in Seq(Words)
      BY <1>6, <3>1 DEF IsPart
    <3>3. c[m] \in ToSet(c)
      BY <3>2, ToSetIs
    <3> QED BY <1>11, <3>2, <3>3
  <2> QED BY <1>4, <2>1, <2>2, <2>3
<1>13. ToSet(t) \subseteq ToSet(text) \cup ToSet(e)
  <2>1. \A w : w \in ToSet(t) <=> \E i \in 1..Len(t) : w = t[i]
    BY <1>2, ToSetIs
  <2> QED BY <1>12, <2>1
<1> QED BY <1>10, <1>11, <1>13 DEF Leaves

\* Nor does the patch command.
LEMMA PatchCarries ==
    ASSUME NEW src \in Seq(Words), NEW text, NEW hunks \in Seq(HunksOf(text)), NEW after \in PatchBinary(src, hunks)
    PROVE  Leaves(src, text, after)
<1> DEFINE A == {S : S \in SUBSET {t \in Seq(Words) : Leaves(src, text, t)}}
<1>1. {src} \in A
  BY DEF Leaves
<1>2. ASSUME NEW S \in A, NEW h \in HunksOf(text) PROVE PatchHunk(S, h) \in A
  <2>1. ASSUME NEW t \in S, NEW q \in {r \in (0..2) \X (0..Len(t)) : Fits(t, h, r[1], r[2])}
        PROVE  Leaves(src, text, Placed(t, h, q[1], q[2]))
    <3>1. Leaves(src, text, t) /\ q[1] \in 0..2 /\ q[2] \in 0..Len(t) /\ Fits(t, h, q[1], q[2])
      BY <2>1
    <3> QED BY <3>1, PlacedCarries
  <2>2. \A e \in PatchHunk(S, h) : Leaves(src, text, e)
    BY <2>1 DEF PatchHunk
  <2> QED BY <2>2 DEF Leaves
<1> HIDE DEF A
<1>3. \A seq \in Seq(HunksOf(text)) : PatchRun({src}, seq) \in A
  <2>1. PatchesFollow({src}, A, HunksOf(text))
    BY <1>1, <1>2, PatchFold
  <2> QED BY <2>1 DEF PatchesFollow
<1>4. PatchBinary(src, hunks) \in A
  BY <1>3, PatchBinaryIs
<1> QED BY <1>4 DEF A

-----------------------------------------------------------------------------
(* 11. What is known of a fix that is written and of its deliveries. *)

Written(shown, hunks, goal) == \E s \in Scripts(shown) : hunks = UnifiedDiff(shown, s) /\ goal = Rewritten(shown, s)
Came(d, hunks) ==
    /\ d[2] \in Seq(Words)
    /\ d[1] = "patch" => d[3] \in PatchBinary(d[2], hunks)
    /\ d[1] # "patch" => d[3] \in ApplyHunks(d[2], ParseHunks(hunks))

\* The hunks are the diff of a rewriting of what was shown, and each delivery
\* is what one of the two programs made with them of the file it met.
DeliveryInv ==
    /\ FixInv
    /\ DOMAIN fix = {"at", "shown", "block", "hunks", "goal"}
    /\ file \in Seq(Words) /\ fix.shown \in Seq(Words) /\ \A before \in pull : before \in Seq(Words)
    /\ fix.block \in Nat \X Nat
    /\ approving > 0 \/ pull # {} => fix.at \notin {"new", "read", "none"}
    /\ fix.at \notin {"new", "read", "none"} => Written(fix.shown, fix.hunks, fix.goal)
    /\ \A k \in 1..Len(delivered) : Came(delivered[k], fix.hunks)

\* Whatever others make of a text is a text.
LEMMA ChangedTyped == ASSUME NEW t \in Seq(Words), NEW u \in Changed(t) PROVE u \in Seq(Words)
<1>1. Marks \subseteq Words
  BY DEF Words
<1>2. CASE \E i \in DOMAIN t, m \in Marks : u = [t EXCEPT ![i] = m]
  BY <1>1, <1>2
<1>3. ASSUME NEW i \in 1..(Len(t) + 1), NEW m \in Marks, u = InsertAt(t, i, m) PROVE u \in Seq(Words)
  <2>1. SubSeq(t, 1, i - 1) \in Seq(Words) /\ SubSeq(t, i, Len(t)) \in Seq(Words) /\ <<m>> \in Seq(Words)
    BY <1>1
  <2>2. u = SubSeq(t, 1, i - 1) \o <<m>> \o SubSeq(t, i, Len(t))
    BY <1>3 DEF InsertAt
  <2> QED BY <2>1, <2>2
<1>4. ASSUME NEW i \in DOMAIN t, u = RemoveAt(t, i) PROVE u \in Seq(Words)
  <2>1. SubSeq(t, 1, i - 1) \in Seq(Words) /\ SubSeq(t, i + 1, Len(t)) \in Seq(Words)
    OBVIOUS
  <2>2. u = SubSeq(t, 1, i - 1) \o SubSeq(t, i + 1, Len(t))
    BY <1>4 DEF RemoveAt
  <2> QED BY <2>1, <2>2
<1> QED BY <1>2, <1>3, <1>4 DEF Changed

\* Whatever a delivery makes of a text is a text, and leaves in it what the fix
\* was not shown.
LEMMA CameLeaves ==
    ASSUME NEW shown \in Seq(Words), NEW hunks, NEW goal, Written(shown, hunks, goal), NEW d, Came(d, hunks)
    PROVE  Leaves(d[2], shown, d[3])
<1>1. hunks \in Seq(HunksOf(shown))
  BY DiffTyped DEF Written
<1>2. PICK p \in Seq(HunksOf(shown)) : p = ParseHunks(hunks)
  BY <1>1, ParsedTyped
<1>3. CASE d[1] = "patch"
  <2>1. PICK src, after : src \in Seq(Words) /\ src = d[2] /\ after = d[3] /\ after \in PatchBinary(src, hunks)
    BY <1>3 DEF Came
  <2> QED BY <1>1, <2>1, PatchCarries
<1>4. CASE d[1] # "patch"
  <2>1. PICK src, after : src \in Seq(Words) /\ src = d[2] /\ after = d[3] /\ after \in ApplyHunks(src, p)
    BY <1>2, <1>4 DEF Came
  <2>2. after \in Seq(Words) /\ ToSet(src) \subseteq ToSet(shown) \cup ToSet(after)
    BY <1>2, <2>1, ApplyCarries
  <2> QED BY <2>1, <2>2 DEF Leaves
<1> QED BY <1>3, <1>4

\* The invariant holds at first,
LEMMA DeliveryStarts == FixInit => DeliveryInv
<1> SUFFICES ASSUME FixInit PROVE DeliveryInv
  OBVIOUS
<1>1. FixInv
  BY FixStarts
<1>2. fix = NoFixYet /\ approving = 0 /\ pull = {} /\ delivered = <<>> /\ file \in Texts
  BY DEF FixInit
<1>3. file \in Seq(Words)
  <2>1. file \in Seq(ToSet(file)) /\ ToSet(file) \subseteq Words
    BY <1>2, DeliveryAssumption DEF Words
  <2> QED BY <2>1
<1>4. fix.shown \in Seq(Words) /\ fix.block \in Nat \X Nat
  BY <1>2 DEF NoFixYet
<1> QED BY <1>1, <1>2, <1>3, <1>4 DEF DeliveryInv, NoFixYet

\* A step that delivers nothing, after the fix is written or before.
LEMMA NothingDelivered ==
    ASSUME DeliveryInv, FixInv', UNCHANGED delivered,
           DOMAIN fix' = {"at", "shown", "block", "hunks", "goal"},
           \A t \in {file'} \cup pull' : t = file \/ t \in pull \/ t \in Seq(Words),
           fix'.shown \in Seq(Words), fix'.block \in Nat \X Nat,
           approving' > 0 \/ pull' # {} => fix'.at \notin {"new", "read", "none"},
           fix'.at \notin {"new", "read", "none"} => Written(fix'.shown, fix'.hunks, fix'.goal),
           fix'.hunks = fix.hunks \/ Len(delivered) = 0
    PROVE  DeliveryInv'
<1>1. file' \in Seq(Words) /\ \A before \in pull' : before \in Seq(Words)
  BY DEF DeliveryInv
<1>2. \A k \in 1..Len(delivered') : Came(delivered'[k], fix'.hunks)
  BY DEF DeliveryInv
<1> QED BY <1>1, <1>2 DEF DeliveryInv

\* A step that delivers, and moves only the status of the fix.
LEMMA OneDelivered ==
    ASSUME DeliveryInv, FixInv', NEW d, delivered' = Append(delivered, d), Came(d, fix.hunks),
           NEW at, fix' = [fix EXCEPT !.at = at], {fix.at, at} \cap {"new", "read", "none"} = {},
           pull' \subseteq pull, file' = file \/ file' = d[3]
    PROVE  DeliveryInv'
<1>1. /\ DOMAIN fix' = {"at", "shown", "block", "hunks", "goal"}
      /\ fix'.shown = fix.shown /\ fix'.block = fix.block /\ fix'.hunks = fix.hunks /\ fix'.goal = fix.goal
      /\ fix'.at = at
  BY DEF DeliveryInv
<1>2. fix.shown \in Seq(Words) /\ Written(fix.shown, fix.hunks, fix.goal)
  BY DEF DeliveryInv
<1>3. file' \in Seq(Words)
  <2>1. Leaves(d[2], fix.shown, d[3])
    BY <1>2, CameLeaves
  <2> QED BY <2>1 DEF Leaves, DeliveryInv
<1>4. \A k \in 1..Len(delivered') : Came(delivered'[k], fix.hunks)
  <2>1. PICK S : delivered \in Seq(S)
    BY DEF DeliveryInv, FixInv
  <2>2. PICK D : D = delivered'
    OBVIOUS
  <2>3. Len(D) = Len(delivered) + 1 /\ D[Len(delivered) + 1] = d /\ Len(delivered) \in Nat
    BY <2>1, <2>2
  <2>4. \A k \in 1..Len(delivered) : D[k] = delivered[k]
    BY <2>1, <2>2
  <2>5. \A k \in 1..Len(D) : k \in 1..Len(delivered) \/ k = Len(delivered) + 1
    BY <2>3
  <2>6. \A k \in 1..Len(D) : Came(D[k], fix.hunks)
    BY <2>3, <2>4, <2>5 DEF DeliveryInv
  <2> QED BY <2>2, <2>6
<1> QED BY <1>1, <1>2, <1>3, <1>4 DEF DeliveryInv

\* and every step of a fix, of an approval, of a pull request and of others keeps it.
LEMMA DeliveryKept == DeliveryInv /\ [FixNext]_fixVars => DeliveryInv'
<1>0. SUFFICES ASSUME DeliveryInv, [FixNext]_fixVars PROVE DeliveryInv'
  OBVIOUS
<1>1. FixInv'
  BY <1>0, FixKept DEF DeliveryInv
<1>2. /\ FixInv /\ DOMAIN fix = {"at", "shown", "block", "hunks", "goal"}
      /\ file \in Seq(Words) /\ fix.shown \in Seq(Words) /\ \A before \in pull : before \in Seq(Words)
      /\ fix.block \in Nat \X Nat
      /\ approving \in Nat /\ (approving > 0 \/ pull # {} => fix.at \notin {"new", "read", "none"})
      /\ fix.at \notin {"new", "read", "none"} => Written(fix.shown, fix.hunks, fix.goal)
  BY <1>0 DEF DeliveryInv, FixInv
<1>3. CASE Edit
  <2>1. UNCHANGED <<fix, approving, pull, delivered>> /\ file' \in Seq(Words)
    BY <1>2, <1>3, ChangedTyped DEF Edit
  <2> QED BY <1>0, <1>1, <1>2, <2>1, NothingDelivered
<1>4. CASE ReadSource
  <2>1. PICK b \in Blocks : fix' = [fix EXCEPT !.at = "read", !.shown = file, !.block = b]
    BY <1>4 DEF ReadSource
  <2>2. b \in Nat \X Nat /\ UNCHANGED <<file, approving, pull, delivered>> /\ fix.at = "new"
    BY <1>4, DeliveryAssumption DEF ReadSource
  <2>3. /\ DOMAIN fix' = {"at", "shown", "block", "hunks", "goal"} /\ fix'.at = "read"
        /\ fix'.shown = file /\ fix'.block = b /\ fix'.hunks = fix.hunks
    BY <1>2, <2>1
  <2> QED BY <1>0, <1>1, <1>2, <2>2, <2>3, NothingDelivered
<1>5. ASSUME NEW s \in Scripts(fix.shown), NEW m, fix.at = "read", Finalize(s, m),
             UNCHANGED <<way, file, approving, pull, delivered, edits>>
      PROVE  DeliveryInv'
  <2>1. PICK at \in {"patched", "low"} :
             fix' = [fix EXCEPT !.at = at, !.hunks = UnifiedDiff(fix.shown, s),
                                !.goal = Rewritten(fix.shown, s)]
    BY <1>5, Zenon DEF Finalize
  <2>2. /\ DOMAIN fix' = {"at", "shown", "block", "hunks", "goal"} /\ fix'.at = at
        /\ fix'.shown = fix.shown /\ fix'.block = fix.block
        /\ fix'.hunks = UnifiedDiff(fix.shown, s) /\ fix'.goal = Rewritten(fix.shown, s)
    BY <1>2, <2>1
  <2>3. Written(fix'.shown, fix'.hunks, fix'.goal)
    BY <2>2 DEF Written
  <2>4. Len(delivered) = 0
    BY <1>2, <1>5 DEF FixInv
  <2> QED BY <1>0, <1>1, <1>2, <1>5, <2>2, <2>3, <2>4, NothingDelivered
<1>6. CASE LlmRewrite
  <2> DEFINE b == fix.block
  <2>1. b[1] \in Nat /\ b[2] \in Nat
    BY <1>2
  <2>2. PICK s \in Script(b[2] - b[1] + 1) :
           Finalize([i \in DOMAIN fix.shown |-> IF i \in b[1]..b[2] THEN s[i - b[1] + 1] ELSE Keep], "llm")
    BY <1>6, Zenon DEF LlmRewrite
  <2>3. s \in [1..(b[2] - b[1] + 1) -> [drop : BOOLEAN, add : {<<>>, <<Fixed>>}]]
    BY <2>2 DEF Script
  <2>4. \A i \in DOMAIN fix.shown :
           i \in b[1]..b[2] => s[i - b[1] + 1] \in [drop : BOOLEAN, add : {<<>>, <<Fixed>>}]
    BY <2>1, <2>3
  <2>5. [i \in DOMAIN fix.shown |-> IF i \in b[1]..b[2] THEN s[i - b[1] + 1] ELSE Keep] \in Scripts(fix.shown)
    <3> HIDE DEF b
    <3>1. Keep \in [drop : BOOLEAN, add : {<<>>, <<Fixed>>}]
      BY DEF Keep
    <3> QED BY <2>4, <3>1 DEF Scripts
  <2>6. fix.at = "read" /\ UNCHANGED <<way, file, approving, pull, delivered, edits>>
    BY <1>6 DEF LlmRewrite
  <2> QED BY <1>5, <2>2, <2>5, <2>6
<1>7. CASE ByTemplate
  <2>1. PICK s \in Script(Len(fix.shown)) : Finalize(s, "deterministic")
    BY <1>7 DEF ByTemplate
  <2>2. s \in Scripts(fix.shown)
    <3>1. DOMAIN fix.shown = 1..Len(fix.shown)
      BY <1>2
    <3> QED BY <2>1, <3>1 DEF Script, Scripts
  <2> QED BY <1>5, <1>7, <2>1, <2>2 DEF ByTemplate
<1>8. CASE NothingGenerated
  <2>1. fix' = [fix EXCEPT !.at = "none"] /\ UNCHANGED <<file, approving, pull, delivered>> /\ fix.at = "read"
    BY <1>8 DEF NothingGenerated
  <2>2. /\ DOMAIN fix' = {"at", "shown", "block", "hunks", "goal"} /\ fix'.at = "none"
        /\ fix'.shown = fix.shown /\ fix'.block = fix.block /\ fix'.hunks = fix.hunks
    BY <1>2, <2>1
  <2> QED BY <1>0, <1>1, <1>2, <2>1, <2>2, NothingDelivered
<1>9. ASSUME NEW force \in BOOLEAN, ReadForApproval(force) PROVE DeliveryInv'
  <2>1. UNCHANGED <<file, fix, pull, delivered>> /\ fix.at \in {"patched", "low"}
    BY <1>9 DEF ReadForApproval
  <2> QED BY <1>0, <1>1, <1>2, <2>1, NothingDelivered
<1>10. ASSUME NEW how \in {"patch", "manual"}, ApplyToDisk(how) PROVE DeliveryInv'
  <2>1. approving > 0 /\ approving' = approving - 1 /\ UNCHANGED pull
    BY <1>10 DEF ApplyToDisk
  <2>2. fix.at \notin {"new", "read", "none"}
    BY <1>2, <2>1
  <2>3. CASE UNCHANGED <<file, fix, delivered>>
    BY <1>0, <1>1, <1>2, <2>1, <2>3, NothingDelivered
  <2>4. CASE /\ file' \in IF how = "patch" THEN PatchBinary(file, fix.hunks)
                                        ELSE ApplyHunks(file, ParseHunks(fix.hunks))
             /\ fix' = [fix EXCEPT !.at = "approved"]
             /\ delivered' = Append(delivered, <<how, file, file'>>)
    <3>1. PICK d : d = <<how, file, file'>>
      OBVIOUS
    <3>2. Came(d, fix.hunks) /\ d[3] = file'
      BY <1>2, <2>4, <3>1 DEF Came
    <3> QED BY <1>0, <1>1, <2>1, <2>2, <2>4, <3>1, <3>2, OneDelivered
  <2> QED BY <1>10, <2>3, <2>4 DEF ApplyToDisk
<1>11. CASE FetchHead
  <2>1. /\ UNCHANGED <<file, fix, approving, delivered>> /\ pull' = {file}
        /\ fix.at \in {"patched", "low", "patch_stale", "pr_failed"}
    BY <1>11 DEF FetchHead
  <2> QED BY <1>0, <1>1, <1>2, <2>1, NothingDelivered
<1>12. CASE Commit
  <2>1. PICK before \in pull :
          \/ \E at \in {"patch_stale", "pr_failed"} : fix' = [fix EXCEPT !.at = at] /\ delivered' = delivered
          \/ \E after \in ApplyHunks(before, ParseHunks(fix.hunks)) :
                /\ fix' = [fix EXCEPT !.at = "pr_open"]
                /\ delivered' = Append(delivered, <<"commit", before, after>>)
    BY <1>12 DEF Commit
  <2>2. pull' = {} /\ UNCHANGED <<file, approving>>
    BY <1>12 DEF Commit
  <2>3. fix.at \notin {"new", "read", "none"}
    BY <1>2, <2>1
  <2>4. ASSUME NEW at \in {"patch_stale", "pr_failed"}, fix' = [fix EXCEPT !.at = at], delivered' = delivered
        PROVE  DeliveryInv'
    <3>1. /\ DOMAIN fix' = {"at", "shown", "block", "hunks", "goal"}
          /\ fix'.shown = fix.shown /\ fix'.block = fix.block /\ fix'.hunks = fix.hunks /\ fix'.goal = fix.goal
      BY <1>2, <2>4
    <3> QED BY <1>0, <1>1, <1>2, <2>2, <2>3, <2>4, <3>1, NothingDelivered
  <2>5. ASSUME NEW after \in ApplyHunks(before, ParseHunks(fix.hunks)), fix' = [fix EXCEPT !.at = "pr_open"],
               delivered' = Append(delivered, <<"commit", before, after>>)
        PROVE  DeliveryInv'
    <3>1. PICK d : d = <<"commit", before, after>>
      OBVIOUS
    <3>2. Came(d, fix.hunks)
      BY <1>2, <2>5, <3>1 DEF Came
    <3> QED BY <1>0, <1>1, <2>2, <2>3, <2>5, <3>1, <3>2, OneDelivered
  <2> QED BY <2>1, <2>4, <2>5
<1>13. CASE UNCHANGED fixVars
  BY <1>0, <1>1, <1>2, <1>13, NothingDelivered DEF fixVars
<1> QED BY <1>0, <1>3, <1>4, <1>6, <1>7, <1>8, <1>9, <1>10, <1>11, <1>12, <1>13 DEF FixNext

\* What others wrote is still there in each file that was delivered.
LEMMA DeliveryLeaves == DeliveryInv => EditsSurvive
<1> SUFFICES ASSUME DeliveryInv PROVE EditsSurvive
  OBVIOUS
<1>1. PICK S : delivered \in Seq(S)
  BY DEF DeliveryInv, FixInv
<1>2. ASSUME NEW k \in DOMAIN delivered
      PROVE  (Marks \cap ToSet(delivered[k][2])) \ ToSet(fix.shown) \subseteq ToSet(delivered[k][3])
  <2>1. k \in 1..Len(delivered) /\ Len(delivered) # 0
    BY <1>1
  <2>2. Came(delivered[k], fix.hunks) /\ fix.shown \in Seq(Words)
    BY <2>1 DEF DeliveryInv
  <2>3. Written(fix.shown, fix.hunks, fix.goal)
    BY <2>1 DEF DeliveryInv, FixInv
  <2>4. Leaves(delivered[k][2], fix.shown, delivered[k][3])
    BY <2>2, <2>3, CameLeaves
  <2> QED BY <2>4 DEF Leaves
<1> QED BY <1>2 DEF EditsSurvive

\* A fix undoes nobody's edit, whichever program applies it, to whatever file.
THEOREM FixesKeepEdits == FixingSpec => []EditsSurvive
BY FixingImplements, DeliveryStarts, DeliveryKept, DeliveryLeaves, PTL DEF FixSpec

-----------------------------------------------------------------------------
(* 12. What a diff makes of the text that it was made for. *)

Piece(text, s, k) == (IF s[k].drop THEN <<>> ELSE <<text[k]>>) \o s[k].add
UpTo(text, s, m) == FlattenSeq([k \in 1..m |-> Piece(text, s, k)])
Shown(text, s, i, m) == FlattenSeq([j \in 1..(m - i + 1) |-> Lines(text, s, i + j - 1)])

GoesOn(X, n, f) ==
    /\ [k \in 1..n |-> f[k]] \in Seq(X) /\ [k \in 1..(n + 1) |-> f[k]] \in Seq(X)
    /\ [k \in 1..(n + 1) |-> f[k]] = Append([k \in 1..n |-> f[k]], f[n + 1])

\* A sequence given by a function, and the same with one more element.
LEMMA OneFurther ==
    ASSUME NEW X, NEW n \in Nat, NEW f, \A k \in 1..(n + 1) : f[k] \in X
    PROVE  GoesOn(X, n, f)
  BY DEF GoesOn

\* The first m lines of the rewritten text.
LEMMA UpToGrows ==
    ASSUME NEW text \in Seq(Words), NEW s \in Scripts(text)
    PROVE  /\ UpTo(text, s, 0) = <<>>
           /\ UpTo(text, s, Len(text)) = Rewritten(text, s)
           /\ \A m \in 0..Len(text) : UpTo(text, s, m) \in Seq(Words)
           /\ \A m \in 0..(Len(text) - 1) : UpTo(text, s, m + 1) = UpTo(text, s, m) \o Piece(text, s, m + 1)
<1> DEFINE f == [k \in 1..Len(text) |-> Piece(text, s, k)]
<1>1. ASSUME NEW k \in 1..Len(text) PROVE Piece(text, s, k) \in Seq(Words)
  <2>1. <<>> \in Seq(Words) /\ <<text[k]>> \in Seq(Words) /\ <<Fixed>> \in Seq(Words)
    BY DEF Words
  <2>2. s[k].add \in {<<>>, <<Fixed>>}
    BY DEF Scripts
  <2>3. PICK a \in Seq(Words), b \in Seq(Words) : a = (IF s[k].drop THEN <<>> ELSE <<text[k]>>) /\ b = s[k].add
    BY <2>1, <2>2
  <2>4. a \o b \in Seq(Words)
    BY <2>3
  <2> QED BY <2>3, <2>4 DEF Piece
<1>2. Len(text) \in Nat /\ DOMAIN text = 1..Len(text)
  OBVIOUS
<1>3. ASSUME NEW m \in 0..Len(text)
      PROVE  [k \in 1..m |-> f[k]] \in Seq(Seq(Words)) /\ UpTo(text, s, m) = FlattenSeq([k \in 1..m |-> f[k]])
  <2>1. \A k \in 1..m : k \in 1..Len(text) /\ f[k] = Piece(text, s, k)
    BY <1>2
  <2>2. [k \in 1..m |-> f[k]] = [k \in 1..m |-> Piece(text, s, k)]
    BY <2>1
  <2> HIDE DEF f
  <2>3. \A k \in 1..m : f[k] \in Seq(Words)
    BY <1>1, <2>1
  <2>4. m \in Nat
    BY <1>2
  <2> QED BY <2>2, <2>3, <2>4 DEF UpTo
<1>4. UpTo(text, s, 0) = <<>>
  <2>1. [k \in 1..0 |-> Piece(text, s, k)] = <<>>
    OBVIOUS
  <2> QED BY <2>1, FlattenFold DEF UpTo
<1>5. UpTo(text, s, Len(text)) = Rewritten(text, s)
  BY <1>2 DEF UpTo, Rewritten, Piece
<1>6. ASSUME NEW m \in 0..Len(text) PROVE UpTo(text, s, m) \in Seq(Words)
  <2> HIDE DEF f
  <2> QED BY <1>3, FlattenFold
<1>7. ASSUME NEW m \in 0..(Len(text) - 1) PROVE UpTo(text, s, m + 1) = UpTo(text, s, m) \o Piece(text, s, m + 1)
  <2>1. m \in Nat /\ m \in 0..Len(text) /\ m + 1 \in 0..Len(text) /\ m + 1 \in 1..Len(text)
    BY <1>2
  <2>2. f[m + 1] = Piece(text, s, m + 1) /\ \A k \in 1..(m + 1) : f[k] \in Seq(Words)
    <3>1. \A k \in 1..(m + 1) : k \in 1..Len(text)
      BY <1>2
    <3> QED BY <1>1, <2>1, <3>1
  <2> HIDE DEF f
  <2>3. PICK g : g = [k \in 1..m |-> f[k]] /\ g \in Seq(Seq(Words)) /\ [k \in 1..(m + 1) |-> f[k]] = Append(g, f[m + 1])
    <3>1. GoesOn(Seq(Words), m, f)
      BY <2>1, <2>2, OneFurther
    <3> QED BY <3>1 DEF GoesOn
  <2>4. PICK t \in Seq(Words) : t = f[m + 1]
    BY <2>2
  <2>5. FlattenSeq(Append(g, t)) = FlattenSeq(g) \o t
    BY <2>3, <2>4, FlattenFold
  <2>6. UpTo(text, s, m) = FlattenSeq(g) /\ UpTo(text, s, m + 1) = FlattenSeq(Append(g, t))
    BY <1>3, <2>1, <2>3, <2>4
  <2> QED BY <2>2, <2>4, <2>5, <2>6
<1> QED BY <1>4, <1>5, <1>6, <1>7

\* The lines of a hunk, from its first one.
LEMMA ShownGrows ==
    ASSUME NEW text \in Seq(Words), NEW s \in Scripts(text), NEW i \in 1..Len(text)
    PROVE  /\ Shown(text, s, i, i - 1) = <<>>
           /\ \A m \in (i - 1)..Len(text) : Shown(text, s, i, m) \in Seq(LinesOf(text))
           /\ \A m \in (i - 1)..(Len(text) - 1) :
                 Shown(text, s, i, m + 1) = Shown(text, s, i, m) \o Lines(text, s, m + 1)
<1> DEFINE n == Len(text) - i + 1
           f == [j \in 1..n |-> Lines(text, s, i + j - 1)]
           X == Seq(LinesOf(text))
<1>1. Len(text) \in Nat /\ n \in Nat
  OBVIOUS
<1>2. ASSUME NEW j \in 1..n PROVE f[j] = Lines(text, s, i + j - 1) /\ f[j] \in X
  <2>1. i + j - 1 \in 1..Len(text)
    BY <1>1
  <2> QED BY <2>1, LinesTyped
<1> HIDE DEF f, n, X
<1>3. ASSUME NEW m \in (i - 1)..Len(text)
      PROVE  /\ m - i + 1 \in Nat /\ \A j \in 1..(m - i + 1) : j \in 1..n
             /\ [j \in 1..(m - i + 1) |-> f[j]] \in Seq(X)
             /\ Shown(text, s, i, m) = FlattenSeq([j \in 1..(m - i + 1) |-> f[j]])
  <2>1. m - i + 1 \in Nat /\ \A j \in 1..(m - i + 1) : j \in 1..n
    BY <1>1 DEF n
  <2>2. [j \in 1..(m - i + 1) |-> f[j]] = [j \in 1..(m - i + 1) |-> Lines(text, s, i + j - 1)]
    BY <1>2, <2>1
  <2>3. [j \in 1..(m - i + 1) |-> f[j]] \in Seq(X)
    BY <1>2, <2>1
  <2> QED BY <2>1, <2>2, <2>3 DEF Shown
<1>4. Shown(text, s, i, i - 1) = <<>>
  <2>1. (i - 1) - i + 1 = 0
    OBVIOUS
  <2>2. [j \in 1..0 |-> Lines(text, s, i + j - 1)] = <<>>
    OBVIOUS
  <2> QED BY <2>1, <2>2, FlattenFold DEF Shown
<1>5. ASSUME NEW m \in (i - 1)..Len(text) PROVE Shown(text, s, i, m) \in X
  BY <1>3, FlattenFold DEF X
<1>6. ASSUME NEW m \in (i - 1)..(Len(text) - 1)
      PROVE  Shown(text, s, i, m + 1) = Shown(text, s, i, m) \o Lines(text, s, m + 1)
  <2>1. m \in (i - 1)..Len(text) /\ m + 1 \in (i - 1)..Len(text)
    BY <1>1
  <2>2. PICK k \in Nat : k = m - i + 1 /\ k + 1 = (m + 1) - i + 1 /\ i + (k + 1) - 1 = m + 1
    BY <1>3, <2>1
  <2>3. \A j \in 1..(k + 1) : j \in 1..n
    BY <1>3, <2>1, <2>2
  <2>4. f[k + 1] = Lines(text, s, m + 1) /\ \A j \in 1..(k + 1) : f[j] \in X
    BY <1>2, <2>2, <2>3
  <2>5. PICK g : g = [j \in 1..k |-> f[j]] /\ g \in Seq(X) /\ [j \in 1..(k + 1) |-> f[j]] = Append(g, f[k + 1])
    <3>1. GoesOn(X, k, f)
      BY <2>2, <2>4, OneFurther
    <3> QED BY <3>1 DEF GoesOn
  <2>6. PICK t \in X : t = f[k + 1]
    BY <2>2, <2>4
  <2>7. FlattenSeq(Append(g, t)) = FlattenSeq(g) \o t
    BY <2>5, <2>6, FlattenFold DEF X
  <2>8. Shown(text, s, i, m) = FlattenSeq(g)
    <3>1. Shown(text, s, i, m) = FlattenSeq([j \in 1..(m - i + 1) |-> f[j]])
      BY <1>3, <2>1
    <3> QED BY <2>2, <2>5, <3>1
  <2>9. Shown(text, s, i, m + 1) = FlattenSeq(Append(g, t))
    <3>1. Shown(text, s, i, m + 1) = FlattenSeq([j \in 1..((m + 1) - i + 1) |-> f[j]])
      BY <1>3, <2>1
    <3> QED BY <2>2, <2>5, <2>6, <3>1
  <2> QED BY <2>4, <2>6, <2>7, <2>8, <2>9
<1> QED BY <1>4, <1>5, <1>6 DEF X

\* A line that is applied has been found, unless it is added.
Applied(src, acc, l, r) ==
    /\ acc.ok
    /\ l.tag # "+" => acc.idx < Len(src) /\ src[acc.idx + 1] = l.word
    /\ r.idx = IF l.tag = "+" THEN acc.idx ELSE acc.idx + 1
    /\ r.out = IF l.tag = "-" THEN acc.out ELSE Append(acc.out, l.word)

\* A line that is applied is the one the file has there, unless it is added.
LEMMA LineApplied ==
    ASSUME NEW src \in Seq(Words), NEW acc \in Accs, NEW l, ApplyLine(src, acc, l).ok
    PROVE  Applied(src, acc, l, ApplyLine(src, acc, l))
<1>1. acc.ok \in BOOLEAN /\ acc.idx \in Nat /\ DOMAIN acc = {"ok", "idx", "out"}
  BY DEF Accs
<1>2. ~(~acc.ok \/ (l.tag # "+" /\ (acc.idx >= Len(src) \/ src[acc.idx + 1] # l.word)))
  <2>1. SUFFICES ASSUME ~acc.ok \/ (l.tag # "+" /\ (acc.idx >= Len(src) \/ src[acc.idx + 1] # l.word))
                 PROVE  FALSE
    OBVIOUS
  <2>2. ApplyLine(src, acc, l) = [acc EXCEPT !.ok = FALSE]
    BY <2>1, Zenon DEF ApplyLine
  <2> QED BY <1>1, <2>2
<1>3. ApplyLine(src, acc, l) = [acc EXCEPT !.idx = IF l.tag = "+" THEN acc.idx ELSE acc.idx + 1,
                                           !.out = IF l.tag = "-" THEN acc.out ELSE Append(acc.out, l.word)]
  BY <1>2, Zenon DEF ApplyLine
<1>4. /\ ApplyLine(src, acc, l).idx = IF l.tag = "+" THEN acc.idx ELSE acc.idx + 1
      /\ ApplyLine(src, acc, l).out = IF l.tag = "-" THEN acc.out ELSE Append(acc.out, l.word)
  BY <1>1, <1>3
<1>5. acc.ok
  BY <1>1, <1>2
<1>6. ASSUME l.tag # "+" PROVE acc.idx < Len(src) /\ src[acc.idx + 1] = l.word
  <2>1. ~(acc.idx >= Len(src)) /\ ~(src[acc.idx + 1] # l.word)
    BY <1>2, <1>6, Zenon
  <2>2. Len(src) \in Nat
    OBVIOUS
  <2> QED BY <1>1, <2>1, <2>2
<1> QED BY <1>4, <1>5, <1>6 DEF Applied

CarryingAccs(src, text) == {a \in Accs : Carries(src, text, a)}

\* A hunk up to a line of the text it was made for: what it meets is that text
\* and what it leaves is the rewritten one.
RunIs(src, text, s, i, base, m) ==
    LET r == LinesRun(src, base, Shown(text, s, i, m)) IN
    /\ r \in Accs
    /\ Len(Without("+", Shown(text, s, i, m))) = m - i + 1
    /\ r.ok => /\ r.idx = m /\ m <= Len(src) /\ \A k \in i..m : src[k] = text[k]
               /\ base.out = UpTo(text, s, i - 1) => r.out = UpTo(text, s, m)

\* One line more is one line of the hunk or two.
NextLine(text, s, m, seq, l, next) ==
    /\ l = [tag |-> IF s[m].drop THEN "-" ELSE " ", word |-> text[m]] /\ l \in LinesOf(text)
    /\ Append(seq, l) \in Seq(LinesOf(text))
    /\ \/ next = Append(seq, l) /\ s[m].add = <<>>
       \/ \E p \in LinesOf(text) : /\ p = [tag |-> "+", word |-> Fixed]
                                   /\ next = Append(Append(seq, l), p) /\ s[m].add = <<Fixed>>

\* What a hunk shows of one more line of its text.
LEMMA NextLineIs ==
    ASSUME NEW text \in Seq(Words), NEW s \in Scripts(text), NEW m \in 1..Len(text), NEW seq \in Seq(LinesOf(text))
    PROVE  \E l : NextLine(text, s, m, seq, l, seq \o Lines(text, s, m))
<1>1. PICK l : l = [tag |-> IF s[m].drop THEN "-" ELSE " ", word |-> text[m]]
  OBVIOUS
<1>2. l \in LinesOf(text)
  <2>1. text[m] \in Words /\ text[m] \in ToSet(text)
    BY DEF ToSet
  <2>2. PICK tag \in {"-", "+", " "} : l = [tag |-> tag, word |-> text[m]]
    BY <1>1
  <2>3. l \in [tag : {"-", "+", " "}, word : Words]
    BY <2>1, <2>2
  <2>4. l.word \in ToSet(text)
    BY <2>1, <2>2
  <2> QED BY <2>3, <2>4 DEF LinesOf
<1>3. PICK p : p = [tag |-> "+", word |-> Fixed]
  OBVIOUS
<1>4. p \in LinesOf(text)
  <2>1. Fixed \in Words
    BY DEF Words
  <2> QED BY <1>3, <2>1 DEF LinesOf
<1>5. s[m].add \in {<<>>, <<Fixed>>}
  BY DEF Scripts
<1>6. Append(seq, l) \in Seq(LinesOf(text))
  BY <1>2
<1>7. CASE s[m].add = <<>>
  <2>1. [k \in DOMAIN s[m].add |-> [tag |-> "+", word |-> s[m].add[k]]] = <<>>
    BY <1>7
  <2>2. Lines(text, s, m) = <<l>> \o <<>>
    BY <1>1, <2>1 DEF Lines
  <2>3. seq \o Lines(text, s, m) = Append(seq, l)
    BY <1>2, <2>2
  <2> QED BY <1>1, <1>2, <1>6, <1>7, <2>3 DEF NextLine
<1>8. CASE s[m].add = <<Fixed>>
  <2>1. DOMAIN s[m].add = 1..1 /\ \A k \in 1..1 : s[m].add[k] = Fixed
    BY <1>8
  <2>2. [k \in DOMAIN s[m].add |-> [tag |-> "+", word |-> s[m].add[k]]] = <<p>>
    BY <1>3, <2>1
  <2>3. Lines(text, s, m) = <<l>> \o <<p>>
    BY <1>1, <2>2 DEF Lines
  <2>4. seq \o (<<l>> \o <<p>>) = Append(Append(seq, l), p)
    BY <1>2, <1>4
  <2> QED BY <1>1, <1>2, <1>3, <1>4, <1>6, <1>8, <2>3, <2>4 DEF NextLine
<1> QED BY <1>5, <1>7, <1>8

Appending(u, v, w) ==
    /\ u \o (<<>> \o <<>>) = u /\ u \o (<<v>> \o <<>>) = Append(u, v)
    /\ u \o (<<>> \o <<w>>) = Append(u, w) /\ u \o (<<v>> \o <<w>>) = Append(Append(u, v), w)

\* Words put at the end of a text, one by one.
LEMMA Appended == ASSUME NEW u \in Seq(Words), NEW v \in Words, NEW w \in Words PROVE Appending(u, v, w)
  BY DEF Appending

\* One more line of the text is met and copied or dropped, and what comes after it is added.
LEMMA RunGoesOn ==
    ASSUME NEW src \in Seq(Words), NEW text \in Seq(Words), NEW s \in Scripts(text), NEW i \in 1..Len(text),
           NEW base \in CarryingAccs(src, text), NEW m \in (i - 1)..(Len(text) - 1), RunIs(src, text, s, i, base, m)
    PROVE  RunIs(src, text, s, i, base, m + 1)
<1> DEFINE X == LinesOf(text)
           A == CarryingAccs(src, text)
<1>1. \A a \in A, l \in X : ApplyLine(src, a, l) \in A
  BY LineCarries DEF CarryingAccs
<1>2. /\ m \in Nat /\ i \in Nat /\ m + 1 \in 1..Len(text) /\ m \in 0..(Len(text) - 1) /\ m \in 0..Len(text)
      /\ Len(src) \in Nat
  OBVIOUS
<1>3. PICK seq, next, l : /\ seq \in Seq(X)
                         /\ seq = Shown(text, s, i, m) /\ next = Shown(text, s, i, m + 1)
                         /\ NextLine(text, s, m + 1, seq, l, next)
  <2>1. PICK seq \in Seq(X) : seq = Shown(text, s, i, m)
    <3>1. m \in (i - 1)..Len(text)
      OBVIOUS
    <3> QED BY <3>1, ShownGrows
  <2>2. Shown(text, s, i, m + 1) = seq \o Lines(text, s, m + 1)
    BY <2>1, ShownGrows
  <2>3. PICK l : NextLine(text, s, m + 1, seq, l, seq \o Lines(text, s, m + 1))
    BY <1>2, <2>1, NextLineIs
  <2> QED BY <2>1, <2>2, <2>3
<1>4. PICK q \in Seq(X) : q = Append(seq, l)
  BY <1>3 DEF NextLine
<1>5. /\ l = [tag |-> IF s[m + 1].drop THEN "-" ELSE " ", word |-> text[m + 1]] /\ l \in X
      /\ \/ next = q /\ s[m + 1].add = <<>>
         \/ \E p \in X : p = [tag |-> "+", word |-> Fixed] /\ next = Append(q, p) /\ s[m + 1].add = <<Fixed>>
  BY <1>3, <1>4 DEF NextLine
<1>6. /\ \A t \in Seq(X), x \in X : LinesRun(src, base, Append(t, x)) = ApplyLine(src, LinesRun(src, base, t), x)
      /\ \A t \in Seq(X) : LinesRun(src, base, t) \in A
  <2>1. base \in A
    OBVIOUS
  <2> HIDE DEF A, X
  <2>2. LinesFollow(src, base, A, X)
    BY <1>1, <2>1, LinesFold
  <2> QED BY <2>2 DEF LinesFollow
<1>7. PICK r \in Accs, r1 \in Accs :
          r = LinesRun(src, base, seq) /\ r1 = LinesRun(src, base, q) /\ r1 = ApplyLine(src, r, l)
  <2>1. LinesRun(src, base, seq) \in A /\ LinesRun(src, base, q) \in A
    BY <1>3, <1>4, <1>6
  <2>2. LinesRun(src, base, q) = ApplyLine(src, LinesRun(src, base, seq), l)
    BY <1>3, <1>4, <1>5, <1>6
  <2> QED BY <2>1, <2>2 DEF CarryingAccs
<1>8. r.ok => /\ r.idx = m /\ m <= Len(src) /\ \A k \in i..m : src[k] = text[k]
              /\ base.out = UpTo(text, s, i - 1) => r.out = UpTo(text, s, m)
  BY <1>3, <1>7 DEF RunIs
<1>9. l.tag = (IF s[m + 1].drop THEN "-" ELSE " ") /\ l.word = text[m + 1]
  BY <1>5
<1> DEFINE kept == IF s[m + 1].drop THEN r.out ELSE Append(r.out, text[m + 1])
<1>10. r1.ok => /\ r.ok /\ r1.idx = m + 1 /\ m + 1 <= Len(src) /\ src[m + 1] = text[m + 1] /\ r1.out = kept
  <2> SUFFICES ASSUME r1.ok
               PROVE  r.ok /\ r1.idx = m + 1 /\ m + 1 <= Len(src) /\ src[m + 1] = text[m + 1] /\ r1.out = kept
    OBVIOUS
  <2>1. l.tag \in {"-", "+", " "} /\ l.tag # "+"
    BY <1>9
  <2>2. /\ r.ok /\ r.idx < Len(src) /\ src[r.idx + 1] = l.word /\ r1.idx = r.idx + 1
        /\ l.tag = "-" => r1.out = r.out
        /\ l.tag # "-" => r1.out = Append(r.out, l.word)
    <3>1. Applied(src, r, l, r1)
      BY <1>7, LineApplied
    <3> QED BY <2>1, <3>1 DEF Applied
  <2>3. r1.out = kept
    BY <1>9, <2>2
  <2> HIDE DEF kept
  <2>4. r.idx = m
    BY <1>8, <2>2
  <2>5. m < Len(src) /\ src[m + 1] = text[m + 1] /\ r1.idx = m + 1
    BY <1>9, <2>2, <2>4
  <2> QED BY <1>2, <2>2, <2>3, <2>5
<1>11. /\ Without("+", q) = Append(Without("+", seq), text[m + 1])
       /\ Without("+", seq) \in Seq(Words) /\ Without("+", q) \in Seq(Words)
       /\ \A p \in X : p.tag = "+" => Without("+", Append(q, p)) = Without("+", q)
  <2>1. ASSUME NEW o \in Seq(Words), NEW x \in X PROVE WordOf("+", o, x) \in Seq(Words)
    <3>1. x.word \in Words
      BY DEF LinesOf
    <3>2. Append(o, x.word) \in Seq(Words)
      BY <3>1
    <3> QED BY <3>2 DEF WordOf
  <2>2. <<>> \in Seq(Words)
    OBVIOUS
  <2>3. /\ \A t \in Seq(X), x \in X : Without("+", Append(t, x)) = WordOf("+", Without("+", t), x)
        /\ \A t \in Seq(X) : Without("+", t) \in Seq(Words)
    <3> HIDE DEF X
    <3>1. WordsFollow("+", Seq(Words), X)
      BY <2>1, <2>2, WithoutFold
    <3> QED BY <3>1 DEF WordsFollow
  <2>4. Without("+", q) = WordOf("+", Without("+", seq), l)
    BY <1>3, <1>4, <1>5, <2>3
  <2>5. WordOf("+", Without("+", seq), l) = Append(Without("+", seq), text[m + 1])
    BY <1>9 DEF WordOf
  <2>6. ASSUME NEW p \in X, p.tag = "+" PROVE Without("+", Append(q, p)) = Without("+", q)
    <3>1. Without("+", Append(q, p)) = WordOf("+", Without("+", q), p)
      BY <1>4, <2>3
    <3> QED BY <2>6, <3>1 DEF WordOf
  <2> QED BY <1>3, <1>4, <2>3, <2>4, <2>5, <2>6
<1>12. Len(Without("+", q)) = (m + 1) - i + 1
  <2>1. Len(Without("+", seq)) = m - i + 1
    BY <1>3 DEF RunIs
  <2>2. PICK w \in Seq(Words) : w = Without("+", seq)
    BY <1>11
  <2>3. Len(Append(w, text[m + 1])) = Len(w) + 1
    BY <2>2
  <2>4. Len(Without("+", q)) = (m - i + 1) + 1
    BY <1>11, <2>1, <2>2, <2>3
  <2> QED BY <1>2, <2>4
<1>13. \A k \in i..(m + 1) : k \in i..m \/ k = m + 1
  BY <1>2
<1>14. UpTo(text, s, m) \in Seq(Words) /\ text[m + 1] \in Words /\ Fixed \in Words
  <2>1. UpTo(text, s, m) \in Seq(Words)
    BY <1>2, UpToGrows
  <2>2. text[m + 1] \in Words
    BY <1>2
  <2> QED BY <2>1, <2>2 DEF Words
<1>15. UpTo(text, s, m + 1) = UpTo(text, s, m) \o Piece(text, s, m + 1)
  BY <1>2, UpToGrows
<1>16. CASE next = q /\ s[m + 1].add = <<>>
  <2>1. base.out = UpTo(text, s, i - 1) /\ r1.ok => r1.out = UpTo(text, s, m + 1)
    <3> SUFFICES ASSUME r.out = UpTo(text, s, m), r1.out = kept PROVE r1.out = UpTo(text, s, m + 1)
      BY <1>8, <1>10
    <3>1. Appending(UpTo(text, s, m), text[m + 1], Fixed)
      BY <1>14, Appended
    <3> QED BY <1>15, <1>16, <3>1 DEF Piece, Appending
  <2>2. /\ r1 = LinesRun(src, base, Shown(text, s, i, m + 1))
        /\ Len(Without("+", Shown(text, s, i, m + 1))) = (m + 1) - i + 1
    BY <1>3, <1>7, <1>12, <1>16
  <2> HIDE DEF kept
  <2>3. r1.ok => r1.idx = m + 1 /\ m + 1 <= Len(src) /\ \A k \in i..(m + 1) : src[k] = text[k]
    BY <1>8, <1>10, <1>13
  <2> QED BY <1>7, <2>1, <2>2, <2>3 DEF RunIs
<1>17. ASSUME NEW p \in X, p = [tag |-> "+", word |-> Fixed], next = Append(q, p), s[m + 1].add = <<Fixed>>
       PROVE  RunIs(src, text, s, i, base, m + 1)
  <2>0. p.tag = "+" /\ p.word = Fixed
    BY <1>17
  <2>1. PICK r2 \in Accs : r2 = LinesRun(src, base, next) /\ r2 = ApplyLine(src, r1, p)
    <3>1. next \in Seq(X)
      BY <1>4, <1>17
    <3>2. LinesRun(src, base, next) \in A
      BY <1>6, <3>1
    <3>3. LinesRun(src, base, Append(q, p)) = ApplyLine(src, LinesRun(src, base, q), p)
      BY <1>4, <1>6
    <3> QED BY <1>7, <1>17, <3>2, <3>3 DEF CarryingAccs
  <2>2. r2.ok => r1.ok /\ r2.idx = r1.idx /\ r2.out = Append(r1.out, Fixed)
    <3> SUFFICES ASSUME r2.ok PROVE r1.ok /\ r2.idx = r1.idx /\ r2.out = Append(r1.out, Fixed)
      OBVIOUS
    <3>1. Applied(src, r1, p, r2)
      BY <1>7, <2>1, LineApplied
    <3> QED BY <2>0, <3>1 DEF Applied
  <2>3. base.out = UpTo(text, s, i - 1) /\ r2.ok => r2.out = UpTo(text, s, m + 1)
    <3> SUFFICES ASSUME r.out = UpTo(text, s, m), r1.out = kept, r2.out = Append(r1.out, Fixed)
                 PROVE  r2.out = UpTo(text, s, m + 1)
      BY <1>8, <1>10, <2>2
    <3>1. Appending(UpTo(text, s, m), text[m + 1], Fixed)
      BY <1>14, Appended
    <3> QED BY <1>15, <1>17, <3>1 DEF Piece, Appending
  <2>4. /\ r2 = LinesRun(src, base, Shown(text, s, i, m + 1))
        /\ Len(Without("+", Shown(text, s, i, m + 1))) = (m + 1) - i + 1
    BY <1>3, <1>11, <1>12, <1>17, <2>0, <2>1
  <2> HIDE DEF kept
  <2>5. r2.ok => r2.idx = m + 1 /\ m + 1 <= Len(src) /\ \A k \in i..(m + 1) : src[k] = text[k]
    BY <1>8, <1>10, <1>13, <2>2
  <2> QED BY <2>1, <2>3, <2>4, <2>5 DEF RunIs
<1> QED BY <1>5, <1>16, <1>17

\* The lines of a hunk are met one after the other.
LEMMA RunAlong ==
    ASSUME NEW src \in Seq(Words), NEW text \in Seq(Words), NEW s \in Scripts(text), NEW i \in 1..Len(text),
           NEW base \in CarryingAccs(src, text), base.ok, base.idx = i - 1, NEW m \in (i - 1)..Len(text)
    PROVE  RunIs(src, text, s, i, base, m)
<1> DEFINE T == {d \in Nat : i - 1 + d <= Len(text) => RunIs(src, text, s, i, base, i - 1 + d)}
<1>1. i \in Nat /\ i - 1 \in Nat /\ Len(text) \in Nat
  OBVIOUS
<1>2. RunIs(src, text, s, i, base, i - 1)
  <2>1. Shown(text, s, i, i - 1) = <<>>
    BY ShownGrows
  <2>2. LinesRun(src, base, <<>>) = base
    <3>1. \A a \in CarryingAccs(src, text), l \in LinesOf(text) : ApplyLine(src, a, l) \in CarryingAccs(src, text)
      BY LineCarries DEF CarryingAccs
    <3>2. LinesFollow(src, base, CarryingAccs(src, text), LinesOf(text))
      BY <3>1, LinesFold
    <3> QED BY <3>2 DEF LinesFollow
  <2>3. Without("+", <<>>) = <<>>
    <3>1. \A o \in {<<>>}, l \in {} : WordOf("+", o, l) \in {<<>>}
      OBVIOUS
    <3>2. <<>> \in {<<>>}
      OBVIOUS
    <3>3. WordsFollow("+", {<<>>}, {})
      BY <3>1, <3>2, WithoutFold
    <3> QED BY <3>3 DEF WordsFollow
  <2>4. Len(<<>>) = (i - 1) - i + 1 /\ \A k \in i..(i - 1) : FALSE
    BY <1>1
  <2>5. base \in Accs /\ i - 1 <= Len(src)
    BY DEF CarryingAccs, Carries
  <2> QED BY <2>1, <2>2, <2>3, <2>4, <2>5 DEF RunIs
<1>3. 0 \in T
  BY <1>1, <1>2
<1>4. ASSUME NEW d \in Nat, d \in T PROVE d + 1 \in T
  <2> SUFFICES ASSUME i - 1 + (d + 1) <= Len(text) PROVE RunIs(src, text, s, i, base, i - 1 + (d + 1))
    OBVIOUS
  <2>1. PICK k : k = i - 1 + d /\ k \in (i - 1)..(Len(text) - 1) /\ i - 1 + (d + 1) = k + 1
    BY <1>1
  <2>2. RunIs(src, text, s, i, base, k)
    BY <1>1, <1>4, <2>1
  <2>3. RunIs(src, text, s, i, base, k + 1)
    BY <2>1, <2>2, RunGoesOn
  <2> QED BY <2>1, <2>3
<1> HIDE DEF T
<1>5. Nat \subseteq T
  BY <1>3, <1>4, Induct
<1>6. PICK d \in Nat : i - 1 + d = m
  <2>1. m - (i - 1) \in Nat /\ i - 1 + (m - (i - 1)) = m
    BY <1>1
  <2> QED BY <2>1
<1>7. d \in T /\ i - 1 + d <= Len(text)
  BY <1>1, <1>5, <1>6
<1> QED BY <1>6, <1>7 DEF T

\* The lines of a hunk are those of the text.
Meets(src, text, s, i) == End(text, s, i) <= Len(src) /\ \A k \in i..End(text, s, i) : src[k] = text[k]

\* A hunk that is applied meets the lines it was made for.
HunkIs(src, text, s, i, acc, r) ==
    /\ r \in CarryingAccs(src, text)
    /\ r.ok => /\ acc.ok /\ acc.idx <= i - 1 /\ i - 1 <= Len(src)
               /\ r.idx = End(text, s, i) /\ Meets(src, text, s, i)
               /\ acc.out \o SubSeq(src, acc.idx + 1, i - 1) = UpTo(text, s, i - 1)
                     => r.out = UpTo(text, s, End(text, s, i))

\* A hunk shows the lines of its text up to its end.
LEMMA HunkBody ==
    ASSUME NEW text, NEW s, NEW i
    PROVE  Hunk(text, s, i) = [start |-> i, body |-> Shown(text, s, i, End(text, s, i))]
  BY DEF Hunk, Shown

\* That is so for every hunk, and for whatever was applied before it.
LEMMA HunkApplied ==
    ASSUME NEW src \in Seq(Words), NEW text \in Seq(Words), NEW s \in Scripts(text), NEW i \in 1..Len(text),
           Near(text, s, i), NEW acc \in CarryingAccs(src, text)
    PROVE  HunkIs(src, text, s, i, acc, ApplyHunk(src, acc, Hunk(text, s, i)))
<1>1. PICK e : e = End(text, s, i) /\ e \in i..Len(text)
  <2>1. Len(text) \in Nat /\ DOMAIN text = 1..Len(text)
    OBVIOUS
  <2>2. End(text, s, i) \in i..Len(text)
    BY <2>1, EndIs
  <2> QED BY <2>2
<1>2. PICK h \in HunksOf(text) : h = Hunk(text, s, i) /\ h.start = i /\ h.body = Shown(text, s, i, e)
  <2>1. Hunk(text, s, i) \in HunksOf(text)
    BY HunkTyped
  <2> QED BY <1>1, <2>1, HunkBody
<1>3. PICK r : r = ApplyHunk(src, acc, h)
  OBVIOUS
<1>4. r \in CarryingAccs(src, text)
  BY <1>3, HunkCarries DEF CarryingAccs
<1>5. /\ acc.ok \in BOOLEAN /\ acc.idx \in Nat /\ acc.out \in Seq(Words) /\ DOMAIN acc = {"ok", "idx", "out"}
      /\ Len(src) \in Nat
  BY DEF Accs, CarryingAccs
<1>6. CASE ~acc.ok \/ h.start - 1 < acc.idx \/ h.start - 1 > Len(src)
  <2>1. r = [acc EXCEPT !.ok = FALSE]
    BY <1>3, <1>6, Zenon DEF ApplyHunk
  <2>2. ~r.ok
    BY <1>5, <2>1
  <2> QED BY <1>2, <1>3, <1>4, <2>2 DEF HunkIs
<1>7. CASE acc.ok /\ ~(h.start - 1 < acc.idx) /\ ~(h.start - 1 > Len(src))
  <2>1. PICK to, out : to \in Nat /\ to = h.start - 1 /\ to = i - 1 /\ out = acc.out \o SubSeq(src, acc.idx + 1, to)
    <3>1. h.start - 1 = i - 1 /\ i - 1 \in Nat
      BY <1>2
    <3> QED BY <3>1
  <2>2. acc.idx <= to /\ to <= Len(src)
    BY <1>5, <1>7, <2>1
  <2>3. out \in Seq(Words) /\ \A k \in 1..to : src[k] \in ToSet(text) \cup ToSet(out)
    BY <1>7, <2>1, <2>2, CopyCarries DEF CarryingAccs
  <2>4. PICK base : base = [ok |-> TRUE, idx |-> to, out |-> out]
    OBVIOUS
  <2>5. base.ok /\ base.idx = i - 1 /\ base.out = out /\ base \in CarryingAccs(src, text)
    <3>1. base \in Accs
      BY <2>1, <2>3, <2>4 DEF Accs
    <3>2. Carries(src, text, base)
      BY <2>2, <2>3, <2>4 DEF Carries
    <3> QED BY <2>1, <2>4, <3>1, <3>2 DEF CarryingAccs
  <2>6. r = LinesRun(src, base, h.body)
    BY <1>3, <1>7, <2>1, <2>4, ApplyHunkIs
  <2>7. RunIs(src, text, s, i, base, e)
    <3>1. e \in (i - 1)..Len(text)
      BY <1>1
    <3> QED BY <2>5, <3>1, RunAlong
  <2>8. r.ok => /\ r.idx = e /\ e <= Len(src) /\ \A k \in i..e : src[k] = text[k]
                /\ base.out = UpTo(text, s, i - 1) => r.out = UpTo(text, s, e)
    BY <1>2, <2>6, <2>7 DEF RunIs
  <2>9. HunkIs(src, text, s, i, acc, r)
    <3>1. acc.ok /\ acc.idx <= i - 1 /\ i - 1 <= Len(src)
      BY <1>7, <2>1, <2>2
    <3>2. r.ok => r.idx = End(text, s, i) /\ Meets(src, text, s, i)
      BY <1>1, <2>8 DEF Meets
    <3>3. r.ok /\ acc.out \o SubSeq(src, acc.idx + 1, i - 1) = UpTo(text, s, i - 1)
             => r.out = UpTo(text, s, End(text, s, i))
      BY <1>1, <2>1, <2>5, <2>8
    <3> QED BY <1>4, <3>1, <3>2, <3>3 DEF HunkIs
  <2> QED BY <1>2, <1>3, <2>9
<1> QED BY <1>5, <1>6, <1>7

\* As many lines are removed or compared as the hunk spans.
LEMMA OldSpans ==
    ASSUME NEW text \in Seq(Words), NEW s \in Scripts(text), NEW i \in 1..Len(text), Near(text, s, i)
    PROVE  i + Len(Old(Hunk(text, s, i))) - 1 = End(text, s, i)
<1>1. PICK e \in Nat : e = End(text, s, i) /\ e \in i..Len(text)
  <2>1. Len(text) \in Nat /\ DOMAIN text = 1..Len(text)
    OBVIOUS
  <2>2. End(text, s, i) \in i..Len(text)
    BY <2>1, EndIs
  <2> QED BY <2>1, <2>2
<1>2. Old(Hunk(text, s, i)) = Without("+", Shown(text, s, i, e))
  BY <1>1, HunkBody DEF Old
<1>3. PICK base : base = [ok |-> TRUE, idx |-> i - 1, out |-> text]
  OBVIOUS
<1>4. base \in CarryingAccs(text, text) /\ base.ok /\ base.idx = i - 1
  <2>1. base \in Accs
    BY <1>3 DEF Accs
  <2>2. \A k \in 1..(i - 1) : text[k] \in ToSet(text)
    BY DEF ToSet
  <2>3. Carries(text, text, base)
    BY <1>3, <2>2 DEF Carries
  <2> QED BY <1>3, <2>1, <2>3 DEF CarryingAccs
<1>5. RunIs(text, text, s, i, base, e)
  <2>1. e \in (i - 1)..Len(text)
    BY <1>1
  <2> QED BY <1>4, <2>1, RunAlong
<1>6. Len(Without("+", Shown(text, s, i, e))) = e - i + 1
  BY <1>5 DEF RunIs
<1> QED BY <1>1, <1>2, <1>6

\* The hunks come in the order of the text, and between them nothing changes.
Rank(F, i) == Cardinality({j \in F : j <= i})

\* A later line has a greater rank.
LEMMA RankIs ==
    ASSUME NEW n \in Nat, NEW F \in SUBSET (1..n), NEW a \in F
    PROVE  Rank(F, a) \in 1..Cardinality(F) /\ \A b \in F : a < b => Rank(F, a) < Rank(F, b)
<1>1. IsFiniteSet(F) /\ Cardinality(F) \in Nat
  BY CountUpTo
<1>2. ASSUME NEW b \in F PROVE IsFiniteSet({j \in F : j <= b}) /\ Rank(F, b) \in Nat /\ Rank(F, b) <= Cardinality(F)
  <2>1. {j \in F : j <= b} \subseteq F
    OBVIOUS
  <2>2. IsFiniteSet({j \in F : j <= b}) /\ Cardinality({j \in F : j <= b}) <= Cardinality(F)
    BY <1>1, <2>1, FS_Subset
  <2> QED BY <2>2, FS_CardinalityType DEF Rank
<1>3. Rank(F, a) # 0
  <2>1. a \in {j \in F : j <= a}
    OBVIOUS
  <2>2. {j \in F : j <= a} # {}
    BY <2>1
  <2> QED BY <1>2, <2>2, FS_EmptySet DEF Rank
<1>4. ASSUME NEW b \in F, a < b PROVE Rank(F, a) < Rank(F, b)
  <2>1. PICK A, B : A = {j \in F : j <= a} /\ B = {j \in F : j <= b}
    OBVIOUS
  <2>2. A \subseteq B /\ b \in B /\ b \notin A
    <3>1. a \in Nat /\ b \in Nat /\ \A j \in F : j \in Nat
      OBVIOUS
    <3>2. ASSUME NEW j \in F, j <= a PROVE j <= b
      BY <1>4, <3>1, <3>2
    <3>3. b <= b /\ ~ (b <= a)
      BY <1>4, <3>1
    <3> QED BY <2>1, <3>2, <3>3, Zenon
  <2>3. IsFiniteSet(B) /\ Cardinality(A) \in Nat /\ Cardinality(B) \in Nat
    BY <1>2, <2>1 DEF Rank
  <2>4. Cardinality(A) <= Cardinality(B) /\ (Cardinality(A) = Cardinality(B) => A = B)
    BY <2>2, <2>3, FS_Subset
  <2> QED BY <2>1, <2>2, <2>3, <2>4 DEF Rank
<1>5. Rank(F, a) \in 1..Cardinality(F)
  <2>1. Rank(F, a) \in Nat /\ Rank(F, a) <= Cardinality(F)
    BY <1>2
  <2> QED BY <1>1, <1>3, <2>1
<1> QED BY <1>4, <1>5

\* The last line of the k-th hunk.
EndOf(text, s, k) == IF k = 0 THEN 0 ELSE End(text, s, Nth(Firsts(text, s), k))

\* A line near a change that comes after the k-th hunk is not before the hunk after it.
LEMMA NextHunk ==
    ASSUME NEW text \in Seq(Words), NEW s, NEW k \in 0..Cardinality(Firsts(text, s)),
           NEW x \in 1..Len(text), x > EndOf(text, s, k), Near(text, s, x)
    PROVE  k + 1 \in 1..Cardinality(Firsts(text, s)) /\ Nth(Firsts(text, s), k + 1) <= x
<1> DEFINE F == Firsts(text, s)
           n == Len(text)
           e == EndOf(text, s, k)
           N == Cardinality(F)
<1>1. F \in SUBSET (1..n) /\ n \in Nat /\ N \in Nat /\ DOMAIN text = 1..n
  BY DiffIs
<1>2. k # 0 => Nth(F, k) \in F /\ Rank(F, Nth(F, k)) = k
  <2> SUFFICES ASSUME k # 0 PROVE Nth(F, k) \in F /\ Rank(F, Nth(F, k)) = k
    OBVIOUS
  <2>1. k \in 1..N
    BY <1>1
  <2> HIDE DEF F, n
  <2> QED BY <1>1, <2>1, NthIs DEF Rank
<1>3. /\ e \in 0..n /\ (k = 0 => e = 0)
      /\ k # 0 => Nth(F, k) <= e /\ (e = n \/ ~Near(text, s, e + 1))
  <2>1. CASE k = 0
    BY <1>1, <2>1 DEF EndOf
  <2>2. CASE k # 0
    <3>1. PICK i : i = Nth(F, k)
      OBVIOUS
    <3>2. i \in 1..n /\ Near(text, s, i) /\ e = End(text, s, i)
      BY <1>1, <1>2, <2>2, <3>1 DEF Firsts, EndOf
    <3>3. e \in i..n /\ (e = n \/ ~Near(text, s, e + 1))
      <4> HIDE DEF e, F, N
      <4>1. Len(text) = n
        OBVIOUS
      <4> HIDE DEF n
      <4> QED BY <1>1, <3>2, <4>1, EndIs
    <3> QED BY <1>1, <2>2, <3>1, <3>2, <3>3
  <2> QED BY <2>1, <2>2
<1> HIDE DEF e
<1>4. PICK y \in F : e < y /\ y <= x
  <2> DEFINE B == {z \in (e + 1)..x : Near(text, s, z)}
  <2>1. B \in SUBSET Nat /\ x \in B
    BY <1>3 DEF e
  <2>2. PICK y \in B : \A z \in B : y <= z
    <3> HIDE DEF B
    <3>1. B # {}
      BY <2>1
    <3> QED BY <2>1, <3>1, Least
  <2>3. y \in (e + 1)..x /\ Near(text, s, y) /\ y \in 1..n
    BY <1>3, <2>2
  <2>4. y = 1 \/ ~Near(text, s, y - 1)
    <3> SUFFICES ASSUME y # 1, Near(text, s, y - 1) PROVE FALSE
      OBVIOUS
    <3>1. CASE y = e + 1
      <4>1. y - 1 = e /\ e # 0 /\ k # 0
        BY <1>3, <2>3, <3>1
      <4>2. ~Near(text, s, y)
        <5>1. e # n
          <6>1. e + 1 <= n /\ e \in Nat /\ n \in Nat
            BY <1>3, <2>3, <3>1
          <6> HIDE DEF n
          <6> QED BY <6>1
        <5>2. ~Near(text, s, e + 1)
          BY <1>3, <4>1, <5>1
        <5> QED BY <3>1, <5>2
      <4> QED BY <2>3, <4>2
    <3>2. CASE y # e + 1
      <4>1. y - 1 \in B
        BY <1>3, <2>3, <3>2
      <4>2. y <= y - 1
        BY <2>2, <4>1
      <4> QED BY <1>3, <2>3, <4>2
    <3> QED BY <3>1, <3>2
  <2>5. y \in F
    BY <1>1, <2>3, <2>4 DEF Firsts
  <2> QED BY <1>3, <2>3, <2>5
<1>5. Rank(F, y) \in 1..N /\ \A b \in F : y < b => Rank(F, y) < Rank(F, b)
  <2> HIDE DEF F, n
  <2> QED BY <1>1, <1>4, RankIs
<1>6. k < Rank(F, y)
  <2>1. CASE k = 0
    BY <1>1, <1>5, <2>1
  <2>2. CASE k # 0
    <3>1. PICK i \in F : i = Nth(F, k) /\ Rank(F, i) = k /\ i < y
      <4>1. PICK i \in F : i = Nth(F, k) /\ Rank(F, i) = k /\ i <= e
        BY <1>2, <1>3, <2>2
      <4>2. i \in Nat /\ e \in Nat /\ y \in Nat
        <5>1. i \in 1..n /\ y \in 1..n
          BY <1>1, <4>1, Zenon
        <5>2. n \in Nat /\ e \in 0..n
          BY <1>1, <1>3
        <5> HIDE DEF n
        <5> QED BY <5>1, <5>2
      <4> QED BY <1>4, <4>1, <4>2
    <3>2. \A b \in F : i < b => Rank(F, i) < Rank(F, b)
      <4> HIDE DEF F, n
      <4> QED BY <1>1, <3>1, RankIs
    <3> QED BY <1>4, <3>1, <3>2
  <2> QED BY <2>1, <2>2
<1>7. k + 1 \in 1..N
  BY <1>1, <1>5, <1>6
<1>8. Nth(F, k + 1) \in F /\ Rank(F, Nth(F, k + 1)) = k + 1
  <2> HIDE DEF F, n
  <2> QED BY <1>1, <1>7, NthIs DEF Rank
<1>9. ~(y < Nth(F, k + 1))
  BY <1>1, <1>5, <1>6, <1>8
<1> QED BY <1>1, <1>4, <1>7, <1>8, <1>9

\* Part of a text, and the same with one more line.
LEMMA PartGrows ==
    ASSUME NEW t \in Seq(Words), NEW j \in 1..Len(t), NEW i \in 1..j
    PROVE  SubSeq(t, i, j) = Append(SubSeq(t, i, j - 1), t[j])
<1>1. PICK n \in Nat : n = j - i /\ j - 1 - i + 1 = n /\ j - i + 1 = n + 1 /\ i + n = j
  BY Len(t) \in Nat
<1>2. PICK b : b = SubSeq(t, i, j - 1)
  OBVIOUS
<1>3. b \in Seq(Words) /\ Len(b) = n /\ \A k \in 1..n : b[k] = t[i + k - 1]
  BY <1>1, <1>2
<1>4. PICK c : c = SubSeq(t, i, j)
  OBVIOUS
<1>5. c \in Seq(Words) /\ Len(c) = n + 1 /\ \A k \in 1..(n + 1) : c[k] = t[i + k - 1]
  BY <1>1, <1>4
<1>6. PICK w \in Words : w = t[j]
  <2>1. t[j] \in Words
    OBVIOUS
  <2> QED BY <2>1
<1>7. Append(b, w) \in Seq(Words) /\ Len(Append(b, w)) = n + 1
  BY <1>3, <1>6
<1>8. ASSUME NEW k \in 1..(n + 1) PROVE c[k] = Append(b, w)[k]
  <2>1. CASE k = n + 1
    <3>1. Append(b, w)[k] = w
      BY <1>3, <1>6, <2>1
    <3>2. i + k - 1 = j
      BY <1>1, <2>1
    <3> QED BY <1>5, <1>6, <3>1, <3>2
  <2>2. CASE k # n + 1
    <3>1. k \in 1..n
      BY <1>1, <2>2
    <3>2. Append(b, w)[k] = b[k]
      BY <1>3, <1>6, <3>1
    <3> QED BY <1>3, <1>5, <3>1, <3>2
  <2> QED BY <2>1, <2>2
<1>9. c = Append(b, w)
  BY <1>5, <1>7, <1>8
<1> QED BY <1>2, <1>4, <1>6, <1>9

\* Two texts, and one more line.
LEMMA JoinedAppend ==
    ASSUME NEW a \in Seq(Words), NEW b \in Seq(Words), NEW w \in Words
    PROVE  (a \o b) \o <<w>> = a \o Append(b, w)
<1>1. PICK c \in Seq(Words) : c = a \o b
  <2>1. a \o b \in Seq(Words)
    OBVIOUS
  <2> QED BY <2>1
<1>2. PICK d \in Seq(Words) : d = Append(b, w)
  <2>1. Append(b, w) \in Seq(Words)
    OBVIOUS
  <2> QED BY <2>1
<1>3. PICK m \in Nat, n \in Nat : m = Len(a) /\ n = Len(b)
  <2>1. Len(a) \in Nat /\ Len(b) \in Nat
    OBVIOUS
  <2> QED BY <2>1
<1>4. c \o <<w>> = Append(c, w)
  BY <1>1
<1>5. Len(c) = m + n /\ Len(d) = n + 1 /\ Append(c, w) \in Seq(Words) /\ Len(Append(c, w)) = m + n + 1
  BY <1>1, <1>2, <1>3
<1>6. PICK g \in Seq(Words) : g = a \o d
  <2>1. a \o d \in Seq(Words)
    OBVIOUS
  <2> QED BY <2>1
<1>7. Len(g) = m + n + 1
  BY <1>2, <1>3, <1>5, <1>6
<1>8. ASSUME NEW k \in 1..(m + n + 1) PROVE Append(c, w)[k] = g[k]
  <2>0. k <= m \/ (k > m /\ k <= m + n) \/ k = m + n + 1
    <3>1. m \in Nat /\ n \in Nat /\ k \in Nat /\ k <= m + n + 1
      OBVIOUS
    <3> QED BY <3>1
  <2>1. CASE k <= m
    <3>1. k \in 1..m /\ k \in 1..(m + n)
      BY <1>3, <2>1
    <3>2. Append(c, w)[k] = c[k] /\ c[k] = a[k] /\ g[k] = a[k]
      BY <1>1, <1>3, <1>5, <1>6, <3>1
    <3> QED BY <3>2
  <2>2. CASE k > m /\ k <= m + n
    <3>1. PICK q \in 1..n : k = m + q /\ k - m = q
      <4>1. k - m \in 1..n /\ k = m + (k - m)
        BY <1>3, <2>2
      <4> QED BY <4>1
    <3>2. Append(c, w)[k] = c[k] /\ c[k] = b[q]
      BY <1>1, <1>3, <1>5, <2>2, <3>1
    <3>3. g[k] = d[q] /\ d[q] = b[q]
      BY <1>2, <1>3, <1>5, <1>6, <2>2, <3>1
    <3> QED BY <3>2, <3>3
  <2>3. CASE k = m + n + 1
    <3>1. Append(c, w)[k] = w
      BY <1>5, <2>3
    <3>2. k - m = n + 1 /\ k > m /\ n + 1 \in 1..Len(d)
      BY <1>3, <1>5, <2>3
    <3>3. g[k] = d[n + 1]
      BY <1>2, <1>3, <1>5, <1>6, <1>7, <3>2
    <3>4. d[n + 1] = w
      BY <1>2, <1>3
    <3> QED BY <3>1, <3>3, <3>4
  <2> QED BY <2>0, <2>1, <2>2, <2>3
<1>9. Append(c, w) = g
  <2>1. PICK q \in Seq(Words), z \in Nat : q = Append(c, w) /\ z = m + n + 1
    <3>1. m + n + 1 \in Nat
      BY <1>3
    <3> QED BY <1>5, <3>1
  <2>2. Len(q) = z /\ Len(g) = z /\ \A k \in 1..z : q[k] = g[k]
    BY <1>5, <1>7, <1>8, <2>1
  <2>3. q = g
    BY <2>2
  <2> QED BY <2>1, <2>3
<1> QED BY <1>1, <1>2, <1>4, <1>6, <1>9

\* Where nothing changes, the rewritten text is the text.
KeepsOn(text, s, e, m) == UpTo(text, s, e) \o SubSeq(text, e + 1, m) = UpTo(text, s, m)

\* So it is for any number of lines.
LEMMA UpToKeeps ==
    ASSUME NEW text \in Seq(Words), NEW s \in Scripts(text), NEW e \in 0..Len(text), NEW to \in e..Len(text),
           \A x \in (e + 1)..to : s[x] = Keep
    PROVE  UpTo(text, s, e) \o SubSeq(text, e + 1, to) = UpTo(text, s, to)
<1> DEFINE T == {d \in Nat : e + d <= to => KeepsOn(text, s, e, e + d)}
<1>1. e \in Nat /\ to \in Nat /\ Len(text) \in Nat /\ to <= Len(text)
  OBVIOUS
<1>2. PICK u \in Seq(Words) : u = UpTo(text, s, e)
  BY UpToGrows
<1>3. 0 \in T
  <2>1. SubSeq(text, e + 1, e) = <<>>
    <3>1. PICK b \in Seq(Words) : b = SubSeq(text, e + 1, e) /\ Len(b) = 0
      <4>1. e \in Nat /\ e <= Len(text)
        BY <1>1
      <4>2. IsPart(text, e, e, SubSeq(text, e + 1, e))
        BY <4>1, e <= e, PartIs
      <4>3. e - e = 0
        BY <4>1
      <4> QED BY <4>2, <4>3 DEF IsPart
    <3> QED BY <3>1
  <2>2. u \o <<>> = u
    BY <1>2
  <2>3. KeepsOn(text, s, e, e)
    BY <1>2, <2>1, <2>2 DEF KeepsOn
  <2> QED BY <1>1, <2>3
<1>4. ASSUME NEW d \in Nat, d \in T PROVE d + 1 \in T
  <2> SUFFICES ASSUME e + (d + 1) <= to PROVE KeepsOn(text, s, e, e + (d + 1))
    OBVIOUS
  <2>1. PICK m \in Nat : m = e + d /\ m + 1 = e + (d + 1) /\ m + 1 \in (e + 1)..to
    <3>1. e + d \in Nat /\ (e + d) + 1 = e + (d + 1) /\ (e + d) + 1 \in (e + 1)..to
      BY <1>1
    <3> QED BY <3>1
  <2>2. UpTo(text, s, m) = u \o SubSeq(text, e + 1, m)
    <3>1. KeepsOn(text, s, e, m)
      BY <1>1, <1>4, <2>1
    <3> QED BY <1>2, <3>1 DEF KeepsOn
  <2>3. UpTo(text, s, m + 1) = UpTo(text, s, m) \o Piece(text, s, m + 1)
    <3>1. m \in 0..(Len(text) - 1)
      BY <1>1, <2>1
    <3> QED BY <3>1, UpToGrows
  <2>4. PICK w \in Words : w = text[m + 1]
    <3>1. m + 1 \in 1..Len(text)
      BY <1>1, <2>1
    <3> QED BY <3>1
  <2>5. Piece(text, s, m + 1) = <<text[m + 1]>>
    <3>1. ~s[m + 1].drop /\ s[m + 1].add = <<>>
      BY <2>1 DEF Keep
    <3>2. <<w>> \o <<>> = <<w>>
      BY <2>4
    <3> QED BY <2>4, <3>1, <3>2 DEF Piece
  <2>6. SubSeq(text, e + 1, m + 1) = Append(SubSeq(text, e + 1, m), text[m + 1])
    <3>1. e + 1 \in 1..(m + 1) /\ m + 1 \in 1..Len(text)
      BY <1>1, <2>1
    <3> QED BY <3>1, PartGrows
  <2>7. PICK b \in Seq(Words) : b = SubSeq(text, e + 1, m)
    <3>1. SubSeq(text, e + 1, m) \in Seq(Words)
      BY <1>1, <2>1
    <3> QED BY <3>1
  <2>8. (u \o b) \o <<w>> = u \o Append(b, w)
    BY <1>2, <2>7, <2>4, JoinedAppend
  <2>9. KeepsOn(text, s, e, m + 1)
    BY <1>2, <2>2, <2>3, <2>5, <2>6, <2>7, <2>4, <2>8 DEF KeepsOn
  <2> QED BY <2>1, <2>9
<1> HIDE DEF T
<1>5. Nat \subseteq T
  BY <1>3, <1>4, Induct
<1>6. PICK d \in Nat : e + d = to
  <2>1. to - e \in Nat /\ e + (to - e) = to
    BY <1>1
  <2> QED BY <2>1
<1>7. d \in T /\ e + d <= to
  BY <1>1, <1>5, <1>6
<1>8. KeepsOn(text, s, e, to)
  BY <1>6, <1>7 DEF T
<1> QED BY <1>8 DEF KeepsOn

\* A line that changes is near a change.
LEMMA ChangeIsNear ==
    ASSUME NEW text \in Seq(Words), NEW s \in Scripts(text), NEW x \in 1..Len(text), ~Near(text, s, x)
    PROVE  s[x] = Keep
<1> SUFFICES ASSUME s[x] # Keep PROVE FALSE
  OBVIOUS
<1>1. x \in DOMAIN text /\ x \in Nat /\ Context \in Nat \ {0}
  BY DeliveryAssumption
<1>2. x \in (x - Context + (IF s[x].drop THEN 0 ELSE 1))..(x + Context)
  BY <1>1
<1> QED BY <1>1, <1>2 DEF Near

\* The first k hunks of a diff, and what has become of a file once they are applied to it.
FirstHunks(text, s, k) == [j \in 1..k |-> Hunk(text, s, Nth(Firsts(text, s), j))]
Unread == [ok |-> TRUE, idx |-> 0, out |-> <<>>]
AreApplied(src, text, s, k, r) ==
    /\ r \in CarryingAccs(src, text)
    /\ r.ok => /\ r.idx = EndOf(text, s, k)
               /\ \A j \in 1..k : Meets(src, text, s, Nth(Firsts(text, s), j))
               /\ src = text => r.out = UpTo(text, s, r.idx)

\* The line at which a hunk begins is near a change.
LEMMA NthNear ==
    ASSUME NEW text \in Seq(Words), NEW s, NEW j \in 1..Cardinality(Firsts(text, s))
    PROVE  /\ Nth(Firsts(text, s), j) \in 1..Len(text)
           /\ Near(text, s, Nth(Firsts(text, s), j))
<1>1. PICK F, n : F = Firsts(text, s) /\ n = Len(text) /\ F \in SUBSET (1..n) /\ n \in Nat
  BY DiffIs
<1>2. Nth(F, j) \in F
  BY <1>1, NthIs
<1>3. \A i \in F : Near(text, s, i)
  BY <1>1 DEF Firsts
<1> QED BY <1>1, <1>2, <1>3

\* One more hunk meets its lines, and the lines between the two have not changed.
LEMMA OneMoreHunk ==
    ASSUME NEW src \in Seq(Words), NEW text \in Seq(Words), NEW s \in Scripts(text),
           NEW k \in Nat, k + 1 \in 1..Cardinality(Firsts(text, s)), NEW acc, AreApplied(src, text, s, k, acc)
    PROVE  AreApplied(src, text, s, k + 1, ApplyHunk(src, acc, Hunk(text, s, Nth(Firsts(text, s), k + 1))))
<1>1. PICK i \in 1..Len(text) : i = Nth(Firsts(text, s), k + 1) /\ Near(text, s, i)
  BY NthNear
<1>2. PICK r : r = ApplyHunk(src, acc, Hunk(text, s, i))
  OBVIOUS
<1>3. acc \in CarryingAccs(src, text) /\ acc.idx \in Nat
  BY DEF AreApplied, CarryingAccs, Accs
<1>4. HunkIs(src, text, s, i, acc, r)
  BY <1>1, <1>2, <1>3, HunkApplied
<1>5. EndOf(text, s, k + 1) = End(text, s, i)
  BY <1>1 DEF EndOf
<1>6. ASSUME r.ok PROVE /\ r.idx = EndOf(text, s, k + 1)
                        /\ \A j \in 1..(k + 1) : Meets(src, text, s, Nth(Firsts(text, s), j))
                        /\ src = text => r.out = UpTo(text, s, r.idx)
  <2>1. /\ acc.ok /\ acc.idx <= i - 1 /\ r.idx = End(text, s, i) /\ Meets(src, text, s, i)
        /\ acc.out \o SubSeq(src, acc.idx + 1, i - 1) = UpTo(text, s, i - 1) => r.out = UpTo(text, s, End(text, s, i))
    BY <1>4, <1>6 DEF HunkIs
  <2>2. /\ acc.idx = EndOf(text, s, k) /\ \A j \in 1..k : Meets(src, text, s, Nth(Firsts(text, s), j))
        /\ src = text => acc.out = UpTo(text, s, acc.idx)
    BY <2>1 DEF AreApplied
  <2>3. \A j \in 1..(k + 1) : j \in 1..k \/ j = k + 1
    OBVIOUS
  <2>4. ASSUME src = text PROVE r.out = UpTo(text, s, r.idx)
    <3>1. PICK e \in Nat, to \in Nat :
              e = acc.idx /\ to = i - 1 /\ e <= to /\ to + 1 = i /\ i <= Len(text) /\ to <= Len(text)
      <4>1. i \in Nat /\ i >= 1 /\ i <= Len(text) /\ Len(text) \in Nat
        OBVIOUS
      <4>2. i - 1 \in Nat /\ (i - 1) + 1 = i /\ i - 1 <= Len(text)
        BY <4>1
      <4> QED BY <1>3, <2>1, <4>1, <4>2
    <3>2. ASSUME NEW x \in (e + 1)..to PROVE s[x] = Keep
      <4>1. x \in 1..Len(text) /\ x > e /\ ~ (i <= x)
        <5>1. Len(text) \in Nat /\ x \in Nat /\ e + 1 <= x /\ x <= to
          BY <3>1
        <5> QED BY <3>1, <5>1
      <4>2. ~Near(text, s, x)
        <5> SUFFICES ASSUME Near(text, s, x) PROVE FALSE
          OBVIOUS
        <5>1. k \in 0..Cardinality(Firsts(text, s)) /\ x > EndOf(text, s, k)
          <6>1. Cardinality(Firsts(text, s)) \in Nat
            BY DiffIs
          <6> QED BY <2>2, <3>1, <4>1, <6>1
        <5>2. Nth(Firsts(text, s), k + 1) <= x
          BY <4>1, <5>1, NextHunk
        <5> QED BY <1>1, <4>1, <5>2
      <4> QED BY <4>1, <4>2, ChangeIsNear
    <3>3. UpTo(text, s, e) \o SubSeq(text, e + 1, to) = UpTo(text, s, to)
      <4>1. e \in 0..Len(text) /\ to \in e..Len(text)
        <5>1. Len(text) \in Nat
          OBVIOUS
        <5> QED BY <3>1, <5>1
      <4> QED BY <3>2, <4>1, UpToKeeps
    <3>4. acc.out \o SubSeq(src, acc.idx + 1, i - 1) = UpTo(text, s, i - 1)
      BY <2>2, <2>4, <3>1, <3>3
    <3> QED BY <2>1, <3>4
  <2> QED BY <1>1, <1>5, <2>1, <2>2, <2>3, <2>4
<1>7. r \in CarryingAccs(src, text)
  BY <1>4 DEF HunkIs
<1>8. AreApplied(src, text, s, k + 1, r)
  BY <1>6, <1>7 DEF AreApplied
<1> QED BY <1>1, <1>2, <1>8

\* The hunks meet their lines one after the other.
LEMMA FirstApplied ==
    ASSUME NEW src \in Seq(Words), NEW text \in Seq(Words), NEW s \in Scripts(text),
           NEW m \in 0..Cardinality(Firsts(text, s))
    PROVE  AreApplied(src, text, s, m, HunksRun(src, Unread, FirstHunks(text, s, m)))
<1> DEFINE T == {k \in Nat : k <= Cardinality(Firsts(text, s))
                                => AreApplied(src, text, s, k, HunksRun(src, Unread, FirstHunks(text, s, k)))}
<1>1. PICK N \in Nat : N = Cardinality(Firsts(text, s))
  BY DiffIs
<1>2. Unread \in CarryingAccs(src, text) /\ Unread.idx = 0 /\ Unread.out = <<>>
  <2>1. Unread \in Accs
    BY DEF Unread, Accs
  <2>2. Carries(src, text, Unread)
    BY DEF Unread, Carries
  <2> QED BY <2>1, <2>2 DEF CarryingAccs, Unread
<1>3. HunksFollow(src, Unread, CarryingAccs(src, text), HunksOf(text))
  <2>1. \A a \in CarryingAccs(src, text), h \in HunksOf(text) : ApplyHunk(src, a, h) \in CarryingAccs(src, text)
    BY HunkCarries DEF CarryingAccs
  <2> QED BY <1>2, <2>1, HunksFold
<1>4. 0 \in T
  <2>1. FirstHunks(text, s, 0) = <<>>
    BY DEF FirstHunks
  <2>2. HunksRun(src, Unread, <<>>) = Unread
    BY <1>3 DEF HunksFollow
  <2>3. UpTo(text, s, 0) = <<>>
    BY UpToGrows
  <2>4. EndOf(text, s, 0) = 0 /\ \A j \in 1..0 : FALSE
    BY DEF EndOf
  <2>5. AreApplied(src, text, s, 0, Unread)
    BY <1>2, <2>3, <2>4 DEF AreApplied
  <2> QED BY <2>1, <2>2, <2>5
<1>5. ASSUME NEW k \in Nat, k \in T PROVE k + 1 \in T
  <2> SUFFICES ASSUME k + 1 <= N
               PROVE  AreApplied(src, text, s, k + 1, HunksRun(src, Unread, FirstHunks(text, s, k + 1)))
    BY <1>1
  <2>1. k <= N /\ k + 1 \in 1..N
    BY <1>1
  <2>2. PICK acc : acc = HunksRun(src, Unread, FirstHunks(text, s, k)) /\ AreApplied(src, text, s, k, acc)
    BY <1>1, <1>5, <2>1
  <2>3. PICK f : f = FirstHunks(text, s, N)
    OBVIOUS
  <2>4. \A j \in 1..N : f[j] = Hunk(text, s, Nth(Firsts(text, s), j)) /\ f[j] \in HunksOf(text)
    <3>1. ASSUME NEW j \in 1..N PROVE f[j] = Hunk(text, s, Nth(Firsts(text, s), j)) /\ f[j] \in HunksOf(text)
      <4>1. f[j] = Hunk(text, s, Nth(Firsts(text, s), j))
        BY <2>3 DEF FirstHunks
      <4>2. PICK i \in 1..Len(text) : i = Nth(Firsts(text, s), j) /\ Near(text, s, i)
        BY <1>1, NthNear
      <4>3. Hunk(text, s, i) \in HunksOf(text)
        BY <4>2, HunkTyped
      <4> QED BY <4>1, <4>2, <4>3
    <3> QED BY <3>1
  <2>5. ASSUME NEW q \in Nat, q <= N PROVE FirstHunks(text, s, q) = [j \in 1..q |-> f[j]]
    <3>1. \A j \in 1..q : j \in 1..N
      BY <2>5
    <3> QED BY <2>4, <3>1 DEF FirstHunks
  <2>6. GoesOn(HunksOf(text), k, f)
    <3>1. \A j \in 1..(k + 1) : j \in 1..N
      BY <2>1
    <3>2. \A j \in 1..(k + 1) : f[j] \in HunksOf(text)
      BY <2>4, <3>1
    <3> QED BY <3>2, OneFurther
  <2>7. /\ FirstHunks(text, s, k) \in Seq(HunksOf(text)) /\ f[k + 1] \in HunksOf(text)
        /\ FirstHunks(text, s, k + 1) = Append(FirstHunks(text, s, k), f[k + 1])
    <3>1. FirstHunks(text, s, k) = [j \in 1..k |-> f[j]] /\ FirstHunks(text, s, k + 1) = [j \in 1..(k + 1) |-> f[j]]
      BY <2>1, <2>5
    <3> QED BY <2>1, <2>4, <2>6, <3>1 DEF GoesOn
  <2>8. HunksRun(src, Unread, FirstHunks(text, s, k + 1)) = ApplyHunk(src, acc, f[k + 1])
    BY <1>3, <2>2, <2>7 DEF HunksFollow
  <2>9. f[k + 1] = Hunk(text, s, Nth(Firsts(text, s), k + 1))
    BY <2>1, <2>4
  <2>10. AreApplied(src, text, s, k + 1, ApplyHunk(src, acc, Hunk(text, s, Nth(Firsts(text, s), k + 1))))
    BY <1>1, <2>1, <2>2, OneMoreHunk
  <2> QED BY <2>8, <2>9, <2>10
<1> HIDE DEF T
<1>6. m \in T /\ m <= Cardinality(Firsts(text, s))
  <2>1. Nat \subseteq T
    BY <1>4, <1>5, Induct
  <2> QED BY <1>1, <2>1
<1> QED BY <1>6 DEF T

\* A diff makes of the text that it was made for the rewritten one, and applies
\* to no file that has not all the lines of its hunks where they were.
LEMMA DiffIsExact ==
    ASSUME NEW src \in Seq(Words), NEW text \in Seq(Words), NEW s \in Scripts(text),
           NEW after \in ApplyHunks(src, UnifiedDiff(text, s))
    PROVE  /\ src = text => after = Rewritten(text, s)
           /\ \A j \in 1..Cardinality(Firsts(text, s)) : Meets(src, text, s, Nth(Firsts(text, s), j))
<1>1. PICK N \in Nat : N = Cardinality(Firsts(text, s))
  BY DiffIs
<1>2. UnifiedDiff(text, s) = FirstHunks(text, s, N)
  BY <1>1 DEF UnifiedDiff, FirstHunks, Nth
<1>3. PICK r : /\ r = HunksRun(src, Unread, UnifiedDiff(text, s)) /\ r.ok
               /\ after = r.out \o SubSeq(src, r.idx + 1, Len(src))
  BY ApplyHunksIs DEF Unread
<1>4. AreApplied(src, text, s, N, r)
  <2>1. N \in 0..Cardinality(Firsts(text, s))
    BY <1>1
  <2> QED BY <1>2, <1>3, <2>1, FirstApplied
<1>5. /\ r.idx = EndOf(text, s, N) /\ r.idx \in Nat /\ r.idx <= Len(src)
      /\ \A j \in 1..N : Meets(src, text, s, Nth(Firsts(text, s), j))
      /\ src = text => r.out = UpTo(text, s, r.idx)
  BY <1>3, <1>4 DEF AreApplied, CarryingAccs, Carries, Accs
<1>6. ASSUME src = text PROVE after = Rewritten(text, s)
  <2>1. PICK e \in Nat, n \in Nat : e = r.idx /\ n = Len(text) /\ e <= n
    <3>1. Len(text) \in Nat
      OBVIOUS
    <3> QED BY <1>5, <1>6, <3>1
  <2>2. ASSUME NEW x \in (e + 1)..n PROVE s[x] = Keep
    <3>1. x \in 1..Len(text) /\ x > e
      BY <2>1
    <3>2. ~Near(text, s, x)
      <4> SUFFICES ASSUME Near(text, s, x) PROVE FALSE
        OBVIOUS
      <4>1. N \in 0..Cardinality(Firsts(text, s)) /\ x > EndOf(text, s, N)
        BY <1>1, <1>5, <2>1, <3>1
      <4>2. N + 1 \in 1..Cardinality(Firsts(text, s))
        BY <3>1, <4>1, NextHunk
      <4> QED BY <1>1, <4>2
    <3> QED BY <3>1, <3>2, ChangeIsNear
  <2>3. UpTo(text, s, e) \o SubSeq(text, e + 1, n) = UpTo(text, s, n)
    <3>1. e \in 0..Len(text) /\ n \in e..Len(text)
      BY <2>1
    <3> QED BY <2>1, <2>2, <3>1, UpToKeeps
  <2>4. UpTo(text, s, n) = Rewritten(text, s)
    BY <2>1, UpToGrows
  <2> QED BY <1>3, <1>5, <1>6, <2>1, <2>3, <2>4
<1> QED BY <1>1, <1>5, <1>6

\* Hunks without anything like a header are parsed as they were written.
LEMMA ParsedAsWritten ==
    ASSUME NEW text, NEW diff \in Seq(HunksOf(text)),
           \A k \in DOMAIN diff : \A j \in DOMAIN diff[k].body : ~Header(diff[k].body[j])
    PROVE  ParseHunks(diff) = diff
<1> DEFINE Kept(b) == {i \in DOMAIN b : \A j \in 1..i : ~Header(b[j])}
           Cut(h) == [h EXCEPT !.body = SubSeq(h.body, 1, Cardinality(Kept(h.body)))]
<1>1. ParseHunks(diff) = [k \in DOMAIN diff |-> Cut(diff[k])]
  BY DEF ParseHunks
<1>2. ASSUME NEW k \in DOMAIN diff PROVE Cut(diff[k]) = diff[k]
  <2>1. PICK h : h = diff[k] /\ h \in [start : Nat \ {0}, body : Seq(LinesOf(text))]
    <3>1. diff[k] \in HunksOf(text)
      OBVIOUS
    <3> QED BY <3>1 DEF HunksOf
  <2>2. PICK b \in Seq(LinesOf(text)), n \in Nat : b = h.body /\ n = Len(b) /\ DOMAIN b = 1..n
    <3>1. h.body \in Seq(LinesOf(text)) /\ Len(h.body) \in Nat /\ DOMAIN h.body = 1..Len(h.body)
      BY <2>1
    <3> QED BY <3>1
  <2>3. Kept(b) = 1..n
    <3>1. \A i \in 1..n : \A j \in 1..i : j \in 1..n
      BY <2>2
    <3>2. \A j \in 1..n : ~Header(b[j])
      BY <2>1, <2>2
    <3> QED BY <2>2, <3>1, <3>2
  <2> HIDE DEF Kept
  <2>4. Cardinality(Kept(b)) = n
    BY <2>2, <2>3, FS_Interval
  <2>5. SubSeq(b, 1, n) = b
    BY <2>2
  <2>6. [h EXCEPT !.body = b] = h
    BY <2>1, <2>2
  <2> QED BY <2>1, <2>2, <2>4, <2>5, <2>6
<1> HIDE DEF Cut
<1>3. [k \in DOMAIN diff |-> Cut(diff[k])] = [k \in DOMAIN diff |-> diff[k]]
  BY <1>2
<1>4. [k \in DOMAIN diff |-> diff[k]] = diff
  OBVIOUS
<1> QED BY <1>1, <1>3, <1>4

\* A file has the lines a hunk compares or removes where they were in the text.
FoundThere(src, text, h) ==
    LET i == h.start
        n == Len(Old(h))
    IN i + n - 1 <= Len(src) /\ SubSeq(src, i, i + n - 1) = SubSeq(text, i, i + n - 1)

\* A hunk that meets its lines finds them there.
LEMMA MeetsThere ==
    ASSUME NEW src \in Seq(Words), NEW text \in Seq(Words), NEW s \in Scripts(text), NEW i \in 1..Len(text),
           Near(text, s, i), Meets(src, text, s, i)
    PROVE  FoundThere(src, text, Hunk(text, s, i))
<1>0. PICK n, h : n \in Nat /\ h = Hunk(text, s, i) /\ n = Len(Old(h))
  <2>1. Old(Hunk(text, s, i)) \in Seq(Words)
    BY HunkTyped, WithoutTyped
  <2>2. PICK h : h = Hunk(text, s, i)
    OBVIOUS
  <2>3. PICK n \in Nat : n = Len(Old(h))
    <3>1. Len(Old(h)) \in Nat
      BY <2>1, <2>2
    <3> QED BY <3>1
  <2> QED BY <2>2, <2>3
<1>1. PICK e \in Nat : e = End(text, s, i) /\ e \in i..Len(text) /\ i + n - 1 = e
  <2>1. Len(text) \in Nat /\ DOMAIN text = 1..Len(text)
    OBVIOUS
  <2>2. End(text, s, i) \in i..Len(text)
    BY <2>1, EndIs
  <2>3. i + n - 1 = End(text, s, i)
    BY <1>0, OldSpans
  <2>4. End(text, s, i) \in Nat
    BY <2>1, <2>2
  <2> QED BY <2>2, <2>3, <2>4
<1>2. e <= Len(src) /\ \A k \in i..e : src[k] = text[k]
  BY <1>1 DEF Meets
<1>3. PICK m \in Nat : i = m + 1 /\ m <= e
  <2>1. i - 1 \in Nat /\ i = (i - 1) + 1 /\ i - 1 <= e
    BY <1>1
  <2> QED BY <2>1
<1>4. PICK a \in Seq(Words), b \in Seq(Words) : a = SubSeq(src, m + 1, e) /\ b = SubSeq(text, m + 1, e)
  <2>1. SubSeq(src, m + 1, e) \in Seq(Words) /\ SubSeq(text, m + 1, e) \in Seq(Words)
    BY <1>1, <1>2
  <2> QED BY <2>1
<1>5. IsPart(src, m, e, a) /\ IsPart(text, m, e, b)
  <2>1. e <= Len(text)
    BY <1>1
  <2> QED BY <1>2, <1>3, <1>4, <2>1, PartIs
<1>6. Len(a) = e - m /\ Len(b) = e - m /\ e - m \in Nat
  BY <1>3, <1>5 DEF IsPart
<1>7. ASSUME NEW k \in 1..(e - m) PROVE a[k] = b[k]
  <2>1. m + k \in i..e
    BY <1>3
  <2>2. a[k] = src[m + k] /\ b[k] = text[m + k]
    BY <1>5 DEF IsPart
  <2> QED BY <1>2, <2>1, <2>2
<1>8. a = b
  BY <1>6, <1>7
<1>9. i + n - 1 <= Len(src) /\ SubSeq(src, i, i + n - 1) = SubSeq(text, i, i + n - 1)
  BY <1>1, <1>2, <1>3, <1>4, <1>8
<1>10. h.start = i
  BY <1>0 DEF Hunk
<1>11. FoundThere(src, text, h)
  BY <1>0, <1>9, <1>10 DEF FoundThere
<1> QED BY <1>0, <1>11

\* Each delivery of a diff without anything like a header is exact.
LEMMA DeliveryExact == DeliveryInv => HunksAreExact
<1> SUFFICES ASSUME DeliveryInv, ~Misread
             PROVE  /\ \A k \in DOMAIN delivered :
                          delivered[k][1] # "patch" /\ delivered[k][2] = fix.shown => delivered[k][3] = fix.goal
                    /\ \A k \in DOMAIN delivered : delivered[k][1] # "patch" => \A j \in DOMAIN fix.hunks :
                          LET i == fix.hunks[j].start
                              n == Len(Old(fix.hunks[j]))
                          IN i + n - 1 <= Len(delivered[k][2])
                             /\ SubSeq(delivered[k][2], i, i + n - 1) = SubSeq(fix.shown, i, i + n - 1)
  BY DEF HunksAreExact, AppliedAsWritten, StaleIsRefused
<1>1. PICK S : delivered \in Seq(S)
  BY DEF DeliveryInv, FixInv
<1> SUFFICES ASSUME NEW k \in DOMAIN delivered, delivered[k][1] # "patch"
             PROVE  /\ delivered[k][2] = fix.shown => delivered[k][3] = fix.goal
                    /\ \A j \in DOMAIN fix.hunks :
                          LET i == fix.hunks[j].start
                              n == Len(Old(fix.hunks[j]))
                          IN i + n - 1 <= Len(delivered[k][2])
                             /\ SubSeq(delivered[k][2], i, i + n - 1) = SubSeq(fix.shown, i, i + n - 1)
  OBVIOUS
<1>2. k \in 1..Len(delivered) /\ Len(delivered) # 0
  BY <1>1
<1>3. Came(delivered[k], fix.hunks) /\ fix.shown \in Seq(Words)
  BY <1>2 DEF DeliveryInv
<1>4. Written(fix.shown, fix.hunks, fix.goal)
  BY <1>2 DEF DeliveryInv, FixInv
<1>5. PICK text, diff : text \in Seq(Words) /\ text = fix.shown /\ diff = fix.hunks
  BY <1>3
<1>6. PICK s \in Scripts(text) : diff = UnifiedDiff(text, s) /\ fix.goal = Rewritten(text, s)
  BY <1>4, <1>5 DEF Written
<1>7. PICK src, after :
          /\ src \in Seq(Words) /\ src = delivered[k][2] /\ after = delivered[k][3]
          /\ after \in ApplyHunks(src, ParseHunks(diff))
  BY <1>3, <1>5 DEF Came
<1>8. ParseHunks(diff) = diff
  <2>1. diff \in Seq(HunksOf(text))
    BY <1>5, <1>6, DiffTyped
  <2>2. \A h \in DOMAIN diff : \A j \in DOMAIN diff[h].body : ~Header(diff[h].body[j])
    BY <1>5 DEF Misread
  <2> QED BY <2>1, <2>2, ParsedAsWritten
<1>9. /\ src = text => after = Rewritten(text, s)
      /\ \A j \in 1..Cardinality(Firsts(text, s)) : Meets(src, text, s, Nth(Firsts(text, s), j))
  BY <1>5, <1>6, <1>7, <1>8, DiffIsExact
<1>10. ASSUME NEW j \in DOMAIN diff PROVE FoundThere(src, text, diff[j])
  <2>1. j \in 1..Cardinality(Firsts(text, s)) /\ diff[j] = Hunk(text, s, Nth(Firsts(text, s), j))
    BY <1>5, <1>6, DiffIs
  <2>2. PICK p \in 1..Len(text) : p = Nth(Firsts(text, s), j) /\ Near(text, s, p)
    BY <1>5, <2>1, NthNear
  <2>3. diff[j] = Hunk(text, s, p) /\ Meets(src, text, s, p)
    BY <1>9, <2>1, <2>2
  <2> QED BY <1>5, <1>7, <2>2, <2>3, MeetsThere
<1>11. \A j \in DOMAIN diff :
          LET i == diff[j].start
              n == Len(Old(diff[j]))
          IN i + n - 1 <= Len(src) /\ SubSeq(src, i, i + n - 1) = SubSeq(text, i, i + n - 1)
  BY <1>10 DEF FoundThere
<1> QED BY <1>5, <1>6, <1>7, <1>9, <1>11

\* What parse_hunks() and apply_hunks() apply is what was written, and they
\* apply it to nothing else.
THEOREM HunksApplyExactly == FixingSpec => []HunksAreExact
BY FixingImplements, DeliveryStarts, DeliveryKept, DeliveryExact, PTL DEF FixSpec

=============================================================================
