------------------------- MODULE BehaviouralTriggers -------------------------
(***************************************************************************)
(* rca/pipeline.py, trigger_*(): what becomes of a detector's signal.  A   *)
(* detached task per signal finds or creates the incident of its           *)
(* fingerprint (atomic, under the lock that Dedup is about), locates the   *)
(* code, asks a template or an LLM for a fix and records it, while the     *)
(* dashboard finishes incidents and the demo is reset.                     *)
(***************************************************************************)
EXTENDS Naturals, FiniteSets, TLC

CONSTANTS
    Signals,    \* name -> [class, w, source, tool, run, site], one detection each;
                \* the run of a ping-pong stands for its agents, too
    Tasks,      \* the tasks of one behaviour: 1..n
    Cases,      \* the detections that are explored together: task -> name
    Default,    \* the workspace of the watchdog
    None,
    OptIn       \* the workspace setting pr_low_confidence

Classes == {"anomaly", "corruption", "cost_spike", "retry_storm", "binding_drop", "pingpong",
            "overflow", "stuck", "injection", "hallucination", "wrong_tool", "cascade", "generic"}

ASSUME TriggersAssumption ==
    /\ IsFiniteSet(Tasks) /\ None \notin Tasks
    /\ \A c \in Cases : \A n \in Tasks : Signals[c[n]].class \in Classes

\* What tells the trigger functions apart: the fingerprint, and whether a
\* template is tried before the LLM.  That of a runaway loop is made from its
\* message, which names the call and not the source.
TriggerAnomaly(s) == [fp |-> <<"loop", s.tool>>, templated |-> TRUE]
TriggerCorruption(s) == [fp |-> <<"corruption", s.source, s.tool>>, templated |-> TRUE]
TriggerCostSpike(s) == [fp |-> <<"cost_spike", s.source>>, templated |-> TRUE]
TriggerRetryStorm(s) == [fp |-> <<"retry_storm", s.source, s.tool>>, templated |-> TRUE]
TriggerBindingDrop(s) == [fp |-> <<"binding_drop", s.source>>, templated |-> TRUE]
TriggerPingpong(s) == [fp |-> <<"pingpong", s.run>>, templated |-> TRUE]
\* Mutant: the body is a copy of trigger_cost_spike, and so is its key.
TriggerOverflowCopied(s) == [fp |-> <<"cost_spike", s.source>>, templated |-> TRUE]
TriggerOverflow(s) == [fp |-> <<"overflow", s.source>>, templated |-> TRUE]
TriggerStuck(s) == [fp |-> <<"stuck", s.source, s.site>>, templated |-> TRUE]
TriggerInjection(s) == [fp |-> <<"injection", s.source, s.tool>>, templated |-> FALSE]
TriggerHallucination(s) == [fp |-> <<"hallucination", s.source, s.tool>>, templated |-> FALSE]
TriggerWrongTool(s) == [fp |-> <<"wrong_tool", s.source, s.tool>>, templated |-> FALSE]
TriggerCascade(s) == [fp |-> <<"cascade", s.run>>, templated |-> FALSE]
TriggerGeneric(s) == [fp |-> <<"anomaly", s.source>>, templated |-> FALSE]

VARIABLES
    case,       \* the detection each task was spawned for
    pc,         \* task -> "quiet", "spawned", "created", "located", "done" or "raised"
    found,      \* task -> the incident its task created or ran into
    status,     \* incident -> "absent", "open", "patched", "low" or "final"
    gone,       \* task -> its last update_incident returned None
    table,      \* <<workspace, fingerprint>> -> incident, or None
    hits,       \* incident -> hit_count
    sites,      \* _sites_seen: <<source, class>> -> code sites
    scope,      \* incident -> fix_scope, or None
    opened,     \* incidents whose automatic PR was scheduled
    guards,     \* history: those of them that a guard was opened for since the last reset
    deleted     \* history: incidents a reset deleted

triggerVars == <<case, pc, found, status, gone, table, hits, sites, scope, opened, guards, deleted>>
fixing == <<sites, scope, opened, guards>>

\* An incident is named after the task that created it.
Detection(n) == Signals[case[n]]

Trigger(n) ==
    LET s == Detection(n) IN
    CASE s.class = "anomaly" -> TriggerAnomaly(s)
      [] s.class = "corruption" -> TriggerCorruption(s)
      [] s.class = "cost_spike" -> TriggerCostSpike(s)
      [] s.class = "retry_storm" -> TriggerRetryStorm(s)
      [] s.class = "binding_drop" -> TriggerBindingDrop(s)
      [] s.class = "pingpong" -> TriggerPingpong(s)
      [] s.class = "overflow" -> TriggerOverflow(s)
      [] s.class = "stuck" -> TriggerStuck(s)
      [] s.class = "injection" -> TriggerInjection(s)
      [] s.class = "hallucination" -> TriggerHallucination(s)
      [] s.class = "wrong_tool" -> TriggerWrongTool(s)
      [] s.class = "cascade" -> TriggerCascade(s)
      [] s.class = "generic" -> TriggerGeneric(s)

\* _spawn keeps the workspace of the request; the watchdog's plain task has
\* the workspace of the server.
Home(n) == IF Detection(n).class = "stuck" THEN Default ELSE Detection(n).w
Key(n) == <<Home(n), Trigger(n).fp>>

Pairs == {<<Detection(n).source, Detection(n).class>> : n \in Tasks}

TriggersInit ==
    /\ case \in Cases
    /\ pc = [n \in Tasks |-> "quiet"]
    /\ found = [n \in Tasks |-> None]
    /\ status = [n \in Tasks |-> "absent"]
    /\ gone = [n \in Tasks |-> FALSE]
    /\ table = [k \in {Key(n) : n \in Tasks} |-> None]
    /\ hits = [n \in Tasks |-> 0]
    /\ sites = [p \in Pairs |-> {}]
    /\ scope = [n \in Tasks |-> None]
    /\ opened = {} /\ guards = {} /\ deleted = {}

Goto(n, from, to) == pc[n] = from /\ pc' = [pc EXCEPT ![n] = to]

Spawn(n) ==
    /\ Goto(n, "quiet", "spawned")
    /\ UNCHANGED <<case, found, status, gone, table, hits, deleted, fixing>>

\* _dedup_bump finds a live incident of the fingerprint: its hit_count rises.
Bump(n) ==
    /\ Goto(n, "spawned", "done")
    /\ table[Key(n)] # None
    /\ status[table[Key(n)]] \notin {"absent", "final"}
    /\ hits' = [hits EXCEPT ![table[Key(n)]] = @ + 1]
    /\ found' = [found EXCEPT ![n] = table[Key(n)]]
    /\ UNCHANGED <<case, status, gone, table, deleted, fixing>>

\* Mutant: an incident is created only once its code is located.
SurfaceLocated(n) ==
    /\ Goto(n, "spawned", IF Detection(n).site = None THEN "done" ELSE "created")
    /\ table[Key(n)] # None => status[table[Key(n)]] \in {"absent", "final"}
    /\ status' = [status EXCEPT ![n] = IF Detection(n).site = None THEN @ ELSE "open"]
    /\ table' = [table EXCEPT ![Key(n)] = n]
    /\ hits' = [hits EXCEPT ![n] = 1]
    /\ found' = [found EXCEPT ![n] = IF Detection(n).site = None THEN @ ELSE n]
    /\ UNCHANGED <<case, gone, deleted, fixing>>

\* Otherwise save_incident and dedup_set.
Surface(n) ==
    /\ Goto(n, "spawned", "created")
    /\ table[Key(n)] # None => status[table[Key(n)]] \in {"absent", "final"}
    /\ status' = [status EXCEPT ![n] = "open"]
    /\ table' = [table EXCEPT ![Key(n)] = n]
    /\ hits' = [hits EXCEPT ![n] = 1]
    /\ found' = [found EXCEPT ![n] = n]
    /\ UNCHANGED <<case, gone, deleted, fixing>>

\* The code cannot be found, or neither a template nor the LLM has a fix.
NoFix(n) ==
    /\ \/ Goto(n, "created", "done")
       \/ Goto(n, "located", "done")
    /\ UNCHANGED <<case, found, status, gone, table, hits, deleted, fixing>>

\* update_incident with the location returns None for an incident that was
\* deleted; only trigger_anomaly looks into it at once, and only if the
\* source came from the local disk (_attach_repo_from_settings).
Locate(n) ==
    /\ Detection(n).site # None
    /\ gone' = [gone EXCEPT ![n] = status[n] = "absent"]
    /\ \/ Goto(n, "created", "located")
       \/ gone'[n] /\ Detection(n).class = "anomaly" /\ Goto(n, "created", "raised")
    /\ UNCHANGED <<case, found, status, table, hits, deleted, fixing>>

\* Mutant: the method is recorded as the scope.
FixScopeMethod(n, method) == IF method = "llm" THEN method ELSE "guard"
\* Mutant: every incident has a spread of its own.
FixScopePerIncident(n, method) == IF method = "llm" THEN "structural" ELSE "guard"

\* A template's fix at the only site this failure was seen at is a "guard".
FixScope(n, method) ==
    LET seen == sites[<<Detection(n).source, Detection(n).class>>] \cup {Detection(n).site} IN
    IF method = "llm" \/ Cardinality(seen) > 1 THEN "structural" ELSE "guard"

\* _finalize_patch.  The incident it was given is read for its source, and
\* the one that update_incident returns for its status.
FinalizePatch(n, method, to) ==
    /\ pc[n] = "located"
    /\ method = "llm" \/ Trigger(n).templated
    /\ LET pair == <<Detection(n).source, Detection(n).class>>
           s == FixScope(n, method)
           kept == ~ gone[n] /\ status[n] # "absent"
       IN
        /\ sites' = IF gone[n] THEN sites ELSE [sites EXCEPT ![pair] = @ \cup {Detection(n).site}]
        /\ pc' = [pc EXCEPT ![n] = IF kept THEN "done" ELSE "raised"]
        /\ status' = IF kept THEN [status EXCEPT ![n] = to] ELSE status
        /\ scope' = IF kept THEN [scope EXCEPT ![n] = s] ELSE scope
        /\ guards' = IF kept /\ to = "patched" /\ s = "guard" THEN guards \cup {n} ELSE guards
        /\ opened' = IF kept /\ (IF to = "patched" THEN s = "guard" ELSE OptIn)
                     THEN opened \cup {n} ELSE opened
    /\ UNCHANGED <<case, found, gone, table, hits, deleted>>

\* A person approves, resolves or dismisses the incident.
Finish(n) ==
    /\ status[n] \in {"open", "patched", "low"}
    /\ status' = [status EXCEPT ![n] = "final"]
    /\ UNCHANGED <<case, pc, found, gone, table, hits, deleted, fixing>>

\* POST /demo/reset?clear=true in one workspace: reset_fix_router for all,
\* clear_all for its own incidents; the fingerprints stay.
DemoReset(w) ==
    LET mine == {n \in Tasks : Home(n) = w /\ status[n] # "absent"} IN
    /\ mine # {} /\ deleted = {}
    /\ status' = [n \in Tasks |-> IF n \in mine THEN "absent" ELSE status[n]]
    /\ deleted' = deleted \cup mine
    /\ sites' = [p \in Pairs |-> {}]
    /\ guards' = {}
    /\ UNCHANGED <<case, pc, found, gone, table, hits, scope, opened>>

Step(n) ==
    \/ Bump(n) \/ Surface(n) \/ NoFix(n) \/ Locate(n)
    \/ \E m \in {"deterministic", "llm"}, to \in {"patched", "low"} : FinalizePatch(n, m, to)

TriggersNext ==
    \/ \E n \in Tasks : Spawn(n) \/ Step(n) \/ Finish(n)
    \/ \E w \in {Home(n) : n \in Tasks} : DemoReset(w)

TriggersSpec == TriggersInit /\ [][TriggersNext]_triggerVars

TriggersFairness == \A n \in Tasks : WF_triggerVars(Step(n))

-----------------------------------------------------------------------------
TriggersTypeOK ==
    /\ case \in Cases
    /\ pc \in [Tasks -> {"quiet", "spawned", "created", "located", "done", "raised"}]
    /\ found \in [Tasks -> Tasks \cup {None}]
    /\ status \in [Tasks -> {"absent", "open", "patched", "low", "final"}]
    /\ gone \in [Tasks -> BOOLEAN]
    /\ \A k \in DOMAIN table : table[k] \in Tasks \cup {None}
    /\ \A n \in Tasks : hits[n] \in 0..Cardinality(Tasks)
    /\ scope \in [Tasks -> {"guard", "structural", None}]
    /\ opened \cup guards \cup deleted \subseteq Tasks

\* trigger_*(): thirteen near copies of one body.  Detections that share an
\* incident are of one class and workspace, and of one source, but for the
\* classes whose key leaves it out: runaway loops, which share their call, and
\* ping-pongs and cascades, which share their run.
NoMixups ==
    \A n, m \in Tasks : found[n] # None /\ found[n] = found[m] =>
        LET s == Detection(n)
            t == Detection(m)
        IN
        /\ s.class = t.class
        /\ Home(n) = Home(m)
        /\ \/ s.class \notin {"anomaly", "pingpong", "cascade"} /\ s.source = t.source
           \/ s.class = "anomaly" /\ s.tool = t.tool
           \/ s.class \in {"pingpong", "cascade"} /\ s.run = t.run

\* _fix_scope and _maybe_open_pr: whatever overtakes whatever, the fixes of
\* one failure that are merged without a person are all at one code site.
GuardsAreSingleSite ==
    \A n, m \in guards :
        Detection(n).source = Detection(m).source /\ Detection(n).class = Detection(m).class
            => Detection(n).site = Detection(m).site

\* receive_trace and the watchdog: every detection has its incident in the
\* end, new or one that lives already, whether or not its code is found; and
\* the trigger, which says that it never raises, does so only when the incident
\* it works on has been deleted.
DetectionsSurface == \A n \in Tasks :
    pc[n] = "spawned" ~> (found[n] # None /\ (pc[n] = "done" \/ (pc[n] = "raised" /\ n \in deleted)))
=============================================================================
