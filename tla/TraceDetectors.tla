---------------------------- MODULE TraceDetectors ----------------------------
(***************************************************************************)
(* rca/*.py and the trace handler of backend/server.py: the behavioural    *)
(* detectors.  Each keeps, per key, what it has learnt from the trace      *)
(* events, fires at most once per key and flags the source.  The handler   *)
(* asks all of them without giving up the event loop in between, so an     *)
(* event is one step; a watchdog sweeps for silence.  A detector is an     *)
(* operator from what it knows (s, a function on the keys it has seen) and *)
(* an event to what it knows next, the key it fires and whom it flags.     *)
(***************************************************************************)
EXTENDS Integers, Sequences, FiniteSets

CONSTANTS
    Workspaces,
    Default,        \* the workspace of code that runs outside a request
    Events,         \* name -> a trace event, as far as detectors look at it
    Scenarios,      \* name -> what agents send: [events, ticks, resets]
    Window, LongWindow, StuckTicks,     \* 30 s, 60 s and 8 s
    LoopThreshold, RateDivisor,         \* anomaly.THRESHOLD and 60 calls
    MaxRetries, Reversals, Drops, OverCalls,
    BaselineCalls, SpikeFactor, Sustain,
    MinHealthy, JunkThreshold, BadStages, MinCalls,
    CostFactor, MinRuns, RunsKept

NoTool == "-"

\* What an event says is what the SDK's TraceEvent can say: it belongs to a
\* workspace, its numbers are counts, its payload is reported once or not at
\* all, and a tool is harmful only by its name.
ASSUME TraceAssumption ==
    /\ Default \in Workspaces
    /\ "reset" \notin DOMAIN Events
    /\ \A n \in DOMAIN Events :
        /\ Events[n].w \in Workspaces
        /\ {Events[n].tokens, Events[n].window, Events[n].cost} \subseteq Nat
        /\ {Events[n].injected, Events[n].harmful, Events[n].registered, Events[n].dropped} \subseteq BOOLEAN
        /\ Events[n].result # <<>> => Events[n].result = <<Events[n].result[1]>>
        /\ Events[n].harmful => Events[n].tool # NoTool
    /\ \A c \in DOMAIN Scenarios :
        /\ Scenarios[c].events \subseteq DOMAIN Events
        /\ {Scenarios[c].length, Scenarios[c].ticks, Scenarios[c].resets} \subseteq Nat
    /\ {Window, LongWindow, StuckTicks, Reversals, OverCalls, BaselineCalls, SpikeFactor, Sustain,
        MinHealthy, JunkThreshold, MinCalls, CostFactor, MinRuns, RunsKept} \subseteq Nat
    /\ LoopThreshold \in Nat \ {0} /\ RateDivisor \in Nat /\ RateDivisor > LoopThreshold
    /\ {MaxRetries, Drops, BadStages} \subseteq Nat \ {0}

ToolKinds == {"tool.start", "tool.end", "tool.error"}
StartKinds == {"llm.start", "tool.start", "chain.start"}
EndKinds == {"llm.end", "llm.error", "tool.end", "tool.error", "chain.end", "chain.error"}

Get(s, k, default) == IF k \in DOMAIN s THEN s[k] ELSE default
Put(s, k, v) == [x \in DOMAIN s \cup {k} |-> IF x = k THEN v ELSE s[x]]
Drop(s, k) == [x \in DOMAIN s \ {k} |-> s[x]]

Ignore(s) == [state |-> s, fires |-> {}, flags |-> {}]
Learn(s, k, v) == [state |-> Put(s, k, v), fires |-> {}, flags |-> {}]
Judge(s, k, v, bad, once, whom) ==
    [state |-> Put(s, k, v), fires |-> IF bad THEN {once} ELSE {}, flags |-> whom]

\* The middle of a sequence of numbers, doubled: the mean of its two middles.
Kth(b, k) == CHOOSE x \in {b[i] : i \in DOMAIN b} :
    /\ Cardinality({i \in DOMAIN b : b[i] < x}) < k
    /\ Cardinality({i \in DOMAIN b : b[i] <= x}) >= k
TwiceMedian(b) == Kth(b, (Len(b) + 1) \div 2) + Kth(b, Len(b) \div 2 + 1)

-----------------------------------------------------------------------------

\* A detector that keeps the times of several events keeps stamps <<number
\* of the event, time>>: events of one tick count one by one.
Within(stamps, new, window) == {c \in stamps \cup {new} : c[2] >= new[2] - window}

\* The same call, often enough within the window.  The threshold rises with
\* the rate of the source, which is noted from the same calls.
RunawayLoop(s, e, stamp) ==
    LET key == <<e.w, e.source, e.tool, e.args>>
        calls == Within(Get(s, key, {}), stamp, Window)
        threshold == LoopThreshold + Cardinality(calls) \div RateDivisor
    IN  IF e.kind # "tool.start" \/ e.tool = NoTool THEN Ignore(s)
        ELSE Judge(s, key, calls, Cardinality(calls) >= threshold, key, {<<e.w, e.source>>})

\* Mutant: a success does not end the burst.
RetryStormSticky(s, e, time) ==
    LET key == <<e.source, e.tool, e.args>>
        burst == Get(s, key, [count |-> 0, last |-> time])
        n == 1 + burst.count
    IN  IF e.kind \notin ToolKinds \/ e.tool = NoTool \/ e.outcome # "transient" THEN Ignore(s)
        ELSE Judge(s, key, [count |-> n, last |-> time], n > MaxRetries,
                   <<e.source, e.tool>>, {e.source})

\* Transient failures of one call in a row; whatever else the call reports,
\* its next start included, ends the burst.
RetryStorm(s, e, time) ==
    LET key == <<e.source, e.tool, e.args>>
        burst == Get(s, key, [count |-> 0, last |-> time])
        n == 1 + IF time - burst.last > Window THEN 0 ELSE burst.count
    IN  IF e.kind \notin ToolKinds \/ e.tool = NoTool THEN Ignore(s)
        ELSE IF e.outcome # "transient" THEN Ignore(Drop(s, key))
        ELSE Judge(s, key, [count |-> n, last |-> time], n > MaxRetries,
                   <<e.source, e.tool>>, {e.source})

\* Two agents that hand a task back and forth: the number of reversals in a
\* row, which is one after any edge that is not the first.  The agents seen
\* in the conversation are only ever added to.
PingPong(s, e, time) ==
    LET new == [edge |-> <<>>, n |-> 0, last |-> time, agents |-> {}]
        old == Get(s, e.run, new)
        c == IF time - old.last > Window THEN new ELSE old
        n == IF c.edge = <<e.to, e.source>> THEN c.n + 1
             ELSE IF c.edge # <<>> THEN 1 ELSE 0
        agents == c.agents \cup {e.source, e.to}
    IN  IF e.kind \notin {"tool.start", "tool.end"} \/ e.to = NoTool THEN Ignore(s)
        ELSE Judge(s, e.run, [edge |-> <<e.source, e.to>>, n |-> n, last |-> time, agents |-> agents],
                   n >= Reversals /\ Cardinality(agents) = 2, <<e.run>>, agents)

\* Calls in a row that fill more than nine tenths of the model's window;
\* calls of an unknown model (window 0) say nothing.
Overflow(s, e) ==
    LET n == IF 10 * e.tokens > 9 * e.window THEN Get(s, e.source, 0) + 1 ELSE 0 IN
    IF e.kind \notin {"llm.start", "llm.end"} \/ e.tokens = 0 \/ e.window = 0 THEN Ignore(s)
    ELSE Judge(s, e.source, n, n >= OverCalls, <<e.source>>, {e.source})

\* The first calls of a source are its baseline; then calls in a row that are
\* a multiple of it.
CostSpike(s, e) ==
    LET st == Get(s, e.source, [samples |-> <<>>, over |-> 0])
        n == IF 2 * e.tokens > SpikeFactor * TwiceMedian(st.samples) THEN st.over + 1 ELSE 0
    IN  IF e.kind \notin {"llm.start", "llm.end"} \/ e.tokens = 0 THEN Ignore(s)
        ELSE IF Len(st.samples) < BaselineCalls
        THEN Learn(s, e.source, [st EXCEPT !.samples = Append(@, e.tokens)])
        ELSE Judge(s, e.source, [st EXCEPT !.over = n], n >= Sustain, <<e.source>>, {e.source})

\* A payload is the set of its keys, and <<>> stands for none reported.  A
\* tool known to return data loses all of it, or every key it had.
Corruption(s, e, stamp) ==
    LET key == <<e.source, e.tool>>
        st == Get(s, key, [keys |-> {}, healthy |-> 0, junk |-> {}])
        found == e.result[1]
        junk == Within(st.junk, stamp, LongWindow)
    IN  IF e.kind \notin {"tool.start", "tool.end"} \/ e.tool = NoTool \/ e.result = <<>> THEN Ignore(s)
        ELSE IF found = {} \/ (st.keys # {} /\ found \cap st.keys = {})
        THEN Judge(s, key, [st EXCEPT !.junk = junk],
                   st.healthy >= MinHealthy /\ Cardinality(junk) >= JunkThreshold, key, {e.source})
        ELSE Learn(s, key, [st EXCEPT !.healthy = @ + 1, !.keys = @ \cup found])

\* Stages of one run whose output is empty.
Cascade(s, e) ==
    LET bad == Get(s, e.run, {}) \cup {e.source} IN
    IF e.kind \notin {"tool.end", "chain.end", "tool.start"} \/ e.result # <<{}>> THEN Ignore(s)
    ELSE Judge(s, e.run, bad, Cardinality(bad) >= BadStages, <<e.run>>, {e.source})

\* Mutant: the tools of injected calls are learnt too.
InjectedCallLearns(s, e) ==
    LET st == Get(s, e.source, [allowed |-> {}, calls |-> 0])
        next == [allowed |-> st.allowed \cup {e.tool}, calls |-> st.calls + 1]
    IN  IF e.kind \notin {"tool.start", "tool.end"} \/ e.tool = NoTool THEN Ignore(s)
        ELSE Judge(s, e.source, next, e.injected /\ e.tool \notin st.allowed /\ st.calls >= MinCalls,
                   <<e.source>>, {e.source})

\* An injected input drives a tool outside the set learnt from clean calls.
InjectedCall(s, e) ==
    LET st == Get(s, e.source, [allowed |-> {}, calls |-> 0]) IN
    IF e.kind \notin {"tool.start", "tool.end"} \/ e.tool = NoTool THEN Ignore(s)
    ELSE IF e.injected
    THEN Judge(s, e.source, st, e.tool \notin st.allowed /\ st.calls >= MinCalls, <<e.source>>, {e.source})
    ELSE Learn(s, e.source, [allowed |-> st.allowed \cup {e.tool}, calls |-> st.calls + 1])

Hallucination(s, e) ==
    IF e.kind \notin ToolKinds \/ e.tool = NoTool \/ e.registered THEN Ignore(s)
    ELSE Judge(s, e.source, TRUE, TRUE, <<e.source, e.tool>>, {e.source})

\* A destructive tool for a request that only reads; an injected request is
\* left to the injection detector.
WrongTool(s, e) ==
    IF e.kind \notin {"tool.start", "tool.end"} \/ ~ e.harmful \/ e.injected THEN Ignore(s)
    ELSE Judge(s, e.source, TRUE, TRUE, <<e.source, e.tool>>, {e.source})

\* A bound tool that a structured answer skipped, counted over all calls.
BindingDrop(s, e) ==
    LET n == Get(s, e.source, 0) + 1 IN
    IF ~ e.dropped THEN Ignore(s) ELSE Judge(s, e.source, n, n >= Drops, <<e.source>>, {e.source})

\* A run that costs a multiple of the median of the source's earlier runs.
Generic(s, e) ==
    LET st == Get(s, e.source, [run |-> e.run, cost |-> 0, runs |-> <<>>])
        all == Append(st.runs, st.cost)
        kept == IF Len(all) > RunsKept THEN Tail(all) ELSE all
        base == IF st.run = e.run THEN st.runs ELSE kept
        cost == e.cost + IF st.run = e.run THEN st.cost ELSE 0
    IN  IF e.cost = 0 THEN Ignore(s)
        ELSE Judge(s, e.source, [run |-> e.run, cost |-> cost, runs |-> base],
                   /\ Len(base) >= MinRuns
                   /\ 2 * cost > CostFactor * TwiceMedian(base), <<e.source>>, {e.source})

-----------------------------------------------------------------------------
Named == {"pingpong", "anomaly", "corruption", "cost_spike", "overflow", "injection",
          "hallucination", "wrong_tool", "cascade", "retry_storm", "binding_drop"}
AskedAfterGeneric == {"retry_storm", "binding_drop"}
Asked == Named \cup {"generic"}
Detectors == Asked \cup {"stuck"}

Observe(d, s, e, stamp) ==
    CASE d = "anomaly" -> RunawayLoop(s, e, stamp)
      [] d = "pingpong" -> PingPong(s, e, stamp[2])
      [] d = "corruption" -> Corruption(s, e, stamp)
      [] d = "cost_spike" -> CostSpike(s, e)
      [] d = "overflow" -> Overflow(s, e)
      [] d = "injection" -> InjectedCall(s, e)
      [] d = "hallucination" -> Hallucination(s, e)
      [] d = "wrong_tool" -> WrongTool(s, e)
      [] d = "cascade" -> Cascade(s, e)
      [] d = "retry_storm" -> RetryStorm(s, e, stamp[2])
      [] d = "binding_drop" -> BindingDrop(s, e)
      [] d = "generic" -> Generic(s, e)

VARIABLES
    scenario,   \* what the agents of this behaviour send
    now,        \* time.monotonic(), in ticks
    seen,       \* detector -> what it has learnt, per key
    fired,      \* detector -> the keys it has fired for
    flagged,    \* detector -> the sources it has flagged or tripped
    spawned,    \* signals handed to a trigger: [class, key, w]
    hist        \* history: the events and resets, [ev, w, at]

vars == <<scenario, now, seen, fired, flagged, spawned, hist>>

Init ==
    /\ scenario \in DOMAIN Scenarios
    /\ now = 0
    /\ seen = [d \in Detectors |-> <<>>]
    /\ fired = [d \in Detectors |-> {}]
    /\ flagged = [d \in Detectors |-> {}]
    /\ spawned = {}
    /\ hist = <<>>

Owned(e, flags) ==
    \/ <<e.w, e.source>> \in flags["anomaly"]
    \/ \E d \in (Named \ {"anomaly"}) \cup {"stuck"} : e.source \in flags[d]

\* Mutant: a run is opened by any event that does not end it.
OpenRunsAny(s, e) ==
    IF e.kind \in EndKinds THEN Drop(s, e.run) ELSE Put(s, e.run, [ts |-> now + 1, source |-> e.source])

\* stuck.observe: a start opens the run and an end or error closes it,
\* whichever operation of the run it belongs to.
OpenRuns(s, e) ==
    IF e.kind \in StartKinds THEN Put(s, e.run, [ts |-> now, source |-> e.source])
    ELSE IF e.kind \in EndKinds THEN Drop(s, e.run) ELSE s

\* What a detector makes of an event: fires for a key once, and flags only
\* when it fires.
Answer(d, e) == Observe(d, seen[d], e, <<Len(hist) + 1, now>>)
News(d, e) == Answer(d, e).fires \ fired[d]
Flagged(d, e) == flagged[d] \cup IF News(d, e) = {} THEN {} ELSE Answer(d, e).flags
\* What is flagged when the catch-all is asked.
FlaggedBefore(e) ==
    [d \in Detectors |-> IF d \in Named \ AskedAfterGeneric THEN Flagged(d, e) ELSE flagged[d]]

\* Mutant: the catch-all is asked before the others.
ReportsFirst(d, e) == IF d = "generic" /\ Owned(e, flagged) THEN {} ELSE News(d, e)

Reports(d, e) == IF d = "generic" /\ Owned(e, FlaggedBefore(e)) THEN {} ELSE News(d, e)
Signals(e) == UNION {{[class |-> d, key |-> k, w |-> e.w] : k \in Reports(d, e)} : d \in Asked}
Ended(e) == IF e.kind \in EndKinds THEN {<<e.run>>} ELSE {}

\* POST /trace: each detector is asked once; the catch-all defers to the ones
\* asked before it and to what is flagged already.
Receive(n) ==
    LET e == Events[n] IN
    /\ Len(hist) < Scenarios[scenario].length
    /\ seen' = [d \in Detectors |-> IF d = "stuck" THEN OpenRuns(seen[d], e) ELSE Answer(d, e).state]
    /\ fired' = [d \in Detectors |->
        IF d = "stuck" THEN fired[d] \ Ended(e) ELSE fired[d] \cup Reports(d, e)]
    /\ flagged' = [d \in Detectors |->
        IF d = "stuck" \/ Reports(d, e) = {} THEN flagged[d] ELSE flagged[d] \cup Answer(d, e).flags]
    /\ spawned' = spawned \cup Signals(e)
    /\ hist' = Append(hist, [ev |-> n, w |-> e.w, at |-> now])
    /\ UNCHANGED <<scenario, now>>

\* The answer to POST /trace tells the agent to stop.
CircuitBreak(w, source) ==
    <<w, source>> \in flagged["anomaly"] \/ source \in flagged["pingpong"]

\* Mutant: a stall that has just become one is left to the next sweep.
SweepLate ==
    LET open == seen["stuck"]
        stuck == {r \in DOMAIN open : <<r>> \notin fired["stuck"] /\ now - open[r].ts > StuckTicks}
    IN
    /\ stuck # {}
    /\ fired' = [fired EXCEPT !["stuck"] = @ \cup {<<r>> : r \in stuck}]
    /\ UNCHANGED <<scenario, now, seen, flagged, spawned, hist>>

\* The watchdog, a background task that belongs to no request: its signals
\* are handled in the default workspace.
Sweep ==
    LET open == seen["stuck"]
        stuck == {r \in DOMAIN open : <<r>> \notin fired["stuck"] /\ now - open[r].ts >= StuckTicks}
    IN
    /\ stuck # {}
    /\ fired' = [fired EXCEPT !["stuck"] = @ \cup {<<r>> : r \in stuck}]
    /\ flagged' = [flagged EXCEPT !["stuck"] = @ \cup {open[r].source : r \in stuck}]
    /\ spawned' = spawned \cup {[class |-> "stuck", key |-> <<r>>, w |-> Default] : r \in stuck}
    /\ UNCHANGED <<scenario, now, seen, hist>>

\* POST /demo/reset by one workspace: reset() of every detector.  Only the
\* loop detector keeps its state by workspace; the others lose everything.
Reset(w) ==
    /\ Len(hist) < Scenarios[scenario].length
    /\ Cardinality({i \in DOMAIN hist : hist[i].ev = "reset"}) < Scenarios[scenario].resets
    /\ seen' = [d \in Detectors |->
        IF d = "anomaly" THEN [k \in {x \in DOMAIN seen[d] : x[1] # w} |-> seen[d][k]] ELSE <<>>]
    /\ fired' = [d \in Detectors |-> IF d = "anomaly" THEN {k \in fired[d] : k[1] # w} ELSE {}]
    /\ flagged' = [d \in Detectors |-> IF d = "anomaly" THEN {k \in flagged[d] : k[1] # w} ELSE {}]
    /\ hist' = Append(hist, [ev |-> "reset", w |-> w, at |-> now])
    /\ UNCHANGED <<scenario, now, spawned>>

Tick ==
    /\ now < Scenarios[scenario].ticks
    /\ now' = now + 1
    /\ UNCHANGED <<scenario, seen, fired, flagged, spawned, hist>>

Next ==
    \/ \E n \in Scenarios[scenario].events : Receive(n)
    \/ Sweep
    \/ \E w \in Workspaces : Reset(w)
    \/ Tick

Spec == Init /\ [][Next]_vars

\* The watchdog loop runs every three seconds, for ever.
Fairness == WF_vars(Sweep)
FairSpec == Spec /\ Fairness

-----------------------------------------------------------------------------
(* What the detectors promise, said of the trace and not of their state. *)
Ev(i) == Events[hist[i].ev]
\* The events that the resets of these workspaces left.
Since(W) == {i \in DOMAIN hist :
    \A j \in i..Len(hist) : hist[j].ev = "reset" => j # i /\ hist[j].w \notin W}
Trace == Since(Workspaces)
Sent(P(_)) == {n \in Scenarios[scenario].events : P(Events[n])}
Sources == {Events[n].source : n \in Scenarios[scenario].events}
Runs == {Events[n].run : n \in Scenarios[scenario].events}
Upto(S, j) == {i \in S : i <= j}
\* The members of S that lead to j: from there on all are good, and each
\* joins the one before it.
Streak(S, Good, Joined, j) == {i \in Upto(S, j) :
    \A x \in Upto(S, j) : (x >= i => x \in Good) /\ (x > i => x \in Joined)}
InARow(S, Good, Joined, n) == \E j \in S : Cardinality(Streak(S, Good, Joined, j)) >= n
Neighbours(S, i, j) == i < j /\ \A x \in S : x <= i \/ x >= j
\* The members of S that came soon enough after the one before.
Prompt(S) == {j \in S : \E i \in S : Neighbours(S, i, j) /\ hist[j].at - hist[i].at <= Window}
Recent(S, j, window) == {i \in Upto(S, j) : hist[j].at - hist[i].at <= window}

\* The calls of a key, the payloads of a tool and so on, left in the trace.
CallKey(e) == <<e.w, e.source, e.tool, e.args>>
LoopCalls(k) == {i \in Since({k[1]}) : /\ hist[i].ev # "reset"
                                       /\ Ev(i).kind = "tool.start" /\ Ev(i).tool # NoTool
                                       /\ CallKey(Ev(i)) = k}
ToolCalls(k) == {i \in Trace : /\ Ev(i).kind \in ToolKinds /\ Ev(i).tool # NoTool
                               /\ <<Ev(i).source, Ev(i).tool, Ev(i).args>> = k}
HandOffs(r) == {i \in Trace : /\ Ev(i).kind \in {"tool.start", "tool.end"}
                              /\ Ev(i).to # NoTool /\ Ev(i).run = r}
Returned(S) == {j \in Prompt(S) : \E i \in S : /\ Neighbours(S, i, j)
                                              /\ Ev(i).source = Ev(j).to /\ Ev(i).to = Ev(j).source}
ModelCalls(s) == {i \in Trace : /\ Ev(i).kind \in {"llm.start", "llm.end"}
                                /\ Ev(i).source = s /\ Ev(i).tokens > 0}
\* The sizes of the first calls of a source, in order.
Baseline(s) == [k \in 1..BaselineCalls |->
    Ev(CHOOSE i \in ModelCalls(s) : Cardinality(Upto(ModelCalls(s), i)) = k).tokens]
Payloads(k) == {i \in Trace : /\ Ev(i).kind \in {"tool.start", "tool.end"} /\ Ev(i).result # <<>>
                              /\ Ev(i).tool # NoTool /\ <<Ev(i).source, Ev(i).tool>> = k}
EmptyStages(r) == {Ev(i).source : i \in {j \in Trace :
    /\ Ev(j).kind \in {"tool.end", "chain.end", "tool.start"}
    /\ Ev(j).run = r /\ Ev(j).result = <<{}>>}}
ToolsOf(s) == {i \in Trace : /\ Ev(i).source = s /\ Ev(i).tool # NoTool
                             /\ Ev(i).kind \in {"tool.start", "tool.end"}}
CleanUpto(s, j) == {i \in Upto(ToolsOf(s), j) : ~ Ev(i).injected}
DropsOf(s) == {i \in Trace : Ev(i).source = s /\ Ev(i).dropped}

TypeOK ==
    /\ scenario \in DOMAIN Scenarios
    /\ now \in 0..Scenarios[scenario].ticks
    /\ DOMAIN seen = Detectors
    /\ \A r \in DOMAIN seen["stuck"] : seen["stuck"][r] \in [ts : 0..now, source : Sources]
    /\ DOMAIN fired = Detectors /\ DOMAIN flagged = Detectors
    /\ \A d \in Detectors \ {"anomaly"} : flagged[d] \subseteq Sources \cup {Events[n].to : n \in Scenarios[scenario].events}
    /\ \A s \in spawned : s.class \in Detectors /\ s.w \in Workspaces

\* anomaly.observe: a runaway loop is reported exactly when one call was
\* started LoopThreshold times within the window.  That the threshold rises
\* with the rate makes no difference, and neither do the calls of another
\* workspace or its resets.
LoopsAreCaught ==
    \A n \in Sent(LAMBDA x : x.kind = "tool.start" /\ x.tool # NoTool) :
        LET S == LoopCalls(CallKey(Events[n])) IN
        (CallKey(Events[n]) \in fired["anomaly"]) <=>
            \E j \in S : Cardinality(Recent(S, j, Window)) >= LoopThreshold

\* retry_storm.observe: a storm is reported exactly when more than
\* MaxRetries reports of one call in a row are transient failures, none of
\* them later than the window after the one before.
StormsAreCaught ==
    \A n \in Sent(LAMBDA x : x.outcome = "transient") :
        (<<Events[n].source, Events[n].tool>> \in fired["retry_storm"]) <=>
            \E a \in {Events[m].args : m \in Scenarios[scenario].events} :
                LET S == ToolCalls(<<Events[n].source, Events[n].tool, a>>)
                IN InARow(S, {i \in S : Ev(i).outcome = "transient"}, Prompt(S), MaxRetries + 1)

\* pingpong.observe: what is reported went back and forth Reversals - 1 times
\* in a row (a repeated hand-off counts as one reversal), and a conversation
\* of two agents that went back and forth Reversals times is reported.
BouncesAreCaught ==
    \A r \in {Events[n].run : n \in Sent(LAMBDA x : x.to # NoTool)} :
        LET S == HandOffs(r)
            agents == {Ev(i).source : i \in S} \cup {Ev(i).to : i \in S}
        IN  /\ <<r>> \in fired["pingpong"] => InARow(S, S, Returned(S), Reversals)
            /\ /\ Cardinality(agents) = 2
               /\ \A i \in S : Ev(i).source # Ev(i).to
               /\ InARow(S, S, Returned(S), Reversals + 1)
               => <<r>> \in fired["pingpong"]

\* overflow.observe and cost_spike.observe: a source is reported exactly when
\* enough calls in a row were too large, for the window of the model and for
\* the median of the first calls.
SpikesAreCaught ==
    \A s \in {Events[n].source : n \in Sent(LAMBDA x : x.tokens > 0)} :
        LET S == {i \in ModelCalls(s) : Ev(i).window > 0}
            Full == {i \in S : 10 * Ev(i).tokens > 9 * Ev(i).window}
            Later == {i \in ModelCalls(s) : Cardinality(Upto(ModelCalls(s), i)) > BaselineCalls}
            Costly == {i \in Later : 2 * Ev(i).tokens > SpikeFactor * TwiceMedian(Baseline(s))}
        IN  /\ (<<s>> \in fired["overflow"]) <=> InARow(S, Full, Full, OverCalls)
            /\ (<<s>> \in fired["cost_spike"]) <=> InARow(Later, Costly, Costly, Sustain)

\* corruption.observe and cascade.observe: a tool that is reported had
\* returned data before and lost it often enough within the window, a tool
\* that did so after it returned data only is reported, and a run is
\* reported exactly when enough of its stages came up empty.
PoisonIsCaught ==
    /\ \A n \in Sent(LAMBDA x : x.result = <<{}>> /\ x.tool # NoTool /\ x.kind \in {"tool.start", "tool.end"}) :
        LET k == <<Events[n].source, Events[n].tool>>
            S == Payloads(k)
            Empty == {i \in S : Ev(i).result = <<{}>>}
            Lost == Empty \cup {i \in S : \E d \in S \ Empty :
                                    d < i /\ Ev(d).result[1] \cap Ev(i).result[1] = {}}
            Good == {i \in S : Upto(S, i) \cap Lost = {}}
        IN  /\ k \in fired["corruption"] =>
                \E j \in Lost : /\ Cardinality(Upto(S \ Empty, j)) >= MinHealthy
                                /\ Cardinality(Recent(Lost, j, LongWindow)) >= JunkThreshold
            /\ (\E j \in Empty : /\ Cardinality(Good) >= MinHealthy
                                  /\ Cardinality(Recent(Empty, j, LongWindow)) >= JunkThreshold)
                => k \in fired["corruption"]
    /\ \A r \in {Events[n].run : n \in Sent(LAMBDA x : x.result = <<{}>>)} :
        (<<r>> \in fired["cascade"]) <=> (Cardinality(EmptyStages(r)) >= BadStages)

\* injection.observe, wrong_tool.observe and binding_drop.observe: an agent
\* is reported exactly when an injected input drove it to a tool that none
\* of its clean calls, however many, had used before; a plain wrong tool is
\* never an injected one; and drops count over the whole trace.
MisuseIsCaught ==
    \A s \in {Events[n].source : n \in Sent(LAMBDA x : x.injected \/ x.harmful \/ x.dropped)} :
        /\ (<<s>> \in fired["injection"]) <=>
            (\E j \in ToolsOf(s) : /\ Ev(j).injected
                                   /\ Cardinality(CleanUpto(s, j)) >= MinCalls
                                   /\ Ev(j).tool \notin {Ev(i).tool : i \in CleanUpto(s, j)})
        /\ (\E t \in fired["wrong_tool"] : t[1] = s) <=>
            (\E j \in ToolsOf(s) : Ev(j).harmful /\ ~ Ev(j).injected)
        /\ (<<s>> \in fired["binding_drop"]) <=> (Cardinality(DropsOf(s)) >= Drops)

\* server.receive_trace: when the catch-all reports a source, none of the
\* detectors asked before it had, on this event or earlier.
GenericDefers ==
    [][\A s \in Sources : <<s>> \in fired'["generic"] \ fired["generic"] =>
        /\ <<hist'[Len(hist')].w, s>> \notin flagged'["anomaly"]
        /\ \A d \in (Named \ AskedAfterGeneric) \ {"anomaly"} : s \notin flagged'[d]]_vars

\* The operation of a run that no later start or end has touched.
Silent(r) == \E i \in Trace :
    /\ Ev(i).run = r /\ Ev(i).kind \in StartKinds /\ now - hist[i].at >= StuckTicks
    /\ \A j \in Trace : j > i /\ Ev(j).run = r => Ev(j).kind \notin StartKinds \cup EndKinds

\* stuck.sweep: what is reported has been silent, and what stays silent is
\* reported in the end.
OnlyStalls == [][\A r \in Runs : <<r>> \in fired'["stuck"] \ fired["stuck"] => Silent(r)]_vars
StallsAreReported ==
    /\ OnlyStalls
    /\ \A r \in {Events[n].run : n \in DOMAIN Events} :
          Silent(r) ~> (<<r>> \in fired["stuck"] \/ ~ Silent(r))

\* The three detectors that count calls, told from the trace alone: anomaly.py,
\* retry_storm.py, and overflow.py with cost_spike.py.
CallsAreCounted == LoopsAreCaught /\ StormsAreCaught /\ SpikesAreCaught

\* The detectors that learn what is healthy, told from the trace alone:
\* pingpong.py, corruption.py with cascade.py, and injection.py, wrong_tool.py
\* and binding_drop.py.
EpisodesAreCaught == BouncesAreCaught /\ PoisonIsCaught /\ MisuseIsCaught

=============================================================================
