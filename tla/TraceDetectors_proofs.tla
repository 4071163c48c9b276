------------------------ MODULE TraceDetectors_proofs ------------------------
(***************************************************************************)
(* What TLAPS proves of the behavioural detectors, for any events,         *)
(* scenarios and thresholds: type correctness, that the catch-all defers   *)
(* to the detectors asked before it, and what the watchdog, the detectors  *)
(* that count and those that learn report, told from the trace alone.      *)
(***************************************************************************)
EXTENDS TraceDetectors, FiniteSetTheorems, TLAPS

Entries == [ev : Scenarios[scenario].events \cup {"reset"}, w : Workspaces, at : Nat]
Tos == {Events[n].to : n \in Scenarios[scenario].events}

\* The trace: times never go back, and an event belongs to its workspace.
HistTypes ==
    /\ scenario \in DOMAIN Scenarios
    /\ now \in 0..Scenarios[scenario].ticks
    /\ hist \in Seq(Entries)
    /\ \A i \in DOMAIN hist : hist[i].at <= now
    /\ \A i, j \in DOMAIN hist : i <= j => hist[i].at <= hist[j].at
    /\ \A i \in DOMAIN hist : hist[i].ev # "reset" => hist[i].w = Ev(i).w

StateTypes ==
    /\ DOMAIN seen = Detectors /\ DOMAIN fired = Detectors /\ DOMAIN flagged = Detectors
    /\ \A r \in DOMAIN seen["stuck"] : seen["stuck"][r] \in [ts : 0..now, source : Sources]
    /\ \A r \in DOMAIN seen["pingpong"] : seen["pingpong"][r].agents \subseteq Sources \cup Tos
    /\ \A d \in Detectors \ {"anomaly"} : flagged[d] \subseteq Sources \cup Tos
    /\ \A s \in spawned : s.class \in Detectors /\ s.w \in Workspaces

Typed == HistTypes /\ StateTypes

-----------------------------------------------------------------------------
(* What a step does to the trace and to a detector. *)

LEMMA AnswersAre ==
    ASSUME NEW e
    PROVE  /\ Answer("anomaly", e) = RunawayLoop(seen["anomaly"], e, <<Len(hist) + 1, now>>)
           /\ Answer("pingpong", e) = PingPong(seen["pingpong"], e, now)
           /\ Answer("corruption", e) = Corruption(seen["corruption"], e, <<Len(hist) + 1, now>>)
           /\ Answer("cost_spike", e) = CostSpike(seen["cost_spike"], e)
           /\ Answer("overflow", e) = Overflow(seen["overflow"], e)
           /\ Answer("injection", e) = InjectedCall(seen["injection"], e)
           /\ Answer("hallucination", e) = Hallucination(seen["hallucination"], e)
           /\ Answer("wrong_tool", e) = WrongTool(seen["wrong_tool"], e)
           /\ Answer("cascade", e) = Cascade(seen["cascade"], e)
           /\ Answer("retry_storm", e) = RetryStorm(seen["retry_storm"], e, now)
           /\ Answer("binding_drop", e) = BindingDrop(seen["binding_drop"], e)
           /\ Answer("generic", e) = Generic(seen["generic"], e)
  <1>1. Answer("anomaly", e) = RunawayLoop(seen["anomaly"], e, <<Len(hist) + 1, now>>)
    BY DEF Answer, Observe
  <1>2. Answer("pingpong", e) = PingPong(seen["pingpong"], e, now)
    BY DEF Answer, Observe
  <1>3. Answer("corruption", e) = Corruption(seen["corruption"], e, <<Len(hist) + 1, now>>)
    BY DEF Answer, Observe
  <1>4. Answer("cost_spike", e) = CostSpike(seen["cost_spike"], e)
    BY DEF Answer, Observe
  <1>5. Answer("overflow", e) = Overflow(seen["overflow"], e)
    BY DEF Answer, Observe
  <1>6. Answer("injection", e) = InjectedCall(seen["injection"], e)
    BY DEF Answer, Observe
  <1>7. Answer("hallucination", e) = Hallucination(seen["hallucination"], e)
    BY DEF Answer, Observe
  <1>8. Answer("wrong_tool", e) = WrongTool(seen["wrong_tool"], e)
    BY DEF Answer, Observe
  <1>9. Answer("cascade", e) = Cascade(seen["cascade"], e)
    BY DEF Answer, Observe
  <1>10. Answer("retry_storm", e) = RetryStorm(seen["retry_storm"], e, now)
    BY DEF Answer, Observe
  <1>11. Answer("binding_drop", e) = BindingDrop(seen["binding_drop"], e)
    BY DEF Answer, Observe
  <1>12. Answer("generic", e) = Generic(seen["generic"], e)
    BY DEF Answer, Observe
  <1> QED  BY <1>1, <1>2, <1>3, <1>4, <1>5, <1>6, <1>7, <1>8, <1>9, <1>10, <1>11, <1>12

LEMMA FlagsAreSources ==
    ASSUME NEW e, NEW d \in Asked \ {"anomaly", "pingpong"}
    PROVE  Answer(d, e).flags \subseteq {e.source}
  <1>1. ASSUME NEW s, NEW t PROVE Corruption(s, e, t).flags \subseteq {e.source}
    BY DEF Corruption, Ignore, Learn, Judge
  <1>2. ASSUME NEW s PROVE CostSpike(s, e).flags \subseteq {e.source}
    BY DEF CostSpike, Ignore, Learn, Judge
  <1>3. ASSUME NEW s PROVE Overflow(s, e).flags \subseteq {e.source}
    BY DEF Overflow, Ignore, Judge
  <1>4. ASSUME NEW s PROVE InjectedCall(s, e).flags \subseteq {e.source}
    BY DEF InjectedCall, Ignore, Learn, Judge
  <1>5. ASSUME NEW s PROVE Hallucination(s, e).flags \subseteq {e.source}
    BY DEF Hallucination, Ignore, Judge
  <1>6. ASSUME NEW s PROVE WrongTool(s, e).flags \subseteq {e.source}
    BY DEF WrongTool, Ignore, Judge
  <1>7. ASSUME NEW s PROVE Cascade(s, e).flags \subseteq {e.source}
    BY DEF Cascade, Ignore, Judge
  <1>8. ASSUME NEW s, NEW t PROVE RetryStorm(s, e, t).flags \subseteq {e.source}
    BY DEF RetryStorm, Ignore, Judge
  <1>9. ASSUME NEW s PROVE BindingDrop(s, e).flags \subseteq {e.source}
    BY DEF BindingDrop, Ignore, Judge
  <1>10. ASSUME NEW s PROVE Generic(s, e).flags \subseteq {e.source}
    BY DEF Generic, Ignore, Judge
  <1>11. d \in {"corruption", "cost_spike", "overflow", "injection", "hallucination", "wrong_tool", "cascade", "retry_storm", "binding_drop", "generic"}
    BY DEF Asked, Named
  <1> QED  BY <1>1, <1>2, <1>3, <1>4, <1>5, <1>6, <1>7, <1>8, <1>9, <1>10, <1>11, AnswersAre

LEMMA EventTypes ==
    ASSUME Typed, NEW n \in Scenarios[scenario].events
    PROVE  /\ n \in DOMAIN Events /\ n # "reset"
           /\ Events[n].w \in Workspaces
           /\ Events[n].tokens \in Nat /\ Events[n].window \in Nat /\ Events[n].cost \in Nat
           /\ Events[n].injected \in BOOLEAN /\ Events[n].harmful \in BOOLEAN
           /\ Events[n].registered \in BOOLEAN /\ Events[n].dropped \in BOOLEAN
           /\ Events[n].result # <<>> => Events[n].result = <<Events[n].result[1]>>
           /\ Events[n].harmful => Events[n].tool # NoTool
           /\ Events[n].source \in Sources /\ Events[n].to \in Tos /\ Events[n].run \in Runs
  <1>1. n \in DOMAIN Events /\ n # "reset"
    BY TraceAssumption DEF Typed, HistTypes
  <1>2. Events[n].source \in Sources /\ Events[n].to \in Tos /\ Events[n].run \in Runs
    BY DEF Sources, Tos, Runs
  <1>3. /\ Events[n].tokens \in Nat /\ Events[n].window \in Nat /\ Events[n].cost \in Nat
        /\ Events[n].w \in Workspaces
    BY <1>1, TraceAssumption
  <1>4. /\ Events[n].injected \in BOOLEAN /\ Events[n].harmful \in BOOLEAN
        /\ Events[n].registered \in BOOLEAN /\ Events[n].dropped \in BOOLEAN
    BY <1>1, TraceAssumption
  <1>5. /\ Events[n].result # <<>> => Events[n].result = <<Events[n].result[1]>>
        /\ Events[n].harmful => Events[n].tool # NoTool
    BY <1>1, TraceAssumption
  <1> QED  BY <1>1, <1>2, <1>3, <1>4, <1>5

\* An event is appended to the trace, which is otherwise as it was.
LEMMA EventIsAdded ==
    ASSUME Typed, NEW n \in Scenarios[scenario].events, Receive(n)
    PROVE  /\ Len(hist) \in Nat /\ DOMAIN hist = 1..Len(hist)
           /\ Len(hist') = Len(hist) + 1 /\ DOMAIN hist' = 1..(Len(hist) + 1)
           /\ \A i \in DOMAIN hist : hist'[i] = hist[i]
           /\ hist'[Len(hist) + 1] = [ev |-> n, w |-> Events[n].w, at |-> now]
           /\ UNCHANGED <<scenario, now>>
  BY DEF Typed, HistTypes, Receive

LEMMA ResetIsAdded ==
    ASSUME Typed, NEW w \in Workspaces, Reset(w)
    PROVE  /\ Len(hist) \in Nat /\ DOMAIN hist = 1..Len(hist)
           /\ Len(hist') = Len(hist) + 1 /\ DOMAIN hist' = 1..(Len(hist) + 1)
           /\ \A i \in DOMAIN hist : hist'[i] = hist[i]
           /\ hist'[Len(hist) + 1] = [ev |-> "reset", w |-> w, at |-> now]
           /\ UNCHANGED <<scenario, now>>
  BY DEF Typed, HistTypes, Reset

LEMMA HistKept == Typed /\ [Next]_vars => HistTypes'
  <1> SUFFICES ASSUME Typed, [Next]_vars PROVE HistTypes'
    OBVIOUS
  <1> USE DEF Ev
  <1>0. HistTypes
    BY DEF Typed
  <1>1. ASSUME NEW x, x \in Entries, x.at = now, x.ev # "reset" => x.w = Events[x.ev].w,
               hist' = Append(hist, x), UNCHANGED <<scenario, now>>
        PROVE  HistTypes'
    <2>1. /\ Len(hist') = Len(hist) + 1 /\ Len(hist) \in Nat
          /\ DOMAIN hist = 1..Len(hist) /\ DOMAIN hist' = 1..(Len(hist) + 1)
          /\ \A i \in DOMAIN hist : hist'[i] = hist[i]
          /\ hist'[Len(hist) + 1] = x
      BY <1>0, <1>1 DEF HistTypes
    <2>2. hist' \in Seq(Entries')
      BY <1>0, <1>1 DEF HistTypes, Entries
    <2>3. now \in Int
      BY <1>0, TraceAssumption DEF HistTypes
    <2>4. \A i \in DOMAIN hist' : hist'[i].at <= now'
      BY <1>0, <1>1, <2>1, <2>3 DEF HistTypes
    <2>5. \A i, j \in DOMAIN hist' : i <= j => hist'[i].at <= hist'[j].at
      BY <1>0, <1>1, <2>1, <2>3, <2>4 DEF HistTypes
    <2>6. \A i \in DOMAIN hist' : hist'[i].ev # "reset" => hist'[i].w = Events[hist'[i].ev].w
      BY <1>0, <1>1, <2>1 DEF HistTypes
    <2> QED  BY <1>0, <1>1, <2>2, <2>4, <2>5, <2>6 DEF HistTypes
  <1>2. CASE \E n \in Scenarios[scenario].events : Receive(n)
    <2>1. PICK n \in Scenarios[scenario].events : Receive(n)
      BY <1>2
    <2>2. Events[n].w \in Workspaces
      BY EventTypes
    <2>3. now \in Nat
      BY <1>0, TraceAssumption DEF HistTypes
    <2> DEFINE x == [ev |-> n, w |-> Events[n].w, at |-> now]
    <2>4. x \in Entries /\ x.at = now /\ x.w = Events[x.ev].w
      BY <2>2, <2>3 DEF Entries
    <2>5. hist' = Append(hist, x) /\ UNCHANGED <<scenario, now>>
      BY <2>1 DEF Receive
    <2> HIDE DEF x
    <2> QED  BY <1>1, <2>4, <2>5
  <1>3. CASE \E w \in Workspaces : Reset(w)
    <2>1. PICK w \in Workspaces : Reset(w)
      BY <1>3
    <2>3. now \in Nat
      BY <1>0, TraceAssumption DEF HistTypes
    <2> DEFINE x == [ev |-> "reset", w |-> w, at |-> now]
    <2>4. x \in Entries /\ x.at = now /\ x.ev = "reset"
      BY <2>3 DEF Entries
    <2>5. hist' = Append(hist, x) /\ UNCHANGED <<scenario, now>>
      BY <2>1 DEF Reset
    <2> HIDE DEF x
    <2> QED  BY <1>1, <2>4, <2>5
  <1>4. CASE Tick
    <2>1. now \in Nat /\ Scenarios[scenario].ticks \in Nat
      BY <1>0, TraceAssumption DEF HistTypes
    <2>2. now' = now + 1 /\ now' <= Scenarios[scenario].ticks /\ UNCHANGED <<scenario, hist>>
      BY <1>4, <2>1 DEF Tick
    <2>3. \A i \in DOMAIN hist : hist[i].at \in Nat
      <3>1. \A i \in DOMAIN hist : hist[i] \in Entries
        BY <1>0 DEF HistTypes
      <3> QED  BY <3>1 DEF Entries
    <2>4. \A i \in DOMAIN hist' : hist'[i].at <= now'
      BY <1>0, <2>1, <2>2, <2>3 DEF HistTypes
    <2>5. now' \in 0..Scenarios[scenario].ticks /\ Entries' = Entries
      BY <2>1, <2>2 DEF Entries
    <2> QED  BY <1>0, <2>2, <2>4, <2>5 DEF HistTypes
  <1>5. CASE Sweep \/ UNCHANGED vars
    <2>1. UNCHANGED <<scenario, now, hist>> /\ Entries' = Entries
      BY <1>5 DEF Sweep, vars, Entries
    <2> QED  BY <1>0, <2>1 DEF HistTypes
  <1> QED  BY <1>2, <1>3, <1>4, <1>5 DEF Next

\* What a step does to a detector that learns, fires and flags on its own.
LEMMA DetectorMoves ==
    ASSUME Typed, NEW n \in Scenarios[scenario].events, Receive(n)
    PROVE  /\ \A d \in Asked : /\ seen'[d] = Answer(d, Events[n]).state
                               /\ fired'[d] = fired[d] \cup Reports(d, Events[n])
                               /\ flagged'[d] = IF Reports(d, Events[n]) = {} THEN flagged[d]
                                                ELSE flagged[d] \cup Answer(d, Events[n]).flags
           /\ \A d \in Named : fired'[d] = fired[d] \cup Answer(d, Events[n]).fires
           /\ seen'["stuck"] = OpenRuns(seen["stuck"], Events[n])
           /\ fired'["stuck"] = fired["stuck"] \ Ended(Events[n])
           /\ flagged'["stuck"] = flagged["stuck"]
  <1>1. \A d \in Asked : d \in Detectors /\ d # "stuck"
    BY DEF Asked, Detectors, Named
  <1>2. "stuck" \in Detectors
    BY DEF Detectors
  <1>3. \A d \in Asked : /\ seen'[d] = Answer(d, Events[n]).state
                         /\ fired'[d] = fired[d] \cup Reports(d, Events[n])
                         /\ flagged'[d] = IF Reports(d, Events[n]) = {} THEN flagged[d]
                                          ELSE flagged[d] \cup Answer(d, Events[n]).flags
    BY <1>1 DEF Receive
  <1>4. \A d \in Named : d \in Asked /\ Reports(d, Events[n]) = Answer(d, Events[n]).fires \ fired[d]
    BY DEF Asked, Named, Reports, News
  <1>5. /\ seen'["stuck"] = OpenRuns(seen["stuck"], Events[n])
        /\ fired'["stuck"] = fired["stuck"] \ Ended(Events[n])
        /\ flagged'["stuck"] = flagged["stuck"]
    BY <1>2 DEF Receive
  <1>6. \A d \in Named : fired'[d] = fired[d] \cup Answer(d, Events[n]).fires
    BY <1>3, <1>4
  <1> QED  BY <1>3, <1>5, <1>6

\* A detector that learns of one key, or forgets it, keeps the others.
LEMMA OtherKey ==
    ASSUME NEW f, NEW q, NEW k, q # k, NEW v
    PROVE  /\ k \in DOMAIN Put(f, q, v) <=> k \in DOMAIN f
           /\ k \in DOMAIN f => Put(f, q, v)[k] = f[k]
           /\ k \in DOMAIN Drop(f, q) <=> k \in DOMAIN f
           /\ k \in DOMAIN f => Drop(f, q)[k] = f[k]
  BY DEF Put, Drop

LEMMA OtherKeyKept ==
    ASSUME NEW f, NEW g, NEW q, NEW k, NEW d, NEW v, g \in {f, Put(f, q, v), Drop(f, q)}, g = f \/ q # k
    PROVE  /\ k \in DOMAIN g <=> k \in DOMAIN f
           /\ k \in DOMAIN f => g[k] = f[k]
           /\ Get(g, k, d) = Get(f, k, d)
  <1>1. CASE g = f
    BY <1>1
  <1>2. CASE q # k
    <2>1. \/ g = f
          \/ /\ k \in DOMAIN g <=> k \in DOMAIN f
             /\ k \in DOMAIN f => g[k] = f[k]
      BY <1>2, OtherKey
    <2> QED  BY <2>1 DEF Get
  <1> QED  BY <1>1, <1>2

\* A detector that is asked before the catch-all learns and fires as it answers.
LEMMA NamedMoves ==
    ASSUME Typed, NEW n \in Scenarios[scenario].events, Receive(n), NEW d \in Named
    PROVE  /\ seen'[d] = Answer(d, Events[n]).state
           /\ fired'[d] = fired[d] \cup Answer(d, Events[n]).fires
  <1>1. d \in Asked
    BY DEF Asked
  <1> QED  BY <1>1, DetectorMoves

LEMMA TypesStart == Init => Typed
  <1> SUFFICES ASSUME Init PROVE Typed
    OBVIOUS
  <1>1. Scenarios[scenario].ticks \in Nat
    BY TraceAssumption DEF Init
  <1>2. HistTypes
    BY <1>1 DEF Init, HistTypes, Entries, Ev
  <1>3. /\ DOMAIN seen = Detectors /\ DOMAIN fired = Detectors /\ DOMAIN flagged = Detectors
        /\ \A d \in Detectors : seen[d] = <<>> /\ flagged[d] = {}
        /\ spawned = {} /\ "stuck" \in Detectors /\ "pingpong" \in Detectors
    BY DEF Init, Detectors, Asked, Named
  <1>4. DOMAIN seen["stuck"] = {} /\ DOMAIN seen["pingpong"] = {}
    BY <1>3
  <1> QED  BY <1>2, <1>3, <1>4 DEF Typed, StateTypes

LEMMA TypesKept == Typed /\ [Next]_vars => Typed'
  <1> SUFFICES ASSUME Typed, [Next]_vars PROVE Typed'
    OBVIOUS
  <1>0. HistTypes' /\ StateTypes
    BY HistKept DEF Typed
  <1>1. now \in Nat /\ now' \in Nat /\ now <= now' /\ scenario' = scenario
    <2>1. scenario' = scenario
      BY DEF Next, Receive, Sweep, Reset, Tick, vars
    <2>2. now \in Nat
      BY TraceAssumption DEF Typed, HistTypes
    <2>3. now' = now \/ now' = now + 1
      BY DEF Next, Receive, Sweep, Reset, Tick, vars
    <2> QED  BY <2>1, <2>2, <2>3
  <1>2. Sources' = Sources /\ Tos' = Tos
    BY <1>1 DEF Sources, Tos
  <1>3. /\ "stuck" \in Detectors /\ "pingpong" \in Detectors /\ "anomaly" \in Detectors
        /\ \A d \in Detectors : d # "stuck" => d \in Asked
    BY DEF Detectors, Asked, Named
  <1>4. CASE \E n \in Scenarios[scenario].events : Receive(n)
    <2>1. PICK n \in Scenarios[scenario].events : Receive(n)
      BY <1>4
    <2> DEFINE e == Events[n]
    <2>2. e.w \in Workspaces /\ e.source \in Sources /\ e.to \in Tos
      BY EventTypes
    <2>3. DOMAIN seen' = Detectors /\ DOMAIN fired' = Detectors /\ DOMAIN flagged' = Detectors
      BY <2>1 DEF Receive
    <2> HIDE DEF e
    <2>4. seen'["stuck"] = OpenRuns(seen["stuck"], e) /\ now' = now
      BY <2>1, DetectorMoves, EventIsAdded DEF e
    <2>5. \A r \in DOMAIN seen'["stuck"] : seen'["stuck"][r] \in [ts : 0..now', source : Sources]
      BY <1>0, <1>1, <2>2, <2>4 DEF StateTypes, OpenRuns, Put, Drop
    <2>6. seen'["pingpong"] = PingPong(seen["pingpong"], e, now).state
      BY <2>1, <1>3, DetectorMoves, AnswersAre DEF e
    <2>7. /\ \A r \in DOMAIN seen'["pingpong"] : seen'["pingpong"][r].agents \subseteq Sources \cup Tos
          /\ PingPong(seen["pingpong"], e, now).flags \subseteq Sources \cup Tos
      <3> DEFINE s == seen["pingpong"]
                 new == [edge |-> <<>>, n |-> 0, last |-> now, agents |-> {}]
                 old == Get(s, e.run, new)
                 c == IF now - old.last > Window THEN new ELSE old
                 m == IF c.edge = <<e.to, e.source>> THEN c.n + 1
                      ELSE IF c.edge # <<>> THEN 1 ELSE 0
                 agents == c.agents \cup {e.source, e.to}
                 next == [edge |-> <<e.source, e.to>>, n |-> m, last |-> now, agents |-> agents]
      <3>1. agents \subseteq Sources \cup Tos
        <4>1. old.agents \subseteq Sources \cup Tos
          BY <1>0 DEF StateTypes, Get
        <4> HIDE DEF old
        <4> QED  BY <4>1, <2>2
      <3>2. \/ PingPong(s, e, now).state = s /\ PingPong(s, e, now).flags = {}
            \/ PingPong(s, e, now).state = Put(s, e.run, next) /\ PingPong(s, e, now).flags = agents
        BY DEF PingPong, Ignore, Judge
      <3> HIDE DEF agents
      <3>3. next.agents = agents
        OBVIOUS
      <3> HIDE DEF next
      <3>4. \A r \in DOMAIN s : s[r].agents \subseteq Sources \cup Tos
        BY <1>0 DEF StateTypes
      <3> HIDE DEF s
      <3>5. seen'["pingpong"] = PingPong(s, e, now).state
        BY <2>6 DEF s
      <3>6. \A r \in DOMAIN PingPong(s, e, now).state :
                PingPong(s, e, now).state[r].agents \subseteq Sources \cup Tos
        BY <3>1, <3>2, <3>3, <3>4 DEF Put
      <3> QED  BY <3>1, <3>2, <3>5, <3>6 DEF s
    <2>8. \A d \in Detectors \ {"anomaly"} : flagged'[d] \subseteq Sources \cup Tos
      <3> SUFFICES ASSUME NEW d \in Detectors \ {"anomaly"} PROVE flagged'[d] \subseteq Sources \cup Tos
        OBVIOUS
      <3>1. CASE d = "stuck"
        BY <3>1, <1>0, <2>1, DetectorMoves DEF StateTypes
      <3>2. CASE d # "stuck"
        <4>1. Answer(d, e).flags \subseteq Sources \cup Tos
          <5>1. CASE d = "pingpong"
            BY <2>7, <5>1, AnswersAre
          <5>2. CASE d # "pingpong"
            <6>1. d \in Asked \ {"anomaly", "pingpong"}
              BY <1>3, <3>2, <5>2
            <6>2. Answer(d, e).flags \subseteq {e.source}
              BY <6>1, FlagsAreSources
            <6> QED  BY <2>2, <6>2
          <5> QED  BY <5>1, <5>2
        <4>2. flagged'[d] = flagged[d] \/ flagged'[d] = flagged[d] \cup Answer(d, e).flags
          BY <1>3, <2>1, <3>2, DetectorMoves DEF e
        <4> QED  BY <4>1, <4>2, <1>0 DEF StateTypes
      <3> QED  BY <3>1, <3>2
    <2>9. \A s \in spawned' : s.class \in Detectors /\ s.w \in Workspaces
      <3>1. \A s \in Signals(e) : s.class \in Asked /\ s.w = e.w
        BY DEF Signals
      <3>2. spawned' = spawned \cup Signals(e)
        BY <2>1 DEF Receive, e
      <3> QED  BY <3>1, <3>2, <1>0, <2>2 DEF StateTypes, Detectors
    <2> QED  BY <1>0, <1>2, <2>3, <2>5, <2>7, <2>8, <2>9 DEF Typed, StateTypes
  <1>5. CASE Sweep
    <2>1. /\ seen' = seen /\ now' = now /\ DOMAIN fired' = Detectors /\ DOMAIN flagged' = Detectors
      BY <1>0, <1>5 DEF Sweep, StateTypes
    <2>2. \A d \in Detectors : d # "stuck" => flagged'[d] = flagged[d]
      BY <1>0, <1>5 DEF Sweep, StateTypes
    <2>3. flagged'["stuck"] \subseteq Sources \cup Tos
      BY <1>0, <1>3, <1>5 DEF Sweep, StateTypes
    <2>4. \A s \in spawned' : s.class \in Detectors /\ s.w \in Workspaces
      <3>1. PICK S : spawned' = spawned \cup {[class |-> "stuck", key |-> <<r>>, w |-> Default] : r \in S}
        BY <1>5 DEF Sweep
      <3>2. \A s \in spawned : s.class \in Detectors /\ s.w \in Workspaces
        BY <1>0 DEF StateTypes
      <3>3. "stuck" \in Detectors /\ Default \in Workspaces
        BY TraceAssumption DEF Detectors
      <3>4. ASSUME NEW s \in spawned' PROVE s.class \in Detectors /\ s.w \in Workspaces
        <4>1. CASE s \in spawned
          BY <3>2, <4>1
        <4>2. CASE s \notin spawned
          <5>1. s.class = "stuck" /\ s.w = Default
            BY <3>1, <4>2
          <5> QED  BY <3>3, <5>1
        <4> QED  BY <4>1, <4>2
      <3> QED  BY <3>4
    <2> QED  BY <1>0, <1>2, <2>1, <2>2, <2>3, <2>4 DEF Typed, StateTypes
  <1>6. CASE \E w \in Workspaces : Reset(w)
    <2>1. PICK w \in Workspaces : Reset(w)
      BY <1>6
    <2>2. /\ DOMAIN seen' = Detectors /\ DOMAIN fired' = Detectors /\ DOMAIN flagged' = Detectors
          /\ \A d \in Detectors \ {"anomaly"} : seen'[d] = <<>> /\ flagged'[d] = {}
          /\ spawned' = spawned
      BY <2>1 DEF Reset
    <2>3. DOMAIN seen'["stuck"] = {} /\ DOMAIN seen'["pingpong"] = {}
      BY <1>3, <2>2
    <2> QED  BY <1>0, <2>2, <2>3 DEF Typed, StateTypes
  <1>7. CASE Tick
    <2>1. UNCHANGED <<seen, fired, flagged, spawned>>
      BY <1>7 DEF Tick
    <2>2. \A r \in DOMAIN seen["stuck"] : seen["stuck"][r] \in [ts : 0..now', source : Sources]
      BY <1>0, <1>1 DEF StateTypes
    <2> QED  BY <1>0, <1>2, <2>1, <2>2 DEF Typed, StateTypes
  <1>8. CASE UNCHANGED vars
    BY <1>0, <1>2, <1>8 DEF vars, Typed, StateTypes
  <1> QED  BY <1>4, <1>5, <1>6, <1>7, <1>8 DEF Next

LEMMA TypesHold == Spec => []Typed
  BY TypesStart, TypesKept, PTL DEF Spec

\* Type correctness: times never lie ahead, only sources and their partners
\* are flagged, and a signal belongs to a known detector and workspace.
THEOREM TypeCorrect == Spec => []TypeOK
  <1>1. Typed => TypeOK
    BY DEF Typed, HistTypes, StateTypes, TypeOK, Tos
  <1> QED  BY <1>1, TypesHold, PTL

-----------------------------------------------------------------------------
(* The catch-all. *)

\* What was flagged before the catch-all was asked is flagged when it has
\* answered: no detector it defers to fires in between.
THEOREM CatchAllDefers == Spec => GenericDefers
  <1>1. ASSUME Typed, [Next]_vars, NEW s \in Sources, <<s>> \in fired'["generic"] \ fired["generic"]
        PROVE  /\ <<hist'[Len(hist')].w, s>> \notin flagged'["anomaly"]
               /\ \A d \in (Named \ AskedAfterGeneric) \ {"anomaly"} : s \notin flagged'[d]
    <2>1. "generic" \in Detectors /\ "generic" \in Asked /\ "generic" # "anomaly"
      BY DEF Detectors, Asked
    <2>2. ~ UNCHANGED fired
      BY <1>1
    <2>3. ~ Sweep /\ ~ Tick /\ ~ \E w \in Workspaces : Reset(w)
      BY <1>1, <2>1 DEF Sweep, Tick, Reset, Typed, StateTypes
    <2>4. PICK n \in Scenarios[scenario].events : Receive(n)
      BY <1>1, <2>2, <2>3 DEF Next, vars
    <2> DEFINE e == Events[n]
    <2>5. <<s>> \in Reports("generic", e)
      <3>1. fired'["generic"] = fired["generic"] \cup Reports("generic", e)
        BY <1>1, <2>1, <2>4, DetectorMoves
      <3> QED  BY <1>1, <3>1
    <2>6. ~ Owned(e, FlaggedBefore(e)) /\ <<s>> \in Answer("generic", e).fires
      BY <2>5 DEF Reports, News
    <2>7. s = e.source
      <3>1. ASSUME NEW k PROVE Generic(k, e).fires \subseteq {<<e.source>>}
        BY DEF Generic, Ignore, Judge
      <3>2. <<s>> \in {<<e.source>>}
        BY <2>6, <3>1, AnswersAre
      <3> QED  BY <3>2
    <2>8. hist'[Len(hist')].w = e.w
      <3>1. /\ Len(hist') = Len(hist) + 1
            /\ hist'[Len(hist) + 1] = [ev |-> n, w |-> Events[n].w, at |-> now]
        BY <1>1, <2>4, EventIsAdded
      <3> QED  BY <3>1
    <2>9. \A d \in Named \ AskedAfterGeneric : flagged'[d] = FlaggedBefore(e)[d]
      <3> SUFFICES ASSUME NEW d \in Named \ AskedAfterGeneric PROVE flagged'[d] = FlaggedBefore(e)[d]
        OBVIOUS
      <3>1. d \in Asked /\ d \in Detectors /\ d # "generic"
        BY DEF Named, Asked, Detectors
      <3>2. flagged'[d] = IF News(d, e) = {} THEN flagged[d] ELSE flagged[d] \cup Answer(d, e).flags
        BY <1>1, <2>4, <3>1, DetectorMoves DEF Reports
      <3> QED  BY <3>1, <3>2 DEF FlaggedBefore, Flagged
    <2>10. "anomaly" \in Named \ AskedAfterGeneric
      BY DEF Named, AskedAfterGeneric
    <2>11. /\ <<e.w, e.source>> \notin FlaggedBefore(e)["anomaly"]
           /\ \A d \in Named \ {"anomaly"} : e.source \notin FlaggedBefore(e)[d]
      BY <2>6 DEF Owned
    <2> QED  BY <2>7, <2>8, <2>9, <2>10, <2>11
  <1>2. Typed /\ [Next]_vars =>
        [\A s \in Sources : <<s>> \in fired'["generic"] \ fired["generic"] =>
            /\ <<hist'[Len(hist')].w, s>> \notin flagged'["anomaly"]
            /\ \A d \in (Named \ AskedAfterGeneric) \ {"anomaly"} : s \notin flagged'[d]]_vars
    BY <1>1
  <1> QED  BY <1>2, TypesHold, PTL DEF Spec, GenericDefers

-----------------------------------------------------------------------------
(* The trace that the resets have left. *)

\* An event lengthens every trace by one, and says what was sent.
LEMMA TraceGrows ==
    ASSUME Typed, NEW n \in Scenarios[scenario].events, Receive(n)
    PROVE  /\ Len(hist) \in Nat /\ Len(hist) + 1 \notin DOMAIN hist
           /\ Events[hist'[Len(hist) + 1].ev] = Events[n]
           /\ hist'[Len(hist) + 1].ev # "reset" /\ hist'[Len(hist) + 1].at = now
           /\ \A i \in DOMAIN hist : hist'[i] = hist[i]
           /\ \A W : Since(W)' = Since(W) \cup {Len(hist) + 1}
  <1> DEFINE L == Len(hist) + 1
  <1>1. /\ Len(hist) \in Nat /\ DOMAIN hist = 1..Len(hist)
        /\ Len(hist') = L /\ DOMAIN hist' = 1..L
        /\ \A i \in DOMAIN hist : hist'[i] = hist[i]
        /\ hist'[L] = [ev |-> n, w |-> Events[n].w, at |-> now]
    BY EventIsAdded
  <1>2. n # "reset"
    BY EventTypes
  <1>3. ASSUME NEW W PROVE Since(W)' = Since(W) \cup {L}
    <2>1. ASSUME NEW i \in DOMAIN hist'
          PROVE  (i \in Since(W)') <=> (i \in Since(W) \/ i = L)
      BY <1>1, <1>2, <2>1 DEF Since
    <2>2. Since(W)' \subseteq DOMAIN hist' /\ Since(W) \cup {L} \subseteq DOMAIN hist'
      BY <1>1 DEF Since
    <2> QED  BY <2>1, <2>2
  <1> QED  BY <1>1, <1>2, <1>3

\* A reset empties the traces it is about and leaves the others alone.
LEMMA TraceIsCut ==
    ASSUME Typed, NEW w \in Workspaces, Reset(w)
    PROVE  /\ \A i \in DOMAIN hist : hist'[i] = hist[i]
           /\ \A W : Since(W)' = IF w \in W THEN {} ELSE Since(W)
  <1> DEFINE L == Len(hist) + 1
  <1>1. /\ Len(hist) \in Nat /\ DOMAIN hist = 1..Len(hist)
        /\ Len(hist') = L /\ DOMAIN hist' = 1..L
        /\ \A i \in DOMAIN hist : hist'[i] = hist[i]
        /\ hist'[L] = [ev |-> "reset", w |-> w, at |-> now]
    BY ResetIsAdded
  <1>2. ASSUME NEW W PROVE Since(W)' = IF w \in W THEN {} ELSE Since(W)
    <2>1. ASSUME NEW i \in DOMAIN hist'
          PROVE  (i \in Since(W)') <=> (w \notin W /\ i \in Since(W))
      BY <1>1, <2>1 DEF Since
    <2>2. Since(W)' \subseteq DOMAIN hist' /\ Since(W) \subseteq DOMAIN hist'
      BY <1>1 DEF Since
    <2> QED  BY <2>1, <2>2
  <1> QED  BY <1>1, <1>2

LEMMA SinceIsPast ==
    ASSUME Typed, NEW W
    PROVE  Since(W) \subseteq 1..Len(hist) /\ Len(hist) \in Nat /\ IsFiniteSet(Since(W))
  <1>1. Len(hist) \in Nat /\ Since(W) \subseteq 1..Len(hist)
    BY DEF Typed, HistTypes, Since
  <1>2. PICK m \in Nat : m = Len(hist)
    BY <1>1
  <1>3. IsFiniteSet(1..m)
    BY FS_Interval
  <1> QED  BY <1>1, <1>2, <1>3, FS_Subset

\* The other steps add no event and touch no detector but the watchdog's.
LEMMA TraceStays ==
    ASSUME Typed, Sweep \/ Tick \/ UNCHANGED vars
    PROVE  /\ hist' = hist /\ scenario' = scenario /\ seen' = seen
           /\ \A W : Since(W)' = Since(W)
           /\ \A d \in Asked : fired'[d] = fired[d]
  <1>1. hist' = hist /\ scenario' = scenario /\ seen' = seen
    BY DEF Sweep, Tick, vars
  <1>2. \A d \in Asked : fired'[d] = fired[d]
    BY DEF Sweep, Tick, vars, Typed, StateTypes, Asked, Named, Detectors
  <1> QED  BY <1>1, <1>2 DEF Since

-----------------------------------------------------------------------------
(* The watchdog. *)

\* An open run is known by the last of its starts, which nothing has touched.
OpenIsLast == \A r \in DOMAIN seen["stuck"] : \E i \in Trace :
    /\ Ev(i).run = r /\ Ev(i).kind \in StartKinds /\ seen["stuck"][r].ts = hist[i].at
    /\ \A j \in Trace : j > i /\ Ev(j).run = r => Ev(j).kind \notin StartKinds \cup EndKinds

LEMMA OpenIsLastKept == Typed /\ OpenIsLast /\ [Next]_vars => OpenIsLast'
  <1> SUFFICES ASSUME Typed, OpenIsLast, [Next]_vars PROVE OpenIsLast'
    OBVIOUS
  <1>1. CASE \E n \in Scenarios[scenario].events : Receive(n)
    <2>1. PICK n \in Scenarios[scenario].events : Receive(n)
      BY <1>1
    <2> DEFINE e == Events[n]
               L == Len(hist) + 1
    <2>2. /\ Len(hist) \in Nat /\ Trace' = Trace \cup {L}
          /\ Events[hist'[L].ev] = e /\ hist'[L].at = now
      BY <2>1, TraceGrows DEF Trace
    <2>3. Trace \subseteq 1..Len(hist) /\ \A i \in Trace : hist'[i] = hist[i]
      BY <2>1, SinceIsPast, TraceGrows DEF Trace, Typed, HistTypes
    <2>4. seen'["stuck"] = OpenRuns(seen["stuck"], e)
      BY <2>1, DetectorMoves
    <2> SUFFICES ASSUME NEW r \in DOMAIN seen'["stuck"]
                 PROVE  \E i \in Trace' :
                    /\ Events[hist'[i].ev].run = r /\ Events[hist'[i].ev].kind \in StartKinds
                    /\ seen'["stuck"][r].ts = hist'[i].at
                    /\ \A j \in Trace' : j > i /\ Events[hist'[j].ev].run = r =>
                            Events[hist'[j].ev].kind \notin StartKinds \cup EndKinds
      BY DEF OpenIsLast, Ev
    <2> HIDE DEF e, L
    <2>5. CASE r = e.run /\ e.kind \in StartKinds
      <3>1. seen'["stuck"][r].ts = now
        BY <2>4, <2>5 DEF OpenRuns, Put
      <3>2. L \in Trace' /\ \A j \in Trace' : ~ j > L
        BY <2>2, <2>3 DEF L
      <3> QED  BY <2>2, <2>5, <3>1, <3>2
    <2>6. CASE ~ (r = e.run /\ e.kind \in StartKinds)
      <3>1. /\ r \in DOMAIN seen["stuck"] /\ seen'["stuck"][r] = seen["stuck"][r]
            /\ r = e.run => e.kind \notin StartKinds \cup EndKinds
        BY <2>4, <2>6 DEF OpenRuns, Put, Drop
      <3>2. PICK i \in Trace :
                /\ Ev(i).run = r /\ Ev(i).kind \in StartKinds /\ seen["stuck"][r].ts = hist[i].at
                /\ \A j \in Trace : j > i /\ Ev(j).run = r => Ev(j).kind \notin StartKinds \cup EndKinds
        BY <3>1 DEF OpenIsLast
      <3> QED  BY <2>2, <2>3, <3>1, <3>2 DEF Ev
    <2> QED  BY <2>5, <2>6
  <1>2. CASE \E w \in Workspaces : Reset(w)
    <2>1. DOMAIN seen'["stuck"] = {}
      BY <1>2 DEF Reset, Detectors
    <2> QED  BY <2>1 DEF OpenIsLast
  <1>3. CASE Sweep \/ Tick \/ UNCHANGED vars
    <2>1. hist' = hist /\ seen' = seen /\ Trace' = Trace
      BY <1>3, TraceStays DEF Trace
    <2> QED  BY <2>1 DEF OpenIsLast, Ev
  <1> QED  BY <1>1, <1>2, <1>3 DEF Next

LEMMA OpenIsLastHolds == Spec => []OpenIsLast
  <1>1. Init => OpenIsLast
    <2>1. Init => DOMAIN seen["stuck"] = {}
      BY DEF Init, Detectors
    <2> QED  BY <2>1 DEF OpenIsLast
  <1> QED  BY <1>1, OpenIsLastKept, TypesHold, PTL DEF Spec

\* What the watchdog reports has been silent: the last start of the run is
\* long enough ago, and no start or end of it came later.
THEOREM StallsAreSilent == Spec => OnlyStalls
  <1>1. ASSUME Typed, OpenIsLast, [Next]_vars, NEW r \in Runs, <<r>> \in fired'["stuck"] \ fired["stuck"]
        PROVE  Silent(r)
    <2>1. \A n \in Scenarios[scenario].events : ~ Receive(n)
      BY <1>1, DetectorMoves
    <2>2. \A w \in Workspaces : ~ Reset(w)
      BY <1>1 DEF Reset, Detectors
    <2>3. Sweep
      BY <1>1, <2>1, <2>2 DEF Next, Tick, vars
    <2>4. /\ r \in DOMAIN seen["stuck"] /\ now - seen["stuck"][r].ts >= StuckTicks
      <3>1. DOMAIN fired = Detectors /\ "stuck" \in Detectors
        BY <1>1 DEF Typed, StateTypes, Detectors
      <3>2. PICK S : /\ fired' = [fired EXCEPT !["stuck"] = @ \cup {<<x>> : x \in S}]
                     /\ \A x \in S : x \in DOMAIN seen["stuck"] /\ now - seen["stuck"][x].ts >= StuckTicks
        <4> DEFINE S == {x \in DOMAIN seen["stuck"] : <<x>> \notin fired["stuck"] /\ now - seen["stuck"][x].ts >= StuckTicks}
        <4>1. fired' = [fired EXCEPT !["stuck"] = @ \cup {<<x>> : x \in S}]
          BY <2>3 DEF Sweep
        <4>2. \A x \in S : x \in DOMAIN seen["stuck"] /\ now - seen["stuck"][x].ts >= StuckTicks
          OBVIOUS
        <4> HIDE DEF S
        <4> QED  BY <4>1, <4>2
      <3>3. fired'["stuck"] = fired["stuck"] \cup {<<x>> : x \in S}
        BY <3>1, <3>2
      <3>4. r \in S
        BY <1>1, <3>3
      <3> QED  BY <3>2, <3>4
    <2>5. PICK i \in Trace :
            /\ Ev(i).run = r /\ Ev(i).kind \in StartKinds /\ seen["stuck"][r].ts = hist[i].at
            /\ \A j \in Trace : j > i /\ Ev(j).run = r => Ev(j).kind \notin StartKinds \cup EndKinds
      BY <1>1, <2>4 DEF OpenIsLast
    <2> QED  BY <2>4, <2>5 DEF Silent
  <1>2. Typed /\ OpenIsLast /\ [Next]_vars =>
        [\A r \in Runs : <<r>> \in fired'["stuck"] \ fired["stuck"] => Silent(r)]_vars
    BY <1>1
  <1> QED  BY <1>2, TypesHold, OpenIsLastHolds, PTL DEF Spec, OnlyStalls

-----------------------------------------------------------------------------
(* The loop detector. *)

LEMMA PairsCount ==
    ASSUME NEW I, IsFiniteSet(I), NEW f
    PROVE  /\ IsFiniteSet({<<i, f[i]>> : i \in I})
           /\ Cardinality({<<i, f[i]>> : i \in I}) = Cardinality(I)
  <1> DEFINE T == {<<i, f[i]>> : i \in I}
             g == [i \in I |-> <<i, f[i]>>]
  <1>1. g \in Bijection(I, T)
    BY DEF Bijection, Injection, Surjection, IsInjective
  <1>2. ExistsBijection(I, T)
    BY <1>1 DEF ExistsBijection
  <1> QED  BY <1>2, FS_Bijection

\* The threshold that rises with the rate is met by the same numbers.
LEMMA RateMakesNoDifference ==
    ASSUME NEW n \in Nat
    PROVE  n >= LoopThreshold + n \div RateDivisor <=> n >= LoopThreshold
  <1> DEFINE q == n \div RateDivisor
  <1>1. /\ LoopThreshold \in Nat /\ RateDivisor \in Nat /\ LoopThreshold >= 1
        /\ RateDivisor >= LoopThreshold + 1
    BY TraceAssumption
  <1>2. q \in Nat /\ RateDivisor * q <= n
    BY <1>1
  <1> HIDE DEF q
  <1>3. CASE q = 0
    BY <1>1, <1>2, <1>3 DEF q
  <1>4. CASE q >= 1
    <2>1. n < LoopThreshold => q = 0
      BY <1>1 DEF q
    <2>2. (RateDivisor - 1) * q >= RateDivisor - 1
      BY <1>1, <1>2, <1>4
    <2>3. RateDivisor * q = (RateDivisor - 1) * q + q
      BY <1>1, <1>2
    <2>4. (RateDivisor - 1) * q \in Int
      BY <1>1, <1>2
    <2>5. n - q >= LoopThreshold
      BY <1>1, <1>2, <2>2, <2>3, <2>4
    <2> QED  BY <1>1, <1>2, <2>5 DEF q
  <1> QED  BY <1>2, <1>3, <1>4

LoopKeys == {CallKey(Events[n]) : n \in Scenarios[scenario].events}

\* The detector keeps the stamps of the calls that are still within the
\* window of the last one, and has fired when one call saw enough of them.
StampsKept(k) == Get(seen["anomaly"], k, {}) =
    {<<i, hist[i].at>> : i \in {x \in LoopCalls(k) : \A j \in LoopCalls(k) : hist[j].at - hist[x].at <= Window}}
LoopFired(k) == (k \in fired["anomaly"]) <=>
    \E j \in LoopCalls(k) : Cardinality(Recent(LoopCalls(k), j, Window)) >= LoopThreshold
LoopInv == \A k \in LoopKeys : StampsKept(k) /\ LoopFired(k)

LEMMA LoopsPast ==
    ASSUME Typed, NEW k
    PROVE  /\ LoopCalls(k) \subseteq 1..Len(hist) /\ IsFiniteSet(LoopCalls(k))
           /\ \A i \in LoopCalls(k) : hist[i].at \in Nat /\ hist[i].at <= now
  <1>1. LoopCalls(k) \subseteq Since({k[1]})
    BY DEF LoopCalls
  <1>2. Len(hist) \in Nat /\ Since({k[1]}) \subseteq 1..Len(hist) /\ IsFiniteSet(Since({k[1]}))
    BY SinceIsPast
  <1>3. \A i \in 1..Len(hist) : hist[i] \in Entries /\ hist[i].at <= now
    BY DEF Typed, HistTypes
  <1> QED  BY <1>1, <1>2, <1>3, FS_Subset DEF Entries

LEMMA LoopSeen ==
    ASSUME Typed, LoopInv, NEW n \in Scenarios[scenario].events, Receive(n), NEW k \in LoopKeys
    PROVE  StampsKept(k)' /\ LoopFired(k)'
  <1> DEFINE e == Events[n]
             L == Len(hist) + 1
             S == LoopCalls(k)
             mine == e.kind = "tool.start" /\ e.tool # NoTool /\ CallKey(e) = k
             Near(T, j) == {i \in {x \in T : x <= j} : hist'[j].at - hist'[i].at <= Window}
  <1>1. /\ Len(hist) \in Nat /\ Events[hist'[L].ev] = e /\ hist'[L].ev # "reset" /\ hist'[L].at = now
        /\ \A i \in DOMAIN hist : hist'[i] = hist[i]
        /\ Since({k[1]})' = Since({k[1]}) \cup {L} /\ L \notin DOMAIN hist
    BY TraceGrows
  <1>2. /\ S \subseteq 1..Len(hist) /\ IsFiniteSet(S) /\ \A i \in S : hist[i].at \in Nat /\ hist[i].at <= now
    BY LoopsPast
  <1>3. S \subseteq DOMAIN hist /\ now \in Nat /\ Window \in Nat /\ Since({k[1]}) \subseteq DOMAIN hist
    <2>1. Since({k[1]}) \subseteq DOMAIN hist /\ DOMAIN hist = 1..Len(hist)
      BY DEF Since, Typed, HistTypes
    <2>2. now \in Nat /\ Window \in Nat
      BY TraceAssumption DEF Typed, HistTypes
    <2> QED  BY <1>2, <2>1, <2>2
  <1>4. LoopCalls(k)' = IF mine THEN S \cup {L} ELSE S
    BY <1>1, <1>3 DEF LoopCalls, Ev
  <1>5. seen'["anomaly"] = RunawayLoop(seen["anomaly"], e, <<L, now>>).state
    BY NamedMoves, AnswersAre DEF Named
  <1>6. fired'["anomaly"] = fired["anomaly"] \cup RunawayLoop(seen["anomaly"], e, <<L, now>>).fires
    BY NamedMoves, AnswersAre DEF Named
  <1>7. \A i \in S : hist'[i] = hist[i]
    BY <1>1, <1>3
  <1>8. StampsKept(k) /\ LoopFired(k)
    BY DEF LoopInv
  <1>9. \A j \in S : Near(S, j) = Recent(S, j, Window)
    BY <1>7 DEF Recent, Upto
  <1>12. LoopFired(k)' <=> ((k \in fired'["anomaly"]) <=>
                \E j \in LoopCalls(k)' : Cardinality(Near(LoopCalls(k)', j)) >= LoopThreshold)
    BY DEF LoopFired, Recent, Upto
  <1>13. k \in fired["anomaly"] <=> \E j \in S : Cardinality(Recent(S, j, Window)) >= LoopThreshold
    BY <1>8 DEF LoopFired
  <1> HIDE DEF S, L, e, Near
  <1>10. CASE ~ mine
    <2>1. Get(seen'["anomaly"], k, {}) = Get(seen["anomaly"], k, {})
      BY <1>5, <1>10 DEF RunawayLoop, Ignore, Judge, Put, Get, CallKey
    <2>2. (k \in fired'["anomaly"]) <=> (k \in fired["anomaly"])
      BY <1>6, <1>10 DEF RunawayLoop, Ignore, Judge, CallKey
    <2>3. LoopCalls(k)' = S
      BY <1>4, <1>10
    <2>4. StampsKept(k)'
      BY <1>7, <1>8, <2>1, <2>3 DEF StampsKept, S
    <2>5. LoopFired(k)'
      BY <1>9, <1>12, <1>13, <2>2, <2>3
    <2> QED  BY <2>4, <2>5
  <1>11. CASE mine
    <2> DEFINE I == {i \in S \cup {L} : now - hist'[i].at <= Window}
               calls == Within(Get(seen["anomaly"], k, {}), <<L, now>>, Window)
    <2>1. LoopCalls(k)' = S \cup {L}
      BY <1>4, <1>11
    <2>2. {x \in S \cup {L} : \A j \in S \cup {L} : hist'[j].at - hist'[x].at <= Window} = I
      <3> DEFINE J == {x \in S \cup {L} : \A j \in S \cup {L} : hist'[j].at - hist'[x].at <= Window}
                 At(i) == hist'[i].at
      <3>1. At(L) = now /\ \A i \in S \cup {L} : At(i) \in Nat /\ At(i) <= now
        BY <1>1, <1>2, <1>3, <1>7
      <3>2. ASSUME NEW x \in S \cup {L}
            PROVE  (\A j \in S \cup {L} : At(j) - At(x) <= Window) <=> now - At(x) <= Window
        <4>1. ASSUME NEW j \in S \cup {L}, now - At(x) <= Window PROVE At(j) - At(x) <= Window
          <5> HIDE DEF At
          <5> QED  BY <1>3, <3>1, <4>1
        <4> HIDE DEF At
        <4> QED  BY <3>1, <4>1
      <3> QED  BY <3>2
    <2>3. calls = {<<i, hist'[i].at>> : i \in I}
      <3>1. Get(seen["anomaly"], k, {}) = {<<i, hist'[i].at>> : i \in
                {x \in S : \A j \in S : hist'[j].at - hist'[x].at <= Window}}
        BY <1>7, <1>8 DEF StampsKept, S
      <3> DEFINE Old == {x \in S : \A j \in S : hist'[j].at - hist'[x].at <= Window}
                 At(i) == hist'[i].at
      <3>2. calls = {c \in {<<i, At(i)>> : i \in Old} \cup {<<L, now>>} : c[2] >= now - Window}
        BY <3>1 DEF Within
      <3>3. At(L) = now /\ \A i \in S \cup {L} : At(i) \in Nat /\ At(i) <= now
        BY <1>1, <1>2, <1>3, <1>7
      <3>4. \A i \in S \cup {L} : now - At(i) <= Window <=> At(i) >= now - Window
        <4> HIDE DEF At
        <4> QED  BY <1>3, <3>3
      <3>5. \A i \in S : now - At(i) <= Window => i \in Old
        <4>1. ASSUME NEW i \in S, NEW j \in S, now - At(i) <= Window PROVE At(j) - At(i) <= Window
          <5> HIDE DEF At
          <5> QED  BY <1>3, <3>3, <4>1
        <4> QED  BY <4>1
      <3>6. I = {i \in Old \cup {L} : At(i) >= now - Window}
        BY <3>4, <3>5
      <3>7. calls = {<<i, At(i)>> : i \in {i \in Old \cup {L} : At(i) >= now - Window}}
        <4> HIDE DEF Old, At, calls
        <4> QED  BY <3>2, <3>3
      <3> QED  BY <3>6, <3>7
    <2> HIDE DEF calls
    <2>4. Get(seen'["anomaly"], k, {}) = calls
      BY <1>5, <1>11 DEF RunawayLoop, Judge, Put, Get, CallKey, calls
    <2>5. StampsKept(k)'
      BY <2>1, <2>2, <2>3, <2>4 DEF StampsKept
    <2>6. IsFiniteSet(I) /\ Cardinality(I) \in Nat
      BY <1>2, FS_AddElement, FS_Subset, FS_CardinalityType
    <2>7. Cardinality(calls) = Cardinality(I)
      <3> DEFINE f == [i \in I |-> hist'[i].at]
      <3>1. {<<i, hist'[i].at>> : i \in I} = {<<i, f[i]>> : i \in I}
        OBVIOUS
      <3> HIDE DEF f, I
      <3> QED  BY <2>3, <2>6, <3>1, PairsCount
    <2>8. Near(S \cup {L}, L) = I
      <3>1. \A i \in S \cup {L} : i <= L
        BY <1>1, <1>2 DEF L
      <3>2. hist'[L].at = now
        BY <1>1 DEF L
      <3> QED  BY <3>1, <3>2 DEF Near
    <2>9. \A j \in S : Near(S \cup {L}, j) = Near(S, j)
      <3>1. \A j \in S : ~ L <= j
        BY <1>1, <1>2 DEF L
      <3> QED  BY <3>1 DEF Near
    <2>10. (k \in fired'["anomaly"]) <=> (k \in fired["anomaly"] \/ Cardinality(I) >= LoopThreshold)
      <3>1. RunawayLoop(seen["anomaly"], e, <<L, now>>).fires =
                IF Cardinality(calls) >= LoopThreshold + Cardinality(calls) \div RateDivisor THEN {k} ELSE {}
        BY <1>11 DEF RunawayLoop, Judge, CallKey, calls
      <3>2. Cardinality(calls) >= LoopThreshold + Cardinality(calls) \div RateDivisor
                <=> Cardinality(I) >= LoopThreshold
        BY <2>6, <2>7, RateMakesNoDifference
      <3> HIDE DEF I
      <3> QED  BY <1>6, <3>1, <3>2
    <2> HIDE DEF I
    <2>11. LoopFired(k)'
      BY <1>9, <1>12, <1>13, <2>1, <2>8, <2>9, <2>10
    <2> QED  BY <2>5, <2>11
  <1> QED  BY <1>10, <1>11

LEMMA LoopsKept == Typed /\ LoopInv /\ [Next]_vars => LoopInv'
  <1> SUFFICES ASSUME Typed, LoopInv, [Next]_vars PROVE LoopInv'
    OBVIOUS
  <1>0. LoopKeys' = LoopKeys
    BY DEF Next, Receive, Reset, Sweep, Tick, vars, LoopKeys
  <1>1. CASE \E n \in Scenarios[scenario].events : Receive(n)
    BY <1>0, <1>1, LoopSeen DEF LoopInv
  <1>2. CASE \E w \in Workspaces : Reset(w)
    <2>1. PICK w \in Workspaces : Reset(w)
      BY <1>2
    <2> SUFFICES ASSUME NEW k \in LoopKeys PROVE StampsKept(k)' /\ LoopFired(k)'
      BY <1>0 DEF LoopInv
    <2>2. /\ \A i \in DOMAIN hist : hist'[i] = hist[i]
          /\ Since({k[1]})' = IF w \in {k[1]} THEN {} ELSE Since({k[1]})
          /\ Since({k[1]}) \subseteq DOMAIN hist
      <3>1. Since({k[1]}) \subseteq DOMAIN hist
        BY DEF Since
      <3> QED  BY <2>1, <3>1, TraceIsCut
    <2>3. /\ seen'["anomaly"] = [x \in {y \in DOMAIN seen["anomaly"] : y[1] # w} |-> seen["anomaly"][x]]
          /\ fired'["anomaly"] = {x \in fired["anomaly"] : x[1] # w}
      BY <2>1 DEF Reset, Detectors, Asked, Named
    <2>4. StampsKept(k) /\ LoopFired(k)
      BY DEF LoopInv
    <2>5. LoopCalls(k)' = IF k[1] = w THEN {} ELSE LoopCalls(k)
      BY <2>2 DEF LoopCalls, Ev
    <2>6. \A i \in LoopCalls(k) : hist'[i] = hist[i]
      BY <2>2 DEF LoopCalls
    <2>7. CASE k[1] = w
      BY <2>3, <2>5, <2>7 DEF StampsKept, LoopFired, Get
    <2>8. CASE k[1] # w
      <3>1. LoopCalls(k)' = LoopCalls(k)
        BY <2>5, <2>8
      <3>2. /\ Get(seen'["anomaly"], k, {}) = Get(seen["anomaly"], k, {})
            /\ (k \in fired'["anomaly"]) <=> (k \in fired["anomaly"])
        BY <2>3, <2>8 DEF Get
      <3>3. StampsKept(k)'
        BY <2>4, <2>6, <3>1, <3>2 DEF StampsKept
      <3>4. LoopFired(k)'
        BY <2>4, <2>6, <3>1, <3>2 DEF LoopFired, Recent, Upto
      <3> QED  BY <3>3, <3>4
    <2> QED  BY <2>7, <2>8
  <1>3. CASE Sweep \/ Tick \/ UNCHANGED vars
    <2>1. /\ hist' = hist /\ seen' = seen /\ fired'["anomaly"] = fired["anomaly"]
          /\ \A W : Since(W)' = Since(W)
      BY <1>3, TraceStays DEF Asked, Named
    <2>2. \A k : LoopCalls(k)' = LoopCalls(k)
      BY <2>1 DEF LoopCalls, Ev
    <2>3. ASSUME NEW k \in LoopKeys PROVE StampsKept(k)' /\ LoopFired(k)'
      <3>1. StampsKept(k) /\ LoopFired(k) /\ LoopCalls(k)' = LoopCalls(k)
        BY <2>2 DEF LoopInv
      <3>2. StampsKept(k)'
        BY <2>1, <3>1 DEF StampsKept
      <3>3. LoopFired(k)'
        BY <2>1, <3>1 DEF LoopFired, Recent, Upto
      <3> QED  BY <3>2, <3>3
    <2> QED  BY <1>0, <2>3 DEF LoopInv
  <1> QED  BY <1>1, <1>2, <1>3 DEF Next

\* A runaway loop is reported exactly when one call was started often enough
\* within the window, whatever the rate of its source, and whatever other
\* workspaces do or reset.
THEOREM LoopsCaught == Spec => []LoopsAreCaught
  <1>1. Init => LoopInv
    <2>1. Init => /\ DOMAIN seen["anomaly"] = {} /\ fired["anomaly"] = {}
                  /\ \A k : LoopCalls(k) = {}
      BY DEF Init, Detectors, Asked, Named, LoopCalls, Since
    <2> QED  BY <2>1 DEF LoopInv, StampsKept, LoopFired, Get
  <1>2. LoopInv => LoopsAreCaught
    <2> SUFFICES ASSUME LoopInv PROVE LoopsAreCaught
      OBVIOUS
    <2>1. ASSUME NEW n \in Scenarios[scenario].events
          PROVE  (CallKey(Events[n]) \in fired["anomaly"]) <=>
                    \E j \in LoopCalls(CallKey(Events[n])) :
                        Cardinality(Recent(LoopCalls(CallKey(Events[n])), j, Window)) >= LoopThreshold
      <3>1. LoopFired(CallKey(Events[n]))
        BY DEF LoopInv, LoopKeys
      <3> QED  BY <3>1 DEF LoopFired
    <2> QED  BY <2>1 DEF LoopsAreCaught, Sent
  <1> QED  BY <1>1, <1>2, LoopsKept, TypesHold, PTL DEF Spec

-----------------------------------------------------------------------------
(* Streaks: how long the one is that leads to the last member. *)

IsLast(S, l) == l \in S /\ \A x \in S : x <= l
Counts(S, Good, Joined, c) ==
    /\ c \in Nat
    /\ S = {} => c = 0
    /\ S # {} => \E l \in S : IsLast(S, l) /\ c = Cardinality(Streak(S, Good, Joined, l))
\* The count when one more member comes last.
Longer(c, L, Good, Joined) == IF L \in Good THEN IF L \in Joined THEN c + 1 ELSE 1 ELSE 0
SameOn(S, A, B) == \A x \in S : x \in A <=> x \in B

LEMMA StreakStays ==
    ASSUME NEW S, NEW G, NEW J, NEW G2, NEW J2, SameOn(S, G, G2), SameOn(S, J, J2)
    PROVE  /\ \A j : Streak(S, G2, J2, j) = Streak(S, G, J, j)
           /\ \A c : Counts(S, G2, J2, c) <=> Counts(S, G, J, c)
           /\ \A n : InARow(S, G2, J2, n) <=> InARow(S, G, J, n)
  <1>1. \A j : Streak(S, G2, J2, j) = Streak(S, G, J, j)
    BY DEF Streak, Upto, SameOn
  <1> QED  BY <1>1 DEF Counts, InARow

LEMMA StreakGrows ==
    ASSUME NEW S, S \subseteq Nat, IsFiniteSet(S), NEW L \in Nat, \A i \in S : i < L,
           NEW G, NEW J, NEW G2, NEW J2, SameOn(S, G, G2), SameOn(S, J, J2),
           NEW c, Counts(S, G, J, c)
    PROVE  /\ Counts(S \cup {L}, G2, J2, Longer(c, L, G2, J2))
           /\ \A n : InARow(S \cup {L}, G2, J2, n) <=> InARow(S, G, J, n) \/ Longer(c, L, G2, J2) >= n
  <1> DEFINE T == S \cup {L}
             new == Longer(c, L, G2, J2)
  <1> USE DEF Longer
  <1>1. \A j \in S : Streak(T, G2, J2, j) = Streak(S, G, J, j)
    <2>1. \A j \in S : ~ L <= j
      OBVIOUS
    <2>2. \A j \in S : Upto(T, j) = Upto(S, j)
      BY <2>1 DEF Upto
    <2> QED  BY <2>2 DEF Streak, Upto, SameOn
  <1>0. /\ L \in T /\ L \notin S
        /\ \A x \in S : x \in T /\ x \in Nat /\ x < L /\ ~ x >= L /\ ~ x > L
        /\ \A x \in T : x \in Nat /\ x <= L /\ L >= x /\ (x \in S => L > x) /\ (x = L \/ x \in S)
        /\ ~ L > L
    OBVIOUS
  <1>2. Upto(T, L) = T /\ IsLast(T, L) /\ L \notin S
    BY <1>0 DEF Upto, IsLast
  <1>9. \A i : i \in Streak(T, G2, J2, L) <=>
                i \in T /\ \A x \in T : (x >= i => x \in G2) /\ (x > i => x \in J2)
    BY <1>2 DEF Streak
  <1>3. Cardinality(Streak(T, G2, J2, L)) = new
    <2>1. CASE L \notin G2
      <3>1. Streak(T, G2, J2, L) = {}
        <4>1. \A i \in T : i \notin Streak(T, G2, J2, L)
          BY <1>0, <1>9, <2>1
        <4>2. Streak(T, G2, J2, L) \subseteq T
          BY <1>9
        <4> QED  BY <4>1, <4>2
      <3> QED  BY <2>1, <3>1, FS_EmptySet
    <2>2. CASE L \in G2 /\ (S = {} \/ L \notin J2)
      <3>1. Streak(T, G2, J2, L) = {L}
        <4>1. L \in Streak(T, G2, J2, L)
          BY <1>0, <1>9, <2>2
        <4>2. \A i \in S : i \notin Streak(T, G2, J2, L)
          BY <1>0, <1>9, <2>2
        <4>3. Streak(T, G2, J2, L) \subseteq T
          BY <1>9
        <4> QED  BY <1>0, <4>1, <4>2, <4>3
      <3>2. Cardinality({L}) = 1
        BY FS_Singleton
      <3> QED  BY <2>2, <3>1, <3>2 DEF Counts
    <2>3. CASE L \in G2 /\ S # {} /\ L \in J2
      <3>1. PICK l \in S : IsLast(S, l) /\ c = Cardinality(Streak(S, G, J, l))
        BY <2>3 DEF Counts
      <3>2. Upto(S, l) = S
        BY <3>1 DEF Upto, IsLast
      <3>3. Streak(T, G2, J2, L) = Streak(S, G, J, l) \cup {L}
        <4>1. L \in Streak(T, G2, J2, L)
          BY <1>0, <1>9, <2>3
        <4>2. \A i : i \in Streak(S, G, J, l) <=>
                i \in S /\ \A x \in S : (x >= i => x \in G2) /\ (x > i => x \in J2)
          BY <3>2 DEF Streak, SameOn
        <4>3. \A i \in S : i \in Streak(T, G2, J2, L) <=> i \in Streak(S, G, J, l)
          BY <1>0, <1>9, <2>3, <4>2
        <4>4. Streak(T, G2, J2, L) \subseteq T /\ Streak(S, G, J, l) \subseteq S
          BY <1>9, <4>2
        <4> QED  BY <1>0, <4>1, <4>3, <4>4
      <3>4. Streak(S, G, J, l) \subseteq S
        BY <3>2 DEF Streak
      <3>5. Cardinality(Streak(S, G, J, l) \cup {L}) = Cardinality(Streak(S, G, J, l)) + 1
        BY <1>2, <3>4, FS_Subset, FS_AddElement
      <3> QED  BY <2>3, <3>1, <3>3, <3>5
    <2> QED  BY <2>1, <2>2, <2>3
  <1>4. c \in Nat
    BY DEF Counts
  <1>5. new \in Nat
    BY <1>4
  <1> HIDE DEF new, T
  <1>6. Counts(T, G2, J2, new)
    BY <1>2, <1>3, <1>5 DEF Counts, T
  <1>7. ASSUME NEW n PROVE InARow(T, G2, J2, n) <=> InARow(S, G, J, n) \/ new >= n
    BY <1>1, <1>3 DEF InARow, T
  <1> QED  BY <1>6, <1>7 DEF new, T

\* Who joins the one before it is the same with a later member.
LEMMA PromptGrows ==
    ASSUME NEW S, S \subseteq Nat, NEW L \in Nat, \A i \in S : i < L, NEW i, NEW j \in S
    PROVE  i \in S \cup {L} /\ Neighbours(S \cup {L}, i, j) <=> i \in S /\ Neighbours(S, i, j)
  BY DEF Neighbours

LEMMA LastIsNeighbour ==
    ASSUME NEW S, S \subseteq Nat, NEW L \in Nat, \A i \in S : i < L, NEW l, IsLast(S, l), NEW i
    PROVE  i \in S \cup {L} /\ Neighbours(S \cup {L}, i, L) <=> i = l
  <1>1. CASE i = l
    BY <1>1 DEF Neighbours, IsLast
  <1>2. CASE i # l /\ i \in S
    <2>1. l \in S /\ ~ l <= i /\ ~ l >= L
      BY <1>2 DEF IsLast
    <2> QED  BY <1>2, <2>1 DEF Neighbours
  <1>3. CASE i # l /\ i \notin S
    BY <1>3 DEF Neighbours
  <1> QED  BY <1>1, <1>2, <1>3

\* An event, and what it leaves alone.
LEMMA TraceStep ==
    ASSUME Typed, NEW n \in Scenarios[scenario].events, Receive(n)
    PROVE  LET L == Len(hist) + 1 IN
           /\ L \in Nat /\ Trace' = Trace \cup {L} /\ L \notin Trace /\ L >= 1
           /\ Events[hist'[L].ev] = Events[n] /\ hist'[L].at = now
           /\ now \in Nat /\ now' = now /\ scenario' = scenario
           /\ \A i \in Trace : /\ i \in Nat /\ i < L /\ hist'[i] = hist[i]
                               /\ hist[i].at \in Nat /\ hist[i].at <= now
  <1>1. Trace \subseteq 1..Len(hist) /\ Len(hist) \in Nat
    BY SinceIsPast DEF Trace
  <1>2. DOMAIN hist = 1..Len(hist) /\ \A i \in DOMAIN hist : hist[i] \in Entries /\ hist[i].at <= now
    BY DEF Typed, HistTypes
  <1>3. \A i \in Trace : i \in DOMAIN hist /\ hist[i].at \in Nat /\ hist[i].at <= now
    BY <1>1, <1>2 DEF Entries
  <1>4. /\ Events[hist'[Len(hist) + 1].ev] = Events[n] /\ hist'[Len(hist) + 1].at = now
        /\ \A i \in DOMAIN hist : hist'[i] = hist[i]
        /\ Trace' = Trace \cup {Len(hist) + 1}
    BY TraceGrows DEF Trace
  <1>5. now \in Nat /\ now' = now /\ scenario' = scenario
    <2>1. now \in Nat
      BY TraceAssumption DEF Typed, HistTypes
    <2> QED  BY <2>1, EventIsAdded
  <1>6. \A i \in Trace : i \in Nat /\ i < Len(hist) + 1
    BY <1>1
  <1> QED  BY <1>1, <1>3, <1>4, <1>5, <1>6

LEMMA TraceIsPast ==
    ASSUME Typed
    PROVE  Trace \subseteq Nat /\ IsFiniteSet(Trace)
  BY SinceIsPast DEF Trace

-----------------------------------------------------------------------------
(* The storm detector. *)

\* Prompt in the next state.
NextPrompt(S) == {j \in S : \E i \in S : Neighbours(S, i, j) /\ hist'[j].at - hist'[i].at <= Window}

LEMMA PromptStep ==
    ASSUME Typed, NEW n \in Scenarios[scenario].events, Receive(n), NEW S, S \subseteq Trace
    PROVE  LET L == Len(hist) + 1 IN
           /\ NextPrompt(S) = Prompt(S)
           /\ SameOn(S, Prompt(S), NextPrompt(S \cup {L}))
           /\ \A l : IsLast(S, l) => (L \in NextPrompt(S \cup {L}) <=> now - hist[l].at <= Window)
  <1> DEFINE L == Len(hist) + 1
             T == S \cup {L}
  <1>1. /\ L \in Nat /\ hist'[L].at = now /\ S \subseteq Nat
        /\ \A i \in S : i \in Nat /\ i < L /\ hist'[i] = hist[i]
    BY TraceStep
  <1> HIDE DEF L
  <1>2. \A i, j : j \in S => (i \in T /\ Neighbours(T, i, j) <=> i \in S /\ Neighbours(S, i, j))
    BY <1>1, PromptGrows
  <1>3. \A l, i : IsLast(S, l) => (i \in T /\ Neighbours(T, i, L) <=> i = l)
    BY <1>1, LastIsNeighbour
  <1>4. NextPrompt(S) = Prompt(S)
    BY <1>1 DEF NextPrompt, Prompt
  <1>5. SameOn(S, Prompt(S), NextPrompt(T))
    BY <1>1, <1>2 DEF NextPrompt, Prompt, SameOn
  <1>6. ASSUME NEW l, IsLast(S, l)
        PROVE  L \in NextPrompt(T) <=> now - hist[l].at <= Window
    <2>1. l \in S /\ l \in T /\ L \in T /\ hist'[l] = hist[l]
      BY <1>1, <1>6 DEF IsLast
    <2> QED  BY <1>1, <1>3, <1>6, <2>1 DEF NextPrompt
  <1> QED  BY <1>4, <1>5, <1>6 DEF L

Args == {Events[m].args : m \in Scenarios[scenario].events}
Failures(k) == {i \in ToolCalls(k) : Ev(i).outcome = "transient"}
PromptCalls(k) == Prompt(ToolCalls(k))
StormCount(k) == Get(seen["retry_storm"], k, [count |-> 0, last |-> 0]).count

\* The detector counts the streak that leads to the last report of a call,
\* and remembers a call only while that was a failure.
StormState(k) ==
    /\ Counts(ToolCalls(k), Failures(k), PromptCalls(k), StormCount(k))
    /\ k \in DOMAIN seen["retry_storm"] =>
            \E l : IsLast(ToolCalls(k), l) /\ seen["retry_storm"][k].last = hist[l].at
Stormy(k) == InARow(ToolCalls(k), Failures(k), PromptCalls(k), MaxRetries + 1)
StormFired(s, t) == <<s, t>> \in fired["retry_storm"] <=> \E a \in Args : Stormy(<<s, t, a>>)
StormInv == /\ \A s, t, a : StormState(<<s, t, a>>)
            /\ \A s, t : StormFired(s, t)

\* One report: the count that the detector keeps, and when it fires.
LEMMA StormStep ==
    ASSUME Typed, StormInv, NEW n \in Scenarios[scenario].events, Receive(n), NEW s, NEW t, NEW a
    PROVE  LET e == Events[n]
               k == <<s, t, a>>
               mine == e.kind \in ToolKinds /\ e.tool # NoTool /\ <<e.source, e.tool, e.args>> = k
           IN  /\ StormState(k)'
               /\ Stormy(k)' <=> \/ Stormy(k)
                                 \/ mine /\ e.outcome = "transient" /\ StormCount(k)' > MaxRetries
               /\ mine => (<<s, t>> \in fired'["retry_storm"] <=>
                    \/ <<s, t>> \in fired["retry_storm"]
                    \/ e.outcome = "transient" /\ StormCount(k)' > MaxRetries)
  <1> DEFINE e == Events[n]
             k == <<s, t, a>>
             L == Len(hist) + 1
             S == ToolCalls(k)
             old == seen["retry_storm"]
             mine == e.kind \in ToolKinds /\ e.tool # NoTool /\ <<e.source, e.tool, e.args>> = k
  <1>1. /\ L \in Nat /\ Trace' = Trace \cup {L} /\ L \notin Trace
        /\ Events[hist'[L].ev] = e /\ hist'[L].at = now /\ now \in Nat
        /\ \A i \in Trace : /\ i \in Nat /\ i < L /\ hist'[i] = hist[i]
                            /\ hist[i].at \in Nat /\ hist[i].at <= now
    BY TraceStep
  <1>2. S \subseteq Trace /\ S \subseteq Nat /\ IsFiniteSet(S) /\ \A i \in S : i < L
    BY <1>1, TraceIsPast, FS_Subset DEF ToolCalls
  <1>3. /\ seen'["retry_storm"] = RetryStorm(old, e, now).state
        /\ fired'["retry_storm"] = fired["retry_storm"] \cup RetryStorm(old, e, now).fires
    BY NamedMoves, AnswersAre DEF Named
  <1>4. StormState(k) /\ StormCount(k) \in Nat /\ MaxRetries \in Nat /\ Window \in Nat
    <2>1. StormState(k)
      BY DEF StormInv
    <2>2. StormCount(k) \in Nat
      BY <2>1 DEF StormState, Counts
    <2> QED  BY <2>1, <2>2, TraceAssumption
  <1>5. ToolCalls(k)' = IF mine THEN S \cup {L} ELSE S
    BY <1>1 DEF ToolCalls, Ev
  <1>6. PromptCalls(k)' = NextPrompt(ToolCalls(k)')
    BY DEF PromptCalls, Prompt, NextPrompt
  <1>7. Failures(k)' = {i \in ToolCalls(k)' : Events[hist'[i].ev].outcome = "transient"}
    BY DEF Failures, Ev
  <1>8. SameOn(S, Failures(k), Failures(k)')
    BY <1>1, <1>2, <1>5, <1>7 DEF SameOn, Failures, Ev
  <1>9. /\ NextPrompt(S) = PromptCalls(k)
        /\ SameOn(S, PromptCalls(k), NextPrompt(S \cup {L}))
        /\ \A l : IsLast(S, l) => (L \in NextPrompt(S \cup {L}) <=> now - hist[l].at <= Window)
    BY <1>2, PromptStep DEF PromptCalls
  <1>10. CASE ~ mine
    <2>1. S = ToolCalls(k)' /\ SameOn(S, PromptCalls(k), PromptCalls(k)')
      BY <1>5, <1>6, <1>9, <1>10 DEF SameOn
    <2>2. /\ (k \in DOMAIN seen'["retry_storm"]) <=> k \in DOMAIN old
          /\ k \in DOMAIN old => seen'["retry_storm"][k] = old[k]
      <3> DEFINE other == <<e.source, e.tool, e.args>>
      <3>1. seen'["retry_storm"] = old \/ other # k
        BY <1>3, <1>10 DEF RetryStorm, Ignore
      <3>2. PICK v : seen'["retry_storm"] \in {old, Put(old, other, v), Drop(old, other)}
        BY <1>3 DEF RetryStorm, Ignore, Judge
      <3> HIDE DEF other, old
      <3> QED  BY <3>1, <3>2, OtherKeyKept
    <2>3. StormCount(k)' = StormCount(k)
      BY <2>2 DEF StormCount, Get
    <2>4. /\ Counts(S, Failures(k)', PromptCalls(k)', StormCount(k))
          /\ InARow(S, Failures(k)', PromptCalls(k)', MaxRetries + 1) <=> Stormy(k)
      BY <1>4, <1>8, <2>1, StreakStays DEF StormState, Stormy
    <2>5. StormState(k)'
      <3>1. Counts(ToolCalls(k), Failures(k), PromptCalls(k), StormCount(k))'
        BY <2>1, <2>3, <2>4
      <3>2. ASSUME k \in DOMAIN seen'["retry_storm"]
            PROVE  \E l : IsLast(S, l) /\ seen'["retry_storm"][k].last = hist'[l].at
        <4>1. PICK l : IsLast(S, l) /\ old[k].last = hist[l].at
          BY <1>4, <2>2, <3>2 DEF StormState
        <4>2. hist'[l] = hist[l]
          BY <1>1, <1>2, <4>1 DEF IsLast
        <4> QED  BY <2>2, <3>2, <4>1, <4>2
      <3> QED  BY <2>1, <3>1, <3>2 DEF StormState
    <2>6. Stormy(k)' <=> Stormy(k)
      BY <2>1, <2>4 DEF Stormy
    <2> QED  BY <1>10, <2>5, <2>6
  <1>11. CASE mine
    <2> DEFINE T == S \cup {L}
               c == StormCount(k)
               new == Longer(c, L, Failures(k)', PromptCalls(k)')
    <2>1. ToolCalls(k)' = T /\ IsLast(T, L)
      BY <1>1, <1>2, <1>5, <1>11 DEF IsLast
    <2>2. L \in Failures(k)' <=> e.outcome = "transient"
      BY <1>1, <1>7, <2>1
    <2>3. /\ Counts(T, Failures(k)', PromptCalls(k)', new)
          /\ InARow(T, Failures(k)', PromptCalls(k)', MaxRetries + 1) <=> Stormy(k) \/ new >= MaxRetries + 1
      <3>1. Counts(S, Failures(k), PromptCalls(k), c)
        BY <1>4 DEF StormState
      <3>2. SameOn(S, PromptCalls(k), PromptCalls(k)')
        BY <1>6, <1>9, <2>1
      <3>3. Stormy(k) <=> InARow(S, Failures(k), PromptCalls(k), MaxRetries + 1)
        BY DEF Stormy
      <3> HIDE DEF S, c, L
      <3> QED  BY <1>1, <1>2, <1>8, <3>1, <3>2, <3>3, StreakGrows
    <2>4. /\ StormCount(k)' = new
          /\ k \in DOMAIN seen'["retry_storm"] => seen'["retry_storm"][k].last = now
          /\ (<<s, t>> \in fired'["retry_storm"] <=>
                <<s, t>> \in fired["retry_storm"] \/ (e.outcome = "transient" /\ new > MaxRetries))
      <3>1. CASE e.outcome # "transient"
        <4>1. RetryStorm(old, e, now) = Ignore(Drop(old, k))
          BY <1>11, <3>1 DEF RetryStorm
        <4>2. k \notin DOMAIN seen'["retry_storm"] /\ fired'["retry_storm"] = fired["retry_storm"]
          BY <1>3, <4>1 DEF Ignore, Drop
        <4> QED  BY <2>2, <3>1, <4>2 DEF StormCount, Get, Longer
      <3>2. CASE e.outcome = "transient"
        <4> DEFINE burst == Get(old, k, [count |-> 0, last |-> now])
                   m == 1 + IF now - burst.last > Window THEN 0 ELSE burst.count
        <4>1. RetryStorm(old, e, now) = Judge(old, k, [count |-> m, last |-> now], m > MaxRetries,
                                              <<s, t>>, {e.source})
          BY <1>11, <3>2 DEF RetryStorm
        <4>2. m = new
          <5>1. CASE k \in DOMAIN old
            <6>1. PICK l : IsLast(S, l) /\ old[k].last = hist[l].at
              BY <1>4, <5>1 DEF StormState
            <6>2. hist[l].at \in Nat
              BY <1>1, <1>2, <6>1 DEF IsLast
            <6>3. L \in PromptCalls(k)' <=> ~ now - old[k].last > Window
              <7>1. L \in PromptCalls(k)' <=> now - hist[l].at <= Window
                BY <1>6, <1>9, <2>1, <6>1
              <7> QED  BY <1>1, <1>4, <6>1, <6>2, <7>1
            <6>4. burst = old[k] /\ c = old[k].count
              BY <5>1 DEF StormCount, Get
            <6> HIDE DEF burst, c
            <6> QED  BY <1>4, <2>2, <3>2, <6>3, <6>4 DEF c, Longer
          <5>2. CASE k \notin DOMAIN old
            <6>1. burst = [count |-> 0, last |-> now] /\ c = 0
              BY <5>2 DEF StormCount, Get
            <6> HIDE DEF burst, c
            <6> QED  BY <1>1, <1>4, <2>2, <3>2, <6>1 DEF Longer
          <5> QED  BY <5>1, <5>2
        <4> HIDE DEF m, new
        <4>3. /\ seen'["retry_storm"] = Put(old, k, [count |-> m, last |-> now])
              /\ fired'["retry_storm"] = fired["retry_storm"] \cup IF m > MaxRetries THEN {<<s, t>>} ELSE {}
          BY <1>3, <4>1 DEF Judge
        <4>4. k \in DOMAIN seen'["retry_storm"] /\ seen'["retry_storm"][k] = [count |-> m, last |-> now]
          BY <4>3 DEF Put
        <4> QED  BY <3>2, <4>2, <4>3, <4>4 DEF StormCount, Get
      <3> QED  BY <3>1, <3>2
    <2>5. new \in Nat
      BY <1>4 DEF Longer
    <2>6. new >= MaxRetries + 1 <=> e.outcome = "transient" /\ new > MaxRetries
      BY <1>4, <2>2, <2>5 DEF Longer
    <2> HIDE DEF new
    <2>7. StormState(k)'
      <3>1. Counts(ToolCalls(k), Failures(k), PromptCalls(k), StormCount(k))'
        BY <2>1, <2>3, <2>4
      <3>2. hist'[L].at = now
        BY <1>1
      <3> QED  BY <2>1, <2>4, <3>1, <3>2 DEF StormState
    <2>8. Stormy(k)' <=> Stormy(k) \/ (e.outcome = "transient" /\ new > MaxRetries)
      BY <2>1, <2>3, <2>6 DEF Stormy
    <2> QED  BY <1>11, <2>4, <2>7, <2>8
  <1> QED  BY <1>10, <1>11


LEMMA StormsKept == Typed /\ StormInv /\ [Next]_vars => StormInv'
  <1> SUFFICES ASSUME Typed, StormInv, [Next]_vars PROVE StormInv'
    OBVIOUS
  <1>0. Args' = Args /\ MaxRetries \in Nat
    BY TraceAssumption DEF Next, Receive, Reset, Sweep, Tick, vars, Args
  <1>1. CASE \E n \in Scenarios[scenario].events : Receive(n)
    <2>1. PICK n \in Scenarios[scenario].events : Receive(n)
      BY <1>1
    <2> DEFINE e == Events[n]
               tool == e.kind \in ToolKinds /\ e.tool # NoTool
    <2>2. \A s, t, a : StormState(<<s, t, a>>)'
      BY <2>1, StormStep
    <2>3. ASSUME NEW s, NEW t PROVE StormFired(s, t)'
      <3>1. StormFired(s, t)
        BY DEF StormInv
      <3>2. CASE tool /\ e.source = s /\ e.tool = t
        <4> DEFINE k == <<s, t, e.args>>
        <4>1. e.args \in Args
          BY DEF Args
        <4>2. \A a : a # e.args => (Stormy(<<s, t, a>>)' <=> Stormy(<<s, t, a>>))
          BY <2>1, StormStep
        <4>3. /\ Stormy(k)' <=> Stormy(k) \/ (e.outcome = "transient" /\ StormCount(k)' > MaxRetries)
              /\ (<<s, t>> \in fired'["retry_storm"]) <=>
                    \/ <<s, t>> \in fired["retry_storm"]
                    \/ e.outcome = "transient" /\ StormCount(k)' > MaxRetries
          BY <2>1, <3>2, StormStep
        <4> QED  BY <1>0, <3>1, <4>1, <4>2, <4>3 DEF StormFired
      <3>3. CASE ~ (tool /\ e.source = s /\ e.tool = t)
        <4>1. \A a : Stormy(<<s, t, a>>)' <=> Stormy(<<s, t, a>>)
          <5>1. \A a : <<e.source, e.tool, e.args>> = <<s, t, a>> => e.source = s /\ e.tool = t
            OBVIOUS
          <5>2. ASSUME NEW a PROVE Stormy(<<s, t, a>>)' <=>
                    \/ Stormy(<<s, t, a>>)
                    \/ /\ tool /\ <<e.source, e.tool, e.args>> = <<s, t, a>>
                       /\ e.outcome = "transient" /\ StormCount(<<s, t, a>>)' > MaxRetries
            BY <2>1, StormStep
          <5> QED  BY <3>3, <5>1, <5>2
        <4>2. <<s, t>> \notin RetryStorm(seen["retry_storm"], e, now).fires
          BY <3>3 DEF RetryStorm, Ignore, Judge
        <4>3. fired'["retry_storm"] = fired["retry_storm"] \cup RetryStorm(seen["retry_storm"], e, now).fires
          BY <2>1, DetectorMoves, AnswersAre DEF Named, Asked
        <4> QED  BY <1>0, <3>1, <4>1, <4>2, <4>3 DEF StormFired
      <3> QED  BY <3>2, <3>3
    <2> QED  BY <2>2, <2>3 DEF StormInv
  <1>2. CASE \E w \in Workspaces : Reset(w)
    <2>1. PICK w \in Workspaces : Reset(w)
      BY <1>2
    <2>2. Trace' = {}
      BY <2>1, TraceIsCut DEF Trace
    <2>3. seen'["retry_storm"] = <<>> /\ fired'["retry_storm"] = {}
      BY <2>1 DEF Reset, Detectors, Asked, Named
    <2>4. \A k : ToolCalls(k)' = {} /\ k \notin DOMAIN seen'["retry_storm"]
      BY <2>2, <2>3 DEF ToolCalls
    <2>5. \A k : StormCount(k)' = 0
      BY <2>4 DEF StormCount, Get
    <2>6. \A k : StormState(k)' /\ ~ Stormy(k)'
      BY <2>4, <2>5 DEF StormState, Counts, Stormy, InARow
    <2> QED  BY <2>3, <2>6 DEF StormInv, StormFired
  <1>3. CASE Sweep \/ Tick \/ UNCHANGED vars
    <2>1. /\ hist' = hist /\ seen' = seen /\ fired'["retry_storm"] = fired["retry_storm"]
          /\ Trace' = Trace
      BY <1>3, TraceStays DEF Asked, Named, Trace
    <2>2. \A k : ToolCalls(k)' = ToolCalls(k)
      BY <2>1 DEF ToolCalls, Ev
    <2>3. \A k : Failures(k)' = Failures(k) /\ PromptCalls(k)' = PromptCalls(k)
      BY <2>1, <2>2 DEF Failures, PromptCalls, Prompt, Ev
    <2>4. \A k : StormCount(k)' = StormCount(k)
      BY <2>1 DEF StormCount
    <2>5. \A k : StormState(k) => StormState(k)'
      BY <2>1, <2>2, <2>3, <2>4 DEF StormState
    <2>6. \A k : Stormy(k)' <=> Stormy(k)
      BY <2>2, <2>3 DEF Stormy
    <2> QED  BY <1>0, <2>1, <2>5, <2>6 DEF StormInv, StormFired
  <1> QED  BY <1>1, <1>2, <1>3 DEF Next

\* A storm is reported exactly when more than MaxRetries reports of one call
\* in a row were transient failures, each soon after the one before.
THEOREM StormsCaught == Spec => []StormsAreCaught
  <1>1. Init => StormInv
    <2> SUFFICES ASSUME Init PROVE StormInv
      OBVIOUS
    <2>1. fired["retry_storm"] = {} /\ \A k : ToolCalls(k) = {} /\ k \notin DOMAIN seen["retry_storm"]
      BY DEF Init, Detectors, Asked, Named, ToolCalls, Trace, Since
    <2>2. \A k : StormCount(k) = 0
      BY <2>1 DEF StormCount, Get
    <2>3. \A k : StormState(k) /\ ~ Stormy(k)
      BY <2>1, <2>2 DEF StormState, Counts, Stormy, InARow
    <2> QED  BY <2>1, <2>3 DEF StormInv, StormFired
  <1>2. StormInv => StormsAreCaught
    <2> SUFFICES ASSUME StormInv PROVE StormsAreCaught
      OBVIOUS
    <2>1. ASSUME NEW n \in Scenarios[scenario].events
          PROVE  (<<Events[n].source, Events[n].tool>> \in fired["retry_storm"]) <=>
            \E a \in {Events[m].args : m \in Scenarios[scenario].events} :
                InARow(ToolCalls(<<Events[n].source, Events[n].tool, a>>),
                       {i \in ToolCalls(<<Events[n].source, Events[n].tool, a>>) : Ev(i).outcome = "transient"},
                       Prompt(ToolCalls(<<Events[n].source, Events[n].tool, a>>)), MaxRetries + 1)
      <3>1. StormFired(Events[n].source, Events[n].tool)
        BY DEF StormInv
      <3> QED  BY <3>1 DEF StormFired, Stormy, Args, Failures, PromptCalls
    <2> QED  BY <2>1 DEF StormsAreCaught, Sent
  <1> QED  BY <1>1, <1>2, StormsKept, TypesHold, PTL DEF Spec

-----------------------------------------------------------------------------
(* The detectors of large calls. *)

\* An event and the model calls of a source.
LEMMA ModelCallStep ==
    ASSUME Typed, NEW n \in Scenarios[scenario].events, Receive(n), NEW s
    PROVE  LET e == Events[n]
               L == Len(hist) + 1
               C == ModelCalls(s)
               mine == e.kind \in {"llm.start", "llm.end"} /\ e.source = s /\ e.tokens > 0
           IN  /\ ModelCalls(s)' = IF mine THEN C \cup {L} ELSE C
               /\ L \in Nat /\ C \subseteq Nat /\ IsFiniteSet(C) /\ Cardinality(C) \in Nat
               /\ \A i \in C : i < L /\ Events[hist'[i].ev] = Ev(i)
               /\ Events[hist'[L].ev] = e
               /\ e.tokens \in Nat /\ e.window \in Nat
  <1> DEFINE e == Events[n]
             L == Len(hist) + 1
             C == ModelCalls(s)
             mine == e.kind \in {"llm.start", "llm.end"} /\ e.source = s /\ e.tokens > 0
  <1>1. /\ L \in Nat /\ Trace' = Trace \cup {L} /\ Events[hist'[L].ev] = e
        /\ \A i \in Trace : i \in Nat /\ i < L /\ hist'[i] = hist[i]
    BY TraceStep
  <1>2. C \subseteq Trace /\ IsFiniteSet(C) /\ Cardinality(C) \in Nat
    BY TraceIsPast, FS_Subset, FS_CardinalityType DEF ModelCalls
  <1>3. ModelCalls(s)' = IF mine THEN C \cup {L} ELSE C
    BY <1>1 DEF ModelCalls, Ev
  <1>4. e.tokens \in Nat /\ e.window \in Nat
    BY EventTypes
  <1>5. \A i \in C : i < L /\ Events[hist'[i].ev] = Ev(i)
    BY <1>1, <1>2 DEF Ev
  <1>6. C \subseteq Nat
    BY <1>1, <1>2
  <1> HIDE DEF C, L, mine, e
  <1> QED  BY <1>1, <1>2, <1>3, <1>4, <1>5, <1>6 DEF C, L, mine, e

\* The other steps, for every detector that the resets of any workspace clear.
LEMMA OthersStay ==
    ASSUME Typed, NEW d \in Named \ {"anomaly"}, [Next]_vars,
           \A n \in Scenarios[scenario].events : ~ Receive(n)
    PROVE  \/ hist' = hist /\ Trace' = Trace /\ seen' = seen /\ fired'[d] = fired[d] /\ scenario' = scenario
           \/ Trace' = {} /\ DOMAIN seen'[d] = {} /\ fired'[d] = {} /\ scenario' = scenario
  <1>1. d \in Asked /\ d \in Detectors
    BY DEF Asked, Detectors
  <1>2. CASE Sweep \/ Tick \/ UNCHANGED vars
    BY <1>1, <1>2, TraceStays DEF Trace
  <1>3. CASE \E w \in Workspaces : Reset(w)
    <2>1. PICK w \in Workspaces : Reset(w)
      BY <1>3
    <2>2. Trace' = {}
      BY <2>1, TraceIsCut DEF Trace
    <2>3. seen'[d] = <<>> /\ fired'[d] = {} /\ scenario' = scenario
      BY <1>1, <2>1 DEF Reset
    <2> QED  BY <2>2, <2>3
  <1> QED  BY <1>2, <1>3 DEF Next

Sized(s) == {i \in ModelCalls(s) : Ev(i).window > 0}
FullCalls(s) == {i \in Sized(s) : 10 * Ev(i).tokens > 9 * Ev(i).window}
OverflowCount(s) == Get(seen["overflow"], s, 0)
OverflowOf(s) ==
    /\ Counts(Sized(s), FullCalls(s), FullCalls(s), OverflowCount(s))
    /\ <<s>> \in fired["overflow"] <=> InARow(Sized(s), FullCalls(s), FullCalls(s), OverCalls)
OverflowInv == \A s : OverflowOf(s)

LEMMA OverflowSeen ==
    ASSUME Typed, OverflowInv, NEW n \in Scenarios[scenario].events, Receive(n), NEW s
    PROVE  OverflowOf(s)'
  <1> DEFINE e == Events[n]
             L == Len(hist) + 1
             S == Sized(s)
             old == seen["overflow"]
             call == e.kind \in {"llm.start", "llm.end"} /\ e.source = s /\ e.tokens > 0
             mine == call /\ e.window > 0
  <1>1. /\ ModelCalls(s)' = IF call THEN ModelCalls(s) \cup {L} ELSE ModelCalls(s)
        /\ L \in Nat /\ ModelCalls(s) \subseteq Nat /\ IsFiniteSet(ModelCalls(s))
        /\ \A i \in ModelCalls(s) : i < L /\ Events[hist'[i].ev] = Ev(i)
        /\ Events[hist'[L].ev] = e
        /\ e.tokens \in Nat /\ e.window \in Nat
    BY ModelCallStep
  <1>2. S \subseteq Nat /\ IsFiniteSet(S) /\ \A i \in S : i < L
    BY <1>1, FS_Subset DEF Sized
  <1>3. Sized(s)' = IF mine THEN S \cup {L} ELSE S
    BY <1>1 DEF Sized, Ev
  <1>4. FullCalls(s)' = {i \in Sized(s)' : 10 * Events[hist'[i].ev].tokens > 9 * Events[hist'[i].ev].window}
    BY DEF FullCalls, Ev
  <1>5. SameOn(S, FullCalls(s), FullCalls(s)')
    BY <1>1, <1>3, <1>4 DEF SameOn, FullCalls, Sized
  <1>6. /\ seen'["overflow"] = Overflow(old, e).state
        /\ fired'["overflow"] = fired["overflow"] \cup Overflow(old, e).fires
    BY NamedMoves, AnswersAre DEF Named
  <1>7. OverflowOf(s) /\ OverCalls \in Nat
    BY TraceAssumption DEF OverflowInv
  <1>8. CASE ~ mine
    <2>1. OverflowCount(s)' = OverflowCount(s) /\ (<<s>> \in fired'["overflow"] <=> <<s>> \in fired["overflow"])
      BY <1>1, <1>6, <1>8 DEF Overflow, Ignore, Judge, Put, Get, OverflowCount
    <2>2. Sized(s)' = S
      BY <1>3, <1>8
    <2>3. /\ Counts(S, FullCalls(s)', FullCalls(s)', OverflowCount(s))
          /\ InARow(S, FullCalls(s)', FullCalls(s)', OverCalls) <=> InARow(S, FullCalls(s), FullCalls(s), OverCalls)
      BY <1>5, <1>7, StreakStays DEF OverflowOf
    <2> QED  BY <1>7, <2>1, <2>2, <2>3 DEF OverflowOf
  <1>9. CASE mine
    <2> DEFINE c == OverflowCount(s)
               new == Longer(c, L, FullCalls(s)', FullCalls(s)')
    <2>1. Sized(s)' = S \cup {L}
      BY <1>3, <1>9
    <2>2. L \in FullCalls(s)' <=> 10 * e.tokens > 9 * e.window
      BY <1>1, <1>4, <2>1
    <2>3. Counts(S, FullCalls(s), FullCalls(s), c)
      BY <1>7 DEF OverflowOf
    <2>4. new = IF 10 * e.tokens > 9 * e.window THEN c + 1 ELSE 0
      BY <2>2 DEF Longer
    <2>5. Overflow(old, e) = Judge(old, s, new, new >= OverCalls, <<s>>, {s})
      BY <1>1, <1>9, <2>4 DEF Overflow, OverflowCount
    <2> HIDE DEF S, c, L, new
    <2>6. /\ Counts(S \cup {L}, FullCalls(s)', FullCalls(s)', new)
          /\ InARow(S \cup {L}, FullCalls(s)', FullCalls(s)', OverCalls)
                <=> InARow(S, FullCalls(s), FullCalls(s), OverCalls) \/ new >= OverCalls
      BY <1>1, <1>2, <1>5, <2>3, StreakGrows DEF new
    <2>7. OverflowCount(s)' = new
      BY <1>6, <2>5 DEF Judge, Put, Get, OverflowCount
    <2>8. <<s>> \in fired'["overflow"] <=> <<s>> \in fired["overflow"] \/ new >= OverCalls
      BY <1>6, <2>5 DEF Judge
    <2>9. <<s>> \in fired["overflow"] <=> InARow(S, FullCalls(s), FullCalls(s), OverCalls)
      BY <1>7 DEF OverflowOf, S
    <2> QED  BY <2>1, <2>6, <2>7, <2>8, <2>9 DEF OverflowOf
  <1> QED  BY <1>8, <1>9

LEMMA OverflowKept == Typed /\ OverflowInv /\ [Next]_vars => OverflowInv'
  <1> SUFFICES ASSUME Typed, OverflowInv, [Next]_vars, NEW s PROVE OverflowOf(s)'
    BY DEF OverflowInv
  <1>1. CASE \E n \in Scenarios[scenario].events : Receive(n)
    BY <1>1, OverflowSeen
  <1>2. CASE hist' = hist /\ Trace' = Trace /\ seen' = seen /\ fired'["overflow"] = fired["overflow"]
    <2>1. Sized(s)' = Sized(s) /\ FullCalls(s)' = FullCalls(s) /\ OverflowCount(s)' = OverflowCount(s)
      BY <1>2 DEF Sized, FullCalls, ModelCalls, OverflowCount, Ev
    <2> QED  BY <1>2, <2>1 DEF OverflowOf, OverflowInv
  <1>3. CASE Trace' = {} /\ DOMAIN seen'["overflow"] = {} /\ fired'["overflow"] = {}
    <2>1. Sized(s)' = {} /\ OverflowCount(s)' = 0
      BY <1>3 DEF Sized, ModelCalls, OverflowCount, Get
    <2> QED  BY <1>3, <2>1 DEF OverflowOf, Counts, InARow
  <1>4. "overflow" \in Named \ {"anomaly"}
    BY DEF Named
  <1> QED  BY <1>1, <1>2, <1>3, <1>4, OthersStay

LEMMA OverflowHolds == Spec => []OverflowInv
  <1>1. Init => OverflowInv
    <2> SUFFICES ASSUME Init, NEW s PROVE OverflowOf(s)
      BY DEF OverflowInv
    <2>1. fired["overflow"] = {} /\ Sized(s) = {} /\ DOMAIN seen["overflow"] = {}
      BY DEF Init, Detectors, Asked, Named, Sized, ModelCalls, Trace, Since
    <2> QED  BY <2>1 DEF OverflowOf, Counts, InARow, OverflowCount, Get
  <1> QED  BY <1>1, OverflowKept, TypesHold, PTL DEF Spec


\* The rank of a member is the number of members up to it.
LEMMA RanksGrow ==
    ASSUME NEW S, S \subseteq Nat, IsFiniteSet(S), NEW L \in Nat, \A i \in S : i < L
    PROVE  /\ \A j \in S : Upto(S \cup {L}, j) = Upto(S, j)
           /\ Cardinality(Upto(S \cup {L}, L)) = Cardinality(S) + 1
           /\ Cardinality(S \cup {L}) = Cardinality(S) + 1
  <1>1. \A j \in S : ~ L <= j
    OBVIOUS
  <1>2. Upto(S \cup {L}, L) = S \cup {L}
    <2>1. \A i \in S \cup {L} : i <= L
      OBVIOUS
    <2> QED  BY <2>1 DEF Upto
  <1>3. L \notin S
    OBVIOUS
  <1>4. Cardinality(S \cup {L}) = Cardinality(S) + 1
    BY <1>3, FS_AddElement
  <1> QED  BY <1>1, <1>2, <1>4 DEF Upto

LEMMA RanksDiffer ==
    ASSUME NEW S, S \subseteq Nat, IsFiniteSet(S)
    PROVE  /\ \A i \in S : Cardinality(Upto(S, i)) \in Nat /\ Cardinality(Upto(S, i)) <= Cardinality(S)
           /\ \A i, j \in S : Cardinality(Upto(S, i)) = Cardinality(Upto(S, j)) => i = j
  <1>1. \A i : Upto(S, i) \subseteq S
    BY DEF Upto
  <1>2. \A i : IsFiniteSet(Upto(S, i)) /\ Cardinality(Upto(S, i)) <= Cardinality(S)
    BY <1>1, FS_Subset
  <1>3. \A i : Cardinality(Upto(S, i)) \in Nat
    BY <1>2, FS_CardinalityType
  <1>4. ASSUME NEW i \in S, NEW j \in S, i < j, Cardinality(Upto(S, i)) = Cardinality(Upto(S, j))
        PROVE  FALSE
    <2>1. Upto(S, i) \subseteq Upto(S, j) /\ j \in Upto(S, j) /\ j \notin Upto(S, i)
      <3>1. ~ j <= i /\ j <= j /\ \A x \in S : x <= i => x <= j
        BY <1>4
      <3> QED  BY <3>1 DEF Upto
    <2> QED  BY <1>2, <1>4, <2>1, FS_Subset
  <1>5. \A i, j \in S : i = j \/ i < j \/ j < i
    OBVIOUS
  <1> QED  BY <1>2, <1>3, <1>4, <1>5

LaterCalls(s) == {i \in ModelCalls(s) : Cardinality(Upto(ModelCalls(s), i)) > BaselineCalls}
CostlyCalls(s) == {i \in LaterCalls(s) : 2 * Ev(i).tokens > SpikeFactor * TwiceMedian(Baseline(s))}
SpikeState(s) == Get(seen["cost_spike"], s, [samples |-> <<>>, over |-> 0])

\* The sizes of the first calls, as a detector that saw the history h would
\* have learnt them from the calls C.
Sizes(h, C) == [k \in 1..BaselineCalls |->
    Events[h[CHOOSE i \in C : Cardinality(Upto(C, i)) = k].ev].tokens]
Learnt(h, C, b) ==
    /\ b \in Seq(Nat)
    /\ Len(b) = IF Cardinality(C) <= BaselineCalls THEN Cardinality(C) ELSE BaselineCalls
    /\ \A k \in 1..Len(b) : \E i \in C : Cardinality(Upto(C, i)) = k /\ b[k] = Events[h[i].ev].tokens

\* The samples are the sizes of the first calls, as many as there are, and
\* the streak is counted among the later ones.
SpikeOf(s) ==
    /\ \E b, c : SpikeState(s) = [samples |-> b, over |-> c]
    /\ Learnt(hist, ModelCalls(s), SpikeState(s).samples)
    /\ Counts(LaterCalls(s), CostlyCalls(s), CostlyCalls(s), SpikeState(s).over)
    /\ <<s>> \in fired["cost_spike"] <=> InARow(LaterCalls(s), CostlyCalls(s), CostlyCalls(s), Sustain)
SpikeInv == \A s : SpikeOf(s)

\* What has been learnt is the baseline, once enough calls were seen.
LEMMA LearntIsBaseline ==
    ASSUME NEW C, C \subseteq Nat, IsFiniteSet(C), NEW b, NEW h, BaselineCalls \in Nat,
           Learnt(h, C, b), Cardinality(C) >= BaselineCalls
    PROVE  Sizes(h, C) = b /\ Len(b) = BaselineCalls
  <1>1. b \in Seq(Nat) /\ Len(b) = BaselineCalls
    BY FS_CardinalityType DEF Learnt
  <1>2. ASSUME NEW k \in 1..BaselineCalls
        PROVE  Events[h[CHOOSE i \in C : Cardinality(Upto(C, i)) = k].ev].tokens = b[k]
    <2>1. PICK i \in C : Cardinality(Upto(C, i)) = k /\ b[k] = Events[h[i].ev].tokens
      BY <1>1 DEF Learnt
    <2>2. (CHOOSE x \in C : Cardinality(Upto(C, x)) = k) = i
      BY <2>1, RanksDiffer
    <2> QED  BY <2>1, <2>2
  <1>3. b = [k \in 1..BaselineCalls |-> b[k]]
    BY <1>1
  <1>4. Sizes(h, C) = [k \in 1..BaselineCalls |-> b[k]]
    BY <1>2 DEF Sizes
  <1> QED  BY <1>1, <1>3, <1>4

\* The baseline does not change when a call comes after it, and a call before
\* that is appended to it.
LEMMA BaselineGrows ==
    ASSUME NEW C, C \subseteq Nat, IsFiniteSet(C), NEW L \in Nat, \A i \in C : i < L,
           NEW h, NEW g, \A i \in C : Events[g[i].ev] = Events[h[i].ev],
           NEW b, Learnt(h, C, b), BaselineCalls \in Nat, Events[g[L].ev].tokens \in Nat
    PROVE  /\ Learnt(g, C, b)
           /\ Cardinality(C) < BaselineCalls =>
                Learnt(g, C \cup {L}, Append(b, Events[g[L].ev].tokens))
           /\ Cardinality(C) >= BaselineCalls => Learnt(g, C \cup {L}, b)
  <1> DEFINE T == C \cup {L}
             size == Events[g[L].ev].tokens
             more == Append(b, size)
  <1>1. /\ \A i \in C : Upto(T, i) = Upto(C, i)
        /\ Cardinality(Upto(T, L)) = Cardinality(C) + 1
        /\ Cardinality(T) = Cardinality(C) + 1
    BY RanksGrow
  <1>2. PICK n \in Nat : n = Cardinality(C)
    BY FS_CardinalityType
  <1>3. /\ b \in Seq(Nat) /\ Len(b) = IF n <= BaselineCalls THEN n ELSE BaselineCalls
        /\ \A k \in 1..Len(b) : \E i \in C : Cardinality(Upto(C, i)) = k /\ b[k] = Events[h[i].ev].tokens
    BY <1>2 DEF Learnt
  <1>4. \A k \in 1..Len(b) : \E i \in C : Cardinality(Upto(C, i)) = k /\ b[k] = Events[g[i].ev].tokens
    <2>1. \A i \in C : Events[g[i].ev].tokens = Events[h[i].ev].tokens
      OBVIOUS
    <2> HIDE DEF T, size, more
    <2> QED  BY <1>3, <2>1
  <1>5. ASSUME NEW k \in 1..Len(b)
        PROVE  \E i \in T : Cardinality(Upto(T, i)) = k /\ b[k] = Events[g[i].ev].tokens
    <2>1. PICK i \in C : Cardinality(Upto(C, i)) = k /\ b[k] = Events[g[i].ev].tokens
      BY <1>4
    <2>2. i \in T /\ Upto(T, i) = Upto(C, i)
      BY <1>1
    <2>3. Cardinality(Upto(T, i)) = k
      BY <2>1, <2>2
    <2> QED  BY <2>1, <2>2, <2>3
  <1>6. Learnt(g, C, b)
    BY <1>2, <1>3, <1>4 DEF Learnt
  <1>7. n >= BaselineCalls => Learnt(g, T, b)
    <2>1. n >= BaselineCalls => Len(b) = IF Cardinality(T) <= BaselineCalls THEN Cardinality(T) ELSE BaselineCalls
      BY <1>1, <1>2, <1>3
    <2> HIDE DEF T
    <2> QED  BY <1>3, <1>5, <2>1 DEF Learnt
  <1>8. ASSUME n < BaselineCalls  PROVE Learnt(g, T, more)
    <2>1. /\ Len(b) = n /\ more \in Seq(Nat) /\ Len(more) = n + 1 /\ more[n + 1] = size
          /\ \A k \in 1..n : more[k] = b[k]
      BY <1>3, <1>8
    <2>2. ASSUME NEW k \in 1..n
          PROVE  \E i \in T : Cardinality(Upto(T, i)) = k /\ more[k] = Events[g[i].ev].tokens
      <3>1. k \in 1..Len(b) /\ more[k] = b[k]
        BY <2>1
      <3> HIDE DEF T, more
      <3> QED  BY <1>5, <3>1
    <2>3. L \in T /\ Cardinality(Upto(T, L)) = n + 1 /\ more[n + 1] = Events[g[L].ev].tokens
      BY <1>1, <1>2, <2>1
    <2>4. \A k \in 1..n + 1 : k \in 1..n \/ k = n + 1
      OBVIOUS
    <2>5. Len(more) = IF Cardinality(T) <= BaselineCalls THEN Cardinality(T) ELSE BaselineCalls
      BY <1>1, <1>2, <1>8, <2>1
    <2> HIDE DEF more, T, size
    <2>6. \A k \in 1..Len(more) : \E i \in T : Cardinality(Upto(T, i)) = k /\ more[k] = Events[g[i].ev].tokens
      BY <2>1, <2>2, <2>3, <2>4
    <2> QED  BY <2>1, <2>5, <2>6 DEF Learnt
  <1> QED  BY <1>2, <1>6, <1>7, <1>8

LEMMA NothingLearnt ==
    ASSUME NEW h
    PROVE  Learnt(h, {}, <<>>)
  <1>1. Cardinality({}) = 0 /\ BaselineCalls \in Nat
    BY FS_EmptySet, TraceAssumption
  <1>2. <<>> \in Seq(Nat) /\ Len(<<>>) = 0
    OBVIOUS
  <1>3. \A k \in 1..0 : FALSE
    OBVIOUS
  <1> QED  BY <1>1, <1>2, <1>3 DEF Learnt

LEMMA SpikeFrame ==
    ASSUME NEW s, NEW b, NEW c, SpikeState(s)' = [samples |-> b, over |-> c],
           Learnt(hist', ModelCalls(s)', b),
           Counts(LaterCalls(s)', CostlyCalls(s)', CostlyCalls(s)', c),
           <<s>> \in fired'["cost_spike"] <=> InARow(LaterCalls(s)', CostlyCalls(s)', CostlyCalls(s)', Sustain)
    PROVE  SpikeOf(s)'
  <1>1. /\ SpikeState(s)'.samples = b /\ SpikeState(s)'.over = c
        /\ \E x, y : SpikeState(s)' = [samples |-> x, over |-> y]
    <2>1. \A st : st = [samples |-> b, over |-> c] => st.samples = b /\ st.over = c
      OBVIOUS
    <2>2. SpikeState(s)'.samples = b /\ SpikeState(s)'.over = c
      BY <2>1
    <2>3. \E x, y : SpikeState(s)' = [samples |-> x, over |-> y]
      OBVIOUS
    <2> QED  BY <2>2, <2>3
  <1>2. Learnt(hist, ModelCalls(s), SpikeState(s).samples)'
    BY <1>1
  <1>3. Counts(LaterCalls(s), CostlyCalls(s), CostlyCalls(s), SpikeState(s).over)'
    BY <1>1
  <1>4. (<<s>> \in fired["cost_spike"] <=> InARow(LaterCalls(s), CostlyCalls(s), CostlyCalls(s), Sustain))'
    OBVIOUS
  <1> QED  BY <1>1, <1>2, <1>3, <1>4 DEF SpikeOf

LEMMA SpikeSeen ==
    ASSUME Typed, SpikeInv, NEW n \in Scenarios[scenario].events, Receive(n), NEW s
    PROVE  SpikeOf(s)'
  <1> DEFINE e == Events[n]
             L == Len(hist) + 1
             C == ModelCalls(s)
             old == seen["cost_spike"]
             mine == e.kind \in {"llm.start", "llm.end"} /\ e.source = s /\ e.tokens > 0
             Size(i) == Events[hist'[i].ev].tokens
  <1>1. /\ ModelCalls(s)' = IF mine THEN C \cup {L} ELSE C
        /\ L \in Nat /\ C \subseteq Nat /\ IsFiniteSet(C) /\ Cardinality(C) \in Nat
        /\ \A i \in C : i < L /\ Events[hist'[i].ev] = Ev(i)
        /\ Events[hist'[L].ev] = e
        /\ e.tokens \in Nat
    BY ModelCallStep
  <1>2. /\ seen'["cost_spike"] = CostSpike(old, e).state
        /\ fired'["cost_spike"] = fired["cost_spike"] \cup CostSpike(old, e).fires
    BY NamedMoves, AnswersAre DEF Named
  <1>3. SpikeOf(s) /\ Sustain \in Nat /\ BaselineCalls \in Nat
    BY TraceAssumption DEF SpikeInv
  <1>4. PICK b, c : /\ SpikeState(s) = [samples |-> b, over |-> c]
                    /\ Learnt(hist, C, b)
                    /\ Counts(LaterCalls(s), CostlyCalls(s), CostlyCalls(s), c)
    BY <1>3 DEF SpikeOf
  <1>5. /\ <<s>> \in fired["cost_spike"] <=> InARow(LaterCalls(s), CostlyCalls(s), CostlyCalls(s), Sustain)
        /\ c \in Nat /\ b \in Seq(Nat)
        /\ Len(b) = IF Cardinality(C) <= BaselineCalls THEN Cardinality(C) ELSE BaselineCalls
    BY <1>3, <1>4 DEF SpikeOf, Counts, Learnt
  <1>6. LaterCalls(s)' = {i \in ModelCalls(s)' : Cardinality(Upto(ModelCalls(s)', i)) > BaselineCalls}
    BY DEF LaterCalls
  <1>7. CostlyCalls(s)' = {i \in LaterCalls(s)' : 2 * Size(i) > SpikeFactor * TwiceMedian(Baseline(s)')}
    BY DEF CostlyCalls, Ev, TwiceMedian, Kth
  <1>8. Baseline(s) = Sizes(hist, C) /\ Baseline(s)' = Sizes(hist', ModelCalls(s)')
    BY DEF Baseline, Sizes, Ev
  <1>9. Cardinality(C) >= BaselineCalls => Baseline(s) = b /\ Len(b) = BaselineCalls
    BY <1>1, <1>3, <1>4, <1>8, LearntIsBaseline
  <1>10. /\ Learnt(hist', C, b)
         /\ Cardinality(C) < BaselineCalls => Learnt(hist', C \cup {L}, Append(b, e.tokens))
         /\ Cardinality(C) >= BaselineCalls => Learnt(hist', C \cup {L}, b)
    <2>1. \A i \in C : Events[hist'[i].ev] = Events[hist[i].ev]
      BY <1>1 DEF Ev
    <2> QED  BY <1>1, <1>3, <1>4, <2>1, BaselineGrows
  <1>11. CASE ~ mine
    <2>1. SpikeState(s)' = SpikeState(s) /\ (<<s>> \in fired'["cost_spike"] <=> <<s>> \in fired["cost_spike"])
      <3>1. /\ (s \in DOMAIN seen'["cost_spike"]) <=> s \in DOMAIN old
            /\ s \in DOMAIN old => seen'["cost_spike"][s] = old[s]
            /\ <<s>> \in fired'["cost_spike"] <=> <<s>> \in fired["cost_spike"]
        <4> DEFINE other == e.source
        <4>1. (seen'["cost_spike"] = old /\ fired'["cost_spike"] = fired["cost_spike"]) \/ other # s
          <5>1. CASE other = s
            <6>1. e.kind \notin {"llm.start", "llm.end"} \/ e.tokens = 0
              BY <1>1, <1>11, <5>1
            <6>2. CostSpike(old, e) = Ignore(old)
              BY <6>1 DEF CostSpike
            <6> QED  BY <1>2, <6>2 DEF Ignore
          <5> QED  BY <5>1
        <4>2. PICK v : seen'["cost_spike"] \in {old, Put(old, other, v)}
          BY <1>2 DEF CostSpike, Ignore, Learn, Judge
        <4>3. fired'["cost_spike"] \subseteq fired["cost_spike"] \cup {<<other>>} /\ fired["cost_spike"] \subseteq fired'["cost_spike"]
          BY <1>2 DEF CostSpike, Ignore, Learn, Judge
        <4> HIDE DEF other, old
        <4>4. /\ (s \in DOMAIN seen'["cost_spike"]) <=> s \in DOMAIN old
              /\ s \in DOMAIN old => seen'["cost_spike"][s] = old[s]
          BY <4>1, <4>2, OtherKeyKept
        <4>5. <<s>> \in fired'["cost_spike"] <=> <<s>> \in fired["cost_spike"]
          BY <4>1, <4>3
        <4> QED  BY <4>4, <4>5
      <3> QED  BY <3>1 DEF SpikeState, Get
    <2>2. ModelCalls(s)' = C /\ LaterCalls(s)' = LaterCalls(s)
      BY <1>1, <1>6, <1>11 DEF LaterCalls
    <2>3. SameOn(LaterCalls(s), CostlyCalls(s), CostlyCalls(s)')
      <3>1. CASE Cardinality(C) < BaselineCalls
        <4>1. LaterCalls(s) = {}
          BY <1>1, <1>3, <3>1, RanksDiffer DEF LaterCalls
        <4> QED  BY <4>1 DEF SameOn
      <3>2. CASE Cardinality(C) >= BaselineCalls
        <4>1. Baseline(s)' = b
          BY <1>1, <1>3, <1>8, <1>10, <2>2, <3>2, LearntIsBaseline
        <4>2. Baseline(s)' = Baseline(s)
          BY <1>9, <3>2, <4>1
        <4> QED  BY <1>1, <1>7, <2>2, <4>2 DEF SameOn, CostlyCalls, LaterCalls
      <3> QED  BY <1>1, <1>3, <3>1, <3>2
    <2>4. /\ Counts(LaterCalls(s), CostlyCalls(s)', CostlyCalls(s)', c)
          /\ InARow(LaterCalls(s), CostlyCalls(s)', CostlyCalls(s)', Sustain)
                <=> InARow(LaterCalls(s), CostlyCalls(s), CostlyCalls(s), Sustain)
      BY <1>4, <2>3, StreakStays
    <2>5. SpikeState(s)' = [samples |-> b, over |-> c]
      BY <1>4, <2>1
    <2> QED  BY <1>5, <1>10, <2>1, <2>2, <2>4, <2>5, SpikeFrame
  <1>12. CASE mine /\ Cardinality(C) < BaselineCalls
    <2> DEFINE more == Append(b, e.tokens)
    <2>1. ModelCalls(s)' = C \cup {L}
      BY <1>1, <1>12
    <2>2. CostSpike(old, e) = Learn(old, s, [samples |-> more, over |-> c])
      <3>1. Len(b) < BaselineCalls
        BY <1>1, <1>3, <1>5, <1>12
      <3>2. CostSpike(old, e) = Learn(old, s, [SpikeState(s) EXCEPT !.samples = Append(@, e.tokens)])
        BY <1>4, <1>12, <3>1 DEF CostSpike, SpikeState
      <3>3. \A st : st = [samples |-> b, over |-> c] =>
                [st EXCEPT !.samples = Append(@, e.tokens)] = [samples |-> more, over |-> c]
        OBVIOUS
      <3> QED  BY <1>4, <3>2, <3>3
    <2>3. SpikeState(s)' = [samples |-> more, over |-> c] /\ fired'["cost_spike"] = fired["cost_spike"]
      BY <1>2, <2>2 DEF Learn, Put, Get, SpikeState
    <2>4. LaterCalls(s)' = {} /\ LaterCalls(s) = {}
      <3>1. /\ Cardinality(C \cup {L}) = Cardinality(C) + 1
            /\ C \cup {L} \subseteq Nat /\ IsFiniteSet(C \cup {L})
        BY <1>1, FS_AddElement, RanksGrow
      <3>2. \A i \in C \cup {L} : ~ Cardinality(Upto(C \cup {L}, i)) > BaselineCalls
        BY <1>1, <1>3, <1>12, <3>1, RanksDiffer
      <3>3. \A i \in C : ~ Cardinality(Upto(C, i)) > BaselineCalls
        BY <1>1, <1>3, <1>12, RanksDiffer
      <3> QED  BY <1>6, <2>1, <3>2, <3>3 DEF LaterCalls
    <2>5. Learnt(hist', ModelCalls(s)', SpikeState(s)'.samples) /\ SpikeState(s)'.over = c
      BY <1>10, <1>12, <2>1, <2>3
    <2> HIDE DEF more
    <2> QED  BY <1>4, <1>5, <2>3, <2>4, <2>5 DEF SpikeOf, Counts, InARow
  <1>13. CASE mine /\ Cardinality(C) >= BaselineCalls
    <2> DEFINE S == LaterCalls(s)
               costly == 2 * e.tokens > SpikeFactor * TwiceMedian(b)
               new == IF costly THEN c + 1 ELSE 0
    <2>1. ModelCalls(s)' = C \cup {L}
      BY <1>1, <1>13
    <2>2. CostSpike(old, e) = Judge(old, s, [samples |-> b, over |-> new], new >= Sustain, <<s>>, {s})
      <3>1. ~ Len(b) < BaselineCalls
        BY <1>3, <1>9, <1>13
      <3>2. CostSpike(old, e) = Judge(old, s, [SpikeState(s) EXCEPT !.over = new], new >= Sustain, <<s>>, {s})
        BY <1>4, <1>13, <3>1 DEF CostSpike, SpikeState
      <3>3. \A st, v : st = [samples |-> b, over |-> c] =>
                [st EXCEPT !.over = v] = [samples |-> b, over |-> v]
        OBVIOUS
      <3>4. [SpikeState(s) EXCEPT !.over = new] = [samples |-> b, over |-> new]
        BY <1>4, <3>3
      <3> QED  BY <3>2, <3>4
    <2>3. /\ SpikeState(s)' = [samples |-> b, over |-> new]
          /\ <<s>> \in fired'["cost_spike"] <=> <<s>> \in fired["cost_spike"] \/ new >= Sustain
      BY <1>2, <2>2 DEF Judge, Put, Get, SpikeState
    <2>4. Learnt(hist', ModelCalls(s)', b)
      BY <1>10, <1>13, <2>1
    <2>5. /\ \A i \in C : Upto(C \cup {L}, i) = Upto(C, i)
          /\ Cardinality(Upto(C \cup {L}, L)) = Cardinality(C) + 1
          /\ Cardinality(C \cup {L}) = Cardinality(C) + 1
          /\ C \cup {L} \subseteq Nat /\ IsFiniteSet(C \cup {L})
      BY <1>1, RanksGrow, FS_AddElement
    <2>6. Baseline(s)' = b
      <3>1. Cardinality(ModelCalls(s)') >= BaselineCalls /\ ModelCalls(s)' \subseteq Nat /\ IsFiniteSet(ModelCalls(s)')
        BY <1>1, <1>3, <1>13, <2>1, <2>5
      <3> QED  BY <1>3, <1>8, <2>4, <3>1, LearntIsBaseline
    <2>7. LaterCalls(s)' = S \cup {L}
      <3>1. Cardinality(Upto(C \cup {L}, L)) > BaselineCalls
        BY <1>1, <1>3, <1>13, <2>5
      <3> QED  BY <1>6, <2>1, <2>5, <3>1 DEF LaterCalls
    <2>8. S \subseteq C /\ S \subseteq Nat /\ IsFiniteSet(S) /\ \A i \in S : i < L
      BY <1>1, FS_Subset DEF LaterCalls
    <2>9. SameOn(S, CostlyCalls(s), CostlyCalls(s)')
      <3>1. \A i \in S : Size(i) = Ev(i).tokens
        BY <1>1, <2>8
      <3> QED  BY <1>7, <1>9, <1>13, <2>6, <2>7, <3>1 DEF SameOn, CostlyCalls
    <2>10. L \in CostlyCalls(s)' <=> costly
      <3>1. Size(L) = e.tokens
        BY <1>1
      <3> QED  BY <1>7, <2>6, <2>7, <3>1
    <2>11. new = Longer(c, L, CostlyCalls(s)', CostlyCalls(s)')
      BY <2>10 DEF Longer
    <2>12. Counts(S, CostlyCalls(s), CostlyCalls(s), c)
      BY <1>4
    <2>13. <<s>> \in fired["cost_spike"] <=> InARow(S, CostlyCalls(s), CostlyCalls(s), Sustain)
      BY <1>5
    <2> HIDE DEF new, S, L, costly
    <2>14. /\ Counts(S \cup {L}, CostlyCalls(s)', CostlyCalls(s)', new)
           /\ InARow(S \cup {L}, CostlyCalls(s)', CostlyCalls(s)', Sustain)
                  <=> InARow(S, CostlyCalls(s), CostlyCalls(s), Sustain) \/ new >= Sustain
      BY <1>1, <1>3, <2>8, <2>9, <2>11, <2>12, StreakGrows
    <2> QED  BY <2>3, <2>4, <2>7, <2>13, <2>14, SpikeFrame
  <1> QED  BY <1>1, <1>3, <1>11, <1>12, <1>13

LEMMA SpikesKept == Typed /\ SpikeInv /\ [Next]_vars => SpikeInv'
  <1> SUFFICES ASSUME Typed, SpikeInv, [Next]_vars, NEW s PROVE SpikeOf(s)'
    BY DEF SpikeInv
  <1>1. CASE \E n \in Scenarios[scenario].events : Receive(n)
    BY <1>1, SpikeSeen
  <1>2. CASE hist' = hist /\ Trace' = Trace /\ seen' = seen /\ fired'["cost_spike"] = fired["cost_spike"]
    <2>1. PICK b, c : SpikeState(s) = [samples |-> b, over |-> c]
      BY DEF SpikeInv, SpikeOf
    <2>2. SpikeOf(s) /\ SpikeState(s).samples = b /\ SpikeState(s).over = c
      <3>1. \A st : st = [samples |-> b, over |-> c] => st.samples = b /\ st.over = c
        OBVIOUS
      <3> QED  BY <2>1, <3>1 DEF SpikeInv
    <2>3. SpikeState(s)' = SpikeState(s)
      BY <1>2 DEF SpikeState
    <2>4. ModelCalls(s)' = ModelCalls(s)
      BY <1>2 DEF ModelCalls, Ev
    <2>5. LaterCalls(s)' = LaterCalls(s)
      BY <2>4 DEF LaterCalls
    <2>6. Baseline(s)' = Baseline(s)
      <3>1. Baseline(s) = Sizes(hist, ModelCalls(s)) /\ Baseline(s)' = Sizes(hist', ModelCalls(s)')
        BY DEF Baseline, Sizes, Ev
      <3> QED  BY <1>2, <2>4, <3>1
    <2>7. CostlyCalls(s)' = CostlyCalls(s)
      BY <1>2, <2>5, <2>6 DEF CostlyCalls, Ev, TwiceMedian, Kth
    <2>8. Learnt(hist', ModelCalls(s)', b)
      BY <1>2, <2>2, <2>4 DEF SpikeOf
    <2>9. Counts(LaterCalls(s)', CostlyCalls(s)', CostlyCalls(s)', c)
      BY <2>2, <2>5, <2>7 DEF SpikeOf
    <2>10. <<s>> \in fired'["cost_spike"] <=> InARow(LaterCalls(s)', CostlyCalls(s)', CostlyCalls(s)', Sustain)
      BY <1>2, <2>2, <2>5, <2>7 DEF SpikeOf
    <2> QED  BY <2>1, <2>3, <2>8, <2>9, <2>10, SpikeFrame
  <1>3. CASE Trace' = {} /\ DOMAIN seen'["cost_spike"] = {} /\ fired'["cost_spike"] = {}
    <2>1. ModelCalls(s)' = {}
      BY <1>3 DEF ModelCalls
    <2>2. SpikeState(s)' = [samples |-> <<>>, over |-> 0]
      BY <1>3 DEF SpikeState, Get
    <2>3. LaterCalls(s)' = {}
      BY <2>1 DEF LaterCalls
    <2>4. Learnt(hist', ModelCalls(s)', <<>>)
      BY <2>1, NothingLearnt
    <2>5. /\ Counts(LaterCalls(s)', CostlyCalls(s)', CostlyCalls(s)', 0)
          /\ ~ InARow(LaterCalls(s)', CostlyCalls(s)', CostlyCalls(s)', Sustain)
      BY <2>3 DEF Counts, InARow
    <2> QED  BY <1>3, <2>2, <2>4, <2>5, SpikeFrame
  <1>4. "cost_spike" \in Named \ {"anomaly"}
    BY DEF Named
  <1> QED  BY <1>1, <1>2, <1>3, <1>4, OthersStay

LEMMA SpikesHold == Spec => []SpikeInv
  <1>1. Init => SpikeInv
    <2> SUFFICES ASSUME Init, NEW s PROVE SpikeOf(s)
      BY DEF SpikeInv
    <2>1. fired["cost_spike"] = {} /\ ModelCalls(s) = {} /\ DOMAIN seen["cost_spike"] = {}
      BY DEF Init, Detectors, Asked, Named, ModelCalls, Trace, Since
    <2>2. SpikeState(s) = [samples |-> <<>>, over |-> 0] /\ LaterCalls(s) = {}
      BY <2>1 DEF SpikeState, Get, LaterCalls
    <2>3. SpikeState(s).samples = <<>> /\ SpikeState(s).over = 0
      BY <2>2
    <2>4. Learnt(hist, ModelCalls(s), <<>>)
      BY <2>1, NothingLearnt
    <2>5. /\ Counts(LaterCalls(s), CostlyCalls(s), CostlyCalls(s), 0)
          /\ ~ InARow(LaterCalls(s), CostlyCalls(s), CostlyCalls(s), Sustain)
      BY <2>2 DEF Counts, InARow
    <2>6. Learnt(hist, ModelCalls(s), SpikeState(s).samples)
      BY <2>3, <2>4
    <2>7. Counts(LaterCalls(s), CostlyCalls(s), CostlyCalls(s), SpikeState(s).over)
      BY <2>3, <2>5
    <2> QED  BY <2>1, <2>2, <2>5, <2>6, <2>7 DEF SpikeOf
  <1> QED  BY <1>1, SpikesKept, TypesHold, PTL DEF Spec

\* overflow.observe and cost_spike.observe: at every moment a source is
\* reported exactly when enough of its calls in a row were too large, for the
\* window of the model and for the median of its first calls, which the
\* detector learnt while the calls came.
THEOREM SpikesCaught == Spec => []SpikesAreCaught
  <1>1. OverflowInv /\ SpikeInv => SpikesAreCaught
    <2> SUFFICES ASSUME OverflowInv, SpikeInv PROVE SpikesAreCaught
      OBVIOUS
    <2>1. ASSUME NEW s
          PROVE  LET S == {i \in ModelCalls(s) : Ev(i).window > 0}
                     Full == {i \in S : 10 * Ev(i).tokens > 9 * Ev(i).window}
                     Later == {i \in ModelCalls(s) : Cardinality(Upto(ModelCalls(s), i)) > BaselineCalls}
                     Costly == {i \in Later : 2 * Ev(i).tokens > SpikeFactor * TwiceMedian(Baseline(s))}
                 IN  /\ (<<s>> \in fired["overflow"]) <=> InARow(S, Full, Full, OverCalls)
                     /\ (<<s>> \in fired["cost_spike"]) <=> InARow(Later, Costly, Costly, Sustain)
      <3>1. OverflowOf(s) /\ SpikeOf(s)
        BY DEF OverflowInv, SpikeInv
      <3>2. (<<s>> \in fired["overflow"]) <=> InARow(Sized(s), FullCalls(s), FullCalls(s), OverCalls)
        BY <3>1 DEF OverflowOf
      <3>3. (<<s>> \in fired["cost_spike"]) <=> InARow(LaterCalls(s), CostlyCalls(s), CostlyCalls(s), Sustain)
        BY <3>1 DEF SpikeOf
      <3> QED  BY <3>2, <3>3 DEF Sized, FullCalls, LaterCalls, CostlyCalls
    <2> QED  BY <2>1 DEF SpikesAreCaught
  <1> QED  BY <1>1, OverflowHolds, SpikesHold, PTL

\* anomaly.py, retry_storm.py, overflow.py and cost_spike.py: what these
\* detectors have reported is at every moment a function of the trace alone.
THEOREM CallsCounted == Spec => []CallsAreCounted
  <1>1. LoopsAreCaught /\ StormsAreCaught /\ SpikesAreCaught => CallsAreCounted
    BY DEF CallsAreCounted
  <1> QED  BY <1>1, LoopsCaught, StormsCaught, SpikesCaught, PTL

-----------------------------------------------------------------------------
(* The detectors of misused tools. *)

Of(s) == {i \in Trace : Ev(i).source = s}
CleanOf(s) == {i \in ToolsOf(s) : ~ Ev(i).injected}
ToolNames(h, C) == {Events[h[i].ev].tool : i \in C}
\* Clean calls enough, and none of them used the tool.
Novel(h, C, tool) == Cardinality(C) >= MinCalls /\ tool \notin ToolNames(h, C)
Driven(s) == \E j \in ToolsOf(s) : Ev(j).injected /\ Novel(hist, CleanUpto(s, j), Ev(j).tool)
Harmed(s) == \E j \in ToolsOf(s) : Ev(j).harmful /\ ~ Ev(j).injected

\* What is kept is what the clean calls used, and how many there are.
InjectionOf(s) ==
    /\ Get(seen["injection"], s, [allowed |-> {}, calls |-> 0])
            = [allowed |-> ToolNames(hist, CleanOf(s)), calls |-> Cardinality(CleanOf(s))]
    /\ <<s>> \in fired["injection"] <=> Driven(s)
WrongOf(s) == (\E t \in fired["wrong_tool"] : t[1] = s) <=> Harmed(s)
DropOf(s) ==
    /\ Get(seen["binding_drop"], s, 0) = Cardinality(DropsOf(s))
    /\ <<s>> \in fired["binding_drop"] <=> Cardinality(DropsOf(s)) >= Drops
MisuseOf(s) == InjectionOf(s) /\ WrongOf(s) /\ DropOf(s)
MisuseInv == \A s : MisuseOf(s)

\* An event and the events of a source.
LEMMA SourceStep ==
    ASSUME Typed, NEW n \in Scenarios[scenario].events, Receive(n), NEW s
    PROVE  LET e == Events[n]
               L == Len(hist) + 1
               tool == e.source = s /\ e.kind \in {"tool.start", "tool.end"} /\ e.tool # NoTool
           IN  /\ L \in Nat /\ Events[hist'[L].ev] = e
               /\ Of(s) \subseteq Nat /\ IsFiniteSet(Of(s))
               /\ \A i \in Of(s) : i < L /\ Events[hist'[i].ev] = Ev(i)
               /\ Of(s)' = IF e.source = s THEN Of(s) \cup {L} ELSE Of(s)
               /\ ToolsOf(s)' = IF tool THEN ToolsOf(s) \cup {L} ELSE ToolsOf(s)
               /\ e.injected \in BOOLEAN /\ e.harmful \in BOOLEAN /\ e.dropped \in BOOLEAN
               /\ e.harmful => e.tool # NoTool
  <1> DEFINE e == Events[n]
             L == Len(hist) + 1
             tool == e.source = s /\ e.kind \in {"tool.start", "tool.end"} /\ e.tool # NoTool
  <1>1. /\ L \in Nat /\ Trace' = Trace \cup {L} /\ Events[hist'[L].ev] = e
        /\ \A i \in Trace : i \in Nat /\ i < L /\ hist'[i] = hist[i]
    BY TraceStep
  <1>2. Of(s) \subseteq Trace /\ IsFiniteSet(Of(s))
    BY TraceIsPast, FS_Subset DEF Of
  <1>3. Of(s)' = IF e.source = s THEN Of(s) \cup {L} ELSE Of(s)
    BY <1>1 DEF Of, Ev
  <1>4. ToolsOf(s)' = IF tool THEN ToolsOf(s) \cup {L} ELSE ToolsOf(s)
    BY <1>1, <1>2, <1>3 DEF ToolsOf, Ev
  <1>5. \A i \in Of(s) : i \in Nat /\ i < L /\ Events[hist'[i].ev] = Ev(i)
    BY <1>1, <1>2 DEF Ev
  <1>6. /\ e.injected \in BOOLEAN /\ e.harmful \in BOOLEAN /\ e.dropped \in BOOLEAN
        /\ e.harmful => e.tool # NoTool
    BY EventTypes
  <1> HIDE DEF e, L, tool
  <1> QED  BY <1>1, <1>2, <1>3, <1>4, <1>5, <1>6 DEF e, L, tool

LEMMA InjectionSeen ==
    ASSUME Typed, MisuseInv, NEW n \in Scenarios[scenario].events, Receive(n), NEW s
    PROVE  InjectionOf(s)'
  <1> DEFINE e == Events[n]
             L == Len(hist) + 1
             T == ToolsOf(s)
             C == CleanOf(s)
             old == seen["injection"]
             st == [allowed |-> ToolNames(hist, C), calls |-> Cardinality(C)]
             tool == e.source = s /\ e.kind \in {"tool.start", "tool.end"} /\ e.tool # NoTool
             novel == tool /\ e.injected /\ Novel(hist, C, e.tool)
  <1>1. /\ L \in Nat /\ Events[hist'[L].ev] = e
        /\ T \subseteq Nat /\ IsFiniteSet(T) /\ C \subseteq T /\ IsFiniteSet(C)
        /\ \A i \in T : i < L /\ Events[hist'[i].ev] = Ev(i) /\ Events[hist'[i].ev] = Events[hist[i].ev]
        /\ T' = IF tool THEN T \cup {L} ELSE T
        /\ e.injected \in BOOLEAN
    <2>1. /\ L \in Nat /\ Events[hist'[L].ev] = e
          /\ Of(s) \subseteq Nat /\ IsFiniteSet(Of(s))
          /\ \A i \in Of(s) : i < L /\ Events[hist'[i].ev] = Ev(i)
          /\ T' = IF tool THEN T \cup {L} ELSE T
          /\ e.injected \in BOOLEAN
      BY SourceStep
    <2>2. T \subseteq Of(s) /\ C \subseteq T
      BY DEF ToolsOf, CleanOf, Of
    <2>3. IsFiniteSet(T) /\ IsFiniteSet(C)
      BY <2>1, <2>2, FS_Subset
    <2>4. \A i : Ev(i) = Events[hist[i].ev]
      BY DEF Ev
    <2> QED  BY <2>1, <2>2, <2>3, <2>4
  <1>2. /\ seen'["injection"] = InjectedCall(old, e).state
        /\ fired'["injection"] = fired["injection"] \cup InjectedCall(old, e).fires
    BY NamedMoves, AnswersAre DEF Named
  <1>3. /\ Get(old, s, [allowed |-> {}, calls |-> 0]) = st
        /\ <<s>> \in fired["injection"] <=> Driven(s)
    BY DEF MisuseInv, MisuseOf, InjectionOf
  <1>4. C' = IF tool /\ ~ e.injected THEN C \cup {L} ELSE C
    BY <1>1 DEF CleanOf, Ev
  <1>5. \A X : X \subseteq T => ToolNames(hist', X) = ToolNames(hist, X)
    BY <1>1 DEF ToolNames
  <1>6. ToolNames(hist', C \cup {L}) = ToolNames(hist, C) \cup {e.tool}
    BY <1>1 DEF ToolNames
  <1>7. Cardinality(C) \in Nat /\ L \notin C /\ Cardinality(C \cup {L}) = Cardinality(C) + 1
    BY <1>1, FS_CardinalityType, FS_AddElement
  <1>8. /\ Get(seen'["injection"], s, [allowed |-> {}, calls |-> 0])
            = IF tool /\ ~ e.injected
              THEN [allowed |-> ToolNames(hist, C) \cup {e.tool}, calls |-> Cardinality(C) + 1] ELSE st
        /\ <<s>> \in fired'["injection"] <=> <<s>> \in fired["injection"] \/ novel
    <2>1. CASE ~ tool
      <3> DEFINE other == e.source
      <3>1. (seen'["injection"] = old /\ fired'["injection"] = fired["injection"]) \/ other # s
        BY <1>2, <2>1 DEF InjectedCall, Ignore
      <3>2. PICK v : seen'["injection"] \in {old, Put(old, other, v)}
        BY <1>2 DEF InjectedCall, Ignore, Learn, Judge
      <3>3. fired'["injection"] \subseteq fired["injection"] \cup {<<other>>} /\ fired["injection"] \subseteq fired'["injection"]
        BY <1>2 DEF InjectedCall, Ignore, Learn, Judge
      <3>4. /\ Get(seen'["injection"], s, [allowed |-> {}, calls |-> 0]) = Get(old, s, [allowed |-> {}, calls |-> 0])
            /\ <<s>> \in fired'["injection"] <=> <<s>> \in fired["injection"]
        <4> HIDE DEF other, old
        <4>1. Get(seen'["injection"], s, [allowed |-> {}, calls |-> 0]) = Get(old, s, [allowed |-> {}, calls |-> 0])
          BY <3>1, <3>2, OtherKeyKept
        <4>2. <<s>> \in fired'["injection"] <=> <<s>> \in fired["injection"]
          BY <3>1, <3>3
        <4> QED  BY <4>1, <4>2
      <3> QED  BY <1>3, <2>1, <3>4
    <2>2. CASE tool /\ e.injected
      <3>1. InjectedCall(old, e) = Judge(old, s, st, Novel(hist, C, e.tool), <<s>>, {s})
        <4>1. st.allowed = ToolNames(hist, C) /\ st.calls = Cardinality(C)
          OBVIOUS
        <4> HIDE DEF st
        <4> QED  BY <1>3, <2>2, <4>1 DEF InjectedCall, Novel, Judge
      <3> HIDE DEF st
      <3> QED  BY <1>2, <2>2, <3>1 DEF Judge, Put, Get
    <2>3. CASE tool /\ ~ e.injected
      <3>1. InjectedCall(old, e) = Learn(old, s, [allowed |-> ToolNames(hist, C) \cup {e.tool}, calls |-> Cardinality(C) + 1])
        <4>1. st.allowed = ToolNames(hist, C) /\ st.calls = Cardinality(C)
          OBVIOUS
        <4> HIDE DEF st, C
        <4> QED  BY <1>3, <2>3, <4>1 DEF InjectedCall
      <3> QED  BY <1>2, <2>3, <3>1 DEF Learn, Put, Get
    <2> QED  BY <1>1, <2>1, <2>2, <2>3
  <1>9. Get(seen'["injection"], s, [allowed |-> {}, calls |-> 0])
            = [allowed |-> ToolNames(hist', C'), calls |-> Cardinality(C')]
    <2>1. CASE tool /\ ~ e.injected
      <3>1. C' = C \cup {L}
        BY <1>4, <2>1
      <3> HIDE DEF C, L, tool
      <3> QED  BY <1>6, <1>7, <1>8, <2>1, <3>1
    <2>2. CASE ~ (tool /\ ~ e.injected)
      <3>1. C' = C /\ ToolNames(hist', C) = ToolNames(hist, C)
        BY <1>1, <1>4, <1>5, <2>2
      <3>2. [allowed |-> ToolNames(hist', C'), calls |-> Cardinality(C')] = st
        BY <3>1
      <3> HIDE DEF C, L, tool, st
      <3> QED  BY <1>8, <2>2, <3>2
    <2> QED  BY <2>1, <2>2
  <1>10. Driven(s)' <=> \E j \in T' : /\ Events[hist'[j].ev].injected
                                      /\ Novel(hist', {i \in Upto(T', j) : ~ Events[hist'[i].ev].injected}, Events[hist'[j].ev].tool)
    BY DEF Driven, CleanUpto, Ev
  <1>11. ASSUME NEW j \in T
         PROVE  LET X == {i \in Upto(T', j) : ~ Events[hist'[i].ev].injected} IN
                X = CleanUpto(s, j) /\ (\A t : Novel(hist', X, t) <=> Novel(hist, CleanUpto(s, j), t))
    <2> DEFINE X == {i \in Upto(T', j) : ~ Events[hist'[i].ev].injected}
    <2>1. Upto(T', j) = Upto(T, j)
      BY <1>1, <1>11 DEF Upto
    <2>2. X = CleanUpto(s, j) /\ X \subseteq T
      BY <1>1, <2>1 DEF CleanUpto, Upto
    <2>3. ToolNames(hist', X) = ToolNames(hist, CleanUpto(s, j))
      BY <1>5, <2>2
    <2> HIDE DEF X
    <2>4. \A t : Novel(hist', X, t) <=> Novel(hist, CleanUpto(s, j), t)
      BY <2>2, <2>3 DEF Novel
    <2> QED  BY <2>2, <2>4 DEF X
  <1>12. tool /\ e.injected =>
            LET X == {i \in Upto(T', L) : ~ Events[hist'[i].ev].injected} IN
            X = C /\ (\A t : Novel(hist', X, t) <=> Novel(hist, C, t))
    <2> SUFFICES ASSUME tool, e.injected
                 PROVE  LET X == {i \in Upto(T', L) : ~ Events[hist'[i].ev].injected} IN
                        X = C /\ (\A t : Novel(hist', X, t) <=> Novel(hist, C, t))
      OBVIOUS
    <2> DEFINE X == {i \in Upto(T', L) : ~ Events[hist'[i].ev].injected}
    <2>1. Upto(T', L) = T \cup {L}
      BY <1>1 DEF Upto
    <2>2. X = C
      BY <1>1, <2>1 DEF CleanOf
    <2>3. ToolNames(hist', X) = ToolNames(hist, C)
      BY <1>1, <1>5, <2>2
    <2> HIDE DEF X
    <2>4. \A t : Novel(hist', X, t) <=> Novel(hist, C, t)
      BY <2>2, <2>3 DEF Novel
    <2> QED  BY <2>2, <2>4 DEF X
  <1>13. \A j \in T : Events[hist'[j].ev] = Ev(j)
    BY <1>1
  <1>14. Driven(s) <=> \E j \in T : Ev(j).injected /\ Novel(hist, CleanUpto(s, j), Ev(j).tool)
    BY DEF Driven
  <1>15. Events[hist'[L].ev] = e /\ T' = IF tool THEN T \cup {L} ELSE T
    BY <1>1
  <1>16. Driven(s)' <=> Driven(s) \/ novel
    <2> HIDE DEF T, C, L, e
    <2>1. CASE tool
      <3>1. T' = T \cup {L}
        BY <1>15, <2>1
      <3>2. e.injected => (Novel(hist', {i \in Upto(T', L) : ~ Events[hist'[i].ev].injected}, e.tool)
                                <=> Novel(hist, C, e.tool))
        BY <1>12, <2>1
      <3>3. \A j \in T : Novel(hist', {i \in Upto(T', j) : ~ Events[hist'[i].ev].injected}, Events[hist'[j].ev].tool)
                                <=> Novel(hist, CleanUpto(s, j), Ev(j).tool)
        BY <1>11, <1>13
      <3> QED  BY <1>10, <1>13, <1>14, <1>15, <2>1, <3>1, <3>2, <3>3
    <2>2. CASE ~ tool
      <3>1. T' = T
        BY <1>15, <2>2
      <3>2. \A j \in T : Novel(hist', {i \in Upto(T', j) : ~ Events[hist'[i].ev].injected}, Events[hist'[j].ev].tool)
                                <=> Novel(hist, CleanUpto(s, j), Ev(j).tool)
        BY <1>11, <1>13
      <3> QED  BY <1>10, <1>13, <1>14, <2>2, <3>1, <3>2
    <2> QED  BY <2>1, <2>2
  <1>17. <<s>> \in fired'["injection"] <=> Driven(s)'
    BY <1>3, <1>8, <1>16
  <1> QED  BY <1>9, <1>17 DEF InjectionOf

LEMMA WrongSeen ==
    ASSUME Typed, MisuseInv, NEW n \in Scenarios[scenario].events, Receive(n), NEW s
    PROVE  WrongOf(s)'
  <1> DEFINE e == Events[n]
             L == Len(hist) + 1
             T == ToolsOf(s)
             old == seen["wrong_tool"]
             tool == e.source = s /\ e.kind \in {"tool.start", "tool.end"} /\ e.tool # NoTool
             harm == tool /\ e.harmful /\ ~ e.injected
  <1>1. /\ L \in Nat /\ Events[hist'[L].ev] = e
        /\ \A i \in Of(s) : i < L /\ Events[hist'[i].ev] = Ev(i)
        /\ T' = IF tool THEN T \cup {L} ELSE T
        /\ e.harmful => e.tool # NoTool
    BY SourceStep
  <1>2. \A i \in T : Events[hist'[i].ev] = Ev(i)
    BY <1>1 DEF ToolsOf, Of
  <1>3. fired'["wrong_tool"] = fired["wrong_tool"] \cup WrongTool(old, e).fires
    BY NamedMoves, AnswersAre DEF Named
  <1>4. (\E t \in fired'["wrong_tool"] : t[1] = s) <=> (\E t \in fired["wrong_tool"] : t[1] = s) \/ harm
    <2>1. WrongTool(old, e).fires =
            IF e.kind \in {"tool.start", "tool.end"} /\ e.harmful /\ ~ e.injected THEN {<<e.source, e.tool>>} ELSE {}
      BY DEF WrongTool, Ignore, Judge
    <2>2. <<e.source, e.tool>>[1] = e.source
      OBVIOUS
    <2> HIDE DEF e
    <2> QED  BY <1>1, <1>3, <2>1, <2>2
  <1>5. Harmed(s)' <=> \E j \in T' : Events[hist'[j].ev].harmful /\ ~ Events[hist'[j].ev].injected
    BY DEF Harmed, Ev
  <1>6. Harmed(s)' <=> Harmed(s) \/ harm
    BY <1>1, <1>2, <1>5 DEF Harmed
  <1>7. (\E t \in fired["wrong_tool"] : t[1] = s) <=> Harmed(s)
    BY DEF MisuseInv, MisuseOf, WrongOf
  <1> QED  BY <1>4, <1>6, <1>7 DEF WrongOf

LEMMA DropSeen ==
    ASSUME Typed, MisuseInv, NEW n \in Scenarios[scenario].events, Receive(n), NEW s
    PROVE  DropOf(s)'
  <1> DEFINE e == Events[n]
             L == Len(hist) + 1
             D == DropsOf(s)
             old == seen["binding_drop"]
             mine == e.source = s /\ e.dropped
  <1>1. /\ L \in Nat /\ Events[hist'[L].ev] = e
        /\ Of(s) \subseteq Nat /\ IsFiniteSet(Of(s))
        /\ \A i \in Of(s) : i < L /\ Events[hist'[i].ev] = Ev(i)
        /\ Of(s)' = IF e.source = s THEN Of(s) \cup {L} ELSE Of(s)
    BY SourceStep
  <1>2. D \subseteq Of(s) /\ IsFiniteSet(D)
    BY <1>1, FS_Subset DEF DropsOf, Of
  <1>3. D' = IF mine THEN D \cup {L} ELSE D
    BY SourceStep, TraceStep DEF DropsOf, Ev
  <1>4. /\ seen'["binding_drop"] = BindingDrop(old, e).state
        /\ fired'["binding_drop"] = fired["binding_drop"] \cup BindingDrop(old, e).fires
    BY NamedMoves, AnswersAre DEF Named
  <1>5. /\ Get(old, s, 0) = Cardinality(D)
        /\ <<s>> \in fired["binding_drop"] <=> Cardinality(D) >= Drops
    BY DEF MisuseInv, MisuseOf, DropOf
  <1>6. Cardinality(D) \in Nat /\ Drops \in Nat /\ L \notin D /\ Cardinality(D \cup {L}) = Cardinality(D) + 1
    <2>1. L \notin D /\ Drops \in Nat
      BY <1>1, <1>2, TraceAssumption
    <2>2. Cardinality(D) \in Nat
      BY <1>2, FS_CardinalityType
    <2> HIDE DEF D
    <2> QED  BY <1>2, <2>1, <2>2, FS_AddElement
  <1> HIDE DEF D, L
  <1>7. CASE ~ mine
    <2>1. Get(seen'["binding_drop"], s, 0) = Get(old, s, 0) /\ (<<s>> \in fired'["binding_drop"] <=> <<s>> \in fired["binding_drop"])
      BY <1>4, <1>7 DEF BindingDrop, Ignore, Judge, Put, Get
    <2>2. D' = D
      BY <1>3, <1>7
    <2> QED  BY <1>5, <2>1, <2>2 DEF DropOf, D
  <1>8. CASE mine
    <2>1. BindingDrop(old, e) = Judge(old, s, Cardinality(D) + 1, Cardinality(D) + 1 >= Drops, <<s>>, {s})
      BY <1>5, <1>8 DEF BindingDrop
    <2>2. /\ Get(seen'["binding_drop"], s, 0) = Cardinality(D) + 1
          /\ <<s>> \in fired'["binding_drop"] <=> <<s>> \in fired["binding_drop"] \/ Cardinality(D) + 1 >= Drops
      BY <1>4, <2>1 DEF Judge, Put, Get
    <2>3. Cardinality(D') = Cardinality(D) + 1
      BY <1>3, <1>6, <1>8
    <2>4. <<s>> \in fired'["binding_drop"] <=> Cardinality(D') >= Drops
      BY <1>5, <1>6, <2>2, <2>3
    <2> QED  BY <2>2, <2>3, <2>4 DEF DropOf, D
  <1> QED  BY <1>7, <1>8

LEMMA MisuseKept == Typed /\ MisuseInv /\ [Next]_vars => MisuseInv'
  <1> SUFFICES ASSUME Typed, MisuseInv, [Next]_vars, NEW s PROVE MisuseOf(s)'
    BY DEF MisuseInv
  <1>1. CASE \E n \in Scenarios[scenario].events : Receive(n)
    BY <1>1, InjectionSeen, WrongSeen, DropSeen DEF MisuseOf
  <1>2. CASE \A n \in Scenarios[scenario].events : ~ Receive(n)
    <2>1. MisuseOf(s) /\ Drops \in Nat \ {0}
      BY TraceAssumption DEF MisuseInv
    <2>2. InjectionOf(s)'
      <3>1. CASE hist' = hist /\ Trace' = Trace /\ seen' = seen /\ fired'["injection"] = fired["injection"]
        <4>1. ToolsOf(s)' = ToolsOf(s)
          BY <3>1 DEF ToolsOf, Of, Ev
        <4>2. CleanOf(s)' = CleanOf(s) /\ \A j : CleanUpto(s, j)' = CleanUpto(s, j)
          BY <3>1, <4>1 DEF CleanOf, CleanUpto, Ev, Upto
        <4>3. Driven(s)' <=> Driven(s)
          BY <3>1, <4>1, <4>2 DEF Driven, Ev
        <4> QED  BY <2>1, <3>1, <4>2, <4>3 DEF MisuseOf, InjectionOf
      <3>2. CASE Trace' = {} /\ DOMAIN seen'["injection"] = {} /\ fired'["injection"] = {}
        <4>1. ToolsOf(s)' = {} /\ CleanOf(s)' = {}
          BY <3>2 DEF ToolsOf, CleanOf, Of
        <4>2. ToolNames(hist', CleanOf(s)') = {} /\ Cardinality(CleanOf(s)') = 0
          BY <4>1, FS_EmptySet DEF ToolNames
        <4> QED  BY <3>2, <4>1, <4>2 DEF InjectionOf, Driven, Get
      <3>3. "injection" \in Named \ {"anomaly"}
        BY DEF Named
      <3> QED  BY <1>2, <3>1, <3>2, <3>3, OthersStay
    <2>3. WrongOf(s)'
      <3>1. CASE hist' = hist /\ Trace' = Trace /\ fired'["wrong_tool"] = fired["wrong_tool"]
        <4>1. ToolsOf(s)' = ToolsOf(s)
          BY <3>1 DEF ToolsOf, Of, Ev
        <4>2. Harmed(s)' <=> Harmed(s)
          BY <3>1, <4>1 DEF Harmed, Ev
        <4> QED  BY <2>1, <3>1, <4>2 DEF MisuseOf, WrongOf
      <3>2. CASE Trace' = {} /\ fired'["wrong_tool"] = {}
        BY <3>2 DEF WrongOf, Harmed, ToolsOf, Of
      <3>3. "wrong_tool" \in Named \ {"anomaly"}
        BY DEF Named
      <3> QED  BY <1>2, <3>1, <3>2, <3>3, OthersStay
    <2>4. DropOf(s)'
      <3>1. CASE hist' = hist /\ Trace' = Trace /\ seen' = seen /\ fired'["binding_drop"] = fired["binding_drop"]
        <4>1. DropsOf(s)' = DropsOf(s)
          BY <3>1 DEF DropsOf, Of, Ev
        <4> QED  BY <2>1, <3>1, <4>1 DEF MisuseOf, DropOf
      <3>2. CASE Trace' = {} /\ DOMAIN seen'["binding_drop"] = {} /\ fired'["binding_drop"] = {}
        <4>1. DropsOf(s)' = {} /\ Cardinality({}) = 0
          BY <3>2, FS_EmptySet DEF DropsOf, Of
        <4> QED  BY <2>1, <3>2, <4>1 DEF DropOf, Get
      <3>3. "binding_drop" \in Named \ {"anomaly"}
        BY DEF Named
      <3> QED  BY <1>2, <3>1, <3>2, <3>3, OthersStay
    <2> QED  BY <2>2, <2>3, <2>4 DEF MisuseOf
  <1> QED  BY <1>1, <1>2

\* injection.observe, wrong_tool.observe and binding_drop.observe: an agent is
\* reported exactly when an injected input drove it to a tool that none of its
\* clean calls had used, when it used a destructive tool unprompted, and when
\* its answers skipped a bound tool often enough.
THEOREM MisuseCaught == Spec => []MisuseIsCaught
  <1>1. Init => MisuseInv
    <2> SUFFICES ASSUME Init, NEW s PROVE MisuseOf(s)
      BY DEF MisuseInv
    <2>1. /\ fired["injection"] = {} /\ fired["wrong_tool"] = {} /\ fired["binding_drop"] = {}
          /\ DOMAIN seen["injection"] = {} /\ DOMAIN seen["binding_drop"] = {}
          /\ Of(s) = {} /\ Drops \in Nat \ {0}
      BY TraceAssumption DEF Init, Detectors, Asked, Named, Of, Trace, Since
    <2>2. ToolsOf(s) = {} /\ CleanOf(s) = {} /\ DropsOf(s) = {}
      BY <2>1 DEF ToolsOf, CleanOf, DropsOf, Of
    <2>3. ToolNames(hist, CleanOf(s)) = {} /\ Cardinality({}) = 0
      BY <2>2, FS_EmptySet DEF ToolNames
    <2>4. InjectionOf(s)
      BY <2>1, <2>2, <2>3 DEF InjectionOf, Get, Driven
    <2>5. WrongOf(s)
      BY <2>1, <2>2 DEF WrongOf, Harmed
    <2>6. DropOf(s)
      BY <2>1, <2>2, <2>3 DEF DropOf, Get
    <2> QED  BY <2>4, <2>5, <2>6 DEF MisuseOf
  <1>2. MisuseInv => MisuseIsCaught
    <2> SUFFICES ASSUME MisuseInv PROVE MisuseIsCaught
      OBVIOUS
    <2>1. ASSUME NEW s
          PROVE  /\ (<<s>> \in fired["injection"]) <=>
                    (\E j \in ToolsOf(s) : /\ Ev(j).injected
                                           /\ Cardinality(CleanUpto(s, j)) >= MinCalls
                                           /\ Ev(j).tool \notin {Ev(i).tool : i \in CleanUpto(s, j)})
                 /\ (\E t \in fired["wrong_tool"] : t[1] = s) <=>
                    (\E j \in ToolsOf(s) : Ev(j).harmful /\ ~ Ev(j).injected)
                 /\ (<<s>> \in fired["binding_drop"]) <=> (Cardinality(DropsOf(s)) >= Drops)
      <3>1. InjectionOf(s) /\ WrongOf(s) /\ DropOf(s)
        BY DEF MisuseInv, MisuseOf
      <3>2. (<<s>> \in fired["injection"]) <=> Driven(s)
        BY <3>1 DEF InjectionOf
      <3>3. (\E t \in fired["wrong_tool"] : t[1] = s) <=> Harmed(s)
        BY <3>1 DEF WrongOf
      <3>4. (<<s>> \in fired["binding_drop"]) <=> Cardinality(DropsOf(s)) >= Drops
        BY <3>1 DEF DropOf
      <3> QED  BY <3>2, <3>3, <3>4 DEF Driven, Harmed, Novel, ToolNames, Ev
    <2> QED  BY <2>1 DEF MisuseIsCaught
  <1> QED  BY <1>1, <1>2, MisuseKept, TypesHold, PTL DEF Spec

-----------------------------------------------------------------------------
(* The ping-pong detector. *)

\* Returned in the next state.
NextReturned(S) == {j \in NextPrompt(S) : \E i \in S :
    /\ Neighbours(S, i, j)
    /\ Events[hist'[i].ev].source = Events[hist'[j].ev].to
    /\ Events[hist'[i].ev].to = Events[hist'[j].ev].source}
AgentsIn(h, S) == {Events[h[i].ev].source : i \in S} \cup {Events[h[i].ev].to : i \in S}
WithBoth(A, e) == A \cup {e.source, e.to}
Bouncy(r, m) == InARow(HandOffs(r), HandOffs(r), Returned(HandOffs(r)), m)
Convo(r) == seen["pingpong"][r]

\* The detector knows the last hand-off of a run.  Its count and the streak
\* that leads there differ by one at most: the count of a repeated hand-off
\* is one, like the length of the streak that it begins, and that of a first
\* one is zero.
ConvoIsLast(r) ==
    /\ Convo(r).n \in Nat
    /\ Convo(r).agents \subseteq AgentsIn(hist, HandOffs(r))
    /\ \E l : /\ IsLast(HandOffs(r), l)
              /\ Convo(r).last = hist[l].at
              /\ Convo(r).edge = <<Ev(l).source, Ev(l).to>>
BounceState(r) ==
    /\ r \in DOMAIN seen["pingpong"] <=> HandOffs(r) # {}
    /\ r \in DOMAIN seen["pingpong"] => ConvoIsLast(r)
    /\ IsFiniteSet(AgentsIn(hist, HandOffs(r)))
    /\ \E c : /\ Counts(HandOffs(r), HandOffs(r), Returned(HandOffs(r)), c)
              /\ r \in DOMAIN seen["pingpong"] => c <= Convo(r).n + 1 /\ Convo(r).n <= c
BounceFired(r) ==
    /\ <<r>> \in fired["pingpong"] => Bouncy(r, Reversals)
    /\ /\ Cardinality(AgentsIn(hist, HandOffs(r))) = 2
       /\ \A i \in HandOffs(r) : Ev(i).source # Ev(i).to
       /\ Bouncy(r, Reversals + 1)
       => <<r>> \in fired["pingpong"]
BounceInv == \A r : BounceState(r) /\ BounceFired(r)

\* Two different members of a set of two are all of it.
LEMMA TwoOfTwo ==
    ASSUME NEW A, IsFiniteSet(A), Cardinality(A) = 2, NEW B, B \subseteq A,
           NEW x \in B, NEW y \in B, x # y
    PROVE  Cardinality(B) = 2
  <1>1. IsFiniteSet(B) /\ Cardinality(B) <= 2
    BY FS_Subset
  <1>2. IsFiniteSet({x}) /\ Cardinality({x}) = 1
    BY FS_Singleton
  <1>3. Cardinality({x} \cup {y}) = 2 /\ {x} \cup {y} \subseteq B
    <2>1. y \notin {x} /\ {x} \cup {y} \subseteq B
      OBVIOUS
    <2>2. Cardinality({x} \cup {y}) = IF y \in {x} THEN Cardinality({x}) ELSE Cardinality({x}) + 1
      BY <1>2, FS_AddElement
    <2> QED  BY <1>2, <2>1, <2>2
  <1>4. Cardinality({x} \cup {y}) <= Cardinality(B)
    BY <1>1, <1>3, FS_Subset
  <1>5. Cardinality(B) \in Nat /\ Cardinality(B) <= 2
    BY <1>1, FS_CardinalityType
  <1>6. 2 <= Cardinality(B)
    BY <1>3, <1>4
  <1> QED  BY <1>5, <1>6

LEMMA AgentsGrow ==
    ASSUME NEW h, NEW g, NEW S, NEW l, \A i \in S : Events[g[i].ev] = Events[h[i].ev]
    PROVE  AgentsIn(g, S \cup {l}) = WithBoth(AgentsIn(h, S), Events[g[l].ev])
  <1>1. ASSUME NEW x
        PROVE  /\ x \in AgentsIn(g, S \cup {l}) <=>
                    \E i \in S \cup {l} : x = Events[g[i].ev].source \/ x = Events[g[i].ev].to
               /\ x \in AgentsIn(h, S) <=>
                    \E i \in S : x = Events[h[i].ev].source \/ x = Events[h[i].ev].to
    BY DEF AgentsIn
  <1>2. ASSUME NEW x
        PROVE  x \in AgentsIn(g, S \cup {l}) <=>
                    x \in AgentsIn(h, S) \cup {Events[g[l].ev].source, Events[g[l].ev].to}
    BY <1>1
  <1> QED  BY <1>2 DEF WithBoth

LEMMA ReturnedStep ==
    ASSUME Typed, NEW n \in Scenarios[scenario].events, Receive(n), NEW S, S \subseteq Trace
    PROVE  LET L == Len(hist) + 1
               e == Events[n] IN
           /\ NextReturned(S) = Returned(S)
           /\ SameOn(S, Returned(S), NextReturned(S \cup {L}))
           /\ \A l : IsLast(S, l) => (L \in NextReturned(S \cup {L}) <=>
                now - hist[l].at <= Window /\ Ev(l).source = e.to /\ Ev(l).to = e.source)
  <1> DEFINE L == Len(hist) + 1
             e == Events[n]
             T == S \cup {L}
  <1>1. /\ L \in Nat /\ Events[hist'[L].ev] = e /\ S \subseteq Nat
        /\ \A i \in S : i \in Nat /\ i < L /\ hist'[i] = hist[i] /\ Events[hist'[i].ev] = Ev(i)
    BY TraceStep DEF Ev
  <1>2. /\ NextPrompt(S) = Prompt(S)
        /\ SameOn(S, Prompt(S), NextPrompt(T))
        /\ \A l : IsLast(S, l) => (L \in NextPrompt(T) <=> now - hist[l].at <= Window)
    BY PromptStep
  <1> HIDE DEF L, e
  <1>3. \A i, j : j \in S => (i \in T /\ Neighbours(T, i, j) <=> i \in S /\ Neighbours(S, i, j))
    BY <1>1, PromptGrows
  <1>4. \A l, i : IsLast(S, l) => (i \in T /\ Neighbours(T, i, L) <=> i = l)
    BY <1>1, LastIsNeighbour
  <1>5. NextReturned(S) = Returned(S)
    <2>1. NextPrompt(S) \subseteq S
      BY DEF NextPrompt
    <2>2. \A i \in S : Events[hist'[i].ev] = Ev(i)
      BY <1>1
    <2> HIDE DEF T
    <2> QED  BY <1>2, <2>1, <2>2 DEF NextReturned, Returned
  <1>6. SameOn(S, Returned(S), NextReturned(T))
    <2> SUFFICES ASSUME NEW j \in S PROVE j \in Returned(S) <=> j \in NextReturned(T)
      BY DEF SameOn
    <2>1. j \in Prompt(S) <=> j \in NextPrompt(T)
      BY <1>2 DEF SameOn
    <2>2. j \in Returned(S) <=> j \in Prompt(S) /\ \E i \in S :
            Neighbours(S, i, j) /\ Ev(i).source = Ev(j).to /\ Ev(i).to = Ev(j).source
      BY DEF Returned
    <2>3. j \in NextReturned(T) <=> j \in NextPrompt(T) /\ \E i \in T :
            /\ Neighbours(T, i, j) /\ Events[hist'[i].ev].source = Events[hist'[j].ev].to
            /\ Events[hist'[i].ev].to = Events[hist'[j].ev].source
      BY DEF NextReturned
    <2> HIDE DEF T
    <2>4. Events[hist'[j].ev] = Ev(j) /\ \A i : i \in T /\ Neighbours(T, i, j) <=> i \in S /\ Neighbours(S, i, j)
      BY <1>1, <1>3
    <2>5. ASSUME j \in Returned(S) PROVE j \in NextReturned(T)
      <3>1. PICK i \in S : Neighbours(S, i, j) /\ Ev(i).source = Ev(j).to /\ Ev(i).to = Ev(j).source
        BY <2>2, <2>5
      <3>2. Events[hist'[i].ev] = Ev(i) /\ i \in T /\ Neighbours(T, i, j)
        BY <1>1, <2>4, <3>1
      <3> QED  BY <2>1, <2>2, <2>3, <2>4, <2>5, <3>1, <3>2
    <2>6. ASSUME j \in NextReturned(T) PROVE j \in Returned(S)
      <3>1. PICK i \in T : /\ Neighbours(T, i, j) /\ Events[hist'[i].ev].source = Events[hist'[j].ev].to
                           /\ Events[hist'[i].ev].to = Events[hist'[j].ev].source
        BY <2>3, <2>6
      <3>2. i \in S /\ Neighbours(S, i, j)
        BY <2>4, <3>1
      <3>3. Events[hist'[i].ev] = Ev(i)
        BY <1>1, <3>2
      <3> QED  BY <2>1, <2>2, <2>3, <2>4, <2>6, <3>1, <3>2, <3>3
    <2> QED  BY <2>5, <2>6
  <1>7. ASSUME NEW l, IsLast(S, l)
        PROVE  L \in NextReturned(T) <=>
                    now - hist[l].at <= Window /\ Ev(l).source = e.to /\ Ev(l).to = e.source
    <2>1. L \in NextReturned(T) <=> L \in NextPrompt(T) /\ \E i \in T :
            /\ Neighbours(T, i, L) /\ Events[hist'[i].ev].source = Events[hist'[L].ev].to
            /\ Events[hist'[i].ev].to = Events[hist'[L].ev].source
      BY DEF NextReturned
    <2>2. Events[hist'[l].ev] = Ev(l)
      BY <1>1, <1>7 DEF IsLast
    <2> HIDE DEF T
    <2> QED  BY <1>1, <1>2, <1>4, <1>7, <2>1, <2>2
  <1> QED  BY <1>5, <1>6, <1>7 DEF L, e

\* What the detector makes of one hand-off: the streak is now of c events,
\* the count m, and these are the agents.
Bounced(n, r, T, c, m, agents) ==
    /\ Counts(T, T, NextReturned(T), c) /\ m \in Nat /\ c <= m + 1 /\ m <= c
    /\ \A x : InARow(T, T, NextReturned(T), x) <=> Bouncy(r, x) \/ c >= x
    /\ Events[n].source \in agents /\ Events[n].to \in agents /\ agents \subseteq AgentsIn(hist', T)
    /\ PingPong(seen["pingpong"], Events[n], now)
          = Judge(seen["pingpong"], r,
                  [edge |-> <<Events[n].source, Events[n].to>>, n |-> m, last |-> now, agents |-> agents],
                  m >= Reversals /\ Cardinality(agents) = 2, <<r>>, agents)

LEMMA BounceStep ==
    ASSUME Typed, BounceInv, NEW n \in Scenarios[scenario].events, Receive(n), NEW r,
           Events[n].kind \in {"tool.start", "tool.end"}, Events[n].to # NoTool, Events[n].run = r
    PROVE  \E c, m, agents : Bounced(n, r, HandOffs(r) \cup {Len(hist) + 1}, c, m, agents)
  <1> DEFINE e == Events[n]
             L == Len(hist) + 1
             S == HandOffs(r)
             T == S \cup {L}
             old == seen["pingpong"]
             none == [edge |-> <<>>, n |-> 0, last |-> now, agents |-> {}]
             was == Get(old, r, none)
             conv == IF now - was.last > Window THEN none ELSE was
             m == IF conv.edge = <<e.to, e.source>> THEN conv.n + 1 ELSE IF conv.edge # <<>> THEN 1 ELSE 0
             agents == conv.agents \cup {e.source, e.to}
  <1>1. /\ L \in Nat /\ Events[hist'[L].ev] = e /\ now \in Nat
        /\ \A i \in Trace : /\ i \in Nat /\ i < L /\ hist'[i] = hist[i]
                            /\ hist[i].at \in Nat /\ hist[i].at <= now
    BY TraceStep
  <1>2. S \subseteq Trace /\ S \subseteq Nat /\ IsFiniteSet(S) /\ \A i \in S : i < L
    BY <1>1, TraceIsPast, FS_Subset DEF HandOffs
  <1>3. PingPong(old, e, now) = Judge(old, r, [edge |-> <<e.source, e.to>>, n |-> m, last |-> now, agents |-> agents],
                                      m >= Reversals /\ Cardinality(agents) = 2, <<r>>, agents)
    BY DEF PingPong
  <1>4. BounceState(r) /\ Window \in Nat
    BY TraceAssumption DEF BounceInv
  <1>5. PICK c : /\ Counts(S, S, Returned(S), c)
                 /\ r \in DOMAIN old => c <= Convo(r).n + 1 /\ Convo(r).n <= c
    BY <1>4 DEF BounceState
  <1>6. /\ SameOn(S, Returned(S), NextReturned(T))
        /\ \A l : IsLast(S, l) => (L \in NextReturned(T) <=>
                now - hist[l].at <= Window /\ Ev(l).source = e.to /\ Ev(l).to = e.source)
    BY <1>2, ReturnedStep
  <1> DEFINE new == Longer(c, L, T, NextReturned(T))
  <1>7. /\ Counts(T, T, NextReturned(T), new)
        /\ \A x : InARow(T, T, NextReturned(T), x) <=> Bouncy(r, x) \/ new >= x
    <2>1. SameOn(S, S, T)
      BY DEF SameOn
    <2>2. \A x : Bouncy(r, x) <=> InARow(S, S, Returned(S), x)
      BY DEF Bouncy
    <2> HIDE DEF S, L
    <2> QED  BY <1>1, <1>2, <1>5, <1>6, <2>1, <2>2, StreakGrows
  <1>8. c \in Nat /\ new = IF L \in NextReturned(T) THEN c + 1 ELSE 1
    BY <1>5 DEF Longer, Counts
  <1>10. AgentsIn(hist', T) = AgentsIn(hist, S) \cup {e.source, e.to}
    <2>1. \A i \in S : Events[hist'[i].ev] = Events[hist[i].ev]
      BY <1>1, <1>2
    <2> HIDE DEF S, L
    <2>2. AgentsIn(hist', S \cup {L}) = WithBoth(AgentsIn(hist, S), Events[hist'[L].ev])
      BY <2>1, AgentsGrow
    <2> QED  BY <1>1, <2>2 DEF WithBoth
  <1>11. /\ m \in Nat /\ new <= m + 1 /\ m <= new
         /\ conv.agents \subseteq AgentsIn(hist, S)
    <2>1. CASE r \notin DOMAIN old
      <3>1. was = none /\ S = {} /\ c = 0
        BY <1>4, <1>5, <2>1 DEF Get, BounceState, Counts
      <3>2. conv = none
        BY <3>1
      <3>3. none.edge = <<>> /\ none.agents = {} /\ <<>> # <<e.to, e.source>>
        OBVIOUS
      <3>4. m = 0
        <4> HIDE DEF conv, none
        <4> QED  BY <3>2, <3>3
      <3> HIDE DEF conv, none, new, m
      <3> QED  BY <1>8, <3>1, <3>2, <3>3, <3>4
    <2>2. CASE r \in DOMAIN old
      <3>1. was = old[r] /\ old[r] = Convo(r)
        BY <2>2 DEF Get, Convo
      <3>2. PICK l : /\ IsLast(S, l)
                     /\ old[r].last = hist[l].at
                     /\ old[r].edge = <<Ev(l).source, Ev(l).to>>
        BY <1>4, <2>2, <3>1 DEF BounceState, ConvoIsLast
      <3>3. old[r].n \in Nat /\ old[r].agents \subseteq AgentsIn(hist, S)
        BY <1>4, <2>2, <3>1 DEF BounceState, ConvoIsLast
      <3>4. hist[l].at \in Nat
        BY <1>1, <1>2, <3>2 DEF IsLast
      <3>8. L \in NextReturned(T) <=> now - hist[l].at <= Window /\ Ev(l).source = e.to /\ Ev(l).to = e.source
        BY <1>6, <3>2
      <3>5. c <= old[r].n + 1 /\ old[r].n <= c
        BY <1>5, <2>2, <3>1
      <3>6. CASE now - hist[l].at > Window
        <4>1. conv = none
          BY <3>1, <3>2, <3>6
        <4>2. none.edge = <<>> /\ none.agents = {} /\ <<>> # <<e.to, e.source>>
          OBVIOUS
        <4>3. L \notin NextReturned(T)
          <5> HIDE DEF L, T, S, e
          <5> QED  BY <1>1, <1>4, <3>4, <3>6, <3>8
        <4>4. m = 0
          <5> HIDE DEF conv, none
          <5> QED  BY <4>1, <4>2
        <4> HIDE DEF conv, none, new, m
        <4> QED  BY <1>8, <4>1, <4>2, <4>3, <4>4
      <3>7. CASE ~ now - hist[l].at > Window
        <4>1. conv = old[r]
          BY <3>1, <3>2, <3>7
        <4>2. L \in NextReturned(T) <=> Ev(l).source = e.to /\ Ev(l).to = e.source
          <5> HIDE DEF L, T, S, e
          <5> QED  BY <1>1, <1>4, <3>4, <3>7, <3>8
        <4>3. /\ old[r].edge = <<e.to, e.source>> <=> L \in NextReturned(T)
              /\ old[r].edge # <<>>
          BY <3>2, <4>2
        <4>4. m = IF L \in NextReturned(T) THEN old[r].n + 1 ELSE 1
          <5> HIDE DEF conv, none, T, L
          <5> QED  BY <4>1, <4>3
        <4> HIDE DEF conv, none, new, m, T, L
        <4> QED  BY <1>8, <3>3, <3>5, <4>1, <4>4
      <3> QED  BY <3>6, <3>7
    <2> QED  BY <2>1, <2>2
  <1>12. e.source \in agents /\ e.to \in agents /\ agents \subseteq AgentsIn(hist', T)
    <2> HIDE DEF conv
    <2> QED  BY <1>10, <1>11
  <1>13. Bounced(n, r, T, new, m, agents)
    <2> HIDE DEF m, agents, new, T
    <2> QED  BY <1>3, <1>7, <1>11, <1>12 DEF Bounced
  <1> HIDE DEF m, agents, new
  <1> QED  BY <1>13

LEMMA BounceSeen ==
    ASSUME Typed, BounceInv, NEW n \in Scenarios[scenario].events, Receive(n), NEW r
    PROVE  BounceState(r)' /\ BounceFired(r)'
  <1> DEFINE e == Events[n]
             L == Len(hist) + 1
             S == HandOffs(r)
             old == seen["pingpong"]
             mine == e.kind \in {"tool.start", "tool.end"} /\ e.to # NoTool /\ e.run = r
  <1>1. /\ L \in Nat /\ Trace' = Trace \cup {L} /\ L \notin Trace
        /\ Events[hist'[L].ev] = e /\ hist'[L].at = now
        /\ \A i \in Trace : /\ i \in Nat /\ i < L /\ hist'[i] = hist[i]
    BY TraceStep
  <1>2. S \subseteq Trace /\ S \subseteq Nat /\ IsFiniteSet(S) /\ \A i \in S : i < L
    BY <1>1, TraceIsPast, FS_Subset DEF HandOffs
  <1>3. /\ seen'["pingpong"] = PingPong(old, e, now).state
        /\ fired'["pingpong"] = fired["pingpong"] \cup PingPong(old, e, now).fires
    BY NamedMoves, AnswersAre DEF Named
  <1>4. BounceState(r) /\ BounceFired(r) /\ Reversals \in Nat
    BY TraceAssumption DEF BounceInv
  <1>5. HandOffs(r)' = IF mine THEN S \cup {L} ELSE S
    BY <1>1 DEF HandOffs, Ev
  <1>6. Returned(HandOffs(r))' = NextReturned(HandOffs(r)')
    BY DEF Returned, NextReturned, Prompt, NextPrompt, Ev
  <1>7. \A i \in S : hist'[i] = hist[i] /\ Events[hist'[i].ev] = Ev(i)
    BY <1>1, <1>2 DEF Ev
  <1>8. \A l \in S : Ev(l)' = Ev(l)
    BY <1>7 DEF Ev
  <1>9. CASE ~ mine
    <2>1. HandOffs(r)' = S /\ Returned(HandOffs(r))' = Returned(S)
      <3>1. NextReturned(S) = Returned(S)
        BY <1>2, ReturnedStep
      <3> QED  BY <1>5, <1>6, <1>9, <3>1
    <2>2. /\ (r \in DOMAIN seen'["pingpong"]) <=> r \in DOMAIN old
          /\ r \in DOMAIN old => seen'["pingpong"][r] = old[r]
          /\ <<r>> \in fired'["pingpong"] <=> <<r>> \in fired["pingpong"]
      <3>1. CASE e.kind \notin {"tool.start", "tool.end"} \/ e.to = NoTool
        <4>1. PingPong(old, e, now) = Ignore(old)
          BY <3>1 DEF PingPong
        <4> QED  BY <1>3, <4>1 DEF Ignore
      <3>2. CASE ~ (e.kind \notin {"tool.start", "tool.end"} \/ e.to = NoTool)
        <4>1. \E v, bad, whom : PingPong(old, e, now) = Judge(old, e.run, v, bad, <<e.run>>, whom)
          BY <3>2 DEF PingPong
        <4>2. PICK v, bad, whom : PingPong(old, e, now) = Judge(old, e.run, v, bad, <<e.run>>, whom)
          BY <4>1
        <4>3. e.run # r /\ <<e.run>> # <<r>>
          BY <1>9, <3>2
        <4>4. seen'["pingpong"] = Put(old, e.run, v) /\ fired'["pingpong"] \ {<<e.run>>} = fired["pingpong"] \ {<<e.run>>}
          BY <1>3, <4>2 DEF Judge
        <4> QED  BY <4>3, <4>4 DEF Put
      <3> QED  BY <3>1, <3>2
    <2>3. AgentsIn(hist', S) = AgentsIn(hist, S)
      BY <1>7 DEF AgentsIn
    <2>4. BounceState(r)'
      <3>1. r \in DOMAIN old => ConvoIsLast(r)'
        <4>1. SUFFICES ASSUME r \in DOMAIN old PROVE ConvoIsLast(r)'
          OBVIOUS
        <4>2. Convo(r)' = Convo(r)
          BY <2>2, <4>1 DEF Convo
        <4>3. PICK l : /\ IsLast(S, l)
                       /\ Convo(r).last = hist[l].at
                       /\ Convo(r).edge = <<Ev(l).source, Ev(l).to>>
          BY <1>4, <4>1 DEF BounceState, ConvoIsLast
        <4>4. hist'[l] = hist[l] /\ Ev(l)' = Ev(l)
          BY <1>7, <1>8, <4>3 DEF IsLast
        <4>5. Convo(r).n \in Nat /\ Convo(r).agents \subseteq AgentsIn(hist, S)
          BY <1>4, <4>1 DEF BounceState, ConvoIsLast
        <4> QED  BY <2>1, <2>3, <4>2, <4>3, <4>4, <4>5 DEF ConvoIsLast
      <3>2. r \in DOMAIN old => Convo(r)' = Convo(r)
        BY <2>2 DEF Convo
      <3> QED  BY <1>4, <2>1, <2>2, <2>3, <3>1, <3>2 DEF BounceState
    <2>5. \A x : Bouncy(r, x)' <=> Bouncy(r, x)
      BY <2>1 DEF Bouncy
    <2>6. BounceFired(r)'
      BY <1>4, <1>8, <2>1, <2>2, <2>3, <2>5 DEF BounceFired
    <2> QED  BY <2>4, <2>6
  <1>10. CASE mine
    <2> DEFINE T == S \cup {L}
    <2>1. HandOffs(r)' = T /\ Returned(HandOffs(r))' = NextReturned(T)
      BY <1>5, <1>6, <1>10
    <2>0. PICK c, m, agents : Bounced(n, r, T, c, m, agents)
      BY <1>10, BounceStep
    <2>2. /\ Counts(T, T, NextReturned(T), c) /\ m \in Nat /\ c <= m + 1 /\ m <= c
          /\ \A x : InARow(T, T, NextReturned(T), x) <=> Bouncy(r, x) \/ c >= x
          /\ e.source \in agents /\ e.to \in agents /\ agents \subseteq AgentsIn(hist', T)
          /\ PingPong(old, e, now)
                 = Judge(old, r, [edge |-> <<e.source, e.to>>, n |-> m, last |-> now, agents |-> agents],
                         m >= Reversals /\ Cardinality(agents) = 2, <<r>>, agents)
      BY <2>0 DEF Bounced
    <2>11. \A x : Ev(x)' = Events[hist'[x].ev]
      BY DEF Ev
    <2>12. AgentsIn(hist', T) = AgentsIn(hist, S) \cup {e.source, e.to}
      <3> HIDE DEF S, T, L
      <3>1. AgentsIn(hist', S \cup {L}) = WithBoth(AgentsIn(hist, S), Events[hist'[L].ev])
        <4>1. \A i \in S : Events[hist'[i].ev] = Events[hist[i].ev]
          BY <1>7
        <4> QED  BY <4>1, AgentsGrow
      <3> QED  BY <1>1, <3>1 DEF T, WithBoth
    <2>13. IsFiniteSet(AgentsIn(hist', T))
      <3>1. IsFiniteSet(AgentsIn(hist, S))
        BY <1>4 DEF BounceState
      <3>2. IsFiniteSet(AgentsIn(hist, S) \cup {e.source})
        BY <3>1, FS_AddElement
      <3>3. IsFiniteSet((AgentsIn(hist, S) \cup {e.source}) \cup {e.to})
        BY <3>2, FS_AddElement
      <3>4. AgentsIn(hist', T) = (AgentsIn(hist, S) \cup {e.source}) \cup {e.to}
        BY <2>12
      <3> QED  BY <3>3, <3>4
    <2>3. /\ r \in DOMAIN seen'["pingpong"]
          /\ Convo(r)' = [edge |-> <<e.source, e.to>>, n |-> m, last |-> now, agents |-> agents]
          /\ <<r>> \in fired'["pingpong"] <=>
                <<r>> \in fired["pingpong"] \/ (m >= Reversals /\ Cardinality(agents) = 2)
      BY <1>3, <2>2 DEF Judge, Put, Convo
    <2>4. Convo(r)'.n = m /\ Convo(r)'.agents = agents /\ Convo(r)'.last = now /\ Convo(r)'.edge = <<e.source, e.to>>
      BY <2>3
    <2>5. IsLast(T, L)
      BY <1>1, <1>2 DEF IsLast
    <2>6. BounceState(r)'
      <3>1. ConvoIsLast(r)'
        <4>1. \E l : /\ IsLast(HandOffs(r)', l) /\ Convo(r)'.last = hist'[l].at
                     /\ Convo(r)'.edge = <<Events[hist'[l].ev].source, Events[hist'[l].ev].to>>
          BY <1>1, <2>1, <2>4, <2>5
        <4>2. \E l : /\ IsLast(HandOffs(r)', l) /\ Convo(r)'.last = hist'[l].at
                     /\ Convo(r)'.edge = <<Ev(l)'.source, Ev(l)'.to>>
          BY <2>11, <4>1
        <4>3. Convo(r)'.n \in Nat /\ Convo(r)'.agents \subseteq AgentsIn(hist', HandOffs(r)')
          BY <2>1, <2>2, <2>4
        <4> QED  BY <4>2, <4>3 DEF ConvoIsLast
      <3>2. HandOffs(r)' # {}
        BY <2>1
      <3>3. \E x : /\ Counts(HandOffs(r)', HandOffs(r)', Returned(HandOffs(r))', x)
                   /\ x <= Convo(r)'.n + 1 /\ Convo(r)'.n <= x
        BY <2>1, <2>2, <2>4
      <3>4. IsFiniteSet(AgentsIn(hist', HandOffs(r)'))
        BY <2>1, <2>13
      <3> QED  BY <2>3, <3>1, <3>2, <3>3, <3>4 DEF BounceState
    <2>7. \A x : Bouncy(r, x)' <=> Bouncy(r, x) \/ c >= x
      BY <2>1, <2>2 DEF Bouncy
    <2>8. <<r>> \in fired'["pingpong"] => Bouncy(r, Reversals)'
      <3>1. c \in Nat /\ (m >= Reversals => c >= Reversals)
        BY <1>4, <2>2 DEF Counts
      <3>2. <<r>> \in fired["pingpong"] => Bouncy(r, Reversals)
        BY <1>4 DEF BounceFired
      <3> QED  BY <2>3, <2>7, <3>1, <3>2
    <2>9. ASSUME Cardinality(AgentsIn(hist', T)) = 2,
                 \A i \in T : Ev(i)'.source # Ev(i)'.to,
                 Bouncy(r, Reversals + 1)'
          PROVE  <<r>> \in fired'["pingpong"]
      <3>1. \A i \in S : Ev(i).source # Ev(i).to
        BY <1>8, <2>9
      <3>2. e.source # e.to
        BY <1>1, <2>9, <2>11
      <3>4. CASE c >= Reversals + 1
        <4>1. m >= Reversals
          BY <1>4, <2>2, <3>4 DEF Counts
        <4>2. Cardinality(agents) = 2
          <5> DEFINE A == AgentsIn(hist', T)
          <5>1. agents \subseteq A /\ e.source \in agents /\ e.to \in agents /\ Cardinality(A) = 2 /\ IsFiniteSet(A)
            BY <2>2, <2>9, <2>13
          <5> HIDE DEF A, e
          <5> QED  BY <3>2, <5>1, TwoOfTwo
        <4> QED  BY <2>3, <4>1, <4>2
      <3>5. CASE Bouncy(r, Reversals + 1)
        <4>1. PICK i \in S : TRUE
          BY <3>5 DEF Bouncy, InARow
        <4>2. AgentsIn(hist, S) \subseteq AgentsIn(hist', T)
          BY <2>12
        <4>3. Ev(i).source \in AgentsIn(hist, S) /\ Ev(i).to \in AgentsIn(hist, S)
          BY DEF AgentsIn, Ev
        <4>4. Cardinality(AgentsIn(hist, S)) = 2
          <5> DEFINE A == AgentsIn(hist', T)
                     B == AgentsIn(hist, S)
          <5>1. B \subseteq A /\ Cardinality(A) = 2 /\ IsFiniteSet(A) /\ Ev(i).source # Ev(i).to
            BY <2>9, <2>13, <3>1, <4>2
          <5> HIDE DEF A, B
          <5> QED  BY <4>3, <5>1, TwoOfTwo DEF B
        <4> QED  BY <1>4, <2>3, <3>1, <3>5, <4>4 DEF BounceFired
      <3> QED  BY <2>7, <2>9, <3>4, <3>5
    <2>10. BounceFired(r)'
      BY <2>1, <2>8, <2>9 DEF BounceFired
    <2> QED  BY <2>6, <2>10
  <1> QED  BY <1>9, <1>10

LEMMA BouncesKept == Typed /\ BounceInv /\ [Next]_vars => BounceInv'
  <1> SUFFICES ASSUME Typed, BounceInv, [Next]_vars, NEW r PROVE BounceState(r)' /\ BounceFired(r)'
    BY DEF BounceInv
  <1>1. CASE \E n \in Scenarios[scenario].events : Receive(n)
    BY <1>1, BounceSeen
  <1>2. CASE hist' = hist /\ Trace' = Trace /\ seen' = seen /\ fired'["pingpong"] = fired["pingpong"]
    <2>1. BounceState(r) /\ BounceFired(r)
      BY DEF BounceInv
    <2>2. HandOffs(r)' = HandOffs(r)
      BY <1>2 DEF HandOffs, Ev
    <2>3. Returned(HandOffs(r))' = Returned(HandOffs(r))
      BY <1>2, <2>2 DEF Returned, Prompt, Ev
    <2>4. Convo(r)' = Convo(r) /\ \A x : Ev(x)' = Ev(x)
      BY <1>2 DEF Convo, Ev
    <2>5. ConvoIsLast(r) => ConvoIsLast(r)'
      BY <1>2, <2>2, <2>4 DEF ConvoIsLast
    <2>6. BounceState(r)'
      BY <1>2, <2>1, <2>2, <2>3, <2>4, <2>5 DEF BounceState
    <2>7. \A x : Bouncy(r, x)' <=> Bouncy(r, x)
      BY <2>2, <2>3 DEF Bouncy
    <2>8. BounceFired(r)'
      BY <1>2, <2>1, <2>2, <2>4, <2>7 DEF BounceFired
    <2> QED  BY <2>6, <2>8
  <1>3. CASE Trace' = {} /\ DOMAIN seen'["pingpong"] = {} /\ fired'["pingpong"] = {}
    <2>1. HandOffs(r)' = {} /\ r \notin DOMAIN seen'["pingpong"]
      BY <1>3 DEF HandOffs
    <2>2. Counts(HandOffs(r)', HandOffs(r)', Returned(HandOffs(r))', 0)
      BY <2>1 DEF Counts
    <2>6. AgentsIn(hist', HandOffs(r)') = {}
      BY <2>1 DEF AgentsIn
    <2>3. BounceState(r)'
      BY <2>1, <2>2, <2>6, FS_EmptySet DEF BounceState
    <2>4. ~ Bouncy(r, Reversals + 1)'
      BY <2>1 DEF Bouncy, InARow
    <2>5. BounceFired(r)'
      BY <1>3, <2>4 DEF BounceFired
    <2> QED  BY <2>3, <2>5
  <1>4. "pingpong" \in Named \ {"anomaly"}
    BY DEF Named
  <1> QED  BY <1>1, <1>2, <1>3, <1>4, OthersStay

\* pingpong.observe: whatever it reports went back and forth Reversals - 1
\* times in a row, and a conversation of two agents that did so once more is
\* always reported, although the count and the agents start anew after a
\* pause and a repeated hand-off counts as a reversal.
THEOREM BouncesCaught == Spec => []BouncesAreCaught
  <1>1. Init => BounceInv
    <2> SUFFICES ASSUME Init, NEW r PROVE BounceState(r) /\ BounceFired(r)
      BY DEF BounceInv
    <2>1. fired["pingpong"] = {} /\ HandOffs(r) = {} /\ DOMAIN seen["pingpong"] = {}
      BY DEF Init, Detectors, Asked, Named, HandOffs, Trace, Since
    <2>2. Counts(HandOffs(r), HandOffs(r), Returned(HandOffs(r)), 0)
      BY <2>1 DEF Counts
    <2>3. ~ Bouncy(r, Reversals + 1)
      BY <2>1 DEF Bouncy, InARow
    <2>4. AgentsIn(hist, HandOffs(r)) = {}
      BY <2>1 DEF AgentsIn
    <2> QED  BY <2>1, <2>2, <2>3, <2>4, FS_EmptySet DEF BounceState, BounceFired
  <1>2. BounceInv => BouncesAreCaught
    <2> SUFFICES ASSUME BounceInv PROVE BouncesAreCaught
      OBVIOUS
    <2>1. ASSUME NEW r
          PROVE  LET S == HandOffs(r)
                     agents == {Ev(i).source : i \in S} \cup {Ev(i).to : i \in S}
                 IN  /\ <<r>> \in fired["pingpong"] => InARow(S, S, Returned(S), Reversals)
                     /\ /\ Cardinality(agents) = 2
                        /\ \A i \in S : Ev(i).source # Ev(i).to
                        /\ InARow(S, S, Returned(S), Reversals + 1)
                        => <<r>> \in fired["pingpong"]
      <3>1. BounceFired(r)
        BY DEF BounceInv
      <3>2. AgentsIn(hist, HandOffs(r)) = {Ev(i).source : i \in HandOffs(r)} \cup {Ev(i).to : i \in HandOffs(r)}
        BY DEF AgentsIn, Ev
      <3> QED  BY <3>1, <3>2 DEF BounceFired, Bouncy
    <2> QED  BY <2>1 DEF BouncesAreCaught
  <1> QED  BY <1>1, <1>2, BouncesKept, TypesHold, PTL DEF Spec

-----------------------------------------------------------------------------
(* The corruption detector.  What it needs to know is said of any history h *)
(* and of the set P of the payloads of one tool in it.                      *)

Res(h, i) == Events[h[i].ev].result
EmptyIn(h, P) == {i \in P : Res(h, i) = <<{}>>}
LostIn(h, P) == EmptyIn(h, P) \cup
    {i \in P : \E d \in P \ EmptyIn(h, P) : d < i /\ Res(h, d)[1] \cap Res(h, i)[1] = {}}
GoodIn(h, P) == {i \in P : Upto(P, i) \cap LostIn(h, P) = {}}
RecentIn(h, S, j) == {i \in Upto(S, j) : h[j].at - h[i].at <= LongWindow}

\* One more payload, the last.
Grows(h, g, P, l) ==
    /\ l \in Nat /\ P \subseteq Nat /\ IsFiniteSet(P) /\ g[l].at \in Nat
    /\ \A i \in P : i < l /\ g[i] = h[i] /\ h[i].at \in Nat /\ h[i].at <= g[l].at

LEMMA EmptyGrows ==
    ASSUME NEW h, NEW g, NEW P, NEW l, Grows(h, g, P, l)
    PROVE  /\ \A i \in P : i \in EmptyIn(g, P \cup {l}) <=> i \in EmptyIn(h, P)
           /\ l \in EmptyIn(g, P \cup {l}) <=> Res(g, l) = <<{}>>
  BY DEF Grows, EmptyIn, Res

LEMMA LostGrows ==
    ASSUME NEW h, NEW g, NEW P, NEW l, Grows(h, g, P, l)
    PROVE  /\ \A i \in P : i \in LostIn(g, P \cup {l}) <=> i \in LostIn(h, P)
           /\ l \in LostIn(g, P \cup {l}) <=>
                \/ Res(g, l) = <<{}>>
                \/ \E d \in P \ EmptyIn(h, P) : Res(h, d)[1] \cap Res(g, l)[1] = {}
  <1> DEFINE T == P \cup {l}
  <1>1. /\ l \notin P /\ l \in Nat /\ \A i \in P : i \in Nat /\ i < l /\ ~ l < i /\ Res(g, i) = Res(h, i)
        /\ ~ l < l
    BY DEF Grows, Res
  <1>2. /\ \A i \in P : i \in EmptyIn(g, T) <=> i \in EmptyIn(h, P)
        /\ l \in EmptyIn(g, T) <=> Res(g, l) = <<{}>>
    BY EmptyGrows
  <1>3. \A d : d \in T \ EmptyIn(g, T) <=> d \in P \ EmptyIn(h, P) \/ (d = l /\ l \notin EmptyIn(g, T))
    BY <1>1, <1>2
  <1> HIDE DEF T
  <1>4. \A i : i \in LostIn(g, T) <=> \/ i \in EmptyIn(g, T)
                                     \/ /\ i \in T
                                        /\ \E d \in T \ EmptyIn(g, T) : d < i /\ Res(g, d)[1] \cap Res(g, i)[1] = {}
    BY DEF LostIn
  <1>5. \A i : i \in LostIn(h, P) <=> \/ i \in EmptyIn(h, P)
                                     \/ /\ i \in P
                                        /\ \E d \in P \ EmptyIn(h, P) : d < i /\ Res(h, d)[1] \cap Res(h, i)[1] = {}
    BY DEF LostIn
  <1>6. ASSUME NEW i \in P PROVE i \in LostIn(g, T) <=> i \in LostIn(h, P)
    <2>1. i \in T
      BY DEF T
    <2>2. (\E d \in T \ EmptyIn(g, T) : d < i /\ Res(g, d)[1] \cap Res(g, i)[1] = {}) <=>
          (\E d \in P \ EmptyIn(h, P) : d < i /\ Res(h, d)[1] \cap Res(h, i)[1] = {})
      BY <1>1, <1>3
    <2> QED  BY <1>2, <1>4, <1>5, <2>1, <2>2
  <1>7. l \in LostIn(g, T) <=> \/ Res(g, l) = <<{}>>
                               \/ \E d \in P \ EmptyIn(h, P) : Res(h, d)[1] \cap Res(g, l)[1] = {}
    <2>1. l \in T
      BY DEF T
    <2>2. (\E d \in T \ EmptyIn(g, T) : d < l /\ Res(g, d)[1] \cap Res(g, l)[1] = {}) <=>
          (\E d \in P \ EmptyIn(h, P) : Res(h, d)[1] \cap Res(g, l)[1] = {})
      BY <1>1, <1>3
    <2> QED  BY <1>2, <1>4, <2>1, <2>2
  <1> QED  BY <1>6, <1>7 DEF T

LEMMA GoodGrows ==
    ASSUME NEW h, NEW g, NEW P, NEW l, Grows(h, g, P, l)
    PROVE  /\ \A i \in P : i \in GoodIn(g, P \cup {l}) <=> i \in GoodIn(h, P)
           /\ l \in GoodIn(g, P \cup {l}) => LostIn(h, P) = {} /\ l \notin LostIn(g, P \cup {l})
  <1> DEFINE T == P \cup {l}
  <1>1. /\ l \in Nat /\ l <= l /\ \A i \in P : i \in Nat /\ i < l /\ i <= l /\ ~ l <= i
    BY DEF Grows
  <1>2. \A i \in P : i \in LostIn(g, T) <=> i \in LostIn(h, P)
    BY LostGrows
  <1>3. LostIn(h, P) \subseteq P
    BY DEF LostIn, EmptyIn
  <1>4. \A i \in P : Upto(T, i) = Upto(P, i) /\ Upto(P, i) \subseteq P
    BY <1>1 DEF Upto
  <1>5. Upto(T, l) = T
    BY <1>1 DEF Upto
  <1>6. ASSUME NEW i \in P PROVE i \in GoodIn(g, T) <=> i \in GoodIn(h, P)
    <2>1. i \in GoodIn(g, T) <=> Upto(T, i) \cap LostIn(g, T) = {}
      BY DEF GoodIn
    <2>2. i \in GoodIn(h, P) <=> Upto(P, i) \cap LostIn(h, P) = {}
      BY DEF GoodIn
    <2> HIDE DEF T
    <2>3. Upto(P, i) \cap LostIn(g, T) = Upto(P, i) \cap LostIn(h, P)
      BY <1>2, <1>4
    <2> QED  BY <1>4, <2>1, <2>2, <2>3
  <1>7. l \in GoodIn(g, T) => T \cap LostIn(g, T) = {}
    BY <1>5 DEF GoodIn
  <1> QED  BY <1>2, <1>3, <1>6, <1>7

\* Enough data, then enough losses within the window.
Proven(h, P) == \E j \in LostIn(h, P) :
    /\ Cardinality(Upto(P \ EmptyIn(h, P), j)) >= MinHealthy
    /\ Cardinality(RecentIn(h, LostIn(h, P), j)) >= JunkThreshold
\* Data only, enough of it, and then nothing often enough within the window.
Evident(h, P) == \E j \in EmptyIn(h, P) :
    /\ Cardinality(GoodIn(h, P)) >= MinHealthy
    /\ Cardinality(RecentIn(h, EmptyIn(h, P), j)) >= JunkThreshold

LEMMA RecentStays ==
    ASSUME NEW h, NEW g, NEW P, NEW l, Grows(h, g, P, l), NEW A, NEW B, A \subseteq P, B \subseteq P \cup {l},
           \A i \in P : i \in B <=> i \in A, NEW j \in P
    PROVE  Upto(B, j) = Upto(A, j) /\ RecentIn(g, B, j) = RecentIn(h, A, j)
  <1>1. ~ l <= j /\ g[j] = h[j] /\ \A i \in P : g[i] = h[i]
    <2>1. l \in Nat /\ j \in Nat /\ j < l
      BY DEF Grows
    <2>2. \A i \in P : g[i] = h[i]
      BY DEF Grows
    <2> QED  BY <2>1, <2>2
  <1>2. \A i : i \in B /\ i <= j <=> i \in A /\ i <= j
    BY <1>1
  <1>3. Upto(B, j) = Upto(A, j)
    BY <1>2 DEF Upto
  <1>4. Upto(A, j) \subseteq P
    BY DEF Upto
  <1>5. RecentIn(g, B, j) = RecentIn(h, A, j)
    BY <1>1, <1>3, <1>4 DEF RecentIn
  <1> QED  BY <1>3, <1>5

LEMMA ProvenStays ==
    ASSUME NEW h, NEW g, NEW P, NEW l, Grows(h, g, P, l), Proven(h, P)
    PROVE  Proven(g, P \cup {l})
  <1> DEFINE T == P \cup {l}
  <1>1. PICK j \in LostIn(h, P) : /\ Cardinality(Upto(P \ EmptyIn(h, P), j)) >= MinHealthy
                                  /\ Cardinality(RecentIn(h, LostIn(h, P), j)) >= JunkThreshold
    BY DEF Proven
  <1>2. LostIn(h, P) \subseteq P /\ LostIn(g, T) \subseteq T
    BY DEF LostIn, EmptyIn
  <1>3. \A i \in P : i \in LostIn(g, T) <=> i \in LostIn(h, P)
    BY LostGrows
  <1>4. \A i \in P : i \in EmptyIn(g, T) <=> i \in EmptyIn(h, P)
    BY EmptyGrows
  <1>5. RecentIn(g, LostIn(g, T), j) = RecentIn(h, LostIn(h, P), j)
    BY <1>1, <1>2, <1>3, RecentStays
  <1>6. Upto(T \ EmptyIn(g, T), j) = Upto(P \ EmptyIn(h, P), j)
    <2>1. \A i \in P : i \in T \ EmptyIn(g, T) <=> i \in P \ EmptyIn(h, P)
      BY <1>4
    <2>2. P \ EmptyIn(h, P) \subseteq P /\ T \ EmptyIn(g, T) \subseteq T /\ j \in P
      BY <1>1, <1>2
    <2> QED  BY <2>1, <2>2, RecentStays
  <1>7. j \in LostIn(g, T)
    BY <1>1, <1>2, <1>3
  <1> HIDE DEF T
  <1>8. Proven(g, T)
    BY <1>1, <1>5, <1>6, <1>7 DEF Proven
  <1> QED  BY <1>8 DEF T

LEMMA EvidentComes ==
    ASSUME NEW h, NEW g, NEW P, NEW l, Grows(h, g, P, l), Evident(g, P \cup {l})
    PROVE  \/ Evident(h, P)
           \/ /\ l \in EmptyIn(g, P \cup {l}) /\ Cardinality(GoodIn(h, P)) >= MinHealthy
              /\ Cardinality(RecentIn(g, EmptyIn(g, P \cup {l}), l)) >= JunkThreshold
  <1> DEFINE T == P \cup {l}
  <1>1. PICK j \in EmptyIn(g, T) : /\ Cardinality(GoodIn(g, T)) >= MinHealthy
                                   /\ Cardinality(RecentIn(g, EmptyIn(g, T), j)) >= JunkThreshold
    BY DEF Evident
  <1>2. EmptyIn(h, P) \subseteq P /\ EmptyIn(g, T) \subseteq T /\ GoodIn(g, T) \subseteq T /\ GoodIn(h, P) \subseteq P
    BY DEF EmptyIn, GoodIn
  <1>3. EmptyIn(h, P) \subseteq LostIn(h, P) /\ EmptyIn(g, T) \subseteq LostIn(g, T)
    BY DEF LostIn
  <1>4. \A i \in P : i \in EmptyIn(g, T) <=> i \in EmptyIn(h, P)
    BY EmptyGrows
  <1>5. /\ \A i \in P : i \in GoodIn(g, T) <=> i \in GoodIn(h, P)
        /\ l \in GoodIn(g, T) => LostIn(h, P) = {} /\ l \notin LostIn(g, T)
    BY GoodGrows
  <1> HIDE DEF T
  <1>6. j = l \/ j \in P
    BY <1>1, <1>2 DEF T
  <1>7. l \notin GoodIn(g, T)
    BY <1>1, <1>3, <1>4, <1>5, <1>6
  <1>8. GoodIn(g, T) = GoodIn(h, P)
    BY <1>2, <1>5, <1>7 DEF T
  <1>9. CASE j = l
    BY <1>1, <1>8, <1>9 DEF T
  <1>10. CASE j \in P
    <2>1. RecentIn(g, EmptyIn(g, T), j) = RecentIn(h, EmptyIn(h, P), j)
      BY <1>2, <1>4, <1>10, RecentStays DEF T
    <2>2. j \in EmptyIn(h, P)
      BY <1>1, <1>4, <1>10
    <2> QED  BY <1>1, <1>8, <2>1, <2>2 DEF Evident
  <1> QED  BY <1>6, <1>9, <1>10

\* What the detector keeps of a tool: of the payloads H that it took to be
\* healthy their keys and their number, of the others J the stamps that are
\* still within the window of the last one.
BothOf(A, B) == A \cup B
KeysOf(h, H) == UNION {Res(h, i)[1] : i \in H}
Fresh(h, J) == {x \in J : \A j \in J : h[j].at - h[x].at <= LongWindow}
Stamps(h, J) == {<<i, h[i].at>> : i \in Fresh(h, J)}
Memory(h, H, J) == [keys |-> KeysOf(h, H), healthy |-> Cardinality(H), junk |-> Stamps(h, J)]
\* No empty payload is healthy, every payload before the first loss is, and
\* what is not healthy is lost.
Right(h, P, H) ==
    /\ H \subseteq P /\ H \cap EmptyIn(h, P) = {}
    /\ GoodIn(h, P) \subseteq H /\ P \ H \subseteq LostIn(h, P)

LEMMA HealthyGrows ==
    ASSUME NEW h, NEW g, NEW P, NEW l, Grows(h, g, P, l), NEW H, Right(h, P, H), l \notin EmptyIn(g, P \cup {l})
    PROVE  LET T == P \cup {l} IN
           /\ Right(g, T, H \cup {l})
           /\ KeysOf(g, H \cup {l}) = BothOf(KeysOf(h, H), Res(g, l)[1])
           /\ Cardinality(H \cup {l}) = Cardinality(H) + 1
           /\ Stamps(g, T \ (H \cup {l})) = Stamps(h, P \ H)
  <1> DEFINE T == P \cup {l}
             J == P \ H
  <1>1. H \subseteq P /\ H \cap EmptyIn(h, P) = {} /\ GoodIn(h, P) \subseteq H /\ P \ H \subseteq LostIn(h, P)
    BY DEF Right
  <1>2. /\ l \notin P /\ IsFiniteSet(P) /\ \A i \in P : g[i] = h[i] /\ Res(g, i) = Res(h, i)
    BY DEF Grows, Res
  <1>3. /\ \A i \in P : i \in EmptyIn(g, T) <=> i \in EmptyIn(h, P)
        /\ l \notin EmptyIn(g, T)
    BY EmptyGrows
  <1>4. \A i \in P : i \in LostIn(g, T) <=> i \in LostIn(h, P)
    BY LostGrows
  <1>5. \A i \in P : i \in GoodIn(g, T) <=> i \in GoodIn(h, P)
    BY GoodGrows
  <1>6. GoodIn(g, T) \subseteq T
    BY DEF GoodIn
  <1>7. Right(g, T, H \cup {l})
    BY <1>1, <1>2, <1>3, <1>4, <1>5, <1>6 DEF Right
  <1>8. KeysOf(g, H \cup {l}) = BothOf(KeysOf(h, H), Res(g, l)[1])
    <2>1. KeysOf(g, H \cup {l}) = KeysOf(h, H) \cup Res(g, l)[1]
      BY <1>1, <1>2 DEF KeysOf
    <2> QED  BY <2>1 DEF BothOf
  <1>9. Cardinality(H \cup {l}) = Cardinality(H) + 1
    <2>1. IsFiniteSet(H) /\ l \notin H
      BY <1>1, <1>2, FS_Subset
    <2> QED  BY <2>1, FS_AddElement
  <1>10. T \ (H \cup {l}) = J
    BY <1>1, <1>2
  <1>11. Stamps(g, J) = Stamps(h, J)
    <2>1. \A i \in J : g[i] = h[i]
      BY <1>2
    <2> HIDE DEF J
    <2> QED  BY <2>1 DEF Stamps, Fresh
  <1> QED  BY <1>7, <1>8, <1>9, <1>10, <1>11

LEMMA LossGrows ==
    ASSUME NEW h, NEW g, NEW P, NEW l, Grows(h, g, P, l), NEW H, Right(h, P, H), l \in LostIn(g, P \cup {l})
    PROVE  LET T == P \cup {l} IN
           /\ Right(g, T, H)
           /\ KeysOf(g, H) = KeysOf(h, H)
           /\ Stamps(g, T \ H) = Within(Stamps(h, P \ H), <<l, g[l].at>>, LongWindow)
           /\ Cardinality(Stamps(g, T \ H)) = Cardinality(RecentIn(g, T \ H, l))
  <1> DEFINE T == P \cup {l}
             J == P \ H
             K == T \ H
             I == {i \in K : g[l].at - g[i].at <= LongWindow}
  <1>1. H \subseteq P /\ H \cap EmptyIn(h, P) = {} /\ GoodIn(h, P) \subseteq H /\ P \ H \subseteq LostIn(h, P)
    BY DEF Right
  <1>2. /\ l \notin P /\ IsFiniteSet(P) /\ \A i \in P : g[i] = h[i] /\ Res(g, i) = Res(h, i)
    BY DEF Grows, Res
  <1>3. /\ \A i \in P : i \in EmptyIn(g, T) <=> i \in EmptyIn(h, P)
    BY EmptyGrows
  <1>4. \A i \in P : i \in LostIn(g, T) <=> i \in LostIn(h, P)
    BY LostGrows
  <1>5. /\ \A i \in P : i \in GoodIn(g, T) <=> i \in GoodIn(h, P)
        /\ l \notin GoodIn(g, T)
    BY GoodGrows
  <1>6. GoodIn(g, T) \subseteq T
    BY DEF GoodIn
  <1>7. Right(g, T, H)
    BY <1>1, <1>2, <1>3, <1>4, <1>5, <1>6 DEF Right
  <1>8. KeysOf(g, H) = KeysOf(h, H)
    BY <1>1, <1>2 DEF KeysOf
  <1>9. K = J \cup {l} /\ l \notin J
    BY <1>1, <1>2
  <1>10. /\ LongWindow \in Nat /\ g[l].at \in Nat /\ l \in Nat /\ IsFiniteSet(K)
         /\ \A i \in J : i \in Nat /\ i < l /\ i <= l /\ g[i] = h[i] /\ h[i].at \in Nat /\ h[i].at <= g[l].at
    <2>1. IsFiniteSet(T)
      BY <1>2, FS_AddElement
    <2>2. IsFiniteSet(K)
      BY <2>1, FS_Subset
    <2>3. LongWindow \in Nat
      BY TraceAssumption
    <2>4. /\ g[l].at \in Nat /\ l \in Nat
          /\ \A i \in P : i \in Nat /\ i < l /\ g[i] = h[i] /\ h[i].at \in Nat /\ h[i].at <= g[l].at
      BY DEF Grows
    <2>5. J \subseteq P
      OBVIOUS
    <2> HIDE DEF J, K
    <2> QED  BY <2>2, <2>3, <2>4, <2>5
  <1> HIDE DEF J, K
  <1>11. Fresh(g, K) = I
    <2>1. \A i \in K : g[i].at \in Nat /\ g[i].at <= g[l].at
      BY <1>9, <1>10
    <2>2. l \in K
      BY <1>9
    <2>3. ASSUME NEW i \in K PROVE (\A j \in K : g[j].at - g[i].at <= LongWindow) <=> g[l].at - g[i].at <= LongWindow
      BY <1>10, <2>1, <2>2
    <2> QED  BY <2>3 DEF Fresh
  <1>12. Within(Stamps(h, J), <<l, g[l].at>>, LongWindow) = {<<i, g[i].at>> : i \in I}
    <2>1. \A c : c \in Within(Stamps(h, J), <<l, g[l].at>>, LongWindow) <=>
                (c \in Stamps(h, J) \/ c = <<l, g[l].at>>) /\ c[2] >= g[l].at - LongWindow
      BY DEF Within
    <2>2. \A c : c \in Stamps(h, J) <=> \E i \in Fresh(h, J) : c = <<i, h[i].at>>
      BY DEF Stamps
    <2>3. \A i : i \in J /\ i \notin Fresh(h, J) => g[l].at - h[i].at > LongWindow
      BY <1>10 DEF Fresh
    <2>4. ASSUME NEW i \in J PROVE i \in I <=> i \in Fresh(h, J) /\ h[i].at >= g[l].at - LongWindow
      <3>1. i \in K /\ g[i] = h[i] /\ h[i].at \in Nat
        BY <1>9, <1>10
      <3> QED  BY <1>10, <2>3, <3>1
    <2>5. l \in I /\ g[l].at >= g[l].at - LongWindow
      BY <1>9, <1>10
    <2>6. Fresh(h, J) \subseteq J /\ I \subseteq J \cup {l}
      BY <1>9 DEF Fresh
    <2> HIDE DEF I
    <2>7. ASSUME NEW c PROVE c \in Within(Stamps(h, J), <<l, g[l].at>>, LongWindow) <=> \E i \in I : c = <<i, g[i].at>>
      <3>1. ASSUME c \in Within(Stamps(h, J), <<l, g[l].at>>, LongWindow) PROVE \E i \in I : c = <<i, g[i].at>>
        <4>1. CASE c = <<l, g[l].at>>
          BY <2>5, <4>1
        <4>2. CASE c \in Stamps(h, J)
          <5>1. PICK i \in Fresh(h, J) : c = <<i, h[i].at>>
            BY <2>2, <4>2
          <5>2. c[2] = h[i].at /\ c[2] >= g[l].at - LongWindow
            BY <2>1, <3>1, <5>1
          <5>3. i \in I /\ g[i] = h[i]
            BY <1>10, <2>4, <2>6, <5>2
          <5> QED  BY <5>1, <5>3
        <4> QED  BY <2>1, <3>1, <4>1, <4>2
      <3>2. ASSUME NEW i \in I, c = <<i, g[i].at>> PROVE c \in Within(Stamps(h, J), <<l, g[l].at>>, LongWindow)
        <4>1. CASE i = l
          <5>1. c = <<l, g[l].at>> /\ c[2] = g[l].at
            BY <3>2, <4>1
          <5> QED  BY <2>1, <2>5, <5>1
        <4>2. CASE i \in J
          <5>1. g[i] = h[i] /\ i \in Fresh(h, J) /\ h[i].at >= g[l].at - LongWindow
            BY <1>10, <2>4, <4>2
          <5>2. c = <<i, h[i].at>> /\ c[2] = h[i].at
            BY <3>2, <5>1
          <5>3. c \in Stamps(h, J)
            BY <2>2, <5>1, <5>2
          <5> QED  BY <2>1, <5>1, <5>2, <5>3
        <4> QED  BY <2>6, <4>1, <4>2
      <3> QED  BY <3>1, <3>2
    <2> QED  BY <2>7
  <1>13. Stamps(g, K) = {<<i, g[i].at>> : i \in I}
    BY <1>11 DEF Stamps
  <1>14. RecentIn(g, K, l) = I
    <2>1. Upto(K, l) = K
      BY <1>9, <1>10 DEF Upto
    <2> QED  BY <2>1 DEF RecentIn
  <1>15. Cardinality({<<i, g[i].at>> : i \in I}) = Cardinality(I)
    <2> DEFINE f == [i \in I |-> g[i].at]
    <2>1. IsFiniteSet(I)
      BY <1>10, FS_Subset
    <2>2. {<<i, g[i].at>> : i \in I} = {<<i, f[i]>> : i \in I}
      OBVIOUS
    <2> HIDE DEF f, I
    <2> QED  BY <2>1, <2>2, PairsCount
  <1> HIDE DEF I
  <1> QED  BY <1>7, <1>8, <1>12, <1>13, <1>14, <1>15 DEF J, K

\* What the detector takes for a loss is one.
LEMMA LossIsLost ==
    ASSUME NEW h, NEW g, NEW P, NEW l, Grows(h, g, P, l), NEW H, Right(h, P, H), NEW found, Res(g, l) = <<found>>,
           found = {} \/ (KeysOf(h, H) # {} /\ found \cap KeysOf(h, H) = {})
    PROVE  l \in LostIn(g, P \cup {l})
  <1>1. Res(g, l)[1] = found
    OBVIOUS
  <1>2. CASE found = {}
    BY <1>2, LostGrows
  <1>3. CASE KeysOf(h, H) # {} /\ found \cap KeysOf(h, H) = {}
    <2>1. PICK x : x \in KeysOf(h, H)
      BY <1>3
    <2>2. PICK d \in H : x \in Res(h, d)[1]
      BY <2>1 DEF KeysOf
    <2>3. Res(h, d)[1] \subseteq KeysOf(h, H)
      BY DEF KeysOf
    <2>4. d \in P \ EmptyIn(h, P) /\ Res(h, d)[1] \cap Res(g, l)[1] = {}
      BY <1>1, <1>3, <2>3 DEF Right
    <2> QED  BY <2>4, LostGrows
  <1> QED  BY <1>2, <1>3

LEMMA LossProves ==
    ASSUME NEW h, NEW g, NEW P, NEW l, Grows(h, g, P, l), NEW H, Right(h, P, H), l \in LostIn(g, P \cup {l}),
           Cardinality(H) >= MinHealthy, Cardinality(RecentIn(g, (P \cup {l}) \ H, l)) >= JunkThreshold
    PROVE  Proven(g, P \cup {l})
  <1> DEFINE T == P \cup {l}
  <1>1. Right(g, T, H) /\ LostIn(g, T) \subseteq T
    BY LossGrows DEF LostIn, EmptyIn
  <1>2. IsFiniteSet(T) /\ \A i \in P : i <= l
    BY FS_AddElement DEF Grows
  <1>3. H \subseteq Upto(T \ EmptyIn(g, T), l)
    BY <1>1, <1>2 DEF Right, Upto
  <1>4. RecentIn(g, T \ H, l) \subseteq RecentIn(g, LostIn(g, T), l)
    BY <1>1 DEF Right, RecentIn, Upto
  <1>5. Upto(T \ EmptyIn(g, T), l) \subseteq T /\ RecentIn(g, LostIn(g, T), l) \subseteq T
    BY <1>1 DEF Upto, RecentIn
  <1> HIDE DEF T
  <1>6. /\ IsFiniteSet(Upto(T \ EmptyIn(g, T), l)) /\ IsFiniteSet(RecentIn(g, LostIn(g, T), l))
    BY <1>2, <1>5, FS_Subset
  <1>7. /\ IsFiniteSet(H) /\ Cardinality(H) <= Cardinality(Upto(T \ EmptyIn(g, T), l))
        /\ IsFiniteSet(RecentIn(g, T \ H, l))
        /\ Cardinality(RecentIn(g, T \ H, l)) <= Cardinality(RecentIn(g, LostIn(g, T), l))
    BY <1>3, <1>4, <1>6, FS_Subset
  <1>8. /\ Cardinality(H) \in Nat /\ Cardinality(Upto(T \ EmptyIn(g, T), l)) \in Nat
        /\ Cardinality(RecentIn(g, T \ H, l)) \in Nat /\ Cardinality(RecentIn(g, LostIn(g, T), l)) \in Nat
        /\ MinHealthy \in Nat /\ JunkThreshold \in Nat
    BY <1>6, <1>7, FS_CardinalityType, TraceAssumption
  <1>9. /\ Cardinality(Upto(T \ EmptyIn(g, T), l)) >= MinHealthy
        /\ Cardinality(RecentIn(g, LostIn(g, T), l)) >= JunkThreshold
    <2>1. Cardinality(RecentIn(g, T \ H, l)) >= JunkThreshold
      BY DEF T
    <2> QED  BY <1>7, <1>8, <2>1
  <1>10. Proven(g, T)
    <2>1. l \in LostIn(g, T)
      BY DEF T
    <2> QED  BY <1>9, <2>1 DEF Proven
  <1> QED  BY <1>10 DEF T

LEMMA LossShows ==
    ASSUME NEW h, NEW g, NEW P, NEW l, Grows(h, g, P, l), NEW H, Right(h, P, H),
           Evident(g, P \cup {l}), ~ Evident(h, P)
    PROVE  /\ Res(g, l) = <<{}>> /\ Cardinality(H) >= MinHealthy
           /\ Cardinality(RecentIn(g, (P \cup {l}) \ H, l)) >= JunkThreshold
  <1> DEFINE T == P \cup {l}
  <1>1. /\ l \in EmptyIn(g, T) /\ Cardinality(GoodIn(h, P)) >= MinHealthy
        /\ Cardinality(RecentIn(g, EmptyIn(g, T), l)) >= JunkThreshold
    BY EvidentComes
  <1>2. Res(g, l) = <<{}>>
    BY <1>1 DEF EmptyIn
  <1>3. /\ \A i \in P : i \in EmptyIn(g, T) <=> i \in EmptyIn(h, P)
        /\ EmptyIn(g, T) \subseteq T
    BY EmptyGrows DEF EmptyIn
  <1>4. l \notin P /\ IsFiniteSet(T) /\ IsFiniteSet(P)
    BY FS_AddElement DEF Grows
  <1>5. EmptyIn(g, T) \subseteq T \ H
    BY <1>3, <1>4 DEF Right
  <1>6. RecentIn(g, EmptyIn(g, T), l) \subseteq RecentIn(g, T \ H, l) /\ RecentIn(g, T \ H, l) \subseteq T
    BY <1>5 DEF RecentIn, Upto
  <1>7. GoodIn(h, P) \subseteq H /\ H \subseteq P
    BY DEF Right
  <1> HIDE DEF T
  <1>8. /\ IsFiniteSet(H) /\ IsFiniteSet(RecentIn(g, T \ H, l))
    BY <1>4, <1>6, <1>7, FS_Subset
  <1>9. /\ IsFiniteSet(GoodIn(h, P)) /\ Cardinality(GoodIn(h, P)) <= Cardinality(H)
        /\ IsFiniteSet(RecentIn(g, EmptyIn(g, T), l))
        /\ Cardinality(RecentIn(g, EmptyIn(g, T), l)) <= Cardinality(RecentIn(g, T \ H, l))
    BY <1>6, <1>7, <1>8, FS_Subset
  <1>10. /\ Cardinality(H) \in Nat /\ Cardinality(GoodIn(h, P)) \in Nat
         /\ Cardinality(RecentIn(g, T \ H, l)) \in Nat /\ Cardinality(RecentIn(g, EmptyIn(g, T), l)) \in Nat
         /\ MinHealthy \in Nat /\ JunkThreshold \in Nat
    BY <1>8, <1>9, FS_CardinalityType, TraceAssumption
  <1>11. Cardinality(H) >= MinHealthy /\ Cardinality(RecentIn(g, T \ H, l)) >= JunkThreshold
    BY <1>1, <1>9, <1>10
  <1> QED  BY <1>2, <1>11 DEF T

LEMMA PoisonSame ==
    ASSUME NEW h, NEW g, NEW P, \A i \in P : g[i] = h[i]
    PROVE  /\ Proven(g, P) <=> Proven(h, P)
           /\ Evident(g, P) <=> Evident(h, P)
           /\ \A H : Right(h, P, H) => Right(g, P, H) /\ Memory(g, H, P \ H) = Memory(h, H, P \ H)
  <1>1. \A i \in P : Res(g, i) = Res(h, i)
    BY DEF Res
  <1>2. EmptyIn(g, P) = EmptyIn(h, P) /\ EmptyIn(h, P) \subseteq P
    BY <1>1 DEF EmptyIn
  <1>3. LostIn(g, P) = LostIn(h, P) /\ LostIn(h, P) \subseteq P
    BY <1>1, <1>2 DEF LostIn
  <1>4. GoodIn(g, P) = GoodIn(h, P)
    BY <1>3 DEF GoodIn
  <1>5. ASSUME NEW S, S \subseteq P, NEW j \in S PROVE RecentIn(g, S, j) = RecentIn(h, S, j)
    BY <1>5 DEF RecentIn, Upto
  <1>6. Proven(g, P) <=> Proven(h, P)
    BY <1>2, <1>3, <1>5 DEF Proven
  <1>7. Evident(g, P) <=> Evident(h, P)
    BY <1>2, <1>4, <1>5 DEF Evident
  <1>8. ASSUME NEW H, Right(h, P, H) PROVE Right(g, P, H) /\ Memory(g, H, P \ H) = Memory(h, H, P \ H)
    <2>1. Right(g, P, H)
      BY <1>2, <1>3, <1>4, <1>8 DEF Right
    <2>2. \A i \in H : Res(g, i) = Res(h, i)
      BY <1>1, <1>8 DEF Right
    <2>3. KeysOf(g, H) = KeysOf(h, H)
      BY <2>2 DEF KeysOf
    <2>4. Fresh(g, P \ H) = Fresh(h, P \ H) /\ Fresh(h, P \ H) \subseteq P
      BY DEF Fresh
    <2>5. Stamps(g, P \ H) = Stamps(h, P \ H)
      BY <2>4 DEF Stamps
    <2> QED  BY <2>1, <2>3, <2>5 DEF Memory
  <1> QED  BY <1>6, <1>7, <1>8

NoMemory == [keys |-> {}, healthy |-> 0, junk |-> {}]
LEMMA NothingLost ==
    ASSUME NEW h
    PROVE  /\ Right(h, {}, {}) /\ Memory(h, {}, {} \ {}) = NoMemory
           /\ ~ Evident(h, {})
  <1>1. Right(h, {}, {}) /\ ~ Evident(h, {})
    BY DEF Right, EmptyIn, LostIn, GoodIn, Evident
  <1>2. KeysOf(h, {}) = {} /\ Stamps(h, {} \ {}) = {} /\ Cardinality({}) = 0
    BY FS_EmptySet DEF KeysOf, Stamps, Fresh
  <1> QED  BY <1>1, <1>2 DEF Memory, NoMemory

CorruptMemory(k) == Get(seen["corruption"], k, NoMemory)
CorruptOf(k) ==
    /\ \E H : Right(hist, Payloads(k), H) /\ CorruptMemory(k) = Memory(hist, H, Payloads(k) \ H)
    /\ k \in fired["corruption"] => Proven(hist, Payloads(k))
    /\ Evident(hist, Payloads(k)) => k \in fired["corruption"]
\* The cascade detector keeps the empty stages of a run.
CascadeOf(r) ==
    /\ Get(seen["cascade"], r, {}) = EmptyStages(r) /\ IsFiniteSet(EmptyStages(r))
    /\ <<r>> \in fired["cascade"] <=> Cardinality(EmptyStages(r)) >= BadStages
PoisonInv == \A k : CorruptOf(k) /\ CascadeOf(k)

\* What the detector makes of one payload.
LEMMA CorruptStep ==
    ASSUME NEW s, NEW e, NEW stamp, NEW k, NEW found, NEW K, NEW C, NEW J, NEW all,
           all = BothOf(K, found),
           e.kind \in {"tool.start", "tool.end"}, e.tool # NoTool, e.result = <<found>>, <<e.source, e.tool>> = k,
           Get(s, k, NoMemory) = [keys |-> K, healthy |-> C, junk |-> J]
    PROVE  Corruption(s, e, stamp) =
             IF found = {} \/ (K # {} /\ found \cap K = {})
             THEN Judge(s, k, [keys |-> K, healthy |-> C, junk |-> Within(J, stamp, LongWindow)],
                        C >= MinHealthy /\ Cardinality(Within(J, stamp, LongWindow)) >= JunkThreshold,
                        k, {e.source})
             ELSE Learn(s, k, [keys |-> all, healthy |-> C + 1, junk |-> J])
  <1> DEFINE st == Get(s, k, NoMemory)
  <1>1. e.result # <<>> /\ e.result[1] = found
    OBVIOUS
  <1>2. Corruption(s, e, stamp) =
             IF found = {} \/ (st.keys # {} /\ found \cap st.keys = {})
             THEN Judge(s, k, [st EXCEPT !.junk = Within(st.junk, stamp, LongWindow)],
                        /\ st.healthy >= MinHealthy
                        /\ Cardinality(Within(st.junk, stamp, LongWindow)) >= JunkThreshold, k, {e.source})
             ELSE Learn(s, k, [st EXCEPT !.healthy = @ + 1, !.keys = @ \cup found])
    BY <1>1 DEF Corruption, NoMemory
  <1> HIDE DEF st
  <1>3. \A m, new : m = [keys |-> K, healthy |-> C, junk |-> J] =>
            /\ m.keys = K /\ m.healthy = C /\ m.junk = J
            /\ [m EXCEPT !.junk = new] = [keys |-> K, healthy |-> C, junk |-> new]
    OBVIOUS
  <1>9. \A m, c2 : m = [keys |-> K, healthy |-> C, junk |-> J] =>
            [m EXCEPT !.healthy = c2] = [keys |-> K, healthy |-> c2, junk |-> J]
    OBVIOUS
  <1>10. \A m, c2, k2 : m = [keys |-> K, healthy |-> c2, junk |-> J] =>
            [m EXCEPT !.keys = k2] = [keys |-> k2, healthy |-> c2, junk |-> J]
    OBVIOUS
  <1>4. st = [keys |-> K, healthy |-> C, junk |-> J]
    BY DEF st
  <1>5. /\ st.keys = K /\ st.healthy = C /\ st.junk = J
        /\ [st EXCEPT !.junk = Within(J, stamp, LongWindow)]
              = [keys |-> K, healthy |-> C, junk |-> Within(J, stamp, LongWindow)]
        /\ [st EXCEPT !.healthy = C + 1, !.keys = all] = [keys |-> all, healthy |-> C + 1, junk |-> J]
    <2>1. ASSUME NEW c2 PROVE [st EXCEPT !.healthy = c2, !.keys = all] = [keys |-> all, healthy |-> c2, junk |-> J]
      <3> DEFINE m == [st EXCEPT !.healthy = c2]
      <3>1. m = [keys |-> K, healthy |-> c2, junk |-> J]
        BY <1>4, <1>9
      <3> HIDE DEF m
      <3>2. [m EXCEPT !.keys = all] = [keys |-> all, healthy |-> c2, junk |-> J]
        BY <1>10, <3>1
      <3> QED  BY <3>2 DEF m
    <2>2. st.keys = K /\ st.healthy = C /\ st.junk = J
      BY <1>3, <1>4
    <2>3. [st EXCEPT !.junk = Within(J, stamp, LongWindow)]
               = [keys |-> K, healthy |-> C, junk |-> Within(J, stamp, LongWindow)]
      BY <1>3, <1>4
    <2>4. [st EXCEPT !.healthy = C + 1, !.keys = all] = [keys |-> all, healthy |-> C + 1, junk |-> J]
      BY <2>1
    <2> QED  BY <2>2, <2>3, <2>4
  <1>6. st.keys \cup found = all
    BY <1>5 DEF BothOf
  <1>7. CASE found = {} \/ (st.keys # {} /\ found \cap st.keys = {})
    BY <1>2, <1>5, <1>7
  <1>8. CASE ~ (found = {} \/ (st.keys # {} /\ found \cap st.keys = {}))
    <2>1. Corruption(s, e, stamp) = Learn(s, k, [st EXCEPT !.healthy = st.healthy + 1, !.keys = st.keys \cup found])
      BY <1>2, <1>8
    <2>2. Corruption(s, e, stamp) = Learn(s, k, [st EXCEPT !.healthy = C + 1, !.keys = all])
      BY <1>5, <1>6, <2>1
    <2>3. ~ (found = {} \/ (K # {} /\ found \cap K = {}))
      BY <1>5, <1>8
    <2> QED  BY <1>5, <2>2, <2>3
  <1> QED  BY <1>7, <1>8

LEMMA CorruptSeen ==
    ASSUME Typed, PoisonInv, NEW n \in Scenarios[scenario].events, Receive(n), NEW k
    PROVE  CorruptOf(k)'
  <1> DEFINE e == Events[n]
             L == Len(hist) + 1
             P == Payloads(k)
             T == P \cup {L}
             old == seen["corruption"]
             mine == /\ e.kind \in {"tool.start", "tool.end"} /\ e.tool # NoTool /\ e.result # <<>>
                     /\ <<e.source, e.tool>> = k
  <1>1. /\ L \in Nat /\ Trace' = Trace \cup {L} /\ Events[hist'[L].ev] = e /\ hist'[L].at = now /\ now \in Nat
        /\ \A i \in Trace : /\ i \in Nat /\ i < L /\ hist'[i] = hist[i] /\ hist[i].at \in Nat /\ hist[i].at <= now
    BY TraceStep
  <1>2. P \subseteq Trace /\ IsFiniteSet(P) /\ P \subseteq Nat
    BY TraceIsPast, FS_Subset DEF Payloads
  <1>3. Payloads(k)' = IF mine THEN T ELSE P
    BY <1>1 DEF Payloads, Ev
  <1>4. /\ seen'["corruption"] = Corruption(old, e, <<L, now>>).state
        /\ fired'["corruption"] = fired["corruption"] \cup Corruption(old, e, <<L, now>>).fires
    BY NamedMoves, AnswersAre DEF Named
  <1>5. PICK H : Right(hist, P, H) /\ CorruptMemory(k) = Memory(hist, H, P \ H)
    BY DEF PoisonInv, CorruptOf
  <1>6. (k \in fired["corruption"] => Proven(hist, P)) /\ (Evident(hist, P) => k \in fired["corruption"])
    BY DEF PoisonInv, CorruptOf
  <1>7. Grows(hist, hist', P, L)
    <2> HIDE DEF P, L
    <2> QED  BY <1>1, <1>2 DEF Grows
  <1>8. CASE ~ mine
    <2>1. Get(seen'["corruption"], k, NoMemory) = Get(old, k, NoMemory) /\ (k \in fired'["corruption"] <=> k \in fired["corruption"])
      <3>1. CASE e.kind \notin {"tool.start", "tool.end"} \/ e.tool = NoTool \/ e.result = <<>>
        <4>1. Corruption(old, e, <<L, now>>) = Ignore(old)
          BY <3>1 DEF Corruption
        <4> QED  BY <1>4, <4>1 DEF Ignore
      <3>2. CASE ~ (e.kind \notin {"tool.start", "tool.end"} \/ e.tool = NoTool \/ e.result = <<>>)
        <4> DEFINE other == <<e.source, e.tool>>
        <4>1. other # k
          BY <1>8, <3>2
        <4>2. \E v, bad, whom : \/ Corruption(old, e, <<L, now>>) = Judge(old, other, v, bad, other, whom)
                                \/ Corruption(old, e, <<L, now>>) = Learn(old, other, v)
          BY <3>2 DEF Corruption
        <4>3. PICK v, bad, whom : \/ Corruption(old, e, <<L, now>>) = Judge(old, other, v, bad, other, whom)
                                  \/ Corruption(old, e, <<L, now>>) = Learn(old, other, v)
          BY <4>2
        <4> HIDE DEF other
        <4>4. seen'["corruption"] = Put(old, other, v) /\ fired'["corruption"] \ {other} = fired["corruption"] \ {other}
          BY <1>4, <4>3 DEF Judge, Learn
        <4> QED  BY <4>1, <4>4 DEF Put, Get
      <3> QED  BY <3>1, <3>2
    <2>2. Payloads(k)' = P
      BY <1>3, <1>8
    <2>3. \A i \in P : hist'[i] = hist[i]
      BY <1>1, <1>2
    <2>4. CorruptMemory(k)' = CorruptMemory(k)
      BY <2>1 DEF CorruptMemory, NoMemory
    <2> HIDE DEF P
    <2>5. /\ Proven(hist', P) <=> Proven(hist, P)
          /\ Evident(hist', P) <=> Evident(hist, P)
          /\ Right(hist', P, H) /\ Memory(hist', H, P \ H) = Memory(hist, H, P \ H)
      BY <1>5, <2>3, PoisonSame
    <2> QED  BY <1>5, <1>6, <2>1, <2>2, <2>4, <2>5 DEF CorruptOf
  <1>9. CASE mine
    <2> DEFINE found == e.result[1]
               lossy == found = {} \/ (KeysOf(hist, H) # {} /\ found \cap KeysOf(hist, H) = {})
               junk == Within(Stamps(hist, P \ H), <<L, now>>, LongWindow)
               bad == Cardinality(H) >= MinHealthy /\ Cardinality(junk) >= JunkThreshold
    <2>1. e.result = <<found>> /\ Res(hist', L) = <<found>>
      <3>1. e.result = <<e.result[1]>>
        BY <1>9, TraceAssumption, EventTypes
      <3>2. Res(hist', L) = e.result
        BY <1>1 DEF Res
      <3> QED  BY <3>1, <3>2
    <2>3. Get(old, k, NoMemory) = [keys |-> KeysOf(hist, H), healthy |-> Cardinality(H), junk |-> Stamps(hist, P \ H)]
      BY <1>5 DEF CorruptMemory, Memory
    <2> HIDE DEF found, junk, P, T, L, e
    <2>8. PICK all : all = BothOf(KeysOf(hist, H), found)
      OBVIOUS
    <2>4. Corruption(old, e, <<L, now>>) =
             IF lossy
             THEN Judge(old, k, [keys |-> KeysOf(hist, H), healthy |-> Cardinality(H), junk |-> junk], bad, k, {e.source})
             ELSE Learn(old, k, [keys |-> all, healthy |-> Cardinality(H) + 1, junk |-> Stamps(hist, P \ H)])
      <3>1. /\ e.kind \in {"tool.start", "tool.end"} /\ e.tool # NoTool /\ <<e.source, e.tool>> = k
            /\ e.result = <<found>>
        BY <1>9, <2>1
      <3> DEFINE K == KeysOf(hist, H)
                 C == Cardinality(H)
                 J == Stamps(hist, P \ H)
      <3>2. /\ Get(old, k, NoMemory) = [keys |-> K, healthy |-> C, junk |-> J] /\ all = BothOf(K, found)
        BY <2>3, <2>8
      <3>3. junk = Within(J, <<L, now>>, LongWindow) /\ (lossy <=> found = {} \/ (K # {} /\ found \cap K = {}))
        BY DEF junk
      <3>4. Corruption(old, e, <<L, now>>) =
             IF found = {} \/ (K # {} /\ found \cap K = {})
             THEN Judge(old, k, [keys |-> K, healthy |-> C, junk |-> Within(J, <<L, now>>, LongWindow)],
                        C >= MinHealthy /\ Cardinality(Within(J, <<L, now>>, LongWindow)) >= JunkThreshold,
                        k, {e.source})
             ELSE Learn(old, k, [keys |-> all, healthy |-> C + 1, junk |-> J])
        <4>1. PICK x : x = <<L, now>>
          OBVIOUS
        <4> HIDE DEF K, C, J, lossy, bad, old
        <4>2. Corruption(old, e, x) =
             IF found = {} \/ (K # {} /\ found \cap K = {})
             THEN Judge(old, k, [keys |-> K, healthy |-> C, junk |-> Within(J, x, LongWindow)],
                        C >= MinHealthy /\ Cardinality(Within(J, x, LongWindow)) >= JunkThreshold,
                        k, {e.source})
             ELSE Learn(old, k, [keys |-> all, healthy |-> C + 1, junk |-> J])
          BY <3>1, <3>2, CorruptStep
        <4> QED  BY <4>1, <4>2
      <3> QED  BY <3>3, <3>4
    <2>5. Payloads(k)' = T
      BY <1>3, <1>9
    <2>6. CASE lossy
      <3>1. Corruption(old, e, <<L, now>>) = Judge(old, k, [keys |-> KeysOf(hist, H), healthy |-> Cardinality(H), junk |-> junk],
                                                     bad, k, {e.source})
        BY <2>4, <2>6
      <3>2. /\ Get(seen'["corruption"], k, NoMemory) = [keys |-> KeysOf(hist, H), healthy |-> Cardinality(H), junk |-> junk]
            /\ k \in fired'["corruption"] <=> k \in fired["corruption"] \/ bad
        BY <1>4, <3>1 DEF Judge, Put, Get
      <3>3. L \in LostIn(hist', T)
        BY <1>5, <1>7, <2>1, <2>6, LossIsLost DEF T
      <3>4. /\ Right(hist', T, H) /\ KeysOf(hist', H) = KeysOf(hist, H)
            /\ Stamps(hist', T \ H) = junk
            /\ Cardinality(Stamps(hist', T \ H)) = Cardinality(RecentIn(hist', T \ H, L))
        <4>1. Grows(hist, hist', P, L) /\ Right(hist, P, H) /\ L \in LostIn(hist', P \cup {L})
          BY <1>5, <1>7, <3>3 DEF T
        <4>2. /\ Right(hist', P \cup {L}, H) /\ KeysOf(hist', H) = KeysOf(hist, H)
              /\ Stamps(hist', (P \cup {L}) \ H) = Within(Stamps(hist, P \ H), <<L, hist'[L].at>>, LongWindow)
              /\ Cardinality(Stamps(hist', (P \cup {L}) \ H)) = Cardinality(RecentIn(hist', (P \cup {L}) \ H, L))
          BY <4>1, LossGrows
        <4> QED  BY <1>1, <4>2 DEF T, junk
      <3>5. CorruptMemory(k)' = Memory(hist', H, T \ H)
        BY <3>2, <3>4 DEF CorruptMemory, Memory, NoMemory
      <3>6. bad <=> Cardinality(H) >= MinHealthy /\ Cardinality(RecentIn(hist', T \ H, L)) >= JunkThreshold
        BY <3>4
      <3> HIDE DEF bad
      <3>7. bad => Proven(hist', T)
        BY <1>5, <1>7, <3>3, <3>6, LossProves DEF T
      <3>8. k \in fired["corruption"] => Proven(hist', T)
        BY <1>6, <1>7, ProvenStays DEF T
      <3>9. Evident(hist', T) => Evident(hist, P) \/ bad
        BY <1>5, <1>7, <3>6, LossShows DEF T
      <3> QED  BY <1>6, <2>5, <3>2, <3>4, <3>5, <3>7, <3>8, <3>9 DEF CorruptOf
    <2>7. CASE ~ lossy
      <3>1. Corruption(old, e, <<L, now>>) = Learn(old, k,
                [keys |-> all, healthy |-> Cardinality(H) + 1, junk |-> Stamps(hist, P \ H)])
        BY <2>4, <2>7
      <3>2. /\ Get(seen'["corruption"], k, NoMemory)
                  = [keys |-> all, healthy |-> Cardinality(H) + 1, junk |-> Stamps(hist, P \ H)]
            /\ k \in fired'["corruption"] <=> k \in fired["corruption"]
        <4> DEFINE v == [keys |-> all, healthy |-> Cardinality(H) + 1, junk |-> Stamps(hist, P \ H)]
        <4> HIDE DEF v
        <4>1. Corruption(old, e, <<L, now>>) = Learn(old, k, v)
          BY <3>1 DEF v
        <4>2. Get(seen'["corruption"], k, NoMemory) = v /\ (k \in fired'["corruption"] <=> k \in fired["corruption"])
          BY <1>4, <4>1 DEF Learn, Put, Get
        <4> QED  BY <4>2 DEF v
      <3>3. Res(hist', L) # <<{}>> /\ Res(hist', L)[1] = found
        BY <2>1, <2>7
      <3>4. /\ Right(hist', T, H \cup {L})
            /\ KeysOf(hist', H \cup {L}) = all
            /\ Cardinality(H \cup {L}) = Cardinality(H) + 1
            /\ Stamps(hist', T \ (H \cup {L})) = Stamps(hist, P \ H)
        <4>1. /\ Right(hist', P \cup {L}, H \cup {L})
              /\ KeysOf(hist', H \cup {L}) = BothOf(KeysOf(hist, H), Res(hist', L)[1])
              /\ Cardinality(H \cup {L}) = Cardinality(H) + 1
              /\ Stamps(hist', (P \cup {L}) \ (H \cup {L})) = Stamps(hist, P \ H)
          <5>1. L \notin EmptyIn(hist', P \cup {L})
            BY <3>3 DEF EmptyIn
          <5> QED  BY <1>5, <1>7, <5>1, HealthyGrows
        <4> QED  BY <2>8, <3>3, <4>1 DEF T
      <3>5. CorruptMemory(k)' = Memory(hist', H \cup {L}, T \ (H \cup {L}))
        BY <3>2, <3>4 DEF CorruptMemory, Memory, NoMemory
      <3>6. k \in fired["corruption"] => Proven(hist', T)
        BY <1>6, <1>7, ProvenStays DEF T
      <3>7. Evident(hist', T) => Evident(hist, P)
        BY <1>5, <1>7, <3>3, LossShows DEF T
      <3> QED  BY <1>6, <2>5, <3>2, <3>4, <3>5, <3>6, <3>7 DEF CorruptOf
    <2> QED  BY <2>6, <2>7
  <1> QED  BY <1>8, <1>9

LEMMA CascadeSeen ==
    ASSUME Typed, PoisonInv, NEW n \in Scenarios[scenario].events, Receive(n), NEW r
    PROVE  CascadeOf(r)'
  <1> DEFINE e == Events[n]
             L == Len(hist) + 1
             E == EmptyStages(r)
             old == seen["cascade"]
             mine == e.kind \in {"tool.end", "chain.end", "tool.start"} /\ e.run = r /\ e.result = <<{}>>
  <1>1. /\ Trace' = Trace \cup {L} /\ Events[hist'[L].ev] = e /\ \A i \in Trace : hist'[i] = hist[i]
    BY TraceStep
  <1>2. EmptyStages(r)' = IF mine THEN E \cup {e.source} ELSE E
    <2> DEFINE Bad(h, t) == {j \in t : /\ Events[h[j].ev].kind \in {"tool.end", "chain.end", "tool.start"}
                                       /\ Events[h[j].ev].run = r /\ Events[h[j].ev].result = <<{}>>}
    <2>1. E = {Events[hist[i].ev].source : i \in Bad(hist, Trace)}
      BY DEF EmptyStages, Ev
    <2>2. EmptyStages(r)' = {Events[hist'[i].ev].source : i \in Bad(hist', Trace')}
      BY DEF EmptyStages, Ev
    <2>3. Bad(hist', Trace') = IF mine THEN Bad(hist, Trace) \cup {L} ELSE Bad(hist, Trace)
      BY <1>1
    <2>4. \A i \in Bad(hist, Trace) : Events[hist'[i].ev].source = Events[hist[i].ev].source
      BY <1>1
    <2> HIDE DEF Bad, E, mine
    <2> QED  BY <1>1, <2>1, <2>2, <2>3, <2>4
  <1>3. /\ seen'["cascade"] = Cascade(old, e).state
        /\ fired'["cascade"] = fired["cascade"] \cup Cascade(old, e).fires
    BY NamedMoves, AnswersAre DEF Named
  <1>4. /\ Get(old, r, {}) = E /\ IsFiniteSet(E)
        /\ <<r>> \in fired["cascade"] <=> Cardinality(E) >= BadStages
    BY DEF PoisonInv, CascadeOf
  <1> HIDE DEF E
  <1>5. CASE ~ mine
    <2>1. /\ Get(seen'["cascade"], r, {}) = Get(old, r, {})
          /\ <<r>> \in fired'["cascade"] <=> <<r>> \in fired["cascade"]
      BY <1>3, <1>5 DEF Cascade, Ignore, Judge, Put, Get
    <2> QED  BY <1>2, <1>4, <1>5, <2>1 DEF CascadeOf
  <1>6. CASE mine
    <2> DEFINE bad == E \cup {e.source}
    <2>1. Cascade(old, e) = Judge(old, r, bad, Cardinality(bad) >= BadStages, <<r>>, {e.source})
      BY <1>4, <1>6 DEF Cascade
    <2>2. IsFiniteSet(bad) /\ Cardinality(bad) \in Nat /\ Cardinality(E) \in Nat /\ Cardinality(bad) >= Cardinality(E)
      <3>1. IsFiniteSet(bad) /\ Cardinality(bad) = IF e.source \in E THEN Cardinality(E) ELSE Cardinality(E) + 1
        BY <1>4, FS_AddElement
      <3>2. Cardinality(bad) \in Nat /\ Cardinality(E) \in Nat
        BY <1>4, <3>1, FS_CardinalityType
      <3> HIDE DEF bad
      <3> QED  BY <3>1, <3>2
    <2> HIDE DEF bad
    <2>3. /\ Get(seen'["cascade"], r, {}) = bad
          /\ <<r>> \in fired'["cascade"] <=> <<r>> \in fired["cascade"] \/ Cardinality(bad) >= BadStages
      BY <1>3, <2>1 DEF Judge, Put, Get
    <2>4. EmptyStages(r)' = bad /\ BadStages \in Nat
      BY <1>2, <1>6, TraceAssumption DEF bad
    <2>5. <<r>> \in fired'["cascade"] <=> Cardinality(bad) >= BadStages
      BY <1>4, <2>2, <2>3, <2>4
    <2> QED  BY <2>2, <2>3, <2>4, <2>5 DEF CascadeOf
  <1> QED  BY <1>5, <1>6

LEMMA PoisonKept == Typed /\ PoisonInv /\ [Next]_vars => PoisonInv'
  <1> SUFFICES ASSUME Typed, PoisonInv, [Next]_vars, NEW k PROVE CorruptOf(k)' /\ CascadeOf(k)'
    BY DEF PoisonInv
  <1>1. CASE \E n \in Scenarios[scenario].events : Receive(n)
    BY <1>1, CorruptSeen, CascadeSeen
  <1>2. CASE \A n \in Scenarios[scenario].events : ~ Receive(n)
    <2>1. CorruptOf(k) /\ CascadeOf(k)
      BY DEF PoisonInv
    <2>2. CorruptOf(k)'
      <3>1. CASE hist' = hist /\ Trace' = Trace /\ seen' = seen /\ fired'["corruption"] = fired["corruption"]
        <4>1. Payloads(k)' = Payloads(k)
          BY <3>1 DEF Payloads, Ev
        <4>2. CorruptMemory(k)' = CorruptMemory(k)
          BY <3>1 DEF CorruptMemory, NoMemory
        <4> QED  BY <2>1, <3>1, <4>1, <4>2 DEF CorruptOf
      <3>2. CASE Trace' = {} /\ DOMAIN seen'["corruption"] = {} /\ fired'["corruption"] = {}
        <4>1. Payloads(k)' = {} /\ CorruptMemory(k)' = NoMemory
          BY <3>2 DEF Payloads, CorruptMemory, Get, NoMemory
        <4> QED  BY <3>2, <4>1, NothingLost DEF CorruptOf
      <3>3. "corruption" \in Named \ {"anomaly"}
        BY DEF Named
      <3> QED  BY <1>2, <3>1, <3>2, <3>3, OthersStay
    <2>3. CascadeOf(k)'
      <3>1. CASE hist' = hist /\ Trace' = Trace /\ seen' = seen /\ fired'["cascade"] = fired["cascade"]
        <4>1. EmptyStages(k)' = EmptyStages(k)
          BY <3>1 DEF EmptyStages, Ev
        <4> QED  BY <2>1, <3>1, <4>1 DEF CascadeOf
      <3>2. CASE Trace' = {} /\ DOMAIN seen'["cascade"] = {} /\ fired'["cascade"] = {}
        <4>1. EmptyStages(k)' = {} /\ BadStages \in Nat \ {0}
          BY <3>2, TraceAssumption DEF EmptyStages
        <4> QED  BY <3>2, <4>1, FS_EmptySet DEF CascadeOf, Get
      <3>3. "cascade" \in Named \ {"anomaly"}
        BY DEF Named
      <3> QED  BY <1>2, <3>1, <3>2, <3>3, OthersStay
    <2> QED  BY <2>2, <2>3
  <1> QED  BY <1>1, <1>2

\* corruption.observe and cascade.observe: a tool that is reported had
\* returned data and lost it often enough within the window, a tool that
\* returned data only and then nothing often enough is reported, and so is a
\* run exactly when enough of its stages came up empty.
THEOREM PoisonCaught == Spec => []PoisonIsCaught
  <1>1. Init => PoisonInv
    <2> SUFFICES ASSUME Init, NEW k PROVE CorruptOf(k) /\ CascadeOf(k)
      BY DEF PoisonInv
    <2>1. /\ fired["corruption"] = {} /\ fired["cascade"] = {} /\ Trace = {} /\ BadStages \in Nat \ {0}
          /\ DOMAIN seen["corruption"] = {} /\ DOMAIN seen["cascade"] = {}
      BY TraceAssumption DEF Init, Detectors, Asked, Named, Trace, Since
    <2>2. Payloads(k) = {} /\ CorruptMemory(k) = NoMemory /\ EmptyStages(k) = {} /\ Get(seen["cascade"], k, {}) = {}
      BY <2>1 DEF Payloads, CorruptMemory, EmptyStages, Get
    <2>3. CorruptOf(k)
      BY <2>1, <2>2, NothingLost DEF CorruptOf
    <2> QED  BY <2>1, <2>2, <2>3, FS_EmptySet DEF CascadeOf
  <1>2. PoisonInv => PoisonIsCaught
    <2> SUFFICES ASSUME PoisonInv PROVE PoisonIsCaught
      OBVIOUS
    <2>1. ASSUME NEW k
          PROVE  LET S == Payloads(k)
                     Empty == {i \in S : Ev(i).result = <<{}>>}
                     Lost == Empty \cup {i \in S : \E d \in S \ Empty :
                                             d < i /\ Ev(d).result[1] \cap Ev(i).result[1] = {}}
                     Good == {i \in S : Upto(S, i) \cap Lost = {}}
                 IN  /\ k \in fired["corruption"] =>
                         \E j \in Lost : /\ Cardinality(Upto(S \ Empty, j)) >= MinHealthy
                                         /\ Cardinality(Recent(Lost, j, LongWindow)) >= JunkThreshold
                     /\ (\E j \in Empty : /\ Cardinality(Good) >= MinHealthy
                                           /\ Cardinality(Recent(Empty, j, LongWindow)) >= JunkThreshold)
                         => k \in fired["corruption"]
      <3> DEFINE S == Payloads(k)
                 Empty == {i \in S : Ev(i).result = <<{}>>}
                 Lost == Empty \cup {i \in S : \E d \in S \ Empty :
                                         d < i /\ Ev(d).result[1] \cap Ev(i).result[1] = {}}
                 Good == {i \in S : Upto(S, i) \cap Lost = {}}
      <3>1. CorruptOf(k)
        BY DEF PoisonInv
      <3>2. Empty = EmptyIn(hist, S)
        BY DEF EmptyIn, Res, Ev
      <3>3. Lost = LostIn(hist, S)
        BY <3>2 DEF LostIn, Res, Ev
      <3>4. Good = GoodIn(hist, S)
        BY <3>3 DEF GoodIn
      <3>5. \A A, j : Recent(A, j, LongWindow) = RecentIn(hist, A, j)
        BY DEF Recent, RecentIn
      <3> HIDE DEF Empty, Lost, Good
      <3>6. /\ k \in fired["corruption"] =>
                 \E j \in Lost : /\ Cardinality(Upto(S \ Empty, j)) >= MinHealthy
                                 /\ Cardinality(Recent(Lost, j, LongWindow)) >= JunkThreshold
            /\ (\E j \in Empty : /\ Cardinality(Good) >= MinHealthy
                                  /\ Cardinality(Recent(Empty, j, LongWindow)) >= JunkThreshold)
                 => k \in fired["corruption"]
        BY <3>1, <3>2, <3>3, <3>4, <3>5 DEF CorruptOf, Proven, Evident
      <3> QED  BY <3>6 DEF Empty, Lost, Good
    <2>2. ASSUME NEW r
          PROVE  (<<r>> \in fired["cascade"]) <=> (Cardinality(EmptyStages(r)) >= BadStages)
      BY DEF PoisonInv, CascadeOf
    <2> QED  BY <2>1, <2>2 DEF PoisonIsCaught
  <1> QED  BY <1>1, <1>2, PoisonKept, TypesHold, PTL DEF Spec

\* The detectors that learn what is healthy report what they should, for
\* every trace and every value of their thresholds.
THEOREM EpisodesCaught == Spec => []EpisodesAreCaught
  BY BouncesCaught, PoisonCaught, MisuseCaught, PTL DEF EpisodesAreCaught

=============================================================================
