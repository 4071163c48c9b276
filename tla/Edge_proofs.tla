----------------------------- MODULE Edge_proofs -----------------------------
(***************************************************************************)
(* Proofs about the components at the edge of the backend, for any number  *)
(* of threads, sources, lines, sockets and events.                         *)
(***************************************************************************)
EXTENDS MCEdge, FiniteSetTheorems, TLAPS

-----------------------------------------------------------------------------
(* 1. Heartbeats. *)

Beating == {"check", "post", "wait"}

\* Only the last thread beats, and the ones that are not yet made are new.
ThreadsInv ==
    /\ \A h \in Hearts : beat[h] \in Beating => h = heart
    /\ \A h \in Hearts : h > heart => beat[h] = "new"
    /\ \A h \in Hearts : h <= heart => beat[h] # "new"

\* What start() and shutdown() know at each of their steps.
AppInv ==
    /\ initialized => app = "ready"
    /\ app \in {"starting", "cleared"} => heart < MaxHearts
    /\ app = "cleared" => ~IsAlive /\ ~stop
    /\ initialized /\ ~late => IsAlive /\ ~stop

\* Since the last ping that arrived at most one interval more than the failed
\* ones went by, each of which was an interval and a timeout long.
AgeInv == missed < Many => age + rest <= missed * (Interval + Timeout) + Interval

HeartInv == HeartTypeOK /\ ThreadsInv /\ AppInv /\ AgeInv

LEMMA HeartStarts == HeartInit => HeartInv
<1> SUFFICES ASSUME HeartInit PROVE HeartInv
  OBVIOUS
<1>1. HeartTypeOK
  <2>1. stop \in BOOLEAN /\ initialized \in BOOLEAN /\ late \in BOOLEAN
    BY Zenon DEF HeartInit
  <2>2. missed \in 0..Many /\ rest \in 0..Interval /\ age \in 0..Ttl /\ heart \in 0..MaxHearts
    BY HeartAssumption DEF HeartInit, Many
  <2>3. beat \in [Hearts -> {"new", "check", "post", "wait", "dead"}]
    BY DEF HeartInit
  <2>4. app \in {"ready", "starting", "cleared"}
    BY DEF HeartInit
  <2> QED BY <2>1, <2>2, <2>3, <2>4 DEF HeartTypeOK
<1>2. ThreadsInv /\ AppInv
  BY DEF HeartInit, ThreadsInv, AppInv, Hearts, Beating, IsAlive
<1>3. AgeInv
  BY DEF HeartInit, AgeInv, Many
<1> QED BY <1>1, <1>2, <1>3 DEF HeartInv

\* A step that leaves the clock and the count of missed pings alone.
LEMMA AgeStays == ASSUME AgeInv, UNCHANGED <<age, rest, missed>> PROVE AgeInv'
BY DEF AgeInv, Many

LEMMA HeartKept == HeartInv /\ [HeartNext]_heartVars => HeartInv'
<1> SUFFICES ASSUME HeartInv, [HeartNext]_heartVars PROVE HeartInv'
  OBVIOUS
<1> USE HeartAssumption DEF HeartInv, HeartTypeOK, ThreadsInv, AppInv, IsAlive, Hearts, Beating
<1>1. CASE Init_
  BY <1>1, AgeStays DEF Init_
<1>2. CASE StartSeesAlive
  BY <1>2, AgeStays DEF StartSeesAlive
<1>3. CASE StartClears
  BY <1>3, AgeStays DEF StartClears
<1>4. CASE StartThread
  <2>1. AgeInv'
    BY <1>4 DEF StartThread, AgeInv, Many
  <2>2. stop' \in BOOLEAN /\ initialized' \in BOOLEAN /\ late' \in BOOLEAN
    BY <1>4, Zenon DEF StartThread
  <2>4. /\ heart' \in 1..MaxHearts /\ beat'[heart'] = "check"
        /\ beat' \in [Hearts -> {"new", "check", "post", "wait", "dead"}]
        /\ app' = "ready" /\ missed' \in 0..Many /\ age' \in 0..Ttl /\ rest' \in 0..Interval
    BY <1>4 DEF StartThread, Many
  <2>5. ~stop' /\ ~late'
    BY <1>4, Zenon DEF StartThread
  <2>6. HeartTypeOK'
    BY <2>2, <2>4
  <2>7. AppInv'
    BY <2>4, <2>5
  <2>3. ThreadsInv'
    BY <1>4 DEF StartThread
  <2> QED BY <2>1, <2>3, <2>6, <2>7
<1>5. CASE Shutdown
  BY <1>5, AgeStays DEF Shutdown
<1>6. ASSUME NEW h \in Hearts, Look(h) PROVE HeartInv'
  BY <1>6, AgeStays DEF Look
<1>7. ASSUME NEW h \in Hearts, Ping(h) PROVE HeartInv'
  BY <1>7 DEF Ping, AgeInv, Many
<1>8. ASSUME NEW h \in Hearts, PingFails(h) PROVE HeartInv'
  BY <1>8 DEF PingFails, AgeInv, Many, More, Older
<1>9. ASSUME NEW h \in Hearts, Waited(h) PROVE HeartInv'
  BY <1>9, AgeStays DEF Waited
<1>10. CASE Tick
  BY <1>10 DEF Tick, AgeInv, Many, Older
<1>11. CASE UNCHANGED heartVars
  BY <1>11, AgeStays DEF heartVars
<1> QED BY <1>1, <1>2, <1>3, <1>4, <1>5, <1>6, <1>7, <1>8, <1>9, <1>10, <1>11 DEF HeartNext

\* heartbeat.py and store.py: however an application is started and shut down,
\* one thread pings, it does while the application is initialized, and four
\* pings in a row may fail before the agent is shown as down.
THEOREM HeartHolds == HeartSpec => []AgentIsShown
<1>1. HeartInv => AgentIsShown
  BY HeartAssumption
     DEF HeartInv, HeartTypeOK, ThreadsInv, AppInv, AgeInv, AgentIsShown, OneHeart, ActiveBeats,
         FewFailuresUnseen, Beating, Many
<1> QED BY <1>1, HeartStarts, HeartKept, PTL DEF HeartSpec

-----------------------------------------------------------------------------
(* 2. The log daemon: what a line more makes of a log. *)

Logs == Seq(Kinds \X Sources)

\* The lines of a source, the tracebacks that are going on at the end of a log,
\* and the whole ones.
Lines(l, s, i, j) == {n \in i..j : l[n][2] = s}
Bodies(l, s, i, j) == \A k \in Lines(l, s, i, j) \ {i, j} : l[k][1] \in Body
Open(l, s, i) ==
    /\ i \in 1..Len(l) /\ l[i] = <<"start", s>>
    /\ \A k \in Lines(l, s, i, Len(l)) \ {i} : l[k][1] \in Body
    /\ Cardinality(Lines(l, s, i, Len(l))) <= MaxBuffer
Whole(l, s, i, j) ==
    /\ i < j
    /\ l[i] = <<"start", s>> /\ l[j] = <<"end", s>>
    /\ Bodies(l, s, i, j)
    /\ Cardinality(Lines(l, s, i, j)) <= MaxBuffer + 1
IsWholeIn(l, t) ==
    \E s \in Sources, i, j \in 1..Len(l) : Whole(l, s, i, j) /\ t = Lines(l, s, i, j)

LEMMA LinesFinite ==
    ASSUME NEW l, NEW s, NEW i \in Nat, NEW j \in Nat
    PROVE  /\ Lines(l, s, i, j) \subseteq i..j
           /\ IsFiniteSet(Lines(l, s, i, j)) /\ Cardinality(Lines(l, s, i, j)) \in Nat
<1>1. Lines(l, s, i, j) \subseteq i..j
  BY DEF Lines
<1>2. IsFiniteSet(i..j)
  BY FS_Interval
<1> QED BY <1>1, <1>2, FS_Subset, FS_CardinalityType

\* m is l with a line more, the n-th, of source s.
OneLine(l, m, kind, s, n) ==
    /\ l \in Logs /\ kind \in Kinds /\ s \in Sources
    /\ m = Append(l, <<kind, s>>) /\ n = Len(l) + 1

LEMMA OneLineMore ==
    ASSUME NEW l, NEW m, NEW kind, NEW s, NEW n, OneLine(l, m, kind, s, n)
    PROVE  /\ n \in Nat \ {0} /\ Len(l) = n - 1 /\ Len(m) = n /\ m \in Logs
           /\ \A i \in 1..(n - 1) : m[i] = l[i]
           /\ m[n] = <<kind, s>> /\ m[n][1] = kind /\ m[n][2] = s
BY DEF OneLine, Logs

\* The lines from the i-th on.
Grown(l, m, s, n, i) ==
    /\ \A r : Lines(l, r, i, n - 1) \subseteq 1..(n - 1)
    /\ \A r : \A j \in 1..(n - 1) :
          Lines(m, r, i, j) = Lines(l, r, i, j) /\ Lines(l, r, i, j) \subseteq 1..(n - 1)
    /\ \A r : r # s => Lines(m, r, i, n) = Lines(l, r, i, n - 1)
    /\ Lines(m, s, i, n) = Lines(l, s, i, n - 1) \cup {n}
    /\ n \notin Lines(l, s, i, n - 1)
    /\ Cardinality(Lines(m, s, i, n)) = Cardinality(Lines(l, s, i, n - 1)) + 1
    /\ Cardinality(Lines(l, s, i, n - 1)) \in Nat

LEMMA LinesOfMore ==
    ASSUME NEW l, NEW m, NEW kind, NEW s, NEW n, OneLine(l, m, kind, s, n), NEW i \in 1..(n - 1)
    PROVE  Grown(l, m, s, n, i)
<1>0. /\ n \in Nat \ {0}
      /\ \A k \in 1..(n - 1) : m[k] = l[k]
      /\ m[n][2] = s
  BY OneLineMore
<1>1. /\ n \in Nat \ {0} /\ i \in Nat /\ n - 1 \in Nat
      /\ \A k \in 1..(n - 1) : m[k] = l[k]
      /\ m[n][2] = s
  BY <1>0
<1>2. \A r : Lines(l, r, i, n - 1) \subseteq 1..(n - 1)
  BY <1>1 DEF Lines
<1>3. \A r : \A j \in 1..(n - 1) : Lines(m, r, i, j) = Lines(l, r, i, j) /\ Lines(l, r, i, j) \subseteq 1..(n - 1)
  BY <1>1 DEF Lines
<1>4. \A r : r # s => Lines(m, r, i, n) = Lines(l, r, i, n - 1)
  BY <1>1 DEF Lines
<1>5. Lines(m, s, i, n) = Lines(l, s, i, n - 1) \cup {n}
  BY <1>1 DEF Lines
<1>6. n \notin Lines(l, s, i, n - 1)
  BY <1>1, <1>2
<1>7. IsFiniteSet(Lines(l, s, i, n - 1)) /\ Cardinality(Lines(l, s, i, n - 1)) \in Nat
  BY <1>1, LinesFinite
<1>8. Cardinality(Lines(l, s, i, n - 1) \cup {n}) = Cardinality(Lines(l, s, i, n - 1)) + 1
  BY <1>6, <1>7, FS_AddElement
<1>9. Cardinality(Lines(m, s, i, n)) = Cardinality(Lines(l, s, i, n - 1)) + 1
  BY <1>5, <1>8, Zenon
<1> QED BY <1>2, <1>3, <1>4, <1>5, <1>6, <1>7, <1>9 DEF Grown

\* Which tracebacks are going on after a line: those of other sources, the one
\* it starts, or the one it continues.
LEMMA OpenAfter ==
    ASSUME NEW l, NEW m, NEW kind, NEW s, NEW n, OneLine(l, m, kind, s, n)
    PROVE  /\ \A i \in 1..(n - 1) : \A r : r # s => (Open(m, r, i) <=> Open(l, r, i))
           /\ \A r : r # s => ~Open(m, r, n)
           /\ Open(m, s, n) <=> kind = "start"
           /\ \A i \in 1..(n - 1) : Open(m, s, i) <=>
                 /\ Open(l, s, i) /\ kind \in Body
                 /\ Cardinality(Lines(l, s, i, n - 1)) + 1 <= MaxBuffer
<1>0. \A i \in 1..(n - 1) : Grown(l, m, s, n, i)
  BY LinesOfMore
<1>1. /\ n \in Nat \ {0} /\ Len(l) = n - 1 /\ Len(m) = n
      /\ \A i \in 1..(n - 1) : m[i] = l[i]
      /\ m[n] = <<kind, s>> /\ m[n][1] = kind /\ m[n][2] = s
  BY OneLineMore
<1>2. ASSUME NEW i \in 1..(n - 1), NEW r, r # s PROVE Open(m, r, i) <=> Open(l, r, i)
  <2>1. /\ Lines(m, r, i, n) = Lines(l, r, i, n - 1)
        /\ Lines(l, r, i, n - 1) \subseteq 1..(n - 1)
    BY <1>0, <1>2 DEF Grown
  <2>2. m[i] = l[i] /\ \A k \in Lines(l, r, i, n - 1) : m[k] = l[k]
    BY <1>1, <2>1
  <2>3. i \in 1..n
    BY <1>1
  <2> QED BY <1>1, <2>1, <2>2, <2>3 DEF Open
<1>3. ASSUME NEW r, r # s PROVE ~Open(m, r, n)
  BY <1>1, <1>3 DEF Open
<1>4. Open(m, s, n) <=> kind = "start"
  <2>1. Lines(m, s, n, n) = {n}
    BY <1>1 DEF Lines
  <2>2. Cardinality({n}) = 1 /\ {n} \ {n} = {}
    BY FS_Singleton
  <2>3. n \in 1..n /\ 1 <= MaxBuffer
    BY <1>1, LogAssumption
  <2>4. m[n] = <<"start", s>> <=> kind = "start"
    BY <1>1
  <2> QED BY <1>1, <2>1, <2>2, <2>3, <2>4 DEF Open
<1>5. ASSUME NEW i \in 1..(n - 1)
      PROVE  Open(m, s, i) <=> /\ Open(l, s, i) /\ kind \in Body
                               /\ Cardinality(Lines(l, s, i, n - 1)) + 1 <= MaxBuffer
  <2>1. /\ Lines(m, s, i, n) = Lines(l, s, i, n - 1) \cup {n}
        /\ Lines(l, s, i, n - 1) \subseteq 1..(n - 1)
        /\ Cardinality(Lines(m, s, i, n)) = Cardinality(Lines(l, s, i, n - 1)) + 1
        /\ Cardinality(Lines(l, s, i, n - 1)) \in Nat
    BY <1>0 DEF Grown
  <2>2. m[i] = l[i] /\ \A k \in Lines(l, s, i, n - 1) : m[k] = l[k]
    BY <1>1, <2>1
  <2>3. i \in 1..n /\ n # i /\ MaxBuffer \in Nat
    BY <1>1, LogAssumption
  <2>4. (\A k \in Lines(m, s, i, n) \ {i} : m[k][1] \in Body)
          <=> (kind \in Body /\ \A k \in Lines(l, s, i, n - 1) \ {i} : l[k][1] \in Body)
    BY <1>1, <2>1, <2>2, <2>3
  <2> QED BY <1>1, <2>1, <2>2, <2>3, <2>4 DEF Open
<1> QED BY <1>2, <1>3, <1>4, <1>5

\* The tracebacks that a line completes are those that it ends.
LEMMA WholeAfter ==
    ASSUME NEW l, NEW m, NEW kind, NEW s, NEW n, OneLine(l, m, kind, s, n), NEW t
    PROVE  IsWholeIn(m, t) <=>
              \/ IsWholeIn(l, t)
              \/ /\ kind = "end"
                 /\ \E i \in 1..(n - 1) : Open(l, s, i) /\ t = Lines(l, s, i, n - 1) \cup {n}
<1>0. \A i \in 1..(n - 1) : Grown(l, m, s, n, i)
  BY LinesOfMore
<1>1. /\ n \in Nat \ {0} /\ Len(l) = n - 1 /\ Len(m) = n
      /\ \A i \in 1..(n - 1) : m[i] = l[i]
      /\ m[n] = <<kind, s>> /\ m[n][1] = kind /\ s \in Sources
  BY OneLineMore DEF OneLine
<1>2. ASSUME NEW i \in 1..(n - 1), NEW j \in 1..(n - 1), NEW r
      PROVE  /\ Whole(m, r, i, j) <=> Whole(l, r, i, j)
             /\ Lines(m, r, i, j) = Lines(l, r, i, j)
  <2>1. Lines(m, r, i, j) = Lines(l, r, i, j) /\ Lines(l, r, i, j) \subseteq 1..(n - 1)
    BY <1>0 DEF Grown
  <2>2. m[i] = l[i] /\ m[j] = l[j] /\ \A k \in Lines(l, r, i, j) : m[k] = l[k]
    BY <1>1, <2>1
  <2> QED BY <2>1, <2>2 DEF Whole, Bodies
<1>3. ASSUME NEW i \in 1..(n - 1), NEW r
      PROVE  Whole(m, r, i, n) <=> kind = "end" /\ r = s /\ Open(l, s, i)
  <2>1. m[n] = <<"end", r>> <=> kind = "end" /\ r = s
    BY <1>1
  <2>2. /\ Lines(m, s, i, n) = Lines(l, s, i, n - 1) \cup {n}
        /\ Lines(l, s, i, n - 1) \subseteq 1..(n - 1)
        /\ n \notin Lines(l, s, i, n - 1)
        /\ Cardinality(Lines(m, s, i, n)) = Cardinality(Lines(l, s, i, n - 1)) + 1
        /\ Cardinality(Lines(l, s, i, n - 1)) \in Nat /\ MaxBuffer \in Nat
    BY <1>0, LogAssumption DEF Grown
  <2>3. m[i] = l[i] /\ \A k \in Lines(l, s, i, n - 1) : m[k] = l[k]
    BY <1>1, <2>2
  <2>4. Lines(m, s, i, n) \ {i, n} = Lines(l, s, i, n - 1) \ {i}
    BY <2>2
  <2>5. Bodies(m, s, i, n) <=> \A k \in Lines(l, s, i, n - 1) \ {i} : l[k][1] \in Body
    BY <2>3, <2>4 DEF Bodies
  <2>6. Cardinality(Lines(m, s, i, n)) <= MaxBuffer + 1 <=> Cardinality(Lines(l, s, i, n - 1)) <= MaxBuffer
    BY <2>2
  <2>7. i < n /\ i \in 1..Len(l)
    BY <1>1
  <2> QED BY <1>1, <2>1, <2>3, <2>5, <2>6, <2>7 DEF Whole, Open
<1>4. \A i, j \in 1..n : \A r : Whole(m, r, i, j) => i \in 1..(n - 1) /\ (j \in 1..(n - 1) \/ j = n)
  BY <1>1 DEF Whole
<1>5. ASSUME IsWholeIn(m, t)
      PROVE  \/ IsWholeIn(l, t)
             \/ /\ kind = "end"
                /\ \E i \in 1..(n - 1) : Open(l, s, i) /\ t = Lines(l, s, i, n - 1) \cup {n}
  <2>1. PICK r \in Sources, i \in 1..n, j \in 1..n : Whole(m, r, i, j) /\ t = Lines(m, r, i, j)
    BY <1>1, <1>5 DEF IsWholeIn
  <2>2. i \in 1..(n - 1)
    BY <1>4, <2>1
  <2>3. CASE j \in 1..(n - 1)
    BY <1>1, <1>2, <2>1, <2>2, <2>3 DEF IsWholeIn
  <2>4. CASE j = n
    <3>1. kind = "end" /\ r = s /\ Open(l, s, i)
      BY <1>3, <2>1, <2>2, <2>4
    <3>2. t = Lines(l, s, i, n - 1) \cup {n}
      BY <1>0, <2>1, <2>2, <2>4, <3>1 DEF Grown
    <3> QED BY <2>2, <3>1, <3>2
  <2> QED BY <1>4, <2>1, <2>3, <2>4
<1>6. ASSUME IsWholeIn(l, t) PROVE IsWholeIn(m, t)
  <2>1. PICK r \in Sources, i \in 1..(n - 1), j \in 1..(n - 1) : Whole(l, r, i, j) /\ t = Lines(l, r, i, j)
    BY <1>1, <1>6 DEF IsWholeIn
  <2>2. Whole(m, r, i, j) /\ t = Lines(m, r, i, j) /\ i \in 1..n /\ j \in 1..n
    BY <1>1, <1>2, <2>1
  <2> QED BY <1>1, <2>2 DEF IsWholeIn
<1>7. ASSUME kind = "end", NEW i \in 1..(n - 1), Open(l, s, i), t = Lines(l, s, i, n - 1) \cup {n}
      PROVE  IsWholeIn(m, t)
  <2>1. Whole(m, s, i, n) /\ i \in 1..n /\ n \in 1..n
    BY <1>1, <1>3, <1>7
  <2>2. t = Lines(m, s, i, n)
    BY <1>0, <1>7 DEF Grown
  <2> QED BY <1>1, <2>1, <2>2 DEF IsWholeIn
<1> QED BY <1>5, <1>6, <1>7

-----------------------------------------------------------------------------
(* 3. The log daemon: its steps. *)

LogTypes ==
    /\ log \in Logs /\ Len(log) <= MaxLog
    /\ buffers \in [Sources -> SUBSET (1..Len(log))]
    /\ notes \subseteq 1..Len(log) /\ noted \subseteq 1..Len(log)
    /\ mode \in {"reading", "draining", "ended", "interrupted"}

\* A buffer holds the lines of the traceback of its source that is going on.
BuffersInv ==
    \A s \in Sources :
        /\ \A i \in 1..Len(log) : Open(log, s, i) => buffers[s] = Lines(log, s, i, Len(log))
        /\ buffers[s] # {} => \E i \in 1..Len(log) : Open(log, s, i)

\* What is done, and what a task has yet to do, is what the log asks for.
TasksInv ==
    /\ \A t : t \in reported \cup posts => IsWholeIn(log, t)
    /\ mode # "interrupted" =>
          /\ \A t : IsWholeIn(log, t) => t \in reported \cup posts
          /\ \A n \in 1..Len(log) : IsError(log[n][1]) => n \in notes \cup noted
    /\ mode = "ended" => posts = {} /\ notes = {}

LogInv == LogTypes /\ BuffersInv /\ TasksInv

LEMMA WholeIs ==
    ASSUME log \in Logs
    PROVE  \A t : t \in WholeTracebacks <=> IsWholeIn(log, t)
<1>1. \A s, i, j : LinesOf(s, i, j) = Lines(log, s, i, j)
  BY DEF LinesOf, Lines
<1>2. \A s, i, j : IsWhole(s, i, j) <=> Whole(log, s, i, j)
  BY <1>1 DEF IsWhole, Whole, Bodies
<1>3. \A s : \A i, j \in 1..Len(log) : Lines(log, s, i, j) \subseteq 1..Len(log)
  BY DEF Lines, Logs
<1> QED BY <1>1, <1>2, <1>3 DEF WholeTracebacks, IsWholeIn

LEMMA LogStarts == LogInit => LogInv
<1> SUFFICES ASSUME LogInit PROVE LogInv
  OBVIOUS
<1>1. log = <<>> /\ Len(log) = 0 /\ 1..Len(log) = {}
  BY DEF LogInit
<1>2. LogTypes
  BY <1>1, LogAssumption DEF LogInit, LogTypes, Logs
<1>3. BuffersInv
  BY <1>1 DEF LogInit, BuffersInv
<1>4. TasksInv
  BY <1>1 DEF LogInit, TasksInv, IsWholeIn
<1> QED BY <1>2, <1>3, <1>4 DEF LogInv

\* What _handle_traceback() makes of a buffer, case by case.
LEMMA Handled ==
    ASSUME NEW buf, NEW kind \in Kinds, NEW n
    PROVE  LET h == HandleTraceback(buf, kind, n) IN
           /\ kind = "start" => h.buf = {n} /\ h.whole = {}
           /\ kind # "start" /\ buf = {} => h.buf = {} /\ h.whole = {}
           /\ kind = "end" /\ buf # {} => h.buf = {} /\ h.whole = {buf \cup {n}}
           /\ kind \in Body /\ buf # {} =>
                 /\ Cardinality(buf \cup {n}) > MaxBuffer => h.buf = {}
                 /\ ~ Cardinality(buf \cup {n}) > MaxBuffer => h.buf = buf \cup {n}
                 /\ h.whole = {}
           /\ kind \in {"error", "other"} => h.buf = {} /\ h.whole = {}
<1>1. CASE kind = "start"
  BY <1>1 DEF HandleTraceback, Body
<1>2. CASE kind # "start" /\ buf = {}
  BY <1>2 DEF HandleTraceback, Body
<1>3. CASE kind = "end" /\ buf # {}
  BY <1>3 DEF HandleTraceback, Body
<1>4. CASE kind \in Body /\ buf # {}
  BY <1>4 DEF HandleTraceback, Body
<1>5. CASE kind \in {"error", "other"} /\ buf # {}
  BY <1>5 DEF HandleTraceback, Body
<1> QED BY <1>1, <1>2, <1>3, <1>4, <1>5 DEF Kinds, Body

\* The same, in the cases that hand nothing in and in the one that does.
LEMMA HandledStart == ASSUME NEW buf, NEW n PROVE HandleTraceback(buf, "start", n).buf = {n}
  BY DEF HandleTraceback, Body

LEMMA HandledEnd ==
    ASSUME NEW buf, NEW n, buf # {} PROVE HandleTraceback(buf, "end", n).whole = {buf \cup {n}}
  BY DEF HandleTraceback, Body

LEMMA NotHandedIn ==
    ASSUME NEW buf, NEW kind \in Kinds, NEW n, kind # "end" \/ buf = {}
    PROVE  HandleTraceback(buf, kind, n).whole = {}
<1>1. CASE kind = "start" \/ buf = {}
  BY <1>1, Handled
<1>2. CASE kind \in Body /\ buf # {}
  BY <1>2, Handled
<1>3. CASE kind \in {"error", "other"}
  BY <1>3, Handled
<1> QED BY <1>1, <1>2, <1>3 DEF Kinds, Body

\* The buffer of the line's source holds what is going on after the line.
LEMMA BufferAfter ==
    ASSUME NEW l, NEW m, NEW kind, NEW s, NEW n, OneLine(l, m, kind, s, n), NEW buf,
           \A i \in 1..(n - 1) : Open(l, s, i) => buf = Lines(l, s, i, n - 1),
           buf # {} => \E i \in 1..(n - 1) : Open(l, s, i),
           NEW new, new = HandleTraceback(buf, kind, n).buf
    PROVE  /\ \A i \in 1..n : Open(m, s, i) => new = Lines(m, s, i, n)
           /\ new # {} => \E i \in 1..n : Open(m, s, i)
           /\ new \subseteq 1..n
<1>0. kind \in Kinds /\ \A i \in 1..(n - 1) : Grown(l, m, s, n, i)
  BY LinesOfMore DEF OneLine
<1>1. /\ n \in Nat \ {0} /\ Len(l) = n - 1 /\ Len(m) = n
      /\ m[n][2] = s
  BY OneLineMore
<1>2. /\ Open(m, s, n) <=> kind = "start"
      /\ \A i \in 1..(n - 1) : Open(m, s, i) <=>
            /\ Open(l, s, i) /\ kind \in Body
            /\ Cardinality(Lines(l, s, i, n - 1)) + 1 <= MaxBuffer
  BY OpenAfter
<1>3. \A i \in 1..n : i = n \/ i \in 1..(n - 1)
  BY <1>1
<1>4. n \in 1..n /\ 1..(n - 1) \subseteq 1..n
  BY <1>1
<1>5. CASE kind = "start"
  <2>1. new = {n} /\ kind \notin Body
    <3>1. new = {n}
      BY <1>5, HandledStart
    <3> QED BY <1>5, <3>1 DEF Body
  <2>2. Lines(m, s, n, n) = {n}
    BY <1>1 DEF Lines
  <2> QED BY <1>2, <1>3, <1>4, <1>5, <2>1, <2>2
<1>6. CASE buf = {} /\ kind # "start"
  <2>1. new = {}
    <3>1. HandleTraceback(buf, kind, n).buf = {}
      BY <1>6 DEF HandleTraceback, Body
    <3> QED BY <3>1, Zenon
  <2>2. \A i \in 1..(n - 1) : ~Open(l, s, i)
    <3>1. SUFFICES ASSUME NEW i \in 1..(n - 1), Open(l, s, i) PROVE FALSE
      OBVIOUS
    <3>2. l[i][2] = s
      BY <3>1 DEF Open
    <3>3. i \in Lines(l, s, i, n - 1)
      BY <1>1, <3>1, <3>2 DEF Lines
    <3> QED BY <1>6, <3>1, <3>3
  <2> QED BY <1>2, <1>3, <1>6, <2>1, <2>2
<1>7. CASE kind \notin Body \cup {"start"}
  <2>1. new = {}
    BY <1>0, <1>7, Handled DEF Kinds, Body
  <2> QED BY <1>2, <1>3, <1>7, <2>1
<1>8. CASE kind \in Body /\ buf # {}
  <2>1. PICK i \in 1..(n - 1) : Open(l, s, i)
    BY <1>8
  <2>2. buf = Lines(l, s, i, n - 1)
    BY <2>1
  <2>3. kind # "start"
    BY <1>8 DEF Body
  <2>4. \A j \in 1..(n - 1) : Open(l, s, j) =>
            /\ Lines(m, s, j, n) = buf \cup {n}
            /\ Cardinality(Lines(l, s, j, n - 1)) + 1 = Cardinality(buf \cup {n})
    <3>1. SUFFICES ASSUME NEW j \in 1..(n - 1), Open(l, s, j)
                   PROVE  /\ Lines(m, s, j, n) = buf \cup {n}
                          /\ Cardinality(Lines(l, s, j, n - 1)) + 1 = Cardinality(buf \cup {n})
      OBVIOUS
    <3>2. Lines(m, s, j, n) = buf \cup {n}
      BY <1>0, <3>1, Zenon DEF Grown
    <3>3. Cardinality(Lines(m, s, j, n)) = Cardinality(Lines(l, s, j, n - 1)) + 1
      BY <1>0, <3>1 DEF Grown
    <3> QED BY <3>2, <3>3, Zenon
  <2>5. CASE Cardinality(buf \cup {n}) > MaxBuffer
    <3>1. new = {}
      BY <1>0, <1>8, <2>5, Handled
    <3>2. \A j \in 1..(n - 1) : ~Open(m, s, j)
      <4>1. SUFFICES ASSUME NEW j \in 1..(n - 1), Open(m, s, j) PROVE FALSE
        OBVIOUS
      <4>2. Open(l, s, j) /\ Cardinality(Lines(l, s, j, n - 1)) + 1 <= MaxBuffer
        BY <1>2, <4>1
      <4>3. Cardinality(Lines(l, s, j, n - 1)) \in Nat /\ MaxBuffer \in Nat
        BY <1>0, <4>1, LogAssumption DEF Grown
      <4> QED BY <2>4, <2>5, <4>1, <4>2, <4>3
    <3> QED BY <1>2, <1>3, <2>3, <3>1, <3>2
  <2>6. CASE ~ Cardinality(buf \cup {n}) > MaxBuffer
    <3>1. new = buf \cup {n}
      BY <1>0, <1>8, <2>6, Handled
    <3>2. \A j \in 1..n : Open(m, s, j) => j \in 1..(n - 1) /\ Open(l, s, j)
      BY <1>2, <1>3, <2>3
    <3>3. \A j \in 1..n : Open(m, s, j) => new = Lines(m, s, j, n)
      BY <2>4, <3>1, <3>2, Zenon
    <3>4. Open(m, s, i)
      <4>1. Cardinality(Lines(l, s, i, n - 1)) \in Nat /\ MaxBuffer \in Nat
        BY <1>0, <2>1, LogAssumption DEF Grown
      <4>2. Cardinality(Lines(l, s, i, n - 1)) + 1 <= MaxBuffer
        BY <2>1, <2>4, <2>6, <4>1
      <4> QED BY <1>2, <1>8, <2>1, <4>2
    <3>5. buf \subseteq 1..n
      BY <1>0, <1>4, <2>1, <2>2 DEF Grown
    <3> QED BY <1>4, <2>1, <3>1, <3>3, <3>4, <3>5
  <2> QED BY <2>5, <2>6
<1> QED BY <1>0, <1>5, <1>6, <1>7, <1>8

\* The traceback that is handed in is the one the line completes.
LEMMA WholeHandedIn ==
    ASSUME NEW l, NEW m, NEW kind, NEW s, NEW n, OneLine(l, m, kind, s, n), NEW buf,
           \A i \in 1..(n - 1) : Open(l, s, i) => buf = Lines(l, s, i, n - 1),
           buf # {} => \E i \in 1..(n - 1) : Open(l, s, i),
           NEW t
    PROVE  IsWholeIn(m, t) <=> IsWholeIn(l, t) \/ t \in HandleTraceback(buf, kind, n).whole
<1>0. kind \in Kinds /\ n \in Nat \ {0} /\ Len(l) = n - 1
  BY OneLineMore DEF OneLine
<1>1. IsWholeIn(m, t) <=>
         \/ IsWholeIn(l, t)
         \/ kind = "end" /\ \E i \in 1..(n - 1) : Open(l, s, i) /\ t = Lines(l, s, i, n - 1) \cup {n}
  BY WholeAfter
<1>2. CASE kind # "end"
  <2>1. HandleTraceback(buf, kind, n).whole = {}
    BY <1>0, <1>2, NotHandedIn
  <2> QED BY <1>1, <1>2, <2>1
<1>3. CASE kind = "end" /\ buf = {}
  <2>1. HandleTraceback(buf, kind, n).whole = {}
    BY <1>0, <1>3, NotHandedIn
  <2>2. \A i \in 1..(n - 1) : ~Open(l, s, i)
    <3>1. SUFFICES ASSUME NEW i \in 1..(n - 1), Open(l, s, i) PROVE FALSE
      OBVIOUS
    <3>2. l[i][2] = s
      BY <3>1 DEF Open
    <3>3. i \in Lines(l, s, i, n - 1)
      BY <1>0, <3>1, <3>2 DEF Lines
    <3> QED BY <1>3, <3>1, <3>3
  <2> QED BY <1>1, <2>1, <2>2
<1>4. CASE kind = "end" /\ buf # {}
  <2>1. HandleTraceback(buf, kind, n).whole = {buf \cup {n}}
    BY <1>4, HandledEnd
  <2>2. (\E i \in 1..(n - 1) : Open(l, s, i) /\ t = Lines(l, s, i, n - 1) \cup {n}) <=> t = buf \cup {n}
    BY <1>4, Zenon
  <2>3. t \in {buf \cup {n}} <=> t = buf \cup {n}
    BY Zenon
  <2> QED BY <1>1, <1>4, <2>1, <2>2, <2>3, Zenon
<1> QED BY <1>2, <1>3, <1>4

LEMMA ProcessKeeps ==
    ASSUME LogInv, NEW kind \in Kinds, NEW s \in Sources, ProcessLine(kind, s)
    PROVE  LogInv'
<1> DEFINE H == HandleTraceback(buffers[s], kind, Len(log) + 1)
<1>1. /\ mode = "reading" /\ Len(log) + 1 <= MaxLog
      /\ log' = Append(log, <<kind, s>>)
      /\ notes' = IF IsError(kind) THEN notes \cup {Len(log) + 1} ELSE notes
      /\ buffers' = [buffers EXCEPT ![s] = H.buf]
      /\ posts' = posts \cup H.whole
      /\ UNCHANGED <<reported, noted, mode>>
  BY Zenon DEF ProcessLine
<1>2. LogTypes /\ BuffersInv /\ TasksInv /\ log \in Logs
  BY DEF LogInv, LogTypes
<1>3. PICK n : n = Len(log) + 1
  OBVIOUS
<1>4. PICK buf : buf = buffers[s]
  OBVIOUS
<1>5. PICK new, whole : new = H.buf /\ whole = H.whole
  OBVIOUS
<1>6. /\ new = HandleTraceback(buf, kind, n).buf
      /\ whole = HandleTraceback(buf, kind, n).whole
  BY <1>3, <1>4, <1>5, Zenon
<1>7. /\ buffers' = [buffers EXCEPT ![s] = new]
      /\ posts' = posts \cup whole
      /\ notes' = IF IsError(kind) THEN notes \cup {n} ELSE notes
  BY <1>1, <1>3, <1>5, Zenon
<1> HIDE DEF H
<1>8. OneLine(log, log', kind, s, n)
  BY <1>1, <1>2, <1>3 DEF OneLine
<1>9. /\ n \in Nat \ {0} /\ Len(log) = n - 1 /\ Len(log') = n /\ log' \in Logs
      /\ \A i \in 1..(n - 1) : log'[i] = log[i]
      /\ log'[n][1] = kind
  BY <1>8, OneLineMore
<1>10. /\ \A i \in 1..(n - 1) : Open(log, s, i) => buf = Lines(log, s, i, n - 1)
       /\ buf # {} => \E i \in 1..(n - 1) : Open(log, s, i)
  BY <1>2, <1>4, <1>9, Zenon DEF BuffersInv
<1>11. /\ \A i \in 1..n : Open(log', s, i) => new = Lines(log', s, i, n)
       /\ new # {} => \E i \in 1..n : Open(log', s, i)
       /\ new \subseteq 1..n
  BY <1>6, <1>8, <1>10, BufferAfter
<1>12. LogTypes'
  <2>1. buffers' \in [Sources -> SUBSET (1..Len(log'))]
    <3>1. 1..(n - 1) \subseteq 1..n
      BY <1>9
    <3>2. buffers \in [Sources -> SUBSET (1..(n - 1))]
      BY <1>2, <1>9 DEF LogTypes
    <3> QED BY <1>7, <1>9, <1>11, <3>1, <3>2
  <2>2. notes' \subseteq 1..Len(log') /\ noted' \subseteq 1..Len(log')
    BY <1>1, <1>2, <1>7, <1>9 DEF LogTypes
  <2> QED BY <1>1, <1>2, <1>9, <2>1, <2>2 DEF LogTypes
<1>13. BuffersInv'
  <2>1. SUFFICES ASSUME NEW r \in Sources
                 PROVE  /\ \A i \in 1..n : Open(log', r, i) => buffers'[r] = Lines(log', r, i, n)
                        /\ buffers'[r] # {} => \E i \in 1..n : Open(log', r, i)
    BY <1>9 DEF BuffersInv
  <2>2. CASE r = s
    <3>1. buffers'[s] = new
      BY <1>2, <1>7 DEF LogTypes
    <3> QED BY <1>11, <2>2, <3>1, Zenon
  <2>3. CASE r # s
    <3>1. buffers'[r] = buffers[r]
      BY <1>2, <1>7, <2>1, <2>3 DEF LogTypes
    <3>2. /\ \A i \in 1..(n - 1) : Open(log', r, i) <=> Open(log, r, i)
          /\ ~Open(log', r, n)
      BY <1>8, <2>3, OpenAfter
    <3>3. \A i \in 1..(n - 1) : Lines(log', r, i, n) = Lines(log, r, i, n - 1)
      BY <1>8, <2>3, LinesOfMore DEF Grown
    <3>4. /\ \A i \in 1..(n - 1) : Open(log, r, i) => buffers[r] = Lines(log, r, i, n - 1)
          /\ buffers[r] # {} => \E i \in 1..(n - 1) : Open(log, r, i)
      BY <1>2, <1>9, <2>1, Zenon DEF BuffersInv
    <3>5. /\ \A i \in 1..n : i = n \/ i \in 1..(n - 1)
          /\ 1..(n - 1) \subseteq 1..n
      BY <1>9
    <3>6. \A i \in 1..n : Open(log', r, i) => buffers'[r] = Lines(log', r, i, n)
      BY <3>1, <3>2, <3>3, <3>4, <3>5, Zenon
    <3>7. buffers'[r] # {} => \E i \in 1..n : Open(log', r, i)
      BY <3>1, <3>2, <3>4, <3>5, Zenon
    <3> QED BY <3>6, <3>7
  <2> QED BY <2>2, <2>3
<1>14. TasksInv'
  <2>1. \A t : IsWholeIn(log', t) <=> IsWholeIn(log, t) \/ t \in whole
    BY <1>6, <1>8, <1>10, WholeHandedIn, Zenon
  <2>2. ASSUME NEW i \in 1..n, IsError(log'[i][1]) PROVE i \in notes' \cup noted'
    <3>1. CASE i = n
      BY <1>7, <1>9, <2>2, <3>1
    <3>2. CASE i \in 1..(n - 1)
      <4>1. IsError(log[i][1])
        BY <1>9, <2>2, <3>2
      <4>2. i \in notes \cup noted
        BY <1>1, <1>2, <1>9, <3>2, <4>1 DEF TasksInv
      <4> QED BY <1>1, <1>7, <4>2
    <3> QED BY <1>9, <3>1, <3>2
  <2>3. \A t : t \in reported' \cup posts' <=> t \in reported \cup posts \/ t \in whole
    BY <1>1, <1>7
  <2> QED BY <1>1, <1>2, <1>9, <2>1, <2>2, <2>3 DEF TasksInv
<1> QED BY <1>12, <1>13, <1>14 DEF LogInv

LEMMA LogKept == LogInv /\ [LogNext]_logVars => LogInv'
<1> SUFFICES ASSUME LogInv, [LogNext]_logVars PROVE LogInv'
  OBVIOUS
<1>1. LogTypes /\ BuffersInv /\ TasksInv
  BY DEF LogInv
<1>2. ASSUME UNCHANGED <<log, buffers>> PROVE BuffersInv'
  BY <1>1, <1>2 DEF BuffersInv
<1>3. CASE PostRcaTrigger
  <2>1. PICK t \in posts : posts' = posts \ {t} /\ reported' = reported \cup {t}
    BY <1>3 DEF PostRcaTrigger
  <2>2. UNCHANGED <<log, buffers, notes, noted, mode>>
    BY <1>3 DEF PostRcaTrigger
  <2>3. \A x : x \in reported' \cup posts' <=> x \in reported \cup posts
    BY <2>1
  <2> QED BY <1>1, <1>2, <2>1, <2>2, <2>3 DEF LogInv, LogTypes, TasksInv
<1>4. CASE InterpretAndUpdate
  <2>1. PICK n \in notes : notes' = notes \ {n} /\ noted' = noted \cup {n}
    BY <1>4 DEF InterpretAndUpdate
  <2>2. UNCHANGED <<log, buffers, posts, reported, mode>>
    BY <1>4 DEF InterpretAndUpdate
  <2>3. /\ notes' \cup noted' = notes \cup noted
        /\ notes' \subseteq notes /\ noted' \subseteq notes \cup noted
    BY <2>1
  <2> QED BY <1>1, <1>2, <2>2, <2>3 DEF LogInv, LogTypes, TasksInv
<1>5. CASE EndOfFile
  BY <1>1, <1>2, <1>5 DEF EndOfFile, LogInv, LogTypes, TasksInv
<1>6. CASE Gathered
  BY <1>1, <1>2, <1>6 DEF Gathered, LogInv, LogTypes, TasksInv
<1>7. CASE Interrupt
  BY <1>1, <1>2, <1>7 DEF Interrupt, LogInv, LogTypes, TasksInv
<1>8. CASE UNCHANGED logVars
  BY <1>1, <1>2, <1>8 DEF logVars, LogInv, LogTypes, TasksInv
<1> QED BY <1>3, <1>4, <1>5, <1>6, <1>7, <1>8, ProcessKeeps DEF LogNext

\* log_reader.py: for any number of sources, any limit of the buffer and any
\* mixture of lines, the tracebacks that are handed in are the whole ones of
\* the log, and the end of the input loses neither them nor an error line.
THEOREM LogHolds == LogSpec => []LogIsAnswered
<1>1. LogInv => LogIsAnswered
  <2>1. SUFFICES ASSUME LogInv PROVE LogIsAnswered
    OBVIOUS
  <2>2. LogTypes /\ TasksInv /\ \A t : t \in WholeTracebacks <=> IsWholeIn(log, t)
    BY <2>1, WholeIs DEF LogInv, LogTypes
  <2>3. TracebacksFound
    BY <2>2 DEF TasksInv, TracebacksFound
  <2>4. EndLosesNothing
    <3>1. SUFFICES ASSUME mode = "ended"
                   PROVE  /\ reported = WholeTracebacks
                          /\ \A n \in 1..Len(log) : IsError(log[n][1]) => n \in noted
      BY DEF EndLosesNothing
    <3>2. posts = {} /\ notes = {} /\ mode # "interrupted"
      BY <2>2, <3>1 DEF TasksInv
    <3> QED BY <2>2, <3>2 DEF TasksInv
  <2> QED BY <2>3, <2>4 DEF LogIsAnswered
<1> QED BY <1>1, LogStarts, LogKept, PTL DEF LogSpec

-----------------------------------------------------------------------------
(* 4. The live feed: the list a walk goes through while others change it. *)

\* The sockets a walk that is at position i of a list has yet to reach, and the
\* ones the broadcast of an event has yet to send it to.
From(list, i) == {list[k] : k \in i..Len(list)}
Ahead(e) == From(Targets(e), cast[e].i) \cup cast[e].to

SockStates == [at : {"new", "joined", "replaying", "open", "closed", "failed"},
               replay : Seq(Events), seen : SUBSET Events, live : Seq(Events)]
CastStates == [at : {"idle", "saved", "walking", "sending", "done"}, list : 0..MaxLists,
               i : 1..(Cardinality(Sockets) + 1), to : SUBSET Sockets, dead : SUBSET Sockets]

FeedTypes ==
    /\ saved \in Seq(Events)
    /\ lists \in [1..MaxLists -> Seq(Sockets)]
    /\ room \in 0..MaxLists
    /\ sock \in [Sockets -> SockStates]
    /\ cast \in [Events -> CastStates]
    /\ alive \subseteq Sockets
    /\ left \subseteq Events

\* A socket is in a list once, and in none before it connects.
ListsInv ==
    /\ \A n \in 1..MaxLists : IsInjective(lists[n])
    /\ \A s \in Sockets : At(s, "new") =>
          /\ \A n \in 1..MaxLists : s \notin ToSet(lists[n])
          /\ sock[s].live = <<>>
          /\ \A e \in Events : s \notin cast[e].to

\* What the broadcast of an event knows at each of its steps.
CastOK(e) ==
    /\ cast[e].at # "idle" => e \in ToSet(saved)
    /\ cast[e].at \in {"idle", "saved", "done"} => cast[e] = [Idle EXCEPT !.at = cast[e].at]
    /\ cast[e].at = "walking" => cast[e].to = {}
    /\ cast[e].at = "sending" => \E s \in Sockets : cast[e].to = {s}
    /\ cast[e].to \cap From(Targets(e), cast[e].i) = {}
    /\ cast[e].dead \cap alive = {}
CastInv == \A e \in Events : CastOK(e)

\* An event is not sent before its broadcast reaches the socket.
LiveInv ==
    \A s \in Sockets, e \in Events :
        \/ cast[e].at \in {"idle", "saved"}
        \/ e \in Amid /\ s \in Ahead(e)
        => e \notin ToSet(sock[s].live)

\* An event that a dashboard does not have is in the store alone, in its
\* replay, or its broadcast is yet to reach it.
HaveInv ==
    \A s \in alive, e \in Events :
        sock[s].at \in {"replaying", "open"} /\ e \notin left =>
            \/ e \in sock[s].seen \cup ToSet(sock[s].replay) \cup ToSet(sock[s].live)
            \/ cast[e].at \in {"idle", "saved"}
            \/ e \in Amid /\ s \in Ahead(e)

OpenInv == \A s \in Sockets : At(s, "open") => sock[s].replay = <<>>

FeedInv == FeedTypes /\ ListsInv /\ CastInv /\ LiveInv /\ HaveInv /\ OpenInv /\ SentOnce /\ RoomIsLive

\* A list without some of its sockets has the others, none of them later.
LEMMA NoneLater ==
    ASSUME NEW S, NEW l \in Seq(S), NEW r \in Seq(S), IsInjective(l),
           \A i, j \in DOMAIN r : i < j =>
              \E k, m \in DOMAIN l : k < m /\ l[k] = r[i] /\ l[m] = r[j],
           NEW n \in 1..Len(r), NEW k \in 1..Len(l), r[n] = l[k]
    PROVE  n <= k
<1> DEFINE Pos(m) == CHOOSE p \in 1..Len(l) : l[p] = r[m]
           f == [m \in 1..n |-> Pos(m)]
<1>1. ASSUME NEW m \in 1..n PROVE Pos(m) \in 1..Len(l) /\ l[Pos(m)] = r[m]
  <2>1. \E p \in 1..Len(l) : l[p] = r[m]
    <3>1. CASE m = n
      BY <3>1
    <3>2. CASE m < n
      <4>1. m \in DOMAIN r /\ n \in DOMAIN r /\ DOMAIN l = 1..Len(l)
        OBVIOUS
      <4> QED BY <3>2, <4>1
    <3> QED BY <3>1, <3>2
  <2> QED BY <2>1
<1>2. ASSUME NEW m \in 1..n, NEW q \in 1..n, m < q PROVE Pos(m) < Pos(q)
  <2>1. m \in DOMAIN r /\ q \in DOMAIN r /\ DOMAIN l = 1..Len(l)
    OBVIOUS
  <2>2. PICK a, b \in DOMAIN l : a < b /\ l[a] = r[m] /\ l[b] = r[q]
    BY <1>2, <2>1
  <2>3. l[Pos(m)] = l[a] /\ l[Pos(q)] = l[b] /\ Pos(m) \in DOMAIN l /\ Pos(q) \in DOMAIN l
    BY <1>1, <2>1, <2>2
  <2> HIDE DEF Pos
  <2>4. Pos(m) = a /\ Pos(q) = b
    BY <2>2, <2>3, Zenon DEF IsInjective
  <2> QED BY <2>2, <2>4
<1>3. Pos(n) = k
  <2>1. l[Pos(n)] = l[k] /\ Pos(n) \in DOMAIN l /\ k \in DOMAIN l
    BY <1>1
  <2> QED BY <2>1, Zenon DEF IsInjective
<1> HIDE DEF Pos
<1>4. f \in Injection(1..n, 1..k)
  <2>1. \A m \in 1..n : Pos(m) \in 1..k
    <3>1. SUFFICES ASSUME NEW m \in 1..n PROVE Pos(m) \in 1..k
      OBVIOUS
    <3>2. Pos(m) \in 1..Len(l)
      BY <1>1
    <3>3. m < n => Pos(m) < Pos(n)
      BY <1>2
    <3> QED BY <1>3, <3>2, <3>3
  <2>2. \A m, q \in 1..n : Pos(m) = Pos(q) => m = q
    BY <1>1, <1>2
  <2> QED BY <2>1, <2>2 DEF Injection, IsInjective
<1>5. Cardinality(1..n) <= Cardinality(1..k)
  <2> HIDE DEF f
  <2> QED BY <1>4, FS_Injection, FS_Interval
<1>6. Cardinality(1..n) = n /\ Cardinality(1..k) = k
  BY FS_Interval
<1> HIDE DEF f
<1> QED BY <1>5, <1>6

\* What list.remove() leaves, for a walk that is under way.
Shrunk(l, r, D) ==
    /\ IsInjective(r) /\ Len(r) <= Len(l)
    /\ ToSet(r) = ToSet(l) \ D
    /\ \A i \in Nat \ {0} : From(r, i) \subseteq From(l, i)
    /\ ToSet(l) \cap D = {} => \A i \in Nat \ {0} : From(l, i) = From(r, i)

LEMMA WithoutShrinks ==
    ASSUME NEW S, NEW l \in Seq(S), IsInjective(l), NEW D, NEW r \in Without(l, D)
    PROVE  r \in Seq(S) /\ Shrunk(l, r, D)
<1> DEFINE Kept(x, y) == \A i, j \in DOMAIN y : i < j =>
              \E k, m \in DOMAIN x : k < m /\ x[k] = y[i] /\ x[m] = y[j]
<1>1. /\ r \in SeqOf(ToSet(l) \ D, Len(l)) /\ ToSet(r) = ToSet(l) \ D /\ Kept(l, r)
  BY DEF Without
<1>2. r \in Seq(S) /\ Len(r) <= Len(l)
  <2>1. PICK n \in 0..Len(l) : r \in [1..n -> ToSet(l) \ D]
    BY <1>1 DEF SeqOf
  <2>2. ToSet(l) \subseteq S
    BY DEF ToSet
  <2> QED BY <2>1, <2>2
<1>3. IsInjective(r)
  <2>1. SUFFICES ASSUME NEW i \in 1..Len(r), NEW j \in 1..Len(r), i < j, r[i] = r[j] PROVE FALSE
    BY <1>2 DEF IsInjective
  <2>2. PICK k, m \in DOMAIN l : k < m /\ l[k] = r[i] /\ l[m] = r[j]
    BY <1>1, <1>2, <2>1
  <2> QED BY <2>1, <2>2 DEF IsInjective
<1>4. ASSUME NEW i \in Nat \ {0} PROVE From(r, i) \subseteq From(l, i)
  <2>1. SUFFICES ASSUME NEW n \in i..Len(r) PROVE r[n] \in From(l, i)
    BY DEF From
  <2>2. PICK k \in 1..Len(l) : r[n] = l[k]
    BY <1>1, <1>2, <2>1 DEF ToSet
  <2>3. n <= k
    BY <1>1, <1>2, <2>1, <2>2, NoneLater
  <2> QED BY <2>1, <2>2, <2>3, <1>2 DEF From
<1>5. ASSUME ToSet(l) \cap D = {}, NEW i \in Nat \ {0} PROVE From(l, i) \subseteq From(r, i)
  <2>1. SUFFICES ASSUME NEW n \in i..Len(l) PROVE l[n] \in From(r, i)
    BY DEF From
  <2>2. ToSet(r) = ToSet(l)
    BY <1>1, <1>5
  <2>6. \A x \in 1..Len(l) : \E y \in 1..Len(r) : l[x] = r[y]
    <3>1. SUFFICES ASSUME NEW x \in 1..Len(l) PROVE \E y \in 1..Len(r) : l[x] = r[y]
      OBVIOUS
    <3>2. l[x] \in ToSet(l)
      BY DEF ToSet
    <3>3. l[x] \in ToSet(r)
      BY <2>2, <3>2, Zenon
    <3> QED BY <1>2, <3>3 DEF ToSet
  <2>3. PICK k \in 1..Len(r) : l[n] = r[k]
    BY <2>1, <2>6
  <2>4. Kept(r, l)
    <3>1. SUFFICES ASSUME NEW a \in 1..Len(l), NEW b \in 1..Len(l), a < b
                   PROVE  \E p, q \in DOMAIN r : p < q /\ r[p] = l[a] /\ r[q] = l[b]
      OBVIOUS
    <3>2. PICK p, q \in 1..Len(r) : r[p] = l[a] /\ r[q] = l[b]
      BY <2>6
    <3>3. CASE p < q
      BY <3>2, <3>3, <1>2
    <3>4. CASE p = q
      BY <3>1, <3>2, <3>4 DEF IsInjective
    <3>5. CASE q < p
      <4>1. PICK c, d \in DOMAIN l : c < d /\ l[c] = r[q] /\ l[d] = r[p]
        BY <1>1, <1>2, <3>5
      <4>2. c = b /\ d = a
        BY <4>1, <3>2 DEF IsInjective
      <4> QED BY <4>1, <4>2, <3>1
    <3> QED BY <3>3, <3>4, <3>5, <1>2
  <2>5. n <= k
    BY <1>2, <1>3, <2>1, <2>3, <2>4, NoneLater
  <2> QED BY <2>1, <2>3, <2>5, <1>2 DEF From
<1> QED BY <1>1, <1>2, <1>3, <1>4, <1>5, Zenon DEF Shrunk

\* list.append() of a socket that is not in the list.
LEMMA AppendGrows ==
    ASSUME NEW S, NEW l \in Seq(S), NEW s \in S
    PROVE  /\ Append(l, s) \in Seq(S) /\ Append(l, s) # <<>>
           /\ ToSet(Append(l, s)) = ToSet(l) \cup {s}
           /\ \A i \in Nat \ {0} : /\ From(l, i) \subseteq From(Append(l, s), i)
                                   /\ From(Append(l, s), i) \subseteq From(l, i) \cup {s}
           /\ IsInjective(l) /\ s \notin ToSet(l) => IsInjective(Append(l, s))
BY DEF From, ToSet, IsInjective

\* A walk that goes on by a position, from the first and beyond the last one.
LEMMA FromNext ==
    ASSUME NEW S, NEW l \in Seq(S), NEW i \in Nat \ {0}
    PROVE  /\ From(l, 1) = ToSet(l)
           /\ i > Len(l) => From(l, i) = {}
           /\ i <= Len(l) => From(l, i) = {l[i]} \cup From(l, i + 1)
           /\ IsInjective(l) /\ i <= Len(l) => l[i] \notin From(l, i + 1)
           /\ From(l, i) \subseteq ToSet(l)
BY DEF From, ToSet, IsInjective

\* A list that has a socket once is no longer than the sockets are many.
LEMMA ListIsShort ==
    ASSUME NEW l \in Seq(Sockets), IsInjective(l)
    PROVE  Len(l) <= Cardinality(Sockets)
<1>1. l \in Injection(1..Len(l), Sockets)
  BY DEF Injection
<1>2. Cardinality(1..Len(l)) <= Cardinality(Sockets)
  BY <1>1, FS_Injection, FeedAssumption
<1>3. Cardinality(1..Len(l)) = Len(l)
  <2>1. PICK n \in Nat : n = Len(l)
    OBVIOUS
  <2>2. Cardinality(1..n) = n
    BY FS_Interval
  <2> QED BY <2>1, <2>2
<1> QED BY <1>2, <1>3

LEMMA ReplayGoesOn ==
    ASSUME NEW S, NEW q \in Seq(S), q # <<>>
    PROVE  ToSet(q) = {Head(q)} \cup ToSet(Tail(q))
<1>1. \A n \in 1..Len(q) : n # 1 => n - 1 \in 1..Len(Tail(q)) /\ Tail(q)[n - 1] = q[n]
  OBVIOUS
<1>2. \A n \in 1..Len(Tail(q)) : n + 1 \in 1..Len(q) /\ Tail(q)[n] = q[n + 1]
  OBVIOUS
<1>3. 1 \in 1..Len(q) /\ Head(q) = q[1] /\ Tail(q) \in Seq(S)
  OBVIOUS
<1>4. ASSUME NEW n \in 1..Len(q) PROVE q[n] \in {Head(q)} \cup ToSet(Tail(q))
  <2>1. CASE n = 1
    BY <1>3, <2>1
  <2>2. CASE n # 1
    <3>1. n - 1 \in DOMAIN Tail(q) /\ Tail(q)[n - 1] = q[n]
      BY <1>1, <1>3, <2>2
    <3> QED BY <3>1 DEF ToSet
  <2> QED BY <2>1, <2>2
<1>5. ASSUME NEW n \in 1..Len(Tail(q)) PROVE Tail(q)[n] \in ToSet(q)
  BY <1>2 DEF ToSet
<1>6. Head(q) \in ToSet(q)
  BY <1>3 DEF ToSet
<1>7. ToSet(q) \subseteq {Head(q)} \cup ToSet(Tail(q))
  BY <1>4 DEF ToSet
<1>8. ToSet(Tail(q)) \subseteq ToSet(q)
  BY <1>3, <1>5 DEF ToSet
<1> QED BY <1>6, <1>7, <1>8

LEMMA ListsAreWell ==
    ASSUME FeedTypes, ListsInv
    PROVE  /\ Members \in Seq(Sockets) /\ IsInjective(Members)
           /\ \A e \in Events : /\ Targets(e) \in Seq(Sockets) /\ IsInjective(Targets(e))
                                /\ Len(Targets(e)) <= Cardinality(Sockets)
<1>1. <<>> \in Seq(Sockets) /\ IsInjective(<<>>)
  BY DEF IsInjective
<1>2. Members \in Seq(Sockets) /\ IsInjective(Members)
  BY <1>1 DEF FeedTypes, ListsInv, Members
<1>3. ASSUME NEW e \in Events PROVE Targets(e) \in Seq(Sockets) /\ IsInjective(Targets(e))
  <2>1. cast[e].list \in 0..MaxLists
    BY DEF FeedTypes, CastStates
  <2> QED BY <1>1, <2>1 DEF FeedTypes, ListsInv, Targets
<1> QED BY <1>2, <1>3, ListIsShort

\* A list object that neither the room nor a walk holds.
LEMMA FreshIsFree ==
    ASSUME FeedTypes, room = 0
    PROVE  Fresh \in 1..MaxLists /\ \A e \in Events : cast[e].list # Fresh
<1> DEFINE Used == {cast[e].list : e \in Events}
<1>1. IsFiniteSet(Used) /\ Cardinality(Used) <= Cardinality(Events)
  <2>1. [e \in Events |-> cast[e].list] \in Surjection(Events, Used)
    BY DEF Surjection
  <2> HIDE DEF Used
  <2> QED BY <2>1, FS_Surjection, FeedAssumption
<1>2. MaxLists \in Nat /\ Cardinality(1..MaxLists) = MaxLists
  <2>1. MaxLists \in Nat
    BY FeedAssumption
  <2> QED BY <2>1, FS_Interval
<1>3. ~(1..MaxLists \subseteq Used)
  <2>1. ASSUME 1..MaxLists \subseteq Used PROVE Cardinality(1..MaxLists) <= Cardinality(Used)
    BY <1>1, <2>1, FS_Subset
  <2>2. Cardinality(Used) \in Nat /\ Cardinality(Events) \in Nat
    BY <1>1, FeedAssumption, FS_CardinalityType
  <2> HIDE DEF Used
  <2> QED BY <1>1, <1>2, <2>1, <2>2, FeedAssumption
<1>4. \E n \in 1..MaxLists : n # room /\ \A e \in Events : cast[e].list # n
  BY <1>3
<1> QED BY <1>4 DEF Fresh

\* connect(): a walk may have one more socket ahead, the new one.
LEMMA JoinedGrows ==
    ASSUME FeedTypes, ListsInv, NEW s \in Sockets, At(s, "new"), Joined(s)
    PROVE  /\ lists' \in [1..MaxLists -> Seq(Sockets)] /\ room' \in 1..MaxLists
           /\ \A n \in 1..MaxLists : IsInjective(lists'[n])
           /\ \A n \in 1..MaxLists : ToSet(lists'[n]) \subseteq ToSet(lists[n]) \cup {s}
           /\ ToSet(lists'[room']) = ToSet(Members) \cup {s}
           /\ \A e \in Events : cast[e].list # 0 => \A i \in Nat \ {0} :
                 /\ From(lists[cast[e].list], i) \subseteq From(lists'[cast[e].list], i)
                 /\ From(lists'[cast[e].list], i) \subseteq From(lists[cast[e].list], i) \cup {s}
<1> USE DEF FeedTypes
<1>1. CASE room # 0
  <2>1. lists' = [lists EXCEPT ![room] = Append(lists[room], s)] /\ room' = room
    BY <1>1 DEF Joined
  <2>2. /\ room \in 1..MaxLists /\ lists[room] \in Seq(Sockets)
        /\ IsInjective(lists[room]) /\ s \notin ToSet(lists[room]) /\ Members = lists[room]
    BY <1>1 DEF ListsInv, Members
  <2>3. PICK l : l = Append(lists[room], s)
    OBVIOUS
  <2>4. /\ l \in Seq(Sockets) /\ IsInjective(l) /\ ToSet(l) = ToSet(lists[room]) \cup {s}
        /\ \A i \in Nat \ {0} : /\ From(lists[room], i) \subseteq From(l, i)
                                /\ From(l, i) \subseteq From(lists[room], i) \cup {s}
    BY <2>2, <2>3, AppendGrows
  <2>5. /\ lists' \in [1..MaxLists -> Seq(Sockets)]
        /\ \A n \in 1..MaxLists : lists'[n] = IF n = room THEN l ELSE lists[n]
    BY <2>1, <2>2, <2>3, <2>4
  <2>6. \A e \in Events : cast[e].list \in 0..MaxLists
    BY DEF CastStates
  <2> QED BY <2>1, <2>2, <2>4, <2>5, <2>6 DEF ListsInv
<1>2. CASE room = 0
  <2>1. lists' = [lists EXCEPT ![Fresh] = <<s>>] /\ room' = Fresh
    BY <1>2 DEF Joined
  <2>2. Fresh \in 1..MaxLists /\ \A e \in Events : cast[e].list # Fresh
    BY <1>2, FreshIsFree
  <2>3. <<s>> \in Seq(Sockets) /\ IsInjective(<<s>>) /\ ToSet(<<s>>) = {s} /\ ToSet(Members) = {}
    BY <1>2 DEF IsInjective, ToSet, Members
  <2>4. /\ lists' \in [1..MaxLists -> Seq(Sockets)]
        /\ \A n \in 1..MaxLists : lists'[n] = IF n = Fresh THEN <<s>> ELSE lists[n]
    BY <2>1, <2>2, <2>3
  <2>5. \A e \in Events : cast[e].list \in 0..MaxLists
    BY DEF CastStates
  <2> HIDE DEF FeedTypes
  <2> QED BY <2>1, <2>2, <2>3, <2>4, <2>5 DEF ListsInv
<1> QED BY <1>1, <1>2

\* disconnect(): the room shrinks, and the walks over its list may skip one.
LEMMA LeftShrinks ==
    ASSUME FeedTypes, ListsInv, NEW D, NEW amid, amid \subseteq Events, Left(D, amid)
    PROVE  /\ lists' \in [1..MaxLists -> Seq(Sockets)] /\ room' \in 0..MaxLists
           /\ \A n \in 1..MaxLists : Shrunk(lists[n], lists'[n], IF n = room THEN D ELSE {})
           /\ (IF room' = 0 THEN {} ELSE ToSet(lists'[room'])) = ToSet(Members) \ D
           /\ left' = left \cup {e \in amid : cast[e].list = room /\ D \cap ToSet(Members) # {}}
<1> USE DEF FeedTypes
<1>1. PICK others \in Without(Members, D) :
         /\ lists' = IF room = 0 THEN lists ELSE [lists EXCEPT ![room] = others]
         /\ room' = IF others = <<>> THEN 0 ELSE room
         /\ left' = left \cup {e \in amid : cast[e].list = room /\ D \cap ToSet(Members) # {}}
  BY DEF Left
<1>2. others \in Seq(Sockets) /\ Shrunk(Members, others, D)
  BY ListsAreWell, WithoutShrinks
<1>3. ToSet(others) = ToSet(Members) \ D
  BY <1>2 DEF Shrunk
<1>4. \A l : IsInjective(l) => Shrunk(l, l, {})
  BY DEF Shrunk
<1>5. CASE room = 0
  <2>1. ToSet(Members) = {}
    BY <1>5 DEF Members, ToSet
  <2>2. Len(others) # 0 => others[1] \in ToSet(others)
    BY <1>2 DEF ToSet
  <2>3. others = <<>>
    BY <1>2, <1>3, <2>1, <2>2
  <2> QED BY <1>1, <1>4, <1>5, <2>1, <2>3 DEF ListsInv
<1>6. CASE room # 0
  <2>1. /\ lists' = [lists EXCEPT ![room] = others] /\ Members = lists[room] /\ room \in 1..MaxLists
    BY <1>1, <1>6 DEF Members
  <2>2. /\ lists' \in [1..MaxLists -> Seq(Sockets)]
        /\ \A n \in 1..MaxLists : lists'[n] = IF n = room THEN others ELSE lists[n]
    BY <1>2, <2>1
  <2>3. others = <<>> => ToSet(others) = {}
    BY DEF ToSet
  <2>4. \A n \in 1..MaxLists : Shrunk(lists[n], lists'[n], IF n = room THEN D ELSE {})
    BY <1>2, <1>4, <2>1, <2>2, Zenon DEF ListsInv
  <2>5. (IF room' = 0 THEN {} ELSE ToSet(lists'[room'])) = ToSet(others)
    BY <1>1, <2>1, <2>2, <2>3
  <2>6. room' \in 0..MaxLists
    <3>1. room' = 0 \/ room' = room
      BY <1>1, Zenon
    <3> QED BY <2>1, <3>1, FeedAssumption
  <2> QED BY <1>1, <1>3, <2>2, <2>4, <2>5, <2>6, Zenon
<1> QED BY <1>5, <1>6

LEMMA FeedStarts == FeedInit => FeedInv
<1> SUFFICES ASSUME FeedInit PROVE FeedInv
  OBVIOUS
<1>1. /\ <<>> \in Seq(Sockets) /\ <<>> \in Seq(Events) /\ IsInjective(<<>>) /\ ToSet(<<>>) = {}
      /\ MaxLists \in Nat /\ Cardinality(Sockets) \in Nat
  BY FeedAssumption, FS_CardinalityType DEF IsInjective, ToSet
<1>2. /\ \A n \in 1..MaxLists : lists[n] = <<>>
      /\ \A s \in Sockets : sock[s] = [at |-> "new", replay |-> <<>>, seen |-> {}, live |-> <<>>]
      /\ \A e \in Events : cast[e] = Idle
  BY DEF FeedInit
<1>3. FeedTypes
  BY <1>1 DEF FeedInit, FeedTypes, SockStates, CastStates, Idle
<1>4. ListsInv
  BY <1>1, <1>2 DEF ListsInv, Idle
<1>5. CastInv
  BY <1>2 DEF CastInv, CastOK, Idle
<1>6. LiveInv /\ HaveInv /\ OpenInv /\ SentOnce
  BY <1>1, <1>2 DEF FeedInit, LiveInv, HaveInv, OpenInv, SentOnce, Idle, At
<1>7. RoomIsLive
  BY <1>1, <1>2 DEF RoomIsLive, At, FeedInit, Members
<1> QED BY <1>3, <1>4, <1>5, <1>6, <1>7 DEF FeedInv

\* A step of an endpoint that leaves the lists and the broadcasts alone: what it
\* does to its socket.
SockMoves(s) ==
    /\ UNCHANGED <<lists, room, cast, left, saved>>
    /\ alive' \subseteq alive
    /\ sock' \in [Sockets -> SockStates]
    /\ \A t \in Sockets \ {s} : sock'[t] = sock[t] /\ (t \in alive => t \in alive')
    /\ ~At(s, "new") /\ sock'[s].at # "new"
    /\ sock'[s].live \in {sock[s].live, <<>>}
    /\ sock'[s].at = "open" => sock'[s].replay = <<>>
    /\ sock'[s].at = "closed" => At(s, "closed")
    /\ s \in alive' /\ sock'[s].at \in {"joined", "replaying", "open"} =>
          sock[s].at \in {"joined", "replaying", "open"}
    /\ s \in alive' /\ sock'[s].at \in {"replaying", "open"} =>
          /\ sock'[s].live = sock[s].live
          /\ \/ ToSet(saved) \subseteq sock'[s].seen \cup ToSet(sock'[s].replay)
             \/ /\ sock[s].at \in {"replaying", "open"}
                /\ sock[s].seen \cup ToSet(sock[s].replay)
                      \subseteq sock'[s].seen \cup ToSet(sock'[s].replay)

LEMMA SockMovesKeep == ASSUME FeedInv, NEW s \in Sockets, SockMoves(s) PROVE FeedInv'
<1> USE DEF FeedInv, SockMoves
<1>1. /\ UNCHANGED Members /\ UNCHANGED Amid
      /\ \A e \in Events : UNCHANGED Targets(e) /\ UNCHANGED Ahead(e)
  BY DEF Members, Amid, Targets, Ahead
<1>2. FeedTypes'
  BY DEF FeedTypes
<1>3. \A t \in Sockets : /\ sock'[t].at = "new" => At(t, "new")
                         /\ sock'[t].live \in {sock[t].live, <<>>}
  BY DEF At
<1>4. ToSet(<<>>) = {} /\ IsInjective(<<>>)
  BY DEF ToSet, IsInjective
<1>5. ListsInv'
  BY <1>3 DEF ListsInv, At
<1>6. CastInv'
  BY <1>1 DEF CastInv, CastOK
<1>7. LiveInv'
  BY <1>1, <1>3, <1>4 DEF LiveInv
<1>8. HaveInv'
  <2>1. SUFFICES ASSUME NEW t \in alive', NEW e \in Events, e \notin left,
                        sock'[t].at \in {"replaying", "open"},
                        cast[e].at \notin {"idle", "saved"}, ~(e \in Amid /\ t \in Ahead(e))
                 PROVE  e \in sock'[t].seen \cup ToSet(sock'[t].replay) \cup ToSet(sock'[t].live)
    BY <1>1 DEF HaveInv
  <2>2. t \in Sockets /\ t \in alive
    BY DEF FeedTypes
  <2>3. e \in ToSet(saved)
    BY <2>1, <1>2 DEF CastInv, CastOK, FeedTypes, CastStates
  <2>4. CASE t = s
    BY <2>1, <2>2, <2>3, <2>4 DEF HaveInv
  <2>5. CASE t # s
    BY <2>1, <2>2, <2>5 DEF HaveInv
  <2> QED BY <2>4, <2>5
<1>9. OpenInv' /\ SentOnce'
  BY <1>3, <1>4 DEF OpenInv, SentOnce, At
<1>10. RoomIsLive'
  BY <1>1 DEF RoomIsLive, At
<1> QED BY <1>2, <1>5, <1>6, <1>7, <1>8, <1>9, <1>10

LEMMA EndpointMoves ==
    ASSUME FeedTypes, OpenInv, NEW s \in Sockets,
           ReadRecent(s) \/ Replay(s) \/ EndpointFails(s) \/ Hangup(s)
    PROVE  SockMoves(s)
<1> USE DEF FeedTypes, At
<1>1. sock[s] \in SockStates /\ saved \in Seq(Events) /\ <<>> \in Seq(Events) /\ ToSet(<<>>) = {}
  BY DEF ToSet
<1>2. CASE ReadRecent(s)
  <2>1. sock' = [sock EXCEPT ![s] = [sock[s] EXCEPT !.at = "replaying", !.replay = saved]]
    BY <1>2 DEF ReadRecent
  <2>2. At(s, "joined") /\ UNCHANGED <<saved, lists, room, cast, alive, left>>
    BY <1>2 DEF ReadRecent
  <2>3. /\ sock' \in [Sockets -> SockStates] /\ \A t \in Sockets \ {s} : sock'[t] = sock[t]
        /\ sock'[s].at = "replaying" /\ sock'[s].replay = saved /\ sock'[s].live = sock[s].live
    BY <1>1, <2>1 DEF SockStates
  <2> HIDE DEF FeedTypes
  <2> QED BY <2>2, <2>3 DEF SockMoves
<1>3. CASE Replay(s)
  <2>1. CASE sock[s].replay = <<>>
    <3>1. sock' = [sock EXCEPT ![s].at = "open"]
      BY <1>3, <2>1 DEF Replay, Goto
    <3>2. At(s, "replaying") /\ UNCHANGED <<saved, lists, room, cast, alive, left>>
      BY <1>3 DEF Replay
    <3>3. /\ sock' \in [Sockets -> SockStates] /\ \A t \in Sockets \ {s} : sock'[t] = sock[t]
          /\ sock'[s] = [sock[s] EXCEPT !.at = "open"]
      BY <1>1, <3>1 DEF SockStates
    <3>4. /\ sock'[s].at = "open" /\ sock'[s].replay = sock[s].replay
          /\ sock'[s].live = sock[s].live /\ sock'[s].seen = sock[s].seen
      BY <1>1, <3>3 DEF SockStates
    <3> HIDE DEF FeedTypes
    <3> QED BY <2>1, <3>2, <3>3, <3>4 DEF SockMoves
  <2>2. CASE sock[s].replay # <<>>
    <3>1. PICK q \in Seq(Events) : q = sock[s].replay
      BY <1>1 DEF SockStates
    <3>2. Head(q) \in Events /\ Tail(q) \in Seq(Events) /\ ToSet(q) = {Head(q)} \cup ToSet(Tail(q))
      BY <2>2, <3>1, ReplayGoesOn
    <3>3. sock' = [sock EXCEPT ![s] = [sock[s] EXCEPT !.replay = Tail(q), !.seen = @ \cup {Head(q)}]]
      BY <1>3, <2>2, <3>1 DEF Replay
    <3> QED BY <1>1, <1>3, <3>1, <3>2, <3>3 DEF Replay, SockStates, SockMoves
  <2> QED BY <2>1, <2>2
<1>4. CASE EndpointFails(s)
  BY <1>1, <1>4 DEF EndpointFails, Ended, SockStates, SockMoves
<1>5. CASE Hangup(s)
  BY <1>1, <1>5 DEF Hangup, OpenInv, SockMoves
<1> QED BY <1>2, <1>3, <1>4, <1>5

\* A step that leaves the sockets alone and moves the broadcast of one event.
CastMoves(e) ==
    /\ UNCHANGED <<lists, room, sock, alive, left>>
    /\ cast' \in [Events -> CastStates]
    /\ \A f \in Events \ {e} : cast'[f] = cast[f]

LEMMA SaveKeeps == ASSUME FeedInv, NEW e \in Events, Save(e) PROVE FeedInv'
<1> USE DEF FeedInv
<1>1. /\ cast[e].at = "idle" /\ saved' = Append(saved, e)
      /\ cast' = [cast EXCEPT ![e].at = "saved"] /\ UNCHANGED <<lists, room, sock, alive, left>>
  BY DEF Save
<1>2. /\ cast' \in [Events -> CastStates] /\ \A f \in Events \ {e} : cast'[f] = cast[f]
      /\ cast'[e] = [cast[e] EXCEPT !.at = "saved"]
  <2>1. PICK c : c = [cast[e] EXCEPT !.at = "saved"]
    OBVIOUS
  <2>2. c \in CastStates
    BY <2>1 DEF FeedTypes, CastStates
  <2>3. cast' = [cast EXCEPT ![e] = c] /\ cast \in [Events -> CastStates]
    BY <1>1, <2>1 DEF FeedTypes
  <2> HIDE DEF FeedInv
  <2> QED BY <2>1, <2>2, <2>3
<1>3. saved' \in Seq(Events) /\ ToSet(saved') = ToSet(saved) \cup {e}
  BY <1>1, AppendGrows DEF FeedTypes
<1>4. cast[e] = Idle /\ cast'[e] = [Idle EXCEPT !.at = "saved"]
  BY <1>1, <1>2 DEF CastInv, CastOK, Idle
<1>5. /\ cast'[e].at = "saved" /\ cast'[e].list = cast[e].list /\ cast'[e].i = cast[e].i
      /\ cast'[e].to = cast[e].to /\ cast'[e].dead = cast[e].dead
  BY <1>4 DEF Idle
<1>6. /\ \A f \in Events : Targets(f)' = Targets(f) /\ Ahead(f)' = Ahead(f)
      /\ Amid' = Amid /\ Members' = Members
  BY <1>1, <1>2, <1>5 DEF Targets, Ahead, Amid, Members
<1>7. FeedTypes'
  BY <1>1, <1>2, <1>3 DEF FeedTypes
<1>8. ListsInv'
  BY <1>1, <1>2, <1>5 DEF ListsInv, At
<1>9. CastInv'
  <2>1. ASSUME NEW f \in Events PROVE cast'[f].to = cast[f].to /\ cast'[f].dead = cast[f].dead
                                      /\ cast'[f].i = cast[f].i
    BY <1>2, <1>5
  <2>2. CASE TRUE
    BY <1>1, <1>2, <1>3, <1>4, <1>5, <1>6, <2>1 DEF CastInv, CastOK, Idle
  <2> QED BY <2>2
<1>10. LiveInv' /\ HaveInv'
  BY <1>1, <1>2, <1>5, <1>6 DEF LiveInv, HaveInv
<1>11. OpenInv' /\ SentOnce' /\ RoomIsLive'
  BY <1>1, <1>6 DEF OpenInv, SentOnce, RoomIsLive, At
<1> QED BY <1>7, <1>8, <1>9, <1>10, <1>11

LEMMA BroadcastKeeps == ASSUME FeedInv, NEW e \in Events, Broadcast(e) PROVE FeedInv'
<1> USE DEF FeedInv
<1>1. /\ cast[e].at = "saved" /\ cast' = [cast EXCEPT ![e].at = "walking", ![e].list = room]
      /\ UNCHANGED <<saved, lists, room, sock, alive, left>>
  BY DEF Broadcast
<1>2. cast[e] = [Idle EXCEPT !.at = "saved"]
  BY <1>1 DEF CastInv, CastOK
<1>3. /\ cast[e].i = 1 /\ cast[e].to = {} /\ cast[e].dead = {}
  BY <1>2 DEF Idle
<1>4. /\ cast' \in [Events -> CastStates] /\ \A f \in Events \ {e} : cast'[f] = cast[f]
      /\ cast'[e].at = "walking" /\ cast'[e].list = room /\ cast'[e].i = 1
      /\ cast'[e].to = {} /\ cast'[e].dead = {}
  BY <1>1, <1>3 DEF FeedTypes, CastStates
<1>5. /\ \A f \in Events \ {e} : Targets(f)' = Targets(f) /\ Ahead(f)' = Ahead(f)
      /\ Members' = Members /\ Targets(e)' = Members /\ Amid' = Amid \cup {e}
  BY <1>1, <1>4 DEF Targets, Ahead, Amid, Members
<1>6. Ahead(e)' = ToSet(Members)
  BY <1>4, <1>5, ListsAreWell, FromNext DEF Ahead
<1>7. FeedTypes'
  BY <1>1, <1>4 DEF FeedTypes
<1>8. ListsInv'
  BY <1>1, <1>4 DEF ListsInv, At
<1>9. CastInv'
  BY <1>1, <1>4, <1>5 DEF CastInv, CastOK
<1>10. LiveInv'
  BY <1>1, <1>4, <1>5 DEF LiveInv
<1>11. HaveInv'
  <2>1. \A s \in alive : sock[s].at \in {"replaying", "open"} => s \in ToSet(Members)
    BY DEF FeedTypes, RoomIsLive, At
  <2> QED BY <1>1, <1>4, <1>5, <1>6, <2>1 DEF HaveInv
<1>12. OpenInv' /\ SentOnce' /\ RoomIsLive'
  BY <1>1, <1>5 DEF OpenInv, SentOnce, RoomIsLive, At
<1> QED BY <1>7, <1>8, <1>9, <1>10, <1>11, <1>12

LEMMA PickKeeps == ASSUME FeedInv, NEW e \in Events, Pick(e) PROVE FeedInv'
<1> USE DEF FeedInv
<1>1. PICK l : l = Targets(e)
  OBVIOUS
<1>2. /\ cast[e].at = "walking" /\ cast[e].i <= Len(l)
      /\ cast' = [cast EXCEPT ![e].at = "sending", ![e].i = @ + 1, ![e].to = {l[cast[e].i]}]
      /\ UNCHANGED <<saved, lists, room, sock, alive, left>>
  BY <1>1 DEF Pick
<1>3. /\ l \in Seq(Sockets) /\ IsInjective(l) /\ Len(l) <= Cardinality(Sockets)
      /\ cast[e].i \in Nat \ {0} /\ cast[e].to = {} /\ Cardinality(Sockets) \in Nat
  BY <1>1, <1>2, ListsAreWell, FeedAssumption, FS_CardinalityType DEF FeedTypes, CastStates, CastInv, CastOK
<1>4. PICK s \in Sockets : s = l[cast[e].i]
  BY <1>2, <1>3
<1>5. /\ cast' \in [Events -> CastStates] /\ \A f \in Events \ {e} : cast'[f] = cast[f]
      /\ cast'[e].at = "sending" /\ cast'[e].list = cast[e].list /\ cast'[e].i = cast[e].i + 1
      /\ cast'[e].to = {s} /\ cast'[e].dead = cast[e].dead
  <2>1. PICK c : c = [cast[e] EXCEPT !.at = "sending", !.i = cast[e].i + 1, !.to = {s}]
    OBVIOUS
  <2>2. /\ c \in CastStates /\ c.at = "sending" /\ c.list = cast[e].list
        /\ c.i = cast[e].i + 1 /\ c.to = {s} /\ c.dead = cast[e].dead
    BY <1>2, <1>3, <2>1 DEF FeedTypes, CastStates
  <2>3. cast' = [cast EXCEPT ![e] = c]
    BY <1>2, <1>4, <2>1 DEF FeedTypes, CastStates
  <2> QED BY <2>2, <2>3 DEF FeedTypes
<1>6. /\ \A f \in Events \ {e} : Targets(f)' = Targets(f) /\ Ahead(f)' = Ahead(f)
      /\ Members' = Members /\ Targets(e)' = l /\ Amid' = Amid /\ e \in Amid
  <2>1. Targets(e)' = l /\ \A f \in Events \ {e} : Targets(f)' = Targets(f)
    <3>1. lists' = lists /\ \A f \in Events : cast'[f].list = cast[f].list
      BY <1>2, <1>5
    <3> HIDE DEF FeedInv
    <3> QED BY <1>1, <3>1 DEF Targets
  <2>2. \A f \in Events \ {e} : Ahead(f)' = Ahead(f)
    BY <1>5, <2>1 DEF Ahead
  <2>3. Members' = Members
    BY <1>2 DEF Members
  <2> HIDE DEF FeedInv
  <2>4. \A f \in Events : f \in Amid' <=> f \in Amid
    BY <1>2, <1>5 DEF Amid
  <2>5. e \in Amid /\ Amid \subseteq Events /\ Amid' \subseteq Events
    BY <1>2 DEF Amid
  <2> QED BY <2>1, <2>2, <2>3, <2>4, <2>5
<1>7. /\ From(l, cast[e].i) = {s} \cup From(l, cast[e].i + 1)
      /\ s \notin From(l, cast[e].i + 1) /\ s \in ToSet(l)
  <2>1. s \in ToSet(l)
    BY <1>2, <1>3, <1>4 DEF ToSet
  <2> QED BY <1>2, <1>3, <1>4, <2>1, FromNext
<1>8. Ahead(e)' = Ahead(e)
  BY <1>1, <1>3, <1>5, <1>6, <1>7 DEF Ahead
<1>9. FeedTypes'
  BY <1>2, <1>5 DEF FeedTypes
<1>10. ~At(s, "new")
  <2>1. cast[e].list \in 1..MaxLists /\ l = lists[cast[e].list]
    <3>1. l # <<>>
      BY <1>2, <1>3
    <3> QED BY <1>1, <3>1 DEF Targets, FeedTypes, CastStates
  <2> QED BY <1>7, <2>1 DEF ListsInv
<1>11. ListsInv'
  BY <1>2, <1>5, <1>10 DEF ListsInv, At
<1>12. CastInv'
  <2>1. e \in ToSet(saved') /\ {s} \cap From(l, cast[e].i + 1) = {}
    BY <1>2, <1>7 DEF CastInv, CastOK
  <2>2. cast[e].dead \cap alive' = {}
    BY <1>2 DEF CastInv, CastOK
  <2>3. \A f \in Events \ {e} : cast'[f] = cast[f] /\ Targets(f)' = Targets(f)
    BY <1>5, <1>6
  <2>4. CastInv /\ saved' = saved /\ alive' = alive
    BY <1>2
  <2> HIDE DEF FeedInv
  <2>5. \A f \in Events \ {e} : CastOK(f)'
    BY <2>3, <2>4 DEF CastInv, CastOK
  <2>6. CastOK(e)'
    BY <1>5, <1>6, <2>1, <2>2 DEF CastOK
  <2> QED BY <2>5, <2>6 DEF CastInv, CastOK
<1>13. LiveInv' /\ HaveInv'
  BY <1>2, <1>5, <1>6, <1>8 DEF LiveInv, HaveInv
<1>14. OpenInv' /\ SentOnce' /\ RoomIsLive'
  BY <1>2, <1>6 DEF OpenInv, SentOnce, RoomIsLive, At
<1> QED BY <1>9, <1>11, <1>12, <1>13, <1>14

LEMMA SentKeeps == ASSUME FeedInv, NEW e \in Events, Sent(e) PROVE FeedInv'
<1> USE DEF FeedInv
<1>1. cast[e].at = "sending" /\ UNCHANGED <<saved, lists, room, alive, left>>
  BY DEF Sent
<1>2. PICK s \in Sockets : cast[e].to = {s}
  BY <1>1 DEF CastInv, CastOK
<1>3. /\ \/ s \in alive /\ sock' = [sock EXCEPT ![s].live = Append(@, e)]
         \/ s \notin alive /\ sock' = sock
      /\ \E D \in {{}, {s} \ alive} :
            cast' = [cast EXCEPT ![e].at = "walking", ![e].to = {}, ![e].dead = @ \cup D]
  <2>1. cast[e] \in CastStates
    BY DEF FeedTypes
  <2>2. [cast EXCEPT ![e].at = "walking", ![e].to = {}]
           = [cast EXCEPT ![e].at = "walking", ![e].to = {}, ![e].dead = @ \cup {}]
    BY <2>1 DEF FeedTypes, CastStates
  <2>3. CASE /\ s \in alive /\ sock' = [sock EXCEPT ![s].live = Append(@, e)]
             /\ cast' = [cast EXCEPT ![e].at = "walking", ![e].to = {}]
    BY <2>2, <2>3
  <2>4. CASE /\ s \notin alive /\ sock' = sock
             /\ cast' = [cast EXCEPT ![e].at = "walking", ![e].to = {}, ![e].dead = @ \cup {s}]
    <3>1. {s} \ alive = {s}
      BY <2>4
    <3> QED BY <2>4, <3>1
  <2>5. CASE /\ s \notin alive /\ sock' = sock
             /\ cast' = [cast EXCEPT ![e].at = "walking", ![e].to = {}]
    BY <2>2, <2>5
  <2> QED BY <1>2, <2>3, <2>4, <2>5 DEF Sent
<1>4. /\ cast' \in [Events -> CastStates] /\ \A f \in Events \ {e} : cast'[f] = cast[f]
      /\ cast'[e].at = "walking" /\ cast'[e].list = cast[e].list /\ cast'[e].i = cast[e].i
      /\ cast'[e].to = {} /\ cast'[e].dead \subseteq cast[e].dead \cup ({s} \ alive)
  <2>1. PICK D \in {{}, {s} \ alive} :
            cast' = [cast EXCEPT ![e].at = "walking", ![e].to = {}, ![e].dead = @ \cup D]
    BY <1>3
  <2>2. PICK c : c = [cast[e] EXCEPT !.at = "walking", !.to = {}, !.dead = @ \cup D]
    OBVIOUS
  <2>3. /\ c \in CastStates /\ c.at = "walking" /\ c.list = cast[e].list /\ c.i = cast[e].i
        /\ c.to = {} /\ c.dead = cast[e].dead \cup D
    BY <2>2 DEF FeedTypes, CastStates
  <2>4. cast' = [cast EXCEPT ![e] = c]
    BY <2>1, <2>2 DEF FeedTypes, CastStates
  <2> QED BY <2>3, <2>4 DEF FeedTypes
<1>5. /\ \A f \in Events \ {e} : Targets(f)' = Targets(f) /\ Ahead(f)' = Ahead(f)
      /\ Members' = Members /\ Targets(e)' = Targets(e) /\ Amid' = Amid /\ e \in Amid
      /\ Ahead(e) = Ahead(e)' \cup {s} /\ Ahead(e)' = From(Targets(e), cast[e].i)
  BY <1>1, <1>2, <1>4 DEF Targets, Ahead, Amid, Members
<1>6. s \notin Ahead(e)' /\ s \in Ahead(e)
  <2>1. cast[e].to \cap From(Targets(e), cast[e].i) = {} /\ s \in cast[e].to
    BY <1>2 DEF CastInv, CastOK
  <2> HIDE DEF FeedInv
  <2> QED BY <1>5, <2>1
<1>7. sock[s] \in SockStates /\ sock[s].live \in Seq(Events) /\ e \notin ToSet(sock[s].live)
  BY <1>5, <1>6 DEF FeedTypes, SockStates, LiveInv
<1>8. /\ sock' \in [Sockets -> SockStates]
      /\ \A t \in Sockets : /\ sock'[t].at = sock[t].at /\ sock'[t].seen = sock[t].seen
                            /\ sock'[t].replay = sock[t].replay
      /\ \A t \in Sockets \ {s} : sock'[t].live = sock[t].live
      /\ s \in alive => sock'[s].live = Append(sock[s].live, e)
      /\ s \notin alive => sock'[s].live = sock[s].live
  <2>1. Append(sock[s].live, e) \in Seq(Events)
    BY <1>7
  <2>2. CASE s \in alive
    <3>1. PICK c : c = [sock[s] EXCEPT !.live = Append(sock[s].live, e)]
      OBVIOUS
    <3>2. /\ c \in SockStates /\ c.live = Append(sock[s].live, e) /\ c.at = sock[s].at
          /\ c.seen = sock[s].seen /\ c.replay = sock[s].replay
      BY <1>7, <2>1, <3>1 DEF SockStates
    <3>3. sock' = [sock EXCEPT ![s] = c]
      BY <1>3, <2>2, <3>1
    <3> QED BY <2>2, <3>2, <3>3 DEF FeedTypes
  <2>3. CASE s \notin alive
    BY <1>3, <2>3 DEF FeedTypes
  <2> QED BY <2>2, <2>3
<1>9. PICK q : q = Append(sock[s].live, e)
  OBVIOUS
<1>10. ToSet(q) = ToSet(sock[s].live) \cup {e} /\ (IsInjective(sock[s].live) => IsInjective(q))
  BY <1>7, <1>9, AppendGrows
<1>11. /\ \A t \in Sockets, f \in Events :
             /\ f \in ToSet(sock[t].live) => f \in ToSet(sock'[t].live)
             /\ f \in ToSet(sock'[t].live) => f \in ToSet(sock[t].live) \/ (f = e /\ t = s)
       /\ s \in alive => e \in ToSet(sock'[s].live)
  <2>1. CASE s \in alive
    <3>1. ToSet(sock'[s].live) = ToSet(sock[s].live) \cup {e}
      BY <1>8, <1>9, <1>10, <2>1
    <3> QED BY <1>8, <2>1, <3>1
  <2>2. CASE s \notin alive
    BY <1>8, <2>2
  <2> QED BY <2>1, <2>2
<1>12. FeedTypes'
  BY <1>1, <1>4, <1>8 DEF FeedTypes
<1>13. ListsInv'
  <2>1. s \in Sockets /\ ~At(s, "new")
    BY <1>2 DEF ListsInv
  <2> QED BY <1>1, <1>4, <1>8, <2>1 DEF ListsInv, At
<1>14. CastInv'
  <2>1. e \in ToSet(saved') /\ cast'[e].dead \cap alive' = {}
    BY <1>1, <1>4 DEF CastInv, CastOK
  <2>2. \A f \in Events \ {e} : cast'[f] = cast[f] /\ Targets(f)' = Targets(f)
    BY <1>4, <1>5
  <2>3. CastInv /\ saved' = saved /\ alive' = alive
    BY <1>1
  <2> HIDE DEF FeedInv
  <2>4. \A f \in Events \ {e} : CastOK(f)'
    BY <2>2, <2>3 DEF CastInv, CastOK
  <2>5. CastOK(e)'
    BY <1>4, <2>1 DEF CastOK
  <2> QED BY <2>4, <2>5 DEF CastInv, CastOK
<1>15. LiveInv'
  BY <1>4, <1>5, <1>6, <1>11 DEF LiveInv
<1>16. HaveInv'
  <2>1. SUFFICES ASSUME NEW t \in alive, NEW f \in Events, f \notin left,
                        sock[t].at \in {"replaying", "open"}
                 PROVE  \/ f \in sock[t].seen \cup ToSet(sock[t].replay) \cup ToSet(sock'[t].live)
                        \/ cast'[f].at \in {"idle", "saved"}
                        \/ f \in Amid' /\ t \in Ahead(f)'
    BY <1>1, <1>8 DEF HaveInv, FeedTypes
  <2>2. t \in Sockets
    BY DEF FeedTypes
  <2> QED BY <1>1, <1>4, <1>5, <1>11, <2>1, <2>2 DEF HaveInv
<1>17. OpenInv' /\ RoomIsLive'
  BY <1>1, <1>5, <1>8 DEF OpenInv, RoomIsLive, At
<1>18. SentOnce'
  BY <1>8, <1>9, <1>10 DEF SentOnce
<1> QED BY <1>12, <1>13, <1>14, <1>15, <1>16, <1>17, <1>18

LEMMA ConnectKeeps == ASSUME FeedInv, NEW s \in Sockets, Connect(s) PROVE FeedInv'
<1> USE DEF FeedInv
<1>1. /\ At(s, "new") /\ Joined(s) /\ sock' = [sock EXCEPT ![s].at = "joined"]
      /\ UNCHANGED <<saved, cast, alive, left>>
  BY DEF Connect, Goto
<1>2. /\ lists' \in [1..MaxLists -> Seq(Sockets)] /\ room' \in 1..MaxLists
      /\ \A n \in 1..MaxLists : IsInjective(lists'[n])
      /\ \A n \in 1..MaxLists : ToSet(lists'[n]) \subseteq ToSet(lists[n]) \cup {s}
      /\ ToSet(lists'[room']) = ToSet(Members) \cup {s}
      /\ \A e \in Events : cast[e].list # 0 => \A i \in Nat \ {0} :
            /\ From(lists[cast[e].list], i) \subseteq From(lists'[cast[e].list], i)
            /\ From(lists'[cast[e].list], i) \subseteq From(lists[cast[e].list], i) \cup {s}
  BY <1>1, JoinedGrows
<1>3. /\ sock' \in [Sockets -> SockStates] /\ \A t \in Sockets \ {s} : sock'[t] = sock[t]
      /\ sock'[s].at = "joined" /\ sock'[s].live = sock[s].live
  BY <1>1 DEF FeedTypes, SockStates
<1>4. ASSUME NEW e \in Events
      PROVE  LET i == cast[e].i
             IN  /\ From(Targets(e), i) \subseteq From(Targets(e)', i)
                 /\ From(Targets(e)', i) \subseteq From(Targets(e), i) \cup {s}
  <2>1. cast[e].i \in Nat \ {0} /\ cast'[e].list = cast[e].list
    BY <1>1 DEF FeedTypes, CastStates
  <2>2. CASE cast[e].list = 0
    BY <2>1, <2>2 DEF Targets
  <2>3. CASE cast[e].list # 0
    BY <1>2, <2>1, <2>3 DEF Targets
  <2> QED BY <2>2, <2>3
<1>5. /\ \A e \in Events : Ahead(e) \subseteq Ahead(e)' /\ Ahead(e)' \subseteq Ahead(e) \cup {s}
      /\ Amid' = Amid /\ ToSet(Members)' = ToSet(Members) \cup {s}
  <2>1. room' # 0 /\ Amid' = Amid
    BY <1>1, <1>2 DEF Amid
  <2>2. ToSet(Members)' = ToSet(Members) \cup {s}
    BY <1>2, <2>1 DEF Members
  <2>3. ASSUME NEW e \in Events
        PROVE  Ahead(e) \subseteq Ahead(e)' /\ Ahead(e)' \subseteq Ahead(e) \cup {s}
    BY <1>1, <1>4 DEF Ahead
  <2> QED BY <2>1, <2>2, <2>3
<1>6. sock[s].live = <<>> /\ ToSet(<<>>) = {} /\ \A e \in Events : s \notin cast[e].to
  BY <1>1 DEF ListsInv, ToSet
<1>7. FeedTypes'
  BY <1>1, <1>2, <1>3 DEF FeedTypes
<1>8. ListsInv'
  <2>1. ASSUME NEW t \in Sockets, sock'[t].at = "new" PROVE t # s /\ At(t, "new")
    BY <1>3, <2>1 DEF At
  <2> QED BY <1>1, <1>2, <1>3, <2>1 DEF ListsInv, At
<1>9. CastInv'
  <2>1. ASSUME NEW e \in Events PROVE cast'[e].to \cap From(Targets(e)', cast'[e].i) = {}
    BY <1>1, <1>4, <1>6 DEF CastInv, CastOK
  <2> QED BY <1>1, <2>1 DEF CastInv, CastOK
<1>10. \A t \in Sockets : sock'[t].live = sock[t].live
  BY <1>3
<1>11. LiveInv'
  BY <1>1, <1>5, <1>6, <1>10 DEF LiveInv
<1>12. HaveInv'
  <2>1. \A t \in alive : sock'[t].at \in {"replaying", "open"} => t # s
    BY <1>3
  <2>2. \A t \in alive : t \in Sockets
    BY DEF FeedTypes
  <2> QED BY <1>1, <1>3, <1>5, <2>1, <2>2 DEF HaveInv
<1>13. OpenInv' /\ SentOnce'
  BY <1>3, <1>10 DEF OpenInv, SentOnce, At
<1>14. RoomIsLive'
  BY <1>1, <1>3, <1>5 DEF RoomIsLive, At
<1> QED BY <1>7, <1>8, <1>9, <1>11, <1>12, <1>13, <1>14

\* What disconnect() does to a walk that is not the one that called it: nothing
\* new is ahead, and nothing is skipped unless the event is marked.
LEMMA WalksGoOn ==
    ASSUME FeedTypes, ListsInv, NEW D, NEW amid, amid \subseteq Events, Left(D, amid),
           NEW e \in Events, cast'[e] = cast[e]
    PROVE  /\ From(Targets(e)', cast[e].i) \subseteq From(Targets(e), cast[e].i)
           /\ Ahead(e)' \subseteq Ahead(e)
           /\ e \in amid /\ e \notin left' => Ahead(e)' = Ahead(e)
<1>1. /\ \A n \in 1..MaxLists : Shrunk(lists[n], lists'[n], IF n = room THEN D ELSE {})
      /\ left' = left \cup {f \in amid : cast[f].list = room /\ D \cap ToSet(Members) # {}}
  BY LeftShrinks
<1>2. cast[e].i \in Nat \ {0} /\ cast[e].list \in 0..MaxLists
  BY DEF FeedTypes, CastStates
<1>3. CASE cast[e].list = 0
  BY <1>3 DEF Targets, Ahead
<1>4. CASE cast[e].list # 0
  <2>1. PICK n \in 1..MaxLists : n = cast[e].list
    BY <1>2, <1>4
  <2>2. Targets(e) = lists[n] /\ Targets(e)' = lists'[n]
    BY <1>4, <2>1 DEF Targets
  <2>3. PICK G : G = IF n = room THEN D ELSE {}
    OBVIOUS
  <2>4. Shrunk(lists[n], lists'[n], G)
    BY <1>1, <2>3
  <2>5. From(lists'[n], cast[e].i) \subseteq From(lists[n], cast[e].i)
    BY <1>2, <2>4 DEF Shrunk
  <2>6. ASSUME e \in amid, e \notin left' PROVE From(lists'[n], cast[e].i) = From(lists[n], cast[e].i)
    <3>1. n = room => D \cap ToSet(lists[n]) = {}
      <4>1. SUFFICES ASSUME n = room, D \cap ToSet(lists[n]) # {} PROVE e \in left'
        BY <2>6
      <4>2. room # 0 /\ Members = lists[n]
        BY <2>1, <4>1 DEF Members
      <4>3. e \in {f \in amid : cast[f].list = room /\ D \cap ToSet(Members) # {}}
        BY <2>1, <2>6, <4>1, <4>2
      <4> QED BY <1>1, <4>3, Zenon
    <3>2. ToSet(lists[n]) \cap G = {}
      BY <2>3, <3>1
    <3> QED BY <1>2, <2>4, <3>2 DEF Shrunk
  <2>7. /\ Ahead(e) = From(lists[n], cast[e].i) \cup cast[e].to
        /\ Ahead(e)' = From(lists'[n], cast[e].i) \cup cast[e].to
    BY <2>2 DEF Ahead
  <2> QED BY <2>2, <2>5, <2>6, <2>7
<1> QED BY <1>3, <1>4

\* disconnect() of sockets whose browser is gone keeps what is known of lists
\* and of every broadcast but the one that called it.
LEMMA LeftKeeps ==
    ASSUME FeedTypes, ListsInv, CastInv, RoomIsLive, NEW D, NEW amid, amid \subseteq Events,
           Left(D, amid), D \cap alive = {}
    PROVE  /\ lists' \in [1..MaxLists -> Seq(Sockets)] /\ room' \in 0..MaxLists
           /\ left' \subseteq Events /\ left \subseteq left'
           /\ \A n \in 1..MaxLists : IsInjective(lists'[n]) /\ ToSet(lists'[n]) \subseteq ToSet(lists[n])
           /\ ToSet(Members)' = ToSet(Members) \ D
<1>1. /\ lists' \in [1..MaxLists -> Seq(Sockets)] /\ room' \in 0..MaxLists
      /\ \A n \in 1..MaxLists : Shrunk(lists[n], lists'[n], IF n = room THEN D ELSE {})
      /\ (IF room' = 0 THEN {} ELSE ToSet(lists'[room'])) = ToSet(Members) \ D
      /\ left' = left \cup {e \in amid : cast[e].list = room /\ D \cap ToSet(Members) # {}}
  BY LeftShrinks
<1>2. ToSet(Members') = IF room' = 0 THEN {} ELSE ToSet(lists'[room'])
  BY DEF Members, ToSet
<1>3. \A l, m, G : Shrunk(l, m, G) => IsInjective(m) /\ ToSet(m) \subseteq ToSet(l)
  BY DEF Shrunk
<1> QED BY <1>1, <1>2, <1>3 DEF FeedTypes

LEMMA NoticeKeeps == ASSUME FeedInv, NEW s \in Sockets, Notice(s) PROVE FeedInv'
<1> USE DEF FeedInv
<1>1. /\ sock[s].at \in {"replaying", "open"} /\ s \notin alive /\ Left({s}, Amid)
      /\ sock' = [sock EXCEPT ![s] = [at |-> "closed", replay |-> <<>>, seen |-> {}, live |-> <<>>]]
      /\ UNCHANGED <<saved, cast, alive>>
  BY DEF Notice, Ended
<1>2. Amid \subseteq Events /\ Amid' = Amid /\ {s} \cap alive = {}
  BY <1>1 DEF Amid
<1>3. /\ lists' \in [1..MaxLists -> Seq(Sockets)] /\ room' \in 0..MaxLists
      /\ left' \subseteq Events /\ left \subseteq left'
      /\ \A n \in 1..MaxLists : IsInjective(lists'[n]) /\ ToSet(lists'[n]) \subseteq ToSet(lists[n])
      /\ ToSet(Members)' = ToSet(Members) \ {s}
  BY <1>1, <1>2, LeftKeeps
<1>4. /\ sock' \in [Sockets -> SockStates] /\ \A t \in Sockets \ {s} : sock'[t] = sock[t]
      /\ sock'[s].at = "closed" /\ sock'[s].live = <<>> /\ sock'[s].replay = <<>>
  BY <1>1 DEF FeedTypes, SockStates
<1>5. ASSUME NEW e \in Events
      PROVE  /\ From(Targets(e)', cast[e].i) \subseteq From(Targets(e), cast[e].i)
             /\ Ahead(e)' \subseteq Ahead(e)
             /\ e \in Amid /\ e \notin left' => Ahead(e)' = Ahead(e)
  <2>1. cast'[e] = cast[e]
    BY <1>1
  <2> QED BY <1>1, <1>2, <2>1, WalksGoOn
<1>6. ToSet(<<>>) = {} /\ IsInjective(<<>>)
  BY DEF ToSet, IsInjective
<1>7. \A t \in Sockets : /\ sock'[t].at = "new" => At(t, "new")
                         /\ sock'[t].live \in {sock[t].live, <<>>}
  BY <1>4 DEF At
<1>8. FeedTypes'
  BY <1>1, <1>3, <1>4 DEF FeedTypes
<1>9. ListsInv'
  BY <1>1, <1>3, <1>7 DEF ListsInv, At
<1>10. CastInv'
  <2>1. \A e \in Events : cast'[e].to \cap From(Targets(e)', cast'[e].i) = {}
    BY <1>1, <1>5 DEF CastInv, CastOK
  <2> QED BY <1>1, <2>1 DEF CastInv, CastOK
<1>11. LiveInv'
  BY <1>1, <1>2, <1>5, <1>6, <1>7 DEF LiveInv
<1>12. HaveInv'
  <2>1. \A t \in alive : t \in Sockets \ {s}
    BY <1>1 DEF FeedTypes
  <2> QED BY <1>1, <1>2, <1>3, <1>4, <1>5, <2>1 DEF HaveInv
<1>13. OpenInv' /\ SentOnce'
  BY <1>4, <1>6, <1>7 DEF OpenInv, SentOnce, At
<1>14. RoomIsLive'
  BY <1>1, <1>3, <1>4 DEF RoomIsLive, At
<1> QED BY <1>8, <1>9, <1>10, <1>11, <1>12, <1>13, <1>14

LEMMA FinishKeeps == ASSUME FeedInv, NEW e \in Events, Finish(e) PROVE FeedInv'
<1> USE DEF FeedInv
<1>1. /\ cast[e].at = "walking" /\ cast[e].i > Len(Targets(e)) /\ Left(cast[e].dead, Amid \ {e})
      /\ cast' = [cast EXCEPT ![e] = [Idle EXCEPT !.at = "done"]]
      /\ UNCHANGED <<saved, sock, alive>>
  BY DEF Finish
<1>2. Amid \ {e} \subseteq Events /\ cast[e].dead \cap alive = {}
  BY DEF Amid, CastInv, CastOK
<1>3. /\ lists' \in [1..MaxLists -> Seq(Sockets)] /\ room' \in 0..MaxLists
      /\ left' \subseteq Events /\ left \subseteq left'
      /\ \A n \in 1..MaxLists : IsInjective(lists'[n]) /\ ToSet(lists'[n]) \subseteq ToSet(lists[n])
      /\ ToSet(Members)' = ToSet(Members) \ cast[e].dead
  BY <1>1, <1>2, LeftKeeps
<1>4. /\ cast' \in [Events -> CastStates] /\ \A f \in Events \ {e} : cast'[f] = cast[f]
      /\ cast'[e] = [Idle EXCEPT !.at = "done"]
  <2>1. Cardinality(Sockets) \in Nat /\ MaxLists \in Nat
    BY FeedAssumption, FS_CardinalityType
  <2>2. [Idle EXCEPT !.at = "done"] \in CastStates
    BY <2>1 DEF Idle, CastStates
  <2> QED BY <1>1, <2>2 DEF FeedTypes
<1>5. cast'[e].at = "done" /\ cast'[e].to = {} /\ cast'[e].dead = {} /\ Amid' = Amid \ {e}
  BY <1>4 DEF Idle, Amid
<1>6. ASSUME NEW f \in Events \ {e}
      PROVE  /\ From(Targets(f)', cast[f].i) \subseteq From(Targets(f), cast[f].i)
             /\ Ahead(f)' \subseteq Ahead(f)
             /\ f \in Amid /\ f \notin left' => Ahead(f)' = Ahead(f)
  <2>1. cast'[f] = cast[f]
    BY <1>4
  <2> QED BY <1>1, <1>2, <2>1, WalksGoOn
<1>7. Ahead(e) = {}
  <2>1. cast[e].i \in Nat \ {0} /\ cast[e].to = {}
    BY <1>1 DEF FeedTypes, CastStates, CastInv, CastOK
  <2>2. From(Targets(e), cast[e].i) = {}
    BY <1>1, <2>1, ListsAreWell, FromNext
  <2> QED BY <2>1, <2>2 DEF Ahead
<1>8. FeedTypes'
  BY <1>1, <1>3, <1>4 DEF FeedTypes
<1>9. ListsInv'
  <2>1. \A f \in Events : cast'[f].to \subseteq cast[f].to
    BY <1>4, <1>5
  <2> QED BY <1>1, <1>3, <2>1 DEF ListsInv, At
<1>10. CastInv'
  <2>1. \A f \in Events \ {e} : cast'[f].to \cap From(Targets(f)', cast'[f].i) = {}
    BY <1>4, <1>6 DEF CastInv, CastOK
  <2>2. e \in ToSet(saved')
    BY <1>1 DEF CastInv, CastOK
  <2> QED BY <1>1, <1>4, <1>5, <2>1, <2>2 DEF CastInv, CastOK
<1>11. LiveInv'
  BY <1>1, <1>4, <1>5, <1>6 DEF LiveInv
<1>12. HaveInv'
  <2>1. SUFFICES ASSUME NEW t \in alive, NEW f \in Events, f \notin left',
                        sock[t].at \in {"replaying", "open"}
                 PROVE  \/ f \in sock[t].seen \cup ToSet(sock[t].replay) \cup ToSet(sock[t].live)
                        \/ cast'[f].at \in {"idle", "saved"}
                        \/ f \in Amid' /\ t \in Ahead(f)'
    BY <1>1 DEF HaveInv
  <2>2. \/ f \in sock[t].seen \cup ToSet(sock[t].replay) \cup ToSet(sock[t].live)
        \/ cast[f].at \in {"idle", "saved"}
        \/ f \in Amid /\ t \in Ahead(f)
    BY <1>3, <2>1 DEF HaveInv
  <2>3. CASE f = e
    BY <1>1, <1>7, <2>2, <2>3
  <2>4. CASE f # e
    BY <1>4, <1>5, <1>6, <2>1, <2>2, <2>4
  <2> QED BY <2>3, <2>4
<1>13. OpenInv' /\ SentOnce'
  BY <1>1 DEF OpenInv, SentOnce, At
<1>14. RoomIsLive'
  BY <1>1, <1>2, <1>3 DEF RoomIsLive, At
<1> QED BY <1>8, <1>9, <1>10, <1>11, <1>12, <1>13, <1>14

LEMMA FeedKept == FeedInv /\ [FeedNext]_feedVars => FeedInv'
<1> SUFFICES ASSUME FeedInv, [FeedNext]_feedVars PROVE FeedInv'
  OBVIOUS
<1>1. ASSUME NEW s \in Sockets, ReadRecent(s) \/ Replay(s) \/ EndpointFails(s) \/ Hangup(s)
      PROVE  FeedInv'
  BY <1>1, EndpointMoves, SockMovesKeep DEF FeedInv
<1>2. CASE UNCHANGED feedVars
  BY <1>2 DEF feedVars, FeedInv, FeedTypes, ListsInv, CastInv, CastOK, LiveInv, HaveInv, OpenInv, SentOnce,
              RoomIsLive, At, Members, Targets, Ahead, Amid
<1> QED BY <1>1, <1>2, ConnectKeeps, NoticeKeeps, SaveKeeps, BroadcastKeeps, PickKeeps, SentKeeps,
           FinishKeeps DEF FeedNext

\* ws_manager.py and the /ws endpoint: for any number of dashboards and of
\* events, whoever joins and leaves while others are sent to, a dashboard gets
\* no event twice, misses one only when a socket left in the middle of its
\* broadcast, and the room is neither lost nor haunted.
THEOREM FeedHolds == FeedSpec => []EventsOnce
<1>1. FeedInv => EventsOnce
  <2> SUFFICES ASSUME FeedInv PROVE NoEventLost
    BY DEF FeedInv, EventsOnce
  <2>1. SUFFICES ASSUME NEW s \in alive, NEW e \in Events, At(s, "open"), cast[e].at = "done", e \notin left
                 PROVE  e \in sock[s].seen \cup ToSet(sock[s].live)
    BY DEF NoEventLost
  <2>2. e \in sock[s].seen \cup ToSet(sock[s].replay) \cup ToSet(sock[s].live)
    BY <2>1 DEF FeedInv, HaveInv, At, Amid
  <2>3. ToSet(sock[s].replay) = {}
    BY <2>1 DEF FeedInv, FeedTypes, OpenInv, At, ToSet
  <2> QED BY <2>2, <2>3
<1> QED BY <1>1, FeedStarts, FeedKept, PTL DEF FeedSpec

-----------------------------------------------------------------------------
(* 5. The three components side by side. *)

\* The types that each component's invariant has in it hold of whichever runs.
THEOREM EdgeTypeCorrect == EdgeSpec => []TypeOK
<1> DEFINE Inv == part \in Parts /\ FeedInv /\ HeartInv /\ LogInv
<1>1. EdgeInit => Inv
  BY FeedStarts, HeartStarts, LogStarts DEF EdgeInit
<1>2. Inv /\ [EdgeNext]_edgeVars => Inv'
  <2> SUFFICES ASSUME Inv, [EdgeNext]_edgeVars PROVE Inv'
    OBVIOUS
  <2>1. part' = part /\ [FeedNext]_feedVars /\ [HeartNext]_heartVars /\ [LogNext]_logVars
    BY Zenon DEF EdgeNext, edgeVars
  <2> QED BY <2>1, FeedKept, HeartKept, LogKept
<1>3. Inv => TypeOK
  <2> SUFFICES ASSUME Inv PROVE TypeOK
    OBVIOUS
  <2>1. FeedTypeOK
    <3>1. FeedTypes
      BY DEF FeedInv
    <3>2. \A S : \A q \in Seq(S) : ToSet(q) \subseteq S
      BY DEF ToSet
    <3> QED BY <3>1, <3>2 DEF FeedTypes, FeedTypeOK, SockStates, CastStates
  <2>2. HeartTypeOK
    BY DEF HeartInv
  <2>3. LogTypeOK
    <3>1. LogTypes /\ BuffersInv
      BY DEF LogInv
    <3>2. ASSUME NEW s \in Sources PROVE Cardinality(buffers[s]) <= MaxBuffer
      <4>1. CASE buffers[s] = {}
        BY <4>1, FS_EmptySet, LogAssumption
      <4>2. CASE buffers[s] # {}
        <5>1. PICK i \in 1..Len(log) : Open(log, s, i)
          BY <3>1, <4>2 DEF BuffersInv
        <5>2. buffers[s] = Lines(log, s, i, Len(log))
          BY <3>1, <5>1 DEF BuffersInv
        <5>3. Cardinality(Lines(log, s, i, Len(log))) <= MaxBuffer
          BY <5>1 DEF Open
        <5> QED BY <5>2, <5>3, Zenon
      <4> QED BY <4>1, <4>2
    <3> QED BY <3>1, <3>2 DEF LogTypes, LogTypeOK
  <2> QED BY <2>1, <2>2, <2>3 DEF TypeOK
<1> HIDE DEF Inv
<1> QED BY <1>1, <1>2, <1>3, PTL DEF EdgeSpec

===============================================================================
