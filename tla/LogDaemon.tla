----------------------------- MODULE LogDaemon -----------------------------
(***************************************************************************)
(* daemon/log_reader.py: the lines of a log go one by one through          *)
(* process_line(), which posts each as an event, starts a task that        *)
(* interprets an error, and buffers tracebacks per source until their last *)
(* line, when another task posts them to /rca/trigger.                     *)
(***************************************************************************)
EXTENDS Naturals, FiniteSets, Sequences

CONSTANTS
    Sources,    \* what lines name as their source, the --source label included
    MaxBuffer,  \* _MAX_TB_LINES
    MaxLog      \* bound: lines that are read

ASSUME LogAssumption == MaxBuffer \in Nat \ {0} /\ MaxLog \in Nat

\* "start" is the header, "body" a frame or another indented line, "noisy" such a
\* line in which pattern_matcher sees an error (source code that says "timeout"),
\* "end" an exception line (indented or not), "error" another line that is taken
\* for an error, "other" anything else.
Kinds == {"start", "body", "noisy", "end", "error", "other"}
Body == {"body", "noisy"}
\* classify(): a header and an exception line are errors whatever their level.
IsError(kind) == kind \in {"start", "noisy", "end", "error"}

VARIABLES
    log,        \* the lines read so far: <<kind, source>>
    buffers,    \* _tb_buffers: source -> positions of the lines it holds, in their order
    posts,      \* tasks that have to post a traceback, as positions of its lines
    notes,      \* tasks that interpret the line at a position
    reported,   \* tracebacks that were posted, reachable or not
    noted,      \* lines whose interpretation was sent, 404 or not
    mode        \* "reading", "draining" at the end of stdin, "ended" or "interrupted"

logVars == <<log, buffers, posts, notes, reported, noted, mode>>

LogInit ==
    /\ log = <<>>
    /\ buffers = [s \in Sources |-> {}]
    /\ posts = {}
    /\ notes = {}
    /\ reported = {}
    /\ noted = {}
    /\ mode = "reading"

\* Mutant: the buffer has no limit.
HandleTracebackUnlimited(buf, kind, n) ==
    CASE kind = "start" -> [buf |-> {n}, whole |-> {}]
      [] kind # "start" /\ buf = {} -> [buf |-> {}, whole |-> {}]
      [] kind = "end" /\ buf # {} -> [buf |-> {}, whole |-> {buf \cup {n}}]
      [] kind \in Body /\ buf # {} -> [buf |-> buf \cup {n}, whole |-> {}]
      [] kind \in {"error", "other"} /\ buf # {} -> [buf |-> {}, whole |-> {}]
\* Mutant: the buffer that is full is handed in as it is.
HandleTracebackCut(buf, kind, n) ==
    CASE kind = "start" -> [buf |-> {n}, whole |-> {}]
      [] kind # "start" /\ buf = {} -> [buf |-> {}, whole |-> {}]
      [] kind = "end" /\ buf # {} -> [buf |-> {}, whole |-> {buf \cup {n}}]
      [] kind \in Body /\ buf # {} ->
            IF Cardinality(buf \cup {n}) > MaxBuffer THEN [buf |-> {}, whole |-> {buf \cup {n}}]
                                                    ELSE [buf |-> buf \cup {n}, whole |-> {}]
      [] kind \in {"error", "other"} /\ buf # {} -> [buf |-> {}, whole |-> {}]
\* _handle_traceback(): the buffer after a line, and the traceback it completes.
HandleTraceback(buf, kind, n) ==
    CASE kind = "start" -> [buf |-> {n}, whole |-> {}]
      [] kind # "start" /\ buf = {} -> [buf |-> {}, whole |-> {}]
      [] kind = "end" /\ buf # {} -> [buf |-> {}, whole |-> {buf \cup {n}}]
      [] kind \in Body /\ buf # {} ->
            [buf |-> IF Cardinality(buf \cup {n}) > MaxBuffer THEN {} ELSE buf \cup {n}, whole |-> {}]
      [] kind \in {"error", "other"} /\ buf # {} -> [buf |-> {}, whole |-> {}]

\* process_line(): the event is posted and awaited, whatever the answer, before
\* a task is made for the line.
ProcessLine(kind, s) ==
    LET n == Len(log) + 1
        h == HandleTraceback(buffers[s], kind, n)
    IN
    /\ mode = "reading"
    /\ n <= MaxLog
    /\ log' = Append(log, <<kind, s>>)
    /\ notes' = IF IsError(kind) THEN notes \cup {n} ELSE notes
    /\ buffers' = [buffers EXCEPT ![s] = h.buf]
    /\ posts' = posts \cup h.whole
    /\ UNCHANGED <<reported, noted, mode>>

\* _post_rca_trigger(): the tasks run in any order, and put up with a backend
\* that does not answer.
PostRcaTrigger ==
    \E t \in posts :
        /\ posts' = posts \ {t}
        /\ reported' = reported \cup {t}
        /\ UNCHANGED <<log, buffers, notes, noted, mode>>

\* _interpret_and_update(): an LLM that fails is replaced by a fixed sentence.
InterpretAndUpdate ==
    \E n \in notes :
        /\ notes' = notes \ {n}
        /\ noted' = noted \cup {n}
        /\ UNCHANGED <<log, buffers, posts, reported, mode>>

\* read_stdin(): at the end of the file the tasks are gathered.
EndOfFile ==
    /\ mode = "reading"
    /\ mode' = "draining"
    /\ UNCHANGED <<log, buffers, posts, notes, reported, noted>>
Gathered ==
    /\ mode = "draining"
    /\ posts = {} /\ notes = {}
    /\ mode' = "ended"
    /\ UNCHANGED <<log, buffers, posts, notes, reported, noted>>

\* KeyboardInterrupt cancels what still runs.
Interrupt ==
    /\ mode \in {"reading", "draining"}
    /\ mode' = "interrupted"
    /\ posts' = {} /\ notes' = {}
    /\ UNCHANGED <<log, buffers, reported, noted>>

LogNext ==
    \/ \E kind \in Kinds, s \in Sources : ProcessLine(kind, s)
    \/ PostRcaTrigger \/ InterpretAndUpdate \/ EndOfFile \/ Gathered \/ Interrupt

LogSpec == LogInit /\ [][LogNext]_logVars

-----------------------------------------------------------------------------
LogTypeOK ==
    /\ Len(log) <= MaxLog
    /\ \A s \in Sources : Cardinality(buffers[s]) <= MaxBuffer
    /\ notes \cup noted \subseteq 1..Len(log)
    /\ mode \in {"reading", "draining", "ended", "interrupted"}

\* Reference: a header, lines of its source that are all body and fit into the
\* buffer with it, and an exception line of that source.
LinesOf(s, i, j) == {n \in i..j : log[n][2] = s}
IsWhole(s, i, j) ==
    /\ i < j
    /\ log[i] = <<"start", s>> /\ log[j] = <<"end", s>>
    /\ \A k \in LinesOf(s, i, j) \ {i, j} : log[k][1] \in Body
    /\ Cardinality(LinesOf(s, i, j)) <= MaxBuffer + 1
WholeTracebacks ==
    {t \in SUBSET (1..Len(log)) : \E s \in Sources, i, j \in 1..Len(log) : IsWhole(s, i, j) /\ t = LinesOf(s, i, j)}

\* However the lines of several sources are mixed, the tracebacks handed to the
\* pipeline are the whole ones of the log: none is cut, stitched together from
\* two, or, unless the daemon is interrupted, left out (log_reader.py,
\* _handle_traceback() and its limit).
TracebacksFound ==
    /\ reported \cup posts \subseteq WholeTracebacks
    /\ mode # "interrupted" => WholeTracebacks \subseteq reported \cup posts

\* A daemon that comes to the end of its input has posted every traceback and
\* explained every error line (log_reader.py, read_stdin() gathers the tasks).
EndLosesNothing ==
    mode = "ended" =>
        /\ reported = WholeTracebacks
        /\ \A n \in 1..Len(log) : IsError(log[n][1]) => n \in noted

\* A log is answered by what is in it, during the run and at its end
\* (log_reader.py).
LogIsAnswered == TracebacksFound /\ EndLosesNothing

=============================================================================
