------------------------------- MODULE Emitter -------------------------------
(***************************************************************************)
(* instrumentation/emitter.py: the SDK's delivery of events.  Any thread   *)
(* of the user's program may emit; a bounded queue and one background      *)
(* thread carry the events to the backend.  The worker is started on       *)
(* demand under a threading.Lock, and told to stop by an Event that        *)
(* shutdown() sets and nothing clears.  These are preemptive threads: each *)
(* read or write of what they share is an action of its own.               *)
(***************************************************************************)
EXTENDS Naturals, Sequences

CONSTANTS
    Producers,      \* the user's threads
    MaxEvents,      \* bound: events a producer emits
    Capacity,       \* maxsize of the queue
    Workers,        \* the threads that may be constructed, numbered in that order
    MaxShutdowns,   \* bound: explicit calls of shutdown()
    None

\* What one producer emits is told apart by its position.
Events == Producers \X (1 .. MaxEvents)

ASSUME EmitterAssumption ==
    /\ Workers \subseteq Nat
    /\ None \notin Producers \cup Workers \cup Events
    /\ MaxEvents \in Nat
    /\ Capacity \in Nat \ {0}
    /\ MaxShutdowns \in Nat

VARIABLES
    queue,
    thread,     \* the global _thread, or None
    wpc,        \* worker -> where it is
    load,       \* worker -> the event it took, or None
    lock,       \* owner of _lock
    pc,         \* producer -> where it is in emit()
    emitted,    \* producer -> events it has begun to emit
    shutdown,   \* the Event _shutdown
    atexit,     \* _atexit_registered
    main,       \* where the thread is that calls shutdown() and ends the process
    joined,     \* the worker it waits for
    calls,      \* explicit calls of shutdown() so far
    exiting,    \* the shutdown() under way is the one atexit runs
    late,       \* history: the last join timed out
    broken,     \* history: a worker died because its HTTP client did not open
    promised,   \* history: events queued before the first shutdown
    sent        \* history: events that were POSTed, successfully or not

client == <<pc, emitted, lock, thread, atexit>>
owner == <<main, joined, calls, exiting, late, shutdown>>
history == <<broken, promised, sent>>
vars == <<queue, wpc, load, client, owner, history>>

Init ==
    /\ queue = <<>>
    /\ thread = None
    /\ wpc = [w \in Workers |-> "unborn"]
    /\ load = [w \in Workers |-> None]
    /\ lock = None
    /\ pc = [p \in Producers |-> "idle"]
    /\ emitted = [p \in Producers |-> 0]
    /\ shutdown = FALSE
    /\ atexit = FALSE
    /\ main = "running"
    /\ joined = None
    /\ calls = 0
    /\ exiting = FALSE
    /\ late = FALSE
    /\ broken = FALSE
    /\ promised = {}
    /\ sent = {}

\* Thread.is_alive of the global: a constructed thread is not alive until it
\* was started.
Alive == thread # None /\ wpc[thread] \notin {"unborn", "made", "dead"}

GoProducer(p, from, to) == pc[p] = from /\ pc' = [pc EXCEPT ![p] = to]
GoWorker(w, from, to) == wpc[w] = from /\ wpc' = [wpc EXCEPT ![w] = to]

Fresh(w) == \A v \in Workers : v < w => wpc[v] # "unborn"

-----------------------------------------------------------------------------
(* emit() and emit_log() *)

\* _ensure_started: the first look, without the lock.  The interpreter joins
\* the producers before it runs atexit callbacks.
Emit(p) ==
    /\ ~exiting
    /\ emitted[p] < MaxEvents
    /\ GoProducer(p, "idle", IF Alive THEN "put" ELSE "lock")
    /\ emitted' = [emitted EXCEPT ![p] = @ + 1]
    /\ UNCHANGED <<queue, wpc, load, lock, thread, atexit, owner, history>>

Acquire(p) ==
    /\ GoProducer(p, "lock", "locked")
    /\ lock = None
    /\ lock' = p
    /\ UNCHANGED <<queue, wpc, load, emitted, thread, atexit, owner, history>>

\* The second look, under the lock ...
SeeAlive(p) ==
    /\ Alive
    /\ GoProducer(p, "locked", "put")
    /\ lock' = None
    /\ UNCHANGED <<queue, wpc, load, emitted, thread, atexit, owner, history>>

\* Mutant: the second look is missing.
ConstructAnyway(p) ==
    /\ GoProducer(p, "locked", "start")
    /\ \E w \in Workers :
        /\ Fresh(w)
        /\ GoWorker(w, "unborn", "made")
        /\ thread' = w
    /\ UNCHANGED <<queue, load, emitted, lock, atexit, owner, history>>

\* ... and the construction of a new thread when there is none.
Construct(p) ==
    /\ ~Alive
    /\ GoProducer(p, "locked", "start")
    /\ \E w \in Workers :
        /\ Fresh(w)
        /\ GoWorker(w, "unborn", "made")
        /\ thread' = w
    /\ UNCHANGED <<queue, load, emitted, lock, atexit, owner, history>>

\* Thread.start; atexit.register; the lock is released.
Start(p) ==
    /\ GoProducer(p, "start", "put")
    /\ wpc' = [wpc EXCEPT ![thread] = "open"]
    /\ atexit' = TRUE
    /\ lock' = None
    /\ UNCHANGED <<queue, load, emitted, thread, owner, history>>

\* put_nowait; a full queue drops the event.
Put(p) ==
    /\ GoProducer(p, "put", "idle")
    /\ IF Len(queue) < Capacity
       THEN /\ queue' = Append(queue, <<p, emitted[p]>>)
            /\ promised' = IF shutdown THEN promised
                           ELSE promised \cup {<<p, emitted[p]>>}
       ELSE UNCHANGED <<queue, promised>>
    /\ UNCHANGED <<wpc, load, emitted, lock, thread, atexit, owner, broken, sent>>

ProducerStep(p) ==
    Emit(p) \/ Acquire(p) \/ SeeAlive(p) \/ Construct(p) \/ Start(p) \/ Put(p)

-----------------------------------------------------------------------------
(* _worker *)

ClientOpens(w) ==
    /\ GoWorker(w, "open", "check")
    /\ UNCHANGED <<queue, load, client, owner, history>>

\* httpx.Client(...) raises (proxy or certificate settings): the thread ends.
ClientFails(w) ==
    /\ GoWorker(w, "open", "dead")
    /\ broken' = TRUE
    /\ UNCHANGED <<queue, load, client, owner, promised, sent>>

\* The loop condition reads the Event first ...
Check(w) ==
    /\ GoWorker(w, "check", IF shutdown THEN "empty" ELSE "get")
    /\ UNCHANGED <<queue, load, client, owner, history>>

\* Mutant: the loop stops at the Event, whatever is queued.
EmptyIgnored(w) ==
    /\ GoWorker(w, "empty", "exit")
    /\ UNCHANGED <<queue, load, client, owner, history>>

\* ... and then the queue.
Empty(w) ==
    /\ GoWorker(w, "empty", IF queue = <<>> THEN "exit" ELSE "get")
    /\ UNCHANGED <<queue, load, client, owner, history>>

Get(w) ==
    /\ queue # <<>>
    /\ GoWorker(w, "get", "post")
    /\ load' = [load EXCEPT ![w] = Head(queue)]
    /\ queue' = Tail(queue)
    /\ UNCHANGED <<client, owner, history>>

\* get(timeout=0.2) raises queue.Empty.
GetTimesOut(w) ==
    /\ queue = <<>>
    /\ GoWorker(w, "get", "check")
    /\ UNCHANGED <<queue, load, client, owner, history>>

\* Mutant: a failed POST is retried later, from the end of the queue.
PostRetried(w) ==
    /\ GoWorker(w, "post", "check")
    /\ load' = [load EXCEPT ![w] = None]
    /\ \/ /\ sent' = sent \cup {load[w]}
          /\ UNCHANGED queue
       \/ /\ queue' = Append(queue, load[w])
          /\ UNCHANGED sent
    /\ UNCHANGED <<client, owner, broken, promised>>

\* _post makes one attempt and swallows every error.
Post(w) ==
    /\ GoWorker(w, "post", "check")
    /\ load' = [load EXCEPT ![w] = None]
    /\ sent' = sent \cup {load[w]}
    /\ UNCHANGED <<queue, client, owner, broken, promised>>

\* The client is closed and the thread ends; until then it is alive.
End(w) ==
    /\ GoWorker(w, "exit", "dead")
    /\ UNCHANGED <<queue, load, client, owner, history>>

WorkerStep(w) ==
    \/ ClientOpens(w) \/ ClientFails(w) \/ Check(w) \/ Empty(w)
    \/ Get(w) \/ GetTimesOut(w) \/ Post(w) \/ End(w)

-----------------------------------------------------------------------------
(* shutdown(), called by the program or by atexit *)

Shutdown ==
    /\ main = "running"
    /\ calls < MaxShutdowns
    /\ calls' = calls + 1
    /\ shutdown' = TRUE
    /\ main' = "flush"
    /\ UNCHANGED <<queue, wpc, load, client, joined, exiting, late, history>>

\* The program ends.  Without a registered callback the daemon thread just dies.
Exit ==
    /\ main = "running"
    /\ \A p \in Producers : pc[p] = "idle"
    /\ exiting' = TRUE
    /\ IF atexit
       THEN /\ shutdown' = TRUE
            /\ main' = "flush"
       ELSE /\ main' = "exited"
            /\ UNCHANGED shutdown
    /\ UNCHANGED <<queue, wpc, load, client, joined, calls, late, history>>

Return == main' = IF exiting THEN "exited" ELSE "running"

\* Mutant: only the Event is set.
NoJoin ==
    /\ main = "flush"
    /\ late' = FALSE
    /\ Return
    /\ UNCHANGED <<queue, wpc, load, client, joined, calls, exiting, shutdown, history>>

Join ==
    /\ main = "flush"
    /\ Alive
    /\ main' = "join"
    /\ joined' = thread
    /\ UNCHANGED <<queue, wpc, load, client, calls, exiting, late, shutdown, history>>

NothingToJoin ==
    /\ main = "flush"
    /\ ~Alive
    /\ late' = FALSE
    /\ Return
    /\ UNCHANGED <<queue, wpc, load, client, joined, calls, exiting, shutdown, history>>

JoinReturns ==
    /\ main = "join"
    /\ wpc[joined] = "dead"
    /\ late' = FALSE
    /\ joined' = None
    /\ Return
    /\ UNCHANGED <<queue, wpc, load, client, calls, exiting, shutdown, history>>

JoinTimesOut ==
    /\ main = "join"
    /\ late' = TRUE
    /\ joined' = None
    /\ Return
    /\ UNCHANGED <<queue, wpc, load, client, calls, exiting, shutdown, history>>

MainStep ==
    Shutdown \/ Exit \/ Join \/ NothingToJoin \/ JoinReturns \/ JoinTimesOut

-----------------------------------------------------------------------------
\* When the process is gone, so are its threads.
Next ==
    /\ main # "exited"
    /\ \/ \E p \in Producers : ProducerStep(p)
       \/ \E w \in Workers : WorkerStep(w)
       \/ MainStep

Spec == Init /\ [][Next]_vars

\* The operating system runs a thread that can run.
FairSpec ==
    Spec /\ \A w \in Workers : WF_vars(main # "exited" /\ WorkerStep(w))

-----------------------------------------------------------------------------
TypeOK ==
    /\ queue \in Seq(Events)
    /\ Len(queue) <= Capacity
    /\ thread \in Workers \cup {None}
    /\ wpc \in [Workers -> {"unborn", "made", "open", "check", "empty", "get",
                            "post", "exit", "dead"}]
    /\ load \in [Workers -> Events \cup {None}]
    /\ lock \in Producers \cup {None}
    /\ pc \in [Producers -> {"idle", "lock", "locked", "start", "put"}]
    /\ emitted \in [Producers -> 0 .. MaxEvents]
    /\ main \in {"running", "flush", "join", "exited"}
    /\ joined \in Workers \cup {None}
    /\ calls \in 0 .. MaxShutdowns
    /\ shutdown \in BOOLEAN /\ atexit \in BOOLEAN /\ exiting \in BOOLEAN
    /\ late \in BOOLEAN /\ broken \in BOOLEAN
    /\ promised \in SUBSET Events
    /\ sent \in SUBSET Events

\* "A single background thread": however many producers find the worker
\* missing at once, and however often it dies and is replaced, no two workers
\* run at the same time, a started one is always the one shutdown() joins.
OneWorker ==
    \A w \in Workers : wpc[w] \notin {"unborn", "dead"} => w = thread

PostsInOrder ==
    \A p \in Producers, i, j \in 1 .. MaxEvents :
        <<p, i>> \in sent' \ sent /\ <<p, j>> \in sent => j < i

\* The backend sees the events of a producer in the order it emitted them
\* (a stuck-run detector that sees an end before its start would report a
\* stall), and none of them twice.
InOrder == [][PostsInOrder]_vars

\* "Flush remaining events": when shutdown(), or the process, returns without
\* a timeout, everything queued before the first shutdown() was POSTed.
Flushed ==
    /\ main = "exited" \/ (main = "running" /\ shutdown)
    /\ ~late
    /\ ~broken
    => promised \subseteq sent

\* Whatever is queued before the first shutdown is POSTed in the end, unless
\* the process ends or the HTTP client cannot be opened.
QueuedIsPosted ==
    \A e \in Events : e \in promised ~> (e \in sent \/ broken \/ main = "exited")

=============================================================================
