----------------------------- MODULE Heartbeat -----------------------------
(***************************************************************************)
(* instrumentation/heartbeat.py: the thread that pings the backend, the    *)
(* init() and shutdown() of the application that start and stop it, and    *)
(* the key with a TTL by which the backend shows the agent as up.          *)
(***************************************************************************)
EXTENDS Naturals

CONSTANTS
    Interval,   \* seconds between two pings
    Timeout,    \* seconds a ping that fails takes at most
    Ttl,        \* the lifetime of the agent's key in the store
    MaxHearts   \* bound: threads that are started

\* The code has 15, 3 and 90 seconds: five intervals and the four timeouts
\* between them fit into the lifetime of the key.
ASSUME HeartAssumption == /\ Interval \in Nat \ {0}
                          /\ Timeout \in Nat \ {0}
                          /\ Ttl \in Nat /\ 5 * Interval + 4 * Timeout < Ttl
                          /\ MaxHearts \in Nat

Hearts == 1..MaxHearts
Many == 6
More(n) == IF n = Many THEN Many ELSE n + 1

VARIABLES
    heart,          \* _thread: the last thread made, or 0
    beat,           \* thread -> "new", "check", "post", "wait" or "dead"
    stop,           \* _stop is set
    app,            \* what the application's thread is about to do
    initialized,    \* _initialized
    age,            \* seconds since the backend was last pinged; Ttl when it has no key
    rest,           \* seconds the waiting thread has left
    missed,         \* pings that failed since one of this thread arrived; Many of them, or none arrived
    late            \* history: the last init() met a thread that was told to stop

heartVars == <<heart, beat, stop, app, initialized, age, rest, missed, late>>

HeartInit ==
    /\ heart = 0
    /\ beat = [h \in Hearts |-> "new"]
    /\ stop = FALSE
    /\ app = "ready"
    /\ initialized = FALSE
    /\ age = Ttl
    /\ rest = 0
    /\ missed = Many
    /\ late = FALSE

IsAlive == heart # 0 /\ beat[heart] # "dead"

\* init() up to start(); a second init() returns at once.
Init_ ==
    /\ app = "ready"
    /\ ~initialized
    /\ heart < MaxHearts
    /\ app' = "starting"
    /\ UNCHANGED <<heart, beat, stop, initialized, age, rest, missed, late>>

\* start(): "Idempotent" -- it leaves a thread that lives alone.
StartSeesAlive ==
    /\ app = "starting"
    /\ IsAlive
    /\ late' = stop
    /\ initialized' = TRUE
    /\ app' = "ready"
    /\ UNCHANGED <<heart, beat, stop, age, rest, missed>>

\* Mutant: start() does not ask whether the thread lives.
StartAlways ==
    /\ app = "starting"
    /\ stop' = FALSE
    /\ app' = "cleared"
    /\ UNCHANGED <<heart, beat, initialized, age, rest, missed, late>>
StartClears ==
    /\ app = "starting"
    /\ ~IsAlive
    /\ stop' = FALSE
    /\ app' = "cleared"
    /\ UNCHANGED <<heart, beat, initialized, age, rest, missed, late>>

StartThread ==
    /\ app = "cleared"
    /\ heart' = heart + 1
    /\ beat' = [beat EXCEPT ![heart + 1] = "check"]
    /\ late' = FALSE
    /\ initialized' = TRUE
    /\ app' = "ready"
    /\ missed' = Many
    /\ UNCHANGED <<stop, age, rest>>

\* shutdown(): stop() does not wait for the thread.
Shutdown ==
    /\ app = "ready"
    /\ initialized
    /\ stop' = TRUE
    /\ initialized' = FALSE
    /\ UNCHANGED <<heart, beat, app, age, rest, missed, late>>

-----------------------------------------------------------------------------
\* _loop()

Look(h) ==
    /\ beat[h] = "check"
    /\ beat' = [beat EXCEPT ![h] = IF stop THEN "dead" ELSE "post"]
    /\ UNCHANGED <<heart, stop, app, initialized, age, rest, missed, late>>

\* Time passes for the key as well; past its TTL it is gone.
Older(d) == IF age + d >= Ttl THEN Ttl ELSE age + d

Ping(h) ==
    /\ beat[h] = "post"
    /\ age' = 0
    /\ missed' = 0
    /\ rest' = Interval
    /\ beat' = [beat EXCEPT ![h] = "wait"]
    /\ UNCHANGED <<heart, stop, app, initialized, late>>

\* Refused at once, or given up after the timeout.
PingFails(h) ==
    /\ beat[h] = "post"
    /\ \E d \in {0, Timeout} : age' = Older(d)
    /\ missed' = More(missed)
    /\ rest' = Interval
    /\ beat' = [beat EXCEPT ![h] = "wait"]
    /\ UNCHANGED <<heart, stop, app, initialized, late>>

\* _stop.wait(interval) returns after the interval, or as soon as stop is set.
Waited(h) ==
    /\ beat[h] = "wait"
    /\ rest = 0 \/ stop
    /\ beat' = [beat EXCEPT ![h] = "check"]
    /\ UNCHANGED <<heart, stop, app, initialized, age, rest, missed, late>>

\* A step of the clock; a thread that can go on does not let time pass.
Tick ==
    /\ \E h \in Hearts : beat[h] = "wait"
    /\ rest > 0
    /\ ~stop
    /\ rest' = 0
    /\ age' = Older(rest)
    /\ UNCHANGED <<heart, beat, stop, app, initialized, missed, late>>

HeartNext ==
    \/ Init_ \/ StartSeesAlive \/ StartClears \/ StartThread \/ Shutdown \/ Tick
    \/ \E h \in Hearts : Look(h) \/ Ping(h) \/ PingFails(h) \/ Waited(h)

HeartSpec == HeartInit /\ [][HeartNext]_heartVars

-----------------------------------------------------------------------------
HeartTypeOK ==
    /\ heart \in 0..MaxHearts
    /\ beat \in [Hearts -> {"new", "check", "post", "wait", "dead"}]
    /\ stop \in BOOLEAN /\ initialized \in BOOLEAN /\ late \in BOOLEAN
    /\ app \in {"ready", "starting", "cleared"}
    /\ age \in 0..Ttl
    /\ rest \in 0..Interval
    /\ missed \in 0..Many

\* However init() and shutdown() follow each other, one thread at most pings
\* (heartbeat.py, start(): the alive check and the stop event it shares).
OneHeart ==
    \A g, h \in Hearts :
        beat[g] \in {"check", "post", "wait"} /\ beat[h] \in {"check", "post", "wait"} => g = h

\* An application that is initialized has a thread that beats and was not told
\* to stop, unless its init() came while the thread of the session before was
\* still on its way out (heartbeat.py, start() after stop()).
ActiveBeats == initialized /\ ~late => IsAlive /\ ~stop

\* Four pings in a row may fail before an agent that runs is shown as down
\* (heartbeat.py, INTERVAL and TIMEOUT; store.py, save_heartbeat()'s ttl).
FewFailuresUnseen == missed <= 4 => age < Ttl

\* An agent is shown as what it is: by one thread, while it is initialized, and
\* in spite of a few pings that fail (heartbeat.py; store.py, save_heartbeat()).
AgentIsShown == OneHeart /\ ActiveBeats /\ FewFailuresUnseen

=============================================================================
