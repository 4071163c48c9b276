-------------------------------- MODULE Gate --------------------------------
(***************************************************************************)
(* backend/deps.py: the per-minute limit on ingest requests, counted in a  *)
(* Redis bucket that two calls count and expire, and the ticket that opens *)
(* a websocket, which two calls read and delete.                           *)
(***************************************************************************)
EXTENDS Naturals, FiniteSets

CONSTANTS
    Calls,          \* ingest requests
    Minutes,        \* bound: 1..n, the minutes of a behaviour
    RateLimit,      \* INGEST_RATE_LIMIT_PER_MIN
    Openers,        \* websocket handshakes that present the one ticket
    MaxRestarts     \* bound

ASSUME GateAssumption == /\ IsFiniteSet(Calls)
                         /\ Minutes \subseteq Nat \ {0} /\ 1 \in Minutes
                         /\ RateLimit \in Nat /\ MaxRestarts \in Nat

VARIABLES
    minute,         \* the wall clock
    count,          \* bucket of a minute -> requests counted, 0 when it is gone
    expiring,       \* buckets that have a TTL
    call,           \* ingest request -> [at, bucket, n]
    ticket,         \* "none", "live" or "gone": the key of the ticket's nonce
    opener,         \* handshake -> [at, after]: after, it began when the ticket was used
    restarts

gateVars == <<minute, count, expiring, call, ticket, opener, restarts>>

NoCall == [at |-> "new", bucket |-> 0, n |-> 0]

GateInit ==
    /\ minute = 1
    /\ count = [m \in Minutes |-> 0]
    /\ expiring = {}
    /\ call = [c \in Calls |-> NoCall]
    /\ ticket = "none"
    /\ opener = [o \in Openers |-> [at |-> "new", after |-> FALSE]]
    /\ restarts = 0

Calling(c, where) == call[c].at = where

-----------------------------------------------------------------------------
\* _rate_limit_ingest()

\* The bucket is named after the minute at which the request looks at the clock.
Arrive(c) ==
    /\ Calling(c, "new")
    /\ call' = [call EXCEPT ![c].at = "count", ![c].bucket = minute]
    /\ UNCHANGED <<minute, count, expiring, ticket, opener, restarts>>

\* Mutant: the count is read, and written back by the next call.
ReadCount(c) ==
    \/ /\ Calling(c, "count")
       /\ call' = [call EXCEPT ![c].at = "write", ![c].n = count[call[c].bucket] + 1]
       /\ UNCHANGED <<minute, count, expiring, ticket, opener, restarts>>
    \/ /\ Calling(c, "write")
       /\ count' = [count EXCEPT ![call[c].bucket] = call[c].n]
       /\ call' = [call EXCEPT ![c].at = "expire"]
       /\ UNCHANGED <<minute, expiring, ticket, opener, restarts>>
\* incr, which Redis does in one step.
Incr(c) ==
    LET n == count[call[c].bucket] + 1 IN
    /\ Calling(c, "count")
    /\ count' = [count EXCEPT ![call[c].bucket] = n]
    /\ call' = [call EXCEPT ![c].at = "expire", ![c].n = n]
    /\ UNCHANGED <<minute, expiring, ticket, opener, restarts>>

\* The first request of the bucket gives it its TTL, then each is judged.
Expire(c) ==
    /\ Calling(c, "expire")
    /\ expiring' = IF call[c].n = 1 THEN expiring \cup {call[c].bucket} ELSE expiring
    /\ call' = [call EXCEPT ![c].at = IF call[c].n > RateLimit THEN "limited" ELSE "admitted"]
    /\ UNCHANGED <<minute, count, ticket, opener, restarts>>

\* The TTL of two minutes outlives the minute; a request that looked at the
\* clock long ago is slow, not that slow.
NextMinute ==
    /\ minute + 1 \in Minutes
    /\ minute' = minute + 1
    /\ UNCHANGED <<count, expiring, call, ticket, opener, restarts>>
BucketGone(m) ==
    /\ m \in expiring /\ m < minute
    /\ \A c \in Calls : call[c].bucket = m => call[c].at \in {"limited", "admitted", "lost"}
    /\ count' = [count EXCEPT ![m] = 0]
    /\ expiring' = expiring \ {m}
    /\ UNCHANGED <<minute, call, ticket, opener, restarts>>

-----------------------------------------------------------------------------
\* create_ws_ticket_async() and _verify_ws_ticket_async()

CreateTicket ==
    /\ ticket = "none"
    /\ ticket' = "live"
    /\ UNCHANGED <<minute, count, expiring, call, opener, restarts>>

\* The key's TTL of 60 seconds.
TicketExpires ==
    /\ ticket = "live"
    /\ ticket' = "gone"
    /\ UNCHANGED <<minute, count, expiring, call, opener, restarts>>

Present(o) ==
    /\ opener[o].at = "new" /\ ticket # "none"
    /\ opener' = [opener EXCEPT ![o] = [at |-> "get", after |-> \E p \in Openers : opener[p].at = "open"]]
    /\ UNCHANGED <<minute, count, expiring, call, ticket, restarts>>

GetTicket(o) ==
    /\ opener[o].at = "get"
    /\ opener' = [opener EXCEPT ![o].at = IF ticket = "live" THEN "delete" ELSE "refused"]
    /\ UNCHANGED <<minute, count, expiring, call, ticket, restarts>>

DeleteTicket(o) ==
    /\ opener[o].at = "delete"
    /\ ticket' = "gone"
    /\ opener' = [opener EXCEPT ![o].at = "open"]
    /\ UNCHANGED <<minute, count, expiring, call, restarts>>

\* The backend is restarted: what it was serving is gone, Redis is not.
RestartGate ==
    /\ restarts < MaxRestarts
    /\ restarts' = restarts + 1
    /\ call' = [c \in Calls |-> IF call[c].at \in {"count", "expire"} THEN [call[c] EXCEPT !.at = "lost"] ELSE call[c]]
    /\ opener' = [o \in Openers |-> IF opener[o].at \in {"get", "delete"}
                                    THEN [opener[o] EXCEPT !.at = "refused"] ELSE opener[o]]
    /\ UNCHANGED <<minute, count, expiring, ticket>>

GateNext ==
    \/ \E c \in Calls : Arrive(c) \/ Incr(c) \/ Expire(c)
    \/ \E m \in Minutes : BucketGone(m)
    \/ \E o \in Openers : Present(o) \/ GetTicket(o) \/ DeleteTicket(o)
    \/ NextMinute \/ CreateTicket \/ TicketExpires \/ RestartGate

GateSpec == GateInit /\ [][GateNext]_gateVars

-----------------------------------------------------------------------------
GateTypeOK ==
    /\ minute \in Minutes
    /\ count \in [Minutes -> 0..Cardinality(Calls)]
    /\ expiring \subseteq Minutes
    /\ \A c \in Calls : call[c].at \in {"new", "count", "write", "expire", "limited", "admitted", "lost"}
    /\ ticket \in {"none", "live", "gone"}
    /\ \A o \in Openers : opener[o].at \in {"new", "get", "delete", "open", "refused"}
    /\ restarts \in 0..MaxRestarts

Admitted(m) == {c \in Calls : Calling(c, "admitted") /\ call[c].bucket = m}

\* However many requests of a workspace are counted at once, no minute admits
\* more than the limit, and those it limits came after a full bucket (deps.py,
\* _rate_limit_ingest()).
AdmittedWithinLimit ==
    \A m \in Minutes :
        /\ Cardinality(Admitted(m)) <= RateLimit
        /\ \A c \in Calls : Calling(c, "limited") /\ call[c].bucket = m
              => Cardinality({d \in Calls : call[d].bucket = m /\ call[d].n \in 1..RateLimit}) = RateLimit

\* A bucket that nothing will ever delete is one whose first request a restart
\* cut off between its incr and its expire; no interleaving of the requests
\* leaves one behind (deps.py, _rate_limit_ingest()).
BucketsExpire ==
    \A m \in Minutes : count[m] > 0 /\ m \notin expiring =>
        \E c \in Calls : call[c].bucket = m /\ call[c].n = 1 /\ call[c].at \in {"expire", "lost"}

\* A ticket that opened a websocket opens none for a handshake that comes
\* after, although two that overlap may both get in (deps.py,
\* _verify_ws_ticket_async() reads and then deletes).
UsedTicketIsDead == \A o \in Openers : opener[o].after => opener[o].at # "open"

\* The gate of deps.py: what is limited, what is forgotten, what is used up.
GateIsTight == AdmittedWithinLimit /\ BucketsExpire /\ UsedTicketIsDead

=============================================================================
