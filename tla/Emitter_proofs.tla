---------------------------- MODULE Emitter_proofs ----------------------------
(***************************************************************************)
(* What holds of the emitter for any number of producers, events, threads  *)
(* and capacities: one worker at a time, per-producer order, and a         *)
(* shutdown that flushes.                                                  *)
(***************************************************************************)
EXTENDS Emitter, TLAPS

-----------------------------------------------------------------------------
(* Types: an event under way has a position, a worker that posts has one. *)

TypeInv ==
    /\ TypeOK
    /\ \A p \in Producers : pc[p] # "idle" => emitted[p] \in 1 .. MaxEvents
    /\ \A w \in Workers : wpc[w] = "post" => load[w] # None
    /\ \A p \in Producers : pc[p] = "start" => thread \in Workers
    /\ main = "join" => joined \in Workers

LEMMA TypeInit == Init => TypeInv
<1> SUFFICES ASSUME Init PROVE TypeInv
    OBVIOUS
<1>1. queue \in Seq(Events) /\ Len(queue) <= Capacity
    BY EmitterAssumption DEF Init
<1>2. 0 \in 0 .. MaxEvents /\ 0 \in 0 .. MaxShutdowns
    BY EmitterAssumption
<1>3. TypeOK
    BY <1>1, <1>2 DEF Init, TypeOK
<1> QED BY <1>3 DEF Init, TypeInv

LEMMA ProducerTypes ==
    ASSUME TypeInv, NEW p \in Producers, ProducerStep(p)
    PROVE  TypeInv'
<1> USE EmitterAssumption DEF TypeInv, TypeOK, owner, history, GoProducer, GoWorker
<1>1. CASE Emit(p)
    <2>1. emitted[p] + 1 \in 1 .. MaxEvents
        BY <1>1 DEF Emit
    <2> QED BY <1>1, <2>1 DEF Emit
<1>2. CASE Acquire(p)
    BY <1>2 DEF Acquire
<1>3. CASE SeeAlive(p)
    BY <1>3 DEF SeeAlive
<1>4. CASE Construct(p)
    <2>1. PICK w \in Workers : GoWorker(w, "unborn", "made") /\ thread' = w
        BY <1>4 DEF Construct
    <2> QED BY <1>4, <2>1 DEF Construct
<1>5. CASE Start(p)
    BY <1>5 DEF Start
<1>6. CASE Put(p)
    <2>1. <<p, emitted[p]>> \in Events
        BY <1>6 DEF Put, Events
    <2>2. CASE Len(queue) < Capacity
        <3>1. queue' = Append(queue, <<p, emitted[p]>>)
            BY <1>6, <2>2 DEF Put
        <3>2. queue' \in Seq(Events) /\ Len(queue') = Len(queue) + 1 /\ Len(queue) \in Nat
            BY <2>1, <3>1
        <3>3. promised' \in SUBSET Events
            BY <1>6, <2>1, <2>2 DEF Put
        <3>4. Len(queue') <= Capacity
            BY <2>2, <3>2
        <3> HIDE DEF Events
        <3> QED BY <1>6, <3>2, <3>3, <3>4 DEF Put
    <2>3. CASE ~(Len(queue) < Capacity)
        BY <1>6, <2>3 DEF Put
    <2> QED BY <2>2, <2>3
<1> QED BY <1>1, <1>2, <1>3, <1>4, <1>5, <1>6 DEF ProducerStep

LEMMA WorkerTypes ==
    ASSUME TypeInv, NEW w \in Workers, WorkerStep(w)
    PROVE  TypeInv'
<1> USE EmitterAssumption DEF TypeInv, TypeOK, owner, history, client, GoWorker
<1>1. CASE ClientOpens(w)
    BY <1>1 DEF ClientOpens
<1>2. CASE ClientFails(w)
    BY <1>2 DEF ClientFails
<1>3. CASE Check(w)
    BY <1>3 DEF Check
<1>4. CASE Empty(w)
    BY <1>4 DEF Empty
<1>5. CASE Get(w)
    <2>1. Head(queue) \in Events /\ Tail(queue) \in Seq(Events) /\ Len(Tail(queue)) <= Capacity
        BY <1>5 DEF Get
    <2> QED BY <1>5, <2>1 DEF Get
<1>6. CASE GetTimesOut(w)
    BY <1>6 DEF GetTimesOut
<1>7. CASE Post(w)
    BY <1>7 DEF Post
<1>8. CASE End(w)
    BY <1>8 DEF End
<1> QED BY <1>1, <1>2, <1>3, <1>4, <1>5, <1>6, <1>7, <1>8 DEF WorkerStep

LEMMA MainTypes ==
    ASSUME TypeInv, MainStep
    PROVE  TypeInv'
<1> USE EmitterAssumption DEF TypeInv, TypeOK, history, client, Return
<1>1. CASE Shutdown
    BY <1>1 DEF Shutdown
<1>2. CASE Exit
    BY <1>2 DEF Exit
<1>3. CASE Join
    BY <1>3 DEF Join, Alive
<1>4. CASE NothingToJoin
    BY <1>4 DEF NothingToJoin
<1>5. CASE JoinReturns
    BY <1>5 DEF JoinReturns
<1>6. CASE JoinTimesOut
    BY <1>6 DEF JoinTimesOut
<1> QED BY <1>1, <1>2, <1>3, <1>4, <1>5, <1>6 DEF MainStep

LEMMA TypeNext == TypeInv /\ [Next]_vars => TypeInv'
<1> SUFFICES ASSUME TypeInv, [Next]_vars PROVE TypeInv'
    OBVIOUS
<1>1. CASE UNCHANGED vars
    BY <1>1 DEF TypeInv, TypeOK, vars, client, owner, history
<1> QED BY <1>1, ProducerTypes, WorkerTypes, MainTypes DEF Next

LEMMA TypeInvariant == Spec => []TypeInv
BY TypeInit, TypeNext, PTL DEF Spec

\* Type correctness of the emitter, the bound of its queue included.
THEOREM TypeCorrect == Spec => []TypeOK
BY TypeInvariant, PTL DEF TypeInv

-----------------------------------------------------------------------------
(* One worker: a thread is constructed and started under the lock, by who  *)
(* saw under the same lock that there is none.                             *)

LockInv ==
    /\ OneWorker
    /\ \A p \in Producers : pc[p] \in {"locked", "start"} => lock = p
    /\ \A p \in Producers : pc[p] = "start" => wpc[thread] = "made"
    /\ \A w \in Workers : wpc[w] = "made" => \E p \in Producers : pc[p] = "start"

LEMMA LockInit == Init => LockInv
BY DEF Init, LockInv, OneWorker

LEMMA LockProducer ==
    ASSUME TypeInv, LockInv, NEW p \in Producers, ProducerStep(p)
    PROVE  LockInv'
<1> USE EmitterAssumption DEF TypeInv, TypeOK, LockInv, OneWorker, owner, history, GoProducer, GoWorker
<1>1. CASE Emit(p)
    BY <1>1 DEF Emit
<1>2. CASE Acquire(p)
    BY <1>2 DEF Acquire
<1>3. CASE SeeAlive(p)
    BY <1>3 DEF SeeAlive
<1>4. CASE Construct(p)
    <2>1. \A v \in Workers : wpc[v] \in {"unborn", "dead"}
        BY <1>4 DEF Construct, Alive
    <2>2. PICK w \in Workers : GoWorker(w, "unborn", "made") /\ thread' = w
        BY <1>4 DEF Construct
    <2> QED BY <1>4, <2>1, <2>2 DEF Construct
<1>5. CASE Start(p)
    <2>1. \A q \in Producers : pc[q] = "start" => q = p
        BY <1>5 DEF Start
    <2>2. \A w \in Workers : wpc'[w] = "made" => FALSE
        BY <1>5 DEF Start
    <2> QED BY <1>5, <2>1, <2>2 DEF Start
<1>6. CASE Put(p)
    BY <1>6 DEF Put
<1> QED BY <1>1, <1>2, <1>3, <1>4, <1>5, <1>6 DEF ProducerStep

LEMMA LockWorker ==
    ASSUME TypeInv, LockInv, NEW w \in Workers, WorkerStep(w)
    PROVE  LockInv'
<1>1. /\ wpc[w] \notin {"unborn", "made", "dead"}
      /\ wpc'[w] \notin {"unborn", "made"}
      /\ wpc' = [wpc EXCEPT ![w] = wpc'[w]]
      /\ UNCHANGED client
    BY DEF WorkerStep, ClientOpens, ClientFails, Check, Empty, Get, GetTimesOut, Post, End,
           GoWorker, TypeInv, TypeOK
<1> QED BY <1>1 DEF LockInv, OneWorker, TypeInv, TypeOK, client

LEMMA LockNext == TypeInv /\ LockInv /\ [Next]_vars => LockInv'
<1> SUFFICES ASSUME TypeInv, LockInv, [Next]_vars PROVE LockInv'
    OBVIOUS
<1>1. CASE UNCHANGED vars
    BY <1>1 DEF LockInv, OneWorker, vars, client
<1>2. CASE MainStep
    BY <1>2 DEF MainStep, Shutdown, Exit, Join, NothingToJoin, JoinReturns, JoinTimesOut,
                LockInv, OneWorker, client
<1> QED BY <1>1, <1>2, LockProducer, LockWorker DEF Next

LEMMA LockInvariant == Spec => []LockInv
BY TypeInvariant, LockInit, LockNext, PTL DEF Spec

\* Whatever the number of producers that find the worker missing at once, no
\* two workers run at the same time.
THEOREM SingleThread == Spec => []OneWorker
BY LockInvariant, PTL DEF LockInv

-----------------------------------------------------------------------------
(* Order: of one producer's events, those sent precede the one that is     *)
(* being POSTed, which precedes those queued, which precede the next one.  *)

Before(e, f) == e[1] = f[1] => e[2] < f[2]

\* The call of emit() that made e has returned.
Complete(e) ==
    \/ e[2] < emitted[e[1]]
    \/ e[2] = emitted[e[1]] /\ pc[e[1]] = "idle"

QueueInOrder ==
    \A i \in 1 .. Len(queue) :
        /\ Complete(queue[i])
        /\ \A j \in 1 .. Len(queue) : i < j => Before(queue[i], queue[j])

LoadInOrder ==
    \A w \in Workers : load[w] # None =>
        /\ wpc[w] = "post"
        /\ Complete(load[w])
        /\ \A i \in 1 .. Len(queue) : Before(load[w], queue[i])

SentInOrder ==
    \A e \in sent :
        /\ Complete(e)
        /\ \A w \in Workers : load[w] # None => Before(e, load[w])
        /\ \A i \in 1 .. Len(queue) : Before(e, queue[i])

OrderInv == QueueInOrder /\ LoadInOrder /\ SentInOrder

LEMMA OrderInit == Init => OrderInv
BY DEF Init, OrderInv, QueueInOrder, LoadInOrder, SentInOrder

\* What a step of a producer leaves alone, its Put apart.
LEMMA OrderQuiet ==
    ASSUME TypeInv, LockInv, OrderInv, UNCHANGED <<queue, load, sent>>,
           \A e \in Events : Complete(e) => Complete(e)',
           \A w \in Workers : wpc[w] = "post" => wpc'[w] = "post"
    PROVE  OrderInv'
<1>1. \A i \in 1 .. Len(queue) : queue[i] \in Events
    BY DEF TypeInv, TypeOK
<1>2. \A w \in Workers : load[w] # None => load[w] \in Events
    BY DEF TypeInv, TypeOK
<1>3. QueueInOrder'
    BY <1>1 DEF OrderInv, QueueInOrder, Before
<1>4. LoadInOrder'
    BY <1>2 DEF OrderInv, LoadInOrder, Before
<1>5. SentInOrder'
    BY DEF OrderInv, SentInOrder, Before, TypeInv, TypeOK
<1> QED BY <1>3, <1>4, <1>5 DEF OrderInv

LEMMA CompleteStays ==
    ASSUME TypeInv, NEW p \in Producers, ProducerStep(p), NEW e \in Events, Complete(e)
    PROVE  Complete(e)'
<1>1. /\ e[1] \in Producers /\ e[2] \in 1 .. MaxEvents
      /\ emitted \in [Producers -> 0 .. MaxEvents]
      /\ pc \in [Producers -> {"idle", "lock", "locked", "start", "put"}]
    BY DEF Events, TypeInv, TypeOK
<1>2. CASE Emit(p)
    BY <1>1, <1>2, EmitterAssumption DEF Emit, GoProducer, Complete
<1>3. CASE ~Emit(p)
    BY <1>1, <1>3 DEF ProducerStep, Acquire, SeeAlive, Construct, Start, Put, GoProducer, Complete
<1> QED BY <1>2, <1>3

LEMMA OrderProducer ==
    ASSUME TypeInv, LockInv, OrderInv, NEW p \in Producers, ProducerStep(p)
    PROVE  OrderInv'
<1>1. \A e \in Events : Complete(e) => Complete(e)'
    BY CompleteStays
<1>2. \A w \in Workers : wpc[w] = "post" => wpc'[w] = "post"
    BY DEF ProducerStep, Emit, Acquire, SeeAlive, Construct, Start, Put, GoProducer, GoWorker,
           LockInv, TypeInv, TypeOK
<1>3. CASE ~Put(p) \/ queue' = queue
    <2>1. UNCHANGED <<queue, load, sent>>
        BY <1>3 DEF ProducerStep, Emit, Acquire, SeeAlive, Construct, Start, Put, history
    <2> QED BY <1>1, <1>2, <2>1, OrderQuiet
<1>4. CASE Put(p) /\ queue' # queue
    <2> DEFINE new == <<p, emitted[p]>>
    <2>1. /\ queue' = Append(queue, new)
          /\ UNCHANGED <<load, sent, wpc, emitted>>
          /\ pc[p] # "idle" /\ pc' = [pc EXCEPT ![p] = "idle"]
        BY <1>4 DEF Put, GoProducer
    <2>2. new \in Events
        BY <2>1 DEF TypeInv, Events
    <2>3. \A e \in Events : Complete(e) => Before(e, new)
        BY <2>1 DEF Complete, Before, Events, TypeInv, TypeOK
    <2>4. \A e \in Events : e = new => Complete(e)'
        BY <2>1 DEF Complete, TypeInv, TypeOK
    <2>5. \A i \in 1 .. Len(queue') : queue'[i] \in Events /\
              (\/ i \in 1 .. Len(queue) /\ queue'[i] = queue[i]
               \/ i = Len(queue) + 1 /\ queue'[i] = new)
        BY <2>1, <2>2 DEF TypeInv, TypeOK
    <2>6. Len(queue) \in Nat
        BY DEF TypeInv, TypeOK
    <2> HIDE DEF new
    <2>7. QueueInOrder'
        <3> SUFFICES ASSUME NEW i \in 1 .. Len(queue')
                     PROVE  /\ Complete(queue[i])'
                            /\ \A j \in 1 .. Len(queue') : i < j => Before(queue'[i], queue'[j])
            BY DEF QueueInOrder, Before
        <3>1. Complete(queue[i])'
            <4>1. \/ Complete(queue'[i]) \/ queue'[i] = new
                BY <2>5 DEF OrderInv, QueueInOrder
            <4>2. ASSUME NEW e \in Events, e = queue'[i] PROVE Complete(e)'
                BY <1>1, <2>4, <4>1, <4>2
            <4> QED BY <2>5, <4>2 DEF Complete
        <3>2. ASSUME NEW j \in 1 .. Len(queue'), i < j PROVE Before(queue'[i], queue'[j])
            <4>1. i \in 1 .. Len(queue) /\ queue'[i] = queue[i] /\ queue[i] \in Events
                BY <2>5, <2>6, <3>2
            <4>2. CASE j \in 1 .. Len(queue) /\ queue'[j] = queue[j]
                BY <3>2, <4>1, <4>2 DEF OrderInv, QueueInOrder
            <4>3. CASE queue'[j] = new
                BY <2>3, <4>1, <4>3 DEF OrderInv, QueueInOrder
            <4> QED BY <2>5, <4>2, <4>3
        <3> QED BY <3>1, <3>2
    <2>8. LoadInOrder'
        <3> SUFFICES ASSUME NEW w \in Workers, load[w] # None
                     PROVE  /\ wpc'[w] = "post"
                            /\ Complete(load[w])'
                            /\ \A i \in 1 .. Len(queue') : Before(load[w], queue'[i])
            BY <2>1 DEF LoadInOrder, Before, Complete
        <3>1. load[w] \in Events
            BY DEF TypeInv, TypeOK
        <3>2. wpc[w] = "post" /\ Complete(load[w]) /\ \A i \in 1 .. Len(queue) : Before(load[w], queue[i])
            BY DEF OrderInv, LoadInOrder
        <3> QED BY <1>1, <1>2, <2>1, <2>3, <2>5, <3>1, <3>2 DEF Complete
    <2>9. SentInOrder'
        <3> SUFFICES ASSUME NEW e \in sent
                     PROVE  /\ Complete(e)'
                            /\ \A w \in Workers : load[w] # None => Before(e, load[w])
                            /\ \A i \in 1 .. Len(queue') : Before(e, queue'[i])
            BY <2>1 DEF SentInOrder, Before
        <3>1. e \in Events
            BY DEF TypeInv, TypeOK
        <3>2. /\ Complete(e) /\ \A w \in Workers : load[w] # None => Before(e, load[w])
              /\ \A i \in 1 .. Len(queue) : Before(e, queue[i])
            BY DEF OrderInv, SentInOrder
        <3> QED BY <1>1, <2>3, <2>5, <3>1, <3>2
    <2> QED BY <2>7, <2>8, <2>9 DEF OrderInv
<1> QED BY <1>3, <1>4

LEMMA OrderWorker ==
    ASSUME TypeInv, LockInv, OrderInv, NEW w \in Workers, WorkerStep(w)
    PROVE  OrderInv'
<1>1. UNCHANGED <<pc, emitted>>
    BY DEF WorkerStep, ClientOpens, ClientFails, Check, Empty, Get, GetTimesOut, Post, End, client
<1>2. \A e \in Events : Complete(e) => Complete(e)'
    BY <1>1 DEF Complete
<1>3. \A v \in Workers : v # w => load[v] = None
    BY DEF OrderInv, LoadInOrder, LockInv, OneWorker, WorkerStep, ClientOpens, ClientFails, Check,
           Empty, Get, GetTimesOut, Post, End, GoWorker
<1>4. CASE Get(w)
    <2>1. /\ queue # <<>> /\ load' = [load EXCEPT ![w] = Head(queue)] /\ queue' = Tail(queue)
          /\ wpc' = [wpc EXCEPT ![w] = "post"] /\ UNCHANGED sent
        BY <1>4 DEF Get, GoWorker, history
    <2>2. \A i \in 1 .. Len(queue') : i + 1 \in 1 .. Len(queue) /\ queue'[i] = queue[i + 1]
        BY <2>1 DEF TypeInv, TypeOK
    <2>3. 1 \in 1 .. Len(queue) /\ Head(queue) = queue[1]
        BY <2>1 DEF TypeInv, TypeOK
    <2>4. QueueInOrder'
        <3> SUFFICES ASSUME NEW i \in 1 .. Len(queue')
                     PROVE  /\ Complete(queue[i])'
                            /\ \A j \in 1 .. Len(queue') : i < j => Before(queue'[i], queue'[j])
            BY DEF QueueInOrder, Before
        <3>1. Complete(queue[i + 1])
            BY <2>2 DEF OrderInv, QueueInOrder
        <3>2. Complete(queue[i])'
            BY <1>1, <2>2, <3>1 DEF Complete
        <3>3. ASSUME NEW j \in 1 .. Len(queue'), i < j PROVE Before(queue'[i], queue'[j])
            <4>1. i + 1 < j + 1
                BY <3>3
            <4> QED BY <2>2, <4>1 DEF OrderInv, QueueInOrder
        <3> QED BY <3>2, <3>3
    <2>5. load'[w] = queue[1] /\ \A v \in Workers : v # w => load'[v] = None
        BY <1>3, <2>1, <2>3 DEF TypeInv, TypeOK
    <2>6. wpc'[w] = "post"
        BY <2>1 DEF TypeInv, TypeOK
    <2>7. LoadInOrder'
        BY <1>1, <2>2, <2>3, <2>5, <2>6 DEF OrderInv, QueueInOrder, LoadInOrder, Complete, Before
    <2>8. SentInOrder'
        BY <1>1, <2>1, <2>2, <2>3, <2>5 DEF OrderInv, SentInOrder, Complete, Before
    <2> QED BY <2>4, <2>7, <2>8 DEF OrderInv
<1>5. CASE Post(w)
    <2>1. /\ load[w] \in Events /\ load' = [load EXCEPT ![w] = None]
          /\ sent' = sent \cup {load[w]} /\ UNCHANGED queue
        BY <1>5 DEF Post, GoWorker, TypeInv, TypeOK
    <2>2. \A v \in Workers : load'[v] = None
        BY <1>3, <2>1 DEF TypeInv, TypeOK
    <2>3. load[w] # None
        BY <2>1, EmitterAssumption
    <2>4. QueueInOrder'
        BY <1>1, <2>1 DEF OrderInv, QueueInOrder, Complete, Before
    <2>5. LoadInOrder'
        BY <2>2 DEF LoadInOrder
    <2>6. SentInOrder'
        BY <1>1, <2>1, <2>2, <2>3 DEF OrderInv, SentInOrder, LoadInOrder, Complete, Before
    <2> QED BY <2>4, <2>5, <2>6 DEF OrderInv
<1>6. CASE ~Get(w) /\ ~Post(w)
    <2>1. UNCHANGED <<queue, load, sent>>
        BY <1>6 DEF WorkerStep, ClientOpens, ClientFails, Check, Empty, GetTimesOut, End, history
    <2>2. \A v \in Workers : wpc[v] = "post" => wpc'[v] = "post"
        BY <1>6 DEF WorkerStep, ClientOpens, ClientFails, Check, Empty, GetTimesOut, End, GoWorker,
                    TypeInv, TypeOK
    <2> QED BY <1>2, <2>1, <2>2, OrderQuiet
<1> QED BY <1>4, <1>5, <1>6

LEMMA OrderNext == TypeInv /\ LockInv /\ OrderInv /\ [Next]_vars => OrderInv'
<1> SUFFICES ASSUME TypeInv, LockInv, OrderInv, [Next]_vars PROVE OrderInv'
    OBVIOUS
<1>1. CASE MainStep \/ UNCHANGED vars
    <2>1. UNCHANGED <<queue, load, sent, wpc, pc, emitted>>
        BY <1>1 DEF MainStep, Shutdown, Exit, Join, NothingToJoin, JoinReturns, JoinTimesOut,
                    vars, client, history
    <2>2. \A e \in Events : Complete(e) => Complete(e)'
        BY <2>1 DEF Complete
    <2> QED BY <2>1, <2>2, OrderQuiet
<1> QED BY <1>1, OrderProducer, OrderWorker DEF Next

\* Whatever the capacity and the number of producers, the backend sees the
\* events of each producer in the order it emitted them.
THEOREM EventsInOrder == Spec => InOrder
<1>1. TypeInv /\ LockInv /\ OrderInv /\ [Next]_vars =>
        [PostsInOrder]_vars
    <2> SUFFICES ASSUME TypeInv, OrderInv, Next,
                        NEW p \in Producers, NEW i \in 1 .. MaxEvents, NEW j \in 1 .. MaxEvents,
                        <<p, i>> \in sent' \ sent, <<p, j>> \in sent
                 PROVE  j < i
        BY DEF vars, history, PostsInOrder
    <2>1. PICK w \in Workers : Post(w)
        BY DEF Next, ProducerStep, Emit, Acquire, SeeAlive, Construct, Start, Put, WorkerStep,
               ClientOpens, ClientFails, Check, Empty, Get, GetTimesOut, End, MainStep, Shutdown,
               Exit, Join, NothingToJoin, JoinReturns, JoinTimesOut, history
    <2>2. load[w] = <<p, i>> /\ load[w] # None
        BY <2>1 DEF Post, GoWorker, TypeInv
    <2>3. Before(<<p, j>>, <<p, i>>)
        BY <2>2 DEF OrderInv, SentInOrder
    <2> QED BY <2>3 DEF Before
<1> QED BY <1>1, TypeInvariant, LockInvariant, OrderInit, OrderNext, PTL DEF Spec, InOrder

-----------------------------------------------------------------------------
(* Flush: while no worker broke, what was queued before the first shutdown *)
(* is sent, in hand or queued; a worker that passed its last look at the   *)
(* queue has sent all of it.                                               *)

Started(w) == wpc[w] \notin {"unborn", "made"}

AtexitInv ==
    /\ \A w \in Workers : Started(w) => atexit
    /\ atexit => \E w \in Workers : Started(w)
    /\ \A p \in Producers : pc[p] = "put" => atexit
    /\ promised # {} => atexit

AllSent == shutdown /\ promised \subseteq sent

KeptInv ==
    /\ \A e \in promised :
        \/ e \in sent
        \/ \E w \in Workers : load[w] = e
        \/ \E i \in 1 .. Len(queue) : queue[i] = e
    /\ \A w \in Workers : wpc[w] = "empty" => shutdown
    /\ \A w \in Workers : wpc[w] \in {"exit", "dead"} => AllSent

FlushInv ==
    /\ AtexitInv
    /\ main \in {"flush", "join"} => shutdown
    /\ ~broken => KeptInv
    /\ Flushed

LEMMA FlushInit == Init => FlushInv
BY DEF Init, FlushInv, AtexitInv, Started, KeptInv, Flushed

LEMMA AtexitProducer ==
    ASSUME TypeInv, LockInv, AtexitInv, NEW p \in Producers, ProducerStep(p)
    PROVE  AtexitInv'
<1> USE DEF TypeInv, TypeOK, AtexitInv, Started, owner, history, GoProducer, GoWorker
<1>1. CASE Emit(p)
    BY <1>1 DEF Emit, Alive
<1>2. CASE Acquire(p)
    BY <1>2 DEF Acquire
<1>3. CASE SeeAlive(p)
    BY <1>3 DEF SeeAlive, Alive
<1>4. CASE Construct(p)
    <2>1. PICK w \in Workers : wpc[w] = "unborn" /\ wpc' = [wpc EXCEPT ![w] = "made"]
        BY <1>4 DEF Construct
    <2>2. \A v \in Workers : Started(v)' <=> Started(v)
        BY <2>1
    <2> QED BY <1>4, <2>2 DEF Construct
<1>5. CASE Start(p)
    <2>1. thread \in Workers /\ wpc' = [wpc EXCEPT ![thread] = "open"]
        BY <1>5 DEF Start
    <2>2. \E w \in Workers : wpc'[w] \notin {"unborn", "made"}
        BY <2>1
    <2>3. atexit' /\ \A q \in Producers : pc'[q] = "put" => atexit'
        BY <1>5 DEF Start
    <2> QED BY <2>2, <2>3
<1>6. CASE Put(p)
    BY <1>6 DEF Put
<1> QED BY <1>1, <1>2, <1>3, <1>4, <1>5, <1>6 DEF ProducerStep

LEMMA FlushProducer ==
    ASSUME TypeInv, LockInv, FlushInv, NEW p \in Producers, ProducerStep(p), main # "exited"
    PROVE  FlushInv'
<1>1. AtexitInv'
    BY AtexitProducer DEF FlushInv
<1>2. UNCHANGED <<main, shutdown, late, broken, sent, load>>
    BY DEF ProducerStep, Emit, Acquire, SeeAlive, Construct, Start, Put, owner, history
<1>3. \A w \in Workers : wpc'[w] \in {"empty", "exit", "dead"} => wpc[w] = wpc'[w]
    BY DEF ProducerStep, Emit, Acquire, SeeAlive, Construct, Start, Put, GoProducer, GoWorker,
           TypeInv, TypeOK
<1>4. shutdown => promised' = promised
    BY DEF ProducerStep, Emit, Acquire, SeeAlive, Construct, Start, Put, history
<1>5. Flushed'
    BY <1>2, <1>4 DEF FlushInv, Flushed
<1>6. ASSUME ~broken PROVE KeptInv'
    <2>1. CASE UNCHANGED <<queue, promised>>
        BY <1>2, <1>3, <1>6, <2>1 DEF FlushInv, KeptInv, AllSent
    <2>2. CASE Put(p) /\ Len(queue) < Capacity
        <3>1. <<p, emitted[p]>> \in Events
            BY <2>2 DEF Put, GoProducer, TypeInv, Events
        <3>2. /\ Len(queue') = Len(queue) + 1 /\ Len(queue) \in Nat
              /\ queue'[Len(queue) + 1] = <<p, emitted[p]>>
              /\ \A i \in 1 .. Len(queue) : queue'[i] = queue[i]
            BY <2>2, <3>1 DEF Put, TypeInv, TypeOK
        <3>3. \A i \in 1 .. Len(queue') : i \in 1 .. Len(queue) \/ i = Len(queue) + 1
            BY <3>2
        <3>4. 1 .. Len(queue) \subseteq 1 .. Len(queue') /\ Len(queue) + 1 \in 1 .. Len(queue')
            BY <3>2
        <3>5. promised' \subseteq promised \cup {<<p, emitted[p]>>}
            BY <2>2 DEF Put
        <3>6. ASSUME NEW e \in promised'
              PROVE  \/ e \in sent
                     \/ \E w \in Workers : load[w] = e
                     \/ \E i \in 1 .. Len(queue') : queue'[i] = e
            <4>1. CASE e = <<p, emitted[p]>>
                BY <3>2, <3>4, <4>1
            <4>2. CASE e \in promised
                BY <1>6, <3>2, <3>4, <4>2 DEF FlushInv, KeptInv
            <4> QED BY <3>5, <3>6, <4>1, <4>2
        <3> QED BY <1>2, <1>3, <1>4, <1>6, <3>6 DEF FlushInv, KeptInv, AllSent
    <2> QED BY <2>1, <2>2
            DEF ProducerStep, Emit, Acquire, SeeAlive, Construct, Start, Put, history
<1> QED BY <1>1, <1>2, <1>5, <1>6 DEF FlushInv

LEMMA FlushWorker ==
    ASSUME TypeInv, LockInv, OrderInv, FlushInv, NEW w \in Workers, WorkerStep(w),
           main # "exited"
    PROVE  FlushInv'
<1>1. /\ UNCHANGED <<main, shutdown, late, promised, pc, atexit>>
      /\ sent \subseteq sent'
      /\ broken => broken'
    BY DEF WorkerStep, ClientOpens, ClientFails, Check, Empty, Get, GetTimesOut, Post, End,
           client, owner, history
<1>2. \A v \in Workers : Started(v)' <=> Started(v)
    BY DEF WorkerStep, ClientOpens, ClientFails, Check, Empty, Get, GetTimesOut, Post, End,
           GoWorker, Started, TypeInv, TypeOK
<1>3. AtexitInv'
    BY <1>1, <1>2 DEF FlushInv, AtexitInv
<1>4. Flushed'
    BY <1>1 DEF FlushInv, Flushed
<1>5. ASSUME ~broken' PROVE KeptInv'
    <2> USE DEF GoWorker, client, owner, history, TypeInv, TypeOK
    <2>1. KeptInv
        BY <1>1, <1>5 DEF FlushInv
    <2>2. CASE Get(w)
        <3>1. /\ queue # <<>> /\ load' = [load EXCEPT ![w] = Head(queue)] /\ queue' = Tail(queue)
              /\ UNCHANGED <<sent, promised, shutdown>>
            BY <2>2 DEF Get
        <3>2. load[w] = None /\ load'[w] = queue[1]
            BY <2>2, <3>1 DEF Get, OrderInv, LoadInOrder
        <3>3. \A i \in 1 .. Len(queue) : i = 1 \/ (i - 1 \in 1 .. Len(queue') /\ queue'[i - 1] = queue[i])
            BY <3>1
        <3>4. ASSUME NEW e \in promised
              PROVE  \/ e \in sent
                     \/ \E v \in Workers : load'[v] = e
                     \/ \E i \in 1 .. Len(queue') : queue'[i] = e
            <4>1. CASE \E i \in 1 .. Len(queue) : queue[i] = e
                BY <3>2, <3>3, <4>1
            <4>2. CASE \E v \in Workers : load[v] = e
                <5>1. e # None
                    BY EmitterAssumption
                <5>2. PICK v \in Workers : load[v] = e
                    BY <4>2
                <5>3. load'[v] = e
                    BY <3>1, <3>2, <5>1, <5>2
                <5> QED BY <5>3
            <4> QED BY <2>1, <4>1, <4>2 DEF KeptInv
        <3> QED BY <2>1, <2>2, <3>1, <3>4 DEF Get, KeptInv, AllSent
    <2>3. CASE Post(w)
        <3>1. /\ sent' = sent \cup {load[w]} /\ load' = [load EXCEPT ![w] = None]
              /\ UNCHANGED <<queue, promised, shutdown>>
            BY <2>3 DEF Post
        <3>2. \A v \in Workers : load'[v] = load[v] \/ load[v] \in sent'
            BY <3>1
        <3>3. \A v \in Workers : wpc'[v] \in {"empty", "exit", "dead"} => wpc'[v] = wpc[v]
            BY <2>3 DEF Post
        <3> QED BY <2>1, <3>1, <3>2, <3>3 DEF KeptInv, AllSent
    <2>4. CASE Empty(w) /\ queue = <<>>
        <3>1. \A v \in Workers : load[v] = None
            BY <2>4 DEF Empty, OrderInv, LoadInOrder, LockInv, OneWorker
        <3>2. promised \subseteq sent
            BY <2>1, <2>4, <3>1, EmitterAssumption DEF KeptInv
        <3>3. shutdown
            BY <2>1, <2>4 DEF Empty, KeptInv
        <3> QED BY <2>1, <2>4, <3>2, <3>3 DEF Empty, KeptInv, AllSent
    <2>5. CASE ClientOpens(w)
        BY <2>1, <2>5 DEF ClientOpens, KeptInv, AllSent
    <2>6. CASE ClientFails(w)
        BY <1>5, <2>6 DEF ClientFails
    <2>7. CASE Check(w)
        BY <2>1, <2>7 DEF Check, KeptInv, AllSent
    <2>8. CASE Empty(w) /\ queue # <<>>
        BY <2>1, <2>8 DEF Empty, KeptInv, AllSent
    <2>9. CASE GetTimesOut(w)
        BY <2>1, <2>9 DEF GetTimesOut, KeptInv, AllSent
    <2>10. CASE End(w)
        BY <2>1, <2>10 DEF End, KeptInv, AllSent
    <2> QED BY <2>2, <2>3, <2>4, <2>5, <2>6, <2>7, <2>8, <2>9, <2>10 DEF WorkerStep
<1> QED BY <1>1, <1>3, <1>4, <1>5 DEF FlushInv

\* Who finds nothing to join, or joined a worker that ended, finds all sent.
LEMMA FlushReturns ==
    ASSUME TypeInv, LockInv, FlushInv, ~broken, NothingToJoin \/ JoinReturns
    PROVE  promised \subseteq sent
<1>1. CASE \E w \in Workers : wpc[w] = "dead"
    BY <1>1 DEF FlushInv, KeptInv, AllSent
<1>2. CASE NothingToJoin /\ promised # {}
    <2>1. PICK w \in Workers : Started(w)
        BY <1>2 DEF FlushInv, AtexitInv
    <2>2. CASE wpc[w] # "dead"
        <3>1. w = thread
            BY <2>1, <2>2 DEF Started, LockInv, OneWorker
        <3> QED BY <1>2, <2>1, <2>2, <3>1, EmitterAssumption DEF NothingToJoin, Alive, Started
    <2> QED BY <1>1, <2>2
<1>3. CASE JoinReturns
    BY <1>1, <1>3 DEF JoinReturns, TypeInv
<1> QED BY <1>2, <1>3

LEMMA FlushMain ==
    ASSUME TypeInv, LockInv, FlushInv, MainStep
    PROVE  FlushInv'
<1>1. UNCHANGED <<queue, wpc, load, pc, atexit, broken, promised, sent>>
    BY DEF MainStep, Shutdown, Exit, Join, NothingToJoin, JoinReturns, JoinTimesOut, client, history
<1>2. shutdown => shutdown'
    BY DEF MainStep, Shutdown, Exit, Join, NothingToJoin, JoinReturns, JoinTimesOut
<1>3. AtexitInv'
    BY <1>1 DEF FlushInv, AtexitInv, Started
<1>4. ~broken => KeptInv'
    BY <1>1, <1>2 DEF FlushInv, KeptInv, AllSent
<1>5. main' \in {"flush", "join"} => shutdown'
    BY DEF MainStep, Shutdown, Exit, Join, NothingToJoin, JoinReturns, JoinTimesOut, Return,
           FlushInv, TypeInv, TypeOK
<1>6. Flushed'
    <2>1. CASE Shutdown \/ Join
        BY <2>1 DEF Shutdown, Join, Flushed
    <2>2. CASE Exit
        BY <2>2, <1>1 DEF Exit, Flushed, FlushInv, AtexitInv
    <2>3. CASE JoinTimesOut
        BY <2>3 DEF JoinTimesOut, Flushed
    <2>4. CASE NothingToJoin \/ JoinReturns
        BY <1>1, <2>4, FlushReturns DEF Flushed
    <2> QED BY <2>1, <2>2, <2>3, <2>4 DEF MainStep
<1> QED BY <1>1, <1>3, <1>4, <1>5, <1>6 DEF FlushInv

LEMMA FlushNext == TypeInv /\ LockInv /\ OrderInv /\ FlushInv /\ [Next]_vars => FlushInv'
<1> SUFFICES ASSUME TypeInv, LockInv, OrderInv, FlushInv, [Next]_vars PROVE FlushInv'
    OBVIOUS
<1>1. CASE UNCHANGED vars
    BY <1>1 DEF FlushInv, AtexitInv, Started, KeptInv, AllSent, Flushed, vars, client, owner, history
<1> QED BY <1>1, FlushProducer, FlushWorker, FlushMain DEF Next

\* For any number of producers, events and workers: a shutdown that neither
\* timed out nor met a worker without a client has POSTed all that was queued
\* before the first one.
THEOREM ShutdownFlushes == Spec => []Flushed
<1>1. FlushInv => Flushed
    BY DEF FlushInv
<1> QED BY <1>1, TypeInvariant, LockInvariant, OrderInit, OrderNext, FlushInit, FlushNext,
           PTL DEF Spec

=============================================================================
