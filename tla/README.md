# Orqis: a TLA+ verification of the incident backend

Orqis watches LLM agents, turns the failures it sees into *incidents*, drafts a
fix and delivers it: on the local disk, or as a GitHub pull request that resolves
the incident when it is merged. This directory models the life of an incident from
the trace event that reveals a failure to the merge that resolves it, and what
stands around it: the SDK and the log daemon that report, the dashboards that watch,
logins, keys, payments and the GitHub connection. TLC checks the models on small
instances; TLAPS proves the main results for every instance.

## 1. The system

One FastAPI process runs everything on one asyncio event loop. Nothing is
preempted, but every `await` (a Redis, Postgres or GitHub call) lets any other
coroutine run, so a value read before an await may be stale after it. The SDK runs
as threads of the application it watches, the log daemon as a process of its own.

| component | source (`src/orqis/`) | state | operations | what makes it correct |
|---|---|---|---|---|
| incident store | `backend/store.py`, `backend/durable.py` | Redis record, timeline, PR index, TTL; Postgres row; one `asyncio.Lock` per incident | `save_incident`, `update_incident`, `finalize_pr_open`, `clear_all`, `set_incident_ttl` | no lost field, mirror follows Redis, locks are always released |
| detectors | `rca/anomaly.py`, `rca/pingpong.py`, ... | what each has learnt per source, tool or run, "fired" and "flagged" sets | `observe`, `sweep`, `is_flagged`, `reset` | an episode is reported exactly when the trace holds one, once, and not twice over |
| RCA pipeline | `rca/pipeline.py` | dedup table, `_dedup_lock`, detached tasks | `trigger` and thirteen `trigger_*`, `_finalize_patch`, `_maybe_open_pr` | no twin incidents, exact hit counts, every detection surfaces, no two failures share an incident |
| algorithms | `rca/diff_engine.py`, `rca/remediation.py`, `rca/patch_generator.py`, `rca/confidence.py`, `rca/applier.py` | the file on the disk | generate, gate, score, parse and apply a diff | what is applied is what was written; no edit of others is undone |
| PR service | `integrations/github/pr_service.py` | none of its own | `open_fix_pr`, `close_pr_for_incident`, `mark_resolved` | a PR that is waited for can be found; no incident leaks; no resolution without a cause |
| webhooks, poller | `integrations/github/webhooks.py`, `backend/server.py` | delivery GUIDs | `_handle_pull_request`, `_handle_installation`, `poll_open_prs` | a merge is noticed, whatever is lost; a delivery counts once |
| dashboard requests | `backend/server.py` | none | approve, dismiss, resolve, open-pr, demo reset | one way of delivery |
| boot | `backend/workspace_auth.py`, `backend/durable.py`, `lifespan` | pre-tenant keys, prefixed keys, rows | copy of old keys, rehydration | a restart never rolls an incident back |
| websocket hub | `backend/ws_manager.py`, `/ws` | list of sockets per workspace | connect, replay, broadcast, disconnect | each event reaches each dashboard once |
| SDK emitter | `instrumentation/emitter.py` | bounded queue, worker thread, shutdown event | emit, worker, shutdown | never blocks, what is queued before shutdown is posted |
| SDK heartbeat | `instrumentation/heartbeat.py`, `__init__.py` | thread, stop event; the agent's key with a TTL | init, shutdown, ping | an agent that runs is shown as up |
| log daemon | `daemon/` | traceback buffer per source, tasks | process a line, post, interpret, drain | each traceback of the log is posted whole |
| workspaces | `backend/workspace_auth.py` | users, owners, members, invites, sessions, keys | login, invite, accept, backfill, create and revoke a key | who was let in gets in; a key that works can be revoked |
| gate | `backend/deps.py` | rate bucket per minute, websocket ticket | count, expire, present | the limit holds; a ticket is used up |
| billing | `backend/billing.py` | plan ids, pending and active subscription | create, pay, verify | plan and payment agree |
| settings, installation | `backend/store.py`, `integrations/github/` | one JSON key and its row, install index | callback, webhook, refresh, PUT | connected means: the webhooks find the workspace |

The components interact through the incident record (read as a snapshot, written
through `update_incident`), detached tasks, and GitHub (the App's calls one way,
webhook deliveries and polling the other). Trace events come from the emitter and
pass the gate, the detectors and the hub in one request; a detector's signal becomes
a detached trigger, the trigger an incident with a diff, the diff a changed file or a
PR. PROJECT.json lists every component with its status, and every hazard with the
line where it bites.

## 2. The modules

| module | models | state | composition |
|---|---|---|---|
| `IncidentLifecycle` | one incident and every coroutine that touches it | `rec`, `expiring`, `index` (Redis); `prs`, `hooks` (GitHub); `task` (where each coroutine is, and its snapshot); `applied` (disk) | the whole backend around one incident |
| `AtomicIncident` | what the store promises | `record`, `content` | abstract specification |
| `IncidentStore` | `update_incident` step by step: lock, GET, SET, upsert, release | `rec`, `row`, `lock`, `pc`, `read` | implements `AtomicIncident` (`INSTANCE ... WITH record <- rec, content <- last`) |
| `Dedup` | fingerprint dedup under the process-wide lock | `table`, `status`, `hits`, `lock`, `pc` | the creation step of `IncidentLifecycle` and `BehaviouralTriggers` in detail |
| `Restart` | wipe, crash, copy of old keys, rehydration | live and pre-tenant keys, `rows`, `phase` | what survives below `IncidentLifecycle` |
| `TraceDetectors` | the thirteen detectors, `receive_trace`, the watchdog, the reset | `seen`, `fired`, `flagged` per detector; `spawned` triggers; `hist`, the trace | hands its signals to `BehaviouralTriggers` |
| `BehaviouralTriggers` | the thirteen `trigger_*` as detached tasks over many incidents | `pc`, `found`; `status`, `table`, `hits`, `guards`, `deleted` | what `IncidentLifecycle` does for one incident and the general trigger |
| `FixDelivery` | from the source that is read to the file that is changed | `file`, `fix`, `approving`, `pull`, `delivered` | the text behind the one step of `IncidentLifecycle` that applies or commits |
| `LiveFeed` | the `/ws` endpoint, its room and the broadcasts | `lists`, `room`, `sock`, `cast`, `saved` | |
| `Emitter` | the SDK's emitter: user threads, lock, queue, worker thread, shutdown, exit | `queue`, `thread`, `wpc`, `pc`, `shutdown`, `main` | the client side; a process of its own |
| `Heartbeat` | init and shutdown over the heartbeat thread and its key | `heart`, `beat`, `stop`, `app`, `age` | beside `Emitter` |
| `LogDaemon` | the reader of a log, its buffers and tasks | `log`, `buffers`, `posts`, `notes`, `mode` | its posts are calls of `Dedup` |
| `Workspaces` | logins, invites, sessions, keys as handlers whose Redis calls interleave | `user`, `owner`, `role`, `invite`, `session`, `index`, `meta`; `handler` | |
| `Gate` | the ingest limit and the websocket ticket | `count`, `expiring`, `ticket`; `call`, `opener` | in front of `TraceDetectors` and `LiveFeed` |
| `Billing` | checkouts | `planCache`, `pending`, `active`; `made`, `paid` (Razorpay); `checkout` | |
| `GithubConnection` | settings and installations | `settings`, `row`, `bound`, `seen`; `granted`, `mail` (GitHub); `change` | which installation `IncidentLifecycle` opens PRs with |
| `MC*` | TLC instances; `MCFixing`, `MCEdge`, `MCAccess` hold components that share no state, one of which (`part`) runs in a behaviour | | |
| `<M>_proofs` | theorems about `IncidentLifecycle`, `Dedup`, `Emitter`, `TraceDetectors` | | extend their module |
| `Store_proofs` | theorems about `IncidentStore` and `Restart` | | |
| `Access_proofs`, `Fixing_proofs`, `Edge_proofs` | theorems about the components of `MCAccess`, `MCFixing`, `MCEdge`, each from its own specification, and the types of all of them | | |

How code becomes actions: an action is the code between two awaits whose
interleaving another coroutine can notice. `task[t].pc` names the await a coroutine
stands at, `task[t].old` the `pr_number` of the snapshot it read; the handlers of
`Workspaces`, `Gate`, `Billing` and `GithubConnection` are written the same way, with a
Redis pipeline as one call, since it is a transaction. A store call is one
step in `IncidentLifecycle` because `IncidentStore` shows that it may be: the
read-modify-write under the lock implements an atomic patch, resets included. So is
the creation of an incident in `BehaviouralTriggers`, because of `Dedup`.
Two incidents share neither key nor lock nor PR number, so one incident is
modelled in `IncidentLifecycle`. `receive_trace` asks all detectors without an await in
between, so an event is one step of `TraceDetectors`, and a detector is an operator from
its state and an event to its next state and its report. What the LLM, the diff
generators and the humans answer is a free choice (`Fixes`, `mapped`, `force`, `Script`,
...). In `Emitter` and `Heartbeat` the actors are preemptive threads, so every
read or write of what they share is an action: the two looks for a live worker, the
construction and the start of a thread, the flag and the queue in the worker's loop
condition. Definitions whose comment begins with
"Mutant" are faulty variants; nothing but the mutation tests of PROJECT.json uses
them.

## 3. What the runs check

| run | bounds | shows |
|---|---|---|
| `lifecycle` | 2 requests, 2 PRs, one restart; requests symmetric | `DeliveredOneWay`, `OpenPrIsIndexed`, `FinishedIsExpiring`, `ResolvedHasCause`, `MergeIsLogged` over every interleaving of the pipeline, an opener, the poller and two requests |
| `merge_noticed` | 1 request, 2 PRs | `MergeIsNoticed`: a merged PR gets its incident out of `pr_open` although webhooks are lost and the backend restarts |
| `store` | 3 updates, 2 fields, 2 values | `NoLostUpdate`, `RowMirrorsRecord`, refinement of `AtomicIncident`, `UpdatesReturn` |
| `dedup` | 3 triggers of one fingerprint | `NoTwins`, `EveryHitCounted`, `TriggersReturn` |
| `restart` | 3 incidents, symmetric | `BootKeepsLive`, `NotOlderThanDurable` |
| `traces` | thresholds of 2 and 3 (those of the code are 2 to 8), windows of 1 to 3 ticks; scenarios of up to six events, one scenario per shape a detector must tell from a harmless one, with pauses and resets where it looks at time | `CallsAreCounted` (`LoopsAreCaught`, `StormsAreCaught`, `SpikesAreCaught`), `EpisodesAreCaught` (`BouncesAreCaught`, `PoisonIsCaught`, `MisuseIsCaught`), `GenericDefers`, `StallsAreReported` |
| `fixing` | three detections at a time from six cases that cover the thirteen classes, two ping-pongs of one run among them; texts of 3 and 5 lines, up to two changed lines, context 1, one edit by others, two approvals | `NoMixups`, `GuardsAreSingleSite`, `DetectionsSurface`; `HunksAreExact` (`AppliedAsWritten`, `StaleIsRefused`), `EditsSurvive` |
| `emitter` | 2 producers with 2 events each, 4 workers, a queue of 2, one shutdown and the exit | `OneWorker`, `InOrder`, `Flushed`, `QueuedIsPosted` over every interleaving of the threads |
| `edge` | feed: 2 dashboards, 2 events, 3 list objects; heartbeat: the code's 15 s, 3 s and 90 s, 3 threads; log: every log of 4 lines of two sources, a buffer of 2 | `EventsOnce` (`NoEventLost`, `SentOnce`, `RoomIsLive`), `AgentIsShown` (`OneHeart`, `ActiveBeats`, `FewFailuresUnseen`), `LogIsAnswered` (`TracebacksFound`, `EndLosesNothing`) |
| `access` | workspaces: 2 users, 2 workspaces, an invite, 2 keys, 2 handlers at a time, 4 requests, restarts anywhere; gate: 3 requests, limit 2, 2 minutes, 2 handshakes, one restart; billing: 2 workspaces, prices, subscriptions and handlers; connection: 2 installations, 2 GUIDs, 3 changes, 2 at a time, one restart | `MembersGetIn` (`SessionsAreHonoured`, `HomesAreOpen`), `WorkingKeysAreListed`, `GateIsTight` (`AdmittedWithinLimit`, `BucketsExpire`, `UsedTicketIsDead`), `ActiveAsPriced`, `ConnectionIsTrue` (`HandledOnce`, `CalmSettings`) |
| `claim_*` | as above | a statement of the repository that the code does not keep; see section 5 |

The runs `traces`, `fixing`, `edge` and `access` check their `TypeOK`; the type invariants of
all components are proved (section 4).

Why the bounds are enough. Every hazard of the lifecycle is a race of two actors
over one incident, with the pipeline and the poller beside them: two requests, the
pipeline and the poller give four actors, and two PRs distinguish "the PR" from
"another PR". One restart meets every state; a second one would meet states of the
same kind, since a restart only empties `task`. The store needs two writers for a
lost update and a third to be overtaken. Dedup needs one trigger to create and two
to race on the count. A detector compares a count with its threshold and an age with
its window; 2 and 3 leave room for the count that is one short, the one that meets
it, and an interruption in between, and its property recounts the trace by itself.
Three triggers are needed for `GuardsAreSingleSite`: two whose fixes are judged and one
that adds a site. A text of five lines with a context of one holds two hunks that do
not touch, one of three lines repeats a line and holds one that begins with `--`. The
walk of a broadcast can be disturbed by one socket that leaves before another; three
list objects are the room and what two broadcasts hold. The emitter has two producers to race for the worker, a second
event of each for order and for a queue that is full, one worker per event, which is
as many as can be constructed, and two shutdowns (a call and the exit), the second of
which meets what the first one left. The handlers of `access` meet in pairs over one
record; what is proved of them (section 4) holds for any number.

Fairness. `IncidentLifecycle`: weak fairness for the steps of a coroutine that is
running (the event loop runs what is ready, a store call returns) and for the
poller's listing (a loop with `sleep(300)`); strong fairness for the poller's GitHub
answer, because `get_pull_request` may fail any number of times but is asked again
and again. Nothing is assumed of webhooks, humans, or of how soon a task is
started. `IncidentStore` and `Dedup`: `asyncio.Lock` wakes its waiters in FIFO order, hence strong
fairness for taking the lock, and weak fairness for each step under it. That a step
may fail is a free choice and never required. `TraceDetectors`: weak fairness for the watchdog's
sweep, a loop with a sleep. `BehaviouralTriggers`: weak fairness for each detached task, which
the event loop runs. `Emitter`: weak fairness for each worker thread, which the
operating system runs; nothing is assumed of the user's threads. The other components
are checked for safety only.

CHECK_DEADLOCK is off where the system may stop: all one-shot coroutines finished
and no key left.

## 4. What is proved

Every safety property of a passing run is proved, for every value of the constants that
the named assumption allows.

`IncidentLifecycle_proofs`, for every set of requests and every number of PRs, from
`TaskAssumption` and `MaxPrAssumption` only:

* `TypeCorrect`: `Spec => []TypeOK`. It needs one fact that is not a type: a
  coroutine at `finalize` or `automerge` holds a PR, one at `dis_close` knows the old
  one (`OpenerHasPr`).
* `OneWay`: `Spec => []DeliveredOneWay`. The property is not inductive: nothing in it
  stops a coroutine that is *about* to open a PR. `OneWayInv` adds the reason the code
  is right: the mapping to a repository is decided once, before there is a diff
  (`rec.fix # "none" => Past`); whoever may open a PR saw a mapped record; and `approve`
  refuses a mapped record with no await between that check and the write to disk.
* `ResolutionHasCause`: `Spec => []ResolvedHasCause`. `mark_resolved` reads and writes in
  separate steps, so `CauseInv` says that whoever stands between them has a cause,
  and that a poller that asks GitHub asks about a PR; a merged PR stays merged.
* `FinishedExpires`: `Spec => []FinishedIsExpiring`, inductive together with the types:
  the coroutine that writes a finished status does not end before it re-armed the TTL.
* `OpenPrCanBeFound`: `Spec => []OpenPrIsIndexed`. `IndexInv` adds that a PR is known to
  nobody but its opener until `finalize_pr_open` wrote it (`KnownPrs`, `OwnPr`), so no
  stale cleanup can drop the index entry of the PR the incident waits for
  (`CleanupOK`).
* `MergesAreLogged`: `Spec => []MergeIsLogged`. `LogInv` adds that the update which resolves
  without a log entry is made only on request; the coroutine of a merge stands two steps
  from its entry and only a restart takes it away.

`Store_proofs`, from `StoreAssumption`; the last three from nothing:

* `TypeCorrect`: `Spec => []TypeOK`.
* `UpdatesAreKept`: `Spec => []NoLostUpdate`. `LockInv`: the lock has one holder; what
  that holder read is still what was last written; nothing is updated before the
  incident is saved.
* `StoreIsAtomic`: `Spec => ImplementsAtomic`. The creator's SET maps to Create, an
  updater's SET to Patch, a reset to Clear, every other step stutters. This is what lets
  `IncidentLifecycle` take a store call for one step.
* `MirrorKeepsUp`: `Spec => []RowMirrorsRecord`. While `~behind`, row and record differ only
  between the two writes of one call (`MirrorInv`).
* `RestartTypeCorrect`: `RestartSpec => []RestartTypeOK`.
* `NeverOlder`: `RestartSpec => []NotOlderThanDurable`. `RestartInv` gives the reason that the copy
  of old keys does no harm: as long as the timeline under the prefix is empty and no row was
  lost, a pre-tenant copy is what its row says; and a live incident is in the timeline,
  which is what the migration looks at.
* `BootIsHarmless`: `RestartSpec => BootKeepsLive`, from the same invariant.

`Dedup_proofs`, from `DedupAssumption`:

* `TypeCorrect`: `Spec => []TypeOK`.
* `NoTwinIncidents`: `Spec => []NoTwins`. The lock is held from the lookup to the
  registration, so what the lookup saw still holds when the new incident is entered
  in the table (`DedupInv`).
* `HitsAreCounted`: `Spec => []EveryHitCounted`. The count read under the lock is still
  the count when it is written (`HitsInv`). That the triggers counted so far are finitely
  many is part of the invariant, so the set of triggers may be infinite.

`Emitter_proofs`, from `EmitterAssumption`:

* `TypeCorrect`: `Spec => []TypeOK`, the bound of the queue included.
* `SingleThread`: `Spec => []OneWorker`. `LockInv`: whoever constructed a thread holds the lock until
  it runs, so a thread that is not alive yet is not taken for a missing one.
* `EventsInOrder`: `Spec => InOrder`. `OrderInv`: of one producer's events, those sent
  precede the one in the worker's hand, which precedes those in the queue, which
  precede the one about to be put. One worker at a time is what makes it inductive.
* `ShutdownFlushes`: `Spec => []Flushed`. `FlushInv`: what was queued before the first shutdown
  is sent, in hand or queued, and a worker past its last look at the queue has sent all of it.

`TraceDetectors_proofs`, from `TraceAssumption` (the default workspace is one; an event
belongs to a workspace, its sizes are numbers and its flags Booleans, and a harmful call
is one of a tool), for any events, scenarios, windows and thresholds:

* `TypeCorrect`: `Spec => []TypeOK`. `Typed` adds that the times of the trace never go back.
* `CatchAllDefers`: `Spec => GenericDefers`, a step property that needs the types only.
* `StallsAreSilent`: `Spec => OnlyStalls`, the safety half of `StallsAreReported`: what the
  watchdog keeps of a run is its last open operation.
* `LoopsCaught`, `StormsCaught`, `SpikesCaught` and, from them, `CallsCounted`:
  `Spec => []CallsAreCounted`.
* `MisuseCaught`, `BouncesCaught`, `PoisonCaught` and, from them, `EpisodesCaught`:
  `Spec => []EpisodesAreCaught`.

  A detector keeps a few numbers, its property looks at the whole trace, and the invariant
  of each says what of the trace those numbers are. `LoopInv`: the stamps kept are those of
  the calls within a window of the last one. `StormInv`, `OverflowInv`, `SpikeInv`: the count
  is the length of the streak that ends at the last call of the key, and the samples are the
  sizes of its first calls. `MisuseInv`: the tools allowed are those of the clean calls.
  `BounceInv`: count and streak differ by one at most, because a repeated hand-off counts one
  and a first one none. `PoisonInv`: there is a set of payloads that the detector took for
  healthy, none of them empty and all those before the first loss among them, and what it keeps
  is their keys and the stamps of the rest. One event makes a streak one longer or ends it (`Counts`),
  so the step is a fact about the last event and no induction over the trace is needed.

`Fixing_proofs`, from `TriggersAssumption` (finitely many tasks) and `DeliveryAssumption` (a text is a
sequence of lines, a hunk has context, nobody else writes the word of the fix):

* `DetectionsKeptApart`: `TriggersSpec => []NoMixups`. `KeysInv`: a task finds an incident of
  its own fingerprint only. The failures of one incident are of one class, workspace and
  source; only the fingerprints of loops (`pipeline.py:377`), ping-pongs (`:734`) and cascades
  (`:1099`) leave the source out, and those share the call or the run.
* `GuardsKeptApart`: `TriggersSpec => []GuardsAreSingleSite`. A trigger may add a site while a guard
  is drafted; `SitesInv` and `HitsInv` say that the site of a guard is among those seen, and
  that a hit came from a task that found the incident.
* `FixingTypeCorrect`: `FixingSpec => []TypeOK`. For the delivery it needs `FixInv`: each
  approval that read the incident in time writes to the disk once, a branch is written once.
* `FixesKeepEdits`: `FixingSpec => []EditsSurvive`, and `HunksApplyExactly`:
  `FixingSpec => []HunksAreExact`. `DeliveryInv` says that the hunks are the diff of a rewriting of the
  text that was read, and that each delivery is what `apply_hunks` or the patch command made with
  them of the file it met; the rest is about these algorithms, for any text, any rewriting that
  keeps or drops each line and adds at most one after it, and any context:
  * A hunk, wherever it is applied, passes over a line only if it keeps it or shows it (`LineCarries`,
    `HunkCarries`, `PlacedCarries`), and shows only lines of the text that was read (`HunkTyped`).
    So a word that came later stays.
  * While a hunk is applied, the lines of the file are those of the text it was made for, one by one,
    and what is left behind is the rewritten text up to there (`RunIs`, `RunAlong`); between two
    hunks no line is near a change (`NextHunk`), so none changes (`UpToKeeps`). Hence `DiffIsExact`.
  * Its definitions are folds. What `FoldLeft` chooses takes one step per element (`FoldSteps`), since
    a function with these steps exists (`Recursion`) and two of them agree (`TrailsAgree`). Induction is
    over a set of numbers that contains 0 and every successor (`Induct`), which follows
    from the library's theorem that `<` is well founded.

`Edge_proofs`:

* `HeartHolds`: `HeartSpec => []AgentIsShown`, from `HeartAssumption`, whose
  5 Interval + 4 Timeout < Ttl holds of the code's 15, 3 and 90 seconds. `ThreadsInv`: only the
  thread constructed last beats; `AppInv`: what `start` and `shutdown` know at their steps;
  `AgeInv`: the age of the key is bounded by the pings that failed since it was set.
* `LogHolds`: `LogSpec => []LogIsAnswered`, from `LogAssumption`. `BuffersInv`: the buffer of a
  source holds the lines of its open traceback; `TasksInv`: what is posted or about to be is
  what the log, read from its beginning, asks for.
* `FeedHolds`: `FeedSpec => []EventsOnce`, from `FeedAssumption` (finitely many dashboards and
  events, a list object more than events, so that one is always free). `ListsInv`, `CastInv`: a socket
  is in a list once, and a broadcast does not meet again whom it passed; `LiveInv`, `HaveInv`: an
  event that a dashboard lacks is in its replay, or its broadcast has yet to reach it.
* `EdgeTypeCorrect`: `EdgeSpec => []TypeOK`.

`Access_proofs`:

* `GetIn`: `SpacesSpec => []MembersGetIn` and `KeysAreListed`: `SpacesSpec => []WorkingKeysAreListed`,
  from `SpacesAssumption`. `SpacesInv` says of every handler what it may rely on at its next
  call (`HandlerOK`), and `Later` what a step may do to the others: owners and members stay, a key
  that left the index stays away. So every handler is treated once for its own steps and
  once for all those of the others.
* `GateHolds`: `GateSpec => []GateIsTight`, from `GateAssumption` (finitely many requests).
  `BucketInv`: the requests counted in a bucket that is there have distinct numbers from 1 to
  its count, and a request is judged by its number, so the admitted ones inject into
  `1..RateLimit`; a bucket goes away only after its minute, when nobody arrives at it any
  more. `TicketInv`: a ticket that opened a websocket is gone, and whoever came later has not
  seen it.
* `PricesHold`: `BillingSpec => []ActiveAsPriced`, from `BillingAssumption`. `DealInv` says
  of each checkout what it may rely on (`Relies`): a plan was made for its price, a pending record is
  the deal its subscription was made with, and deals and payments stay as they are.
* `ConnectionHolds`: `GithubSpec => []ConnectionIsTrue`, from `GithubAssumption`. `DeliveryInv`: a
  delivery is handled by the change that put it into the seen set; `CalmInv`: the only change under
  way knows that what it is about to write is what the others hold (`Alone`).
* `AccessTypeCorrect`: `AccessSpec => []TypeOK`. For Razorpay's plans it needs `PlansInv`: a
  price has no more plans than checkouts that found it uncached.

Proof layout: a lemma per group of actions says which coroutine moves and where
(`PipelineMoves`, ...); an action then either keeps what the invariant speaks of
(`KeptOneWay`, `MovedOneWay`) or is treated by itself. A composition (`FixingSpec`,
`EdgeSpec`, `AccessSpec`) steps one part and leaves the others, so its types are those of
the parts.

Only model-checked: the liveness properties `MergeIsNoticed`, `UpdatesReturn`,
`TriggersReturn`, `QueuedIsPosted`, `DetectionsSurface` and the leads-to half of `StallsAreReported`, since
liveness under fairness is out of the prover's reach.

## 5. Where code and documents disagree

Each has a run that TLC refutes:

* `claim_never_raises`: `open_fix_pr` "never raises" (`pr_service.py:144`); the refusal of
  a diff with a secret calls the nested `_fail` above its definition (`:153`).
* `claim_restored`: after a restart Redis is "intact" (`durable.py:12`); the rehydrated
  keys lack the workspace prefix the store reads, and the copy of old keys runs before.

Seen while modelling and not given a run; where a property meets the case, it
excuses it by name:

* Pull requests. `open_fix_pr` is "idempotent" (`:143`), but two calls that read the
  incident before either finalized open two. `mark_resolved` is "idempotent" (`:333`), but two
  that pass its check log twice. The merge webhook "can always resolve the incident, even
  if it fires fast" (`pr_service.py:12`), but the index is written after the PR exists and a
  delivery in between is answered "pending" (the poller makes up for it). A dismissed incident
  sees "no action taken" (`models.py:206`), but a late diff overwrites the status and may
  open a PR. A `pr_open` incident "survives until the PR is merged" (`store.py:323`), but a
  dismissal re-arms its TTL late, perhaps when another PR is open.
* Pipeline. `trigger` "never raises" (`pipeline.py:295`) but dereferences `None` when the incident
  is deleted under it. `clear_all` takes no lock, so an update may bring a deleted incident
  back (`store.py:216`). The "one-time" copy of old keys (`workspace_auth.py:432`) repeats after a
  demo reset. The fingerprint of a runaway loop names the call and not the agent, so the
  loops of two agents on one tool share an incident.
* Detectors. `generic.py` "never double-reports" a retry storm, but `receive_trace` asks it before
  `retry_storm` and `binding_drop`. `stuck.py` keeps one entry per run, so the end of an inner
  operation also ends the outer one.
* Diffs. A removed line that begins with `--` reads as a file header, and the rest of its hunk
  is skipped (`diff_engine.py:37`). The patch command may move hunks, so a fix that is approved
  twice may be applied a second time elsewhere. The bonus of `confidence.score` for ruff is never
  reached, and neither are the branches of generators and validator that read the disk, since
  a location always stores its source.
* SDK. After a `shutdown()` and a new `init()` an event may stay in the queue for good although the
  exit flushes (`emitter.py:82`); the emitter drops events "after MAX_RETRIES" (`:8`) but
  makes one attempt. `heartbeat.start` is "idempotent" (`heartbeat.py:30`), but right after `stop()`
  it finds the old thread alive, leaves the stop event set, and the heartbeat ends.
* Feed and daemon. A socket that leaves in the middle of a broadcast makes the walk skip the
  next one. An interpretation may be sent before its event is saved, and is then answered
  404. Lines of one traceback whose parsed source differs are scattered over buffers, and an
  exception not named `...Error` or `...Exception` leaves its traceback without an end.
* Access. An owner who accepts an invite to his own workspace becomes a member. Two first
  logins of one user make two workspaces. Two users may use one invite, and two handshakes one
  ticket, if they overlap. A user record is read and written in separate calls and may lose a
  workspace (not the membership). A paid subscription whose pending record expired is
  answered 404; checkouts that overlap make a plan twice (`billing.py:101`).
* Connection. `save_settings` loses one of two changes that overlap; a failed listing of repositories
  stores an empty list; the deletion webhook of an old installation disconnects a newer one;
  a delivery is recorded before it is processed, so one that fails is not retried.

## 6. Not modelled, and why

* No state of its own: LLM calls and prompts, text templates, the regular expressions of
  normalizer and pattern matcher, ingest adapters, source resolution and path mapping, the MCP server,
  the CLI, the wrappers around provider SDKs, the React dashboard. What they answer is a free
  choice, or a field of an event, in the models that use it.
* Not used: `tenant_auth.py`, whose keys and five-minute cache no route reads.
* Lists and summaries: audit, stats, sources, health, the capped lists of events, traces and changes.
  They are appended to and read, and nothing decides by them, the change-log entry of a
  resolution excepted, which `MergeIsLogged` is about.
* Needs many incidents: the poller's window of 200 and the 500-row limit of the rehydration.
* I/O: HTTP transport, tokens, OAuth exchange, cookies, signatures, the Postgres driver.
* Time: sessions, invites and tickets expire by a free choice, not by a clock; only the windows
  of the detectors, the minutes of the ingest limit and the life of a heartbeat key count it.
* The hot reload after a merge, and the path in the header of a diff: a location on the local
  disk with a repository attached from the settings carries an absolute path, on which
  `open_fix_pr` ends in `pr_failed`.

What could be proved next: that `Dedup` implements a table whose creation is one step, as
`BehaviouralTriggers` assumes of it.
