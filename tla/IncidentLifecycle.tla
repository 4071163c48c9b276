-------------------------- MODULE IncidentLifecycle --------------------------
(***************************************************************************)
(* One incident, from detection to delivery, and every coroutine of the    *)
(* backend that reads or writes it: the RCA pipeline that creates and      *)
(* patches it, open_fix_pr, mark_resolved, the dashboard requests          *)
(* (approve, dismiss, resolve, open-pr, demo reset), the GitHub webhook    *)
(* and the poller that backs the webhook up.                               *)
(*                                                                         *)
(* All of them run on one asyncio event loop, so a step here is the code   *)
(* between two awaits whose interleaving the incident can notice: the read *)
(* of a snapshot, one store call, one GitHub call.  A store call is atomic *)
(* here; module IncidentStore shows why (the per-incident lock) and what   *)
(* that atomicity does not cover.  Two incidents share no key, lock or PR  *)
(* number, so one incident is the whole story; the poller's window over    *)
(* many incidents is not modelled.                                         *)
(***************************************************************************)
EXTENDS Naturals, FiniteSets

CONSTANTS
    Requests,   \* one-shot request handlers: dashboard calls and webhooks
    Pipeline,   \* the trigger() coroutine that owns the incident
    Poller,     \* the poll_open_prs loop
    MaxPr       \* bound: pull requests GitHub hands out for this incident

ASSUME TaskAssumption ==
    /\ Pipeline \notin Requests
    /\ Poller \notin Requests
    /\ Pipeline # Poller

ASSUME MaxPrAssumption == MaxPr \in Nat \ {0}

Tasks == Requests \cup {Pipeline, Poller}

PrNums == 1 .. MaxPr

NoPr == 0       \* pr_number is None

\* IncidentStatus, plus "gone": the Redis key does not exist (not created
\* yet, cleared, or expired).  PATCHING is declared and never assigned.
Status ==
    {"gone", "open", "needs_action", "patched", "low_confidence", "approved",
     "dismissed", "pr_open", "pr_failed", "patch_stale", "resolved"}

\* What the diff is, as far as control flow tells diffs apart:
\*   guard   deterministic, single site: PATCHED, auto-opens a PR
\*   review  LLM or systemic: PATCHED, a human opens the PR
\*   low     LOW_CONFIDENCE
\*   leaky   like guard, but scan_for_secrets matches it
Fixes == {"none", "guard", "review", "low", "leaky"}

Record == [status : Status, pr : 0 .. MaxPr, repo : BOOLEAN, fix : Fixes]

Pc == {"idle", "locate", "generate",                        \* trigger
       "opening", "finalize", "automerge", "pr_raised",     \* open_fix_pr
       "res_read", "res_update", "res_cleanup", "res_ttl",  \* mark_resolved
       "asking",                                            \* poller
       "dis_close", "dis_update", "rsv_update", "rearm",    \* dashboard
       "app_update", "http_500", "rca_raised", "done"}

\* pr: the PR the task works on.  old: pr_number in the snapshot it read.
\* live: whether its last update_incident returned a record.
Task == [pc : Pc, pr : 0 .. MaxPr, old : 0 .. MaxPr, live : BOOLEAN]

VARIABLES
    rec,            \* the incident key in Redis
    expiring,       \* the key has a TTL
    index,          \* PR numbers with a PR -> incident index key
    applied,        \* the diff was written to the local working copy
    prs,            \* PR number -> its state on GitHub
    hooks,          \* PRs whose "closed" webhook delivery is in flight
    task,           \* the coroutines
    crashed,        \* the backend process has been restarted
    closeAsked,     \* history: PRs a dismissal asked GitHub to close
    resolveAsked,   \* history: a human pressed Resolve
    mergedLog       \* history: number of "pr_merged" entries in the change log

store == <<rec, expiring, index>>
github == <<prs, hooks>>
ghosts == <<crashed, closeAsked, resolveAsked>>
vars == <<rec, expiring, index, applied, prs, hooks, task, crashed,
          closeAsked, resolveAsked, mergedLog>>

Idle == [pc |-> "idle", pr |-> NoPr, old |-> NoPr, live |-> FALSE]
Done == [Idle EXCEPT !.pc = "done"]

\* A finished coroutine is gone; the poller loops.
Finish(t) == task' = [task EXCEPT ![t] = IF t = Poller THEN Idle ELSE Done]
Goto(t, where) == task' = [task EXCEPT ![t].pc = where]

Gone == [status |-> "gone", pr |-> NoPr, repo |-> FALSE, fix |-> "none"]
Present == rec.status # "gone"

Init ==
    /\ rec = Gone
    /\ expiring = FALSE
    /\ index = {}
    /\ applied = FALSE
    /\ prs = [n \in PrNums |-> "none"]
    /\ hooks = {}
    /\ task = [t \in Tasks |-> Idle]
    /\ crashed = FALSE
    /\ closeAsked = {}
    /\ resolveAsked = FALSE
    /\ mergedLog = 0

-----------------------------------------------------------------------------
(* store.py: update_incident patches fields of a record that exists and    *)
(* returns None otherwise; the TTL is kept.                                *)

SetStatus(s) == rec' = IF Present THEN [rec EXCEPT !.status = s] ELSE rec

-----------------------------------------------------------------------------
(* rca/pipeline.py: trigger and the behavioural triggers                   *)

\* save_incident, inside the dedup lock (module Dedup).
Create ==
    /\ task[Pipeline].pc = "idle"
    /\ rec' = [rec EXCEPT !.status = "open"]
    /\ expiring' = TRUE
    /\ Goto(Pipeline, "locate")
    /\ UNCHANGED <<index, applied, github, ghosts, mergedLog>>

\* An authentication or permission error is flagged and never patched.
FlagOperational ==
    /\ task[Pipeline].pc = "locate"
    /\ SetStatus("needs_action")
    /\ Finish(Pipeline)
    /\ UNCHANGED <<expiring, index, applied, github, ghosts, mergedLog>>

\* The located fields, repo_full_name among them when the source is mapped.
Locate(mapped) ==
    /\ task[Pipeline].pc = "locate"
    /\ rec' = IF Present THEN [rec EXCEPT !.repo = mapped] ELSE rec
    /\ Goto(Pipeline, "generate")
    /\ UNCHANGED <<expiring, index, applied, github, ghosts, mergedLog>>

\* No code location, or no diff: the incident stays as it is.
NothingToPatch ==
    /\ task[Pipeline].pc \in {"locate", "generate"}
    /\ Finish(Pipeline)
    /\ UNCHANGED <<store, applied, github, ghosts, mergedLog>>

\* What the spawned open_fix_pr(snapshot) does first: the secret scan calls
\* the local function _fail before its def has run and raises; otherwise it
\* awaits the settings.
EnterOpenFixPr(fix) == IF fix = "leaky" THEN "pr_raised" ELSE "opening"

\* _maybe_open_pr, on the record the update returned.
AfterPatch(fix, mapped, lowOptIn) ==
    IF /\ mapped
       /\ \/ fix \in {"guard", "leaky"}
          \/ fix = "low" /\ lowOptIn
    THEN EnterOpenFixPr(fix)
    ELSE "done"

\* _finalize_patch: the diff, its verdict and the status in one update.  A
\* record cleared meanwhile makes the coroutine dereference None.
FinalizePatch(fix, lowOptIn) ==
    /\ task[Pipeline].pc = "generate"
    /\ IF Present
       THEN /\ rec' = [rec EXCEPT !.fix = fix,
                           !.status = IF fix = "low" THEN "low_confidence"
                                                     ELSE "patched"]
            /\ Goto(Pipeline, AfterPatch(fix, rec.repo, lowOptIn))
       ELSE /\ rec' = rec
            /\ Goto(Pipeline, "rca_raised")
    /\ UNCHANGED <<expiring, index, applied, github, ghosts, mergedLog>>

-----------------------------------------------------------------------------
(* github/pr_service.py: open_fix_pr                                       *)

\* No installation: return silently.
OpenNotInstalled(t) ==
    /\ task[t].pc = "opening"
    /\ Finish(t)
    /\ UNCHANGED <<store, applied, github, ghosts, mergedLog>>

\* Any of the GitHub calls or checks up to open_pull_request fails: _fail
\* records the reason whatever the incident's status has become.
OpenFail(t, s) ==
    /\ task[t].pc = "opening"
    /\ SetStatus(s)
    /\ Finish(t)
    /\ UNCHANGED <<expiring, index, applied, github, ghosts, mergedLog>>

\* A branch of its own (create_branch renames on collision), the commit and
\* the pull request.  GitHub numbers them in order.
OpenPullRequest(t) ==
    /\ task[t].pc = "opening"
    /\ \E n \in PrNums :
        /\ prs[n] = "none"
        /\ \A m \in 1 .. (n - 1) : prs[m] # "none"
        /\ prs' = [prs EXCEPT ![n] = "open"]
        /\ task' = [task EXCEPT ![t].pc = "finalize", ![t].pr = n]
    /\ UNCHANGED <<store, applied, hooks, ghosts, mergedLog>>

\* Mutant: the index is not written.
FinalizeUnindexed(t) ==
    /\ task[t].pc = "finalize"
    /\ rec' = IF Present THEN [rec EXCEPT !.status = "pr_open", !.pr = task[t].pr] ELSE rec
    /\ expiring' = FALSE
    /\ Goto(t, "automerge")
    /\ UNCHANGED <<index, applied, github, ghosts, mergedLog>>

\* finalize_pr_open: index, status and TTL in one transaction under the
\* incident's lock.  An incident cleared meanwhile leaves the PR unindexed.
FinalizePrOpen(t) ==
    /\ task[t].pc = "finalize"
    /\ IF Present
       THEN /\ rec' = [rec EXCEPT !.status = "pr_open", !.pr = task[t].pr]
            /\ expiring' = FALSE
            /\ index' = index \cup {task[t].pr}
            /\ Goto(t, "automerge")
       ELSE /\ UNCHANGED store
            /\ Finish(t)
    /\ UNCHANGED <<applied, github, ghosts, mergedLog>>

\* is_auto_merge_eligible: validated, so not a low-confidence diff; method,
\* path and toggle are left open.
MayAutoMerge == rec.fix \in {"guard", "review"}

\* Not eligible for auto-merge, or the merge call failed (pr_error only).
NoAutoMerge(t) ==
    /\ task[t].pc = "automerge"
    /\ Finish(t)
    /\ UNCHANGED <<store, applied, github, ghosts, mergedLog>>

\* A deterministic, validated, config-only fix with the toggle on is merged
\* and resolved inline.
AutoMerge(t) ==
    /\ task[t].pc = "automerge"
    /\ MayAutoMerge
    /\ prs[task[t].pr] = "open"
    /\ prs' = [prs EXCEPT ![task[t].pr] = "merged"]
    /\ hooks' = hooks \cup {task[t].pr}
    /\ Goto(t, "res_read")
    /\ UNCHANGED <<store, applied, ghosts, mergedLog>>

-----------------------------------------------------------------------------
(* github/pr_service.py: mark_resolved                                     *)

\* The idempotence check, on a snapshot.
ResolveRead(t) ==
    /\ task[t].pc = "res_read"
    /\ IF rec.status \in {"gone", "resolved"}
       THEN Finish(t)
       ELSE task' = [task EXCEPT ![t].pc = "res_update", ![t].old = rec.pr]
    /\ UNCHANGED <<store, applied, github, ghosts, mergedLog>>

ResolveUpdate(t) ==
    /\ task[t].pc = "res_update"
    /\ SetStatus("resolved")
    /\ task' = [task EXCEPT ![t].pc = "res_cleanup", ![t].live = Present]
    /\ UNCHANGED <<expiring, index, applied, github, ghosts, mergedLog>>

\* Deleting the head branch of an open PR closes it.
BranchDeleted(n) ==
    IF n \in PrNums /\ prs[n] = "open" THEN [prs EXCEPT ![n] = "closed"] ELSE prs

\* Best-effort deletion of the snapshot's branch, then the index entry of the
\* PR that was merged.
ResolveCleanup(t) ==
    /\ task[t].pc = "res_cleanup"
    /\ prs' \in {prs, BranchDeleted(task[t].old)}
    /\ index' = index \ {task[t].pr}
    /\ task' = [task EXCEPT ![t] =
                  [Idle EXCEPT !.pc = "res_ttl", !.live = task[t].live]]
    /\ UNCHANGED <<rec, expiring, applied, hooks, ghosts, mergedLog>>

\* Mutant: the TTL is not re-armed.
ResolveWithoutTtl(t) ==
    /\ task[t].pc = "res_ttl"
    /\ mergedLog' = IF task[t].live THEN mergedLog + 1 ELSE mergedLog
    /\ Finish(t)
    /\ UNCHANGED <<store, applied, github, ghosts>>

\* Mutant: the status is looked at once more before the entry is written.
ResolveLogsNews(t) ==
    /\ task[t].pc = "res_ttl"
    /\ expiring' = Present
    /\ mergedLog' = IF task[t].live /\ rec.status # "resolved" THEN mergedLog + 1 ELSE mergedLog
    /\ Finish(t)
    /\ UNCHANGED <<rec, index, applied, github, ghosts>>
\* set_incident_ttl, then the change-log entry if the update found a record.
ResolveTtl(t) ==
    /\ task[t].pc = "res_ttl"
    /\ expiring' = Present
    /\ mergedLog' = IF task[t].live THEN mergedLog + 1 ELSE mergedLog
    /\ Finish(t)
    /\ UNCHANGED <<rec, index, applied, github, ghosts>>

-----------------------------------------------------------------------------
(* backend/server.py: the dashboard requests                               *)

\* Mutant: the repo check is missing.
ApproveMapped(t, force) ==
    /\ task[t].pc = "idle"
    /\ rec.status = "patched" \/ (force /\ rec.status = "low_confidence")
    /\ applied' = TRUE
    /\ Goto(t, "app_update")
    /\ UNCHANGED <<store, github, ghosts, mergedLog>>

\* approve: check and apply() with no await in between.  An incident with a
\* repo is delivered as a PR and is refused here.
Approve(t, force) ==
    /\ task[t].pc = "idle"
    /\ ~rec.repo
    /\ \/ rec.status = "patched"
       \/ force /\ rec.status = "low_confidence"
    /\ rec.fix # "none"
    /\ applied' = TRUE
    /\ Goto(t, "app_update")
    /\ UNCHANGED <<store, github, ghosts, mergedLog>>

ApproveUpdate(t) ==
    /\ task[t].pc = "app_update"
    /\ SetStatus("approved")
    /\ IF Present THEN Finish(t) ELSE Goto(t, "http_500")
    /\ UNCHANGED <<expiring, index, applied, github, ghosts, mergedLog>>

Dismiss(t) ==
    /\ task[t].pc = "idle"
    /\ Present
    /\ LET close == rec.pr # NoPr /\ rec.repo IN
        task' = [task EXCEPT ![t].pc = IF close THEN "dis_close" ELSE "dis_update",
                             ![t].old = rec.pr]
    /\ UNCHANGED <<store, applied, github, ghosts, mergedLog>>

\* close_pr_for_incident: close and delete the branch, both best effort, then
\* drop the index entry; nothing at all without an installation.
DismissClose(t) ==
    /\ task[t].pc = "dis_close"
    /\ \/ /\ prs' \in {prs, BranchDeleted(task[t].old)}
          /\ index' = index \ {task[t].old}
          /\ closeAsked' = closeAsked \cup {task[t].old}
       \/ UNCHANGED <<prs, index, closeAsked>>
    /\ task' = [task EXCEPT ![t].pc = "dis_update", ![t].old = NoPr]
    /\ UNCHANGED <<rec, expiring, applied, hooks, crashed,
                   resolveAsked, mergedLog>>

DismissUpdate(t) ==
    /\ task[t].pc = "dis_update"
    /\ SetStatus("dismissed")
    /\ task' = [task EXCEPT ![t].pc = "rearm", ![t].live = Present]
    /\ UNCHANGED <<expiring, index, applied, github, ghosts, mergedLog>>

\* set_incident_ttl after dismiss and after resolve without a PR; a record
\* that was already gone when it was updated turns into a server error.
Rearm(t) ==
    /\ task[t].pc = "rearm"
    /\ expiring' = Present
    /\ IF task[t].live THEN Finish(t) ELSE Goto(t, "http_500")
    /\ UNCHANGED <<rec, index, applied, github, ghosts, mergedLog>>

Resolve(t) ==
    /\ task[t].pc = "idle"
    /\ Present
    /\ resolveAsked' = TRUE
    /\ task' = IF rec.pr # NoPr /\ rec.repo
               THEN [task EXCEPT ![t].pc = "res_read", ![t].pr = rec.pr]
               ELSE [task EXCEPT ![t].pc = "rsv_update"]
    /\ UNCHANGED <<store, applied, github, crashed, closeAsked, mergedLog>>

ResolveWithoutPr(t) ==
    /\ task[t].pc = "rsv_update"
    /\ SetStatus("resolved")
    /\ task' = [task EXCEPT ![t].pc = "rearm", ![t].live = Present]
    /\ UNCHANGED <<expiring, index, applied, github, ghosts, mergedLog>>

\* open-pr: a repo and a diff are needed, the status is not looked at; a
\* snapshot that already has a PR makes open_fix_pr return at once.
OpenPr(t) ==
    /\ task[t].pc = "idle"
    /\ Present
    /\ rec.repo
    /\ rec.fix # "none"
    /\ Goto(t, IF rec.pr # NoPr THEN "done" ELSE EnterOpenFixPr(rec.fix))
    /\ UNCHANGED <<store, applied, github, ghosts, mergedLog>>

\* demo/reset?clear=true: clear_all deletes the incident, not the PR index.
ClearAll ==
    /\ Present
    /\ rec' = Gone
    /\ expiring' = FALSE
    /\ UNCHANGED <<index, applied, github, task, ghosts, mergedLog>>

-----------------------------------------------------------------------------
(* github/webhooks.py                                                      *)

\* Mutant: closed without merging is taken for merged.
WebhookUnmerged(t, n, bound) ==
    /\ task[t].pc = "idle"
    /\ n \in hooks
    /\ hooks' = hooks \ {n}
    /\ task' = [task EXCEPT ![t] = IF n \in index /\ bound
                                   THEN [Idle EXCEPT !.pc = "res_read", !.pr = n]
                                   ELSE Done]
    /\ UNCHANGED <<store, applied, prs, ghosts, mergedLog>>

\* A "closed" delivery: ignored unless merged, "pending" without an index
\* entry or a bound installation, mark_resolved otherwise.  delivery_seen has
\* recorded the GUID, so a redelivery of it does nothing.
Webhook(t, n, bound) ==
    /\ task[t].pc = "idle"
    /\ n \in hooks
    /\ hooks' = hooks \ {n}
    /\ task' = [task EXCEPT ![t] =
                  IF prs[n] = "merged" /\ n \in index /\ bound
                  THEN [Idle EXCEPT !.pc = "res_read", !.pr = n]
                  ELSE Done]
    /\ UNCHANGED <<store, applied, prs, ghosts, mergedLog>>

\* _poll_for_workspace: the snapshot list, then one GitHub read per incident.
PollList ==
    /\ task[Poller].pc = "idle"
    /\ rec.status = "pr_open"
    /\ rec.repo
    /\ rec.pr # NoPr
    /\ task' = [task EXCEPT ![Poller].pc = "asking", ![Poller].pr = rec.pr]
    /\ UNCHANGED <<store, applied, github, ghosts, mergedLog>>

\* Mutant: the poller reads the PR and forgets it.
PollIgnored ==
    /\ task[Poller].pc = "asking"
    /\ Finish(Poller)
    /\ UNCHANGED <<store, applied, github, ghosts, mergedLog>>

PollAnswer ==
    /\ task[Poller].pc = "asking"
    /\ IF prs[task[Poller].pr] = "merged" THEN Goto(Poller, "res_read")
                                          ELSE Finish(Poller)
    /\ UNCHANGED <<store, applied, github, ghosts, mergedLog>>

\* GitHub did not answer: the incident is skipped until the next round.
PollError ==
    /\ task[Poller].pc = "asking"
    /\ Finish(Poller)
    /\ UNCHANGED <<store, applied, github, ghosts, mergedLog>>

-----------------------------------------------------------------------------
(* The environment                                                         *)

\* A human merges the PR, or closes it without merging.
CloseOnGithub(n, how) ==
    /\ prs[n] = "open"
    /\ prs' = [prs EXCEPT ![n] = how]
    /\ hooks' = hooks \cup {n}
    /\ UNCHANGED <<store, applied, task, ghosts, mergedLog>>

InFlight(t) == task[t].pc \notin {"idle", "done", "pr_raised", "rca_raised", "http_500"}

\* The seven-day TTL runs out; no coroutine lives that long.
Expire ==
    /\ Present
    /\ expiring
    /\ \A t \in Tasks : ~InFlight(t)
    /\ rec' = Gone
    /\ expiring' = FALSE
    /\ UNCHANGED <<index, applied, github, task, ghosts, mergedLog>>

\* The backend restarts: coroutines are lost, Redis is not.  Bound: once.
Crash ==
    /\ ~crashed
    /\ crashed' = TRUE
    /\ task' = [t \in Tasks |-> IF InFlight(t)
                                THEN IF t = Poller THEN Idle ELSE Done
                                ELSE task[t]]
    /\ UNCHANGED <<store, applied, github, closeAsked, resolveAsked, mergedLog>>

-----------------------------------------------------------------------------
PipelineStep ==
    \/ Create
    \/ FlagOperational
    \/ \E mapped \in BOOLEAN : Locate(mapped)
    \/ NothingToPatch
    \/ \E fix \in Fixes \ {"none"}, lowOptIn \in BOOLEAN : FinalizePatch(fix, lowOptIn)

OpenerStep(t) ==
    \/ OpenNotInstalled(t)
    \/ \E s \in {"pr_failed", "patch_stale"} : OpenFail(t, s)
    \/ OpenPullRequest(t)
    \/ FinalizePrOpen(t)
    \/ NoAutoMerge(t)
    \/ AutoMerge(t)

ResolverStep(t) ==
    \/ ResolveRead(t)
    \/ ResolveUpdate(t)
    \/ ResolveCleanup(t)
    \/ ResolveTtl(t)

HandlerStep(t) ==
    \/ ApproveUpdate(t)
    \/ DismissClose(t)
    \/ DismissUpdate(t)
    \/ ResolveWithoutPr(t)
    \/ Rearm(t)

NewRequest(t) ==
    \/ \E force \in BOOLEAN : Approve(t, force)
    \/ Dismiss(t)
    \/ Resolve(t)
    \/ OpenPr(t)
    \/ \E n \in PrNums, bound \in BOOLEAN : Webhook(t, n, bound)

PollStep == PollList \/ PollAnswer \/ PollError

Environment ==
    \/ \E n \in PrNums, how \in {"merged", "closed"} : CloseOnGithub(n, how)
    \/ Expire
    \/ Crash
    \/ ClearAll

Next ==
    \/ PipelineStep
    \/ \E t \in Tasks : OpenerStep(t) \/ ResolverStep(t) \/ HandlerStep(t)
    \/ \E t \in Requests : NewRequest(t)
    \/ PollStep
    \/ Environment

Spec == Init /\ [][Next]_vars

\* The event loop runs every ready coroutine; the poller wakes up every 300s
\* with the App installed, and GitHub answers it again and again, if not each
\* time.  Nothing is assumed of the webhook, of humans or of the other tasks.
Fairness ==
    /\ \A t \in Tasks : WF_vars(ResolverStep(t)) /\ WF_vars(HandlerStep(t))
    /\ WF_vars(PollList)
    /\ SF_vars(PollAnswer)

FairSpec == Spec /\ Fairness

-----------------------------------------------------------------------------
(* Properties                                                              *)

TypeOK ==
    /\ rec \in Record
    /\ expiring \in BOOLEAN
    /\ index \subseteq PrNums
    /\ applied \in BOOLEAN
    /\ prs \in [PrNums -> {"none", "open", "merged", "closed"}]
    /\ hooks \subseteq PrNums
    /\ task \in [Tasks -> Task]
    /\ crashed \in BOOLEAN
    /\ closeAsked \subseteq PrNums
    /\ resolveAsked \in BOOLEAN
    /\ mergedLog \in Nat

\* A fix is delivered one way: if approve wrote the diff to the local disk, no
\* pull request was or will be opened for the incident (server.py, approve:
\* "never write to disk for a repo-mapped incident (U3)").
DeliveredOneWay == applied => \A n \in PrNums : prs[n] = "none"

\* The merge webhook of the PR an incident waits for finds the incident: the
\* current PR of a pr_open incident is in the index, unless a dismissal has
\* asked for that very PR to be closed (finalize_pr_open, clear_pr_index).
OpenPrIsIndexed ==
    rec.status = "pr_open" => rec.pr \in index \cup closeAsked

\* No leak: a finished incident has its TTL back, or the coroutine that
\* finished it is still on its way to re-arm it, or died in a restart
\* (set_incident_ttl, store.py "Re-arm the rolling TTL").
FinishedIsExpiring ==
    (rec.status \in {"dismissed", "resolved"} /\ ~expiring /\ ~crashed) =>
        \E t \in Tasks : task[t].pc \in {"res_cleanup", "res_ttl", "rearm"}

\* Nothing but a merge on GitHub or a human's Resolve makes an incident
\* resolved: not a PR closed without merging, not a stale poll.
ResolvedHasCause ==
    rec.status = "resolved" =>
        resolveAsked \/ \E n \in PrNums : prs[n] = "merged"

\* A merged PR gets its incident out of pr_open even if every webhook is lost
\* and the backend restarts (the poller, server.py "Safety net").
MergeIsNoticed ==
    \A n \in PrNums :
        (rec.status = "pr_open" /\ rec.pr = n /\ prs[n] = "merged")
            ~> (rec.status # "pr_open" \/ rec.pr # n)

\* A merge that resolved its incident is in the change log, or the coroutine
\* that resolved it is on its way to write it: whoever wins the race between
\* webhook, poller, auto-merge and a demo reset, only a restart loses the entry
\* (pr_service.py, mark_resolved() writes it last, if its update found a record).
MergeIsLogged ==
    (rec.status = "resolved" /\ ~resolveAsked /\ ~crashed) =>
        mergedLog > 0 \/ \E t \in Tasks : task[t].pc \in {"res_cleanup", "res_ttl"} /\ task[t].live

-----------------------------------------------------------------------------
(* What a docstring of the repository says, and the code does not do: it is    *)
(* refuted by a run of its own.                                                *)

\* pr_service.py:144, open_fix_pr: "Records pr_error + status on failure; never
\* raises."  The secret-scan branch calls _fail above its definition.
OpenFixPrNeverRaises == \A t \in Tasks : task[t].pc # "pr_raised"

=============================================================================
