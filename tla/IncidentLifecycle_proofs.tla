----------------------- MODULE IncidentLifecycle_proofs -----------------------
(***************************************************************************)
(* Safety of the incident's lifecycle for any number of requests and pull  *)
(* requests: each theorem is the invariance of one property of             *)
(* IncidentLifecycle, proved from type correctness and a strengthening     *)
(* that names the reason the code is right.                                *)
(***************************************************************************)
EXTENDS IncidentLifecycle, TLAPS

-----------------------------------------------------------------------------
(* Type correctness.  It needs one fact besides the types: a coroutine that  *)
(* finalizes, merges or closes a pull request has one.                       *)

OpenerHasPr ==
    \A t \in Tasks :
        /\ task[t].pc \in {"finalize", "automerge"} => task[t].pr # NoPr
        /\ task[t].pc = "dis_close" => task[t].old # NoPr

TypeInv == TypeOK /\ OpenerHasPr

Tasked == task \in [Tasks -> Task] /\ OpenerHasPr

LEMMA IdleIsTask == Idle \in Task /\ Done \in Task
<1>1. Idle \in Task
    BY MaxPrAssumption DEF Idle, Task, NoPr, Pc
<1> QED BY <1>1 DEF Done, Task, Pc

\* update_incident with a status of the enum keeps the record well formed.
LEMMA SetStatusType ==
    ASSUME NEW s \in Status, rec \in Record, SetStatus(s)
    PROVE  rec' \in Record
BY DEF SetStatus, Record

\* A coroutine that finishes, or moves on to a step for which it has what it
\* needs, stays a coroutine.
LEMMA FinishType ==
    ASSUME NEW t \in Tasks, Tasked, Finish(t)
    PROVE  Tasked'
BY IdleIsTask DEF Finish, Tasked, OpenerHasPr, Idle, Done

LEMMA GotoType ==
    ASSUME NEW t \in Tasks, NEW w \in Pc, Tasked, Goto(t, w),
           w # "dis_close",
           w \in {"finalize", "automerge"} => task[t].pr # NoPr
    PROVE  Tasked'
BY DEF Goto, Tasked, OpenerHasPr, Task

\* The same for a coroutine that also remembers a pull request, the pr_number of
\* its snapshot, or whether its update found the record.
LEMMA MoveWithPr ==
    ASSUME NEW t \in Tasks, NEW w \in Pc \ {"dis_close"}, NEW n \in 0 .. MaxPr, Tasked,
           task' = [task EXCEPT ![t].pc = w, ![t].pr = n],
           w \in {"finalize", "automerge"} => n # NoPr
    PROVE  Tasked'
<1>1. task' \in [Tasks -> Task]
    BY DEF Tasked, Task
<1> QED BY <1>1 DEF Tasked, OpenerHasPr, Task

LEMMA MoveWithOld ==
    ASSUME NEW t \in Tasks, NEW w \in Pc \ {"finalize", "automerge"},
           NEW n \in 0 .. MaxPr, Tasked,
           task' = [task EXCEPT ![t].pc = w, ![t].old = n],
           w = "dis_close" => n # NoPr
    PROVE  Tasked'
<1>1. task' \in [Tasks -> Task]
    BY DEF Tasked, Task
<1> QED BY <1>1 DEF Tasked, OpenerHasPr, Task

LEMMA MoveWithLive ==
    ASSUME NEW t \in Tasks, NEW w \in Pc \ {"finalize", "automerge", "dis_close"},
           NEW b \in BOOLEAN, Tasked,
           task' = [task EXCEPT ![t].pc = w, ![t].live = b]
    PROVE  Tasked'
<1>1. task' \in [Tasks -> Task]
    BY DEF Tasked, Task
<1> QED BY <1>1 DEF Tasked, OpenerHasPr, Task

LEMMA PrNumsRange ==
    /\ NoPr \in 0 .. MaxPr
    /\ PrNums = (0 .. MaxPr) \ {NoPr}
BY MaxPrAssumption DEF PrNums, NoPr

LEMMA PresentType == Present \in BOOLEAN
BY DEF Present

\* Deleting a branch leaves GitHub's pull requests well formed.
LEMMA BranchDeletedType ==
    ASSUME NEW n, prs \in [PrNums -> {"none", "open", "merged", "closed"}]
    PROVE  BranchDeleted(n) \in [PrNums -> {"none", "open", "merged", "closed"}]
BY DEF BranchDeleted

LEMMA GoneType == Gone \in Record
BY MaxPrAssumption DEF Gone, Record, NoPr, Status, Fixes

LEMMA TypeInit == Init => TypeInv
<1> SUFFICES ASSUME Init PROVE TypeInv
    OBVIOUS
<1>1. TypeOK
    BY GoneType, IdleIsTask DEF Init, TypeOK
<1>2. OpenerHasPr
    BY IdleIsTask DEF Init, OpenerHasPr, Idle
<1> QED BY <1>1, <1>2 DEF TypeInv

LEMMA TypePipeline ==
    ASSUME TypeInv, PipelineStep
    PROVE  TypeInv'
<1> Tasked
    BY DEF TypeInv, TypeOK, Tasked
<1> Pipeline \in Tasks
    BY DEF Tasks
<1>1. CASE Create
    <2>1. Tasked'
        BY <1>1, GotoType DEF Create, Pc
    <2>2. rec' \in Record
        BY <1>1 DEF Create, TypeInv, TypeOK, Record, Status
    <2> QED BY <1>1, <2>1, <2>2
            DEF Create, TypeInv, TypeOK, Tasked, github, ghosts
<1>2. CASE FlagOperational
    <2>1. Tasked'
        BY <1>2, FinishType DEF FlagOperational
    <2>2. rec' \in Record
        BY <1>2, SetStatusType DEF FlagOperational, TypeInv, TypeOK, Status
    <2> QED BY <1>2, <2>1, <2>2
            DEF FlagOperational, TypeInv, TypeOK, Tasked, github, ghosts
<1>3. ASSUME NEW mapped \in BOOLEAN, Locate(mapped) PROVE TypeInv'
    <2>1. Tasked'
        BY <1>3, GotoType DEF Locate, Pc
    <2>2. rec' \in Record
        BY <1>3 DEF Locate, TypeInv, TypeOK, Record
    <2> QED BY <1>3, <2>1, <2>2
            DEF Locate, TypeInv, TypeOK, Tasked, github, ghosts
<1>4. CASE NothingToPatch
    <2>1. Tasked'
        BY <1>4, FinishType DEF NothingToPatch
    <2> QED BY <1>4, <2>1
            DEF NothingToPatch, TypeInv, TypeOK, Tasked, store, github, ghosts
<1>5. ASSUME NEW fix \in Fixes \ {"none"}, NEW lowOptIn \in BOOLEAN, FinalizePatch(fix, lowOptIn) PROVE TypeInv'
    <2>1. Tasked'
        BY <1>5, GotoType DEF FinalizePatch, AfterPatch, EnterOpenFixPr, Pc
    <2>2. rec' \in Record
        BY <1>5 DEF FinalizePatch, TypeInv, TypeOK, Record, Status
    <2> QED BY <1>5, <2>1, <2>2
            DEF FinalizePatch, TypeInv, TypeOK, Tasked, github, ghosts
<1> QED BY <1>1, <1>2, <1>3, <1>4, <1>5
       DEF PipelineStep

LEMMA TypeOpener ==
    ASSUME NEW t \in Tasks, TypeInv, OpenerStep(t)
    PROVE  TypeInv'
<1> Tasked
    BY DEF TypeInv, TypeOK, Tasked
<1>1. CASE OpenNotInstalled(t)
    <2>1. Tasked'
        BY <1>1, FinishType DEF OpenNotInstalled
    <2> QED BY <1>1, <2>1
            DEF OpenNotInstalled, TypeInv, TypeOK, Tasked, store, github, ghosts
<1>2. ASSUME NEW s \in {"pr_failed", "patch_stale"}, OpenFail(t, s) PROVE TypeInv'
    <2>1. Tasked'
        BY <1>2, FinishType DEF OpenFail
    <2>2. rec' \in Record
        BY <1>2, SetStatusType DEF OpenFail, TypeInv, TypeOK, Status
    <2> QED BY <1>2, <2>1, <2>2
            DEF OpenFail, TypeInv, TypeOK, Tasked, github, ghosts
<1>3. ASSUME NEW n \in PrNums, OpenPullRequest(t),
             prs' = [prs EXCEPT ![n] = "open"],
             task' = [task EXCEPT ![t].pc = "finalize", ![t].pr = n]
      PROVE TypeInv'
    <2>1. Tasked'
        BY <1>3, PrNumsRange, MoveWithPr DEF Pc
    <2> QED BY <1>3, <2>1
            DEF OpenPullRequest, TypeInv, TypeOK, Tasked, store, ghosts
<1>4. CASE FinalizePrOpen(t)
    <2>1. Tasked'
        BY <1>4, GotoType, FinishType DEF FinalizePrOpen, Tasked, OpenerHasPr, Pc
    <2>2. rec' \in Record
        BY <1>4 DEF FinalizePrOpen, TypeInv, TypeOK, Record, Task, Status, store
    <2>3. task[t].pr \in PrNums
        BY <1>4, PrNumsRange DEF FinalizePrOpen, TypeInv, TypeOK, OpenerHasPr, Task
    <2>4. index' \subseteq PrNums
        BY <1>4, <2>3 DEF FinalizePrOpen, TypeInv, TypeOK, store
    <2>5. expiring' \in BOOLEAN
        BY <1>4 DEF FinalizePrOpen, TypeInv, TypeOK, store
    <2> QED BY <1>4, <2>1, <2>2, <2>3, <2>4, <2>5
            DEF FinalizePrOpen, TypeInv, TypeOK, Tasked, github, ghosts
<1>5. CASE NoAutoMerge(t)
    <2>1. Tasked'
        BY <1>5, FinishType DEF NoAutoMerge
    <2> QED BY <1>5, <2>1
            DEF NoAutoMerge, TypeInv, TypeOK, Tasked, store, github, ghosts
<1>6. CASE AutoMerge(t)
    <2>1. Tasked'
        BY <1>6, GotoType DEF AutoMerge, Pc
    <2>2. task[t].pr \in PrNums
        BY <1>6, PrNumsRange
        DEF AutoMerge, TypeInv, TypeOK, OpenerHasPr, Task
    <2> QED BY <1>6, <2>1, <2>2
            DEF AutoMerge, TypeInv, TypeOK, Tasked, store, ghosts
<1> QED BY <1>1, <1>2, <1>3, <1>4, <1>5, <1>6
       DEF OpenerStep, OpenPullRequest

LEMMA TypeResolver ==
    ASSUME NEW t \in Tasks, TypeInv, ResolverStep(t)
    PROVE  TypeInv'
<1> Tasked
    BY DEF TypeInv, TypeOK, Tasked
<1>1. CASE ResolveRead(t)
    <2>1. Tasked'
        BY <1>1, FinishType
        DEF ResolveRead, TypeInv, TypeOK, Record, Tasked, OpenerHasPr, Task, Pc
    <2> QED BY <1>1, <2>1
            DEF ResolveRead, TypeInv, TypeOK, Tasked, store, github, ghosts
<1>2. CASE ResolveUpdate(t)
    <2>1. Tasked'
        BY <1>2, PresentType, MoveWithLive DEF ResolveUpdate, Pc
    <2>2. rec' \in Record
        BY <1>2, SetStatusType DEF ResolveUpdate, TypeInv, TypeOK, Status
    <2> QED BY <1>2, <2>1, <2>2
            DEF ResolveUpdate, TypeInv, TypeOK, Tasked, github, ghosts
<1>3. CASE ResolveCleanup(t)
    <2>1. Tasked'
        BY <1>3, IdleIsTask DEF ResolveCleanup, Tasked, OpenerHasPr, Task, Pc, Idle
    <2>2. prs' \in [PrNums -> {"none", "open", "merged", "closed"}]
        BY <1>3, BranchDeletedType DEF ResolveCleanup, TypeInv, TypeOK
    <2> QED BY <1>3, <2>1, <2>2
            DEF ResolveCleanup, TypeInv, TypeOK, Tasked, ghosts
<1>4. CASE ResolveTtl(t)
    <2>1. Tasked'
        BY <1>4, FinishType DEF ResolveTtl
    <2> QED BY <1>4, <2>1
            DEF ResolveTtl, TypeInv, TypeOK, Tasked, github, ghosts, Present
<1> QED BY <1>1, <1>2, <1>3, <1>4
       DEF ResolverStep

LEMMA TypeHandler ==
    ASSUME NEW t \in Tasks, TypeInv, HandlerStep(t)
    PROVE  TypeInv'
<1> Tasked
    BY DEF TypeInv, TypeOK, Tasked
<1>1. CASE ApproveUpdate(t)
    <2>1. Tasked'
        BY <1>1, FinishType, GotoType DEF ApproveUpdate, Pc
    <2>2. rec' \in Record
        BY <1>1, SetStatusType DEF ApproveUpdate, TypeInv, TypeOK, Status
    <2> QED BY <1>1, <2>1, <2>2
            DEF ApproveUpdate, TypeInv, TypeOK, Tasked, github, ghosts
<1>2. CASE DismissClose(t)
    <2>1. Tasked'
        <3>1. task' = [task EXCEPT ![t].pc = "dis_update", ![t].old = NoPr]
            BY <1>2 DEF DismissClose
        <3>2. "dis_update" \in Pc \ {"finalize", "automerge"}
            BY DEF Pc
        <3> QED BY <3>1, <3>2, PrNumsRange, MoveWithOld
    <2>2. prs' \in [PrNums -> {"none", "open", "merged", "closed"}]
        BY <1>2, BranchDeletedType DEF DismissClose, TypeInv, TypeOK
    <2>3. index' \subseteq PrNums
        BY <1>2 DEF DismissClose, TypeInv, TypeOK
    <2>4. closeAsked' \subseteq PrNums
        BY <1>2, PrNumsRange DEF DismissClose, TypeInv, TypeOK, OpenerHasPr, Task
    <2> QED BY <1>2, <2>1, <2>2, <2>3, <2>4
            DEF DismissClose, TypeInv, TypeOK, Tasked
<1>3. CASE DismissUpdate(t)
    <2>1. Tasked'
        BY <1>3, PresentType, MoveWithLive DEF DismissUpdate, Pc
    <2>2. rec' \in Record
        BY <1>3, SetStatusType DEF DismissUpdate, TypeInv, TypeOK, Status
    <2> QED BY <1>3, <2>1, <2>2
            DEF DismissUpdate, TypeInv, TypeOK, Tasked, github, ghosts
<1>4. CASE ResolveWithoutPr(t)
    <2>1. Tasked'
        BY <1>4, PresentType, MoveWithLive DEF ResolveWithoutPr, Pc
    <2>2. rec' \in Record
        BY <1>4, SetStatusType DEF ResolveWithoutPr, TypeInv, TypeOK, Status
    <2> QED BY <1>4, <2>1, <2>2
            DEF ResolveWithoutPr, TypeInv, TypeOK, Tasked, github, ghosts
<1>5. CASE Rearm(t)
    <2>1. Tasked'
        BY <1>5, FinishType, GotoType DEF Rearm, Pc
    <2> QED BY <1>5, <2>1
            DEF Rearm, TypeInv, TypeOK, Tasked, github, ghosts, Present
<1> QED BY <1>1, <1>2, <1>3, <1>4, <1>5
       DEF HandlerStep

LEMMA TypeRequest ==
    ASSUME NEW t \in Tasks, TypeInv, NewRequest(t)
    PROVE  TypeInv'
<1> Tasked
    BY DEF TypeInv, TypeOK, Tasked
<1>1. ASSUME NEW force \in BOOLEAN, Approve(t, force) PROVE TypeInv'
    <2>1. Tasked'
        BY <1>1, GotoType DEF Approve, Pc
    <2> QED BY <1>1, <2>1
            DEF Approve, TypeInv, TypeOK, Tasked, store, github, ghosts
<1>2. CASE Dismiss(t)
    <2>1. Tasked'
        <3>1. CASE rec.pr # NoPr /\ rec.repo
            BY <1>2, <3>1, MoveWithOld DEF Dismiss, TypeInv, TypeOK, Record, Pc
        <3>2. CASE ~(rec.pr # NoPr /\ rec.repo)
            <4>1. task' = [task EXCEPT ![t].pc = "dis_update", ![t].old = rec.pr]
                BY <1>2, <3>2 DEF Dismiss
            <4>2. rec.pr \in 0 .. MaxPr
                BY DEF TypeInv, TypeOK, Record
            <4> QED BY <4>1, <4>2, MoveWithOld DEF Pc
        <3> QED BY <3>1, <3>2
    <2> QED BY <1>2, <2>1
            DEF Dismiss, TypeInv, TypeOK, Tasked, store, github, ghosts
<1>3. CASE Resolve(t)
    <2>1. Tasked'
        BY <1>3, GotoType, MoveWithPr DEF Resolve, Goto, TypeInv, TypeOK, Record, Pc
    <2> QED BY <1>3, <2>1
            DEF Resolve, TypeInv, TypeOK, Tasked, store, github
<1>4. CASE OpenPr(t)
    <2>1. Tasked'
        BY <1>4, GotoType DEF OpenPr, EnterOpenFixPr, Pc
    <2> QED BY <1>4, <2>1
            DEF OpenPr, TypeInv, TypeOK, Tasked, store, github, ghosts
<1>5. ASSUME NEW n \in PrNums, NEW bound \in BOOLEAN, Webhook(t, n, bound) PROVE TypeInv'
    <2>1. Tasked'
        BY <1>5, IdleIsTask, PrNumsRange
        DEF Webhook, Tasked, OpenerHasPr, Task, Pc, Idle, Done
    <2> QED BY <1>5, <2>1
            DEF Webhook, TypeInv, TypeOK, Tasked, store, ghosts
<1> QED BY <1>1, <1>2, <1>3, <1>4, <1>5
       DEF NewRequest

LEMMA TypePoll ==
    ASSUME TypeInv, PollStep
    PROVE  TypeInv'
<1> Tasked
    BY DEF TypeInv, TypeOK, Tasked
<1> Poller \in Tasks
    BY DEF Tasks
<1>1. CASE PollList
    <2>1. Tasked'
        BY <1>1, MoveWithPr DEF PollList, TypeInv, TypeOK, Record, Pc
    <2> QED BY <1>1, <2>1
            DEF PollList, TypeInv, TypeOK, Tasked, store, github, ghosts
<1>2. CASE PollAnswer
    <2>1. Tasked'
        BY <1>2, FinishType, GotoType DEF PollAnswer, Pc
    <2> QED BY <1>2, <2>1
            DEF PollAnswer, TypeInv, TypeOK, Tasked, store, github, ghosts
<1>3. CASE PollError
    <2>1. Tasked'
        BY <1>3, FinishType DEF PollError
    <2> QED BY <1>3, <2>1
            DEF PollError, TypeInv, TypeOK, Tasked, store, github, ghosts
<1> QED BY <1>1, <1>2, <1>3
       DEF PollStep

LEMMA TypeEnvironment ==
    ASSUME TypeInv, Environment
    PROVE  TypeInv'
<1> Tasked
    BY DEF TypeInv, TypeOK, Tasked
<1>1. ASSUME NEW n \in PrNums, NEW how \in {"merged", "closed"}, CloseOnGithub(n, how) PROVE TypeInv'
    <2>1. Tasked'
        BY <1>1 DEF CloseOnGithub, Tasked, OpenerHasPr
    <2> QED BY <1>1, <2>1
            DEF CloseOnGithub, TypeInv, TypeOK, Tasked, store, ghosts
<1>2. CASE Expire
    <2>1. Tasked'
        BY <1>2 DEF Expire, Tasked, OpenerHasPr
    <2>2. rec' \in Record
        BY <1>2, GoneType DEF Expire
    <2> QED BY <1>2, <2>1, <2>2
            DEF Expire, TypeInv, TypeOK, Tasked, github, ghosts
<1>3. CASE Crash
    <2>1. Tasked'
        BY <1>3, IdleIsTask DEF Crash, Tasked, OpenerHasPr, Idle, Done
    <2> QED BY <1>3, <2>1
            DEF Crash, TypeInv, TypeOK, Tasked, store, github
<1>4. CASE ClearAll
    <2>1. Tasked'
        BY <1>4 DEF ClearAll, Tasked, OpenerHasPr
    <2>2. rec' \in Record
        BY <1>4, GoneType DEF ClearAll
    <2> QED BY <1>4, <2>1, <2>2
            DEF ClearAll, TypeInv, TypeOK, Tasked, github, ghosts
<1> QED BY <1>1, <1>2, <1>3, <1>4
       DEF Environment

LEMMA TypeStutter ==
    ASSUME TypeInv, UNCHANGED vars
    PROVE  TypeInv'
BY DEF TypeInv, TypeOK, OpenerHasPr, vars

LEMMA TypeNext == TypeInv /\ [Next]_vars => TypeInv'
<1> Requests \subseteq Tasks
    BY DEF Tasks
<1> QED BY TypePipeline, TypeOpener, TypeResolver, TypeHandler, TypeRequest,
           TypePoll, TypeEnvironment, TypeStutter
        DEF Next

LEMMA TypeInvariant == Spec => []TypeInv
BY TypeInit, TypeNext, PTL DEF Spec

\* Type correctness of the lifecycle, whatever the requests and however many
\* pull requests GitHub hands out.
THEOREM TypeCorrect == Spec => []TypeOK
BY TypeInvariant, PTL DEF TypeInv

-----------------------------------------------------------------------------
(* What a step does to the coroutines: one of them moves.                    *)

Moved(t, w, n) ==
    /\ task'[t].pc = w
    /\ task'[t].pr = n
    /\ \A u \in Tasks \ {t} : task'[u] = task[u]

Finished(t) == Moved(t, IF t = Poller THEN "idle" ELSE "done", NoPr)

LEMMA FinishMoves ==
    ASSUME NEW t \in Tasks, Tasked, Finish(t)
    PROVE  Finished(t)
BY DEF Finish, Finished, Moved, Tasked, Idle, Done

LEMMA GotoMoves ==
    ASSUME NEW t \in Tasks, NEW w, Tasked, Goto(t, w)
    PROVE  Moved(t, w, task[t].pr)
BY DEF Goto, Moved, Tasked, Task

\* update_incident with a status: the other fields stay, and a record that does
\* not exist is not created.
Restatused(s) ==
    /\ Present' = Present
    /\ Present => /\ rec'.status = s
                  /\ rec'.pr = rec.pr
                  /\ rec'.repo = rec.repo
                  /\ rec'.fix = rec.fix
    /\ ~Present => rec' = rec

LEMMA SetStatusEffect ==
    ASSUME NEW s, s # "gone", rec \in Record, SetStatus(s)
    PROVE  Restatused(s)
BY DEF SetStatus, Restatused, Present, Record

LEMMA PipelineMoves ==
    ASSUME Tasked
    PROVE  /\ Create => Moved(Pipeline, "locate", task[Pipeline].pr)
           /\ FlagOperational => Finished(Pipeline)
           /\ \A mapped \in BOOLEAN : Locate(mapped) => Moved(Pipeline, "generate", task[Pipeline].pr)
           /\ NothingToPatch => Finished(Pipeline)
           /\ \A fix \in Fixes, lowOptIn \in BOOLEAN : FinalizePatch(fix, lowOptIn) => 
                Moved(Pipeline, IF Present THEN AfterPatch(fix, rec.repo, lowOptIn)
                                           ELSE "rca_raised", task[Pipeline].pr)
<1> Pipeline \in Tasks
    BY DEF Tasks
<1>1. Create => Moved(Pipeline, "locate", task[Pipeline].pr)
    BY GotoMoves DEF Create
<1>2. FlagOperational => Finished(Pipeline)
    BY FinishMoves DEF FlagOperational
<1>3. \A mapped \in BOOLEAN : Locate(mapped) => Moved(Pipeline, "generate", task[Pipeline].pr)
    BY GotoMoves DEF Locate
<1>4. NothingToPatch => Finished(Pipeline)
    BY FinishMoves DEF NothingToPatch
<1>5. \A fix \in Fixes, lowOptIn \in BOOLEAN : FinalizePatch(fix, lowOptIn) => 
                Moved(Pipeline, IF Present THEN AfterPatch(fix, rec.repo, lowOptIn)
                                           ELSE "rca_raised", task[Pipeline].pr)
    BY GotoMoves DEF FinalizePatch
<1> QED BY <1>1, <1>2, <1>3, <1>4, <1>5

LEMMA OpenerMoves ==
    ASSUME NEW t \in Tasks, Tasked
    PROVE  /\ OpenNotInstalled(t) => Finished(t)
           /\ \A s : OpenFail(t, s) => Finished(t)
           /\ OpenPullRequest(t) => \E n \in PrNums :
                /\ Moved(t, "finalize", n)
                /\ prs[n] = "none"
                /\ prs' = [prs EXCEPT ![n] = "open"]
           /\ FinalizePrOpen(t) => 
                IF Present THEN Moved(t, "automerge", task[t].pr) ELSE Finished(t)
           /\ NoAutoMerge(t) => Finished(t)
           /\ AutoMerge(t) => Moved(t, "res_read", task[t].pr)
<1>1. OpenNotInstalled(t) => Finished(t)
    BY FinishMoves DEF OpenNotInstalled
<1>2. \A s : OpenFail(t, s) => Finished(t)
    BY FinishMoves DEF OpenFail
<1>3. OpenPullRequest(t) => \E n \in PrNums :
                /\ Moved(t, "finalize", n)
                /\ prs[n] = "none"
                /\ prs' = [prs EXCEPT ![n] = "open"]
    <2> SUFFICES ASSUME OpenPullRequest(t)
                 PROVE  \E n \in PrNums : /\ Moved(t, "finalize", n)
                                          /\ prs[n] = "none"
                                          /\ prs' = [prs EXCEPT ![n] = "open"]
        OBVIOUS
    <2>1. PICK n \in PrNums :
              /\ prs[n] = "none" /\ prs' = [prs EXCEPT ![n] = "open"]
              /\ task' = [task EXCEPT ![t].pc = "finalize", ![t].pr = n]
        BY DEF OpenPullRequest
    <2>2. Moved(t, "finalize", n)
        BY <2>1 DEF Moved, Tasked, Task
    <2> QED BY <2>1, <2>2
<1>4. FinalizePrOpen(t) => 
                IF Present THEN Moved(t, "automerge", task[t].pr) ELSE Finished(t)
    BY FinishMoves, GotoMoves DEF FinalizePrOpen
<1>5. NoAutoMerge(t) => Finished(t)
    BY FinishMoves DEF NoAutoMerge
<1>6. AutoMerge(t) => Moved(t, "res_read", task[t].pr)
    BY GotoMoves DEF AutoMerge
<1> QED BY <1>1, <1>2, <1>3, <1>4, <1>5, <1>6

LEMMA ResolverMoves ==
    ASSUME NEW t \in Tasks, Tasked
    PROVE  /\ ResolveRead(t) => 
                IF rec.status \in {"gone", "resolved"} THEN Finished(t)
                ELSE Moved(t, "res_update", task[t].pr)
           /\ ResolveUpdate(t) => Moved(t, "res_cleanup", task[t].pr)
           /\ ResolveCleanup(t) => Moved(t, "res_ttl", NoPr)
           /\ ResolveTtl(t) => Finished(t)
<1>1. ResolveRead(t) => 
                IF rec.status \in {"gone", "resolved"} THEN Finished(t)
                ELSE Moved(t, "res_update", task[t].pr)
    BY FinishMoves DEF ResolveRead, Moved, Tasked, Task
<1>2. ResolveUpdate(t) => Moved(t, "res_cleanup", task[t].pr)
    BY DEF ResolveUpdate, Moved, Tasked, Task, Present
<1>3. ResolveCleanup(t) => Moved(t, "res_ttl", NoPr)
    BY DEF ResolveCleanup, Moved, Tasked, Task, Idle
<1>4. ResolveTtl(t) => Finished(t)
    BY FinishMoves DEF ResolveTtl
<1> QED BY <1>1, <1>2, <1>3, <1>4

LEMMA HandlerMoves ==
    ASSUME NEW t \in Tasks, Tasked
    PROVE  /\ ApproveUpdate(t) => 
                IF Present THEN Finished(t) ELSE Moved(t, "http_500", task[t].pr)
           /\ DismissClose(t) => Moved(t, "dis_update", task[t].pr)
           /\ DismissUpdate(t) => Moved(t, "rearm", task[t].pr)
           /\ ResolveWithoutPr(t) => Moved(t, "rearm", task[t].pr)
           /\ Rearm(t) => 
                IF task[t].live THEN Finished(t) ELSE Moved(t, "http_500", task[t].pr)
<1>1. ApproveUpdate(t) => 
                IF Present THEN Finished(t) ELSE Moved(t, "http_500", task[t].pr)
    BY FinishMoves, GotoMoves DEF ApproveUpdate
<1>2. DismissClose(t) => Moved(t, "dis_update", task[t].pr)
    BY DEF DismissClose, Moved, Tasked, Task
<1>3. DismissUpdate(t) => Moved(t, "rearm", task[t].pr)
    BY DEF DismissUpdate, Moved, Tasked, Task, Present
<1>4. ResolveWithoutPr(t) => Moved(t, "rearm", task[t].pr)
    BY DEF ResolveWithoutPr, Moved, Tasked, Task, Present
<1>5. Rearm(t) => 
                IF task[t].live THEN Finished(t) ELSE Moved(t, "http_500", task[t].pr)
    BY FinishMoves, GotoMoves DEF Rearm
<1> QED BY <1>1, <1>2, <1>3, <1>4, <1>5

LEMMA RequestMoves ==
    ASSUME NEW t \in Requests, Tasked
    PROVE  /\ \A force \in BOOLEAN : Approve(t, force) => Moved(t, "app_update", task[t].pr)
           /\ Dismiss(t) => \E w \in {"dis_close", "dis_update"} :
                Moved(t, w, task[t].pr)
           /\ Resolve(t) => 
                IF rec.pr # NoPr /\ rec.repo THEN Moved(t, "res_read", rec.pr)
                ELSE Moved(t, "rsv_update", task[t].pr)
           /\ OpenPr(t) => 
                Moved(t, IF rec.pr # NoPr THEN "done" ELSE EnterOpenFixPr(rec.fix), task[t].pr)
           /\ \A n \in PrNums, bound \in BOOLEAN : Webhook(t, n, bound) => 
                IF prs[n] = "merged" /\ n \in index /\ bound
                THEN Moved(t, "res_read", n) ELSE Moved(t, "done", NoPr)
<1> t \in Tasks
    BY DEF Tasks
<1>1. \A force \in BOOLEAN : Approve(t, force) => Moved(t, "app_update", task[t].pr)
    BY GotoMoves DEF Approve
<1>2. Dismiss(t) => \E w \in {"dis_close", "dis_update"} :
                Moved(t, w, task[t].pr)
    BY DEF Dismiss, Moved, Tasked, Task
<1>3. Resolve(t) => 
                IF rec.pr # NoPr /\ rec.repo THEN Moved(t, "res_read", rec.pr)
                ELSE Moved(t, "rsv_update", task[t].pr)
    BY DEF Resolve, Moved, Tasked, Task
<1>4. OpenPr(t) => 
                Moved(t, IF rec.pr # NoPr THEN "done" ELSE EnterOpenFixPr(rec.fix), task[t].pr)
    BY GotoMoves DEF OpenPr
<1>5. \A n \in PrNums, bound \in BOOLEAN : Webhook(t, n, bound) => 
                IF prs[n] = "merged" /\ n \in index /\ bound
                THEN Moved(t, "res_read", n) ELSE Moved(t, "done", NoPr)
    BY DEF Webhook, Moved, Tasked, Task, Idle, Done
<1> QED BY <1>1, <1>2, <1>3, <1>4, <1>5

LEMMA PollMoves ==
    ASSUME Tasked
    PROVE  /\ PollList => Moved(Poller, "asking", rec.pr)
           /\ PollAnswer => 
                IF prs[task[Poller].pr] = "merged" THEN Moved(Poller, "res_read", task[Poller].pr)
                ELSE Finished(Poller)
           /\ PollError => Finished(Poller)
<1> Poller \in Tasks
    BY DEF Tasks
<1>1. PollList => Moved(Poller, "asking", rec.pr)
    BY DEF PollList, Moved, Tasked, Task
<1>2. PollAnswer => 
                IF prs[task[Poller].pr] = "merged" THEN Moved(Poller, "res_read", task[Poller].pr)
                ELSE Finished(Poller)
    BY FinishMoves, GotoMoves DEF PollAnswer
<1>3. PollError => Finished(Poller)
    BY FinishMoves DEF PollError
<1> QED BY <1>1, <1>2, <1>3

\* A restart ends every coroutine that is under way; none of the others moves.
LEMMA CrashMoves ==
    ASSUME Tasked, Crash
    PROVE  \A u \in Tasks :
              \/ task'[u] = task[u]
              \/ /\ InFlight(u)
                 /\ task'[u].pc = IF u = Poller THEN "idle" ELSE "done"
                 /\ task'[u].pr = NoPr
BY DEF Crash, Tasked, Idle, Done

-----------------------------------------------------------------------------
(* One way of delivery.  A pull request is started only for a mapped record  *)
(* that has its diff; the mapping is decided before the diff, and only once. *)

Early == {"idle", "locate", "generate"}

Past == task[Pipeline].pc \notin Early

Pulled ==
    \/ \E t \in Tasks : task[t].pc = "opening"
    \/ \E n \in PrNums : prs[n] # "none"

OneWayInv ==
    /\ ~Present => rec = Gone
    /\ task[Pipeline].pc = "idle" => rec = Gone
    /\ rec.fix # "none" => Past
    /\ Pulled => Past /\ ~applied /\ (Present => rec.repo)
    /\ applied => Past /\ ~rec.repo

\* The record is left with its mapping and its diff, or deleted.
Kept ==
    \/ rec' = Gone
    \/ /\ Present' = Present
       /\ Present => rec'.repo = rec.repo /\ rec'.fix = rec.fix
       /\ ~Present => rec' = rec

NoNewPr == \A n \in PrNums : prs'[n] # "none" => prs[n] # "none"

LEMMA GoneFields == Gone.status = "gone" /\ Gone.fix = "none" /\ ~Gone.repo
BY DEF Gone

LEMMA KeptOneWay ==
    ASSUME OneWayInv, Kept, NoNewPr, applied' = applied,
           Past => Past',
           task'[Pipeline].pc = "idle" => task[Pipeline].pc = "idle",
           \A t \in Tasks : task'[t].pc = "opening" =>
                                 \E u \in Tasks : task[u].pc = "opening"
    PROVE  OneWayInv'
<1>1. Present' => Present /\ rec'.repo = rec.repo /\ rec'.fix = rec.fix
    BY GoneFields DEF Kept, Present
<1>2. ~Present' => rec' = Gone
    BY DEF Kept, OneWayInv, Present
<1>3. Pulled' => Pulled
    BY DEF Pulled, NoNewPr
<1>4. (~Present => rec = Gone)'
    BY <1>2
<1>5. (task[Pipeline].pc = "idle" => rec = Gone)'
    BY <1>1, <1>2, GoneFields DEF OneWayInv, Present
<1>6. (rec.fix # "none" => Past)'
    BY <1>1, <1>2, GoneFields DEF OneWayInv
<1>7. (Pulled => Past /\ ~applied /\ (Present => rec.repo))'
    BY <1>1, <1>3 DEF OneWayInv
<1>8. (applied => Past /\ ~rec.repo)'
    BY <1>1, <1>2, GoneFields DEF OneWayInv
<1> QED BY <1>4, <1>5, <1>6, <1>7, <1>8 DEF OneWayInv

\* A coroutine moves on without becoming an opener.
LEMMA MovedOneWay ==
    ASSUME OneWayInv, NEW t \in Tasks, NEW w, NEW n, Moved(t, w, n),
           w # "opening", t = Pipeline => w \notin Early,
           Kept, NoNewPr, applied' = applied
    PROVE  OneWayInv'
<1> Pipeline \in Tasks
    BY DEF Tasks
<1>1. Past => Past'
    BY DEF Past, Moved
<1>2. task'[Pipeline].pc = "idle" => task[Pipeline].pc = "idle"
    BY DEF Moved, Early
<1>3. \A u \in Tasks : task'[u].pc = "opening" => task[u].pc = "opening"
    BY DEF Moved
<1> QED BY <1>1, <1>2, <1>3, KeptOneWay

LEMMA FinishedOneWay ==
    ASSUME OneWayInv, NEW t \in Tasks, Finished(t), Kept, NoNewPr, applied' = applied
    PROVE  OneWayInv'
BY MovedOneWay, TaskAssumption DEF Finished, Early

LEMMA RestatusedKept == \A s : Restatused(s) => Kept
BY DEF Restatused, Kept

LEMMA OneWayInit == Init => OneWayInv
BY GoneFields DEF Init, OneWayInv, Pulled, Idle, Present, Tasks

LEMMA OneWayPipeline ==
    ASSUME TypeInv, OneWayInv, PipelineStep
    PROVE  OneWayInv'
<1> Tasked
    BY DEF TypeInv, TypeOK, Tasked
<1> Pipeline \in Tasks
    BY DEF Tasks
<1> rec \in Record
    BY DEF TypeInv, TypeOK
<1>1. CASE Create
    <2>1. Moved(Pipeline, "locate", task[Pipeline].pr)
        BY <1>1, PipelineMoves
    <2>2. ~Pulled /\ ~applied /\ rec = Gone
        BY <1>1 DEF Create, OneWayInv, Past, Early
    <2>3. ~Pulled'
        BY <1>1, <2>1, <2>2 DEF Create, Pulled, Moved, github
    <2>4. rec'.status = "open" /\ rec'.fix = "none"
        BY <1>1, <2>2 DEF Create, Gone
    <2> QED BY <1>1, <2>1, <2>2, <2>3, <2>4 DEF Create, OneWayInv, Moved, Present
<1>2. CASE FlagOperational
    <2>1. Finished(Pipeline) /\ Kept
        BY <1>2, PipelineMoves, SetStatusEffect, RestatusedKept DEF FlagOperational
    <2> QED BY <1>2, <2>1, FinishedOneWay DEF FlagOperational, NoNewPr, github
<1>3. ASSUME NEW mapped \in BOOLEAN, Locate(mapped) PROVE OneWayInv'
    <2>1. Moved(Pipeline, "generate", task[Pipeline].pr)
        BY <1>3, PipelineMoves
    <2>2. ~Pulled /\ ~applied /\ rec.fix = "none"
        BY <1>3 DEF Locate, OneWayInv, Past, Early
    <2>3. ~Pulled'
        BY <1>3, <2>1, <2>2 DEF Locate, Pulled, Moved, github
    <2>4. rec'.fix = "none" /\ rec'.status = rec.status
        BY <1>3, <2>2 DEF Locate, Record
    <2>5. ~Present' => rec' = Gone
        BY <1>3, <2>4 DEF Locate, OneWayInv, Present
    <2> QED BY <1>3, <2>1, <2>2, <2>3, <2>4, <2>5 DEF Locate, OneWayInv, Moved
<1>4. CASE NothingToPatch
    <2>1. Finished(Pipeline) /\ Kept
        BY <1>4, PipelineMoves DEF NothingToPatch, store, Kept, Present
    <2> QED BY <1>4, <2>1, FinishedOneWay DEF NothingToPatch, NoNewPr, github
<1>5. ASSUME NEW fix \in Fixes \ {"none"}, NEW lowOptIn \in BOOLEAN,
             FinalizePatch(fix, lowOptIn)
      PROVE  OneWayInv'
    <2> DEFINE w == IF Present THEN AfterPatch(fix, rec.repo, lowOptIn) ELSE "rca_raised"
    <2>1. Moved(Pipeline, w, task[Pipeline].pr)
        BY <1>5, PipelineMoves
    <2>2. ~Pulled /\ ~applied
        BY <1>5 DEF FinalizePatch, OneWayInv, Past, Early
    <2>3. w \notin Early /\ (w = "opening" => Present /\ rec.repo)
        BY DEF AfterPatch, EnterOpenFixPr, Early
    <2>4. rec'.repo = rec.repo /\ (~Present => rec' = Gone) /\ Present' = Present
        BY <1>5 DEF FinalizePatch, OneWayInv, Record, Present
    <2>5. Past'
        BY <2>1, <2>3 DEF Past, Moved
    <2>6. Pulled' => w = "opening"
        BY <1>5, <2>1, <2>2 DEF FinalizePatch, Pulled, Moved, github
    <2> HIDE DEF w
    <2> QED BY <1>5, <2>1, <2>2, <2>3, <2>4, <2>5, <2>6
            DEF FinalizePatch, OneWayInv, Past, Early
<1> QED BY <1>1, <1>2, <1>3, <1>4, <1>5 DEF PipelineStep

LEMMA OneWayOpener ==
    ASSUME NEW t \in Tasks, TypeInv, OneWayInv, OpenerStep(t)
    PROVE  OneWayInv'
<1> Tasked /\ rec \in Record
    BY DEF TypeInv, TypeOK, Tasked
<1>1. CASE OpenNotInstalled(t) \/ NoAutoMerge(t)
    <2>1. Finished(t) /\ Kept /\ NoNewPr /\ applied' = applied
        BY <1>1, OpenerMoves
        DEF OpenNotInstalled, NoAutoMerge, store, github, Kept, NoNewPr, Present
    <2> QED BY <2>1, FinishedOneWay
<1>2. ASSUME NEW s \in {"pr_failed", "patch_stale"}, OpenFail(t, s)
      PROVE  OneWayInv'
    <2>1. Finished(t) /\ Kept
        BY <1>2, OpenerMoves, SetStatusEffect, RestatusedKept DEF OpenFail
    <2> QED BY <1>2, <2>1, FinishedOneWay DEF OpenFail, NoNewPr, github
<1>3. CASE OpenPullRequest(t)
    <2>1. PICK n \in PrNums : Moved(t, "finalize", n)
        BY <1>3, OpenerMoves
    <2>2. Pulled
        BY <1>3 DEF OpenPullRequest, Pulled
    <2>3. Pipeline \in Tasks /\ Past'
        BY <2>1, <2>2 DEF OneWayInv, Past, Moved, Early, Tasks
    <2>4. rec' = rec /\ applied' = applied /\ Present' = Present
        BY <1>3 DEF OpenPullRequest, store, Present
    <2>5. task'[Pipeline].pc # "idle"
        BY <2>3 DEF Past, Early
    <2> QED BY <2>2, <2>3, <2>4, <2>5 DEF OneWayInv
<1>4. CASE FinalizePrOpen(t)
    <2>1. Kept /\ NoNewPr /\ applied' = applied
        BY <1>4 DEF FinalizePrOpen, store, github, Kept, NoNewPr, Present, Record
    <2>2. Finished(t) \/ Moved(t, "automerge", task[t].pr)
        BY <1>4, OpenerMoves
    <2> QED BY <2>1, <2>2, FinishedOneWay, MovedOneWay DEF Early
<1>5. CASE AutoMerge(t)
    <2>1. Moved(t, "res_read", task[t].pr)
        BY <1>5, OpenerMoves
    <2>2. Kept /\ NoNewPr /\ applied' = applied
        BY <1>5 DEF AutoMerge, store, Kept, NoNewPr, Present, TypeInv, TypeOK
    <2> QED BY <2>1, <2>2, MovedOneWay DEF Early
<1> QED BY <1>1, <1>2, <1>3, <1>4, <1>5 DEF OpenerStep

LEMMA OneWayResolver ==
    ASSUME NEW t \in Tasks, TypeInv, OneWayInv, ResolverStep(t)
    PROVE  OneWayInv'
<1> Tasked /\ rec \in Record
    BY DEF TypeInv, TypeOK, Tasked
<1>1. CASE ResolveRead(t)
    <2>1. Finished(t) \/ Moved(t, "res_update", task[t].pr)
        BY <1>1, ResolverMoves
    <2>2. Kept /\ NoNewPr /\ applied' = applied
        BY <1>1 DEF ResolveRead, store, github, Kept, NoNewPr, Present
    <2> QED BY <2>1, <2>2, FinishedOneWay, MovedOneWay DEF Early
<1>2. CASE ResolveUpdate(t)
    <2>1. Moved(t, "res_cleanup", task[t].pr)
        BY <1>2, ResolverMoves
    <2>2. Kept
        BY <1>2, SetStatusEffect, RestatusedKept DEF ResolveUpdate
    <2>3. NoNewPr /\ applied' = applied
        BY <1>2 DEF ResolveUpdate, NoNewPr, github
    <2> QED BY <2>1, <2>2, <2>3, MovedOneWay DEF Early
<1>3. CASE ResolveCleanup(t)
    <2>1. Moved(t, "res_ttl", NoPr)
        BY <1>3, ResolverMoves
    <2>2. NoNewPr
        BY <1>3 DEF ResolveCleanup, BranchDeleted, NoNewPr, TypeInv, TypeOK
    <2>3. Kept /\ applied' = applied
        BY <1>3 DEF ResolveCleanup, Kept, Present
    <2> QED BY <2>1, <2>2, <2>3, MovedOneWay DEF Early
<1>4. CASE ResolveTtl(t)
    <2>1. Finished(t)
        BY <1>4, ResolverMoves
    <2>2. Kept /\ NoNewPr /\ applied' = applied
        BY <1>4 DEF ResolveTtl, github, Kept, NoNewPr, Present
    <2> QED BY <2>1, <2>2, FinishedOneWay
<1> QED BY <1>1, <1>2, <1>3, <1>4 DEF ResolverStep

LEMMA OneWayHandler ==
    ASSUME NEW t \in Tasks, TypeInv, OneWayInv, HandlerStep(t)
    PROVE  OneWayInv'
<1> Tasked /\ rec \in Record
    BY DEF TypeInv, TypeOK, Tasked
<1>1. CASE ApproveUpdate(t)
    <2>1. Finished(t) \/ Moved(t, "http_500", task[t].pr)
        BY <1>1, HandlerMoves
    <2>2. Kept
        BY <1>1, SetStatusEffect, RestatusedKept DEF ApproveUpdate
    <2>3. NoNewPr /\ applied' = applied
        BY <1>1 DEF ApproveUpdate, NoNewPr, github
    <2> QED BY <2>1, <2>2, <2>3, FinishedOneWay, MovedOneWay DEF Early
<1>2. CASE DismissClose(t)
    <2>1. Moved(t, "dis_update", task[t].pr)
        BY <1>2, HandlerMoves
    <2>2. NoNewPr
        BY <1>2 DEF DismissClose, BranchDeleted, NoNewPr, TypeInv, TypeOK
    <2>3. Kept /\ applied' = applied
        BY <1>2 DEF DismissClose, Kept, Present
    <2> QED BY <2>1, <2>2, <2>3, MovedOneWay DEF Early
<1>3. CASE DismissUpdate(t) \/ ResolveWithoutPr(t)
    <2>1. Moved(t, "rearm", task[t].pr)
        BY <1>3, HandlerMoves
    <2>2. Kept
        BY <1>3, SetStatusEffect, RestatusedKept DEF DismissUpdate, ResolveWithoutPr
    <2>3. NoNewPr /\ applied' = applied
        BY <1>3 DEF DismissUpdate, ResolveWithoutPr, NoNewPr, github
    <2> QED BY <2>1, <2>2, <2>3, MovedOneWay DEF Early
<1>4. CASE Rearm(t)
    <2>1. Finished(t) \/ Moved(t, "http_500", task[t].pr)
        BY <1>4, HandlerMoves
    <2>2. Kept /\ NoNewPr /\ applied' = applied
        BY <1>4 DEF Rearm, github, Kept, NoNewPr, Present
    <2> QED BY <2>1, <2>2, FinishedOneWay, MovedOneWay DEF Early
<1> QED BY <1>1, <1>2, <1>3, <1>4 DEF HandlerStep

LEMMA OneWayRequest ==
    ASSUME NEW t \in Requests, TypeInv, OneWayInv, NewRequest(t)
    PROVE  OneWayInv'
<1> Tasked /\ rec \in Record
    BY DEF TypeInv, TypeOK, Tasked
<1> t \in Tasks /\ t # Pipeline /\ Pipeline \in Tasks
    BY TaskAssumption DEF Tasks
<1>1. ASSUME NEW force \in BOOLEAN, Approve(t, force) PROVE OneWayInv'
    <2>1. Moved(t, "app_update", task[t].pr)
        BY <1>1, RequestMoves
    <2>2. Present /\ Past /\ ~rec.repo
        BY <1>1 DEF Approve, OneWayInv, Present
    <2>3. ~Pulled
        BY <2>2 DEF OneWayInv
    <2>4. ~Pulled'
        BY <1>1, <2>1, <2>3 DEF Approve, Pulled, Moved, github
    <2>5. Past' /\ task'[Pipeline].pc # "idle"
        BY <2>1, <2>2 DEF Past, Moved, Early
    <2>6. rec' = rec /\ Present'
        BY <1>1, <2>2 DEF Approve, store, Present
    <2> QED BY <2>2, <2>4, <2>5, <2>6 DEF OneWayInv
<1>2. CASE Dismiss(t)
    <2>1. PICK w \in {"dis_close", "dis_update"} : Moved(t, w, task[t].pr)
        BY <1>2, RequestMoves
    <2>2. Kept /\ NoNewPr /\ applied' = applied
        BY <1>2 DEF Dismiss, store, github, Kept, NoNewPr, Present
    <2> QED BY <2>1, <2>2, MovedOneWay
<1>3. CASE Resolve(t)
    <2>1. Moved(t, "res_read", rec.pr) \/ Moved(t, "rsv_update", task[t].pr)
        BY <1>3, RequestMoves
    <2>2. Kept /\ NoNewPr /\ applied' = applied
        BY <1>3 DEF Resolve, store, github, Kept, NoNewPr, Present
    <2> QED BY <2>1, <2>2, MovedOneWay
<1>4. CASE OpenPr(t)
    <2> DEFINE w == IF rec.pr # NoPr THEN "done" ELSE EnterOpenFixPr(rec.fix)
    <2>1. Moved(t, w, task[t].pr)
        BY <1>4, RequestMoves
    <2>2. Present /\ Past /\ rec.repo /\ ~applied
        BY <1>4 DEF OpenPr, OneWayInv
    <2>3. Past' /\ task'[Pipeline].pc # "idle"
        BY <2>1, <2>2 DEF Past, Moved, Early
    <2>4. rec' = rec /\ Present' /\ applied' = applied
        BY <1>4, <2>2 DEF OpenPr, store, Present
    <2> QED BY <2>2, <2>3, <2>4 DEF OneWayInv
<1>5. ASSUME NEW n \in PrNums, NEW bound \in BOOLEAN, Webhook(t, n, bound)
      PROVE  OneWayInv'
    <2>1. Moved(t, "res_read", n) \/ Moved(t, "done", NoPr)
        BY <1>5, RequestMoves
    <2>2. Kept /\ NoNewPr /\ applied' = applied
        BY <1>5 DEF Webhook, store, Kept, NoNewPr, Present
    <2> QED BY <2>1, <2>2, MovedOneWay
<1> QED BY <1>1, <1>2, <1>3, <1>4, <1>5 DEF NewRequest

LEMMA OneWayPoll ==
    ASSUME TypeInv, OneWayInv, PollStep
    PROVE  OneWayInv'
<1> Tasked
    BY DEF TypeInv, TypeOK, Tasked
<1> Poller \in Tasks /\ Poller # Pipeline
    BY TaskAssumption DEF Tasks
<1>1. \/ Finished(Poller)
      \/ Moved(Poller, "asking", rec.pr)
      \/ Moved(Poller, "res_read", task[Poller].pr)
    BY PollMoves DEF PollStep
<1>2. Kept /\ NoNewPr /\ applied' = applied
    BY DEF PollStep, PollList, PollAnswer, PollError, store, github, Kept, NoNewPr, Present
<1> QED BY <1>1, <1>2, FinishedOneWay, MovedOneWay

LEMMA OneWayEnvironment ==
    ASSUME TypeInv, OneWayInv, Environment
    PROVE  OneWayInv'
<1> Pipeline \in Tasks
    BY DEF Tasks
<1>1. ASSUME NEW n \in PrNums, NEW how \in {"merged", "closed"}, CloseOnGithub(n, how)
      PROVE  OneWayInv'
    <2>1. NoNewPr
        BY <1>1 DEF CloseOnGithub, NoNewPr, TypeInv, TypeOK
    <2>2. Kept /\ applied' = applied /\ task' = task
        BY <1>1 DEF CloseOnGithub, store, Kept, Present
    <2> QED BY <2>1, <2>2, KeptOneWay DEF Past
<1>2. CASE Expire \/ ClearAll
    <2>1. NoNewPr /\ Kept /\ applied' = applied /\ task' = task
        BY <1>2 DEF Expire, ClearAll, NoNewPr, github, Kept
    <2> QED BY <2>1, KeptOneWay DEF Past
<1>3. CASE Crash
    <2>1. NoNewPr /\ Kept /\ applied' = applied
        BY <1>3 DEF Crash, NoNewPr, github, store, Kept, Present
    <2>2. \A u \in Tasks :
             \/ task'[u] = task[u]
             \/ /\ InFlight(u)
                /\ task'[u].pc = IF u = Poller THEN "idle" ELSE "done"
        BY <1>3, CrashMoves DEF TypeInv, TypeOK, Tasked
    <2>3. task'[Pipeline] = task[Pipeline] \/ task'[Pipeline].pc = "done"
        BY <2>2, TaskAssumption
    <2>4. \A u \in Tasks : task'[u].pc = "opening" => task[u].pc = "opening"
        BY <2>2
    <2>5. Past => Past'
        BY <2>3 DEF Past, Early
    <2> QED BY <2>1, <2>3, <2>4, <2>5, KeptOneWay
<1> QED BY <1>1, <1>2, <1>3 DEF Environment

LEMMA OneWayStutter ==
    ASSUME OneWayInv, UNCHANGED vars
    PROVE  OneWayInv'
BY DEF OneWayInv, Present, Past, Pulled, vars

LEMMA OneWayNext == TypeInv /\ OneWayInv /\ [Next]_vars => OneWayInv'
BY OneWayPipeline, OneWayOpener, OneWayResolver, OneWayHandler, OneWayRequest,
   OneWayPoll, OneWayEnvironment, OneWayStutter
DEF Next

\* For any number of requests and pull requests, an incident whose diff approve
\* wrote to the local disk has no pull request (server.py approve against
\* pr_service.py open_fix_pr).
THEOREM OneWay == Spec => []DeliveredOneWay
<1>1. OneWayInv => DeliveredOneWay
    BY DEF OneWayInv, DeliveredOneWay, Pulled
<1> QED BY <1>1, TypeInvariant, OneWayInit, OneWayNext, PTL DEF Spec

-----------------------------------------------------------------------------
(* The incident and its pull request *)

LEMMA TypeFacts ==
    ASSUME TypeInv
    PROVE  /\ Tasked
           /\ rec \in Record
           /\ prs \in [PrNums -> {"none", "open", "merged", "closed"}]
           /\ index \subseteq PrNums
BY DEF TypeInv, TypeOK, Tasked

LEMMA RequestsAreTasks == Requests \subseteq Tasks /\ Pipeline \in Tasks /\ Poller \in Tasks
BY DEF Tasks

-----------------------------------------------------------------------------
(* A resolution has a cause.  Whoever is about to resolve was sent by one,   *)
(* and a cause does not go away: a merged pull request stays merged.         *)

Caused == resolveAsked \/ \E n \in PrNums : prs[n] = "merged"

Resolving == {"res_read", "res_update", "rsv_update"}

CauseInv ==
    /\ ResolvedHasCause
    /\ \A t \in Tasks : task[t].pc \in Resolving => Caused
    /\ \A t \in Tasks : task[t].pc = "asking" => task[t].pr # NoPr

\* No step but the two updates makes the incident resolved.
NotResolved == rec'.status = "resolved" => rec.status = "resolved"

LEMMA CauseStays ==
    ASSUME TypeInv, [Next]_vars, Caused
    PROVE  Caused'
<1> prs \in [PrNums -> {"none", "open", "merged", "closed"}]
    BY TypeFacts
<1>1. ASSUME NEW t \in Tasks, OpenerStep(t) PROVE Caused'
    <2>1. CASE OpenPullRequest(t)
        <3>1. PICK n \in PrNums : prs[n] = "none" /\ prs' = [prs EXCEPT ![n] = "open"]
            BY <2>1 DEF OpenPullRequest
        <3> QED BY <2>1, <3>1 DEF OpenPullRequest, Caused, ghosts
    <2>2. CASE AutoMerge(t)
        BY <2>2 DEF AutoMerge, Caused, ghosts
    <2> QED BY <1>1, <2>1, <2>2
            DEF OpenerStep, OpenNotInstalled, OpenFail, FinalizePrOpen, NoAutoMerge,
                Caused, github, ghosts
<1>2. ASSUME NEW t \in Tasks, ResolverStep(t) PROVE Caused'
    BY <1>2 DEF ResolverStep, ResolveRead, ResolveUpdate, ResolveCleanup, ResolveTtl,
                BranchDeleted, Caused, github, ghosts
<1>3. ASSUME NEW t \in Tasks, HandlerStep(t) PROVE Caused'
    BY <1>3 DEF HandlerStep, ApproveUpdate, DismissClose, DismissUpdate, ResolveWithoutPr,
                Rearm, BranchDeleted, Caused, github, ghosts
<1>4. ASSUME NEW t \in Requests, NewRequest(t) PROVE Caused'
    BY <1>4 DEF NewRequest, Approve, Dismiss, Resolve, OpenPr, Webhook, Caused, github, ghosts
<1>5. CASE PipelineStep \/ PollStep
    BY <1>5 DEF PipelineStep, Create, FlagOperational, Locate, NothingToPatch, FinalizePatch,
                PollStep, PollList, PollAnswer, PollError, Caused, github, ghosts
<1>6. CASE Environment
    BY <1>6 DEF Environment, CloseOnGithub, Expire, Crash, ClearAll, Caused, github, ghosts
<1>7. CASE UNCHANGED vars
    BY <1>7 DEF vars, Caused
<1> QED BY <1>1, <1>2, <1>3, <1>4, <1>5, <1>6, <1>7 DEF Next

\* A coroutine moves on without a cause for a resolution, or with one.
LEMMA MovedCause ==
    ASSUME CauseInv, Caused => Caused', NEW t \in Tasks, NEW w, NEW n, Moved(t, w, n),
           w \in Resolving => Caused',
           w = "asking" => n # NoPr,
           NotResolved \/ Caused'
    PROVE  CauseInv'
<1>1. ResolvedHasCause'
    BY DEF CauseInv, ResolvedHasCause, Caused, NotResolved
<1>2. \A u \in Tasks : task'[u].pc \in Resolving => Caused'
    BY DEF CauseInv, Moved
<1>3. \A u \in Tasks : task'[u].pc = "asking" => task'[u].pr # NoPr
    BY DEF CauseInv, Moved
<1> QED BY <1>1, <1>2, <1>3 DEF CauseInv

LEMMA FinishedCause ==
    ASSUME CauseInv, Caused => Caused', NEW t \in Tasks, Finished(t), NotResolved
    PROVE  CauseInv'
BY MovedCause DEF Finished, Resolving

LEMMA CauseInit == Init => CauseInv
BY DEF Init, CauseInv, ResolvedHasCause, Resolving, Gone, Idle

LEMMA CausePipeline ==
    ASSUME TypeInv, CauseInv, Caused => Caused', PipelineStep
    PROVE  CauseInv'
<1> Tasked /\ rec \in Record /\ Pipeline \in Tasks
    BY TypeFacts, RequestsAreTasks
<1>1. NotResolved
    BY DEF PipelineStep, Create, FlagOperational, Locate, NothingToPatch, FinalizePatch,
           SetStatus, store, NotResolved, Record
<1>2. CASE Create
    BY <1>1, <1>2, PipelineMoves, MovedCause DEF Resolving
<1>3. CASE FlagOperational \/ NothingToPatch
    BY <1>1, <1>3, PipelineMoves, FinishedCause
<1>4. ASSUME NEW mapped \in BOOLEAN, Locate(mapped) PROVE CauseInv'
    BY <1>1, <1>4, PipelineMoves, MovedCause DEF Resolving
<1>5. ASSUME NEW fix \in Fixes \ {"none"}, NEW lowOptIn \in BOOLEAN,
             FinalizePatch(fix, lowOptIn)
      PROVE  CauseInv'
    <2> DEFINE w == IF Present THEN AfterPatch(fix, rec.repo, lowOptIn) ELSE "rca_raised"
    <2>1. Moved(Pipeline, w, task[Pipeline].pr)
        BY <1>5, PipelineMoves
    <2>2. w \notin Resolving /\ w # "asking"
        BY DEF AfterPatch, EnterOpenFixPr, Resolving
    <2> HIDE DEF w
    <2> QED BY <1>1, <2>1, <2>2, MovedCause
<1> QED BY <1>2, <1>3, <1>4, <1>5 DEF PipelineStep

LEMMA CauseOpener ==
    ASSUME NEW t \in Tasks, TypeInv, CauseInv, Caused => Caused', OpenerStep(t)
    PROVE  CauseInv'
<1> Tasked /\ rec \in Record
    BY TypeFacts
<1>1. NotResolved
    BY DEF OpenerStep, OpenNotInstalled, OpenFail, OpenPullRequest, FinalizePrOpen,
           NoAutoMerge, AutoMerge, SetStatus, store, NotResolved, Record
<1>2. CASE OpenNotInstalled(t) \/ NoAutoMerge(t)
    BY <1>1, <1>2, OpenerMoves, FinishedCause
<1>3. ASSUME NEW s \in {"pr_failed", "patch_stale"}, OpenFail(t, s) PROVE CauseInv'
    BY <1>1, <1>3, OpenerMoves, FinishedCause
<1>4. CASE OpenPullRequest(t)
    BY <1>1, <1>4, OpenerMoves, MovedCause DEF Resolving
<1>5. CASE FinalizePrOpen(t)
    <2>1. Finished(t) \/ Moved(t, "automerge", task[t].pr)
        BY <1>5, OpenerMoves
    <2> QED BY <1>1, <2>1, FinishedCause, MovedCause DEF Resolving
<1>6. CASE AutoMerge(t)
    <2>1. Moved(t, "res_read", task[t].pr)
        BY <1>6, OpenerMoves
    <2>2. task[t].pr \in PrNums
        BY <1>6, PrNumsRange DEF AutoMerge, TypeInv, TypeOK, OpenerHasPr, Task
    <2>3. Caused'
        BY <1>6, <2>2, TypeFacts DEF AutoMerge, Caused
    <2> QED BY <2>1, <2>3, MovedCause
<1> QED BY <1>2, <1>3, <1>4, <1>5, <1>6 DEF OpenerStep

LEMMA CauseResolver ==
    ASSUME NEW t \in Tasks, TypeInv, CauseInv, Caused => Caused', ResolverStep(t)
    PROVE  CauseInv'
<1> Tasked /\ rec \in Record
    BY TypeFacts
<1>1. CASE ResolveRead(t)
    <2>1. Caused'
        BY <1>1 DEF ResolveRead, CauseInv, Resolving
    <2>2. Finished(t) \/ Moved(t, "res_update", task[t].pr)
        BY <1>1, ResolverMoves
    <2>3. NotResolved
        BY <1>1 DEF ResolveRead, store, NotResolved
    <2> QED BY <2>1, <2>2, <2>3, FinishedCause, MovedCause
<1>2. CASE ResolveUpdate(t)
    <2>1. Caused'
        BY <1>2 DEF ResolveUpdate, CauseInv, Resolving
    <2> QED BY <1>2, <2>1, ResolverMoves, MovedCause DEF Resolving
<1>3. CASE ResolveCleanup(t)
    <2>1. NotResolved
        BY <1>3 DEF ResolveCleanup, NotResolved
    <2> QED BY <1>3, <2>1, ResolverMoves, MovedCause DEF Resolving
<1>4. CASE ResolveTtl(t)
    <2>1. NotResolved
        BY <1>4 DEF ResolveTtl, NotResolved
    <2> QED BY <1>4, <2>1, ResolverMoves, FinishedCause
<1> QED BY <1>1, <1>2, <1>3, <1>4 DEF ResolverStep

LEMMA CauseHandler ==
    ASSUME NEW t \in Tasks, TypeInv, CauseInv, Caused => Caused', HandlerStep(t)
    PROVE  CauseInv'
<1> Tasked /\ rec \in Record
    BY TypeFacts
<1>1. CASE ApproveUpdate(t)
    <2>1. NotResolved
        BY <1>1 DEF ApproveUpdate, SetStatus, NotResolved, Record
    <2>2. Finished(t) \/ Moved(t, "http_500", task[t].pr)
        BY <1>1, HandlerMoves
    <2> QED BY <2>1, <2>2, FinishedCause, MovedCause DEF Resolving
<1>2. CASE DismissClose(t) \/ DismissUpdate(t)
    <2>1. NotResolved
        BY <1>2 DEF DismissClose, DismissUpdate, SetStatus, NotResolved, Record
    <2>2. \E w \in {"dis_update", "rearm"} : Moved(t, w, task[t].pr)
        BY <1>2, HandlerMoves
    <2> QED BY <2>1, <2>2, MovedCause DEF Resolving
<1>3. CASE ResolveWithoutPr(t)
    <2>1. Caused'
        BY <1>3 DEF ResolveWithoutPr, CauseInv, Resolving
    <2> QED BY <1>3, <2>1, HandlerMoves, MovedCause DEF Resolving
<1>4. CASE Rearm(t)
    <2>1. NotResolved
        BY <1>4 DEF Rearm, NotResolved
    <2>2. Finished(t) \/ Moved(t, "http_500", task[t].pr)
        BY <1>4, HandlerMoves
    <2> QED BY <2>1, <2>2, FinishedCause, MovedCause DEF Resolving
<1> QED BY <1>1, <1>2, <1>3, <1>4 DEF HandlerStep

LEMMA CauseRequest ==
    ASSUME NEW t \in Requests, TypeInv, CauseInv, Caused => Caused', NewRequest(t)
    PROVE  CauseInv'
<1> Tasked /\ rec \in Record /\ t \in Tasks
    BY TypeFacts, RequestsAreTasks
<1>1. NotResolved
    BY DEF NewRequest, Approve, Dismiss, Resolve, OpenPr, Webhook, store, NotResolved
<1>2. ASSUME NEW force \in BOOLEAN, Approve(t, force) PROVE CauseInv'
    BY <1>1, <1>2, RequestMoves, MovedCause DEF Resolving
<1>3. CASE Dismiss(t)
    BY <1>1, <1>3, RequestMoves, MovedCause DEF Resolving
<1>4. CASE Resolve(t)
    <2>1. Caused'
        BY <1>4 DEF Resolve, Caused
    <2>2. Moved(t, "res_read", rec.pr) \/ Moved(t, "rsv_update", task[t].pr)
        BY <1>4, RequestMoves
    <2> QED BY <2>1, <2>2, MovedCause
<1>5. CASE OpenPr(t)
    <2> DEFINE w == IF rec.pr # NoPr THEN "done" ELSE EnterOpenFixPr(rec.fix)
    <2>1. Moved(t, w, task[t].pr)
        BY <1>5, RequestMoves
    <2>2. w \notin Resolving /\ w # "asking"
        BY DEF EnterOpenFixPr, Resolving
    <2> HIDE DEF w
    <2> QED BY <1>1, <2>1, <2>2, MovedCause
<1>6. ASSUME NEW n \in PrNums, NEW bound \in BOOLEAN, Webhook(t, n, bound)
      PROVE  CauseInv'
    <2>1. CASE prs[n] = "merged"
        <3>1. Caused'
            BY <2>1 DEF Caused
        <3>2. Moved(t, "res_read", n) \/ Moved(t, "done", NoPr)
            BY <1>6, RequestMoves
        <3> QED BY <3>1, <3>2, MovedCause DEF Resolving
    <2>2. CASE prs[n] # "merged"
        BY <1>1, <1>6, <2>2, RequestMoves, MovedCause DEF Resolving
    <2> QED BY <2>1, <2>2
<1> QED BY <1>2, <1>3, <1>4, <1>5, <1>6 DEF NewRequest

LEMMA CausePoll ==
    ASSUME TypeInv, CauseInv, Caused => Caused', PollStep
    PROVE  CauseInv'
<1> Tasked /\ Poller \in Tasks
    BY TypeFacts, RequestsAreTasks
<1>1. NotResolved
    BY DEF PollStep, PollList, PollAnswer, PollError, store, NotResolved
<1>2. CASE PollList
    <2>1. rec.pr # NoPr
        BY <1>2 DEF PollList
    <2> QED BY <1>1, <1>2, <2>1, PollMoves, MovedCause DEF Resolving
<1>3. CASE PollAnswer
    <2>1. task[Poller].pr \in PrNums
        BY <1>3, PrNumsRange DEF PollAnswer, CauseInv, Tasked, Task
    <2>2. CASE prs[task[Poller].pr] = "merged"
        <3>1. Caused'
            BY <2>1, <2>2 DEF Caused
        <3> QED BY <1>3, <2>2, <3>1, PollMoves, MovedCause DEF Resolving
    <2>3. CASE prs[task[Poller].pr] # "merged"
        BY <1>1, <1>3, <2>3, PollMoves, FinishedCause
    <2> QED BY <2>2, <2>3
<1>4. CASE PollError
    BY <1>1, <1>4, PollMoves, FinishedCause
<1> QED BY <1>2, <1>3, <1>4 DEF PollStep

LEMMA CauseEnvironment ==
    ASSUME TypeInv, CauseInv, Caused => Caused', Environment
    PROVE  CauseInv'
<1> Tasked
    BY TypeFacts
<1>1. NotResolved
    BY DEF Environment, CloseOnGithub, Expire, Crash, ClearAll, Gone, store, NotResolved
<1>2. ResolvedHasCause'
    BY <1>1 DEF NotResolved, CauseInv, ResolvedHasCause, Caused
<1>3. \A u \in Tasks : task'[u] = task[u] \/ task'[u].pc \in {"idle", "done"}
    BY CrashMoves DEF Environment, CloseOnGithub, Expire, ClearAll
<1> QED BY <1>2, <1>3 DEF CauseInv, Resolving

LEMMA CauseNext == TypeInv /\ CauseInv /\ [Next]_vars => CauseInv'
<1> SUFFICES ASSUME TypeInv, CauseInv, [Next]_vars PROVE CauseInv'
    OBVIOUS
<1>1. Caused => Caused'
    BY CauseStays
<1>2. CASE UNCHANGED vars
    BY <1>2 DEF vars, CauseInv, ResolvedHasCause, Caused
<1> QED BY <1>1, <1>2, CausePipeline, CauseOpener, CauseResolver, CauseHandler,
           CauseRequest, CausePoll, CauseEnvironment
        DEF Next

\* Whatever webhooks, polls, auto-merges and restarts do, an incident is resolved
\* only after a pull request was merged or a human asked for it.
THEOREM ResolutionHasCause == Spec => []ResolvedHasCause
<1>1. CauseInv => ResolvedHasCause
    BY DEF CauseInv
<1> QED BY <1>1, TypeInvariant, CauseInit, CauseNext, PTL DEF Spec

-----------------------------------------------------------------------------
(* A finished incident gets its TTL back.  The property is inductive: the    *)
(* update that finishes the incident leaves its coroutine on the way to the  *)
(* re-arming, and nothing else takes the TTL from a finished incident.       *)

Rearming == {"res_cleanup", "res_ttl", "rearm"}

Final == {"dismissed", "resolved"}

\* A step that finishes no incident and takes no TTL.
TtlKept ==
    /\ rec'.status \in Final => rec'.status = rec.status /\ expiring' = expiring
    /\ crashed' = crashed

\* The coroutine that moves was not on its way to re-arm, or still is.
LEMMA MovedTtl ==
    ASSUME FinishedIsExpiring, NEW t \in Tasks, NEW w, NEW n, Moved(t, w, n),
           TtlKept, task[t].pc \notin Rearming \/ w \in Rearming
    PROVE  FinishedIsExpiring'
BY DEF FinishedIsExpiring, Moved, TtlKept, Final, Rearming

\* Or it is the one that finished the incident.
LEMMA ArmedTtl ==
    ASSUME NEW t \in Tasks, NEW w \in Rearming, NEW n, Moved(t, w, n)
    PROVE  FinishedIsExpiring'
BY DEF FinishedIsExpiring, Moved, Rearming

LEMMA UnfinishedTtl ==
    ASSUME rec'.status \notin Final \/ expiring' \/ crashed'
    PROVE  FinishedIsExpiring'
BY DEF FinishedIsExpiring, Final

LEMMA TtlInit == Init => FinishedIsExpiring
BY DEF Init, FinishedIsExpiring, Gone

LEMMA TtlPipeline ==
    ASSUME TypeInv, FinishedIsExpiring, PipelineStep
    PROVE  FinishedIsExpiring'
<1> Tasked /\ rec \in Record /\ Pipeline \in Tasks
    BY TypeFacts, RequestsAreTasks
<1>1. TtlKept
    BY DEF PipelineStep, Create, FlagOperational, Locate, NothingToPatch, FinalizePatch,
           SetStatus, Present, store, ghosts, TtlKept, Final, Record
<1>2. \E w, n : Moved(Pipeline, w, n)
    BY PipelineMoves DEF PipelineStep, Finished
<1>3. task[Pipeline].pc \notin Rearming
    BY DEF PipelineStep, Create, FlagOperational, Locate, NothingToPatch, FinalizePatch,
           Rearming
<1> QED BY <1>1, <1>2, <1>3, MovedTtl

LEMMA TtlOpener ==
    ASSUME NEW t \in Tasks, TypeInv, FinishedIsExpiring, OpenerStep(t)
    PROVE  FinishedIsExpiring'
<1> Tasked /\ rec \in Record
    BY TypeFacts
<1>1. TtlKept
    BY DEF OpenerStep, OpenNotInstalled, OpenFail, OpenPullRequest, FinalizePrOpen,
           NoAutoMerge, AutoMerge, SetStatus, Present, store, ghosts, TtlKept, Final,
           Record
<1>2. \E w, n : Moved(t, w, n)
    BY OpenerMoves DEF OpenerStep, Finished
<1>3. task[t].pc \notin Rearming
    BY DEF OpenerStep, OpenNotInstalled, OpenFail, OpenPullRequest, FinalizePrOpen,
           NoAutoMerge, AutoMerge, Rearming
<1> QED BY <1>1, <1>2, <1>3, MovedTtl

LEMMA TtlResolver ==
    ASSUME NEW t \in Tasks, TypeInv, FinishedIsExpiring, ResolverStep(t)
    PROVE  FinishedIsExpiring'
<1> Tasked /\ rec \in Record
    BY TypeFacts
<1>1. CASE ResolveRead(t)
    <2>1. TtlKept /\ task[t].pc \notin Rearming
        BY <1>1 DEF ResolveRead, store, ghosts, TtlKept, Rearming
    <2>2. \E w, n : Moved(t, w, n)
        BY <1>1, ResolverMoves DEF Finished
    <2> QED BY <2>1, <2>2, MovedTtl
<1>2. CASE ResolveUpdate(t) \/ ResolveCleanup(t)
    BY <1>2, ResolverMoves, ArmedTtl DEF Rearming
<1>3. CASE ResolveTtl(t)
    BY <1>3, UnfinishedTtl DEF ResolveTtl, Present, Final
<1> QED BY <1>1, <1>2, <1>3 DEF ResolverStep

LEMMA TtlHandler ==
    ASSUME NEW t \in Tasks, TypeInv, FinishedIsExpiring, HandlerStep(t)
    PROVE  FinishedIsExpiring'
<1> Tasked /\ rec \in Record
    BY TypeFacts
<1>1. CASE ApproveUpdate(t) \/ DismissClose(t)
    <2>1. TtlKept /\ task[t].pc \notin Rearming
        BY <1>1 DEF ApproveUpdate, DismissClose, SetStatus, Present, ghosts, TtlKept,
                    Final, Record, Rearming
    <2>2. \E w, n : Moved(t, w, n)
        BY <1>1, HandlerMoves DEF Finished
    <2> QED BY <2>1, <2>2, MovedTtl
<1>2. CASE DismissUpdate(t) \/ ResolveWithoutPr(t)
    BY <1>2, HandlerMoves, ArmedTtl DEF Rearming
<1>3. CASE Rearm(t)
    BY <1>3, UnfinishedTtl DEF Rearm, Present, Final
<1> QED BY <1>1, <1>2, <1>3 DEF HandlerStep

LEMMA TtlRequest ==
    ASSUME NEW t \in Requests, TypeInv, FinishedIsExpiring, NewRequest(t)
    PROVE  FinishedIsExpiring'
<1> Tasked /\ t \in Tasks
    BY TypeFacts, RequestsAreTasks
<1>1. TtlKept /\ task[t].pc \notin Rearming
    BY DEF NewRequest, Approve, Dismiss, Resolve, OpenPr, Webhook, store, ghosts, TtlKept,
           Rearming
<1>2. \E w, n : Moved(t, w, n)
    BY RequestMoves DEF NewRequest
<1> QED BY <1>1, <1>2, MovedTtl

LEMMA TtlPoll ==
    ASSUME TypeInv, FinishedIsExpiring, PollStep
    PROVE  FinishedIsExpiring'
<1> Tasked /\ Poller \in Tasks
    BY TypeFacts, RequestsAreTasks
<1>1. TtlKept /\ task[Poller].pc \notin Rearming
    BY DEF PollStep, PollList, PollAnswer, PollError, store, ghosts, TtlKept, Rearming
<1>2. \E w, n : Moved(Poller, w, n)
    BY PollMoves DEF PollStep, Finished
<1> QED BY <1>1, <1>2, MovedTtl

LEMMA TtlEnvironment ==
    ASSUME FinishedIsExpiring, Environment
    PROVE  FinishedIsExpiring'
<1>1. ASSUME NEW n \in PrNums, NEW how \in {"merged", "closed"}, CloseOnGithub(n, how)
      PROVE  FinishedIsExpiring'
    BY <1>1 DEF CloseOnGithub, store, ghosts, FinishedIsExpiring
<1>2. CASE Expire \/ Crash \/ ClearAll
    BY <1>2, UnfinishedTtl DEF Expire, Crash, ClearAll, Gone, Final
<1> QED BY <1>1, <1>2 DEF Environment

LEMMA TtlNext == TypeInv /\ FinishedIsExpiring /\ [Next]_vars => FinishedIsExpiring'
<1>1. UNCHANGED vars /\ FinishedIsExpiring => FinishedIsExpiring'
    BY DEF vars, FinishedIsExpiring
<1> QED BY <1>1, TtlPipeline, TtlOpener, TtlResolver, TtlHandler, TtlRequest, TtlPoll,
           TtlEnvironment
        DEF Next

\* For any number of requests, no dismissed or resolved incident keeps the TTL it
\* lost when its pull request was opened, a restart in between apart.
THEOREM FinishedExpires == Spec => []FinishedIsExpiring
BY TypeInvariant, TtlInit, TtlNext, PTL DEF Spec

-----------------------------------------------------------------------------
(* A pull request that is waited for can be found.  An index entry is taken  *)
(* away by the cleanup of a resolution, which could hit the pull request an  *)
(* incident waits for: but the incident left pr_open before the cleanup, and *)
(* only a pull request that nobody else knows can bring it back.             *)

\* GitHub has handed the pull request out.
Made(n) == n # NoPr => prs[n] # "none"

KnownPrs ==
    /\ Made(rec.pr)
    /\ \A n \in index : Made(n)
    /\ \A t \in Tasks : Made(task[t].pr)

Elsewhere(n, t) == n = rec.pr \/ n \in index \/ \E u \in Tasks \ {t} : n = task[u].pr

\* Until it is finalized, a new pull request is known to its opener only.
OwnPr == \A t \in Tasks : task[t].pc = "finalize" => ~Elsewhere(task[t].pr, t)

CleanupOK ==
    \A t \in Tasks : task[t].pc = "res_cleanup" =>
        ~(rec.status = "pr_open" /\ rec.pr = task[t].pr)

IndexInv == KnownPrs /\ OwnPr /\ CleanupOK /\ OpenPrIsIndexed

\* A step that makes no pull request known and has the incident wait for none.
Quiet ==
    /\ rec'.pr \in {rec.pr, NoPr}
    /\ rec'.status = "pr_open" => rec.status = "pr_open" /\ rec'.pr = rec.pr
    /\ index' \subseteq index
    /\ \A n \in PrNums : prs[n] # "none" => prs'[n] # "none"

\* And takes no index entry.
Indexed == index' = index /\ closeAsked \subseteq closeAsked'

LEMMA IndexedStays ==
    ASSUME OpenPrIsIndexed, Quiet, Indexed
    PROVE  OpenPrIsIndexed'
BY DEF OpenPrIsIndexed, Quiet, Indexed

LEMMA MadeStays ==
    ASSUME Quiet, NEW n \in 0 .. MaxPr, Made(n)
    PROVE  Made(n)'
BY PrNumsRange DEF Quiet, Made

LEMMA PrTypes ==
    ASSUME TypeInv
    PROVE  /\ rec.pr \in 0 .. MaxPr
           /\ index \subseteq 0 .. MaxPr
           /\ \A t \in Tasks : task[t].pr \in 0 .. MaxPr
BY PrNumsRange DEF TypeInv, TypeOK, Record, Task

\* A coroutine moves on, with a pull request that is known.
LEMMA MovedIndex ==
    ASSUME TypeInv, IndexInv, NEW t \in Tasks, NEW w, NEW n, Moved(t, w, n),
           w # "finalize",
           n \in {NoPr, task[t].pr, rec.pr} \cup index,
           w = "res_cleanup" => rec'.status # "pr_open",
           Quiet, OpenPrIsIndexed'
    PROVE  IndexInv'
<1>1. n \in 0 .. MaxPr /\ Made(n)
    BY PrTypes, PrNumsRange DEF IndexInv, KnownPrs, Made
<1>2. \A u \in Tasks : task'[u].pr = task[u].pr \/ task'[u].pr = n
    BY DEF Moved
<1>3. KnownPrs'
    <2>1. Made(NoPr)'
        BY DEF Made
    <2>2. (Made(rec.pr))'
        BY <2>1, PrTypes, MadeStays DEF IndexInv, KnownPrs, Quiet, Made
    <2>3. \A m \in index' : Made(m)'
        BY PrTypes, MadeStays DEF IndexInv, KnownPrs, Quiet
    <2>4. \A u \in Tasks : (Made(task[u].pr))'
        BY <1>1, <1>2, PrTypes, MadeStays DEF IndexInv, KnownPrs, Made
    <2> QED BY <2>2, <2>3, <2>4 DEF KnownPrs
<1>4. OwnPr'
    <2> SUFFICES ASSUME NEW u \in Tasks, task'[u].pc = "finalize"
                 PROVE  ~(Elsewhere(task[u].pr, u))'
        BY DEF OwnPr
    <2>1. u # t /\ task'[u] = task[u]
        BY DEF Moved
    <2>2. ~Elsewhere(task[u].pr, u) /\ task[u].pr # NoPr
        BY <2>1 DEF IndexInv, OwnPr, TypeInv, OpenerHasPr
    <2>3. n # task[u].pr
        BY <2>1, <2>2 DEF Elsewhere
    <2>4. \A v \in Tasks \ {u} : task'[v].pr # task[u].pr
        BY <1>2, <2>2, <2>3 DEF Elsewhere
    <2> QED BY <2>1, <2>2, <2>4 DEF Elsewhere, Quiet
<1>5. CleanupOK'
    BY DEF IndexInv, CleanupOK, Quiet, Moved
<1> QED BY <1>3, <1>4, <1>5 DEF IndexInv

\* A step that moves no coroutine, or ends some of them.
LEMMA EndedIndex ==
    ASSUME TypeInv, IndexInv, Quiet, Indexed,
           \A u \in Tasks : \/ task'[u] = task[u]
                            \/ task'[u].pc \in {"idle", "done"} /\ task'[u].pr = NoPr
    PROVE  IndexInv'
<1>1. OpenPrIsIndexed'
    BY IndexedStays DEF IndexInv
<1>2. KnownPrs'
    <2>1. Made(NoPr)'
        BY DEF Made
    <2>2. (Made(rec.pr))'
        BY <2>1, PrTypes, MadeStays DEF IndexInv, KnownPrs, Quiet, Made
    <2>3. \A m \in index' : Made(m)'
        BY PrTypes, MadeStays DEF IndexInv, KnownPrs, Quiet
    <2>4. \A u \in Tasks : (Made(task[u].pr))'
        BY <2>1, PrTypes, MadeStays DEF IndexInv, KnownPrs, Made
    <2> QED BY <2>2, <2>3, <2>4 DEF KnownPrs
<1>3. OwnPr'
    <2> SUFFICES ASSUME NEW u \in Tasks, task'[u].pc = "finalize"
                 PROVE  ~(Elsewhere(task[u].pr, u))'
        BY DEF OwnPr
    <2>1. task'[u] = task[u] /\ ~Elsewhere(task[u].pr, u) /\ task[u].pr # NoPr
        BY DEF IndexInv, OwnPr, TypeInv, OpenerHasPr
    <2> QED BY <2>1 DEF Elsewhere, Quiet
<1>4. CleanupOK'
    BY DEF IndexInv, CleanupOK, Quiet
<1> QED BY <1>1, <1>2, <1>3, <1>4 DEF IndexInv

\* The common case: a coroutine that keeps or drops its pull request, or takes
\* the incident's, and touches no index entry.
LEMMA QuietMove ==
    ASSUME TypeInv, IndexInv, NEW t \in Tasks, NEW w, NEW n, Moved(t, w, n),
           w \notin {"finalize", "res_cleanup"},
           n \in {NoPr, task[t].pr, rec.pr} \cup index,
           Quiet, Indexed
    PROVE  IndexInv'
BY MovedIndex, IndexedStays DEF IndexInv

LEMMA QuietFinish ==
    ASSUME TypeInv, IndexInv, NEW t \in Tasks, Finished(t), Quiet, Indexed
    PROVE  IndexInv'
BY QuietMove DEF Finished

LEMMA IndexInit == Init => IndexInv
BY DEF Init, IndexInv, KnownPrs, Made, OwnPr, CleanupOK, OpenPrIsIndexed, Gone, Idle

LEMMA IndexPipeline ==
    ASSUME TypeInv, IndexInv, PipelineStep
    PROVE  IndexInv'
<1> Tasked /\ rec \in Record /\ Pipeline \in Tasks
    BY TypeFacts, RequestsAreTasks
<1>1. Quiet /\ Indexed
    BY DEF PipelineStep, Create, FlagOperational, Locate, NothingToPatch, FinalizePatch,
           SetStatus, store, github, ghosts, Quiet, Indexed, Record
<1>2. CASE Create
    BY <1>1, <1>2, PipelineMoves, QuietMove
<1>3. CASE FlagOperational \/ NothingToPatch
    BY <1>1, <1>3, PipelineMoves, QuietFinish
<1>4. ASSUME NEW mapped \in BOOLEAN, Locate(mapped) PROVE IndexInv'
    BY <1>1, <1>4, PipelineMoves, QuietMove
<1>5. ASSUME NEW fix \in Fixes \ {"none"}, NEW lowOptIn \in BOOLEAN,
             FinalizePatch(fix, lowOptIn)
      PROVE  IndexInv'
    <2> DEFINE w == IF Present THEN AfterPatch(fix, rec.repo, lowOptIn) ELSE "rca_raised"
    <2>1. Moved(Pipeline, w, task[Pipeline].pr)
        BY <1>5, PipelineMoves
    <2>2. w \notin {"finalize", "res_cleanup"}
        BY DEF AfterPatch, EnterOpenFixPr
    <2> HIDE DEF w
    <2> QED BY <1>1, <2>1, <2>2, QuietMove
<1> QED BY <1>2, <1>3, <1>4, <1>5 DEF PipelineStep

\* GitHub numbers a new pull request with a number nobody holds.
LEMMA NewPullRequest ==
    ASSUME NEW t \in Tasks, TypeInv, IndexInv, OpenPullRequest(t)
    PROVE  IndexInv'
<1>1. PICK n \in PrNums : /\ Moved(t, "finalize", n)
                          /\ prs[n] = "none"
                          /\ prs' = [prs EXCEPT ![n] = "open"]
    BY TypeFacts, OpenerMoves
<1>2. UNCHANGED <<rec, index, closeAsked>>
    BY DEF OpenPullRequest, store, ghosts
<1>3. n # NoPr /\ ~Made(n)
    BY <1>1, PrNumsRange DEF Made
<1>4. rec.pr # n /\ n \notin index /\ \A u \in Tasks : task[u].pr # n
    BY <1>3 DEF IndexInv, KnownPrs
<1>5. Quiet /\ Indexed
    BY <1>1, <1>2, TypeFacts DEF Quiet, Indexed
<1>6. \A u \in Tasks \ {t} : task'[u] = task[u]
    BY <1>1 DEF Moved
<1>7. task'[t].pr = n /\ task'[t].pc = "finalize"
    BY <1>1 DEF Moved
<1>8. KnownPrs'
    <2>1. Made(n)'
        BY <1>1, TypeFacts DEF Made
    <2>2. (Made(rec.pr))' /\ \A m \in index' : Made(m)'
        BY <1>2, <1>5, PrTypes, MadeStays DEF IndexInv, KnownPrs, Made
    <2>3. \A u \in Tasks \ {t} : (Made(task[u].pr))'
        BY <1>5, <1>6, PrTypes, MadeStays DEF IndexInv, KnownPrs, Made
    <2> QED BY <1>7, <2>1, <2>2, <2>3 DEF KnownPrs, Made
<1>9. OwnPr'
    <2> SUFFICES ASSUME NEW u \in Tasks, task'[u].pc = "finalize"
                 PROVE  ~(Elsewhere(task[u].pr, u))'
        BY DEF OwnPr
    <2>1. CASE u = t
        BY <1>2, <1>4, <1>6, <1>7, <2>1 DEF Elsewhere
    <2>2. CASE u # t
        <3>1. ~Elsewhere(task[u].pr, u) /\ task'[u] = task[u]
            BY <1>6, <2>2 DEF IndexInv, OwnPr
        <3> QED BY <1>2, <1>4, <1>6, <1>7, <3>1 DEF Elsewhere
    <2> QED BY <2>1, <2>2
<1>10. CleanupOK'
    BY <1>2, <1>6, <1>7 DEF IndexInv, CleanupOK
<1>11. OpenPrIsIndexed'
    BY <1>5, IndexedStays DEF IndexInv
<1> QED BY <1>8, <1>9, <1>10, <1>11 DEF IndexInv

\* finalize_pr_open makes it known, and the incident wait for it.
LEMMA FinalizedIndex ==
    ASSUME NEW t \in Tasks, TypeInv, IndexInv, FinalizePrOpen(t), Present
    PROVE  IndexInv'
<1> DEFINE n == task[t].pr
<1>1. Moved(t, "automerge", n)
    BY TypeFacts, OpenerMoves
<1>2. n # NoPr /\ ~Elsewhere(n, t) /\ Made(n)
    BY DEF FinalizePrOpen, TypeInv, OpenerHasPr, IndexInv, OwnPr, KnownPrs
<1>3. /\ rec'.pr = n /\ rec'.status = "pr_open"
      /\ index' = index \cup {n}
      /\ prs' = prs
    BY TypeFacts DEF FinalizePrOpen, Record, github
<1>4. \A u \in Tasks \ {t} : task'[u] = task[u] /\ task[u].pr # n
    BY <1>1, <1>2 DEF Moved, Elsewhere
<1>5. task'[t].pc = "automerge" /\ task'[t].pr = n
    BY <1>1 DEF Moved
<1> HIDE DEF n
<1>6. KnownPrs'
    BY <1>2, <1>3, <1>4, <1>5 DEF IndexInv, KnownPrs, Made
<1>7. OwnPr'
    <2> SUFFICES ASSUME NEW u \in Tasks, task'[u].pc = "finalize"
                 PROVE  ~(Elsewhere(task[u].pr, u))'
        BY DEF OwnPr
    <2>1. u # t /\ ~Elsewhere(task[u].pr, u)
        BY <1>4, <1>5 DEF IndexInv, OwnPr
    <2> QED BY <1>3, <1>4, <1>5, <2>1 DEF Elsewhere
<1>8. CleanupOK'
    BY <1>3, <1>4, <1>5 DEF CleanupOK
<1>9. OpenPrIsIndexed'
    BY <1>3 DEF OpenPrIsIndexed
<1> QED BY <1>6, <1>7, <1>8, <1>9 DEF IndexInv

LEMMA IndexOpener ==
    ASSUME NEW t \in Tasks, TypeInv, IndexInv, OpenerStep(t)
    PROVE  IndexInv'
<1> Tasked /\ rec \in Record
    BY TypeFacts
<1>1. CASE OpenNotInstalled(t) \/ NoAutoMerge(t)
    <2>1. Quiet /\ Indexed
        BY <1>1 DEF OpenNotInstalled, NoAutoMerge, store, github, ghosts, Quiet, Indexed
    <2> QED BY <1>1, <2>1, OpenerMoves, QuietFinish
<1>2. ASSUME NEW s \in {"pr_failed", "patch_stale"}, OpenFail(t, s)
      PROVE  IndexInv'
    <2>1. Quiet /\ Indexed
        BY <1>2 DEF OpenFail, SetStatus, github, ghosts, Quiet, Indexed, Record
    <2> QED BY <1>2, <2>1, OpenerMoves, QuietFinish
<1>3. CASE OpenPullRequest(t)
    BY <1>3, NewPullRequest
<1>4. CASE FinalizePrOpen(t) /\ Present
    BY <1>4, FinalizedIndex
<1>5. CASE FinalizePrOpen(t) /\ ~Present
    <2>1. Quiet /\ Indexed
        BY <1>5 DEF FinalizePrOpen, store, github, ghosts, Quiet, Indexed
    <2> QED BY <1>5, <2>1, OpenerMoves, QuietFinish
<1>6. CASE AutoMerge(t)
    <2>1. Quiet /\ Indexed
        BY <1>6, TypeFacts DEF AutoMerge, store, ghosts, Quiet, Indexed
    <2> QED BY <1>6, <2>1, OpenerMoves, QuietMove
<1> QED BY <1>1, <1>2, <1>3, <1>4, <1>5, <1>6 DEF OpenerStep

LEMMA IndexResolver ==
    ASSUME NEW t \in Tasks, TypeInv, IndexInv, ResolverStep(t)
    PROVE  IndexInv'
<1> Tasked /\ rec \in Record
    BY TypeFacts
<1>1. CASE ResolveRead(t)
    <2>1. Quiet /\ Indexed
        BY <1>1 DEF ResolveRead, store, github, ghosts, Quiet, Indexed
    <2>2. Finished(t) \/ Moved(t, "res_update", task[t].pr)
        BY <1>1, ResolverMoves
    <2> QED BY <2>1, <2>2, QuietFinish, QuietMove
<1>2. CASE ResolveUpdate(t)
    <2>1. Quiet /\ Indexed /\ rec'.status # "pr_open"
        BY <1>2 DEF ResolveUpdate, SetStatus, Present, github, ghosts, Quiet, Indexed, Record
    <2>2. OpenPrIsIndexed'
        BY <2>1 DEF OpenPrIsIndexed
    <2> QED BY <1>2, <2>1, <2>2, ResolverMoves, MovedIndex
<1>3. CASE ResolveCleanup(t)
    <2>1. Quiet
        BY <1>3, TypeFacts DEF ResolveCleanup, BranchDeleted, Quiet
    <2>2. ~(rec.status = "pr_open" /\ rec.pr = task[t].pr)
        BY <1>3 DEF ResolveCleanup, IndexInv, CleanupOK
    <2>3. OpenPrIsIndexed'
        BY <1>3, <2>2 DEF ResolveCleanup, IndexInv, OpenPrIsIndexed, ghosts
    <2> QED BY <1>3, <2>1, <2>3, ResolverMoves, MovedIndex
<1>4. CASE ResolveTtl(t)
    <2>1. Quiet /\ Indexed
        BY <1>4 DEF ResolveTtl, github, ghosts, Quiet, Indexed
    <2> QED BY <1>4, <2>1, ResolverMoves, QuietFinish
<1> QED BY <1>1, <1>2, <1>3, <1>4 DEF ResolverStep

LEMMA IndexHandler ==
    ASSUME NEW t \in Tasks, TypeInv, IndexInv, HandlerStep(t)
    PROVE  IndexInv'
<1> Tasked /\ rec \in Record
    BY TypeFacts
<1>1. CASE ApproveUpdate(t) \/ Rearm(t)
    <2>1. Quiet /\ Indexed
        BY <1>1 DEF ApproveUpdate, Rearm, SetStatus, github, ghosts, Quiet, Indexed, Record
    <2>2. Finished(t) \/ Moved(t, "http_500", task[t].pr)
        BY <1>1, HandlerMoves
    <2> QED BY <2>1, <2>2, QuietFinish, QuietMove
<1>2. CASE DismissClose(t)
    <2>1. Quiet
        BY <1>2, TypeFacts DEF DismissClose, BranchDeleted, Quiet
    <2>2. OpenPrIsIndexed'
        BY <1>2 DEF DismissClose, IndexInv, OpenPrIsIndexed
    <2> QED BY <1>2, <2>1, <2>2, HandlerMoves, MovedIndex
<1>3. CASE DismissUpdate(t) \/ ResolveWithoutPr(t)
    <2>1. Quiet /\ Indexed
        BY <1>3 DEF DismissUpdate, ResolveWithoutPr, SetStatus, github, ghosts, Quiet,
                    Indexed, Record
    <2> QED BY <1>3, <2>1, HandlerMoves, QuietMove
<1> QED BY <1>1, <1>2, <1>3 DEF HandlerStep

LEMMA IndexRequest ==
    ASSUME NEW t \in Requests, TypeInv, IndexInv, NewRequest(t)
    PROVE  IndexInv'
<1> Tasked /\ t \in Tasks
    BY TypeFacts, RequestsAreTasks
<1>1. Quiet /\ Indexed
    BY DEF NewRequest, Approve, Dismiss, Resolve, OpenPr, Webhook, store, github, ghosts,
           Quiet, Indexed
<1>2. ASSUME NEW force \in BOOLEAN, Approve(t, force) PROVE IndexInv'
    BY <1>1, <1>2, RequestMoves, QuietMove
<1>3. CASE Dismiss(t)
    BY <1>1, <1>3, RequestMoves, QuietMove
<1>4. CASE Resolve(t)
    <2>1. Moved(t, "res_read", rec.pr) \/ Moved(t, "rsv_update", task[t].pr)
        BY <1>4, RequestMoves
    <2> QED BY <1>1, <2>1, QuietMove
<1>5. CASE OpenPr(t)
    <2> DEFINE w == IF rec.pr # NoPr THEN "done" ELSE EnterOpenFixPr(rec.fix)
    <2>1. Moved(t, w, task[t].pr)
        BY <1>5, RequestMoves
    <2>2. w \notin {"finalize", "res_cleanup"}
        BY DEF EnterOpenFixPr
    <2> HIDE DEF w
    <2> QED BY <1>1, <2>1, <2>2, QuietMove
<1>6. ASSUME NEW n \in PrNums, NEW bound \in BOOLEAN, Webhook(t, n, bound)
      PROVE  IndexInv'
    <2>1. (n \in index /\ Moved(t, "res_read", n)) \/ Moved(t, "done", NoPr)
        BY <1>6, RequestMoves
    <2> QED BY <1>1, <2>1, QuietMove
<1> QED BY <1>2, <1>3, <1>4, <1>5, <1>6 DEF NewRequest

LEMMA IndexPoll ==
    ASSUME TypeInv, IndexInv, PollStep
    PROVE  IndexInv'
<1> Tasked /\ Poller \in Tasks
    BY TypeFacts, RequestsAreTasks
<1>1. Quiet /\ Indexed
    BY DEF PollStep, PollList, PollAnswer, PollError, store, github, ghosts, Quiet, Indexed
<1>2. \/ Finished(Poller)
      \/ Moved(Poller, "asking", rec.pr)
      \/ Moved(Poller, "res_read", task[Poller].pr)
    BY PollMoves DEF PollStep
<1> QED BY <1>1, <1>2, QuietFinish, QuietMove

LEMMA IndexEnvironment ==
    ASSUME TypeInv, IndexInv, Environment
    PROVE  IndexInv'
<1> Tasked
    BY TypeFacts
<1>1. Quiet /\ Indexed
    BY TypeFacts DEF Environment, CloseOnGithub, Expire, Crash, ClearAll, Gone, store, github,
                     ghosts, Quiet, Indexed
<1>2. \A u \in Tasks : \/ task'[u] = task[u]
                       \/ task'[u].pc \in {"idle", "done"} /\ task'[u].pr = NoPr
    BY CrashMoves DEF Environment, CloseOnGithub, Expire, ClearAll
<1> QED BY <1>1, <1>2, EndedIndex

LEMMA IndexStutter ==
    ASSUME IndexInv, UNCHANGED vars
    PROVE  IndexInv'
BY DEF vars, IndexInv, KnownPrs, Made, OwnPr, Elsewhere, CleanupOK, OpenPrIsIndexed

LEMMA IndexNext == TypeInv /\ IndexInv /\ [Next]_vars => IndexInv'
BY RequestsAreTasks, IndexPipeline, IndexOpener, IndexResolver, IndexHandler,
   IndexRequest, IndexPoll, IndexEnvironment, IndexStutter
DEF Next

\* For any number of requests and pull requests, the webhook of the pull request an
\* incident waits for finds it, unless a dismissal asked for that very one to be
\* closed.
THEOREM OpenPrCanBeFound == Spec => []OpenPrIsIndexed
<1>1. IndexInv => OpenPrIsIndexed
    BY DEF IndexInv
<1> QED BY <1>1, TypeInvariant, IndexInit, IndexNext, PTL DEF Spec

-----------------------------------------------------------------------------
(* A merge is logged.  The update that resolves the incident leaves its      *)
(* coroutine two steps from the entry and with what the update returned;     *)
(* nothing but a restart takes a coroutine away, and the other resolutions   *)
(* are those a human asked for.                                              *)

Logging == {"res_cleanup", "res_ttl"}

LogInv ==
    /\ MergeIsLogged
    /\ \A t \in Tasks : task[t].pc = "rsv_update" => resolveAsked

\* A step that resolves nothing and takes no entry back.
LogKept ==
    /\ NotResolved
    /\ mergedLog' = mergedLog
    /\ crashed' = crashed
    /\ resolveAsked' \in {resolveAsked, TRUE}

\* The coroutine that moves was not about to write the entry.
LEMMA MovedLog ==
    ASSUME TypeInv, LogInv, NEW t \in Tasks, NEW w, NEW n, Moved(t, w, n), LogKept,
           task[t].pc \notin Logging, w = "rsv_update" => resolveAsked'
    PROVE  LogInv'
<1>1. \A u \in Tasks : task[u].pc \in Logging => task'[u] = task[u]
    BY DEF Moved
<1>2. resolveAsked => resolveAsked'
    BY Zenon DEF LogKept
<1>3. MergeIsLogged'
    <2> SUFFICES ASSUME rec'.status = "resolved", ~resolveAsked', ~crashed'
                 PROVE  mergedLog' > 0 \/ \E u \in Tasks : task'[u].pc \in Logging /\ task'[u].live
        BY DEF MergeIsLogged, Logging
    <2>1. rec.status = "resolved" /\ ~resolveAsked /\ ~crashed
        BY <1>2 DEF LogKept, NotResolved
    <2>2. mergedLog > 0 \/ \E u \in Tasks : task[u].pc \in Logging /\ task[u].live
        BY <2>1 DEF LogInv, MergeIsLogged, Logging
    <2> QED BY <1>1, <2>2 DEF LogKept
<1>4. \A u \in Tasks : task'[u].pc = "rsv_update" => resolveAsked'
    <2> SUFFICES ASSUME NEW u \in Tasks, task'[u].pc = "rsv_update" PROVE resolveAsked'
        OBVIOUS
    <2>1. CASE u = t
        BY <2>1 DEF Moved
    <2>2. CASE u # t
        BY <1>2, <2>2 DEF Moved, LogInv
    <2> QED BY <2>1, <2>2
<1> QED BY <1>3, <1>4 DEF LogInv

LEMMA FinishedLog ==
    ASSUME TypeInv, LogInv, NEW t \in Tasks, Finished(t), LogKept, task[t].pc \notin Logging
    PROVE  LogInv'
BY MovedLog DEF Finished

LEMMA LogInit == Init => LogInv
BY DEF Init, LogInv, MergeIsLogged, Gone, Idle

LEMMA LogPipeline ==
    ASSUME TypeInv, LogInv, PipelineStep
    PROVE  LogInv'
<1> Tasked /\ rec \in Record /\ Pipeline \in Tasks
    BY TypeFacts, RequestsAreTasks
<1>1. LogKept
    BY DEF PipelineStep, Create, FlagOperational, Locate, NothingToPatch, FinalizePatch,
           SetStatus, store, ghosts, LogKept, NotResolved, Record
<1>2. task[Pipeline].pc \notin Logging
    BY DEF PipelineStep, Create, FlagOperational, Locate, NothingToPatch, FinalizePatch,
           Logging
<1>3. \E w, n : Moved(Pipeline, w, n) /\ w # "rsv_update"
    <2>1. \A fix, mapped, lowOptIn : AfterPatch(fix, mapped, lowOptIn) # "rsv_update"
        BY DEF AfterPatch, EnterOpenFixPr
    <2> QED BY <2>1, PipelineMoves DEF PipelineStep, Finished
<1> QED BY <1>1, <1>2, <1>3, MovedLog

LEMMA LogOpener ==
    ASSUME NEW t \in Tasks, TypeInv, LogInv, OpenerStep(t)
    PROVE  LogInv'
<1> Tasked /\ rec \in Record
    BY TypeFacts
<1>1. LogKept
    BY DEF OpenerStep, OpenNotInstalled, OpenFail, OpenPullRequest, FinalizePrOpen,
           NoAutoMerge, AutoMerge, SetStatus, store, ghosts, LogKept, NotResolved, Record
<1>2. task[t].pc \notin Logging
    BY DEF OpenerStep, OpenNotInstalled, OpenFail, OpenPullRequest, FinalizePrOpen,
           NoAutoMerge, AutoMerge, Logging
<1>3. \E w, n : Moved(t, w, n) /\ w # "rsv_update"
    BY OpenerMoves DEF OpenerStep, Finished
<1> QED BY <1>1, <1>2, <1>3, MovedLog

LEMMA LogResolver ==
    ASSUME NEW t \in Tasks, TypeInv, LogInv, ResolverStep(t)
    PROVE  LogInv'
<1> Tasked /\ rec \in Record
    BY TypeFacts
<1>1. CASE ResolveRead(t)
    <2>1. LogKept /\ task[t].pc \notin Logging
        BY <1>1 DEF ResolveRead, store, ghosts, LogKept, NotResolved, Logging
    <2>2. \E w, n : Moved(t, w, n) /\ w # "rsv_update"
        BY <1>1, ResolverMoves DEF Finished
    <2> QED BY <2>1, <2>2, MovedLog
<1>2. CASE ResolveUpdate(t)
    <2>1. Moved(t, "res_cleanup", task[t].pr)
        BY <1>2, ResolverMoves
    <2>2. CASE Present
        <3>1. task'[t].live
            BY <1>2, <2>2 DEF ResolveUpdate, Tasked, Task
        <3> QED BY <1>2, <2>1, <3>1 DEF ResolveUpdate, ghosts, LogInv, MergeIsLogged, Moved
    <2>3. CASE ~Present
        <3>1. LogKept
            BY <1>2, <2>3 DEF ResolveUpdate, SetStatus, ghosts, LogKept, NotResolved
        <3>2. task[t].pc \notin Logging
            BY <1>2 DEF ResolveUpdate, Logging
        <3> QED BY <2>1, <3>1, <3>2, MovedLog
    <2> QED BY <2>2, <2>3
<1>3. CASE ResolveCleanup(t)
    <2>1. Moved(t, "res_ttl", NoPr) /\ task'[t].live = task[t].live
        BY <1>3, ResolverMoves DEF ResolveCleanup, Tasked, Task, Idle
    <2> QED BY <1>3, <2>1 DEF ResolveCleanup, ghosts, LogInv, MergeIsLogged, Moved
<1>4. CASE ResolveTtl(t)
    <2>1. Moved(t, IF t = Poller THEN "idle" ELSE "done", NoPr)
        BY <1>4, ResolverMoves DEF Finished
    <2>2. mergedLog \in Nat
        BY DEF TypeInv, TypeOK
    <2>3. CASE task[t].live
        <3>1. mergedLog' > 0
            BY <1>4, <2>2, <2>3 DEF ResolveTtl
        <3> QED BY <1>4, <2>1, <3>1 DEF ResolveTtl, ghosts, LogInv, MergeIsLogged, Moved
    <2>4. CASE ~task[t].live
        BY <1>4, <2>1, <2>4 DEF ResolveTtl, ghosts, LogInv, MergeIsLogged, Moved
    <2> QED BY <2>3, <2>4
<1> QED BY <1>1, <1>2, <1>3, <1>4 DEF ResolverStep

LEMMA LogHandler ==
    ASSUME NEW t \in Tasks, TypeInv, LogInv, HandlerStep(t)
    PROVE  LogInv'
<1> Tasked /\ rec \in Record
    BY TypeFacts
<1>1. task[t].pc \notin Logging
    BY DEF HandlerStep, ApproveUpdate, DismissClose, DismissUpdate, ResolveWithoutPr, Rearm,
           Logging
<1>2. \E w, n : Moved(t, w, n) /\ w # "rsv_update"
    BY HandlerMoves DEF HandlerStep, Finished
<1>3. CASE ResolveWithoutPr(t)
    <2>1. resolveAsked /\ resolveAsked'
        BY <1>3 DEF ResolveWithoutPr, ghosts, LogInv
    <2> QED BY <1>2, <1>3, <2>1 DEF ResolveWithoutPr, ghosts, LogInv, MergeIsLogged, Moved
<1>4. CASE ApproveUpdate(t) \/ DismissClose(t) \/ DismissUpdate(t) \/ Rearm(t)
    <2>1. LogKept
        BY <1>4 DEF ApproveUpdate, DismissClose, DismissUpdate, Rearm, SetStatus, ghosts,
                    LogKept, NotResolved, Record
    <2> QED BY <1>1, <1>2, <2>1, MovedLog
<1> QED BY <1>3, <1>4 DEF HandlerStep

LEMMA LogRequest ==
    ASSUME NEW t \in Requests, TypeInv, LogInv, NewRequest(t)
    PROVE  LogInv'
<1> Tasked /\ t \in Tasks
    BY TypeFacts, RequestsAreTasks
<1>1. LogKept /\ task[t].pc \notin Logging
    BY DEF NewRequest, Approve, Dismiss, Resolve, OpenPr, Webhook, store, ghosts, LogKept,
           NotResolved, Logging
<1>2. CASE Resolve(t)
    <2>1. resolveAsked'
        BY <1>2 DEF Resolve
    <2>2. \E w, n : Moved(t, w, n)
        BY <1>2, RequestMoves
    <2> QED BY <1>1, <2>1, <2>2, MovedLog
<1>3. CASE ~Resolve(t)
    <2>1. \A fix : EnterOpenFixPr(fix) # "rsv_update"
        BY DEF EnterOpenFixPr
    <2>2. \E w, n : Moved(t, w, n) /\ w # "rsv_update"
        BY <1>3, <2>1, RequestMoves DEF NewRequest
    <2> QED BY <1>1, <2>2, MovedLog
<1> QED BY <1>2, <1>3

LEMMA LogPoll ==
    ASSUME TypeInv, LogInv, PollStep
    PROVE  LogInv'
<1> Tasked /\ Poller \in Tasks
    BY TypeFacts, RequestsAreTasks
<1>1. LogKept /\ task[Poller].pc \notin Logging
    BY DEF PollStep, PollList, PollAnswer, PollError, store, ghosts, LogKept, NotResolved,
           Logging
<1>2. \E w, n : Moved(Poller, w, n) /\ w # "rsv_update"
    BY PollMoves DEF PollStep, Finished
<1> QED BY <1>1, <1>2, MovedLog

LEMMA LogEnvironment ==
    ASSUME TypeInv, LogInv, Environment
    PROVE  LogInv'
<1> Tasked
    BY TypeFacts
<1>1. CASE Crash
    <2>1. \A u \in Tasks : task'[u] = task[u] \/ task'[u].pc \in {"idle", "done"}
        BY <1>1, CrashMoves
    <2> QED BY <1>1, <2>1 DEF Crash, LogInv, MergeIsLogged
<1>2. CASE ~Crash
    BY <1>2 DEF Environment, CloseOnGithub, Expire, ClearAll, Gone, store, ghosts, LogInv,
                MergeIsLogged
<1> QED BY <1>1, <1>2

LEMMA LogNext == TypeInv /\ LogInv /\ [Next]_vars => LogInv'
<1>1. UNCHANGED vars /\ LogInv => LogInv'
    BY DEF vars, LogInv, MergeIsLogged
<1> QED BY <1>1, LogPipeline, LogOpener, LogResolver, LogHandler, LogRequest, LogPoll,
           LogEnvironment
        DEF Next

\* For any number of requests that race for the resolution, a merge that resolved
\* its incident is in the change log or on its way there, a restart apart.
THEOREM MergesAreLogged == Spec => []MergeIsLogged
BY TypeInvariant, LogInit, LogNext, PTL DEF Spec, LogInv

=============================================================================
