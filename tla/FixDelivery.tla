----------------------------- MODULE FixDelivery -----------------------------
(***************************************************************************)
(* From a located failure to a changed file: the block a model is shown or *)
(* a template rewrites (rca/patch_generator.py, rca/remediation.py), the   *)
(* diff, its gates and score (rca/validator.py, rca/confidence.py), and    *)
(* the hunks that are applied later (rca/diff_engine.py) to the file on    *)
(* the disk (rca/applier.py) or at the head of a branch (pr_service.py),   *)
(* which others, other fixes among them, edit in between.                  *)
(***************************************************************************)
EXTENDS Naturals, Sequences, FiniteSets, SequencesExt

CONSTANTS
    Texts,      \* what the file may hold at first: sequences of words, a word per line
    Blocks,     \* <<first, last>> lines of the function that fails
    Fixed,      \* the word a fix writes
    Marks,      \* the words others write
    Dashed,     \* words that begin with "--"
    Context,    \* context lines of a hunk
    MaxEdits,   \* bound: edits by others
    MaxApprovals \* bound: approvals that overlap

ASSUME DeliveryAssumption ==
    /\ \A text \in Texts : text \in Seq(ToSet(text))
    /\ Blocks \subseteq Nat \X Nat
    /\ Context \in Nat \ {0} /\ Marks \cap {Fixed} = {}
    /\ MaxEdits \in Nat /\ MaxApprovals \in Nat \ {0}

VARIABLES
    way,        \* "disk" or "repo": where the file is read from and the fix goes to
    file,       \* the file, on the disk of the backend or at the head of the branch
    fix,        \* the incident: its status, and what was read and written for it
    approving,  \* approvals that have read the incident and not yet applied its diff
    pull,       \* what open_fix_pr has fetched, as a set
    delivered,  \* history: what was written or committed, <<how, before, after>>
    edits

fixVars == <<way, file, fix, approving, pull, delivered, edits>>

NoFixYet == [at |-> "new", shown |-> <<>>, block |-> <<1, 0>>, hunks |-> <<>>, goal |-> <<>>]

FixInit ==
    /\ way \in {"disk", "repo"}
    /\ file \in Texts
    /\ fix = NoFixYet
    /\ approving = 0
    /\ pull = {}
    /\ delivered = <<>>
    /\ edits = 0

-----------------------------------------------------------------------------
(* A script says of each line whether it is dropped and what comes after it. *)
Keep == [drop |-> FALSE, add |-> <<>>]
Script(n) == {s \in [1..n -> [drop : BOOLEAN, add : {<<>>, <<Fixed>>}]] :
                 Cardinality({i \in 1..n : s[i] # Keep}) \in 1..2}
Rewritten(text, s) == FlattenSeq([i \in DOMAIN text |-> (IF s[i].drop THEN <<>> ELSE <<text[i]>>) \o s[i].add])

\* difflib.unified_diff(): the lines within Context of a change, in maximal runs.
Near(text, s, i) ==
    \E j \in DOMAIN text : s[j] # Keep /\ i \in (j - Context + (IF s[j].drop THEN 0 ELSE 1))..(j + Context)
Firsts(text, s) == {i \in DOMAIN text : Near(text, s, i) /\ (i = 1 \/ ~Near(text, s, i - 1))}
End(text, s, i) ==
    CHOOSE k \in DOMAIN text :
        k >= i /\ (\A j \in i..k : Near(text, s, j)) /\ (k = Len(text) \/ ~Near(text, s, k + 1))
Lines(text, s, i) == <<[tag |-> IF s[i].drop THEN "-" ELSE " ", word |-> text[i]]>>
                        \o [k \in DOMAIN s[i].add |-> [tag |-> "+", word |-> s[i].add[k]]]
Hunk(text, s, i) ==
    [start |-> i, body |-> FlattenSeq([j \in 1..(End(text, s, i) - i + 1) |-> Lines(text, s, i + j - 1)])]
UnifiedDiff(text, s) ==
    LET F == Firsts(text, s)
    IN [k \in 1..Cardinality(F) |-> Hunk(text, s, CHOOSE i \in F : Cardinality({j \in F : j <= i}) = k)]

-----------------------------------------------------------------------------
(* diff_engine.py *)

\* A removed line that begins with "--" looks like a file header (so does an
\* added one that begins with "++", which nobody writes here).
Header(l) == l.tag = "-" /\ l.word \in Dashed
\* parse_hunks(): what follows such a line in its hunk is skipped.
ParseHunks(diff) ==
    [k \in DOMAIN diff |->
        LET b == diff[k].body
            n == Cardinality({i \in DOMAIN b : \A j \in 1..i : ~Header(b[j])})
        IN [diff[k] EXCEPT !.body = SubSeq(b, 1, n)]]

\* Mutant: context lines are copied and not compared.
ApplyLineLax(src, acc, l) ==
    IF ~acc.ok \/ (l.tag = "-" /\ (acc.idx >= Len(src) \/ src[acc.idx + 1] # l.word))
    THEN [acc EXCEPT !.ok = FALSE]
    ELSE [acc EXCEPT !.idx = IF l.tag = "+" THEN @ ELSE @ + 1, !.out = IF l.tag = "-" THEN @ ELSE Append(@, l.word)]
\* A line of a hunk: context and removals are verified.
ApplyLine(src, acc, l) ==
    IF ~acc.ok \/ (l.tag # "+" /\ (acc.idx >= Len(src) \/ src[acc.idx + 1] # l.word))
    THEN [acc EXCEPT !.ok = FALSE]
    ELSE [acc EXCEPT !.idx = IF l.tag = "+" THEN @ ELSE @ + 1, !.out = IF l.tag = "-" THEN @ ELSE Append(@, l.word)]

\* A hunk that starts where the one before has been, or beyond the file, is refused.
ApplyHunk(src, acc, h) ==
    IF ~acc.ok \/ h.start - 1 < acc.idx \/ h.start - 1 > Len(src)
    THEN [acc EXCEPT !.ok = FALSE]
    ELSE FoldLeft(LAMBDA a, l : ApplyLine(src, a, l),
                  [ok |-> TRUE, idx |-> h.start - 1, out |-> acc.out \o SubSeq(src, acc.idx + 1, h.start - 1)],
                  h.body)

\* apply_hunks(): the new text, or nothing when the diff is stale.
ApplyHunks(src, hunks) ==
    LET end == FoldLeft(LAMBDA a, h : ApplyHunk(src, a, h), [ok |-> TRUE, idx |-> 0, out |-> <<>>], hunks)
    IN IF end.ok THEN {end.out \o SubSeq(src, end.idx + 1, Len(src))} ELSE {}

Without(tag, body) == FoldLeft(LAMBDA o, l : IF l.tag = tag THEN o ELSE Append(o, l.word), <<>>, body)
Old(h) == Without("+", h.body)
New(h) == Without("-", h.body)

\* The patch command, which counts lines and is not misled by headers: every
\* hunk at any place after the one before that it fits, where up to two of the
\* outer context lines need not.
Fits(text, h, f, p) ==
    LET o == Old(h)
        lead == f <= Context /\ \A k \in 1..f : k <= Len(h.body) /\ h.body[k].tag = " "
        tail == \A k \in 1..f : h.body[Len(h.body) + 1 - k].tag = " "
    IN /\ lead /\ tail /\ 2 * f <= Len(o)
       /\ p + Len(o) <= Len(text)
       /\ \A k \in (f + 1)..(Len(o) - f) : text[p + k] = o[k]
Placed(text, h, f, p) ==
    LET o == Old(h)
        n == New(h)
    IN SubSeq(text, 1, p + f) \o SubSeq(n, f + 1, Len(n) - f) \o SubSeq(text, p + Len(o) - f + 1, Len(text))
PatchHunk(S, h) ==
    UNION {{Placed(text, h, q[1], q[2]) : q \in {r \in (0..2) \X (0..Len(text)) : Fits(text, h, r[1], r[2])}}
              : text \in S}
PatchBinary(src, diff) == FoldLeft(LAMBDA S, h : PatchHunk(S, h), {src}, diff)

-----------------------------------------------------------------------------
(* rca/pipeline.py: locate, generate, finalize. *)

\* The file is edited by others: a line is written over, inserted or deleted.
Changed(text) ==
    {[text EXCEPT ![i] = m] : i \in DOMAIN text, m \in Marks}
    \cup {InsertAt(text, i, m) : i \in 1..(Len(text) + 1), m \in Marks}
    \cup {RemoveAt(text, i) : i \in DOMAIN text}
Edit ==
    /\ edits < MaxEdits
    /\ edits' = edits + 1
    /\ file' \in Changed(file)
    /\ UNCHANGED <<way, fix, approving, pull, delivered>>

\* location_from_source(): the whole file stays with the location, and the
\* fix is made for that text, whatever becomes of the file.
ReadSource ==
    /\ fix.at = "new"
    /\ \E b \in Blocks :
          /\ b[2] <= Len(file)
          /\ fix' = [fix EXCEPT !.at = "read", !.shown = file, !.block = b]
    /\ UNCHANGED <<way, file, approving, pull, delivered, edits>>

\* confidence.score() of a valid diff, each of whose changes counts bulk lines.
Score(diff, line, bulk, imports) ==
    LET touches == \E k \in DOMAIN diff : line \in diff[k].start..(diff[k].start + Len(Old(diff[k])))
        changes == bulk * FoldLeft(LAMBDA n, h : n + Len(SelectSeq(h.body, LAMBDA l : l.tag # " ")), 0, diff)
    IN 30 + 15 + (IF touches THEN 25 ELSE 0)
       + (CASE changes <= 5 -> 20 [] changes \in 6..12 -> 12 [] changes \in 13..25 -> 5 [] changes > 25 -> 0)
       + (IF imports THEN 0 ELSE 10)

\* _finalize_patch(): the gates are asked about the text the hunks make of the
\* source; an invalid patch keeps its diff.
Finalize(s, method) ==
    LET diff == UnifiedDiff(fix.shown, s)
        applies == ApplyHunks(fix.shown, ParseHunks(diff)) # {}
        trusted == method = "deterministic"
            \/ \E bulk \in {1, 20}, imports \in BOOLEAN, line \in fix.block[1]..fix.block[2] :
                   Score(diff, line, bulk, imports) >= 50
        doubted == method = "llm"
            /\ \E bulk \in {1, 20}, imports \in BOOLEAN, line \in fix.block[1]..fix.block[2] :
                   Score(diff, line, bulk, imports) < 50
    IN \E valid \in BOOLEAN :
        /\ valid => applies
        /\ \E at \in {"patched", "low"} :
              /\ at = "patched" => valid /\ trusted
              /\ at = "low" => ~valid \/ doubted
              /\ fix' = [fix EXCEPT !.at = at, !.hunks = diff, !.goal = Rewritten(fix.shown, s)]

\* _diff_from_rewrite(): the block the model returns takes the lines of the one
\* it was shown.
LlmRewrite ==
    LET b == fix.block IN
    /\ fix.at = "read"
    /\ \E s \in Script(b[2] - b[1] + 1) :
          Finalize([i \in DOMAIN fix.shown |-> IF i \in b[1]..b[2] THEN s[i - b[1] + 1] ELSE Keep], "llm")
    /\ UNCHANGED <<way, file, approving, pull, delivered, edits>>

\* guard_runaway_loop() and its like parse the source and write a line or two,
\* next to each other or, as an import, far apart.
ByTemplate ==
    /\ fix.at = "read"
    /\ \E s \in Script(Len(fix.shown)) :
          /\ \A i \in DOMAIN s : s[i].drop => s[i].add # <<>>
          /\ Finalize(s, "deterministic")
    /\ UNCHANGED <<way, file, approving, pull, delivered, edits>>

\* The model answers NO_FIX, or returns the block as it was.
NothingGenerated ==
    /\ fix.at = "read"
    /\ fix' = [fix EXCEPT !.at = "none"]
    /\ UNCHANGED <<way, file, approving, pull, delivered, edits>>

-----------------------------------------------------------------------------
(* approve_incident() and applier.apply() *)

ReadForApproval(force) ==
    /\ way = "disk"
    /\ fix.at = "patched" \/ (force /\ fix.at = "low")
    /\ approving < MaxApprovals
    /\ approving' = approving + 1
    /\ UNCHANGED <<way, file, fix, pull, delivered, edits>>

\* The file is backed up, and comes back when the diff does not apply.
ApplyToDisk(how) ==
    LET results == IF how = "patch" THEN PatchBinary(file, fix.hunks) ELSE ApplyHunks(file, ParseHunks(fix.hunks)) IN
    /\ approving > 0
    /\ approving' = approving - 1
    /\ \/ /\ file' \in results
          /\ fix' = [fix EXCEPT !.at = "approved"]
          /\ delivered' = Append(delivered, <<how, file, file'>>)
       \/ /\ how = "patch" \/ results = {}
          /\ UNCHANGED <<file, fix, delivered>>
    /\ UNCHANGED <<way, pull, edits>>

-----------------------------------------------------------------------------
(* pr_service.open_fix_pr(): the file is fetched at the head, patched in memory
   and committed on that head; a branch that has moved on is GitHub's to merge. *)

FetchHead ==
    /\ way = "repo"
    /\ fix.at \in {"patched", "low", "patch_stale", "pr_failed"}
    /\ pull = {}
    /\ pull' = {file}
    /\ UNCHANGED <<way, file, fix, approving, delivered, edits>>

\* Mutant: the text that passed the gates is committed.
CommitValidated ==
    /\ \E before \in pull :
          /\ delivered' = Append(delivered, <<"commit", before, fix.goal>>)
          /\ fix' = [fix EXCEPT !.at = "pr_open"]
    /\ pull' = {}
    /\ UNCHANGED <<way, file, approving, edits>>
Commit ==
    /\ \E before \in pull :
          LET results == ApplyHunks(before, ParseHunks(fix.hunks)) IN
          \/ /\ fix' = [fix EXCEPT !.at = IF results = {} THEN "patch_stale" ELSE "pr_failed"]
             /\ delivered' = delivered
          \/ \E after \in results :
                /\ fix' = [fix EXCEPT !.at = "pr_open"]
                /\ delivered' = Append(delivered, <<"commit", before, after>>)
    /\ pull' = {}
    /\ UNCHANGED <<way, file, approving, edits>>

FixNext ==
    \/ Edit \/ ReadSource \/ LlmRewrite \/ ByTemplate \/ NothingGenerated \/ FetchHead \/ Commit
    \/ \E force \in BOOLEAN : ReadForApproval(force)
    \/ \E how \in {"patch", "manual"} : ApplyToDisk(how)

FixSpec == FixInit /\ [][FixNext]_fixVars

-----------------------------------------------------------------------------
FixTypeOK ==
    /\ way \in {"disk", "repo"}
    /\ fix.at \in {"new", "read", "none", "patched", "low", "approved", "patch_stale", "pr_failed", "pr_open"}
    /\ Len(delivered) <= MaxApprovals
    /\ Cardinality(pull) <= 1
    /\ edits \in 0..MaxEdits

Misread == \E k \in DOMAIN fix.hunks : \E j \in DOMAIN fix.hunks[k].body : Header(fix.hunks[k].body[j])

\* A fix that meets the source it was made for, and none of whose removed lines
\* looks like a file header, makes of it what the model or the template wrote,
\* in however many hunks (diff_engine.py; patch_generator.py: "the resulting
\* diff is guaranteed to apply").
AppliedAsWritten ==
    ~Misread => \A k \in DOMAIN delivered :
        delivered[k][1] # "patch" /\ delivered[k][2] = fix.shown => delivered[k][3] = fix.goal

\* What is applied by this program finds all the lines of its hunks, context
\* included, at the line numbers they had when the fix was made; any other file
\* is stale (pr_service.py, "Re-fetch the file at current default-branch HEAD").
StaleIsRefused ==
    ~Misread => \A k \in DOMAIN delivered :
        delivered[k][1] # "patch" =>
            \A j \in DOMAIN fix.hunks :
                LET i == fix.hunks[j].start
                    n == Len(Old(fix.hunks[j]))
                IN i + n - 1 <= Len(delivered[k][2])
                   /\ SubSeq(delivered[k][2], i, i + n - 1) = SubSeq(fix.shown, i, i + n - 1)

\* A fix undoes nobody's edit: what others wrote into the file after it was
\* read is there when the fix is, whichever program applied it (pipeline.py,
\* from _locate() on; applier.py; pr_service.py).
EditsSurvive ==
    \A k \in DOMAIN delivered :
        (Marks \cap ToSet(delivered[k][2])) \ ToSet(fix.shown) \subseteq ToSet(delivered[k][3])

\* The two promises of parse_hunks() and apply_hunks(): what they apply is what
\* was written, and they apply it to nothing else (diff_engine.py).
HunksAreExact == AppliedAsWritten /\ StaleIsRefused

=============================================================================
