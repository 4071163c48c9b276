-------------------------- MODULE MCTraceDetectors --------------------------
(* TLC instance of TraceDetectors: thresholds of two or three, and one scenario *)
(* per shape of trace that a detector has to tell from a harmless one. *)
EXTENDS TraceDetectors

CONSTANTS w1, w2

MCWorkspaces == {w1, w2}

Base == [kind |-> "chain.end", w |-> w1, source |-> "a", run |-> "r1", tool |-> NoTool, args |-> "x",
         outcome |-> "ok", result |-> <<>>, tokens |-> 0, window |-> 0, cost |-> 0, to |-> NoTool,
         injected |-> FALSE, harmful |-> FALSE, registered |-> TRUE, dropped |-> FALSE]
Call == [Base EXCEPT !.kind = "tool.start", !.tool = "t"]
Failed == [Base EXCEPT !.kind = "tool.error", !.tool = "t", !.outcome = "transient"]
Model == [Base EXCEPT !.kind = "llm.end"]
Result == [Base EXCEPT !.kind = "tool.end", !.tool = "t"]

MCEvents == [
    call |-> Call, call2 |-> [Call EXCEPT !.args = "y"], callB |-> [Call EXCEPT !.w = w2],
    fail |-> Failed, fail2 |-> [Failed EXCEPT !.args = "y"], done |-> Result,
    ab |-> [Base EXCEPT !.kind = "tool.end", !.to = "b"],
    ba |-> [Base EXCEPT !.kind = "tool.end", !.source = "b", !.to = "a"],
    ac |-> [Base EXCEPT !.kind = "tool.end", !.to = "c"],
    small |-> [Model EXCEPT !.tokens = 2, !.window = 10],
    mid |-> [Model EXCEPT !.tokens = 7, !.window = 8],
    big |-> [Model EXCEPT !.tokens = 10, !.window = 10],
    odd |-> [Model EXCEPT !.tokens = 10],
    keys |-> [Result EXCEPT !.result = <<{"k"}>>], other |-> [Result EXCEPT !.result = <<{"l"}>>],
    empty |-> [Result EXCEPT !.result = <<{}>>],
    emptyB |-> [Result EXCEPT !.result = <<{}>>, !.source = "b"],
    clean |-> Result, lure |-> [Result EXCEPT !.tool = "u", !.injected = TRUE],
    use |-> [Result EXCEPT !.tool = "u"],
    wipe |-> [Result EXCEPT !.tool = "u", !.harmful = TRUE, !.registered = FALSE],
    lureWipe |-> [Result EXCEPT !.tool = "u", !.harmful = TRUE, !.injected = TRUE],
    skip |-> [Base EXCEPT !.dropped = TRUE],
    cheap1 |-> [Base EXCEPT !.cost = 1], cheap2 |-> [Base EXCEPT !.cost = 1, !.run = "r2"],
    dear |-> [Base EXCEPT !.cost = 6, !.run = "r3"],
    dearStorm |-> [Failed EXCEPT !.cost = 2, !.run = "r3"],
    dearLoop |-> [Call EXCEPT !.cost = 2, !.run = "r3"],
    outer |-> [Base EXCEPT !.kind = "chain.start"], inner |-> [Base EXCEPT !.kind = "llm.start"],
    innerEnd |-> Model, outer2 |-> [Base EXCEPT !.kind = "chain.start", !.run = "r2"]]

Sends(E, n, t, r) == [events |-> E, length |-> n, ticks |-> t, resets |-> r]

MCScenarios == [
    loop |-> Sends({"call", "call2"}, 5, 3, 0), loopReset |-> Sends({"call", "callB"}, 6, 0, 1),
    storm |-> Sends({"fail", "done"}, 5, 3, 0), stormStart |-> Sends({"fail", "fail2", "call"}, 6, 0, 0),
    bounce |-> Sends({"ab", "ba", "ac"}, 6, 0, 1), bounceSlow |-> Sends({"ab", "ba"}, 5, 3, 0),
    size |-> Sends({"small", "mid", "big", "odd"}, 5, 0, 0), sizeReset |-> Sends({"small", "big"}, 6, 0, 1),
    poison |-> Sends({"keys", "empty"}, 5, 4, 0), drift |-> Sends({"keys", "other", "empty"}, 5, 0, 1),
    stages |-> Sends({"empty", "emptyB"}, 5, 0, 1),
    lured |-> Sends({"clean", "lure", "use"}, 5, 0, 1), wiped |-> Sends({"clean", "wipe", "lureWipe"}, 4, 0, 0),
    skipped |-> Sends({"skip", "clean"}, 5, 0, 1),
    dear |-> Sends({"cheap1", "cheap2", "dear"}, 6, 0, 0),
    dearStorm |-> Sends({"cheap1", "cheap2", "dearStorm"}, 6, 0, 0),
    dearLoop |-> Sends({"cheap1", "cheap2", "dearLoop"}, 6, 0, 0),
    silent |-> Sends({"outer", "inner", "innerEnd"}, 4, 2, 1),
    silentTwo |-> Sends({"outer", "outer2", "innerEnd"}, 4, 2, 0)]

=============================================================================
