------------------------------ MODULE MCFixing ------------------------------
(* TLC instance of the way from a detection to its fix: one behaviour runs   *)
(* either the tasks of three detections, which agree in their source, their  *)
(* tool, their run or their workspace, or one fix that is written and        *)
(* delivered.                                                                *)
EXTENDS BehaviouralTriggers, FixDelivery

CONSTANTS w1, w2

Of(c, source, tool, site) ==
    [class |-> c, w |-> w2, source |-> source, tool |-> tool, run |-> "r", site |-> site]

MCSignals == [
    loopA |-> Of("anomaly", "a", "t", "f:1"), loopB |-> Of("anomaly", "b", "t", None),
    corrupt1 |-> Of("corruption", "a", "t", "f:1"), corrupt2 |-> Of("corruption", "a", "u", "f:2"),
    corrupt3 |-> Of("corruption", "a", "t", "f:1"),
    spike |-> Of("cost_spike", "a", "t", "f:1"), over |-> Of("overflow", "a", "t", "f:1"),
    novel |-> Of("generic", "a", "t", None),
    storm |-> Of("retry_storm", "a", "t", "f:1"), drop |-> Of("binding_drop", "a", "t", "f:1"),
    invented |-> Of("hallucination", "a", "t", "f:1"), wrong |-> Of("wrong_tool", "a", "t", "f:1"),
    lured |-> Of("injection", "a", "t", "f:1"),
    bounce1 |-> Of("pingpong", "a", "t", "f:1"), bounce2 |-> Of("pingpong", "b", "t", "f:2"),
    poison |-> Of("cascade", "a", "t", "f:1"),
    stuck |-> Of("stuck", "a", "t", "f:1")]

MCCases == {
    <<"loopA", "loopB", "novel">>, <<"corrupt1", "corrupt2", "corrupt3">>, <<"spike", "over", "novel">>,
    <<"storm", "drop", "stuck">>, <<"invented", "wrong", "lured">>, <<"bounce1", "bounce2", "poison">>}

MCTexts == {<<"a", "b", "c", "d", "e">>, <<"a", "--", "a">>}
MCBlocks == {<<1, 3>>}

VARIABLE part

fixingVars == <<part, triggerVars, fixVars>>

\* The one that does not run has one initial state.
FixingInit ==
    /\ part \in {"triggers", "delivery"}
    /\ TriggersInit /\ (part = "delivery" => case = CHOOSE c \in Cases : TRUE)
    /\ FixInit /\ (part = "triggers" => way = "disk" /\ file = CHOOSE t \in Texts : TRUE)

FixingNext ==
    /\ part' = part
    /\ \/ part = "triggers" /\ TriggersNext /\ UNCHANGED fixVars
       \/ part = "delivery" /\ FixNext /\ UNCHANGED triggerVars

FixingSpec == FixingInit /\ [][FixingNext]_fixingVars /\ (part = "triggers" => TriggersFairness)

\* The states of both.
TypeOK == part \in {"triggers", "delivery"} /\ TriggersTypeOK /\ FixTypeOK
=============================================================================
