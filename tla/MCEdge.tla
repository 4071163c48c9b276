------------------------------- MODULE MCEdge -------------------------------
(* TLC instance of the components at the edge of the backend, which share no *)
(* state: one behaviour runs one of them, chosen by part. *)
EXTENDS LiveFeed, Heartbeat, LogDaemon

VARIABLE part

Parts == {"feed", "heart", "log"}
edgeVars == <<part, feedVars, heartVars, logVars>>

EdgeInit == part \in Parts /\ FeedInit /\ HeartInit /\ LogInit

EdgeNext ==
    /\ part' = part
    /\ \/ part = "feed" /\ FeedNext /\ UNCHANGED <<heartVars, logVars>>
       \/ part = "heart" /\ HeartNext /\ UNCHANGED <<feedVars, logVars>>
       \/ part = "log" /\ LogNext /\ UNCHANGED <<feedVars, heartVars>>

EdgeSpec == EdgeInit /\ [][EdgeNext]_edgeVars

\* The states of the three components.
TypeOK == part \in Parts /\ FeedTypeOK /\ HeartTypeOK /\ LogTypeOK
=============================================================================
