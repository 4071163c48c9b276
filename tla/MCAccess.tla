------------------------------ MODULE MCAccess ------------------------------
(* TLC instance of the components that decide who is let in and what he has, *)
(* which share no state: one behaviour runs one of them, chosen by part. *)
EXTENDS Workspaces, Gate, Billing, GithubConnection

VARIABLE part

Parts == {"spaces", "gate", "billing", "github"}
accessVars == <<part, spaceVars, gateVars, billingVars, githubVars>>

AccessInit == part \in Parts /\ SpacesInit /\ GateInit /\ BillingInit /\ GithubInit

AccessNext ==
    /\ part' = part
    /\ \/ part = "spaces" /\ SpacesNext /\ UNCHANGED <<gateVars, billingVars, githubVars>>
       \/ part = "gate" /\ GateNext /\ UNCHANGED <<spaceVars, billingVars, githubVars>>
       \/ part = "billing" /\ BillingNext /\ UNCHANGED <<spaceVars, gateVars, githubVars>>
       \/ part = "github" /\ GithubNext /\ UNCHANGED <<spaceVars, gateVars, billingVars>>

AccessSpec == AccessInit /\ [][AccessNext]_accessVars

\* The states of the four components.
TypeOK == part \in Parts /\ SpacesTypeOK /\ GateTypeOK /\ BillingTypeOK /\ GithubTypeOK
=============================================================================
