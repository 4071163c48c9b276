---------------------------- MODULE AtomicIncident ----------------------------
(***************************************************************************)
(* What the incident store promises its callers: an incident is one record *)
(* that is created, then patched field by field, each patch atomic and     *)
(* leaving the other fields as they are.  A reset deletes it; a patch that *)
(* was under way then brings it back as it was, patched.                   *)
(***************************************************************************)
CONSTANTS Fields, Values, Default, Absent

VARIABLES
    record,     \* the stored record, or Absent
    content     \* what the record holds, or held before it was deleted

vars == <<record, content>>

Fresh == [f \in Fields |-> Default]

Init ==
    /\ record = Absent
    /\ content = Fresh

Create ==
    /\ record = Absent
    /\ content = Fresh
    /\ record' = Fresh
    /\ UNCHANGED content

Patch(f, v) ==
    /\ record \in {content, Absent}
    /\ content' = [content EXCEPT ![f] = v]
    /\ record' = content'

Clear ==
    /\ record' = Absent
    /\ UNCHANGED content

Next == Create \/ Clear \/ \E f \in Fields, v \in Values : Patch(f, v)

Spec == Init /\ [][Next]_vars

=============================================================================
