---------------------------- MODULE VerifierGate ----------------------------
(***************************************************************************)
(* The abstract verifier: a statement and a context come in, one final     *)
(* verdict goes out, and "accepted" is spoken only of a statement that     *)
(* keeps the promises of Assured.  "unjudged" is the verdict of a pack     *)
(* whose policy file defines no failure_codes rule: nothing was promised.  *)
(***************************************************************************)
CONSTANT
    Assured(_, _)     \* what acceptance of a statement under a context promises

VARIABLES statement, context, verdict

gateVars == <<statement, context, verdict>>

Init == verdict = "pending"

\* Until the verdict the two may still be captured, replaced or lost.
Submit ==
    /\ verdict = "pending"
    /\ verdict' = "pending"

Accept ==
    /\ verdict = "pending"
    /\ verdict' = "accepted"
    /\ Assured(statement, context)
    /\ UNCHANGED <<statement, context>>

Reject ==
    /\ verdict = "pending"
    /\ verdict' \in {"rejected", "unjudged"}
    /\ UNCHANGED <<statement, context>>

Decide == Reject \/ Accept
Next == Submit \/ Decide

Safety == Init /\ [][Next]_gateVars
Spec == Safety /\ WF_gateVars(Decide)

=============================================================================
