--------------------------- MODULE ReferenceIndex ---------------------------
(***************************************************************************)
(* What internal/registry promises: a growing set of references.  While a  *)
(* statement is added some of its references may be there and others not   *)
(* yet; once the addition is reported all of them are; none is ever        *)
(* removed, and none is made up.                                           *)
(***************************************************************************)
CONSTANTS
    Calls,             \* the additions asked for
    ReferencesOf(_)    \* what an addition is to make findable

VARIABLES references, added

indexVars == <<references, added>>

Init == references = {} /\ added = {}

Index(call) ==
    /\ \E some \in SUBSET ReferencesOf(call) : references' = references \cup some
    /\ UNCHANGED added

Report(call) ==
    /\ ReferencesOf(call) \subseteq references
    /\ added' = added \cup {call}
    /\ UNCHANGED references

Next == \E call \in Calls : Index(call) \/ Report(call)

Spec == Init /\ [][Next]_indexVars

=============================================================================
