---------------------------- MODULE FailureOrder ----------------------------
(***************************************************************************)
(* internal/verify.OrderFailureCodes: phase 05.  The codes arrive in an     *)
(* order nobody chose (a Rego set, a Go map walk in collectStrings) and     *)
(* with repetitions; the function keeps the first of each, then sorts them *)
(* by documented priority, codes without one last and alphabetically.      *)
(***************************************************************************)
EXTENDS Integers, Sequences, FiniteSets, Functions

CONSTANTS
    CustomCodes,    \* codes of a repository's own policy, without a priority
    Alphabetical,   \* their place in byte order
    Inputs          \* the sequences of codes given to OrderFailureCodes

FailurePriority ==
    [unsupported_statement_type       |-> 10,
     predicate_type_mismatch          |-> 20,
     unsupported_predicate_version    |-> 30,
     schema_invalid                   |-> 40,
     signature_invalid                |-> 50,
     transparency_verification_failed |-> 60,
     subject_digest_mismatch          |-> 70,
     repo_url_mismatch                |-> 80,
     base_commit_mismatch             |-> 90,
     signer_identity_mismatch         |-> 100,
     builder_identity_mismatch        |-> 110,
     replay_detected                  |-> 120,
     privacy_violation                |-> 130,
     level_escalation                 |-> 140,
     level_below_required             |-> 150,
     missing_evidence                 |-> 160,
     stale_attestation                |-> 170,
     policy_eval_error                |-> 180]

Known == DOMAIN FailurePriority
Codes == Known \cup CustomCodes

ASSUME OrderAssumption ==
    /\ CustomCodes \cap Known = {}
    /\ Alphabetical \in [CustomCodes -> Nat]
    /\ \A a, b \in CustomCodes : Alphabetical[a] = Alphabetical[b] => a = b
    /\ Inputs \subseteq Seq(Codes)

VARIABLES pc, codes, next, seen, ordered
vars == <<pc, codes, next, seen, ordered>>

\* Faulty variant: names do not break ties.
BeforeByPriorityOnly(a, b) ==
    \/ a \in Known /\ b \in Known /\ FailurePriority[a] < FailurePriority[b]
    \/ a \in Known /\ b \notin Known

Before(a, b) ==
    \/ a \in Known /\ b \in Known /\ FailurePriority[a] < FailurePriority[b]
    \/ a \in Known /\ b \notin Known
    \/ a \notin Known /\ b \notin Known /\ Alphabetical[a] < Alphabetical[b]

Init ==
    /\ pc = "dedupe"
    /\ codes \in Inputs
    /\ next = 1
    /\ seen = {}
    /\ ordered = <<>>

\* Faulty variant: nothing is skipped.
VisitWithoutDedupe ==
    /\ pc = "dedupe"
    /\ next <= Len(codes)
    /\ seen' = seen \cup {codes[next]}
    /\ ordered' = Append(ordered, codes[next])
    /\ next' = next + 1
    /\ UNCHANGED <<pc, codes>>

\* Faulty variant: the loop steps on by itself and is stepped on as well.
VisitSteppingTwice ==
    /\ pc = "dedupe"
    /\ next <= Len(codes)
    /\ IF codes[next] \in seen
       THEN UNCHANGED <<seen, ordered>>
       ELSE /\ seen' = seen \cup {codes[next]}
            /\ ordered' = Append(ordered, codes[next])
    /\ next' = next + 2
    /\ UNCHANGED <<pc, codes>>

\* One turn of the loop over the codes.
Visit ==
    /\ pc = "dedupe"
    /\ next <= Len(codes)
    /\ IF codes[next] \in seen
       THEN UNCHANGED <<seen, ordered>>
       ELSE /\ seen' = seen \cup {codes[next]}
            /\ ordered' = Append(ordered, codes[next])
    /\ next' = next + 1
    /\ UNCHANGED <<pc, codes>>

LoopEnds ==
    /\ pc = "dedupe"
    /\ next > Len(codes)
    /\ pc' = "sort"
    /\ UNCHANGED <<codes, next, seen, ordered>>

\* sort.SliceStable: some rearrangement without an inversion in which equal
\* elements keep their places relative to each other.
Rearranged(p) == [n \in 1..Len(ordered) |-> ordered[p[n]]]
Stable(p) ==
    \A m, n \in 1..Len(ordered) : m < n =>
        /\ ~Before(ordered[p[n]], ordered[p[m]])
        /\ ~Before(ordered[p[m]], ordered[p[n]]) => p[m] < p[n]

SliceStable ==
    /\ pc = "sort"
    /\ \E p \in Bijection(1..Len(ordered), 1..Len(ordered)) :
          /\ Stable(p)
          /\ ordered' = Rearranged(p)
    /\ pc' = "done"
    /\ UNCHANGED <<codes, next, seen>>

Next == Visit \/ LoopEnds \/ SliceStable
Spec == Init /\ [][Next]_vars

-----------------------------------------------------------------------------
Given == {codes[n] : n \in 1..Len(codes)}
Listed == {ordered[n] : n \in 1..Len(ordered)}
Predecessors(code) == {other \in Given : Before(other, code)}

TypeOK ==
    /\ pc \in {"dedupe", "sort", "done"}
    /\ codes \in Seq(Codes)
    /\ next \in 1..(Len(codes) + 1)
    /\ seen \subseteq Codes
    /\ ordered \in Seq(Codes)

\* The user sees every code of the policy, each once, whatever was repeated.
EveryCodeOnce ==
    pc = "done" =>
        /\ Listed = Given
        /\ \A m, n \in 1..Len(ordered) : ordered[m] = ordered[n] => m = n

\* The order shown depends on the set of codes alone, never on the order in
\* which the policy engine delivered them: the n-th code shown is the one that
\* exactly n - 1 of the given codes come before.
OrderDependsOnTheSetOnly ==
    pc = "done" =>
        \A n \in 1..Len(ordered) :
            /\ IsFiniteSet(Predecessors(ordered[n]))
            /\ Cardinality(Predecessors(ordered[n])) = n - 1

=============================================================================
