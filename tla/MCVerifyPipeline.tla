-------------------------- MODULE MCVerifyPipeline --------------------------
(***************************************************************************)
(* Instances of VerifyPipeline.                                            *)
(***************************************************************************)
EXTENDS MCStatements, VerifyPipeline

Shipped == [f \in Files |-> "shipped"]
OnlyV0 == [Shipped EXCEPT !["schemaV1"] = "missing", !["cueV1"] = "missing"]
NoPolicy == [Shipped EXCEPT !["policy"] = "missing"]

Verification(statements_, contexts_, packs_, changes_) ==
    [statements |-> statements_, contexts |-> contexts_, packs |-> packs_, changes |-> changes_]
ShippedPack == {[d \in Dirs |-> Shipped]}

\* Rules: every pair of one deviation each, over an untouched pack.
Rules == Verification(StatementsWithin(1), ContextsWithin(1), ShippedPack, 0)

\* Pack: few inputs, a nested pack under the repository's, files changing.
FewStatements == {GoodStatement(version, "policy-grade") : version \in {"v0", "v1"}} \cup
    {Deviate(GoodStatement("v1", "policy-grade"), d) :
        d \in {<<"predicateVersion", "v0">>, <<"type", "other">>, <<"decodes", FALSE>>,
               <<"runtime", FALSE>>, <<"repoUrl", "fork">>, <<"executionType", None>>}}
FewContexts == {GoodContext, Deviate(GoodContext, <<"wellFormed", FALSE>>)}
NestedPacks == {[d \in Dirs |-> IF d = 1 THEN inner ELSE Shipped] : inner \in {Shipped, OnlyV0, NoPolicy}}
                \cup {[d \in Dirs |-> NoPolicy]}
Pack == Verification(FewStatements, FewContexts, NestedPacks, 2)
RulesAndPack == {Rules, Pack}

\* One accepted statement and its context, for the run that needs no more.
OneVerification == {Verification({GoodStatement("v1", "policy-grade")}, {GoodContext}, ShippedPack, 1)}

\* Timestamps with and without fractions, with the freshness check off.
TimedStatements ==
    {[GoodStatement("v0", "evidence-grade") EXCEPT !.startedAt = s, !.finishedAt = f] :
        s, f \in {At(1), AtFraction(1, <<5>>), AtFraction(1, <<5, 0>>), At(2), At(9)}}
Timed == {Verification(TimedStatements, {[GoodContext EXCEPT !.freshnessWindowSeconds = 0]}, ShippedPack, 0)}


\* Subjects with and without names beside the expected ones.
Nameless == {Verification(
    {[GoodStatement("v0", "evidence-grade") EXCEPT !.subject = @ \cup extra] :
        extra \in {{}, {Subject("other", "d6")}, {Subject(None, "d6")}}},
    ContextsWithin(1), ShippedPack, 0)}

\* One predicate and two of them, the first of a level it cannot keep.
Readings == {Verification(
    {[GoodStatement("v1", level) EXCEPT !.executionType = "local", !.secondReading = codes] :
        level \in Levels, codes \in {None, {}, {"level_escalation"}}},
    ContextsWithin(1), ShippedPack, 0)}

=============================================================================
