---------------------------- MODULE MCVerifyBundle ----------------------------
(***************************************************************************)
(* Instances of VerifyBundle: a small public key infrastructure, the       *)
(* statements it signs, and documents of one and of several attestations.  *)
(***************************************************************************)
EXTENDS MCStatements, VerifyBundle

Repository == [repoUrl |-> "repo", base |-> "base", patch |-> "d5"]
OtherRepository == [repoUrl |-> "repo", base |-> "base", patch |-> "d7"]
BothRepositories == {Repository, OtherRepository}

\* Certificates: a workflow's, a service's, a person's whose address reads like
\* a workflow, a host's, one that names nobody but its owner.
Workflow == [key |-> "k1", uris |-> <<"w", "u">>, emails |-> <<"p">>, dnsNames |-> <<>>, commonName |-> None,
             fulcioIssuer |-> "oidc", signedBy |-> "i", usable |-> TRUE]
Expired == [Workflow EXCEPT !.usable = FALSE]
Unissued == [Workflow EXCEPT !.fulcioIssuer = None]
Service == [Workflow EXCEPT !.key = "k2", !.uris = <<"u", "w">>, !.signedBy = "r1"]
Person == [Workflow EXCEPT !.key = "k3", !.uris = <<>>, !.emails = <<"w">>]
Host == [Person EXCEPT !.emails = <<>>, !.dnsNames = <<"h">>]
Owner == [Person EXCEPT !.emails = <<>>, !.commonName = "o", !.fulcioIssuer = None]
Intermediate == [Owner EXCEPT !.key = "i", !.signedBy = "r1"]

\* What they sign: a statement about the patch whose builder is named.
SignedStatement(level, builder) ==
    [GoodStatement("v1", level) EXCEPT
        !.subject = {Subject("patch.diff", "d5")}, !.mcpServers = {}, !.delegation = {}, !.declaredIdentity = None,
        !.witnesses = {}, !.runId = "run", !.builder = [id |-> builder, workflowRef |-> builder, runnerClass |-> None]]

Envelope(statement, key) == [payload |-> statement, signatures |-> {[keyid |-> key, key |-> key]}]
Misnamed(envelope) == [envelope EXCEPT !.signatures = {[keyid |-> "k2", key |-> "k1"]}]
Attestation(envelope, certs, inclusion) == [envelope |-> envelope, certs |-> certs, inclusion |-> inclusion]

\* Log entries: two logs, entries that hold and that do not, indices as text
\* and as numbers that fit 64 bits and that do not.
LogOne == <<"e1", "e2">>
LogTwo == <<"e2">>
Text(n) == [text |-> TRUE, value |-> n]
Number(n) == [text |-> FALSE, value |-> n]
Entry(index, body, root) ==
    [logIndex |-> index, treeSize |-> Text(Len(root)), body |-> body, hashes |-> TRUE, root |-> root]
First == Entry(Text(0), "e1", LogOne)
SomeEntries ==
    {None, Malformed, First, [First EXCEPT !.hashes = FALSE], Entry(Text(1), "e1", LogOne),
     Entry(Text(4), "e1", LogOne), Entry(Number(1), "e2", LogOne), Entry(Number(5), "e1", LogOne),
     [First EXCEPT !.treeSize = Text(4)], Entry(Text(0), "e2", LogTwo), Entry(Text(0), "e1", <<>>)}

Pair == <<Workflow, Intermediate>>
Plain == Attestation(Envelope(SignedStatement("policy-grade", "w"), "k1"), {Pair}, First)
Unlogged == [Plain EXCEPT !.inclusion = None]
Unchained == [Plain EXCEPT !.certs = {}]
Logged == [Plain EXCEPT !.envelope = None]

SomeChains == {Pair, <<Workflow>>, <<Expired, Intermediate>>, <<Unissued, Intermediate>>, <<Service>>,
               <<Person, Intermediate>>, <<Host, Intermediate>>, <<Owner, Intermediate>>}
OddCertificates ==
    {{}, {Malformed}, {<<>>}, {<<Missing, Workflow, Intermediate>>}, {<<Workflow, Malformed>>},
     {<<Service>>, Pair}, {Malformed, Pair}}
\* Statements that name what no context of the command verifies, read as two
\* predicates, or have a subject without a name.
Naming(statement) ==
    {statement, [statement EXCEPT !.witnesses = {[type |-> "transparency-log", digest |-> "w1"]}],
     [statement EXCEPT !.mcpServers = {"m1"}], [statement EXCEPT !.delegation = {"a1"}],
     [statement EXCEPT !.secondReading = {}], [statement EXCEPT !.secondReading = {"level_escalation"}],
     [statement EXCEPT !.subject = @ \cup {Subject(None, "d6")}]}
OddEnvelopes ==
    {None, Malformed, Misnamed(Plain.envelope)}
    \cup {Envelope(statement, "k1") : statement \in UNION {Naming(SignedStatement(level, "w")) : level \in Levels}}

Singles ==
    {<<{Attestation(Envelope(SignedStatement(level, builder), key), {chain0}, First)}>> :
        level \in {"evidence-grade", "policy-grade"}, builder \in {"w", "u"}, key \in {"k1", "k2", "k3"},
        chain0 \in SomeChains}
    \cup {<<{[Plain EXCEPT !.inclusion = entry]}>> : entry \in SomeEntries}
    \cup {<<{[Plain EXCEPT !.certs = certs]}>> : certs \in OddCertificates}
    \cup {<<{[Plain EXCEPT !.envelope = envelope]}>> : envelope \in OddEnvelopes}
Several == {<<{Plain}, {Unchained}>>, <<{Unchained}, {Plain}>>, <<{Unlogged}, {Logged}>>, <<{Unlogged, Plain}>>,
            <<{Unchained, Unlogged}>>, <<{Logged}, {Unlogged}>>, <<{[Plain EXCEPT !.certs = {<<Service>>}], Plain}>>}
SomeDocuments == Singles \cup Several \cup {Missing, Malformed}

SomeRootFiles == {None, Missing, Empty, {"other"}, {"r1", "other"}, {"r1", Malformed}, {"r2"}}
SomeTargets == {{"r1"}, {"r2", "other"}, {"r1", Malformed}}
SomeRekorRoots == {None, Malformed, LogOne}
SomeLevels == {"", "policy-grade"}
Workflows == {"w"}

=============================================================================
