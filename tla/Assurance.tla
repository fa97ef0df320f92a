------------------------------ MODULE Assurance ------------------------------
(***************************************************************************)
(* What an accepted statement means, stated from the "It proves" lists of  *)
(* docs/VERIFICATION_MODEL.md (:9-60) and not from the policy's rules: the  *)
(* rules deny, these definitions promise.  They say nothing of how a       *)
(* verifier reaches its verdict.                                           *)
(***************************************************************************)
EXTENDS Policy

\* VERIFICATION_MODEL.md:38,:129 -- every current subject is one of the
\* statement's, with no name given twice, under the algorithms the verifier
\* compares, and the statement names no other.  (A subject without a name is
\* no part of what it promises: SubjectSetsAreEqual of VerifyPipeline.)
SubjectsBound(s, c) ==
    /\ c.subjects # <<>>
    /\ \A i, j \in DOMAIN c.subjects : c.subjects[i].name = c.subjects[j].name => i = j
    /\ \A i \in DOMAIN c.subjects : \E subject \in s.subject : SubjectMatches(subject, c.subjects[i])
    /\ \A subject \in s.subject :
          subject.name # None => \E i \in DOMAIN c.subjects : SubjectMatches(subject, c.subjects[i])

\* PRIVACY_MODEL.md -- nothing that can carry content reaches a public log.
PrivacySafe(s) ==
    /\ \A e \in s.evidence :
          e.storage = "transparency-log" => /\ e.type \in TransparencyAllowedTypes
                                            /\ e.visibility = "public"
    /\ \A visibility \in s.extensions : visibility # "public"

\* VERIFICATION_MODEL.md:60 -- the replay checks the verifier asked for.
\* Freshness is promised for instants the policy can represent.
NotReplayed(s, c) ==
    /\ c.expectedPullRequestNumber > 0 => s.pullRequest = c.expectedPullRequestNumber
    /\ c.expectedRunId # None => s.runId = c.expectedRunId
    /\ c.freshnessWindowSeconds > 0 =>
          /\ c.now # None
          /\ Parses(c.now) /\ Parses(s.finishedAt) =>
                ~TooOld(s.finishedAt, c.now, c.freshnessWindowSeconds)

\* VERIFICATION_MODEL.md:98-99 -- what the verifier verified out of band.
VerifiedInventory(s, c) ==
    /\ c.verifiedAgentConfig # None => s.agentConfig = c.verifiedAgentConfig
    /\ c.verifiedMcpServers # {} => s.mcpServers \subseteq c.verifiedMcpServers
    /\ c.verifiedDelegation # {} => s.delegation \subseteq c.verifiedDelegation

EvidenceGrade(s, c) ==
    /\ s.verificationLevel \in Levels
    /\ LevelRank(s.verificationLevel) >= LevelRank(c.requiredLevel)
    /\ s.repoUrl = c.repoUrl /\ s.baseCommit = c.baseCommit
    /\ PrivacySafe(s)
    /\ NotReplayed(s, c)
    /\ VerifiedInventory(s, c)
    /\ s.runtime => HasEvidenceType(s, "trace")

\* VERIFICATION_MODEL.md:32-39 -- identities come from the verifier and the
\* predicate agrees with them; nothing rests on local evidence.
PolicyGrade(s, c) ==
    /\ EvidenceGrade(s, c)
    /\ None \notin {c.verifiedSigner, c.verifiedBuilderId, c.verifiedWorkflowRef, c.verifiedIssuer}
    /\ s.builder # None
    /\ s.builder.id = c.verifiedBuilderId
    /\ s.builder.workflowRef = c.verifiedWorkflowRef
    /\ s.declaredIdentity \in {None, c.verifiedSigner}
    /\ \A e \in s.evidence : e.storage # "local-only"
    /\ s.executionType # "local"
    /\ s.mcpServers \subseteq c.verifiedMcpServers
    /\ s.delegation \subseteq c.verifiedDelegation

\* VERIFICATION_MODEL.md:54-60,:100.
HighAssurance(s, c) ==
    /\ PolicyGrade(s, c)
    /\ s.executionType \in {"isolated-runner", "witnessed-runner"}
    /\ s.builder.id \in c.allowedIsolatedRunners
    /\ s.witnesses # {}
    /\ \A w \in s.witnesses : \E v \in c.verifiedWitnesses : v.type = w.type /\ v.digest = w.digest
    /\ s.approvalState = "approved-before-merge"
    /\ c.verifiedApproval /\ c.verifiedApprovalDigest # None
    /\ \E e \in s.evidence : e.type = "approval" /\ e.digest = c.verifiedApprovalDigest
    /\ HasEvidenceType(s, "trace")
    /\ CaptureMethod(s) # "manual"
    /\ s.predicateType = "v1" => s.agentConfig # None

\* What the claimed level promises of the predicate.
LevelKept(s, c) ==
    /\ EvidenceGrade(s, c)
    /\ s.verificationLevel = "policy-grade" => PolicyGrade(s, c)
    /\ s.verificationLevel = "high-assurance" => HighAssurance(s, c)

\* An accepted statement is about the current subjects and has what its own
\* claimed level promises.  Of a statement that reads as two predicates the
\* verifier keeps no such promise: the level it reports is one predicate's and
\* the rules saw the other (AcceptedClaimsAreBacked of VerifyPipeline).
Assured(s, c) ==
    /\ SubjectsBound(s, c)
    /\ OneReading(s) => LevelKept(s, c)

\* What the verifier compares whether or not the claimed level rests on it: a
\* declared witness it did not verify (VERIFICATION_MODEL.md:128), a declared
\* identity that is not the signer's (THREAT_MODEL.md:9), and, above evidence
\* grade, a self-hosted GitHub runner nobody chose to trust (:42).
Undisputed(s, c) ==
    /\ \A w \in s.witnesses : \E v \in c.verifiedWitnesses : v.type = w.type /\ v.digest = w.digest
    /\ s.declaredIdentity \in {None, c.verifiedSigner}
    /\ PolicyOrHigher(s) /\ s.executionType = "github-actions" /\ RunnerClass(s) = "self-hosted" =>
          c.allowSelfHostedRunners

=============================================================================
