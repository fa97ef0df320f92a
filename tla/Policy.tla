------------------------------- MODULE Policy -------------------------------
(***************************************************************************)
(* policies/default.rego: the context-bound rules of phase 04.  A          *)
(* statement s and a verifier context c are records; the nested JSON       *)
(* objects are flattened, and None stands for a field that is absent,      *)
(* where the policy's object.get gives "", {} or [].  A Rego rule whose    *)
(* body reads an absent field without object.get is undefined and denies   *)
(* nothing; where that can happen the rule below says so with a # None.    *)
(*                                                                         *)
(* Statement fields: decodes, predicateDecodes, type, predicateType,       *)
(*   predicateVersion, verificationLevel, runId, repoUrl, baseCommit,      *)
(*   pullRequest, declaredIdentity, executionType, builder, witnesses,     *)
(*   evidence, approvalState, capture, runtime, agentConfig, mcpServers,   *)
(*   delegation, extensions (their visibilities), startedAt, finishedAt,   *)
(*   subject, wellFormed (every structural rule of the schema that no      *)
(*   other field stands for), secondReading.                               *)
(* statement.Parse decodes a document twice, and phase 04 is handed the    *)
(* other decode than phases 01 to 03: the struct's keys match whatever     *)
(* their case and the last one wins, the generic map's are exact.  type,   *)
(* predicateType and the predicate's fields are what the struct finds,     *)
(* subject is what the map finds, and a document that has "predicate" and  *)
(* "Predicate" holds two predicates, one that has only the latter an empty *)
(* second one.  secondReading is None when the map finds the struct's      *)
(* predicate, and otherwise the codes of the rules that read the           *)
(* predicate: they are given one that no phase before looked at, whose     *)
(* fields may be missing or of any type.  What it holds is left out, so    *)
(* any set of those codes is allowed, also one that no predicate gives.    *)
(* Context fields: as in tests/golden/context.schema.json, and wellFormed. *)
(***************************************************************************)
EXTENDS Absent, Timestamps, FiniteSets

Levels == {"evidence-grade", "policy-grade", "high-assurance"}
LevelRank(level) ==
    IF level = "high-assurance" THEN 2
    ELSE IF level = "policy-grade" THEN 1
    ELSE 0

\* An unknown level has no rank: both rules below are then undefined.
PolicyOrHigher(s) == s.verificationLevel \in Levels /\ LevelRank(s.verificationLevel) >= 1
HighAssuranceClaim(s) == s.verificationLevel = "high-assurance"

OneReading(s) == s.secondReading = None

TransparencyAllowedTypes == {"local-log-root", "builder-record", "agent-config", "mcp-server"}

BuilderId(s) == IF s.builder = None THEN None ELSE s.builder.id
WorkflowRef(s) == IF s.builder = None THEN None ELSE s.builder.workflowRef
RunnerClass(s) == IF s.builder = None THEN None ELSE s.builder.runnerClass
CaptureMethod(s) == IF s.capture = None THEN None ELSE s.capture.method

HasEvidenceType(s, kind) == \E e \in s.evidence : e.type = kind

\* Faulty variant: the ranks change sides.
LevelAboveRequired(s, c) ==
    /\ s.verificationLevel \in Levels
    /\ c.requiredLevel \in Levels
    /\ LevelRank(s.verificationLevel) > LevelRank(c.requiredLevel)

LevelBelowRequired(s, c) ==
    /\ s.verificationLevel \in Levels
    /\ c.requiredLevel \in Levels
    /\ LevelRank(s.verificationLevel) < LevelRank(c.requiredLevel)

\* A statement subject names its digests by algorithm; a context subject
\* carries one digest and the algorithm to compare it under.  A statement
\* subject need not have a name (None: no name in it, or null in its place).
SubjectMatches(subject, expected) ==
    /\ subject.name # None
    /\ subject.name = expected.name
    /\ expected.algorithm \in DOMAIN subject.digest
    /\ subject.digest[expected.algorithm] = expected.digest

\* The last denial names the subject in its message: without a name to print
\* it is undefined, and the extra subject passes.
SubjectDigestMismatch(s, c) ==
    \/ c.subjects = <<>>
    \/ \E i, j \in DOMAIN c.subjects : i # j /\ c.subjects[i].name = c.subjects[j].name
    \/ \E i \in DOMAIN c.subjects :
           \A subject \in s.subject : ~SubjectMatches(subject, c.subjects[i])
    \/ \E subject \in s.subject :
           /\ subject.name # None
           /\ \A i \in DOMAIN c.subjects : ~SubjectMatches(subject, c.subjects[i])

PrivacyViolation(s) ==
    \/ \E e \in s.evidence :
           /\ e.storage = "transparency-log"
           /\ e.type \notin TransparencyAllowedTypes \/ e.visibility # "public"
    \/ "public" \in s.extensions

LevelEscalation(s) ==
    \/ /\ PolicyOrHigher(s)
       /\ \/ \E e \in s.evidence : e.storage = "local-only"
          \/ s.executionType = "local"
          \/ s.builder = None
    \/ /\ HighAssuranceClaim(s)
       /\ \/ s.executionType \notin {"isolated-runner", "witnessed-runner"}
          \/ s.witnesses = {}
          \/ s.approvalState # None /\ s.approvalState # "approved-before-merge"
          \/ CaptureMethod(s) = "manual"

BuilderIdentityMismatch(s, c) ==
    \/ /\ PolicyOrHigher(s)
       /\ \/ c.verifiedBuilderId = None
          \/ c.verifiedBuilderId # None /\ BuilderId(s) # c.verifiedBuilderId
          \/ c.verifiedWorkflowRef = None
          \/ c.verifiedWorkflowRef # None /\ WorkflowRef(s) # c.verifiedWorkflowRef
          \/ c.verifiedIssuer = None
          \/ /\ s.executionType = "github-actions"
             /\ RunnerClass(s) = "self-hosted"
             /\ ~c.allowSelfHostedRunners
    \/ HighAssuranceClaim(s) /\ BuilderId(s) \notin c.allowedIsolatedRunners

SignerIdentityMismatch(s, c) ==
    \/ PolicyOrHigher(s) /\ c.verifiedSigner = None
    \/ s.declaredIdentity # None /\ c.verifiedSigner # s.declaredIdentity

\* Faulty variant: nothing to compare with is nothing to deny.
TransparencyFailedAmongVerified(s, c) ==
    c.verifiedWitnesses # {} /\ \E w \in s.witnesses : \A v \in c.verifiedWitnesses : v.type # w.type \/ v.digest # w.digest

\* The rule compares type and digest of a witness, never its id or uri.
TransparencyVerificationFailed(s, c) ==
    \E w \in s.witnesses : \A v \in c.verifiedWitnesses : v.type # w.type \/ v.digest # w.digest

ApprovalEvidenceMatchesVerifiedDigest(s, c) ==
    /\ c.verifiedApprovalDigest # None
    /\ \E e \in s.evidence : e.type = "approval" /\ e.digest = c.verifiedApprovalDigest

McpServersUnverified(s, c) ==
    \/ /\ PolicyOrHigher(s)
       /\ s.predicateVersion = "v1"
       /\ s.mcpServers # {}
       /\ c.verifiedMcpServers = {}
    \/ c.verifiedMcpServers # {} /\ ~(s.mcpServers \subseteq c.verifiedMcpServers)

DelegationUnverified(s, c) ==
    \/ /\ PolicyOrHigher(s)
       /\ s.predicateVersion = "v1"
       /\ s.delegation # {}
       /\ c.verifiedDelegation = {}
    \/ c.verifiedDelegation # {} /\ ~(s.delegation \subseteq c.verifiedDelegation)

MissingEvidence(s, c) ==
    \/ /\ HighAssuranceClaim(s)
       /\ \/ ~HasEvidenceType(s, "approval")
          \/ ~c.verifiedApproval
          \/ c.verifiedApproval /\ ~ApprovalEvidenceMatchesVerifiedDigest(s, c)
          \/ s.predicateVersion = "v1" /\ s.agentConfig = None
          \/ ~HasEvidenceType(s, "trace")
    \/ c.verifiedAgentConfig # None /\ s.agentConfig # c.verifiedAgentConfig
    \/ McpServersUnverified(s, c)
    \/ DelegationUnverified(s, c)

\* Faulty variant: a pull request nobody asked about is compared as well.
ReplayDetectedUnasked(s, c) ==
    \/ s.pullRequest # c.expectedPullRequestNumber
    \/ c.expectedRunId # None /\ s.runId # c.expectedRunId

ReplayDetected(s, c) ==
    \/ c.expectedPullRequestNumber > 0 /\ s.pullRequest # c.expectedPullRequestNumber
    \/ c.expectedRunId # None /\ s.runId # c.expectedRunId

StaleAttestation(s, c) ==
    /\ c.freshnessWindowSeconds > 0
    /\ \/ c.now = None
       \/ /\ c.now # None
          /\ Parses(c.now) /\ Parses(s.finishedAt)
          /\ TooOld(s.finishedAt, c.now, c.freshnessWindowSeconds)

When(code, denied) == IF denied THEN {code} ELSE {}

\* The rules that read the predicate, given the one the other phases judged.
PredicateCodes(s, c) ==
    When("level_below_required", LevelBelowRequired(s, c))
    \cup When("repo_url_mismatch", s.repoUrl # c.repoUrl)
    \cup When("base_commit_mismatch", s.baseCommit # c.baseCommit)
    \cup When("privacy_violation", PrivacyViolation(s))
    \cup When("level_escalation", LevelEscalation(s))
    \cup When("builder_identity_mismatch", BuilderIdentityMismatch(s, c))
    \cup When("signer_identity_mismatch", SignerIdentityMismatch(s, c))
    \cup When("transparency_verification_failed", TransparencyVerificationFailed(s, c))
    \cup When("missing_evidence", MissingEvidence(s, c))
    \cup When("replay_detected", ReplayDetected(s, c))
    \cup When("stale_attestation", StaleAttestation(s, c))

\* The set data.agentattest.default_policy.failure_codes of the shipped file.
FailureCodes(s, c) ==
    When("subject_digest_mismatch", SubjectDigestMismatch(s, c))
    \cup (IF OneReading(s) THEN PredicateCodes(s, c) ELSE s.secondReading)

PolicyCodes == {"level_below_required", "repo_url_mismatch", "base_commit_mismatch",
                "subject_digest_mismatch", "privacy_violation", "level_escalation",
                "builder_identity_mismatch", "signer_identity_mismatch",
                "transparency_verification_failed", "missing_evidence",
                "replay_detected", "stale_attestation"}

=============================================================================
