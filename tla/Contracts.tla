----------------------------- MODULE Contracts -----------------------------
(***************************************************************************)
(* What phases 01 to 03 require of a statement and of a context: the Go    *)
(* pre-schema gate, the JSON Schemas of the predicate and of the context,  *)
(* and the CUE cross-field rules.  Required fields that are absent are     *)
(* None; every other structural rule of the schemas (patterns, lengths,    *)
(* closed objects, the privacy block) is the one field wellFormed.         *)
(***************************************************************************)
EXTENDS Policy

CONSTANT LegalUrls   \* repository URLs the patterns of both schemas admit

PreSchemaCodes(s) ==
    When("unsupported_statement_type", s.type # "in-toto-v1")
    \cup When("predicate_type_mismatch", s.predicateType \notin {"v0", "v1"})
    \cup When("unsupported_predicate_version",
              \/ s.predicateVersion \notin {"v0", "v1"}
              \/ s.predicateType \in {"v0", "v1"} /\ s.predicateVersion # s.predicateType)

\* Faulty variant: approvalState is optional, and the policy denies it only
\* when present.
SchemaValidWithOptionalApproval(s) ==
    /\ s.wellFormed
    /\ s.predicateVersion = s.predicateType
    /\ s.verificationLevel \in Levels
    /\ s.executionType # None
    /\ s.evidence # {}

SchemaValid(s) ==
    /\ s.wellFormed
    /\ s.predicateVersion = s.predicateType
    /\ s.verificationLevel \in Levels
    /\ None \notin {s.executionType, s.approvalState}
    /\ s.evidence # {}
    /\ \A e \in s.evidence : e.type \in {"raw-prompt-ref", "raw-tool-output-ref"} => e.visibility # "public"
    /\ s.executionType = "github-actions" => WorkflowRef(s) # None
    /\ CaptureMethod(s) = "harness-native" => s.capture.harness # None
    /\ s.predicateType = "v0" =>
          /\ s.capture = None /\ s.agentConfig = None
          /\ s.mcpServers = {} /\ s.delegation = {}

ContextValid(c) ==
    /\ c.wellFormed
    /\ c.requiredLevel \in Levels
    /\ c.subjects # <<>>
    /\ \A i \in DOMAIN c.subjects : c.subjects[i].algorithm = "sha256"

CueValid(s) ==
    /\ TextAtLeast(s.finishedAt, s.startedAt)
    /\ s.runtime => HasEvidenceType(s, "trace")
    /\ CaptureMethod(s) = "harness-native" => s.runtime /\ HasEvidenceType(s, "trace")

=============================================================================
