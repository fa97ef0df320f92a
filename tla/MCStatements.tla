---------------------------- MODULE MCStatements ----------------------------
(***************************************************************************)
(* Concrete statements and contexts for the instances TLC checks.  For each *)
(* level there is one statement and one context that satisfy every rule;   *)
(* the instances are those, and what they become when one or two of their  *)
(* fields deviate.                                                         *)
(***************************************************************************)
EXTENDS Assurance, TLC

At(second) == [second |-> second, fraction |-> <<>>]
AtFraction(second, digits) == [second |-> second, fraction |-> digits]

Evidence(type, storage, visibility, digest) ==
    [type |-> type, storage |-> storage, visibility |-> visibility, digest |-> digest]
Subject(name, digest) == [name |-> name, digest |-> ("sha256" :> digest)]
Expected(name, digest) == [name |-> name, algorithm |-> "sha256", digest |-> digest]

StoredEvidence == {Evidence("trace", "artifact-store", "team", "d1"),
                   Evidence("approval", "artifact-store", "team", "d2")}
LocalEvidence == {Evidence("tool-summary", "local-only", "team", "d3")}

\* A statement every phase accepts at its level, in both versions.
GoodStatement(version, level) ==
    [decodes |-> TRUE, predicateDecodes |-> TRUE, wellFormed |-> TRUE,
     type |-> "in-toto-v1", predicateType |-> version, predicateVersion |-> version,
     verificationLevel |-> level, runId |-> "run1", repoUrl |-> "repo", baseCommit |-> "base",
     pullRequest |-> 7, declaredIdentity |-> "signer",
     executionType |-> IF level = "high-assurance" THEN "isolated-runner"
                       ELSE IF level = "policy-grade" THEN "github-actions" ELSE "local",
     builder |-> [id |-> "builder", workflowRef |-> "workflow", runnerClass |-> "github-hosted"],
     witnesses |-> {[type |-> "transparency-log", digest |-> "w1"]},
     evidence |-> IF level = "evidence-grade" THEN StoredEvidence \cup LocalEvidence ELSE StoredEvidence,
     approvalState |-> "approved-before-merge",
     capture |-> IF version = "v0" THEN None ELSE [method |-> "harness-native", harness |-> "cli"],
     runtime |-> TRUE,
     agentConfig |-> IF version = "v0" THEN None ELSE "cfg1",
     mcpServers |-> IF version = "v0" THEN {} ELSE {"m1"},
     delegation |-> IF version = "v0" THEN {} ELSE {"a1"},
     extensions |-> {}, startedAt |-> At(1), finishedAt |-> At(2),
     subject |-> {Subject("patch", "d5"), Subject("file", "d6")}, secondReading |-> None]

\* A context under which the statements above pass, every check switched on.
GoodContext ==
    [wellFormed |-> TRUE, requiredLevel |-> "evidence-grade", repoUrl |-> "repo", baseCommit |-> "base",
     subjects |-> <<Expected("patch", "d5"), Expected("file", "d6")>>,
     verifiedSigner |-> "signer", verifiedBuilderId |-> "builder",
     verifiedWorkflowRef |-> "workflow", verifiedIssuer |-> "issuer",
     verifiedApproval |-> TRUE, verifiedApprovalDigest |-> "d2",
     verifiedWitnesses |-> {[type |-> "transparency-log", digest |-> "w1"]},
     allowedIsolatedRunners |-> {"builder"}, allowSelfHostedRunners |-> FALSE,
     verifiedAgentConfig |-> None, verifiedMcpServers |-> {"m1"}, verifiedDelegation |-> {"a1"},
     expectedPullRequestNumber |-> 7, expectedRunId |-> "run1",
     freshnessWindowSeconds |-> 3, now |-> At(4)]

\* Fields that may differ, each with one value that differs.
StatementDeviations ==
    <<<<"type", "other">>, <<"predicateType", "other">>, <<"predicateVersion", "v0">>, <<"predicateVersion", "v1">>,
      <<"verificationLevel", None>>, <<"runId", "run2">>, <<"repoUrl", "fork">>, <<"baseCommit", "base2">>,
      <<"pullRequest", 0>>, <<"declaredIdentity", None>>, <<"declaredIdentity", "someone">>,
      <<"executionType", "github-actions">>, <<"executionType", "local">>, <<"executionType", None>>,
      <<"builder", None>>, <<"builder", [id |-> "builder", workflowRef |-> None, runnerClass |-> "self-hosted"]>>,
      <<"builder", [id |-> "builder2", workflowRef |-> "workflow", runnerClass |-> "self-hosted"]>>,
      <<"builder", [id |-> "builder", workflowRef |-> "workflow", runnerClass |-> "self-hosted"]>>,
      <<"witnesses", {}>>, <<"witnesses", {[type |-> "timestamp-authority", digest |-> "w1"]}>>,
      <<"evidence", StoredEvidence \cup LocalEvidence>>, <<"evidence", LocalEvidence>>,
      <<"evidence", StoredEvidence \cup {Evidence("builder-record", "transparency-log", "public", "d3")}>>,
      <<"evidence", StoredEvidence \cup {Evidence("test-result", "transparency-log", "public", "d3")}>>,
      <<"evidence", {Evidence("trace", "artifact-store", "team", "d2")}>>,
      <<"evidence", {Evidence("approval", "artifact-store", "team", "d2")}>>,
      <<"evidence", {Evidence("trace", "artifact-store", "team", "d1"), Evidence("approval", "artifact-store", "team", "d3")}>>,
      <<"approvalState", None>>, <<"approvalState", "requested">>,
      <<"capture", [method |-> "manual", harness |-> None]>>, <<"capture", [method |-> "harness-native", harness |-> None]>>,
      <<"runtime", FALSE>>, <<"agentConfig", None>>, <<"agentConfig", "cfg2">>,
      <<"mcpServers", {"m1", "m2"}>>, <<"mcpServers", {}>>, <<"delegation", {"a1", "a2"}>>, <<"delegation", {}>>,
      <<"extensions", {"public"}>>,
      <<"startedAt", At(3)>>, <<"startedAt", AtFraction(1, <<5>>)>>, <<"finishedAt", At(0)>>, <<"finishedAt", At(1)>>,
      <<"finishedAt", AtFraction(1, <<0>>)>>,
      <<"subject", {Subject("patch", "d5")}>>, <<"subject", {Subject("patch", "d5"), Subject("file", "d7")}>>,
      <<"subject", {Subject("patch", "d5"), Subject("file", "d6"), Subject("other", "d6")}>>,
      <<"subject", {Subject("patch", "d5"), Subject("file", "d6"), Subject(None, "d6")}>>,
      <<"subject", {Subject("patch", "d5"), Subject(None, "d6")}>>,
      <<"secondReading", {}>>, <<"secondReading", {"level_escalation", "missing_evidence"}>>>>

ContextDeviations ==
    <<<<"requiredLevel", "policy-grade">>, <<"requiredLevel", "high-assurance">>, <<"wellFormed", FALSE>>,
      <<"repoUrl", "fork">>, <<"baseCommit", "base2">>,
      <<"subjects", <<Expected("patch", "d5")>>>>,
      <<"subjects", <<Expected("patch", "d5"), Expected("file", "d6"), Expected("file", "d6")>>>>,
      <<"verifiedSigner", None>>, <<"verifiedBuilderId", None>>, <<"verifiedWorkflowRef", None>>, <<"verifiedIssuer", None>>,
      <<"verifiedApproval", FALSE>>, <<"verifiedApprovalDigest", None>>, <<"verifiedWitnesses", {}>>,
      <<"allowedIsolatedRunners", {}>>, <<"allowSelfHostedRunners", TRUE>>,
      <<"verifiedAgentConfig", "cfg1">>, <<"verifiedMcpServers", {}>>, <<"verifiedDelegation", {}>>,
      <<"expectedPullRequestNumber", 0>>, <<"expectedPullRequestNumber", 8>>, <<"expectedRunId", None>>,
      <<"freshnessWindowSeconds", 0>>, <<"freshnessWindowSeconds", 1>>, <<"now", None>>, <<"now", At(6)>>>>

Deviate(good, deviation) == [good EXCEPT ![deviation[1]] = deviation[2]]
AtMost(n, good, deviations) ==
    IF n = 0 THEN {good}
    ELSE IF n = 1 THEN {good} \cup {Deviate(good, deviations[i]) : i \in DOMAIN deviations}
    ELSE {Deviate(Deviate(good, deviations[i]), deviations[j]) : i, j \in DOMAIN deviations}

GoodStatements == {GoodStatement(version, level) : version \in {"v0", "v1"}, level \in Levels}
StatementsWithin(n) == UNION {AtMost(n, good, StatementDeviations) : good \in GoodStatements}
ContextsWithin(n) == AtMost(n, GoodContext, ContextDeviations)

=============================================================================
