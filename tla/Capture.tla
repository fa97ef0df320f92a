------------------------------- MODULE Capture -------------------------------
(***************************************************************************)
(* What makes a statement of a gitbind.Result: the flags of `predicate     *)
(* create` with internal/predicate, and internal/capture.Statement, which  *)
(* a coding-agent harness calls with what it knows of its run.  The run of *)
(* a harness is a record:                                                  *)
(*   trace          "bound", "incomplete", or "malformed" (its digest);    *)
(*   agentName, executionType    "" when not given;                        *)
(*   agentConfig    the digest of the operating contract, or None;         *)
(*   mcpServers     their entries in the statement;                        *)
(*   legal          whether the schema's patterns admit what is copied     *)
(*                  unseen: agent, invocation kind, trace format and ids,  *)
(*                  uri, servers, tools, model, the contract's file name.  *)
(* The flags of a command line are a record with a field legal as well:    *)
(* agent name and version, harness, model and the base name of the         *)
(* operating contract's file go into the predicate as they are given.      *)
(***************************************************************************)
EXTENDS Contracts

CONSTANT LegalBranches   \* branch names the schema's pattern admits

-----------------------------------------------------------------------------
\* runPredicate and applyV1PredicateOptions: which flags the command takes.
V1Flags(o) == o.captureMethod # "" \/ o.harness # "" \/ o.agentConfig # None \/ o.model # {}

FlagsAccepted(o) ==
    \/ o.version \in {"", "v0"} /\ ~V1Flags(o)
    \/ /\ o.version = "v1"
       /\ o.captureMethod \in {"", "wrapper", "ci-step", "manual"}
       /\ o.agentConfig # "unreadable"
       /\ o.model \in {{}, {"provider", "id"}}

\* predicate.Create / CreateV1 and StatementFor: what a bare command line
\* knows of a run.  The branch goes in as git names it, the URL as origin's
\* was normalised; that phase 02 will refuse them is not noticed here.
\* Bound: every capture is of the first second.
CapturedAt == [second |-> FirstSecond, fraction |-> <<>>]
CreateStatement(r, o) ==
    LET version == IF o.version = "" THEN "v0" ELSE o.version IN
    [decodes |-> TRUE, predicateDecodes |-> TRUE,
     wellFormed |-> r.branch \in LegalBranches \cup {None} /\ r.repoUrl \in LegalUrls /\ o.legal,
     type |-> "in-toto-v1", predicateType |-> version, predicateVersion |-> version,
     verificationLevel |-> "evidence-grade", runId |-> "run", repoUrl |-> r.repoUrl, baseCommit |-> r.base,
     pullRequest |-> 0, declaredIdentity |-> None, executionType |-> "local",
     builder |-> None, witnesses |-> {},
     evidence |-> {[type |-> "tool-summary", storage |-> "local-only", visibility |-> "team", digest |-> r.patch]},
     approvalState |-> "none",
     capture |-> IF version = "v0" THEN None
                 ELSE [method |-> IF o.captureMethod = "" THEN "wrapper" ELSE o.captureMethod,
                       harness |-> IF o.harness = "" THEN None ELSE o.harness],
     runtime |-> FALSE,
     agentConfig |-> IF version = "v0" THEN None ELSE o.agentConfig,
     mcpServers |-> {}, delegation |-> {}, extensions |-> {},
     startedAt |-> CapturedAt, finishedAt |-> CapturedAt,
     subject |-> {[name |-> "patch.diff", digest |-> [sha256 |-> r.patch]]},
     secondReading |-> None]

-----------------------------------------------------------------------------
\* capture.Statement: what it refuses.
RunAccepted(m) == m.trace = "bound" /\ m.agentConfig # "unreadable"

\* The rest is copied: the agent's name is the harness, the trace replaces the
\* evidence, and half of a model is left out without a word.
HarnessStatement(r, m) ==
    LET flags == [version |-> "v1", captureMethod |-> "harness-native", harness |-> m.agentName,
                  agentConfig |-> m.agentConfig, legal |-> m.legal]
    IN  [CreateStatement(r, flags) EXCEPT
            !.executionType = IF m.executionType = "" THEN @ ELSE m.executionType,
            !.runtime = TRUE,
            !.evidence = {[type |-> "trace", storage |-> "artifact-store", visibility |-> "team", digest |-> "trace"]},
            !.mcpServers = m.mcpServers]

=============================================================================
