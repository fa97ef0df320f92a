------------------------------- MODULE Verdict -------------------------------
(***************************************************************************)
(* The two functions the commands share: internal/app.buildVerifierContext *)
(* makes a verifier context of what gitbind.Compute found, and             *)
(* verify.Predicate judges a statement under it.  Here the contract files  *)
(* are as shipped; VerifyPipeline has them change meanwhile.               *)
(***************************************************************************)
EXTENDS Contracts, Assurance

\* What the verifier knows when nobody verified anything out of band.
NothingVerified ==
    [verifiedSigner |-> None, verifiedBuilderId |-> None, verifiedWorkflowRef |-> None, verifiedIssuer |-> None,
     verifiedApproval |-> FALSE, verifiedApprovalDigest |-> None, verifiedWitnesses |-> {},
     allowedIsolatedRunners |-> {}, allowSelfHostedRunners |-> FALSE, verifiedAgentConfig |-> None,
     verifiedMcpServers |-> {}, verifiedDelegation |-> {}, expectedPullRequestNumber |-> 0,
     expectedRunId |-> None, freshnessWindowSeconds |-> 0, now |-> None]

\* Fields of both records, those of the first where both have them.
Merged(first, second) ==
    [field \in DOMAIN first \cup DOMAIN second |->
        IF field \in DOMAIN first THEN first[field] ELSE second[field]]

RequiredLevel(flag) == IF flag = "" THEN "evidence-grade" ELSE flag

\* Faulty variant: the default of `verify bundle` in place of the flag.
BuildVerifierContextAtPolicyGrade(r, flag) ==
    Merged([wellFormed |-> r.repoUrl \in LegalUrls, requiredLevel |-> "policy-grade", repoUrl |-> r.repoUrl, baseCommit |-> r.base,
            subjects |-> <<[name |-> "patch.diff", algorithm |-> "sha256", digest |-> r.patch]>>],
           NothingVerified)

\* One subject, the patch; a level that is not one of the three, or an origin
\* without a URL the schema's pattern admits, makes a context its schema
\* rejects.
BuildVerifierContext(r, flag) ==
    Merged([wellFormed |-> RequiredLevel(flag) \in Levels /\ r.repoUrl \in LegalUrls, requiredLevel |-> RequiredLevel(flag),
            repoUrl |-> r.repoUrl, baseCommit |-> r.base,
            subjects |-> <<[name |-> "patch.diff", algorithm |-> "sha256", digest |-> r.patch]>>],
           NothingVerified)

\* Faulty variant: the digests of the subjects are not compared.
JudgeByBaseOnly(s, c) ==
    IF ~s.decodes \/ ~SchemaValid(s) \/ ~ContextValid(c) THEN {"schema_invalid"}
    ELSE FailureCodes(s, c) \ {"subject_digest_mismatch"}

\* Faulty variant: the base commit is not compared.
JudgeBySubjectOnly(s, c) ==
    IF ~s.decodes \/ ~SchemaValid(s) \/ ~ContextValid(c) THEN {"schema_invalid"}
    ELSE FailureCodes(s, c) \ {"base_commit_mismatch"}

\* verify.Predicate: the codes of the first phase that fails.
Judge(s, c) ==
    IF ~s.decodes \/ ~s.predicateDecodes THEN {"schema_invalid"}
    ELSE IF PreSchemaCodes(s) # {} THEN PreSchemaCodes(s)
    ELSE IF ~SchemaValid(s) \/ ~ContextValid(c) \/ ~CueValid(s) THEN {"schema_invalid"}
    ELSE FailureCodes(s, c)

\* What a verdict is made of and of nothing else: the two satisfy their
\* contracts, the claimed level is kept, and nothing declared is disputed; of
\* two predicates, the rules have nothing against the one they were given.
Justified(s, c) ==
    /\ s.decodes /\ s.predicateDecodes
    /\ PreSchemaCodes(s) = {}
    /\ SchemaValid(s) /\ ContextValid(c) /\ CueValid(s)
    /\ Assured(s, c)
    /\ IF OneReading(s) THEN Undisputed(s, c) ELSE s.secondReading = {}

=============================================================================
