--------------------------- MODULE AssuranceProofs ---------------------------
(***************************************************************************)
(* The promises of Assurance follow from the phases of Contracts and the   *)
(* deny rules of Policy: for every statement and every context, valid and  *)
(* without a deny code, the statement has what its claimed level promises. *)
(* All callers of the verdict, the pipeline and the commands, rest on it.   *)
(* And conversely: nothing but a broken promise or a disputed declaration  *)
(* is denied.  Of a statement that reads as two predicates only the rule on *)
(* subjects looks at what was promised.                                    *)
(***************************************************************************)
EXTENDS Verdict, TLAPS

\* The rule on subjects denies exactly the subjects that are not bound: a
\* subject without a name is on neither side.
LEMMA SubjectRuleIsExact ==
    ASSUME NEW s, NEW c
    PROVE  SubjectDigestMismatch(s, c) <=> ~SubjectsBound(s, c)
BY DEF SubjectDigestMismatch, SubjectsBound

\* The codes are those of the rule on subjects and of the rules on a predicate.
LEMMA CodesAreOfTwoKinds ==
    ASSUME NEW s, NEW c
    PROVE  FailureCodes(s, c) = {} <=>
               /\ SubjectsBound(s, c)
               /\ IF OneReading(s) THEN PredicateCodes(s, c) = {} ELSE s.secondReading = {}
BY SubjectRuleIsExact DEF FailureCodes, When

\* No deny code means that no rule on the predicate denies.
LEMMA NoCodeNoDenial ==
    ASSUME NEW s, NEW c, PredicateCodes(s, c) = {}
    PROVE  /\ ~LevelBelowRequired(s, c)
           /\ s.repoUrl = c.repoUrl
           /\ s.baseCommit = c.baseCommit
           /\ ~PrivacyViolation(s)
           /\ ~LevelEscalation(s)
           /\ ~BuilderIdentityMismatch(s, c)
           /\ ~SignerIdentityMismatch(s, c)
           /\ ~TransparencyVerificationFailed(s, c)
           /\ ~MissingEvidence(s, c)
           /\ ~ReplayDetected(s, c)
           /\ ~StaleAttestation(s, c)
BY DEF PredicateCodes, When

\* The schema fixes the version to the one the predicate type names.
LEMMA VersionIsRouted ==
    ASSUME NEW s, PreSchemaCodes(s) = {}, SchemaValid(s)
    PROVE  s.predicateType \in {"v0", "v1"} /\ s.predicateVersion = s.predicateType
BY DEF PreSchemaCodes, SchemaValid, When

\* Evidence-grade: repository, privacy, replay and inventory.
LEMMA EvidenceGradeHolds ==
    ASSUME NEW s, NEW c, SchemaValid(s), ContextValid(c), CueValid(s), PredicateCodes(s, c) = {}
    PROVE  EvidenceGrade(s, c)
<1>1. s.verificationLevel \in Levels /\ LevelRank(s.verificationLevel) >= LevelRank(c.requiredLevel)
  BY NoCodeNoDenial DEF LevelBelowRequired, LevelRank, Levels, SchemaValid, ContextValid
<1>3. PrivacySafe(s)
  BY NoCodeNoDenial DEF PrivacyViolation, PrivacySafe
<1>4. NotReplayed(s, c)
  BY NoCodeNoDenial DEF ReplayDetected, StaleAttestation, NotReplayed
<1>5. VerifiedInventory(s, c)
  BY NoCodeNoDenial DEF MissingEvidence, McpServersUnverified, DelegationUnverified, VerifiedInventory
<1>6. s.runtime => HasEvidenceType(s, "trace")
  BY DEF CueValid
<1>. QED
  BY <1>1, <1>3, <1>4, <1>5, <1>6, NoCodeNoDenial DEF EvidenceGrade

\* Policy-grade: the verifier's identities, and nothing local.
LEMMA PolicyGradeHolds ==
    ASSUME NEW s, NEW c, PreSchemaCodes(s) = {}, SchemaValid(s), ContextValid(c), CueValid(s),
           PredicateCodes(s, c) = {}, PolicyOrHigher(s)
    PROVE  PolicyGrade(s, c)
<1>1. EvidenceGrade(s, c)
  BY EvidenceGradeHolds
<1>2. None \notin {c.verifiedSigner, c.verifiedBuilderId, c.verifiedWorkflowRef, c.verifiedIssuer}
  BY NoCodeNoDenial DEF BuilderIdentityMismatch, SignerIdentityMismatch
<1>3. /\ s.builder # None
      /\ s.builder.id = c.verifiedBuilderId
      /\ s.builder.workflowRef = c.verifiedWorkflowRef
  BY <1>2, NoCodeNoDenial DEF BuilderIdentityMismatch, LevelEscalation, BuilderId, WorkflowRef
<1>4. s.declaredIdentity \in {None, c.verifiedSigner}
  BY NoCodeNoDenial DEF SignerIdentityMismatch
<1>5. (\A e \in s.evidence : e.storage # "local-only") /\ s.executionType # "local"
  BY NoCodeNoDenial DEF LevelEscalation
<1>6. s.mcpServers \subseteq c.verifiedMcpServers
  BY NoCodeNoDenial, VersionIsRouted DEF MissingEvidence, McpServersUnverified, SchemaValid
<1>7. s.delegation \subseteq c.verifiedDelegation
  BY NoCodeNoDenial, VersionIsRouted DEF MissingEvidence, DelegationUnverified, SchemaValid
<1>. QED
  BY <1>1, <1>2, <1>3, <1>4, <1>5, <1>6, <1>7 DEF PolicyGrade

\* High assurance: runner, witnesses and approval.
LEMMA HighAssuranceHolds ==
    ASSUME NEW s, NEW c, PreSchemaCodes(s) = {}, SchemaValid(s), ContextValid(c), CueValid(s),
           PredicateCodes(s, c) = {}, HighAssuranceClaim(s)
    PROVE  HighAssurance(s, c)
<1>1. PolicyOrHigher(s)
  BY DEF PolicyOrHigher, HighAssuranceClaim, Levels, LevelRank
<1>2. PolicyGrade(s, c)
  BY <1>1, PolicyGradeHolds
<1>3. /\ s.executionType \in {"isolated-runner", "witnessed-runner"}
      /\ s.witnesses # {}
      /\ s.approvalState = "approved-before-merge"
      /\ CaptureMethod(s) # "manual"
  BY NoCodeNoDenial DEF LevelEscalation, SchemaValid
<1>4. s.builder.id \in c.allowedIsolatedRunners
  BY <1>2, NoCodeNoDenial DEF BuilderIdentityMismatch, BuilderId, PolicyGrade
<1>5. \A w \in s.witnesses : \E v \in c.verifiedWitnesses : v.type = w.type /\ v.digest = w.digest
  BY NoCodeNoDenial DEF TransparencyVerificationFailed
<1>6. /\ c.verifiedApproval /\ c.verifiedApprovalDigest # None
      /\ \E e \in s.evidence : e.type = "approval" /\ e.digest = c.verifiedApprovalDigest
      /\ HasEvidenceType(s, "trace")
  BY NoCodeNoDenial DEF MissingEvidence, ApprovalEvidenceMatchesVerifiedDigest
<1>7. s.predicateType = "v1" => s.agentConfig # None
  BY NoCodeNoDenial, VersionIsRouted DEF MissingEvidence
<1>. QED
  BY <1>2, <1>3, <1>4, <1>5, <1>6, <1>7 DEF HighAssurance

\* The four phases together keep what the claimed level promises.
LEMMA PhasesKeepTheLevel ==
    ASSUME NEW s, NEW c, PreSchemaCodes(s) = {}, SchemaValid(s), ContextValid(c), CueValid(s),
           PredicateCodes(s, c) = {}
    PROVE  LevelKept(s, c)
<1>1. EvidenceGrade(s, c)
  BY EvidenceGradeHolds
<1>2. s.verificationLevel = "policy-grade" => PolicyOrHigher(s)
  BY DEF PolicyOrHigher, Levels, LevelRank
<1>3. s.verificationLevel = "policy-grade" => PolicyGrade(s, c)
  BY <1>2, PolicyGradeHolds
<1>4. s.verificationLevel = "high-assurance" => HighAssurance(s, c)
  BY HighAssuranceHolds DEF HighAssuranceClaim
<1>. QED
  BY <1>1, <1>3, <1>4 DEF LevelKept

LEMMA PhasesAssure ==
    ASSUME NEW s, NEW c, PreSchemaCodes(s) = {}, SchemaValid(s), ContextValid(c), CueValid(s),
           FailureCodes(s, c) = {}
    PROVE  Assured(s, c)
BY CodesAreOfTwoKinds, PhasesKeepTheLevel DEF Assured

-----------------------------------------------------------------------------
(* The converse: what keeps its promises and is not disputed is accepted.  *)

LEMMA NothingDenied ==
    ASSUME NEW s, NEW c,
           ~LevelBelowRequired(s, c), s.repoUrl = c.repoUrl, s.baseCommit = c.baseCommit,
           ~PrivacyViolation(s), ~LevelEscalation(s),
           ~BuilderIdentityMismatch(s, c), ~SignerIdentityMismatch(s, c),
           ~TransparencyVerificationFailed(s, c), ~MissingEvidence(s, c),
           ~ReplayDetected(s, c), ~StaleAttestation(s, c)
    PROVE  PredicateCodes(s, c) = {}
BY DEF PredicateCodes, When

\* A claim above evidence grade is one of the two higher promises.
LEMMA HigherClaims ==
    ASSUME NEW s, NEW c, LevelKept(s, c)
    PROVE  /\ EvidenceGrade(s, c)
           /\ PolicyOrHigher(s) => PolicyGrade(s, c)
           /\ HighAssuranceClaim(s) => HighAssurance(s, c)
BY DEF LevelKept, HighAssurance, PolicyOrHigher, HighAssuranceClaim, Levels, LevelRank

\* The rules every statement is under.
LEMMA EvidenceGradeIsNotDenied ==
    ASSUME NEW s, NEW c, EvidenceGrade(s, c), c.requiredLevel \in Levels
    PROVE  /\ ~LevelBelowRequired(s, c)
           /\ ~PrivacyViolation(s)
           /\ ~ReplayDetected(s, c)
           /\ ~StaleAttestation(s, c)
<1>1. ~LevelBelowRequired(s, c)
  BY DEF EvidenceGrade, LevelBelowRequired, LevelRank, Levels
<1>2. ~PrivacyViolation(s)
  BY DEF EvidenceGrade, PrivacySafe, PrivacyViolation
<1>3. ~ReplayDetected(s, c) /\ ~StaleAttestation(s, c)
  BY DEF EvidenceGrade, NotReplayed, ReplayDetected, StaleAttestation
<1>. QED
  BY <1>1, <1>2, <1>3

\* The rules a claim brings upon itself, and those on what it declares.
LEMMA ClaimsAreNotDenied ==
    ASSUME NEW s, NEW c, PreSchemaCodes(s) = {}, SchemaValid(s), LevelKept(s, c), Undisputed(s, c)
    PROVE  /\ ~LevelEscalation(s)
           /\ ~BuilderIdentityMismatch(s, c)
           /\ ~SignerIdentityMismatch(s, c)
           /\ ~TransparencyVerificationFailed(s, c)
           /\ ~MissingEvidence(s, c)
<1>0. /\ EvidenceGrade(s, c)
      /\ PolicyOrHigher(s) => PolicyGrade(s, c)
      /\ HighAssuranceClaim(s) => HighAssurance(s, c)
  BY HigherClaims
<1>1. ~LevelEscalation(s)
  BY <1>0 DEF LevelEscalation, PolicyGrade, HighAssurance
<1>2. ~BuilderIdentityMismatch(s, c)
  BY <1>0 DEF BuilderIdentityMismatch, PolicyGrade, HighAssurance, Undisputed, BuilderId, WorkflowRef
<1>3. ~SignerIdentityMismatch(s, c)
  BY <1>0 DEF SignerIdentityMismatch, PolicyGrade, Undisputed
<1>4. ~TransparencyVerificationFailed(s, c)
  BY DEF TransparencyVerificationFailed, Undisputed
<1>5. ~McpServersUnverified(s, c) /\ ~DelegationUnverified(s, c)
  BY <1>0 DEF EvidenceGrade, PolicyGrade, VerifiedInventory, McpServersUnverified, DelegationUnverified
<1>6. HighAssuranceClaim(s) =>
          /\ HasEvidenceType(s, "approval") /\ HasEvidenceType(s, "trace")
          /\ c.verifiedApproval /\ ApprovalEvidenceMatchesVerifiedDigest(s, c)
          /\ s.predicateVersion = "v1" => s.agentConfig # None
  BY <1>0, VersionIsRouted DEF HighAssurance, HasEvidenceType, ApprovalEvidenceMatchesVerifiedDigest
<1>7. c.verifiedAgentConfig # None => s.agentConfig = c.verifiedAgentConfig
  BY <1>0 DEF EvidenceGrade, VerifiedInventory
<1>8. ~MissingEvidence(s, c)
  BY <1>5, <1>6, <1>7 DEF MissingEvidence
<1>. QED
  BY <1>1, <1>2, <1>3, <1>4, <1>8

\* The rules of default.rego that read the predicate deny one that satisfies
\* its contracts exactly when the claimed level's promise is broken or a
\* declaration is disputed.
LEMMA PredicateRulesAreExact ==
    ASSUME NEW s, NEW c, PreSchemaCodes(s) = {}, SchemaValid(s), ContextValid(c), CueValid(s)
    PROVE  PredicateCodes(s, c) = {} <=> LevelKept(s, c) /\ Undisputed(s, c)
<1>1. ASSUME PredicateCodes(s, c) = {} PROVE LevelKept(s, c)
  BY <1>1, PhasesKeepTheLevel
<1>2. ASSUME PredicateCodes(s, c) = {} PROVE Undisputed(s, c)
  BY <1>2, NoCodeNoDenial DEF Undisputed, TransparencyVerificationFailed, SignerIdentityMismatch,
     BuilderIdentityMismatch
<1>3. ASSUME LevelKept(s, c), Undisputed(s, c) PROVE PredicateCodes(s, c) = {}
  <2>1. EvidenceGrade(s, c) /\ c.requiredLevel \in Levels
    BY <1>3 DEF LevelKept, ContextValid
  <2>2. s.repoUrl = c.repoUrl /\ s.baseCommit = c.baseCommit
    BY <2>1 DEF EvidenceGrade
  <2>. QED
    BY <1>3, <2>1, <2>2, EvidenceGradeIsNotDenied, ClaimsAreNotDenied, NothingDenied
<1>. QED
  BY <1>1, <1>2, <1>3

\* The twelve rules deny a statement and a context that satisfy their contracts
\* exactly when the named subjects differ or, for one predicate, the claimed
\* level's promise is broken or a declaration is disputed.  For two predicates
\* it is the one the contracts were not asked about that decides.
THEOREM RulesAreExact ==
    ASSUME NEW s, NEW c, PreSchemaCodes(s) = {}, SchemaValid(s), ContextValid(c), CueValid(s)
    PROVE  FailureCodes(s, c) = {} <=>
               /\ SubjectsBound(s, c)
               /\ OneReading(s) => LevelKept(s, c) /\ Undisputed(s, c)
               /\ ~OneReading(s) => s.secondReading = {}
BY CodesAreOfTwoKinds, PredicateRulesAreExact

\* The verdict of verify.Predicate (verify.go:27-92), as every command uses it,
\* is empty for what is justified and for nothing else, whichever predicates the
\* two decodes find.
THEOREM EmptyVerdictsAreJustified ==
    ASSUME NEW s, NEW c
    PROVE  Judge(s, c) = {} <=> Justified(s, c)
<1>1. CASE /\ s.decodes /\ s.predicateDecodes
           /\ PreSchemaCodes(s) = {}
           /\ SchemaValid(s) /\ ContextValid(c) /\ CueValid(s)
  <2>1. Judge(s, c) = FailureCodes(s, c)
    BY <1>1 DEF Judge
  <2>. QED
    BY <1>1, <2>1, RulesAreExact DEF Justified, Assured
<1>2. CASE ~(/\ s.decodes /\ s.predicateDecodes
             /\ PreSchemaCodes(s) = {}
             /\ SchemaValid(s) /\ ContextValid(c) /\ CueValid(s))
  <2>1. Judge(s, c) # {}
    BY <1>2 DEF Judge
  <2>. QED
    BY <1>2, <2>1 DEF Justified
<1>. QED
  BY <1>1, <1>2

-----------------------------------------------------------------------------
(* Which change of a context can only make a verifier more lenient.        *)

\* The second verifier asks for no more than the first: a lower level, or one
\* of the optional comparisons left out.
AsksNoMore(c, d) ==
    /\ d.requiredLevel \in Levels /\ LevelRank(d.requiredLevel) <= LevelRank(c.requiredLevel)
    /\ d.verifiedAgentConfig \in {None, c.verifiedAgentConfig}
    /\ d.expectedPullRequestNumber \in {0, c.expectedPullRequestNumber}
    /\ d.expectedRunId \in {None, c.expectedRunId}
    /\ \/ d.freshnessWindowSeconds = 0
       \/ d.freshnessWindowSeconds = c.freshnessWindowSeconds /\ d.now = c.now

\* It has verified no less of witnesses, runners and the approval, and trusts
\* more servers and delegates only where it had a list of them before: a first
\* list makes a comparison that there was not (default.rego:243-264).
VerifiedNoLess(c, d) ==
    /\ c.verifiedWitnesses \subseteq d.verifiedWitnesses
    /\ c.allowedIsolatedRunners \subseteq d.allowedIsolatedRunners
    /\ c.allowSelfHostedRunners => d.allowSelfHostedRunners
    /\ c.verifiedApproval => d.verifiedApproval
    /\ c.verifiedMcpServers \subseteq d.verifiedMcpServers
    /\ c.verifiedMcpServers = {} => d.verifiedMcpServers = {}
    /\ c.verifiedDelegation \subseteq d.verifiedDelegation
    /\ c.verifiedDelegation = {} => d.verifiedDelegation = {}

\* Both look at one repository and one signer.
SameFacts(c, d) ==
    /\ d.wellFormed = c.wellFormed /\ d.subjects = c.subjects
    /\ d.repoUrl = c.repoUrl /\ d.baseCommit = c.baseCommit
    /\ d.verifiedSigner = c.verifiedSigner /\ d.verifiedIssuer = c.verifiedIssuer
    /\ d.verifiedBuilderId = c.verifiedBuilderId /\ d.verifiedWorkflowRef = c.verifiedWorkflowRef
    /\ d.verifiedApprovalDigest = c.verifiedApprovalDigest

\* A verifier that has verified no less and asks for no more accepts no less of
\* what reads as one predicate: each deny rule (default.rego:41-274) is monotone
\* in what it reads of the context, and the contracts of phases 02 and 03 are.
THEOREM LenientContextsAcceptNoLess ==
    ASSUME NEW s, NEW c, NEW d, SameFacts(c, d), AsksNoMore(c, d), VerifiedNoLess(c, d),
           OneReading(s), Judge(s, c) = {}
    PROVE  Judge(s, d) = {}
<1>1. Justified(s, c)
  BY EmptyVerdictsAreJustified
<1>2. ContextValid(d)
  BY <1>1 DEF Justified, ContextValid, SameFacts, AsksNoMore
<1>0. SubjectsBound(s, c) => SubjectsBound(s, d)
  BY DEF SubjectsBound, SameFacts
<1>3. EvidenceGrade(s, c) => EvidenceGrade(s, d)
  <2>2. NotReplayed(s, c) => NotReplayed(s, d)
    BY DEF NotReplayed, AsksNoMore
  <2>3. VerifiedInventory(s, c) => VerifiedInventory(s, d)
    BY DEF VerifiedInventory, AsksNoMore, VerifiedNoLess
  <2>4. LevelRank(s.verificationLevel) >= LevelRank(c.requiredLevel)
           => LevelRank(s.verificationLevel) >= LevelRank(d.requiredLevel)
    BY DEF AsksNoMore, LevelRank
  <2>. QED
    BY <2>2, <2>3, <2>4 DEF EvidenceGrade, SameFacts
<1>4. PolicyGrade(s, c) => PolicyGrade(s, d)
  BY <1>3 DEF PolicyGrade, SameFacts, VerifiedNoLess
<1>5. HighAssurance(s, c) => HighAssurance(s, d)
  BY <1>4 DEF HighAssurance, SameFacts, VerifiedNoLess
<1>6. Assured(s, d)
  BY <1>0, <1>1, <1>3, <1>4, <1>5 DEF Justified, Assured, LevelKept
<1>7. Undisputed(s, d)
  BY <1>1 DEF Justified, Undisputed, SameFacts, VerifiedNoLess
<1>8. Justified(s, d)
  BY <1>1, <1>2, <1>6, <1>7 DEF Justified
<1>. QED
  BY <1>8, EmptyVerdictsAreJustified

-----------------------------------------------------------------------------
(* Text order and instants.                                                *)

\* The bytes of a fraction, one by one.
LEMMA FractionBytes ==
    ASSUME NEW n \in 1..3, NEW t, t.fraction \in [1..n -> 0..9]
    PROVE  /\ DOMAIN AfterSeconds(t) = 1..(n + 2)
           /\ AfterSeconds(t)[1] = Dot
           /\ \A i \in 1..n : AfterSeconds(t)[i + 1] = t.fraction[i]
<1>. DEFINE f == t.fraction
<1>1. f \in Seq(Int) /\ Len(f) = n /\ f # <<>>
  OBVIOUS
<1>2. AfterSeconds(t) = <<Dot>> \o f \o <<Zulu>>
  BY <1>1 DEF AfterSeconds
<1>. HIDE DEF f
<1>3. <<Dot>> \o f \in Seq(Int) /\ Len(<<Dot>> \o f) = n + 1
  BY <1>1 DEF Dot
<1>4. (<<Dot>> \o f)[1] = Dot /\ \A i \in 1..n : (<<Dot>> \o f)[i + 1] = f[i]
  BY <1>1 DEF Dot
<1>5. \A s \in Seq(Int) : Len(s) = n + 1 =>
          /\ DOMAIN (s \o <<Zulu>>) = 1..(n + 2)
          /\ \A i \in 1..(n + 1) : (s \o <<Zulu>>)[i] = s[i]
  BY DEF Zulu
<1>6. /\ DOMAIN AfterSeconds(t) = 1..(n + 2)
      /\ \A i \in 1..(n + 1) : AfterSeconds(t)[i] = (<<Dot>> \o f)[i]
  <2>. DEFINE s == <<Dot>> \o f
  <2>1. AfterSeconds(t) = s \o <<Zulu>> /\ s \in Seq(Int) /\ Len(s) = n + 1
    BY <1>2, <1>3
  <2>. HIDE DEF s
  <2>2. DOMAIN AfterSeconds(t) = 1..(n + 2) /\ \A i \in 1..(n + 1) : AfterSeconds(t)[i] = s[i]
    BY <1>5, <2>1
  <2>. QED
    BY <2>2 DEF s
<1>7. \A i \in 1..n : i + 1 \in 1..(n + 1)
  OBVIOUS
<1>. QED
  BY <1>4, <1>6, <1>7 DEF f

\* The digits of a timestamp are digits, and 0 past its end.
LEMMA Digits ==
    ASSUME NEW t, NEW n \in 0..3, t.fraction \in [1..n -> 0..9], NEW i \in 1..3
    PROVE  /\ Digit(t, i) \in 0..9
           /\ i <= n => Digit(t, i) = t.fraction[i]
           /\ i > n => Digit(t, i) = 0
BY DEF Digit

\* An instant by its digits: the first difference decides.
Ticks(second, d1, d2, d3) == 1000 * second + 100 * d1 + 10 * d2 + d3

LEMMA DigitsDecide ==
    ASSUME NEW x \in Int, NEW x1 \in 0..9, NEW x2 \in 0..9, NEW x3 \in 0..9,
           NEW y \in Int, NEW y1 \in 0..9, NEW y2 \in 0..9, NEW y3 \in 0..9,
           \/ x < y
           \/ /\ x = y /\ x1 <= y1
              /\ x1 = y1 => x2 <= y2
              /\ x1 = y1 /\ x2 = y2 => x3 <= y3
    PROVE  Ticks(x, x1, x2, x3) <= Ticks(y, y1, y2, y3)
BY DEF Ticks

\* phase 03 compares texts (agent-provenance-v1.cue:212).  What it lets pass
\* is in order to the second, and in order to the last digit when the second
\* text has at least the digits of the first.
LEMMA TextOrderToTheDigit ==
    ASSUME NEW t \in Timestamp, NEW u \in Timestamp, TextAtLeast(t, u)
    PROVE  /\ u.second <= t.second
           /\ DOMAIN u.fraction \subseteq DOMAIN t.fraction => Instant(u) <= Instant(t)
<1>1. t.second \in Int /\ u.second \in Int /\ u.second <= t.second
  BY DEF TextAtLeast, Timestamp
<1>2. PICK n \in 0..3, m \in 0..3 : t.fraction \in [1..n -> 0..9] /\ u.fraction \in [1..m -> 0..9]
  BY DEF Timestamp
<1>3. \A i \in 1..3 : Digit(t, i) \in 0..9 /\ Digit(u, i) \in 0..9
  BY <1>2, Digits
<1>4. /\ Digit(t, 1) \in 0..9 /\ Digit(t, 2) \in 0..9 /\ Digit(t, 3) \in 0..9
      /\ Digit(u, 1) \in 0..9 /\ Digit(u, 2) \in 0..9 /\ Digit(u, 3) \in 0..9
  BY <1>3
<1>5. ASSUME DOMAIN u.fraction \subseteq DOMAIN t.fraction PROVE Instant(u) <= Instant(t)
  <2>1. m <= n
    BY <1>2, <1>5
  <2>2. CASE u.second < t.second
    <3>1. Ticks(u.second, Digit(u, 1), Digit(u, 2), Digit(u, 3))
             <= Ticks(t.second, Digit(t, 1), Digit(t, 2), Digit(t, 3))
      BY <1>1, <1>4, <2>2, DigitsDecide
    <3>. QED
      BY <3>1 DEF Ticks, Instant, TicksPerSecond
  <2>3. CASE u.second = t.second /\ m = 0
    <3>1. Digit(u, 1) = 0 /\ Digit(u, 2) = 0 /\ Digit(u, 3) = 0
      BY <1>2, <2>3, Digits
    <3>. QED
      BY <1>1, <1>4, <2>3, <3>1 DEF Instant, TicksPerSecond
  <2>4. CASE u.second = t.second /\ m > 0
    <3>. DEFINE a == AfterSeconds(t)
                b == AfterSeconds(u)
    <3>1. /\ DOMAIN a = 1..(n + 2) /\ DOMAIN b = 1..(m + 2)
          /\ a[1] = Dot /\ b[1] = Dot
          /\ \A i \in 1..n : a[i + 1] = t.fraction[i]
          /\ \A i \in 1..m : b[i + 1] = u.fraction[i]
      <4>1. n \in 1..3 /\ m \in 1..3
        BY <2>1, <2>4
      <4>. QED
        BY <1>2, <4>1, FractionBytes
    <3>2. ~BytesLess(a, b)
      BY <1>1, <2>4 DEF TextAtLeast
    <3>. HIDE DEF a, b
    <3>3. \A i \in 1..m : a[i + 1] = Digit(t, i) /\ b[i + 1] = Digit(u, i)
      <4>. SUFFICES ASSUME NEW i \in 1..m PROVE a[i + 1] = Digit(t, i) /\ b[i + 1] = Digit(u, i)
        OBVIOUS
      <4>1. i \in 1..3 /\ i \in 1..n /\ i <= n /\ i <= m
        BY <2>1
      <4>2. Digit(t, i) = t.fraction[i] /\ Digit(u, i) = u.fraction[i]
        BY <1>2, <4>1, Digits
      <4>. QED
        BY <3>1, <4>1, <4>2
    <3>4. \A i \in 1..m : (\A j \in 1..(i - 1) : Digit(t, j) = Digit(u, j)) => ~(Digit(t, i) < Digit(u, i))
      <4>. SUFFICES ASSUME NEW i \in 1..m, \A j \in 1..(i - 1) : Digit(t, j) = Digit(u, j),
                           Digit(t, i) < Digit(u, i)
                    PROVE  FALSE
        OBVIOUS
      <4>1. i + 1 \in DOMAIN a \cap DOMAIN b /\ a[i + 1] < b[i + 1]
        BY <2>1, <3>1, <3>3
      <4>2. \A k \in 1..((i + 1) - 1) : a[k] = b[k]
        <5>. TAKE k \in 1..((i + 1) - 1)
        <5>1. CASE k = 1
          BY <3>1, <5>1
        <5>2. CASE k # 1
          <6>1. k - 1 \in 1..(i - 1) /\ k - 1 \in 1..m /\ (k - 1) + 1 = k
            BY <5>2
          <6>. QED
            BY <3>3, <6>1
        <5>. QED
          BY <5>1, <5>2
      <4>. QED
        BY <3>2, <4>1, <4>2 DEF BytesLess
    <3>5. \A i \in 1..3 : i > m => Digit(u, i) = 0
      BY <1>2, Digits
    <3>6. /\ Digit(t, 1) >= Digit(u, 1)
          /\ Digit(t, 1) = Digit(u, 1) => Digit(t, 2) >= Digit(u, 2)
          /\ Digit(t, 1) = Digit(u, 1) /\ Digit(t, 2) = Digit(u, 2) => Digit(t, 3) >= Digit(u, 3)
      <4>1. Digit(t, 1) >= Digit(u, 1)
        BY <1>4, <2>4, <3>4
      <4>2. ASSUME Digit(t, 1) = Digit(u, 1) PROVE Digit(t, 2) >= Digit(u, 2)
        BY <1>4, <2>4, <3>4, <3>5, <4>2
      <4>3. ASSUME Digit(t, 1) = Digit(u, 1), Digit(t, 2) = Digit(u, 2) PROVE Digit(t, 3) >= Digit(u, 3)
        BY <1>4, <2>4, <3>4, <3>5, <4>3
      <4>. QED
        BY <4>1, <4>2, <4>3
    <3>7. Ticks(u.second, Digit(u, 1), Digit(u, 2), Digit(u, 3))
             <= Ticks(t.second, Digit(t, 1), Digit(t, 2), Digit(t, 3))
      BY <1>1, <1>4, <2>4, <3>6, DigitsDecide
    <3>. QED
      BY <3>7 DEF Ticks, Instant, TicksPerSecond
  <2>. QED
    BY <1>1, <1>2, <2>2, <2>3, <2>4
<1>. QED
  BY <1>1, <1>5

=============================================================================
