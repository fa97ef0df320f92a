-------------------------- MODULE VerifyBundleProofs --------------------------
(***************************************************************************)
(* What `verify bundle` accepts, for every document, public key            *)
(* infrastructure, repository and command line.  The inductive invariant   *)
(* says what each step that was passed has established; the control part   *)
(* of it says that before the end there is no output.                      *)
(***************************************************************************)
EXTENDS VerifyBundle, AssuranceProofs

AfterLocate == {"judge"}
AfterCompute == {"locate"} \cup AfterLocate
AfterInclusion == {"compute"} \cup AfterCompute
AfterChain == {"inclusion"} \cup AfterInclusion
AfterFind == {"chain"} \cup AfterChain
AfterRoots == {"rekorflag", "find"} \cup AfterFind

\* What LoadTrustRoot, findBundle, VerifyWithTrustRoot, verifyRekorInclusion
\* and buildVerifierContext leave behind.
RootFacts == IF flags.trustRoot # None THEN Whole(flags.trustRoot) ELSE \E t \in 1..2 : Whole(tuf[t])
FindFacts ==
    /\ found \in Attestations /\ found # None /\ ~BadParts
    /\ found \in FirstOf(WithEnvelope)
    /\ \E raw \in CertificatesIn(found) : chain = ParseCertArray(raw)
ContextFacts ==
    \E r \in Repositories :
        context = Merged(ToContextMap(IdentityFromCert(Leaf)), BuildVerifierContext(r, flags.requiredLevel))

PassedFacts == RootFacts /\ FindFacts /\ Signed /\ LoggedAsAsked /\ ContextFacts

\* What is a reason to end without a verdict on the payload.
SignatureFails == NoTrustRoot \/ NoEnvelope \/ (found # None /\ (BadParts \/ ~Signed \/ BadInclusion))
OtherFails ==
    \/ Missing \in {document, flags.trustRoot} \/ flags.rekorRoot = Malformed
    \/ found # None /\ Signed /\ LoggedAsAsked

Facts ==
    /\ document \in Documents
    /\ pc # "done" => output = NoOutput
    /\ pc \in {"readfiles", "loadroot", "target"} => roots = {}
    /\ pc = "loadroot" => flags.trustRoot # Missing
    /\ pc = "target" => flags.trustRoot = None
    /\ pc \in AfterRoots => RootFacts
    /\ pc \in AfterFind => FindFacts
    /\ pc \in AfterChain => Signed
    /\ pc \in AfterInclusion => LoggedAsAsked
    /\ pc \in AfterCompute => ContextFacts
    /\ Accepted => PassedFacts /\ Judge(Payload, context) = {}
    /\ SignatureFailuresAreTold

IInv == TypeOK /\ Facts

-----------------------------------------------------------------------------
(* Verdicts and their codes.                                               *)

LEMMA VerdictCodesAreKnown ==
    ASSUME NEW s, NEW c, OneReading(s) \/ s.secondReading \subseteq PolicyCodes
    PROVE  Judge(s, c) \subseteq ResultCodes /\ "signature_invalid" \notin Judge(s, c)
<1>1. PreSchemaCodes(s) \subseteq ResultCodes \ {"signature_invalid"}
  BY DEF PreSchemaCodes, ResultCodes, When
<1>2. FailureCodes(s, c) \subseteq PolicyCodes
  <2>1. PredicateCodes(s, c) \subseteq PolicyCodes
    BY DEF PredicateCodes, PolicyCodes, When
  <2>2. When("subject_digest_mismatch", SubjectDigestMismatch(s, c)) \subseteq PolicyCodes
    BY DEF PolicyCodes, When
  <2>. QED
    BY <2>1, <2>2 DEF FailureCodes
<1>3. "signature_invalid" \notin PolicyCodes
  BY DEF PolicyCodes
<1>. QED
  BY <1>1, <1>2, <1>3 DEF Judge, ResultCodes

LEMMA NoCodeMeansEveryPhase ==
    ASSUME NEW s, NEW c, Judge(s, c) = {}
    PROVE  /\ PreSchemaCodes(s) = {}
           /\ SchemaValid(s) /\ ContextValid(c) /\ CueValid(s)
           /\ FailureCodes(s, c) = {}
BY DEF Judge

\* The rules a policy-grade statement passes, as far as they are about
\* identity.
LEMMA PolicyGradeIdentity ==
    ASSUME NEW s, NEW c, OneReading(s), SchemaValid(s), FailureCodes(s, c) = {},
           s.verificationLevel # "evidence-grade"
    PROVE  /\ c.verifiedBuilderId # None /\ BuilderId(s) = c.verifiedBuilderId
           /\ c.verifiedWorkflowRef # None /\ WorkflowRef(s) = c.verifiedWorkflowRef
           /\ c.verifiedIssuer # None
           /\ s.declaredIdentity \in {None, c.verifiedSigner}
<1>1. ~BuilderIdentityMismatch(s, c) /\ ~SignerIdentityMismatch(s, c)
  BY CodesAreOfTwoKinds, NoCodeNoDenial
<1>2. PolicyOrHigher(s)
  BY DEF SchemaValid, PolicyOrHigher, Levels, LevelRank
<1>. QED
  BY <1>1, <1>2 DEF BuilderIdentityMismatch, SignerIdentityMismatch

\* The context carries the identity of the certificate whatever
\* buildVerifierContext put there.
LEMMA ContextCarriesIdentity ==
    ASSUME NEW cert, NEW r, NEW level, NEW c,
           c = Merged(ToContextMap(IdentityFromCert(cert)), BuildVerifierContext(r, level))
    PROVE  /\ c.verifiedSigner = Signer(cert)
           /\ c.verifiedIssuer = cert.fulcioIssuer
           /\ c.verifiedBuilderId = IF IsBuilder(cert) THEN Signer(cert) ELSE None
           /\ c.verifiedWorkflowRef = IF IsBuilder(cert) THEN Signer(cert) ELSE None
<1>. DEFINE identity == IdentityFromCert(cert)
            own == ToContextMap(identity)
            other == BuildVerifierContext(r, level)
            fields == {"verifiedSigner", "verifiedIssuer", "verifiedBuilderId", "verifiedWorkflowRef"}
<1>1. DOMAIN identity = fields
  BY DEF IdentityFromCert
<1>2. \A field \in fields : field \in DOMAIN other /\ other[field] = None
  <2>1. \A field \in fields : field \in DOMAIN NothingVerified /\ NothingVerified[field] = None
    BY DEF NothingVerified
  <2>2. \A field \in fields :
           field \notin {"wellFormed", "requiredLevel", "repoUrl", "baseCommit", "subjects"}
    OBVIOUS
  <2>. QED
    BY <2>1, <2>2 DEF BuildVerifierContext, Merged
<1>. HIDE DEF identity, other
<1>3. /\ DOMAIN own = {field \in fields : identity[field] # None}
      /\ \A field \in DOMAIN own : own[field] = identity[field]
  BY <1>1 DEF ToContextMap
<1>. HIDE DEF own
<1>4. \A field \in DOMAIN own \cup DOMAIN other :
         c[field] = IF field \in DOMAIN own THEN own[field] ELSE other[field]
  BY DEF Merged, own, other, identity
<1>5. \A field \in fields : c[field] = identity[field]
  BY <1>2, <1>3, <1>4
<1>. QED
  BY <1>5 DEF identity, IdentityFromCert

-----------------------------------------------------------------------------
(* What stays as long as what it is about stays.                           *)

LEMMA DocumentStays ==
    ASSUME UNCHANGED inputs
    PROVE  /\ Attestations' = Attestations
           /\ FirstOf(WithEnvelope)' = FirstOf(WithEnvelope)
           /\ FirstOf(WithEntries)' = FirstOf(WithEntries)
           /\ WithEntries' = WithEntries
           /\ WithEnvelope' = WithEnvelope
BY DEF inputs, Attestations, FirstOf, WithEnvelope, WithEntries

LEMMA RootsStay == UNCHANGED <<inputs, roots>> /\ RootFacts => RootFacts'
BY DEF inputs, RootFacts, Whole

LEMMA FindStays == UNCHANGED <<inputs, found, chain>> /\ FindFacts => FindFacts'
BY DocumentStays DEF FindFacts, BadParts, CertificatesIn

LEMMA SignedStays == UNCHANGED <<roots, found, chain>> /\ Signed => Signed'
BY DEF Signed, Leaf

LEMMA LoggedStays == UNCHANGED inputs /\ LoggedAsAsked => LoggedAsAsked'
BY DocumentStays DEF LoggedAsAsked, InLog, inputs

LEMMA ContextStays == UNCHANGED <<inputs, chain, context>> /\ ContextFacts => ContextFacts'
BY DEF inputs, ContextFacts, Leaf

-----------------------------------------------------------------------------
(* The invariant.                                                          *)

LEMMA InitEstablishesIInv == Init => IInv
<1>. SUFFICES ASSUME Init PROVE IInv
  OBVIOUS
<1>1. TypeOK
  BY DEF Init, TypeOK, Steps, NoOutput
<1>2. Facts
  BY DEF Init, Facts, Accepted, SignatureFailuresAreTold,
     AfterRoots, AfterFind, AfterChain, AfterInclusion, AfterCompute, AfterLocate
<1>. QED
  BY <1>1, <1>2 DEF IInv

\* A command that ends without a verdict on the payload has told why.
LEMMA FailingKeepsIInv ==
    ASSUME IInv, found' = None \/ found' \in Attestations, target' \in 1..3, UNCHANGED inputs,
           (SignatureFailure /\ SignatureFails') \/ ((Error(1) \/ Error(2)) /\ OtherFails')
    PROVE  IInv'
<1>1. CASE SignatureFailure /\ SignatureFails'
  <2>1. pc' = "done" /\ output'.exit = 1 /\ output'.codes = {"signature_invalid"}
    BY <1>1 DEF SignatureFailure, Report
  <2>2. output'.codes # {} /\ output'.codes # None /\ output'.codes \subseteq ResultCodes
    BY <2>1, BundleAssumption DEF ResultCodes
  <2>3. TypeOK'
    BY <2>1, <2>2, DocumentStays DEF IInv, TypeOK, inputs, Steps
  <2>4. SignatureFailuresAreTold'
    BY <1>1, <2>1, <2>2 DEF SignatureFailuresAreTold, SignatureFails
  <2>. QED
    BY <2>1, <2>2, <2>3, <2>4
    DEF IInv, Facts, Accepted, inputs, AfterRoots, AfterFind, AfterChain, AfterInclusion, AfterCompute, AfterLocate
<1>2. CASE (Error(1) \/ Error(2)) /\ OtherFails'
  <2>1. pc' = "done" /\ output'.exit \in {1, 2} /\ output'.codes = None
    BY <1>2 DEF Error
  <2>2. None # {} /\ None # {"signature_invalid"}
    BY BundleAssumption DEF ResultCodes
  <2>3. TypeOK'
    BY <2>1, DocumentStays DEF IInv, TypeOK, inputs, Steps
  <2>4. SignatureFailuresAreTold'
    BY <1>2, <2>1, <2>2 DEF SignatureFailuresAreTold, OtherFails
  <2>. QED
    BY <2>1, <2>2, <2>3, <2>4
    DEF IInv, Facts, Accepted, inputs, AfterRoots, AfterFind, AfterChain, AfterInclusion, AfterCompute, AfterLocate
<1>. QED
  BY <1>1, <1>2

\* A step that goes on keeps the types, and has nothing to show yet.
GoesOn ==
    /\ TypeOK /\ document \in Documents /\ output = NoOutput
    /\ ~Accepted /\ SignatureFailuresAreTold

LEMMA GoingOnKeepsTypes ==
    ASSUME IInv, NEW step, step \in Steps \ {"done"}, Goto(step), pc # "done",
           found' = None \/ found' \in Attestations, target' \in 1..3, UNCHANGED inputs
    PROVE  GoesOn'
<1>1. TypeOK'
  BY DocumentStays DEF Goto, IInv, Facts, TypeOK, inputs, NoOutput
<1>. QED
  BY <1>1 DEF GoesOn, Goto, IInv, Facts, inputs, Accepted, SignatureFailuresAreTold

LEMMA ReadFilesKeepsIInv == IInv /\ ReadFiles => IInv'
<1>. SUFFICES ASSUME IInv, ReadFiles PROVE IInv'
  OBVIOUS
<1>1. /\ UNCHANGED <<inputs, target, found, roots>> /\ pc = "readfiles"
      /\ found' = None \/ found' \in Attestations
      /\ target' \in 1..3
      /\ roots = {}
  BY DocumentStays DEF ReadFiles, IInv, TypeOK, Facts
<1>2. CASE Goto("loadroot") /\ flags.trustRoot # Missing
  <2>1. GoesOn'
    BY <1>1, <1>2, GoingOnKeepsTypes DEF Steps
  <2>. QED
    BY <1>1, <1>2, <2>1
    DEF GoesOn, inputs, IInv, Facts, Goto, AfterRoots, AfterFind, AfterChain, AfterInclusion, AfterCompute, AfterLocate
<1>3. CASE Error(1) /\ (document = Missing \/ flags.trustRoot = Missing)
  <2>1. OtherFails'
    BY <1>1, <1>3 DEF OtherFails, inputs
  <2>. QED
    BY <1>1, <1>3, <2>1, FailingKeepsIInv
<1>4. CASE SignatureFailure
  <2>1. SignatureFails'
    BY <1>1 DEF SignatureFails, NoTrustRoot
  <2>. QED
    BY <1>1, <1>4, <2>1, FailingKeepsIInv
<1>. QED
  BY <1>2, <1>3, <1>4 DEF ReadFiles

\* ParseCertificates gives all certificates of the source, or nothing.
LEMMA ParsedIsWhole ==
    ASSUME NEW source, source # Missing, ParseCertificates(source) # {}
    PROVE  Malformed \notin source /\ ParseCertificates(source) = Certificates(source)
BY DEF ParseCertificates, Certificates

LEMMA LoadExplicitRootKeepsIInv == IInv /\ LoadExplicitRoot => IInv'
<1>. SUFFICES ASSUME IInv, LoadExplicitRoot PROVE IInv'
  OBVIOUS
<1>1. /\ UNCHANGED <<inputs, target, found>> /\ pc = "loadroot"
      /\ found' = None \/ found' \in Attestations
      /\ target' \in 1..3
  BY DocumentStays DEF LoadExplicitRoot, IInv, TypeOK
<1>2. CASE Goto("rekorflag") /\ roots' # {}
  <2>1. GoesOn'
    BY <1>1, <1>2, GoingOnKeepsTypes DEF Steps
  <2>2. RootFacts'
    BY <1>1, <1>2, ParsedIsWhole DEF LoadExplicitRoot, RootFacts, Whole, inputs, IInv, Facts
  <2>. QED
    BY <1>2, <2>1, <2>2
    DEF GoesOn, IInv, Facts, Goto, AfterRoots, AfterFind, AfterChain, AfterInclusion, AfterCompute, AfterLocate
<1>3. CASE SignatureFailure /\ roots' = {}
  <2>1. SignatureFails'
    BY <1>3 DEF SignatureFails, NoTrustRoot
  <2>. QED
    BY <1>1, <1>3, <2>1, FailingKeepsIInv
<1>. QED
  BY <1>2, <1>3 DEF LoadExplicitRoot

LEMMA RefreshTufKeepsIInv == IInv /\ RefreshTuf => IInv'
<1>. SUFFICES ASSUME IInv, RefreshTuf PROVE IInv'
  OBVIOUS
<1>1. /\ UNCHANGED <<inputs, target, found, roots>> /\ pc = "loadroot" /\ flags.trustRoot = None
      /\ found' = None \/ found' \in Attestations
      /\ target' \in 1..3
      /\ roots = {}
  BY DocumentStays DEF RefreshTuf, IInv, TypeOK, Facts
<1>2. CASE Goto("target")
  <2>1. GoesOn'
    BY <1>1, <1>2, GoingOnKeepsTypes DEF Steps
  <2>. QED
    BY <1>1, <1>2, <2>1
    DEF GoesOn, inputs, IInv, Facts, Goto, AfterRoots, AfterFind, AfterChain, AfterInclusion, AfterCompute, AfterLocate
<1>3. CASE SignatureFailure
  <2>1. SignatureFails'
    BY <1>1 DEF SignatureFails, NoTrustRoot
  <2>. QED
    BY <1>1, <1>3, <2>1, FailingKeepsIInv
<1>. QED
  BY <1>2, <1>3 DEF RefreshTuf

\* The only step that takes roots from the network: no file was named.
LEMMA FetchTargetKeepsIInv == IInv /\ FetchTarget => IInv'
<1>. SUFFICES ASSUME IInv, FetchTarget PROVE IInv'
  OBVIOUS
<1>1. /\ UNCHANGED <<inputs, found>> /\ pc = "target" /\ flags.trustRoot = None
      /\ found' = None \/ found' \in Attestations
      /\ target \in 1..2 /\ target' \in 1..3
      /\ roots = {}
  BY DocumentStays DEF FetchTarget, IInv, TypeOK, Facts
<1>2. CASE /\ tuf[target] # Missing /\ Goto("rekorflag")
           /\ roots' = ParseCertificates(tuf[target]) /\ roots' # {}
  <2>1. GoesOn'
    BY <1>1, <1>2, GoingOnKeepsTypes DEF Steps
  <2>2. Malformed \notin tuf[target] /\ roots' = Certificates(tuf[target])
    BY <1>2, ParsedIsWhole
  <2>3. RootFacts'
    BY <1>1, <1>2, <2>2 DEF RootFacts, Whole, inputs
  <2>. QED
    BY <1>2, <2>1, <2>3
    DEF GoesOn, IInv, Facts, Goto, AfterRoots, AfterFind, AfterChain, AfterInclusion, AfterCompute, AfterLocate
<1>3. CASE UNCHANGED <<pc, output, roots>>
  <2>1. Goto("target")
    BY <1>1, <1>3 DEF Goto
  <2>2. GoesOn'
    BY <1>1, <2>1, GoingOnKeepsTypes DEF Steps
  <2>. QED
    BY <1>1, <1>3, <2>1, <2>2
    DEF GoesOn, inputs, IInv, Facts, Goto, AfterRoots, AfterFind, AfterChain, AfterInclusion, AfterCompute, AfterLocate
<1>. QED
  BY <1>2, <1>3 DEF FetchTarget

LEMMA NoTargetLeftKeepsIInv == IInv /\ NoTargetLeft => IInv'
<1>. SUFFICES ASSUME IInv, NoTargetLeft PROVE IInv'
  OBVIOUS
<1>1. /\ UNCHANGED <<inputs, target, found, roots>>
      /\ found' = None \/ found' \in Attestations
      /\ target' \in 1..3
      /\ roots = {} /\ SignatureFailure
  BY DocumentStays DEF NoTargetLeft, IInv, TypeOK, Facts
<1>2. SignatureFails'
  BY <1>1 DEF SignatureFails, NoTrustRoot
<1>. QED
  BY <1>1, <1>2, FailingKeepsIInv

LEMMA DecodeRekorRootKeepsIInv == IInv /\ DecodeRekorRoot => IInv'
<1>. SUFFICES ASSUME IInv, DecodeRekorRoot PROVE IInv'
  OBVIOUS
<1>1. /\ UNCHANGED <<inputs, roots, target, found>> /\ pc = "rekorflag"
      /\ found' = None \/ found' \in Attestations
      /\ target' \in 1..3
  BY DocumentStays DEF DecodeRekorRoot, IInv, TypeOK
<1>2. CASE Goto("find")
  <2>1. GoesOn'
    BY <1>1, <1>2, GoingOnKeepsTypes DEF Steps
  <2>2. RootFacts'
    BY <1>1, RootsStay DEF IInv, Facts, AfterRoots
  <2>. QED
    BY <1>2, <2>1, <2>2
    DEF GoesOn, IInv, Facts, Goto, AfterRoots, AfterFind, AfterChain, AfterInclusion, AfterCompute, AfterLocate
<1>3. CASE Error(2) /\ flags.rekorRoot = Malformed
  <2>1. OtherFails'
    BY <1>1, <1>3 DEF OtherFails, inputs
  <2>. QED
    BY <1>1, <1>3, <2>1, FailingKeepsIInv
<1>. QED
  BY <1>2, <1>3 DEF DecodeRekorRoot

LEMMA AttestationsAreThere ==
    ASSUME document \in Documents
    PROVE  None \notin Attestations
BY BundleAssumption DEF Attestations

LEMMA FindBundleKeepsIInv == IInv /\ FindBundle => IInv'
<1>. SUFFICES ASSUME IInv, FindBundle PROVE IInv'
  OBVIOUS
<1>1. FirstOf(WithEnvelope) \subseteq Attestations
  BY DEF FirstOf, WithEnvelope
<1>2. None \notin Attestations
  BY AttestationsAreThere DEF IInv, Facts
<1>3. /\ UNCHANGED <<inputs, roots, target>> /\ pc = "find"
      /\ target' \in 1..3
  BY DEF FindBundle, IInv, TypeOK
<1>4. CASE /\ Goto("chain") /\ found' \in FirstOf(WithEnvelope) /\ ~BadParts'
           /\ \E raw \in CertificatesIn(found') : chain' = ParseCertArray(raw)
  <2>1. GoesOn'
    BY <1>1, <1>3, <1>4, GoingOnKeepsTypes DEF Steps
  <2>2. RootFacts'
    BY <1>3, RootsStay DEF IInv, Facts, AfterRoots
  <2>3. FindFacts'
    BY <1>1, <1>2, <1>3, <1>4, DocumentStays DEF FindFacts, CertificatesIn
  <2>. QED
    BY <1>4, <2>1, <2>2, <2>3
    DEF GoesOn, IInv, Facts, Goto, AfterRoots, AfterFind, AfterChain, AfterInclusion, AfterCompute, AfterLocate
<1>5. CASE FirstOf(WithEnvelope) = {} /\ SignatureFailure /\ UNCHANGED <<found, chain>>
  <2>1. SignatureFails'
    BY <1>3, <1>5, DocumentStays DEF SignatureFails, NoEnvelope
  <2>2. found' = None \/ found' \in Attestations
    BY <1>5 DEF IInv, TypeOK
  <2>. QED
    BY <1>3, <1>5, <2>1, <2>2, FailingKeepsIInv
<1>6. CASE /\ found' \in Attestations /\ SignatureFailure
           /\ found'.envelope = Malformed \/ chain' \in {Malformed, <<>>}
  <2>1. SignatureFails'
    BY <1>2, <1>6 DEF SignatureFails, BadParts
  <2>. QED
    BY <1>3, <1>6, <2>1, FailingKeepsIInv
<1>7. CASE \E a \in FirstOf(WithEnvelope) : \E raw \in CertificatesIn(a) :
             /\ found' = a
             /\ chain' = ParseCertArray(raw)
             /\ IF a.envelope = Malformed \/ chain' \in {Malformed, <<>>}
                THEN SignatureFailure
                ELSE Goto("chain")
  <2>1. found' \in FirstOf(WithEnvelope) /\ \E raw \in CertificatesIn(found') : chain' = ParseCertArray(raw)
    BY <1>7, ZenonT(30)
  <2>2. IF found'.envelope = Malformed \/ chain' \in {Malformed, <<>>} THEN SignatureFailure ELSE Goto("chain")
    BY <1>7, ZenonT(30)
  <2>. QED
    BY <1>1, <1>4, <1>6, <2>1, <2>2 DEF BadParts
<1>. QED
  BY <1>5, <1>7 DEF FindBundle

LEMMA VerifyWithTrustRootKeepsIInv == IInv /\ VerifyWithTrustRoot => IInv'
<1>. SUFFICES ASSUME IInv, VerifyWithTrustRoot PROVE IInv'
  OBVIOUS
<1>1. /\ UNCHANGED <<inputs, roots, target, found, chain>> /\ pc = "chain"
      /\ found' = None \/ found' \in Attestations
      /\ target' \in 1..3
      /\ FindFacts
  BY DocumentStays DEF VerifyWithTrustRoot, IInv, TypeOK, Facts, AfterFind
<1>2. CASE Goto("inclusion") /\ Signed
  <2>1. GoesOn'
    BY <1>1, <1>2, GoingOnKeepsTypes DEF Steps
  <2>2. RootFacts'
    BY <1>1, RootsStay DEF IInv, Facts, AfterRoots, AfterFind
  <2>3. FindFacts' /\ Signed'
    BY <1>1, <1>2, FindStays, SignedStays
  <2>. QED
    BY <1>2, <2>1, <2>2, <2>3
    DEF GoesOn, IInv, Facts, Goto, AfterRoots, AfterFind, AfterChain, AfterInclusion, AfterCompute, AfterLocate
<1>3. CASE SignatureFailure /\ ~Signed
  <2>1. ~Signed' /\ found' # None
    BY <1>1, <1>3 DEF Signed, Leaf, FindFacts
  <2>2. SignatureFails'
    BY <2>1 DEF SignatureFails
  <2>. QED
    BY <1>1, <1>3, <2>2, FailingKeepsIInv
<1>. QED
  BY <1>2, <1>3 DEF VerifyWithTrustRoot, Signed, Leaf

\* The proof that lets the step through may be of another attestation; it is
\* one of the document's.
LEMMA ProvedIsInLog ==
    ASSUME NEW entry, entry # Malformed, NEW index, NEW size, VerifyInclusion(entry, index, size),
           flags.rekorRoot \in {None, entry.root}
    PROVE  InLog(entry)
BY DEF VerifyInclusion, InLog

LEMMA VerifyRekorInclusionKeepsIInv == IInv /\ VerifyRekorInclusion => IInv'
<1>. SUFFICES ASSUME IInv, VerifyRekorInclusion PROVE IInv'
  OBVIOUS
<1>1. /\ UNCHANGED <<inputs, roots, target, found, chain>> /\ pc = "inclusion"
      /\ found' = None \/ found' \in Attestations
      /\ target' \in 1..3
      /\ FindFacts
  BY DocumentStays DEF VerifyRekorInclusion, IInv, TypeOK, Facts, AfterFind, AfterChain
<1>2. CASE Goto("compute") /\ LoggedAsAsked
  <2>1. GoesOn'
    BY <1>1, <1>2, GoingOnKeepsTypes DEF Steps
  <2>2. RootFacts' /\ Signed'
    BY <1>1, RootsStay, SignedStays DEF IInv, Facts, AfterRoots, AfterFind, AfterChain
  <2>3. FindFacts' /\ LoggedAsAsked'
    BY <1>1, <1>2, FindStays, LoggedStays
  <2>. QED
    BY <1>2, <2>1, <2>2, <2>3
    DEF GoesOn, IInv, Facts, Goto, AfterRoots, AfterFind, AfterChain, AfterInclusion, AfterCompute, AfterLocate
<1>3. CASE SignatureFailure /\ BadInclusion
  <2>1. BadInclusion' /\ found' # None
    BY <1>1, <1>3, DocumentStays DEF BadInclusion, FindFacts, inputs
  <2>2. SignatureFails'
    BY <2>1 DEF SignatureFails
  <2>. QED
    BY <1>1, <1>3, <2>2, FailingKeepsIInv
<1>4. FirstOf(WithEntries) \subseteq WithEntries
  BY DEF FirstOf
<1>5. CASE /\ FirstOf(WithEntries) = {}
           /\ IF flags.requireInclusion THEN SignatureFailure ELSE Goto("compute")
  BY <1>2, <1>3, <1>5 DEF LoggedAsAsked, BadInclusion
<1>6. ASSUME NEW a \in FirstOf(WithEntries), a.inclusion = Malformed,
             IF flags.requireInclusion THEN SignatureFailure ELSE Goto("compute")
      PROVE  IInv'
  BY <1>2, <1>3, <1>6 DEF LoggedAsAsked, BadInclusion
<1>7. ASSUME NEW a \in FirstOf(WithEntries), a.inclusion # Malformed,
             NEW index \in ParseUint(a.inclusion.logIndex), NEW size \in ParseUint(a.inclusion.treeSize),
             IF VerifyInclusion(a.inclusion, index, size) /\ flags.rekorRoot \in {None, a.inclusion.root}
             THEN Goto("compute")
             ELSE SignatureFailure
      PROVE  IInv'
  <2>1. CASE VerifyInclusion(a.inclusion, index, size) /\ flags.rekorRoot \in {None, a.inclusion.root}
    <3>1. InLog(a.inclusion)
      BY <1>7, <2>1, ProvedIsInLog
    <3>2. LoggedAsAsked
      BY <1>4, <3>1 DEF LoggedAsAsked
    <3>. QED
      BY <1>2, <1>7, <2>1, <3>2
  <2>2. CASE ~(VerifyInclusion(a.inclusion, index, size) /\ flags.rekorRoot \in {None, a.inclusion.root})
    <3>1. BadInclusion
      BY <1>7, <2>2 DEF BadInclusion
    <3>. QED
      BY <1>3, <1>7, <2>2, <3>1
  <2>. QED
    BY <2>1, <2>2
<1>. QED
  BY <1>5, <1>6, <1>7 DEF VerifyRekorInclusion

\* The error may come from git; the context is set only when the step goes on.
LEMMA ComputeKeepsIInv == IInv /\ Compute => IInv'
<1>. SUFFICES ASSUME IInv, Compute PROVE IInv'
  OBVIOUS
<1>1. /\ UNCHANGED <<inputs, roots, target, found, chain>> /\ pc = "compute"
      /\ found' = None \/ found' \in Attestations
      /\ target' \in 1..3
  BY DocumentStays DEF Compute, IInv, TypeOK
<1>2. RootFacts' /\ FindFacts' /\ Signed' /\ LoggedAsAsked'
  BY <1>1, RootsStay, FindStays, SignedStays, LoggedStays
  DEF IInv, Facts, AfterRoots, AfterFind, AfterChain, AfterInclusion
<1>3. CASE /\ Goto("locate")
           /\ \E r \in Repositories :
                 context' = Merged(ToContextMap(IdentityFromCert(Leaf)), BuildVerifierContext(r, flags.requiredLevel))
  <2>1. GoesOn'
    BY <1>1, <1>3, GoingOnKeepsTypes DEF Steps
  <2>2. ContextFacts'
    BY <1>1, <1>3 DEF ContextFacts, Leaf, inputs
  <2>. QED
    BY <1>2, <1>3, <2>1, <2>2
    DEF GoesOn, IInv, Facts, Goto, AfterRoots, AfterFind, AfterChain, AfterInclusion, AfterCompute, AfterLocate
<1>4. CASE Error(1)
  <2>1. OtherFails'
    BY <1>2 DEF OtherFails, FindFacts
  <2>. QED
    BY <1>1, <1>4, <2>1, FailingKeepsIInv
<1>. QED
  BY <1>3, <1>4 DEF Compute, Leaf

LEMMA LocateKeepsIInv == IInv /\ Locate => IInv'
<1>. SUFFICES ASSUME IInv, Locate PROVE IInv'
  OBVIOUS
<1>1. /\ UNCHANGED <<inputs, roots, target, found, chain, context>> /\ pc = "locate"
      /\ found' = None \/ found' \in Attestations
      /\ target' \in 1..3
  BY DocumentStays DEF Locate, IInv, TypeOK
<1>2. RootFacts' /\ FindFacts' /\ Signed' /\ LoggedAsAsked' /\ ContextFacts'
  BY <1>1, RootsStay, FindStays, SignedStays, LoggedStays, ContextStays
  DEF IInv, Facts, AfterRoots, AfterFind, AfterChain, AfterInclusion, AfterCompute
<1>3. CASE Goto("judge")
  <2>1. GoesOn'
    BY <1>1, <1>3, GoingOnKeepsTypes DEF Steps
  <2>. QED
    BY <1>2, <1>3, <2>1
    DEF GoesOn, IInv, Facts, Goto, AfterRoots, AfterFind, AfterChain, AfterInclusion, AfterCompute, AfterLocate
<1>4. CASE Error(1)
  <2>1. OtherFails'
    BY <1>2 DEF OtherFails, FindFacts
  <2>. QED
    BY <1>1, <1>4, <2>1, FailingKeepsIInv
<1>. QED
  BY <1>3, <1>4 DEF Locate

\* The only step that may accept: everything before it has been established.
LEMMA VerifyPayloadKeepsIInv == IInv /\ VerifyPayload => IInv'
<1>. SUFFICES ASSUME IInv, VerifyPayload PROVE IInv'
  OBVIOUS
<1>. DEFINE codes == Judge(Payload, context)
<1>1. /\ UNCHANGED <<inputs, roots, target, found, chain, context>> /\ pc = "judge"
      /\ pc' = "done"
      /\ output'.exit = (IF codes = {} THEN 0 ELSE 1) /\ output'.codes = codes
  BY DEF VerifyPayload, Report, Payload
<1>2. codes \subseteq ResultCodes /\ "signature_invalid" \notin codes
  <2>1. found \in Attestations /\ found.envelope \notin {None, Malformed} /\ document \in Documents
    BY DEF VerifyPayload, IInv, Facts, FindFacts, BadParts, FirstOf, WithEnvelope,
       AfterFind, AfterChain, AfterInclusion, AfterCompute, AfterLocate
  <2>2. document \notin {Missing, Malformed} /\ \E i \in DOMAIN document : found \in document[i]
    BY <2>1 DEF Attestations
  <2>3. OneReading(Payload) \/ Payload.secondReading \subseteq PolicyCodes
    BY <2>1, <2>2, BundleAssumption DEF Payload
  <2>. QED
    BY <2>3, VerdictCodesAreKnown
<1>3. Judge(Payload, context)' = codes
  BY <1>1 DEF Payload
<1>. HIDE DEF codes
<1>4. TypeOK'
  BY <1>1, <1>2, DocumentStays DEF IInv, TypeOK, Steps, inputs
<1>5. PassedFacts'
  BY <1>1, RootsStay, FindStays, SignedStays, LoggedStays, ContextStays
  DEF PassedFacts, IInv, Facts, AfterRoots, AfterFind, AfterChain, AfterInclusion, AfterCompute, AfterLocate
<1>6. SignatureFailuresAreTold'
  <2>1. codes # None /\ codes # {"signature_invalid"}
    BY <1>2, BundleAssumption
  <2>. QED
    BY <1>1, <2>1 DEF SignatureFailuresAreTold
<1>7. Accepted' => Judge(Payload, context)' = {}
  BY <1>1, <1>3 DEF Accepted
<1>. QED
  BY <1>1, <1>4, <1>5, <1>6, <1>7
  DEF IInv, Facts, inputs, AfterRoots, AfterFind, AfterChain, AfterInclusion, AfterCompute, AfterLocate

LEMMA StutteringKeepsIInv == IInv /\ UNCHANGED vars => IInv'
<1>. SUFFICES ASSUME IInv, UNCHANGED vars PROVE IInv'
  OBVIOUS
<1>1. UNCHANGED <<inputs, pc, roots, target, found, chain, context, output>>
  BY DEF vars, inputs
<1>2. TypeOK'
  BY <1>1, DocumentStays DEF IInv, TypeOK, inputs
<1>3. SignatureFailuresAreTold'
  <2>1. /\ NoTrustRoot' <=> NoTrustRoot
        /\ NoEnvelope' <=> NoEnvelope
        /\ BadParts' <=> BadParts
        /\ BadInclusion' <=> BadInclusion
    BY <1>1, DocumentStays DEF NoTrustRoot, NoEnvelope, BadParts, BadInclusion, inputs
  <2>2. /\ Signed' <=> Signed
        /\ LoggedAsAsked' <=> LoggedAsAsked
    BY <1>1, DocumentStays DEF Signed, Leaf, LoggedAsAsked, InLog, inputs
  <2>. QED
    BY <1>1, <2>1, <2>2 DEF IInv, Facts, SignatureFailuresAreTold, inputs
<1>4. PassedFacts => PassedFacts'
  BY <1>1, RootsStay, FindStays, SignedStays, LoggedStays, ContextStays DEF PassedFacts
<1>5. Accepted' /\ Judge(Payload, context) = {} => Judge(Payload, context)' = {}
  BY <1>1 DEF Payload
<1>6. Accepted' => Accepted
  BY <1>1 DEF Accepted
<1>. QED
  BY <1>1, <1>2, <1>3, <1>4, <1>5, <1>6, RootsStay, FindStays, SignedStays, LoggedStays, ContextStays
  DEF IInv, Facts, inputs

LEMMA IInvInductive == IInv /\ [Next]_vars => IInv'
BY StutteringKeepsIInv, ReadFilesKeepsIInv, LoadExplicitRootKeepsIInv, RefreshTufKeepsIInv, FetchTargetKeepsIInv,
   NoTargetLeftKeepsIInv, DecodeRekorRootKeepsIInv, FindBundleKeepsIInv, VerifyWithTrustRootKeepsIInv,
   VerifyRekorInclusionKeepsIInv, ComputeKeepsIInv, LocateKeepsIInv, VerifyPayloadKeepsIInv DEF Next

LEMMA IInvInvariant == Spec => []IInv
<1>. QED
  BY InitEstablishesIInv, IInvInductive, PTL DEF Spec

-----------------------------------------------------------------------------
(* What acceptance means.                                                  *)

\* The type invariant of the command.
THEOREM TypeCorrect == Spec => []TypeOK
<1>1. IInv => TypeOK
  BY DEF IInv
<1>. QED
  BY <1>1, IInvInvariant, PTL

\* The payload of an accepted bundle is the first envelope's of the document,
\* it was signed with the leaf of a chain that stands beside that envelope, the
\* chain ends in the roots asked for, and the verifier context names that leaf
\* (bundle.go:32-105, signing.go:247-287, context_summary.go:243-284).
THEOREM AcceptanceRestsOnTheTrustRoot == Spec => []AcceptedIdentityIsTrusted
<1>1. IInv => AcceptedIdentityIsTrusted
  BY ContextCarriesIdentity
  DEF IInv, Facts, PassedFacts, RootFacts, FindFacts, BadParts, ContextFacts, AcceptedIdentityIsTrusted
<1>. QED
  BY <1>1, IInvInvariant, PTL

\* Above evidence grade the statement's builder and workflow are the GitHub
\* workflow of the certificate (signing.go:195-225 with the policy's rules).
THEOREM BuilderIsTheSigningWorkflow == Spec => []PolicyGradeIsTheSigningWorkflow
<1>1. IInv => PolicyGradeIsTheSigningWorkflow
  <2>. SUFFICES ASSUME IInv, Accepted, OneReading(Payload), Payload.verificationLevel # "evidence-grade"
                PROVE  /\ Leaf.uris # <<>> /\ Leaf.uris[1] \in WorkflowRefs /\ Leaf.fulcioIssuer # None
                       /\ Payload.builder.id = Leaf.uris[1]
                       /\ Payload.builder.workflowRef = Leaf.uris[1]
                       /\ Payload.declaredIdentity \in {None, Leaf.uris[1]}
    BY DEF PolicyGradeIsTheSigningWorkflow
  <2>1. SchemaValid(Payload) /\ FailureCodes(Payload, context) = {}
    BY NoCodeMeansEveryPhase DEF IInv, Facts
  <2>2. /\ context.verifiedSigner = Signer(Leaf)
        /\ context.verifiedIssuer = Leaf.fulcioIssuer
        /\ context.verifiedBuilderId = IF IsBuilder(Leaf) THEN Signer(Leaf) ELSE None
        /\ context.verifiedWorkflowRef = IF IsBuilder(Leaf) THEN Signer(Leaf) ELSE None
    BY ContextCarriesIdentity DEF IInv, Facts, PassedFacts, ContextFacts
  <2>3. /\ context.verifiedBuilderId # None /\ BuilderId(Payload) = context.verifiedBuilderId
        /\ context.verifiedWorkflowRef # None /\ WorkflowRef(Payload) = context.verifiedWorkflowRef
        /\ context.verifiedIssuer # None
        /\ Payload.declaredIdentity \in {None, context.verifiedSigner}
    BY <2>1, PolicyGradeIdentity
  <2>. QED
    BY <2>2, <2>3 DEF BuilderId, WorkflowRef, IsBuilder, Signer
<1>. QED
  BY <1>1, IInvInvariant, PTL

\* The context the command builds is enough for the promise of the level.
THEOREM AcceptedBundlesAreAssured == Spec => []AcceptedIsAssured
<1>1. IInv => AcceptedIsAssured
  BY NoCodeMeansEveryPhase, PhasesAssure DEF IInv, Facts, AcceptedIsAssured
<1>. QED
  BY <1>1, IInvInvariant, PTL

\* A command that says neither an error nor a failed signature says what
\* verify.Predicate says of the payload (context_summary.go:296).
SaysTheVerdict ==
    pc = "done" /\ output.codes \notin {None, {"signature_invalid"}} => output.codes = Judge(Payload, context)

LEMMA OnlyTheVerdictIsSaid == Spec => []SaysTheVerdict
<1>1. Init => SaysTheVerdict
  BY DEF Init, SaysTheVerdict
<1>2. SaysTheVerdict /\ [Next]_vars => SaysTheVerdict'
  <2>. SUFFICES ASSUME SaysTheVerdict, [Next]_vars PROVE SaysTheVerdict'
    OBVIOUS
  <2>1. CASE VerifyPayload
    BY <2>1 DEF VerifyPayload, Report, Payload, SaysTheVerdict
  <2>2. CASE UNCHANGED vars
    BY <2>2 DEF vars, Payload, SaysTheVerdict
  <2>3. CASE ~VerifyPayload /\ ~UNCHANGED vars
    <3>1. pc' # "done" \/ output'.codes \in {None, {"signature_invalid"}}
      BY <2>3 DEF Next, ReadFiles, LoadExplicitRoot, RefreshTuf, FetchTarget, NoTargetLeft, DecodeRekorRoot, FindBundle,
         VerifyWithTrustRoot, VerifyRekorInclusion, Compute, Locate, Goto, Error, Report, SignatureFailure
    <3>. QED
      BY <3>1 DEF SaysTheVerdict
  <2>. QED
    BY <2>1, <2>2, <2>3
<1>. QED
  BY <1>1, <1>2, PTL DEF Spec

\* What passes the signature layer is accepted exactly when it is justified
\* under its signer's context (context_summary.go:276-304, verify.go:27-92).
THEOREM BundlesAreJudgedExactly == Spec => []JudgedExactly
<1>1. SaysTheVerdict => JudgedExactly
  BY EmptyVerdictsAreJustified DEF SaysTheVerdict, JudgedExactly
<1>. QED
  BY <1>1, OnlyTheVerdictIsSaid, PTL

\* The lists the command has no source for are empty in its context.
LEMMA ContextVerifiesNothingElse ==
    ASSUME NEW cert, NEW r, NEW level, NEW c,
           c = Merged(ToContextMap(IdentityFromCert(cert)), BuildVerifierContext(r, level))
    PROVE  /\ c.verifiedWitnesses = {} /\ c.allowedIsolatedRunners = {}
           /\ c.verifiedMcpServers = {} /\ c.verifiedDelegation = {}
<1>. DEFINE own == ToContextMap(IdentityFromCert(cert))
            other == BuildVerifierContext(r, level)
            fields == {"verifiedWitnesses", "allowedIsolatedRunners", "verifiedMcpServers", "verifiedDelegation"}
<1>1. fields \cap DOMAIN own = {}
  BY DEF ToContextMap, IdentityFromCert
<1>2. \A field \in fields : field \in DOMAIN other /\ other[field] = {}
  <2>1. \A field \in fields : field \in DOMAIN NothingVerified /\ NothingVerified[field] = {}
    BY DEF NothingVerified
  <2>2. \A field \in fields :
           field \notin {"wellFormed", "requiredLevel", "repoUrl", "baseCommit", "subjects"}
    OBVIOUS
  <2>. QED
    BY <2>1, <2>2 DEF BuildVerifierContext, Merged
<1>3. \A field \in DOMAIN own \cup DOMAIN other :
         c[field] = IF field \in DOMAIN own THEN own[field] ELSE other[field]
  <2>. HIDE DEF own, other
  <2>. QED
    BY DEF Merged, own, other
<1>. HIDE DEF own, other
<1>4. \A field \in fields : c[field] = {}
  BY <1>1, <1>2, <1>3
<1>. QED
  BY <1>4

\* An accepted statement names no witness, and above evidence grade no server
\* and no delegate; none is high assurance (context_summary.go:281-284 with the
\* policy's rules).
THEOREM NothingIsAcceptedUnverified == Spec => []NothingUnverifiedIsNamed
<1>1. IInv => NothingUnverifiedIsNamed
  <2>. SUFFICES ASSUME IInv, Accepted, OneReading(Payload)
                PROVE  /\ Payload.verificationLevel # "high-assurance"
                       /\ Payload.witnesses = {}
                       /\ Payload.verificationLevel # "evidence-grade" =>
                             Payload.mcpServers = {} /\ Payload.delegation = {}
    BY DEF NothingUnverifiedIsNamed
  <2>1. Judge(Payload, context) = {} /\ ContextFacts
    BY DEF IInv, Facts, PassedFacts
  <2>2. /\ context.verifiedWitnesses = {} /\ context.allowedIsolatedRunners = {}
        /\ context.verifiedMcpServers = {} /\ context.verifiedDelegation = {}
    BY <2>1, ContextVerifiesNothingElse DEF ContextFacts
  <2>3. SchemaValid(Payload) /\ PredicateCodes(Payload, context) = {}
    BY <2>1, NoCodeMeansEveryPhase, CodesAreOfTwoKinds
  <2>4. LevelKept(Payload, context)
    BY <2>1, NoCodeMeansEveryPhase, PhasesAssure DEF Assured
  <2>5. Payload.witnesses = {}
    BY <2>2, <2>3, NoCodeNoDenial DEF TransparencyVerificationFailed
  <2>6. Payload.verificationLevel # "high-assurance"
    BY <2>2, <2>4 DEF LevelKept, HighAssurance
  <2>7. CASE Payload.verificationLevel # "evidence-grade"
    <3>1. Payload.verificationLevel = "policy-grade"
      BY <2>3, <2>6, <2>7 DEF SchemaValid, Levels
    <3>. QED
      BY <2>2, <2>4, <2>5, <2>6, <3>1 DEF LevelKept, PolicyGrade
  <2>. QED
    BY <2>5, <2>6, <2>7
<1>. QED
  BY <1>1, IInvInvariant, PTL

\* What is accepted has its log entry as asked, and no proof was passed over
\* (rekor.go:31-98).
THEOREM InclusionIsNotWaived == Spec => []InclusionAsAsked
<1>1. IInv => InclusionAsAsked
  BY DEF IInv, Facts, PassedFacts, InclusionAsAsked
<1>. QED
  BY <1>1, IInvInvariant, PTL

\* A failure of the signature layer, and no other, is told as one
\* (context_summary.go:238-318).
THEOREM FailuresOfTheSignatureLayerAreTold == Spec => []SignatureFailuresAreTold
<1>1. IInv => SignatureFailuresAreTold
  BY DEF IInv, Facts
<1>. QED
  BY <1>1, IInvInvariant, PTL

-----------------------------------------------------------------------------
(* The refinement.                                                         *)

\* One step finds the payload; none after it changes what was submitted.
LEMMA FoundOnce ==
    ASSUME [Next]_vars
    PROVE  /\ ~FindBundle => UNCHANGED <<found, chain>>
           /\ ~Compute => UNCHANGED context
           /\ pc = "done" => UNCHANGED vars
BY DEF Next, vars, ReadFiles, LoadExplicitRoot, RefreshTuf, FetchTarget, NoTargetLeft, DecodeRekorRoot, FindBundle,
   VerifyWithTrustRoot, VerifyRekorInclusion, Compute, Locate, VerifyPayload

\* Before it nothing is.
NotYetFound == pc \in {"readfiles", "loadroot", "target", "rekorflag", "find"} => found = None

LEMMA NothingFoundBefore == Spec => []NotYetFound
<1>1. Init => NotYetFound
  BY DEF Init, NotYetFound
<1>2. NotYetFound /\ [Next]_vars => NotYetFound'
  <2>. SUFFICES ASSUME NotYetFound, [Next]_vars PROVE NotYetFound'
    OBVIOUS
  <2>1. CASE ReadFiles \/ LoadExplicitRoot \/ RefreshTuf \/ FetchTarget \/ NoTargetLeft \/ DecodeRekorRoot
    BY <2>1 DEF NotYetFound, ReadFiles, LoadExplicitRoot, RefreshTuf, FetchTarget, NoTargetLeft, DecodeRekorRoot
  <2>2. CASE FindBundle \/ VerifyWithTrustRoot \/ VerifyRekorInclusion \/ Compute \/ Locate \/ VerifyPayload
    <3>1. pc' \notin {"readfiles", "loadroot", "target", "rekorflag", "find"}
      BY <2>2 DEF FindBundle, VerifyWithTrustRoot, VerifyRekorInclusion, Compute, Locate, VerifyPayload, Goto, Error,
         Report, SignatureFailure
    <3>. QED
      BY <3>1 DEF NotYetFound
  <2>. QED
    BY <2>1, <2>2 DEF NotYetFound, Next, vars
<1>. QED
  BY <1>1, <1>2, PTL DEF Spec

\* The command implements the safety part of the abstract verifier: the one
\* step that may accept judges what was submitted, under the context of its
\* signer, and finds the promise kept; every other end rejects.
THEOREM BundleImplementsGate == Spec => BundleIsGate
<1>1. Init => Gate!Init
  BY DEF Init, Gate!Init
<1>2. IInv /\ IInv' /\ NotYetFound /\ [Next]_vars => [Gate!Next]_(Gate!gateVars)
  <2>. SUFFICES ASSUME IInv, IInv', NotYetFound, [Next]_vars PROVE [Gate!Next]_(Gate!gateVars)
    OBVIOUS
  <2>1. CASE pc = "done"
    BY <2>1, FoundOnce DEF vars, Gate!gateVars, Submitted, BadParts, Payload
  <2>2. CASE pc # "done" /\ pc' # "done"
    BY <2>2 DEF Gate!Next, Gate!Submit
  <2>3. CASE pc # "done" /\ pc' = "done"
    <3>1. UNCHANGED <<Submitted, context>>
      <4>1. CASE FindBundle
        <5>1. found = None /\ UNCHANGED context
          BY <4>1 DEF FindBundle, NotYetFound
        <5>2. found' = None \/ BadParts'
          BY <2>3, <4>1, <5>1 DEF FindBundle, Goto, BadParts
        <5>. QED
          BY <5>1, <5>2 DEF Submitted
      <4>2. CASE ~FindBundle
        BY <2>3, <4>2, FoundOnce DEF Submitted, BadParts, Payload, Compute, Goto
      <4>. QED
        BY <4>1, <4>2
    <3>2. CASE output'.codes = {}
      <4>1. FindFacts' /\ Assured(Payload', context')
        BY <2>3, <3>2, NoCodeMeansEveryPhase, PhasesAssure DEF IInv, Facts, Accepted, PassedFacts
      <4>2. Submitted' = Payload'
        BY <4>1 DEF FindFacts, Submitted
      <4>. QED
        BY <2>3, <3>1, <3>2, <4>1, <4>2 DEF Gate!Next, Gate!Decide, Gate!Accept
    <3>3. CASE output'.codes # {}
      BY <2>3, <3>1, <3>3 DEF Gate!Next, Gate!Decide, Gate!Reject
    <3>. QED
      BY <3>2, <3>3
  <2>. QED
    BY <2>1, <2>2, <2>3
<1>. QED
  BY <1>1, <1>2, IInvInvariant, NothingFoundBefore, PTL DEF Spec, Gate!Safety, BundleIsGate

=============================================================================
