---------------------------- MODULE VerifyBundle ----------------------------
(***************************************************************************)
(* `agentattest verify bundle`: internal/app.runVerifyBundle with the      *)
(* signing package below it.  It resolves a trust root (a file, or two TUF *)
(* targets over the network), finds an envelope with its certificates in a *)
(* JSON document, checks chain, signature and log inclusion, makes the     *)
(* leaf's identity part of the verifier context, and judges the payload.   *)
(*                                                                         *)
(* A document is an array of objects, each with some attestations among    *)
(* its children: Go walks the children of an object in an order of its     *)
(* own at every walk.  An attestation is a record:                         *)
(*   envelope   None, Malformed, or [payload, signatures], a signature     *)
(*              being [keyid, key], the key it verifies under;             *)
(*   certs      the values of the keys "certificates" in it, in some       *)
(*              children: Malformed, not an array, or a sequence of        *)
(*              certificates, of Missing, an item that is no string, and   *)
(*              of Malformed, a string that is no certificate;             *)
(*   inclusion  None, without tlogEntries; Malformed, without a proof in   *)
(*              the first entry; or that entry, [logIndex, treeSize, body, *)
(*              hashes, root]: hashes says whether its path is the one of  *)
(*              its leaf, and a root hash is the sequence of leaves it     *)
(*              commits to, <<>> when it is no hash.                       *)
(* A certificate is [key, uris, emails, dnsNames, commonName,              *)
(* fulcioIssuer, signedBy, usable]: empty sequences or None for what it    *)
(* has not, and usable says that it is valid now and for code signing.  A  *)
(* file of PEM blocks is the set of the keys of its certificates, with     *)
(* "other" for another block and Malformed for a broken certificate.       *)
(***************************************************************************)
EXTENDS Verdict, Sequences

CONSTANTS
    Missing, Empty, Malformed,   \* no file, nothing in it, not what it should be
    Modulus,        \* 2^64
    WorkflowRefs,   \* names that isGitHubWorkflowRef takes for a workflow
    Documents,      \* contents of the --bundle file
    RootFiles,      \* --trust-root: None when omitted, else the files blocks
    TufTargets,     \* what the two TUF targets may hold
    RekorRoots,     \* --rekor-root: None when omitted, Malformed, or a hash
    LevelFlags,     \* --required-level
    Repositories    \* what gitbind.Compute finds

ResultCodes == {"signature_invalid", "schema_invalid", "unsupported_statement_type",
                "predicate_type_mismatch", "unsupported_predicate_version"} \cup PolicyCodes

\* No output is not a set of codes, no attestation is not one, and of a second
\* predicate in a payload there are the policy's codes.
ASSUME BundleAssumption ==
    /\ Modulus \in Nat \ {0}
    /\ \A codes \in SUBSET ResultCodes : codes # None
    /\ \A d \in Documents : d \in {Missing, Malformed} \/ \A i \in DOMAIN d : None \notin d[i]
    /\ \A d \in Documents \ {Missing, Malformed} : \A i \in DOMAIN d : \A a \in d[i] :
          a.envelope \notin {None, Malformed} =>
              OneReading(a.envelope.payload) \/ a.envelope.payload.secondReading \subseteq PolicyCodes

VARIABLES
    pc,
    flags,       \* the command line
    tuf,         \* the targets of the Sigstore repository
    document,
    roots,       \* keys of the trusted certificate authorities
    target,      \* the TUF target asked for next
    found,       \* the attestation findBundle returned
    chain,       \* its certificates, the leaf first
    context,     \* None until the verifier context is built
    output       \* exit code and the result on stdout, None when none

vars == <<pc, flags, tuf, document, roots, target, found, chain, context, output>>
inputs == <<flags, tuf, document>>

NoOutput == [exit |-> None, codes |-> None]

Init ==
    /\ pc = "readfiles"
    /\ flags \in [trustRoot : RootFiles, rekorRoot : RekorRoots, requireInclusion : BOOLEAN,
                  requiredLevel : LevelFlags]
    /\ tuf \in [1..2 -> TufTargets]
    /\ document \in Documents
    /\ roots = {} /\ target = 1
    /\ found = None /\ chain = None /\ context = None
    /\ output = NoOutput

Goto(step) == pc' = step /\ UNCHANGED output

\* An error on stderr and nothing on stdout.
Error(code) == pc' = "done" /\ output' = [exit |-> code, codes |-> None]

\* Faulty variant: the exit code counts the failures.
ReportCounting(codes) == pc' = "done" /\ output' = [exit |-> Cardinality(codes), codes |-> codes]

\* A result on stdout: valid without codes, and only then exit code 0.
Report(codes) == pc' = "done" /\ output' = [exit |-> IF codes = {} THEN 0 ELSE 1, codes |-> codes]
SignatureFailure == Report({"signature_invalid"})

-----------------------------------------------------------------------------
\* An empty trust root file is refused before LoadTrustRoot could take it for
\* an omitted one.
ReadFiles ==
    /\ pc = "readfiles"
    /\ IF document = Missing \/ flags.trustRoot = Missing THEN Error(1)
       ELSE IF flags.trustRoot = Empty THEN SignatureFailure
       ELSE Goto("loadroot")
    /\ UNCHANGED <<inputs, roots, target, found, chain, context>>

\* ParseCertificates: {} is its error, of one broken certificate or of none.
ParseCertificates(blocks) == IF Malformed \in blocks THEN {} ELSE blocks \ {"other"}

\* LoadTrustRoot: the file wins.
LoadExplicitRoot ==
    /\ pc = "loadroot"
    /\ flags.trustRoot # None
    /\ roots' = ParseCertificates(flags.trustRoot)
    /\ IF roots' = {} THEN SignatureFailure ELSE Goto("rekorflag")
    /\ UNCHANGED <<inputs, target, found, chain, context>>

\* client.Refresh: the network or the repository may be down.
RefreshTuf ==
    /\ pc = "loadroot"
    /\ flags.trustRoot = None
    /\ SignatureFailure \/ Goto("target")
    /\ UNCHANGED <<inputs, roots, target, found, chain, context>>

\* rootsFromFetcher: the first target that can be fetched and parsed; fetching
\* may fail for each of them alike.
FetchTarget ==
    /\ pc = "target"
    /\ target <= 2
    /\ \/ /\ tuf[target] # Missing
          /\ roots' = ParseCertificates(tuf[target])
          /\ roots' # {}
          /\ Goto("rekorflag")
          /\ UNCHANGED target
       \/ /\ target' = target + 1
          /\ UNCHANGED <<pc, output, roots>>
    /\ UNCHANGED <<inputs, found, chain, context>>

NoTargetLeft ==
    /\ pc = "target"
    /\ target > 2
    /\ SignatureFailure
    /\ UNCHANGED <<inputs, roots, target, found, chain, context>>

DecodeRekorRoot ==
    /\ pc = "rekorflag"
    /\ IF flags.rekorRoot = Malformed THEN Error(2) ELSE Goto("find")
    /\ UNCHANGED <<inputs, roots, target, found, chain, context>>

-----------------------------------------------------------------------------
Attestations ==
    IF document \in {Missing, Malformed} THEN {} ELSE UNION {document[i] : i \in DOMAIN document}
WithEnvelope == {a \in Attestations : a.envelope # None}
WithEntries == {a \in Attestations : a.inclusion # None}

\* Where a walk for the attestations wanted may stop: at any of them that is
\* in the first object to have one.
FirstOf(wanted) ==
    {a \in wanted : \E i \in DOMAIN document :
        a \in document[i] /\ \A j \in 1..(i - 1) : document[j] \cap wanted = {}}

\* findKey: the certificates of some child; what is absent is no array either.
CertificatesIn(attestation) == IF attestation.certs = {} THEN {Malformed} ELSE attestation.certs

\* parseCertArray: items that are no strings are passed over, one that is no
\* certificate spoils the array.
IsString(item) == item # Missing
ParseCertArray(raw) ==
    IF raw = Malformed THEN <<>>
    ELSE IF \E i \in DOMAIN raw : raw[i] = Malformed THEN Malformed
    ELSE SelectSeq(raw, IsString)

\* FromSigstoreBundle.  What is not JSON has no envelope.
FindBundle ==
    /\ pc = "find"
    /\ \/ FirstOf(WithEnvelope) = {} /\ SignatureFailure /\ UNCHANGED <<found, chain>>
       \/ \E a \in FirstOf(WithEnvelope) : \E raw \in CertificatesIn(a) :
             /\ found' = a
             /\ chain' = ParseCertArray(raw)
             /\ IF a.envelope = Malformed \/ chain' \in {Malformed, <<>>}
                THEN SignatureFailure
                ELSE Goto("chain")
    /\ UNCHANGED <<inputs, roots, target, context>>

\* External: x509.Certificate.Verify.  Bound: one intermediate.
ChainsTo(certs, trusted) ==
    /\ certs[1].usable
    /\ \/ certs[1].signedBy \in trusted
       \/ \E i \in 2..Len(certs) : certs[i].key = certs[1].signedBy /\ certs[i].signedBy \in trusted

\* certVerifier, as dsse.VerifyAndDecode asks it: a signature under another
\* key id is passed over.
Matches(signature, cert) == signature.key = cert.key /\ signature.keyid \in {None, cert.key}

\* Verify, with the one certificate VerifyWithTrustRoot gives it.
SignedBy(envelope, cert) == \E s \in envelope.signatures : Matches(s, cert)

\* Faulty variant: the signature is checked, the chain is not.
VerifyWithoutChain ==
    /\ pc = "chain"
    /\ IF SignedBy(found.envelope, chain[1]) THEN Goto("inclusion") ELSE SignatureFailure
    /\ UNCHANGED <<inputs, roots, target, found, chain, context>>

\* Faulty variant: what fails is an error like any other.
VerifyWithoutResult ==
    /\ pc = "chain"
    /\ IF ChainsTo(chain, roots) /\ SignedBy(found.envelope, chain[1]) THEN Goto("inclusion") ELSE Error(1)
    /\ UNCHANGED <<inputs, roots, target, found, chain, context>>

\* No command sets the list of issuers a trust root may have.
VerifyWithTrustRoot ==
    /\ pc = "chain"
    /\ IF ChainsTo(chain, roots) /\ SignedBy(found.envelope, chain[1])
       THEN Goto("inclusion")
       ELSE SignatureFailure
    /\ UNCHANGED <<inputs, roots, target, found, chain, context>>

\* parseUint: a string of digits wraps; a JSON number that is no uint64
\* becomes what the machine makes of it.
ParseUint(number) ==
    IF number.text THEN {number.value % Modulus}
    ELSE IF number.value \in 0..(Modulus - 1) THEN {number.value}
    ELSE 0..(Modulus - 1)

\* External: proof.VerifyInclusion.  The path binds the leaf to its place in
\* the tree of the root, and only loosely to the size that is claimed.
VerifyInclusion(entry, index, size) ==
    /\ index < size
    /\ index + 1 \in DOMAIN entry.root
    /\ entry.root[index + 1] = entry.body
    /\ entry.hashes

\* Faulty variant: a log entry without a proof is a log entry.
VerifyRekorEntry ==
    /\ pc = "inclusion"
    /\ \/ FirstOf(WithEntries) = {} /\ (IF flags.requireInclusion THEN SignatureFailure ELSE Goto("compute"))
       \/ FirstOf(WithEntries) # {} /\ Goto("compute")
    /\ UNCHANGED <<inputs, roots, target, found, chain, context>>

\* verifyRekorInclusion walks the whole document again, for tlogEntries; the
\* first of them may be another attestation's.
VerifyRekorInclusion ==
    /\ pc = "inclusion"
    /\ \/ /\ FirstOf(WithEntries) = {}
          /\ IF flags.requireInclusion THEN SignatureFailure ELSE Goto("compute")
       \/ \E a \in FirstOf(WithEntries) :
             \/ /\ a.inclusion = Malformed
                /\ IF flags.requireInclusion THEN SignatureFailure ELSE Goto("compute")
             \/ /\ a.inclusion # Malformed
                /\ \E index \in ParseUint(a.inclusion.logIndex), size \in ParseUint(a.inclusion.treeSize) :
                      IF VerifyInclusion(a.inclusion, index, size) /\ flags.rekorRoot \in {None, a.inclusion.root}
                      THEN Goto("compute")
                      ELSE SignatureFailure
    /\ UNCHANGED <<inputs, roots, target, found, chain, context>>

-----------------------------------------------------------------------------
\* identityFromCert: the first name of the first kind the certificate has.
Signer(cert) ==
    IF cert.uris # <<>> THEN cert.uris[1]
    ELSE IF cert.emails # <<>> THEN cert.emails[1]
    ELSE IF cert.dnsNames # <<>> THEN cert.dnsNames[1]
    ELSE cert.commonName

\* Faulty variant: a name of any kind may be a builder's.
IsBuilderByName(cert) == Signer(cert) \in WorkflowRefs

\* Only a URI that is a GitHub workflow is a builder.
IsBuilder(cert) == cert.uris # <<>> /\ cert.uris[1] \in WorkflowRefs

IdentityFromCert(cert) ==
    [verifiedSigner |-> Signer(cert),
     verifiedIssuer |-> cert.fulcioIssuer,
     verifiedBuilderId |-> IF IsBuilder(cert) THEN Signer(cert) ELSE None,
     verifiedWorkflowRef |-> IF IsBuilder(cert) THEN Signer(cert) ELSE None]

\* The fields that are not empty.
ToContextMap(identity) ==
    [field \in {f \in DOMAIN identity : identity[f] # None} |-> identity[field]]

\* gitbind.Compute, then the context with the identity merged over it.
Compute ==
    /\ pc = "compute"
    /\ \/ Error(1) /\ UNCHANGED context
       \/ \E r \in Repositories :
             /\ context' = Merged(ToContextMap(IdentityFromCert(chain[1])), BuildVerifierContext(r, flags.requiredLevel))
             /\ Goto("locate")
    /\ UNCHANGED <<inputs, roots, target, found, chain>>

\* contracts.Locate may find no pack.
Locate ==
    /\ pc = "locate"
    /\ Error(1) \/ Goto("judge")
    /\ UNCHANGED <<inputs, roots, target, found, chain, context>>

VerifyPayload ==
    /\ pc = "judge"
    /\ Report(Judge(found.envelope.payload, context))
    /\ UNCHANGED <<inputs, roots, target, found, chain, context>>

Next ==
    \/ ReadFiles
    \/ LoadExplicitRoot
    \/ RefreshTuf
    \/ FetchTarget
    \/ NoTargetLeft
    \/ DecodeRekorRoot
    \/ FindBundle
    \/ VerifyWithTrustRoot
    \/ VerifyRekorInclusion
    \/ Compute
    \/ Locate
    \/ VerifyPayload

Spec == Init /\ [][Next]_vars

-----------------------------------------------------------------------------
Steps == {"readfiles", "loadroot", "target", "rekorflag", "find", "chain", "inclusion",
          "compute", "locate", "judge", "done"}

\* Every variable stays in its range; what was found is part of the document.
TypeOK ==
    /\ pc \in Steps
    /\ flags.requireInclusion \in BOOLEAN /\ flags.requiredLevel \in LevelFlags
    /\ target \in 1..3
    /\ found = None \/ found \in Attestations
    /\ output.exit \in {None, 0, 1, 2}
    /\ output.codes = None \/ output.codes \subseteq ResultCodes

Accepted == pc = "done" /\ output.codes = {}
Payload == found.envelope.payload
Leaf == chain[1]

\* What the signature layer establishes of the bundle it lets through.
InLog(entry) ==
    /\ entry # Malformed
    /\ \E i \in DOMAIN entry.root : entry.root[i] = entry.body
    /\ flags.rekorRoot \in {None, entry.root}
LoggedAsAsked ==
    /\ flags.requireInclusion => \E a \in WithEntries : InLog(a.inclusion)
    /\ FirstOf(WithEntries) # {} =>
          \E a \in FirstOf(WithEntries) : a.inclusion = Malformed \/ InLog(a.inclusion)
Signed == SignedBy(found.envelope, Leaf) /\ ChainsTo(chain, roots)

\* What may make it refuse one.
NoTrustRoot == roots = {}
NoEnvelope == FirstOf(WithEnvelope) = {}
BadParts == found.envelope = Malformed \/ chain \in {Malformed, <<>>}
BadInclusion ==
    \/ flags.requireInclusion /\ FirstOf(WithEntries) = {}
    \/ \E a \in FirstOf(WithEntries) :
          IF a.inclusion = Malformed THEN flags.requireInclusion
          ELSE \/ flags.rekorRoot \notin {None, a.inclusion.root}
               \/ \E index \in ParseUint(a.inclusion.logIndex), size \in ParseUint(a.inclusion.treeSize) :
                     ~VerifyInclusion(a.inclusion, index, size)

\* VERIFICATION_MODEL.md:150-153 -- the payload judged is the first envelope's
\* of the document, signed with the leaf of a chain that stands beside it, and
\* the chain ends in the certificates of the file when one was named, whatever
\* the network offers, else in those of one TUF target: in all of them, or none
\* of the source counts.
Certificates(blocks) == {b \in blocks : b \notin {"other", Malformed}}
Whole(source) == source # Missing /\ Malformed \notin source /\ roots = Certificates(source)
AcceptedIdentityIsTrusted ==
    Accepted =>
        /\ found \in FirstOf(WithEnvelope) /\ found.envelope # Malformed
        /\ \E raw \in CertificatesIn(found) : chain = ParseCertArray(raw)
        /\ Signed
        /\ IF flags.trustRoot # None THEN Whole(flags.trustRoot) ELSE \E t \in 1..2 : Whole(tuf[t])
        /\ context.verifiedSigner = Signer(Leaf)

\* README.md:182 -- above evidence grade the statement names as its builder and
\* workflow the GitHub workflow that the certificate was issued to: a signer
\* that is no workflow, or whose issuer is unknown, never gets there.  (With a
\* payload that reads as two predicates it does: AcceptedClaimsAreBacked.)
PolicyGradeIsTheSigningWorkflow ==
    Accepted /\ OneReading(Payload) /\ Payload.verificationLevel # "evidence-grade" =>
        /\ Leaf.uris # <<>> /\ Leaf.uris[1] \in WorkflowRefs /\ Leaf.fulcioIssuer # None
        /\ Payload.builder.id = Leaf.uris[1]
        /\ Payload.builder.workflowRef = Leaf.uris[1]
        /\ Payload.declaredIdentity \in {None, Leaf.uris[1]}

\* The context the command makes itself is enough for the promise of the level:
\* subject, base and repository are those Compute found.
AcceptedIsAssured == Accepted => Assured(Payload, context)

\* README.md:182 -- what passed the signature layer is judged like any other
\* statement: accepted exactly when it is justified under the context of its
\* signer.  Payloads come from outside: one may read as two predicates, or have
\* a subject without a name.
JudgedExactly ==
    pc = "done" /\ output.codes \notin {None, {"signature_invalid"}} =>
        /\ output.codes = Judge(Payload, context)
        /\ output.codes = {} <=> Justified(Payload, context)

\* The command implements the abstract verifier: finding an envelope submits
\* its payload, and what the trust root, the signature, the log and the
\* repository add before the verdict takes back no promise of the level.
Submitted == IF found = None \/ BadParts THEN None ELSE Payload
Gate == INSTANCE VerifierGate WITH
    statement <- Submitted,
    verdict <- IF pc # "done" THEN "pending" ELSE IF output.codes = {} THEN "accepted" ELSE "rejected"
BundleIsGate == Gate!Safety

\* README.md:182, "to policy-grade" -- the command makes no list of runners,
\* witnesses, servers or delegates: what it accepts is not high assurance,
\* names no witness, and above evidence grade no server and no delegate, as far
\* as the payload reads as one predicate.
NothingUnverifiedIsNamed ==
    Accepted /\ OneReading(Payload) =>
        /\ Payload.verificationLevel # "high-assurance"
        /\ Payload.witnesses = {}
        /\ Payload.verificationLevel # "evidence-grade" => Payload.mcpServers = {} /\ Payload.delegation = {}

\* README.md:182 -- with --require-inclusion an entry of the document is in the
\* log of its root, the one of --rekor-root when it is given, and without it a
\* proof that is there is not passed over: whatever the index says in a string
\* of digits that does not fit.
InclusionAsAsked == Accepted => LoggedAsAsked

\* context_summary.go:307-310 -- signature_invalid is said of a bundle or trust
\* root that fails and of nothing else; an error without a result is about the
\* files, the flags, or what comes after the signature; and the exit code is 0
\* exactly for a valid result.
SignatureFailuresAreTold ==
    pc = "done" =>
        /\ output.exit = 0 <=> output.codes = {}
        /\ output.codes = {"signature_invalid"} =>
              NoTrustRoot \/ NoEnvelope \/ (found # None /\ (BadParts \/ ~Signed \/ BadInclusion))
        /\ output.codes = None =>
              \/ Missing \in {document, flags.trustRoot} \/ flags.rekorRoot = Malformed
              \/ found # None /\ Signed /\ LoggedAsAsked

=============================================================================
