# agentattest in TLA+

agentattest binds what a coding agent did to the change it produced: it computes digests of a repository, writes an
in-toto statement about a run, verifies such a statement against a context the verifier established itself, and
verifies the Sigstore bundle the statement was signed into. A GitHub action runs these commands as a merge gate.

This directory holds TLA+ modules translated from the source, the TLC configurations that check them on small
instances, and theorems proved with TLAPS for every value of the constants. Paths below are relative to the
repository; `PROJECT.json` maps each definition to the lines it models.

Contents: 1 inventory, 2 modules and their correspondence to the code, 3 what is checked (runs, bounds, fairness), 4
what is proved, 5 where code and documents disagree, 6 what is not modelled, 7 plan.

    tlc -workers 2 -config VerifyPipeline.cfg MCVerifyPipeline     one run
    tlapm VerifyPipelineProofs.tla                                 one proof module

## 1. Inventory

| Component | Source | State | Operations |
| --- | --- | --- | --- |
| verifier pipeline | `internal/verify`, `internal/statement` | the step it is at, what it read, the result | `Predicate`: five phases, each with an early return |
| contract pack | `internal/contracts/paths.go` | files on disk, owned by a checkout others write to | `Locate` (walk to the root), `Read` |
| default policy | `policies/default.rego`, `internal/policy` | none: a function of statement and context | `FailureCodes`: twelve deny codes |
| predicate and context contracts | `schemas/`, `tests/golden/context.schema.json` | none | JSON Schema (phase 02), CUE (phase 03) |
| failure ordering | `internal/verify/failure_order.go` | a list being deduplicated and sorted | `orderFailureCodes` |
| git binding | `internal/gitbind` | none of its own: reads a repository that changes meanwhile | `Compute`: about ten git commands and the file reads |
| predicate creation, context | `internal/predicate`, `internal/app` | statement and context files | `predicate create`, `context`, `verify predicate`, `summary` |
| GitHub action | `action/action.yml` | files passed from step to step, kept for the job | context or a copy of a supplied one, predicate, verify, summary |
| signing and bundles | `internal/signing`, `runVerifyBundle` | trust root, envelope found, verified identity | `verify bundle`; `Sign` (called by no command) |
| registry | `internal/registry` | SQLite table shared by processes | `Add`, `BySubject`, `ByRepo`, `ByRunID` |
| local cache | `internal/cache`, `init`, `digest` | SQLite file and `config.json` in `.agentattest` | `Init`, `IndexDigest` |
| harness capture | `internal/capture` | none | `Statement`: what a harness knows of its run to a statement |
| version, entry point | `cmd`, `internal/version` | none | a version string, a call of `app.Main` |

How they interact. `digest`, `context` and `predicate create` each call `gitbind.Compute`; nothing locks the
repository between two of its git commands or between two calls. The action joins them by files: the context of one
`Compute`, the statement of another, then `verify predicate` over both. `verify predicate` and `verify bundle` share
`buildVerifierContext` and `verify.Predicate`; the latter reads each contract file from disk when its phase runs. The
policy hands its codes over as a set, `failure_order` makes a list of them. `verify bundle` puts the identity of the
certificate it verified into the context, over the one built from the repository. `digest` hands what it computed to
the cache and prints it, whatever the cache answers.

What is hard, and what would make each part correct:

- *Pipeline and pack.* Files change between phases. Correct: what is accepted was judged against intact files of its
  own version; a failure belongs to the phase that found it.
- *Policy and contracts.* A Rego rule that reads an absent field is undefined and denies nothing, so a promise may
  rest on two rules in two languages; the outer statement is under no schema at all, and it is decoded twice, with two
  rules for keys. Correct: acceptance gives what the documents promise for the claimed level, of the named subjects
  and of a statement that reads as one predicate; section 5 has what is accepted beyond that.
- *Failure ordering.* Codes arrive in an arbitrary order. Correct: the list shown is a function of the set.
- *Git binding and gate.* Commits, pushes, edits and staging between any two commands; a failing command that is taken
  for an answer. Correct: a result is of one moment unless something moved; an accepted statement is about the
  repository of now unless something moved since the verifier looked; a changed file is noticed.
- *Bundles.* Go's map order, several attestations in one document, a network that fails at each fetch, identities of
  several kinds. Correct: nothing but the trust root asked for, and the certificate that signed, leads to acceptance.
- *Gate by files.* A job may supply its own context, use the action twice, or bring the statement of a harness, which
  checks other things than the command does. Correct: neither raises the level that is accepted, and the summary,
  which runs in every case on the files that are there, says what the verdict said.
- *Registry.* Rows of a statement are separate transactions; calls overlap and break off. Correct: what was added is
  found by each of its subjects, once, and described by the statement last added.
- *Local cache.* The same file, from several processes, with no transaction around a digest and every error dropped; a
  user may remove it. Correct: a digest noted in part is told from one noted in full (the time is written last), a
  command that finds the cache finds its tables, and nothing that goes wrong with the cache keeps an answer back.

The hazards, each with its line and the properties that watch it, are listed in `PROJECT.json`.

## 2. Modules

Pure parts, as operators:

| Module | Models |
| --- | --- |
| `Absent` | the one value `None` for what is not there, so that the model of git and that of the verifier can be extended together |
| `Timestamps` | the two readings of a timestamp: text order (CUE) and 64-bit instant (Rego `time.parse_rfc3339_ns`) |
| `Policy` | every deny rule of `default.rego`, including where Rego is undefined; `FailureCodes(s, c)` |
| `Contracts` | phase 01 in Go, and the schema and CUE rules that the policy or another phase rests on |
| `Assurance` | the promises of `docs/VERIFICATION_MODEL.md` per level, and what is compared whatever the level (`Undisputed`), stated independently of the rules |
| `Verdict` | `buildVerifierContext` and `verify.Predicate` as functions, for the commands that call both; what a verdict should be made of (`Justified`) |
| `Capture` | the flags of `predicate create`, the statement it makes, and `capture.Statement` |

State machines:

| Module | Models | An action is |
| --- | --- | --- |
| `VerifierGate` | the abstract verifier: one final verdict, accepted only when assured; implemented by `VerifyPipeline`, `ActionGate` and `VerifyBundle` | what is to be judged comes in or changes (`Submit`); a verdict |
| `VerifyPipeline` | `verify.Predicate` over contract files that others write | one directory of `Locate`, one phase, one write to a file |
| `FailureOrder` | `orderFailureCodes` | one turn of the loop; the stable sort |
| `GitBind` | `gitbind.Compute`, any number of calls, with a developer | one git command or file read; one act of the developer |
| `ActionGate` | the commands of `action.yml` over `GitBind`, `Capture` and `Verdict` (composed by EXTENDS) | one command's end; a step of `Compute` |
| `VerifyBundle` | `runVerifyBundle` and the signing package below it, over `Verdict` | one step with its error path; one TUF fetch |
| `ReferenceIndex` | the abstract index: a growing set of references, all of an addition there when it is reported | some references of an addition; a report |
| `Registry` | `Registry.Add` of several processes, with the queries; implements `ReferenceIndex` | one row; the start, return or break of a call |
| `Cache` | `init` and `digest` of several processes with the cache they share | one SQLite statement or file call; its failure; the end of a process; the removal of the directory |

`MC*` modules give the constants of the runs; `MCStatements` has the statements and contexts that the runs vary.
`*Proofs` modules hold the theorems.

Conventions. A statement is a flat record of the fields that the rules read; every other structural rule of the
schemas (patterns, lengths, closed objects, the privacy block) is the one field `wellFormed`. `None` is an absent JSON
field: the policy's `object.get` defaults "", {} and [] are read as None too, because the rules compare with exactly
those defaults. `LegalUrls` are the repository URLs that the patterns of both schemas admit.

Two readings of one document. `statement.Parse` decodes into a struct, whose keys match in any case with the last one
winning, and into a map, whose keys are exact. Phases 01 to 03 and the level reported take the predicate of the first;
the policy is given the second. The fields of the record are what the struct finds, `subject` is what the map finds,
and `secondReading` is None when both find one predicate (`OneReading`). Otherwise the map's predicate is one that no
phase looked at: its fields may be missing or of any type, so rules that read it may be undefined, and its content is
left out. `secondReading` is then the set of codes that these rules give, and any set of them is allowed, also one
that no predicate yields: what is proved holds for all of them. A statement's subject may lack a name (None in
`name`); the rule on unexpected subjects prints the name and is then undefined (`SubjectDigestMismatch`).

Definitions marked "Faulty variant" are bugs that could have been written; they are used by no specification, and
`PROJECT.json` names for each property one that breaks it.

Correspondence, where it is not one to one:

- `VerifyPipeline`: `ReadPolicy` and `EvaluatePolicy` are two steps because `contracts.Read` and `policy.FailureCodes`
  are two calls. `Locate` asks for the four v0 files only, as `paths.go` does; the v1 files are first asked for in
  their phases. A policy file may also compile and define no `failure_codes`: content "norule".
- `GitBind`: a git command sees one state of the repository. Commits of a branch form a line above a shared root, so
  `merge-base` is the smaller of two positions; the trees of commits are left out, because no command compares with
  one: the patch is `git diff`, work tree against index. `CommandFails` is a command that errs although it need not:
  for branch, upstream and merge base the code takes that for an answer.
- `ActionGate`: the order of the first two commands is a parameter of a job: the action's (context first), and the
  order of a change that is attested first, by the command or by a harness, and verified later. The flags of the
  commands are what the action's inputs become. `supplied` is the `context` input: None when it is not given, a
  missing file, a file without a JSON object, or a context. A step that fails ends the job but for the summary (`job`
  4), as the runner does with `if: always()`. `left` are the files an earlier use of the action in the job left in
  RUNNER_TEMP, whose names do not depend on the use. `located` is whether a contract pack is found at all, without
  which `verify predicate` and `summary` exit with an error; that a pack changes between the phases is left to
  `VerifyPipeline`. Its mapping to `VerifierGate` counts a job that ends without a verdict as rejected; until the
  verdict the two files may still be written, which is `Submit`.
- `Capture`: what the schema alone could refuse of what is copied unseen is one Boolean, `legal`, of a harness's run
  and of a command line: agent name and version, harness, model, the base name of the operating contract's file. The
  branch and the URL are values of their own (`LegalBranches`, `LegalUrls`), since git has them.
- `VerifyBundle`: a document is a sequence of objects, each with a set of attestations, since Go walks a map in an
  order of its own at every walk: `FirstOf` leaves open which of one object's is met first, and for the same reason
  the certificate arrays of an attestation are a set. An item of an array is a certificate, one that does not parse
  (`Malformed`, spoils the array) or no string (`Missing`, skipped). A PEM file is a set of blocks: certificates,
  "other" blocks, and a certificate block that does not parse. A log index is text or a JSON number: `ParseUint` is
  the code's multiplication modulo `Modulus` (2^64 in the code, 4 in the run), and a number outside the range becomes
  what the machine's conversion makes of it: any value. The root hash of a log is the sequence of its leaves, and
  `VerifyInclusion`, which is external, asks only that the leaf be at the index. X.509 path building and DSSE are
  facts of the data (`signedBy`, `usable`, `signatures`). What is submitted to `VerifierGate` is the payload of the
  envelope found, once its parts are usable, and None before; an end with an error counts as rejected.
- `Registry`: the table is a bag of rows, a count for each row, under the key (subject_digest, statement_path) in
  which two NULLs differ; the empty path is stored as NULL, and so are an empty repository URL and run id, which no
  query then finds (None in the model). The refinement to `ReferenceIndex` maps the table to the pairs of subject and
  path that have a row, and asks nothing of which statement describes a reference.
- `Cache`: a process is a command. `opened` is the file its connection holds: after a removal that file is not the one
  in the directory, if there is one, and no statement succeeds on it. What the code's `create table if not exists` and
  `on conflict` do is in `CreateTable`, `PutRef`, `PutStamp`; rows of `digests` are keyed by all their columns, hence
  a set.

## 3. What is checked

Run | Instance and bounds | Shows
--- | --- | ---
`pipeline` | statements and contexts that each deviate in one field from an acceptable one, at every level and version, in one directory, among them subjects without a name and second predicates with no codes and with some; two nested packs with two writes anywhere between the phases | `AcceptedIsAssured`, `OneOwningPhase`, `AcceptedReadItsContracts`, `VerdictIsExact`, the refinement `GateSpec`
`failure_order` | every sequence of up to five codes, known and custom | `EveryCodeOnce`, `OrderDependsOnTheSetOnly`
`git_bind` | one call, two paths, two branches, three acts of a developer, one failing command | `RefsAreOfOneMoment`, `FilesAreOfOneMoment`, `Terminates`
`action` | five repositories, one with a branch name and one with a URL the schemas refuse, one whose remote is not read; the action's order with eight settings of the inputs and four supplied contexts, one act each, and with refused text, refused flags and no pack; attested first and verified later with two acts; the runs of six harnesses; files of an earlier use; one failing command | `UndisturbedOutcome`, `AcceptedDiffIsCurrent`, `ChangeIsNoticedUnlessStaged`, `NeverAboveEvidenceGrade`, `SummaryTellsTheVerdict`, the refinement `JobIsGate`
`bundle` | documents of one attestation: eight chains at two levels, two builders and three keys, eleven log entries, seven odd sets of certificates, fifteen odd envelopes (at every level, naming witnesses, servers, delegates); seven documents of several; seven root files, nine TUF repositories, three log roots, two required levels, two repositories; payloads with a second predicate or a subject without a name | `AcceptedIdentityIsTrusted`, `PolicyGradeIsTheSigningWorkflow`, `NothingUnverifiedIsNamed`, `InclusionAsAsked`, `SignatureFailuresAreTold`, the refinement `BundleIsGate`
`registry` | two processes, three calls, two statements that share a subject and a run id, one without run id and repository, one that does not decode, two paths and the empty one | `AddedIsFound`, `OneRowPerReference`, `LatestIsDescribed`, the refinement `IndexSpec`, `CallsEnd`
`cache` | two processes, three commands, one removal of the directory, two seconds, two results of which one has a file that is gone | `StampedIsIndexed`, `RowsHaveTheirTable`, `LastIsDescribed`, `InitLeavesAWholeCache`, `OnlyInitMakesACache`, `ComputedIsPrinted`
`undecided`, `timestamps`, `nameless`, `readings`, `staged` | small instances | each violates one statement of the documents: section 5

Every module has one type invariant among its run's properties. The passing runs have between some hundreds and a
million distinct states: `pipeline` 189 thousand, `action` 999 thousand, `bundle` 567 thousand, `registry` 68
thousand.

*What a premise leaves out.* Some properties are stated of undisturbed runs, because the code promises no more, and
then do not speak of the hazard itself. `RefsAreOfOneMoment` and `FilesAreOfOneMoment` exclude moves, changes and
failing commands during a `Compute`: that what was mixed is not accepted is `AcceptedDiffIsCurrent`, where the
verifier's own look was undisturbed. `InclusionAsAsked` holds also where the entry found is another attestation's or
its index wrapped. `SignatureFailuresAreTold` allows an exit without a result after the signature. `LastIsDescribed`
is of one digest alone, `OneRowPerReference` of a path that is not empty, `OnlyInitMakesACache` of a directory nobody
removed. `PROJECT.json` says so at each hazard.

*Why the bounds are enough.* The rules are conjunctions and disjunctions over single fields of an acceptable pair, so
one deviating field meets every disjunct alone; what deviations in combination could do is covered by the proof, which
has no bound. Three acts of a developer are enough for a change, its staging and a change back between two commands of
a call; more acts add no new relation between two reads. A supplied context and left files of one repository meet a
repository that agrees with them and others that do not. Two rows, two callers and three calls give an overlap, a
break and a repetition after it. Two processes, a third command and one removal give the cache an init that broke off
and is taken up again, two digests into one another, and a file removed under an open connection; a second removal
repeats the first. A document of two attestations already has every relation between the envelope found and the log
entry found; a `Modulus` of 4 lets an index wrap onto the entry and beside it. A certificate chain has at most one
intermediate, a fraction of a second three digits: named bounds in the modules. `MaxChanges`, `MaxActs`, `MaxFaults`,
`MaxCommits`, `MaxCalls`, `MaxTime` and `MaxRemovals` bound counters and are constants; the theorems hold for every
value of them.

*Fairness.* Weak fairness is assumed of the program's own steps only: `verify.Predicate`, `Compute` and `Add` are each
one goroutine that runs until it returns, and a job's commands follow each other in one shell. For the cache it is of
a process's next step or its failure, since a statement that cannot succeed (a lock, a removed file) returns its
error. A developer, a writer of contract files, a failing git command, a removal, the clock and the end of a process
owe nothing and have no fairness. That an answer comes at all (a fetch that hangs) is not modelled: a fetch succeeds
or fails. `VerifierGate` has weak fairness of its verdict (`Decide`): a verdict comes at last, and this is what
`GateSpec` and `JobIsGate` say of a verification and of a job. `FailureOrder` and `VerifyBundle` need no fairness:
nothing waits in them, and no liveness is stated; `BundleIsGate` is the safety part of the gate.

*Deadlock* is not asked for: every model ends in a final state.

## 4. What is proved

All theorems are of the form `Spec => []Property`, `Spec => [][Step]_vars`, a refinement, or a fact about the
functions of `Verdict`, for every value of the constants, among them every set of codes that a second reading may
give. They rest on the named assumptions of the modules only: `GitAssumption`, `PipelineAssumption`,
`OrderAssumption`, `TimestampBounds`, `ActionAssumption`, `DataAssumption`, `BundleAssumption`, `RegistryAssumption`,
`CacheAssumption`. They say that bounds are natural numbers, that `None` is not a value, and what shape the data given
as constants has; `PipelineAssumption` and `BundleAssumption` that a second reading gives codes of the policy,
`ActionAssumption` that what an earlier use of the action left reads as one; `DataAssumption` in particular that no
text or record the command writes is `None` or `Garbled`, and what fields a harness's run has. TLC evaluates them in
every run of their module.

- `AssuranceProofs`: of the functions, by no specification. `PhasesAssure`: what passes the phases and draws no deny
  code is `Assured`: about the current subjects, by name, and level by level what is promised of a predicate that
  reads as one. `RulesAreExact`: and conversely; of a pair that satisfies its contracts the twelve rules deny exactly
  named subjects that differ and, of one predicate, what breaks its level's promise or is disputed; of two, what the
  second gives is the verdict. `EmptyVerdictsAreJustified`: hence `Judge` finds nothing wrong exactly with what is
  `Justified`; every command that judges cites it. `LenientContextsAcceptNoLess`: under a context that holds no less
  verified and asks for no more no less is accepted of what reads as one predicate; only the first entry of a list of
  servers or delegates is excepted, since it makes a comparison where there was none. `TextOrderToTheDigit`: what the
  byte order of two texts says of their instants, to the last digit.
- `VerifyPipelineProofs`: `TypeCorrect`, `AcceptedStatementsAreAssured`, `AcceptanceReadsItsContracts`,
  `FailuresHaveOneOwner`, `VerdictsAreExact`, `RunsAreOrderedToTheDigit`, and `PipelineImplementsGate`. The properties
  speak of the end only, so the invariant adds what each phase leaves behind: a fact about the statement and the
  content of the file it read. Neither speaks of the disk, hence both survive any write to it. For the exact verdict a
  second invariant (`Exact`) goes the other way: a phase that failed on a file it found intact failed for its input,
  and `Judge` of that input is the one code it gave. That the inputs stay what `Cases` says of them (`ReadingKnown`)
  is an invariant of its own, and makes the codes of a second reading codes of the policy.
- `FailureOrderProofs`: `TypeCorrect`, `EveryCodeIsShownOnce`, `OrderIsCanonical`. The loop's invariant is that the
  list holds each code seen once; that `Before` is a strict total order on codes then makes the sorted list unique.
- `GitBindProofs`: `TypeCorrect`, `RefsAgree`, `FilesAgree`. The invariant says of each call, by the step it is at,
  which answers it has, and that they are still those of the repository as long as nobody disturbed the part they came
  from. One lemma per kind of step: a call learns, a call stops, a command fails, somebody moves a ref or a file.
- `ActionGateProofs`: `GateTypeCorrect`, `AcceptanceIsCurrent`, `ChangeIsNoticedAgainstOneIndex`,
  `EvidenceGradeIsTheTop`, `SummaryIsTruthful`, `UndisturbedJobsHaveOneOutcome`, `JobImplementsGate`. Every step of a
  job is a step of GitBind or leaves it alone (`GateStepsAreGitSteps`), so the invariant of GitBind holds here as it
  is; what is added is what the two files and the verdict were made of (`Captured`, `Viewed`), and that an undisturbed
  patch is a function of index and work tree at the end of its capture (`DiffThen`). Acceptance makes the two patches
  equal. That a file read by the summary is the one judged, or one that was left, follows from the order of the steps
  alone. For the one outcome the invariant adds that nothing disturbed a call as long as nobody acted (`Calm`), so
  both captures found the same change, and that a calm job can have stopped for three causes only: a remote that is
  not read, refused flags, no pack (`Stopped`, `StoppedCalm`). The rest is a fact about what a command or a harness
  can put into a statement (`BareStatement`, `CommandClaims`, `HarnessClaims`) and the verifier into a context
  (`BareContext`): no rule but the one on levels can deny it, and the schemas refuse exactly what `Unadmitted` names:
  the branch, the URL, a level that is none, text of the command line, or what a harness run lacks (`RefusedLater`).
  The job is a gate because nothing but `verify` writes the verdict, and after it nothing writes a file.
- `VerifyBundleProofs`: `TypeCorrect`, `AcceptanceRestsOnTheTrustRoot`, `BuilderIsTheSigningWorkflow`,
  `AcceptedBundlesAreAssured`, `BundlesAreJudgedExactly`, `NothingIsAcceptedUnverified`, `InclusionIsNotWaived`,
  `FailuresOfTheSignatureLayerAreTold`, `BundleImplementsGate`. The invariant is the list of what the steps passed so
  far have established (`RootFacts` ... `ContextFacts`), and what a command that ended without a result can have
  failed at; every path to an error ends without a verdict (`FailingKeepsIInv`), so only `VerifyPayload` can accept,
  and it finds all of them established. A verdict other than a failed signature is what `Judge` says of the payload
  and nothing else (`SaysTheVerdict`), so what passes the signature layer is accepted exactly when it is justified.
  The payload comes from outside: what is said of its level, builder, witnesses and servers is said of payloads that
  read as one predicate (`OneReading`), and the subjects that are bound are the named ones. That the envelope is the
  first and its chain stands beside it are facts of the search (`FindFacts`). No assumption is made about keys, chains
  or log entries; of documents only that an absent attestation is no attestation.
- `RegistryProofs`: `TypeCorrect`, `AdditionsAreFound`, `AddIsIdempotent`, `TheLastAdditionIsDescribed`,
  `RegistryImplementsIndex`. The invariant follows a call through its subjects: those passed have a row under its
  path, described by its statement unless another call overlapped. A row of a path is replaced and never removed, so
  what was found stays found; with the empty path the key never matches and the count only grows.
- `CacheProofs`: `TypeCorrect`, `TheStampIsACommitMark`, `TablesComeFirst`, `TheLastDigestIsDescribed`,
  `InitReportsWhatExists`, `OnlyInitCreates`. The invariant says which tables and rows a process has made of the file
  it has open, by its step and position, provided that file is still the one in the directory; since digests are only
  added while a file lives, an interleaved command cannot take away what the time of another rests on. A removal makes
  the premise false for everybody at once.

Every invariant a passing run checks is proved. `JudgedExactly` of the bundle and `AcceptedRunIsOrderedToTheDigit` of
the pipeline are proved and belong to no run's list. Only model-checked is what rests on fairness, since the prover
has no rule for fairness and ENABLED: `Terminates` of `GitBind`, `CallsEnd`, `ComputedIsPrinted`, and the liveness
halves of `GateSpec` and `JobIsGate`, whose safety halves are theorems. `ReferenceIndex` states no fairness:
`IndexSpec` is a safety property and proved as it stands. No module uses a RECURSIVE operator.

## 5. Where code and documents disagree

Each of these five has a run whose counterexample shows it.

1. `undecided`: a policy module that compiles but defines no `failure_codes` rule yields no codes and no error, and
   the verifier answers valid (`internal/policy/rego.go:18`); `docs/VERIFICATION_MODEL.md:140` has the evaluation fail
   closed. The guarantees of section 4 are therefore stated for the shipped policy file.
2. `timestamps`: `finishedAt >= startedAt` is a text comparison, and ".5Z" sorts before "Z"
   (`schemas/agent-provenance-v1.cue:212`; `docs/CONTRACT_PATCH_PLAN_2026Q1.md:89` says that this works). What does
   hold is proved: an accepted run is in order to the second, and to the last digit unless `finishedAt` has fewer
   digits (`AcceptedRunIsOrderedToTheDigit`).
3. `staged`: `git diff` leaves out what is staged, so a file edited and staged after the attestation changes no patch
   (`internal/gitbind/gitbind.go:75` against `docs/THREAT_MODEL.md:11`). What does hold is
   `ChangeIsNoticedUnlessStaged`.
4. `nameless`: the rule on unexpected subjects prints `subject.name`, and is undefined for a subject without one, so
   an extra subject without a name is accepted (`policies/default.rego:68`); `docs/THREAT_MODEL.md:39`,
   `docs/VERIFICATION_MODEL.md:129` and `docs/DATA_MODEL.md:46` have the two sets equal. What does hold is
   `SubjectsBound`: every current subject is there, and no other name.
5. `readings`: a document with "predicate" and "Predicate" is validated and reported by the one and judged by the
   other (`internal/statement/statement.go:27`), so a level above evidence grade that rests on local execution is
   answered valid; `docs/VERIFICATION_MODEL.md:136` has it fail closed. What does hold is stated under `OneReading`.

Met while modelling, and described by the models without a run of their own:

- The action always passes a capture method, by default "wrapper", which `predicate create --version v0` refuses
  (`internal/app/app.go:138` against `action/action.yml:8`, "v0 or v1"): with `version: v0` a job stops before any
  verdict. `UndisturbedOutcome` has it among the jobs that stop.
- `findBundle` takes the first envelope, with or without certificates (`internal/signing/bundle.go:71`); its comment
  at `:27` has it take the first with a paired chain. `AcceptedIdentityIsTrusted` says that the first is the one
  accepted.
- What the command copies into a statement (branch, URL, file names, agent, model) is not looked at before phase 02
  refuses it, so a job with such text ends in `schema_invalid` and not in an error of `predicate create`.
- `predicate create` always claims evidence grade, so the action passes nothing above it, whatever identity a supplied
  context carries (`NeverAboveEvidenceGrade`; `action/README.md:66` offers such a context for policy grade: the
  verdict is `level_below_required`).
- The summary reads the files by name, whoever wrote them: in a second use of the action within one job whose commands
  fail, it may show the verdict on files of the first use. `SummaryTellsTheVerdict` says that nothing else can happen.
  A supplied context that is no JSON object gets the verdict `schema_invalid` and no summary.
- `capture.Statement` lets pass runs that the gate refuses: without an agent's name, of GitHub Actions (whose builder
  a harness cannot name), or with text the schema's patterns do not admit (`RefusedLater`).
- After the signature check, an error of `Compute` or `Locate` in `verify bundle` prints no result
  (`internal/app/context_summary.go:276-295`; `docs/VERIFICATION_MODEL.md:157` has one always written).
  `SignatureFailuresAreTold` says which failures are told.
- The context of `verify bundle` never has witnesses, servers or delegates, so no bundle that claims high assurance,
  or names one of these above evidence grade, is accepted (`NothingUnverifiedIsNamed`), when its payload reads as one
  predicate.
- `verifyRekorInclusion` looks for `tlogEntries` in the whole document, so the proof may be of another attestation
  than the envelope's; a log index that wraps at 2^64, or a JSON number out of range, is accepted when it lands on the
  entry. `InclusionAsAsked` is stated accordingly.
- `parseCertArray` skips items that are not strings, among them the objects of a current Sigstore bundle's
  `certificates`.
- A timestamp outside the years that 64-bit nanoseconds reach has no instant, and the staleness rule is then
  undefined; `NotReplayed` promises freshness for representable instants only.
- With an empty path the key of the registry's table has a NULL, and repeating `Add` repeats its rows
  (`internal/registry/registry.go:79` calls it idempotent); `OneRowPerReference` is stated for paths.
- A digest that overlaps another may leave the references of one beside the time of the other; `LastIsDescribed` is
  stated for a digest that ran alone, `StampedIsIndexed` for all.

## 6. What is not modelled

- `Sign` and its `cryptoSigner`: no command calls it. `AllowedIssuers`: no command sets it.
- X.509 path building, DSSE signatures and Merkle arithmetic: cryptography, external facts of the model; the decoding
  of an envelope (`parseEnvelope`, `decodeB64`) is one outcome, decodes or not.
- Structural rules of the schemas that nothing else rests on: patterns, lengths, closedness are one Boolean.
- What a predicate that no schema validated holds, and which codes the rules give it: any of the policy's. Between the
  two decodes only the predicate differs in the model; `_type` and `predicateType` are read from the struct alone, the
  subjects from the map alone.
- `--repo-url` and `--base-commit` of `predicate create`, which the action does not pass.
- `last_seen_at` and the pragmas of the cache, the time of indexing of the registry: nothing reads them.
- Messages, help, formatting, the text of the summary, `version` and the entry point, flag parsing beyond the
  combinations a command refuses.
- The contents of commits, renames, submodules and ignored files; git commands that see a half-written index.

## 7. Plan

Done, in this order: `Timestamps`, `Policy`, `Contracts`, `Assurance`, `VerifyPipeline` with `VerifierGate`,
`FailureOrder`, `GitBind`, `ActionGate` with `Verdict`, `VerifyBundle`, `Registry`, with their proofs; then `Registry`
as a bag with `ReferenceIndex`, `Cache`, `Capture` with the supplied context and the summary in `ActionGate`, the
certificates, PEM files and log entries of `VerifyBundle`, with theirs; then the verdict from both sides (`Justified`,
`VerdictIsExact`, `JudgedExactly`), `UndisturbedOutcome` and the gate as the abstract specification of job and bundle,
proved.

Next:

1. Reverification: a bundle accepted once and judged again after the pack or the policy was updated.
2. A harness that captures while the agent still works, as a further actor of `GitBind`.
3. An abstract specification of the cache: which references its stamp vouches for, implemented by `Cache`.
