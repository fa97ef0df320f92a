--------------------------- MODULE VerifyPipeline ---------------------------
(***************************************************************************)
(* internal/verify.Predicate, the whole verifier, as the sequence of steps *)
(* it runs: find the contract pack (internal/contracts), decode the        *)
(* statement (internal/statement), phase 01 in Go, phase 02 in JSON        *)
(* Schema, phase 03 in CUE, phase 04 in Rego, phase 05 finish.  Every      *)
(* contract file is read when its phase runs, from a directory another     *)
(* process may be writing to (a checkout, an update, an editor), so each   *)
(* file may change, vanish or break between any two steps.                 *)
(***************************************************************************)
EXTENDS Verdict

CONSTANTS
    NDirs,          \* directories from the working directory (1) up to the root
    Cases           \* the verifications: each has the statements and contexts
                    \* given to the verifier, the packs the directories hold
                    \* when it starts, and a bound on the writes to contract
                    \* files while it runs

Dirs == 1..NDirs
Files == {"schemaV0", "cueV0", "schemaV1", "cueV1", "policy", "contextSchema"}

\* What a reader finds: the file as shipped, no file, a file its compiler
\* rejects; for the policy also a module that compiles and defines no rule
\* data.agentattest.default_policy.failure_codes.
Contents(f) == {"shipped", "missing", "broken"} \cup (IF f = "policy" THEN {"norule"} ELSE {})
AnyContents == {"shipped", "missing", "broken", "norule"}
IsPacks(packs) ==
    /\ packs \in [Dirs -> [Files -> AnyContents]]
    /\ \A d \in Dirs, f \in Files : packs[d][f] \in Contents(f)

ASSUME PipelineAssumption ==
    /\ NDirs \in Nat \ {0}
    /\ \A case \in Cases :
          /\ case.changes \in Nat
          /\ \A packs \in case.packs : IsPacks(packs)
          /\ \A s \in case.statements : OneReading(s) \/ s.secondReading \subseteq PolicyCodes

VARIABLES
    pc,          \* the step Predicate is at
    dir,         \* the directory Locate looks at, then the pack's root
    pack,        \* the contract files on disk
    changes,     \* writes that others may still make to them
    read,        \* what each phase found in the file it read
    statement,
    context,
    result

vars == <<pc, dir, pack, changes, read, statement, context, result>>
inputs == <<statement, context>>

Steps == {"locate", "parse", "phase01", "schema", "context", "cue", "policy", "eval", "done"}
VerdictCodes == {"unsupported_statement_type", "predicate_type_mismatch",
                 "unsupported_predicate_version", "schema_invalid", "policy_eval_error"}
                \cup PolicyCodes

Init ==
    /\ pc = "locate"
    /\ dir = 1
    /\ \E case \in Cases :
          /\ statement \in case.statements
          /\ context \in case.contexts
          /\ pack \in case.packs
          /\ changes = case.changes
    /\ read = [f \in Files |-> "unread"]
    /\ result = [valid |-> FALSE, level |-> None, failureCodes |-> {}]

\* Faulty variant: the level reported is the level the context requires.
FinishWithRequiredLevel(level, codes) ==
    /\ pc' = "done"
    /\ result' = [valid |-> codes = {}, level |-> context.requiredLevel, failureCodes |-> codes]

\* The level reported is the level the predicate declares, whatever the codes.
Finish(level, codes) ==
    /\ pc' = "done"
    /\ result' = [valid |-> codes = {}, level |-> level, failureCodes |-> codes]

Goto(step) == pc' = step /\ UNCHANGED result

-----------------------------------------------------------------------------
\* contracts.Locate: the nearest directory that holds the v0 pack; v1 files
\* are not asked for.
Exist(d) == \A f \in {"schemaV0", "cueV0", "policy", "contextSchema"} : pack[d][f] # "missing"

\* Faulty variant: the walk does not notice that the root has no parent.
LocateForever ==
    /\ pc = "locate"
    /\ IF Exist(dir) THEN Goto("parse") /\ UNCHANGED dir
       ELSE dir' = (IF dir < NDirs THEN dir + 1 ELSE dir) /\ UNCHANGED <<pc, result>>
    /\ UNCHANGED <<pack, changes, read, inputs>>

Locate ==
    /\ pc = "locate"
    /\ \/ /\ Exist(dir)
          /\ Goto("parse")
          /\ UNCHANGED dir
       \/ /\ ~Exist(dir)
          /\ dir < NDirs
          /\ dir' = dir + 1
          /\ UNCHANGED <<pc, result>>
       \/ /\ ~Exist(dir)
          /\ dir = NDirs
          /\ Finish(None, {"schema_invalid"})
          /\ UNCHANGED dir
    /\ UNCHANGED <<pack, changes, read, inputs>>

\* statement.Parse decodes the document into a struct, whose predicate is the
\* one decoded here, and into a map, which EvaluatePolicy hands to the policy.
ParseStatement ==
    /\ pc = "parse"
    /\ IF statement.decodes /\ statement.predicateDecodes
       THEN Goto("phase01")
       ELSE Finish(None, {"schema_invalid"})
    /\ UNCHANGED <<dir, pack, changes, read, inputs>>

\* Faulty variant: phase 01 warns and falls through to phase 02.
PreSchemaGateFallsThrough ==
    /\ pc = "phase01"
    /\ Goto("schema")
    /\ UNCHANGED <<dir, pack, changes, read, inputs>>

PreSchemaGate ==
    /\ pc = "phase01"
    /\ IF PreSchemaCodes(statement) = {}
       THEN Goto("schema")
       ELSE Finish(statement.verificationLevel, PreSchemaCodes(statement))
    /\ UNCHANGED <<dir, pack, changes, read, inputs>>

-----------------------------------------------------------------------------
\* contractForVersion: the schema and the CUE file follow the predicate type.
SchemaFile(s) == IF s.predicateType = "v0" THEN "schemaV0" ELSE "schemaV1"
CueFile(s) == IF s.predicateType = "v0" THEN "cueV0" ELSE "cueV1"

\* Faulty variant: a contract that is not there has nothing to say.
ValidateIfPresent(step, file, satisfied, next) ==
    /\ pc = step
    /\ read' = [read EXCEPT ![file] = pack[dir][file]]
    /\ IF pack[dir][file] = "missing" \/ (pack[dir][file] = "shipped" /\ satisfied)
       THEN Goto(next)
       ELSE Finish(statement.verificationLevel, {"schema_invalid"})
    /\ UNCHANGED <<dir, pack, changes, inputs>>

\* A phase reads its file and fails with schema_invalid when the file cannot
\* be read or compiled, or when the input does not satisfy it.
Validate(step, file, satisfied, next) ==
    /\ pc = step
    /\ read' = [read EXCEPT ![file] = pack[dir][file]]
    /\ IF pack[dir][file] = "shipped" /\ satisfied
       THEN Goto(next)
       ELSE Finish(statement.verificationLevel, {"schema_invalid"})
    /\ UNCHANGED <<dir, pack, changes, inputs>>

ValidatePredicateSchema == Validate("schema", SchemaFile(statement), SchemaValid(statement), "context")
ValidateContextSchema == Validate("context", "contextSchema", ContextValid(context), "cue")
ValidateCue == Validate("cue", CueFile(statement), CueValid(statement), "policy")

-----------------------------------------------------------------------------
\* contracts.Read of the policy, then its evaluation: two steps of the code.
\* The context decodes again before the read; it passed its schema, so it does.
ReadPolicy ==
    /\ pc = "policy"
    /\ read' = [read EXCEPT !["policy"] = pack[dir]["policy"]]
    /\ IF pack[dir]["policy"] = "missing"
       THEN Finish(statement.verificationLevel, {"policy_eval_error"})
       ELSE Goto("eval")
    /\ UNCHANGED <<dir, pack, changes, inputs>>

\* Faulty variant: the collector does not know the type of the query's result.
EvaluatedCodesUncollected(module, s, c) ==
    IF module = "broken" THEN {"policy_eval_error"} ELSE {}

\* policy.FailureCodes: no result of the query is an empty set of codes.  The
\* statement of its input is the map's, so a second reading is judged here and
\* nowhere before.
EvaluatedCodes(module, s, c) ==
    IF module = "broken" THEN {"policy_eval_error"}
    ELSE IF module = "norule" THEN {}
    ELSE FailureCodes(s, c)

EvaluatePolicy ==
    /\ pc = "eval"
    /\ Finish(statement.verificationLevel, EvaluatedCodes(read["policy"], statement, context))
    /\ UNCHANGED <<dir, pack, changes, read, inputs>>

\* The environment: someone writes, removes or breaks a contract file.
ChangeFile(d, f, contents) ==
    /\ pc # "done"
    /\ changes > 0
    /\ contents # pack[d][f]
    /\ pack' = [pack EXCEPT ![d][f] = contents]
    /\ changes' = changes - 1
    /\ UNCHANGED <<pc, dir, read, inputs, result>>

VerifierStep ==
    \/ Locate
    \/ ParseStatement
    \/ PreSchemaGate
    \/ ValidatePredicateSchema
    \/ ValidateContextSchema
    \/ ValidateCue
    \/ ReadPolicy
    \/ EvaluatePolicy

Next ==
    \/ VerifierStep
    \/ \E d \in Dirs, f \in Files : \E contents \in Contents(f) : ChangeFile(d, f, contents)

\* One goroutine runs the steps; writers owe the verifier nothing.
Spec == Init /\ [][Next]_vars /\ WF_vars(VerifierStep)

-----------------------------------------------------------------------------
\* Every variable stays in its range, and the level reported is none but the
\* declared one.
TypeOK ==
    /\ pc \in Steps
    /\ dir \in Dirs
    /\ IsPacks(pack)
    /\ changes \in Nat
    /\ read \in [Files -> AnyContents \cup {"unread"}]
    /\ result.valid \in BOOLEAN
    /\ result.level \in {None, statement.verificationLevel}
    /\ result.failureCodes \subseteq VerdictCodes

Accepted == pc = "done" /\ result.valid

\* A statement accepted under the shipped policy is about the current subjects
\* and, when it reads as one predicate, has everything its claimed level
\* promises, whatever happened to the contract files meanwhile: the guarantee
\* is spread over phases 01 to 04 and over four files.
AcceptedIsAssured == Accepted /\ read["policy"] = "shipped" => Assured(statement, context)

\* Nothing is accepted unless the schema and the CUE file of the statement's
\* own version, the context schema and a policy module were all read intact.
AcceptedReadItsContracts ==
    Accepted =>
        /\ \A f \in {SchemaFile(statement), CueFile(statement), "contextSchema"} : read[f] = "shipped"
        /\ read["policy"] \in {"shipped", "norule"}
        /\ \A f \in {"schemaV0", "cueV0", "schemaV1", "cueV1"} \ {SchemaFile(statement), CueFile(statement)} :
              read[f] = "unread"

\* VERIFICATION_MODEL.md:73 -- a failure has one owning phase and no later
\* phase reclassifies it: codes of two phases never appear together, and a
\* statement that an earlier phase rejects never carries a later phase's code.
OneOwningPhase ==
    pc = "done" /\ ~result.valid =>
        \/ /\ result.failureCodes = {"schema_invalid"}
           /\ result.level # None => PreSchemaCodes(statement) = {}
        \/ result.failureCodes = PreSchemaCodes(statement)
        \/ /\ result.failureCodes = {"policy_eval_error"} \/ result.failureCodes \subseteq PolicyCodes
           /\ PreSchemaCodes(statement) = {}
           /\ SchemaValid(statement) /\ ContextValid(context) /\ CueValid(statement)

\* The rules deny nothing they need not: a statement judged under an intact
\* pack is accepted exactly when it and the context satisfy their contracts, it
\* has what its level promises, and nothing it declares is disputed; one
\* that reads as two predicates exactly when the rules have nothing against
\* the one that no phase validated.  Its codes are then those of the function
\* the commands are modelled with.
VerdictIsExact ==
    pc = "done" /\ result.level # None /\ (\A f \in Files : read[f] \in {"unread", "shipped"}) =>
        /\ result.failureCodes = Judge(statement, context)
        /\ result.valid <=> Justified(statement, context)

\* The pipeline implements the abstract gate: every verification ends with one
\* verdict, however the contract files change.
Gate == INSTANCE VerifierGate WITH
    verdict <- IF pc # "done" THEN "pending"
               ELSE IF ~result.valid THEN "rejected"
               ELSE IF read["policy"] = "shipped" THEN "accepted"
               ELSE "unjudged"
GateSpec == Gate!Spec

-----------------------------------------------------------------------------
\* VERIFICATION_MODEL.md:140 says an evaluation that cannot decide fails
\* closed: whatever is accepted was judged by the deny rules.
AcceptedWasJudged == Accepted => read["policy"] = "shipped"

\* VERIFICATION_MODEL.md:79 and CONTRACT_PATCH_PLAN_2026Q1.md:89 say phase 03
\* orders the timestamps: an accepted run did not finish before it started.
AcceptedRunIsOrdered ==
    Accepted => Instant(statement.startedAt) <= Instant(statement.finishedAt)

\* THREAT_MODEL.md:39 and VERIFICATION_MODEL.md:129 say the statement's subjects
\* and the verifier's are equal sets: an accepted statement has no other subject.
SubjectSetsAreEqual ==
    Accepted /\ read["policy"] = "shipped" =>
        \A subject \in statement.subject :
            \E i \in DOMAIN context.subjects : SubjectMatches(subject, context.subjects[i])

\* VERIFICATION_MODEL.md:136 says a level claimed without what it rests on fails
\* closed in phase 04: no accepted statement is reported at such a level.
AcceptedClaimsAreBacked ==
    Accepted /\ read["policy"] = "shipped" => ~LevelEscalation(statement)

\* What holds instead: it did not finish in an earlier second, and not earlier
\* at all when finishedAt is written with at least the digits of startedAt.
AcceptedRunIsOrderedToTheDigit ==
    Accepted /\ {statement.startedAt, statement.finishedAt} \subseteq Timestamp =>
        /\ statement.startedAt.second <= statement.finishedAt.second
        /\ DOMAIN statement.startedAt.fraction \subseteq DOMAIN statement.finishedAt.fraction =>
              Instant(statement.startedAt) <= Instant(statement.finishedAt)

=============================================================================
