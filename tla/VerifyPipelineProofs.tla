------------------------ MODULE VerifyPipelineProofs ------------------------
(***************************************************************************)
(* Proofs about VerifyPipeline, for every set of statements and contexts,  *)
(* every chain of directories and every bound on the changes of the pack.  *)
(*                                                                         *)
(* The argument: each phase leaves behind a fact about the statement and a *)
(* fact about the file it read.  Contract files change between the phases  *)
(* but neither fact speaks of the disk, so both survive; together with the *)
(* empty set of deny codes they give what the claimed level promises.      *)
(***************************************************************************)
EXTENDS VerifyPipeline, AssuranceProofs

\* What the steps already taken have established.
AfterGate == {"schema", "context", "cue", "policy", "eval"}
AfterSchema == {"context", "cue", "policy", "eval"}
AfterContext == {"cue", "policy", "eval"}
AfterCue == {"policy", "eval"}

GateFacts == PreSchemaCodes(statement) = {}
SchemaFacts == SchemaValid(statement) /\ read[SchemaFile(statement)] = "shipped"
ContextFacts == ContextValid(context) /\ read["contextSchema"] = "shipped"
CueFacts == CueValid(statement) /\ read[CueFile(statement)] = "shipped"
PolicyFacts == read["policy"] \in {"shipped", "norule", "broken"}

Routed ==
    \A f \in {"schemaV0", "cueV0", "schemaV1", "cueV1"} \ {SchemaFile(statement), CueFile(statement)} :
        read[f] = "unread"

PhaseFacts ==
    /\ pc \in AfterGate => GateFacts
    /\ pc \in AfterSchema => SchemaFacts
    /\ pc \in AfterContext => ContextFacts
    /\ pc \in AfterCue => CueFacts
    /\ pc = "eval" => PolicyFacts

AcceptedFacts ==
    Accepted =>
        /\ GateFacts /\ SchemaFacts /\ ContextFacts /\ CueFacts
        /\ read["policy"] \in {"shipped", "norule"}
        /\ read["policy"] = "shipped" => FailureCodes(statement, context) = {}

\* The codes a second reading gives are codes of the policy.
ReadingKnown == OneReading(statement) \/ statement.secondReading \subseteq PolicyCodes

Facts == Routed /\ PhaseFacts /\ AcceptedFacts /\ OneOwningPhase
TypesKnown == TypeOK /\ ReadingKnown
IInv == TypesKnown /\ Facts

-----------------------------------------------------------------------------
(* The inductive invariant.                                                *)

\* The codes of every phase belong to the vocabulary of the verifier.
LEMMA CodesAreKnown ==
    ASSUME NEW s, NEW c, NEW module, OneReading(s) \/ s.secondReading \subseteq PolicyCodes
    PROVE  /\ PreSchemaCodes(s) \subseteq VerdictCodes
           /\ FailureCodes(s, c) \subseteq PolicyCodes
           /\ EvaluatedCodes(module, s, c) \subseteq VerdictCodes
<1>1. PreSchemaCodes(s) \subseteq VerdictCodes
  BY DEF PreSchemaCodes, VerdictCodes, When
<1>2. FailureCodes(s, c) \subseteq PolicyCodes
  <2>1. PredicateCodes(s, c) \subseteq PolicyCodes
    BY DEF PredicateCodes, PolicyCodes, When
  <2>2. When("subject_digest_mismatch", SubjectDigestMismatch(s, c)) \subseteq PolicyCodes
    BY DEF PolicyCodes, When
  <2>. QED
    BY <2>1, <2>2 DEF FailureCodes
<1>3. EvaluatedCodes(module, s, c) \subseteq VerdictCodes
  BY <1>2 DEF EvaluatedCodes, VerdictCodes
<1>. QED
  BY <1>1, <1>2, <1>3

\* The files of a statement's version are two of the six contract files.
LEMMA FilesOfVersion ==
    ASSUME NEW s
    PROVE  /\ SchemaFile(s) \in {"schemaV0", "schemaV1"}
           /\ CueFile(s) \in {"cueV0", "cueV1"}
BY DEF SchemaFile, CueFile

LEMMA InitEstablishesIInv == Init => IInv
<1>. SUFFICES ASSUME Init PROVE IInv
  OBVIOUS
<1>1. TypeOK
  BY PipelineAssumption
  DEF Init, TypeOK, Steps, Dirs, AnyContents, VerdictCodes
<1>3. ReadingKnown
  BY PipelineAssumption DEF Init, ReadingKnown
<1>2. Facts
  BY FilesOfVersion DEF Init, Facts, Routed, PhaseFacts, AcceptedFacts, OneOwningPhase, Accepted, Files,
     AfterGate, AfterSchema, AfterContext, AfterCue
<1>. QED
  BY <1>1, <1>2, <1>3 DEF IInv, TypesKnown

ControlOK ==
    /\ pc \in Steps
    /\ result.valid \in BOOLEAN
    /\ result.level \in {None, statement.verificationLevel}
    /\ result.failureCodes \subseteq VerdictCodes

\* Going on to a step and finishing with known codes both keep the types.
LEMMA FinishKeepsControl ==
    ASSUME NEW STATE level, level \in {None, statement.verificationLevel}, NEW STATE codes,
           codes \subseteq VerdictCodes, Finish(level, codes), statement' = statement
    PROVE  ControlOK'
<1>1. result'.valid = (codes = {}) /\ result'.level = level /\ result'.failureCodes = codes
  BY DEF Finish
<1>. QED
  BY <1>1 DEF Finish, ControlOK, Steps

LEMMA GotoKeepsControl ==
    ASSUME ControlOK, NEW step \in Steps, Goto(step), statement' = statement
    PROVE  ControlOK'
BY DEF Goto, ControlOK

\* A step that reads one contract file and one input.
LEMMA ValidateKeepsTypes ==
    ASSUME TypeOK, NEW step, NEW STATE file, file \in Files, NEW STATE satisfied, NEW next \in Steps,
           Validate(step, file, satisfied, next)
    PROVE  TypeOK'
<1>1. read' \in [Files -> AnyContents \cup {"unread"}] /\ IsPacks(pack)'
  BY DEF Validate, TypeOK, IsPacks
<1>2. ControlOK'
  <2>1. ControlOK /\ statement' = statement
    BY DEF TypeOK, ControlOK, Validate, inputs
  <2>2. CASE Goto(next)
    BY <2>1, <2>2, GotoKeepsControl
  <2>3. CASE Finish(statement.verificationLevel, {"schema_invalid"})
    BY <2>1, <2>3, FinishKeepsControl DEF VerdictCodes
  <2>. QED
    BY <2>2, <2>3 DEF Validate
<1>. QED
  BY <1>1, <1>2 DEF Validate, TypeOK, ControlOK

\* No step touches the inputs.
LEMMA InputsStay == [Next]_vars => UNCHANGED inputs
BY DEF Next, VerifierStep, Locate, ParseStatement, PreSchemaGate, ValidatePredicateSchema,
   ValidateContextSchema, ValidateCue, Validate, ReadPolicy, EvaluatePolicy, ChangeFile, vars, inputs

LEMMA TypesInductive == TypesKnown /\ [Next]_vars => TypesKnown'
<1>. SUFFICES ASSUME TypeOK, ReadingKnown, [Next]_vars PROVE TypeOK'
  BY InputsStay DEF TypesKnown, ReadingKnown, inputs
<1>0. ControlOK
  BY DEF TypeOK, ControlOK
<1>1. CASE Locate
  <2>1. CASE Goto("parse") /\ UNCHANGED dir
    <3>1. ControlOK'
      BY <1>0, <1>1, <2>1, GotoKeepsControl DEF Locate, inputs, Steps
    <3>. QED
      BY <1>1, <2>1, <3>1 DEF Locate, TypeOK, ControlOK, IsPacks
  <2>2. CASE dir < NDirs /\ dir' = dir + 1 /\ UNCHANGED <<pc, result>>
    <3>1. dir' \in Dirs
      BY <2>2, PipelineAssumption DEF Dirs, TypeOK
    <3>. QED
      BY <1>1, <2>2, <3>1 DEF Locate, TypeOK, IsPacks, inputs
  <2>3. CASE Finish(None, {"schema_invalid"}) /\ UNCHANGED dir
    <3>1. ControlOK'
      BY <1>1, <2>3, FinishKeepsControl DEF Locate, inputs, VerdictCodes
    <3>. QED
      BY <1>1, <2>3, <3>1 DEF Locate, TypeOK, ControlOK, IsPacks
  <2>. QED
    BY <1>1, <2>1, <2>2, <2>3 DEF Locate
<1>2. CASE ParseStatement
  <2>1. ControlOK'
    <3>1. CASE Goto("phase01")
      BY <1>0, <1>2, <3>1, GotoKeepsControl DEF ParseStatement, inputs, Steps
    <3>2. CASE Finish(None, {"schema_invalid"})
      BY <1>2, <3>2, FinishKeepsControl DEF ParseStatement, inputs, VerdictCodes
    <3>. QED
      BY <1>2, <3>1, <3>2 DEF ParseStatement
  <2>. QED
    BY <1>2, <2>1 DEF ParseStatement, TypeOK, ControlOK, IsPacks
<1>3. CASE PreSchemaGate
  <2>1. ControlOK'
    <3>1. CASE Goto("schema")
      BY <1>0, <1>3, <3>1, GotoKeepsControl DEF PreSchemaGate, inputs, Steps
    <3>2. CASE Finish(statement.verificationLevel, PreSchemaCodes(statement))
      BY <1>3, <3>2, FinishKeepsControl, CodesAreKnown DEF PreSchemaGate, inputs, ReadingKnown
    <3>. QED
      BY <1>3, <3>1, <3>2 DEF PreSchemaGate
  <2>. QED
    BY <1>3, <2>1 DEF PreSchemaGate, TypeOK, ControlOK, IsPacks
<1>4. CASE ValidatePredicateSchema
  BY <1>4, ValidateKeepsTypes, FilesOfVersion DEF ValidatePredicateSchema, Files, Steps
<1>5. CASE ValidateContextSchema
  BY <1>5, ValidateKeepsTypes DEF ValidateContextSchema, Files, Steps
<1>6. CASE ValidateCue
  BY <1>6, ValidateKeepsTypes, FilesOfVersion DEF ValidateCue, Files, Steps
<1>7. CASE ReadPolicy
  <2>1. read' \in [Files -> AnyContents \cup {"unread"}] /\ IsPacks(pack)'
    BY <1>7 DEF ReadPolicy, TypeOK, IsPacks, Dirs, Files
  <2>2. ControlOK'
    <3>1. CASE Goto("eval")
      BY <1>0, <1>7, <3>1, GotoKeepsControl DEF ReadPolicy, inputs, Steps
    <3>2. CASE Finish(statement.verificationLevel, {"policy_eval_error"})
      BY <1>7, <3>2, FinishKeepsControl DEF ReadPolicy, inputs, VerdictCodes
    <3>. QED
      BY <1>7, <3>1, <3>2 DEF ReadPolicy
  <2>. QED
    BY <1>7, <2>1, <2>2 DEF ReadPolicy, TypeOK, ControlOK
<1>8. CASE EvaluatePolicy
  <2>1. ControlOK'
    BY <1>8, FinishKeepsControl, CodesAreKnown DEF EvaluatePolicy, inputs, ReadingKnown
  <2>. QED
    BY <1>8, <2>1 DEF EvaluatePolicy, TypeOK, ControlOK, IsPacks
<1>9. ASSUME NEW d \in Dirs, NEW f \in Files, NEW contents \in Contents(f), ChangeFile(d, f, contents)
      PROVE  TypeOK'
  <2>1. IsPacks(pack)'
    BY <1>9 DEF ChangeFile, TypeOK, IsPacks, Contents, AnyContents
  <2>2. changes' \in Nat
    BY <1>9, PipelineAssumption DEF ChangeFile, TypeOK
  <2>. QED
    BY <1>9, <2>1, <2>2 DEF ChangeFile, TypeOK, inputs
<1>10. CASE UNCHANGED vars
  BY <1>10 DEF vars, TypeOK, IsPacks
<1>. QED
  BY <1>1, <1>2, <1>3, <1>4, <1>5, <1>6, <1>7, <1>8, <1>9, <1>10 DEF Next, VerifierStep

\* TypeOK is an invariant: every variable of the verifier keeps its range,
\* whatever happens to the contract files.
THEOREM TypeCorrect == Spec => []TypeOK
<1>1. Init => TypesKnown
  BY InitEstablishesIInv DEF IInv
<1>2. TypesKnown => TypeOK
  BY DEF TypesKnown
<1>. QED
  BY <1>1, <1>2, TypesInductive, PTL DEF Spec

\* A step of one phase keeps what the phases before it established.
LEMMA LocateKeepsFacts == TypeOK /\ Facts /\ Locate => Facts'
<1>. SUFFICES ASSUME TypeOK, Facts, Locate PROVE Facts'
  OBVIOUS
<1>1. UNCHANGED <<read, statement, context>>
  BY DEF Locate, inputs
<1>2. CASE Goto("parse") \/ UNCHANGED <<pc, result>>
  BY <1>1, <1>2 DEF Locate, Goto, Facts, Routed, PhaseFacts, AcceptedFacts, OneOwningPhase, Accepted,
     AfterGate, AfterSchema, AfterContext, AfterCue
<1>3. CASE Finish(None, {"schema_invalid"})
  BY <1>1, <1>3 DEF Finish, Facts, Routed, PhaseFacts, AcceptedFacts, OneOwningPhase, Accepted,
     AfterGate, AfterSchema, AfterContext, AfterCue
<1>. QED
  BY <1>2, <1>3 DEF Locate

LEMMA ParseKeepsFacts == TypeOK /\ Facts /\ ParseStatement => Facts'
<1>. SUFFICES ASSUME TypeOK, Facts, ParseStatement PROVE Facts'
  OBVIOUS
<1>1. UNCHANGED <<read, statement, context>>
  BY DEF ParseStatement, inputs
<1>2. CASE Goto("phase01")
  BY <1>1, <1>2 DEF Goto, Facts, Routed, PhaseFacts, AcceptedFacts, OneOwningPhase, Accepted,
     AfterGate, AfterSchema, AfterContext, AfterCue
<1>3. CASE Finish(None, {"schema_invalid"})
  BY <1>1, <1>3 DEF Finish, Facts, Routed, PhaseFacts, AcceptedFacts, OneOwningPhase, Accepted,
     AfterGate, AfterSchema, AfterContext, AfterCue
<1>. QED
  BY <1>2, <1>3 DEF ParseStatement

LEMMA GateKeepsFacts == TypeOK /\ Facts /\ PreSchemaGate => Facts'
<1>. SUFFICES ASSUME TypeOK, Facts, PreSchemaGate PROVE Facts'
  OBVIOUS
<1>1. UNCHANGED <<read, statement, context>>
  BY DEF PreSchemaGate, inputs
<1>2. CASE PreSchemaCodes(statement) = {} /\ Goto("schema")
  BY <1>1, <1>2 DEF Goto, Facts, Routed, PhaseFacts, AcceptedFacts, OneOwningPhase, Accepted, GateFacts,
     AfterGate, AfterSchema, AfterContext, AfterCue
<1>3. CASE PreSchemaCodes(statement) # {} /\ Finish(statement.verificationLevel, PreSchemaCodes(statement))
  BY <1>1, <1>3 DEF Finish, Facts, Routed, PhaseFacts, AcceptedFacts, OneOwningPhase, Accepted,
     AfterGate, AfterSchema, AfterContext, AfterCue
<1>. QED
  BY <1>2, <1>3 DEF PreSchemaGate

\* What was read stays read: a phase writes only the entry of its own file.
LEMMA ValidateReads ==
    ASSUME TypeOK, NEW step, NEW STATE file, file \in Files, NEW STATE satisfied, NEW next \in Steps,
           Validate(step, file, satisfied, next)
    PROVE  /\ UNCHANGED <<statement, context>>
           /\ \A f \in Files : f # file => read'[f] = read[f]
           /\ \/ Goto(next) /\ satisfied /\ read'[file] = "shipped"
              \/ Finish(statement.verificationLevel, {"schema_invalid"})
BY DEF Validate, TypeOK, inputs

LEMMA SchemaKeepsFacts == TypeOK /\ Facts /\ ValidatePredicateSchema => Facts'
<1>. SUFFICES ASSUME TypeOK, Facts, ValidatePredicateSchema PROVE Facts'
  OBVIOUS
<1>. DEFINE file == SchemaFile(statement)
<1>1. /\ pc = "schema"
      /\ UNCHANGED <<statement, context>>
      /\ \A f \in Files : f # file => read'[f] = read[f]
      /\ \/ Goto("context") /\ SchemaValid(statement) /\ read'[file] = "shipped"
         \/ Finish(statement.verificationLevel, {"schema_invalid"})
  <2>1. Validate("schema", file, SchemaValid(statement), "context")
    BY DEF ValidatePredicateSchema
  <2>2. file \in Files /\ "context" \in Steps
    BY FilesOfVersion DEF Files, Steps
  <2>3. pc = "schema"
    BY <2>1 DEF Validate
  <2>. HIDE DEF file
  <2>. QED
    BY <2>1, <2>2, <2>3, ValidateReads
<1>2. Routed'
  BY <1>1 DEF Facts, Routed, Files, SchemaFile, CueFile
<1>3. CASE Goto("context") /\ SchemaValid(statement) /\ read'[file] = "shipped"
  BY <1>1, <1>2, <1>3 DEF Goto, Facts, PhaseFacts, GateFacts, SchemaFacts, AcceptedFacts, OneOwningPhase,
     Accepted, AfterGate, AfterSchema, AfterContext, AfterCue
<1>4. CASE Finish(statement.verificationLevel, {"schema_invalid"})
  BY <1>1, <1>2, <1>4 DEF Finish, Facts, PhaseFacts, GateFacts, AcceptedFacts, OneOwningPhase,
     Accepted, AfterGate, AfterSchema, AfterContext, AfterCue
<1>. QED
  BY <1>1, <1>3, <1>4

LEMMA ContextKeepsFacts == TypeOK /\ Facts /\ ValidateContextSchema => Facts'
<1>. SUFFICES ASSUME TypeOK, Facts, ValidateContextSchema PROVE Facts'
  OBVIOUS
<1>1. /\ pc = "context"
      /\ UNCHANGED <<statement, context>>
      /\ \A f \in Files : f # "contextSchema" => read'[f] = read[f]
      /\ \/ Goto("cue") /\ ContextValid(context) /\ read'["contextSchema"] = "shipped"
         \/ Finish(statement.verificationLevel, {"schema_invalid"})
  <2>1. Validate("context", "contextSchema", ContextValid(context), "cue")
    BY DEF ValidateContextSchema
  <2>2. "contextSchema" \in Files /\ "cue" \in Steps
    BY FilesOfVersion DEF Files, Steps
  <2>3. pc = "context"
    BY <2>1 DEF Validate
  <2>. QED
    BY <2>1, <2>2, <2>3, ValidateReads
<1>2. Routed' /\ (SchemaFacts => SchemaFacts')
  BY <1>1 DEF Facts, Routed, Files, SchemaFile, CueFile, SchemaFacts
<1>3. CASE Goto("cue") /\ ContextValid(context) /\ read'["contextSchema"] = "shipped"
  BY <1>1, <1>2, <1>3 DEF Goto, Facts, PhaseFacts, GateFacts, ContextFacts, AcceptedFacts, OneOwningPhase,
     Accepted, AfterGate, AfterSchema, AfterContext, AfterCue
<1>4. CASE Finish(statement.verificationLevel, {"schema_invalid"})
  BY <1>1, <1>2, <1>4 DEF Finish, Facts, PhaseFacts, GateFacts, AcceptedFacts, OneOwningPhase,
     Accepted, AfterGate, AfterSchema, AfterContext, AfterCue
<1>. QED
  BY <1>1, <1>3, <1>4

LEMMA CueKeepsFacts == TypeOK /\ Facts /\ ValidateCue => Facts'
<1>. SUFFICES ASSUME TypeOK, Facts, ValidateCue PROVE Facts'
  OBVIOUS
<1>. DEFINE file == CueFile(statement)
<1>1. /\ pc = "cue"
      /\ UNCHANGED <<statement, context>>
      /\ \A f \in Files : f # file => read'[f] = read[f]
      /\ \/ Goto("policy") /\ CueValid(statement) /\ read'[file] = "shipped"
         \/ Finish(statement.verificationLevel, {"schema_invalid"})
  <2>1. Validate("cue", file, CueValid(statement), "policy")
    BY DEF ValidateCue
  <2>2. file \in Files /\ "policy" \in Steps
    BY FilesOfVersion DEF Files, Steps
  <2>3. pc = "cue"
    BY <2>1 DEF Validate
  <2>. HIDE DEF file
  <2>. QED
    BY <2>1, <2>2, <2>3, ValidateReads
<1>2. Routed' /\ (SchemaFacts => SchemaFacts') /\ (ContextFacts => ContextFacts')
  BY <1>1 DEF Facts, Routed, Files, SchemaFile, CueFile, SchemaFacts, ContextFacts
<1>3. CASE Goto("policy") /\ CueValid(statement) /\ read'[file] = "shipped"
  BY <1>1, <1>2, <1>3 DEF Goto, Facts, PhaseFacts, GateFacts, CueFacts, AcceptedFacts, OneOwningPhase,
     Accepted, AfterGate, AfterSchema, AfterContext, AfterCue
<1>4. CASE Finish(statement.verificationLevel, {"schema_invalid"})
  BY <1>1, <1>2, <1>4 DEF Finish, Facts, PhaseFacts, GateFacts, AcceptedFacts, OneOwningPhase,
     Accepted, AfterGate, AfterSchema, AfterContext, AfterCue
<1>. QED
  BY <1>1, <1>3, <1>4

LEMMA ReadPolicyKeepsFacts == TypeOK /\ Facts /\ ReadPolicy => Facts'
<1>. SUFFICES ASSUME TypeOK, Facts, ReadPolicy PROVE Facts'
  OBVIOUS
<1>1. /\ pc = "policy"
      /\ UNCHANGED <<statement, context>>
      /\ \A f \in Files : f # "policy" => read'[f] = read[f]
  BY DEF ReadPolicy, TypeOK, inputs
<1>2. /\ Routed'
      /\ SchemaFacts => SchemaFacts'
      /\ ContextFacts => ContextFacts'
      /\ CueFacts => CueFacts'
  BY <1>1 DEF Facts, Routed, Files, SchemaFile, CueFile, SchemaFacts, ContextFacts, CueFacts
<1>3. CASE pack[dir]["policy"] # "missing" /\ Goto("eval")
  <2>1. PolicyFacts'
    <3>1. pack[dir]["policy"] \in {"shipped", "broken", "norule"}
      BY <1>3 DEF TypeOK, IsPacks, Files, AnyContents
    <3>2. read'["policy"] = pack[dir]["policy"]
      BY DEF ReadPolicy, TypeOK, Files
    <3>. QED
      BY <3>1, <3>2 DEF PolicyFacts
  <2>. QED
    BY <1>1, <1>2, <1>3, <2>1 DEF Goto, Facts, PhaseFacts, GateFacts, AcceptedFacts, OneOwningPhase,
       Accepted, AfterGate, AfterSchema, AfterContext, AfterCue
<1>4. CASE Finish(statement.verificationLevel, {"policy_eval_error"})
  BY <1>1, <1>2, <1>4 DEF Finish, Facts, PhaseFacts, GateFacts, SchemaFacts, ContextFacts, CueFacts,
     AcceptedFacts, OneOwningPhase, Accepted, AfterGate, AfterSchema, AfterContext, AfterCue
<1>. QED
  BY <1>3, <1>4 DEF ReadPolicy

LEMMA EvaluateKeepsFacts == TypeOK /\ ReadingKnown /\ Facts /\ EvaluatePolicy => Facts'
<1>. SUFFICES ASSUME TypeOK, ReadingKnown, Facts, EvaluatePolicy PROVE Facts'
  OBVIOUS
<1>. DEFINE codes == EvaluatedCodes(read["policy"], statement, context)
<1>1. /\ UNCHANGED <<read, statement, context>>
      /\ pc' = "done"
      /\ result'.valid = (codes = {}) /\ result'.failureCodes = codes
  BY DEF EvaluatePolicy, Finish, inputs
<1>2. GateFacts /\ SchemaFacts /\ ContextFacts /\ CueFacts /\ PolicyFacts
  BY DEF EvaluatePolicy, Facts, PhaseFacts, AfterGate, AfterSchema, AfterContext, AfterCue
<1>3. codes = {"policy_eval_error"} \/ codes \subseteq PolicyCodes
  BY CodesAreKnown DEF EvaluatedCodes, ReadingKnown
<1>4. codes = {} => /\ read["policy"] \in {"shipped", "norule"}
                    /\ read["policy"] = "shipped" => FailureCodes(statement, context) = {}
  BY <1>2 DEF EvaluatedCodes, PolicyFacts
<1>. HIDE DEF codes
<1>5. Routed' /\ PhaseFacts'
  BY <1>1 DEF Facts, Routed, PhaseFacts, AfterGate, AfterSchema, AfterContext, AfterCue
<1>6. AcceptedFacts'
  BY <1>1, <1>2, <1>4 DEF AcceptedFacts, Accepted, GateFacts, SchemaFacts, ContextFacts, CueFacts
<1>7. OneOwningPhase'
  BY <1>1, <1>2, <1>3 DEF OneOwningPhase, GateFacts, SchemaFacts, ContextFacts, CueFacts
<1>. QED
  BY <1>5, <1>6, <1>7 DEF Facts

\* IInv is inductive.  A change of a contract file touches none of its facts.
LEMMA IInvInductive == IInv /\ [Next]_vars => IInv'
<1>. SUFFICES ASSUME IInv, [Next]_vars PROVE Facts'
  BY TypesInductive DEF IInv
<1>. USE DEF IInv, TypesKnown
<1>1. CASE \E d \in Dirs, f \in Files : \E contents \in Contents(f) : ChangeFile(d, f, contents)
  <2>1. UNCHANGED <<pc, read, statement, context, result>>
    BY <1>1 DEF ChangeFile, inputs
  <2>. QED
    BY <2>1 DEF Facts, Routed, PhaseFacts, GateFacts, SchemaFacts, ContextFacts, CueFacts, PolicyFacts,
       AcceptedFacts, OneOwningPhase, Accepted
<1>2. CASE UNCHANGED vars
  BY <1>2 DEF vars, Facts, Routed, PhaseFacts, GateFacts, SchemaFacts, ContextFacts, CueFacts, PolicyFacts,
     AcceptedFacts, OneOwningPhase, Accepted
<1>. QED
  BY <1>1, <1>2, LocateKeepsFacts, ParseKeepsFacts, GateKeepsFacts, SchemaKeepsFacts, ContextKeepsFacts,
     CueKeepsFacts, ReadPolicyKeepsFacts, EvaluateKeepsFacts DEF Next, VerifierStep

LEMMA IInvInvariant == Spec => []IInv
<1>. QED
  BY InitEstablishesIInv, IInvInductive, PTL DEF Spec

-----------------------------------------------------------------------------
(* The safety properties of the pipeline.                                  *)

\* A statement accepted under the shipped policy has what its claimed level
\* promises: the guarantee of verify.Predicate, for every input.
THEOREM AcceptedStatementsAreAssured == Spec => []AcceptedIsAssured
<1>1. IInv => AcceptedIsAssured
  BY PhasesAssure DEF IInv, Facts, AcceptedFacts, AcceptedIsAssured, GateFacts, SchemaFacts, ContextFacts, CueFacts
<1>. QED
  BY <1>1, IInvInvariant, PTL

\* Acceptance needs the contract files of the statement's own version, intact
\* at the moment each was read (verify.go:57-78).
THEOREM AcceptanceReadsItsContracts == Spec => []AcceptedReadItsContracts
<1>1. IInv => AcceptedReadItsContracts
  BY DEF IInv, Facts, Routed, AcceptedFacts, AcceptedReadItsContracts, SchemaFacts, ContextFacts, CueFacts
<1>. QED
  BY <1>1, IInvInvariant, PTL

\* No phase reclassifies the failure of an earlier one (verify.go:48-87).
THEOREM FailuresHaveOneOwner == Spec => []OneOwningPhase
<1>1. IInv => OneOwningPhase
  BY DEF IInv, Facts
<1>. QED
  BY <1>1, IInvInvariant, PTL

-----------------------------------------------------------------------------
(* The verdict is exact: the codes of a finished verification that read    *)
(* its files intact are those of the function Judge.                       *)

Intact == \A f \in Files : read[f] \in {"unread", "shipped"}
Decoded == statement.decodes /\ statement.predicateDecodes

Exact ==
    /\ pc \in {"phase01"} \cup AfterGate => Decoded
    /\ pc = "done" =>
          /\ result.valid <=> result.failureCodes = {}
          /\ result.level # None /\ Intact => Decoded /\ result.failureCodes = Judge(statement, context)

LEMMA FinishIsExact ==
    ASSUME NEW STATE level, NEW STATE codes, Finish(level, codes),
           level # None /\ Intact' => Decoded' /\ codes = Judge(statement, context)'
    PROVE  Exact'
<1>1. pc' = "done" /\ result'.valid = (codes = {}) /\ result'.level = level /\ result'.failureCodes = codes
  BY DEF Finish
<1>. QED
  BY <1>1 DEF Exact, AfterGate

LEMMA GotoIsExact ==
    ASSUME Exact, NEW step \in Steps \ {"done"}, Goto(step), Decoded'
    PROVE  Exact'
BY DEF Exact, Goto

\* A phase that fails on a file it found as shipped fails for its input.
LEMMA ValidateIsExact ==
    ASSUME TypeOK, Exact, NEW step \in AfterGate, NEW STATE file, file \in Files, NEW STATE satisfied,
           NEW next \in Steps \ {"done"}, Validate(step, file, satisfied, next),
           ~satisfied => Judge(statement, context) = {"schema_invalid"}
    PROVE  Exact'
<1>1. Decoded /\ UNCHANGED <<statement, context>>
  BY DEF Validate, Exact, inputs
<1>2. CASE Goto(next)
  BY <1>1, <1>2, GotoIsExact DEF Decoded
<1>3. CASE /\ ~(pack[dir][file] = "shipped" /\ satisfied)
           /\ Finish(statement.verificationLevel, {"schema_invalid"})
  <2>1. read'[file] = pack[dir][file] /\ pack[dir][file] # "unread"
    BY DEF Validate, TypeOK, IsPacks, AnyContents
  <2>2. Intact' => ~satisfied
    BY <1>3, <2>1 DEF Intact
  <2>3. Intact' => Decoded' /\ {"schema_invalid"} = Judge(statement, context)'
    BY <1>1, <2>2 DEF Decoded
  <2>. QED
    BY <1>3, <2>3, FinishIsExact
<1>. QED
  BY <1>2, <1>3 DEF Validate

LEMMA ExactInductive == IInv /\ Exact /\ [Next]_vars => Exact'
<1>. SUFFICES ASSUME IInv, Exact, [Next]_vars PROVE Exact'
  OBVIOUS
<1>0. TypeOK /\ PhaseFacts
  BY DEF IInv, TypesKnown, Facts
<1>1. CASE Locate
  <2>1. CASE Goto("parse") \/ UNCHANGED <<pc, result>>
    BY <1>1, <2>1 DEF Locate, Goto, Exact, AfterGate
  <2>2. CASE Finish(None, {"schema_invalid"})
    BY <2>2, FinishIsExact
  <2>. QED
    BY <1>1, <2>1, <2>2 DEF Locate
<1>2. CASE ParseStatement
  <2>1. UNCHANGED statement
    BY <1>2 DEF ParseStatement, inputs
  <2>2. CASE Decoded /\ Goto("phase01")
    BY <2>1, <2>2, GotoIsExact DEF Decoded, Steps
  <2>3. CASE Finish(None, {"schema_invalid"})
    BY <2>3, FinishIsExact
  <2>. QED
    BY <1>2, <2>2, <2>3 DEF ParseStatement, Decoded
<1>3. CASE PreSchemaGate
  <2>1. UNCHANGED <<statement, context>> /\ Decoded
    BY <1>3 DEF PreSchemaGate, inputs, Exact
  <2>2. CASE Goto("schema")
    BY <2>1, <2>2, GotoIsExact DEF Decoded, Steps
  <2>3. CASE PreSchemaCodes(statement) # {} /\ Finish(statement.verificationLevel, PreSchemaCodes(statement))
    <3>1. Judge(statement, context) = PreSchemaCodes(statement)
      BY <2>1, <2>3 DEF Judge, Decoded
    <3>2. Decoded' /\ PreSchemaCodes(statement) = Judge(statement, context)'
      BY <2>1, <3>1 DEF Decoded
    <3>. QED
      BY <2>3, <3>2, FinishIsExact
  <2>. QED
    BY <1>3, <2>2, <2>3 DEF PreSchemaGate
<1>4. CASE ValidatePredicateSchema
  <2>1. Validate("schema", SchemaFile(statement), SchemaValid(statement), "context") /\ pc = "schema"
    BY <1>4 DEF ValidatePredicateSchema, Validate
  <2>2. ~SchemaValid(statement) => Judge(statement, context) = {"schema_invalid"}
    BY <1>0, <2>1 DEF Judge, PhaseFacts, GateFacts, AfterGate
  <2>3. SchemaFile(statement) \in Files
    BY FilesOfVersion DEF Files
  <2>. QED
    BY <1>0, <2>1, <2>2, <2>3, ValidateIsExact DEF AfterGate, Steps
<1>5. CASE ValidateContextSchema
  <2>1. Validate("context", "contextSchema", ContextValid(context), "cue") /\ pc = "context"
    BY <1>5 DEF ValidateContextSchema, Validate
  <2>2. ~ContextValid(context) => Judge(statement, context) = {"schema_invalid"}
    BY <1>0, <2>1 DEF Judge, PhaseFacts, GateFacts, AfterGate
  <2>. QED
    BY <1>0, <2>1, <2>2, ValidateIsExact DEF AfterGate, Steps, Files
<1>6. CASE ValidateCue
  <2>1. Validate("cue", CueFile(statement), CueValid(statement), "policy") /\ pc = "cue"
    BY <1>6 DEF ValidateCue, Validate
  <2>2. ~CueValid(statement) => Judge(statement, context) = {"schema_invalid"}
    BY <1>0, <2>1 DEF Judge, PhaseFacts, GateFacts, AfterGate
  <2>3. CueFile(statement) \in Files
    BY FilesOfVersion DEF Files
  <2>. QED
    BY <1>0, <2>1, <2>2, <2>3, ValidateIsExact DEF AfterGate, Steps
<1>7. CASE ReadPolicy
  <2>1. UNCHANGED <<statement, context>> /\ Decoded
    BY <1>7 DEF ReadPolicy, inputs, Exact, AfterGate
  <2>2. CASE Goto("eval")
    BY <2>1, <2>2, GotoIsExact DEF Decoded, Steps
  <2>3. CASE pack[dir]["policy"] = "missing" /\ Finish(statement.verificationLevel, {"policy_eval_error"})
    <3>1. ~Intact'
      BY <1>0, <1>7, <2>3 DEF ReadPolicy, TypeOK, Intact, Files
    <3>. QED
      BY <2>3, <3>1, FinishIsExact
  <2>. QED
    BY <1>7, <2>2, <2>3 DEF ReadPolicy
<1>8. CASE EvaluatePolicy
  <2>1. UNCHANGED <<statement, context, read>> /\ Decoded
    BY <1>8 DEF EvaluatePolicy, inputs, Exact, AfterGate
  <2>2. GateFacts /\ SchemaFacts /\ ContextFacts /\ CueFacts /\ PolicyFacts
    BY <1>0, <1>8 DEF EvaluatePolicy, PhaseFacts, AfterGate, AfterSchema, AfterContext, AfterCue
  <2>. DEFINE codes == EvaluatedCodes(read["policy"], statement, context)
  <2>3. Intact => codes = Judge(statement, context)
    BY <2>1, <2>2 DEF Intact, Files, PolicyFacts, EvaluatedCodes, Judge, Decoded,
       GateFacts, SchemaFacts, ContextFacts, CueFacts
  <2>4. Finish(statement.verificationLevel, codes)
    BY <1>8 DEF EvaluatePolicy
  <2>. HIDE DEF codes
  <2>5. Intact' => Decoded' /\ codes = Judge(statement, context)'
    BY <2>1, <2>3 DEF Intact, Decoded
  <2>. QED
    BY <2>4, <2>5, FinishIsExact
<1>9. CASE (\E d \in Dirs, f \in Files : \E contents \in Contents(f) : ChangeFile(d, f, contents)) \/ UNCHANGED vars
  <2>1. UNCHANGED <<pc, read, statement, context, result>>
    BY <1>9 DEF ChangeFile, inputs, vars
  <2>. QED
    BY <2>1 DEF Exact, Decoded, Intact
<1>. QED
  BY <1>1, <1>2, <1>3, <1>4, <1>5, <1>6, <1>7, <1>8, <1>9 DEF Next, VerifierStep

\* Under an intact pack the verdict is that of Judge, and a statement is
\* accepted exactly when it satisfies its contracts, has what its level
\* promises, and declares nothing that is disputed (verify.go:27-92).
THEOREM VerdictsAreExact == Spec => []VerdictIsExact
<1>1. Init => Exact
  BY DEF Init, Exact, AfterGate
<1>2. Exact => VerdictIsExact
  <2>. SUFFICES ASSUME Exact, pc = "done", result.level # None, Intact
                PROVE  /\ result.failureCodes = Judge(statement, context)
                       /\ result.valid <=> Justified(statement, context)
    BY DEF VerdictIsExact, Intact
  <2>1. result.failureCodes = Judge(statement, context) /\ (result.valid <=> result.failureCodes = {})
    BY DEF Exact
  <2>. QED
    BY <2>1, EmptyVerdictsAreJustified
<1>. QED
  BY <1>1, <1>2, IInvInvariant, ExactInductive, PTL DEF Spec

\* Phase 03 orders the run to the second, and to the last digit when the text
\* of finishedAt is no shorter (agent-provenance-v1.cue:212): a run accepted
\* with its end before its start is off by less than a second.
THEOREM RunsAreOrderedToTheDigit == Spec => []AcceptedRunIsOrderedToTheDigit
<1>1. IInv => AcceptedRunIsOrderedToTheDigit
  <2>. SUFFICES ASSUME IInv, Accepted,
                       statement.startedAt \in Timestamp, statement.finishedAt \in Timestamp
                PROVE  /\ statement.startedAt.second <= statement.finishedAt.second
                       /\ DOMAIN statement.startedAt.fraction \subseteq DOMAIN statement.finishedAt.fraction =>
                             Instant(statement.startedAt) <= Instant(statement.finishedAt)
    BY DEF AcceptedRunIsOrderedToTheDigit
  <2>1. TextAtLeast(statement.finishedAt, statement.startedAt)
    BY DEF IInv, Facts, AcceptedFacts, CueFacts, CueValid
  <2>. QED
    BY <2>1, TextOrderToTheDigit
<1>. QED
  BY <1>1, IInvInvariant, PTL

-----------------------------------------------------------------------------
(* The refinement.                                                         *)

\* The pipeline implements the safety part of the abstract verifier: whatever
\* it does between input and verdict is a stutter of VerifierGate.
THEOREM PipelineImplementsGate == Spec => Gate!Safety
<1>1. Init => Gate!Init
  BY DEF Init, Gate!Init
<1>2. IInv /\ IInv' /\ [Next]_vars => [Gate!Next]_(Gate!gateVars)
  <2>. SUFFICES ASSUME IInv, IInv', [Next]_vars PROVE [Gate!Next]_(Gate!gateVars)
    OBVIOUS
  <2>1. CASE pc = "done"
    BY <2>1 DEF Next, VerifierStep, Locate, ParseStatement, PreSchemaGate, ValidatePredicateSchema,
       ValidateContextSchema, ValidateCue, Validate, ReadPolicy, EvaluatePolicy, ChangeFile, vars, Gate!gateVars
  <2>2. UNCHANGED <<statement, context>>
    BY DEF Next, VerifierStep, Locate, ParseStatement, PreSchemaGate, ValidatePredicateSchema,
       ValidateContextSchema, ValidateCue, Validate, ReadPolicy, EvaluatePolicy, ChangeFile, vars, inputs
  <2>3. CASE pc # "done" /\ pc' # "done"
    BY <2>2, <2>3 DEF Gate!gateVars
  <2>4. CASE pc # "done" /\ pc' = "done"
    <3>1. CASE result'.valid /\ read'["policy"] = "shipped"
      <4>1. Assured(statement', context')
        BY <2>4, <3>1, PhasesAssure DEF IInv, Facts, AcceptedFacts, Accepted, GateFacts, SchemaFacts, ContextFacts, CueFacts
      <4>. QED
        BY <2>2, <2>4, <3>1, <4>1 DEF Gate!Next, Gate!Decide, Gate!Accept
    <3>2. CASE ~(result'.valid /\ read'["policy"] = "shipped")
      BY <2>2, <2>4, <3>2 DEF Gate!Next, Gate!Decide, Gate!Reject
    <3>. QED
      BY <3>1, <3>2
  <2>. QED
    BY <2>1, <2>3, <2>4
<1>. QED
  BY <1>1, <1>2, IInvInvariant, PTL DEF Spec, Gate!Safety

=============================================================================
