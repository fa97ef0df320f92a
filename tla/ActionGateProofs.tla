--------------------------- MODULE ActionGateProofs ---------------------------
(***************************************************************************)
(* What the gate's verdict means for the repository, for every repository, *)
(* every job and every interference.  The commands of a job are steps of   *)
(* GitBind, so its inductive invariant holds here; what is added is what   *)
(* each file written and the verdict were made of, and what the patch said *)
(* of index and work tree when each capture ended.                         *)
(***************************************************************************)
EXTENDS ActionGate, GitBindProofs, AssuranceProofs

\* The diff of what a capture left behind.
DiffThen(end) ==
    [p \in {q \in Paths : end.index[q] # None /\ end.index[q] # end.worktree[q]} |->
        <<end.index[p], end.worktree[p]>>]

Ended(c) == at[c] = "done" /\ (ended[c].calm => found[c].patch = DiffThen(ended[c]))
Captured ==
    /\ Ended("capture")
    /\ Accepts(options)
    /\ statement = StatementOf(found["capture"], options)
Viewed ==
    IF options.supplied = None
    THEN Ended("verifier") /\ context = BuildVerifierContext(found["verifier"], options.requiredLevel)
    ELSE options.supplied # Missing /\ context = options.supplied
Written(c) == IF c = "capture" THEN Captured ELSE Viewed

\* What each file holds: what this job wrote, or what was there before.
FileFacts ==
    /\ statement = StatementLeft \/ Captured
    /\ context \in {ContextLeft, Garbled} \/ Viewed

\* Why a job stops before there is a verdict.
Stopped ==
    \/ options.supplied # None \/ ~Accepts(options) \/ ~options.located
    \/ \E c \in Callers : at[c] = "failed"

JobFacts ==
    /\ [order |-> order, options |-> options, acts |-> allowed, left |-> left] \in Jobs
    /\ ended = [c \in Callers |-> ended[c]]
    /\ job \in 1..5
    /\ job = 2 => Written(order[1])
    /\ job = 3 => Captured /\ Viewed
    /\ FileFacts
    /\ verdict # None => job \in {4, 5} /\ Captured /\ Viewed /\ options.located /\ verdict = Judgement
    /\ job \in {4, 5} /\ verdict = None =>
          /\ statement = StatementLeft \/ context \in {ContextLeft, Garbled} \/ ~options.located
          /\ Stopped

\* What the summary was made of.
SummaryFacts ==
    job = 5 => summary = IF NothingToShow THEN None ELSE RenderSummary(Judgement)

\* What a call has answered, whether or not it was disturbed.
Answered ==
    \A c \in Callers :
        /\ at[c] \in AfterRemote => found[c].repoUrl \in Slugs
        /\ at[c] \in AfterHead => found[c].base \in Commits

\* While nobody acted and no command failed, a call fails for the remote only.
StoppedCalm ==
    acts = 0 /\ faults = 0 => \A c \in Callers : at[c] = "failed" => ~Supported(remote)

GateIInv == IInv /\ Calm /\ StoppedCalm /\ Answered /\ JobFacts /\ SummaryFacts

LEMMA TwoCallers == Callers = {"verifier", "capture"}
BY ActionAssumption

USE TwoCallers

-----------------------------------------------------------------------------
(* The commands of a job.                                                  *)

LEMMA OrdersHaveBoth ==
    ASSUME JobFacts
    PROVE  /\ order \in {<<"verifier", "capture">>, <<"capture", "verifier">>}
           /\ DOMAIN order = {1, 2}
           /\ \A n \in {1, 2} : order[n] \in Callers
           /\ order[1] # order[2]
           /\ "capture" \in Callers /\ "verifier" \in Callers
<1>1. order \in {<<"verifier", "capture">>, <<"capture", "verifier">>}
  BY ActionAssumption DEF JobFacts
<1>. QED
  BY <1>1

\* The context of a Result, whatever else buildVerifierContext puts into it.
LEMMA ContextOfResult ==
    ASSUME NEW r, NEW flag, NEW c, c = BuildVerifierContext(r, flag)
    PROVE  /\ c.repoUrl = r.repoUrl /\ c.baseCommit = r.base
           /\ c.subjects = <<[name |-> "patch.diff", algorithm |-> "sha256", digest |-> r.patch]>>
BY DEF BuildVerifierContext, Merged

LEMMA CreatedStatement ==
    ASSUME NEW r, NEW o, NEW s, s = CreateStatement(r, o), o.version \in {"", "v0", "v1"}
    PROVE  /\ s.type = "in-toto-v1" /\ s.predicateType \in {"v0", "v1"}
           /\ s.predicateVersion = s.predicateType /\ s.verificationLevel = "evidence-grade"
           /\ s.repoUrl = r.repoUrl /\ s.baseCommit = r.base
           /\ s.subject = {[name |-> "patch.diff", digest |-> [sha256 |-> r.patch]]}
           /\ OneReading(s)
BY DEF CreateStatement, OneReading

\* A harness changes nothing of this.
LEMMA HarnessStatementOfResult ==
    ASSUME NEW r, NEW m, NEW s, s = HarnessStatement(r, m)
    PROVE  /\ s.type = "in-toto-v1" /\ s.predicateType = "v1"
           /\ s.predicateVersion = s.predicateType /\ s.verificationLevel = "evidence-grade"
           /\ s.repoUrl = r.repoUrl /\ s.baseCommit = r.base
           /\ s.subject = {[name |-> "patch.diff", digest |-> [sha256 |-> r.patch]]}
           /\ OneReading(s)
BY DEF HarnessStatement, CreateStatement, OneReading

\* The statement of a Result, whoever made it.
LEMMA StatementOfResult ==
    ASSUME NEW r, NEW o, Accepts(o), NEW s, s = StatementOf(r, o)
    PROVE  /\ s.type = "in-toto-v1" /\ s.predicateType \in {"v0", "v1"}
           /\ s.predicateVersion = s.predicateType /\ s.verificationLevel = "evidence-grade"
           /\ s.repoUrl = r.repoUrl /\ s.baseCommit = r.base
           /\ s.subject = {[name |-> "patch.diff", digest |-> [sha256 |-> r.patch]]}
           /\ OneReading(s)
<1>1. CASE o.run = None
  <2>1. s = CreateStatement(r, o) /\ o.version \in {"", "v0", "v1"}
    BY <1>1 DEF StatementOf, Accepts, FlagsAccepted
  <2>2. o.version \in {"", "v0", "v1"}
    BY <2>1
  <2>3. s = CreateStatement(r, o)
    BY <2>1
  <2>. QED
    BY <2>2, <2>3, CreatedStatement, ZenonT(30)
<1>2. CASE o.run # None
  BY <1>2, HarnessStatementOfResult DEF StatementOf
<1>. QED
  BY <1>1, <1>2

\* Whatever a job or its environment does is a step of GitBind or none.
LEMMA GateStepsAreGitSteps ==
    ASSUME JobFacts, [GateNext]_gateVars
    PROVE  [Next]_gitVars
<1>1. CASE RunCompute
  BY <1>1 DEF RunCompute, Next
<1>2. CASE Disturbance
  BY <1>2 DEF Disturbance, Next
<1>3. CASE \/ ContextWritten \/ ContextCopied \/ PredicateCreated \/ ComputeFailed \/ VerifyPredicate \/ Summarise
           \/ UNCHANGED gateVars
  BY <1>3 DEF ContextWritten, ContextCopied, PredicateCreated, CommandEnds, ComputeFailed, VerifyPredicate, Summarise,
     gateVars
<1>. QED
  BY <1>1, <1>2, <1>3 DEF GateNext, JobStep

\* A call that is done stays as it is.
LEMMA DoneStays ==
    ASSUME IInv, [Next]_gitVars, NEW c \in Callers, at[c] = "done"
    PROVE  at'[c] = "done" /\ found'[c] = found[c]
<1>0. TypeOK
  BY DEF IInv
<1>1. ASSUME NEW d \in Callers, ComputeStep(d) PROVE at'[c] = "done" /\ found'[c] = found[c]
  <2>1. d # c
    BY <1>1 DEF ComputeStep, ReadRemote, ReadBranch, ReadHead, ReadUpstream, ReadBase, ReadPatch, ReadNames,
       HashFile, Finish, Learn, Stop
  <2>2. \E step : \/ at' = [at EXCEPT ![d] = step] /\ UNCHANGED found
                  \/ \E answers : at' = [at EXCEPT ![d] = step] /\ found' = [found EXCEPT ![d] = answers]
    BY <1>1 DEF ComputeStep, ReadRemote, ReadBranch, ReadHead, ReadUpstream, ReadBase, ReadPatch, ReadNames,
       HashFile, Finish, Learn, Stop
  <2>. QED
    BY <1>0, <2>1, <2>2 DEF TypeOK
<1>2. ASSUME NEW d \in Callers, CommandFails(d) PROVE at'[c] = "done" /\ found'[c] = found[c]
  <2>1. d # c
    BY <1>2 DEF CommandFails
  <2>. QED
    BY <1>0, <1>2, <2>1 DEF CommandFails, TypeOK
<1>3. CASE Developer
  BY <1>3 DEF Developer, Edit, Stage, Commit, Push, Switch, SetRemote, Act, calls
<1>4. CASE UNCHANGED gitVars
  BY <1>4 DEF gitVars, calls
<1>. QED
  BY <1>1, <1>2, <1>3, <1>4 DEF Next

\* The answers a command adds are typed, and no command takes one away.
LEMMA AnsweredStays == IInv /\ Answered /\ [Next]_gitVars => Answered'
<1>. SUFFICES ASSUME IInv, Answered, [Next]_gitVars, NEW c \in Callers
              PROVE  /\ at'[c] \in AfterRemote => found'[c].repoUrl \in Slugs
                     /\ at'[c] \in AfterHead => found'[c].base \in Commits
  BY DEF Answered
<1>. USE DEF AfterRemote, AfterBranch, AfterHead, AfterBase
<1>0. TypeOK
  BY DEF IInv
<1>1. CASE ComputeStep(c)
  <2>1. CASE ReadRemote(c)
    BY <1>0, <2>1 DEF ReadRemote, Learn, Stop, TypeOK, Answers, Remotes, Supported, NormalizeRepoURL
  <2>2. CASE ReadHead(c)
    BY <1>0, <2>2, HeadTyped DEF ReadHead, Learn, TypeOK, Answers, Answered
  <2>3. CASE ReadBase(c)
    <3>1. found[c].upstream \in Branches
      BY <1>0, <2>3 DEF ReadBase, Learn, IInv, Known, TypeOK, Answers
    <3>. QED
      BY <1>0, <2>3, <3>1, BaseTyped DEF ReadBase, Learn, TypeOK, Answers, Answered
  <2>4. CASE ReadBranch(c)
    BY <1>0, <2>4 DEF ReadBranch, Learn, TypeOK, Answers, Answered
  <2>5. CASE ReadUpstream(c)
    BY <1>0, <2>5 DEF ReadUpstream, Learn, TypeOK, Answers, Answered
  <2>6. CASE ReadPatch(c)
    BY <1>0, <2>6 DEF ReadPatch, Learn, TypeOK, Answers, Answered
  <2>7. CASE ReadNames(c)
    BY <1>0, <2>7 DEF ReadNames, Learn, TypeOK, Answers, Answered
  <2>8. CASE HashFile(c)
    BY <1>0, <2>8 DEF HashFile, Learn, TypeOK, Answers, Answered
  <2>9. CASE Finish(c)
    BY <1>0, <2>9 DEF Finish, Learn, TypeOK, Answers, Answered
  <2>. QED
    BY <1>1, <2>1, <2>2, <2>3, <2>4, <2>5, <2>6, <2>7, <2>8, <2>9 DEF ComputeStep
<1>2. ASSUME NEW d \in Callers, d # c, ComputeStep(d)
      PROVE  at'[c] = at[c] /\ found'[c] = found[c]
  <2>1. \E step : \/ at' = [at EXCEPT ![d] = step] /\ UNCHANGED found
                  \/ \E answers : at' = [at EXCEPT ![d] = step] /\ found' = [found EXCEPT ![d] = answers]
    BY <1>2 DEF ComputeStep, ReadRemote, ReadBranch, ReadHead, ReadUpstream, ReadBase, ReadPatch, ReadNames,
       HashFile, Finish, Learn, Stop
  <2>. QED
    BY <1>0, <1>2, <2>1 DEF TypeOK
<1>3. ASSUME NEW d \in Callers, CommandFails(d)
      PROVE  /\ at'[c] \in AfterRemote => at[c] \in AfterRemote
             /\ at'[c] \in AfterHead => at[c] \in AfterHead
             /\ found'[c] = found[c]
  BY <1>0, <1>3 DEF CommandFails, TypeOK
<1>4. CASE Developer
  BY <1>4 DEF Developer, Edit, Stage, Commit, Push, Switch, SetRemote, Act, calls, Answered
<1>5. CASE UNCHANGED gitVars
  BY <1>5 DEF gitVars, calls, Answered
<1>. QED
  BY <1>1, <1>2, <1>3, <1>4, <1>5 DEF Next, Answered

\* Of the commands of an undisturbed call only the one that asks for the remote
\* stops it, and the remote stays what it was.
LEMMA StoppedCalmKeeps == TypeOK /\ StoppedCalm /\ [Next]_gitVars => StoppedCalm'
<1>. SUFFICES ASSUME TypeOK, StoppedCalm, [Next]_gitVars PROVE StoppedCalm'
  OBVIOUS
<1>1. CASE \E d \in Callers : ComputeStep(d)
  <2>1. PICK d \in Callers : ComputeStep(d)
    BY <1>1
  <2>2. UNCHANGED <<remote, acts, faults>>
    BY <2>1 DEF ComputeStep, ReadRemote, ReadBranch, ReadHead, ReadUpstream, ReadBase, ReadPatch, ReadNames,
       HashFile, Finish, Learn, Stop, refs
  <2>3. \/ ReadRemote(d) /\ ~Supported(remote) /\ at' = [at EXCEPT ![d] = "failed"]
        \/ \E step : at' = [at EXCEPT ![d] = step] /\ step # "failed"
        \/ UNCHANGED at
    BY <2>1 DEF ComputeStep, ReadRemote, ReadBranch, ReadHead, ReadUpstream, ReadBase, ReadPatch, ReadNames,
       HashFile, Finish, Learn, Stop
  <2>. QED
    BY <2>2, <2>3 DEF StoppedCalm, TypeOK, Supported
<1>2. CASE \E d \in Callers : CommandFails(d)
  BY <1>2 DEF StoppedCalm, CommandFails, TypeOK
<1>3. CASE Developer
  <2>1. acts' = acts + 1
    BY <1>3 DEF Developer, Edit, Stage, Commit, Push, Switch, SetRemote, Act
  <2>. QED
    BY <2>1 DEF StoppedCalm, TypeOK
<1>4. CASE UNCHANGED gitVars
  BY <1>4 DEF StoppedCalm, gitVars, refs, calls, Supported
<1>. QED
  BY <1>1, <1>2, <1>3, <1>4 DEF Next

\* The codes of a statement the command created are the policy's, or one of a
\* schema.
LEMMA CreatedStatementCodes ==
    ASSUME NEW s, NEW c, s.type = "in-toto-v1", s.predicateType \in {"v0", "v1"},
           s.predicateVersion = s.predicateType, OneReading(s)
    PROVE  Judge(s, c) \subseteq PolicyCodes \cup {"schema_invalid"}
<1>1. PreSchemaCodes(s) = {}
  BY DEF PreSchemaCodes, When
<1>2. FailureCodes(s, c) \subseteq PolicyCodes
  <2>1. PredicateCodes(s, c) \subseteq PolicyCodes
    BY DEF PredicateCodes, PolicyCodes, When
  <2>2. When("subject_digest_mismatch", SubjectDigestMismatch(s, c)) \subseteq PolicyCodes
    BY DEF PolicyCodes, When
  <2>. QED
    BY <2>1, <2>2 DEF FailureCodes
<1>. QED
  BY <1>1, <1>2 DEF Judge

\* So is the judgement of what a job wrote.
LEMMA JudgementIsCodes ==
    ASSUME Captured
    PROVE  Judgement \subseteq PolicyCodes \cup {"schema_invalid"} /\ Judgement # None
<1>1. /\ statement.type = "in-toto-v1" /\ statement.predicateType \in {"v0", "v1"}
      /\ statement.predicateVersion = statement.predicateType /\ OneReading(statement)
  BY StatementOfResult DEF Captured
<1>2. Judge(statement, context) \subseteq PolicyCodes \cup {"schema_invalid"}
  BY <1>1, CreatedStatementCodes
<1>3. Judgement \subseteq PolicyCodes \cup {"schema_invalid"}
  BY <1>2 DEF Judgement
<1>. QED
  BY <1>3, ActionAssumption

LEMMA WrittenStays ==
    ASSUME GateIInv, [Next]_gitVars, UNCHANGED <<given, statement, context, ended>>
    PROVE  /\ Captured => Captured'
           /\ Viewed => Viewed'
           /\ FileFacts'
<1>1. Captured => Captured'
  BY DoneStays DEF GateIInv, Captured, Ended, given, DiffThen
<1>2. Viewed => Viewed'
  BY DoneStays DEF GateIInv, Viewed, Ended, given, DiffThen
<1>3. FileFacts'
  BY <1>1, <1>2 DEF GateIInv, JobFacts, FileFacts, StatementLeft, ContextLeft, given
<1>. QED
  BY <1>1, <1>2, <1>3

LEMMA InitEstablishesFacts == GateInit => GateIInv
<1>. SUFFICES ASSUME GateInit PROVE GateIInv
  OBVIOUS
<1>1. IInv
  BY InitEstablishes DEF GateInit
<1>2. JobFacts
  <2>1. PICK g \in Jobs : order = g.order /\ options = g.options /\ allowed = g.acts /\ left = g.left
    BY DEF GateInit
  <2>2. [order |-> order, options |-> options, acts |-> allowed, left |-> left] = g
    BY <2>1, ActionAssumption
  <2>. QED
    BY <2>2 DEF GateInit, JobFacts, FileFacts
<1>5. Calm /\ StoppedCalm
  BY DEF GateInit, Init, Calm, StoppedCalm
<1>3. Answered
  BY DEF GateInit, Init, Answered, AfterRemote, AfterBranch, AfterHead, AfterBase
<1>4. SummaryFacts
  BY DEF GateInit, SummaryFacts
<1>. QED
  BY <1>1, <1>2, <1>3, <1>4, <1>5 DEF GateIInv

\* The call that ends leaves its patch, of one moment when it was undisturbed.
LEMMA CommandEndsWrites ==
    ASSUME GateIInv, NEW c \in Callers, CommandEnds(c)
    PROVE  /\ ended' = [d \in Callers |-> ended'[d]]
           /\ Ended(c)'
           /\ \A d \in Callers : d # c /\ Ended(d) => Ended(d)'
<1>. DEFINE end == [index |-> index, worktree |-> worktree, calm |-> disturbed[c] = {}]
<1>1. ended' = [ended EXCEPT ![c] = end] /\ UNCHANGED <<at, found>> /\ at[c] = "done"
  BY DEF CommandEnds, gitVars, calls
<1>2. disturbed[c] = {} => found[c].patch = Diff
  BY <1>1 DEF GateIInv, IInv, Known, FilesKnown
<1>3. DiffThen(end) = Diff
  BY DEF DiffThen, Diff, Changed
<1>. HIDE DEF end
<1>4. ended = [d \in Callers |-> ended[d]]
  BY DEF GateIInv, JobFacts
<1>5. ended'[c] = end /\ \A d \in Callers : d # c => ended'[d] = ended[d]
  BY <1>1, <1>4
<1>6. end.calm = (disturbed[c] = {})
  BY DEF end
<1>7. Ended(c)'
  <2>1. DiffThen(ended'[c]) = Diff
    BY <1>3, <1>5
  <2>2. ended'[c].calm => found'[c].patch = DiffThen(ended'[c])
    BY <1>1, <1>2, <1>5, <1>6, <2>1
  <2>. QED
    BY <1>1, <2>2 DEF Ended
<1>8. \A d \in Callers : d # c /\ Ended(d) => Ended(d)'
  BY <1>1, <1>5 DEF Ended, DiffThen
<1>. QED
  BY <1>1, <1>4, <1>7, <1>8

LEMMA ContextWrittenKeeps == GateIInv /\ ContextWritten => JobFacts'
<1>. SUFFICES ASSUME GateIInv, ContextWritten PROVE JobFacts'
  OBVIOUS
<1>1. CommandEnds("verifier") /\ "verifier" \in Callers /\ "capture" \in Callers
  BY DEF ContextWritten
<1>2. /\ UNCHANGED <<given, verdict, statement, found>>
      /\ job \in {1, 2} /\ order[job] = "verifier" /\ job' = job + 1
      /\ options.supplied = None
  BY <1>1, OrdersHaveBoth DEF ContextWritten, CommandEnds, Calls, gitVars, calls, GateIInv
<1>3. Viewed'
  BY <1>1, <1>2, CommandEndsWrites DEF ContextWritten, Viewed, given
<1>4. Captured => Captured'
  BY <1>1, <1>2, CommandEndsWrites DEF Captured, given
<1>5. FileFacts' /\ verdict = None
  BY <1>2, <1>3, <1>4 DEF GateIInv, JobFacts, FileFacts, StatementLeft, given
<1>6. CASE job = 1
  BY <1>1, <1>2, <1>3, <1>5, <1>6, CommandEndsWrites DEF GateIInv, JobFacts, Written, given
<1>7. CASE job = 2
  <2>1. Captured
    BY <1>2, <1>7, OrdersHaveBoth DEF GateIInv, JobFacts, Written
  <2>. QED
    BY <1>1, <1>2, <1>3, <1>4, <1>5, <1>7, <2>1, CommandEndsWrites DEF GateIInv, JobFacts, given
<1>. QED
  BY <1>2, <1>6, <1>7

LEMMA ContextCopiedKeeps == GateIInv /\ ContextCopied => JobFacts'
<1>. SUFFICES ASSUME GateIInv, ContextCopied PROVE JobFacts'
  OBVIOUS
<1>1. /\ UNCHANGED <<gitVars, given, verdict, statement, ended>>
      /\ job \in {1, 2} /\ order[job] = "verifier" /\ options.supplied # None
  BY OrdersHaveBoth DEF ContextCopied, GateIInv
<1>2. Captured => Captured'
  BY <1>1 DEF Captured, Ended, DiffThen, given, gitVars, calls
<1>3. verdict = None
  BY <1>1 DEF GateIInv, JobFacts
<1>4. CASE options.supplied = Missing
  <2>1. job' = 4 /\ UNCHANGED context
    BY <1>4 DEF ContextCopied
  <2>2. Viewed => Viewed'
    BY <1>1, <2>1 DEF Viewed, Ended, DiffThen, given, gitVars, calls
  <2>3. FileFacts'
    BY <1>1, <1>2, <2>1, <2>2 DEF GateIInv, JobFacts, FileFacts, StatementLeft, ContextLeft, given
  <2>4. statement' = StatementLeft' \/ context' \in {ContextLeft', Garbled}
    <3>1. ~Viewed
      BY <1>1, <1>4 DEF Viewed
    <3>2. context \in {ContextLeft, Garbled}
      BY <3>1 DEF GateIInv, JobFacts, FileFacts
    <3>. QED
      BY <1>1, <2>1, <3>2 DEF ContextLeft, given
  <2>. QED
    BY <1>1, <1>3, <2>1, <2>3, <2>4 DEF GateIInv, JobFacts, Stopped, given
<1>5. CASE options.supplied # Missing
  <2>1. job' = job + 1 /\ context' = options.supplied
    BY <1>5 DEF ContextCopied
  <2>2. Viewed'
    BY <1>1, <1>5, <2>1 DEF Viewed, given
  <2>3. FileFacts'
    BY <1>1, <1>2, <2>2 DEF GateIInv, JobFacts, FileFacts, StatementLeft, given
  <2>4. CASE job = 1
    BY <1>1, <1>3, <2>1, <2>2, <2>3, <2>4 DEF GateIInv, JobFacts, Written, given
  <2>5. CASE job = 2
    <3>1. Captured
      BY <1>1, <2>5, OrdersHaveBoth DEF GateIInv, JobFacts, Written
    <3>. QED
      BY <1>1, <1>2, <1>3, <2>1, <2>2, <2>3, <2>5, <3>1 DEF GateIInv, JobFacts, given
  <2>. QED
    BY <1>1, <2>4, <2>5
<1>. QED
  BY <1>4, <1>5

LEMMA PredicateCreatedKeeps == GateIInv /\ PredicateCreated => JobFacts'
<1>. SUFFICES ASSUME GateIInv, PredicateCreated PROVE JobFacts'
  OBVIOUS
<1>1. CommandEnds("capture") /\ "verifier" \in Callers /\ "capture" \in Callers
  BY DEF PredicateCreated
<1>2. /\ UNCHANGED <<given, verdict, context, found>>
      /\ job \in {1, 2} /\ order[job] = "capture"
  BY <1>1, OrdersHaveBoth DEF PredicateCreated, CommandEnds, Calls, gitVars, calls, GateIInv
<1>3. verdict = None
  BY <1>2 DEF GateIInv, JobFacts
<1>4. Viewed => Viewed'
  BY <1>1, <1>2, CommandEndsWrites DEF Viewed, given
<1>5. CASE Accepts(options)
  <2>1. job' = job + 1
    BY <1>5 DEF PredicateCreated
  <2>2. Captured'
    BY <1>1, <1>2, <1>5, CommandEndsWrites DEF PredicateCreated, Captured, given
  <2>3. job = 2 => Viewed
    BY <1>2, OrdersHaveBoth DEF GateIInv, JobFacts, Written
  <2>4. FileFacts'
    BY <1>2, <1>4, <2>2 DEF GateIInv, JobFacts, FileFacts, ContextLeft, given
  <2>. QED
    BY <1>1, <1>2, <1>3, <1>4, <2>1, <2>2, <2>3, <2>4, CommandEndsWrites DEF GateIInv, JobFacts, Written, given
<1>6. CASE ~Accepts(options)
  <2>1. job' = 4 /\ UNCHANGED statement
    BY <1>6 DEF PredicateCreated
  <2>2. statement = StatementLeft
    BY <1>6 DEF GateIInv, JobFacts, FileFacts, Captured
  <2>3. statement' = StatementLeft'
    BY <1>2, <2>1, <2>2 DEF StatementLeft, given
  <2>4. FileFacts'
    BY <1>2, <1>4, <2>3 DEF GateIInv, JobFacts, FileFacts, ContextLeft, given
  <2>. QED
    BY <1>1, <1>2, <1>3, <1>6, <2>1, <2>3, <2>4, CommandEndsWrites DEF GateIInv, JobFacts, Stopped, given
<1>. QED
  BY <1>5, <1>6

\* A call that failed wrote nothing.
LEMMA ComputeFailedKeeps == GateIInv /\ ComputeFailed => JobFacts'
<1>. SUFFICES ASSUME GateIInv, ComputeFailed PROVE JobFacts'
  OBVIOUS
<1>1. PICK c \in Callers : Calls(c) /\ at[c] = "failed" /\ context' = (IF c = "verifier" THEN Garbled ELSE context)
  BY DEF ComputeFailed
<1>2. /\ UNCHANGED <<gitVars, given, statement, verdict, ended>> /\ job' = 4
      /\ job \in {1, 2}
  BY <1>1, OrdersHaveBoth DEF ComputeFailed, Calls, GateIInv
<1>3. verdict = None /\ Stopped'
  BY <1>1, <1>2 DEF GateIInv, JobFacts, Stopped, gitVars, calls
<1>4. Captured => Captured'
  BY <1>2 DEF Captured, Ended, DiffThen, given, gitVars, calls
<1>5. CASE c = "verifier"
  <2>1. context' = Garbled
    BY <1>1, <1>5
  <2>2. FileFacts'
    BY <1>2, <1>4, <2>1 DEF GateIInv, JobFacts, FileFacts, StatementLeft, given
  <2>. QED
    BY <1>2, <1>3, <2>1, <2>2 DEF GateIInv, JobFacts, given
<1>6. CASE c = "capture"
  <2>1. UNCHANGED context /\ at["capture"] = "failed"
    BY <1>1, <1>6
  <2>2. statement = StatementLeft
    BY <2>1 DEF GateIInv, JobFacts, FileFacts, Captured, Ended
  <2>3. statement' = StatementLeft'
    BY <1>2, <2>2 DEF StatementLeft, given
  <2>4. Viewed => Viewed'
    BY <1>2, <2>1 DEF Viewed, Ended, DiffThen, given, gitVars, calls
  <2>5. FileFacts'
    BY <1>2, <2>1, <2>3, <2>4 DEF GateIInv, JobFacts, FileFacts, ContextLeft, given
  <2>. QED
    BY <1>2, <1>3, <2>3, <2>5 DEF GateIInv, JobFacts, given
<1>. QED
  BY <1>1, <1>5, <1>6

LEMMA FactsInductive == GateIInv /\ [GateNext]_gateVars => GateIInv'
<1>. SUFFICES ASSUME GateIInv, [GateNext]_gateVars PROVE GateIInv'
  OBVIOUS
<1>1. [Next]_gitVars
  BY GateStepsAreGitSteps DEF GateIInv
<1>2. IInv'
  BY <1>1, NextKeeps DEF GateIInv
<1>6. Calm' /\ StoppedCalm'
  BY <1>1, CalmKeeps, StoppedCalmKeeps DEF GateIInv, IInv
<1>3. Answered'
  BY <1>1, AnsweredStays DEF GateIInv
<1>4. JobFacts'
  <2>1. CASE RunCompute \/ Disturbance
    <3>1. UNCHANGED <<given, job, statement, context, verdict, ended>> /\ job \notin {4, 5}
      BY <2>1, OrdersHaveBoth DEF RunCompute, Disturbance, Calls, GateIInv
    <3>. QED
      BY <1>1, <3>1, WrittenStays, OrdersHaveBoth
      DEF GateIInv, JobFacts, Written, given, Judgement, StatementLeft, ContextLeft
  <2>3. CASE VerifyPredicate
    <3>1. /\ UNCHANGED <<given, statement, context, ended>>
          /\ job = 3 /\ job' = 4
          /\ IF options.located THEN verdict' = Judgement ELSE UNCHANGED verdict
      BY <2>3 DEF VerifyPredicate
    <3>2. Captured /\ Viewed /\ Captured' /\ Viewed' /\ FileFacts' /\ Judgement' = Judgement
      BY <1>1, <3>1, WrittenStays DEF GateIInv, JobFacts, Judgement
    <3>3. Judgement # None
      BY <3>2, JudgementIsCodes DEF GateIInv
    <3>4. CASE options.located
      BY <3>1, <3>2, <3>3, <3>4 DEF GateIInv, JobFacts, given
    <3>5. CASE ~options.located
      BY <3>1, <3>2, <3>5 DEF GateIInv, JobFacts, Stopped, given
    <3>. QED
      BY <3>4, <3>5
  <2>4. CASE Summarise
    <3>1. /\ UNCHANGED <<given, statement, context, verdict, ended>> /\ UNCHANGED at
          /\ job = 4 /\ job' = 5
      BY <2>4 DEF Summarise, gitVars, calls
    <3>. QED
      BY <1>1, <3>1, WrittenStays DEF GateIInv, JobFacts, Stopped, given, Judgement, StatementLeft, ContextLeft
  <2>5. CASE UNCHANGED gateVars
    BY <1>1, <2>5, WrittenStays, OrdersHaveBoth
    DEF GateIInv, JobFacts, Stopped, Written, given, gateVars, gitVars, calls, Judgement, StatementLeft, ContextLeft
  <2>. QED
    BY <2>1, <2>3, <2>4, <2>5, ContextWrittenKeeps, ContextCopiedKeeps, PredicateCreatedKeeps, ComputeFailedKeeps
    DEF GateNext, JobStep
<1>5. SummaryFacts'
  <2>1. CASE Summarise
    BY <2>1 DEF Summarise, SummaryFacts, NothingToShow, Judgement, RenderSummary, given
  <2>2. CASE job' # 5
    BY <2>2 DEF SummaryFacts
  <2>3. CASE ~Summarise /\ job' = 5
    <3>1. job = 5 /\ UNCHANGED <<given, statement, context, summary>>
      <4>1. CASE RunCompute \/ Disturbance \/ UNCHANGED gateVars
        BY <2>3, <4>1 DEF RunCompute, Disturbance, gateVars
      <4>2. CASE ContextWritten \/ PredicateCreated
        BY <2>3, <4>2, OrdersHaveBoth DEF ContextWritten, PredicateCreated, CommandEnds, Calls, GateIInv
      <4>3. CASE ContextCopied \/ ComputeFailed \/ VerifyPredicate
        BY <2>3, <4>3, OrdersHaveBoth DEF ContextCopied, ComputeFailed, VerifyPredicate, GateIInv
      <4>. QED
        BY <2>3, <4>1, <4>2, <4>3 DEF GateNext, JobStep
    <3>. QED
      BY <3>1 DEF GateIInv, SummaryFacts, NothingToShow, Judgement, RenderSummary, given
  <2>. QED
    BY <2>1, <2>2, <2>3
<1>. QED
  BY <1>2, <1>3, <1>4, <1>5, <1>6 DEF GateIInv

LEMMA FactsInvariant == GateSpec => []GateIInv
<1>. QED
  BY InitEstablishesFacts, FactsInductive, PTL DEF GateSpec

-----------------------------------------------------------------------------
(* What an accepted statement and the verifier's context agree on.         *)

\* What the schemas let through the policy compares.
LEMMA AcceptedMatches ==
    ASSUME JobFacts, Accepted
    PROVE  /\ Captured /\ Viewed /\ Judgement = {}
           /\ statement.repoUrl = context.repoUrl /\ statement.baseCommit = context.baseCommit
           /\ ~SubjectDigestMismatch(statement, context)
           /\ ~LevelBelowRequired(statement, context)
           /\ context.requiredLevel \in Levels
<1>1. Captured /\ Viewed /\ Judgement = {}
  BY DEF JobFacts, Accepted, Judged
<1>2. Judge(statement, context) = {}
  BY <1>1 DEF Judgement
<1>3. FailureCodes(statement, context) = {} /\ ContextValid(context)
  BY <1>2 DEF Judge
<1>4. OneReading(statement)
  BY <1>1, StatementOfResult DEF Captured
<1>5. PredicateCodes(statement, context) = {} /\ ~SubjectDigestMismatch(statement, context)
  BY <1>3, <1>4, CodesAreOfTwoKinds, SubjectRuleIsExact
<1>. QED
  BY <1>1, <1>3, <1>5, NoCodeNoDenial DEF ContextValid

\* The subject, base and repository of a context the job made are those of
\* the statement.
LEMMA AcceptedAgrees ==
    ASSUME JobFacts, Accepted, options.supplied = None
    PROVE  /\ Captured /\ Viewed
           /\ found["capture"].patch = found["verifier"].patch
           /\ found["capture"].base = found["verifier"].base
           /\ found["capture"].repoUrl = found["verifier"].repoUrl
<1>. DEFINE c == found["verifier"]
            s == found["capture"]
<1>1. Captured /\ Viewed
  BY AcceptedMatches
<1>3. /\ statement.repoUrl = context.repoUrl /\ statement.baseCommit = context.baseCommit
      /\ ~SubjectDigestMismatch(statement, context)
  BY AcceptedMatches
<1>4. /\ context.repoUrl = c.repoUrl /\ context.baseCommit = c.base
      /\ context.subjects = <<[name |-> "patch.diff", algorithm |-> "sha256", digest |-> c.patch]>>
  <2>. HIDE DEF c
  <2>. QED
    BY <1>1, ContextOfResult DEF Viewed, c
<1>5. /\ statement.repoUrl = s.repoUrl /\ statement.baseCommit = s.base
      /\ statement.subject = {[name |-> "patch.diff", digest |-> [sha256 |-> s.patch]]}
  <2>. HIDE DEF s
  <2>. QED
    BY <1>1, StatementOfResult DEF Captured, s
<1>6. s.patch = c.patch
  <2>. HIDE DEF c, s
  <2>1. \E subject \in statement.subject : SubjectMatches(subject, context.subjects[1])
    BY <1>3, <1>4 DEF SubjectDigestMismatch
  <2>2. PICK subject \in statement.subject :
           subject.digest[context.subjects[1].algorithm] = context.subjects[1].digest
    BY <2>1 DEF SubjectMatches
  <2>3. subject.digest = [sha256 |-> s.patch]
    BY <1>5
  <2>4. context.subjects[1].algorithm = "sha256" /\ context.subjects[1].digest = c.patch
    BY <1>4
  <2>5. [sha256 |-> s.patch]["sha256"] = s.patch
    OBVIOUS
  <2>. QED
    BY <2>2, <2>3, <2>4, <2>5
<1>. QED
  BY <1>1, <1>3, <1>4, <1>5, <1>6

\* Every variable of a job keeps its type: the statement and the context name
\* a repository and a commit whatever happened meanwhile.
THEOREM GateTypeCorrect == GateSpec => []GateTypeOK
<1>1. GateIInv => GateTypeOK
  <2>. SUFFICES ASSUME GateIInv PROVE GateTypeOK
    OBVIOUS
  <2>0. [order |-> order, options |-> options, acts |-> allowed, left |-> left] \in Jobs
    BY DEF GateIInv, JobFacts
  <2>1. left # None => NamesAChange(left.statement) /\ NamesAChange(left.context)
    BY <2>0, ActionAssumption
  <2>2. statement # None => NamesAChange(statement)
    <3>1. CASE statement = StatementLeft
      BY <2>1, <3>1 DEF StatementLeft
    <3>2. CASE Captured
      <4>. DEFINE r == found["capture"]
      <4>1. r.repoUrl \in Slugs /\ r.base \in Commits
        BY <3>2 DEF GateIInv, Captured, Ended, Answered, AfterRemote, AfterBranch, AfterHead, AfterBase
      <4>2. Accepts(options) /\ statement = StatementOf(r, options)
        BY <3>2 DEF Captured
      <4>. HIDE DEF r
      <4>. QED
        BY <4>1, <4>2, StatementOfResult DEF NamesAChange
    <3>. QED
      BY <3>1, <3>2 DEF GateIInv, JobFacts, FileFacts
  <2>3. context \notin {None, Garbled} => NamesAChange(context)
    <3>1. CASE context = ContextLeft
      BY <2>1, <3>1 DEF ContextLeft
    <3>2. CASE Viewed /\ options.supplied = None
      <4>. DEFINE r == found["verifier"]
      <4>1. r.repoUrl \in Slugs /\ r.base \in Commits
        BY <3>2 DEF GateIInv, Viewed, Ended, Answered, AfterRemote, AfterBranch, AfterHead, AfterBase
      <4>2. context = BuildVerifierContext(r, options.requiredLevel)
        BY <3>2 DEF Viewed
      <4>. HIDE DEF r
      <4>. QED
        BY <4>1, <4>2, ContextOfResult DEF NamesAChange
    <3>3. CASE Viewed /\ options.supplied # None
      <4>1. context = options.supplied /\ options.supplied \notin {None, Missing}
        BY <3>3 DEF Viewed
      <4>2. options.supplied \notin {None, Missing, Garbled} => NamesAChange(options.supplied)
        BY <2>0, ActionAssumption
      <4>. QED
        BY <4>1, <4>2
    <3>. QED
      BY <3>1, <3>2, <3>3 DEF GateIInv, JobFacts, FileFacts
  <2>4. verdict = None \/ verdict \subseteq PolicyCodes \cup {"schema_invalid"}
    BY JudgementIsCodes DEF GateIInv, JobFacts
  <2>. QED
    BY <2>0, <2>2, <2>3, <2>4 DEF GateIInv, IInv, JobFacts, GateTypeOK
<1>. QED
  BY <1>1, FactsInvariant, PTL

\* An accepted statement is about the diff, the base and the repository of the
\* verdict when nothing changed since the job's first look for the gate
\* (action.yml:73-114, create.go, default.rego).
THEOREM AcceptanceIsCurrent == GateSpec => []AcceptedDiffIsCurrent
<1>1. GateIInv => AcceptedDiffIsCurrent
  <2>. SUFFICES ASSUME GateIInv, Accepted, disturbed[FirstLook] = {}
                PROVE  /\ statement.subject = {[name |-> "patch.diff", digest |-> [sha256 |-> Diff]]}
                       /\ statement.baseCommit = CurrentBase
                       /\ statement.repoUrl = NormalizeRepoURL(remote)
    BY DEF AcceptedDiffIsCurrent
  <2>. DEFINE s == found["capture"]
  <2>1. Captured /\ Viewed
    BY AcceptedMatches DEF GateIInv
  <2>2. /\ found[FirstLook].patch = Diff
        /\ found[FirstLook].base = CurrentBase
        /\ found[FirstLook].repoUrl = NormalizeRepoURL(remote)
    <3>1. FirstLook \in Callers /\ at[FirstLook] = "done"
      BY <2>1 DEF FirstLook, Captured, Viewed, Ended
    <3>. QED
      BY <3>1 DEF GateIInv, IInv, Known, RefsKnown, FilesKnown, AfterRemote, AfterBranch, AfterHead, AfterBase
  <2>3. s.patch = Diff /\ s.base = CurrentBase /\ s.repoUrl = NormalizeRepoURL(remote)
    <3>1. CASE options.supplied = None
      BY <2>2, <3>1, AcceptedAgrees DEF FirstLook, GateIInv
    <3>2. CASE options.supplied # None
      BY <2>2, <3>2 DEF FirstLook
    <3>. QED
      BY <3>1, <3>2
  <2>4. Accepts(options) /\ statement = StatementOf(s, options)
    BY <2>1 DEF Captured
  <2>. HIDE DEF s
  <2>. QED
    BY <2>3, <2>4, StatementOfResult
<1>. QED
  BY <1>1, FactsInvariant, PTL

\* With one index at both captures the accepted change is the attested one,
\* path by path (gitbind.go:75).
THEOREM ChangeIsNoticedAgainstOneIndex == GateSpec => []ChangeIsNoticedUnlessStaged
<1>1. GateIInv => ChangeIsNoticedUnlessStaged
  <2>. SUFFICES ASSUME GateIInv, Accepted, options.supplied = None,
                       ended["capture"].calm, ended["verifier"].calm,
                       ended["capture"].index = ended["verifier"].index,
                       NEW p \in Paths, ended["capture"].index[p] # None
                PROVE  ended["capture"].worktree[p] = ended["verifier"].worktree[p]
    BY DEF ChangeIsNoticedUnlessStaged
  <2>. DEFINE a == ended["capture"]
              v == ended["verifier"]
  <2>1. DiffThen(a) = DiffThen(v)
    BY AcceptedAgrees DEF GateIInv, Captured, Viewed, Ended
  <2>. HIDE DEF a, v
  <2>2. \A e : (p \in DOMAIN DiffThen(e)) <=> (e.index[p] # None /\ e.index[p] # e.worktree[p])
    BY DEF DiffThen
  <2>3. \A e : p \in DOMAIN DiffThen(e) => DiffThen(e)[p] = <<e.index[p], e.worktree[p]>>
    BY DEF DiffThen
  <2>4. CASE p \in DOMAIN DiffThen(a)
    BY <2>1, <2>3, <2>4 DEF a, v
  <2>5. CASE p \notin DOMAIN DiffThen(a)
    BY <2>1, <2>2, <2>5 DEF a, v
  <2>. QED
    BY <2>4, <2>5
<1>. QED
  BY <1>1, FactsInvariant, PTL

\* Whatever context is supplied, the gate passes at evidence grade only:
\* create.go:91 writes no other level, and capture.go changes it nowhere.
THEOREM EvidenceGradeIsTheTop == GateSpec => []NeverAboveEvidenceGrade
<1>1. GateIInv => NeverAboveEvidenceGrade
  <2>. SUFFICES ASSUME GateIInv, Accepted PROVE context.requiredLevel = "evidence-grade"
    BY DEF NeverAboveEvidenceGrade
  <2>1. Captured /\ ~LevelBelowRequired(statement, context) /\ context.requiredLevel \in Levels
    BY AcceptedMatches DEF GateIInv
  <2>2. statement.verificationLevel = "evidence-grade"
    BY <2>1, StatementOfResult DEF Captured
  <2>. QED
    BY <2>1, <2>2 DEF LevelBelowRequired, Levels, LevelRank
<1>. QED
  BY <1>1, FactsInvariant, PTL

\* The summary of a job with a verdict says the verdict; that of a job without
\* one is of files from before (action.yml:116-123, context_summary.go:55-90).
THEOREM SummaryIsTruthful == GateSpec => []SummaryTellsTheVerdict
<1>1. GateIInv => SummaryTellsTheVerdict
  <2>. SUFFICES ASSUME GateIInv, job = 5, summary # None
                PROVE  /\ verdict # None =>
                             /\ summary.codes = verdict
                             /\ verdict = {} => summary.repoMatches /\ summary.baseMatches
                       /\ verdict = None => left # None /\ (statement = left.statement \/ context = left.context)
    BY DEF SummaryTellsTheVerdict
  <2>1. /\ statement # None /\ context \notin {None, Garbled} /\ options.located
        /\ summary = RenderSummary(Judgement)
    BY DEF GateIInv, SummaryFacts, NothingToShow
  <2>2. ASSUME verdict # None PROVE summary.codes = verdict
    BY <2>1, <2>2 DEF GateIInv, JobFacts, RenderSummary
  <2>3. ASSUME verdict # None, verdict = {} PROVE summary.repoMatches /\ summary.baseMatches
    <3>1. Accepted
      BY <2>3 DEF Accepted, Judged
    <3>. QED
      BY <2>1, <3>1, AcceptedMatches DEF GateIInv, RenderSummary
  <2>4. ASSUME verdict = None PROVE left # None /\ (statement = left.statement \/ context = left.context)
    <3>1. statement = StatementLeft \/ context = ContextLeft
      BY <2>1, <2>4 DEF GateIInv, JobFacts
    <3>. QED
      BY <2>1, <3>1 DEF StatementLeft, ContextLeft
  <2>. QED
    BY <2>2, <2>3, <2>4
<1>. QED
  BY <1>1, FactsInvariant, PTL

-----------------------------------------------------------------------------
(* The verdict on what a job nobody disturbed has captured.                *)

\* Everything a bare context holds, and what a bare statement names.
BareContext(c, r, flag) ==
    /\ c.wellFormed <=> RequiredLevel(flag) \in Levels /\ r.repoUrl \in LegalUrls
    /\ c.requiredLevel = RequiredLevel(flag)
    /\ c.repoUrl = r.repoUrl /\ c.baseCommit = r.base
    /\ c.subjects = <<[name |-> "patch.diff", algorithm |-> "sha256", digest |-> r.patch]>>
    /\ c.verifiedAgentConfig = None /\ c.verifiedMcpServers = {} /\ c.verifiedDelegation = {}
    /\ c.expectedPullRequestNumber = 0 /\ c.expectedRunId = None /\ c.freshnessWindowSeconds = 0

BareStatement(s, r) ==
    /\ s.type = "in-toto-v1" /\ s.predicateType \in {"v0", "v1"}
    /\ s.predicateVersion = s.predicateType /\ s.verificationLevel = "evidence-grade"
    /\ s.repoUrl = r.repoUrl /\ s.baseCommit = r.base
    /\ s.subject = {[name |-> "patch.diff", digest |-> [sha256 |-> r.patch]]}
    /\ OneReading(s)

LEMMA ContextIsBare ==
    ASSUME NEW r, NEW flag
    PROVE  BareContext(BuildVerifierContext(r, flag), r, flag)
BY DEF BareContext, BuildVerifierContext, Merged, NothingVerified

LEMMA StatementIsBare ==
    ASSUME NEW r, NEW o, Accepts(o)
    PROVE  BareStatement(StatementOf(r, o), r)
BY StatementOfResult DEF BareStatement

\* What a bare statement claims, that of a command and that of a harness.
EvidenceClaims(s) ==
    /\ \A e \in s.evidence : e.storage # "transparency-log" /\ e.type \in {"tool-summary", "trace"}
    /\ s.evidence # {}

CommonClaims(s) ==
    /\ s.decodes /\ s.predicateDecodes
    /\ s.approvalState = "none" /\ s.builder = None
    /\ s.declaredIdentity = None /\ s.witnesses = {} /\ s.extensions = {}
    /\ EvidenceClaims(s)
    /\ s.startedAt = CapturedAt /\ s.finishedAt = CapturedAt

\* What goes into the statement as git and the caller have it.
Admitted(r, legal) == r.branch \in LegalBranches \cup {None} /\ r.repoUrl \in LegalUrls /\ legal

CommandClaims(s, r, o) ==
    /\ s.wellFormed <=> Admitted(r, o.legal)
    /\ s.executionType = "local"
    /\ ~s.runtime /\ s.mcpServers = {} /\ s.delegation = {}
    /\ s.capture # None => s.capture.method \in {"wrapper", "ci-step", "manual"}
    /\ s.predicateType = "v0" => s.capture = None /\ s.agentConfig = None

HarnessName(m) == IF m.agentName = "" THEN None ELSE m.agentName
HarnessClaims(s, r, m) ==
    /\ s.wellFormed <=> Admitted(r, m.legal)
    /\ s.executionType = IF m.executionType = "" THEN "local" ELSE m.executionType
    /\ \E e \in s.evidence : e.type = "trace"
    /\ s.runtime
    /\ s.capture = [method |-> "harness-native", harness |-> HarnessName(m)]

LEMMA CommandClaimed ==
    ASSUME NEW r, NEW o, FlagsAccepted(o), NEW s, s = CreateStatement(r, o)
    PROVE  CommonClaims(s) /\ CommandClaims(s, r, o)
<1>0. s.evidence = {[type |-> "tool-summary", storage |-> "local-only", visibility |-> "team", digest |-> r.patch]}
  BY DEF CreateStatement
<1>1. EvidenceClaims(s)
  BY <1>0 DEF EvidenceClaims
<1>3. CommonClaims(s)
  BY <1>1 DEF CreateStatement, CommonClaims
<1>2. /\ s.wellFormed <=> Admitted(r, o.legal)
      /\ s.executionType = "local"
      /\ ~s.runtime /\ s.mcpServers = {} /\ s.delegation = {}
  BY DEF CreateStatement, Admitted
<1>4. /\ s.capture # None => s.capture.method \in {"wrapper", "ci-step", "manual"}
      /\ s.predicateType = "v0" => s.capture = None /\ s.agentConfig = None
  BY DEF CreateStatement, FlagsAccepted, V1Flags
<1>. QED
  BY <1>2, <1>3, <1>4 DEF CommandClaims

LEMMA HarnessClaimed ==
    ASSUME NEW r, NEW m, IsRun(m), NEW s, s = HarnessStatement(r, m)
    PROVE  CommonClaims(s) /\ HarnessClaims(s, r, m)
<1>0. s.evidence = {[type |-> "trace", storage |-> "artifact-store", visibility |-> "team", digest |-> "trace"]}
  BY DEF HarnessStatement
<1>4. EvidenceClaims(s) /\ \E e \in s.evidence : e.type = "trace"
  BY <1>0 DEF EvidenceClaims
<1>1. CommonClaims(s)
  BY <1>4 DEF HarnessStatement, CreateStatement, CommonClaims
<1>2. s.wellFormed <=> Admitted(r, m.legal)
  BY DEF HarnessStatement, CreateStatement, Admitted
<1>3. /\ s.executionType = IF m.executionType = "" THEN "local" ELSE m.executionType
      /\ s.runtime
      /\ s.capture = [method |-> "harness-native", harness |-> HarnessName(m)]
  BY DEF HarnessStatement, CreateStatement, HarnessName
<1>. QED
  BY <1>1, <1>2, <1>3, <1>4 DEF HarnessClaims

\* What is captured at one moment reads as finished when it was started.
LEMMA CapturedInOrder == TextAtLeast(CapturedAt, CapturedAt)
BY DEF TextAtLeast, BytesLess, AfterSeconds, Zulu, CapturedAt

LEMMA NoneIsNoText == None \notin {"patch.diff", "local", "none", "harness-native"}
BY DataAssumption

\* No rule of the policy but the one on levels looks at more than a bare
\* statement and a bare context have in common.
LEMMA BareCodes ==
    ASSUME NEW s, NEW c, NEW r, NEW flag, BareStatement(s, r), CommonClaims(s), BareContext(c, r, flag),
           RequiredLevel(flag) \in Levels
    PROVE  FailureCodes(s, c) =
               IF RequiredLevel(flag) = "evidence-grade" THEN {} ELSE {"level_below_required"}
<1>. USE DEF BareStatement, CommonClaims, EvidenceClaims, BareContext
<1>1. ~PolicyOrHigher(s) /\ ~HighAssuranceClaim(s)
  BY DEF PolicyOrHigher, HighAssuranceClaim, LevelRank
<1>2. LevelBelowRequired(s, c) <=> RequiredLevel(flag) # "evidence-grade"
  BY DEF LevelBelowRequired, Levels, LevelRank
<1>3. ~SubjectDigestMismatch(s, c)
  <2>. DEFINE mine == [name |-> "patch.diff", digest |-> [sha256 |-> r.patch]]
              theirs == [name |-> "patch.diff", algorithm |-> "sha256", digest |-> r.patch]
  <2>1. SubjectMatches(mine, theirs)
    BY NoneIsNoText DEF SubjectMatches
  <2>2. DOMAIN c.subjects = {1} /\ c.subjects[1] = theirs /\ c.subjects # <<>> /\ s.subject = {mine}
    OBVIOUS
  <2>. HIDE DEF mine, theirs
  <2>. QED
    BY <2>1, <2>2 DEF SubjectDigestMismatch
<1>4. ~PrivacyViolation(s)
  BY DEF PrivacyViolation
<1>5. /\ ~LevelEscalation(s)
      /\ ~BuilderIdentityMismatch(s, c)
      /\ ~SignerIdentityMismatch(s, c)
      /\ ~TransparencyVerificationFailed(s, c)
      /\ ~MissingEvidence(s, c)
  BY <1>1 DEF LevelEscalation, BuilderIdentityMismatch, SignerIdentityMismatch,
     TransparencyVerificationFailed, MissingEvidence, McpServersUnverified,
     DelegationUnverified
<1>6. ~ReplayDetected(s, c) /\ ~StaleAttestation(s, c)
  BY DEF ReplayDetected, StaleAttestation
<1>7. PredicateCodes(s, c) = When("level_below_required", LevelBelowRequired(s, c))
  BY <1>4, <1>5, <1>6 DEF PredicateCodes, When
<1>. QED
  BY <1>2, <1>3, <1>7 DEF FailureCodes, When

\* Whether the contracts admit a bare statement: a command's for what it was
\* given, a harness's for what it was not refused for in time.
LEMMA CommandSchema ==
    ASSUME NEW r, NEW o, NEW s, BareStatement(s, r), CommonClaims(s), CommandClaims(s, r, o)
    PROVE  /\ SchemaValid(s) <=> Admitted(r, o.legal)
           /\ CueValid(s)
<1>1. CaptureMethod(s) # "harness-native"
  BY NoneIsNoText DEF CaptureMethod, CommandClaims
<1>2. s.executionType # None /\ s.approvalState # None
  BY NoneIsNoText DEF CommonClaims, CommandClaims
<1>3. SchemaValid(s) <=> s.wellFormed
  BY <1>1, <1>2 DEF SchemaValid, Levels, BareStatement, CommonClaims, EvidenceClaims, CommandClaims
<1>4. CueValid(s)
  BY <1>1, CapturedInOrder DEF CueValid, CommonClaims, CommandClaims
<1>. QED
  BY <1>3, <1>4 DEF CommandClaims

LEMMA HarnessSchema ==
    ASSUME NEW r, NEW m, IsRun(m),
           NEW s, BareStatement(s, r), CommonClaims(s), HarnessClaims(s, r, m), s.predicateType = "v1"
    PROVE  /\ SchemaValid(s) <=> Admitted(r, TRUE) /\ ~RefusedLater(m)
           /\ CueValid(s)
<1>1. s.capture # None
  BY DEF HarnessClaims, HarnessName, IsRun
<1>2. CaptureMethod(s) = "harness-native" /\ (s.capture.harness # None <=> m.agentName # "")
  <2>1. s.capture.method = "harness-native" /\ s.capture.harness = HarnessName(m)
    <3>1. s.capture = [method |-> "harness-native", harness |-> HarnessName(m)]
      BY DEF HarnessClaims
    <3>. QED
      BY <3>1
  <2>2. None # m.agentName
    BY DEF IsRun
  <2>. QED
    BY <1>1, <2>1, <2>2 DEF CaptureMethod, HarnessName
<1>3. WorkflowRef(s) = None
  BY DEF WorkflowRef, CommonClaims
<1>4. HasEvidenceType(s, "trace")
  BY DEF HasEvidenceType, HarnessClaims
<1>5. s.executionType # None /\ s.approvalState # None
  BY NoneIsNoText DEF CommonClaims, HarnessClaims, IsRun
<1>6. s.executionType = "github-actions" <=> m.executionType = "github-actions"
  BY DEF HarnessClaims
<1>7. SchemaValid(s) <=> s.wellFormed /\ m.agentName # "" /\ m.executionType # "github-actions"
  BY <1>2, <1>3, <1>5, <1>6 DEF SchemaValid, Levels, BareStatement, CommonClaims, EvidenceClaims
<1>8. CueValid(s)
  BY <1>4, CapturedInOrder DEF CueValid, CommonClaims, HarnessClaims
<1>. QED
  BY <1>7, <1>8 DEF HarnessClaims, RefusedLater, Admitted, IsRun

\* Both verdicts on what was captured and compared at one moment.
LEMMA BareVerdict ==
    ASSUME NEW o, Accepts(o), o.legal \in BOOLEAN, o.run # None => IsRun(o.run),
           NEW r, NEW v, r.repoUrl = v.repoUrl, r.base = v.base, r.patch = v.patch,
           NEW s, s = StatementOf(r, o), NEW c, c = BuildVerifierContext(v, o.requiredLevel)
    PROVE  Judge(s, c) =
               IF Unadmitted(o, r.branch, r.repoUrl) THEN {"schema_invalid"}
               ELSE IF RequiredLevel(o.requiredLevel) = "evidence-grade" THEN {}
               ELSE {"level_below_required"}
<1>. DEFINE required == RequiredLevel(o.requiredLevel)
<1>1. BareStatement(s, r)
  BY StatementIsBare
<1>2. BareContext(c, r, o.requiredLevel)
  <2>1. BareContext(c, v, o.requiredLevel)
    BY ContextIsBare
  <2>. QED
    BY <2>1 DEF BareContext
<1>4. CommonClaims(s)
  BY CommandClaimed, HarnessClaimed DEF Accepts, StatementOf
<1>5. /\ SchemaValid(s) <=> /\ Admitted(r, TRUE)
                            /\ IF o.run = None THEN o.legal ELSE ~RefusedLater(o.run)
      /\ CueValid(s)
  <2>1. CASE o.run = None
    <3>1. CommandClaims(s, r, o)
      BY <2>1, CommandClaimed DEF Accepts, StatementOf
    <3>2. (SchemaValid(s) <=> Admitted(r, o.legal)) /\ CueValid(s)
      BY <1>1, <1>4, <3>1, CommandSchema
    <3>. QED
      BY <2>1, <3>2 DEF Admitted
  <2>2. CASE o.run # None
    <3>1. s = HarnessStatement(r, o.run)
      BY <2>2 DEF StatementOf
    <3>2. HarnessClaims(s, r, o.run)
      BY <2>2, <3>1, HarnessClaimed
    <3>3. s.predicateType = "v1"
      BY <3>1, HarnessStatementOfResult
    <3>4. /\ SchemaValid(s) <=> Admitted(r, TRUE) /\ ~RefusedLater(o.run)
          /\ CueValid(s)
      <4>1. IsRun(o.run)
        BY <2>2
      <4>. QED
        BY <1>1, <1>4, <3>2, <3>3, <4>1, HarnessSchema
    <3>. QED
      BY <2>2, <3>4
  <2>. QED
    BY <2>1, <2>2
<1>6. PreSchemaCodes(s) = {}
  BY <1>1 DEF BareStatement, PreSchemaCodes, When
<1>7. ContextValid(c) <=> required \in Levels /\ r.repoUrl \in LegalUrls
  BY <1>2 DEF BareContext, ContextValid
<1>8. ASSUME required \in Levels
      PROVE  FailureCodes(s, c) = IF required = "evidence-grade" THEN {} ELSE {"level_below_required"}
  BY <1>1, <1>2, <1>4, <1>8, BareCodes DEF required
<1>9. s.decodes /\ s.predicateDecodes
  BY <1>4 DEF CommonClaims
<1>. QED
  <2>. HIDE DEF required
  <2>1. Unadmitted(o, r.branch, r.repoUrl) <=> ~SchemaValid(s) \/ ~ContextValid(c)
    BY <1>5, <1>7 DEF Unadmitted, Admitted, required
  <2>. QED
    BY <1>5, <1>6, <1>7, <1>8, <1>9, <2>1 DEF Judge, required

\* A context the command wrote is none that holds no JSON object.
LEMMA ContextIsNotGarbled ==
    ASSUME NEW r, r.repoUrl \in Slugs, r.base \in Commits, r.patch \in Patches,
           NEW g \in Jobs, NEW c, c = BuildVerifierContext(r, g.options.requiredLevel)
    PROVE  c # Garbled
<1>. DEFINE q == [repoUrl |-> r.repoUrl, base |-> r.base, patch |-> r.patch]
<1>1. q \in [repoUrl : Slugs, base : Commits, patch : Patches]
  OBVIOUS
<1>2. c = BuildVerifierContext(q, g.options.requiredLevel)
  BY DEF BuildVerifierContext
<1>. HIDE DEF q
<1>. QED
  BY <1>1, <1>2, DataAssumption

\* A job nobody disturbed has one outcome, which its inputs, the contract pack
\* being there, and the remote and branch name of the repository decide: only
\* the remote can stop a capture, both captures find the same change, and no
\* rule but the one on levels can deny a bare statement of it (app.go:105-200,
\* create.go, capture.go, default.rego, agentattest.schema.json).
THEOREM UndisturbedJobsHaveOneOutcome == GateSpec => []UndisturbedOutcome
<1>1. GateIInv => UndisturbedOutcome
  <2>0. ASSUME GateIInv, job \in {4, 5}, acts = 0, faults = 0, options.supplied = None, verdict = None
        PROVE  ~Supported(remote) \/ ~Accepts(options) \/ ~options.located
    BY <2>0 DEF GateIInv, JobFacts, Stopped, StoppedCalm
  <2>. SUFFICES ASSUME GateIInv, verdict # None, acts = 0, faults = 0, options.supplied = None
                PROVE  /\ Supported(remote) /\ Accepts(options) /\ options.located
                       /\ verdict = IF Unadmitted(options, branch, NormalizeRepoURL(remote)) THEN {"schema_invalid"}
                                    ELSE IF RequiredLevel(options.requiredLevel) = "evidence-grade" THEN {}
                                    ELSE {"level_below_required"}
    BY <2>0 DEF UndisturbedOutcome
  <2>. DEFINE r == found["capture"]
              v == found["verifier"]
              g == [order |-> order, options |-> options, acts |-> allowed, left |-> left]
  <2>1. Captured /\ Viewed /\ options.located /\ verdict = Judgement /\ g \in Jobs
    BY DEF GateIInv, JobFacts
  <2>2. /\ r.repoUrl = v.repoUrl /\ r.base = v.base /\ r.patch = v.patch /\ r.branch = branch
        /\ v.patch = Diff
        /\ Supported(remote) /\ r.repoUrl = NormalizeRepoURL(remote)
    <3>1. \A c \in {"capture", "verifier"} : at[c] = "done" /\ disturbed[c] = {}
      BY <2>1 DEF GateIInv, Calm, Captured, Viewed, Ended
    <3>. QED
      BY <3>1 DEF GateIInv, IInv, Known, RefsKnown, FilesKnown, AfterRemote, AfterBranch, AfterHead, AfterBase
  <2>3. v.repoUrl \in Slugs /\ v.base \in Commits /\ v.patch \in Patches
    BY <2>1, <2>2, DiffTyped DEF GateIInv, IInv, Viewed, Ended, Answered, AfterRemote, AfterBranch, AfterHead, AfterBase
  <2>4. /\ Accepts(options) /\ statement = StatementOf(r, options)
        /\ context = BuildVerifierContext(v, options.requiredLevel)
    BY <2>1 DEF Captured, Viewed
  <2>5. g.options = options
    OBVIOUS
  <2>. HIDE DEF r, v, g
  <2>6. context # Garbled
    BY <2>1, <2>3, <2>4, <2>5, ContextIsNotGarbled
  <2>7. (options.run # None => IsRun(options.run)) /\ options.legal \in BOOLEAN
    BY <2>1, <2>5, DataAssumption
  <2>8. Judge(statement, context) =
            IF Unadmitted(options, r.branch, r.repoUrl) THEN {"schema_invalid"}
            ELSE IF RequiredLevel(options.requiredLevel) = "evidence-grade" THEN {}
            ELSE {"level_below_required"}
    BY <2>2, <2>4, <2>7, BareVerdict, ZenonT(60)
  <2>. QED
    BY <2>1, <2>2, <2>4, <2>6, <2>8 DEF Judgement
<1>. QED
  BY <1>1, FactsInvariant, PTL

-----------------------------------------------------------------------------
(* The refinement.                                                         *)

\* Once there is a verdict, or the job is over, neither file nor verdict
\* changes: `summary` only reads.
LEMMA DecidedStays ==
    ASSUME JobFacts, [GateNext]_gateVars, verdict # None \/ job = 5
    PROVE  UNCHANGED <<statement, context, verdict>> /\ (job = 5 => job' = 5)
<1>1. job \in {4, 5}
  BY DEF JobFacts
<1>2. ~ContextWritten /\ ~ContextCopied /\ ~PredicateCreated /\ ~ComputeFailed /\ ~VerifyPredicate
  BY <1>1, OrdersHaveBoth DEF ContextWritten, ContextCopied, PredicateCreated, CommandEnds, ComputeFailed,
     VerifyPredicate, Calls
<1>3. CASE RunCompute \/ Disturbance
  BY <1>3 DEF RunCompute, Disturbance
<1>4. CASE Summarise
  BY <1>4 DEF Summarise
<1>5. CASE UNCHANGED gateVars
  BY <1>5 DEF gateVars
<1>. QED
  BY <1>2, <1>3, <1>4, <1>5 DEF GateNext, JobStep

\* The verdict is made of the files that stay: no other command writes it,
\* and only `summary` ends a job.
LEMMA DecisionKeepsFiles ==
    ASSUME JobFacts, [GateNext]_gateVars, verdict = None, job # 5, verdict' # None \/ job' = 5
    PROVE  /\ UNCHANGED <<statement, context>>
           /\ verdict' = None \/ verdict' = Judgement
<1>1. CASE VerifyPredicate
  BY <1>1 DEF VerifyPredicate
<1>2. CASE Summarise
  BY <1>2 DEF Summarise
<1>3. ~RunCompute /\ ~Disturbance /\ ~UNCHANGED gateVars
  BY DEF RunCompute, Disturbance, gateVars
<1>4. ~ContextCopied /\ ~ComputeFailed
  BY OrdersHaveBoth DEF ContextCopied, ComputeFailed
<1>5. ~ContextWritten /\ ~PredicateCreated
  BY OrdersHaveBoth DEF ContextWritten, PredicateCreated, CommandEnds, Calls
<1>. QED
  BY <1>1, <1>2, <1>3, <1>4, <1>5 DEF GateNext, JobStep

\* The job implements the safety part of the abstract verifier: the captures,
\* the copies and whatever the developer does between them are submissions or
\* stutters, and the one accepting step finds the promise kept (action.yml).
THEOREM JobImplementsGate == GateSpec => Gate!Safety
<1>1. GateInit => Gate!Init
  BY DEF GateInit, Gate!Init
<1>2. GateIInv /\ [GateNext]_gateVars => [Gate!Next]_(Gate!gateVars)
  <2>. SUFFICES ASSUME GateIInv, [GateNext]_gateVars PROVE [Gate!Next]_(Gate!gateVars)
    OBVIOUS
  <2>1. JobFacts
    BY DEF GateIInv
  <2>2. CASE verdict # None \/ job = 5
    <3>1. UNCHANGED <<statement, context, verdict>> /\ (job = 5 => job' = 5)
      BY <2>1, <2>2, DecidedStays
    <3>. QED
      BY <2>2, <3>1 DEF Gate!gateVars
  <2>3. CASE verdict = None /\ job # 5 /\ verdict' = None /\ job' # 5
    BY <2>3 DEF Gate!Next, Gate!Submit
  <2>4. CASE verdict = None /\ job # 5 /\ (verdict' # None \/ job' = 5)
    <3>1. UNCHANGED <<statement, context>> /\ (verdict' = None \/ verdict' = Judgement)
      BY <2>1, <2>4, DecisionKeepsFiles
    <3>2. CASE verdict' = {} /\ verdict' # None
      <4>1. Judge(statement, context) = {}
        BY <3>1, <3>2 DEF Judgement
      <4>. QED
        BY <2>4, <3>1, <3>2, <4>1, EmptyVerdictsAreJustified DEF Justified, Gate!Next, Gate!Decide, Gate!Accept
    <3>3. CASE ~(verdict' = {} /\ verdict' # None)
      BY <2>4, <3>1, <3>3 DEF Gate!Next, Gate!Decide, Gate!Reject
    <3>. QED
      BY <3>2, <3>3
  <2>. QED
    BY <2>2, <2>3, <2>4
<1>. QED
  BY <1>1, <1>2, FactsInvariant, PTL DEF GateSpec, Gate!Safety

=============================================================================
