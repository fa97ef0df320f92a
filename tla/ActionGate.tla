----------------------------- MODULE ActionGate -----------------------------
(***************************************************************************)
(* The commands of action/action.yml, one after the other: `context`, or a *)
(* copy of the context that was supplied, `predicate create`, `verify      *)
(* predicate`, which compares the two, and `summary`, which runs in every  *)
(* case on the files that are there.  The first two run gitbind.Compute    *)
(* over a repository that others may change.  A job is given the order of  *)
(* the first two, the action's or the one of a change attested first, by   *)
(* the command or by a harness, and verified later; the inputs; and the    *)
(* files that an earlier use of the action left in RUNNER_TEMP.            *)
(***************************************************************************)
EXTENDS GitBind, Verdict, Capture

CONSTANTS
    Jobs,           \* orders of the first two commands, each with the inputs
                    \* as flags of the commands, a bound on the acts of the
                    \* developer, and the files left, None when there are none;
                    \* with the flags goes `located`, whether contracts.Locate
                    \* finds a pack for `verify predicate` and for `summary`
    Missing,        \* a supplied context that is not there
    Garbled         \* a file that holds no JSON object, an empty one for one

NamesAChange(file) == file.repoUrl \in Slugs /\ file.baseCommit \in Commits
ASSUME ActionAssumption ==
    /\ Callers = {"verifier", "capture"}
    /\ \A g \in Jobs :
          /\ g.order \in {<<"verifier", "capture">>, <<"capture", "verifier">>}
          /\ g = [order |-> g.order, options |-> g.options, acts |-> g.acts, left |-> g.left]
          /\ g.left # None =>
                /\ NamesAChange(g.left.statement) /\ NamesAChange(g.left.context)
                /\ OneReading(g.left.statement)
          /\ g.options.supplied \notin {None, Missing, Garbled} => NamesAChange(g.options.supplied)
    /\ \A codes \in SUBSET (PolicyCodes \cup {"schema_invalid"}) : codes # None
    /\ LegalBranches \subseteq Branches

IsRun(m) ==
    /\ None \notin {m.agentName, m.executionType}
    /\ \A name \in {m.agentName, None} : [method |-> "harness-native", harness |-> name] # None
    /\ m.legal \in BOOLEAN

\* A field that is absent is no text and no capture record; what is no JSON
\* object is no context the command wrote.
ASSUME DataAssumption ==
    /\ None \notin {"patch.diff", "local", "none", "harness-native"}
    /\ \A g \in Jobs : g.options.legal \in BOOLEAN /\ g.options.located \in BOOLEAN
    /\ \A g \in Jobs : g.options.run # None => IsRun(g.options.run)
    /\ \A g \in Jobs : \A r \in [repoUrl : Slugs, base : Commits, patch : Patches] :
          BuildVerifierContext(r, g.options.requiredLevel) # Garbled

VARIABLES
    order,        \* of the first two commands
    options,      \* the flags
    allowed,      \* bound: acts in this job
    left,         \* what an earlier use of the action left
    job,          \* the command running: 1, 2, 3 (verify), 4 (summary); 5: over
    statement,    \* statement.json
    context,      \* context.json
    verdict,      \* the failure codes, None before verify ran
    summary,      \* what the summary shows, None when there is none
    ended         \* ghost: index and work tree when each Compute ended, and
                  \* whether nothing changed while it ran

given == <<order, options, allowed, left>>
gateVars == <<gitVars, given, job, statement, context, verdict, summary, ended>>

-----------------------------------------------------------------------------
StatementLeft == IF left = None THEN None ELSE left.statement
ContextLeft == IF left = None THEN None ELSE left.context

GateInit ==
    /\ Init
    /\ \E g \in Jobs : order = g.order /\ options = g.options /\ allowed = g.acts /\ left = g.left
    /\ job = 1
    /\ statement = StatementLeft /\ context = ContextLeft
    /\ verdict = None /\ summary = None
    /\ ended = [c \in Callers |-> None]

\* The command of the job that is a call of Compute; a supplied context is not.
Calls(c) ==
    /\ job \in DOMAIN order /\ order[job] = c
    /\ c = "capture" \/ options.supplied = None

RunCompute ==
    /\ \E c \in Callers : Calls(c) /\ ComputeStep(c)
    /\ UNCHANGED <<given, job, statement, context, verdict, summary, ended>>

\* The command that ran Compute writes its file, or exits with an error; the
\* shell of a step stops the job at the first error.
CommandEnds(c) ==
    /\ Calls(c)
    /\ at[c] = "done"
    /\ ended' = [ended EXCEPT ![c] = [index |-> index, worktree |-> worktree, calm |-> disturbed[c] = {}]]
    /\ UNCHANGED <<gitVars, given, verdict, summary>>

ContextWritten ==
    /\ CommandEnds("verifier")
    /\ context' = BuildVerifierContext(found["verifier"], options.requiredLevel)
    /\ job' = job + 1
    /\ UNCHANGED statement

\* cp: of a file that is not there it makes nothing.
ContextCopied ==
    /\ job \in DOMAIN order /\ order[job] = "verifier"
    /\ options.supplied # None
    /\ IF options.supplied = Missing
       THEN job' = 4 /\ UNCHANGED context
       ELSE job' = job + 1 /\ context' = options.supplied
    /\ UNCHANGED <<gitVars, given, statement, verdict, summary, ended>>

\* The command makes the statement, or the harness that ran the agent.
Accepts(o) == IF o.run = None THEN FlagsAccepted(o) ELSE RunAccepted(o.run)
StatementOf(r, o) == IF o.run = None THEN CreateStatement(r, o) ELSE HarnessStatement(r, o.run)

\* Faulty variant: the statement is written before the flags are looked at.
PredicateCreatedFirst ==
    /\ CommandEnds("capture")
    /\ statement' = StatementOf(found["capture"], options)
    /\ job' = IF Accepts(options) THEN job + 1 ELSE 4
    /\ UNCHANGED context

\* The flags are looked at after Compute; what is refused leaves the file.
PredicateCreated ==
    /\ CommandEnds("capture")
    /\ IF Accepts(options)
       THEN statement' = StatementOf(found["capture"], options) /\ job' = job + 1
       ELSE job' = 4 /\ UNCHANGED statement
    /\ UNCHANGED context

\* Faulty variant: the shell goes on with what there is.
ComputeFailedIgnored ==
    /\ \E c \in Callers :
          /\ Calls(c) /\ at[c] = "failed"
          /\ statement' = IF c = "capture" THEN StatementOf(found[c], options) ELSE statement
          /\ context' = IF c = "verifier" THEN BuildVerifierContext(found[c], options.requiredLevel)
                        ELSE context
    /\ job' = job + 1
    /\ UNCHANGED <<gitVars, given, verdict, summary, ended>>

\* Faulty variant: the job waits for an answer that does not come.
ComputeFailedAwaited ==
    /\ \E c \in Callers : Calls(c) /\ at[c] = "failed"
    /\ UNCHANGED gateVars

\* The shell has emptied context.json before `context` began; `predicate
\* create` opens its file when it has something to write.
ComputeFailed ==
    /\ \E c \in Callers :
          /\ Calls(c) /\ at[c] = "failed"
          /\ context' = IF c = "verifier" THEN Garbled ELSE context
    /\ job' = 4
    /\ UNCHANGED <<gitVars, given, statement, verdict, summary, ended>>

\* verify.Predicate of the two files, with a pack that stays as it is.
Judgement ==
    IF context = Garbled THEN {"schema_invalid"} ELSE Judge(statement, context)

\* Without a contract pack the command exits before there is a verdict.
VerifyPredicate ==
    /\ job = 3
    /\ IF options.located THEN verdict' = Judgement ELSE UNCHANGED verdict
    /\ job' = 4
    /\ UNCHANGED <<gitVars, given, statement, context, summary, ended>>

\* renderSummary: the rows that compare the two files, beside the result.
RenderSummary(codes) ==
    [codes |-> codes,
     repoMatches |-> statement.repoUrl = context.repoUrl,
     baseMatches |-> statement.baseCommit = context.baseCommit]

\* Whatever happened before: two readable files are judged again and shown,
\* if the pack is found.  An error of the command is no error of the step.
NothingToShow == statement = None \/ context \in {None, Garbled} \/ ~options.located
Summarise ==
    /\ job = 4
    /\ summary' = IF NothingToShow THEN None ELSE RenderSummary(Judgement)
    /\ job' = 5
    /\ UNCHANGED <<gitVars, given, statement, context, verdict, ended>>

JobStep ==
    \/ RunCompute \/ ContextWritten \/ ContextCopied \/ PredicateCreated \/ ComputeFailed
    \/ VerifyPredicate \/ Summarise

Disturbance ==
    /\ job < 4
    /\ (acts < allowed /\ Developer) \/ \E c \in Callers : Calls(c) /\ CommandFails(c)
    /\ UNCHANGED <<given, job, statement, context, verdict, summary, ended>>

GateNext == JobStep \/ Disturbance
GateSpec == GateInit /\ [][GateNext]_gateVars /\ WF_gateVars(JobStep)

-----------------------------------------------------------------------------
GateTypeOK ==
    /\ TypeOK
    /\ [order |-> order, options |-> options, acts |-> allowed, left |-> left] \in Jobs
    /\ job \in 1..5
    /\ statement # None => NamesAChange(statement)
    /\ context \notin {None, Garbled} => NamesAChange(context)
    /\ verdict = None \/ verdict \subseteq PolicyCodes \cup {"schema_invalid"}

Judged == job \in {4, 5} /\ verdict # None
Accepted == Judged /\ verdict = {}

\* VERIFICATION_MODEL.md:16,:36 -- when nothing changed since the job's first
\* look at the repository for the gate, an accepted statement is about the
\* diff, the base and the repository as they are at the verdict, whatever
\* happened while or after the statement was captured.  With a context from
\* elsewhere that look is the capture's.
FirstLook == IF options.supplied = None THEN "verifier" ELSE "capture"
AcceptedDiffIsCurrent ==
    Accepted /\ disturbed[FirstLook] = {} =>
        /\ statement.subject = {[name |-> "patch.diff", digest |-> [sha256 |-> Diff]]}
        /\ statement.baseCommit = CurrentBase
        /\ statement.repoUrl = NormalizeRepoURL(remote)

\* THREAT_MODEL.md:11, as far as `git diff` goes: with the same index at both
\* captures no tracked file can differ between what was attested and what was
\* accepted.
ChangeIsNoticedUnlessStaged ==
    Accepted /\ options.supplied = None /\ ended["capture"].calm /\ ended["verifier"].calm
    /\ ended["capture"].index = ended["verifier"].index =>
        \A p \in Paths : ended["capture"].index[p] # None =>
            ended["capture"].worktree[p] = ended["verifier"].worktree[p]

\* docs/examples/capture.md, Guarantees -- of what capture.Statement lets pass
\* the gate still refuses a run without an agent's name, one of GitHub Actions,
\* which needs a builder the harness cannot name, and what no schema admits.
RefusedLater(m) == m.agentName = "" \/ m.executionType = "github-actions" \/ ~m.legal

\* What goes into statement or context as git or the command line has it, and
\* phase 02 refuses.
Unadmitted(o, on, url) ==
    \/ on \notin LegalBranches \cup {None}
    \/ url \notin LegalUrls
    \/ RequiredLevel(o.requiredLevel) \notin Levels
    \/ IF o.run = None THEN ~o.legal ELSE RefusedLater(o.run)

\* A job nobody disturbs has one outcome.  It stops without a verdict only for
\* a remote that Compute does not read, for flags or a run that are refused, or
\* without a contract pack; otherwise what was just captured passes the gate at
\* evidence grade and at no other level, and is malformed only where git or the
\* command line allows what the schemas do not.
UndisturbedOutcome ==
    job \in {4, 5} /\ acts = 0 /\ faults = 0 /\ options.supplied = None =>
        verdict = IF ~Supported(remote) \/ ~Accepts(options) \/ ~options.located THEN None
                  ELSE IF Unadmitted(options, branch, NormalizeRepoURL(remote)) THEN {"schema_invalid"}
                  ELSE IF RequiredLevel(options.requiredLevel) = "evidence-grade" THEN {} ELSE {"level_below_required"}

\* Whatever identity the supplied context carries, the gate lets pass only
\* what is asked at evidence grade: neither command nor harness claims more.
NeverAboveEvidenceGrade == Accepted => context.requiredLevel = "evidence-grade"

\* action.yml:116 -- when the job reached a verdict the summary says the same,
\* and shows no mismatch beside "valid"; when a command failed before, there is
\* no summary, unless it is partly of files an earlier use of the action left.
SummaryTellsTheVerdict ==
    job = 5 =>
        /\ verdict # None /\ summary # None =>
              /\ summary.codes = verdict
              /\ verdict = {} => summary.repoMatches /\ summary.baseMatches
        /\ verdict = None /\ summary # None =>
              left # None /\ (statement = left.statement \/ context = left.context)

\* The job implements the abstract gate: what the commands before `verify`
\* leave is what is submitted, a verdict promises what the pipeline's does, and
\* every job ends with one or, after a command's error, is not accepted.
Gate == INSTANCE VerifierGate WITH
    verdict <- IF verdict # None THEN (IF verdict = {} THEN "accepted" ELSE "rejected")
               ELSE IF job = 5 THEN "rejected"
               ELSE "pending"
JobIsGate == Gate!Spec

-----------------------------------------------------------------------------
\* THREAT_MODEL.md:11 -- a file changed after the attestation fails the gate.
ChangeIsNoticed ==
    Accepted /\ ended["capture"].calm /\ ended["verifier"].calm =>
        \A p \in Paths : ended["capture"].index[p] # None =>
            ended["capture"].worktree[p] = ended["verifier"].worktree[p]

=============================================================================
