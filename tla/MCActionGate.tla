----------------------------- MODULE MCActionGate -----------------------------
(***************************************************************************)
(* Instances of ActionGate: the repositories, inputs and orders of the     *)
(* runs.                                                                   *)
(***************************************************************************)
EXTENDS ActionGate

CONSTANTS main, odd, x, y, origin, other

\* A clean repository, one with an unstaged change, one with a staged one.
Repo(where, on, staged, onDisk) ==
    [remote |-> where, branch |-> on, tip |-> [b \in Branches |-> 1],
     tracking |-> {main}, pushed |-> [b \in Branches |-> 0],
     index |-> [p \in Paths |-> IF p = 1 THEN staged ELSE x],
     worktree |-> [p \in Paths |-> IF p = 1 THEN onDisk ELSE x]]
Https == [form |-> "https", slug |-> origin]
Ssh == [form |-> "ssh", slug |-> origin]
Scp == [form |-> "scp", slug |-> other]
SomeRepos == {Repo(Https, main, x, x), Repo(Https, main, x, y), Repo(Https, odd, x, x), Repo(Ssh, main, x, y),
              Repo(Scp, main, x, x)}
OneRepo == {Repo(Https, main, x, x)}

\* The inputs with action.yml's defaults, and what may differ from them.
Defaults == [version |-> "v1", requiredLevel |-> "evidence-grade", captureMethod |-> "wrapper",
             harness |-> "", agentConfig |-> None, model |-> {}, run |-> None, supplied |-> None,
             legal |-> TRUE, located |-> TRUE]
SomeOptions ==
    {Defaults, [Defaults EXCEPT !.requiredLevel = "policy-grade"], [Defaults EXCEPT !.requiredLevel = "any"],
     [Defaults EXCEPT !.requiredLevel = ""],
     [Defaults EXCEPT !.agentConfig = "contract", !.model = {"provider", "id"}],
     [Defaults EXCEPT !.version = "v0", !.captureMethod = ""],
     [Defaults EXCEPT !.captureMethod = "harness-native"], [Defaults EXCEPT !.model = {"id"}]}

\* Contexts with a verified identity, for the clean repository and for one
\* with a change, at both levels.
SuppliedFor(level, patch) ==
    [BuildVerifierContext([repoUrl |-> origin, base |-> <<main, 1>>, patch |-> patch], level) EXCEPT
        !.verifiedSigner = "w", !.verifiedBuilderId = "w", !.verifiedWorkflowRef = "w", !.verifiedIssuer = "oidc"]
Untouched == [p \in {} |-> <<x, y>>]
OneEdit == [p \in {1} |-> <<x, y>>]
SomeSupplied == {SuppliedFor("evidence-grade", Untouched), SuppliedFor("policy-grade", OneEdit), Missing, Garbled}

\* What a harness knows of its run.
Run == [trace |-> "bound", agentName |-> "agent", executionType |-> "", agentConfig |-> "contract",
        mcpServers |-> {"m1"}, legal |-> TRUE]
SomeRuns == {Run, [Run EXCEPT !.trace = "malformed"], [Run EXCEPT !.agentName = ""],
             [Run EXCEPT !.executionType = "github-actions"], [Run EXCEPT !.executionType = "platform-agent"],
             [Run EXCEPT !.legal = FALSE]}

\* The files of an earlier use, on the clean repository.
Earlier == [repoUrl |-> origin, base |-> <<main, 1>>, branch |-> main, patch |-> Untouched]
FilesLeft == [statement |-> CreateStatement(Earlier, Defaults),
              context |-> BuildVerifierContext(Earlier, "evidence-grade")]

Job(order_, options_, acts_, left_) == [order |-> order_, options |-> options_, acts |-> acts_, left |-> left_]
ActionOrder == <<"verifier", "capture">>
AttestedFirst == <<"capture", "verifier">>
EveryJob ==
    {Job(ActionOrder, o, 1, None) : o \in SomeOptions}
    \cup {Job(ActionOrder, [Defaults EXCEPT !.supplied = c], 1, FilesLeft) : c \in SomeSupplied}
    \cup {Job(ActionOrder, o, 0, FilesLeft) :
             o \in {[Defaults EXCEPT !.version = "v0"], [Defaults EXCEPT !.located = FALSE],
                    [Defaults EXCEPT !.legal = FALSE], [Defaults EXCEPT !.legal = FALSE, !.requiredLevel = "policy-grade"]}}
    \cup {Job(AttestedFirst, [Defaults EXCEPT !.run = m], 0, None) : m \in SomeRuns}
    \cup {Job(AttestedFirst, Defaults, 2, None), Job(AttestedFirst, [Defaults EXCEPT !.run = Run], 1, None),
          Job(AttestedFirst, [Defaults EXCEPT !.supplied = Missing], 0, FilesLeft)}
LaterJob == {Job(AttestedFirst, Defaults, 2, None)}
BothCalls == {"verifier", "capture"}

=============================================================================
