------------------------------- MODULE GitBind -------------------------------
(***************************************************************************)
(* internal/gitbind.Compute: a dozen git commands and file reads, each a   *)
(* step of its own, whose answers are put together into one Result that    *)
(* `digest`, `context` and `predicate create` take for the state of the    *)
(* repository.  Nothing locks the repository meanwhile: a developer, an    *)
(* agent or another job edits, stages, commits, pushes and switches        *)
(* branches between any two of them.                                       *)
(* Bounds: one git command reads the repository in one step; a branch is   *)
(* a line of commits of its own above the shared Root, and since no command *)
(* here compares with a commit's tree, the trees of commits are left out.  *)
(***************************************************************************)
EXTENDS Absent, Integers, FiniteSets

CONSTANTS
    Callers,       \* concurrent calls of Compute
    NPaths,        \* paths of the work tree, in path order
    Blobs,         \* contents of a file
    Branches,
    Slugs,         \* host/owner/name of a remote
    InitialRepos,  \* the repository before the first command
    MaxCommits,    \* bound: commits per branch
    MaxActs,       \* bound: acts of the developer
    MaxFaults      \* bound: git commands that fail although they could not

Paths == 1..NPaths
Root == <<None, 0>>
Commits == {Root} \cup (Branches \X (1..MaxCommits))
Remotes == {None} \cup [form : {"https", "scp", "ssh"}, slug : Slugs]

Repositories == [remote : Remotes, branch : Branches \cup {None}, tip : [Branches -> 0..MaxCommits],
                 tracking : SUBSET Branches, pushed : [Branches -> 0..MaxCommits],
                 index : [Paths -> Blobs \cup {None}], worktree : [Paths -> Blobs \cup {None}]]

ASSUME GitAssumption ==
    /\ NPaths \in Nat /\ MaxCommits \in Nat /\ MaxActs \in Nat /\ MaxFaults \in Nat
    /\ None \notin Blobs \cup Branches \cup Slugs
    /\ InitialRepos \subseteq Repositories
    /\ \A repo \in InitialRepos : \A b \in Branches : repo.pushed[b] <= repo.tip[b]

VARIABLES
    remote,       \* remote.origin.url
    branch,       \* the branch HEAD names, None when detached
    tip,          \* commits on each branch
    detachedAt,   \* the commit of a detached HEAD
    tracking,     \* branches that have an upstream
    pushed,       \* how many of a branch's commits its upstream has
    index,        \* staged content of each path, None when not tracked
    worktree,     \* content of each path on disk, None when there is no file
    acts, faults,
    at,           \* the command each call is at
    found,        \* the answers each call has so far
    disturbed     \* ghost: what the developer changed since a call began

refs == <<remote, branch, tip, detachedAt, tracking, pushed>>
files == <<index, worktree>>
calls == <<at, found>>
gitVars == <<refs, files, acts, faults, calls, disturbed>>

-----------------------------------------------------------------------------
\* External: what git answers about the repository as it is now.
CommitOf(b, n) == IF n = 0 THEN Root ELSE <<b, n>>
HeadCommit == IF branch = None THEN detachedAt ELSE CommitOf(branch, tip[branch])
Upstream == IF branch \in tracking THEN branch ELSE None
Least(m, n) == IF m < n THEN m ELSE n

\* merge-base HEAD u: lines of different branches meet at the root only.
MergeBase(u) ==
    IF HeadCommit[1] = u THEN CommitOf(u, Least(HeadCommit[2], pushed[u])) ELSE Root

\* git diff compares the work tree with the index, for tracked paths only:
\* what is staged, and what was never added, is in no patch.
Changed == {p \in Paths : index[p] # None /\ index[p] # worktree[p]}
Diff == [p \in Changed |-> <<index[p], worktree[p]>>]

\* NormalizeRepoURL: http(s) and git@host: remotes come down to the same text;
\* every other form, and no remote at all, is an error.
Supported(r) == r # None /\ r.form \in {"https", "scp"}
NormalizeRepoURL(r) == r.slug

-----------------------------------------------------------------------------
Blank == [repoUrl |-> None, branch |-> None, head |-> None, base |-> None, upstream |-> None,
          patch |-> None, names |-> {}, files |-> {}]

Init ==
    /\ \E repo \in InitialRepos :
          /\ remote = repo.remote
          /\ branch = repo.branch
          /\ tip = repo.tip
          /\ tracking = repo.tracking
          /\ pushed = repo.pushed
          /\ index = repo.index
          /\ worktree = repo.worktree
    /\ detachedAt = Root
    /\ acts = 0 /\ faults = 0
    /\ at = [c \in Callers |-> "remote"]
    /\ found = [c \in Callers |-> Blank]
    /\ disturbed = [c \in Callers |-> {}]

\* The answer of a command is kept, and the call goes on to the next one.
Learn(c, step, answers, next) ==
    /\ at[c] = step
    /\ found' = [found EXCEPT ![c] = answers]
    /\ at' = [at EXCEPT ![c] = next]
    /\ UNCHANGED <<refs, files, acts, disturbed>>

Stop(c, step) ==
    /\ at[c] = step
    /\ at' = [at EXCEPT ![c] = "failed"]
    /\ UNCHANGED <<refs, files, acts, disturbed, found>>

ReadRemote(c) ==
    /\ UNCHANGED faults
    /\ IF Supported(remote)
       THEN Learn(c, "remote", [found[c] EXCEPT !.repoUrl = NormalizeRepoURL(remote)], "branch")
       ELSE Stop(c, "remote")

\* Faulty variant: git's answer for a detached HEAD is taken for a branch.
ReadBranchAsGiven(c) ==
    /\ UNCHANGED faults
    /\ Learn(c, "branch", [found[c] EXCEPT !.branch = IF branch = None THEN "HEAD" ELSE branch], "head")

\* A detached HEAD has no branch name.
ReadBranch(c) ==
    /\ UNCHANGED faults
    /\ Learn(c, "branch", [found[c] EXCEPT !.branch = branch], "head")

ReadHead(c) ==
    /\ UNCHANGED faults
    /\ Learn(c, "head", [found[c] EXCEPT !.head = HeadCommit, !.base = HeadCommit], "upstream")

\* Faulty variant: the merge base is never asked for.
ReadUpstreamOnly(c) ==
    /\ UNCHANGED faults
    /\ Learn(c, "upstream", [found[c] EXCEPT !.upstream = Upstream], "patch")

\* Without an upstream the base is the head that was read.
ReadUpstream(c) ==
    /\ UNCHANGED faults
    /\ Learn(c, "upstream", [found[c] EXCEPT !.upstream = Upstream],
             IF Upstream = None THEN "patch" ELSE "base")

\* HEAD is resolved again here, not the commit ReadHead found.
ReadBase(c) ==
    /\ UNCHANGED faults
    /\ Learn(c, "base", [found[c] EXCEPT !.base = MergeBase(found[c].upstream)], "patch")

ReadPatch(c) ==
    /\ UNCHANGED faults
    /\ Learn(c, "patch", [found[c] EXCEPT !.patch = Diff], "names")

\* changedFiles runs a second git diff, then reads every file it names.
ReadNames(c) ==
    /\ UNCHANGED faults
    /\ Learn(c, "names", [found[c] EXCEPT !.names = Changed], "files")

\* Faulty variant: a file that is gone is left out.
HashFileIfPresent(c) ==
    /\ found[c].names # {}
    /\ UNCHANGED faults
    /\ \E p \in found[c].names :
          /\ \A q \in found[c].names : p <= q
          /\ Learn(c, "files",
                   [found[c] EXCEPT !.names = @ \ {p},
                       !.files = @ \cup (IF worktree[p] = None THEN {} ELSE {[path |-> p, content |-> worktree[p]]})],
                   "files")

\* Faulty variant: the loop stays at a file that is gone.
HashFileStaying(c) ==
    /\ found[c].names # {}
    /\ UNCHANGED faults
    /\ \E p \in found[c].names :
          /\ \A q \in found[c].names : p <= q
          /\ Learn(c, "files",
                   [found[c] EXCEPT !.names = IF worktree[p] = None THEN @ ELSE @ \ {p}], "files")

HashFile(c) ==
    /\ found[c].names # {}
    /\ UNCHANGED faults
    /\ \E p \in found[c].names :
          /\ \A q \in found[c].names : p <= q
          /\ Learn(c, "files",
                   [found[c] EXCEPT !.names = @ \ {p}, !.files = @ \cup {[path |-> p, content |-> worktree[p]]}],
                   "files")

Finish(c) ==
    /\ found[c].names = {}
    /\ UNCHANGED faults
    /\ Learn(c, "files", found[c], "done")

\* A command that fails ends the call, but for three whose failure is taken
\* for an answer: no branch name, no upstream, no merge base.
CommandFails(c) ==
    /\ faults < MaxFaults
    /\ faults' = faults + 1
    /\ disturbed' = [disturbed EXCEPT ![c] = @ \cup {"command"}]
    /\ \/ /\ at[c] \in {"remote", "head", "patch", "names", "files"}
          /\ at' = [at EXCEPT ![c] = "failed"]
       \/ /\ at[c] = "branch"
          /\ at' = [at EXCEPT ![c] = "head"]
       \/ /\ at[c] \in {"upstream", "base"}
          /\ at' = [at EXCEPT ![c] = "patch"]
    /\ UNCHANGED <<refs, files, acts, found>>

ComputeStep(c) ==
    \/ ReadRemote(c)
    \/ ReadBranch(c)
    \/ ReadHead(c)
    \/ ReadUpstream(c)
    \/ ReadBase(c)
    \/ ReadPatch(c)
    \/ ReadNames(c)
    \/ HashFile(c)
    \/ Finish(c)

-----------------------------------------------------------------------------
\* External: the developer.  A call that has not begun is not disturbed.
Act(what) ==
    /\ acts < MaxActs
    /\ acts' = acts + 1
    /\ disturbed' = [c \in Callers |-> IF at[c] = "remote" THEN disturbed[c] ELSE disturbed[c] \cup {what}]
    /\ UNCHANGED <<faults, calls>>

Edit(p, content) ==
    /\ content # worktree[p]
    /\ worktree' = [worktree EXCEPT ![p] = content]
    /\ Act("files")
    /\ UNCHANGED <<refs, index>>

Stage(p) ==
    /\ index[p] # worktree[p]
    /\ index' = [index EXCEPT ![p] = worktree[p]]
    /\ Act("files")
    /\ UNCHANGED <<refs, worktree>>

Commit ==
    /\ branch # None
    /\ tip[branch] < MaxCommits
    /\ tip' = [tip EXCEPT ![branch] = @ + 1]
    /\ Act("refs")
    /\ UNCHANGED <<remote, branch, detachedAt, tracking, pushed, files>>

Push ==
    /\ branch \in tracking
    /\ pushed[branch] < tip[branch]
    /\ pushed' = [pushed EXCEPT ![branch] = tip[branch]]
    /\ Act("refs")
    /\ UNCHANGED <<remote, branch, tip, detachedAt, tracking, files>>

Switch(b) ==
    /\ b # branch
    /\ branch' = b
    /\ detachedAt' = IF b = None THEN HeadCommit ELSE detachedAt
    /\ Act("refs")
    /\ UNCHANGED <<remote, tip, tracking, pushed, files>>

SetRemote(r) ==
    /\ r # remote
    /\ remote' = r
    /\ Act("refs")
    /\ UNCHANGED <<branch, tip, detachedAt, tracking, pushed, files>>

Developer ==
    \/ \E p \in Paths : \E content \in Blobs \cup {None} : Edit(p, content)
    \/ \E p \in Paths : Stage(p)
    \/ Commit
    \/ Push
    \/ \E b \in Branches \cup {None} : Switch(b)
    \/ \E r \in Remotes : SetRemote(r)

Next ==
    \/ \E c \in Callers : ComputeStep(c) \/ CommandFails(c)
    \/ Developer

\* A call runs to its end; the developer need do nothing.
Spec == Init /\ [][Next]_gitVars /\ \A c \in Callers : WF_gitVars(ComputeStep(c))

-----------------------------------------------------------------------------
Patches == UNION {[ps -> Blobs \X (Blobs \cup {None})] : ps \in SUBSET Paths}
Answers == [repoUrl : Slugs \cup {None}, branch : Branches \cup {None},
            head : Commits \cup {None}, base : Commits \cup {None}, upstream : Branches \cup {None},
            patch : {None} \cup Patches,
            names : SUBSET Paths, files : SUBSET [path : Paths, content : Blobs \cup {None}]]

RefSteps == {"remote", "branch", "head", "upstream", "base"}
FileSteps == {"patch", "names", "files"}

TypeOK ==
    /\ remote \in Remotes
    /\ branch \in Branches \cup {None}
    /\ tip \in [Branches -> 0..MaxCommits]
    /\ detachedAt \in Commits
    /\ tracking \subseteq Branches
    /\ pushed \in [Branches -> 0..MaxCommits]
    /\ index \in [Paths -> Blobs \cup {None}]
    /\ worktree \in [Paths -> Blobs \cup {None}]
    /\ acts \in 0..MaxActs /\ faults \in 0..MaxFaults
    /\ at \in [Callers -> RefSteps \cup FileSteps \cup {"done", "failed"}]
    /\ found \in [Callers -> Answers]
    /\ disturbed \in [Callers -> SUBSET {"refs", "files", "command"}]

CurrentBase == IF Upstream = None THEN HeadCommit ELSE MergeBase(Upstream)
CurrentFiles == {[path |-> p, content |-> worktree[p]] : p \in Changed}

\* When no one moved a ref since the call began, the URL, branch, head and
\* base it returns are those of the repository, all of one moment.
RefsAreOfOneMoment ==
    \A c \in Callers : at[c] = "done" /\ disturbed[c] \cap {"refs", "command"} = {} =>
        /\ Supported(remote) /\ found[c].repoUrl = NormalizeRepoURL(remote)
        /\ found[c].branch = branch
        /\ found[c].head = HeadCommit
        /\ found[c].base = CurrentBase

\* When no one touched a file or the index since the call began, the patch and
\* the list of changed files are of one moment and of each other.
FilesAreOfOneMoment ==
    \A c \in Callers : at[c] = "done" /\ "files" \notin disturbed[c] =>
        /\ found[c].patch = Diff
        /\ found[c].files = CurrentFiles

\* Every call returns.
Terminates == \A c \in Callers : <>(at[c] \in {"done", "failed"})

=============================================================================
