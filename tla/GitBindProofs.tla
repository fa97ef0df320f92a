---------------------------- MODULE GitBindProofs ----------------------------
(***************************************************************************)
(* What GitBind promises, for every repository, every number of concurrent *)
(* calls and every bound.  The inductive invariant says of each call what  *)
(* the answers it has so far are worth: as long as nothing disturbed the   *)
(* part of the repository they came from, they still are that part.        *)
(***************************************************************************)
EXTENDS GitBind, TLAPS

AfterBase == {"patch", "names", "files", "done"}
AfterHead == {"upstream", "base"} \cup AfterBase
AfterBranch == {"head"} \cup AfterHead
AfterRemote == {"branch"} \cup AfterBranch
AllSteps == RefSteps \cup FileSteps \cup {"done", "failed"}

RefsKnown(step, r) ==
    /\ step \in AfterRemote => Supported(remote) /\ r.repoUrl = NormalizeRepoURL(remote)
    /\ step \in AfterBranch => r.branch = branch
    /\ step \in AfterHead => r.head = HeadCommit
    /\ step = "upstream" => r.base = HeadCommit
    /\ step = "base" => r.upstream = Upstream
    /\ step \in AfterBase => r.base = CurrentBase

FilesKnown(step, r) ==
    /\ step \in {"names", "files", "done"} => r.patch = Diff
    /\ step \in RefSteps \cup {"patch", "names"} => r.files = {}
    /\ step = "files" =>
          /\ r.names \subseteq Changed
          /\ r.files = {[path |-> p, content |-> worktree[p]] : p \in Changed \ r.names}
    /\ step = "done" => r.files = CurrentFiles

Known(step, r, d) ==
    /\ step = "base" => r.upstream # None
    /\ d \cap {"refs", "command"} = {} => RefsKnown(step, r)
    /\ "files" \notin d => FilesKnown(step, r)

IInv == TypeOK /\ \A c \in Callers : Known(at[c], found[c], disturbed[c])

USE GitAssumption

-----------------------------------------------------------------------------
(* What git answers has its type.                                          *)

LEMMA CommitsTyped ==
    ASSUME NEW b \in Branches, NEW n \in 0..MaxCommits
    PROVE  CommitOf(b, n) \in Commits
BY DEF CommitOf, Commits

LEMMA HeadTyped == TypeOK => HeadCommit \in Commits
BY CommitsTyped DEF TypeOK, HeadCommit

LEMMA BaseTyped ==
    ASSUME TypeOK, NEW u \in Branches
    PROVE  MergeBase(u) \in Commits
<1>1. HeadCommit \in Commits
  BY HeadTyped
<1>2. CASE HeadCommit[1] = u
  <2>1. u # None
    BY DEF Commits
  <2>2. HeadCommit \in Branches \X (1..MaxCommits)
    BY <1>1, <1>2, <2>1 DEF Commits, Root
  <2>3. Least(HeadCommit[2], pushed[u]) \in 0..MaxCommits
    <3>1. HeadCommit[2] \in 1..MaxCommits
      BY <2>2
    <3>2. pushed[u] \in 0..MaxCommits
      BY DEF TypeOK
    <3>3. QED  BY <3>1, <3>2 DEF Least
  <2>4. QED  BY <1>2, <2>3, CommitsTyped DEF MergeBase
<1>3. CASE HeadCommit[1] # u
  BY <1>3 DEF MergeBase, Commits
<1>4. QED  BY <1>2, <1>3

LEMMA DiffTyped ==
    ASSUME TypeOK
    PROVE  Diff \in Patches
<1>1. Changed \in SUBSET Paths
  BY DEF Changed
<1>2. \A p \in Changed : <<index[p], worktree[p]>> \in Blobs \X (Blobs \cup {None})
  BY DEF Changed, TypeOK
<1>3. Diff \in [Changed -> Blobs \X (Blobs \cup {None})]
  BY <1>2 DEF Diff
<1>4. QED  BY <1>1, <1>3 DEF Patches

-----------------------------------------------------------------------------
(* One step of a call.                                                     *)

\* A call that learns keeps the invariant when what it has next is typed and
\* worth what the next step says.
LEMMA LearnKeeps ==
    ASSUME IInv, NEW c \in Callers, NEW step, NEW STATE answers, NEW STATE next,
           UNCHANGED faults, Learn(c, step, answers, next),
           answers \in Answers, next \in AllSteps, Known(next, answers, disturbed[c])
    PROVE  IInv'
<1> USE DEF Learn, refs, files
<1>1. TypeOK'
  BY DEF IInv, TypeOK, AllSteps
<1>2. ASSUME NEW d \in Callers PROVE Known(at[d], found[d], disturbed[d])'
  <2>1. CASE d = c
    <3>1. at'[d] = next /\ found'[d] = answers
      BY <2>1 DEF IInv, TypeOK
    <3>2. QED
      BY <2>1, <3>1 DEF Known, RefsKnown, FilesKnown, HeadCommit, Upstream, MergeBase, CurrentBase,
         CurrentFiles, Changed, Diff, Supported, NormalizeRepoURL
  <2>2. CASE d # c
    <3>1. at'[d] = at[d] /\ found'[d] = found[d]
      BY <2>2 DEF IInv, TypeOK
    <3>2. QED
      BY <3>1 DEF IInv, Known, RefsKnown, FilesKnown, HeadCommit, Upstream, MergeBase, CurrentBase,
         CurrentFiles, Changed, Diff, Supported, NormalizeRepoURL
  <2>3. QED  BY <2>1, <2>2
<1>3. QED  BY <1>1, <1>2 DEF IInv

LEMMA StopKeeps ==
    ASSUME IInv, NEW c \in Callers, NEW step, UNCHANGED faults, Stop(c, step)
    PROVE  IInv'
<1> USE DEF Stop, refs, files
<1>1. TypeOK'
  BY DEF IInv, TypeOK
<1>2. ASSUME NEW d \in Callers PROVE Known(at[d], found[d], disturbed[d])'
  <2>1. at'[d] = "failed" \/ at'[d] = at[d]
    BY DEF IInv, TypeOK
  <2>2. QED
    BY <2>1 DEF IInv, Known, RefsKnown, FilesKnown, HeadCommit, Upstream, MergeBase, CurrentBase,
       CurrentFiles, Changed, Diff, Supported, NormalizeRepoURL,
       AfterRemote, AfterBranch, AfterHead, AfterBase, RefSteps
<1>3. QED  BY <1>1, <1>2 DEF IInv

LEMMA StepKeeps ==
    ASSUME IInv, NEW c \in Callers, ComputeStep(c)
    PROVE  IInv'
<1> DEFINE r == found[c]
           d == disturbed[c]
<1> USE DEF AfterRemote, AfterBranch, AfterHead, AfterBase, RefSteps, FileSteps, AllSteps
<1>t. r \in Answers /\ TypeOK
  BY DEF IInv, TypeOK
<1>k. Known(at[c], r, d)
  BY DEF IInv
<1>1. CASE ReadRemote(c)
  <2>1. CASE Supported(remote)
    <3> DEFINE a == [r EXCEPT !.repoUrl = NormalizeRepoURL(remote)]
    <3>1. a \in Answers
      BY <1>t, <2>1 DEF Answers, TypeOK, Remotes, Supported, NormalizeRepoURL
    <3>2. Known("branch", a, d)
      BY <1>k, <1>t, <1>1, <2>1 DEF Known, RefsKnown, FilesKnown, ReadRemote, Learn, Answers
    <3>3. Learn(c, "remote", a, "branch") /\ UNCHANGED faults
      BY <1>1, <2>1 DEF ReadRemote
    <3>4. QED  BY <3>1, <3>2, <3>3, LearnKeeps
  <2>2. CASE ~Supported(remote)
    BY <1>1, <2>2, StopKeeps DEF ReadRemote
  <2>3. QED  BY <2>1, <2>2
<1>2. CASE ReadBranch(c)
  <2> DEFINE a == [r EXCEPT !.branch = branch]
  <2>1. a \in Answers
    BY <1>t DEF Answers, TypeOK
  <2>2. Known("head", a, d)
    BY <1>k, <1>t, <1>2 DEF Known, RefsKnown, FilesKnown, ReadBranch, Learn, Answers
  <2>3. QED  BY <1>2, <2>1, <2>2, LearnKeeps DEF ReadBranch
<1>3. CASE ReadHead(c)
  <2> DEFINE a == [r EXCEPT !.head = HeadCommit, !.base = HeadCommit]
  <2>1. a \in Answers
    BY <1>t, HeadTyped DEF Answers
  <2>2. Known("upstream", a, d)
    BY <1>k, <1>t, <1>3 DEF Known, RefsKnown, FilesKnown, ReadHead, Learn, Answers
  <2>3. QED  BY <1>3, <2>1, <2>2, LearnKeeps DEF ReadHead
<1>4. CASE ReadUpstream(c)
  <2> DEFINE a == [r EXCEPT !.upstream = Upstream]
             next == IF Upstream = None THEN "patch" ELSE "base"
  <2>1. a \in Answers
    BY <1>t DEF Answers, TypeOK, Upstream
  <2>2. Known(next, a, d)
    BY <1>k, <1>t, <1>4 DEF Known, RefsKnown, FilesKnown, ReadUpstream, Learn, Answers, CurrentBase
  <2>3. next \in AllSteps
    OBVIOUS
  <2>4. Learn(c, "upstream", a, next) /\ UNCHANGED faults
    BY <1>4 DEF ReadUpstream
  <2>5. QED
    <3> HIDE DEF a, next
    <3> QED  BY <2>1, <2>2, <2>3, <2>4, LearnKeeps
<1>5. CASE ReadBase(c)
  <2> DEFINE a == [r EXCEPT !.base = MergeBase(r.upstream)]
  <2>1. CASE r.upstream \in Branches
    <3>1. a \in Answers
      BY <1>t, <2>1, BaseTyped DEF Answers
    <3>2. Known("patch", a, d)
      BY <1>k, <1>t, <1>5 DEF Known, RefsKnown, FilesKnown, ReadBase, Learn, Answers, CurrentBase
    <3>3. QED  BY <1>5, <3>1, <3>2, LearnKeeps DEF ReadBase
  <2>2. r.upstream \in Branches
    BY <1>k, <1>t, <1>5 DEF Known, ReadBase, Learn, Answers
  <2>3. QED  BY <2>1, <2>2
<1>6. CASE ReadPatch(c)
  <2> DEFINE a == [r EXCEPT !.patch = Diff]
  <2>1. a \in Answers
    BY <1>t, DiffTyped DEF Answers
  <2>2. Known("names", a, d)
    BY <1>k, <1>t, <1>6 DEF Known, RefsKnown, FilesKnown, ReadPatch, Learn, Answers
  <2>3. QED  BY <1>6, <2>1, <2>2, LearnKeeps DEF ReadPatch
<1>7. CASE ReadNames(c)
  <2> DEFINE a == [r EXCEPT !.names = Changed]
  <2>1. a \in Answers
    BY <1>t DEF Answers, Changed
  <2>2. Known("files", a, d)
    BY <1>k, <1>t, <1>7 DEF Known, RefsKnown, FilesKnown, ReadNames, Learn, Answers
  <2>3. QED  BY <1>7, <2>1, <2>2, LearnKeeps DEF ReadNames
<1>8. CASE HashFile(c)
  <2>1. PICK p \in r.names :
           Learn(c, "files",
                 [r EXCEPT !.names = @ \ {p}, !.files = @ \cup {[path |-> p, content |-> worktree[p]]}], "files")
    BY <1>8 DEF HashFile
  <2> DEFINE a == [r EXCEPT !.names = @ \ {p}, !.files = @ \cup {[path |-> p, content |-> worktree[p]]}]
  <2>2. a \in Answers
    <3>1. p \in Paths /\ r.names \ {p} \in SUBSET Paths
      BY <1>t DEF Answers
    <3>2. worktree[p] \in Blobs \cup {None}
      BY <1>t, <3>1 DEF TypeOK
    <3>3. r.files \cup {[path |-> p, content |-> worktree[p]]} \in SUBSET [path : Paths, content : Blobs \cup {None}]
      BY <1>t, <3>1, <3>2 DEF Answers
    <3>4. QED  BY <1>t, <3>1, <3>3 DEF Answers
  <2>3. Known("files", a, d)
    <3>1. at[c] = "files" /\ a.names = r.names \ {p} /\ a.patch = r.patch
          /\ a.files = r.files \cup {[path |-> p, content |-> worktree[p]]}
      BY <1>t, <2>1 DEF Learn, Answers
    <3>2. d \cap {"refs", "command"} = {} => RefsKnown("files", a)
      BY <1>k, <1>t, <3>1 DEF Known, RefsKnown, Answers
    <3>3. "files" \notin d => FilesKnown("files", a)
      BY <1>k, <3>1 DEF Known, FilesKnown
    <3>4. QED  BY <3>2, <3>3 DEF Known
  <2>4. Learn(c, "files", a, "files") /\ UNCHANGED faults
    BY <1>8, <2>1 DEF HashFile
  <2>5. QED
    <3> HIDE DEF a
    <3> QED  BY <2>2, <2>3, <2>4, LearnKeeps
<1>9. CASE Finish(c)
  <2>1. Known("done", r, d)
    BY <1>k, <1>9 DEF Known, RefsKnown, FilesKnown, Finish, Learn, CurrentFiles
  <2>2. QED  BY <1>t, <1>9, <2>1, LearnKeeps DEF Finish
<1>10. QED  BY <1>1, <1>2, <1>3, <1>4, <1>5, <1>6, <1>7, <1>8, <1>9 DEF ComputeStep

LEMMA CommandFailureKeeps ==
    ASSUME IInv, NEW c \in Callers, CommandFails(c)
    PROVE  IInv'
<1> USE DEF CommandFails, refs, files, AfterRemote, AfterBranch, AfterHead, AfterBase, RefSteps, FileSteps
<1>1. TypeOK'
  BY DEF IInv, TypeOK
<1>2. ASSUME NEW d \in Callers PROVE Known(at[d], found[d], disturbed[d])'
  <2>1. CASE d = c
    <3>1. "command" \in disturbed'[d] /\ found'[d] = found[d]
      BY <2>1 DEF IInv, TypeOK
    <3>2. "files" \notin disturbed'[d] => "files" \notin disturbed[d]
      BY <2>1 DEF IInv, TypeOK
    <3>3. at'[d] \in {"failed", "head", "patch"}
          /\ (at'[d] # "failed" => at[d] \in {"branch", "upstream", "base"})
      BY <2>1 DEF IInv, TypeOK
    <3>4. QED  BY <3>1, <3>2, <3>3 DEF IInv, Known, FilesKnown
  <2>2. CASE d # c
    <3>1. at'[d] = at[d] /\ found'[d] = found[d] /\ disturbed'[d] = disturbed[d]
      BY <2>2 DEF IInv, TypeOK
    <3>2. QED
      BY <3>1 DEF IInv, Known, RefsKnown, FilesKnown, HeadCommit, Upstream, MergeBase, CurrentBase,
         CurrentFiles, Changed, Diff, Supported, NormalizeRepoURL
  <2>3. QED  BY <2>1, <2>2
<1>3. QED  BY <1>1, <1>2 DEF IInv

-----------------------------------------------------------------------------
(* The developer.                                                          *)

\* Whoever moves a ref takes what is known of refs from every call that has
\* begun, and leaves it what it knows of files; and the other way round.
LEMMA ActKeeps ==
    ASSUME IInv, NEW what, Act(what), TypeOK',
           \/ what = "refs" /\ UNCHANGED files
           \/ what = "files" /\ UNCHANGED refs
    PROVE  IInv'
<1> USE DEF Act, calls, AfterRemote, AfterBranch, AfterHead, AfterBase, RefSteps
<1>1. ASSUME NEW c \in Callers PROVE Known(at[c], found[c], disturbed[c])'
  <2>1. at'[c] = at[c] /\ found'[c] = found[c]
    OBVIOUS
  <2>2. disturbed'[c] = IF at[c] = "remote" THEN disturbed[c] ELSE disturbed[c] \cup {what}
    BY DEF IInv, TypeOK
  <2>3. CASE at[c] = "remote"
    BY <2>1, <2>2, <2>3 DEF IInv, Known, RefsKnown, FilesKnown
  <2>4. CASE at[c] # "remote" /\ what = "refs" /\ UNCHANGED files
    BY <2>1, <2>2, <2>4 DEF IInv, Known, FilesKnown, files, CurrentFiles, Changed, Diff
  <2>5. CASE at[c] # "remote" /\ what = "files" /\ UNCHANGED refs
    BY <2>1, <2>2, <2>5 DEF IInv, Known, RefsKnown, refs, HeadCommit, Upstream, MergeBase, CurrentBase,
       Supported, NormalizeRepoURL
  <2>6. QED  BY <2>3, <2>4, <2>5
<1>2. QED  BY <1>1 DEF IInv

LEMMA DeveloperKeeps ==
    ASSUME IInv, Developer
    PROVE  IInv'
<1>0. TypeOK
  BY DEF IInv
<1> USE DEF Act, calls, refs, files
<1>1. ASSUME NEW p \in Paths, NEW content \in Blobs \cup {None}, Edit(p, content) PROVE IInv'
  <2>1. TypeOK'
    BY <1>0, <1>1 DEF Edit, TypeOK
  <2>2. QED  BY <1>1, <2>1, ActKeeps DEF Edit
<1>2. ASSUME NEW p \in Paths, Stage(p) PROVE IInv'
  <2>1. TypeOK'
    BY <1>0, <1>2 DEF Stage, TypeOK
  <2>2. QED  BY <1>2, <2>1, ActKeeps DEF Stage
<1>3. CASE Commit
  <2>1. TypeOK'
    BY <1>0, <1>3 DEF Commit, TypeOK
  <2>2. QED  BY <1>3, <2>1, ActKeeps DEF Commit
<1>4. CASE Push
  <2>1. TypeOK'
    BY <1>0, <1>4 DEF Push, TypeOK
  <2>2. QED  BY <1>4, <2>1, ActKeeps DEF Push
<1>5. ASSUME NEW b \in Branches \cup {None}, Switch(b) PROVE IInv'
  <2>1. TypeOK'
    BY <1>0, <1>5, HeadTyped DEF Switch, TypeOK
  <2>2. QED  BY <1>5, <2>1, ActKeeps DEF Switch
<1>6. ASSUME NEW r \in Remotes, SetRemote(r) PROVE IInv'
  <2>1. TypeOK'
    BY <1>0, <1>6 DEF SetRemote, TypeOK
  <2>2. QED  BY <1>6, <2>1, ActKeeps DEF SetRemote
<1>7. QED  BY <1>1, <1>2, <1>3, <1>4, <1>5, <1>6 DEF Developer

-----------------------------------------------------------------------------
(* The theorems.                                                           *)

LEMMA InitEstablishes == Init => IInv
<1> SUFFICES ASSUME Init PROVE IInv
  OBVIOUS
<1> USE DEF Init
<1>1. Blank \in Answers
  BY DEF Blank, Answers
<1>2. TypeOK
  <2>1. PICK repo \in InitialRepos :
           /\ remote = repo.remote /\ branch = repo.branch /\ tip = repo.tip /\ tracking = repo.tracking
           /\ pushed = repo.pushed /\ index = repo.index /\ worktree = repo.worktree
    OBVIOUS
  <2>2. repo \in Repositories
    BY <2>1
  <2>3. detachedAt \in Commits
    BY DEF Commits
  <2>4. QED  BY <1>1, <2>1, <2>2, <2>3 DEF TypeOK, Repositories, RefSteps
<1>3. ASSUME NEW c \in Callers PROVE Known(at[c], found[c], disturbed[c])
  BY DEF Known, RefsKnown, FilesKnown, Blank, AfterRemote, AfterBranch, AfterHead, AfterBase
<1>4. QED  BY <1>2, <1>3 DEF IInv

LEMMA NextKeeps == IInv /\ [Next]_gitVars => IInv'
<1> SUFFICES ASSUME IInv, [Next]_gitVars PROVE IInv'
  OBVIOUS
<1>1. ASSUME NEW c \in Callers, ComputeStep(c) PROVE IInv'
  BY <1>1, StepKeeps
<1>2. ASSUME NEW c \in Callers, CommandFails(c) PROVE IInv'
  BY <1>2, CommandFailureKeeps
<1>3. CASE Developer
  BY <1>3, DeveloperKeeps
<1>4. CASE UNCHANGED gitVars
  BY <1>4 DEF IInv, TypeOK, Known, RefsKnown, FilesKnown, HeadCommit, Upstream, MergeBase, CurrentBase,
     CurrentFiles, Changed, Diff, Supported, NormalizeRepoURL, gitVars, refs, files, calls
<1>5. QED  BY <1>1, <1>2, <1>3, <1>4 DEF Next

\* While nobody acted and no command failed, no call was disturbed.
Calm == acts = 0 /\ faults = 0 => \A c \in Callers : disturbed[c] = {}

LEMMA CalmKeeps == TypeOK /\ Calm /\ [Next]_gitVars => Calm'
<1> SUFFICES ASSUME TypeOK, Calm, [Next]_gitVars PROVE Calm'
  OBVIOUS
<1>1. CASE \E c \in Callers : ComputeStep(c)
  BY <1>1 DEF Calm, ComputeStep, ReadRemote, ReadBranch, ReadHead, ReadUpstream, ReadBase, ReadPatch, ReadNames,
     HashFile, Finish, Learn, Stop
<1>2. CASE \E c \in Callers : CommandFails(c)
  BY <1>2 DEF Calm, CommandFails, TypeOK
<1>3. CASE Developer
  <2>1. acts' = acts + 1
    BY <1>3 DEF Developer, Edit, Stage, Commit, Push, Switch, SetRemote, Act
  <2>2. QED  BY <2>1 DEF Calm, TypeOK
<1>4. CASE UNCHANGED gitVars
  BY <1>4 DEF Calm, gitVars
<1>5. QED  BY <1>1, <1>2, <1>3, <1>4 DEF Next

LEMMA IInvInvariant == Spec => []IInv
BY InitEstablishes, NextKeeps, PTL DEF Spec

\* Every answer gitbind.Compute collects has its type, whatever the developer
\* does between its commands and whichever of them fail.
THEOREM TypeCorrect == Spec => []TypeOK
<1>1. IInv => TypeOK
  BY DEF IInv
<1>2. QED  BY <1>1, IInvInvariant, PTL

\* The URL, branch, head and base that Compute returns are of one moment of the
\* repository when nobody moved a ref while it ran.
THEOREM RefsAgree == Spec => []RefsAreOfOneMoment
<1>1. IInv => RefsAreOfOneMoment
  BY DEF IInv, RefsAreOfOneMoment, Known, RefsKnown, AfterRemote, AfterBranch, AfterHead, AfterBase
<1>2. QED  BY <1>1, IInvInvariant, PTL

\* The patch digest and the file digests that Compute returns are of one moment
\* of the work tree when nobody touched a file or the index while it ran.
THEOREM FilesAgree == Spec => []FilesAreOfOneMoment
<1>1. IInv => FilesAreOfOneMoment
  BY DEF IInv, FilesAreOfOneMoment, Known, FilesKnown
<1>2. QED  BY <1>1, IInvInvariant, PTL

=============================================================================
