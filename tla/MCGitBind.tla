------------------------------ MODULE MCGitBind ------------------------------
(***************************************************************************)
(* Instances of GitBind: the repositories a call starts in.                *)
(***************************************************************************)
EXTENDS GitBind

CONSTANTS main, topic, x, y, origin

\* One path is changed, staged, deleted or new; the other is clean.
Starts(form, tracked) ==
    {[remote |-> IF form = None THEN None ELSE [form |-> form, slug |-> origin],
      branch |-> topic, tip |-> [b \in Branches |-> 1], tracking |-> tracked,
      pushed |-> [b \in Branches |-> IF b = topic THEN 0 ELSE 1],
      index |-> [p \in Paths |-> IF p = 1 THEN staged ELSE x],
      worktree |-> [p \in Paths |-> IF p = 1 THEN onDisk ELSE x]] :
        staged \in {x, None}, onDisk \in {x, y, None}}

SomeRepos == Starts("https", Branches) \cup Starts("scp", {}) \cup Starts("ssh", {}) \cup Starts(None, {})

=============================================================================
