------------------------------- MODULE MCCache -------------------------------
(***************************************************************************)
(* An instance of Cache: two results of different commits, one of them     *)
(* with a file that is gone before one that is there.                      *)
(***************************************************************************)
EXTENDS Cache

CONSTANTS p, q

ResultOf(commit, patch, files) ==
    [refs |-> [k \in Keys |-> IF k = "repo.url" THEN "repo" ELSE commit], patch |-> patch, files |-> files]

SomeValues == {"repo", "commit1", "commit2"}
SomeDigests == {"d1", "d2"}
SomeResults ==
    {ResultOf("commit1", "d1", <<[path |-> p, digest |-> None], [path |-> q, digest |-> "d2"]>>),
     ResultOf("commit2", "d2", <<[path |-> p, digest |-> "d1"]>>)}

=============================================================================
