------------------------------ MODULE MCRegistry -----------------------------
(***************************************************************************)
(* An instance of Registry: two statements of two repositories that share  *)
(* a subject and, made in one second by processes of one number, their run *)
(* id; one of them has a subject twice and one without a sha256 digest.    *)
(* One that names neither, and one that does not decode.                   *)
(***************************************************************************)
EXTENDS Registry

CONSTANTS p, q

First == [subjects |-> <<"d1", "d2">>, repoUrl |-> "repo", runId |-> "run1"]
Second == [subjects |-> <<"d2", None, "d3", "d2">>, repoUrl |-> "fork", runId |-> "run1"]
Anonymous == [subjects |-> <<"d2">>, repoUrl |-> None, runId |-> None]
SomeStatements == {First, Second, Anonymous, Malformed}

=============================================================================
