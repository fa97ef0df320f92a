------------------------------- MODULE Absent -------------------------------
(***************************************************************************)
(* The one value that stands for what is not there: an absent JSON field,  *)
(* no file, no branch, no answer.  It has a module of its own so that the  *)
(* model of git and the model of the verifier can be extended together.    *)
(***************************************************************************)
CONSTANT None

=============================================================================
