--------------------------- MODULE MCFailureOrder ---------------------------
(***************************************************************************)
(* Instances of FailureOrder: every sequence of at most MaxLen codes drawn *)
(* from neighbours in the table, its last entry and two custom codes.      *)
(***************************************************************************)
EXTENDS FailureOrder, TLC

CONSTANT MaxLen
MCCustom == {"custom_a", "custom_b"}
MCAlphabetical == ("custom_a" :> 1) @@ ("custom_b" :> 2)
Drawn == {"transparency_verification_failed", "subject_digest_mismatch", "policy_eval_error"} \cup MCCustom
MCInputs == UNION {[1..n -> Drawn] : n \in 0..MaxLen}

=============================================================================
