---------------------------- MODULE MCApiTokens ----------------------------
(* Small instances of ApiTokens for TLC. *)
EXTENDS ApiTokens, TLC

(* What an account's tokens meet while it stays, with a daemon that has    *)
(* passwords to change.                                                    *)
TokenOperations == AllOperations \ {"delete"}
PasswordOutcomes == {o \in AllOutcomes : o[1] = "tochangepwd"}

(* What can go wrong between two accounts: one process asks for both. *)
AccountOperations == {"session", "page", "withdraw", "delete"}

(* Processes and token ids are interchangeable. *)
Symmetry == Permutations(Procs) \cup Permutations(Tokens)
=============================================================================
