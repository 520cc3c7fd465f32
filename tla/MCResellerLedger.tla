-------------------------- MODULE MCResellerLedger --------------------------
(* Small instances of ResellerLedger for TLC. *)
EXTENDS ResellerLedger, TLC

WithheldOrOne == {-1, 1}

WithheldOrTwo == {-1, 2}

(* One customer, and plans: every request but the reseller's own update. *)
WithoutResellerUpdate == AllOperations \ {"resellerUpdate"}

(* Two customers: the requests that change a limit or a counter. *)
ChangesOfLimits == {"resellerUpdate", "customerCreate", "customerUpdate", "customerDelete"}

Symmetry == Permutations(Procs) \cup Permutations(Customers) \cup Permutations(Plans) \cup Permutations(Names)
=============================================================================
