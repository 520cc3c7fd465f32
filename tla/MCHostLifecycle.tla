-------------------------- MODULE MCHostLifecycle --------------------------
(* Small instances of HostLifecycle for TLC. *)
EXTENDS HostLifecycle, TLC

(* One mutation of each kind that leaves a verb behind. *)
VerbOperations ==
    {"domainAliasCreate", "domainAliasDelete", "subdomainCreate", "subdomainUpdate", "subdomainDelete",
     "customerSetState"}

SuspensionOperations == {"domainAliasCreate", "domainAliasDelete", "customerSetState"}

(* Workers, ids and names are interchangeable in every safety property.    *)
Symmetry ==
    Permutations(Workers) \cup Permutations(Aliases) \cup Permutations(Subs)
    \cup Permutations(Names)
=============================================================================
