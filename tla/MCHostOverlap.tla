--------------------------- MODULE MCHostOverlap ---------------------------
(***************************************************************************)
(* Small instances of HostOverlap for TLC.                                 *)
(***************************************************************************)
EXTENDS HostOverlap, TLC

(* Workers, ids and names are interchangeable in every property.           *)
Symmetry ==
    {w @@ a @@ s @@ n : w \in Permutations(Workers), a \in Permutations(Aliases),
                        s \in Permutations(Subs), n \in Permutations(Names)}
=============================================================================
