--------------------------- MODULE MCRateLimiter ---------------------------
(* Small instances of RateLimiter for TLC. *)
EXTENDS RateLimiter, TLC

CONSTANTS minute, hour, ordinary, trusted

(* The trusted class is allowed more than the other. *)
TwoClasses == [b \in Buckets |-> [c \in Classes |-> IF c = trusted THEN 2 ELSE 1]]

OneHit == [b \in Buckets |-> [c \in Classes |-> 1]]

ShortWindow == [b \in Buckets |-> 2]

(* A window of one second beside one of four: two short windows behind the *)
(* current one are still the same long window.                             *)
TwoLengths == [b \in Buckets |-> IF b = minute THEN 1 ELSE 4]

Symmetry == Permutations(Workers)
=============================================================================
