---------------------------- MODULE FixedWindow ----------------------------
(***************************************************************************)
(* What a fixed-window limiter promises (docs/SPECIFICATION.md section     *)
(* 10.3): within one window a caller is let through at most so many times. *)
(* Callers of several classes may share a window: each class is let        *)
(* through as often as it is allowed, and all of them together as often as *)
(* the class that is allowed most.                                         *)
(* It may refuse whenever it likes.                                        *)
(***************************************************************************)
EXTENDS Naturals

CONSTANTS
    Windows,         \* one key in one window
    Classes,         \* classes of callers
    Allowance(_, _)  \* how often a window lets callers of a class through

VARIABLES
    admitted,  \* hits let through, by window and class
    used       \* hits let through, by window

Init ==
    /\ admitted = [w \in Windows |-> [c \in Classes |-> 0]]
    /\ used = [w \in Windows |-> 0]

Admit(w, c) ==
    /\ admitted[w][c] < Allowance(w, c)
    /\ \E d \in Classes : used[w] < Allowance(w, d)
    /\ admitted' = [admitted EXCEPT ![w][c] = @ + 1]
    /\ used' = [used EXCEPT ![w] = @ + 1]

Next == \E w \in Windows, c \in Classes : Admit(w, c)

Spec == Init /\ [][Next]_<<admitted, used>>

=============================================================================
