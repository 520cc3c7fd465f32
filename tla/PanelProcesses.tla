--------------------------- MODULE PanelProcesses ---------------------------
(***************************************************************************)
(* The PHP processes that serve requests side by side, shared by the       *)
(* modules of the customers' services.  A process keeps what its request   *)
(* has read while others write.                                            *)
(***************************************************************************)
CONSTANTS
    Procs,  \* PHP processes
    None    \* no process, no row, no name
=============================================================================
