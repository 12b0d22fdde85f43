------------------------------ MODULE MCOverlay ------------------------------
(* Two timers and two files; the cfgs give them and the number of faults.    *)
EXTENDS Overlay

CONSTANTS apt, mandb, journald, swap
=============================================================================
