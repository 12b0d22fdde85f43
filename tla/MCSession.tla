------------------------------ MODULE MCSession ------------------------------
(* Keyframes of two packets, others of one or two.                           *)
EXTENDS Session

MCFrames == {[key |-> TRUE, parts |-> 2], [key |-> FALSE, parts |-> 1],
             [key |-> FALSE, parts |-> 2]}
=============================================================================
