------------------------------- MODULE MCCamera -------------------------------
(* A tick is five seconds: the timeouts of the source are 15, 5, 20 and 8.   *)
EXTENDS Camera
===============================================================================
