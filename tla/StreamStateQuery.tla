-------------------------- MODULE StreamStateQuery --------------------------
(* What Session::play may rely on, with no channel and no mutex: the worker  *)
(* reads what it is asked and told in order, gives the stream state to the   *)
(* PLAY that asked for it and to no other, and plays only when a PLAY that   *)
(* has its answer says so. It may end at any time, and whoever waits then    *)
(* waits for ever.                                                           *)
VARIABLES query,   \* of the PLAY that is served: not asked, asked, owed, answered
          told,    \* a Play message is on its way
          life     \* the worker: ready, playing, over

vars == <<query, told, life>>

Init == query = "none" /\ told = FALSE /\ life = "ready"

Alive == life # "over"

Ask == /\ Alive
       /\ query = "none" /\ query' = "asked"
       /\ UNCHANGED <<told, life>>

\* A Play message that was sent before is read before.
Read == /\ Alive /\ ~told
        /\ query = "asked" /\ query' = "owed"
        /\ UNCHANGED <<told, life>>

\* The frame that brings the answer may be the worker's last.
Answer == /\ Alive
          /\ query = "owed" /\ query' = "answered"
          /\ life' \in {life, "over"}
          /\ UNCHANGED told

Proceed == /\ query = "answered" /\ query' = "none"
           /\ told' = Alive
           /\ UNCHANGED life

Play == /\ Alive /\ told
        /\ told' = FALSE /\ life' = "playing"
        /\ UNCHANGED query

End == /\ Alive
       /\ life' = "over"
       /\ UNCHANGED <<query, told>>

Next == Ask \/ Read \/ Answer \/ Proceed \/ Play \/ End

Spec == Init /\ [][Next]_vars
=============================================================================
