---------------------------- MODULE StopBarrier ----------------------------
(* What TaskManager promises its callers, with no channel and no mutex:    *)
(* a task is let in only while the barrier is open, closing it lets nobody *)
(* in any more, and the one caller of stop gets past it when the last of   *)
(* those inside has left.                                                  *)
CONSTANT Tasks

VARIABLES open,      \* a task may still be let in
          inside,    \* the tasks stop has to wait for
          returned   \* stop has returned

vars == <<open, inside, returned>>

Init == open = TRUE /\ inside = {} /\ returned = FALSE

Enter(t) == /\ open
            /\ t \notin inside
            /\ inside' = inside \cup {t}
            /\ UNCHANGED <<open, returned>>

Exit(t) == /\ t \in inside
           /\ inside' = inside \ {t}
           /\ UNCHANGED <<open, returned>>

Close == /\ open
         /\ open' = FALSE
         /\ UNCHANGED <<inside, returned>>

Return == /\ ~open /\ ~returned
          /\ inside = {}
          /\ returned' = TRUE
          /\ UNCHANGED <<open, inside>>

Next == Close \/ Return \/ \E t \in Tasks : Enter(t) \/ Exit(t)

Spec == Init /\ [][Next]_vars
=============================================================================
