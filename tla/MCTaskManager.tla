--------------------------- MODULE MCTaskManager ---------------------------
(* Three spawned tasks, one of each kind the program has: a worker that     *)
(* keeps its context, a publisher that drops it, a session that moves it.   *)
EXTENDS TaskManager
CONSTANTS worker, publisher, session
MCTasks == {worker, publisher, session}
MCDetached == {publisher}
MCEarlyDrop == {session}
=============================================================================
