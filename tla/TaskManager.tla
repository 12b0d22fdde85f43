---------------------------- MODULE TaskManager ----------------------------
(* src/runtime/task_manager.rs: tasks are spawned with a TaskContext that   *)
(* holds one sender of the manager's hold channel (_token_all), one of the  *)
(* task's own hold channel (_token) and a receiver of each stop channel.    *)
(* A hold channel breaks when the last sender is dropped: that is how       *)
(* TaskManager::stop and Task::stop wait.                                   *)
EXTENDS Naturals

CONSTANTS Tasks,      \* the tasks the program ever asks the manager to spawn
          Detached,   \* those whose closure drops its context unused (app::create_*publisher)
          EarlyDrop   \* those that drop the context before their future ends (Session::run)

ASSUME KindsAssumption == /\ Detached \subseteq Tasks
                          /\ EarlyDrop \subseteq Tasks \ Detached

VARIABLES apex,      \* hold_tx is Some
          task,      \* where each task's spawn or future is
          ctx,       \* ctx[t]: a clone of hold_tx made for t is alive
          stopAll,   \* stopAll[t]: the broadcast stop is in t's receiver
          handle,    \* the Task value that spawn(t) returned to its caller
          rt         \* TaskManager::stop: not called, or how far it is

vars == <<apex, task, ctx, stopAll, handle, rt>>

\* A clone of hold_tx is in a spawn or in the context of a future.
HoldersLive == \A t \in Tasks :
                  ctx[t] => task[t] \in {"spawning", "running", "leaving"}

TypeOK == /\ apex \in BOOLEAN
          /\ task \in [Tasks -> {"new", "spawning", "running", "leaving",
                                 "finished", "refused"}]
          /\ ctx \in [Tasks -> BOOLEAN]
          /\ stopAll \in [Tasks -> BOOLEAN]
          /\ handle \in [Tasks -> {"absent", "held", "stopping", "stopped",
                                   "dropped"}]
          /\ rt \in {"running", "taken", "signalled", "returned"}
          /\ HoldersLive

Init == /\ apex = TRUE
        /\ task = [t \in Tasks |-> "new"]
        /\ ctx = [t \in Tasks |-> FALSE]
        /\ stopAll = [t \in Tasks |-> FALSE]
        /\ handle = [t \in Tasks |-> "absent"]
        /\ rt = "running"

-----------------------------------------------------------------------------
(* The temporary of `if let Some(..) = self.hold_tx.lock().await..` lives to *)
(* the end of the block, so spawn keeps the mutex until it has the Task.     *)
LockFree == \A t \in Tasks : task[t] # "spawning"

SpawnLock(t) ==
    /\ task[t] = "new" /\ LockFree /\ apex
    /\ task' = [task EXCEPT ![t] = "spawning"]
    /\ ctx' = [ctx EXCEPT ![t] = TRUE]
    /\ UNCHANGED <<apex, stopAll, handle, rt>>

\* hold_tx is already gone: Task::none(), whose stop returns at once.
SpawnRefuse(t) ==
    /\ task[t] = "new" /\ LockFree /\ ~apex
    /\ task' = [task EXCEPT ![t] = "refused"]
    /\ handle' = [handle EXCEPT ![t] = "stopped"]
    /\ UNCHANGED <<apex, ctx, stopAll, rt>>

\* stop_tx.subscribe(), task::spawn, Task::new; then the mutex is released.
SpawnRun(t) ==
    /\ task[t] = "spawning"
    /\ task' = [task EXCEPT ![t] = "running"]
    /\ handle' = [handle EXCEPT ![t] = "held"]
    /\ UNCHANGED <<apex, ctx, stopAll, rt>>

\* `|_task_context| run(..)`: the context dies when the closure returns.
DropContext(t) ==
    /\ task[t] = "running" /\ t \in Detached /\ ctx[t]
    /\ ctx' = [ctx EXCEPT ![t] = FALSE]
    /\ UNCHANGED <<apex, task, stopAll, handle, rt>>

\* Mutant: wait_for_stop does not select on the broadcast channel.
StopSeenAlone(t) == ctx[t] /\ handle[t] \in {"stopping", "dropped"}

\* wait_for_stop is ready: a message of Task::stop, the Task dropped (recv
\* gives None), or the broadcast.
StopSeen(t) == ctx[t] /\ (handle[t] \in {"stopping", "dropped"} \/ stopAll[t])

LeaveLoop(t) ==
    /\ task' = [task EXCEPT ![t] = "leaving"]
    /\ ctx' = [ctx EXCEPT ![t] = ctx[t] /\ t \notin EarlyDrop]
    /\ UNCHANGED <<apex, stopAll, handle, rt>>

ObserveStop(t) == task[t] = "running" /\ t \notin Detached /\ StopSeen(t)
                  /\ LeaveLoop(t)

\* The worker's loop ends for a reason of its own (peer gone, channel closed).
EndAlone(t) == task[t] = "running" /\ (t \in Detached => ~ctx[t]) /\ LeaveLoop(t)

\* Mutant: the future keeps its clone of the hold when it is done.
FinishHolding(t) ==
    /\ task[t] = "leaving"
    /\ task' = [task EXCEPT ![t] = "finished"]
    /\ UNCHANGED <<apex, ctx, stopAll, handle, rt>>

\* The future is done; what is left of the context is dropped with it.
Finish(t) ==
    /\ task[t] = "leaving"
    /\ task' = [task EXCEPT ![t] = "finished"]
    /\ ctx' = [ctx EXCEPT ![t] = FALSE]
    /\ UNCHANGED <<apex, stopAll, handle, rt>>

-----------------------------------------------------------------------------
SetHandle(t, h) == handle' = [handle EXCEPT ![t] = h]
                   /\ UNCHANGED <<apex, task, ctx, stopAll, rt>>

\* Task::stop: send the message, then await the task's own hold channel.
TaskStop(t) == handle[t] = "held" /\ SetHandle(t, "stopping")

\* Mutant: Task::stop does not await the hold.
TaskStopReturnAtOnce(t) == handle[t] = "stopping" /\ SetHandle(t, "stopped")

TaskStopReturn(t) == handle[t] = "stopping" /\ ~ctx[t] /\ SetHandle(t, "stopped")

DropHandle(t) == handle[t] = "held" /\ SetHandle(t, "dropped")

\* Mutant: spawn released the mutex right after cloning the sender.
RtStopTakeUnlocked ==
    /\ rt = "running"
    /\ apex' = FALSE
    /\ rt' = "taken"
    /\ UNCHANGED <<task, ctx, stopAll, handle>>

-----------------------------------------------------------------------------
\* drop(self.hold_tx.lock().await.take())
RtStopTake ==
    /\ rt = "running" /\ LockFree
    /\ apex' = FALSE
    /\ rt' = "taken"
    /\ UNCHANGED <<task, ctx, stopAll, handle>>

\* self.stop_tx.send(()): every receiver subscribed by now gets it.
RtStopSend ==
    /\ rt = "taken"
    /\ stopAll' = [t \in Tasks |-> task[t] \in {"running", "leaving"} /\ ctx[t]]
    /\ rt' = "signalled"
    /\ UNCHANGED <<apex, task, ctx, handle>>

\* Mutant: stop does not wait for the hold channel to break.
RtStopReturnAtOnce ==
    /\ rt = "signalled"
    /\ rt' = "returned"
    /\ UNCHANGED <<apex, task, ctx, stopAll, handle>>

\* self.hold_rx.lock().await.recv(): the channel is broken.
RtStopReturn ==
    /\ rt = "signalled"
    /\ \A t \in Tasks : ~ctx[t]
    /\ rt' = "returned"
    /\ UNCHANGED <<apex, task, ctx, stopAll, handle>>

TaskStep(t) == \/ SpawnLock(t) \/ SpawnRefuse(t) \/ SpawnRun(t)
               \/ DropContext(t) \/ ObserveStop(t) \/ EndAlone(t) \/ Finish(t)
               \/ TaskStop(t) \/ TaskStopReturn(t) \/ DropHandle(t)

Next == \/ RtStopTake \/ RtStopSend \/ RtStopReturn
        \/ \E t \in Tasks : TaskStep(t)

(* A call once begun goes on, a spawned future is polled, and a worker whose *)
(* wait_for_stop is ready gets to its select ("tasks must respond!").        *)
(* Nothing makes anybody call spawn, stop or drop.                           *)
Fairness == /\ WF_vars(RtStopSend) /\ WF_vars(RtStopReturn)
            /\ \A t \in Tasks : /\ WF_vars(SpawnRun(t)) /\ WF_vars(DropContext(t))
                                /\ WF_vars(ObserveStop(t)) /\ WF_vars(Finish(t))
                                /\ WF_vars(TaskStopReturn(t))

Spec == Init /\ [][Next]_vars

FairSpec == Spec /\ Fairness

-----------------------------------------------------------------------------
(* task_manager.rs:75-80: "a new task could potentially be spawned that     *)
(* never received the stop request which would cause a deadlock". Once stop *)
(* has signalled, each task it still waits for has the signal to read or    *)
(* has left its loop.                                                       *)
NoMissedStop ==
    rt \in {"signalled", "returned"} =>
        \A t \in Tasks : ctx[t] => task[t] = "leaving" \/ stopAll[t]

\* The tasks TaskManager::stop waits for: a spawn in progress counts.
Holding == {t \in Tasks : ctx[t]}

Barrier == INSTANCE StopBarrier
             WITH open <- apex, inside <- Holding, returned <- rt = "returned"

\* The channels and the mutex implement the barrier: no task comes in after
\* stop took hold_tx, and stop returns only when all that came in have left.
ImplementsBarrier == Barrier!Spec

(* A task whose owner awaits Task::stop, or that was alive when             *)
(* TaskManager::stop returned, has left its loop: it will not act on its    *)
(* channels again. Tasks that drop their context unused are exempt.         *)
StopWaitsForLoop ==
    \A t \in Tasks \ Detached :
        task[t] \in {"spawning", "running"} =>
            rt # "returned" /\ handle[t] # "stopped"

\* Runtime::stop returns once begun, whatever is spawned while it runs.
RuntimeStopReturns == rt = "taken" ~> rt = "returned"

\* Task::stop returns, whether the worker stops for it, for the broadcast or
\* ended before the message was sent.
TaskStopReturns == \A t \in Tasks : handle[t] = "stopping" ~> handle[t] = "stopped"

=============================================================================
