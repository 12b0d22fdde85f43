------------------------- MODULE TaskManagerProofs -------------------------
(* TaskManager is correct for every set of tasks: its types, NoMissedStop,  *)
(* StopWaitsForLoop, and that it implements StopBarrier.                    *)
EXTENDS TaskManager, TLAPS

\* The mutex is held only while hold_tx is there: a spawn in progress has its
\* clone, and stop cannot take the original before that spawn is over.
SpawnHolds == \A t \in Tasks : task[t] = "spawning" => apex /\ ctx[t]

\* hold_tx is taken by the first step of stop and never put back.
ApexUntilStop == apex <=> rt = "running"

\* A worker that keeps its context has it for as long as its loop runs.
LoopHolds == \A t \in Tasks \ Detached :
                task[t] \in {"spawning", "running"} => ctx[t]

HandleFollowsSpawn == \A t \in Tasks :
                         task[t] \in {"new", "spawning"} => handle[t] = "absent"

ReturnedEmpty == rt = "returned" => \A t \in Tasks : ~ctx[t]

StoppedLeft == \A t \in Tasks \ Detached :
                  handle[t] = "stopped" => task[t] \notin {"spawning", "running"}

IInv == /\ TypeOK
        /\ SpawnHolds
        /\ ApexUntilStop
        /\ LoopHolds
        /\ HandleFollowsSpawn
        /\ ReturnedEmpty
        /\ StoppedLeft
        /\ NoMissedStop

-----------------------------------------------------------------------------
(* Every variable keeps to the values the code's fields can have: the one   *)
(* type invariant of TaskManager.tla.                                       *)
THEOREM TypeCorrect == Spec => []TypeOK
<1>1. Init => TypeOK
  BY DEF Init, TypeOK, HoldersLive
<1>2. TypeOK /\ [Next]_vars => TypeOK'
  <2> SUFFICES ASSUME TypeOK, [Next]_vars PROVE TypeOK'
    OBVIOUS
  <2> USE DEF HoldersLive
  <2>1. CASE RtStopTake
    BY <2>1 DEF TypeOK, RtStopTake
  <2>2. CASE RtStopSend
    BY <2>2 DEF TypeOK, RtStopSend
  <2>3. CASE RtStopReturn
    BY <2>3 DEF TypeOK, RtStopReturn
  <2>4. ASSUME NEW t \in Tasks, TaskStep(t) PROVE TypeOK'
    BY <2>4 DEF TypeOK, TaskStep, SpawnLock, SpawnRefuse, SpawnRun, DropContext,
       ObserveStop, EndAlone, LeaveLoop, Finish, TaskStop, TaskStopReturn,
       DropHandle, SetHandle
  <2>5. CASE UNCHANGED vars
    BY <2>5 DEF TypeOK, vars
  <2> QED
    BY <2>1, <2>2, <2>3, <2>4, <2>5 DEF Next
<1> QED
  BY <1>1, <1>2, PTL DEF Spec

\* The inductive invariant: types, who holds the channel and the mutex, and
\* how far stop is.
THEOREM Inductive == Spec => []IInv
<1>1. Init => IInv
  BY DEF Init, IInv, TypeOK, SpawnHolds, ApexUntilStop, HoldersLive, LoopHolds,
     HandleFollowsSpawn, ReturnedEmpty, StoppedLeft, NoMissedStop
<1>2. TypeOK' /\ IInv /\ [Next]_vars => IInv'
  <2> SUFFICES ASSUME TypeOK', IInv, [Next]_vars PROVE IInv'
    OBVIOUS
  <2> USE DEF IInv
  <2>1. CASE RtStopTake
    BY <2>1 DEF RtStopTake, LockFree, TypeOK, SpawnHolds, ApexUntilStop, HoldersLive,
       LoopHolds, HandleFollowsSpawn, ReturnedEmpty, StoppedLeft, NoMissedStop
  <2>2. CASE RtStopSend
    <3>1. NoMissedStop'
      \* a holder is past its spawn, for a spawn in progress has hold_tx there
      <4>1. \A t \in Tasks : ctx[t] => task[t] \in {"running", "leaving"}
        BY <2>2 DEF RtStopSend, SpawnHolds, ApexUntilStop, TypeOK, HoldersLive
      <4> QED
        BY <2>2, <4>1 DEF RtStopSend, NoMissedStop
    <3> QED
      BY <2>2, <3>1 DEF RtStopSend, TypeOK, SpawnHolds, ApexUntilStop, HoldersLive,
         LoopHolds, HandleFollowsSpawn, ReturnedEmpty, StoppedLeft
  <2>3. CASE RtStopReturn
    BY <2>3 DEF RtStopReturn, SpawnHolds, ApexUntilStop, HoldersLive, LoopHolds,
       HandleFollowsSpawn, ReturnedEmpty, StoppedLeft, NoMissedStop
  <2>4. ASSUME NEW t \in Tasks, TaskStep(t) PROVE IInv'
    <3> USE DEF TypeOK, SpawnHolds, ApexUntilStop, HoldersLive, LoopHolds,
            HandleFollowsSpawn, ReturnedEmpty, StoppedLeft, NoMissedStop
    <3>1. CASE SpawnLock(t)
      BY <3>1 DEF SpawnLock
    <3>2. CASE SpawnRefuse(t)
      BY <3>2 DEF SpawnRefuse
    <3>3. CASE SpawnRun(t)
      BY <3>3 DEF SpawnRun
    <3>4. CASE DropContext(t)
      BY <3>4 DEF DropContext
    <3>5. CASE ObserveStop(t)
      BY <3>5 DEF ObserveStop, LeaveLoop
    <3>6. CASE EndAlone(t)
      BY <3>6 DEF EndAlone, LeaveLoop
    <3>7. CASE Finish(t)
      BY <3>7 DEF Finish
    <3>8. CASE TaskStop(t)
      BY <3>8 DEF TaskStop, SetHandle
    <3>9. CASE TaskStopReturn(t)
      BY <3>9 DEF TaskStopReturn, SetHandle
    <3>10. CASE DropHandle(t)
      BY <3>10 DEF DropHandle, SetHandle
    <3> QED
      BY <2>4, <3>1, <3>2, <3>3, <3>4, <3>5, <3>6, <3>7, <3>8, <3>9, <3>10
      DEF TaskStep
  <2>5. CASE UNCHANGED vars
    BY <2>5 DEF vars, TypeOK, SpawnHolds, ApexUntilStop, HoldersLive, LoopHolds,
       HandleFollowsSpawn, ReturnedEmpty, StoppedLeft, NoMissedStop
  <2> QED
    BY <2>1, <2>2, <2>3, <2>4, <2>5 DEF Next
<1> QED
  BY <1>1, <1>2, TypeCorrect, PTL DEF Spec

-----------------------------------------------------------------------------
\* No task that stop waits for is left without the stop signal: the mutex kept
\* through spawn and the order take, then send are enough for any number of
\* tasks.
THEOREM NoMissedStopHolds == Spec => []NoMissedStop
BY Inductive, PTL DEF IInv

\* Past Task::stop or TaskManager::stop no worker that keeps its context is in
\* its loop.
THEOREM StopWaitsHolds == Spec => []StopWaitsForLoop
<1>1. IInv => StopWaitsForLoop
  BY DEF IInv, LoopHolds, ReturnedEmpty, StoppedLeft, StopWaitsForLoop
<1> QED
  BY <1>1, Inductive, PTL

\* TaskManager implements StopBarrier: each step enters, leaves, closes or
\* passes the barrier, or leaves it alone.
THEOREM Refinement == Spec => ImplementsBarrier
<1>1. Init => Barrier!Init
  BY DEF Init, Barrier!Init, Holding
<1>2. IInv /\ [Next]_vars => [Barrier!Next]_(Barrier!vars)
  <2> SUFFICES ASSUME IInv, [Next]_vars PROVE [Barrier!Next]_(Barrier!vars)
    OBVIOUS
  <2> USE DEF Barrier!Next, Barrier!vars, Barrier!Enter, Barrier!Exit,
              Barrier!Close, Barrier!Return
  <2>1. CASE RtStopTake
    BY <2>1 DEF RtStopTake, IInv, ApexUntilStop, Holding
  <2>2. CASE RtStopSend
    BY <2>2 DEF RtStopSend, Holding
  <2>3. CASE RtStopReturn
    BY <2>3 DEF RtStopReturn, IInv, ApexUntilStop, Holding
  <2>4. ASSUME NEW t \in Tasks, TaskStep(t)
        PROVE [Barrier!Next]_(Barrier!vars)
    <3>1. CASE SpawnLock(t)
      <4>1. ~ctx[t] /\ Holding' = Holding \cup {t}
        BY <3>1 DEF SpawnLock, IInv, HoldersLive, TypeOK, Holding
      <4> QED
        BY <3>1, <4>1 DEF SpawnLock, Holding
    <3>2. CASE Holding' = Holding \ {t} /\ UNCHANGED <<apex, rt>>
      BY <3>2
    <3>3. CASE Holding' = Holding /\ UNCHANGED <<apex, rt>>
      BY <3>3
    <3>4. CASE UNCHANGED <<apex, ctx, rt>>
      BY <3>3, <3>4 DEF Holding
    <3>5. CASE ctx' = [ctx EXCEPT ![t] = FALSE] /\ UNCHANGED <<apex, rt>>
      <4>1. Holding' = Holding \ {t}
        BY <3>5 DEF IInv, TypeOK, Holding
      <4> QED
        BY <3>2, <3>5, <4>1
    <3>6. CASE LeaveLoop(t)
      <4>1. \A u \in Tasks : u # t => ctx'[u] = ctx[u]
        BY <3>6 DEF LeaveLoop, IInv, TypeOK
      <4>2. ctx'[t] => ctx[t]
        BY <3>6 DEF LeaveLoop, IInv, TypeOK
      <4>3. Holding' = Holding \/ Holding' = Holding \ {t}
        BY <4>1, <4>2 DEF Holding
      <4> QED
        BY <3>2, <3>3, <3>6, <4>3 DEF LeaveLoop
    <3> QED
      BY <2>4, <3>1, <3>4, <3>5, <3>6
      DEF TaskStep, SpawnRefuse, SpawnRun, DropContext, ObserveStop, EndAlone,
          Finish, TaskStop, TaskStopReturn, DropHandle, SetHandle
  <2>5. CASE UNCHANGED vars
    BY <2>5 DEF vars, Holding
  <2> QED
    BY <2>1, <2>2, <2>3, <2>4, <2>5 DEF Next
<1> QED
  BY <1>1, <1>2, Inductive, PTL DEF Spec, ImplementsBarrier, Barrier!Spec
=============================================================================
