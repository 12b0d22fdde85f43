---------------------------- MODULE OverlayProofs ----------------------------
(* What the overlay script says of itself when it ends is so, for any timers *)
(* and configuration files, any number of switches, power cuts and failed    *)
(* steps, and any time at which the kernel writes the card.                  *)
EXTENDS Overlay, TLAPS

\* A command that is under way has said nothing yet, and one that said that it
\* is done has synced: the card and what is seen of it are the same.
Synced == /\ pc # "idle" => told = "none"
          /\ told \in {"ro", "rw"} => disk.root = root /\ disk.boot = boot

\* What the steps of ro that are over have left behind.
RoProgress ==
    /\ pc \in RoSteps \ {"dropins"} => root.dropins = Dropins
    /\ pc \in RoSteps \ {"dropins", "truncate"} => root.saved # Absent
    /\ pc = "disable" => root.timers \subseteq todo \cup spared
    /\ pc \in {"fstab", "add", "roSync", "roEnd"} => root.timers \subseteq spared
    /\ pc \in {"add", "roSync", "roEnd"} => root.fstabRo
    /\ pc \in {"roSync", "roEnd"} => boot

\* And those of rw.
RwProgress ==
    /\ pc \in {"enable", "unsave", "unfstab", "del", "rwSync", "rwEnd"} =>
          root.dropins = {}
    /\ pc \in {"enable", "unsave"} => root.saved # Absent
    /\ pc \in {"unfstab", "del", "rwSync", "rwEnd"} => root.saved = Absent
    /\ pc \in {"del", "rwSync", "rwEnd"} => ~root.fstabRo
    /\ pc \in {"rwSync", "rwEnd"} => ~boot

Written == IF root.saved = Absent THEN {} ELSE root.saved

\* Without a power cut no timer is forgotten: one that is not enabled is in the
\* STATE file or about to be, and that file goes, and is truncated, only when
\* all that it names are enabled.
Remembered == cuts = 0 /\ ~broken =>
    /\ root.timers \cup Written \cup ({hand} \ {None}) = installed
    /\ pc \in {"idle", "remove", "enable", "unsave"} /\ root.saved # Absent => boot
    /\ pc \in {"dropins", "truncate"} => root.saved = Absent
    /\ pc = "enable" => todo \subseteq root.saved /\ root.saved \ todo \subseteq root.timers
    /\ pc = "unsave" => root.saved \subseteq root.timers

IInv == /\ TypeOK /\ Synced /\ RoProgress /\ RwProgress /\ Remembered
        /\ RoReported /\ RwReported /\ RwResumes

LEMMA InitInv == Init => IInv
<1> SUFFICES ASSUME Init PROVE IInv
    OBVIOUS
<1>1. root \in Roots /\ root.saved = Absent /\ root.timers \subseteq Timers
      BY DEF Init, Roots
<1>2. TypeOK
  <2>1. disk \in [root : Roots, boot : BOOLEAN] /\ cuts \in 0 .. MaxCuts /\ fails \in 0 .. MaxFails
        BY <1>1, OverlayAssumption DEF Init
  <2> QED
      BY <1>1, <2>1 DEF Init, TypeOK, RoSteps
<1>3. Synced /\ RoProgress /\ RwProgress /\ RoReported /\ RwReported /\ RwResumes
      BY DEF Init, Synced, RoProgress, RwProgress, RoReported, RwReported, RwResumes,
         RwUndoes, RoSteps
<1>4. Remembered
      BY <1>1 DEF Init, Remembered, Written
<1> QED
    BY <1>2, <1>3, <1>4 DEF IInv

-----------------------------------------------------------------------------
(* The script.                                                               *)

\* A command that ends at once, or begins, touches nothing.
LEMMA StartKeeps ==
    ASSUME IInv, RoStart \/ RwStart
    PROVE  IInv'
<1> USE DEF IInv, TypeOK, Synced, RoProgress, RwProgress, Remembered, Written, RoReported,
        RwReported, RwResumes, RwUndoes, RoSteps, history
<1>1. CASE RoStart
      BY <1>1 DEF RoStart, Ends, Begins
<1>2. CASE RwStart
      BY <1>2 DEF RwStart, Ends, Begins
<1> QED
    BY <1>1, <1>2

\* do_ro, up to its syncs.
LEMMA RoKeeps ==
    ASSUME IInv,
           \/ WriteDropins \/ Truncate \/ RecordTimer \/ TimersDone \/ FstabRo \/ CmdlineAdd
           \/ \E t \in Timers : DisableTimer(t) \/ IsEnabledFails(t)
    PROVE  IInv'
<1> USE OverlayAssumption DEF IInv, TypeOK, Synced, RoProgress, RwProgress, Remembered,
        Written, RoReported, RwReported, RwResumes, RwUndoes, RoSteps, Roots, Step,
        InRoot, InBoot, history
<1>1. CASE WriteDropins
      BY <1>1 DEF WriteDropins
<1>2. CASE Truncate
      BY <1>2 DEF Truncate
<1>3. ASSUME NEW t \in Timers, DisableTimer(t) PROVE IInv'
      BY <1>3 DEF DisableTimer
<1>4. CASE RecordTimer
  <2>1. /\ root.saved \in SUBSET Timers /\ hand \in Timers /\ hand # None
        /\ root' = [root EXCEPT !.saved = @ \cup {hand}] /\ hand' = None
        /\ pc = "disable" /\ UNCHANGED <<pc, todo>>
        BY <1>4 DEF RecordTimer
  <2>2. /\ root'.saved = root.saved \cup {hand} /\ root'.saved \in SUBSET Timers
        /\ root'.saved # Absent /\ root' \in Roots
        /\ root'.timers = root.timers /\ root'.dropins = root.dropins
        BY <2>1
  <2>3. TypeOK' /\ Synced' /\ RoProgress' /\ RwProgress'
        BY <1>4, <2>1, <2>2 DEF RecordTimer
  <2>4. Remembered' /\ RoReported' /\ RwReported' /\ RwResumes'
        BY <1>4, <2>1, <2>2 DEF RecordTimer
  <2> QED
      BY <2>3, <2>4
<1>5. CASE TimersDone
      BY <1>5 DEF TimersDone
<1>6. CASE FstabRo
      BY <1>6 DEF FstabRo
<1>7. CASE CmdlineAdd
      BY <1>7 DEF CmdlineAdd
<1>8. ASSUME NEW t \in Timers, IsEnabledFails(t) PROVE IInv'
      BY <1>8 DEF IsEnabledFails, Fail
<1> QED
    BY <1>1, <1>2, <1>3, <1>4, <1>5, <1>6, <1>7, <1>8

\* do_rw, up to its syncs.
LEMMA RwKeeps ==
    ASSUME IInv,
           \/ RemoveDropins \/ EnableDone \/ RemoveState \/ FstabRw \/ CmdlineDel
           \/ CatFails \/ \E t \in Timers : EnableTimer(t) \/ EnableFails(t)
    PROVE  IInv'
<1> USE OverlayAssumption DEF IInv, TypeOK, Synced, RoProgress, RwProgress, Remembered,
        Written, RoReported, RwReported, RwResumes, RwUndoes, RoSteps, Roots, Step,
        InRoot, InBoot, history
<1>1. CASE RemoveDropins
  <2>1. /\ root' \in Roots /\ root'.dropins = {} /\ root'.saved = root.saved
        /\ root'.timers = root.timers
        BY <1>1 DEF RemoveDropins
  <2>2. CASE root.saved = Absent
        BY <1>1, <2>1, <2>2 DEF RemoveDropins
  <2>3. CASE root.saved # Absent
        BY <1>1, <2>1, <2>3 DEF RemoveDropins
  <2> QED
      BY <2>2, <2>3
<1>2. ASSUME NEW t \in Timers, EnableTimer(t) PROVE IInv'
      BY <1>2 DEF EnableTimer
<1>3. CASE EnableDone
      BY <1>3 DEF EnableDone
<1>4. CASE RemoveState
  <2>1. /\ root' \in Roots /\ root'.dropins = {} /\ root'.saved = Absent
        /\ root'.timers = root.timers /\ root.saved # Absent
        BY <1>4 DEF RemoveState
  <2> QED
      BY <1>4, <2>1 DEF RemoveState
<1>5. CASE FstabRw
      BY <1>5 DEF FstabRw
<1>6. CASE CmdlineDel
      BY <1>6 DEF CmdlineDel
<1>7. CASE CatFails \/ \E t \in Timers : EnableFails(t)
  <2>1. PICK passed : PassOver(passed)
        BY <1>7 DEF CatFails, EnableFails
  <2>2. todo' \subseteq todo /\ broken' = TRUE /\ fails' \in 0 .. MaxFails
        BY <2>1 DEF PassOver, Fail
  <2> QED
      BY <2>1, <2>2 DEF PassOver
<1> QED
    BY <1>1, <1>2, <1>3, <1>4, <1>5, <1>6, <1>7

\* The syncs, after which the script says that it is done.
LEMMA SyncKeeps ==
    ASSUME IInv, SyncEdit \/ Finish
    PROVE  IInv'
<1> USE DEF IInv, TypeOK, Synced, RoProgress, RwProgress, Remembered, Written, RoReported,
        RwReported, RwResumes, RwUndoes, RoSteps, Roots, Step, Sync, history
<1>1. CASE SyncEdit
      BY <1>1 DEF SyncEdit
<1>2. CASE Finish
      BY <1>2 DEF Finish
<1> QED
    BY <1>1, <1>2

-----------------------------------------------------------------------------
(* What happens to it.                                                       *)

LEMMA FaultKeeps ==
    ASSUME IInv, WriteBack \/ Reboot \/ PowerCut \/ Abort
    PROVE  IInv'
<1> USE OverlayAssumption DEF IInv, TypeOK, Synced, RoProgress, RwProgress, Remembered,
        Written, RoReported, RwReported, RwResumes, RwUndoes, RoSteps, Roots, history
<1>1. CASE WriteBack
      BY <1>1 DEF WriteBack
<1>2. CASE Reboot
      BY <1>2 DEF Reboot, Sync, Boots
<1>3. CASE PowerCut
      BY <1>3 DEF PowerCut, Boots
<1>4. CASE Abort
  <2>1. TypeOK' /\ Synced' /\ RoProgress' /\ RwProgress'
        BY <1>4 DEF Abort, Fail
  <2>2. Remembered'
    <3> SUFFICES ASSUME cuts = 0, ~broken, pc \notin RoSteps
                 PROVE  Remembered'
        BY <1>4 DEF Abort
    <3>1. hand = None /\ (root.saved # Absent => boot)
          BY <1>4 DEF Abort
    <3> QED
        BY <1>4, <3>1 DEF Abort
  <2>3. RoReported' /\ RwReported' /\ RwResumes'
        BY <1>4 DEF Abort
  <2> QED
      BY <2>1, <2>2, <2>3
<1> QED
    BY <1>1, <1>2, <1>3, <1>4

LEMMA StepKeeps == IInv /\ [Next]_vars => IInv'
<1> SUFFICES ASSUME IInv, [Next]_vars PROVE IInv'
    OBVIOUS
<1>1. CASE Next
      BY <1>1, StartKeeps, RoKeeps, RwKeeps, SyncKeeps, FaultKeeps DEF Next, ScriptStep
<1>2. CASE UNCHANGED vars
      BY <1>2 DEF vars, history, IInv, TypeOK, Synced, RoProgress, RwProgress, Remembered, Written,
         RoReported, RwReported, RwResumes, RwUndoes
<1> QED
    BY <1>1, <1>2

LEMMA Invariance == Spec => []IInv
BY InitInv, StepKeeps, PTL DEF Spec

-----------------------------------------------------------------------------
\* Lines 11-17 and 114: what "read-only mode configured" says is on the card, but
\* for the timers whose is-enabled failed: whatever else fails, and whenever the
\* power is cut.
THEOREM ReportedRo == Spec => []RoReported
BY Invariance, PTL DEF IInv

\* Line 18: and nothing of it is any more after "read-write mode configured".
THEOREM ReportedRw == Spec => []RwReported
BY Invariance, PTL DEF IInv

\* Line 18: without a power cut the timers that were enabled are so again, when
\* rw ended with an error and was run once more as well.
THEOREM ResumedRw == Spec => []RwResumes
BY Invariance, PTL DEF IInv

\* The script's steps and faults keep every variable in its set.
THEOREM OverlayTypes == Spec => []TypeOK
BY Invariance, PTL DEF IInv
=============================================================================
