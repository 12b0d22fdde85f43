------------------------------- MODULE Overlay -------------------------------
(* packaging/atomrust-overlay: the switches between a writable card and a      *)
(* read-only one, step by step, with power cuts, steps that fail, and the page *)
(* cache between the script and the card. What it asks of the running system   *)
(* and its mounts (lines 34-40, 147) it is told.                               *)
EXTENDS Naturals, FiniteSets

CONSTANTS Timers,     \* TIMERS
          Dropins,    \* the journald and swap configuration files
          Absent,     \* there is no STATE file
          None,       \* no timer
          MaxCuts,    \* bound: power cuts
          MaxFails    \* bound: steps of the script that fail

ASSUME OverlayAssumption == /\ \A s \in SUBSET Timers : Absent # s
                            /\ None \notin Timers
                            /\ MaxCuts \in Nat /\ MaxFails \in Nat

VARIABLES root,      \* the card's root file system, as seen
          boot,      \* overlayroot=tmpfs is on the command line, as seen
          disk,      \* what of both is on the card
          active,    \* the running system has the overlay
          pc,        \* the script's next step, "idle" between commands
          todo,      \* the timers its loop has left
          hand,      \* a timer that is disabled and not yet written down
          told,      \* how the last command ended
          cuts,      \* power cuts so far
          fails,     \* failed steps so far
          installed, \* the timers that were enabled to begin with
          broken,    \* history: ro ended with an error, or a timer was passed over
          spared     \* history: those the last ro took for not enabled by mistake

history == <<installed, broken, spared>>
vars == <<root, boot, disk, active, pc, todo, hand, told, cuts, fails, history>>

Roots == [timers : SUBSET Timers, dropins : SUBSET Dropins, fstabRo : BOOLEAN,
          saved : (SUBSET Timers) \cup {Absent}]

RoSteps == {"dropins", "truncate", "disable", "fstab", "add", "roSync", "roEnd"}

TypeOK ==
    /\ root \in Roots /\ boot \in BOOLEAN
    /\ disk \in [root : Roots, boot : BOOLEAN]
    /\ active \in BOOLEAN
    /\ pc \in RoSteps \cup {"idle", "remove", "enable", "unsave", "unfstab", "del",
                          "rwSync", "rwEnd"}
    /\ hand # None => pc = "disable" /\ hand \notin root.timers
    /\ todo \subseteq Timers /\ hand \in Timers \cup {None}
    /\ told \in {"none", "ro", "stillRo", "configured", "rw", "stillRw", "failed"}
    /\ cuts \in 0 .. MaxCuts /\ fails \in 0 .. MaxFails
    /\ installed \subseteq Timers /\ broken \in BOOLEAN /\ spared \subseteq Timers

Init ==
    /\ root \in [timers : SUBSET Timers, dropins : {{}}, fstabRo : {FALSE},
                 saved : {Absent}]
    /\ installed = root.timers
    /\ boot = FALSE /\ disk = [root |-> root, boot |-> FALSE]
    /\ active = FALSE
    /\ pc = "idle" /\ todo = {} /\ hand = None
    /\ told = "none" /\ cuts = 0 /\ fails = 0 /\ broken = FALSE /\ spared = {}

-----------------------------------------------------------------------------
(* One step of the script.                                                   *)

Step(from, to) == pc = from /\ pc' = to

\* A step that writes to the card's root only, or to the boot partition only.
InRoot == UNCHANGED <<boot, disk, active, told, cuts, fails, history>>
InBoot == UNCHANGED <<root, disk, active, todo, hand, told, cuts, fails, history>>

\* Mutant: only the boot partition is synced.
SyncBoot == disk' = [disk EXCEPT !.boot = boot]

Sync == disk' = [root |-> root, boot |-> boot]

Ends(how) == /\ pc = "idle" /\ told' = how
             /\ UNCHANGED <<root, boot, disk, active, pc, todo, hand, cuts, fails,
                            history>>

Begins(at) == /\ pc = "idle" /\ pc' = at /\ told' = "none" /\ spared' = {}
              /\ UNCHANGED <<root, boot, disk, active, todo, hand, cuts, fails,
                             installed, broken>>

(* do_ro *)

RoStart == \/ active /\ Ends("stillRo")
           \/ ~active /\ boot /\ Ends("configured")
           \/ ~active /\ ~boot /\ Begins("dropins")

\* printf > each file
WriteDropins == /\ Step("dropins", "truncate")
                /\ root' = [root EXCEPT !.dropins = Dropins]
                /\ UNCHANGED <<todo, hand>> /\ InRoot

\* : > STATE, and the loop over all timers begins.
Truncate == /\ Step("truncate", "disable")
            /\ root' = [root EXCEPT !.saved = {}]
            /\ todo' = Timers /\ UNCHANGED hand /\ InRoot

\* is-enabled, then disable.
DisableTimer(t) ==
    /\ pc = "disable" /\ hand = None /\ t \in todo
    /\ todo' = todo \ {t}
    /\ IF t \in root.timers
       THEN root' = [root EXCEPT !.timers = @ \ {t}] /\ hand' = t
       ELSE UNCHANGED <<root, hand>>
    /\ UNCHANGED pc /\ InRoot

\* Mutant: > for >>.
RecordTimerAlone == /\ pc = "disable" /\ hand # None
                    /\ root' = [root EXCEPT !.saved = {hand}]
                    /\ hand' = None
                    /\ UNCHANGED <<pc, todo>> /\ InRoot

\* echo "$t" >> STATE
RecordTimer == /\ pc = "disable" /\ hand # None
               /\ root' = [root EXCEPT !.saved = @ \cup {hand}]
               /\ hand' = None
               /\ UNCHANGED <<pc, todo>> /\ InRoot

TimersDone == /\ Step("disable", "fstab") /\ todo = {} /\ hand = None
              /\ UNCHANGED <<root, todo, hand>> /\ InRoot

FstabRo == /\ Step("fstab", "add")
           /\ root' = [root EXCEPT !.fstabRo = TRUE]
           /\ UNCHANGED <<todo, hand>> /\ InRoot

CmdlineAdd == Step("add", "roSync") /\ boot' = TRUE /\ InBoot

(* do_rw *)

RwStart == \/ (active \/ boot) /\ Begins("remove")
           \/ ~active /\ ~boot /\ Ends("stillRw")

RemoveDropins ==
    /\ pc = "remove"
    /\ root' = [root EXCEPT !.dropins = {}]
    /\ IF root.saved = Absent
       THEN pc' = "unfstab" /\ UNCHANGED todo
       ELSE pc' = "enable" /\ todo' = root.saved
    /\ UNCHANGED hand /\ InRoot

EnableTimer(t) == /\ pc = "enable" /\ t \in todo
                  /\ todo' = todo \ {t}
                  /\ root' = [root EXCEPT !.timers = @ \cup {t}]
                  /\ UNCHANGED <<pc, hand>> /\ InRoot

EnableDone == /\ Step("enable", "unsave") /\ todo = {}
              /\ UNCHANGED <<root, todo, hand>> /\ InRoot

\* Mutant: the STATE file is left behind.
KeepState == /\ Step("unsave", "unfstab")
             /\ UNCHANGED <<root, todo, hand>> /\ InRoot

RemoveState == /\ Step("unsave", "unfstab")
               /\ root' = [root EXCEPT !.saved = Absent]
               /\ UNCHANGED <<todo, hand>> /\ InRoot

FstabRw == /\ Step("unfstab", "del")
           /\ root' = [root EXCEPT !.fstabRo = FALSE]
           /\ UNCHANGED <<todo, hand>> /\ InRoot

\* The real partition is edited, presented as an overlay or not.
CmdlineDel == Step("del", "rwSync") /\ boot' = FALSE /\ InBoot

(* Both end with the sync of the command line's edit and a last one.         *)

SyncEdit == /\ Step("roSync", "roEnd") \/ Step("rwSync", "rwEnd")
            /\ Sync
            /\ UNCHANGED <<root, boot, active, todo, hand, told, cuts, fails, history>>

Finish == /\ \/ Step("roEnd", "idle") /\ told' = "ro"
             \/ Step("rwEnd", "idle") /\ told' = "rw"
          /\ Sync
          /\ UNCHANGED <<root, boot, active, todo, hand, cuts, fails, history>>

-----------------------------------------------------------------------------
(* What happens to the script.                                               *)

\* The kernel writes a file system back when it likes.
WriteBack == /\ \/ disk' = [disk EXCEPT !.root = root]
                \/ disk' = [disk EXCEPT !.boot = boot]
             /\ UNCHANGED <<root, boot, active, pc, todo, hand, told, cuts, fails,
                            history>>

Boots == /\ root' = disk'.root /\ boot' = disk'.boot /\ active' = disk'.boot
         /\ pc' = "idle" /\ todo' = {} /\ hand' = None

Reboot == /\ pc = "idle" /\ Sync /\ Boots
          /\ UNCHANGED <<told, cuts, fails, history>>

PowerCut == /\ cuts < MaxCuts /\ cuts' = cuts + 1
            /\ UNCHANGED <<disk, fails, history>> /\ Boots
            /\ told' = IF pc = "idle" THEN told ELSE "failed"

Fail == fails < MaxFails /\ fails' = fails + 1

\* set -e and die: a step fails and the script ends there.
Abort == /\ pc # "idle" /\ Fail
         /\ broken' = (broken \/ pc \in RoSteps)
         /\ pc' = "idle" /\ todo' = {} /\ hand' = None /\ told' = "failed"
         /\ UNCHANGED <<root, boot, disk, active, cuts, installed, spared>>

\* if systemctl is-enabled: an error there is a no, and the timer stays enabled.
IsEnabledFails(t) ==
    /\ Fail /\ pc = "disable" /\ hand = None /\ t \in todo
    /\ todo' = todo \ {t} /\ spared' = spared \cup {t}
    /\ UNCHANGED <<root, boot, disk, active, pc, hand, told, cuts, installed, broken>>

\* for t in $(cat STATE), systemctl enable ... || true: what cannot be read, or
\* a timer that cannot be enabled, is passed over.
PassOver(passed) ==
    /\ Fail /\ pc = "enable"
    /\ todo' = todo \ passed /\ broken' = TRUE
    /\ UNCHANGED <<root, boot, disk, active, pc, hand, told, cuts, installed, spared>>

CatFails == todo = root.saved /\ PassOver(todo)

EnableFails(t) == t \in todo /\ PassOver({t})

ScriptStep ==
    \/ RoStart \/ WriteDropins \/ Truncate
    \/ (\E t \in Timers : DisableTimer(t)) \/ RecordTimer \/ TimersDone
    \/ FstabRo \/ CmdlineAdd
    \/ RwStart \/ RemoveDropins \/ (\E t \in Timers : EnableTimer(t))
    \/ EnableDone \/ RemoveState \/ FstabRw \/ CmdlineDel
    \/ SyncEdit \/ Finish

Next == \/ ScriptStep \/ WriteBack \/ Reboot \/ PowerCut \/ Abort
        \/ CatFails \/ \E t \in Timers : IsEnabledFails(t) \/ EnableFails(t)

Spec == Init /\ [][Next]_vars

-----------------------------------------------------------------------------
(* What the script says of itself.                                           *)

(* Lines 11-17 and 114: when "read-only mode configured" has been said, it   *)
(* is on the card, and no later power cut boots into less. All of it, but    *)
(* for a timer whose is-enabled failed (line 104): it stays enabled.         *)
RoReported == told = "ro" =>
    /\ disk.boot /\ disk.root.dropins = Dropins /\ disk.root.fstabRo
    /\ disk.root.timers \subseteq spared

(* Line 18 for all but the timers: when "read-write mode configured" has     *)
(* been said, no power cut brings any of the read-only set-up back.          *)
RwReported == told = "rw" =>
    /\ ~disk.boot /\ disk.root.dropins = {} /\ ~disk.root.fstabRo
    /\ disk.root.saved = Absent

(* Line 18: "atomrust-rw undoes all of that": the timers that were enabled   *)
(* before are enabled again, after any number of switches.                   *)
RwUndoes == told = "rw" => root.timers = installed

(* The same where it does hold: without a power cut, a rw that ended with an *)
(* error is finished by the next one, wherever the first one stopped.        *)
RwResumes == cuts = 0 /\ ~broken => RwUndoes

(* Line 5: "atomrust-ro configure read-only mode (takes effect after         *)
(* reboot)": a command that ends well leaves a card that boots read-only.    *)
RoTakesEffect == told \in {"ro", "configured", "stillRo"} => boot
=============================================================================
