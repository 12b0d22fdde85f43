------------------------------- MODULE Source -------------------------------
(* The source of the camera (src/source/mod.rs) and its manager                *)
(* (src/source/source_manager.rs): one path, registered once by App::start, a  *)
(* worker that answers queries on a broadcast, and the SETUP requests that     *)
(* query it.                                                                   *)
EXTENDS Naturals

CONSTANTS Clients,     \* those who may hold a SourceDelegate, one each
          Cap,         \* MAX_QUEUED_INFO
          Describable, \* an SDP can be made of the stream info
          MaxQueries   \* bound: queries on the control channel, which has none

VARIABLES source,    \* the source's worker
          value,     \* the Source: when it is dropped its worker stops
          control,   \* StreamInfo messages on the control channel
          ask,       \* a client's delegate: how far query_media_info is
          unread,    \* media infos in its receiver; Cap + 1: it lags
          note,      \* Stopped is on the state channel
          manager,   \* the source manager's worker
          rt         \* the runtime has signalled its stop

delegates == <<control, ask, unread>>
vars == <<source, value, delegates, note, manager, rt>>

Worker == {"absent", "running", "left", "over"}

TypeOK == /\ source \in Worker
          /\ value \in {"none", "started", "registered", "draining", "dropped"}
          /\ control \in 0 .. MaxQueries
          /\ ask \in [Clients -> {"none", "subscribed", "sent", "info", "nothing"}]
          /\ unread \in [Clients -> 0 .. Cap + 1]
          /\ note \in BOOLEAN /\ rt \in BOOLEAN
          /\ manager \in Worker

Init == /\ source = "absent" /\ value = "none"
        /\ control = 0 /\ ask = [c \in Clients |-> "none"]
        /\ unread = [c \in Clients |-> 0]
        /\ note = FALSE /\ manager = "absent" /\ rt = FALSE

-----------------------------------------------------------------------------
(* SourceManager                                                              *)

Start == /\ manager = "absent" /\ manager' = "running"
         /\ UNCHANGED <<source, value, delegates, note, rt>>

\* register_and_start: first Source::start ...
StartSource == /\ manager # "absent" /\ value = "none"
               /\ value' = "started" /\ source' = "running"
               /\ UNCHANGED <<delegates, note, manager, rt>>

\* ... then the map and, when an SDP can be made, the cache.
Register == /\ value = "started" /\ value' = "registered"
            /\ UNCHANGED <<source, delegates, note, manager, rt>>

\* The cache: nothing is ever taken out of it.
Cached == Describable /\ value \notin {"none", "started"}

\* run: Stopped takes the path out of the map.
Remove == /\ manager = "running" /\ note
          /\ note' = FALSE
          /\ value' = IF value = "registered" THEN "dropped" ELSE value
          /\ UNCHANGED <<source, delegates, manager, rt>>

\* stop: Task::stop on the worker, which leaves its loop; its receiver goes too.
StopManager == /\ manager = "running" /\ manager' = "over" /\ note' = FALSE
               /\ UNCHANGED <<source, value, delegates, rt>>

\* Then the map is drained: Source::stop of each, which is dropped after it.
Drain == /\ value = "registered" /\ value' = "draining"
         /\ UNCHANGED <<source, delegates, note, manager, rt>>

DropSource == /\ value = "draining" /\ source = "over"
              /\ value' = "dropped"
              /\ UNCHANGED <<source, delegates, note, manager, rt>>

Drained == value \in {"none", "dropped"}

\* Runtime::stop, as far as the signal.
SignalStop == /\ ~rt /\ rt' = TRUE
              /\ UNCHANGED <<source, value, delegates, note, manager>>

ManagerSeesStop == rt /\ StopManager

-----------------------------------------------------------------------------
(* Source::run                                                                *)

Listening(c) == ask[c] \in {"subscribed", "sent"}

\* Mutant: the messages in a receiver are not bounded.
ServeUnbounded ==
    /\ source = "running" /\ control > 0
    /\ control' = control - 1
    /\ unread' = [c \in Clients |-> IF Listening(c) THEN unread[c] + 1 ELSE unread[c]]
    /\ UNCHANGED <<source, value, ask, note, manager, rt>>

\* A query is answered to everyone who has subscribed.
Serve == /\ source = "running" /\ control > 0
         /\ control' = control - 1
         /\ unread' = [c \in Clients |->
                IF Listening(c) /\ unread[c] <= Cap THEN unread[c] + 1 ELSE unread[c]]
         /\ UNCHANGED <<source, value, ask, note, manager, rt>>

SeeStop == /\ source = "running"
           /\ rt \/ value \in {"draining", "dropped"}
           /\ source' = "left"
           /\ UNCHANGED <<value, delegates, note, manager, rt>>

\* Stopped is sent, to a manager that may be over; then the context goes, and
\* the channels with what is on them.
Finish == /\ source = "left" /\ source' = "over"
          /\ note' = (manager = "running")
          /\ control' = 0
          /\ UNCHANGED <<value, ask, unread, manager, rt>>

-----------------------------------------------------------------------------
(* subscribe and query_media_info, for a SETUP                                *)

Subscribe(c) == /\ ask[c] = "none" /\ value = "registered"
                /\ ask' = [ask EXCEPT ![c] = "subscribed"]
                /\ unread' = [unread EXCEPT ![c] = 0]
                /\ UNCHANGED <<source, value, control, note, manager, rt>>

\* The control channel is closed once the worker is over.
Query(c) == /\ ask[c] = "subscribed"
            /\ IF source = "over"
               THEN ask' = [ask EXCEPT ![c] = "nothing"] /\ UNCHANGED control
               ELSE /\ control < MaxQueries /\ control' = control + 1
                    /\ ask' = [ask EXCEPT ![c] = "sent"]
            /\ UNCHANGED <<source, value, unread, note, manager, rt>>

\* Both senders of media infos are gone: the Source's and its worker's.
Closed == source = "over" /\ value = "dropped"

\* Mutant: a receiver that lags goes on with what comes next.
ReceiveLater(c) == /\ ask[c] = "sent"
                   /\ \/ unread[c] \in 1 .. Cap /\ ask' = [ask EXCEPT ![c] = "info"]
                      \/ unread[c] > Cap /\ UNCHANGED ask
                      \/ /\ unread[c] = 0 /\ Closed
                         /\ ask' = [ask EXCEPT ![c] = "nothing"]
                   /\ unread' = [unread EXCEPT ![c] = 0]
                   /\ UNCHANGED <<source, value, control, note, manager, rt>>

\* recv: a receiver that lags gets an error first, which ends the query. Of
\* what it receives the first will do: nobody looks at the rest.
Receive(c) == /\ ask[c] = "sent"
              /\ \/ /\ unread[c] \in 1 .. Cap /\ ask' = [ask EXCEPT ![c] = "info"]
                    /\ unread' = [unread EXCEPT ![c] = 0]
                 \/ /\ unread[c] > Cap \/ (unread[c] = 0 /\ Closed)
                    /\ ask' = [ask EXCEPT ![c] = "nothing"]
                    /\ UNCHANGED unread
              /\ UNCHANGED <<source, value, control, note, manager, rt>>

\* The delegate goes into a session, or is dropped.
Release(c) == /\ ask[c] \in {"info", "nothing"}
              /\ ask' = [ask EXCEPT ![c] = "none"]
              /\ unread' = [unread EXCEPT ![c] = 0]
              /\ UNCHANGED <<source, value, control, note, manager, rt>>

=============================================================================
