------------------------------- MODULE Session -------------------------------
(* One RTSP session on one connection: the frames of the source, the session  *)
(* worker that turns them into RTP packets (src/session/mod.rs), the bounded  *)
(* media queue and the connection worker that writes it and serves PLAY and   *)
(* TEARDOWN in between (src/net/connection.rs).                               *)
EXTENDS Naturals, Sequences

CONSTANTS RingCap,     \* frames the source's broadcast channel keeps
          QueueCap,    \* MEDIA_QUEUE_LEN
          MaxBatch,    \* MAX_BATCH
          MaxParts,    \* bound: packets of a frame
          Frames,      \* the frames there may be: [key, parts]
          MaxFrames,   \* bound: frames the camera produces
          MaxPlays,    \* bound: PLAY requests of the client
          None         \* no sequence number

ASSUME CapAssumption == /\ RingCap \in Nat \ {0} /\ QueueCap \in Nat \ {0}
                        /\ MaxBatch \in Nat \ {0} /\ MaxParts \in Nat \ {0}
                        /\ MaxFrames \in Nat /\ MaxPlays \in Nat
                        /\ None \notin Nat

ASSUME FramesAssumption == Frames \subseteq [key : BOOLEAN, parts : 1 .. MaxParts]

VARIABLES frames,     \* the frames the source has broadcast: [key, parts]
          srcOpen,    \* the source's worker and its channels are alive
          wpc,        \* session worker: in its select, in the send loop, returned
          pos,        \* the next frame its packet receiver looks for
          media,      \* SessionMediaState
          needState,  \* need_stream_state
          waitKey,    \* wait_for_keyframe
          part,       \* the packet of frame pos - 1 that try_send is given next
          mseq,       \* the muxer's next RTP sequence number, from its first
          control,    \* the session's unbounded control channel
          stopReq,    \* a stop has been signalled to the worker
          stream,     \* every packet the media queue has accepted
          taken,      \* how many of them the connection has taken out
          fed,        \* how many it has fed since its last flush
          conn,       \* connection worker
          reply,      \* stream state waiting in play's receiver
          info,       \* rtp_seq of the first positive PLAY response written
          torn,       \* a TEARDOWN has been answered with 200
          plays       \* PLAY requests so far

worker == <<wpc, pos, media, needState, waitKey, part, mseq>>
client == <<conn, taken, fed, info, torn, plays>>
vars == <<frames, srcOpen, worker, control, stopReq, stream, client, reply>>

\* The most packets that n frames can be.
MostPackets(n) == n * MaxParts

Seqs == 0 .. MostPackets(MaxFrames)
Packets == [frame : 1 .. MaxFrames, part : 1 .. MaxParts, last : BOOLEAN,
            key : BOOLEAN, seq : Seqs]

TypeOK ==
    /\ frames \in Seq(Frames) /\ Len(frames) <= MaxFrames
    /\ srcOpen \in BOOLEAN
    /\ wpc \in {"select", "sending", "ended"}
    /\ pos \in 1 .. Len(frames) + 1
    /\ media \in {"Ready", "Playing"}
    /\ needState \in BOOLEAN /\ waitKey \in BOOLEAN
    /\ part \in 1 .. MaxParts
    /\ mseq \in Nat /\ mseq <= MostPackets(pos - 1)
    /\ control \in Seq({"StreamState", "Play"})
    /\ stopReq \in BOOLEAN
    /\ stream \in Seq(Packets)
    /\ taken \in 0 .. Len(stream) /\ Len(stream) - taken <= QueueCap
    /\ fed \in 0 .. MaxBatch
    /\ conn \in {"select", "feeding", "awaiting", "replying", "tearing", "gone"}
    /\ torn \in BOOLEAN
    /\ reply \in Seqs \cup {None} /\ info \in Seqs \cup {None}
    /\ plays \in 0 .. MaxPlays

Init ==
    /\ frames = <<>> /\ srcOpen = TRUE
    /\ wpc = "select" /\ pos = 1 /\ media = "Ready"
    /\ needState = FALSE /\ waitKey = TRUE /\ part = 1 /\ mseq = 0
    /\ control = <<>> /\ stopReq = FALSE
    /\ stream = <<>> /\ taken = 0 /\ fed = 0
    /\ conn = "select" /\ reply = None /\ info = None
    /\ torn = FALSE /\ plays = 0

-----------------------------------------------------------------------------
(* The source.                                                              *)

Publish(f) == /\ srcOpen /\ Len(frames) < MaxFrames
              /\ frames' = Append(frames, f)
              /\ UNCHANGED <<srcOpen, worker, control, stopReq, stream, client, reply>>

CloseSource == /\ srcOpen
               /\ srcOpen' = FALSE
               /\ UNCHANGED <<frames, worker, control, stopReq, stream, client, reply>>

-----------------------------------------------------------------------------
(* The session worker: each arm of its select, and its send loop.           *)

\* The worker's step touches what it does not share with the connection only.
Private == UNCHANGED <<frames, srcOpen, control, stopReq, stream, client, reply>>

Behind == Len(frames) - (pos - 1)

\* Mutant: a lag only skips frames.
LaggedOn == /\ wpc = "select" /\ Behind > RingCap
            /\ pos' = Len(frames) - RingCap + 1
            /\ UNCHANGED <<wpc, media, needState, part, mseq, waitKey>> /\ Private

\* Err(Lagged): the receiver jumps to the oldest frame still in the ring.
Lagged == /\ wpc = "select" /\ Behind > RingCap
          /\ pos' = Len(frames) - RingCap + 1
          /\ waitKey' = TRUE
          /\ UNCHANGED <<wpc, media, needState, part, mseq>> /\ Private

FrameReady == wpc = "select" /\ Behind \in 1 .. RingCap

Gated == media = "Playing" /\ waitKey /\ ~frames[pos].key

\* While it waits for a keyframe a playing session does not mux the others.
Skip == /\ FrameReady /\ Gated
        /\ pos' = pos + 1
        /\ UNCHANGED <<wpc, media, needState, waitKey, part, mseq>> /\ Private

\* Mutant: every muxed frame answers, asked or not.
AnswerUnasked(seq) ==
    /\ needState' = FALSE
    /\ reply' = IF conn = "awaiting" THEN seq ELSE reply

\* stream_state_tx.send: play's receiver is there while the handler awaits it.
AnswerState(seq) ==
    /\ needState' = FALSE
    /\ reply' = IF needState /\ conn = "awaiting" THEN seq ELSE reply

\* Mux one frame and answer a pending stream state query; what was muxed is
\* sent when playing and dropped when not.
Mux == /\ FrameReady /\ ~Gated
       /\ pos' = pos + 1
       /\ waitKey' = (waitKey /\ media # "Playing")
       /\ mseq' = mseq + frames[pos].parts
       /\ AnswerState(mseq')
       /\ wpc' = IF media = "Playing" THEN "sending" ELSE "select"
       /\ part' = 1
       /\ UNCHANGED <<frames, srcOpen, media, control, stopReq, stream, client>>

\* The muxer fails on the frame: the query is answered, then the loop ends.
MuxFail == /\ FrameReady /\ ~Gated
           /\ pos' = pos + 1
           /\ AnswerState(mseq)
           /\ wpc' = "ended"
           /\ UNCHANGED <<frames, srcOpen, media, waitKey, part, mseq, control,
                          stopReq, stream, client>>

Sending == frames[pos - 1]

PacketOf(i) == [frame |-> pos - 1, part |-> i, last |-> i = Sending.parts,
                key |-> Sending.key, seq |-> mseq - Sending.parts + i - 1]

\* Mutant: the queue takes one packet more than it should.
RoomOffByOne == Len(stream) - taken <= QueueCap

Room == Len(stream) - taken < QueueCap

\* try_send: Ok
TrySend == /\ wpc = "sending" /\ conn # "gone" /\ Room
           /\ stream' = Append(stream, PacketOf(part))
           /\ IF part = Sending.parts THEN wpc' = "select" /\ UNCHANGED part
                                      ELSE part' = part + 1 /\ UNCHANGED wpc
           /\ UNCHANGED <<frames, srcOpen, pos, media, needState, waitKey, mseq,
                          control, stopReq, client, reply>>

\* try_send: Full. The rest of the frame is dropped.
DropRest == /\ wpc = "sending" /\ conn # "gone" /\ ~Room
            /\ wpc' = "select"
            /\ waitKey' = TRUE
            /\ UNCHANGED <<pos, media, needState, part, mseq>> /\ Private

\* try_send: Closed.
ConnectionClosed == /\ wpc = "sending" /\ conn = "gone"
                    /\ wpc' = "ended"
                    /\ UNCHANGED <<pos, media, needState, waitKey, part, mseq>>
                    /\ Private

ControlMessage ==
    /\ wpc = "select" /\ control # <<>>
    /\ control' = Tail(control)
    /\ IF Head(control) = "Play"
       THEN media' = "Playing" /\ waitKey' = TRUE /\ UNCHANGED needState
       ELSE needState' = TRUE /\ UNCHANGED <<media, waitKey>>
    /\ UNCHANGED <<frames, srcOpen, wpc, pos, part, mseq, stopReq, stream, client,
                   reply>>

\* wait_for_stop, or the source's channels closed: leave the loop.
Leave == /\ wpc = "select" /\ (stopReq \/ ~srcOpen)
         /\ wpc' = "ended"
         /\ UNCHANGED <<pos, media, needState, waitKey, part, mseq>> /\ Private

-----------------------------------------------------------------------------
(* The connection worker: one await of its select loop at a time, so it      *)
(* takes nothing from the media queue while it handles a request.            *)

Server == UNCHANGED <<frames, srcOpen, worker, stream>>

\* Mutant: queued media is written before the response that is ready.
TakeFirstAnytime ==
    /\ conn \in {"select", "replying"} /\ taken < Len(stream)
    /\ taken' = taken + 1 /\ fed' = 1
    /\ conn' = "feeding"
    /\ UNCHANGED <<control, stopReq, reply, info, torn, plays>> /\ Server

TakeFirst == /\ conn = "select" /\ taken < Len(stream)
             /\ taken' = taken + 1 /\ fed' = 1
             /\ conn' = "feeding"
             /\ UNCHANGED <<control, stopReq, reply, info, torn, plays>> /\ Server

TakeMore == /\ conn = "feeding" /\ taken < Len(stream) /\ fed < MaxBatch
            /\ taken' = taken + 1 /\ fed' = fed + 1
            /\ UNCHANGED <<conn, control, stopReq, reply, info, torn, plays>>
            /\ Server

Flush == /\ conn = "feeding" /\ (taken = Len(stream) \/ fed = MaxBatch)
         /\ conn' = "select" /\ fed' = 0
         /\ UNCHANGED <<taken, control, stopReq, reply, info, torn, plays>>
         /\ Server

\* The client has gone, a write failed or stalled past WRITE_TIMEOUT, or the
\* connection is told to stop: the receiver of the media queue is dropped.
Gone == /\ conn \in {"select", "feeding", "replying"}
        /\ conn' = "gone"
        /\ UNCHANGED <<taken, fed, control, stopReq, reply, info, torn, plays>>
        /\ Server

\* Mutant: the session is set to play before its state is queried.
PlayRequestPlayFirst ==
    /\ conn = "select" /\ plays < MaxPlays
    /\ plays' = plays + 1
    /\ reply' = None
    /\ IF wpc = "ended"
       THEN UNCHANGED <<conn, control>>
       ELSE conn' = "awaiting" /\ control' = control \o <<"Play", "StreamState">>
    /\ UNCHANGED <<taken, fed, stopReq, info, torn>> /\ Server

\* Session::play up to its await: subscribe, then send the query. When the
\* worker is over the send fails and the client gets an error response.
PlayRequest ==
    /\ conn = "select" /\ plays < MaxPlays
    /\ plays' = plays + 1
    /\ reply' = None
    /\ IF wpc = "ended"
       THEN UNCHANGED <<conn, control>>
       ELSE conn' = "awaiting" /\ control' = Append(control, "StreamState")
    /\ UNCHANGED <<taken, fed, stopReq, info, torn>> /\ Server

\* Session::play after its await: send Play, then answer the request.
PlayReceive ==
    /\ conn = "awaiting" /\ reply # None
    /\ IF wpc = "ended"
       THEN conn' = "select" /\ UNCHANGED control
       ELSE conn' = "replying" /\ control' = Append(control, "Play")
    /\ UNCHANGED <<taken, fed, stopReq, reply, info, torn, plays>> /\ Server

PlayReply == /\ conn = "replying"
             /\ conn' = "select"
             /\ info' = IF info = None THEN reply ELSE info
             /\ UNCHANGED <<taken, fed, control, stopReq, reply, torn, plays>>
             /\ Server

\* Session::teardown: Task::stop signals the worker and awaits its hold.
TeardownRequest == /\ conn = "select" /\ ~torn
                   /\ conn' = "tearing" /\ stopReq' = TRUE
                   /\ UNCHANGED <<taken, fed, control, reply, info, torn, plays>>
                   /\ Server

\* Mutant: teardown signals and does not wait.
TeardownReplyAtOnce ==
    /\ conn = "tearing"
    /\ conn' = "select" /\ torn' = TRUE
    /\ UNCHANGED <<taken, fed, control, stopReq, reply, info, plays>> /\ Server

TeardownReply == /\ conn = "tearing" /\ wpc = "ended"
                 /\ conn' = "select" /\ torn' = TRUE
                 /\ UNCHANGED <<taken, fed, control, stopReq, reply, info, plays>>
                 /\ Server

\* The runtime stops, or the Session value that owns the worker is dropped.
StopSession == /\ ~stopReq
               /\ stopReq' = TRUE
               /\ UNCHANGED <<control, reply, client>> /\ Server

WorkerStep == \/ Lagged \/ Skip \/ Mux \/ MuxFail \/ TrySend \/ DropRest
              \/ ConnectionClosed \/ ControlMessage \/ Leave

ConnStep == \/ TakeFirst \/ TakeMore \/ Flush \/ Gone
            \/ PlayRequest \/ PlayReceive \/ PlayReply
            \/ TeardownRequest \/ TeardownReply

Next == \/ \E f \in Frames : Publish(f)
        \/ CloseSource \/ StopSession \/ WorkerStep \/ ConnStep

Spec == Init /\ [][Next]_vars

-----------------------------------------------------------------------------
\* The connection writes what the queue accepted, in order: media a client
\* gets, and the response it may rely on.
Feed == INSTANCE ClientFeed
          WITH replied <- info # None, wire <- SubSeq(stream, 1, taken)

(* session/mod.rs:177-178: "While playing, only start (or resume after       *)
(* dropping data) on a keyframe, so the client never decodes from a missing  *)
(* reference". Whatever lags, full queues and repeated PLAYs come between,   *)
(* a packet in the media queue starts a keyframe or is the very next one.    *)
Decodable == /\ stream # <<>> => Feed!Starts(stream[1])
             /\ \A i \in 2 .. Len(stream) : Feed!Continues(stream[i - 1], stream[i])

(* net/connection.rs and handler.rs together: on the wire the PLAY response  *)
(* comes before the first media packet, and what follows can be decoded.     *)
ImplementsFeed == Feed!Spec

\* The conversation of play with the worker, as SessionManager has it.
Asking == IF conn # "awaiting" THEN "none"
          ELSE IF reply # None THEN "answered"
          ELSE IF needState THEN "owed" ELSE "asked"

Told == \E k \in DOMAIN control : control[k] = "Play"

Life == IF wpc = "ended" THEN "over"
        ELSE IF media = "Playing" THEN "playing" ELSE "ready"

Query == INSTANCE StreamStateQuery
           WITH query <- Asking, told <- Told, life <- Life

(* session/mod.rs:105-123 and its loop: a PLAY gets the stream state that it   *)
(* asked for and no other's, one of a frame muxed after the question was read, *)
(* and only then does the session play, whatever frames are skipped, dropped   *)
(* or fail meanwhile.                                                          *)
ImplementsQuery == Query!Spec

(* handler.rs:210-212 and RFC 2326: RTP-Info is to tell the client where the *)
(* stream starts, so no packet of it may have an earlier sequence number,    *)
(* however many frames pass between the query and the Play message.          *)
RtpInfoNotAhead ==
    info # None /\ stream # <<>> => stream[1].seq >= info

\* handler.rs:246-254: once TEARDOWN is answered the session queues nothing.
NoMediaAfterTeardown == [][torn => UNCHANGED stream]_vars
=============================================================================
