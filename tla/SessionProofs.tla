---------------------------- MODULE SessionProofs ----------------------------
(* For every ring, queue, batch and frame size and any number of frames and   *)
(* PLAYs: what the media queue accepts can be decoded, the RTP-Info of PLAY   *)
(* is not ahead of the stream, nothing is queued after TEARDOWN, and what is  *)
(* written to the client implements ClientFeed.                               *)
EXTENDS Integers, SequenceTheorems, Session, TLAPS

Tip == stream[Len(stream)]

\* The sequence number of the next packet that could be queued.
NextSeq == IF wpc = "sending" THEN mseq - Sending.parts + part - 1 ELSE mseq

\* The send loop has a frame, a packet of it, and its gate open.
SendingInv == wpc = "sending" =>
    /\ pos > 1
    /\ part <= Sending.parts /\ Sending.parts <= mseq
    /\ media = "Playing" /\ ~waitKey

\* A session that is not playing has its gate shut.
ReadyShut == media = "Ready" => waitKey /\ stream = <<>>

\* With the gate open, the tip is the packet right before the next one.
GateInv ==
    /\ wpc = "select" /\ ~waitKey =>
          stream # <<>> /\ Tip.last /\ Tip.frame = pos - 1
    /\ wpc = "sending" /\ part > 1 =>
          /\ stream # <<>> /\ ~Tip.last
          /\ Tip.frame = pos - 1 /\ Tip.part = part - 1
    /\ wpc = "sending" /\ part = 1 =>
          \/ Sending.key
          \/ stream # <<>> /\ Tip.last /\ Tip.frame = pos - 2

\* The tip is behind what comes next, in frames and in sequence numbers.
BehindInv == stream # <<>> =>
    /\ Tip.frame <= pos - 1
    /\ wpc = "sending" /\ part = 1 => Tip.frame <= pos - 2
    /\ Tip.seq < NextSeq

\* Until the first PLAY response is ready nothing has told the worker to play.
SilentInv == info = None /\ conn \notin {"replying", "gone"} =>
    /\ media = "Ready"
    /\ \A i \in 1 .. Len(control) : control[i] # "Play"

TakenInv == info = None => taken = 0

\* A sequence number a PLAY is told, or is about to be told, is not ahead.
NotAhead(seq) == IF stream = <<>> THEN seq <= NextSeq ELSE seq <= stream[1].seq

ReplyInv == /\ conn = "replying" => reply # None
            /\ reply # None /\ info = None /\ conn \in {"awaiting", "replying"}
                  => NotAhead(reply)
            /\ info # None => NotAhead(info)

TornInv == torn => wpc = "ended"

IInv == /\ TypeOK
        /\ SendingInv
        /\ ReadyShut
        /\ GateInv
        /\ BehindInv
        /\ SilentInv
        /\ TakenInv
        /\ ReplyInv
        /\ TornInv
        /\ Decodable

-----------------------------------------------------------------------------
(* Arithmetic and sequences.                                                 *)

\* Multiplication is monotone.
LEMMA TimesMonotone ==
    ASSUME NEW a \in Nat, NEW b \in Nat, NEW c \in Nat, a <= b
    PROVE  a * c <= b * c
<1>1. (b - a) * c >= 0  BY SMT
<1>2. (b - a) * c = b * c - a * c  BY SMT
<1>3. a * c \in Nat /\ b * c \in Nat  BY SMT
<1> QED BY <1>1, <1>2, <1>3, SMT

\* More frames are more packets, by at most MaxParts each.
LEMMA MorePackets ==
    ASSUME NEW m \in Nat, NEW n \in Nat, m <= n
    PROVE  /\ MostPackets(m) \in Nat /\ MostPackets(m) <= MostPackets(n)
           /\ MostPackets(n) \in Nat
           /\ MostPackets(m + 1) = MostPackets(m) + MaxParts
<1>1. MaxParts \in Nat  BY CapAssumption
<1>2. m * MaxParts \in Nat /\ n * MaxParts \in Nat  BY <1>1
<1>3. (m + 1) * MaxParts = m * MaxParts + MaxParts  BY <1>1
<1> QED BY <1>1, <1>2, <1>3, TimesMonotone DEF MostPackets

\* What Append does, index by index.
LEMMA AppendFacts ==
    ASSUME NEW S, NEW s \in Seq(S), NEW e \in S
    PROVE  /\ Append(s, e) \in Seq(S)
           /\ Append(s, e) # <<>>
           /\ Len(Append(s, e)) = Len(s) + 1
           /\ \A i \in 1 .. Len(s) : Append(s, e)[i] = s[i]
           /\ Append(s, e)[Len(s) + 1] = e
BY SMT

\* A sequence is empty when its length is zero.
LEMMA EmptyByLength ==
    ASSUME NEW S, NEW s \in Seq(S)
    PROVE  /\ Len(s) \in Nat
           /\ s = <<>> <=> Len(s) = 0
           /\ \A i \in 1 .. Len(s) : s[i] \in S
BY SMT

-----------------------------------------------------------------------------
(* The invariant, part by part.                                              *)

\* In the send loop, the packet that is given to try_send is well formed.
LEMMA PacketType ==
    ASSUME TypeOK, SendingInv, wpc = "sending"
    PROVE  /\ Sending \in Frames
           /\ PacketOf(part) \in Packets
<1> USE CapAssumption
<1>1. /\ pos - 1 \in 1 .. Len(frames) /\ pos - 1 \in 1 .. MaxFrames
      /\ Sending \in Frames
      BY EmptyByLength DEF TypeOK, SendingInv, Sending
<1>2. /\ Sending.parts \in 1 .. MaxParts /\ Sending.key \in BOOLEAN
      /\ part \in 1 .. Sending.parts /\ Sending.parts <= mseq
      BY FramesAssumption, <1>1 DEF TypeOK, SendingInv
<1>3. /\ mseq \in Nat /\ mseq <= MostPackets(MaxFrames)
      /\ MostPackets(MaxFrames) \in Nat
  <2>1. /\ MostPackets(pos - 1) <= MostPackets(MaxFrames)
        /\ MostPackets(pos - 1) \in Nat /\ MostPackets(MaxFrames) \in Nat
        BY <1>1, MorePackets
  <2>2. mseq \in Nat /\ mseq <= MostPackets(pos - 1)
        BY DEF TypeOK
  <2> QED BY <2>1, <2>2
<1>4. mseq - Sending.parts + part - 1 \in Seqs
      BY <1>2, <1>3 DEF Seqs
<1>5. (part = Sending.parts) \in BOOLEAN
      OBVIOUS
<1>6. part \in 1 .. MaxParts
      BY <1>2
<1> QED BY <1>1, <1>2, <1>4, <1>5, <1>6 DEF PacketOf, Packets

\* Everything but the connection's own state.
LEMMA ConnStepType ==
    ASSUME TypeOK, SendingInv, ConnStep \/ StopSession
    PROVE  TypeOK' /\ SendingInv'
<1> USE CapAssumption DEF TypeOK, Server, worker, client
<1>1. SendingInv'
      BY DEF SendingInv, Sending, ConnStep, TakeFirst, TakeMore, Flush, Gone,
             PlayRequest, PlayReceive, PlayReply, TeardownRequest, TeardownReply,
             StopSession
<1> SUFFICES TypeOK'
    BY <1>1
<1>2. CASE TakeFirst        BY <1>2 DEF TakeFirst
<1>3. CASE TakeMore         BY <1>3 DEF TakeMore
<1>4. CASE Flush            BY <1>4 DEF Flush
<1>5. CASE Gone             BY <1>5 DEF Gone
<1>0. \A m \in {"StreamState", "Play"} :
          Append(control, m) \in Seq({"StreamState", "Play"})
      BY AppendFacts
<1>6. CASE PlayRequest
  <2>1. /\ control' \in Seq({"StreamState", "Play"})
        /\ conn' \in {"select", "awaiting"}
        BY <1>0, <1>6 DEF PlayRequest
  <2> QED BY <1>6, <2>1 DEF PlayRequest
<1>7. CASE PlayReceive
  <2>1. /\ control' \in Seq({"StreamState", "Play"})
        /\ conn' \in {"select", "replying"}
        BY <1>0, <1>7 DEF PlayReceive
  <2> QED BY <1>7, <2>1 DEF PlayReceive
<1>8. CASE PlayReply        BY <1>8 DEF PlayReply
<1>9. CASE TeardownRequest  BY <1>9 DEF TeardownRequest
<1>10. CASE TeardownReply   BY <1>10 DEF TeardownReply
<1>11. CASE StopSession     BY <1>11 DEF StopSession
<1> QED BY <1>2, <1>3, <1>4, <1>5, <1>6, <1>7, <1>8, <1>9, <1>10, <1>11
        DEF ConnStep

\* The source adds a frame behind those the worker has read.
LEMMA SourceStepType ==
    ASSUME TypeOK, SendingInv, CloseSource \/ \E f \in Frames : Publish(f)
    PROVE  TypeOK' /\ SendingInv'
<1>1. CASE CloseSource
  <2>0. /\ UNCHANGED <<frames, wpc, pos, media, needState, waitKey, part, mseq>>
        /\ UNCHANGED <<control, stopReq, stream, conn, taken, fed>>
        /\ UNCHANGED <<info, torn, plays, reply>>
        /\ srcOpen' = FALSE
        BY <1>1 DEF CloseSource, worker, client
  <2>1. TypeOK'  BY <2>0 DEF TypeOK
  <2>2. SendingInv'  BY <1>1 DEF CloseSource, SendingInv, Sending, worker
  <2> QED BY <2>1, <2>2
<1>2. ASSUME NEW f \in Frames, Publish(f)
      PROVE  TypeOK' /\ SendingInv'
  <2>1. /\ frames' \in Seq(Frames) /\ Len(frames') = Len(frames) + 1
        /\ \A i \in 1 .. Len(frames) : frames'[i] = frames[i]
        /\ Len(frames) \in Nat /\ Len(frames) < MaxFrames
        BY <1>2, AppendFacts, EmptyByLength DEF Publish, TypeOK
  <2>2. UNCHANGED <<srcOpen, worker, control, stopReq, stream, client, reply>>
        BY <1>2 DEF Publish
  <2>3. TypeOK'
        BY <2>1, <2>2, CapAssumption DEF TypeOK, worker, client
  <2>4. ASSUME wpc = "sending"
        PROVE  Sending' = Sending
    <3>1. pos' = pos /\ pos - 1 \in 1 .. Len(frames)
          BY <2>1, <2>2, <2>4 DEF TypeOK, SendingInv, worker
    <3>2. frames'[pos - 1] = frames[pos - 1]
          BY <2>1, <3>1
    <3> QED BY <3>1, <3>2 DEF Sending
  <2>5. SendingInv'
        BY <2>2, <2>4 DEF SendingInv, worker
  <2> QED BY <2>3, <2>5
<1> QED BY <1>1, <1>2

\* The worker moves one frame or one packet on.
LEMMA WorkerStepType ==
    ASSUME TypeOK, SendingInv, WorkerStep
    PROVE  TypeOK' /\ SendingInv'
<1> USE CapAssumption DEF Private, worker, client
<1>0. /\ Len(frames) \in Nat /\ pos \in 1 .. Len(frames) + 1
      /\ MaxParts \in Nat /\ mseq \in Nat
      BY EmptyByLength DEF TypeOK
<1>1. CASE Lagged
  <2>0. /\ pos' = Len(frames) - RingCap + 1 /\ Len(frames) - (pos - 1) > RingCap
        /\ RingCap \in Nat /\ RingCap > 0
        BY <1>1, CapAssumption DEF Lagged, Behind
  <2>1. pos' \in 1 .. Len(frames) + 1 /\ pos - 1 <= pos' - 1
        BY <1>0, <2>0
  <2>2. pos - 1 \in Nat /\ pos' - 1 \in Nat
    <3>1. pos - 1 \in Nat  BY <1>0
    <3>2. pos' - 1 \in Nat  BY <1>0, <2>0
    <3> QED BY <3>1, <3>2
  <2>3. /\ MostPackets(pos - 1) <= MostPackets(pos' - 1)
        /\ MostPackets(pos - 1) \in Nat /\ MostPackets(pos' - 1) \in Nat
        BY <2>1, <2>2, MorePackets
  <2>4. mseq <= MostPackets(pos - 1)  BY DEF TypeOK
  <2>5. mseq <= MostPackets(pos' - 1)  BY <1>0, <2>3, <2>4
  <2>6. TypeOK'  BY <1>1, <2>1, <2>5 DEF TypeOK, Lagged
  <2> QED BY <1>1, <2>6 DEF Lagged, SendingInv
<1>2. ASSUME FrameReady, pos' = pos + 1
      PROVE  /\ pos' \in 1 .. Len(frames) + 1 /\ frames[pos] \in Frames
             /\ frames[pos].parts \in 1 .. MaxParts
             /\ mseq <= MostPackets(pos' - 1)
             /\ mseq + frames[pos].parts <= MostPackets(pos' - 1)
             /\ mseq \in Seqs /\ mseq + frames[pos].parts \in Seqs
  <2>1. pos \in 1 .. Len(frames) /\ pos <= MaxFrames /\ MaxFrames \in Nat
        BY <1>0, <1>2 DEF FrameReady, Behind, TypeOK
  <2>2. frames \in Seq(Frames)  BY DEF TypeOK
  <2>3. frames[pos] \in Frames  BY <2>1, <2>2
  <2>4. frames[pos].parts \in 1 .. MaxParts  BY FramesAssumption, <2>3
  <2>5. /\ MostPackets(pos) = MostPackets(pos - 1) + MaxParts
        /\ MostPackets(pos - 1) \in Nat
    <3>1. pos - 1 \in Nat /\ (pos - 1) + 1 = pos  BY <1>0, <2>1
    <3> QED BY <3>1, MorePackets
  <2>6. /\ MostPackets(pos) <= MostPackets(MaxFrames)
        /\ MostPackets(MaxFrames) \in Nat
    <3>1. pos \in Nat  BY <1>0
    <3> QED BY <2>1, <3>1, MorePackets
  <2>7. mseq <= MostPackets(pos - 1)  BY DEF TypeOK
  <2>8. pos' - 1 = pos  BY <1>0, <1>2
  <2>9. /\ mseq <= MostPackets(pos)
        /\ mseq + frames[pos].parts <= MostPackets(pos)
        /\ mseq + frames[pos].parts \in Nat
        BY <1>0, <2>4, <2>5, <2>7
  <2>10. mseq \in Seqs /\ mseq + frames[pos].parts \in Seqs
        BY <1>0, <2>5, <2>6, <2>9 DEF Seqs
  <2>11. pos' \in 1 .. Len(frames) + 1  BY <1>0, <1>2, <2>1
  <2> QED BY <2>3, <2>4, <2>8, <2>9, <2>10, <2>11
<1>3. CASE Skip
  <2>1. TypeOK'  BY <1>2, <1>3 DEF Skip, TypeOK
  <2> QED BY <1>3, <2>1 DEF Skip, SendingInv, FrameReady
<1>4. CASE Mux
  <2> DEFINE seq == mseq + frames[pos].parts
  <2>1. /\ FrameReady /\ ~Gated /\ pos' = pos + 1
        /\ waitKey' = (waitKey /\ media # "Playing") /\ mseq' = seq
        /\ needState' = FALSE
        /\ reply' \in {reply, seq}
        /\ wpc' = IF media = "Playing" THEN "sending" ELSE "select"
        /\ part' = 1
        /\ UNCHANGED <<frames, srcOpen, media, control, stopReq, stream, client>>
        BY <1>4 DEF Mux, AnswerState
  <2>2. /\ pos' \in 1 .. Len(frames) + 1 /\ frames[pos].parts \in 1 .. MaxParts
        /\ seq <= MostPackets(pos' - 1) /\ seq \in Seqs
        BY <1>2, <2>1
  <2>3. waitKey' \in BOOLEAN /\ needState' \in BOOLEAN
        BY <2>1
  <2>4. TypeOK'  BY <1>0, <2>1, <2>2, <2>3 DEF TypeOK
  <2>5. SendingInv'
    <3>1. SUFFICES ASSUME wpc' = "sending"
                   PROVE  SendingInv'
          BY DEF SendingInv
    <3>2. media = "Playing" /\ media' = "Playing" /\ ~waitKey'
          BY <2>1, <3>1
    <3>3. Sending' = frames[pos] /\ pos' > 1
      <4>1. pos' - 1 = pos /\ pos \in Nat /\ pos >= 1 BY <1>0, <2>1 DEF TypeOK
      <4> QED BY <2>1, <4>1 DEF Sending
    <3>4. part' <= Sending'.parts /\ Sending'.parts <= mseq'
          BY <1>0, <2>1, <2>2, <3>3
    <3> QED BY <3>2, <3>3, <3>4 DEF SendingInv
  <2> QED BY <2>4, <2>5
<1>5. CASE MuxFail
  <2>1. /\ pos' \in 1 .. Len(frames) + 1 /\ mseq <= MostPackets(pos' - 1)
        /\ mseq \in Seqs
        BY <1>2, <1>5 DEF MuxFail
  <2>2. reply' \in {reply, mseq} /\ needState' = FALSE
        BY <1>5 DEF MuxFail, AnswerState
  <2>3. TypeOK'  BY <1>5, <2>1, <2>2 DEF MuxFail, TypeOK
  <2> QED BY <1>5, <2>3 DEF MuxFail, SendingInv
<1>6. CASE TrySend
  <2>1. PacketOf(part) \in Packets /\ Sending \in Frames
        BY <1>6, PacketType DEF TrySend
  <2>2. /\ stream' \in Seq(Packets) /\ Len(stream') = Len(stream) + 1
        /\ Len(stream) \in Nat
        BY <1>6, <2>1, AppendFacts, EmptyByLength DEF TrySend, TypeOK
  <2>3. Sending' = Sending /\ Sending.parts \in 1 .. MaxParts
        BY FramesAssumption, <1>6, <2>1 DEF TrySend, Sending
  <2>4. \/ wpc' = "select" /\ part' = part
        \/ wpc' = wpc /\ part' = part + 1 /\ part # Sending.parts
        BY <1>6 DEF TrySend
  <2>5. part' \in 1 .. MaxParts /\ wpc' \in {"select", "sending"}
        BY <1>6, <2>3, <2>4 DEF TrySend, TypeOK, SendingInv
  <2>6. taken' \in 0 .. Len(stream') /\ Len(stream') - taken' <= QueueCap
        BY <1>6, <2>2 DEF TrySend, TypeOK, Room
  <2>7. TypeOK'  BY <1>6, <2>2, <2>5, <2>6 DEF TrySend, TypeOK
  <2>8. SendingInv'
    <3>1. /\ pos > 1 /\ part <= Sending.parts /\ Sending.parts <= mseq
          /\ media = "Playing" /\ ~waitKey /\ part \in Nat
          BY <1>6 DEF TrySend, SendingInv, TypeOK
    <3>2. UNCHANGED <<pos, media, waitKey, mseq>>
          BY <1>6 DEF TrySend
    <3>3. wpc' = "sending" => part' <= Sending.parts
          BY <1>6, <2>3, <2>4, <3>1 DEF TrySend
    <3> QED BY <2>3, <3>1, <3>2, <3>3 DEF SendingInv
  <2> QED BY <2>7, <2>8
<1>7. CASE DropRest
      BY <1>7 DEF DropRest, TypeOK, SendingInv
<1>8. CASE ConnectionClosed
      BY <1>8 DEF ConnectionClosed, TypeOK, SendingInv
<1>9. CASE ControlMessage
  <2>1. control' \in Seq({"StreamState", "Play"})
        BY <1>9 DEF ControlMessage, TypeOK
  <2>2. /\ media' \in {"Ready", "Playing"} /\ waitKey' \in BOOLEAN
        /\ needState' \in BOOLEAN
        BY <1>9 DEF ControlMessage, TypeOK
  <2>3. TypeOK'  BY <1>9, <2>1, <2>2 DEF ControlMessage, TypeOK
  <2> QED BY <1>9, <2>3 DEF ControlMessage, SendingInv
<1>10. CASE Leave
      BY <1>10 DEF Leave, TypeOK, SendingInv
<1> QED BY <1>1, <1>3, <1>4, <1>5, <1>6, <1>7, <1>8, <1>9, <1>10 DEF WorkerStep

\* Types and the send loop's own facts are inductive without the others.
LEMMA TypeStep ==
    ASSUME TypeOK, SendingInv, [Next]_vars
    PROVE  TypeOK' /\ SendingInv'
<1>1. CASE UNCHANGED vars
      BY <1>1 DEF vars, worker, client, TypeOK, SendingInv, Sending
<1> QED BY <1>1, ConnStepType, SourceStepType, WorkerStepType DEF Next

\* The initial state has the types.
LEMMA TypeInit ==
    ASSUME Init
    PROVE  TypeOK /\ SendingInv
<1>1. /\ <<>> \in Seq(Frames) /\ <<>> \in Seq(Packets)
      /\ <<>> \in Seq({"StreamState", "Play"})
      /\ Len(<<>>) = 0
      OBVIOUS
<1>2. MostPackets(0) \in Nat /\ MostPackets(MaxFrames) \in Nat
      BY CapAssumption, MorePackets
<1>3. pos \in 1 .. Len(frames) + 1 /\ pos - 1 = 0 /\ mseq = 0
      BY <1>1 DEF Init
<1>4. mseq <= MostPackets(pos - 1) /\ mseq \in Nat
      BY <1>2, <1>3
<1>5. SendingInv
      BY DEF Init, SendingInv
<1>6. /\ taken \in 0 .. Len(stream) /\ Len(stream) - taken <= QueueCap
      /\ plays \in 0 .. MaxPlays /\ fed \in 0 .. MaxBatch
      /\ part \in 1 .. MaxParts /\ Len(frames) <= MaxFrames
      BY <1>1, CapAssumption DEF Init
<1> QED BY <1>1, <1>3, <1>4, <1>5, <1>6 DEF Init, TypeOK

\* Whatever the constants, every variable keeps its type and its bound: the
\* media queue never holds more than QueueCap packets.
THEOREM SessionTypeCorrect == Spec => []TypeOK
<1> DEFINE TInv == TypeOK /\ SendingInv
<1>1. Init => TInv  BY TypeInit
<1>2. TInv /\ [Next]_vars => TInv'  BY TypeStep
<1>3. TInv => TypeOK  OBVIOUS
<1> QED BY <1>1, <1>2, <1>3, PTL DEF Spec

-----------------------------------------------------------------------------
(* The session worker keeps the invariant.                                   *)

\* What the other steps prove about the worker: it has not moved, and the
\* frames it has read are the same.
LEMMA WorkerIdle ==
    ASSUME IInv, ConnStep \/ StopSession \/ CloseSource
                          \/ \E f \in Frames : Publish(f)
    PROVE  /\ UNCHANGED <<worker, stream>>
           /\ wpc = "sending" => Sending' = Sending
<1>1. UNCHANGED <<worker, stream>>
      BY DEF ConnStep, TakeFirst, TakeMore, Flush, Gone, PlayRequest, PlayReceive,
             PlayReply, TeardownRequest, TeardownReply, StopSession, CloseSource,
             Publish, Server
<1>2. CASE UNCHANGED frames
      BY <1>1, <1>2 DEF Sending, worker
<1>3. ASSUME NEW f \in Frames, Publish(f), wpc = "sending"
      PROVE  Sending' = Sending
  <2>1. pos - 1 \in 1 .. Len(frames)
        BY <1>3, EmptyByLength DEF IInv, TypeOK, SendingInv
  <2>2. frames'[pos - 1] = frames[pos - 1]
        BY <1>3, <2>1, AppendFacts DEF IInv, TypeOK, Publish
  <2> QED BY <1>1, <2>2 DEF Sending, worker
<1>4. UNCHANGED frames \/ \E f \in Frames : Publish(f)
      BY DEF ConnStep, TakeFirst, TakeMore, Flush, Gone, PlayRequest, PlayReceive,
             PlayReply, TeardownRequest, TeardownReply, StopSession, CloseSource,
             Server
<1> QED BY <1>1, <1>2, <1>3, <1>4

\* So what is said of the worker and the media queue alone stays true.
LEMMA IdleKeeps ==
    ASSUME IInv, ConnStep \/ StopSession \/ CloseSource
                          \/ \E f \in Frames : Publish(f)
    PROVE  /\ ReadyShut' /\ GateInv' /\ BehindInv' /\ Decodable'
           /\ stream' = stream /\ Tip' = Tip /\ NextSeq' = NextSeq
<1>1. /\ UNCHANGED <<worker, stream>>
      /\ wpc = "sending" => Sending' = Sending
      BY WorkerIdle
<1>2. Tip' = Tip /\ NextSeq' = NextSeq
      BY <1>1 DEF Tip, NextSeq, worker
<1>3. ReadyShut'  BY <1>1 DEF IInv, ReadyShut, worker
<1>4. GateInv'    BY <1>1, <1>2 DEF IInv, GateInv, worker
<1>5. BehindInv'  BY <1>1, <1>2 DEF IInv, BehindInv, worker
<1>6. Decodable'  BY <1>1 DEF IInv, Decodable
<1> QED BY <1>1, <1>2, <1>3, <1>4, <1>5, <1>6

\* The packet that TrySend appends is one a client at the tip can go on with.
LEMMA NextContinues ==
    ASSUME IInv, wpc = "sending"
    PROVE  IF stream = <<>> THEN Feed!Starts(PacketOf(part))
                            ELSE Feed!Continues(Tip, PacketOf(part))
<1>1. /\ PacketOf(part).frame = pos - 1 /\ PacketOf(part).part = part
      /\ PacketOf(part).key = Sending.key
      /\ PacketOf(part).seq = NextSeq
      BY DEF PacketOf, NextSeq
<1>2. pos \in Nat /\ part \in Nat /\ part >= 1
      BY CapAssumption, EmptyByLength DEF IInv, TypeOK
<1>3. CASE part = 1
  <2>1. Sending.key => Feed!Starts(PacketOf(part))
        BY <1>1, <1>3 DEF Feed!Starts
  <2>2. CASE stream = <<>>
        BY <1>3, <2>1, <2>2 DEF IInv, GateInv
  <2>3. CASE stream # <<>>
    <3>1. Tip \in Packets
          BY <2>3, EmptyByLength DEF IInv, TypeOK, Tip
    <3>2. Tip.frame <= pos - 2 /\ Tip.seq < NextSeq /\ Tip.frame \in Nat
          BY <1>3, <2>3, <3>1 DEF IInv, BehindInv, Packets
    <3>3. \/ Sending.key
          \/ Tip.last /\ Tip.frame = pos - 2
          BY <1>3 DEF IInv, GateInv
    <3>4. Feed!Starts(PacketOf(part)) \/ Feed!Follows(Tip, PacketOf(part))
          BY <1>1, <1>2, <1>3, <2>1, <3>3 DEF Feed!Follows
    <3>5. PacketOf(part).frame >= Tip.frame /\ PacketOf(part).seq > Tip.seq
          BY <1>1, <1>2, <3>2
    <3> QED BY <2>3, <3>4, <3>5 DEF Feed!Continues
  <2> QED BY <2>2, <2>3
<1>4. CASE part > 1
  <2>1. /\ stream # <<>> /\ ~Tip.last
        /\ Tip.frame = pos - 1 /\ Tip.part = part - 1
        BY <1>4 DEF IInv, GateInv
  <2>2. Feed!Follows(Tip, PacketOf(part))
        BY <1>1, <1>2, <2>1 DEF Feed!Follows
  <2>3. Tip.seq < NextSeq
        BY <2>1 DEF IInv, BehindInv
  <2>4. PacketOf(part).frame >= Tip.frame /\ PacketOf(part).seq > Tip.seq
        BY <1>1, <1>2, <2>1, <2>3
  <2> QED BY <2>1, <2>2, <2>4 DEF Feed!Continues
<1> QED BY <1>2, <1>3, <1>4

\* What appending that packet does to the stream.
LEMMA TrySendStream ==
    ASSUME IInv, TrySend
    PROVE  /\ PacketOf(part) \in Packets
           /\ stream \in Seq(Packets) /\ Len(stream) \in Nat
           /\ stream' \in Seq(Packets) /\ stream' # <<>>
           /\ Len(stream') = Len(stream) + 1
           /\ \A i \in 1 .. Len(stream) : stream'[i] = stream[i]
           /\ stream'[Len(stream) + 1] = PacketOf(part)
           /\ Tip' = PacketOf(part)
<1>1. PacketOf(part) \in Packets
      BY PacketType DEF IInv, TrySend
<1>2. stream \in Seq(Packets) /\ Len(stream) \in Nat
      BY EmptyByLength DEF IInv, TypeOK
<1>3. stream' = Append(stream, PacketOf(part))
      BY DEF TrySend
<1>4. /\ stream' \in Seq(Packets) /\ stream' # <<>>
      /\ Len(stream') = Len(stream) + 1
      /\ \A i \in 1 .. Len(stream) : stream'[i] = stream[i]
      /\ stream'[Len(stream) + 1] = PacketOf(part)
      BY <1>1, <1>2, <1>3, AppendFacts
<1>5. Tip' = PacketOf(part)
      BY <1>4 DEF Tip
<1> QED BY <1>1, <1>2, <1>4, <1>5

\* The media queue can still be decoded when it takes one packet more.
LEMMA DecodableStep ==
    ASSUME IInv, [Next]_vars
    PROVE  Decodable'
<1>1. CASE TrySend
  <2>1. IF stream = <<>> THEN Feed!Starts(PacketOf(part))
                         ELSE Feed!Continues(Tip, PacketOf(part))
        BY <1>1, NextContinues DEF TrySend
  <2>2. stream = <<>> <=> Len(stream) = 0
        BY EmptyByLength DEF IInv, TypeOK
  <2>3. Feed!Starts(stream'[1])
        BY <2>1, <2>2, TrySendStream, <1>1 DEF IInv, Decodable
  <2>4. ASSUME NEW i \in 2 .. Len(stream')
        PROVE  Feed!Continues(stream'[i - 1], stream'[i])
    <3>1. CASE i <= Len(stream)
      <4>1. i - 1 \in 1 .. Len(stream) /\ i \in 2 .. Len(stream)
            BY <1>1, <3>1, TrySendStream
      <4> QED BY <1>1, <4>1, TrySendStream DEF IInv, Decodable
    <3>2. CASE i = Len(stream) + 1
      <4>1. i - 1 = Len(stream) /\ Len(stream) \in 1 .. Len(stream)
            BY <1>1, <3>2, TrySendStream
      <4>2. stream'[i - 1] = Tip /\ stream'[i] = PacketOf(part)
            BY <1>1, <3>2, <4>1, TrySendStream DEF Tip
      <4> QED BY <2>1, <2>2, <4>1, <4>2
    <3> QED BY <1>1, <3>1, <3>2, TrySendStream
  <2> QED BY <2>3, <2>4 DEF Decodable
<1>2. CASE UNCHANGED stream
      BY <1>2 DEF IInv, Decodable
<1>3. [Next]_vars => TrySend \/ UNCHANGED stream
      BY DEF Next, WorkerStep, ConnStep, Lagged, Skip, Mux, MuxFail, DropRest,
             ConnectionClosed, ControlMessage, Leave, TakeFirst, TakeMore, Flush,
             Gone, PlayRequest, PlayReceive, PlayReply, TeardownRequest,
             TeardownReply, StopSession, CloseSource, Publish, Server, Private, vars
<1> QED BY <1>1, <1>2, <1>3

\* A worker step other than TrySend queues nothing and never takes the next
\* sequence number back.
LEMMA WorkerSilent ==
    ASSUME IInv, WorkerStep, ~TrySend
    PROVE  /\ stream' = stream /\ Tip' = Tip
           /\ NextSeq \in Int /\ NextSeq' \in Int /\ NextSeq <= NextSeq'
           /\ ReadyShut' /\ GateInv' /\ BehindInv'
<1> USE DEF Private, worker, client
<1>0. /\ stream' = stream /\ Tip' = Tip
      /\ pos \in Nat /\ mseq \in Nat /\ Len(frames) \in Nat /\ part \in Nat
      /\ stream # <<>> => Tip \in Packets
  <2>1. stream' = stream
        BY DEF WorkerStep, Lagged, Skip, Mux, MuxFail, DropRest, ConnectionClosed,
               ControlMessage, Leave
  <2> QED BY <2>1, CapAssumption, EmptyByLength DEF IInv, TypeOK, Tip
<1>1. wpc = "sending" => /\ NextSeq \in Int /\ NextSeq < mseq
                         /\ Sending.parts \in Nat
  <2>1. wpc = "sending" => Sending \in Frames
        BY PacketType DEF IInv
  <2> QED BY <1>0, <2>1, CapAssumption, FramesAssumption DEF IInv, SendingInv, NextSeq
<1>2. wpc # "sending" => NextSeq = mseq
      BY DEF NextSeq
<1>3. stream # <<>> => /\ Tip.frame \in Nat /\ Tip.seq \in Nat
                       /\ Tip.frame <= pos - 1 /\ Tip.seq < NextSeq
      BY <1>0 DEF IInv, BehindInv, Packets, Seqs
\* The steps after which the worker is not sending and its gate is shut, or
\* it is over, or nothing of its own has changed.
<1>4. ASSUME wpc' # "sending", pos' \in Nat, pos <= pos',
             mseq' \in Nat, mseq <= mseq',
             waitKey' \/ wpc' = "ended",
             media' = "Ready" => media = "Ready" /\ waitKey'
      PROVE  /\ NextSeq \in Int /\ NextSeq' \in Int /\ NextSeq <= NextSeq'
             /\ ReadyShut' /\ GateInv' /\ BehindInv'
  <2>1. NextSeq' = mseq'  BY <1>4 DEF NextSeq
  <2>2. NextSeq \in Int /\ NextSeq <= mseq  BY <1>0, <1>1, <1>2
  <2>3. NextSeq' \in Int /\ NextSeq <= NextSeq'  BY <1>0, <1>4, <2>1, <2>2
  <2>4. ReadyShut'  BY <1>0, <1>4 DEF IInv, ReadyShut
  <2>5. GateInv'  BY <1>4 DEF GateInv
  <2>6. BehindInv'
        BY <1>0, <1>3, <1>4, <2>2, <2>3 DEF BehindInv
  <2> QED BY <2>2, <2>3, <2>4, <2>5, <2>6
<1>5. CASE Lagged
  <2>1. pos' \in Nat /\ pos <= pos'
        BY <1>0, <1>5, CapAssumption DEF Lagged, Behind
  <2> QED BY <1>0, <1>4, <1>5, <2>1 DEF Lagged
<1>6. CASE Skip
  <2>1. /\ wpc' = "select" /\ pos' = pos + 1 /\ mseq' = mseq
        /\ waitKey' = waitKey /\ media' = "Playing" /\ waitKey
        BY <1>6 DEF Skip, Gated, FrameReady
  <2> QED BY <1>0, <1>4, <2>1
<1>7. CASE MuxFail
      BY <1>0, <1>4, <1>7 DEF MuxFail, IInv, ReadyShut
<1>8. CASE DropRest
      BY <1>0, <1>4, <1>8 DEF DropRest, IInv, SendingInv
<1>9. CASE ConnectionClosed
      BY <1>0, <1>4, <1>9 DEF ConnectionClosed, IInv, SendingInv
<1>10. CASE Leave
      BY <1>0, <1>4, <1>10 DEF Leave, IInv, ReadyShut
<1>11. CASE ControlMessage
  <2>1. /\ wpc = "select" /\ UNCHANGED <<wpc, pos, mseq>>
        /\ \/ media' = "Playing" /\ waitKey'
           \/ UNCHANGED <<media, waitKey>>
        BY <1>11 DEF ControlMessage
  <2>2. NextSeq' = NextSeq /\ NextSeq \in Int
        BY <1>0, <2>1 DEF NextSeq
  <2>3. ReadyShut'  BY <1>0, <2>1 DEF IInv, ReadyShut
  <2>4. GateInv'  BY <1>0, <2>1 DEF IInv, GateInv
  <2>5. BehindInv'  BY <1>0, <2>1, <2>2 DEF IInv, BehindInv
  <2> QED BY <1>0, <2>2, <2>3, <2>4, <2>5
<1>12. CASE Mux
  <2>1. /\ wpc = "select" /\ ~Gated /\ pos' = pos + 1
        /\ mseq' = mseq + frames[pos].parts
        /\ waitKey' = (waitKey /\ media # "Playing")
        /\ wpc' = IF media = "Playing" THEN "sending" ELSE "select"
        /\ part' = 1
        /\ UNCHANGED <<frames, media>>
        /\ FrameReady
        BY <1>12 DEF Mux, FrameReady
  <2>2. frames[pos].parts \in Nat /\ frames[pos].parts >= 1
    <3>1. pos \in 1 .. Len(frames)
          BY <1>0, <2>1, CapAssumption DEF FrameReady, Behind, IInv, TypeOK
    <3>2. frames[pos] \in Frames
          BY <3>1, EmptyByLength DEF IInv, TypeOK
    <3> QED BY <3>2, CapAssumption, FramesAssumption
  <2>3. NextSeq = mseq  BY <1>2, <2>1
  <2>4. CASE media = "Playing"
    <3>1. Sending' = frames[pos]
      <4>1. pos' - 1 = pos  BY <1>0, <2>1
      <4> QED BY <2>1, <4>1 DEF Sending
    <3>2. NextSeq' = mseq
          BY <1>0, <2>1, <2>2, <2>4, <3>1 DEF NextSeq
    <3>3. ReadyShut'  BY <2>1, <2>4 DEF ReadyShut
    <3>4. \/ Sending'.key
          \/ stream' # <<>> /\ Tip'.last /\ Tip'.frame = pos' - 2
      <4>1. CASE waitKey
            BY <2>1, <2>4, <3>1, <4>1 DEF Gated
      <4>2. CASE ~waitKey
        <5>1. stream # <<>> /\ Tip.last /\ Tip.frame = pos - 1
              BY <2>1, <4>2 DEF IInv, GateInv
        <5>2. pos' - 2 = pos - 1  BY <1>0, <2>1
        <5> QED BY <1>0, <5>1, <5>2
      <4> QED BY <4>1, <4>2
    <3>5. GateInv'
          BY <2>1, <2>4, <3>4 DEF GateInv
    <3>6. BehindInv'
          BY <1>0, <1>3, <2>1, <2>3, <3>2 DEF BehindInv
    <3> QED BY <1>0, <2>3, <3>2, <3>3, <3>5, <3>6
  <2>5. CASE media # "Playing"
    <3>1. media = "Ready" /\ waitKey /\ stream = <<>>
          BY <2>5 DEF IInv, TypeOK, ReadyShut
    <3>2. wpc' = "select" /\ waitKey' /\ media' = "Ready"
          BY <2>1, <2>5, <3>1
    <3>3. pos' \in Nat /\ pos <= pos' /\ mseq' \in Nat /\ mseq <= mseq'
          BY <1>0, <2>1, <2>2
    <3> QED BY <1>0, <1>4, <3>1, <3>2, <3>3
  <2> QED BY <2>4, <2>5
<1> QED BY <1>0, <1>5, <1>6, <1>7, <1>8, <1>9, <1>10, <1>11, <1>12 DEF WorkerStep

\* After TrySend the tip is the packet it appended.
LEMMA WorkerQueues ==
    ASSUME IInv, TrySend
    PROVE  /\ ReadyShut' /\ GateInv' /\ BehindInv'
           /\ PacketOf(part).seq = NextSeq /\ NextSeq \in Int
<1>1. /\ Tip' = PacketOf(part) /\ stream' # <<>>
      BY TrySendStream
<1>2. /\ pos \in Nat /\ mseq \in Nat /\ part \in Nat /\ part >= 1
      /\ Sending.parts \in Nat /\ part <= Sending.parts
      /\ media = "Playing" /\ ~waitKey
  <2>1. Sending \in Frames  BY PacketType DEF IInv, TrySend
  <2>2. Sending.parts \in Nat  BY <2>1, CapAssumption, FramesAssumption
  <2>3. pos \in Nat /\ mseq \in Nat /\ part \in Nat /\ part >= 1
        BY CapAssumption, EmptyByLength DEF IInv, TypeOK
  <2> QED BY <2>2, <2>3 DEF IInv, SendingInv, TrySend
<1>3. /\ Tip'.frame = pos - 1 /\ Tip'.part = part
      /\ Tip'.last <=> part = Sending.parts
      /\ Tip'.seq = NextSeq /\ PacketOf(part).seq = NextSeq
      /\ NextSeq = mseq - Sending.parts + part - 1
      BY <1>1 DEF PacketOf, NextSeq, TrySend
<1>4. /\ UNCHANGED <<pos, mseq, media, waitKey>> /\ Sending' = Sending
      /\ wpc = "sending"
      BY DEF TrySend, Sending
<1>5. \/ part = Sending.parts /\ wpc' = "select"
      \/ part # Sending.parts /\ part' = part + 1 /\ wpc' = "sending"
      BY <1>4 DEF TrySend
<1>6. ReadyShut'  BY <1>2, <1>4 DEF ReadyShut
<1>7. GateInv'  BY <1>1, <1>2, <1>3, <1>4, <1>5 DEF GateInv
<1>8. NextSeq' = NextSeq + 1
      BY <1>2, <1>3, <1>4, <1>5 DEF NextSeq
<1>9. BehindInv'
      BY <1>1, <1>2, <1>3, <1>4, <1>5, <1>8 DEF BehindInv
<1> QED BY <1>2, <1>3, <1>6, <1>7, <1>9

-----------------------------------------------------------------------------
(* What PLAY and TEARDOWN rely on.                                            *)

\* The stream's first sequence number, if it has one, never changes, and the
\* next one only grows: what was not ahead of the stream stays so.
LEMMA NotAheadKept ==
    ASSUME IInv, [Next]_vars
    PROVE  \A seq \in Seqs : NotAhead(seq) => NotAhead(seq)'
<1>1. Seqs \subseteq Nat
      BY DEF Seqs
<1>2. CASE TrySend
  <2>1. /\ PacketOf(part).seq = NextSeq /\ NextSeq \in Int
        /\ stream = <<>> => stream'[1] = PacketOf(part)
        /\ stream # <<>> => stream'[1] = stream[1]
        /\ stream' # <<>>
    <3>1. stream = <<>> <=> Len(stream) = 0
          BY EmptyByLength DEF IInv, TypeOK
    <3> QED BY <1>2, <3>1, WorkerQueues, TrySendStream
  <2> QED BY <1>1, <2>1 DEF NotAhead
<1>3. CASE WorkerStep /\ ~TrySend
      BY <1>1, <1>3, WorkerSilent DEF NotAhead
<1>4. CASE ConnStep \/ StopSession \/ CloseSource \/ \E f \in Frames : Publish(f)
      BY <1>4, IdleKeeps DEF NotAhead
<1>5. CASE UNCHANGED vars
      BY <1>5 DEF vars, worker, NotAhead, NextSeq, Sending
<1> QED BY <1>2, <1>3, <1>4, <1>5 DEF Next

\* Worker, queue and source: no media before the first PLAY response is due.
LEMMA SilentStep ==
    ASSUME IInv, [Next]_vars
    PROVE  SilentInv' /\ TakenInv'
<1> USE DEF worker, client
<1>1. control \in Seq({"StreamState", "Play"})
      BY DEF IInv, TypeOK
<1>2. CASE ControlMessage
  <2>1. /\ control # <<>> /\ control' = Tail(control)
        /\ UNCHANGED <<conn, info, taken>>
        /\ Head(control) # "Play" => media' = media
        BY <1>2 DEF ControlMessage
  <2>2. /\ 1 \in 1 .. Len(control) /\ Head(control) = control[1]
        /\ \A i \in 1 .. Len(Tail(control)) :
              i + 1 \in 1 .. Len(control) /\ Tail(control)[i] = control[i + 1]
        BY <1>1, <2>1
  <2>3. SilentInv'  BY <2>1, <2>2 DEF IInv, SilentInv
  <2>4. TakenInv'  BY <2>1 DEF IInv, TakenInv
  <2> QED BY <2>3, <2>4
<1>3. CASE UNCHANGED <<media, control, client>>
      BY <1>3 DEF IInv, SilentInv, TakenInv
<1>4. WorkerStep \/ CloseSource \/ StopSession \/ (\E f \in Frames : Publish(f))
         => ControlMessage \/ UNCHANGED <<media, control, client>>
      BY DEF WorkerStep, Lagged, Skip, Mux, MuxFail, TrySend, DropRest,
             ConnectionClosed, Leave, Private, CloseSource, StopSession,
             Publish, Server
<1>5. CASE TakeFirst \/ TakeMore
  <2>1. info # None
    <3>1. SUFFICES ASSUME info = None  PROVE FALSE
          OBVIOUS
    <3>2. media = "Ready"
          BY <1>5, <3>1 DEF TakeFirst, TakeMore, IInv, SilentInv
    <3>3. Len(stream) = 0
          BY <3>2, EmptyByLength DEF IInv, ReadyShut, TypeOK
    <3> QED BY <1>5, <3>1, <3>3 DEF TakeFirst, TakeMore, IInv, TakenInv
  <2> QED BY <1>5, <2>1 DEF TakeFirst, TakeMore, SilentInv, TakenInv
<1>6. CASE Flush \/ TeardownRequest \/ TeardownReply
      BY <1>6 DEF Flush, TeardownRequest, TeardownReply, Server, IInv, SilentInv,
                  TakenInv
<1>7. CASE Gone
      BY <1>7 DEF Gone, IInv, SilentInv, TakenInv
<1>8. CASE PlayRequest
  <2>1. /\ conn = "select" /\ UNCHANGED <<media, info, taken>>
        /\ control' = control \/ control' = Append(control, "StreamState")
        BY <1>8 DEF PlayRequest, Server
  <2>2. \A i \in 1 .. Len(control') :
           \/ control'[i] = "StreamState"
           \/ i \in 1 .. Len(control) /\ control'[i] = control[i]
    <3>1. CASE control' = control
          BY <3>1
    <3>2. CASE control' = Append(control, "StreamState")
          BY <1>1, <3>2, AppendFacts, EmptyByLength
    <3> QED BY <2>1, <3>1, <3>2
  <2>3. SilentInv'  BY <2>1, <2>2 DEF IInv, SilentInv
  <2> QED BY <2>1, <2>3 DEF IInv, TakenInv
<1>9. CASE PlayReceive
  <2>1. /\ conn = "awaiting" /\ UNCHANGED <<media, info, taken>>
        /\ conn' = "replying" \/ control' = control
        BY <1>9 DEF PlayReceive, Server
  <2> QED BY <2>1 DEF IInv, SilentInv, TakenInv
<1>10. CASE PlayReply
  <2>1. info' # None
        BY <1>10 DEF PlayReply, IInv, ReplyInv
  <2> QED BY <2>1 DEF SilentInv, TakenInv
<1>11. CASE UNCHANGED vars
      BY <1>3, <1>11 DEF vars
<1> QED BY <1>2, <1>3, <1>4, <1>5, <1>6, <1>7, <1>8, <1>9, <1>10, <1>11
        DEF Next, ConnStep

\* A PLAY is told a sequence number that is not ahead of its stream.
LEMMA ReplyStep ==
    ASSUME IInv, [Next]_vars
    PROVE  ReplyInv'
<1> USE DEF worker, client
<1>1. /\ reply # None => reply \in Seqs
      /\ info # None => info \in Seqs
      /\ conn = "replying" => reply # None
      BY DEF IInv, TypeOK, ReplyInv
<1>2. /\ reply # None /\ reply' = reply /\ NotAhead(reply) => NotAhead(reply)'
      /\ info # None /\ info' = info /\ NotAhead(info) => NotAhead(info)'
      BY <1>1, NotAheadKept DEF NotAhead
<1>3. ASSUME UNCHANGED <<reply, info, conn>>
      PROVE  ReplyInv'
      BY <1>2, <1>3 DEF IInv, ReplyInv
<1>4. CASE Mux \/ MuxFail
  <2>1. /\ UNCHANGED <<conn, info, stream>>
        /\ wpc' = "sending" => media = "Playing"
        BY <1>4 DEF Mux, MuxFail
  <2>4. UNCHANGED reply \/ (conn = "awaiting" /\ reply' = mseq')
    <3>1. CASE Mux
          BY <3>1 DEF Mux, AnswerState
    <3>2. CASE MuxFail
      <4>1. mseq' = mseq /\ AnswerState(mseq)
            BY <3>2 DEF MuxFail
      <4> QED BY <4>1 DEF AnswerState
    <3> QED BY <1>4, <3>1, <3>2
  <2>2. CASE UNCHANGED reply
        BY <1>3, <2>1, <2>2
  <2>3. CASE conn = "awaiting" /\ reply' = mseq'
    <3>1. info # None => NotAhead(info)'
          BY <1>2, <2>1 DEF IInv, ReplyInv
    <3>2. ASSUME info = None  PROVE NotAhead(reply)'
      <4>1. media = "Ready" /\ stream = <<>>
            BY <2>3, <3>2 DEF IInv, SilentInv, ReadyShut
      <4>2. wpc' # "sending" /\ stream' = <<>>
            BY <2>1, <4>1
      <4>3. NextSeq' = mseq'  BY <4>2 DEF NextSeq
      <4>4. mseq' \in Nat  BY TypeStep DEF IInv, TypeOK
      <4> QED BY <2>3, <4>2, <4>3, <4>4 DEF NotAhead
    <3> QED BY <2>1, <2>3, <3>1, <3>2 DEF ReplyInv
  <2> QED BY <2>2, <2>3, <2>4
<1>5. [Next]_vars => \/ Mux \/ MuxFail \/ UNCHANGED <<reply, info, conn>>
                     \/ ConnStep
      BY DEF Next, WorkerStep, Lagged, Skip, TrySend, DropRest, ConnectionClosed,
             ControlMessage, Leave, Private, CloseSource, StopSession, Publish,
             vars
<1>6. CASE TakeFirst \/ TakeMore \/ Flush \/ Gone \/ TeardownRequest
           \/ TeardownReply
  <2>1. /\ UNCHANGED <<reply, info>>
        /\ conn' \notin {"awaiting", "replying"}
        BY <1>6 DEF TakeFirst, TakeMore, Flush, Gone, TeardownRequest,
                    TeardownReply
  <2> QED BY <1>2, <2>1 DEF IInv, ReplyInv
<1>7. CASE PlayRequest
  <2>1. reply' = None /\ info' = info /\ conn' # "replying"
        BY <1>7 DEF PlayRequest
  <2> QED BY <1>2, <2>1 DEF IInv, ReplyInv
<1>8. CASE PlayReceive
  <2>1. /\ reply' = reply /\ reply # None /\ info' = info /\ conn = "awaiting"
        BY <1>8 DEF PlayReceive
  <2> QED BY <1>2, <2>1 DEF IInv, ReplyInv
<1>9. CASE PlayReply
  <2>1. /\ conn = "replying" /\ conn' = "select" /\ reply' = reply
        /\ info' = IF info = None THEN reply ELSE info
        BY <1>9 DEF PlayReply
  <2>2. CASE info = None
    <3>1. NotAhead(reply)' /\ info' = reply
          BY <1>1, <1>2, <2>1, <2>2 DEF IInv, ReplyInv
    <3>2. NotAhead(info)'
          BY <2>1, <3>1 DEF NotAhead
    <3> QED BY <1>1, <2>1, <3>1, <3>2 DEF ReplyInv
  <2>3. CASE info # None
        BY <1>2, <2>1, <2>3 DEF IInv, ReplyInv
  <2> QED BY <2>2, <2>3
<1> QED BY <1>3, <1>4, <1>5, <1>6, <1>7, <1>8, <1>9 DEF ConnStep

\* A session that is over stays over, and a TEARDOWN is answered only then.
LEMMA TornStep ==
    ASSUME IInv, [Next]_vars
    PROVE  TornInv'
<1>1. CASE TeardownReply
      BY <1>1 DEF TeardownReply, Server, worker, TornInv
<1>2. CASE UNCHANGED torn /\ (wpc = "ended" => wpc' = "ended")
      BY <1>2 DEF IInv, TornInv
<1>3. [Next]_vars => \/ TeardownReply
                     \/ UNCHANGED torn /\ (wpc = "ended" => wpc' = "ended")
      BY DEF Next, WorkerStep, ConnStep, Lagged, Skip, Mux, MuxFail, TrySend,
             DropRest, ConnectionClosed, ControlMessage, Leave, FrameReady,
             TakeFirst, TakeMore, Flush, Gone, PlayRequest, PlayReceive,
             PlayReply, TeardownRequest, StopSession, CloseSource, Publish,
             Server, Private, vars, worker, client
<1> QED BY <1>1, <1>2, <1>3

-----------------------------------------------------------------------------
(* The invariant and what follows from it.                                   *)

\* The initial state satisfies the invariant.
LEMMA InitInv ==
    ASSUME Init
    PROVE  IInv
<1>1. TypeOK /\ SendingInv
      BY TypeInit
<1>2. \A i \in 1 .. Len(control) : control[i] # "Play"
      BY DEF Init
<1>3. Decodable /\ stream = <<>> /\ wpc = "select" /\ waitKey
      BY DEF Init, Decodable
<1>4. ReadyShut /\ GateInv /\ BehindInv
      BY <1>3 DEF ReadyShut, GateInv, BehindInv
<1>5. SilentInv /\ TakenInv /\ ReplyInv /\ TornInv
      BY <1>2 DEF Init, SilentInv, TakenInv, ReplyInv, TornInv
<1> QED BY <1>1, <1>3, <1>4, <1>5 DEF IInv

\* Every step keeps it.
LEMMA InvStep ==
    ASSUME IInv, [Next]_vars
    PROVE  IInv'
<1>1. TypeOK' /\ SendingInv'
      BY TypeStep DEF IInv
<1>2. ReadyShut' /\ GateInv' /\ BehindInv'
  <2>1. CASE TrySend
        BY <2>1, WorkerQueues
  <2>2. CASE WorkerStep /\ ~TrySend
        BY <2>2, WorkerSilent
  <2>3. CASE ConnStep \/ StopSession \/ CloseSource
             \/ \E f \in Frames : Publish(f)
        BY <2>3, IdleKeeps
  <2>4. CASE UNCHANGED vars
        BY <2>4 DEF vars, worker, IInv, ReadyShut, GateInv, BehindInv, Tip,
                    NextSeq, Sending
  <2> QED BY <2>1, <2>2, <2>3, <2>4 DEF Next
<1>3. Decodable'  BY DecodableStep
<1>4. SilentInv' /\ TakenInv'  BY SilentStep
<1>5. ReplyInv'  BY ReplyStep
<1>6. TornInv'  BY TornStep
<1> QED BY <1>1, <1>2, <1>3, <1>4, <1>5, <1>6 DEF IInv

\* The invariant holds in every reachable state.
THEOREM SessionInductive == Spec => []IInv
<1>1. Init => IInv  BY InitInv
<1>2. IInv /\ [Next]_vars => IInv'  BY InvStep
<1> QED BY <1>1, <1>2, PTL DEF Spec

\* Through lags, full queues and repeated PLAYs, what the media queue accepts
\* (session/mod.rs run_tcp_interleaved) can be decoded from its first packet on.
THEOREM SessionDecodable == Spec => []Decodable
<1>1. IInv => Decodable  BY DEF IInv
<1> QED BY <1>1, SessionInductive, PTL

\* The RTP-Info of the first positive PLAY response (handler.rs) is never ahead
\* of the first packet of the stream.
THEOREM SessionRtpInfo == Spec => []RtpInfoNotAhead
<1>1. IInv => RtpInfoNotAhead
      BY DEF IInv, ReplyInv, NotAhead, RtpInfoNotAhead
<1> QED BY <1>1, SessionInductive, PTL

\* Once TEARDOWN has been answered (Session::teardown, Task::stop) the media
\* queue accepts nothing more.
THEOREM SessionTeardown == Spec => NoMediaAfterTeardown
<1>1. IInv /\ [Next]_vars => [torn => UNCHANGED stream]_vars
  <2>1. [Next]_vars => TrySend \/ UNCHANGED stream
        BY DEF Next, WorkerStep, ConnStep, Lagged, Skip, Mux, MuxFail, DropRest,
               ConnectionClosed, ControlMessage, Leave, TakeFirst, TakeMore,
               Flush, Gone, PlayRequest, PlayReceive, PlayReply,
               TeardownRequest, TeardownReply, StopSession, CloseSource, Publish,
               Server, Private, vars
  <2>2. IInv /\ TrySend => ~torn
        BY DEF IInv, TornInv, TrySend
  <2> QED BY <2>1, <2>2
<1> QED BY <1>1, SessionInductive, PTL DEF Spec, NoMediaAfterTeardown

-----------------------------------------------------------------------------
(* What the connection writes implements ClientFeed.                         *)

\* The first n elements of a sequence.
LEMMA FirstOf ==
    ASSUME NEW S, NEW s \in Seq(S), NEW n \in 0 .. Len(s)
    PROVE  /\ SubSeq(s, 1, n) \in Seq(S)
           /\ Len(SubSeq(s, 1, n)) = n
           /\ \A i \in 1 .. n : SubSeq(s, 1, n)[i] = s[i]
<1>1. \A i \in 1 .. n : s[i] \in S
      BY EmptyByLength
<1>2. 1 \in Int /\ n \in Int /\ Len(s) \in Nat
      BY EmptyByLength
<1>3. /\ SubSeq(s, 1, n) \in Seq(S)
      /\ Len(SubSeq(s, 1, n)) = IF 1 <= n THEN n - 1 + 1 ELSE 0
      /\ \A i \in 1 .. n - 1 + 1 : SubSeq(s, 1, n)[i] = s[1 + i - 1]
      BY <1>1, <1>2, SubSeqProperties
<1> QED BY <1>2, <1>3

\* What has been taken out does not change when the queue accepts more.
LEMMA FirstOfAppend ==
    ASSUME NEW S, NEW s \in Seq(S), NEW e \in S, NEW n \in 0 .. Len(s)
    PROVE  SubSeq(Append(s, e), 1, n) = SubSeq(s, 1, n)
<1> DEFINE t == Append(s, e)
<1>1. /\ t \in Seq(S) /\ Len(t) = Len(s) + 1 /\ Len(s) \in Nat
      /\ \A i \in 1 .. Len(s) : t[i] = s[i]
      BY AppendFacts, EmptyByLength
<1>2. n \in 0 .. Len(t)  BY <1>1
<1> HIDE DEF t
<1>3. /\ SubSeq(t, 1, n) \in Seq(S) /\ Len(SubSeq(t, 1, n)) = n
      /\ \A i \in 1 .. n : SubSeq(t, 1, n)[i] = t[i]
      BY <1>1, <1>2, FirstOf
<1>4. /\ SubSeq(s, 1, n) \in Seq(S) /\ Len(SubSeq(s, 1, n)) = n
      /\ \A i \in 1 .. n : SubSeq(s, 1, n)[i] = s[i]
      BY FirstOf
<1>5. \A i \in 1 .. n : SubSeq(t, 1, n)[i] = SubSeq(s, 1, n)[i]
      BY <1>1, <1>3, <1>4
<1>6. SubSeq(t, 1, n) = SubSeq(s, 1, n)
      BY <1>3, <1>4, <1>5, SeqEqual
<1> QED BY <1>6 DEF t

\* Taking one more packet appends it to what has been written.
LEMMA FirstOfNext ==
    ASSUME NEW S, NEW s \in Seq(S), NEW n \in Nat, n < Len(s)
    PROVE  SubSeq(s, 1, n + 1) = Append(SubSeq(s, 1, n), s[n + 1])
<1>1. Len(s) \in Nat /\ n \in 0 .. Len(s) /\ n + 1 \in 0 .. Len(s)
      /\ n + 1 \in 1 .. Len(s)
      BY EmptyByLength
<1>2. s[n + 1] \in S  BY <1>1, EmptyByLength
<1> DEFINE u == SubSeq(s, 1, n)
           v == SubSeq(s, 1, n + 1)
           w == Append(u, s[n + 1])
<1>3. u \in Seq(S) /\ Len(u) = n /\ \A i \in 1 .. n : u[i] = s[i]
      BY <1>1, FirstOf
<1>4. v \in Seq(S) /\ Len(v) = n + 1 /\ \A i \in 1 .. n + 1 : v[i] = s[i]
      BY <1>1, FirstOf
<1> HIDE DEF u, v
<1>5. /\ w \in Seq(S) /\ Len(w) = n + 1
      /\ \A i \in 1 .. n : w[i] = u[i]
      /\ w[n + 1] = s[n + 1]
      BY <1>2, <1>3, AppendFacts
<1> HIDE DEF w
<1>6. \A i \in 1 .. n + 1 : v[i] = w[i]
      BY <1>3, <1>4, <1>5
<1>7. v = w  BY <1>4, <1>5, <1>6, SeqEqual
<1> QED BY <1>7 DEF u, v, w

\* A packet taken out of the media queue is one the client can go on with.
LEMMA TakeDelivers ==
    ASSUME IInv, TakeFirst \/ TakeMore
    PROVE  \E p \in Packets : Feed!Deliver(p)
<1> DEFINE p == stream[taken + 1]
           wire == SubSeq(stream, 1, taken)
<1>1. /\ stream \in Seq(Packets) /\ Len(stream) \in Nat
      /\ taken \in Nat /\ taken < Len(stream)
      BY EmptyByLength DEF IInv, TypeOK, TakeFirst, TakeMore
<1>2. taken' = taken + 1 /\ stream' = stream /\ info' = info
      BY DEF TakeFirst, TakeMore, Server
<1>3. p \in Packets
      BY <1>1, EmptyByLength
<1>4. SubSeq(stream, 1, taken)' = Append(wire, p)
      BY <1>1, <1>2, FirstOfNext
<1>5. /\ wire \in Seq(Packets) /\ Len(wire) = taken
      /\ \A i \in 1 .. taken : wire[i] = stream[i]
      BY <1>1, FirstOf
<1>6. info # None
  <2>1. SUFFICES ASSUME info = None  PROVE FALSE
        OBVIOUS
  <2>2. media = "Ready"
        BY <2>1 DEF TakeFirst, TakeMore, IInv, SilentInv
  <2>3. Len(stream) = 0
        BY <2>2, EmptyByLength DEF IInv, ReadyShut, TypeOK
  <2> QED BY <1>1, <2>3
<1> HIDE DEF wire, p
<1>7. Feed!CanFollow(wire, p)
  <2>1. wire = <<>> <=> taken = 0
        BY <1>1, <1>5, EmptyByLength
  <2>2. CASE taken = 0
    <3>1. Feed!Starts(stream[1])
          BY <1>1, EmptyByLength DEF IInv, Decodable
    <3> QED BY <2>1, <2>2, <3>1 DEF Feed!CanFollow, p
  <2>3. CASE taken # 0
    <3>1. taken + 1 \in 2 .. Len(stream) /\ (taken + 1) - 1 = taken
          BY <1>1, <2>3
    <3>2. Feed!Continues(stream[taken], stream[taken + 1])
          BY <3>1 DEF IInv, Decodable
    <3>3. wire[Len(wire)] = stream[taken]
          BY <1>1, <1>5, <2>3
    <3> QED BY <2>1, <2>3, <3>2, <3>3 DEF Feed!CanFollow, p
  <2> QED BY <2>2, <2>3
<1>8. Feed!Deliver(p)
      BY <1>2, <1>4, <1>6, <1>7 DEF Feed!Deliver, wire
<1> QED BY <1>3, <1>8

\* A step that takes nothing and answers nothing is not seen by the client.
LEMMA OtherStutters ==
    ASSUME IInv, [Next]_vars, taken' = taken, info' = info
    PROVE  UNCHANGED Feed!vars
<1>1. /\ stream \in Seq(Packets) /\ taken \in 0 .. Len(stream)
      BY DEF IInv, TypeOK
<1>2. CASE TrySend
  <2>1. stream' = Append(stream, PacketOf(part)) /\ PacketOf(part) \in Packets
        BY <1>2, TrySendStream DEF TrySend
  <2>2. SubSeq(stream', 1, taken) = SubSeq(stream, 1, taken)
        BY <1>1, <2>1, FirstOfAppend
  <2> QED BY <2>2 DEF Feed!vars
<1>3. CASE UNCHANGED stream
      BY <1>3 DEF Feed!vars
<1>4. TrySend \/ UNCHANGED stream
      BY DEF Next, WorkerStep, ConnStep, Lagged, Skip, Mux, MuxFail, DropRest,
             ConnectionClosed, ControlMessage, Leave, TakeFirst, TakeMore, Flush,
             Gone, PlayRequest, PlayReceive, PlayReply, TeardownRequest,
             TeardownReply, StopSession, CloseSource, Publish, Server, Private, vars
<1> QED BY <1>2, <1>3, <1>4

\* Session and connection together give the client a ClientFeed: the response
\* first, then media that starts at a keyframe and has no hole it cannot decode
\* across.
THEOREM SessionImplementsFeed == Spec => ImplementsFeed
<1>1. Init => Feed!Init
  <2>1. ASSUME Init  PROVE SubSeq(stream, 1, taken) = <<>> /\ ~(info # None)
    <3>1. stream = <<>> /\ taken = 0 /\ info = None
          BY <2>1 DEF Init
    <3> QED BY <3>1, SubSeqEmpty
  <2> QED BY <2>1 DEF Feed!Init
<1>2. IInv /\ [Next]_vars => [Feed!Next]_Feed!vars
  <2> SUFFICES ASSUME IInv, [Next]_vars
               PROVE  Feed!Next \/ UNCHANGED Feed!vars
      OBVIOUS
  <2>1. CASE TakeFirst \/ TakeMore
        BY <2>1, TakeDelivers DEF Feed!Next
  <2>2. CASE PlayReply
    <3>1. /\ UNCHANGED <<taken, stream>>
          /\ info' # None
          BY <2>2 DEF PlayReply, Server, IInv, ReplyInv
    <3>2. Feed!Reply
          BY <3>1 DEF Feed!Reply
    <3> QED BY <3>2 DEF Feed!Next
  <2>3. TakeFirst \/ TakeMore \/ PlayReply \/ UNCHANGED <<taken, info>>
        BY DEF Next, WorkerStep, ConnStep, Lagged, Skip, Mux, MuxFail, DropRest,
               TrySend, ConnectionClosed, ControlMessage, Leave, Flush, Gone,
               PlayRequest, PlayReceive, TeardownRequest, TeardownReply,
               StopSession, CloseSource, Publish, Private, vars, client
  <2>4. CASE UNCHANGED <<taken, info>>
        BY <2>4, OtherStutters
  <2> QED BY <2>1, <2>2, <2>3, <2>4
<1> QED BY <1>1, <1>2, SessionInductive, PTL DEF Spec, ImplementsFeed, Feed!Spec

-----------------------------------------------------------------------------
(* What play and the worker say to each other implements StreamStateQuery.   *)

\* The control channel holds the question of the PLAY that waits, the Play of
\* the one before, or both; the answer comes after the question has been read.
Talk == \/ conn # "awaiting" /\ ~needState /\ control \in {<<>>, <<"Play">>}
        \/ /\ conn = "awaiting" /\ ~needState /\ reply = None
           /\ control \in {<<"StreamState">>, <<"Play", "StreamState">>}
        \/ /\ conn = "awaiting" /\ control = <<>>
           /\ needState <=> reply = None

HasPlay(q) == \E k \in DOMAIN q : q[k] = "Play"

\* The channels there are, and where the Play messages are in them.
LEMMA Channels ==
    /\ ~HasPlay(<<>>) /\ ~HasPlay(<<"StreamState">>)
    /\ HasPlay(<<"Play">>) /\ HasPlay(<<"Play", "StreamState">>)
    /\ <<>> \notin {<<"StreamState">>, <<"Play", "StreamState">>}
    /\ <<"StreamState">> \notin {<<"Play">>, <<"Play", "StreamState">>}
<1>1. ~HasPlay(<<>>)  BY DEF HasPlay
<1>2. ~HasPlay(<<"StreamState">>)  BY DEF HasPlay
<1>3. HasPlay(<<"Play">>)
  <2>1. 1 \in DOMAIN <<"Play">> /\ <<"Play">>[1] = "Play"  OBVIOUS
  <2> QED BY <2>1 DEF HasPlay
<1>4. HasPlay(<<"Play", "StreamState">>)
  <2>1. 1 \in DOMAIN <<"Play", "StreamState">> /\ <<"Play", "StreamState">>[1] = "Play"
        OBVIOUS
  <2> QED BY <2>1 DEF HasPlay
<1>5. <<>> \notin {<<"StreamState">>, <<"Play", "StreamState">>}
      OBVIOUS
<1>6. <<"StreamState">> \notin {<<"Play">>, <<"Play", "StreamState">>}
      OBVIOUS
<1> QED BY <1>1, <1>2, <1>3, <1>4, <1>5, <1>6

\* What is appended to a channel, and what reading it leaves.
LEMMA ChannelAppends ==
    /\ Append(<<>>, "Play") = <<"Play">>
    /\ Append(<<>>, "StreamState") = <<"StreamState">>
    /\ Append(<<"Play">>, "StreamState") = <<"Play", "StreamState">>
<1>1. Append(<<>>, "Play") = <<"Play">>  OBVIOUS
<1>2. Append(<<>>, "StreamState") = <<"StreamState">>  OBVIOUS
<1>3. Append(<<"Play">>, "StreamState") = <<"Play", "StreamState">>
  <2> DEFINE a == Append(<<"Play">>, "StreamState")
             b == <<"Play", "StreamState">>
             S == {"Play", "StreamState"}
  <2>1. a \in Seq(S) /\ Len(a) = 2  OBVIOUS
  <2>2. a[1] = "Play" /\ a[2] = "StreamState"  OBVIOUS
  <2>3. b \in Seq(S) /\ Len(b) = 2  OBVIOUS
  <2>4. b[1] = "Play" /\ b[2] = "StreamState"  OBVIOUS
  <2> HIDE DEF a, b, S
  <2>5. \A i \in 1 .. Len(a) : a[i] = b[i]
        BY <2>1, <2>2, <2>4
  <2>6. a = b  BY <2>1, <2>3, <2>5, SeqEqual
  <2> QED BY <2>6 DEF a, b
<1> QED BY <1>1, <1>2, <1>3

LEMMA ChannelReads ==
    /\ Head(<<"Play">>) = "Play" /\ Tail(<<"Play">>) = <<>>
    /\ Head(<<"StreamState">>) = "StreamState" /\ Tail(<<"StreamState">>) = <<>>
    /\ Head(<<"Play", "StreamState">>) = "Play"
    /\ Tail(<<"Play", "StreamState">>) = <<"StreamState">>
<1>1. Head(<<"Play">>) = "Play" /\ Tail(<<"Play">>) = <<>>  OBVIOUS
<1>2. Head(<<"StreamState">>) = "StreamState" /\ Tail(<<"StreamState">>) = <<>>
      OBVIOUS
<1>3. /\ Head(<<"Play", "StreamState">>) = "Play"
      /\ Tail(<<"Play", "StreamState">>) = <<"StreamState">>
      OBVIOUS
<1> QED BY <1>1, <1>2, <1>3

QueryStep == [Query!Next]_(Query!vars)

\* Neither side says anything, and the worker lives on as it did.
LEMMA QuietTalk ==
    ASSUME Talk, UNCHANGED <<needState, control>>, Life' = Life,
           conn' = "awaiting" <=> conn = "awaiting",
           conn = "awaiting" => reply' = reply
    PROVE  Talk' /\ QueryStep
<1>1. Asking' = Asking /\ Told' = Told
      BY DEF Asking, Told
<1> QED BY <1>1 DEF Talk, QueryStep, Query!vars

\* A frame that is muxed, or that the muxer fails on, answers what is owed.
LEMMA MuxTalk ==
    ASSUME IInv, IInv', Talk, Mux \/ MuxFail
    PROVE  Talk' /\ QueryStep
<1> USE DEF worker, client
<1>1. /\ UNCHANGED <<conn, control, media>> /\ wpc = "select"
      /\ wpc' \in {"select", "sending", "ended"}
      /\ \E q \in {mseq, mseq'} : AnswerState(q)
      BY DEF Mux, MuxFail, FrameReady
<1>2. PICK q \in {mseq, mseq'} : AnswerState(q)
      BY <1>1
<1>3. q # None
      BY <1>2, CapAssumption DEF IInv, TypeOK
<1>4. Life # "over" /\ Life' \in {Life, "over"} /\ Told' = Told
      BY <1>1 DEF Life, Told
<1>5. CASE needState
  <2>1. /\ conn = "awaiting" /\ reply = None /\ control = <<>>
        BY <1>5 DEF Talk
  <2>2. ~needState' /\ reply' = q
        BY <1>2, <1>5, <2>1 DEF AnswerState
  <2>3. Asking = "owed" /\ Asking' = "answered"
        BY <1>1, <1>3, <1>5, <2>1, <2>2 DEF Asking
  <2>4. QueryStep
        BY <1>4, <2>3 DEF QueryStep, Query!Next, Query!Answer, Query!Alive
  <2>5. Talk'
        BY <1>1, <1>3, <2>1, <2>2 DEF Talk
  <2> QED BY <2>4, <2>5
<1>6. CASE ~needState
  <2>1. reply' = reply /\ ~needState'
        BY <1>2, <1>6 DEF AnswerState
  <2>2. Asking' = Asking
        BY <1>1, <1>6, <2>1 DEF Asking
  <2>3. Talk'
        BY <1>1, <1>6, <2>1 DEF Talk
  <2>4. QueryStep
        BY <1>4, <2>2 DEF QueryStep, Query!Next, Query!End, Query!Alive, Query!vars
  <2> QED BY <2>3, <2>4
<1> QED BY <1>5, <1>6

\* The worker reads the question, or the Play of the PLAY before.
LEMMA ControlTalk ==
    ASSUME Talk, ControlMessage
    PROVE  Talk' /\ QueryStep
<1> USE DEF client
<1>1. /\ UNCHANGED <<conn, reply, wpc>> /\ wpc = "select" /\ control # <<>>
      /\ control' = Tail(control)
      /\ Head(control) = "Play" => media' = "Playing" /\ needState' = needState
      /\ Head(control) # "Play" => media' = media /\ needState' = TRUE
      BY DEF ControlMessage
<1>2. Life # "over" /\ Told = HasPlay(control) /\ Told' = HasPlay(control')
      BY <1>1 DEF Life, Told, HasPlay
<1>3. ~needState
      BY <1>1 DEF Talk
<1>4. CASE control \in {<<"Play">>, <<"Play", "StreamState">>}
  <2>1. /\ Head(control) = "Play" /\ HasPlay(control)
        /\ control = <<"Play">> => control' = <<>>
        /\ control = <<"Play", "StreamState">> => control' = <<"StreamState">>
        BY <1>1, <1>4, ChannelReads, Channels
  <2>2. Told /\ ~Told'
        BY <1>2, <1>4, <2>1, Channels
  <2>3. Asking' = Asking /\ Life' = "playing"
        BY <1>1, <2>1 DEF Asking, Life
  <2>4. QueryStep
    <3>1. Told' = FALSE  BY <2>2 DEF Told
    <3> QED
        BY <1>2, <2>2, <2>3, <3>1 DEF QueryStep, Query!Next, Query!Play, Query!Alive
  <2>5. Talk'
    <3>1. CASE conn # "awaiting"
      <4>1. control = <<"Play">>
            BY <1>4, <3>1, Channels DEF Talk
      <4> QED BY <1>1, <2>1, <3>1, <4>1 DEF Talk
    <3>2. CASE conn = "awaiting"
      <4>1. control \in {<<"StreamState">>, <<"Play", "StreamState">>} /\ reply = None
            BY <1>1, <3>2 DEF Talk
      <4>2. control' = <<"StreamState">>
            BY <1>4, <2>1, <4>1, Channels
      <4> QED BY <1>1, <1>3, <2>1, <3>2, <4>1, <4>2 DEF Talk
    <3> QED BY <3>1, <3>2
  <2> QED BY <2>4, <2>5
<1>5. CASE control = <<"StreamState">>
  <2>1. Head(control) # "Play" /\ control' = <<>>
        BY <1>1, <1>5, ChannelReads
  <2>2. ~Told /\ ~Told'
        BY <1>2, <1>5, <2>1, Channels
  <2>3. conn = "awaiting" /\ reply = None
        BY <1>1, <1>5, Channels DEF Talk
  <2>4. Asking = "asked" /\ Asking' = "owed" /\ Life' = Life
        BY <1>1, <1>3, <2>1, <2>3 DEF Asking, Life
  <2>5. QueryStep
    <3>1. Told' = Told  BY <2>2 DEF Told
    <3> QED
        BY <1>2, <2>2, <2>4, <3>1 DEF QueryStep, Query!Next, Query!Read, Query!Alive
  <2>6. Talk'
        BY <1>1, <2>1, <2>3 DEF Talk
  <2> QED BY <2>5, <2>6
<1> QED BY <1>1, <1>4, <1>5 DEF Talk

\* play asks, unless the worker is over.
LEMMA RequestTalk ==
    ASSUME Talk, PlayRequest
    PROVE  Talk' /\ QueryStep
<1> USE DEF Server, worker
<1>1. /\ conn = "select" /\ reply' = None /\ UNCHANGED <<needState, wpc, media>>
      /\ IF wpc = "ended" THEN UNCHANGED <<conn, control>>
         ELSE conn' = "awaiting" /\ control' = Append(control, "StreamState")
      BY DEF PlayRequest
<1>2. Life' = Life
      BY <1>1 DEF Life
<1>3. CASE wpc = "ended"
      BY <1>1, <1>2, <1>3, QuietTalk
<1>4. CASE wpc # "ended"
  <2>1. ~needState /\ control \in {<<>>, <<"Play">>}
        BY <1>1 DEF Talk
  <2>2. /\ control = <<>> => control' = <<"StreamState">>
        /\ control = <<"Play">> => control' = <<"Play", "StreamState">>
        BY <1>1, <1>4, ChannelAppends
  <2>3. Talk'
        BY <1>1, <1>4, <2>1, <2>2 DEF Talk
  <2>4. Told' = Told
    <3>1. Told = HasPlay(control) /\ Told' = HasPlay(control')
          BY DEF Told, HasPlay
    <3>2. HasPlay(control') <=> HasPlay(control)
          BY <2>1, <2>2, Channels
    <3> QED BY <3>1, <3>2 DEF HasPlay
  <2>5. Asking = "none" /\ Asking' = "asked" /\ Life # "over"
        BY <1>1, <1>4, <2>1 DEF Asking, Life
  <2> QED BY <1>2, <2>3, <2>4, <2>5
          DEF QueryStep, Query!Next, Query!Ask, Query!Alive
<1> QED BY <1>3, <1>4

\* With its answer play tells the worker to play, unless it is over by now.
LEMMA ReceiveTalk ==
    ASSUME Talk, PlayReceive
    PROVE  Talk' /\ QueryStep
<1> USE DEF Server, worker
<1>1. /\ conn = "awaiting" /\ conn' # "awaiting" /\ reply # None
      /\ UNCHANGED <<needState, wpc, media>>
      /\ control' = IF wpc = "ended" THEN control ELSE Append(control, "Play")
      BY DEF PlayReceive
<1>2. ~needState /\ control = <<>>
      BY <1>1 DEF Talk
<1>3. control' = IF wpc = "ended" THEN <<>> ELSE <<"Play">>
  <2>1. CASE wpc = "ended"
        BY <1>1, <1>2, <2>1
  <2>2. CASE wpc # "ended"
        BY <1>1, <1>2, <2>2, ChannelAppends
  <2> QED BY <2>1, <2>2
<1>4. Talk'
      BY <1>1, <1>2, <1>3 DEF Talk
<1>5. /\ Asking = "answered" /\ Asking' = "none" /\ Life' = Life
      /\ wpc = "ended" <=> Life = "over"
      BY <1>1 DEF Asking, Life
<1>6. (Told' = (Life # "over"))
  <2>1. Told' = HasPlay(control')
        BY DEF Told, HasPlay
  <2>2. HasPlay(control') <=> wpc # "ended"
        BY <1>3, Channels
  <2> QED BY <1>5, <2>1, <2>2 DEF HasPlay
<1>7. QueryStep
      BY <1>5, <1>6 DEF QueryStep, Query!Next, Query!Proceed, Query!Alive
<1> QED BY <1>4, <1>7

\* The worker leaves its loop, asked or not.
LEMMA EndTalk ==
    ASSUME Talk, Leave \/ ConnectionClosed
    PROVE  Talk' /\ QueryStep
<1> USE DEF Private, client
<1>1. /\ UNCHANGED <<conn, control, reply, needState>>
      /\ wpc # "ended" /\ wpc' = "ended"
      BY DEF Leave, ConnectionClosed
<1>2. Life # "over" /\ Life' = "over" /\ Asking' = Asking /\ Told' = Told
      BY <1>1 DEF Life, Asking, Told
<1>3. Talk'
      BY <1>1 DEF Talk
<1> QED BY <1>2, <1>3 DEF QueryStep, Query!Next, Query!End, Query!Alive

\* Everything else is not part of the conversation.
LEMMA OtherTalk ==
    ASSUME Talk, [Next]_vars, ~(Mux \/ MuxFail), ~ControlMessage, ~PlayRequest,
           ~PlayReceive, ~(Leave \/ ConnectionClosed)
    PROVE  Talk' /\ QueryStep
<1>1. /\ UNCHANGED <<needState, control, media, reply>>
      /\ wpc' = "ended" <=> wpc = "ended"
      /\ conn' = "awaiting" <=> conn = "awaiting"
  <2> USE DEF Server, Private, worker, client
  <2>1. CASE WorkerStep
        BY <2>1 DEF WorkerStep, Lagged, Skip, TrySend, DropRest, FrameReady
  <2>2. CASE ConnStep
        BY <2>2 DEF ConnStep, TakeFirst, TakeMore, Flush, Gone, PlayReply,
                    TeardownRequest, TeardownReply
  <2>3. CASE UNCHANGED vars \/ CloseSource \/ StopSession
             \/ \E f \in Frames : Publish(f)
        BY <2>3 DEF vars, CloseSource, StopSession, Publish
  <2> QED BY <2>1, <2>2, <2>3 DEF Next
<1>2. Life' = Life
      BY <1>1 DEF Life
<1> QED BY <1>1, <1>2, QuietTalk

(* session/mod.rs:105-123, 177-322: whatever frames are skipped, dropped or fail, *)
(* a PLAY is given the answer to its own question, and the worker plays only when *)
(* a PLAY that has its answer says so.                                            *)
THEOREM SessionImplementsQuery == Spec => ImplementsQuery
<1>1. Init => Talk /\ Query!Init
  <2> SUFFICES ASSUME Init PROVE Talk /\ Query!Init
      OBVIOUS
  <2>1. Told = HasPlay(control)
        BY DEF Told, HasPlay
  <2>2. Asking = "none" /\ Life = "ready" /\ Told = FALSE
        BY <2>1, Channels DEF Init, Asking, Life, Told
  <2> QED BY <2>2 DEF Init, Talk, Query!Init
<1>2. IInv /\ IInv' /\ Talk /\ [Next]_vars => Talk' /\ [Query!Next]_(Query!vars)
      BY MuxTalk, ControlTalk, RequestTalk, ReceiveTalk, EndTalk, OtherTalk DEF QueryStep
<1> QED BY <1>1, <1>2, SessionInductive, PTL DEF Spec, ImplementsQuery, Query!Spec
=============================================================================
