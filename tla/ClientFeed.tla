----------------------------- MODULE ClientFeed -----------------------------
(* What a client that decodes may rely on: nothing but the PLAY response     *)
(* first, then packets that start at a keyframe and go on packet by packet,  *)
(* frame by frame, except that any keyframe may start the picture again.     *)
EXTENDS Naturals, Sequences

CONSTANT Packets   \* records of frame, part, last, key and seq

VARIABLES replied,   \* the client has had a positive PLAY response
          wire       \* the media packets written to the client so far

vars == <<replied, wire>>

\* A packet from which a decoder can start.
Starts(p) == p.key /\ p.part = 1

\* q is the packet right after p in what the camera produced.
Follows(p, q) == \/ ~p.last /\ q.frame = p.frame /\ q.part = p.part + 1
                 \/ p.last /\ q.frame = p.frame + 1 /\ q.part = 1

\* A decoder that has got as far as p can go on with q.
Continues(p, q) == /\ q.frame >= p.frame
                   /\ q.seq > p.seq
                   /\ Starts(q) \/ Follows(p, q)

CanFollow(s, q) == IF s = <<>> THEN Starts(q) ELSE Continues(s[Len(s)], q)

Init == replied = FALSE /\ wire = <<>>

Reply == replied' = TRUE /\ UNCHANGED wire

Deliver(p) == /\ replied
              /\ CanFollow(wire, p)
              /\ wire' = Append(wire, p)
              /\ UNCHANGED replied

Next == Reply \/ \E p \in Packets : Deliver(p)

Spec == Init /\ [][Next]_vars
=============================================================================
