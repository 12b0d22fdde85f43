------------------------------ MODULE Transport ------------------------------
(* The choice of a transport for a SETUP (src/session/transport.rs and         *)
(* src/session/setup.rs). A candidate is a record of the header's lower        *)
(* protocol, the parameters that only matter by their kind, and its            *)
(* interleaved channels: none, a single one, or a range.                       *)
EXTENDS Naturals, Sequences

\* u8
Channels == 0 .. 255

Params == {"unicast", "multicast", "destination", "append", "ttl", "layers", "port",
           "client_port", "server_port", "ssrc", "mode play", "mode other"}

Candidate == [lower : {"none", "tcp", "udp"}, params : SUBSET Params,
              channel : {<<>>} \cup {<<a>> : a \in Channels}
                               \cup (Channels \X Channels)]

\* Mutant: UDP is let through.
IsSupportedUdp(t) ==
    t.params \subseteq {"unicast", "mode play", "destination", "client_port"}

\* is_supported: a candidate that names no lower protocol passes.
IsSupported(t) == /\ t.lower # "udp"
                  /\ t.params \subseteq {"unicast", "mode play"}

\* resolve_transport
Resolve(t) == IF t.channel # <<>> THEN t ELSE [t EXCEPT !.channel = <<0, 1>>]

NoTarget == [to |-> "nobody", rtp |-> 0, rtcp |-> 0]

\* rtp_channel + 1 wraps: release builds do not check it.
Interleaved(t) ==
    [to |-> "sender", rtp |-> t.channel[1],
     rtcp |-> IF Len(t.channel) = 1 THEN (t.channel[1] + 1) % 256 ELSE t.channel[2]]

\* SessionSetupTarget::from_rtsp_transport; the ports of UDP are left out.
Target(t) ==
    CASE t.lower = "tcp" -> Interleaved(t)
      [] t.lower = "udp" /\ {"destination", "client_port"} \subseteq t.params ->
            [to |-> "address", rtp |-> 0, rtcp |-> 0]
      [] OTHER -> NoTarget

Refused == [target |-> NoTarget, told |-> <<>>]

\* from_rtsp_candidate_transports: the first that is supported, and no other,
\* whether or not it has a target. "told" is what the response says.
Negotiate(candidates) ==
    LET supported == {i \in DOMAIN candidates : IsSupported(candidates[i])}
        first == CHOOSE i \in supported : \A j \in supported : i <= j
        chosen == Resolve(candidates[first])
    IN IF supported = {} \/ Target(chosen) = NoTarget THEN Refused
       ELSE [target |-> Target(chosen), told |-> chosen.channel]

-----------------------------------------------------------------------------
(* What a client may rely on, said of a candidate list and the outcome.       *)

\* transport.rs:33-52: media goes over the connection that asked, on channels
\* that some candidate named or, without any, on the default ones.
OnOwnConnection(candidates, outcome) ==
    outcome # Refused =>
        /\ outcome.target.to = "sender"
        /\ outcome.target.rtp = outcome.told[1]
        /\ \E i \in DOMAIN candidates :
              /\ candidates[i].lower = "tcp"
              /\ outcome.told = IF candidates[i].channel = <<>> THEN <<0, 1>>
                                ELSE candidates[i].channel

\* setup.rs:97-104: RTCP has a channel of its own unless the client says that
\* it has not: the next one, and the first after the last.
RtcpApart(outcome) ==
    outcome # Refused /\ outcome.target.rtp = outcome.target.rtcp =>
        Len(outcome.told) = 2 /\ outcome.told[1] = outcome.told[2]
=============================================================================
