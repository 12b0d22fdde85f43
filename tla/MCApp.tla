-------------------------------- MODULE MCApp --------------------------------
(* Two connections; a request for each branch of the handler and transport   *)
(* headers for each of the negotiation; a TEARDOWN of c2 may wait behind a   *)
(* PLAY of c1 that hangs.                                                    *)
EXTENDS App, TLC
CONSTANTS c1, c2
MCConns == {c1, c2}

Plain(m) == [method |-> m, require |-> FALSE, accept |-> TRUE, session |-> FALSE,
             path |-> "camera", range |-> "none", valid |-> TRUE, transport |-> <<>>]

Tcp(channel) == [lower |-> "tcp", params |-> {"unicast"}, channel |-> channel]
Udp == [lower |-> "udp", params |-> {"unicast", "destination", "client_port"},
        channel |-> <<>>]
AnyLower == [lower |-> "none", params |-> {"mode play"}, channel |-> <<>>]
Multicast == [lower |-> "tcp", params |-> {"multicast"}, channel |-> <<2, 3>>]

Setup == [Plain("SETUP") EXCEPT !.transport = <<Tcp(<<>>)>>]

Headers == {<<Udp, Multicast, Tcp(<<2, 3>>), Tcp(<<>>)>>, <<Tcp(<<255>>)>>,
            <<AnyLower, Tcp(<<>>)>>}

MCRequests ==
    c1 :> ({[Setup EXCEPT !.transport = h] : h \in Headers}
           \cup {[Setup EXCEPT !.path = "other"], [Setup EXCEPT !.require = TRUE],
                 Plain("DESCRIBE"), [Plain("DESCRIBE") EXCEPT !.path = "other"],
                 [Plain("PLAY") EXCEPT !.session = TRUE, !.range = "ok"],
                 [Plain("TEARDOWN") EXCEPT !.session = TRUE]})
    @@ c2 :> {Setup, [Plain("TEARDOWN") EXCEPT !.session = TRUE]}
=============================================================================
