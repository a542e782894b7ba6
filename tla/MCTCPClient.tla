---------------------------- MODULE MCTCPClient ----------------------------
(* Small instances of TCPClient for TLC. *)
EXTENDS TCPClient

CONSTANTS Seqs, Dports, Lens, FlagSets

Addresses == {"server", "local", "global", "other"}
LinkLocals == {"server", "local"}

\* Segments of the peer, to this connection's port or to another one
PeerSegments ==
    [src : {RemoteAddress}, dst : {LinkLocalAddress}, proto : {"TCP"},
     sport : {RemotePort}, dport : Dports, flags : FlagSets,
     seq : Seqs, ack : Seq32, len : Lens]

\* Packets that fail one of the checks of havePacket()
Stray ==
    [src |-> RemoteAddress, dst |-> LinkLocalAddress, proto |-> "TCP",
     sport |-> RemotePort, dport |-> RemotePort, flags |-> {"ACK"},
     seq |-> 0, ack |-> 0, len |-> 1]

OtherPackets ==
    {[Stray EXCEPT !.src = "other"], [Stray EXCEPT !.dst = "global"],
     [Stray EXCEPT !.proto = "other"], [Stray EXCEPT !.sport = ByteSwap(RemotePort)]}
    \cup {[Stray EXCEPT !.dport = p, !.flags = f, !.len = 0] :
             p \in {<<1, 0>>, <<0, 0>>}, f \in {{"ACK"}, {"FIN"}}}

Packets == PeerSegments \cup OtherPackets

Http == <<0, 1>>
FirstPorts == {<<1, 1>>}
ThePorts == {<<0, 0>>, <<1, 0>>}
TheFlags == {{"SYN", "ACK"}, {"ACK"}, {"FIN", "ACK"}, {"RST"}, {"SYN"}, {"FIN"}}

\* A handshake, an acknowledgement, data and a close: enough to bring the client
\* into every state before the network dies
FewFlags == {{"SYN", "ACK"}, {"ACK"}, {"FIN", "ACK"}}
MostFlags == {{"SYN", "ACK"}, {"ACK"}, {"FIN", "ACK"}, {"RST"}, {"SYN"}}
OnePort == {<<0, 0>>}
=============================================================================
