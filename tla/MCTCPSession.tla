---------------------------- MODULE MCTCPSession ----------------------------
(* Small instances of TCPSession for TLC. *)
EXTENDS TCPSession

Addresses == {"server", "local", "global"}
LinkLocals == {"server", "local"}
Http == <<0, 1>>
FirstPorts == {<<1, 1>>}
Isns == [i \in 1 .. MaxConnections |-> IF i = 1 THEN 14 ELSE 6]
PeerIsns == [i \in 1 .. MaxConnections |-> IF i = 1 THEN 13 ELSE 4]

\* The variables that a step reads, or a property of a run: not what the client sent last,
\* and not the shared buffer, from which a step only takes what SourceFor() looks at
Read == <<connVars, timerVars, appliFlags, pc, sinceConnect, linkUp, sessionVars>>
ASSUME OneSource == ~HasGlobal

\* The bound: the last of several connections is followed until its server sends a FIN
LastUnfinished ==
    conns > 1 => \A port \in Port : srv[port].st # "NONE" /\ srv[port].peer = MaxConnections =>
                    srv[port].nxt <= FinOffset

\* What TCPSessionProofs asks of the numbers holds of these
ASSUME OrdinaryNumbers == ~EarlyBareAck => Ordinary
=============================================================================
