----------------------------- MODULE MCEtherSia -----------------------------
(***************************************************************************)
(* A link with two routers, a DNS server and a time server, for TLC. Of    *)
(* each kind of frame there is one for each test the code puts it to.      *)
(***************************************************************************)
EXTENDS EtherSia, TLC

Addresses == {"::", "me", "P1::me", "P2::me", "all", "routers", "sn.me", "sn.x",
              "r1", "r2", "P1::dns", "P1::time", "far", "google"}
LinkLocalSet == {"me", "r1", "r2"}
Groups == {"all", "routers", "sn.me", "sn.x"}
GroupOf == [a \in Addresses |->
    IF a \in {"me", "P1::me", "P2::me"} THEN "sn.me" ELSE "sn.x"]
Prefixes == {"P1", "P2"}
OurAddressIn == "P1" :> "P1::me" @@ "P2" :> "P2::me"
Subnets == [a \in Addresses |->
    IF a \in {"P1::me", "P1::dns", "P1::time"} THEN "P1"
    ELSE IF a = "P2::me" THEN "P2" ELSE a]
Macs == {"none", "my", "multicast", "r1", "r2", "dns", "time"}
Owners == [a \in Addresses |->
    CASE a = "P1::dns" -> "dns" [] a = "P1::time" -> "time"
      [] a = "r2" -> "r2" [] a \in {"me", "P1::me", "P2::me"} -> "my"
      [] OTHER -> "r1"]

Ports == {"ntp", "local", "dns", "lookup", "http", "other"}
Hosts == {"near.host", "far.host"}
Answers == "near.host" :> {"P1::time", "::"} @@ "far.host" :> {"far"}

F(kind, src, mac, dst, dstMac) ==
    [Packet(kind, src, dst, dstMac) EXCEPT !.srcMac = mac, !.sport = "other"]

O(type, units) ==
    [type |-> type, units |-> units, mac |-> "none", prefix |-> "::", dns |-> "::"]
MacOption(type, mac) == [O(type, 1) EXCEPT !.mac = mac]
PrefixOption(prefix) == [O("prefix", 4) EXCEPT !.prefix = prefix]
DnsOption(server) == [O("dns", 3) EXCEPT !.dns = server]

\* Options in either order, one that may not be used, and two of a type; and
\* some that do not end, before or behind those that are looked for
Advertisements ==
    {[F("RA", "r1", "r1", "all", "multicast") EXCEPT !.options = o] :
        o \in {<<MacOption("source", "r1"), PrefixOption("P1"), DnsOption("P1::dns")>>,
               <<PrefixOption("::"), O("other", 0), PrefixOption("P2")>>}}
    \cup
    {[F("RA", "r2", "r2", "all", "multicast") EXCEPT
        !.options = <<PrefixOption("P2"), O("other", 1), PrefixOption("P1"),
                      MacOption("source", "r2")>>]}

Neighbours ==
    {[F("NA", "P1::dns", "dns", "P1::me", "my") EXCEPT !.target = "P1::dns", !.options = o] :
        o \in {<<O("other", 1), MacOption("target", "dns"), O("other", 0)>>,
               <<O("other", 0), MacOption("target", "dns")>>}}
    \cup
    {[F("NA", "P1::time", "time", "P1::me", "my") EXCEPT !.target = "P1::time"],
     [F("NS", "r1", "r1", "sn.me", "multicast") EXCEPT !.target = "P1::me"]}

Requests ==
    {F("Echo", "r1", "r1", "all", "multicast"),
     F("Echo", "r1", "r1", "P1::me", "my"),
     F("Other", "r1", "r1", "P1::me", "my"),
     F("Invalid", "r1", "r1", "me", "my"),
     F("Unreachable", "far", "r1", "P1::me", "my")}

Datagrams ==
    {[F("UDP", "P1::time", "time", "P1::me", "my") EXCEPT !.sport = "ntp", !.dport = "local"],
     F("UDP", "r1", "r1", "all", "multicast")}

Segments ==
    {[F("TCP", "far", "r1", "P1::me", "my") EXCEPT !.dport = "http", !.flags = x] :
        x \in {"SYN", "FIN", "RST", "data"}}

Frames == Advertisements \cup Neighbours \cup Requests \cup Datagrams \cup Segments
=============================================================================
