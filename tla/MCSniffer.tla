----------------------------- MODULE MCSniffer -----------------------------
(* A Wi-Fi interface, a bridge that comes first in the list of interfaces,   *)
(* and the tunnel.  Wi-Fi has no address, its address at home, another one   *)
(* in the same subnet behind a link-local one, or a public one whose IPv4    *)
(* mask takes 16 bytes.  The default route is lost, over Wi-Fi behind the    *)
(* tunnel's, or over the bridge.                                             *)
EXTENDS Sniffer, TLC

CONSTANTS en0, bridge, utun

Interfaces == <<bridge, en0, utun>>
Kinds == (bridge :> "lan") @@ (en0 :> "lan") @@ (utun :> "tunnel")

Address(host, net, class, bits, ones) ==
    [host |-> host, net |-> net, class |-> class, bits |-> bits, ones |-> ones]

home1 == Address(1, "home", "private", 32, 24)
home2 == Address(2, "home", "private", 128, 120)
public == Address(1, "campus", "public", 128, 112)
bridge1 == Address(1, "vms", "private", 32, 24)
tunnel1 == Address(1, "corp", "private", 32, 32)
local1 == Address(1, "local", "linklocal", 32, 16)
broken == Address(1, "broken", "private", 128, 95)

MCAddresses == {home1, home2, public, bridge1, tunnel1, local1, broken}

WifiAddrs == {<<>>, <<home1>>, <<broken, local1, home2>>, <<public>>}
DefaultRoutes == {<<>>, <<utun, en0>>, <<bridge>>}

Table(routes, up, listed, wifi) ==
    [routes |-> routes, up |-> up, listed |-> listed,
     addrs |-> (bridge :> <<bridge1>>) @@ (en0 :> wifi) @@ (utun :> <<tunnel1>>)]

MCTables ==
    {Table(r, {bridge, en0, utun}, TRUE, w) : r \in DefaultRoutes, w \in WifiAddrs}
        \cup {Table(<<>>, {utun}, TRUE, <<home1>>), Table(<<utun>>, {en0}, FALSE, <<home1>>)}
=============================================================================
