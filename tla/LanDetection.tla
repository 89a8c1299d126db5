----------------------------- MODULE LanDetection -----------------------------
(***************************************************************************)
(* What the supervisor takes for the LAN: DetectLAN and its helpers        *)
(* (route.go) over a table of default routes and interfaces, and detectLAN *)
(* and confirmLAN (cisco.go), which move the result into State.            *)
(*                                                                         *)
(* A name stands for an interface, with its kind for what the code reads   *)
(* off its name and flags.  An address is a record of the host part, the   *)
(* network it is in, its class, and the length and size of its mask.       *)
(***************************************************************************)
EXTENDS Integers, Sequences

CONSTANTS
    Order,    \* the interfaces, in the order of net.Interfaces
    kindOf,   \* "lan", "tunnel" (utun), "loopback" (lo) or "p2p"
    Addresses,\* the addresses that interfaces can have
    Tables,   \* the routing tables and interface lists that can be met
    NoLAN     \* no LAN, no address

Names == {Order[i] : i \in DOMAIN Order}

ASSUME NamesAssumption == Order \in Seq(Names) /\ NoLAN \notin Names
ASSUME KindAssumption == kindOf \in [Names -> {"lan", "tunnel", "loopback", "p2p"}]

ASSUME AddressesAssumption ==
    /\ NoLAN \notin Addresses
    /\ \A a \in Addresses : a.ones \in Nat

\* routes holds the interfaces of the default routes, in order, and is empty if
\* netstat fails; listed is false if the interfaces cannot be listed.
ASSUME TablesAssumption ==
    \A t \in Tables :
        /\ t.routes \in Seq(Names) /\ t.up \subseteq Names /\ t.listed \in BOOLEAN
        /\ t.addrs \in [Names -> Seq(Addresses)]

VARIABLES
    table,      \* the host's routes and interfaces now
    lan,        \* State.LANInterface and State.LANSubnet
    lanAddr,    \* State.LANAddr
    pendingLAN, \* the supervisor's field
    groupDone   \* the context of the service's goroutines is cancelled

detectVars == <<table, lan, lanAddr, pendingLAN>>

-----------------------------------------------------------------------------
(* route.go *)

\* The length of the prefix: an IPv4 address may carry a 16-byte mask.
prefixLen(a) == IF a.bits = 128 THEN a.ones - 96 ELSE a.ones

\* Variant: any mask is accepted.
ipv4AnyMask(a) == a.class # "ipv6"

\* ipv4Prefix accepts the address.
ipv4Prefix(a) == a.class # "ipv6" /\ prefixLen(a) \in 0..32

\* The first element of s that is in S, NoLAN if there is none.
firstOf(s, S) ==
    LET found == {i \in DOMAIN s : s[i] \in S} IN
    IF found = {} THEN NoLAN ELSE s[CHOOSE i \in found : \A j \in found : i <= j]

\* The interface of the first default route that is not a tunnel's.
parseDefaultNonTunnel(t) ==
    firstOf(t.routes, {i \in Names : kindOf[i] \notin {"tunnel", "loopback"}})

connectedPrefix(t, i) ==
    firstOf(t.addrs[i],
            {a \in Addresses : ipv4Prefix(a) /\ a.class \notin {"loopback", "linklocal"}})

privatePrefix(t, i) ==
    firstOf(t.addrs[i], {a \in Addresses : ipv4Prefix(a) /\ a.class = "private"})

\* The interface is up, no tunnel, and has an RFC 1918 address.
qualifies(t, i) == i \in t.up /\ kindOf[i] = "lan" /\ privatePrefix(t, i) # NoLAN

rfc1918Candidates(t) == {i \in Names : t.listed /\ qualifies(t, i)}

\* Variant: the interface in use has no precedence.
firstCandidate(cands, prefer) == firstOf(Order, cands)

\* The interface in use if it is among the candidates, else the first of them.
pickCandidate(cands, prefer) == IF prefer \in cands THEN prefer ELSE firstOf(Order, cands)

\* The non-tunnel default route's interface, if it has an address.
defaultLAN(t) ==
    LET i == parseDefaultNonTunnel(t) IN
    IF i # NoLAN /\ connectedPrefix(t, i) # NoLAN THEN i ELSE NoLAN

\* The interface and its address, or NoLAN.
DetectLAN(t, prefer) ==
    LET d == defaultLAN(t)
        c == pickCandidate(rfc1918Candidates(t), prefer)
    IN CASE d # NoLAN -> [iface |-> d, addr |-> connectedPrefix(t, d)]
         [] d = NoLAN /\ c # NoLAN -> [iface |-> c, addr |-> privatePrefix(t, c)]
         [] d = NoLAN /\ c = NoLAN -> NoLAN

\* The result for every table and every interface that may be in use.
detected == [t \in Tables |-> [p \in Names \cup {NoLAN} |-> DetectLAN(t, p)]]

-----------------------------------------------------------------------------
(* detectLAN and confirmLAN *)

\* The subnet, Masked(), of an address.
subnetOf(a) == <<a.net, prefixLen(a)>>

snapshotOf(d) == [iface |-> d.iface, subnet |-> subnetOf(d.addr)]

\* Everything that the tables can show.
Addrs(t, i) == {t.addrs[i][k] : k \in DOMAIN t.addrs[i]}
AllAddrs == {a \in Addresses : \E t \in Tables, i \in Names : a \in Addrs(t, i)}
Snapshots ==
    {s \in [iface : Names, subnet : {subnetOf(a) : a \in Addresses}] :
        \E t \in Tables : \E a \in Addrs(t, s.iface) : s.subnet = subnetOf(a)}

DetectTypeOK ==
    /\ table \in Tables
    /\ lan \in Snapshots \cup {NoLAN} /\ pendingLAN \in Snapshots \cup {NoLAN}
    /\ lan # NoLAN => lan.subnet[2] \in 0..32
    /\ lanAddr \in AllAddrs \cup {NoLAN}
    /\ groupDone \in BOOLEAN

inUse == IF lan = NoLAN THEN NoLAN ELSE lan.iface

DetectInit ==
    /\ table \in Tables
    /\ lan = NoLAN /\ lanAddr = NoLAN /\ pendingLAN = NoLAN
    /\ groupDone = FALSE

\* Variant: every detection moves the address into State.
addrOnEveryTick(d) == d.addr

\* DHCP may have handed out another address in the same subnet.
addrOnSameLAN(d) == IF snapshotOf(d) = lan THEN d.addr ELSE lanAddr

\* The body of detectLAN once DetectLAN has found d.
confirmLAN(d) ==
    LET next == snapshotOf(d)
        confirmed == next # lan /\ (lan = NoLAN \/ pendingLAN = next)
    IN
    /\ lan' = IF confirmed THEN next ELSE lan
    /\ lanAddr' = IF confirmed THEN d.addr ELSE addrOnSameLAN(d)
    /\ pendingLAN' = IF next = lan \/ confirmed THEN NoLAN ELSE next

detectLAN ==
    /\ ~groupDone
    /\ LET d == detected[table][inUse] IN
       IF d = NoLAN THEN pendingLAN' = NoLAN /\ UNCHANGED <<lan, lanAddr>>
                    ELSE confirmLAN(d)
    /\ UNCHANGED <<table, groupDone>>

\* Routes come and go, interfaces get and lose their addresses.
TableChanges(t) ==
    /\ t # table
    /\ table' = t
    /\ UNCHANGED <<lan, lanAddr, pendingLAN, groupDone>>

-----------------------------------------------------------------------------
\* The LAN is never a tunnel or the loopback, and this host's address there is an
\* address of the LAN's subnet, although the interface, the subnet and the address
\* reach State on different paths.
LanIsPhysical ==
    lan # NoLAN =>
        /\ kindOf[lan.iface] \notin {"tunnel", "loopback"}
        /\ lan.subnet = subnetOf(lanAddr)

\* Another interface becomes the LAN only if a default route leads there, or if the
\* one in use has lost what qualifies it: "a transient loss of the default route
\* does not flip the LAN to a bridge or a USB NIC".
KeepsInterface ==
    [][lan # NoLAN /\ lan'.iface # lan.iface =>
          defaultLAN(table) = lan'.iface \/ ~qualifies(table, lan.iface)]_lan

\* The snapshot that the default route of a table stands for.
routed ==
    [t \in Tables |->
        LET d == defaultLAN(t) IN
        IF d = NoLAN THEN NoLAN ELSE snapshotOf([iface |-> d, addr |-> connectedPrefix(t, d)])]

=============================================================================
