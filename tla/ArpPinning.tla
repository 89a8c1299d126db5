------------------------------ MODULE ArpPinning ------------------------------
(***************************************************************************)
(* Who decides which MAC the kernel uses for a LAN client: the pinner      *)
(* (service.go), the SYN sniffer (sniff.go), the discovery hook of         *)
(* accepted connections and the reset on a network change (clients.go),    *)
(* with DecidePin and Pin of route.go.                                     *)
(*                                                                         *)
(* The module follows one client address.  Its entry in the registry is    *)
(* protected by a mutex, but every operation reads State, the registry and *)
(* the kernel's ARP entry one after the other and writes one of them       *)
(* later, so that a write may rest on values from before another           *)
(* goroutine's write, or from before a change of the network.              *)
(***************************************************************************)
EXTENDS Naturals

CONSTANTS
    Nets,      \* networks with different LAN snapshots
    NoNet,     \* no LAN detected yet
    MACs,      \* MAC addresses
    NoMAC,     \* the empty MAC; no ARP entry
    macsOf,    \* macsOf[n]: the MACs that use the client's address in network
               \* n, empty if the address is outside its subnet
    Static     \* the address is one of lan_clients

ASSUME NetAssumption == NoNet \notin Nets
ASSUME MACAssumption == NoMAC \notin MACs
ASSUME MacsOfAssumption == macsOf \in [Nets -> SUBSET MACs]
ASSUME StaticAssumption == Static \in BOOLEAN

VARIABLES
    net,             \* the network the host is in
    holder,          \* the MAC that uses the address there
    vpn,             \* State.CiscoConnected
    lan,             \* State.LANSubnet and State.LANInterface
    spc, next,       \* detectLAN between resetNetwork and setStatus
    known, mac,      \* the registry's entry
    arpMAC, arpLAN,  \* the kernel's entry, and whether it is on LANInterface
    ppc, pmac,       \* the pinner, and the MAC of its snapshot
    fpc, fmac,       \* the sniffer, and the MAC of the frame it handles
    fvpn,            \* State.CiscoConnected as observeSYN read it, until used
    dpc, dmac        \* discoverClient, and the MAC it found in ARP

netVars == <<net, holder, vpn>>
stateVars == <<lan, spc, next>>
regVars == <<known, mac>>
arpVars == <<arpMAC, arpLAN>>
pinVars == <<ppc, pmac>>
synVars == <<fpc, fmac, fvpn>>
discVars == <<dpc, dmac>>
vars == <<netVars, stateVars, regVars, arpVars, pinVars, synVars, discVars>>

AnyMAC == MACs \cup {NoMAC}

\* State variables have values of the right shape, and an address that is not
\* registered has no MAC.
TypeOK ==
    /\ net \in Nets /\ lan \in Nets \cup {NoNet} /\ next \in Nets \cup {NoNet}
    /\ holder \in AnyMAC
    /\ vpn \in BOOLEAN /\ fvpn \in BOOLEAN
    /\ spc \in {"idle", "set"}
    /\ known \in BOOLEAN /\ mac \in AnyMAC
    /\ ~known => mac = NoMAC
    /\ arpMAC \in AnyMAC /\ arpLAN \in BOOLEAN
    /\ ppc \in {"sleep", "lookup", "adopt", "repin"} /\ pmac \in AnyMAC
    /\ fpc \in {"wait", "frame", "lookup", "arp", "pin", "seen"} /\ fmac \in AnyMAC
    /\ dpc \in {"none", "conn", "arp", "seen"} /\ dmac \in AnyMAC

Holders(n) == IF macsOf[n] = {} THEN {NoMAC} ELSE macsOf[n]

\* LANSubnet.Contains(ip), for the subnet that State holds.
contains(l) == l # NoNet /\ macsOf[l] # {}

Init ==
    /\ net \in Nets /\ holder \in Holders(net)
    /\ vpn \in BOOLEAN
    /\ lan = NoNet /\ spc = "idle" /\ next = NoNet
    /\ known = Static
    /\ mac \in (IF Static THEN AnyMAC ELSE {NoMAC})
    /\ arpMAC = NoMAC /\ arpLAN = FALSE
    /\ ppc = "sleep" /\ pmac = NoMAC
    /\ fpc = "wait" /\ fmac = NoMAC /\ fvpn = FALSE
    /\ dpc = "none" /\ dmac = NoMAC

-----------------------------------------------------------------------------
(* The registry, each operation under its mutex *)

\* The client is registered; an empty MAC does not replace a known one.
seen(m) ==
    /\ known' = TRUE
    /\ mac' = IF m # NoMAC THEN m ELSE mac

\* Variant: an address that is no longer registered gets a MAC.
setMACAlways(m) == mac' = m /\ UNCHANGED known

\* The MAC of a client that is still registered is replaced.
setMAC(m) ==
    /\ mac' = IF known THEN m ELSE mac
    /\ UNCHANGED known

\* A static client loses its MAC, a discovered one its entry.
resetNetwork ==
    /\ known' = Static
    /\ mac' = NoMAC

-----------------------------------------------------------------------------
(* detectLAN, once a LAN is confirmed *)

\* The first detection goes straight to setStatus, and keeps the static MACs.
FirstLAN ==
    /\ spc = "idle" /\ lan = NoNet
    /\ lan' = net
    /\ UNCHANGED <<netVars, spc, next, regVars, arpVars, pinVars, synVars, discVars>>

\* A change resets the registry first.
ChangeLAN ==
    /\ spc = "idle" /\ lan \notin {NoNet, net}
    /\ resetNetwork
    /\ next' = net
    /\ spc' = "set"
    /\ UNCHANGED <<netVars, lan, arpVars, pinVars, synVars, discVars>>

SetLAN ==
    /\ spc = "set"
    /\ lan' = next /\ next' = NoNet
    /\ spc' = "idle"
    /\ UNCHANGED <<netVars, regVars, arpVars, pinVars, synVars, discVars>>

-----------------------------------------------------------------------------
(* The pinner *)

\* What LookupARP can report: the kernel's entry, or none if arp -n fails.
LookupARP == {[mac |-> arpMAC, lan |-> arpLAN], [mac |-> NoMAC, lan |-> FALSE]}

onLAN(entry) == entry.mac # NoMAC /\ entry.lan

\* Variant: an entry that is not there is pinned whatever MAC is wanted.
DecidePinBlindly(entry, want) ==
    CASE onLAN(entry) /\ entry.mac = want -> "none"
      [] onLAN(entry) /\ entry.mac # want -> "adopt"
      [] ~onLAN(entry) -> "repin"

\* What DecidePin makes of the kernel's entry and the MAC that is wanted.
DecidePin(entry, want) ==
    CASE onLAN(entry) /\ entry.mac = want -> "none"
      [] onLAN(entry) /\ entry.mac # want -> "adopt"
      [] ~onLAN(entry) /\ want = NoMAC -> "none"
      [] ~onLAN(entry) /\ want # NoMAC -> "repin"

\* arp -S: the entry is replaced, on the LAN interface; it may fail.
Pin(m) == (arpMAC' = m /\ arpLAN' = TRUE) \/ UNCHANGED arpVars

pinFrame == UNCHANGED <<netVars, stateVars, synVars, discVars>>

\* startPinner and pinClients read State, then the registry.
PinSnapshot ==
    /\ ppc = "sleep"
    /\ vpn /\ contains(lan) /\ known
    /\ pmac' = mac
    /\ ppc' = "lookup"
    /\ UNCHANGED <<regVars, arpVars>> /\ pinFrame

\* The kernel's entry is read; to adopt it means to use that MAC later.
PinLookup ==
    /\ ppc = "lookup"
    /\ \E entry \in LookupARP :
          LET action == DecidePin(entry, pmac) IN
          /\ ppc' = IF action = "none" THEN "sleep" ELSE action
          /\ pmac' = CASE action = "none" -> NoMAC
                       [] action = "adopt" -> entry.mac
                       [] action = "repin" -> pmac
    /\ UNCHANGED <<regVars, arpVars>> /\ pinFrame

PinAdopt ==
    /\ ppc = "adopt"
    /\ setMAC(pmac)
    /\ ppc' = "sleep" /\ pmac' = NoMAC
    /\ UNCHANGED arpVars /\ pinFrame

PinRepin ==
    /\ ppc = "repin"
    /\ Pin(pmac)
    /\ ppc' = "sleep" /\ pmac' = NoMAC
    /\ UNCHANGED regVars /\ pinFrame

\* expire: a discovered client that has not been seen for long is dropped.
Expire ==
    /\ ppc = "sleep"
    /\ known /\ ~Static
    /\ known' = FALSE /\ mac' = NoMAC
    /\ UNCHANGED <<pinVars, arpVars>> /\ pinFrame

-----------------------------------------------------------------------------
(* The sniffer *)

synFrame == UNCHANGED <<netVars, stateVars, pinVars, discVars>>

\* tcpdump captures a SYN of the client and writes a line for it.
CaptureSYN ==
    /\ fpc = "wait"
    /\ lan # NoNet /\ holder # NoMAC
    /\ fmac' = holder
    /\ fpc' = "frame"
    /\ UNCHANGED <<fvpn, regVars, arpVars>> /\ synFrame

\* observeSYN reads State.
SynState ==
    /\ fpc = "frame"
    /\ IF contains(lan)
          THEN fpc' = "lookup" /\ fvpn' = vpn /\ UNCHANGED fmac
          ELSE fpc' = "wait" /\ fmac' = NoMAC /\ UNCHANGED fvpn
    /\ UNCHANGED <<regVars, arpVars>> /\ synFrame

\* Variant: the frame changes the registry only.
repinStaleNever == "seen"

\* repinStale runs if the frame disagrees with the registry and the VPN is up.
repinStale == IF mac # fmac /\ fvpn THEN "arp" ELSE "seen"

SynLookup ==
    /\ fpc = "lookup"
    /\ fpc' = repinStale
    /\ fvpn' = FALSE
    /\ UNCHANGED <<fmac, regVars, arpVars>> /\ synFrame

\* repinStale reads the kernel's entry; a missing one is the pinner's.
SynARP ==
    /\ fpc = "arp"
    /\ \E entry \in LookupARP :
          fpc' = IF onLAN(entry) /\ entry.mac # fmac THEN "pin" ELSE "seen"
    /\ UNCHANGED <<fmac, fvpn, regVars, arpVars>> /\ synFrame

SynPin ==
    /\ fpc = "pin"
    /\ Pin(fmac)
    /\ fpc' = "seen"
    /\ UNCHANGED <<fmac, fvpn, regVars>> /\ synFrame

SynSeen ==
    /\ fpc = "seen"
    /\ seen(fmac)
    /\ fpc' = "wait" /\ fmac' = NoMAC
    /\ UNCHANGED <<fvpn, arpVars>> /\ synFrame

-----------------------------------------------------------------------------
(* discoverClient, for an accepted connection *)

discFrame == UNCHANGED <<netVars, stateVars, pinVars, synVars>>

\* A LAN connection is accepted.  Its handshake needed our SYN-ACK to reach the
\* client, so the kernel's entry was right at that moment.
Accept ==
    /\ dpc = "none"
    /\ holder # NoMAC /\ arpMAC = holder /\ arpLAN
    /\ dpc' = "conn"
    /\ UNCHANGED <<dmac, regVars, arpVars>> /\ discFrame

\* An unknown client, or one without a MAC, is looked up on every connection, a
\* known one if its last refresh is old.
needsRefresh == IF known /\ mac # NoMAC THEN BOOLEAN ELSE {TRUE}

\* discoverClient reads State and the registry.
Discover ==
    /\ dpc = "conn"
    /\ \E due \in needsRefresh :
          dpc' = IF contains(lan) /\ due THEN "arp" ELSE "none"
    /\ UNCHANGED <<dmac, regVars, arpVars>> /\ discFrame

DiscoverARP ==
    /\ dpc = "arp"
    /\ \E entry \in LookupARP : dmac' = IF onLAN(entry) THEN entry.mac ELSE NoMAC
    /\ dpc' = "seen"
    /\ UNCHANGED <<regVars, arpVars>> /\ discFrame

DiscoverSeen ==
    /\ dpc = "seen"
    /\ seen(dmac)
    /\ dpc' = "none" /\ dmac' = NoMAC
    /\ UNCHANGED arpVars /\ discFrame

-----------------------------------------------------------------------------
(* The kernel, the client and the network *)

envFrame == UNCHANGED <<stateVars, regVars, pinVars, synVars, discVars>>

\* The kernel resolves the address, on the LAN interface.
KernelLearns ==
    /\ holder # NoMAC
    /\ arpMAC' = holder /\ arpLAN' = TRUE
    /\ UNCHANGED netVars /\ envFrame

\* Cisco takes the route over: the entry moves to the tunnel or is deleted.
CiscoHijacks ==
    /\ vpn /\ arpMAC # NoMAC
    /\ arpLAN' = FALSE
    /\ arpMAC' \in {arpMAC, NoMAC}
    /\ UNCHANGED netVars /\ envFrame

VPNChanges ==
    /\ vpn' = ~vpn
    /\ UNCHANGED <<net, holder, arpVars>> /\ envFrame

\* The client's private Wi-Fi MAC rotates, or another device gets the address.
Rotate(m) ==
    /\ m \in Holders(net) \ {holder}
    /\ holder' = m
    /\ UNCHANGED <<net, vpn, arpVars>> /\ envFrame

\* The host joins another network, and the kernel drops what it knew.
Roam(n, m) ==
    /\ n # net /\ m \in Holders(n)
    /\ net' = n /\ holder' = m
    /\ arpMAC' = NoMAC /\ arpLAN' = FALSE
    /\ UNCHANGED vpn /\ envFrame

-----------------------------------------------------------------------------
DetectLAN == FirstLAN \/ ChangeLAN \/ SetLAN
Pinner == PinSnapshot \/ PinLookup \/ PinAdopt \/ PinRepin
Sniffer == CaptureSYN \/ SynState \/ SynLookup \/ SynARP \/ SynPin \/ SynSeen
Discovery == Accept \/ Discover \/ DiscoverARP \/ DiscoverSeen

Environment ==
    \/ KernelLearns \/ CiscoHijacks \/ VPNChanges
    \/ \E m \in MACs : Rotate(m)
    \/ \E n \in Nets, m \in AnyMAC : Roam(n, m)

Next == DetectLAN \/ Pinner \/ Expire \/ Sniffer \/ Discovery \/ Environment

\* The goroutines are scheduled, a client that gets no answer keeps sending SYNs,
\* the pinner keeps finding the registry's entry between two expiries, and arp -n
\* and arp -S work when they keep being tried.
Fairness ==
    /\ WF_vars(DetectLAN)
    /\ WF_vars(Sniffer)
    /\ WF_vars(Discover \/ DiscoverARP \/ DiscoverSeen)
    /\ SF_vars(PinSnapshot)
    /\ WF_vars(PinLookup \/ PinAdopt \/ PinRepin)
    /\ SF_vars(PinRepin /\ arpMAC' = pmac /\ arpLAN')
    /\ SF_vars(SynARP /\ fpc' = "pin")
    /\ SF_vars(SynPin /\ arpMAC' = fmac)

Spec == Init /\ [][Next]_vars /\ Fairness

-----------------------------------------------------------------------------
\* The network has settled and the supervisor knows it, the VPN is up, and no
\* pass of the pinner coincides with the handling of a frame: passes take
\* milliseconds once a second, frames arrive once per connection.
Settled ==
    /\ lan = net /\ vpn
    /\ ~(ppc # "sleep" /\ fpc # "wait")

\* Every entry that is written into ARP has a MAC of the network that the host is
\* in: a MAC of another network is never pinned onto whoever holds the address
\* here.
NoForeignPin ==
    [][arpMAC' \notin {arpMAC, NoMAC} => arpMAC' \in macsOf[net]]_vars

\* Nobody has a MAC that another device had: neither the registry nor the kernel, nor
\* a goroutine between its read and its write.
NoStaleMAC == {mac, arpMAC, pmac, fmac, dmac} \subseteq {holder, NoMAC}

\* What has become right stays right: while the client keeps its MAC and the host its
\* network, no goroutine brings a stale MAC back, in whichever order they read and
\* write, and none overwrites a right entry that Cisco leaves alone.
StaysReachable ==
    [][NoStaleMAC /\ UNCHANGED <<net, holder>> =>
          /\ NoStaleMAC'
          /\ arpMAC = holder /\ arpLAN /\ arpLAN' => arpMAC' = holder]_vars

\* However stale the registry, ARP and the values in the hands of the goroutines
\* are after rotations, roaming and races: a client that then keeps one MAC in a
\* settled network becomes reachable, and again after everything that Cisco does
\* to the entry.
PinFollowsClient ==
    <>[](Settled /\ holder # NoMAC) /\ <>[][UNCHANGED holder]_vars
        => []<>(arpMAC = holder /\ arpLAN)

=============================================================================
