-------------------------- MODULE ArpPinningProofs --------------------------
(***************************************************************************)
(* The types of ArpPinning, and that what has become right stays right,    *)
(* for every set of networks and MACs.                                     *)
(***************************************************************************)
EXTENDS ArpPinning, TLAPS

USE DEF netVars, stateVars, regVars, arpVars, pinVars, synVars, discVars, vars, pinFrame,
    synFrame, discFrame, envFrame

\* The address of a network belongs to a MAC, or to none.
LEMMA HoldersType == \A n \in Nets : Holders(n) \subseteq AnyMAC
BY MacsOfAssumption DEF Holders, AnyMAC

\* Every step keeps the types; in particular an address that expires, or is reset,
\* while the pinner is about to adopt a MAC for it stays without one.
LEMMA TypeStep == TypeOK /\ [Next]_vars => TypeOK'
<1> SUFFICES ASSUME TypeOK, [Next]_vars PROVE TypeOK'
    OBVIOUS
<1> USE StaticAssumption DEF TypeOK, AnyMAC
<1>1. CASE FirstLAN
    BY <1>1 DEF FirstLAN
<1>2. CASE ChangeLAN
    BY <1>2 DEF ChangeLAN, resetNetwork
<1>3. CASE SetLAN
    BY <1>3 DEF SetLAN
<1>4. CASE PinSnapshot
    BY <1>4 DEF PinSnapshot
<1>5. CASE PinLookup
    BY <1>5 DEF PinLookup, LookupARP, DecidePin, onLAN
<1>6. CASE PinAdopt
    BY <1>6 DEF PinAdopt, setMAC
<1>7. CASE PinRepin
  <2>1. arpMAC' \in AnyMAC /\ arpLAN' \in BOOLEAN
    BY <1>7 DEF PinRepin, Pin
  <2> QED
    BY <1>7, <2>1 DEF PinRepin
<1>8. CASE Expire
  <2>1. known' \in BOOLEAN /\ mac' = NoMAC
    BY <1>8 DEF Expire
  <2>2. UNCHANGED <<pinVars, arpVars, netVars, stateVars, synVars, discVars>>
    BY <1>8 DEF Expire
  <2> QED
    BY <2>1, <2>2
<1>9. CASE CaptureSYN
    BY <1>9 DEF CaptureSYN
<1>10. CASE SynState
    BY <1>10 DEF SynState
<1>11. CASE SynLookup
  <2>1. fpc' \in {"arp", "seen"} /\ fvpn' \in BOOLEAN
    BY <1>11 DEF SynLookup, repinStale
  <2>2. UNCHANGED <<fmac, regVars, arpVars, netVars, stateVars, pinVars, discVars>>
    BY <1>11 DEF SynLookup
  <2> QED
    BY <2>1, <2>2
<1>12. CASE SynARP
    BY <1>12 DEF SynARP, LookupARP
<1>13. CASE SynPin
  <2>1. arpMAC' \in AnyMAC /\ arpLAN' \in BOOLEAN
    BY <1>13 DEF SynPin, Pin
  <2> QED
    BY <1>13, <2>1 DEF SynPin
<1>14. CASE SynSeen
    BY <1>14 DEF SynSeen, seen
<1>15. CASE Accept
    BY <1>15 DEF Accept
<1>16. CASE Discover
    BY <1>16 DEF Discover
<1>17. CASE DiscoverARP
    BY <1>17 DEF DiscoverARP, LookupARP, onLAN
<1>18. CASE DiscoverSeen
    BY <1>18 DEF DiscoverSeen, seen
<1>19. CASE KernelLearns
    BY <1>19 DEF KernelLearns
<1>20. CASE CiscoHijacks
  <2>1. arpMAC' \in AnyMAC /\ arpLAN' \in BOOLEAN
    BY <1>20 DEF CiscoHijacks
  <2>2. UNCHANGED <<netVars, stateVars, regVars, pinVars, synVars, discVars>>
    BY <1>20 DEF CiscoHijacks
  <2> QED
    BY <2>1, <2>2
<1>21. CASE VPNChanges
    BY <1>21 DEF VPNChanges
<1>22. ASSUME NEW m \in MACs, Rotate(m) PROVE TypeOK'
    BY <1>22 DEF Rotate
<1>23. ASSUME NEW n \in Nets, NEW m \in AnyMAC, Roam(n, m) PROVE TypeOK'
  <2>1. net' \in Nets /\ holder' \in AnyMAC /\ arpMAC' = NoMAC /\ arpLAN' \in BOOLEAN
    BY <1>23 DEF Roam
  <2>2. UNCHANGED <<vpn, stateVars, regVars, pinVars, synVars, discVars>>
    BY <1>23 DEF Roam
  <2> QED
    BY <2>1, <2>2
<1>24. CASE UNCHANGED vars
    BY <1>24
<1> QED
    BY <1>1, <1>2, <1>3, <1>4, <1>5, <1>6, <1>7, <1>8, <1>9, <1>10, <1>11, <1>12, <1>13,
       <1>14, <1>15, <1>16, <1>17, <1>18, <1>19, <1>20, <1>21, <1>22, <1>23, <1>24
       DEF Next, DetectLAN, Pinner, Sniffer, Discovery, Environment

\* The types of ArpPinning hold, and with them: an address that is not registered
\* has no MAC, whatever write of the pinner, the sniffer or the discovery comes late.
THEOREM TypeCorrect == Spec => []TypeOK
<1>1. ASSUME Init PROVE TypeOK
  <2>1. net \in Nets /\ holder \in AnyMAC
    BY <1>1, HoldersType DEF Init
  <2>2. known \in BOOLEAN /\ arpLAN \in BOOLEAN /\ fvpn \in BOOLEAN /\ vpn \in BOOLEAN
    BY <1>1, StaticAssumption DEF Init
  <2>3. mac \in AnyMAC /\ (~known => mac = NoMAC)
    BY <1>1 DEF Init, AnyMAC
  <2>4. lan = NoNet /\ next = NoNet /\ spc = "idle" /\ ppc = "sleep" /\ fpc = "wait"
        /\ dpc = "none" /\ NoMAC = arpMAC /\ NoMAC = pmac /\ NoMAC = fmac /\ NoMAC = dmac
    BY <1>1 DEF Init
  <2> QED
    BY <2>1, <2>2, <2>3, <2>4 DEF TypeOK, AnyMAC
<1> QED
    BY <1>1, TypeStep, PTL DEF Spec

-----------------------------------------------------------------------------
\* Whoever is about to write a MAC has one.
MACInHand ==
    /\ ppc \in {"adopt", "repin"} => pmac # NoMAC
    /\ fpc # "wait" => fmac # NoMAC

\* DecidePin neither adopts nor pins an empty MAC, and a frame has its sender's.
LEMMA InHandStep == TypeOK /\ MACInHand /\ [Next]_vars => MACInHand'
<1> SUFFICES ASSUME TypeOK, MACInHand, [Next]_vars PROVE MACInHand'
    OBVIOUS
<1> USE DEF MACInHand, TypeOK
<1>1. CASE PinLookup
    BY <1>1 DEF PinLookup, LookupARP, DecidePin, onLAN
<1>2. CASE PinSnapshot \/ PinAdopt \/ PinRepin \/ Expire
    BY <1>2 DEF PinSnapshot, PinAdopt, PinRepin, Expire
<1>3. CASE Sniffer
    BY <1>3 DEF Sniffer, CaptureSYN, SynState, SynLookup, SynARP, SynPin, SynSeen
<1>4. CASE DetectLAN \/ Discovery \/ Environment \/ UNCHANGED vars
  <2>1. UNCHANGED <<pinVars, synVars>>
    BY <1>4 DEF DetectLAN, FirstLAN, ChangeLAN, SetLAN, Discovery, Accept, Discover,
       DiscoverARP, DiscoverSeen, Environment, KernelLearns, CiscoHijacks, VPNChanges,
       Rotate, Roam
  <2> QED
    BY <2>1
<1> QED
    BY <1>1, <1>2, <1>3, <1>4 DEF Next, Pinner

\* A step moves MACs only from one of the five places to another, from the client
\* itself, or forgets them.
LEMMA ReachableStep ==
    ASSUME TypeOK, MACInHand, [Next]_vars, NoStaleMAC, UNCHANGED <<net, holder>>
    PROVE  NoStaleMAC' /\ (arpMAC = holder /\ arpLAN /\ arpLAN' => arpMAC' = holder)
<1> USE DEF NoStaleMAC
<1>1. CASE DetectLAN
    BY <1>1 DEF DetectLAN, FirstLAN, ChangeLAN, SetLAN, resetNetwork
<1>2. CASE PinSnapshot \/ PinAdopt \/ Expire
    BY <1>2 DEF PinSnapshot, PinAdopt, setMAC, Expire
<1>3. CASE PinLookup
  <2>1. pmac' \in {NoMAC, pmac, arpMAC}
    BY <1>3 DEF PinLookup, LookupARP, DecidePin, onLAN
  <2> QED
    BY <1>3, <2>1 DEF PinLookup
<1>4. CASE PinRepin
  <2>1. pmac = holder
    BY <1>4 DEF PinRepin, MACInHand
  <2> QED
    BY <1>4, <2>1 DEF PinRepin, Pin
<1>5. CASE CaptureSYN \/ SynState \/ SynLookup \/ SynARP \/ SynSeen
    BY <1>5 DEF CaptureSYN, SynState, SynLookup, SynARP, SynSeen, seen
<1>6. CASE SynPin
  <2>1. fmac = holder
    BY <1>6 DEF SynPin, MACInHand
  <2> QED
    BY <1>6, <2>1 DEF SynPin, Pin
<1>7. CASE Discovery
    BY <1>7 DEF Discovery, Accept, Discover, DiscoverARP, DiscoverSeen, LookupARP, onLAN,
       seen
<1>8. CASE KernelLearns \/ CiscoHijacks \/ VPNChanges
    BY <1>8 DEF KernelLearns, CiscoHijacks, VPNChanges
<1>9. ASSUME NEW m \in MACs, Rotate(m) PROVE FALSE
    BY <1>9 DEF Rotate
<1>10. ASSUME NEW n \in Nets, NEW m \in AnyMAC, Roam(n, m) PROVE FALSE
    BY <1>10 DEF Roam
<1>11. CASE UNCHANGED vars
    BY <1>11
<1> QED
    BY <1>1, <1>2, <1>3, <1>4, <1>5, <1>6, <1>7, <1>8, <1>9, <1>10, <1>11
       DEF Next, Pinner, Sniffer, Environment

\* Once the registry, the kernel and every goroutine have the client's own MAC or
\* none, no interleaving of pinner, sniffer, discovery and reset leads away from it.
THEOREM ReachableCorrect == Spec => StaysReachable
<1>1. Init => MACInHand
    BY DEF Init, MACInHand
<1>2. TypeOK /\ MACInHand /\ [Next]_vars =>
        [NoStaleMAC /\ UNCHANGED <<net, holder>> =>
           /\ NoStaleMAC'
           /\ arpMAC = holder /\ arpLAN /\ arpLAN' => arpMAC' = holder]_vars
    BY ReachableStep
<1> QED
    BY <1>1, <1>2, TypeCorrect, InHandStep, PTL DEF Spec, StaysReachable

=============================================================================
