---------------------------- MODULE SnifferProofs ----------------------------
(***************************************************************************)
(* tcpdump does not outlive sniffLAN, and the LAN that detection moves     *)
(* into State is a physical interface and the subnet of one of its         *)
(* addresses, whatever the tables of routes and interfaces are.            *)
(*                                                                         *)
(* DetectLAN is four loops that return the first element of a list with    *)
(* some quality.  What they return follows from FirstFound, which rests on *)
(* the order of the natural numbers being well-founded.                    *)
(***************************************************************************)
EXTENDS Sniffer, TLAPS, WellFoundedInduction

\* What Stream has of tcpdump at each point.
ProcessAt ==
    /\ dump \in {"none", "running", "dead"}
    /\ spc \in {"top", "nolan", "watch", "scan", "line", "drain", "wait", "retry",
                "returned"}
    /\ spc \in {"scan", "line", "drain"} => dump # "none"

\* The inductive invariant.
IInv == ProcessAt /\ NoDumpLeft

USE DEF detectVars, snifferVars, vars, snifferFrame

\* Where sniffLAN returns, tcpdump has been waited for or was never started.
LEMMA ReturnStep == ASSUME sniffReturns, dump' = "none" PROVE IInv'
<1>1. spc' \in {"returned", "top", "retry"}
    BY DEF sniffReturns, sniffCtxDone
<1> QED
    BY <1>1 DEF IInv, ProcessAt, NoDumpLeft

\* Every step keeps the invariant: Wait is reached over the end of the output only.
LEMMA SniffStep == IInv /\ [Next]_vars => IInv'
<1> SUFFICES ASSUME IInv, [Next]_vars PROVE IInv'
    OBVIOUS
<1> USE DEF IInv, ProcessAt, NoDumpLeft
<1>1. CASE SnapshotEmpty \/ Snapshot
    BY <1>1 DEF SnapshotEmpty, Snapshot, Goes
<1>2. CASE SleepEnds
    BY <1>2 DEF SleepEnds, Goes
<1>3. CASE SleepCancelled
    BY <1>3 DEF SleepCancelled, Goes
<1>4. CASE DumpStarts
    BY <1>4 DEF DumpStarts
<1>5. CASE DumpStartFails
    BY <1>5, ReturnStep DEF DumpStartFails
<1>6. CASE LineDone
    BY <1>6 DEF LineDone, Goes
<1>7. CASE DumpEOF
    BY <1>7 DEF DumpEOF, Goes
<1>8. CASE DumpWaited
    BY <1>8, ReturnStep DEF DumpWaited
<1>9. CASE Pollers
    BY <1>9 DEF Pollers, PollerCancels, PollerEnds, StrayEnds
<1>10. CASE DumpKilled
    BY <1>10 DEF DumpKilled, DumpDies
<1>11. CASE ScanLine
    BY <1>11 DEF ScanLine, Goes
<1>12. CASE ScannerStops
    BY <1>12 DEF ScannerStops, Goes, afterScanner
<1>13. CASE DumpExits
    BY <1>13 DEF DumpExits, DumpDies
<1>14. CASE Detection \/ Cancel \/ UNCHANGED vars
    BY <1>14 DEF Detection, Cancel
<1> QED
    BY <1>1, <1>2, <1>3, <1>4, <1>5, <1>6, <1>7, <1>8, <1>9, <1>10, <1>11, <1>12, <1>13,
       <1>14 DEF Next, Sniff

\* Stream waits for tcpdump only when nothing is left to be read, so that Wait does
\* not block on a process that blocks on its pipe; and startSniffer never goes on
\* with the process of an earlier sniffLAN.
THEOREM SnifferCorrect == Spec => []NoDumpLeft
<1>1. Init => IInv
    BY DEF Init, IInv, ProcessAt, NoDumpLeft
<1>2. IInv => NoDumpLeft
    BY DEF IInv
<1> QED
    BY <1>1, <1>2, SniffStep, PTL DEF Spec

-----------------------------------------------------------------------------
(* The detection of the LAN *)

\* A set of positions has a smallest one.
LEMMA Smallest ==
    ASSUME NEW I, I \subseteq Nat, I # {}
    PROVE \E m \in I : \A k \in I : m <= k
<1>1. PICK m \in I : \A k \in I : <<k, m>> \notin OpToRel(<, Nat)
    BY WFMin, NatLessThanWellFounded, Zenon
<1>2. \A k \in I : ~(k < m)
    BY <1>1 DEF OpToRel
<1> QED
    BY <1>2

\* What a loop over s that returns at the first element in S returns: nothing if
\* no element is, and else an element of s that is in S.
LEMMA FirstFound ==
    ASSUME NEW A, NEW s \in Seq(A), NEW S
    PROVE /\ firstOf(s, S) = NoLAN \/ \E k \in DOMAIN s : firstOf(s, S) = s[k] /\ s[k] \in S
          /\ S = {} => firstOf(s, S) = NoLAN
<1> DEFINE found == {i \in DOMAIN s : s[i] \in S}
<1>1. CASE found = {}
    BY <1>1 DEF firstOf
<1>2. CASE found # {}
    <2> DEFINE m == CHOOSE i \in found : \A j \in found : i <= j
    <2>1. found \subseteq Nat
        OBVIOUS
    <2>2. \E i \in found : \A j \in found : i <= j
        BY <1>2, <2>1, Smallest
    <2>3. m \in found
        BY <2>2
    <2>4. firstOf(s, S) = s[m]
        BY <1>2 DEF firstOf
    <2> QED
        BY <2>3, <2>4
<1> QED
    BY <1>1, <1>2

\* What a detection finds: an interface that is no tunnel and no loopback, and an
\* address of it with the prefix length of an IPv4 address.
Found(t, d) ==
    /\ d.iface \in Names /\ kindOf[d.iface] \notin {"tunnel", "loopback"}
    /\ d.addr \in Addrs(t, d.iface)
    /\ prefixLen(d.addr) \in 0..32
    /\ d = [iface |-> d.iface, addr |-> d.addr]

\* The loops over an interface's addresses return an address of the interface with
\* such a prefix length.
LEMMA PrefixFound ==
    ASSUME NEW t \in Tables, NEW i \in Names
    PROVE /\ connectedPrefix(t, i) # NoLAN =>
                 connectedPrefix(t, i) \in Addrs(t, i) /\ ipv4Prefix(connectedPrefix(t, i))
          /\ privatePrefix(t, i) # NoLAN =>
                 privatePrefix(t, i) \in Addrs(t, i) /\ ipv4Prefix(privatePrefix(t, i))
<1>1. t.addrs[i] \in Seq(Addresses)
    BY TablesAssumption
<1> DEFINE C == {a \in Addresses : ipv4Prefix(a) /\ a.class \notin {"loopback", "linklocal"}}
           P == {a \in Addresses : ipv4Prefix(a) /\ a.class = "private"}
<1> HIDE DEF C, P
<1>2. connectedPrefix(t, i) = NoLAN
        \/ \E k \in DOMAIN t.addrs[i] :
               connectedPrefix(t, i) = t.addrs[i][k] /\ t.addrs[i][k] \in C
    BY <1>1, FirstFound, Zenon DEF connectedPrefix, C
<1>3. privatePrefix(t, i) = NoLAN
        \/ \E k \in DOMAIN t.addrs[i] :
               privatePrefix(t, i) = t.addrs[i][k] /\ t.addrs[i][k] \in P
    BY <1>1, FirstFound, Zenon DEF privatePrefix, P
<1>4. (\A a \in C : ipv4Prefix(a)) /\ (\A a \in P : ipv4Prefix(a))
    BY DEF C, P
<1> QED
    BY <1>2, <1>3, <1>4 DEF Addrs

\* The interface of the default route, if there is one.
LEMMA RouteFound ==
    ASSUME NEW t \in Tables, defaultLAN(t) # NoLAN
    PROVE /\ defaultLAN(t) \in Names /\ kindOf[defaultLAN(t)] \notin {"tunnel", "loopback"}
          /\ connectedPrefix(t, defaultLAN(t)) # NoLAN
<1> DEFINE S == {i \in Names : kindOf[i] \notin {"tunnel", "loopback"}}
<1> HIDE DEF S
<1>1. t.routes \in Seq(Names)
    BY TablesAssumption
<1>2. defaultLAN(t) = parseDefaultNonTunnel(t) /\ connectedPrefix(t, defaultLAN(t)) # NoLAN
    BY DEF defaultLAN
<1>3. parseDefaultNonTunnel(t) = NoLAN \/ parseDefaultNonTunnel(t) \in S
    BY <1>1, FirstFound DEF parseDefaultNonTunnel, S
<1> QED
    BY <1>2, <1>3 DEF S

\* The candidate picked, if there is one: the interface in use if it qualifies and
\* the interfaces can be listed.
LEMMA CandidateFound ==
    ASSUME NEW t \in Tables, NEW p
    PROVE LET c == pickCandidate(rfc1918Candidates(t), p) IN
          c # NoLAN =>
              /\ c \in Names /\ qualifies(t, c)
              /\ p \in Names /\ qualifies(t, p) => c = p
<1> DEFINE C == rfc1918Candidates(t)
           c == pickCandidate(C, p)
<1>1. firstOf(Order, C) = NoLAN \/ firstOf(Order, C) \in C
    BY NamesAssumption, FirstFound
<1>2. C = {} => firstOf(Order, C) = NoLAN
    BY NamesAssumption, FirstFound
<1>3. SUFFICES ASSUME c # NoLAN
      PROVE c \in Names /\ qualifies(t, c) /\ (p \in Names /\ qualifies(t, p) => c = p)
    OBVIOUS
<1>4. c \in C
    BY <1>1, <1>3 DEF pickCandidate
<1>5. t.listed
    BY <1>4 DEF rfc1918Candidates
<1>6. p \in Names /\ qualifies(t, p) => p \in C
    BY <1>5 DEF rfc1918Candidates
<1> QED
    BY <1>4, <1>6 DEF pickCandidate, rfc1918Candidates

\* Either the default route decides, or a qualified candidate is picked, the one in
\* use before any other.
LEMMA Detects ==
    ASSUME NEW t \in Tables, NEW p, DetectLAN(t, p) # NoLAN
    PROVE LET d == DetectLAN(t, p) IN
          /\ Found(t, d)
          /\ d.iface = defaultLAN(t) \/ (p \in Names /\ qualifies(t, p) => d.iface = p)
<1> DEFINE c == pickCandidate(rfc1918Candidates(t), p)
<1>1. CASE defaultLAN(t) # NoLAN
    <2> DEFINE i == defaultLAN(t)
               a == connectedPrefix(t, i)
    <2>1. DetectLAN(t, p) = [iface |-> i, addr |-> a]
        BY <1>1 DEF DetectLAN
    <2>2. i \in Names /\ kindOf[i] \notin {"tunnel", "loopback"} /\ a # NoLAN
        BY <1>1, RouteFound
    <2>3. a \in Addrs(t, i) /\ ipv4Prefix(a)
        BY <2>2, PrefixFound
    <2> HIDE DEF i, a
    <2> QED
        BY <2>1, <2>2, <2>3 DEF Found, ipv4Prefix, i
<1>2. CASE defaultLAN(t) = NoLAN /\ c # NoLAN
    <2> DEFINE a == privatePrefix(t, c)
    <2>1. DetectLAN(t, p) = [iface |-> c, addr |-> a]
        BY <1>2 DEF DetectLAN
    <2>2. c \in Names /\ qualifies(t, c) /\ (p \in Names /\ qualifies(t, p) => c = p)
        BY <1>2, CandidateFound
    <2>3. kindOf[c] = "lan" /\ a # NoLAN
        BY <2>2 DEF qualifies
    <2>4. a \in Addrs(t, c) /\ ipv4Prefix(a)
        BY <2>2, <2>3, PrefixFound
    <2> HIDE DEF a, c
    <2> QED
        BY <2>1, <2>2, <2>3, <2>4 DEF Found, ipv4Prefix
<1>3. CASE defaultLAN(t) = NoLAN /\ c = NoLAN
    BY <1>3 DEF DetectLAN
<1> QED
    BY <1>1, <1>2, <1>3

\* What is found can be shown as a snapshot.
LEMMA FoundIsShown ==
    ASSUME NEW t \in Tables, NEW d, Found(t, d)
    PROVE snapshotOf(d) \in Snapshots /\ d.addr \in AllAddrs
<1>1. d.iface \in Names /\ d.addr \in Addrs(t, d.iface)
    BY DEF Found
<1>2. d.addr \in Addresses
    BY <1>1, TablesAssumption DEF Addrs
<1>3. snapshotOf(d) = [iface |-> d.iface, subnet |-> subnetOf(d.addr)]
    BY DEF snapshotOf
<1> QED
    BY <1>1, <1>2, <1>3 DEF Snapshots, AllAddrs

\* The inductive invariant of the detection.
DInv == DetectTypeOK /\ LanIsPhysical

\* The interface in use is NoLAN or an interface.
LEMMA InUseTyped ==
    ASSUME DInv
    PROVE inUse \in Names \cup {NoLAN} /\ (lan # NoLAN => inUse = lan.iface /\ inUse \in Names)
<1>1. lan # NoLAN => lan.iface \in Names
    BY DEF DInv, DetectTypeOK, Snapshots
<1> QED
    BY <1>1 DEF inUse

\* confirmLAN keeps the invariant for whatever a detection finds: interface and
\* subnet move together, and the address alone only within the subnet in State.
LEMMA ConfirmStep ==
    ASSUME DInv, NEW d, Found(table, d), confirmLAN(d), UNCHANGED <<table, groupDone>>
    PROVE DInv'
<1> DEFINE next == snapshotOf(d)
<1>1. next \in Snapshots /\ d.addr \in AllAddrs
    BY FoundIsShown DEF DInv, DetectTypeOK
<1>2. /\ kindOf[next.iface] \notin {"tunnel", "loopback"}
      /\ next.subnet = subnetOf(d.addr) /\ next.subnet[2] \in 0..32
    BY DEF Found, snapshotOf, subnetOf
<1> HIDE DEF next
<1>3. \/ lan' = next /\ lanAddr' = d.addr
      \/ lan' = lan /\ lanAddr' = lanAddr
    BY DEF confirmLAN, addrOnSameLAN, next
<1>4. pendingLAN' = NoLAN \/ pendingLAN' = next
    BY DEF confirmLAN, next
<1>5. Snapshots' = Snapshots /\ AllAddrs' = AllAddrs
    BY DEF Snapshots, AllAddrs
<1>6. CASE lan' = next /\ lanAddr' = d.addr
    BY <1>1, <1>2, <1>4, <1>6 DEF DInv, DetectTypeOK, LanIsPhysical, subnetOf, prefixLen
<1>7. CASE lan' = lan /\ lanAddr' = lanAddr
    BY <1>1, <1>2, <1>4, <1>7 DEF DInv, DetectTypeOK, LanIsPhysical, subnetOf, prefixLen
<1> QED
    BY <1>3, <1>6, <1>7

\* detectLAN applies what it found to the table that it has read, or nothing.
LEMMA DetectionRead ==
    ASSUME DInv, detectLAN
    PROVE LET d == DetectLAN(table, inUse) IN
          \/ pendingLAN' = NoLAN /\ UNCHANGED <<lan, lanAddr>>
          \/ d # NoLAN /\ confirmLAN(d)
<1>1. table \in Tables /\ inUse \in Names \cup {NoLAN}
    BY InUseTyped DEF DInv, DetectTypeOK
<1>2. detected[table][inUse] = DetectLAN(table, inUse)
    BY <1>1 DEF detected
<1> QED
    BY <1>2 DEF detectLAN

\* Every step keeps the invariant of the detection.
LEMMA DetectStep == DInv /\ [Next]_vars => DInv'
<1> SUFFICES ASSUME DInv, [Next]_vars PROVE DInv'
    OBVIOUS
<1>1. CASE detectLAN
    <2> DEFINE d == DetectLAN(table, inUse)
    <2>1. UNCHANGED <<table, groupDone>>
        BY <1>1 DEF detectLAN
    <2>2. CASE pendingLAN' = NoLAN /\ UNCHANGED <<lan, lanAddr>>
        BY <2>1, <2>2 DEF DInv, DetectTypeOK, LanIsPhysical
    <2>3. CASE d # NoLAN /\ confirmLAN(d)
        <3>1. Found(table, d)
            BY <2>3, Detects DEF DInv, DetectTypeOK
        <3> QED
            BY <2>1, <2>3, <3>1, ConfirmStep
    <2> QED
        BY <1>1, <2>2, <2>3, DetectionRead
<1>2. CASE \E t \in Tables : TableChanges(t)
    BY <1>2 DEF TableChanges, DInv, DetectTypeOK, LanIsPhysical
<1>3. CASE UNCHANGED <<table, lan, lanAddr, pendingLAN>> /\ groupDone' \in BOOLEAN
    BY <1>3 DEF DInv, DetectTypeOK, LanIsPhysical
<1>4. CASE UNCHANGED vars
    BY <1>4 DEF DInv, DetectTypeOK, LanIsPhysical
<1>5. Sniff \/ Pollers \/ DumpKilled \/ ScanLine \/ ScannerStops \/ DumpExits
        => UNCHANGED <<table, lan, lanAddr, pendingLAN, groupDone>>
    BY DEF Sniff, SnapshotEmpty, Snapshot, SleepEnds, SleepCancelled, DumpStarts,
           DumpStartFails, LineDone, DumpEOF, DumpWaited, Pollers, PollerCancels,
           PollerEnds, StrayEnds, DumpKilled, ScanLine, ScannerStops, DumpExits,
           DumpDies, Goes, sniffReturns
<1>6. groupDone \in BOOLEAN
    BY DEF DInv, DetectTypeOK
<1>7. Cancel => UNCHANGED <<table, lan, lanAddr, pendingLAN>> /\ groupDone' \in BOOLEAN
    BY DEF Cancel
<1> QED
    BY <1>1, <1>2, <1>3, <1>4, <1>5, <1>6, <1>7 DEF Next, Detection

\* The LAN in State is never a tunnel or the loopback, and the address in State is
\* an address of its subnet, whatever routes and interfaces the host shows.
THEOREM LanCorrect == Spec => []LanIsPhysical
<1>1. Init => DInv
    BY DEF Init, DetectInit, DInv, DetectTypeOK, LanIsPhysical
<1>2. DInv => LanIsPhysical
    BY DEF DInv
<1> QED
    BY <1>1, <1>2, DetectStep, PTL DEF Spec

\* Another interface becomes the LAN only if a default route leads there or the one
\* in use no longer qualifies.
THEOREM InterfaceKept == Spec => KeepsInterface
<1>1. Init => DInv
    BY DEF Init, DetectInit, DInv, DetectTypeOK, LanIsPhysical
<1>2. DInv /\ [Next]_vars =>
          [lan # NoLAN /\ lan'.iface # lan.iface =>
              defaultLAN(table) = lan'.iface \/ ~qualifies(table, lan.iface)]_lan
    <2> SUFFICES ASSUME DInv, [Next]_vars, lan # NoLAN, lan'.iface # lan.iface
                 PROVE defaultLAN(table) = lan'.iface \/ ~qualifies(table, lan.iface)
        OBVIOUS
    <2> DEFINE d == DetectLAN(table, inUse)
    <2>1. detectLAN
        BY DEF Next, Detection, TableChanges, Cancel, Sniff, SnapshotEmpty, Snapshot, SleepEnds,
               SleepCancelled, DumpStarts, DumpStartFails, LineDone, DumpEOF, DumpWaited,
               Pollers, PollerCancels, PollerEnds, StrayEnds, DumpKilled, ScanLine,
               ScannerStops, DumpExits, DumpDies, Goes, sniffReturns
    <2>2. d # NoLAN /\ confirmLAN(d)
        BY <2>1, DetectionRead
    <2>3. lan' = snapshotOf(d)
        BY <2>2 DEF confirmLAN
    <2>4. lan'.iface = d.iface
        BY <2>3 DEF snapshotOf
    <2>5. inUse = lan.iface /\ inUse \in Names
        BY InUseTyped
    <2>6. d.iface = defaultLAN(table)
            \/ (inUse \in Names /\ qualifies(table, inUse) => d.iface = inUse)
        BY <2>2, Detects DEF DInv, DetectTypeOK
    <2> QED
        BY <2>4, <2>5, <2>6
<1> QED
    BY <1>1, <1>2, DetectStep, PTL DEF Spec, KeepsInterface

-----------------------------------------------------------------------------
(* Types *)

\* The rest of the types: the sniffer's snapshot is one of State's, and there is
\* room for the poller among those left behind.
SnapshotTyped ==
    /\ slan \in Snapshots \cup {NoLAN}
    /\ poller \in BOOLEAN /\ strays \in 0 .. MaxStrays /\ sniffDone \in BOOLEAN
    /\ poller => strays < MaxStrays

\* startSniffer takes its snapshot from State and drops it when sniffLAN returns.
LEMMA SnapshotStep == DInv /\ SnapshotTyped /\ [Next]_vars => SnapshotTyped'
<1> SUFFICES ASSUME DInv, SnapshotTyped, [Next]_vars PROVE SnapshotTyped'
    OBVIOUS
<1> USE MaxStraysAssumption
<1> USE DEF SnapshotTyped
<1>1. lan \in Snapshots \cup {NoLAN} /\ Snapshots' = Snapshots
    BY DEF DInv, DetectTypeOK, Snapshots
<1>2. CASE Snapshot
    BY <1>1, <1>2 DEF Snapshot
<1>3. CASE SnapshotEmpty \/ SleepEnds \/ SleepCancelled \/ LineDone \/ DumpEOF \/
         ScanLine \/ ScannerStops
  <2>1. UNCHANGED <<slan, poller, strays, sniffDone>>
    BY <1>3 DEF SnapshotEmpty, SleepEnds, SleepCancelled, LineDone, DumpEOF, ScanLine,
                ScannerStops, Goes
  <2> QED
    BY <1>1, <2>1
<1>4. CASE DumpStartFails \/ DumpWaited
  <2>1. sniffReturns
    BY <1>4 DEF DumpStartFails, DumpWaited
  <2>2. poller' = FALSE /\ sniffDone' = FALSE /\ slan' = NoLAN
    BY <2>1 DEF sniffReturns
  <2>3. strays' \in 0 .. MaxStrays
    <3>1. CASE poller
      BY <2>1, <3>1 DEF sniffReturns
    <3>2. CASE ~poller
      BY <2>1, <3>2 DEF sniffReturns
    <3> QED
      BY <3>1, <3>2
  <2> QED
    BY <1>1, <2>2, <2>3
<1>5. CASE DumpStarts \/ DumpKilled \/ DumpExits
  <2>1. UNCHANGED <<slan, poller, strays, sniffDone>>
    BY <1>5 DEF DumpStarts, DumpKilled, DumpExits, DumpDies
  <2> QED
    BY <1>1, <2>1
<1>6. CASE PollerCancels
    BY <1>1, <1>6 DEF PollerCancels
<1>7. CASE PollerEnds
    BY <1>1, <1>7 DEF PollerEnds
<1>8. CASE StrayEnds
    BY <1>1, <1>8 DEF StrayEnds
<1>9. CASE Detection \/ Cancel \/ UNCHANGED vars
  <2>1. UNCHANGED <<slan, poller, strays, sniffDone>>
    BY <1>9 DEF Detection, Cancel
  <2> QED
    BY <1>1, <2>1
<1> QED
    BY <1>2, <1>3, <1>4, <1>5, <1>6, <1>7, <1>8, <1>9 DEF Next, Sniff, Pollers

\* Every variable keeps its type; above all, no subnet in State has a prefix length
\* that no IPv4 address has, whatever masks the interfaces show.
THEOREM TypeCorrect == Spec => []TypeOK
<1> DEFINE TInv == IInv /\ DInv /\ SnapshotTyped
<1>1. Init => TInv
  <2> SUFFICES ASSUME Init PROVE TInv
    OBVIOUS
  <2>1. IInv
    BY DEF Init, IInv, ProcessAt, NoDumpLeft
  <2>2. DInv
    BY DEF Init, DetectInit, DInv, DetectTypeOK, LanIsPhysical
  <2>3. SnapshotTyped
    <3>1. 0 \in 0 .. MaxStrays /\ 0 < MaxStrays
      BY MaxStraysAssumption
    <3> QED
      BY <3>1 DEF Init, SnapshotTyped
  <2> QED
    BY <2>1, <2>2, <2>3
<1>2. TInv /\ [Next]_vars => TInv'
    BY SniffStep, DetectStep, SnapshotStep
<1>3. TInv => TypeOK
    BY DEF TypeOK, IInv, ProcessAt, DInv, SnapshotTyped
<1> HIDE DEF TInv
<1> QED
    BY <1>1, <1>2, <1>3, PTL DEF Spec

=============================================================================
