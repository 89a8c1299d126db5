----------------------------- MODULE ClientExpiry -----------------------------
(***************************************************************************)
(* How long the registry keeps a LAN client: seen, lookup, expire and      *)
(* resetNetwork of the clientRegistry and discoverClient (clients.go), the *)
(* connTracker's remoteIPs (proxy.go), the sniffer's seen (sniff.go) and   *)
(* the expiry of startPinner (service.go).  Which MAC a client gets is the *)
(* subject of ArpPinning.                                                  *)
(*                                                                         *)
(* The connection's goroutine and the pinner read the clock first and use  *)
(* the time later, under the registry's mutex; the pinner takes the set of *)
(* live connections in between.  A point in time is modelled by its age,   *)
(* the ticks since then, counted up to Old.  The model starts once         *)
(* ciscoReady is closed, when the pinner begins its loop.                  *)
(***************************************************************************)
EXTENDS Naturals

CONSTANTS
    IPs,            \* client addresses in the LAN's subnet
    Static,         \* those in lan_clients
    Conns,          \* LAN connections
    NoIP,           \* of a connection that is not there
    TTL,            \* discoveredClientTTL
    Refresh,        \* clientRefreshInterval
    ExpireInterval, \* clientExpireInterval
    MaxDelay        \* bound: ticks from reading the clock to using the time

ASSUME StaticAssumption == Static \subseteq IPs /\ NoIP \notin IPs
ASSUME TimeAssumption ==
    /\ TTL \in Nat /\ Refresh \in Nat /\ ExpireInterval \in Nat /\ MaxDelay \in Nat
    /\ Refresh + MaxDelay < TTL

VARIABLES
    known,      \* the addresses in the registry
    hasMAC,     \* the entries with a MAC
    age,        \* the age of the entry's lastSeen, Old without an entry
    tracked,    \* the connTracker's connections
    cpc,        \* where the goroutine of each connection is
    cip,        \* its peer
    cnow,       \* the age of the time that discoverClient has read
    old,        \* connections of a network that the host has left
    changing,   \* the LAN has changed and the listener is still the old one
    ppc,        \* where the pinner is
    pnow,       \* the age of the time that it has read
    live,       \* its set of addresses with live connections
    sinceExpire,\* the age of lastExpire
    accepted    \* history: the age of the last connection that was discovered

regVars == <<known, hasMAC, age>>
connVars == <<tracked, cpc, cip, cnow, old, changing>>
pinVars == <<ppc, pnow, live, sinceExpire>>
vars == <<regVars, connVars, pinVars, accepted>>

\* The age from which on nothing changes any more.
Old == TTL + MaxDelay

\* State variables have values of the right shape, a static client is always
\* registered, and only the connections of running goroutines are tracked.
TypeOK ==
    /\ known \subseteq IPs /\ Static \subseteq known
    /\ hasMAC \subseteq known
    /\ age \in [IPs -> 0..Old] /\ accepted \in [IPs -> 0..TTL]
    /\ tracked \subseteq Conns /\ old \subseteq Conns
    /\ cpc \in [Conns -> {"free", "added", "lookup", "arp", "serving"}]
    /\ cip \in [Conns -> IPs \cup {NoIP}]
    /\ \A c \in Conns : cpc[c] # "free" => cip[c] \in IPs
    /\ \A c \in tracked : cpc[c] # "free"
    /\ cnow \in [Conns -> 0..MaxDelay]
    /\ changing \in BOOLEAN
    /\ ppc \in {"sleep", "live", "expire"}
    /\ pnow \in 0..MaxDelay
    /\ live \subseteq IPs
    /\ sinceExpire \in 0..ExpireInterval

\* A zero time is older than everything.
Init ==
    /\ known = Static /\ hasMAC \in SUBSET Static
    /\ age = [i \in IPs |-> Old] /\ accepted = [i \in IPs |-> TTL]
    /\ tracked = {} /\ old = {} /\ changing = FALSE
    /\ cpc = [c \in Conns |-> "free"] /\ cip = [c \in Conns |-> NoIP]
    /\ cnow = [c \in Conns |-> 0]
    /\ ppc = "sleep" /\ pnow = 0 /\ live = {} /\ sinceExpire = ExpireInterval

Older(a, bound) == IF a < bound THEN a + 1 ELSE a

\* Time passes, but not beyond MaxDelay for who has read the clock.
Tick ==
    /\ ppc # "sleep" => pnow < MaxDelay
    /\ \A c \in Conns : cpc[c] \in {"lookup", "arp"} => cnow[c] < MaxDelay
    /\ age' = [i \in IPs |-> Older(age[i], Old)]
    /\ accepted' = [i \in IPs |-> Older(accepted[i], TTL)]
    /\ cnow' = [c \in Conns |-> IF cpc[c] \in {"lookup", "arp"} THEN cnow[c] + 1 ELSE 0]
    /\ pnow' = IF ppc # "sleep" THEN pnow + 1 ELSE 0
    /\ sinceExpire' = Older(sinceExpire, ExpireInterval)
    /\ UNCHANGED <<known, hasMAC, tracked, cpc, cip, old, changing, ppc, live>>

-----------------------------------------------------------------------------
(* The registry, each operation under its mutex *)

\* The client is registered, with the time t ticks ago; an empty MAC does not
\* replace a known one.
seen(i, mac, t) ==
    /\ known' = known \cup {i}
    /\ hasMAC' = IF mac THEN hasMAC \cup {i} ELSE hasMAC
    /\ age' = [age EXCEPT ![i] = t]

\* Variant: live connections do not count.
outdatedOnly(i) == i \notin Static /\ age[i] >= TTL + pnow

\* Variant: lastSeen - now.
outdatedSwapped(i) == i \notin Static /\ i \notin live /\ pnow >= TTL + age[i]

\* expire drops the client: now - lastSeen >= ttl, for the time now that was read
\* pnow ticks ago.
outdated(i) == i \notin Static /\ i \notin live /\ age[i] >= TTL + pnow

-----------------------------------------------------------------------------
(* A LAN connection *)

connFrame == UNCHANGED <<pinVars, changing>>

\* Accept and connTracker.add; the goroutine starts.
Add(c, i) ==
    /\ cpc[c] = "free"
    /\ tracked' = tracked \cup {c}
    /\ cpc' = [cpc EXCEPT ![c] = "added"] /\ cip' = [cip EXCEPT ![c] = i]
    /\ old' = IF changing THEN old \cup {c} ELSE old
    /\ UNCHANGED <<regVars, cnow, accepted>> /\ connFrame

\* discoverClient reads State and the clock.
DiscoverNow(c) ==
    /\ cpc[c] = "added"
    /\ cpc' = [cpc EXCEPT ![c] = "lookup"]
    /\ UNCHANGED <<regVars, tracked, cip, cnow, old, accepted>> /\ connFrame

\* The peer is not in the subnet that State holds by now.
DiscoverSkipped(c) ==
    /\ cpc[c] = "added" /\ c \in old
    /\ cpc' = [cpc EXCEPT ![c] = "serving"]
    /\ UNCHANGED <<regVars, tracked, cip, cnow, old, accepted>> /\ connFrame

\* Variant: a client that is known is never refreshed.
refreshOnce(c) == cip[c] \notin hasMAC

needsRefresh(c) == cip[c] \notin hasMAC \/ age[cip[c]] >= Refresh + cnow[c]

\* The registry is looked up: the entry is fresh, and the connection is served.
DiscoverFresh(c) ==
    /\ cpc[c] = "lookup" /\ ~needsRefresh(c)
    /\ cpc' = [cpc EXCEPT ![c] = "serving"]
    /\ cnow' = [cnow EXCEPT ![c] = 0]
    /\ accepted' = [accepted EXCEPT ![cip[c]] = 0]
    /\ UNCHANGED <<regVars, tracked, cip, old>> /\ connFrame

DiscoverLookup(c) ==
    /\ cpc[c] = "lookup" /\ needsRefresh(c)
    /\ cpc' = [cpc EXCEPT ![c] = "arp"]
    /\ UNCHANGED <<regVars, tracked, cip, cnow, old, accepted>> /\ connFrame

\* ARP has been asked; it may know a MAC.
DiscoverSeen(c, mac) ==
    /\ cpc[c] = "arp"
    /\ seen(cip[c], mac, cnow[c])
    /\ cpc' = [cpc EXCEPT ![c] = "serving"]
    /\ cnow' = [cnow EXCEPT ![c] = 0]
    /\ accepted' = [accepted EXCEPT ![cip[c]] = 0]
    /\ UNCHANGED <<tracked, cip, old>> /\ connFrame

\* Variant: the goroutine leaves the connection in the tracker.
removeForgotten(c) == tracked

remove(c) == tracked \ {c}

\* ServeConn returns, and the goroutine removes the connection.
ConnEnds(c) ==
    /\ cpc[c] = "serving"
    /\ tracked' = remove(c) /\ old' = old \ {c}
    /\ cpc' = [cpc EXCEPT ![c] = "free"] /\ cip' = [cip EXCEPT ![c] = NoIP]
    /\ UNCHANGED <<regVars, cnow, accepted>> /\ connFrame

\* closeAll, when the VPN is lost: the tracker forgets what it closes.
closeAll ==
    /\ tracked # {}
    /\ tracked' = {}
    /\ UNCHANGED <<regVars, cpc, cip, cnow, old, changing, pinVars, accepted>>

-----------------------------------------------------------------------------
(* The network changes: detectLAN resets the registry, the owner of the
   listener re-binds it and closes the old connections *)

resetNetwork ==
    /\ known' = Static /\ hasMAC' = {}
    /\ age' = [i \in IPs |-> IF i \in Static THEN age[i] ELSE Old]
    /\ old' = {c \in Conns : cpc[c] # "free"}
    /\ changing' = TRUE
    /\ UNCHANGED <<tracked, cpc, cip, cnow, pinVars, accepted>>

closeLAN ==
    /\ changing
    /\ tracked' = {} /\ changing' = FALSE
    /\ UNCHANGED <<regVars, cpc, cip, cnow, old, pinVars, accepted>>

-----------------------------------------------------------------------------
(* The sniffer sees a SYN; the pinner adopts a MAC, and expires *)

observeSYN(i) ==
    /\ seen(i, TRUE, 0)
    /\ UNCHANGED <<connVars, pinVars, accepted>>

setMAC(i) ==
    /\ i \in known \ hasMAC
    /\ hasMAC' = hasMAC \cup {i}
    /\ UNCHANGED <<known, age, connVars, pinVars, accepted>>

pinFrame == UNCHANGED <<connVars, accepted>>

PinnerNow ==
    /\ ppc = "sleep" /\ sinceExpire = ExpireInterval
    /\ ppc' = "live" /\ sinceExpire' = 0
    /\ UNCHANGED <<regVars, pnow, live>> /\ pinFrame

remoteIPs ==
    /\ ppc = "live"
    /\ live' = {cip[c] : c \in tracked}
    /\ ppc' = "expire"
    /\ UNCHANGED <<regVars, pnow, sinceExpire>> /\ pinFrame

expire ==
    /\ ppc = "expire"
    /\ known' = {i \in known : ~outdated(i)}
    /\ hasMAC' = {i \in hasMAC : ~outdated(i)}
    /\ age' = [i \in IPs |-> IF outdated(i) THEN Old ELSE age[i]]
    /\ ppc' = "sleep" /\ pnow' = 0 /\ live' = {}
    /\ UNCHANGED sinceExpire /\ pinFrame

-----------------------------------------------------------------------------
Discover(c) ==
    \/ DiscoverNow(c) \/ DiscoverSkipped(c) \/ DiscoverFresh(c) \/ DiscoverLookup(c)
    \/ \E mac \in BOOLEAN : DiscoverSeen(c, mac)

Pinner == PinnerNow \/ remoteIPs \/ expire

Clients ==
    \/ \E c \in Conns, i \in IPs : Add(c, i)
    \/ \E c \in Conns : ConnEnds(c)
    \/ \E i \in IPs : observeSYN(i) \/ setMAC(i)
    \/ closeAll

Next ==
    \/ Tick \/ Pinner \/ Clients \/ resetNetwork \/ closeLAN
    \/ \E c \in Conns : Discover(c)

\* Time passes and the goroutines are scheduled; clients need not come or go.
Fairness == WF_vars(Tick) /\ WF_vars(Pinner) /\ \A c \in Conns : WF_vars(Discover(c))

Spec == Init /\ [][Next]_vars /\ Fairness

-----------------------------------------------------------------------------
\* While a connection of the current network is open and past discoverClient, its
\* client is registered, so that the pinner keeps it reachable: the expiry works
\* with a time and a set of live connections that may both be older than the
\* connection, and the discovery may have found the entry fresh and left it alone.
ServedIsRegistered ==
    \A c \in tracked : cpc[c] = "serving" /\ c \notin old => cip[c] \in known

\* A client is dropped only when its last connection was discovered long ago: a
\* refresh interval and the delays of both goroutines may be missing from the time
\* to live, no more.
KeptAfterAccept ==
    [][ppc = "expire" /\ ppc' = "sleep" =>
          \A i \in known \ known' : accepted[i] + Refresh + MaxDelay >= TTL]_vars

\* A client that is not seen any more and has no connection is forgotten.
Forgotten ==
    \A i \in IPs \ Static :
        <>[](age[i] = Old /\ \A c \in Conns : cip[c] # i) => <>[](i \notin known)

=============================================================================
