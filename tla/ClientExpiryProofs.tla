------------------------- MODULE ClientExpiryProofs -------------------------
(***************************************************************************)
(* The registry keeps the clients that are served, for every number of     *)
(* clients and connections and every choice of the intervals in which a    *)
(* refresh interval and a delay fit into the time to live.                 *)
(***************************************************************************)
EXTENDS ClientExpiry, TLAPS

\* An expiry that is under way does not touch the client of a connection that is
\* served: it is among the live ones, or it was refreshed since the clock was read.
ServedNotOutdated ==
    ppc = "expire" =>
        \A c \in tracked : cpc[c] = "serving" /\ c \notin old =>
            cip[c] \in live \/ age[cip[c]] < TTL + pnow

\* lastSeen lags behind the last discovery by no more than the refresh interval and
\* the delay.
LagBounded ==
    \A i \in known : accepted[i] = TTL \/ age[i] <= accepted[i] + Refresh + MaxDelay

\* The inductive invariant.
IInv ==
    /\ TypeOK
    /\ ServedIsRegistered
    /\ ServedNotOutdated
    /\ LagBounded

USE DEF regVars, connVars, pinVars, vars, connFrame, pinFrame

\* Every step keeps the types: only expire and resetNetwork drop clients, and never a
\* static one, and ConnEnds takes its connection out of the tracker.
LEMMA TypeStep == TypeOK /\ [Next]_vars => TypeOK'
<1> SUFFICES ASSUME TypeOK, [Next]_vars PROVE TypeOK'
    OBVIOUS
<1> USE StaticAssumption, TimeAssumption DEF TypeOK, Old
<1>1. CASE Tick
    BY <1>1 DEF Tick, Older
<1>2. CASE PinnerNow
    BY <1>2 DEF PinnerNow
<1>3. CASE remoteIPs
    BY <1>3 DEF remoteIPs
<1>4. CASE expire
    BY <1>4 DEF expire, outdated
<1>5. ASSUME NEW c \in Conns, NEW i \in IPs, Add(c, i)
      PROVE TypeOK'
    BY <1>5 DEF Add
<1>6. ASSUME NEW c \in Conns, ConnEnds(c)
      PROVE TypeOK'
    BY <1>6 DEF ConnEnds, remove
<1>7. ASSUME NEW i \in IPs, observeSYN(i)
      PROVE TypeOK'
    BY <1>7 DEF observeSYN, seen
<1>8. ASSUME NEW i \in IPs, setMAC(i)
      PROVE TypeOK'
    BY <1>8 DEF setMAC
<1>9. CASE closeAll
    BY <1>9 DEF closeAll
<1>10. CASE resetNetwork
    BY <1>10 DEF resetNetwork
<1>11. CASE closeLAN
    BY <1>11 DEF closeLAN
<1>12. ASSUME NEW c \in Conns, DiscoverNow(c)
      PROVE TypeOK'
    BY <1>12 DEF DiscoverNow
<1>13. ASSUME NEW c \in Conns, DiscoverSkipped(c)
      PROVE TypeOK'
    BY <1>13 DEF DiscoverSkipped
<1>14. ASSUME NEW c \in Conns, DiscoverFresh(c)
      PROVE TypeOK'
    BY <1>14 DEF DiscoverFresh, needsRefresh
<1>15. ASSUME NEW c \in Conns, DiscoverLookup(c)
      PROVE TypeOK'
    BY <1>15 DEF DiscoverLookup
<1>16. ASSUME NEW c \in Conns, NEW mac \in BOOLEAN, DiscoverSeen(c, mac)
      PROVE TypeOK'
    BY <1>16 DEF DiscoverSeen, seen
<1>17. CASE UNCHANGED vars
    BY <1>17
<1> QED
    BY <1>1, <1>2, <1>3, <1>4, <1>5, <1>6, <1>7, <1>8,
       <1>9, <1>10, <1>11, <1>12, <1>13, <1>14, <1>15, <1>16, <1>17
       DEF Next, Pinner, Clients, Discover

\* What is outdated for expire has no connection that is served.
LEMMA ServedStep == IInv /\ [Next]_vars => ServedIsRegistered'
<1> SUFFICES ASSUME IInv, [Next]_vars PROVE ServedIsRegistered'
    OBVIOUS
<1> USE StaticAssumption, TimeAssumption DEF IInv, TypeOK, ServedIsRegistered, ServedNotOutdated
<1>1. CASE Tick
    BY <1>1 DEF Tick, Older
<1>2. CASE PinnerNow
    BY <1>2 DEF PinnerNow
<1>3. CASE remoteIPs
    BY <1>3 DEF remoteIPs
<1>4. CASE expire
    BY <1>4 DEF expire, outdated
<1>5. ASSUME NEW c \in Conns, NEW i \in IPs, Add(c, i)
      PROVE ServedIsRegistered'
    BY <1>5 DEF Add
<1>6. ASSUME NEW c \in Conns, ConnEnds(c)
      PROVE ServedIsRegistered'
    BY <1>6 DEF ConnEnds, remove
<1>7. ASSUME NEW i \in IPs, observeSYN(i)
      PROVE ServedIsRegistered'
    BY <1>7 DEF observeSYN, seen
<1>8. ASSUME NEW i \in IPs, setMAC(i)
      PROVE ServedIsRegistered'
    BY <1>8 DEF setMAC
<1>9. CASE closeAll
    BY <1>9 DEF closeAll
<1>10. CASE resetNetwork
    BY <1>10 DEF resetNetwork
<1>11. CASE closeLAN
    BY <1>11 DEF closeLAN
<1>12. ASSUME NEW c \in Conns, DiscoverNow(c)
      PROVE ServedIsRegistered'
    BY <1>12 DEF DiscoverNow
<1>13. ASSUME NEW c \in Conns, DiscoverSkipped(c)
      PROVE ServedIsRegistered'
    BY <1>13 DEF DiscoverSkipped
<1>14. ASSUME NEW c \in Conns, DiscoverFresh(c)
      PROVE ServedIsRegistered'
    BY <1>14 DEF DiscoverFresh, needsRefresh
<1>15. ASSUME NEW c \in Conns, DiscoverLookup(c)
      PROVE ServedIsRegistered'
    BY <1>15 DEF DiscoverLookup
<1>16. ASSUME NEW c \in Conns, NEW mac \in BOOLEAN, DiscoverSeen(c, mac)
      PROVE ServedIsRegistered'
    BY <1>16 DEF DiscoverSeen, seen
<1>17. CASE UNCHANGED vars
    BY <1>17
<1> QED
    BY <1>1, <1>2, <1>3, <1>4, <1>5, <1>6, <1>7, <1>8,
       <1>9, <1>10, <1>11, <1>12, <1>13, <1>14, <1>15, <1>16, <1>17
       DEF Next, Pinner, Clients, Discover

\* A connection that is served after the live ones were taken was discovered since
\* then, and its client's age is below the time to live.
LEMMA OutdatedStep == IInv /\ [Next]_vars => ServedNotOutdated'
<1> SUFFICES ASSUME IInv, [Next]_vars PROVE ServedNotOutdated'
    OBVIOUS
<1> USE StaticAssumption, TimeAssumption DEF IInv, TypeOK, ServedNotOutdated, Old
<1>1. CASE Tick
    BY <1>1 DEF Tick, Older
<1>2. CASE PinnerNow
    BY <1>2 DEF PinnerNow
<1>3. CASE remoteIPs
    BY <1>3 DEF remoteIPs
<1>4. CASE expire
    BY <1>4 DEF expire, outdated
<1>5. ASSUME NEW c \in Conns, NEW i \in IPs, Add(c, i)
      PROVE ServedNotOutdated'
    BY <1>5 DEF Add
<1>6. ASSUME NEW c \in Conns, ConnEnds(c)
      PROVE ServedNotOutdated'
    BY <1>6 DEF ConnEnds, remove
<1>7. ASSUME NEW i \in IPs, observeSYN(i)
      PROVE ServedNotOutdated'
    BY <1>7 DEF observeSYN, seen
<1>8. ASSUME NEW i \in IPs, setMAC(i)
      PROVE ServedNotOutdated'
    BY <1>8 DEF setMAC
<1>9. CASE closeAll
    BY <1>9 DEF closeAll
<1>10. CASE resetNetwork
    BY <1>10 DEF resetNetwork
<1>11. CASE closeLAN
    BY <1>11 DEF closeLAN
<1>12. ASSUME NEW c \in Conns, DiscoverNow(c)
      PROVE ServedNotOutdated'
    BY <1>12 DEF DiscoverNow
<1>13. ASSUME NEW c \in Conns, DiscoverSkipped(c)
      PROVE ServedNotOutdated'
    BY <1>13 DEF DiscoverSkipped
<1>14. ASSUME NEW c \in Conns, DiscoverFresh(c)
      PROVE ServedNotOutdated'
    BY <1>14 DEF DiscoverFresh, needsRefresh
<1>15. ASSUME NEW c \in Conns, DiscoverLookup(c)
      PROVE ServedNotOutdated'
    BY <1>15 DEF DiscoverLookup
<1>16. ASSUME NEW c \in Conns, NEW mac \in BOOLEAN, DiscoverSeen(c, mac)
      PROVE ServedNotOutdated'
    BY <1>16 DEF DiscoverSeen, seen
<1>17. CASE UNCHANGED vars
    BY <1>17
<1> QED
    BY <1>1, <1>2, <1>3, <1>4, <1>5, <1>6, <1>7, <1>8,
       <1>9, <1>10, <1>11, <1>12, <1>13, <1>14, <1>15, <1>16, <1>17
       DEF Next, Pinner, Clients, Discover

\* A discovery finds the entry fresh or renews it; time adds to both ages.
LEMMA LagStep == IInv /\ [Next]_vars => LagBounded'
<1> SUFFICES ASSUME IInv, [Next]_vars PROVE LagBounded'
    OBVIOUS
<1> USE StaticAssumption, TimeAssumption DEF IInv, TypeOK, LagBounded, Old
<1>1. CASE Tick
    BY <1>1 DEF Tick, Older
<1>2. CASE PinnerNow
    BY <1>2 DEF PinnerNow
<1>3. CASE remoteIPs
    BY <1>3 DEF remoteIPs
<1>4. CASE expire
    BY <1>4 DEF expire, outdated
<1>5. ASSUME NEW c \in Conns, NEW i \in IPs, Add(c, i)
      PROVE LagBounded'
    BY <1>5 DEF Add
<1>6. ASSUME NEW c \in Conns, ConnEnds(c)
      PROVE LagBounded'
    BY <1>6 DEF ConnEnds, remove
<1>7. ASSUME NEW i \in IPs, observeSYN(i)
      PROVE LagBounded'
    BY <1>7 DEF observeSYN, seen
<1>8. ASSUME NEW i \in IPs, setMAC(i)
      PROVE LagBounded'
    BY <1>8 DEF setMAC
<1>9. CASE closeAll
    BY <1>9 DEF closeAll
<1>10. CASE resetNetwork
    BY <1>10 DEF resetNetwork
<1>11. CASE closeLAN
    BY <1>11 DEF closeLAN
<1>12. ASSUME NEW c \in Conns, DiscoverNow(c)
      PROVE LagBounded'
    BY <1>12 DEF DiscoverNow
<1>13. ASSUME NEW c \in Conns, DiscoverSkipped(c)
      PROVE LagBounded'
    BY <1>13 DEF DiscoverSkipped
<1>14. ASSUME NEW c \in Conns, DiscoverFresh(c)
      PROVE LagBounded'
    BY <1>14 DEF DiscoverFresh, needsRefresh
<1>15. ASSUME NEW c \in Conns, DiscoverLookup(c)
      PROVE LagBounded'
    BY <1>15 DEF DiscoverLookup
<1>16. ASSUME NEW c \in Conns, NEW mac \in BOOLEAN, DiscoverSeen(c, mac)
      PROVE LagBounded'
    BY <1>16 DEF DiscoverSeen, seen
<1>17. CASE UNCHANGED vars
    BY <1>17
<1> QED
    BY <1>1, <1>2, <1>3, <1>4, <1>5, <1>6, <1>7, <1>8,
       <1>9, <1>10, <1>11, <1>12, <1>13, <1>14, <1>15, <1>16, <1>17
       DEF Next, Pinner, Clients, Discover

\* The invariant holds at the start and every step keeps it.
LEMMA IInvInductive == Spec => []IInv
<1>1. ASSUME Init PROVE IInv
  <2>1. changing \in BOOLEAN
    BY <1>1 DEF Init
  <2>2. hasMAC \subseteq Static
    BY <1>1 DEF Init
  <2>3. TypeOK
    BY <1>1, <2>1, <2>2, StaticAssumption, TimeAssumption, SMT DEF Init, TypeOK, Old
  <2>4. ServedIsRegistered /\ ServedNotOutdated
    BY <1>1 DEF Init, ServedIsRegistered, ServedNotOutdated
  <2>5. LagBounded
    BY <1>1, StaticAssumption DEF Init, LagBounded
  <2> QED
    BY <2>3, <2>4, <2>5 DEF IInv
<1>2. IInv /\ [Next]_vars => IInv'
    BY TypeStep, ServedStep, OutdatedStep, LagStep DEF IInv
<1> QED
    BY <1>1, <1>2, PTL DEF Spec

\* The types of ClientExpiry hold; a static client is never dropped.
THEOREM TypeCorrect == Spec => []TypeOK
<1>1. IInv => TypeOK
    BY DEF IInv
<1> QED
    BY <1>1, IInvInductive, PTL

\* The client of a connection that is served is registered, although startPinner
\* takes the time and the live connections before it locks the registry.
THEOREM ServedCorrect == Spec => []ServedIsRegistered
<1>1. IInv => ServedIsRegistered
    BY DEF IInv
<1> QED
    BY <1>1, IInvInductive, PTL

\* expire drops only clients whose last discovery is as old as the time to live, up
\* to the refresh interval and the delay.
THEOREM KeptCorrect == Spec => KeptAfterAccept
<1>1. IInv /\ [Next]_vars
        => [ppc = "expire" /\ ppc' = "sleep" =>
              \A i \in known \ known' : accepted[i] + Refresh + MaxDelay >= TTL]_vars
  <2> SUFFICES ASSUME IInv, [Next]_vars, ppc = "expire", ppc' = "sleep",
                      NEW i \in known \ known'
               PROVE  accepted[i] + Refresh + MaxDelay >= TTL
    OBVIOUS
  <2>1. expire
    BY DEF Next, Pinner, Clients, Discover, Tick, PinnerNow, remoteIPs, Add, ConnEnds,
       observeSYN, setMAC, closeAll, resetNetwork, closeLAN, DiscoverNow,
       DiscoverSkipped, DiscoverFresh, DiscoverLookup, DiscoverSeen
  <2>2. age[i] >= TTL + pnow
    BY <2>1 DEF expire, outdated
  <2> QED
    BY <2>2, TimeAssumption DEF IInv, TypeOK, LagBounded, Old
<1> QED
    BY <1>1, IInvInductive, PTL DEF Spec, KeptAfterAccept

=============================================================================
