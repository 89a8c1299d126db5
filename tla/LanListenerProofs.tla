-------------------------- MODULE LanListenerProofs --------------------------
(***************************************************************************)
(* The safety properties of LanListener, for every set of LANs, listeners  *)
(* and connections.                                                        *)
(***************************************************************************)
EXTENDS LanListener, TLAPS

\* What the owner knows of State where it has read want, and what it has done
\* about it by the time it sleeps.
WantFollowsState ==
    /\ opc \in {"waitdone", "closeLAN", "bind", "select"}
         => want = lan \/ lanCheck \/ tpc = "notify"
    /\ opc = "select" /\ cur # NoLoop => bound[cur] = want
    /\ opc = "select" /\ cur = NoLoop /\ want # NoLAN => retry

\* Where the owner has a listener and where it has none.
CurAt ==
    /\ opc \in {"off", "closeLAN", "bind", "stopped", "closed"} => cur = NoLoop
    /\ opc \in {"waitdone", "lastwait"} => cur # NoLoop

\* A loop reports in its done channel only when it has ended, and a result is
\* there only for the current listener.
DoneMeansIdle ==
    \A l \in Loops : done[l] # "empty" => loop[l] = "idle" /\ l = cur

\* The owner's listener has its loop running or its result waiting, and is shut where
\* the owner waits for that result.
CurEnds ==
    /\ cur # NoLoop => done[cur] # "empty" \/ loop[cur] # "idle"
    /\ opc \in {"waitdone", "lastwait"} => lclosed[cur] /\ cancelled[cur]

\* A loop between Accept and add holds one connection, which is its own; no
\* connection is held otherwise.
HeldByItsLoop ==
    /\ \A l \in Loops : loop[l] = "got" =>
         held[l] \in Conns /\ conn[held[l]] = "held" /\ from[held[l]] = l
    /\ \A c \in Conns : conn[c] = "held" =>
         from[c] \in Loops /\ loop[from[c]] = "got" /\ held[from[c]] = c
    /\ \A c \in Conns : conn[c] = "tracked" => from[c] \in Loops

\* Until closeLAN or closeAll is due, every connection that they would miss or
\* close is the current listener's.
LiveConnsOfCur ==
    opc \notin {"closeLAN", "stopped"} =>
        \A c \in Conns : conn[c] \in {"held", "tracked"} => from[c] = cur

\* A change that awaits its confirmation is what the last detection saw.
PendingWasSeen ==
    pendingLAN # NoLAN => pendingLAN = lastSeen

\* A listener is bound to a LAN, never to the empty snapshot.
BoundToLAN ==
    /\ opc = "bind" => want # NoLAN
    /\ \A l \in Loops : loop[l] # "idle" => bound[l] # NoLAN

\* The inductive invariant.
IInv ==
    /\ TypeOK
    /\ WantFollowsState
    /\ CurAt
    /\ OneAcceptLoop
    /\ DoneMeansIdle
    /\ CurEnds
    /\ HeldByItsLoop
    /\ LiveConnsOfCur
    /\ PendingWasSeen
    /\ BoundToLAN

USE DEF netVars, ownerVars, loopVars, connVars, vars, detectFrame, ownerFrame, loopFrame

\* Every step keeps the types.
LEMMA TypeStep == TypeOK /\ [Next]_vars => TypeOK'
<1> SUFFICES ASSUME TypeOK, [Next]_vars PROVE TypeOK'
    OBVIOUS
<1> USE ConnAssumption DEF TypeOK, Snapshots
<1>1. CASE DetectNothing
    BY <1>1 DEF DetectNothing, pendingAfterError
<1>2. CASE DetectFound
    BY <1>2 DEF DetectFound, lanChanged, confirmed
<1>3. CASE SetLAN
    BY <1>3 DEF SetLAN
<1>4. CASE notifyLANCheck
    BY <1>4 DEF notifyLANCheck, sendBuffered
<1>5. CASE StartOwner
    BY <1>5 DEF StartOwner
<1>6. CASE StartCancelled
    BY <1>6 DEF StartCancelled
<1>7. CASE CheckStale
    BY <1>7 DEF CheckStale, shut
<1>8. CASE CheckCurrent
    BY <1>8 DEF CheckCurrent
<1>9. CASE OwnerJoins
    BY <1>9 DEF OwnerJoins, joined
<1>10. CASE closeLAN
    BY <1>10 DEF closeLAN, closeTracked
<1>11. CASE openLANFails
    BY <1>11 DEF openLANFails, retryLater
<1>12. ASSUME NEW l \in Loops, openLAN(l) PROVE TypeOK'
    BY <1>12 DEF openLAN
<1>13. CASE SelectCheck
    BY <1>13 DEF SelectCheck
<1>14. CASE SelectRetry
    BY <1>14 DEF SelectRetry
<1>15. CASE SelectCancelled
    BY <1>15 DEF SelectCancelled, shut
<1>16. CASE SelectDone
    BY <1>16 DEF SelectDone, curAfterResult
<1>17. CASE OwnerStops
    BY <1>17 DEF OwnerStops, joined
<1>18. CASE closeAll
    BY <1>18 DEF closeAll, closeTracked
<1>19. ASSUME NEW l \in Loops, AddConn(l) PROVE TypeOK'
    BY <1>19 DEF AddConn
<1>20. ASSUME NEW l \in Loops, AcceptClosed(l) PROVE TypeOK'
    BY <1>20 DEF AcceptClosed, Return
<1>21. ASSUME NEW l \in Loops, AcceptError(l) PROVE TypeOK'
    BY <1>21 DEF AcceptError, Return, afterError
<1>22. ASSUME NEW l \in Loops, BackoffEnds(l) PROVE TypeOK'
    BY <1>22 DEF BackoffEnds
<1>23. ASSUME NEW l \in Loops, BackoffCancelled(l) PROVE TypeOK'
    BY <1>23 DEF BackoffCancelled, Return
<1>24. ASSUME NEW l \in Loops, NEW c \in Conns, AcceptConn(l, c) PROVE TypeOK'
    BY <1>24 DEF AcceptConn
<1>25. ASSUME NEW c \in Conns, ConnEnds(c) PROVE TypeOK'
    BY <1>25 DEF ConnEnds
<1>26. CASE Cancel
    BY <1>26 DEF Cancel
<1>27. ASSUME NEW n \in Snapshots, NetworkChanges(n) PROVE TypeOK'
    BY <1>27 DEF NetworkChanges
<1>28. ASSUME NEW l \in Loops, ListenerBreaks(l) PROVE TypeOK'
    BY <1>28 DEF ListenerBreaks
<1>29. CASE UNCHANGED vars
    BY <1>29
<1> QED
    BY <1>1, <1>2, <1>3, <1>4, <1>5, <1>6, <1>7, <1>8, <1>9, <1>10, <1>11, <1>12,
       <1>13, <1>14, <1>15, <1>16, <1>17, <1>18, <1>19, <1>20, <1>21, <1>22, <1>23,
       <1>24, <1>25, <1>26, <1>27, <1>28, <1>29
       DEF Next, Detect, Owner, Select, AcceptLoop, Environment

\* State and its notification move in the supervisor's steps; want, retry and the
\* listener in the owner's.
LEMMA WantStep == IInv /\ [Next]_vars => WantFollowsState'
<1> SUFFICES ASSUME IInv, [Next]_vars PROVE WantFollowsState'
    OBVIOUS
<1> USE LoopAssumption, ConnAssumption, LANAssumption
<1> USE DEF IInv, TypeOK, Snapshots, WantFollowsState, CurAt
<1>1. CASE SetLAN
    BY <1>1 DEF SetLAN
<1>2. CASE notifyLANCheck
    BY <1>2 DEF notifyLANCheck, sendBuffered
<1>3. CASE CheckStale
    BY <1>3 DEF CheckStale, shut
<1>4. CASE CheckCurrent
    BY <1>4 DEF CheckCurrent
<1>5. CASE OwnerJoins
    BY <1>5 DEF OwnerJoins, joined
<1>6. CASE closeLAN
    BY <1>6 DEF closeLAN, closeTracked
<1>7. CASE openLANFails
    BY <1>7 DEF openLANFails, retryLater
<1>8. ASSUME NEW l \in Loops, openLAN(l)
      PROVE WantFollowsState'
    BY <1>8 DEF openLAN
<1>9. CASE SelectCancelled
    BY <1>9 DEF SelectCancelled, shut
<1>10. CASE SelectDone
    BY <1>10 DEF SelectDone, curAfterResult
<1>11. CASE OwnerStops
    BY <1>11 DEF OwnerStops, joined
<1>12. CASE DetectNothing \/ DetectFound \/ StartOwner \/ StartCancelled \/
         SelectCheck \/ SelectRetry \/ closeAll \/ Cancel \/
         (\E l \in Loops : AddConn(l)) \/ (\E l \in Loops : AcceptClosed(l)) \/
         (\E l \in Loops : AcceptError(l)) \/ (\E l \in Loops : BackoffEnds(l)) \/
         (\E l \in Loops : BackoffCancelled(l)) \/
         (\E l \in Loops, c \in Conns : AcceptConn(l, c)) \/
         (\E c \in Conns : ConnEnds(c)) \/
         (\E n \in Snapshots : NetworkChanges(n)) \/
         (\E l \in Loops : ListenerBreaks(l))
    BY <1>12 DEF DetectNothing, DetectFound, StartOwner, StartCancelled,
       SelectCheck, SelectRetry, closeAll, AddConn, AcceptClosed, AcceptError,
       BackoffEnds, BackoffCancelled, AcceptConn, ConnEnds, Cancel, NetworkChanges,
       ListenerBreaks
<1>13. CASE UNCHANGED vars
    BY <1>13
<1> QED
    BY <1>1, <1>2, <1>3, <1>4, <1>5, <1>6, <1>7, <1>8, <1>9, <1>10, <1>11, <1>12,
       <1>13
       DEF Next, Detect, Owner, Select, AcceptLoop, Environment

\* The owner gives its listener up only where it has seen the loop end.
LEMMA CurStep == IInv /\ [Next]_vars => CurAt'
<1> SUFFICES ASSUME IInv, [Next]_vars PROVE CurAt'
    OBVIOUS
<1> USE LoopAssumption, ConnAssumption, LANAssumption
<1> USE DEF IInv, TypeOK, CurAt
<1>1. CASE StartOwner
    BY <1>1 DEF StartOwner
<1>2. CASE CheckStale
    BY <1>2 DEF CheckStale, shut
<1>3. CASE CheckCurrent
    BY <1>3 DEF CheckCurrent
<1>4. CASE OwnerJoins
    BY <1>4 DEF OwnerJoins, joined
<1>5. CASE closeLAN
    BY <1>5 DEF closeLAN, closeTracked
<1>6. CASE openLANFails
    BY <1>6 DEF openLANFails, retryLater
<1>7. ASSUME NEW l \in Loops, openLAN(l)
      PROVE CurAt'
    BY <1>7 DEF openLAN
<1>8. CASE SelectCancelled
    BY <1>8 DEF SelectCancelled, shut
<1>9. CASE SelectDone
    BY <1>9 DEF SelectDone, curAfterResult
<1>10. CASE OwnerStops
    BY <1>10 DEF OwnerStops, joined
<1>11. CASE DetectNothing \/ DetectFound \/ SetLAN \/ notifyLANCheck \/
         StartCancelled \/ SelectCheck \/ SelectRetry \/ closeAll \/ Cancel \/
         (\E l \in Loops : AddConn(l)) \/ (\E l \in Loops : AcceptClosed(l)) \/
         (\E l \in Loops : AcceptError(l)) \/ (\E l \in Loops : BackoffEnds(l)) \/
         (\E l \in Loops : BackoffCancelled(l)) \/
         (\E l \in Loops, c \in Conns : AcceptConn(l, c)) \/
         (\E c \in Conns : ConnEnds(c)) \/
         (\E n \in Snapshots : NetworkChanges(n)) \/
         (\E l \in Loops : ListenerBreaks(l))
    BY <1>11 DEF DetectNothing, DetectFound, SetLAN, notifyLANCheck, StartCancelled,
       SelectCheck, SelectRetry, closeAll, AddConn, AcceptClosed, AcceptError,
       BackoffEnds, BackoffCancelled, AcceptConn, ConnEnds, Cancel, NetworkChanges,
       ListenerBreaks, shut, joined, closeTracked, Return, afterError, retryLater,
       sendBuffered, pendingAfterError
<1>12. CASE UNCHANGED vars
    BY <1>12
<1> QED
    BY <1>1, <1>2, <1>3, <1>4, <1>5, <1>6, <1>7, <1>8, <1>9, <1>10, <1>11, <1>12
       DEF Next, Detect, Owner, Select, AcceptLoop, Environment

\* A loop starts only when there is no listener; the owner forgets a listener
\* only after its loop has reported.
LEMMA OneLoopStep == IInv /\ [Next]_vars => OneAcceptLoop'
<1> SUFFICES ASSUME IInv, [Next]_vars PROVE OneAcceptLoop'
    OBVIOUS
<1> USE LoopAssumption, ConnAssumption, LANAssumption
<1> USE DEF IInv, TypeOK, OneAcceptLoop, CurAt, DoneMeansIdle
<1>1. CASE OwnerJoins
    BY <1>1 DEF OwnerJoins, joined
<1>2. ASSUME NEW l \in Loops, openLAN(l)
      PROVE OneAcceptLoop'
    BY <1>2 DEF openLAN
<1>3. CASE SelectDone
    BY <1>3 DEF SelectDone, curAfterResult
<1>4. CASE OwnerStops
    BY <1>4 DEF OwnerStops, joined
<1>5. ASSUME NEW l \in Loops, AddConn(l)
      PROVE OneAcceptLoop'
    BY <1>5 DEF AddConn
<1>6. ASSUME NEW l \in Loops, AcceptClosed(l)
      PROVE OneAcceptLoop'
    BY <1>6 DEF AcceptClosed, Return
<1>7. ASSUME NEW l \in Loops, AcceptError(l)
      PROVE OneAcceptLoop'
    BY <1>7 DEF AcceptError, Return, afterError
<1>8. ASSUME NEW l \in Loops, BackoffEnds(l)
      PROVE OneAcceptLoop'
    BY <1>8 DEF BackoffEnds
<1>9. ASSUME NEW l \in Loops, BackoffCancelled(l)
      PROVE OneAcceptLoop'
    BY <1>9 DEF BackoffCancelled, Return
<1>10. ASSUME NEW l \in Loops, NEW c \in Conns, AcceptConn(l, c)
      PROVE OneAcceptLoop'
    BY <1>10 DEF AcceptConn
<1>11. CASE DetectNothing \/ DetectFound \/ SetLAN \/ notifyLANCheck \/ StartOwner \/
         StartCancelled \/ CheckStale \/ CheckCurrent \/ closeLAN \/ openLANFails \/
         SelectCheck \/ SelectRetry \/ SelectCancelled \/ closeAll \/ Cancel \/
         (\E c \in Conns : ConnEnds(c)) \/
         (\E n \in Snapshots : NetworkChanges(n)) \/
         (\E l \in Loops : ListenerBreaks(l))
    BY <1>11 DEF DetectNothing, DetectFound, SetLAN, notifyLANCheck, StartOwner,
       StartCancelled, CheckStale, CheckCurrent, closeLAN, openLANFails,
       SelectCheck, SelectRetry, SelectCancelled, closeAll, ConnEnds, Cancel,
       NetworkChanges, ListenerBreaks, shut, joined, closeTracked, Return,
       afterError, retryLater, sendBuffered, pendingAfterError
<1>12. CASE UNCHANGED vars
    BY <1>12
<1> QED
    BY <1>1, <1>2, <1>3, <1>4, <1>5, <1>6, <1>7, <1>8, <1>9, <1>10, <1>11, <1>12
       DEF Next, Detect, Owner, Select, AcceptLoop, Environment

\* A result is sent by the current loop when it ends, and taken by the owner.
LEMMA DoneStep == IInv /\ [Next]_vars => DoneMeansIdle'
<1> SUFFICES ASSUME IInv, [Next]_vars PROVE DoneMeansIdle'
    OBVIOUS
<1> USE LoopAssumption, ConnAssumption, LANAssumption
<1> USE DEF IInv, TypeOK, OneAcceptLoop, CurAt, DoneMeansIdle
<1>1. CASE OwnerJoins
    BY <1>1 DEF OwnerJoins, joined
<1>2. ASSUME NEW l \in Loops, openLAN(l)
      PROVE DoneMeansIdle'
    BY <1>2 DEF openLAN
<1>3. CASE SelectDone
    BY <1>3 DEF SelectDone, curAfterResult
<1>4. CASE OwnerStops
    BY <1>4 DEF OwnerStops, joined
<1>5. ASSUME NEW l \in Loops, AddConn(l)
      PROVE DoneMeansIdle'
    BY <1>5 DEF AddConn
<1>6. ASSUME NEW l \in Loops, AcceptClosed(l)
      PROVE DoneMeansIdle'
    BY <1>6 DEF AcceptClosed, Return
<1>7. ASSUME NEW l \in Loops, AcceptError(l)
      PROVE DoneMeansIdle'
    BY <1>7 DEF AcceptError, Return, afterError
<1>8. ASSUME NEW l \in Loops, BackoffEnds(l)
      PROVE DoneMeansIdle'
    BY <1>8 DEF BackoffEnds
<1>9. ASSUME NEW l \in Loops, BackoffCancelled(l)
      PROVE DoneMeansIdle'
    BY <1>9 DEF BackoffCancelled, Return
<1>10. ASSUME NEW l \in Loops, NEW c \in Conns, AcceptConn(l, c)
      PROVE DoneMeansIdle'
    BY <1>10 DEF AcceptConn
<1>11. CASE DetectNothing \/ DetectFound \/ SetLAN \/ notifyLANCheck \/ StartOwner \/
         StartCancelled \/ CheckStale \/ CheckCurrent \/ closeLAN \/ openLANFails \/
         SelectCheck \/ SelectRetry \/ SelectCancelled \/ closeAll \/ Cancel \/
         (\E c \in Conns : ConnEnds(c)) \/
         (\E n \in Snapshots : NetworkChanges(n)) \/
         (\E l \in Loops : ListenerBreaks(l))
    BY <1>11 DEF DetectNothing, DetectFound, SetLAN, notifyLANCheck, StartOwner,
       StartCancelled, CheckStale, CheckCurrent, closeLAN, openLANFails,
       SelectCheck, SelectRetry, SelectCancelled, closeAll, ConnEnds, Cancel,
       NetworkChanges, ListenerBreaks, shut, joined, closeTracked, Return,
       afterError, retryLater, sendBuffered, pendingAfterError
<1>12. CASE UNCHANGED vars
    BY <1>12
<1> QED
    BY <1>1, <1>2, <1>3, <1>4, <1>5, <1>6, <1>7, <1>8, <1>9, <1>10, <1>11, <1>12
       DEF Next, Detect, Owner, Select, AcceptLoop, Environment

\* The owner forgets its listener wherever it takes the result, and shuts it before it
\* waits for one.
LEMMA EndStep == IInv /\ [Next]_vars => CurEnds'
<1> SUFFICES ASSUME IInv, [Next]_vars PROVE CurEnds'
    OBVIOUS
<1> USE LoopAssumption, ConnAssumption, LANAssumption
<1> USE DEF IInv, TypeOK, OneAcceptLoop, CurAt, CurEnds
<1>1. CASE OwnerJoins
    BY <1>1 DEF OwnerJoins, joined
<1>2. ASSUME NEW l \in Loops, openLAN(l)
      PROVE CurEnds'
    BY <1>2 DEF openLAN
<1>3. CASE SelectDone
    BY <1>3 DEF SelectDone, curAfterResult
<1>4. CASE OwnerStops
    BY <1>4 DEF OwnerStops, joined
<1>5. ASSUME NEW l \in Loops, AddConn(l)
      PROVE CurEnds'
    BY <1>5 DEF AddConn
<1>6. ASSUME NEW l \in Loops, AcceptClosed(l)
      PROVE CurEnds'
    BY <1>6 DEF AcceptClosed, Return
<1>7. ASSUME NEW l \in Loops, AcceptError(l)
      PROVE CurEnds'
    BY <1>7 DEF AcceptError, Return, afterError
<1>8. ASSUME NEW l \in Loops, BackoffEnds(l)
      PROVE CurEnds'
    BY <1>8 DEF BackoffEnds
<1>9. ASSUME NEW l \in Loops, BackoffCancelled(l)
      PROVE CurEnds'
    BY <1>9 DEF BackoffCancelled, Return
<1>10. ASSUME NEW l \in Loops, NEW c \in Conns, AcceptConn(l, c)
      PROVE CurEnds'
    BY <1>10 DEF AcceptConn
<1>11. CASE CheckStale
    BY <1>11 DEF CheckStale, shut
<1>12. CASE SelectCancelled
    BY <1>12 DEF SelectCancelled, shut
<1>13. ASSUME NEW l \in Loops, ListenerBreaks(l)
      PROVE CurEnds'
    BY <1>13 DEF ListenerBreaks
<1>14. CASE DetectNothing \/ DetectFound \/ SetLAN \/ notifyLANCheck \/ StartOwner \/
         StartCancelled \/ CheckCurrent \/ closeLAN \/ openLANFails \/
         SelectCheck \/ SelectRetry \/ closeAll \/ Cancel \/
         (\E c \in Conns : ConnEnds(c)) \/
         (\E n \in Snapshots : NetworkChanges(n))
    BY <1>14 DEF DetectNothing, DetectFound, SetLAN, notifyLANCheck, StartOwner,
       StartCancelled, CheckCurrent, closeLAN, openLANFails,
       SelectCheck, SelectRetry, closeAll, ConnEnds, Cancel,
       NetworkChanges, joined, closeTracked, Return,
       afterError, retryLater, sendBuffered, pendingAfterError
<1>15. CASE UNCHANGED vars
    BY <1>15
<1> QED
    BY <1>1, <1>2, <1>3, <1>4, <1>5, <1>6, <1>7, <1>8, <1>9, <1>10, <1>11, <1>12,
       <1>13, <1>14, <1>15
       DEF Next, Detect, Owner, Select, AcceptLoop, Environment

\* Accept and add hand a connection over; nothing else touches a held one.
LEMMA HeldStep == IInv /\ [Next]_vars => HeldByItsLoop'
<1> SUFFICES ASSUME IInv, [Next]_vars PROVE HeldByItsLoop'
    OBVIOUS
<1> USE LoopAssumption, ConnAssumption, LANAssumption
<1> USE DEF IInv, TypeOK, OneAcceptLoop, HeldByItsLoop
<1>1. CASE closeLAN
    BY <1>1 DEF closeLAN, closeTracked
<1>2. ASSUME NEW l \in Loops, openLAN(l)
      PROVE HeldByItsLoop'
    BY <1>2 DEF openLAN
<1>3. CASE closeAll
    BY <1>3 DEF closeAll, closeTracked
<1>4. ASSUME NEW l \in Loops, AddConn(l)
      PROVE HeldByItsLoop'
    BY <1>4 DEF AddConn
<1>5. ASSUME NEW l \in Loops, AcceptClosed(l)
      PROVE HeldByItsLoop'
    BY <1>5 DEF AcceptClosed, Return
<1>6. ASSUME NEW l \in Loops, AcceptError(l)
      PROVE HeldByItsLoop'
    BY <1>6 DEF AcceptError, Return, afterError
<1>7. ASSUME NEW l \in Loops, BackoffEnds(l)
      PROVE HeldByItsLoop'
    BY <1>7 DEF BackoffEnds
<1>8. ASSUME NEW l \in Loops, BackoffCancelled(l)
      PROVE HeldByItsLoop'
    BY <1>8 DEF BackoffCancelled, Return
<1>9. ASSUME NEW l \in Loops, NEW c \in Conns, AcceptConn(l, c)
      PROVE HeldByItsLoop'
    BY <1>9 DEF AcceptConn
<1>10. ASSUME NEW c \in Conns, ConnEnds(c)
      PROVE HeldByItsLoop'
    BY <1>10 DEF ConnEnds
<1>11. CASE DetectNothing \/ DetectFound \/ SetLAN \/ notifyLANCheck \/ StartOwner \/
         StartCancelled \/ CheckStale \/ CheckCurrent \/ OwnerJoins \/
         openLANFails \/ SelectCheck \/ SelectRetry \/ SelectCancelled \/
         SelectDone \/ OwnerStops \/ Cancel \/
         (\E n \in Snapshots : NetworkChanges(n)) \/
         (\E l \in Loops : ListenerBreaks(l))
    BY <1>11 DEF DetectNothing, DetectFound, SetLAN, notifyLANCheck, StartOwner,
       StartCancelled, CheckStale, CheckCurrent, OwnerJoins, openLANFails,
       SelectCheck, SelectRetry, SelectCancelled, SelectDone, OwnerStops, Cancel,
       NetworkChanges, ListenerBreaks, shut, joined, closeTracked, Return,
       afterError, retryLater, sendBuffered, pendingAfterError
<1>12. CASE UNCHANGED vars
    BY <1>12
<1> QED
    BY <1>1, <1>2, <1>3, <1>4, <1>5, <1>6, <1>7, <1>8, <1>9, <1>10, <1>11, <1>12
       DEF Next, Detect, Owner, Select, AcceptLoop, Environment

\* When closeLAN or closeAll runs, the loop has ended, so no connection is held
\* that could still be added after it.
LEMMA LiveStep == IInv /\ [Next]_vars => LiveConnsOfCur'
<1> SUFFICES ASSUME IInv, [Next]_vars PROVE LiveConnsOfCur'
    OBVIOUS
<1> USE LoopAssumption, ConnAssumption, LANAssumption
<1> USE DEF IInv, TypeOK, OneAcceptLoop, CurAt, DoneMeansIdle, HeldByItsLoop, LiveConnsOfCur
<1>1. CASE StartOwner
    BY <1>1 DEF StartOwner
<1>2. CASE OwnerJoins
    BY <1>2 DEF OwnerJoins, joined
<1>3. CASE closeLAN
    BY <1>3 DEF closeLAN, closeTracked
<1>4. ASSUME NEW l \in Loops, openLAN(l)
      PROVE LiveConnsOfCur'
    BY <1>4 DEF openLAN
<1>5. CASE SelectCancelled
    BY <1>5 DEF SelectCancelled, shut
<1>6. CASE SelectDone
    BY <1>6 DEF SelectDone, curAfterResult
<1>7. CASE OwnerStops
    BY <1>7 DEF OwnerStops, joined
<1>8. CASE closeAll
    BY <1>8 DEF closeAll, closeTracked
<1>9. ASSUME NEW l \in Loops, AddConn(l)
      PROVE LiveConnsOfCur'
    BY <1>9 DEF AddConn
<1>10. ASSUME NEW l \in Loops, NEW c \in Conns, AcceptConn(l, c)
      PROVE LiveConnsOfCur'
    BY <1>10 DEF AcceptConn
<1>11. ASSUME NEW c \in Conns, ConnEnds(c)
      PROVE LiveConnsOfCur'
    BY <1>11 DEF ConnEnds
<1>12. CASE DetectNothing \/ DetectFound \/ SetLAN \/ notifyLANCheck \/
         StartCancelled \/ CheckStale \/ CheckCurrent \/ openLANFails \/
         SelectCheck \/ SelectRetry \/ Cancel \/
         (\E l \in Loops : AcceptClosed(l)) \/ (\E l \in Loops : AcceptError(l)) \/
         (\E l \in Loops : BackoffEnds(l)) \/
         (\E l \in Loops : BackoffCancelled(l)) \/
         (\E n \in Snapshots : NetworkChanges(n)) \/
         (\E l \in Loops : ListenerBreaks(l))
    BY <1>12 DEF DetectNothing, DetectFound, SetLAN, notifyLANCheck, StartCancelled,
       CheckStale, CheckCurrent, openLANFails, SelectCheck, SelectRetry,
       AcceptClosed, AcceptError, BackoffEnds, BackoffCancelled, Cancel,
       NetworkChanges, ListenerBreaks, shut, joined, closeTracked, Return,
       afterError, retryLater, sendBuffered, pendingAfterError
<1>13. CASE UNCHANGED vars
    BY <1>13
<1> QED
    BY <1>1, <1>2, <1>3, <1>4, <1>5, <1>6, <1>7, <1>8, <1>9, <1>10, <1>11, <1>12,
       <1>13
       DEF Next, Detect, Owner, Select, AcceptLoop, Environment

\* A detection sets both, or clears the pending change.
LEMMA PendingStep == IInv /\ [Next]_vars => PendingWasSeen'
<1> SUFFICES ASSUME IInv, [Next]_vars PROVE PendingWasSeen'
    OBVIOUS
<1> USE LoopAssumption, ConnAssumption, LANAssumption
<1> USE DEF IInv, TypeOK, PendingWasSeen
<1>1. CASE DetectNothing
    BY <1>1 DEF DetectNothing, pendingAfterError
<1>2. CASE DetectFound
    BY <1>2 DEF DetectFound, lanChanged, confirmed
<1>3. CASE SetLAN \/ notifyLANCheck \/ StartOwner \/ StartCancelled \/ CheckStale \/
         CheckCurrent \/ OwnerJoins \/ closeLAN \/ openLANFails \/ SelectCheck \/
         SelectRetry \/ SelectCancelled \/ SelectDone \/ OwnerStops \/ closeAll \/
         Cancel \/ (\E l \in Loops : openLAN(l)) \/ (\E l \in Loops : AddConn(l)) \/
         (\E l \in Loops : AcceptClosed(l)) \/ (\E l \in Loops : AcceptError(l)) \/
         (\E l \in Loops : BackoffEnds(l)) \/
         (\E l \in Loops : BackoffCancelled(l)) \/
         (\E l \in Loops, c \in Conns : AcceptConn(l, c)) \/
         (\E c \in Conns : ConnEnds(c)) \/
         (\E n \in Snapshots : NetworkChanges(n)) \/
         (\E l \in Loops : ListenerBreaks(l))
    BY <1>3 DEF SetLAN, notifyLANCheck, StartOwner, StartCancelled, CheckStale,
       CheckCurrent, OwnerJoins, closeLAN, openLANFails, openLAN, SelectCheck,
       SelectRetry, SelectCancelled, SelectDone, OwnerStops, closeAll, AddConn,
       AcceptClosed, AcceptError, BackoffEnds, BackoffCancelled, AcceptConn,
       ConnEnds, Cancel, NetworkChanges, ListenerBreaks, shut, joined, closeTracked,
       Return, afterError, retryLater, sendBuffered, pendingAfterError
<1>4. CASE UNCHANGED vars
    BY <1>4
<1> QED
    BY <1>1, <1>2, <1>3, <1>4
       DEF Next, Detect, Owner, Select, AcceptLoop, Environment

\* openLAN is reached only with a LAN to bind to.
LEMMA BoundStep == IInv /\ [Next]_vars => BoundToLAN'
<1> SUFFICES ASSUME IInv, [Next]_vars PROVE BoundToLAN'
    OBVIOUS
<1> USE LoopAssumption, ConnAssumption, LANAssumption
<1> USE DEF IInv, TypeOK, BoundToLAN
<1>1. CASE CheckStale
    BY <1>1 DEF CheckStale, shut
<1>2. CASE CheckCurrent
    BY <1>2 DEF CheckCurrent
<1>3. CASE closeLAN
    BY <1>3 DEF closeLAN, closeTracked
<1>4. ASSUME NEW l \in Loops, openLAN(l)
      PROVE BoundToLAN'
    BY <1>4 DEF openLAN
<1>5. ASSUME NEW l \in Loops, AcceptClosed(l) \/ BackoffCancelled(l)
      PROVE BoundToLAN'
    BY <1>5 DEF AcceptClosed, BackoffCancelled, Return
<1>6. ASSUME NEW l \in Loops, AcceptError(l)
      PROVE BoundToLAN'
    BY <1>6 DEF AcceptError, Return, afterError
<1>7. ASSUME NEW l \in Loops, AddConn(l) \/ BackoffEnds(l)
      PROVE BoundToLAN'
    BY <1>7 DEF AddConn, BackoffEnds
<1>8. ASSUME NEW l \in Loops, NEW c \in Conns, AcceptConn(l, c)
      PROVE BoundToLAN'
    BY <1>8 DEF AcceptConn
<1>9. CASE DetectNothing \/ DetectFound \/ SetLAN \/ notifyLANCheck \/ StartOwner \/
         StartCancelled \/ OwnerJoins \/ openLANFails \/ SelectCheck \/ SelectRetry \/
         SelectCancelled \/ SelectDone \/ OwnerStops \/ closeAll \/ Cancel \/
         (\E c \in Conns : ConnEnds(c)) \/
         (\E n \in Snapshots : NetworkChanges(n)) \/
         (\E l \in Loops : ListenerBreaks(l))
    BY <1>9 DEF DetectNothing, DetectFound, SetLAN, notifyLANCheck, StartOwner,
       StartCancelled, OwnerJoins, openLANFails, SelectCheck, SelectRetry,
       SelectCancelled, SelectDone, OwnerStops, closeAll, ConnEnds, Cancel,
       NetworkChanges, ListenerBreaks
<1>10. CASE UNCHANGED vars
    BY <1>10
<1> QED
    BY <1>1, <1>2, <1>3, <1>4, <1>5, <1>6, <1>7, <1>8, <1>9, <1>10
       DEF Next, Detect, Owner, Select, AcceptLoop, Environment

\* The invariant holds at the start and every step keeps it.
LEMMA IInvInductive == Spec => []IInv
<1>1. Init => IInv
  <2> SUFFICES ASSUME Init PROVE IInv
    OBVIOUS
  <2>1. TypeOK
    BY DEF Init, TypeOK, Snapshots
  <2>2. WantFollowsState /\ CurAt /\ PendingWasSeen /\ BoundToLAN
    BY DEF Init, WantFollowsState, CurAt, PendingWasSeen, BoundToLAN
  <2>3. OneAcceptLoop /\ DoneMeansIdle /\ CurEnds /\ HeldByItsLoop /\ LiveConnsOfCur
    BY DEF Init, OneAcceptLoop, DoneMeansIdle, CurEnds, HeldByItsLoop, LiveConnsOfCur
  <2> QED
    BY <2>1, <2>2, <2>3 DEF IInv
<1>2. IInv /\ [Next]_vars => IInv'
    BY TypeStep, WantStep, CurStep, OneLoopStep, DoneStep, EndStep, HeldStep, LiveStep,
       PendingStep, BoundStep DEF IInv
<1> QED
    BY <1>1, <1>2, PTL DEF Spec

\* The types of LanListener hold.
THEOREM TypeCorrect == Spec => []TypeOK
<1>1. IInv => TypeOK
    BY DEF IInv
<1> QED
    BY <1>1, IInvInductive, PTL

\* serveLAN never sleeps through a LAN change: with lanCheck buffered, State
\* written before the notification and read after its receipt, the owner is
\* woken whenever its listener is not the one that State asks for.
THEOREM WakeupCorrect == Spec => []NoLostWakeup
<1>1. IInv => NoLostWakeup
    BY DEF IInv, WantFollowsState, NoLostWakeup
<1> QED
    BY <1>1, IInvInductive, PTL

\* closeLAN misses no connection of the listener it follows, because
\* lanListener.close waits for the accept loop.
THEOREM ConnsCorrect == Spec => []ConnsOfCurrentListener
<1>1. IInv => ConnsOfCurrentListener
    BY DEF IInv, LiveConnsOfCur, ConnsOfCurrentListener
<1> QED
    BY <1>1, IInvInductive, PTL

\* lanListener.close joins a loop that has ended or must end: the owner is never stuck
\* in it, on a re-bind or on its way out.
THEOREM JoinCorrect == Spec => []JoinsEndingLoop
<1>1. IInv => JoinsEndingLoop
    BY DEF IInv, TypeOK, CurAt, CurEnds, DoneMeansIdle, JoinsEndingLoop
<1> QED
    BY <1>1, IInvInductive, PTL

\* There is never more than one LAN accept loop, and none without its owner.
THEOREM LoopsCorrect == Spec => []OneAcceptLoop
<1>1. IInv => OneAcceptLoop
    BY DEF IInv
<1> QED
    BY <1>1, IInvInductive, PTL

\* startProxy returns with every LAN connection closed.
THEOREM StopCorrect == Spec => []StoppedClean
<1>1. IInv => StoppedClean
    BY LoopAssumption DEF IInv, TypeOK, CurAt, HeldByItsLoop, LiveConnsOfCur, StoppedClean
<1> QED
    BY <1>1, IInvInductive, PTL

\* confirmLAN lets State follow a change only when two detections in a row saw it.
THEOREM DebounceCorrect == Spec => ChangeConfirmed
<1>1. IInv /\ [Next]_vars
        => [tpc = "idle" /\ tpc' = "set" /\ lan # NoLAN => next' = lastSeen]_vars
  <2> SUFFICES ASSUME IInv, [Next]_vars, tpc = "idle", tpc' = "set", lan # NoLAN
               PROVE next' = lastSeen
    OBVIOUS
  <2>1. DetectFound
    BY DEF Next, Detect, Owner, Select, AcceptLoop, Environment, DetectNothing, SetLAN,
       notifyLANCheck, StartOwner, StartCancelled, CheckStale, CheckCurrent, OwnerJoins,
       closeLAN, openLAN, openLANFails, SelectCheck, SelectRetry, SelectCancelled,
       SelectDone, OwnerStops, closeAll, AddConn, AcceptClosed, AcceptError, BackoffEnds,
       BackoffCancelled, AcceptConn, ConnEnds, Cancel, NetworkChanges, ListenerBreaks
  <2> QED
    BY <2>1 DEF DetectFound, confirmed, lanChanged, IInv, PendingWasSeen
<1> QED
    BY <1>1, IInvInductive, PTL DEF Spec, ChangeConfirmed

\* Steps that move neither a listener nor a connection are not seen from outside.
LEMMA InvisibleStep ==
    ASSUME UNCHANGED <<cur, lclosed, bound, conn, from>>
    PROVE  UNCHANGED Service!vars
BY DEF Service!vars, serving, open

\* Every step of the owner, the accept loops and the connections is a step of
\* LanService: openLAN finds no listener and no open connection, because close has
\* joined the accept loop before closeLAN ran.
LEMMA ServiceStep == IInv /\ [Next]_vars => [Service!Next]_(Service!vars)
<1> SUFFICES ASSUME IInv, [Next]_vars PROVE [Service!Next]_(Service!vars)
    OBVIOUS
<1> USE LoopAssumption, ConnAssumption, LANAssumption
<1> USE DEF IInv, TypeOK, Service!vars, serving, open
<1>1. ASSUME NEW l \in Loops, openLAN(l)
      PROVE Service!Bind(want) /\ want \in LANs
  <2>1. \A c \in Conns : conn[c] \notin {"held", "tracked"}
    BY <1>1 DEF openLAN, CurAt, LiveConnsOfCur, HeldByItsLoop
  <2> QED
    BY <1>1, <2>1 DEF openLAN, CurAt, BoundToLAN, Snapshots, Service!Bind
<1>2. ASSUME NEW l \in Loops, NEW c \in Conns, AcceptConn(l, c)
      PROVE Service!Accept(c)
  <2>1. l = cur /\ serving = bound[l] /\ serving # NoLAN
    BY <1>2 DEF AcceptConn, OneAcceptLoop, BoundToLAN
  <2>2. open[c] = NoLAN /\ UNCHANGED serving
    BY <1>2 DEF AcceptConn
  <2>3. open' = [open EXCEPT ![c] = serving]
    BY <1>2, <2>1 DEF AcceptConn
  <2> QED
    BY <2>1, <2>2, <2>3 DEF Service!Accept
<1>3. ASSUME NEW l \in Loops, AddConn(l)
      PROVE UNCHANGED Service!vars
    BY <1>3 DEF AddConn, HeldByItsLoop
<1>4. CASE closeLAN \/ closeAll
  <2>1. Service!Release(Conns)
    BY <1>4 DEF closeLAN, closeAll, closeTracked, CurAt, OneAcceptLoop, HeldByItsLoop,
       Service!Release
  <2> QED
    BY <2>1 DEF Service!Next
<1>5. ASSUME NEW c \in Conns, ConnEnds(c)
      PROVE Service!Release({c})
    BY <1>5 DEF ConnEnds, Service!Release
<1>6. CASE CheckStale
    BY <1>6 DEF CheckStale, shut, Service!Next, Service!Unbind
<1>7. CASE SelectCancelled
    BY <1>7 DEF SelectCancelled, shut, Service!Next, Service!Unbind
<1>8. CASE OwnerJoins \/ OwnerStops \/ SelectDone
    BY <1>8 DEF OwnerJoins, OwnerStops, SelectDone, curAfterResult, Service!Next, Service!Unbind
<1>9. ASSUME NEW l \in Loops, ListenerBreaks(l)
      PROVE [Service!Next]_(Service!vars)
    BY <1>9 DEF ListenerBreaks, Service!Next, Service!Unbind
<1>10. CASE DetectNothing \/ DetectFound \/ SetLAN \/ notifyLANCheck \/ StartOwner \/
         StartCancelled \/ CheckCurrent \/ openLANFails \/ SelectCheck \/ SelectRetry \/
         Cancel \/ (\E l \in Loops : AcceptClosed(l)) \/
         (\E l \in Loops : AcceptError(l)) \/ (\E l \in Loops : BackoffEnds(l)) \/
         (\E l \in Loops : BackoffCancelled(l)) \/
         (\E n \in Snapshots : NetworkChanges(n)) \/ UNCHANGED vars
  <2>1. UNCHANGED <<cur, lclosed, bound, conn, from>>
    BY <1>10 DEF DetectNothing, DetectFound, SetLAN, notifyLANCheck, StartOwner,
       StartCancelled, CheckCurrent, openLANFails, SelectCheck, SelectRetry, Cancel,
       AcceptClosed, AcceptError, BackoffEnds, BackoffCancelled, NetworkChanges
  <2> QED
    BY <2>1, InvisibleStep
<1>11. ASSUME NEW n \in LANs, Service!Bind(n) PROVE Service!Next
    BY <1>11 DEF Service!Next
<1>12. ASSUME NEW c \in Conns, Service!Accept(c) \/ Service!Release({c})
       PROVE Service!Next
    BY <1>12 DEF Service!Next
<1> QED
    BY <1>1, <1>2, <1>3, <1>4, <1>5, <1>6, <1>7, <1>8, <1>9, <1>10, <1>11, <1>12
       DEF Next, Detect, Owner, Select, AcceptLoop, Environment

\* The owner of the LAN listener, the accept loops and the tracker implement
\* LanService: the proxy serves one LAN at a time.
THEOREM ServiceCorrect == Spec => ServesOneLAN
<1>1. Init => Service!Init
    BY DEF Init, Service!Init, serving, open
<1> QED
    BY <1>1, ServiceStep, IInvInductive, PTL DEF Spec, ServesOneLAN, Service!Spec

=============================================================================
