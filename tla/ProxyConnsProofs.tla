-------------------------- MODULE ProxyConnsProofs --------------------------
(***************************************************************************)
(* The safety properties of ProxyConns, for any number of connections.     *)
(***************************************************************************)
EXTENDS ProxyConns, TLAPS

\* What runs while startProxy is where it is.
RunningAt ==
    /\ ppc = "wait" => apc = "off" /\ wpc = "off"
    /\ ppc = "stopped" => apc \in {"off", "ended"} /\ wpc \in {"off", "ended"}
    /\ ppc = "serve" => apc # "off" /\ wpc # "off"

\* The loop's connection is the only one that is accepted and not added.
HeldByLoop ==
    /\ apc = "got" => conn[held] = "held"
    /\ \A c \in Conns : conn[c] = "held" => apc = "got" /\ held = c

\* Without a loop every client has been closed.
IdleClean ==
    ppc # "serve" => \A c \in Conns : conn[c] = "free" \/ c \in closed

\* While State says that the VPN is down, and the watcher has no loss to deal
\* with, no open connection is past the gate.
NoneAdmitted ==
    PromptWatcher /\ ~gctxDone /\ ~connected
      /\ (wpc \in {"off", "start"} \/ (wpc = "sleep" /\ ~wasConnected))
    => \A c \in Conns : conn[c] \in Admitted => c \in closed

\* The inductive invariant.
IInv ==
    /\ TypeOK
    /\ RunningAt
    /\ HeldByLoop
    /\ IdleClean
    /\ NoneAdmitted

USE DEF vpnVars, proxyVars, watchVars, connVars, vars, acceptFrame, connFrame, watchFrame
USE DEF gctxDone, Status!Answer, Status!Keep, Status!Up, Status!Announce, Status!Lose, Status!Cancel

\* Every step keeps the types.
LEMMA TypeStep == IInv /\ [Next]_vars => TypeOK'
<1> SUFFICES ASSUME TypeOK, RunningAt, [Next]_vars PROVE TypeOK'
    BY DEF IInv
<1> USE ConnAssumption DEF TypeOK, Admitted, Served
<1>1. CASE VPNUp
    BY <1>1 DEF VPNUp, MayChange
<1>2. CASE CloseReady
    BY <1>2 DEF CloseReady
<1>3. CASE VPNLost
    BY <1>3 DEF VPNLost, MayChange
<1>4. CASE Cancel
    BY <1>4 DEF Cancel
<1>5. CASE ListenerBreaks
    BY <1>5 DEF ListenerBreaks
<1>6. CASE StartProxy
    BY <1>6 DEF StartProxy, RunningAt
<1>7. CASE StartFails
    BY <1>7 DEF StartFails
<1>8. CASE CloseLoopback
    BY <1>8 DEF CloseLoopback
<1>9. CASE StopProxy
    BY <1>9 DEF StopProxy, groupEnded, closeAll
<1>10. CASE AddConn
    BY <1>10 DEF AddConn, setConn
<1>11. CASE AcceptClosed
    BY <1>11 DEF AcceptClosed
<1>12. CASE AcceptError
    BY <1>12 DEF AcceptError, afterError
<1>13. CASE BackoffEnds
    BY <1>13 DEF BackoffEnds
<1>14. ASSUME NEW c \in Conns, AcceptConn(c)
      PROVE TypeOK'
    BY <1>14 DEF AcceptConn, setConn
<1>15. CASE WatchStart
    BY <1>15 DEF WatchStart
<1>16. CASE WatchTick
    BY <1>16 DEF WatchTick, lossSeen
<1>17. CASE WatchDrop
    BY <1>17 DEF WatchDrop, closeAll
<1>18. CASE WatchEnds
    BY <1>18 DEF WatchEnds, watchCancelled
<1>19. ASSUME NEW c \in Conns, Resolve(c)
      PROVE TypeOK'
    BY <1>19 DEF Resolve, setConn, gatePasses
<1>20. ASSUME NEW c \in Conns, vpnGate(c)
      PROVE TypeOK'
    BY <1>20 DEF vpnGate, setConn, gatePasses
<1>21. ASSUME NEW c \in Conns, Dial(c)
      PROVE TypeOK'
    BY <1>21 DEF Dial, setConn
<1>22. ASSUME NEW c \in Conns, ConnEnds(c)
      PROVE TypeOK'
    BY <1>22 DEF ConnEnds, setConn
<1>23. CASE UNCHANGED vars
    BY <1>23
<1>24. CASE VPNAnswered
    BY <1>24 DEF VPNAnswered
<1>25. CASE VPNKept
    BY <1>25 DEF VPNKept
<1>26. CASE ServeLANFails
    BY <1>26 DEF ServeLANFails
<1> QED
    BY <1>1, <1>2, <1>3, <1>4, <1>5, <1>6, <1>7, <1>8, <1>9, <1>10, <1>11, <1>12,
       <1>13, <1>14, <1>15, <1>16, <1>17, <1>18, <1>19, <1>20, <1>21, <1>22, <1>23,
       <1>24, <1>25, <1>26
       DEF Next, VPN, Proxy, AcceptLoop, Watch, Serve

\* The goroutines start with startProxy, which returns after both have ended.
LEMMA RunningStep == IInv /\ [Next]_vars => RunningAt'
<1> SUFFICES ASSUME IInv, [Next]_vars PROVE RunningAt'
    OBVIOUS
<1> USE ConnAssumption, PromptWatcherAssumption
<1> USE DEF IInv, TypeOK, RunningAt
<1>1. CASE StartProxy
    BY <1>1 DEF StartProxy
<1>2. CASE StartFails
    BY <1>2 DEF StartFails
<1>3. CASE StopProxy
    BY <1>3 DEF StopProxy, groupEnded, closeAll
<1>4. CASE AddConn
    BY <1>4 DEF AddConn, setConn
<1>5. CASE AcceptClosed
    BY <1>5 DEF AcceptClosed
<1>6. CASE AcceptError
    BY <1>6 DEF AcceptError, afterError
<1>7. CASE BackoffEnds
    BY <1>7 DEF BackoffEnds
<1>8. ASSUME NEW c \in Conns, AcceptConn(c)
      PROVE RunningAt'
    BY <1>8 DEF AcceptConn, setConn
<1>9. CASE WatchStart
    BY <1>9 DEF WatchStart
<1>10. CASE WatchTick
    BY <1>10 DEF WatchTick, lossSeen
<1>11. CASE WatchDrop
    BY <1>11 DEF WatchDrop, closeAll
<1>12. CASE WatchEnds
    BY <1>12 DEF WatchEnds, watchCancelled
<1>13. CASE VPN \/ ServeLANFails \/ Cancel \/ ListenerBreaks \/
         CloseLoopback \/ (\E c \in Conns : Resolve(c)) \/
         (\E c \in Conns : vpnGate(c)) \/ (\E c \in Conns : Dial(c)) \/
         (\E c \in Conns : ConnEnds(c))
    BY <1>13 DEF VPN, VPNAnswered, VPNKept, VPNUp, CloseReady, VPNLost, ServeLANFails, Cancel, ListenerBreaks, CloseLoopback,
       Resolve, vpnGate, Dial, ConnEnds
<1>14. CASE UNCHANGED vars
    BY <1>14
<1> QED
    BY <1>1, <1>2, <1>3, <1>4, <1>5, <1>6, <1>7, <1>8, <1>9, <1>10, <1>11, <1>12,
       <1>13, <1>14
       DEF Next, VPN, Proxy, AcceptLoop, Watch, Serve

\* Accept and add hand a connection over; closeAll leaves a held one alone.
LEMMA HeldStep == IInv /\ [Next]_vars => HeldByLoop'
<1> SUFFICES ASSUME IInv, [Next]_vars PROVE HeldByLoop'
    OBVIOUS
<1> USE ConnAssumption, PromptWatcherAssumption
<1> USE DEF IInv, TypeOK, RunningAt, HeldByLoop, Admitted, Served
<1>1. CASE StopProxy
    BY <1>1 DEF StopProxy, groupEnded, closeAll
<1>2. CASE AddConn
    BY <1>2 DEF AddConn, setConn
<1>3. ASSUME NEW c \in Conns, AcceptConn(c)
      PROVE HeldByLoop'
    BY <1>3 DEF AcceptConn, setConn
<1>4. CASE WatchDrop
    BY <1>4 DEF WatchDrop, closeAll
<1>5. ASSUME NEW c \in Conns, Resolve(c)
      PROVE HeldByLoop'
    BY <1>5 DEF Resolve, setConn, gatePasses
<1>6. ASSUME NEW c \in Conns, vpnGate(c)
      PROVE HeldByLoop'
    BY <1>6 DEF vpnGate, setConn, gatePasses
<1>7. ASSUME NEW c \in Conns, Dial(c)
      PROVE HeldByLoop'
    BY <1>7 DEF Dial, setConn
<1>8. ASSUME NEW c \in Conns, ConnEnds(c)
      PROVE HeldByLoop'
    BY <1>8 DEF ConnEnds, setConn
<1>9. CASE VPN \/ ServeLANFails \/ Cancel \/ ListenerBreaks \/ StartProxy \/
         StartFails \/ CloseLoopback \/ AcceptClosed \/ AcceptError \/
         BackoffEnds \/ WatchStart \/ WatchTick \/ WatchEnds
    BY <1>9 DEF VPN, VPNAnswered, VPNKept, VPNUp, CloseReady, VPNLost, ServeLANFails, Cancel, ListenerBreaks, StartProxy,
       StartFails, CloseLoopback, AcceptClosed, AcceptError, afterError, BackoffEnds,
       WatchStart, WatchTick, WatchEnds
<1>10. CASE UNCHANGED vars
    BY <1>10
<1> QED
    BY <1>1, <1>2, <1>3, <1>4, <1>5, <1>6, <1>7, <1>8, <1>9, <1>10
       DEF Next, VPN, Proxy, AcceptLoop, Watch, Serve

\* StopProxy closes what is tracked when nothing is held any more.
LEMMA IdleStep == IInv /\ [Next]_vars => IdleClean'
<1> SUFFICES ASSUME IInv, [Next]_vars PROVE IdleClean'
    OBVIOUS
<1> USE ConnAssumption, PromptWatcherAssumption
<1> USE DEF IInv, TypeOK, RunningAt, HeldByLoop, IdleClean, Admitted, Served
<1>1. CASE StartProxy
    BY <1>1 DEF StartProxy
<1>2. CASE StartFails
    BY <1>2 DEF StartFails
<1>3. CASE StopProxy
    BY <1>3 DEF StopProxy, groupEnded, closeAll
<1>4. CASE AddConn
    BY <1>4 DEF AddConn, setConn
<1>5. ASSUME NEW c \in Conns, AcceptConn(c)
      PROVE IdleClean'
    BY <1>5 DEF AcceptConn, setConn
<1>6. CASE WatchDrop
    BY <1>6 DEF WatchDrop, closeAll
<1>7. ASSUME NEW c \in Conns, Resolve(c)
      PROVE IdleClean'
    BY <1>7 DEF Resolve, setConn, gatePasses
<1>8. ASSUME NEW c \in Conns, vpnGate(c)
      PROVE IdleClean'
    BY <1>8 DEF vpnGate, setConn, gatePasses
<1>9. ASSUME NEW c \in Conns, Dial(c)
      PROVE IdleClean'
    BY <1>9 DEF Dial, setConn
<1>10. ASSUME NEW c \in Conns, ConnEnds(c)
      PROVE IdleClean'
    BY <1>10 DEF ConnEnds, setConn
<1>11. CASE VPN \/ ServeLANFails \/ Cancel \/ ListenerBreaks \/
         CloseLoopback \/ AcceptClosed \/ AcceptError \/ BackoffEnds \/
         WatchStart \/ WatchTick \/ WatchEnds
    BY <1>11 DEF VPN, VPNAnswered, VPNKept, VPNUp, CloseReady, VPNLost, ServeLANFails, Cancel, ListenerBreaks, CloseLoopback,
       AcceptClosed, AcceptError, afterError, BackoffEnds, WatchStart, WatchTick, WatchEnds
<1>12. CASE UNCHANGED vars
    BY <1>12
<1> QED
    BY <1>1, <1>2, <1>3, <1>4, <1>5, <1>6, <1>7, <1>8, <1>9, <1>10, <1>11, <1>12
       DEF Next, VPN, Proxy, AcceptLoop, Watch, Serve

\* The gate admits nobody while the VPN is down, and the watcher comes to rest
\* after a loss only through closeAll.
LEMMA NoneAdmittedStep == IInv /\ [Next]_vars => NoneAdmitted'
<1> SUFFICES ASSUME IInv, [Next]_vars PROVE NoneAdmitted'
    OBVIOUS
<1> USE ConnAssumption, PromptWatcherAssumption
<1> USE DEF IInv, TypeOK, RunningAt, IdleClean, NoneAdmitted, Admitted, Served
<1>1. CASE VPNUp
    BY <1>1 DEF VPNUp, MayChange
<1>2. CASE VPNLost
    BY <1>2 DEF VPNLost, MayChange
<1>3. CASE ListenerBreaks
    BY <1>3 DEF ListenerBreaks
<1>4. CASE StartProxy
    BY <1>4 DEF StartProxy
<1>5. CASE StartFails
    BY <1>5 DEF StartFails
<1>6. CASE CloseLoopback
    BY <1>6 DEF CloseLoopback
<1>7. CASE StopProxy
    BY <1>7 DEF StopProxy, groupEnded, closeAll
<1>8. CASE AddConn
    BY <1>8 DEF AddConn, setConn
<1>9. CASE AcceptClosed
    BY <1>9 DEF AcceptClosed
<1>10. CASE AcceptError
    BY <1>10 DEF AcceptError, afterError
<1>11. CASE BackoffEnds
    BY <1>11 DEF BackoffEnds
<1>12. ASSUME NEW c \in Conns, AcceptConn(c)
      PROVE NoneAdmitted'
    BY <1>12 DEF AcceptConn, setConn
<1>13. CASE WatchStart
    BY <1>13 DEF WatchStart
<1>14. CASE WatchTick
    BY <1>14 DEF WatchTick, lossSeen
<1>15. CASE WatchDrop
    BY <1>15 DEF WatchDrop, closeAll
<1>16. CASE WatchEnds
    BY <1>16 DEF WatchEnds, watchCancelled
<1>17. ASSUME NEW c \in Conns, Resolve(c)
      PROVE NoneAdmitted'
    BY <1>17 DEF Resolve, setConn, gatePasses
<1>18. ASSUME NEW c \in Conns, vpnGate(c)
      PROVE NoneAdmitted'
    BY <1>18 DEF vpnGate, setConn, gatePasses
<1>19. ASSUME NEW c \in Conns, Dial(c)
      PROVE NoneAdmitted'
    BY <1>19 DEF Dial, setConn
<1>20. ASSUME NEW c \in Conns, ConnEnds(c)
      PROVE NoneAdmitted'
    BY <1>20 DEF ConnEnds, setConn
<1>21. CASE CloseReady \/ VPNAnswered \/ VPNKept \/ ServeLANFails \/ Cancel
    BY <1>21 DEF CloseReady, VPNAnswered, VPNKept, ServeLANFails, Cancel
<1>22. CASE UNCHANGED vars
    BY <1>22
<1> QED
    BY <1>1, <1>2, <1>3, <1>4, <1>5, <1>6, <1>7, <1>8, <1>9, <1>10, <1>11, <1>12,
       <1>13, <1>14, <1>15, <1>16, <1>17, <1>18, <1>19, <1>20, <1>21, <1>22
       DEF Next, VPN, Proxy, AcceptLoop, Watch, Serve

\* The invariant holds at the start and every step keeps it.
LEMMA IInvInductive == Spec => []IInv
<1>1. Init => IInv
    BY DEF Init, IInv, TypeOK, RunningAt, HeldByLoop, IdleClean, NoneAdmitted, Admitted,
           Served
<1>2. IInv /\ [Next]_vars => IInv'
    BY TypeStep, RunningStep, HeldStep, IdleStep, NoneAdmittedStep DEF IInv
<1> QED
    BY <1>1, <1>2, PTL DEF Spec

\* The types of ProxyConns hold.
THEOREM TypeCorrect == Spec => []TypeOK
<1>1. IInv => TypeOK
    BY DEF IInv
<1> QED
    BY <1>1, IInvInductive, PTL

\* With a watcher that samples every change, the gate and closeAll leave no
\* client on a connection with an upstream leg while the VPN is down.
THEOREM GateCorrect == Spec => []NoUpstreamWhileDown
<1>1. IInv => NoUpstreamWhileDown
    BY DEF IInv, NoneAdmitted, NoUpstreamWhileDown
<1> QED
    BY <1>1, IInvInductive, PTL

\* startProxy returns with every client closed.
THEOREM StopCorrect == Spec => []StoppedClean
<1>1. IInv => StoppedClean
    BY DEF IInv, IdleClean, StoppedClean
<1> QED
    BY <1>1, IInvInductive, PTL

\* The connections with an upstream leg.
legs == {c \in Conns : conn[c] \in Admitted}

\* Every step is a step of TunnelLegs, for a watcher that samples every change: a
\* tunnel comes up when the watcher has dealt with the loss before, which leaves no
\* open connection past the gate.
LEMMA LegsStep == PromptWatcher /\ IInv /\ [Next]_vars => [Legs!Next]_(Legs!vars)
<1> SUFFICES ASSUME PromptWatcher, IInv, [Next]_vars PROVE [Legs!Next]_(Legs!vars)
    OBVIOUS
<1> USE ConnAssumption
<1> USE DEF IInv, TypeOK, Admitted, Served, Legs!vars
<1>1. CASE VPNUp
  <2>1. legs \subseteq closed \/ gctxDone
    BY <1>1 DEF VPNUp, MayChange, RunningAt, IdleClean, NoneAdmitted, legs
  <2>2. ~connected /\ connected' = TRUE /\ UNCHANGED <<conn, closed, ctxDone, gfailed>>
    BY <1>1 DEF VPNUp
  <2>3. UNCHANGED legs /\ UNCHANGED gctxDone
    BY <2>2 DEF legs
  <2> QED
    BY <2>1, <2>2, <2>3 DEF Legs!Next, Legs!Up, legs
<1>2. CASE VPNLost
    BY <1>2 DEF VPNLost, Legs!Next, Legs!Lose
<1>3. ASSUME NEW c \in Conns, vpnGate(c)
      PROVE Legs!Next
  <2>1. legs' = legs \cup {c} /\ connected /\ UNCHANGED <<connected, closed, gctxDone>>
    BY <1>3 DEF vpnGate, gatePasses, setConn, legs
  <2> QED
    BY <2>1 DEF Legs!Next, Legs!Admit, legs
<1>4. ASSUME NEW c \in Conns, ConnEnds(c)
      PROVE Legs!Next
  <2>1. legs' = legs \ {c} /\ closed' = closed \ {c} /\ UNCHANGED <<connected, gctxDone>>
    BY <1>4 DEF ConnEnds, setConn, legs
  <2> QED
    BY <2>1 DEF Legs!Next, Legs!End, legs
<1>5. CASE StopProxy \/ WatchDrop
  <2>1. closed' = closed \cup {c \in Conns : conn[c] \in Served}
    BY <1>5 DEF StopProxy, WatchDrop, closeAll
  <2>2. UNCHANGED conn /\ UNCHANGED connected /\ gctxDone' = gctxDone
    BY <1>5 DEF StopProxy, WatchDrop, closeAll
  <2>3. UNCHANGED legs
    BY <2>2 DEF legs
  <2> QED
    BY <2>1, <2>2, <2>3 DEF Legs!Next, Legs!Close, legs
<1>6. CASE AddConn
    BY <1>6 DEF AddConn, setConn, HeldByLoop
<1>7. ASSUME NEW c \in Conns, AcceptConn(c) \/ Resolve(c) \/ Dial(c)
      PROVE UNCHANGED Legs!vars
    BY <1>7 DEF AcceptConn, Resolve, Dial, setConn
<1>8. CASE Cancel \/ StartFails \/ AcceptClosed \/ ServeLANFails
  <2>1. gctxDone' = TRUE /\ UNCHANGED <<connected, conn, closed>>
    BY <1>8 DEF Cancel, StartFails, AcceptClosed, ServeLANFails
  <2> QED
    BY <2>1 DEF Legs!Next, Legs!Stop
<1>9. CASE CloseReady \/ VPNAnswered \/ VPNKept \/ ListenerBreaks \/ StartProxy \/
         CloseLoopback \/ AcceptError \/ BackoffEnds \/ WatchStart \/
         WatchTick \/ WatchEnds \/ UNCHANGED vars
  <2>1. UNCHANGED <<connected, conn, closed, ctxDone, gfailed>>
    BY <1>9 DEF CloseReady, VPNAnswered, VPNKept, ListenerBreaks, StartProxy, CloseLoopback,
       AcceptError, BackoffEnds, WatchStart, WatchTick, WatchEnds
  <2> QED
    BY <2>1
<1> QED
    BY <1>1, <1>2, <1>3, <1>4, <1>5, <1>6, <1>7, <1>8, <1>9
       DEF Next, VPN, Proxy, AcceptLoop, Watch, Serve

\* The gate, the tracker and the watcher implement TunnelLegs: a leg that lingers
\* into the next tunnel has lost its client, if the watcher samples every change
\* of State.CiscoConnected and the proxy is not stopping.
THEOREM LegsCorrect == ASSUME PromptWatcher PROVE Spec => LegsOfOneTunnel
<1>1. Init => Legs!Init
    BY DEF Init, Legs!Init, Admitted
<1>2. IInv /\ [Next]_vars => [Legs!Next]_(Legs!vars)
    BY LegsStep
<1> QED
    BY <1>1, <1>2, IInvInductive, PTL DEF Spec, LegsOfOneTunnel, Legs!Spec

=============================================================================
