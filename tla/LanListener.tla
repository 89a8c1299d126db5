----------------------------- MODULE LanListener -----------------------------
(***************************************************************************)
(* How the proxy follows the LAN: detectLAN (cisco.go), the owner of the   *)
(* LAN listener serveLAN (lan.go), the accept loop of each listener and    *)
(* the connections it hands to the connTracker (proxy.go).                 *)
(*                                                                         *)
(* Four kinds of goroutines meet here.  The supervisor detects the LAN,    *)
(* writes State and notifies the owner through lanCheck, a channel of      *)
(* capacity one.  The owner compares its listener with State and re-binds  *)
(* it.  Every listener has an accept loop, which reports its end in the    *)
(* listener's done channel.  Every connection has a goroutine that serves  *)
(* it.  Only LAN connections are modelled: closeLAN leaves the others      *)
(* alone.                                                                  *)
(***************************************************************************)
EXTENDS Naturals, FiniteSets

CONSTANTS
    LANs,       \* the snapshots (interface and subnet) that can be detected
    Loops,      \* listeners, each with its accept loop
    Conns,      \* connections
    NoLAN,      \* the empty snapshot
    NoLoop,     \* no listener
    NoConn      \* no connection

ASSUME LANAssumption == NoLAN \notin LANs
ASSUME LoopAssumption == NoLoop \notin Loops
ASSUME ConnAssumption == NoConn \notin Conns

VARIABLES
    net,        \* what the routing table shows, NoLAN while it shows none
    lan,        \* State.LANSubnet and State.LANInterface
    pendingLAN, \* the supervisor's field
    lastSeen,   \* history: what the previous detection saw
    tpc,        \* where detectLAN is
    next,       \* its local next
    lanCheck,   \* a check is pending in the channel
    opc,        \* where the owner is
    want, cur,  \* its locals; retry holds when the retry timer is armed
    retry,
    loop,       \* where each accept loop is
    bound,      \* lanListener.bound
    cancelled,  \* its own context is cancelled
    lclosed,    \* the socket is closed
    done,       \* what the done channel holds
    held,       \* the connection that the loop has accepted and not yet added
    conn,       \* the state of each connection
    from,       \* the listener that accepted it
    ctxDone     \* the context of the proxy's goroutines is cancelled

netVars == <<net, lan, pendingLAN, lastSeen, tpc, next>>
ownerVars == <<opc, want, cur, retry>>
loopVars == <<loop, bound, cancelled, lclosed, done, held>>
connVars == <<conn, from>>
vars == <<netVars, lanCheck, ownerVars, loopVars, connVars, ctxDone>>

Snapshots == LANs \cup {NoLAN}

\* State variables have values of the right shape; a loop holds a connection
\* exactly between Accept and add.
TypeOK ==
    /\ net \in Snapshots /\ lan \in Snapshots
    /\ pendingLAN \in Snapshots /\ lastSeen \in Snapshots /\ next \in Snapshots
    /\ tpc \in {"idle", "set", "notify"}
    /\ lanCheck \in BOOLEAN
    /\ opc \in {"off", "check", "waitdone", "closeLAN", "bind", "select",
                "lastwait", "stopped", "closed"}
    /\ want \in Snapshots
    /\ cur \in Loops \cup {NoLoop}
    /\ retry \in BOOLEAN
    /\ loop \in [Loops -> {"idle", "accept", "got", "backoff"}]
    /\ bound \in [Loops -> Snapshots]
    /\ cancelled \in [Loops -> BOOLEAN]
    /\ lclosed \in [Loops -> BOOLEAN]
    /\ done \in [Loops -> {"empty", "nil", "error"}]
    /\ held \in [Loops -> Conns \cup {NoConn}]
    /\ \A l \in Loops : loop[l] = "got" <=> held[l] # NoConn
    /\ conn \in [Conns -> {"free", "held", "tracked", "closed"}]
    /\ from \in [Conns -> Loops \cup {NoLoop}]
    /\ ctxDone \in BOOLEAN

Init ==
    /\ net \in Snapshots
    /\ lan = NoLAN /\ pendingLAN = NoLAN /\ lastSeen = NoLAN /\ next = NoLAN
    /\ tpc = "idle"
    /\ lanCheck = FALSE
    /\ opc = "off"
    /\ want = NoLAN
    /\ cur = NoLoop
    /\ retry = FALSE
    /\ loop = [l \in Loops |-> "idle"]
    /\ bound = [l \in Loops |-> NoLAN]
    /\ cancelled = [l \in Loops |-> FALSE]
    /\ lclosed = [l \in Loops |-> TRUE]
    /\ done = [l \in Loops |-> "empty"]
    /\ held = [l \in Loops |-> NoConn]
    /\ conn = [c \in Conns |-> "free"]
    /\ from = [c \in Conns |-> NoLoop]
    /\ ctxDone = FALSE

-----------------------------------------------------------------------------
(* detectLAN *)

detectFrame == UNCHANGED <<net, ownerVars, loopVars, connVars, ctxDone>>

lanChanged(old, new) == new # NoLAN /\ new # old

\* confirmLAN returns true: a first detection, or a change seen on two ticks in
\* a row.
confirmed(new) == lanChanged(lan, new) /\ (lan = NoLAN \/ pendingLAN = new)

\* Variant: a failed detection keeps the pending change.
pendingAfterNothing == pendingLAN

\* Detection failed or found no LAN: a change must be seen twice again.
pendingAfterError == NoLAN

DetectNothing ==
    /\ tpc = "idle" /\ ~ctxDone
    /\ net = NoLAN
    /\ pendingLAN' = pendingAfterError
    /\ lastSeen' = NoLAN
    /\ UNCHANGED <<lan, tpc, next, lanCheck>> /\ detectFrame

\* Detection found net; confirmLAN decides whether State follows.
DetectFound ==
    /\ tpc = "idle" /\ ~ctxDone
    /\ net # NoLAN
    /\ lastSeen' = net
    /\ next' = IF confirmed(net) THEN net ELSE NoLAN
    /\ pendingLAN' = IF lanChanged(lan, net) /\ ~confirmed(net) THEN net ELSE NoLAN
    /\ tpc' = IF confirmed(net) THEN "set" ELSE "idle"
    /\ UNCHANGED <<lan, lanCheck>> /\ detectFrame

\* setStatus, under Service.mu.
SetLAN ==
    /\ tpc = "set"
    /\ lan' = next
    /\ tpc' = "notify"
    /\ UNCHANGED <<pendingLAN, lastSeen, next, lanCheck>> /\ detectFrame

\* Variant: a channel without a buffer, where a check that nobody waits for is
\* lost.
sendUnbuffered == lanCheck \/ opc = "select"

\* The send that does not block: it leaves one check pending, whether or not
\* there was one.
sendBuffered == TRUE

notifyLANCheck ==
    /\ tpc = "notify"
    /\ lanCheck' = sendBuffered
    /\ tpc' = "idle" /\ next' = NoLAN
    /\ UNCHANGED <<lan, pendingLAN, lastSeen>> /\ detectFrame

-----------------------------------------------------------------------------
(* serveLAN *)

ownerFrame == UNCHANGED <<netVars, bound, loop, held, from>>

\* startProxy runs serveLAN once ciscoReady is closed.
StartOwner ==
    /\ opc = "off"
    /\ opc' = "check"
    /\ UNCHANGED <<lanCheck, want, cur, retry, cancelled, lclosed, done, conn, ctxDone>>
    /\ ownerFrame

\* Cancelled before that, startProxy returns.
StartCancelled ==
    /\ opc = "off" /\ ctxDone
    /\ opc' = "closed"
    /\ UNCHANGED <<lanCheck, want, cur, retry, cancelled, lclosed, done, conn, ctxDone>>
    /\ ownerFrame

\* Variant: the socket stays open, and Accept keeps waiting.
shutContextOnly(l) ==
    cancelled' = [cancelled EXCEPT ![l] = TRUE] /\ UNCHANGED lclosed

\* lanListener.close up to its wait for the accept loop.
shut(l) ==
    /\ cancelled' = [cancelled EXCEPT ![l] = TRUE]
    /\ lclosed' = [lclosed EXCEPT ![l] = TRUE]

\* Variant: nobody waits for the accept loop to end.
forgotten(l) == UNCHANGED done

\* lanListener.close: the accept loop has ended, its result is taken.
joined(l) == done[l] # "empty" /\ done' = [done EXCEPT ![l] = "empty"]

\* The top of the loop: the listener is for another LAN.
CheckStale ==
    /\ opc = "check"
    /\ want' = lan
    /\ cur # NoLoop /\ bound[cur] # lan
    /\ shut(cur)
    /\ opc' = "waitdone"
    /\ UNCHANGED <<lanCheck, cur, retry, done, conn, ctxDone>> /\ ownerFrame

\* The top of the loop: keep the listener, bind one, or have no LAN to bind to.
CheckCurrent ==
    /\ opc = "check"
    /\ want' = lan
    /\ cur # NoLoop => bound[cur] = lan
    /\ opc' = IF cur = NoLoop /\ lan # NoLAN THEN "bind" ELSE "select"
    /\ retry' = FALSE
    /\ UNCHANGED <<lanCheck, cur, cancelled, lclosed, done, conn, ctxDone>> /\ ownerFrame

OwnerJoins ==
    /\ opc = "waitdone"
    /\ joined(cur)
    /\ cur' = NoLoop
    /\ opc' = "closeLAN"
    /\ UNCHANGED <<lanCheck, want, retry, cancelled, lclosed, conn, ctxDone>> /\ ownerFrame

\* The connTracker closes what it tracks and forgets it, under its mutex.
closeTracked ==
    conn' = [c \in Conns |-> IF conn[c] = "tracked" THEN "closed" ELSE conn[c]]

closeLAN ==
    /\ opc = "closeLAN"
    /\ closeTracked
    /\ opc' = IF want # NoLAN THEN "bind" ELSE "select"
    /\ retry' = FALSE
    /\ UNCHANGED <<lanCheck, want, cur, cancelled, lclosed, done, ctxDone>> /\ ownerFrame

\* openLAN: a new listener, with its accept loop running.
openLAN(l) ==
    /\ opc = "bind"
    /\ loop[l] = "idle" /\ done[l] = "empty"
    /\ loop' = [loop EXCEPT ![l] = "accept"]
    /\ bound' = [bound EXCEPT ![l] = want]
    /\ cancelled' = [cancelled EXCEPT ![l] = FALSE]
    /\ lclosed' = [lclosed EXCEPT ![l] = FALSE]
    /\ cur' = l
    /\ retry' = FALSE
    /\ opc' = "select"
    /\ UNCHANGED <<netVars, lanCheck, want, done, held, connVars, ctxDone>>

\* Variant: a failed bind is not retried.
retryNever == FALSE

\* The retry timer is armed when there is a LAN and no listener for it.
retryLater == TRUE

openLANFails ==
    /\ opc = "bind"
    /\ retry' = retryLater
    /\ opc' = "select"
    /\ UNCHANGED <<lanCheck, want, cur, cancelled, lclosed, done, conn, ctxDone>>
    /\ ownerFrame

\* select: a check is pending.
SelectCheck ==
    /\ opc = "select" /\ lanCheck
    /\ lanCheck' = FALSE
    /\ opc' = "check"
    /\ UNCHANGED <<want, cur, retry, cancelled, lclosed, done, conn, ctxDone>> /\ ownerFrame

\* select: the retry timer fired.
SelectRetry ==
    /\ opc = "select" /\ retry
    /\ opc' = "check"
    /\ UNCHANGED <<lanCheck, want, cur, retry, cancelled, lclosed, done, conn, ctxDone>>
    /\ ownerFrame

\* select: the context is cancelled; the deferred close of the listener, if
\* there is one, waits for its loop.
SelectCancelled ==
    /\ opc = "select" /\ ctxDone
    /\ IF cur = NoLoop
       THEN opc' = "stopped" /\ UNCHANGED <<cancelled, lclosed>>
       ELSE opc' = "lastwait" /\ shut(cur)
    /\ UNCHANGED <<lanCheck, want, cur, retry, done, conn, ctxDone>> /\ ownerFrame

\* Variant: the listener whose result was taken is kept for the deferred close.
keptAfterResult == cur

\* The listener whose result was taken is forgotten.
curAfterResult == NoLoop

\* select: the accept loop ended by itself.  serveLAN returns its error, which
\* cancels the context of the whole group, past its deferred close.
SelectDone ==
    /\ opc = "select"
    /\ cur # NoLoop /\ done[cur] # "empty"
    /\ done' = [done EXCEPT ![cur] = "empty"]
    /\ cancelled' = [cancelled EXCEPT ![cur] = TRUE]
    /\ ctxDone' = (ctxDone \/ done[cur] = "error")
    /\ cur' = curAfterResult
    /\ opc' = IF curAfterResult = NoLoop THEN "stopped" ELSE "lastwait"
    /\ UNCHANGED <<lanCheck, want, retry, lclosed, conn>> /\ ownerFrame

\* The deferred close: the accept loop has ended.
OwnerStops ==
    /\ opc = "lastwait"
    /\ joined(cur)
    /\ cur' = NoLoop
    /\ opc' = "stopped"
    /\ UNCHANGED <<lanCheck, want, retry, cancelled, lclosed, conn, ctxDone>> /\ ownerFrame

\* startProxy, after the group has ended.
closeAll ==
    /\ opc = "stopped"
    /\ closeTracked
    /\ opc' = "closed"
    /\ UNCHANGED <<lanCheck, want, cur, retry, cancelled, lclosed, done, ctxDone>>
    /\ ownerFrame

-----------------------------------------------------------------------------
(* acceptConns, for the listener l *)

loopFrame == UNCHANGED <<netVars, lanCheck, ownerVars, bound, cancelled, lclosed, ctxDone>>

lctxDone(l) == cancelled[l] \/ ctxDone

\* The loop returns, and its goroutine puts the result into the done channel.
Return(l, result) ==
    /\ loop' = [loop EXCEPT ![l] = "idle"]
    /\ done' = [done EXCEPT ![l] = result]

AcceptConn(l, c) ==
    /\ loop[l] = "accept" /\ ~lclosed[l]
    /\ conn[c] = "free"
    /\ conn' = [conn EXCEPT ![c] = "held"]
    /\ from' = [from EXCEPT ![c] = l]
    /\ held' = [held EXCEPT ![l] = c]
    /\ loop' = [loop EXCEPT ![l] = "got"]
    /\ UNCHANGED done /\ loopFrame

\* connTracker.add, and the goroutine that serves the connection starts.
AddConn(l) ==
    /\ loop[l] = "got"
    /\ conn' = [conn EXCEPT ![held[l]] = "tracked"]
    /\ held' = [held EXCEPT ![l] = NoConn]
    /\ loop' = [loop EXCEPT ![l] = "accept"]
    /\ UNCHANGED <<done, from>> /\ loopFrame

\* Accept fails for good: on purpose, or because the listener was closed
\* under the loop.
AcceptClosed(l) ==
    /\ loop[l] = "accept" /\ lclosed[l]
    /\ Return(l, IF lctxDone(l) THEN "nil" ELSE "error")
    /\ UNCHANGED <<held, connVars>> /\ loopFrame

\* Variant: the loop goes on to add a connection that it does not have.
afterTransient == "got"

\* The loop backs off before it accepts again.
afterError == "backoff"

\* A transient error.
AcceptError(l) ==
    /\ loop[l] = "accept" /\ ~lclosed[l]
    /\ IF lctxDone(l) THEN Return(l, "nil")
                      ELSE loop' = [loop EXCEPT ![l] = afterError] /\ UNCHANGED done
    /\ UNCHANGED <<held, connVars>> /\ loopFrame

\* The end of the backoff: its timer, or its context.
BackoffEnds(l) ==
    /\ loop[l] = "backoff"
    /\ loop' = [loop EXCEPT ![l] = "accept"]
    /\ UNCHANGED <<done, held, connVars>> /\ loopFrame

BackoffCancelled(l) ==
    /\ loop[l] = "backoff" /\ lctxDone(l)
    /\ Return(l, "nil")
    /\ UNCHANGED <<held, connVars>> /\ loopFrame

\* ServeConn returns, because the peer is done or the connection was closed,
\* and the goroutine removes it from the tracker.
ConnEnds(c) ==
    /\ conn[c] \in {"tracked", "closed"}
    /\ conn' = [conn EXCEPT ![c] = "free"]
    /\ from' = [from EXCEPT ![c] = NoLoop]
    /\ UNCHANGED <<netVars, lanCheck, ownerVars, loopVars, ctxDone>>

-----------------------------------------------------------------------------
(* The environment *)

\* Another Wi-Fi, an Ethernet switch, no network, a routing table in flux.
NetworkChanges(n) ==
    /\ n # net
    /\ net' = n
    /\ UNCHANGED <<lan, pendingLAN, lastSeen, tpc, next, lanCheck, ownerVars, loopVars,
                   connVars, ctxDone>>

\* The socket is closed under its owner.
ListenerBreaks(l) ==
    /\ loop[l] # "idle"
    /\ ~lclosed[l]
    /\ lclosed' = [lclosed EXCEPT ![l] = TRUE]
    /\ UNCHANGED <<netVars, lanCheck, ownerVars, loop, bound, cancelled, done, held,
                   connVars, ctxDone>>

Cancel ==
    /\ ~ctxDone
    /\ ctxDone' = TRUE
    /\ UNCHANGED <<netVars, lanCheck, ownerVars, loopVars, connVars>>

-----------------------------------------------------------------------------
Detect == DetectNothing \/ DetectFound \/ SetLAN \/ notifyLANCheck

Select == SelectCheck \/ SelectRetry \/ SelectCancelled \/ SelectDone

Owner ==
    \/ StartOwner \/ StartCancelled
    \/ CheckStale \/ CheckCurrent
    \/ OwnerJoins \/ closeLAN
    \/ openLANFails \/ \E l \in Loops : openLAN(l)
    \/ Select
    \/ OwnerStops \/ closeAll

AcceptLoop(l) ==
    \/ AddConn(l) \/ AcceptClosed(l) \/ AcceptError(l)
    \/ BackoffEnds(l) \/ BackoffCancelled(l)
    \/ \E c \in Conns : AcceptConn(l, c)

Environment ==
    \/ Cancel
    \/ \E n \in Snapshots : NetworkChanges(n)
    \/ \E l \in Loops : ListenerBreaks(l)

Next ==
    \/ Detect
    \/ Owner
    \/ \E l \in Loops : AcceptLoop(l)
    \/ \E c \in Conns : ConnEnds(c)
    \/ Environment

\* The goroutines are scheduled; an interface that is there can be bound in the
\* end; a select that is ready for the cancelled context picks it in the end.
\* Clients need not connect, nor their connections end.
Fairness ==
    /\ WF_vars(Detect)
    /\ WF_vars(Owner)
    /\ SF_vars(\E l \in Loops : openLAN(l))
    /\ SF_vars(SelectCancelled)
    /\ \A l \in Loops : WF_vars(AddConn(l) \/ AcceptClosed(l) \/ BackoffEnds(l))

Spec == Init /\ [][Next]_vars /\ Fairness

-----------------------------------------------------------------------------
(* Safety *)

\* A LAN change is not lost: when the owner sleeps in its select without a
\* listener for the LAN in State, something will wake it (a check that is
\* pending or about to be sent, or the retry timer).  This rests on the buffer of
\* lanCheck and on the order of setStatus and notifyLANCheck.
NoLostWakeup ==
    opc = "select" /\ lan # NoLAN /\ (cur = NoLoop \/ bound[cur] # lan)
        => lanCheck \/ tpc = "notify" \/ (cur = NoLoop /\ retry)

\* Outside a re-bind, every LAN connection that is tracked or on its way there
\* came from the current listener: closeLAN misses none, although the old accept
\* loop may hold one when the listener is closed.
ConnsOfCurrentListener ==
    opc \in {"check", "bind", "select"} =>
        \A c \in Conns : conn[c] \in {"held", "tracked"} => from[c] = cur

\* lanListener.close never waits for ever: the loop that it joins has sent its result,
\* or is still to see that its context is cancelled and its socket closed.  A result
\* is sent once, and select may have taken it.
JoinsEndingLoop ==
    opc \in {"waitdone", "lastwait"} =>
        /\ cur # NoLoop
        /\ done[cur] # "empty" \/ (loop[cur] # "idle" /\ lclosed[cur] /\ cancelled[cur])

\* There is never more than one LAN accept loop, and none without an owner.
OneAcceptLoop ==
    \A l \in Loops : loop[l] # "idle" => l = cur

\* Once startProxy has returned, no LAN connection is open.
StoppedClean ==
    opc = "closed" => \A c \in Conns : conn[c] \in {"free", "closed"}

\* The debounce of confirmLAN: after the first detection, State follows only a
\* LAN that the detection before saw as well.
ChangeConfirmed ==
    [][tpc = "idle" /\ tpc' = "set" /\ lan # NoLAN => next' = lastSeen]_vars

-----------------------------------------------------------------------------
(* Refinement *)

\* The LAN whose listener is open.
serving == IF cur # NoLoop /\ ~lclosed[cur] THEN bound[cur] ELSE NoLAN

\* The LAN of each connection that is tracked or on its way there.
open == [c \in Conns |-> IF conn[c] \in {"held", "tracked"} THEN bound[from[c]] ELSE NoLAN]

Service == INSTANCE LanService WITH serving <- serving, open <- open

\* The owner, the accept loops and the tracker together serve one LAN at a time:
\* whatever the order of LAN changes, accepts and cancellations, a listener is bound
\* only after the last connection of the one before is closed.
ServesOneLAN == Service!Spec

-----------------------------------------------------------------------------
(* Liveness *)

\* Once the network has settled, the listener is bound to it and stays so.
Rebinds ==
    \A n \in LANs :
        <>[](net = n /\ ~ctxDone) => <>[](cur # NoLoop /\ bound[cur] = n)

\* A cancelled context ends the owner and the accept loop.
Terminates ==
    ctxDone ~> (opc = "closed" /\ \A l \in Loops : loop[l] = "idle")

=============================================================================
