------------------------------ MODULE ProxyConns ------------------------------
(***************************************************************************)
(* The life of the proxy and of its connections: startProxy, the loopback  *)
(* accept loop, the connTracker, the gate in front of every request, and   *)
(* dropConnsOnVPNLoss (proxy.go and socks.go in internal/service).         *)
(*                                                                         *)
(* State.CiscoConnected is written by the supervisor and read, without any *)
(* lock held across the use, by the gate of every connection and by the    *)
(* watcher, which samples it every vpnWatchInterval.  What the supervisor  *)
(* may do to it is VpnStatus, which Supervisor implements.  Connections of *)
(* the LAN listener live the same life; how they get here is LanListener's *)
(* subject.                                                                *)
(***************************************************************************)
EXTENDS Naturals

CONSTANTS
    Conns,          \* connections
    NoConn,         \* no connection
    PromptWatcher   \* TRUE: the supervisor does not change CiscoConnected
                    \* again before the watcher has sampled it; FALSE: a loss
                    \* may be over before the next sample

ASSUME ConnAssumption == NoConn \notin Conns
ASSUME PromptWatcherAssumption == PromptWatcher \in BOOLEAN

VARIABLES
    connected,      \* State.CiscoConnected
    ready,          \* ciscoReady is closed
    ctxDone,        \* the context of the service is cancelled
    answered,       \* the supervisor has an answer in hand, not published yet
    gfailed,        \* a goroutine of startProxy's group returned an error
    ppc,            \* where startProxy is
    apc,            \* where the loopback accept loop is
    lclosed,        \* the loopback listener is closed
    held,           \* the connection that the loop has accepted, not yet added
    wpc,            \* where the watcher is
    wasConnected,   \* its local
    conn,           \* how far the goroutine of each connection is
    closed,         \* connections whose client socket the tracker has closed
    dead            \* history: connections, not closed, whose upstream leg went
                    \* through the gate before the latest loss of the VPN

vpnVars == <<connected, ready, ctxDone, answered>>
proxyVars == <<gfailed, ppc, apc, lclosed, held>>
watchVars == <<wpc, wasConnected>>
connVars == <<conn, closed, dead>>
vars == <<vpnVars, proxyVars, watchVars, connVars>>

\* A connection is accepted, added to the tracker, and served by its goroutine
\* until ServeConn returns; behind the gate it has, or is about to get, an
\* upstream leg.  The tracker can close the client's socket at any point of this;
\* the goroutine notices later, and a dial under way is not interrupted.
Admitted == {"dialing", "up"}
Served == {"tracked", "resolved"} \cup Admitted

\* gctx, the context of startProxy's group, ends with the service's or with the
\* first error of the group.
gctxDone == ctxDone \/ gfailed

\* State variables have values of the right shape; the loop holds a connection
\* exactly between Accept and add; only a connection that is served can have been
\* closed, and only an open one with an upstream leg can be dead.
TypeOK ==
    /\ connected \in BOOLEAN /\ ready \in BOOLEAN /\ ctxDone \in BOOLEAN
    /\ answered \in BOOLEAN /\ gfailed \in BOOLEAN
    /\ ppc \in {"wait", "serve", "stopped"}
    /\ apc \in {"off", "accept", "got", "backoff", "ended"}
    /\ lclosed \in BOOLEAN
    /\ held \in Conns \cup {NoConn}
    /\ apc = "got" <=> held # NoConn
    /\ wpc \in {"off", "start", "sleep", "drop", "ended"}
    /\ wasConnected \in BOOLEAN
    /\ conn \in [Conns -> {"free", "held"} \cup Served]
    /\ closed \subseteq {c \in Conns : conn[c] \in Served}
    /\ dead \subseteq {c \in Conns : conn[c] \in Admitted} \ closed

Init ==
    /\ connected = FALSE /\ ready = FALSE /\ ctxDone = FALSE
    /\ answered = FALSE /\ gfailed = FALSE
    /\ ppc = "wait" /\ apc = "off" /\ lclosed = TRUE /\ held = NoConn
    /\ wpc = "off" /\ wasConnected = FALSE
    /\ conn = [c \in Conns |-> "free"] /\ closed = {} /\ dead = {}

-----------------------------------------------------------------------------
(* The supervisor and the context, as the proxy sees them *)

MayChange == PromptWatcher /\ ppc = "serve" /\ ~gctxDone =>
                 wpc = "sleep" /\ wasConnected = connected

Status == INSTANCE VpnStatus

\* A status command returned, and tick has not acted on its answer yet.
VPNAnswered == Status!Answer /\ UNCHANGED <<proxyVars, watchVars, connVars>>

\* Its answer changes nothing in State.
VPNKept == Status!Keep /\ UNCHANGED <<proxyVars, watchVars, connVars>>

\* setConnected(true), possibly after the cancellation.
VPNUp == MayChange /\ Status!Up /\ UNCHANGED <<proxyVars, watchVars, connVars>>

\* The first tick that ends connected closes ciscoReady.
CloseReady == Status!Announce /\ UNCHANGED <<proxyVars, watchVars, connVars>>

\* setConnected(false), on a loss or when the supervisor shuts down.
VPNLost ==
    /\ MayChange
    /\ Status!Lose
    /\ dead' = {c \in Conns : conn[c] \in Admitted} \ closed
    /\ UNCHANGED <<proxyVars, watchVars, conn, closed>>

Cancel == Status!Cancel /\ UNCHANGED <<proxyVars, watchVars, connVars>>

-----------------------------------------------------------------------------
(* connTracker *)

setConn(c, s) ==
    /\ conn' = [conn EXCEPT ![c] = s]
    /\ closed' = IF s = "free" THEN closed \ {c} ELSE closed
    /\ dead' = IF s \in Admitted THEN dead ELSE dead \ {c}

\* closeAll, under the tracker's mutex: the client sockets are closed, and the
\* goroutines go on.
closeAll ==
    /\ closed' = {c \in Conns : conn[c] \in Served}
    /\ dead' = {}
    /\ UNCHANGED conn

-----------------------------------------------------------------------------
(* startProxy *)

StartProxy ==
    /\ ppc = "wait" /\ ready
    /\ ppc' = "serve"
    /\ apc' = "accept" /\ lclosed' = FALSE
    /\ wpc' = "start"
    /\ UNCHANGED <<vpnVars, gfailed, held, wasConnected, connVars>>

\* The context was cancelled first, or the port is taken: the error cancels the
\* context of the whole service.
StartFails ==
    /\ ppc = "wait" /\ (ctxDone \/ ready)
    /\ ppc' = "stopped"
    /\ ctxDone' = TRUE
    /\ UNCHANGED <<connected, ready, answered, gfailed, apc, lclosed, held, watchVars,
                   connVars>>

\* The goroutine that unblocks Accept; startProxy does not wait for it.
CloseLoopback ==
    /\ gctxDone /\ ~lclosed
    /\ lclosed' = TRUE
    /\ UNCHANGED <<vpnVars, gfailed, ppc, apc, held, watchVars, connVars>>

\* serveLAN returns the error of a LAN listener that was closed unexpectedly.
ServeLANFails ==
    /\ ppc = "serve" /\ ~gctxDone
    /\ gfailed' = TRUE
    /\ UNCHANGED <<vpnVars, ppc, apc, lclosed, held, watchVars, connVars>>

\* Variant: startProxy does not wait for its goroutines.
groupForgotten == gctxDone

\* g.Wait returns.
groupEnded == apc = "ended" /\ wpc = "ended"

\* The deferred closeAll closes the connections that are left; an error of the
\* group, now returned, ends the service.
StopProxy ==
    /\ ppc = "serve" /\ groupEnded
    /\ closeAll
    /\ ppc' = "stopped"
    /\ ctxDone' = gctxDone
    /\ UNCHANGED <<connected, ready, answered, gfailed, apc, lclosed, held, watchVars>>

-----------------------------------------------------------------------------
(* acceptConns *)

acceptFrame == UNCHANGED <<vpnVars, ppc, lclosed, watchVars>>

AcceptConn(c) ==
    /\ apc = "accept" /\ ~lclosed
    /\ conn[c] = "free"
    /\ setConn(c, "held")
    /\ held' = c
    /\ apc' = "got"
    /\ UNCHANGED gfailed /\ acceptFrame

\* add, and the goroutine that serves the connection starts.
AddConn ==
    /\ apc = "got"
    /\ setConn(held, "tracked")
    /\ held' = NoConn
    /\ apc' = "accept"
    /\ UNCHANGED gfailed /\ acceptFrame

\* The listener is closed: on purpose, or with an error that ends the group, and
\* only the group.
AcceptClosed ==
    /\ apc = "accept" /\ lclosed
    /\ apc' = "ended"
    /\ gfailed' = (gfailed \/ ~gctxDone)
    /\ UNCHANGED <<held, connVars>> /\ acceptFrame

\* Variant: the loop goes on to add, without a connection.
afterErrorAdds == "got"

\* The loop backs off before it accepts again.
afterError == "backoff"

\* A transient error.
AcceptError ==
    /\ apc = "accept" /\ ~lclosed
    /\ apc' = IF gctxDone THEN "ended" ELSE afterError
    /\ UNCHANGED <<gfailed, held, connVars>> /\ acceptFrame

\* The end of the backoff: its timer, or its context.
BackoffEnds ==
    /\ apc = "backoff"
    /\ apc' \in {"accept"} \cup (IF gctxDone THEN {"ended"} ELSE {})
    /\ UNCHANGED <<gfailed, held, connVars>> /\ acceptFrame

\* The loopback socket is closed under the loop.
ListenerBreaks ==
    /\ ppc = "serve" /\ ~lclosed
    /\ lclosed' = TRUE
    /\ UNCHANGED <<vpnVars, gfailed, ppc, apc, held, watchVars, connVars>>

-----------------------------------------------------------------------------
(* The goroutine of a connection *)

connFrame == UNCHANGED <<vpnVars, proxyVars, watchVars>>

\* Variant: the gate is left open.
gateOpen == TRUE

\* What vpnGate and vpnGatedResolver check.
gatePasses == connected

\* vpnGatedResolver: a destination name is resolved.
Resolve(c) ==
    /\ conn[c] = "tracked" /\ gatePasses
    /\ setConn(c, "resolved")
    /\ connFrame

\* vpnGate lets a CONNECT through; the destination may be an address.
vpnGate(c) ==
    /\ conn[c] \in {"tracked", "resolved"} /\ gatePasses
    /\ setConn(c, "dialing")
    /\ connFrame

\* The upstream leg is dialled, for a client that is gone too.
Dial(c) ==
    /\ conn[c] = "dialing"
    /\ setConn(c, "up")
    /\ connFrame

\* ServeConn returns and the goroutine removes the connection: the request was
\* refused or failed, the peer is done, or the goroutine met the closed socket.
ConnEnds(c) ==
    /\ conn[c] \in Served
    /\ setConn(c, "free")
    /\ connFrame

-----------------------------------------------------------------------------
(* dropConnsOnVPNLoss *)

watchFrame == UNCHANGED <<vpnVars, proxyVars>>

WatchStart ==
    /\ wpc = "start"
    /\ wasConnected' = connected
    /\ wpc' = "sleep"
    /\ UNCHANGED connVars /\ watchFrame

\* Variant: only the present value counts, and it must be up.
lossSeenInverted == wasConnected /\ connected

lossSeen == wasConnected /\ ~connected

\* The ticker fired: a sample that shows a loss is followed by closeAll.
WatchTick ==
    /\ wpc = "sleep"
    /\ wpc' = IF lossSeen THEN "drop" ELSE "sleep"
    /\ wasConnected' = connected
    /\ UNCHANGED connVars /\ watchFrame

WatchDrop ==
    /\ wpc = "drop"
    /\ closeAll
    /\ wpc' = "sleep"
    /\ UNCHANGED wasConnected /\ watchFrame

\* Variant: the watcher does not look at the context.
watchCancelledNever == FALSE

watchCancelled == gctxDone

WatchEnds ==
    /\ wpc = "sleep" /\ watchCancelled
    /\ wpc' = "ended"
    /\ UNCHANGED <<wasConnected, connVars>> /\ watchFrame

-----------------------------------------------------------------------------
VPN == VPNAnswered \/ VPNKept \/ VPNUp \/ CloseReady \/ VPNLost

Proxy == StartProxy \/ StartFails \/ CloseLoopback \/ StopProxy

AcceptLoop ==
    AddConn \/ AcceptClosed \/ AcceptError \/ BackoffEnds \/ \E c \in Conns : AcceptConn(c)

Serve(c) == Resolve(c) \/ vpnGate(c) \/ Dial(c) \/ ConnEnds(c)

Watch == WatchStart \/ WatchTick \/ WatchDrop \/ WatchEnds

Next ==
    \/ VPN \/ Cancel \/ ListenerBreaks \/ ServeLANFails
    \/ Proxy \/ AcceptLoop \/ Watch
    \/ \E c \in Conns : Serve(c)

\* The goroutines are scheduled; the ticker keeps firing, at times that have
\* nothing to do with the VPN's; a select that is ready for the cancelled context
\* picks it in the end.  Nothing makes a client connect, or a connection end.
Fairness ==
    /\ WF_vars(Proxy)
    /\ WF_vars(AddConn \/ AcceptClosed \/ BackoffEnds)
    /\ WF_vars(Watch)
    /\ SF_vars(WatchTick)
    /\ SF_vars(WatchEnds)

Spec == Init /\ [][Next]_vars /\ Fairness

-----------------------------------------------------------------------------
(* Safety *)

\* Once the watcher has dealt with a loss, and until the VPN is back, no client
\* is left on a connection that has or is about to get an upstream leg: closeAll
\* has closed the old ones, a connection accepted meanwhile cannot pass the gate,
\* and none falls between the two.
NoUpstreamWhileDown ==
    PromptWatcher /\ ~gctxDone /\ wpc = "sleep" /\ ~wasConnected /\ ~connected =>
        \A c \in Conns : conn[c] \in Admitted => c \in closed

\* Gate and watcher together: when a tunnel comes up, whatever is still dialling or
\* relaying behind the gate since the one before has lost its client, however dials,
\* accepts and closeAll fell around the loss.  For a watcher that samples every
\* change, and until the proxy stops.
Legs == INSTANCE TunnelLegs
            WITH up <- connected, legs <- {c \in Conns : conn[c] \in Admitted},
                 closed <- closed, stopping <- gctxDone

LegsOfOneTunnel == Legs!Spec

\* Once startProxy has returned, the client of every connection that is still
\* served has been closed, and none can be added.
StoppedClean ==
    ppc = "stopped" =>
        \A c \in Conns : conn[c] = "free" \/ c \in closed

\* No destination is dialled while State says that the VPN is down.
NoDialWhileDown ==
    [][\A c \in Conns : conn[c] = "dialing" /\ conn'[c] = "up" => connected]_vars

-----------------------------------------------------------------------------
(* Liveness *)

\* A connection whose tunnel went away is closed, however long its client
\* would wait.
DeadConnsDropped == \A c \in Conns : c \in dead ~> c \notin dead

\* A cancelled context, the service's or the group's, ends startProxy, and the
\* loopback listener with it.
Terminates == gctxDone ~> ppc = "stopped" /\ lclosed

=============================================================================
