------------------------------ MODULE Supervisor ------------------------------
(***************************************************************************)
(* The VPN half of the Cisco supervisor: startCisco, tick and what tick    *)
(* calls in internal/service/cisco.go, with the commands it runs from      *)
(* internal/utils/cisco.  One goroutine owns the loop, so its own fields   *)
(* and the two State fields it alone writes change only in its steps; the  *)
(* Cisco agent, the packet filter, other Cisco clients and the             *)
(* cancellation of the context move on their own between any two of them.  *)
(*                                                                         *)
(* A value of pc that names a command ("poll", "connect", "verify",        *)
(* "kick", "tail", "disconnect") means that the command is running.  A     *)
(* status command that has returned leaves its answer in hand ("polled",   *)
(* "verified"): tick acts on it in a later step, without another look at   *)
(* the context or the agent.  tick begins with detectLAN, whose state is   *)
(* disjoint from this module's; it is modelled with the listener that      *)
(* depends on it.                                                          *)
(***************************************************************************)
EXTENDS Integers

CONSTANTS
    PollInterval,      \* ciscoPollInterval, the unit of the backoff
    MaxConnectDelay,   \* ciscoMaxConnectDelay
    ReconnectGrace,    \* ciscoReconnectGrace
    SlowAgent          \* TRUE: the agent keeps each state until tick has
                       \* acted on an answer that reports it; FALSE: it may
                       \* change any number of times between two polls

ASSUME PollIntervalAssumption == PollInterval \in Nat \ {0}
ASSUME MaxConnectDelayAssumption ==
    MaxConnectDelay \in Nat /\ PollInterval <= MaxConnectDelay
ASSUME ReconnectGraceAssumption == ReconnectGrace \in Nat
ASSUME SlowAgentAssumption == SlowAgent \in BOOLEAN

VARIABLES
    pc,                \* where the supervisor goroutine is
    answer,            \* what the last status command returned, until it is used
    timer,             \* time left of the sleep, or the delay tick returns
    reconnectingSince, \* time elapsed since the field was set, NoTime if zero
    connectDelay,
    readyNotified,     \* also: ciscoReady is closed
    connectedByUs,
    ciscoConnected,    \* State.CiscoConnected
    pfDisabled,        \* State.PFDisabled
    ctxDone,           \* the service context is cancelled
    agent,             \* the Cisco agent's state
    owner,             \* which client set up the agent's session
    pfOn,              \* the packet filter is enabled
    observed,          \* history: tick acted on an answer that reported the
                       \* agent's state, and it has not moved since
    stuckFor           \* history: how long the agent has been Reconnecting

locals == <<reconnectingSince, connectDelay, readyNotified, connectedByUs>>
status == <<ciscoConnected, pfDisabled>>
session == <<agent, owner, stuckFor>>
world == <<session, pfOn, observed>>
vars == <<pc, answer, timer, locals, status, ctxDone, world>>

NoTime == -1
Late == ReconnectGrace + 1     \* times are counted up to here

\* What the agent can be doing; "Paused" stands for every state that
\* parseState does not know.
AgentStates == {"Connected", "Disconnected", "Reconnecting", "Paused"}
Owners == {"none", "us", "other"}
Locations == {"sleep", "poll", "polled", "connect", "verify", "verified", "kick",
              "tail", "pfset", "shutdown", "disconnect", "done"}

parseState(a) ==
    IF a \in {"Connected", "Disconnected", "Reconnecting"} THEN a ELSE "Unknown"

NoAnswer == "none"
Answers == {parseState(a) : a \in AgentStates}

\* A status command has returned and tick has not acted on its answer yet.
InHand == pc \in {"polled", "verified"}

PlacesOK ==
    /\ pc \in Locations
    /\ answer \in IF InHand THEN Answers ELSE {NoAnswer}
    /\ agent \in AgentStates
    /\ owner \in Owners

TimesOK ==
    /\ timer \in 0 .. MaxConnectDelay
    /\ reconnectingSince \in NoTime .. Late
    /\ connectDelay \in PollInterval .. MaxConnectDelay
    /\ stuckFor \in 0 .. Late

FlagsOK ==
    /\ readyNotified \in BOOLEAN
    /\ connectedByUs \in BOOLEAN
    /\ ciscoConnected \in BOOLEAN
    /\ pfDisabled \in BOOLEAN
    /\ ctxDone \in BOOLEAN
    /\ pfOn \in BOOLEAN
    /\ observed \in BOOLEAN

\* State variables have values of the right shape, the backoff stays between
\* its two bounds and no sleep is longer than the larger one.
TypeOK == PlacesOK /\ TimesOK /\ FlagsOK

\* The process may start while the agent already has a session.
Init ==
    /\ pc = "sleep"
    /\ answer = NoAnswer
    /\ timer = 0
    /\ reconnectingSince = NoTime
    /\ connectDelay = PollInterval
    /\ readyNotified = FALSE
    /\ connectedByUs = FALSE
    /\ ciscoConnected = FALSE
    /\ pfDisabled = FALSE
    /\ ctxDone = FALSE
    /\ agent \in AgentStates
    /\ owner = IF agent = "Disconnected" THEN "none" ELSE "other"
    /\ pfOn = (agent = "Connected")
    /\ observed = FALSE
    /\ stuckFor = 0

-----------------------------------------------------------------------------
(* Time *)

Earlier(t) == IF t > 0 THEN t - 1 ELSE 0
Later(t) == IF t < Late THEN t + 1 ELSE Late

\* Time passes for the sleep, for the grace period and for the agent.
Elapse ==
    /\ timer' = IF pc = "sleep" THEN Earlier(timer) ELSE timer
    /\ reconnectingSince' = IF reconnectingSince = NoTime THEN NoTime
                                                          ELSE Later(reconnectingSince)
    /\ stuckFor' = IF agent = "Reconnecting" THEN Later(stuckFor) ELSE stuckFor
    /\ UNCHANGED <<pc, answer, connectDelay, readyNotified, connectedByUs, status, ctxDone,
                   agent, owner, pfOn, observed>>

\* sleepCtx: the timer fired.  With the context cancelled as well, the select
\* may still take this branch.
Wake ==
    /\ pc = "sleep" /\ timer = 0
    /\ pc' = "poll"
    /\ UNCHANGED <<answer, timer, locals, status, ctxDone, world>>

\* Variant: the sleep ignores the context.
sleepIgnoresCtx == FALSE

\* sleepCtx: the context is cancelled.
sleepSeesCtx == ctxDone

WakeCancelled ==
    /\ pc = "sleep" /\ sleepSeesCtx
    /\ pc' = "shutdown"
    /\ UNCHANGED <<answer, timer, locals, status, ctxDone, world>>

-----------------------------------------------------------------------------
(* tick, up to the command that the status calls for *)

\* Variant: a loss leaves the packet filter marked as disabled.
setConnectedKeepsPF(connected) ==
    ciscoConnected' = connected /\ UNCHANGED pfDisabled

\* Variant: a loss is not recorded.
setConnectedOnce(connected) ==
    ciscoConnected' = (ciscoConnected \/ connected) /\ UNCHANGED pfDisabled

setConnected(connected) ==
    /\ ciscoConnected' = connected
    /\ pfDisabled' = IF connected THEN pfDisabled ELSE FALSE

resetConnectDelay == connectDelay' = PollInterval

\* Variant: the end of a reconnect leaves the grace period running.
keepReconnectingSince == UNCHANGED reconnectingSince

clearReconnectingSince == reconnectingSince' = NoTime

\* The status command failed, always so once the context is cancelled: the
\* last known status is kept.
PollError ==
    /\ pc = "poll"
    /\ pc' = "tail"
    /\ timer' = PollInterval
    /\ UNCHANGED <<answer, locals, status, ctxDone, world>>

\* The status command that runs at one location succeeded, so it was not
\* killed by the cancellation; the goroutine goes on at the next with its answer.
Answered(at, next) ==
    /\ pc = at /\ ~ctxDone
    /\ pc' = next
    /\ answer' = parseState(agent)
    /\ UNCHANGED <<timer, locals, status, ctxDone, world>>

PollAnswered == Answered("poll", "polled")
VerifyAnswered == Answered("verify", "verified")

\* The answer is used up, cancelled context or not.
Acted ==
    /\ answer' = NoAnswer
    /\ observed' = (answer = parseState(agent))
    /\ UNCHANGED <<readyNotified, ctxDone, session, pfOn>>

PollConnected ==
    /\ pc = "polled" /\ answer = "Connected"
    /\ pc' = "tail"
    /\ timer' = PollInterval
    /\ resetConnectDelay
    /\ clearReconnectingSince
    /\ setConnected(TRUE)
    /\ Acted
    /\ UNCHANGED connectedByUs

\* Variant: every tick restarts the grace period.
awaitReconnectRestarts ==
    reconnectingSince' = 0 /\ pc' = "tail"

\* awaitReconnect: starts the grace period if it is not running; past it, the
\* disconnect command is next.
awaitReconnect ==
    /\ reconnectingSince' = IF reconnectingSince = NoTime THEN 0 ELSE reconnectingSince
    /\ pc' = IF reconnectingSince' <= ReconnectGrace THEN "tail" ELSE "kick"

PollReconnecting ==
    /\ pc = "polled" /\ answer = "Reconnecting"
    /\ timer' = PollInterval
    /\ setConnected(FALSE)
    /\ awaitReconnect
    /\ Acted
    /\ UNCHANGED <<connectDelay, connectedByUs>>

\* Any other state, known or not: the connect command is next.
PollOther ==
    /\ pc = "polled" /\ answer \notin {"Connected", "Reconnecting"}
    /\ pc' = "connect"
    /\ timer' = PollInterval
    /\ clearReconnectingSince
    /\ setConnected(FALSE)
    /\ Acted
    /\ UNCHANGED <<connectDelay, connectedByUs>>

-----------------------------------------------------------------------------
(* The commands that change the agent's session *)

\* A session comes up, and Cisco enables the packet filter.
Establish(who) ==
    /\ agent' = "Connected"
    /\ owner' = who
    /\ pfOn' = TRUE
    /\ observed' = FALSE
    /\ stuckFor' = 0

\* The session ends.
Drop ==
    /\ agent' = "Disconnected"
    /\ owner' = "none"
    /\ observed' = IF agent = "Disconnected" THEN observed ELSE FALSE
    /\ stuckFor' = 0
    /\ UNCHANGED pfOn

\* What the connect command did to the agent: nothing, or a new session.
ConnectEffect == UNCHANGED world \/ (agent # "Connected" /\ Establish("us"))

\* What the disconnect command did to the agent: it obeyed, or not.
DisconnectEffect == UNCHANGED world \/ Drop

\* Variant: the delay doubles without a limit.
doubledUncapped(d) == d * 2

doubled(d) == IF d * 2 < MaxConnectDelay THEN d * 2 ELSE MaxConnectDelay

\* connect failed: the delay before the next tick, and the one after it.  A
\* failure that the cancelled context explains does not count.
Failed ==
    /\ pc' = "tail"
    /\ IF ctxDone THEN timer' = PollInterval /\ UNCHANGED connectDelay
                  ELSE timer' = connectDelay /\ connectDelay' = doubled(connectDelay)
    /\ UNCHANGED <<reconnectingSince, readyNotified, connectedByUs, status, ctxDone>>

\* ErrAcquired: no backoff.  The output says so even of a command that was killed.
ConnectAcquired ==
    /\ pc = "connect"
    /\ pc' = "tail"
    /\ UNCHANGED <<answer, timer, locals, status, ctxDone, world>>

\* The command failed or was killed; the agent may have connected all the same.
ConnectFails == pc = "connect" /\ Failed /\ ConnectEffect /\ UNCHANGED answer

\* The command succeeded, which says nothing of the agent's state; the status
\* command is next.
ConnectRuns ==
    /\ pc = "connect" /\ ~ctxDone
    /\ pc' = "verify"
    /\ ConnectEffect
    /\ UNCHANGED <<answer, timer, locals, status, ctxDone>>

\* That command failed.
VerifyError == pc = "verify" /\ Failed /\ UNCHANGED <<answer, world>>

\* ErrNotConnected.
VerifyNotConnected ==
    /\ pc = "verified" /\ answer # "Connected"
    /\ Failed
    /\ Acted

\* connect succeeded; the connection is published without a look at the context.
VerifyConnected ==
    /\ pc = "verified" /\ answer = "Connected"
    /\ pc' = "tail"
    /\ timer' = PollInterval
    /\ resetConnectDelay
    /\ connectedByUs' = TRUE
    /\ setConnected(TRUE)
    /\ Acted
    /\ UNCHANGED reconnectingSince

\* The forced disconnect worked: the grace period is over.
KickSucceeds ==
    /\ pc = "kick" /\ ~ctxDone
    /\ pc' = "tail"
    /\ Drop
    /\ reconnectingSince' = NoTime
    /\ UNCHANGED <<answer, timer, connectDelay, readyNotified, connectedByUs, status,
                   ctxDone>>

\* It failed, timed out or was killed; the next tick tries again.
KickFails ==
    /\ pc = "kick"
    /\ pc' = "tail"
    /\ DisconnectEffect
    /\ UNCHANGED <<answer, timer, locals, status, ctxDone>>

-----------------------------------------------------------------------------
(* The end of tick: disablePF and ciscoReady *)

\* Not connected: tick returns.
TailDown ==
    /\ pc = "tail" /\ ~ciscoConnected
    /\ pc' = "sleep"
    /\ UNCHANGED <<answer, timer, locals, status, ctxDone, world>>

\* Variant: the service is let go only when the filter is marked as disabled.
notifyUnfiltered == readyNotified \/ pfDisabled

\* The first tick that ends connected closes ciscoReady, whatever pfctl did.
notifyReady == TRUE

\* Connected, and the filter is marked as disabled or pfctl failed (it may have
\* been killed after its effect).
TailUp ==
    /\ pc = "tail" /\ ciscoConnected
    /\ pc' = "sleep"
    /\ readyNotified' = notifyReady
    /\ IF pfDisabled THEN UNCHANGED pfOn ELSE pfOn' \in {pfOn, FALSE}
    /\ UNCHANGED <<answer, timer, reconnectingSince, connectDelay, connectedByUs,
                   status, ctxDone, session, observed>>

\* pfctl -d succeeded, or said that the filter was off already.
TailDisablePF ==
    /\ pc = "tail" /\ ciscoConnected /\ ~pfDisabled /\ ~ctxDone
    /\ pc' = "pfset"
    /\ pfOn' = FALSE
    /\ UNCHANGED <<answer, timer, locals, status, ctxDone, session, observed>>

\* disablePF records the success; tick returns.
MarkPFDisabled ==
    /\ pc = "pfset"
    /\ pc' = "sleep"
    /\ pfDisabled' = TRUE
    /\ readyNotified' = notifyReady
    /\ UNCHANGED <<answer, timer, reconnectingSince, connectDelay, connectedByUs,
                   ciscoConnected, ctxDone, world>>

-----------------------------------------------------------------------------
(* shutdown *)

Shutdown ==
    /\ pc = "shutdown"
    /\ setConnected(FALSE)
    /\ pc' = IF connectedByUs THEN "disconnect" ELSE "done"
    /\ UNCHANGED <<answer, timer, locals, ctxDone, world>>

\* The last disconnect runs on a context of its own: it succeeds, or fails
\* within ciscoDisconnectTimeout, and startCisco returns either way.
ShutdownDisconnect ==
    /\ pc = "disconnect"
    /\ pc' = "done"
    /\ DisconnectEffect
    /\ UNCHANGED <<answer, timer, locals, status, ctxDone>>

-----------------------------------------------------------------------------
(* The environment *)

Cancel ==
    /\ ~ctxDone
    /\ ctxDone' = TRUE
    /\ UNCHANGED <<pc, answer, timer, locals, status, world>>

\* The agent moves without the supervisor.
Moves ==
    /\ SlowAgent => observed /\ ~InHand
    /\ UNCHANGED <<pc, answer, timer, locals, status, ctxDone>>

\* It loses its network and tries on its own, or is paused.
AgentDrops(a) ==
    /\ Moves
    /\ agent = "Connected" /\ a \in {"Reconnecting", "Paused"}
    /\ agent' = a
    /\ observed' = FALSE
    /\ stuckFor' = 0
    /\ UNCHANGED <<owner, pfOn>>

\* It gets its session back.
AgentResumes == Moves /\ agent \in {"Reconnecting", "Paused"} /\ Establish(owner)

\* It gives up, or somebody ends the session from another client.
AgentEnds == Moves /\ agent # "Disconnected" /\ Drop

\* Another Cisco client (the GUI) sets up a session.
OtherConnects == Moves /\ agent = "Disconnected" /\ Establish("other")

-----------------------------------------------------------------------------
Poll == PollError \/ PollAnswered \/ PollConnected \/ PollReconnecting \/ PollOther
Connect == ConnectAcquired \/ ConnectFails \/ ConnectRuns
Verify == VerifyError \/ VerifyAnswered \/ VerifyNotConnected \/ VerifyConnected
Kick == KickSucceeds \/ KickFails
Tail == TailDown \/ TailUp \/ TailDisablePF \/ MarkPFDisabled
Stop == WakeCancelled \/ Shutdown \/ ShutdownDisconnect

Supervise == Wake \/ Poll \/ Connect \/ Verify \/ Kick \/ Tail \/ Stop

Agent == AgentResumes \/ AgentEnds \/ OtherConnects \/ \E a \in AgentStates : AgentDrops(a)

Next == Elapse \/ Supervise \/ Cancel \/ Agent

\* The goroutine is scheduled, time passes, and every command that keeps
\* being run works in the end: its failures are transient (the comment at
\* tick), and no other client holds the connect capability for ever.  A select
\* with two ready cases picks one at random, so a cancelled context is not
\* passed over for ever.
Fairness ==
    /\ WF_vars(Elapse)
    /\ WF_vars(Supervise)
    /\ SF_vars(WakeCancelled)
    /\ SF_vars(PollAnswered)
    /\ SF_vars(ConnectRuns /\ agent' = "Connected")
    /\ SF_vars(VerifyAnswered)
    /\ SF_vars(KickSucceeds)
    /\ SF_vars(TailDisablePF)

Spec == Init /\ [][Next]_vars /\ Fairness

-----------------------------------------------------------------------------
(* Safety *)

\* State never claims a connection that the last status answer denied: as long
\* as the agent has not moved since tick acted on it, CiscoConnected implies
\* that it is connected.  The gate, the pinner and the connection
\* watcher all act on this field.
StatusNotContradicted ==
    ciscoConnected /\ observed => agent = "Connected"

\* PFDisabled tells the truth about the packet filter while the tunnel is up
\* (setConnected resets it on every loss because Cisco enables the filter on
\* every reconnect).  Holds for an agent that does not outrun the polls.
PFMarkTruthful ==
    SlowAgent /\ pfDisabled /\ agent = "Connected" => ~pfOn

\* A connection forgets the failures before it: whenever State says connected,
\* the next failed connect waits one poll interval only.
BackoffForgotten ==
    ciscoConnected => connectDelay = PollInterval

\* awaitReconnect kicks the agent only when it has really been reconnecting for
\* longer than the grace period, without a break.
KickOnlyStuck ==
    [][pc # "kick" /\ pc' = "kick" => stuckFor > ReconnectGrace]_vars

\* shutdown disconnects the VPN only if this process connected it: the session
\* that the last disconnect ends was set up by this process.
ShutdownEndsOwnSession ==
    [][pc = "disconnect" /\ agent # agent' /\ pc' = "done" => owner = "us"]_vars

-----------------------------------------------------------------------------
(* Refinement *)

Status == INSTANCE VpnStatus
              WITH connected <- ciscoConnected, ready <- readyNotified,
                   ctxDone <- ctxDone, answered <- InHand

\* The rest of the service sees of the supervisor what VpnStatus allows: no loss
\* before ciscoReady is closed, and every published connection backed by an answer
\* of its own, so that after the cancellation at most one more is published, of the
\* command that had returned before it; although the flag and the channel change in
\* different steps of tick, and failures of pfctl and of the status command and the
\* cancellation come in between.
ShowsStatus == Status!Spec

-----------------------------------------------------------------------------
(* Liveness *)

\* The supervisor never stops trying: as long as the service runs, it keeps
\* coming back to an established connection, past an agent that would reconnect
\* for ever.
KeepsReconnecting == []<>(ciscoConnected \/ ctxDone)

\* An enabled packet filter under a connected tunnel is disabled again.
PFReasserted ==
    (agent = "Connected" /\ pfOn) ~> (~pfOn \/ agent # "Connected" \/ ctxDone)

\* Cancelling the context ends the supervisor, whatever the agent does.
Terminates == ctxDone ~> pc = "done"

=============================================================================
