--------------------------- MODULE LifecycleProofs ---------------------------
(***************************************************************************)
(* How the process ends, for every configuration, number of upstreams and  *)
(* capacity of the log channel.                                            *)
(***************************************************************************)
EXTENDS Lifecycle, TLAPS

\* State reports a DNS server only while there is one: from its listener on until
\* startDNS returns, on every path.
DnsReportedServes == dnsStarted => npc \in {"activate", "serving"}

\* Nothing runs before the configuration is loaded.
LoadQuiet ==
    mpc = "load" =>
        /\ ~ready /\ ~groupDone /\ ~failed
        /\ \A p \in Parts : part[p] = "off"
        /\ npc = "waiting"
        /\ tpc = "off" /\ tuiErr = "empty" /\ ~terr
        /\ logTo = "stdout"

\* The UI holds the terminal and os.Stdout only where it will give them back, and
\* sends its result after that.
TuiAt ==
    /\ screen => tpc \in {"loop", "close"}
    /\ ~stdout => tpc \in {"gui", "loop", "close", "restore"}
    /\ tuiErr # "empty" => tpc \in {"cancel", "done"}
    /\ tuiErr = "error" => terr
    /\ tuiErr = "nil" => ~terr

\* While run waits for the UI, the service has ended and its error is known.
JoinEnded ==
    mpc = "join" =>
        /\ \A p \in Parts : part[p] = "ended"
        /\ npc = "ended"
        /\ err = IF failed THEN "service" ELSE "nil"

\* The UI's result is there once the UI has sent it, until run takes it.
ResultKept ==
    mpc \in {"serving", "join"} => tpc # "off" /\ (tpc \in {"cancel", "done"} => tuiErr # "empty")

\* The listener is open only while somebody is there to close it.
ListenerWatched ==
    /\ npc \in {"announce", "activate", "serving"} => nclosed \/ kpc \in {"wait", "close"}
    /\ kpc = "shutdown" => nclosed

\* The inductive invariant.
IInv ==
    /\ TypeOK
    /\ DnsReportedServes
    /\ LoadQuiet
    /\ TuiAt
    /\ JoinEnded
    /\ ResultKept
    /\ ListenerWatched
    /\ (mpc = "join" => rootDone)
    /\ ExitClean
    /\ ErrorReported

USE DEF runVars, groupVars, tuiVars, logVars, dnsVars, vars, groupFrame, DnsFrame, tuiFrame,
    runFrame, queryFrame, groupAsIs

-----------------------------------------------------------------------------
(* The steps of the DNS server and the others *)

DnsStep ==
    \/ DnsAnnounces \/ DnsServed \/ DnsQuery \/ ExchangeFails \/ ExchangeAnswers
    \/ DnsWaits \/ DnsCancelled \/ DnsListens \/ DnsListenFails
    \/ DnsActivates \/ DnsServeFails \/ DnsReplies
    \/ DnsShutdown \/ DnsShutdownWaited \/ DnsCloses \/ DnsBreaks

\* What happens around the step of the DNS server.
DnsContext == UNCHANGED <<runVars, part, tuiVars, logTo>> /\ (UNCHANGED logs \/ Write)

OtherStep == Group \/ Tui \/ LogsShown \/ Run \/ Signal \/ TuiCtrlC \/ TuiFails

\* Every step is one or the other, and is taken by a process that is alive.
LEMMA TwoKinds ==
    ASSUME [Next]_vars
    PROVE  (alive /\ DnsStep /\ DnsContext) \/ (alive /\ OtherStep) \/ UNCHANGED vars
BY DEF Next, DnsLogs, DnsAsked, DnsSilent, DnsShuts, DnsListenerBreaks, Environment,
   DnsStep, DnsContext, OtherStep

\* Only the server's own steps move its variables.
LEMMA OthersLeaveDns ==
    ASSUME OtherStep
    PROVE  UNCHANGED dnsVars
BY DEF OtherStep, Group, CiscoReady, ProxyFails, PartStarts, PartEnds, Tui, TuiSetup,
   TuiGui, TuiWatcher, TuiQuits, TuiCloses, TuiRestores, TuiSends, TuiCancels,
   LogsShown, Run, ConfigLoaded, ConfigFails, StartReturns, RunReturns, Signal,
   TuiCtrlC, TuiFails

\* A query keeps its shape, from upstream to upstream and to its reply.
LEMMA QueryType ==
    ASSUME query \in Queries \cup {NoQuery}, DnsStep
    PROVE  query' \in Queries \cup {NoQuery}
<1> USE UpstreamsAssumption
<1>1. CASE ExchangeFails
    BY <1>1 DEF ExchangeFails, tryNext, Reply, Queries
<1>2. CASE DnsQuery
    BY <1>2 DEF DnsQuery, Queries
<1>3. CASE ExchangeAnswers
    BY <1>3 DEF ExchangeAnswers, Reply, Queries
<1>4. CASE DnsReplies
    BY <1>4 DEF DnsReplies
<1>5. CASE UNCHANGED query
    BY <1>5
<1> QED
    BY <1>1, <1>2, <1>3, <1>4, <1>5
       DEF DnsStep, DnsAnnounces, DnsServed, DnsWaits, DnsCancelled, DnsListens,
       DnsListenFails, DnsActivates, DnsServeFails, DnsShutdown, DnsShutdownWaited,
       DnsCloses, DnsBreaks

\* A step of the DNS server keeps the types: its own, and those it touches.
LEMMA DnsTypeStep ==
    ASSUME TypeOK, DnsStep, DnsContext
    PROVE  TypeOK'
<1>1. query' \in Queries \cup {NoQuery}
    BY QueryType DEF TypeOK, DnsTypeOK
<1>2. logs' \in 0..LogCap
    BY LogCapAssumption DEF TypeOK, DnsContext, Write
<1> USE DEF DnsStep, DnsAnnounces, DnsServed, ExchangeFails, DnsQuery, DnsWaits,
    DnsCancelled, DnsListens, DnsListenFails, DnsActivates, DnsServeFails, DnsReplies,
    ExchangeAnswers, DnsShutdown, DnsShutdownWaited, DnsCloses, DnsBreaks
<1>3. npc' \in {"waiting", "listen", "announce", "activate", "serving", "ended"}
      /\ kpc' \in {"none", "wait", "shutdown", "close", "done"}
    BY DEF TypeOK, DnsTypeOK, dnsReturns
<1>4. dnsStarted' \in BOOLEAN
    BY DEF TypeOK, DnsTypeOK, dnsReturns
<1>5. nclosed' \in BOOLEAN /\ started' \in BOOLEAN
    BY DEF TypeOK, DnsTypeOK, listenerClosed
<1>6. groupDone' \in BOOLEAN /\ failed' \in BOOLEAN /\ UNCHANGED ready
    BY DEF TypeOK, groupFails
<1> QED
    BY <1>1, <1>2, <1>3, <1>4, <1>5, <1>6 DEF TypeOK, DnsTypeOK, DnsContext

\* The other steps keep the types.
LEMMA OtherTypeStep ==
    ASSUME TypeOK, OtherStep
    PROVE  TypeOK'
<1>1. DnsTypeOK'
    BY OthersLeaveDns DEF TypeOK, DnsTypeOK
<1> USE LogCapAssumption
<1> USE DEF TypeOK, OtherStep, Group, CiscoReady, ProxyFails, PartStarts, PartEnds, Tui,
    TuiSetup, TuiGui, TuiWatcher, TuiQuits, TuiCloses, TuiRestores, TuiSends,
    TuiCancels, LogsShown, Run, ConfigLoaded, ConfigFails, StartReturns, RunReturns,
    Signal, TuiCtrlC, TuiFails
<1>2. logs' \in 0..LogCap /\ logTo' \in {"stdout", "null", "tui"}
    BY DEF Write, logsToStdout
<1>3. tpc' \in {"off", "setup", "gui", "loop", "close", "restore", "send", "cancel", "done"}
      /\ tuiErr' \in {"empty", "nil", "error"}
    OBVIOUS
<1>4. mpc' \in {"load", "serving", "join", "exited", "killed"}
      /\ err' \in {"nil", "config", "service", "tui"}
      /\ config' \in Configs \cup {NoConfig}
    BY DEF firstError
<1>5. part' \in [Parts -> {"off", "waiting", "running", "ended"}]
    BY DEF Parts
<1>6. rootDone' \in BOOLEAN /\ notify' \in BOOLEAN /\ groupDone' \in BOOLEAN
    BY DEF cancelFirst, cancelRoot, groupFails
<1>7. ready' \in BOOLEAN /\ failed' \in BOOLEAN
    BY DEF groupFails
<1>8. terr' \in BOOLEAN /\ screen' \in BOOLEAN /\ stdout' \in BOOLEAN /\ quit' \in BOOLEAN
    OBVIOUS
<1> QED
    BY <1>1, <1>2, <1>3, <1>4, <1>5, <1>6, <1>7, <1>8

-----------------------------------------------------------------------------
(* The invariant *)

\* State stops to report the server on every path on which startDNS returns.
LEMMA ReportedStep ==
    ASSUME DnsReportedServes, DnsStep
    PROVE  DnsReportedServes'
BY DEF DnsReportedServes, DnsStep, DnsAnnounces, DnsServed, ExchangeFails, DnsQuery,
   DnsWaits, DnsCancelled, DnsListens, DnsListenFails, DnsActivates, DnsServeFails,
   DnsReplies, ExchangeAnswers, DnsShutdown, DnsShutdownWaited, DnsCloses, DnsBreaks,
   dnsReturns

\* The shutdown goroutine starts with the listener, and closes it on both of its paths.
LEMMA WatchedStep ==
    ASSUME TypeOK, ListenerWatched, DnsStep
    PROVE  ListenerWatched'
BY DEF TypeOK, DnsTypeOK, ListenerWatched, DnsStep, DnsAnnounces, DnsServed, ExchangeFails,
   DnsQuery, DnsWaits, DnsCancelled, DnsListens, DnsListenFails, DnsActivates,
   DnsServeFails, DnsReplies, ExchangeAnswers, DnsShutdown, DnsShutdownWaited, DnsCloses,
   DnsBreaks, dnsReturns, listenerClosed

\* The UI's result is sent before its goroutine ends, and taken by run only when run
\* returns; run cancels the root context before it waits for that result.
LEMMA ResultStep ==
    ASSUME IInv, alive, OtherStep
    PROVE  ResultKept' /\ (mpc = "join" => rootDone)'
<1> USE DEF OtherStep, Group, CiscoReady, ProxyFails, PartStarts, PartEnds, Tui,
    TuiSetup, TuiGui, TuiWatcher, TuiQuits, TuiCloses, TuiRestores, TuiSends,
    TuiCancels, LogsShown, Run, ConfigLoaded, ConfigFails, StartReturns, RunReturns,
    Signal, TuiCtrlC, TuiFails
<1>1. ResultKept'
    BY DEF IInv, TypeOK, ResultKept
<1>2. (mpc = "join" => rootDone)'
    BY DEF IInv, TypeOK, cancelFirst, cancelRoot
<1> QED
    BY <1>1, <1>2

\* Before the configuration is loaded, no goroutine of the service is there to move.
LEMMA QuietStep ==
    ASSUME IInv, alive, OtherStep
    PROVE  LoadQuiet'
<1> SUFFICES ASSUME mpc' = "load" PROVE LoadQuiet'
    BY DEF LoadQuiet
<1> USE DEF OtherStep, Group, CiscoReady, ProxyFails, PartStarts, PartEnds, Tui,
    TuiSetup, TuiGui, TuiWatcher, TuiQuits, TuiCloses, TuiRestores, TuiSends,
    TuiCancels, LogsShown, Run, ConfigLoaded, ConfigFails, StartReturns, RunReturns,
    Signal, TuiCtrlC, TuiFails
<1>1. mpc = "load"
    OBVIOUS
<1>2. UNCHANGED vars
    BY <1>1 DEF IInv, LoadQuiet, Parts
<1> QED
    BY <1>2 DEF IInv, LoadQuiet

\* The UI gives the terminal back before os.Stdout, and both before it sends.
LEMMA TuiStep ==
    ASSUME IInv, alive, OtherStep
    PROVE  TuiAt'
<1> USE DEF IInv, TuiAt, TypeOK
<1>1. CASE UNCHANGED tuiVars
    BY <1>1
<1>2. CASE ConfigLoaded
    BY <1>2 DEF ConfigLoaded, LoadQuiet
<1>3. CASE TuiSetup
    BY <1>3 DEF TuiSetup
<1>4. CASE TuiGui
    BY <1>4 DEF TuiGui
<1>5. CASE TuiWatcher \/ TuiQuits \/ TuiCtrlC
    BY <1>5 DEF TuiWatcher, TuiQuits, TuiCtrlC
<1>6. CASE TuiFails
    BY <1>6 DEF TuiFails
<1>7. CASE TuiCloses
    BY <1>7 DEF TuiCloses
<1>8. CASE TuiRestores
    BY <1>8 DEF TuiRestores
<1>9. CASE TuiSends
    BY <1>9 DEF TuiSends
<1>10. CASE TuiCancels
    BY <1>10 DEF TuiCancels
<1>11. CASE RunReturns
    BY <1>11 DEF RunReturns, runFrame
<1> QED
    BY <1>1, <1>2, <1>3, <1>4, <1>5, <1>6, <1>7, <1>8, <1>9, <1>10, <1>11
       DEF OtherStep, Group, CiscoReady, ProxyFails, PartStarts, PartEnds, Tui, LogsShown,
       Run, ConfigFails, StartReturns, Signal

\* After Start has returned, no part can fail any more.
LEMMA JoinStep ==
    ASSUME IInv, alive, OtherStep
    PROVE  JoinEnded'
<1> SUFFICES ASSUME mpc' = "join" PROVE JoinEnded'
    BY DEF JoinEnded
<1>1. CASE StartReturns
    BY <1>1, OthersLeaveDns DEF StartReturns, JoinEnded
<1>2. CASE mpc = "join"
  <2>1. UNCHANGED <<part, failed, err, npc>>
    BY <1>2, OthersLeaveDns DEF IInv, JoinEnded, Parts, OtherStep, Group, CiscoReady,
       ProxyFails, PartStarts, PartEnds, Tui, TuiSetup, TuiGui, TuiWatcher, TuiQuits,
       TuiCloses, TuiRestores, TuiSends, TuiCancels, LogsShown, Run, ConfigLoaded,
       ConfigFails, StartReturns, RunReturns, Signal, TuiCtrlC, TuiFails
  <2> QED
    BY <1>2, <2>1 DEF IInv, JoinEnded
<1> QED
    BY <1>1, <1>2 DEF OtherStep, Group, CiscoReady, ProxyFails, PartStarts, PartEnds,
       Tui, TuiSetup, TuiGui, TuiWatcher, TuiQuits, TuiCloses, TuiRestores, TuiSends,
       TuiCancels, LogsShown, Run, ConfigLoaded, ConfigFails, StartReturns, RunReturns,
       Signal, TuiCtrlC, TuiFails

\* run returns after a configuration that is not valid, or when the UI has sent its
\* result and the service has ended.
LEMMA ExitStep ==
    ASSUME IInv, alive, OtherStep
    PROVE  ExitClean' /\ ErrorReported'
<1> SUFFICES ASSUME mpc' = "exited" PROVE ExitClean' /\ ErrorReported'
    BY DEF ExitClean, ErrorReported
<1>1. CASE ConfigFails
    BY <1>1 DEF ConfigFails, IInv, TypeOK, LoadQuiet, TuiAt, DnsReportedServes, ExitClean,
       ErrorReported
<1>2. CASE RunReturns
  <2>1. ~screen /\ stdout
    BY <1>2 DEF RunReturns, IInv, TypeOK, TuiAt
  <2>2. ExitClean'
    BY <1>2, <2>1 DEF RunReturns, runFrame, logsToStdout, IInv, JoinEnded,
       DnsReportedServes, ExitClean
  <2>3. ErrorReported'
    BY <1>2 DEF RunReturns, runFrame, firstError, IInv, TypeOK, JoinEnded, TuiAt,
       ErrorReported
  <2> QED
    BY <2>2, <2>3
<1> QED
    BY <1>1, <1>2 DEF alive, OtherStep, Group, CiscoReady, ProxyFails, PartStarts,
       PartEnds, Tui, TuiSetup, TuiGui, TuiWatcher, TuiQuits, TuiCloses, TuiRestores,
       TuiSends, TuiCancels, LogsShown, Run, ConfigLoaded, ConfigFails, StartReturns,
       RunReturns, Signal, TuiCtrlC, TuiFails

\* The invariant holds at the start and every step keeps it.
LEMMA IInvInductive == Spec => []IInv
<1>1. ASSUME Init PROVE IInv
  <2>1. DnsTypeOK /\ DnsReportedServes
    BY <1>1 DEF Init, DnsInit, DnsTypeOK, DnsReportedServes
  <2>2. TypeOK
    <3>1. logs \in 0..LogCap /\ part \in [Parts -> {"off", "waiting", "running", "ended"}]
      BY <1>1, LogCapAssumption DEF Init
    <3> QED
      BY <1>1, <2>1, <3>1, Zenon DEF Init, TypeOK
  <2>3. LoadQuiet /\ TuiAt /\ JoinEnded /\ ExitClean /\ ErrorReported
    BY <1>1 DEF Init, DnsInit, LoadQuiet, TuiAt, JoinEnded, ExitClean, ErrorReported
  <2>4. ResultKept /\ ListenerWatched /\ (mpc = "join" => rootDone)
    BY <1>1 DEF Init, DnsInit, ResultKept, ListenerWatched
  <2> QED
    BY <2>1, <2>2, <2>3, <2>4 DEF IInv
<1>2. ASSUME IInv, [Next]_vars PROVE IInv'
  <2>1. CASE alive /\ DnsStep /\ DnsContext
    <3>1. TypeOK' /\ DnsReportedServes' /\ ListenerWatched'
      BY <1>2, <2>1, DnsTypeStep, ReportedStep, WatchedStep DEF IInv
    <3>2. mpc' \in {"load", "serving", "join"}
            /\ UNCHANGED <<part, tuiVars, err, logTo, mpc, rootDone>>
      BY <2>1 DEF alive, DnsContext
    <3>3. LoadQuiet' /\ JoinEnded'
      BY <1>2, <2>1, <3>2 DEF IInv, LoadQuiet, JoinEnded, DnsStep, DnsAnnounces,
         DnsServed, ExchangeFails, DnsQuery, DnsWaits, DnsCancelled, DnsListens,
         DnsListenFails, DnsActivates, DnsServeFails, DnsReplies, ExchangeAnswers,
         DnsShutdown, DnsShutdownWaited, DnsCloses, DnsBreaks
    <3>4. TuiAt' /\ ExitClean' /\ ErrorReported' /\ ResultKept' /\ (mpc = "join" => rootDone)'
      BY <1>2, <3>2 DEF IInv, TuiAt, ExitClean, ErrorReported, ResultKept
    <3> QED
      BY <3>1, <3>3, <3>4 DEF IInv
  <2>2. CASE alive /\ OtherStep
    <3>1. TypeOK' /\ DnsReportedServes' /\ ListenerWatched'
      BY <1>2, <2>2, OtherTypeStep, OthersLeaveDns DEF IInv, DnsReportedServes, ListenerWatched
    <3> QED
      BY <1>2, <2>2, <3>1, QuietStep, TuiStep, JoinStep, ResultStep, ExitStep DEF IInv
  <2>3. CASE UNCHANGED vars
    BY <1>2, <2>3 DEF IInv, TypeOK, DnsTypeOK, DnsReportedServes, LoadQuiet, TuiAt,
       JoinEnded, ResultKept, ListenerWatched, ExitClean, ErrorReported
  <2> QED
    BY <1>2, <2>1, <2>2, <2>3, TwoKinds
<1> QED
    BY <1>1, <1>2, PTL DEF Spec

\* The types of Lifecycle and DnsServer hold; in particular forwardDNS asks no
\* upstream past the last, and the log channel is never overfull.
THEOREM TypeCorrect == Spec => []TypeOK
<1>1. IInv => TypeOK
    BY DEF IInv
<1> QED
    BY <1>1, IInvInductive, PTL

\* When run returns, terminal, os.Stdout and logs are restored and the service has
\* ended, whichever of the UI and the service ended first.
THEOREM ExitCorrect == Spec => []ExitClean
<1>1. IInv => ExitClean
    BY DEF IInv
<1> QED
    BY <1>1, IInvInductive, PTL

\* run returns the service's error, else the UI's, else nil.
THEOREM ErrorCorrect == Spec => []ErrorReported
<1>1. IInv => ErrorReported
    BY DEF IInv
<1> QED
    BY <1>1, IInvInductive, PTL

\* run, the UI, the DNS server and its shutdown goroutine never wait in a circle,
\* whoever ends first.  Under the fairness of Spec this is why the process ends.
THEOREM WaitsCorrect == Spec => []NoCircularWait
<1>1. IInv => NoCircularWait
    BY DEF IInv, TypeOK, TuiAt, ResultKept, ListenerWatched, NoCircularWait
<1> QED
    BY <1>1, IInvInductive, PTL

\* Start runs the sniffer only with credentials or an explicit lan_discovery, because
\* validate accepts a user name only together with a password.
THEOREM DiscoveryCorrect == Spec => DiscoveryAskedFor
<1>1. ASSUME IInv, [Next]_vars
      PROVE  [mpc = "load" /\ part'["sniffer"] = "running" =>
                config.lanDiscovery \/ (config.socksUser /\ config.socksPassword)]_vars
  <2> SUFFICES ASSUME mpc = "load", part'["sniffer"] = "running"
               PROVE  config.lanDiscovery \/ (config.socksUser /\ config.socksPassword)
    OBVIOUS
  <2>1. ConfigLoaded
    <3> USE DEF IInv, LoadQuiet, Parts
    <3>1. CASE alive /\ OtherStep
      BY <1>1, <3>1 DEF OtherStep, Group, CiscoReady, ProxyFails, PartStarts, PartEnds,
         Tui, TuiSetup, TuiGui, TuiWatcher, TuiQuits, TuiCloses, TuiRestores, TuiSends,
         TuiCancels, LogsShown, Run, ConfigLoaded, ConfigFails, StartReturns,
         RunReturns, Signal, TuiCtrlC, TuiFails
    <3>2. CASE DnsContext \/ UNCHANGED vars
      BY <1>1, <3>2 DEF DnsContext
    <3> QED
      BY <1>1, <3>1, <3>2, TwoKinds
  <2>2. validate(config) /\ discoveryEnabled(config)
    BY <2>1 DEF ConfigLoaded, Parts
  <2> QED
    BY <2>2 DEF validate, socksTogether, discoveryEnabled
<1> QED
    BY <1>1, IInvInductive, PTL DEF Spec, DiscoveryAskedFor

=============================================================================
