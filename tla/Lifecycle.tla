------------------------------ MODULE Lifecycle ------------------------------
(***************************************************************************)
(* The life of the process: loadConfig (config.go), run (main.go),         *)
(* Service.Start and its group of five goroutines (service.go), the        *)
(* terminal UI (tui.go, logs.go) and the DNS server (module DnsServer).    *)
(* The supervisor, the proxy, the pinner and the sniffer, which have       *)
(* modules of their own, appear as parts that wait, run and end.           *)
(*                                                                         *)
(* Two contexts meet here.  The root context ends with a signal, with the  *)
(* UI and when run cancels it; the group's context ends with the root or   *)
(* with the first part that fails.  The UI watches the root only.          *)
(***************************************************************************)
EXTENDS DnsServer, Sequences

CONSTANTS
    LogCap,     \* the capacity of the UI's log channel
    Configs,    \* what the configuration file can hold
    NoConfig    \* the configuration has been handed over

ASSUME LogCapAssumption == LogCap \in Nat \ {0}

VARIABLES
    config,     \* the configuration that was read
    mpc,        \* where run is
    err,        \* its local err
    rootDone,   \* the root context is cancelled
    notify,     \* signals are delivered to the root context
    part,       \* the supervisor, the proxy, the pinner and the sniffer
    tpc,        \* where the UI's goroutine is
    terr,       \* CreateTUI has failed
    tuiErr,     \* what the channel of that name holds
    screen,     \* the terminal is in the UI's mode
    stdout,     \* os.Stdout is the real one
    quit,       \* the update that ends the UI's loop is on its way
    logTo,      \* where slog writes
    logs        \* records in the UI's log channel

runVars == <<config, mpc, err, rootDone, notify>>
groupVars == <<groupDone, ready, failed>>
tuiVars == <<tpc, terr, tuiErr, screen, stdout, quit>>
logVars == <<logTo, logs>>
vars == <<runVars, groupVars, part, dnsVars, tuiVars, logVars>>

Parts == {"cisco", "proxy", "pinner", "sniffer"}

\* State variables have values of the right shape.
TypeOK ==
    /\ DnsTypeOK
    /\ groupDone \in BOOLEAN /\ ready \in BOOLEAN /\ failed \in BOOLEAN
    /\ config \in Configs \cup {NoConfig}
    /\ mpc \in {"load", "serving", "join", "exited", "killed"}
    /\ err \in {"nil", "config", "service", "tui"}
    /\ rootDone \in BOOLEAN /\ notify \in BOOLEAN
    /\ part \in [Parts -> {"off", "waiting", "running", "ended"}]
    /\ tpc \in {"off", "setup", "gui", "loop", "close", "restore", "send", "cancel", "done"}
    /\ terr \in BOOLEAN
    /\ tuiErr \in {"empty", "nil", "error"}
    /\ screen \in BOOLEAN /\ stdout \in BOOLEAN /\ quit \in BOOLEAN
    /\ logTo \in {"stdout", "null", "tui"}
    /\ logs \in 0..LogCap

Init ==
    /\ DnsInit
    /\ groupDone = FALSE /\ ready = FALSE /\ failed = FALSE
    /\ config \in Configs
    /\ mpc = "load" /\ err = "nil" /\ rootDone = FALSE /\ notify = FALSE
    /\ part = [p \in Parts |-> "off"]
    /\ tpc = "off" /\ tuiErr = "empty" /\ terr = FALSE
    /\ screen = FALSE /\ stdout = TRUE /\ quit = FALSE
    /\ logTo = "stdout" /\ logs = 0

\* The goroutines of a process that has ended are gone.
alive == mpc \in {"load", "serving", "join"}

-----------------------------------------------------------------------------
(* loadConfig *)

Entries(s) == {s[i] : i \in DOMAIN s}

socksTogether(c) == c.socksUser = c.socksPassword

\* user, password, profile and dns_servers are there, every DNS server is an IP
\* address, every LAN client has an IPv4 address and no malformed MAC, and the
\* SOCKS credentials come together.  A field is TRUE if it is not empty.
validate(c) ==
    /\ c.user /\ c.password /\ c.profile
    /\ c.dnsServers # <<>> /\ Entries(c.dnsServers) \subseteq {"ip"}
    /\ \A lc \in Entries(c.lanClients) : lc.ip = "ipv4" /\ lc.mac \in {"", "mac"}
    /\ socksTogether(c)

\* LAN clients are discovered, and the sniffer has work.
discoveryEnabled(c) == c.socksUser \/ c.lanDiscovery

\* Not run with sudo, an unknown user, no file, no YAML, or a configuration that is
\* not valid: run returns at once.
ConfigFails ==
    /\ mpc = "load"
    /\ err' = "config" /\ mpc' = "exited"
    /\ config' = NoConfig
    /\ UNCHANGED <<rootDone, notify, groupVars, part, dnsVars, tuiVars, logVars>>

\* run catches signals, starts the UI unless -no-tui is given (then the channel
\* holds nil from the beginning), and calls Start.
ConfigLoaded ==
    /\ mpc = "load" /\ validate(config)
    /\ mpc' = "serving" /\ notify' = TRUE
    /\ config' = NoConfig
    /\ part' = [p \in Parts |->
                   CASE p = "cisco" -> "running"
                     [] p = "sniffer" -> IF discoveryEnabled(config) THEN "running" ELSE "ended"
                     [] p \in {"proxy", "pinner"} -> "waiting"]
    /\ IF config.noTUI THEN tpc' = "done" /\ tuiErr' = "nil"
                       ELSE tpc' = "setup" /\ UNCHANGED tuiErr
    /\ UNCHANGED <<err, rootDone, groupVars, dnsVars, terr, screen, stdout, quit, logVars>>

-----------------------------------------------------------------------------
(* Logging *)

\* Variant: a record that does not fit waits for its place.
writeBlocking ==
    /\ logTo = "tui" => logs < LogCap
    /\ logs' = IF logTo = "tui" THEN logs + 1 ELSE logs

\* logWriter.Write: a record that does not fit into the channel is dropped.
Write == logs' = IF logTo = "tui" /\ logs < LogCap THEN logs + 1 ELSE logs

\* The log view's goroutine takes a record; it ends with the UI.
LogsShown ==
    /\ tpc = "loop" /\ logs > 0
    /\ logs' = logs - 1
    /\ UNCHANGED <<runVars, groupVars, part, dnsVars, tuiVars, logTo>>

-----------------------------------------------------------------------------
(* The group of Start *)

groupFrame == UNCHANGED <<runVars, dnsVars, tuiVars, logTo>>

\* The supervisor sees the VPN up for the first time.
CiscoReady ==
    /\ part["cisco"] = "running" /\ ~ready
    /\ ready' = TRUE
    /\ Write
    /\ UNCHANGED <<groupDone, failed, part>> /\ groupFrame

PartStarts(p) ==
    /\ part[p] = "waiting" /\ ready
    /\ part' = [part EXCEPT ![p] = "running"]
    /\ Write
    /\ UNCHANGED groupVars /\ groupFrame

\* A part returns nil: at once while it waits, in the end if it runs.
PartEnds(p) ==
    /\ part[p] \in {"waiting", "running"} /\ groupDone
    /\ part' = [part EXCEPT ![p] = "ended"]
    /\ Write
    /\ UNCHANGED groupVars /\ groupFrame

\* The proxy cannot listen, or its listener ends by itself.
ProxyFails ==
    /\ part["proxy"] = "running"
    /\ part' = [part EXCEPT !["proxy"] = "ended"]
    /\ groupFails
    /\ UNCHANGED <<ready, logs>> /\ groupFrame

\* The steps of the DNS server that log, and those that do not.  A reply is logged
\* if it is truncated.
DnsFrame == UNCHANGED <<runVars, part, tuiVars, logTo>>

DnsLogs ==
    /\ DnsAnnounces \/ DnsServed \/ ExchangeFails \/ ExchangeAnswers
    /\ Write /\ DnsFrame

DnsAsked == DnsQuery /\ Write /\ DnsFrame

DnsSilent ==
    /\ \/ DnsWaits \/ DnsCancelled \/ DnsListens \/ DnsListenFails
       \/ DnsActivates \/ DnsServeFails \/ ExchangeAnswers \/ DnsReplies
    /\ UNCHANGED logs /\ DnsFrame

DnsShuts == (DnsShutdown \/ DnsShutdownWaited \/ DnsCloses) /\ UNCHANGED logs /\ DnsFrame

DnsListenerBreaks == DnsBreaks /\ UNCHANGED logs /\ DnsFrame

-----------------------------------------------------------------------------
(* CreateTUI, in its goroutine *)

tuiFrame == UNCHANGED <<config, mpc, err, ready, failed, part, dnsVars>>

\* The logs go to the UI; os.Stdout is replaced if /dev/null can be opened.
TuiSetup ==
    /\ tpc = "setup"
    /\ logTo' = "tui"
    /\ \/ tpc' = "gui" /\ stdout' = FALSE /\ UNCHANGED terr
       \/ tpc' = "send" /\ terr' = TRUE /\ UNCHANGED stdout
    /\ UNCHANGED <<groupDone, rootDone, notify, tuiErr, screen, quit, logs>> /\ tuiFrame

\* NewGui takes the terminal, or fails.
TuiGui ==
    /\ tpc = "gui"
    /\ \/ tpc' = "loop" /\ screen' = TRUE /\ UNCHANGED terr
       \/ tpc' = "restore" /\ terr' = TRUE /\ UNCHANGED screen
    /\ UNCHANGED <<groupDone, rootDone, notify, tuiErr, stdout, quit, logTo, logs>> /\ tuiFrame

\* The goroutine that waits for the root context sends the last update.
TuiWatcher ==
    /\ tpc = "loop" /\ rootDone /\ ~quit
    /\ quit' = TRUE
    /\ UNCHANGED <<groupDone, rootDone, notify, tpc, terr, tuiErr, screen, stdout, logTo, logs>>
    /\ tuiFrame

\* MainLoop returns ErrQuit: for the update, or for Ctrl+C.
TuiQuits ==
    /\ tpc = "loop" /\ quit
    /\ tpc' = "close" /\ quit' = FALSE
    /\ UNCHANGED <<groupDone, rootDone, notify, terr, tuiErr, screen, stdout, logTo, logs>>
    /\ tuiFrame

TuiCtrlC ==
    /\ tpc = "loop"
    /\ tpc' = "close"
    /\ UNCHANGED <<groupDone, rootDone, notify, terr, tuiErr, screen, stdout, quit, logTo, logs>>
    /\ tuiFrame

\* MainLoop returns another error.
TuiFails ==
    /\ tpc = "loop"
    /\ tpc' = "close" /\ terr' = TRUE
    /\ UNCHANGED <<groupDone, rootDone, notify, tuiErr, screen, stdout, quit, logTo, logs>>
    /\ tuiFrame

\* The deferred close of done and g.Close.
TuiCloses ==
    /\ tpc = "close"
    /\ screen' = FALSE /\ quit' = FALSE
    /\ tpc' = "restore"
    /\ UNCHANGED <<groupDone, rootDone, notify, terr, tuiErr, stdout, logTo, logs>> /\ tuiFrame

\* The deferred restore of os.Stdout.
TuiRestores ==
    /\ tpc = "restore"
    /\ stdout' = TRUE
    /\ tpc' = "send"
    /\ UNCHANGED <<groupDone, rootDone, notify, terr, tuiErr, screen, quit, logTo, logs>> /\ tuiFrame

\* Variant: a channel without a buffer.
sendWaits == mpc = "join"

\* The channel has room for the one result.
sendHasRoom == tuiErr = "empty"

TuiSends ==
    /\ tpc = "send" /\ sendHasRoom
    /\ tuiErr' = IF terr THEN "error" ELSE "nil"
    /\ tpc' = "cancel"
    /\ UNCHANGED <<groupDone, rootDone, notify, terr, screen, stdout, quit, logTo, logs>> /\ tuiFrame

\* The root context ends, and with it the group's; signals are no longer caught.
cancelRoot == rootDone' = TRUE /\ notify' = FALSE /\ groupDone' = TRUE

\* The deferred cancel of the UI's goroutine.
TuiCancels ==
    /\ tpc = "cancel"
    /\ cancelRoot
    /\ tpc' = "done"
    /\ UNCHANGED <<terr, tuiErr, screen, stdout, quit, logTo, logs>> /\ tuiFrame

-----------------------------------------------------------------------------
(* run *)

runFrame ==
    UNCHANGED <<config, ready, failed, part, dnsVars, tpc, terr, screen, stdout, quit, logs>>

\* Variant: run does not cancel before it waits for the UI.
cancelLater == UNCHANGED <<rootDone, notify, groupDone>>

\* cancel()
cancelFirst == cancelRoot

\* Start returns when all five goroutines have; run cancels the root context.
StartReturns ==
    /\ mpc = "serving"
    /\ \A p \in Parts : part[p] = "ended"
    /\ npc = "ended"
    /\ err' = IF failed THEN "service" ELSE "nil"
    /\ cancelFirst
    /\ mpc' = "join"
    /\ UNCHANGED <<tuiErr, logTo>> /\ runFrame

\* Variant: the UI's error replaces the service's.
lastError == IF tuiErr = "error" THEN "tui" ELSE err

\* The UI's error is returned if Start returned none.
firstError == IF tuiErr = "error" /\ err = "nil" THEN "tui" ELSE err

\* Variant: the logs keep feeding the UI that has ended.
logsStay == UNCHANGED logTo

\* log.Setup with what os.Stdout is by then.
logsToStdout == logTo' = IF stdout THEN "stdout" ELSE "null"

\* run receives the UI's result, sends the logs to stdout and returns.
RunReturns ==
    /\ mpc = "join" /\ tuiErr # "empty"
    /\ err' = firstError
    /\ tuiErr' = "empty"
    /\ logsToStdout
    /\ mpc' = "exited"
    /\ UNCHANGED <<rootDone, notify, groupDone>> /\ runFrame

-----------------------------------------------------------------------------
\* SIGINT or SIGTERM: it cancels the root context, or, once run or the UI has
\* called cancel, kills the process.
Signal ==
    /\ mpc \in {"serving", "join"}
    /\ IF notify
       THEN rootDone' = TRUE /\ groupDone' = TRUE /\ UNCHANGED mpc
       ELSE mpc' = "killed" /\ UNCHANGED <<rootDone, groupDone>>
    /\ UNCHANGED <<config, err, notify, ready, failed, part, dnsVars, tuiVars, logVars>>

-----------------------------------------------------------------------------
Group == CiscoReady \/ ProxyFails \/ \E p \in Parts : PartStarts(p) \/ PartEnds(p)

Tui ==
    \/ TuiSetup \/ TuiGui \/ TuiWatcher \/ TuiQuits
    \/ TuiCloses \/ TuiRestores \/ TuiSends \/ TuiCancels

Run == ConfigLoaded \/ ConfigFails \/ StartReturns \/ RunReturns

Environment == Signal \/ TuiCtrlC \/ TuiFails \/ DnsAsked \/ DnsListenerBreaks

Next ==
    /\ alive
    /\ Group \/ DnsLogs \/ DnsSilent \/ DnsShuts \/ Tui \/ LogsShown \/ Run \/ Environment

\* The goroutines are scheduled, the parts end when they are cancelled (their own
\* modules show that), and every exchange with an upstream ends by its timeout.
\* Signals, keys, queries and failures need not happen.
Fairness ==
    /\ \A p \in Parts : WF_vars(alive /\ PartEnds(p))
    /\ WF_vars(alive /\ (DnsSilent \/ DnsLogs))
    /\ WF_vars(alive /\ DnsShuts) /\ WF_vars(alive /\ Tui) /\ WF_vars(alive /\ Run)

Spec == Init /\ [][Next]_vars /\ Fairness

-----------------------------------------------------------------------------
(* Safety *)

\* When run returns, the UI has given the terminal and os.Stdout back, the logs go
\* to the real stdout, no part of the service is left, and State no longer reports
\* a DNS server: "the TUI must restore the terminal before anything is printed or
\* the process exits".
ExitClean ==
    mpc = "exited" =>
        /\ ~screen /\ stdout /\ logTo = "stdout"
        /\ \A p \in Parts : part[p] \in {"off", "ended"}
        /\ npc \in {"waiting", "ended"} /\ ~dnsStarted

\* What run returns is the error of the service if there is one, else that of the
\* UI, whichever of the two ended first, and nil if neither failed.
ErrorReported ==
    mpc = "exited" /\ err # "config" =>
        err = CASE failed -> "service"
                [] terr /\ ~failed -> "tui"
                [] ~terr /\ ~failed -> "nil"

\* At the end everybody waits for somebody else, and never in a circle: run waits for
\* a UI that has sent its result, or that has been told to end and has not got there
\* yet; the UI always has room for its result; the DNS server waits on a listener
\* that is closed or that its shutdown goroutine has yet to close; and that goroutine
\* waits for the server only once the listener is closed.
NoCircularWait ==
    /\ mpc = "join" => tuiErr # "empty" \/ (rootDone /\ tpc \notin {"off", "cancel", "done"})
    /\ tpc = "send" => tuiErr = "empty"
    /\ npc \in {"announce", "activate", "serving"} => nclosed \/ kpc \in {"wait", "close"}
    /\ kpc = "shutdown" => nclosed

\* LAN clients are discovered, so that the whole network may use the proxy, only
\* with a password or by an explicit lan_discovery: validate and discoveryEnabled
\* look at different fields.
DiscoveryAskedFor ==
    [][mpc = "load" /\ part'["sniffer"] = "running" =>
          config.lanDiscovery \/ (config.socksUser /\ config.socksPassword)]_vars

-----------------------------------------------------------------------------
(* Liveness *)

\* Whatever ends first, a signal, the UI or a part of the service, and wherever
\* the others are then: the process ends.
Terminates == rootDone \/ groupDone \/ tpc = "send" ~> mpc \in {"exited", "killed"}

\* A DNS query that the server has read is answered, if only with SERVFAIL, even if the
\* service is cancelled, another part fails or the listener breaks meanwhile: run does
\* not return before that, and only a second signal takes the answer away.
QueriesAnswered == query # NoQuery ~> query = NoQuery \/ mpc = "killed"

=============================================================================
