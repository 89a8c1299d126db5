# A verification of cisco-socks-server

TLA+ models of the parts of cisco-socks-server where goroutines, a VPN agent
that nobody controls, and a changing network meet; what TLC checks about them on
small instances; and what TLAPS proves about them for every value of their
constants. `PROJECT.json` maps every definition to the lines it models and lists
the runs, the mutants, the hazards, the findings and the theorems.

## The system

A process keeps a Cisco AnyConnect VPN up and offers a SOCKS5 proxy through it,
on loopback and to the devices of the LAN. `cmd/main.go` starts a terminal UI and
`Service.Start`, an errgroup of five goroutines (supervisor, proxy, DNS, pinner,
sniffer) under one context; an error of any of them, a signal or the end of the UI
cancels it.

| Component | State | Operations | Talks to |
|---|---|---|---|
| Supervisor (`cisco.go`, `utils/cisco`) | `reconnectingSince`, `connectDelay`, `readyNotified`, `connectedByUs`, `pendingLAN`; writes `State.CiscoConnected`, `PFDisabled`, `LAN*` | `tick`: `detectLAN`, status poll, `connect`, `awaitReconnect`, `disablePF`; `shutdown` | the `vpn` and `pfctl` commands; `ciscoReady` (closed once), `lanCheck` (capacity 1) |
| LAN detection (`utils/route`) | none of its own | `DetectLAN`: the first non-tunnel default route, else an interface with an RFC 1918 address | `netstat`, the list of interfaces |
| LAN listener (`lan.go`) | current listener, what it is bound to, retry timer | `serveLAN`, `openLAN`, `close` | reads `State`, receives `lanCheck`, joins the accept loop over `done` |
| Accept loops, tracker (`proxy.go`) | the set of live connections, with a LAN mark | `acceptConns`, `add`, `remove`, `closeAll`, `closeLAN`, `remoteIPs`, `dropConnsOnVPNLoss` | reads `State.CiscoConnected` every 2 s |
| Gate (`socks.go`) | none | `vpnGate`, `vpnGatedResolver` | reads `State.CiscoConnected` per request |
| Client registry (`clients.go`) | IP to MAC, last seen, static | `seen`, `lookup`, `setMAC`, `expire`, `resetNetwork`, `discoverClient` | written by pinner, sniffer, connection goroutines and supervisor |
| Pinner (`service.go`, `utils/route`) | time of the last expiry | `pinClients`: `LookupARP`, `DecidePin`, `Pin`, once a second; `expire` | kernel ARP table, tracker |
| Sniffer (`sniff.go`, `syn.go`, `shell.go`) | its snapshot of the LAN | `startSniffer`, `sniffLAN` and its poller, `WatchSYN`, `Stream`; `observeSYN`, `repinStale` | `tcpdump`, registry, ARP |
| DNS forwarder (`dns.go`) | its listener, `State.DNSStarted` | `startDNS`, its shutdown goroutine, `forwardDNS` | the upstreams in `dns_servers`, in turn |
| Life cycle (`main.go`, `service.go`, `config.go`) | root and group context, the UI's result channel | `loadConfig`, `validate`, `run`, `Start` | everything above |
| UI (`tui.go`, `logs.go`), logger | the terminal's mode, `os.Stdout`, the log channel | `CreateTUI`, `logWriter.Write`, `Setup` | the root context |

What is hard here: the supervisor polls, so everything between two polls is
unseen; nearly every reader of `State` acts on a copy after the lock is gone;
commands fail, are killed, or fail after having had their effect; the listener is
re-bound under running accept loops; three goroutines and the kernel write the
MAC of a client in turn; the registry's expiry uses a time and a set of
connections that are older than its lock; `tcpdump` has to follow the LAN and must
not be left behind; and the process ends in an order that nobody controls. What
makes each component correct is stated as its module's properties.

## Modules

Each component has a specification, an `MC` module for TLC's instances, and, where
something is proved, a `Proofs` module.

**`Supervisor`** is the VPN half of `cisco.go`. `pc` says which command is running;
its end and all the code up to the next command is one action (`ConnectRuns`,
`KickFails`, ...). The status command takes two: it returns (`PollAnswered`,
`VerifyAnswered`), which it does with success only before the cancellation, and `tick`
acts on the answer in hand (`PollConnected`, `VerifyConnected`, ...) without another
look at the context, so that a connection can be published after it. The agent
(`agent`, `owner`), the packet filter and the cancellation are the environment and
move between any two actions. Times are small integers; `Elapse` is the clock for
the sleep, the grace period and the agent. `parseState` keeps the fact that unknown
states count as "not connected, not reconnecting". `SlowAgent` chooses whether the
agent keeps a state until `tick` has acted on an answer that reports it. `observed` and `stuckFor` are
history variables.

**`VpnStatus`** is the abstract specification of what the supervisor shows to the rest
of the service: `State.CiscoConnected`, `ciscoReady` and the context. No loss is shown
before `ciscoReady`, and a connection is published on an answer of its own (`answered`).
No answer comes after the cancellation, so at most one connection does. `Supervisor`
implements it, and `ProxyConns` takes its `VPNAnswered`, `VPNKept`, `VPNUp`,
`CloseReady`, `VPNLost` and `Cancel` from it: what the proxy's model assumes of the
supervisor is what the supervisor's model is proved to do.

**`LanDetection`** has `DetectLAN` and its helpers as operators over a table of
default routes and interfaces, and `detectLAN` with `confirmLAN`, which move the
result into `LANInterface`, `LANSubnet` and `LANAddr`. An address carries what the
code tells apart: its network and class, and whether its mask came in 4 or in 16
bytes.

**`Sniffer`** extends `LanDetection`: `startSniffer`'s loop, the poller that cancels
`sniffLAN` when `State` no longer shows the snapshot, and `Stream` with its scanner,
its drain and `Wait`, against a `tcpdump` that may fail to start, exit, write too
long a line, or be killed with its context. `sniffLAN` cancels its poller and does not
wait for it: a poller that sleeps at that moment becomes one of the `strays` and returns
later. What `observeSYN` does with a line is in `ArpPinning`.

**`LanListener`** has `detectLAN` with its debounce, the write to `State` and the
notification as separate steps; `serveLAN` with one action per branch of its
select and per blocking point; an accept loop per listener, with a connection in
its hands between `Accept` and `add`; and connections. `lastSeen` is a history
variable. Only LAN connections occur, as `closeLAN` skips the others.

**`LanService`** is the abstract specification of that: the proxy serves one LAN at a
time and turns to another only when no connection of the earlier one is open.
`LanListener` implements it under the mapping `serving` (the LAN whose
listener is open) and `open` (the LAN of each connection that is tracked or on its way
there).

**`ProxyConns`** is `startProxy`: loopback accept loop, connection goroutines that
pass the resolver's gate and `vpnGate` and then dial, the watcher, and the deferred
`closeAll`. `closeAll` closes the sockets of the clients (`closed`) and nothing else:
the goroutine of such a connection goes on, and may still pass the gate, dial and keep
its upstream leg, until it meets the closed socket (`ConnEnds`). There are two contexts:
the service's (`ctxDone`), and that of `startProxy`'s group (`gctxDone`), which a broken
loopback or LAN listener ends first. `dead` is a history variable: connections, not
closed, that were past the gate when the VPN was lost. `PromptWatcher` chooses whether the watcher samples
every change of `CiscoConnected`.

**`TunnelLegs`** is what the gate and the watcher promise together: a connection gets an
upstream leg only while there is a tunnel, and when a tunnel comes up, a leg that
lingers from the one before has lost its client, unless the proxy is stopping.
`ProxyConns` implements it, with all connections past the gate as the legs, closed ones
included, if the watcher samples every change.

**`ArpPinning`** follows one client address: the registry's entry, the kernel's ARP
entry, and the pinner, the sniffer, `discoverClient` and the supervisor's
`resetNetwork`, each stopping between every read and write, while the client's MAC
rotates, the host roams and Cisco deletes or diverts the entry. A connection is
accepted only if the ARP entry was right at that moment, because its handshake
needed our SYN-ACK (`startSniffer`'s comment says the same). `needsRefresh` and
`expire` depend on the clock; the model lets them be due at any time. The locals of
a goroutine are reset to `NoMAC` when it is idle.

**`ClientExpiry`** is the registry seen from its clock: when `discoverClient` renews
an entry, when `expire` drops it, and which connections the tracker holds. A point
in time is its age. The connection goroutine and the pinner read the clock, are
overtaken by others for up to `MaxDelay` ticks, and use the time then; the pinner
reads the clock, takes the live connections and locks the registry in three steps.
A network change resets the registry and closes the old connections later;
`old` marks those. `accepted` is a history variable.

**`Lifecycle`**, which extends **`DnsServer`**, is the process: `loadConfig` with
`validate` over records of the fields, `run`, the group of `Start`, the UI's
goroutine with its deferred functions in their order, its log channel and its result
channel, signals (which kill the process once `cancel` has been called), and
`startDNS` with the goroutine that shuts the server down, against miekg's rule that a
server that has not started cannot be shut down. The supervisor, the proxy, the
pinner and the sniffer are parts that wait for `ciscoReady`, run, and end some time
after the context; that they do end is the `Terminates` of their own modules.
`forwardDNS` handles one query at a time, as queries share nothing. It asks the
upstreams in turn until one replies, and relays that reply whatever its rcode; a
SERVFAIL of the first upstream is final, too. What a message holds decides nothing, so
neither rcodes nor EDNS0 records are in the model.

`Cancel` stands for the life cycle in the other modules; `ProxyConns` knows the
supervisor through `VpnStatus`; `FirstLAN`, `ChangeLAN` and `SetLAN`
of `ArpPinning`, and `resetNetwork` of `ClientExpiry`, are its `detectLAN`.

## Runs

| Run | Shows |
|---|---|
| `supervisor` | `StatusNotContradicted`, `PFMarkTruthful`, `KickOnlyStuck`; the refinement `ShowsStatus` of `VpnStatus`; liveness: `KeepsReconnecting`, `PFReasserted`, `Terminates`, with an agent that does not outrun the polls |
| `lan_listener` | `NoLostWakeup`, `JoinsEndingLoop`, `StoppedClean`, `ChangeConfirmed`; the refinement `ServesOneLAN` of `LanService`; liveness: `Rebinds`, `Terminates` |
| `proxy_conns` | `StoppedClean`; the refinement `LegsOfOneTunnel` of `TunnelLegs`; liveness: `DeadConnsDropped`, `Terminates`, with a watcher that sees every change |
| `arp` | `StaysReachable` (what is right stays right); liveness: `PinFollowsClient` (it becomes right), for a discovered client whose MAC rotates while the host moves between two networks that share its address |
| `client_expiry` | `ServedIsRegistered`, `KeptAfterAccept`; liveness: `Forgotten` |
| `sniffer` | `LanIsPhysical`, `KeepsInterface`, `NoDumpLeft`; liveness: `SniffsRoutedLAN`, `Terminates` |
| `lifecycle` | `ExitClean`, `ErrorReported`, `NoCircularWait`; liveness: `Terminates`, `QueriesAnswered` (a query that was read is answered before the process returns) |

Five runs show where a comment of the code promises more than the code does:

| Run | Promise, and what happens |
|---|---|
| `pf_unseen_reconnect` | "pfctl -d must run again" on every reconnect (`cisco.go:165`). A drop and reconnect between two polls is not noticed, and `PFDisabled` keeps `pfctl` from being run. |
| `shutdown_foreign_session` | "only if this process connected it" (`cisco.go:252`). `connectedByUs` is set when the status after a connect command says Connected, whoever's session that is: the connect command has no effect, another client's session comes up or resumes, and `shutdown` ends it. |
| `outage_unsampled` | connections are "dropped at once when the tunnel goes away" (`proxy.go:29`). A loss between two samples, or before the first one, is not noticed. |
| `dial_after_loss` | requests are refused "while the VPN is down" (`socks.go:18`). The gate is checked before the dial. |
| `foreign_pin` | an old network's MAC is "never force-pinned" in a new one (`clients.go:132`). A frame that is handled across the change does so. |

### Bounds

- `supervisor`: poll interval 2, delay limit 6, grace period 3. Two doublings reach
  the limit, the first one without the cap; the grace period spans several polls
  and does not divide evenly into them. Elapsed times are counted up to one more
  than the grace period (`Late`), beyond which the code tells no difference.
- `lan_listener`: two LANs and none, so that a change can be reverted before it is
  confirmed; two listeners, so that an old accept loop could outlive its listener
  (a listener is reused once its loop has ended); one connection. The theorems hold
  for any number.
- `proxy_conns`: two connections, which are reused, so that one can be in any place
  while the other is accepted.
- `arp`: one address, two networks, two MACs that rotate at home, one of which is also
  in the cafe; one frame and one accepted connection in flight at a time.
  `foreign_pin`: one MAC per network, so that a foreign one can be told.
- `client_expiry`: one address, not static, and two connections, so that one is
  discovered while the other ends; time to live 4, refresh interval 2, expiry
  interval 2, delays up to `MaxDelay` = 1. These are the smallest numbers for which
  the refresh interval and a delay fit into the time to live with one tick to spare
  and the ages in between differ. Addresses do not interact, except that `expire`
  treats them in one step; the theorems hold for any number and for static ones.
- `sniffer`: three interfaces (a bridge listed first, Wi-Fi, the tunnel) and 14 tables:
  Wi-Fi without an address, with one, with another of the same subnet behind a broken
  and a link-local one, or with a public one; default routes over Wi-Fi behind the
  tunnel's, over the bridge, or none; interfaces down or not listed. At most two pollers
  left behind at a time (`MaxStrays`): `sniffLAN` is not called again before one of them
  has returned. They touch nothing but their own ended contexts, so more would add only
  to their number.
- `lifecycle`: every combination of the fields that `validate`, `run` and `Start` tell
  apart, with no LAN client or one; two upstreams, so that there is a last one; a log
  channel with one place (`LogCap`), so that it is often full.

The other runs than `arp` do not check for deadlock, since these components end when
the context is cancelled (in `client_expiry`, the clock stops for a goroutine that has
used up its delay, whose own step is then enabled); that they end, and only then, is
what `Terminates` and the other liveness properties say.

### Fairness

- Goroutines are scheduled and time passes: weak fairness of each goroutine's steps.
- A select with several ready cases picks one at random, so a cancelled context is
  taken in the end: strong fairness of `WakeCancelled`, `SelectCancelled`, `WatchEnds`,
  `SleepCancelled`.
- Commands that are tried again and again work in the end: strong fairness of the
  successful outcomes (`PollAnswered`, `VerifyAnswered`, `ConnectRuns` with a session,
  `KickSucceeds`, `TailDisablePF`, `openLAN`, `arp -n`, `arp -S`, the start of `tcpdump`). This is what
  the code's retries assume, too ("transient CLI failure" in `tick`). The agent itself
  is under no obligation to do anything.
- A client without an answer keeps sending SYNs and `tcpdump` keeps running (weak
  fairness of the sniffer in `ArpPinning`). Nothing makes clients connect or
  connections end, nor signals, keys, queries or failures happen.
- In `Lifecycle` the parts end when they are cancelled, and an exchange with an upstream
  ends by its timeout.
- `PinFollowsClient` supposes that, from some time on, no pass of the pinner falls
  exactly into the handling of a frame. Without this TLC finds a circle in which
  the pinner adopts the stale MAC in every gap between the sniffer's lookup and its
  write; passes take milliseconds once a second and frames arrive once per
  connection, so the circle needs a coincidence for ever.
- `SniffsRoutedLAN` supposes that the scanner is not stopped by a line that is too long:
  then the sniffer is deaf until `tcpdump` exits or the LAN changes. `tcpdump -s 128`
  writes short lines.

## Proofs

The `Proofs` modules prove, for every value of the constants, every invariant and
every safety action property that a passing run checks, and the three refinements.
Assumptions on the constants: the poll interval is positive and not larger than the
delay limit, the grace period is a natural number, the refresh interval and the delay
together are shorter than the time to live, there is an upstream and a place in the log
channel, tables list interfaces and addresses of the given sets, prefix lengths are
natural numbers, and the "none" values (`NoLAN`, `NoLoop`, `NoConn`, `NoMAC`, ...) are not members of
their sets. Each proof shows that an invariant, `IInv` where it is more than the property
itself, is inductive, with one step per action, and that it implies the properties.

- `Supervisor`: `IInv` adds `ConnectedAt` (while a session command runs, `State` says
  disconnected, and the filter is marked only under a connection: this is why a
  connection cannot be recorded over a marked filter), `FilterOff` (the mark is right
  from the moment `pfctl` has succeeded, before it is recorded),
  `GraceMeasuresSpell` (a running grace period belongs to the present spell of
  reconnecting, or to one whose end has not been reported), `AnswerFresh` (a slow agent
  is still in the state that the answer in hand reports) and `AnnouncedAt` (outside
  the tail of `tick`, a connection in `State` has been announced on `ciscoReady`).
  `PFMarkTruthful` and `KickOnlyStuck` name `SlowAgent` as their premise: a faster agent
  does let a grace period run on over a recovery that no poll has seen, and
  `pf_unseen_reconnect` shows what it does to the filter. The other theorems do not need
  it. `StatusShown` is the refinement of `VpnStatus`: the end of a status command maps to
  `Answer`, acting on it to `Up`, `Lose` or `Keep`, the end of the tail to `Announce`, and
  everything else stutters; it rests on `AnnouncedAt` for "no loss before `ciscoReady`". `BackoffCorrect` says that every
  connection resets the backoff.
- `LanListener`: `WantFollowsState` (from its read of `State` to its select, the owner
  is up to date or a check is on its way), `CurAt`, `OneAcceptLoop`, `DoneMeansIdle` (a
  result in `done` means that the loop has ended and is the current one's), `CurEnds`
  (a current listener has a loop that runs or a result that nobody has taken, which is
  why `close` can wait for it: `JoinCorrect`), `HeldByItsLoop` and `LiveConnsOfCur` (a
  connection is the current listener's until `closeLAN` is due: this holds because
  `close` waits for the loop; `ConnsCorrect`), `PendingWasSeen` for the debounce, and
  `BoundToLAN`. `ServiceCorrect` is the refinement: the steps of detection and of the
  owner's bookkeeping stutter, `openLAN` binds, `close` unbinds, the loop's `Accept`
  accepts, and the connection's end, `closeLAN` and the final `closeAll` release.
- `ProxyConns`: `RunningAt`, `HeldByLoop`, `IdleClean`, and `NoneAdmitted`, which
  extends `NoUpstreamWhileDown` (`GateCorrect`: after a loss that the watcher has dealt
  with, whatever is past the gate has lost its client) to the time before the watcher
  runs. `LegsCorrect` is the refinement of `TunnelLegs`, with `PromptWatcher` as its
  premise: `outage_unsampled` shows why. Its one step that is not local is `VPNUp`, which
  maps to `Up` because no leg has a client by then, which is `NoneAdmitted`, or because
  the group's context has ended.
- `ClientExpiry`: `ServedNotOutdated` (when the pinner is between taking the live
  connections and `expire`, the client of a connection that it missed is young enough
  for the time it has read) and `LagBounded` (`lastSeen` lags behind the last discovery
  by a refresh interval and a delay at most). `KeptAfterAccept` follows from the latter.
- `LanDetection` and `Sniffer` (`SnifferProofs`): `ProcessAt` says where there is a
  `tcpdump` at all (`SnifferCorrect`; it says nothing of the pollers, for which nobody
  waits). The loops of `DetectLAN` that return at the first hit are `firstOf`:
  the element at the smallest index of those that qualify, which exists because every
  non-empty set of naturals has one (`Smallest`, from the well-foundedness of `<`; this
  takes the place of an induction over the list). `FirstFound` says what `firstOf`
  returns, `PrefixFound`, `RouteFound` and `CandidateFound` what `DetectLAN`'s helpers
  make of it, and `Detects` sums up `DetectLAN`: nothing, or a physical interface of the
  table with one of its IPv4 addresses. `LanCorrect`, `InterfaceKept` and `TypeCorrect`
  follow, with one lemma per step of detection.
- `Lifecycle`: `LoadQuiet`, `TuiAt` (the UI holds the terminal and `os.Stdout` only where
  it will give them back, and sends its result after that), `JoinEnded` (when `run` waits
  for the UI, the service has ended and its error is kept), `ResultKept` (once the UI has
  sent its result, it is there until `run` takes it), `ListenerWatched` (while the DNS
  listener is open, the shutdown goroutine has yet to close it), the root context being
  cancelled before `run` waits, and `DnsReportedServes`. `NoCircularWait` follows from
  these: it is the safety half of `Terminates`. `DiscoveryCorrect` says that clients are
  discovered only with full credentials or an explicit `lan_discovery`, whatever the
  configuration holds; its three fields are compared in two places.
- `ArpPinning`: the type invariant, with the fact that an address that is not registered
  has no MAC, which late writes of the pinner could break, and `MACInHand` (a goroutine
  that is about to write a MAC holds one). `ReachableCorrect` is the closure half of the
  recovery from stale MACs; the convergence half, `PinFollowsClient`, is liveness. Both
  theorems cover static clients, too, which the run does not have.

Only model-checked: the liveness properties, since TLAPS does not handle fairness:
`KeepsReconnecting`, `PFReasserted`, `Rebinds`, `DeadConnsDropped`, `PinFollowsClient`,
`Forgotten`, `SniffsRoutedLAN`, `QueriesAnswered` and `Terminates` of five modules.

## Not modelled

- `ProxyStarted`, `warnedNoLAN` and `warnSelfClients`: display and logging.
- SOCKS commands other than CONNECT, and credentials: go-socks5's. The gate is
  installed for CONNECT and for name resolution only.
- The text of what `netstat`, `arp`, `tcpdump` and `vpn` print: the models start from what
  the parsers extract.
- Interface binding (`bind_darwin.go`): one system call, which succeeds or fails in `openLAN`.
- The views of the UI, which draw copies of `State`.
- Commands that hang: `Status` and `Connect` have no timeout; a hanging one stops the
  supervisor until cancellation, and the models assume that commands end.

Two observations that no run stands for. The comment at `sniffLAN` (`sniff.go:54`)
counts a failure of `tcpdump` among the cases that are "reported as nil"; the code
returns the error, and `startSniffer` relies on that. And a cancellation that falls
between `ciscoReady` and `lc.Listen` makes `startDNS` return an error, so that `run` may
return one for a process that was only asked to stop.

## Plan

Done: a module for every component that keeps state; their safety properties, proved;
liveness; abstract specifications of the LAN side, of what the supervisor shows and of
the upstream legs, with their refinements.

Left, in this order:

1. The supervisor and the proxy as one system over `VpnStatus`: that the two refinements
   compose to `TunnelLegs` of the whole.
2. The debounce of the LAN once, for `LanListener` and `LanDetection`, which both have
   `confirmLAN`.
3. `ClientExpiry`: the entry's MAC and its age in one module with `ArpPinning`, so that
   `expire` and the pinner meet on the same entry.
