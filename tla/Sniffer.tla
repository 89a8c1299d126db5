------------------------------- MODULE Sniffer -------------------------------
(***************************************************************************)
(* The SYN sniffer: startSniffer and sniffLAN (sniff.go), WatchSYN         *)
(* (syn.go) and Stream (shell.go), together with the detection of the LAN  *)
(* that they follow.                                                       *)
(*                                                                         *)
(* startSniffer takes a snapshot of the LAN in State and runs tcpdump on   *)
(* its interface.  A poller, a goroutine of sniffLAN, compares the         *)
(* snapshot with State and cancels sniffLAN's own context when they        *)
(* differ; the end of that context kills tcpdump.  Stream handles one      *)
(* line of tcpdump at a time, in the goroutine of startSniffer.  Nobody    *)
(* waits for the poller: when sniffLAN returns, it is left to notice the   *)
(* end of its context on its own.                                          *)
(***************************************************************************)
EXTENDS LanDetection

CONSTANT MaxStrays  \* bound: pollers of earlier sniffLANs that are still there

ASSUME MaxStraysAssumption == MaxStrays \in Nat \ {0}

VARIABLES
    spc,       \* where startSniffer is
    slan,      \* its snapshot
    poller,    \* the poller of the present sniffLAN is running
    strays,    \* how many pollers of earlier ones have not noticed their end
    sniffDone, \* the poller has cancelled sniffLAN's context
    dump       \* the tcpdump process

snifferVars == <<spc, slan, poller, strays, sniffDone, dump>>
vars == <<detectVars, groupDone, snifferVars>>

\* State variables have values of the right shape; a subnet has a prefix length of
\* an IPv4 address, whatever form its mask came in.
TypeOK ==
    /\ DetectTypeOK
    /\ slan \in Snapshots \cup {NoLAN}
    /\ spc \in {"top", "nolan", "watch", "scan", "line", "drain", "wait", "retry",
                "returned"}
    /\ poller \in BOOLEAN /\ strays \in 0 .. MaxStrays /\ sniffDone \in BOOLEAN
    /\ dump \in {"none", "running", "dead"}

Init ==
    /\ DetectInit
    /\ spc = "top" /\ slan = NoLAN
    /\ poller = FALSE /\ strays = 0 /\ sniffDone = FALSE
    /\ dump = "none"

\* Variant: sniffLAN's context does not descend from the service's.
sniffCtxDetached == sniffDone

\* What the context of sniffLAN shows.
sniffCtxDone == sniffDone \/ groupDone

snifferFrame == UNCHANGED <<detectVars, groupDone>>

Goes(to) == spc' = to /\ UNCHANGED <<poller, strays, sniffDone, dump>> /\ snifferFrame

\* There is no LAN to watch.
SnapshotEmpty ==
    /\ spc = "top" /\ lan = NoLAN
    /\ Goes("nolan")
    /\ UNCHANGED slan

\* There is one: sniffLAN starts its poller.
Snapshot ==
    /\ spc = "top" /\ lan # NoLAN /\ strays < MaxStrays
    /\ slan' = lan
    /\ poller' = TRUE
    /\ spc' = "watch"
    /\ UNCHANGED <<strays, sniffDone, dump>> /\ snifferFrame

\* sleepCtx, with no LAN or after a failure: the timer fires or the context
\* ends.  After a failure the loop looks at the context once more.
SleepEnds ==
    /\ spc \in {"nolan", "retry"}
    /\ Goes(IF spc = "retry" /\ groupDone THEN "returned" ELSE "top")
    /\ UNCHANGED slan

SleepCancelled ==
    /\ spc \in {"nolan", "retry"} /\ groupDone
    /\ Goes("returned")
    /\ UNCHANGED slan

\* tcpdump starts, which takes a context that has not ended.
DumpStarts ==
    /\ spc = "watch" /\ ~sniffCtxDone
    /\ dump' = "running"
    /\ spc' = "scan"
    /\ UNCHANGED <<slan, poller, strays, sniffDone>> /\ snifferFrame

\* sniffLAN returns, with nil if its context has ended, with an error if tcpdump
\* failed or exited.  Its context is cancelled, and its poller, if it has not
\* returned, stays behind.
sniffReturns ==
    /\ spc' = CASE groupDone -> "returned"
                [] sniffDone /\ ~groupDone -> "top"
                [] ~sniffCtxDone -> "retry"
    /\ strays' = IF poller THEN strays + 1 ELSE strays
    /\ poller' = FALSE /\ sniffDone' = FALSE /\ slan' = NoLAN
    /\ snifferFrame

\* tcpdump cannot be started, or the context has ended already.
DumpStartFails == spc = "watch" /\ sniffReturns /\ UNCHANGED dump

\* Stream reads a line, and WatchSYN passes the sender to observeSYN.
ScanLine == spc = "scan" /\ dump = "running" /\ Goes("line") /\ UNCHANGED slan

LineDone == spc = "line" /\ Goes("scan") /\ UNCHANGED slan

\* Variant: the rest of the output is not read.
afterScannerUndrained == "wait"

\* The rest of the output is read and thrown away.
afterScanner == "drain"

\* A line that is too long for the scanner stops it.
ScannerStops == spc = "scan" /\ dump = "running" /\ Goes(afterScanner) /\ UNCHANGED slan

\* The end of the output.
DumpEOF ==
    /\ spc \in {"scan", "drain"} /\ dump = "dead"
    /\ Goes("wait")
    /\ UNCHANGED slan

\* cmd.Wait returns once the process has ended.
DumpWaited == spc = "wait" /\ dump = "dead" /\ sniffReturns /\ dump' = "none"

\* Variant: the poller looks at the interface only.
polledInterface == slan # NoLAN /\ lan.iface # slan.iface

\* State differs from the snapshot that tcpdump was started for.
polledChange == lan # slan

\* The poller sees a change of the LAN, cancels the context and returns.
PollerCancels ==
    /\ poller /\ polledChange
    /\ sniffDone' = TRUE /\ poller' = FALSE
    /\ UNCHANGED <<spc, slan, strays, dump>> /\ snifferFrame

\* The poller sees the end of the service's context.
PollerEnds ==
    /\ poller /\ groupDone
    /\ poller' = FALSE
    /\ UNCHANGED <<spc, slan, strays, sniffDone, dump>> /\ snifferFrame

\* A poller that was left behind returns: at the end of its context, or at a LAN
\* other than its own, where it cancels a context that has ended.
StrayEnds ==
    /\ strays > 0
    /\ strays' = strays - 1
    /\ UNCHANGED <<spc, slan, poller, sniffDone, dump>> /\ snifferFrame

DumpDies ==
    dump' = "dead" /\ UNCHANGED <<spc, slan, poller, strays, sniffDone>> /\ snifferFrame

\* exec.CommandContext kills the process when its context ends.
DumpKilled == dump = "running" /\ sniffCtxDone /\ DumpDies

\* tcpdump exits by itself.  A process whose output nobody reads cannot: it blocks
\* in a write.
DumpExits == dump = "running" /\ spc # "wait" /\ DumpDies

Cancel == ~groupDone /\ groupDone' = TRUE /\ UNCHANGED <<detectVars, snifferVars>>

-----------------------------------------------------------------------------
Detection ==
    UNCHANGED snifferVars /\ (detectLAN \/ \E t \in Tables : TableChanges(t))

Sniff ==
    \/ SnapshotEmpty \/ Snapshot \/ SleepEnds \/ SleepCancelled \/ DumpStarts \/ DumpStartFails
    \/ LineDone \/ DumpEOF \/ DumpWaited

Pollers == PollerCancels \/ PollerEnds \/ StrayEnds

Next ==
    \/ Detection \/ Sniff \/ Pollers \/ DumpKilled
    \/ ScanLine \/ ScannerStops \/ DumpExits \/ Cancel

\* The goroutines are scheduled, a select that is ready for the cancelled context
\* picks it in the end, and tcpdump starts if it is tried again and again.  It
\* need not fail or write anything.
Fairness ==
    /\ WF_vars(detectLAN /\ UNCHANGED snifferVars)
    /\ WF_vars(Sniff) /\ WF_vars(DumpKilled)
    /\ WF_vars(PollerCancels) /\ WF_vars(PollerEnds) /\ WF_vars(StrayEnds)
    /\ SF_vars(SleepCancelled) /\ SF_vars(DumpStarts)

Spec == Init /\ [][Next]_vars /\ Fairness

-----------------------------------------------------------------------------
\* Wait is called on tcpdump only when its output has ended, so that it is never
\* left blocked on a pipe that nobody reads; and tcpdump does not outlive the
\* sniffLAN that started it.
NoDumpLeft ==
    /\ spc = "wait" => dump = "dead"
    /\ spc \in {"top", "nolan", "watch", "retry", "returned"} => dump = "none"

\* Once a default route over a physical interface stays, tcpdump runs on that
\* interface, for that subnet: however often it failed, whenever the LAN changed
\* and whatever detection, poller and sniffer saw of it, unless a line has stopped
\* the scanner.
SniffsRoutedLAN ==
    \A n \in Snapshots :
        <>[](routed[table] = n /\ ~groupDone /\ spc # "drain") =>
            []<>(dump = "running" /\ slan = n /\ ~sniffDone)

\* A cancelled context ends the sniffer, its process and every poller it started.
Terminates ==
    groupDone ~> spc = "returned" /\ dump = "none" /\ ~poller /\ strays = 0

=============================================================================
