------------------------------ MODULE DnsServer ------------------------------
(***************************************************************************)
(* The DNS forwarder (dns.go): startDNS, which serves until the context of *)
(* the service ends, the goroutine that then shuts the server down, and    *)
(* forwardDNS for one query at a time (queries share nothing).  The server *)
(* of the miekg library is modelled as dns.go uses it.                     *)
(***************************************************************************)
EXTENDS Naturals

CONSTANTS
    Upstreams,  \* the number of Options.DNSServers
    NoQuery     \* no query is being answered

ASSUME UpstreamsAssumption == Upstreams \in Nat \ {0}

VARIABLES
    groupDone,  \* the context of the service's goroutines is cancelled
    ready,      \* ciscoReady is closed
    failed,     \* the error that the group keeps
    npc,        \* where startDNS is
    dnsStarted, \* State.DNSStarted
    nclosed,    \* the listener is closed
    started,    \* the server's own flag
    kpc,        \* the goroutine that shuts the server down
    query       \* the query that forwardDNS handles

dnsVars == <<npc, dnsStarted, nclosed, started, kpc, query>>

\* A query that upstream at is asked, or whose reply is ready after upstream at.
\* The records it carries, EDNS0 included, decide nothing below.
Queries == [st : {"ask", "reply"}, at : 1..Upstreams]

DnsTypeOK ==
    /\ npc \in {"waiting", "listen", "announce", "activate", "serving", "ended"}
    /\ dnsStarted \in BOOLEAN /\ nclosed \in BOOLEAN /\ started \in BOOLEAN
    /\ kpc \in {"none", "wait", "shutdown", "close", "done"}
    /\ query \in Queries \cup {NoQuery}

DnsInit ==
    /\ npc = "waiting" /\ dnsStarted = FALSE /\ nclosed = TRUE
    /\ started = FALSE /\ kpc = "none" /\ query = NoQuery

\* A goroutine of the group returns an error, which cancels the group's context.
groupFails == failed' = TRUE /\ groupDone' = TRUE

groupAsIs == UNCHANGED <<failed, groupDone>>

-----------------------------------------------------------------------------
(* startDNS *)

DnsWaits ==
    /\ npc = "waiting" /\ ready
    /\ npc' = "listen"
    /\ UNCHANGED <<ready, dnsStarted, nclosed, started, kpc, query>> /\ groupAsIs

\* Variant: no deferred setStatus.
dnsReturnsSilently == npc' = "ended" /\ UNCHANGED dnsStarted

\* The return runs the deferred setStatus.
dnsReturns == npc' = "ended" /\ dnsStarted' = FALSE

DnsCancelled ==
    /\ npc = "waiting" /\ groupDone
    /\ dnsReturns
    /\ UNCHANGED <<ready, nclosed, started, kpc, query>> /\ groupAsIs

\* The listener is open, and the goroutine that will shut the server down waits
\* for the context.
DnsListens ==
    /\ npc = "listen"
    /\ nclosed' = FALSE /\ kpc' = "wait"
    /\ npc' = "announce"
    /\ UNCHANGED <<ready, dnsStarted, started, query>> /\ groupAsIs

DnsListenFails ==
    /\ npc = "listen"
    /\ dnsReturns /\ groupFails
    /\ UNCHANGED <<ready, nclosed, started, kpc, query>>

DnsAnnounces ==
    /\ npc = "announce"
    /\ dnsStarted' = TRUE
    /\ npc' = "activate"
    /\ UNCHANGED <<ready, nclosed, started, kpc, query>> /\ groupAsIs

\* ActivateAndServe marks the server as started and accepts.
DnsActivates ==
    /\ npc = "activate"
    /\ started' = TRUE
    /\ npc' = "serving"
    /\ UNCHANGED <<ready, dnsStarted, nclosed, kpc, query>> /\ groupAsIs

\* Accept fails, and ActivateAndServe returns once the query in hand is answered.
\* That is an error only if nobody has asked for the end.
serveFailed == started /\ ~groupDone

DnsServed ==
    /\ npc = "serving" /\ nclosed /\ query = NoQuery /\ ~serveFailed
    /\ dnsReturns
    /\ UNCHANGED <<ready, nclosed, started, kpc, query>> /\ groupAsIs

DnsServeFails ==
    /\ npc = "serving" /\ nclosed /\ query = NoQuery /\ serveFailed
    /\ dnsReturns /\ groupFails
    /\ UNCHANGED <<ready, nclosed, started, kpc, query>>

\* The listener fails under the server.
DnsBreaks ==
    /\ npc = "serving" /\ ~nclosed
    /\ nclosed' = TRUE
    /\ UNCHANGED <<ready, npc, dnsStarted, started, kpc, query>> /\ groupAsIs

-----------------------------------------------------------------------------
(* The goroutine that shuts the server down *)

\* Shutdown is refused if the server has not started; else it closes the listener
\* and waits for the server to end.
DnsShutdown ==
    /\ kpc = "wait" /\ groupDone
    /\ IF started
       THEN started' = FALSE /\ nclosed' = TRUE /\ kpc' = "shutdown"
       ELSE kpc' = "close" /\ UNCHANGED <<started, nclosed>>
    /\ UNCHANGED <<ready, npc, dnsStarted, query>> /\ groupAsIs

DnsShutdownWaited ==
    /\ kpc = "shutdown" /\ npc = "ended"
    /\ kpc' = "close"
    /\ UNCHANGED <<ready, npc, dnsStarted, nclosed, started, query>> /\ groupAsIs

\* Variant: the listener is left to Shutdown.
listenerLeft == UNCHANGED nclosed

\* l.Close()
listenerClosed == nclosed' = TRUE

DnsCloses ==
    /\ kpc = "close"
    /\ listenerClosed
    /\ kpc' = "done"
    /\ UNCHANGED <<ready, npc, dnsStarted, started, query>> /\ groupAsIs

-----------------------------------------------------------------------------
(* forwardDNS *)

queryFrame == UNCHANGED <<ready, npc, dnsStarted, nclosed, started, kpc>> /\ groupAsIs

\* A client asks: the first upstream is next.
DnsQuery ==
    /\ npc = "serving" /\ ~nclosed /\ query = NoQuery
    /\ query' = [st |-> "ask", at |-> 1]
    /\ queryFrame

Reply == [query EXCEPT !.st = "reply"]

\* Variant: the loop runs past the last upstream.
tryPastLast == IF query.at <= Upstreams THEN [query EXCEPT !.at = @ + 1] ELSE Reply

\* Variant: the upstreams are asked again and again until one of them answers.
tryAgain == [query EXCEPT !.at = IF @ < Upstreams THEN @ + 1 ELSE 1]

\* The next upstream is asked; after the last one the client gets SERVFAIL.
tryNext == IF query.at < Upstreams THEN [query EXCEPT !.at = @ + 1] ELSE Reply

\* No answer in time, or an error.
ExchangeFails ==
    /\ query # NoQuery /\ query.st = "ask"
    /\ query' = tryNext
    /\ queryFrame

\* A reply of an upstream is relayed as it is, truncated or not and whatever its
\* rcode: SERVFAIL of one upstream, too, is final, and the others are not asked.
ExchangeAnswers ==
    /\ query # NoQuery /\ query.st = "ask"
    /\ query' = Reply
    /\ queryFrame

\* The reply is written to the client.
DnsReplies ==
    /\ query # NoQuery /\ query.st = "reply"
    /\ query' = NoQuery
    /\ queryFrame

=============================================================================
