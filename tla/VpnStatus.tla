------------------------------ MODULE VpnStatus ------------------------------
(***************************************************************************)
(* What the supervisor shows to the rest of the service: the flag          *)
(* State.CiscoConnected, the channel ciscoReady, and the context that both *)
(* share with everything else.  Supervisor implements this; ProxyConns     *)
(* knows no more of the supervisor than this.                              *)
(***************************************************************************)

VARIABLES
    connected,  \* State.CiscoConnected
    ready,      \* ciscoReady is closed
    ctxDone,    \* the context of the service is cancelled
    answered    \* an answer of the agent is in hand, not published yet

vars == <<connected, ready, ctxDone, answered>>

Init == connected = FALSE /\ ready = FALSE /\ ctxDone = FALSE /\ answered = FALSE

\* A status command succeeds, never after the cancellation.
Answer ==
    /\ ~answered /\ ~ctxDone
    /\ answered' = TRUE
    /\ UNCHANGED <<connected, ready, ctxDone>>

\* An answer is used up without a change of the flag.
Keep ==
    /\ answered
    /\ answered' = FALSE
    /\ UNCHANGED <<connected, ready, ctxDone>>

\* A connection is published on an answer, which may be older than the
\* cancellation.
Up ==
    /\ ~connected /\ answered
    /\ connected' = TRUE
    /\ answered' = FALSE
    /\ UNCHANGED <<ready, ctxDone>>

\* ciscoReady is closed once, while there is a connection.
Announce ==
    /\ connected /\ ~ready
    /\ ready' = TRUE
    /\ UNCHANGED <<connected, ctxDone, answered>>

\* A loss is published, on an answer or at shutdown, only after the service has
\* been told to start.
Lose ==
    /\ connected /\ ready
    /\ connected' = FALSE
    /\ answered' = FALSE
    /\ UNCHANGED <<ready, ctxDone>>

Cancel ==
    /\ ~ctxDone
    /\ ctxDone' = TRUE
    /\ UNCHANGED <<connected, ready, answered>>

Next == Answer \/ Keep \/ Up \/ Announce \/ Lose \/ Cancel

Spec == Init /\ [][Next]_vars

=============================================================================
