----------------------------- MODULE LanService -----------------------------
(***************************************************************************)
(* What the LAN side of the proxy promises: it serves one LAN at a time,   *)
(* and it turns to a LAN only when no connection of an earlier one is left *)
(* open.                                                                   *)
(***************************************************************************)

CONSTANTS LANs, NoLAN, Conns

VARIABLES
    serving,    \* the LAN from which connections are accepted, or NoLAN
    open        \* the LAN that each open connection came from, or NoLAN

vars == <<serving, open>>

Init ==
    /\ serving = NoLAN
    /\ open = [c \in Conns |-> NoLAN]

Bind(n) ==
    /\ serving = NoLAN
    /\ \A c \in Conns : open[c] = NoLAN
    /\ serving' = n
    /\ UNCHANGED open

Unbind ==
    /\ serving' = NoLAN
    /\ UNCHANGED open

Accept(c) ==
    /\ serving # NoLAN /\ open[c] = NoLAN
    /\ open' = [open EXCEPT ![c] = serving]
    /\ UNCHANGED serving

Release(S) ==
    /\ open' = [c \in Conns |-> IF c \in S THEN NoLAN ELSE open[c]]
    /\ UNCHANGED serving

Next ==
    \/ \E n \in LANs : Bind(n)
    \/ Unbind
    \/ \E c \in Conns : Accept(c)
    \/ \E S \in SUBSET Conns : Release(S)

Spec == Init /\ [][Next]_vars

=============================================================================
