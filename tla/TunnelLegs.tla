------------------------------ MODULE TunnelLegs ------------------------------
(***************************************************************************)
(* What the gate and the loss watcher promise together: a connection gets  *)
(* its upstream leg only while a tunnel is up, and when a tunnel comes up, *)
(* no leg of the one before still has a client.  Such a leg may linger,    *)
(* for its goroutine notices the closed client later; once the proxy is    *)
(* stopping, nobody watches any more.                                      *)
(***************************************************************************)

CONSTANT Conns

VARIABLES
    up,         \* there is a tunnel
    legs,       \* the connections that have, or are about to get, an upstream leg
    closed,     \* the connections whose client has been closed
    stopping    \* the proxy is stopping

vars == <<up, legs, closed, stopping>>

Init == up = FALSE /\ legs = {} /\ closed = {} /\ stopping = FALSE

Up ==
    /\ ~up /\ (legs \subseteq closed \/ stopping)
    /\ up' = TRUE
    /\ UNCHANGED <<legs, closed, stopping>>

Lose == up /\ up' = FALSE /\ UNCHANGED <<legs, closed, stopping>>

Admit(c) == up /\ legs' = legs \cup {c} /\ UNCHANGED <<up, closed, stopping>>

Close(S) == closed' = closed \cup S /\ UNCHANGED <<up, legs, stopping>>

End(c) ==
    /\ legs' = legs \ {c}
    /\ closed' = closed \ {c}
    /\ UNCHANGED <<up, stopping>>

Stop == stopping' = TRUE /\ UNCHANGED <<up, legs, closed>>

Next ==
    \/ Up \/ Lose \/ Stop
    \/ \E c \in Conns : Admit(c) \/ End(c)
    \/ \E S \in SUBSET Conns : Close(S)

Spec == Init /\ [][Next]_vars

=============================================================================
