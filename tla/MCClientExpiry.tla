--------------------------- MODULE MCClientExpiry ---------------------------
(* Two connections, so that one can be discovered while the other ends, and  *)
(* a time to live that is longer than the refresh interval and the delay.    *)
EXTENDS ClientExpiry
=============================================================================
