---------------------------- MODULE MCLanListener ----------------------------
(* Instances of LanListener: two LANs, so that a change can be reverted, and  *)
(* two listeners, so that an old accept loop could outlive its listener.      *)
EXTENDS LanListener
=============================================================================
