---------------------------- MODULE MCProxyConns ----------------------------
(* Instances of ProxyConns: two connections, one anywhere in its life while   *)
(* the other is accepted; with a watcher that sees every change, and without. *)
EXTENDS ProxyConns
=============================================================================
