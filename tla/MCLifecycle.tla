---------------------------- MODULE MCLifecycle ----------------------------
(* Two upstreams, a log channel that one record fills, and configurations    *)
(* with every combination of the fields that run and Start tell apart.       *)
EXTENDS Lifecycle

MCClients ==
    {<<>>} \cup {<<[ip |-> i, mac |-> m]>> : i \in {"ipv4", "ipv6"}, m \in {"", "mac", "bad"}}

MCConfigs ==
    [user : BOOLEAN, password : BOOLEAN, profile : BOOLEAN,
     dnsServers : {<<>>, <<"ip", "ip">>, <<"ip", "name">>}, lanClients : MCClients,
     socksUser : BOOLEAN, socksPassword : BOOLEAN, lanDiscovery : BOOLEAN, noTUI : BOOLEAN]
=============================================================================
