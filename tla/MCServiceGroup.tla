--------------------------- MODULE MCServiceGroup ---------------------------
(***************************************************************************)
(* Small instances of ServiceGroup for TLC: a service "a" in three         *)
(* versions (one port, two ports and other addresses, the same port twice) *)
(* and a service "b" in two (two ports, none).                             *)
(***************************************************************************)
EXTENDS ServiceGroup

Port(k, target) == [key |-> k, targetPort |-> target]

Info(n, ports, ips) == [name |-> n, ports |-> ports, backendIPs |-> ips]

MCInfos ==
    {Info("a", <<Port("tcp-1", 10)>>, <<"ip1">>),
     Info("a", <<Port("tcp-1", 11), Port("tcp-2", 12)>>, <<"ip1", "ip2">>),
     Info("a", <<Port("tcp-1", 10), Port("tcp-1", 11)>>, <<"ip1">>),
     Info("b", <<Port("tcp-2", 10), Port("tcp-3", 10)>>, <<"ip2">>),
     Info("b", <<>>, <<"ip1">>)}

=============================================================================
