-------------------------- MODULE FrontendRegistry --------------------------
(***************************************************************************)
(* What the tunnel service promises its clients, without handlers, locks,  *)
(* listeners or a port pool: a table of services, each with the sessions   *)
(* that serve it and one public port.                                      *)
(*                                                                         *)
(* A service has a port exactly as long as somebody serves it; the port    *)
(* does not change meanwhile, and no two services have the same one.       *)
(***************************************************************************)
EXTENDS Naturals

CONSTANTS
    Services,       \* the keys of the table
    Members         \* the sessions that may serve them

VARIABLES
    members,        \* service -> sessions that serve it
    publicPort      \* service -> its port, NoPort when nobody serves it

registryVars == <<members, publicPort>>

NoPort == 0

RegistryInit ==
    /\ members = [k \in Services |-> {}]
    /\ publicPort = [k \in Services |-> NoPort]

(* A session joins a service.  The first one opens the port. *)
Register(k, s) ==
    /\ \A j \in Services : s \notin members[j]
    /\ members' = [members EXCEPT ![k] = @ \cup {s}]
    /\ IF members[k] = {}
       THEN /\ publicPort'[k] \in Nat \ {NoPort}
            /\ \A j \in Services \ {k} : publicPort'[k] # publicPort[j]
            /\ publicPort' = [publicPort EXCEPT ![k] = publicPort'[k]]
       ELSE publicPort' = publicPort

(* A session leaves.  The last one closes the port. *)
Unregister(k, s) ==
    /\ s \in members[k]
    /\ members' = [members EXCEPT ![k] = @ \ {s}]
    /\ publicPort' = IF members[k] = {s} THEN [publicPort EXCEPT ![k] = NoPort] ELSE publicPort

RegistryNext ==
    \E k \in Services, s \in Members : Register(k, s) \/ Unregister(k, s)

RegistrySpec == RegistryInit /\ [][RegistryNext]_registryVars

=============================================================================
