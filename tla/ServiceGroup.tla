---------------------------- MODULE ServiceGroup ----------------------------
(***************************************************************************)
(* pkg/muxtunnelClientServiceGroup.go: MuxTunnelClientServiceGroup, which  *)
(* keeps one tunnel client per service and port and brings them in line    *)
(* with a wanted set of services.                                          *)
(*                                                                         *)
(* A reconciliation is a loop over the wanted services and a loop over     *)
(* those that are gone, each with reconcileTunnels inside: a loop over the *)
(* ports of the service and a loop over the tunnels that no port claimed.  *)
(* Every pass of a loop is a step, in the order of the code, or in any     *)
(* order where the code ranges over a map.  The group's mutex is held from *)
(* Reconcile to Finish, so no two reconciliations overlap.  The clients    *)
(* are goroutines of their own (MuxTunnelClient); here a client only runs  *)
(* or is closed.  Close closes a channel: a second Close panics.           *)
(***************************************************************************)
EXTENDS Naturals, Sequences, FiniteSets

CONSTANTS
    Infos,          \* ServiceInfo values that are asked for: name, ports, backendIPs
    MaxGeneration   \* bound: clients started per service and port key

Names == {i.name : i \in Infos}

NamesOf(infos) == {i.name : i \in infos}

KeysOf(ports) == {ports[j].key : j \in DOMAIN ports}

PortKeys == UNION {KeysOf(i.ports) : i \in Infos}

(* The clients that can be started, named by service, port key and how     *)
(* many were started there before.                                         *)
Clients == Names \X PortKeys \X (1..MaxGeneration)

(* What the map has where the program has no entry. *)
NoService == [name |-> "", ports |-> <<>>, backendIPs |-> <<>>, deleted |-> FALSE]

(* What the map gets for a service it does not know. *)
NewService(i) ==
    [name |-> i.name, ports |-> i.ports, backendIPs |-> i.backendIPs, deleted |-> FALSE]

(* A port is a record of its map key (protocol and port number) and its    *)
(* target port.  A service has a name, a port or an address.               *)
ASSUME GroupAssumption ==
    /\ MaxGeneration \in Nat
    /\ \A i \in Infos : i.ports \in Seq([key : KeysOf(i.ports), targetPort : Nat])
    /\ \A i \in Infos : NewService(i) # NoService

VARIABLES
    apiEndpoint,    \* "valid" or "invalid": can it be split into host and port?
    serviceMap,     \* name -> the service as the group knows it
    tunnels,        \* name -> port key -> tunnel
    generation,     \* name -> port key -> clients started
    clients,        \* "none", "running" or "closed"
    pc,             \* "idle", "services", "ports" or "panicked"
    wanted,         \* newservices: the services of this or the last reconciliation
    todo,           \* the services of newservices still to be visited
    srvGone,        \* names that no wanted service claimed so far
    srv,            \* the service whose tunnels are reconciled
    next,           \* the port of srv that is next
    portsGone       \* port keys of srv's tunnels that no port claimed so far

tunnelVars == <<tunnels, generation, clients>>

loopVars == <<todo, srvGone, srv, next, portsGone>>

groupVars == <<apiEndpoint, serviceMap, tunnelVars, wanted, pc, loopVars>>

GroupInit ==
    /\ apiEndpoint \in {"valid", "invalid"}
    /\ serviceMap = [n \in Names |-> NoService]
    /\ tunnels = [n \in Names |-> <<>>]
    /\ generation = [n \in Names |-> [k \in PortKeys |-> 0]]
    /\ clients = [c \in Clients |-> "none"]
    /\ pc = "idle"
    /\ wanted = {} /\ todo = {} /\ srvGone = {} /\ portsGone = {}
    /\ srv = "" /\ next = 1

Known(n) == serviceMap[n] # NoService

-----------------------------------------------------------------------------
(* reconcileTunnels of the service srv.                                    *)

(* It begins with every tunnel of the service unclaimed. *)
Begin(n) ==
    /\ pc' = "ports"
    /\ srv' = n
    /\ next' = 1
    /\ portsGone' = DOMAIN tunnels[n]

PortsDone == serviceMap[srv].deleted \/ next > Len(serviceMap[srv].ports)

NewClient(n, k) == <<n, k, generation[n][k] + 1>>

(* Is there a tunnel for this port key? *)
Found(k) == k \in DOMAIN tunnels[srv]

(* Mutant: only a tunnel that exists is given its addresses. *)
NewLeftUntargeted(p) ==
    IF Found(p.key)
    THEN [tunnels[srv][p.key] EXCEPT !.addresses = serviceMap[srv].backendIPs,
                                     !.targetPort = p.targetPort]
    ELSE [client |-> NewClient(srv, p.key), addresses |-> <<>>, targetPort |-> p.targetPort]

(* The tunnel of port p: the one there is, or one with a new client, with  *)
(* the addresses of the service and the target of the port.                *)
Targeted(p) ==
    [client |-> IF Found(p.key) THEN tunnels[srv][p.key].client ELSE NewClient(srv, p.key),
     addresses |-> serviceMap[srv].backendIPs,
     targetPort |-> p.targetPort]

(* The next port claims its tunnel, or starts one.  MaxGeneration bounds   *)
(* the clients; Reconcile asks for no more, so it never stops this.        *)
ReconcilePort ==
    /\ pc = "ports" /\ ~PortsDone
    /\ LET p == serviceMap[srv].ports[next] IN
        /\ Found(p.key) \/ (apiEndpoint = "valid" /\ NewClient(srv, p.key) \in Clients)
        /\ IF Found(p.key) THEN UNCHANGED <<clients, generation>>
           ELSE /\ clients' = [clients EXCEPT ![NewClient(srv, p.key)] = "running"]
                /\ generation' = [generation EXCEPT ![srv][p.key] = @ + 1]
        /\ tunnels' = [tunnels EXCEPT ![srv] =
                        [k \in DOMAIN tunnels[srv] \cup {p.key} |->
                            IF k = p.key THEN Targeted(p) ELSE tunnels[srv][k]]]
        /\ portsGone' = portsGone \ {p.key}
    /\ next' = next + 1
    /\ UNCHANGED <<apiEndpoint, serviceMap, wanted, pc, todo, srvGone, srv>>

(* NewMuxTunnelClient fails: the port is passed over. *)
SkipPort ==
    /\ pc = "ports" /\ ~PortsDone
    /\ ~Found(serviceMap[srv].ports[next].key) /\ apiEndpoint = "invalid"
    /\ next' = next + 1
    /\ UNCHANGED <<apiEndpoint, serviceMap, tunnelVars, wanted, pc, todo, srvGone, srv, portsGone>>

(* Mutant: the client of a tunnel that goes is left running. *)
NotClosed(c) == clients

Closed(c) == [clients EXCEPT ![c] = "closed"]

(* Mutant: the tunnel whose client was closed stays in the map. *)
KeptInMap(k) == tunnels

Without(k) ==
    [tunnels EXCEPT ![srv] = [j \in DOMAIN tunnels[srv] \ {k} |-> tunnels[srv][j]]]

(* The tunnel of a port key that no port claimed goes: its client is       *)
(* closed and its entry deleted.                                           *)
CloseGone(k) ==
    /\ pc = "ports" /\ PortsDone
    /\ k \in portsGone
    /\ LET c == tunnels[srv][k].client IN
        /\ clients' = Closed(c)
        /\ pc' = IF clients[c] = "closed" THEN "panicked" ELSE pc
    /\ tunnels' = Without(k)
    /\ portsGone' = portsGone \ {k}
    /\ UNCHANGED <<apiEndpoint, serviceMap, generation, wanted, todo, srvGone, srv, next>>

-----------------------------------------------------------------------------
(* ReconcileServiceGroup.                                                  *)

(* The reconciliation begins.  new is the set of values of the map it is   *)
(* given; their names, which the group goes by, need not differ.           *)
Reconcile(new) ==
    /\ pc = "idle"
    /\ \A i \in new : Known(i.name) \/ \A k \in KeysOf(i.ports) :
        generation[i.name][k] < MaxGeneration
    /\ pc' = "services"
    /\ wanted' = new
    /\ todo' = new
    /\ srvGone' = {n \in Names : Known(n)}
    /\ UNCHANGED <<apiEndpoint, serviceMap, tunnelVars, srv, next, portsGone>>

(* Mutant: a service that is known is not taken off the ones that go. *)
NobodyClaimed(i) == srvGone

Claimed(i) == IF Known(i.name) THEN srvGone \ {i.name} ELSE srvGone

(* Mutant: the new entry of the map is not given its name. *)
ServiceUnnamed(i) ==
    IF Known(i.name) THEN serviceMap[i.name] ELSE [NewService(i) EXCEPT !.name = ""]

(* What the map has for a service that is asked for as i: the service of   *)
(* that name it knows, if there is one.                                    *)
ServiceFor(i) == IF Known(i.name) THEN serviceMap[i.name] ELSE NewService(i)

(* The next wanted service, in the order in which Go ranges over the map.  *)
NextService(i) ==
    /\ pc = "services"
    /\ i \in todo
    /\ todo' = todo \ {i}
    /\ serviceMap' = [serviceMap EXCEPT ![i.name] = ServiceFor(i)]
    /\ srvGone' = Claimed(i)
    /\ Begin(i.name)
    /\ UNCHANGED <<apiEndpoint, tunnelVars, wanted>>

(* A service that is gone is marked as deleted, so that all its tunnels go.*)
RemoveService(n) ==
    /\ pc = "services" /\ todo = {}
    /\ n \in srvGone
    /\ srvGone' = srvGone \ {n}
    /\ serviceMap' = [serviceMap EXCEPT ![n].deleted = TRUE]
    /\ Begin(n)
    /\ UNCHANGED <<apiEndpoint, tunnelVars, wanted, todo>>

(* The tunnels of srv are reconciled; one that is gone leaves the map.     *)
ServiceDone ==
    /\ pc = "ports" /\ PortsDone /\ portsGone = {}
    /\ pc' = "services"
    /\ serviceMap' = IF serviceMap[srv].deleted
                     THEN [serviceMap EXCEPT ![srv] = NoService] ELSE serviceMap
    /\ UNCHANGED <<apiEndpoint, tunnelVars, wanted, loopVars>>

Finish ==
    /\ pc = "services" /\ todo = {} /\ srvGone = {}
    /\ pc' = "idle"
    /\ UNCHANGED <<apiEndpoint, serviceMap, tunnelVars, wanted, loopVars>>

GroupNext ==
    \/ \E new \in SUBSET Infos : Reconcile(new)
    \/ \E i \in todo : NextService(i)
    \/ ReconcilePort
    \/ SkipPort
    \/ \E k \in portsGone : CloseGone(k)
    \/ \E n \in srvGone : RemoveService(n)
    \/ ServiceDone
    \/ Finish

GroupSpec == GroupInit /\ [][GroupNext]_groupVars

-----------------------------------------------------------------------------

(* The clients that the maps of tunnels refer to. *)
Referenced == UNION {{tunnels[n][k].client : k \in DOMAIN tunnels[n]} : n \in Names}

(* The values the state of the group can have: the map has a service under *)
(* its own name, and only a service that is going is marked as deleted.    *)
GroupTypeOK ==
    /\ apiEndpoint \in {"valid", "invalid"}
    /\ \A n \in Names : Known(n) =>
        /\ serviceMap[n].name = n
        /\ serviceMap[n].deleted => pc \in {"ports", "panicked"} /\ srv = n
    /\ generation \in [Names -> [PortKeys -> 0..MaxGeneration]]
    /\ clients \in [Clients -> {"none", "running", "closed"}]
    /\ pc \in {"idle", "services", "ports", "panicked"}
    /\ wanted \subseteq Infos /\ todo \subseteq wanted
    /\ srvGone \subseteq Names /\ portsGone \subseteq PortKeys
    /\ pc = "ports" => srv \in Names
    /\ next \in Nat \ {0}

(* The clients that run are the ones the maps of tunnels refer to, at      *)
(* every step of a reconciliation: no client goes on serving a port that   *)
(* the group has forgotten, and no tunnel of the group is one whose client *)
(* has ended.                                                              *)
RunningIffReferenced ==
    \A c \in Clients : clients[c] = "running" <=> c \in Referenced

(* The group never closes a client a second time (muxtunnelClient.go's     *)
(* Close would close a closed channel, and the program would end),         *)
(* whichever services come, go and come back.                              *)
ClientsCloseOnce == pc # "panicked"

(* No later port has the key of the j-th. *)
LastOfKey(ports, j) == \A m \in DOMAIN ports : ports[m].key = ports[j].key => m <= j

(* When a reconciliation has ended, the group has the services that were   *)
(* asked for and no other, and for each a tunnel for every port it had     *)
(* when the group first learned of it, and no other.  They send to the     *)
(* addresses it had then and to the target of the last port with the key.  *)
TunnelsFollowServices ==
    pc = "idle" =>
        /\ {n \in Names : Known(n)} = NamesOf(wanted)
        /\ \A n \in Names : LET ports == serviceMap[n].ports IN
            /\ DOMAIN tunnels[n] = IF apiEndpoint = "valid" THEN KeysOf(ports) ELSE {}
            /\ \A k \in DOMAIN tunnels[n] : tunnels[n][k].addresses = serviceMap[n].backendIPs
            /\ \A j \in DOMAIN ports :
                ports[j].key \in DOMAIN tunnels[n] /\ LastOfKey(ports, j) =>
                    tunnels[n][ports[j].key].targetPort = ports[j].targetPort

(* Reconciling does not interrupt what stays: no step of a reconciliation  *)
(* that asks for a service takes away a tunnel of that service or gives it *)
(* another client.                                                         *)
SurvivorsKeepClients ==
    [][\A n \in NamesOf(wanted') : \A k \in DOMAIN tunnels[n] :
        k \in DOMAIN tunnels'[n] /\ tunnels'[n][k].client = tunnels[n][k].client]_groupVars

(* muxtunnelClientServiceGroup.go:125: "ReconcileServiceGroup reconciles   *)
(* the map of services with a new map of services".  When it has ended,    *)
(* the map has the ports and the addresses of the new map.                 *)
ReconcilesWithNew ==
    pc = "idle" =>
        \A i \in wanted : (\A j \in wanted : j.name = i.name => j = i) =>
            /\ serviceMap[i.name].ports = i.ports
            /\ serviceMap[i.name].backendIPs = i.backendIPs

=============================================================================
