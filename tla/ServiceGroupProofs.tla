------------------------- MODULE ServiceGroupProofs -------------------------
(***************************************************************************)
(* Proofs about ServiceGroup, for any set of services and any sequence of  *)
(* reconciliations: when one has ended the tunnels follow the services,    *)
(* the clients that run are the ones referred to, services that stay keep  *)
(* their clients, and no client is closed twice.                           *)
(***************************************************************************)
EXTENDS ServiceGroup, TLAPS

(* What the map has for a service is one of the services it was given. *)
GivenService(n) ==
    \E i \in Infos :
        /\ i.name = n
        /\ serviceMap[n] = [name |-> n, ports |-> i.ports, backendIPs |-> i.backendIPs,
                            deleted |-> serviceMap[n].deleted]

ServicesInv ==
    /\ serviceMap = [n \in Names |-> serviceMap[n]]
    /\ tunnels = [n \in Names |-> tunnels[n]]
    /\ \A n \in Names : serviceMap[n].deleted \in BOOLEAN
    /\ \A n \in Names : Known(n) => GivenService(n)

(* The client of a tunnel was started for it, and clients are started in   *)
(* the order of their numbers.                                             *)
GenerationInv ==
    /\ \A n \in Names : \A k \in DOMAIN tunnels[n] :
        /\ k \in PortKeys
        /\ \E g \in 1..generation[n][k] : tunnels[n][k].client = <<n, k, g>>
    /\ \A n \in Names, k \in PortKeys, g \in 1..MaxGeneration :
        clients[<<n, k, g>>] # "none" => g <= generation[n][k]

(* Where the loops are: the services visited so far are known and are not  *)
(* among the gone, and every service the map has was visited, is among the *)
(* gone or is the one that goes just now.                                  *)
LoopInv ==
    /\ pc = "idle" => {n \in Names : Known(n)} = NamesOf(wanted)
    /\ pc # "idle" =>
        /\ \A n \in NamesOf(wanted \ todo) : Known(n) /\ n \notin srvGone
        /\ \A n \in srvGone : Known(n)
        /\ \A n \in Names : Known(n) =>
            n \in srvGone \/ n \in NamesOf(wanted \ todo) \/ serviceMap[n].deleted
    /\ pc = "ports" =>
        /\ Known(srv) /\ srv \notin srvGone
        /\ serviceMap[srv].deleted => todo = {} /\ srv \notin NamesOf(wanted)
        /\ ~serviceMap[srv].deleted => srv \in NamesOf(wanted \ todo)

(* The tunnels ts agree with the ports before port e. *)
AgreeWith(ts, ports, ips, e) ==
    /\ DOMAIN ts \subseteq IF apiEndpoint = "valid" THEN KeysOf(ports) ELSE {}
    /\ \A j \in DOMAIN ports : j < e =>
        /\ apiEndpoint = "valid" => ports[j].key \in DOMAIN ts
        /\ ports[j].key \in DOMAIN ts =>
            /\ ts[ports[j].key].addresses = ips
            /\ (\A m \in DOMAIN ports : m < e /\ ports[m].key = ports[j].key => m <= j)
                => ts[ports[j].key].targetPort = ports[j].targetPort

Agrees(n, e) == AgreeWith(tunnels[n], serviceMap[n].ports, serviceMap[n].backendIPs, e)

(* Between two passes every service agrees with its tunnels; within one,   *)
(* the service in hand does up to the next port, and a tunnel that is not  *)
(* claimed has its port still to come, unless the service goes.            *)
TunnelsInv ==
    /\ \A n \in Names : pc # "ports" \/ n # srv => Agrees(n, Len(serviceMap[n].ports) + 1)
    /\ pc = "ports" /\ serviceMap[srv].deleted => DOMAIN tunnels[srv] = portsGone
    /\ pc = "ports" /\ ~serviceMap[srv].deleted =>
        /\ Agrees(srv, next)
        /\ portsGone \subseteq DOMAIN tunnels[srv]
        /\ \A k \in portsGone : \E j \in DOMAIN serviceMap[srv].ports :
            j >= next /\ serviceMap[srv].ports[j].key = k

(* The inductive invariant. *)
GroupInv ==
    /\ GroupTypeOK
    /\ ClientsCloseOnce
    /\ ServicesInv
    /\ GenerationInv
    /\ LoopInv
    /\ TunnelsInv
    /\ RunningIffReferenced

-----------------------------------------------------------------------------
(* The ports of a service the map has, or has not, are a sequence. *)
LEMMA PortsAreSeq ==
    ASSUME ServicesInv, NEW n \in Names
    PROVE  LET ports == serviceMap[n].ports IN
           /\ Len(ports) \in Nat /\ DOMAIN ports = 1..Len(ports)
           /\ KeysOf(ports) \subseteq PortKeys
  <1>1. CASE Known(n)
    <2>1. PICK i \in Infos : serviceMap[n].ports = i.ports
      BY <1>1 DEF ServicesInv, GivenService
    <2>2. i.ports \in Seq([key : KeysOf(i.ports), targetPort : Nat])
      BY GroupAssumption
    <2>3. KeysOf(i.ports) \subseteq PortKeys
      BY DEF PortKeys
    <2>. QED BY <2>1, <2>2, <2>3
  <1>2. CASE ~Known(n)
    <2>1. serviceMap[n] = NoService
      BY <1>2 DEF Known
    <2>2. NoService.ports = <<>>
      BY DEF NoService
    <2>3. serviceMap[n].ports = <<>>
      BY <2>1, <2>2
    <2>. QED BY <2>3 DEF KeysOf
  <1>. QED BY <1>1, <1>2

(* The port that is next is one of the service in hand. *)
LEMMA NextPort ==
    ASSUME GroupInv, pc = "ports", ~PortsDone
    PROVE  /\ srv \in Names /\ Known(srv) /\ ~serviceMap[srv].deleted
           /\ next \in DOMAIN serviceMap[srv].ports
           /\ serviceMap[srv].ports[next].key \in KeysOf(serviceMap[srv].ports)
           /\ serviceMap[srv].ports[next].key \in PortKeys
  <1>1. srv \in Names /\ Known(srv) /\ next \in Nat \ {0}
    BY DEF GroupInv, GroupTypeOK, LoopInv
  <1>2. /\ Len(serviceMap[srv].ports) \in Nat
        /\ DOMAIN serviceMap[srv].ports = 1..Len(serviceMap[srv].ports)
        /\ KeysOf(serviceMap[srv].ports) \subseteq PortKeys
    BY <1>1, PortsAreSeq DEF GroupInv
  <1>3. ~serviceMap[srv].deleted /\ next <= Len(serviceMap[srv].ports)
    BY <1>1, <1>2 DEF PortsDone
  <1>4. next \in DOMAIN serviceMap[srv].ports
    BY <1>1, <1>2, <1>3
  <1>5. serviceMap[srv].ports[next].key \in KeysOf(serviceMap[srv].ports)
    BY <1>4 DEF KeysOf
  <1>. QED BY <1>1, <1>2, <1>3, <1>4, <1>5

(* A tunnel goes only with its service, which nobody wants, and its client *)
(* runs.                                                                   *)
LEMMA GoneTunnel ==
    ASSUME GroupInv, NEW k \in portsGone, CloseGone(k)
    PROVE  /\ srv \in Names /\ Known(srv) /\ serviceMap[srv].deleted
           /\ srv \notin NamesOf(wanted) /\ DOMAIN tunnels[srv] = portsGone
           /\ k \in PortKeys
           /\ \E g \in 1..MaxGeneration : /\ g <= generation[srv][k]
                                          /\ tunnels[srv][k].client = <<srv, k, g>>
           /\ tunnels[srv][k].client \in Clients
           /\ clients[tunnels[srv][k].client] = "running"
           /\ pc = "ports" /\ pc' = "ports"
  <1>1. srv \in Names /\ Known(srv) /\ next \in Nat \ {0} /\ pc = "ports" /\ PortsDone
    BY DEF GroupInv, GroupTypeOK, LoopInv, CloseGone
  <1>2. /\ Len(serviceMap[srv].ports) \in Nat
        /\ DOMAIN serviceMap[srv].ports = 1..Len(serviceMap[srv].ports)
    BY <1>1, PortsAreSeq DEF GroupInv
  <1>3. serviceMap[srv].deleted
    <2>1. SUFFICES ASSUME ~serviceMap[srv].deleted PROVE FALSE
      OBVIOUS
    <2>2. next > Len(serviceMap[srv].ports)
      BY <1>1, <2>1 DEF PortsDone
    <2>3. PICK j \in DOMAIN serviceMap[srv].ports : j >= next
      BY <1>1, <2>1 DEF GroupInv, TunnelsInv
    <2>. QED BY <1>1, <1>2, <2>2, <2>3
  <1>4. srv \notin NamesOf(wanted) /\ DOMAIN tunnels[srv] = portsGone
    BY <1>1, <1>3 DEF GroupInv, LoopInv, TunnelsInv
  <1>5. k \in PortKeys /\ \E g \in 1..generation[srv][k] : tunnels[srv][k].client = <<srv, k, g>>
    BY <1>1, <1>4 DEF GroupInv, GenerationInv
  <1>6. generation[srv][k] \in 0..MaxGeneration
    BY <1>1, <1>5 DEF GroupInv, GroupTypeOK
  <1>7. \E g \in 1..MaxGeneration :
            g <= generation[srv][k] /\ tunnels[srv][k].client = <<srv, k, g>>
    BY <1>5, <1>6, GroupAssumption
  <1>8. tunnels[srv][k].client \in Clients
    BY <1>1, <1>5, <1>7 DEF Clients
  <1>9. tunnels[srv][k].client \in Referenced
    BY <1>1, <1>4 DEF Referenced
  <1>10. clients[tunnels[srv][k].client] = "running"
    BY <1>8, <1>9 DEF GroupInv, RunningIffReferenced
  <1>11. pc' = "ports"
    BY <1>1, <1>10 DEF CloseGone
  <1>. QED BY <1>1, <1>3, <1>4, <1>5, <1>7, <1>8, <1>10, <1>11

(* A wanted service that is visited has its entry, old or new. *)
LEMMA VisitedService ==
    ASSUME GroupInv, NEW i \in todo, NextService(i)
    PROVE  /\ i \in Infos /\ i \in wanted /\ i.name \in Names /\ i.name \in NamesOf(wanted)
           /\ serviceMap'[i.name] # NoService
           /\ ~serviceMap'[i.name].deleted
           /\ serviceMap'[i.name].name = i.name
           /\ \E j \in Infos : j.name = i.name /\ serviceMap'[i.name] = NewService(j)
           /\ Known(i.name) => serviceMap'[i.name] = serviceMap[i.name]
           /\ \A n \in Names : n # i.name => serviceMap'[n] = serviceMap[n]
  <1>1. i \in Infos /\ i \in wanted /\ i.name \in Names /\ i.name \in NamesOf(wanted)
    BY DEF GroupInv, GroupTypeOK, Names, NamesOf
  <1>2. serviceMap'[i.name] = ServiceFor(i) /\ \A n \in Names : n # i.name => serviceMap'[n] = serviceMap[n]
    BY <1>1 DEF NextService, GroupInv, ServicesInv
  <1>3. CASE Known(i.name)
    <2>1. serviceMap'[i.name] = serviceMap[i.name] /\ serviceMap[i.name] # NoService
      BY <1>2, <1>3 DEF ServiceFor, Known
    <2>2. ~serviceMap[i.name].deleted
      BY <1>1, <1>3 DEF NextService, GroupInv, GroupTypeOK
    <2>3. PICK j \in Infos : j.name = i.name /\ serviceMap[i.name] =
            [name |-> i.name, ports |-> j.ports, backendIPs |-> j.backendIPs,
             deleted |-> serviceMap[i.name].deleted]
      BY <1>1, <1>3 DEF GroupInv, ServicesInv, GivenService
    <2>4. serviceMap[i.name].deleted = FALSE
      BY <1>1, <2>2 DEF GroupInv, ServicesInv
    <2>5. serviceMap[i.name] = NewService(j)
      BY <2>3, <2>4 DEF NewService
    <2>6. serviceMap[i.name].name = i.name
      BY <1>1, <1>3 DEF GroupInv, GroupTypeOK
    <2>. QED BY <1>1, <1>2, <2>1, <2>2, <2>3, <2>5, <2>6
  <1>4. CASE ~Known(i.name)
    <2>1. serviceMap'[i.name] = NewService(i)
      BY <1>2, <1>4 DEF ServiceFor
    <2>2. NewService(i) # NoService
      BY <1>1, GroupAssumption
    <2>3. ~NewService(i).deleted /\ NewService(i).name = i.name
      BY DEF NewService
    <2>. QED BY <1>1, <1>2, <1>4, <2>1, <2>2, <2>3
  <1>. QED BY <1>3, <1>4

(* A service that goes keeps its entry, marked, until its tunnels have     *)
(* gone.                                                                   *)
LEMMA MarkedService ==
    ASSUME GroupInv, NEW n \in srvGone, RemoveService(n)
    PROVE  /\ n \in Names /\ Known(n) /\ n \notin NamesOf(wanted)
           /\ serviceMap'[n] # NoService
           /\ serviceMap'[n].deleted = TRUE
           /\ serviceMap'[n].name = n
           /\ serviceMap'[n].ports = serviceMap[n].ports
           /\ \E j \in Infos : j.name = n /\ serviceMap'[n] =
                [name |-> n, ports |-> j.ports, backendIPs |-> j.backendIPs, deleted |-> TRUE]
           /\ \A m \in Names : m # n => serviceMap'[m] = serviceMap[m]
  <1>1. n \in Names /\ Known(n) /\ pc = "services" /\ todo = {}
    BY DEF GroupInv, GroupTypeOK, LoopInv, RemoveService
  <1>2. n \notin NamesOf(wanted)
    <2>1. wanted \ todo = wanted
      BY <1>1
    <2>. QED BY <1>1, <2>1 DEF GroupInv, LoopInv
  <1>3. PICK j \in Infos : j.name = n /\ serviceMap[n] =
            [name |-> n, ports |-> j.ports, backendIPs |-> j.backendIPs,
             deleted |-> serviceMap[n].deleted]
    BY <1>1 DEF GroupInv, ServicesInv, GivenService
  <1>4. /\ serviceMap'[n] = [serviceMap[n] EXCEPT !.deleted = TRUE]
        /\ \A m \in Names : m # n => serviceMap'[m] = serviceMap[m]
    BY <1>1 DEF RemoveService, GroupInv, ServicesInv
  <1>5. serviceMap'[n] = [name |-> n, ports |-> j.ports, backendIPs |-> j.backendIPs,
                          deleted |-> TRUE]
    <2>. DEFINE old == serviceMap[n]
                new == serviceMap'[n]
                d == serviceMap[n].deleted
    <2>1. old = [name |-> n, ports |-> j.ports, backendIPs |-> j.backendIPs, deleted |-> d]
      BY <1>3
    <2>2. new = [old EXCEPT !.deleted = TRUE]
      BY <1>4
    <2>. HIDE DEF old, new, d
    <2>3. new = [name |-> n, ports |-> j.ports, backendIPs |-> j.backendIPs, deleted |-> TRUE]
      BY <2>1, <2>2
    <2>. QED BY <2>3 DEF new
  <1>6. serviceMap'[n] # NoService
    <2>1. NoService.deleted = FALSE
      BY DEF NoService
    <2>2. serviceMap'[n].deleted = TRUE
      BY <1>5
    <2>. QED BY <2>1, <2>2
  <1>7. serviceMap[n].ports = j.ports
    BY <1>3
  <1>8. serviceMap'[n].ports = j.ports /\ serviceMap'[n].name = n /\ serviceMap'[n].deleted = TRUE
    BY <1>5
  <1>. QED BY <1>1, <1>2, <1>3, <1>4, <1>5, <1>6, <1>7, <1>8

-----------------------------------------------------------------------------
(* GroupInv holds at first, and every step keeps each part of it.          *)

LEMMA GroupStart == GroupInit => GroupInv
  <1>. SUFFICES ASSUME GroupInit PROVE GroupInv
    OBVIOUS
  <1>1. /\ pc = "idle" /\ wanted = {} /\ todo = {} /\ srvGone = {} /\ portsGone = {} /\ next = 1
        /\ apiEndpoint \in {"valid", "invalid"}
        /\ clients = [c \in Clients |-> "none"]
        /\ generation = [n \in Names |-> [k \in PortKeys |-> 0]]
        /\ tunnels = [n \in Names |-> <<>>]
        /\ serviceMap = [n \in Names |-> NoService]
    BY DEF GroupInit
  <1>2. \A n \in Names : serviceMap[n] = NoService /\ ~Known(n)
    BY <1>1 DEF Known
  <1>3. \A n \in Names : serviceMap[n].deleted = FALSE /\ serviceMap[n].ports = <<>>
    <2>1. NoService.deleted = FALSE /\ NoService.ports = <<>>
      BY DEF NoService
    <2>. QED BY <1>2, <2>1
  <1>4. \A n \in Names : DOMAIN tunnels[n] = {} /\ DOMAIN serviceMap[n].ports = {}
    <2>1. \A n \in Names : tunnels[n] = <<>>
      BY <1>1
    <2>2. DOMAIN <<>> = {}
      OBVIOUS
    <2>. QED BY <1>3, <2>1, <2>2
  <1>5. GroupTypeOK /\ ClientsCloseOnce
    <2>1. MaxGeneration \in Nat
      BY GroupAssumption
    <2>2. 0 \in 0..MaxGeneration
      BY <2>1
    <2>3. generation \in [Names -> [PortKeys -> 0..MaxGeneration]]
      BY <1>1, <2>2
    <2>4. clients \in [Clients -> {"none", "running", "closed"}]
      BY <1>1
    <2>. QED BY <1>1, <1>2, <2>3, <2>4 DEF GroupTypeOK, ClientsCloseOnce
  <1>6. ServicesInv
    BY <1>1, <1>2, <1>3 DEF ServicesInv
  <1>7. GenerationInv
    BY <1>1, <1>4 DEF GenerationInv, Clients
  <1>8. LoopInv
    BY <1>1, <1>2 DEF LoopInv, NamesOf
  <1>9. TunnelsInv
    BY <1>1, <1>4 DEF TunnelsInv, Agrees, AgreeWith
  <1>10. RunningIffReferenced
    BY <1>1, <1>4 DEF RunningIffReferenced, Referenced
  <1>. QED BY <1>5, <1>6, <1>7, <1>8, <1>9, <1>10 DEF GroupInv

(* The actions, for the proofs by cases below. *)
LEMMA Actions ==
    ASSUME [GroupNext]_groupVars
    PROVE  \/ \E new \in SUBSET Infos : Reconcile(new)
           \/ \E i \in todo : NextService(i)
           \/ ReconcilePort
           \/ SkipPort
           \/ \E k \in portsGone : CloseGone(k)
           \/ \E n \in srvGone : RemoveService(n)
           \/ ServiceDone
           \/ Finish
           \/ UNCHANGED groupVars
  BY DEF GroupNext

LEMMA ServicesStep == GroupInv /\ [GroupNext]_groupVars => ServicesInv'
  <1>. SUFFICES ASSUME GroupInv, [GroupNext]_groupVars PROVE ServicesInv'
    OBVIOUS
  <1>. USE DEF GroupInv
  <1>1. CASE \E i \in todo : NextService(i)
    <2>1. PICK i \in todo : NextService(i)
      BY <1>1
    <2>2. serviceMap' = [n \in Names |-> serviceMap'[n]] /\ tunnels' = tunnels
      BY <2>1 DEF NextService, ServicesInv, tunnelVars
    <2>3. ASSUME NEW n \in Names
          PROVE  /\ serviceMap'[n].deleted \in BOOLEAN
                 /\ serviceMap'[n] # NoService => GivenService(n)'
      <3>1. CASE n = i.name
        <4>1. PICK j \in Infos : j.name = n /\ serviceMap'[n] = NewService(j)
          BY <2>1, <3>1, VisitedService
        <4>2. serviceMap'[n].deleted = FALSE
          BY <4>1 DEF NewService
        <4>. QED BY <4>1, <4>2 DEF GivenService, NewService
      <3>2. CASE n # i.name
        <4>1. serviceMap'[n] = serviceMap[n]
          BY <2>1, <3>2, VisitedService
        <4>. QED BY <4>1 DEF ServicesInv, GivenService, Known
      <3>. QED BY <3>1, <3>2
    <2>. QED BY <2>2, <2>3 DEF ServicesInv, Known
  <1>2. CASE \E n \in srvGone : RemoveService(n)
    <2>1. PICK m \in srvGone : RemoveService(m)
      BY <1>2
    <2>2. serviceMap' = [n \in Names |-> serviceMap'[n]] /\ tunnels' = tunnels
      BY <2>1 DEF RemoveService, ServicesInv, tunnelVars
    <2>3. \E j \in Infos : j.name = m /\ serviceMap'[m] =
            [name |-> m, ports |-> j.ports, backendIPs |-> j.backendIPs, deleted |-> TRUE]
      BY <2>1, MarkedService
    <2>4. serviceMap'[m].deleted = TRUE /\ \A n \in Names : n # m => serviceMap'[n] = serviceMap[n]
      BY <2>1, MarkedService
    <2>5. ASSUME NEW n \in Names
          PROVE  /\ serviceMap'[n].deleted \in BOOLEAN
                 /\ serviceMap'[n] # NoService => GivenService(n)'
      <3>1. CASE n = m
        <4>. QED BY <2>3, <2>4, <3>1 DEF GivenService
      <3>2. CASE n # m
        <4>1. serviceMap'[n] = serviceMap[n]
          BY <2>4, <3>2
        <4>. QED BY <4>1 DEF ServicesInv, GivenService, Known
      <3>. QED BY <3>1, <3>2
    <2>. QED BY <2>2, <2>5 DEF ServicesInv, Known
  <1>3. CASE ServiceDone
    <2>1. tunnels' = tunnels
      BY <1>3 DEF ServiceDone, tunnelVars
    <2>2. serviceMap' = [n \in Names |-> serviceMap'[n]]
      BY <1>3 DEF ServiceDone, ServicesInv
    <2>3. \A n \in Names : serviceMap'[n] = serviceMap[n] \/ serviceMap'[n] = NoService
      BY <1>3 DEF ServiceDone, ServicesInv
    <2>4. NoService.deleted \in BOOLEAN
      BY DEF NoService
    <2>. QED BY <2>1, <2>2, <2>3, <2>4 DEF ServicesInv, GivenService, Known
  <1>4. CASE ReconcilePort
    <2>1. serviceMap' = serviceMap /\ tunnels' = [n \in Names |-> tunnels'[n]]
      BY <1>4 DEF ReconcilePort, ServicesInv
    <2>. QED BY <2>1 DEF ServicesInv, GivenService, Known
  <1>5. CASE \E k \in portsGone : CloseGone(k)
    <2>1. serviceMap' = serviceMap /\ tunnels' = [n \in Names |-> tunnels'[n]]
      BY <1>5 DEF CloseGone, Without, ServicesInv
    <2>. QED BY <2>1 DEF ServicesInv, GivenService, Known
  <1>6. CASE (\E new \in SUBSET Infos : Reconcile(new)) \/ SkipPort \/ Finish
             \/ UNCHANGED groupVars
    <2>1. serviceMap' = serviceMap /\ tunnels' = tunnels
      BY <1>6 DEF Reconcile, SkipPort, Finish, groupVars, tunnelVars
    <2>. QED BY <2>1 DEF ServicesInv, GivenService, Known
  <1>. QED BY <1>1, <1>2, <1>3, <1>4, <1>5, <1>6, Actions

LEMMA LoopStep == GroupInv /\ [GroupNext]_groupVars => LoopInv'
  <1>. SUFFICES ASSUME GroupInv, [GroupNext]_groupVars PROVE LoopInv'
    OBVIOUS
  <1>. USE DEF GroupInv
  <1>1. CASE \E new \in SUBSET Infos : Reconcile(new)
    <2>1. /\ pc' = "services" /\ serviceMap' = serviceMap /\ todo' = wanted'
          /\ srvGone' = {n \in Names : serviceMap[n] # NoService}
      BY <1>1 DEF Reconcile, Known
    <2>. QED BY <2>1 DEF LoopInv, NamesOf, Known
  <1>2. CASE \E i \in todo : NextService(i)
    <2>1. PICK i \in todo : NextService(i)
      BY <1>2
    <2>2. /\ pc = "services" /\ pc' = "ports" /\ wanted' = wanted /\ todo' = todo \ {i}
          /\ srv' = i.name /\ srvGone' = Claimed(i)
      BY <2>1 DEF NextService, Begin
    <2>3. NamesOf(wanted' \ todo') = NamesOf(wanted \ todo) \cup {i.name}
      <3>1. wanted' \ todo' = (wanted \ todo) \cup {i}
        BY <2>1, <2>2, VisitedService
      <3>. QED BY <3>1 DEF NamesOf
    <2>4. srvGone' = srvGone \ {i.name}
      BY <2>1, <2>2, VisitedService DEF Claimed, LoopInv
    <2>5. \A n \in Names : n # i.name => serviceMap'[n] = serviceMap[n]
      BY <2>1, VisitedService
    <2>6. /\ i.name \in Names
          /\ serviceMap'[i.name] # NoService /\ ~serviceMap'[i.name].deleted
      BY <2>1, VisitedService
    <2>7. NamesOf(wanted \ todo) \subseteq Names
      BY DEF GroupTypeOK, NamesOf, Names
    <2>8. srvGone \subseteq Names
      BY DEF GroupTypeOK
    <2>9. /\ \A n \in NamesOf(wanted' \ todo') : serviceMap'[n] # NoService /\ n \notin srvGone'
          /\ \A n \in srvGone' : serviceMap'[n] # NoService
      BY <2>2, <2>3, <2>4, <2>5, <2>6, <2>7, <2>8 DEF LoopInv, Known
    <2>10. \A n \in Names : serviceMap'[n] # NoService =>
            n \in srvGone' \/ n \in NamesOf(wanted' \ todo') \/ serviceMap'[n].deleted
      BY <2>2, <2>3, <2>4, <2>5 DEF LoopInv, Known
    <2>. QED BY <2>2, <2>3, <2>4, <2>6, <2>9, <2>10 DEF LoopInv, Known
  <1>3. CASE \E n \in srvGone : RemoveService(n)
    <2>1. PICK m \in srvGone : RemoveService(m)
      BY <1>3
    <2>2. /\ pc = "services" /\ pc' = "ports" /\ wanted' = wanted /\ todo' = todo /\ todo = {}
          /\ srv' = m /\ srvGone' = srvGone \ {m}
      BY <2>1 DEF RemoveService, Begin
    <2>3. /\ m \in Names /\ m \notin NamesOf(wanted)
          /\ serviceMap'[m] # NoService /\ serviceMap'[m].deleted
          /\ \A n \in Names : n # m => serviceMap'[n] = serviceMap[n]
      BY <2>1, MarkedService
    <2>4. NamesOf(wanted \ todo) \subseteq Names /\ NamesOf(wanted \ todo) = NamesOf(wanted)
      BY <2>2 DEF GroupTypeOK, NamesOf, Names
    <2>5. srvGone \subseteq Names
      BY DEF GroupTypeOK
    <2>. QED BY <2>2, <2>3, <2>4, <2>5 DEF LoopInv, Known
  <1>4. CASE ServiceDone
    <2>1. /\ pc = "ports" /\ pc' = "services" /\ wanted' = wanted /\ todo' = todo
          /\ srvGone' = srvGone
      BY <1>4 DEF ServiceDone, loopVars
    <2>2. srv \in Names /\ srvGone \subseteq Names /\ NamesOf(wanted \ todo) \subseteq Names
      BY <2>1 DEF GroupTypeOK, NamesOf, Names
    <2>3. CASE serviceMap[srv].deleted
      <3>1. /\ serviceMap'[srv] = NoService
            /\ \A n \in Names : n # srv => serviceMap'[n] = serviceMap[n]
        BY <1>4, <2>2, <2>3 DEF ServiceDone, ServicesInv
      <3>2. srv \notin srvGone /\ srv \notin NamesOf(wanted \ todo)
        BY <2>1, <2>3 DEF LoopInv, NamesOf
      <3>3. /\ \A n \in NamesOf(wanted \ todo) : serviceMap'[n] # NoService /\ n \notin srvGone
            /\ \A n \in srvGone : serviceMap'[n] # NoService
        BY <2>1, <2>2, <3>1, <3>2 DEF LoopInv, Known
      <3>4. \A n \in Names : serviceMap'[n] # NoService =>
              n \in srvGone \/ n \in NamesOf(wanted \ todo) \/ serviceMap'[n].deleted
        BY <2>1, <3>1 DEF LoopInv, Known
      <3>. QED BY <2>1, <3>3, <3>4 DEF LoopInv, Known
    <2>4. CASE ~serviceMap[srv].deleted
      <3>1. serviceMap' = serviceMap
        BY <1>4, <2>4 DEF ServiceDone
      <3>. QED BY <2>1, <3>1 DEF LoopInv, Known
    <2>. QED BY <2>3, <2>4
  <1>5. CASE Finish
    <2>1. /\ pc = "services" /\ pc' = "idle" /\ wanted' = wanted /\ todo = {} /\ srvGone = {}
          /\ serviceMap' = serviceMap
      BY <1>5 DEF Finish
    <2>2. NamesOf(wanted) \subseteq Names
      BY DEF GroupTypeOK, NamesOf, Names
    <2>3. \A n \in Names : Known(n) => ~serviceMap[n].deleted
      BY <2>1 DEF GroupTypeOK
    <2>4. wanted \ todo = wanted
      BY <2>1
    <2>5. {n \in Names : Known(n)} = NamesOf(wanted)
      BY <2>1, <2>2, <2>3, <2>4 DEF LoopInv
    <2>. QED BY <2>1, <2>5 DEF LoopInv, Known
  <1>6. CASE ReconcilePort \/ SkipPort \/ UNCHANGED groupVars
    <2>1. /\ serviceMap' = serviceMap /\ pc' = pc /\ wanted' = wanted /\ todo' = todo
          /\ srvGone' = srvGone /\ srv' = srv
      BY <1>6 DEF ReconcilePort, SkipPort, groupVars, loopVars
    <2>. QED BY <2>1 DEF LoopInv, Known
  <1>7. CASE \E k \in portsGone : CloseGone(k)
    <2>1. /\ serviceMap' = serviceMap /\ pc' = pc /\ wanted' = wanted /\ todo' = todo
          /\ srvGone' = srvGone /\ srv' = srv
      BY <1>7, GoneTunnel DEF CloseGone
    <2>. QED BY <2>1 DEF LoopInv, Known
  <1>. QED BY <1>1, <1>2, <1>3, <1>4, <1>5, <1>6, <1>7, Actions

(* What ReconcilePort does to the tunnels: the one of the next port is     *)
(* there, with the client it had or the next one, and the others stay.     *)
LEMMA PortStep ==
    ASSUME GroupInv, ReconcilePort
    PROVE  LET p == serviceMap[srv].ports[next]
               c == <<srv, p.key, generation[srv][p.key] + 1>> IN
           /\ pc = "ports" /\ ~PortsDone
           /\ \A n \in Names : n # srv => tunnels'[n] = tunnels[n]
           /\ DOMAIN tunnels'[srv] = DOMAIN tunnels[srv] \cup {p.key}
           /\ \A k \in DOMAIN tunnels[srv] : k # p.key => tunnels'[srv][k] = tunnels[srv][k]
           /\ tunnels'[srv][p.key].addresses = serviceMap[srv].backendIPs
           /\ tunnels'[srv][p.key].targetPort = p.targetPort
           /\ \/ /\ p.key \in DOMAIN tunnels[srv]
                 /\ tunnels'[srv][p.key].client = tunnels[srv][p.key].client
                 /\ clients' = clients /\ generation' = generation
              \/ /\ p.key \notin DOMAIN tunnels[srv] /\ apiEndpoint = "valid"
                 /\ tunnels'[srv][p.key].client = c
                 /\ c \in Clients /\ generation[srv][p.key] + 1 \in 1..MaxGeneration
                 /\ clients' = [clients EXCEPT ![c] = "running"]
                 /\ generation' = [generation EXCEPT ![srv][p.key] = @ + 1]
  <1>. DEFINE p == serviceMap[srv].ports[next]
  <1>1. pc = "ports" /\ ~PortsDone
    BY DEF ReconcilePort
  <1>2. srv \in Names
    BY <1>1, NextPort
  <1>3. /\ \A n \in Names : n # srv => tunnels'[n] = tunnels[n]
        /\ tunnels'[srv] = [k \in DOMAIN tunnels[srv] \cup {p.key} |->
                              IF k = p.key THEN Targeted(p) ELSE tunnels[srv][k]]
    BY <1>2 DEF ReconcilePort, GroupInv, ServicesInv
  <1>4. /\ tunnels'[srv][p.key] = Targeted(p)
        /\ DOMAIN tunnels'[srv] = DOMAIN tunnels[srv] \cup {p.key}
        /\ \A k \in DOMAIN tunnels[srv] : k # p.key => tunnels'[srv][k] = tunnels[srv][k]
    BY <1>3
  <1>5. /\ Targeted(p).client = IF p.key \in DOMAIN tunnels[srv] THEN tunnels[srv][p.key].client
                                ELSE NewClient(srv, p.key)
        /\ Targeted(p).addresses = serviceMap[srv].backendIPs
        /\ Targeted(p).targetPort = p.targetPort
    BY DEF Targeted, Found
  <1>6. CASE p.key \in DOMAIN tunnels[srv]
    <2>1. clients' = clients /\ generation' = generation
      BY <1>6 DEF ReconcilePort, Found
    <2>. QED BY <1>1, <1>3, <1>4, <1>5, <1>6, <2>1
  <1>7. CASE p.key \notin DOMAIN tunnels[srv]
    <2>1. /\ apiEndpoint = "valid" /\ NewClient(srv, p.key) \in Clients
          /\ clients' = [clients EXCEPT ![NewClient(srv, p.key)] = "running"]
          /\ generation' = [generation EXCEPT ![srv][p.key] = @ + 1]
      BY <1>7 DEF ReconcilePort, Found
    <2>2. generation[srv][p.key] + 1 \in 1..MaxGeneration
      BY <2>1 DEF NewClient, Clients
    <2>. QED BY <1>1, <1>3, <1>4, <1>5, <1>7, <2>1, <2>2 DEF NewClient
  <1>. QED BY <1>6, <1>7

(* The tunnels that CloseGone leaves. *)
LEMMA GoneStep ==
    ASSUME GroupInv, NEW k \in portsGone, CloseGone(k)
    PROVE  /\ \A n \in Names : n # srv => tunnels'[n] = tunnels[n]
           /\ DOMAIN tunnels'[srv] = DOMAIN tunnels[srv] \ {k}
           /\ \A j \in DOMAIN tunnels'[srv] : tunnels'[srv][j] = tunnels[srv][j]
           /\ clients' = [clients EXCEPT ![tunnels[srv][k].client] = "closed"]
           /\ generation' = generation
  <1>1. srv \in Names
    BY GoneTunnel
  <1>2. /\ \A n \in Names : n # srv => tunnels'[n] = tunnels[n]
        /\ tunnels'[srv] = [j \in DOMAIN tunnels[srv] \ {k} |-> tunnels[srv][j]]
    BY <1>1 DEF CloseGone, Without, GroupInv, ServicesInv
  <1>3. clients' = [clients EXCEPT ![tunnels[srv][k].client] = "closed"] /\ generation' = generation
    BY DEF CloseGone, Closed
  <1>. QED BY <1>2, <1>3

LEMMA TypeStep == GroupInv /\ [GroupNext]_groupVars => GroupTypeOK' /\ ClientsCloseOnce'
  <1>. SUFFICES ASSUME GroupInv, [GroupNext]_groupVars PROVE GroupTypeOK' /\ ClientsCloseOnce'
    OBVIOUS
  <1>0. GroupTypeOK /\ pc # "panicked"
    BY DEF GroupInv, ClientsCloseOnce
  <1>. USE DEF ClientsCloseOnce
  <1>1. CASE \E new \in SUBSET Infos : Reconcile(new)
    <2>. QED BY <1>0, <1>1 DEF Reconcile, tunnelVars, GroupTypeOK, Known
  <1>2. CASE \E i \in todo : NextService(i)
    <2>1. PICK i \in todo : NextService(i)
      BY <1>2
    <2>2. /\ pc = "services" /\ pc' = "ports" /\ wanted' = wanted /\ todo' = todo \ {i}
          /\ srv' = i.name /\ next' = 1 /\ srvGone' = Claimed(i) /\ apiEndpoint' = apiEndpoint
          /\ generation' = generation /\ clients' = clients
          /\ portsGone' = DOMAIN tunnels[i.name]
      BY <2>1 DEF NextService, Begin, tunnelVars
    <2>3. /\ i.name \in Names /\ ~serviceMap'[i.name].deleted /\ serviceMap'[i.name].name = i.name
          /\ \A n \in Names : n # i.name => serviceMap'[n] = serviceMap[n]
      BY <2>1, VisitedService
    <2>4. \A n \in Names : serviceMap'[n] # NoService =>
            serviceMap'[n].name = n /\ ~serviceMap'[n].deleted
      BY <1>0, <2>2, <2>3 DEF GroupTypeOK, Known
    <2>5. portsGone' \subseteq PortKeys
      BY <2>2, <2>3 DEF GroupInv, GenerationInv
    <2>6. srvGone' \subseteq Names
      BY <1>0, <2>2 DEF Claimed, GroupTypeOK
    <2>. QED BY <1>0, <2>2, <2>3, <2>4, <2>5, <2>6 DEF GroupTypeOK, Known
  <1>3. CASE ReconcilePort
    <2>1. /\ serviceMap' = serviceMap /\ pc' = pc /\ wanted' = wanted /\ todo' = todo
          /\ srvGone' = srvGone /\ srv' = srv /\ next' = next + 1 /\ apiEndpoint' = apiEndpoint
          /\ portsGone' \subseteq portsGone
      BY <1>3 DEF ReconcilePort
    <2>. DEFINE p == serviceMap[srv].ports[next]
    <2>2. srv \in Names /\ p.key \in PortKeys
      BY <1>3, NextPort, PortStep
    <2>3. /\ clients' \in [Clients -> {"none", "running", "closed"}]
          /\ generation' \in [Names -> [PortKeys -> 0..MaxGeneration]]
      <3>1. CASE clients' = clients /\ generation' = generation
        BY <1>0, <3>1 DEF GroupTypeOK
      <3>2. CASE \E c \in Clients :
                    /\ clients' = [clients EXCEPT ![c] = "running"]
                    /\ generation' = [generation EXCEPT ![srv][p.key] = @ + 1]
                    /\ generation[srv][p.key] + 1 \in 1..MaxGeneration
        <4>1. clients' \in [Clients -> {"none", "running", "closed"}]
          BY <1>0, <3>2 DEF GroupTypeOK
        <4>2. generation[srv][p.key] + 1 \in 0..MaxGeneration
          <5>1. generation[srv][p.key] + 1 \in 1..MaxGeneration /\ MaxGeneration \in Nat
            BY <3>2, GroupAssumption
          <5>. QED BY <5>1
        <4>3. generation' \in [Names -> [PortKeys -> 0..MaxGeneration]]
          <5>1. generation' = [generation EXCEPT ![srv] =
                                [generation[srv] EXCEPT ![p.key] = generation[srv][p.key] + 1]]
            BY <3>2
          <5>2. generation \in [Names -> [PortKeys -> 0..MaxGeneration]]
            BY <1>0 DEF GroupTypeOK
          <5>3. [generation[srv] EXCEPT ![p.key] = generation[srv][p.key] + 1]
                  \in [PortKeys -> 0..MaxGeneration]
            BY <2>2, <4>2, <5>2
          <5>. QED BY <2>2, <5>1, <5>2, <5>3
        <4>. QED BY <4>1, <4>3
      <3>. QED BY <1>3, <3>1, <3>2, PortStep
    <2>4. next + 1 \in Nat \ {0}
      BY <1>0 DEF GroupTypeOK
    <2>. QED BY <1>0, <2>1, <2>3, <2>4 DEF GroupTypeOK, Known
  <1>4. CASE SkipPort
    <2>1. next' \in Nat \ {0}
      BY <1>0, <1>4 DEF SkipPort, GroupTypeOK
    <2>. QED BY <1>0, <1>4, <2>1 DEF SkipPort, tunnelVars, GroupTypeOK, Known
  <1>5. CASE \E k \in portsGone : CloseGone(k)
    <2>1. PICK k \in portsGone : CloseGone(k)
      BY <1>5
    <2>2. pc = "ports" /\ pc' = "ports"
      BY <2>1, GoneTunnel
    <2>3. clients' \in [Clients -> {"none", "running", "closed"}]
      BY <1>0, <2>1, GoneStep DEF GroupTypeOK
    <2>. QED BY <1>0, <2>1, <2>2, <2>3 DEF CloseGone, GroupTypeOK, Known
  <1>6. CASE \E n \in srvGone : RemoveService(n)
    <2>1. PICK m \in srvGone : RemoveService(m)
      BY <1>6
    <2>2. /\ pc = "services" /\ pc' = "ports" /\ wanted' = wanted /\ todo' = todo
          /\ srv' = m /\ next' = 1 /\ srvGone' = srvGone \ {m} /\ apiEndpoint' = apiEndpoint
          /\ generation' = generation /\ clients' = clients
          /\ portsGone' = DOMAIN tunnels[m]
      BY <2>1 DEF RemoveService, Begin, tunnelVars
    <2>3. /\ m \in Names /\ serviceMap'[m].name = m
          /\ \A n \in Names : n # m => serviceMap'[n] = serviceMap[n]
      BY <2>1, MarkedService
    <2>4. \A n \in Names : serviceMap'[n] # NoService =>
            serviceMap'[n].name = n /\ (serviceMap'[n].deleted => n = m)
      BY <1>0, <2>2, <2>3 DEF GroupTypeOK, Known
    <2>5. portsGone' \subseteq PortKeys
      BY <2>2, <2>3 DEF GroupInv, GenerationInv
    <2>. QED BY <1>0, <2>2, <2>3, <2>4, <2>5 DEF GroupTypeOK, Known
  <1>7. CASE ServiceDone
    <2>1. /\ pc = "ports" /\ pc' = "services" /\ wanted' = wanted /\ UNCHANGED loopVars
          /\ UNCHANGED tunnelVars /\ apiEndpoint' = apiEndpoint
      BY <1>7 DEF ServiceDone
    <2>2. srv \in Names
      BY <1>0, <2>1 DEF GroupTypeOK
    <2>3. /\ serviceMap'[srv] = IF serviceMap[srv].deleted THEN NoService ELSE serviceMap[srv]
          /\ \A n \in Names : n # srv => serviceMap'[n] = serviceMap[n]
      BY <1>7, <2>2 DEF ServiceDone, GroupInv, ServicesInv
    <2>4. \A n \in Names : serviceMap'[n] # NoService =>
            serviceMap'[n].name = n /\ ~serviceMap'[n].deleted
      BY <1>0, <2>1, <2>2, <2>3 DEF GroupTypeOK, Known
    <2>. QED BY <1>0, <2>1, <2>4 DEF GroupTypeOK, Known, loopVars, tunnelVars
  <1>8. CASE Finish
    BY <1>0, <1>8 DEF Finish, loopVars, tunnelVars, GroupTypeOK, Known
  <1>9. CASE UNCHANGED groupVars
    BY <1>0, <1>9 DEF groupVars, loopVars, tunnelVars, GroupTypeOK, Known
  <1>. QED BY <1>1, <1>2, <1>3, <1>4, <1>5, <1>6, <1>7, <1>8, <1>9, Actions

LEMMA GenerationStep == GroupInv /\ [GroupNext]_groupVars => GenerationInv'
  <1>. SUFFICES ASSUME GroupInv, [GroupNext]_groupVars PROVE GenerationInv'
    OBVIOUS
  <1>0. GenerationInv /\ GroupTypeOK
    BY DEF GroupInv
  <1>1. CASE ReconcilePort
    <2>. DEFINE p == serviceMap[srv].ports[next]
                c == <<srv, p.key, generation[srv][p.key] + 1>>
    <2>1. srv \in Names /\ p.key \in PortKeys
      BY <1>1, NextPort, PortStep
    <2>2. \A n \in Names, k \in PortKeys : generation[n][k] \in Nat
      BY <1>0, GroupAssumption DEF GroupTypeOK
    <2>3. CASE /\ p.key \in DOMAIN tunnels[srv]
               /\ tunnels'[srv][p.key].client = tunnels[srv][p.key].client
               /\ clients' = clients /\ generation' = generation
      <3>1. ASSUME NEW n \in Names, NEW k \in DOMAIN tunnels'[n]
            PROVE  k \in DOMAIN tunnels[n] /\ tunnels'[n][k].client = tunnels[n][k].client
        <4>1. CASE n # srv
          BY <1>1, <4>1, PortStep
        <4>2. CASE n = srv /\ k # p.key
          BY <1>1, <4>2, PortStep
        <4>3. CASE n = srv /\ k = p.key
          BY <2>3, <4>3
        <4>. QED BY <4>1, <4>2, <4>3
      <3>2. \A n \in Names : \A k \in DOMAIN tunnels[n] :
              k \in PortKeys /\ \E g \in 1..generation[n][k] : tunnels[n][k].client = <<n, k, g>>
        BY <1>0 DEF GenerationInv
      <3>3. \A n \in Names, k \in PortKeys, g \in 1..MaxGeneration :
              clients[<<n, k, g>>] # "none" => g <= generation[n][k]
        BY <1>0 DEF GenerationInv
      <3>4. \A n \in Names : \A k \in DOMAIN tunnels'[n] :
              k \in PortKeys /\ \E g \in 1..generation'[n][k] : tunnels'[n][k].client = <<n, k, g>>
        BY <2>3, <3>1, <3>2
      <3>. QED BY <2>3, <3>3, <3>4 DEF GenerationInv
    <2>4. CASE /\ p.key \notin DOMAIN tunnels[srv]
               /\ tunnels'[srv][p.key].client = c
               /\ c \in Clients /\ generation[srv][p.key] + 1 \in 1..MaxGeneration
               /\ clients' = [clients EXCEPT ![c] = "running"]
               /\ generation' = [generation EXCEPT ![srv][p.key] = @ + 1]
      <3>1. /\ generation'[srv][p.key] = generation[srv][p.key] + 1
            /\ \A n \in Names, k \in PortKeys :
                n # srv \/ k # p.key => generation'[n][k] = generation[n][k]
        BY <1>0, <2>1, <2>4 DEF GroupTypeOK
      <3>2. \A n \in Names, k \in PortKeys : generation[n][k] <= generation'[n][k]
        BY <2>1, <2>2, <3>1
      <3>3. ASSUME NEW n \in Names, NEW k \in DOMAIN tunnels'[n]
            PROVE  /\ k \in PortKeys
                   /\ \E g \in 1..generation'[n][k] : tunnels'[n][k].client = <<n, k, g>>
        <4>1. CASE n # srv
          <5>1. tunnels'[n] = tunnels[n]
            BY <1>1, <4>1, PortStep
          <5>2. /\ k \in PortKeys
                /\ \E g \in 1..generation[n][k] : tunnels[n][k].client = <<n, k, g>>
            BY <1>0, <5>1 DEF GenerationInv
          <5>3. generation'[n][k] = generation[n][k]
            BY <3>1, <4>1, <5>2
          <5>. QED BY <5>1, <5>2, <5>3
        <4>2. CASE n = srv /\ k # p.key
          <5>1. k \in DOMAIN tunnels[n] /\ tunnels'[n][k] = tunnels[n][k]
            BY <1>1, <4>2, PortStep
          <5>2. /\ k \in PortKeys
                /\ \E g \in 1..generation[n][k] : tunnels[n][k].client = <<n, k, g>>
            BY <1>0, <2>1, <4>2, <5>1 DEF GenerationInv
          <5>3. generation'[n][k] = generation[n][k]
            BY <3>1, <4>2, <5>2, <2>1
          <5>. QED BY <5>1, <5>2, <5>3
        <4>3. CASE n = srv /\ k = p.key
          <5>1. generation'[n][k] \in 1..generation'[n][k]
            <6>1. generation[srv][p.key] \in Nat /\ generation'[n][k] = generation[srv][p.key] + 1
              BY <2>1, <2>2, <3>1, <4>3
            <6>. QED BY <6>1
          <5>. QED BY <2>1, <2>4, <3>1, <4>3, <5>1
        <4>. QED BY <4>1, <4>2, <4>3
      <3>4. ASSUME NEW n \in Names, NEW k \in PortKeys, NEW g \in 1..MaxGeneration,
                   clients'[<<n, k, g>>] # "none"
            PROVE  g <= generation'[n][k]
        <4>1. <<n, k, g>> \in Clients
          BY DEF Clients
        <4>2. CASE <<n, k, g>> = c
          <5>1. n = srv /\ k = p.key /\ g = generation[srv][p.key] + 1
            BY <4>2
          <5>2. generation[srv][p.key] \in Nat /\ generation'[n][k] = g
            BY <2>1, <2>2, <3>1, <5>1
          <5>. QED BY <5>1, <5>2
        <4>3. CASE <<n, k, g>> # c
          <5>1. clients'[<<n, k, g>>] = clients[<<n, k, g>>]
            BY <1>0, <2>4, <4>1, <4>3 DEF GroupTypeOK
          <5>2. g <= generation[n][k]
            BY <1>0, <3>4, <5>1 DEF GenerationInv
          <5>3. generation'[n][k] \in Nat
            <6>1. CASE n = srv /\ k = p.key
              BY <2>1, <2>2, <3>1, <6>1
            <6>2. CASE ~(n = srv /\ k = p.key)
              BY <2>2, <3>1, <6>2
            <6>. QED BY <6>1, <6>2
          <5>. QED BY <2>2, <3>2, <5>2, <5>3
        <4>. QED BY <4>2, <4>3
      <3>. QED BY <3>3, <3>4 DEF GenerationInv
    <2>. QED BY <1>1, <2>3, <2>4, PortStep
  <1>2. CASE \E k \in portsGone : CloseGone(k)
    <2>1. PICK k \in portsGone : CloseGone(k)
      BY <1>2
    <2>2. ASSUME NEW n \in Names, NEW j \in DOMAIN tunnels'[n]
          PROVE  j \in DOMAIN tunnels[n] /\ tunnels'[n][j] = tunnels[n][j]
      <3>1. CASE n = srv
        BY <2>1, <3>1, GoneStep
      <3>2. CASE n # srv
        BY <2>1, <3>2, GoneStep
      <3>. QED BY <3>1, <3>2
    <2>3. generation' = generation
      BY <2>1, GoneStep
    <2>. DEFINE c == tunnels[srv][k].client
    <2>4. \A x \in Clients : clients'[x] # "none" => clients[x] # "none"
      <3>1. clients' = [clients EXCEPT ![c] = "closed"] /\ clients[c] = "running"
        BY <2>1, GoneStep, GoneTunnel
      <3>. QED BY <1>0, <3>1 DEF GroupTypeOK
    <2>5. \A n \in Names, h \in PortKeys, g \in 1..MaxGeneration : <<n, h, g>> \in Clients
      BY DEF Clients
    <2>6. \A n \in Names : \A j \in DOMAIN tunnels'[n] :
            j \in PortKeys /\ \E g \in 1..generation'[n][j] : tunnels'[n][j].client = <<n, j, g>>
      BY <1>0, <2>2, <2>3 DEF GenerationInv
    <2>7. \A n \in Names, h \in PortKeys, g \in 1..MaxGeneration :
            clients'[<<n, h, g>>] # "none" => g <= generation'[n][h]
      BY <1>0, <2>3, <2>4, <2>5 DEF GenerationInv
    <2>. QED BY <2>6, <2>7 DEF GenerationInv
  <1>3. CASE UNCHANGED tunnelVars
    BY <1>0, <1>3 DEF GenerationInv, tunnelVars
  <1>. QED
    BY <1>1, <1>2, <1>3, Actions
    DEF Reconcile, NextService, SkipPort, RemoveService, ServiceDone, Finish, groupVars

(* The clients that some maps of tunnels refer to. *)
ReferencedBy(ts) == UNION {{ts[n][k].client : k \in DOMAIN ts[n]} : n \in Names}

(* A client is named by its tunnel, so only its own tunnel can refer to it.*)
LEMMA ReferencedAt ==
    ASSUME NEW ts, NEW n \in Names, NEW k, NEW g,
           \A m \in Names : \A j \in DOMAIN ts[m] : \E h \in Nat : ts[m][j].client = <<m, j, h>>
    PROVE  <<n, k, g>> \in ReferencedBy(ts)
              <=> k \in DOMAIN ts[n] /\ ts[n][k].client = <<n, k, g>>
  <1>1. ASSUME <<n, k, g>> \in ReferencedBy(ts)
        PROVE  k \in DOMAIN ts[n] /\ ts[n][k].client = <<n, k, g>>
    <2>1. PICK m \in Names : \E j \in DOMAIN ts[m] : ts[m][j].client = <<n, k, g>>
      BY <1>1 DEF ReferencedBy
    <2>2. PICK j \in DOMAIN ts[m] : ts[m][j].client = <<n, k, g>>
      BY <2>1
    <2>3. PICK h \in Nat : ts[m][j].client = <<m, j, h>>
      OBVIOUS
    <2>4. m = n /\ j = k
      BY <2>2, <2>3
    <2>. QED BY <2>2, <2>4
  <1>2. ASSUME k \in DOMAIN ts[n], ts[n][k].client = <<n, k, g>>
        PROVE  <<n, k, g>> \in ReferencedBy(ts)
    BY <1>2 DEF ReferencedBy
  <1>. QED BY <1>1, <1>2

LEMMA ClientNames ==
    ASSUME GroupInv, [GroupNext]_groupVars
    PROVE  /\ \A m \in Names : \A j \in DOMAIN tunnels[m] :
                \E h \in Nat : tunnels[m][j].client = <<m, j, h>>
           /\ \A m \in Names : \A j \in DOMAIN tunnels'[m] :
                \E h \in Nat : tunnels'[m][j].client = <<m, j, h>>
  <1>1. GenerationInv /\ GenerationInv' /\ GroupTypeOK /\ GroupTypeOK'
    BY GenerationStep, TypeStep DEF GroupInv
  <1>2. ASSUME NEW m \in Names, NEW j \in PortKeys
        PROVE  generation[m][j] \in Nat /\ generation'[m][j] \in Nat
    BY <1>1, GroupAssumption DEF GroupTypeOK
  <1>3. \A h, x : x \in Nat /\ h \in 1..x => h \in Nat
    OBVIOUS
  <1>. QED BY <1>1, <1>2, <1>3 DEF GenerationInv

LEMMA RunningStep == GroupInv /\ [GroupNext]_groupVars => RunningIffReferenced'
  <1>. SUFFICES ASSUME GroupInv, [GroupNext]_groupVars PROVE RunningIffReferenced'
    OBVIOUS
  <1>0. GroupTypeOK /\ RunningIffReferenced /\ GenerationInv
    BY DEF GroupInv
  <1>1. CASE UNCHANGED tunnelVars
    BY <1>0, <1>1 DEF RunningIffReferenced, Referenced, tunnelVars
  <1>2. CASE ReconcilePort \/ \E k \in portsGone : CloseGone(k)
    <2>1. SUFFICES ASSUME NEW n \in Names, NEW k \in PortKeys, NEW g \in 1..MaxGeneration
                   PROVE  clients'[<<n, k, g>>] = "running"
                            <=> <<n, k, g>> \in ReferencedBy(tunnels')
      <3>1. ASSUME NEW x \in Clients PROVE clients'[x] = "running" <=> x \in ReferencedBy(tunnels')
        <4>1. PICK n \in Names, k \in PortKeys, g \in 1..MaxGeneration : x = <<n, k, g>>
          BY DEF Clients
        <4>. QED BY <2>1, <4>1
      <3>. QED BY <3>1 DEF RunningIffReferenced, Referenced, ReferencedBy
    <2>. DEFINE x == <<n, k, g>>
    <2>2. x \in Clients
      BY DEF Clients
    <2>3. clients[x] = "running" <=> k \in DOMAIN tunnels[n] /\ tunnels[n][k].client = x
      <3>1. clients[x] = "running" <=> x \in ReferencedBy(tunnels)
        BY <1>0, <2>2 DEF RunningIffReferenced, Referenced, ReferencedBy
      <3>. QED BY <3>1, ClientNames, ReferencedAt
    <2>4. x \in ReferencedBy(tunnels') <=> k \in DOMAIN tunnels'[n] /\ tunnels'[n][k].client = x
      BY ClientNames, ReferencedAt
    <2>5. CASE ReconcilePort
      <3>. DEFINE p == serviceMap[srv].ports[next]
                  c == <<srv, p.key, generation[srv][p.key] + 1>>
      <3>1. CASE n # srv \/ k # p.key
        <4>1. /\ k \in DOMAIN tunnels'[n] <=> k \in DOMAIN tunnels[n]
              /\ k \in DOMAIN tunnels[n] => tunnels'[n][k] = tunnels[n][k]
          <5>1. CASE n # srv
            BY <2>5, <5>1, PortStep
          <5>2. CASE n = srv /\ k # p.key
            BY <2>5, <5>2, PortStep
          <5>. QED BY <3>1, <5>1, <5>2
        <4>2. x # c
          BY <3>1
        <4>3. clients'[x] = clients[x]
          BY <1>0, <2>2, <2>5, <4>2, PortStep DEF GroupTypeOK
        <4>. QED BY <2>3, <2>4, <4>1, <4>3
      <3>2. CASE n = srv /\ k = p.key /\ k \in DOMAIN tunnels[n]
        <4>1. /\ k \in DOMAIN tunnels'[n] /\ tunnels'[n][k].client = tunnels[n][k].client
              /\ clients' = clients
          BY <2>5, <3>2, PortStep
        <4>. QED BY <2>3, <2>4, <3>2, <4>1
      <3>3. CASE n = srv /\ k = p.key /\ k \notin DOMAIN tunnels[n]
        <4>1. /\ k \in DOMAIN tunnels'[n] /\ tunnels'[n][k].client = c /\ c \in Clients
              /\ clients' = [clients EXCEPT ![c] = "running"]
          BY <2>5, <3>3, PortStep
        <4>2. clients'[x] = IF x = c THEN "running" ELSE clients[x]
          BY <1>0, <2>2, <4>1 DEF GroupTypeOK
        <4>3. clients[x] # "running"
          BY <2>3, <3>3
        <4>. QED BY <2>4, <4>1, <4>2, <4>3
      <3>. QED BY <3>1, <3>2, <3>3
    <2>6. ASSUME NEW q \in portsGone, CloseGone(q)
          PROVE  clients'[x] = "running" <=> x \in ReferencedBy(tunnels')
      <3>. DEFINE c == tunnels[srv][q].client
      <3>1. PICK h \in 1..MaxGeneration : c = <<srv, q, h>>
        BY <2>6, GoneTunnel
      <3>2. clients'[x] = IF x = c THEN "closed" ELSE clients[x]
        BY <1>0, <2>2, <2>6, GoneStep DEF GroupTypeOK
      <3>3. CASE n # srv \/ k # q
        <4>1. /\ k \in DOMAIN tunnels'[n] <=> k \in DOMAIN tunnels[n]
              /\ k \in DOMAIN tunnels[n] => tunnels'[n][k] = tunnels[n][k]
          <5>1. CASE n # srv
            BY <2>6, <5>1, GoneStep
          <5>2. CASE n = srv /\ k # q
            BY <2>6, <5>2, GoneStep
          <5>. QED BY <3>3, <5>1, <5>2
        <4>2. x # c
          BY <3>1, <3>3
        <4>. QED BY <2>3, <2>4, <3>2, <4>1, <4>2
      <3>4. CASE n = srv /\ k = q
        <4>1. k \notin DOMAIN tunnels'[n]
          BY <2>6, <3>4, GoneStep
        <4>2. k \in DOMAIN tunnels[n]
          BY <2>6, <3>4, GoneTunnel
        <4>3. clients'[x] # "running"
          <5>1. CASE x = c
            BY <3>2, <5>1
          <5>2. CASE x # c
            <6>1. clients[x] # "running"
              BY <2>3, <3>4, <5>2
            <6>. QED BY <3>2, <5>2, <6>1
          <5>. QED BY <5>1, <5>2
        <4>. QED BY <2>4, <4>1, <4>3
      <3>. QED BY <3>3, <3>4
    <2>. QED BY <1>2, <2>5, <2>6
  <1>. QED
    BY <1>1, <1>2, Actions
    DEF Reconcile, NextService, SkipPort, RemoveService, ServiceDone, Finish, groupVars

(* The end of the loop over the ports agrees with all of them. *)
LEMMA AgreeAtEnd ==
    ASSUME NEW ts, NEW ports, NEW ips, NEW e \in Nat, NEW f \in Nat,
           Len(ports) \in Nat, DOMAIN ports = 1..Len(ports),
           e > Len(ports), f > Len(ports), AgreeWith(ts, ports, ips, e)
    PROVE  AgreeWith(ts, ports, ips, f)
  BY DEF AgreeWith

(* Its beginning agrees with none yet. *)
LEMMA AgreeAtStart ==
    ASSUME NEW ts, NEW ports, NEW ips,
           Len(ports) \in Nat, DOMAIN ports = 1..Len(ports),
           DOMAIN ts \subseteq IF apiEndpoint = "valid" THEN KeysOf(ports) ELSE {}
    PROVE  AgreeWith(ts, ports, ips, 1)
  BY DEF AgreeWith

(* A service agrees with its tunnels after the step if neither changes. *)
LEMMA AgreesStay ==
    ASSUME NEW n \in Names, ServicesInv, apiEndpoint' = apiEndpoint,
           Agrees(n, Len(serviceMap[n].ports) + 1),
           tunnels'[n] = tunnels[n],
           serviceMap'[n].ports = serviceMap[n].ports,
           serviceMap'[n].backendIPs = serviceMap[n].backendIPs
    PROVE  Agrees(n, Len(serviceMap[n].ports) + 1)'
  BY DEF Agrees, AgreeWith

(* When a pass begins, the tunnels agree with no port yet, and each has a  *)
(* port.                                                                   *)
LEMMA PassBegins ==
    ASSUME GroupInv, pc # "ports", NEW n \in Names, NEW ports, NEW ips,
           Len(ports) \in Nat, DOMAIN ports = 1..Len(ports),
           Known(n) => ports = serviceMap[n].ports
    PROVE  /\ AgreeWith(tunnels[n], ports, ips, 1)
           /\ DOMAIN tunnels[n] \subseteq KeysOf(ports)
  <1>1. DOMAIN tunnels[n] \subseteq
            IF apiEndpoint = "valid" THEN KeysOf(serviceMap[n].ports) ELSE {}
    BY DEF GroupInv, TunnelsInv, Agrees, AgreeWith
  <1>2. DOMAIN tunnels[n] \subseteq IF apiEndpoint = "valid" THEN KeysOf(ports) ELSE {}
    <2>1. CASE Known(n)
      BY <1>1, <2>1
    <2>2. CASE ~Known(n)
      <3>1. serviceMap[n] = NoService
        BY <2>2 DEF Known
      <3>2. NoService.ports = <<>>
        BY DEF NoService
      <3>3. KeysOf(<<>>) = {}
        BY DEF KeysOf
      <3>. QED BY <1>1, <3>1, <3>2, <3>3
    <2>. QED BY <2>1, <2>2
  <1>3. AgreeWith(tunnels[n], ports, ips, 1)
    BY <1>2, AgreeAtStart
  <1>4. DOMAIN tunnels[n] \subseteq KeysOf(ports)
    BY <1>2
  <1>. QED BY <1>3, <1>4

(* The port that is next, done: the tunnels agree up to it.  They may have *)
(* kept its tunnel, got one, or be left without.                           *)
LEMMA AgreeNext ==
    ASSUME NEW ts, NEW us, NEW ports, NEW ips, NEW e \in DOMAIN ports,
           DOMAIN ports = 1..Len(ports), Len(ports) \in Nat,
           AgreeWith(ts, ports, ips, e),
           \/ /\ DOMAIN us = DOMAIN ts \cup {ports[e].key}
              /\ \A k \in DOMAIN ts : k # ports[e].key => us[k] = ts[k]
              /\ us[ports[e].key].addresses = ips
              /\ us[ports[e].key].targetPort = ports[e].targetPort
              /\ ports[e].key \in DOMAIN ts \/ apiEndpoint = "valid"
           \/ us = ts /\ ports[e].key \notin DOMAIN ts /\ apiEndpoint # "valid"
    PROVE  AgreeWith(us, ports, ips, e + 1)
  <1>1. e \in Nat
    OBVIOUS
  <1>2. CASE us = ts /\ ports[e].key \notin DOMAIN ts /\ apiEndpoint # "valid"
    BY <1>1, <1>2 DEF AgreeWith
  <1>3. CASE /\ DOMAIN us = DOMAIN ts \cup {ports[e].key}
             /\ \A k \in DOMAIN ts : k # ports[e].key => us[k] = ts[k]
             /\ us[ports[e].key].addresses = ips
             /\ us[ports[e].key].targetPort = ports[e].targetPort
             /\ ports[e].key \in DOMAIN ts \/ apiEndpoint = "valid"
    <2>1. DOMAIN us \subseteq IF apiEndpoint = "valid" THEN KeysOf(ports) ELSE {}
      BY <1>3 DEF AgreeWith, KeysOf
    <2>2. ASSUME NEW j \in DOMAIN ports, j < e + 1
          PROVE  /\ apiEndpoint = "valid" => ports[j].key \in DOMAIN us
                 /\ ports[j].key \in DOMAIN us =>
                     /\ us[ports[j].key].addresses = ips
                     /\ (\A m \in DOMAIN ports : m < e + 1 /\ ports[m].key = ports[j].key => m <= j)
                         => us[ports[j].key].targetPort = ports[j].targetPort
      <3>1. CASE j = e
        BY <1>3, <3>1
      <3>2. CASE j < e /\ ports[j].key = ports[e].key
        <4>1. e < e + 1 /\ ~(e <= j)
          BY <1>1, <3>2
        <4>. QED BY <1>3, <3>2, <4>1
      <3>3. CASE j < e /\ ports[j].key # ports[e].key
        <4>1. /\ apiEndpoint = "valid" => ports[j].key \in DOMAIN ts
              /\ ports[j].key \in DOMAIN ts =>
                  /\ ts[ports[j].key].addresses = ips
                  /\ (\A m \in DOMAIN ports : m < e /\ ports[m].key = ports[j].key => m <= j)
                      => ts[ports[j].key].targetPort = ports[j].targetPort
          BY <3>3 DEF AgreeWith
        <4>2. \A m \in DOMAIN ports : m < e + 1 => m < e \/ m = e
          BY <1>1
        <4>3. \A m \in DOMAIN ports : m < e => m < e + 1
          BY <1>1
        <4>. QED BY <1>3, <3>3, <4>1, <4>2, <4>3
      <3>. QED BY <1>1, <2>2, <3>1, <3>2, <3>3
    <2>. QED BY <2>1, <2>2 DEF AgreeWith
  <1>. QED BY <1>2, <1>3

LEMMA AllPortsAreSeq ==
    ServicesInv => \A n \in Names :
        /\ Len(serviceMap[n].ports) \in Nat
        /\ DOMAIN serviceMap[n].ports = 1..Len(serviceMap[n].ports)
  BY PortsAreSeq

LEMMA AllPortsStaySeq ==
    ServicesInv' => (\A n \in Names :
        /\ Len(serviceMap[n].ports) \in Nat
        /\ DOMAIN serviceMap[n].ports = 1..Len(serviceMap[n].ports))'
  BY AllPortsAreSeq, PTL

LEMMA TunnelsStep == GroupInv /\ [GroupNext]_groupVars => TunnelsInv'
  <1>. SUFFICES ASSUME GroupInv, [GroupNext]_groupVars PROVE TunnelsInv'
    OBVIOUS
  <1>0. GroupTypeOK /\ ServicesInv /\ TunnelsInv /\ LoopInv
    BY DEF GroupInv
  <1>a. apiEndpoint' = apiEndpoint
    BY Actions DEF Reconcile, NextService, ReconcilePort, SkipPort, CloseGone, RemoveService,
        ServiceDone, Finish, groupVars
  <1>b. \A n \in Names : /\ Len(serviceMap[n].ports) \in Nat
                         /\ DOMAIN serviceMap[n].ports = 1..Len(serviceMap[n].ports)
    BY <1>0, AllPortsAreSeq
  <1>c. \A n \in Names : /\ Len(serviceMap'[n].ports) \in Nat
                         /\ DOMAIN serviceMap'[n].ports = 1..Len(serviceMap'[n].ports)
    BY ServicesStep, AllPortsStaySeq
  <1>d. ASSUME NEW n \in Names, pc # "ports" \/ n # srv, tunnels'[n] = tunnels[n],
               serviceMap'[n] = serviceMap[n]
        PROVE  Agrees(n, Len(serviceMap[n].ports) + 1)'
    BY <1>0, <1>a, <1>d, AgreesStay DEF TunnelsInv
  <1>1. CASE /\ UNCHANGED <<serviceMap, tunnels>> /\ pc # "ports" /\ pc' # "ports"
    BY <1>1, <1>d DEF TunnelsInv
  <1>2. CASE \E i \in todo : NextService(i)
    <2>1. PICK i \in todo : NextService(i)
      BY <1>2
    <2>2. /\ pc = "services" /\ pc' = "ports" /\ srv' = i.name /\ next' = 1
          /\ tunnels' = tunnels /\ portsGone' = DOMAIN tunnels[i.name]
      BY <2>1 DEF NextService, Begin, tunnelVars
    <2>3. /\ i.name \in Names /\ ~serviceMap'[i.name].deleted
          /\ Known(i.name) => serviceMap'[i.name] = serviceMap[i.name]
          /\ \A n \in Names : n # i.name => serviceMap'[n] = serviceMap[n]
      BY <2>1, VisitedService
    <2>4. \A n \in Names : n # i.name => Agrees(n, Len(serviceMap[n].ports) + 1)'
      BY <1>d, <2>2, <2>3
    <2>. DEFINE ports == serviceMap'[i.name].ports
                ips == serviceMap'[i.name].backendIPs
    <2>5. /\ AgreeWith(tunnels[i.name], ports, ips, 1)
          /\ \A k \in DOMAIN tunnels[i.name] : \E j \in DOMAIN ports : j >= 1 /\ ports[j].key = k
      <3>1. /\ Len(ports) \in Nat /\ DOMAIN ports = 1..Len(ports)
            /\ Known(i.name) => ports = serviceMap[i.name].ports
        BY <1>c, <2>3
      <3>2. pc # "ports" /\ i.name \in Names
        BY <2>2, <2>3
      <3>. DEFINE n == i.name
      <3>3. /\ n \in Names /\ Len(ports) \in Nat /\ DOMAIN ports = 1..Len(ports)
            /\ Known(n) => ports = serviceMap[n].ports
        BY <3>1, <3>2
      <3>. HIDE DEF ports, ips, n
      <3>4. AgreeWith(tunnels[n], ports, ips, 1)
        BY <3>2, <3>3, PassBegins
      <3>5. DOMAIN tunnels[n] \subseteq KeysOf(ports)
        BY <3>2, <3>3, PassBegins
      <3>6. \A j \in DOMAIN ports : j >= 1
        BY <3>3
      <3>7. \A k \in DOMAIN tunnels[n] : \E j \in DOMAIN ports : j >= 1 /\ ports[j].key = k
        BY <3>5, <3>6 DEF KeysOf
      <3>. QED BY <3>4, <3>7 DEF n
    <2>6. Agrees(srv, next)'
      BY <1>a, <2>2, <2>5 DEF Agrees, AgreeWith
    <2>. QED BY <2>2, <2>3, <2>4, <2>5, <2>6 DEF TunnelsInv
  <1>3. CASE \E n \in srvGone : RemoveService(n)
    <2>1. PICK m \in srvGone : RemoveService(m)
      BY <1>3
    <2>2. /\ pc = "services" /\ pc' = "ports" /\ srv' = m
          /\ tunnels' = tunnels /\ portsGone' = DOMAIN tunnels[m]
      BY <2>1 DEF RemoveService, Begin, tunnelVars
    <2>3. /\ m \in Names /\ serviceMap'[m].deleted
          /\ \A n \in Names : n # m => serviceMap'[n] = serviceMap[n]
      BY <2>1, MarkedService
    <2>4. \A n \in Names : n # m => Agrees(n, Len(serviceMap[n].ports) + 1)'
      BY <1>d, <2>2, <2>3
    <2>. QED BY <2>2, <2>3, <2>4 DEF TunnelsInv
  <1>4. CASE ServiceDone
    <2>1. /\ pc = "ports" /\ pc' = "services" /\ PortsDone /\ portsGone = {}
          /\ tunnels' = tunnels
      BY <1>4 DEF ServiceDone, tunnelVars
    <2>2. srv \in Names /\ next \in Nat
      BY <1>0, <2>1 DEF GroupTypeOK
    <2>3. /\ serviceMap'[srv] = IF serviceMap[srv].deleted THEN NoService ELSE serviceMap[srv]
          /\ \A n \in Names : n # srv => serviceMap'[n] = serviceMap[n]
      BY <1>0, <1>4, <2>2 DEF ServiceDone, ServicesInv
    <2>4. \A n \in Names : n # srv => Agrees(n, Len(serviceMap[n].ports) + 1)'
      BY <1>d, <2>1, <2>3
    <2>5. CASE serviceMap[srv].deleted
      <3>1. DOMAIN tunnels[srv] = {}
        BY <1>0, <2>1, <2>5 DEF TunnelsInv
      <3>2. serviceMap'[srv].ports = <<>>
        <4>1. NoService.ports = <<>>
          BY DEF NoService
        <4>. QED BY <2>3, <2>5, <4>1
      <3>3. DOMAIN <<>> = {}
        OBVIOUS
      <3>4. Agrees(srv, Len(serviceMap[srv].ports) + 1)'
        <4>1. srv' = srv
          BY <1>4 DEF ServiceDone, loopVars
        <4>2. DOMAIN serviceMap'[srv].ports = {} /\ DOMAIN tunnels'[srv] = {}
          BY <2>1, <3>1, <3>2, <3>3
        <4>. QED BY <4>1, <4>2 DEF Agrees, AgreeWith
      <3>5. srv' = srv
        BY <1>4 DEF ServiceDone, loopVars
      <3>6. \A n \in Names : Agrees(n, Len(serviceMap[n].ports) + 1)'
        BY <2>4, <3>4, <3>5
      <3>. QED BY <2>1, <3>6 DEF TunnelsInv
    <2>6. CASE ~serviceMap[srv].deleted
      <3>1. serviceMap' = serviceMap /\ srv' = srv
        BY <1>4, <2>6 DEF ServiceDone, loopVars
      <3>2. Agrees(srv, next) /\ next > Len(serviceMap[srv].ports)
        BY <1>0, <2>1, <2>6 DEF TunnelsInv, PortsDone
      <3>3. Len(serviceMap[srv].ports) + 1 \in Nat
            /\ Len(serviceMap[srv].ports) + 1 > Len(serviceMap[srv].ports)
        BY <1>b, <2>2
      <3>4. Agrees(srv, Len(serviceMap[srv].ports) + 1)
        <4>. DEFINE ports == serviceMap[srv].ports
                    e == Len(ports) + 1
        <4>1. /\ Len(ports) \in Nat /\ DOMAIN ports = 1..Len(ports)
              /\ AgreeWith(tunnels[srv], ports, serviceMap[srv].backendIPs, next)
              /\ next \in Nat /\ e \in Nat /\ next > Len(ports) /\ e > Len(ports)
          BY <1>b, <2>2, <3>2, <3>3 DEF Agrees
        <4>2. AgreeWith(tunnels[srv], ports, serviceMap[srv].backendIPs, e)
          <5>. HIDE DEF ports, e
          <5>. QED BY <4>1, AgreeAtEnd
        <4>. QED BY <4>2 DEF Agrees
      <3>5. Agrees(srv, Len(serviceMap[srv].ports) + 1)'
        BY <1>a, <2>1, <2>2, <1>0, <3>1, <3>4, AgreesStay
      <3>6. \A n \in Names : Agrees(n, Len(serviceMap[n].ports) + 1)'
        BY <2>4, <3>1, <3>5
      <3>. QED BY <2>1, <3>6 DEF TunnelsInv
    <2>. QED BY <2>5, <2>6
  <1>5. CASE ReconcilePort \/ SkipPort
    <2>1. /\ pc = "ports" /\ pc' = "ports" /\ ~PortsDone /\ srv' = srv /\ next' = next + 1
          /\ serviceMap' = serviceMap
      BY <1>5 DEF ReconcilePort, SkipPort
    <2>. DEFINE ports == serviceMap[srv].ports
                p == ports[next]
                ips == serviceMap[srv].backendIPs
    <2>2. /\ srv \in Names /\ ~serviceMap[srv].deleted /\ next \in DOMAIN ports
          /\ p.key \in PortKeys
      BY <2>1, NextPort
    <2>3. \A n \in Names : n # srv => tunnels'[n] = tunnels[n]
      BY <1>5, PortStep DEF SkipPort, tunnelVars
    <2>4. \A n \in Names : n # srv => Agrees(n, Len(serviceMap[n].ports) + 1)'
      BY <1>d, <2>1, <2>3
    <2>5. /\ Agrees(srv, next)
          /\ portsGone \subseteq DOMAIN tunnels[srv]
          /\ \A k \in portsGone : \E j \in DOMAIN ports : j >= next /\ ports[j].key = k
      BY <1>0, <2>1, <2>2 DEF TunnelsInv
    <2>6. \/ /\ DOMAIN tunnels'[srv] = DOMAIN tunnels[srv] \cup {p.key}
             /\ \A k \in DOMAIN tunnels[srv] : k # p.key => tunnels'[srv][k] = tunnels[srv][k]
             /\ tunnels'[srv][p.key].addresses = ips
             /\ tunnels'[srv][p.key].targetPort = p.targetPort
             /\ p.key \in DOMAIN tunnels[srv] \/ apiEndpoint = "valid"
             /\ portsGone' = portsGone \ {p.key}
          \/ /\ tunnels'[srv] = tunnels[srv] /\ p.key \notin DOMAIN tunnels[srv]
             /\ apiEndpoint # "valid" /\ portsGone' = portsGone
      <3>1. CASE ReconcilePort
        <4>1. portsGone' = portsGone \ {p.key}
          BY <3>1 DEF ReconcilePort
        <4>. QED BY <3>1, <4>1, PortStep
      <3>2. CASE SkipPort
        BY <3>2 DEF SkipPort, tunnelVars, Found
      <3>. QED BY <1>5, <3>1, <3>2
    <2>7. AgreeWith(tunnels'[srv], ports, ips, next + 1)
      <3>. DEFINE us == tunnels'[srv]
                  ts == tunnels[srv]
      <3>1. /\ AgreeWith(ts, ports, ips, next) /\ next \in DOMAIN ports
            /\ Len(ports) \in Nat /\ DOMAIN ports = 1..Len(ports)
        BY <1>b, <2>2, <2>5 DEF Agrees
      <3>2. \/ /\ DOMAIN us = DOMAIN ts \cup {ports[next].key}
               /\ \A k \in DOMAIN ts : k # ports[next].key => us[k] = ts[k]
               /\ us[ports[next].key].addresses = ips
               /\ us[ports[next].key].targetPort = ports[next].targetPort
               /\ ports[next].key \in DOMAIN ts \/ apiEndpoint = "valid"
            \/ us = ts /\ ports[next].key \notin DOMAIN ts /\ apiEndpoint # "valid"
        BY <2>6
      <3>. HIDE DEF us, ts, ports, ips
      <3>3. AgreeWith(us, ports, ips, next + 1)
        BY <3>1, <3>2, AgreeNext
      <3>. QED BY <3>3 DEF us
    <2>8. Agrees(srv, next)'
      BY <1>a, <2>1, <2>7 DEF Agrees, AgreeWith
    <2>9. /\ portsGone' \subseteq DOMAIN tunnels'[srv]
          /\ \A k \in portsGone' : k # p.key
          /\ portsGone' \subseteq portsGone
      BY <2>5, <2>6
    <2>10. \A k \in portsGone' : \E j \in DOMAIN ports : j >= next + 1 /\ ports[j].key = k
      <3>1. TAKE k \in portsGone'
      <3>2. PICK j \in DOMAIN ports : j >= next /\ ports[j].key = k
        BY <2>5, <2>9
      <3>3. j # next
        BY <2>9, <3>2
      <3>4. j \in Nat /\ next \in Nat
        BY <1>b, <2>2
      <3>. QED BY <3>2, <3>3, <3>4
    <2>. QED BY <2>1, <2>2, <2>4, <2>8, <2>9, <2>10 DEF TunnelsInv
  <1>6. CASE \E k \in portsGone : CloseGone(k)
    <2>1. PICK k \in portsGone : CloseGone(k)
      BY <1>6
    <2>2. /\ srv \in Names /\ serviceMap[srv].deleted /\ pc = "ports" /\ pc' = "ports"
          /\ DOMAIN tunnels[srv] = portsGone
      BY <2>1, GoneTunnel
    <2>3. srv' = srv /\ serviceMap' = serviceMap /\ portsGone' = portsGone \ {k}
      BY <2>1 DEF CloseGone
    <2>4. /\ \A n \in Names : n # srv => tunnels'[n] = tunnels[n]
          /\ DOMAIN tunnels'[srv] = portsGone'
      BY <2>1, <2>2, <2>3, GoneStep
    <2>5. \A n \in Names : n # srv => Agrees(n, Len(serviceMap[n].ports) + 1)'
      BY <1>d, <2>3, <2>4
    <2>. QED BY <2>2, <2>3, <2>4, <2>5 DEF TunnelsInv
  <1>7. CASE UNCHANGED groupVars
    <2>1. UNCHANGED <<apiEndpoint, serviceMap, tunnels, pc, srv, next, portsGone>>
      BY <1>7 DEF groupVars, tunnelVars, loopVars
    <2>2. ASSUME NEW n \in Names, pc # "ports" \/ n # srv
          PROVE  Agrees(n, Len(serviceMap[n].ports) + 1)'
      BY <1>d, <2>1, <2>2
    <2>3. pc = "ports" /\ ~serviceMap[srv].deleted => (Agrees(srv, next)' <=> Agrees(srv, next))
      BY <2>1 DEF Agrees, AgreeWith
    <2>. QED BY <1>0, <2>1, <2>2, <2>3 DEF TunnelsInv
  <1>8. CASE (\E new \in SUBSET Infos : Reconcile(new)) \/ Finish
    BY <1>1, <1>8 DEF Reconcile, Finish, tunnelVars
  <1>. QED BY <1>2, <1>3, <1>4, <1>5, <1>6, <1>7, <1>8, Actions

-----------------------------------------------------------------------------

(* GroupInv holds in every reachable state. *)
THEOREM GroupInvariance == GroupSpec => []GroupInv
  <1>1. GroupInv /\ [GroupNext]_groupVars => GroupInv'
    BY TypeStep, ServicesStep, GenerationStep, LoopStep, TunnelsStep, RunningStep DEF GroupInv
  <1>. QED BY <1>1, GroupStart, PTL DEF GroupSpec

(* Type correctness: the map has a service under its own name, only one    *)
(* that is going is marked, and every variable has a value of its type.    *)
THEOREM GroupTypeCorrect == GroupSpec => []GroupTypeOK
  <1>1. GroupInv => GroupTypeOK
    BY DEF GroupInv
  <1>. QED BY <1>1, GroupInvariance, PTL

(* The clients that run are the ones the maps of tunnels refer to, at      *)
(* every step, however many services come and go.                          *)
THEOREM RunningIsReferenced == GroupSpec => []RunningIffReferenced
  <1>1. GroupInv => RunningIffReferenced
    BY DEF GroupInv
  <1>. QED BY <1>1, GroupInvariance, PTL

(* No client is closed a second time: CloseGone finds every client it      *)
(* closes running, because a client that was closed has left the map and   *)
(* no tunnel gets a client that was started before.                        *)
THEOREM NoClientClosesTwice == GroupSpec => []ClientsCloseOnce
  <1>1. GroupInv => ClientsCloseOnce
    BY DEF GroupInv
  <1>. QED BY <1>1, GroupInvariance, PTL

(* When a reconciliation has ended, the group has the services that were   *)
(* asked for, and the tunnels follow their entries, port by port: the      *)
(* loops have claimed, started or closed every tunnel.                     *)
THEOREM TunnelsAreCurrent == GroupSpec => []TunnelsFollowServices
  <1>1. ASSUME GroupInv, pc = "idle"
        PROVE  /\ {n \in Names : Known(n)} = NamesOf(wanted)
               /\ \A n \in Names :
                    /\ DOMAIN tunnels[n] =
                        IF apiEndpoint = "valid" THEN KeysOf(serviceMap[n].ports) ELSE {}
                    /\ \A k \in DOMAIN tunnels[n] :
                        tunnels[n][k].addresses = serviceMap[n].backendIPs
                    /\ \A j \in DOMAIN serviceMap[n].ports :
                        /\ serviceMap[n].ports[j].key \in DOMAIN tunnels[n]
                        /\ LastOfKey(serviceMap[n].ports, j)
                        => tunnels[n][serviceMap[n].ports[j].key].targetPort =
                            serviceMap[n].ports[j].targetPort
    <2>1. {n \in Names : Known(n)} = NamesOf(wanted)
      BY <1>1 DEF GroupInv, LoopInv
    <2>2. ASSUME NEW n \in Names
          PROVE  /\ DOMAIN tunnels[n] =
                    IF apiEndpoint = "valid" THEN KeysOf(serviceMap[n].ports) ELSE {}
                 /\ \A k \in DOMAIN tunnels[n] :
                    tunnels[n][k].addresses = serviceMap[n].backendIPs
                 /\ \A j \in DOMAIN serviceMap[n].ports :
                    /\ serviceMap[n].ports[j].key \in DOMAIN tunnels[n]
                    /\ LastOfKey(serviceMap[n].ports, j)
                    => tunnels[n][serviceMap[n].ports[j].key].targetPort =
                        serviceMap[n].ports[j].targetPort
      <3>. DEFINE ports == serviceMap[n].ports
      <3>1. Len(ports) \in Nat /\ DOMAIN ports = 1..Len(ports)
        BY <1>1, PortsAreSeq DEF GroupInv
      <3>2. AgreeWith(tunnels[n], ports, serviceMap[n].backendIPs, Len(ports) + 1)
        BY <1>1 DEF GroupInv, TunnelsInv, Agrees
      <3>3. \A j \in DOMAIN ports : j < Len(ports) + 1
        BY <3>1
      <3>. HIDE DEF ports
      <3>5. /\ DOMAIN tunnels[n] = IF apiEndpoint = "valid" THEN KeysOf(ports) ELSE {}
            /\ \A k \in DOMAIN tunnels[n] : tunnels[n][k].addresses = serviceMap[n].backendIPs
            /\ \A j \in DOMAIN ports :
                /\ ports[j].key \in DOMAIN tunnels[n]
                /\ LastOfKey(ports, j)
                => tunnels[n][ports[j].key].targetPort = ports[j].targetPort
        <4>1. DOMAIN tunnels[n] \subseteq IF apiEndpoint = "valid" THEN KeysOf(ports) ELSE {}
          BY <3>2 DEF AgreeWith
        <4>2. ASSUME NEW j \in DOMAIN ports
              PROVE  /\ apiEndpoint = "valid" => ports[j].key \in DOMAIN tunnels[n]
                     /\ ports[j].key \in DOMAIN tunnels[n] =>
                        /\ tunnels[n][ports[j].key].addresses = serviceMap[n].backendIPs
                        /\ LastOfKey(ports, j) =>
                            tunnels[n][ports[j].key].targetPort = ports[j].targetPort
          BY <3>2, <3>3 DEF AgreeWith, LastOfKey
        <4>3. \A k \in DOMAIN tunnels[n] : \E j \in DOMAIN ports : ports[j].key = k
          BY <4>1 DEF KeysOf
        <4>4. \A k \in DOMAIN tunnels[n] : tunnels[n][k].addresses = serviceMap[n].backendIPs
          BY <4>2, <4>3
        <4>5. apiEndpoint = "valid" => KeysOf(ports) \subseteq DOMAIN tunnels[n]
          BY <4>2 DEF KeysOf
        <4>6. DOMAIN tunnels[n] = IF apiEndpoint = "valid" THEN KeysOf(ports) ELSE {}
          BY <4>1, <4>5
        <4>. QED BY <4>2, <4>4, <4>6
      <3>. QED BY <3>5 DEF ports
    <2>. QED BY <2>1, <2>2
  <1>2. GroupInv => TunnelsFollowServices
    BY <1>1 DEF TunnelsFollowServices
  <1>. QED BY <1>2, GroupInvariance, PTL

(* Reconciling does not interrupt the services that stay: their entries    *)
(* are left alone, so each tunnel has its port, which claims it.           *)
THEOREM SurvivorsAreKept == GroupSpec => SurvivorsKeepClients
  <1>1. ASSUME GroupInv, [GroupNext]_groupVars,
               NEW n \in NamesOf(wanted'), NEW k \in DOMAIN tunnels[n]
        PROVE  k \in DOMAIN tunnels'[n] /\ tunnels'[n][k].client = tunnels[n][k].client
    <2>0. n \in Names
      BY <1>1, TypeStep DEF GroupTypeOK, NamesOf, Names
    <2>1. CASE ReconcilePort
      <3>1. CASE n # srv
        BY <1>1, <2>0, <2>1, <3>1, PortStep
      <3>2. CASE n = srv /\ k # serviceMap[srv].ports[next].key
        BY <1>1, <2>1, <3>2, PortStep
      <3>3. CASE n = srv /\ k = serviceMap[srv].ports[next].key
        BY <1>1, <2>1, <3>3, PortStep
      <3>. QED BY <3>1, <3>2, <3>3
    <2>2. CASE \E j \in portsGone : CloseGone(j)
      <3>1. PICK j \in portsGone : CloseGone(j)
        BY <2>2
      <3>2. n # srv
        BY <1>1, <3>1, GoneTunnel DEF CloseGone
      <3>. QED BY <1>1, <2>0, <3>1, <3>2, GoneStep
    <2>3. CASE UNCHANGED tunnels
      BY <2>3
    <2>. QED
      BY <1>1, <2>1, <2>2, <2>3, Actions
      DEF Reconcile, NextService, SkipPort, RemoveService, ServiceDone, Finish, groupVars, tunnelVars
  <1>2. GroupInv /\ [GroupNext]_groupVars =>
            [\A n \in NamesOf(wanted') : \A k \in DOMAIN tunnels[n] :
                k \in DOMAIN tunnels'[n]
                  /\ tunnels'[n][k].client = tunnels[n][k].client]_groupVars
    BY <1>1
  <1>. QED BY <1>2, GroupInvariance, PTL DEF GroupSpec, SurvivorsKeepClients

=============================================================================
