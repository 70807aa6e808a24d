------------------------- MODULE ServiceStaticProofs -------------------------
(***************************************************************************)
(* Proofs about MuxTunnelService when a service always asks for the same   *)
(* port (StaticPorts), for any set of sessions, connections, requests and  *)
(* ports: what is listed listens, an announced port is served, and the     *)
(* service implements FrontendRegistry.                                    *)
(*                                                                         *)
(* MuxTunnelServiceProofs shows what holds whatever the clients ask for;   *)
(* its invariant IInv is one half of the one used here.                    *)
(***************************************************************************)
EXTENDS MuxTunnelServiceProofs

(* The handler is past the registration and has not cleaned up. *)
Registered(s) == pc[s] \in {"registered", "serving", "sendFailed"}

(* The critical section that settles the port and registers is never       *)
(* entered by two handlers.                                                *)
MtxInv ==
    \A s, t \in Sessions : pc[s] = "allocated" /\ pc[t] = "allocated" => s = t

(* The map has exactly the frontends that listen, each with a goroutine    *)
(* that accepts, and no two of them on one port.                           *)
MapInv ==
    /\ \A k \in Keys : frontendMap[k] # Nil => listener[frontendMap[k]] = "open"
    /\ \A f \in Frontends : listener[f] = "open" =>
        frontendMap[Key(td[f])] = f /\ Looping(f)
    /\ \A f, g \in Frontends :
        listener[f] = "open" /\ listener[g] = "open" /\ port[f] = port[g] => f = g

(* A handler that has settled its port goes on with the one its service    *)
(* asks for, or with one of the pool.                                      *)
PortInv ==
    \A s \in Sessions : pc[s] = "allocated" \/ Registered(s) \/ Started(s) =>
        IF td[s].port = AnyElement THEN port[s] \in NewPoolForRange
                                   ELSE port[s] = td[s].port

(* The frontend a handler works on is, until it cleans up, the one the map *)
(* has for its service, on the port the handler announces.                 *)
MemberInv ==
    \A s \in Sessions :
        /\ pc[s] = "allocated" \/ Registered(s) => val[s] = frontendMap[Key(td[s])]
        /\ pc[s] = "allocated" \/ Registered(s) =>
            (val[s] # Nil => port[val[s]] = port[s])
        /\ Registered(s) => s \in backends[val[s]]

(* A port of the pool is used by one goroutine at most, or by a handler    *)
(* that is about to start one.                                             *)
UserInv ==
    /\ \A f, g \in Frontends :
        Looping(f) /\ Looping(g) /\ port[f] = port[g] /\ port[f] \in NewPoolForRange => f = g
    /\ \A s \in Sessions, f \in Frontends :
        pc[s] = "allocated" /\ val[s] = Nil /\ Looping(f) /\ port[f] = port[s] =>
            port[f] \notin NewPoolForRange

(* An accept goroutine makes one TLS handshake at a time. *)
HandshakeInv ==
    \A c \in FrontConns : cpc[c] = "handshake" =>
        /\ acceptLoop[cfront[c]] = "handshake"
        /\ \A d \in FrontConns : cpc[d] = "handshake" /\ cfront[d] = cfront[c] => d = c

(* The inductive invariant, beside IInv. *)
SInv ==
    /\ MtxInv
    /\ MapInv
    /\ PortInv
    /\ MemberInv
    /\ UserInv
    /\ HandshakeInv
    /\ NoPortLeak

-----------------------------------------------------------------------------
(* Steps that leave pool, ports and frontends alone: a handler that is     *)
(* neither in the critical section nor in a backend map, or only moves on  *)
(* within one, and a connection that starts no TLS handshake.              *)

Quiet ==
    /\ UNCHANGED <<poolVars, port, val, frontVars>>
    /\ \A s \in Sessions :
        /\ pc'[s] = "allocated" <=> pc[s] = "allocated"
        /\ Registered(s)' => Registered(s)
        /\ td'[s] = td[s] \/ ~(pc'[s] = "allocated" \/ Registered(s)' \/ Started(s))
    /\ \A d \in FrontConns : cpc'[d] = "handshake" =>
        cpc[d] = "handshake" /\ cfront'[d] = cfront[d]

(* They preserve the invariant. *)
LEMMA QuietKeeps ==
    ASSUME IInv, SInv, Quiet
    PROVE  SInv'
  <1>. USE DEF Quiet, poolVars, frontVars, Frontends
  <1>1. MtxInv' /\ MapInv'
    BY DEF IInv, SInv, MtxInv, MapInv, Looping, Started
  <1>2. PortInv' /\ MemberInv'
    BY DEF SInv, PortInv, MemberInv, Registered, Started, NewPoolForRange
  <1>3. UserInv' /\ HandshakeInv'
    BY DEF SInv, UserInv, HandshakeInv, Looping, NewPoolForRange
  <1>4. NoPortLeak'
    BY DEF SInv, NoPortLeak, PortUsed, Looping, NewPoolForRange
  <1>. QED BY <1>1, <1>2, <1>3, <1>4 DEF SInv

(* The steps of a handler that are quiet. *)
LEMMA HandlerQuiet ==
    ASSUME IInv, NEW s \in Sessions,
           \/ OutOfPorts(s) \/ SendResponse(s) \/ SendResponseFails(s)
           \/ Accept(s) \/ DecodeFails(s) \/ SessionCloses(s)
           \/ \E r \in Requests : Authorize(s, r) \/ AuthorizeFails(s, r)
    PROVE  Quiet
  <1>. USE DEF IInv, TypeOK, StartedInv, Quiet, Registered, Started, poolVars, frontVars, connVars,
               Frontends
  <1>1. CASE OutOfPorts(s)
    BY <1>1, PoolOfPorts DEF OutOfPorts, GetElement, Return, AnyElement, NoElement
  <1>2. CASE SendResponse(s)
    BY <1>2 DEF SendResponse
  <1>3. CASE SendResponseFails(s)
    BY <1>3 DEF SendResponseFails, Return
  <1>4. CASE Accept(s)
    BY <1>4 DEF Accept
  <1>5. CASE DecodeFails(s)
    BY <1>5 DEF DecodeFails, Return
  <1>6. CASE SessionCloses(s)
    BY <1>6 DEF SessionCloses
  <1>7. ASSUME NEW r \in Requests, Authorize(s, r) PROVE Quiet
    BY <1>7 DEF Authorize
  <1>8. ASSUME NEW r \in Requests, AuthorizeFails(s, r) PROVE Quiet
    BY <1>8 DEF AuthorizeFails, Return
  <1>. QED BY <1>1, <1>2, <1>3, <1>4, <1>5, <1>6, <1>7, <1>8

(* The steps of a front connection that are quiet. *)
LEMMA ConnQuiet ==
    ASSUME IInv, NEW c \in FrontConns,
           \/ DirectTCPIP(c) \/ GetSNITarget(c) \/ ReadDeadline(c) \/ FrontConnCloses(c)
           \/ PickBackend(c) \/ NoBackend(c)
           \/ ConnectBackend(c) \/ ConnectFails(c) \/ EndProxy(c)
    PROVE  Quiet
  <1>. USE DEF IInv, TypeOK, Quiet, Registered, EndConn, poolVars, sessVars, frontVars
  <1>1. CASE DirectTCPIP(c)
    BY <1>1 DEF DirectTCPIP, WithInstance
  <1>2. CASE GetSNITarget(c) \/ PickBackend(c) \/ ConnectBackend(c)
    BY <1>2 DEF GetSNITarget, PickBackend, ConnectBackend
  <1>3. CASE ReadDeadline(c) \/ FrontConnCloses(c) \/ NoBackend(c)
    BY <1>3 DEF ReadDeadline, FrontConnCloses, NoBackend
  <1>4. CASE ConnectFails(c) \/ EndProxy(c)
    BY <1>4 DEF ConnectFails, EndProxy
  <1>. QED BY <1>1, <1>2, <1>3, <1>4

-----------------------------------------------------------------------------
(* The critical section.                                                   *)

(* What a handler finds in the map for its service listens, on the port    *)
(* the service asks for, which the pool does not have to give away.        *)
LEMMA FoundFrontend ==
    ASSUME StaticPorts, IInv, SInv, NEW s \in Sessions, pc[s] = "authorized",
           frontendMap[Key(td[s])] # Nil
    PROVE  LET v == frontendMap[Key(td[s])] IN
           /\ v \in Frontends /\ v # s /\ listener[v] = "open" /\ Looping(v)
           /\ Key(td[v]) = Key(td[s])
           /\ td[v].port = td[s].port
           /\ port[v] = WantedPort(s)
           /\ WantedPort(s) # AnyElement
           /\ WantedPort(s) \notin free
           /\ IF td[s].port = AnyElement THEN port[v] \in NewPoolForRange
                                         ELSE port[v] = td[s].port
  <1>. DEFINE v == frontendMap[Key(td[s])]
  <1>1. td[s] \in Requests /\ Key(td[s]) \in Keys
    BY KeyInKeys DEF IInv, Decoded, Working
  <1>2. v \in Frontends /\ listener[v] = "open" /\ Looping(v) /\ Key(td[v]) = Key(td[s])
    BY <1>1 DEF IInv, TypeOK, MappedFrontendHasBackend, SInv, MapInv
  <1>3. v # s /\ td[v] \in Requests
    BY <1>2 DEF IInv, StartedInv, Started, Decoded, Frontends
  <1>4. td[v].port = td[s].port
    BY <1>1, <1>2, <1>3 DEF StaticPorts
  <1>5. IF td[s].port = AnyElement THEN port[v] \in NewPoolForRange ELSE port[v] = td[s].port
    BY <1>2, <1>4 DEF SInv, PortInv, Started, Frontends
  <1>6. port[v] = WantedPort(s)
    BY <1>5 DEF WantedPort
  <1>7. port[v] # AnyElement
    BY <1>5, PoolOfPorts DEF AnyElement
  <1>8. port[v] \notin free
    <2>1. CASE td[s].port = AnyElement
      BY <2>1, <1>2, <1>5 DEF SInv, NoPortLeak, PortUsed, Looping, IInv, PoolPartition
    <2>2. CASE td[s].port # AnyElement
      BY <2>2, <1>1, <1>5 DEF StaticPorts, IInv, PoolPartition
    <2>. QED BY <2>1, <2>2
  <1>. QED BY <1>2, <1>3, <1>4, <1>5, <1>6, <1>7, <1>8

(* What AllocatePort does to the pool and to the port of the handler. *)
LEMMA AllocatedPort ==
    ASSUME StaticPorts, IInv, SInv, NEW s \in Sessions, AllocatePort(s)
    PROVE  LET v == frontendMap[Key(td[s])] IN
           \/ v # Nil /\ port'[s] = port[v] /\ UNCHANGED poolVars
           \/ v = Nil /\ td[s].port # AnyElement /\ port'[s] = td[s].port /\ UNCHANGED poolVars
           \/ /\ v = Nil /\ td[s].port = AnyElement
              /\ port'[s] \in free
              /\ free' = free \ {port'[s]}
              /\ allocated' = allocated \cup {port'[s]}
  <1>. DEFINE v == frontendMap[Key(td[s])]
  <1>. PICK r \in free \cup {NoElement} :
            /\ GetElement(WantedPort(s), r)
            /\ WantedPort(s) # AnyElement \/ r # NoElement
            /\ port' = [port EXCEPT ![s] = IF WantedPort(s) = AnyElement THEN r
                                                                        ELSE WantedPort(s)]
    BY DEF AllocatePort
  <1>0. port'[s] = IF WantedPort(s) = AnyElement THEN r ELSE WantedPort(s)
    BY DEF IInv, TypeOK
  <1>1. CASE v # Nil
    <2>1. WantedPort(s) \notin free /\ WantedPort(s) # AnyElement /\ port[v] = WantedPort(s)
      BY <1>1, FoundFrontend DEF AllocatePort
    <2>2. UNCHANGED poolVars
      BY <2>1 DEF GetElement
    <2>. QED BY <1>0, <1>1, <2>1, <2>2
  <1>2. CASE v = Nil /\ td[s].port # AnyElement
    <2>1. WantedPort(s) = td[s].port
      BY <1>2 DEF WantedPort
    <2>2. td[s].port \notin free
      BY DEF AllocatePort, IInv, Decoded, Working, StaticPorts, PoolPartition
    <2>3. UNCHANGED poolVars
      BY <1>2, <2>1, <2>2 DEF GetElement
    <2>. QED BY <1>0, <1>2, <2>1, <2>3
  <1>3. CASE v = Nil /\ td[s].port = AnyElement
    <2>1. WantedPort(s) = AnyElement
      BY <1>3 DEF WantedPort
    <2>. QED BY <1>0, <1>3, <2>1 DEF GetElement, AnyElement, NoElement
  <1>. QED BY <1>1, <1>2, <1>3

(* The handler takes the port of the frontend it found, the explicit port  *)
(* of its service or one of the pool that nobody uses.                     *)
LEMMA AllocatePortStatic ==
    ASSUME StaticPorts, IInv, SInv, NEW s \in Sessions, AllocatePort(s)
    PROVE  SInv'
  <1>. DEFINE v == frontendMap[Key(td[s])]
  <1>1. /\ pc[s] = "authorized" /\ MtxFree
        /\ pc' = [pc EXCEPT ![s] = "allocated"]
        /\ val' = [val EXCEPT ![s] = v]
        /\ \A x \in Sessions \ {s} : port'[x] = port[x]
        /\ UNCHANGED <<td, frontVars, cpc, cfront>>
    BY DEF AllocatePort, IInv, TypeOK, connVars
  <1>2. listener[s] = "none" /\ acceptLoop[s] = "none" /\ ~Registered(s)
    BY <1>1 DEF IInv, TypeOK, StartedInv, Started, Registered, Frontends
  <1>3. \A x \in Sessions : /\ Registered(x)' <=> Registered(x)
                            /\ pc'[x] = "allocated" <=> x = s
                            /\ x # s => val'[x] = val[x]
    BY <1>1 DEF MtxFree, Registered, IInv, TypeOK
  <1>4. val'[s] = v /\ td[s] \in Requests /\ Key(td[s]) \in Keys
    BY <1>1, KeyInKeys DEF IInv, TypeOK, Decoded, Working
  <1>5. v # Nil => /\ v \in Sessions \ {s} /\ port'[s] = port[v] /\ Looping(v)
                   /\ UNCHANGED poolVars
                   /\ IF td[s].port = AnyElement THEN port[v] \in NewPoolForRange
                                                 ELSE port[v] = td[s].port
    BY <1>1, FoundFrontend, AllocatedPort DEF Frontends
  <1>6. MtxInv' /\ MapInv'
    BY <1>1, <1>2, <1>3 DEF MtxInv, SInv, MapInv, Looping, frontVars, Frontends
  <1>7. PortInv'
    <2>1. IF td[s].port = AnyElement THEN port'[s] \in NewPoolForRange ELSE port'[s] = td[s].port
      BY <1>5, AllocatedPort DEF IInv, TypeOK
    <2>. QED BY <2>1, <1>1, <1>3 DEF SInv, PortInv, Started, frontVars, NewPoolForRange
  <1>8. MemberInv'
    <2>1. \A x \in Sessions : Registered(x) => val[x] \in Sessions \ {s}
      BY <1>2 DEF IInv, ValInv, TypeOK, Registered, Started, Frontends
    <2>. QED BY <2>1, <1>1, <1>3, <1>4, <1>5 DEF SInv, MemberInv, frontVars
  <1>9. UserInv'
    <2>1. ASSUME NEW f \in Frontends, Looping(f), v = Nil, port[f] = port'[s]
          PROVE  port'[s] \notin NewPoolForRange
      <3>1. CASE td[s].port # AnyElement
        BY <3>1, <2>1, <1>4, AllocatedPort DEF StaticPorts
      <3>2. CASE td[s].port = AnyElement
        BY <3>2, <2>1, AllocatedPort DEF SInv, NoPortLeak, PortUsed, Looping, IInv, TypeOK, PoolPartition
      <3>. QED BY <3>1, <3>2
    <2>2. ASSUME NEW f \in Frontends, Looping(f) PROVE f # s /\ port'[f] = port[f]
      BY <2>2, <1>1, <1>2 DEF Looping, Frontends
    <2>3. \A f \in Frontends : Looping(f)' <=> Looping(f)
      BY <1>1 DEF Looping, frontVars
    <2>. QED BY <2>1, <2>2, <2>3, <1>1, <1>3, <1>4 DEF SInv, UserInv, NewPoolForRange
  <1>10. HandshakeInv'
    BY <1>1 DEF SInv, HandshakeInv, frontVars
  <1>11. NoPortLeak'
    <2>. SUFFICES ASSUME NEW p \in NewPoolForRange
                  PROVE  p \in allocated' <=> (\/ port'[s] = p
                                               \/ \E f \in Frontends : port[f] = p /\ Looping(f))
      BY <1>1, <1>2, <1>3 DEF NoPortLeak, PortUsed, NewPoolForRange, Looping, frontVars, Frontends
    <2>1. p \in allocated <=> \E f \in Frontends : port[f] = p /\ Looping(f)
      BY <1>1 DEF SInv, NoPortLeak, PortUsed, Looping, MtxFree
    <2>. QED BY <2>1, <1>4, <1>5, AllocatedPort DEF StaticPorts, poolVars, Frontends
  <1>. QED BY <1>6, <1>7, <1>8, <1>9, <1>10, <1>11 DEF SInv

(* Sessions that use no address twice never meet in a slot of a backend    *)
(* map.                                                                    *)
LEMMA OwnEntry ==
    ASSUME StaticPorts, IInv, NEW s \in Sessions, NEW f \in Frontends
    PROVE  /\ AddBackend(f, s) = backends[f] \cup {s}
           /\ DelBackend(f, s) = backends[f] \ {s}
  <1>1. \A x \in backends[f] : SameEntry(x, s) <=> x = s
    BY DEF StaticPorts, SameEntry, IInv, TypeOK
  <1>. QED BY <1>1 DEF AddBackend, DelBackend

(* The session joins the frontend of its service; its goroutine has the    *)
(* port already.                                                           *)
LEMMA ReuseFrontendStatic ==
    ASSUME StaticPorts, IInv, SInv, NEW s \in Sessions, ReuseFrontend(s)
    PROVE  SInv'
  <1>1. /\ pc[s] = "allocated" /\ val[s] \in Frontends /\ val[s] # Nil
        /\ port[val[s]] = port[s]
        /\ pc' = [pc EXCEPT ![s] = "registered"]
        /\ UNCHANGED <<poolVars, td, port, val, frontendMap, listener, acceptLoop, cpc, cfront>>
    BY DEF ReuseFrontend, IInv, TypeOK, connVars
  <1>2. backends' = [backends EXCEPT ![val[s]] = @ \cup {s}]
    BY <1>1, OwnEntry DEF ReuseFrontend, IInv, TypeOK
  <1>3. \A x \in Sessions : /\ Registered(x)' <=> (Registered(x) \/ x = s)
                            /\ pc'[x] = "allocated" <=> (pc[x] = "allocated" /\ x # s)
    BY <1>1 DEF Registered, IInv, TypeOK
  <1>4. Looping(val[s])
    BY <1>1, KeyInKeys DEF SInv, MemberInv, MapInv, IInv, Decoded, Working
  <1>5. MtxInv' /\ MapInv'
    BY <1>1, <1>3 DEF SInv, MtxInv, MapInv, Looping
  <1>6. PortInv'
    BY <1>1, <1>3 DEF SInv, PortInv, Started, NewPoolForRange
  <1>7. MemberInv'
    BY <1>1, <1>2, <1>3 DEF SInv, MemberInv, IInv, TypeOK
  <1>8. UserInv' /\ HandshakeInv'
    BY <1>1, <1>3 DEF SInv, UserInv, HandshakeInv, Looping, NewPoolForRange
  <1>9. NoPortLeak'
    BY <1>1, <1>3, <1>4 DEF SInv, NoPortLeak, PortUsed, Looping, NewPoolForRange, poolVars
  <1>. QED BY <1>5, <1>6, <1>7, <1>8, <1>9 DEF SInv

(* The service had no frontend, so that none is closed; no listener has    *)
(* the port, and the goroutine takes it over from the handler.             *)
LEMMA StartFrontendStatic ==
    ASSUME StaticPorts, IInv, SInv, NEW s \in Sessions, StartFrontend(s)
    PROVE  SInv'
  <1>1. /\ pc[s] = "allocated" /\ val[s] = Nil
        /\ pc' = [pc EXCEPT ![s] = "registered"]
        /\ UNCHANGED <<poolVars, td, port, cpc, cfront>>
        /\ acceptLoop' = [acceptLoop EXCEPT ![s] = "accepting"]
        /\ frontendMap' = [frontendMap EXCEPT ![Key(td[s])] = s]
        /\ backends' = [backends EXCEPT ![s] = {s}]
        /\ val' = [val EXCEPT ![s] = s]
    BY DEF StartFrontend, NeedsFrontend, SInv, MemberInv, connVars
  <1>2. listener' = [listener EXCEPT ![s] = "open"]
    <2>1. CloseListener(listener, val[s]) = listener
      BY <1>1, ServiceAssumption DEF CloseListener, IInv, TypeOK, Frontends
    <2>. QED BY <2>1 DEF StartFrontend
  <1>3. /\ td[s] \in Requests /\ Key(td[s]) \in Keys /\ frontendMap[Key(td[s])] = Nil
        /\ listener[s] = "none" /\ acceptLoop[s] = "none"
    BY <1>1, KeyInKeys
    DEF SInv, MemberInv, IInv, TypeOK, Decoded, Working, StartedInv, Started, Frontends
  <1>4. \A x \in Sessions : /\ Registered(x)' <=> (Registered(x) \/ x = s)
                            /\ pc'[x] = "allocated" <=> (pc[x] = "allocated" /\ x # s)
    BY <1>1 DEF Registered, IInv, TypeOK
  <1>5. \A f \in Frontends : listener[f] = "open" => port[f] # port[s] /\ Key(td[f]) # Key(td[s])
    BY <1>3, ServiceAssumption DEF StartFrontend, InUse, SInv, MapInv, Frontends
  <1>6. \A x \in Sessions : Registered(x) => Key(td[x]) # Key(td[s]) /\ val[x] # s
    BY <1>3, ServiceAssumption
    DEF Registered, SInv, MemberInv, IInv, ValInv, Started
  <1>7. MtxInv' /\ MapInv'
    <2>1. MtxInv'
      BY <1>1, <1>4 DEF SInv, MtxInv
    <2>2. \A k \in Keys : frontendMap'[k] # Nil => listener'[frontendMap'[k]] = "open"
      BY <1>1, <1>2, <1>3 DEF SInv, MapInv, IInv, TypeOK, Frontends
    <2>3. \A f \in Frontends : listener'[f] = "open" =>
             frontendMap'[Key(td'[f])] = f /\ Looping(f)'
      BY <1>1, <1>2, <1>3, <1>5, KeyInKeys
      DEF SInv, MapInv, Looping, IInv, TypeOK, Frontends
    <2>4. \A f, g \in Frontends :
             listener'[f] = "open" /\ listener'[g] = "open" /\ port'[f] = port'[g] => f = g
      BY <1>1, <1>2, <1>5 DEF SInv, MapInv, IInv, TypeOK, Frontends
    <2>. QED BY <2>1, <2>2, <2>3, <2>4 DEF MapInv
  <1>8. PortInv'
    BY <1>1, <1>2, <1>4 DEF SInv, PortInv, Started, NewPoolForRange, IInv, TypeOK, Frontends
  <1>9. MemberInv'
    BY <1>1, <1>3, <1>4, <1>6 DEF SInv, MtxInv, MemberInv, IInv, TypeOK, Frontends, Registered
  <1>10. UserInv'
    <2>1. \A f \in Frontends : Looping(f)' <=> (Looping(f) \/ f = s)
      BY <1>1 DEF Looping, IInv, TypeOK, Frontends
    <2>2. \A x \in Sessions : pc'[x] # "allocated"
      BY <1>1, <1>4 DEF SInv, MtxInv
    <2>3. \A f \in Frontends : Looping(f) /\ port[f] = port[s] => port[f] \notin NewPoolForRange
      BY <1>1 DEF SInv, UserInv
    <2>. QED BY <2>1, <2>2, <2>3, <1>1 DEF SInv, UserInv, NewPoolForRange, Frontends
  <1>11. HandshakeInv'
    BY <1>1, <1>3 DEF SInv, HandshakeInv, IInv, TypeOK, Frontends
  <1>12. NoPortLeak'
    <2>1. \A f \in Frontends : Looping(f)' <=> (Looping(f) \/ f = s)
      BY <1>1 DEF Looping, IInv, TypeOK, Frontends
    <2>. QED BY <2>1, <1>1, <1>4 DEF SInv, MtxInv, NoPortLeak, PortUsed, Looping, NewPoolForRange, poolVars,
                                     Frontends
  <1>. QED BY <1>7, <1>8, <1>9, <1>10, <1>11, <1>12 DEF SInv

(* No frontend is closed here either.  The port that goes back to the pool *)
(* is one that this handler got from it, or one the pool never had.        *)
LEMMA StartFrontendFailsStatic ==
    ASSUME StaticPorts, IInv, SInv, NEW s \in Sessions, StartFrontendFails(s)
    PROVE  SInv'
  <1>1. /\ pc[s] = "allocated" /\ val[s] = Nil
        /\ pc' = [pc EXCEPT ![s] = "done"]
        /\ allocated' = allocated \ {port[s]}
        /\ UNCHANGED <<td, port, val, frontendMap, acceptLoop, backends, cpc, cfront>>
    BY DEF StartFrontendFails, NeedsFrontend, Return, ReturnElement, SInv, MemberInv, connVars
  <1>2. listener' = listener
    BY <1>1, ServiceAssumption DEF StartFrontendFails, CloseListener, IInv, TypeOK, Frontends
  <1>3. \A x \in Sessions : /\ Registered(x)' <=> Registered(x)
                            /\ pc'[x] # "allocated"
    BY <1>1 DEF Registered, IInv, TypeOK, SInv, MtxInv
  <1>4. MtxInv' /\ MapInv'
    BY <1>1, <1>2, <1>3 DEF SInv, MtxInv, MapInv, Looping
  <1>5. PortInv' /\ MemberInv'
    BY <1>1, <1>2, <1>3 DEF SInv, PortInv, MemberInv, Started, NewPoolForRange
  <1>6. UserInv' /\ HandshakeInv'
    BY <1>1, <1>3 DEF SInv, UserInv, HandshakeInv, Looping, NewPoolForRange
  <1>7. NoPortLeak'
    <2>. SUFFICES ASSUME NEW p \in NewPoolForRange
                  PROVE  p \in allocated' <=> \E f \in Frontends : port[f] = p /\ Looping(f)
      BY <1>1, <1>3 DEF NoPortLeak, PortUsed, NewPoolForRange, Looping
    <2>1. CASE p = port[s]
      BY <2>1, <1>1 DEF SInv, UserInv
    <2>2. CASE p # port[s]
      BY <2>2, <1>1 DEF SInv, NoPortLeak, PortUsed, MtxInv, Looping
    <2>. QED BY <2>1, <2>2
  <1>. QED BY <1>4, <1>5, <1>6, <1>7 DEF SInv

-----------------------------------------------------------------------------
(* The end of a session.                                                   *)

(* The last session to leave closes the frontend the map has for its       *)
(* service and deletes that very frontend.  The goroutine keeps the port   *)
(* until Accept returns.                                                   *)
LEMMA CleanupStatic ==
    ASSUME StaticPorts, IInv, SInv, NEW s \in Sessions, Cleanup(s)
    PROVE  SInv'
  <1>. DEFINE f == val[s]
  <1>1. /\ pc[s] = "serving" /\ MtxFree
        /\ pc' = [pc EXCEPT ![s] = "done"]
        /\ UNCHANGED <<poolVars, td, port, val, acceptLoop, cpc, cfront>>
    BY DEF Cleanup, Return, connVars
  <1>2. /\ f \in Frontends /\ f = frontendMap[Key(td[s])] /\ Key(td[s]) \in Keys
        /\ f # Nil /\ Key(td[f]) = Key(td[s]) /\ listener[f] = "open"
    BY <1>1, KeyInKeys
    DEF IInv, TypeOK, ValInv, Decoded, Working, SInv, MemberInv, MapInv, Registered
  <1>3. /\ backends' = [backends EXCEPT ![f] = @ \ {s}]
        /\ LeavesLast(s) <=> backends[f] \ {s} = {}
    BY <1>2, OwnEntry DEF Cleanup, LeavesLast
  <1>4. \A x \in Sessions : /\ Registered(x)' <=> (Registered(x) /\ x # s)
                            /\ pc'[x] # "allocated"
    BY <1>1 DEF Registered, IInv, TypeOK, MtxFree
  <1>5. /\ listener' = IF LeavesLast(s) THEN [listener EXCEPT ![f] = "closed"] ELSE listener
        /\ frontendMap' = IF LeavesLast(s) THEN [frontendMap EXCEPT ![Key(td[s])] = Nil]
                                           ELSE frontendMap
    <2>1. listener \in [Frontends -> {"none", "open", "closed"}]
      BY DEF IInv, TypeOK
    <2>2. CloseListener(listener, f) = [listener EXCEPT ![f] = "closed"]
      BY <1>2, <2>1 DEF CloseListener
    <2>. QED BY <2>2 DEF Cleanup, ListenersAfter, FrontendMapAfter
  <1>6. MtxInv' /\ MapInv'
    <2>1. MtxInv'
      BY <1>4 DEF MtxInv
    <2>2. \A k \in Keys : frontendMap'[k] # Nil => listener'[frontendMap'[k]] = "open"
      BY <1>2, <1>5 DEF SInv, MapInv, IInv, TypeOK, MappedFrontendHasBackend, Frontends
    <2>3. \A g \in Frontends : listener'[g] = "open" =>
             frontendMap'[Key(td'[g])] = g /\ Looping(g)'
      BY <1>1, <1>2, <1>5 DEF SInv, MapInv, Looping, IInv, TypeOK, Frontends
    <2>4. \A g, h \in Frontends :
             listener'[g] = "open" /\ listener'[h] = "open" /\ port'[g] = port'[h] => g = h
      BY <1>1, <1>5 DEF SInv, MapInv, IInv, TypeOK, Frontends
    <2>. QED BY <2>1, <2>2, <2>3, <2>4 DEF MapInv
  <1>7. PortInv'
    BY <1>1, <1>2, <1>4, <1>5
    DEF SInv, PortInv, Started, NewPoolForRange, IInv, TypeOK, Frontends
  <1>8. MemberInv'
    <2>. SUFFICES ASSUME NEW x \in Sessions, Registered(x), x # s
                  PROVE  /\ val[x] = frontendMap'[Key(td[x])]
                         /\ val[x] # Nil => port[val[x]] = port[x]
                         /\ x \in backends'[val[x]]
      BY <1>1, <1>4 DEF MemberInv
    <2>1. val[x] = frontendMap[Key(td[x])] /\ x \in backends[val[x]] /\ port[val[x]] = port[x]
      BY DEF SInv, MemberInv, IInv, ValInv, Registered
    <2>2. x \in backends'[val[x]]
      BY <2>1, <1>3 DEF IInv, TypeOK
    <2>3. LeavesLast(s) => Key(td[x]) # Key(td[s])
      BY <2>1, <1>2, <1>3
    <2>4. frontendMap'[Key(td[x])] = frontendMap[Key(td[x])]
      BY <2>3, <1>5 DEF IInv, TypeOK
    <2>. QED BY <2>1, <2>2, <2>4
  <1>9. UserInv' /\ HandshakeInv'
    BY <1>1, <1>4 DEF SInv, UserInv, HandshakeInv, Looping, NewPoolForRange
  <1>10. NoPortLeak'
    BY <1>1, <1>4 DEF SInv, NoPortLeak, PortUsed, Looping, MtxFree, NewPoolForRange, poolVars
  <1>. QED BY <1>6, <1>7, <1>8, <1>9, <1>10 DEF SInv

-----------------------------------------------------------------------------
(* The accept goroutines.                                                  *)

(* What the steps of an accept goroutine leave alone. *)
LoopFrame == UNCHANGED <<pc, td, port, val, frontendMap, listener, backends>>

(* They disturb neither the handlers nor their ports. *)
LEMMA LoopFrameKeeps ==
    ASSUME SInv, LoopFrame
    PROVE  MtxInv' /\ PortInv' /\ MemberInv'
  BY DEF SInv, LoopFrame, MtxInv, PortInv, MemberInv, Registered, Started, NewPoolForRange

(* A step that leaves the same goroutines running, and the pool alone.     *)
LEMMA SameLoopsKeeps ==
    ASSUME SInv, LoopFrame, UNCHANGED poolVars,
           \A f \in Frontends : Looping(f)' <=> Looping(f),
           HandshakeInv'
    PROVE  SInv'
  <1>1. MapInv'
    BY DEF SInv, LoopFrame, MapInv
  <1>2. UserInv'
    BY DEF SInv, LoopFrame, UserInv, NewPoolForRange
  <1>3. NoPortLeak'
    BY DEF SInv, LoopFrame, NoPortLeak, PortUsed, Looping, NewPoolForRange, poolVars
  <1>. QED BY <1>1, <1>2, <1>3, LoopFrameKeeps DEF SInv

(* One goroutine begins a handshake, with one connection. *)
LEMMA AcceptFrontendStatic ==
    ASSUME IInv, SInv, NEW f \in Frontends, NEW c \in FrontConns, AcceptFrontend(f, c)
    PROVE  SInv'
  <1>1. LoopFrame /\ UNCHANGED poolVars
    BY DEF AcceptFrontend, LoopFrame, sessVars
  <1>2. \A g \in Frontends : Looping(g)' <=> Looping(g)
    BY DEF AcceptFrontend, Looping, IInv, TypeOK, Frontends
  <1>3. HandshakeInv'
    <2>1. \A d \in FrontConns \ {c} : cpc'[d] = cpc[d] /\ cfront'[d] = cfront[d]
      BY DEF AcceptFrontend, IInv, TypeOK
    <2>2. cfront'[c] = f
      BY DEF AcceptFrontend, IInv, TypeOK
    <2>3. \A d \in FrontConns \ {c} : cpc[d] = "handshake" => cfront[d] # f
      BY DEF AcceptFrontend, SInv, HandshakeInv
    <2>4. \A g \in Frontends \ {f} : acceptLoop'[g] = acceptLoop[g]
      BY DEF AcceptFrontend, IInv, TypeOK, Frontends
    <2>5. cpc'[c] = "handshake" => acceptLoop'[f] = "handshake"
      BY DEF AcceptFrontend, IInv, TypeOK, Frontends
    <2>6. \A d \in FrontConns \ {c} : cpc[d] = "handshake" => cfront[d] \in Frontends
      BY DEF IInv, ConnInv, TypeOK
    <2>. QED BY <2>1, <2>2, <2>3, <2>4, <2>5, <2>6 DEF SInv, HandshakeInv
  <1>. QED BY <1>1, <1>2, <1>3, SameLoopsKeeps

(* A handshake that ends gives back the goroutine that was making it, and  *)
(* no other: one that has ended stays so.                                  *)
LEMMA HandshakeEndsStatic ==
    ASSUME IInv, SInv, NEW c \in FrontConns, Handshake(c) \/ HandshakeFails(c)
    PROVE  SInv'
  <1>1. /\ LoopFrame /\ UNCHANGED poolVars
        /\ cpc[c] = "handshake"
        /\ acceptLoop' = [acceptLoop EXCEPT ![cfront[c]] = "accepting"]
    BY DEF Handshake, HandshakeFails, LoopFrame, sessVars
  <1>2. /\ cpc'[c] # "handshake"
        /\ \A d \in FrontConns \ {c} : cpc'[d] = cpc[d] /\ cfront'[d] = cfront[d]
    BY DEF Handshake, HandshakeFails, EndConn, WithInstance, IInv, TypeOK
  <1>3. cfront[c] \in Frontends /\ acceptLoop[cfront[c]] = "handshake"
    BY <1>1 DEF IInv, ConnInv, TypeOK, SInv, HandshakeInv
  <1>4. \A g \in Frontends : Looping(g)' <=> Looping(g)
    BY <1>1, <1>3 DEF Looping, IInv, TypeOK, Frontends
  <1>5. HandshakeInv'
    BY <1>1, <1>2, <1>3 DEF SInv, HandshakeInv, IInv, TypeOK, ConnInv, Frontends
  <1>. QED BY <1>1, <1>4, <1>5, SameLoopsKeeps

(* A goroutine ends when its listener is closed, and returns a port that   *)
(* nobody else uses.                                                       *)
LEMMA AcceptLoopEndsStatic ==
    ASSUME StaticPorts, IInv, SInv, NEW f \in Frontends, AcceptLoopEnds(f)
    PROVE  SInv'
  <1>1. /\ LoopFrame
        /\ acceptLoop[f] = "accepting" /\ listener[f] = "closed"
        /\ acceptLoop' = [acceptLoop EXCEPT ![f] = "ended"]
        /\ allocated' = allocated \ {port[f]}
        /\ UNCHANGED <<cpc, cfront>>
    BY DEF AcceptLoopEnds, ReturnElement, LoopFrame, StaticPorts, sessVars, connVars
  <1>2. \A g \in Frontends : Looping(g)' <=> (Looping(g) /\ g # f)
    BY <1>1 DEF Looping, IInv, TypeOK, Frontends
  <1>3. MapInv'
    BY <1>1, <1>2 DEF SInv, LoopFrame, MapInv
  <1>4. UserInv'
    BY <1>1, <1>2 DEF SInv, LoopFrame, UserInv, NewPoolForRange
  <1>5. HandshakeInv'
    BY <1>1 DEF SInv, HandshakeInv, IInv, TypeOK, ConnInv, Frontends
  <1>6. NoPortLeak'
    <2>. SUFFICES ASSUME NEW p \in NewPoolForRange
                  PROVE  p \in allocated' <=>
                            \/ \E s \in Sessions : pc[s] = "allocated" /\ port[s] = p
                            \/ \E g \in Frontends : port[g] = p /\ Looping(g) /\ g # f
      BY <1>1, <1>2 DEF NoPortLeak, PortUsed, NewPoolForRange, Looping, LoopFrame
    <2>1. CASE p # port[f]
      BY <2>1, <1>1 DEF SInv, NoPortLeak, PortUsed, Looping
    <2>2. CASE p = port[f]
      <3>1. \A g \in Frontends : port[g] = p /\ Looping(g) => g = f
        BY <2>2, <1>1 DEF SInv, UserInv, Looping
      <3>2. ASSUME NEW s \in Sessions, pc[s] = "allocated", port[s] = p PROVE FALSE
        <4>1. val[s] # Nil
          BY <2>2, <3>2, <1>1 DEF SInv, UserInv, Looping
        <4>2. /\ val[s] \in Frontends /\ listener[val[s]] = "open" /\ Looping(val[s])
              /\ port[val[s]] = p
          BY <3>2, <4>1, KeyInKeys
          DEF SInv, MemberInv, MapInv, IInv, TypeOK, Decoded, Working
        <4>. QED BY <4>2, <3>1, <1>1
      <3>. QED BY <2>2, <3>1, <3>2, <1>1
    <2>. QED BY <2>1, <2>2
  <1>. QED BY <1>1, <1>3, <1>4, <1>5, <1>6, LoopFrameKeeps DEF SInv

-----------------------------------------------------------------------------

(* The invariant holds of a service that was just created. *)
LEMMA StaticInitHolds == Init => SInv
  <1>. SUFFICES ASSUME Init PROVE SInv
    OBVIOUS
  <1>1. MtxInv /\ PortInv /\ MemberInv
    BY DEF Init, MtxInv, PortInv, MemberInv, Registered, Started, Frontends
  <1>2. MapInv /\ UserInv /\ HandshakeInv
    BY DEF Init, MapInv, UserInv, HandshakeInv, Looping, Frontends
  <1>3. NoPortLeak
    BY DEF Init, PoolInit, NoPortLeak, PortUsed, Looping, Frontends
  <1>. QED BY <1>1, <1>2, <1>3 DEF SInv

(* Every step of every thread preserves it, when ports are static. *)
LEMMA StaticNextKeeps ==
    ASSUME StaticPorts, IInv, SInv, [Next]_vars
    PROVE  SInv'
  <1>1. ASSUME NEW s \in Sessions, Handler(s) PROVE SInv'
    BY <1>1, AllocatePortStatic, ReuseFrontendStatic, StartFrontendStatic,
       StartFrontendFailsStatic, CleanupStatic, HandlerQuiet, QuietKeeps
    DEF Handler
  <1>2. ASSUME NEW s \in Sessions, Client(s) PROVE SInv'
    BY <1>2, HandlerQuiet, QuietKeeps DEF Client
  <1>3. ASSUME NEW c \in FrontConns, Proxy(c) PROVE SInv'
    BY <1>3, HandshakeEndsStatic, ConnQuiet, QuietKeeps DEF Proxy
  <1>4. CASE Close \/ Finished \/ UNCHANGED vars
    <2>1. Quiet
      BY <1>4 DEF Close, Finished, Quiet, Registered, vars, poolVars, sessVars, frontVars, connVars
    <2>. QED BY <2>1, QuietKeeps
  <1>. QED
    BY <1>1, <1>2, <1>3, <1>4, AcceptLoopEndsStatic, AcceptFrontendStatic DEF Next

(* The inductive invariant holds of every behaviour of a service whose     *)
(* clients keep to static ports.                                           *)
THEOREM StaticInvariance ==
    ASSUME StaticPorts
    PROVE  Spec => [](IInv /\ SInv)
  <1>1. IInv /\ SInv /\ [Next]_vars => SInv'
    BY StaticNextKeeps
  <1>. QED BY <1>1, StaticInitHolds, Invariance, PTL DEF Spec

(* What GetServices lists is what listens: the entry of the map, the       *)
(* listener and the accept goroutine of a service come and go together.    *)
THEOREM ListedIsListening ==
    ASSUME StaticPorts
    PROVE  Spec => []FrontendConsistent
  <1>1. ASSUME IInv, SInv PROVE FrontendConsistent
    <2>1. ASSUME NEW u \in DOMAIN Config, NEW e \in GetServices(u)
          PROVE  \E f \in Frontends : /\ Listening(f) /\ port[f] = e.port
                                      /\ Key(td[f]) = <<u, e.name>>
      <3>1. PICK k \in Keys : /\ k[1] = u /\ frontendMap[k] # Nil
                              /\ e = [name |-> k[2], port |-> port[frontendMap[k]]]
        BY <2>1 DEF GetServices
      <3>2. k = <<u, e.name>>
        BY <3>1 DEF Keys, Key
      <3>3. frontendMap[k] \in Frontends /\ Key(td[frontendMap[k]]) = k
        BY <1>1, <3>1 DEF IInv, TypeOK, MappedFrontendHasBackend
      <3>4. Listening(frontendMap[k])
        BY <1>1, <3>1, <3>3 DEF SInv, MapInv, Looping, Listening
      <3>. QED BY <3>1, <3>2, <3>3, <3>4
    <2>. QED BY <1>1, <2>1 DEF FrontendConsistent, SInv, MapInv
  <1>. QED BY <1>1, StaticInvariance, PTL

(* The port a client was told stays open, and connections made to it can   *)
(* be proxied to its session, until the handler cleans up.                 *)
THEOREM PortStaysServed ==
    ASSUME StaticPorts
    PROVE  Spec => []AnnouncedPortServed
  <1>1. ASSUME IInv, SInv PROVE AnnouncedPortServed
    <2>. SUFFICES ASSUME NEW s \in Sessions, pc[s] = "serving"
                  PROVE  /\ frontendMap[Key(td[s])] = val[s] /\ s \in backends[val[s]]
                         /\ port[val[s]] = port[s] /\ Listening(val[s])
      BY DEF AnnouncedPortServed
    <2>1. /\ val[s] \in Frontends /\ val[s] # Nil /\ Key(td[s]) \in Keys
          /\ frontendMap[Key(td[s])] = val[s] /\ s \in backends[val[s]]
          /\ port[val[s]] = port[s]
      BY <1>1, KeyInKeys
      DEF IInv, TypeOK, ValInv, Decoded, Working, SInv, MemberInv, Registered
    <2>. QED BY <1>1, <2>1 DEF SInv, MapInv, Looping, Listening
  <1>. QED BY <1>1, StaticInvariance, PTL

-----------------------------------------------------------------------------
(* The service implements FrontendRegistry: what a client sees of          *)
(* handlers, locks, listeners, accept goroutines and the port pool is a    *)
(* table in which sessions register and unregister.  Joining a frontend    *)
(* and starting one map to Register, cleaning up maps to Unregister,       *)
(* anything else to a stutter.                                             *)

(* A step of the table. *)
TableStep == [Registry!RegistryNext]_(Registry!registryVars)

(* A step that leaves the map, the backends and the ports of frontends     *)
(* alone changes nothing a client can see.                                 *)
LEMMA TableStutters ==
    ASSUME IInv, UNCHANGED <<frontendMap, backends>>,
           \A f \in Frontends : Started(f) => port'[f] = port[f]
    PROVE  TableStep
  <1>1. \A k \in Keys : MembersOf(k)' = MembersOf(k)
    BY DEF MembersOf
  <1>2. \A k \in Keys : frontendMap[k] # Nil => /\ frontendMap[k] \in Frontends
                                                /\ Started(frontendMap[k])
    BY DEF IInv, TypeOK, MappedFrontendHasBackend, StartedInv
  <1>3. \A k \in Keys : PublicPortOf(k)' = PublicPortOf(k)
    BY <1>2 DEF PublicPortOf
  <1>. QED BY <1>1, <1>3 DEF TableStep, Registry!registryVars

(* A session that is in the critical section is in no backend map. *)
LEMMA NotYetMember ==
    ASSUME IInv, NEW s \in Sessions, pc[s] = "allocated"
    PROVE  \A j \in Keys : s \notin MembersOf(j)
  BY DEF IInv, TypeOK, NoGhostBackend, MembersOf

(* Frontends of different services are different, and listen on different  *)
(* ports.                                                                  *)
LEMMA DistinctFrontends ==
    ASSUME IInv, SInv, NEW j \in Keys, NEW k \in Keys, j # k,
           frontendMap[j] # Nil, frontendMap[k] # Nil
    PROVE  frontendMap[j] # frontendMap[k] /\ port[frontendMap[j]] # port[frontendMap[k]]
  BY DEF IInv, TypeOK, MappedFrontendHasBackend, SInv, MapInv

(* Joining a frontend: the service has members, and its port stays. *)
LEMMA ReuseIsRegister ==
    ASSUME StaticPorts, IInv, SInv, NEW s \in Sessions, ReuseFrontend(s),
           NEW k \in Keys, k = Key(td[s])
    PROVE  Registry!Register(k, s)
  <1>1. /\ pc[s] = "allocated" /\ val[s] \in Frontends /\ val[s] # Nil
        /\ UNCHANGED <<port, frontendMap>>
    BY DEF ReuseFrontend, IInv, TypeOK
  <1>2. frontendMap[k] = val[s]
    BY <1>1 DEF SInv, MemberInv
  <1>3. backends' = [backends EXCEPT ![val[s]] = @ \cup {s}]
    BY <1>1, OwnEntry DEF ReuseFrontend, IInv, TypeOK
  <1>4. MembersOf(k) # {} /\ MembersOf(k)' = MembersOf(k) \cup {s}
    BY <1>1, <1>2, <1>3 DEF MembersOf, IInv, TypeOK, MappedFrontendHasBackend
  <1>5. ASSUME NEW j \in Keys, j # k PROVE MembersOf(j)' = MembersOf(j)
    BY <1>1, <1>2, <1>3, <1>5, DistinctFrontends DEF MembersOf, IInv, TypeOK
  <1>6. \A j \in Keys : PublicPortOf(j)' = PublicPortOf(j)
    BY <1>1 DEF PublicPortOf
  <1>. QED BY <1>1, <1>2, <1>4, <1>5, <1>6, NotYetMember DEF Registry!Register

(* Starting a frontend: the service had no members, and its port is one no *)
(* other service has.                                                      *)
LEMMA StartIsRegister ==
    ASSUME StaticPorts, IInv, SInv, NEW s \in Sessions, StartFrontend(s),
           NEW k \in Keys, k = Key(td[s])
    PROVE  Registry!Register(k, s)
  <1>1. /\ pc[s] = "allocated" /\ val[s] = Nil /\ port' = port
        /\ frontendMap' = [frontendMap EXCEPT ![k] = s]
        /\ backends' = [backends EXCEPT ![s] = {s}]
    BY DEF StartFrontend, NeedsFrontend, SInv, MemberInv
  <1>2. td[s] \in Requests /\ frontendMap[k] = Nil
    BY <1>1 DEF IInv, Decoded, Working, SInv, MemberInv
  <1>3. frontendMap'[k] = s /\ \A j \in Keys : j # k => frontendMap'[j] = frontendMap[j]
    BY <1>1, <1>2 DEF IInv, TypeOK
  <1>4. \A j \in Keys : frontendMap[j] # Nil =>
            /\ frontendMap[j] \in Frontends /\ frontendMap[j] # s
            /\ port[frontendMap[j]] # port[s]
    <2>1. listener[s] # "open"
      BY <1>1 DEF IInv, TypeOK, StartedInv, Started, Frontends
    <2>. QED BY <2>1 DEF IInv, TypeOK, SInv, MapInv, StartFrontend, InUse
  <1>5. port[s] \in Nat \ {0}
    BY <1>1, <1>2, PoolOfPorts, ServiceAssumption
    DEF SInv, PortInv, AnyElement, IInv, TypeOK
  <1>6. MembersOf(k) = {} /\ MembersOf(k)' = {s}
    BY <1>1, <1>2, <1>3, ServiceAssumption DEF MembersOf, IInv, TypeOK, Frontends
  <1>7. PublicPortOf(k)' = port[s]
    BY <1>1, <1>3, ServiceAssumption DEF PublicPortOf
  <1>8. ASSUME NEW j \in Keys, j # k
        PROVE  /\ MembersOf(j)' = MembersOf(j) /\ PublicPortOf(j)' = PublicPortOf(j)
               /\ PublicPortOf(j) # port[s]
    BY <1>1, <1>3, <1>4, <1>5, <1>8 DEF MembersOf, PublicPortOf, NoElement, IInv, TypeOK, Frontends
  <1>. QED
    BY <1>1, <1>2, <1>5, <1>6, <1>7, <1>8, NotYetMember DEF Registry!Register, Registry!NoPort

(* Cleaning up: the session leaves, and the last one gives up the port. *)
LEMMA CleanupIsUnregister ==
    ASSUME StaticPorts, IInv, SInv, NEW s \in Sessions, Cleanup(s),
           NEW k \in Keys, k = Key(td[s])
    PROVE  Registry!Unregister(k, s)
  <1>. DEFINE f == val[s]
  <1>1. /\ f \in Frontends /\ f # Nil /\ frontendMap[k] = f
        /\ s \in backends[f] /\ port' = port
    BY DEF Cleanup, IInv, TypeOK, ValInv, Decoded, Working, SInv, MemberInv, Registered
  <1>2. /\ backends' = [backends EXCEPT ![f] = @ \ {s}]
        /\ frontendMap' = IF backends[f] = {s} THEN [frontendMap EXCEPT ![k] = Nil]
                                               ELSE frontendMap
    <2>1. DelBackend(f, s) = backends[f] \ {s} /\ (LeavesLast(s) <=> backends[f] = {s})
      BY <1>1, OwnEntry DEF LeavesLast
    <2>. QED BY <2>1 DEF Cleanup, FrontendMapAfter
  <1>3. s \in MembersOf(k) /\ MembersOf(k)' = MembersOf(k) \ {s}
    BY <1>1, <1>2 DEF MembersOf, IInv, TypeOK
  <1>4. PublicPortOf(k)' = IF MembersOf(k) = {s} THEN NoElement ELSE PublicPortOf(k)
    BY <1>1, <1>2 DEF MembersOf, PublicPortOf, IInv, TypeOK
  <1>5. ASSUME NEW j \in Keys, j # k
        PROVE  MembersOf(j)' = MembersOf(j) /\ PublicPortOf(j)' = PublicPortOf(j)
    BY <1>1, <1>2, <1>5, DistinctFrontends DEF MembersOf, PublicPortOf, IInv, TypeOK
  <1>. QED
    BY <1>1, <1>3, <1>4, <1>5 DEF Registry!Unregister, Registry!NoPort, NoElement

(* Every other step leaves the table as it is. *)
LEMMA OtherStepsStutter ==
    ASSUME IInv, Next,
           ~ \E s \in Sessions : ReuseFrontend(s) \/ StartFrontend(s) \/ Cleanup(s)
    PROVE  TableStep
  <1>1. ASSUME NEW s \in Sessions, AllocatePort(s) PROVE TableStep
    <2>1. ~Started(s) /\ UNCHANGED <<frontendMap, backends>>
      BY <1>1 DEF AllocatePort, IInv, StartedInv, Frontends, frontVars
    <2>2. \A f \in Frontends : f # s => port'[f] = port[f]
      BY <1>1 DEF AllocatePort, IInv, TypeOK, Frontends
    <2>. QED BY <2>1, <2>2, TableStutters
  <1>2. ASSUME NEW s \in Sessions, Handler(s) \/ Client(s), ~AllocatePort(s)
        PROVE  UNCHANGED <<frontendMap, backends, port>>
    <2>1. CASE Handler(s)
      BY <2>1, <1>2
      DEF Handler, OutOfPorts, StartFrontendFails, SendResponse, SendResponseFails, frontVars
    <2>2. CASE Client(s)
      BY <2>2
      DEF Client, Accept, Authorize, AuthorizeFails, DecodeFails, SessionCloses, frontVars
    <2>. QED BY <1>2, <2>1, <2>2
  <1>3. ASSUME NEW c \in FrontConns, Proxy(c)
        PROVE  UNCHANGED <<frontendMap, backends, port>>
    BY <1>3
    DEF Proxy, DirectTCPIP, GetSNITarget, ReadDeadline, FrontConnCloses, Handshake,
        HandshakeFails, PickBackend, NoBackend, ConnectBackend, ConnectFails, EndProxy,
        sessVars, frontVars
  <1>4. ASSUME NEW f \in Frontends,
               AcceptLoopEnds(f) \/ \E c \in FrontConns : AcceptFrontend(f, c)
        PROVE  UNCHANGED <<frontendMap, backends, port>>
    BY <1>4 DEF AcceptLoopEnds, AcceptFrontend, sessVars
  <1>5. CASE Close \/ Finished
    BY <1>5, TableStutters DEF Close, Finished, vars, sessVars, frontVars
  <1>. QED BY <1>1, <1>2, <1>3, <1>4, <1>5, TableStutters DEF Next

(* A step of the service is a step of the table. *)
LEMMA StepRefines ==
    ASSUME StaticPorts, IInv, SInv, [Next]_vars
    PROVE  TableStep
  <1>1. ASSUME NEW s \in Sessions, ReuseFrontend(s) \/ StartFrontend(s) \/ Cleanup(s)
        PROVE  TableStep
    <2>1. Key(td[s]) \in Keys
      BY <1>1, KeyInKeys DEF ReuseFrontend, StartFrontend, Cleanup, IInv, Decoded, Working
    <2>. QED
      BY <1>1, <2>1, ReuseIsRegister, StartIsRegister, CleanupIsUnregister
      DEF TableStep, Registry!RegistryNext
  <1>2. CASE UNCHANGED vars
    BY <1>2, TableStutters DEF vars, sessVars, frontVars
  <1>. QED BY <1>1, <1>2, OtherStepsStutter

(* The service implements the registry. *)
THEOREM ServiceIsRegistry ==
    ASSUME StaticPorts
    PROVE  Spec => ImplementsRegistry
  <1>1. Init => Registry!RegistryInit
    BY DEF Init, Registry!RegistryInit, Registry!NoPort, MembersOf, PublicPortOf, NoElement
  <1>2. IInv /\ SInv /\ [Next]_vars => [Registry!RegistryNext]_(Registry!registryVars)
    BY StepRefines DEF TableStep
  <1>. QED BY <1>1, <1>2, StaticInvariance, PTL DEF Spec, ImplementsRegistry, Registry!RegistrySpec

=============================================================================
