-------------------------- MODULE ClientPortProofs --------------------------
(***************************************************************************)
(* Proof that a client of TunnelSystem that is up is served on the port it *)
(* reports (ClientPortServed), and that it is listed under that port as    *)
(* long as its service was never on another one (ClientPortListed), for    *)
(* any number of clients, sessions and ports, when every service has one   *)
(* worker.                                                                 *)
(*                                                                         *)
(* No port is static here: a client that let the service choose asks for   *)
(* the port it was given from then on, and handlers of its earlier         *)
(* sessions, whose end the service has not noticed, work on.               *)
(***************************************************************************)
EXTENDS TunnelSystemProofs

(* The service of a worker, the port its client was created with and the   *)
(* one it knows.                                                           *)
Service(w) == Key(TunnelData[ClientOf[w]])

FirstPort(w) == TunnelData[ClientOf[w]].port

Known(w) == frontendPort[ClientOf[w]]

(* The handler has a request, or had one and created a frontend. *)
HasRequest(s) == pc[s] \in Working \/ Started(s)

(* What a worker sent is for its service, and for the first port or the    *)
(* one it knows: it learns a port at most once.                            *)
OwnInv ==
    /\ \A s \in Sessions : HasRequest(s) =>
        /\ Key(td[s]) = Service(WorkerOf[s])
        /\ td[s].port \in {FirstPort(WorkerOf[s]), Known(WorkerOf[s])}
    /\ \A s \in Sessions : request[s] # Nil =>
        /\ Key(request[s]) = Service(WorkerOf[s])
        /\ request[s].port \in {FirstPort(WorkerOf[s]), Known(WorkerOf[s])}
    /\ \A w \in Workers : wpc[w] = "waiting" => asked[w] = Known(w)
    /\ \A w \in Workers : FirstPort(w) \in {0, Known(w)}

(* A worker that is ready knows the port of its session. *)
ReadyInv ==
    \A w \in Workers : wpc[w] = "ready" =>
        pc[sess[w]] \in {"serving", "done"} /\ Known(w) = port[sess[w]]

(* In the critical section the map is as it was looked up. *)
LockInv ==
    /\ \A s, t \in Sessions : pc[s] = "allocated" /\ pc[t] = "allocated" => s = t
    /\ \A s \in Sessions : pc[s] = "allocated" =>
        /\ val[s] = frontendMap[Key(td[s])]
        /\ val[s] # Nil /\ td[s].port = 0 => port[s] = port[val[s]]

Registered(s) == pc[s] \in {"registered", "serving"}

(* A registered session is a backend of a frontend on its own port. *)
MemberInv ==
    \A s \in Sessions : Registered(s) => s \in backends[val[s]] /\ port[val[s]] = port[s]

(* The session its worker is at, and its handler has registered it. *)
Current(s) == sess[WorkerOf[s]] = s /\ Registered(s)

(* The frontend of such a session listens, and its client knows no other   *)
(* port.                                                                   *)
LiveInv ==
    \A s \in Sessions : Current(s) =>
        listener[val[s]] = "open" /\ Known(WorkerOf[s]) \in {0, port[s]}

(* A frontend in the map whose listener was closed - its worker asked for  *)
(* another port, which could not be bound - is not on the port that worker *)
(* asks for, so it will not be joined.                                     *)
DeafInv ==
    \A k \in Keys : LET f == frontendMap[k] IN
        f # Nil /\ listener[f] # "open" => Known(WorkerOf[f]) \notin {0, port[f]}

(* The frontends of a worker are all on one port. *)
SinglePort(w) ==
    \A f, g \in Frontends :
        Started(f) /\ Started(g) /\ WorkerOf[f] = w /\ WorkerOf[g] = w => port[f] = port[g]

(* Then the one that has backends is the one in the map. *)
MappedInv ==
    \A f \in Frontends :
        SinglePort(WorkerOf[f]) /\ backends[f] # {} => frontendMap[Key(td[f])] = f

(* An accept goroutine ends after its listener was closed. *)
LoopInv == \A f \in Frontends : acceptLoop[f] = "ended" => listener[f] # "open"

(* The inductive invariant, beside SysInv. *)
ReachInv ==
    /\ OwnInv
    /\ ReadyInv
    /\ LockInv
    /\ MemberInv
    /\ LiveInv
    /\ DeafInv
    /\ MappedInv
    /\ LoopInv

-----------------------------------------------------------------------------
(* Facts the steps share.                                                  *)

(* Sessions of one service are sessions of one worker. *)
LEMMA OneWorker ==
    ASSUME OneWorkerEach, OwnInv, NEW s \in Sessions, NEW t \in Sessions,
           HasRequest(s), HasRequest(t), Key(td[s]) = Key(td[t])
    PROVE  WorkerOf[s] = WorkerOf[t]
  <1>1. WorkerOf[s] \in Workers /\ WorkerOf[t] \in Workers
    BY SystemAssumption
  <1>. QED BY <1>1 DEF OneWorkerEach, OwnInv, Service

(* A handler with a request works on a key of the map and, past the        *)
(* critical section, on a frontend.                                        *)
LEMMA HandlerFacts ==
    ASSUME SysInv, NEW s \in Sessions, pc[s] \in {"allocated", "registered", "serving"}
    PROVE  /\ HasRequest(s) /\ PortAsAsked(s)
           /\ td[s] \in Requests /\ Key(td[s]) \in Keys
           /\ val[s] # Nil => /\ val[s] \in Sessions /\ Started(val[s])
                              /\ Key(td[val[s]]) = Key(td[s])
           /\ pc[s] # "allocated" => val[s] # Nil
  BY KeyInKeys DEF SysInv, IInv, TypeOK, Decoded, Working, ValInv, HasRequest, PortsInv, Frontends

(* The frontend the map has for a service is one of its own. *)
LEMMA MappedFacts ==
    ASSUME SysInv, NEW k \in Keys, frontendMap[k] # Nil
    PROVE  /\ frontendMap[k] \in Sessions /\ Started(frontendMap[k])
           /\ HasRequest(frontendMap[k]) /\ Key(td[frontendMap[k]]) = k
  BY DEF SysInv, IInv, TypeOK, MappedFrontendHasBackend, StartedInv, HasRequest, Frontends

(* The current session, in the critical section, asks for the port its     *)
(* client knows, if it knows one.                                          *)
LEMMA CurrentAsks ==
    ASSUME SysInv, ReachInv, NEW s \in Sessions, pc[s] = "allocated", sess[WorkerOf[s]] = s
    PROVE  Known(WorkerOf[s]) \in {0, port[s]}
  <1>. DEFINE w == WorkerOf[s]
  <1>1. w \in Workers /\ sess[w] # Nil
    BY SystemAssumption, ServiceAssumption
  <1>2. wpc[w] = "waiting"
    BY <1>1 DEF SysInv, WorkerInv, AskedInv, ReachInv, ReadyInv
  <1>3. td[s].port = asked[w] /\ asked[w] = Known(w)
    BY <1>1, <1>2 DEF SysInv, AskedInv, Working, ReachInv, OwnInv
  <1>. QED BY <1>3, HandlerFacts DEF PortAsAsked

(* A handler that is about to leave the frontend its service has asks for  *)
(* the port its worker knows, so it is not the frontend of a current       *)
(* session, and the worker has had frontends on another port.              *)
LEMMA LeavesNobody ==
    ASSUME OneWorkerEach, SysInv, ReachInv, NEW s \in Sessions, pc[s] = "allocated",
           val[s] # Nil, port[val[s]] # port[s]
    PROVE  /\ Known(WorkerOf[s]) = port[s] /\ port[s] # 0
           /\ WorkerOf[val[s]] = WorkerOf[s]
           /\ \A t \in Sessions : Current(t) => val[t] # val[s]
  <1>1. /\ HasRequest(s) /\ PortAsAsked(s) /\ val[s] \in Sessions /\ Started(val[s])
        /\ Key(td[val[s]]) = Key(td[s])
    BY HandlerFacts
  <1>2. td[s].port # 0
    BY DEF ReachInv, LockInv
  <1>3. FirstPort(WorkerOf[s]) \in {0, Known(WorkerOf[s])}
    BY SystemAssumption DEF ReachInv, OwnInv
  <1>4. Known(WorkerOf[s]) = port[s] /\ port[s] # 0
    BY <1>1, <1>2, <1>3 DEF ReachInv, OwnInv, PortAsAsked
  <1>5. WorkerOf[val[s]] = WorkerOf[s]
    BY <1>1, OneWorker DEF ReachInv, HasRequest
  <1>6. ASSUME NEW t \in Sessions, Current(t), val[t] = val[s]
        PROVE  FALSE
    <2>1. HasRequest(t) /\ Key(td[t]) = Key(td[s])
      BY <1>1, <1>6, HandlerFacts DEF Current, Registered
    <2>2. WorkerOf[t] = WorkerOf[s]
      BY <1>1, <2>1, OneWorker DEF ReachInv
    <2>3. port[val[t]] = port[t] /\ Known(WorkerOf[t]) \in {0, port[t]}
      BY <1>6 DEF ReachInv, MemberInv, LiveInv, Current
    <2>. QED BY <1>4, <1>6, <2>2, <2>3
  <1>. QED BY <1>4, <1>5, <1>6

-----------------------------------------------------------------------------
(* The steps of the service: what they keep by the effect they have on     *)
(* their session, whatever they do to the maps.                            *)

LEMMA SessionStepOwn ==
    ASSUME SysInv, ReachInv, NEW s \in Sessions, SessionStep(s)
    PROVE  OwnInv' /\ ReadyInv'
  <1>. USE DEF SysInv, ReachInv
  <1>1. /\ \A x \in Sessions : x # s => Same(x)
        /\ Decodes(s) \/ Allocates(s) \/ Registers(s) \/ Announces(s) \/ Closes(s)
        /\ \A x \in Sessions : Started(x)' => Started(x) \/ (x = s /\ pc[s] = "allocated")
        /\ UNCHANGED <<wpc, sess, asked, frontendPort, tcClosed>>
    BY DEF SessionStep, tcVars
  <1>2. OwnInv'
    <2>1. ASSUME NEW x \in Sessions, HasRequest(x)'
          PROVE  \/ HasRequest(x) /\ td'[x] = td[x]
                 \/ request[x] # Nil /\ td'[x] = request[x]
      <3>1. CASE x # s
        BY <1>1, <2>1, <3>1 DEF Same, HasRequest, Working
      <3>2. CASE x = s /\ Decodes(s)
        BY <3>2 DEF Decodes
      <3>3. CASE x = s /\ ~Decodes(s)
        <4>1. td'[s] = td[s]
          BY <1>1, <3>3 DEF Allocates, Registers, Announces, Closes
        <4>2. HasRequest(s)
          BY <1>1, <2>1, <3>3 DEF HasRequest, Working, Allocates, Registers, Announces, Closes
        <4>. QED BY <3>3, <4>1, <4>2
      <3>. QED BY <3>1, <3>2, <3>3
    <2>2. \A x \in Sessions : request'[x] = request[x] \/ request'[x] = Nil
      BY <1>1 DEF Same, Decodes, Allocates, Registers, Announces, Closes
    <2>3. ASSUME NEW x \in Sessions, HasRequest(x)'
          PROVE  /\ Key(td'[x]) = Service(WorkerOf[x])
                 /\ td'[x].port \in {FirstPort(WorkerOf[x]), Known(WorkerOf[x])}
      BY <2>1, <2>3 DEF OwnInv
    <2>4. ASSUME NEW x \in Sessions, request'[x] # Nil
          PROVE  /\ Key(request'[x]) = Service(WorkerOf[x])
                 /\ request'[x].port \in {FirstPort(WorkerOf[x]), Known(WorkerOf[x])}
      BY <2>2, <2>4 DEF OwnInv
    <2>5. \A w \in Workers : /\ wpc'[w] = "waiting" => asked'[w] = Known(w)
                            /\ FirstPort(w) \in {0, Known(w)}
      BY <1>1 DEF OwnInv
    <2>6. \A w : Known(w)' = Known(w) /\ Service(w)' = Service(w) /\ FirstPort(w)' = FirstPort(w)
      BY <1>1 DEF Known, Service, FirstPort
    <2>7. \A x \in Sessions : Key(td[x])' = Key(td'[x]) /\ Key(request[x])' = Key(request'[x])
      BY DEF Key, UserOf, ServiceOf
    <2>. QED BY <2>3, <2>4, <2>5, <2>6, <2>7 DEF OwnInv
  <1>3. ReadyInv'
    <2>1. SUFFICES ASSUME NEW w \in Workers, wpc[w] = "ready"
                   PROVE  pc'[sess[w]] \in {"serving", "done"} /\ Known(w) = port'[sess[w]]
      BY <1>1 DEF ReadyInv, Known
    <2>2. sess[w] \in Sessions
      BY <2>1 DEF WorkerInv, SystemTypeOK
    <2>3. pc[sess[w]] \in {"serving", "done"} /\ Known(w) = port[sess[w]]
      BY <2>1 DEF ReadyInv
    <2>. QED
      BY <1>1, <2>2, <2>3 DEF Same, Decodes, Allocates, Registers, Announces, Closes
  <1>. QED BY <1>2, <1>3

-----------------------------------------------------------------------------
(* The steps of the service: what they do to the maps and the listeners.   *)

MapsInv == LockInv /\ MemberInv /\ LiveInv /\ DeafInv /\ MappedInv /\ LoopInv

mapVars == <<frontendMap, backends, listener, acceptLoop>>

(* Steps that start no frontend keep a single port single, and a frontend  *)
(* of which a worker had others keeps it from being single.                *)
LEMMA SinglePortBack ==
    ASSUME NEW w, SinglePort(w)',
           \A f \in Sessions : Started(f) => Started(f)' /\ port'[f] = port[f]
    PROVE  SinglePort(w)
  BY DEF SinglePort, Frontends

(* Steps that decode a request, answer, or end a session without having    *)
(* registered it leave the maps alone.                                     *)
LEMMA StillMaps ==
    ASSUME SysInv, ReachInv, NEW s \in Sessions, SessionStep(s),
           Decodes(s) \/ Announces(s) \/ Closes(s),
           UNCHANGED <<mapVars, val>>
    PROVE  MapsInv'
  <1>. USE DEF SysInv, ReachInv, mapVars
  <1>1. /\ \A x \in Sessions : x # s => Same(x)
        /\ UNCHANGED <<frontendPort, sess>>
    BY DEF SessionStep, tcVars
  <1>2. \A x \in Sessions :
            /\ port'[x] = port[x]
            /\ pc'[x] = "allocated" => pc[x] = "allocated"
            /\ Registered(x)' => Registered(x)
            /\ pc'[x] = "allocated" \/ Started(x) => td'[x] = td[x]
    BY <1>1 DEF Same, Decodes, Announces, Closes, Registered, IInv, StartedInv, Frontends
  <1>3. \A x \in Sessions :
            /\ Registered(x) => val[x] \in Sessions
            /\ pc[x] = "allocated" /\ val[x] # Nil => val[x] \in Sessions
    BY HandlerFacts DEF Registered
  <1>4. LockInv'
    BY <1>2, <1>3 DEF LockInv, Key, UserOf, ServiceOf
  <1>5. MemberInv'
    BY <1>1, <1>2, <1>3 DEF MemberInv
  <1>6. LiveInv'
    BY <1>1, <1>2, <1>3 DEF LiveInv, Current, Known
  <1>7. DeafInv'
    <2>1. \A k \in Keys : frontendMap[k] # Nil => frontendMap[k] \in Sessions
      BY MappedFacts
    <2>. QED BY <1>1, <1>2, <2>1 DEF DeafInv, Known, Keys, Key, UserOf, ServiceOf, Authorized
  <1>8. MappedInv'
    <2>1. SUFFICES ASSUME NEW f \in Sessions, SinglePort(WorkerOf[f])', backends[f] # {}
                   PROVE  frontendMap[Key(td'[f])] = f
      BY DEF MappedInv, Frontends, Key, UserOf, ServiceOf
    <2>2. SinglePort(WorkerOf[f])
      BY <1>2, <2>1, SinglePortBack DEF Started
    <2>3. td'[f] = td[f]
      BY <1>2, <2>1 DEF IInv, StartedInv, Frontends
    <2>. QED BY <2>1, <2>2, <2>3 DEF MappedInv, Frontends
  <1>9. LoopInv'
    BY DEF LoopInv
  <1>. QED BY <1>4, <1>5, <1>6, <1>7, <1>8, <1>9 DEF MapsInv

LEMMA AllocateMaps ==
    ASSUME SysInv, ReachInv, NEW s \in Sessions, AllocatePort(s), Silent
    PROVE  MapsInv'
  <1>. USE DEF SysInv, ReachInv
  <1>1. /\ pc[s] = "authorized" /\ MtxFree
        /\ pc' = [pc EXCEPT ![s] = "allocated"]
        /\ val' = [val EXCEPT ![s] = frontendMap[Key(td[s])]]
        /\ UNCHANGED <<td, closed, mapVars, frontendPort, sess>>
    BY DEF AllocatePort, Silent, tcVars, frontVars, mapVars
  <1>2. PICK e \in free \cup {NoElement} :
            port' = [port EXCEPT ![s] = IF WantedPort(s) = AnyElement THEN e ELSE WantedPort(s)]
    BY DEF AllocatePort
  <1>3. \A x \in Sessions : x # s =>
            pc'[x] = pc[x] /\ val'[x] = val[x] /\ port'[x] = port[x]
    BY <1>1, <1>2 DEF IInv, TypeOK
  <1>4. /\ pc'[s] = "allocated" /\ val'[s] = frontendMap[Key(td[s])]
        /\ port'[s] = IF WantedPort(s) = AnyElement THEN e ELSE WantedPort(s)
    BY <1>1, <1>2 DEF IInv, TypeOK
  <1>5. ~Started(s) /\ td[s] \in Requests /\ Authorized(td[s])
    BY <1>1 DEF IInv, StartedInv, Decoded, Working, Frontends
  <1>6. LockInv'
    <2>1. ASSUME frontendMap[Key(td[s])] # Nil, td[s].port = 0
          PROVE  port'[s] = port'[frontendMap[Key(td[s])]]
      <3>1. /\ frontendMap[Key(td[s])] \in Sessions /\ frontendMap[Key(td[s])] # s
            /\ port[frontendMap[Key(td[s])]] # 0
        BY <1>5, <2>1, KeyInKeys, MappedFacts, MappedPort
      <3>. QED BY <1>3, <1>4, <2>1, <3>1 DEF WantedPort, AnyElement
    <2>2. \A x \in Sessions : pc'[x] = "allocated" => x = s
      BY <1>1, <1>3 DEF MtxFree
    <2>. QED BY <1>1, <1>4, <2>1, <2>2 DEF LockInv, mapVars, Key, UserOf, ServiceOf
  <1>7. \A x \in Sessions : Registered(x)' =>
            Registered(x) /\ x # s /\ val[x] \in Sessions /\ val[x] # s
    BY <1>1, <1>3, <1>4, <1>5, HandlerFacts DEF Registered
  <1>8. MemberInv'
    BY <1>1, <1>3, <1>7 DEF MemberInv, mapVars
  <1>9. LiveInv'
    BY <1>1, <1>3, <1>7 DEF LiveInv, Current, Known, mapVars
  <1>10. DeafInv'
    <2>1. \A k \in Keys : frontendMap[k] # Nil =>
            frontendMap[k] \in Sessions /\ frontendMap[k] # s
      BY <1>5, MappedFacts
    <2>. QED
      BY <1>1, <1>3, <2>1 DEF DeafInv, mapVars, Known, Keys, Key, UserOf, ServiceOf, Authorized
  <1>11. MappedInv'
    <2>1. \A w : SinglePort(w)' => SinglePort(w)
      BY <1>1, <1>3, <1>5, SinglePortBack DEF Started, mapVars
    <2>. QED BY <1>1, <2>1 DEF MappedInv, mapVars, Key, UserOf, ServiceOf
  <1>12. LoopInv'
    BY <1>1 DEF LoopInv, mapVars
  <1>. QED BY <1>6, <1>8, <1>9, <1>10, <1>11, <1>12 DEF MapsInv

(* The backends of a frontend are sessions of one worker, which have       *)
(* addresses of their own, so each has an entry of its own.                *)
LEMMA OwnEntries ==
    ASSUME OneWorkerEach, SysInv, ReachInv, NEW s \in Sessions,
           pc[s] \in {"allocated", "registered", "serving"}, val[s] # Nil
    PROVE  /\ AddBackend(val[s], s) = backends[val[s]] \cup {s}
           /\ DelBackend(val[s], s) = backends[val[s]] \ {s}
  <1>1. /\ HasRequest(s) /\ val[s] \in Sessions
        /\ Key(td[val[s]]) = Key(td[s])
    BY HandlerFacts
  <1>2. backends[val[s]] \subseteq Sessions
    BY <1>1 DEF SysInv, IInv, TypeOK, Frontends
  <1>3. \A x \in backends[val[s]] : HasRequest(x) /\ Key(td[x]) = Key(td[s])
    BY <1>1 DEF SysInv, IInv, NoGhostBackend, Frontends, HasRequest, Working
  <1>4. \A x \in backends[val[s]] : WorkerOf[x] = WorkerOf[s]
    BY <1>1, <1>2, <1>3, OneWorker DEF ReachInv
  <1>5. \A x \in backends[val[s]] : SameEntry(x, s) <=> x = s
    BY <1>2, <1>4 DEF OneWorkerEach, SameEntry
  <1>. QED BY <1>5 DEF AddBackend, DelBackend

(* Joining: the current session only finds a frontend that listens. *)
LEMMA ReuseMaps ==
    ASSUME OneWorkerEach, SysInv, ReachInv, NEW s \in Sessions, ReuseFrontend(s), Silent
    PROVE  MapsInv'
  <1>. USE DEF SysInv, ReachInv
  <1>1. /\ pc[s] = "allocated" /\ val[s] # Nil /\ port[val[s]] = port[s]
        /\ backends' = [backends EXCEPT ![val[s]] = AddBackend(val[s], s)]
        /\ pc' = [pc EXCEPT ![s] = "registered"]
        /\ UNCHANGED <<td, port, val, frontendMap, listener, acceptLoop, frontendPort, sess>>
    BY DEF ReuseFrontend, Silent, tcVars
  <1>2. /\ val[s] \in Sessions /\ Key(td[s]) \in Keys /\ frontendMap[Key(td[s])] = val[s]
        /\ Key(td[val[s]]) = Key(td[s])
    BY <1>1, HandlerFacts DEF LockInv
  <1>3. pc'[s] = "registered" /\ \A x \in Sessions : x # s => pc'[x] = pc[x]
    BY <1>1 DEF IInv, TypeOK
  <1>4. /\ s \in backends'[val[s]]
        /\ \A f \in Sessions : backends[f] \subseteq backends'[f]
        /\ \A f \in Sessions : f # val[s] => backends'[f] = backends[f]
    BY <1>1, <1>2, OwnEntries DEF IInv, TypeOK, Frontends
  <1>5. LockInv'
    BY <1>1, <1>3 DEF LockInv, Key, UserOf, ServiceOf
  <1>6. \A x \in Sessions : Registered(x)' => x = s \/ (Registered(x) /\ val[x] \in Sessions)
    BY <1>3, HandlerFacts DEF Registered
  <1>7. MemberInv'
    BY <1>1, <1>4, <1>6 DEF MemberInv
  <1>8. LiveInv'
    <2>1. ASSUME sess[WorkerOf[s]] = s
          PROVE  listener[val[s]] = "open" /\ Known(WorkerOf[s]) \in {0, port[s]}
      <3>1. Known(WorkerOf[s]) \in {0, port[s]}
        BY <1>1, <2>1, CurrentAsks
      <3>2. WorkerOf[val[s]] = WorkerOf[s]
        BY <1>1, <1>2, MappedFacts, HandlerFacts, OneWorker
      <3>. QED BY <1>1, <1>2, <3>1, <3>2 DEF DeafInv
    <2>2. \A x \in Sessions : Current(x)' => Current(x) \/ (x = s /\ sess[WorkerOf[s]] = s)
      BY <1>1, <1>6 DEF Current
    <2>. QED BY <1>1, <2>1, <2>2 DEF LiveInv, Known
  <1>9. DeafInv'
    BY <1>1 DEF DeafInv, Known, Keys, Key, UserOf, ServiceOf, Authorized
  <1>10. MappedInv'
    <2>1. \A w : SinglePort(w)' => SinglePort(w)
      BY <1>1, SinglePortBack DEF Started
    <2>. QED BY <1>1, <1>2, <1>4, <2>1 DEF MappedInv, Frontends, Key, UserOf, ServiceOf
  <1>11. LoopInv'
    BY <1>1 DEF LoopInv
  <1>. QED BY <1>5, <1>7, <1>8, <1>9, <1>10, <1>11 DEF MapsInv

(* Starting a frontend: no current session is behind the one it replaces, *)
(* which is on another port.                                               *)
LEMMA StartMaps ==
    ASSUME OneWorkerEach, SysInv, ReachInv, NEW s \in Sessions, StartFrontend(s), Silent
    PROVE  MapsInv'
  <1>. USE DEF SysInv, ReachInv
  <1>1. /\ pc[s] = "allocated" /\ (val[s] # Nil => port[val[s]] # port[s])
        /\ listener' = [CloseListener(listener, val[s]) EXCEPT ![s] = "open"]
        /\ acceptLoop' = [acceptLoop EXCEPT ![s] = "accepting"]
        /\ frontendMap' = [frontendMap EXCEPT ![Key(td[s])] = s]
        /\ backends' = [backends EXCEPT ![s] = {s}]
        /\ val' = [val EXCEPT ![s] = s]
        /\ pc' = [pc EXCEPT ![s] = "registered"]
        /\ UNCHANGED <<td, port, frontendPort, sess>>
    BY DEF StartFrontend, NeedsFrontend, Silent, tcVars
  <1>2. /\ ~Started(s) /\ Key(td[s]) \in Keys /\ frontendMap[Key(td[s])] = val[s]
        /\ s # Nil /\ HasRequest(s)
    BY <1>1, HandlerFacts, ServiceAssumption DEF LockInv, IInv, StartedInv, Frontends
  <1>3. /\ pc'[s] = "registered" /\ val'[s] = s
        /\ \A x \in Sessions : x # s => pc'[x] = pc[x] /\ val'[x] = val[x]
    BY <1>1 DEF IInv, TypeOK
  <1>4. /\ listener'[s] = "open" /\ acceptLoop'[s] = "accepting" /\ backends'[s] = {s}
        /\ \A f \in Sessions : f # s =>
            acceptLoop'[f] = acceptLoop[f] /\ backends'[f] = backends[f]
        /\ \A f \in Sessions : f # s /\ f # val[s] => listener'[f] = listener[f]
        /\ \A f \in Sessions : f # s /\ listener[f] # "open" => listener'[f] = listener[f]
        /\ \A f \in Sessions : Started(f) => Started(f)'
        /\ Started(s)'
    BY <1>1 DEF CloseListener, IInv, TypeOK, Frontends, Started
  <1>5. /\ frontendMap'[Key(td[s])] = s
        /\ \A k \in Keys : k # Key(td[s]) => frontendMap'[k] = frontendMap[k]
    BY <1>1, <1>2 DEF IInv, TypeOK
  <1>6. LockInv'
    BY <1>1, <1>3 DEF LockInv
  <1>7. ASSUME NEW x \in Sessions, Registered(x)', x # s
        PROVE  /\ Registered(x) /\ val'[x] = val[x]
               /\ val[x] \in Sessions /\ val[x] # s /\ val[x] # Nil
    BY <1>2, <1>3, <1>7, HandlerFacts, ServiceAssumption DEF Registered
  <1>8. MemberInv'
    BY <1>1, <1>3, <1>4, <1>7 DEF MemberInv
  <1>9. LiveInv'
    <2>1. ASSUME NEW x \in Sessions, Current(x)', x # s
          PROVE  /\ listener'[val'[x]] = "open"
                 /\ Known(WorkerOf[x]) \in {0, port[x]}
      <3>1. Current(x) /\ val'[x] = val[x] /\ val[x] \in Sessions /\ val[x] # s /\ val[x] # Nil
        BY <1>1, <1>7, <2>1 DEF Current
      <3>2. val[x] # val[s]
        BY <1>1, <3>1, LeavesNobody
      <3>. QED BY <1>4, <3>1, <3>2 DEF LiveInv
    <2>2. Current(s)' => Known(WorkerOf[s]) \in {0, port[s]}
      BY <1>1, CurrentAsks DEF Current
    <2>3. ASSUME NEW x \in Sessions, Current(x)'
          PROVE  listener'[val'[x]] = "open" /\ Known(WorkerOf[x]) \in {0, port[x]}
      BY <1>3, <1>4, <2>1, <2>2, <2>3
    <2>. QED BY <1>1, <2>3 DEF LiveInv, Known
  <1>10. DeafInv'
    <2>1. ASSUME NEW k \in Keys, frontendMap'[k] # Nil, listener'[frontendMap'[k]] # "open"
          PROVE  Known(WorkerOf[frontendMap'[k]]) \notin {0, port[frontendMap'[k]]}
      <3>1. k # Key(td[s]) /\ frontendMap'[k] = frontendMap[k]
        BY <1>4, <1>5, <2>1
      <3>2. frontendMap[k] \in Sessions /\ frontendMap[k] # s /\ Key(td[frontendMap[k]]) = k
        BY <1>2, <2>1, <3>1, MappedFacts
      <3>3. frontendMap[k] # val[s]
        BY <1>1, <3>1, <3>2, HandlerFacts, ServiceAssumption
      <3>. QED BY <1>4, <2>1, <3>1, <3>2, <3>3 DEF DeafInv
    <2>. QED BY <1>1, <2>1 DEF DeafInv, Known, Keys, Key, UserOf, ServiceOf, Authorized
  <1>11. MappedInv'
    <2>1. SUFFICES ASSUME NEW f \in Sessions, SinglePort(WorkerOf[f])', backends'[f] # {}
                   PROVE  frontendMap'[Key(td[f])] = f
      BY <1>1 DEF MappedInv, Frontends, Key, UserOf, ServiceOf
    <2>2. CASE f = s
      BY <1>5, <2>2
    <2>3. CASE f # s
      <3>1. SinglePort(WorkerOf[f])
        BY <1>1, <1>4, <2>1, SinglePortBack
      <3>2. backends[f] # {} /\ Started(f) /\ frontendMap[Key(td[f])] = f /\ f # Nil
        BY <1>4, <2>1, <2>3, <3>1, ServiceAssumption DEF MappedInv, IInv, StartedInv, Frontends
      <3>3. Key(td[f]) # Key(td[s])
        <4>1. SUFFICES ASSUME Key(td[f]) = Key(td[s])
                       PROVE  FALSE
          OBVIOUS
        <4>2. val[s] = f
          BY <1>2, <3>2, <4>1
        <4>3. port[f] # port[s] /\ WorkerOf[f] = WorkerOf[s]
          BY <1>1, <3>2, <4>2, LeavesNobody
        <4>4. Started(f)' /\ Started(s)'
          BY <1>4, <3>2
        <4>. QED BY <1>1, <2>1, <4>3, <4>4 DEF SinglePort, Frontends
      <3>4. Key(td[f]) \in Keys
        BY <3>2, KeyInKeys DEF IInv, Decoded
      <3>. QED BY <1>5, <3>2, <3>3, <3>4
    <2>. QED BY <2>2, <2>3
  <1>12. LoopInv'
    <2>1. \A f \in Sessions : acceptLoop'[f] = "ended" => listener'[f] # "open"
      BY <1>4 DEF LoopInv, Frontends
    <2>. QED BY <2>1 DEF LoopInv, Frontends
  <1>. QED BY <1>6, <1>8, <1>9, <1>10, <1>11, <1>12 DEF MapsInv

(* The port cannot be bound: the old listener is closed all the same, and  *)
(* what stays in the map is deaf, on a port its worker will not ask for.   *)
LEMMA StartFailsMaps ==
    ASSUME OneWorkerEach, SysInv, ReachInv, NEW s \in Sessions, StartFrontendFails(s), Silent
    PROVE  MapsInv'
  <1>. USE DEF SysInv, ReachInv
  <1>1. /\ pc[s] = "allocated" /\ (val[s] # Nil => port[val[s]] # port[s])
        /\ listener' = CloseListener(listener, val[s])
        /\ pc' = [pc EXCEPT ![s] = "done"]
        /\ UNCHANGED <<td, port, val, frontendMap, acceptLoop, backends, frontendPort, sess>>
    BY DEF StartFrontendFails, NeedsFrontend, Return, Silent, tcVars
  <1>2. pc'[s] = "done" /\ \A x \in Sessions : x # s => pc'[x] = pc[x]
    BY <1>1 DEF IInv, TypeOK
  <1>3. /\ \A f \in Sessions : f # val[s] => listener'[f] = listener[f]
        /\ \A f \in Sessions : listener[f] # "open" => listener'[f] = listener[f]
        /\ \A f \in Sessions : Started(f) <=> Started(f)'
    BY <1>1 DEF CloseListener, Frontends, Started
  <1>4. LockInv'
    BY <1>1, <1>2 DEF LockInv, Key, UserOf, ServiceOf
  <1>5. \A x \in Sessions : Registered(x)' => Registered(x) /\ val[x] \in Sessions /\ val[x] # Nil
    BY <1>2, HandlerFacts DEF Registered
  <1>6. MemberInv'
    BY <1>1, <1>5 DEF MemberInv
  <1>7. LiveInv'
    <2>1. ASSUME NEW x \in Sessions, Current(x)'
          PROVE  Current(x) /\ listener'[val[x]] = listener[val[x]]
      <3>1. Current(x) /\ val[x] \in Sessions /\ val[x] # Nil
        BY <1>1, <1>5, <2>1 DEF Current
      <3>2. val[x] # val[s]
        BY <1>1, <3>1, LeavesNobody
      <3>. QED BY <1>3, <3>1, <3>2
    <2>. QED BY <1>1, <2>1 DEF LiveInv, Known
  <1>8. DeafInv'
    <2>1. ASSUME NEW k \in Keys, frontendMap[k] # Nil, listener'[frontendMap[k]] # "open"
          PROVE  Known(WorkerOf[frontendMap[k]]) \notin {0, port[frontendMap[k]]}
      <3>1. frontendMap[k] \in Sessions
        BY <2>1, MappedFacts
      <3>2. CASE frontendMap[k] # val[s]
        BY <1>3, <2>1, <3>1, <3>2 DEF DeafInv
      <3>3. CASE frontendMap[k] = val[s]
        BY <1>1, <2>1, <3>3, LeavesNobody
      <3>. QED BY <3>2, <3>3
    <2>. QED BY <1>1, <2>1 DEF DeafInv, Known, Keys, Key, UserOf, ServiceOf, Authorized
  <1>9. MappedInv'
    <2>1. \A w : SinglePort(w)' => SinglePort(w)
      BY <1>1, <1>3, SinglePortBack
    <2>. QED BY <1>1, <2>1 DEF MappedInv, Key, UserOf, ServiceOf
  <1>10. LoopInv'
    BY <1>1, <1>3 DEF LoopInv, Frontends
  <1>. QED BY <1>4, <1>6, <1>7, <1>8, <1>9, <1>10 DEF MapsInv

(* Cleaning up: who leaves last takes the map entry of its service along.  *)
(* When the frontends of the worker are on a single port, that is the      *)
(* entry of its own frontend, and no other frontend has backends.          *)
LEMMA CleanupMaps ==
    ASSUME OneWorkerEach, SysInv, ReachInv, NEW s \in Sessions, Cleanup(s), Silent
    PROVE  MapsInv'
  <1>. USE DEF SysInv, ReachInv
  <1>. DEFINE f == val[s]
  <1>1. /\ pc[s] = "serving" /\ MtxFree
        /\ backends' = [backends EXCEPT ![f] = DelBackend(f, s)]
        /\ listener' = ListenersAfter(s) /\ frontendMap' = FrontendMapAfter(s)
        /\ pc' = [pc EXCEPT ![s] = "done"]
        /\ UNCHANGED <<td, port, val, acceptLoop, frontendPort, sess>>
    BY DEF Cleanup, Return, Silent, tcVars
  <1>2. /\ f \in Sessions /\ f # Nil /\ Key(td[s]) \in Keys /\ Key(td[f]) = Key(td[s])
        /\ s \in backends[f] /\ HasRequest(s) /\ Started(f)
    BY <1>1, HandlerFacts DEF MemberInv, Registered
  <1>3. pc'[s] = "done" /\ \A x \in Sessions : x # s => pc'[x] = pc[x]
    BY <1>1 DEF IInv, TypeOK
  <1>4. /\ backends'[f] = backends[f] \ {s}
        /\ \A g \in Sessions : g # f => backends'[g] = backends[g]
    BY <1>1, <1>2, OwnEntries DEF IInv, TypeOK, Frontends
  <1>5. /\ \A g \in Sessions : g # f => listener'[g] = listener[g]
        /\ \A g \in Sessions : listener[g] # "open" => listener'[g] = listener[g]
        /\ \A g \in Sessions : Started(g) <=> Started(g)'
        /\ backends[f] # {s} => listener' = listener
    BY <1>1, <1>2, OwnEntries
    DEF ListenersAfter, LeavesLast, CloseListener, Frontends, Started
  <1>6. /\ \A k \in Keys : k # Key(td[s]) => frontendMap'[k] = frontendMap[k]
        /\ backends[f] # {s} => frontendMap' = frontendMap
        /\ backends[f] = {s} => frontendMap'[Key(td[s])] = Nil
    BY <1>1, <1>2, OwnEntries DEF FrontendMapAfter, LeavesLast, IInv, TypeOK
  <1>7. LockInv'
    <2>1. \A x \in Sessions : pc'[x] # "allocated"
      BY <1>1, <1>3 DEF MtxFree
    <2>. QED BY <2>1 DEF LockInv
  <1>8. \A x \in Sessions : Registered(x)' =>
            Registered(x) /\ x # s /\ val[x] \in Sessions /\ x \in backends[val[x]]
    BY <1>3, HandlerFacts DEF Registered, MemberInv
  <1>9. MemberInv'
    BY <1>1, <1>4, <1>8 DEF MemberInv
  <1>10. LiveInv'
    <2>1. ASSUME NEW x \in Sessions, Current(x)'
          PROVE  Current(x) /\ listener'[val[x]] = listener[val[x]]
      <3>1. Current(x) /\ x # s /\ val[x] \in Sessions /\ x \in backends[val[x]]
        BY <1>1, <1>8, <2>1 DEF Current
      <3>2. CASE val[x] = f
        BY <1>5, <3>1, <3>2
      <3>3. CASE val[x] # f
        BY <1>5, <3>1, <3>3
      <3>. QED BY <3>1, <3>2, <3>3
    <2>. QED BY <1>1, <2>1 DEF LiveInv, Known
  <1>11. DeafInv'
    <2>1. ASSUME NEW k \in Keys, frontendMap'[k] # Nil, listener'[frontendMap'[k]] # "open"
          PROVE  Known(WorkerOf[frontendMap'[k]]) \notin {0, port[frontendMap'[k]]}
      <3>1. CASE backends[f] # {s}
        BY <1>5, <1>6, <2>1, <3>1 DEF DeafInv
      <3>2. CASE backends[f] = {s}
        <4>1. k # Key(td[s]) /\ frontendMap'[k] = frontendMap[k]
          BY <1>6, <2>1, <3>2
        <4>2. frontendMap[k] \in Sessions /\ frontendMap[k] # f
          BY <1>2, <2>1, <4>1, MappedFacts
        <4>. QED BY <1>5, <2>1, <4>1, <4>2 DEF DeafInv
      <3>. QED BY <3>1, <3>2
    <2>. QED BY <1>1, <2>1 DEF DeafInv, Known, Keys, Key, UserOf, ServiceOf, Authorized
  <1>12. MappedInv'
    <2>1. SUFFICES ASSUME NEW g \in Sessions, SinglePort(WorkerOf[g])', backends'[g] # {}
                   PROVE  frontendMap'[Key(td[g])] = g
      BY <1>1 DEF MappedInv, Frontends, Key, UserOf, ServiceOf
    <2>2. SinglePort(WorkerOf[g])
      BY <1>1, <1>5, <2>1, SinglePortBack
    <2>3. backends[g] # {} /\ Started(g) /\ frontendMap[Key(td[g])] = g
      BY <1>4, <2>1, <2>2 DEF MappedInv, IInv, StartedInv, Frontends
    <2>4. CASE backends[f] # {s}
      BY <1>6, <2>3, <2>4
    <2>5. CASE backends[f] = {s}
      <3>1. g # f
        BY <1>4, <2>1, <2>5
      <3>2. Key(td[g]) # Key(td[s])
        <4>1. SUFFICES ASSUME Key(td[g]) = Key(td[f])
                       PROVE  FALSE
          BY <1>2
        <4>2. WorkerOf[g] = WorkerOf[f]
          BY <1>2, <2>3, <4>1, OneWorker DEF HasRequest
        <4>3. frontendMap[Key(td[f])] = f
          BY <1>2, <2>2, <4>2 DEF MappedInv, Frontends
        <4>. QED BY <2>3, <3>1, <4>1, <4>3
      <3>3. Key(td[g]) \in Keys
        BY <2>3, KeyInKeys DEF IInv, Decoded
      <3>. QED BY <1>6, <2>3, <3>2, <3>3
    <2>. QED BY <2>4, <2>5
  <1>13. LoopInv'
    BY <1>1, <1>5 DEF LoopInv, Frontends
  <1>. QED BY <1>7, <1>9, <1>10, <1>11, <1>12, <1>13 DEF MapsInv

-----------------------------------------------------------------------------
(* Every step of the composition keeps ReachInv.                           *)

LEMMA ServeReach ==
    ASSUME OneWorkerEach, SysInv, ReachInv, NEW s \in Sessions,
           Serve(s) \/ (SessionCloses(s) /\ Silent)
    PROVE  ReachInv'
  <1>1. SessionStep(s)
    BY ServeIsStep
  <1>2. OwnInv' /\ ReadyInv'
    BY <1>1, SessionStepOwn
  <1>3. MapsInv'
    <2>1. CASE Receives(s) /\ Authorize(s, request[s])
      <3>1. pc[s] = "accepted" /\ pc'[s] = "authorized" /\ UNCHANGED <<mapVars, val>>
        BY <2>1 DEF Authorize, frontVars, mapVars, SysInv, IInv, TypeOK
      <3>2. Decodes(s)
        BY <1>1, <3>1 DEF SessionStep, Allocates, Registers, Announces, Closes
      <3>. QED BY <1>1, <3>1, <3>2, StillMaps
    <2>2. CASE DecodeFails(s) \/ OutOfPorts(s) \/ SendResponseFails(s)
      <3>1. /\ pc[s] \in {"accepted", "authorized", "registered"}
            /\ pc'[s] \in {"done", "sendFailed"} /\ UNCHANGED <<mapVars, val>>
        BY <2>2
        DEF DecodeFails, OutOfPorts, SendResponseFails, Return, frontVars, mapVars, SysInv, IInv,
            TypeOK
      <3>2. Closes(s)
        BY <1>1, <3>1 DEF SessionStep, Decodes, Allocates, Registers, Announces
      <3>. QED BY <1>1, <3>1, <3>2, StillMaps
    <2>3. CASE SendResponse(s)
      <3>1. pc[s] = "registered" /\ pc'[s] = "serving" /\ UNCHANGED <<mapVars, val>>
        BY <2>3 DEF SendResponse, frontVars, mapVars, SysInv, IInv, TypeOK
      <3>2. Announces(s)
        BY <1>1, <3>1 DEF SessionStep, Decodes, Allocates, Registers, Closes
      <3>. QED BY <1>1, <3>1, <3>2, StillMaps
    <2>4. CASE SessionCloses(s) /\ Silent
      <3>1. pc' = pc /\ UNCHANGED <<mapVars, val>>
        BY <2>4 DEF SessionCloses, frontVars, mapVars
      <3>2. Closes(s)
        BY <1>1, <3>1 DEF SessionStep, Decodes, Allocates, Registers, Announces
      <3>. QED BY <1>1, <3>1, <3>2, StillMaps
    <2>5. CASE AllocatePort(s) /\ Silent
      BY <2>5, AllocateMaps
    <2>6. CASE ReuseFrontend(s) /\ Silent
      BY <2>6, ReuseMaps
    <2>7. CASE StartFrontend(s) /\ Silent
      BY <2>7, StartMaps
    <2>8. CASE StartFrontendFails(s) /\ Silent
      BY <2>8, StartFailsMaps
    <2>9. CASE Cleanup(s) /\ Silent
      BY <2>9, CleanupMaps
    <2>. QED BY <2>1, <2>2, <2>3, <2>4, <2>5, <2>6, <2>7, <2>8, <2>9 DEF Serve
  <1>. QED BY <1>2, <1>3 DEF ReachInv, MapsInv

(* Steps of the clients that neither send nor receive leave the service,   *)
(* the requests and the ports as they are, and lose sessions at most.      *)
LEMMA QuietReach ==
    ASSUME SysInv, ReachInv,
           UNCHANGED <<pc, td, port, val, frontendMap, listener, backends>>,
           UNCHANGED <<request, asked, frontendPort>>,
           \A w \in Workers : sess'[w] \in {sess[w], Nil},
           \A w \in Workers : wpc'[w] \in {"waiting", "ready"} =>
                wpc'[w] = wpc[w] /\ sess'[w] = sess[w],
           LoopInv'
    PROVE  ReachInv'
  <1>. USE DEF ReachInv, Key, UserOf, ServiceOf, Known
  <1>1. OwnInv'
    BY DEF OwnInv, HasRequest, Working, Started, FirstPort, Service
  <1>2. ReadyInv'
    BY DEF ReadyInv
  <1>3. LockInv' /\ MemberInv'
    BY DEF LockInv, MemberInv, Registered
  <1>4. LiveInv'
    <2>1. \A s \in Sessions : Current(s)' => Current(s)
      BY SystemAssumption, ServiceAssumption DEF Current, Registered
    <2>. QED BY <2>1 DEF LiveInv
  <1>5. DeafInv' /\ MappedInv'
    BY DEF DeafInv, MappedInv, SinglePort, Started, Keys, Authorized
  <1>. QED BY <1>1, <1>2, <1>3, <1>4, <1>5

LEMMA ReturnsReach ==
    ASSUME SysInv, ReachInv, NEW w \in Workers, ClientReturns(w)
    PROVE  ReachInv'
  <1>1. /\ wpc' = [wpc EXCEPT ![w] = "back"] /\ sess' = [sess EXCEPT ![w] = Nil]
        /\ UNCHANGED <<pc, td, port, val, frontendMap, listener, backends, acceptLoop>>
        /\ UNCHANGED <<request, asked, frontendPort>>
    BY DEF ClientReturns, ServiceUnchanged, serviceVars, vars, sessVars, frontVars
  <1>2. /\ wpc'[w] = "back" /\ sess'[w] = Nil
        /\ \A x \in Workers : x # w => wpc'[x] = wpc[x] /\ sess'[x] = sess[x]
    BY <1>1 DEF SysInv, SystemTypeOK
  <1>3. LoopInv'
    BY <1>1 DEF ReachInv, LoopInv
  <1>. QED BY <1>1, <1>2, <1>3, QuietReach

LEMMA ConnectReach ==
    ASSUME SysInv, ReachInv, NEW w \in Workers, NEW s \in Sessions, Connect(w, s)
    PROVE  ReachInv'
  <1>. USE DEF SysInv, ReachInv
  <1>1. /\ wpc[w] = "handshake" /\ WorkerOf[s] = w /\ pc[s] = "idle"
        /\ wpc' = [wpc EXCEPT ![w] = "opened"] /\ sess' = [sess EXCEPT ![w] = s]
        /\ pc' = [pc EXCEPT ![s] = "accepted"]
        /\ UNCHANGED <<td, port, val, frontendMap, listener, backends, acceptLoop>>
        /\ UNCHANGED <<request, asked, frontendPort>>
    BY DEF Connect, Accept, frontVars, wireVars
  <1>2. /\ wpc'[w] = "opened" /\ sess'[w] = s
        /\ \A x \in Workers : x # w => wpc'[x] = wpc[x] /\ sess'[x] = sess[x]
    BY <1>1 DEF SystemTypeOK
  <1>3. pc'[s] = "accepted" /\ \A x \in Sessions : x # s => pc'[x] = pc[x]
    BY <1>1 DEF IInv, TypeOK
  <1>4. OwnInv'
    <2>1. \A x \in Sessions : HasRequest(x)' => HasRequest(x)
      BY <1>1, <1>3 DEF HasRequest, Working, Started
    <2>. QED BY <1>1, <1>2, <2>1 DEF OwnInv, Known, FirstPort, Service, Key, UserOf, ServiceOf
  <1>5. ReadyInv'
    <2>1. \A x \in Workers : wpc[x] = "ready" => sess[x] \in Sessions /\ sess[x] # s
      BY <1>1 DEF SystemTypeOK, WorkerInv
    <2>. QED BY <1>1, <1>2, <1>3, <2>1 DEF ReadyInv, Known
  <1>6. LockInv' /\ LoopInv'
    BY <1>1, <1>3 DEF LockInv, LoopInv, Key, UserOf, ServiceOf
  <1>7. MemberInv'
    BY <1>1, <1>3 DEF MemberInv, Registered
  <1>8. LiveInv'
    <2>1. \A x \in Sessions : Current(x)' => Current(x)
      BY <1>1, <1>2, <1>3, SystemAssumption DEF Current, Registered
    <2>. QED BY <1>1, <2>1 DEF LiveInv, Known
  <1>9. DeafInv' /\ MappedInv'
    BY <1>1
    DEF DeafInv, MappedInv, SinglePort, Started, Known, Keys, Key, UserOf, ServiceOf, Authorized
  <1>. QED BY <1>4, <1>5, <1>6, <1>7, <1>8, <1>9

LEMMA SendRequestReach ==
    ASSUME SysInv, ReachInv, NEW w \in Workers, SendRequest(w)
    PROVE  ReachInv'
  <1>. USE DEF SysInv, ReachInv
  <1>. DEFINE c == ClientOf[w]
              s == sess[w]
  <1>1. c \in Clients /\ s \in Sessions /\ WorkerOf[s] = w
    BY ClientOfWorker DEF SendRequest, SystemTypeOK, WorkerInv
  <1>2. /\ request' = [request EXCEPT ![s] = CurrentTunnelData(c)]
        /\ asked' = [asked EXCEPT ![w] = CurrentTunnelData(c).port]
        /\ wpc' = [wpc EXCEPT ![w] = "waiting"]
        /\ UNCHANGED <<pc, td, port, val, frontendMap, listener, backends, acceptLoop>>
        /\ UNCHANGED <<sess, frontendPort>>
    BY DEF SendRequest, ServiceUnchanged, serviceVars, vars, sessVars, frontVars
  <1>3. /\ wpc'[w] = "waiting" /\ asked'[w] = Known(w)
        /\ Key(request'[s]) = Service(w) /\ request'[s].port = Known(w)
        /\ \A x \in Workers : x # w => wpc'[x] = wpc[x] /\ asked'[x] = asked[x]
        /\ \A x \in Sessions : x # s => request'[x] = request[x]
    BY <1>1, <1>2, AsksKnown DEF SystemTypeOK, Known, Service
  <1>4. OwnInv'
    <2>1. /\ UNCHANGED <<td, frontendPort>> /\ \A x \in Sessions : HasRequest(x)' <=> HasRequest(x)
          /\ \A x : Known(x)' = Known(x) /\ FirstPort(x)' = FirstPort(x) /\ Service(x)' = Service(x)
      BY <1>2 DEF HasRequest, Working, Started, Known, FirstPort, Service
    <2>2. ASSUME NEW x \in Sessions, HasRequest(x)'
          PROVE  /\ Key(td[x])' = Service(WorkerOf[x])
                 /\ td'[x].port \in {FirstPort(WorkerOf[x]), Known(WorkerOf[x])}
      BY <2>1, <2>2 DEF OwnInv, Key, UserOf, ServiceOf
    <2>3. ASSUME NEW x \in Sessions, request'[x] # Nil
          PROVE  /\ Key(request[x])' = Service(WorkerOf[x])
                 /\ request'[x].port \in {FirstPort(WorkerOf[x]), Known(WorkerOf[x])}
      <3>1. CASE x = s
        BY <1>1, <1>3, <3>1 DEF Key, UserOf, ServiceOf
      <3>2. CASE x # s
        <4>1. request'[x] = request[x] /\ request[x] # Nil
          BY <1>3, <2>3, <3>2
        <4>2. /\ Key(request[x]) = Service(WorkerOf[x])
              /\ request[x].port \in {FirstPort(WorkerOf[x]), Known(WorkerOf[x])}
          BY <4>1 DEF OwnInv
        <4>. QED BY <4>1, <4>2 DEF Key, UserOf, ServiceOf
      <3>. QED BY <3>1, <3>2
    <2>4. ASSUME NEW x \in Workers
          PROVE  /\ wpc'[x] = "waiting" => asked'[x] = Known(x)
                 /\ FirstPort(x) \in {0, Known(x)}
      BY <1>3, <2>4 DEF OwnInv
    <2>. QED BY <2>1, <2>2, <2>3, <2>4 DEF OwnInv
  <1>5. ReadyInv'
    BY <1>2, <1>3 DEF ReadyInv, Known
  <1>6. LockInv' /\ LoopInv'
    BY <1>2 DEF LockInv, LoopInv, Key, UserOf, ServiceOf
  <1>7. MemberInv' /\ LiveInv'
    BY <1>2 DEF MemberInv, LiveInv, Current, Registered, Known
  <1>8. DeafInv' /\ MappedInv'
    BY <1>2
    DEF DeafInv, MappedInv, SinglePort, Started, Known, Keys, Key, UserOf, ServiceOf, Authorized
  <1>. QED BY <1>4, <1>5, <1>6, <1>7, <1>8

(* A worker learns a port: that of its session, which it knew already if   *)
(* it knew one.                                                            *)
LEMMA ReceivePortReach ==
    ASSUME OneWorkerEach, SysInv, ReachInv, NEW w \in Workers, ReceivePort(w)
    PROVE  ReachInv'
  <1>. USE DEF SysInv, ReachInv
  <1>. DEFINE s == sess[w]
  <1>1. /\ wpc[w] = "waiting" /\ s \in Sessions /\ WorkerOf[s] = w
        /\ response[s].port = port[s]
        /\ Known(w) # 0 => port[s] = Known(w)
        /\ response[s] \notin {Nil, Refusal}
    <2>1. wpc[w] = "waiting" /\ response[s] # Nil /\ ~response[s].error
      BY DEF ReceivePort
    <2>2. response[s] # Refusal
      BY <2>1 DEF Refusal
    <2>. QED BY <2>1, <2>2, ToldAsAsked DEF WorkerInv, OwnInv
  <1>2. /\ frontendPort' = [frontendPort EXCEPT ![ClientOf[w]] = response[s].port]
        /\ wpc' = [wpc EXCEPT ![w] = "ready"]
        /\ UNCHANGED <<pc, td, port, val, frontendMap, listener, backends, acceptLoop>>
        /\ UNCHANGED <<request, sess, asked>>
    BY DEF ReceivePort, ServiceUnchanged, serviceVars, vars, sessVars, frontVars
  <1>3. wpc'[w] = "ready" /\ \A x \in Workers : x # w => wpc'[x] = wpc[x]
    BY <1>2 DEF SystemTypeOK
  <1>4. Known(w)' = port[s]
    BY <1>1, <1>2, ClientOfWorker DEF Known, SystemTypeOK
  <1>5. \A x \in Workers : x # w => Known(x)' = Known(x)
    <2>1. \A x \in Workers : x # w => ClientOf[x] # ClientOf[w]
      BY DEF OneWorkerEach
    <2>. QED BY <1>2, <2>1, ClientOfWorker DEF Known, SystemTypeOK
  <1>6. \A x \in Sessions : WorkerOf[x] \in Workers
    BY SystemAssumption
  <1>7. \A x \in Workers : Known(x)' = Known(x) \/ (x = w /\ Known(x) = 0)
    BY <1>1, <1>4, <1>5
  <1>8. \A x \in Workers : /\ FirstPort(x)' = FirstPort(x)
                          /\ FirstPort(x) \in {0, Known(x)'}
                          /\ Known(x) \in {FirstPort(x), Known(x)'}
    BY <1>7 DEF OwnInv, FirstPort
  <1>9. OwnInv'
    BY <1>2, <1>3, <1>6, <1>7, <1>8
    DEF OwnInv, HasRequest, Working, Started, Service, Key, UserOf, ServiceOf
  <1>10. ReadyInv'
    <2>1. pc[s] \in {"serving", "done"}
      BY <1>1 DEF ResponseInv
    <2>. QED BY <1>2, <1>3, <1>4, <1>5, <2>1 DEF ReadyInv
  <1>11. LockInv' /\ LoopInv' /\ MemberInv'
    BY <1>2 DEF LockInv, LoopInv, MemberInv, Registered, Key, UserOf, ServiceOf
  <1>12. LiveInv'
    <2>1. \A x \in Sessions : Current(x)' <=> Current(x)
      BY <1>2 DEF Current, Registered
    <2>2. \A x \in Sessions : Current(x) => Known(WorkerOf[x])' \in {0, port[x]}
      BY <1>1, <1>4, <1>5, <1>6 DEF LiveInv, Current
    <2>. QED BY <1>2, <2>1, <2>2 DEF LiveInv
  <1>13. DeafInv'
    <2>1. ASSUME NEW k \in Keys, frontendMap[k] # Nil, listener[frontendMap[k]] # "open"
          PROVE  Known(WorkerOf[frontendMap[k]])' \notin {0, port[frontendMap[k]]}
      <3>1. frontendMap[k] \in Sessions
        BY <2>1, MappedFacts
      <3>2. Known(WorkerOf[frontendMap[k]]) \notin {0, port[frontendMap[k]]}
        BY <2>1 DEF DeafInv
      <3>. QED BY <1>2, <1>6, <1>7, <3>1, <3>2 DEF Known
    <2>. QED BY <1>2, <2>1 DEF DeafInv, Known, Keys, Key, UserOf, ServiceOf, Authorized
  <1>14. MappedInv'
    BY <1>2 DEF MappedInv, SinglePort, Started, Key, UserOf, ServiceOf
  <1>. QED BY <1>9, <1>10, <1>11, <1>12, <1>13, <1>14

LEMMA ReachStart == SystemInit => ReachInv
  <1>. SUFFICES ASSUME SystemInit PROVE ReachInv
    OBVIOUS
  <1>1. OwnInv
    BY ClientOfWorker
    DEF SystemInit, Init, OwnInv, HasRequest, Working, Started, Frontends, FirstPort, Known
  <1>2. ReadyInv /\ LockInv /\ MemberInv /\ LiveInv
    BY DEF SystemInit, Init, ReadyInv, LockInv, MemberInv, LiveInv, Current, Registered
  <1>3. DeafInv /\ MappedInv /\ LoopInv
    BY DEF SystemInit, Init, DeafInv, MappedInv, LoopInv, Frontends
  <1>. QED BY <1>1, <1>2, <1>3 DEF ReachInv

LEMMA ReachStep ==
    ASSUME OneWorkerEach, SysInv, ReachInv, [SystemNext]_systemVars
    PROVE  ReachInv'
  <1>1. ASSUME NEW w \in Workers, Worker(w)
        PROVE  ReachInv'
    <2>1. CASE Attempt(w) \/ Dial(w) \/ Pause(w)
      <3>1. /\ UNCHANGED <<pc, td, port, val, frontendMap, listener, backends, acceptLoop>>
            /\ UNCHANGED <<request, sess, asked, frontendPort>>
        BY <2>1
        DEF Attempt, Dial, Pause, ServiceUnchanged, serviceVars, vars, sessVars, frontVars, wireVars
      <3>2. \A x \in Workers : wpc'[x] \in {"waiting", "ready"} => wpc'[x] = wpc[x]
        BY <2>1 DEF Attempt, Dial, Pause, SysInv, SystemTypeOK
      <3>3. LoopInv'
        BY <3>1 DEF ReachInv, LoopInv
      <3>. QED BY <3>1, <3>2, <3>3, QuietReach
    <2>. QED
      BY <1>1, <2>1, WorkerSteps, ReturnsReach, ConnectReach, SendRequestReach, ReceivePortReach
  <1>2. ASSUME NEW s \in Sessions, Serve(s) \/ (SessionCloses(s) /\ Silent)
        PROVE  ReachInv'
    BY <1>2, ServeReach
  <1>3. CASE \/ \E w \in Workers : SessionLost(w)
             \/ \E c \in Clients : TCClose(c)
             \/ AllStopped
             \/ UNCHANGED systemVars
    <2>1. /\ UNCHANGED <<pc, td, port, val, frontendMap, listener, backends, acceptLoop>>
          /\ UNCHANGED <<request, sess, asked, frontendPort, wpc>>
      BY <1>3
      DEF SessionLost, TCClose, AllStopped, ServiceUnchanged, systemVars, serviceVars, vars,
          sessVars, frontVars, wireVars, tcVars
    <2>2. LoopInv'
      BY <2>1 DEF ReachInv, LoopInv
    <2>. QED BY <2>1, <2>2, QuietReach
  <1>4. ASSUME NEW f \in Frontends, AcceptLoopEnds(f), Silent
        PROVE  ReachInv'
    <2>1. /\ UNCHANGED <<pc, td, port, val, frontendMap, listener, backends>>
          /\ UNCHANGED <<request, sess, asked, frontendPort, wpc>>
      BY <1>4 DEF AcceptLoopEnds, Silent, sessVars, wireVars, tcVars
    <2>2. LoopInv'
      BY <1>4 DEF AcceptLoopEnds, OneWorkerEach, ReachInv, LoopInv, SysInv, IInv, TypeOK
    <2>. QED BY <2>1, <2>2, QuietReach
  <1>. QED BY <1>1, <1>2, <1>3, <1>4 DEF SystemNext

(* ReachInv holds in every reachable state. *)
THEOREM ReachInvariance ==
    ASSUME OneWorkerEach
    PROVE  SystemSpec => []ReachInv
  <1>1. SysInv /\ ReachInv /\ [SystemNext]_systemVars => ReachInv'
    BY ReachStep
  <1>. QED BY <1>1, ReachStart, SystemInvariance, PTL DEF SystemSpec

-----------------------------------------------------------------------------

LEMMA UpIsServed ==
    ASSUME SysInv, ReachInv, NEW w \in Workers, Up(w)
    PROVE  LET f == val[sess[w]] IN
           /\ f \in Frontends /\ Listening(f) /\ Started(f) /\ WorkerOf[sess[w]] = w
           /\ port[f] = Known(w) /\ sess[w] \in backends[f]
           /\ Key(td[f]) = Service(w) /\ Service(w) \in Keys
  <1>. DEFINE s == sess[w]
              f == val[s]
  <1>1. s \in Sessions /\ WorkerOf[s] = w /\ Current(s)
    BY DEF Up, Open, SysInv, WorkerInv, SystemTypeOK, Current, Registered
  <1>2. /\ HasRequest(s) /\ f \in Sessions /\ Started(f)
        /\ Key(td[s]) \in Keys /\ Key(td[f]) = Key(td[s])
    BY <1>1, HandlerFacts DEF Up
  <1>3. Key(td[s]) = Service(w)
    BY <1>1, <1>2 DEF ReachInv, OwnInv
  <1>4. /\ s \in backends[f] /\ port[f] = port[s] /\ listener[f] = "open"
        /\ port[s] = Known(w)
    BY <1>1 DEF ReachInv, MemberInv, LiveInv, ReadyInv, Current, Up
  <1>5. Listening(f)
    BY <1>2, <1>4 DEF ReachInv, LoopInv, Listening, Frontends
  <1>. QED BY <1>1, <1>2, <1>3, <1>4, <1>5 DEF Frontends

LEMMA UpIsListed ==
    ASSUME OneWorkerEach, SysInv, ReachInv
    PROVE  ClientPortListed
  <1>1. SUFFICES ASSUME NEW w \in Workers, Up(w), AlwaysSamePort(w)
                 PROVE  LET r == TunnelData[ClientOf[w]] IN
                        /\ frontendMap[Key(r)] # Nil
                        /\ sess[w] \in backends[frontendMap[Key(r)]]
                        /\ ListedPorts(UserOf(r), ServiceOf(r)) = {frontendPort[ClientOf[w]]}
    BY DEF ClientPortListed
  <1>. DEFINE f == val[sess[w]]
              u == UserOf(TunnelData[ClientOf[w]])
              n == ServiceOf(TunnelData[ClientOf[w]])
  <1>2. /\ f \in Frontends /\ f # Nil /\ Started(f) /\ port[f] = Known(w)
        /\ sess[w] \in backends[f]
        /\ Key(td[f]) = <<u, n>> /\ <<u, n>> \in Keys
    BY <1>1, UpIsServed, ServiceAssumption DEF Frontends, Service, Key
  <1>3. WorkerOf[f] = w
    <2>1. sess[w] \in Sessions /\ WorkerOf[sess[w]] = w
      BY <1>1, UpIsServed DEF Up, Open, SysInv, SystemTypeOK
    <2>2. HasRequest(sess[w]) /\ Key(td[sess[w]]) = Key(td[f])
      BY <1>1, <1>2, <2>1, HandlerFacts DEF Up
    <2>. QED BY <1>2, <2>1, <2>2, OneWorker DEF ReachInv, HasRequest, Frontends
  <1>4. SinglePort(w)
    BY <1>1 DEF SinglePort, AlwaysSamePort, Started
  <1>5. frontendMap[<<u, n>>] = f
    BY <1>2, <1>3, <1>4 DEF ReachInv, MappedInv
  <1>6. \A k \in Keys : k = <<k[1], k[2]>>
    BY DEF Keys, Key
  <1>7. ListedPorts(u, n) = {Known(w)}
    <2>1. [name |-> n, port |-> Known(w)] \in GetServices(u)
      <3>1. <<u, n>> \in {j \in Keys : j[1] = u /\ frontendMap[j] # Nil}
        BY <1>2, <1>5
      <3>. QED BY <1>2, <1>5, <3>1 DEF GetServices
    <2>2. ASSUME NEW e \in GetServices(u), e.name = n
          PROVE  e.port = Known(w)
      <3>1. PICK k \in Keys : k[1] = u /\ e = [name |-> k[2], port |-> port[frontendMap[k]]]
        BY DEF GetServices
      <3>2. k = <<u, n>>
        BY <1>6, <2>2, <3>1
      <3>. QED BY <1>2, <1>5, <3>1, <3>2
    <2>. QED BY <2>1, <2>2 DEF ListedPorts
  <1>. QED BY <1>2, <1>5, <1>7 DEF Known, Key

(* A client that is up and has heard its port has a frontend that listens  *)
(* there with its session behind it, whatever the handlers of its earlier  *)
(* sessions do meanwhile: for every number of clients, of connections they *)
(* make and of ports, when each service has one worker.                    *)
THEOREM ClientPortIsServed ==
    ASSUME OneWorkerEach
    PROVE  SystemSpec => []ClientPortServed
  <1>1. SysInv /\ ReachInv => ClientPortServed
    BY UpIsServed DEF ClientPortServed, Known
  <1>. QED BY <1>1, ReachInvariance, SystemInvariance, PTL

(* And that frontend is the one the service is listed with, as long as its *)
(* service was never on another port.                                      *)
THEOREM ClientPortIsListed ==
    ASSUME OneWorkerEach
    PROVE  SystemSpec => []ClientPortListed
  <1>1. SysInv /\ ReachInv => ClientPortListed
    BY UpIsListed
  <1>. QED BY <1>1, ReachInvariance, SystemInvariance, PTL

(* A client that was created with a port and is up is listed under that    *)
(* port, and its session is behind the frontend that listens on it.        *)
ConfiguredPortServed ==
    \A w \in Workers : LET r == TunnelData[ClientOf[w]] IN
        (r.port # 0 /\ Up(w)) =>
            /\ ListedPorts(UserOf(r), ServiceOf(r)) = {r.port}
            /\ sess[w] \in backends[frontendMap[Key(r)]]
            /\ \E f \in Frontends : Listening(f) /\ port[f] = r.port /\ sess[w] \in backends[f]

(* From the flag to the listener: the port a user gives a client is where  *)
(* the service can be reached while that client is up, without conditions, *)
(* for none of its requests is for any other port.                         *)
THEOREM ConfiguredPortIsServed ==
    ASSUME OneWorkerEach
    PROVE  SystemSpec => []ConfiguredPortServed
  <1>1. ASSUME SysInv, ReachInv
        PROVE  ConfiguredPortServed
    <2>1. SUFFICES ASSUME NEW w \in Workers, FirstPort(w) # 0, Up(w)
                   PROVE  LET r == TunnelData[ClientOf[w]] IN
                          /\ ListedPorts(UserOf(r), ServiceOf(r)) = {r.port}
                          /\ sess[w] \in backends[frontendMap[Key(r)]]
                          /\ \E f \in Frontends : /\ Listening(f) /\ port[f] = r.port
                                                  /\ sess[w] \in backends[f]
      BY DEF ConfiguredPortServed, FirstPort
    <2>2. Known(w) = FirstPort(w)
      BY <1>1, <2>1 DEF ReachInv, OwnInv
    <2>3. AlwaysSamePort(w)
      <3>1. ASSUME NEW f \in Sessions, WorkerOf[f] = w, Started(f)
            PROVE  port[f] = Known(w)
        <4>1. td[f].port \in {FirstPort(w), Known(w)} /\ PortAsAsked(f)
          BY <1>1, <3>1 DEF ReachInv, OwnInv, HasRequest, SysInv, PortsInv
        <4>. QED BY <2>1, <2>2, <4>1 DEF PortAsAsked
      <3>. QED BY <3>1 DEF AlwaysSamePort, Started, Frontends, Known
    <2>4. ClientPortListed
      BY <1>1, UpIsListed
    <2>5. ClientPortServed
      BY <1>1, UpIsServed DEF ClientPortServed, Known
    <2>. QED BY <2>1, <2>2, <2>3, <2>4, <2>5
         DEF ClientPortListed, ClientPortServed, Known, FirstPort
  <1>. QED BY <1>1, ReachInvariance, SystemInvariance, PTL

=============================================================================
