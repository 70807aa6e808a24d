------------------------- MODULE TunnelSystemProofs -------------------------
(***************************************************************************)
(* Proofs about TunnelSystem, for any number of clients, workers, sessions *)
(* and ports: the composition is a behaviour of MuxTunnelService, and of   *)
(* MuxTunnelClient for every client.                                       *)
(***************************************************************************)
EXTENDS TunnelSystem, MuxTunnelServiceProofs

(* The values the state of the workers and of the wire can have. *)
SystemTypeOK ==
    /\ wpc \in [Workers -> {"start", "dialing", "handshake", "opened", "waiting", "ready",
                            "back", "sleeping", "done"}]
    /\ sess \in [Workers -> Sessions \cup {Nil}]
    /\ asked \in [Workers -> KnownPorts]
    /\ frontendPort \in [Clients -> KnownPorts]
    /\ tcClosed \in [Clients -> BOOLEAN]
    /\ lost \in [Sessions -> BOOLEAN]
    /\ request \in [Sessions -> Requests \cup {Nil}]
    /\ DOMAIN response = Sessions

(* A handler that has returned has closed its session, and a session that  *)
(* was not accepted yet is open at both ends and carries nothing.          *)
SessionInv ==
    \A s \in Sessions :
        /\ pc[s] \in {"sendFailed", "done"} => closed[s]
        /\ pc[s] = "idle" =>
            ~closed[s] /\ ~lost[s] /\ request[s] = Nil /\ response[s] = Nil

(* A worker has a session from Connect until it returns, one that was      *)
(* accepted and is its own.                                                *)
WorkerInv ==
    \A w \in Workers :
        /\ wpc[w] \in {"opened", "waiting", "ready"} <=> sess[w] # Nil
        /\ sess[w] # Nil => WorkerOf[sess[w]] = w /\ pc[sess[w]] # "idle"

(* s may be told its port: the port of the request if that was explicit. *)
PortAsAsked(s) ==
    /\ port[s] \in KnownPorts \ {0}
    /\ td[s].port # 0 => port[s] = td[s].port

(* From the critical section on a handler has such a port, and a frontend  *)
(* keeps it.                                                               *)
PortsInv ==
    \A s \in Sessions :
        pc[s] \in {"allocated", "registered", "serving", "sendFailed"} \/ Started(s)
            => PortAsAsked(s)

(* What the service answers: an error, or the port of the handler. *)
ResponseInv ==
    \A s \in Sessions :
        \/ response[s] \in {Nil, Refusal}
        \/ /\ response[s] = Announcement(port[s])
           /\ pc[s] \in {"serving", "done"}
           /\ PortAsAsked(s)

(* What a worker waits for is the answer to its own request. *)
AskedInv ==
    \A w \in Workers :
        /\ wpc[w] = "opened" =>
            /\ pc[sess[w]] \in {"accepted", "done"}
            /\ request[sess[w]] = Nil /\ response[sess[w]] = Nil
        /\ wpc[w] = "waiting" =>
            /\ request[sess[w]] # Nil => request[sess[w]].port = asked[w]
            /\ (pc[sess[w]] \in Working \/ response[sess[w]] \notin {Nil, Refusal})
                => td[sess[w]].port = asked[w]

(* The inductive invariant. *)
SysInv ==
    /\ IInv
    /\ SystemTypeOK
    /\ SessionInv
    /\ WorkerInv
    /\ PortsInv
    /\ ResponseInv
    /\ AskedInv

-----------------------------------------------------------------------------
(* What the steps of the service do to the session of their handler, and   *)
(* that they leave the other sessions alone.                               *)

(* The control, the data and the wire of a session stay as they are. *)
Same(x) ==
    /\ pc'[x] = pc[x] /\ td'[x] = td[x] /\ port'[x] = port[x] /\ closed'[x] = closed[x]
    /\ request'[x] = request[x] /\ response'[x] = response[x]

Decodes(s) ==
    /\ pc[s] = "accepted" /\ pc'[s] = "authorized"
    /\ request[s] # Nil /\ td'[s] = request[s] /\ request'[s] = Nil
    /\ closed'[s] = closed[s] /\ port'[s] = port[s] /\ response'[s] = response[s]

Allocates(s) ==
    /\ pc[s] = "authorized" /\ pc'[s] = "allocated"
    /\ PortAsAsked(s)'
    /\ td'[s] = td[s] /\ closed'[s] = closed[s]
    /\ request'[s] = request[s] /\ response'[s] = response[s]

Registers(s) ==
    /\ pc[s] = "allocated" /\ pc'[s] = "registered"
    /\ td'[s] = td[s] /\ port'[s] = port[s] /\ closed'[s] = closed[s]
    /\ request'[s] = request[s] /\ response'[s] = response[s]

Announces(s) ==
    /\ pc[s] = "registered" /\ pc'[s] = "serving" /\ ~closed[s]
    /\ response'[s] \in {response[s], Announcement(port[s])}
    /\ td'[s] = td[s] /\ port'[s] = port[s] /\ closed'[s] = closed[s]
    /\ request'[s] = request[s]

(* The handler returns, or the session is closed under it. *)
Closes(s) ==
    /\ \/ pc[s] \in {"accepted", "authorized", "allocated", "serving"} /\ pc'[s] = "done"
       \/ pc[s] = "registered" /\ pc'[s] = "sendFailed"
       \/ pc[s] \notin {"idle", "sendFailed", "done"} /\ pc'[s] = pc[s]
    /\ closed'[s] = TRUE
    /\ td'[s] = td[s] /\ port'[s] = port[s] /\ request'[s] = request[s]
    /\ \/ response'[s] = response[s]
       \/ response'[s] = Refusal /\ pc[s] = "authorized" /\ pc'[s] = "done" /\ ~closed[s]

SessionStep(s) ==
    /\ \A x \in Sessions : x # s => Same(x)
    /\ Decodes(s) \/ Allocates(s) \/ Registers(s) \/ Announces(s) \/ Closes(s)
    /\ \A x \in Sessions : Started(x)' => Started(x) \/ (x = s /\ pc[s] = "allocated")
    /\ request' \in [Sessions -> Requests \cup {Nil}] /\ DOMAIN response' = Sessions
    /\ UNCHANGED tcVars

(* A frontend the map has for a service is a frontend, and has its port. *)
LEMMA MappedPort ==
    ASSUME SysInv, NEW r \in Requests, Authorized(r), frontendMap[Key(r)] # Nil
    PROVE  /\ frontendMap[Key(r)] \in Sessions
           /\ port[frontendMap[Key(r)]] \in KnownPorts \ {0}
  <1>1. Key(r) \in Keys
    BY KeyInKeys
  <1>2. frontendMap[Key(r)] \in Frontends /\ backends[frontendMap[Key(r)]] # {}
    BY <1>1 DEF SysInv, IInv, TypeOK, MappedFrontendHasBackend
  <1>3. Started(frontendMap[Key(r)])
    BY <1>2 DEF SysInv, IInv, StartedInv
  <1>. QED BY <1>2, <1>3 DEF Frontends, SysInv, PortsInv, PortAsAsked

LEMMA AllocateIsStep ==
    ASSUME SysInv, NEW s \in Sessions, AllocatePort(s), Silent
    PROVE  SessionStep(s)
  <1>. DEFINE r == td[s]
              v == frontendMap[Key(r)]
  <1>1. pc[s] = "authorized" /\ r \in Requests /\ Authorized(r)
    BY DEF AllocatePort, SysInv, IInv, Decoded, Working
  <1>2. r.port \in KnownPorts
    BY <1>1 DEF KnownPorts
  <1>3. v # Nil => port[v] \in KnownPorts \ {0}
    BY <1>1, MappedPort
  <1>4. WantedPort(s) \in KnownPorts /\ (r.port # 0 => WantedPort(s) = r.port)
    BY <1>2, <1>3 DEF WantedPort, AnyElement
  <1>5. PICK e \in free \cup {NoElement} :
            /\ WantedPort(s) # AnyElement \/ e # NoElement
            /\ port' = [port EXCEPT ![s] = IF WantedPort(s) = AnyElement THEN e ELSE WantedPort(s)]
    BY DEF AllocatePort
  <1>6. free \subseteq KnownPorts \ {0}
    BY PoolOfPorts DEF SysInv, IInv, TypeOK, KnownPorts
  <1>7. /\ port'[s] = IF WantedPort(s) = AnyElement THEN e ELSE WantedPort(s)
        /\ \A x \in Sessions : x # s => port'[x] = port[x]
    BY <1>5 DEF SysInv, IInv, TypeOK
  <1>8. port'[s] \in KnownPorts \ {0} /\ (r.port # 0 => port'[s] = r.port)
    BY <1>4, <1>5, <1>6, <1>7 DEF AnyElement, NoElement
  <1>9. UNCHANGED <<td, closed, listener, request, response, tcVars>>
    BY DEF AllocatePort, Silent, frontVars, wireVars
  <1>10. pc'[s] = "allocated" /\ \A x \in Sessions : x # s => pc'[x] = pc[x]
    BY DEF AllocatePort, SysInv, IInv, TypeOK
  <1>11. PortAsAsked(s)'
    BY <1>8, <1>9 DEF PortAsAsked, KnownPorts, NewPoolForRange
  <1>12. Allocates(s)
    BY <1>1, <1>9, <1>10, <1>11 DEF Allocates
  <1>13. \A x \in Sessions : x # s => Same(x)
    BY <1>7, <1>9, <1>10 DEF Same
  <1>. QED BY <1>9, <1>12, <1>13 DEF SessionStep, Started, SysInv, SystemTypeOK

LEMMA ServeIsStep ==
    ASSUME SysInv, NEW s \in Sessions, Serve(s) \/ (SessionCloses(s) /\ Silent)
    PROVE  SessionStep(s)
  <1>. USE DEF SysInv, IInv, TypeOK, SystemTypeOK, SessionStep, Same, Silent, wireVars,
               frontVars, Started
  <1>1. CASE Receives(s) /\ Authorize(s, request[s]) /\ UNCHANGED <<response, tcVars>>
    BY <1>1 DEF Receives, Authorize, Decodes
  <1>2. CASE (closed[s] \/ lost[s]) /\ DecodeFails(s) /\ Silent
    BY <1>2 DEF DecodeFails, Return, Closes
  <1>3. CASE AllocatePort(s) /\ Silent
    BY <1>3, AllocateIsStep
  <1>4. CASE OutOfPorts(s) /\ Replies(s, Refusal) /\ UNCHANGED request
    BY <1>4 DEF OutOfPorts, Replies, Return, Closes
  <1>5. CASE ReuseFrontend(s) /\ Silent
    BY <1>5 DEF ReuseFrontend, Registers
  <1>6. CASE StartFrontend(s) /\ Silent
    <2>1. \A x \in Sessions : Started(x)' => Started(x) \/ x = s
      BY <1>6 DEF StartFrontend, CloseListener, Frontends
    <2>. QED BY <1>6, <2>1 DEF StartFrontend, Registers
  <1>7. CASE StartFrontendFails(s) /\ Silent
    <2>1. \A x \in Sessions : Started(x)' => Started(x)
      BY <1>7 DEF StartFrontendFails, CloseListener, Frontends
    <2>. QED BY <1>7, <2>1 DEF StartFrontendFails, Return, Closes
  <1>8. CASE SendResponse(s) /\ Replies(s, Announced(s)) /\ UNCHANGED request
    BY <1>8 DEF SendResponse, Replies, Announced, Announces
  <1>9. CASE SendResponseFails(s) /\ Silent
    BY <1>9 DEF SendResponseFails, Return, Closes
  <1>10. CASE Cleanup(s) /\ Silent
    <2>1. \A x \in Sessions : Started(x)' => Started(x)
      BY <1>10 DEF Cleanup, ListenersAfter, CloseListener, Frontends
    <2>. QED BY <1>10, <2>1 DEF Cleanup, Return, Closes
  <1>11. CASE SessionCloses(s) /\ Silent
    BY <1>11 DEF SessionCloses, Closes
  <1>. QED
    BY <1>1, <1>2, <1>3, <1>4, <1>5, <1>6, <1>7, <1>8, <1>9, <1>10, <1>11 DEF Serve

-----------------------------------------------------------------------------
(* The parts of SysInv that speak of clients and wire, over the steps of   *)
(* the service.                                                            *)

LinkInv ==
    /\ SystemTypeOK
    /\ SessionInv
    /\ WorkerInv
    /\ PortsInv
    /\ ResponseInv
    /\ AskedInv

LEMMA PortAsAskedSame ==
    ASSUME NEW x, td'[x] = td[x], port'[x] = port[x], PortAsAsked(x)
    PROVE  PortAsAsked(x)'
  BY DEF PortAsAsked, KnownPorts, NewPoolForRange

LEMMA SessionStepKeeps ==
    ASSUME SysInv, NEW s \in Sessions, SessionStep(s)
    PROVE  LinkInv'
  <1>. USE DEF SysInv
  <1>1. /\ \A x \in Sessions : x # s => Same(x)
        /\ Decodes(s) \/ Allocates(s) \/ Registers(s) \/ Announces(s) \/ Closes(s)
        /\ UNCHANGED <<wpc, sess, asked, frontendPort, tcClosed, lost>>
    BY DEF SessionStep, tcVars
  <1>2. SystemTypeOK'
    BY DEF SystemTypeOK, SessionStep, tcVars, KnownPorts, NewPoolForRange
  <1>3. SessionInv'
    BY <1>1 DEF SessionInv, Same, Decodes, Allocates, Registers, Announces, Closes
  <1>4. WorkerInv'
    BY <1>1 DEF WorkerInv, SystemTypeOK, Same, Decodes, Allocates, Registers, Announces, Closes
  <1>5. PortsInv'
    <2>1. SUFFICES ASSUME NEW x \in Sessions,
                          \/ pc'[x] \in {"allocated", "registered", "serving", "sendFailed"}
                          \/ Started(x)'
                   PROVE  PortAsAsked(x)'
      BY DEF PortsInv
    <2>2. CASE Allocates(s) /\ x = s
      BY <2>2 DEF Allocates
    <2>3. CASE ~(Allocates(s) /\ x = s)
      <3>1. Started(x)' => Started(x) \/ pc[x] = "allocated"
        BY DEF SessionStep
      <3>2. pc[x] \in {"allocated", "registered", "serving", "sendFailed"} \/ Started(x)
        BY <1>1, <2>1, <2>3, <3>1 DEF Same, Decodes, Registers, Announces, Closes
      <3>3. ~Decodes(s) \/ x # s
        BY <3>2 DEF Decodes, IInv, StartedInv, Frontends
      <3>4. td'[x] = td[x] /\ port'[x] = port[x]
        BY <1>1, <2>3, <3>3 DEF Same, Registers, Announces, Closes
      <3>. QED BY <3>2, <3>4, PortAsAskedSame DEF PortsInv
    <2>. QED BY <2>2, <2>3
  <1>6. ResponseInv'
    <2>1. ASSUME NEW x \in Sessions, x # s
          PROVE  \/ response'[x] \in {Nil, Refusal}
                 \/ /\ response'[x] = Announcement(port'[x])
                    /\ pc'[x] \in {"serving", "done"}
                    /\ PortAsAsked(x)'
      BY <1>1, <2>1, PortAsAskedSame DEF ResponseInv, Same
    <2>2. \/ response'[s] \in {Nil, Refusal}
          \/ /\ response'[s] = Announcement(port'[s])
             /\ pc'[s] \in {"serving", "done"}
             /\ PortAsAsked(s)'
      <3>1. CASE Announces(s)
        BY <3>1, PortAsAskedSame DEF Announces, PortsInv, ResponseInv
      <3>2. CASE Closes(s)
        BY <3>2, PortAsAskedSame DEF Closes, ResponseInv
      <3>3. CASE Decodes(s) \/ Allocates(s) \/ Registers(s)
        BY <3>3 DEF Decodes, Allocates, Registers, ResponseInv
      <3>. QED BY <1>1, <3>1, <3>2, <3>3
    <2>. QED BY <2>1, <2>2 DEF ResponseInv, Refusal, Announcement, NoElement
  <1>7. AskedInv'
    <2>1. SUFFICES ASSUME NEW w \in Workers, sess[w] # Nil
                   PROVE  /\ wpc[w] = "opened" =>
                                /\ pc'[sess[w]] \in {"accepted", "done"}
                                /\ request'[sess[w]] = Nil /\ response'[sess[w]] = Nil
                          /\ wpc[w] = "waiting" =>
                                /\ request'[sess[w]] # Nil => request'[sess[w]].port = asked[w]
                                /\ (pc'[sess[w]] \in Working
                                        \/ response'[sess[w]] \notin {Nil, Refusal})
                                    => td'[sess[w]].port = asked[w]
      BY <1>1 DEF AskedInv, WorkerInv, Refusal, NoElement
    <2>2. sess[w] \in Sessions
      BY <2>1 DEF SystemTypeOK
    <2>3. CASE sess[w] # s
      BY <1>1, <2>2, <2>3 DEF AskedInv, Same
    <2>4. CASE sess[w] = s
      BY <1>1, <2>4 DEF AskedInv, Working, Decodes, Allocates, Registers, Announces, Closes
    <2>. QED BY <2>3, <2>4
  <1>. QED BY <1>2, <1>3, <1>4, <1>5, <1>6, <1>7 DEF LinkInv

-----------------------------------------------------------------------------
(* The same over the steps of the clients.                                 *)

(* Steps in which neither end gets or sends anything. *)
LEMMA QuietKeeps ==
    ASSUME SysInv, UNCHANGED <<pc, td, port, closed, listener, request, response>>,
           UNCHANGED <<sess, asked, frontendPort>>,
           tcClosed' \in [Clients -> BOOLEAN],
           lost' \in [Sessions -> BOOLEAN],
           \A s \in Sessions : pc[s] = "idle" => ~lost'[s],
           \/ UNCHANGED wpc
           \/ \E w \in Workers,
                 here \in {"start", "dialing", "handshake", "back", "sleeping", "done"} :
                /\ wpc[w] \in {"start", "dialing", "back", "sleeping"}
                /\ wpc' = [wpc EXCEPT ![w] = here]
    PROVE  LinkInv'
  <1>. USE DEF SysInv
  <1>1. /\ wpc' \in [Workers -> {"start", "dialing", "handshake", "opened", "waiting",
                                "ready", "back", "sleeping", "done"}]
        /\ \A w \in Workers :
                wpc'[w] \in {"opened", "waiting", "ready"}
                    \/ wpc[w] \in {"opened", "waiting", "ready"} => wpc'[w] = wpc[w]
    BY DEF SystemTypeOK
  <1>2. SystemTypeOK'
    BY <1>1 DEF SystemTypeOK, KnownPorts, NewPoolForRange
  <1>3. SessionInv'
    BY DEF SessionInv
  <1>4. WorkerInv'
    BY <1>1 DEF WorkerInv
  <1>5. PortsInv'
    BY DEF PortsInv, Started, PortAsAsked, KnownPorts, NewPoolForRange
  <1>6. ResponseInv'
    BY DEF ResponseInv, PortAsAsked, KnownPorts, NewPoolForRange, Refusal, Announcement, NoElement
  <1>7. AskedInv'
    BY <1>1 DEF AskedInv, Working, Refusal, NoElement
  <1>. QED BY <1>2, <1>3, <1>4, <1>5, <1>6, <1>7 DEF LinkInv

(* No two workers share a session. *)
LEMMA OwnSession ==
    ASSUME SysInv, NEW w \in Workers, NEW x \in Workers, sess[w] # Nil, sess[x] = sess[w]
    PROVE  x = w
  BY DEF SysInv, WorkerInv

LEMMA ReturnsKeeps ==
    ASSUME SysInv, NEW w \in Workers, ClientReturns(w)
    PROVE  LinkInv'
  <1>. USE DEF SysInv
  <1>1. /\ wpc' = [wpc EXCEPT ![w] = "back"] /\ sess' = [sess EXCEPT ![w] = Nil]
        /\ lost' = LostBy(w)
        /\ UNCHANGED <<pc, td, port, closed, listener, request, asked, frontendPort, tcClosed>>
        /\ response' = IF sess[w] = Nil THEN response ELSE [response EXCEPT ![sess[w]] = Nil]
    BY DEF ClientReturns, ServiceUnchanged, serviceVars, vars, sessVars, frontVars
  <1>2. /\ wpc'[w] = "back" /\ sess'[w] = Nil
        /\ \A x \in Workers : x # w => wpc'[x] = wpc[x] /\ sess'[x] = sess[x]
    BY <1>1 DEF SystemTypeOK
  <1>3. \A s \in Sessions :
            IF s = sess[w] THEN lost'[s] = TRUE /\ response'[s] = Nil
            ELSE lost'[s] = lost[s] /\ response'[s] = response[s]
    BY <1>1, ServiceAssumption DEF LostBy, SystemTypeOK
  <1>4. SystemTypeOK'
    BY <1>1 DEF LostBy, SystemTypeOK, KnownPorts, NewPoolForRange
  <1>5. SessionInv'
    BY <1>1, <1>3, ServiceAssumption DEF SessionInv, WorkerInv
  <1>6. WorkerInv'
    BY <1>1, <1>2 DEF WorkerInv
  <1>7. PortsInv'
    BY <1>1 DEF PortsInv, Started, PortAsAsked, KnownPorts, NewPoolForRange
  <1>8. ResponseInv'
    <2>1. \A s \in Sessions : PortAsAsked(s) => PortAsAsked(s)'
      BY <1>1, PortAsAskedSame
    <2>. QED BY <1>1, <1>3, <2>1 DEF ResponseInv, Refusal, Announcement, NoElement
  <1>9. AskedInv'
    <2>1. \A x \in Workers : x # w /\ sess[x] # Nil =>
            /\ sess[x] \in Sessions
            /\ response'[sess[x]] = response[sess[x]]
      BY <1>3, OwnSession DEF SystemTypeOK
    <2>. QED BY <1>1, <1>2, <2>1 DEF AskedInv, WorkerInv, Working, Refusal, NoElement
  <1>. QED BY <1>4, <1>5, <1>6, <1>7, <1>8, <1>9 DEF LinkInv

LEMMA ConnectKeeps ==
    ASSUME SysInv, NEW w \in Workers, NEW s \in Sessions, Connect(w, s)
    PROVE  LinkInv'
  <1>. USE DEF SysInv
  <1>1. /\ wpc[w] = "handshake" /\ WorkerOf[s] = w /\ pc[s] = "idle"
        /\ wpc' = [wpc EXCEPT ![w] = "opened"] /\ sess' = [sess EXCEPT ![w] = s]
        /\ pc' = [pc EXCEPT ![s] = "accepted"]
        /\ UNCHANGED <<td, port, closed, listener, request, response>>
        /\ UNCHANGED <<asked, frontendPort, tcClosed, lost>>
    BY DEF Connect, Accept, frontVars, wireVars
  <1>2. /\ wpc'[w] = "opened" /\ sess'[w] = s
        /\ \A x \in Workers : x # w => wpc'[x] = wpc[x] /\ sess'[x] = sess[x]
    BY <1>1 DEF SystemTypeOK
  <1>3. pc'[s] = "accepted" /\ \A x \in Sessions : x # s => pc'[x] = pc[x]
    BY <1>1 DEF IInv, TypeOK
  <1>4. SystemTypeOK'
    BY <1>1 DEF SystemTypeOK, KnownPorts, NewPoolForRange
  <1>5. SessionInv'
    BY <1>1, <1>3 DEF SessionInv
  <1>6. WorkerInv'
    <2>1. \A x \in Workers : sess[x] # Nil => sess[x] \in Sessions
      BY DEF SystemTypeOK
    <2>. QED BY <1>1, <1>2, <1>3, <2>1, ServiceAssumption DEF WorkerInv
  <1>7. PortsInv'
    BY <1>1, <1>3 DEF PortsInv, Started, PortAsAsked, KnownPorts, NewPoolForRange
  <1>8. ResponseInv'
    <2>1. \A x \in Sessions : PortAsAsked(x) => PortAsAsked(x)'
      BY <1>1, PortAsAskedSame
    <2>. QED BY <1>1, <1>3, <2>1 DEF ResponseInv, Refusal, Announcement, NoElement
  <1>9. AskedInv'
    <2>1. \A x \in Workers : x # w /\ sess[x] # Nil => sess[x] \in Sessions /\ sess[x] # s
      BY <1>1 DEF SystemTypeOK, WorkerInv
    <2>2. request[s] = Nil /\ response[s] = Nil
      BY <1>1 DEF SessionInv
    <2>. QED
      BY <1>1, <1>2, <1>3, <2>1, <2>2 DEF AskedInv, WorkerInv, Working, Refusal, NoElement
  <1>. QED BY <1>4, <1>5, <1>6, <1>7, <1>8, <1>9 DEF LinkInv

(* A client asks for what it was created with, at the port it knows. *)
LEMMA AsksKnown ==
    ASSUME SysInv, NEW c \in Clients
    PROVE  /\ CurrentTunnelData(c) \in Requests
           /\ CurrentTunnelData(c).port = frontendPort[c]
           /\ Key(CurrentTunnelData(c)) = Key(TunnelData[c])
           /\ frontendPort[c] \in KnownPorts
  <1>1. frontendPort[c] \in KnownPorts
    BY DEF SysInv, SystemTypeOK
  <1>2. CurrentTunnelData(c) \in Requests
    BY <1>1, SystemAssumption DEF CurrentTunnelData
  <1>3. /\ CurrentTunnelData(c).port = frontendPort[c]
        /\ CurrentTunnelData(c).token = TunnelData[c].token
        /\ CurrentTunnelData(c).serviceName = TunnelData[c].serviceName
    BY SystemAssumption DEF CurrentTunnelData
  <1>. QED BY <1>1, <1>2, <1>3 DEF Key, UserOf, ServiceOf

LEMMA ClientOfWorker ==
    ASSUME NEW w \in Workers
    PROVE  ClientOf[w] \in Clients
  BY SystemAssumption

LEMMA SendRequestKeeps ==
    ASSUME SysInv, NEW w \in Workers, SendRequest(w)
    PROVE  LinkInv'
  <1>. USE DEF SysInv
  <1>. DEFINE c == ClientOf[w]
              s == sess[w]
  <1>1. c \in Clients /\ s \in Sessions /\ s # Nil /\ wpc[w] = "opened" /\ pc[s] # "idle"
    BY ClientOfWorker DEF SendRequest, SystemTypeOK, WorkerInv
  <1>2. /\ request' = [request EXCEPT ![s] = CurrentTunnelData(c)]
        /\ asked' = [asked EXCEPT ![w] = CurrentTunnelData(c).port]
        /\ wpc' = [wpc EXCEPT ![w] = "waiting"]
        /\ UNCHANGED <<pc, td, port, closed, listener, response, sess, frontendPort, tcClosed,
                       lost>>
    BY DEF SendRequest, ServiceUnchanged, serviceVars, vars, sessVars, frontVars
  <1>3. /\ wpc'[w] = "waiting" /\ asked'[w] = frontendPort[c]
        /\ request'[s] = CurrentTunnelData(c) /\ request'[s].port = asked'[w]
        /\ \A x \in Workers : x # w => wpc'[x] = wpc[x] /\ asked'[x] = asked[x]
        /\ \A x \in Sessions : x # s => request'[x] = request[x]
    BY <1>1, <1>2, AsksKnown DEF SystemTypeOK
  <1>4. SystemTypeOK'
    BY <1>1, <1>2, AsksKnown DEF SystemTypeOK, KnownPorts, NewPoolForRange
  <1>5. SessionInv'
    BY <1>1, <1>2, <1>3 DEF SessionInv
  <1>6. WorkerInv'
    BY <1>1, <1>2, <1>3 DEF WorkerInv
  <1>7. PortsInv'
    BY <1>2 DEF PortsInv, Started, PortAsAsked, KnownPorts, NewPoolForRange
  <1>8. ResponseInv'
    BY <1>2
    DEF ResponseInv, PortAsAsked, KnownPorts, NewPoolForRange, Refusal, Announcement, NoElement
  <1>9. AskedInv'
    <2>1. \A x \in Workers : x # w /\ sess[x] # Nil => sess[x] \in Sessions /\ sess[x] # s
      BY <1>1, OwnSession DEF SystemTypeOK
    <2>2. pc[s] \in {"accepted", "done"} /\ response[s] = Nil
      BY <1>1 DEF AskedInv
    <2>. QED
      BY <1>1, <1>2, <1>3, <2>1, <2>2 DEF AskedInv, WorkerInv, Working, Refusal, NoElement
  <1>. QED BY <1>4, <1>5, <1>6, <1>7, <1>8, <1>9 DEF LinkInv

(* The port a worker is told: the one it asked for if that was explicit. *)
LEMMA ToldAsAsked ==
    ASSUME SysInv, NEW w \in Workers, wpc[w] = "waiting",
           response[sess[w]] # Nil, ~response[sess[w]].error
    PROVE  /\ sess[w] \in Sessions
           /\ response[sess[w]].port \in KnownPorts \ {0}
           /\ response[sess[w]].port = port[sess[w]]
           /\ asked[w] # 0 => response[sess[w]].port = asked[w]
  <1>. DEFINE s == sess[w]
  <1>1. s \in Sessions
    BY DEF SysInv, WorkerInv, SystemTypeOK
  <1>2. Refusal.error = TRUE /\ Announcement(port[s]).port = port[s]
    BY DEF Refusal, Announcement
  <1>3. response[s] \notin {Nil, Refusal}
    BY <1>2
  <1>4. response[s] = Announcement(port[s]) /\ PortAsAsked(s)
    BY <1>1, <1>3 DEF SysInv, ResponseInv
  <1>5. td[s].port = asked[w]
    BY <1>3 DEF SysInv, AskedInv
  <1>. QED BY <1>1, <1>2, <1>4, <1>5 DEF PortAsAsked

LEMMA ReceivePortKeeps ==
    ASSUME SysInv, NEW w \in Workers, ReceivePort(w)
    PROVE  LinkInv'
  <1>. USE DEF SysInv
  <1>. DEFINE s == sess[w]
  <1>1. /\ wpc[w] = "waiting" /\ s \in Sessions /\ s # Nil /\ pc[s] # "idle"
        /\ response[s].port \in KnownPorts
    BY ToldAsAsked DEF ReceivePort, WorkerInv
  <1>2. /\ frontendPort' = [frontendPort EXCEPT ![ClientOf[w]] = response[s].port]
        /\ response' = [response EXCEPT ![s] = Nil]
        /\ wpc' = [wpc EXCEPT ![w] = "ready"]
        /\ UNCHANGED <<pc, td, port, closed, listener, request, sess, asked, tcClosed, lost>>
    BY DEF ReceivePort, ServiceUnchanged, serviceVars, vars, sessVars, frontVars
  <1>3. /\ wpc'[w] = "ready" /\ response'[s] = Nil
        /\ \A x \in Workers : x # w => wpc'[x] = wpc[x]
        /\ \A x \in Sessions : x # s => response'[x] = response[x]
    BY <1>1, <1>2 DEF SystemTypeOK
  <1>4. SystemTypeOK'
    BY <1>1, <1>2, ClientOfWorker DEF SystemTypeOK, KnownPorts, NewPoolForRange
  <1>5. SessionInv'
    BY <1>1, <1>2, <1>3 DEF SessionInv
  <1>6. WorkerInv'
    BY <1>1, <1>2, <1>3 DEF WorkerInv
  <1>7. PortsInv'
    BY <1>2 DEF PortsInv, Started, PortAsAsked, KnownPorts, NewPoolForRange
  <1>8. ResponseInv'
    <2>1. \A x \in Sessions : PortAsAsked(x) => PortAsAsked(x)'
      BY <1>2, PortAsAskedSame
    <2>. QED BY <1>2, <1>3, <2>1 DEF ResponseInv, Refusal, Announcement, NoElement
  <1>9. AskedInv'
    <2>1. \A x \in Workers : x # w /\ sess[x] # Nil => sess[x] \in Sessions /\ sess[x] # s
      BY <1>1, OwnSession DEF SystemTypeOK
    <2>. QED BY <1>1, <1>2, <1>3, <2>1 DEF AskedInv, WorkerInv, Working, Refusal, NoElement
  <1>. QED BY <1>4, <1>5, <1>6, <1>7, <1>8, <1>9 DEF LinkInv

-----------------------------------------------------------------------------
(* Every step of the composition is a step of the service, and SysInv      *)
(* holds throughout.                                                       *)

LEMMA ServeIsService ==
    ASSUME SysInv, NEW s \in Sessions, Serve(s)
    PROVE  Next
  <1>1. CASE Receives(s) /\ Authorize(s, request[s])
    <2>1. request[s] \in Requests
      BY <1>1 DEF Receives, SysInv, SystemTypeOK
    <2>. QED BY <1>1, <2>1 DEF Next, Client
  <1>2. CASE DecodeFails(s)
    BY <1>2 DEF Next, Client
  <1>3. CASE Handler(s)
    BY <1>3 DEF Next
  <1>. QED BY <1>1, <1>2, <1>3 DEF Serve, Handler

(* The steps of a worker, as the lemmas above take them. *)
LEMMA WorkerSteps ==
    ASSUME NEW w \in Workers, Worker(w)
    PROVE  \/ ClientReturns(w)
           \/ \E s \in Sessions : Connect(w, s)
           \/ SendRequest(w)
           \/ ReceivePort(w)
           \/ Attempt(w)
           \/ Dial(w)
           \/ Pause(w)
  BY DEF Worker, DialFails, ClientHandshakeFails, SendRequestFails, ReceiveRefusal,
         ReceiveFails, EndServing

LEMMA StepIsService ==
    ASSUME SysInv, [SystemNext]_systemVars
    PROVE  [Next]_vars
  <1>1. ASSUME NEW w \in Workers, Worker(w) \/ SessionLost(w)
        PROVE  [Next]_vars
    <2>1. CASE \/ ClientReturns(w) \/ SendRequest(w) \/ ReceivePort(w)
               \/ Attempt(w) \/ Dial(w) \/ Pause(w) \/ SessionLost(w)
      BY <2>1
      DEF ClientReturns, SendRequest, ReceivePort, Attempt, Dial, Pause, SessionLost,
          ServiceUnchanged, serviceVars
    <2>2. CASE \E s \in Sessions : Connect(w, s)
      BY <2>2 DEF Connect, Next, Client
    <2>. QED BY <1>1, <2>1, <2>2, WorkerSteps
  <1>2. ASSUME NEW c \in Clients, TCClose(c)
        PROVE  UNCHANGED vars
    BY <1>2 DEF TCClose, ServiceUnchanged, serviceVars
  <1>3. ASSUME NEW s \in Sessions, Serve(s)
        PROVE  Next
    BY <1>3, ServeIsService
  <1>4. ASSUME NEW s \in Sessions, SessionCloses(s)
        PROVE  Next
    BY <1>4 DEF Next, Client
  <1>5. ASSUME NEW f \in Frontends, AcceptLoopEnds(f)
        PROVE  Next
    BY <1>5 DEF Next
  <1>6. CASE AllStopped \/ UNCHANGED systemVars
    BY <1>6 DEF AllStopped, systemVars, serviceVars
  <1>. QED BY <1>1, <1>2, <1>3, <1>4, <1>5, <1>6 DEF SystemNext

LEMMA SystemStart == SystemInit => SysInv
  <1>. SUFFICES ASSUME SystemInit PROVE SysInv
    OBVIOUS
  <1>1. IInv
    BY InitHolds DEF SystemInit
  <1>2. SystemTypeOK
    BY SystemAssumption DEF SystemInit, SystemTypeOK, KnownPorts
  <1>3. SessionInv
    BY DEF SystemInit, Init, SessionInv
  <1>4. WorkerInv /\ AskedInv
    BY DEF SystemInit, WorkerInv, AskedInv
  <1>5. PortsInv
    BY DEF SystemInit, Init, PortsInv, Started, Frontends
  <1>6. ResponseInv
    BY DEF SystemInit, ResponseInv
  <1>. QED BY <1>1, <1>2, <1>3, <1>4, <1>5, <1>6 DEF SysInv

LEMMA SysInvStep == SysInv /\ [SystemNext]_systemVars => SysInv'
  <1>. SUFFICES ASSUME SysInv, [SystemNext]_systemVars PROVE SysInv'
    OBVIOUS
  <1>1. IInv'
    BY StepIsService, NextKeeps DEF SysInv
  <1>2. LinkInv'
    <2>1. ASSUME NEW w \in Workers, Worker(w)
          PROVE  LinkInv'
      <3>1. CASE Attempt(w) \/ Dial(w) \/ Pause(w)
        <4>1. /\ UNCHANGED <<pc, td, port, closed, listener, request, response>>
              /\ UNCHANGED <<sess, asked, frontendPort, tcClosed, lost>>
          BY <3>1
          DEF Attempt, Dial, Pause, ServiceUnchanged, serviceVars, vars, sessVars, frontVars,
              wireVars
        <4>2. \E here \in {"start", "dialing", "handshake", "back", "sleeping", "done"} :
                /\ wpc[w] \in {"start", "dialing", "back", "sleeping"}
                /\ wpc' = [wpc EXCEPT ![w] = here]
          BY <3>1 DEF Attempt, Dial, Pause
        <4>3. /\ tcClosed' \in [Clients -> BOOLEAN] /\ lost' \in [Sessions -> BOOLEAN]
              /\ \A s \in Sessions : pc[s] = "idle" => ~lost'[s]
          BY <4>1 DEF SysInv, SystemTypeOK, SessionInv
        <4>. QED BY <4>1, <4>2, <4>3, QuietKeeps
      <3>. QED
        BY <2>1, <3>1, WorkerSteps, ReturnsKeeps, ConnectKeeps, SendRequestKeeps, ReceivePortKeeps
    <2>2. ASSUME NEW c \in Clients, TCClose(c)
          PROVE  LinkInv'
      <3>1. /\ UNCHANGED <<pc, td, port, closed, listener, request, response>>
            /\ UNCHANGED <<sess, asked, frontendPort, wpc, lost>>
        BY <2>2 DEF TCClose, ServiceUnchanged, serviceVars, vars, sessVars, frontVars, wireVars
      <3>2. /\ tcClosed' \in [Clients -> BOOLEAN] /\ lost' \in [Sessions -> BOOLEAN]
            /\ \A s \in Sessions : pc[s] = "idle" => ~lost'[s]
        BY <2>2, <3>1 DEF TCClose, SysInv, SystemTypeOK, SessionInv
      <3>. QED BY <3>1, <3>2, QuietKeeps
    <2>5. ASSUME NEW w \in Workers, SessionLost(w)
          PROVE  LinkInv'
      <3>1. /\ UNCHANGED <<pc, td, port, closed, listener, request, response>>
            /\ UNCHANGED <<sess, asked, frontendPort, wpc, tcClosed>>
            /\ lost' = [lost EXCEPT ![sess[w]] = TRUE] /\ sess[w] # Nil
        BY <2>5
        DEF SessionLost, Open, ServiceUnchanged, serviceVars, vars, sessVars, frontVars, wireVars
      <3>2. tcClosed' \in [Clients -> BOOLEAN] /\ lost' \in [Sessions -> BOOLEAN]
        BY <3>1 DEF SysInv, SystemTypeOK
      <3>3. \A s \in Sessions : pc[s] = "idle" => ~lost'[s]
        BY <3>1 DEF SysInv, SystemTypeOK, SessionInv, WorkerInv
      <3>. QED BY <3>1, <3>2, <3>3, QuietKeeps
    <2>3. ASSUME NEW s \in Sessions, Serve(s) \/ (SessionCloses(s) /\ Silent)
          PROVE  LinkInv'
      BY <2>3, ServeIsStep, SessionStepKeeps
    <2>4. CASE \/ \E f \in Frontends : AcceptLoopEnds(f) /\ Silent
               \/ AllStopped
               \/ UNCHANGED systemVars
      <3>1. /\ UNCHANGED <<pc, td, port, closed, listener, request, response>>
            /\ UNCHANGED <<sess, asked, frontendPort, wpc, tcClosed, lost>>
        BY <2>4
        DEF AcceptLoopEnds, Silent, AllStopped, systemVars, serviceVars, vars, sessVars,
            frontVars, wireVars, tcVars
      <3>2. /\ tcClosed' \in [Clients -> BOOLEAN] /\ lost' \in [Sessions -> BOOLEAN]
            /\ \A s \in Sessions : pc[s] = "idle" => ~lost'[s]
        BY <3>1 DEF SysInv, SystemTypeOK, SessionInv
      <3>. QED BY <3>1, <3>2, QuietKeeps
    <2>. QED BY <2>1, <2>2, <2>3, <2>4, <2>5 DEF SystemNext
  <1>. QED BY <1>1, <1>2 DEF SysInv, LinkInv

(* SysInv holds in every reachable state of the composition. *)
THEOREM SystemInvariance == SystemSpec => []SysInv
  <1>. QED BY SystemStart, SysInvStep, PTL DEF SystemSpec

(* What MuxTunnelService says of a service with arbitrary clients holds of *)
(* the service with its own clients: the requests they make are among      *)
(* those it takes, and what they do to their sessions it may find out at   *)
(* any time.                                                               *)
THEOREM SystemIsService == SystemSpec => Spec
  <1>1. SystemInit => Init
    BY DEF SystemInit
  <1>2. SysInv /\ [SystemNext]_systemVars => [Next]_vars
    BY StepIsService
  <1>. QED BY <1>1, <1>2, SystemInvariance, PTL DEF SystemSpec, Spec

-----------------------------------------------------------------------------
(* Seen from a client, the composition is a MuxTunnelClient.               *)

(* The state of a worker's session as the client sees it. *)
View(w) == IF sess[w] = Nil THEN "none" ELSE IF Open(w) THEN "open" ELSE "closed"

ViewStep(c) == UNCHANGED AsClient(c)!clientVars \/ AsClient(c)!ClientNext

(* Nothing the client sees of a worker has changed. *)
SameView(w) == wpc'[w] = wpc[w] /\ asked'[w] = asked[w] /\ View(w)' = View(w)

LEMMA ViewStutters ==
    ASSUME NEW c \in Clients, \A w \in WorkersOf(c) : SameView(w),
           frontendPort'[c] = frontendPort[c], tcClosed'[c] = tcClosed[c]
    PROVE  ViewStep(c)
  BY DEF ViewStep, AsClient!clientVars, SameView, View

(* A step that leaves a worker and its end of its session alone. *)
LEMMA OthersSameView ==
    ASSUME SysInv, NEW w \in Workers,
           wpc'[w] = wpc[w], asked'[w] = asked[w], sess'[w] = sess[w],
           sess[w] # Nil => lost'[sess[w]] = lost[sess[w]]
    PROVE  SameView(w)
  BY DEF SameView, View, Open

(* A worker's end of the session is lost: that is all its client sees. *)
LEMMA LostIsView ==
    ASSUME SysInv, NEW w \in Workers, SessionLost(w), NEW c \in Clients
    PROVE  ViewStep(c)
  <1>1. /\ sess[w] # Nil /\ sess[w] \in Sessions /\ ~lost[sess[w]]
        /\ lost' = [lost EXCEPT ![sess[w]] = TRUE]
        /\ UNCHANGED <<wpc, sess, asked, frontendPort, tcClosed>>
    BY DEF SessionLost, Open, SysInv, SystemTypeOK
  <1>2. View(w) = "open" /\ View(w)' = "closed"
    BY <1>1 DEF View, Open, SysInv, SystemTypeOK
  <1>3. \A x \in Workers : x # w => SameView(x)
    BY <1>1, OwnSession, OthersSameView DEF SysInv, SystemTypeOK
  <1>4. CASE w \in WorkersOf(c)
    <2>1. AsClient(c)!SessionBreaks(w)
      BY <1>1, <1>2, <1>3, <1>4 DEF AsClient!SessionBreaks, View, SameView, WorkersOf
    <2>. QED BY <1>4, <2>1 DEF ViewStep, AsClient!ClientNext
  <1>5. CASE w \notin WorkersOf(c)
    BY <1>1, <1>3, <1>5, ViewStutters DEF WorkersOf
  <1>. QED BY <1>4, <1>5

(* A worker's own step is one of its client, and no other client sees it.  *)
LEMMA OtherClientsStutter ==
    ASSUME SysInv, NEW w \in Workers, NEW c \in Clients, c # ClientOf[w],
           \A x \in Workers : x # w => SameView(x),
           frontendPort'[c] = frontendPort[c], tcClosed'[c] = tcClosed[c]
    PROVE  ViewStep(c)
  BY ViewStutters DEF WorkersOf

LEMMA ReturnsIsView ==
    ASSUME SysInv, NEW w \in Workers, ClientReturns(w)
    PROVE  /\ \A x \in Workers : x # w => SameView(x)
           /\ wpc'[w] = "back" /\ View(w)' = "none"
           /\ UNCHANGED <<asked, frontendPort, tcClosed>>
  <1>1. /\ wpc' = [wpc EXCEPT ![w] = "back"] /\ sess' = [sess EXCEPT ![w] = Nil]
        /\ lost' = LostBy(w)
        /\ UNCHANGED <<asked, frontendPort, tcClosed>>
    BY DEF ClientReturns
  <1>2. /\ wpc'[w] = "back" /\ sess'[w] = Nil
        /\ \A x \in Workers : x # w => wpc'[x] = wpc[x] /\ sess'[x] = sess[x]
    BY <1>1 DEF SysInv, SystemTypeOK
  <1>3. ASSUME NEW x \in Workers, x # w, sess[x] # Nil
        PROVE  lost'[sess[x]] = lost[sess[x]]
    <2>1. sess[x] \in Sessions /\ sess[x] # sess[w]
      BY <1>3, OwnSession DEF SysInv, SystemTypeOK
    <2>. QED BY <1>1, <2>1 DEF LostBy, SysInv, SystemTypeOK
  <1>4. \A x \in Workers : x # w => SameView(x)
    BY <1>1, <1>2, <1>3, OthersSameView
  <1>. QED BY <1>1, <1>2, <1>4 DEF View

(* What the client sees of a step of one of its workers. *)
LEMMA WorkerIsView ==
    ASSUME SysInv, NEW w \in Workers, Worker(w), NEW c \in Clients
    PROVE  ViewStep(c)
  <1>. USE DEF SysInv
  <1>. DEFINE d == ClientOf[w]
  <1>1. /\ d \in Clients /\ w \in WorkersOf(d) /\ WorkersOf(d) \subseteq Workers
        /\ wpc[w] \in {"opened", "waiting", "ready"} <=> sess[w] # Nil
        /\ sess[w] # Nil => sess[w] \in Sessions
    BY ClientOfWorker DEF WorkersOf, WorkerInv, SystemTypeOK
  <1>2. ASSUME ClientReturns(w),
               \/ DialFails(w) \/ ClientHandshakeFails(w) \/ SendRequestFails(w)
               \/ ReceiveRefusal(w) \/ ReceiveFails(w) \/ EndServing(w)
        PROVE  ViewStep(c)
    <2>1. /\ \A x \in Workers : x # w => SameView(x)
          /\ wpc'[w] = "back" /\ View(w)' = "none"
          /\ UNCHANGED <<asked, frontendPort, tcClosed>>
      BY <1>2, ReturnsIsView
    <2>2. CASE c = d
      <3>1. /\ AsClient(d)!Return(w)
            /\ UNCHANGED <<[x \in WorkersOf(d) |-> asked[x]], frontendPort[d], tcClosed[d]>>
        BY <1>1, <2>1 DEF AsClient!Return, SameView, View
      <3>2. AsClient(d)!Worker(w)
        BY <1>1, <1>2, <3>1
        DEF AsClient!Worker, AsClient!DialFails, AsClient!HandshakeFails,
            AsClient!SendRequestFails, AsClient!Refused, AsClient!DecodeFails,
            AsClient!EndServing, AsClient!EndSeen, DialFails, ClientHandshakeFails,
            SendRequestFails, ReceiveRefusal, ReceiveFails, EndServing, Open
      <3>. QED BY <1>1, <2>2, <3>2 DEF ViewStep, AsClient!ClientNext
    <2>3. CASE c # d
      BY <2>1, <2>3, OtherClientsStutter
    <2>. QED BY <2>2, <2>3
  <1>3. ASSUME NEW s \in Sessions, Connect(w, s)
        PROVE  ViewStep(c)
    <2>1. /\ wpc[w] = "handshake" /\ pc[s] = "idle" /\ WorkerOf[s] = w
          /\ wpc' = [wpc EXCEPT ![w] = "opened"] /\ sess' = [sess EXCEPT ![w] = s]
          /\ UNCHANGED <<lost, asked, frontendPort, tcClosed>>
      BY <1>3 DEF Connect, Accept
    <2>2. \A x \in Workers : x # w => SameView(x)
      BY <2>1, OthersSameView DEF SystemTypeOK
    <2>3. wpc'[w] = "opened" /\ View(w)' = "open"
      BY <2>1, ServiceAssumption DEF SystemTypeOK, SessionInv, View, Open
    <2>4. CASE c = d
      <3>1. AsClient(d)!Connect(w)
        <4>1. [x \in WorkersOf(d) |-> wpc'[x]] =
                [[x \in WorkersOf(d) |-> wpc[x]] EXCEPT ![w] = "opened"]
          BY <1>1, <2>1 DEF SystemTypeOK
        <4>2. [x \in WorkersOf(d) |-> View(x)'] =
                [[x \in WorkersOf(d) |-> View(x)] EXCEPT ![w] = "open"]
          BY <1>1, <2>2, <2>3 DEF SameView
        <4>3. UNCHANGED <<[x \in WorkersOf(d) |-> asked[x]], frontendPort[d], tcClosed[d]>>
          BY <2>1
        <4>4. [x \in WorkersOf(d) |-> wpc[x]][w] = "handshake"
          BY <1>1, <2>1
        <4>. QED BY <4>1, <4>2, <4>3, <4>4 DEF AsClient!Connect, View
      <3>. QED BY <1>1, <2>4, <3>1 DEF ViewStep, AsClient!ClientNext, AsClient!Worker
    <2>5. CASE c # d
      BY <2>1, <2>2, <2>5, OtherClientsStutter
    <2>. QED BY <2>4, <2>5
  <1>4. CASE SendRequest(w)
    <2>1. /\ wpc[w] = "opened" /\ Open(w)
          /\ asked' = [asked EXCEPT ![w] = CurrentTunnelData(d).port]
          /\ wpc' = [wpc EXCEPT ![w] = "waiting"]
          /\ UNCHANGED <<lost, sess, frontendPort, tcClosed>>
      BY <1>4 DEF SendRequest
    <2>2. /\ wpc'[w] = "waiting" /\ asked'[w] = frontendPort[d]
          /\ \A x \in Workers : View(x)' = View(x)
          /\ \A x \in Workers : x # w => SameView(x)
      BY <1>1, <2>1, AsksKnown DEF SystemTypeOK, SameView, View, Open
    <2>3. CASE c = d
      <3>1. AsClient(d)!SendRequest(w)
        <4>1. [x \in WorkersOf(d) |-> wpc'[x]] =
                [[x \in WorkersOf(d) |-> wpc[x]] EXCEPT ![w] = "waiting"]
          BY <1>1, <2>1 DEF SystemTypeOK
        <4>2. [x \in WorkersOf(d) |-> asked'[x]] =
                [[x \in WorkersOf(d) |-> asked[x]] EXCEPT ![w] = frontendPort[d]]
          BY <1>1, <2>2 DEF SameView
        <4>3. UNCHANGED <<[x \in WorkersOf(d) |-> View(x)], frontendPort[d], tcClosed[d]>>
          BY <1>1, <2>1, <2>2
        <4>4. [x \in WorkersOf(d) |-> wpc[x]][w] = "opened"
          BY <1>1, <2>1
        <4>5. [x \in WorkersOf(d) |-> View(x)][w] = "open"
          BY <1>1, <2>1 DEF View, Open
        <4>. QED BY <4>1, <4>2, <4>3, <4>4, <4>5 DEF AsClient!SendRequest, View
      <3>. QED BY <1>1, <2>3, <3>1 DEF ViewStep, AsClient!ClientNext, AsClient!Worker
    <2>4. CASE c # d
      BY <2>1, <2>2, <2>4, OtherClientsStutter
    <2>. QED BY <2>3, <2>4
  <1>5. CASE ReceivePort(w)
    <2>1. /\ wpc[w] = "waiting"
          /\ frontendPort' = [frontendPort EXCEPT ![d] = response[sess[w]].port]
          /\ wpc' = [wpc EXCEPT ![w] = "ready"]
          /\ UNCHANGED <<lost, sess, asked, tcClosed>>
      BY <1>5 DEF ReceivePort
    <2>2. frontendPort'[d] \in IF asked[w] = 0 THEN KnownPorts \ {0} ELSE {asked[w]}
      BY <1>1, <1>5, <2>1, ToldAsAsked DEF ReceivePort, SystemTypeOK
    <2>3. /\ wpc'[w] = "ready"
          /\ \A x \in Workers : View(x)' = View(x) /\ asked'[x] = asked[x]
          /\ \A x \in Workers : x # w => SameView(x)
          /\ \A x \in Clients : x # d => frontendPort'[x] = frontendPort[x]
      BY <1>1, <2>1 DEF SystemTypeOK, SameView, View, Open
    <2>4. CASE c = d
      <3>1. AsClient(d)!Answered(w)
        <4>1. [x \in WorkersOf(d) |-> wpc'[x]] =
                [[x \in WorkersOf(d) |-> wpc[x]] EXCEPT ![w] = "ready"]
          BY <1>1, <2>1 DEF SystemTypeOK
        <4>2. UNCHANGED <<[x \in WorkersOf(d) |-> View(x)],
                          [x \in WorkersOf(d) |-> asked[x]], tcClosed[d]>>
          BY <1>1, <2>1, <2>3
        <4>3. [x \in WorkersOf(d) |-> wpc[x]][w] = "waiting"
          BY <1>1, <2>1
        <4>4. frontendPort'[d] \in
                IF [x \in WorkersOf(d) |-> asked[x]][w] = 0 THEN KnownPorts \ {0}
                ELSE {[x \in WorkersOf(d) |-> asked[x]][w]}
          BY <1>1, <2>2
        <4>. QED BY <4>1, <4>2, <4>3, <4>4 DEF AsClient!Answered, View
      <3>. QED BY <1>1, <2>4, <3>1 DEF ViewStep, AsClient!ClientNext, AsClient!Worker
    <2>5. CASE c # d
      BY <2>1, <2>3, <2>5, OtherClientsStutter
    <2>. QED BY <2>4, <2>5
  <1>6. CASE Attempt(w) \/ Dial(w) \/ Pause(w)
    <2>1. UNCHANGED <<lost, sess, asked, frontendPort, tcClosed>>
      BY <1>6 DEF Attempt, Dial, Pause
    <2>2. PICK here : wpc' = [wpc EXCEPT ![w] = here]
      BY <1>6 DEF Attempt, Dial, Pause
    <2>3. /\ \A x \in Workers : View(x)' = View(x) /\ asked'[x] = asked[x]
          /\ \A x \in Workers : x # w => SameView(x)
      BY <2>1, <2>2 DEF SystemTypeOK, SameView, View, Open
    <2>4. CASE c = d
      <3>1. ASSUME NEW where, wpc' = [wpc EXCEPT ![w] = where]
            PROVE  [x \in WorkersOf(d) |-> wpc'[x]] =
                        [[x \in WorkersOf(d) |-> wpc[x]] EXCEPT ![w] = where]
        BY <1>1, <3>1 DEF SystemTypeOK
      <3>2. AsClient(d)!Worker(w)
        <4>1. UNCHANGED <<[x \in WorkersOf(d) |-> View(x)],
                          [x \in WorkersOf(d) |-> asked[x]], frontendPort[d], tcClosed[d]>>
          BY <1>1, <2>1, <2>3
        <4>2. [x \in WorkersOf(d) |-> wpc[x]][w] = wpc[w]
          BY <1>1
        <4>3. Attempt(w) => AsClient(d)!CheckClosed(w)
          BY <3>1, <4>1, <4>2 DEF Attempt, AsClient!CheckClosed, View
        <4>4. Pause(w) => AsClient(d)!EndAttempt(w) \/ AsClient(d)!WakeUp(w)
          BY <3>1, <4>1, <4>2
          DEF Pause, AsClient!EndAttempt, AsClient!WakeUp, AsClient!AfterAttempt, View
        <4>5. Dial(w) => AsClient(d)!Dial(w)
          BY <3>1, <4>1, <4>2 DEF Dial, AsClient!Dial, View
        <4>. QED BY <1>6, <4>3, <4>4, <4>5 DEF AsClient!Worker
      <3>. QED BY <1>1, <2>4, <3>2 DEF ViewStep, AsClient!ClientNext
    <2>5. CASE c # d
      BY <2>1, <2>3, <2>5, OtherClientsStutter
    <2>. QED BY <2>4, <2>5
  <1>. QED
    BY <1>2, <1>3, <1>4, <1>5, <1>6
    DEF Worker, DialFails, ClientHandshakeFails, SendRequestFails, ReceiveRefusal,
        ReceiveFails, EndServing

LEMMA StepIsView ==
    ASSUME SysInv, [SystemNext]_systemVars, NEW c \in Clients
    PROVE  ViewStep(c)
  <1>1. ASSUME NEW w \in Workers, Worker(w)
        PROVE  ViewStep(c)
    BY <1>1, WorkerIsView
  <1>2. ASSUME NEW d \in Clients, TCClose(d)
        PROVE  ViewStep(c)
    <2>1. /\ tcClosed' = [tcClosed EXCEPT ![d] = TRUE] /\ ~tcClosed[d]
          /\ UNCHANGED <<lost, wpc, sess, asked, frontendPort>>
      BY <1>2 DEF TCClose
    <2>2. \A x \in Workers : SameView(x)
      BY <2>1 DEF SameView, View, Open
    <2>3. CASE c = d
      <3>1. AsClient(d)!Close
        BY <2>1, <2>2 DEF AsClient!Close, SysInv, SystemTypeOK, SameView, View, WorkersOf
      <3>. QED BY <2>3, <3>1 DEF ViewStep, AsClient!ClientNext
    <2>4. CASE c # d
      BY <2>1, <2>2, <2>4, ViewStutters DEF SysInv, SystemTypeOK, WorkersOf
    <2>. QED BY <2>3, <2>4
  <1>3. ASSUME NEW w \in Workers, SessionLost(w)
        PROVE  ViewStep(c)
    BY <1>3, LostIsView
  <1>4. CASE \/ \E s \in Sessions : Serve(s) \/ (SessionCloses(s) /\ Silent)
             \/ \E f \in Frontends : AcceptLoopEnds(f) /\ Silent
             \/ AllStopped
             \/ UNCHANGED systemVars
    <2>1. UNCHANGED <<lost, wpc, sess, asked, frontendPort, tcClosed>>
      BY <1>4 DEF Serve, Replies, Silent, AllStopped, systemVars, tcVars
    <2>2. \A x \in Workers : SameView(x)
      BY <2>1 DEF SameView, View, Open
    <2>. QED BY <2>1, <2>2, ViewStutters DEF WorkersOf
  <1>. QED BY <1>1, <1>2, <1>3, <1>4 DEF SystemNext

(* For every client, the composition is a behaviour of MuxTunnelClient:    *)
(* the service answers only what was asked, an explicit port by itself and *)
(* a request for any port by a port, and a session changes only by being   *)
(* closed.                                                                 *)
THEOREM SystemIsClients == SystemSpec => ImplementsClients
  <1>1. SystemInit => \A c \in Clients : AsClient(c)!ClientInit
    BY DEF SystemInit, AsClient!ClientInit, WorkersOf
  <1>2. SysInv /\ [SystemNext]_systemVars =>
            [\A c \in Clients :
                UNCHANGED AsClient(c)!clientVars \/ AsClient(c)!ClientNext]_systemVars
    BY StepIsView DEF ViewStep
  <1>. QED BY <1>1, <1>2, SystemInvariance, PTL DEF SystemSpec, ImplementsClients

-----------------------------------------------------------------------------
(* A client that was created with a port.                                  *)

(* It reports that port, and all of its workers ask for it, whatever the   *)
(* service has answered to any of them.                                    *)
ConfiguredPortKept ==
    \A c \in Clients : LET p == TunnelData[c].port IN
        p # 0 => frontendPort[c] = p /\ \A w \in WorkersOf(c) : asked[w] = p

(* Only requests and answers have to do with ports. *)
LEMMA PortsOfOthers ==
    ASSUME NEW w \in Workers,
           \/ ClientReturns(w) \/ (\E s \in Sessions : Connect(w, s))
           \/ Attempt(w) \/ Dial(w) \/ Pause(w) \/ SessionLost(w)
    PROVE  UNCHANGED <<asked, frontendPort>>
  BY DEF ClientReturns, Connect, Attempt, Dial, Pause, SessionLost

LEMMA ConfiguredStep ==
    ASSUME SysInv, ConfiguredPortKept, [SystemNext]_systemVars
    PROVE  ConfiguredPortKept'
  <1>1. ASSUME UNCHANGED <<asked, frontendPort>>
        PROVE  ConfiguredPortKept'
    BY <1>1 DEF ConfiguredPortKept, WorkersOf
  <1>2. ASSUME NEW w \in Workers, SendRequest(w)
        PROVE  ConfiguredPortKept'
    <2>1. /\ asked' = [asked EXCEPT ![w] = frontendPort[ClientOf[w]]]
          /\ frontendPort' = frontendPort
      BY <1>2, ClientOfWorker, AsksKnown DEF SendRequest
    <2>. QED BY <2>1, SystemAssumption DEF ConfiguredPortKept, WorkersOf, SysInv, SystemTypeOK
  <1>3. ASSUME NEW w \in Workers, ReceivePort(w)
        PROVE  ConfiguredPortKept'
    <2>. DEFINE d == ClientOf[w]
                p == response[sess[w]].port
    <2>1. /\ frontendPort' = [frontendPort EXCEPT ![d] = p]
          /\ asked' = asked
          /\ asked[w] # 0 => p = asked[w]
      BY <1>3, ToldAsAsked DEF ReceivePort
    <2>2. d \in Clients /\ w \in WorkersOf(d)
      BY ClientOfWorker DEF WorkersOf
    <2>3. TunnelData[d].port # 0 => p = TunnelData[d].port
      BY <2>1, <2>2 DEF ConfiguredPortKept
    <2>. QED BY <2>1, <2>2, <2>3 DEF ConfiguredPortKept, WorkersOf, SysInv, SystemTypeOK
  <1>4. ASSUME NEW w \in Workers, Worker(w) \/ SessionLost(w)
        PROVE  ConfiguredPortKept'
    BY <1>1, <1>2, <1>3, <1>4, WorkerSteps, PortsOfOthers
  <1>5. ASSUME NEW c \in Clients, TCClose(c)
        PROVE  ConfiguredPortKept'
    BY <1>1, <1>5 DEF TCClose
  <1>6. ASSUME NEW s \in Sessions, Serve(s)
        PROVE  ConfiguredPortKept'
    BY <1>1, <1>6 DEF Serve, Silent, Replies, tcVars
  <1>7. CASE \/ \E s \in Sessions : SessionCloses(s) /\ Silent
             \/ \E f \in Frontends : AcceptLoopEnds(f) /\ Silent
             \/ AllStopped
             \/ UNCHANGED systemVars
    BY <1>1, <1>7 DEF Silent, AllStopped, systemVars, tcVars
  <1>. QED BY <1>4, <1>5, <1>6, <1>7 DEF SystemNext

(* Against the service as it is, and not only as MuxTunnelClient takes it  *)
(* to be, a client that was created with a port reports and requests that  *)
(* port for ever, although each answer overwrites the data it asks from.   *)
THEOREM ConfiguredPortIsKept == SystemSpec => []ConfiguredPortKept
  <1>1. SystemInit => ConfiguredPortKept
    BY DEF SystemInit, ConfiguredPortKept, WorkersOf
  <1>2. SysInv /\ ConfiguredPortKept /\ [SystemNext]_systemVars => ConfiguredPortKept'
    BY ConfiguredStep
  <1>. QED BY <1>1, <1>2, SystemInvariance, PTL DEF SystemSpec

=============================================================================
