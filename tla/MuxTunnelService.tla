-------------------------- MODULE MuxTunnelService --------------------------
(***************************************************************************)
(* pkg/muxtunnel.go: MuxTunnelService, the public end of the tunnel.       *)
(*                                                                         *)
(* A client keeps one multiplexed session to the service.  The handler of  *)
(* that session (handleMuxConnection, handleStream) registers it as a      *)
(* backend of a frontend: a TCP listener on a public port, with an accept  *)
(* goroutine of its own.  Connections accepted by a frontend are proxied   *)
(* to one of its backend sessions (doProxy).                               *)
(*                                                                         *)
(* The threads are the session handlers, the accept goroutines and the     *)
(* proxy goroutines.  They share frontendMap and the backend maps under    *)
(* MuxTunnelService.mtx, and the port pool under the pool's own mutex.     *)
(* One step is what a thread does between two points where another thread  *)
(* can see or change shared state.                                         *)
(*                                                                         *)
(* A session is used once: a client that reconnects is another session.    *)
(* At most one frontend object is ever created by a session, so the        *)
(* frontend object is named after the session whose handler created it.    *)
(***************************************************************************)
EXTENDS Naturals, Sequences, FiniteSets, PortPool

CONSTANTS
    Sessions,       \* yamux sessions, one per call of handleMuxConnection
    FrontConns,     \* connections (or ssh channels) made to the frontends
    Requests,       \* the TunnelData values clients send
    Config,         \* ConfigData.Users: user id -> its token and services
    AddrOf,         \* session -> its RemoteAddr().String()
    BusyPorts,      \* ports net.Listen cannot bind whatever this program does
    AcceptErrors,   \* may Accept fail on a listener that is open?
    SNINames,       \* instance names a front connection can ask for
    Nil             \* a nil pointer

DefaultUserID == "default@none"

NoName == ""

ASSUME ServiceAssumption ==
    /\ Nil \notin Sessions
    /\ AcceptErrors \in BOOLEAN
    /\ NoName \in SNINames
    /\ DOMAIN AddrOf = Sessions
    /\ \A r \in Requests : r.port \in Nat

-----------------------------------------------------------------------------
(* Requests.  ServiceName and Token are the sequences of parts that        *)
(* strings.Split(_, ":") makes of them; a Split has at least one part.     *)

InstanceOf(r) == IF Len(r.serviceName) > 1 THEN r.serviceName[2] ELSE NoName

ServiceOf(r) == r.serviceName[1]

UserOf(r) == IF Len(r.token) > 1 THEN r.token[1] ELSE DefaultUserID

(* The two keys of frontendMap. *)
Key(r) == <<UserOf(r), ServiceOf(r)>>

(* A service the configuration names has a token of its own; any other     *)
(* service of the user is opened by the user's token.                      *)
Authorized(r) ==
    /\ UserOf(r) \in DOMAIN Config
    /\ LET u == Config[UserOf(r)] IN
       r.token = IF ServiceOf(r) \in DOMAIN u.services
                 THEN u.services[ServiceOf(r)]
                 ELSE u.token

Keys == {Key(r) : r \in {q \in Requests : Authorized(q)}}

-----------------------------------------------------------------------------

VARIABLES
    \* handleMuxConnection and handleStream, one per session
    pc,             \* where the handler is
    td,             \* the request, once it is decoded
    port,           \* td.FrontendData.Port after the dynamic port condition
    auto,           \* td.FrontendData.auto
    val,            \* the frontend the handler works on
    closed,         \* the session is closed, as far as the service knows
    \* frontends, one per session that created one
    frontendMap,    \* user, service -> frontend
    listener,       \* the frontend's TCP listener
    acceptLoop,     \* its accept goroutine
    backends,       \* backendConnMap: the sessions it holds
    shutdown,       \* closeCh is closed
    \* doProxy, one per front connection
    cpc,            \* where the goroutine is
    cfront,         \* the frontend that accepted it
    cinst,          \* instanceName
    csess           \* the backend session it picked

sessVars  == <<pc, td, port, auto, val, closed>>
frontVars == <<frontendMap, listener, acceptLoop, backends>>
connVars  == <<cpc, cfront, cinst, csess>>
vars == <<poolVars, sessVars, frontVars, shutdown, connVars>>

HandlerStates ==
    {"idle",        \* the client has not connected
     "accepted",    \* waiting for the request on the control stream
     "authorized",  \* authorize returned true
     "allocated",   \* inside the critical section, port decided
     "registered",  \* in the backend map, about to send the response
     "serving",     \* in the loop that waits for the end of the session
     "sendFailed",  \* returned because the response could not be sent
     "done"}        \* returned

Frontends == Sessions

(* mtx is held across a step only by a handler that has decided its port   *)
(* and has not yet registered; every other critical section is one step.   *)
MtxFree == \A s \in Sessions : pc[s] # "allocated"

(* Two sessions that use the same slot of backendConnMap: it is keyed by   *)
(* the instance name and the remote address of the session.                *)
SameEntry(x, y) ==
    /\ AddrOf[x] = AddrOf[y]
    /\ InstanceOf(td[x]) = InstanceOf(td[y])

(* backendConnMap[instanceName][RemoteAddr] = session *)
AddBackend(f, s) == {x \in backends[f] : ~SameEntry(x, s)} \cup {s}

(* Mutant: the backend entry stays when the handler returns. *)
DelBackendForgotten(f, s) == backends[f]

(* delete(backendConnMap[instanceName], RemoteAddr) *)
DelBackend(f, s) == {x \in backends[f] : ~SameEntry(x, s)}

(* net.Listen fails on a port that has a listener. *)
InUse(p) ==
    p \in BusyPorts \/ \E f \in Frontends : listener[f] = "open" /\ port[f] = p

(* Mutant: the port the service already has is not looked at. *)
WantedPortAsAsked(s) == td[s].port

(* The port the handler goes on with: a request for any port joins the     *)
(* port the service already has.                                           *)
WantedPort(s) ==
    LET v == frontendMap[Key(td[s])] IN
    IF v # Nil /\ td[s].port = AnyElement THEN port[v] ELSE td[s].port

(* A listener that was never opened has nothing to close. *)
CloseListener(ls, f) ==
    [g \in Frontends |-> IF g = f /\ ls[g] = "open" THEN "closed" ELSE ls[g]]

-----------------------------------------------------------------------------

Init ==
    /\ PoolInit
    /\ pc = [s \in Sessions |-> "idle"]
    /\ td = [s \in Sessions |-> Nil]
    /\ port = [s \in Sessions |-> NoElement]
    /\ auto = [s \in Sessions |-> FALSE]
    /\ val = [s \in Sessions |-> Nil]
    /\ closed = [s \in Sessions |-> FALSE]
    /\ frontendMap = [k \in Keys |-> Nil]
    /\ listener = [f \in Frontends |-> "none"]
    /\ acceptLoop = [f \in Frontends |-> "none"]
    /\ backends = [f \in Frontends |-> {}]
    /\ shutdown = FALSE
    /\ cpc = [c \in FrontConns |-> "idle"]
    /\ cfront = [c \in FrontConns |-> Nil]
    /\ cinst = [c \in FrontConns |-> NoName]
    /\ csess = [c \in FrontConns |-> Nil]

-----------------------------------------------------------------------------
(* The session handler.  Whatever way it returns, the deferred calls close *)
(* the session.                                                            *)

Return(s, where) ==
    /\ pc' = [pc EXCEPT ![s] = where]
    /\ closed' = [closed EXCEPT ![s] = TRUE]

(* The main listener accepts a connection.  Close does not stop it.  A     *)
(* remote address is that of at most one open connection at a time.        *)
Accept(s) ==
    /\ pc[s] = "idle"
    /\ \A x \in Sessions : AddrOf[x] = AddrOf[s] => pc[x] = "idle" \/ closed[x]
    /\ pc' = [pc EXCEPT ![s] = "accepted"]
    /\ UNCHANGED <<poolVars, td, port, auto, val, closed, frontVars, shutdown, connVars>>

(* No control stream, or no request that can be decoded. *)
DecodeFails(s) ==
    /\ pc[s] = "accepted"
    /\ Return(s, "done")
    /\ UNCHANGED <<poolVars, td, port, auto, val, frontVars, shutdown, connVars>>

(* The request is decoded and authorised, in a critical section that ends  *)
(* before the one that registers the session.                              *)
Authorize(s, r) ==
    /\ pc[s] = "accepted"
    /\ MtxFree
    /\ Authorized(r)
    /\ td' = [td EXCEPT ![s] = r]
    /\ pc' = [pc EXCEPT ![s] = "authorized"]
    /\ UNCHANGED <<poolVars, port, auto, val, closed, frontVars, shutdown, connVars>>

AuthorizeFails(s, r) ==
    /\ pc[s] = "accepted"
    /\ MtxFree
    /\ ~Authorized(r)
    /\ Return(s, "done")
    /\ UNCHANGED <<poolVars, td, port, auto, val, frontVars, shutdown, connVars>>

(* Lock, look the frontend up and settle the port.  The answer of the pool *)
(* counts only when the pool was to choose: an explicit port the pool does *)
(* not have, or has handed out, is used all the same.                      *)
AllocatePort(s) ==
    /\ pc[s] = "authorized"
    /\ MtxFree
    /\ \E r \in free \cup {NoElement} :
        /\ GetElement(WantedPort(s), r)
        /\ WantedPort(s) # AnyElement \/ r # NoElement
        /\ port' = [port EXCEPT ![s] = IF WantedPort(s) = AnyElement THEN r ELSE WantedPort(s)]
    /\ auto' = [auto EXCEPT ![s] = WantedPort(s) = AnyElement]
    /\ val' = [val EXCEPT ![s] = frontendMap[Key(td[s])]]
    /\ pc' = [pc EXCEPT ![s] = "allocated"]
    /\ UNCHANGED <<td, closed, frontVars, shutdown, connVars>>

(* The pool was to choose and has nothing: the client gets an error. *)
OutOfPorts(s) ==
    /\ pc[s] = "authorized"
    /\ MtxFree
    /\ WantedPort(s) = AnyElement
    /\ GetElement(AnyElement, NoElement)
    /\ Return(s, "done")
    /\ UNCHANGED <<td, port, auto, val, frontVars, shutdown, connVars>>

(* The service has a frontend on this port, listening or not: join it. *)
ReuseFrontend(s) ==
    /\ pc[s] = "allocated"
    /\ val[s] # Nil
    /\ port[val[s]] = port[s]
    /\ backends' = [backends EXCEPT ![val[s]] = AddBackend(val[s], s)]
    /\ pc' = [pc EXCEPT ![s] = "registered"]
    /\ UNCHANGED <<poolVars, td, port, auto, val, closed, frontendMap, listener,
                   acceptLoop, shutdown, connVars>>

NeedsFrontend(s) == val[s] # Nil => port[val[s]] # port[s]

(* Close the listener of the frontend the service had on another port, if  *)
(* any, start one and put it in the map with this session in it.  What the *)
(* old frontend has in its backend map stays there.                        *)
StartFrontend(s) ==
    /\ pc[s] = "allocated"
    /\ NeedsFrontend(s)
    /\ ~InUse(port[s])
    /\ listener' = [CloseListener(listener, val[s]) EXCEPT ![s] = "open"]
    /\ acceptLoop' = [acceptLoop EXCEPT ![s] = "accepting"]
    /\ frontendMap' = [frontendMap EXCEPT ![Key(td[s])] = s]
    /\ backends' = [backends EXCEPT ![s] = {s}]
    /\ val' = [val EXCEPT ![s] = s]
    /\ pc' = [pc EXCEPT ![s] = "registered"]
    /\ UNCHANGED <<poolVars, td, port, auto, closed, shutdown, connVars>>

(* net.Listen fails.  The old listener is closed by then, the map keeps    *)
(* its frontend; the port goes back to the pool, whoever got it; the       *)
(* client gets no response.                                                *)
StartFrontendFails(s) ==
    /\ pc[s] = "allocated"
    /\ NeedsFrontend(s)
    /\ InUse(port[s])
    /\ listener' = CloseListener(listener, val[s])
    /\ ReturnElement(port[s])
    /\ Return(s, "done")
    /\ UNCHANGED <<td, port, auto, val, frontendMap, acceptLoop, backends, shutdown, connVars>>

SendResponse(s) ==
    /\ pc[s] = "registered"
    /\ ~closed[s]
    /\ pc' = [pc EXCEPT ![s] = "serving"]
    /\ UNCHANGED <<poolVars, td, port, auto, val, closed, frontVars, shutdown, connVars>>

(* Mutant: the handler goes on trying to send. *)
SendResponseRetries(s) == pc[s] = "registered" /\ UNCHANGED vars

(* The client is gone, or does not read: the handler returns at once and   *)
(* leaves its session in the backend map.                                  *)
SendResponseFails(s) ==
    /\ pc[s] = "registered"
    /\ Return(s, "sendFailed")
    /\ UNCHANGED <<poolVars, td, port, auto, val, frontVars, shutdown, connVars>>

(* Mutants: no listener is closed, or the frontend of whoever leaves; the  *)
(* map keeps a frontend that lost its last backend, or loses the frontend  *)
(* of whoever leaves.                                                      *)
ListenersKept(s) == listener
ListenersClosed(s) == CloseListener(listener, val[s])
FrontendMapKept(s) == frontendMap
FrontendMapCleared(s) == [frontendMap EXCEPT ![Key(td[s])] = Nil]

(* The last backend to leave closes the listener of its own frontend and   *)
(* deletes the service from the map, whichever frontend the map has there. *)
LeavesLast(s) == DelBackend(val[s], s) = {}

ListenersAfter(s) == IF LeavesLast(s) THEN CloseListener(listener, val[s]) ELSE listener

FrontendMapAfter(s) ==
    IF LeavesLast(s) THEN [frontendMap EXCEPT ![Key(td[s])] = Nil] ELSE frontendMap

(* The poll sees the session closed, or closeCh is closed. *)
Cleanup(s) ==
    /\ pc[s] = "serving"
    /\ closed[s] \/ shutdown
    /\ MtxFree
    /\ backends' = [backends EXCEPT ![val[s]] = DelBackend(val[s], s)]
    /\ listener' = ListenersAfter(s)
    /\ frontendMap' = FrontendMapAfter(s)
    /\ Return(s, "done")
    /\ UNCHANGED <<poolVars, td, port, auto, val, acceptLoop, shutdown, connVars>>

(* The service finds the session closed: the client closed it, the         *)
(* connection broke or yamux's keepalive failed, some time before.         *)
SessionCloses(s) ==
    /\ pc[s] \in {"accepted", "authorized", "allocated", "registered", "serving"}
    /\ ~closed[s]
    /\ closed' = [closed EXCEPT ![s] = TRUE]
    /\ UNCHANGED <<poolVars, pc, td, port, auto, val, frontVars, shutdown, connVars>>

Close ==
    /\ ~shutdown
    /\ shutdown' = TRUE
    /\ UNCHANGED <<poolVars, sessVars, frontVars, connVars>>

-----------------------------------------------------------------------------
(* The accept goroutine of frontend f.                                     *)

(* A front connection is closed and its goroutine is gone, with what it    *)
(* knew.                                                                   *)
EndConn(c) ==
    /\ cpc' = [cpc EXCEPT ![c] = "closed"]
    /\ cfront' = [cfront EXCEPT ![c] = Nil]
    /\ cinst' = [cinst EXCEPT ![c] = NoName]
    /\ csess' = [csess EXCEPT ![c] = Nil]

(* Accept returns a connection.  SSH is looked at first; a TLS handshake   *)
(* is made by the accept goroutine itself, which accepts nothing until the *)
(* handshake is over.                                                      *)
AcceptFrontend(f, c) ==
    /\ listener[f] = "open"
    /\ acceptLoop[f] = "accepting"
    /\ cpc[c] = "idle"
    /\ LET tls == td[f].tlsWrap /\ ~td[f].sshWrap IN
       /\ acceptLoop' = IF tls THEN [acceptLoop EXCEPT ![f] = "handshake"] ELSE acceptLoop
       /\ cpc' = [cpc EXCEPT ![c] = IF td[f].sshWrap THEN "ssh"
                                    ELSE IF tls THEN "handshake" ELSE "resolve"]
    /\ cfront' = [cfront EXCEPT ![c] = f]
    /\ cinst' = [cinst EXCEPT ![c] = IF td[f].sshWrap THEN InstanceOf(td[f]) ELSE NoName]
    /\ UNCHANGED <<poolVars, sessVars, frontendMap, listener, backends, shutdown, csess>>

(* Accept returns an error: the listener was closed, or, with              *)
(* AcceptErrors, the process ran out of descriptors.  The goroutine gives  *)
(* the port back without holding mtx and ends.                             *)
AcceptLoopEnds(f) ==
    /\ acceptLoop[f] = "accepting"
    /\ listener[f] = "closed" \/ AcceptErrors
    /\ acceptLoop' = [acceptLoop EXCEPT ![f] = "ended"]
    /\ ReturnElement(port[f])
    /\ UNCHANGED <<sessVars, frontendMap, listener, backends, shutdown, connVars>>

(* doProxy asks the stream for an instance only when it has none. *)
WithInstance(n) == IF n = NoName THEN "resolve" ELSE "pick"

(* The server name of the TLS handshake is the instance. *)
Handshake(c) ==
    /\ cpc[c] = "handshake"
    /\ \E n \in SNINames :
        /\ cinst' = [cinst EXCEPT ![c] = n]
        /\ cpc' = [cpc EXCEPT ![c] = WithInstance(n)]
    /\ acceptLoop' = [acceptLoop EXCEPT ![cfront[c]] = "accepting"]
    /\ UNCHANGED <<poolVars, sessVars, frontendMap, listener, backends, shutdown, cfront, csess>>

HandshakeFails(c) ==
    /\ cpc[c] = "handshake"
    /\ EndConn(c)
    /\ acceptLoop' = [acceptLoop EXCEPT ![cfront[c]] = "accepting"]
    /\ UNCHANGED <<poolVars, sessVars, frontendMap, listener, backends, shutdown>>

-----------------------------------------------------------------------------
(* The goroutines of a front connection: handleSSH and doProxy.            *)

(* The ssh client opens a direct-tcpip channel; the instance is the one of *)
(* the request that created the frontend.                                  *)
DirectTCPIP(c) ==
    /\ cpc[c] = "ssh"
    /\ cpc' = [cpc EXCEPT ![c] = WithInstance(cinst[c])]
    /\ UNCHANGED <<poolVars, sessVars, frontVars, shutdown, cfront, cinst, csess>>

(* The first bytes arrive; they name an instance, or none. *)
GetSNITarget(c) ==
    /\ cpc[c] = "resolve"
    /\ \E n \in SNINames : cinst' = [cinst EXCEPT ![c] = n]
    /\ cpc' = [cpc EXCEPT ![c] = "pick"]
    /\ UNCHANGED <<poolVars, sessVars, frontVars, shutdown, cfront, csess>>

(* The read deadline of getSNITarget.  An ssh channel has none. *)
ReadDeadline(c) ==
    /\ cpc[c] = "resolve"
    /\ ~td[cfront[c]].sshWrap
    /\ EndConn(c)
    /\ UNCHANGED <<poolVars, sessVars, frontVars, shutdown>>

(* The peer leaves before it said anything. *)
FrontConnCloses(c) ==
    /\ cpc[c] \in {"ssh", "resolve"}
    /\ EndConn(c)
    /\ UNCHANGED <<poolVars, sessVars, frontVars, shutdown>>

(* Mutant: a backend of any instance of the service will do. *)
CandidatesOfAnyInstance(c) ==
    LET f == frontendMap[Key(td[cfront[c]])] IN
    IF f = Nil THEN {} ELSE backends[f]

(* The sessions doProxy chooses from.  The frontend is looked up again by  *)
(* user and service: it need not be the one that accepted the connection.  *)
Candidates(c) ==
    LET f == frontendMap[Key(td[cfront[c]])] IN
    IF f = Nil THEN {} ELSE {x \in backends[f] : InstanceOf(td[x]) = cinst[c]}

(* A random backend. *)
PickBackend(c) ==
    /\ cpc[c] = "pick"
    /\ MtxFree
    /\ \E x \in Candidates(c) : csess' = [csess EXCEPT ![c] = x]
    /\ cpc' = [cpc EXCEPT ![c] = "picked"]
    /\ UNCHANGED <<poolVars, sessVars, frontVars, shutdown, cfront, cinst>>

(* Mutant: only a missing frontend is noticed. *)
NoFrontend(c) == frontendMap[Key(td[cfront[c]])] = Nil

(* No frontend, no such instance or no backend. *)
NoCandidate(c) == Candidates(c) = {}

NoBackend(c) ==
    /\ cpc[c] = "pick"
    /\ MtxFree
    /\ NoCandidate(c)
    /\ EndConn(c)
    /\ UNCHANGED <<poolVars, sessVars, frontVars, shutdown>>

(* connectBackend opens a stream of the session, outside mtx.  The session *)
(* may have been closed, and its handler may have returned, since.         *)
ConnectBackend(c) ==
    /\ cpc[c] = "picked"
    /\ ~closed[csess[c]]
    /\ cpc' = [cpc EXCEPT ![c] = "proxying"]
    /\ UNCHANGED <<poolVars, sessVars, frontVars, shutdown, cfront, cinst, csess>>

(* The session is closed, the stream cannot be opened or written. *)
ConnectFails(c) ==
    /\ cpc[c] = "picked"
    /\ EndConn(c)
    /\ UNCHANGED <<poolVars, sessVars, frontVars, shutdown>>

(* Both directions are done. *)
EndProxy(c) ==
    /\ cpc[c] = "proxying"
    /\ EndConn(c)
    /\ UNCHANGED <<poolVars, sessVars, frontVars, shutdown>>

-----------------------------------------------------------------------------

Handler(s) ==
    \/ AllocatePort(s) \/ OutOfPorts(s)
    \/ ReuseFrontend(s) \/ StartFrontend(s) \/ StartFrontendFails(s)
    \/ SendResponse(s) \/ SendResponseFails(s)
    \/ Cleanup(s)

Client(s) ==
    \/ Accept(s)
    \/ \E r \in Requests : Authorize(s, r) \/ AuthorizeFails(s, r)
    \/ DecodeFails(s)
    \/ SessionCloses(s)

Proxy(c) ==
    \/ DirectTCPIP(c) \/ GetSNITarget(c) \/ ReadDeadline(c) \/ FrontConnCloses(c)
    \/ Handshake(c) \/ HandshakeFails(c)
    \/ PickBackend(c) \/ NoBackend(c)
    \/ ConnectBackend(c) \/ ConnectFails(c) \/ EndProxy(c)

(* No handler, accept goroutine or proxy has anything left to do: every    *)
(* session is over, and what still listens waits for a connection that     *)
(* none is left to make.                                                   *)
Finished ==
    /\ shutdown
    /\ \A s \in Sessions : pc[s] \in {"sendFailed", "done"}
    /\ \A f \in Frontends :
        acceptLoop[f] # "handshake" /\ (acceptLoop[f] = "accepting" => listener[f] = "open")
    /\ \A c \in FrontConns : cpc[c] \in {"idle", "closed"}
    /\ UNCHANGED vars

Next ==
    \/ \E s \in Sessions : Handler(s) \/ Client(s)
    \/ Close
    \/ \E f \in Frontends : AcceptLoopEnds(f) \/ \E c \in FrontConns : AcceptFrontend(f, c)
    \/ \E c \in FrontConns : Proxy(c)
    \/ Finished

Spec == Init /\ [][Next]_vars

(* A goroutine that can go on does: handlers and accept goroutines always, *)
(* a poll every 10 s sees a closed session, mtx is free again after each   *)
(* critical section.  A proxy goroutine goes on too, but for what waits    *)
(* for its peer: a TLS handshake has no deadline, nor has an ssh channel.  *)
(* A proxied connection ends when the session of its stream is closed.     *)
Fairness ==
    /\ \A s \in Sessions :
        /\ WF_vars(Handler(s))
        /\ WF_vars(closed[s] /\ DecodeFails(s))
    /\ \A f \in Frontends : WF_vars(listener[f] = "closed" /\ AcceptLoopEnds(f))
    /\ \A c \in FrontConns :
        /\ WF_vars(ReadDeadline(c) \/ GetSNITarget(c))
        /\ WF_vars(PickBackend(c) \/ NoBackend(c))
        /\ WF_vars(ConnectBackend(c) \/ ConnectFails(c))
        /\ WF_vars(cpc[c] = "proxying" /\ closed[csess[c]] /\ EndProxy(c))

FairSpec == Spec /\ Fairness

-----------------------------------------------------------------------------
(* What the service keeps to whatever its clients ask for: ports that      *)
(* collide or change, addresses used again, sessions that end at any       *)
(* point.                                                                  *)

(* The values the state of the service, its sessions, frontends and front  *)
(* connections can have.                                                   *)
TypeOK ==
    /\ free \subseteq NewPoolForRange
    /\ allocated \subseteq NewPoolForRange
    /\ pc \in [Sessions -> HandlerStates]
    /\ td \in [Sessions -> Requests \cup {Nil}]
    /\ port \in [Sessions -> Nat]
    /\ auto \in [Sessions -> BOOLEAN]
    /\ val \in [Sessions -> Frontends \cup {Nil}]
    /\ closed \in [Sessions -> BOOLEAN]
    /\ frontendMap \in [Keys -> Frontends \cup {Nil}]
    /\ listener \in [Frontends -> {"none", "open", "closed"}]
    /\ acceptLoop \in [Frontends -> {"none", "accepting", "handshake", "ended"}]
    /\ backends \in [Frontends -> SUBSET Sessions]
    /\ shutdown \in BOOLEAN
    /\ cpc \in [FrontConns -> {"idle", "ssh", "handshake", "resolve", "pick",
                               "picked", "proxying", "closed"}]
    /\ cfront \in [FrontConns -> Frontends \cup {Nil}]
    /\ cinst \in [FrontConns -> SNINames \cup {InstanceOf(r) : r \in Requests}]
    /\ csess \in [FrontConns -> Sessions \cup {Nil}]

(* A public port is open only as long as some session registered for it is *)
(* in the backend map: whoever leaves last closes the listener, even after *)
(* the service has moved to another port or its map entry is gone.         *)
OpenListenerHasBackend ==
    \A f \in Frontends : listener[f] = "open" => backends[f] # {}

(* doProxy and GetServices never find a frontend of another service or one *)
(* without backends in frontendMap.                                        *)
MappedFrontendHasBackend ==
    \A k \in Keys : frontendMap[k] # Nil =>
        /\ backends[frontendMap[k]] # {}
        /\ Key(td[frontendMap[k]]) = k

(* A backend map holds only sessions that were authorised for the service  *)
(* of the frontend and whose handler has not cleaned up after itself.      *)
(* (The handler that could not send its response never does.)              *)
NoGhostBackend ==
    \A f \in Frontends : \A x \in backends[f] :
        /\ pc[x] \in {"registered", "serving", "sendFailed"}
        /\ val[x] = f
        /\ Authorized(td[x])
        /\ Key(td[x]) = Key(td[f])

(* A front connection is proxied to a session that registered, with a      *)
(* valid token, for the user and the service of the frontend it came in    *)
(* through, and for the instance it asked for - although the frontend is   *)
(* looked up by name long after the connection was accepted, and may have  *)
(* been replaced meanwhile.                                                *)
RoutedSession ==
    \A c \in FrontConns : cpc[c] \in {"picked", "proxying"} =>
        LET x == csess[c] IN
        /\ Authorized(td[x])
        /\ Key(td[x]) = Key(td[cfront[c]])
        /\ InstanceOf(td[x]) = cinst[c]

(* The accept goroutine of f has its port, or waits for a TLS peer. *)
Looping(f) == acceptLoop[f] \in {"accepting", "handshake"}

(* Somebody uses an element of the pool: a handler that has just got it or *)
(* an accept goroutine that will return it.                                *)
PortUsed(p) ==
    \/ \E s \in Sessions : pc[s] = "allocated" /\ port[s] = p
    \/ \E f \in Frontends : port[f] = p /\ Looping(f)

(* A session registers with a frontend whose accept goroutine has ended.   *)
JoinsEndedFrontend(s) == ReuseFrontend(s) /\ ~Looping(val[s])

(* Whoever is the last to use a port gives it back in the same step,       *)
(* whatever ports the clients ask for.  There is one way to lose a port:   *)
(* the handler takes it for a frontend of its service that is in the map   *)
(* but no longer accepts (a Listen on another port failed, or Accept did), *)
(* and registers there; no goroutine is left to return the port.           *)
LastUserReturns ==
    [][\A p \in NewPoolForRange :
            (p \in allocated /\ PortUsed(p) /\ p \in allocated' /\ ~PortUsed(p)')
                => \E s \in Sessions : JoinsEndedFrontend(s) /\ port[s] = p]_vars

-----------------------------------------------------------------------------
(* What it keeps to when a service always asks for the same port, explicit *)
(* ports lie outside the dynamic range (two services may still ask for the *)
(* same one), a remote address is not used again and Accept does not fail  *)
(* on an open listener.                                                    *)

StaticPorts ==
    /\ \A q, r \in Requests : Key(q) = Key(r) => q.port = r.port
    /\ \A r \in Requests : r.port \notin NewPoolForRange
    /\ \A x, y \in Sessions : AddrOf[x] = AddrOf[y] => x = y
    /\ ~AcceptErrors

(* GetServices: the services of a user as the REST API lists them. *)
GetServices(u) ==
    {[name |-> k[2], port |-> port[frontendMap[k]]] :
        k \in {j \in Keys : j[1] = u /\ frontendMap[j] # Nil}}

Listening(f) == listener[f] = "open" /\ acceptLoop[f] # "ended"

(* What GetServices lists is what listens: a listed service has a listener *)
(* of its own on the listed port, and every open listener is the one the   *)
(* map has for its service, so that no connection is accepted for a        *)
(* service that doProxy will not find.                                     *)
FrontendConsistent ==
    /\ \A u \in DOMAIN Config : \A e \in GetServices(u) :
        \E f \in Frontends : Listening(f) /\ port[f] = e.port /\ Key(td[f]) = <<u, e.name>>
    /\ \A f \in Frontends : listener[f] = "open" => frontendMap[Key(td[f])] = f

(* The response told the client a port; as long as its session is up and   *)
(* the service is not shut down, that port is listening and a connection   *)
(* made to it can be proxied to this session.                              *)
AnnouncedPortServed ==
    \A s \in Sessions : pc[s] = "serving" /\ ~closed[s] =>
        LET f == val[s] IN
        /\ frontendMap[Key(td[s])] = f
        /\ s \in backends[f]
        /\ port[f] = port[s]
        /\ Listening(f)

(* An element of the pool is out exactly as long as somebody uses it:      *)
(* neither is a port lost nor handed out while it is in use.               *)
NoPortLeak == \A p \in NewPoolForRange : p \in allocated <=> PortUsed(p)

(* The service as a table of services: what doProxy and GetServices find   *)
(* in frontendMap.                                                         *)
MembersOf(k) == IF frontendMap[k] = Nil THEN {} ELSE backends[frontendMap[k]]

PublicPortOf(k) == IF frontendMap[k] = Nil THEN NoElement ELSE port[frontendMap[k]]

Registry == INSTANCE FrontendRegistry WITH
    Services <- Keys,
    Members <- Sessions,
    members <- [k \in Keys |-> MembersOf(k)],
    publicPort <- [k \in Keys |-> PublicPortOf(k)]

(* The service, handlers, locks, listeners and pool included, implements   *)
(* the registry: every step registers one session, removes one session or  *)
(* changes nothing a client can see.                                       *)
ImplementsRegistry == Registry!RegistrySpec

-----------------------------------------------------------------------------
(* What it gets done, under Fairness.                                      *)

(* A client waits for the response without a deadline: a request that was  *)
(* authorised is answered, or its session closed, whatever the other       *)
(* handlers do.                                                            *)
RequestAnswered ==
    \A s \in Sessions :
        pc[s] = "authorized"
            ~> (pc[s] = "serving" \/ (closed[s] /\ pc[s] \in {"sendFailed", "done"}))

(* A session that ends while it is served leaves the backend maps: it is   *)
(* not offered to front connections for ever.                              *)
ClosedSessionRemoved ==
    \A s \in Sessions :
        pc[s] = "serving" /\ closed[s] ~> \A f \in Frontends : s \notin backends[f]

(* After Close every listener is closed for good, but those a handler      *)
(* that could not send its response left behind.  (Sessions are finite:    *)
(* Close leaves the main listener open, so more could register.)           *)
ShutdownClosesFrontends ==
    shutdown ~> [](\A f \in Frontends : listener[f] = "open" =>
                        \E x \in backends[f] : pc[x] = "sendFailed")

(* A front connection that waits neither for a TLS handshake nor for an    *)
(* ssh peer is either proxied or dropped.                                  *)
FrontConnResolved ==
    \A c \in FrontConns :
        cpc[c] \in {"resolve", "pick", "picked"} /\ ~td[cfront[c]].sshWrap
            ~> cpc[c] \in {"proxying", "closed"}

(* When every session has gone and cleaned up, the dynamic range is whole  *)
(* again, unless the accept goroutine of a TLS frontend is kept waiting    *)
(* by a peer that never finishes its handshake.                            *)
PortsReturned ==
    (\A s \in Sessions : pc[s] = "done")
        ~> (free = NewPoolForRange \/ \E f \in Frontends : acceptLoop[f] = "handshake")

-----------------------------------------------------------------------------
(* What the documentation says and the code does not keep to.              *)

(* README.md:543, on the port a client asks for: "passing 0 will let the   *)
(* frontend choose a port".  The port the service chose is one it can      *)
(* listen on: none of its own frontends has it.                            *)
AutoPortIsBindable ==
    \A s \in Sessions : pc[s] = "allocated" /\ auto[s] =>
        \A f \in Frontends : listener[f] = "open" => port[f] # port[s]

=============================================================================
