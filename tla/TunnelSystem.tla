---------------------------- MODULE TunnelSystem ----------------------------
(***************************************************************************)
(* Clients and the service together: every worker of every client is a     *)
(* worker of MuxTunnelClient, and its sessions are the ones that           *)
(* MuxTunnelService handles.  A session carries one request and at most    *)
(* one response.  Each end has its own view of it: closed is what the      *)
(* service knows, lost what the client knows, and the end that did not     *)
(* close the session notices at any later time (the FIN arrives, yamux's   *)
(* keepalive or a write fails).  Until then it goes on with what it has    *)
(* received; what was sent before may or may not still arrive.             *)
(*                                                                         *)
(* What neither module can show alone is here: a client sends the port it  *)
(* was given the last time, so that the requests the service gets depend   *)
(* on the responses it gave.                                               *)
(***************************************************************************)
EXTENDS MuxTunnelService

CONSTANTS
    Clients,        \* calls of NewMuxTunnelClient
    Workers,        \* their goroutines
    ClientOf,       \* worker -> client
    WorkerOf,       \* session -> worker: bounds the connections of a worker
    TunnelData      \* client -> the TunnelData it was created with; the
                    \* tokens are good

(* The ports a client can come to know: those it may be created with and   *)
(* those of the dynamic range.                                             *)
KnownPorts == NewPoolForRange \cup {r.port : r \in Requests}

(* Requests has what the clients can come to ask for. *)
ASSUME SystemAssumption ==
    /\ Sessions \subseteq Nat
    /\ ClientOf \in [Workers -> Clients]
    /\ WorkerOf \in [Sessions -> Workers]
    /\ \A c \in Clients : TunnelData[c] \in Requests /\ Authorized(TunnelData[c])
    /\ \A c \in Clients :
        DOMAIN TunnelData[c] = {"serviceName", "token", "port", "tlsWrap", "sshWrap"}
    /\ \A c \in Clients, p \in KnownPorts : [TunnelData[c] EXCEPT !.port = p] \in Requests

VARIABLES
    wpc,            \* where the worker is
    sess,           \* the session of its current attempt
    asked,          \* the port in its last request
    frontendPort,   \* client -> tunnelData.FrontendData.Port
    tcClosed,       \* client -> Close was called
    lost,           \* session -> closed as far as its client knows
    request,        \* session -> the request on its way
    response        \* session -> the response on its way: a port or an error

serviceVars == vars
wireVars == <<request, response>>
tcVars == <<wpc, sess, asked, frontendPort, tcClosed, lost>>
systemVars == <<serviceVars, wireVars, tcVars>>

(* TunnelDataResponse *)
Announcement(p) == [error |-> FALSE, port |-> p]
Refusal == [error |-> TRUE, port |-> NoElement]

(* The session of the worker is open, as far as the worker knows. *)
Open(w) == sess[w] # Nil /\ ~lost[sess[w]]

SystemInit ==
    /\ Init
    /\ wpc = [w \in Workers |-> "start"]
    /\ sess = [w \in Workers |-> Nil]
    /\ asked = [w \in Workers |-> TunnelData[ClientOf[w]].port]
    /\ frontendPort = [c \in Clients |-> TunnelData[c].port]
    /\ tcClosed = [c \in Clients |-> FALSE]
    /\ lost = [s \in Sessions |-> FALSE]
    /\ request = [s \in Sessions |-> Nil]
    /\ response = [s \in Sessions |-> Nil]

-----------------------------------------------------------------------------
(* The client's side, as in MuxTunnelClient.                               *)

ServiceUnchanged == UNCHANGED serviceVars

(* Mutant: the deferred calls are missing. *)
LostNot(w) == lost

(* The deferred calls close the session. *)
LostBy(w) == IF sess[w] = Nil THEN lost ELSE [lost EXCEPT ![sess[w]] = TRUE]

(* Nobody is left to read what may still come. *)
ClientReturns(w) ==
    /\ wpc' = [wpc EXCEPT ![w] = "back"]
    /\ sess' = [sess EXCEPT ![w] = Nil]
    /\ lost' = LostBy(w)
    /\ response' = IF sess[w] = Nil THEN response ELSE [response EXCEPT ![sess[w]] = Nil]
    /\ ServiceUnchanged
    /\ UNCHANGED <<request, asked, frontendPort, tcClosed>>

Attempt(w) ==
    /\ wpc[w] = "start"
    /\ wpc' = [wpc EXCEPT ![w] = IF tcClosed[ClientOf[w]] THEN "back" ELSE "dialing"]
    /\ ServiceUnchanged
    /\ UNCHANGED <<wireVars, sess, asked, frontendPort, tcClosed, lost>>

DialFails(w) == wpc[w] = "dialing" /\ ClientReturns(w)

Dial(w) ==
    /\ wpc[w] = "dialing"
    /\ wpc' = [wpc EXCEPT ![w] = "handshake"]
    /\ ServiceUnchanged
    /\ UNCHANGED <<wireVars, sess, asked, frontendPort, tcClosed, lost>>

ClientHandshakeFails(w) == wpc[w] = "handshake" /\ ClientReturns(w)

(* The service accepts the connection: the next session of this worker.    *)
Connect(w, s) ==
    /\ wpc[w] = "handshake"
    /\ WorkerOf[s] = w
    /\ \A x \in Sessions : WorkerOf[x] = w /\ x < s => pc[x] # "idle"
    /\ Accept(s)
    /\ sess' = [sess EXCEPT ![w] = s]
    /\ wpc' = [wpc EXCEPT ![w] = "opened"]
    /\ UNCHANGED <<wireVars, asked, frontendPort, tcClosed, lost>>

(* The port of the last response is part of the next request. *)
CurrentTunnelData(c) == [TunnelData[c] EXCEPT !.port = frontendPort[c]]

SendRequest(w) ==
    /\ wpc[w] = "opened"
    /\ Open(w)
    /\ LET td1 == CurrentTunnelData(ClientOf[w]) IN
       /\ request' = [request EXCEPT ![sess[w]] = td1]
       /\ asked' = [asked EXCEPT ![w] = td1.port]
    /\ wpc' = [wpc EXCEPT ![w] = "waiting"]
    /\ ServiceUnchanged
    /\ UNCHANGED <<response, sess, frontendPort, tcClosed, lost>>

SendRequestFails(w) == wpc[w] = "opened" /\ ~Open(w) /\ ClientReturns(w)

ReceivePort(w) ==
    /\ wpc[w] = "waiting"
    /\ response[sess[w]] # Nil
    /\ ~response[sess[w]].error
    /\ frontendPort' = [frontendPort EXCEPT ![ClientOf[w]] = response[sess[w]].port]
    /\ response' = [response EXCEPT ![sess[w]] = Nil]
    /\ wpc' = [wpc EXCEPT ![w] = "ready"]
    /\ ServiceUnchanged
    /\ UNCHANGED <<request, sess, asked, tcClosed, lost>>

ReceiveRefusal(w) ==
    /\ wpc[w] = "waiting"
    /\ response[sess[w]] # Nil
    /\ response[sess[w]].error
    /\ ClientReturns(w)

ReceiveFails(w) == wpc[w] = "waiting" /\ ~Open(w) /\ ClientReturns(w)

EndServing(w) ==
    /\ wpc[w] = "ready"
    /\ ~Open(w) \/ tcClosed[ClientOf[w]]
    /\ ClientReturns(w)

Pause(w) ==
    /\ \/ wpc[w] = "back" /\ wpc' = [wpc EXCEPT ![w] = IF tcClosed[ClientOf[w]] THEN "done" ELSE "sleeping"]
       \/ wpc[w] = "sleeping" /\ wpc' = [wpc EXCEPT ![w] = "start"]
    /\ ServiceUnchanged
    /\ UNCHANGED <<wireVars, sess, asked, frontendPort, tcClosed, lost>>

(* The worker's end notices that the service closed the session or that    *)
(* the network is gone.                                                    *)
SessionLost(w) ==
    /\ Open(w)
    /\ lost' = [lost EXCEPT ![sess[w]] = TRUE]
    /\ ServiceUnchanged
    /\ UNCHANGED <<wireVars, wpc, sess, asked, frontendPort, tcClosed>>

TCClose(c) ==
    /\ ~tcClosed[c]
    /\ tcClosed' = [tcClosed EXCEPT ![c] = TRUE]
    /\ ServiceUnchanged
    /\ UNCHANGED <<wireVars, wpc, sess, asked, frontendPort, lost>>

-----------------------------------------------------------------------------
(* The service's side: the steps of MuxTunnelService, with the request the *)
(* client sent and the responses that answer it.                           *)

Silent == UNCHANGED <<wireVars, tcVars>>

(* A response to a client that has closed its end is sent all the same, as *)
(* long as the service does not know, and reaches nobody.                  *)
Replies(s, answer) ==
    /\ response' = IF closed[s] \/ lost[s] THEN response ELSE [response EXCEPT ![s] = answer]
    /\ UNCHANGED tcVars

(* Mutant: the response repeats the port of the request. *)
AnnouncedAsAsked(s) == Announcement(td[s].port)

(* The port the frontend listens on. *)
Announced(s) == Announcement(port[s])

Receives(s) ==
    /\ request[s] # Nil
    /\ request' = [request EXCEPT ![s] = Nil]

Serve(s) ==
    \/ Receives(s) /\ Authorize(s, request[s]) /\ UNCHANGED <<response, tcVars>>
    \/ (closed[s] \/ lost[s]) /\ DecodeFails(s) /\ Silent
    \/ AllocatePort(s) /\ Silent
    \/ OutOfPorts(s) /\ Replies(s, Refusal) /\ UNCHANGED request
    \/ ReuseFrontend(s) /\ Silent
    \/ StartFrontend(s) /\ Silent
    \/ StartFrontendFails(s) /\ Silent
    \/ SendResponse(s) /\ Replies(s, Announced(s)) /\ UNCHANGED request
    \/ SendResponseFails(s) /\ Silent
    \/ Cleanup(s) /\ Silent

-----------------------------------------------------------------------------

Worker(w) ==
    \/ Attempt(w) \/ DialFails(w) \/ Dial(w)
    \/ ClientHandshakeFails(w) \/ (\E s \in Sessions : Connect(w, s))
    \/ SendRequest(w) \/ SendRequestFails(w)
    \/ ReceivePort(w) \/ ReceiveRefusal(w) \/ ReceiveFails(w)
    \/ EndServing(w) \/ Pause(w)

(* Every client was closed, and nobody has anything left to do. *)
AllStopped ==
    /\ \A w \in Workers : wpc[w] = "done"
    /\ \A s \in Sessions : pc[s] \in {"idle", "sendFailed", "done"}
    /\ \A f \in Frontends : acceptLoop[f] = "accepting" => listener[f] = "open"
    /\ UNCHANGED systemVars

SystemNext ==
    \/ \E w \in Workers : Worker(w) \/ SessionLost(w)
    \/ \E c \in Clients : TCClose(c)
    \/ \E s \in Sessions : Serve(s)
    \/ \E s \in Sessions : SessionCloses(s) /\ Silent
    \/ \E f \in Frontends : AcceptLoopEnds(f) /\ Silent
    \/ AllStopped

SystemSpec == SystemInit /\ [][SystemNext]_systemVars

(* Workers, handlers and accept goroutines go on as in the two modules,    *)
(* and an end that is gone is noticed by the other one in the end.         *)
SystemFairSpec ==
    /\ SystemSpec
    /\ \A w \in Workers :
        /\ WF_systemVars(wpc[w] # "handshake" /\ Worker(w))
        /\ WF_systemVars(sess[w] # Nil /\ closed[sess[w]] /\ SessionLost(w))
    /\ \A s \in Sessions :
        /\ WF_systemVars(Serve(s))
        /\ WF_systemVars(lost[s] /\ SessionCloses(s) /\ Silent)
    /\ \A f \in Frontends : WF_systemVars(AcceptLoopEnds(f) /\ Silent)

-----------------------------------------------------------------------------
(* Properties.                                                             *)

WorkersOf(c) == {w \in Workers : ClientOf[w] = c}

AsClient(c) == INSTANCE MuxTunnelClient WITH
    Workers <- WorkersOf(c),
    InitialPort <- TunnelData[c].port,
    Ports <- KnownPorts \ {0},
    wpc <- [w \in WorkersOf(c) |-> wpc[w]],
    session <- [w \in WorkersOf(c) |->
                    IF sess[w] = Nil THEN "none" ELSE IF Open(w) THEN "open" ELSE "closed"],
    asked <- [w \in WorkersOf(c) |-> asked[w]],
    frontendPort <- frontendPort[c],
    closed <- tcClosed[c]

(* The service is what MuxTunnelClient takes it for: seen from each client *)
(* - its workers, their sessions and the port it knows - every step of the *)
(* clients, the service and the network is one of that module.  So an      *)
(* explicit port is answered with itself, a response comes only after a    *)
(* request, and a session changes only by being closed.  (This is          *)
(* AsClient(c)!ClientSpec for every c.)                                    *)
ImplementsClients ==
    /\ \A c \in Clients : AsClient(c)!ClientInit
    /\ [][\A c \in Clients :
            UNCHANGED AsClient(c)!clientVars \/ AsClient(c)!ClientNext]_systemVars

(* getServices of the REST API, asked by name: the ports it lists. *)
ListedPorts(u, name) == {e.port : e \in {x \in GetServices(u) : x.name = name}}

(* Every service has one worker, a worker does not connect from the same   *)
(* remote address again, and Accept does not fail on an open listener.     *)
OneWorkerEach ==
    /\ \A v, w \in Workers :
        Key(TunnelData[ClientOf[v]]) = Key(TunnelData[ClientOf[w]]) => v = w
    /\ \A x, y \in Sessions : AddrOf[x] = AddrOf[y] /\ WorkerOf[x] = WorkerOf[y] => x = y
    /\ ~AcceptErrors

(* What the worker's client counts on: the response is in, and neither end *)
(* of the session knows of its end.                                        *)
Up(w) == wpc[w] = "ready" /\ Open(w) /\ pc[sess[w]] = "serving"

(* A client that is up and has heard its port is waited for there: a       *)
(* frontend listens on the port it reports that has its session among its  *)
(* backends.  It holds with OneWorkerEach and without StaticPorts,         *)
(* although the client asks for the port it was once given, which may have *)
(* been lost since, and although handlers of its earlier sessions, which   *)
(* the service has not yet found closed, still open and close listeners.   *)
ClientPortServed ==
    \A w \in Workers : Up(w) =>
        \E f \in Frontends :
            Listening(f) /\ port[f] = frontendPort[ClientOf[w]] /\ sess[w] \in backends[f]

(* No session of the worker ever started a frontend on another port than   *)
(* the one its client reports.                                             *)
AlwaysSamePort(w) ==
    \A f \in Frontends :
        WorkerOf[f] = w /\ listener[f] # "none" => port[f] = frontendPort[ClientOf[w]]

(* That port is also the one listed for its service, and doProxy finds     *)
(* this frontend by name, as long as no session of the client was ever     *)
(* served on another port: the handler of such a session deletes the       *)
(* service from frontendMap when it cleans up, whichever frontend the map  *)
(* has there by then.                                                      *)
ClientPortListed ==
    \A w \in Workers : Up(w) /\ AlwaysSamePort(w) =>
        LET r == TunnelData[ClientOf[w]] IN
        /\ frontendMap[Key(r)] # Nil
        /\ sess[w] \in backends[frontendMap[Key(r)]]
        /\ ListedPorts(UserOf(r), ServiceOf(r)) = {frontendPort[ClientOf[w]]}

(* After Close of a client its service is gone from the public side: the   *)
(* worker ends, the service finds the session closed, its handler, the     *)
(* listener and the accept goroutine end in turn, and nobody listens for   *)
(* it any more - but for the frontend of a session whose response could    *)
(* not be sent.                                                            *)
ClosedClientUnlisted ==
    <>[](\A c \in Clients, f \in Frontends :
            (tcClosed[c] /\ td[f] # Nil /\ Key(td[f]) = Key(TunnelData[c]) /\ listener[f] = "open")
                => \E x \in backends[f] : pc[x] = "sendFailed")

=============================================================================
