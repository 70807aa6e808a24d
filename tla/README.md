# goreverselb: TLA+ models, checks and proofs

goreverselb makes services of a private network reachable on public ports. A
client, next to the service, keeps multiplexed (yamux over TLS) sessions to a
tunnel service with a public address; the tunnel service opens a public port per
registered service and proxies the connections it accepts there over those
sessions. This directory holds models of its control plane, of the life of one
proxied connection and of the start of the server, the TLC configurations that
check them on small instances, and proofs that TLAPS checks for every instance.

- [Inventory](#inventory)
- [Modules and how they correspond to the code](#modules-and-how-they-correspond-to-the-code)
- [Runs](#runs), [bounds](#bounds), [fairness](#fairness)
- [Proofs](#proofs)
- [Where documentation and code disagree](#where-documentation-and-code-disagree)
- [Plan](#plan)
- [Not modelled](#not-modelled)
- [How to run](#how-to-run)

## Inventory

| Component | Source | State | Operations |
|---|---|---|---|
| port pool | `pkg/pool.go` | the `free` and `allocated` maps, a mutex of its own | `NewPoolForRange`, `GetElement`, `ReturnElement` |
| tunnel service, sessions and frontends | `pkg/muxtunnel.go` 133-523 | `frontendMap[user][service]`; per frontend its listener, port, accept goroutine and `backendConnMap[instance][address]`; `closeCh`; `mtx` | `handleMuxConnection`, `handleStream`, `parseServiceContext`, `authorize`, `startFrontend`, `sendResponse`, `GetServices`, `Close` |
| tunnel service, front connections | `pkg/muxtunnel.go` 462-717 | per connection: instance name, chosen session | the accept goroutine, `handleSSH`, `directTCPIPHandler`, `doProxy`, `connectBackend` |
| SNI, PROXY and CONNECT decoding | `pkg/muxtunnel.go` 719-868, `cmd/goreverselb/stdinProxy.go` | the bytes of the first read, the read deadline | `getSNITarget`, `tryTLSDecode`, `tryProxyDecode`, `tryHTTPProxyDecode` |
| proxy data plane | `pkg/muxtunnel.go` 601-717, 870-907, `pkg/muxtunnelClient.go` 240-332 | two directions at each end of the stream, half-close | `doProxy`, `connectBackend`, `handleStream`, `copybytes` |
| framing | `pkg/types.go` 103-143 | - | `readFrame`, `sendSerializedObject` |
| tunnel client | `pkg/muxtunnelClient.go` | `tunnelData`, `closed`, `closeCh`; per goroutine its session | `NewMuxTunnelClient`, `addBackendConnection`, `Close`, accessors of the targets |
| service group | `pkg/muxtunnelClientServiceGroup.go`, `cmd/goreverselb/servicegroup.go` | `serviceMap`, and per service its map of tunnels | `ReconcileServiceGroup`, `reconcileTunnels`, `FromJSON` |
| server start: user store and ssh host key | `cmd/goreverselb/server.go` 287-348, `pkg/helpers/configStorage.go`, `pkg/muxtunnel.go` 88-131 | `user_store.yaml`, `revlb_ssh_host_key` | `server`, `LoadConfig`, `Save`, `SaveExplicit`, `loadOrCreateSSHKey` |
| REST API | `pkg/restapi/restapi.go` | none of its own | `getServices` |
| flags, certificates, logging, pubsub, web assets | `cmd`, `pkg/certHelper`, `pkg/pubsub`, `pkg/restapi/statik` | none of their own | - |

### How they interact

1. A **client** goroutine dials the service, opens a session and a control
   stream on it, sends a `TunnelData` request and waits, with no deadline, for
   the response. The port it is told is stored and asked for by later attempts.
2. The **session handler** decodes the request, authorises it, takes `mtx`,
   looks the service up in `frontendMap`, settles the port with the **pool**,
   joins or starts a **frontend**, adds its session to the frontend's backend
   map, releases `mtx` and answers. It then polls every 10 s for the end of the
   session, or waits for `closeCh`, and takes its session out again under `mtx`;
   the last one to leave closes the listener and deletes the service.
3. The **accept goroutine** of a frontend starts a goroutine per connection. When
   `Accept` fails it returns the port to the pool, **without** holding `mtx`.
4. A **front connection** finds out which instance it is for (the frontend's own
   instance for ssh, the TLS server name, or its first bytes), takes `mtx`,
   looks the frontend up again *by name*, picks a random session registered for
   that instance, releases `mtx` and opens a stream of that session. It writes a
   frame of connect data and what it read so far, and copies both ways; the
   client's handler reads the frame, dials a target and copies too.
5. A **service group** starts and closes clients to match a wanted set of
   services.
6. The **server** command loads the user store, puts the token of the command
   line into it, writes it back, loads or makes the host key and starts the
   service. It ignores the errors of the store.

### What is hard

- *Concurrency.* Handlers, accept goroutines and front connections share the
  maps; `mtx` is locked and unlocked by hand on every path; the pool has another
  mutex and is used from outside `mtx`; a session picked under `mtx` is used
  after it is released; a frontend may be replaced between accept and lookup.
- *Partial failure.* The new listener fails after the old one was closed; the
  response cannot be sent after the session was registered.
- *Stale state.* A dead session stays registered until the next poll; backends
  are keyed by remote address, which a reconnecting client may use again.
- *Resources.* The dynamic range may be exhausted; ports of frontends whose
  accept goroutine has not ended are still out.
- *Data plane.* The two directions end in any order through three connections;
  the end of one is a half-close, an error is passed on as an end; the first read
  may be cut anywhere, and its deadline is not always cleared.
- *Crashes.* Both files are written in place, one of them by every start.
- *Liveness.* Clients wait without a deadline; TLS handshakes and ssh channels
  have none either.

`PROJECT.json` lists each hazard at its line, with the properties that cover it.

### What makes each component correct

- *pool:* no element lost, invented or handed out twice, whatever is returned.
- *service:* a public port is open only for registered sessions; the maps hold
  only what is current; a connection reaches only a session of its own user,
  service and instance; what was announced is served; ports come back; requests
  are answered; dead sessions leave; shutdown closes the public ports.
- *client:* reconnects, leaves no session behind, stops after `Close`.
- *service group:* clients match the services, are never leaked or closed twice,
  and surviving services are not interrupted.
- *decoders:* the instance named is one the user asked for, or none, wherever the
  network cuts the first read.
- *data plane:* a clean end means everything arrived; nothing is left of a
  connection once it has ended.
- *clients and service:* a client that is up is reachable on the port it
  reports, whatever the service still does for its earlier sessions; one that was
  closed is not served any more.
- *server start:* the users and the host key survive any sequence of starts.

## Modules and how they correspond to the code

| Module | What it is |
|---|---|
| `PortPool` | `PoolInts`: two sets and the two operations as actions |
| `MuxTunnelService` | the tunnel service, on top of `PortPool` |
| `FrontendRegistry` | what the service promises: a table of services, their sessions and one port each |
| `MuxTunnelServiceProofs` | what holds of the service whatever its clients ask for |
| `ServiceStaticProofs` | what holds of it with static ports, and the refinement of `FrontendRegistry` |
| `MCMuxTunnelService` | configurations and request sets for TLC |
| `MuxTunnelClient`, `MuxTunnelClientProofs` | the client's goroutines and `Close`; what a client sees of a service |
| `TunnelSystem`, `MCTunnelSystem` | clients and service composed |
| `TunnelSystemProofs` | the composition refines `MuxTunnelService`, and `MuxTunnelClient` for every client |
| `ClientPortProofs` | a client that is up is reachable on the port it reports |
| `SNITarget` | `getSNITarget`, its decoders and the frame as operators, and what a user meant |
| `ProxyConn`, `MCProxyConn`, `ProxyConnProofs` | one proxied connection from the user to the target, on top of `SNITarget` |
| `ServerStart`, `ServerStartProofs` | the server command, the user store and the host key, with crashes |
| `ServiceGroup`, `MCServiceGroup`, `ServiceGroupProofs` | reconciliation, and the services TLC tries |

Definitions that start with the comment "Mutant:" are plausible mistakes in the
definition after them; replacing the definition by one of them must break the
property `PROJECT.json` pairs it with. No specification uses them.

### MuxTunnelService

One step is what a goroutine does between two points where another one can see
or change shared state.

- `pc[s]` is where the handler of session `s` is: `Accept`, `Authorize` (one
  critical section), `AllocatePort` (lock, lookup, `GetElement`), then
  `ReuseFrontend`, `StartFrontend` or `StartFrontendFails` (the rest of the
  critical section), `SendResponse`, `Cleanup`. The error paths are
  `DecodeFails`, `AuthorizeFails`, `OutOfPorts`, `StartFrontendFails` and
  `SendResponseFails`; each ends in `Return`, which closes the session as the
  deferred calls do.
- The registering critical section is two steps because an accept goroutine can
  return a port in the middle of it. `mtx` is therefore held exactly while some
  handler is at `"allocated"` (`MtxFree`); every other critical section is one
  step.
- A session is used once, and its handler creates at most one frontend, so the
  frontend object is named after the session that created it. `port[f]`, `td[f]`
  are the fields the frontend's goroutine shares with that handler.
- `backendConnMap` is a set of sessions; `SameEntry` tells which of them share a
  slot (instance and remote address), so that `AddBackend` overwrites and
  `DelBackend` deletes as the code does, the wrong session included.
- `listener` and `acceptLoop` are separate: a listener can be closed before its
  goroutine has noticed, and a goroutine can end while its listener is open.
- A TLS handshake is made by the accept goroutine, which accepts nothing
  meanwhile (`acceptLoop = "handshake"`).

Abstractions. Strings split at ":" are sequences of parts. `getSNITarget` is
reduced here to its outcome (some instance name, none, or the deadline), and a
proxied connection to its start and end; `ProxyConn` has both in detail. One ssh
channel stands for an ssh connection. `net.Listen` fails on a port with an open
listener and on `BusyPorts` (another process, a privileged or invalid number),
and only then. `Close` is called once. `frontendMap` is keyed by the key of
`Users`; that the code builds it from `UserID` is a hazard listed without a
property. The local variables of a connection are forgotten once it is closed.
A remote address belongs to one open connection at a time.

### MuxTunnelClient

One goroutine per connection: `CheckClosed`, `Dial`, `Connect`, `SendRequest`,
`Answered`, `EndServing`, `EndAttempt`, `WakeUp` and their failures. Dialling and
the TLS handshake are two states, because the first has a timeout and the second
has none (`"handshake"`). The service is external: it announces a port, refuses, or
the session breaks. A response that was received before the session closed can
still be decoded.

### TunnelSystem

Extends `MuxTunnelService` by the workers of its clients. `Connect` of a worker is
`Accept` of the service; otherwise each end has its own view of the session:
`closed[s]` is what the service knows, `lost[s]` what the client knows. The deferred
calls of `addBackendConnection` change only the second, and `Return` of a handler
only the first; `SessionCloses` and `SessionLost` are the other end noticing, at any
later time, or a broken network. So a request on a session its client has closed is
decoded, registered, answered (the response reaches nobody) and cleaned up like any
other as long as the service has not noticed. `request[s]` and `response[s]` hold
what is on its way; what was sent before a close may be received or lost. The
service's steps are the actions of `MuxTunnelService`, conjoined with what they send
(`Serve`), so the requests it gets are those the clients really make: port 0 first,
then the port they were told.

`ImplementsClients` says that for every client `c` the composition is a behaviour
of `MuxTunnelClient` (`AsClient(c)`: its workers, the state of their sessions, the
port it knows). It is written as initial predicate and step condition because a
quantified `INSTANCE` specification is not a form TLC accepts as a property.

Assumed: good tokens (the refusal of a bad one is in `MuxTunnelService`), and a
running service (`Close` of the service is there too). `WorkerOf` bounds how often
a worker connects. `Requests` must hold what a client can come to ask for, that is
its own data with any port of `KnownPorts` (`SystemAssumption`).

`ClientPortServed` is about a worker that is up: it has its response, and neither
end knows of an end of its session. A frontend then listens on the port the client
reports and has the session among its backends. It needs `OneWorkerEach`: a service
has one worker, a worker does not connect from the same remote address again,
`Accept` does not fail on an open listener. With two workers of a service that were
told different ports the second closes the listener of the first; with a session
that has the address of an earlier one, the handler of the earlier one removes its
entry. Workers of different services may come from one address. TLC evaluates it on
the instance (`OneWorkerAssumption`).

That the frontend is also in `frontendMap`, so that `doProxy` and the REST API find
it (`ClientPortListed`), needs more: that no session of the client was ever served
on another port (`AlwaysSamePort`). Without it TLC finds what the code does: a client
that lets the service choose closes its first session before the service has read
the request; the handler serves it on a second port while the next session is served
on the first, and when it cleans up it deletes the service from the map by name. For
a client created with a port the condition always holds (`ConfiguredPortIsServed`).

### SNITarget and ProxyConn

`SNITarget` describes a first message by its form, the name in it and the lengths
the decoders look at; `n`, the number of bytes of the first read, is independent
of them (`Descriptions` is the set of them). A text is a prefix of a given length,
so that a cut name is a different name, and there is one empty text. The loops over
extensions and names are recursive functions over the positions. What a user asked
for (`Asked`, `NamesOneHost`) is said without them. `getSNITarget` yields the
instance, the offset from which the read is passed on, and whether the deadline was
cleared.

`tryTLSDecode` looks at no record or handshake type and comes first, so every stream
has a `hello` and `extensions`: how long its bytes are when they are read as a
ClientHello, and what is in it then. A stream that is no TLS and from which a name
comes out that way is the exception in `InstanceAsAsked` (`TakenForHello`).

`ProxyConn` has the goroutine of the service (`spc`), that of the client (`hpc`)
and the four copiers. A link carries chunks and, after the last one, an end
(`fin`). Closing with unread chunks resets the connection (`ServiceReturns`).
`DeadlinePasses` is the read deadline that PROXY and CONNECT leave set. A broken
link (`LinkBreaks`) is one for both of its ends.

External facts: `Close` of a yamux stream (v0.1.2, no `CloseWrite`) ends only the
writing direction and starts the timer of `StreamCloseTimeout` (5 minutes). A TLS
or ssh front connection half-closes as TCP does, except that ssh has no deadline.
yamux delivers the two writes of a frame to `readFrame` each as a whole.

### ServerStart

One step per system call that changes a file or can fail: `WriteFile` is
`Truncate` and `Write`, with `Crash` and `WriteFails` in between leaving any
parseable part of the users or nothing parseable. `store` is how the file parses
and the users in it. `appConfig` is whether `ConfigFile.AppConfig` is set: if it
is not, `Save` writes null. `known`, `harmed` and `served` are history. The token
of a user is left out.

### ServiceGroup

The group's mutex is held from `Reconcile` to `Finish`, so reconciliations do not
overlap, but each pass of their loops is a step: `NextService` and `RemoveService`
take up a wanted service and one that is gone, `ReconcilePort` or `SkipPort` is a
pass over the ports in `reconcileTunnels`, `CloseGone` one over `portsGone`, and
`ServiceDone` is its return. Where the code ranges over a map the order is any;
ports come in the order of the slice, so that of two with one key the second finds
the tunnel of the first and retargets it. `serviceMap` keeps `deleted` as the code
does: set only on a service that goes, while it goes (the field of the JSON is not
copied). `apiEndpoint` is whether `NewMuxTunnelClient` can parse it, which is the
only way it fails.

A client is named by service, port key and a generation number, and `Close` of one
that is closed leads to `"panicked"`: a channel is closed twice. Nothing follows that
state, so the run would also report it as a deadlock. `wanted` is a history variable.
`NoService` stands for a name that is not in `serviceMap`, so a service must differ
from it (`GroupAssumption`); the name is enough for that.

## Runs

| Run | Question | Properties |
|---|---|---|
| `service_competition` | sessions that take each other's ports, addresses and services, with failing `Accept` and `Listen`, and a plain, TLS or ssh connection among them: do pool and maps stay sound, do ports come back, and who is reached? | `TypeOK`, `PoolPartition`, `OpenListenerHasBackend`, `MappedFrontendHasBackend`, `NoGhostBackend`, `RoutedSession`, `LastUserReturns` |
| `service_static_ports` | clients with static ports, two of them the same one: is what is listed and announced what is served, and is the pool exact? | `FrontendConsistent`, `AnnouncedPortServed`, `NoPortLeak`, `ImplementsRegistry` |
| `service_liveness` | does everything that should happen happen? | `RequestAnswered`, `ClosedSessionRemoved`, `ShutdownClosesFrontends`, `FrontConnResolved`, `PortsReturned` |
| `client` | two goroutines, sessions that break anywhere, handshakes that never end, `Close` anywhere | `NoSessionLeftBehind`, `StopsAfterClose`, `Reconnects` |
| `service_group` | sequences of reconciliations, pass by pass | `GroupTypeOK`, `RunningIffReferenced`, `ClientsCloseOnce`, `TunnelsFollowServices`, `SurvivorsKeepClients` |
| `system` | two clients without a port of their own, one of which comes back, against the service | `ClientPortServed`, `ClientPortListed`, `ImplementsClients` |
| `client_returns` | one such client that comes back twice while its old handlers still work, and is closed | `ClientPortServed`, `ClientPortListed`, `ClosedClientUnlisted` |
| `proxy_conn` | any first bytes cut anywhere, half-closes, broken links, the forgotten deadline | `EofMeansComplete`, `InstanceAsAsked`, `ConnectionEnds` |
| `startup` | starts, crashes and edits of the store in any order | `UsersSurvive`, `HostKeyStable`, `StartsAgain` |
| `auto_port` | violation, see below | `AutoPortIsBindable` |
| `preamble` | violation, see below | `ConnectHonoured` |
| `group_update` | violation, see below | `ReconcilesWithNew` |

`service_competition` puts no condition on the clients.
`service_static_ports` and `service_liveness` assume `StaticPorts`: a service
always asks for the same port, explicit ports lie outside the dynamic range,
remote addresses are not used again, and `Accept` does not fail on an open
listener. Each of these is needed: without it TLC finds a property of
`service_static_ports` violated by what the code does: a second client of a
service that asks for another port closes the listener of the first, whose session
stays up and is told nothing; `auto_port` shows an explicit dynamic port at work.
Two services may ask for the
same explicit port: the second is refused and nothing else changes. TLC evaluates
the hypotheses on the request set (`StaticPortsAssumption`).

`ImplementsRegistry` is the refinement: under the mapping `MembersOf`,
`PublicPortOf` every step of the service, handlers, locks, listeners and pool
included, is a `Register`, an `Unregister` or a stutter of `FrontendRegistry`,
in which a service has one port, that port does not change while somebody serves
it, and no two services share one.

What the other properties do not promise, because the code does not:

- `EofMeansComplete` excepts broken links, for both directions, and for the target
  the deadline: `copybytes` half-closes its destination whether `io.Copy` ended by
  an end or by an error, so the peer sees a clean end of a cut stream.
- `ConnectionEnds` excepts the client's handler when the connect data could not be
  sent: `connectBackend` does not close the stream it opened.
- `UsersSurvive` excepts a fault of the store itself: a cut write, a failed first
  read (the store is replaced by one with the default user), a mistyped value
  (the store is replaced by null).
- `StartsAgain` excepts a store without the default user, one that does not parse,
  and a cut host key: the code refuses them at every start.
- `ClosedClientUnlisted` excepts the frontend of a session whose response could
  not be sent.
- `LastUserReturns` excepts a handler that takes a port for a frontend that is in the
  map but no longer accepts: nobody returns it.
- `StopsAfterClose` excepts a goroutine whose TLS handshake never ends.
- `ClientPortListed` excepts clients that were served on two ports, and
  `InstanceAsAsked` streams that read like a ClientHello and are none.
- `NoPortLeak` is checked with `StaticPorts`, that is without a client that comes
  back with its dynamic port. With one it is false (`auto_port`); what remains then
  is `LastUserReturns`.

### Bounds

- *Three sessions:* one that owns a frontend, one that joins or replaces it, and
  one of another service that gets in between. This is what the interleavings of
  `auto_port` need. `service_liveness` has two.
- *One dynamic port* in `service_competition`, `service_liveness` and `system`, so that
  it is contended and the range exhausted; two in `service_static_ports` and
  `client_returns`, so that one can be taken while the other is asked for.
- *Sessions of one service with one address* (`SharedAddr`) and *failing `Accept`* (`AcceptErrors`) only in
  `service_competition`, where nothing depends on their absence.
- *One front connection:* front connections read the maps and change nothing the
  handlers look at but a TLS accept loop, so they meet only there.
- *Request sets* are chosen so that every action occurs: any port, an explicit
  dynamic port, an explicit other port, a change of port, two instances, two
  users, a token of the service and one of the user, a bad token. `Listen` fails
  through other listeners of the server; `BusyPorts` is empty in every run, since a
  port held from outside takes the same branch.
- *Symmetry:* `service_competition` uses `SharedSymmetry`: `s1` and `s2` have one
  address, the same requests to choose from, and nothing else tells them apart; the
  run checks safety only.
- *`system`:* client A connects at most twice, client B once, one dynamic port. A
  can lose its port to B and find it taken, or come back before it was returned.
  B's connection has the address of A's first one (`MCAddr`).
- *`client_returns`:* A alone, three connections and two ports: the handlers of two
  sessions A has closed, on the same and on another port, against the third.
- *`proxy_conn`:* two chunks each way, room for one per link: a chunk can be
  behind, at and ahead of every copier when an end or a fault comes. Names and read
  sizes lie on both sides of every limit in the code (7 + 1 + length, 256, 1024,
  one byte), frames at 1000, 1001 and beyond 16 bits.
- *`startup`:* three faults, so that a recovery can fail again and a second write
  can be cut; three users, so that a part of them can be lost; two keys, so that a
  wrong one can be made. The administrator may edit the store any number of times.
- `MaxGeneration = 2` in `service_group`: a service can go and come back; more
  rounds repeat that. A service in three versions (one port, two ports, one port
  given twice) and one in two (two ports, none); a set with two versions of a service
  is asked for as well.

All safety properties of these runs but `NoPortLeak` are also theorems, without any
bound.

### Fairness

- Weak fairness of `Handler(s)`: a handler that can go on does. The Go scheduler
  and `sync.Mutex` are starvation-free; `mtx` is never held while waiting for a
  peer; the poll comes every 10 s; writing the response either succeeds or fails
  (yamux's write timeout is 60 s).
- A handler still waiting for a request ends only when its session is closed
  (`closed[s] /\ DecodeFails(s)`): nothing makes a silent client send one.
- An accept goroutine ends once its listener is closed.
- `getSNITarget` ends by its read deadline; ssh channels ignore deadlines, so
  `ReadDeadline` excludes them and `FrontConnResolved` says so.
- Nothing is assumed of arrivals, TLS handshakes, ssh peers, `Close` or the end
  of a session. `PortsReturned` has the exception for a handshake that never ends.
- In `MuxTunnelClient`, weak fairness of a goroutine that is not in a TLS handshake:
  dialling ends by its timeout, and a request is answered, refused or its session
  broken, which is `RequestAnswered` of the service. Nothing makes a handshake end.
  `NetworkWorks`, strong fairness of `Dial`, `Connect`, `SendRequest` and `Answered`,
  says that network and service do not fail every attempt at the same point for
  ever; it is the hypothesis of `Reconnects` and of nothing else.
- `TunnelSystem`: weak fairness of workers outside the handshake, handlers and accept
  goroutines, as in its two parts, and of noticing that the other end has closed the
  session (a FIN arrives, or yamux's keepalive fails); none of connecting for ever,
  which the bound excludes.
- `ProxyConn`: goroutines that can go on do, yamux's timer fires, and peers read
  what reaches them. `Answers`: a peer that has seen the other side end or break
  ends its own. A peer that does not keeps its connection for ever; no code ends
  it. Nothing is assumed of when a peer starts to end, of faults or the deadline.
- `ServerStart`: a supervisor starts the server when it is down, each step is
  taken, and the port of the service is not taken by somebody else for ever
  (strong fairness of `Listen`).
- `ShutdownClosesFrontends` is about finitely many sessions: `Close` leaves the
  main listener open, so clients may go on registering.

## Proofs

Every theorem holds for every value of the constants: any sets of sessions,
connections, requests, users, clients and services, any dynamic range, any number
of faults and chunks. The assumptions are the named `ASSUME`s of the modules, which
TLC evaluates on every run; two groups of theorems have a hypothesis of their own
(`StaticPorts`, `OneWorkerEach`) that the code does not enforce, and state it.

Each group follows the same way: the property is a consequence of an inductive
invariant; there is one lemma per action, or per kind of step, with one step per
part of the invariant. All these invariants were model-checked on the instances of
the runs, and larger ones, before they were proved.

### The service, whatever its clients ask for (`MuxTunnelServiceProofs`)

| Theorem | Statement |
|---|---|
| `TypeCorrect` | `Spec => []TypeOK` |
| `PoolIsPartition` | `Spec => []PoolPartition` |
| `NoOrphanListener` | `Spec => []OpenListenerHasBackend` |
| `MapIsCurrent` | `Spec => []MappedFrontendHasBackend` |
| `BackendsAreCurrent` | `Spec => []NoGhostBackend` |
| `PortsAreReturned` | `Spec => LastUserReturns` |
| `Routing` | `Spec => []RoutedSession` |

All follow from `Invariance == Spec => []IInv`. The assumptions are
`PoolAssumption` (the first dynamic port is positive, so that 0 is never a port)
and `ServiceAssumption` (nil is no session, ports are naturals, every session has
an address). The properties are not inductive by themselves. `IInv` adds:

- `Decoded`: a handler that works, or that created a frontend, has an authorised
  request. Without it `Key(td[s])` need not be a key of `frontendMap`.
- `StartedInv`: only handlers that got as far as registering have a frontend. So
  a handler that is about to start one overwrites no backends, and the request of
  an existing frontend never changes.
- `ValInv`: the frontend a handler works on is one of its own service, even after
  the map has another. `Cleanup` removes from the map by name and from the
  frontend by pointer; `OpenListenerHasBackend` survives because the two agree on
  the service.
- `ConnInv`: a connection came through a frontend that exists, and its session
  had registered. So a later step of that session cannot change what was routed.

`OpenListenerHasBackend` and `MappedFrontendHasBackend` hold in the face of
deletion by remote address because a deletion that removes somebody else's entry
still closes what it empties.

`PortsAreReturned` is an action property: the users of a port are a handler that has
just got it and the accept goroutines on it (`PortUsed`). Per action the proof shows
that a port which loses its last user leaves `allocated` in the same step
(`EndedLoopReturns`, `StartFrontendFails`), or passes from the handler to the new
accept goroutine, or belongs to a handler that joins a frontend whose goroutine has
ended. There is no hypothesis on the clients' ports.

### The service with static ports (`ServiceStaticProofs`)

| Theorem | Statement, under `StaticPorts` |
|---|---|
| `ListedIsListening` | `Spec => []FrontendConsistent` |
| `PortStaysServed` | `Spec => []AnnouncedPortServed` |
| `ServiceIsRegistry` | `Spec => ImplementsRegistry` |

The invariant is `IInv /\ SInv`. `MtxInv` is mutual exclusion in the two-step
critical section; `MapInv` and `MemberInv` tie the map, the listener, the accept
goroutine and the handlers' own pointers together; `PortInv` says where a port
came from, and `UserInv` that a port of the pool has one user. With `NoPortLeak`,
which is part of the invariant, the last two give that a port chosen by the service is
one it can listen on: a goroutine returns its port without `mtx`, and only because
nobody else can have that port does the return not free a port in use. `HandshakeInv`
is there because a goroutine in a TLS handshake still has its port. That is so
only because static ports keep a client from coming back with a dynamic one, so
`NoPortLeak` is no theorem of its own here; see `PortsAreReturned`.

The refinement maps a service to its sessions and port in the map. `StartFrontend`
and `ReuseFrontend` are `Register`, `Cleanup` is `Unregister`, everything else is a
stutter; `MapInv` gives the registry's rule that no two services share a port.

### Clients (`MuxTunnelClientProofs`)

| Theorem | Statement |
|---|---|
| `SessionsAreClosed` | `ClientSpec => []NoSessionLeftBehind` |
| `AsksForItsPort` | `ClientSpec => []ExplicitPortKept` |

`ExplicitPortKept` (a client created with a port asks for that port for ever) is
stated in this module and has no run. It rests on what the service answers, which
is an assumption here and a theorem of the next module.

### Clients and service (`TunnelSystemProofs`, `ClientPortProofs`)

| Theorem | Statement |
|---|---|
| `SystemIsService` | `SystemSpec => Spec` |
| `SystemIsClients` | `SystemSpec => ImplementsClients` |
| `ConfiguredPortIsKept` | `SystemSpec => []ConfiguredPortKept` |
| `ClientPortIsServed` | `SystemSpec => []ClientPortServed`, under `OneWorkerEach` |
| `ClientPortIsListed` | `SystemSpec => []ClientPortListed`, under `OneWorkerEach` |
| `ConfiguredPortIsServed` | `SystemSpec => []ConfiguredPortServed`, under `OneWorkerEach` |

`SysInv` is `IInv` with what connects the two sides: `SessionInv` and `WorkerInv`
(a worker's session is its own and was accepted), `PortsInv` (from the critical
section on a handler has a port, the requested one if that was explicit),
`ResponseInv` (what is on its way back is that port or an error) and `AskedInv`
(what a worker waits for answers what it asked, not what another attempt asked).
By `SystemIsService` every theorem about `Spec` is one about `SystemSpec`. The
lemmas on the service's steps go through `SessionStep`: what any of them does to
the session of its handler, and that it leaves the others alone.

`ClientPortServed` is about ports that are not static: a client that let the
service choose asks for that port from then on, and handlers of its earlier
sessions, which it has closed, register, answer and clean up at any time. `ReachInv`
adds to `SysInv`:

- `OwnInv`: a worker has only ever asked for any port or for the one it knows, so
  it learns a port at most once.
- `ReadyInv`: a worker that is ready knows the port of its session.
- `LockInv`: in the critical section the map is as it was looked up.
- `MemberInv`: a registered session is a backend of a frontend on its own port.
- `LiveInv`: the frontend of a session that its worker is still at listens, and the
  worker knows no other port. Sessions the worker has left are not covered: such a
  one may join a frontend without a listener.
- `DeafInv`: such a frontend - it stays in the map when the next one could not be
  bound - is not on the port its worker asks for, so no current session joins it.
- `MappedInv`: if all frontends of a worker are on one port, the one that has
  backends is the one in the map.
- `LoopInv`: an accept goroutine ends only after its listener.

The heart is `LeavesNobody`: a handler about to leave the frontend its service has
leaves no current session there, for its worker would know that session's port, and
the worker has had frontends on two ports, so that `MappedInv` says nothing of it.
By `OwnEntries` the backends of a frontend are sessions of one worker, so that only
addresses of the same worker have to differ.

`ConfiguredPortKept` (a client created with a port reports it and asks for it in
every request) is `ExplicitPortKept` against the service as it is; it needs no
hypothesis. `ConfiguredPortServed` puts both together: while such a client is up,
its service is listed and reachable on the port the user gave it. The two are
stated in these modules and have no run.

### One connection, the server's start, the group

| Theorem | Module | Statement |
|---|---|---|
| `CleanEndIsComplete` | `ProxyConnProofs` | `ProxySpec => []EofMeansComplete` |
| `NamesWhatWasAsked` | `ProxyConnProofs` | `ProxySpec => []InstanceAsAsked` |
| `HostKeyIsStable` | `ServerStartProofs` | `StartSpec => []HostKeyStable` |
| `UsersAreKept` | `ServerStartProofs` | `StartSpec => []UsersSurvive` |
| `GroupTypeCorrect` | `ServiceGroupProofs` | `GroupSpec => []GroupTypeOK` |
| `RunningIsReferenced` | `ServiceGroupProofs` | `GroupSpec => []RunningIffReferenced` |
| `TunnelsAreCurrent` | `ServiceGroupProofs` | `GroupSpec => []TunnelsFollowServices` |
| `SurvivorsAreKept` | `ServiceGroupProofs` | `GroupSpec => SurvivorsKeepClients` |
| `NoClientClosesTwice` | `ServiceGroupProofs` | `GroupSpec => []ClientsCloseOnce` |

- *`ProxyInv`.* `FlowInv` counts: what was sent in a direction was received, is on
  one of the three links, or was saved or withheld by the service. `UpInv` and
  `DownInv` say that an end is behind all chunks on every link, with `StageInv` for
  how far the two ends have come. Downwards the exception is a client that never
  dials, where both sides close and nothing was ever sent.
- *`InstanceAsAsked`.* `HeadInv`: what was made of the first read is what
  `getSNITarget` makes of some description, so the theorem is about that operator
  (`GetSNITargetAsAsked`), for ClientHellos with any number of extensions and names.
  The scans are recursive functions: `NameScan` and `ExtensionScan` show that they
  exist and what a step of them is. `ServerNameSound`: a scan finds nothing but a
  host name of the hello. `ServerNameExact`: if the hello has one host name and
  nothing the RFC forbids, it finds that one. These are inductions on the position;
  `SetInduction` has a set in place of a predicate, and rests on the least element
  of the complement. The assumption is that what users send is among `Descriptions`.
- *`StartInv`.* `KeyInv`: a key that was ever served is in the file, and a file
  with a key is never written again. `StoreInv`: what is in memory, and would be
  saved, is what the administrator keeps, as long as no fault hit the store.
- *`GroupInv`.* `ServicesInv`: an entry of the map is a service that was given.
  `GenerationInv`: the client of a tunnel was started for it, and the next one to
  start there is new; so starting never reuses a client that runs or was closed.
  `LoopInv` is where the two loops of `ReconcileServiceGroup` are: every service of the
  map was visited, is among the gone, or is the one that goes now. `TunnelsInv` is the
  invariant of the loops of `reconcileTunnels`: up to the next port the tunnels agree
  with the service, and a tunnel that is not claimed yet has its port still to come.
  With it the tunnel that `CloseGone` takes is one of a service that goes, and by
  `RunningIffReferenced` its client runs, so that it is not closed a second time
  (`GoneTunnel`). The three theorems on clients, tunnels and `Close` thus need each
  other. `SurvivorsKeepClients` follows, for a tunnel is only taken by `CloseGone`.

### Only model-checked

- *`NoPortLeak`*, as a property of its own (see above).
- *Liveness* (`RequestAnswered`, `ClosedSessionRemoved`, `ShutdownClosesFrontends`,
  `FrontConnResolved`, `PortsReturned`, `StopsAfterClose`, `Reconnects`,
  `ClosedClientUnlisted`, `ConnectionEnds`, `StartsAgain`): fairness and `ENABLED`
  are out of the prover's reach.

## Where documentation and code disagree

- `auto_port`. "passing 0 will let the frontend choose a port" (README.md:543).
  A frontend's accept goroutine returns its port outside `mtx`. If the same client
  has by then come back and listens on that port again (clients store the port
  they were told and ask for it), the port becomes free in the pool while it is in
  use; the next client that asks for any port is given it, `Listen` fails, and the
  client gets no response.
- `preamble`. "SNI/Hostname style redirection on the same tunnel port (to be able to
  share the same service port with multiple service instances)" (README.md:20), by the
  "HTTP connect protocol" (README.md:23), for example `connect -H localhost:8001
  instancename 888` (README.md:33). A CONNECT request, even if it comes whole in the
  first read, names the instance `"instancename:888 "`, with port and blank, which
  nobody can have registered.
- `group_update`. "ReconcileServiceGroup reconciles the map of services with a
  new map of services" (muxtunnelClientServiceGroup.go:125). The ports and
  addresses of a service that is already known are never updated.

Met while modelling, and kept to by the models:

- A handler that cannot send its response leaves its closed session in the backend
  map for ever (`"sendFailed"`, the exception in `NoGhostBackend` and
  `ShutdownClosesFrontends`).
- A handler removes the entry of its remote address even if a newer session has it.
- The handler that empties a frontend deletes its service from `frontendMap` by name
  (muxtunnel.go:379-383), also when a newer frontend is there: that one listens and is
  not found. A late request of a session the client has closed is enough to unlist a
  client that is up; `ClientPortListed` has the condition under which it cannot.
- A frontend whose accept goroutine has ended can stay in the map (muxtunnel.go:330,
  465). A handler that asks for its port takes it from the pool and joins it
  (muxtunnel.go:313, 346), and the port is never returned: the exception in
  `LastUserReturns`.
- The newline that README.md:24 puts after the name of a PROXY preamble is not consumed
  (muxtunnel.go:846) and reaches the backend as the first byte of the connection. It
  is in `from` of `getSNITarget`; no property is about it.
- A peer is told of a broken connection by a clean end.
- The store is replaced on any read error and emptied by a mistyped value.
- A stream whose connect data failed to be sent is left open.
- The client never closes its connection to the target, both halves of which are
  closed by `copybytes`.
- `deleted` in the JSON of a service group is ignored.

## Plan

Done: all components of the inventory that have state of their own are modelled;
the safety properties that the runs check are proved.

Next:

1. `ClientPortServed` for a worker that comes from an address it had before, with
   the exception that its old handler may remove its entry once.
2. The theorems of the service restated for the composition where its clients make
   a hypothesis superfluous.

## Not modelled

- Flags, environment and wiring of the commands; the certificate; logging, pubsub
  and the web assets: no state of the program's own, or third-party I/O.
- The REST API's routing and authentication (the web framework's). `getServices`
  by name is `ListedPorts`; that an unknown name returns the whole list where a 404
  was meant (restapi.go:102 is never true) is not modelled.
- Which target address and port a client dials. `UpdateTargetAddresses` and
  `UpdateTargetPort` race with `Encode` and with `doProxy`; both are listed as
  hazards without a property, the first being below the model's atomicity.
- A `UserID` that differs from its key in `Users`, and tokens of the default user
  that contain a colon, which `parseServiceContext` takes for another user.
- Two workers of one client that come to different ports: the run of the
  composition gives each service one worker. The client alone is checked with two,
  and `SystemIsService` and `SystemIsClients` hold for any number.
- A silent ssh peer in `getSNITarget`, and a silent service in the client's TLS
  handshake: nothing in the code ends them.

## How to run

    tlc -config service_competition.cfg MCMuxTunnelService
    tlc -config client.cfg MuxTunnelClient
    tlc -config system.cfg MCTunnelSystem
    tlc -config client_returns.cfg MCTunnelSystem
    tlc -config proxy_conn.cfg MCProxyConn
    tlc -config startup.cfg ServerStart
    tlc -config service_group.cfg MCServiceGroup
    tlapm MuxTunnelServiceProofs.tla
    tlapm ClientPortProofs.tla

and likewise for the other configurations: `service_*` with `MCMuxTunnelService`,
`auto_port` with `MCTunnelSystem`, `preamble` with `MCProxyConn`, `group_update`
with `MCServiceGroup`; `tlapm` for every module whose name ends in `Proofs`.
