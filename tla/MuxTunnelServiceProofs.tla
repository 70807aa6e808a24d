----------------------- MODULE MuxTunnelServiceProofs -----------------------
(***************************************************************************)
(* Proofs about MuxTunnelService, for any set of sessions, connections,    *)
(* requests and ports: whatever its clients ask for, the service keeps     *)
(* TypeOK, PoolPartition, OpenListenerHasBackend,                          *)
(* MappedFrontendHasBackend, NoGhostBackend and RoutedSession, and a port  *)
(* is returned by its last user (LastUserReturns).                         *)
(***************************************************************************)
EXTENDS MuxTunnelService, TLAPS

(* A frontend object exists: its listener was opened once. *)
Started(f) == listener[f] # "none"

(* The handler has returned from authorize and works on its request. *)
Working == {"authorized", "allocated", "registered", "serving", "sendFailed"}

(* A handler that works, and one that created a frontend, has a request    *)
(* that was authorised.                                                    *)
Decoded ==
    \A s \in Sessions : pc[s] \in Working \/ Started(s) =>
        td[s] \in Requests /\ Authorized(td[s])

(* A frontend was created by a handler that went on to register, and what  *)
(* has a goroutine or backends is a frontend.                              *)
StartedInv ==
    \A f \in Frontends :
        /\ Started(f) => pc[f] \in {"registered", "serving", "sendFailed", "done"}
        /\ acceptLoop[f] # "none" => Started(f)
        /\ backends[f] # {} => Started(f)

(* The frontend a handler works on is one of its own service. *)
ValInv ==
    \A s \in Sessions :
        /\ pc[s] \in {"registered", "serving", "sendFailed"} => val[s] # Nil
        /\ pc[s] \in {"allocated", "registered", "serving", "sendFailed"} /\ val[s] # Nil =>
            Started(val[s]) /\ Key(td[val[s]]) = Key(td[s])

(* A front connection came in through a frontend, and the session it       *)
(* picked got as far as to register.                                       *)
ConnInv ==
    \A c \in FrontConns :
        /\ cpc[c] \notin {"idle", "closed"} => cfront[c] # Nil /\ Started(cfront[c])
        /\ cpc[c] \in {"picked", "proxying"} =>
            csess[c] # Nil /\ pc[csess[c]] \in {"registered", "serving", "sendFailed", "done"}

(* The inductive invariant. *)
IInv ==
    /\ TypeOK
    /\ PoolPartition
    /\ Decoded
    /\ StartedInv
    /\ ValInv
    /\ OpenListenerHasBackend
    /\ MappedFrontendHasBackend
    /\ NoGhostBackend
    /\ ConnInv
    /\ RoutedSession

-----------------------------------------------------------------------------
(* The port pool.                                                          *)

(* An authorised request has its place in frontendMap. *)
LEMMA KeyInKeys ==
    ASSUME NEW r \in Requests, Authorized(r)
    PROVE  Key(r) \in Keys
  BY DEF Keys

(* NewPoolForRange is a set of ports, none of which is 0. *)
LEMMA PoolOfPorts == NewPoolForRange \subseteq Nat \ {0}
  BY PoolAssumption DEF NewPoolForRange

(* GetElement moves an element of the range from free to allocated. *)
LEMMA GetElementKeeps ==
    ASSUME PoolPartition, NEW v, NEW r, GetElement(v, r)
    PROVE  PoolPartition'
  BY DEF PoolPartition, GetElement, poolVars, NewPoolForRange

(* ReturnElement moves one back, whatever it is called with. *)
LEMMA ReturnElementKeeps ==
    ASSUME PoolPartition, NEW v, ReturnElement(v)
    PROVE  PoolPartition'
  BY DEF PoolPartition, ReturnElement, NewPoolForRange

-----------------------------------------------------------------------------

(* The session handlers. *)

(* A new session is in no map. *)
LEMMA AcceptKeeps ==
    ASSUME IInv, NEW s \in Sessions, Accept(s)
    PROVE  IInv'
  <1>1. TypeOK' /\ PoolPartition'
    BY DEF IInv, Accept, TypeOK, HandlerStates, PoolPartition,
           NewPoolForRange, poolVars, frontVars, connVars, Frontends
  <1>2. Decoded' /\ StartedInv' /\ ValInv'
    BY DEF IInv, Accept, Decoded, TypeOK, Started, StartedInv, ValInv,
           frontVars, Frontends, Working
  <1>3. OpenListenerHasBackend' /\ MappedFrontendHasBackend' /\ NoGhostBackend'
    BY DEF IInv, Accept, OpenListenerHasBackend, TypeOK,
           MappedFrontendHasBackend, StartedInv, Started, NoGhostBackend,
           frontVars, Frontends
  <1>4. ConnInv' /\ RoutedSession'
    BY DEF IInv, Accept, ConnInv, StartedInv, TypeOK, Started,
           RoutedSession, frontVars, connVars, Frontends
  <1>. QED BY <1>1, <1>2, <1>3, <1>4 DEF IInv

(* A handler that got no request created nothing. *)
LEMMA DecodeFailsKeeps ==
    ASSUME IInv, NEW s \in Sessions, DecodeFails(s)
    PROVE  IInv'
  <1>1. TypeOK' /\ PoolPartition'
    BY DEF IInv, DecodeFails, Return, TypeOK, HandlerStates, PoolPartition,
           NewPoolForRange, poolVars, frontVars, connVars, Frontends
  <1>2. Decoded' /\ StartedInv' /\ ValInv'
    BY DEF IInv, DecodeFails, Return, Decoded, TypeOK, Started, StartedInv,
           ValInv, frontVars, Frontends, Working
  <1>3. OpenListenerHasBackend' /\ MappedFrontendHasBackend' /\ NoGhostBackend'
    BY DEF IInv, DecodeFails, Return, OpenListenerHasBackend, TypeOK,
           MappedFrontendHasBackend, StartedInv, Started, NoGhostBackend,
           frontVars, Frontends
  <1>4. ConnInv' /\ RoutedSession'
    BY DEF IInv, DecodeFails, Return, ConnInv, StartedInv, TypeOK, Started,
           RoutedSession, frontVars, connVars, Frontends
  <1>. QED BY <1>1, <1>2, <1>3, <1>4 DEF IInv

(* The request of a handler is set once, before anything refers to it. *)
LEMMA AuthorizeKeeps ==
    ASSUME IInv, NEW s \in Sessions, NEW r \in Requests, Authorize(s, r)
    PROVE  IInv'
  <1>1. TypeOK' /\ PoolPartition'
    BY DEF IInv, Authorize, TypeOK, HandlerStates, PoolPartition,
           NewPoolForRange, poolVars, frontVars, connVars, Frontends
  <1>2. Decoded' /\ StartedInv' /\ ValInv'
    BY DEF IInv, Authorize, Decoded, TypeOK, Started, StartedInv, ValInv,
           frontVars, Frontends, Working
  <1>3. OpenListenerHasBackend' /\ MappedFrontendHasBackend' /\ NoGhostBackend'
    BY DEF IInv, Authorize, OpenListenerHasBackend, TypeOK,
           MappedFrontendHasBackend, StartedInv, Started, NoGhostBackend,
           frontVars, Frontends
  <1>4. ConnInv' /\ RoutedSession'
    BY DEF IInv, Authorize, ConnInv, StartedInv, TypeOK, Started,
           RoutedSession, frontVars, connVars, Frontends
  <1>. QED BY <1>1, <1>2, <1>3, <1>4 DEF IInv

(* A refused session leaves nothing behind. *)
LEMMA AuthorizeFailsKeeps ==
    ASSUME IInv, NEW s \in Sessions, NEW r \in Requests, AuthorizeFails(s, r)
    PROVE  IInv'
  <1>1. TypeOK' /\ PoolPartition'
    BY DEF IInv, AuthorizeFails, Return, TypeOK, HandlerStates,
           PoolPartition, NewPoolForRange, poolVars, frontVars, connVars,
           Frontends
  <1>2. Decoded' /\ StartedInv' /\ ValInv'
    BY DEF IInv, AuthorizeFails, Return, Decoded, TypeOK, Started,
           StartedInv, ValInv, frontVars, Frontends, Working
  <1>3. OpenListenerHasBackend' /\ MappedFrontendHasBackend' /\ NoGhostBackend'
    BY DEF IInv, AuthorizeFails, Return, OpenListenerHasBackend, TypeOK,
           MappedFrontendHasBackend, StartedInv, Started, NoGhostBackend,
           frontVars, Frontends
  <1>4. ConnInv' /\ RoutedSession'
    BY DEF IInv, AuthorizeFails, Return, ConnInv, StartedInv, TypeOK,
           Started, RoutedSession, frontVars, connVars, Frontends
  <1>. QED BY <1>1, <1>2, <1>3, <1>4 DEF IInv

(* The frontend found in the map is one of the handler's own service. *)
LEMMA AllocatePortKeeps ==
    ASSUME IInv, NEW s \in Sessions, AllocatePort(s)
    PROVE  IInv'
  <1>1. PICK r \in free \cup {NoElement} :
            /\ GetElement(WantedPort(s), r)
            /\ port' = [port EXCEPT ![s] = IF WantedPort(s) = AnyElement THEN r ELSE WantedPort(s)]
    BY DEF AllocatePort
  <1>2. /\ pc[s] = "authorized"
        /\ auto' = [auto EXCEPT ![s] = WantedPort(s) = AnyElement]
        /\ val' = [val EXCEPT ![s] = frontendMap[Key(td[s])]]
        /\ pc' = [pc EXCEPT ![s] = "allocated"]
        /\ UNCHANGED <<td, closed, frontVars, shutdown, connVars>>
    BY DEF AllocatePort
  <1>3. td[s] \in Requests /\ Key(td[s]) \in Keys
    BY <1>2, KeyInKeys DEF IInv, Decoded, Working
  <1>4. frontendMap[Key(td[s])] \in Frontends \cup {Nil} /\ WantedPort(s) \in Nat
    BY <1>3, ServiceAssumption DEF IInv, TypeOK, WantedPort, Frontends
  <1>5. TypeOK'
    <2>1. free' \subseteq NewPoolForRange /\ allocated' \subseteq NewPoolForRange
      BY <1>1 DEF IInv, TypeOK, GetElement, poolVars
    <2>2. port' \in [Sessions -> Nat]
      BY <1>1, <1>4, PoolOfPorts DEF IInv, TypeOK, NoElement
    <2>3. /\ pc' \in [Sessions -> HandlerStates] /\ auto' \in [Sessions -> BOOLEAN]
          /\ val' \in [Sessions -> Frontends \cup {Nil}]
      BY <1>2, <1>4 DEF IInv, TypeOK, HandlerStates
    <2>. QED BY <1>2, <2>1, <2>2, <2>3 DEF IInv, TypeOK, frontVars, connVars
  <1>6. PoolPartition'
    BY <1>1, GetElementKeeps DEF IInv
  <1>7. Decoded' /\ StartedInv'
    BY DEF IInv, AllocatePort, GetElement, WantedPort, AnyElement,
           NoElement, Decoded, TypeOK, Started, StartedInv, frontVars,
           Frontends, Working
  <1>8. ValInv'
    <2>1. \A x \in Sessions : /\ x # s => pc'[x] = pc[x] /\ val'[x] = val[x]
                              /\ Started(x)' <=> Started(x)
      BY <1>2 DEF IInv, TypeOK, Started, frontVars
    <2>2. pc'[s] = "allocated" /\ val'[s] = frontendMap[Key(td[s])]
      BY <1>2 DEF IInv, TypeOK
    <2>3. val'[s] # Nil => Started(val'[s]) /\ Key(td[val'[s]]) = Key(td[s])
      BY <1>3, <1>4, <2>2 DEF IInv, MappedFrontendHasBackend, StartedInv
    <2>4. ASSUME NEW x \in Sessions, val'[x] # Nil, x # s,
                 pc'[x] \in {"allocated", "registered", "serving", "sendFailed"}
          PROVE  Started(val'[x]) /\ Key(td[val'[x]]) = Key(td[x])
      BY <2>1, <2>4 DEF IInv, ValInv
    <2>5. ASSUME NEW x \in Sessions, pc'[x] \in {"registered", "serving", "sendFailed"}
          PROVE  val'[x] # Nil
      BY <2>1, <2>2, <2>5 DEF IInv, ValInv
    <2>6. ASSUME NEW x \in Sessions, val'[x] # Nil,
                 pc'[x] \in {"allocated", "registered", "serving", "sendFailed"}
          PROVE  Started(val[x])' /\ Key(td[val[x]])' = Key(td[x])'
      <3>1. Started(val'[x]) /\ Key(td[val'[x]]) = Key(td[x])
        BY <2>2, <2>3, <2>4, <2>6
      <3>. QED BY <1>2, <3>1 DEF Started, Key, UserOf, ServiceOf, frontVars
    <2>. QED BY <2>5, <2>6 DEF ValInv
  <1>9. OpenListenerHasBackend' /\ MappedFrontendHasBackend' /\ NoGhostBackend'
    BY DEF IInv, AllocatePort, GetElement, WantedPort, AnyElement,
           NoElement, OpenListenerHasBackend, TypeOK,
           MappedFrontendHasBackend, StartedInv, Started, NoGhostBackend,
           frontVars, Frontends
  <1>10. ConnInv' /\ RoutedSession'
    BY DEF IInv, AllocatePort, GetElement, WantedPort, AnyElement,
           NoElement, ConnInv, StartedInv, TypeOK, Started, RoutedSession,
           frontVars, connVars, Frontends
  <1>. QED BY <1>5, <1>6, <1>7, <1>8, <1>9, <1>10 DEF IInv

(* A handler that finds the pool empty leaves nothing behind. *)
LEMMA OutOfPortsKeeps ==
    ASSUME IInv, NEW s \in Sessions, OutOfPorts(s)
    PROVE  IInv'
  <1>1. TypeOK' /\ PoolPartition'
    BY DEF IInv, OutOfPorts, Return, GetElement, TypeOK, HandlerStates,
           PoolPartition, NewPoolForRange, poolVars, frontVars, connVars,
           Frontends
  <1>2. Decoded' /\ StartedInv' /\ ValInv'
    BY DEF IInv, OutOfPorts, Return, GetElement, Decoded, TypeOK, Started,
           StartedInv, ValInv, frontVars, Frontends, Working
  <1>3. OpenListenerHasBackend' /\ MappedFrontendHasBackend' /\ NoGhostBackend'
    BY DEF IInv, OutOfPorts, Return, GetElement, OpenListenerHasBackend,
           TypeOK, MappedFrontendHasBackend, StartedInv, Started,
           NoGhostBackend, frontVars, Frontends
  <1>4. ConnInv' /\ RoutedSession'
    BY DEF IInv, OutOfPorts, Return, GetElement, ConnInv, StartedInv,
           TypeOK, Started, RoutedSession, frontVars, connVars, Frontends
  <1>. QED BY <1>1, <1>2, <1>3, <1>4 DEF IInv

(* The session joins a frontend of its own service. *)
LEMMA ReuseFrontendKeeps ==
    ASSUME IInv, NEW s \in Sessions, ReuseFrontend(s)
    PROVE  IInv'
  <1>1. TypeOK' /\ PoolPartition'
    BY DEF IInv, ReuseFrontend, AddBackend, TypeOK, HandlerStates,
           PoolPartition, NewPoolForRange, poolVars, connVars, Frontends
  <1>2. Decoded' /\ StartedInv' /\ ValInv'
    BY DEF IInv, ReuseFrontend, AddBackend, Decoded, TypeOK, Started,
           StartedInv, ValInv, Frontends, Working
  <1>3. OpenListenerHasBackend' /\ MappedFrontendHasBackend'
    BY DEF IInv, ReuseFrontend, AddBackend, OpenListenerHasBackend, TypeOK,
           MappedFrontendHasBackend, StartedInv, Started, Frontends
  <1>4. NoGhostBackend'
    BY DEF IInv, ReuseFrontend, AddBackend, NoGhostBackend, StartedInv,
           TypeOK, Started, ValInv, Decoded, Frontends, Working
  <1>5. ConnInv' /\ RoutedSession'
    BY DEF IInv, ReuseFrontend, AddBackend, ConnInv, StartedInv, TypeOK,
           Started, RoutedSession, connVars, Frontends
  <1>. QED BY <1>1, <1>2, <1>3, <1>4, <1>5 DEF IInv

(* The new frontend starts with its session in it.  The old one keeps its
   backends, and is no longer in the map. *)
LEMMA StartFrontendKeeps ==
    ASSUME IInv, NEW s \in Sessions, StartFrontend(s)
    PROVE  IInv'
  <1>1. TypeOK'
    BY DEF IInv, StartFrontend, CloseListener, NeedsFrontend, TypeOK,
           HandlerStates, poolVars, connVars, Frontends
  <1>2. PoolPartition'
    BY DEF IInv, StartFrontend, CloseListener, NeedsFrontend, PoolPartition,
           NewPoolForRange, poolVars
  <1>3. Decoded'
    BY DEF IInv, StartFrontend, CloseListener, NeedsFrontend, Decoded,
           TypeOK, Started, Frontends, Working
  <1>4. StartedInv'
    BY DEF IInv, StartFrontend, CloseListener, NeedsFrontend, StartedInv,
           TypeOK, Started, ValInv, Frontends
  <1>5. ValInv'
    BY ServiceAssumption
    DEF IInv, StartFrontend, CloseListener, NeedsFrontend, ValInv, Decoded,
        StartedInv, TypeOK, Started, Frontends, Working
  <1>6. OpenListenerHasBackend'
    BY DEF IInv, StartFrontend, CloseListener, NeedsFrontend,
           OpenListenerHasBackend, TypeOK, Frontends
  <1>7. MappedFrontendHasBackend'
    BY KeyInKeys, ServiceAssumption
    DEF IInv, StartFrontend, CloseListener, NeedsFrontend,
        MappedFrontendHasBackend, StartedInv, TypeOK, Started, Decoded,
        Frontends, Working
  <1>8. NoGhostBackend'
    BY DEF IInv, StartFrontend, CloseListener, NeedsFrontend,
           NoGhostBackend, StartedInv, TypeOK, Started, ValInv, Decoded,
           Frontends, Working
  <1>9. ConnInv' /\ RoutedSession'
    BY DEF IInv, StartFrontend, CloseListener, NeedsFrontend, ConnInv,
           StartedInv, TypeOK, Started, RoutedSession, connVars, Frontends
  <1>. QED BY <1>1, <1>2, <1>3, <1>4, <1>5, <1>6, <1>7, <1>8, <1>9 DEF IInv

(* Closing the old listener and returning a port that may be another's
   keep the invariant: it does not say that what is mapped listens. *)
LEMMA StartFrontendFailsKeeps ==
    ASSUME IInv, NEW s \in Sessions, StartFrontendFails(s)
    PROVE  IInv'
  <1>1. TypeOK'
    BY DEF IInv, StartFrontendFails, CloseListener, Return, ReturnElement,
           TypeOK, HandlerStates, connVars, Frontends
  <1>2. PoolPartition'
    BY ReturnElementKeeps
    DEF IInv, StartFrontendFails
  <1>3. Decoded' /\ StartedInv'
    BY DEF IInv, StartFrontendFails, CloseListener, Return, ReturnElement,
           Decoded, TypeOK, Started, StartedInv, Frontends, Working
  <1>4. ValInv'
    BY DEF IInv, StartFrontendFails, CloseListener, Return, ReturnElement,
           ValInv, Decoded, StartedInv, TypeOK, Started, Frontends, Working
  <1>5. OpenListenerHasBackend'
    BY DEF IInv, StartFrontendFails, CloseListener, Return, ReturnElement,
           OpenListenerHasBackend, TypeOK, Frontends
  <1>6. MappedFrontendHasBackend' /\ NoGhostBackend'
    BY DEF IInv, StartFrontendFails, CloseListener, Return, ReturnElement,
           MappedFrontendHasBackend, StartedInv, TypeOK, Started,
           NoGhostBackend, Frontends
  <1>7. ConnInv' /\ RoutedSession'
    BY DEF IInv, StartFrontendFails, CloseListener, Return, ReturnElement,
           ConnInv, StartedInv, TypeOK, Started, RoutedSession, connVars,
           Frontends
  <1>. QED BY <1>1, <1>2, <1>3, <1>4, <1>5, <1>6, <1>7 DEF IInv

(* The handler goes on to serve. *)
LEMMA SendResponseKeeps ==
    ASSUME IInv, NEW s \in Sessions, SendResponse(s)
    PROVE  IInv'
  <1>1. TypeOK' /\ PoolPartition'
    BY DEF IInv, SendResponse, TypeOK, HandlerStates, PoolPartition,
           NewPoolForRange, poolVars, frontVars, connVars, Frontends
  <1>2. Decoded' /\ StartedInv' /\ ValInv'
    BY DEF IInv, SendResponse, Decoded, TypeOK, Started, StartedInv, ValInv,
           frontVars, Frontends, Working
  <1>3. OpenListenerHasBackend' /\ MappedFrontendHasBackend' /\ NoGhostBackend'
    BY DEF IInv, SendResponse, OpenListenerHasBackend, TypeOK,
           MappedFrontendHasBackend, StartedInv, Started, NoGhostBackend,
           frontVars, Frontends
  <1>4. ConnInv' /\ RoutedSession'
    BY DEF IInv, SendResponse, ConnInv, StartedInv, TypeOK, Started,
           RoutedSession, frontVars, connVars, Frontends
  <1>. QED BY <1>1, <1>2, <1>3, <1>4 DEF IInv

(* The handler leaves its session in the map; the session still counts. *)
LEMMA SendResponseFailsKeeps ==
    ASSUME IInv, NEW s \in Sessions, SendResponseFails(s)
    PROVE  IInv'
  <1>1. TypeOK' /\ PoolPartition'
    BY DEF IInv, SendResponseFails, Return, TypeOK, HandlerStates,
           PoolPartition, NewPoolForRange, poolVars, frontVars, connVars,
           Frontends
  <1>2. Decoded' /\ StartedInv' /\ ValInv'
    BY DEF IInv, SendResponseFails, Return, Decoded, TypeOK, Started,
           StartedInv, ValInv, frontVars, Frontends, Working
  <1>3. OpenListenerHasBackend' /\ MappedFrontendHasBackend' /\ NoGhostBackend'
    BY DEF IInv, SendResponseFails, Return, OpenListenerHasBackend, TypeOK,
           MappedFrontendHasBackend, StartedInv, Started, NoGhostBackend,
           frontVars, Frontends
  <1>4. ConnInv' /\ RoutedSession'
    BY DEF IInv, SendResponseFails, Return, ConnInv, StartedInv, TypeOK,
           Started, RoutedSession, frontVars, connVars, Frontends
  <1>. QED BY <1>1, <1>2, <1>3, <1>4 DEF IInv

(* The session leaves the only map it can be in; a frontend it leaves
   empty is closed and not in the map. *)
LEMMA CleanupKeeps ==
    ASSUME IInv, NEW s \in Sessions, Cleanup(s)
    PROVE  IInv'
  <1>1. TypeOK'
    BY DEF IInv, Cleanup, Return, ListenersAfter, FrontendMapAfter,
           LeavesLast, DelBackend, SameEntry, CloseListener, TypeOK,
           HandlerStates, poolVars, connVars, Frontends
  <1>2. PoolPartition'
    BY DEF IInv, Cleanup, Return, ListenersAfter, FrontendMapAfter,
           LeavesLast, DelBackend, SameEntry, CloseListener, PoolPartition,
           NewPoolForRange, poolVars
  <1>3. Decoded'
    BY DEF IInv, Cleanup, Return, ListenersAfter, FrontendMapAfter,
           LeavesLast, DelBackend, SameEntry, CloseListener, Decoded,
           TypeOK, Started, Frontends, Working
  <1>4. StartedInv'
    BY DEF IInv, Cleanup, Return, ListenersAfter, FrontendMapAfter,
           LeavesLast, DelBackend, SameEntry, CloseListener, StartedInv,
           TypeOK, Started, ValInv, Frontends
  <1>5. ValInv'
    BY DEF IInv, Cleanup, Return, ListenersAfter, FrontendMapAfter,
           LeavesLast, DelBackend, SameEntry, CloseListener, ValInv,
           Decoded, StartedInv, TypeOK, Started, Frontends, Working
  <1>6. OpenListenerHasBackend'
    BY DEF IInv, Cleanup, Return, ListenersAfter, FrontendMapAfter,
           LeavesLast, DelBackend, SameEntry, CloseListener,
           OpenListenerHasBackend, TypeOK, ValInv, StartedInv, Frontends
  <1>7. MappedFrontendHasBackend'
    BY KeyInKeys, ServiceAssumption
    DEF IInv, Cleanup, Return, ListenersAfter, FrontendMapAfter, LeavesLast,
        DelBackend, SameEntry, CloseListener, MappedFrontendHasBackend,
        StartedInv, TypeOK, Started, ValInv, Decoded, Frontends, Working
  <1>8. NoGhostBackend'
    BY DEF IInv, Cleanup, Return, ListenersAfter, FrontendMapAfter,
           LeavesLast, DelBackend, SameEntry, CloseListener, NoGhostBackend,
           StartedInv, TypeOK, Started, ValInv, Frontends
  <1>9. ConnInv' /\ RoutedSession'
    BY DEF IInv, Cleanup, Return, ListenersAfter, FrontendMapAfter,
           LeavesLast, DelBackend, SameEntry, CloseListener, ConnInv,
           StartedInv, TypeOK, Started, RoutedSession, connVars, Frontends
  <1>. QED BY <1>1, <1>2, <1>3, <1>4, <1>5, <1>6, <1>7, <1>8, <1>9 DEF IInv

(* No map changes when a session breaks. *)
LEMMA SessionClosesKeeps ==
    ASSUME IInv, NEW s \in Sessions, SessionCloses(s)
    PROVE  IInv'
  <1>1. TypeOK' /\ PoolPartition'
    BY DEF IInv, SessionCloses, TypeOK, HandlerStates, PoolPartition,
           NewPoolForRange, poolVars, frontVars, connVars, Frontends
  <1>2. Decoded' /\ StartedInv' /\ ValInv'
    BY DEF IInv, SessionCloses, Decoded, TypeOK, Started, StartedInv,
           ValInv, frontVars, Frontends, Working
  <1>3. OpenListenerHasBackend' /\ MappedFrontendHasBackend' /\ NoGhostBackend'
    BY DEF IInv, SessionCloses, OpenListenerHasBackend, TypeOK,
           MappedFrontendHasBackend, StartedInv, Started, NoGhostBackend,
           frontVars, Frontends
  <1>4. ConnInv' /\ RoutedSession'
    BY DEF IInv, SessionCloses, ConnInv, StartedInv, TypeOK, Started,
           RoutedSession, frontVars, connVars, Frontends
  <1>. QED BY <1>1, <1>2, <1>3, <1>4 DEF IInv

(* Close only raises a flag. *)
LEMMA CloseKeeps ==
    ASSUME IInv, Close
    PROVE  IInv'
  <1>1. TypeOK' /\ PoolPartition'
    BY DEF IInv, Close, TypeOK, HandlerStates, PoolPartition,
           NewPoolForRange, poolVars, frontVars, sessVars, connVars,
           Frontends
  <1>2. Decoded' /\ StartedInv' /\ ValInv'
    BY DEF IInv, Close, Decoded, TypeOK, Started, StartedInv, ValInv,
           frontVars, sessVars, Frontends, Working
  <1>3. OpenListenerHasBackend' /\ MappedFrontendHasBackend' /\ NoGhostBackend'
    BY DEF IInv, Close, OpenListenerHasBackend, TypeOK,
           MappedFrontendHasBackend, StartedInv, Started, NoGhostBackend,
           frontVars, sessVars, Frontends
  <1>4. ConnInv' /\ RoutedSession'
    BY DEF IInv, Close, ConnInv, StartedInv, TypeOK, Started, RoutedSession,
           frontVars, sessVars, connVars, Frontends
  <1>. QED BY <1>1, <1>2, <1>3, <1>4 DEF IInv

-----------------------------------------------------------------------------
(* The accept goroutines and the front connections.  Their steps leave the *)
(* sessions, the map and the backends alone.                               *)

Frame == UNCHANGED <<sessVars, frontendMap, listener, backends>>

(* Such a step preserves what is said of sessions and frontends alone. *)
LEMMA FrameKeeps ==
    ASSUME IInv, Frame
    PROVE  /\ Decoded' /\ ValInv'
           /\ OpenListenerHasBackend' /\ MappedFrontendHasBackend' /\ NoGhostBackend'
  <1>1. Decoded' /\ ValInv'
    BY DEF IInv, Frame, sessVars, Decoded, ValInv, Started
  <1>2. OpenListenerHasBackend' /\ MappedFrontendHasBackend' /\ NoGhostBackend'
    BY DEF IInv, Frame, sessVars, OpenListenerHasBackend, MappedFrontendHasBackend,
           NoGhostBackend
  <1>. QED BY <1>1, <1>2

(* The front connection is one of a frontend that exists. *)
LEMMA AcceptFrontendKeeps ==
    ASSUME IInv, NEW f \in Frontends, NEW c \in FrontConns, AcceptFrontend(f, c)
    PROVE  IInv'
  <1>1. Frame
    BY DEF Frame, AcceptFrontend, sessVars
  <1>2. TypeOK'
    BY ServiceAssumption
    DEF IInv, AcceptFrontend, TypeOK, HandlerStates, Decoded, StartedInv,
        Started, poolVars, sessVars, Frontends, Working
  <1>3. PoolPartition' /\ StartedInv'
    BY <1>1
    DEF IInv, AcceptFrontend, PoolPartition, NewPoolForRange, StartedInv,
        TypeOK, Started, Frame, poolVars, sessVars, Frontends
  <1>4. ConnInv' /\ RoutedSession'
    BY <1>1, ServiceAssumption
    DEF IInv, AcceptFrontend, ConnInv, StartedInv, TypeOK, Started,
        RoutedSession, Frame, sessVars, Frontends
  <1>. QED BY <1>1, <1>2, <1>3, <1>4, FrameKeeps DEF IInv

(* The port goes back to the pool, the rest stays. *)
LEMMA AcceptLoopEndsKeeps ==
    ASSUME IInv, NEW f \in Frontends, AcceptLoopEnds(f)
    PROVE  IInv'
  <1>1. Frame
    BY DEF Frame, AcceptLoopEnds, sessVars
  <1>2. TypeOK'
    BY DEF IInv, AcceptLoopEnds, ReturnElement, TypeOK, HandlerStates,
           sessVars, connVars, Frontends
  <1>3. PoolPartition'
    BY ReturnElementKeeps
    DEF IInv, AcceptLoopEnds
  <1>4. StartedInv'
    BY <1>1
    DEF IInv, AcceptLoopEnds, ReturnElement, StartedInv, TypeOK, Started,
        Frame, sessVars, Frontends
  <1>5. ConnInv' /\ RoutedSession'
    BY <1>1
    DEF IInv, AcceptLoopEnds, ReturnElement, ConnInv, StartedInv, TypeOK,
        Started, RoutedSession, Frame, sessVars, connVars, Frontends
  <1>. QED BY <1>1, <1>2, <1>3, <1>4, <1>5, FrameKeeps DEF IInv

(* The handshake of a front connection gives the accept goroutine back to
   the frontend that accepted it. *)
LEMMA HandshakeKeeps ==
    ASSUME IInv, NEW c \in FrontConns, Handshake(c)
    PROVE  IInv'
  <1>0. PICK n \in SNINames :
            /\ cinst' = [cinst EXCEPT ![c] = n]
            /\ cpc' = [cpc EXCEPT ![c] = WithInstance(n)]
    BY DEF Handshake
  <1>1. Frame
    BY DEF Frame, Handshake, sessVars, frontVars
  <1>2. TypeOK' /\ PoolPartition'
    BY <1>0
    DEF IInv, Handshake, WithInstance, TypeOK, HandlerStates, PoolPartition,
        NewPoolForRange, poolVars, sessVars, Frontends
  <1>3. StartedInv'
    BY <1>1
    DEF IInv, Handshake, WithInstance, StartedInv, TypeOK, Started, ConnInv,
        Frame, sessVars, Frontends
  <1>4. ConnInv' /\ RoutedSession'
    BY <1>1
    DEF IInv, Handshake, WithInstance, ConnInv, StartedInv, TypeOK, Started,
        RoutedSession, Frame, sessVars, Frontends
  <1>. QED BY <1>1, <1>2, <1>3, <1>4, FrameKeeps DEF IInv

(* So does one that fails, and the connection is forgotten. *)
LEMMA HandshakeFailsKeeps ==
    ASSUME IInv, NEW c \in FrontConns, HandshakeFails(c)
    PROVE  IInv'
  <1>1. Frame
    BY DEF Frame, HandshakeFails, sessVars, frontVars
  <1>2. TypeOK' /\ PoolPartition'
    BY ServiceAssumption
    DEF IInv, HandshakeFails, EndConn, TypeOK, HandlerStates, PoolPartition,
        NewPoolForRange, poolVars, sessVars, Frontends
  <1>3. StartedInv'
    BY <1>1
    DEF IInv, HandshakeFails, EndConn, StartedInv, TypeOK, Started, ConnInv,
        Frame, sessVars, Frontends
  <1>4. ConnInv' /\ RoutedSession'
    BY <1>1
    DEF IInv, HandshakeFails, EndConn, ConnInv, StartedInv, TypeOK, Started,
        RoutedSession, Frame, sessVars, Frontends
  <1>. QED BY <1>1, <1>2, <1>3, <1>4, FrameKeeps DEF IInv

(* An ssh channel goes on with the frontend of its connection. *)
LEMMA DirectTCPIPKeeps ==
    ASSUME IInv, NEW c \in FrontConns, DirectTCPIP(c)
    PROVE  IInv'
  <1>1. Frame
    BY DEF Frame, DirectTCPIP, sessVars, frontVars
  <1>2. TypeOK' /\ PoolPartition'
    BY DEF IInv, DirectTCPIP, WithInstance, TypeOK, HandlerStates,
           PoolPartition, NewPoolForRange, poolVars, frontVars, sessVars,
           Frontends
  <1>3. StartedInv'
    BY <1>1
    DEF IInv, DirectTCPIP, WithInstance, StartedInv, TypeOK, Started, Frame,
        frontVars, sessVars, Frontends
  <1>4. ConnInv' /\ RoutedSession'
    BY <1>1
    DEF IInv, DirectTCPIP, WithInstance, ConnInv, StartedInv, TypeOK,
        Started, RoutedSession, Frame, frontVars, sessVars, Frontends
  <1>. QED BY <1>1, <1>2, <1>3, <1>4, FrameKeeps DEF IInv

(* The instance asked for does not matter before a session is picked. *)
LEMMA GetSNITargetKeeps ==
    ASSUME IInv, NEW c \in FrontConns, GetSNITarget(c)
    PROVE  IInv'
  <1>1. Frame
    BY DEF Frame, GetSNITarget, sessVars, frontVars
  <1>2. TypeOK' /\ PoolPartition'
    BY ServiceAssumption
    DEF IInv, GetSNITarget, TypeOK, HandlerStates, PoolPartition,
        NewPoolForRange, poolVars, frontVars, sessVars, Frontends
  <1>3. StartedInv'
    BY <1>1
    DEF IInv, GetSNITarget, StartedInv, TypeOK, Started, Frame, frontVars,
        sessVars, Frontends
  <1>4. ConnInv' /\ RoutedSession'
    BY <1>1
    DEF IInv, GetSNITarget, ConnInv, StartedInv, TypeOK, Started,
        RoutedSession, Frame, frontVars, sessVars, Frontends
  <1>. QED BY <1>1, <1>2, <1>3, <1>4, FrameKeeps DEF IInv

(* A connection that is dropped is forgotten. *)
LEMMA ReadDeadlineKeeps ==
    ASSUME IInv, NEW c \in FrontConns, ReadDeadline(c)
    PROVE  IInv'
  <1>1. Frame
    BY DEF Frame, ReadDeadline, sessVars, frontVars
  <1>2. TypeOK' /\ PoolPartition'
    BY ServiceAssumption
    DEF IInv, ReadDeadline, EndConn, TypeOK, HandlerStates, PoolPartition,
        NewPoolForRange, poolVars, frontVars, sessVars, Frontends
  <1>3. StartedInv'
    BY <1>1
    DEF IInv, ReadDeadline, EndConn, StartedInv, TypeOK, Started, Frame,
        frontVars, sessVars, Frontends
  <1>4. ConnInv' /\ RoutedSession'
    BY <1>1
    DEF IInv, ReadDeadline, EndConn, ConnInv, StartedInv, TypeOK, Started,
        RoutedSession, Frame, frontVars, sessVars, Frontends
  <1>. QED BY <1>1, <1>2, <1>3, <1>4, FrameKeeps DEF IInv

(* A connection whose peer leaves is forgotten. *)
LEMMA FrontConnClosesKeeps ==
    ASSUME IInv, NEW c \in FrontConns, FrontConnCloses(c)
    PROVE  IInv'
  <1>1. Frame
    BY DEF Frame, FrontConnCloses, sessVars, frontVars
  <1>2. TypeOK' /\ PoolPartition'
    BY ServiceAssumption
    DEF IInv, FrontConnCloses, EndConn, TypeOK, HandlerStates,
        PoolPartition, NewPoolForRange, poolVars, frontVars, sessVars,
        Frontends
  <1>3. StartedInv'
    BY <1>1
    DEF IInv, FrontConnCloses, EndConn, StartedInv, TypeOK, Started, Frame,
        frontVars, sessVars, Frontends
  <1>4. ConnInv' /\ RoutedSession'
    BY <1>1
    DEF IInv, FrontConnCloses, EndConn, ConnInv, StartedInv, TypeOK,
        Started, RoutedSession, Frame, frontVars, sessVars, Frontends
  <1>. QED BY <1>1, <1>2, <1>3, <1>4, FrameKeeps DEF IInv

(* What doProxy finds under the names of the frontend that accepted the
   connection is a session of that service, by MappedFrontendHasBackend
   and NoGhostBackend. *)
LEMMA PickBackendKeeps ==
    ASSUME IInv, NEW c \in FrontConns, PickBackend(c)
    PROVE  IInv'
  <1>0. PICK x \in Candidates(c) : csess' = [csess EXCEPT ![c] = x]
    BY DEF PickBackend
  <1>a. /\ x \in Sessions
        /\ pc[x] \in {"registered", "serving", "sendFailed"}
        /\ Authorized(td[x])
        /\ Key(td[x]) = Key(td[cfront[c]])
        /\ InstanceOf(td[x]) = cinst[c]
    <2>1. cfront[c] \in Sessions /\ Key(td[cfront[c]]) \in Keys
      BY KeyInKeys DEF IInv, PickBackend, ConnInv, Decoded, Started, TypeOK, Frontends
    <2>. QED
      BY <2>1 DEF IInv, Candidates, NoGhostBackend, MappedFrontendHasBackend, TypeOK, Frontends
  <1>1. Frame
    BY DEF Frame, PickBackend, sessVars, frontVars
  <1>2. TypeOK' /\ PoolPartition'
    BY <1>0, <1>a, ServiceAssumption
    DEF IInv, PickBackend, TypeOK, HandlerStates, PoolPartition,
        NewPoolForRange, poolVars, frontVars, sessVars, Frontends
  <1>3. StartedInv'
    BY <1>1
    DEF IInv, PickBackend, StartedInv, TypeOK, Started, Frame, frontVars,
        sessVars, Frontends
  <1>4. ConnInv' /\ RoutedSession'
    BY <1>1, <1>0, <1>a, ServiceAssumption
    DEF IInv, PickBackend, ConnInv, StartedInv, TypeOK, Started,
        RoutedSession, Frame, frontVars, sessVars, Frontends
  <1>. QED BY <1>1, <1>2, <1>3, <1>4, FrameKeeps DEF IInv

(* A connection nobody serves is forgotten. *)
LEMMA NoBackendKeeps ==
    ASSUME IInv, NEW c \in FrontConns, NoBackend(c)
    PROVE  IInv'
  <1>1. Frame
    BY DEF Frame, NoBackend, sessVars, frontVars
  <1>2. TypeOK' /\ PoolPartition'
    BY ServiceAssumption
    DEF IInv, NoBackend, EndConn, TypeOK, HandlerStates, PoolPartition,
        NewPoolForRange, poolVars, frontVars, sessVars, Frontends
  <1>3. StartedInv'
    BY <1>1
    DEF IInv, NoBackend, EndConn, StartedInv, TypeOK, Started, Frame,
        frontVars, sessVars, Frontends
  <1>4. ConnInv' /\ RoutedSession'
    BY <1>1
    DEF IInv, NoBackend, EndConn, ConnInv, StartedInv, TypeOK, Started,
        RoutedSession, Frame, frontVars, sessVars, Frontends
  <1>. QED BY <1>1, <1>2, <1>3, <1>4, FrameKeeps DEF IInv

(* The session picked stays the one proxied to. *)
LEMMA ConnectBackendKeeps ==
    ASSUME IInv, NEW c \in FrontConns, ConnectBackend(c)
    PROVE  IInv'
  <1>1. Frame
    BY DEF Frame, ConnectBackend, sessVars, frontVars
  <1>2. TypeOK' /\ PoolPartition'
    BY DEF IInv, ConnectBackend, TypeOK, HandlerStates, PoolPartition,
           NewPoolForRange, poolVars, frontVars, sessVars, Frontends
  <1>3. StartedInv'
    BY <1>1
    DEF IInv, ConnectBackend, StartedInv, TypeOK, Started, Frame, frontVars,
        sessVars, Frontends
  <1>4. ConnInv' /\ RoutedSession'
    BY <1>1
    DEF IInv, ConnectBackend, ConnInv, StartedInv, TypeOK, Started,
        RoutedSession, Frame, frontVars, sessVars, Frontends
  <1>. QED BY <1>1, <1>2, <1>3, <1>4, FrameKeeps DEF IInv

(* A connection whose backend is gone is forgotten. *)
LEMMA ConnectFailsKeeps ==
    ASSUME IInv, NEW c \in FrontConns, ConnectFails(c)
    PROVE  IInv'
  <1>1. Frame
    BY DEF Frame, ConnectFails, sessVars, frontVars
  <1>2. TypeOK' /\ PoolPartition'
    BY ServiceAssumption
    DEF IInv, ConnectFails, EndConn, TypeOK, HandlerStates, PoolPartition,
        NewPoolForRange, poolVars, frontVars, sessVars, Frontends
  <1>3. StartedInv'
    BY <1>1
    DEF IInv, ConnectFails, EndConn, StartedInv, TypeOK, Started, Frame,
        frontVars, sessVars, Frontends
  <1>4. ConnInv' /\ RoutedSession'
    BY <1>1
    DEF IInv, ConnectFails, EndConn, ConnInv, StartedInv, TypeOK, Started,
        RoutedSession, Frame, frontVars, sessVars, Frontends
  <1>. QED BY <1>1, <1>2, <1>3, <1>4, FrameKeeps DEF IInv

(* A connection that is over is forgotten. *)
LEMMA EndProxyKeeps ==
    ASSUME IInv, NEW c \in FrontConns, EndProxy(c)
    PROVE  IInv'
  <1>1. Frame
    BY DEF Frame, EndProxy, sessVars, frontVars
  <1>2. TypeOK' /\ PoolPartition'
    BY ServiceAssumption
    DEF IInv, EndProxy, EndConn, TypeOK, HandlerStates, PoolPartition,
        NewPoolForRange, poolVars, frontVars, sessVars, Frontends
  <1>3. StartedInv'
    BY <1>1
    DEF IInv, EndProxy, EndConn, StartedInv, TypeOK, Started, Frame,
        frontVars, sessVars, Frontends
  <1>4. ConnInv' /\ RoutedSession'
    BY <1>1
    DEF IInv, EndProxy, EndConn, ConnInv, StartedInv, TypeOK, Started,
        RoutedSession, Frame, frontVars, sessVars, Frontends
  <1>. QED BY <1>1, <1>2, <1>3, <1>4, FrameKeeps DEF IInv

-----------------------------------------------------------------------------

(* The invariant holds of a service that was just created. *)
LEMMA InitHolds == Init => IInv
  <1>. SUFFICES ASSUME Init PROVE IInv
    OBVIOUS
  <1>1. TypeOK
    BY ServiceAssumption
    DEF Init, PoolInit, TypeOK, HandlerStates, NoElement, Frontends
  <1>2. PoolPartition
    BY DEF Init, PoolInit, PoolPartition
  <1>3. Decoded /\ StartedInv /\ ValInv /\ OpenListenerHasBackend
    BY DEF Init, Decoded, StartedInv, ValInv, OpenListenerHasBackend, Started, Working, Frontends
  <1>4. MappedFrontendHasBackend /\ NoGhostBackend /\ ConnInv /\ RoutedSession
    BY DEF Init, MappedFrontendHasBackend, NoGhostBackend, ConnInv, RoutedSession, Frontends
  <1>. QED BY <1>1, <1>2, <1>3, <1>4 DEF IInv

(* A step that changes nothing preserves it. *)
LEMMA StutterKeeps ==
    ASSUME IInv, UNCHANGED vars
    PROVE  IInv'
  <1>. USE DEF vars, poolVars, sessVars, frontVars, connVars
  <1>1. TypeOK' /\ PoolPartition'
    BY DEF IInv, TypeOK, PoolPartition, NewPoolForRange
  <1>2. Decoded' /\ StartedInv' /\ ValInv' /\ ConnInv'
    BY DEF IInv, Decoded, StartedInv, ValInv, ConnInv, Started
  <1>3. OpenListenerHasBackend' /\ MappedFrontendHasBackend'
    BY DEF IInv, OpenListenerHasBackend, MappedFrontendHasBackend
  <1>4. NoGhostBackend' /\ RoutedSession'
    BY DEF IInv, NoGhostBackend, RoutedSession
  <1>. QED BY <1>1, <1>2, <1>3, <1>4 DEF IInv

(* Every step of every thread preserves it. *)
LEMMA NextKeeps == IInv /\ [Next]_vars => IInv'
  <1>. SUFFICES ASSUME IInv, [Next]_vars PROVE IInv'
    OBVIOUS
  <1>1. ASSUME NEW s \in Sessions, Handler(s) PROVE IInv'
    BY <1>1, AllocatePortKeeps, OutOfPortsKeeps, ReuseFrontendKeeps, StartFrontendKeeps,
       StartFrontendFailsKeeps, SendResponseKeeps, SendResponseFailsKeeps, CleanupKeeps
    DEF Handler
  <1>2. ASSUME NEW s \in Sessions, Client(s) PROVE IInv'
    BY <1>2, AcceptKeeps, AuthorizeKeeps, AuthorizeFailsKeeps, DecodeFailsKeeps,
       SessionClosesKeeps
    DEF Client
  <1>3. ASSUME NEW c \in FrontConns, Proxy(c) PROVE IInv'
    BY <1>3, DirectTCPIPKeeps, GetSNITargetKeeps, ReadDeadlineKeeps, FrontConnClosesKeeps,
       HandshakeKeeps, HandshakeFailsKeeps, PickBackendKeeps, NoBackendKeeps,
       ConnectBackendKeeps, ConnectFailsKeeps, EndProxyKeeps
    DEF Proxy
  <1>4. CASE Finished \/ UNCHANGED vars
    BY <1>4, StutterKeeps DEF Finished
  <1>. QED
    BY <1>1, <1>2, <1>3, <1>4, CloseKeeps, AcceptLoopEndsKeeps, AcceptFrontendKeeps DEF Next

(* The inductive invariant holds of every behaviour of the service, with   *)
(* any number of sessions, whatever they ask for.                          *)
THEOREM Invariance == Spec => []IInv
  BY InitHolds, NextKeeps, PTL DEF Spec

(* Every variable keeps its type: in particular frontendMap is only ever   *)
(* written at a service its user may open.                                 *)
THEOREM TypeCorrect == Spec => []TypeOK
  <1>1. IInv => TypeOK
    BY DEF IInv
  <1>. QED BY <1>1, Invariance, PTL

(* The port pool is never corrupted by the ports the error path of         *)
(* handleStream and the accept goroutines return to it.                    *)
THEOREM PoolIsPartition == Spec => []PoolPartition
  <1>1. IInv => PoolPartition
    BY DEF IInv
  <1>. QED BY <1>1, Invariance, PTL

(* No public port stays open without a session registered for it.          *)
THEOREM NoOrphanListener == Spec => []OpenListenerHasBackend
  <1>1. IInv => OpenListenerHasBackend
    BY DEF IInv
  <1>. QED BY <1>1, Invariance, PTL

(* What frontendMap holds has backends and is of the service it is held    *)
(* for, though a handler deletes the entry of its service whichever        *)
(* frontend is there.                                                      *)
THEOREM MapIsCurrent == Spec => []MappedFrontendHasBackend
  <1>1. IInv => MappedFrontendHasBackend
    BY DEF IInv
  <1>. QED BY <1>1, Invariance, PTL

(* Backend maps hold no session whose handler cleaned up, and none of      *)
(* another service.                                                        *)
THEOREM BackendsAreCurrent == Spec => []NoGhostBackend
  <1>1. IInv => NoGhostBackend
    BY DEF IInv
  <1>. QED BY <1>1, Invariance, PTL

(* A front connection reaches only a session authorised for its user and   *)
(* service, of the instance it asked for.                                  *)
THEOREM Routing == Spec => []RoutedSession
  <1>1. IInv => RoutedSession
    BY DEF IInv
  <1>. QED BY <1>1, Invariance, PTL

-----------------------------------------------------------------------------
(* The users of a port.                                                    *)

(* Whoever uses a port goes on using it. *)
UsersStay ==
    /\ \A s \in Sessions : pc[s] = "allocated" => pc'[s] = "allocated" /\ port'[s] = port[s]
    /\ \A f \in Frontends : Looping(f) => Looping(f)' /\ port'[f] = port[f]

(* So it stays in use. *)
LEMMA UsersStayUsed ==
    ASSUME UsersStay, NEW p, PortUsed(p)
    PROVE  PortUsed(p)'
  BY DEF UsersStay, PortUsed, Looping

(* A handler that has settled its port leaves it to an accept goroutine,   *)
(* or returns it, or joins a frontend of its service on that port.         *)
LEMMA SettledPortKept ==
    ASSUME IInv, NEW s \in Sessions,
           ReuseFrontend(s) \/ StartFrontend(s) \/ StartFrontendFails(s),
           NEW p, PortUsed(p)
    PROVE  \/ PortUsed(p)'
           \/ p \notin allocated'
           \/ JoinsEndedFrontend(s) /\ port[s] = p
  <1>1. port' = port
    BY DEF ReuseFrontend, StartFrontend, StartFrontendFails
  <1>2. pc[s] = "allocated" /\ ~Looping(s)
    BY DEF ReuseFrontend, StartFrontend, StartFrontendFails, IInv, StartedInv, Looping, Frontends
  <1>3. \A x \in Sessions : x # s => pc'[x] = pc[x]
    BY DEF ReuseFrontend, StartFrontend, StartFrontendFails, Return, IInv, TypeOK
  <1>4. \A f \in Frontends : Looping(f) => Looping(f)'
    BY <1>2 DEF ReuseFrontend, StartFrontend, StartFrontendFails, Looping, IInv, TypeOK, Frontends
  <1>5. CASE port[s] # p
    BY <1>1, <1>3, <1>4, <1>5 DEF PortUsed
  <1>6. CASE port[s] = p /\ ReuseFrontend(s) /\ Looping(val[s])
    <2>1. val[s] \in Frontends /\ port[val[s]] = p
      BY <1>6 DEF ReuseFrontend, IInv, TypeOK
    <2>. QED BY <1>1, <1>4, <1>6, <2>1 DEF PortUsed
  <1>7. CASE port[s] = p /\ StartFrontend(s)
    <2>1. Looping(s)'
      BY <1>7 DEF StartFrontend, Looping, IInv, TypeOK, Frontends
    <2>. QED BY <1>1, <1>7, <2>1 DEF PortUsed, Frontends
  <1>8. CASE port[s] = p /\ StartFrontendFails(s)
    BY <1>8 DEF StartFrontendFails, ReturnElement
  <1>. QED BY <1>5, <1>6, <1>7, <1>8 DEF JoinsEndedFrontend

(* An accept goroutine that ends returns its port. *)
LEMMA EndedLoopReturns ==
    ASSUME IInv, NEW g \in Frontends, AcceptLoopEnds(g), NEW p, PortUsed(p)
    PROVE  PortUsed(p)' \/ p \notin allocated'
  <1>1. port' = port /\ pc' = pc
    BY DEF AcceptLoopEnds, sessVars
  <1>2. \A f \in Frontends : f # g /\ Looping(f) => Looping(f)'
    BY DEF AcceptLoopEnds, Looping, IInv, TypeOK
  <1>3. port[g] \notin allocated'
    BY DEF AcceptLoopEnds, ReturnElement
  <1>. QED BY <1>1, <1>2, <1>3 DEF PortUsed

(* No other step takes a port from who uses it. *)
LEMMA OthersKeepUsers ==
    ASSUME IInv, [Next]_vars,
           \A s \in Sessions : ~(ReuseFrontend(s) \/ StartFrontend(s) \/ StartFrontendFails(s)),
           \A f \in Frontends : ~AcceptLoopEnds(f)
    PROVE  UsersStay
  <1>. USE DEF UsersStay, Looping, IInv, TypeOK, Frontends
  <1>1. ASSUME NEW s \in Sessions, AllocatePort(s) PROVE UsersStay
    <2>1. pc[s] = "authorized" /\ ~Looping(s)
      BY <1>1 DEF AllocatePort, StartedInv
    <2>2. \A x \in Sessions : x # s => pc'[x] = pc[x] /\ port'[x] = port[x]
      BY <1>1 DEF AllocatePort
    <2>3. acceptLoop' = acceptLoop
      BY <1>1 DEF AllocatePort, frontVars
    <2>. QED BY <2>1, <2>2, <2>3
  <1>2. ASSUME NEW s \in Sessions,
               \/ OutOfPorts(s) \/ SendResponse(s) \/ SendResponseFails(s) \/ Cleanup(s)
               \/ Accept(s) \/ DecodeFails(s) \/ SessionCloses(s)
               \/ \E r \in Requests : Authorize(s, r) \/ AuthorizeFails(s, r)
        PROVE UsersStay
    <2>1. port' = port /\ acceptLoop' = acceptLoop
      BY <1>2 DEF OutOfPorts, SendResponse, SendResponseFails, Cleanup, Accept, DecodeFails,
                  SessionCloses, Authorize, AuthorizeFails, frontVars
    <2>2. pc[s] # "allocated" \/ pc' = pc
      BY <1>2 DEF OutOfPorts, SendResponse, SendResponseFails, Cleanup, Accept, DecodeFails,
                  SessionCloses, Authorize, AuthorizeFails
    <2>3. \A x \in Sessions : x # s => pc'[x] = pc[x]
      BY <1>2 DEF OutOfPorts, SendResponse, SendResponseFails, Cleanup, Accept, DecodeFails,
                  SessionCloses, Authorize, AuthorizeFails, Return
    <2>. QED BY <2>1, <2>2, <2>3
  <1>3. ASSUME NEW c \in FrontConns, Proxy(c) \/ \E f \in Frontends : AcceptFrontend(f, c)
        PROVE  UsersStay
    <2>1. pc' = pc /\ port' = port
      BY <1>3 DEF Proxy, AcceptFrontend, DirectTCPIP, GetSNITarget, ReadDeadline, FrontConnCloses,
                  Handshake, HandshakeFails, PickBackend, NoBackend, ConnectBackend,
                  ConnectFails, EndProxy, sessVars
    <2>2. \A f \in Frontends : Looping(f) => Looping(f)'
      BY <1>3 DEF Proxy, AcceptFrontend, DirectTCPIP, GetSNITarget, ReadDeadline, FrontConnCloses,
                  Handshake, HandshakeFails, PickBackend, NoBackend, ConnectBackend,
                  ConnectFails, EndProxy, frontVars
    <2>. QED BY <2>1, <2>2
  <1>4. CASE Close \/ Finished \/ UNCHANGED vars
    BY <1>4 DEF Close, Finished, vars, sessVars, frontVars
  <1>. QED BY <1>1, <1>2, <1>3, <1>4 DEF Next, Handler, Client

(* Whatever ports its clients ask for, the service loses one in a single   *)
(* way: by registering a session with a frontend that no longer accepts.   *)
THEOREM PortsAreReturned == Spec => LastUserReturns
  <1>1. IInv /\ [Next]_vars =>
            \A p \in NewPoolForRange :
                (p \in allocated /\ PortUsed(p) /\ p \in allocated' /\ ~PortUsed(p)')
                    => \E s \in Sessions : JoinsEndedFrontend(s) /\ port[s] = p
    <2>. SUFFICES ASSUME IInv, [Next]_vars, NEW p \in NewPoolForRange,
                         PortUsed(p), p \in allocated', ~PortUsed(p)'
                  PROVE  \E s \in Sessions : JoinsEndedFrontend(s) /\ port[s] = p
      OBVIOUS
    <2>1. ~UsersStay
      BY UsersStayUsed
    <2>2. PICK s \in Sessions :
              \/ ReuseFrontend(s) \/ StartFrontend(s) \/ StartFrontendFails(s)
              \/ AcceptLoopEnds(s)
      BY <2>1, OthersKeepUsers DEF Frontends
    <2>3. ReuseFrontend(s) \/ StartFrontend(s) \/ StartFrontendFails(s)
      BY <2>2, EndedLoopReturns DEF Frontends
    <2>. QED BY <2>3, SettledPortKept
  <1>. QED BY <1>1, Invariance, PTL DEF Spec, LastUserReturns

=============================================================================
