----------------------- MODULE MuxTunnelClientProofs -----------------------
(***************************************************************************)
(* Proofs about MuxTunnelClient, for any number of goroutines and whatever *)
(* the service answers: no attempt leaves a session behind, and a client   *)
(* that was created with a port asks for that port in every attempt.       *)
(***************************************************************************)
EXTENDS MuxTunnelClient, TLAPS

(* The values the state of a client can have. *)
ClientTypeOK ==
    /\ wpc \in [Workers -> WorkerStates]
    /\ session \in [Workers -> {"none", "open", "closed"}]
    /\ asked \in [Workers -> Nat]
    /\ frontendPort \in Nat
    /\ closed \in BOOLEAN

(* A port that is not 0 is never replaced: not by the answer to a request  *)
(* that another goroutine sent, nor by one to a request of an earlier      *)
(* attempt.                                                                *)
ExplicitPortKept ==
    InitialPort # 0 => frontendPort = InitialPort /\ \A w \in Workers : asked[w] = InitialPort

(* The inductive invariant. *)
ClientInv == ClientTypeOK /\ NoSessionLeftBehind /\ ExplicitPortKept

-----------------------------------------------------------------------------

(* A return closes the session; the deferred calls run on every path. *)
LEMMA ReturnKeeps ==
    ASSUME ClientInv, NEW w \in Workers, Return(w), UNCHANGED <<asked, frontendPort, closed>>
    PROVE  ClientInv'
  BY DEF ClientInv, ClientTypeOK, WorkerStates, NoSessionLeftBehind, ExplicitPortKept, Return

(* A goroutine preserves the invariant. *)
LEMMA WorkerKeeps ==
    ASSUME ClientInv, NEW w \in Workers, Worker(w)
    PROVE  ClientInv'
  <1>. USE DEF ClientInv, ClientTypeOK, WorkerStates, NoSessionLeftBehind, ExplicitPortKept
  <1>1. CASE \/ EndServing(w) \/ DialFails(w) \/ HandshakeFails(w) \/ SendRequestFails(w)
             \/ Refused(w) \/ DecodeFails(w)
    BY <1>1, ReturnKeeps
    DEF EndServing, DialFails, HandshakeFails, SendRequestFails, Refused, DecodeFails
  <1>2. CASE CheckClosed(w)
    BY <1>2 DEF CheckClosed
  <1>3. CASE EndAttempt(w)
    BY <1>3 DEF EndAttempt, AfterAttempt
  <1>4. CASE WakeUp(w)
    BY <1>4 DEF WakeUp
  <1>5. CASE Connect(w)
    BY <1>5 DEF Connect
  <1>6. CASE SendRequest(w)
    BY <1>6 DEF SendRequest
  <1>7. CASE Answered(w)
    <2>1. frontendPort' \in Nat /\ (InitialPort # 0 => frontendPort' = InitialPort)
      BY <1>7, ClientAssumption DEF Answered
    <2>. QED BY <1>7, <2>1 DEF Answered
  <1>8. CASE Dial(w)
    BY <1>8 DEF Dial
  <1>. QED BY <1>1, <1>2, <1>3, <1>4, <1>5, <1>6, <1>7, <1>8 DEF Worker

(* Every step preserves the invariant. *)
LEMMA ClientNextKeeps == ClientInv /\ [ClientNext]_clientVars => ClientInv'
  <1>. SUFFICES ASSUME ClientInv, [ClientNext]_clientVars PROVE ClientInv'
    OBVIOUS
  <1>. USE DEF ClientInv, ClientTypeOK, WorkerStates, NoSessionLeftBehind, ExplicitPortKept
  <1>1. ASSUME NEW w \in Workers, SessionBreaks(w) PROVE ClientInv'
    BY <1>1 DEF SessionBreaks
  <1>2. CASE Close
    BY <1>2 DEF Close
  <1>3. CASE Stopped \/ UNCHANGED clientVars
    BY <1>3 DEF Stopped, clientVars
  <1>. QED BY <1>1, <1>2, <1>3, WorkerKeeps DEF ClientNext

(* The inductive invariant holds of every behaviour of a client. *)
THEOREM ClientInvariance == ClientSpec => []ClientInv
  <1>1. ClientInit => ClientInv
    BY ClientAssumption
    DEF ClientInit, ClientInv, ClientTypeOK, WorkerStates, NoSessionLeftBehind, ExplicitPortKept
  <1>. QED BY <1>1, ClientNextKeeps, PTL DEF ClientSpec

(* However an attempt of addBackendConnection ends, its session is closed  *)
(* before the next attempt, and before the goroutine ends.                 *)
THEOREM SessionsAreClosed == ClientSpec => []NoSessionLeftBehind
  <1>1. ClientInv => NoSessionLeftBehind
    BY DEF ClientInv
  <1>. QED BY <1>1, ClientInvariance, PTL

(* A client created with an explicit port keeps it: every request of every *)
(* goroutine asks for it, although all answers are written to the          *)
(* tunnelData that the requests are made from.                             *)
THEOREM AsksForItsPort == ClientSpec => []ExplicitPortKept
  <1>1. ClientInv => ExplicitPortKept
    BY DEF ClientInv
  <1>. QED BY <1>1, ClientInvariance, PTL

=============================================================================
