--------------------------- MODULE MuxTunnelClient ---------------------------
(***************************************************************************)
(* pkg/muxtunnelClient.go: MuxTunnelClient, the private end of the tunnel. *)
(*                                                                         *)
(* NewMuxTunnelClient starts connectionCount goroutines.  Each of them     *)
(* makes one connection after the other to the service: it asks for the    *)
(* tunnel, waits for the answer and then for the end of the session, and   *)
(* tries again after a pause, until Close.  The goroutines share           *)
(* tunnelData, in which the service's answer puts the public port.         *)
(*                                                                         *)
(* The service is external here: it answers with a port, refuses, or the   *)
(* session breaks.  TunnelSystem puts MuxTunnelService in its place.       *)
(***************************************************************************)
EXTENDS Naturals, FiniteSets

CONSTANTS
    Workers,        \* the goroutines, connectionCount of them
    InitialPort,    \* FrontendData.Port the client was created with
    Ports           \* ports the service may announce

ASSUME ClientAssumption ==
    /\ InitialPort \in Nat
    /\ Ports \subseteq Nat \ {0}

VARIABLES
    wpc,            \* where the goroutine is
    session,        \* its yamux session, as it sees it: "none", "open" or
                    \* "closed"
    asked,          \* the port in the request it sent
    frontendPort,   \* tunnelData.FrontendData.Port, under mtx but for Encode
    closed          \* Close was called: the flag and the closed channel

clientVars == <<wpc, session, asked, frontendPort, closed>>

WorkerStates ==
    {"start",       \* about to call addBackendConnection
     "dialing",     \* it was not closed: resolving, dialling
     "handshake",   \* TLS: no deadline, and closeCh is not looked at
     "opened",      \* a session is open, the request not yet sent
     "waiting",     \* decoding the response
     "ready",       \* polling for the end of the session
     "back",        \* addBackendConnection returned
     "sleeping",    \* the pause before the next attempt
     "done"}

ClientInit ==
    /\ wpc = [w \in Workers |-> "start"]
    /\ session = [w \in Workers |-> "none"]
    /\ asked = [w \in Workers |-> InitialPort]
    /\ frontendPort = InitialPort
    /\ closed = FALSE

-----------------------------------------------------------------------------
(* addBackendConnection.  A return runs the deferred calls, which close    *)
(* the session.                                                            *)

(* Mutant: the deferred close of the session is missing. *)
ReturnWithSession(w) ==
    /\ wpc' = [wpc EXCEPT ![w] = "back"]
    /\ session' = session

Return(w) ==
    /\ wpc' = [wpc EXCEPT ![w] = "back"]
    /\ session' = [session EXCEPT ![w] = "none"]

(* The only place where an attempt looks at closed before it is ready. *)
CheckClosed(w) ==
    /\ wpc[w] = "start"
    /\ wpc' = [wpc EXCEPT ![w] = IF closed THEN "back" ELSE "dialing"]
    /\ UNCHANGED <<session, asked, frontendPort, closed>>

DialFails(w) ==
    /\ wpc[w] = "dialing"
    /\ Return(w)
    /\ UNCHANGED <<asked, frontendPort, closed>>

Dial(w) ==
    /\ wpc[w] = "dialing"
    /\ wpc' = [wpc EXCEPT ![w] = "handshake"]
    /\ UNCHANGED <<session, asked, frontendPort, closed>>

HandshakeFails(w) ==
    /\ wpc[w] = "handshake"
    /\ Return(w)
    /\ UNCHANGED <<asked, frontendPort, closed>>

(* TLS handshake made, session and control stream open. *)
Connect(w) ==
    /\ wpc[w] = "handshake"
    /\ wpc' = [wpc EXCEPT ![w] = "opened"]
    /\ session' = [session EXCEPT ![w] = "open"]
    /\ UNCHANGED <<asked, frontendPort, closed>>

(* Encode reads tunnelData without mtx: it sends the port it finds there.  *)
SendRequest(w) ==
    /\ wpc[w] = "opened"
    /\ session[w] = "open"
    /\ asked' = [asked EXCEPT ![w] = frontendPort]
    /\ wpc' = [wpc EXCEPT ![w] = "waiting"]
    /\ UNCHANGED <<session, frontendPort, closed>>

SendRequestFails(w) ==
    /\ wpc[w] = "opened"
    /\ session[w] = "closed"
    /\ Return(w)
    /\ UNCHANGED <<asked, frontendPort, closed>>

(* The service announces the port: an explicit one is the one asked for.   *)
(* What the session received before it was closed can still be decoded.    *)
Answered(w) ==
    /\ wpc[w] = "waiting"
    /\ frontendPort' \in IF asked[w] = 0 THEN Ports ELSE {asked[w]}
    /\ wpc' = [wpc EXCEPT ![w] = "ready"]
    /\ UNCHANGED <<session, asked, closed>>

(* The response carries an error: not authorised, out of ports. *)
Refused(w) ==
    /\ wpc[w] = "waiting"
    /\ Return(w)
    /\ UNCHANGED <<asked, frontendPort, closed>>

(* Decode has no deadline and does not look at closeCh: only the end of    *)
(* the session makes it fail.                                              *)
DecodeFails(w) ==
    /\ wpc[w] = "waiting"
    /\ session[w] = "closed"
    /\ Return(w)
    /\ UNCHANGED <<asked, frontendPort, closed>>

(* Mutant: the loop does not look at closeCh. *)
EndSeenSession(w) == session[w] = "closed"

(* What the polling loop breaks on. *)
EndSeen(w) == session[w] = "closed" \/ closed

EndServing(w) ==
    /\ wpc[w] = "ready"
    /\ EndSeen(w)
    /\ Return(w)
    /\ UNCHANGED <<asked, frontendPort, closed>>

-----------------------------------------------------------------------------
(* The goroutine of NewMuxTunnelClient, and Close.                         *)

(* Mutant: a goroutine whose attempt failed gives up. *)
AfterAttemptGivesUp(w) == "done"

(* closeCh is looked at after the attempt and before the pause. *)
AfterAttempt(w) == IF closed THEN "done" ELSE "sleeping"

EndAttempt(w) ==
    /\ wpc[w] = "back"
    /\ wpc' = [wpc EXCEPT ![w] = AfterAttempt(w)]
    /\ UNCHANGED <<session, asked, frontendPort, closed>>

WakeUp(w) ==
    /\ wpc[w] = "sleeping"
    /\ wpc' = [wpc EXCEPT ![w] = "start"]
    /\ UNCHANGED <<session, asked, frontendPort, closed>>

Close ==
    /\ ~closed
    /\ closed' = TRUE
    /\ UNCHANGED <<wpc, session, asked, frontendPort>>

(* The connection breaks, the service closes it or yamux's keepalive       *)
(* fails.                                                                  *)
SessionBreaks(w) ==
    /\ session[w] = "open"
    /\ session' = [session EXCEPT ![w] = "closed"]
    /\ UNCHANGED <<wpc, asked, frontendPort, closed>>

Worker(w) ==
    \/ CheckClosed(w) \/ EndServing(w) \/ EndAttempt(w) \/ WakeUp(w)
    \/ DialFails(w) \/ Dial(w) \/ HandshakeFails(w) \/ Connect(w)
    \/ SendRequest(w) \/ SendRequestFails(w)
    \/ Answered(w) \/ Refused(w) \/ DecodeFails(w)

(* Every goroutine has ended. *)
Stopped ==
    /\ \A w \in Workers : wpc[w] = "done"
    /\ UNCHANGED clientVars

ClientNext ==
    \/ \E w \in Workers : Worker(w) \/ SessionBreaks(w)
    \/ Close
    \/ Stopped

ClientSpec == ClientInit /\ [][ClientNext]_clientVars

(* A goroutine goes on: dialling ends by its timeout, a pause ends, the    *)
(* poll sees what happened, and the service answers or refuses a request   *)
(* (MuxTunnelService!RequestAnswered) or the session breaks.  Nothing      *)
(* makes a TLS handshake end.                                              *)
ClientFairSpec ==
    /\ ClientSpec
    /\ \A w \in Workers : WF_clientVars(wpc[w] # "handshake" /\ Worker(w))

-----------------------------------------------------------------------------

(* However an attempt ends - refused, broken at any point, closed - it     *)
(* leaves no session behind: the service would go on sending connections   *)
(* to it, beside the one of the next attempt.                              *)
NoSessionLeftBehind ==
    \A w \in Workers :
        wpc[w] \in {"start", "dialing", "handshake", "back", "sleeping", "done"} =>
            session[w] = "none"

(* After Close every goroutine ends and none of its sessions stays,        *)
(* whatever it was doing - but for one whose TLS handshake never ends,     *)
(* which stays there without a session.                                    *)
StopsAfterClose ==
    closed ~> [](\A w \in Workers : wpc[w] \in {"done", "handshake"} /\ session[w] = "none")

(* The network and the service do not fail every attempt at the same       *)
(* point for ever.                                                         *)
NetworkWorks ==
    \A w \in Workers :
        /\ SF_clientVars(Dial(w))
        /\ SF_clientVars(Connect(w))
        /\ SF_clientVars(SendRequest(w))
        /\ SF_clientVars(session[w] = "open" /\ Answered(w))

(* Over a network that works, a goroutine that lost its session serves     *)
(* again, unless the client is closed.                                     *)
Reconnects ==
    NetworkWorks =>
        \A w \in Workers :
            session[w] = "closed" ~> (wpc[w] = "ready" /\ session[w] = "open") \/ closed

=============================================================================
