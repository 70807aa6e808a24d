--------------------------- MODULE MCTunnelSystem ---------------------------
(***************************************************************************)
(* Small instances of TunnelSystem for TLC.                                *)
(***************************************************************************)
EXTENDS TunnelSystem, TLC

CONSTANTS a, b

MCConfig == "default@none" :> [token |-> <<"tok">>, services |-> <<>>]

Data(name, token, p) ==
    [serviceName |-> <<name>>, token |-> <<token>>, port |-> p, tlsWrap |-> FALSE, sshWrap |-> FALSE]

(* Two clients, one worker each, that let the service choose their port.   *)
(* One connects at most once, the other again and again.                   *)
MCClients == {"A", "B"}
MCClientOf == (a :> "A") @@ (b :> "B")
MCWorkerOf == [s \in Sessions |-> IF s = 2 THEN b ELSE a]

(* One of them alone. *)
AClients == {"A"}
AClientOf == a :> "A"
AWorkerOf == [s \in Sessions |-> a]

MCTunnelData == [c \in Clients |-> Data(IF c = "A" THEN "web" ELSE "api", "tok", 0)]

(* What they can come to ask for: any port, or one they were given. *)
MCRequests == {[MCTunnelData[c] EXCEPT !.port = p] : c \in Clients, p \in {0} \cup NewPoolForRange}

OwnAddr == [s \in Sessions |-> s]

(* The other client comes from an address that the first one had. *)
MCAddr == [s \in Sessions |-> IF s = 2 THEN 1 ELSE s]
Names == {""}

ASSUME OneWorkerAssumption == OneWorkerEach

=============================================================================
