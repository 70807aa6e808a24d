----------------------- MODULE MCMuxTunnelService -----------------------
(***************************************************************************)
(* Small instances of MuxTunnelService for TLC.                            *)
(***************************************************************************)
EXTENDS MuxTunnelService, TLC

CONSTANTS s1, s2, s3, c1

(* One user with the default id and token, one with a token of its own and *)
(* a service that has another.                                             *)
MCConfig ==
    ("default@none" :> [token |-> <<"tok">>, services |-> <<>>])
 @@ ("ann" :> [token |-> <<"ann", "tok">>, services |-> ("db" :> <<"ann", "key">>)])

Request(name, token, p) ==
    [serviceName |-> name, token |-> token, port |-> p, tlsWrap |-> FALSE, sshWrap |-> FALSE]

Tls(r) == [r EXCEPT !.tlsWrap = TRUE]
Ssh(r) == [r EXCEPT !.sshWrap = TRUE]

(* Requests that compete for the only dynamic port, 100: one instance of   *)
(* "web" asks for it by number, over TLS, another for a port beside it;    *)
(* "db" takes what it gets, over ssh, or comes with a token that is no     *)
(* good for it.                                                            *)
CompetingRequests ==
    {Request(<<"web">>, <<"tok">>, 101),
     Tls(Request(<<"web", "i1">>, <<"tok">>, 100)),
     Ssh(Request(<<"db", "i1">>, <<"ann", "key">>, 0)),
     Request(<<"db", "i1">>, <<"ann", "tok">>, 0)}

(* Requests with static ports: "web" has any port and two instances, "db"  *)
(* and "log" ask for the same explicit port, "api" for any port too.       *)
StaticRequests ==
    {Tls(Request(<<"web">>, <<"tok">>, 0)),
     Tls(Request(<<"web", "i1">>, <<"tok">>, 0)),
     Ssh(Request(<<"db">>, <<"ann", "key">>, 50)),
     Request(<<"log">>, <<"tok">>, 50),
     Request(<<"api">>, <<"tok">>, 0)}

(* The hypotheses of the runs on static ports hold of these requests. *)
ASSUME StaticPortsAssumption ==
    (Requests = StaticRequests) => StaticPorts

OwnAddr == [s \in Sessions |-> s]

(* s2 connects from the address s1 had. *)
SharedAddr == [s \in Sessions |-> IF s = s2 THEN s1 ELSE s]

(* With SharedAddr nothing tells these two apart: AddrOf is only compared. *)
SharedSymmetry == Permutations({s1, s2})

Names == {"", "i1"}

=========================================================================
