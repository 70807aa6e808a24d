----------------------------- MODULE ProxyConn -----------------------------
(***************************************************************************)
(* One proxied connection, from end to end: doProxy, connectBackend and    *)
(* copybytes of the service (pkg/muxtunnel.go), handleStream, doProxy and  *)
(* copybytes of the client (pkg/muxtunnelClient.go).                       *)
(*                                                                         *)
(*     user --front-- service --stream-- client --target-- target          *)
(*                                                                         *)
(* front and target are TCP connections (front may be a TLS connection or  *)
(* an ssh channel), stream is a yamux stream.  Each carries chunks both    *)
(* ways, "up" to the target and "down" to the user; a chunk is what one    *)
(* Read returns.  Four goroutines copy, two at each end of the stream.     *)
(* A connection can be half-closed: the end of one direction follows its   *)
(* last chunk.  CloseWrite of TCP, TLS and ssh does that, and so does      *)
(* Close of a yamux stream, which goes on delivering what the other end    *)
(* sends until its close timeout.                                          *)
(*                                                                         *)
(* How a session is picked is in MuxTunnelService, what the first read     *)
(* means in SNITarget.                                                     *)
(***************************************************************************)
EXTENDS SNITarget

CONSTANTS
    Streams,        \* descriptions of what a user sends first
    ReadSizes,      \* the numbers of bytes the first read may return
    FrameLens,      \* the lengths the serialized connect data may have
    MaxSent,        \* bound: chunks a peer sends, per direction
    Room            \* bound: chunks in flight, per connection and direction

Directions == {"up", "down"}
Links == {"front", "stream", "target"}
Ends == {"service", "client"}

ASSUME ProxyAssumption ==
    /\ \A d \in Directions : MaxSent[d] \in Nat
    /\ Room \in Nat \ {0}
    /\ Streams \subseteq Descriptions
    /\ ReadSizes \subseteq 1..FirstRead

VARIABLES
    \* doProxy of the service
    spc,            \* where the goroutine is
    head,           \* what the user sends first, and what was made of it
    armed,          \* the read deadline of front is set
    b,              \* chunks saved from the first read
    withheld,       \* chunks of the first read that are not passed on
    \* handleStream of the client
    hpc,            \* where the goroutine is
    frameLen,       \* length of the connect data on its way, 0 if none
    \* copybytes
    copier,         \* end, direction -> the state of the goroutine
    \* the connections
    wire,           \* direction, link -> chunks in flight
    fin,            \* direction, link -> closed for writing
    faults,         \* links that broke, and "deadline" when it cut the copy
    \* the peers
    sent, ended,    \* chunks sent, and whether the peer ended its side
    got, eof        \* chunks received, and whether it saw a clean end

serviceVars == <<spc, head, armed, b, withheld>>
handlerVars == <<hpc, frameLen>>
linkVars == <<copier, wire, fin, faults>>
peerVars == <<sent, ended, got, eof>>
proxyVars == <<serviceVars, handlerVars, linkVars, peerVars>>

FirstLink(d) == IF d = "up" THEN "front" ELSE "target"
LastLink(d) == IF d = "up" THEN "target" ELSE "front"

(* What the copier of direction d at end e reads from and writes to. *)
Source(e, d) ==
    IF d = "up" THEN IF e = "service" THEN "front" ELSE "stream"
    ELSE IF e = "service" THEN "stream" ELSE "target"

Dest(e, d) ==
    IF d = "up" THEN IF e = "service" THEN "stream" ELSE "target"
    ELSE IF e = "service" THEN "front" ELSE "stream"

Dialed == copier["client"]["up"] # "off"

(* A frontend that knows the instance (from the TLS handshake or the ssh   *)
(* request) reads nothing first.                                           *)
ProxyInit ==
    /\ head \in Streams
    /\ spc = IF head.form = "given" THEN "route" ELSE "first"
    /\ armed = (head.form # "given" /\ ~head.ssh)
    /\ b = 0
    /\ withheld = 0
    /\ hpc = "none"
    /\ frameLen = 0
    /\ copier = [e \in Ends |-> [d \in Directions |-> "off"]]
    /\ wire = [d \in Directions |-> [l \in Links |-> 0]]
    /\ fin = [d \in Directions |-> [l \in Links |-> FALSE]]
    /\ faults = {}
    /\ sent = [d \in Directions |-> 0]
    /\ ended = [d \in Directions |-> FALSE]
    /\ got = [d \in Directions |-> 0]
    /\ eof = [d \in Directions |-> FALSE]

-----------------------------------------------------------------------------
(* The service, up to the copying.                                         *)

(* The deferred Close of front.  Chunks nobody read reset it. *)
ServiceReturns ==
    /\ spc' = "done"
    /\ fin' = [fin EXCEPT !["down"]["front"] = TRUE]
    /\ faults' = IF wire["up"]["front"] > 0 THEN faults \cup {"front"} ELSE faults

(* getSNITarget reads once.  A CONNECT request is answered on front, if    *)
(* that can still be written.                                              *)
ReadFirst ==
    /\ spc = "first"
    /\ wire["up"]["front"] > 0
    /\ \E n \in ReadSizes, answered \in {TRUE, "front" \notin faults} :
        LET first == getSNITarget(head, n, answered) IN
        /\ head' = [u |-> head, n |-> n, first |-> first]
        /\ armed' = (armed /\ ~first.cleared)
        /\ b' = IF first.from < n THEN 1 ELSE 0
        /\ withheld' = IF first.from < n THEN 0 ELSE 1
    /\ wire' = [wire EXCEPT !["up"]["front"] = @ - 1]
    /\ spc' = "route"
    /\ UNCHANGED <<handlerVars, copier, fin, faults, peerVars>>

(* The read fails: nothing was sent before the end, the connection broke   *)
(* or the deadline passed.                                                 *)
ReadFirstFails ==
    /\ spc = "first"
    /\ \/ fin["up"]["front"] /\ wire["up"]["front"] = 0
       \/ "front" \in faults
       \/ armed
    /\ ServiceReturns
    /\ UNCHANGED <<head, armed, b, withheld, handlerVars, copier, wire, peerVars>>

(* No frontend, instance or backend, or the session cannot open a stream.  *)
NoStream ==
    /\ spc = "route"
    /\ ServiceReturns
    /\ UNCHANGED <<head, armed, b, withheld, handlerVars, copier, wire, peerVars>>

(* connectBackend opens a stream; the client's session accepts it.  From   *)
(* here on the instance no longer matters.                                 *)
OpenStream ==
    /\ spc = "route"
    /\ spc' = "frame"
    /\ head' = <<>>
    /\ hpc' = "frame"
    /\ UNCHANGED <<armed, b, withheld, frameLen, linkVars, peerVars>>

(* sendSerializedObject *)
SendFrame ==
    /\ spc = "frame"
    /\ "stream" \notin faults
    /\ frameLen' \in FrameLens
    /\ spc' = "prefix"
    /\ UNCHANGED <<head, armed, b, withheld, hpc, linkVars, peerVars>>

(* A write fails; a write that timed out leaves the stream as it is.  The  *)
(* stream is not closed.                                                   *)
SendFrameFails ==
    /\ spc = "frame"
    /\ ServiceReturns
    /\ UNCHANGED <<head, armed, b, withheld, handlerVars, copier, wire, peerVars>>

(* What was saved of the first read goes ahead of the copiers. *)
SendPrefix ==
    /\ spc = "prefix"
    /\ "stream" \notin faults
    /\ wire' = [wire EXCEPT !["up"]["stream"] = @ + b]
    /\ b' = 0
    /\ copier' = [copier EXCEPT !["service"] = [d \in Directions |-> "copying"]]
    /\ spc' = "copying"
    /\ UNCHANGED <<head, armed, withheld, handlerVars, fin, faults, peerVars>>

SendPrefixFails ==
    /\ spc = "prefix"
    /\ "stream" \in faults
    /\ spc' = "done"
    /\ fin' = [fin EXCEPT !["up"]["stream"] = TRUE, !["down"]["front"] = TRUE]
    /\ faults' = IF wire["up"]["front"] > 0 THEN faults \cup {"front"} ELSE faults
    /\ UNCHANGED <<head, armed, b, withheld, handlerVars, copier, wire, peerVars>>

-----------------------------------------------------------------------------
(* The client, up to the copying.                                          *)

(* The deferred Close of the stream. *)
HandlerReturns ==
    /\ hpc' = "done"
    /\ fin' = [fin EXCEPT !["down"]["stream"] = TRUE]

(* readFrame and Unmarshal *)
ReadFrame ==
    /\ hpc = "frame"
    /\ FrameDecodes(frameLen)
    /\ frameLen > 0
    /\ hpc' = "dial"
    /\ UNCHANGED <<serviceVars, frameLen, linkVars, peerVars>>

(* What arrived is no frame, or the stream ended before it. *)
ReadFrameFails ==
    /\ hpc = "frame"
    /\ \/ frameLen > 0 /\ ~FrameDecodes(frameLen)
       \/ "stream" \in faults
       \/ frameLen = 0 /\ fin["up"]["stream"]
    /\ HandlerReturns
    /\ UNCHANGED <<serviceVars, frameLen, copier, wire, faults, peerVars>>

Dial ==
    /\ hpc = "dial"
    /\ hpc' = "copying"
    /\ copier' = [copier EXCEPT !["client"] = [d \in Directions |-> "copying"]]
    /\ UNCHANGED <<serviceVars, frameLen, wire, fin, faults, peerVars>>

(* There is no target address, or it cannot be resolved or reached. *)
DialFails ==
    /\ hpc = "dial"
    /\ HandlerReturns
    /\ UNCHANGED <<serviceVars, frameLen, copier, wire, faults, peerVars>>

-----------------------------------------------------------------------------
(* copybytes                                                               *)

Copy(e, d) ==
    /\ copier[e][d] = "copying"
    /\ wire[d][Source(e, d)] > 0
    /\ wire[d][Dest(e, d)] < Room
    /\ Dest(e, d) \notin faults
    /\ wire' = [wire EXCEPT ![d][Source(e, d)] = @ - 1, ![d][Dest(e, d)] = @ + 1]
    /\ UNCHANGED <<serviceVars, handlerVars, copier, fin, faults, peerVars>>

(* Mutant: the error of io.Copy is returned without closing anything. *)
EndCopyOpen(e, d) ==
    /\ copier' = [copier EXCEPT ![e][d] = "ended"]
    /\ fin' = fin

(* The end of one direction is passed on; the other one goes on. *)
EndCopy(e, d) ==
    /\ copier' = [copier EXCEPT ![e][d] = "ended"]
    /\ fin' = [fin EXCEPT ![d][Dest(e, d)] = TRUE]

(* The end of the source, or an error on either side.  A write fails when  *)
(* there is something to write.                                            *)
CopySeesEnd(e, d) ==
    \/ fin[d][Source(e, d)] /\ wire[d][Source(e, d)] = 0
    \/ Source(e, d) \in faults
    \/ Dest(e, d) \in faults /\ wire[d][Source(e, d)] > 0

CopyEnds(e, d) ==
    /\ copier[e][d] = "copying"
    /\ CopySeesEnd(e, d)
    /\ EndCopy(e, d)
    /\ UNCHANGED <<serviceVars, handlerVars, wire, faults, peerVars>>

(* The deadline of the first read is still set: Read of front fails, 50 s  *)
(* after the connection was made.                                          *)
DeadlinePasses ==
    /\ armed
    /\ copier["service"]["up"] = "copying"
    /\ EndCopy("service", "up")
    /\ faults' = faults \cup {"deadline"}
    /\ UNCHANGED <<serviceVars, handlerVars, wire, peerVars>>

(* Mutant: one value is received from the channel done. *)
OneDone(e) == \E d \in Directions : copier[e][d] = "ended"

(* Two values are received from the channel done. *)
BothDone(e) == \A d \in Directions : copier[e][d] = "ended"

ServiceEnds ==
    /\ spc = "copying"
    /\ BothDone("service")
    /\ ServiceReturns
    /\ UNCHANGED <<head, armed, b, withheld, handlerVars, copier, wire, peerVars>>

(* The connection to the target is not closed: both its halves are. *)
HandlerEnds ==
    /\ hpc = "copying"
    /\ BothDone("client")
    /\ HandlerReturns
    /\ UNCHANGED <<serviceVars, frameLen, copier, wire, faults, peerVars>>

-----------------------------------------------------------------------------
(* The network and the peers.                                              *)

PeerSends(d) ==
    /\ sent[d] < MaxSent[d]
    /\ ~ended[d]
    /\ FirstLink(d) \notin faults
    /\ d = "up" => spc # "done"
    /\ d = "down" => Dialed
    /\ wire[d][FirstLink(d)] < Room
    /\ wire' = [wire EXCEPT ![d][FirstLink(d)] = @ + 1]
    /\ sent' = [sent EXCEPT ![d] = @ + 1]
    /\ UNCHANGED <<serviceVars, handlerVars, copier, fin, faults, ended, got, eof>>

PeerEnds(d) ==
    /\ ~ended[d]
    /\ d = "down" => Dialed
    /\ ended' = [ended EXCEPT ![d] = TRUE]
    /\ fin' = [fin EXCEPT ![d][FirstLink(d)] = TRUE]
    /\ UNCHANGED <<serviceVars, handlerVars, copier, wire, faults, sent, got, eof>>

PeerReads(d) ==
    /\ wire[d][LastLink(d)] > 0
    /\ LastLink(d) \notin faults
    /\ wire' = [wire EXCEPT ![d][LastLink(d)] = @ - 1]
    /\ got' = [got EXCEPT ![d] = @ + 1]
    /\ UNCHANGED <<serviceVars, handlerVars, copier, fin, faults, sent, ended, eof>>

PeerSeesEnd(d) ==
    /\ fin[d][LastLink(d)]
    /\ wire[d][LastLink(d)] = 0
    /\ LastLink(d) \notin faults
    /\ ~eof[d]
    /\ eof' = [eof EXCEPT ![d] = TRUE]
    /\ UNCHANGED <<serviceVars, handlerVars, linkVars, sent, ended, got>>

(* A peer resets its connection or is unreachable, or the session breaks.  *)
LinkBreaks(l) ==
    /\ l \notin faults
    /\ l = "stream" => hpc # "none"
    /\ l = "target" => Dialed
    /\ faults' = faults \cup {l}
    /\ UNCHANGED <<serviceVars, handlerVars, copier, wire, fin, peerVars>>

(* yamux closes a stream 5 minutes after one end closed it, if the other   *)
(* end has not.                                                            *)
StreamCloseTimeout ==
    /\ fin["up"]["stream"] # fin["down"]["stream"]
    /\ LinkBreaks("stream")

-----------------------------------------------------------------------------

Service ==
    \/ ReadFirst \/ ReadFirstFails \/ NoStream \/ OpenStream
    \/ SendFrame \/ SendFrameFails \/ SendPrefix \/ SendPrefixFails
    \/ ServiceEnds

Handler == ReadFrame \/ ReadFrameFails \/ Dial \/ DialFails \/ HandlerEnds

Copier(e, d) == Copy(e, d) \/ CopyEnds(e, d)

Peer(d) == PeerSends(d) \/ PeerEnds(d) \/ PeerReads(d) \/ PeerSeesEnd(d)

ProxyNext ==
    \/ Service
    \/ Handler
    \/ \E e \in Ends, d \in Directions : Copier(e, d)
    \/ DeadlinePasses
    \/ \E d \in Directions : Peer(d)
    \/ \E l \in Links : LinkBreaks(l)
    \/ StreamCloseTimeout

ProxySpec == ProxyInit /\ [][ProxyNext]_proxyVars

(* The peer that sends in direction d has seen the end of the other one. *)
Answers(d) ==
    /\ PeerEnds(d)
    /\ FirstLink(d) \in faults \/ \E c \in Directions \ {d} : eof[c]

(* Goroutines that can go on do; yamux's timer fires.  The peers read what *)
(* reaches them, and end their side once they have seen the other end      *)
(* close or break: nothing in the code makes up for a peer that does not.  *)
ProxyFairSpec ==
    /\ ProxySpec
    /\ WF_proxyVars(Service)
    /\ WF_proxyVars(Handler)
    /\ \A e \in Ends, d \in Directions : WF_proxyVars(Copier(e, d))
    /\ WF_proxyVars(StreamCloseTimeout)
    /\ \A d \in Directions :
        /\ WF_proxyVars(PeerReads(d))
        /\ WF_proxyVars(PeerSeesEnd(d))
        /\ WF_proxyVars(Answers(d))

-----------------------------------------------------------------------------
(* Properties.                                                             *)

Complete(d) ==
    /\ got[d] = sent[d] - (IF d = "up" THEN withheld ELSE 0)
    /\ ended[d] \/ (d = "down" /\ ~Dialed)

(* A peer that sees a clean end of the stream has everything that was sent *)
(* to it, and the sender did end it: the two directions end in any order,  *)
(* through three connections with half-closes in between, and neither cuts *)
(* the other short.  Broken connections are the exception, and for the     *)
(* target the read deadline that is left set after a PROXY preamble or a   *)
(* CONNECT request: copybytes passes them on as a clean end.               *)
EofMeansComplete ==
    /\ eof["up"] /\ faults = {} => Complete("up")
    /\ eof["down"] /\ faults \subseteq {"deadline"} => Complete("down")

(* The first read is decoded and the backend not yet chosen. *)
Decoded == spc = "route" /\ "first" \in DOMAIN head

(* The instance that the first read names is one the user asked for, or    *)
(* none, wherever the network cut it; and the right one when a ClientHello *)
(* with one host name or a PROXY preamble was all there.  It is not so for *)
(* a stream that is no TLS but whose bytes read like a ClientHello with a  *)
(* name: the TLS decoder is tried first and checks no type.  (The sender   *)
(* of a PROXY preamble cuts the length of a name to one byte; CONNECT is   *)
(* another story, see ConnectHonoured.)                                    *)
InstanceAsAsked ==
    (/\ Decoded /\ head.u.form # "CONNECT" /\ head.u.name.len < ByteSize
     /\ ~TakenForHello(head.u, head.n)) =>
        LET u == head.u
            found == head.first.instance
        IN  /\ found \in Asked(u) \cup {NoText}
            /\ u.form = "PROXY" /\ head.n \in PreambleLen(u)..ProxyLimit => found = u.name
            /\ NamesOneHost(u) /\ head.n >= u.hello => {found} = Asked(u)

(* However a connection ends - either peer, a broken link, a target that   *)
(* cannot be reached, connect data the client refuses - both ends of the   *)
(* tunnel get rid of it.  The exception is a client that waits for connect *)
(* data the service failed to send: the stream is left open.               *)
ConnectionEnds ==
    (ended["up"] \/ ended["down"] \/ faults # {} \/ hpc = "done")
        ~> (spc = "done" /\ (hpc \in {"none", "done"} \/ frameLen = 0))

(* README.md:20 and 33: instances share a port, and "connect -H            *)
(* localhost:8001 instancename 888" selects the one it names: a CONNECT    *)
(* request that arrives in one read gives that name.                       *)
ConnectHonoured ==
    (Decoded /\ head.u.form = "CONNECT" /\ head.n = PreambleLen(head.u)) =>
        head.first.instance = head.u.name

=============================================================================
