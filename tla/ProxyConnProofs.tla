--------------------------- MODULE ProxyConnProofs ---------------------------
(***************************************************************************)
(* Proofs about ProxyConn, for any first bytes of a user, any number of    *)
(* chunks and any room in the connections: a peer that sees a clean end    *)
(* has everything, and the first read names an instance the user asked     *)
(* for, unless a stream that is no TLS reads like a ClientHello.           *)
(***************************************************************************)
EXTENDS ProxyConn, WellFoundedInduction, TLAPS

(* The values the state of the goroutines and the connections can have. *)
ProxyTypeOK ==
    /\ spc \in {"first", "route", "frame", "prefix", "copying", "done"}
    /\ hpc \in {"none", "frame", "dial", "copying", "done"}
    /\ b \in Nat
    /\ withheld \in Nat
    /\ copier \in [Ends -> [Directions -> {"off", "copying", "ended"}]]
    /\ wire \in [Directions -> [Links -> Nat]]
    /\ fin \in [Directions -> [Links -> BOOLEAN]]
    /\ faults \subseteq Links \cup {"deadline"}
    /\ sent \in [Directions -> Nat]
    /\ ended \in [Directions -> BOOLEAN]
    /\ got \in [Directions -> Nat]
    /\ eof \in [Directions -> BOOLEAN]

InFlight(d) == wire[d]["front"] + wire[d]["stream"] + wire[d]["target"]

(* No chunk is lost or made up: what was sent is with its receiver, on one *)
(* of the three connections, saved or withheld by the service.             *)
FlowInv ==
    /\ sent["up"] = got["up"] + InFlight("up") + b + withheld
    /\ sent["down"] = got["down"] + InFlight("down")

(* How far the two ends are, as far as one depends on the other. *)
StageInv ==
    /\ spc = "first" => b = 0 /\ withheld = 0
    /\ spc \in {"first", "route"} => hpc = "none"
    /\ spc \in {"frame", "prefix", "copying"} => hpc # "none"
    /\ spc \in {"first", "route", "frame"} => frameLen = 0
    /\ hpc = "none" => frameLen = 0
    /\ hpc \in {"dial", "copying"} \/ Dialed => frameLen # 0
    /\ \A d \in Directions :
        /\ copier["service"][d] # "off" => spc \in {"copying", "done"} /\ b = 0
        /\ copier["client"][d] # "off" <=> Dialed
    /\ Dialed => hpc \in {"copying", "done"}
    /\ hpc = "copying" => Dialed
    /\ ~Dialed => sent["down"] = 0

(* The client has not dialled and never will. *)
NeverDials ==
    /\ ~Dialed
    /\ hpc = "done" \/ (spc = "done" /\ hpc \in {"none", "frame"} /\ frameLen = 0)

(* A connection that was closed for writing upwards, with nothing broken,  *)
(* has been given everything: the ends follow the chunks.                  *)
UpInv ==
    /\ fin["up"]["front"] => ended["up"]
    /\ faults = {} =>
        /\ fin["up"]["stream"] =>
            copier["service"]["up"] = "ended" /\ wire["up"]["front"] = 0 /\ ended["up"]
        /\ fin["up"]["target"] =>
            copier["client"]["up"] = "ended" /\ wire["up"]["stream"] = 0 /\ fin["up"]["stream"]
        /\ eof["up"] => fin["up"]["target"] /\ wire["up"]["target"] = 0

(* So it is downwards, unless the client never dials: then both ends close *)
(* without anything having been sent.                                      *)
DownInv ==
    /\ fin["down"]["target"] => ended["down"]
    /\ copier["client"]["down"] = "ended" => fin["down"]["stream"]
    /\ copier["service"]["down"] = "ended" => fin["down"]["front"]
    /\ faults \subseteq {"deadline"} =>
        /\ fin["down"]["stream"] =>
            \/ NeverDials
            \/ copier["client"]["down"] = "ended" /\ wire["down"]["target"] = 0 /\ ended["down"]
        /\ fin["down"]["front"] =>
            \/ NeverDials
            \/ /\ copier["service"]["down"] = "ended" /\ wire["down"]["stream"] = 0
               /\ fin["down"]["stream"]
        /\ eof["down"] => fin["down"]["front"] /\ wire["down"]["front"] = 0

(* The inductive invariant. *)
ProxyInv == ProxyTypeOK /\ FlowInv /\ StageInv /\ UpInv /\ DownInv

-----------------------------------------------------------------------------
(* The service, up to the copying. *)

(* The chunk of the first read is saved or withheld. *)
LEMMA ReadFirstKeeps ==
    ASSUME ProxyInv, ReadFirst
    PROVE  ProxyInv'
  <1>. USE DEF ReadFirst, serviceVars, handlerVars, linkVars, peerVars, Ends, Directions, Links
  <1>1. ProxyTypeOK'
    BY DEF ProxyInv, ProxyTypeOK
  <1>2. FlowInv'
    BY DEF ProxyInv, ProxyTypeOK, FlowInv, InFlight, StageInv
  <1>3. StageInv'
    BY DEF ProxyInv, ProxyTypeOK, StageInv, Dialed
  <1>4. UpInv'
    BY DEF ProxyInv, ProxyTypeOK, StageInv, UpInv
  <1>5. DownInv'
    BY DEF ProxyInv, ProxyTypeOK, StageInv, DownInv, NeverDials, Dialed
  <1>. QED BY <1>1, <1>2, <1>3, <1>4, <1>5 DEF ProxyInv

(* A connection whose first read fails is closed before the client hears   *)
(* of it.                                                                  *)
LEMMA ReadFirstFailsKeeps ==
    ASSUME ProxyInv, ReadFirstFails
    PROVE  ProxyInv'
  <1>. USE DEF ReadFirstFails, ServiceReturns, serviceVars, handlerVars, linkVars, peerVars, Ends,
               Directions, Links
  <1>1. ProxyTypeOK'
    BY DEF ProxyInv, ProxyTypeOK
  <1>2. FlowInv'
    BY DEF ProxyInv, ProxyTypeOK, FlowInv, InFlight, StageInv
  <1>3. StageInv'
    BY DEF ProxyInv, ProxyTypeOK, StageInv, Dialed
  <1>4. UpInv'
    BY DEF ProxyInv, ProxyTypeOK, StageInv, UpInv
  <1>5. DownInv'
    BY DEF ProxyInv, ProxyTypeOK, StageInv, DownInv, NeverDials, Dialed
  <1>. QED BY <1>1, <1>2, <1>3, <1>4, <1>5 DEF ProxyInv

(* So is one for which no stream can be opened. *)
LEMMA NoStreamKeeps ==
    ASSUME ProxyInv, NoStream
    PROVE  ProxyInv'
  <1>. USE DEF NoStream, ServiceReturns, serviceVars, handlerVars, linkVars, peerVars, Ends,
               Directions, Links
  <1>1. ProxyTypeOK'
    BY DEF ProxyInv, ProxyTypeOK
  <1>2. FlowInv'
    BY DEF ProxyInv, ProxyTypeOK, FlowInv, InFlight, StageInv
  <1>3. StageInv'
    BY DEF ProxyInv, ProxyTypeOK, StageInv, Dialed
  <1>4. UpInv'
    BY DEF ProxyInv, ProxyTypeOK, StageInv, UpInv
  <1>5. DownInv'
    BY DEF ProxyInv, ProxyTypeOK, StageInv, DownInv, NeverDials, Dialed
  <1>. QED BY <1>1, <1>2, <1>3, <1>4, <1>5 DEF ProxyInv

(* The client's handler starts, and has received nothing. *)
LEMMA OpenStreamKeeps ==
    ASSUME ProxyInv, OpenStream
    PROVE  ProxyInv'
  <1>. USE DEF OpenStream, serviceVars, handlerVars, linkVars, peerVars, Ends, Directions, Links
  <1>1. ProxyTypeOK'
    BY DEF ProxyInv, ProxyTypeOK
  <1>2. FlowInv'
    BY DEF ProxyInv, ProxyTypeOK, FlowInv, InFlight, StageInv
  <1>3. StageInv'
    BY DEF ProxyInv, ProxyTypeOK, StageInv, Dialed
  <1>4. UpInv'
    BY DEF ProxyInv, ProxyTypeOK, StageInv, UpInv
  <1>5. DownInv'
    BY DEF ProxyInv, ProxyTypeOK, StageInv, DownInv, NeverDials, Dialed
  <1>. QED BY <1>1, <1>2, <1>3, <1>4, <1>5 DEF ProxyInv

(* The connect data is sent once. *)
LEMMA SendFrameKeeps ==
    ASSUME ProxyInv, SendFrame
    PROVE  ProxyInv'
  <1>. USE DEF SendFrame, serviceVars, handlerVars, linkVars, peerVars, Ends, Directions, Links
  <1>1. ProxyTypeOK'
    BY DEF ProxyInv, ProxyTypeOK
  <1>2. FlowInv'
    BY DEF ProxyInv, ProxyTypeOK, FlowInv, InFlight, StageInv
  <1>3. StageInv'
    BY DEF ProxyInv, ProxyTypeOK, StageInv, Dialed
  <1>4. UpInv'
    BY DEF ProxyInv, ProxyTypeOK, StageInv, UpInv
  <1>5. DownInv'
    BY DEF ProxyInv, ProxyTypeOK, StageInv, DownInv, NeverDials, Dialed
  <1>. QED BY <1>1, <1>2, <1>3, <1>4, <1>5 DEF ProxyInv

(* Without connect data the client never dials. *)
LEMMA SendFrameFailsKeeps ==
    ASSUME ProxyInv, SendFrameFails
    PROVE  ProxyInv'
  <1>. USE DEF SendFrameFails, ServiceReturns, serviceVars, handlerVars, linkVars, peerVars, Ends,
               Directions, Links
  <1>1. ProxyTypeOK'
    BY DEF ProxyInv, ProxyTypeOK
  <1>2. FlowInv'
    BY DEF ProxyInv, ProxyTypeOK, FlowInv, InFlight, StageInv
  <1>3. StageInv'
    BY DEF ProxyInv, ProxyTypeOK, StageInv, Dialed
  <1>4. UpInv'
    BY DEF ProxyInv, ProxyTypeOK, StageInv, UpInv
  <1>5. DownInv'
    BY DEF ProxyInv, ProxyTypeOK, StageInv, DownInv, NeverDials, Dialed
  <1>. QED BY <1>1, <1>2, <1>3, <1>4, <1>5 DEF ProxyInv

(* What was saved goes ahead of what the copier will pass on. *)
LEMMA SendPrefixKeeps ==
    ASSUME ProxyInv, SendPrefix
    PROVE  ProxyInv'
  <1>. USE DEF SendPrefix, serviceVars, handlerVars, linkVars, peerVars, Ends, Directions, Links
  <1>1. ProxyTypeOK'
    BY DEF ProxyInv, ProxyTypeOK
  <1>2. FlowInv'
    BY DEF ProxyInv, ProxyTypeOK, FlowInv, InFlight, StageInv
  <1>3. StageInv'
    BY DEF ProxyInv, ProxyTypeOK, StageInv, Dialed
  <1>4. UpInv'
    BY DEF ProxyInv, ProxyTypeOK, StageInv, UpInv
  <1>5. DownInv'
    BY DEF ProxyInv, ProxyTypeOK, StageInv, DownInv, NeverDials, Dialed
  <1>. QED BY <1>1, <1>2, <1>3, <1>4, <1>5 DEF ProxyInv

(* The stream is broken: nothing is promised. *)
LEMMA SendPrefixFailsKeeps ==
    ASSUME ProxyInv, SendPrefixFails
    PROVE  ProxyInv'
  <1>. USE DEF SendPrefixFails, serviceVars, handlerVars, linkVars, peerVars, Ends, Directions,
               Links
  <1>1. ProxyTypeOK'
    BY DEF ProxyInv, ProxyTypeOK
  <1>2. FlowInv'
    BY DEF ProxyInv, ProxyTypeOK, FlowInv, InFlight, StageInv
  <1>3. StageInv'
    BY DEF ProxyInv, ProxyTypeOK, StageInv, Dialed
  <1>4. UpInv'
    BY DEF ProxyInv, ProxyTypeOK, StageInv, UpInv
  <1>5. DownInv'
    BY DEF ProxyInv, ProxyTypeOK, StageInv, DownInv, NeverDials, Dialed
  <1>. QED BY <1>1, <1>2, <1>3, <1>4, <1>5 DEF ProxyInv

(* Both directions have ended, so front was closed for writing before. *)
LEMMA ServiceEndsKeeps ==
    ASSUME ProxyInv, ServiceEnds
    PROVE  ProxyInv'
  <1>. USE DEF ServiceEnds, ServiceReturns, BothDone, serviceVars, handlerVars, linkVars, peerVars,
               Ends, Directions, Links
  <1>1. ProxyTypeOK'
    BY DEF ProxyInv, ProxyTypeOK
  <1>2. FlowInv'
    BY DEF ProxyInv, ProxyTypeOK, FlowInv, InFlight, StageInv
  <1>3. StageInv'
    BY DEF ProxyInv, ProxyTypeOK, StageInv, Dialed
  <1>4. UpInv'
    BY DEF ProxyInv, ProxyTypeOK, StageInv, UpInv
  <1>5. DownInv'
    BY DEF ProxyInv, ProxyTypeOK, StageInv, DownInv, NeverDials, Dialed
  <1>. QED BY <1>1, <1>2, <1>3, <1>4, <1>5 DEF ProxyInv

-----------------------------------------------------------------------------
(* The client, up to the copying. *)

(* The connect data is all there. *)
LEMMA ReadFrameKeeps ==
    ASSUME ProxyInv, ReadFrame
    PROVE  ProxyInv'
  <1>. USE DEF ReadFrame, serviceVars, handlerVars, linkVars, peerVars, Ends,
               Directions, Links
  <1>1. ProxyTypeOK'
    BY DEF ProxyInv, ProxyTypeOK
  <1>2. FlowInv'
    BY DEF ProxyInv, ProxyTypeOK, FlowInv, InFlight, StageInv
  <1>3. StageInv'
    BY DEF ProxyInv, ProxyTypeOK, StageInv, Dialed
  <1>4. UpInv'
    BY DEF ProxyInv, ProxyTypeOK, StageInv, UpInv
  <1>5. DownInv'
    BY DEF ProxyInv, ProxyTypeOK, StageInv, DownInv, NeverDials, Dialed
  <1>. QED BY <1>1, <1>2, <1>3, <1>4, <1>5 DEF ProxyInv

(* The stream is closed, and the client never dials. *)
LEMMA ReadFrameFailsKeeps ==
    ASSUME ProxyInv, ReadFrameFails
    PROVE  ProxyInv'
  <1>. USE DEF ReadFrameFails, HandlerReturns, serviceVars, handlerVars, linkVars, peerVars, Ends,
               Directions, Links
  <1>1. ProxyTypeOK'
    BY DEF ProxyInv, ProxyTypeOK
  <1>2. FlowInv'
    BY DEF ProxyInv, ProxyTypeOK, FlowInv, InFlight, StageInv
  <1>3. StageInv'
    BY DEF ProxyInv, ProxyTypeOK, StageInv, Dialed
  <1>4. UpInv'
    BY DEF ProxyInv, ProxyTypeOK, StageInv, UpInv
  <1>5. DownInv'
    BY DEF ProxyInv, ProxyTypeOK, StageInv, DownInv, NeverDials, Dialed
  <1>. QED BY <1>1, <1>2, <1>3, <1>4, <1>5 DEF ProxyInv

(* From here on the target may send. *)
LEMMA DialKeeps ==
    ASSUME ProxyInv, Dial
    PROVE  ProxyInv'
  <1>. USE DEF Dial, serviceVars, handlerVars, linkVars, peerVars, Ends, Directions, Links
  <1>1. ProxyTypeOK'
    BY DEF ProxyInv, ProxyTypeOK
  <1>2. FlowInv'
    BY DEF ProxyInv, ProxyTypeOK, FlowInv, InFlight, StageInv
  <1>3. StageInv'
    BY DEF ProxyInv, ProxyTypeOK, StageInv, Dialed
  <1>4. UpInv'
    BY DEF ProxyInv, ProxyTypeOK, StageInv, UpInv
  <1>5. DownInv'
    BY DEF ProxyInv, ProxyTypeOK, StageInv, DownInv, NeverDials, Dialed
  <1>. QED BY <1>1, <1>2, <1>3, <1>4, <1>5 DEF ProxyInv

(* The stream is closed, and the client will not dial again. *)
LEMMA DialFailsKeeps ==
    ASSUME ProxyInv, DialFails
    PROVE  ProxyInv'
  <1>. USE DEF DialFails, HandlerReturns, serviceVars, handlerVars, linkVars, peerVars, Ends,
               Directions, Links
  <1>1. ProxyTypeOK'
    BY DEF ProxyInv, ProxyTypeOK
  <1>2. FlowInv'
    BY DEF ProxyInv, ProxyTypeOK, FlowInv, InFlight, StageInv
  <1>3. StageInv'
    BY DEF ProxyInv, ProxyTypeOK, StageInv, Dialed
  <1>4. UpInv'
    BY DEF ProxyInv, ProxyTypeOK, StageInv, UpInv
  <1>5. DownInv'
    BY DEF ProxyInv, ProxyTypeOK, StageInv, DownInv, NeverDials, Dialed
  <1>. QED BY <1>1, <1>2, <1>3, <1>4, <1>5 DEF ProxyInv

(* Both directions have ended, so the stream was closed for writing        *)
(* before.                                                                 *)
LEMMA HandlerEndsKeeps ==
    ASSUME ProxyInv, HandlerEnds
    PROVE  ProxyInv'
  <1>. USE DEF HandlerEnds, HandlerReturns, BothDone, serviceVars, handlerVars, linkVars, peerVars,
               Ends, Directions, Links
  <1>1. ProxyTypeOK'
    BY DEF ProxyInv, ProxyTypeOK
  <1>2. FlowInv'
    BY DEF ProxyInv, ProxyTypeOK, FlowInv, InFlight, StageInv
  <1>3. StageInv'
    BY DEF ProxyInv, ProxyTypeOK, StageInv, Dialed
  <1>4. UpInv'
    BY DEF ProxyInv, ProxyTypeOK, StageInv, UpInv
  <1>5. DownInv'
    BY DEF ProxyInv, ProxyTypeOK, StageInv, DownInv, NeverDials, Dialed
  <1>. QED BY <1>1, <1>2, <1>3, <1>4, <1>5 DEF ProxyInv

-----------------------------------------------------------------------------
(* copybytes, the network and the peers. *)

(* A chunk is passed on, to a connection that was not closed for writing. *)
LEMMA CopyKeeps ==
    ASSUME ProxyInv, NEW e \in Ends, NEW d \in Directions, Copy(e, d)
    PROVE  ProxyInv'
  <1>. USE DEF Copy, Source, Dest, serviceVars, handlerVars, linkVars, peerVars, Ends, Directions,
               Links
  <1>1. ProxyTypeOK'
    <2>1. wire' \in [Directions -> [Links -> Nat]]
      <3>1. CASE d = "up"
        BY <3>1 DEF ProxyInv, ProxyTypeOK
      <3>2. CASE d = "down"
        BY <3>2 DEF ProxyInv, ProxyTypeOK
      <3>. QED BY <3>1, <3>2
    <2>. QED BY <2>1 DEF ProxyInv, ProxyTypeOK
  <1>2. FlowInv'
    <2>1. /\ InFlight("up") \in Nat /\ InFlight("down") \in Nat
          /\ UNCHANGED <<sent, got, b, withheld>>
      BY DEF ProxyInv, ProxyTypeOK, InFlight
    <2>2. InFlight("up")' = InFlight("up") /\ InFlight("down")' = InFlight("down")
      <3>1. CASE d = "up"
        BY <3>1 DEF ProxyInv, ProxyTypeOK, InFlight
      <3>2. CASE d = "down"
        BY <3>2 DEF ProxyInv, ProxyTypeOK, InFlight
      <3>. QED BY <3>1, <3>2
    <2>. QED BY <2>1, <2>2 DEF ProxyInv, FlowInv
  <1>3. StageInv'
    BY DEF ProxyInv, ProxyTypeOK, StageInv, Dialed
  <1>4. UpInv'
    <2>1. CASE d = "down"
      <3>1. wire'["up"] = wire["up"]
        BY <2>1 DEF ProxyInv, ProxyTypeOK
      <3>. QED BY <3>1 DEF ProxyInv, UpInv
    <2>2. CASE d = "up" /\ e = "service"
      BY <2>2 DEF ProxyInv, ProxyTypeOK, StageInv, UpInv
    <2>3. CASE d = "up" /\ e = "client"
      BY <2>3 DEF ProxyInv, ProxyTypeOK, StageInv, UpInv
    <2>. QED BY <2>1, <2>2, <2>3
  <1>5. DownInv'
    <2>1. CASE d = "up"
      BY <2>1 DEF ProxyInv, ProxyTypeOK, DownInv, NeverDials, Dialed
    <2>2. CASE d = "down"
      <3>1. ~NeverDials
        BY <2>2 DEF ProxyInv, ProxyTypeOK, FlowInv, InFlight, StageInv, NeverDials
      <3>2. CASE e = "service"
        BY <2>2, <3>1, <3>2 DEF ProxyInv, ProxyTypeOK, DownInv, NeverDials, Dialed
      <3>3. CASE e = "client"
        BY <2>2, <3>1, <3>3 DEF ProxyInv, ProxyTypeOK, DownInv, NeverDials, Dialed
      <3>. QED BY <3>2, <3>3
    <2>. QED BY <2>1, <2>2
  <1>. QED BY <1>1, <1>2, <1>3, <1>4, <1>5 DEF ProxyInv

(* Without a fault the end is passed on when the source has ended and is   *)
(* empty.                                                                  *)
LEMMA CopyEndsKeeps ==
    ASSUME ProxyInv, NEW e \in Ends, NEW d \in Directions, CopyEnds(e, d)
    PROVE  ProxyInv'
  <1>. USE DEF CopyEnds, CopySeesEnd, EndCopy, Source, Dest, serviceVars, handlerVars, linkVars,
               peerVars, Ends, Directions, Links
  <1>1. ProxyTypeOK'
    BY DEF ProxyInv, ProxyTypeOK
  <1>2. FlowInv'
    BY DEF ProxyInv, ProxyTypeOK, FlowInv, InFlight, StageInv
  <1>3. StageInv'
    BY DEF ProxyInv, ProxyTypeOK, StageInv, Dialed
  <1>4. UpInv'
    BY DEF ProxyInv, ProxyTypeOK, StageInv, UpInv
  <1>5. DownInv'
    BY DEF ProxyInv, ProxyTypeOK, StageInv, DownInv, NeverDials, Dialed
  <1>. QED BY <1>1, <1>2, <1>3, <1>4, <1>5 DEF ProxyInv

(* A deadline that cuts the way up counts as a fault; the way down goes    *)
(* on.                                                                     *)
LEMMA DeadlinePassesKeeps ==
    ASSUME ProxyInv, DeadlinePasses
    PROVE  ProxyInv'
  <1>. USE DEF DeadlinePasses, EndCopy, Dest, serviceVars, handlerVars, linkVars, peerVars, Ends,
               Directions, Links
  <1>1. ProxyTypeOK'
    BY DEF ProxyInv, ProxyTypeOK
  <1>2. FlowInv'
    BY DEF ProxyInv, ProxyTypeOK, FlowInv, InFlight, StageInv
  <1>3. StageInv'
    BY DEF ProxyInv, ProxyTypeOK, StageInv, Dialed
  <1>4. UpInv'
    BY DEF ProxyInv, ProxyTypeOK, StageInv, UpInv
  <1>5. DownInv'
    BY DEF ProxyInv, ProxyTypeOK, StageInv, DownInv, NeverDials, Dialed
  <1>. QED BY <1>1, <1>2, <1>3, <1>4, <1>5 DEF ProxyInv

(* A peer that ended its side sends nothing more. *)
LEMMA PeerSendsKeeps ==
    ASSUME ProxyInv, NEW d \in Directions, PeerSends(d)
    PROVE  ProxyInv'
  <1>. USE DEF PeerSends, FirstLink, Dialed, serviceVars, handlerVars, linkVars, peerVars, Ends,
               Directions, Links
  <1>1. ProxyTypeOK'
    BY DEF ProxyInv, ProxyTypeOK
  <1>2. FlowInv'
    BY DEF ProxyInv, ProxyTypeOK, FlowInv, InFlight, StageInv
  <1>3. StageInv'
    BY DEF ProxyInv, ProxyTypeOK, StageInv, Dialed
  <1>4. UpInv'
    BY DEF ProxyInv, ProxyTypeOK, StageInv, UpInv
  <1>5. DownInv'
    BY DEF ProxyInv, ProxyTypeOK, StageInv, DownInv, NeverDials, Dialed
  <1>. QED BY <1>1, <1>2, <1>3, <1>4, <1>5 DEF ProxyInv

(* A peer ends its side once. *)
LEMMA PeerEndsKeeps ==
    ASSUME ProxyInv, NEW d \in Directions, PeerEnds(d)
    PROVE  ProxyInv'
  <1>. USE DEF PeerEnds, FirstLink, Dialed, serviceVars, handlerVars, linkVars, peerVars, Ends,
               Directions, Links
  <1>1. ProxyTypeOK'
    BY DEF ProxyInv, ProxyTypeOK
  <1>2. FlowInv'
    BY DEF ProxyInv, ProxyTypeOK, FlowInv, InFlight, StageInv
  <1>3. StageInv'
    BY DEF ProxyInv, ProxyTypeOK, StageInv, Dialed
  <1>4. UpInv'
    BY DEF ProxyInv, ProxyTypeOK, StageInv, UpInv
  <1>5. DownInv'
    BY DEF ProxyInv, ProxyTypeOK, StageInv, DownInv, NeverDials, Dialed
  <1>. QED BY <1>1, <1>2, <1>3, <1>4, <1>5 DEF ProxyInv

(* A chunk arrives. *)
LEMMA PeerReadsKeeps ==
    ASSUME ProxyInv, NEW d \in Directions, PeerReads(d)
    PROVE  ProxyInv'
  <1>. USE DEF PeerReads, LastLink, serviceVars, handlerVars, linkVars, peerVars, Ends, Directions,
               Links
  <1>1. ProxyTypeOK'
    BY DEF ProxyInv, ProxyTypeOK
  <1>2. FlowInv'
    BY DEF ProxyInv, ProxyTypeOK, FlowInv, InFlight, StageInv
  <1>3. StageInv'
    BY DEF ProxyInv, ProxyTypeOK, StageInv, Dialed
  <1>4. UpInv'
    BY DEF ProxyInv, ProxyTypeOK, StageInv, UpInv
  <1>5. DownInv'
    <2>1. d = "up" => wire'["down"] = wire["down"]
      BY DEF ProxyInv, ProxyTypeOK
    <2>2. d = "down" => /\ wire["down"]["front"] > 0
                        /\ \A l \in {"stream", "target"} : wire'["down"][l] = wire["down"][l]
      BY DEF ProxyInv, ProxyTypeOK
    <2>. QED BY <2>1, <2>2 DEF ProxyInv, ProxyTypeOK, DownInv, NeverDials, Dialed
  <1>. QED BY <1>1, <1>2, <1>3, <1>4, <1>5 DEF ProxyInv

(* A peer sees the end after the last chunk. *)
LEMMA PeerSeesEndKeeps ==
    ASSUME ProxyInv, NEW d \in Directions, PeerSeesEnd(d)
    PROVE  ProxyInv'
  <1>. USE DEF PeerSeesEnd, LastLink, serviceVars, handlerVars, linkVars, peerVars, Ends,
               Directions, Links
  <1>1. ProxyTypeOK'
    BY DEF ProxyInv, ProxyTypeOK
  <1>2. FlowInv'
    BY DEF ProxyInv, ProxyTypeOK, FlowInv, InFlight, StageInv
  <1>3. StageInv'
    BY DEF ProxyInv, ProxyTypeOK, StageInv, Dialed
  <1>4. UpInv'
    BY DEF ProxyInv, ProxyTypeOK, StageInv, UpInv
  <1>5. DownInv'
    BY DEF ProxyInv, ProxyTypeOK, StageInv, DownInv, NeverDials, Dialed
  <1>. QED BY <1>1, <1>2, <1>3, <1>4, <1>5 DEF ProxyInv

(* A broken connection loses nothing that is counted, and voids the        *)
(* promise.                                                                *)
LEMMA LinkBreaksKeeps ==
    ASSUME ProxyInv, NEW l \in Links, LinkBreaks(l)
    PROVE  ProxyInv'
  <1>. USE DEF LinkBreaks, serviceVars, handlerVars, linkVars, peerVars, Ends, Directions, Links
  <1>1. ProxyTypeOK'
    BY DEF ProxyInv, ProxyTypeOK
  <1>2. FlowInv'
    BY DEF ProxyInv, ProxyTypeOK, FlowInv, InFlight, StageInv
  <1>3. StageInv'
    BY DEF ProxyInv, ProxyTypeOK, StageInv, Dialed
  <1>4. UpInv'
    BY DEF ProxyInv, ProxyTypeOK, StageInv, UpInv
  <1>5. DownInv'
    BY DEF ProxyInv, ProxyTypeOK, StageInv, DownInv, NeverDials, Dialed
  <1>. QED BY <1>1, <1>2, <1>3, <1>4, <1>5 DEF ProxyInv

-----------------------------------------------------------------------------

(* The inductive invariant holds of every proxied connection. *)
THEOREM ProxyInvariance == ProxySpec => []ProxyInv
  <1>1. ProxyInit => ProxyInv
    BY DEF ProxyInit, ProxyInv, ProxyTypeOK, FlowInv, InFlight, StageInv, UpInv, DownInv,
           NeverDials, Dialed, Ends, Directions, Links
  <1>2. ProxyInv /\ [ProxyNext]_proxyVars => ProxyInv'
    <2>. SUFFICES ASSUME ProxyInv, [ProxyNext]_proxyVars PROVE ProxyInv'
      OBVIOUS
    <2>1. CASE Service
      BY <2>1, ReadFirstKeeps, ReadFirstFailsKeeps, NoStreamKeeps, OpenStreamKeeps,
         SendFrameKeeps, SendFrameFailsKeeps, SendPrefixKeeps, SendPrefixFailsKeeps,
         ServiceEndsKeeps
      DEF Service
    <2>2. CASE Handler
      BY <2>2, ReadFrameKeeps, ReadFrameFailsKeeps, DialKeeps, DialFailsKeeps, HandlerEndsKeeps
      DEF Handler
    <2>3. ASSUME NEW e \in Ends, NEW d \in Directions, Copier(e, d) PROVE ProxyInv'
      BY <2>3, CopyKeeps, CopyEndsKeeps DEF Copier
    <2>4. ASSUME NEW d \in Directions, Peer(d) PROVE ProxyInv'
      BY <2>4, PeerSendsKeeps, PeerEndsKeeps, PeerReadsKeeps, PeerSeesEndKeeps DEF Peer
    <2>5. CASE StreamCloseTimeout
      BY <2>5, LinkBreaksKeeps DEF StreamCloseTimeout, Links
    <2>6. CASE UNCHANGED proxyVars
      <3>. USE <2>6 DEF proxyVars, serviceVars, handlerVars, linkVars, peerVars
      <3>1. ProxyTypeOK'
        BY DEF ProxyInv, ProxyTypeOK
      <3>2. FlowInv'
        BY DEF ProxyInv, FlowInv, InFlight
      <3>3. StageInv'
        BY DEF ProxyInv, StageInv, Dialed
      <3>4. UpInv' /\ DownInv'
        BY DEF ProxyInv, UpInv, DownInv, NeverDials, Dialed
      <3>. QED BY <3>1, <3>2, <3>3, <3>4 DEF ProxyInv
    <2>. QED
      BY <2>1, <2>2, <2>3, <2>4, <2>5, <2>6, DeadlinePassesKeeps, LinkBreaksKeeps DEF ProxyNext
  <1>. QED BY <1>1, <1>2, PTL DEF ProxySpec

(* A peer that sees a clean end of its connection has all that was sent to *)
(* it: four copiers over three connections pass the ends on in the order   *)
(* of the chunks, whatever the two directions do to each other.            *)
THEOREM CleanEndIsComplete == ProxySpec => []EofMeansComplete
  <1>1. ASSUME ProxyInv PROVE EofMeansComplete
    <2>1. ASSUME eof["up"], faults = {} PROVE Complete("up")
      BY <1>1, <2>1
      DEF ProxyInv, ProxyTypeOK, FlowInv, InFlight, StageInv, UpInv, Complete, Directions, Links
    <2>2. ASSUME eof["down"], faults \subseteq {"deadline"} PROVE Complete("down")
      BY <1>1, <2>2
      DEF ProxyInv, ProxyTypeOK, FlowInv, InFlight, StageInv, DownInv, NeverDials, Complete,
          Directions, Links
    <2>. QED BY <2>1, <2>2 DEF EofMeansComplete
  <1>. QED BY <1>1, ProxyInvariance, PTL

-----------------------------------------------------------------------------
(* The scan of a ClientHello, by induction on the number of names and of   *)
(* extensions it has seen.                                                 *)

(* Induction for a set, from the least number that is not in it. *)
LEMMA SetInduction ==
    ASSUME NEW S, 0 \in S, \A n \in Nat : n \in S => n + 1 \in S
    PROVE  Nat \subseteq S
  <1>. DEFINE T == Nat \ S
  <1>1. SUFFICES ASSUME T # {} PROVE FALSE
    OBVIOUS
  <1>2. PICK m \in T : \A k \in T : ~(<<k, m>> \in OpToRel(<, Nat))
    <2>1. T \subseteq Nat
      OBVIOUS
    <2>. HIDE DEF T
    <2>. QED BY <1>1, <2>1, WFMin, NatLessThanWellFounded
  <1>3. m # 0 /\ m - 1 \in Nat /\ m - 1 < m
    OBVIOUS
  <1>4. m - 1 \notin T
    BY <1>2, <1>3 DEF OpToRel
  <1>. QED BY <1>3, <1>4

(* What a scan can have found. *)
Scans == [name : Texts, bad : BOOLEAN]

(* The recursive definitions of SNITarget define functions. *)
LEMMA NameScanExists ==
    ASSUME NEW acc, NEW names, NEW n \in Nat
    PROVE  \E f : f = [j \in 0..n |-> IF j = 0 THEN acc ELSE ScanName(f[j - 1], names[j])]
  <1>. DEFINE Scan(f, m) == f = [j \in 0..m |-> IF j = 0 THEN acc ELSE ScanName(f[j - 1], names[j])]
              S == {m \in Nat : \E f : Scan(f, m)}
  <1>1. 0 \in S
    <2>1. Scan([j \in 0..0 |-> acc], 0)
      OBVIOUS
    <2>. QED BY <2>1
  <1>2. ASSUME NEW m \in Nat, m \in S PROVE m + 1 \in S
    <2>1. PICK f : Scan(f, m)
      BY <1>2
    <2>. DEFINE g == [j \in 0..(m + 1) |-> IF j <= m THEN f[j] ELSE ScanName(f[m], names[j])]
    <2>2. \A j \in 0..(m + 1) : g[j] = IF j = 0 THEN acc ELSE ScanName(g[j - 1], names[j])
      BY <2>1
    <2>3. Scan(g, m + 1)
      BY <2>2
    <2>. HIDE DEF g, Scan
    <2>. QED BY <2>3
  <1>3. Nat \subseteq S
    <2>. HIDE DEF S
    <2>. QED BY <1>1, <1>2, SetInduction
  <1>. QED BY <1>3

(* A scan of names goes from one to the next. *)
LEMMA NameScan ==
    ASSUME NEW acc, NEW names \in Seq(Names)
    PROVE  \E scan : /\ scan[0] = acc
                     /\ \A j \in 1..Len(names) : scan[j] = ScanName(scan[j - 1], names[j])
                     /\ ScanNames(acc, names) = scan[Len(names)]
  <1>. DEFINE F(f) == [j \in 0..Len(names) |->
                            IF j = 0 THEN acc ELSE ScanName(f[j - 1], names[j])]
              scan == CHOOSE f : f = F(f)
  <1>0. Len(names) \in Nat
    OBVIOUS
  <1>1. scan = F(scan)
    BY <1>0, NameScanExists
  <1>2. ScanNames(acc, names) = scan[Len(names)]
    BY DEF ScanNames
  <1>. HIDE DEF scan
  <1>3. scan[0] = acc /\ \A j \in 1..Len(names) : scan[j] = ScanName(scan[j - 1], names[j])
    BY <1>0, <1>1
  <1>. QED BY <1>2, <1>3

(* One name. *)
LEMMA ScanNameSound ==
    ASSUME NEW acc \in Scans, NEW e \in Names
    PROVE  /\ ScanName(acc, e) \in Scans
           /\ \/ ScanName(acc, e).name \in {NoText, acc.name}
              \/ e.type = 0 /\ ScanName(acc, e).name = e.text
  BY DEF ScanName, Malformed, Scans, Names, Texts

(* A list of names adds none that is not a host name of the list. *)
LEMMA ScanNamesSound ==
    ASSUME NEW acc \in Scans, NEW names \in Seq(Names)
    PROVE  /\ ScanNames(acc, names) \in Scans
           /\ ScanNames(acc, names).name \in {NoText, acc.name} \cup HostTexts(names)
  <1>1. PICK scan : /\ scan[0] = acc
                    /\ \A j \in 1..Len(names) : scan[j] = ScanName(scan[j - 1], names[j])
                    /\ ScanNames(acc, names) = scan[Len(names)]
    BY NameScan
  <1>. DEFINE Sound(x) == x \in Scans /\ x.name \in {NoText, acc.name} \cup HostTexts(names)
              S == {j \in Nat : j <= Len(names) => Sound(scan[j])}
  <1>2. 0 \in S
    BY <1>1
  <1>3. ASSUME NEW n \in Nat, n \in S PROVE n + 1 \in S
    <2>1. SUFFICES ASSUME n + 1 \in 1..Len(names) PROVE Sound(scan[n + 1])
      OBVIOUS
    <2>2. Sound(scan[n]) /\ scan[n + 1] = ScanName(scan[n], names[n + 1])
      BY <1>1, <1>3, <2>1
    <2>3. names[n + 1] \in Names /\ n + 1 \in DOMAIN names
      BY <2>1
    <2>4. names[n + 1].type = 0 => names[n + 1].text \in HostTexts(names)
      BY <2>3 DEF HostTexts, Hosts
    <2>. QED BY <2>2, <2>3, <2>4, ScanNameSound
  <1>4. Len(names) \in S
    <2>. HIDE DEF S
    <2>. QED BY <1>2, <1>3, SetInduction
  <1>. QED BY <1>1, <1>4

(* A list with at most one host name, at J, and none that is empty. *)
LEMMA ScanNamesExact ==
    ASSUME NEW acc \in Scans, ~acc.bad, NEW names \in Seq(Names), NEW J \in Nat \ {0},
           \A j \in DOMAIN names : names[j].text # NoText /\ (names[j].type = 0 <=> j = J),
           J \in DOMAIN names => acc.name = NoText /\ ~names[J].dot
    PROVE  /\ ScanNames(acc, names) \in Scans /\ ~ScanNames(acc, names).bad
           /\ ScanNames(acc, names).name = IF J \in DOMAIN names THEN names[J].text ELSE acc.name
  <1>1. PICK scan : /\ scan[0] = acc
                    /\ \A j \in 1..Len(names) : scan[j] = ScanName(scan[j - 1], names[j])
                    /\ ScanNames(acc, names) = scan[Len(names)]
    BY NameScan
  <1>. DEFINE Exact(x, j) == /\ x \in Scans /\ ~x.bad
                             /\ x.name = IF j < J THEN acc.name ELSE names[J].text
              S == {j \in Nat : j <= Len(names) => Exact(scan[j], j)}
  <1>2. 0 \in S
    BY <1>1
  <1>3. ASSUME NEW n \in Nat, n \in S PROVE n + 1 \in S
    <2>1. SUFFICES ASSUME n + 1 \in 1..Len(names) PROVE Exact(scan[n + 1], n + 1)
      OBVIOUS
    <2>2. Exact(scan[n], n) /\ scan[n + 1] = ScanName(scan[n], names[n + 1])
      BY <1>1, <1>3, <2>1
    <2>3. names[n + 1] \in Names /\ n + 1 \in DOMAIN names
      BY <2>1
    <2>4. CASE n + 1 = J
      BY <2>2, <2>3, <2>4 DEF ScanName, Scans, Names
    <2>5. CASE n + 1 # J
      <3>1. scan[n + 1] = scan[n]
        BY <2>2, <2>3, <2>5 DEF ScanName
      <3>. QED BY <2>2, <2>5, <3>1
    <2>. QED BY <2>4, <2>5
  <1>4. Len(names) \in S
    <2>. HIDE DEF S
    <2>. QED BY <1>2, <1>3, SetInduction
  <1>5. J \in DOMAIN names <=> ~(Len(names) < J)
    OBVIOUS
  <1>. QED BY <1>1, <1>4, <1>5

(* The scan of the extensions. *)
Start == [name |-> NoText, bad |-> FALSE]

LEMMA ExtensionScanExists ==
    ASSUME NEW exts, NEW n \in Nat
    PROVE  \E f : f = [i \in 0..n |-> IF i = 0 THEN Start ELSE ScanExtension(f[i - 1], exts[i])]
  <1>. DEFINE Scan(f, m) == f = [i \in 0..m |->
                                    IF i = 0 THEN Start ELSE ScanExtension(f[i - 1], exts[i])]
              S == {m \in Nat : \E f : Scan(f, m)}
  <1>1. 0 \in S
    <2>1. Scan([i \in 0..0 |-> Start], 0)
      OBVIOUS
    <2>. QED BY <2>1
  <1>2. ASSUME NEW m \in Nat, m \in S PROVE m + 1 \in S
    <2>1. PICK f : Scan(f, m)
      BY <1>2
    <2>. DEFINE g == [i \in 0..(m + 1) |-> IF i <= m THEN f[i] ELSE ScanExtension(f[m], exts[i])]
    <2>2. \A i \in 0..(m + 1) : g[i] = IF i = 0 THEN Start ELSE ScanExtension(g[i - 1], exts[i])
      BY <2>1
    <2>3. Scan(g, m + 1)
      BY <2>2
    <2>. HIDE DEF g, Scan
    <2>. QED BY <2>3
  <1>3. Nat \subseteq S
    <2>. HIDE DEF S
    <2>. QED BY <1>1, <1>2, SetInduction
  <1>. QED BY <1>3

(* A scan of extensions goes from one to the next. *)
LEMMA ExtensionScan ==
    ASSUME NEW exts \in Seq(Extensions)
    PROVE  \E scan : /\ scan[0] = Start
                     /\ \A i \in 1..Len(exts) : scan[i] = ScanExtension(scan[i - 1], exts[i])
                     /\ ServerName(exts) = scan[Len(exts)].name
  <1>. DEFINE F(f) == [i \in 0..Len(exts) |->
                            IF i = 0 THEN Start ELSE ScanExtension(f[i - 1], exts[i])]
              scan == CHOOSE f : f = F(f)
  <1>0. Len(exts) \in Nat
    OBVIOUS
  <1>1. scan = F(scan)
    BY <1>0, ExtensionScanExists
  <1>2. ServerName(exts) = scan[Len(exts)].name
    BY DEF ServerName, Start
  <1>. HIDE DEF scan
  <1>3. scan[0] = Start /\ \A i \in 1..Len(exts) : scan[i] = ScanExtension(scan[i - 1], exts[i])
    BY <1>0, <1>1
  <1>. QED BY <1>2, <1>3

(* The values a scan starts with and gives up with. *)
LEMMA ScanEnds == /\ Start \in Scans /\ ~Start.bad /\ Start.name = NoText
                  /\ Malformed \in Scans /\ Malformed.name = NoText
  BY DEF Start, Malformed, Scans, Texts

(* tryTLSDecode finds a host name of the ClientHello or nothing. *)
LEMMA ServerNameSound ==
    ASSUME NEW exts \in Seq(Extensions)
    PROVE  ServerName(exts) \in {NoText} \cup UNION {HostTexts(exts[i].names) : i \in Lists(exts)}
  <1>1. PICK scan : /\ scan[0] = Start
                    /\ \A i \in 1..Len(exts) : scan[i] = ScanExtension(scan[i - 1], exts[i])
                    /\ ServerName(exts) = scan[Len(exts)].name
    BY ExtensionScan
  <1>. DEFINE Found == UNION {HostTexts(exts[i].names) : i \in Lists(exts)}
              Sound(x) == x \in Scans /\ x.name \in {NoText} \cup Found
              S == {i \in Nat : i <= Len(exts) => Sound(scan[i])}
  <1>2. 0 \in S
    <2>. HIDE DEF Found
    <2>. QED BY <1>1, ScanEnds
  <1>3. ASSUME NEW n \in Nat, n \in S PROVE n + 1 \in S
    <2>1. SUFFICES ASSUME n + 1 \in 1..Len(exts) PROVE Sound(scan[n + 1])
      OBVIOUS
    <2>. DEFINE x == exts[n + 1]
    <2>2. Sound(scan[n]) /\ scan[n + 1] = ScanExtension(scan[n], x)
      BY <1>1, <1>3, <2>1
    <2>3. x \in Extensions /\ n + 1 \in DOMAIN exts
      BY <2>1
    <2>4. CASE x.type # 0 \/ scan[n].bad
      BY <2>2, <2>4 DEF ScanExtension
    <2>5. CASE x.type = 0 /\ ~scan[n].bad /\ x.names = <<>>
      <3>. HIDE DEF Found
      <3>. QED BY <2>2, <2>5, ScanEnds DEF ScanExtension
    <2>6. CASE x.type = 0 /\ ~scan[n].bad /\ x.names # <<>>
      <3>1. scan[n + 1] = ScanNames(scan[n], x.names) /\ x.names \in Seq(Names)
        BY <2>2, <2>3, <2>6 DEF ScanExtension, Extensions
      <3>2. HostTexts(x.names) \subseteq Found
        BY <2>3, <2>6 DEF Lists
      <3>. HIDE DEF Found
      <3>. QED BY <2>2, <3>1, <3>2, ScanNamesSound
    <2>. QED BY <2>4, <2>5, <2>6
  <1>4. Len(exts) \in S
    <2>. HIDE DEF S
    <2>. QED BY <1>2, <1>3, SetInduction
  <1>. QED BY <1>1, <1>4

(* It finds the one host name of a ClientHello that names one. *)
LEMMA ServerNameExact ==
    ASSUME NEW u \in Descriptions, NamesOneHost(u)
    PROVE  Asked(u) = {ServerName(u.extensions)} /\ ServerName(u.extensions) # NoText
  <1>. DEFINE exts == u.extensions
  <1>1. exts \in Seq(Extensions)
    BY DEF Descriptions
  <1>. DEFINE Only(i, j) ==
                 /\ ~exts[i].names[j].dot
                 /\ \A k \in Lists(exts) : Hosts(exts[k].names) = IF k = i THEN {j} ELSE {}
  <1>2. PICK I \in Lists(exts) : \E j \in Hosts(exts[I].names) : Only(I, j)
    BY DEF NamesOneHost
  <1>3. PICK J \in Hosts(exts[I].names) : Only(I, J)
    BY <1>2
  <1>4. \A i \in Lists(exts) : /\ exts[i].names # <<>>
                               /\ \A j \in DOMAIN exts[i].names : exts[i].names[j].text # NoText
    BY DEF NamesOneHost
  <1>. DEFINE text == exts[I].names[J].text
  <1>5. Asked(u) = {text} /\ text # NoText
    <2>1. HostTexts(exts[I].names) = {text}
      BY <1>3 DEF HostTexts
    <2>2. \A k \in Lists(exts) : k # I => HostTexts(exts[k].names) = {}
      BY <1>3 DEF HostTexts
    <2>3. Asked(u) = UNION {HostTexts(exts[i].names) : i \in Lists(exts)}
      BY DEF Asked, NamesOneHost
    <2>4. text # NoText
      BY <1>3, <1>4 DEF Hosts
    <2>. QED BY <1>3, <2>1, <2>2, <2>3, <2>4
  <1>6. PICK scan : /\ scan[0] = Start
                    /\ \A i \in 1..Len(exts) : scan[i] = ScanExtension(scan[i - 1], exts[i])
                    /\ ServerName(exts) = scan[Len(exts)].name
    BY <1>1, ExtensionScan
  <1>. DEFINE Exact(x, i) == /\ x \in Scans /\ ~x.bad
                             /\ x.name = IF i < I THEN NoText ELSE text
              S == {i \in Nat : i <= Len(exts) => Exact(scan[i], i)}
  <1>7. I \in 1..Len(exts) /\ J \in Nat \ {0} /\ J \in DOMAIN exts[I].names /\ text \in Texts
    <2>1. I \in 1..Len(exts) /\ exts[I] \in Extensions
      BY <1>1 DEF Lists
    <2>2. exts[I].names \in Seq(Names)
      BY <2>1 DEF Extensions
    <2>3. J \in 1..Len(exts[I].names) /\ exts[I].names[J] \in Names
      BY <2>2 DEF Hosts
    <2>. QED BY <2>1, <2>2, <2>3 DEF Names
  <1>8. 0 \in S
    <2>. HIDE DEF text
    <2>. QED BY <1>6, <1>7, ScanEnds
  <1>9. ASSUME NEW n \in Nat, n \in S PROVE n + 1 \in S
    <2>1. SUFFICES ASSUME n + 1 \in 1..Len(exts) PROVE Exact(scan[n + 1], n + 1)
      OBVIOUS
    <2>. DEFINE x == exts[n + 1]
    <2>2. Exact(scan[n], n) /\ scan[n + 1] = ScanExtension(scan[n], x)
      BY <1>6, <1>9, <2>1
    <2>3. x \in Extensions /\ n + 1 \in DOMAIN exts
      BY <1>1, <2>1
    <2>4. CASE x.type # 0
      <3>1. n + 1 # I
        BY <1>3, <2>4 DEF Lists
      <3>2. scan[n + 1] = scan[n]
        BY <2>2, <2>4 DEF ScanExtension
      <3>. QED BY <1>7, <2>2, <3>1, <3>2
    <2>5. CASE x.type = 0
      <3>1. n + 1 \in Lists(exts) /\ x.names \in Seq(Names) /\ x.names # <<>>
        BY <1>4, <2>3, <2>5 DEF Lists, Extensions
      <3>2. scan[n + 1] = ScanNames(scan[n], x.names)
        BY <2>2, <2>5, <3>1 DEF ScanExtension
      <3>3. CASE n + 1 = I
        <4>1. /\ \A j \in DOMAIN x.names : /\ x.names[j].text # NoText
                                           /\ x.names[j].type = 0 <=> j = J
              /\ J \in DOMAIN x.names /\ ~x.names[J].dot
          BY <1>3, <1>4, <1>7, <3>1, <3>3 DEF Hosts
        <4>2. scan[n] \in Scans /\ ~scan[n].bad /\ scan[n].name = NoText
          BY <1>7, <2>2, <3>3
        <4>3. scan[n + 1] \in Scans /\ ~scan[n + 1].bad /\ scan[n + 1].name = x.names[J].text
          <5>. HIDE DEF x
          <5>. QED BY <1>7, <3>1, <3>2, <4>1, <4>2, ScanNamesExact
        <4>4. ~(n + 1 < I) /\ x.names[J].text = text
          BY <1>7, <3>3
        <4>. QED BY <4>3, <4>4
      <3>4. CASE n + 1 # I
        <4>. DEFINE K == Len(x.names) + 1
        <4>1. Hosts(x.names) = {}
          BY <1>3, <3>1, <3>4
        <4>2. \A j \in DOMAIN x.names : x.names[j].text # NoText /\ x.names[j].type # 0
          BY <1>4, <3>1, <4>1 DEF Hosts
        <4>3. K \in Nat \ {0} /\ K \notin DOMAIN x.names
          BY <3>1
        <4>4. scan[n + 1] \in Scans /\ ~scan[n + 1].bad /\ scan[n + 1].name = scan[n].name
          <5>. HIDE DEF x, K
          <5>1. scan[n] \in Scans /\ ~scan[n].bad
            BY <2>2
          <5>. QED BY <3>1, <3>2, <4>2, <4>3, <5>1, ScanNamesExact
        <4>. QED BY <1>7, <2>2, <3>4, <4>4
      <3>. QED BY <3>3, <3>4
    <2>. QED BY <2>3, <2>4, <2>5 DEF Extensions
  <1>10. Len(exts) \in S
    <2>1. Len(exts) \in Nat
      BY <1>1
    <2>. HIDE DEF S
    <2>. QED BY <1>8, <1>9, <2>1, SetInduction
  <1>11. ServerName(exts) = text
    <2>1. ~(Len(exts) < I)
      BY <1>7
    <2>. QED BY <1>6, <1>10, <2>1
  <1>. QED BY <1>5, <1>11

-----------------------------------------------------------------------------
(* The first read. *)

(* The preamble of stdinproxy: its name, or nothing. *)
LEMMA ProxyName ==
    ASSUME NEW u \in Descriptions, u.form = "PROXY", u.name.len < ByteSize, NEW n \in Nat
    PROVE  /\ tryProxyDecode(u, n) \in {u.name, NoText}
           /\ n \in PreambleLen(u)..ProxyLimit => tryProxyDecode(u, n) = u.name
  <1>1. u.name \in Texts
    BY DEF Descriptions
  <1>2. LengthByte(u) = u.name.len /\ u.name.len \in Nat
    <2>1. u.name.len \in Nat
      <3>1. NoText.len = 0
        BY DEF NoText
      <3>. QED BY <1>1, <3>1 DEF Texts
    <2>2. \A k \in Nat : k < 256 => k % 256 = k
      OBVIOUS
    <2>. QED BY <2>1, <2>2 DEF LengthByte, ByteSize
  <1>3. CASE u.name = NoText
    BY <1>2, <1>3 DEF tryProxyDecode, NoText
  <1>4. CASE u.name \in [id : STRING, len : Nat \ {0}]
    <2>1. [u.name EXCEPT !.len = LengthByte(u)] = u.name
      BY <1>2, <1>4
    <2>2. n \in PreambleLen(u)..ProxyLimit => n <= ProxyLimit /\ n >= ProxyLen + 1 + LengthByte(u)
      BY <1>2 DEF PreambleLen, ProxyLimit, ProxyLen
    <2>. QED BY <1>2, <1>4, <2>1, <2>2 DEF tryProxyDecode
  <1>. QED BY <1>1, <1>3, <1>4 DEF Texts

(* What getSNITarget makes of the first n bytes. *)
FoundAsAsked(u, n, found) ==
    /\ found \in Asked(u) \cup {NoText}
    /\ u.form = "PROXY" /\ n \in PreambleLen(u)..ProxyLimit => found = u.name
    /\ NamesOneHost(u) /\ n >= u.hello => {found} = Asked(u)

LEMMA GetSNITargetAsAsked ==
    ASSUME NEW u \in Descriptions, u.form # "CONNECT", u.name.len < ByteSize,
           NEW n \in Nat, NEW answered \in BOOLEAN, ~TakenForHello(u, n)
    PROVE  FoundAsAsked(u, n, getSNITarget(u, n, answered).instance)
  <1>. DEFINE found == getSNITarget(u, n, answered).instance
  <1>1. CASE u.form = "tls"
    <2>1. found = tryTLSDecode(u, n)
      BY <1>1 DEF getSNITarget, tryProxyDecode, tryHTTPProxyDecode
    <2>2. tryTLSDecode(u, n) = IF n >= u.hello THEN ServerName(u.extensions) ELSE NoText
      BY <1>1 DEF tryTLSDecode
    <2>3. ServerName(u.extensions) \in Asked(u) \cup {NoText}
      BY <1>1, ServerNameSound DEF Asked, Descriptions
    <2>4. NamesOneHost(u) => Asked(u) = {ServerName(u.extensions)}
      BY ServerNameExact
    <2>. QED BY <1>1, <2>1, <2>2, <2>3, <2>4 DEF FoundAsAsked
  <1>2. CASE u.form = "PROXY"
    <2>1. found = tryProxyDecode(u, n)
      BY <1>2 DEF getSNITarget, TakenForHello, tryHTTPProxyDecode
    <2>2. Asked(u) = {u.name} /\ ~NamesOneHost(u)
      BY <1>2 DEF Asked, NamesOneHost
    <2>. QED BY <1>2, <2>1, <2>2, ProxyName DEF FoundAsAsked
  <1>3. CASE u.form \in {"given", "plain"}
    <2>1. found = NoText
      BY <1>3 DEF getSNITarget, TakenForHello, tryProxyDecode, tryHTTPProxyDecode
    <2>. QED BY <1>3, <2>1 DEF FoundAsAsked, NamesOneHost
  <1>. QED BY <1>1, <1>2, <1>3 DEF Descriptions

(* What the service keeps of the first read until it has a backend. *)
HeadInv ==
    /\ spc = "first" => head \in Streams
    /\ spc = "route" =>
        \/ head \in Streams
        \/ \E u \in Streams, n \in ReadSizes, answered \in BOOLEAN :
                head = [u |-> u, n |-> n, first |-> getSNITarget(u, n, answered)]

(* The instance that the first read of a connection names is one the user  *)
(* asked for or none, wherever the network cuts it, for any ClientHello    *)
(* and any PROXY preamble; and it is the right one when a ClientHello with *)
(* one host name or the whole preamble was there.  The exception is a      *)
(* stream that is no TLS but that the TLS decoder can read a name from.    *)
THEOREM NamesWhatWasAsked == ProxySpec => []InstanceAsAsked
  <1>1. ProxyInit => HeadInv
    BY DEF ProxyInit, HeadInv
  <1>2. HeadInv /\ [ProxyNext]_proxyVars => HeadInv'
    <2>. SUFFICES ASSUME HeadInv, [ProxyNext]_proxyVars PROVE HeadInv'
      OBVIOUS
    <2>1. CASE ReadFirst
      <3>1. PICK n \in ReadSizes, answered \in BOOLEAN :
                head' = [u |-> head, n |-> n, first |-> getSNITarget(head, n, answered)]
        BY <2>1 DEF ReadFirst
      <3>2. head \in Streams /\ spc' = "route"
        BY <2>1 DEF ReadFirst, HeadInv
      <3>. QED BY <3>1, <3>2 DEF HeadInv
    <2>2. CASE Service /\ ~ReadFirst
      <3>1. spc' \notin {"first", "route"}
        BY <2>2 DEF Service, ReadFirstFails, NoStream, OpenStream, SendFrame, SendFrameFails,
                    SendPrefix, SendPrefixFails, ServiceEnds, ServiceReturns
      <3>. QED BY <3>1 DEF HeadInv
    <2>3. CASE UNCHANGED serviceVars
      BY <2>3 DEF HeadInv, serviceVars
    <2>4. ProxyNext /\ ~Service => UNCHANGED serviceVars
      BY DEF ProxyNext, Handler, ReadFrame, ReadFrameFails, Dial, DialFails, HandlerEnds,
             Copier, Copy, CopyEnds, DeadlinePasses, Peer, PeerSends, PeerEnds, PeerReads,
             PeerSeesEnd, LinkBreaks, StreamCloseTimeout
    <2>. QED BY <2>1, <2>2, <2>3, <2>4 DEF proxyVars
  <1>3. ASSUME HeadInv PROVE InstanceAsAsked
    <2>1. SUFFICES ASSUME Decoded, head.u.form # "CONNECT", head.u.name.len < ByteSize,
                          ~TakenForHello(head.u, head.n)
                   PROVE  FoundAsAsked(head.u, head.n, head.first.instance)
      BY DEF InstanceAsAsked, FoundAsAsked
    <2>2. head \notin Streams
      <3>1. \A u \in Descriptions : "first" \notin DOMAIN u
        BY DEF Descriptions
      <3>. QED BY <2>1, <3>1, ProxyAssumption DEF Decoded
    <2>3. PICK u \in Streams, n \in ReadSizes, answered \in BOOLEAN :
                head = [u |-> u, n |-> n, first |-> getSNITarget(u, n, answered)]
      BY <1>3, <2>1, <2>2 DEF HeadInv, Decoded
    <2>4. /\ head.u = u /\ head.n = n
          /\ head.first.instance = getSNITarget(u, n, answered).instance
      BY <2>3
    <2>5. u \in Descriptions /\ n \in Nat
      BY ProxyAssumption DEF FirstRead
    <2>. QED BY <2>1, <2>4, <2>5, GetSNITargetAsAsked
  <1>. QED BY <1>1, <1>2, <1>3, PTL DEF ProxySpec

=============================================================================
