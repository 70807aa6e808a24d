----------------------------- MODULE SNITarget -----------------------------
(***************************************************************************)
(* pkg/muxtunnel.go, getSNITarget and its decoders: what the service makes *)
(* of the first read of a front connection.                                *)
(*                                                                         *)
(* What a user sends is described, not spelled out.  A description u has   *)
(* the form of the stream, the instance it names and the lengths that the  *)
(* decoders look at; n is the number of bytes the first read returned.     *)
(* The network may cut the stream anywhere and may join the preamble and   *)
(* what follows it, so n is independent of where the preamble ends.        *)
(*                                                                         *)
(*   "plain"    any other protocol                                         *)
(*   "tls"      a ClientHello                                              *)
(*   "PROXY"    PROXY-> , a length byte, the name, a newline               *)
(*   "CONNECT"  CONNECT name:port HTTP/1.0 and the rest of the header,     *)
(*              u.suffix bytes of port and u.rest bytes of header          *)
(*                                                                         *)
(* Whatever the form, the TLS decoder reads the bytes from the 43rd on as  *)
(* the rest of a ClientHello: u.hello is where that ends, by the lengths   *)
(* it finds there, and u.extensions what it finds in it.                   *)
(*                                                                         *)
(* A text is a record: the first len bytes of what starts with id.         *)
(***************************************************************************)
EXTENDS Naturals, Sequences

NoText == [id |-> "", len |-> 0]

FirstRead == 1024       \* the buffer of the first read
ProxyLimit == 256       \* a longer first read is no PROXY preamble
ByteSize == 256

ProxyLen == 7           \* len(ProxyString)
ConnectLen == 8         \* len(HttpConnectString)

-----------------------------------------------------------------------------
(* The descriptions.  An extension is a record of its type and, if it is a *)
(* server_name extension (type 0), its list of names; a name has a type    *)
(* (0 is host_name), a text and says whether it ends with a dot.           *)

Texts == {NoText} \cup [id : STRING, len : Nat \ {0}]
Names == [type : Nat, text : Texts, dot : BOOLEAN]
Extensions == [type : Nat, names : Seq(Names)]

(* The form "given" is no stream: the frontend knows the instance. *)
Descriptions ==
    [form : {"given", "plain", "tls", "PROXY", "CONNECT"}, ssh : BOOLEAN, name : Texts,
     suffix : Nat, rest : Nat, hello : Nat, extensions : Seq(Extensions)]

-----------------------------------------------------------------------------
(* tryTLSDecode: what the two loops have found so far.                     *)

Malformed == [name |-> NoText, bad |-> TRUE]

ScanName(acc, e) ==
    IF acc.bad \/ e.text = NoText THEN Malformed
    ELSE IF e.type # 0 THEN acc
    ELSE IF acc.name # NoText \/ e.dot THEN Malformed
    ELSE [acc EXCEPT !.name = e.text]

ScanNames(acc, names) ==
    LET scan[j \in 0..Len(names)] == IF j = 0 THEN acc ELSE ScanName(scan[j - 1], names[j])
    IN  scan[Len(names)]

ScanExtension(acc, x) ==
    IF x.type # 0 \/ acc.bad THEN acc
    ELSE IF x.names = <<>> THEN Malformed
    ELSE ScanNames(acc, x.names)

ServerName(extensions) ==
    LET start == [name |-> NoText, bad |-> FALSE]
        scan[i \in 0..Len(extensions)] ==
            IF i = 0 THEN start ELSE ScanExtension(scan[i - 1], extensions[i])
    IN  scan[Len(extensions)].name

(* Every length the hello announces must be there: a hello that is cut     *)
(* gives nothing.  Nothing looks at the record and handshake types before. *)
tryTLSDecode(u, n) == IF n >= u.hello THEN ServerName(u.extensions) ELSE NoText

(* The sender, stdinproxy, writes the length into one byte. *)
LengthByte(u) == u.name.len % ByteSize

(* Mutant: a name that is not all there is taken as it is. *)
tryProxyDecodeCut(u, n) ==
    IF u.form = "PROXY" /\ n <= ProxyLimit /\ n > ProxyLen + 1
    THEN [u.name EXCEPT !.len = IF LengthByte(u) < n - ProxyLen - 1 THEN LengthByte(u)
                                ELSE n - ProxyLen - 1]
    ELSE NoText

tryProxyDecode(u, n) ==
    IF u.form = "PROXY" /\ n <= ProxyLimit /\ LengthByte(u) > 0 /\ n >= ProxyLen + 1 + LengthByte(u)
    THEN [u.name EXCEPT !.len = LengthByte(u)]
    ELSE NoText

(* ReadString returns the text with the blank it stops at. *)
tryHTTPProxyDecode(u, n) ==
    IF u.form = "CONNECT" /\ n >= ConnectLen + u.name.len + u.suffix + 1
    THEN [u.name EXCEPT !.len = u.name.len + u.suffix + 1]
    ELSE NoText

(* getSNITarget: the instance, the offset from which the first read is     *)
(* passed on to the backend, and whether the read deadline was cleared.    *)
(* A CONNECT request is answered, and the whole read is dropped; if the    *)
(* answer cannot be written it is treated as plain.                        *)
getSNITarget(u, n, answered) ==
    LET tls == tryTLSDecode(u, n)
        proxy == tryProxyDecode(u, n)
        http == IF answered THEN tryHTTPProxyDecode(u, n) ELSE NoText
    IN  CASE tls # NoText -> [instance |-> tls, from |-> 0, cleared |-> TRUE]
          [] tls = NoText /\ proxy # NoText ->
                [instance |-> proxy, from |-> proxy.len + ProxyLen + 1, cleared |-> FALSE]
          [] tls = NoText /\ proxy = NoText /\ http # NoText ->
                [instance |-> http, from |-> n, cleared |-> FALSE]
          [] OTHER -> [instance |-> NoText, from |-> 0, cleared |-> TRUE]

-----------------------------------------------------------------------------
(* The framing of the connect data (types.go): sendSerializedObject writes *)
(* the length into 16 bits, readFrame accepts what fits its buffer.        *)

FrameLimit == 1000

FrameHeader(len) == len % 65536

(* readFrame accepts the frame and its bytes are a whole JSON object. *)
FrameDecodes(len) == FrameHeader(len) <= FrameLimit /\ FrameHeader(len) = len

-----------------------------------------------------------------------------
(* What the user meant.                                                    *)

(* Where a ClientHello has lists of server names, and host names in them. *)
Lists(extensions) == {i \in DOMAIN extensions : extensions[i].type = 0}

Hosts(names) == {j \in DOMAIN names : names[j].type = 0}

(* A ClientHello with one host name and nothing the RFC forbids. *)
NamesOneHost(u) ==
    /\ u.form = "tls"
    /\ \E i \in Lists(u.extensions) : \E j \in Hosts(u.extensions[i].names) :
        /\ ~u.extensions[i].names[j].dot
        /\ \A k \in Lists(u.extensions) :
            Hosts(u.extensions[k].names) = IF k = i THEN {j} ELSE {}
    /\ \A i \in Lists(u.extensions) : LET names == u.extensions[i].names IN
        names # <<>> /\ \A j \in DOMAIN names : names[j].text # NoText

HostTexts(names) == {names[j].text : j \in Hosts(names)}

Asked(u) ==
    CASE u.form \in {"PROXY", "CONNECT"} -> {u.name}
      [] u.form = "tls" ->
            UNION {HostTexts(u.extensions[i].names) : i \in Lists(u.extensions)}
      [] OTHER -> {}

(* No ClientHello, but it reads like one. *)
TakenForHello(u, n) == u.form # "tls" /\ tryTLSDecode(u, n) # NoText

(* What precedes the payload and is meant for the service. *)
PreambleLen(u) ==
    CASE u.form = "PROXY" -> ProxyLen + 1 + u.name.len + 1
      [] u.form = "CONNECT" -> ConnectLen + u.name.len + u.suffix + 1 + u.rest
      [] OTHER -> 0

=============================================================================
