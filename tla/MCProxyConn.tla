---------------------------- MODULE MCProxyConn ----------------------------
(***************************************************************************)
(* Small instances of ProxyConn for TLC.                                   *)
(***************************************************************************)
EXTENDS ProxyConn

Text(id, len) == [id |-> id, len |-> len]

(* A stream that starts with nothing the decoders know, on TCP: read as a  *)
(* ClientHello it is longer than the first read.                           *)
Plain ==
    [form |-> "plain", ssh |-> FALSE, name |-> NoText, suffix |-> 0, rest |-> 0,
     hello |-> FirstRead + 1, extensions |-> <<>>]

Given == [Plain EXCEPT !.form = "given"]
OverSsh(u) == [u EXCEPT !.ssh = TRUE]

Proxy(name) == [Plain EXCEPT !.form = "PROXY", !.name = name]

Connect(name) ==
    [Plain EXCEPT !.form = "CONNECT", !.name = name, !.suffix = 4, !.rest = 12]

Name(type, text, dot) == [type |-> type, text |-> text, dot |-> dot]
Sni(names) == [type |-> 0, names |-> names]
OtherExtension == [type |-> 16, names |-> <<>>]

(* The bytes from the 43rd on read like a ClientHello of 300 bytes. *)
LikeHello(u, extensions) == [u EXCEPT !.hello = 300, !.extensions = extensions]

Hello(extensions) == LikeHello([Plain EXCEPT !.form = "tls"], extensions)

Web == Name(0, Text("web", 3), FALSE)
Db == Name(0, Text("db", 2), FALSE)
Unknown == Name(1, Text("web", 3), FALSE)

(* Every form; names of 3, 248 and 255 bytes (the second fills a first     *)
(* read of 256 bytes) and one of 300, whose length byte is 44; hellos      *)
(* with an extension before or after the names, with two names, in one     *)
(* list or in two, a name of another type, a dot, an empty name or list;   *)
(* other streams that read like a hello with a name, or with none.         *)
MCStreams ==
    {Plain, OverSsh(Plain), Given}
    \cup {Proxy(Text("web", len)) : len \in {3, 247, 248, 255, 300}}
    \cup {OverSsh(Proxy(Text("web", 3))), Connect(Text("web", 3))}
    \cup {LikeHello(u, <<Sni(<<Db>>)>>) : u \in {Plain, Proxy(Text("web", 3))}}
    \cup {LikeHello(Proxy(Text("web", 255)), <<Sni(<<>>)>>)}
    \cup {Hello(x) : x \in
            {<<>>, <<OtherExtension>>, <<Sni(<<Web>>)>>,
             <<OtherExtension, Sni(<<Unknown, Web>>), OtherExtension>>,
             <<Sni(<<Web, Db>>)>>, <<Sni(<<Web>>), Sni(<<Db>>)>>, <<Sni(<<Unknown>>)>>,
             <<Sni(<<Web, Name(1, NoText, FALSE)>>)>>, <<Sni(<<>>)>>, <<Sni(<<Web>>), Sni(<<>>)>>,
             <<Sni(<<Name(0, Text("web", 3), TRUE)>>)>>}}

(* First reads cut in the fixed part, before, at and after the end of each *)
(* preamble and of the hello, and at the limits of the code.               *)
MCReadSizes == {1, 7, 8, 10, 11, 12, 15, 16, 28, 255, 256, 257, 299, 300, 1024}

(* The longest connect data that fits, one byte more, and a length whose   *)
(* 16 bits look short.                                                     *)
MCFrameLens == {1000, 1001, 65536 + 200}

MCMaxSent == [up |-> 2, down |-> 2]

(* What the documentation shows: CONNECT with a name and a port. *)
DocStreams == {Connect(Text("web", 3))}
DocReadSizes == {PreambleLen(u) : u \in DocStreams}

=============================================================================
