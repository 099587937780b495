---------------------------- MODULE TunnelStream ----------------------------
(***************************************************************************)
(* One tunnel: the yamux stream that carries one TCP connection or one UDP *)
(* datagram from the reverse-proxy server to the client and the answer     *)
(* back.  The server end is the task handle_client spawns for a request    *)
(* (server.rs 527-611), the client end handle_tunnel_stream (client.rs     *)
(* 340-515).                                                               *)
(*                                                                         *)
(* The stream is two byte sequences, `up` to the client and `down` to the  *)
(* server.  Writes append, reads take exactly what they ask for or fail    *)
(* once the writer has closed or the connection is lost; a lost connection *)
(* also loses any tail of what was on its way.  A byte is a digit of base  *)
(* Base and every length and port is two of them, most significant first.  *)
(***************************************************************************)
EXTENDS Integers, Sequences, FiniteSets

CONSTANTS
  Base,      \* values of a byte (256)
  Configs,   \* the client's proxy list: <<[server_port, local], ...>>
  Requests,  \* what the server may be asked to carry: [kind, port, data]
  Replies,   \* what a local service may answer
  NoReply    \* no answer yet; also: no service looked up yet

Byte == 0..(Base - 1)
U16 == 0..(Base * Base - 1)
Locals == {Configs[i].local : i \in 1..Len(Configs)}

ASSUME TunnelAssumption ==
  /\ Base \in Nat \ {0, 1, 2}
  /\ Configs \in Seq([server_port : U16, local : Locals])
  /\ \A r \in Requests : /\ r.kind \in {"tcp", "udp"}
                         /\ r.data \in Seq(Byte) /\ Len(r.data) \in U16
                         /\ \E i \in 1..Len(Configs) : Configs[i].server_port = r.port
  /\ \A r \in Replies : r \in Seq(Byte)
  /\ NoReply \notin Replies

VARIABLES
  req,         \* the request the tunnel was opened for
  spc,         \* the server's tunnel task
  cpc,         \* the client's tunnel task
  up, down,    \* bytes on their way to the client, to the server
  upEof,       \* the server has closed its direction
  downEof,     \* the client has dropped the stream
  broken,      \* the control connection is lost
  failed,      \* history: the outside or the local TCP socket failed
  copied,      \* bytes of a TCP request the server has copied
  local,       \* the local service the client looked up
  want,        \* [s, c]: the length each end read from the stream
  payload,     \* the datagram the client read
  forwarded,   \* datagrams sent to local services: <<local, data>>
  localIn,     \* bytes a local TCP service received
  reply,       \* the local service's answer
  replied,     \* bytes of the answer the client has taken
  back,        \* datagrams sent back to the UDP peer
  echoed       \* bytes sent back to the TCP peer

serverVars == <<spc, upEof, copied, back, echoed>>
clientVars == <<cpc, downEof, local, payload, forwarded, localIn, replied>>
lossVars == <<broken, failed>>
tunnelVars == <<req, serverVars, clientVars, up, down, lossVars, want, reply>>

Drop(s, n) == SubSeq(s, n + 1, Len(s))
Take(s, n) == SubSeq(s, 1, n)
IsPrefixOf(s, t) == Len(s) <= Len(t) /\ s = Take(t, Len(s))
----------------------------------------------------------------------------
(* to_be_bytes and from_be_bytes; `as u16` keeps the low digits.           *)
BeBytes(n) == <<(n \div Base) % Base, n % Base>>
FromBe(b) == b[1] * Base + b[2]

HeaderOneTooLong(r) == \* faulty variant: a TCP header of five bytes
  IF r.kind = "tcp" THEN <<1, 0>> \o BeBytes(r.port) \o <<0>>
                    ELSE <<2, 0>> \o BeBytes(r.port)
Header(r) == <<IF r.kind = "tcp" THEN 1 ELSE 2, 0>> \o BeBytes(r.port)

(* The first entry for the port wins.                                      *)
LookupAny(p) == Configs[Len(Configs)].local \* faulty variant
Matches(p) == {i \in 1..Len(Configs) : Configs[i].server_port = p}
Lookup(p) == Configs[CHOOSE i \in Matches(p) : \A j \in Matches(p) : i <= j].local

(* The client writes the answer to a datagram as it came.                  *)
ReplyBytes(r) == r

(* read_exact fails when the data cannot come any more.                    *)
EofIgnored(buf, n, eof) == broken /\ Len(buf) < n \* faulty variant
ReadFails(buf, n, eof) == (eof \/ broken) /\ Len(buf) < n

TunnelInit ==
  /\ req \in Requests
  /\ spc = "header" /\ cpc = "header"
  /\ up = <<>> /\ down = <<>>
  /\ upEof = FALSE /\ downEof = FALSE
  /\ broken = FALSE /\ failed = FALSE
  /\ copied = 0
  /\ local = NoReply
  /\ want = [s |-> 0, c |-> 0]
  /\ payload = <<>>
  /\ forwarded = <<>> /\ localIn = <<>>
  /\ reply = NoReply /\ replied = 0
  /\ back = <<>> /\ echoed = <<>>

(* External: the control connection breaks.                                *)
Break ==
  /\ ~broken
  /\ broken' = TRUE
  /\ \E i \in 0..Len(up), j \in 0..Len(down) :
       up' = Take(up, i) /\ down' = Take(down, j)
  /\ UNCHANGED <<req, serverVars, clientVars, failed, want, reply>>
----------------------------------------------------------------------------
(* The server end.  Each write_all is a step; on an error the task returns.*)
ServerWrites(at, bytes, then) ==
  /\ spc = at
  /\ ~broken
  /\ up' = up \o bytes
  /\ spc' = then
  /\ UNCHANGED <<req, upEof, copied, back, echoed, clientVars, down, lossVars,
                 want, reply>>

WriteHeader == ServerWrites("header", Header(req),
                            IF req.kind = "tcp" THEN "copy" ELSE "len")
WriteLenNarrow == \* faulty variant: the length as u8
  ServerWrites("len", <<0, Len(req.data) % Base>>, "payload")
WriteLen == ServerWrites("len", BeBytes(Len(req.data)), "payload")
WritePayload == ServerWrites("payload", req.data, "readLen")

ServerWriteFails ==
  /\ spc \in {"header", "len", "payload"}
  /\ broken
  /\ spc' = "closed" /\ upEof' = TRUE
  /\ UNCHANGED <<req, copied, back, echoed, clientVars, up, down, lossVars, want,
                 reply>>

(* The response loop of a UDP tunnel: a length, then that many bytes.      *)
ReadLen ==
  /\ spc = "readLen"
  /\ Len(down) >= 2
  /\ want' = [want EXCEPT !.s = FromBe(down)]
  /\ down' = Drop(down, 2)
  /\ spc' = "readBody"
  /\ UNCHANGED <<req, upEof, copied, back, echoed, clientVars, up, lossVars,
                 reply>>

ReadBody ==
  /\ spc = "readBody"
  /\ Len(down) >= want.s
  /\ back' = Append(back, Take(down, want.s))
  /\ down' = Drop(down, want.s)
  /\ spc' = "readLen"
  /\ UNCHANGED <<req, upEof, copied, echoed, clientVars, up, lossVars, want,
                 reply>>

ServerReadFails ==
  /\ \/ spc = "readLen" /\ ReadFails(down, 2, downEof)
     \/ spc = "readBody" /\ ReadFails(down, want.s, downEof)
  /\ spc' = "closed" /\ upEof' = TRUE
  /\ UNCHANGED <<req, copied, back, echoed, clientVars, up, down, lossVars, want,
                 reply>>

(* copy_bidirectional between the outside TCP connection and the stream,   *)
(* a byte at a time; the outside peer sends all of its data and closes.    *)
ServerCopiesUp ==
  /\ spc = "copy" /\ ~broken /\ ~upEof
  /\ IF copied < Len(req.data)
       THEN /\ up' = Append(up, req.data[copied + 1])
            /\ copied' = copied + 1
            /\ UNCHANGED upEof
       ELSE upEof' = TRUE /\ UNCHANGED <<up, copied>>
  /\ UNCHANGED <<req, spc, back, echoed, clientVars, down, lossVars, want, reply>>

ServerCopiesDown ==
  /\ spc = "copy" /\ down # <<>>
  /\ echoed' = Append(echoed, Head(down))
  /\ down' = Tail(down)
  /\ UNCHANGED <<req, spc, upEof, copied, back, clientVars, up, lossVars, want,
                 reply>>

(* A write after the client dropped the stream fails, which ends the copy. *)
ServerCopyEnds ==
  /\ spc = "copy"
  /\ broken \/ (downEof /\ ~upEof) \/ (upEof /\ downEof /\ down = <<>>)
  /\ spc' = "closed" /\ upEof' = TRUE
  /\ UNCHANGED <<req, copied, back, echoed, clientVars, up, down, lossVars, want,
                 reply>>

(* External: the outside TCP socket fails, the other way the copy ends.    *)
OutsideFails ==
  /\ spc = "copy"
  /\ spc' = "closed" /\ upEof' = TRUE /\ failed' = TRUE
  /\ UNCHANGED <<req, copied, back, echoed, clientVars, up, down, broken, want,
                 reply>>
----------------------------------------------------------------------------
(* The client end: header, target, then by type.                           *)
ReadHeader ==
  /\ cpc = "header"
  /\ Len(up) >= 4
  /\ local' = Lookup(FromBe(Drop(up, 2)))
  /\ cpc' = IF up[1] = 1 THEN "connect" ELSE "len"
  /\ up' = Drop(up, 4)
  /\ UNCHANGED <<req, serverVars, downEof, payload, forwarded, localIn, replied,
                 down, lossVars, want, reply>>

ReadPayloadLen ==
  /\ cpc = "len"
  /\ Len(up) >= 2
  /\ want' = [want EXCEPT !.c = FromBe(up)]
  /\ up' = Drop(up, 2)
  /\ cpc' = "payload"
  /\ UNCHANGED <<req, serverVars, downEof, local, payload, forwarded, localIn,
                 replied, down, lossVars, reply>>

ReadPayload ==
  /\ cpc = "payload"
  /\ Len(up) >= want.c
  /\ payload' = Take(up, want.c)
  /\ up' = Drop(up, want.c)
  /\ cpc' = "send"
  /\ UNCHANGED <<req, serverVars, downEof, local, forwarded, localIn, replied,
                 down, lossVars, want, reply>>

(* Returning drops the stream; what was written before still arrives.      *)
ClientReturns == cpc' = "closed" /\ downEof' = TRUE

ClientReadFails ==
  /\ \/ cpc = "header" /\ ReadFails(up, 4, upEof)
     \/ cpc = "len" /\ ReadFails(up, 2, upEof)
     \/ cpc = "payload" /\ ReadFails(up, want.c, upEof)
  /\ ClientReturns
  /\ UNCHANGED <<req, serverVars, local, payload, forwarded, localIn, replied,
                 up, down, lossVars, want, reply>>

SendToLocal ==
  /\ cpc = "send"
  /\ forwarded' = Append(forwarded, <<local, payload>>)
  /\ cpc' = "await"
  /\ UNCHANGED <<req, serverVars, downEof, local, payload, localIn, replied, up,
                 down, lossVars, want, reply>>

(* No socket, no route, or no connection to the local service.             *)
LocalUnreachable ==
  /\ cpc \in {"send", "connect"}
  /\ ClientReturns
  /\ failed' = TRUE
  /\ UNCHANGED <<req, serverVars, local, payload, forwarded, localIn, replied,
                 up, down, broken, want, reply>>

(* External: the local service answers, whenever it likes.                 *)
LocalReplies ==
  /\ cpc \in {"await", "copy"}
  /\ reply = NoReply
  /\ reply' \in Replies
  /\ UNCHANGED <<req, serverVars, clientVars, up, down, lossVars, want>>

RelayReply ==
  /\ cpc = "await"
  /\ reply # NoReply
  /\ down' = IF broken THEN down ELSE down \o ReplyBytes(reply)
  /\ replied' = Len(reply)
  /\ ClientReturns
  /\ UNCHANGED <<req, serverVars, local, payload, forwarded, localIn, up, lossVars,
                 want, reply>>

(* Two seconds without an answer, or recv_from fails.                      *)
ReplyTimeout ==
  /\ cpc = "await"
  /\ ClientReturns
  /\ UNCHANGED <<req, serverVars, local, payload, forwarded, localIn, replied,
                 up, down, lossVars, want, reply>>

ConnectLocal ==
  /\ cpc = "connect"
  /\ cpc' = "copy"
  /\ UNCHANGED <<req, serverVars, downEof, local, payload, forwarded, localIn,
                 replied, up, down, lossVars, want, reply>>

ClientCopiesIn ==
  /\ cpc = "copy" /\ up # <<>>
  /\ localIn' = Append(localIn, Head(up))
  /\ up' = Tail(up)
  /\ UNCHANGED <<req, serverVars, cpc, downEof, local, payload, forwarded,
                 replied, down, lossVars, want, reply>>

ClientCopiesOut ==
  /\ cpc = "copy" /\ ~broken
  /\ reply # NoReply /\ replied < Len(reply)
  /\ down' = Append(down, reply[replied + 1])
  /\ replied' = replied + 1
  /\ UNCHANGED <<req, serverVars, cpc, downEof, local, payload, forwarded,
                 localIn, up, lossVars, want, reply>>

(* Both directions are done (the service closes after its answer), or the  *)
(* server has dropped the stream and writing the answer to it fails.       *)
ClientCopyEnds ==
  /\ cpc = "copy"
  /\ \/ broken \/ (spc = "closed" /\ reply # NoReply)
     \/ upEof /\ up = <<>> /\ reply # NoReply /\ replied = Len(reply)
  /\ ClientReturns
  /\ UNCHANGED <<req, serverVars, local, payload, forwarded, localIn, replied,
                 up, down, lossVars, want, reply>>

(* External: the local TCP socket fails, the other way the copy ends.      *)
LocalFails ==
  /\ cpc = "copy"
  /\ ClientReturns
  /\ failed' = TRUE
  /\ UNCHANGED <<req, serverVars, local, payload, forwarded, localIn, replied,
                 up, down, broken, want, reply>>
----------------------------------------------------------------------------
Server ==
  \/ WriteHeader \/ WriteLen \/ WritePayload \/ ServerWriteFails
  \/ ReadLen \/ ReadBody \/ ServerReadFails
  \/ ServerCopiesUp \/ ServerCopiesDown \/ ServerCopyEnds

Client ==
  \/ ReadHeader \/ ReadPayloadLen \/ ReadPayload \/ ClientReadFails
  \/ SendToLocal \/ LocalUnreachable \/ RelayReply \/ ReplyTimeout
  \/ ConnectLocal \/ ClientCopiesIn \/ ClientCopiesOut \/ ClientCopyEnds

Done == spc = "closed" /\ cpc = "closed" /\ UNCHANGED tunnelVars

TunnelNext ==
  \/ Server \/ Client
  \/ LocalReplies \/ OutsideFails \/ LocalFails \/ Break
  \/ Done

TunnelSpec == TunnelInit /\ [][TunnelNext]_tunnelVars

(* Both runtimes poll their tasks, and the two-second timer expires.       *)
FairTunnelSpec == TunnelSpec /\ WF_tunnelVars(Server) /\ WF_tunnelVars(Client)
----------------------------------------------------------------------------
(* Every variable has its type; the length the client reads off the stream *)
(* is the datagram's.                                                      *)
TunnelTypeOK ==
  /\ req \in Requests
  /\ spc \in {"header", "len", "payload", "readLen", "readBody", "copy", "closed"}
  /\ cpc \in {"header", "len", "payload", "send", "await", "connect", "copy",
              "closed"}
  /\ up \in Seq(Byte) /\ down \in Seq(Byte)
  /\ {upEof, downEof, broken, failed} \subseteq BOOLEAN
  /\ copied \in 0..Len(req.data)
  /\ local \in Locals \cup {NoReply}
  /\ want \in [s : U16, c : U16] /\ want.c \in {0, Len(req.data)}
  /\ payload \in Seq(Byte)
  /\ forwarded \in Seq(Locals \X Seq(Byte))
  /\ localIn \in Seq(Byte)
  /\ reply \in Replies \cup {NoReply}
  /\ replied \in Nat
  /\ back \in Seq(Seq(Byte)) /\ echoed \in Seq(Byte)

(***************************************************************************)
(* A local UDP service receives the datagram of the outside peer, whole    *)
(* and once, or nothing, and it is the service of the first entry for the  *)
(* port: wherever the connection breaks, no truncated or misdirected       *)
(* datagram is sent (server.rs 553-574, client.rs 375-417).                *)
(***************************************************************************)
RequestIntact ==
  forwarded # <<>> =>
    \E i \in 1..Len(Configs) :
      /\ Configs[i].server_port = req.port
      /\ \A j \in 1..(i - 1) : Configs[j].server_port # req.port
      /\ req.kind = "udp" /\ forwarded = <<<<Configs[i].local, req.data>>>>

(***************************************************************************)
(* A TCP tunnel is transparent: the local service sees a prefix of what    *)
(* the outside peer sent, with no byte of the tunnel header in it, and the *)
(* peer a prefix of the answer; both get all of it if the tunnel ended     *)
(* without the control connection or one of the two TCP sockets failing    *)
(* (server.rs 543-551, client.rs 474-515).                                 *)
(***************************************************************************)
TcpTransparent ==
  req.kind = "tcp" =>
    /\ IsPrefixOf(localIn, req.data)
    /\ reply # NoReply => IsPrefixOf(echoed, reply)
    /\ spc = "closed" /\ ~broken /\ ~failed =>
         localIn = req.data /\ echoed = reply

(***************************************************************************)
(* A UDP tunnel always ends, on both sides: the client waits no longer     *)
(* than its timer, and the server's reads, which have no timer, then see   *)
(* the end of the stream, whatever length they are waiting for.            *)
(***************************************************************************)
UdpTunnelEnds ==
  (req.kind = "udp") ~> (spc = "closed" /\ cpc = "closed")

(***************************************************************************)
(* server.rs:577 reads the response as "Framed: Len(u16) + Payload", and   *)
(* tests/udp_comprehensive_test.rs:130 expects an echo of the same bytes:  *)
(* an answer the client relayed over a sound connection reaches the peer   *)
(* as the one datagram it was.                                             *)
(***************************************************************************)
ReplyIntact ==
  /\ req.kind = "udp" /\ ~broken
  /\ spc = "closed" /\ cpc = "closed"
  /\ reply # NoReply /\ replied = Len(reply) /\ replied > 0
  => back = <<reply>>
============================================================================
