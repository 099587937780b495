------------------------ MODULE ReverseClientProofs ------------------------
(***************************************************************************)
(* Proofs about the reverse-proxy client: about its reconnect loop         *)
(* (ReverseClient), for every retry limit and backoff cap and for any      *)
(* number of shutdown signals, and about the tunnels it serves             *)
(* (TunnelStream), for every base of a byte, proxy list, request and       *)
(* answer.                                                                 *)
(***************************************************************************)
EXTENDS ReverseClient, TunnelStream, SequenceTheorems, WellFoundedInduction, TLAPS

(* An attempt that has begun and whose failure is not counted yet.         *)
InAttempt == pc \in {"connect", "handshake", "yamux", "error"}

(***************************************************************************)
(* Nothing is begun or waited for once the retry limit is reached.         *)
(***************************************************************************)
CountInv == InAttempt \/ pc = "backoff" => retry_count < MaxRetries

(***************************************************************************)
(* A late pass of the loop head moves the loop's receiver: it has skipped  *)
(* at least as many signals as there were late passes, and it never        *)
(* catches up with the sender without start() returning.                   *)
(***************************************************************************)
LagInv ==
  /\ late <= shutdown_rx
  /\ sent > 0 => late < sent
  /\ pc # "Ok" => shutdown_rx < sent \/ sent = 0

IInv == TypeOK /\ CountInv /\ LagInv

USE DEF vars, Returned

(* The backoff arithmetic stays within its cap.                            *)
LEMMA BackoffCapped ==
  ASSUME NEW b \in 1..MaxBackoff
  PROVE  Smaller(b * 2, MaxBackoff) \in 1..MaxBackoff
BY ClientAssumption DEF Smaller

(* The initial state satisfies the inductive invariant.                    *)
LEMMA InitInv == Init => IInv
BY ClientAssumption DEF Init, IInv, TypeOK, CountInv, LagInv, InAttempt

(* Every step keeps the inductive invariant.                               *)
LEMMA StepInv == IInv /\ [Next]_vars => IInv'
<1> SUFFICES ASSUME IInv, [Next]_vars PROVE IInv'
  OBVIOUS
<1> USE ClientAssumption DEF IInv, TypeOK, CountInv, LagInv, InAttempt
<1>1. CASE LoopHead
  <2>1. CASE TryRecvIsOk
    BY <1>1, <2>1 DEF LoopHead, TryRecvIsOk
  <2>2. CASE ~TryRecvIsOk /\ sent = 0
    BY <1>1, <2>2 DEF LoopHead, TryRecvIsOk
  <2>3. CASE ~TryRecvIsOk /\ sent # 0
    <3>1. sent - shutdown_rx > 1
      BY <1>1, <2>3 DEF LoopHead, TryRecvIsOk
    <3>2. late' = late + 1 /\ shutdown_rx' = sent - 1 /\ sent' = sent
      BY <1>1, <2>3, <3>1 DEF LoopHead
    <3>3. QED
      BY <1>1, <2>3, <3>1, <3>2 DEF LoopHead
  <2>4. QED
    BY <2>1, <2>2, <2>3
<1>2. CASE GiveUp
  BY <1>2 DEF GiveUp, Exhausted
<1>3. CASE BeginAttempt
  BY <1>3 DEF BeginAttempt, Exhausted
<1>4. CASE Connect
  BY <1>4 DEF Connect
<1>5. CASE YamuxShutdown
  BY <1>5 DEF YamuxShutdown
<1>6. CASE AttemptFailed
  BY <1>6 DEF AttemptFailed
<1>7. CASE BackoffOver
  <2>1. backoff' \in 1..MaxBackoff
    BY <1>7, BackoffCapped DEF BackoffOver
  <2>2. QED
    BY <1>7, <2>1 DEF BackoffOver
<1>8. CASE BackoffShutdown
  BY <1>8 DEF BackoffShutdown
<1>9. CASE Signal
  BY <1>9 DEF Signal
<1>10. CASE Handshake
  BY <1>10 DEF Handshake
<1>11. CASE ConnectionLost
  BY <1>11 DEF ConnectionLost
<1>12. CASE Finished \/ UNCHANGED vars
  BY <1>12 DEF Finished
<1>13. QED
  BY <1>1, <1>2, <1>3, <1>4, <1>5, <1>6, <1>7, <1>8, <1>9, <1>10, <1>11,
     <1>12 DEF Next, Progress

(* IInv is an invariant of the client's loop, fair or not.                 *)
THEOREM InductiveInvariant == Spec => []IInv
BY InitInv, StepInv, PTL DEF Spec

(***************************************************************************)
(* Type correctness; the retry counter and the backoff stay within their   *)
(* limits (client.rs 75-79, 107-125).                                      *)
(***************************************************************************)
THEOREM TypeCorrect == Spec => []TypeOK
<1>1. IInv => TypeOK
  BY DEF IInv
<1>2. QED
  BY <1>1, InductiveInvariant, PTL

(***************************************************************************)
(* For any number of shutdown signals, the loop head lets the client go on *)
(* less often than it was signalled; after one signal it never does        *)
(* (client.rs:83, try_recv on a channel of capacity 1).                    *)
(***************************************************************************)
THEOREM ShutdownBoundsRetries == Spec => []SignalsStopRetries
<1>1. IInv => SignalsStopRetries
  BY DEF IInv, LagInv, SignalsStopRetries
<1>2. QED
  BY <1>1, InductiveInvariant, PTL

----------------------------------------------------------------------------
(***************************************************************************)
(* The tunnel.  Wire(r, i) is the i-th byte the server puts on the stream  *)
(* for request r: the header, a datagram's length, the data.               *)
(***************************************************************************)
DataFrom(r) == IF r.kind = "tcp" THEN 4 ELSE 6
WireLen(r) == DataFrom(r) + Len(r.data)
Wire(r, i) ==
  IF i <= 4 THEN Header(r)[i]
  ELSE IF i <= DataFrom(r) THEN BeBytes(Len(r.data))[i - 4]
  ELSE r.data[i - DataFrom(r)]

(* The bytes in s are those of the wire that follow the first k.           *)
At(r, s, k) ==
  /\ k + Len(s) <= WireLen(r)
  /\ \A i \in 1..Len(s) : s[i] = Wire(r, k + i)

(* How far each end has come on the wire.                                  *)
ServerAt(pos, n, r) ==
  CASE pos = "header" -> 0
    [] pos = "len" -> 4
    [] pos = "payload" -> 6
    [] pos \in {"readLen", "readBody"} -> WireLen(r)
    [] OTHER -> 4 + n

ClientAt(pos, n) ==
  CASE pos = "header" -> 0
    [] pos \in {"len", "connect"} -> 4
    [] pos = "payload" -> 6
    [] OTHER -> 4 + n

Reading == {"header", "len", "payload", "connect", "copy"}

(* Which step belongs to which protocol, and when an end has closed.       *)
Phases ==
  /\ spc = "copy" => req.kind = "tcp"
  /\ spc \in {"len", "payload", "readLen", "readBody"} => req.kind = "udp"
  /\ cpc \in {"connect", "copy"} => req.kind = "tcp"
  /\ cpc \in {"len", "payload", "send", "await"} => req.kind = "udp"
  /\ downEof = (cpc = "closed")
  /\ spc \notin {"copy", "closed"} => upEof = FALSE
  /\ spc = "header" => copied = 0
  /\ spc = "copy" /\ upEof = TRUE => copied = Len(req.data)
  /\ spc = "closed" /\ broken = FALSE =>
       cpc = "closed" \/ (req.kind = "tcp" /\ failed = TRUE)

(* What is on its way to the client continues what the client has read.    *)
UpInv ==
  cpc \in Reading =>
    /\ At(req, up, ClientAt(cpc, Len(localIn)))
    /\ broken = FALSE =>
         ClientAt(cpc, Len(localIn)) + Len(up) = ServerAt(spc, copied, req)

(* What the client made of the bytes it read.                              *)
ReadInv ==
  /\ cpc \notin {"header", "closed"} => local = Lookup(req.port)
  /\ cpc = "payload" => want.c = Len(req.data)
  /\ cpc \in {"send", "await"} => payload = req.data
  /\ cpc \in {"header", "len", "payload", "send"} => forwarded = <<>>
  /\ forwarded # <<>> =>
       req.kind = "udp" /\ forwarded = <<<<Lookup(req.port), req.data>>>>
  /\ cpc \in {"header", "connect"} => localIn = <<>>
  /\ req.kind = "tcp" => /\ Len(localIn) <= Len(req.data)
                         /\ \A i \in 1..Len(localIn) : localIn[i] = req.data[i]

(* s and then t begin like u, and n says how long they are while nothing   *)
(* is lost.                                                                *)
Begins(s, t, u, n, whole) ==
  /\ n <= Len(u) /\ Len(s) + Len(t) <= n
  /\ whole => Len(s) + Len(t) = n
  /\ \A i \in 1..Len(s) : s[i] = u[i]
  /\ \A i \in 1..Len(t) : t[i] = u[Len(s) + i]

(* What the server sent back and what is on its way to it are the answer.  *)
DownInv ==
  req.kind = "tcp" =>
    /\ cpc \in {"header", "connect"} => replied = 0
    /\ reply = NoReply => replied = 0 /\ down = <<>> /\ echoed = <<>>
    /\ reply # NoReply => Begins(echoed, down, reply, replied, broken = FALSE)

(* A copy that no failure ends does so after both directions are empty.    *)
EndInv ==
  req.kind = "tcp" /\ broken = FALSE /\ failed = FALSE =>
    /\ cpc = "closed" => /\ upEof = TRUE /\ localIn = req.data
                         /\ reply # NoReply /\ replied = Len(reply)
    /\ spc = "closed" => down = <<>>

TunnelInv ==
  TunnelTypeOK /\ Phases /\ UpInv /\ ReadInv /\ DownInv /\ EndInv

(* Division by Base, for every base.                                       *)
LEMMA Digits ==
  ASSUME NEW n \in Nat
  PROVE  /\ n \div Base \in Nat /\ n % Base \in Byte
         /\ n = Base * (n \div Base) + (n % Base)
BY TunnelAssumption DEF Byte

LEMMA PairFacts ==
  ASSUME NEW S, NEW a \in S, NEW b \in S
  PROVE  <<a, b>> \in Seq(S) /\ Len(<<a, b>>) = 2
OBVIOUS

(* A length or a port is two bytes, and reading them gives it back.        *)
LEMMA TwoBytes ==
  ASSUME NEW n \in U16
  PROVE  /\ BeBytes(n) \in Seq(Byte) /\ Len(BeBytes(n)) = 2
         /\ BeBytes(n)[1] * Base + BeBytes(n)[2] = n
<1> DEFINE d == n \div Base
           m == n % Base
<1>1. Base \in Nat /\ Base > 2 /\ n \in Nat /\ n < Base * Base
  BY TunnelAssumption DEF U16
<1>2. d \in Nat /\ m \in Byte /\ n = Base * d + m
  BY <1>1, Digits
<1> HIDE DEF d, m
<1>3. d < Base
  <2>1. SUFFICES ASSUME d >= Base PROVE FALSE
    BY <1>1, <1>2
  <2>2. Base * d >= Base * Base
    BY <1>1, <1>2, <2>1
  <2>3. QED
    BY <1>1, <1>2, <2>2 DEF Byte
<1>4. d \in Byte /\ d % Base = d
  BY <1>1, <1>2, <1>3 DEF Byte
<1>5. BeBytes(n) = <<d, m>>
  BY <1>4 DEF BeBytes, d, m
<1>6. d * Base = Base * d
  BY <1>1, <1>2
<1>7. BeBytes(n) \in Seq(Byte) /\ Len(BeBytes(n)) = 2
  BY <1>2, <1>4, <1>5, PairFacts
<1>8. BeBytes(n)[1] = d /\ BeBytes(n)[2] = m
  BY <1>5
<1>9. QED
  BY <1>2, <1>6, <1>7, <1>8

LEMMA FromBeType ==
  ASSUME NEW s \in Seq(Byte), Len(s) >= 2
  PROVE  FromBe(s) \in U16
<1>1. /\ Base \in Nat /\ Base > 2 /\ s[1] \in Nat /\ s[2] \in Nat
      /\ s[1] <= Base - 1 /\ s[2] <= Base - 1
  BY TunnelAssumption DEF Byte
<1> DEFINE a == s[1]
           b == s[2]
<1>2. /\ Base \in Nat /\ Base > 2 /\ a \in Nat /\ b \in Nat
      /\ a <= Base - 1 /\ b <= Base - 1 /\ FromBe(s) = a * Base + b
  BY <1>1 DEF FromBe
<1> HIDE DEF a, b
<1>3. a * Base \in Nat /\ Base * Base \in Nat
  BY <1>2
<1>4. a * Base <= (Base - 1) * Base
  BY <1>2
<1>5. (Base - 1) * Base = Base * Base - Base
  BY <1>2
<1>6. QED
  BY <1>2, <1>3, <1>4, <1>5 DEF U16

LEMMA ReadBack ==
  ASSUME NEW n \in U16, NEW s, s[1] = BeBytes(n)[1], s[2] = BeBytes(n)[2]
  PROVE  FromBe(s) = n
BY TwoBytes DEF FromBe

LEMMA ZeroFits == 0 \in U16
<1>1. Base \in Nat /\ Base > 2
  BY TunnelAssumption
<1>2. Base * Base >= 3 * 3
  BY <1>1
<1>3. QED
  BY <1>1, <1>2 DEF U16

(* The lookup finds the first entry for a port.                            *)
LEMMA FirstEntry ==
  ASSUME NEW p, \E i \in 1..Len(Configs) : Configs[i].server_port = p
  PROVE  \E i \in 1..Len(Configs) :
           /\ Configs[i].server_port = p
           /\ \A j \in 1..(i - 1) : Configs[j].server_port # p
           /\ Lookup(p) = Configs[i].local
<1>1. Matches(p) \subseteq Nat /\ Matches(p) # {}
  BY DEF Matches
<1>2. \E i \in Matches(p) : \A j \in Matches(p) : i <= j
  <2> DEFINE R == OpToRel(<, Nat)
  <2>1. IsWellFoundedOn(R, Nat) /\ R = {r \in Nat \X Nat : r[1] < r[2]}
    BY NatLessThanWellFounded, Zenon DEF OpToRel
  <2> HIDE DEF R
  <2>2. PICK i \in Matches(p) : \A j \in Matches(p) : ~(<<j, i>> \in R)
    BY <1>1, <2>1, WFMin
  <2>3. ASSUME NEW j \in Matches(p) PROVE i <= j
    <3>1. j \in Nat /\ i \in Nat /\ ~(<<j, i>> \in {r \in Nat \X Nat : r[1] < r[2]})
      BY <1>1, <2>1, <2>2
    <3>2. QED
      BY <3>1
  <2>4. QED
    BY <2>3
<1> DEFINE f == CHOOSE i \in Matches(p) : \A j \in Matches(p) : i <= j
<1>3. f \in Matches(p) /\ \A j \in Matches(p) : f <= j
  BY <1>2
<1>4. Lookup(p) = Configs[f].local
  BY DEF Lookup
<1> HIDE DEF f
<1>5. f \in 1..Len(Configs) /\ Configs[f].server_port = p /\ Len(Configs) \in Nat
  BY <1>3, TunnelAssumption DEF Matches
<1>6. ASSUME NEW j \in 1..(f - 1) PROVE Configs[j].server_port # p
  <2>1. j \in 1..Len(Configs) /\ ~(f <= j)
    BY <1>5
  <2>2. QED
    BY <1>3, <2>1 DEF Matches
<1>7. QED
  BY <1>4, <1>5, <1>6

(* The parts of a sequence that a read takes and leaves.                   *)
LEMMA DropFacts ==
  ASSUME NEW S, NEW s \in Seq(S), NEW n \in 0..Len(s)
  PROVE  /\ Drop(s, n) \in Seq(S) /\ Len(Drop(s, n)) = Len(s) - n
         /\ \A i \in 1..(Len(s) - n) : Drop(s, n)[i] = s[n + i]
BY DEF Drop

LEMMA TakeFacts ==
  ASSUME NEW S, NEW s \in Seq(S), NEW n \in 0..Len(s)
  PROVE  /\ Take(s, n) \in Seq(S) /\ Len(Take(s, n)) = n
         /\ \A i \in 1..n : Take(s, n)[i] = s[i]
BY DEF Take

LEMMA JoinFacts ==
  ASSUME NEW S, NEW s \in Seq(S), NEW t \in Seq(S)
  PROVE  /\ s \o t \in Seq(S) /\ Len(s \o t) = Len(s) + Len(t)
         /\ \A i \in 1..Len(s) : (s \o t)[i] = s[i]
         /\ \A i \in 1..Len(t) : (s \o t)[Len(s) + i] = t[i]
OBVIOUS

LEMMA AppendFacts ==
  ASSUME NEW S, NEW s \in Seq(S), NEW e \in S
  PROVE  /\ Append(s, e) \in Seq(S) /\ Len(Append(s, e)) = Len(s) + 1
         /\ \A i \in 1..Len(s) : Append(s, e)[i] = s[i]
         /\ Append(s, e)[Len(s) + 1] = e
OBVIOUS

LEMMA TailFacts ==
  ASSUME NEW S, NEW s \in Seq(S), s # <<>>
  PROVE  /\ Len(s) \in Nat \ {0} /\ Head(s) = s[1] /\ Head(s) \in S
         /\ Tail(s) \in Seq(S) /\ Len(Tail(s)) = Len(s) - 1
         /\ \A i \in 1..(Len(s) - 1) : Tail(s)[i] = s[1 + i]
OBVIOUS

(* What the assumption says of a request.                                  *)
LEMMA RequestFacts ==
  ASSUME NEW r \in Requests
  PROVE  /\ r.kind \in {"tcp", "udp"} /\ r.data \in Seq(Byte)
         /\ Len(r.data) \in U16 /\ Len(r.data) \in Nat /\ r.port \in U16
         /\ \E i \in 1..Len(Configs) : Configs[i].server_port = r.port
<1>1. /\ r.kind \in {"tcp", "udp"} /\ r.data \in Seq(Byte) /\ Len(r.data) \in U16
      /\ \E i \in 1..Len(Configs) : Configs[i].server_port = r.port
  BY TunnelAssumption
<1>2. Len(r.data) \in Nat
  BY <1>1
<1>3. r.port \in U16
  <2>1. PICK i \in 1..Len(Configs) : Configs[i].server_port = r.port
    BY <1>1
  <2>2. Configs \in Seq([server_port : U16, local : Locals])
    BY TunnelAssumption
  <2>3. Configs[i] \in [server_port : U16, local : Locals]
    <3> DEFINE S == [server_port : U16, local : Locals]
    <3>1. Configs \in Seq(S)
      BY <2>2
    <3> HIDE DEF S
    <3>2. Configs[i] \in S
      BY <3>1
    <3>3. QED
      BY <3>2 DEF S
  <2>4. QED
    BY <2>1, <2>3
<1>4. QED
  BY <1>1, <1>2, <1>3

LEMMA LookupType ==
  ASSUME NEW r \in Requests
  PROVE  Lookup(r.port) \in Locals
<1>1. PICK i \in 1..Len(Configs) : Lookup(r.port) = Configs[i].local
  BY RequestFacts, FirstEntry
<1>2. QED
  BY <1>1 DEF Locals

LEMMA HeaderFacts ==
  ASSUME NEW r \in Requests
  PROVE  /\ Header(r) \in Seq(Byte) /\ Len(Header(r)) = 4
         /\ Header(r)[1] = IF r.kind = "tcp" THEN 1 ELSE 2
         /\ Header(r)[3] = BeBytes(r.port)[1] /\ Header(r)[4] = BeBytes(r.port)[2]
<1> DEFINE k == IF r.kind = "tcp" THEN 1 ELSE 2
           b == BeBytes(r.port)
<1>1. b \in Seq(Byte) /\ Len(b) = 2
  BY RequestFacts, TwoBytes
<1>2. k \in Byte /\ 0 \in Byte
  BY TunnelAssumption DEF Byte
<1>3. Header(r) = <<k, 0>> \o b
  BY DEF Header
<1> HIDE DEF k, b
<1>4. <<k, 0>> \in Seq(Byte) /\ Len(<<k, 0>>) = 2 /\ <<k, 0>>[1] = k
  BY <1>2, PairFacts
<1> DEFINE h == <<k, 0>>
<1>5. h \in Seq(Byte) /\ Len(h) = 2 /\ h[1] = k /\ Header(r) = h \o b
  BY <1>3, <1>4
<1> HIDE DEF h
<1>6. /\ h \o b \in Seq(Byte) /\ Len(h \o b) = Len(h) + Len(b)
      /\ \A i \in 1..Len(h) : (h \o b)[i] = h[i]
      /\ \A i \in 1..Len(b) : (h \o b)[Len(h) + i] = b[i]
  <2>1. h \in Seq(Byte) /\ b \in Seq(Byte)
    BY <1>1, <1>5
  <2>2. QED
    BY <2>1, JoinFacts
<1>7. /\ Len(h \o b) = 4 /\ (h \o b)[1] = h[1]
      /\ (h \o b)[3] = b[1] /\ (h \o b)[4] = b[2]
  <2>1. Len(h) = 2 /\ Len(b) = 2
    BY <1>1, <1>5
  <2>2. 1 \in 1..Len(h) /\ 1 \in 1..Len(b) /\ 2 \in 1..Len(b)
    BY <2>1
  <2>3. Len(h) + Len(b) = 4 /\ Len(h) + 1 = 3 /\ Len(h) + 2 = 4
    BY <2>1
  <2>4. QED
    BY <1>6, <2>2, <2>3
<1>8. QED
  BY <1>5, <1>6, <1>7 DEF k, b

(* The parts of the wire.                                                  *)
LEMMA WireFacts ==
  ASSUME NEW r \in Requests
  PROVE  /\ DataFrom(r) \in 4..6 /\ WireLen(r) \in Nat
         /\ \A i \in 1..4 : Wire(r, 0 + i) = Header(r)[i]
         /\ r.kind = "udp" =>
              \A i \in 1..2 : Wire(r, 4 + i) = BeBytes(Len(r.data))[i]
         /\ \A i \in 1..Len(r.data) : Wire(r, DataFrom(r) + i) = r.data[i]
<1>1. Len(r.data) \in Nat /\ DataFrom(r) \in 4..6
  BY RequestFacts DEF DataFrom
<1>2. ASSUME NEW i \in 1..4 PROVE Wire(r, 0 + i) = Header(r)[i]
  <2>1. 0 + i = i /\ i <= 4
    OBVIOUS
  <2>2. QED
    BY <2>1 DEF Wire
<1>3. ASSUME r.kind = "udp", NEW i \in 1..2
      PROVE  Wire(r, 4 + i) = BeBytes(Len(r.data))[i]
  <2>1. ~(4 + i <= 4) /\ 4 + i <= 6 /\ (4 + i) - 4 = i
    OBVIOUS
  <2>2. DataFrom(r) = 6
    BY <1>3 DEF DataFrom
  <2>3. QED
    BY <2>1, <2>2 DEF Wire
<1>4. ASSUME NEW i \in 1..Len(r.data) PROVE Wire(r, DataFrom(r) + i) = r.data[i]
  <2>1. /\ ~(DataFrom(r) + i <= 4) /\ ~(DataFrom(r) + i <= DataFrom(r))
        /\ (DataFrom(r) + i) - DataFrom(r) = i
    BY <1>1
  <2>2. QED
    BY <2>1 DEF Wire
<1>5. WireLen(r) \in Nat
  BY <1>1 DEF WireLen
<1>6. QED
  BY <1>1, <1>2, <1>3, <1>4, <1>5

(* Reading and writing keep what is on its way a part of the wire.         *)
LEMMA AtJoin ==
  ASSUME NEW r \in Requests, NEW s \in Seq(Byte), NEW t \in Seq(Byte), NEW k \in Nat,
         At(r, s, k), At(r, t, k + Len(s))
  PROVE  At(r, s \o t, k)
<1>1. /\ Len(s \o t) = Len(s) + Len(t) /\ Len(s) \in Nat /\ Len(t) \in Nat
      /\ \A i \in 1..Len(s) : (s \o t)[i] = s[i]
      /\ \A i \in 1..Len(t) : (s \o t)[Len(s) + i] = t[i]
  BY JoinFacts
<1> DEFINE u == s \o t
<1>2. /\ Len(u) = Len(s) + Len(t) /\ Len(s) \in Nat /\ Len(t) \in Nat
      /\ \A i \in 1..Len(s) : u[i] = s[i]
      /\ \A i \in 1..Len(t) : u[Len(s) + i] = t[i]
  BY <1>1
<1> HIDE DEF u
<1>3. ASSUME NEW i \in 1..Len(u) PROVE u[i] = Wire(r, k + i)
  <2>1. CASE i \in 1..Len(s)
    BY <1>2, <2>1 DEF At
  <2>2. CASE i > Len(s)
    <3>1. i - Len(s) \in 1..Len(t) /\ Len(s) + (i - Len(s)) = i
      BY <1>2, <2>2
    <3>2. t[i - Len(s)] = Wire(r, k + Len(s) + (i - Len(s)))
      BY <3>1 DEF At
    <3>3. k + Len(s) + (i - Len(s)) = k + i
      BY <1>2
    <3>4. u[Len(s) + (i - Len(s))] = t[i - Len(s)]
      BY <1>2, <3>1
    <3>5. QED
      BY <3>1, <3>2, <3>3, <3>4
  <2>3. QED
    BY <1>2, <2>1, <2>2
<1>4. k + Len(u) <= WireLen(r)
  <2>1. k + Len(s) + Len(t) <= WireLen(r)
    BY DEF At
  <2>2. QED
    BY <1>2, <2>1
<1>5. QED
  BY <1>3, <1>4 DEF At, u

LEMMA AtDrop ==
  ASSUME NEW r \in Requests, NEW s \in Seq(Byte), NEW k \in Nat, At(r, s, k),
         NEW n \in 0..Len(s)
  PROVE  At(r, Drop(s, n), k + n)
<1> DEFINE u == Drop(s, n)
<1>1. /\ Len(u) = Len(s) - n /\ Len(s) \in Nat
      /\ \A i \in 1..(Len(s) - n) : u[i] = s[n + i]
  BY DropFacts
<1> HIDE DEF u
<1>2. ASSUME NEW i \in 1..Len(u) PROVE u[i] = Wire(r, k + n + i)
  <2>1. n + i \in 1..Len(s) /\ k + (n + i) = k + n + i /\ i \in 1..(Len(s) - n)
    BY <1>1
  <2>2. s[n + i] = Wire(r, k + (n + i))
    BY <2>1 DEF At
  <2>3. QED
    BY <1>1, <2>1, <2>2
<1>3. k + n + Len(u) <= WireLen(r)
  <2>1. k + Len(s) <= WireLen(r) /\ k + n + Len(u) = k + Len(s)
    BY <1>1 DEF At
  <2>2. QED
    BY <2>1
<1>4. QED
  BY <1>2, <1>3 DEF At, u

LEMMA AtTake ==
  ASSUME NEW r \in Requests, NEW s \in Seq(Byte), NEW k \in Nat, At(r, s, k),
         NEW n \in 0..Len(s)
  PROVE  At(r, Take(s, n), k)
<1> DEFINE u == Take(s, n)
<1>1. Len(u) = n /\ Len(s) \in Nat /\ \A i \in 1..n : u[i] = s[i]
  BY TakeFacts
<1> HIDE DEF u
<1>2. ASSUME NEW i \in 1..Len(u) PROVE u[i] = Wire(r, k + i)
  <2>1. i \in 1..Len(s)
    BY <1>1
  <2>2. QED
    BY <1>1, <2>1 DEF At
<1>3. k + Len(u) <= WireLen(r)
  <2>1. k + Len(s) <= WireLen(r) /\ WireLen(r) \in Nat
    BY WireFacts DEF At
  <2>2. QED
    BY <1>1, <2>1
<1>4. QED
  BY <1>2, <1>3 DEF At, u

(* What each write puts on the wire is its part of it.                     *)
LEMMA AtHeader ==
  ASSUME NEW r \in Requests
  PROVE  At(r, Header(r), 0)
<1>1. /\ Len(Header(r)) = 4 /\ Len(r.data) \in Nat /\ DataFrom(r) \in 4..6
      /\ \A i \in 1..4 : Wire(r, 0 + i) = Header(r)[i]
  BY HeaderFacts, WireFacts, RequestFacts
<1>2. 0 + 4 <= WireLen(r)
  BY <1>1 DEF WireLen
<1>3. QED
  BY <1>1, <1>2 DEF At

LEMMA AtLength ==
  ASSUME NEW r \in Requests, r.kind = "udp"
  PROVE  At(r, BeBytes(Len(r.data)), 4)
<1>1. /\ Len(BeBytes(Len(r.data))) = 2 /\ Len(r.data) \in Nat /\ DataFrom(r) = 6
      /\ \A i \in 1..2 : Wire(r, 4 + i) = BeBytes(Len(r.data))[i]
  BY TwoBytes, WireFacts, RequestFacts DEF DataFrom
<1>2. 4 + 2 <= WireLen(r)
  BY <1>1 DEF WireLen
<1>3. QED
  BY <1>1, <1>2 DEF At

LEMMA AtData ==
  ASSUME NEW r \in Requests, r.kind = "udp"
  PROVE  At(r, r.data, 6) /\ WireLen(r) = 6 + Len(r.data)
<1>1. /\ Len(r.data) \in Nat /\ DataFrom(r) = 6
      /\ \A i \in 1..Len(r.data) : Wire(r, 6 + i) = r.data[i]
  BY WireFacts, RequestFacts DEF DataFrom
<1>2. WireLen(r) = 6 + Len(r.data)
  BY <1>1 DEF WireLen
<1>3. QED
  BY <1>1, <1>2 DEF At

LEMMA AtByte ==
  ASSUME NEW r \in Requests, r.kind = "tcp", NEW n \in Nat, n < Len(r.data),
         NEW s \in Seq(Byte), NEW k \in Nat, At(r, s, k), k + Len(s) = 4 + n
  PROVE  /\ Append(s, r.data[n + 1]) \in Seq(Byte)
         /\ At(r, Append(s, r.data[n + 1]), k)
         /\ Len(Append(s, r.data[n + 1])) = Len(s) + 1
<1>1. /\ Len(r.data) \in Nat /\ DataFrom(r) = 4 /\ r.data \in Seq(Byte)
      /\ \A i \in 1..Len(r.data) : Wire(r, 4 + i) = r.data[i]
  BY WireFacts, RequestFacts DEF DataFrom
<1>2. n + 1 \in 1..Len(r.data) /\ 4 + (n + 1) = k + (Len(s) + 1) /\ Len(s) \in Nat
  BY <1>1
<1> DEFINE e == r.data[n + 1]
           u == Append(s, e)
<1>3. e \in Byte /\ e = Wire(r, k + (Len(s) + 1))
  BY <1>1, <1>2
<1> HIDE DEF e
<1>4. /\ u \in Seq(Byte) /\ Len(u) = Len(s) + 1 /\ u[Len(s) + 1] = e
      /\ \A i \in 1..Len(s) : u[i] = s[i]
  BY <1>3, AppendFacts
<1> HIDE DEF u
<1>5. ASSUME NEW i \in 1..Len(u) PROVE u[i] = Wire(r, k + i)
  <2>1. CASE i \in 1..Len(s)
    BY <1>4, <2>1 DEF At
  <2>2. CASE i = Len(s) + 1
    BY <1>3, <1>4, <2>2
  <2>3. QED
    BY <1>2, <1>4, <2>1, <2>2
<1>6. k + Len(u) <= WireLen(r)
  BY <1>1, <1>2, <1>4 DEF WireLen
<1>7. QED
  BY <1>4, <1>5, <1>6 DEF At, u, e

(* What each read makes of its part of the wire.                           *)
LEMMA HeaderRead ==
  ASSUME NEW r \in Requests, NEW s \in Seq(Byte), At(r, s, 0), Len(s) >= 4
  PROVE  FromBe(Drop(s, 2)) = r.port /\ (s[1] = 1 <=> r.kind = "tcp")
<1>1. \A i \in 1..4 : s[i] = Header(r)[i]
  <2>1. Len(s) \in Nat
    OBVIOUS
  <2>2. ASSUME NEW i \in 1..4 PROVE s[i] = Wire(r, 0 + i)
    BY <2>1 DEF At
  <2>3. QED
    BY <2>2, WireFacts
<1>2. Drop(s, 2)[1] = s[3] /\ Drop(s, 2)[2] = s[4]
  <2>1. Len(s) \in Nat
    OBVIOUS
  <2>2. 2 \in 0..Len(s) /\ 1 \in 1..(Len(s) - 2) /\ 2 \in 1..(Len(s) - 2)
    BY <2>1
  <2>3. Drop(s, 2)[1] = s[2 + 1] /\ Drop(s, 2)[2] = s[2 + 2]
    BY <2>2, DropFacts
  <2>4. QED
    BY <2>3
<1>3. FromBe(Drop(s, 2)) = r.port
  BY <1>1, <1>2, HeaderFacts, RequestFacts, ReadBack
<1>4. s[1] = IF r.kind = "tcp" THEN 1 ELSE 2
  BY <1>1, HeaderFacts
<1>5. QED
  BY <1>3, <1>4

LEMMA LengthRead ==
  ASSUME NEW r \in Requests, r.kind = "udp", NEW s \in Seq(Byte), At(r, s, 4),
         Len(s) >= 2
  PROVE  FromBe(s) = Len(r.data)
<1>1. ASSUME NEW i \in 1..2 PROVE s[i] = BeBytes(Len(r.data))[i]
  <2>1. i \in 1..Len(s)
    OBVIOUS
  <2>2. s[i] = Wire(r, 4 + i)
    BY <2>1 DEF At
  <2>3. QED
    BY <2>2, WireFacts
<1>2. QED
  BY <1>1, RequestFacts, ReadBack

LEMMA PayloadRead ==
  ASSUME NEW r \in Requests, r.kind = "udp", NEW s \in Seq(Byte), At(r, s, 6),
         Len(s) >= Len(r.data)
  PROVE  Take(s, Len(r.data)) = r.data
<1> DEFINE n == Len(r.data)
           u == Take(s, n)
           d == r.data
<1>1. n \in 0..Len(s) /\ d \in Seq(Byte) /\ n = Len(d)
  <2>1. n \in Nat /\ Len(s) \in Nat
    BY RequestFacts
  <2>2. QED
    BY <2>1, RequestFacts
<1>2. u \in Seq(Byte) /\ Len(u) = n /\ \A i \in 1..n : u[i] = s[i]
  BY <1>1, TakeFacts
<1>3. ASSUME NEW i \in 1..n PROVE s[i] = d[i]
  <2>1. i \in 1..Len(s) /\ DataFrom(r) = 6
    BY <1>1 DEF DataFrom
  <2>2. s[i] = Wire(r, 6 + i)
    BY <2>1 DEF At
  <2>3. QED
    BY <2>1, <2>2, WireFacts
<1> HIDE DEF n, u, d
<1>4. u = d
  <2>1. Len(u) = Len(d) /\ \A i \in 1..Len(u) : u[i] = d[i]
    BY <1>1, <1>2, <1>3
  <2>2. QED
    BY <1>1, <1>2, <2>1, SeqEqual
<1>5. QED
  BY <1>4 DEF n, u, d

LEMMA ByteRead ==
  ASSUME NEW r \in Requests, r.kind = "tcp", NEW s \in Seq(Byte), NEW n \in Nat,
         At(r, s, 4 + n), s # <<>>
  PROVE  /\ n + 1 \in 1..Len(r.data) /\ Head(s) = r.data[n + 1]
         /\ Tail(s) \in Seq(Byte) /\ Len(Tail(s)) = Len(s) - 1 /\ Len(s) \in Nat
         /\ At(r, Tail(s), 4 + (n + 1))
<1>1. /\ Len(s) \in Nat \ {0} /\ Head(s) = s[1] /\ Tail(s) \in Seq(Byte)
      /\ Len(Tail(s)) = Len(s) - 1
      /\ \A i \in 1..(Len(s) - 1) : Tail(s)[i] = s[1 + i]
  BY TailFacts
<1>2. Len(r.data) \in Nat /\ DataFrom(r) = 4 /\ WireLen(r) = 4 + Len(r.data)
  BY RequestFacts DEF DataFrom, WireLen
<1>3. 4 + n + Len(s) <= 4 + Len(r.data)
  BY <1>2 DEF At
<1>4. n + 1 \in 1..Len(r.data)
  BY <1>1, <1>2, <1>3
<1>5. s[1] = r.data[n + 1]
  <2>1. 1 \in 1..Len(s) /\ 4 + n + 1 = 4 + (n + 1)
    BY <1>1
  <2>2. s[1] = Wire(r, 4 + (n + 1))
    BY <2>1 DEF At
  <2>3. QED
    BY <1>2, <1>4, <2>2, WireFacts
<1>6. At(r, Tail(s), 4 + (n + 1))
  <2> DEFINE u == Tail(s)
  <2>1. Len(u) = Len(s) - 1 /\ \A i \in 1..(Len(s) - 1) : u[i] = s[1 + i]
    BY <1>1
  <2> HIDE DEF u
  <2>2. ASSUME NEW i \in 1..Len(u) PROVE u[i] = Wire(r, 4 + (n + 1) + i)
    <3>1. 1 + i \in 1..Len(s) /\ 4 + n + (1 + i) = 4 + (n + 1) + i /\ i \in 1..(Len(s) - 1)
      BY <1>1, <2>1
    <3>2. s[1 + i] = Wire(r, 4 + n + (1 + i))
      BY <3>1 DEF At
    <3>3. QED
      BY <2>1, <3>1, <3>2
  <2>3. 4 + (n + 1) + Len(u) <= WireLen(r)
    BY <1>1, <1>2, <1>3, <2>1
  <2>4. QED
    BY <2>2, <2>3 DEF At, u
<1>7. QED
  BY <1>1, <1>4, <1>5, <1>6

USE DEF tunnelVars, serverVars, clientVars, lossVars

(* The tunnel starts in the invariant.                                     *)
LEMMA TunnelInitInv == TunnelInit => TunnelInv
<1> SUFFICES ASSUME TunnelInit PROVE TunnelInv
  OBVIOUS
<1>1. TunnelTypeOK
  <2>1. req \in Requests /\ Len(req.data) \in Nat
    BY RequestFacts DEF TunnelInit
  <2>2. want \in [s : U16, c : U16] /\ want.c = 0
    BY ZeroFits DEF TunnelInit
  <2>3. /\ up \in Seq(Byte) /\ down \in Seq(Byte) /\ payload \in Seq(Byte)
        /\ localIn \in Seq(Byte) /\ echoed \in Seq(Byte)
        /\ back \in Seq(Seq(Byte)) /\ forwarded \in Seq(Locals \X Seq(Byte))
    BY DEF TunnelInit
  <2>4. copied \in 0..Len(req.data) /\ replied \in Nat
    BY <2>1 DEF TunnelInit
  <2>5. QED
    BY <2>1, <2>2, <2>3, <2>4 DEF TunnelInit, TunnelTypeOK
<1>2. Phases /\ DownInv /\ EndInv
  BY DEF TunnelInit, Phases, DownInv, EndInv
<1>3. UpInv
  <2>1. ClientAt(cpc, Len(localIn)) = 0 /\ ServerAt(spc, copied, req) = 0
    BY DEF TunnelInit, ClientAt, ServerAt
  <2>2. req \in Requests /\ up = <<>>
    BY DEF TunnelInit
  <2>3. WireLen(req) \in Nat
    BY <2>2, WireFacts
  <2>4. At(req, up, 0)
    BY <2>2, <2>3 DEF At
  <2>5. QED
    BY <2>1, <2>2, <2>4 DEF UpInv
<1>4. ReadInv
  <2>1. req \in Requests /\ Len(req.data) \in Nat
    BY RequestFacts DEF TunnelInit
  <2>2. QED
    BY <2>1 DEF TunnelInit, ReadInv
<1>5. QED
  BY <1>1, <1>2, <1>3, <1>4 DEF TunnelInv

(* Every step keeps the types.                                             *)
LEMMA TunnelTypes ==
  ASSUME TunnelInv, [TunnelNext]_tunnelVars
  PROVE  TunnelTypeOK'
<1> USE DEF TunnelTypeOK
<1>0. /\ TunnelTypeOK /\ req \in Requests /\ req.data \in Seq(Byte)
      /\ Len(req.data) \in Nat /\ Len(req.data) \in U16
      /\ up \in Seq(Byte) /\ down \in Seq(Byte) /\ Len(up) \in Nat /\ Len(down) \in Nat
  BY RequestFacts DEF TunnelInv
<1>1. CASE WriteHeader
  <2>1. up' \in Seq(Byte)
    BY <1>0, <1>1, HeaderFacts, JoinFacts DEF WriteHeader, ServerWrites
  <2>2. QED
    BY <1>0, <1>1, <2>1 DEF WriteHeader, ServerWrites
<1>2. CASE WriteLen
  <2>1. up' \in Seq(Byte)
    BY <1>0, <1>2, TwoBytes, JoinFacts DEF WriteLen, ServerWrites
  <2>2. QED
    BY <1>0, <1>2, <2>1 DEF WriteLen, ServerWrites
<1>3. CASE WritePayload
  <2>1. up' \in Seq(Byte)
    BY <1>0, <1>3, JoinFacts DEF WritePayload, ServerWrites
  <2>2. QED
    BY <1>0, <1>3, <2>1 DEF WritePayload, ServerWrites
<1>4. CASE ServerWriteFails
  BY <1>0, <1>4 DEF ServerWriteFails
<1>5. CASE ReadLen
  <2>1. down' \in Seq(Byte) /\ FromBe(down) \in U16
    <3>1. 2 \in 0..Len(down) /\ Len(down) >= 2
      BY <1>0, <1>5 DEF ReadLen
    <3>2. down' = Drop(down, 2)
      BY <1>5 DEF ReadLen
    <3>3. QED
      BY <1>0, <3>1, <3>2, DropFacts, FromBeType
  <2>2. want' \in [s : U16, c : U16] /\ want'.c = want.c
    BY <1>0, <1>5, <2>1 DEF ReadLen
  <2>3. QED
    BY <1>0, <1>5, <2>1, <2>2 DEF ReadLen
<1>6. CASE ReadBody
  <2>1. want.s \in 0..Len(down)
    <3>1. want.s \in U16 /\ Base \in Nat
      BY <1>0, TunnelAssumption
    <3>2. want.s \in Int /\ want.s >= 0
      BY <3>1 DEF U16
    <3>3. QED
      BY <1>0, <1>6, <3>2 DEF ReadBody
  <2>2. down' \in Seq(Byte) /\ Take(down, want.s) \in Seq(Byte)
    BY <1>0, <1>6, <2>1, DropFacts, TakeFacts DEF ReadBody
  <2>3. back' \in Seq(Seq(Byte))
    BY <1>0, <1>6, <2>2, AppendFacts DEF ReadBody
  <2>4. QED
    BY <1>0, <1>6, <2>2, <2>3 DEF ReadBody
<1>7. CASE ServerReadFails
  BY <1>0, <1>7 DEF ServerReadFails
<1>8. CASE ServerCopiesUp
  <2>1. CASE copied < Len(req.data)
    <3>1. copied + 1 \in 1..Len(req.data)
      BY <1>0, <2>1
    <3>2. req.data[copied + 1] \in Byte
      BY <1>0, <3>1
    <3>3. up' = Append(up, req.data[copied + 1]) /\ copied' = copied + 1 /\ upEof' = upEof
      BY <1>8, <2>1 DEF ServerCopiesUp
    <3>4. up' \in Seq(Byte)
      BY <1>0, <3>2, <3>3, AppendFacts
    <3>5. copied' \in 0..Len(req.data)
      BY <1>0, <3>1, <3>3
    <3>6. QED
      BY <1>0, <1>8, <3>3, <3>4, <3>5 DEF ServerCopiesUp
  <2>2. CASE ~(copied < Len(req.data))
    BY <1>0, <1>8, <2>2 DEF ServerCopiesUp
  <2>3. QED
    BY <2>1, <2>2
<1>9. CASE ServerCopiesDown
  <2>1. down' \in Seq(Byte) /\ echoed' \in Seq(Byte)
    BY <1>0, <1>9, TailFacts, AppendFacts DEF ServerCopiesDown
  <2>2. QED
    BY <1>0, <1>9, <2>1 DEF ServerCopiesDown
<1>10. CASE ServerCopyEnds \/ OutsideFails
  BY <1>0, <1>10 DEF ServerCopyEnds, OutsideFails
<1>11. CASE ReadHeader
  <2>1. At(req, up, 0)
    BY <1>11 DEF TunnelInv, UpInv, Reading, ClientAt, ReadHeader
  <2>2. local' \in Locals
    BY <1>0, <1>11, <2>1, HeaderRead, LookupType DEF ReadHeader
  <2>3. up' \in Seq(Byte)
    BY <1>0, <1>11, DropFacts DEF ReadHeader
  <2>4. QED
    BY <1>0, <1>11, <2>2, <2>3 DEF ReadHeader
<1>12. CASE ReadPayloadLen
  <2>1. up' \in Seq(Byte) /\ FromBe(up) \in U16
    <3>1. 2 \in 0..Len(up) /\ Len(up) >= 2
      BY <1>0, <1>12 DEF ReadPayloadLen
    <3>2. up' = Drop(up, 2)
      BY <1>12 DEF ReadPayloadLen
    <3>3. QED
      BY <1>0, <3>1, <3>2, DropFacts, FromBeType
  <2>2. want' \in [s : U16, c : U16] /\ want'.c = FromBe(up)
    BY <1>0, <1>12, <2>1 DEF ReadPayloadLen
  <2>3. At(req, up, 4) /\ Len(up) >= 2 /\ req.kind = "udp"
    BY <1>12 DEF ReadPayloadLen, ClientAt, Reading, TunnelInv, Phases, UpInv
  <2>4. FromBe(up) = Len(req.data)
    BY <1>0, <2>3, LengthRead
  <2>5. QED
    BY <1>0, <1>12, <2>1, <2>2, <2>4 DEF ReadPayloadLen
<1>13. CASE ReadPayload
  <2>1. want.c \in 0..Len(up)
    <3>1. want.c \in U16 /\ Base \in Nat
      BY <1>0, TunnelAssumption
    <3>2. want.c \in Int /\ want.c >= 0
      BY <3>1 DEF U16
    <3>3. QED
      BY <1>0, <1>13, <3>2 DEF ReadPayload
  <2>2. up' \in Seq(Byte) /\ payload' \in Seq(Byte)
    BY <1>0, <1>13, <2>1, DropFacts, TakeFacts DEF ReadPayload
  <2>3. QED
    BY <1>0, <1>13, <2>2 DEF ReadPayload
<1>14. CASE \/ ClientReadFails \/ LocalUnreachable \/ ReplyTimeout \/ ClientCopyEnds
            \/ LocalFails
  BY <1>0, <1>14 DEF ClientReadFails, LocalUnreachable, ReplyTimeout, ClientCopyEnds,
                     LocalFails, ClientReturns
<1>15. CASE SendToLocal
  <2>1. <<local, payload>> \in Locals \X Seq(Byte)
    <3>1. local = Lookup(req.port)
      BY <1>15 DEF TunnelInv, ReadInv, SendToLocal
    <3>2. QED
      BY <1>0, <3>1, LookupType
  <2>2. forwarded' \in Seq(Locals \X Seq(Byte))
    BY <1>0, <1>15, <2>1, AppendFacts DEF SendToLocal
  <2>3. QED
    BY <1>0, <1>15, <2>2 DEF SendToLocal
<1>16. CASE LocalReplies
  BY <1>0, <1>16 DEF LocalReplies
<1>17. CASE RelayReply
  <2>1. reply \in Seq(Byte) /\ Len(reply) \in Nat
    <3>1. reply \in Seq(Byte)
      BY <1>0, <1>17, TunnelAssumption DEF RelayReply
    <3>2. QED
      BY <3>1
  <2>2. down \o reply \in Seq(Byte)
    BY <1>0, <2>1, JoinFacts
  <2>3. down' \in Seq(Byte)
    BY <1>0, <1>17, <2>2 DEF RelayReply, ReplyBytes
  <2>4. QED
    BY <1>0, <1>17, <2>1, <2>3 DEF RelayReply, ClientReturns
<1>18. CASE ConnectLocal
  BY <1>0, <1>18 DEF ConnectLocal
<1>19. CASE ClientCopiesIn
  <2>1. up' \in Seq(Byte) /\ localIn' \in Seq(Byte)
    BY <1>0, <1>19, TailFacts, AppendFacts DEF ClientCopiesIn
  <2>2. QED
    BY <1>0, <1>19, <2>1 DEF ClientCopiesIn
<1>20. CASE ClientCopiesOut
  <2>1. reply \in Seq(Byte)
    BY <1>0, <1>20, TunnelAssumption DEF ClientCopiesOut
  <2>2. replied + 1 \in 1..Len(reply)
    BY <1>0, <1>20, <2>1 DEF ClientCopiesOut
  <2>3. reply[replied + 1] \in Byte
    BY <2>1, <2>2
  <2>4. down' \in Seq(Byte) /\ replied' \in Nat
    BY <1>0, <1>20, <2>3, AppendFacts DEF ClientCopiesOut
  <2>5. QED
    BY <1>0, <1>20, <2>4 DEF ClientCopiesOut
<1>21. CASE Break
  <2>1. PICK i \in 0..Len(up) : \E j \in 0..Len(down) :
          up' = Take(up, i) /\ down' = Take(down, j)
    BY <1>21 DEF Break
  <2>2. PICK j \in 0..Len(down) : up' = Take(up, i) /\ down' = Take(down, j)
    BY <2>1
  <2>3. up' \in Seq(Byte) /\ down' \in Seq(Byte)
    BY <1>0, <2>2, TakeFacts
  <2>4. QED
    BY <1>0, <1>21, <2>3 DEF Break
<1>22. CASE Done \/ UNCHANGED tunnelVars
  BY <1>0, <1>22 DEF Done
<1>23. QED
  BY <1>1, <1>2, <1>3, <1>4, <1>5, <1>6, <1>7, <1>8, <1>9, <1>10, <1>11, <1>12, <1>13,
     <1>14, <1>15, <1>16, <1>17, <1>18, <1>19, <1>20, <1>21, <1>22
  DEF TunnelNext, Server, Client

(* Every step keeps the ends in the phases of their protocol.              *)
LEMMA TunnelPhases ==
  ASSUME TunnelInv, [TunnelNext]_tunnelVars
  PROVE  Phases'
<1>0. /\ Phases /\ req.kind \in {"tcp", "udp"} /\ Len(req.data) \in Nat
      /\ copied \in 0..Len(req.data)
      /\ upEof \in BOOLEAN /\ downEof \in BOOLEAN /\ broken \in BOOLEAN
      /\ failed \in BOOLEAN
      /\ spc \in {"header", "len", "payload", "readLen", "readBody", "copy", "closed"}
      /\ cpc \in {"header", "len", "payload", "send", "await", "connect", "copy",
                  "closed"}
  BY RequestFacts DEF TunnelInv, TunnelTypeOK
<1> USE <1>0 DEF Phases
<1>1. CASE WriteHeader \/ WriteLen \/ WritePayload
  BY <1>1 DEF WriteHeader, WriteLen, WritePayload, ServerWrites
<1>2. CASE ServerWriteFails
  BY <1>2 DEF ServerWriteFails
<1>3. CASE ReadLen \/ ReadBody
  BY <1>3 DEF ReadLen, ReadBody
<1>4. CASE ServerReadFails
  BY <1>4 DEF ServerReadFails, ReadFails
<1>5. CASE ServerCopiesUp
  BY <1>5 DEF ServerCopiesUp
<1>6. CASE ServerCopiesDown
  BY <1>6 DEF ServerCopiesDown
<1>7. CASE ServerCopyEnds \/ OutsideFails
  BY <1>7 DEF ServerCopyEnds, OutsideFails
<1>8. CASE ReadHeader
  <2>1. At(req, up, 0) /\ up \in Seq(Byte) /\ req \in Requests
    BY <1>8 DEF TunnelInv, TunnelTypeOK, UpInv, Reading, ClientAt, ReadHeader
  <2>2. cpc' = IF req.kind = "tcp" THEN "connect" ELSE "len"
    BY <1>8, <2>1, HeaderRead DEF ReadHeader
  <2>3. QED
    BY <1>8, <2>2 DEF ReadHeader
<1>9. CASE ReadPayloadLen \/ ReadPayload \/ SendToLocal \/ ConnectLocal
  BY <1>9 DEF ReadPayloadLen, ReadPayload, SendToLocal, ConnectLocal
<1>10. CASE \/ ClientReadFails \/ LocalUnreachable \/ ReplyTimeout \/ ClientCopyEnds
            \/ RelayReply \/ LocalFails
  BY <1>10 DEF ClientReadFails, LocalUnreachable, ReplyTimeout, ClientCopyEnds,
               RelayReply, LocalFails, ClientReturns
<1>11. CASE LocalReplies \/ ClientCopiesIn \/ ClientCopiesOut
  BY <1>11 DEF LocalReplies, ClientCopiesIn, ClientCopiesOut
<1>12. CASE Break
  BY <1>12 DEF Break
<1>13. CASE Done \/ UNCHANGED tunnelVars
  BY <1>13 DEF Done
<1>14. QED
  BY <1>1, <1>2, <1>3, <1>4, <1>5, <1>6, <1>7, <1>8, <1>9, <1>10, <1>11, <1>12, <1>13
  DEF TunnelNext, Server, Client

(* Every step keeps what is on its way to the client a part of the wire.   *)
LEMMA TunnelUp ==
  ASSUME TunnelInv, [TunnelNext]_tunnelVars
  PROVE  UpInv'
<1>0. /\ Phases /\ UpInv /\ req \in Requests /\ Len(req.data) \in Nat /\ copied \in Nat
      /\ copied \in 0..Len(req.data)
      /\ broken \in BOOLEAN /\ up \in Seq(Byte) /\ Len(up) \in Nat
      /\ localIn \in Seq(Byte) /\ Len(localIn) \in Nat
  BY RequestFacts DEF TunnelInv, TunnelTypeOK
<1> DEFINE k == ClientAt(cpc, Len(localIn))
<1>a. k \in Nat
  BY <1>0 DEF ClientAt
<1>b. ASSUME UNCHANGED <<req, cpc, localIn>>, cpc \in Reading,
             At(req, up', k), broken' = FALSE => k + Len(up') = ServerAt(spc, copied, req)'
      PROVE  UpInv'
  BY <1>b DEF UpInv
<1>c. ASSUME cpc \notin Reading, UNCHANGED cpc PROVE UpInv'
  BY <1>c DEF UpInv
<1>1. CASE WriteHeader \/ WriteLen \/ WritePayload
  <2>1. SUFFICES ASSUME cpc \in Reading PROVE UpInv'
    BY <1>1, <1>c DEF WriteHeader, WriteLen, WritePayload, ServerWrites
  <2>2. At(req, up, k) /\ k + Len(up) = ServerAt(spc, copied, req)
    BY <1>0, <1>1, <2>1 DEF UpInv, WriteHeader, WriteLen, WritePayload, ServerWrites
  <2> HIDE DEF k
  <2>3. ASSUME NEW b \in Seq(Byte), up' = up \o b, At(req, b, k + Len(up)),
               ServerAt(spc, copied, req)' = k + Len(up) + Len(b)
        PROVE  UpInv'
    <3>1. At(req, up', k) /\ Len(up') = Len(up) + Len(b) /\ Len(b) \in Nat
      BY <1>0, <1>a, <2>2, <2>3, AtJoin, JoinFacts
    <3>2. k + Len(up') = ServerAt(spc, copied, req)'
      BY <1>0, <1>a, <2>3, <3>1
    <3>3. UNCHANGED <<req, cpc, localIn>>
      BY <1>1 DEF WriteHeader, WriteLen, WritePayload, ServerWrites
    <3>4. QED
      BY <1>b, <2>1, <3>1, <3>2, <3>3
  <2>4. CASE WriteHeader
    <3>1. /\ spc = "header" /\ up' = up \o Header(req) /\ UNCHANGED <<req, copied>>
          /\ spc' = IF req.kind = "tcp" THEN "copy" ELSE "len"
      BY <2>4 DEF WriteHeader, ServerWrites
    <3>2. k + Len(up) = 0 /\ Header(req) \in Seq(Byte) /\ Len(Header(req)) = 4
      BY <1>0, <2>2, <3>1, HeaderFacts DEF ServerAt
    <3>3. copied = 0
      BY <1>0, <3>1 DEF Phases
    <3>4. ServerAt(spc, copied, req)' = 4
      BY <3>1, <3>3 DEF ServerAt
    <3>5. At(req, Header(req), k + Len(up))
      BY <1>0, <3>2, AtHeader
    <3>6. k + Len(up) + Len(Header(req)) = 4
      BY <3>2
    <3>7. QED
      BY <2>3, <3>1, <3>2, <3>4, <3>5, <3>6
  <2>5. CASE WriteLen
    <3> DEFINE b == BeBytes(Len(req.data))
    <3>1. /\ spc = "len" /\ up' = up \o b /\ UNCHANGED <<req, copied>>
          /\ spc' = "payload"
      BY <2>5 DEF WriteLen, ServerWrites
    <3>2. req.kind = "udp"
      BY <1>0, <3>1 DEF Phases
    <3>3. k + Len(up) = 4 /\ b \in Seq(Byte) /\ Len(b) = 2 /\ At(req, b, 4)
      BY <1>0, <2>2, <3>1, <3>2, TwoBytes, AtLength, RequestFacts DEF ServerAt
    <3>4. ServerAt(spc, copied, req)' = 6
      BY <3>1 DEF ServerAt
    <3> HIDE DEF b
    <3>5. k + Len(up) + Len(b) = 6
      BY <3>3
    <3>6. QED
      BY <2>3, <3>1, <3>3, <3>4, <3>5
  <2>6. CASE WritePayload
    <3>1. /\ spc = "payload" /\ up' = up \o req.data /\ UNCHANGED <<req, copied>>
          /\ spc' = "readLen"
      BY <2>6 DEF WritePayload, ServerWrites
    <3>2. req.kind = "udp"
      BY <1>0, <3>1 DEF Phases
    <3>3. /\ k + Len(up) = 6 /\ req.data \in Seq(Byte) /\ At(req, req.data, 6)
          /\ WireLen(req) = 6 + Len(req.data)
      BY <1>0, <2>2, <3>1, <3>2, AtData, RequestFacts DEF ServerAt
    <3>4. ServerAt(spc, copied, req)' = WireLen(req)
      BY <3>1 DEF ServerAt
    <3>5. QED
      BY <2>3, <3>1, <3>3, <3>4
  <2>7. QED
    BY <1>1, <2>4, <2>5, <2>6
<1>2. CASE \/ ServerWriteFails \/ ServerReadFails \/ ServerCopyEnds \/ OutsideFails
  <2>1. UNCHANGED <<req, cpc, localIn, up, broken, copied>> /\ spc' = "closed"
    BY <1>2 DEF ServerWriteFails, ServerReadFails, ServerCopyEnds, OutsideFails
  <2>2. CASE ServerWriteFails \/ ServerReadFails
    <3>1. broken = FALSE => cpc = "closed"
      BY <1>0, <2>2 DEF Phases, ServerWriteFails, ServerReadFails, ReadFails
    <3>2. QED
      BY <1>0, <2>1, <3>1 DEF UpInv, Reading
  <2>3. CASE ServerCopyEnds \/ OutsideFails
    <3>1. spc = "copy"
      BY <2>3 DEF ServerCopyEnds, OutsideFails
    <3>2. ServerAt(spc, copied, req)' = ServerAt(spc, copied, req)
      BY <2>1, <3>1 DEF ServerAt
    <3>3. QED
      BY <1>0, <2>1, <3>2 DEF UpInv
  <2>4. QED
    BY <1>2, <2>2, <2>3
<1>3. CASE ReadLen \/ ReadBody
  <2>1. /\ UNCHANGED <<req, cpc, localIn, up, broken, copied>>
        /\ {spc, spc'} \subseteq {"readLen", "readBody"}
    BY <1>3 DEF ReadLen, ReadBody
  <2>2. ServerAt(spc, copied, req)' = ServerAt(spc, copied, req)
    BY <2>1 DEF ServerAt
  <2>3. QED
    BY <1>0, <2>1, <2>2 DEF UpInv
<1>4. CASE ServerCopiesUp
  <2>1. SUFFICES ASSUME cpc \in Reading PROVE UpInv'
    BY <1>4, <1>c DEF ServerCopiesUp
  <2>2. At(req, up, k) /\ k + Len(up) = 4 + copied /\ req.kind = "tcp"
    BY <1>0, <1>4, <2>1 DEF UpInv, ServerCopiesUp, Phases, ServerAt
  <2>3. UNCHANGED <<req, cpc, localIn, spc, broken>> /\ spc = "copy"
    BY <1>4 DEF ServerCopiesUp
  <2>4. ServerAt(spc, copied, req)' = 4 + copied'
    BY <2>3 DEF ServerAt
  <2> HIDE DEF k
  <2>5. CASE copied < Len(req.data)
    <3>1. up' = Append(up, req.data[copied + 1]) /\ copied' = copied + 1
      BY <1>4, <2>5 DEF ServerCopiesUp
    <3>2. At(req, up', k) /\ Len(up') = Len(up) + 1
      BY <1>0, <1>a, <2>2, <2>5, <3>1, AtByte
    <3>3. k + Len(up') = 4 + copied'
      BY <1>0, <1>a, <2>2, <3>1, <3>2
    <3>4. QED
      BY <1>b, <2>1, <2>3, <2>4, <3>2, <3>3
  <2>6. CASE ~(copied < Len(req.data))
    <3>1. up' = up /\ copied' = copied
      BY <1>4, <2>6 DEF ServerCopiesUp
    <3>2. QED
      BY <1>b, <2>1, <2>2, <2>3, <2>4, <3>1
  <2>7. QED
    BY <2>5, <2>6
<1>5. CASE ServerCopiesDown \/ LocalReplies \/ ClientCopiesOut
  <2>1. UNCHANGED <<req, cpc, localIn, up, broken, spc, copied>>
    BY <1>5 DEF ServerCopiesDown, LocalReplies, ClientCopiesOut
  <2>2. QED
    BY <1>0, <2>1 DEF UpInv
<1>6. ASSUME NEW n \in 0..Len(up), cpc \in Reading, up' = Drop(up, n),
             UNCHANGED <<req, spc, copied, broken>>,
             ClientAt(cpc, Len(localIn))' = k + n
      PROVE  UpInv'
  <2> HIDE DEF k
  <2>1. At(req, up, k) /\ (broken = FALSE => k + Len(up) = ServerAt(spc, copied, req))
    BY <1>0, <1>6 DEF UpInv, k
  <2>2. At(req, up', k + n) /\ Len(up') = Len(up) - n
    BY <1>0, <1>6, <1>a, <2>1, AtDrop, DropFacts
  <2>3. k + n + Len(up') = k + Len(up)
    BY <1>0, <1>a, <2>2
  <2>4. QED
    BY <1>6, <2>1, <2>2, <2>3 DEF UpInv
<1>7. CASE ReadHeader
  <2>1. 4 \in 0..Len(up) /\ up' = Drop(up, 4) /\ cpc = "header" /\ k = 0
    BY <1>0, <1>7 DEF ReadHeader, ClientAt
  <2>2. ClientAt(cpc, Len(localIn))' = 0 + 4
    BY <1>7 DEF ReadHeader, ClientAt
  <2>3. UNCHANGED <<req, spc, copied, broken>>
    BY <1>7 DEF ReadHeader
  <2>4. QED
    BY <1>6, <2>1, <2>2, <2>3 DEF Reading
<1>8. CASE ReadPayloadLen
  <2>1. 2 \in 0..Len(up) /\ up' = Drop(up, 2) /\ cpc = "len" /\ k = 4
    BY <1>0, <1>8 DEF ReadPayloadLen, ClientAt
  <2>2. ClientAt(cpc, Len(localIn))' = 4 + 2
    BY <1>8 DEF ReadPayloadLen, ClientAt
  <2>3. UNCHANGED <<req, spc, copied, broken>>
    BY <1>8 DEF ReadPayloadLen
  <2>4. QED
    BY <1>6, <2>1, <2>2, <2>3 DEF Reading
<1>9. CASE ReadPayload \/ SendToLocal
  BY <1>9 DEF ReadPayload, SendToLocal, UpInv, Reading
<1>10. CASE \/ ClientReadFails \/ LocalUnreachable \/ ReplyTimeout \/ ClientCopyEnds
            \/ RelayReply \/ LocalFails
  BY <1>10 DEF ClientReadFails, LocalUnreachable, ReplyTimeout, ClientCopyEnds,
               RelayReply, LocalFails, ClientReturns, UpInv, Reading
<1>11. CASE ConnectLocal
  <2>1. UNCHANGED <<req, up, spc, copied, broken, localIn>> /\ cpc = "connect" /\ cpc' = "copy"
    BY <1>11 DEF ConnectLocal
  <2>2. localIn = <<>> /\ Len(localIn) = 0
    BY <2>1 DEF TunnelInv, ReadInv
  <2>3. ClientAt(cpc, Len(localIn))' = k
    BY <2>1, <2>2 DEF ClientAt
  <2>4. QED
    BY <1>0, <2>1, <2>3 DEF UpInv, Reading
<1>12. CASE ClientCopiesIn
  <2>1. /\ cpc = "copy" /\ up # <<>> /\ UNCHANGED <<req, cpc, spc, copied, broken>>
        /\ up' = Tail(up) /\ localIn' = Append(localIn, Head(up))
    BY <1>12 DEF ClientCopiesIn
  <2>2. /\ At(req, up, 4 + Len(localIn)) /\ req.kind = "tcp"
        /\ broken = FALSE => 4 + Len(localIn) + Len(up) = ServerAt(spc, copied, req)
    BY <1>0, <2>1 DEF UpInv, Reading, ClientAt, Phases
  <2>3. At(req, up', 4 + (Len(localIn) + 1)) /\ Len(up') = Len(up) - 1
    BY <1>0, <2>1, <2>2, ByteRead
  <2>4. Len(localIn') = Len(localIn) + 1
    BY <1>0, <2>1, TailFacts, AppendFacts
  <2>5. ClientAt(cpc, Len(localIn))' = 4 + (Len(localIn) + 1)
    BY <2>1, <2>4 DEF ClientAt
  <2>6. 4 + (Len(localIn) + 1) + Len(up') = 4 + Len(localIn) + Len(up)
    BY <1>0, <2>3
  <2>7. QED
    BY <2>1, <2>2, <2>3, <2>5, <2>6 DEF UpInv
<1>13. CASE Break
  <2>1. PICK i \in 0..Len(up) : up' = Take(up, i)
    BY <1>13 DEF Break
  <2>2. UNCHANGED <<req, cpc, localIn, spc, copied>> /\ broken' = TRUE
    BY <1>13 DEF Break
  <2>3. SUFFICES ASSUME cpc \in Reading PROVE UpInv'
    BY <1>c, <2>2
  <2>4. At(req, up, k)
    BY <1>0, <2>3 DEF UpInv
  <2> HIDE DEF k
  <2>5. At(req, up', k)
    BY <1>0, <1>a, <2>1, <2>4, AtTake
  <2>6. QED
    BY <1>b, <2>2, <2>3, <2>5
<1>14. CASE Done \/ UNCHANGED tunnelVars
  BY <1>0, <1>14 DEF Done, UpInv
<1>15. QED
  BY <1>1, <1>2, <1>3, <1>4, <1>5, <1>7, <1>8, <1>9, <1>10, <1>11, <1>12, <1>13, <1>14
  DEF TunnelNext, Server, Client

(* Every step keeps what the client made of the bytes it read.             *)
LEMMA TunnelRead ==
  ASSUME TunnelInv, [TunnelNext]_tunnelVars
  PROVE  ReadInv'
<1>0. /\ ReadInv /\ req \in Requests /\ up \in Seq(Byte) /\ Len(up) \in Nat
      /\ localIn \in Seq(Byte) /\ Len(localIn) \in Nat /\ Len(req.data) \in Nat
      /\ want \in [s : U16, c : U16]
      /\ cpc \in Reading => At(req, up, ClientAt(cpc, Len(localIn)))
  BY RequestFacts DEF TunnelInv, TunnelTypeOK, UpInv
<1>1. CASE UNCHANGED <<req, cpc, local, want, payload, forwarded, localIn>>
  BY <1>0, <1>1 DEF ReadInv
<1>2. CASE \/ WriteHeader \/ WriteLen \/ WritePayload \/ ServerWriteFails
           \/ ReadBody \/ ServerReadFails \/ ServerCopiesUp \/ ServerCopiesDown
           \/ ServerCopyEnds \/ OutsideFails \/ LocalReplies \/ Break
           \/ ClientCopiesOut \/ Done \/ UNCHANGED tunnelVars
  BY <1>1, <1>2 DEF WriteHeader, WriteLen, WritePayload, ServerWrites, ServerWriteFails,
     ReadBody, ServerReadFails, ServerCopiesUp, ServerCopiesDown, ServerCopyEnds,
     OutsideFails, LocalReplies, Break, ClientCopiesOut, Done
<1>3. CASE ReadLen
  <2>1. want'.c = want.c
    BY <1>0, <1>3 DEF ReadLen
  <2>2. UNCHANGED <<req, cpc, local, payload, forwarded, localIn>>
    BY <1>3 DEF ReadLen
  <2>3. QED
    BY <1>0, <2>1, <2>2 DEF ReadInv
<1>4. CASE ReadHeader
  <2>1. At(req, up, 0) /\ Len(up) >= 4 /\ local' = Lookup(FromBe(Drop(up, 2)))
    BY <1>0, <1>4 DEF ReadHeader, ClientAt, Reading
  <2>2. local' = Lookup(req.port)
    BY <1>0, <2>1, HeaderRead
  <2>3. /\ UNCHANGED <<req, payload, forwarded, localIn, want>>
        /\ cpc = "header" /\ cpc' \in {"connect", "len"}
    BY <1>4 DEF ReadHeader
  <2>4. QED
    BY <1>0, <2>2, <2>3 DEF ReadInv
<1>5. CASE ReadPayloadLen
  <2>1. /\ At(req, up, 4) /\ Len(up) >= 2 /\ want' = [want EXCEPT !.c = FromBe(up)]
        /\ req.kind = "udp"
    BY <1>0, <1>5 DEF ReadPayloadLen, ClientAt, Reading, TunnelInv, Phases
  <2>2. want'.c = Len(req.data)
    BY <1>0, <2>1, LengthRead
  <2>3. /\ UNCHANGED <<req, payload, forwarded, localIn, local>>
        /\ cpc = "len" /\ cpc' = "payload"
    BY <1>5 DEF ReadPayloadLen
  <2>4. QED
    BY <1>0, <2>2, <2>3 DEF ReadInv
<1>6. CASE ReadPayload
  <2>1. /\ At(req, up, 6) /\ Len(up) >= want.c /\ payload' = Take(up, want.c)
        /\ req.kind = "udp" /\ want.c = Len(req.data)
    BY <1>0, <1>6 DEF ReadPayload, ClientAt, Reading, TunnelInv, Phases, ReadInv
  <2>2. payload' = req.data
    BY <1>0, <2>1, PayloadRead
  <2>3. /\ UNCHANGED <<req, want, forwarded, localIn, local>>
        /\ cpc = "payload" /\ cpc' = "send"
    BY <1>6 DEF ReadPayload
  <2>4. QED
    BY <1>0, <2>2, <2>3 DEF ReadInv
<1>7. CASE SendToLocal
  <2>1. /\ UNCHANGED <<req, want, payload, localIn, local>>
        /\ cpc = "send" /\ cpc' = "await"
        /\ forwarded' = Append(forwarded, <<local, payload>>)
    BY <1>7 DEF SendToLocal
  <2>2. /\ forwarded = <<>> /\ local = Lookup(req.port) /\ payload = req.data
        /\ req.kind = "udp"
    BY <1>0, <2>1 DEF ReadInv, TunnelInv, Phases
  <2>3. forwarded' = <<<<Lookup(req.port), req.data>>>>
    BY <2>1, <2>2
  <2>4. QED
    BY <1>0, <2>1, <2>2, <2>3 DEF ReadInv
<1>8. CASE \/ ClientReadFails \/ LocalUnreachable \/ ReplyTimeout \/ ClientCopyEnds
           \/ RelayReply \/ LocalFails
  <2>1. UNCHANGED <<req, want, payload, forwarded, localIn, local>> /\ cpc' = "closed"
    BY <1>8 DEF ClientReadFails, LocalUnreachable, ReplyTimeout, ClientCopyEnds,
                RelayReply, LocalFails, ClientReturns
  <2>2. QED
    BY <1>0, <2>1 DEF ReadInv
<1>9. CASE ConnectLocal
  <2>1. /\ UNCHANGED <<req, want, payload, forwarded, localIn, local>>
        /\ cpc = "connect" /\ cpc' = "copy"
    BY <1>9 DEF ConnectLocal
  <2>2. QED
    BY <1>0, <2>1 DEF ReadInv
<1>10. CASE ClientCopiesIn
  <2>1. /\ UNCHANGED <<req, cpc, want, payload, forwarded, local>>
        /\ cpc = "copy" /\ up # <<>> /\ localIn' = Append(localIn, Head(up))
    BY <1>10 DEF ClientCopiesIn
  <2>2. /\ req.kind = "tcp" /\ At(req, up, 4 + Len(localIn))
    BY <1>0, <2>1 DEF ClientAt, Reading, TunnelInv, Phases
  <2>3. Len(localIn) + 1 \in 1..Len(req.data) /\ Head(up) = req.data[Len(localIn) + 1]
    BY <1>0, <2>1, <2>2, ByteRead
  <2>4. Head(up) \in Byte
    BY <1>0, <2>1, TailFacts
  <2>5. /\ Len(localIn') = Len(localIn) + 1
        /\ \A i \in 1..Len(localIn) : localIn'[i] = localIn[i]
        /\ localIn'[Len(localIn) + 1] = req.data[Len(localIn) + 1]
    BY <1>0, <2>1, <2>3, <2>4, AppendFacts
  <2>6. ASSUME NEW i \in 1..Len(localIn') PROVE localIn'[i] = req.data[i]
    <3>1. CASE i \in 1..Len(localIn)
      BY <1>0, <2>2, <2>5, <3>1 DEF ReadInv
    <3>2. CASE i = Len(localIn) + 1
      BY <2>5, <3>2
    <3>3. i \in 1..Len(localIn) \/ i = Len(localIn) + 1
      BY <1>0, <2>5
    <3>4. QED
      BY <3>1, <3>2, <3>3
  <2>7. Len(localIn') <= Len(req.data)
    BY <1>0, <2>3, <2>5
  <2>8. QED
    BY <1>0, <2>1, <2>6, <2>7 DEF ReadInv
<1>11. QED
  BY <1>2, <1>3, <1>4, <1>5, <1>6, <1>7, <1>8, <1>9, <1>10
  DEF TunnelNext, Server, Client

(* Moving the first byte of t behind s, adding the next byte of u to t and *)
(* losing the end of t keep s and t the beginning of u.                    *)
LEMMA BeginsMove ==
  ASSUME NEW s \in Seq(Byte), NEW t \in Seq(Byte), NEW u \in Seq(Byte), NEW n \in Nat,
         NEW w, Begins(s, t, u, n, w), t # <<>>
  PROVE  Begins(Append(s, Head(t)), Tail(t), u, n, w)
<1> DEFINE p == Append(s, Head(t))
           q == Tail(t)
<1>1. /\ Len(s) \in Nat /\ Len(t) \in Nat \ {0} /\ Len(q) = Len(t) - 1
      /\ \A i \in 1..(Len(t) - 1) : q[i] = t[1 + i]
      /\ Head(t) = t[1] /\ Head(t) \in Byte /\ Len(u) \in Nat
  BY TailFacts
<1>2. /\ Len(p) = Len(s) + 1 /\ p[Len(s) + 1] = t[1]
      /\ \A i \in 1..Len(s) : p[i] = s[i]
  BY <1>1, AppendFacts
<1> HIDE DEF p, q
<1>3. Len(p) + Len(q) = Len(s) + Len(t)
  BY <1>1, <1>2
<1>4. ASSUME NEW i \in 1..Len(p) PROVE p[i] = u[i]
  <2>1. CASE i \in 1..Len(s)
    BY <1>2, <2>1 DEF Begins
  <2>2. CASE i = Len(s) + 1
    <3>1. 1 \in 1..Len(t)
      BY <1>1
    <3>2. t[1] = u[Len(s) + 1]
      BY <3>1 DEF Begins
    <3>3. QED
      BY <1>2, <2>2, <3>2
  <2>3. i \in 1..Len(s) \/ i = Len(s) + 1
    BY <1>1, <1>2
  <2>4. QED
    BY <2>1, <2>2, <2>3
<1>5. ASSUME NEW i \in 1..Len(q) PROVE q[i] = u[Len(p) + i]
  <2>0. Len(q) = Len(t) - 1 /\ Len(p) = Len(s) + 1 /\ Len(s) \in Nat /\ Len(t) \in Nat
    BY <1>1, <1>2
  <2>1. 1 + i \in 1..Len(t) /\ i \in 1..(Len(t) - 1) /\ Len(s) + (1 + i) = Len(p) + i
    BY <2>0
  <2>2. t[1 + i] = u[Len(s) + (1 + i)]
    BY <2>1 DEF Begins
  <2>3. QED
    BY <1>1, <2>1, <2>2
<1>6. QED
  BY <1>3, <1>4, <1>5 DEF Begins, p, q

LEMMA BeginsAppend ==
  ASSUME NEW s \in Seq(Byte), NEW t \in Seq(Byte), NEW u \in Seq(Byte), NEW n \in Nat,
         Begins(s, t, u, n, TRUE), n < Len(u)
  PROVE  Begins(s, Append(t, u[n + 1]), u, n + 1, TRUE)
<1> DEFINE q == Append(t, u[n + 1])
<1>1. /\ Len(s) \in Nat /\ Len(t) \in Nat /\ Len(u) \in Nat /\ n + 1 \in 1..Len(u)
      /\ Len(s) + Len(t) = n
  BY DEF Begins
<1>2. u[n + 1] \in Byte
  BY <1>1
<1>3. /\ Len(q) = Len(t) + 1 /\ q[Len(t) + 1] = u[n + 1]
      /\ \A i \in 1..Len(t) : q[i] = t[i]
  BY <1>2, AppendFacts
<1> HIDE DEF q
<1>4. Len(s) + Len(q) = n + 1 /\ n + 1 <= Len(u)
  <2>1. Len(s) + Len(t) = n /\ Len(q) = Len(t) + 1
    BY <1>1, <1>3
  <2>2. Len(s) \in Nat /\ Len(t) \in Nat /\ Len(u) \in Nat
    BY <1>1
  <2>3. Len(s) + (Len(t) + 1) = (Len(s) + Len(t)) + 1 /\ n + 1 <= Len(u)
    BY <2>2
  <2>4. QED
    BY <2>1, <2>3
<1>5. ASSUME NEW i \in 1..Len(q) PROVE q[i] = u[Len(s) + i]
  <2>1. CASE i \in 1..Len(t)
    BY <1>3, <2>1 DEF Begins
  <2>2. CASE i = Len(t) + 1
    <3>1. Len(s) + i = n + 1
      BY <1>1, <2>2
    <3>2. QED
      BY <1>3, <2>2, <3>1
  <2>3. i \in 1..Len(t) \/ i = Len(t) + 1
    BY <1>1, <1>3
  <2>4. QED
    BY <2>1, <2>2, <2>3
<1>6. Begins(s, q, u, n + 1, TRUE)
  <2>1. \A i \in 1..Len(s) : s[i] = u[i]
    BY DEF Begins
  <2>2. Len(s) + Len(q) <= n + 1
    BY <1>1, <1>4
  <2>3. QED
    BY <1>4, <1>5, <2>1, <2>2 DEF Begins
<1>7. QED
  BY <1>6 DEF q

LEMMA BeginsLess ==
  ASSUME NEW s \in Seq(Byte), NEW t \in Seq(Byte), NEW u \in Seq(Byte), NEW n \in Nat,
         NEW w, Begins(s, t, u, n, w), NEW k \in 0..Len(t)
  PROVE  Begins(s, Take(t, k), u, n, FALSE)
<1> DEFINE q == Take(t, k)
<1>1. /\ Len(s) \in Nat /\ Len(t) \in Nat /\ Len(q) = k
      /\ \A i \in 1..k : q[i] = t[i]
  BY TakeFacts
<1> HIDE DEF q
<1>2. n <= Len(u) /\ Len(s) + Len(t) <= n /\ \A i \in 1..Len(s) : s[i] = u[i]
  BY DEF Begins
<1>3. Len(s) + Len(q) <= n
  BY <1>1, <1>2
<1>4. ASSUME NEW i \in 1..Len(q) PROVE q[i] = u[Len(s) + i]
  <2>1. i \in 1..Len(t)
    BY <1>1
  <2>2. QED
    BY <1>1, <2>1 DEF Begins
<1>5. QED
  BY <1>2, <1>3, <1>4 DEF Begins, q

(* Every step keeps the bytes on their way back the answer's.              *)
LEMMA TunnelDown ==
  ASSUME TunnelInv, [TunnelNext]_tunnelVars
  PROVE  DownInv'
<1>0. /\ DownInv /\ Phases /\ req.kind \in {"tcp", "udp"} /\ broken \in BOOLEAN
      /\ down \in Seq(Byte) /\ echoed \in Seq(Byte) /\ replied \in Nat
      /\ reply \in Replies \cup {NoReply}
      /\ \A r \in Replies : r \in Seq(Byte)
      /\ NoReply \notin Replies
  BY RequestFacts, TunnelAssumption DEF TunnelInv, TunnelTypeOK
<1>1. ASSUME UNCHANGED <<req, down, echoed, reply, replied, broken>>,
             cpc' \in {"header", "connect"} => cpc \in {"header", "connect"}
      PROVE  DownInv'
  BY <1>0, <1>1 DEF DownInv
<1>2. CASE \/ WriteHeader \/ WriteLen \/ WritePayload \/ ServerWriteFails
           \/ ServerReadFails \/ ServerCopiesUp \/ ServerCopyEnds \/ OutsideFails
           \/ Done \/ UNCHANGED tunnelVars
  BY <1>1, <1>2 DEF WriteHeader, WriteLen, WritePayload, ServerWrites, ServerWriteFails,
     ServerReadFails, ServerCopiesUp, ServerCopyEnds, OutsideFails, Done
<1>3. CASE \/ ReadHeader \/ ReadPayloadLen \/ ReadPayload \/ SendToLocal
           \/ ConnectLocal \/ ClientCopiesIn
  BY <1>1, <1>3 DEF ReadHeader, ReadPayloadLen, ReadPayload, SendToLocal,
     ConnectLocal, ClientCopiesIn
<1>4. CASE \/ ClientReadFails \/ LocalUnreachable \/ ReplyTimeout \/ ClientCopyEnds
           \/ LocalFails
  BY <1>1, <1>4 DEF ClientReadFails, LocalUnreachable, ReplyTimeout, ClientCopyEnds,
     LocalFails, ClientReturns
<1>5. CASE ReadLen \/ ReadBody \/ RelayReply
  <2>1. req' = req /\ req.kind = "udp"
    BY <1>0, <1>5 DEF ReadLen, ReadBody, RelayReply, Phases
  <2>2. QED
    BY <2>1 DEF DownInv
<1>6. CASE LocalReplies
  <2>1. /\ reply = NoReply /\ reply' \in Replies /\ cpc' \notin {"header", "connect"}
        /\ UNCHANGED <<req, down, echoed, replied, broken>>
    BY <1>6 DEF LocalReplies
  <2>2. SUFFICES ASSUME req.kind = "tcp"
                 PROVE  Begins(echoed, down, reply', replied, broken = FALSE)
    BY <1>0, <2>1 DEF DownInv
  <2>3. replied = 0 /\ Len(down) = 0 /\ Len(echoed) = 0
    BY <1>0, <2>1, <2>2 DEF DownInv
  <2>4. Len(reply') \in Nat
    <3>1. reply' \in Seq(Byte)
      BY <1>0, <2>1
    <3>2. QED
      BY <3>1
  <2>5. QED
    BY <2>3, <2>4 DEF Begins
<1>7. ASSUME req.kind = "tcp", reply \in Replies
      PROVE  reply \in Seq(Byte) /\ Begins(echoed, down, reply, replied, broken = FALSE)
  BY <1>0, <1>7 DEF DownInv
<1>8. CASE ServerCopiesDown
  <2>1. /\ UNCHANGED <<req, cpc, reply, replied, broken>>
        /\ spc = "copy" /\ down # <<>>
        /\ echoed' = Append(echoed, Head(down)) /\ down' = Tail(down)
    BY <1>8 DEF ServerCopiesDown
  <2>2. req.kind = "tcp" /\ reply \in Replies
    BY <1>0, <2>1 DEF Phases, DownInv
  <2>3. Begins(echoed', down', reply, replied, broken = FALSE)
    <3> DEFINE w == broken = FALSE
    <3>1. Begins(echoed, down, reply, replied, w) /\ reply \in Seq(Byte)
      BY <1>7, <2>2
    <3> HIDE DEF w
    <3>2. Begins(echoed', down', reply, replied, w)
      BY <1>0, <2>1, <3>1, BeginsMove
    <3>3. QED
      BY <3>2 DEF w
  <2>4. QED
    BY <1>0, <2>1, <2>2, <2>3 DEF DownInv
<1>9. CASE ClientCopiesOut
  <2>1. /\ UNCHANGED <<req, cpc, echoed, reply, broken>> /\ broken = FALSE
        /\ cpc = "copy" /\ reply # NoReply /\ replied < Len(reply)
        /\ down' = Append(down, reply[replied + 1]) /\ replied' = replied + 1
    BY <1>0, <1>9 DEF ClientCopiesOut
  <2>2. req.kind = "tcp" /\ reply \in Replies
    BY <1>0, <2>1 DEF Phases
  <2>3. Begins(echoed, down, reply, replied, TRUE) /\ reply \in Seq(Byte)
    BY <1>7, <2>1, <2>2
  <2>4. Begins(echoed, down', reply, replied + 1, TRUE)
    BY <1>0, <2>1, <2>3, BeginsAppend
  <2>5. QED
    BY <1>0, <2>1, <2>2, <2>4 DEF DownInv
<1>10. CASE Break
  <2>1. PICK i \in 0..Len(up) : \E j \in 0..Len(down) : down' = Take(down, j)
    BY <1>10 DEF Break
  <2>2. PICK j \in 0..Len(down) : down' = Take(down, j)
    BY <2>1
  <2>3. UNCHANGED <<req, cpc, echoed, reply, replied>> /\ broken' = TRUE
    BY <1>10 DEF Break
  <2>4. CASE req.kind = "tcp" /\ reply = NoReply
    <3>1. down = <<>> /\ Len(down) = 0
      BY <1>0, <2>4 DEF DownInv
    <3>2. j = 0
      BY <3>1
    <3>3. down' \in Seq(Byte) /\ Len(down') = 0
      BY <1>0, <2>2, <3>2, TakeFacts
    <3>4. down' = <<>>
      BY <3>3
    <3>5. QED
      BY <1>0, <2>3, <2>4, <3>4 DEF DownInv
  <2>5. CASE req.kind = "tcp" /\ reply # NoReply
    <3> DEFINE w == broken = FALSE
    <3>1. Begins(echoed, down, reply, replied, w) /\ reply \in Seq(Byte)
      BY <1>0, <1>7, <2>5
    <3> HIDE DEF w
    <3>2. Begins(echoed, down', reply, replied, FALSE)
      BY <1>0, <2>2, <3>1, BeginsLess
    <3>3. QED
      BY <1>0, <2>3, <2>5, <3>2 DEF DownInv
  <2>6. CASE req.kind = "udp"
    BY <2>3, <2>6 DEF DownInv
  <2>7. QED
    BY <1>0, <2>4, <2>5, <2>6
<1>11. QED
  BY <1>2, <1>3, <1>4, <1>5, <1>6, <1>8, <1>9, <1>10
  DEF TunnelNext, Server, Client

(* Every step keeps what an orderly end has delivered.                     *)
LEMMA TunnelEnd ==
  ASSUME TunnelInv, [TunnelNext]_tunnelVars
  PROVE  EndInv'
<1>0. /\ EndInv /\ Phases /\ DownInv /\ req.kind \in {"tcp", "udp"}
      /\ broken \in BOOLEAN /\ failed \in BOOLEAN
      /\ upEof \in BOOLEAN /\ downEof \in BOOLEAN
      /\ replied \in Nat
      /\ spc \in {"header", "len", "payload", "readLen", "readBody", "copy", "closed"}
  BY RequestFacts DEF TunnelInv, TunnelTypeOK
<1>1. CASE UNCHANGED <<req, spc, cpc, upEof, lossVars, localIn, reply, replied, down>>
  BY <1>0, <1>1 DEF EndInv
<1>2. CASE WriteHeader \/ WriteLen \/ WritePayload
  BY <1>0, <1>2 DEF EndInv, WriteHeader, WriteLen, WritePayload, ServerWrites
<1>3. CASE ServerWriteFails \/ ServerReadFails \/ ReadLen \/ ReadBody
  BY <1>0, <1>3 DEF EndInv, Phases, ServerWriteFails, ServerReadFails, ReadLen, ReadBody
<1>4. CASE ServerCopiesUp
  BY <1>0, <1>4 DEF EndInv, ServerCopiesUp
<1>5. CASE ServerCopiesDown
  BY <1>0, <1>5 DEF EndInv, ServerCopiesDown
<1>6. CASE ServerCopyEnds
  BY <1>0, <1>6 DEF EndInv, Phases, ServerCopyEnds
<1>7. CASE \/ ReadHeader \/ ReadPayloadLen \/ ReadPayload \/ SendToLocal
           \/ ConnectLocal \/ ClientCopiesIn
  <2>1. /\ UNCHANGED <<req, spc, upEof, lossVars, reply, replied, down>>
        /\ cpc # "closed" /\ cpc' # "closed"
    BY <1>7 DEF ReadHeader, ReadPayloadLen, ReadPayload, SendToLocal, ConnectLocal,
                ClientCopiesIn
  <2>2. QED
    BY <1>0, <2>1 DEF EndInv
<1>8. CASE OutsideFails \/ LocalFails \/ LocalUnreachable
  BY <1>8 DEF EndInv, OutsideFails, LocalFails, LocalUnreachable
<1>9. CASE ReplyTimeout \/ RelayReply
  BY <1>0, <1>9 DEF EndInv, Phases, ReplyTimeout, RelayReply
<1>10. CASE ClientReadFails
  <2>1. SUFFICES ASSUME req.kind = "tcp", broken = FALSE PROVE FALSE
    BY <1>10 DEF EndInv, ClientReadFails
  <2>2. cpc = "header" /\ upEof = TRUE /\ ~(Len(up) >= 4)
    BY <1>0, <1>10, <2>1 DEF Phases, ClientReadFails, ReadFails
  <2>3. spc \in {"copy", "closed"}
    BY <1>0, <2>2 DEF Phases
  <2>4. 0 + Len(up) = 4 + copied
    BY <2>1, <2>2, <2>3 DEF TunnelInv, UpInv, Reading, ClientAt, ServerAt
  <2>5. copied \in Nat /\ Len(up) \in Nat
    BY RequestFacts DEF TunnelInv, TunnelTypeOK
  <2>6. QED
    BY <2>2, <2>4, <2>5
<1>11. CASE LocalReplies \/ ClientCopiesOut
  <2>1. /\ UNCHANGED <<req, spc, cpc, upEof, lossVars>> /\ cpc # "closed"
    BY <1>11 DEF LocalReplies, ClientCopiesOut
  <2>2. broken = FALSE /\ failed = FALSE => spc # "closed"
    BY <1>0, <2>1 DEF Phases
  <2>3. QED
    BY <2>1, <2>2 DEF EndInv
<1>12. CASE ClientCopyEnds
  <2>1. /\ UNCHANGED <<req, spc, upEof, lossVars, localIn, reply, replied, down>>
        /\ cpc = "copy"
    BY <1>12 DEF ClientCopyEnds
  <2>2. SUFFICES ASSUME broken = FALSE, failed = FALSE
                 PROVE  EndInv'
    BY <2>1 DEF EndInv
  <2>3. /\ upEof = TRUE /\ up = <<>> /\ reply # NoReply /\ replied = Len(reply)
    BY <1>0, <1>12, <2>1, <2>2 DEF ClientCopyEnds, Phases
  <2>4. spc = "copy" /\ req.kind = "tcp" /\ copied = Len(req.data)
    BY <1>0, <2>1, <2>2, <2>3 DEF Phases
  <2>5. localIn = req.data
    <3>1. 4 + Len(localIn) + Len(up) = 4 + copied
      BY <2>1, <2>2, <2>4 DEF TunnelInv, UpInv, Reading, ClientAt, ServerAt
    <3>2. /\ localIn \in Seq(Byte) /\ req.data \in Seq(Byte)
          /\ Len(localIn) \in Nat /\ Len(req.data) \in Nat
      BY RequestFacts DEF TunnelInv, TunnelTypeOK
    <3>3. Len(up) = 0
      BY <2>3
    <3>4. Len(localIn) = Len(req.data)
      BY <2>4, <3>1, <3>2, <3>3
    <3>5. \A i \in 1..Len(localIn) : localIn[i] = req.data[i]
      BY <2>4 DEF TunnelInv, ReadInv
    <3>6. QED
      BY <3>2, <3>4, <3>5, SeqEqual
  <2>6. QED
    BY <2>1, <2>3, <2>4, <2>5 DEF EndInv
<1>13. CASE Break
  BY <1>13 DEF EndInv, Break
<1>14. CASE Done \/ UNCHANGED tunnelVars
  BY <1>1, <1>14 DEF Done
<1>15. QED
  BY <1>2, <1>3, <1>4, <1>5, <1>6, <1>7, <1>8, <1>9, <1>10, <1>11, <1>12, <1>13, <1>14
  DEF TunnelNext, Server, Client

(* TunnelInv is an invariant of the tunnel, fair or not.                   *)
THEOREM TunnelInvariant == TunnelSpec => []TunnelInv
<1>1. TunnelInv /\ [TunnelNext]_tunnelVars => TunnelInv'
  BY TunnelTypes, TunnelPhases, TunnelUp, TunnelRead, TunnelDown, TunnelEnd DEF TunnelInv
<1>2. QED
  BY <1>1, TunnelInitInv, PTL DEF TunnelSpec

(***************************************************************************)
(* Type correctness: in particular every port the client reads from the    *)
(* stream has an entry, and every length is one the server wrote           *)
(* (client.rs 347-354, 385-402).                                           *)
(***************************************************************************)
THEOREM TunnelTypeCorrect == TunnelSpec => []TunnelTypeOK
<1>1. TunnelInv => TunnelTypeOK
  BY DEF TunnelInv
<1>2. QED
  BY <1>1, TunnelInvariant, PTL

(***************************************************************************)
(* Whatever the base of a byte, the proxy list and the request: a local    *)
(* UDP service gets the peer's datagram whole, once and only if it is the  *)
(* first entry for the port, wherever the connection breaks                *)
(* (server.rs 553-574, client.rs 375-417).                                 *)
(***************************************************************************)
THEOREM DatagramIntact == TunnelSpec => []RequestIntact
<1>1. TunnelInv => RequestIntact
  <2>1. SUFFICES ASSUME TunnelInv, forwarded # <<>> PROVE RequestIntact
    BY DEF RequestIntact
  <2>2. req.kind = "udp" /\ forwarded = <<<<Lookup(req.port), req.data>>>>
    BY <2>1 DEF TunnelInv, ReadInv
  <2>3. req \in Requests
    BY <2>1 DEF TunnelInv, TunnelTypeOK
  <2>4. PICK i \in 1..Len(Configs) :
          /\ Configs[i].server_port = req.port
          /\ \A j \in 1..(i - 1) : Configs[j].server_port # req.port
          /\ Lookup(req.port) = Configs[i].local
    BY <2>3, RequestFacts, FirstEntry
  <2>5. QED
    BY <2>2, <2>4 DEF RequestIntact
<1>2. QED
  BY <1>1, TunnelInvariant, PTL

(***************************************************************************)
(* A TCP tunnel carries any request and any answer unchanged, and all of   *)
(* both if neither the control connection nor one of the TCP sockets at    *)
(* its ends failed (server.rs 543-551, client.rs 474-515).                 *)
(***************************************************************************)
THEOREM TcpUnchanged == TunnelSpec => []TcpTransparent
<1>1. TunnelInv => TcpTransparent
  <2>1. SUFFICES ASSUME TunnelInv, req.kind = "tcp" PROVE TcpTransparent
    BY DEF TcpTransparent
  <2>2. /\ req.data \in Seq(Byte) /\ localIn \in Seq(Byte) /\ echoed \in Seq(Byte)
        /\ broken \in BOOLEAN /\ failed \in BOOLEAN /\ replied \in Nat
        /\ reply # NoReply => reply \in Seq(Byte)
    BY <2>1, RequestFacts, TunnelAssumption DEF TunnelInv, TunnelTypeOK
  <2>3. ASSUME NEW s \in Seq(Byte), NEW t \in Seq(Byte), Len(s) <= Len(t),
               \A i \in 1..Len(s) : s[i] = t[i]
        PROVE  IsPrefixOf(s, t) /\ (Len(s) = Len(t) => s = t)
    <3>1. Len(s) \in 0..Len(t)
      BY <2>3
    <3>2. /\ Take(t, Len(s)) \in Seq(Byte) /\ Len(Take(t, Len(s))) = Len(s)
          /\ \A i \in 1..Len(s) : Take(t, Len(s))[i] = t[i]
      BY <3>1, TakeFacts
    <3>3. s = Take(t, Len(s))
      BY <2>3, <3>2, SeqEqual
    <3>4. Len(s) = Len(t) => s = t
      BY <2>3, SeqEqual
    <3>5. QED
      BY <2>3, <3>3, <3>4 DEF IsPrefixOf
  <2>4. IsPrefixOf(localIn, req.data)
    BY <2>1, <2>2, <2>3 DEF TunnelInv, ReadInv
  <2>5. ASSUME reply # NoReply
        PROVE  /\ Len(echoed) <= Len(reply) /\ replied <= Len(reply)
               /\ \A i \in 1..Len(echoed) : echoed[i] = reply[i]
               /\ broken = FALSE => Len(echoed) + Len(down) = replied
    <3>1. Begins(echoed, down, reply, replied, broken = FALSE)
      BY <2>1, <2>5 DEF TunnelInv, DownInv
    <3>2. Len(echoed) \in Nat /\ Len(down) \in Nat /\ Len(reply) \in Nat
      BY <2>1, <2>2, <2>5 DEF TunnelInv, TunnelTypeOK
    <3>3. QED
      BY <2>2, <3>1, <3>2 DEF Begins
  <2>6. reply # NoReply => IsPrefixOf(echoed, reply)
    BY <2>2, <2>3, <2>5
  <2>7. ASSUME spc = "closed", ~broken, ~failed
        PROVE  localIn = req.data /\ echoed = reply
    <3>1. cpc = "closed" /\ down = <<>> /\ broken = FALSE /\ failed = FALSE
      BY <2>1, <2>2, <2>7 DEF TunnelInv, Phases, EndInv
    <3>2. localIn = req.data /\ reply # NoReply /\ replied = Len(reply)
      BY <2>1, <2>7, <3>1 DEF TunnelInv, EndInv
    <3>3. Len(echoed) = Len(reply)
      <4>1. Len(down) = 0 /\ Len(echoed) \in Nat
        BY <2>2, <3>1
      <4>2. Len(echoed) + 0 = Len(reply)
        BY <2>5, <3>1, <3>2, <4>1
      <4>3. QED
        BY <4>1, <4>2
    <3>4. QED
      BY <2>2, <2>3, <2>5, <3>2, <3>3
  <2>8. QED
    BY <2>1, <2>4, <2>6, <2>7 DEF TcpTransparent
<1>2. QED
  BY <1>1, TunnelInvariant, PTL

============================================================================
