---------------------------- MODULE RelayProofs ----------------------------
(***************************************************************************)
(* Proofs about Relay, for every relay function of Impls, any buffer size  *)
(* and any number of bytes: types, the counts, the quiet end of a call,    *)
(* and that each of them implements ByteRelay.                             *)
(***************************************************************************)
EXTENDS Relay, ByteRuns, TLAPS

USE DEF vars, peerVars, workVars

(* Only a relay that counts parts and keeps its count goes on after an     *)
(* error, and only two-way relays make their pipes one after the other.    *)
LEMMA TraitFacts ==
  ASSUME impl \in Impls
  PROVE  /\ Does("goOn") => Does("parts") /\ Does("keep")
         /\ Does("pipes") => ~Does("oneWay")
<1>1. impl \in {"zero_copy", "bulk", "io_copy", "buffered", "standard", "splice",
                "splice_adaptive"}
  BY RelayAssumption DEF AllImpls, Traits
<1>2. Does("goOn") => impl = "zero_copy"
  BY <1>1 DEF Does, Traits, ZeroCopyBidirectional, BulkBidirectional,
     OptimizedBidirectional, BufferedBidirectional, OptimizedStandardCopy,
     SpliceZeroCopy, SpliceAdaptive
<1>3. Does("pipes") => impl = "zero_copy"
  BY <1>1 DEF Does, Traits, ZeroCopyBidirectional, BulkBidirectional,
     OptimizedBidirectional, BufferedBidirectional, OptimizedStandardCopy,
     SpliceZeroCopy, SpliceAdaptive
<1>4. impl = "zero_copy" => Does("parts") /\ Does("keep") /\ ~Does("oneWay")
  BY DEF Does, Traits, ZeroCopyBidirectional
<1>5. QED
  BY <1>2, <1>3, <1>4
----------------------------------------------------------------------------
(* The steps: those that move the call only, those that start workers, and *)
(* those of one direction.                                                 *)
CallOnly ==
  \/ Connect \/ ConnectRejected \/ ConnectFails \/ BlackholeEnds
  \/ SetupFails \/ SecondPipeFails \/ Return \/ Timeout

Starting == StartFirst \/ StartSecond \/ StartAll

Steps(d) ==
  \/ PeerSends(d) \/ PeerCloses(d) \/ Read(d) \/ ReadEof(d) \/ ReadFails(d)
  \/ Write(d) \/ WriteFails(d) \/ WriteTakesNothing(d)

LEMMA StepKinds ==
  ASSUME [Next]_vars
  PROVE  CallOnly \/ Starting \/ Absorb \/ (\E d \in Dirs : Steps(d)) \/ UNCHANGED vars
BY DEF Next, Handler, Worker, Reads, Writes, CallOnly, Starting, Steps

LEMMA CallOnlyFrame == CallOnly => UNCHANGED <<impl, inp, peerVars, workVars>>
BY DEF CallOnly, Connect, ConnectRejected, ConnectFails, BlackholeEnds,
       SetupFails, SecondPipeFails, Return, Timeout

LEMMA StartingFrame ==
  Starting => UNCHANGED <<impl, inp, peerVars, buf, chunk, left, out, count, fault>>
BY DEF Starting, StartFirst, StartSecond, StartAll

(* A step of one direction leaves the other alone.                         *)
LEMMA StepFrame ==
  ASSUME TypeOK, NEW d \in Dirs, Steps(d), NEW e \in Dirs, e # d
  PROVE  /\ pc'[e] = pc[e] /\ sent'[e] = sent[e] /\ closed'[e] = closed[e]
         /\ inp'[e] = inp[e] /\ buf'[e] = buf[e] /\ chunk'[e] = chunk[e]
         /\ left'[e] = left[e] /\ out'[e] = out[e] /\ count'[e] = count[e]
         /\ fault'[e] = fault[e]
<1> USE DEF TypeOK
<1>1. CASE PeerSends(d) \/ PeerCloses(d)
  BY <1>1 DEF PeerSends, PeerCloses
<1>2. CASE Read(d)
  BY <1>2 DEF Read
<1>3. CASE ReadEof(d) \/ ReadFails(d) \/ WriteFails(d) \/ WriteTakesNothing(d)
  BY <1>3 DEF ReadEof, ReadFails, WriteFails, WriteTakesNothing
<1>4. CASE Write(d)
  BY <1>4 DEF Write
<1>5. QED
  BY <1>1, <1>2, <1>3, <1>4 DEF Steps

LEMMA StepImpl ==
  ASSUME NEW d \in Dirs, Steps(d) PROVE UNCHANGED <<impl, call>>
BY DEF Steps, PeerSends, PeerCloses, Read, ReadEof, ReadFails, Write, WriteFails,
       WriteTakesNothing
----------------------------------------------------------------------------
(* What a worker's variables say about each other.  Only a failed or an    *)
(* empty write leaves bytes in the buffer beyond the chunk at hand.        *)
Shape(d) ==
  /\ pc[d] = "idle" => out[d] = <<>> /\ buf[d] = <<>> /\ count[d] = 0 /\ fault[d] = "none"
  /\ pc[d] = "write" => left[d] \in 1..Len(buf[d]) /\ left[d] <= chunk[d]
  /\ fault[d] = "read" => pc[d] = "ended"
  /\ fault[d] = "none" /\ pc[d] = "write" => left[d] = Len(buf[d])
  /\ fault[d] = "none" /\ pc[d] = "read" => buf[d] = <<>>
  /\ fault[d] = "none" /\ pc[d] = "ended" =>
       buf[d] = <<>> /\ inp[d] = <<>> /\ closed[d]

(* The black hole has no workers and keeps nothing; elsewhere the bytes    *)
(* sent are, in order, those delivered, in the buffer and to be read.      *)
Absorbing == call \in {"blackhole", "absorbed"}

Order(d) ==
  /\ Absorbing => pc[d] = "idle"
  /\ ~Absorbing => Runs(out[d], buf[d], inp[d], sent[d])

(* What a worker has counted and what it has delivered.                    *)
Uncounted(d) == IF pc[d] = "write" /\ ~Does("parts") THEN chunk[d] - left[d] ELSE 0

Counting(d) ==
  /\ Running(d) => count[d] + Uncounted(d) = Len(out[d])
  /\ pc[d] = "ended" =>
       /\ count[d] <= Len(out[d])
       /\ fault[d] \in {"none", "zero"} \/ Does("goOn") => count[d] = Len(out[d])

(* Which workers a state of the call may have.                             *)
Started ==
  /\ call \in {"connecting", "refused", "blackhole", "absorbed", "setup"} =>
       \A d \in Dirs : pc[d] = "idle"
  /\ call = "half" => Does("pipes") /\ pc["s2c"] = "idle"
  /\ \A d \in Dirs \ Active : pc[d] = "idle"
  /\ ReturnedIsQuiet

IInv == TypeOK /\ Started /\ \A d \in Dirs : Shape(d) /\ Order(d) /\ Counting(d)

LEMMA InitInv == Init => IInv
<1> SUFFICES ASSUME Init PROVE IInv
  OBVIOUS
<1> USE DEF Init
<1>1. TypeOK
  BY RelayAssumption DEF TypeOK, Calls
<1>2. Started
  BY DEF Started, ReturnedIsQuiet, Running
<1>3. ASSUME NEW d \in Dirs PROVE Shape(d) /\ Order(d) /\ Counting(d)
  BY DEF Shape, Order, Counting, Runs, From, Absorbing, Running
<1>4. QED
  BY <1>1, <1>2, <1>3 DEF IInv

(* Steps of the call, starts and the black hole.                           *)
LEMMA CallStep == ASSUME IInv, CallOnly PROVE IInv'
<1> USE CallOnlyFrame DEF IInv
<1>1. call' \in Calls
  BY DEF CallOnly, Connect, ConnectRejected, ConnectFails, BlackholeEnds,
         SetupFails, SecondPipeFails, Return, Timeout, Calls
<1>2. TypeOK'
  BY <1>1 DEF TypeOK
<1>3. Started'
  <2> USE DEF Started, ReturnedIsQuiet, Running, Active, Does, TypeOK
  <2>1. CASE Connect \/ ConnectRejected \/ ConnectFails \/ BlackholeEnds \/ SetupFails
    BY <2>1 DEF Connect, ConnectRejected, ConnectFails, BlackholeEnds, SetupFails
  <2>2. CASE SecondPipeFails
    BY <2>2 DEF SecondPipeFails, Dirs
  <2>3. CASE Return
    BY <2>3 DEF Return, AllDone
  <2>4. CASE Timeout
    BY <2>4 DEF Timeout
  <2>5. QED
    BY <2>1, <2>2, <2>3, <2>4 DEF CallOnly
<1>4. ASSUME NEW d \in Dirs PROVE Shape(d)' /\ Counting(d)'
  BY DEF Shape, Counting, Running, Uncounted, Does
<1>5. ASSUME NEW d \in Dirs PROVE Order(d)'
  <2>1. Absorbing' => pc[d] = "idle"
    BY DEF Absorbing, Started, CallOnly, Connect, ConnectRejected, ConnectFails,
           BlackholeEnds, SetupFails, SecondPipeFails, Return, Timeout
  <2>2. Absorbing => Absorbing'
    BY DEF Absorbing, CallOnly, Connect, ConnectRejected, ConnectFails,
           BlackholeEnds, SetupFails, SecondPipeFails, Return, Timeout
  <2>3. Order(d)
    OBVIOUS
  <2>4. UNCHANGED <<sent, out, buf, inp, pc>>
    OBVIOUS
  <2>5. CASE Absorbing'
    BY <2>1, <2>4, <2>5 DEF Order
  <2>6. CASE ~Absorbing'
    BY <2>2, <2>3, <2>4, <2>6 DEF Order
  <2>7. QED
    BY <2>5, <2>6
<1>6. QED
  BY <1>2, <1>3, <1>4, <1>5

LEMMA StartStep == ASSUME IInv, Starting PROVE IInv'
<1> USE StartingFrame DEF IInv
<1>1. call \in {"setup", "half"} /\ call' \in {"half", "relaying"}
  BY DEF Starting, StartFirst, StartSecond, StartAll
<1>2. pc' \in [Dirs -> {"idle", "read", "write", "ended"}]
  BY DEF Starting, StartFirst, StartSecond, StartAll, Start, TypeOK
<1>3. TypeOK'
  BY <1>1, <1>2 DEF TypeOK, Calls
<1>4. ASSUME NEW d \in Dirs
      PROVE  pc'[d] = pc[d] \/ (pc[d] = "idle" /\ pc'[d] = "read")
  <2>1. CASE StartFirst
    BY <2>1 DEF StartFirst, Start, TypeOK, Started
  <2>2. CASE StartSecond
    BY <2>2 DEF StartSecond, Start, TypeOK, Started
  <2>3. CASE StartAll
    BY <2>3 DEF StartAll, TypeOK, Started
  <2>4. QED
    BY <2>1, <2>2, <2>3 DEF Starting
<1>5. Started'
  <2>1. CASE StartFirst
    BY <2>1, TraitFacts
    DEF StartFirst, Start, Started, ReturnedIsQuiet, Active, Does, TypeOK, Dirs
  <2>2. CASE StartSecond
    BY <2>2, TraitFacts
    DEF StartSecond, Start, Started, ReturnedIsQuiet, Active, Does, TypeOK, Dirs
  <2>3. CASE StartAll
    BY <2>3 DEF StartAll, Started, ReturnedIsQuiet, Active, Does, TypeOK
  <2>4. QED
    BY <2>1, <2>2, <2>3 DEF Starting
<1>6. ASSUME NEW d \in Dirs PROVE Shape(d)' /\ Counting(d)'
  BY <1>4, <1>6 DEF Shape, Counting, Running, Uncounted, Does
<1>7. ASSUME NEW d \in Dirs PROVE Order(d)'
  BY <1>1 DEF Order, Absorbing
<1>8. QED
  BY <1>3, <1>5, <1>6, <1>7

LEMMA AbsorbStep == ASSUME IInv, Absorb PROVE IInv'
<1> USE DEF IInv, Absorb
<1>1. TypeOK'
  <2>1. <<>> \in Seq(Nat)
    OBVIOUS
  <2>2. inp' \in [Dirs -> Seq(Nat)]
    BY <2>1 DEF TypeOK
  <2>3. QED
    BY <2>2 DEF TypeOK
<1>2. Started'
  BY DEF Started, ReturnedIsQuiet, Running, Active, Does
<1>3. ASSUME NEW d \in Dirs PROVE Shape(d)' /\ Counting(d)' /\ Order(d)'
  BY DEF Started, Shape, Counting, Running, Uncounted, Does, Order, Absorbing
<1>4. QED
  BY <1>1, <1>2, <1>3
----------------------------------------------------------------------------
(* The steps of one direction.                                             *)
LEMMA TypeStep == ASSUME IInv, NEW d \in Dirs, Steps(d) PROVE TypeOK'
<1>0. TypeOK /\ Shape(d) /\ Order(d)
  BY DEF IInv
<1> USE <1>0
<1>1. CASE PeerSends(d)
  <2>1. sent'[d] \in Seq(Nat) /\ inp'[d] \in Seq(Nat)
    BY <1>1 DEF PeerSends, TypeOK
  <2>2. sent' \in [Dirs -> Seq(Nat)] /\ inp' \in [Dirs -> Seq(Nat)]
    BY <1>1, <2>1 DEF PeerSends, TypeOK
  <2>3. QED
    BY <1>1, <2>2 DEF PeerSends, TypeOK
<1>2. CASE PeerCloses(d)
  BY <1>2 DEF PeerCloses, TypeOK
<1>3. CASE Read(d)
  <2>1. PICK n \in 1..Least(Len(inp[d]), Room(d)) :
       /\ buf' = [buf EXCEPT ![d] = @ \o SubSeq(inp[d], 1, n)]
       /\ inp' = [inp EXCEPT ![d] = Rest(@, n)]
       /\ chunk' = [chunk EXCEPT ![d] = n]
       /\ left' = [left EXCEPT ![d] = n]
    BY <1>3 DEF Read
  <2>2. n \in 1..Len(inp[d]) /\ n <= BufSize - Len(buf[d])
    BY RelayAssumption DEF Least, Room, TypeOK
  <2>3. /\ buf[d] \o SubSeq(inp[d], 1, n) \in Seq(Nat)
        /\ Len(buf[d] \o SubSeq(inp[d], 1, n)) = Len(buf[d]) + n
        /\ Rest(inp[d], n) \in Seq(Nat)
    <3>1. buf[d] \in Seq(Nat) /\ inp[d] \in Seq(Nat)
      BY DEF TypeOK
    <3>2. QED
      BY <2>2, <3>1, Moved, Rested
  <2>4. inp' \in [Dirs -> Seq(Nat)] /\ buf' \in [Dirs -> Seq(Nat)]
    BY <2>1, <2>3 DEF TypeOK
  <2>5. \A e \in Dirs : Len(buf'[e]) <= BufSize
    BY <2>1, <2>2, <2>3, RelayAssumption DEF TypeOK
  <2>6. chunk' \in [Dirs -> Nat] /\ left' \in [Dirs -> Nat]
    BY <2>1, <2>2 DEF TypeOK
  <2>7. QED
    BY <1>3, <2>4, <2>5, <2>6 DEF Read, TypeOK
<1>4. CASE ReadEof(d)
  BY <1>4 DEF ReadEof, TypeOK
<1>5. CASE ReadFails(d)
  <2>1. AfterError(d) \in Nat
    BY DEF AfterError, TypeOK
  <2>2. QED
    BY <1>5, <2>1 DEF ReadFails, TypeOK
<1>6. CASE Write(d)
  <2>1. PICK w \in 1..left[d] :
       /\ out' = [out EXCEPT ![d] = @ \o SubSeq(buf[d], 1, w)]
       /\ buf' = [buf EXCEPT ![d] = Written(@, w)]
       /\ left' = [left EXCEPT ![d] = @ - w]
       /\ count' = [count EXCEPT ![d] = @ + Tally(d, w)]
       /\ pc' = [pc EXCEPT ![d] = IF w = left[d] THEN "read" ELSE "write"]
    BY <1>6 DEF Write
  <2>2. w \in 1..Len(buf[d]) /\ left[d] - w \in Nat
    <3>1. left[d] \in 1..Len(buf[d])
      BY <1>6 DEF Write, Shape
    <3>2. Len(buf[d]) \in Nat
      BY DEF TypeOK
    <3>3. QED
      BY <3>1, <3>2
  <2>3. /\ out[d] \o SubSeq(buf[d], 1, w) \in Seq(Nat)
        /\ Written(buf[d], w) \in Seq(Nat)
        /\ Len(Written(buf[d], w)) = Len(buf[d]) - w
    <3>1. buf[d] \in Seq(Nat) /\ out[d] \in Seq(Nat) /\ w \in 0..Len(buf[d])
      BY <2>2 DEF TypeOK
    <3>2. QED
      BY <2>2, <3>1, Moved, Rested DEF Written
  <2>4. out' \in [Dirs -> Seq(Nat)] /\ buf' \in [Dirs -> Seq(Nat)]
    BY <2>1, <2>3 DEF TypeOK
  <2>5. \A e \in Dirs : Len(buf'[e]) <= BufSize
    BY <2>1, <2>2, <2>3, RelayAssumption DEF TypeOK
  <2>6. count[d] + Tally(d, w) \in Nat
    <3>1. count[d] \in Nat /\ chunk[d] \in Nat /\ w \in Nat
      BY <2>2 DEF TypeOK
    <3>2. QED
      BY <3>1 DEF Tally
  <2>7. /\ left' \in [Dirs -> Nat] /\ count' \in [Dirs -> Nat]
        /\ pc' \in [Dirs -> {"idle", "read", "write", "ended"}]
    BY <2>1, <2>2, <2>6 DEF TypeOK
  <2>8. QED
    BY <1>6, <2>4, <2>5, <2>7 DEF Write, TypeOK
<1>7. CASE WriteFails(d)
  <2>1. AfterError(d) \in Nat
    BY DEF AfterError, TypeOK
  <2>2. QED
    BY <1>7, <2>1 DEF WriteFails, TypeOK
<1>8. CASE WriteTakesNothing(d)
  BY <1>8 DEF WriteTakesNothing, TypeOK
<1>9. QED
  BY <1>1, <1>2, <1>3, <1>4, <1>5, <1>6, <1>7, <1>8 DEF Steps

(* A step of a worker or of a peer starts no worker.                       *)
LEMMA StartedStep == ASSUME IInv, NEW d \in Dirs, Steps(d) PROVE Started'
<1>1. pc[d] = "idle" => pc'[d] = "idle"
  BY DEF Steps, PeerSends, PeerCloses, Read, ReadEof, ReadFails, Write, WriteFails,
         WriteTakesNothing
<1>2. Running(d)' => Running(d)
  BY DEF Running, Steps, PeerSends, PeerCloses, Read, ReadEof, ReadFails, Write,
         WriteFails, WriteTakesNothing, IInv, TypeOK
<1>3. \A e \in Dirs : (pc[e] = "idle" => pc'[e] = "idle") /\ (Running(e)' => Running(e))
  BY <1>1, <1>2, StepFrame DEF IInv, Running
<1>4. "s2c" \in Dirs
  BY DEF Dirs
<1>5. Active' = Active /\ \A trait : Does(trait)' = Does(trait)
  BY StepImpl DEF Active, Does
<1>6. QED
  BY <1>3, <1>4, <1>5, StepImpl DEF IInv, Started, ReturnedIsQuiet

(* What a step does to the direction it is of.                             *)
LEMMA ShapeStep == ASSUME IInv, NEW d \in Dirs, Steps(d) PROVE Shape(d)'
<1>0. TypeOK /\ Shape(d)
  BY DEF IInv
<1> USE <1>0 DEF Shape
<1>1. CASE PeerSends(d)
  BY <1>1 DEF PeerSends, TypeOK
<1>2. CASE PeerCloses(d)
  BY <1>2 DEF PeerCloses, TypeOK
<1>3. CASE Read(d)
  <2>1. PICK n \in 1..Least(Len(inp[d]), Room(d)) :
       /\ buf'[d] = buf[d] \o SubSeq(inp[d], 1, n)
       /\ chunk'[d] = n /\ left'[d] = n
    BY <1>3 DEF Read, TypeOK
  <2>2. n \in 1..Len(inp[d]) /\ inp[d] \in Seq(Nat) /\ buf[d] \in Seq(Nat)
    BY RelayAssumption DEF Least, Room, TypeOK
  <2>3. Len(buf'[d]) = Len(buf[d]) + n
    BY <2>1, <2>2, Moved
  <2>4. pc[d] = "read" /\ pc'[d] = "write" /\ fault'[d] = fault[d]
    BY <1>3 DEF Read, TypeOK
  <2>5. fault[d] = "none" => Len(buf[d]) = 0
    BY <2>4
  <2>6. Len(buf[d]) \in Nat
    BY <2>2
  <2>7. left'[d] \in 1..Len(buf'[d]) /\ left'[d] <= chunk'[d]
    BY <2>1, <2>2, <2>3, <2>6
  <2>8. fault[d] = "none" => left'[d] = Len(buf'[d])
    BY <2>1, <2>2, <2>3, <2>5
  <2>9. fault[d] # "read"
    BY <2>4
  <2>10. QED
    BY <2>4, <2>7, <2>8, <2>9
<1>4. CASE ReadEof(d)
  BY <1>4 DEF ReadEof, EofSeen, TypeOK
<1>5. CASE ReadFails(d)
  BY <1>5 DEF ReadFails, TypeOK
<1>6. CASE Write(d)
  <2>1. PICK w \in 1..left[d] :
       /\ buf'[d] = Rest(buf[d], w)
       /\ left'[d] = left[d] - w
       /\ pc'[d] = IF w = left[d] THEN "read" ELSE "write"
    BY <1>6 DEF Write, Written, TypeOK
  <2>2. /\ pc[d] = "write" /\ fault'[d] = fault[d] /\ chunk'[d] = chunk[d]
        /\ left[d] \in 1..Len(buf[d]) /\ left[d] <= chunk[d]
        /\ buf[d] \in Seq(Nat) /\ chunk[d] \in Nat
    BY <1>6 DEF Write, TypeOK
  <2>3. w \in 1..Len(buf[d]) /\ Len(buf[d]) \in Nat
    BY <2>2
  <2>4. /\ Len(buf'[d]) = Len(buf[d]) - w
        /\ w = Len(buf[d]) => buf'[d] = <<>>
    <3>1. /\ Len(Rest(buf[d], w)) = Len(buf[d]) - w
          /\ w = Len(buf[d]) => Rest(buf[d], w) = <<>>
      BY <2>2, <2>3, Rested
    <3>2. QED
      BY <2>1, <3>1
  <2>5. fault[d] = "none" => left[d] = Len(buf[d])
    BY <2>2
  <2>6. w # left[d] => left'[d] \in 1..Len(buf'[d]) /\ left'[d] <= chunk'[d]
    BY <2>1, <2>2, <2>3, <2>4
  <2>7. fault[d] = "none" => left'[d] = Len(buf'[d])
    BY <2>1, <2>3, <2>4, <2>5
  <2>8. fault[d] # "read"
    BY <2>2
  <2>9. QED
    BY <2>1, <2>2, <2>4, <2>5, <2>6, <2>7, <2>8
<1>7. CASE WriteFails(d)
  BY <1>7 DEF WriteFails, TypeOK
<1>8. CASE WriteTakesNothing(d)
  BY <1>8 DEF WriteTakesNothing, TypeOK
<1>9. QED
  BY <1>1, <1>2, <1>3, <1>4, <1>5, <1>6, <1>7, <1>8 DEF Steps

LEMMA OrderStep == ASSUME IInv, NEW d \in Dirs, Steps(d) PROVE Order(d)'
<1>0. TypeOK /\ Shape(d) /\ Order(d) /\ call' = call
  BY StepImpl DEF IInv
<1>1. pc[d] = "idle" => pc'[d] = "idle"
  BY DEF Steps, PeerSends, PeerCloses, Read, ReadEof, ReadFails, Write, WriteFails,
         WriteTakesNothing
<1>2. CASE Absorbing
  BY <1>0, <1>1, <1>2 DEF Order, Absorbing
<1>3. CASE ~Absorbing
  <2>0. Runs(out[d], buf[d], inp[d], sent[d])
    BY <1>0, <1>3 DEF Order
  <2>1. CASE PeerSends(d)
    <3>1. /\ sent'[d] = Append(sent[d], Len(sent[d]) + 1)
          /\ inp'[d] = Append(inp[d], Len(sent[d]) + 1)
          /\ buf'[d] = buf[d] /\ out'[d] = out[d]
      BY <1>0, <2>1 DEF PeerSends, TypeOK
    <3>2. QED
      BY <1>0, <1>3, <2>0, <3>1, SendRuns DEF Order, Absorbing
  <2>2. CASE PeerCloses(d) \/ ReadEof(d) \/ ReadFails(d) \/ WriteFails(d)
             \/ WriteTakesNothing(d)
    <3>1. /\ sent'[d] = sent[d] /\ inp'[d] = inp[d] /\ buf'[d] = buf[d]
          /\ out'[d] = out[d]
      BY <1>0, <2>2 DEF PeerCloses, ReadEof, ReadFails, WriteFails,
                        WriteTakesNothing, TypeOK
    <3>2. QED
      BY <1>0, <1>3, <2>0, <3>1 DEF Order, Absorbing
  <2>3. CASE Read(d)
    <3>1. PICK n \in 1..Least(Len(inp[d]), Room(d)) :
         /\ buf'[d] = buf[d] \o SubSeq(inp[d], 1, n)
         /\ inp'[d] = Rest(inp[d], n)
      BY <1>0, <2>3 DEF Read, TypeOK
    <3>2. n \in 1..Len(inp[d])
      BY <1>0, RelayAssumption DEF Least, Room, TypeOK
    <3>3. sent'[d] = sent[d] /\ out'[d] = out[d]
      BY <1>0, <2>3 DEF Read, TypeOK
    <3>4. QED
      BY <1>0, <1>3, <2>0, <3>1, <3>2, <3>3, ReadRuns DEF Order, Absorbing
  <2>4. CASE Write(d)
    <3>1. PICK w \in 1..left[d] :
         /\ out'[d] = out[d] \o SubSeq(buf[d], 1, w)
         /\ buf'[d] = Rest(buf[d], w)
      BY <1>0, <2>4 DEF Write, Written, TypeOK
    <3>2. w \in 1..Len(buf[d])
      BY <1>0, <2>4 DEF Write, Shape, TypeOK
    <3>3. sent'[d] = sent[d] /\ inp'[d] = inp[d]
      BY <1>0, <2>4 DEF Write, TypeOK
    <3>4. QED
      BY <1>0, <1>3, <2>0, <3>1, <3>2, <3>3, WriteRuns DEF Order, Absorbing
  <2>5. QED
    BY <2>1, <2>2, <2>3, <2>4 DEF Steps
<1>4. QED
  BY <1>2, <1>3

LEMMA CountStep == ASSUME IInv, NEW d \in Dirs, Steps(d) PROVE Counting(d)'
<1>0. TypeOK /\ Shape(d) /\ Counting(d)
  BY DEF IInv
<1>1. \A trait : Does(trait)' = Does(trait)
  BY StepImpl DEF Does
<1>2. count[d] \in Nat /\ chunk[d] \in Nat /\ left[d] \in Nat /\ Len(out[d]) \in Nat
  BY <1>0 DEF TypeOK
<1>3. CASE PeerSends(d) \/ PeerCloses(d)
  <2>1. UNCHANGED <<impl, pc, count, chunk, left, out, fault>>
    BY <1>3 DEF PeerSends, PeerCloses
  <2>2. QED
    BY <1>0, <2>1 DEF Counting, Running, Uncounted, Does
<1>4. CASE Read(d)
  <2>1. /\ pc[d] = "read" /\ pc'[d] = "write" /\ out'[d] = out[d] /\ count'[d] = count[d]
        /\ chunk'[d] \in Nat /\ left'[d] = chunk'[d]
    BY <1>0, <1>4, RelayAssumption DEF Read, Least, Room, TypeOK
  <2>2. count[d] = Len(out[d])
    BY <1>0, <1>2, <2>1 DEF Counting, Running, Uncounted
  <2>3. QED
    BY <1>2, <2>1, <2>2 DEF Counting, Running, Uncounted
<1>5. CASE ReadEof(d)
  <2>1. /\ pc[d] = "read" /\ pc'[d] = "ended" /\ out'[d] = out[d] /\ count'[d] = count[d]
    BY <1>0, <1>5 DEF ReadEof, TypeOK
  <2>2. count[d] = Len(out[d])
    BY <1>0, <1>2, <2>1 DEF Counting, Running, Uncounted
  <2>3. QED
    BY <1>2, <2>1, <2>2 DEF Counting, Running
<1>6. CASE ReadFails(d)
  <2>1. /\ pc[d] = "read" /\ pc'[d] = "ended" /\ out'[d] = out[d]
        /\ count'[d] = AfterError(d) /\ fault'[d] = "read"
    BY <1>0, <1>6 DEF ReadFails, TypeOK
  <2>2. count[d] = Len(out[d])
    BY <1>0, <1>2, <2>1 DEF Counting, Running, Uncounted
  <2>3. Does("goOn") => count'[d] = count[d]
    BY <1>0, <2>1, TraitFacts DEF AfterError, TypeOK
  <2>4. QED
    BY <1>1, <1>2, <2>1, <2>2, <2>3 DEF Counting, Running, AfterError
<1>7. CASE Write(d)
  <2>1. PICK w \in 1..left[d] :
       /\ out'[d] = out[d] \o SubSeq(buf[d], 1, w)
       /\ left'[d] = left[d] - w
       /\ count'[d] = count[d] + Tally(d, w)
       /\ pc'[d] = IF w = left[d] THEN "read" ELSE "write"
    BY <1>0, <1>7 DEF Write, TypeOK
  <2>2. /\ pc[d] = "write" /\ chunk'[d] = chunk[d] /\ buf[d] \in Seq(Nat)
        /\ out[d] \in Seq(Nat) /\ w \in 1..Len(buf[d])
    BY <1>0, <1>7 DEF Write, Shape, TypeOK
  <2>3. Len(out'[d]) = Len(out[d]) + w
    BY <2>1, <2>2, Moved
  <2>4. CASE Does("parts")
    <3>1. count[d] = Len(out[d])
      BY <1>0, <1>2, <2>2, <2>4 DEF Counting, Running, Uncounted
    <3>2. count'[d] = Len(out'[d])
      BY <2>1, <2>3, <2>4, <3>1 DEF Tally
    <3>3. Uncounted(d)' = 0
      BY <1>1, <2>4 DEF Uncounted
    <3>4. QED
      BY <1>2, <2>1, <2>3, <3>2, <3>3 DEF Counting, Running
  <2>5. CASE ~Does("parts")
    <3>1. count[d] + (chunk[d] - left[d]) = Len(out[d])
      BY <1>0, <2>2, <2>5 DEF Counting, Running, Uncounted
    <3>2. CASE w = left[d]
      <4>1. count'[d] = count[d] + chunk[d] /\ pc'[d] = "read"
        BY <2>1, <2>5, <3>2 DEF Tally
      <4>2. count'[d] = Len(out'[d])
        BY <1>2, <2>3, <3>1, <3>2, <4>1
      <4>3. QED
        BY <1>2, <2>3, <4>1, <4>2 DEF Counting, Running, Uncounted
    <3>3. CASE w # left[d]
      <4>1. count'[d] = count[d] /\ pc'[d] = "write"
        BY <1>2, <2>1, <2>5, <3>3 DEF Tally
      <4>2. count'[d] + (chunk'[d] - left'[d]) = Len(out'[d])
        <5> DEFINE a == count[d]
                   b == chunk[d]
                   c == left[d]
                   e == Len(out[d])
        <5>1. left'[d] = c - w /\ chunk'[d] = b /\ w \in Nat
          BY <2>1, <2>2
        <5>2. count'[d] = a /\ Len(out'[d]) = e + w
          BY <2>3, <4>1
        <5>3. a \in Nat /\ b \in Nat /\ c \in Nat /\ e \in Nat /\ a + (b - c) = e
          BY <1>2, <3>1
        <5> HIDE DEF a, b, c, e
        <5>4. a + (b - (c - w)) = e + w
          BY <5>1, <5>3
        <5>5. QED
          BY <5>1, <5>2, <5>4
      <4>3. QED
        BY <1>1, <2>5, <4>1, <4>2 DEF Counting, Running, Uncounted
    <3>4. QED
      BY <3>2, <3>3
  <2>6. QED
    BY <2>4, <2>5
<1>8. CASE WriteFails(d)
  <2>1. /\ pc[d] = "write" /\ out'[d] = out[d] /\ fault'[d] = "write"
        /\ count'[d] = AfterError(d)
        /\ pc'[d] = IF Does("goOn") THEN "read" ELSE "ended"
    BY <1>0, <1>8 DEF WriteFails, TypeOK
  <2>2. left[d] <= chunk[d]
    BY <1>0, <2>1 DEF Shape
  <2>3. count[d] <= Len(out[d])
    BY <1>0, <1>2, <2>1, <2>2 DEF Counting, Running, Uncounted
  <2>4. CASE Does("goOn")
    <3>1. Does("parts") /\ Does("keep")
      BY <1>0, <2>4, TraitFacts DEF TypeOK
    <3>2. count'[d] = Len(out[d]) /\ pc'[d] = "read"
      BY <1>0, <1>2, <2>1, <2>4, <3>1 DEF Counting, Running, Uncounted, AfterError
    <3>3. QED
      BY <1>2, <2>1, <3>2 DEF Counting, Running, Uncounted
  <2>5. CASE ~Does("goOn")
    BY <1>1, <1>2, <2>1, <2>3, <2>5 DEF Counting, Running, AfterError
  <2>6. QED
    BY <2>4, <2>5
<1>9. CASE WriteTakesNothing(d)
  <2>1. /\ pc[d] = "write" /\ pc'[d] = "read" /\ out'[d] = out[d]
        /\ count'[d] = count[d] /\ Does("parts")
    BY <1>0, <1>9 DEF WriteTakesNothing, TypeOK
  <2>2. count[d] = Len(out[d])
    BY <1>0, <1>2, <2>1 DEF Counting, Running, Uncounted
  <2>3. QED
    BY <1>2, <2>1, <2>2 DEF Counting, Running, Uncounted
<1>10. QED
  BY <1>3, <1>4, <1>5, <1>6, <1>7, <1>8, <1>9 DEF Steps

(* A step of one direction keeps the whole invariant.                      *)
LEMMA DirectionStep == ASSUME IInv, NEW d \in Dirs, Steps(d) PROVE IInv'
<1>1. ASSUME NEW e \in Dirs, e # d PROVE (Shape(e) /\ Order(e) /\ Counting(e))'
  <2>1. Shape(e) /\ Order(e) /\ Counting(e) /\ TypeOK
    BY DEF IInv
  <2>2. /\ pc'[e] = pc[e] /\ sent'[e] = sent[e] /\ closed'[e] = closed[e]
        /\ inp'[e] = inp[e] /\ buf'[e] = buf[e] /\ chunk'[e] = chunk[e]
        /\ left'[e] = left[e] /\ out'[e] = out[e] /\ count'[e] = count[e]
        /\ fault'[e] = fault[e]
    BY <1>1, <2>1, StepFrame
  <2>3. UNCHANGED <<impl, call>>
    BY StepImpl
  <2>4. Shape(e)' /\ Counting(e)'
    BY <2>1, <2>2, <2>3 DEF Shape, Counting, Running, Uncounted, Does
  <2>5. Order(e)'
    BY <2>1, <2>2, <2>3 DEF Order, Absorbing
  <2>6. QED
    BY <2>4, <2>5
<1>2. (Shape(d) /\ Order(d) /\ Counting(d))'
  BY ShapeStep, OrderStep, CountStep
<1>3. TypeOK' /\ Started'
  BY TypeStep, StartedStep
<1>4. QED
  BY <1>1, <1>2, <1>3 DEF IInv

LEMMA InvStep == ASSUME IInv, [Next]_vars PROVE IInv'
<1>1. CASE UNCHANGED vars
  BY <1>1 DEF IInv, TypeOK, Started, ReturnedIsQuiet, Running, Active, Does, Shape,
              Order, Absorbing, Counting, Uncounted
<1>2. QED
  BY <1>1, StepKinds, CallStep, StartStep, AbsorbStep, DirectionStep

(* The invariant holds throughout.                                         *)
LEMMA Invariant == Spec => []IInv
BY InitInv, InvStep, PTL DEF Spec

(***************************************************************************)
(* Every variable has its type, and no buffer or pipe ever holds more than *)
(* its size, also when a failed or an empty write has left bytes in it     *)
(* (zero_copy.rs 80-124).                                                  *)
(***************************************************************************)
THEOREM RelayTypes == Spec => []TypeOK
<1>1. IInv => TypeOK
  BY DEF IInv
<1>2. QED
  BY <1>1, Invariant, PTL

(***************************************************************************)
(* No relay function of Impls reports more bytes than it delivered, for    *)
(* every size of the buffers (zero_copy.rs 105-108, high_perf.rs 115).     *)
(* The report is equal to what was delivered if no call returned an error, *)
(* and in the Linux relay always; after an error the other functions only  *)
(* keep to the bound.                                                      *)
(***************************************************************************)
THEOREM CountsRight == Spec => []CountsDelivered
<1>1. IInv => CountsDelivered
  BY DEF IInv, Counting, CountsDelivered
<1>2. QED
  BY <1>1, Invariant, PTL

(***************************************************************************)
(* A relay call that has returned has no running worker, but for a second  *)
(* pipe that could not be made (zero_copy.rs 153) and a join that timed    *)
(* out (handler.rs 258, in a function without a caller).                   *)
(***************************************************************************)
THEOREM QuietReturn == Spec => []ReturnedIsQuiet
<1>1. IInv => ReturnedIsQuiet
  BY DEF IInv, Started
<1>2. QED
  BY <1>1, Invariant, PTL
----------------------------------------------------------------------------
(* Refinement.  A step of Relay is a step of ByteRelay or changes nothing  *)
(* of what ByteRelay sees.                                                 *)
Seen == <<sent, out, Verdict>>

LEMMA RefineInit == Init => Abstract!Init
BY DEF Init, Abstract!Init, Verdict

(* The sink has a prefix of what was sent, all of it if nothing is left.   *)
LEMMA Delivered ==
  ASSUME IInv, NEW d \in Dirs, pc[d] # "idle"
  PROVE  /\ sent[d] \in Seq(Nat) /\ out[d] \in Seq(Nat)
         /\ From(sent[d], 0) /\ From(out[d], 0) /\ Len(out[d]) <= Len(sent[d])
         /\ buf[d] = <<>> /\ inp[d] = <<>> => out[d] = sent[d]
<1>1. Runs(out[d], buf[d], inp[d], sent[d])
  BY DEF IInv, Order
<1>2. QED
  BY <1>1, RunsPrefix, PrefixFrom

LEMMA RefineStep ==
  ASSUME IInv, IInv', [Next]_vars
  PROVE  Abstract!Next \/ UNCHANGED Seen
<1>0. TypeOK /\ TypeOK'
  BY DEF IInv
<1>1. CASE CallOnly \/ Absorb \/ UNCHANGED vars
  <2>1. UNCHANGED <<sent, out, pc, fault>>
    BY <1>1, CallOnlyFrame DEF Absorb
  <2>2. QED
    BY <2>1 DEF Seen, Verdict
<1>2. CASE Starting
  <2>1. \A e \in Dirs : pc'[e] # "ended" <=> pc[e] # "ended"
    BY <1>0, <1>2 DEF Starting, StartFirst, StartSecond, StartAll, Start, TypeOK,
       IInv, Started
  <2>2. QED
    BY <1>2, <2>1, StartingFrame DEF Seen, Verdict
<1>3. ASSUME NEW d \in Dirs, PeerSends(d) PROVE Abstract!Send(d)
  <2>1. Verdict[d] # "complete"
    BY <1>3 DEF Verdict, IInv, Shape, PeerSends
  <2>2. Len(sent[d]) + 1 \in 1..(MaxSent["c2s"] + MaxSent["s2c"])
    <3>1. Len(sent[d]) \in Nat /\ Len(sent[d]) < MaxSent[d]
      BY <1>0, <1>3 DEF PeerSends, TypeOK
    <3>2. MaxSent["c2s"] \in Nat /\ MaxSent["s2c"] \in Nat /\ d \in {"c2s", "s2c"}
      BY RelayAssumption DEF Dirs
    <3>3. QED
      BY <3>1, <3>2
  <2>3. sent' = [sent EXCEPT ![d] = Append(@, Len(sent[d]) + 1)]
    BY <1>3 DEF PeerSends
  <2>4. UNCHANGED <<out, Verdict>>
    BY <1>3 DEF PeerSends, Verdict
  <2>5. QED
    BY <2>1, <2>2, <2>3, <2>4 DEF Abstract!Send
<1>4. ASSUME NEW d \in Dirs, PeerCloses(d) \/ Read(d) PROVE UNCHANGED Seen
  <2>1. \A e \in Dirs : pc'[e] # "ended" <=> pc[e] # "ended"
    BY <1>0, <1>4 DEF PeerCloses, Read, TypeOK
  <2>2. UNCHANGED <<sent, out, fault>>
    BY <1>4 DEF PeerCloses, Read
  <2>3. QED
    BY <2>1, <2>2 DEF Seen, Verdict
<1>5. ASSUME NEW d \in Dirs, pc[d] \in {"read", "write"}, UNCHANGED <<sent, out>>,
             pc' = [pc EXCEPT ![d] = "ended"],
             \A e \in Dirs : e # d => fault'[e] = fault[e],
             fault'[d] = "none" => out[d] = sent[d]
      PROVE  Abstract!Finish(d)
  <2>1. Verdict[d] = "open"
    BY <1>5 DEF Verdict
  <2>2. Verdict'[d] \in {"complete", "cut"}
    BY <1>0, <1>5 DEF Verdict, TypeOK
  <2>3. Verdict'[d] = "complete" => out[d] = sent[d]
    BY <1>0, <1>5 DEF Verdict, TypeOK
  <2>4. Verdict' = [Verdict EXCEPT ![d] = Verdict'[d]]
    BY <1>0, <1>5 DEF Verdict, TypeOK
  <2>5. QED
    BY <1>5, <2>1, <2>2, <2>3, <2>4 DEF Abstract!Finish
<1>6. ASSUME NEW d \in Dirs, ReadEof(d) PROVE Abstract!Finish(d)
  <2>1. fault[d] = "none" => out[d] = sent[d]
    BY <1>6, Delivered DEF ReadEof, EofSeen, IInv, Shape
  <2>2. QED
    BY <1>5, <1>6, <2>1 DEF ReadEof
<1>7. ASSUME NEW d \in Dirs, ReadFails(d) PROVE Abstract!Finish(d)
  <2>1. fault'[d] = "read" /\ \A e \in Dirs : e # d => fault'[e] = fault[e]
    BY <1>0, <1>7 DEF ReadFails, TypeOK
  <2>2. QED
    BY <1>5, <1>7, <2>1 DEF ReadFails
<1>8. ASSUME NEW d \in Dirs, WriteFails(d) PROVE Abstract!Finish(d) \/ UNCHANGED Seen
  <2>1. fault'[d] = "write" /\ \A e \in Dirs : e # d => fault'[e] = fault[e]
    BY <1>0, <1>8 DEF WriteFails, TypeOK
  <2>2. CASE Does("goOn")
    <3>1. /\ \A e \in Dirs : pc'[e] # "ended" <=> pc[e] # "ended"
          /\ pc'[d] # "ended" /\ UNCHANGED <<sent, out>>
      BY <1>0, <1>8, <2>2 DEF WriteFails, TypeOK
    <3>2. QED
      BY <2>1, <3>1 DEF Seen, Verdict
  <2>3. CASE ~Does("goOn")
    BY <1>5, <1>8, <2>1, <2>3 DEF WriteFails
  <2>4. QED
    BY <2>2, <2>3
<1>9. ASSUME NEW d \in Dirs, Write(d) PROVE Abstract!Deliver(d)
  <2>1. PICK w \in 1..left[d] :
       /\ out' = [out EXCEPT ![d] = @ \o SubSeq(buf[d], 1, w)]
       /\ pc' = [pc EXCEPT ![d] = IF w = left[d] THEN "read" ELSE "write"]
    BY <1>9 DEF Write
  <2>2. pc[d] = "write" /\ sent' = sent /\ fault' = fault
    BY <1>9 DEF Write
  <2>3. Verdict[d] = "open" /\ UNCHANGED Verdict
    BY <1>0, <2>1, <2>2 DEF Verdict, TypeOK
  <2>4. /\ sent[d] \in Seq(Nat) /\ out'[d] \in Seq(Nat)
        /\ From(sent[d], 0) /\ From(out'[d], 0) /\ Len(out'[d]) <= Len(sent[d])
    <3>1. pc'[d] # "idle" /\ ~Absorbing'
      BY <1>0, <2>1, <2>2 DEF TypeOK, IInv, Order
    <3>2. Runs(out'[d], buf'[d], inp'[d], sent'[d])
      BY <3>1 DEF IInv, Order
    <3>3. QED
      BY <2>2, <3>2, RunsPrefix
  <2>5. out'[d] = SubSeq(sent[d], 1, Len(out'[d]))
    BY <2>4, PrefixFrom
  <2>6. out' = [out EXCEPT ![d] = SubSeq(sent[d], 1, Len(out'[d]))]
    BY <1>0, <2>1, <2>5 DEF TypeOK
  <2>7. Len(out'[d]) \in Len(out[d])..Len(sent[d])
    <3>1. buf[d] \in Seq(Nat) /\ out[d] \in Seq(Nat) /\ w \in 1..Len(buf[d])
      BY <1>0, <2>2 DEF IInv, Shape, TypeOK
    <3>2. Len(out'[d]) = Len(out[d]) + w
      BY <1>0, <2>1, <3>1, Moved DEF TypeOK
    <3>3. Len(out[d]) \in Nat /\ Len(sent[d]) \in Nat /\ w \in Nat
      BY <2>4, <3>1
    <3>4. QED
      BY <2>4, <3>2, <3>3, SMTT(30)
  <2>8. QED
    BY <2>2, <2>3, <2>6, <2>7 DEF Abstract!Deliver
<1>10. ASSUME NEW d \in Dirs, WriteTakesNothing(d) PROVE UNCHANGED Seen
  <2>1. /\ \A e \in Dirs : pc'[e] # "ended" <=> pc[e] # "ended"
        /\ \A e \in Dirs : e # d => fault'[e] = fault[e]
        /\ pc'[d] # "ended" /\ UNCHANGED <<sent, out>>
    BY <1>0, <1>10 DEF WriteTakesNothing, TypeOK
  <2>2. QED
    BY <2>1 DEF Seen, Verdict
<1>11. QED
  BY <1>1, <1>2, <1>3, <1>4, <1>6, <1>7, <1>8, <1>9, <1>10, StepKinds
  DEF Steps, Abstract!Next

(***************************************************************************)
(* Every relay function of Impls implements the abstract relay of          *)
(* ByteRelay, for any buffer size and any number of bytes: bytes arrive in *)
(* order and once, whatever errors and empty writes come in between, and a *)
(* worker none of whose calls failed hands on everything before its FIN    *)
(* (zero_copy.rs 80-124, 240-266; splice_optimizer.rs; high_perf.rs).      *)
(***************************************************************************)
THEOREM RelayImplements == Spec => Promise
<1>1. IInv /\ IInv' /\ [Next]_vars => [Abstract!Next]_<<sent, out, Verdict>>
  BY RefineStep DEF Seen
<1>2. QED
  BY <1>1, RefineInit, Invariant, PTL DEF Spec, Promise, Abstract!Spec
============================================================================
