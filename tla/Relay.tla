------------------------------- MODULE Relay -------------------------------
(***************************************************************************)
(* One relayed TCP connection: the handler that connects to the remote     *)
(* (proxy/stealth_handler.rs, proxy/handler.rs), the relay functions of    *)
(* proxy/zero_copy.rs, proxy/splice_optimizer.rs and proxy/high_perf.rs,   *)
(* and the black hole a refused client falls into.                         *)
(*                                                                         *)
(* A relay runs a worker per direction.  A worker reads a chunk into its   *)
(* buffer (the pipe of a splice worker, a Vec of the others) and writes it *)
(* in as many parts as the sink takes.  WouldBlock and Interrupted retry   *)
(* after a pause and change nothing.  An error may come from any call.     *)
(***************************************************************************)
EXTENDS Chunks

CONSTANTS
  Impls,       \* the relay functions of this instance
  BufSize,     \* bytes a pipe or a buffer holds
  MaxSent      \* MaxSent[d]: bound on the bytes sent in direction d

Dirs == {"c2s", "s2c"}

(* What tells the relay functions apart:                                   *)
(*   connect   a handler connects first and relays with it                 *)
(*   stealth   ... and sends a client that is rejected into the black hole *)
(*   setup     the call can fail before its workers start                  *)
(*   pipes     each worker gets its pipe when the one before already runs  *)
(*   oneWay    client to server only, and an error is handed on            *)
(*   parts     every part written is counted, else whole chunks            *)
(*   keep      a worker that fails reports what it has counted, else 0     *)
(*   goOn      a worker goes on after a write error                        *)
(*   bounded   a timeout around the join                                   *)
ZeroCopyBidirectional == {"connect", "stealth", "setup", "pipes", "parts", "keep", "goOn"}
BulkBidirectional == {"connect", "stealth", "setup"}
OptimizedBidirectional == {"connect", "setup"}
BufferedBidirectional == {"keep"}
OptimizedStandardCopy == {"bounded"}
SpliceZeroCopy == {"setup", "oneWay", "parts"}
SpliceAdaptive == {"setup", "oneWay", "parts"}

(* bulk: zero_copy_bidirectional on the systems other than Linux; io_copy: *)
(* handle_connection of proxy/handler.rs.  forward_adaptive of             *)
(* proxy/resilient.rs is not among them: it writes what it reads back to   *)
(* the peer it came from (438, 477) and so relays nothing.                 *)
Traits ==
  [zero_copy |-> ZeroCopyBidirectional, bulk |-> BulkBidirectional,
   io_copy |-> OptimizedBidirectional, buffered |-> BufferedBidirectional,
   standard |-> OptimizedStandardCopy, splice |-> SpliceZeroCopy,
   splice_adaptive |-> SpliceAdaptive]

AllImpls == DOMAIN Traits

ASSUME RelayAssumption ==
  /\ Impls \subseteq AllImpls
  /\ BufSize \in Nat \ {0}
  /\ MaxSent \in [Dirs -> Nat]

VARIABLES
  impl,     \* the relay function in use
  call,     \* how far the handler and its relay call are
  pc,       \* pc[d]: the worker of direction d
  sent,     \* history: everything the source of d has sent
  closed,   \* closed[d]: the source has sent its FIN
  inp,      \* inp[d]: received and not yet read by the worker
  buf,      \* buf[d]: the worker's buffer; what is left in it at the end is lost
  chunk,    \* chunk[d]: length of the chunk read last
  left,     \* left[d]: how much of it is still to be written
  out,      \* out[d]: what the sink has received
  count,    \* count[d]: the bytes the worker reports
  fault     \* history: fault[d], the last call of the worker that failed, or
            \* a write that took nothing

peerVars == <<sent, closed>>
workVars == <<pc, buf, chunk, left, out, count, fault>>
vars == <<impl, call, inp, peerVars, workVars>>

Does(trait) == trait \in Traits[impl]
Active == IF Does("oneWay") THEN {"c2s"} ELSE Dirs
Running(d) == pc[d] \in {"read", "write"}

Init ==
  /\ impl \in Impls
  /\ call = IF Does("connect") THEN "connecting" ELSE "setup"
  /\ pc = [d \in Dirs |-> "idle"]
  /\ sent = [d \in Dirs |-> <<>>]
  /\ closed = [d \in Dirs |-> FALSE]
  /\ inp = [d \in Dirs |-> <<>>]
  /\ buf = [d \in Dirs |-> <<>>]
  /\ chunk = [d \in Dirs |-> 0]
  /\ left = [d \in Dirs |-> 0]
  /\ out = [d \in Dirs |-> <<>>]
  /\ count = [d \in Dirs |-> 0]
  /\ fault = [d \in Dirs |-> "none"]
----------------------------------------------------------------------------
(* The two peers.  A byte is known by its position in its direction.  The  *)
(* remote exists once it is connected.                                     *)
Connected == call \notin {"connecting", "refused", "blackhole", "absorbed"}

PeerSends(d) ==
  /\ d = "s2c" => Connected
  /\ ~closed[d] /\ Len(sent[d]) < MaxSent[d]
  /\ sent' = [sent EXCEPT ![d] = Append(@, Len(@) + 1)]
  /\ inp' = [inp EXCEPT ![d] = Append(@, Len(sent[d]) + 1)]
  /\ UNCHANGED <<impl, call, closed, workVars>>

PeerCloses(d) ==
  /\ d = "s2c" => Connected
  /\ ~closed[d]
  /\ closed' = [closed EXCEPT ![d] = TRUE]
  /\ UNCHANGED <<impl, call, inp, sent, workVars>>
----------------------------------------------------------------------------
(* handle_stealth and handle_connection: connect, and relay.               *)
Connect ==
  /\ call = "connecting"
  /\ call' = "setup"
  /\ UNCHANGED <<impl, inp, peerVars, workVars>>

(* A rejection sends the client of a stealth handler into the black hole;  *)
(* any other error, and every error and timeout of the plain handler, ends *)
(* the call.                                                               *)
ConnectRejected ==
  /\ call = "connecting"
  /\ Does("stealth")
  /\ call' = "blackhole"
  /\ UNCHANGED <<impl, inp, peerVars, workVars>>

ConnectFails ==
  /\ call = "connecting"
  /\ call' = "refused"
  /\ UNCHANGED <<impl, inp, peerVars, workVars>>

Absorb ==
  /\ call = "blackhole"
  /\ inp["c2s"] # <<>>
  /\ inp' = [inp EXCEPT !["c2s"] = <<>>]
  /\ UNCHANGED <<impl, call, peerVars, workVars>>

(* The client leaves, its read fails, or the random delay is over.         *)
BlackholeEnds ==
  /\ call = "blackhole"
  /\ call' = "absorbed"
  /\ UNCHANGED <<impl, inp, peerVars, workVars>>
----------------------------------------------------------------------------
(* The relay call: set_nodelay, the pipes, the workers, the join.          *)
SetupFails ==
  /\ call = "setup"
  /\ Does("setup")
  /\ call' = "error"
  /\ UNCHANGED <<impl, inp, peerVars, workVars>>

Start(d) == pc' = [pc EXCEPT ![d] = "read"]

(* The Linux relay creates the second pipe when the first worker already   *)
(* runs; if that fails the call returns and the worker goes on.            *)
StartFirst ==
  /\ call = "setup" /\ Does("pipes")
  /\ Start("c2s") /\ call' = "half"
  /\ UNCHANGED <<impl, inp, peerVars, buf, chunk, left, out, count, fault>>

StartSecond ==
  /\ call = "half"
  /\ Start("s2c") /\ call' = "relaying"
  /\ UNCHANGED <<impl, inp, peerVars, buf, chunk, left, out, count, fault>>

SecondPipeFails ==
  /\ call = "half"
  /\ call' = "error"
  /\ UNCHANGED <<impl, inp, peerVars, workVars>>

StartAll ==
  /\ call = "setup" /\ ~Does("pipes")
  /\ pc' = [d \in Dirs |-> IF d \in Active THEN "read" ELSE "idle"]
  /\ call' = "relaying"
  /\ UNCHANGED <<impl, inp, peerVars, buf, chunk, left, out, count, fault>>

OneDone == \E d \in Active : pc[d] = "ended" \* faulty variant
AllDone == \A d \in Active : pc[d] = "ended"

(* join!: only the one-way splice hands an error on.                       *)
Return ==
  /\ call = "relaying"
  /\ AllDone
  /\ call' = IF Does("oneWay") /\ fault["c2s"] \in {"read", "write"}
             THEN "error" ELSE "ok"
  /\ UNCHANGED <<impl, inp, peerVars, workVars>>

(* The timeout of 30 s around the join leaves the tasks running.           *)
Timeout ==
  /\ call = "relaying" /\ Does("bounded")
  /\ call' = "timeout"
  /\ UNCHANGED <<impl, inp, peerVars, workVars>>
----------------------------------------------------------------------------
(* A worker.                                                               *)
RoomIgnoringRest(d) == BufSize \* faulty variant
Room(d) == BufSize - Len(buf[d])

Read(d) ==
  /\ pc[d] = "read"
  /\ \E n \in 1..Least(Len(inp[d]), Room(d)) :
       /\ buf' = [buf EXCEPT ![d] = @ \o SubSeq(inp[d], 1, n)]
       /\ inp' = [inp EXCEPT ![d] = Rest(@, n)]
       /\ chunk' = [chunk EXCEPT ![d] = n]
       /\ left' = [left EXCEPT ![d] = n]
  /\ pc' = [pc EXCEPT ![d] = "write"]
  /\ UNCHANGED <<impl, call, peerVars, out, count, fault>>

EofUnseen(d) == FALSE \* faulty variant
EofSeen(d) == closed[d] /\ inp[d] = <<>> /\ Room(d) > 0

(* The end of the file is only seen if the pipe has room for data.         *)
ReadEof(d) ==
  /\ pc[d] = "read"
  /\ EofSeen(d)
  /\ pc' = [pc EXCEPT ![d] = "ended"]
  /\ UNCHANGED <<impl, call, inp, peerVars, buf, chunk, left, out, count, fault>>

(* A worker that fails reports what it counted, or nothing if it returns   *)
(* the error.                                                              *)
AfterError(d) == IF Does("keep") THEN count[d] ELSE 0

ReadFails(d) ==
  /\ pc[d] = "read"
  /\ pc' = [pc EXCEPT ![d] = "ended"]
  /\ count' = [count EXCEPT ![d] = AfterError(d)]
  /\ fault' = [fault EXCEPT ![d] = "read"]
  /\ UNCHANGED <<impl, call, inp, peerVars, buf, chunk, left, out>>

TallyChunk(d, w) == IF left[d] = chunk[d] THEN chunk[d] ELSE 0 \* faulty variant
Tally(d, w) == IF Does("parts") THEN w ELSE IF w = left[d] THEN chunk[d] ELSE 0

Unsent(s, w) == s \* faulty variant: the part just written is kept
Written(s, w) == Rest(s, w)

Write(d) ==
  /\ pc[d] = "write"
  /\ \E w \in 1..left[d] :
       /\ out' = [out EXCEPT ![d] = @ \o SubSeq(buf[d], 1, w)]
       /\ buf' = [buf EXCEPT ![d] = Written(@, w)]
       /\ left' = [left EXCEPT ![d] = @ - w]
       /\ count' = [count EXCEPT ![d] = @ + Tally(d, w)]
       /\ pc' = [pc EXCEPT ![d] = IF w = left[d] THEN "read" ELSE "write"]
  /\ UNCHANGED <<impl, call, inp, peerVars, chunk, fault>>

(* The Linux relay leaves only its inner loop on a write error: the rest   *)
(* stays in the pipe, in front of what is read next.                       *)
WriteFails(d) ==
  /\ pc[d] = "write"
  /\ fault' = [fault EXCEPT ![d] = "write"]
  /\ left' = [left EXCEPT ![d] = 0]
  /\ pc' = [pc EXCEPT ![d] = IF Does("goOn") THEN "read" ELSE "ended"]
  /\ count' = [count EXCEPT ![d] = AfterError(d)]
  /\ UNCHANGED <<impl, call, inp, peerVars, buf, chunk, out>>

(* splice() into the sink returns 0: every splice worker leaves its inner  *)
(* loop without an error, and the rest stays in the pipe here too.  For a  *)
(* write_all() this is an error like the others.                           *)
WriteTakesNothing(d) ==
  /\ pc[d] = "write"
  /\ Does("parts")
  /\ fault' = [fault EXCEPT ![d] = "zero"]
  /\ left' = [left EXCEPT ![d] = 0]
  /\ pc' = [pc EXCEPT ![d] = "read"]
  /\ UNCHANGED <<impl, call, inp, peerVars, buf, chunk, out, count>>
----------------------------------------------------------------------------
Handler ==
  \/ Connect \/ ConnectRejected \/ ConnectFails \/ BlackholeEnds
  \/ SetupFails \/ StartFirst \/ StartSecond \/ SecondPipeFails \/ StartAll
  \/ Return \/ Timeout

Reads(d) == Read(d) \/ ReadEof(d)
Writes(d) == Write(d) \/ WriteFails(d) \/ WriteTakesNothing(d)
Worker(d) == Reads(d) \/ ReadFails(d) \/ Writes(d)

Next ==
  \/ Handler \/ Absorb
  \/ \E d \in Dirs : PeerSends(d) \/ PeerCloses(d) \/ Worker(d)

(* A worker that can read is scheduled, and the handler's calls are timed  *)
(* or local.  Nothing is assumed of the peers: a source need not send nor  *)
(* close, and a sink need not take a byte, so writes are not fair.         *)
Fairness == WF_vars(Handler) /\ \A d \in Dirs : WF_vars(Reads(d))

Spec == Init /\ [][Next]_vars /\ Fairness
----------------------------------------------------------------------------
Calls == {"connecting", "refused", "blackhole", "absorbed", "setup", "half",
          "relaying", "ok", "error", "timeout"}

(* Every variable has its type; a buffer never holds more than its size.   *)
TypeOK ==
  /\ impl \in Impls
  /\ call \in Calls
  /\ pc \in [Dirs -> {"idle", "read", "write", "ended"}]
  /\ sent \in [Dirs -> Seq(Nat)] /\ inp \in [Dirs -> Seq(Nat)]
  /\ buf \in [Dirs -> Seq(Nat)] /\ out \in [Dirs -> Seq(Nat)]
  /\ closed \in [Dirs -> BOOLEAN]
  /\ chunk \in [Dirs -> Nat] /\ left \in [Dirs -> Nat] /\ count \in [Dirs -> Nat]
  /\ fault \in [Dirs -> {"none", "read", "write", "zero"}]
  /\ \A d \in Dirs : Len(buf[d]) <= BufSize

(* How the stream of a direction ended, as the history of the worker tells *)
(* it: without a failed call, or cut.  Nobody is told: the sink gets a FIN *)
(* in both cases, and the Linux relay returns Ok with its counts in both   *)
(* (zero_copy.rs 114, 137).                                                *)
Verdict == [d \in Dirs |-> IF pc[d] # "ended" THEN "open"
                           ELSE IF fault[d] = "none" THEN "complete" ELSE "cut"]

Abstract == INSTANCE ByteRelay WITH
              Chans <- Dirs, Byte <- 1..(MaxSent["c2s"] + MaxSent["s2c"]),
              got <- out, verdict <- Verdict

(***************************************************************************)
(* Every relay function of Impls implements the abstract relay: partial    *)
(* writes, write errors and empty writes that leave bytes in the pipe in   *)
(* front of the next chunk (zero_copy.rs 109-115, splice_optimizer.rs 107) *)
(* and half-open ends never lose, repeat or reorder a byte in the middle,  *)
(* and a worker none of whose calls failed hands on everything before its  *)
(* FIN.  Of a worker with a failed call only the prefix is promised.       *)
(***************************************************************************)
Promise == Abstract!Spec

(***************************************************************************)
(* A worker never reports a byte that was not delivered (zero_copy.rs      *)
(* 105-108, high_perf.rs 115).  It reports exactly the bytes delivered if  *)
(* no call of it returned an error, and in the Linux relay even then;      *)
(* after an error the others report whole chunks or nothing.               *)
(***************************************************************************)
CountsDelivered ==
  \A d \in Dirs : pc[d] = "ended" =>
     /\ count[d] <= Len(out[d])
     /\ fault[d] \in {"none", "zero"} \/ Does("goOn") => count[d] = Len(out[d])

(***************************************************************************)
(* When the relay call has returned no worker still moves bytes, but for   *)
(* the case that the second pipe of the Linux relay could not be made      *)
(* (zero_copy.rs 153).  A join that timed out (handler.rs 258) leaves its  *)
(* workers too; that function has no caller.                               *)
(***************************************************************************)
ReturnedIsQuiet ==
  call \in {"ok", "error", "timeout"} => \A d \in Dirs :
     Running(d) => \/ call = "timeout"
                   \/ Does("pipes") /\ call = "error" /\ d = "c2s"

(* A failed or an empty write has left the pipe full: splice() into it     *)
(* gives EAGAIN for ever, and the end of the source is never seen.         *)
Wedged(d) == fault[d] \in {"write", "zero"} /\ pc[d] = "read" /\ Room(d) = 0

(***************************************************************************)
(* A worker whose source has closed ends, with two exceptions: one that is *)
(* wedged on a full pipe (zero_copy.rs 109-124), and one whose sink takes  *)
(* no more bytes and does not fail either: WouldBlock is retried without   *)
(* bound (zero_copy.rs 110-112), a write_all() has no timeout.             *)
(***************************************************************************)
WorkerEnds ==
  \A d \in Dirs :
     [](Running(d) /\ closed[d] =>
          <>(pc[d] = "ended" \/ Wedged(d)) \/ <>[](pc[d] = "write"))
============================================================================
