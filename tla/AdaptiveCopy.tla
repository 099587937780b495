---------------------------- MODULE AdaptiveCopy ----------------------------
(***************************************************************************)
(* The one-way copy functions that choose their buffer and their flushes:  *)
(* bulk_copy_optimized (proxy/zero_copy.rs and proxy/adaptive_copy.rs),    *)
(* adaptive_copy (proxy/adaptive_copy.rs), adaptive_stream_copy and        *)
(* adaptive_tcp_stream_copy (proxy/adaptive_stream.rs).                    *)
(*                                                                         *)
(* The writer is any AsyncWrite: it may hold back what it was given until  *)
(* it is flushed.  Sizes are in units of 16 KB in the code; here they are  *)
(* parameters with the order they have there.                              *)
(***************************************************************************)
EXTENDS Chunks

CONSTANTS
  Kinds,          \* the copy functions of this instance
  MaxSent,        \* bound on the bytes of a stream
  Estimates,      \* estimated sizes given to adaptive_copy
  SmallFile,      \* SMALL_FILE_THRESHOLD
  IoBuffer,       \* the 8 KB that stand for tokio::io::copy
  BulkBuffer,     \* the buffer of the bulk copies
  BulkInterval,   \* their flush interval
  SampleSize,     \* INITIAL_SAMPLE_SIZE
  SpliceMin,      \* the sample from which the TCP version would splice
  SmallSample,    \* below it: SmallPacket; from SpliceMin on: ContinuousStream
  SmallBuffer, BurstBuffer, BurstInterval, StreamBuffer, StreamInterval

Sizes == {SmallFile, IoBuffer, BulkBuffer, BulkInterval, SampleSize, SpliceMin,
          SmallSample, SmallBuffer, BurstBuffer, BurstInterval, StreamBuffer,
          StreamInterval}

ASSUME CopyAssumption ==
  /\ Kinds \subseteq {"bulk_copy", "adaptive_copy", "stream", "tcp"}
  /\ MaxSent \in Nat /\ Estimates \subseteq Nat
  /\ Sizes \subseteq Nat \ {0}
  /\ SmallSample < SampleSize /\ SampleSize < SpliceMin
  /\ IoBuffer # BulkBuffer

VARIABLES
  kind, estimate,
  pc,
  sent, closed, inp,    \* the source, as seen by itself and by the reader
  sample,               \* the initial sample, until it is written
  held,                 \* accepted by the writer, not flushed yet
  out,                  \* what has reached the sink
  total, lastFlush,
  short                 \* history: the last read did not fill the buffer

srcVars == <<sent, closed>>
cntVars == <<total, lastFlush, short>>
vars == <<kind, estimate, pc, inp, sample, held, out, srcVars, cntVars>>

OptimalBufferSize(n) == IF n < SmallFile THEN IoBuffer ELSE BulkBuffer
ByIoCopy == kind = "adaptive_copy" /\ OptimalBufferSize(estimate) = IoBuffer

(* analyze_traffic_pattern of a sample that did not end the stream, and    *)
(* what execute_adaptive_transfer makes of it.                             *)
Strategy(n) ==
  CASE n < SmallSample -> "small" [] n >= SpliceMin -> "continuous" [] OTHER -> "burst"

Buffer ==
  IF kind # "stream" THEN IF ByIoCopy THEN IoBuffer ELSE BulkBuffer
  ELSE [small |-> SmallBuffer, burst |-> BurstBuffer,
        continuous |-> StreamBuffer][Strategy(SampleSize)]

Interval ==
  IF kind # "stream" THEN BulkInterval
  ELSE [small |-> SmallBuffer, burst |-> BurstInterval,
        continuous |-> StreamInterval][Strategy(SampleSize)]

FlushesShortReads == kind = "stream" => Strategy(SampleSize) # "continuous"

Init ==
  /\ kind \in Kinds
  /\ estimate \in IF kind = "adaptive_copy" THEN Estimates ELSE {0}
  /\ pc = IF kind \in {"stream", "tcp"} THEN "sample" ELSE "copy"
  /\ sent = <<>> /\ closed = FALSE /\ inp = <<>>
  /\ sample = <<>> /\ held = <<>> /\ out = <<>>
  /\ total = 0 /\ lastFlush = 0 /\ short = FALSE
----------------------------------------------------------------------------
PeerSends ==
  /\ ~closed /\ Len(sent) < MaxSent
  /\ sent' = Append(sent, Len(sent) + 1)
  /\ inp' = Append(inp, Len(sent) + 1)
  /\ UNCHANGED <<kind, estimate, pc, closed, sample, held, out, cntVars>>

PeerCloses ==
  /\ ~closed
  /\ closed' = TRUE
  /\ UNCHANGED <<kind, estimate, pc, inp, sent, sample, held, out, cntVars>>

(* The writer may pass on what it holds whenever it likes, while it lives: *)
(* the copy owns it and drops it on return.                                *)
Returned == pc \in {"ok", "error"}

WriterDrains ==
  /\ ~Returned /\ held # <<>>
  /\ out' = out \o held /\ held' = <<>>
  /\ UNCHANGED <<kind, estimate, pc, inp, sample, srcVars, cntVars>>
----------------------------------------------------------------------------
EofUnseen == FALSE \* faulty variant
Eof == closed /\ inp = <<>>

(* read_initial_sample: read until the sample is full or the stream ends.  *)
SampleLimit == SampleSize

Sample ==
  /\ pc = "sample"
  /\ \E n \in 1..Least(Len(inp), SampleLimit - Len(sample)) :
       /\ sample' = sample \o SubSeq(inp, 1, n)
       /\ inp' = Rest(inp, n)
       /\ pc' = IF Len(sample) + n >= SampleLimit THEN "sampled" ELSE "sample"
  /\ UNCHANGED <<kind, estimate, held, out, srcVars, cntVars>>

SampleEof ==
  /\ pc = "sample" /\ Eof
  /\ pc' = "sampledAll"
  /\ UNCHANGED <<kind, estimate, inp, sample, held, out, srcVars, cntVars>>

(* The sample is written; at the end of the stream and in the TCP version  *)
(* it is also flushed.  The TCP version then splices a large sample and    *)
(* gives every other one up.                                               *)
AfterSample ==
  IF pc = "sampledAll" THEN "flushLast"
  ELSE IF kind = "stream" THEN "copy"
  ELSE IF Len(sample) >= SpliceMin THEN "splice" ELSE "flushGiveUp"

WriteSample ==
  /\ pc \in {"sampled", "sampledAll"}
  /\ held' = held \o sample
  /\ total' = Len(sample) /\ lastFlush' = Len(sample)
  /\ pc' = AfterSample
  /\ sample' = <<>>
  /\ UNCHANGED <<kind, estimate, inp, out, srcVars, short>>
----------------------------------------------------------------------------
IntervalDue(n) == total + n - lastFlush >= Interval
ShortUnseen(n) == FALSE \* faulty variant
ShortRead(n) == FlushesShortReads /\ n < Buffer

CountedAnew(n) == n \* faulty variant
Counted(n) == total + n

(* One round of a copy loop: read, write_all, and flush when it is due.    *)
(* tokio::io::copy leaves the flush to the end.                            *)
CopyChunk ==
  /\ pc = "copy"
  /\ \E n \in 1..Least(Len(inp), Buffer) :
       /\ held' = held \o SubSeq(inp, 1, n)
       /\ inp' = Rest(inp, n)
       /\ total' = Counted(n)
       /\ short' = (n < Buffer)
       /\ pc' = IF ~ByIoCopy /\ (IntervalDue(n) \/ ShortRead(n)) THEN "flush" ELSE "copy"
  /\ UNCHANGED <<kind, estimate, sample, out, srcVars, lastFlush>>

LastFlushSkipped == FALSE \* faulty variant
LastFlushDue == lastFlush < total \/ ByIoCopy

CopyEof ==
  /\ pc = "copy" /\ Eof
  /\ pc' = IF LastFlushDue THEN "flushLast" ELSE "flushed"
  /\ UNCHANGED <<kind, estimate, inp, sample, held, out, srcVars, cntVars>>

Flush ==
  /\ pc \in {"flush", "flushLast", "flushGiveUp"}
  /\ out' = out \o held /\ held' = <<>>
  /\ lastFlush' = total
  /\ pc' = CASE pc = "flush" -> "copy" [] pc = "flushLast" -> "flushed" [] OTHER -> "error"
  /\ UNCHANGED <<kind, estimate, inp, sample, total, short, srcVars>>

ReturnOk ==
  /\ pc = "flushed"
  /\ pc' = "ok"
  /\ UNCHANGED <<kind, estimate, inp, sample, held, out, srcVars, cntVars>>

(* Any read, write or flush may fail, and its error is returned; the rest  *)
(* of the stream is lost with the reader.                                  *)
Fails ==
  /\ ~Returned /\ pc # "flushed"
  /\ pc' = "error"
  /\ UNCHANGED <<kind, estimate, inp, sample, held, out, srcVars, cntVars>>
----------------------------------------------------------------------------
Copy == Sample \/ SampleEof \/ WriteSample \/ CopyChunk \/ CopyEof \/ Flush
        \/ ReturnOk

Next == PeerSends \/ PeerCloses \/ WriterDrains \/ Copy \/ Fails

(* The task is scheduled, and its writes and flushes complete: the sink    *)
(* drains.  The source need not send or close.                             *)
Spec == Init /\ [][Next]_vars /\ WF_vars(Copy)
----------------------------------------------------------------------------
(* Every variable has its type.                                            *)
TypeOK ==
  /\ kind \in Kinds /\ estimate \in Nat
  /\ pc \in {"sample", "sampled", "sampledAll", "copy", "flush", "flushLast",
             "flushed", "flushGiveUp", "splice", "ok", "error"}
  /\ {sent, inp, sample, held, out} \subseteq Seq(Nat)
  /\ closed \in BOOLEAN /\ short \in BOOLEAN
  /\ total \in Nat /\ lastFlush \in 0..total

(* A stream that fills the sample exactly is never flushed by              *)
(* adaptive_stream_copy: it takes the unflushed sample for flushed (320).  *)
SampleUnflushed == kind = "stream" /\ Len(sent) = SampleSize

Verdict == [d \in {"copy"} |->
              CASE pc = "ok" -> IF SampleUnflushed THEN "cut" ELSE "complete"
                [] OTHER -> "open"]

Abstract == INSTANCE ByteRelay WITH
              Chans <- {"copy"}, Byte <- 1..MaxSent,
              sent <- [d \in {"copy"} |-> sent], got <- [d \in {"copy"} |-> out],
              verdict <- Verdict

(***************************************************************************)
(* Every copy function implements the abstract relay: in order, nothing    *)
(* lost or repeated, and everything has reached the sink when it returns   *)
(* Ok.  The one stream excepted is SampleUnflushed, for which the code     *)
(* returns Ok although it has never flushed (adaptive_stream.rs 320-329).  *)
(***************************************************************************)
Promise == Abstract!Spec

(***************************************************************************)
(* Between two reads the writer never holds a flush interval of data or    *)
(* more, on top of an unflushed sample, and it holds nothing when the last *)
(* read was a short one (zero_copy.rs 255, adaptive_stream.rs 338).  Below *)
(* that bound data does stay held, also while the connection is idle:      *)
(* after the sample, and after a read that fills the buffer exactly.       *)
(***************************************************************************)
HeldBackBounded ==
  pc = "copy" /\ ~ByIoCopy =>
    /\ Len(held) < Interval + (IF kind = "stream" THEN SampleSize ELSE 0)
    /\ short => held = <<>>

(***************************************************************************)
(* A copy whose source has closed returns, provided its write and flush    *)
(* calls complete, that is, the sink drains (fairness of Copy); no call of *)
(* these functions has a timeout.                                          *)
(***************************************************************************)
CopyReturns == closed ~> Returned
=============================================================================
