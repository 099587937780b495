----------------------------- MODULE CopyProofs -----------------------------
(***************************************************************************)
(* Proofs about AdaptiveCopy, for all sizes in the order they have in the  *)
(* code and streams of any length: types, what the writer holds back, and  *)
(* that every copy function implements ByteRelay.                          *)
(***************************************************************************)
EXTENDS AdaptiveCopy, ByteRuns, TLAPS

USE DEF vars, srcVars, cntVars

Sampling == pc \in {"sample", "sampled", "sampledAll"}
Looping == pc \in {"copy", "flush"}
Ending == pc \in {"flushLast", "flushed", "ok"}

(* The bytes sent are, in order, those that arrived, those in the sample   *)
(* or with the writer, and those to be read.  After an error only those    *)
(* that arrived count.                                                     *)
Order ==
  /\ Sampling => held = <<>> /\ out = <<>> /\ Runs(out, sample, inp, sent)
  /\ Looping \/ Ending \/ pc = "flushGiveUp" =>
       sample = <<>> /\ Runs(out, held, inp, sent)
  /\ pc = "error" => From(out, 0) /\ From(sent, 0) /\ Len(out) <= Len(sent)

(* How full the sample is, and what that means for the TCP version.        *)
Sampled ==
  /\ pc # "splice"
  /\ Sampling => kind \in {"stream", "tcp"} /\ ~short
  /\ pc \in {"sample", "sampledAll"} => Len(sample) < SampleSize
  /\ pc = "sampled" => Len(sample) = SampleSize
  /\ Looping => kind # "tcp"
  /\ kind = "tcp" /\ Ending => Len(sent) < SampleSize
  /\ pc = "sampledAll" \/ Ending => closed /\ inp = <<>>

(* What the writer holds was counted since the last flush, but for the     *)
(* sample, which adaptive_stream_copy takes for flushed.                   *)
Slack == IF kind = "stream" /\ lastFlush = SampleSize THEN SampleSize ELSE 0

Flushing ==
  /\ Looping => total = Len(out) + Len(held) /\ Len(held) <= (total - lastFlush) + Slack
  /\ pc = "copy" /\ ~ByIoCopy => total - lastFlush < Interval /\ (short => held = <<>>)
  /\ pc \in {"flushed", "ok"} => held = <<>> \/ SampleUnflushed

IInv == TypeOK /\ Order /\ Sampled /\ Flushing

LEMMA SizeFacts ==
  /\ SampleSize \in Nat \ {0} /\ SmallSample \in Nat /\ SpliceMin \in Nat
  /\ SmallSample < SampleSize /\ SampleSize < SpliceMin
  /\ Buffer \in Nat \ {0} /\ Interval \in Nat \ {0} /\ FlushesShortReads
<1>1. /\ SampleSize \in Nat \ {0} /\ SmallSample \in Nat /\ SpliceMin \in Nat
      /\ SmallSample < SampleSize /\ SampleSize < SpliceMin
      /\ IoBuffer \in Nat \ {0} /\ BulkBuffer \in Nat \ {0} /\ BulkInterval \in Nat \ {0}
      /\ BurstBuffer \in Nat \ {0} /\ BurstInterval \in Nat \ {0}
  BY CopyAssumption DEF Sizes
<1>2. Strategy(SampleSize) = "burst"
  BY <1>1 DEF Strategy
<1>3. Buffer \in {IoBuffer, BulkBuffer, BurstBuffer}
  BY <1>2 DEF Buffer
<1>4. Interval \in {BulkInterval, BurstInterval}
  BY <1>2 DEF Interval
<1>5. FlushesShortReads
  BY <1>2 DEF FlushesShortReads
<1>6. QED
  BY <1>1, <1>3, <1>4, <1>5

LEMMA SeqTypes ==
  ASSUME TypeOK
  PROVE  /\ sent \in Seq(Nat) /\ inp \in Seq(Nat) /\ sample \in Seq(Nat)
         /\ held \in Seq(Nat) /\ out \in Seq(Nat)
         /\ Len(sent) \in Nat /\ Len(inp) \in Nat /\ Len(sample) \in Nat
         /\ Len(held) \in Nat /\ Len(out) \in Nat
BY DEF TypeOK

(* A flush moves all that is held.                                         *)
LEMMA Joined ==
  ASSUME NEW s \in Seq(Nat), NEW t \in Seq(Nat)
  PROVE  s \o t \in Seq(Nat) /\ Len(s \o t) = Len(s) + Len(t)
BY ConcatProperties

LEMMA FlushRuns ==
  ASSUME NEW o, NEW b, NEW i, NEW s, Runs(o, b, i, s)
  PROVE  Runs(o \o b, <<>>, i, s)
<1>1. o \in Seq(Nat) /\ b \in Seq(Nat)
  BY DEF Runs
<1>2. CASE b = <<>>
  <2>1. o \o b = o
    BY <1>1, <1>2
  <2>2. QED
    BY <1>2, <2>1
<1>3. CASE b # <<>>
  <2>1. Len(b) \in 1..Len(b)
    BY <1>1, <1>3, EmptySeq
  <2>2. SubSeq(b, 1, Len(b)) = b
    BY <1>1
  <2>3. Rest(b, Len(b)) = <<>>
    BY <1>1, <2>1, Rested
  <2>4. QED
    BY <2>1, <2>2, <2>3, WriteRuns
<1>4. QED
  BY <1>2, <1>3

(* At every point what arrived is a prefix of what was sent.               *)
LEMMA Arrived ==
  ASSUME TypeOK, Order, Sampled
  PROVE  From(out, 0) /\ From(sent, 0) /\ Len(out) <= Len(sent)
<1>1. CASE Sampling
  <2>1. Runs(out, sample, inp, sent)
    BY <1>1 DEF Order
  <2>2. QED
    BY <2>1, RunsPrefix
<1>2. CASE Looping \/ Ending \/ pc = "flushGiveUp"
  <2>1. Runs(out, held, inp, sent)
    BY <1>2 DEF Order
  <2>2. QED
    BY <2>1, RunsPrefix
<1>3. CASE pc = "error"
  BY <1>3 DEF Order
<1>4. QED
  BY <1>1, <1>2, <1>3 DEF TypeOK, Sampled, Sampling, Looping, Ending

LEMMA InitInv == Init => IInv
<1> SUFFICES ASSUME Init PROVE IInv
  OBVIOUS
<1> USE DEF Init
<1>1. TypeOK
  <2>1. estimate \in Nat
    BY CopyAssumption
  <2>2. {sent, inp, sample, held, out} \subseteq Seq(Nat)
    <3>1. {sent, inp, sample, held, out} = {<<>>} /\ <<>> \in Seq(Nat)
      OBVIOUS
    <3>2. QED
      BY <3>1
  <2>3. kind \in Kinds /\ pc \in {"sample", "copy"} /\ lastFlush \in 0..total
    OBVIOUS
  <2>4. QED
    BY <2>1, <2>2, <2>3 DEF TypeOK
<1>2. Order
  BY DEF Order, Runs, From, Sampling, Looping, Ending
<1>3. Sampled
  BY CopyAssumption, SizeFacts DEF Sampled, Sampling, Looping, Ending
<1>4. Flushing
  BY SizeFacts DEF Flushing, Looping, Slack
<1>5. QED
  BY <1>1, <1>2, <1>3, <1>4 DEF IInv
----------------------------------------------------------------------------
(* Types.                                                                  *)
LEMMA TypeStep == ASSUME IInv, [Next]_vars PROVE TypeOK'
<1>0. TypeOK /\ Sampled
  BY DEF IInv
<1>1. /\ sent \in Seq(Nat) /\ inp \in Seq(Nat) /\ sample \in Seq(Nat)
      /\ held \in Seq(Nat) /\ out \in Seq(Nat)
  BY <1>0, SeqTypes
<1>2. CASE PeerSends
  <2>1. Append(sent, Len(sent) + 1) \in Seq(Nat) /\ Append(inp, Len(sent) + 1) \in Seq(Nat)
    BY <1>1
  <2>2. QED
    BY <1>0, <1>2, <2>1 DEF PeerSends, TypeOK
<1>3. CASE PeerCloses \/ SampleEof \/ CopyEof \/ ReturnOk \/ Fails \/ UNCHANGED vars
  BY <1>0, <1>3 DEF PeerCloses, SampleEof, CopyEof, ReturnOk, Fails, TypeOK
<1>4. CASE WriterDrains
  <2>1. out \o held \in Seq(Nat) /\ <<>> \in Seq(Nat)
    BY <1>1, Joined
  <2>2. QED
    BY <1>0, <1>4, <2>1 DEF WriterDrains, TypeOK
<1>5. CASE Sample
  <2>1. PICK n \in 1..Least(Len(inp), SampleLimit - Len(sample)) :
       /\ sample' = sample \o SubSeq(inp, 1, n)
       /\ inp' = Rest(inp, n)
       /\ pc' \in {"sampled", "sample"}
    BY <1>5 DEF Sample
  <2>2. n \in 1..Len(inp)
    BY <1>1, <2>1, SizeFacts DEF Least, SampleLimit
  <2>3. sample' \in Seq(Nat) /\ inp' \in Seq(Nat)
    BY <1>1, <2>1, <2>2, Moved, Rested
  <2>4. QED
    BY <1>0, <1>5, <2>1, <2>3 DEF Sample, TypeOK
<1>6. CASE WriteSample
  <2>1. held \o sample \in Seq(Nat) /\ <<>> \in Seq(Nat) /\ Len(sample) \in Nat
    BY <1>1, Joined
  <2>2. AfterSample \in {"flushLast", "copy", "splice", "flushGiveUp"}
    BY DEF AfterSample
  <2>3. QED
    BY <1>0, <1>6, <2>1, <2>2 DEF WriteSample, TypeOK
<1>7. CASE CopyChunk
  <2>1. PICK n \in 1..Least(Len(inp), Buffer) :
       /\ held' = held \o SubSeq(inp, 1, n)
       /\ inp' = Rest(inp, n)
       /\ total' = total + n
       /\ short' = (n < Buffer)
       /\ pc' \in {"flush", "copy"}
    BY <1>7 DEF CopyChunk, Counted
  <2>2. n \in 1..Len(inp)
    BY <1>1, <2>1, SizeFacts DEF Least
  <2>3. held' \in Seq(Nat) /\ inp' \in Seq(Nat)
    BY <1>1, <2>1, <2>2, Moved, Rested
  <2>4. total' \in Nat /\ lastFlush \in 0..total' /\ short' \in BOOLEAN
    BY <1>0, <2>1, <2>2 DEF TypeOK
  <2>5. QED
    BY <1>0, <1>7, <2>1, <2>3, <2>4 DEF CopyChunk, TypeOK
<1>8. CASE Flush
  <2>1. out \o held \in Seq(Nat) /\ <<>> \in Seq(Nat)
    BY <1>1, Joined
  <2>2. QED
    BY <1>0, <1>8, <2>1 DEF Flush, TypeOK
<1>9. QED
  BY <1>2, <1>3, <1>4, <1>5, <1>6, <1>7, <1>8 DEF Next, Copy
----------------------------------------------------------------------------
(* The order of the bytes.                                                 *)
LEMMA OrderStep == ASSUME IInv, [Next]_vars PROVE Order'
<1>0. TypeOK /\ Order /\ Sampled
  BY DEF IInv
<1>1. /\ sent \in Seq(Nat) /\ inp \in Seq(Nat) /\ sample \in Seq(Nat)
      /\ held \in Seq(Nat) /\ out \in Seq(Nat)
      /\ From(out, 0) /\ From(sent, 0) /\ Len(out) <= Len(sent)
  BY <1>0, SeqTypes, Arrived
<1> USE DEF Sampling, Looping, Ending
<1>2. CASE PeerSends
  <2>1. /\ sent' = Append(sent, Len(sent) + 1) /\ inp' = Append(inp, Len(sent) + 1)
        /\ UNCHANGED <<pc, sample, held, out>>
    BY <1>2 DEF PeerSends
  <2>2. Runs(out, sample, inp, sent) => Runs(out, sample, inp, sent)'
    BY <2>1, SendRuns
  <2>3. Runs(out, held, inp, sent) => Runs(out, held, inp, sent)'
    BY <2>1, SendRuns
  <2>4. From(sent', 0) /\ Len(out) <= Len(sent')
    <3>1. Append(sent, 0 + Len(sent) + 1) = sent'
      BY <1>1, <2>1
    <3>2. From(sent', 0) /\ Len(sent') = Len(sent) + 1
      BY <1>1, <3>1, AppendFrom
    <3>3. QED
      BY <1>1, <3>2
  <2>5. QED
    BY <1>0, <1>1, <2>1, <2>2, <2>3, <2>4 DEF Order
<1>3. CASE PeerCloses \/ SampleEof \/ CopyEof \/ ReturnOk \/ UNCHANGED vars
  BY <1>0, <1>3 DEF PeerCloses, SampleEof, CopyEof, ReturnOk, Order
<1>4. CASE Fails
  BY <1>1, <1>4 DEF Fails, Order
<1>5. CASE WriterDrains
  <2>1. pc \notin {"sample", "sampled", "sampledAll", "ok", "error"}
    BY <1>0, <1>5 DEF WriterDrains, Order, Returned
  <2>2. sample = <<>> /\ Runs(out, held, inp, sent)
    BY <1>0, <2>1 DEF Order, TypeOK, Sampled
  <2>3. Runs(out, held, inp, sent)'
    BY <1>5, <2>2, FlushRuns DEF WriterDrains
  <2>4. QED
    BY <1>5, <2>1, <2>2, <2>3 DEF WriterDrains, Order
<1>6. CASE Sample
  <2>1. PICK n \in 1..Least(Len(inp), SampleLimit - Len(sample)) :
       /\ sample' = sample \o SubSeq(inp, 1, n)
       /\ inp' = Rest(inp, n)
       /\ pc' \in {"sampled", "sample"}
    BY <1>6 DEF Sample
  <2>2. n \in 1..Len(inp)
    BY <1>1, <2>1, SizeFacts DEF Least, SampleLimit
  <2>3. held = <<>> /\ out = <<>> /\ Runs(out, sample, inp, sent)
    BY <1>0, <1>6 DEF Order, Sample
  <2>4. Runs(out, sample', inp', sent)
    BY <2>1, <2>2, <2>3, ReadRuns
  <2>5. QED
    BY <1>6, <2>1, <2>3, <2>4 DEF Order, Sample
<1>7. CASE WriteSample
  <2>1. held = <<>> /\ Runs(out, sample, inp, sent)
    BY <1>0, <1>7 DEF Order, WriteSample
  <2>2. held \o sample = sample
    BY <1>1, <2>1
  <2>3. pc' \in {"flushLast", "copy", "splice", "flushGiveUp"}
    BY <1>7 DEF WriteSample, AfterSample
  <2>4. QED
    BY <1>7, <2>1, <2>2, <2>3 DEF Order, WriteSample
<1>8. CASE CopyChunk
  <2>1. PICK n \in 1..Least(Len(inp), Buffer) :
       /\ held' = held \o SubSeq(inp, 1, n)
       /\ inp' = Rest(inp, n)
       /\ pc' \in {"flush", "copy"}
    BY <1>8 DEF CopyChunk
  <2>2. n \in 1..Len(inp)
    BY <1>1, <2>1, SizeFacts DEF Least
  <2>3. sample = <<>> /\ Runs(out, held, inp, sent)
    BY <1>0, <1>8 DEF Order, CopyChunk
  <2>4. Runs(out, held', inp', sent)
    BY <2>1, <2>2, <2>3, ReadRuns
  <2>5. QED
    BY <1>8, <2>1, <2>3, <2>4 DEF Order, CopyChunk
<1>9. CASE Flush
  <2>1. sample = <<>> /\ Runs(out, held, inp, sent)
    BY <1>0, <1>9 DEF Order, Flush
  <2>2. Runs(out, held, inp, sent)'
    BY <1>9, <2>1, FlushRuns DEF Flush
  <2>3. (From(out, 0) /\ From(sent, 0) /\ Len(out) <= Len(sent))'
    BY <2>2, RunsPrefix
  <2>4. pc' \in {"copy", "flushed", "error"} /\ sample' = sample
    BY <1>9 DEF Flush
  <2>5. QED
    BY <2>1, <2>2, <2>3, <2>4 DEF Order
<1>10. QED
  BY <1>2, <1>3, <1>4, <1>5, <1>6, <1>7, <1>8, <1>9 DEF Next, Copy
----------------------------------------------------------------------------
(* The sample.                                                             *)
LEMMA SampledStep == ASSUME IInv, [Next]_vars PROVE Sampled'
<1>0. TypeOK /\ Order /\ Sampled
  BY DEF IInv
<1>1. /\ sent \in Seq(Nat) /\ inp \in Seq(Nat) /\ sample \in Seq(Nat)
      /\ held \in Seq(Nat) /\ out \in Seq(Nat)
      /\ Len(sample) \in Nat /\ Len(inp) \in Nat
  BY <1>0, SeqTypes
<1> USE DEF Sampling, Looping, Ending
<1>2. CASE PeerSends
  BY <1>0, <1>2 DEF PeerSends, Sampled
<1>3. CASE PeerCloses \/ ReturnOk \/ Fails \/ WriterDrains \/ UNCHANGED vars
  BY <1>0, <1>3 DEF PeerCloses, ReturnOk, Fails, WriterDrains, Sampled
<1>4. CASE SampleEof \/ CopyEof
  BY <1>0, <1>4 DEF SampleEof, CopyEof, Eof, Sampled
<1>5. CASE Sample
  <2>1. PICK n \in 1..Least(Len(inp), SampleSize - Len(sample)) :
       /\ sample' = sample \o SubSeq(inp, 1, n)
       /\ pc' = IF Len(sample) + n >= SampleSize THEN "sampled" ELSE "sample"
    BY <1>5 DEF Sample, SampleLimit
  <2>2. n \in 1..Len(inp) /\ Len(sample) + n <= SampleSize
    BY <1>1, <2>1, SizeFacts DEF Least
  <2>3. Len(sample') = Len(sample) + n
    BY <1>1, <2>1, <2>2, Moved
  <2>4. /\ pc' = "sample" => Len(sample') < SampleSize
        /\ pc' = "sampled" => Len(sample') = SampleSize
    <3> DEFINE k == Len(sample)
    <3>1. k \in Nat /\ n \in Nat /\ SampleSize \in Nat /\ k + n <= SampleSize
      BY <1>1, <2>2, SizeFacts
    <3>2. pc' = (IF k + n >= SampleSize THEN "sampled" ELSE "sample") /\ Len(sample') = k + n
      BY <2>1, <2>3
    <3> HIDE DEF k
    <3>3. CASE k + n >= SampleSize
      BY <3>1, <3>2, <3>3
    <3>4. CASE ~(k + n >= SampleSize)
      BY <3>1, <3>2, <3>4
    <3>5. QED
      BY <3>3, <3>4
  <2>5. QED
    BY <1>0, <1>5, <2>1, <2>4 DEF Sample, Sampled
<1>6. CASE WriteSample
  <2>1. UNCHANGED <<kind, sent, closed, inp>> /\ pc' = AfterSample
    BY <1>6 DEF WriteSample
  <2>2. pc \in {"sampled", "sampledAll"} /\ kind \in {"stream", "tcp"}
    BY <1>0, <1>6 DEF WriteSample, Sampled
  <2>3. CASE pc = "sampledAll"
    <3>1. pc' = "flushLast" /\ closed /\ inp = <<>> /\ Len(sample) < SampleSize
      <4>1. closed /\ inp = <<>> /\ Len(sample) < SampleSize
        BY <1>0, <2>3 DEF Sampled
      <4>2. AfterSample = "flushLast"
        BY <2>3 DEF AfterSample
      <4>3. QED
        BY <2>1, <4>1, <4>2
    <3>2. Runs(out, sample, inp, sent) /\ out = <<>>
      BY <1>0, <2>2 DEF Order
    <3>3. Len(sent) = Len(sample)
      BY <1>1, <3>1, <3>2 DEF Runs
    <3>4. QED
      BY <2>1, <3>1, <3>3 DEF Sampled
  <2>4. CASE pc = "sampled"
    <3>1. Len(sample) = SampleSize
      BY <1>0, <2>4 DEF Sampled
    <3>2. pc' = IF kind = "stream" THEN "copy" ELSE "flushGiveUp"
      BY <2>1, <2>4, <3>1, SizeFacts DEF AfterSample
    <3>3. QED
      BY <2>1, <2>2, <3>2 DEF Sampled
  <2>5. QED
    BY <2>2, <2>3, <2>4
<1>7. CASE CopyChunk
  BY <1>0, <1>7 DEF CopyChunk, Sampled
<1>8. CASE Flush
  BY <1>0, <1>8 DEF Flush, Sampled
<1>9. QED
  BY <1>2, <1>3, <1>4, <1>5, <1>6, <1>7, <1>8 DEF Next, Copy
----------------------------------------------------------------------------
(* What the writer holds back.                                             *)
LEMMA KindFrame ==
  ASSUME [Next]_vars
  PROVE  UNCHANGED <<kind, estimate, ByIoCopy, Interval, Buffer>>
<1>1. UNCHANGED <<kind, estimate>>
  BY DEF Next, Copy, PeerSends, PeerCloses, WriterDrains, Sample, SampleEof,
         WriteSample, CopyChunk, CopyEof, Flush, ReturnOk, Fails
<1>2. QED
  BY <1>1 DEF ByIoCopy, Interval, Buffer

LEMMA FlushingStep == ASSUME IInv, [Next]_vars PROVE Flushing'
<1>0. TypeOK /\ Order /\ Sampled /\ Flushing
  BY DEF IInv
<1>1. /\ sent \in Seq(Nat) /\ inp \in Seq(Nat) /\ sample \in Seq(Nat)
      /\ held \in Seq(Nat) /\ out \in Seq(Nat)
      /\ Len(held) \in Nat /\ Len(inp) \in Nat /\ Len(out) \in Nat
      /\ total \in Nat /\ lastFlush \in 0..total
  BY <1>0, SeqTypes DEF TypeOK
<1>2. UNCHANGED <<kind, estimate, ByIoCopy, Interval, Buffer>>
  BY KindFrame
<1>3. Slack \in Nat /\ Interval \in Nat \ {0} /\ SampleSize \in Nat \ {0}
  BY SizeFacts DEF Slack
<1> USE DEF Looping
<1>4. CASE PeerSends
  <2>1. pc \notin {"flushed", "ok"} /\ UNCHANGED <<pc, total, lastFlush, short, out, held>>
    BY <1>0, <1>4 DEF PeerSends, Sampled, Ending
  <2>2. QED
    BY <1>0, <1>2, <2>1 DEF Flushing, Slack
<1>5. CASE PeerCloses \/ ReturnOk \/ UNCHANGED vars
  BY <1>0, <1>2, <1>5 DEF PeerCloses, ReturnOk, Flushing, Slack, SampleUnflushed
<1>6. CASE Sample \/ SampleEof \/ Fails
  BY <1>6 DEF Sample, SampleEof, Fails, Flushing
<1>7. CASE WriterDrains
  <2>1. /\ out' = out \o held /\ held' = <<>>
        /\ UNCHANGED <<pc, total, lastFlush, short, sent>>
    BY <1>7 DEF WriterDrains
  <2>2. Len(out') = Len(out) + Len(held) /\ Len(held') = 0
    BY <1>1, <2>1, Joined
  <2>3. Looping => total = Len(out') + Len(held')
    BY <1>0, <1>1, <2>2 DEF Flushing
  <2>4. Len(held') <= (total - lastFlush) + Slack
    BY <1>1, <1>3, <2>2
  <2>5. QED
    BY <1>0, <1>2, <2>1, <2>3, <2>4 DEF Flushing, Slack
<1>8. CASE WriteSample
  <2>1. /\ held = <<>> /\ out = <<>> /\ pc' \notin {"flush", "flushed", "ok"}
        /\ held' = held \o sample /\ out' = out
        /\ total' = Len(sample) /\ lastFlush' = Len(sample)
    BY <1>0, <1>8 DEF WriteSample, Order, Sampling, AfterSample
  <2>2. held' = sample /\ Len(sample) \in Nat
    BY <1>1, <2>1
  <2>3. pc' = "copy" => pc = "sampled" /\ kind = "stream" /\ Len(sample) = SampleSize
    <3>1. pc \in {"sampled", "sampledAll"} /\ pc' = AfterSample
      BY <1>8 DEF WriteSample
    <3>2. AfterSample = "copy" => pc # "sampledAll" /\ kind = "stream"
      BY DEF AfterSample
    <3>3. pc = "sampled" => Len(sample) = SampleSize
      BY <1>0 DEF Sampled
    <3>4. QED
      BY <3>1, <3>2, <3>3
  <2>4. ~short'
    BY <1>0, <1>8 DEF WriteSample, Sampled, Sampling
  <2>5. QED
    BY <1>2, <1>3, <2>1, <2>2, <2>3, <2>4 DEF Flushing, Slack
<1>9. CASE CopyChunk
  <2>1. PICK n \in 1..Least(Len(inp), Buffer) :
       /\ held' = held \o SubSeq(inp, 1, n)
       /\ total' = total + n
       /\ short' = (n < Buffer)
       /\ pc' = IF ~ByIoCopy /\ (IntervalDue(n) \/ ShortRead(n)) THEN "flush" ELSE "copy"
    BY <1>9 DEF CopyChunk, Counted
  <2>2. n \in 1..Len(inp) /\ n \in Nat /\ Buffer \in Nat
    BY <1>1, <2>1, SizeFacts DEF Least
  <2>3. Len(held') = Len(held) + n
    BY <1>1, <2>1, <2>2, Moved
  <2>4. pc = "copy" /\ UNCHANGED <<out, lastFlush>>
    BY <1>9 DEF CopyChunk
  <2>5. total = Len(out) + Len(held) /\ Len(held) <= (total - lastFlush) + Slack
    BY <1>0, <2>4 DEF Flushing
  <2>6. total' = Len(out') + Len(held') /\ Len(held') <= (total' - lastFlush') + Slack
    BY <1>1, <1>3, <2>1, <2>2, <2>3, <2>4, <2>5
  <2>7. Slack' = Slack
    BY <1>2, <2>4 DEF Slack
  <2>8. pc' = "copy" /\ ~ByIoCopy => total' - lastFlush' < Interval /\ ~short'
    <3>1. pc' = "copy" /\ ~ByIoCopy => ~IntervalDue(n) /\ ~ShortRead(n)
      BY <2>1
    <3>2. ~IntervalDue(n) => total' - lastFlush' < Interval
      BY <1>1, <1>3, <2>1, <2>2, <2>4 DEF IntervalDue
    <3>3. ~ShortRead(n) => ~short'
      BY <2>1, SizeFacts DEF ShortRead
    <3>4. QED
      BY <3>1, <3>2, <3>3
  <2>9. pc' \in {"copy", "flush"}
    BY <2>1
  <2>10. QED
    BY <1>2, <2>6, <2>7, <2>8, <2>9 DEF Flushing
<1>10. CASE CopyEof
  <2>1. /\ pc = "copy" /\ inp = <<>> /\ UNCHANGED <<held, sent, inp>>
        /\ pc' = IF LastFlushDue THEN "flushLast" ELSE "flushed"
    BY <1>10 DEF CopyEof, Eof
  <2>2. CASE LastFlushDue
    BY <2>1, <2>2 DEF Flushing
  <2>3. CASE ~LastFlushDue
    <3>1. lastFlush = total
      BY <1>1, <2>3 DEF LastFlushDue
    <3>2. total = Len(out) + Len(held) /\ Len(held) <= Slack
      BY <1>0, <1>1, <1>3, <2>1, <3>1 DEF Flushing
    <3>3. Len(sent) = Len(out) + Len(held)
      <4>1. Runs(out, held, inp, sent)
        BY <1>0, <2>1 DEF Order
      <4>2. QED
        BY <1>1, <2>1, <4>1 DEF Runs
    <3>4. held = <<>> \/ SampleUnflushed
      <4>1. CASE Slack = 0
        <5>1. Len(held) = 0
          BY <1>1, <3>2, <4>1
        <5>2. QED
          BY <1>1, <5>1, EmptySeq
      <4>2. CASE Slack # 0
        BY <3>1, <3>2, <3>3, <4>2 DEF Slack, SampleUnflushed
      <4>3. QED
        BY <4>1, <4>2
    <3>5. (held = <<>> \/ SampleUnflushed)'
      BY <1>2, <2>1, <3>4 DEF SampleUnflushed
    <3>6. QED
      BY <2>1, <2>3, <3>5 DEF Flushing
  <2>4. QED
    BY <2>2, <2>3
<1>11. CASE Flush
  <2>1. /\ out' = out \o held /\ held' = <<>> /\ lastFlush' = total /\ total' = total
        /\ pc' = CASE pc = "flush" -> "copy" [] pc = "flushLast" -> "flushed" [] OTHER -> "error"
    BY <1>11 DEF Flush
  <2>2. Len(out') = Len(out) + Len(held) /\ Len(held') = 0
    BY <1>1, <2>1, Joined
  <2>3. pc' = "copy" => pc = "flush" /\ total = Len(out) + Len(held)
    BY <1>0, <1>11, <2>1 DEF Flush, Flushing
  <2>4. Slack' \in Nat
    BY SizeFacts DEF Slack
  <2>5. pc' \in {"copy", "flushed", "error"}
    BY <2>1
  <2>6. (total - lastFlush)' = 0
    BY <1>1, <2>1
  <2>7. QED
    BY <1>1, <1>2, <1>3, <2>1, <2>2, <2>3, <2>4, <2>5, <2>6 DEF Flushing
<1>12. QED
  BY <1>4, <1>5, <1>6, <1>7, <1>8, <1>9, <1>10, <1>11 DEF Next, Copy

(* The invariant holds throughout.                                         *)
LEMMA Invariant == Spec => []IInv
<1>1. IInv /\ [Next]_vars => IInv'
  BY TypeStep, OrderStep, SampledStep, FlushingStep DEF IInv
<1>2. QED
  BY <1>1, InitInv, PTL DEF Spec

(***************************************************************************)
(* Every variable has its type, and no flush is counted beyond what was    *)
(* copied (zero_copy.rs 240-266, adaptive_stream.rs 280-345).              *)
(***************************************************************************)
THEOREM CopyTypes == Spec => []TypeOK
<1>1. IInv => TypeOK
  BY DEF IInv
<1>2. QED
  BY <1>1, Invariant, PTL

(***************************************************************************)
(* Between two reads the writer holds less than a flush interval, plus an  *)
(* unflushed sample, and nothing after a short read, whatever the buffer   *)
(* and the interval (zero_copy.rs 255, adaptive_stream.rs 338).            *)
(***************************************************************************)
THEOREM HoldsLittle == Spec => []HeldBackBounded
<1>1. IInv => HeldBackBounded
  <2> SUFFICES ASSUME IInv, pc = "copy", ~ByIoCopy
               PROVE  /\ Len(held) < Interval + (IF kind = "stream" THEN SampleSize ELSE 0)
                      /\ short => held = <<>>
    BY DEF HeldBackBounded
  <2>1. /\ Len(held) <= (total - lastFlush) + Slack /\ total - lastFlush < Interval
        /\ short => held = <<>>
    BY DEF IInv, Flushing, Looping
  <2>2. Len(held) \in Nat /\ total \in Nat /\ lastFlush \in Nat /\ Interval \in Nat
    BY SeqTypes, SizeFacts DEF IInv, TypeOK
  <2>3. Slack \in Nat /\ Slack <= (IF kind = "stream" THEN SampleSize ELSE 0)
    BY SizeFacts DEF Slack
  <2>4. QED
    BY <2>1, <2>2, <2>3, SizeFacts
<1>2. QED
  BY <1>1, Invariant, PTL
----------------------------------------------------------------------------
(* Refinement.  Only what reaches the sink and a successful return are     *)
(* steps of ByteRelay; a drain or a flush delivers.                        *)
Seen == <<[d \in {"copy"} |-> sent], [d \in {"copy"} |-> out], Verdict>>

LEMMA RefineInit == Init => Abstract!Init
BY DEF Init, Abstract!Init, Verdict

LEMMA ArrivedNext ==
  IInv' => (From(out, 0) /\ From(sent, 0) /\ Len(out) <= Len(sent))'
<1>1. IInv => From(out, 0) /\ From(sent, 0) /\ Len(out) <= Len(sent)
  BY Arrived DEF IInv
<1>2. QED
  BY <1>1, PTL

LEMMA Delivers ==
  ASSUME IInv, IInv', sent' = sent, out' = out \o held, pc # "ok", pc' # "ok"
  PROVE  Abstract!Deliver("copy")
<1>1. /\ sent \in Seq(Nat) /\ out \in Seq(Nat) /\ held \in Seq(Nat) /\ out' \in Seq(Nat)
      /\ Len(sent) \in Nat /\ Len(out) \in Nat /\ Len(held) \in Nat
  BY SeqTypes, Joined DEF IInv
<1>2. From(out', 0) /\ From(sent, 0) /\ Len(out') <= Len(sent)
  <2>1. (From(out, 0) /\ From(sent, 0) /\ Len(out) <= Len(sent))'
    BY ArrivedNext
  <2>2. QED
    BY <2>1
<1>3. out' = SubSeq(sent, 1, Len(out'))
  BY <1>1, <1>2, PrefixFrom
<1>4. Len(out') \in Len(out)..Len(sent)
  <2>1. Len(out') = Len(out) + Len(held)
    BY <1>1, Joined
  <2>2. QED
    BY <1>1, <1>2, <2>1
<1>5. UNCHANGED Verdict /\ Verdict["copy"] = "open"
  BY DEF Verdict
<1>6. QED
  BY <1>3, <1>4, <1>5 DEF Abstract!Deliver

LEMMA RefineStep ==
  ASSUME IInv, IInv', [Next]_vars
  PROVE  Abstract!Next \/ UNCHANGED Seen
<1>1. CASE PeerSends
  <2>1. pc # "ok" /\ pc' = pc /\ out' = out
    BY <1>1 DEF PeerSends, IInv, Sampled, Ending
  <2>2. Verdict["copy"] = "open" /\ UNCHANGED Verdict
    BY <2>1 DEF Verdict
  <2>3. sent' = Append(sent, Len(sent) + 1) /\ Len(sent) + 1 \in 1..MaxSent
    BY <1>1, SeqTypes, CopyAssumption DEF PeerSends, IInv
  <2>4. Abstract!Send("copy")
    BY <2>1, <2>2, <2>3 DEF Abstract!Send
  <2>5. QED
    BY <2>4 DEF Abstract!Next
<1>2. CASE WriterDrains \/ Flush
  <2>1. sent' = sent /\ out' = out \o held /\ pc # "ok" /\ pc' # "ok"
    BY <1>2 DEF WriterDrains, Flush, Returned
  <2>2. Abstract!Deliver("copy")
    BY <2>1, Delivers
  <2>3. QED
    BY <2>2 DEF Abstract!Next
<1>3. CASE ReturnOk
  <2>1. pc = "flushed" /\ pc' = "ok" /\ UNCHANGED <<kind, sent, out, held, inp>>
    BY <1>3 DEF ReturnOk
  <2>2. held = <<>> \/ SampleUnflushed
    BY <2>1 DEF IInv, Flushing
  <2>3. inp = <<>> /\ Runs(out, held, inp, sent)
    BY <2>1 DEF IInv, Order, Sampled, Ending
  <2>4. held = <<>> => out = sent
    BY <2>3, RunsPrefix, PrefixFrom
  <2>5. SampleUnflushed' <=> SampleUnflushed
    BY <2>1 DEF SampleUnflushed
  <2>6. /\ Verdict = [d \in {"copy"} |-> "open"]
        /\ Verdict' = [d \in {"copy"} |-> IF SampleUnflushed THEN "cut" ELSE "complete"]
    BY <2>1, <2>5 DEF Verdict
  <2>7. Abstract!Finish("copy")
    BY <2>1, <2>2, <2>4, <2>6 DEF Abstract!Finish
  <2>8. QED
    BY <2>7 DEF Abstract!Next
<1>4. CASE PeerCloses \/ Sample \/ SampleEof \/ WriteSample \/ CopyChunk \/ CopyEof
           \/ Fails \/ UNCHANGED vars
  <2>1. UNCHANGED <<kind, sent, out>>
    BY <1>4 DEF PeerCloses, Sample, SampleEof, WriteSample, CopyChunk, CopyEof, Fails
  <2>2. pc' = "ok" <=> pc = "ok"
    BY <1>4 DEF PeerCloses, Sample, SampleEof, WriteSample, AfterSample, CopyChunk,
                CopyEof, Fails, Returned
  <2>3. QED
    BY <2>1, <2>2 DEF Seen, Verdict, SampleUnflushed
<1>5. QED
  BY <1>1, <1>2, <1>3, <1>4 DEF Next, Copy

(***************************************************************************)
(* Every copy function implements the abstract relay of ByteRelay, for all *)
(* sizes and streams of any length: bytes arrive in order and once, and    *)
(* all of them before it returns Ok, but for the stream of exactly the     *)
(* sample's length (adaptive_stream.rs 320).                               *)
(***************************************************************************)
THEOREM CopyImplements == Spec => Promise
<1>1. IInv /\ IInv' /\ [Next]_vars =>
        [Abstract!Next]_<<[d \in {"copy"} |-> sent], [d \in {"copy"} |-> out], Verdict>>
  BY RefineStep DEF Seen
<1>2. QED
  BY <1>1, RefineInit, Invariant, PTL DEF Spec, Promise, Abstract!Spec
=============================================================================
