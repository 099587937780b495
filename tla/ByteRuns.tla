------------------------------ MODULE ByteRuns ------------------------------
(***************************************************************************)
(* Facts about sequences of consecutive positions of a byte stream, for    *)
(* the proofs about the relays: reading and writing move the first part of *)
(* one run to the end of the one before it.                                *)
(***************************************************************************)
EXTENDS Chunks, SequenceTheorems, TLAPS

(* Sequences of consecutive positions.                                     *)
From(s, k) == \A i \in 1..Len(s) : s[i] = k + i

(* The two parts of a cut.                                                 *)
LEMMA Taken ==
  ASSUME NEW t \in Seq(Nat), NEW n \in 1..Len(t)
  PROVE  /\ SubSeq(t, 1, n) \in Seq(Nat) /\ Len(SubSeq(t, 1, n)) = n
         /\ \A i \in 1..n : SubSeq(t, 1, n)[i] = t[i]
OBVIOUS

LEMMA Rested ==
  ASSUME NEW t \in Seq(Nat), NEW n \in 1..Len(t)
  PROVE  /\ Rest(t, n) \in Seq(Nat) /\ Len(Rest(t, n)) = Len(t) - n
         /\ \A i \in 1..(Len(t) - n) : Rest(t, n)[i] = t[n + i]
         /\ n = Len(t) => Rest(t, n) = <<>>
BY DEF Rest

(* What a worker moves to the end of a sequence.                           *)
LEMMA Moved ==
  ASSUME NEW s \in Seq(Nat), NEW t \in Seq(Nat), NEW n \in 1..Len(t)
  PROVE  /\ s \o SubSeq(t, 1, n) \in Seq(Nat)
         /\ Len(s \o SubSeq(t, 1, n)) = Len(s) + n
         /\ \A i \in 1..Len(s) : (s \o SubSeq(t, 1, n))[i] = s[i]
         /\ \A i \in 1..n : (s \o SubSeq(t, 1, n))[Len(s) + i] = t[i]
<1> DEFINE u == SubSeq(t, 1, n)
<1>1. u \in Seq(Nat) /\ Len(u) = n /\ \A i \in 1..n : u[i] = t[i]
  BY Taken
<1> HIDE DEF u
<1>2. QED
  <2>1. s \o u \in Seq(Nat) /\ Len(s \o u) = Len(s) + Len(u)
    BY <1>1, ConcatProperties
  <2>2. ASSUME NEW i \in 1..Len(s) PROVE (s \o u)[i] = s[i]
    BY <1>1, <2>1, SMTT(30)
  <2>3. ASSUME NEW i \in 1..Len(u) PROVE (s \o u)[Len(s) + i] = u[i]
    BY <1>1, SMTT(30)
  <2>4. QED
    BY <1>1, <2>1, <2>2, <2>3 DEF u

(* The bytes sent, in order: those delivered, in the buffer, to be read.   *)
Runs(o, b, i, s) ==
  /\ o \in Seq(Nat) /\ b \in Seq(Nat) /\ i \in Seq(Nat) /\ s \in Seq(Nat)
  /\ From(o, 0) /\ From(b, Len(o)) /\ From(i, Len(o) + Len(b)) /\ From(s, 0)
  /\ Len(s) = Len(o) + Len(b) + Len(i)

(* Appending the next position, and moving a part from one run to the end  *)
(* of the one before it, keep the order.                                   *)
LEMMA AppendFrom ==
  ASSUME NEW s \in Seq(Nat), NEW k \in Nat, From(s, k)
  PROVE  /\ Append(s, k + Len(s) + 1) \in Seq(Nat)
         /\ Len(Append(s, k + Len(s) + 1)) = Len(s) + 1
         /\ From(Append(s, k + Len(s) + 1), k)
BY DEF From

LEMMA MoveFrom ==
  ASSUME NEW s \in Seq(Nat), NEW t \in Seq(Nat), NEW n \in 1..Len(t), NEW k \in Nat,
         From(s, k), From(t, k + Len(s))
  PROVE  From(s \o SubSeq(t, 1, n), k) /\ From(Rest(t, n), k + Len(s) + n)
<1> DEFINE u == s \o SubSeq(t, 1, n)
           v == Rest(t, n)
<1>1. /\ Len(u) = Len(s) + n
      /\ \A i \in 1..Len(s) : u[i] = s[i]
      /\ \A i \in 1..n : u[Len(s) + i] = t[i]
  BY Moved
<1>2. Len(v) = Len(t) - n /\ \A i \in 1..(Len(t) - n) : v[i] = t[n + i]
  BY Rested
<1> HIDE DEF u, v
<1>3. From(u, k)
  <2> SUFFICES ASSUME NEW i \in 1..Len(u) PROVE u[i] = k + i
    BY DEF From
  <2>1. CASE i <= Len(s)
    BY <1>1, <2>1 DEF From
  <2>2. CASE i > Len(s)
    <3>1. i - Len(s) \in 1..n /\ i = Len(s) + (i - Len(s))
      BY <1>1, <2>2, SMTT(30)
    <3>2. u[Len(s) + (i - Len(s))] = t[i - Len(s)]
      BY <1>1, <3>1
    <3>3. t[i - Len(s)] = k + Len(s) + (i - Len(s))
      BY <3>1 DEF From
    <3>4. QED
      BY <3>1, <3>2, <3>3
  <2>3. QED
    BY <2>1, <2>2
<1>4. From(v, k + Len(s) + n)
  <2> SUFFICES ASSUME NEW i \in 1..Len(v) PROVE v[i] = k + Len(s) + n + i
    BY DEF From
  <2>1. n + i \in 1..Len(t)
    BY <1>2
  <2>2. QED
    BY <1>2, <2>1 DEF From
<1>5. QED
  BY <1>3, <1>4 DEF u, v

LEMMA SendRuns ==
  ASSUME NEW o, NEW b, NEW i, NEW s, Runs(o, b, i, s)
  PROVE  Runs(o, b, Append(i, Len(s) + 1), Append(s, Len(s) + 1))
<1>1. Len(o) + Len(b) \in Nat /\ Len(s) + 1 = (Len(o) + Len(b)) + Len(i) + 1
  BY DEF Runs
<1>2. /\ Append(i, Len(s) + 1) \in Seq(Nat) /\ Len(Append(i, Len(s) + 1)) = Len(i) + 1
      /\ From(Append(i, Len(s) + 1), Len(o) + Len(b))
  <2> DEFINE k == Len(o) + Len(b)
  <2>1. i \in Seq(Nat) /\ From(i, k)
    BY DEF Runs
  <2>2. k \in Nat /\ Len(s) + 1 = k + Len(i) + 1
    BY <1>1
  <2> HIDE DEF k
  <2>3. /\ Append(i, Len(s) + 1) \in Seq(Nat) /\ Len(Append(i, Len(s) + 1)) = Len(i) + 1
        /\ From(Append(i, Len(s) + 1), k)
    BY <2>1, <2>2, AppendFrom
  <2>4. QED
    BY <2>3 DEF k
<1>3. /\ Append(s, Len(s) + 1) \in Seq(Nat) /\ Len(Append(s, Len(s) + 1)) = Len(s) + 1
      /\ From(Append(s, Len(s) + 1), 0)
  <2>1. s \in Seq(Nat) /\ From(s, 0) /\ Len(s) + 1 = 0 + Len(s) + 1
    BY DEF Runs
  <2>2. QED
    BY <2>1, AppendFrom
<1>4. QED
  BY <1>1, <1>2, <1>3 DEF Runs

LEMMA ReadRuns ==
  ASSUME NEW o, NEW b, NEW i, NEW s, Runs(o, b, i, s), NEW n \in 1..Len(i)
  PROVE  Runs(o, b \o SubSeq(i, 1, n), Rest(i, n), s)
<1> DEFINE u == b \o SubSeq(i, 1, n)
           v == Rest(i, n)
<1>1. /\ o \in Seq(Nat) /\ b \in Seq(Nat) /\ i \in Seq(Nat) /\ s \in Seq(Nat)
      /\ From(o, 0) /\ From(b, Len(o)) /\ From(i, Len(o) + Len(b)) /\ From(s, 0)
      /\ Len(s) = Len(o) + Len(b) + Len(i)
      /\ Len(o) \in Nat /\ Len(b) \in Nat /\ Len(i) \in Nat
  BY DEF Runs
<1>2. u \in Seq(Nat) /\ v \in Seq(Nat) /\ Len(u) = Len(b) + n /\ Len(v) = Len(i) - n
  BY <1>1, Moved, Rested
<1>3. From(u, Len(o)) /\ From(v, Len(o) + Len(b) + n)
  BY <1>1, MoveFrom
<1> HIDE DEF u, v
<1>4. Len(o) + Len(b) + n = Len(o) + Len(u) /\ Len(s) = Len(o) + Len(u) + Len(v)
  BY <1>1, <1>2
<1>5. Runs(o, u, v, s)
  BY <1>1, <1>2, <1>3, <1>4 DEF Runs
<1>6. QED
  BY <1>5 DEF u, v

LEMMA WriteRuns ==
  ASSUME NEW o, NEW b, NEW i, NEW s, Runs(o, b, i, s), NEW n \in 1..Len(b)
  PROVE  Runs(o \o SubSeq(b, 1, n), Rest(b, n), i, s)
<1> DEFINE u == o \o SubSeq(b, 1, n)
           v == Rest(b, n)
<1>1. /\ o \in Seq(Nat) /\ b \in Seq(Nat) /\ i \in Seq(Nat) /\ s \in Seq(Nat)
      /\ From(o, 0) /\ From(b, 0 + Len(o)) /\ From(i, Len(o) + Len(b)) /\ From(s, 0)
      /\ Len(s) = Len(o) + Len(b) + Len(i)
      /\ Len(o) \in Nat /\ Len(b) \in Nat /\ Len(i) \in Nat
  <2>1. /\ o \in Seq(Nat) /\ b \in Seq(Nat) /\ i \in Seq(Nat) /\ s \in Seq(Nat)
        /\ From(o, 0) /\ From(b, Len(o)) /\ From(i, Len(o) + Len(b)) /\ From(s, 0)
        /\ Len(s) = Len(o) + Len(b) + Len(i)
    BY DEF Runs
  <2>2. Len(o) \in Nat /\ Len(b) \in Nat /\ Len(i) \in Nat /\ 0 + Len(o) = Len(o)
    BY <2>1
  <2>3. QED
    BY <2>1, <2>2
<1>2. u \in Seq(Nat) /\ v \in Seq(Nat) /\ Len(u) = Len(o) + n /\ Len(v) = Len(b) - n
  BY <1>1, Moved, Rested
<1>3. From(u, 0) /\ From(v, 0 + Len(o) + n)
  BY <1>1, MoveFrom
<1> HIDE DEF u, v
<1>4. /\ 0 + Len(o) + n = Len(u) /\ Len(o) + Len(b) = Len(u) + Len(v)
      /\ Len(s) = Len(u) + Len(v) + Len(i)
  BY <1>1, <1>2
<1>5. Runs(u, v, i, s)
  BY <1>1, <1>2, <1>3, <1>4 DEF Runs
<1>6. QED
  BY <1>5 DEF u, v

(* A run from the first position is a prefix of every longer one.          *)
LEMMA PrefixFrom ==
  ASSUME NEW s \in Seq(Nat), NEW t \in Seq(Nat), From(s, 0), From(t, 0),
         Len(s) <= Len(t)
  PROVE  s = SubSeq(t, 1, Len(s)) /\ (Len(s) = Len(t) => s = t)
<1>1. \A i \in 1..Len(s) : s[i] = t[i]
  BY DEF From
<1>2. s = SubSeq(t, 1, Len(s))
  BY <1>1
<1>3. Len(s) = Len(t) => s = t
  BY <1>1, SeqEqual
<1>4. QED
  BY <1>2, <1>3

LEMMA RunsPrefix ==
  ASSUME NEW o, NEW b, NEW i, NEW s, Runs(o, b, i, s)
  PROVE  /\ o \in Seq(Nat) /\ s \in Seq(Nat) /\ From(o, 0) /\ From(s, 0)
         /\ Len(o) <= Len(s)
         /\ b = <<>> /\ i = <<>> => Len(o) = Len(s)
<1>1. Len(o) \in Nat /\ Len(b) \in Nat /\ Len(i) \in Nat /\ Len(s) = Len(o) + Len(b) + Len(i)
  BY DEF Runs
<1>2. b = <<>> /\ i = <<>> => Len(b) = 0 /\ Len(i) = 0
  OBVIOUS
<1>3. QED
  BY <1>1, <1>2 DEF Runs
=============================================================================
