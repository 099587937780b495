---------------------------- MODULE ReverseClient ----------------------------
(***************************************************************************)
(* The reconnect loop of the reverse-proxy client (reverse_proxy/          *)
(* client.rs, start and run_connection_with_shutdown) and its shutdown     *)
(* signal.                                                                 *)
(*                                                                         *)
(* The signal is a tokio broadcast channel of capacity 1 with up to three  *)
(* receivers: the one start() keeps, a clone made for every connection     *)
(* attempt, and one made for every backoff wait.  A new receiver sees only *)
(* what is sent after it was made, and a receiver that is more than one    *)
(* message behind gets Lagged (an Err) once before it gets the last one.   *)
(* Signals come from other threads, so one may arrive between any two      *)
(* operations, also where the loop does not await.                         *)
(*                                                                         *)
(* The tasks spawned for tunnel streams touch none of this state.          *)
(***************************************************************************)
EXTENDS Integers

CONSTANTS
  MaxRetries,  \* MAX_RETRIES (10)
  MaxBackoff,  \* MAX_BACKOFF (60)
  MaxSignals   \* bound: shutdown signals sent

ASSUME ClientAssumption ==
  /\ MaxRetries \in Nat \ {0}
  /\ MaxBackoff \in Nat \ {0}
  /\ MaxSignals \in Nat

VARIABLES
  pc,           \* where start() is; "Ok" and "Err" are what it returned
  retry_count,
  backoff,      \* backoff_seconds
  configOk,     \* whether the configured proxies parse and are not empty
  sent,         \* signals sent so far
  shutdown_rx,  \* signals each receiver has read or skipped: the loop's,
  conn_rx,      \*   the attempt's
  backoff_rx,   \*   and the wait's
  late          \* history: checks at the loop head that came after a signal
                \*   and still let the loop go on

vars == <<pc, retry_count, backoff, configOk, sent, shutdown_rx, conn_rx,
          backoff_rx, late>>

Returned == {"Ok", "Err"}
Smaller(a, b) == IF a < b THEN a ELSE b

Init ==
  /\ pc = "head"
  /\ retry_count = 0
  /\ backoff = 1
  /\ configOk \in BOOLEAN
  /\ sent = 0
  /\ shutdown_rx = 0 /\ conn_rx = 0 /\ backoff_rx = 0
  /\ late = 0

(* Sending succeeds while start() holds its receiver.                      *)
Signal ==
  /\ pc \notin Returned
  /\ sent < MaxSignals
  /\ sent' = sent + 1
  /\ UNCHANGED <<pc, retry_count, backoff, configOk, shutdown_rx, conn_rx,
                 backoff_rx, late>>
----------------------------------------------------------------------------
(* try_recv().is_ok(): neither Empty nor Lagged.                           *)
TryRecvResubscribed == FALSE \* faulty variant: the receiver is made anew
TryRecvIsOk == sent - shutdown_rx = 1

(* A lagged receiver skips to the oldest message still in the channel.     *)
LoopHead ==
  /\ pc = "head"
  /\ IF TryRecvIsOk
       THEN pc' = "Ok" /\ shutdown_rx' = sent /\ UNCHANGED late
       ELSE /\ pc' = "begin"
            /\ shutdown_rx' = IF sent - shutdown_rx > 1 THEN sent - 1
                                                  ELSE shutdown_rx
            /\ late' = IF sent = 0 THEN late ELSE late + 1
  /\ UNCHANGED <<retry_count, backoff, configOk, sent, conn_rx, backoff_rx>>

ExhaustedOffByOne == retry_count > MaxRetries \* faulty variant
Exhausted == retry_count >= MaxRetries

GiveUp ==
  /\ pc = "begin"
  /\ Exhausted
  /\ pc' = "Err"
  /\ UNCHANGED <<retry_count, backoff, configOk, sent, shutdown_rx, conn_rx,
                 backoff_rx, late>>

(* resubscribe, then parse_proxy_configs, which may fail on the spot.      *)
BeginAttempt ==
  /\ pc = "begin"
  /\ ~Exhausted
  /\ conn_rx' = sent
  /\ pc' = IF configOk THEN "connect" ELSE "error"
  /\ UNCHANGED <<retry_count, backoff, configOk, sent, shutdown_rx, backoff_rx,
                 late>>

(* create_optimized_tcp: connected, refused, or timed out after 30 s.      *)
Connect ==
  /\ pc = "connect"
  /\ pc' \in {"handshake", "error"}
  /\ UNCHANGED <<retry_count, backoff, configOk, sent, shutdown_rx, conn_rx,
                 backoff_rx, late>>

(* do_handshake: no timeout and no look at the signal.  Every answer but   *)
(* Ok, a rejected token included, and every I/O error is an error.         *)
Handshake ==
  /\ pc = "handshake"
  /\ pc' \in {"yamux", "error"}
  /\ UNCHANGED <<retry_count, backoff, configOk, sent, shutdown_rx, conn_rx,
                 backoff_rx, late>>

(* The yamux loop: recv() completes for a message and for Lagged alike.    *)
YamuxShutdown ==
  /\ pc = "yamux"
  /\ conn_rx < sent
  /\ pc' = "Ok"
  /\ UNCHANGED <<retry_count, backoff, configOk, sent, shutdown_rx, conn_rx,
                 backoff_rx, late>>

ConnectionLost ==
  /\ pc = "yamux"
  /\ pc' = "error"
  /\ UNCHANGED <<retry_count, backoff, configOk, sent, shutdown_rx, conn_rx,
                 backoff_rx, late>>
----------------------------------------------------------------------------
(* The Err arm: the failure is counted; unless it was the last one allowed *)
(* a receiver is made for the wait.                                        *)
AttemptFailed ==
  /\ pc = "error"
  /\ retry_count' = retry_count + 1
  /\ IF retry_count' < MaxRetries
       THEN pc' = "backoff" /\ backoff_rx' = sent
       ELSE pc' = "head" /\ UNCHANGED backoff_rx
  /\ UNCHANGED <<backoff, configOk, sent, shutdown_rx, conn_rx, late>>

BackoffOver ==
  /\ pc = "backoff"
  /\ backoff' = Smaller(backoff * 2, MaxBackoff)
  /\ pc' = "head"
  /\ UNCHANGED <<retry_count, configOk, sent, shutdown_rx, conn_rx, backoff_rx,
                 late>>

BackoffShutdown ==
  /\ pc = "backoff"
  /\ backoff_rx < sent
  /\ pc' = "Ok"
  /\ UNCHANGED <<retry_count, backoff, configOk, sent, shutdown_rx, conn_rx,
                 backoff_rx, late>>

(* What the client itself brings about: its own code, and its two timers.  *)
Progress ==
  \/ LoopHead \/ GiveUp \/ BeginAttempt \/ Connect \/ YamuxShutdown
  \/ AttemptFailed \/ BackoffOver \/ BackoffShutdown

(* start() has returned.                                                   *)
Finished == pc \in Returned /\ UNCHANGED vars

Next == Progress \/ Signal \/ Handshake \/ ConnectionLost \/ Finished

Spec == Init /\ [][Next]_vars

(***************************************************************************)
(* The runtime polls the task and time passes.  Nothing is assumed of the  *)
(* server: it may never answer, and it may never close the connection.     *)
(***************************************************************************)
FairSpec == Spec /\ WF_vars(Progress)
----------------------------------------------------------------------------
(* Every variable has its type.                                            *)
TypeOK ==
  /\ pc \in {"head", "begin", "connect", "handshake", "yamux", "error",
             "backoff"} \cup Returned
  /\ retry_count \in 0..MaxRetries
  /\ backoff \in 1..MaxBackoff
  /\ configOk \in BOOLEAN
  /\ sent \in Nat
  /\ {shutdown_rx, conn_rx, backoff_rx} \subseteq 0..sent
  /\ late \in Nat

(***************************************************************************)
(* Each time the loop goes on after a shutdown signal has cost one more    *)
(* signal (the Lagged case): after a single signal no check at the loop    *)
(* head lets another attempt begin, whenever the signal came.              *)
(***************************************************************************)
SignalsStopRetries == sent > 0 => late < sent

(***************************************************************************)
(* A single signal ends the client if it comes while it is between two     *)
(* attempts, or in a session whose receiver has not missed it, even if the *)
(* connection breaks or the wait's receiver was made too late to see it.   *)
(***************************************************************************)
ShutdownHonoured ==
  (/\ sent = 1
   /\ pc \in {"head", "error", "backoff"} \/ (pc = "yamux" /\ conn_rx = 0))
    ~> (pc \in Returned \/ sent > 1)

(***************************************************************************)
(* archive/temp_analysis_docs/FIXES_AND_IMPROVEMENTS.md:98 says of the     *)
(* client "unlimited retries: reconnects by itself when the connection is  *)
(* lost" (and :208 again), and client.rs:88 counts every loss for good: a  *)
(* session that does not last is followed by another attempt, unless the   *)
(* client is told to stop.                                                 *)
(***************************************************************************)
LostSessionReconnects ==
  [](pc = "yamux" => <>(pc = "connect" \/ sent > 0) \/ <>[](pc = "yamux"))
============================================================================
