-------------------------- MODULE ResilientProofs --------------------------
(***************************************************************************)
(* Proofs about Resilient, for any number of callers, sessions, calls and  *)
(* retries: types, the consistency of a report, that the deadlock of the   *)
(* nested read is final, and that no cached chunk goes astray.             *)
(***************************************************************************)
EXTENDS Resilient, FiniteSetTheorems, TLAPS

USE DEF vars, callVars, dataVars

(* Where the tasks are, and what that says about their session and loop.   *)
Places ==
  /\ pc[Health] \in HealthPcs
  /\ \A t \in Callers :
       /\ pc[t] \in CallerPcs
       /\ pc[t] # "idle" => sid[t] \in used
       /\ pc[t] = "sleep" => attempt[t] < MaxRetries

(* While the health check holds the error count nobody changes it, and it  *)
(* waits in the queue it has asked to enter.                               *)
Frozen ==
  /\ pc[Health] \in {"count", "nested"} => stats.error_count = errors
  /\ pc[Health] = "nested" => queue["errors"] # <<>>

IInv == TypeOK /\ Places /\ Frozen /\ StatsConsistent

(* The health check is none of the callers.                                *)
LEMMA HealthApart == Health \in Tasks /\ \A t \in Callers : t \in Tasks /\ t # Health
BY ResilientAssumption DEF Health, Tasks

(* Queues stay queues of tasks.                                            *)
LEMMA QueueTypes ==
  ASSUME NEW q \in [Locks -> Seq(Tasks)], NEW l \in Locks, NEW t \in Tasks
  PROVE  /\ [q EXCEPT ![l] = Append(@, t)] \in [Locks -> Seq(Tasks)]
         /\ q[l] # <<>> => [q EXCEPT ![l] = Tail(@)] \in [Locks -> Seq(Tasks)]
<1>1. q[l] \in Seq(Tasks) /\ Append(q[l], t) \in Seq(Tasks)
  OBVIOUS
<1>2. q[l] # <<>> => Tail(q[l]) \in Seq(Tasks)
  BY <1>1
<1>3. QED
  BY <1>1, <1>2

LEMMA LockNames == "sessions" \in Locks /\ "errors" \in Locks
BY DEF Locks

(* What Call, Ask and Leave do to the queues and places.                   *)
LEMMA AskTypes ==
  ASSUME TypeOK, NEW l \in Locks, NEW t \in Tasks, NEW where \in CallerPcs \cup HealthPcs,
         Ask(l, t, where)
  PROVE  queue' \in [Locks -> Seq(Tasks)] /\ pc' \in [Tasks -> CallerPcs \cup HealthPcs]
BY QueueTypes DEF Ask, TypeOK

LEMMA LeaveTypes ==
  ASSUME TypeOK, NEW l \in Locks, NEW t \in Tasks, NEW where \in CallerPcs \cup HealthPcs,
         Granted(l, t), Leave(l, t, where)
  PROVE  queue' \in [Locks -> Seq(Tasks)] /\ pc' \in [Tasks -> CallerPcs \cup HealthPcs]
BY QueueTypes DEF Leave, Granted, TypeOK

(* The pair of queues a step of the health check moves between.            *)
LEMMA HandOverTypes ==
  ASSUME TypeOK, NEW l \in Locks, NEW m \in Locks, l # m, queue[l] # <<>>,
         queue' = [queue EXCEPT ![l] = Tail(@), ![m] = Append(@, Health)]
  PROVE  queue' \in [Locks -> Seq(Tasks)]
<1>1. queue[l] \in Seq(Tasks) /\ queue[m] \in Seq(Tasks) /\ Health \in Tasks
  BY HealthApart DEF TypeOK
<1>2. Tail(queue[l]) \in Seq(Tasks) /\ Append(queue[m], Health) \in Seq(Tasks)
  BY <1>1
<1>3. QED
  BY <1>2 DEF TypeOK
----------------------------------------------------------------------------
(* A caller's step is none of the health check's.                          *)
LEMMA CallerFrame ==
  ASSUME TypeOK, NEW t \in Callers, Starts(t) \/ Proceeds(t)
  PROVE  pc'[Health] = pc[Health] /\ stats' = stats
         /\ \A u \in Callers : u # t => /\ pc'[u] = pc[u] /\ sid'[u] = sid[u]
                                        /\ attempt'[u] = attempt[u]
<1> USE HealthApart DEF TypeOK
<1>1. CASE Starts(t)
  BY <1>1 DEF Starts, CreateConnection, RecoverConnection, CacheData, Call, Ask
<1>2. CASE Register(t) \/ LookUp(t) \/ TakePending(t) \/ AddPending(t)
  BY <1>2 DEF Register, LookUp, TakePending, AddPending, Leave
<1>3. CASE ConnectOk(t) \/ ConnectFails(t) \/ Wake(t)
  BY <1>3 DEF ConnectOk, ConnectFails, Wake, Ask
<1>4. CASE RecordError(t)
  BY <1>4 DEF RecordError, Leave
<1>5. CASE ResetErrors(t)
  BY <1>5 DEF ResetErrors, Leave
<1>6. QED
  BY <1>1, <1>2, <1>3, <1>4, <1>5 DEF Proceeds

(* A call takes an id the caller may use.                                  *)
LEMMA StartStep ==
  ASSUME IInv, NEW t \in Callers, Starts(t)
  PROVE  /\ TypeOK'
         /\ pc'[t] \in {"register", "lookup", "cache"} /\ sid'[t] \in used'
         /\ used \subseteq used' /\ errors' = errors
         /\ queue'["errors"] = queue["errors"]
<1>0. TypeOK /\ t \in Tasks /\ Locks = {"sessions", "errors"}
  BY HealthApart DEF IInv, Locks
<1>1. CASE CreateConnection(t)
  <2> DEFINE s == CHOOSE s \in Sessions : s \notin used
  <2>1. s \in Sessions
    BY <1>0, <1>1 DEF CreateConnection, TypeOK
  <2>2. sid' = [sid EXCEPT ![t] = s] /\ used' = used \cup {s}
    BY <1>1 DEF CreateConnection
  <2> HIDE DEF s
  <2>3. queue' \in [Locks -> Seq(Tasks)] /\ pc' \in [Tasks -> CallerPcs \cup HealthPcs]
    BY <1>0, <1>1, AskTypes, LockNames DEF CreateConnection, Call, CallerPcs
  <2>4. /\ sid' \in [Callers -> Sessions] /\ used' \subseteq Sessions
        /\ used \subseteq used' /\ sid'[t] \in used' /\ calls' \in Nat
    <3>1. calls' \in Nat
      BY <1>0, <1>1 DEF CreateConnection, Call, TypeOK
    <3>2. QED
      BY <1>0, <2>1, <2>2, <3>1 DEF TypeOK
  <2>5. TypeOK'
    BY <1>0, <1>1, <2>3, <2>4 DEF CreateConnection, TypeOK
  <2>6. QED
    BY <1>0, <1>1, <2>4, <2>5 DEF CreateConnection, Call, Ask, TypeOK
<1>2. CASE RecoverConnection(t) \/ CacheData(t)
  <2>1. PICK s \in known : sid' = [sid EXCEPT ![t] = s]
    BY <1>2 DEF RecoverConnection, CacheData
  <2>2. s \in used /\ s \in Sessions
    BY <1>0 DEF TypeOK
  <2>3. queue' \in [Locks -> Seq(Tasks)] /\ pc' \in [Tasks -> CallerPcs \cup HealthPcs]
    BY <1>0, <1>2, AskTypes, LockNames DEF RecoverConnection, CacheData, Call, CallerPcs
  <2>4. /\ sid' \in [Callers -> Sessions] /\ sid'[t] \in used /\ calls' \in Nat
        /\ used' = used
    <3>1. calls' = calls + 1 /\ used' = used /\ calls \in Nat
      <4>1. CASE RecoverConnection(t)
        BY <1>0, <4>1 DEF RecoverConnection, Call, TypeOK
      <4>2. CASE CacheData(t)
        BY <1>0, <4>2 DEF CacheData, Call, TypeOK
      <4>3. QED
        BY <1>2, <4>1, <4>2
    <3>2. QED
      BY <1>0, <2>1, <2>2, <3>1 DEF TypeOK
  <2>5. TypeOK'
    BY <1>0, <1>2, <2>3, <2>4 DEF RecoverConnection, CacheData, TypeOK
  <2>6. QED
    BY <1>0, <1>2, <2>4, <2>5 DEF RecoverConnection, CacheData, Call, Ask, TypeOK
<1>3. QED
  BY <1>1, <1>2 DEF Starts

(* The steps of a call keep the types; a retry is only slept for if one is *)
(* left, and the error count is only written when the lock is granted.     *)
LEMMA ProceedStep ==
  ASSUME IInv, NEW t \in Callers, Proceeds(t)
  PROVE  /\ TypeOK' /\ used' = used /\ sid'[t] = sid[t]
         /\ pc[t] # "idle" /\ pc'[t] \in CallerPcs
         /\ pc'[t] = "sleep" => attempt'[t] < MaxRetries
         /\ pc[Health] \in {"count", "nested"} => errors' = errors
         /\ pc[Health] = "nested" => \/ queue'["errors"] = queue["errors"]
                                     \/ queue'["errors"] = Append(queue["errors"], t)
<1>0. /\ TypeOK /\ t \in Tasks /\ Locks = {"sessions", "errors"} /\ t # Health
      /\ sid[t] \in Sessions /\ (pc[t] # "idle" => sid[t] \in used)
  BY HealthApart DEF IInv, Places, Locks, TypeOK
<1>1. CASE Register(t)
  <2>1. queue' \in [Locks -> Seq(Tasks)] /\ pc' \in [Tasks -> CallerPcs \cup HealthPcs]
    BY <1>0, <1>1, LeaveTypes, LockNames DEF Register, CallerPcs
  <2>2. sessions' \subseteq used /\ attempt' \in [Callers -> 0..MaxRetries]
    BY <1>0, <1>1, ResilientAssumption DEF Register, TypeOK
  <2>3. TypeOK'
    BY <1>0, <1>1, <2>1, <2>2 DEF Register, TypeOK
  <2>4. QED
    BY <1>0, <1>1, <2>3 DEF Register, Leave, TypeOK, CallerPcs
<1>2. CASE LookUp(t)
  <2>1. queue' \in [Locks -> Seq(Tasks)] /\ pc' \in [Tasks -> CallerPcs \cup HealthPcs]
    BY <1>0, <1>2, LeaveTypes, LockNames DEF LookUp, CallerPcs
  <2>2. TypeOK'
    BY <1>0, <1>2, <2>1 DEF LookUp, TypeOK
  <2>3. QED
    BY <1>0, <1>2, <2>2 DEF LookUp, Leave, TypeOK, CallerPcs
<1>3. CASE TakePending(t)
  <2>1. pending[sid[t]] \in Seq(Nat) /\ <<>> \in Seq(Nat)
    BY <1>0 DEF TypeOK
  <2>2. batch' \in [Callers -> Seq(Nat)] /\ pending' \in [Sessions -> Seq(Nat)]
    BY <1>0, <1>3, <2>1 DEF TakePending, Emptied, TypeOK
  <2>3. /\ attempt' \in [Callers -> 0..MaxRetries]
        /\ pc' \in [Tasks -> CallerPcs \cup HealthPcs]
    BY <1>0, <1>3, ResilientAssumption DEF TakePending, TypeOK, CallerPcs
  <2>4. TypeOK'
    BY <1>0, <1>3, <2>2, <2>3 DEF TakePending, TypeOK
  <2>5. QED
    BY <1>0, <1>3, <2>4 DEF TakePending, TypeOK, CallerPcs
<1>4. CASE AddPending(t)
  <2>1. queue' \in [Locks -> Seq(Tasks)] /\ pc' \in [Tasks -> CallerPcs \cup HealthPcs]
    BY <1>0, <1>4, LeaveTypes, LockNames DEF AddPending, CallerPcs
  <2>2. /\ accepted[sid[t]] + 1 \in Nat
        /\ Append(pending[sid[t]], accepted[sid[t]] + 1) \in Seq(Nat)
    BY <1>0 DEF TypeOK
  <2>3. pending' \in [Sessions -> Seq(Nat)] /\ accepted' \in [Sessions -> Nat]
    <3>1. CASE sid[t] \in sessions
      <4>1. /\ accepted' = [accepted EXCEPT ![sid[t]] = @ + 1]
            /\ pending' = [pending EXCEPT ![sid[t]] = Append(@, accepted[sid[t]] + 1)]
        BY <1>4, <3>1 DEF AddPending
      <4>2. QED
        BY <1>0, <2>2, <4>1 DEF TypeOK
    <3>2. CASE sid[t] \notin sessions
      BY <1>0, <1>4, <3>2 DEF AddPending, TypeOK
    <3>3. QED
      BY <3>1, <3>2
  <2>4. TypeOK'
    BY <1>0, <1>4, <2>1, <2>3 DEF AddPending, TypeOK
  <2>5. QED
    BY <1>0, <1>4, <2>4 DEF AddPending, Leave, TypeOK, CallerPcs
<1>5. CASE ConnectOk(t) \/ ConnectFails(t)
  <2>1. queue' \in [Locks -> Seq(Tasks)] /\ pc' \in [Tasks -> CallerPcs \cup HealthPcs]
    BY <1>0, <1>5, AskTypes, LockNames DEF ConnectOk, ConnectFails, CallerPcs
  <2>2. TypeOK'
    BY <1>0, <1>5, <2>1 DEF ConnectOk, ConnectFails, TypeOK
  <2>3. QED
    BY <1>0, <1>5, <2>2 DEF ConnectOk, ConnectFails, Ask, TypeOK, CallerPcs
<1>6. CASE RecordError(t)
  <2>1. queue' \in [Locks -> Seq(Tasks)] /\ pc' \in [Tasks -> CallerPcs \cup HealthPcs]
    BY <1>0, <1>6, LeaveTypes, LockNames DEF RecordError, CallerPcs
  <2>2. lost[sid[t]] \o batch[t] \in Seq(Nat) /\ <<>> \in Seq(Nat)
    BY <1>0 DEF TypeOK
  <2>3. /\ errors' \in Nat /\ lost' \in [Sessions -> Seq(Nat)]
        /\ batch' \in [Callers -> Seq(Nat)] /\ attempt' \in [Callers -> 0..MaxRetries]
    <3>1. errors' \in Nat
      BY <1>0, <1>6 DEF RecordError, TypeOK
    <3>2. CASE RetryLeft(t)
      BY <1>0, <1>6, <3>1, <3>2 DEF RecordError, TypeOK
    <3>3. CASE ~RetryLeft(t)
      <4>1. /\ lost' = [lost EXCEPT ![sid[t]] = @ \o batch[t]]
            /\ batch' = [batch EXCEPT ![t] = <<>>]
            /\ attempt' = [attempt EXCEPT ![t] = 0]
        BY <1>6, <3>3 DEF RecordError
      <4>2. 0 \in 0..MaxRetries
        BY ResilientAssumption
      <4>3. QED
        BY <1>0, <2>2, <3>1, <4>1, <4>2 DEF TypeOK
    <3>4. QED
      BY <3>2, <3>3
  <2>4. TypeOK'
    BY <1>0, <1>6, <2>1, <2>3 DEF RecordError, TypeOK
  <2>5. pc[Health] \notin {"count", "nested"}
    BY <1>6 DEF RecordError, Granted, Writes, HealthHolds
  <2>6. pc'[t] = "sleep" => attempt'[t] < MaxRetries
    BY <1>0, <1>6 DEF RecordError, RetryLeft, Leave, TypeOK
  <2>7. pc'[t] \in CallerPcs /\ used' = used /\ sid' = sid /\ pc[t] # "idle"
    BY <1>0, <1>6 DEF RecordError, Leave, TypeOK, CallerPcs
  <2>8. QED
    BY <2>4, <2>5, <2>6, <2>7
<1>7. CASE Wake(t)
  <2>1. attempt[t] < MaxRetries /\ attempt[t] \in 0..MaxRetries
    BY <1>7 DEF Wake, IInv, Places, TypeOK
  <2>2. attempt' \in [Callers -> 0..MaxRetries]
    <3>1. attempt[t] + 1 \in 0..MaxRetries
      BY <2>1, ResilientAssumption
    <3>2. QED
      BY <1>0, <1>7, <3>1 DEF Wake, TypeOK
  <2>3. TypeOK'
    BY <1>0, <1>7, <2>2 DEF Wake, TypeOK, CallerPcs
  <2>4. QED
    BY <1>0, <1>7, <2>3 DEF Wake, TypeOK, CallerPcs
<1>8. CASE ResetErrors(t)
  <2>1. queue' \in [Locks -> Seq(Tasks)] /\ pc' \in [Tasks -> CallerPcs \cup HealthPcs]
    BY <1>0, <1>8, LeaveTypes, LockNames DEF ResetErrors, CallerPcs
  <2>2. handed[sid[t]] \o batch[t] \in Seq(Nat) /\ <<>> \in Seq(Nat)
    BY <1>0 DEF TypeOK
  <2>3. /\ errors' \in Nat /\ handed' \in [Sessions -> Seq(Nat)]
        /\ batch' \in [Callers -> Seq(Nat)] /\ known' \subseteq used
    BY <1>0, <1>8, <2>2 DEF ResetErrors, TypeOK
  <2>4. attempt' \in [Callers -> 0..MaxRetries]
    BY <1>0, <1>8, ResilientAssumption DEF ResetErrors, TypeOK
  <2>5. TypeOK'
    BY <1>0, <1>8, <2>1, <2>3, <2>4 DEF ResetErrors, TypeOK
  <2>6. pc[Health] \notin {"count", "nested"}
    BY <1>8 DEF ResetErrors, Granted, Writes, HealthHolds
  <2>7. QED
    BY <1>0, <1>8, <2>5, <2>6 DEF ResetErrors, Leave, TypeOK, CallerPcs
<1>9. QED
  BY <1>1, <1>2, <1>3, <1>4, <1>5, <1>6, <1>7, <1>8 DEF Proceeds

LEMMA CallerStep == ASSUME IInv, NEW t \in Callers, Starts(t) \/ Proceeds(t) PROVE IInv'
<1>1. TypeOK' /\ used \subseteq used'
  BY StartStep, ProceedStep
<1>2. /\ pc'[Health] = pc[Health] /\ stats' = stats
      /\ \A u \in Callers : u # t => /\ pc'[u] = pc[u] /\ sid'[u] = sid[u]
                                     /\ attempt'[u] = attempt[u]
  BY CallerFrame DEF IInv
<1>3. /\ pc'[t] \in CallerPcs /\ (pc'[t] # "idle" => sid'[t] \in used')
      /\ pc'[t] = "sleep" => attempt'[t] < MaxRetries
  <2>1. CASE Starts(t)
    BY <2>1, StartStep DEF CallerPcs
  <2>2. CASE Proceeds(t)
    BY <2>2, ProceedStep DEF IInv, Places
  <2>3. QED
    BY <2>1, <2>2
<1>4. Places'
  BY <1>1, <1>2, <1>3 DEF IInv, Places
<1>5. pc[Health] \in {"count", "nested"} => errors' = errors
  BY StartStep, ProceedStep
<1>6. pc[Health] = "nested" => queue'["errors"] # <<>>
  <2>1. queue["errors"] \in Seq(Tasks) /\ t \in Tasks
    BY LockNames, HealthApart DEF IInv, TypeOK
  <2>2. Append(queue["errors"], t) # <<>>
    BY <2>1
  <2>3. QED
    BY <2>2, StartStep, ProceedStep DEF IInv, Frozen
<1>7. Frozen' /\ StatsConsistent'
  BY <1>2, <1>5, <1>6 DEF IInv, Frozen, StatsConsistent
<1>8. QED
  BY <1>1, <1>4, <1>7 DEF IInv

LEMMA HealthStep == ASSUME IInv, HealthCheck PROVE IInv'
<1>0. /\ TypeOK /\ Health \in Tasks /\ pc[Health] \in HealthPcs
      /\ queue["errors"] \in Seq(Tasks) /\ queue["sessions"] \in Seq(Tasks)
      /\ stats \in [error_count : Nat, is_healthy : BOOLEAN]
  BY HealthApart, LockNames DEF IInv, Places, TypeOK
<1>1. ASSUME NEW where \in HealthPcs, pc' = [pc EXCEPT ![Health] = where],
             UNCHANGED <<sid, attempt, used>>
      PROVE  Places' /\ pc' \in [Tasks -> CallerPcs \cup HealthPcs] /\ pc'[Health] = where
  BY <1>0, <1>1, HealthApart DEF IInv, Places, TypeOK
<1>2. CASE Tick
  <2>1. queue' \in [Locks -> Seq(Tasks)] /\ Places' /\ pc'[Health] = "clean"
        /\ pc' \in [Tasks -> CallerPcs \cup HealthPcs]
    BY <1>0, <1>1, <1>2, AskTypes, LockNames DEF Tick, Ask, HealthPcs
  <2>2. TypeOK'
    BY <1>0, <1>2, <2>1 DEF Tick, TypeOK
  <2>3. QED
    BY <2>1, <2>2 DEF IInv, Frozen, StatsConsistent
<1>3. CASE CleanUp
  <2>1. queue' \in [Locks -> Seq(Tasks)]
    BY <1>0, <1>3, HandOverTypes, LockNames DEF CleanUp, Granted
  <2>2. Places' /\ pc'[Health] = "first" /\ pc' \in [Tasks -> CallerPcs \cup HealthPcs]
    BY <1>0, <1>1, <1>3 DEF CleanUp, HealthPcs
  <2>3. TypeOK'
    BY <1>0, <1>3, <2>1, <2>2 DEF CleanUp, TypeOK
  <2>4. QED
    BY <2>2, <2>3 DEF IInv, Frozen, StatsConsistent
<1>4. CASE ReadErrors
  <2>1. queue' \in [Locks -> Seq(Tasks)]
    BY <1>0, <1>4, HandOverTypes, LockNames DEF ReadErrors, Granted
  <2>2. Places' /\ pc'[Health] = "count" /\ pc' \in [Tasks -> CallerPcs \cup HealthPcs]
    BY <1>0, <1>1, <1>4 DEF ReadErrors, HealthPcs
  <2>3. /\ stats' \in [error_count : Nat, is_healthy : BOOLEAN]
        /\ stats'.error_count = errors'
    BY <1>0, <1>4 DEF ReadErrors, TypeOK
  <2>4. TypeOK'
    BY <1>0, <1>4, <2>1, <2>2, <2>3 DEF ReadErrors, TypeOK
  <2>5. QED
    BY <2>2, <2>3, <2>4 DEF IInv, Frozen, StatsConsistent
<1>5. CASE CountSessions
  <2>1. queue' \in [Locks -> Seq(Tasks)]
    BY <1>0, <1>5, HandOverTypes, LockNames DEF CountSessions, Granted
  <2>2. Places' /\ pc'[Health] = "nested" /\ pc' \in [Tasks -> CallerPcs \cup HealthPcs]
    BY <1>0, <1>1, <1>5 DEF CountSessions, HealthPcs
  <2>3. TypeOK'
    BY <1>0, <1>5, <2>1, <2>2 DEF CountSessions, TypeOK
  <2>4. queue'["errors"] # <<>>
    <3>1. queue'["errors"] = Append(queue["errors"], Health)
      BY <1>0, <1>5, LockNames DEF CountSessions, TypeOK
    <3>2. Append(queue["errors"], Health) # <<>>
      BY <1>0
    <3>3. QED
      BY <3>1, <3>2
  <2>5. QED
    BY <1>5, <2>2, <2>3, <2>4 DEF CountSessions, IInv, Frozen, StatsConsistent
<1>6. CASE IsHealthy
  <2>1. queue' \in [Locks -> Seq(Tasks)]
    BY <1>0, <1>6, LeaveTypes, LockNames DEF IsHealthy, HealthPcs
  <2>2. Places' /\ pc'[Health] = "tick" /\ pc' \in [Tasks -> CallerPcs \cup HealthPcs]
    BY <1>0, <1>1, <1>6 DEF IsHealthy, Leave, HealthPcs
  <2>3. PICK recent \in BOOLEAN :
          stats' = [stats EXCEPT !.is_healthy = errors < ErrorLimit /\ recent]
    BY <1>6 DEF IsHealthy
  <2>4. /\ stats' \in [error_count : Nat, is_healthy : BOOLEAN]
        /\ stats'.error_count = stats.error_count
        /\ stats'.is_healthy => errors < ErrorLimit
    BY <1>0, <2>3
  <2>5. stats.error_count = errors
    BY <1>6 DEF IsHealthy, IInv, Frozen
  <2>6. TypeOK'
    BY <1>0, <1>6, <2>1, <2>2, <2>4 DEF IsHealthy, TypeOK
  <2>7. QED
    BY <2>2, <2>4, <2>5, <2>6 DEF IInv, Frozen, StatsConsistent
<1>7. QED
  BY <1>2, <1>3, <1>4, <1>5, <1>6 DEF HealthCheck

LEMMA InitInv == Init => IInv
<1> SUFFICES ASSUME Init PROVE IInv
  OBVIOUS
<1> USE ResilientAssumption DEF Init
<1>1. sid \in [Callers -> Sessions] /\ attempt \in [Callers -> 0..MaxRetries]
  OBVIOUS
<1>2. /\ pc \in [Tasks -> CallerPcs \cup HealthPcs] /\ queue \in [Locks -> Seq(Tasks)]
      /\ pending \in [Sessions -> Seq(Nat)] /\ handed \in [Sessions -> Seq(Nat)]
      /\ lost \in [Sessions -> Seq(Nat)] /\ batch \in [Callers -> Seq(Nat)]
  BY DEF CallerPcs, HealthPcs
<1>3. TypeOK
  BY <1>1, <1>2 DEF TypeOK
<1>4. Places
  BY HealthApart DEF Places, CallerPcs, HealthPcs
<1>5. Frozen /\ StatsConsistent
  BY HealthApart DEF Frozen, StatsConsistent
<1>6. QED
  BY <1>3, <1>4, <1>5 DEF IInv

LEMMA InvStep == ASSUME IInv, [Next]_vars PROVE IInv'
<1>1. ASSUME NEW s \in Sessions, Expire(s) PROVE IInv'
  BY <1>1 DEF Expire, IInv, TypeOK, Places, Frozen, StatsConsistent
<1>2. CASE UNCHANGED vars
  BY <1>2 DEF IInv, TypeOK, Places, Frozen, StatsConsistent
<1>3. QED
  BY <1>1, <1>2, CallerStep, HealthStep DEF Next

LEMMA Invariant == Spec => []IInv
BY InitInv, InvStep, PTL DEF Spec

(***************************************************************************)
(* The maps, the queues and the retry counters keep their types, whatever  *)
(* calls overlap (resilient.rs 180-340).                                   *)
(***************************************************************************)
THEOREM ResilientTypes == Spec => []TypeOK
<1>1. IInv => TypeOK
  BY DEF IInv
<1>2. QED
  BY <1>1, Invariant, PTL

(***************************************************************************)
(* A report of get_quality_stats is of one moment, for any number of calls *)
(* at the same time: the guard it keeps protects the count (344-346).      *)
(***************************************************************************)
THEOREM ReportsConsistent == Spec => []StatsConsistent
<1>1. IInv => StatsConsistent
  BY DEF IInv
<1>2. QED
  BY <1>1, Invariant, PTL

(***************************************************************************)
(* Once the nested read of the error count waits behind a writer, no step  *)
(* of any task ends that: the deadlock is final (346).                     *)
(***************************************************************************)
THEOREM StuckForEver == Spec => DeadlockIsFinal
<1>1. ASSUME IInv, [Next]_vars, Stuck PROVE Stuck'
  <2>0. /\ pc[Health] = "nested" /\ Head(queue["errors"]) # Health
        /\ queue["errors"] # <<>> /\ queue["errors"] \in Seq(Tasks)
    BY <1>1, LockNames DEF Stuck, IInv, Frozen, TypeOK
  <2>1. ASSUME NEW t \in Callers, Starts(t) \/ Proceeds(t) PROVE Stuck'
    <3>1. pc'[Health] = pc[Health]
      BY <1>1, <2>1, CallerFrame DEF IInv
    <3>2. \/ queue'["errors"] = queue["errors"]
          \/ queue'["errors"] = Append(queue["errors"], t)
      BY <1>1, <2>0, <2>1, StartStep, ProceedStep
    <3>3. t \in Tasks
      BY HealthApart
    <3>4. Head(Append(queue["errors"], t)) = Head(queue["errors"])
      BY <2>0, <3>3
    <3>5. QED
      BY <2>0, <3>1, <3>2, <3>4 DEF Stuck
  <2>2. ~HealthCheck
    BY <2>0 DEF HealthCheck, Tick, CleanUp, ReadErrors, CountSessions, IsHealthy, Granted
  <2>3. ASSUME NEW s \in Sessions, Expire(s) PROVE Stuck'
    BY <1>1, <2>3 DEF Expire, Stuck
  <2>4. CASE UNCHANGED vars
    BY <1>1, <2>4 DEF Stuck
  <2>5. QED
    BY <1>1, <2>1, <2>2, <2>3, <2>4 DEF Next
<1>2. IInv /\ [Next]_vars => [Stuck => Stuck']_vars
  BY <1>1
<1>3. QED
  BY <1>2, Invariant, PTL DEF Spec, DeadlockIsFinal

----------------------------------------------------------------------------
(* The cached chunks.  Those up to Taken(s) have left the session, those   *)
(* behind it are pending, in order.                                        *)
Taken(s) == accepted[s] - Len(pending[s])

PendingRun(s) ==
  /\ Len(pending[s]) <= accepted[s]
  /\ \A i \in 1..Len(pending[s]) : pending[s][i] = Taken(s) + i

Takes(t, s) == sid[t] = s

(* A batch is a run of numbers.                                            *)
IsRun(q) == \A i \in 1..Len(q) : q[i] = q[1] + (i - 1)

Apart(s) ==
  /\ Range(handed[s]) \subseteq 1..Taken(s) /\ Range(lost[s]) \subseteq 1..Taken(s)
  /\ Range(handed[s]) \cap Range(lost[s]) = {}
  /\ \A t \in Callers : Takes(t, s) =>
       /\ Range(batch[t]) \subseteq 1..Taken(s)
       /\ Range(batch[t]) \cap Range(handed[s]) = {}
       /\ Range(batch[t]) \cap Range(lost[s]) = {}
  /\ \A t, u \in Callers : Takes(t, s) /\ Takes(u, s) /\ t # u =>
       Range(batch[t]) \cap Range(batch[u]) = {}

Covered(s) ==
  \A n \in 1..Taken(s) : \/ n \in Range(handed[s]) \/ n \in Range(lost[s])
                         \/ \E t \in Callers : Takes(t, s) /\ n \in Range(batch[t])

Books(s) ==
  /\ PendingRun(s) /\ Apart(s) /\ Covered(s)
  /\ IsInjective(handed[s]) /\ IsInjective(lost[s])

(* A task that is not connecting has taken nothing.                        *)
EmptyHanded ==
  \A t \in Callers : /\ IsRun(batch[t])
                     /\ pc[t] \notin {"connect", "record", "sleep", "reset"} =>
                          batch[t] = <<>>

BookInv == EmptyHanded /\ \A s \in Sessions : Books(s)

(* Ranges of sequences.                                                    *)
LEMMA RangeFacts ==
  /\ Range(<<>>) = {}
  /\ \A q \in Seq(Nat) : \A n : n \in Range(q) <=> \E i \in 1..Len(q) : q[i] = n
<1>1. Range(<<>>) = {}
  BY DEF Range
<1>2. ASSUME NEW q \in Seq(Nat), NEW n
      PROVE  n \in Range(q) <=> \E i \in 1..Len(q) : q[i] = n
  <2>1. DOMAIN q = 1..Len(q)
    OBVIOUS
  <2>2. QED
    BY <2>1 DEF Range
<1>3. QED
  BY <1>1, <1>2

LEMMA ConcatFacts ==
  ASSUME NEW q \in Seq(Nat), NEW r \in Seq(Nat)
  PROVE  /\ Range(q \o r) = Range(q) \cup Range(r)
         /\ IsInjective(q) /\ IsInjective(r) /\ Range(q) \cap Range(r) = {} =>
              IsInjective(q \o r)
<1> DEFINE s == q \o r
<1>1. /\ s \in Seq(Nat) /\ Len(s) = Len(q) + Len(r)
      /\ Len(q) \in Nat /\ Len(r) \in Nat
      /\ DOMAIN s = 1..(Len(q) + Len(r)) /\ DOMAIN q = 1..Len(q) /\ DOMAIN r = 1..Len(r)
  OBVIOUS
<1>2. ASSUME NEW i \in 1..Len(q) PROVE i \in DOMAIN s /\ s[i] = q[i]
  BY <1>1
<1>3. ASSUME NEW i \in 1..Len(r) PROVE Len(q) + i \in DOMAIN s /\ s[Len(q) + i] = r[i]
  BY <1>1
<1>4. ASSUME NEW i \in DOMAIN s
      PROVE  \/ i \in 1..Len(q) /\ s[i] = q[i]
             \/ i - Len(q) \in 1..Len(r) /\ s[i] = r[i - Len(q)]
  BY <1>1
<1> HIDE DEF s
<1>5. Range(s) = Range(q) \cup Range(r)
  <2>1. Range(q) \cup Range(r) \subseteq Range(s)
    BY <1>1, <1>2, <1>3 DEF Range
  <2>2. Range(s) \subseteq Range(q) \cup Range(r)
    BY <1>1, <1>4 DEF Range
  <2>3. QED
    BY <2>1, <2>2
<1>6. ASSUME IsInjective(q), IsInjective(r), Range(q) \cap Range(r) = {}
      PROVE  IsInjective(s)
  <2>1. SUFFICES ASSUME NEW a \in DOMAIN s, NEW b \in DOMAIN s, s[a] = s[b]
                 PROVE  a = b
    BY DEF IsInjective
  <2>2. CASE a \in 1..Len(q) /\ b \in 1..Len(q)
    BY <2>1, <2>2, <1>1, <1>2, <1>6 DEF IsInjective
  <2>3. CASE a - Len(q) \in 1..Len(r) /\ b - Len(q) \in 1..Len(r)
    <3>1. a \in Int /\ b \in Int
      BY <1>1
    <3>2. r[a - Len(q)] = r[b - Len(q)]
      <4>1. a \notin 1..Len(q) /\ b \notin 1..Len(q)
        <5>1. Len(q) \in Nat /\ Len(r) \in Nat
          BY <1>1
        <5>2. a - Len(q) >= 1 /\ b - Len(q) >= 1
          BY <2>3, <5>1
        <5>3. QED
          BY <3>1, <5>1, <5>2
      <4>2. QED
        BY <2>1, <4>1, <1>4
    <3>3. a - Len(q) = b - Len(q)
      <4>1. a - Len(q) \in DOMAIN r /\ b - Len(q) \in DOMAIN r
        BY <2>3, <1>1
      <4>2. QED
        BY <4>1, <3>2, <1>6 DEF IsInjective
    <3>4. QED
      BY <3>1, <3>3, <1>1
  <2>4. CASE \/ a \in 1..Len(q) /\ b \notin 1..Len(q)
             \/ b \in 1..Len(q) /\ a \notin 1..Len(q)
    <3>1. ASSUME NEW c \in DOMAIN s PROVE IF c \in 1..Len(q) THEN s[c] \in Range(q)
                                                            ELSE s[c] \in Range(r)
      <4>1. CASE c \in 1..Len(q)
        BY <4>1, <1>2, RangeFacts
      <4>2. CASE c \notin 1..Len(q)
        BY <4>2, <1>4, RangeFacts
      <4>3. QED
        BY <4>1, <4>2
    <3>2. QED
      BY <2>1, <2>4, <3>1, <1>6
  <2>5. QED
    BY <2>2, <2>3, <2>4, <1>4
<1>7. QED
  BY <1>5, <1>6 DEF s

LEMMA Shift == \A x, a, b \in Int : x + (a - 1) = x + (b - 1) => a = b
OBVIOUS

LEMMA RunInjective == ASSUME NEW q \in Seq(Nat), IsRun(q) PROVE IsInjective(q)
<1>1. SUFFICES ASSUME NEW a \in DOMAIN q, NEW b \in DOMAIN q, q[a] = q[b] PROVE a = b
  BY DEF IsInjective
<1>2. a \in 1..Len(q) /\ b \in 1..Len(q) /\ 1 \in 1..Len(q) /\ Len(q) \in Nat
  OBVIOUS
<1>3. q[1] \in Nat
  BY <1>2
<1>4. q[a] = q[1] + (a - 1) /\ q[b] = q[1] + (b - 1)
  BY <1>2 DEF IsRun
<1>5. a \in Int /\ b \in Int /\ q[1] \in Int
  BY <1>2, <1>3
<1>6. QED
  BY <1>1, <1>4, <1>5, Shift

LEMMA TakenType ==
  ASSUME TypeOK, NEW s \in Sessions, PendingRun(s)
  PROVE  /\ accepted[s] \in Nat /\ pending[s] \in Seq(Nat) /\ Len(pending[s]) \in Nat
         /\ Taken(s) \in Nat /\ handed[s] \in Seq(Nat) /\ lost[s] \in Seq(Nat)
         /\ Range(pending[s]) = (Taken(s) + 1)..accepted[s]
         /\ IsRun(pending[s])
<1>1. /\ accepted[s] \in Nat /\ pending[s] \in Seq(Nat) /\ Len(pending[s]) \in Nat
      /\ handed[s] \in Seq(Nat) /\ lost[s] \in Seq(Nat)
  BY DEF TypeOK
<1>2. Taken(s) \in Nat
  BY <1>1 DEF Taken, PendingRun
<1>3. \A i \in 1..Len(pending[s]) : pending[s][i] = Taken(s) + i
  BY DEF PendingRun
<1>4. accepted[s] = Taken(s) + Len(pending[s])
  BY <1>1 DEF Taken
<1>5. ASSUME NEW n \in (Taken(s) + 1)..accepted[s] PROVE n \in Range(pending[s])
  <2>1. n - Taken(s) \in 1..Len(pending[s])
    BY <1>1, <1>2, <1>4
  <2>2. pending[s][n - Taken(s)] = n
    BY <2>1, <1>2, <1>3
  <2>3. QED
    BY <2>1, <2>2, <1>1, RangeFacts
<1>6. ASSUME NEW n \in Range(pending[s]) PROVE n \in (Taken(s) + 1)..accepted[s]
  <2>1. PICK i \in 1..Len(pending[s]) : pending[s][i] = n
    BY <1>1, RangeFacts
  <2>2. n = Taken(s) + i
    BY <2>1, <1>3
  <2>3. QED
    BY <2>2, <1>1, <1>2, <1>4
<1>7. IsRun(pending[s])
  <2>1. SUFFICES ASSUME NEW i \in 1..Len(pending[s])
                 PROVE  pending[s][i] = pending[s][1] + (i - 1)
    BY DEF IsRun
  <2>2. 1 \in 1..Len(pending[s])
    BY <1>1
  <2>3. pending[s][1] = Taken(s) + 1 /\ pending[s][i] = Taken(s) + i
    BY <2>2, <1>3
  <2>4. QED
    BY <2>3, <1>1, <1>2
<1>8. QED
  BY <1>1, <1>2, <1>5, <1>6, <1>7

(* Nothing that the books are about changes.                               *)
LEMMA BooksKept ==
  ASSUME UNCHANGED <<pending, accepted, handed, lost, batch, sid>>, NEW s, Books(s)
  PROVE  Books(s)'
BY DEF Books, PendingRun, Taken, Apart, Covered, Takes

(* A call turns to a session: the caller has nothing in its hands.         *)
LEMMA BooksOfCall ==
  ASSUME TypeOK, NEW t \in Callers, NEW x \in Sessions, batch[t] = <<>>,
         sid' = [sid EXCEPT ![t] = x],
         UNCHANGED <<pending, accepted, handed, lost, batch>>,
         NEW s \in Sessions, Books(s)
  PROVE  Books(s)'
<1>1. Range(batch[t]) = {}
  BY RangeFacts
<1>2. \A u \in Callers : u # t => sid'[u] = sid[u]
  BY DEF TypeOK
<1>3. PendingRun(s)' /\ Taken(s)' = Taken(s)
  BY DEF Books, PendingRun, Taken
<1>4. Apart(s)'
  <2>1. ASSUME NEW u \in Callers, Takes(u, s)', u # t PROVE Takes(u, s)
    BY <2>1, <1>2 DEF Takes
  <2>2. /\ Range(handed[s]) \subseteq 1..Taken(s) /\ Range(lost[s]) \subseteq 1..Taken(s)
        /\ Range(handed[s]) \cap Range(lost[s]) = {}
    BY DEF Books, Apart
  <2>3. ASSUME NEW u \in Callers, Takes(u, s)'
        PROVE  /\ Range(batch[u]) \subseteq 1..Taken(s)
               /\ Range(batch[u]) \cap Range(handed[s]) = {}
               /\ Range(batch[u]) \cap Range(lost[s]) = {}
    BY <1>1, <2>1, <2>3 DEF Books, Apart
  <2>4. ASSUME NEW u \in Callers, NEW v \in Callers, Takes(u, s)', Takes(v, s)', u # v
        PROVE  Range(batch[u]) \cap Range(batch[v]) = {}
    BY <1>1, <2>1, <2>4 DEF Books, Apart
  <2>5. QED
    BY <1>3, <2>2, <2>3, <2>4 DEF Apart
<1>5. Covered(s)'
  <2>1. SUFFICES ASSUME NEW n \in 1..Taken(s)
                 PROVE  \/ n \in Range(handed[s]) \/ n \in Range(lost[s])
                        \/ \E u \in Callers : Takes(u, s)' /\ n \in Range(batch[u])
    BY <1>3 DEF Covered
  <2>2. ASSUME NEW u \in Callers, Takes(u, s), n \in Range(batch[u])
        PROVE  Takes(u, s)'
    BY <2>2, <1>1, <1>2 DEF Takes
  <2>3. QED
    BY <2>1, <2>2 DEF Books, Covered
<1>6. QED
  BY <1>3, <1>4, <1>5 DEF Books

(* A recovery takes what is pending.                                       *)
LEMMA BooksOfTake ==
  ASSUME TypeOK, NEW t \in Callers, batch[t] = <<>>,
         batch' = [batch EXCEPT ![t] = pending[sid[t]]],
         pending' = [pending EXCEPT ![sid[t]] = <<>>],
         UNCHANGED <<accepted, handed, lost, sid>>,
         NEW s \in Sessions, Books(s)
  PROVE  Books(s)'
<1>0. PendingRun(s)
  BY DEF Books
<1>1. \A u \in Callers : u # t => batch'[u] = batch[u]
  BY DEF TypeOK
<1>2. CASE sid[t] # s
  <2>1. pending'[s] = pending[s] /\ ~Takes(t, s) /\ \A u : Takes(u, s)' = Takes(u, s)
    BY <1>2 DEF TypeOK, Takes
  <2>2. PendingRun(s)' /\ Taken(s)' = Taken(s)
    BY <1>0, <2>1 DEF PendingRun, Taken
  <2>3. \A u \in Callers : Takes(u, s) => batch'[u] = batch[u]
    BY <1>1, <2>1
  <2>4. Apart(s)'
    BY <2>1, <2>2, <2>3 DEF Books, Apart
  <2>5. Covered(s)'
    BY <2>1, <2>2, <2>3 DEF Books, Covered
  <2>6. QED
    BY <2>2, <2>4, <2>5 DEF Books
<1>3. CASE sid[t] = s
  <2>0. /\ accepted[s] \in Nat /\ Taken(s) \in Nat /\ Taken(s) <= accepted[s]
        /\ Range(pending[s]) = (Taken(s) + 1)..accepted[s]
    BY <1>0, TakenType DEF Taken, PendingRun
  <2>1. pending'[s] = <<>> /\ batch'[t] = pending[s]
    BY <1>3 DEF TypeOK
  <2>2. Taken(s)' = accepted[s] /\ PendingRun(s)'
    BY <2>0, <2>1 DEF Taken, PendingRun
  <2>3. \A u : Takes(u, s)' = Takes(u, s)
    BY DEF Takes
  <2>4. 1..Taken(s) \subseteq 1..accepted[s]
    BY <2>0
  <2>5. Range(batch'[t]) = (Taken(s) + 1)..accepted[s]
    BY <2>0, <2>1
  <2>6. \A n \in Range(batch'[t]) : n \in 1..accepted[s] /\ n \notin 1..Taken(s)
    BY <2>0, <2>5
  <2>7. \A n \in 1..accepted[s] : n \in 1..Taken(s) \/ n \in Range(batch'[t])
    BY <2>0, <2>5
  <2>8. /\ Range(handed[s]) \subseteq 1..Taken(s) /\ Range(lost[s]) \subseteq 1..Taken(s)
        /\ \A u \in Callers : Takes(u, s) => Range(batch[u]) \subseteq 1..Taken(s)
    BY DEF Books, Apart
  <2>9. Apart(s)'
    <3>1. ASSUME NEW u \in Callers, Takes(u, s)
          PROVE  /\ Range(batch'[u]) \subseteq 1..accepted[s]
                 /\ Range(batch'[u]) \cap Range(handed[s]) = {}
                 /\ Range(batch'[u]) \cap Range(lost[s]) = {}
      <4>1. CASE u = t
        BY <4>1, <2>6, <2>8
      <4>2. CASE u # t
        BY <3>1, <4>2, <1>1, <2>4, <2>8 DEF Books, Apart
      <4>3. QED
        BY <4>1, <4>2
    <3>2. ASSUME NEW u \in Callers, NEW v \in Callers, Takes(u, s), Takes(v, s), u # v
          PROVE  Range(batch'[u]) \cap Range(batch'[v]) = {}
      <4>1. CASE u # t /\ v # t
        BY <3>2, <4>1, <1>1 DEF Books, Apart
      <4>2. CASE u = t
        BY <3>2, <4>2, <1>1, <2>6, <2>8
      <4>3. CASE v = t
        BY <3>2, <4>3, <1>1, <2>6, <2>8
      <4>4. QED
        BY <4>1, <4>2, <4>3
    <3>3. /\ Range(handed[s]) \subseteq 1..accepted[s]
          /\ Range(lost[s]) \subseteq 1..accepted[s]
          /\ Range(handed[s]) \cap Range(lost[s]) = {}
      BY <2>4 DEF Books, Apart
    <3>4. QED
      BY <2>2, <2>3, <3>1, <3>2, <3>3 DEF Apart
  <2>10. Covered(s)'
    <3>1. SUFFICES ASSUME NEW n \in 1..accepted[s]
                   PROVE  \/ n \in Range(handed[s]) \/ n \in Range(lost[s])
                          \/ \E u \in Callers : Takes(u, s) /\ n \in Range(batch'[u])
      BY <2>2, <2>3 DEF Covered
    <3>2. CASE n \in Range(batch'[t])
      BY <3>2, <1>3 DEF Takes
    <3>3. CASE n \in 1..Taken(s)
      <4>1. ASSUME NEW u \in Callers, n \in Range(batch[u]) PROVE batch'[u] = batch[u]
        BY <4>1, <1>1, RangeFacts
      <4>2. QED
        BY <3>3, <4>1 DEF Books, Covered
    <3>4. QED
      BY <3>2, <3>3, <2>7
  <2>11. QED
    BY <2>2, <2>9, <2>10 DEF Books
<1>4. QED
  BY <1>2, <1>3

(* A chunk is cached.                                                      *)
LEMMA BooksOfCache ==
  ASSUME TypeOK, NEW x \in Sessions,
         accepted' = [accepted EXCEPT ![x] = @ + 1],
         pending' = [pending EXCEPT ![x] = Append(@, accepted[x] + 1)],
         UNCHANGED <<batch, handed, lost, sid>>,
         NEW s \in Sessions, Books(s)
  PROVE  Books(s)'
<1>0. PendingRun(s)
  BY DEF Books
<1>1. /\ accepted[s] \in Nat /\ pending[s] \in Seq(Nat) /\ Len(pending[s]) \in Nat
      /\ Taken(s) \in Nat
  BY <1>0, TakenType
<1>2. Taken(s)' = Taken(s) /\ PendingRun(s)'
  <2>1. CASE s # x
    <3>1. accepted'[s] = accepted[s] /\ pending'[s] = pending[s]
      BY <2>1 DEF TypeOK
    <3>2. QED
      BY <1>0, <3>1 DEF Taken, PendingRun
  <2>2. CASE s = x
    <3>1. accepted'[s] = accepted[s] + 1 /\ pending'[s] = Append(pending[s], accepted[s] + 1)
      BY <2>2 DEF TypeOK
    <3>2. /\ Len(pending'[s]) = Len(pending[s]) + 1
          /\ \A i \in 1..Len(pending[s]) : pending'[s][i] = pending[s][i]
          /\ pending'[s][Len(pending[s]) + 1] = accepted[s] + 1
      BY <3>1, <1>1
    <3>3. Taken(s)' = Taken(s)
      BY <3>1, <3>2, <1>1 DEF Taken
    <3>4. accepted[s] + 1 = Taken(s) + (Len(pending[s]) + 1)
      BY <1>1 DEF Taken
    <3>5. ASSUME NEW i \in 1..(Len(pending[s]) + 1) PROVE pending'[s][i] = Taken(s) + i
      <4>1. CASE i \in 1..Len(pending[s])
        BY <4>1, <3>2, <1>0 DEF PendingRun
      <4>2. CASE i = Len(pending[s]) + 1
        BY <4>2, <3>2, <3>4
      <4>3. i \in 1..Len(pending[s]) \/ i = Len(pending[s]) + 1
        <5>1. Len(pending[s]) \in Nat
          BY <1>1
        <5>2. QED
          BY <5>1
      <4>4. QED
        BY <4>1, <4>2, <4>3
    <3>6. Len(pending'[s]) <= accepted'[s]
      BY <3>1, <3>2, <1>0, <1>1 DEF PendingRun
    <3>7. QED
      BY <3>2, <3>3, <3>5, <3>6 DEF PendingRun
  <2>3. QED
    BY <2>1, <2>2
<1>3. QED
  <2>1. (Apart(s) /\ Covered(s))' <=> Apart(s) /\ Covered(s)
    BY <1>2 DEF Apart, Covered, Takes
  <2>2. QED
    BY <1>2, <2>1 DEF Books

(* What a recovery took moves to one of the two histories, handed or lost. *)
LEMMA BooksOfEnd ==
  ASSUME TypeOK, NEW t \in Callers, IsRun(batch[t]),
         batch' = [batch EXCEPT ![t] = <<>>],
         \/ /\ handed' = [handed EXCEPT ![sid[t]] = @ \o batch[t]]
            /\ UNCHANGED lost
         \/ /\ lost' = [lost EXCEPT ![sid[t]] = @ \o batch[t]]
            /\ UNCHANGED handed,
         UNCHANGED <<pending, accepted, sid>>,
         NEW s \in Sessions, Books(s)
  PROVE  Books(s)'
<1>1. /\ \A u \in Callers : u # t => batch'[u] = batch[u]
      /\ batch'[t] = <<>> /\ Range(batch'[t]) = {}
  BY RangeFacts DEF TypeOK
<1>2. PendingRun(s)' /\ Taken(s)' = Taken(s) /\ \A u : Takes(u, s)' = Takes(u, s)
  BY DEF Books, PendingRun, Taken, Takes
<1>3. CASE sid[t] # s
  <2>1. handed'[s] = handed[s] /\ lost'[s] = lost[s] /\ ~Takes(t, s)
    BY <1>3 DEF TypeOK, Takes
  <2>2. \A u \in Callers : Takes(u, s) => batch'[u] = batch[u]
    BY <1>1, <2>1
  <2>3. Apart(s)'
    BY <1>2, <2>1, <2>2 DEF Books, Apart
  <2>4. Covered(s)'
    BY <1>2, <2>1, <2>2 DEF Books, Covered
  <2>5. QED
    BY <1>2, <2>1, <2>3, <2>4 DEF Books
<1>4. CASE sid[t] = s
  <2> DEFINE H == Range(handed[s])
             L == Range(lost[s])
             B(u) == Range(batch[u])
             H2 == Range(handed'[s])
             L2 == Range(lost'[s])
             B2(u) == Range(batch'[u])
  <2>1. /\ batch[t] \in Seq(Nat) /\ handed[s] \in Seq(Nat) /\ lost[s] \in Seq(Nat)
        /\ Takes(t, s) /\ IsInjective(batch[t])
    BY <1>4, RunInjective DEF TypeOK, Takes
  <2>2. /\ H \subseteq 1..Taken(s) /\ L \subseteq 1..Taken(s) /\ H \cap L = {}
        /\ \A u \in Callers : Takes(u, s) =>
             B(u) \subseteq 1..Taken(s) /\ B(u) \cap H = {} /\ B(u) \cap L = {}
        /\ \A u, v \in Callers : Takes(u, s) /\ Takes(v, s) /\ u # v => B(u) \cap B(v) = {}
    BY DEF Books, Apart
  <2>3. \A n \in 1..Taken(s) : \/ n \in H \/ n \in L
                               \/ \E u \in Callers : Takes(u, s) /\ n \in B(u)
    BY DEF Books, Covered
  <2>4. /\ \/ H2 = H \cup B(t) /\ L2 = L
           \/ L2 = L \cup B(t) /\ H2 = H
        /\ IsInjective(handed'[s]) /\ IsInjective(lost'[s])
    <3>1. IsInjective(handed[s]) /\ IsInjective(lost[s])
      BY DEF Books
    <3>2. CASE handed' = [handed EXCEPT ![sid[t]] = @ \o batch[t]] /\ UNCHANGED lost
      <4>1. handed'[s] = handed[s] \o batch[t] /\ lost'[s] = lost[s]
        BY <1>4, <3>2 DEF TypeOK
      <4>2. QED
        BY <2>1, <2>2, <3>1, <4>1, ConcatFacts
    <3>3. CASE lost' = [lost EXCEPT ![sid[t]] = @ \o batch[t]] /\ UNCHANGED handed
      <4>1. lost'[s] = lost[s] \o batch[t] /\ handed'[s] = handed[s]
        BY <1>4, <3>3 DEF TypeOK
      <4>2. QED
        BY <2>1, <2>2, <3>1, <4>1, ConcatFacts
    <3>4. QED
      BY <3>2, <3>3
  <2>5. B2(t) = {} /\ \A u \in Callers : u # t => B2(u) = B(u)
    BY <1>1
  <2> HIDE DEF H, L, B, H2, L2, B2
  <2>6. /\ H2 \subseteq 1..Taken(s) /\ L2 \subseteq 1..Taken(s) /\ H2 \cap L2 = {}
    BY <2>1, <2>2, <2>4
  <2>7. ASSUME NEW u \in Callers, Takes(u, s)
        PROVE  B2(u) \subseteq 1..Taken(s) /\ B2(u) \cap H2 = {} /\ B2(u) \cap L2 = {}
    <3>1. CASE u = t
      BY <3>1, <2>5
    <3>2. CASE u # t
      <4>1. B(u) \cap B(t) = {} /\ B2(u) = B(u)
        BY <2>1, <2>2, <2>5, <2>7, <3>2
      <4>2. QED
        BY <2>2, <2>4, <2>7, <4>1
    <3>3. QED
      BY <3>1, <3>2
  <2>8. ASSUME NEW u \in Callers, NEW v \in Callers, Takes(u, s), Takes(v, s), u # v
        PROVE  B2(u) \cap B2(v) = {}
    BY <2>2, <2>5, <2>8
  <2>9. \A n \in 1..Taken(s) : \/ n \in H2 \/ n \in L2
                               \/ \E u \in Callers : Takes(u, s) /\ n \in B2(u)
    BY <2>3, <2>4, <2>5
  <2>10. Apart(s)'
    BY <1>2, <2>6, <2>7, <2>8 DEF Apart, H2, L2, B2
  <2>11. Covered(s)'
    BY <1>2, <2>9 DEF Covered, H2, L2, B2
  <2>12. QED
    BY <1>2, <2>4, <2>10, <2>11 DEF Books
<1>5. QED
  BY <1>3, <1>4

LEMMA EmptyRun == IsRun(<<>>)
BY DEF IsRun

(* A step of caller t that leaves the batches alone and does not stop      *)
(* connecting.                                                             *)
LEMMA HandsKept ==
  ASSUME EmptyHanded, UNCHANGED batch, NEW t,
         \A u \in Callers : u # t => pc'[u] = pc[u],
         \/ batch[t] = <<>>
         \/ pc'[t] \in {"connect", "record", "sleep", "reset"}
  PROVE  EmptyHanded'
<1>1. SUFFICES ASSUME NEW u \in Callers
               PROVE  /\ IsRun(batch[u])
                      /\ pc'[u] \notin {"connect", "record", "sleep", "reset"} =>
                           batch[u] = <<>>
  BY DEF EmptyHanded
<1>2. CASE u = t
  BY <1>2 DEF EmptyHanded
<1>3. CASE u # t
  BY <1>3 DEF EmptyHanded
<1>4. QED
  BY <1>2, <1>3

(* A step that gives caller t another batch.                               *)
LEMMA HandsChanged ==
  ASSUME TypeOK, EmptyHanded, NEW t \in Callers, NEW b, IsRun(b),
         batch' = [batch EXCEPT ![t] = b],
         \A u \in Callers : u # t => pc'[u] = pc[u],
         b = <<>> \/ pc'[t] \in {"connect", "record", "sleep", "reset"}
  PROVE  EmptyHanded'
<1>1. batch'[t] = b /\ \A u \in Callers : u # t => batch'[u] = batch[u]
  BY DEF TypeOK
<1>2. SUFFICES ASSUME NEW u \in Callers
               PROVE  /\ IsRun(batch'[u])
                      /\ pc'[u] \notin {"connect", "record", "sleep", "reset"} =>
                           batch'[u] = <<>>
  BY DEF EmptyHanded
<1>3. CASE u = t
  BY <1>1, <1>3
<1>4. CASE u # t
  BY <1>1, <1>4 DEF EmptyHanded
<1>5. QED
  BY <1>3, <1>4

LEMMA BookCaller ==
  ASSUME IInv, BookInv, NEW t \in Callers, Starts(t) \/ Proceeds(t)
  PROVE  BookInv'
<1>0. /\ TypeOK /\ EmptyHanded /\ t \in Tasks /\ pc \in [Tasks -> CallerPcs \cup HealthPcs]
      /\ sid[t] \in Sessions /\ \A s \in Sessions : Books(s)
  BY HealthApart DEF IInv, BookInv, TypeOK
<1>1. \A u \in Callers : u # t => pc'[u] = pc[u]
  BY <1>0, CallerFrame
<1>2. CASE Starts(t)
  <2>1. pc[t] = "idle" /\ UNCHANGED <<pending, accepted, handed, lost, batch>>
    BY <1>2 DEF Starts, CreateConnection, RecoverConnection, CacheData, Call
  <2>2. batch[t] = <<>>
    BY <1>0, <2>1 DEF EmptyHanded
  <2>3. PICK x : sid' = [sid EXCEPT ![t] = x]
    BY <1>2 DEF Starts, CreateConnection, RecoverConnection, CacheData
  <2>4. x \in Sessions
    <3>1. sid' \in [Callers -> Sessions]
      BY <1>2, StartStep DEF TypeOK
    <3>2. QED
      BY <1>0, <2>3, <3>1 DEF TypeOK
  <2>5. \A s \in Sessions : Books(s)'
    BY <1>0, <2>1, <2>2, <2>3, <2>4, BooksOfCall
  <2>6. EmptyHanded'
    BY <1>0, <1>1, <2>1, <2>2, HandsKept
  <2>7. QED
    BY <2>5, <2>6 DEF BookInv
<1>3. CASE Register(t) \/ LookUp(t)
  <2>1. /\ pc[t] \in {"register", "lookup"}
        /\ UNCHANGED <<pending, accepted, handed, lost, batch, sid>>
    BY <1>3 DEF Register, LookUp
  <2>2. batch[t] = <<>>
    BY <1>0, <2>1 DEF EmptyHanded
  <2>3. EmptyHanded'
    BY <1>0, <1>1, <2>1, <2>2, HandsKept
  <2>4. QED
    BY <1>0, <2>1, <2>3, BooksKept DEF BookInv
<1>4. CASE TakePending(t)
  <2>1. /\ pc[t] = "take" /\ pc'[t] = "connect"
        /\ batch' = [batch EXCEPT ![t] = pending[sid[t]]]
        /\ pending' = [pending EXCEPT ![sid[t]] = <<>>]
        /\ UNCHANGED <<accepted, handed, lost, sid>>
    BY <1>0, <1>4 DEF TakePending, Emptied
  <2>2. batch[t] = <<>>
    BY <1>0, <2>1 DEF EmptyHanded
  <2>3. \A s \in Sessions : Books(s)'
    BY <1>0, <2>1, <2>2, BooksOfTake
  <2>4. IsRun(pending[sid[t]])
    BY <1>0, TakenType DEF Books
  <2>5. EmptyHanded'
    BY <1>0, <1>1, <2>1, <2>4, HandsChanged
  <2>6. QED
    BY <2>3, <2>5 DEF BookInv
<1>5. CASE AddPending(t)
  <2>1. pc[t] = "cache" /\ UNCHANGED <<handed, lost, batch, sid>>
    BY <1>5 DEF AddPending
  <2>2. batch[t] = <<>>
    BY <1>0, <2>1 DEF EmptyHanded
  <2>3. EmptyHanded'
    BY <1>0, <1>1, <2>1, <2>2, HandsKept
  <2>4. CASE sid[t] \in sessions
    <3>1. /\ accepted' = [accepted EXCEPT ![sid[t]] = @ + 1]
          /\ pending' = [pending EXCEPT ![sid[t]] = Append(@, accepted[sid[t]] + 1)]
      BY <1>5, <2>4 DEF AddPending
    <3>2. \A s \in Sessions : Books(s)'
      BY <1>0, <2>1, <3>1, BooksOfCache
    <3>3. QED
      BY <2>3, <3>2 DEF BookInv
  <2>5. CASE sid[t] \notin sessions
    <3>1. UNCHANGED <<pending, accepted>>
      BY <1>5, <2>5 DEF AddPending
    <3>2. QED
      BY <1>0, <2>1, <2>3, <3>1, BooksKept DEF BookInv
  <2>6. QED
    BY <2>4, <2>5
<1>6. CASE ConnectOk(t) \/ ConnectFails(t) \/ Wake(t)
  <2>1. /\ pc'[t] \in {"record", "reset", "connect"}
        /\ UNCHANGED <<pending, accepted, handed, lost, batch, sid>>
    BY <1>0, <1>6 DEF ConnectOk, ConnectFails, Wake, Ask
  <2>2. EmptyHanded'
    BY <1>0, <1>1, <2>1, HandsKept
  <2>3. QED
    BY <1>0, <2>1, <2>2, BooksKept DEF BookInv
<1>7. CASE RecordError(t)
  <2>1. CASE RetryLeft(t)
    <3>1. /\ pc'[t] = "sleep"
          /\ UNCHANGED <<pending, accepted, handed, lost, batch, sid>>
      BY <1>0, <1>7, <2>1 DEF RecordError, Leave
    <3>2. EmptyHanded'
      BY <1>0, <1>1, <3>1, HandsKept
    <3>3. QED
      BY <1>0, <3>1, <3>2, BooksKept DEF BookInv
  <2>2. CASE ~RetryLeft(t)
    <3>1. /\ lost' = [lost EXCEPT ![sid[t]] = @ \o batch[t]]
          /\ batch' = [batch EXCEPT ![t] = <<>>]
          /\ UNCHANGED <<pending, accepted, handed, sid>>
      BY <1>7, <2>2 DEF RecordError
    <3>2. EmptyHanded'
      BY <1>0, <1>1, <3>1, EmptyRun, HandsChanged
    <3>3. IsRun(batch[t])
      BY <1>0 DEF EmptyHanded
    <3>4. \A s \in Sessions : Books(s)'
      BY <1>0, <3>1, <3>3, BooksOfEnd
    <3>5. QED
      BY <3>2, <3>4 DEF BookInv
  <2>3. QED
    BY <2>1, <2>2
<1>8. CASE ResetErrors(t)
  <2>1. /\ handed' = [handed EXCEPT ![sid[t]] = @ \o batch[t]]
        /\ batch' = [batch EXCEPT ![t] = <<>>]
        /\ UNCHANGED <<pending, accepted, lost, sid>>
    BY <1>8 DEF ResetErrors
  <2>2. EmptyHanded'
    BY <1>0, <1>1, <2>1, EmptyRun, HandsChanged
  <2>3. IsRun(batch[t])
    BY <1>0 DEF EmptyHanded
  <2>4. \A s \in Sessions : Books(s)'
    BY <1>0, <2>1, <2>3, BooksOfEnd
  <2>5. QED
    BY <2>2, <2>4 DEF BookInv
<1>9. QED
  BY <1>2, <1>3, <1>4, <1>5, <1>6, <1>7, <1>8 DEF Proceeds

LEMMA BookStep == ASSUME IInv, BookInv, [Next]_vars PROVE BookInv'
<1>1. ASSUME UNCHANGED <<pending, accepted, handed, lost, batch, sid>>,
             \A u \in Callers : pc'[u] = pc[u]
      PROVE  BookInv'
  <2>1. EmptyHanded'
    BY <1>1 DEF BookInv, EmptyHanded
  <2>2. QED
    BY <1>1, <2>1, BooksKept DEF BookInv
<1>2. CASE HealthCheck
  <2>1. UNCHANGED <<pending, accepted, handed, lost, batch, sid>>
    BY <1>2 DEF HealthCheck, Tick, CleanUp, ReadErrors, CountSessions, IsHealthy
  <2>2. \E where : pc' = [pc EXCEPT ![Health] = where]
    BY <1>2 DEF HealthCheck, Tick, CleanUp, ReadErrors, CountSessions, IsHealthy, Ask, Leave
  <2>3. \A u \in Callers : pc'[u] = pc[u]
    BY <2>2, HealthApart DEF IInv, TypeOK
  <2>4. QED
    BY <1>1, <2>1, <2>3
<1>3. ASSUME NEW s \in Sessions, Expire(s) PROVE BookInv'
  BY <1>1, <1>3 DEF Expire
<1>4. CASE UNCHANGED vars
  BY <1>1, <1>4
<1>5. QED
  BY <1>2, <1>3, <1>4, BookCaller DEF Next

LEMMA BookInit == Init => BookInv
<1> SUFFICES ASSUME Init PROVE BookInv
  OBVIOUS
<1>1. EmptyHanded
  BY EmptyRun DEF Init, EmptyHanded
<1>2. ASSUME NEW s \in Sessions PROVE Books(s)
  <2>1. /\ pending[s] = <<>> /\ accepted[s] = 0 /\ handed[s] = <<>> /\ lost[s] = <<>>
        /\ \A t \in Callers : batch[t] = <<>>
    BY DEF Init
  <2>2. PendingRun(s) /\ Taken(s) = 0
    <3>1. Len(pending[s]) = 0
      BY <2>1
    <3>2. Taken(s) = 0
      <4>1. accepted[s] \in Nat /\ accepted[s] <= Len(pending[s]) /\ accepted[s] >= 0
        BY <2>1, <3>1
      <4>2. QED
        BY <3>1, <4>1 DEF Taken
    <3>3. QED
      BY <2>1, <3>1, <3>2 DEF PendingRun
  <2>3. Apart(s)
    BY <2>1, RangeFacts DEF Apart
  <2>4. Covered(s)
    BY <2>2 DEF Covered
  <2>5. IsInjective(<<>>)
    BY DEF IsInjective
  <2>6. QED
    BY <2>1, <2>2, <2>3, <2>4, <2>5 DEF Books
<1>3. QED
  BY <1>1, <1>2 DEF BookInv

LEMMA BookInvariant == Spec => []BookInv
<1>1. IInv /\ BookInv /\ [Next]_vars => BookInv'
  BY BookStep
<1>2. QED
  BY <1>1, BookInit, Invariant, PTL DEF Spec

(* The places of a session's chunks.                                       *)
LEMMA OnePlace ==
  ASSUME IInv, BookInv, NEW s \in Sessions, NEW place, place = ChunksAt(s)
  PROVE  /\ \A n \in 1..accepted[s] :
              Cardinality({p \in DOMAIN place : n \in Range(place[p])}) = 1
         /\ \A p \in DOMAIN place :
              /\ IsInjective(place[p])
              /\ p \notin {"handed", "lost"} =>
                   \A i \in 1..(Len(place[p]) - 1) : place[p][i + 1] = place[p][i] + 1
<1> DEFINE takers == {t \in Callers : sid[t] = s}
<1>1. Callers \cap {"pending", "handed", "lost"} = {}
  BY ResilientAssumption
<1>2. /\ DOMAIN place = {"pending", "handed", "lost"} \cup takers
      /\ place["pending"] = pending[s] /\ place["handed"] = handed[s]
      /\ place["lost"] = lost[s] /\ \A t \in takers : place[t] = batch[t]
  BY <1>1 DEF ChunksAt
<1>3. /\ Books(s) /\ TypeOK /\ PendingRun(s) /\ EmptyHanded
  BY DEF IInv, BookInv, Books
<1>4. /\ accepted[s] \in Nat /\ Taken(s) \in Nat /\ Taken(s) <= accepted[s]
      /\ Range(pending[s]) = (Taken(s) + 1)..accepted[s]
      /\ pending[s] \in Seq(Nat) /\ IsRun(pending[s])
  BY <1>3, TakenType DEF Taken, PendingRun
<1>5. ASSUME NEW n \in 1..accepted[s]
      PROVE  Cardinality({p \in DOMAIN place : n \in Range(place[p])}) = 1
  <2> DEFINE holders == {p \in DOMAIN place : n \in Range(place[p])}
  <2>1. n \in Range(pending[s]) <=> n \notin 1..Taken(s)
    BY <1>4
  <2>2. /\ n \in Range(handed[s]) => n \in 1..Taken(s) /\ n \notin Range(lost[s])
        /\ n \in Range(lost[s]) => n \in 1..Taken(s)
        /\ \A t \in takers : n \in Range(batch[t]) =>
             n \in 1..Taken(s) /\ n \notin Range(handed[s]) /\ n \notin Range(lost[s])
        /\ \A t, u \in takers : n \in Range(batch[t]) /\ n \in Range(batch[u]) => t = u
    BY <1>3 DEF Books, Apart, Takes
  <2>3. n \in 1..Taken(s) => \/ n \in Range(handed[s]) \/ n \in Range(lost[s])
                             \/ \E t \in takers : n \in Range(batch[t])
    BY <1>3 DEF Books, Covered, Takes
  <2>4. \E p \in DOMAIN place : n \in Range(place[p])
    BY <1>2, <2>1, <2>3
  <2>5. \A p, q \in DOMAIN place : n \in Range(place[p]) /\ n \in Range(place[q]) => p = q
    BY <1>2, <2>1, <2>2
  <2>6. \E p : holders = {p}
    <3>1. PICK p \in DOMAIN place : n \in Range(place[p])
      BY <2>4
    <3>2. holders = {p}
      BY <2>5, <3>1
    <3>3. QED
      BY <3>2
  <2>7. QED
    BY <2>6, FS_Singleton
<1>6. ASSUME NEW q \in Seq(Nat), IsRun(q), NEW i \in 1..(Len(q) - 1)
      PROVE  q[i + 1] = q[i] + 1
  <2>0. Len(q) \in Nat
    OBVIOUS
  <2>1. i \in 1..Len(q) /\ i + 1 \in 1..Len(q) /\ 1 \in 1..Len(q) /\ i \in Nat
    BY <2>0
  <2>2. q[1] \in Nat
    BY <2>1
  <2>3. q[i] = q[1] + (i - 1) /\ q[i + 1] = q[1] + ((i + 1) - 1)
    BY <2>1, <1>6 DEF IsRun
  <2>4. q[1] + ((i + 1) - 1) = (q[1] + (i - 1)) + 1
    BY <2>1, <2>2
  <2>5. QED
    BY <2>3, <2>4
<1>7. ASSUME NEW p \in DOMAIN place
      PROVE  /\ IsInjective(place[p])
             /\ p \notin {"handed", "lost"} =>
                  place[p] \in Seq(Nat) /\ IsRun(place[p])
  <2>1. CASE p \in {"handed", "lost"}
    BY <1>2, <1>3, <2>1 DEF Books
  <2>2. CASE p = "pending"
    BY <1>2, <1>4, <2>2, RunInjective
  <2>3. CASE p \in takers
    <3>1. place[p] = batch[p] /\ batch[p] \in Seq(Nat) /\ IsRun(batch[p])
      BY <1>2, <1>3, <2>3 DEF EmptyHanded, TypeOK
    <3>2. QED
      BY <3>1, RunInjective
  <2>4. QED
    BY <1>2, <2>1, <2>2, <2>3
<1>8. QED
  BY <1>5, <1>6, <1>7

(***************************************************************************)
(* Every chunk that cache_data accepted is in exactly one place, whatever  *)
(* calls overlap, fail or find their session expired: pending in order,    *)
(* with the one recovery that took it, returned once, or dropped by a      *)
(* recovery that failed (resilient.rs 294-297).                            *)
(***************************************************************************)
THEOREM ChunksAccounted == Spec => []Accounted
<1>1. IInv /\ BookInv => Accounted
  BY OnePlace DEF Accounted
<1>2. QED
  BY <1>1, Invariant, BookInvariant, PTL
============================================================================
