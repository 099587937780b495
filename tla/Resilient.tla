----------------------------- MODULE Resilient -----------------------------
(***************************************************************************)
(* The resilient connection manager of proxy/resilient.rs: calls that      *)
(* create, recover and feed sessions, and the health check that cleans up  *)
(* every few seconds.                                                      *)
(*                                                                         *)
(* They share two tokio RwLocks, the session map and the error count.  A   *)
(* tokio RwLock serves its waiters first come, first served: a reader that *)
(* arrives behind a waiting writer waits, even when the lock is held by    *)
(* readers only.  Every holder but one releases a lock before it awaits    *)
(* something that may take long (cache_data keeps the map while it takes   *)
(* the locks of one session, which nobody holds for longer), so acquire,   *)
(* use and release are one step; get_quality_stats keeps its read guards   *)
(* to the end of the expression (344-346) and asks for the error count a   *)
(* second time while it holds it.                                          *)
(***************************************************************************)
EXTENDS Integers, Sequences, FiniteSets, SequencesExt

CONSTANTS
  Callers,       \* tasks that call the manager
  Sessions,      \* session ids (UUIDs)
  MaxRetries,    \* reconnect_config.max_retries
  ErrorLimit,    \* the 5 of is_healthy
  MaxCalls       \* bound on the calls made

ASSUME ResilientAssumption ==
  /\ MaxRetries \in Nat \ {0} /\ ErrorLimit \in Nat \ {0}
  /\ MaxCalls \in Nat
  /\ Callers \cap {"health", "pending", "handed", "lost"} = {} \* names of places
  /\ Sessions # {}

Health == "health"
Tasks == Callers \cup {Health}
Locks == {"sessions", "errors"}

VARIABLES
  sessions,  \* the ids in the session map
  old,       \* the sessions created more than 300 s ago
  pending,   \* pending[s]: the chunks cached for s
  errors,    \* error_count
  queue,     \* queue[l]: the tasks waiting for lock l, first come first
  pc,        \* pc[t]: where task t is
  sid,       \* sid[t]: the session task t works for
  attempt,   \* attempt[t]: the retry loop of task t, 0 outside
  batch,     \* batch[t]: the chunks a recovery has taken
  stats,     \* the last result of get_quality_stats
  used,      \* history: ids handed out, known: ids returned to a caller
  known,
  accepted,  \* history: accepted[s], the number of chunks cached for s
  handed,    \* history: handed[s], the chunks returned by recoveries
  lost,      \* history: lost[s], the chunks dropped by failed recoveries
  calls      \* history: the number of calls made

callVars == <<sid, attempt, batch, known, handed, lost>>
dataVars == <<pending, accepted>>
vars == <<sessions, old, errors, queue, pc, stats, used, calls,
          callVars, dataVars>>

Init ==
  /\ sessions = {} /\ old = {} /\ used = {} /\ known = {}
  /\ pending = [s \in Sessions |-> <<>>]
  /\ accepted = [s \in Sessions |-> 0]
  /\ handed = [s \in Sessions |-> <<>>]
  /\ lost = [s \in Sessions |-> <<>>]
  /\ errors = 0 /\ calls = 0
  /\ queue = [l \in Locks |-> <<>>]
  /\ pc = [t \in Tasks |-> IF t = Health THEN "tick" ELSE "idle"]
  /\ sid = [t \in Callers |-> CHOOSE s \in Sessions : TRUE]
  /\ attempt = [t \in Callers |-> 0]
  /\ batch = [t \in Callers |-> <<>>]
  /\ stats = [error_count |-> 0, is_healthy |-> TRUE]
----------------------------------------------------------------------------
(* The locks.  A task queues up when it asks and is served at the head,    *)
(* a writer only when no reader holds the lock.                            *)
HoldsNothing(l) == FALSE \* faulty variant: the guards are dropped early
HealthHolds(l) ==
  \/ l = "errors" /\ pc[Health] \in {"count", "nested"}
  \/ l = "sessions" /\ pc[Health] = "nested"

Writes(t) == pc[t] \in {"register", "record", "reset", "clean"}

Ask(l, t, where) ==
  /\ queue' = [queue EXCEPT ![l] = Append(@, t)]
  /\ pc' = [pc EXCEPT ![t] = where]

(* faulty variant: a mutex in place of the RwLock *)
GrantedExclusive(l, t) == queue[l] # <<>> /\ Head(queue[l]) = t /\ ~HealthHolds(l)

Granted(l, t) ==
  /\ queue[l] # <<>> /\ Head(queue[l]) = t
  /\ Writes(t) => ~HealthHolds(l)

(* Task t leaves the queue of lock l and goes on.                          *)
Leave(l, t, where) ==
  /\ queue' = [queue EXCEPT ![l] = Tail(@)]
  /\ pc' = [pc EXCEPT ![t] = where]
----------------------------------------------------------------------------
(* The three calls.  A caller knows the ids that calls have returned.      *)
Call(t, l, where) ==
  /\ pc[t] = "idle" /\ calls < MaxCalls
  /\ calls' = calls + 1
  /\ Ask(l, t, where)

CreateConnection(t) ==
  /\ Call(t, "sessions", "register")
  /\ Sessions # used
  /\ LET s == CHOOSE s \in Sessions : s \notin used
     IN  sid' = [sid EXCEPT ![t] = s] /\ used' = used \cup {s}
  /\ UNCHANGED <<sessions, old, errors, stats, attempt, batch,
                 known, handed, lost, dataVars>>

RecoverConnection(t) ==
  /\ Call(t, "sessions", "lookup")
  /\ \E s \in known : sid' = [sid EXCEPT ![t] = s]
  /\ UNCHANGED <<sessions, old, errors, stats, used, attempt, batch,
                 known, handed, lost, dataVars>>

CacheData(t) ==
  /\ Call(t, "sessions", "cache")
  /\ \E s \in known : sid' = [sid EXCEPT ![t] = s]
  /\ UNCHANGED <<sessions, old, errors, stats, used, attempt, batch,
                 known, handed, lost, dataVars>>

(* The session is in the map before its connection exists (199).           *)
Register(t) ==
  /\ pc[t] = "register" /\ Granted("sessions", t)
  /\ sessions' = sessions \cup {sid[t]}
  /\ Leave("sessions", t, "connect")
  /\ attempt' = [attempt EXCEPT ![t] = 1]
  /\ UNCHANGED <<old, errors, stats, used, calls, sid, batch, known,
                 handed, lost, dataVars>>

(* recover_connection clones the session's Arc and releases the map ...    *)
LookUp(t) ==
  /\ pc[t] = "lookup" /\ Granted("sessions", t)
  /\ Leave("sessions", t, IF sid[t] \in sessions THEN "take" ELSE "idle")
  /\ UNCHANGED <<sessions, old, errors, stats, used, calls, callVars,
                 dataVars>>

Kept(s) == s \* faulty variant
Emptied(s) == <<>>

(* ... and takes what is pending, before it connects (294).                *)
TakePending(t) ==
  /\ pc[t] = "take"
  /\ batch' = [batch EXCEPT ![t] = pending[sid[t]]]
  /\ pending' = [pending EXCEPT ![sid[t]] = Emptied(@)]
  /\ pc' = [pc EXCEPT ![t] = "connect"]
  /\ attempt' = [attempt EXCEPT ![t] = 1]
  /\ UNCHANGED <<sessions, old, errors, queue, stats, used, calls, sid,
                 known, handed, lost, accepted>>

AddPending(t) ==
  /\ pc[t] = "cache" /\ Granted("sessions", t)
  /\ Leave("sessions", t, "idle")
  /\ IF sid[t] \in sessions
     THEN /\ accepted' = [accepted EXCEPT ![sid[t]] = @ + 1]
          /\ pending' = [pending EXCEPT ![sid[t]] = Append(@, accepted[sid[t]] + 1)]
     ELSE UNCHANGED dataVars
  /\ UNCHANGED <<sessions, old, errors, stats, used, calls, callVars>>
----------------------------------------------------------------------------
(* connect_with_retry.                                                     *)
ConnectOk(t) ==
  /\ pc[t] = "connect"
  /\ Ask("errors", t, "reset")
  /\ UNCHANGED <<sessions, old, errors, stats, used, calls, callVars,
                 dataVars>>

(* connect() fails, or its timeout is over.                                *)
ConnectFails(t) ==
  /\ pc[t] = "connect"
  /\ Ask("errors", t, "record")
  /\ UNCHANGED <<sessions, old, errors, stats, used, calls, callVars,
                 dataVars>>

NeverLast(t) == TRUE \* faulty variant
RetryLeft(t) == attempt[t] < MaxRetries

(* A failed call returns the error: the session stays in the map and what  *)
(* a recovery took is dropped.                                             *)
RecordError(t) ==
  /\ pc[t] = "record" /\ Granted("errors", t)
  /\ errors' = errors + 1
  /\ IF RetryLeft(t)
     THEN Leave("errors", t, "sleep") /\ UNCHANGED callVars
     ELSE /\ Leave("errors", t, "idle")
          /\ lost' = [lost EXCEPT ![sid[t]] = @ \o batch[t]]
          /\ batch' = [batch EXCEPT ![t] = <<>>]
          /\ attempt' = [attempt EXCEPT ![t] = 0]
          /\ UNCHANGED <<sid, known, handed>>
  /\ UNCHANGED <<sessions, old, stats, used, calls, dataVars>>

(* The pause, doubled from attempt to attempt, is over.                    *)
Wake(t) ==
  /\ pc[t] = "sleep"
  /\ pc' = [pc EXCEPT ![t] = "connect"]
  /\ attempt' = [attempt EXCEPT ![t] = @ + 1]
  /\ UNCHANGED <<sessions, old, errors, queue, stats, used, calls, sid,
                 batch, known, handed, lost, dataVars>>

(* A connection resets the errors, and the call returns.                   *)
ResetErrors(t) ==
  /\ pc[t] = "reset" /\ Granted("errors", t)
  /\ errors' = 0
  /\ Leave("errors", t, "idle")
  /\ known' = known \cup {sid[t]}
  /\ handed' = [handed EXCEPT ![sid[t]] = @ \o batch[t]]
  /\ batch' = [batch EXCEPT ![t] = <<>>]
  /\ attempt' = [attempt EXCEPT ![t] = 0]
  /\ UNCHANGED <<sessions, old, stats, used, calls, sid, lost, dataVars>>
----------------------------------------------------------------------------
(* The health check: every tick cleans up and reads the statistics.        *)
Tick ==
  /\ pc[Health] = "tick"
  /\ Ask("sessions", Health, "clean")
  /\ UNCHANGED <<sessions, old, errors, stats, used, calls, callVars,
                 dataVars>>

KeepsBusy(s) == s \notin old \/ pending[s] # <<>> \* faulty variant
Retained(s) == s \notin old

(* cleanup_expired_sessions goes by created_at, whatever was cached or     *)
(* recovered since; get_quality_stats then asks for the error count.       *)
CleanUp ==
  /\ pc[Health] = "clean" /\ Granted("sessions", Health)
  /\ sessions' = {s \in sessions : Retained(s)}
  /\ queue' = [queue EXCEPT !["sessions"] = Tail(@), !["errors"] = Append(@, Health)]
  /\ pc' = [pc EXCEPT ![Health] = "first"]
  /\ UNCHANGED <<old, errors, stats, used, calls, callVars, dataVars>>

ReadErrors ==
  /\ pc[Health] = "first" /\ Granted("errors", Health)
  /\ stats' = [stats EXCEPT !.error_count = errors]
  /\ queue' = [queue EXCEPT !["errors"] = Tail(@), !["sessions"] = Append(@, Health)]
  /\ pc' = [pc EXCEPT ![Health] = "count"]
  /\ UNCHANGED <<sessions, old, errors, used, calls, callVars, dataVars>>

CountSessions ==
  /\ pc[Health] = "count" /\ Granted("sessions", Health)
  /\ queue' = [queue EXCEPT !["sessions"] = Tail(@), !["errors"] = Append(@, Health)]
  /\ pc' = [pc EXCEPT ![Health] = "nested"]
  /\ UNCHANGED <<sessions, old, errors, stats, used, calls, callVars, dataVars>>

(* is_healthy, and all guards are dropped.  The activity of the last 30 s  *)
(* is any.                                                                 *)
IsHealthy ==
  /\ pc[Health] = "nested" /\ Granted("errors", Health)
  /\ \E recent \in BOOLEAN :
       stats' = [stats EXCEPT !.is_healthy = errors < ErrorLimit /\ recent]
  /\ Leave("errors", Health, "tick")
  /\ UNCHANGED <<sessions, old, errors, used, calls, callVars, dataVars>>
----------------------------------------------------------------------------
(* 300 s after the creation of a session.                                  *)
Expire(s) ==
  /\ s \in sessions \ old
  /\ old' = old \cup {s}
  /\ UNCHANGED <<sessions, errors, queue, pc, stats, used, calls,
                 callVars, dataVars>>
----------------------------------------------------------------------------
Starts(t) == CreateConnection(t) \/ RecoverConnection(t) \/ CacheData(t)

Proceeds(t) ==
  \/ Register(t) \/ LookUp(t) \/ TakePending(t) \/ AddPending(t)
  \/ ConnectOk(t) \/ ConnectFails(t) \/ RecordError(t) \/ Wake(t)
  \/ ResetErrors(t)

HealthCheck == Tick \/ CleanUp \/ ReadErrors \/ CountSessions \/ IsHealthy

Next ==
  \/ \E t \in Callers : Starts(t) \/ Proceeds(t)
  \/ HealthCheck
  \/ \E s \in Sessions : Expire(s)

(* Every task is scheduled, every connect() ends in its timeout, the lock  *)
(* serves the head of its queue and time passes.  Nobody has to call.      *)
Fairness ==
  /\ \A t \in Callers : WF_vars(Proceeds(t))
  /\ WF_vars(HealthCheck)
  /\ \A s \in Sessions : WF_vars(Expire(s))

Spec == Init /\ [][Next]_vars /\ Fairness
----------------------------------------------------------------------------
CallerPcs == {"idle", "register", "lookup", "take", "cache", "connect",
              "record", "sleep", "reset"}
HealthPcs == {"tick", "clean", "first", "count", "nested"}

(* Every variable has its type; a task waits in the queue its place in the *)
(* code says, and in no other.                                             *)
TypeOK ==
  /\ sessions \subseteq used /\ known \subseteq used /\ old \subseteq used
  /\ used \subseteq Sessions
  /\ pending \in [Sessions -> Seq(Nat)] /\ handed \in [Sessions -> Seq(Nat)]
  /\ lost \in [Sessions -> Seq(Nat)] /\ accepted \in [Sessions -> Nat]
  /\ batch \in [Callers -> Seq(Nat)]
  /\ errors \in Nat /\ calls \in Nat
  /\ attempt \in [Callers -> 0..MaxRetries]
  /\ sid \in [Callers -> Sessions]
  /\ pc \in [Tasks -> CallerPcs \cup HealthPcs]
  /\ queue \in [Locks -> Seq(Tasks)]
  /\ stats \in [error_count : Nat, is_healthy : BOOLEAN]

(* The second read of the error count waits behind a writer that waits for *)
(* the first one to end.                                                   *)
Stuck ==
  /\ pc[Health] = "nested"
  /\ Head(queue["errors"]) # Health

(* The places a chunk of session s can be in, and what is there.           *)
ChunksAt(s) ==
  [p \in {"pending", "handed", "lost"} \cup {t \in Callers : sid[t] = s} |->
     CASE p = "pending" -> pending[s]
       [] p = "handed"  -> handed[s]
       [] p = "lost"    -> lost[s]
       [] OTHER         -> batch[p]]

(***************************************************************************)
(* Every chunk a call of cache_data accepted is in exactly one place, once *)
(* and in order: still pending in its session, be that in the map or       *)
(* expired, with a recovery that is connecting, returned to a caller, or   *)
(* dropped by a recovery that failed (294-297).                            *)
(***************************************************************************)
Accounted ==
  \A s \in Sessions :
    LET place == ChunksAt(s)
    IN  /\ \A n \in 1..accepted[s] :
             Cardinality({p \in DOMAIN place : n \in Range(place[p])}) = 1
        /\ \A p \in DOMAIN place :
             /\ IsInjective(place[p])
             /\ p \notin {"handed", "lost"} =>
                  \A i \in 1..(Len(place[p]) - 1) : place[p][i + 1] = place[p][i] + 1

(***************************************************************************)
(* One report of get_quality_stats is of one moment: a manager reported as *)
(* healthy has a reported error count below the limit, although the count  *)
(* is read twice (344, 346) and other calls reset it in between.           *)
(***************************************************************************)
StatsConsistent ==
  pc[Health] = "tick" /\ stats.is_healthy => stats.error_count < ErrorLimit

(***************************************************************************)
(* The nested read is a deadlock that nothing resolves: once a writer of   *)
(* the error count is ahead of it, it stays ahead (346).                   *)
(***************************************************************************)
DeadlockIsFinal == [][Stuck => Stuck']_vars

(***************************************************************************)
(* Every call returns: the retries are bounded, and no task waits for a    *)
(* lock for ever unless the health check is stuck in its nested read.      *)
(***************************************************************************)
CallsEnd == \A t \in Callers : pc[t] # "idle" ~> pc[t] = "idle" \/ Stuck

(***************************************************************************)
(* A session leaves the map in the end, the ones whose creation failed     *)
(* (199-203) included, unless the health check is stuck and provided that  *)
(* start_health_check was called: nothing in the built crate calls it, and *)
(* without it no session is ever removed.                                  *)
(***************************************************************************)
SessionsExpire == \A s \in Sessions : s \in sessions ~> s \notin sessions \/ Stuck
============================================================================
