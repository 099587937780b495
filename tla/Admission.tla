------------------------------ MODULE Admission ------------------------------
(***************************************************************************)
(* Admission control and UDP sessions of a forward proxy (proxy/           *)
(* stealth_connection_handler.rs).                                         *)
(*                                                                         *)
(* Every accepted TCP connection and every received UDP packet runs in a   *)
(* task of its own (proxy/server.rs 349, 383).  All of them share the      *)
(* per-IP statistics and the UDP session table, each behind an async mutex *)
(* that is held for a whole section, so a section is one action.           *)
(***************************************************************************)
EXTENDS Integers, Sequences, FiniteSets

CONSTANTS
  Conns,        \* TCP connections
  Packets,      \* UDP packets
  Addrs,        \* UDP client addresses
  Ips,
  IpOf,         \* the IP of a connection or of an address
  AddrOf,       \* the address a packet comes from
  AllowIps,     \* allow_ips, or NoLimit
  MaxConns,     \* max_conns_per_ip, or NoLimit
  CpsLimit,     \* cps_limit as usize, or NoLimit
  NoLimit,      \* the Option is None
  Window,       \* the second of the rate limit, in units of the clock
  MaxTime       \* bound on the clock

ASSUME AdmissionAssumption ==
  /\ IpOf \in [Conns \cup Addrs -> Ips]
  /\ AddrOf \in [Packets -> Addrs]
  /\ IsFiniteSet(Conns) /\ IsFiniteSet(Packets)
  /\ NoLimit \notin Packets
  /\ AllowIps = NoLimit \/ AllowIps \subseteq Ips
  /\ MaxConns = NoLimit \/ MaxConns \in Nat
  /\ CpsLimit = NoLimit \/ CpsLimit \in Nat
  /\ Window \in Nat /\ MaxTime \in Nat

VARIABLES
  now,
  pc,        \* pc[c]: the handle_connection task of c
  addr,      \* addr[c]: what peer_addr() has told that task of c
  ppc,       \* ppc[p]: the handle_udp_packet task of p
  active,    \* active[ip]: active_connections of the per-IP statistics
  recent,    \* recent[ip]: recent_connections, the admissions remembered
  stats,     \* the handler's counters
  sessions,  \* sessions[a]: the packet whose task made a's session, if any
  relay,     \* relay[p]: the response task of the session p made
  admitted   \* admitted[ip]: the time of every admission, in their order

tcpVars == <<pc, addr, stats>>
udpVars == <<ppc, sessions, relay>>
limitVars == <<active, recent, admitted>>
vars == <<now, tcpVars, udpVars, limitVars>>

Limited == MaxConns # NoLimit \/ CpsLimit # NoLimit
NoSession == NoLimit

Init ==
  /\ now = 0
  /\ pc = [c \in Conns |-> "new"]
  /\ addr = [c \in Conns |-> "known"]
  /\ ppc = [p \in Packets |-> "new"]
  /\ active = [ip \in Ips |-> 0]
  /\ recent = [ip \in Ips |-> {}]
  /\ stats = [total |-> 0, active |-> 0, successful |-> 0, failed |-> 0]
  /\ sessions = [a \in Addrs |-> NoSession]
  /\ relay = [p \in Packets |-> "none"]
  /\ admitted = [ip \in Ips |-> <<>>]

Tick ==
  /\ now < MaxTime
  /\ now' = now + 1
  /\ UNCHANGED <<tcpVars, udpVars, limitVars>>
----------------------------------------------------------------------------
(* check_security: the allow list, then the two limits in this order.      *)
OnList(ip) == AllowIps # NoLimit => ip \in AllowIps

AtMaxOffByOne(ip) == MaxConns # NoLimit /\ active[ip] > MaxConns \* faulty variant
AtMax(ip) == MaxConns # NoLimit /\ active[ip] >= MaxConns

(* recent_connections.retain(): an entry is the number of its admission,   *)
(* its time is looked up there.                                            *)
RecentTooShort(ip) == \* faulty variant
  {n \in recent[ip] : now - admitted[ip][n] < Window - 1}
Recent(ip) == {n \in recent[ip] : now - admitted[ip][n] < Window}

OverRate(ip) == CpsLimit # NoLimit /\ Cardinality(Recent(ip)) >= CpsLimit

Admit(ip) ==
  /\ OnList(ip) /\ ~AtMax(ip) /\ ~OverRate(ip)
  /\ active' = [active EXCEPT ![ip] = IF Limited THEN @ + 1 ELSE @]
  /\ recent' = [recent EXCEPT ![ip] = IF CpsLimit = NoLimit THEN @
                                      ELSE Recent(ip) \cup {Len(admitted[ip]) + 1}]
  /\ admitted' = [admitted EXCEPT ![ip] = Append(@, now)]

(* A refusal by the rate limit has already pruned the recent admissions.   *)
Refuse(ip) ==
  /\ ~OnList(ip) \/ AtMax(ip) \/ OverRate(ip)
  /\ recent' = [recent EXCEPT ![ip] =
                  IF OnList(ip) /\ ~AtMax(ip) THEN Recent(ip) ELSE @]
  /\ UNCHANGED <<active, admitted>>

Unchanged(ip) == active' = active \* faulty variant

(* register_disconnection: a saturating decrement, with max_conns_per_ip.  *)
Unregister(ip) ==
  active' = [active EXCEPT ![ip] =
               IF MaxConns # NoLimit /\ @ > 0 THEN @ - 1 ELSE @]
----------------------------------------------------------------------------
(* handle_connection.  peer_addr() is asked twice and fails once the peer  *)
(* has reset the connection, which is then gone for good: "none" when it   *)
(* failed before the check, "lost" when it failed only after it.           *)
AdmitTcp(c) ==
  /\ pc[c] = "new"
  /\ Admit(IpOf[c])
  /\ pc' = [pc EXCEPT ![c] = "admitted"]
  /\ UNCHANGED <<now, addr, stats, udpVars>>

RefuseTcp(c) ==
  /\ pc[c] = "new"
  /\ Refuse(IpOf[c])
  /\ pc' = [pc EXCEPT ![c] = "refused"]
  /\ UNCHANGED <<now, addr, stats, udpVars>>

(* Without an address there is no check, and the connection is served.     *)
AdmitUnchecked(c) ==
  /\ pc[c] = "new"
  /\ addr' = [addr EXCEPT ![c] = "none"]
  /\ pc' = [pc EXCEPT ![c] = "admitted"]
  /\ UNCHANGED <<now, stats, udpVars, limitVars>>

OnlyTotal(s) == [s EXCEPT !.total = @ + 1] \* faulty variant
Counted(s) == [s EXCEPT !.total = @ + 1, !.active = @ + 1]

(* The counters, the second peer_addr(), then apply_tcp_optimizations; if  *)
(* set_nodelay fails the task returns at once and takes nothing back.      *)
Optimize(c) ==
  /\ pc[c] = "admitted"
  /\ stats' = Counted(stats)
  /\ \E a \in {"known", "lost", "none"} :
       /\ (a = "none") <=> (addr[c] = "none")
       /\ addr' = [addr EXCEPT ![c] = a]
  /\ \E ok \in BOOLEAN : pc' = [pc EXCEPT ![c] = IF ok THEN "relay" ELSE "leaked"]
  /\ UNCHANGED <<now, udpVars, limitVars>>

RelaySucceeds(c) ==
  /\ pc[c] = "relay"
  /\ stats' = [stats EXCEPT !.successful = @ + 1]
  /\ pc' = [pc EXCEPT ![c] = "closing"]
  /\ UNCHANGED <<now, addr, udpVars, limitVars>>

(* A panic in handle_stealth ends the task where it is, in a build that    *)
(* unwinds; a release build aborts the process.                            *)
RelayPanics(c) ==
  /\ pc[c] = "relay"
  /\ pc' = [pc EXCEPT ![c] = "leaked"]
  /\ UNCHANGED <<now, addr, stats, udpVars, limitVars>>

GiveBack(c) == IF addr[c] = "known" THEN Unregister(IpOf[c]) ELSE UNCHANGED active

CloseTcp(c) ==
  /\ pc[c] = "closing"
  /\ GiveBack(c)
  /\ stats' = [stats EXCEPT !.active = @ - 1]
  /\ pc' = [pc EXCEPT ![c] = "closed"]
  /\ UNCHANGED <<now, addr, udpVars, recent, admitted>>

(* The error arm leaves stats.active as it is.                             *)
RelayFails(c) ==
  /\ pc[c] = "relay"
  /\ GiveBack(c)
  /\ stats' = [stats EXCEPT !.failed = @ + 1]
  /\ pc' = [pc EXCEPT ![c] = "failed"]
  /\ UNCHANGED <<now, addr, udpVars, recent, admitted>>
----------------------------------------------------------------------------
(* handle_udp_packet: every packet is admitted like a connection and none  *)
(* is ever unregistered.                                                   *)
AdmitUdp(p) ==
  /\ ppc[p] = "new"
  /\ Admit(IpOf[AddrOf[p]])
  /\ ppc' = [ppc EXCEPT ![p] = "admitted"]
  /\ UNCHANGED <<now, tcpVars, sessions, relay>>

RefuseUdp(p) ==
  /\ ppc[p] = "new"
  /\ Refuse(IpOf[AddrOf[p]])
  /\ ppc' = [ppc EXCEPT ![p] = "refused"]
  /\ UNCHANGED <<now, tcpVars, sessions, relay>>

NoSessionFor(a) == sessions[a] = NoSession

(* The section under the session lock: it covers the look-up, the bind,    *)
(* the spawn of the response task, the insertion and the send.             *)
ForwardInSession(p) ==
  /\ ppc[p] = "admitted"
  /\ ~NoSessionFor(AddrOf[p])
  /\ ppc' = [ppc EXCEPT ![p] = "done"]
  /\ UNCHANGED <<now, tcpVars, sessions, relay, limitVars>>

ForwardInNewSession(p) ==
  /\ ppc[p] = "admitted"
  /\ NoSessionFor(AddrOf[p])
  /\ ppc' = [ppc EXCEPT ![p] = "done"]
  /\ \/ /\ sessions' = [sessions EXCEPT ![AddrOf[p]] = p]
        /\ relay' = [relay EXCEPT ![p] = "running"]
     \/ UNCHANGED <<sessions, relay>> \* bind or connect failed
  /\ UNCHANGED <<now, tcpVars, limitVars>>

(* The response task stops (60 s of silence, or an error), and only then   *)
(* asks for the lock to remove whatever is stored under its address.       *)
RelayStops(p) ==
  /\ relay[p] = "running"
  /\ relay' = [relay EXCEPT ![p] = "removing"]
  /\ UNCHANGED <<now, tcpVars, ppc, sessions, limitVars>>

RelayLeavesSession(p) == sessions \* faulty variant
SessionsWithout(p) == [sessions EXCEPT ![AddrOf[p]] = NoSession]

RelayRemoves(p) ==
  /\ relay[p] = "removing"
  /\ sessions' = SessionsWithout(p)
  /\ relay' = [relay EXCEPT ![p] = "ended"]
  /\ UNCHANGED <<now, tcpVars, ppc, limitVars>>
----------------------------------------------------------------------------
Next ==
  \/ \E c \in Conns : \/ AdmitTcp(c) \/ RefuseTcp(c) \/ AdmitUnchecked(c)
                      \/ Optimize(c) \/ RelaySucceeds(c) \/ RelayPanics(c)
                      \/ CloseTcp(c) \/ RelayFails(c)
  \/ \E p \in Packets : \/ AdmitUdp(p) \/ RefuseUdp(p)
                        \/ ForwardInSession(p) \/ ForwardInNewSession(p)
                        \/ RelayStops(p) \/ RelayRemoves(p)
  \/ Tick

Spec == Init /\ [][Next]_vars
----------------------------------------------------------------------------
(* The connections of an IP that passed the check and are being served.    *)
Live(ip) ==
  {c \in Conns : IpOf[c] = ip /\ addr[c] # "none" /\ pc[c] \in {"admitted", "relay"}}

(* Every variable has its type; the counters never wrap below zero.        *)
TypeOK ==
  /\ now \in Nat
  /\ pc \in [Conns -> {"new", "refused", "admitted", "relay", "leaked",
                       "closing", "closed", "failed"}]
  /\ addr \in [Conns -> {"known", "lost", "none"}]
  /\ ppc \in [Packets -> {"new", "refused", "admitted", "done"}]
  /\ active \in [Ips -> Nat]
  /\ recent \in [Ips -> SUBSET Nat]
  /\ stats \in [total : Nat, active : Nat, successful : Nat, failed : Nat]
  /\ sessions \in [Addrs -> Packets \cup {NoSession}]
  /\ relay \in [Packets -> {"none", "running", "removing", "ended"}]
  /\ admitted \in [Ips -> Seq(Nat)]

(***************************************************************************)
(* Of the TCP connections of one IP that were checked, no more are served  *)
(* at a time than max_conns_per_ip allows, however checks, ends and errors *)
(* interleave (check_security 184-192, register_disconnection).  One whose *)
(* peer_addr() fails at line 68 is served without a check.                 *)
(***************************************************************************)
ConcurrencyLimit ==
  MaxConns # NoLimit => \A ip \in Ips : Cardinality(Live(ip)) <= MaxConns

(***************************************************************************)
(* Within any window of one second at most CpsLimit connections and        *)
(* packets of one IP are admitted (check_security 195-211).                *)
(***************************************************************************)
RateLimit ==
  CpsLimit # NoLimit => \A ip \in Ips : \A i \in 1..Len(admitted[ip]) :
     Cardinality({j \in 1..Len(admitted[ip]) :
                    /\ admitted[ip][j] <= admitted[ip][i]
                    /\ admitted[ip][i] - admitted[ip][j] < Window}) <= CpsLimit

(***************************************************************************)
(* A UDP client never has two response tasks, and a session in the table   *)
(* always has the task that will remove it: a task that is late to remove  *)
(* its session cannot remove a newer one (lines 235-301).                  *)
(***************************************************************************)
SessionOwned ==
  \A a \in Addrs :
    LET tasks == {p \in Packets : AddrOf[p] = a /\ relay[p] \in {"running", "removing"}}
    IN  tasks = IF sessions[a] = NoSession THEN {} ELSE {sessions[a]}

(* Who holds a slot of an IP: a checked connection up to its end, past it  *)
(* if its task could not or did not give the slot back, and every packet   *)
(* ever admitted.                                                          *)
Holds(w, a) ==
  \/ w \in {"admitted", "relay", "leaked", "closing"} /\ a # "none"
  \/ w \in {"closed", "failed"} /\ a = "lost"
ConnSlots(ip) == {c \in Conns : IpOf[c] = ip /\ Holds(pc[c], addr[c])}
PacketSlots(ip) ==
  {p \in Packets : IpOf[AddrOf[p]] = ip /\ ppc[p] \in {"admitted", "done"}}

(***************************************************************************)
(* The counter of an IP is exactly the number of its slots in use, and     *)
(* these are the ones never given back, which in time shut the IP out:     *)
(* where set_nodelay fails (line 84), where the peer resets between the    *)
(* check and the second peer_addr() (81, 101, 112), where the relay        *)
(* panics, and of every UDP packet (236).  Every other end of a checked    *)
(* connection gives its slot back once, and none gives back another's.     *)
(***************************************************************************)
SlotAccounting ==
  MaxConns # NoLimit => \A ip \in Ips :
     active[ip] = Cardinality(ConnSlots(ip)) + Cardinality(PacketSlots(ip))
============================================================================
