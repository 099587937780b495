-------------------------- MODULE AdmissionProofs --------------------------
(***************************************************************************)
(* Proofs about Admission: the ownership of UDP sessions, the accounting   *)
(* of slots, the limit on connections, the rate limit and the types, for   *)
(* any finite sets of connections and packets, any addresses and limits.   *)
(***************************************************************************)
EXTENDS Admission, FiniteSetTheorems, TLAPS

(* The types of what the session table is kept in.                         *)
SessionTypes ==
  /\ ppc \in [Packets -> {"new", "refused", "admitted", "done"}]
  /\ sessions \in [Addrs -> Packets \cup {NoSession}]
  /\ relay \in [Packets -> {"none", "running", "removing", "ended"}]

(* A packet that has not been forwarded has started no response task.      *)
UnforwardedHasNoRelay ==
  \A p \in Packets : ppc[p] # "done" => relay[p] = "none"

(* A response task in flight is the one its address's session names, and   *)
(* the session names no other task.                                        *)
Owner ==
  /\ \A p \in Packets : relay[p] \in {"running", "removing"} =>
       sessions[AddrOf[p]] = p
  /\ \A a \in Addrs : sessions[a] # NoSession =>
       AddrOf[sessions[a]] = a /\ relay[sessions[a]] \in {"running", "removing"}

IInv == SessionTypes /\ UnforwardedHasNoRelay /\ Owner

USE DEF vars, tcpVars, udpVars, limitVars

(* The TCP side, the clock and the per-IP statistics leave the table alone.*)
LEMMA TcpStep ==
  ASSUME NEW c \in Conns,
         \/ AdmitTcp(c) \/ RefuseTcp(c) \/ AdmitUnchecked(c) \/ Optimize(c)
         \/ RelaySucceeds(c) \/ RelayPanics(c) \/ CloseTcp(c) \/ RelayFails(c)
  PROVE  UNCHANGED udpVars
BY DEF AdmitTcp, RefuseTcp, AdmitUnchecked, Optimize, RelaySucceeds, RelayPanics,
       CloseTcp, RelayFails

(* Every step keeps the ownership of sessions.                             *)
LEMMA OwnerStep == ASSUME IInv, [Next]_vars PROVE IInv'
<1> USE AdmissionAssumption
    DEF IInv, SessionTypes, UnforwardedHasNoRelay, Owner, NoSession
<1>1. ASSUME UNCHANGED udpVars PROVE IInv'
  BY <1>1
<1>2. ASSUME NEW c \in Conns,
             \/ AdmitTcp(c) \/ RefuseTcp(c) \/ AdmitUnchecked(c) \/ Optimize(c)
             \/ RelaySucceeds(c) \/ RelayPanics(c) \/ CloseTcp(c) \/ RelayFails(c)
      PROVE  IInv'
  BY <1>1, <1>2, TcpStep
<1>3. ASSUME NEW p \in Packets, AdmitUdp(p) \/ RefuseUdp(p) PROVE IInv'
  BY <1>3 DEF AdmitUdp, RefuseUdp
<1>4. ASSUME NEW p \in Packets, ForwardInSession(p) PROVE IInv'
  BY <1>4 DEF ForwardInSession
<1>5. ASSUME NEW p \in Packets, ForwardInNewSession(p) PROVE IInv'
  <2>1. relay[p] = "none" /\ AddrOf[p] \in Addrs
    BY <1>5 DEF ForwardInNewSession
  <2>2. CASE UNCHANGED <<sessions, relay>>
    BY <1>5, <2>2 DEF ForwardInNewSession
  <2>3. CASE /\ sessions' = [sessions EXCEPT ![AddrOf[p]] = p]
             /\ relay' = [relay EXCEPT ![p] = "running"]
    <3>1. SessionTypes' /\ UnforwardedHasNoRelay'
      BY <1>5, <2>1, <2>3 DEF ForwardInNewSession
    <3>2. \A q \in Packets : q # p /\ relay[q] \in {"running", "removing"} =>
            AddrOf[q] # AddrOf[p]
      BY <1>5 DEF ForwardInNewSession, NoSessionFor
    <3>3. (\A q \in Packets : relay[q] \in {"running", "removing"} =>
             sessions[AddrOf[q]] = q)'
      BY <2>1, <2>3, <3>2
    <3>4. (\A a \in Addrs : sessions[a] # NoSession =>
             AddrOf[sessions[a]] = a /\ relay[sessions[a]] \in {"running", "removing"})'
      BY <2>1, <2>3
    <3>5. QED
      BY <3>1, <3>3, <3>4
  <2>4. QED
    BY <1>5, <2>2, <2>3 DEF ForwardInNewSession
<1>6. ASSUME NEW p \in Packets, RelayStops(p) PROVE IInv'
  BY <1>6 DEF RelayStops
<1>7. ASSUME NEW p \in Packets, RelayRemoves(p) PROVE IInv'
  <2>1. sessions[AddrOf[p]] = p /\ AddrOf[p] \in Addrs
    BY <1>7 DEF RelayRemoves
  <2>2. \A q \in Packets : q # p /\ relay[q] \in {"running", "removing"} =>
          AddrOf[q] # AddrOf[p]
    BY <2>1
  <2>3. SessionTypes' /\ UnforwardedHasNoRelay'
    BY <1>7, <2>1 DEF RelayRemoves, SessionsWithout
  <2>4. QED
    BY <1>7, <2>1, <2>2, <2>3 DEF RelayRemoves, SessionsWithout
<1>8. CASE Tick
  BY <1>1, <1>8 DEF Tick
<1>9. CASE UNCHANGED vars
  BY <1>1, <1>9
<1>10. QED
  BY <1>2, <1>3, <1>4, <1>5, <1>6, <1>7, <1>8, <1>9 DEF Next

(***************************************************************************)
(* Every UDP session in the table has exactly one response task, the one   *)
(* that will remove it, and an address without a session has none          *)
(* (stealth_connection_handler.rs 235-301).                                *)
(***************************************************************************)
THEOREM SessionsOwned == Spec => []SessionOwned
<1>1. Init => IInv
  BY DEF Init, IInv, SessionTypes, UnforwardedHasNoRelay, Owner
<1>2. IInv /\ [Next]_vars => IInv'
  BY OwnerStep
<1>3. IInv => SessionOwned
  BY AdmissionAssumption
  DEF IInv, SessionTypes, Owner, SessionOwned, NoSession
<1>4. QED
  BY <1>1, <1>2, <1>3, PTL DEF Spec

----------------------------------------------------------------------------
(* The slots.  The counter of an IP is exact and never above the limit.    *)
SlotTypes ==
  /\ pc \in [Conns -> {"new", "refused", "admitted", "relay", "leaked",
                       "closing", "closed", "failed"}]
  /\ addr \in [Conns -> {"known", "lost", "none"}]
  /\ ppc \in [Packets -> {"new", "refused", "admitted", "done"}]
  /\ active \in [Ips -> Nat]

Exact(ip) ==
  /\ active[ip] = Cardinality(ConnSlots(ip)) + Cardinality(PacketSlots(ip))
  /\ active[ip] <= MaxConns

(* A connection is given another address only by the two peer_addr().      *)
Unasked == \A c \in Conns : pc[c] = "new" => addr[c] = "known"

SlotInv == SlotTypes /\ Unasked /\ (MaxConns # NoLimit => \A ip \in Ips : Exact(ip))

LEMMA SlotsFinite ==
  ASSUME NEW ip
  PROVE  /\ IsFiniteSet(ConnSlots(ip)) /\ Cardinality(ConnSlots(ip)) \in Nat
         /\ IsFiniteSet(PacketSlots(ip)) /\ Cardinality(PacketSlots(ip)) \in Nat
<1>1. ConnSlots(ip) \subseteq Conns /\ PacketSlots(ip) \subseteq Packets
  BY DEF ConnSlots, PacketSlots
<1>2. IsFiniteSet(ConnSlots(ip)) /\ IsFiniteSet(PacketSlots(ip))
  BY <1>1, FS_Subset, AdmissionAssumption
<1>3. QED
  BY <1>2, FS_CardinalityType

(* A connection that takes a slot, keeps what it has, or gives it back.    *)
LEMMA ConnMoves ==
  ASSUME SlotTypes, NEW c \in Conns, NEW w, NEW a,
         pc' = [pc EXCEPT ![c] = w], addr' = [addr EXCEPT ![c] = a]
  PROVE  \A ip : ConnSlots(ip)' = IF IpOf[c] = ip /\ Holds(w, a)
                                  THEN ConnSlots(ip) \cup {c} ELSE ConnSlots(ip) \ {c}
BY DEF SlotTypes, ConnSlots

LEMMA PacketMoves ==
  ASSUME SlotTypes, NEW p \in Packets, NEW w, ppc' = [ppc EXCEPT ![p] = w]
  PROVE  \A ip : PacketSlots(ip)' =
           IF IpOf[AddrOf[p]] = ip /\ w \in {"admitted", "done"}
           THEN PacketSlots(ip) \cup {p} ELSE PacketSlots(ip) \ {p}
BY DEF SlotTypes, PacketSlots

LEMMA IpTypes ==
  /\ \A c \in Conns : IpOf[c] \in Ips
  /\ \A p \in Packets : IpOf[AddrOf[p]] \in Ips
BY AdmissionAssumption

(* What admission and the end of a connection do to the counter.           *)
LEMMA AdmitCounts ==
  ASSUME SlotInv, NEW ip \in Ips, Admit(ip)
  PROVE  /\ active' \in [Ips -> Nat]
         /\ MaxConns # NoLimit => /\ active' = [active EXCEPT ![ip] = @ + 1]
                                  /\ active[ip] + 1 <= MaxConns
<1>1. active[ip] \in Nat
  BY DEF SlotInv, SlotTypes
<1>2. active' \in [Ips -> Nat]
  BY <1>1 DEF Admit, SlotInv, SlotTypes
<1>3. MaxConns # NoLimit => ~(active[ip] >= MaxConns) /\ MaxConns \in Nat
  BY AdmissionAssumption DEF Admit, AtMax
<1>4. MaxConns # NoLimit => active' = [active EXCEPT ![ip] = @ + 1]
  BY DEF Admit, Limited
<1>5. QED
  BY <1>1, <1>2, <1>3, <1>4

LEMMA UnregisterCounts ==
  ASSUME SlotInv, NEW c \in Conns, Unregister(IpOf[c]), Holds(pc[c], addr[c])
  PROVE  /\ active' \in [Ips -> Nat]
         /\ MaxConns # NoLimit => /\ active' = [active EXCEPT ![IpOf[c]] = @ - 1]
                                  /\ active[IpOf[c]] > 0
<1> DEFINE ip == IpOf[c]
<1>1. ip \in Ips /\ active[ip] \in Nat
  BY IpTypes DEF SlotInv, SlotTypes
<1>2. active' \in [Ips -> Nat]
  BY <1>1 DEF Unregister, SlotInv, SlotTypes
<1>3. ASSUME MaxConns # NoLimit PROVE active[ip] > 0
  <2>1. c \in ConnSlots(ip)
    BY DEF ConnSlots
  <2>2. Cardinality(ConnSlots(ip)) # 0
    BY <2>1, FS_EmptySet, SlotsFinite
  <2>3. active[ip] = Cardinality(ConnSlots(ip)) + Cardinality(PacketSlots(ip))
    BY <1>1, <1>3 DEF SlotInv, Exact
  <2>4. QED
    BY <2>2, <2>3, SlotsFinite
<1>4. QED
  BY <1>1, <1>2, <1>3 DEF Unregister

(* A step that touches no slot.                                            *)
LEMMA SlotsKept ==
  ASSUME SlotInv, UNCHANGED active, SlotTypes', Unasked',
         \A ip : ConnSlots(ip)' = ConnSlots(ip) /\ PacketSlots(ip)' = PacketSlots(ip)
  PROVE  SlotInv'
BY DEF SlotInv, Exact

LEMMA SlotStep == ASSUME SlotInv, [Next]_vars PROVE SlotInv'
<1>0. SlotTypes
  BY DEF SlotInv
<1>1. ASSUME NEW c \in Conns, AdmitTcp(c) PROVE SlotInv'
  <2> DEFINE i == IpOf[c]
  <2>1. /\ i \in Ips /\ Admit(i) /\ pc' = [pc EXCEPT ![c] = "admitted"]
        /\ addr' = [addr EXCEPT ![c] = "known"] /\ ppc' = ppc
    BY <1>0, <1>1, IpTypes DEF AdmitTcp, SlotTypes, SlotInv, Unasked
  <2>2. /\ active' \in [Ips -> Nat]
        /\ MaxConns # NoLimit => /\ active' = [active EXCEPT ![i] = @ + 1]
                                 /\ active[i] + 1 <= MaxConns
    BY <2>1, AdmitCounts
  <2>3. SlotTypes'
    BY <1>0, <2>1, <2>2 DEF SlotTypes
  <2>4. c \notin ConnSlots(i) /\ \A ip : ip # i => c \notin ConnSlots(ip)
    BY <1>1 DEF AdmitTcp, ConnSlots, Holds
  <2>5. /\ ConnSlots(i)' = ConnSlots(i) \cup {c}
        /\ \A ip : ip # i => ConnSlots(ip)' = ConnSlots(ip)
        /\ \A ip : PacketSlots(ip)' = PacketSlots(ip)
    <3>0. Holds("admitted", "known")
      BY DEF Holds
    <3>1. ConnSlots(i)' = ConnSlots(i) \cup {c}
      BY <1>0, <2>1, <3>0, ConnMoves
    <3>2. ASSUME NEW ip, ip # i PROVE ConnSlots(ip)' = ConnSlots(ip)
      <4>1. ConnSlots(ip)' = ConnSlots(ip) \ {c}
        BY <1>0, <2>1, <3>2, ConnMoves
      <4>2. QED
        BY <2>4, <3>2, <4>1
    <3>3. \A ip : PacketSlots(ip)' = PacketSlots(ip)
      BY <2>1 DEF PacketSlots
    <3>4. QED
      BY <3>1, <3>2, <3>3
  <2>6. Cardinality(ConnSlots(i)') = Cardinality(ConnSlots(i)) + 1
    BY <2>4, <2>5, SlotsFinite, FS_AddElement
  <2>7. ASSUME MaxConns # NoLimit, NEW ip \in Ips PROVE Exact(ip)'
    <3>1. Exact(ip) /\ active[ip] \in Nat
      BY <1>0, <2>7 DEF SlotInv, SlotTypes
    <3>2. CASE ip = i
      <4>1. active'[i] = active[i] + 1
        BY <1>0, <2>1, <2>2, <2>7 DEF SlotTypes
      <4>2. active[i] = Cardinality(ConnSlots(i)) + Cardinality(PacketSlots(i))
        BY <3>1, <3>2 DEF Exact
      <4>3. active'[i] = (Cardinality(ConnSlots(i)) + 1) + Cardinality(PacketSlots(i))
        BY <4>1, <4>2, SlotsFinite
      <4>4. active'[i] <= MaxConns
        BY <2>2, <2>7, <3>1, <3>2, <4>1 DEF Exact
      <4>5. QED
        BY <2>5, <2>6, <3>2, <4>3, <4>4 DEF Exact
    <3>3. CASE ip # i
      <4>1. active'[ip] = active[ip]
        BY <1>0, <2>2, <2>7, <3>3 DEF SlotTypes
      <4>2. QED
        BY <2>5, <3>1, <3>3, <4>1 DEF Exact
    <3>4. QED
      BY <3>2, <3>3
  <2>8. Unasked'
    BY <1>0, <2>1 DEF SlotTypes, SlotInv, Unasked
  <2>9. QED
    BY <2>3, <2>7, <2>8 DEF SlotInv
<1>2. ASSUME NEW c \in Conns, NEW w, NEW a, ppc' = ppc, active' = active,
             pc' = [pc EXCEPT ![c] = w], addr' = [addr EXCEPT ![c] = a],
             SlotTypes', Unasked', Holds(w, a) <=> Holds(pc[c], addr[c])
      PROVE  SlotInv'
  <2>1. ASSUME NEW ip PROVE ConnSlots(ip)' = ConnSlots(ip)
    <3>1. ConnSlots(ip)' = IF IpOf[c] = ip /\ Holds(w, a)
                           THEN ConnSlots(ip) \cup {c} ELSE ConnSlots(ip) \ {c}
      BY <1>0, <1>2, ConnMoves
    <3>2. (c \in ConnSlots(ip)) <=> (IpOf[c] = ip /\ Holds(w, a))
      BY <1>2 DEF ConnSlots
    <3>3. QED
      BY <3>1, <3>2
  <2>2. \A ip : PacketSlots(ip)' = PacketSlots(ip)
    BY <1>2 DEF PacketSlots
  <2>3. QED
    BY <1>2, <2>1, <2>2, SlotsKept
<1>3. ASSUME NEW c \in Conns,
              \/ RefuseTcp(c) \/ AdmitUnchecked(c) \/ Optimize(c)
              \/ RelaySucceeds(c) \/ RelayPanics(c)
       PROVE  SlotInv'
  <2>1. PICK w \in {"refused", "admitted", "relay", "leaked", "closing"} :
          /\ pc' = [pc EXCEPT ![c] = w]
          /\ (w = "refused" \/ w = "admitted") <=> (pc[c] = "new")
          /\ w \notin {"refused", "admitted"} => pc[c] \in {"admitted", "relay"}
          /\ w = "admitted" => addr' = [addr EXCEPT ![c] = "none"]
    BY <1>3 DEF RefuseTcp, AdmitUnchecked, Optimize, RelaySucceeds, RelayPanics
  <2>2. PICK a \in {"known", "lost", "none"} :
          /\ addr' = [addr EXCEPT ![c] = a]
          /\ w \notin {"refused", "admitted"} => ((a = "none") <=> (addr[c] = "none"))
    BY <1>0, <1>3, <2>1
    DEF RefuseTcp, AdmitUnchecked, Optimize, RelaySucceeds, RelayPanics, SlotTypes
  <2>3. ppc' = ppc /\ active' = active
    BY <1>3 DEF RefuseTcp, Refuse, AdmitUnchecked, Optimize, RelaySucceeds, RelayPanics
  <2>4. SlotTypes'
    BY <1>0, <2>1, <2>2, <2>3 DEF SlotTypes
  <2>5. Unasked'
    BY <1>0, <2>1, <2>2 DEF SlotTypes, SlotInv, Unasked
  <2>6. w = "admitted" => a = "none"
    BY <1>0, <2>1, <2>2 DEF SlotTypes
  <2>7. Holds(w, a) <=> Holds(pc[c], addr[c])
    BY <2>1, <2>2, <2>6 DEF Holds
  <2>8. QED
    BY <1>2, <2>1, <2>2, <2>3, <2>4, <2>5, <2>7
<1>4. ASSUME NEW c \in Conns, CloseTcp(c) \/ RelayFails(c), addr[c] # "known"
       PROVE  SlotInv'
  <2>1. PICK w \in {"closed", "failed"} : pc' = [pc EXCEPT ![c] = w]
    BY <1>4 DEF CloseTcp, RelayFails
  <2>2. /\ addr' = [addr EXCEPT ![c] = addr[c]] /\ ppc' = ppc /\ active' = active
        /\ pc[c] \in {"relay", "closing"}
    BY <1>0, <1>4 DEF CloseTcp, RelayFails, GiveBack, SlotTypes
  <2>3. SlotTypes' /\ Unasked'
    BY <1>0, <2>1, <2>2 DEF SlotTypes, SlotInv, Unasked
  <2>4. addr[c] \in {"lost", "none"}
    BY <1>0, <1>4 DEF SlotTypes
  <2>5. Holds(w, addr[c]) <=> Holds(pc[c], addr[c])
    BY <2>2, <2>4, <2>1 DEF Holds
  <2>6. QED
    BY <1>2, <2>1, <2>2, <2>3, <2>5
<1>5. ASSUME NEW c \in Conns, CloseTcp(c) \/ RelayFails(c), addr[c] = "known"
      PROVE  SlotInv'
  <2> DEFINE i == IpOf[c]
  <2>1. /\ i \in Ips /\ Unregister(i) /\ ppc' = ppc /\ pc[c] \in {"relay", "closing"}
        /\ addr' = [addr EXCEPT ![c] = "known"]
        /\ \E w \in {"closed", "failed"} : pc' = [pc EXCEPT ![c] = w]
    BY <1>0, <1>5, IpTypes DEF CloseTcp, RelayFails, GiveBack, SlotTypes
  <2>2. /\ active' \in [Ips -> Nat]
        /\ MaxConns # NoLimit => /\ active' = [active EXCEPT ![i] = @ - 1]
                                 /\ active[i] > 0
    BY <1>5, <2>1, UnregisterCounts DEF Holds
  <2>3. SlotTypes'
    BY <1>0, <2>1, <2>2 DEF SlotTypes
  <2>4. c \in ConnSlots(i) /\ \A ip : ip # i => c \notin ConnSlots(ip)
    BY <1>5, <2>1 DEF ConnSlots, Holds
  <2>5. /\ ConnSlots(i)' = ConnSlots(i) \ {c}
        /\ \A ip : ip # i => ConnSlots(ip)' = ConnSlots(ip)
        /\ \A ip : PacketSlots(ip)' = PacketSlots(ip)
    <3>0. ~Holds("closed", "known") /\ ~Holds("failed", "known")
      BY DEF Holds
    <3>1. ConnSlots(i)' = ConnSlots(i) \ {c}
      BY <1>0, <2>1, <3>0, ConnMoves
    <3>2. ASSUME NEW ip, ip # i PROVE ConnSlots(ip)' = ConnSlots(ip)
      <4>1. ConnSlots(ip)' = ConnSlots(ip) \ {c}
        BY <1>0, <2>1, <3>2, ConnMoves
      <4>2. QED
        BY <2>4, <3>2, <4>1
    <3>3. \A ip : PacketSlots(ip)' = PacketSlots(ip)
      BY <2>1 DEF PacketSlots
    <3>4. QED
      BY <3>1, <3>2, <3>3
  <2>6. Cardinality(ConnSlots(i)') = Cardinality(ConnSlots(i)) - 1
    BY <2>4, <2>5, SlotsFinite, FS_RemoveElement
  <2>7. ASSUME MaxConns # NoLimit, NEW ip \in Ips PROVE Exact(ip)'
    <3>1. Exact(ip) /\ active[ip] \in Nat /\ MaxConns \in Nat
      BY <1>0, <2>7, AdmissionAssumption DEF SlotInv, SlotTypes
    <3>2. CASE ip = i
      <4>1. active'[i] = active[i] - 1
        BY <1>0, <2>1, <2>2, <2>7 DEF SlotTypes
      <4>2. active[i] = Cardinality(ConnSlots(i)) + Cardinality(PacketSlots(i))
        BY <3>1, <3>2 DEF Exact
      <4>3. active'[i] = (Cardinality(ConnSlots(i)) - 1) + Cardinality(PacketSlots(i))
        BY <4>1, <4>2, SlotsFinite
      <4>4. active'[i] <= MaxConns
        BY <2>2, <2>7, <3>1, <3>2, <4>1 DEF Exact
      <4>5. QED
        BY <2>5, <2>6, <3>2, <4>3, <4>4 DEF Exact
    <3>3. CASE ip # i
      <4>1. active'[ip] = active[ip]
        BY <1>0, <2>2, <2>7, <3>3 DEF SlotTypes
      <4>2. QED
        BY <2>5, <3>1, <3>3, <4>1 DEF Exact
    <3>4. QED
      BY <3>2, <3>3
  <2>8. Unasked'
    BY <1>0, <2>1 DEF SlotTypes, SlotInv, Unasked
  <2>9. QED
    BY <2>3, <2>7, <2>8 DEF SlotInv
<1>6. ASSUME NEW p \in Packets, AdmitUdp(p) PROVE SlotInv'
  <2> DEFINE i == IpOf[AddrOf[p]]
  <2>1. /\ i \in Ips /\ Admit(i) /\ ppc' = [ppc EXCEPT ![p] = "admitted"]
        /\ pc' = pc /\ addr' = addr
    BY <1>6, IpTypes DEF AdmitUdp
  <2>2. /\ active' \in [Ips -> Nat]
        /\ MaxConns # NoLimit => /\ active' = [active EXCEPT ![i] = @ + 1]
                                 /\ active[i] + 1 <= MaxConns
    BY <2>1, AdmitCounts
  <2>3. SlotTypes'
    BY <1>0, <2>1, <2>2 DEF SlotTypes
  <2>4. p \notin PacketSlots(i) /\ \A ip : ip # i => p \notin PacketSlots(ip)
    BY <1>6 DEF AdmitUdp, PacketSlots
  <2>5. /\ PacketSlots(i)' = PacketSlots(i) \cup {p}
        /\ \A ip : ip # i => PacketSlots(ip)' = PacketSlots(ip)
        /\ \A ip : ConnSlots(ip)' = ConnSlots(ip)
    <3>1. PacketSlots(i)' = PacketSlots(i) \cup {p}
      BY <1>0, <2>1, PacketMoves
    <3>2. ASSUME NEW ip, ip # i PROVE PacketSlots(ip)' = PacketSlots(ip)
      <4>1. PacketSlots(ip)' = PacketSlots(ip) \ {p}
        BY <1>0, <2>1, <3>2, PacketMoves
      <4>2. QED
        BY <2>4, <3>2, <4>1
    <3>3. \A ip : ConnSlots(ip)' = ConnSlots(ip)
      BY <2>1 DEF ConnSlots
    <3>4. QED
      BY <3>1, <3>2, <3>3
  <2>6. Cardinality(PacketSlots(i)') = Cardinality(PacketSlots(i)) + 1
    BY <2>4, <2>5, SlotsFinite, FS_AddElement
  <2>7. ASSUME MaxConns # NoLimit, NEW ip \in Ips PROVE Exact(ip)'
    <3>1. Exact(ip) /\ active[ip] \in Nat
      BY <1>0, <2>7 DEF SlotInv, SlotTypes
    <3>2. CASE ip = i
      <4>1. active'[i] = active[i] + 1
        BY <1>0, <2>1, <2>2, <2>7 DEF SlotTypes
      <4>2. active[i] = Cardinality(ConnSlots(i)) + Cardinality(PacketSlots(i))
        BY <3>1, <3>2 DEF Exact
      <4>3. active'[i] = Cardinality(ConnSlots(i)) + (Cardinality(PacketSlots(i)) + 1)
        BY <4>1, <4>2, SlotsFinite
      <4>4. active'[i] <= MaxConns
        BY <2>2, <2>7, <3>1, <3>2, <4>1 DEF Exact
      <4>5. QED
        BY <2>5, <2>6, <3>2, <4>3, <4>4 DEF Exact
    <3>3. CASE ip # i
      <4>1. active'[ip] = active[ip]
        BY <1>0, <2>2, <2>7, <3>3 DEF SlotTypes
      <4>2. QED
        BY <2>5, <3>1, <3>3, <4>1 DEF Exact
    <3>4. QED
      BY <3>2, <3>3
  <2>8. Unasked'
    BY <2>1, <1>6 DEF AdmitUdp, SlotInv, Unasked
  <2>9. QED
    BY <2>3, <2>7, <2>8 DEF SlotInv
<1>7. ASSUME NEW p \in Packets,
             RefuseUdp(p) \/ ForwardInSession(p) \/ ForwardInNewSession(p)
      PROVE  SlotInv'
  <2>1. PICK w \in {"refused", "done"} :
          /\ ppc' = [ppc EXCEPT ![p] = w]
          /\ w = "refused" => ppc[p] = "new"
          /\ w = "done" => ppc[p] = "admitted"
    BY <1>7 DEF RefuseUdp, ForwardInSession, ForwardInNewSession
  <2>2. pc' = pc /\ addr' = addr /\ active' = active
    BY <1>7 DEF RefuseUdp, Refuse, ForwardInSession, ForwardInNewSession
  <2>3. SlotTypes'
    BY <1>0, <2>1, <2>2 DEF SlotTypes
  <2>4. \A ip : PacketSlots(ip)' = PacketSlots(ip)
    BY <1>0, <2>1, PacketMoves DEF PacketSlots
  <2>5. \A ip : ConnSlots(ip)' = ConnSlots(ip)
    BY <2>2 DEF ConnSlots
  <2>6. Unasked'
    BY <2>2 DEF SlotInv, Unasked
  <2>7. QED
    BY <2>2, <2>3, <2>4, <2>5, <2>6, SlotsKept
<1>8. ASSUME UNCHANGED <<pc, addr, ppc, active>> PROVE SlotInv'
  BY <1>8 DEF SlotInv, SlotTypes, Unasked, Exact, ConnSlots, PacketSlots
<1>9. ASSUME NEW p \in Packets, RelayStops(p) \/ RelayRemoves(p) PROVE SlotInv'
  BY <1>8, <1>9 DEF RelayStops, RelayRemoves
<1>10. CASE Tick \/ UNCHANGED vars
  BY <1>8, <1>10 DEF Tick
<1>11. QED
  BY <1>1, <1>3, <1>4, <1>5, <1>6, <1>7, <1>9, <1>10 DEF Next

LEMMA SlotInvariant == Spec => []SlotInv
<1>1. Init => SlotInv
  <2> SUFFICES ASSUME Init PROVE SlotInv
    OBVIOUS
  <2>1. SlotTypes
    BY DEF Init, SlotTypes
  <2>2. Unasked
    BY DEF Init, Unasked
  <2>3. ASSUME NEW ip \in Ips PROVE ConnSlots(ip) = {} /\ PacketSlots(ip) = {}
    BY DEF Init, ConnSlots, Holds, PacketSlots
  <2>4. ASSUME NEW ip \in Ips, MaxConns # NoLimit PROVE Exact(ip)
    <3>1. active[ip] = 0 /\ MaxConns \in Nat
      BY <2>4, AdmissionAssumption DEF Init
    <3>2. Cardinality(ConnSlots(ip)) = 0 /\ Cardinality(PacketSlots(ip)) = 0
      BY <2>3, FS_EmptySet
    <3>3. QED
      BY <3>1, <3>2 DEF Exact
  <2>5. QED
    BY <2>1, <2>2, <2>4 DEF SlotInv
<1>2. QED
  BY <1>1, SlotStep, PTL DEF Spec

(***************************************************************************)
(* The per-IP counter is exactly the number of slots in use, however       *)
(* checks, ends, errors and packets interleave: the saturating decrement   *)
(* never saturates.  Slots are kept for ever exactly where set_nodelay     *)
(* fails, the relay panics or the peer resets between the check and the    *)
(* second peer_addr(), and by UDP packets (stealth_connection_handler.rs   *)
(* 67-117, 160-236).                                                       *)
(***************************************************************************)
THEOREM SlotsAccounted == Spec => []SlotAccounting
<1>1. SlotInv => SlotAccounting
  BY DEF SlotInv, Exact, SlotAccounting
<1>2. QED
  BY <1>1, SlotInvariant, PTL

(***************************************************************************)
(* An IP never has more connections that were checked being served than    *)
(* max_conns_per_ip (184-192).                                             *)
(***************************************************************************)
THEOREM LimitKept == Spec => []ConcurrencyLimit
<1>1. ASSUME SlotInv, MaxConns # NoLimit, NEW ip \in Ips
      PROVE  Cardinality(Live(ip)) <= MaxConns
  <2>1. Live(ip) \subseteq ConnSlots(ip)
    BY DEF Live, ConnSlots, Holds
  <2>2. Cardinality(Live(ip)) <= Cardinality(ConnSlots(ip)) /\ IsFiniteSet(Live(ip))
    BY <2>1, SlotsFinite, FS_Subset
  <2>3. Cardinality(Live(ip)) \in Nat
    BY <2>2, FS_CardinalityType
  <2>4. Exact(ip) /\ MaxConns \in Nat
    BY <1>1, AdmissionAssumption DEF SlotInv
  <2>5. QED
    BY <2>2, <2>3, <2>4, SlotsFinite DEF Exact
<1>2. SlotInv => ConcurrencyLimit
  BY <1>1 DEF ConcurrencyLimit
<1>3. QED
  BY <1>2, SlotInvariant, PTL

----------------------------------------------------------------------------
(* The rate limit.  What recent_connections has forgotten is too old to    *)
(* count, so that the admissions in the last second are among the ones it  *)
(* holds.                                                                  *)
RateTypes ==
  /\ now \in Nat
  /\ recent \in [Ips -> SUBSET Nat]
  /\ admitted \in [Ips -> Seq(Nat)]

Within(ip, i) ==
  {j \in 1..Len(admitted[ip]) : /\ admitted[ip][j] <= admitted[ip][i]
                                /\ admitted[ip][i] - admitted[ip][j] < Window}

Remembered(ip) ==
  /\ recent[ip] \subseteq 1..Len(admitted[ip])
  /\ \A n \in 1..Len(admitted[ip]) : admitted[ip][n] <= now
  /\ \A n \in 1..Len(admitted[ip]) : n \notin recent[ip] => now - admitted[ip][n] >= Window

Bounded(ip) ==
  \A i \in 1..Len(admitted[ip]) : Cardinality(Within(ip, i)) <= CpsLimit

RateInv ==
  /\ RateTypes
  /\ CpsLimit # NoLimit => \A ip \in Ips : Remembered(ip) /\ Bounded(ip)

(* One admission more: a window that ends before it is what it was, one    *)
(* that ends at it holds no more than what the check has just counted.     *)
LEMMA AdmitBounded ==
  ASSUME RateTypes, CpsLimit # NoLimit, NEW ip \in Ips,
         Remembered(ip), Bounded(ip), Admit(ip), UNCHANGED now
  PROVE  Remembered(ip)' /\ Bounded(ip)'
<1> DEFINE ad == admitted[ip]
           new == Len(ad) + 1
           counted == Recent(ip)
<1>1. /\ ad \in Seq(Nat) /\ Len(ad) \in Nat /\ now \in Nat
      /\ Window \in Nat /\ CpsLimit \in Nat
      /\ \A n \in 1..Len(ad) : ad[n] \in Nat
  BY AdmissionAssumption DEF RateTypes
<1>2. /\ admitted'[ip] = Append(ad, now)
      /\ recent'[ip] = counted \cup {new}
  BY DEF Admit, RateTypes
<1>3. /\ Len(admitted'[ip]) = new /\ admitted'[ip][new] = now
      /\ \A n \in 1..Len(ad) : admitted'[ip][n] = ad[n]
      /\ 1..new = 1..Len(ad) \cup {new} /\ new \notin 1..Len(ad)
  BY <1>1, <1>2
<1>4. counted = {n \in recent[ip] : now - ad[n] < Window}
  BY DEF Recent
<1>5. counted \subseteq 1..Len(ad)
  BY <1>4 DEF Remembered
<1>6. IsFiniteSet(counted) /\ Cardinality(counted) \in Nat
  <2>1. IsFiniteSet(1..Len(ad))
    BY <1>1, FS_Interval
  <2>2. IsFiniteSet(counted)
    BY <2>1, <1>5, FS_Subset
  <2>3. QED
    BY <2>2, FS_CardinalityType
<1>7. Cardinality(counted) < CpsLimit
  BY <1>1, <1>6 DEF Admit, OverRate
<1>8. /\ IsFiniteSet(counted \cup {new})
      /\ Cardinality(counted \cup {new}) <= CpsLimit
      /\ Cardinality(counted \cup {new}) \in Nat
  <2>1. new \notin counted
    BY <1>3, <1>5
  <2>2. /\ IsFiniteSet(counted \cup {new})
        /\ Cardinality(counted \cup {new}) = Cardinality(counted) + 1
    BY <1>6, <2>1, FS_AddElement
  <2>3. QED
    BY <1>1, <1>6, <1>7, <2>2
<1> HIDE DEF counted
<1>9. Remembered(ip)'
  <2>1. recent'[ip] \subseteq 1..new
    BY <1>2, <1>3, <1>5
  <2>2. ASSUME NEW n \in 1..new PROVE admitted'[ip][n] <= now
    <3>1. CASE n = new
      BY <3>1, <1>1, <1>3
    <3>2. CASE n \in 1..Len(ad)
      BY <3>2, <1>3 DEF Remembered
    <3>3. QED
      BY <3>1, <3>2, <1>3
  <2>3. ASSUME NEW n \in 1..new, n \notin recent'[ip]
        PROVE  now - admitted'[ip][n] >= Window
    <3>1. n \in 1..Len(ad) /\ n \notin counted
      BY <1>2, <1>3, <2>3
    <3>2. CASE n \in recent[ip]
      <4>1. ~(now - ad[n] < Window) /\ ad[n] \in Nat
        BY <3>1, <3>2, <1>1, <1>4
      <4>2. now - ad[n] >= Window
        BY <4>1, <1>1
      <4>3. QED
        BY <3>1, <4>2, <1>3
    <3>3. CASE n \notin recent[ip]
      BY <3>1, <3>3, <1>3 DEF Remembered
    <3>4. QED
      BY <3>2, <3>3
  <2>4. QED
    BY <1>3, <2>1, <2>2, <2>3 DEF Remembered
<1>10. ASSUME NEW i \in 1..new PROVE Cardinality(Within(ip, i)') <= CpsLimit
  <2>1. CASE admitted'[ip][i] = now
    <3>1. Within(ip, i)' \subseteq counted \cup {new}
      <4>1. SUFFICES ASSUME NEW j \in Within(ip, i)', j # new
                     PROVE  j \in counted
        OBVIOUS
      <4>2. j \in 1..Len(ad) /\ now - ad[j] < Window
        BY <4>1, <1>3, <2>1 DEF Within
      <4>3. j \in recent[ip]
        BY <4>2, <1>1 DEF Remembered
      <4>4. QED
        BY <4>2, <4>3, <1>4
    <3>2. /\ IsFiniteSet(Within(ip, i)')
          /\ Cardinality(Within(ip, i)') <= Cardinality(counted \cup {new})
      BY <3>1, <1>8, FS_Subset
    <3>3. Cardinality(Within(ip, i)') \in Nat
      BY <3>2, FS_CardinalityType
    <3>4. QED
      BY <3>2, <3>3, <1>1, <1>8
  <2>2. CASE admitted'[ip][i] # now
    <3>1. i \in 1..Len(ad) /\ ad[i] < now
      <4>1. i \in 1..Len(ad) /\ ad[i] # now
        BY <1>3, <2>2
      <4>2. ad[i] <= now /\ ad[i] \in Nat
        BY <4>1, <1>1 DEF Remembered
      <4>3. QED
        BY <4>1, <4>2, <1>1
    <3>2. Within(ip, i)' = Within(ip, i)
      <4>1. ASSUME NEW j PROVE j \in Within(ip, i)' <=> j \in Within(ip, i)
        <5>1. CASE j = new
          BY <5>1, <3>1, <1>1, <1>3 DEF Within
        <5>2. CASE j # new
          <6>1. j \in 1..new <=> j \in 1..Len(ad)
            BY <5>2, <1>3
          <6>2. QED
            BY <6>1, <3>1, <1>3 DEF Within
        <5>3. QED
          BY <5>1, <5>2
      <4>2. QED
        BY <4>1
    <3>3. QED
      BY <3>1, <3>2 DEF Bounded
  <2>3. QED
    BY <2>1, <2>2
<1>11. QED
  BY <1>3, <1>9, <1>10 DEF Bounded

(* The clock moves on, or a refusal forgets what is too old.               *)
LEMMA RateKept ==
  ASSUME RateTypes, NEW ip \in Ips, Remembered(ip), Bounded(ip),
         UNCHANGED admitted, now' \in Nat, now' >= now,
         recent'[ip] = recent[ip] \/ (recent'[ip] = Recent(ip) /\ now' = now)
  PROVE  Remembered(ip)' /\ Bounded(ip)'
<1> DEFINE ad == admitted[ip]
<1>1. /\ now \in Nat /\ Window \in Nat
      /\ \A n \in 1..Len(ad) : ad[n] \in Nat
  BY AdmissionAssumption DEF RateTypes
<1>2. Bounded(ip)'
  BY DEF Bounded, Within
<1>3. recent'[ip] \subseteq recent[ip]
  BY DEF Recent
<1>4. ASSUME NEW n \in 1..Len(ad) PROVE ad[n] <= now'
  BY <1>1 DEF Remembered
<1>5. ASSUME NEW n \in 1..Len(ad), n \notin recent'[ip]
      PROVE  now' - ad[n] >= Window
  <2>1. CASE n \notin recent[ip]
    BY <2>1, <1>1 DEF Remembered
  <2>2. CASE n \in recent[ip]
    BY <2>2, <1>1, <1>5 DEF Recent
  <2>3. QED
    BY <2>1, <2>2
<1>6. QED
  BY <1>2, <1>3, <1>4, <1>5 DEF Remembered

LEMMA RateAdmit ==
  ASSUME RateInv, NEW i \in Ips, Admit(i), UNCHANGED now
  PROVE  RateInv'
<1>1. RateTypes
  BY DEF RateInv
<1>2. RateTypes'
  <2>1. admitted[i] \in Seq(Nat) /\ now \in Nat /\ Len(admitted[i]) \in Nat
    BY <1>1 DEF RateTypes
  <2>2. admitted' \in [Ips -> Seq(Nat)]
    BY <1>1, <2>1 DEF RateTypes, Admit
  <2>3. Recent(i) \cup {Len(admitted[i]) + 1} \in SUBSET Nat
    BY <1>1, <2>1 DEF RateTypes, Recent
  <2>4. recent' \in [Ips -> SUBSET Nat]
    BY <1>1, <2>3 DEF RateTypes, Admit
  <2>5. QED
    BY <1>1, <2>2, <2>4 DEF RateTypes
<1>3. ASSUME CpsLimit # NoLimit, NEW ip \in Ips PROVE Remembered(ip)' /\ Bounded(ip)'
  <2>1. Remembered(ip) /\ Bounded(ip)
    BY <1>3 DEF RateInv
  <2>2. CASE ip = i
    BY <1>1, <1>3, <2>1, <2>2, AdmitBounded
  <2>3. CASE ip # i
    BY <1>1, <2>1, <2>3 DEF Admit, RateTypes, Remembered, Bounded, Within
  <2>4. QED
    BY <2>2, <2>3
<1>4. QED
  BY <1>2, <1>3 DEF RateInv

LEMMA RateRefuse ==
  ASSUME RateInv, NEW i \in Ips, Refuse(i), UNCHANGED now
  PROVE  RateInv'
<1>1. RateTypes
  BY DEF RateInv
<1>2. /\ admitted' = admitted
      /\ recent' \in [Ips -> SUBSET Nat]
      /\ \A ip \in Ips : recent'[ip] = recent[ip] \/ recent'[ip] = Recent(ip)
  <2>1. Recent(i) \in SUBSET Nat
    BY <1>1 DEF RateTypes, Recent
  <2>2. QED
    BY <1>1, <2>1 DEF RateTypes, Refuse
<1>3. RateTypes'
  BY <1>1, <1>2 DEF RateTypes
<1>4. now' \in Nat /\ now' >= now
  BY <1>1 DEF RateTypes
<1>5. ASSUME CpsLimit # NoLimit, NEW ip \in Ips PROVE Remembered(ip)' /\ Bounded(ip)'
  BY <1>1, <1>2, <1>4, <1>5, RateKept DEF RateInv
<1>6. QED
  BY <1>3, <1>5 DEF RateInv

LEMMA RateStep == ASSUME RateInv, [Next]_vars PROVE RateInv'
<1>1. ASSUME NEW c \in Conns, AdmitTcp(c) PROVE RateInv'
  BY <1>1, IpTypes, RateAdmit DEF AdmitTcp
<1>2. ASSUME NEW p \in Packets, AdmitUdp(p) PROVE RateInv'
  BY <1>2, IpTypes, RateAdmit DEF AdmitUdp
<1>3. ASSUME NEW c \in Conns, RefuseTcp(c) PROVE RateInv'
  BY <1>3, IpTypes, RateRefuse DEF RefuseTcp
<1>4. ASSUME NEW p \in Packets, RefuseUdp(p) PROVE RateInv'
  BY <1>4, IpTypes, RateRefuse DEF RefuseUdp
<1>5. ASSUME UNCHANGED <<now, recent, admitted>> PROVE RateInv'
  BY <1>5 DEF RateInv, RateTypes, Remembered, Bounded, Within
<1>6. ASSUME NEW c \in Conns,
             \/ AdmitUnchecked(c) \/ Optimize(c) \/ RelaySucceeds(c)
             \/ RelayPanics(c) \/ CloseTcp(c) \/ RelayFails(c)
      PROVE  RateInv'
  BY <1>5, <1>6
  DEF AdmitUnchecked, Optimize, RelaySucceeds, RelayPanics, CloseTcp, RelayFails
<1>7. ASSUME NEW p \in Packets, \/ ForwardInSession(p) \/ ForwardInNewSession(p)
                                \/ RelayStops(p) \/ RelayRemoves(p)
      PROVE  RateInv'
  BY <1>5, <1>7 DEF ForwardInSession, ForwardInNewSession, RelayStops, RelayRemoves
<1>8. CASE Tick
  <2>1. RateTypes
    BY DEF RateInv
  <2>2. /\ now' \in Nat /\ now' >= now
        /\ UNCHANGED admitted /\ UNCHANGED recent
    BY <1>8, <2>1 DEF Tick, RateTypes
  <2>3. ASSUME CpsLimit # NoLimit, NEW ip \in Ips PROVE Remembered(ip)' /\ Bounded(ip)'
    BY <2>1, <2>2, <2>3, RateKept DEF RateInv
  <2>4. QED
    BY <2>1, <2>2, <2>3 DEF RateInv, RateTypes
<1>9. CASE UNCHANGED vars
  BY <1>5, <1>9
<1>10. QED
  BY <1>1, <1>2, <1>3, <1>4, <1>6, <1>7, <1>8, <1>9 DEF Next

LEMMA RateInvariant == Spec => []RateInv
<1>1. Init => RateInv
  <2> SUFFICES ASSUME Init PROVE RateInv
    OBVIOUS
  <2>1. RateTypes
    BY DEF Init, RateTypes
  <2>2. ASSUME NEW ip \in Ips PROVE Remembered(ip) /\ Bounded(ip)
    BY DEF Init, Remembered, Bounded
  <2>3. QED
    BY <2>1, <2>2 DEF RateInv
<1>2. QED
  BY <1>1, RateStep, PTL DEF Spec

(***************************************************************************)
(* Within any second at most cps_limit connections and packets of one IP   *)
(* are admitted, although recent_connections is pruned by admissions and   *)
(* refusals alike and TCP and UDP share it (check_security 195-211).       *)
(***************************************************************************)
THEOREM RateKeptEverywhere == Spec => []RateLimit
<1>1. RateInv => RateLimit
  BY DEF RateInv, Bounded, Within, RateLimit
<1>2. QED
  BY <1>1, RateInvariant, PTL

----------------------------------------------------------------------------
(* The handler's counters: active_connections is exact but for the         *)
(* connections that fail or panic, which are never taken off it.           *)
CountedConns ==
  {c \in Conns : pc[c] \in {"relay", "leaked", "closing", "failed"}}

StatsTyped ==
  /\ stats \in [total : Nat, active : Nat, successful : Nat, failed : Nat]
  /\ stats.active = Cardinality(CountedConns)

LEMMA CountedFinite ==
  IsFiniteSet(CountedConns) /\ Cardinality(CountedConns) \in Nat
<1>1. CountedConns \subseteq Conns
  BY DEF CountedConns
<1>2. QED
  BY <1>1, FS_Subset, FS_CardinalityType, AdmissionAssumption

LEMMA CountedMoves ==
  ASSUME SlotTypes, NEW c \in Conns, NEW w, pc' = [pc EXCEPT ![c] = w]
  PROVE  CountedConns' = IF w \in {"relay", "leaked", "closing", "failed"}
                         THEN CountedConns \cup {c} ELSE CountedConns \ {c}
BY DEF SlotTypes, CountedConns

LEMMA StatsStep ==
  ASSUME SlotTypes, StatsTyped, [Next]_vars PROVE StatsTyped'
<1> USE DEF StatsTyped
<1>1. ASSUME NEW c \in Conns, AdmitTcp(c) \/ RefuseTcp(c) \/ AdmitUnchecked(c)
      PROVE  StatsTyped'
  <2>1. PICK w \in {"admitted", "refused"} : pc' = [pc EXCEPT ![c] = w]
    BY <1>1 DEF AdmitTcp, RefuseTcp, AdmitUnchecked
  <2>2. pc[c] = "new" /\ UNCHANGED stats
    BY <1>1 DEF AdmitTcp, RefuseTcp, AdmitUnchecked
  <2>3. c \notin CountedConns
    BY <2>2 DEF CountedConns
  <2>4. CountedConns' = CountedConns \ {c}
    BY <2>1, CountedMoves
  <2>5. QED
    BY <2>2, <2>3, <2>4
<1>2. ASSUME NEW c \in Conns, Optimize(c) PROVE StatsTyped'
  <2>1. PICK w \in {"relay", "leaked"} : pc' = [pc EXCEPT ![c] = w]
    BY <1>2 DEF Optimize
  <2>2. c \notin CountedConns
    BY <1>2 DEF Optimize, CountedConns
  <2>3. CountedConns' = CountedConns \cup {c}
    BY <2>1, CountedMoves
  <2>4. Cardinality(CountedConns') = Cardinality(CountedConns) + 1
    BY <2>2, <2>3, CountedFinite, FS_AddElement
  <2>5. stats \in [total : Nat, active : Nat, successful : Nat, failed : Nat]
    OBVIOUS
  <2>6. stats' = [total |-> stats.total + 1, active |-> stats.active + 1,
                  successful |-> stats.successful, failed |-> stats.failed]
    BY <1>2, <2>5 DEF Optimize, Counted
  <2>7. /\ stats' \in [total : Nat, active : Nat, successful : Nat, failed : Nat]
        /\ stats'.active = stats.active + 1
    <3>1. /\ stats.total \in Nat /\ stats.active \in Nat
          /\ stats.successful \in Nat /\ stats.failed \in Nat
      BY <2>5
    <3>2. QED
      BY <2>6, <3>1
  <2>8. QED
    BY <2>4, <2>7
<1>3. ASSUME NEW c \in Conns, RelaySucceeds(c) \/ RelayPanics(c) \/ RelayFails(c)
      PROVE  StatsTyped'
  <2>1. PICK w \in {"closing", "leaked", "failed"} : pc' = [pc EXCEPT ![c] = w]
    BY <1>3 DEF RelaySucceeds, RelayPanics, RelayFails
  <2>2. c \in CountedConns
    BY <1>3 DEF RelaySucceeds, RelayPanics, RelayFails, CountedConns
  <2>3. CountedConns' = CountedConns
    <3>1. CountedConns' = CountedConns \cup {c}
      BY <2>1, CountedMoves
    <3>2. QED
      BY <2>2, <3>1
  <2>4. \/ stats' = stats
        \/ stats' = [stats EXCEPT !.successful = @ + 1]
        \/ stats' = [stats EXCEPT !.failed = @ + 1]
    BY <1>3 DEF RelaySucceeds, RelayPanics, RelayFails
  <2>5. QED
    BY <2>3, <2>4
<1>4. ASSUME NEW c \in Conns, CloseTcp(c) PROVE StatsTyped'
  <2>1. c \in CountedConns /\ pc' = [pc EXCEPT ![c] = "closed"]
    BY <1>4 DEF CloseTcp, CountedConns
  <2>2. CountedConns' = CountedConns \ {c}
    BY <2>1, CountedMoves
  <2>3. Cardinality(CountedConns') = Cardinality(CountedConns) - 1
    BY <2>1, <2>2, CountedFinite, FS_RemoveElement
  <2>4. Cardinality(CountedConns') \in Nat
    BY <2>2, CountedFinite, FS_RemoveElement, FS_CardinalityType
  <2>5. stats' = [stats EXCEPT !.active = @ - 1]
    BY <1>4 DEF CloseTcp
  <2>6. QED
    BY <2>3, <2>4, <2>5, CountedFinite
<1>5. ASSUME UNCHANGED <<pc, stats>> PROVE StatsTyped'
  BY <1>5 DEF CountedConns
<1>6. ASSUME NEW p \in Packets,
             \/ AdmitUdp(p) \/ RefuseUdp(p) \/ ForwardInSession(p)
             \/ ForwardInNewSession(p) \/ RelayStops(p) \/ RelayRemoves(p)
      PROVE  StatsTyped'
  BY <1>5, <1>6 DEF AdmitUdp, RefuseUdp, ForwardInSession, ForwardInNewSession,
                    RelayStops, RelayRemoves
<1>7. CASE Tick \/ UNCHANGED vars
  BY <1>5, <1>7 DEF Tick
<1>8. QED
  BY <1>1, <1>2, <1>3, <1>4, <1>6, <1>7 DEF Next

(***************************************************************************)
(* Every variable keeps its type: no counter of the handler ever goes      *)
(* below zero, although a failed relay is not taken off active_connections *)
(* and the decrement does not saturate (handle_connection 67-117).         *)
(***************************************************************************)
THEOREM AdmissionTypes == Spec => []TypeOK
<1>1. Init => StatsTyped
  <2>1. Init => CountedConns = {}
    BY DEF Init, CountedConns
  <2>2. Init => /\ stats \in [total : Nat, active : Nat, successful : Nat, failed : Nat]
                /\ stats.active = 0
    BY DEF Init
  <2>3. QED
    BY <2>1, <2>2, FS_EmptySet DEF StatsTyped
<1>2. SlotInv => SlotTypes
  BY DEF SlotInv
<1>3. Spec => []StatsTyped
  BY <1>1, <1>2, SlotInvariant, StatsStep, PTL DEF Spec
<1>4. IInv /\ SlotInv /\ RateInv /\ StatsTyped => TypeOK
  BY DEF IInv, SessionTypes, SlotInv, SlotTypes, RateInv, RateTypes, StatsTyped, TypeOK
<1>5. Init => IInv
  BY DEF Init, IInv, SessionTypes, UnforwardedHasNoRelay, Owner
<1>6. Spec => []IInv
  BY <1>5, OwnerStep, PTL DEF Spec
<1>7. QED
  BY <1>3, <1>4, <1>6, SlotInvariant, RateInvariant, PTL
============================================================================
