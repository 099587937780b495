------------------------ MODULE ReverseServerProofs ------------------------
(***************************************************************************)
(* Proofs about ReverseServer, for every set of connections, ports and     *)
(* addresses and every value of the bounds.                                *)
(*                                                                         *)
(* The argument: the handles a handler collects are exactly the listener   *)
(* tasks it spawned (HandleInv); until the session is inserted they belong *)
(* to the handler alone and nobody aborts them; afterwards only the two    *)
(* places that remove the session from the map abort them, in the same     *)
(* locked section.                                                         *)
(***************************************************************************)
EXTENDS ReverseServer, TLAPS

(* Where the handler is decides what its local variables hold.             *)
SetupInv ==
  \A c \in Conns :
    /\ pc[c] \in {"none", "hello"} => handles[c] = {} /\ next[c] = 1
    /\ pc[c] = "bindUdp" => next[c] <= Len(proxies[c])
    /\ pc[c] = "opening" => hand[c] \in Listeners

(* The handles a handler collected are its own listeners; every task that  *)
(* was spawned or aborted is among them; until the session is inserted     *)
(* they all run and nobody has aborted one.                                *)
HandleInv ==
  /\ \A c \in Conns : \A l \in handles[c] : ConnOf(l) = c
  /\ \A l \in Listeners :
       lstate[l] # "none" \/ l \in aborted => l \in handles[ConnOf(l)]
  /\ \A c \in Conns : pc[c] \in {"none", "hello", "bindTcp", "bindUdp"} =>
       \A l \in handles[c] : Running(l) /\ l \notin aborted

(* A step spawns at most the listener new, for handler c, and stops none.  *)
SpawnsAtMost(c, new) ==
  /\ \A d \in Conns :
       /\ handles[d] \subseteq handles'[d]
       /\ \A l \in handles'[d] \ handles[d] : d = c /\ l = new /\ Running(new)'
  /\ \A l \in Listeners :
       /\ lstate'[l] # lstate[l] => l = new /\ new \in handles'[c]
       /\ Running(l) => Running(l)'
       /\ Running(l)' => Running(l) \/ l \in handles'[c]

(* The inductive invariant.                                                *)
IInv ==
  /\ TypeOK
  /\ SetupInv
  /\ HandleInv
  /\ NoGhostSession
  /\ RegisteredListenersAlive

USE DEF vars, handlerVars, sessionVars, requestVars

(* A listener's name: its connection, and how the binding loop builds it.  *)
LEMMA ListenerNames ==
  /\ \A l \in Listeners : ConnOf(l) \in Conns
  /\ \A c \in Conns, i \in Idx, k \in Kinds :
       <<c, i, k>> \in Listeners /\ ConnOf(<<c, i, k>>) = c
BY DEF Listeners, ConnOf

(* The position of the binding loop while it is within the list.           *)
LEMMA NextEntry ==
  ASSUME NEW n \in 1..(MaxProxies + 1), NEW k \in Nat, n <= k, k <= MaxProxies
  PROVE  n <= MaxProxies /\ n + 1 \in 1..(MaxProxies + 1)
BY ServerAssumption

(* Adding a spawned listener to a handler's handles keeps their type.      *)
LEMMA Collected ==
  ASSUME NEW H \in [Conns -> SUBSET Listeners], NEW c \in Conns,
         NEW l \in Listeners
  PROVE  [H EXCEPT ![c] = H[c] \cup {l}] \in [Conns -> SUBSET Listeners]
<1>1. H[c] \cup {l} \in SUBSET Listeners
  OBVIOUS
<1>2. QED
  BY <1>1

(* Counting one more at one point keeps a counter's type.                  *)
LEMMA Incremented ==
  ASSUME NEW S, NEW f \in [S -> Nat], NEW x \in S
  PROVE  [f EXCEPT ![x] = @ + 1] \in [S -> Nat]
OBVIOUS

(* Every step keeps the types.                                             *)
LEMMA TypeStep == IInv /\ [Next]_vars => TypeOK'
<1> SUFFICES ASSUME IInv, [Next]_vars PROVE TypeOK'
  OBVIOUS
<1> USE ServerAssumption DEF IInv, TypeOK, HandlerStates, Statuses
<1>1. ASSUME NEW c \in Conns, AcceptControl(c) PROVE TypeOK'
  BY <1>1 DEF AcceptControl
<1>2. ASSUME NEW c \in Conns, PeerGone(c) PROVE TypeOK'
  BY <1>2 DEF PeerGone
<1>3. ASSUME NEW c \in Conns, HelloLost(c) PROVE TypeOK'
  BY <1>3 DEF HelloLost
<1>4. ASSUME NEW c \in Conns, BindTcp(c) PROVE TypeOK'
  <2> DEFINE new == <<c, next[c], "tcp">>
  <2>1. next[c] <= MaxProxies /\ next[c] + 1 \in 1..(MaxProxies + 1)
    <3>1. Len(proxies[c]) <= MaxProxies /\ next[c] \in 1..(MaxProxies + 1)
      OBVIOUS
    <3>2. next[c] <= Len(proxies[c]) /\ Len(proxies[c]) \in Nat
      BY <1>4 DEF BindTcp
    <3> HIDE ServerAssumption DEF IInv, TypeOK
    <3>3. QED
      BY <3>1, <3>2, NextEntry
  <2>2. new \in Listeners
    BY <2>1 DEF Listeners, Idx, Kinds
  <2>3. lstate' \in [Listeners -> {"none", "accept", "send", "closed"}]
    BY <1>4, <2>2 DEF BindTcp, Spawn
  <2>4. handles' \in [Conns -> SUBSET Listeners]
    <3>1. \/ handles' = handles
          \/ handles' = [handles EXCEPT ![c] = handles[c] \cup {new}]
      BY <1>4 DEF BindTcp, Spawn
    <3>2. handles \in [Conns -> SUBSET Listeners]
      OBVIOUS
    <3> HIDE ServerAssumption DEF IInv, TypeOK, new
    <3>3. QED
      BY <2>2, <3>1, <3>2, Collected
  <2>5. next' \in [Conns -> 1..(MaxProxies + 1)]
    BY <1>4, <2>1 DEF BindTcp
  <2>6. QED
    BY <1>4, <2>3, <2>4, <2>5 DEF BindTcp
<1>5. ASSUME NEW c \in Conns, BindUdp(c) PROVE TypeOK'
  <2> DEFINE new == <<c, next[c], "udp">>
  <2>1. next[c] <= MaxProxies /\ next[c] + 1 \in 1..(MaxProxies + 1)
    <3>1. Len(proxies[c]) <= MaxProxies /\ next[c] \in 1..(MaxProxies + 1)
      OBVIOUS
    <3>2. next[c] <= Len(proxies[c]) /\ Len(proxies[c]) \in Nat
      BY <1>5 DEF BindUdp, SetupInv
    <3> HIDE ServerAssumption DEF IInv, TypeOK
    <3>3. QED
      BY <3>1, <3>2, NextEntry
  <2>2. new \in Listeners
    BY <2>1 DEF Listeners, Idx, Kinds
  <2>3. lstate' \in [Listeners -> {"none", "accept", "send", "closed"}]
    BY <1>5, <2>2 DEF BindUdp, Spawn
  <2>4. handles' \in [Conns -> SUBSET Listeners]
    <3>1. \/ handles' = handles
          \/ handles' = [handles EXCEPT ![c] = handles[c] \cup {new}]
      BY <1>5 DEF BindUdp, Spawn
    <3>2. handles \in [Conns -> SUBSET Listeners]
      OBVIOUS
    <3> HIDE ServerAssumption DEF IInv, TypeOK, new
    <3>3. QED
      BY <2>2, <3>1, <3>2, Collected
  <2>5. next' \in [Conns -> 1..(MaxProxies + 1)]
    BY <1>5, <2>1 DEF BindUdp
  <2>6. QED
    BY <1>5, <2>3, <2>4, <2>5 DEF BindUdp
<1>6. ASSUME NEW c \in Conns, InsertSession(c) PROVE TypeOK'
  BY <1>6 DEF InsertSession
<1>7. ASSUME NEW c \in Conns, TakeRequest(c) PROVE TypeOK'
  <2>1. Head(queue[c]) \in Listeners /\ Tail(queue[c]) \in Seq(Listeners)
    BY <1>7 DEF TakeRequest
  <2>2. QED
    BY <1>7, <2>1 DEF TakeRequest
<1>8. ASSUME NEW c \in Conns, OpenStream(c) PROVE TypeOK'
  <2>1. tunnels' \in [Listeners -> Nat]
    <3>1. hand[c] \in Listeners /\ tunnels \in [Listeners -> Nat]
      BY <1>8 DEF OpenStream, SetupInv
    <3> HIDE ServerAssumption DEF IInv, TypeOK
    <3>2. QED
      BY <1>8, <3>1, Incremented DEF OpenStream
  <2>2. unacked' \in [Conns -> Nat]
    <3>1. unacked \in [Conns -> Nat]
      OBVIOUS
    <3> HIDE ServerAssumption DEF IInv, TypeOK
    <3>2. QED
      BY <1>8, <3>1, Incremented DEF OpenStream
  <2>3. QED
    BY <1>8, <2>1, <2>2 DEF OpenStream
<1>9. ASSUME NEW c \in Conns, OpenStreamFails(c) PROVE TypeOK'
  <2>1. peer' \in [Conns -> BOOLEAN]
    BY <1>9 DEF OpenStreamFails
  <2>2. QED
    BY <1>9, <2>1 DEF OpenStreamFails
<1>10. ASSUME NEW c \in Conns, DriveConnection(c) PROVE TypeOK'
  <2>1. unacked' \in [Conns -> Nat]
    BY <1>10 DEF DriveConnection, AckPending
  <2>2. QED
    BY <1>10, <2>1 DEF DriveConnection
<1>11. ASSUME NEW c \in Conns, NoticePeerGone(c) PROVE TypeOK'
  BY <1>11 DEF NoticePeerGone
<1>12. ASSUME NEW c \in Conns, EndHandler(c) PROVE TypeOK'
  <2>1. SessionHandles(c) \subseteq Listeners
    BY DEF SessionHandles
  <2>2. aborted' \subseteq Listeners
    BY <1>12, <2>1 DEF EndHandler
  <2>3. clients' \in [ClientIds -> Conns \cup {NoConn}]
    BY <1>12 DEF EndHandler, SessionRemoved
  <2>4. queue' \in [Conns -> Seq(Listeners)] /\ unacked' \in [Conns -> Nat]
    BY <1>12 DEF EndHandler
  <2>5. QED
    BY <1>12, <2>2, <2>3, <2>4 DEF EndHandler
<1>13. ASSUME NEW c \in Conns, NEW h \in Hellos, RefuseHello(c, h)
      PROVE TypeOK'
  <2>1. Verdict(h) \in Statuses
    BY DEF Verdict
  <2>2. QED
    BY <1>13, <2>1 DEF RefuseHello
<1>14. ASSUME NEW c \in Conns, NEW h \in Hellos, AcceptHello(c, h)
      PROVE TypeOK'
  <2>1. proxies' \in [Conns -> Seq(Ports)]
    BY <1>14 DEF AcceptHello
  <2>2. \A d \in Conns : Len(proxies'[d]) <= MaxProxies
    BY <1>14 DEF AcceptHello
  <2>3. QED
    BY <1>14, <2>1, <2>2 DEF AcceptHello
<1>15. ASSUME NEW l \in Listeners, ListenerAccepts(l) PROVE TypeOK'
  <2>1. lstate' \in [Listeners -> {"none", "accept", "send", "closed"}]
    BY <1>15 DEF ListenerAccepts
  <2>2. accepted' \in [Conns -> Nat]
    <3>1. ConnOf(l) \in Conns /\ accepted \in [Conns -> Nat]
      BY ListenerNames
    <3> HIDE ServerAssumption DEF IInv, TypeOK
    <3>2. QED
      BY <1>15, <3>1, Incremented DEF ListenerAccepts
  <2>3. QED
    BY <1>15, <2>1, <2>2 DEF ListenerAccepts
<1>16. ASSUME NEW l \in Listeners, ListenerEnqueues(l) PROVE TypeOK'
  <2>1. Append(queue[ConnOf(l)], l) \in Seq(Listeners)
    BY <1>16, ListenerNames DEF ListenerEnqueues
  <2>2. QED
    BY <1>16, <2>1, ListenerNames DEF ListenerEnqueues
<1>17. ASSUME NEW l \in Listeners, ListenerSendFails(l) PROVE TypeOK'
  BY <1>17 DEF ListenerSendFails
<1>18. ASSUME NEW l \in Listeners, ListenerStops(l) PROVE TypeOK'
  BY <1>18 DEF ListenerStops
<1>19. ASSUME NEW l \in Listeners, EndTunnel(l) PROVE TypeOK'
  BY <1>19 DEF EndTunnel
<1>20. CASE CleanupSweep
  <2>1. UNION {handles[clients[a]] : a \in Expired} \subseteq Listeners
    BY DEF Expired
  <2>2. QED
    BY <1>20, <2>1 DEF CleanupSweep
<1>21. CASE Tick
  BY <1>21 DEF Tick
<1>22. CASE Shutdown
  BY <1>22 DEF Shutdown
<1>23. CASE DropServer
  BY <1>23 DEF DropServer
<1>24. CASE UNCHANGED vars
  BY <1>24
<1> QED
  BY <1>1, <1>2, <1>3, <1>4, <1>5, <1>6, <1>7, <1>8, <1>9, <1>10, <1>11,
     <1>12, <1>13, <1>14, <1>15, <1>16, <1>17, <1>18, <1>19, <1>20, <1>21,
     <1>22, <1>23, <1>24  DEF Next, Handler, Listener

(* The listener about to be spawned: its name, and that nobody aborted it. *)
LEMMA FreshListener ==
  ASSUME IInv, NEW c \in Conns, NEW k \in Kinds,
         next[c] <= Len(proxies[c]), pc[c] \in {"bindTcp", "bindUdp"}
  PROVE  /\ <<c, next[c], k>> \in Listeners
         /\ ConnOf(<<c, next[c], k>>) = c
         /\ <<c, next[c], k>> \notin aborted
<1>1. next[c] \in 1..MaxProxies
  <2>1. /\ Len(proxies[c]) <= MaxProxies
        /\ Len(proxies[c]) \in Nat
        /\ next[c] \in 1..(MaxProxies + 1)
    BY DEF IInv, TypeOK
  <2>2. QED
    BY <2>1, ServerAssumption
<1>2. <<c, next[c], k>> \in Listeners /\ ConnOf(<<c, next[c], k>>) = c
  BY <1>1 DEF Listeners, Idx, ConnOf
<1>3. QED
  BY <1>2 DEF IInv, HandleInv

(* What spawning a listener does to the tasks and to the handles.          *)
LEMMA SpawnEffect ==
  ASSUME NEW c \in Conns, NEW new \in Listeners,
         handles \in [Conns -> SUBSET Listeners],
         lstate \in [Listeners -> {"none", "accept", "send", "closed"}],
         \/ lstate' = lstate /\ handles' = handles
         \/ /\ lstate' = [lstate EXCEPT ![new] = "accept"]
            /\ handles' = [handles EXCEPT ![c] = handles[c] \cup {new}]
  PROVE  SpawnsAtMost(c, new)
<1>1. CASE lstate' = lstate /\ handles' = handles
  BY <1>1 DEF SpawnsAtMost, Running
<1>2. CASE /\ lstate' = [lstate EXCEPT ![new] = "accept"]
           /\ handles' = [handles EXCEPT ![c] = handles[c] \cup {new}]
  <2>1. \A d \in Conns :
          handles'[d] = IF d = c THEN handles[c] \cup {new} ELSE handles[d]
    BY <1>2
  <2>2. \A l \in Listeners : lstate'[l] = IF l = new THEN "accept" ELSE lstate[l]
    BY <1>2
  <2>3. QED
    BY <2>1, <2>2 DEF SpawnsAtMost, Running
<1>3. QED
  BY <1>1, <1>2

(* One turn of the binding loop spawns at most one listener, a new one of  *)
(* this handler.                                                           *)
LEMMA BindEffect ==
  ASSUME IInv, NEW c \in Conns, BindTcp(c) \/ BindUdp(c)
  PROVE  /\ aborted' = aborted /\ clients' = clients
         /\ Binding(c) /\ Binding(c)'
         /\ \A d \in Conns \ {c} : pc'[d] = pc[d]
         /\ \E new \in Listeners :
              ConnOf(new) = c /\ new \notin aborted /\ SpawnsAtMost(c, new)
<1>1. /\ handles \in [Conns -> SUBSET Listeners]
      /\ lstate \in [Listeners -> {"none", "accept", "send", "closed"}]
      /\ pc \in [Conns -> HandlerStates]
  BY DEF IInv, TypeOK
<1>2. /\ aborted' = aborted /\ clients' = clients
      /\ Binding(c) /\ Binding(c)'
      /\ \A d \in Conns \ {c} : pc'[d] = pc[d]
  BY <1>1 DEF BindTcp, BindUdp, Binding
<1>3. \E k \in Kinds :
        /\ next[c] <= Len(proxies[c])
        /\ \/ lstate' = lstate /\ handles' = handles
           \/ /\ lstate' = [lstate EXCEPT ![<<c, next[c], k>>] = "accept"]
              /\ handles' = [handles EXCEPT ![c] = handles[c] \cup {<<c, next[c], k>>}]
  <2>1. CASE BindTcp(c)
    BY <2>1 DEF BindTcp, Spawn, Kinds
  <2>2. CASE BindUdp(c)
    BY <2>2 DEF BindUdp, Spawn, Kinds, IInv, SetupInv
  <2>3. QED
    BY <2>1, <2>2
<1>4. \E new \in Listeners :
        /\ ConnOf(new) = c /\ new \notin aborted
        /\ \/ lstate' = lstate /\ handles' = handles
           \/ /\ lstate' = [lstate EXCEPT ![new] = "accept"]
              /\ handles' = [handles EXCEPT ![c] = handles[c] \cup {new}]
  BY <1>2, <1>3, FreshListener DEF Binding
<1>5. PICK new \in Listeners :
        /\ ConnOf(new) = c /\ new \notin aborted
        /\ \/ lstate' = lstate /\ handles' = handles
           \/ /\ lstate' = [lstate EXCEPT ![new] = "accept"]
              /\ handles' = [handles EXCEPT ![c] = handles[c] \cup {new}]
  BY <1>4
<1>6. SpawnsAtMost(c, new)
  BY <1>1, <1>5, SpawnEffect
<1>7. QED
  BY <1>2, <1>5, <1>6

(* Every step keeps the handler's locals in line with its position.        *)
LEMMA SetupStep == IInv /\ [Next]_vars => SetupInv'
<1> SUFFICES ASSUME IInv, [Next]_vars PROVE SetupInv'
  OBVIOUS
<1> USE ServerAssumption DEF IInv, SetupInv
<1>1. ASSUME NEW c \in Conns, AcceptControl(c) PROVE SetupInv'
  BY <1>1 DEF AcceptControl
<1>2. ASSUME NEW c \in Conns, PeerGone(c) PROVE SetupInv'
  BY <1>2 DEF PeerGone
<1>3. ASSUME NEW c \in Conns, HelloLost(c) PROVE SetupInv'
  BY <1>3 DEF HelloLost
<1>4. ASSUME NEW c \in Conns, BindTcp(c) PROVE SetupInv'
  <2>1. /\ pc'[c] \in {"bindTcp", "bindUdp"}
        /\ pc'[c] = "bindUdp" => next'[c] <= Len(proxies[c])
    BY <1>4 DEF BindTcp, TypeOK, HandlerStates
  <2>2. \A d \in Conns \ {c} : /\ pc'[d] = pc[d] /\ next'[d] = next[d]
                             /\ handles'[d] = handles[d]
    BY <1>4 DEF BindTcp, Spawn, TypeOK
  <2>3. proxies' = proxies /\ hand' = hand
    BY <1>4 DEF BindTcp
  <2>4. QED
    BY <2>1, <2>2, <2>3
<1>5. ASSUME NEW c \in Conns, BindUdp(c) PROVE SetupInv'
  BY <1>5 DEF BindUdp, Spawn, TypeOK, HandlerStates
<1>6. ASSUME NEW c \in Conns, InsertSession(c) PROVE SetupInv'
  BY <1>6 DEF InsertSession
<1>7. ASSUME NEW c \in Conns, TakeRequest(c) PROVE SetupInv'
  <2>1. Head(queue[c]) \in Listeners
    BY <1>7 DEF TakeRequest, TypeOK
  <2>2. QED
    BY <1>7, <2>1 DEF TakeRequest, TypeOK
<1>8. ASSUME NEW c \in Conns, OpenStream(c) PROVE SetupInv'
  BY <1>8 DEF OpenStream, TypeOK
<1>9. ASSUME NEW c \in Conns, OpenStreamFails(c) PROVE SetupInv'
  BY <1>9 DEF OpenStreamFails, TypeOK
<1>10. ASSUME NEW c \in Conns, DriveConnection(c) PROVE SetupInv'
  BY <1>10 DEF DriveConnection, AckPending
<1>11. ASSUME NEW c \in Conns, NoticePeerGone(c) PROVE SetupInv'
  BY <1>11 DEF NoticePeerGone
<1>12. ASSUME NEW c \in Conns, EndHandler(c) PROVE SetupInv'
  BY <1>12 DEF EndHandler, SessionRemoved, SessionHandles
<1>13. ASSUME NEW c \in Conns, NEW h \in Hellos, RefuseHello(c, h)
      PROVE SetupInv'
  BY <1>13 DEF RefuseHello
<1>14. ASSUME NEW c \in Conns, NEW h \in Hellos, AcceptHello(c, h)
      PROVE SetupInv'
  BY <1>14 DEF AcceptHello
<1>15. ASSUME NEW l \in Listeners, ListenerAccepts(l) PROVE SetupInv'
  BY <1>15 DEF ListenerAccepts
<1>16. ASSUME NEW l \in Listeners, ListenerEnqueues(l) PROVE SetupInv'
  BY <1>16 DEF ListenerEnqueues, ChannelRoom
<1>17. ASSUME NEW l \in Listeners, ListenerSendFails(l) PROVE SetupInv'
  BY <1>17 DEF ListenerSendFails
<1>18. ASSUME NEW l \in Listeners, ListenerStops(l) PROVE SetupInv'
  BY <1>18 DEF ListenerStops
<1>19. ASSUME NEW l \in Listeners, EndTunnel(l) PROVE SetupInv'
  BY <1>19 DEF EndTunnel
<1>20. CASE CleanupSweep
  BY <1>20 DEF CleanupSweep, Expired
<1>21. CASE Tick
  BY <1>21 DEF Tick
<1>22. CASE Shutdown
  BY <1>22 DEF Shutdown
<1>23. CASE DropServer
  BY <1>23 DEF DropServer
<1>24. CASE UNCHANGED vars
  BY <1>24
<1> QED
  BY <1>1, <1>2, <1>3, <1>4, <1>5, <1>6, <1>7, <1>8, <1>9, <1>10, <1>11,
     <1>12, <1>13, <1>14, <1>15, <1>16, <1>17, <1>18, <1>19, <1>20, <1>21,
     <1>22, <1>23, <1>24  DEF Next, Handler, Listener

(* Every step keeps the handles in line with the tasks.                    *)
LEMMA HandleStep == IInv /\ [Next]_vars => HandleInv'
<1> SUFFICES ASSUME IInv, [Next]_vars PROVE HandleInv'
  OBVIOUS
<1> USE ServerAssumption DEF IInv, HandleInv, Running
<1>1. ASSUME NEW c \in Conns, AcceptControl(c) PROVE HandleInv'
  BY <1>1 DEF AcceptControl
<1>2. ASSUME NEW c \in Conns, PeerGone(c) PROVE HandleInv'
  BY <1>2 DEF PeerGone
<1>3. ASSUME NEW c \in Conns, HelloLost(c) PROVE HandleInv'
  BY <1>3 DEF HelloLost
<1>4. ASSUME NEW c \in Conns, BindTcp(c) \/ BindUdp(c) PROVE HandleInv'
  <2> HIDE DEF Running, HandleInv, IInv
  <2>1. PICK new \in Listeners :
          ConnOf(new) = c /\ new \notin aborted /\ SpawnsAtMost(c, new)
    BY <1>4, BindEffect
  <2>2. /\ aborted' = aborted /\ clients' = clients
        /\ Binding(c) /\ Binding(c)'
        /\ \A d \in Conns \ {c} : pc'[d] = pc[d]
    BY <1>4, BindEffect
  <2>3. HandleInv /\ handles \in [Conns -> SUBSET Listeners]
    BY DEF IInv, TypeOK
  <2>4. (\A d \in Conns : \A l \in handles[d] : ConnOf(l) = d)'
    BY <2>1, <2>3 DEF HandleInv, SpawnsAtMost
  <2>5. (\A l \in Listeners :
            lstate[l] # "none" \/ l \in aborted => l \in handles[ConnOf(l)])'
    BY <2>1, <2>2, <2>3, ListenerNames DEF HandleInv, SpawnsAtMost
  <2>6. (\A d \in Conns : pc[d] \in {"none", "hello", "bindTcp", "bindUdp"} =>
            \A l \in handles[d] : Running(l) /\ l \notin aborted)'
    <3> SUFFICES ASSUME NEW d \in Conns, NEW l \in handles'[d],
                        pc'[d] \in {"none", "hello", "bindTcp", "bindUdp"}
                 PROVE  Running(l)' /\ l \notin aborted'
      OBVIOUS
    <3>1. CASE l \in handles[d]
      BY <3>1, <2>1, <2>2, <2>3 DEF HandleInv, Binding, SpawnsAtMost
    <3>2. CASE l \notin handles[d]
      BY <3>2, <2>1, <2>2 DEF SpawnsAtMost
    <3>3. QED
      BY <3>1, <3>2
  <2>7. QED
    BY <2>4, <2>5, <2>6 DEF HandleInv
<1>5. ASSUME NEW c \in Conns, InsertSession(c) PROVE HandleInv'
  BY <1>5 DEF InsertSession
<1>6. ASSUME NEW c \in Conns, TakeRequest(c) PROVE HandleInv'
  BY <1>6 DEF TakeRequest
<1>7. ASSUME NEW c \in Conns, OpenStream(c) PROVE HandleInv'
  BY <1>7 DEF OpenStream
<1>8. ASSUME NEW c \in Conns, OpenStreamFails(c) PROVE HandleInv'
  BY <1>8 DEF OpenStreamFails
<1>9. ASSUME NEW c \in Conns, DriveConnection(c) PROVE HandleInv'
  BY <1>9 DEF DriveConnection, AckPending
<1>10. ASSUME NEW c \in Conns, NoticePeerGone(c) PROVE HandleInv'
  BY <1>10 DEF NoticePeerGone
<1>11. ASSUME NEW c \in Conns, EndHandler(c) PROVE HandleInv'
  <2>1. \A l \in SessionHandles(c) : l \in handles[ConnOf(l)] /\ InLoop(ConnOf(l))
    BY DEF SessionHandles, NoGhostSession, TypeOK
  <2>2. QED
    BY <1>11, <2>1 DEF EndHandler, InLoop, TypeOK
<1>12. ASSUME NEW c \in Conns, NEW h \in Hellos, RefuseHello(c, h)
      PROVE HandleInv'
  BY <1>12 DEF RefuseHello
<1>13. ASSUME NEW c \in Conns, NEW h \in Hellos, AcceptHello(c, h)
      PROVE HandleInv'
  BY <1>13 DEF AcceptHello
<1>14. ASSUME NEW l \in Listeners, ListenerAccepts(l) PROVE HandleInv'
  BY <1>14 DEF ListenerAccepts
<1>15. ASSUME NEW l \in Listeners, ListenerEnqueues(l) PROVE HandleInv'
  BY <1>15 DEF ListenerEnqueues, ChannelRoom
<1>16. ASSUME NEW l \in Listeners, ListenerSendFails(l) PROVE HandleInv'
  <2>1. pc[ConnOf(l)] = "done"
    BY <1>16, ListenerNames DEF ListenerSendFails, Active, SetupInv, TypeOK
  <2>2. UNCHANGED <<handles, aborted, pc>>
    BY <1>16 DEF ListenerSendFails
  <2>3. \A m \in Listeners \ {l} : lstate'[m] = lstate[m]
    BY <1>16 DEF ListenerSendFails, TypeOK
  <2>4. lstate[l] = "send"
    BY <1>16 DEF ListenerSendFails
  <2>5. l \in handles[ConnOf(l)]
    BY <2>4
  <2>6. \A d \in Conns : pc[d] # "done" => l \notin handles[d]
    BY <2>1
  <2>7. \A d \in Conns : handles[d] \subseteq Listeners
    BY DEF TypeOK
  <2>8. QED
    BY <2>2, <2>3, <2>5, <2>6, <2>7
<1>17. ASSUME NEW l \in Listeners, ListenerStops(l) PROVE HandleInv'
  BY <1>17 DEF ListenerStops
<1>18. ASSUME NEW l \in Listeners, EndTunnel(l) PROVE HandleInv'
  BY <1>18 DEF EndTunnel
<1>19. CASE CleanupSweep
  <2>1. \A l \in UNION {handles[clients[a]] : a \in Expired} :
          l \in handles[ConnOf(l)] /\ InLoop(ConnOf(l))
    BY DEF Expired, NoGhostSession, TypeOK
  <2>2. QED
    BY <1>19, <2>1 DEF CleanupSweep, InLoop, TypeOK
<1>20. CASE Tick
  BY <1>20 DEF Tick
<1>21. CASE Shutdown
  BY <1>21 DEF Shutdown
<1>22. CASE DropServer
  BY <1>22 DEF DropServer
<1>23. CASE UNCHANGED vars
  BY <1>23
<1> QED
  BY <1>1, <1>2, <1>3, <1>4, <1>5, <1>6, <1>7, <1>8, <1>9, <1>10, <1>11,
     <1>12, <1>13, <1>14, <1>15, <1>16, <1>17, <1>18, <1>19, <1>20, <1>21,
     <1>22, <1>23  DEF Next, Handler, Listener

(* Every step keeps the map free of sessions without a handler.            *)
LEMMA GhostStep == IInv /\ [Next]_vars => NoGhostSession'
<1> SUFFICES ASSUME IInv, [Next]_vars PROVE NoGhostSession'
  OBVIOUS
<1> USE ServerAssumption DEF IInv, NoGhostSession, InLoop
<1>1. ASSUME NEW c \in Conns, AcceptControl(c) PROVE NoGhostSession'
  BY <1>1 DEF AcceptControl
<1>2. ASSUME NEW c \in Conns, PeerGone(c) PROVE NoGhostSession'
  BY <1>2 DEF PeerGone
<1>3. ASSUME NEW c \in Conns, HelloLost(c) PROVE NoGhostSession'
  BY <1>3 DEF HelloLost
<1>4. ASSUME NEW c \in Conns, BindTcp(c) PROVE NoGhostSession'
  <2>1. \A a \in ClientIds : clients[a] # c
    BY <1>4 DEF BindTcp
  <2>2. QED
    <3>1. clients' = clients /\ \A d \in Conns \ {c} : pc'[d] = pc[d]
      BY <1>4 DEF BindTcp, TypeOK
    <3>2. \A a \in ClientIds : clients[a] # NoConn => clients[a] \in Conns \ {c}
      BY <2>1 DEF TypeOK
    <3>3. QED
      BY <3>1, <3>2
<1>5. ASSUME NEW c \in Conns, BindUdp(c) PROVE NoGhostSession'
  BY <1>5 DEF BindUdp, Spawn
<1>6. ASSUME NEW c \in Conns, InsertSession(c) PROVE NoGhostSession'
  <2>1. \A a \in ClientIds : clients[a] # c
    BY <1>6 DEF InsertSession
  <2>2. ClientId[c] \in ClientIds /\ pc'[c] = "serving"
    BY <1>6 DEF InsertSession, TypeOK
  <2>3. SUFFICES ASSUME NEW a \in ClientIds, clients'[a] # NoConn
                 PROVE  ClientId[clients'[a]] = a /\ InLoop(clients[a])'
    BY DEF NoGhostSession
  <2>4. CASE a = ClientId[c]
    BY <1>6, <2>2, <2>4 DEF InsertSession, TypeOK
  <2>5. CASE a # ClientId[c]
    <3>1. clients'[a] = clients[a] /\ clients[a] \in Conns \ {c}
      BY <1>6, <2>1, <2>3, <2>5 DEF InsertSession, TypeOK
    <3>2. pc'[clients[a]] = pc[clients[a]]
      BY <1>6, <3>1 DEF InsertSession, TypeOK
    <3>3. QED
      BY <2>3, <3>1, <3>2
  <2>6. QED
    BY <2>4, <2>5
<1>7. ASSUME NEW c \in Conns, TakeRequest(c) PROVE NoGhostSession'
  BY <1>7 DEF TakeRequest
<1>8. ASSUME NEW c \in Conns, OpenStream(c) PROVE NoGhostSession'
  BY <1>8 DEF OpenStream
<1>9. ASSUME NEW c \in Conns, OpenStreamFails(c) PROVE NoGhostSession'
  BY <1>9 DEF OpenStreamFails
<1>10. ASSUME NEW c \in Conns, DriveConnection(c) PROVE NoGhostSession'
  BY <1>10 DEF DriveConnection, AckPending
<1>11. ASSUME NEW c \in Conns, NoticePeerGone(c) PROVE NoGhostSession'
  BY <1>11 DEF NoticePeerGone
<1>12. ASSUME NEW c \in Conns, EndHandler(c) PROVE NoGhostSession'
  BY <1>12 DEF EndHandler, SessionRemoved, TypeOK, HandlerStates
<1>13. ASSUME NEW c \in Conns, NEW h \in Hellos, RefuseHello(c, h)
      PROVE NoGhostSession'
  BY <1>13 DEF RefuseHello
<1>14. ASSUME NEW c \in Conns, NEW h \in Hellos, AcceptHello(c, h)
      PROVE NoGhostSession'
  BY <1>14 DEF AcceptHello
<1>15. ASSUME NEW l \in Listeners, ListenerAccepts(l) PROVE NoGhostSession'
  BY <1>15 DEF ListenerAccepts
<1>16. ASSUME NEW l \in Listeners, ListenerEnqueues(l) PROVE NoGhostSession'
  BY <1>16 DEF ListenerEnqueues, ChannelRoom
<1>17. ASSUME NEW l \in Listeners, ListenerSendFails(l) PROVE NoGhostSession'
  BY <1>17 DEF ListenerSendFails
<1>18. ASSUME NEW l \in Listeners, ListenerStops(l) PROVE NoGhostSession'
  BY <1>18 DEF ListenerStops
<1>19. ASSUME NEW l \in Listeners, EndTunnel(l) PROVE NoGhostSession'
  BY <1>19 DEF EndTunnel
<1>20. CASE CleanupSweep
  BY <1>20 DEF CleanupSweep, Expired
<1>21. CASE Tick
  BY <1>21 DEF Tick
<1>22. CASE Shutdown
  BY <1>22 DEF Shutdown
<1>23. CASE DropServer
  BY <1>23 DEF DropServer
<1>24. CASE UNCHANGED vars
  BY <1>24
<1> QED
  BY <1>1, <1>2, <1>3, <1>4, <1>5, <1>6, <1>7, <1>8, <1>9, <1>10, <1>11,
     <1>12, <1>13, <1>14, <1>15, <1>16, <1>17, <1>18, <1>19, <1>20, <1>21,
     <1>22, <1>23, <1>24  DEF Next, Handler, Listener

(* Every step keeps the listeners of a registered session alive.           *)
LEMMA AliveStep == IInv /\ [Next]_vars => RegisteredListenersAlive'
<1> SUFFICES ASSUME IInv, [Next]_vars PROVE RegisteredListenersAlive'
  OBVIOUS
<1> USE ServerAssumption DEF IInv, RegisteredListenersAlive, Running
<1>1. ASSUME NEW c \in Conns, AcceptControl(c) PROVE RegisteredListenersAlive'
  BY <1>1 DEF AcceptControl
<1>2. ASSUME NEW c \in Conns, PeerGone(c) PROVE RegisteredListenersAlive'
  BY <1>2 DEF PeerGone
<1>3. ASSUME NEW c \in Conns, HelloLost(c) PROVE RegisteredListenersAlive'
  BY <1>3 DEF HelloLost
<1>4. ASSUME NEW c \in Conns, BindTcp(c) \/ BindUdp(c)
      PROVE RegisteredListenersAlive'
  <2> HIDE DEF Running
  <2>1. PICK new \in Listeners :
          ConnOf(new) = c /\ new \notin aborted /\ SpawnsAtMost(c, new)
    BY <1>4, BindEffect
  <2>2. /\ aborted' = aborted /\ clients' = clients
        /\ Binding(c) /\ Binding(c)'
        /\ \A d \in Conns \ {c} : pc'[d] = pc[d]
    BY <1>4, BindEffect
  <2>3. \A a \in ClientIds : clients[a] # c
    BY <2>2 DEF Binding, NoGhostSession, InLoop
  <2>4. ASSUME NEW a \in ClientIds, clients[a] # NoConn, NEW l \in handles'[clients[a]]
        PROVE  Running(l)' /\ l \notin aborted
    <3>1. clients[a] \in Conns \ {c}
      BY <2>3, <2>4 DEF TypeOK
    <3>2. l \in handles[clients[a]] /\ l \in Listeners
      BY <2>1, <2>4, <3>1 DEF TypeOK, SpawnsAtMost
    <3>3. Running(l) /\ l \notin aborted
      BY <2>4, <3>2
    <3>4. QED
      BY <2>1, <3>2, <3>3 DEF SpawnsAtMost
  <2>5. QED
    BY <2>2, <2>4
<1>5. ASSUME NEW c \in Conns, InsertSession(c) PROVE RegisteredListenersAlive'
  <2> HIDE DEF Running
  <2>1. \A l \in handles[c] : Running(l) /\ l \notin aborted
    BY <1>5 DEF InsertSession, HandleInv
  <2>2. UNCHANGED <<lstate, aborted, handles>>
    BY <1>5 DEF InsertSession
  <2>3. \A l : Running(l)' <=> Running(l)
    BY <2>2 DEF Running
  <2>4. \A a \in ClientIds : clients'[a] \in {c, clients[a]}
    BY <1>5 DEF InsertSession, TypeOK
  <2>5. QED
    BY <2>1, <2>2, <2>3, <2>4
<1>6. ASSUME NEW c \in Conns, TakeRequest(c) PROVE RegisteredListenersAlive'
  BY <1>6 DEF TakeRequest
<1>7. ASSUME NEW c \in Conns, OpenStream(c) PROVE RegisteredListenersAlive'
  BY <1>7 DEF OpenStream
<1>8. ASSUME NEW c \in Conns, OpenStreamFails(c)
      PROVE RegisteredListenersAlive'
  BY <1>8 DEF OpenStreamFails
<1>9. ASSUME NEW c \in Conns, DriveConnection(c)
      PROVE RegisteredListenersAlive'
  BY <1>9 DEF DriveConnection, AckPending
<1>10. ASSUME NEW c \in Conns, NoticePeerGone(c)
      PROVE RegisteredListenersAlive'
  BY <1>10 DEF NoticePeerGone
<1>11. ASSUME NEW c \in Conns, EndHandler(c) PROVE RegisteredListenersAlive'
  <2>1. \A a \in ClientIds \ {ClientId[c]} : clients[a] # NoConn =>
          \A l \in handles[clients[a]] : l \notin SessionHandles(c)
    BY DEF SessionHandles, NoGhostSession, HandleInv, TypeOK
  <2>2. QED
    BY <1>11, <2>1 DEF EndHandler, SessionRemoved, TypeOK
<1>12. ASSUME NEW c \in Conns, NEW h \in Hellos, RefuseHello(c, h)
      PROVE RegisteredListenersAlive'
  BY <1>12 DEF RefuseHello
<1>13. ASSUME NEW c \in Conns, NEW h \in Hellos, AcceptHello(c, h)
      PROVE RegisteredListenersAlive'
  BY <1>13 DEF AcceptHello
<1>14. ASSUME NEW l \in Listeners, ListenerAccepts(l)
      PROVE RegisteredListenersAlive'
  BY <1>14 DEF ListenerAccepts
<1>15. ASSUME NEW l \in Listeners, ListenerEnqueues(l)
      PROVE RegisteredListenersAlive'
  BY <1>15 DEF ListenerEnqueues, ChannelRoom
<1>16. ASSUME NEW l \in Listeners, ListenerSendFails(l)
      PROVE RegisteredListenersAlive'
  <2>1. \A a \in ClientIds : clients[a] # NoConn => l \notin handles[clients[a]]
    <3>1. ~InLoop(ConnOf(l))
      BY <1>16 DEF ListenerSendFails, Active, InLoop
    <3>2. QED
      BY <3>1 DEF NoGhostSession, HandleInv, TypeOK
  <2>2. QED
    BY <1>16, <2>1 DEF ListenerSendFails, TypeOK
<1>17. ASSUME NEW l \in Listeners, ListenerStops(l)
      PROVE RegisteredListenersAlive'
  BY <1>17 DEF ListenerStops
<1>18. ASSUME NEW l \in Listeners, EndTunnel(l) PROVE RegisteredListenersAlive'
  BY <1>18 DEF EndTunnel
<1>19. CASE CleanupSweep
  <2>1. \A a \in ClientIds \ Expired : clients[a] # NoConn =>
          \A l \in handles[clients[a]] :
             l \notin UNION {handles[clients[b]] : b \in Expired}
    BY DEF Expired, NoGhostSession, HandleInv, TypeOK
  <2>2. QED
    BY <1>19, <2>1 DEF CleanupSweep, TypeOK
<1>20. CASE Tick
  BY <1>20 DEF Tick
<1>21. CASE Shutdown
  BY <1>21 DEF Shutdown
<1>22. CASE DropServer
  BY <1>22 DEF DropServer
<1>23. CASE UNCHANGED vars
  BY <1>23
<1> QED
  BY <1>1, <1>2, <1>3, <1>4, <1>5, <1>6, <1>7, <1>8, <1>9, <1>10, <1>11,
     <1>12, <1>13, <1>14, <1>15, <1>16, <1>17, <1>18, <1>19, <1>20, <1>21,
     <1>22, <1>23  DEF Next, Handler, Listener

(***************************************************************************)
(* IInv is an invariant of the server, fair or not.                        *)
(***************************************************************************)
THEOREM InductiveInvariant == Spec => []IInv
<1>1. Init => IInv
  <2> SUFFICES ASSUME Init PROVE IInv
    OBVIOUS
  <2> USE ServerAssumption DEF Init
  <2>1. TypeOK
    BY DEF TypeOK, HandlerStates, Statuses
  <2>2. SetupInv /\ HandleInv
    BY DEF SetupInv, HandleInv
  <2>3. NoGhostSession /\ RegisteredListenersAlive
    BY DEF NoGhostSession, RegisteredListenersAlive
  <2>4. QED
    BY <2>1, <2>2, <2>3 DEF IInv
<1>2. IInv /\ [Next]_vars => IInv'
  BY TypeStep, SetupStep, HandleStep, GhostStep, AliveStep DEF IInv
<1>3. QED
  BY <1>1, <1>2, PTL DEF Spec

(***************************************************************************)
(* Type correctness: in particular the position of the binding loop never  *)
(* leaves the proxy list and the ACK counter never goes negative.          *)
(***************************************************************************)
THEOREM TypeCorrect == Spec => []TypeOK
<1>1. IInv => TypeOK
  BY DEF IInv
<1>2. QED
  BY <1>1, InductiveInvariant, PTL

(***************************************************************************)
(* The clients map only ever names handlers that will still remove their   *)
(* entry (handle_client, clean-up task), even if addresses are reused.     *)
(***************************************************************************)
THEOREM MapNamesLiveHandlers == Spec => []NoGhostSession
<1>1. IInv => NoGhostSession
  BY DEF IInv
<1>2. QED
  BY <1>1, InductiveInvariant, PTL

(***************************************************************************)
(* As long as a session is registered, all its listener tasks run and none *)
(* was aborted (handle_client 499-505 and 637-645, clean-up task 83-91).   *)
(***************************************************************************)
THEOREM RegisteredSessionsListen == Spec => []RegisteredListenersAlive
<1>1. IInv => RegisteredListenersAlive
  BY DEF IInv
<1>2. QED
  BY <1>1, InductiveInvariant, PTL

(* Every step keeps each running listener reachable from its handler or    *)
(* from the map, unless it replaces the session the listener belongs to.   *)
LEMMA OrphanStep == IInv /\ NoOrphanListener /\ [Next]_vars => NoOrphanListener'
<1> SUFFICES ASSUME IInv, NoOrphanListener, [Next]_vars
             PROVE  NoOrphanListener'
  OBVIOUS
<1> USE ServerAssumption DEF IInv, NoOrphanListener, Running, Binding, Registered
<1>1. ASSUME NEW c \in Conns, AcceptControl(c) PROVE NoOrphanListener'
  BY <1>1 DEF AcceptControl
<1>2. ASSUME NEW c \in Conns, PeerGone(c) PROVE NoOrphanListener'
  BY <1>2 DEF PeerGone
<1>3. ASSUME NEW c \in Conns, HelloLost(c) PROVE NoOrphanListener'
  BY <1>3 DEF HelloLost
<1>4. ASSUME NEW c \in Conns, BindTcp(c) \/ BindUdp(c) PROVE NoOrphanListener'
  <2> HIDE DEF Running, Binding, IInv
  <2>1. PICK new \in Listeners :
          ConnOf(new) = c /\ new \notin aborted /\ SpawnsAtMost(c, new)
    BY <1>4, BindEffect
  <2>2. /\ aborted' = aborted /\ clients' = clients
        /\ Binding(c) /\ Binding(c)'
        /\ \A d \in Conns \ {c} : pc'[d] = pc[d]
    BY <1>4, BindEffect
  <2>3. \A d \in Conns : \A l \in handles[d] : ConnOf(l) = d
    BY DEF IInv, HandleInv
  <2>4. \A d \in Conns : Binding(d) => Binding(d)'
    BY <2>2 DEF Binding
  <2>5. replaced' = replaced
    BY <1>4 DEF BindTcp, BindUdp
  <2>6. QED
    BY <2>1, <2>2, <2>3, <2>4, <2>5, ListenerNames DEF SpawnsAtMost
<1>5. ASSUME NEW c \in Conns, InsertSession(c) PROVE NoOrphanListener'
  <2>1. \A d \in Conns : Registered(d) => Registered(d)' \/ d \in replaced'
    BY <1>5 DEF InsertSession, TypeOK
  <2>2. \A d \in Conns : Binding(d) => Binding(d)' \/ Registered(d)'
    BY <1>5 DEF InsertSession, TypeOK
  <2>3. replaced \subseteq replaced'
    BY <1>5 DEF InsertSession
  <2>4. QED
    BY <1>5, <2>1, <2>2, <2>3, ListenerNames DEF InsertSession
<1>6. ASSUME NEW c \in Conns, TakeRequest(c) PROVE NoOrphanListener'
  BY <1>6 DEF TakeRequest
<1>7. ASSUME NEW c \in Conns, OpenStream(c) PROVE NoOrphanListener'
  BY <1>7 DEF OpenStream
<1>8. ASSUME NEW c \in Conns, OpenStreamFails(c) PROVE NoOrphanListener'
  BY <1>8 DEF OpenStreamFails
<1>9. ASSUME NEW c \in Conns, DriveConnection(c) PROVE NoOrphanListener'
  BY <1>9 DEF DriveConnection, AckPending
<1>10. ASSUME NEW c \in Conns, NoticePeerGone(c) PROVE NoOrphanListener'
  BY <1>10 DEF NoticePeerGone
<1>11. ASSUME NEW c \in Conns, EndHandler(c) PROVE NoOrphanListener'
  BY <1>11 DEF EndHandler, SessionRemoved, SessionHandles
<1>12. ASSUME NEW c \in Conns, NEW h \in Hellos, RefuseHello(c, h)
      PROVE NoOrphanListener'
  BY <1>12 DEF RefuseHello
<1>13. ASSUME NEW c \in Conns, NEW h \in Hellos, AcceptHello(c, h)
      PROVE NoOrphanListener'
  BY <1>13 DEF AcceptHello
<1>14. ASSUME NEW l \in Listeners, ListenerAccepts(l) PROVE NoOrphanListener'
  BY <1>14 DEF ListenerAccepts
<1>15. ASSUME NEW l \in Listeners, ListenerEnqueues(l) PROVE NoOrphanListener'
  BY <1>15 DEF ListenerEnqueues, ChannelRoom
<1>16. ASSUME NEW l \in Listeners, ListenerSendFails(l) PROVE NoOrphanListener'
  BY <1>16 DEF ListenerSendFails
<1>17. ASSUME NEW l \in Listeners, ListenerStops(l) PROVE NoOrphanListener'
  BY <1>17 DEF ListenerStops
<1>18. ASSUME NEW l \in Listeners, EndTunnel(l) PROVE NoOrphanListener'
  BY <1>18 DEF EndTunnel
<1>19. CASE CleanupSweep
  <2>1. \A d \in Conns : Registered(d) /\ ~Registered(d)' => handles[d] \subseteq aborted'
    BY <1>19 DEF CleanupSweep, TypeOK
  <2>2. QED
    BY <1>19, <2>1, ListenerNames DEF CleanupSweep
<1>20. CASE Tick
  BY <1>20 DEF Tick
<1>21. CASE Shutdown
  BY <1>21 DEF Shutdown
<1>22. CASE DropServer
  BY <1>22 DEF DropServer
<1>23. CASE UNCHANGED vars
  BY <1>23
<1> QED
  BY <1>1, <1>2, <1>3, <1>4, <1>5, <1>6, <1>7, <1>8, <1>9, <1>10, <1>11,
     <1>12, <1>13, <1>14, <1>15, <1>16, <1>17, <1>18, <1>19, <1>20, <1>21,
     <1>22, <1>23  DEF Next, Handler, Listener

(***************************************************************************)
(* Whatever addresses the control connections come from, a running,        *)
(* unaborted listener belongs to a handler that is still binding, to a     *)
(* session in the map, or to a session that a later connection from the    *)
(* same address replaced (server.rs:501): that replacement is the only way *)
(* in which the server loses the handle of a task it spawned.              *)
(***************************************************************************)
THEOREM NoOrphans == Spec => []NoOrphanListener
<1>1. Init => NoOrphanListener
  BY DEF Init, NoOrphanListener, Running
<1>2. IInv /\ NoOrphanListener /\ [Next]_vars => NoOrphanListener'
  BY OrphanStep
<1>3. QED
  BY <1>1, <1>2, InductiveInvariant, PTL DEF Spec

============================================================================
