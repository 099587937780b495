---------------------------- MODULE ReverseServer ----------------------------
(***************************************************************************)
(* The reverse-proxy server (src/reverse_proxy/server.rs).                 *)
(*                                                                         *)
(* Every accepted control connection c gets a detached handle_client task. *)
(* It reads the ClientHello, answers it, binds one TCP listener (and one   *)
(* UDP socket) per requested port, registers the spawned listener tasks in *)
(* the shared `clients` map under the peer's address, and then runs a loop *)
(* that turns queued requests into yamux streams until the connection is   *)
(* lost; only then does it remove its session and abort its listeners.     *)
(* Beside the handlers run the listener tasks, which feed the handler      *)
(* through a bounded channel, the 30 s clean-up task, the accept loop of   *)
(* start(), and one task per open tunnel.                                  *)
(*                                                                         *)
(* The `clients` mutex is never held across an await, so a section that    *)
(* holds it is one atomic action.  A step between two awaits of one task   *)
(* is one action; everything else interleaves.                             *)
(***************************************************************************)
EXTENDS Integers, Sequences, FiniteSets, Functions

CONSTANTS
  Conns,         \* control connections, each with its handle_client task
  Ports,         \* server ports a client may ask for
  ClientIds,     \* peer addresses, the keys of the clients map
  NoConn,        \* "no entry" in the clients map
  ClientId,      \* ClientId[c]: the peer address of connection c
  Hellos,        \* the ClientHello messages a client may send
  MaxProxies,    \* bound: proxies in one ClientHello
  AuthToken,     \* the server's token, or NoToken
  NoToken,
  AllowedTokens, \* further accepted tokens
  TotpRequired,  \* whether a TOTP secret is configured
  ForeignPorts,  \* <<port, kind>> pairs that other processes hold
  ChannelCap,    \* capacity of the tunnel-request channel (256)
  MaxStreams,    \* yamux max_num_streams (2048)
  AckBacklog,    \* outbound streams yamux lets wait for the peer's ACK
  IdleLimit,     \* 300 s in units of the model's clock
  MaxRequests,   \* MaxRequests[c], bound: requests accepted for connection c
  MaxTime        \* bound on the clock

Kinds == {"tcp", "udp"}
Idx == 1..MaxProxies

(***************************************************************************)
(* A listener task is named by its connection, the position of its entry   *)
(* in the client's proxy list, and its kind.                               *)
(***************************************************************************)
Listeners == Conns \X Idx \X Kinds

ASSUME ServerAssumption ==
  /\ NoConn \notin Conns
  /\ ClientId \in [Conns -> ClientIds]
  /\ MaxProxies \in Nat
  /\ ChannelCap \in Nat \ {0}
  /\ {MaxStreams, AckBacklog, IdleLimit, MaxTime} \subseteq Nat
  /\ MaxRequests \in [Conns -> Nat]
  /\ \A h \in Hellos : /\ h.ports \in Seq(Ports)
                       /\ Len(h.ports) <= MaxProxies

VARIABLES
  srv,           \* "running" | "stopped" (start() returned) | "dropped"
  now,           \* the clock
  peer,          \* peer[c]: is the client end of c's TCP connection up?
  pc,            \* pc[c]: where handle_client of c is
  told,          \* told[c]: the HandshakeStatus sent, or "none"
  proxies,       \* proxies[c]: the ports of c's accepted ClientHello
  next,          \* next[c]: position of the proxy being bound
  handles,       \* handles[c]: JoinHandles of the listeners c spawned
  clients,       \* the clients map: address -> connection of the session
  last_activity, \* last_activity[c] of c's ClientSession
  replaced,      \* history: connections whose session another one replaced
  lstate,        \* lstate[l]: the listener task l
  aborted,       \* listeners whose handle was aborted
  queue,         \* queue[c]: the tunnel-request channel
  hand,          \* hand[c]: the request an "opening" handler holds
  tunnels,       \* tunnels[l]: open tunnels that came through l
  unacked,       \* unacked[c]: streams the peer has not acknowledged
  accepted       \* accepted[c]: requests c's listeners accepted (bounded)

handlerVars == <<pc, told, proxies, next, handles>>
sessionVars == <<clients, last_activity, replaced, aborted>>
requestVars == <<queue, hand, tunnels, unacked, accepted>>
vars == <<srv, now, peer, handlerVars, sessionVars, lstate, requestVars>>

ConnOf(l) == l[1]
KindOf(l) == l[3]
PortOf(l) == proxies[ConnOf(l)][l[2]]
ListenersOf(c) == {l \in Listeners : ConnOf(l) = c}
Running(l) == lstate[l] \in {"accept", "send"}

(* A handler whose body has not returned yet owns its end of the channel.  *)
Active(c) == pc[c] \notin {"none", "done"}
----------------------------------------------------------------------------
(***************************************************************************)
(* The handshake decision of handle_client, checks in the code's order.    *)
(* totpOk is what totp.verify said of the code (FALSE without a code);     *)
(* hashOk whether the received hash is that of the received list.          *)
(***************************************************************************)
TokenValid(t) == AuthToken = NoToken \/ t = AuthToken \/ t \in AllowedTokens

Verdict(h) ==
  IF ~h.isHello                         THEN "ProtocolError"
  ELSE IF ~h.versionOk                  THEN "VersionMismatch"
  ELSE IF ~TokenValid(h.token)          THEN "InvalidToken"
  ELSE IF TotpRequired /\ ~h.totpOk     THEN "InvalidToken"
  ELSE IF ~h.hashOk                     THEN "InvalidConfigHash"
  ELSE IF h.ports = <<>>                THEN "ConfigError"
  ELSE "Ok"

Statuses == {"none", "ProtocolError", "VersionMismatch", "InvalidToken",
             "InvalidConfigHash", "ConfigError", "Ok"}

(***************************************************************************)
(* Whether the kernel lets a task bind the port.  A TCP port is held by    *)
(* its listener task only; a UDP socket is an Arc that the listener, every *)
(* queued request, the request in hand and every UDP tunnel task share.    *)
(***************************************************************************)
HoldsUdp(l) ==
  \/ Running(l)
  \/ tunnels[l] > 0
  \/ hand[ConnOf(l)] = l
  \/ \E i \in 1..Len(queue[ConnOf(l)]) : queue[ConnOf(l)][i] = l

PortFree(p, kind) ==
  /\ <<p, kind>> \notin ForeignPorts
  /\ \A l \in Listeners :
       KindOf(l) = kind /\ lstate[l] # "none" /\ PortOf(l) = p
         => IF kind = "tcp" THEN ~Running(l) ELSE ~HoldsUdp(l)

(* The channel takes another request; yamux lets another stream wait.      *)
ChannelRoomOffByOne(c) == Len(queue[c]) + 1 < ChannelCap \* faulty variant
ChannelRoom(c) == Len(queue[c]) < ChannelCap

Streams(c) == FoldFunctionOnSet(+, 0, tunnels, ListenersOf(c))
----------------------------------------------------------------------------
Init ==
  /\ srv = "running"
  /\ now = 0
  /\ peer = [c \in Conns |-> FALSE]
  /\ pc = [c \in Conns |-> "none"]
  /\ told = [c \in Conns |-> "none"]
  /\ proxies = [c \in Conns |-> <<>>]
  /\ next = [c \in Conns |-> 1]
  /\ handles = [c \in Conns |-> {}]
  /\ clients = [a \in ClientIds |-> NoConn]
  /\ last_activity = [c \in Conns |-> 0]
  /\ replaced = {}
  /\ lstate = [l \in Listeners |-> "none"]
  /\ aborted = {}
  /\ queue = [c \in Conns |-> <<>>]
  /\ hand = [c \in Conns |-> NoConn]
  /\ tunnels = [l \in Listeners |-> 0]
  /\ unacked = [c \in Conns |-> 0]
  /\ accepted = [c \in Conns |-> 0]

(***************************************************************************)
(* The accept loop of start().  The kernel never completes a second        *)
(* connection from an address while the first one is up.                   *)
(***************************************************************************)
AcceptControl(c) ==
  /\ srv = "running"
  /\ pc[c] = "none"
  /\ \A d \in Conns \ {c} : ClientId[d] = ClientId[c] => ~peer[d]
  /\ pc' = [pc EXCEPT ![c] = "hello"]
  /\ peer' = [peer EXCEPT ![c] = TRUE]
  /\ UNCHANGED <<srv, now, told, proxies, next, handles, sessionVars, lstate,
                 requestVars>>

(* External: the client exits, or the network breaks the connection.       *)
PeerGone(c) ==
  /\ peer[c]
  /\ peer' = [peer EXCEPT ![c] = FALSE]
  /\ UNCHANGED <<srv, now, handlerVars, sessionVars, lstate, requestVars>>

(* read_from or the write of the answer fails; no timeout bounds the wait. *)
HelloLost(c) ==
  /\ pc[c] = "hello"
  /\ ~peer[c]
  /\ pc' = [pc EXCEPT ![c] = "done"]
  /\ UNCHANGED <<srv, now, peer, told, proxies, next, handles, sessionVars,
                 lstate, requestVars>>

(***************************************************************************)
(* A message arrives.  A refusal is answered (except a message that is no  *)
(* ClientHello) and ends the handler.  The answer to an acceptable hello   *)
(* is written before any port is bound.                                    *)
(***************************************************************************)
RefuseHello(c, h) ==
  /\ pc[c] = "hello"
  /\ Verdict(h) # "Ok"
  /\ told' = [told EXCEPT ![c] = IF h.isHello THEN Verdict(h) ELSE @]
  /\ pc' = [pc EXCEPT ![c] = "done"]
  /\ UNCHANGED <<srv, now, peer, proxies, next, handles, sessionVars, lstate,
                 requestVars>>

AcceptHello(c, h) ==
  /\ pc[c] = "hello"
  /\ Verdict(h) = "Ok"
  /\ told' = [told EXCEPT ![c] = "Ok"]
  /\ proxies' = [proxies EXCEPT ![c] = h.ports]
  /\ pc' = [pc EXCEPT ![c] = "bindTcp"]
  /\ UNCHANGED <<srv, now, peer, next, handles, sessionVars, lstate,
                 requestVars>>

Spawn(c, kind) ==
  LET l == <<c, next[c], kind>> IN
    /\ lstate' = [lstate EXCEPT ![l] = "accept"]
    /\ handles' = [handles EXCEPT ![c] = @ \cup {l}]

(* A TCP bind failure is only logged: the entry is skipped, UDP included.  *)
BindTcp(c) ==
  /\ pc[c] = "bindTcp"
  /\ next[c] <= Len(proxies[c])
  /\ IF PortFree(proxies[c][next[c]], "tcp")
       THEN /\ Spawn(c, "tcp")
            /\ pc' = [pc EXCEPT ![c] = "bindUdp"]
            /\ UNCHANGED next
       ELSE /\ next' = [next EXCEPT ![c] = @ + 1]
            /\ UNCHANGED <<pc, lstate, handles>>
  /\ UNCHANGED <<srv, now, peer, told, proxies, sessionVars, requestVars>>

BindUdp(c) ==
  /\ pc[c] = "bindUdp"
  /\ IF PortFree(proxies[c][next[c]], "udp")
       THEN Spawn(c, "udp")
       ELSE UNCHANGED <<lstate, handles>>
  /\ next' = [next EXCEPT ![c] = @ + 1]
  /\ pc' = [pc EXCEPT ![c] = "bindTcp"]
  /\ UNCHANGED <<srv, now, peer, told, proxies, sessionVars, requestVars>>

(* clients.insert: an entry under the same address is replaced, which      *)
(* drops the old session's JoinHandles without aborting the tasks.         *)
InsertSession(c) ==
  /\ pc[c] = "bindTcp"
  /\ next[c] > Len(proxies[c])
  /\ clients' = [clients EXCEPT ![ClientId[c]] = c]
  /\ last_activity' = [last_activity EXCEPT ![c] = now]
  /\ replaced' = replaced \cup ({clients[ClientId[c]]} \ {NoConn})
  /\ pc' = [pc EXCEPT ![c] = "serving"]
  /\ UNCHANGED <<srv, now, peer, told, proxies, next, handles, aborted, lstate,
                 requestVars>>
----------------------------------------------------------------------------
(***************************************************************************)
(* The listener tasks.  abort() only requests cancellation: a task that is *)
(* being polled finishes that poll, so an aborted task may still accept or *)
(* enqueue before it stops and its socket closes.                          *)
(***************************************************************************)
ListenerAccepts(l) ==
  /\ lstate[l] = "accept"
  /\ accepted[ConnOf(l)] < MaxRequests[ConnOf(l)]
  /\ lstate' = [lstate EXCEPT ![l] = "send"]
  /\ accepted' = [accepted EXCEPT ![ConnOf(l)] = @ + 1]
  /\ UNCHANGED <<srv, now, peer, handlerVars, sessionVars, queue, hand, tunnels,
                 unacked>>

ListenerEnqueues(l) ==
  LET c == ConnOf(l) IN
    /\ lstate[l] = "send"
    /\ Active(c)
    /\ ChannelRoom(c)
    /\ queue' = [queue EXCEPT ![c] = Append(@, l)]
    /\ lstate' = [lstate EXCEPT ![l] = "accept"]
    /\ UNCHANGED <<srv, now, peer, handlerVars, sessionVars, hand, tunnels,
                   unacked, accepted>>

(* send() fails because the handler has returned: the task breaks.         *)
ListenerSendFails(l) ==
  /\ lstate[l] = "send"
  /\ ~Active(ConnOf(l))
  /\ lstate' = [lstate EXCEPT ![l] = "closed"]
  /\ UNCHANGED <<srv, now, peer, handlerVars, sessionVars, requestVars>>

ListenerStops(l) ==
  /\ l \in aborted
  /\ Running(l)
  /\ lstate' = [lstate EXCEPT ![l] = "closed"]
  /\ UNCHANGED <<srv, now, peer, handlerVars, sessionVars, requestVars>>
----------------------------------------------------------------------------
(***************************************************************************)
(* The main loop of handle_client.  While the handler awaits               *)
(* poll_new_outbound nobody polls the connection: neither ACKs nor the     *)
(* loss of the peer are seen until the stream is open.                     *)
(***************************************************************************)
TakeRequest(c) ==
  /\ pc[c] = "serving"
  /\ queue[c] # <<>>
  /\ hand' = [hand EXCEPT ![c] = Head(queue[c])]
  /\ queue' = [queue EXCEPT ![c] = Tail(@)]
  /\ pc' = [pc EXCEPT ![c] = "opening"]
  /\ UNCHANGED <<srv, now, peer, told, proxies, next, handles, sessionVars,
                 lstate, tunnels, unacked, accepted>>

OpenStream(c) ==
  /\ pc[c] = "opening"
  /\ Streams(c) < MaxStreams
  /\ unacked[c] < AckBacklog
  /\ tunnels' = [tunnels EXCEPT ![hand[c]] = @ + 1]
  /\ unacked' = [unacked EXCEPT ![c] = @ + 1]
  /\ hand' = [hand EXCEPT ![c] = NoConn]
  /\ pc' = [pc EXCEPT ![c] = "serving"]
  /\ UNCHANGED <<srv, now, peer, told, proxies, next, handles, sessionVars,
                 lstate, queue, accepted>>

(* TooManyStreams: the error is logged and the request is dropped; yamux   *)
(* may also have closed the connection, which the next poll reports.       *)
OpenStreamFails(c) ==
  /\ pc[c] = "opening"
  /\ Streams(c) >= MaxStreams
  /\ hand' = [hand EXCEPT ![c] = NoConn]
  /\ pc' = [pc EXCEPT ![c] = "serving"]
  /\ \E up \in {peer[c], FALSE} : peer' = [peer EXCEPT ![c] = up]
  /\ UNCHANGED <<srv, now, told, proxies, next, handles, sessionVars,
                 lstate, queue, tunnels, unacked, accepted>>

(* poll_next_inbound drives the connection; an ACK of the peer is handled. *)
AckPendingOrNot(c) == unacked[c] >= 0 \* faulty variant
AckPending(c) == unacked[c] > 0

DriveConnection(c) ==
  /\ pc[c] = "serving"
  /\ peer[c]
  /\ AckPending(c)
  /\ unacked' = [unacked EXCEPT ![c] = @ - 1]
  /\ UNCHANGED <<srv, now, peer, handlerVars, sessionVars, lstate, queue, hand,
                 tunnels, accepted>>

(* poll_next_inbound reports an error or the end: the loop breaks.         *)
NoticePeerGone(c) ==
  /\ pc[c] = "serving"
  /\ ~peer[c]
  /\ pc' = [pc EXCEPT ![c] = "cleanup"]
  /\ UNCHANGED <<srv, now, peer, told, proxies, next, handles, sessionVars,
                 lstate, requestVars>>

(* What clients.remove(&client_id) finds and leaves.                       *)
NoHandles(c) == {} \* faulty variant: the removed session is just dropped
SessionHandles(c) ==
  IF clients[ClientId[c]] = NoConn THEN {} ELSE handles[clients[ClientId[c]]]

SessionKept(c) == clients \* faulty variant: abort without remove
SessionRemoved(c) == [clients EXCEPT ![ClientId[c]] = NoConn]

(***************************************************************************)
(* The end of handle_client: whatever session is stored under its address  *)
(* is removed and its listeners aborted, then the function returns, which  *)
(* drops the channel with the requests in it.                              *)
(***************************************************************************)
EndHandler(c) ==
  /\ pc[c] = "cleanup"
  /\ clients' = SessionRemoved(c)
  /\ aborted' = aborted \cup SessionHandles(c)
  /\ queue' = [queue EXCEPT ![c] = <<>>]
  /\ unacked' = [unacked EXCEPT ![c] = 0]
  /\ pc' = [pc EXCEPT ![c] = "done"]
  /\ UNCHANGED <<srv, now, peer, told, proxies, next, handles, last_activity,
                 replaced, lstate, hand, tunnels, accepted>>

(* A tunnel task finishes: either side closed, or the connection is gone.  *)
EndTunnel(l) ==
  /\ tunnels[l] > 0
  /\ tunnels' = [tunnels EXCEPT ![l] = @ - 1]
  /\ UNCHANGED <<srv, now, peer, handlerVars, sessionVars, lstate, queue, hand,
                 unacked, accepted>>
----------------------------------------------------------------------------
(***************************************************************************)
(* The clean-up task: one sweep under the lock.  last_activity is written  *)
(* only when the session is created (update_activity has no caller).       *)
(***************************************************************************)
Expired == {a \in ClientIds : /\ clients[a] # NoConn
                              /\ now - last_activity[clients[a]] > IdleLimit}

CleanupSweep ==
  /\ srv # "dropped"
  /\ Expired # {}
  /\ clients' = [a \in ClientIds |-> IF a \in Expired THEN NoConn ELSE clients[a]]
  /\ aborted' = aborted \cup UNION {handles[clients[a]] : a \in Expired}
  /\ UNCHANGED <<srv, now, peer, handlerVars, last_activity, replaced, lstate,
                 requestVars>>

Tick ==
  /\ now < MaxTime
  /\ now' = now + 1
  /\ UNCHANGED <<srv, peer, handlerVars, sessionVars, lstate, requestVars>>

(* The shutdown signal ends the accept loop.  start() then only locks the  *)
(* map and logs its size; the handlers are detached tasks and go on.       *)
Shutdown ==
  /\ srv = "running"
  /\ srv' = "stopped"
  /\ UNCHANGED <<now, peer, handlerVars, sessionVars, lstate, requestVars>>

(* Dropping the server (its task ended or was aborted) ends the clean-up   *)
(* task and the accept loop.                                               *)
DropServer ==
  /\ srv # "dropped"
  /\ srv' = "dropped"
  /\ UNCHANGED <<now, peer, handlerVars, sessionVars, lstate, requestVars>>
----------------------------------------------------------------------------
Handler(c) ==
  \/ HelloLost(c)
  \/ BindTcp(c) \/ BindUdp(c) \/ InsertSession(c)
  \/ TakeRequest(c) \/ OpenStream(c) \/ OpenStreamFails(c)
  \/ NoticePeerGone(c) \/ EndHandler(c)

Listener(l) == ListenerEnqueues(l) \/ ListenerSendFails(l) \/ ListenerStops(l)

Next ==
  \/ \E c \in Conns :
       \/ AcceptControl(c) \/ PeerGone(c) \/ Handler(c) \/ DriveConnection(c)
       \/ \E h \in Hellos : RefuseHello(c, h) \/ AcceptHello(c, h)
  \/ \E l \in Listeners : ListenerAccepts(l) \/ Listener(l) \/ EndTunnel(l)
  \/ CleanupSweep \/ Tick \/ Shutdown \/ DropServer

Spec == Init /\ [][Next]_vars

(***************************************************************************)
(* The runtime polls every runnable task; nothing is assumed of clients,   *)
(* of outside connections, of time or of the operator.                     *)
(***************************************************************************)
Fairness ==
  /\ \A c \in Conns : WF_vars(Handler(c))
  /\ \A l \in Listeners : WF_vars(Listener(l))

FairSpec == Spec /\ Fairness
----------------------------------------------------------------------------
HandlerStates == {"none", "hello", "bindTcp", "bindUdp", "serving", "opening",
                  "cleanup", "done"}

(* Every variable has its type.                                            *)
TypeOK ==
  /\ srv \in {"running", "stopped", "dropped"}
  /\ now \in Nat
  /\ peer \in [Conns -> BOOLEAN]
  /\ pc \in [Conns -> HandlerStates]
  /\ told \in [Conns -> Statuses]
  /\ proxies \in [Conns -> Seq(Ports)]
  /\ \A c \in Conns : Len(proxies[c]) <= MaxProxies
  /\ next \in [Conns -> 1..(MaxProxies + 1)]
  /\ handles \in [Conns -> SUBSET Listeners]
  /\ clients \in [ClientIds -> Conns \cup {NoConn}]
  /\ last_activity \in [Conns -> Nat]
  /\ replaced \subseteq Conns
  /\ lstate \in [Listeners -> {"none", "accept", "send", "closed"}]
  /\ aborted \subseteq Listeners
  /\ queue \in [Conns -> Seq(Listeners)]
  /\ hand \in [Conns -> Listeners \cup {NoConn}]
  /\ tunnels \in [Listeners -> Nat]
  /\ unacked \in [Conns -> Nat]
  /\ accepted \in [Conns -> Nat]

InLoop(c) == pc[c] \in {"serving", "opening", "cleanup"}
Binding(c) == pc[c] \in {"bindTcp", "bindUdp"}
Registered(c) == clients[ClientId[c]] = c

(***************************************************************************)
(* A session in the clients map always belongs to a handler that is still  *)
(* in its loop or about to remove it: the map never outlives a handler     *)
(* (server.rs 499-505, 637-645, 83-91).                                    *)
(***************************************************************************)
NoGhostSession ==
  \A a \in ClientIds : clients[a] # NoConn =>
     ClientId[clients[a]] = a /\ InLoop(clients[a])

(***************************************************************************)
(* While a session is registered every listener task it lists is running   *)
(* and has not been aborted: whoever aborts a session's listeners also     *)
(* removed that session in the same locked section.                        *)
(***************************************************************************)
RegisteredListenersAlive ==
  \A a \in ClientIds : clients[a] # NoConn =>
     \A l \in handles[clients[a]] : Running(l) /\ l \notin aborted

(***************************************************************************)
(* A listener task that was not aborted is reachable: its handler is still *)
(* collecting handles, or its session is registered, so that a disconnect  *)
(* or the clean-up task will abort it.  The exception is a session another *)
(* connection from the same address has replaced: clients.insert (line     *)
(* 501) drops its JoinHandles and nothing can stop its listeners any more. *)
(***************************************************************************)
NoOrphanListener ==
  \A l \in Listeners : Running(l) /\ l \notin aborted =>
     /\ l \in handles[ConnOf(l)]
     /\ \/ Binding(ConnOf(l)) \/ Registered(ConnOf(l))
        \/ ConnOf(l) \in replaced

(***************************************************************************)
(* A handler that waits for an ACK that only it could read: the backlog of *)
(* unacknowledged streams is full while it awaits poll_new_outbound.       *)
(***************************************************************************)
Stalled(c) ==
  pc[c] = "opening" /\ Streams(c) < MaxStreams /\ unacked[c] >= AckBacklog

(***************************************************************************)
(* Once the client is gone from a session, the session is removed and all  *)
(* its listener tasks end, whatever requests are queued, blocked or being  *)
(* opened at that moment and whether or not the clean-up task got there    *)
(* first (lines 619-645).  The exceptions are a handler stalled on the     *)
(* backlog and a session that was replaced, whose handles are gone.        *)
(***************************************************************************)
DisconnectReleasesPorts ==
  \A c \in Conns : (InLoop(c) /\ ~peer[c]) ~>
     \/ ~Registered(c) /\ \A l \in ListenersOf(c) : ~Running(l)
     \/ Stalled(c)
     \/ c \in replaced

(***************************************************************************)
(* A listener that waits for room in the channel does not wait for ever:   *)
(* the handler drains the channel, or the task is told to stop, or the     *)
(* handler is stalled.                                                     *)
(***************************************************************************)
BlockedListenerResumes ==
  \A l \in Listeners :
     (lstate[l] = "send") ~> (lstate[l] # "send" \/ Stalled(ConnOf(l)))

(***************************************************************************)
(* FIXES_AND_IMPROVEMENTS.md:220 says that streams that cannot be opened   *)
(* are tolerated and new connections still accepted: a handler that sets   *)
(* out to open a stream gets on with its loop.                             *)
(***************************************************************************)
OpeningEnds == \A c \in Conns : (pc[c] = "opening") ~> (pc[c] # "opening")

(***************************************************************************)
(* The comment of the clean-up task (server.rs:74): it removes clients     *)
(* "that have been inactive".  A handler that is opening a stream for a    *)
(* request, or has requests waiting, is not inactive.                      *)
(***************************************************************************)
CleanupSparesActive ==
  [][\A c \in Conns :
       Registered(c) /\ clients'[ClientId[c]] = NoConn /\ ~(pc[c] = "cleanup")
         => pc[c] # "opening" /\ queue[c] = <<>>]_vars
============================================================================
