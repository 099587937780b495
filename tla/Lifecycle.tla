----------------------------- MODULE Lifecycle -----------------------------
(***************************************************************************)
(* The life of the process: RuntimeManager loads the configuration, starts *)
(* its services and waits for the first to end (config/runtime.rs), the    *)
(* forward proxy server starts its instances, waits for SIGTERM or SIGINT  *)
(* and joins them, an instance binds TCP and UDP and serves until the      *)
(* broadcast (proxy/server.rs).  The reverse server and client are one     *)
(* step here, their own modules say how they end.                          *)
(*                                                                         *)
(* The server is also used as a library: its owner calls start() and may   *)
(* keep the server, and with it the sender of the broadcast, afterwards.   *)
(***************************************************************************)
EXTENDS Config

CONSTANTS
  Configs,     \* the contents a configuration file may have
  MaxProxies,  \* the most forward proxies in one
  Hosts,       \* who runs the server: the program, or the owner of a library
  MaxConns     \* bound on the connections of an instance

Services == {"forward", "server", "client"}
Signals == {"SIGTERM", "SIGINT"}

ASSUME LifecycleAssumption ==
  /\ Configs \subseteq ConfigFiles
  /\ \A c \in Configs : Len(c.proxies) <= MaxProxies
  /\ Hosts \subseteq {"program", "library"}
  /\ MaxProxies \in Nat /\ MaxConns \in Nat

Instances == 1..MaxProxies
Empty == [bind |-> "none", proxies |-> <<>>, reverse |-> <<>>,
          server |-> NoServer, client |-> "none"]
File(c) == [kind |-> "file", config |-> c]

VARIABLES
  host,        \* who runs the server
  config,      \* the configuration
  run,         \* where RuntimeManager::run is
  exit,        \* how the process ended
  svc,         \* svc[s]: the task of service s
  fwd,         \* where ProxyServer::start is
  checked,     \* the number of remotes tested at startup
  handlers,    \* the signals tokio has a handler for
  caught,      \* a signal has been caught
  sent,        \* the shutdown has been broadcast
  dropped,     \* the server, and the sender with it, is gone
  inst,        \* inst[i]: the task of instance i
  rx,          \* rx[i], udpRx[i]: when the receiver was made, before or
  udpRx,       \*   after the broadcast
  udp,         \* udp[i]: the UDP task of instance i
  conns        \* conns[i]: connections whose relay workers run

runVars == <<host, config, run, exit, svc>>
fwdVars == <<fwd, checked, handlers, caught, sent, dropped>>
instVars == <<inst, rx, udpRx, udp, conns>>
vars == <<runVars, fwdVars, instVars>>

Init ==
  /\ host \in Hosts
  /\ config \in IF host = "program" THEN {Empty}
                 ELSE {c \in Configs : c.proxies # <<>> /\ Builds(c)}
  /\ run = IF host = "library" THEN "none" ELSE "load"
  /\ exit = "none"
  /\ svc = [s \in Services |-> IF host = "library" /\ s = "forward" THEN "running"
                               ELSE "absent"]
  /\ fwd = IF host = "library" THEN "checking" ELSE "absent"
  /\ checked = 0 /\ handlers = {}
  /\ caught = FALSE /\ sent = FALSE /\ dropped = FALSE
  /\ inst = [i \in Instances |-> "waiting"]
  /\ rx = [i \in Instances |-> "none"]
  /\ udpRx = [i \in Instances |-> "none"]
  /\ udp = [i \in Instances |-> "none"]
  /\ conns = [i \in Instances |-> 0]
----------------------------------------------------------------------------
(* RuntimeManager: the configuration is loaded, then one service is        *)
(* started after the other.  An error exits at once.                       *)
Exit(how) == exit' = how

Configured(s) ==
  CASE s = "forward" -> config.proxies # <<>>
    [] s = "server"  -> config.server # NoServer
    [] s = "client"  -> config.client # "none"

Used == DOMAIN config.proxies

Load ==
  /\ run = "load"
  /\ \E f, g \in {File(c) : c \in Configs} \cup {NoFile} :
       \E cli \in {[given |-> FALSE], [given |-> TRUE, file |-> f]} :
         LET found == Search(cli, <<f, g>>)
         IN  IF found = NoFile
             THEN run' = "done" /\ Exit("error") /\ UNCHANGED config
             ELSE /\ config' = Sanitised(found.config)
                  /\ run' = "forward" /\ UNCHANGED exit
  /\ UNCHANGED <<host, svc, fwdVars, instVars>>

(* build() refuses a proxy whose hosts are no IPs, run() a client whose    *)
(* server is no socket address; the services already started go with it.   *)
StartForward ==
  /\ run = "forward"
  /\ \/ /\ Configured("forward") /\ Builds(config)
        /\ svc' = [svc EXCEPT !["forward"] = "running"]
        /\ fwd' = "checking"
        /\ run' = "server" /\ UNCHANGED exit
     \/ /\ Configured("forward") /\ ~Builds(config)
        /\ Exit("error") /\ run' = "done"
        /\ UNCHANGED <<svc, fwd>>
     \/ /\ ~Configured("forward")
        /\ run' = "server" /\ UNCHANGED <<svc, fwd, exit>>
  /\ UNCHANGED <<host, config, checked, handlers, caught, sent, dropped, instVars>>

StartServer ==
  /\ run = "server"
  /\ svc' = [svc EXCEPT !["server"] =
               IF Configured("server") THEN "running" ELSE "absent"]
  /\ run' = "client"
  /\ UNCHANGED <<host, config, exit, fwdVars, instVars>>

StartClient ==
  /\ run = "client"
  /\ \/ /\ config.client = "ip"
        /\ svc' = [svc EXCEPT !["client"] = "running"]
        /\ run' = "select" /\ UNCHANGED exit
     \/ /\ config.client = "name"
        /\ Exit("error") /\ run' = "done" /\ UNCHANGED svc
     \/ /\ ~Configured("client")
        /\ run' = "select" /\ UNCHANGED <<svc, exit>>
  /\ UNCHANGED <<host, config, fwdVars, instVars>>

(* No service is an error; else select_all, which looks at the tasks in    *)
(* the order they were started in: the first that is over ends run().  An  *)
(* error a service returned was printed by its task and counts as success; *)
(* a panic exits at once.  Otherwise main returns and the tokio runtime is *)
(* dropped: its tasks are cancelled, but the relay workers on its blocking *)
(* threads are waited for.                                                 *)
Order == [forward |-> 1, server |-> 2, client |-> 3]
Failed(s) == svc[s] \in {"errored", "panicked"}
Over(s) == svc[s] = "ended" \/ Failed(s)
FirstOver(s) == Over(s) /\ \A t \in Services : Over(t) => Order[s] <= Order[t]

AllOver == \* faulty variant: join_all
  (\E s \in Services : Over(s)) /\ \A s \in Services : svc[s] # "running"
OneOver == \E s \in Services : Over(s)

NoServices ==
  /\ run = "select" /\ \A s \in Services : ~Configured(s)
  /\ Exit("error") /\ run' = "done"
  /\ UNCHANGED <<host, config, svc, fwdVars, instVars>>

SelectAll ==
  /\ run = "select" /\ OneOver
  /\ \E s \in Services :
       /\ FirstOver(s)
       /\ IF svc[s] = "panicked" THEN Exit("error") /\ run' = "done"
          ELSE run' = "draining" /\ UNCHANGED exit
  /\ UNCHANGED <<host, config, svc, fwdVars, instVars>>

Drained ==
  /\ run = "draining" /\ \A i \in Instances : conns[i] = 0
  /\ Exit("ok") /\ run' = "done"
  /\ UNCHANGED <<host, config, svc, fwdVars, instVars>>

(* ReverseProxyServer::start and ReverseProxyClient::start return, with or *)
(* without an error, or panic.                                             *)
ServiceEnds(s) ==
  /\ s # "forward" /\ svc[s] = "running"
  /\ \E how \in {"ended", "errored", "panicked"} : svc' = [svc EXCEPT ![s] = how]
  /\ UNCHANGED <<host, config, run, exit, fwdVars, instVars>>
----------------------------------------------------------------------------
(* ProxyServer::start.  The remotes are tested one by one, 3 s at most for *)
(* each and whatever the result; only then the instances start.            *)
TestRemote ==
  /\ fwd = "checking" /\ checked < Len(config.proxies)
  /\ checked' = checked + 1
  /\ UNCHANGED <<runVars, fwd, handlers, caught, sent, dropped, instVars>>

Moment == IF sent THEN "after" ELSE "before"

NoReceiver == "none" \* faulty variant
Subscribe == Moment

SpawnInstances ==
  /\ fwd = "checking" /\ checked = Len(config.proxies)
  /\ inst' = [i \in Instances |-> IF i \in Used THEN "bindTcp" ELSE "waiting"]
  /\ rx' = [i \in Instances |-> IF i \in Used THEN Subscribe ELSE "none"]
  /\ fwd' = "install"
  /\ UNCHANGED <<runVars, checked, handlers, caught, sent, dropped, udpRx, udp, conns>>

(* wait_for_shutdown installs one handler after the other.                 *)
InstallHandler ==
  /\ fwd = "install"
  /\ IF handlers = {} THEN handlers' = {"SIGTERM"} /\ UNCHANGED fwd
     ELSE handlers' = Signals /\ fwd' = "waiting"
  /\ UNCHANGED <<runVars, checked, caught, sent, dropped, instVars>>

(* The handler cannot be installed: expect() panics, nobody broadcasts.    *)
InstallPanics ==
  /\ fwd = "install"
  /\ fwd' = "panicked"
  /\ svc' = [svc EXCEPT !["forward"] = "panicked"]
  /\ dropped' = (host = "program")
  /\ UNCHANGED <<host, config, run, exit, checked, handlers, caught, sent, instVars>>

Broadcast ==
  /\ fwd = "waiting" /\ caught
  /\ sent' = TRUE /\ fwd' = "joining"
  /\ UNCHANGED <<runVars, checked, handlers, caught, dropped, instVars>>

Unjoined == TRUE \* faulty variant
Joined == \A i \in Used : inst[i] \in {"stopped", "failed"}

(* The program drops the server with the task, the owner of a library may  *)
(* keep it.                                                                *)
Return ==
  /\ fwd = "joining" /\ Joined
  /\ fwd' = "returned"
  /\ svc' = [svc EXCEPT !["forward"] = "ended"]
  /\ dropped' = (host = "program")
  /\ UNCHANGED <<host, config, run, exit, checked, handlers, caught, sent, instVars>>

OwnerDrops ==
  /\ host = "library" /\ fwd \in {"returned", "panicked"} /\ ~dropped
  /\ dropped' = TRUE
  /\ UNCHANGED <<runVars, fwd, checked, handlers, caught, sent, instVars>>

(* A signal without a handler kills the process.                           *)
Signal(g) ==
  /\ IF g \in handlers THEN caught' = TRUE /\ UNCHANGED exit
     ELSE Exit("killed") /\ UNCHANGED caught
  /\ UNCHANGED <<host, config, run, svc, fwd, checked, handlers, sent,
                 dropped, instVars>>
----------------------------------------------------------------------------
(* ProxyInstance::start.  An error ends the task, nobody looks at it.      *)
BindTcp(i) ==
  /\ inst[i] = "bindTcp"
  /\ inst' = [inst EXCEPT ![i] = "bindUdp"]
  /\ UNCHANGED <<runVars, fwdVars, rx, udpRx, udp, conns>>

BindFails(i) ==
  /\ inst[i] \in {"bindTcp", "bindUdp"}
  /\ inst' = [inst EXCEPT ![i] = "failed"]
  /\ UNCHANGED <<runVars, fwdVars, rx, udpRx, udp, conns>>

(* resubscribe(): the new receiver sees only what is sent after it (336).  *)
BindUdp(i) ==
  /\ inst[i] = "bindUdp"
  /\ udp' = [udp EXCEPT ![i] = "serving"]
  /\ udpRx' = [udpRx EXCEPT ![i] = Moment]
  /\ inst' = [inst EXCEPT ![i] = "accepting"]
  /\ UNCHANGED <<runVars, fwdVars, rx, conns>>

Accept(i) ==
  /\ inst[i] = "accepting" /\ conns[i] < MaxConns
  /\ conns' = [conns EXCEPT ![i] = @ + 1]
  /\ UNCHANGED <<runVars, fwdVars, inst, rx, udpRx, udp>>

ConnEnds(i) ==
  /\ conns[i] > 0
  /\ conns' = [conns EXCEPT ![i] = @ - 1]
  /\ UNCHANGED <<runVars, fwdVars, inst, rx, udpRx, udp>>

(* recv() returns: the broadcast, or an error once the sender is gone.     *)
WakesByBroadcast(moment) == sent /\ moment = "before" \* faulty variant
Wakes(moment) == (sent /\ moment = "before") \/ dropped

Stop(i) ==
  /\ inst[i] = "accepting" /\ Wakes(rx[i])
  /\ inst' = [inst EXCEPT ![i] = "stopped"]
  /\ UNCHANGED <<runVars, fwdVars, rx, udpRx, udp, conns>>

StopUdp(i) ==
  /\ udp[i] = "serving" /\ Wakes(udpRx[i])
  /\ udp' = [udp EXCEPT ![i] = "ended"]
  /\ UNCHANGED <<runVars, fwdVars, inst, rx, udpRx, conns>>
----------------------------------------------------------------------------
Runtime ==
  \/ Load \/ StartForward \/ StartServer \/ StartClient
  \/ NoServices \/ SelectAll
Forward ==
  \/ TestRemote \/ SpawnInstances \/ InstallHandler \/ InstallPanics
  \/ Broadcast \/ Return
Binds(i) == BindTcp(i) \/ BindUdp(i) \/ BindFails(i)

(* What the tokio runtime drives until main returns.                       *)
Driven == exit = "none" /\ run # "draining"

Next ==
  \/ /\ Driven
     /\ \/ Runtime \/ Forward \/ OwnerDrops
        \/ \E s \in Services : ServiceEnds(s)
        \/ \E i \in Instances : Binds(i) \/ Stop(i) \/ StopUdp(i) \/ Accept(i)
  \/ /\ exit = "none"
     /\ \/ Drained
        \/ \E g \in Signals : Signal(g)
        \/ \E i \in Instances : ConnEnds(i)

(* Tasks are scheduled, and a select! takes a shutdown it keeps being      *)
(* offered.  Services, signals, peers and the owner do as they please.     *)
Fairness ==
  /\ WF_vars(Driven /\ Runtime)
  /\ WF_vars(Driven /\ Forward)
  /\ WF_vars(exit = "none" /\ Drained)
  /\ \A i \in Instances :
       /\ WF_vars(Driven /\ Binds(i))
       /\ WF_vars(Driven /\ Stop(i))
       /\ WF_vars(Driven /\ StopUdp(i))

Spec == Init /\ [][Next]_vars /\ Fairness
----------------------------------------------------------------------------
(* The hosts of a proxy that add_proxy can parse.                          *)
HostsAreIps(p) ==
  RemoteHost(p) \in IpTexts /\ LocalIp(p) \in {<<>>} \cup IpTexts \cup PaddedIps

Moments == {"none", "before", "after"}

(* Every variable has its type.                                            *)
TypeOK ==
  /\ host \in Hosts
  /\ run \in {"none", "load", "forward", "server", "client", "select", "draining", "done"}
  /\ exit \in {"none", "ok", "error", "killed"}
  /\ svc \in [Services -> {"absent", "running", "ended", "errored", "panicked"}]
  /\ fwd \in {"absent", "checking", "install", "waiting", "joining", "returned",
             "panicked"}
  /\ checked \in Nat /\ handlers \subseteq Signals
  /\ caught \in BOOLEAN /\ sent \in BOOLEAN /\ dropped \in BOOLEAN
  /\ inst \in [Instances -> {"waiting", "bindTcp", "bindUdp", "accepting",
                             "stopped", "failed"}]
  /\ rx \in [Instances -> Moments] /\ udpRx \in [Instances -> Moments]
  /\ udp \in [Instances -> {"none", "serving", "ended"}]
  /\ conns \in [Instances -> 0..MaxConns]

(***************************************************************************)
(* What validate accepts: the forward proxies listen on ports that are not *)
(* zero and all different, a second validation changes nothing, and if     *)
(* every host is an IP address build() succeeds, whatever the ports and    *)
(* the source IPs were (loader.rs 343-413, server.rs 33-67).  Nothing is   *)
(* said of the control port, which validate never sees.                    *)
(***************************************************************************)
ConfigSound ==
  host = "program" /\ config # Empty =>
    /\ Accepted(config) /\ Sanitised(config) = config
    /\ \A i, j \in Used : /\ LocalPort(config.proxies[i]) \in 1..MaxPort
                          /\ i # j => LocalPort(config.proxies[i]) # LocalPort(config.proxies[j])
    /\ (\A i \in Used : HostsAreIps(config.proxies[i])) => Builds(config)

(***************************************************************************)
(* ProxyServer::start returns with every accept loop stopped, and the      *)
(* process ends with success only when a service has returned: a forward   *)
(* proxy only after a signal, never for instances that could not bind or   *)
(* because it panicked (server.rs 90, 102-104; runtime.rs 129-134).        *)
(***************************************************************************)
StartJoins ==
  /\ fwd = "returned" => /\ caught /\ sent
                         /\ \A i \in Used : inst[i] \in {"stopped", "failed"}
  /\ exit = "ok" \/ run = "draining" => \E s \in Services :
                      /\ svc[s] \in {"ended", "errored"}
                      /\ s = "forward" => fwd = "returned"

(***************************************************************************)
(* A signal that is caught ends the server, also when it comes while       *)
(* instances are still binding (server.rs 88, 96-104); start() may only    *)
(* panic over the handler of the other signal (line 116).                  *)
(***************************************************************************)
ShutdownStops ==
  caught ~> fwd \in {"returned", "panicked"} \/ run = "draining" \/ exit # "none"

Busy == \E i \in Instances : conns[i] > 0

(***************************************************************************)
(* runtime.rs:128, "any error will terminate the program": a service that  *)
(* returns an error or panics, whenever it does and whatever the others    *)
(* do, ends the process.  Before that the relay workers on the blocking    *)
(* threads are waited for (main.rs 34): a peer that keeps its connection   *)
(* open holds the process up.                                              *)
(***************************************************************************)
ErrorEndsAll ==
  (host = "program" /\ \E s \in Services : Failed(s))
     ~> exit # "none" \/ (run = "draining" /\ Busy)

(***************************************************************************)
(* After the broadcast every UDP task ends for good, but for one that      *)
(* subscribed too late (server.rs 336) while the owner of the server keeps *)
(* the sender: that one goes on when start() has long returned.            *)
(***************************************************************************)
UdpEnds ==
  \A i \in Instances :
    sent ~> [](udp[i] = "serving" =>
                 \/ exit # "none" \/ run = "draining"
                 \/ host = "library" /\ udpRx[i] = "after" /\ ~dropped)
============================================================================
