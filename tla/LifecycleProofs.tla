-------------------------- MODULE LifecycleProofs --------------------------
(***************************************************************************)
(* Proofs about Lifecycle: types, and how the server and the process end,  *)
(* for every configuration, any number of instances and of connections.    *)
(***************************************************************************)
EXTENDS Lifecycle, TLAPS

USE DEF vars, runVars, fwdVars, instVars

(* The steps, one by one.                                                  *)
LEMMA Steps ==
  ASSUME [Next]_vars
  PROVE  \/ Load \/ StartForward \/ StartServer \/ StartClient
         \/ NoServices \/ SelectAll \/ Drained
         \/ \E s \in Services : ServiceEnds(s)
         \/ TestRemote \/ SpawnInstances \/ InstallHandler \/ InstallPanics
         \/ Broadcast \/ Return \/ OwnerDrops
         \/ \E g \in Signals : Signal(g)
         \/ \E i \in Instances : BindTcp(i) \/ BindFails(i) \/ BindUdp(i)
         \/ \E i \in Instances : Accept(i) \/ ConnEnds(i)
         \/ \E i \in Instances : Stop(i) \/ StopUdp(i)
         \/ UNCHANGED vars
BY DEF Next, Runtime, Forward, Binds

(* Once the process has ended nothing moves.                               *)
LEMMA EndIsFinal == ASSUME [Next]_vars, exit # "none" PROVE UNCHANGED vars
BY DEF Next, Driven

LEMMA TypeInit == Init => TypeOK
<1> SUFFICES ASSUME Init PROVE TypeOK
  OBVIOUS
<1> USE LifecycleAssumption DEF Init
<1>1. /\ svc \in [Services -> {"absent", "running", "ended", "errored", "panicked"}]
      /\ inst \in [Instances -> {"waiting", "bindTcp", "bindUdp", "accepting",
                                 "stopped", "failed"}]
      /\ udp \in [Instances -> {"none", "serving", "ended"}]
  BY DEF Services
<1>2. rx \in [Instances -> Moments] /\ udpRx \in [Instances -> Moments]
  BY DEF Moments
<1>3. conns \in [Instances -> 0..MaxConns]
  OBVIOUS
<1>4. QED
  BY <1>1, <1>2, <1>3 DEF TypeOK, Signals

(***************************************************************************)
(* Every step keeps the types: no counter of connections passes its bounds *)
(* and no task leaves the states of its code.                              *)
(***************************************************************************)
LEMMA TypeStep == ASSUME TypeOK, [Next]_vars PROVE TypeOK'
<1> USE DEF TypeOK
<1>1. CASE Load
  BY <1>1 DEF Load, Exit
<1>2. CASE StartForward
  BY <1>2 DEF StartForward, Exit, Services
<1>3. CASE StartServer
  BY <1>3 DEF StartServer, Services
<1>4. CASE StartClient
  BY <1>4 DEF StartClient, Exit, Services
<1>5. CASE NoServices \/ SelectAll \/ Drained
  <2>1. UNCHANGED <<host, svc, fwdVars, instVars>>
    BY <1>5 DEF NoServices, SelectAll, Drained
  <2>2. run' \in {"draining", "done"} /\ exit' \in {"none", "ok", "error", "killed"}
    BY <1>5 DEF NoServices, SelectAll, Drained, Exit
  <2>3. QED
    BY <2>1, <2>2
<1>6. ASSUME NEW s \in Services, ServiceEnds(s) PROVE TypeOK'
  BY <1>6 DEF ServiceEnds
<1>7. CASE TestRemote
  BY <1>7 DEF TestRemote
<1>8. CASE SpawnInstances
  BY <1>8 DEF SpawnInstances, Subscribe, Moment, Moments
<1>9. CASE InstallHandler
  BY <1>9 DEF InstallHandler, Signals
<1>10. CASE Broadcast \/ InstallPanics
  BY <1>10 DEF Broadcast, InstallPanics, Services
<1>11. CASE Return
  BY <1>11 DEF Return, Services
<1>12. CASE OwnerDrops
  BY <1>12 DEF OwnerDrops
<1>13. ASSUME NEW g \in Signals, Signal(g) PROVE TypeOK'
  <2>1. caught' \in BOOLEAN /\ exit' \in {"none", "ok", "error", "killed"}
    BY <1>13 DEF Signal, Exit
  <2>2. UNCHANGED <<host, run, svc, fwd, checked, handlers, sent, dropped, instVars>>
    BY <1>13 DEF Signal
  <2>3. QED
    BY <2>1, <2>2
<1>14. ASSUME NEW i \in Instances, BindTcp(i) \/ BindFails(i) \/ BindUdp(i)
       PROVE  TypeOK'
  <2>1. CASE BindTcp(i)
    BY <2>1 DEF BindTcp
  <2>2. CASE BindFails(i)
    BY <2>2 DEF BindFails
  <2>3. CASE BindUdp(i)
    BY <2>3 DEF BindUdp, Moment, Moments
  <2>4. QED
    BY <1>14, <2>1, <2>2, <2>3
<1>15. ASSUME NEW i \in Instances, Accept(i) \/ ConnEnds(i) PROVE TypeOK'
  <2>1. conns[i] \in 0..MaxConns /\ MaxConns \in Nat
    BY LifecycleAssumption
  <2>2. Accept(i) => conns[i] + 1 \in 0..MaxConns
    BY <2>1 DEF Accept
  <2>3. ConnEnds(i) => conns[i] - 1 \in 0..MaxConns
    BY <2>1 DEF ConnEnds
  <2>4. conns' \in [Instances -> 0..MaxConns]
    BY <1>15, <2>2, <2>3 DEF Accept, ConnEnds
  <2>5. QED
    BY <1>15, <2>4 DEF Accept, ConnEnds
<1>16. ASSUME NEW i \in Instances, Stop(i) \/ StopUdp(i) PROVE TypeOK'
  BY <1>16 DEF Stop, StopUdp
<1>17. CASE UNCHANGED vars
  BY <1>17
<1>18. QED
  BY <1>1, <1>2, <1>3, <1>4, <1>5, <1>6, <1>7, <1>8, <1>9, <1>10, <1>11,
     <1>12, <1>13, <1>14, <1>15, <1>16, <1>17, Steps

(***************************************************************************)
(* Every state of the life of the process has its type, for any            *)
(* configuration files and any number of instances (runtime.rs, server.rs).*)
(***************************************************************************)
THEOREM LifecycleTypes == Spec => []TypeOK
BY TypeInit, TypeStep, PTL DEF Spec

----------------------------------------------------------------------------
(* Where the forward proxy is follows where the runtime is, and the        *)
(* configuration is fixed before the first service starts.                 *)
Ordered ==
  /\ run \in {"load", "forward"} => fwd = "absent" /\ svc["forward"] = "absent"
  /\ svc["forward"] = "ended" => fwd = "returned"
  /\ svc["forward"] # "errored"

(* The broadcast follows a signal; start() returns behind the joined tasks.*)
Ending ==
  /\ sent => caught
  /\ fwd \in {"joining", "returned"} => sent
  /\ fwd = "returned" => \A i \in Used : inst[i] \in {"stopped", "failed"}

(* main returns, and the process ends with success, after some service.    *)
SomeoneEnded ==
  exit = "ok" \/ run = "draining" => \E s \in Services : svc[s] \in {"ended", "errored"}

(* Every proxy of the configuration has its instance.                      *)
Fits == Used \subseteq Instances

IInv == TypeOK /\ Fits /\ Ordered /\ Ending /\ SomeoneEnded

(* Of the files that load, the search returns one.                         *)
LEMMA SearchLoads ==
  ASSUME NEW f \in {File(c) : c \in Configs} \cup {NoFile},
         NEW g \in {File(c) : c \in Configs} \cup {NoFile},
         NEW cli \in {[given |-> FALSE], [given |-> TRUE, file |-> f]},
         Search(cli, <<f, g>>) # NoFile
  PROVE  \E c \in Configs : Search(cli, <<f, g>>) = File(c) /\ Accepted(c)
<1> DEFINE found == Search(cli, <<f, g>>)
<1>1. found \in {f, g} /\ Loads(found)
  <2>1. CASE cli = [given |-> TRUE, file |-> f]
    BY <2>1 DEF Search
  <2>2. CASE cli = [given |-> FALSE]
    <3>1. found = <<f, g>>[CHOOSE i \in 1..2 :
                    Loads(<<f, g>>[i]) /\ \A j \in 1..(i - 1) : ~Loads(<<f, g>>[j])]
      BY <2>2 DEF Search
    <3>2. Loads(f) \/ Loads(g)
      BY <2>2 DEF Search
    <3>3. \E i \in 1..2 : Loads(<<f, g>>[i]) /\ \A j \in 1..(i - 1) : ~Loads(<<f, g>>[j])
      <4>1. CASE Loads(f)
        BY <4>1
      <4>2. CASE ~Loads(f)
        BY <3>2, <4>2
      <4>3. QED
        BY <4>1, <4>2
    <3>4. QED
      BY <3>1, <3>3
  <2>3. QED
    BY <2>1, <2>2
<1>2. PICK c \in Configs : found = File(c)
  BY <1>1 DEF Loads
<1>3. Accepted(c)
  BY <1>1, <1>2 DEF Loads, File
<1>4. QED
  BY <1>2, <1>3

(* The repairs touch the bind IP and the source IPs, nothing else.         *)
LEMMA Repairs ==
  ASSUME NEW c \in ConfigFiles, NEW d, d = Sanitised(c)
  PROVE  /\ d \in ConfigFiles
         /\ d.bind = CleanBind(c.bind) /\ d.reverse = c.reverse
         /\ d.server = c.server /\ d.client = c.client
         /\ Len(d.proxies) = Len(c.proxies) /\ DOMAIN d.proxies = DOMAIN c.proxies
         /\ \A i \in DOMAIN c.proxies :
              /\ c.proxies[i] \in ProxySections
              /\ d.proxies[i] \in ProxySections
              /\ d.proxies[i].local = c.proxies[i].local
              /\ d.proxies[i].remote = c.proxies[i].remote
              /\ d.proxies[i].source = CleanSource(c.proxies[i].source)
<1> DEFINE ps == c.proxies
           Repaired(i) == [ps[i] EXCEPT !.source = CleanSource(ps[i].source)]
           qs == [i \in DOMAIN ps |-> Repaired(i)]
<1>1. ps \in Seq(ProxySections) /\ c.bind \in BindClasses
  BY DEF ConfigFiles
<1>2. d = [c EXCEPT !.bind = CleanBind(c.bind), !.proxies = qs]
  BY DEF Sanitised
<1>3. CleanBind(c.bind) \in BindClasses
  BY <1>1 DEF CleanBind, BindClasses
<1>4. ASSUME NEW i \in DOMAIN ps
      PROVE  /\ ps[i] \in ProxySections /\ Repaired(i) \in ProxySections
             /\ Repaired(i).local = ps[i].local /\ Repaired(i).remote = ps[i].remote
             /\ Repaired(i).source = CleanSource(ps[i].source)
  <2>1. ps[i] \in ProxySections
    BY <1>1
  <2>2. CleanSource(ps[i].source) \in SourceClasses
    BY <2>1 DEF ProxySections, CleanSource, SourceClasses
  <2>3. QED
    BY <2>1, <2>2 DEF ProxySections
<1>5. qs \in Seq(ProxySections) /\ Len(qs) = Len(ps) /\ DOMAIN qs = DOMAIN ps
  <2>1. DOMAIN ps = 1..Len(ps) /\ Len(ps) \in Nat
    BY <1>1
  <2>2. qs \in [1..Len(ps) -> ProxySections]
    BY <2>1, <1>4
  <2>3. QED
    BY <2>1, <2>2
<1>6. \A i \in DOMAIN ps : qs[i] = Repaired(i)
  OBVIOUS
<1> HIDE DEF qs, Repaired, ps
<1>7. /\ d \in ConfigFiles
      /\ d.bind = CleanBind(c.bind) /\ d.reverse = c.reverse
      /\ d.server = c.server /\ d.client = c.client /\ d.proxies = qs
  BY <1>2, <1>3, <1>5 DEF ConfigFiles
<1>8. QED
  BY <1>4, <1>5, <1>6, <1>7 DEF ps

(* A port that parses is a u16.                                            *)
LEMMA PortRange ==
  ASSUME NEW text
  PROVE  PortOf(text) \in 0..MaxPort \/ PortOf(text) = Invalid
<1> DEFINE part == text[Len(text)]
<1>1. CASE part \in DOMAIN Number
  <2>1. Number[part] \in 0..MaxPort
    BY <1>1, ConfigAssumption
  <2>2. PortOf(text) = Number[part]
    BY <1>1 DEF PortOf, ParsePort
  <2>3. QED
    BY <2>1, <2>2
<1>2. CASE part \notin DOMAIN Number
  BY <1>2 DEF PortOf, ParsePort
<1>3. QED
  BY <1>1, <1>2

(* What the validation says of a list of proxies depends on their          *)
(* addresses and on which source IPs are bad, which the repairs keep.      *)
LEMMA RepairedAccepted ==
  ASSUME NEW c \in ConfigFiles, NEW d, d = Sanitised(c), Accepted(c)
  PROVE  Accepted(d)
<1> DEFINE ps == c.proxies
           qs == d.proxies
<1>1. \A i \in DOMAIN ps : /\ LocalPort(qs[i]) = LocalPort(ps[i])
                            /\ RemotePort(qs[i]) = RemotePort(ps[i])
                            /\ SeenPort(qs[i]) = SeenPort(ps[i])
  BY Repairs DEF LocalPort, RemotePort, SeenPort
<1>2. DOMAIN qs = DOMAIN ps
  BY Repairs
<1>3. [i \in DOMAIN qs |-> SeenPort(qs[i])] = [i \in DOMAIN ps |-> SeenPort(ps[i])]
  BY <1>1, <1>2
<1>4. ASSUME NEW i \in DOMAIN qs PROVE ~ProxyRefused(qs, i)
  <2>1. ~ProxyRefused(ps, i)
    BY <1>2 DEF Accepted
  <2>2. qs[i].source = "bad" <=> ps[i].source = "bad"
    BY <1>2, Repairs DEF CleanSource
  <2>3. QED
    BY <2>1, <2>2, <1>1, <1>2, <1>3 DEF ProxyRefused
<1>5. d.bind # "bad"
  BY Repairs DEF Accepted, CleanBind
<1>6. d.reverse = c.reverse /\ d.server = c.server /\ d.client = c.client
  BY Repairs
<1>7. QED
  BY <1>4, <1>5, <1>6 DEF Accepted

(* A repaired configuration needs no repair.                               *)
LEMMA RepairOnce ==
  ASSUME NEW c \in ConfigFiles, NEW d, d = Sanitised(c)
  PROVE  Sanitised(d) = d
<1>1. d \in ConfigFiles
  BY Repairs
<1>2. CleanBind(d.bind) = d.bind
  BY Repairs DEF CleanBind
<1>3. ASSUME NEW i \in DOMAIN d.proxies
      PROVE  [d.proxies[i] EXCEPT !.source = CleanSource(d.proxies[i].source)]
               = d.proxies[i]
  <2>1. d.proxies[i] \in ProxySections
    BY Repairs
  <2>2. CleanSource(d.proxies[i].source) = d.proxies[i].source
    BY Repairs DEF CleanSource
  <2>3. QED
    BY <2>1, <2>2 DEF ProxySections
<1>4. [i \in DOMAIN d.proxies |->
          [d.proxies[i] EXCEPT !.source = CleanSource(d.proxies[i].source)]]
        = d.proxies
  <2>1. d.proxies \in Seq(ProxySections)
    BY <1>1 DEF ConfigFiles
  <2> DEFINE qs == d.proxies
             Again(i) == [qs[i] EXCEPT !.source = CleanSource(qs[i].source)]
  <2>2. qs = [i \in DOMAIN qs |-> qs[i]]
    BY <2>1
  <2>3. \A i \in DOMAIN qs : Again(i) = qs[i]
    BY <1>3
  <2> HIDE DEF Again
  <2>4. [i \in DOMAIN qs |-> Again(i)] = [i \in DOMAIN qs |-> qs[i]]
    BY <2>3
  <2>5. QED
    BY <2>2, <2>4 DEF Again
<1>5. QED
  BY <1>1, <1>2, <1>4 DEF Sanitised, ConfigFiles

(* The ports of accepted proxies can be bound, and one by each.            *)
LEMMA PortsBindable ==
  ASSUME NEW c \in ConfigFiles, Accepted(c)
  PROVE  \A i, j \in DOMAIN c.proxies :
           /\ LocalPort(c.proxies[i]) \in 1..MaxPort
           /\ i # j => LocalPort(c.proxies[i]) # LocalPort(c.proxies[j])
<1> DEFINE ps == c.proxies
           seen == [i \in DOMAIN ps |-> SeenPort(ps[i])]
<1>1. DOMAIN ps = 1..Len(ps) /\ Len(ps) \in Nat
  BY DEF ConfigFiles
<1>2. ASSUME NEW i \in DOMAIN ps
      PROVE  LocalPort(ps[i]) \in 1..MaxPort /\ seen[i] = LocalPort(ps[i])
  <2>1. ~Unusable(LocalPort(ps[i])) /\ ~Unusable(RemotePort(ps[i]))
    BY DEF Accepted, ProxyRefused
  <2>2. LocalPort(ps[i]) \in 0..MaxPort \/ LocalPort(ps[i]) = Invalid
    BY PortRange DEF LocalPort
  <2>3. QED
    BY <2>1, <2>2 DEF Unusable, SeenPort
<1>3. ASSUME NEW i \in DOMAIN ps, NEW j \in DOMAIN ps, j < i
      PROVE  LocalPort(ps[i]) # LocalPort(ps[j])
  <2>1. ~Repeated(seen, i)
    BY DEF Accepted, ProxyRefused
  <2>2. seen[i] # Invalid
    BY <1>2 DEF Invalid
  <2>3. j \in 1..(i - 1)
    BY <1>1, <1>3
  <2>4. seen[j] # seen[i]
    BY <2>1, <2>2, <2>3 DEF Repeated
  <2>5. QED
    BY <2>4, <1>2
<1>4. ASSUME NEW i \in DOMAIN ps, NEW j \in DOMAIN ps, i # j
      PROVE  LocalPort(ps[i]) # LocalPort(ps[j])
  <2>1. i < j \/ j < i
    BY <1>1, <1>4
  <2>2. QED
    BY <2>1, <1>3
<1>5. QED
  BY <1>2, <1>4

(* Accepted, repaired, and every host an IP: build() succeeds.             *)
LEMMA IpsBuild ==
  ASSUME NEW c \in ConfigFiles, NEW d, d = Sanitised(c), Accepted(c),
         \A i \in DOMAIN d.proxies : HostsAreIps(d.proxies[i])
  PROVE  Builds(d)
<1> SUFFICES ASSUME NEW i \in DOMAIN d.proxies PROVE ~AddProxyFails(d.proxies[i])
  BY DEF Builds
<1> DEFINE p == d.proxies[i]
<1>2. ~ProxyRefused(d.proxies, i)
  BY RepairedAccepted DEF Accepted
<1>3. LocalPort(p) # Invalid /\ RemotePort(p) # Invalid
  BY <1>2 DEF ProxyRefused, Unusable
<1>4. p.source \in {"none", "ip"}
  <2>1. c.proxies[i].source \in SourceClasses /\ p.source = CleanSource(c.proxies[i].source)
    BY Repairs DEF ProxySections
  <2>2. p.source # "bad"
    BY <1>2 DEF ProxyRefused
  <2>3. QED
    BY <2>1, <2>2 DEF SourceClasses, CleanSource
<1>5. HostsAreIps(p)
  OBVIOUS
<1>6. QED
  BY <1>3, <1>4, <1>5 DEF AddProxyFails, HostsAreIps

(* The program's configuration comes from a file that was accepted.        *)
LEMMA LoadedSound ==
  ASSUME Load, config' # config
  PROVE  \E c \in ConfigFiles : /\ config' = Sanitised(c) /\ Accepted(c)
                                /\ Len(c.proxies) <= MaxProxies
<1>1. PICK f, g \in {File(c) : c \in Configs} \cup {NoFile} :
        \E cli \in {[given |-> FALSE], [given |-> TRUE, file |-> f]} :
          /\ Search(cli, <<f, g>>) # NoFile
          /\ config' = Sanitised(Search(cli, <<f, g>>).config)
  BY DEF Load
<1>2. PICK cli \in {[given |-> FALSE], [given |-> TRUE, file |-> f]} :
        /\ Search(cli, <<f, g>>) # NoFile
        /\ config' = Sanitised(Search(cli, <<f, g>>).config)
  BY <1>1
<1>3. PICK c \in Configs : Search(cli, <<f, g>>) = File(c) /\ Accepted(c)
  BY <1>2, SearchLoads
<1>4. QED
  BY <1>2, <1>3, LifecycleAssumption DEF File

(* Only Load changes the configuration, and nothing who runs the server.   *)
LEMMA ConfigFixed ==
  ASSUME [Next]_vars PROVE UNCHANGED host /\ (~Load => UNCHANGED config)
BY DEF Next, Runtime, Forward, Binds, StartForward, StartServer, StartClient, Load,
       NoServices, SelectAll, Drained, ServiceEnds, TestRemote, SpawnInstances,
       InstallHandler, InstallPanics, Broadcast, Return, OwnerDrops, Signal, BindTcp,
       BindFails, BindUdp, Accept, ConnEnds, Stop, StopUdp

LEMMA FitsStep == ASSUME IInv, [Next]_vars PROVE Fits'
<1>1. CASE config' # config
  <2>1. PICK c \in ConfigFiles : /\ config' = Sanitised(c)
                                /\ Len(c.proxies) <= MaxProxies
    BY <1>1, ConfigFixed, LoadedSound
  <2>2. DOMAIN c.proxies = 1..Len(c.proxies) /\ Len(c.proxies) \in Nat
    BY DEF ConfigFiles
  <2>3. DOMAIN config'.proxies = DOMAIN c.proxies
    BY <2>1, Repairs
  <2>4. QED
    BY <2>1, <2>2, <2>3, LifecycleAssumption DEF Fits, Used, Instances
<1>2. CASE UNCHANGED config
  BY <1>2 DEF IInv, Fits, Used
<1>3. QED
  BY <1>1, <1>2

LEMMA OrderedStep == ASSUME IInv, [Next]_vars PROVE Ordered'
<1> USE DEF IInv, TypeOK, Ordered, Services
<1>1. CASE Load \/ StartForward \/ StartServer \/ StartClient
  BY <1>1 DEF Load, StartForward, StartServer, StartClient
<1>2. CASE NoServices \/ SelectAll \/ Drained
  BY <1>2 DEF NoServices, SelectAll, Drained
<1>3. ASSUME NEW s \in Services, ServiceEnds(s) PROVE Ordered'
  BY <1>3 DEF ServiceEnds
<1>4. CASE TestRemote \/ SpawnInstances \/ InstallHandler \/ Broadcast
  BY <1>4 DEF TestRemote, SpawnInstances, InstallHandler, Broadcast
<1>5. CASE Return \/ OwnerDrops \/ InstallPanics
  BY <1>5 DEF Return, OwnerDrops, InstallPanics
<1>6. ASSUME NEW g \in Signals, Signal(g) PROVE Ordered'
  BY <1>6 DEF Signal
<1>7. ASSUME NEW i \in Instances, \/ BindTcp(i) \/ BindFails(i) \/ BindUdp(i)
                                 \/ Accept(i) \/ ConnEnds(i) \/ Stop(i) \/ StopUdp(i)
      PROVE  Ordered'
  BY <1>7 DEF BindTcp, BindFails, BindUdp, Accept, ConnEnds, Stop, StopUdp
<1>8. CASE UNCHANGED vars
  BY <1>8
<1>9. QED
  BY <1>1, <1>2, <1>3, <1>4, <1>5, <1>6, <1>7, <1>8, Steps

LEMMA EndingStep == ASSUME IInv, [Next]_vars PROVE Ending'
<1> USE DEF IInv, TypeOK, Ordered, Ending, Used
<1>1. CASE Load
  BY <1>1 DEF Load
<1>2. CASE StartForward \/ StartServer \/ StartClient
  BY <1>2 DEF StartForward, StartServer, StartClient
<1>3. CASE NoServices \/ SelectAll \/ Drained
  BY <1>3 DEF NoServices, SelectAll, Drained
<1>4. ASSUME NEW s \in Services, ServiceEnds(s) PROVE Ending'
  BY <1>4 DEF ServiceEnds
<1>5. CASE TestRemote \/ SpawnInstances \/ InstallHandler \/ InstallPanics \/ Broadcast
  BY <1>5 DEF TestRemote, SpawnInstances, InstallHandler, InstallPanics, Broadcast
<1>6. CASE Return \/ OwnerDrops
  BY <1>6 DEF Return, OwnerDrops, Joined
<1>7. ASSUME NEW g \in Signals, Signal(g) PROVE Ending'
  BY <1>7 DEF Signal
<1>8. ASSUME NEW i \in Instances, BindTcp(i) \/ BindFails(i) \/ BindUdp(i) \/ Stop(i)
      PROVE  Ending'
  <2>1. inst[i] \notin {"stopped", "failed"}
    BY <1>8 DEF BindTcp, BindFails, BindUdp, Stop
  <2>2. UNCHANGED <<sent, caught, fwd, config>>
    BY <1>8 DEF BindTcp, BindFails, BindUdp, Stop
  <2>3. PICK place : inst' = [inst EXCEPT ![i] = place]
    BY <1>8 DEF BindTcp, BindFails, BindUdp, Stop
  <2>4. fwd = "returned" => i \notin Used
    BY <2>1
  <2>5. fwd = "returned" => \A j \in Used : inst'[j] \in {"stopped", "failed"}
    BY <2>3, <2>4 DEF Fits
  <2>6. QED
    BY <2>2, <2>5
<1>9. ASSUME NEW i \in Instances, Accept(i) \/ ConnEnds(i) \/ StopUdp(i)
      PROVE  Ending'
  BY <1>9 DEF Accept, ConnEnds, StopUdp
<1>10. CASE UNCHANGED vars
  BY <1>10
<1>11. QED
  BY <1>1, <1>2, <1>3, <1>4, <1>5, <1>6, <1>7, <1>8, <1>9, <1>10, Steps

LEMMA SomeoneEndedStep == ASSUME IInv, [Next]_vars PROVE SomeoneEnded'
<1> USE DEF IInv, TypeOK, SomeoneEnded
<1>1. CASE exit # "none"
  BY <1>1, EndIsFinal
<1>2. CASE exit = "none"
  <2> USE <1>2
  <2>1. CASE Load \/ StartForward \/ StartServer \/ StartClient
    BY <2>1 DEF Load, StartForward, StartServer, StartClient, Exit
  <2>2. CASE NoServices \/ Drained
    BY <2>2 DEF NoServices, Drained, Exit
  <2>10. CASE SelectAll
    <3> HIDE DEF IInv, TypeOK, SomeoneEnded
    <3>0. PICK s \in Services :
            /\ FirstOver(s)
            /\ IF svc[s] = "panicked" THEN Exit("error") /\ run' = "done"
               ELSE run' = "draining" /\ UNCHANGED exit
      BY <2>10 DEF SelectAll
    <3>1. svc[s] = "panicked" => run' = "done" /\ exit' = "error"
      BY <3>0 DEF Exit
    <3>2. svc[s] \in {"ended", "errored", "panicked"} /\ UNCHANGED svc
      BY <2>10, <3>0 DEF SelectAll, FirstOver, Over, Failed
    <3>3. QED
      BY <3>1, <3>2 DEF SomeoneEnded
  <2>3. ASSUME NEW s \in Services, ServiceEnds(s) PROVE SomeoneEnded'
    BY <2>3 DEF ServiceEnds
  <2>4. CASE TestRemote \/ SpawnInstances \/ InstallHandler \/ Broadcast \/ OwnerDrops
    BY <2>4 DEF TestRemote, SpawnInstances, InstallHandler, Broadcast, OwnerDrops
  <2>5. CASE Return
    <3>1. \E s \in Services : svc'[s] = "ended"
      BY <2>5 DEF Return, Services
    <3>2. QED
      BY <3>1
  <2>11. CASE InstallPanics
    <3>1. exit = "none" /\ UNCHANGED <<exit, run>>
      BY <2>11 DEF InstallPanics
    <3>2. \A s \in Services : svc[s] \in {"ended", "errored"} => s # "forward"
      BY <2>11 DEF InstallPanics, Ordered
    <3>3. \A s \in Services : svc[s] \in {"ended", "errored"} => svc'[s] = svc[s]
      BY <2>11, <3>2 DEF InstallPanics
    <3>4. QED
      BY <3>1, <3>3
  <2>6. ASSUME NEW g \in Signals, Signal(g) PROVE SomeoneEnded'
    BY <2>6 DEF Signal, Exit
  <2>7. ASSUME NEW i \in Instances, \/ BindTcp(i) \/ BindFails(i) \/ BindUdp(i)
                                   \/ Accept(i) \/ ConnEnds(i) \/ Stop(i) \/ StopUdp(i)
        PROVE  SomeoneEnded'
    BY <2>7 DEF BindTcp, BindFails, BindUdp, Accept, ConnEnds, Stop, StopUdp
  <2>8. CASE UNCHANGED vars
    BY <2>8
  <2>9. QED
    BY <2>1, <2>2, <2>3, <2>4, <2>5, <2>6, <2>7, <2>8, <2>10, <2>11, Steps
<1>3. QED
  BY <1>1, <1>2

(***************************************************************************)
(* start() returns only after a caught signal and with every accept loop   *)
(* stopped, and the process ends with success only behind a service that   *)
(* has returned, whatever binds fail, whichever task panics and whenever   *)
(* the signal comes (server.rs 86-117, runtime.rs 129-134).                *)
(***************************************************************************)
THEOREM ServerJoins == Spec => []StartJoins
<1>1. Init => IInv
  <2> SUFFICES ASSUME Init PROVE IInv
    OBVIOUS
  <2>1. Fits
    <3>1. CASE host = "program"
      BY <3>1 DEF Init, Empty, Fits, Used
    <3>2. CASE host # "program"
      BY <3>2, LifecycleAssumption DEF Init, Fits, Used, Instances
    <3>3. QED
      BY <3>1, <3>2
  <2>2. QED
    BY TypeInit, <2>1 DEF Init, IInv, Ordered, Ending, SomeoneEnded, Services
<1>2. IInv /\ [Next]_vars => IInv'
  BY TypeStep, FitsStep, OrderedStep, EndingStep, SomeoneEndedStep DEF IInv
<1>3. IInv => StartJoins
  BY DEF IInv, Ordered, Ending, SomeoneEnded, StartJoins
<1>4. QED
  BY <1>1, <1>2, <1>3, PTL DEF Spec

----------------------------------------------------------------------------
(***************************************************************************)
(* Whatever the files hold and whichever the search finds: the             *)
(* configuration the program runs with is accepted, needs no repair, gives *)
(* every forward proxy a port of its own that is not zero, and builds if   *)
(* its hosts are IP addresses (loader.rs 343-413, server.rs 33-67).  The   *)
(* control port, which validate never sees, is any u16.                    *)
(***************************************************************************)
THEOREM ConfigIsSound == Spec => []ConfigSound
<1>1. Init => ConfigSound
  BY DEF Init, ConfigSound
<1>2. ASSUME ConfigSound, [Next]_vars PROVE ConfigSound'
  <2>1. CASE UNCHANGED config
    BY <1>2, <2>1, ConfigFixed DEF ConfigSound, Used
  <2>2. CASE config' # config
    <3>1. PICK c \in ConfigFiles : config' = Sanitised(c) /\ Accepted(c)
      BY <1>2, <2>2, ConfigFixed, LoadedSound
    <3> DEFINE d == config'
    <3>2. d \in ConfigFiles
      BY <3>1, Repairs
    <3>3. Accepted(d) /\ Sanitised(d) = d
      BY <3>1, RepairedAccepted, RepairOnce
    <3>4. \A i, j \in DOMAIN d.proxies :
             /\ LocalPort(d.proxies[i]) \in 1..MaxPort
             /\ i # j => LocalPort(d.proxies[i]) # LocalPort(d.proxies[j])
      BY <3>2, <3>3, PortsBindable
    <3>5. (\A i \in DOMAIN d.proxies : HostsAreIps(d.proxies[i])) => Builds(d)
      BY <3>1, IpsBuild
    <3>6. QED
      BY <3>3, <3>4, <3>5 DEF ConfigSound, Used
  <2>3. QED
    BY <2>1, <2>2
<1>3. QED
  BY <1>1, <1>2, PTL DEF Spec
============================================================================
