------------------------------- MODULE Config -------------------------------
(***************************************************************************)
(* The configuration of config/loader.rs: the search for a file, its       *)
(* validation, the addresses in it, and what the server makes of them      *)
(* (proxy/server.rs, add_proxy).                                           *)
(*                                                                         *)
(* An address text is the sequence of its parts between colons, so that    *)
(* split(':') and join(":") are free.  Of a source or bind IP only what    *)
(* trim() and parse() tell apart is kept.                                  *)
(***************************************************************************)
EXTENDS Integers, Sequences

CONSTANTS
  Number,      \* Number[part]: the u16 a part parses to; others do not parse
  IpTexts,     \* the texts that parse as an IP address ...
  PaddedIps    \* ... and those that do once they are trimmed

MaxPort == 65535   \* u16::MAX
Invalid == -1

SourceClasses == {"none", "blank", "null", "ip", "bad"}
BindClasses == {"none", "blank", "padded", "ip", "bad"}
ClientClasses == {"none", "ip", "name"}
NoFile == [kind |-> "missing"]
NoServer == -1     \* no reverse_proxy_server section

(* What serde makes of a file.  split(':') leaves one part at least.       *)
Texts == Seq(STRING) \ {<<>>}
ProxySections == [local : Texts, remote : Texts, source : SourceClasses]
ReverseSections == [server : Texts, local : Texts, source : SourceClasses]
ConfigFiles == [bind : BindClasses, proxies : Seq(ProxySections),
                reverse : Seq(ReverseSections),
                server : {NoServer} \cup 0..MaxPort, \* the control port
                client : ClientClasses]

ASSUME ConfigAssumption ==
  /\ \A part \in DOMAIN Number : Number[part] \in 0..MaxPort
  /\ IpTexts \cap PaddedIps = {} /\ <<"localhost">> \notin IpTexts
----------------------------------------------------------------------------
(* ProxySection and ReverseProxySection.                                   *)
ParsePort(part) == IF part \in DOMAIN Number THEN Number[part] ELSE Invalid

HasColon(text) == Len(text) > 1

PortOf(text) == ParsePort(text[Len(text)])
HostOf(text) == SubSeq(text, 1, Len(text) - 1)

(* The local side of a forward proxy knows no IPv6: exactly one colon.     *)
LocalPort(p) ==
  IF HasColon(p.local) /\ Len(p.local) # 2 THEN Invalid ELSE PortOf(p.local)

LocalIp(p) == IF Len(p.local) = 2 THEN HostOf(p.local) ELSE <<>>

RemoteHost(p) == IF HasColon(p.remote) THEN HostOf(p.remote) ELSE <<"localhost">>

RemotePort(p) == PortOf(p.remote)

ServerPort(r) == PortOf(r.server)
TargetPort(r) == PortOf(r.local)
----------------------------------------------------------------------------
(* ConfigFile::validate.  A section with a port that does not parse is     *)
(* left at once, so that it takes no part in the search for duplicates.    *)
(* The control port is not looked at: it may be 0 or that of a proxy.      *)
Unusable(port) == port \in {Invalid, 0}

Repeated(ports, i) ==
  ports[i] # Invalid /\ \E j \in 1..(i - 1) : ports[j] = ports[i]

SeenPort(p) == IF RemotePort(p) = Invalid THEN Invalid ELSE LocalPort(p)

ProxyRefused(ps, i) ==
  \/ Unusable(LocalPort(ps[i])) \/ Unusable(RemotePort(ps[i]))
  \/ Repeated([j \in DOMAIN ps |-> SeenPort(ps[j])], i)
  \/ ps[i].source = "bad"

ReverseRefused(rs, i) ==
  \/ Unusable(ServerPort(rs[i])) \/ Unusable(TargetPort(rs[i]))
  \/ Repeated([j \in DOMAIN rs |-> ServerPort(rs[j])], i)
  \/ rs[i].source = "bad"

Accepted(c) ==
  /\ c.reverse # <<>> => c.server # NoServer \/ c.client # "none"
  /\ c.bind # "bad"
  /\ \A i \in DOMAIN c.proxies : ~ProxyRefused(c.proxies, i)
  /\ \A i \in DOMAIN c.reverse : ~ReverseRefused(c.reverse, i)

(* The repairs validate makes, each with a warning.  The source IP of a    *)
(* reverse proxy is warned about and kept.                                 *)
KeptSource(s) == s \* faulty variant
CleanSource(s) == IF s \in {"blank", "null"} THEN "none" ELSE s

CleanBind(b) == IF b \in {"blank", "padded"} THEN "ip" ELSE b

Sanitised(c) ==
  [c EXCEPT !.bind = CleanBind(c.bind),
            !.proxies = [i \in DOMAIN c.proxies |->
                [c.proxies[i] EXCEPT !.source = CleanSource(c.proxies[i].source)]]]

(* load_with_search: a path given on the command line is the only one,     *)
(* else the first file that loads; one that does not is passed over.       *)
Loads(f) == f # NoFile /\ Accepted(f.config)

Search(cli, files) ==
  IF cli.given THEN IF Loads(cli.file) THEN cli.file ELSE NoFile
  ELSE IF \E i \in DOMAIN files : Loads(files[i])
       THEN files[CHOOSE i \in DOMAIN files :
                    Loads(files[i]) /\ \A j \in 1..(i - 1) : ~Loads(files[j])]
       ELSE NoFile
----------------------------------------------------------------------------
(* ProxyServer::add_proxy: local and source IPs are trimmed, a remote host *)
(* is not, and must be an IP.                                              *)
AddProxyFails(p) ==
  \/ LocalPort(p) = Invalid \/ RemotePort(p) = Invalid
  \/ LocalIp(p) # <<>> /\ LocalIp(p) \notin IpTexts \cup PaddedIps
  \/ RemoteHost(p) \notin IpTexts
  \/ p.source \notin {"none", "ip"}

Builds(c) == \A i \in DOMAIN c.proxies : ~AddProxyFails(c.proxies[i])
=============================================================================
