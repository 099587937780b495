---------------------------- MODULE MCLifecycle ----------------------------
(***************************************************************************)
(* Up to two instances, so that one can bind while the other already       *)
(* serves or has failed, under the program with every choice of services,  *)
(* and under an owner that may keep the server.  The files hold good and   *)
(* bad values of every field.                                              *)
(***************************************************************************)
EXTENDS Lifecycle, TLC

MCNumber == ("0" :> 0) @@ ("1" :> 1) @@ ("80" :> 80) @@ ("81" :> 81)
MCIpTexts == {<<"10.0.0.1">>, <<"", "", "1">>}
MCPaddedIps == {<<" 10.0.0.1">>}

Proxy(local, remote, source) ==
  [local |-> local, remote |-> remote, source |-> source]
Good == Proxy(<<"80">>, <<"10.0.0.1", "80">>, "none")
Other == Proxy(<<" 10.0.0.1", "81">>, <<"", "", "1", "80">>, "null")

Suspects == {Good, Other,
  Proxy(<<"", "", "1", "81">>, <<"10.0.0.1", "80">>, "none"),
  Proxy(<<"81">>, <<"80">>, "none"),
  Proxy(<<"81">>, <<"10.0.0.1", "0">>, "none"),
  Proxy(<<"0">>, <<"10.0.0.1", "80">>, "none"),
  Proxy(<<"80">>, <<"10.0.0.1", "x">>, "ip"),
  Proxy(<<"x", "81">>, <<"10.0.0.1", "80">>, "ip"),
  Proxy(<<"81">>, <<" 10.0.0.1", "80">>, "blank"),
  Proxy(<<"81">>, <<"10.0.0.1", "80">>, "bad")}

Section(server, source) == [server |-> <<server>>, local |-> <<"80">>, source |-> source]

(* Every choice of services, every pair of proxies, every bind IP and a    *)
(* few lists of reverse proxies.                                           *)
MCConfigs ==
  {[Empty EXCEPT !.proxies = ps, !.server = s, !.client = c] :
     ps \in {<<>>, <<Good>>, <<Good, Other>>}, s \in {NoServer, 80}, c \in {"none", "ip", "name"}}
  \cup {[Empty EXCEPT !.proxies = <<p, q>>] : p \in {Good, Other}, q \in Suspects}
  \cup {[Empty EXCEPT !.bind = b, !.server = 0] : b \in BindClasses}
  \cup {[Empty EXCEPT !.reverse = <<Section("80", u), Section(v, "none")>>, !.server = s] :
          u \in SourceClasses, v \in {"80", "81", "x"}, s \in {NoServer, 1}}
============================================================================
