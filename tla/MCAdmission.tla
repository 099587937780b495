---------------------------- MODULE MCAdmission ----------------------------
(***************************************************************************)
(* Instances of Admission for TLC: three connections and two packets of    *)
(* one client compete for the limits of one IP; a third packet comes from  *)
(* an IP that is not on the allow list.                                    *)
(***************************************************************************)
EXTENDS Admission, TLC

CONSTANTS c1, c2, c3, p1, p2, p3, a1, a2, ip1, ip2

Ip == [x \in Conns \cup Addrs |-> IF x = a2 THEN ip2 ELSE ip1]
Addr == [p \in Packets |-> IF p = p3 THEN a2 ELSE a1]
Interchangeable == Permutations({c1, c2, c3}) \cup Permutations({p1, p2})

============================================================================
