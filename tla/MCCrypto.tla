------------------------------ MODULE MCCrypto ------------------------------
(* CryptoRuntime with the configurations that build_merged_config makes of   *)
(* small databases: policies that move to another slot, change their key or  *)
(* have none, share one, have an id too large for the wire; a key exchange;  *)
(* two profiles; no policies at all.                                         *)
EXTENDS CryptoRuntime

CONSTANTS kA, kB, kC, h, i1, i2

f1 == [src |-> h, dst |-> i1]
f2 == [src |-> h, dst |-> i2]
SmallFlows == {f1, f2}

Row(db, prio, action, method, key, flows) ==
  [db |-> db, prio |-> prio, action |-> action, method |-> method, key |-> key,
   identity |-> TRUE, match |-> <<flows>>]
A(key) == Row(1, 10, "L3", "gcm", key, {f1})
B == Row(2, 20, "L2", "ctr", kB, {f2})
P == Row(3, 5, "L4", "pqc", None, {f2})
Far == Row(7, 30, "L3", "ctr", kC, {f1})
Shares == Row(6, 5, "L4", "gcm", kB, {f1})
Open == Row(5, 40, "bypass", "gcm", None, SmallFlows)

Lan(n) == [ifname |-> n, subnet |-> n]
Wan(n) == [ifname |-> n, peer |-> n, weight |-> 1]
Profile(lan, wan, rows) == [lans |-> <<Lan(lan)>>, wans |-> <<Wan(wan)>>, policies |-> rows]

One(rows) == BuildMergedConfig(<<Profile("l1", "w1", rows)>>, <<1>>, {"l1", "w1"})
Two(rows1, rows2, lans, wans) ==
  BuildMergedConfig(<<Profile(lans[1], wans[1], rows1), Profile(lans[2], wans[2], rows2)>>, <<1, 2>>,
                    Range(lans) \cup Range(wans))

(* The interfaces of two profiles may not be the same, and each must exist.  *)
ASSUME /\ ~Two({A(kA)}, {B}, <<"l1", "l2">>, <<"w1", "w1">>).ok
       /\ ~BuildMergedConfig(<<Profile("l1", "w1", {A(kA)})>>, <<1>>, {"w1"}).ok

Loaded == {One({A(kA), B}), One({B, Far, A(kC)}), One({A(ZeroKey), P, Shares}), One({}),
           Two({B, Open}, {A(kA)}, <<"l1", "l2">>, <<"w1", "w2">>)}
Size(n, padded, ports) ==
  [len |-> n, total |-> IF padded THEN n - 20 ELSE n - 14, ihl |-> 20, ports |-> ports,
   thl |-> IF ports THEN 20 ELSE 0, marked |-> FALSE, accepted |-> TRUE]
(* VRRP, say: the L2 receiver of a CTR frame does not know its protocol.     *)
Unknown(p) == [p EXCEPT !.accepted = FALSE]
SmallSizes == {Size(60, TRUE, TRUE), Size(100, FALSE, FALSE), Unknown(Size(100, FALSE, FALSE))}
              \cup {Size(n, FALSE, TRUE) : n \in {1470, 1495, 1514}}
=============================================================================
