----------------------------- MODULE TokenBucket -----------------------------
(***************************************************************************)
(* What the rate limit of the beacon promises ("~60 events/min"): every    *)
(* client has a level of at most Capacity tokens, an admitted beacon takes *)
(* one, and time brings one back per step, whether the client is heard of  *)
(* or not.                                                                 *)
(***************************************************************************)
EXTENDS Naturals

CONSTANTS Ips, Capacity
VARIABLE level

LInit == level = [ip \in Ips |-> Capacity]

Admit(ip) == level[ip] >= 1 /\ level' = [level EXCEPT ![ip] = @ - 1]
Refill == level' = [ip \in Ips |-> IF level[ip] < Capacity THEN level[ip] + 1 ELSE Capacity]

LNext == Refill \/ \E ip \in Ips : Admit(ip)
LSpec == LInit /\ [][LNext]_level
=============================================================================
