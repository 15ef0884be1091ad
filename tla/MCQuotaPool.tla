---------------------------- MODULE MCQuotaPool ----------------------------
(* Instances of QuotaPool: a root pool with two buckets. *)
EXTENDS QuotaPool

MCNode == {"root", "a", "b"}
MCChain == [m \in MCNode |-> IF m = "root" THEN <<m>> ELSE <<m, "root">>]
MCMaxBytes0 == [m \in MCNode |-> CASE m = "root" -> 2 [] m = "a" -> 1 [] m = "b" -> 0]
MCCommitted0 == [m \in MCNode |-> IF m = "a" THEN 0 ELSE 1]
=============================================================================
