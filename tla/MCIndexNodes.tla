---------------------------- MODULE MCIndexNodes ----------------------------
(* Nodes of four keys, the smallest that can be split and borrowed from, in  *)
(* blocks of zeros, ones full of one value, and ones that were full nodes.   *)
EXTENDS IndexNodes

MCEntries == {[key |-> k, item |-> 20 + k] : k \in Keys}

MCStale ==
    {Blank, [c \in DOMAIN Blank |-> 9],
     [c \in DOMAIN Blank |-> IF c = TotalCell THEN Capacity + 1 ELSE c]}
=============================================================================
