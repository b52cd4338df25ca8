----------------------------- MODULE MCLazyLock -----------------------------
(* LazyLock on small instances: three threads, one or two partitions. *)
EXTENDS LazyLock, TLC

CONSTANTS t1, t2, t3, a, b

TwoThreads   == <<t1, t2>>
ThreeThreads == <<t1, t2, t3>>

OnePartition  == [tag \in Tag |-> 0]
TwoPartitions == (a :> 0) @@ (b :> 1)
=============================================================================
