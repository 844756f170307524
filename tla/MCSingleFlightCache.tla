------------------------ MODULE MCSingleFlightCache ------------------------
(***************************************************************************)
(* Values for the constants of SingleFlightCache, and three plans that     *)
(* limit what is asked of the cache: two nest loads and block over both    *)
(* shards beside close() or len(), and "evicting" makes one more call and  *)
(* overfills the shard that may hold two values.                           *)
(***************************************************************************)
EXTENDS SingleFlightCache, TLC

CONSTANTS a, b, c, d, x, y

TwoShards == (a :> 1) @@ (b :> 1) @@ (c :> 1) @@ (d :> 2)
NestedLoads == (a :> {b}) @@ (b :> {b}) @@ (c :> {}) @@ (d :> {})

VARIABLE plan
planned == <<vars, plan>>

PlannedInit ==
    /\ Init /\ plan \in {"closing", "counting", "evicting"}
    /\ plan # "closing" => ttl > 0

AskedBeside(t) == calls < MaxCalls - 1 /\ \E k \in {a, b, d} : Enter(t, k)
Asked ==
    \/ plan = "closing" /\ ((\E t \in Threads : AskedBeside(t)) \/ \E k \in Closers : StartClose(k))
    \/ plan = "counting" /\ ((\E t \in Threads : AskedBeside(t)) \/ \E k \in Counters : StartLen(k))
    \/ plan = "evicting" /\ \E t \in Threads, k \in {a, b, c} : Enter(t, k)

PlannedNext ==
    /\ \/ Asked
       \/ \E t \in Threads : CallStep(t) \/ LoaderEnds(t)
       \/ \E k \in Closers : DrainShard(k)
       \/ \E k \in Counters : LenShard(k)
       \/ Tick
    /\ UNCHANGED plan

PlannedSpec ==
    /\ PlannedInit /\ [][PlannedNext]_planned
    /\ \A t \in Threads : WF_planned((CallStep(t) \/ LoadEnds(t)) /\ UNCHANGED plan)
=============================================================================
