-------------------------- MODULE SingleFlightCache --------------------------
(***************************************************************************)
(* tasks/rust/rust_007_single_flight_cache: a sharded cache in which at    *)
(* most one loader runs per key and everybody else waits for its flight.   *)
(* Loaders run outside all locks and may call the cache again.  What runs  *)
(* under a shard's mutex is one step, for nothing there waits; the clock   *)
(* is read before the mutex is taken.                                      *)
(***************************************************************************)
EXTENDS Integers, Sequences, FiniteSets, SequencesExt

CONSTANTS
    Threads, Keys,
    ShardCount, ShardOf,   \* DefaultHasher modulo shard_count
    Capacity,
    Ttls,                  \* the ttl_ticks the cache may be built with
    MayLoad,               \* the keys the loader of a key may ask the cache for
    StuckKeys,             \* keys whose loaders may never end
    Counters,              \* threads calling len()
    Closers,               \* threads calling close()
    MaxCalls,              \* bound: calls of get_or_load, nested ones included
    MaxTime                \* bound: the injected clock stops there

ASSUME ShardAssumption ==
    /\ Capacity \in Nat \ {0} /\ ShardCount \in 1..Capacity
    /\ ShardOf \in [Keys -> 1..ShardCount]
    /\ MayLoad \in [Keys -> SUBSET Keys]
    /\ StuckKeys \subseteq Keys /\ Ttls \subseteq Nat
ASSUME BoundAssumption == MaxCalls \in Nat /\ MaxTime \in Nat

VARIABLES
    clock, ttl,
    closed,
    entries,     \* of each key: absent, loading or ready
    recency,     \* the counter next_recency() increments
    uses,        \* history: the keys in the order they were used
    flights,     \* every Flight ever made: its owner and its result
    stack,       \* the calls of get_or_load each thread is in, innermost last
    calls,       \* how many calls of get_or_load were made
    answers,     \* history: what the callers of each flight were given
    closer,      \* per caller of close(): the shard it drains next
    counter      \* per caller of len(): its reading of the clock, its next shard

store == <<entries, recency, uses, flights>>
callers == <<stack, calls, answers>>
others == <<closer, counter>>
vars == <<clock, ttl, closed, store, callers, others>>

Absent == [state |-> "absent"]
Loading(f) == [state |-> "loading", flight |-> f]
Ready(f, expires, use) ==
    [state |-> "ready", flight |-> f, expires_at |-> expires, recency |-> use]

Shard(i) == {k \in Keys : ShardOf[k] = i}
\* The index in the code starts at zero.
Quota(i) == (Capacity \div ShardCount) + (IF i - 1 < Capacity % ShardCount THEN 1 ELSE 0)

Init ==
    /\ clock = 0 /\ ttl \in Ttls
    /\ closed = FALSE
    /\ entries = [k \in Keys |-> Absent]
    /\ recency = 0 /\ uses = <<>>
    /\ flights = <<>>
    /\ stack = [t \in Threads |-> <<>>]
    /\ calls = 0
    /\ answers = <<>>
    /\ closer = [c \in Closers |-> 0]
    /\ counter = [c \in Counters |-> [now |-> -1, shard |-> 0]]

-----------------------------------------------------------------------------
(* Helpers *)

\* The innermost call of t is at the given place.
InCall(t, place) == stack[t] # <<>> /\ Last(stack[t]).at = place
Call(t) == Last(stack[t])
Update(t, call) == stack' = [stack EXCEPT ![t] = Append(Front(@), call)]

\* The innermost call of t returns; the loader around it, if any, goes on.
Return(t) == stack' = [stack EXCEPT ![t] = Front(@)]
Answer(t, f, result) ==
    /\ Return(t)
    /\ answers' = [answers EXCEPT ![f] = @ \cup {result}]

\* Flight::complete: the first result stays.
Completed(f, result) == IF flights[f].result = "none" THEN result ELSE flights[f].result
Complete(f, result) == flights' = [flights EXCEPT ![f].result = Completed(f, result)]

IsReady(e) == e.state = "ready"
Expired(e, now) == IsReady(e) /\ now >= e.expires_at
ReadyIn(i, es) == {k \in Shard(i) : IsReady(es[k])}

Purged(es, i, now) ==
    [k \in Keys |-> IF k \in Shard(i) /\ Expired(es[k], now) THEN Absent ELSE es[k]]

-----------------------------------------------------------------------------
(* get_or_load *)

\* The first check of `closed` and the reading of the clock, before the mutex.
\* They are one step: once closed, LookUp refuses whatever was read.
Enter(t, k) ==
    /\ calls < MaxCalls /\ calls' = calls + 1
    /\ stack[t] = <<>> \/ (InCall(t, "loader") /\ k \in MayLoad[Call(t).key])
    /\ IF closed THEN UNCHANGED stack
       ELSE stack' = [stack EXCEPT ![t] =
                        Append(@, [key |-> k, at |-> "timed", now |-> clock, flight |-> 0])]
    /\ UNCHANGED <<clock, ttl, closed, store, answers, others>>

HitForgets(t, k) ==
    /\ IsReady(entries[k]) /\ ~Expired(entries[k], Call(t).now)
    /\ uses' = Append(uses, k)
    /\ Answer(t, entries[k].flight, "value")
    /\ UNCHANGED <<entries, recency, flights>>
Hit(t, k) ==
    /\ IsReady(entries[k]) /\ ~Expired(entries[k], Call(t).now)
    /\ entries' = [entries EXCEPT ![k].recency = recency]
    /\ recency' = recency + 1
    /\ uses' = Append(uses, k)
    /\ Answer(t, entries[k].flight, "value")
    /\ UNCHANGED flights

NeverOwn(t, k) == FALSE
OwnLoad(t, k) == entries[k].state = "loading" /\ flights[entries[k].flight].owner = t

Join(t, k) ==
    /\ entries[k].state = "loading"
    /\ IF OwnLoad(t, k) THEN Return(t)  \* ReentrantLoad
       ELSE Update(t, [Call(t) EXCEPT !.at = "waiting", !.flight = entries[k].flight])
    /\ UNCHANGED <<store, answers>>

NotReady(t, k) == ~IsReady(entries[k]) \/ Expired(entries[k], Call(t).now)
NobodyLoads(t, k) == entries[k].state = "absent" \/ Expired(entries[k], Call(t).now)

Lead(t, k) ==
    /\ NobodyLoads(t, k)
    /\ flights' = Append(flights, [owner |-> t, result |-> "none"])
    /\ answers' = Append(answers, {})
    /\ entries' = [entries EXCEPT ![k] = Loading(Len(flights'))]
    /\ Update(t, [Call(t) EXCEPT !.at = "loader", !.flight = Len(flights')])
    /\ UNCHANGED <<recency, uses>>

\* The second check of `closed`, under the mutex of the shard.
ClosedUnread == FALSE
ClosedUnderLock == closed

LookUp(t) ==
    /\ InCall(t, "timed")
    /\ \/ ClosedUnderLock /\ Return(t) /\ UNCHANGED <<store, answers>>
       \/ ~ClosedUnderLock /\ LET k == Call(t).key IN Hit(t, k) \/ Join(t, k) \/ Lead(t, k)
    /\ UNCHANGED <<clock, ttl, closed, calls, others>>

\* Flight::wait and its loop around the condition variable.
AnyWakeUp(f) == TRUE
FlightCompleted(f) == flights[f].result # "none"
Wait(t) ==
    /\ InCall(t, "waiting")
    /\ LET f == Call(t).flight
       IN  FlightCompleted(f) /\ Answer(t, f, flights[f].result)
    /\ UNCHANGED <<clock, ttl, closed, store, calls, others>>

-----------------------------------------------------------------------------
(* publish and evict *)

OwnsEntry(k, f) == entries[k].state = "loading" /\ entries[k].flight = f

OldestUse(es, ready) == CHOOSE k \in ready : \A q \in ready : es[k].recency <= es[q].recency

Excess(es, i) == Cardinality(ReadyIn(i, es)) > Quota(i)

\* One key is published at a time, so at most one entry is in excess.
Evicted(es, i) ==
    IF Excess(es, i) THEN [es EXCEPT ![OldestUse(es, ReadyIn(i, es))] = Absent] ELSE es

PublishValue(k, f) ==
    /\ IF ttl = 0
         THEN entries' = [entries EXCEPT ![k] = Absent] /\ UNCHANGED <<recency, uses>>
         ELSE LET inserted == [entries EXCEPT ![k] = Ready(f, clock + ttl, recency)]
              IN  /\ entries' = Evicted(Purged(inserted, ShardOf[k], clock), ShardOf[k])
                  /\ recency' = recency + 1 /\ uses' = Append(uses, k)

EntriesKept(k, f) == entries
EntriesWithout(k, f) == IF OwnsEntry(k, f) THEN [entries EXCEPT ![k] = Absent] ELSE entries

\* The loader returns a value or fails: with an error of its own or a panic.
Publish(t, loaded) ==
    /\ InCall(t, "loader")
    /\ LET k == Call(t).key
           f == Call(t).flight
           accepted == OwnsEntry(k, f) /\ ~closed
           result == Completed(f, IF accepted THEN loaded ELSE "closed")
       IN  /\ Complete(f, result)
           /\ Answer(t, f, result)
           /\ IF accepted /\ loaded = "value" THEN PublishValue(k, f)
              ELSE entries' = EntriesWithout(k, f) /\ UNCHANGED <<recency, uses>>
    /\ UNCHANGED <<clock, ttl, closed, calls, others>>

LoaderEnds(t) == \E loaded \in {"value", "failure"} : Publish(t, loaded)

-----------------------------------------------------------------------------
(* close() and len(), which visit the shards one after another *)

IsShard(i) == i \in 1..ShardCount

StartClose(c) ==
    /\ closer[c] = 0
    /\ closed' = TRUE
    /\ closer' = [closer EXCEPT ![c] = 1]
    /\ UNCHANGED <<clock, ttl, store, callers, counter>>

LoadingIn(i) == {k \in Shard(i) : entries[k].state = "loading"}

\* The flights of the shard are completed with Closed.
DrainedFlights(i) == {entries[k].flight : k \in LoadingIn(i)}

DrainShard(c) ==
    /\ IsShard(closer[c])
    /\ flights' = [f \in DOMAIN flights |->
                     [flights[f] EXCEPT !.result =
                         IF f \in DrainedFlights(closer[c]) THEN Completed(f, "closed") ELSE @]]
    /\ entries' = [k \in Keys |-> IF k \in Shard(closer[c]) THEN Absent ELSE entries[k]]
    /\ closer' = [closer EXCEPT ![c] = @ + 1]
    /\ UNCHANGED <<clock, ttl, closed, recency, uses, callers, counter>>

CloseReturned(c) == closer[c] > ShardCount

StartLen(c) ==
    /\ counter[c].shard = 0
    /\ counter' = [counter EXCEPT ![c] = [now |-> clock, shard |-> 1]]
    /\ UNCHANGED <<clock, ttl, closed, store, callers, closer>>

LenShard(c) ==
    /\ IsShard(counter[c].shard)
    /\ entries' = Purged(entries, counter[c].shard, counter[c].now)
    /\ counter' = [counter EXCEPT ![c].shard = @ + 1]
    /\ UNCHANGED <<clock, ttl, closed, recency, uses, flights, callers, closer>>

Tick ==
    /\ clock < MaxTime
    /\ clock' = clock + 1
    /\ UNCHANGED <<ttl, closed, store, callers, others>>

-----------------------------------------------------------------------------
CallStep(t) == LookUp(t) \/ Wait(t)

Next ==
    \/ \E t \in Threads : (\E k \in Keys : Enter(t, k)) \/ CallStep(t) \/ LoaderEnds(t)
    \/ \E c \in Closers : StartClose(c) \/ DrainShard(c)
    \/ \E c \in Counters : StartLen(c) \/ LenShard(c)
    \/ Tick

\* A thread inside the cache goes on, and a loader ends unless its key is
\* stuck.  Nobody has to make a call or to go on closing, and the clock may
\* stand still.
LoadEnds(t) == InCall(t, "loader") /\ Call(t).key \notin StuckKeys /\ LoaderEnds(t)
Spec ==
    /\ Init /\ [][Next]_vars
    /\ \A t \in Threads : WF_vars(CallStep(t) \/ LoadEnds(t))

-----------------------------------------------------------------------------
(* Properties *)

Results == {"value", "failure", "closed"}
Places == {"timed", "loader", "waiting"}

\* TASK.md: "At most one loader may execute for a key".
OneLoaderPerKey ==
    \A t, u \in Threads : \A i \in DOMAIN stack[t], j \in DOMAIN stack[u] :
        /\ stack[t][i].at = "loader" /\ stack[u][j].at = "loader"
        /\ stack[t][i].key = stack[u][j].key
        => t = u /\ i = j

\* Leader, waiters and later hits of one flight are given the same, which is
\* what the flight holds; a value nobody was to see is never handed out.
OneAnswerPerFlight ==
    \A f \in DOMAIN flights : answers[f] \subseteq {flights[f].result} \ {"none"}

\* A ready entry is the value of a successful flight; a loading entry belongs
\* to a flight whose owner is still loading and which nobody has completed; the
\* ready entries of a shard stay within its quota, and all of them within the
\* capacity, although the shards are filled independently.
EntriesMatchFlights ==
    /\ \A i \in 1..ShardCount : Cardinality(ReadyIn(i, entries)) <= Quota(i)
    /\ Cardinality({k \in Keys : IsReady(entries[k])}) <= Capacity
    /\ \A k \in Keys :
            /\ IsReady(entries[k]) => flights[entries[k].flight].result = "value"
            /\ entries[k].state = "loading" =>
                 LET flight == flights[entries[k].flight]
                 IN  /\ flight.result = "none"
                     /\ \E i \in DOMAIN stack[flight.owner] :
                           LET call == stack[flight.owner][i]
                           IN  /\ call.key = k /\ call.flight = entries[k].flight
                               /\ call.at = "loader"

\* The value that was just published is in the cache, and what a step removes
\* unexpired from the open cache was used, by a load or a hit, before everything
\* it keeps of that shard: eviction, purging and the stale clock readings of
\* len() never lose more than the least recently used.
PublishedStays ==
    \A f \in DOMAIN flights :
        flights[f].result = "none" /\ flights'[f].result = "value" /\ ttl > 0
        => \E k \in Keys : IsReady(entries'[k]) /\ entries'[k].flight = f
UsedLater(log, q, k) ==
    \E i \in DOMAIN log : log[i] = q /\ \A j \in DOMAIN log : log[j] = k => j < i
DropsLeastRecent ==
    \A k, q \in Keys :
        /\ ~closed /\ k # q /\ ShardOf[k] = ShardOf[q]
        /\ IsReady(entries[k]) /\ ~Expired(entries[k], clock) /\ ~IsReady(entries'[k])
        /\ IsReady(entries'[q])
        => UsedLater(uses', q, k)
EvictsLeastRecent == [][PublishedStays /\ DropsLeastRecent]_vars

\* Once a close() has returned, the cache is empty and stays so, and no flight
\* is open: a loader that ends later repopulates nothing.
EmptyAfterClose ==
    (\E c \in Closers : CloseReturned(c)) =>
        /\ \A k \in Keys : entries[k] = Absent
        /\ \A f \in DOMAIN flights : flights[f].result # "none"

FreeKeys == {k \in Keys \ StuckKeys : MayLoad[k] \cap StuckKeys = {}}
InFreeCall(t) == \E i \in DOMAIN stack[t] : stack[t][i].key \in FreeKeys

\* TASK.md: "A blocked loader must not prevent a ready hit or another key's
\* loader from completing": a call for a key returns whose own loader, and the
\* loaders it may ask for, are not stuck.
CallsReturn == \A t \in Threads : InFreeCall(t) ~> ~InFreeCall(t)
=============================================================================
